---------------------------- MODULE OwnerCommands ----------------------------
(***************************************************************************)
(* The commands of telegram/bot.py that read and write an owner's dates:   *)
(* the views (/today, /due, /urgent), /remind and /edit.  The bot handles  *)
(* one update at a time, so a behaviour is about one command; the views    *)
(* are looked at again and again as time goes by.                          *)
(***************************************************************************)
EXTENDS TaskViews, EditRequest, ReminderTime

VARIABLE handled   \* the command this behaviour is about

ownerVars == <<handled, viewVars, editVars, remindVars>>

NoViews ==
  /\ zone = CHOOSE z \in Zones : TRUE
  /\ task = [t \in Refs |-> CHOOSE r \in Rows : TRUE]
  /\ active = {} /\ now = FirstNow
NoEdit ==
  /\ row = CHOOSE r \in EditedRows : TRUE
  /\ found = row /\ message = << >> /\ answer = "none"
NoRemind ==
  /\ remindZone = CHOOSE z \in RemindZones : TRUE
  /\ expr = CHOOSE e \in Expressions : TRUE
  /\ asked = CHOOSE u \in Nows : TRUE
  /\ reply = Unanswered

OwnerInit ==
  \/ handled = "views" /\ ViewsInit /\ NoEdit /\ NoRemind
  \/ handled = "edit" /\ EditInit /\ NoViews /\ NoRemind
  \/ handled = "remind" /\ RemindInit /\ NoViews /\ NoEdit

LookAtViews == handled = "views" /\ ViewsNext /\ UNCHANGED <<handled, editVars, remindVars>>
HandleEdit == handled = "edit" /\ EditNext /\ UNCHANGED <<handled, viewVars, remindVars>>
HandleRemind == handled = "remind" /\ RemindNext /\ UNCHANGED <<handled, viewVars, editVars>>

OwnerNext == LookAtViews \/ HandleEdit \/ HandleRemind

OwnerSpec == OwnerInit /\ [][OwnerNext]_ownerVars
=============================================================================
