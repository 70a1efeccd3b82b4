-------------------------- MODULE MCReminderCycle --------------------------
(* Instances of ReminderCycle.  Task 1 belongs to ann, task 2 to bob; bob   *)
(* may be missing from the allowlist of a start.                            *)
EXTENDS ReminderCycle

Users == {"ann", "bob"}
MCTasks == {1, 2}
MCOwnerOf == <<"ann", "bob">>
MCAllowLists == {Users, {"ann"}}
MCAllowAll == {Users}
MCRetryDelay == <<1, 1, 1>>

(* Two reminders of two owners, due at the same time.                       *)
Two == 1..2
TwoTasks == <<1, 2>>
TwoSched == <<1, 1>>

(* The same, but both of ann: two missed reminders make a summary; with a   *)
(* batch of one, the second waits for the first.                            *)
AnnOnly == <<"ann", "ann">>

(* One reminder alone, for the runs that need every retry.                  *)
One == {1}
OneTask == <<1>>
OneSched == <<1>>
OneOwner == <<"ann">>
=============================================================================
