----------------------------- MODULE EditRequest -----------------------------
(***************************************************************************)
(* _edit_handler (telegram/bot.py): one /edit message about one task is    *)
(* parsed, checked and stored, or refused as a whole.                      *)
(***************************************************************************)
EXTENDS EditCommand

CONSTANTS
  EditedRows,  \* the tasks a message may find, all of them validated
  Messages     \* the messages

ASSUME EditRequestAssumption ==
  /\ \A r \in EditedRows : DOMAIN r = Columns
  /\ \A m \in Messages : Len(m) \in Nat /\ DOMAIN m = 1..Len(m)

VARIABLES
  row,      \* the task as stored
  message,  \* the message
  found,    \* the task as the message found it
  answer    \* what the handler answers

editVars == <<row, message, found, answer>>

EditInit ==
  /\ row \in EditedRows /\ message \in Messages
  /\ found = row /\ answer = "none"

Store ==
  /\ answer = "none" /\ Accepted(message, row)
  /\ row' = NextRow(message, row)
  /\ answer' = "updated"
  /\ UNCHANGED <<message, found>>

Refuse ==
  /\ answer = "none" /\ ~Accepted(message, row)
  /\ answer' = "refused"
  /\ UNCHANGED <<row, message, found>>

EditNext == Store \/ Refuse

EditSpec == EditInit /\ [][EditNext]_editVars

-----------------------------------------------------------------------------
(* Properties.                                                              *)

Orders(m) == {[i \in DOMAIN m |-> m[p[i]]] :
                p \in {q \in [DOMAIN m -> DOMAIN m] : \A i, j \in DOMAIN m : q[i] = q[j] => i = j}}

(* "Flags may be in any order": the order of the flags neither decides      *)
(* whether an edit is accepted nor what it stores.                          *)
FlagsInAnyOrder == answer # "none" => \A other \in Orders(message) :
  /\ Accepted(other, found) <=> answer = "updated"
  /\ answer = "updated" => NextRow(other, found) = row

(* An update that Telegram delivers again after a restart is handled again: *)
(* an edit made twice is accepted again and changes nothing more.           *)
EditingTwiceIsEditingOnce == answer = "updated" =>
  Accepted(message, row) /\ NextRow(message, row) = row

(* What a part of an accepted edit asks of the stored row.                  *)
ShowsFirst(u, w) == Wall(UserZone, u) = w /\ \A v \in u - Day..u - 1 : Wall(UserZone, v) # w
DateField == [f \in {"-deadline", "-planned-start", "-planned-end"} |->
  CASE f = "-deadline" -> "deadline" [] f = "-planned-start" -> "start" [] f = "-planned-end" -> "end"]
Done(part) ==
  CASE part.flag \in DOMAIN DateField ->
         LET u == row[DateField[part.flag]] IN
         u # None /\ (Candidates(UserZone, WallOf(part.word)) # {} => ShowsFirst(u, WallOf(part.word)))
    [] part.flag = "-add-tag" -> part.word \in row.tags
    [] part.flag = "-remove-tag" -> part.word \notin row.tags
    [] part.flag = "-clear-tags" -> row.tags = {}
    [] OTHER -> \A f \in DOMAIN Sets(part) : row[f] = Sets(part)[f]

(* An accepted edit does what every one of its flags asks for, and leaves   *)
(* every column and every tag that no flag names as it was.                 *)
EditsDoWhatTheySay == answer = "updated" =>
  LET named == Words(message, "-add-tag") \cup Words(message, "-remove-tag")
  IN  /\ \A p \in Parts(message) : Done(p)
      /\ \A f \in DOMAIN row \ (UpdatedFields(message) \cup {"tags"}) : row[f] = found[f]
      /\ "-clear-tags" \notin Flags(message) => row.tags \ named = found.tags \ named
=============================================================================
