------------------------------ MODULE TaskRecord ------------------------------
(***************************************************************************)
(* The life of one task in app/tasks.py: created, edited, completed,       *)
(* reopened and deleted by the bots that serve its owner.  A command reads *)
(* the task and validates outside the transaction that then writes: with   *)
(* one bot nothing happens in between, with two the other may write first. *)
(***************************************************************************)
EXTENDS EditCommand, FiniteSets

CONSTANTS
  Bots,     \* the bot processes
  Rows,     \* the rows /addtask and the model's tool create
  Commands, \* the /edit messages
  MaxLog    \* bound on the completion log

ASSUME TaskRecordAssumption ==
  /\ \A r \in Rows : DOMAIN r = Columns /\ Validated(r)
  /\ MaxLog \in Nat /\ IsFiniteSet(Bots)

VARIABLES
  row,        \* items.title, task_items and item_tags
  status,     \* items.status
  completed,  \* task_items.completed_at is set
  log,        \* completion_logs.event_type, oldest first
  doing,      \* what each bot has read and is about to write
  crashed     \* a write failed on a CHECK: the handler ends without a reply

vars == <<row, status, completed, log, doing, crashed>>

Idle == [op |-> "idle"]

Init ==
  /\ row \in Rows
  /\ status = "active" /\ completed = FALSE /\ log = << >>
  /\ doing = [b \in Bots |-> Idle]
  /\ crashed = FALSE

-----------------------------------------------------------------------------
(* What a command finds before its transaction; all others are refused.     *)
CanCompleteAgain == status # "deleted"
CanComplete == status = "active"
CanReopen == status = "completed"

(* An edit reads the task twice: edit_task_by_ref its tags, then            *)
(* update_task_fields its columns.  Nothing archives a category or removes  *)
(* a tag, so the lookups repeated in the transaction find what these found. *)
ReadTags(b, m) ==
  /\ doing[b] = Idle
  /\ status # "deleted" /\ Parses(m) /\ NamesExist(m)
  /\ doing' = [doing EXCEPT ![b] = [op |-> "begun", message |-> m, tags |-> row.tags]]
  /\ UNCHANGED <<row, status, completed, log, crashed>>

ReadFields(b) ==
  /\ doing[b].op = "begun"
  /\ LET m == doing[b].message
         seen == [row EXCEPT !.tags = doing[b].tags]
     IN  doing' = [doing EXCEPT ![b] =
           IF status # "deleted" /\ Accepted(m, seen)
           THEN [op |-> "edit", next |-> NextRow(m, seen), touches |-> TouchesTags(m)]
           ELSE Idle]
  /\ UNCHANGED <<row, status, completed, log, crashed>>

ReadTransition(b, op) ==
  /\ doing[b] = Idle
  /\ CASE op = "done" -> CanComplete
       [] op = "reopen" -> CanReopen
       [] op = "delete" -> status # "deleted"
  /\ doing' = [doing EXCEPT ![b] = [op |-> op]]
  /\ UNCHANGED <<row, status, completed, log, crashed>>

(* UPDATE items ... WHERE deleted_at IS NULL.                               *)
NextStatus(next) == IF status = "deleted" THEN status ELSE next

(* The columns an edit writes: all of task_items, the title of an item that *)
(* is not deleted, and the tags when the edit names some.                   *)
Written(d) == [f \in DOMAIN row |->
  IF (f = "title" /\ status = "deleted") \/ (f = "tags" /\ ~d.touches) THEN row[f] ELSE d.next[f]]

(* The CHECKs of task_items.                                                *)
Checks(r) ==
  /\ r.type # None => r.deadline # None
  /\ r.start # None /\ r.end # None => r.start <= r.end
  /\ r.estimate # None => r.estimate > 0

WriteEdit(b) ==
  /\ doing[b].op = "edit"
  /\ doing' = [doing EXCEPT ![b] = Idle]
  /\ IF Checks(Written(doing[b]))
     THEN row' = Written(doing[b]) /\ UNCHANGED crashed
     ELSE crashed' = TRUE /\ UNCHANGED row
  /\ UNCHANGED <<status, completed, log>>

WriteDone(b) ==
  /\ doing[b].op = "done"
  /\ Len(log) < MaxLog
  /\ status' = NextStatus("completed")
  /\ completed' = TRUE
  /\ log' = Append(log, "completed")
  /\ doing' = [doing EXCEPT ![b] = Idle]
  /\ UNCHANGED <<row, crashed>>

WriteReopen(b) ==
  /\ doing[b].op = "reopen"
  /\ Len(log) < MaxLog
  /\ status' = NextStatus("active")
  /\ completed' = FALSE
  /\ log' = Append(log, "reopened")
  /\ doing' = [doing EXCEPT ![b] = Idle]
  /\ UNCHANGED <<row, crashed>>

WriteDelete(b) ==
  /\ doing[b].op = "delete"
  /\ status' = NextStatus("deleted")
  /\ doing' = [doing EXCEPT ![b] = Idle]
  /\ UNCHANGED <<row, completed, log, crashed>>

(* A bot stops before its transaction commits: nothing is written.          *)
Stop(b) ==
  /\ doing[b] # Idle
  /\ doing' = [doing EXCEPT ![b] = Idle]
  /\ UNCHANGED <<row, status, completed, log, crashed>>

Next == \E b \in Bots :
  \/ \E m \in Commands : ReadTags(b, m)
  \/ ReadFields(b)
  \/ \E op \in {"done", "reopen", "delete"} : ReadTransition(b, op)
  \/ WriteEdit(b) \/ WriteDone(b) \/ WriteReopen(b) \/ WriteDelete(b)
  \/ Stop(b)

Spec == Init /\ [][Next]_vars

-----------------------------------------------------------------------------
(* Properties.                                                              *)

(* No edit that was validated dies on a CHECK of the table, whatever the    *)
(* other bot stored between its reads and its writes: update_task_fields    *)
(* writes all the columns that the CHECKs relate.  What the other bot       *)
(* stored meanwhile it overwrites.                                          *)
NoEditDiesOnACheck == ~crashed

(* completed_at and the status say what the last entry of the completion    *)
(* log says, as long as the task is not deleted.                            *)
SnapshotMatchesHistory ==
  /\ completed <=> log # << >> /\ log[Len(log)] = "completed"
  /\ status # "deleted" => (status = "completed" <=> completed)

(* Bots that read the same state log the same transition, so it may be      *)
(* repeated, but never more often in a row than there are bots: once the    *)
(* first has been written no other bot finds the task ready for it.         *)
RepeatsBounded ==
  \A i \in 1..Len(log) - Cardinality(Bots) :
    \E j \in i..i + Cardinality(Bots) - 1 : log[j] # log[j + 1]

(* Every entry of the completion log is a transition: with one bot a task   *)
(* is never completed twice without being reopened in between.              *)
HistoryAlternates ==
  \A i \in 1..Len(log) : log[i] = (IF i % 2 = 1 THEN "completed" ELSE "reopened")

(* A deleted task never comes back, and its title is never edited again.    *)
DeletedIsFinal == [][status = "deleted" => status' = "deleted" /\ row'.title = row.title]_vars
=============================================================================
