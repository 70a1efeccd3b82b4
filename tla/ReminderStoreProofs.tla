------------------------ MODULE ReminderStoreProofs ------------------------
(***************************************************************************)
(* The invariants of the reminders table, for every set of reminders and   *)
(* tasks, every timing constant and any number of callers.                 *)
(*                                                                         *)
(* Every proof goes through one summary of the table's steps: RowMove says *)
(* what one step may do to one row.                                        *)
(***************************************************************************)
EXTENDS ReminderStore, TLAPS

(* The row changes its status, and nothing the retry policy reads.          *)
Moves(r, from, to) ==
  /\ rem[r].status \in from
  /\ rem'[r].status \in to
  /\ rem'[r].retry = rem[r].retry
  /\ rem'[r].last = rem[r].last

Created(r) ==
  /\ rem[r].status = "none"
  /\ rem'[r].status = "pending" /\ rem'[r].retry = 0 /\ rem'[r].last = NoTime
  /\ SchedOf[r] > now /\ TaskActive(r) /\ ~SlotOccupied(r)
  /\ \A q \in Reminders : q # r => rem'[q] = rem[q]
  /\ UNCHANGED <<now, task>>

Claimed(r) ==
  /\ Moves(r, {"pending"}, {"processing"})
  /\ SchedOf[r] <= now \/ rem[r].retry > 0

Released(r) == Moves(r, {"processing"}, {"pending", "sent", "cancelled", "expired"})

Cancelled(r) == Moves(r, {"pending"}, {"cancelled"})

Attempted(r) ==
  /\ rem[r].status = "processing" /\ rem[r].retry \in 0..3
  /\ rem'[r].status = IF rem[r].retry = 3 THEN "failed" ELSE "pending"
  /\ rem'[r].retry = rem[r].retry + 1
  /\ rem'[r].last \in Nat

RowMove(r) ==
  \/ rem'[r] = rem[r]
  \/ Created(r) \/ Claimed(r) \/ Released(r) \/ Cancelled(r) \/ Attempted(r)

(* What a step does to the tasks: one that stops being active takes its     *)
(* pending future reminders with it.                                        *)
TaskMove ==
  \A r \in Reminders :
    task'[TaskOf[r]] # "active" =>
      \/ task[TaskOf[r]] # "active"
      \/ /\ now' = now
         /\ rem[r].status = "pending" /\ SchedOf[r] > now => rem'[r].status = "cancelled"
         /\ rem[r].status # "pending" => rem'[r] = rem[r]

Summary ==
  /\ StoreTypeOK'
  /\ now' >= now
  /\ \A r \in Reminders : RowMove(r)
  /\ TaskMove

-----------------------------------------------------------------------------
(* UPDATE of the status of a set of rows: type and effect on each row.      *)
LEMMA SetStatusEffect ==
  ASSUME StoreTypeOK, NEW S \in SUBSET Reminders, NEW at \in Nat,
         NEW s \in ActiveStatus \cup TerminalStatus, SetStatus(S, s, at)
  PROVE  /\ rem' \in [Reminders -> Row]
         /\ \A r \in Reminders \ S : rem'[r] = rem[r]
         /\ \A r \in S : /\ rem'[r].status = s
                         /\ rem'[r].retry = rem[r].retry
                         /\ rem'[r].last = rem[r].last
  <1>1. \A r \in Reminders : rem[r] \in Row
    BY DEF StoreTypeOK
  <1>2. \A r \in Reminders : [rem[r] EXCEPT !.status = s, !.upd = at] \in Row
    BY <1>1 DEF Row
  <1>3. rem' \in [Reminders -> Row]
    BY <1>1, <1>2 DEF SetStatus
  <1>4. \A r \in Reminders \ S : rem'[r] = rem[r]
    BY DEF SetStatus
  <1>5. \A r \in S : rem'[r] = [rem[r] EXCEPT !.status = s, !.upd = at]
    BY DEF SetStatus
  <1>6. \A r \in S : /\ rem'[r].status = s
                     /\ rem'[r].retry = rem[r].retry
                     /\ rem'[r].last = rem[r].last
    BY <1>1, <1>5 DEF Row
  <1> QED
    BY <1>3, <1>4, <1>6

(* A recorded failure: the row stays a row and has used one more attempt.   *)
LEMMA FailedRowEffect ==
  ASSUME NEW row \in Row, row.retry \in 0..3, NEW at \in Nat
  PROVE  /\ FailedRow(row, at) \in Row
         /\ FailedRow(row, at).status = IF row.retry = 3 THEN "failed" ELSE "pending"
         /\ FailedRow(row, at).retry = row.retry + 1
         /\ FailedRow(row, at).last = at
  <1> DEFINE s == IF row.retry + 1 < 4 THEN "pending" ELSE "failed"
             n == row.retry + 1
  <1>1. s \in {"none"} \cup ActiveStatus \cup TerminalStatus
    BY DEF ActiveStatus, TerminalStatus
  <1>2. n \in 0..4 /\ s = IF row.retry = 3 THEN "failed" ELSE "pending"
    OBVIOUS
  <1>3. at \in Nat \cup {NoTime}
    OBVIOUS
  <1>4. FailedRow(row, at) = [row EXCEPT !.status = s, !.retry = n, !.last = at, !.upd = at]
    BY DEF FailedRow, Row
  <1> HIDE DEF s, n
  <1> QED
    BY <1>1, <1>2, <1>3, <1>4 DEF Row, n

(* Rows that move from one status to another, all the rest as they were.    *)
LEMMA SetStatusMoves ==
  ASSUME StoreTypeOK, NEW S \in SUBSET Reminders, NEW at \in Nat,
         NEW s \in ActiveStatus \cup TerminalStatus, SetStatus(S, s, at),
         NEW from, \A r \in S : rem[r].status = from
  PROVE  \A r \in Reminders : rem'[r] = rem[r] \/ (r \in S /\ Moves(r, {from}, {s}))
  BY SetStatusEffect DEF Moves

-----------------------------------------------------------------------------
(* Commands.                                                                *)

LEMMA CreateMoves ==
  ASSUME StoreTypeOK, NEW r \in Reminders, CreateReminder(r)
  PROVE  Summary
  <1> DEFINE row == [status |-> "pending", retry |-> 0, last |-> NoTime, upd |-> now]
  <1>1. row \in Row
    BY DEF StoreTypeOK, Row, ActiveStatus, NoTime
  <1>2. rem' \in [Reminders -> Row] /\ UNCHANGED <<now, task>>
    BY <1>1 DEF CreateReminder, StoreTypeOK
  <1>3. rem'[r] = row /\ \A q \in Reminders : q # r => rem'[q] = rem[q]
    BY DEF CreateReminder, StoreTypeOK
  <1>4. Created(r)
    BY <1>2, <1>3 DEF CreateReminder, Created, Is
  <1> QED
    BY <1>2, <1>3, <1>4 DEF Summary, RowMove, TaskMove, StoreTypeOK

(* The cancelling commands that leave the tasks alone.                      *)
LEMMA CancelMoves ==
  ASSUME StoreTypeOK, NEW S \in SUBSET Reminders, \A r \in S : Is(r, "pending"),
         SetStatus(S, "cancelled", now), UNCHANGED <<now, task>>
  PROVE  Summary
  <1>1. now \in Nat /\ "cancelled" \in ActiveStatus \cup TerminalStatus
    BY DEF StoreTypeOK, TerminalStatus
  <1>2. rem' \in [Reminders -> Row]
    BY <1>1, SetStatusEffect
  <1>3. \A r \in Reminders : RowMove(r)
    BY <1>1, SetStatusMoves DEF RowMove, Cancelled, Is
  <1> QED
    BY <1>1, <1>2, <1>3 DEF Summary, StoreTypeOK, TaskMove

(* /done and /delete.                                                       *)
LEMMA EndTaskMoves ==
  ASSUME StoreTypeOK, NEW t \in Tasks, NEW s \in TaskStatus,
         task' = [task EXCEPT ![t] = s],
         SetStatus(FuturePending(t), "cancelled", now), UNCHANGED now
  PROVE  Summary
  <1>1. now \in Nat /\ "cancelled" \in ActiveStatus \cup TerminalStatus
    BY DEF StoreTypeOK, TerminalStatus
  <1>2. FuturePending(t) \in SUBSET Reminders /\ \A r \in FuturePending(t) : Is(r, "pending")
    BY DEF FuturePending
  <1>3. StoreTypeOK'
    BY <1>1, <1>2, SetStatusEffect DEF StoreTypeOK
  <1>4. \A r \in Reminders : RowMove(r)
    BY <1>1, <1>2, SetStatusMoves DEF RowMove, Cancelled, Is
  <1>5. TaskMove
    <2> SUFFICES ASSUME NEW r \in Reminders,
                        task'[TaskOf[r]] # "active", task[TaskOf[r]] = "active"
                 PROVE  /\ Is(r, "pending") /\ SchedOf[r] > now => rem'[r].status = "cancelled"
                        /\ ~Is(r, "pending") => rem'[r] = rem[r]
      BY DEF TaskMove, Is
    <2>1. TaskOf[r] = t
      BY StoreAssumption DEF StoreTypeOK
    <2>2. r \in FuturePending(t) \/ rem'[r] = rem[r]
      BY <1>1, <1>2, SetStatusEffect
    <2> QED
      BY <1>1, <1>2, <2>1, <2>2, SetStatusEffect DEF FuturePending, Is
  <1> QED
    BY <1>1, <1>3, <1>4, <1>5 DEF Summary

LEMMA CommandMoves ==
  ASSUME StoreTypeOK, UserCommand
  PROVE  Summary
  <1>1. ASSUME NEW r \in Reminders, CreateReminder(r) PROVE Summary
    BY <1>1, CreateMoves
  <1>2. ASSUME NEW r \in Reminders, CancelPendingReminder(r) PROVE Summary
    <2>1. {r} \in SUBSET Reminders /\ \A q \in {r} : Is(q, "pending")
      BY <1>2 DEF CancelPendingReminder
    <2> QED BY <1>2, <2>1, CancelMoves DEF CancelPendingReminder
  <1>3. ASSUME NEW t \in Tasks, CompleteTask(t) PROVE Summary
    BY <1>3, EndTaskMoves DEF CompleteTask, TaskStatus
  <1>4. ASSUME NEW t \in Tasks, ReopenTask(t) PROVE Summary
    <2>1. StoreTypeOK' /\ now' >= now
      BY <1>4 DEF ReopenTask, StoreTypeOK, TaskStatus
    <2>2. TaskMove
      BY <1>4, StoreAssumption DEF ReopenTask, TaskMove, StoreTypeOK
    <2> QED BY <1>4, <2>1, <2>2 DEF ReopenTask, Summary, RowMove
  <1>5. ASSUME NEW t \in Tasks, SoftDeleteTask(t) PROVE Summary
    BY <1>5, EndTaskMoves DEF SoftDeleteTask, TaskStatus
  <1>6. ASSUME NEW t \in Tasks, CancelAllFuturePending(t) PROVE Summary
    <2>1. FuturePending(t) \in SUBSET Reminders /\ \A q \in FuturePending(t) : Is(q, "pending")
      BY DEF FuturePending
    <2> QED BY <1>6, <2>1, CancelMoves DEF CancelAllFuturePending
  <1>7. ASSUME NEW t \in Tasks, NEW S \in SUBSET Reminders, CancelSelectedPendingReminders(t, S)
        PROVE Summary
    BY <1>7, CancelMoves DEF CancelSelectedPendingReminders
  <1> QED
    BY <1>1, <1>2, <1>3, <1>4, <1>5, <1>6, <1>7 DEF UserCommand

-----------------------------------------------------------------------------
(* Scheduler transactions.                                                  *)

(* A claim query: pending rows that are due or have been attempted.         *)
LEMMA ClaimMoves ==
  ASSUME StoreTypeOK, NEW at \in 0..now, NEW B \in SUBSET Reminders,
         \A r \in B : Is(r, "pending") /\ (SchedOf[r] <= at \/ rem[r].retry > 0),
         SetStatus(B, "processing", at), UNCHANGED <<now, task>>
  PROVE  Summary
  <1>1. now \in Nat /\ at \in Nat /\ at <= now
    BY DEF StoreTypeOK
  <1>2. "processing" \in ActiveStatus \cup TerminalStatus
    BY DEF ActiveStatus
  <1>3. rem' \in [Reminders -> Row]
    BY <1>1, <1>2, SetStatusEffect
  <1>4. \A r \in Reminders : rem'[r] = rem[r] \/ (r \in B /\ Moves(r, {"pending"}, {"processing"}))
    BY <1>1, <1>2, SetStatusMoves DEF Is
  <1>5. \A r \in Reminders : RowMove(r)
    BY <1>1, <1>4, StoreAssumption DEF RowMove, Claimed
  <1> QED
    BY <1>1, <1>3, <1>5 DEF Summary, StoreTypeOK, TaskMove

(* A transaction that settles claimed rows without counting an attempt.     *)
LEMMA SettleMoves ==
  ASSUME StoreTypeOK, NEW at \in 0..now, NEW S \in SUBSET Reminders,
         NEW s \in {"sent", "cancelled", "expired"},
         \A r \in S : Is(r, "processing"),
         SetStatus(S, s, at), UNCHANGED <<now, task>>
  PROVE  Summary
  <1>1. now \in Nat /\ at \in Nat /\ s \in ActiveStatus \cup TerminalStatus
    BY DEF StoreTypeOK, TerminalStatus
  <1>2. rem' \in [Reminders -> Row]
    BY <1>1, SetStatusEffect
  <1>3. \A r \in Reminders : rem'[r] = rem[r] \/ (r \in S /\ Moves(r, {"processing"}, {s}))
    BY <1>1, SetStatusMoves DEF Is
  <1>4. \A r \in Reminders : RowMove(r)
    BY <1>3 DEF RowMove, Released, Moves
  <1> QED
    BY <1>1, <1>2, <1>4 DEF Summary, StoreTypeOK, TaskMove

(* A transaction that counts a failed attempt of claimed rows.              *)
LEMMA AttemptMoves ==
  ASSUME StoreTypeOK, NEW at \in 0..now, NEW S \in SUBSET Reminders,
         \A r \in S : Is(r, "processing") /\ rem[r].retry \in 0..3,
         rem' = [r \in Reminders |-> IF r \in S THEN FailedRow(rem[r], at) ELSE rem[r]],
         UNCHANGED <<now, task>>
  PROVE  Summary
  <1>1. now \in Nat /\ at \in Nat /\ \A r \in Reminders : rem[r] \in Row
    BY DEF StoreTypeOK
  <1>2. \A r \in S : /\ FailedRow(rem[r], at) \in Row
                     /\ FailedRow(rem[r], at).status = IF rem[r].retry = 3 THEN "failed" ELSE "pending"
                     /\ FailedRow(rem[r], at).retry = rem[r].retry + 1
                     /\ FailedRow(rem[r], at).last = at
    BY <1>1, FailedRowEffect
  <1>3. rem' \in [Reminders -> Row]
    BY <1>1, <1>2
  <1>4. \A r \in Reminders : rem'[r] = rem[r] \/ Attempted(r)
    BY <1>1, <1>2 DEF Attempted, Is
  <1> QED
    BY <1>1, <1>3, <1>4 DEF Summary, RowMove, StoreTypeOK, TaskMove

LEMMA RecoverMoves ==
  ASSUME StoreTypeOK, NEW at \in 0..now, NEW B \in SUBSET Reminders, RecoverAbandoned(at, B)
  PROVE  Summary
  <1> DEFINE row(r) == [rem[r] EXCEPT !.status = IF TaskActive(r) THEN "pending" ELSE "cancelled",
                                      !.upd = at]
  <1>1. now \in Nat /\ at \in Nat /\ \A r \in Reminders : rem[r] \in Row
    BY DEF StoreTypeOK
  <1>2. \A r \in Reminders : row(r) \in Row
    BY <1>1 DEF Row, ActiveStatus, TerminalStatus
  <1>3. \A r \in Reminders : rem'[r] = IF r \in B THEN row(r) ELSE rem[r]
    BY DEF RecoverAbandoned
  <1>4. rem' \in [Reminders -> Row]
    BY <1>1, <1>2 DEF RecoverAbandoned
  <1>5. \A r \in B : Is(r, "processing")
    BY DEF RecoverAbandoned, IsBatch, StaleLeases
  <1>6. \A r \in B : Released(r)
    <2> SUFFICES ASSUME NEW r \in B PROVE Released(r)
      OBVIOUS
    <2>1. rem'[r].status \in {"pending", "cancelled"}
      BY <1>1, <1>3 DEF Row
    <2>2. rem'[r].retry = rem[r].retry /\ rem'[r].last = rem[r].last
      BY <1>1, <1>3 DEF Row
    <2> QED BY <1>5, <2>1, <2>2 DEF Released, Moves, Is
  <1> QED
    <2>1. UNCHANGED <<now, task>>
      BY DEF RecoverAbandoned
    <2>2. \A r \in Reminders : RowMove(r)
      BY <1>3, <1>6 DEF RowMove
    <2> QED BY <1>1, <1>4, <2>1, <2>2 DEF Summary, StoreTypeOK, TaskMove

LEMMA SchedulerMoves ==
  ASSUME StoreTypeOK, NEW at \in 0..now, SchedulerCall(at)
  PROVE  Summary
  <1>1. ASSUME NEW B \in SUBSET Reminders, RecoverAbandoned(at, B) PROVE Summary
    BY <1>1, RecoverMoves
  <1>2. ASSUME NEW B \in SUBSET Reminders, ClaimDue(at, B) PROVE Summary
    <2>1. \A r \in B : Is(r, "pending") /\ (SchedOf[r] <= at \/ rem[r].retry > 0)
      BY <1>2 DEF ClaimDue, IsBatch, DueFirst
    <2> QED BY <1>2, <2>1, ClaimMoves DEF ClaimDue
  <1>3. ASSUME NEW B \in SUBSET Reminders, ClaimRetries(at, B) PROVE Summary
    <2>1. \A r \in B : Is(r, "pending") /\ (SchedOf[r] <= at \/ rem[r].retry > 0)
      BY <1>3 DEF ClaimRetries, IsBatch, DueRetry
    <2> QED BY <1>3, <2>1, ClaimMoves DEF ClaimRetries
  <1>4. ASSUME NEW B \in SUBSET Reminders, ApplyDowntimeRecovery(B, at) PROVE Summary
    <2>1. Expired(B, at) \in SUBSET Reminders /\ \A r \in Expired(B, at) : Is(r, "processing")
      BY DEF Expired, FirstAttempts
    <2> QED BY <1>4, <2>1, SettleMoves DEF ApplyDowntimeRecovery
  <1>5. ASSUME NEW B \in SUBSET Reminders, SummaryHolds({ClaimOn(r) : r \in B})
        PROVE  /\ Ids({ClaimOn(r) : r \in B}) = B
               /\ \A r \in B : Is(r, "processing") /\ rem[r].retry = 0
    <2>1. \A r \in B : ClaimOn(r).id = r /\ ClaimOn(r).retry = rem[r].retry
      BY DEF ClaimOn
    <2>2. Ids({ClaimOn(r) : r \in B}) = B
      BY <2>1 DEF Ids
    <2>3. \A r \in B : HoldsLease(ClaimOn(r)) /\ ClaimOn(r).retry = 0
      BY <1>5 DEF SummaryHolds
    <2> QED BY <2>1, <2>2, <2>3 DEF HoldsLease
  <1>6. ASSUME NEW B \in SUBSET Reminders, RecordSummarySent({ClaimOn(r) : r \in B}, at)
        PROVE  Summary
    BY <1>5, <1>6, SettleMoves DEF RecordSummarySent
  <1>7. ASSUME NEW B \in SUBSET Reminders, RecordSummaryFailure({ClaimOn(r) : r \in B}, at)
        PROVE  Summary
    <2> DEFINE C == {ClaimOn(r) : r \in B}
    <2>0. SummaryHolds(C)
      BY <1>7 DEF RecordSummaryFailure
    <2>1. \A r \in B : Is(r, "processing") /\ rem[r].retry \in 0..3
      <3>1. \A r \in B : Is(r, "processing") /\ rem[r].retry = 0
        BY <1>5, <2>0
      <3>2. 0 \in 0..3
        OBVIOUS
      <3> QED BY <3>1, <3>2
    <2>2. rem' = [r \in Reminders |-> IF r \in B THEN FailedRow(rem[r], at) ELSE rem[r]]
      BY <1>5, <1>7 DEF RecordSummaryFailure
    <2> QED BY <1>7, <2>1, <2>2, AttemptMoves DEF RecordSummaryFailure
  <1>8. ASSUME NEW r \in Reminders, CancelDisallowedRecipient(ClaimOn(r), at) PROVE Summary
    BY <1>8, SettleMoves DEF CancelDisallowedRecipient, HoldsLease, ClaimOn
  <1>9. ASSUME NEW r \in Reminders, RecordSent(ClaimOn(r), at) PROVE Summary
    BY <1>9, SettleMoves DEF RecordSent, HoldsLease, ClaimOn
  <1>10. ASSUME NEW r \in Reminders, RecordFailure(ClaimOn(r), at) PROVE Summary
    <2>1. \A q \in {r} : Is(q, "processing") /\ rem[q].retry \in 0..3
      BY <1>10 DEF RecordFailure, HoldsLease, ClaimOn
    <2>2. rem' = [q \in Reminders |-> IF q \in {r} THEN FailedRow(rem[q], at) ELSE rem[q]]
      BY <1>10 DEF RecordFailure, ClaimOn, StoreTypeOK
    <2> QED BY <1>10, <2>1, <2>2, AttemptMoves DEF RecordFailure
  <1> QED
    BY <1>1, <1>2, <1>3, <1>4, <1>6, <1>7, <1>8, <1>9, <1>10 DEF SchedulerCall

(* The summary of every step of the table.                                  *)
LEMMA StepSummary ==
  ASSUME StoreTypeOK, [StoreNext]_storeVars
  PROVE  Summary
  <1>1. CASE Tick
    BY <1>1 DEF Tick, Summary, StoreTypeOK, RowMove, TaskMove
  <1>2. CASE UserCommand
    BY <1>2, CommandMoves
  <1>3. ASSUME NEW at \in 0..now, SchedulerCall(at) PROVE Summary
    BY <1>3, SchedulerMoves
  <1>4. CASE UNCHANGED storeVars
    BY <1>4 DEF storeVars, Summary, StoreTypeOK, RowMove, TaskMove
  <1> QED
    BY <1>1, <1>2, <1>3, <1>4 DEF StoreNext

-----------------------------------------------------------------------------
(* The theorems.                                                            *)

(* The table keeps its columns' domains.                                    *)
THEOREM StoreTyping == StoreSpec => []StoreTypeOK
  <1>1. StoreInit => StoreTypeOK
    BY DEF StoreInit, StoreTypeOK, NoRow, Row, NoTime, TaskStatus
  <1>2. StoreTypeOK /\ [StoreNext]_storeVars => StoreTypeOK'
    BY StepSummary DEF Summary
  <1> QED
    BY <1>1, <1>2, PTL DEF StoreSpec

(* The four invariants support each other: a row that a done task leaves in *)
(* flight is not a future one because nothing is claimed early, and a       *)
(* failed attempt keeps its columns in step because a claimed row has an    *)
(* attempt left.                                                            *)
StoreInv ==
  /\ StoreTypeOK
  /\ ActiveSlotUnique
  /\ RetryAccounting
  /\ NothingEarly
  /\ InactiveTaskHasNoFutureReminder

LEMMA SlotStep ==
  ASSUME StoreTypeOK, ActiveSlotUnique, Summary
  PROVE  ActiveSlotUnique'
  <1> SUFFICES ASSUME NEW r \in Reminders, NEW q \in Reminders, r # q,
                      rem'[r].status \in ActiveStatus, rem'[q].status \in ActiveStatus,
                      TaskOf[r] = TaskOf[q], SchedOf[r] = SchedOf[q]
               PROVE  FALSE
    BY DEF ActiveSlotUnique
  <1>1. \A p \in Reminders : rem'[p].status \in ActiveStatus =>
          rem[p].status \in ActiveStatus \/ Created(p)
    BY DEF Summary, RowMove, Claimed, Released, Cancelled, Attempted, Moves, ActiveStatus
  <1>2. rem[r].status \in ActiveStatus => Created(q)
    BY <1>1 DEF ActiveSlotUnique
  <1>3. CASE Created(r)
    BY <1>1, <1>3 DEF Created, SlotOccupied, ActiveStatus
  <1>4. CASE rem[r].status \in ActiveStatus
    BY <1>2, <1>4 DEF Created, SlotOccupied, ActiveStatus
  <1> QED
    BY <1>1, <1>3, <1>4

LEMMA RetryStep ==
  ASSUME StoreTypeOK, RetryAccounting, Summary
  PROVE  RetryAccounting'
  <1> SUFFICES ASSUME NEW r \in Reminders
               PROVE  /\ (rem'[r].retry = 0) = (rem'[r].last = NoTime)
                      /\ (rem'[r].retry = 4) = (rem'[r].status = "failed")
    BY DEF RetryAccounting, Is
  <1>1. /\ (rem[r].retry = 0) = (rem[r].last = NoTime)
        /\ (rem[r].retry = 4) = (rem[r].status = "failed")
    BY DEF RetryAccounting, Is
  <1>2. rem[r] \in Row
    BY DEF StoreTypeOK
  <1>3. CASE rem'[r] = rem[r]
    BY <1>1, <1>3
  <1>4. CASE Created(r)
    BY <1>4 DEF Created, NoTime
  <1>5. CASE Claimed(r) \/ Released(r) \/ Cancelled(r)
    BY <1>1, <1>5 DEF Claimed, Released, Cancelled, Moves
  <1>6. CASE Attempted(r)
    BY <1>1, <1>2, <1>6 DEF Attempted, NoTime, Row
  <1> QED
    BY <1>3, <1>4, <1>5, <1>6 DEF Summary, RowMove

LEMMA EarlyStep ==
  ASSUME StoreTypeOK, NothingEarly, Summary
  PROVE  NothingEarly'
  <1> SUFFICES ASSUME NEW r \in Reminders,
                      rem'[r].status \in {"processing", "sent", "failed", "expired"} \/ rem'[r].retry > 0
               PROVE  SchedOf[r] <= now'
    BY DEF NothingEarly
  <1>1. now \in Nat /\ now' \in Nat /\ now <= now' /\ SchedOf[r] \in Nat /\ rem[r] \in Row
    BY StoreAssumption DEF StoreTypeOK, Summary
  <1>2. rem[r].status \in {"processing", "sent", "failed", "expired"} \/ rem[r].retry > 0
          => SchedOf[r] <= now
    BY DEF NothingEarly
  <1>3. CASE rem'[r] = rem[r]
    BY <1>1, <1>2, <1>3
  <1>4. CASE Created(r)
    BY <1>4 DEF Created
  <1>5. CASE Claimed(r)
    BY <1>1, <1>2, <1>5 DEF Claimed
  <1>6. CASE Released(r) \/ Cancelled(r) \/ Attempted(r)
    BY <1>1, <1>2, <1>6 DEF Released, Cancelled, Attempted, Moves
  <1> QED
    BY <1>3, <1>4, <1>5, <1>6 DEF Summary, RowMove

LEMMA InactiveStep ==
  ASSUME StoreTypeOK, NothingEarly, NothingEarly', InactiveTaskHasNoFutureReminder, Summary
  PROVE  InactiveTaskHasNoFutureReminder'
  <1> SUFFICES ASSUME NEW r \in Reminders,
                      task'[TaskOf[r]] # "active", rem'[r].status \in ActiveStatus
               PROVE  SchedOf[r] <= now'
    BY DEF InactiveTaskHasNoFutureReminder, TaskActive
  <1>1. now \in Nat /\ now' \in Nat /\ now <= now' /\ SchedOf[r] \in Nat
    BY StoreAssumption DEF StoreTypeOK, Summary
  <1>2. CASE rem'[r].status = "processing"
    BY <1>2 DEF NothingEarly
  <1>3. CASE rem'[r].status = "pending" /\ task[TaskOf[r]] = "active"
    <2>1. /\ now' = now
          /\ rem[r].status = "pending" /\ SchedOf[r] > now => rem'[r].status = "cancelled"
          /\ rem[r].status # "pending" => rem'[r] = rem[r]
      BY <1>3 DEF Summary, TaskMove
    <2> QED BY <1>1, <1>3, <2>1
  <1>4. CASE rem'[r].status = "pending" /\ task[TaskOf[r]] # "active"
    <2>1. rem[r].status \in ActiveStatus => SchedOf[r] <= now
      BY <1>4 DEF InactiveTaskHasNoFutureReminder, TaskActive
    <2>2. rem[r].status \in ActiveStatus
      BY <1>4 DEF Summary, RowMove, Created, Claimed, Released, Cancelled, Attempted,
                  Moves, ActiveStatus, TaskActive
    <2> QED BY <1>1, <2>1, <2>2
  <1> QED
    BY <1>2, <1>3, <1>4 DEF ActiveStatus

(* Every invariant of the table, inductively.                               *)
THEOREM StoreInvariant == StoreSpec => []StoreInv
  <1>1. StoreInit => StoreInv
    <2> SUFFICES ASSUME StoreInit PROVE StoreInv
      OBVIOUS
    <2>1. StoreTypeOK
      BY DEF StoreInit, StoreTypeOK, NoRow, Row, NoTime, TaskStatus
    <2>2. \A r \in Reminders : rem[r].status = "none" /\ rem[r].retry = 0 /\ rem[r].last = NoTime
      BY DEF StoreInit, NoRow
    <2> QED
      BY <2>1, <2>2 DEF StoreInv, ActiveSlotUnique, RetryAccounting, NothingEarly,
                        InactiveTaskHasNoFutureReminder, ActiveStatus, Is
  <1>2. StoreInv /\ [StoreNext]_storeVars => StoreInv'
    <2> SUFFICES ASSUME StoreInv, [StoreNext]_storeVars PROVE StoreInv'
      OBVIOUS
    <2>1. Summary
      BY StepSummary DEF StoreInv
    <2>2. NothingEarly'
      BY <2>1, EarlyStep DEF StoreInv
    <2> QED
      BY <2>1, <2>2, SlotStep, RetryStep, InactiveStep DEF StoreInv, Summary
  <1> QED
    BY <1>1, <1>2, PTL DEF StoreSpec

(* The unique index of the table never rejects a requeue or a retry.        *)
THEOREM SlotUniqueness == StoreSpec => []ActiveSlotUnique
  <1>1. StoreInv => ActiveSlotUnique
    BY DEF StoreInv
  <1> QED BY <1>1, StoreInvariant, PTL

(* No path strands a pending row that no claim query would select.          *)
THEOREM RetryColumnsAgree == StoreSpec => []RetryAccounting
  <1>1. StoreInv => RetryAccounting
    BY DEF StoreInv
  <1> QED BY <1>1, StoreInvariant, PTL

(* No reminder is claimed, sent, failed or expired ahead of its time.       *)
THEOREM NeverEarly == StoreSpec => []NothingEarly
  <1>1. StoreInv => NothingEarly
    BY DEF StoreInv
  <1> QED BY <1>1, StoreInvariant, PTL

(* /done and /delete leave nothing to come, whatever was in flight.         *)
THEOREM EndedTasksAreQuiet == StoreSpec => []InactiveTaskHasNoFutureReminder
  <1>1. StoreInv => InactiveTaskHasNoFutureReminder
    BY DEF StoreInv
  <1> QED BY <1>1, StoreInvariant, PTL

(* A settled row never changes again, whoever still holds a claim on it.    *)
THEOREM SettledRowsAreFinal == StoreSpec => TerminalIsFinal
  <1>1. StoreTypeOK /\ [StoreNext]_storeVars =>
          [\A r \in Reminders : rem[r].status \in TerminalStatus => rem'[r] = rem[r]]_storeVars
    BY StepSummary DEF Summary, RowMove, Created, Claimed, Released, Cancelled, Attempted,
                       Moves, TerminalStatus
  <1> QED
    BY <1>1, StoreTyping, PTL DEF StoreSpec, TerminalIsFinal
=============================================================================
