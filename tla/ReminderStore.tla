--------------------------- MODULE ReminderStore ---------------------------
(***************************************************************************)
(* The reminders table and the transactions app/reminders.py and           *)
(* app/tasks.py run on it.  Every write is one BEGIN IMMEDIATE (or, for    *)
(* the task commands, one "with conn") transaction, so each is one action; *)
(* a call that raises rolls back and is a stuttering step.                 *)
(*                                                                         *)
(* Spec is the table in front of ANY number of callers: any transaction    *)
(* may run at any moment, with a clock reading `at' taken now or earlier   *)
(* (a scheduler cycle uses the clock of its start throughout) and with any *)
(* claim.  ReminderCycle restricts it to what one bot process does.        *)
(*                                                                         *)
(* item_id and scheduled_at are written by the INSERT and never updated,   *)
(* and ids are fresh UUIDs: both columns are constant functions of the id. *)
(* Ids are numbers because the queries break ties by id.                   *)
(*                                                                         *)
(* Here and in ReminderCycle, an operator whose name extends the name of   *)
(* the one right after it (DueFirstEarly, DueFirst) is that operator with  *)
(* a bug, kept to show that the properties notice; no action uses it.      *)
(***************************************************************************)
EXTENDS Integers, FiniteSets

CONSTANTS
  Tasks, Reminders,   \* task ids; reminder ids (numbers, ordered)
  TaskOf, SchedOf,    \* the columns item_id and scheduled_at
  OwnerOf,            \* items.user_id, owner and recipient of a task
  RetryDelay,         \* REMINDER_RETRY_DELAYS: 1, 5 and 15 minutes
  Lease,              \* ABANDONED_PROCESSING_LEASE: 5 minutes
  MissedAfter,        \* later than this is "missed": 60 minutes
  ExpireAfter,        \* at least this late expires: 12 hours
  BatchSize,          \* DEFAULT_CLAIM_BATCH_SIZE: 50
  SummaryMin,         \* least number of reminders in a summary: 4
  MaxTime             \* bound on the clock, for model checking

ASSUME StoreAssumption ==
  /\ Reminders \subseteq Nat
  /\ TaskOf \in [Reminders -> Tasks]
  /\ SchedOf \in [Reminders -> Nat]
  /\ RetryDelay \in [1..3 -> Nat \ {0}]
  /\ Lease \in Nat \ {0}
  /\ MissedAfter \in Nat /\ ExpireAfter \in Nat /\ MissedAfter < ExpireAfter
  /\ BatchSize \in Nat \ {0} /\ SummaryMin \in Nat \ {0}
  /\ MaxTime \in Nat

VARIABLES
  now,    \* the UTC clock
  task,   \* items.status of every task
  rem     \* the reminders table, one row per id

storeVars == <<now, task, rem>>

NoTime == -1   \* a NULL timestamp

TaskStatus == {"active", "completed", "deleted"}
ActiveStatus == {"pending", "processing"}
TerminalStatus == {"sent", "failed", "cancelled", "expired"}

(* retry, last and upd are retry_count, last_attempted_at and updated_at.   *)
(* The other timestamps are set exactly with the status (a CHECK in         *)
(* 0005_reminders.sql), so the status stands for them.                      *)
Row == [status : {"none"} \cup ActiveStatus \cup TerminalStatus,
        retry : 0..4, last : Nat \cup {NoTime}, upd : Nat]

NoRow == [status |-> "none", retry |-> 0, last |-> NoTime, upd |-> 0]

Claim == [id : Reminders, retry : 0..3, at : Nat, due : Int]

StoreTypeOK ==
  /\ now \in Nat
  /\ task \in [Tasks -> TaskStatus]
  /\ rem \in [Reminders -> Row]

StoreInit ==
  /\ now = 0
  /\ task = [t \in Tasks |-> "active"]
  /\ rem = [r \in Reminders |-> NoRow]

-----------------------------------------------------------------------------
(* Rows and batches.                                                        *)

Is(r, s) == rem[r].status = s

TaskActive(r) == task[TaskOf[r]] = "active"

(* UPDATE reminders SET status, updated_at WHERE id IN S.                   *)
SetStatus(S, s, at) ==
  rem' = [r \in Reminders |->
            IF r \in S THEN [rem[r] EXCEPT !.status = s, !.upd = at] ELSE rem[r]]

(* ORDER BY key, id LIMIT batch_size over the candidates C.                 *)
Before(key, r, q) == key[r] < key[q] \/ (key[r] = key[q] /\ r < q)

IsBatch(B, C, key) ==
  /\ B \subseteq C
  /\ Cardinality(B) = IF Cardinality(C) < BatchSize THEN Cardinality(C) ELSE BatchSize
  /\ \A r \in B, q \in C \ B : Before(key, r, q)

(* The claim record a caller holds, and the row test ("the exact claim      *)
(* lease") every later write of that caller repeats.                        *)
ClaimOn(r) == [id |-> r, retry |-> rem[r].retry, at |-> rem[r].upd, due |-> SchedOf[r]]

HoldsLeaseAnyTime(c) == Is(c.id, "processing")
HoldsLease(c) ==
  /\ Is(c.id, "processing")
  /\ rem[c.id].retry = c.retry
  /\ rem[c.id].upd = c.at

-----------------------------------------------------------------------------
(* Commands: /remind, /unremind, /done, /reopen, /delete.                   *)

(* idx_reminders_unique_active_schedule: one active row per task and time.  *)
SlotOccupiedNever(r) == FALSE
SlotOccupied(r) == \E q \in Reminders :
  TaskOf[q] = TaskOf[r] /\ SchedOf[q] = SchedOf[r] /\ rem[q].status \in ActiveStatus

CreateReminder(r) ==
  /\ Is(r, "none")
  /\ SchedOf[r] > now
  /\ TaskActive(r)
  /\ ~SlotOccupied(r)
  /\ rem' = [rem EXCEPT ![r] =
               [status |-> "pending", retry |-> 0, last |-> NoTime, upd |-> now]]
  /\ UNCHANGED <<now, task>>

CancelPendingReminderInFlight(r) ==
  /\ rem[r].status \in ActiveStatus
  /\ SetStatus({r}, "cancelled", now)
  /\ UNCHANGED <<now, task>>
CancelPendingReminder(r) ==
  /\ Is(r, "pending")
  /\ SetStatus({r}, "cancelled", now)
  /\ UNCHANGED <<now, task>>

CancelSelectedPendingReminders(t, S) ==
  /\ S # {}
  /\ \A r \in S : TaskOf[r] = t /\ Is(r, "pending")
  /\ SetStatus(S, "cancelled", now)
  /\ UNCHANGED <<now, task>>

(* The future pending reminders of a task: scheduled strictly later.        *)
FuturePendingNone(t) == {}
FuturePending(t) == {r \in Reminders : TaskOf[r] = t /\ Is(r, "pending") /\ SchedOf[r] > now}

CancelAllFuturePending(t) ==
  /\ FuturePending(t) # {}
  /\ SetStatus(FuturePending(t), "cancelled", now)
  /\ UNCHANGED <<now, task>>

CompleteTask(t) ==
  /\ task[t] = "active"
  /\ task' = [task EXCEPT ![t] = "completed"]
  /\ SetStatus(FuturePending(t), "cancelled", now)
  /\ UNCHANGED now

ReopenTask(t) ==
  /\ task[t] = "completed"
  /\ task' = [task EXCEPT ![t] = "active"]
  /\ UNCHANGED <<now, rem>>

SoftDeleteTask(t) ==
  /\ task[t] \in {"active", "completed"}
  /\ task' = [task EXCEPT ![t] = "deleted"]
  /\ SetStatus(FuturePending(t), "cancelled", now)
  /\ UNCHANGED now

-----------------------------------------------------------------------------
(* Scheduler transactions.  `at' is the cycle clock the caller passes.      *)

StaleLeasesAnyAge(at) == {r \in Reminders : Is(r, "processing")}
StaleLeasesActiveTask(at) == {r \in Reminders :
  Is(r, "processing") /\ rem[r].upd <= at - Lease /\ TaskActive(r)}
StaleLeases(at) == {r \in Reminders : Is(r, "processing") /\ rem[r].upd <= at - Lease}

(* recover_abandoned_processing_reminders: requeue, or cancel when the task *)
(* is no longer active.                                                     *)
RecoverAbandoned(at, B) ==
  /\ IsBatch(B, StaleLeases(at), [r \in Reminders |-> rem[r].upd])
  /\ rem' = [r \in Reminders |->
               IF r \in B
                 THEN [rem[r] EXCEPT !.status = IF TaskActive(r) THEN "pending" ELSE "cancelled",
                                     !.upd = at]
                 ELSE rem[r]]
  /\ UNCHANGED <<now, task>>

(* claim_due_reminders: rows never attempted before.                        *)
DueFirstEarly(at) == {r \in Reminders :
  Is(r, "pending") /\ SchedOf[r] <= at + 1 /\ rem[r].retry = 0 /\ rem[r].last = NoTime /\ TaskActive(r)}
DueFirst(at) == {r \in Reminders :
  Is(r, "pending") /\ SchedOf[r] <= at /\ rem[r].retry = 0 /\ rem[r].last = NoTime /\ TaskActive(r)}

DueAnyTask(at) == {r \in Reminders :
  Is(r, "pending") /\ SchedOf[r] <= at /\ rem[r].retry = 0 /\ rem[r].last = NoTime}
ClaimDueFiltersLate(at, B) ==
  /\ \E L \in SUBSET Reminders :
       IsBatch(L, DueAnyTask(at), SchedOf) /\ B = {r \in L : TaskActive(r)}
  /\ SetStatus(B, "processing", at)
  /\ UNCHANGED <<now, task>>
ClaimDue(at, B) ==
  /\ IsBatch(B, DueFirst(at), SchedOf)
  /\ SetStatus(B, "processing", at)
  /\ UNCHANGED <<now, task>>

(* claim_due_reminder_retries: the delay since the last attempt elapsed.    *)
RetryDue(r) ==
  IF rem[r].retry \in 1..3 THEN rem[r].last + RetryDelay[rem[r].retry] ELSE NoTime

DueRetry(at) == {r \in Reminders :
  Is(r, "pending") /\ rem[r].retry \in 1..3 /\ rem[r].last # NoTime /\ RetryDue(r) <= at /\ TaskActive(r)}

ClaimRetries(at, B) ==
  /\ IsBatch(B, DueRetry(at), [r \in Reminders |-> RetryDue(r)])
  /\ SetStatus(B, "processing", at)
  /\ UNCHANGED <<now, task>>

(* apply_reminder_downtime_recovery on the claimed ids S: a first attempt   *)
(* of an active task is on time, missed or expired.                         *)
FirstAttempts(S) == {r \in S :
  Is(r, "processing") /\ rem[r].retry = 0 /\ rem[r].last = NoTime /\ TaskActive(r)}
OnTime(S, at) == {r \in FirstAttempts(S) : at - SchedOf[r] <= MissedAfter}
Missed(S, at) == {r \in FirstAttempts(S) : at - SchedOf[r] \in (MissedAfter + 1)..(ExpireAfter - 1)}
Expired(S, at) == {r \in FirstAttempts(S) : at - SchedOf[r] >= ExpireAfter}

ApplyDowntimeRecovery(S, at) ==
  /\ \A r \in S : SchedOf[r] <= at
  /\ SetStatus(Expired(S, at), "expired", at)
  /\ UNCHANGED <<now, task>>

(* prepare_claimed_reminder_delivery, when the recipient was removed from   *)
(* the allowlist; its other outcomes write nothing.                         *)
CancelDisallowedRecipient(c, at) ==
  /\ HoldsLease(c)
  /\ TaskActive(c.id)
  /\ SetStatus({c.id}, "cancelled", at)
  /\ UNCHANGED <<now, task>>

RecordSent(c, at) ==
  /\ HoldsLease(c)
  /\ SetStatus({c.id}, "sent", at)
  /\ UNCHANGED <<now, task>>

(* One more failed attempt: back to pending, or failed after the fourth.    *)
FailedRowNoLimit(row, at) ==
  [row EXCEPT !.status = "pending", !.retry = @ + 1, !.last = at, !.upd = at]
FailedRow(row, at) ==
  [row EXCEPT !.status = IF row.retry + 1 < 4 THEN "pending" ELSE "failed",
              !.retry = @ + 1, !.last = at, !.upd = at]

RecordFailure(c, at) ==
  /\ HoldsLease(c)
  /\ rem[c.id].retry \in 0..3
  /\ rem' = [rem EXCEPT ![c.id] = FailedRow(rem[c.id], at)]
  /\ UNCHANGED <<now, task>>

(* The summary forms: enough distinct reminders of one owner, every claim a *)
(* first attempt and still the row's lease, or nothing is written.          *)
Ids(C) == {c.id : c \in C}

SummaryHolds(C) ==
  /\ Cardinality(Ids(C)) >= SummaryMin
  /\ \A r, q \in Ids(C) : OwnerOf[TaskOf[r]] = OwnerOf[TaskOf[q]]
  /\ \A c \in C : HoldsLease(c) /\ c.retry = 0 /\ rem[c.id].last = NoTime

RecordSummarySentFirst(C, at) ==
  /\ SummaryHolds(C)
  /\ SetStatus({CHOOSE r \in Ids(C) : TRUE}, "sent", at)
  /\ UNCHANGED <<now, task>>
RecordSummarySent(C, at) ==
  /\ SummaryHolds(C)
  /\ SetStatus(Ids(C), "sent", at)
  /\ UNCHANGED <<now, task>>

RecordSummaryFailure(C, at) ==
  /\ SummaryHolds(C)
  /\ rem' = [r \in Reminders |->
               IF r \in Ids(C) THEN FailedRow(rem[r], at) ELSE rem[r]]
  /\ UNCHANGED <<now, task>>

Tick ==
  /\ now < MaxTime
  /\ now' = now + 1
  /\ UNCHANGED <<task, rem>>

-----------------------------------------------------------------------------
UserCommand ==
  \/ \E r \in Reminders : CreateReminder(r) \/ CancelPendingReminder(r)
  \/ \E t \in Tasks :
       \/ CompleteTask(t) \/ ReopenTask(t) \/ SoftDeleteTask(t)
       \/ CancelAllFuturePending(t)
       \/ \E S \in SUBSET Reminders : CancelSelectedPendingReminders(t, S)

SchedulerCall(at) ==
  \/ \E B \in SUBSET Reminders :
       \/ RecoverAbandoned(at, B) \/ ClaimDue(at, B) \/ ClaimRetries(at, B)
       \/ ApplyDowntimeRecovery(B, at)
       \/ RecordSummarySent({ClaimOn(r) : r \in B}, at)
       \/ RecordSummaryFailure({ClaimOn(r) : r \in B}, at)
  \/ \E r \in Reminders :
       \/ CancelDisallowedRecipient(ClaimOn(r), at)
       \/ RecordSent(ClaimOn(r), at)
       \/ RecordFailure(ClaimOn(r), at)

StoreNext == Tick \/ UserCommand \/ \E at \in 0..now : SchedulerCall(at)

StoreSpec == StoreInit /\ [][StoreNext]_storeVars

-----------------------------------------------------------------------------
(* Two active reminders never share a task and a time.  Only CreateReminder *)
(* checks: the updates that keep or make a row active (claim, requeue,      *)
(* failed attempt) never trip the unique index.                             *)
ActiveSlotUnique == \A r, q \in Reminders :
  /\ rem[r].status \in ActiveStatus /\ rem[q].status \in ActiveStatus
  /\ TaskOf[r] = TaskOf[q] /\ SchedOf[r] = SchedOf[q]
  => r = q

(* retry_count and last_attempted_at move together, a row that may still be *)
(* delivered has an attempt left, and only a row out of attempts failed: no *)
(* path strands a row that neither claim query selects.                     *)
RetryAccounting == \A r \in Reminders :
  /\ (rem[r].retry = 0) = (rem[r].last = NoTime)
  /\ (rem[r].retry = 4) = Is(r, "failed")

(* Nothing is claimed, delivered, given up or expired before its time.      *)
NothingEarly == \A r \in Reminders :
  rem[r].status \in {"processing", "sent", "failed", "expired"} \/ rem[r].retry > 0
    => SchedOf[r] <= now

(* A task that is done or deleted has no reminder left that is still to     *)
(* come, whatever was in flight when the command ran.                       *)
InactiveTaskHasNoFutureReminder == \A r \in Reminders :
  ~TaskActive(r) /\ rem[r].status \in ActiveStatus => SchedOf[r] <= now

(* A sent, failed, cancelled or expired row is history: no late recovery,   *)
(* result or command changes it.                                            *)
TerminalIsFinal ==
  [][\A r \in Reminders : rem[r].status \in TerminalStatus => rem'[r] = rem[r]]_storeVars
=============================================================================
