---------------------------- MODULE TwoBotsProofs ----------------------------
(***************************************************************************)
(* Two processes on one database, for every instance: at most one of them  *)
(* holds the lease of a reminder, and the messages Telegram takes beyond   *)
(* one for each attempt and fault are paid for by the clock moving under a *)
(* cycle.                                                                  *)
(*                                                                         *)
(* The lemmas about one process beside another are those at the end of     *)
(* ReminderCycleProofs, taken once for each process.                       *)
(***************************************************************************)
EXTENDS TwoBots, ReminderStoreProofs

PA == INSTANCE ReminderCycleProofs
  WITH pc <- pcA, cyc <- cycA, allowed <- allowedA, queue <- queueA, late <- lateA,
       group <- groupA, ready <- readyA, sending <- sendingA, accepted <- acceptedA
PB == INSTANCE ReminderCycleProofs
  WITH pc <- pcB, cyc <- cycB, allowed <- allowedB, queue <- queueB, late <- lateB,
       group <- groupB, ready <- readyB, sending <- sendingB, accepted <- acceptedB

-----------------------------------------------------------------------------
(* The instances of the model and of its proofs are the same process.       *)

LEMMA FirstBotSteps ==
  ASSUME Process1
  PROVE  PA!ProcessStep
  <1> USE DEF A!Cardinality, A!storeVars, A!NoTime, A!Is, A!TaskActive, A!SetStatus, A!Before,
          A!IsBatch, A!HoldsLease, A!StaleLeases, A!RecoverAbandoned, A!DueFirst, A!ClaimDue,
          A!RetryDue, A!DueRetry, A!ClaimRetries, A!FirstAttempts, A!OnTime, A!Missed, A!Expired,
          A!ApplyDowntimeRecovery, A!CancelDisallowedRecipient, A!RecordSent, A!FailedRow,
          A!RecordFailure, A!Ids, A!SummaryHolds, A!RecordSummarySent, A!RecordSummaryFailure,
          A!hands, A!history, A!bounds, A!ClaimsOf, A!IsNext, A!Count, A!Fault, A!Idle,
          A!Recipient, A!Eligible, A!Prepare, A!SameOwner, A!IsSummary, A!LeasesHeld, A!EndSend,
          A!MessageLost, PA!Cardinality, PA!storeVars, PA!NoTime, PA!Is, PA!TaskActive,
          PA!SetStatus, PA!Before, PA!IsBatch, PA!HoldsLease, PA!StaleLeases, PA!RecoverAbandoned,
          PA!DueFirst, PA!ClaimDue, PA!RetryDue, PA!DueRetry, PA!ClaimRetries, PA!FirstAttempts,
          PA!OnTime, PA!Missed, PA!Expired, PA!ApplyDowntimeRecovery, PA!CancelDisallowedRecipient,
          PA!RecordSent, PA!FailedRow, PA!RecordFailure, PA!Ids, PA!SummaryHolds,
          PA!RecordSummarySent, PA!RecordSummaryFailure, PA!hands, PA!history, PA!bounds,
          PA!ClaimsOf, PA!IsNext, PA!Count, PA!Fault, PA!Idle, PA!Recipient, PA!Eligible,
          PA!Prepare, PA!SameOwner, PA!IsSummary, PA!LeasesHeld, PA!EndSend, PA!MessageLost
  <1>1. A!StartBot => PA!StartBot
    BY DEF A!StartBot, PA!StartBot
  <1>2. A!BeginCycle => PA!BeginCycle
    BY DEF A!BeginCycle, PA!BeginCycle
  <1>3. A!RecoverLeases => PA!RecoverLeases
    BY DEF A!RecoverLeases, PA!RecoverLeases
  <1>4. A!ClaimFirstAttempts => PA!ClaimFirstAttempts
    BY DEF A!ClaimFirstAttempts, PA!ClaimFirstAttempts
  <1>5. A!Triage => PA!Triage
    BY DEF A!Triage, PA!Triage
  <1>6. A!ClaimDueRetries => PA!ClaimDueRetries
    BY DEF A!ClaimDueRetries, PA!ClaimDueRetries
  <1>7. A!PhaseDone => PA!PhaseDone
    BY DEF A!PhaseDone, PA!PhaseDone
  <1>8. A!GroupMissed => PA!GroupMissed
    BY DEF A!GroupMissed, PA!GroupMissed
  <1>9. A!SendGroup => PA!SendGroup
    BY DEF A!SendGroup, PA!SendGroup
  <1>10. A!SendSucceeds => PA!SendSucceeds
    BY DEF A!SendSucceeds, PA!SendSucceeds
  <1>11. A!SendFails => PA!SendFails
    BY DEF A!SendFails, PA!SendFails
  <1>12. A!ResultNotRecorded => PA!ResultNotRecorded
    BY DEF A!ResultNotRecorded, PA!ResultNotRecorded
  <1>13. A!CycleFails => PA!CycleFails
    BY DEF A!CycleFails, PA!CycleFails
  <1>14. A!TelegramAccepts => PA!TelegramAccepts
    BY DEF A!TelegramAccepts, PA!TelegramAccepts
  <1>15. A!Stop => PA!Stop
    BY DEF A!Stop, PA!Stop
  <1>16. ASSUME NEW c \in queueA \cup groupA, A!PreflightReady(c)
        PROVE  PA!PreflightReady(c)
    BY <1>16 DEF A!PreflightReady, PA!PreflightReady
  <1>17. ASSUME NEW c \in queueA \cup groupA, A!PreflightSkips(c)
        PROVE  PA!PreflightSkips(c)
    BY <1>17 DEF A!PreflightSkips, PA!PreflightSkips
  <1>18. ASSUME NEW c \in queueA \cup groupA, A!PreflightCancels(c)
        PROVE  PA!PreflightCancels(c)
    BY <1>18 DEF A!PreflightCancels, PA!PreflightCancels
  <1>19. ASSUME NEW c \in queueA \cup groupA, A!PreflightFails(c)
        PROVE  PA!PreflightFails(c)
    BY <1>19 DEF A!PreflightFails, PA!PreflightFails
  <1> QED
    BY <1>1, <1>2, <1>3, <1>4, <1>5, <1>6, <1>7, <1>8, <1>9, <1>10, <1>11, <1>12, <1>13, <1>14,
       <1>15, <1>16, <1>17, <1>18, <1>19
    DEF Process1, A!CycleStep, PA!CycleStep, PA!ProcessStep

LEMMA SecondBotSteps ==
  ASSUME Process2
  PROVE  PB!ProcessStep
  <1> USE DEF B!Cardinality, B!storeVars, B!NoTime, B!Is, B!TaskActive, B!SetStatus, B!Before,
          B!IsBatch, B!HoldsLease, B!StaleLeases, B!RecoverAbandoned, B!DueFirst, B!ClaimDue,
          B!RetryDue, B!DueRetry, B!ClaimRetries, B!FirstAttempts, B!OnTime, B!Missed, B!Expired,
          B!ApplyDowntimeRecovery, B!CancelDisallowedRecipient, B!RecordSent, B!FailedRow,
          B!RecordFailure, B!Ids, B!SummaryHolds, B!RecordSummarySent, B!RecordSummaryFailure,
          B!hands, B!history, B!bounds, B!ClaimsOf, B!IsNext, B!Count, B!Fault, B!Idle,
          B!Recipient, B!Eligible, B!Prepare, B!SameOwner, B!IsSummary, B!LeasesHeld, B!EndSend,
          B!MessageLost, PB!Cardinality, PB!storeVars, PB!NoTime, PB!Is, PB!TaskActive,
          PB!SetStatus, PB!Before, PB!IsBatch, PB!HoldsLease, PB!StaleLeases, PB!RecoverAbandoned,
          PB!DueFirst, PB!ClaimDue, PB!RetryDue, PB!DueRetry, PB!ClaimRetries, PB!FirstAttempts,
          PB!OnTime, PB!Missed, PB!Expired, PB!ApplyDowntimeRecovery, PB!CancelDisallowedRecipient,
          PB!RecordSent, PB!FailedRow, PB!RecordFailure, PB!Ids, PB!SummaryHolds,
          PB!RecordSummarySent, PB!RecordSummaryFailure, PB!hands, PB!history, PB!bounds,
          PB!ClaimsOf, PB!IsNext, PB!Count, PB!Fault, PB!Idle, PB!Recipient, PB!Eligible,
          PB!Prepare, PB!SameOwner, PB!IsSummary, PB!LeasesHeld, PB!EndSend, PB!MessageLost
  <1>1. B!StartBot => PB!StartBot
    BY DEF B!StartBot, PB!StartBot
  <1>2. B!BeginCycle => PB!BeginCycle
    BY DEF B!BeginCycle, PB!BeginCycle
  <1>3. B!RecoverLeases => PB!RecoverLeases
    BY DEF B!RecoverLeases, PB!RecoverLeases
  <1>4. B!ClaimFirstAttempts => PB!ClaimFirstAttempts
    BY DEF B!ClaimFirstAttempts, PB!ClaimFirstAttempts
  <1>5. B!Triage => PB!Triage
    BY DEF B!Triage, PB!Triage
  <1>6. B!ClaimDueRetries => PB!ClaimDueRetries
    BY DEF B!ClaimDueRetries, PB!ClaimDueRetries
  <1>7. B!PhaseDone => PB!PhaseDone
    BY DEF B!PhaseDone, PB!PhaseDone
  <1>8. B!GroupMissed => PB!GroupMissed
    BY DEF B!GroupMissed, PB!GroupMissed
  <1>9. B!SendGroup => PB!SendGroup
    BY DEF B!SendGroup, PB!SendGroup
  <1>10. B!SendSucceeds => PB!SendSucceeds
    BY DEF B!SendSucceeds, PB!SendSucceeds
  <1>11. B!SendFails => PB!SendFails
    BY DEF B!SendFails, PB!SendFails
  <1>12. B!ResultNotRecorded => PB!ResultNotRecorded
    BY DEF B!ResultNotRecorded, PB!ResultNotRecorded
  <1>13. B!CycleFails => PB!CycleFails
    BY DEF B!CycleFails, PB!CycleFails
  <1>14. B!TelegramAccepts => PB!TelegramAccepts
    BY DEF B!TelegramAccepts, PB!TelegramAccepts
  <1>15. B!Stop => PB!Stop
    BY DEF B!Stop, PB!Stop
  <1>16. ASSUME NEW c \in queueB \cup groupB, B!PreflightReady(c)
        PROVE  PB!PreflightReady(c)
    BY <1>16 DEF B!PreflightReady, PB!PreflightReady
  <1>17. ASSUME NEW c \in queueB \cup groupB, B!PreflightSkips(c)
        PROVE  PB!PreflightSkips(c)
    BY <1>17 DEF B!PreflightSkips, PB!PreflightSkips
  <1>18. ASSUME NEW c \in queueB \cup groupB, B!PreflightCancels(c)
        PROVE  PB!PreflightCancels(c)
    BY <1>18 DEF B!PreflightCancels, PB!PreflightCancels
  <1>19. ASSUME NEW c \in queueB \cup groupB, B!PreflightFails(c)
        PROVE  PB!PreflightFails(c)
    BY <1>19 DEF B!PreflightFails, PB!PreflightFails
  <1> QED
    BY <1>1, <1>2, <1>3, <1>4, <1>5, <1>6, <1>7, <1>8, <1>9, <1>10, <1>11, <1>12, <1>13, <1>14,
       <1>15, <1>16, <1>17, <1>18, <1>19
    DEF Process2, B!CycleStep, PB!CycleStep, PB!ProcessStep

LEMMA CommandsAgree ==
  /\ A!UserCommand => PA!UserCommand
  /\ B!UserCommand => PA!UserCommand
  BY DEF A!NoTime, A!ActiveStatus, A!Is, A!TaskActive, A!SetStatus, A!SlotOccupied, A!CreateReminder,
     A!CancelPendingReminder, A!CancelSelectedPendingReminders, A!FuturePending,
     A!CancelAllFuturePending, A!CompleteTask, A!ReopenTask, A!SoftDeleteTask, A!UserCommand,
     B!NoTime, B!ActiveStatus, B!Is, B!TaskActive, B!SetStatus, B!SlotOccupied, B!CreateReminder,
     B!CancelPendingReminder, B!CancelSelectedPendingReminders, B!FuturePending,
     B!CancelAllFuturePending, B!CompleteTask, B!ReopenTask, B!SoftDeleteTask, B!UserCommand,
     PA!NoTime, PA!ActiveStatus, PA!Is, PA!TaskActive, PA!SetStatus, PA!SlotOccupied,
     PA!CreateReminder, PA!CancelPendingReminder, PA!CancelSelectedPendingReminders,
     PA!FuturePending, PA!CancelAllFuturePending, PA!CompleteTask, PA!ReopenTask,
     PA!SoftDeleteTask, PA!UserCommand


-----------------------------------------------------------------------------
(* The inductive invariant: each process keeps its own claims in order, a   *)
(* claim that lost its lease is fenced off from the other cycle, and the    *)
(* messages in excess are paid for.                                         *)

Fence == PA!Pair(PB!InHand, cycB, pcB)
Paid == \A r \in Reminders : PA!Budget(r, PB!InHand, sendingB, acceptedB, cycB, pcB)

TwoInv ==
  /\ PA!OwnInv /\ PB!OwnInv
  /\ Fence /\ Paid
  /\ PA!NoneUnused /\ PA!SentTaken

(* Neither process is the first one.                                        *)
FenceFlipped == PB!Pair(PA!InHand, cycA, pcA)
PaidFlipped == \A r \in Reminders : PB!Budget(r, PA!InHand, sendingA, acceptedA, cycA, pcA)

Counters ==
  /\ slow \in Int /\ faults \in Int /\ now \in Int /\ cycA \in Int /\ cycB \in Int
  /\ \A r \in Reminders : got[r] \in Int /\ rem[r].retry \in Int

LEMMA CountersTyped ==
  ASSUME PA!OwnInv, PB!OwnInv
  PROVE  Counters
  <1> USE DEF PA!OwnInv, PB!OwnInv, PA!TypeOK, PB!TypeOK, PA!StoreTypeOK
  <1>1. slow \in Int /\ faults \in Int /\ now \in Int /\ cycA \in Int /\ cycB \in Int
    OBVIOUS
  <1>2. ASSUME NEW r \in Reminders
        PROVE  got[r] \in Int /\ rem[r].retry \in Int
    BY DEF PA!Row
  <1> QED BY <1>1, <1>2 DEF Counters

LEMMA FenceFlips == (Fence <=> FenceFlipped) /\ (Fence <=> FenceFlipped)'
  <1> USE DEF Fence, FenceFlipped, PA!Pair, PB!Pair, PA!Fenced, PB!Fenced, PA!Apart, PB!Apart,
          PA!HoldsLease, PB!HoldsLease, PA!Is, PB!Is
  <1>1. Fence <=> FenceFlipped
    OBVIOUS
  <1>2. (Fence <=> FenceFlipped)'
    OBVIOUS
  <1> QED BY <1>1, <1>2

LEMMA PaidFlips ==
  /\ Counters => (Paid <=> PaidFlipped)
  /\ Counters' => (Paid <=> PaidFlipped)'
  <1> USE DEF PA!Stale, PB!Stale, PA!Taken, PB!Taken, PA!Holds, PB!Holds, PA!One, PB!One,
          PA!HoldsLease, PB!HoldsLease, PA!Is, PB!Is
  <1>1. ASSUME Counters, NEW r \in Reminders
        PROVE  /\ PA!Excess(r, PB!InHand, sendingB, acceptedB) = PB!Excess(r, PA!InHand, sendingA, acceptedA)
               /\ PA!Budget(r, PB!InHand, sendingB, acceptedB, cycB, pcB)
                    <=> PB!Budget(r, PA!InHand, sendingA, acceptedA, cycA, pcA)
    <2>1. PA!Excess(r, PB!InHand, sendingB, acceptedB) = PB!Excess(r, PA!InHand, sendingA, acceptedA)
      BY <1>1 DEF Counters, PA!Excess, PB!Excess
    <2>2. /\ PA!Claimable(pcA, cycA, r) <=> PB!Claimable(pcA, cycA, r)
          /\ PA!Claimable(pcB, cycB, r) <=> PB!Claimable(pcB, cycB, r)
      BY DEF PA!Claimable, PB!Claimable, PA!RetryDue, PB!RetryDue, PA!NoTime, PB!NoTime
    <2>3. /\ PA!Holds(PA!InHand, r) <=> PB!Holds(PA!InHand, r)
          /\ PA!Holds(PB!InHand, r) <=> PB!Holds(PB!InHand, r)
      OBVIOUS
    <2> QED BY <2>1, <2>2, <2>3 DEF PA!Budget, PB!Budget
  <1>2. ASSUME Counters', NEW r \in Reminders
        PROVE  (PA!Budget(r, PB!InHand, sendingB, acceptedB, cycB, pcB)
                  <=> PB!Budget(r, PA!InHand, sendingA, acceptedA, cycA, pcA))'
    <2>1. (PA!Excess(r, PB!InHand, sendingB, acceptedB) = PB!Excess(r, PA!InHand, sendingA, acceptedA))'
      BY <1>2 DEF Counters, PA!Excess, PB!Excess
    <2>2. (/\ PA!Claimable(pcA, cycA, r) <=> PB!Claimable(pcA, cycA, r)
           /\ PA!Claimable(pcB, cycB, r) <=> PB!Claimable(pcB, cycB, r))'
      BY DEF PA!Claimable, PB!Claimable, PA!RetryDue, PB!RetryDue, PA!NoTime, PB!NoTime
    <2>3. (/\ PA!Holds(PA!InHand, r) <=> PB!Holds(PA!InHand, r)
           /\ PA!Holds(PB!InHand, r) <=> PB!Holds(PB!InHand, r))'
      OBVIOUS
    <2> QED BY <2>1, <2>2, <2>3 DEF PA!Budget, PB!Budget
  <1>3. Counters => (Paid <=> PaidFlipped)
    BY <1>1 DEF Paid, PaidFlipped
  <1>4. Counters' => (Paid <=> PaidFlipped)'
    BY <1>2 DEF Paid, PaidFlipped
  <1> QED BY <1>3, <1>4

(* What a process knows of itself is what the other one has to know of it.  *)
LEMMA EachIsForeign ==
  ASSUME PA!OwnInv, PB!OwnInv
  PROVE  /\ PA!Foreign(PB!InHand, sendingB, cycB, pcB)
         /\ PB!Foreign(PA!InHand, sendingA, cycA, pcA)
         /\ now \in Nat /\ cycA \in 0..now /\ cycB \in 0..now
  <1>1. PB!Foreign(PB!InHand, sendingB, cycB, pcB)
    BY PB!OwnIsForeign, StoreAssumption, TwoBotsAssumption
  <1>2. PA!Foreign(PA!InHand, sendingA, cycA, pcA)
    BY PA!OwnIsForeign, StoreAssumption, TwoBotsAssumption
  <1>3. PA!Foreign(PB!InHand, sendingB, cycB, pcB)
    BY <1>1 DEF PA!Foreign, PB!Foreign, PA!Claim, PB!Claim, PA!Ages, PB!Ages, PA!Delivering, PB!Delivering
  <1>4. PB!Foreign(PA!InHand, sendingA, cycA, pcA)
    BY <1>2 DEF PA!Foreign, PB!Foreign, PA!Claim, PB!Claim, PA!Ages, PB!Ages, PA!Delivering, PB!Delivering
  <1>5. now \in Nat /\ cycA \in 0..now /\ cycB \in 0..now
    BY DEF PA!OwnInv, PB!OwnInv, PA!TypeOK, PB!TypeOK, PA!StoreTypeOK
  <1> QED BY <1>3, <1>4, <1>5

LEMMA FirstProcessStep ==
  ASSUME TwoInv, Process1, UNCHANGED botB
  PROVE  TwoInv'
  <1> USE StoreAssumption, TwoBotsAssumption
  <1> DEFINE C == PB!InHand
  <1>1. PA!ProcessStep
    BY FirstBotSteps
  <1>2. /\ PA!OwnInv /\ PB!OwnInv /\ PA!NoneUnused /\ PA!SentTaken
        /\ PA!Foreign(C, sendingB, cycB, pcB) /\ PA!Pair(C, cycB, pcB) /\ cycB <= now
        /\ \A r \in Reminders : PA!Budget(r, C, sendingB, acceptedB, cycB, pcB)
    BY EachIsForeign DEF TwoInv, Fence, Paid
  <1>3. C' = C /\ UNCHANGED <<sendingB, acceptedB, cycB, pcB>>
    BY DEF botB, PB!InHand
  <1>4. PA!OwnInv'
    BY <1>1, <1>2, PA!OwnStep
  <1> HIDE DEF C
  <1>5. PA!Pair(C, cycB, pcB)'
    BY <1>1, <1>2, <1>3, PA!PairStep
  <1>6. \A r \in Reminders : PA!Budget(r, C, sendingB, acceptedB, cycB, pcB)'
    BY <1>1, <1>2, <1>3, PA!BudgetStep
  <1>7. /\ PA!NoneUnused' /\ PA!SentTaken' /\ PA!StoreTypeOK' /\ now' = now
        /\ faults' \in Nat /\ slow' \in Nat /\ lost' \in [Reminders -> Nat]
        /\ got' \in [Reminders -> Nat] /\ \A r \in Reminders : got'[r] >= got[r]
    BY <1>1, <1>2, PA!TableStep
  <1>8. PB!OwnInv'
    <2>1. PB!StoreTypeOK'
      BY <1>7 DEF PA!StoreTypeOK, PB!StoreTypeOK, PA!TaskStatus, PB!TaskStatus, PA!Row, PB!Row,
         PA!ActiveStatus, PB!ActiveStatus, PA!TerminalStatus, PB!TerminalStatus, PA!NoTime, PB!NoTime
    <2>2. UNCHANGED <<pcB, cycB, allowedB, PB!hands, acceptedB>> /\ now' >= now
      BY <1>2, <1>7, CountersTyped DEF botB, PB!hands, Counters
    <2> QED BY <1>2, <1>7, <2>1, <2>2, PB!OwnIdle
  <1> QED BY <1>4, <1>5, <1>6, <1>7, <1>8 DEF TwoInv, Fence, Paid, C

LEMMA SecondProcessStep ==
  ASSUME TwoInv, Process2, UNCHANGED botA
  PROVE  TwoInv'
  <1> USE StoreAssumption, TwoBotsAssumption
  <1> DEFINE C == PA!InHand
  <1>1. PB!ProcessStep
    BY SecondBotSteps
  <1>2. PA!OwnInv /\ PB!OwnInv /\ PB!Foreign(C, sendingA, cycA, pcA) /\ cycA <= now
    BY EachIsForeign DEF TwoInv
  <1>3. PB!Pair(C, cycA, pcA)
    BY FenceFlips DEF TwoInv, FenceFlipped
  <1>4. \A r \in Reminders : PB!Budget(r, C, sendingA, acceptedA, cycA, pcA)
    BY <1>2, CountersTyped, PaidFlips DEF TwoInv, PaidFlipped
  <1>5. PB!NoneUnused /\ PB!SentTaken
    BY DEF TwoInv, PA!NoneUnused, PA!SentTaken, PB!NoneUnused, PB!SentTaken, PA!Is, PB!Is
  <1>6. C' = C /\ UNCHANGED <<sendingA, acceptedA, cycA, pcA>>
    BY DEF botA, PA!InHand
  <1>7. PB!OwnInv'
    BY <1>1, <1>2, PB!OwnStep
  <1> HIDE DEF C
  <1>8. PB!Pair(C, cycA, pcA)'
    BY <1>1, <1>2, <1>3, <1>6, PB!PairStep
  <1>9. \A r \in Reminders : PB!Budget(r, C, sendingA, acceptedA, cycA, pcA)'
    BY <1>1, <1>2, <1>3, <1>4, <1>6, PB!BudgetStep
  <1>10. /\ PB!NoneUnused' /\ PB!SentTaken' /\ PB!StoreTypeOK' /\ now' = now
         /\ faults' \in Nat /\ slow' \in Nat /\ lost' \in [Reminders -> Nat]
         /\ got' \in [Reminders -> Nat] /\ \A r \in Reminders : got'[r] >= got[r]
    BY <1>1, <1>2, <1>5, PB!TableStep
  <1>11. PA!OwnInv'
    <2>1. PA!StoreTypeOK'
      BY <1>10 DEF PA!StoreTypeOK, PB!StoreTypeOK, PA!TaskStatus, PB!TaskStatus, PA!Row, PB!Row,
         PA!ActiveStatus, PB!ActiveStatus, PA!TerminalStatus, PB!TerminalStatus, PA!NoTime, PB!NoTime
    <2>2. UNCHANGED <<pcA, cycA, allowedA, PA!hands, acceptedA>> /\ now' >= now
      BY <1>2, <1>10, CountersTyped DEF botA, PA!hands, Counters
    <2> QED BY <1>2, <1>10, <2>1, <2>2, PA!OwnIdle
  <1>12. Fence'
    BY <1>8, FenceFlips DEF FenceFlipped, C
  <1>13. Counters'
    <2>1. slow' \in Int /\ faults' \in Int /\ \A r \in Reminders : got'[r] \in Int
      BY <1>10
    <2>2. /\ now' \in Int /\ cycA' \in Int /\ cycB' \in Int
          /\ \A r \in Reminders : rem'[r].retry \in Int
      BY <1>7, <1>11 DEF PA!OwnInv, PB!OwnInv, PA!TypeOK, PB!TypeOK, PA!StoreTypeOK, PA!Row
    <2> QED BY <2>1, <2>2 DEF Counters
  <1>14. Paid'
    BY <1>9, <1>13, PaidFlips DEF PaidFlipped, C
  <1>15. PA!NoneUnused' /\ PA!SentTaken'
    BY <1>10 DEF PA!NoneUnused, PA!SentTaken, PB!NoneUnused, PB!SentTaken, PA!Is, PB!Is
  <1> QED BY <1>7, <1>11, <1>12, <1>14, <1>15 DEF TwoInv

(* Commands and the clock leave both processes where they are.              *)
LEMMA OwnInvBeside ==
  ASSUME PA!OwnInv, PB!OwnInv, UNCHANGED <<botA, botB, got, lost, faults>>,
         PA!StoreTypeOK', now' >= now, slow' \in Nat
  PROVE  PA!OwnInv' /\ PB!OwnInv'
  <1> USE StoreAssumption, TwoBotsAssumption
  <1>1. PB!StoreTypeOK'
    BY DEF PA!StoreTypeOK, PB!StoreTypeOK, PA!TaskStatus, PB!TaskStatus, PA!Row, PB!Row,
       PA!ActiveStatus, PB!ActiveStatus, PA!TerminalStatus, PB!TerminalStatus, PA!NoTime, PB!NoTime
  <1>2. /\ got' \in [Reminders -> Nat] /\ lost' \in [Reminders -> Nat] /\ faults' \in Nat
        /\ \A r \in Reminders : got'[r] >= got[r]
    <2>1. got \in [Reminders -> Nat] /\ lost \in [Reminders -> Nat] /\ faults \in Nat
      BY DEF PA!OwnInv, PA!TypeOK
    <2> QED BY <2>1
  <1>3. UNCHANGED <<pcA, cycA, allowedA, PA!hands, acceptedA>>
    BY DEF botA, PA!hands
  <1>4. UNCHANGED <<pcB, cycB, allowedB, PB!hands, acceptedB>>
    BY DEF botB, PB!hands
  <1>5. PA!OwnInv'
    BY <1>2, <1>3, PA!OwnIdle
  <1>6. PB!OwnInv'
    BY <1>1, <1>2, <1>4, PB!OwnIdle
  <1> QED BY <1>5, <1>6

(* A command of either process, for both.                                   *)
LEMMA CommandsStep ==
  ASSUME TwoInv, Command
  PROVE  TwoInv'
  <1> USE StoreAssumption, TwoBotsAssumption
  <1> DEFINE C == PB!InHand
  <1>1. /\ PA!OwnInv /\ PB!OwnInv /\ PA!NoneUnused /\ PA!SentTaken
        /\ PA!Foreign(C, sendingB, cycB, pcB) /\ PA!Pair(C, cycB, pcB)
        /\ \A r \in Reminders : PA!Budget(r, C, sendingB, acceptedB, cycB, pcB)
    BY EachIsForeign DEF TwoInv, Fence, Paid
  <1>2. UNCHANGED <<botA, botB, got, lost, faults, slow>> /\ PA!UserCommand
    BY CommandsAgree DEF Command, A!Command, B!Command, A!Environment, B!Environment, A!hands, B!hands,
       A!history, B!history, A!bounds, B!bounds, botA, botB
  <1>3. UNCHANGED <<pcA, cycA, allowedA, PA!hands, acceptedA, PA!history, PA!bounds>>
    BY <1>2 DEF botA, PA!hands, PA!history, PA!bounds
  <1>4. C' = C /\ UNCHANGED <<sendingB, acceptedB, cycB, pcB>>
    BY <1>2 DEF botB, PB!InHand
  <1> HIDE DEF C
  <1>5. /\ PA!StoreTypeOK' /\ PA!NoneUnused' /\ PA!SentTaken' /\ now' = now
        /\ PA!Pair(C, cycB, pcB)'
        /\ \A r \in Reminders : PA!Budget(r, C, sendingB, acceptedB, cycB, pcB)'
    <2>1. /\ PA!StoreTypeOK' /\ PA!NoneUnused' /\ PA!SentTaken' /\ now' = now
          /\ PA!Pair(C, cycB, pcB)'
      BY <1>1, <1>2, <1>3, <1>4, PA!CommandStep
    <2>2. ASSUME NEW r \in Reminders
          PROVE  PA!Budget(r, C, sendingB, acceptedB, cycB, pcB)'
      BY <1>1, <1>2, <1>3, <1>4, PA!CommandStep
    <2> QED BY <2>1, <2>2
  <1>6. PA!OwnInv' /\ PB!OwnInv'
    <2>1. slow' \in Nat /\ now' >= now
      BY <1>1, <1>2, <1>5 DEF PA!OwnInv, PA!TypeOK, PA!StoreTypeOK
    <2> QED BY <1>1, <1>2, <1>5, <2>1, OwnInvBeside
  <1> QED BY <1>5, <1>6 DEF TwoInv, Fence, Paid, C

LEMMA ClockSteps ==
  ASSUME TwoInv, Clock
  PROVE  TwoInv'
  <1> USE StoreAssumption, TwoBotsAssumption
  <1> DEFINE C == PB!InHand
  <1>1. /\ PA!OwnInv /\ PB!OwnInv /\ PA!NoneUnused /\ PA!SentTaken
        /\ PA!Foreign(C, sendingB, cycB, pcB) /\ PA!Pair(C, cycB, pcB)
        /\ \A r \in Reminders : PA!Budget(r, C, sendingB, acceptedB, cycB, pcB)
    BY EachIsForeign DEF TwoInv, Fence, Paid
  <1>2. UNCHANGED <<botA, botB, got, lost, faults>> /\ PA!Tick
    BY DEF Clock, Tick, PA!Tick
  <1>3. UNCHANGED <<pcA, cycA, allowedA, PA!hands, acceptedA, PA!history, faults>>
    BY <1>2 DEF botA, PA!hands, PA!history
  <1>4. C' = C /\ UNCHANGED <<sendingB, acceptedB, cycB, pcB>>
    BY <1>2 DEF botB, PB!InHand
  <1>5. \/ slow' = slow /\ pcA \in {"off", "sleep"} /\ pcB \in {"off", "sleep"}
        \/ slow' = slow + 1
    BY DEF Clock, AtRest
  <1> HIDE DEF C
  <1>6. /\ PA!StoreTypeOK' /\ PA!NoneUnused' /\ PA!SentTaken' /\ now' >= now /\ slow' \in Nat
        /\ PA!Pair(C, cycB, pcB)'
        /\ \A r \in Reminders : PA!Budget(r, C, sendingB, acceptedB, cycB, pcB)'
    BY <1>1, <1>2, <1>3, <1>4, <1>5, PA!ClockStep
  <1>7. PA!OwnInv' /\ PB!OwnInv'
    BY <1>1, <1>2, <1>6, OwnInvBeside
  <1> QED BY <1>6, <1>7 DEF TwoInv, Fence, Paid, C

LEMMA InitiallyTwo ==
  ASSUME Init
  PROVE  TwoInv
  <1> USE StoreAssumption, TwoBotsAssumption
  <1>1. /\ now = 0 /\ task = [t \in Tasks |-> "active"] /\ rem = [r \in Reminders |-> PA!NoRow]
        /\ pcA = "off" /\ cycA = 0 /\ allowedA \in AllowLists /\ acceptedA = FALSE
        /\ queueA = {} /\ lateA = {} /\ groupA = {} /\ readyA = {} /\ sendingA = {}
        /\ pcB = "off" /\ cycB = 0 /\ allowedB \in AllowLists /\ acceptedB = FALSE
        /\ queueB = {} /\ lateB = {} /\ groupB = {} /\ readyB = {} /\ sendingB = {}
        /\ got = [r \in Reminders |-> 0] /\ lost = [r \in Reminders |-> 0]
        /\ faults = 0 /\ slow = 0
    BY DEF Init, A!Init, B!Init, A!StoreInit, B!StoreInit, A!NoRow, B!NoRow, PA!NoRow,
       A!NoTime, B!NoTime, PA!NoTime
  <1>2. PA!InHand = {} /\ PB!InHand = {}
    BY <1>1 DEF PA!InHand, PB!InHand
  <1>3. PA!StoreTypeOK /\ PB!StoreTypeOK
    <2>1. PA!NoRow \in PA!Row
      BY DEF PA!NoRow, PA!Row, PA!NoTime
    <2>2. PA!StoreTypeOK
      BY <1>1, <2>1 DEF PA!StoreTypeOK, PA!TaskStatus
    <2> QED
      BY <2>2 DEF PA!StoreTypeOK, PB!StoreTypeOK, PA!TaskStatus, PB!TaskStatus, PA!Row, PB!Row,
         PA!ActiveStatus, PB!ActiveStatus, PA!TerminalStatus, PB!TerminalStatus, PA!NoTime, PB!NoTime
  <1>4. PA!OwnInv
    <2>1. PA!TypeOK
      <3>1. cycA \in 0..now /\ faults \in Nat /\ slow \in Nat
        BY <1>1
      <3>2. got \in [Reminders -> Nat] /\ lost \in [Reminders -> Nat]
        BY <1>1
      <3>3. /\ pcA \in PA!Phases /\ acceptedA \in BOOLEAN
            /\ \A C \in {queueA, lateA, groupA, readyA, sendingA} : C \subseteq PA!Claim
        BY <1>1 DEF PA!Phases
      <3> QED BY <1>1, <1>3, <3>1, <3>2, <3>3 DEF PA!TypeOK
    <2>2. PA!HandsInOrder
      BY <1>1, <1>2 DEF PA!HandsInOrder, PA!ClaimsDisjoint, PA!HandsOfPhase
    <2> QED BY <1>1, <1>2, <2>1, <2>2 DEF PA!OwnInv, PA!Ages, PA!Shape
  <1>5. PB!OwnInv
    <2>1. PB!TypeOK
      <3>1. cycB \in 0..now /\ faults \in Nat /\ slow \in Nat
        BY <1>1
      <3>2. got \in [Reminders -> Nat] /\ lost \in [Reminders -> Nat]
        BY <1>1
      <3>3. /\ pcB \in PB!Phases /\ acceptedB \in BOOLEAN
            /\ \A C \in {queueB, lateB, groupB, readyB, sendingB} : C \subseteq PB!Claim
        BY <1>1 DEF PB!Phases
      <3> QED BY <1>1, <1>3, <3>1, <3>2, <3>3 DEF PB!TypeOK
    <2>2. PB!HandsInOrder
      BY <1>1, <1>2 DEF PB!HandsInOrder, PB!ClaimsDisjoint, PB!HandsOfPhase
    <2> QED BY <1>1, <1>2, <2>1, <2>2 DEF PB!OwnInv, PB!Ages, PB!Shape
  <1>6. Fence
    BY <1>2 DEF Fence, PA!Pair, PA!Fenced, PA!Apart
  <1>7. ASSUME NEW r \in Reminders
        PROVE  /\ rem[r].status = "none" /\ rem[r].retry = 0 /\ got[r] = 0
               /\ PA!Budget(r, PB!InHand, sendingB, acceptedB, cycB, pcB)
    <2>1. rem[r].status = "none" /\ rem[r].retry = 0 /\ got[r] = 0
      BY <1>1 DEF PA!NoRow
    <2>2. /\ PA!One(PA!Stale(PA!InHand, sendingA, acceptedA, r)) = 0
          /\ PA!One(PA!Stale(PB!InHand, sendingB, acceptedB, r)) = 0
          /\ PA!One(PA!Is(r, "sent") \/ PA!Taken(sendingA, acceptedA, r)
                                     \/ PA!Taken(sendingB, acceptedB, r)) = 0
      BY <1>1, <1>2, <2>1 DEF PA!One, PA!Stale, PA!Taken, PA!Is
    <2>3. PA!Excess(r, PB!InHand, sendingB, acceptedB) = 0
      BY <1>1, <2>1, <2>2 DEF PA!Excess
    <2> QED BY <1>1, <2>1, <2>3 DEF PA!Budget
  <1>8. Paid /\ PA!NoneUnused /\ PA!SentTaken
    BY <1>7 DEF Paid, PA!NoneUnused, PA!SentTaken, PA!Is
  <1> QED BY <1>4, <1>5, <1>6, <1>8 DEF TwoInv

LEMMA TwoStays ==
  ASSUME TwoInv, UNCHANGED vars
  PROVE  TwoInv'
  BY DEF vars, shared, storeVars, botA, botB, TwoInv, PA!OwnInv, PB!OwnInv, PA!TypeOK, PB!TypeOK,
     PA!StoreTypeOK, PB!StoreTypeOK, PA!HandsInOrder, PB!HandsInOrder, PA!ClaimsDisjoint,
     PB!ClaimsDisjoint, PA!HandsOfPhase, PB!HandsOfPhase, PA!InHand, PB!InHand, PA!Ages, PB!Ages,
     PA!Shape, PB!Shape, Fence, PA!Pair, PA!Fenced, PA!Apart, PA!HoldsLease, PA!Is,
     Paid, PA!Budget, PA!Claimable, PA!RetryDue, PA!Holds, PA!Excess, PA!One, PA!Stale, PA!Taken,
     PA!NoneUnused, PA!SentTaken

LEMMA TwoInvariant == Spec => []TwoInv
  <1>1. TwoInv /\ [Next]_vars => TwoInv'
    BY FirstProcessStep, SecondProcessStep, CommandsStep, ClockSteps, TwoStays DEF Next, TimeIsUp
  <1> QED
    BY <1>1, InitiallyTwo, PTL DEF Spec

-----------------------------------------------------------------------------
(* What follows.                                                            *)

(* While both processes have a reminder in hand, at most one of them can    *)
(* still record its result (record_claimed_reminder_sent and its kin test   *)
(* updated_at): the recovery that takes a lease away runs in a cycle that   *)
(* began a whole lease later, so the two leases differ in their clocks.     *)
THEOREM OneHolder == Spec => []OneLeaseHolder
  <1>1. TwoInv => OneLeaseHolder
    <2>1. PA!InHand = A!InHand /\ PB!InHand = B!InHand
      BY DEF PA!InHand, A!InHand, PB!InHand, B!InHand
    <2> QED
      BY <2>1 DEF TwoInv, Fence, PA!Pair, PA!Apart, OneLeaseHolder, PA!HoldsLease, HoldsLease, PA!Is, Is
  <1> QED BY <1>1, TwoInvariant, PTL

(* A second process costs at most one message for every time the clock      *)
(* moves under a cycle, beyond one for each attempt, each fault and the     *)
(* answer still due; and no row is sent that nobody received.               *)
THEOREM DuplicatesArePaid == Spec => []DuplicatesBounded
  <1>1. ASSUME TwoInv, NEW r \in Reminders
        PROVE  got[r] <= rem[r].retry + faults + slow + (IF Is(r, "sent") \/ InFlight(r) THEN 1 ELSE 0)
    <2> DEFINE mine == PA!One(PA!Stale(PA!InHand, sendingA, acceptedA, r))
               theirs == PA!One(PA!Stale(PB!InHand, sendingB, acceptedB, r))
               due == PA!One(PA!Is(r, "sent") \/ PA!Taken(sendingA, acceptedA, r)
                                              \/ PA!Taken(sendingB, acceptedB, r))
    <2>1. got[r] \in Int /\ rem[r].retry \in Int /\ faults \in Int /\ slow \in Int
      BY <1>1, CountersTyped DEF TwoInv, Counters
    <2>2. mine \in Nat /\ theirs \in Nat /\ due \in {0, 1}
      BY DEF PA!One
    <2>3. got[r] + mine + theirs - rem[r].retry - faults - due <= slow
      BY <1>1 DEF TwoInv, Paid, PA!Budget, PA!Excess
    <2>4. due = 1 => Is(r, "sent") \/ InFlight(r)
      BY DEF PA!One, PA!Is, Is, PA!Taken, InFlight, Ids
    <2> HIDE DEF mine, theirs, due
    <2>5. got[r] <= rem[r].retry + faults + slow + due
      BY <2>1, <2>2, <2>3
    <2> QED BY <2>1, <2>2, <2>4, <2>5
  <1>2. TwoInv => DuplicatesBounded
    <2>1. ASSUME TwoInv, NEW r \in Reminders, Is(r, "sent")
          PROVE  got[r] > 0
      BY <2>1 DEF TwoInv, PA!SentTaken, PA!Is, Is
    <2> QED BY <1>1, <2>1 DEF DuplicatesBounded
  <1> QED BY <1>2, TwoInvariant, PTL
-----------------------------------------------------------------------------
(* The table under two processes.                                           *)

LEMMA FirstIsOnTheTable ==
  ASSUME PA!StoreNext
  PROVE  StoreNext
  <1> USE DEF Cardinality, NoTime, ActiveStatus, Is, TaskActive, SetStatus, Before, IsBatch, ClaimOn,
          HoldsLease, SlotOccupied, CreateReminder, CancelPendingReminder,
          CancelSelectedPendingReminders, FuturePending, CancelAllFuturePending, CompleteTask,
          ReopenTask, SoftDeleteTask, StaleLeases, DueFirst, RetryDue, DueRetry, FirstAttempts,
          Expired, FailedRow, Ids, SummaryHolds, Tick, UserCommand, PA!Cardinality, PA!NoTime,
          PA!ActiveStatus, PA!Is, PA!TaskActive, PA!SetStatus, PA!Before, PA!IsBatch, PA!ClaimOn,
          PA!HoldsLease, PA!SlotOccupied, PA!CreateReminder, PA!CancelPendingReminder,
          PA!CancelSelectedPendingReminders, PA!FuturePending, PA!CancelAllFuturePending,
          PA!CompleteTask, PA!ReopenTask, PA!SoftDeleteTask, PA!StaleLeases, PA!DueFirst,
          PA!RetryDue, PA!DueRetry, PA!FirstAttempts, PA!Expired, PA!FailedRow, PA!Ids,
          PA!SummaryHolds, PA!Tick, PA!UserCommand
  <1>1. \A S, at : PA!RecoverAbandoned(at, S) => RecoverAbandoned(at, S)
    BY DEF PA!RecoverAbandoned, RecoverAbandoned
  <1>2. \A S, at : PA!ClaimDue(at, S) => ClaimDue(at, S)
    BY DEF PA!ClaimDue, ClaimDue
  <1>3. \A S, at : PA!ClaimRetries(at, S) => ClaimRetries(at, S)
    BY DEF PA!ClaimRetries, ClaimRetries
  <1>4. \A S, at : PA!ApplyDowntimeRecovery(S, at) => ApplyDowntimeRecovery(S, at)
    BY DEF PA!ApplyDowntimeRecovery, ApplyDowntimeRecovery
  <1>5. \A S, at : PA!RecordSummarySent({PA!ClaimOn(r) : r \in S}, at) => RecordSummarySent({ClaimOn(r) : r \in S}, at)
    BY DEF PA!RecordSummarySent, RecordSummarySent
  <1>6. \A S, at : PA!RecordSummaryFailure({PA!ClaimOn(r) : r \in S}, at) => RecordSummaryFailure({ClaimOn(r) : r \in S}, at)
    BY DEF PA!RecordSummaryFailure, RecordSummaryFailure
  <1>7. \A r, at : PA!CancelDisallowedRecipient(PA!ClaimOn(r), at) => CancelDisallowedRecipient(ClaimOn(r), at)
    BY DEF PA!CancelDisallowedRecipient, CancelDisallowedRecipient
  <1>8. \A r, at : PA!RecordSent(PA!ClaimOn(r), at) => RecordSent(ClaimOn(r), at)
    BY DEF PA!RecordSent, RecordSent
  <1>9. \A r, at : PA!RecordFailure(PA!ClaimOn(r), at) => RecordFailure(ClaimOn(r), at)
    BY DEF PA!RecordFailure, RecordFailure
  <1>10. ASSUME NEW at \in 0..now, PA!SchedulerCall(at)
         PROVE  SchedulerCall(at)
    BY <1>10, <1>1, <1>2, <1>3, <1>4, <1>5, <1>6, <1>7, <1>8, <1>9
    DEF PA!SchedulerCall, SchedulerCall
  <1> QED
    BY <1>10 DEF PA!StoreNext, StoreNext

LEMMA SecondIsOnTheTable ==
  ASSUME PB!StoreNext
  PROVE  StoreNext
  <1> USE DEF Cardinality, NoTime, ActiveStatus, Is, TaskActive, SetStatus, Before, IsBatch, ClaimOn,
          HoldsLease, SlotOccupied, CreateReminder, CancelPendingReminder,
          CancelSelectedPendingReminders, FuturePending, CancelAllFuturePending, CompleteTask,
          ReopenTask, SoftDeleteTask, StaleLeases, DueFirst, RetryDue, DueRetry, FirstAttempts,
          Expired, FailedRow, Ids, SummaryHolds, Tick, UserCommand, PB!Cardinality, PB!NoTime,
          PB!ActiveStatus, PB!Is, PB!TaskActive, PB!SetStatus, PB!Before, PB!IsBatch, PB!ClaimOn,
          PB!HoldsLease, PB!SlotOccupied, PB!CreateReminder, PB!CancelPendingReminder,
          PB!CancelSelectedPendingReminders, PB!FuturePending, PB!CancelAllFuturePending,
          PB!CompleteTask, PB!ReopenTask, PB!SoftDeleteTask, PB!StaleLeases, PB!DueFirst,
          PB!RetryDue, PB!DueRetry, PB!FirstAttempts, PB!Expired, PB!FailedRow, PB!Ids,
          PB!SummaryHolds, PB!Tick, PB!UserCommand
  <1>1. \A S, at : PB!RecoverAbandoned(at, S) => RecoverAbandoned(at, S)
    BY DEF PB!RecoverAbandoned, RecoverAbandoned
  <1>2. \A S, at : PB!ClaimDue(at, S) => ClaimDue(at, S)
    BY DEF PB!ClaimDue, ClaimDue
  <1>3. \A S, at : PB!ClaimRetries(at, S) => ClaimRetries(at, S)
    BY DEF PB!ClaimRetries, ClaimRetries
  <1>4. \A S, at : PB!ApplyDowntimeRecovery(S, at) => ApplyDowntimeRecovery(S, at)
    BY DEF PB!ApplyDowntimeRecovery, ApplyDowntimeRecovery
  <1>5. \A S, at : PB!RecordSummarySent({PB!ClaimOn(r) : r \in S}, at) => RecordSummarySent({ClaimOn(r) : r \in S}, at)
    BY DEF PB!RecordSummarySent, RecordSummarySent
  <1>6. \A S, at : PB!RecordSummaryFailure({PB!ClaimOn(r) : r \in S}, at) => RecordSummaryFailure({ClaimOn(r) : r \in S}, at)
    BY DEF PB!RecordSummaryFailure, RecordSummaryFailure
  <1>7. \A r, at : PB!CancelDisallowedRecipient(PB!ClaimOn(r), at) => CancelDisallowedRecipient(ClaimOn(r), at)
    BY DEF PB!CancelDisallowedRecipient, CancelDisallowedRecipient
  <1>8. \A r, at : PB!RecordSent(PB!ClaimOn(r), at) => RecordSent(ClaimOn(r), at)
    BY DEF PB!RecordSent, RecordSent
  <1>9. \A r, at : PB!RecordFailure(PB!ClaimOn(r), at) => RecordFailure(ClaimOn(r), at)
    BY DEF PB!RecordFailure, RecordFailure
  <1>10. ASSUME NEW at \in 0..now, PB!SchedulerCall(at)
         PROVE  SchedulerCall(at)
    BY <1>10, <1>1, <1>2, <1>3, <1>4, <1>5, <1>6, <1>7, <1>8, <1>9
    DEF PB!SchedulerCall, SchedulerCall
  <1> QED
    BY <1>10 DEF PB!StoreNext, StoreNext

LEMMA EachStepIsStoreStep ==
  ASSUME PA!TypeOK, PB!TypeOK, [Next]_vars
  PROVE  [StoreNext]_storeVars
  <1> USE StoreAssumption, TwoBotsAssumption DEF storeVars, PA!storeVars, PB!storeVars
  <1>1. CASE Process1
    <2>1. [PA!Next]_PA!vars
      BY <1>1, FirstBotSteps DEF PA!ProcessStep, PA!Next
    <2>2. [PA!StoreNext]_PA!storeVars
      BY <2>1, PA!StepIsStoreStep
    <2> QED BY <2>2, FirstIsOnTheTable
  <1>2. CASE Process2
    <2>1. [PB!Next]_PB!vars
      BY <1>2, SecondBotSteps DEF PB!ProcessStep, PB!Next
    <2>2. [PB!StoreNext]_PB!storeVars
      BY <2>1, PB!StepIsStoreStep
    <2> QED BY <2>2, SecondIsOnTheTable
  <1>3. CASE Command
    <2>1. PA!UserCommand
      BY <1>3, CommandsAgree DEF Command, A!Command, B!Command, A!Environment, B!Environment
    <2> QED BY <2>1, FirstIsOnTheTable DEF PA!StoreNext
  <1>4. CASE Clock
    BY <1>4 DEF Clock, StoreNext
  <1>5. CASE TimeIsUp \/ UNCHANGED vars
    BY <1>5 DEF TimeIsUp, vars, shared
  <1> QED BY <1>1, <1>2, <1>3, <1>4, <1>5 DEF Next

(* Two processes, stopped and delayed anywhere, do to the tables only what  *)
(* the contract of app/reminders.py allows: also one that has lost a lease. *)
THEOREM BothUseStore == Spec => StoreSpec
  <1>1. Init => StoreInit
    BY DEF Init, A!Init, A!StoreInit, StoreInit, A!NoRow, NoRow, A!NoTime, NoTime
  <1>2. TwoInv /\ [Next]_vars => [StoreNext]_storeVars
    BY EachStepIsStoreStep DEF TwoInv, PA!OwnInv, PB!OwnInv
  <1> QED
    BY <1>1, <1>2, TwoInvariant, PTL DEF Spec, StoreSpec

(* So what is proved of the table holds of two processes: the unique index  *)
(* is never tripped, the retry columns agree, nothing is early, an ended    *)
(* task has nothing left to come, and settled rows never change again.      *)
THEOREM TableKept == Spec => /\ []ActiveSlotUnique /\ []RetryAccounting
                             /\ []NothingEarly /\ []InactiveTaskHasNoFutureReminder
                             /\ TerminalIsFinal
  BY BothUseStore, SlotUniqueness, RetryColumnsAgree, NeverEarly, EndedTasksAreQuiet,
     SettledRowsAreFinal, PTL

-----------------------------------------------------------------------------
(* The messages of two processes.                                           *)

Routes == PA!RouteInv /\ PB!RouteInv

LEMMA RoutesStep ==
  ASSUME TwoInv, TwoInv', Routes, [Next]_vars
  PROVE  Routes'
  <1> USE StoreAssumption, TwoBotsAssumption DEF Routes
  <1>1. PA!OwnInv /\ PB!OwnInv /\ PA!OwnInv' /\ PB!OwnInv'
    BY DEF TwoInv
  <1>2. UNCHANGED botA => PA!RouteInv'
    <2> SUFFICES ASSUME UNCHANGED botA PROVE PA!RouteInv'
      OBVIOUS
    <2>1. UNCHANGED <<pcA, cycA, allowedA, PA!hands, acceptedA>>
      BY DEF botA, PA!hands
    <2> QED BY <1>1, <2>1, PA!RouteIdle
  <1>3. UNCHANGED botB => PB!RouteInv'
    <2> SUFFICES ASSUME UNCHANGED botB PROVE PB!RouteInv'
      OBVIOUS
    <2>1. UNCHANGED <<pcB, cycB, allowedB, PB!hands, acceptedB>>
      BY DEF botB, PB!hands
    <2> QED BY <1>1, <2>1, PB!RouteIdle
  <1>4. Process1 => PA!RouteInv'
    BY <1>1, FirstBotSteps, PA!OwnRoute
  <1>5. Process2 => PB!RouteInv'
    BY <1>1, SecondBotSteps, PB!OwnRoute
  <1>6. \/ Process1 /\ UNCHANGED botB
        \/ Process2 /\ UNCHANGED botA
        \/ UNCHANGED <<botA, botB>>
    BY DEF Next, Command, A!Command, B!Command, A!Environment, B!Environment, A!hands, B!hands,
       botA, botB, Clock, TimeIsUp, vars
  <1> QED BY <1>2, <1>3, <1>4, <1>5, <1>6

LEMMA InitiallyRouted ==
  ASSUME Init
  PROVE  Routes
  <1> USE StoreAssumption, TwoBotsAssumption
  <1>1. PA!Init
    BY DEF Init, A!Init, PA!Init, A!StoreInit, PA!StoreInit, A!NoRow, PA!NoRow, A!NoTime, PA!NoTime
  <1>2. PB!Init
    BY DEF Init, B!Init, PB!Init, B!StoreInit, PB!StoreInit, B!NoRow, PB!NoRow, B!NoTime, PB!NoTime
  <1> QED BY <1>1, <1>2, PA!InitRouted, PB!InitRouted DEF Routes

(* Also beside a second process a message goes to one person, and one that  *)
(* the allowlist of its own process names; a first attempt is not sent by a *)
(* cycle that begins ExpireAfter behind it, and summaries hold missed first *)
(* attempts: a lease that is lost changes none of this.  (That the task is  *)
(* still active when a summary goes out is true of one process only: the    *)
(* command that ends it may come to the other.)                             *)
THEOREM MessagesOfBoth ==
  Spec => /\ [](A!OneAllowedRecipient /\ A!NoStaleFirstAttempt)
          /\ [](B!OneAllowedRecipient /\ B!NoStaleFirstAttempt)
  <1> USE StoreAssumption, TwoBotsAssumption
  <1>1. ASSUME Routes
        PROVE  PA!OneAllowedRecipient /\ PB!OneAllowedRecipient
    BY <1>1 DEF Routes, PA!RouteInv, PA!MessageInv, PA!OneAllowedRecipient,
       PB!RouteInv, PB!MessageInv, PB!OneAllowedRecipient
  <1>2. ASSUME Routes
        PROVE  PA!NoStaleFirstAttempt /\ PB!NoStaleFirstAttempt
    BY <1>2, PA!MessageIsFresh, PB!MessageIsFresh DEF Routes, PA!RouteInv, PB!RouteInv
  <1>3. Routes => A!OneAllowedRecipient /\ A!NoStaleFirstAttempt
    BY <1>1, <1>2 DEF PA!OneAllowedRecipient, A!OneAllowedRecipient, PA!Recipient, A!Recipient,
       PA!NoStaleFirstAttempt, A!NoStaleFirstAttempt, PA!IsSummary, A!IsSummary, PA!Cardinality, A!Cardinality
  <1>4. Routes => B!OneAllowedRecipient /\ B!NoStaleFirstAttempt
    BY <1>1, <1>2 DEF PB!OneAllowedRecipient, B!OneAllowedRecipient, PB!Recipient, B!Recipient,
       PB!NoStaleFirstAttempt, B!NoStaleFirstAttempt, PB!IsSummary, B!IsSummary, PB!Cardinality, B!Cardinality
  <1>5. TwoInv /\ TwoInv' /\ Routes /\ [Next]_vars => Routes'
    BY RoutesStep
  <1> QED
    BY <1>3, <1>4, <1>5, InitiallyRouted, TwoInvariant, PTL DEF Spec

=============================================================================
