------------------------ MODULE ReminderCycleProofs ------------------------
(***************************************************************************)
(* One bot process, for every instance: it only takes steps the table      *)
(* allows, so the theorems of ReminderStoreProofs hold of it, and every    *)
(* claim it works on is a lease it still holds.                            *)
(***************************************************************************)
EXTENDS ReminderCycle, ReminderStoreProofs, FiniteSetTheorems

(* A claim that still holds its lease is the claim on its row, as the       *)
(* transactions that only look at the lease see it.                         *)
LEMMA LeaseIsClaim ==
  ASSUME NEW c \in Claim, HoldsLease(c)
  PROVE  /\ c.id \in Reminders
         /\ ClaimOn(c.id).id = c.id
         /\ HoldsLease(ClaimOn(c.id))
         /\ ClaimOn(c.id).retry = c.retry
  BY DEF Claim, HoldsLease, ClaimOn

LEMMA ResultIsStoreStep ==
  ASSUME TypeOK, NEW c \in Claim
  PROVE  /\ CancelDisallowedRecipient(c, cyc) => StoreNext
         /\ RecordSent(c, cyc) => StoreNext
         /\ RecordFailure(c, cyc) => StoreNext
  <1>1. cyc \in 0..now
    BY DEF TypeOK
  <1>2. CancelDisallowedRecipient(c, cyc) => CancelDisallowedRecipient(ClaimOn(c.id), cyc)
    BY LeaseIsClaim DEF CancelDisallowedRecipient
  <1>3. RecordSent(c, cyc) => RecordSent(ClaimOn(c.id), cyc)
    BY LeaseIsClaim DEF RecordSent
  <1>4. RecordFailure(c, cyc) => RecordFailure(ClaimOn(c.id), cyc)
    BY LeaseIsClaim DEF RecordFailure
  <1>5. c.id \in Reminders
    BY DEF Claim
  <1> QED
    BY <1>1, <1>2, <1>3, <1>4, <1>5 DEF StoreNext, SchedulerCall

LEMMA SummaryResultIsStoreStep ==
  ASSUME TypeOK, NEW C \in SUBSET Claim
  PROVE  /\ RecordSummarySent(C, cyc) => StoreNext
         /\ RecordSummaryFailure(C, cyc) => StoreNext
  <1>1. cyc \in 0..now /\ Ids(C) \in SUBSET Reminders
    BY DEF TypeOK, Ids, Claim
  <1> DEFINE D == {ClaimOn(r) : r \in Ids(C)}
  <1>2. Ids(D) = Ids(C)
    <2>1. \A r \in Ids(C) : ClaimOn(r).id = r
      BY DEF ClaimOn
    <2> QED BY <2>1 DEF Ids
  <1>3. SummaryHolds(C) => SummaryHolds(D)
    <2> SUFFICES ASSUME SummaryHolds(C) PROVE SummaryHolds(D)
      OBVIOUS
    <2>1. ASSUME NEW c \in C
          PROVE  HoldsLease(ClaimOn(c.id)) /\ ClaimOn(c.id).retry = 0 /\ rem[ClaimOn(c.id).id].last = NoTime
      BY LeaseIsClaim DEF SummaryHolds
    <2>2. \A d \in D : HoldsLease(d) /\ d.retry = 0 /\ rem[d.id].last = NoTime
      BY <2>1 DEF Ids
    <2> QED BY <1>2, <2>2 DEF SummaryHolds
  <1>4. RecordSummarySent(C, cyc) => RecordSummarySent(D, cyc)
    BY <1>2, <1>3 DEF RecordSummarySent
  <1>5. RecordSummaryFailure(C, cyc) => RecordSummaryFailure(D, cyc)
    BY <1>2, <1>3 DEF RecordSummaryFailure
  <1> QED
    BY <1>1, <1>4, <1>5 DEF StoreNext, SchedulerCall

(* Every step of the process is a step of the table, or leaves it alone.    *)
LEMMA StepIsStoreStep ==
  ASSUME TypeOK, [Next]_vars
  PROVE  [StoreNext]_storeVars
  <1> USE DEF storeVars
  <1>1. cyc \in 0..now
    BY DEF TypeOK
  <1>2. queue \in SUBSET Claim /\ group \in SUBSET Claim /\ sending \in SUBSET Claim
    BY DEF TypeOK
  <1>3. CASE RecoverLeases
    BY <1>1, <1>3 DEF RecoverLeases, StoreNext, SchedulerCall
  <1>4. CASE ClaimFirstAttempts
    BY <1>1, <1>4 DEF ClaimFirstAttempts, StoreNext, SchedulerCall
  <1>5. CASE Triage
    <2>1. Ids(queue) \in SUBSET Reminders
      BY <1>2 DEF Ids, Claim
    <2> QED BY <1>1, <1>5, <2>1 DEF Triage, StoreNext, SchedulerCall
  <1>6. CASE ClaimDueRetries
    BY <1>1, <1>6 DEF ClaimDueRetries, StoreNext, SchedulerCall
  <1>7. ASSUME NEW c \in queue \cup group, PreflightCancels(c)
        PROVE  StoreNext
    BY <1>2, <1>7, ResultIsStoreStep DEF PreflightCancels
  <1>8. CASE SendSucceeds
    BY <1>2, <1>8, ResultIsStoreStep, SummaryResultIsStoreStep DEF SendSucceeds
  <1>9. CASE SendFails
    BY <1>2, <1>9, ResultIsStoreStep, SummaryResultIsStoreStep DEF SendFails
  <1>10. CASE Clock \/ Command
    BY <1>10 DEF Clock, Command, Environment, StoreNext
  <1>11. CASE StartBot \/ BeginCycle \/ PhaseDone \/ GroupMissed \/ SendGroup \/ TelegramAccepts
    BY <1>11 DEF StartBot, BeginCycle, PhaseDone, GroupMissed, SendGroup, TelegramAccepts
  <1>12. ASSUME NEW c \in queue \cup group, PreflightReady(c) \/ PreflightSkips(c) \/ PreflightFails(c)
         PROVE  UNCHANGED storeVars
    BY <1>12 DEF PreflightReady, PreflightSkips, PreflightFails
  <1>13. CASE ResultNotRecorded \/ CycleFails \/ Stop
    BY <1>13 DEF ResultNotRecorded, CycleFails, Stop
  <1>14. CASE TimeIsUp \/ UNCHANGED vars
    BY <1>14 DEF TimeIsUp, vars
  <1> QED
    BY <1>3, <1>4, <1>5, <1>6, <1>7, <1>8, <1>9, <1>10, <1>11, <1>12, <1>13, <1>14
    DEF Next, CycleStep

-----------------------------------------------------------------------------
(* Type correctness.                                                        *)

LEMMA ClaimsAreTyped ==
  ASSUME TypeOK, NEW B \in SUBSET Reminders, \A r \in B : rem[r].retry \in 0..3,
         NEW due \in [Reminders -> Int]
  PROVE  ClaimsOf(B, due) \subseteq Claim
  BY DEF ClaimsOf, Claim, TypeOK, StoreTypeOK

LEMMA RetryDueTyped ==
  ASSUME StoreTypeOK
  PROVE  [r \in Reminders |-> RetryDue(r)] \in [Reminders -> Int]
  <1>1. \A r \in Reminders : rem[r].last \in Int /\ rem[r].retry \in 0..4
    BY DEF StoreTypeOK, Row, NoTime
  <1>2. \A i \in 1..3 : RetryDelay[i] \in Int
    BY StoreAssumption
  <1> QED
    BY <1>1, <1>2 DEF RetryDue, NoTime

LEMMA TypeStep ==
  ASSUME TypeOK, [Next]_vars
  PROVE  TypeOK'
  <1>1. StoreTypeOK' /\ now' >= now /\ now \in Nat /\ now' \in Nat
    BY StepIsStoreStep, StepSummary DEF TypeOK, Summary, StoreTypeOK
  <1>2. cyc \in 0..now'
    BY <1>1 DEF TypeOK
  <1> USE DEF hands, history, bounds
  <1>3. CASE StartBot \/ BeginCycle \/ PhaseDone \/ GroupMissed \/ SendGroup \/ RecoverLeases
    BY <1>1, <1>2, <1>3 DEF TypeOK, Phases, StartBot, BeginCycle, PhaseDone, GroupMissed, SendGroup,
       RecoverLeases, SameOwner, storeVars
  <1>4. CASE ClaimFirstAttempts
    <2> PICK B \in SUBSET Reminders : ClaimDue(cyc, B) /\ queue' = ClaimsOf(B, SchedOf)
      BY <1>4 DEF ClaimFirstAttempts
    <2>1. \A r \in B : rem[r].retry \in 0..3
      BY DEF ClaimDue, IsBatch, DueFirst
    <2>2. SchedOf \in [Reminders -> Int]
      BY StoreAssumption
    <2>3. queue' \subseteq Claim
      BY <2>1, <2>2, ClaimsAreTyped
    <2> QED BY <1>1, <1>2, <1>4, <2>3 DEF TypeOK, Phases, ClaimFirstAttempts
  <1>5. CASE Triage
    BY <1>1, <1>2, <1>5 DEF TypeOK, Phases, Triage
  <1>6. CASE ClaimDueRetries
    <2> PICK B \in SUBSET Reminders :
          ClaimRetries(cyc, B) /\ queue' = ClaimsOf(B, [r \in Reminders |-> RetryDue(r)])
      BY <1>6 DEF ClaimDueRetries
    <2>1. \A r \in B : rem[r].retry \in 0..3
      BY DEF ClaimRetries, IsBatch, DueRetry
    <2>2. queue' \subseteq Claim
      BY <2>1, ClaimsAreTyped, RetryDueTyped DEF TypeOK
    <2> QED BY <1>1, <1>2, <1>6, <2>2 DEF TypeOK, Phases, ClaimDueRetries
  <1>7. ASSUME NEW c \in queue \cup group,
               PreflightReady(c) \/ PreflightSkips(c) \/ PreflightCancels(c) \/ PreflightFails(c)
        PROVE  TypeOK'
    BY <1>1, <1>2, <1>7 DEF TypeOK, Prepare, PreflightReady, PreflightSkips, PreflightCancels,
       PreflightFails, Fault
  <1>8. CASE TelegramAccepts
    <2>1. got' \in [Reminders -> Nat]
      BY <1>8 DEF TelegramAccepts, Count, TypeOK
    <2> QED BY <1>1, <1>2, <1>8, <2>1 DEF TypeOK, TelegramAccepts
  <1>9. MessageLost => lost' \in [Reminders -> Nat]
    BY DEF MessageLost, Count, TypeOK
  <1>10. CASE SendSucceeds \/ SendFails \/ ResultNotRecorded
    <2>1. lost' \in [Reminders -> Nat] /\ EndSend
      BY <1>9, <1>10 DEF SendSucceeds, SendFails, ResultNotRecorded, TypeOK
    <2>2. faults' \in Nat /\ slow' \in Nat
      BY <1>10 DEF SendSucceeds, SendFails, ResultNotRecorded, TypeOK, Fault
    <2>3. \A C \in {queue', late', group', ready', sending'} : C \subseteq Claim
      BY <2>1 DEF TypeOK, EndSend
    <2>4. got' \in [Reminders -> Nat] /\ accepted' \in BOOLEAN
      BY <2>1 DEF TypeOK, EndSend
    <2> QED BY <1>1, <1>2, <2>1, <2>2, <2>3, <2>4 DEF TypeOK, EndSend
  <1>11. CASE CycleFails \/ Stop
    <2>1. lost' \in [Reminders -> Nat] /\ got' = got
      BY <1>9, <1>11 DEF CycleFails, Stop, TypeOK
    <2>2. faults' \in Nat /\ slow' \in Nat
      BY <1>11 DEF CycleFails, Stop, TypeOK, Fault
    <2>3. \A C \in {queue', late', group', ready', sending'} : C \subseteq Claim
      BY <1>11 DEF CycleFails, Stop, TypeOK
    <2>4. pc' \in Phases /\ cyc' = cyc /\ allowed' = allowed /\ accepted' \in BOOLEAN
      BY <1>11 DEF CycleFails, Stop, TypeOK, Phases
    <2> QED BY <1>1, <1>2, <2>1, <2>2, <2>3, <2>4 DEF TypeOK
  <1>12. CASE Clock \/ Command
    BY <1>1, <1>2, <1>12 DEF TypeOK, Clock, Command, Environment
  <1>13. CASE TimeIsUp \/ UNCHANGED vars
    BY <1>1, <1>2, <1>13 DEF TypeOK, TimeIsUp, vars
  <1> QED
    BY <1>3, <1>4, <1>5, <1>6, <1>7, <1>8, <1>10, <1>11, <1>12, <1>13 DEF Next, CycleStep

LEMMA InitTyped == Init => TypeOK
  <1> SUFFICES ASSUME Init PROVE TypeOK
    OBVIOUS
  <1>1. StoreTypeOK
    BY DEF Init, StoreInit, StoreTypeOK, NoRow, Row, NoTime, TaskStatus
  <1>2. cyc \in 0..now /\ pc \in Phases
    BY DEF Init, StoreInit, Phases
  <1>3. \A C \in {queue, late, group, ready, sending} : C \subseteq Claim
    BY DEF Init
  <1> QED
    BY <1>1, <1>2, <1>3 DEF Init, TypeOK

(* The process keeps its variables' domains.                                *)
THEOREM CycleTyping == Spec => []TypeOK
  BY InitTyped, TypeStep, PTL DEF Spec

(* The process implements the table's contract, with all that is proved of  *)
(* it: crashes, lost results and commands in the middle of a delivery       *)
(* included.                                                                *)
THEOREM CycleUsesStore == Spec => UsesStore
  <1>1. Init => StoreInit
    BY DEF Init
  <1>2. TypeOK /\ [Next]_vars => [StoreNext]_storeVars
    BY StepIsStoreStep
  <1> QED
    BY <1>1, <1>2, CycleTyping, PTL DEF Spec, UsesStore, StoreSpec
-----------------------------------------------------------------------------
(* Claims in hand are leases held.                                          *)

(* A held claim must survive every other step, so no step may touch the row *)
(* of a claim that stays in hand: that needs the hands to be disjoint, and  *)
(* empty where a cycle starts, recovers or claims anew.                     *)
CycleInv == TypeOK /\ ClaimsHeld /\ HandsInOrder

(* Every claim that stays in hand was in hand, and its row is untouched.    *)
Untouched == \A c \in InHand' : c \in InHand /\ rem'[c.id] = rem[c.id]

LEMMA UntouchedHeld ==
  ASSUME ClaimsHeld, Untouched
  PROVE  ClaimsHeld'
  BY DEF ClaimsHeld, Untouched, HoldsLease, Is

(* Commands only ever write pending rows, or create one.                    *)
LEMMA CommandsKeepClaims ==
  ASSUME StoreTypeOK, UserCommand, NEW r \in Reminders, Is(r, "processing")
  PROVE  rem'[r] = rem[r]
  <1>1. ASSUME NEW S \in SUBSET Reminders, NEW s, NEW at, SetStatus(S, s, at), r \notin S
        PROVE  rem'[r] = rem[r]
    BY <1>1 DEF SetStatus
  <1>2. ASSUME NEW q \in Reminders, CreateReminder(q) PROVE rem'[r] = rem[r]
    BY <1>2 DEF CreateReminder, Is, StoreTypeOK
  <1>3. ASSUME NEW q \in Reminders, CancelPendingReminder(q) PROVE rem'[r] = rem[r]
    BY <1>1, <1>3 DEF CancelPendingReminder, Is
  <1>4. ASSUME NEW t \in Tasks PROVE FuturePending(t) \in SUBSET Reminders /\ r \notin FuturePending(t)
    BY DEF FuturePending, Is
  <1>5. ASSUME NEW t \in Tasks, CompleteTask(t) \/ SoftDeleteTask(t) \/ CancelAllFuturePending(t)
        PROVE  rem'[r] = rem[r]
    BY <1>1, <1>4, <1>5 DEF CompleteTask, SoftDeleteTask, CancelAllFuturePending
  <1>6. ASSUME NEW t \in Tasks, ReopenTask(t) PROVE rem'[r] = rem[r]
    BY <1>6 DEF ReopenTask
  <1>7. ASSUME NEW t \in Tasks, NEW S \in SUBSET Reminders, CancelSelectedPendingReminders(t, S)
        PROVE  rem'[r] = rem[r]
    BY <1>1, <1>7 DEF CancelSelectedPendingReminders, Is
  <1> QED
    BY <1>2, <1>3, <1>5, <1>6, <1>7 DEF UserCommand

(* Claiming a batch puts leases into the row that match the claim records.  *)
LEMMA ClaimsOfHeld ==
  ASSUME TypeOK, NEW B \in SUBSET Reminders, NEW due,
         SetStatus(B, "processing", cyc)
  PROVE  \A c \in ClaimsOf(B, due) : HoldsLease(c)'
  <1> SUFFICES ASSUME NEW r \in B
               PROVE  LET c == [id |-> r, retry |-> rem[r].retry, at |-> cyc, due |-> due[r]]
                      IN  /\ rem'[c.id].status = "processing"
                          /\ rem'[c.id].retry = c.retry
                          /\ rem'[c.id].upd = c.at
    BY DEF ClaimsOf, HoldsLease, Is
  <1>1. rem[r] \in Row
    BY DEF TypeOK, StoreTypeOK
  <1>2. rem'[r] = [rem[r] EXCEPT !.status = "processing", !.upd = cyc]
    BY DEF SetStatus
  <1> QED
    BY <1>1, <1>2 DEF Row

(* A recorded result touches the rows of the message and no other.          *)
LEMMA ResultTouches ==
  ASSUME TypeOK, SendSucceeds \/ SendFails \/ ResultNotRecorded
  PROVE  /\ EndSend
         /\ \A r \in Reminders \ Ids(sending) : rem'[r] = rem[r]
  <1>1. EndSend
    BY DEF SendSucceeds, SendFails, ResultNotRecorded
  <1> SUFFICES ASSUME NEW r \in Reminders \ Ids(sending)
               PROVE  rem'[r] = rem[r]
    BY <1>1
  <1>2. CASE UNCHANGED storeVars
    BY <1>2 DEF storeVars
  <1>3. ASSUME NEW c \in sending, RecordSent(c, cyc) \/ RecordFailure(c, cyc)
        PROVE  rem'[r] = rem[r]
    <2>1. r # c.id
      BY DEF Ids
    <2> QED BY <1>3, <2>1 DEF RecordSent, RecordFailure, SetStatus, TypeOK, StoreTypeOK
  <1>4. CASE RecordSummarySent(sending, cyc) \/ RecordSummaryFailure(sending, cyc)
    BY <1>4 DEF RecordSummarySent, RecordSummaryFailure, SetStatus, Ids
  <1> QED
    BY <1>2, <1>3, <1>4 DEF SendSucceeds, SendFails, ResultNotRecorded

LEMMA HeldStep ==
  ASSUME CycleInv, [Next]_vars
  PROVE  ClaimsHeld'
  <1> USE DEF CycleInv
  <1>1. InHand \subseteq Claim /\ \A c \in InHand : c.id \in Reminders
    BY DEF TypeOK, InHand, Claim
  <1>2. CASE StartBot \/ BeginCycle \/ PhaseDone \/ GroupMissed \/ SendGroup
    <2>1. Untouched
      BY <1>2 DEF Untouched, InHand, StartBot, BeginCycle, PhaseDone, GroupMissed, SendGroup,
         SameOwner, storeVars, hands
    <2> QED BY <2>1, UntouchedHeld
  <1>3. CASE RecoverLeases
    <2>1. InHand' = {}
      BY <1>3 DEF RecoverLeases, HandsInOrder, HandsOfPhase, InHand, hands
    <2> QED BY <2>1 DEF ClaimsHeld
  <1>4. CASE ClaimFirstAttempts
    <2> PICK B \in SUBSET Reminders : ClaimDue(cyc, B) /\ queue' = ClaimsOf(B, SchedOf)
      BY <1>4 DEF ClaimFirstAttempts
    <2>1. InHand' = ClaimsOf(B, SchedOf)
      BY <1>4 DEF ClaimFirstAttempts, HandsInOrder, HandsOfPhase, InHand
    <2> QED BY <2>1, ClaimsOfHeld DEF ClaimDue, ClaimsHeld
  <1>5. CASE ClaimDueRetries
    <2> DEFINE due == [r \in Reminders |-> RetryDue(r)]
    <2> PICK B \in SUBSET Reminders : ClaimRetries(cyc, B) /\ queue' = ClaimsOf(B, due)
      BY <1>5 DEF ClaimDueRetries
    <2> HIDE DEF due
    <2>1. InHand' = ClaimsOf(B, due)
      BY <1>5 DEF ClaimDueRetries, HandsInOrder, HandsOfPhase, InHand
    <2> QED BY <2>1, ClaimsOfHeld DEF ClaimRetries, ClaimsHeld
  <1>6. CASE Triage
    <2> DEFINE E == Expired(Ids(queue), cyc)
    <2>1. now \in Nat /\ cyc \in Nat /\ MissedAfter \in Nat /\ ExpireAfter \in Nat
          /\ MissedAfter < ExpireAfter /\ \A r \in Reminders : SchedOf[r] \in Nat
      BY StoreAssumption DEF TypeOK, StoreTypeOK
    <2>2. \A r \in OnTime(Ids(queue), cyc) \cup Missed(Ids(queue), cyc) :
             r \in Reminders => r \notin E
      BY <2>1 DEF OnTime, Missed, Expired
    <2>3. \A r \in Reminders : r \notin E => rem'[r] = rem[r]
      BY <1>6 DEF Triage, ApplyDowntimeRecovery, SetStatus
    <2>4. \A c \in InHand' : /\ c \in InHand
                            /\ c.id \in OnTime(Ids(queue), cyc) \cup Missed(Ids(queue), cyc)
      BY <1>6 DEF Triage, HandsInOrder, HandsOfPhase, InHand
    <2> QED BY <1>1, <2>2, <2>3, <2>4, UntouchedHeld DEF Untouched
  <1>7. ASSUME NEW c \in queue \cup group,
               PreflightReady(c) \/ PreflightSkips(c) \/ PreflightFails(c)
        PROVE  ClaimsHeld'
    <2>1. Untouched
      BY <1>7 DEF Untouched, InHand, Prepare, PreflightReady, PreflightSkips, PreflightFails, storeVars
    <2> QED BY <2>1, UntouchedHeld
  <1>8. ASSUME NEW c \in queue \cup group, PreflightCancels(c)
        PROVE  ClaimsHeld'
    <2>1. \A d \in InHand' : d \in InHand /\ d # c
      BY <1>8 DEF InHand, Prepare, PreflightCancels, HandsInOrder, ClaimsDisjoint
    <2>2. \A d \in InHand' : d.id # c.id
      BY <2>1 DEF InHand, HandsInOrder, ClaimsDisjoint
    <2>3. \A r \in Reminders : r # c.id => rem'[r] = rem[r]
      BY <1>8 DEF PreflightCancels, CancelDisallowedRecipient, SetStatus
    <2> QED BY <1>1, <2>1, <2>2, <2>3, UntouchedHeld DEF Untouched
  <1>9. CASE TelegramAccepts
    <2>1. Untouched
      BY <1>9 DEF Untouched, InHand, TelegramAccepts, storeVars, hands
    <2> QED BY <2>1, UntouchedHeld
  <1>10. CASE SendSucceeds \/ SendFails \/ ResultNotRecorded
    <2>1. \A d \in InHand' : d \in InHand /\ d \notin sending
      BY <1>10, ResultTouches DEF EndSend, InHand, HandsInOrder, ClaimsDisjoint
    <2>2. \A d \in InHand' : d.id \notin Ids(sending)
      BY <2>1 DEF Ids, InHand, HandsInOrder, ClaimsDisjoint
    <2> QED BY <1>1, <1>10, <2>1, <2>2, ResultTouches, UntouchedHeld DEF Untouched
  <1>11. CASE CycleFails \/ Stop
    <2>1. Untouched
      BY <1>11 DEF Untouched, InHand, CycleFails, Stop, storeVars
    <2> QED BY <2>1, UntouchedHeld
  <1>12. CASE Clock \/ TimeIsUp \/ UNCHANGED vars
    <2>1. Untouched
      BY <1>12 DEF Untouched, InHand, Clock, Tick, Environment, TimeIsUp, vars, storeVars, hands
    <2> QED BY <2>1, UntouchedHeld
  <1>13. CASE Command
    <2>1. InHand' = InHand /\ UserCommand
      BY <1>13 DEF Command, Environment, InHand, hands
    <2>2. Untouched
      BY <1>1, <2>1, CommandsKeepClaims DEF Untouched, ClaimsHeld, HoldsLease, TypeOK
    <2> QED BY <2>2, UntouchedHeld
  <1> QED
    BY <1>2, <1>3, <1>4, <1>5, <1>6, <1>7, <1>8, <1>9, <1>10, <1>11, <1>12, <1>13
    DEF Next, CycleStep
(* The hands stay disjoint: a claim moves from one to the next, and only an *)
(* empty-handed process claims.                                             *)
LEMMA DisjointStep ==
  ASSUME TypeOK, HandsInOrder, [Next]_vars
  PROVE  ClaimsDisjoint'
  <1> USE DEF HandsInOrder
  <1>1. ASSUME NEW B, NEW due, queue' = ClaimsOf(B, due),
               late' \cup group' \cup ready' \cup sending' = {}
        PROVE  ClaimsDisjoint'
    BY <1>1 DEF ClaimsDisjoint, InHand, ClaimsOf
  <1>2. CASE UNCHANGED hands
    BY <1>2 DEF ClaimsDisjoint, InHand, hands
  <1>3. CASE StartBot \/ BeginCycle \/ RecoverLeases \/ PhaseDone \/ TelegramAccepts \/ Clock
             \/ Command \/ TimeIsUp \/ UNCHANGED vars
    <2>1. UNCHANGED hands
      BY <1>3 DEF StartBot, BeginCycle, RecoverLeases, PhaseDone, TelegramAccepts, Clock, Command,
         Environment, TimeIsUp, vars
    <2> QED BY <1>2, <2>1
  <1>4. CASE GroupMissed
    BY <1>4 DEF GroupMissed, Idle, SameOwner, ClaimsDisjoint, InHand
  <1>5. CASE SendGroup
    BY <1>5 DEF SendGroup, ClaimsDisjoint, InHand
  <1>6. CASE ClaimFirstAttempts
    BY <1>1, <1>6 DEF ClaimFirstAttempts, HandsOfPhase, InHand
  <1>7. CASE ClaimDueRetries
    BY <1>1, <1>7 DEF ClaimDueRetries, HandsOfPhase, InHand
  <1>8. CASE Triage
    <2>1. now \in Nat /\ cyc \in Nat /\ MissedAfter \in Nat /\ ExpireAfter \in Nat
          /\ \A r \in Reminders : SchedOf[r] \in Nat
      BY StoreAssumption DEF TypeOK, StoreTypeOK
    <2>2. \A c \in queue : c.id \in Reminders
      BY DEF TypeOK, Claim
    <2>3. \A c \in queue : ~(c.id \in OnTime(Ids(queue), cyc) /\ c.id \in Missed(Ids(queue), cyc))
      BY <2>1, <2>2 DEF OnTime, Missed
    <2>4. queue' \cap late' = {} /\ queue' \cup late' \subseteq queue
      BY <1>8, <2>3 DEF Triage
    <2>5. group' \cup ready' \cup sending' = {}
      BY <1>8 DEF Triage, HandsOfPhase
    <2> QED BY <2>4, <2>5 DEF ClaimsDisjoint, InHand
  <1>9. ASSUME NEW c \in queue \cup group,
               PreflightReady(c) \/ PreflightSkips(c) \/ PreflightCancels(c) \/ PreflightFails(c)
        PROVE  ClaimsDisjoint'
    BY <1>9 DEF Prepare, PreflightReady, PreflightSkips, PreflightCancels, PreflightFails,
       ClaimsDisjoint, InHand
  <1>10. CASE SendSucceeds \/ SendFails \/ ResultNotRecorded
    BY <1>10, ResultTouches DEF EndSend, ClaimsDisjoint, InHand
  <1>11. CASE CycleFails \/ Stop
    BY <1>11 DEF CycleFails, Stop, ClaimsDisjoint, InHand
  <1> QED
    BY <1>3, <1>4, <1>5, <1>6, <1>7, <1>8, <1>9, <1>10, <1>11 DEF Next, CycleStep

(* A phase ends only with empty hands, but for the missed claims that the   *)
(* missed phase takes over.                                                 *)
LEMMA PhaseStep ==
  ASSUME TypeOK, HandsInOrder, [Next]_vars
  PROVE  HandsOfPhase'
  <1> USE DEF HandsInOrder, HandsOfPhase, InHand, hands
  <1>1. CASE StartBot \/ BeginCycle \/ RecoverLeases \/ ClaimFirstAttempts \/ ClaimDueRetries
    BY <1>1 DEF StartBot, BeginCycle, RecoverLeases, ClaimFirstAttempts, ClaimDueRetries
  <1>2. CASE Triage
    BY <1>2 DEF Triage
  <1>3. CASE PhaseDone
    BY <1>3 DEF PhaseDone, Idle
  <1>4. CASE GroupMissed \/ SendGroup
    BY <1>4 DEF GroupMissed, SendGroup, TypeOK, Phases
  <1>5. ASSUME NEW c \in queue \cup group,
               PreflightReady(c) \/ PreflightSkips(c) \/ PreflightCancels(c) \/ PreflightFails(c)
        PROVE  HandsOfPhase'
    BY <1>5 DEF Prepare, PreflightReady, PreflightSkips, PreflightCancels, PreflightFails
  <1>6. CASE SendSucceeds \/ SendFails \/ ResultNotRecorded
    BY <1>6, ResultTouches DEF EndSend
  <1>7. CASE CycleFails \/ Stop
    BY <1>7 DEF CycleFails, Stop
  <1>8. CASE TelegramAccepts \/ Clock \/ Command \/ TimeIsUp \/ UNCHANGED vars
    BY <1>8 DEF TelegramAccepts, Clock, Command, Environment, TimeIsUp, vars
  <1> QED
    BY <1>1, <1>2, <1>3, <1>4, <1>5, <1>6, <1>7, <1>8 DEF Next, CycleStep

LEMMA CycleInvariant == Spec => []CycleInv
  <1>1. Init => CycleInv
    <2>1. Init => InHand = {}
      BY DEF Init, InHand
    <2> QED
      BY <2>1, InitTyped DEF CycleInv, ClaimsHeld, HandsInOrder, ClaimsDisjoint, HandsOfPhase, InHand
  <1>2. CycleInv /\ [Next]_vars => CycleInv'
    BY TypeStep, HeldStep, DisjointStep, PhaseStep DEF CycleInv, HandsInOrder
  <1> QED
    BY <1>1, <1>2, PTL DEF Spec

(* One process never acts on a claim it has lost, so the lease tests of its *)
(* recording transactions cannot fail.                                      *)
THEOREM ClaimsAreHeld == Spec => []ClaimsHeld
  <1>1. CycleInv => ClaimsHeld
    BY DEF CycleInv
  <1> QED BY <1>1, CycleInvariant, PTL

(* No reminder is in two hands of the process, and none is left behind.     *)
THEOREM HandsStayInOrder == Spec => []HandsInOrder
  <1>1. CycleInv => HandsInOrder
    BY DEF CycleInv
  <1> QED BY <1>1, CycleInvariant, PTL
-----------------------------------------------------------------------------
(* Messages: who gets them, how old they are, and what became of them.      *)

(* A first attempt not yet ExpireAfter behind in this cycle, and one that   *)
(* is missed.                                                               *)
Fresh(c) == c.retry = 0 => cyc - SchedOf[c.id] < ExpireAfter
FoundMissed(c) ==
  c.retry = 0 /\ cyc - SchedOf[c.id] > MissedAfter /\ cyc - SchedOf[c.id] < ExpireAfter

(* The preflight of an owner's missed claims runs in one go: nothing is     *)
(* sent before the group is sent or queued, and no command of the process   *)
(* gets in.                                                                 *)
GroupInv ==
  /\ group \cup ready # {} => queue \cup sending = {}
  /\ \A c, d \in group \cup ready : Recipient(c) = Recipient(d)
  /\ \A c \in ready : Recipient(c) \in allowed
ReadyActive == \A c \in ready : TaskActive(c.id)

(* Triage sorts first attempts by age, and no later step of the cycle       *)
(* changes its clock.                                                       *)
AgeInv ==
  /\ pc # "triage" => \A c \in queue : Fresh(c)
  /\ \A c \in late \cup group \cup ready : FoundMissed(c)

(* A message stands for one reminder or for missed ones of one owner.       *)
MessageInv ==
  /\ sending = {} => ~accepted
  /\ \A c \in sending : Fresh(c) /\ Recipient(c) \in allowed
  /\ \A c, d \in sending : Recipient(c) = Recipient(d)
  /\ \/ \E c \in sending : sending = {c}
     \/ sending = {}
     \/ IsSummary /\ \A c \in sending : FoundMissed(c)

(* What holds of the hands whatever happens to the rows of their claims.    *)
RouteInv == TypeOK /\ HandsInOrder /\ GroupInv /\ AgeInv /\ MessageInv

(* What the triage goes by is what the claims say.                          *)
FirstTries == \A c \in queue : pc = "triage" => c.retry = 0 \/ rem[c.id].retry = c.retry

DeliveryInv == CycleInv /\ RouteInv /\ ReadyActive

(* What the claim queries and the triage say of a claim's age.              *)
LEMMA TriageAges ==
  ASSUME TypeOK, FirstTries, Triage
  PROVE  /\ \A c \in queue' : Fresh(c)
         /\ \A c \in late' : FoundMissed(c)
  <1>1. cyc \in Nat /\ MissedAfter \in Nat /\ ExpireAfter \in Nat /\ MissedAfter < ExpireAfter
        /\ \A r \in Reminders : SchedOf[r] \in Nat
    BY StoreAssumption DEF TypeOK, StoreTypeOK
  <1>2. \A c \in queue : c.id \in Reminders /\ (c.retry = 0 \/ rem[c.id].retry = c.retry)
    BY DEF TypeOK, Claim, FirstTries, Triage
  <1>3. \A c \in queue' : Fresh(c)
    BY <1>1, <1>2 DEF Triage, OnTime, Fresh
  <1>4. \A c \in late' : FoundMissed(c)
    BY <1>1, <1>2 DEF Triage, Missed, FirstAttempts, FoundMissed
  <1> QED
    BY <1>3, <1>4

(* A retry is never a first attempt.                                        *)
LEMMA RetriesAreFresh ==
  ASSUME NEW at, NEW B \in SUBSET Reminders, ClaimRetries(at, B), NEW due
  PROVE  \A c \in ClaimsOf(B, due) : Fresh(c)
  BY DEF ClaimRetries, IsBatch, DueRetry, ClaimsOf, Fresh

LEMMA GroupStep ==
  ASSUME HandsInOrder, GroupInv, [Next]_vars
  PROVE  GroupInv' /\ (ReadyActive => ReadyActive')
  <1> USE DEF GroupInv, ReadyActive, Recipient, hands
  <1>1. CASE StartBot \/ BeginCycle \/ RecoverLeases \/ ClaimFirstAttempts \/ Triage
             \/ ClaimDueRetries
    <2>1. group \cup ready = {}
      BY <1>1 DEF HandsInOrder, HandsOfPhase, InHand, StartBot, BeginCycle, RecoverLeases,
         ClaimFirstAttempts, Triage, ClaimDueRetries
    <2>2. UNCHANGED <<group, ready>>
      BY <1>1 DEF StartBot, BeginCycle, RecoverLeases, ClaimFirstAttempts, Triage, ClaimDueRetries
    <2> QED BY <2>1, <2>2
  <1>2. CASE PhaseDone \/ TelegramAccepts
    BY <1>2 DEF PhaseDone, TelegramAccepts, storeVars, TaskActive
  <1>3. CASE GroupMissed
    BY <1>3 DEF GroupMissed, Idle, SameOwner, Recipient
  <1>4. CASE SendGroup
    BY <1>4 DEF SendGroup
  <1>5. ASSUME NEW c \in queue \cup group,
               PreflightReady(c) \/ PreflightSkips(c) \/ PreflightCancels(c) \/ PreflightFails(c)
        PROVE  GroupInv' /\ (ReadyActive => ReadyActive')
    <2>1. /\ group' = group \ {c} /\ queue' = queue \ {c} /\ sending = {}
          /\ UNCHANGED <<task, allowed>>
      BY <1>5 DEF PreflightReady, PreflightSkips, PreflightCancels, PreflightFails, Prepare,
         CancelDisallowedRecipient, storeVars
    <2>2. \/ ready' = ready /\ sending' = sending
          \/ c \in group /\ ready' = ready \cup {c} /\ sending' = sending
             /\ Recipient(c) \in allowed /\ TaskActive(c.id)
          \/ c \notin group /\ ready' = ready /\ sending' = {c}
      BY <1>5 DEF PreflightReady, PreflightSkips, PreflightCancels, PreflightFails, Eligible
    <2> QED BY <2>1, <2>2 DEF TaskActive
  <1>6. CASE SendSucceeds \/ SendFails \/ ResultNotRecorded
    <2>1. group \cup ready = {} /\ UNCHANGED <<group, ready>>
      BY <1>6 DEF SendSucceeds, SendFails, ResultNotRecorded, EndSend
    <2> QED BY <2>1
  <1>7. CASE CycleFails
    <2>1. group \cup ready = {} /\ UNCHANGED <<group, ready>>
      BY <1>7 DEF CycleFails, HandsInOrder, HandsOfPhase, InHand
    <2> QED BY <2>1
  <1>8. CASE Stop
    BY <1>8 DEF Stop
  <1>9. CASE Command
    <2>1. ready = {} /\ UNCHANGED <<hands, allowed>>
      BY <1>9 DEF Command, Environment, HandsInOrder, HandsOfPhase, InHand
    <2> QED BY <2>1
  <1>10. CASE Clock \/ TimeIsUp \/ UNCHANGED vars
    <2>1. UNCHANGED <<hands, allowed, task>>
      BY <1>10 DEF Clock, Tick, Environment, TimeIsUp, vars, storeVars
    <2> QED BY <2>1 DEF TaskActive
  <1> QED
    BY <1>1, <1>2, <1>3, <1>4, <1>5, <1>6, <1>7, <1>8, <1>9, <1>10 DEF Next, CycleStep

LEMMA AgeStep ==
  ASSUME RouteInv, FirstTries, [Next]_vars
  PROVE  AgeInv'
  <1> USE DEF RouteInv, AgeInv
  <1>1. CASE StartBot \/ BeginCycle \/ RecoverLeases
    <2>1. InHand = {} /\ UNCHANGED hands
      BY <1>1 DEF StartBot, BeginCycle, RecoverLeases, HandsInOrder, HandsOfPhase
    <2> QED BY <2>1 DEF InHand, hands
  <1>2. CASE ClaimFirstAttempts
    BY <1>2 DEF ClaimFirstAttempts, HandsInOrder, HandsOfPhase, InHand
  <1>3. CASE Triage
    <2>1. cyc' = cyc /\ group' \cup ready' = {}
      BY <1>3 DEF Triage, HandsInOrder, HandsOfPhase
    <2> QED BY <1>3, <2>1, TriageAges DEF Fresh, FoundMissed
  <1>4. CASE ClaimDueRetries
    <2>1. cyc' = cyc /\ late' \cup group' \cup ready' = {}
      BY <1>4 DEF ClaimDueRetries, HandsInOrder, HandsOfPhase, InHand
    <2>2. \A c \in queue' : Fresh(c)
      BY <1>4, RetriesAreFresh DEF ClaimDueRetries
    <2> QED BY <2>1, <2>2 DEF Fresh, FoundMissed
  <1>5. CASE GroupMissed
    BY <1>5 DEF GroupMissed, Idle, SameOwner, Fresh, FoundMissed
  <1>6. CASE SendGroup
    <2>1. cyc' = cyc /\ queue' \subseteq queue \cup ready /\ ready' = {} /\ UNCHANGED <<pc, late, group>>
      BY <1>6 DEF SendGroup
    <2>2. \A c \in ready : Fresh(c)
      BY DEF FoundMissed, Fresh
    <2>3. ready = {} \/ pc # "triage"
      BY DEF HandsInOrder, HandsOfPhase
    <2> QED BY <1>6, <2>1, <2>2, <2>3 DEF Fresh, FoundMissed, SendGroup
  <1>7. ASSUME NEW c \in queue \cup group,
               PreflightReady(c) \/ PreflightSkips(c) \/ PreflightCancels(c) \/ PreflightFails(c)
        PROVE  AgeInv'
    <2>1. /\ queue' \subseteq queue /\ late' = late /\ UNCHANGED <<pc, cyc>>
          /\ group' \cup ready' \subseteq group \cup ready
      BY <1>7 DEF PreflightReady, PreflightSkips, PreflightCancels, PreflightFails, Prepare
    <2> QED BY <2>1 DEF Fresh, FoundMissed
  <1>8. CASE SendSucceeds \/ SendFails \/ ResultNotRecorded
    <2>1. UNCHANGED <<pc, cyc, queue, late, group, ready>>
      BY <1>8 DEF SendSucceeds, SendFails, ResultNotRecorded, EndSend
    <2> QED BY <2>1 DEF Fresh, FoundMissed
  <1>9. CASE CycleFails \/ Stop
    BY <1>9 DEF CycleFails, Stop, Fresh, FoundMissed
  <1>10. CASE PhaseDone
    <2>1. queue = {} /\ UNCHANGED <<cyc, hands>>
      BY <1>10 DEF PhaseDone, Idle
    <2> QED BY <2>1 DEF Fresh, FoundMissed, hands
  <1>11. CASE TelegramAccepts \/ Clock \/ Command \/ TimeIsUp \/ UNCHANGED vars
    <2>1. UNCHANGED <<pc, cyc, hands>>
      BY <1>11 DEF TelegramAccepts, Clock, Command, Environment, TimeIsUp, vars
    <2> QED BY <2>1 DEF Fresh, FoundMissed, hands
  <1> QED
    BY <1>1, <1>2, <1>3, <1>4, <1>5, <1>6, <1>7, <1>8, <1>9, <1>10, <1>11 DEF Next, CycleStep

LEMMA MessageStep ==
  ASSUME RouteInv, [Next]_vars
  PROVE  MessageInv'
  <1> USE DEF RouteInv, MessageInv, Recipient
  <1>1. CASE StartBot \/ BeginCycle
    <2>1. sending = {} /\ sending' = {} /\ accepted' = accepted
      BY <1>1 DEF StartBot, BeginCycle, HandsInOrder, HandsOfPhase, InHand, hands
    <2> QED BY <2>1
  <1>2. CASE SendGroup
    <2>1. sending = {} /\ accepted' = accepted /\ cyc' = cyc /\ allowed' = allowed /\ ready # {}
      BY <1>2 DEF SendGroup, GroupInv
    <2>2. \A c \in ready : Fresh(c) /\ FoundMissed(c) /\ Recipient(c) \in allowed
      BY DEF GroupInv, AgeInv, FoundMissed, Fresh
    <2>3. CASE sending' = sending
      BY <2>1, <2>3
    <2>4. CASE sending' = ready /\ Cardinality(ready) >= SummaryMin
      BY <2>1, <2>2, <2>4 DEF GroupInv, Fresh, FoundMissed, IsSummary
    <2> QED BY <1>2, <2>3, <2>4 DEF SendGroup
  <1>3. ASSUME NEW c \in queue \cup group, PreflightReady(c)
        PROVE  MessageInv'
    <2>1. sending = {} /\ UNCHANGED <<accepted, cyc, allowed>> /\ Recipient(c) \in allowed
      BY <1>3 DEF PreflightReady, Prepare
    <2>2. CASE sending' = sending
      BY <2>1, <2>2
    <2>3. CASE sending' = {c} /\ c \in queue
      <3>1. Fresh(c)
        BY <1>3, <2>3 DEF AgeInv, PreflightReady, Prepare
      <3> QED BY <2>1, <2>3, <3>1 DEF Fresh
    <2> QED BY <1>3, <2>2, <2>3 DEF PreflightReady
  <1>4. ASSUME NEW c \in queue \cup group,
               PreflightSkips(c) \/ PreflightCancels(c) \/ PreflightFails(c)
        PROVE  UNCHANGED <<sending, accepted, cyc, allowed>>
    BY <1>4 DEF PreflightSkips, PreflightCancels, PreflightFails, Prepare
  <1>5. ASSUME UNCHANGED <<sending, accepted, cyc, allowed>>
        PROVE  MessageInv'
    <2>1. \A c : Fresh(c)' = Fresh(c) /\ FoundMissed(c)' = FoundMissed(c)
      BY <1>5 DEF Fresh, FoundMissed
    <2>2. \A c \in sending' : Fresh(c)' /\ Recipient(c) \in allowed'
      BY <1>5, <2>1
    <2>3. \/ \E c \in sending' : sending' = {c}
          \/ sending' = {}
          \/ IsSummary' /\ \A c \in sending' : FoundMissed(c)'
      BY <1>5, <2>1 DEF IsSummary
    <2> QED BY <1>5, <2>2, <2>3
  <1>6. CASE TelegramAccepts
    <2>1. sending # {} /\ UNCHANGED <<sending, cyc, allowed>>
      BY <1>6 DEF TelegramAccepts, hands
    <2> QED BY <2>1 DEF Fresh, FoundMissed, IsSummary
  <1>7. CASE SendSucceeds \/ SendFails \/ ResultNotRecorded \/ Stop
    <2>1. sending' = {} /\ accepted' = FALSE
      BY <1>7 DEF SendSucceeds, SendFails, ResultNotRecorded, EndSend, Stop
    <2> QED BY <2>1
  <1>8. CASE \E c \in queue \cup group : PreflightSkips(c) \/ PreflightCancels(c) \/ PreflightFails(c)
    BY <1>4, <1>5, <1>8
  <1>9. CASE RecoverLeases \/ ClaimFirstAttempts \/ Triage \/ ClaimDueRetries \/ PhaseDone
              \/ GroupMissed \/ CycleFails \/ Clock \/ Command \/ TimeIsUp \/ UNCHANGED vars
    <2>1. UNCHANGED <<sending, accepted, cyc, allowed>>
      BY <1>9 DEF RecoverLeases, ClaimFirstAttempts, Triage, ClaimDueRetries, PhaseDone, GroupMissed,
         CycleFails, Clock, Command, Environment, TimeIsUp, vars, hands
    <2> QED BY <1>5, <2>1
  <1> QED
    BY <1>1, <1>2, <1>3, <1>6, <1>7, <1>8, <1>9 DEF Next, CycleStep

(* Routes need the types and the order of the hands, and no lease.          *)
LEMMA RouteStep ==
  ASSUME RouteInv, FirstTries, [Next]_vars
  PROVE  RouteInv'
  <1>1. TypeOK' /\ HandsInOrder'
    BY TypeStep, DisjointStep, PhaseStep DEF RouteInv, HandsInOrder
  <1>2. GroupInv' /\ AgeInv' /\ MessageInv'
    BY GroupStep, AgeStep, MessageStep DEF RouteInv
  <1> QED BY <1>1, <1>2 DEF RouteInv

LEMMA InitRouted == Init => RouteInv
  <1> SUFFICES ASSUME Init PROVE RouteInv
    OBVIOUS
  <1>1. HandsInOrder
    BY DEF Init, HandsInOrder, ClaimsDisjoint, HandsOfPhase, InHand
  <1>2. GroupInv /\ AgeInv /\ MessageInv
    BY DEF Init, GroupInv, AgeInv, MessageInv
  <1> QED BY <1>1, <1>2, InitTyped DEF RouteInv

LEMMA DeliveryInvariant == Spec => []DeliveryInv
  <1>1. Init => RouteInv /\ ReadyActive
    BY InitRouted DEF Init, ReadyActive
  <1>2. ASSUME DeliveryInv, [Next]_vars
        PROVE  RouteInv' /\ ReadyActive'
    <2>1. FirstTries
      BY <1>2 DEF DeliveryInv, CycleInv, ClaimsHeld, InHand, HoldsLease, FirstTries
    <2> QED BY <1>2, <2>1, RouteStep, GroupStep DEF DeliveryInv, RouteInv
  <1> QED
    BY <1>1, <1>2, CycleInvariant, PTL DEF Spec, DeliveryInv

(* Whoever gets a message, it is one person, and one on the allowlist.      *)
THEOREM OneRecipient == Spec => []OneAllowedRecipient
  <1>1. DeliveryInv => OneAllowedRecipient
    BY DEF DeliveryInv, RouteInv, MessageInv, OneAllowedRecipient
  <1> QED BY <1>1, DeliveryInvariant, PTL

LEMMA MessageIsFresh ==
  ASSUME MessageInv
  PROVE  NoStaleFirstAttempt
  <1> SUFFICES ASSUME NEW c \in sending
               PROVE  Fresh(c) /\ (IsSummary => FoundMissed(c))
    BY DEF NoStaleFirstAttempt, Fresh, FoundMissed
  <1>1. ~IsSummary \/ FoundMissed(c)
    <2>1. CASE sending = {c}
      <3>1. Cardinality({c}) = 1
        BY FS_Singleton
      <3> QED BY <2>1, <3>1, CycleAssumption, StoreAssumption DEF IsSummary
    <2>2. CASE \A d \in sending : FoundMissed(d)
      BY <2>2
    <2> QED BY <2>1, <2>2 DEF MessageInv
  <1> QED BY <1>1 DEF MessageInv

(* A first attempt is never sent by a cycle that starts too late for it,    *)
(* and a summary holds missed first attempts only.                          *)
THEOREM FirstAttemptsAreFresh == Spec => []NoStaleFirstAttempt
  <1>1. DeliveryInv => NoStaleFirstAttempt
    BY MessageIsFresh DEF DeliveryInv, RouteInv
  <1> QED BY <1>1, DeliveryInvariant, PTL

(* A new message is for a task that is active in that very step.            *)
THEOREM EndedTasksGetNoMessage == Spec => NoMessageForInactiveTask
  <1>1. DeliveryInv /\ [Next]_vars => [sending = {} => \A c \in sending' : TaskActive(c.id)]_vars
    <2> SUFFICES ASSUME DeliveryInv, Next, sending = {}
                 PROVE  \A c \in sending' : TaskActive(c.id)
      OBVIOUS
    <2>1. CASE SendGroup
      BY <2>1 DEF SendGroup, DeliveryInv, ReadyActive
    <2>2. ASSUME NEW c \in queue \cup group, PreflightReady(c)
          PROVE  \A d \in sending' : TaskActive(d.id)
      BY <2>2 DEF PreflightReady, Eligible
    <2>3. SendGroup \/ (\E c \in queue \cup group : PreflightReady(c)) \/ sending' = {}
      BY DEF Next, CycleStep, StartBot, BeginCycle, RecoverLeases, ClaimFirstAttempts, Triage,
         ClaimDueRetries, PhaseDone, GroupMissed, PreflightSkips, PreflightCancels, PreflightFails,
         SendSucceeds, SendFails, ResultNotRecorded, EndSend, CycleFails, Stop, TelegramAccepts, Clock,
         Command, Environment, TimeIsUp, vars, hands
    <2> QED BY <2>1, <2>2, <2>3
  <1> QED BY <1>1, DeliveryInvariant, PTL DEF Spec, NoMessageForInactiveTask
-----------------------------------------------------------------------------
(* What became of the messages.                                             *)

InFlight(r) == accepted /\ r \in Ids(sending)

(* The row of a message that waits for its answer is under way.             *)
LEMMA SendingIsProcessing ==
  ASSUME CycleInv, NEW r \in Ids(sending)
  PROVE  r \in Reminders /\ Is(r, "processing")
  BY DEF CycleInv, ClaimsHeld, InHand, HoldsLease, Ids, TypeOK, Claim

(* A status update to anything but "sent" marks no row sent.                *)
LEMMA NotMarkedSent ==
  ASSUME NEW S, NEW s, s # "sent", NEW at, SetStatus(S, s, at), StoreTypeOK,
         NEW r \in Reminders, Is(r, "sent")'
  PROVE  Is(r, "sent")
  <1>1. rem[r] \in Row
    BY DEF StoreTypeOK
  <1>2. r \in S => rem'[r].status = s
    BY <1>1 DEF SetStatus, Row
  <1>3. r \notin S => rem'[r] = rem[r]
    BY DEF SetStatus
  <1> QED
    BY <1>2, <1>3 DEF Is

LEMMA CommandsMarkNothingSent ==
  ASSUME StoreTypeOK, UserCommand, NEW r \in Reminders, Is(r, "sent")'
  PROVE  Is(r, "sent")
  <1>1. ASSUME NEW q \in Reminders, CreateReminder(q) PROVE Is(r, "sent")
    BY <1>1 DEF CreateReminder, Is, StoreTypeOK
  <1>2. ASSUME NEW q \in Reminders, CancelPendingReminder(q) PROVE Is(r, "sent")
    BY <1>2, NotMarkedSent DEF CancelPendingReminder
  <1>3. ASSUME NEW t \in Tasks, CompleteTask(t) \/ SoftDeleteTask(t) \/ CancelAllFuturePending(t)
        PROVE  Is(r, "sent")
    BY <1>3, NotMarkedSent DEF CompleteTask, SoftDeleteTask, CancelAllFuturePending
  <1>4. ASSUME NEW t \in Tasks, ReopenTask(t) PROVE Is(r, "sent")
    BY <1>4 DEF ReopenTask, Is
  <1>5. ASSUME NEW t \in Tasks, NEW S \in SUBSET Reminders, CancelSelectedPendingReminders(t, S)
        PROVE  Is(r, "sent")
    BY <1>5, NotMarkedSent DEF CancelSelectedPendingReminders
  <1> QED
    BY <1>1, <1>2, <1>3, <1>4, <1>5 DEF UserCommand

(* A failed attempt takes the row to "pending" or "failed".                 *)
LEMMA FailureMarksNothingSent ==
  ASSUME TypeOK, SendFails, NEW r \in Reminders, Is(r, "sent")'
  PROVE  Is(r, "sent")
  <1>1. ASSUME NEW row \in Row, NEW at PROVE FailedRow(row, at).status # "sent"
    BY DEF FailedRow, Row
  <1>2. rem[r] \in Row
    BY DEF TypeOK, StoreTypeOK
  <1>3. \/ UNCHANGED storeVars
        \/ RecordSummaryFailure(sending, cyc)
        \/ \E c \in sending : RecordFailure(c, cyc)
    BY DEF SendFails
  <1>4. rem'[r] = rem[r] \/ rem'[r] = FailedRow(rem[r], cyc)
    BY <1>3 DEF RecordSummaryFailure, RecordFailure, storeVars, TypeOK, StoreTypeOK
  <1> QED
    BY <1>1, <1>2, <1>4 DEF Is

(* A row becomes sent only by the answer of its message.                    *)
LEMMA OnlyAnswersMarkSent ==
  ASSUME DeliveryInv, [Next]_vars, NEW r \in Reminders, Is(r, "sent")', ~Is(r, "sent")
  PROVE  SendSucceeds /\ InFlight(r)
  <1> USE DEF DeliveryInv, RouteInv, CycleInv
  <1>1. StoreTypeOK
    BY DEF TypeOK
  <1>2. ~UNCHANGED storeVars
    BY DEF storeVars, Is
  <1>3. CASE RecoverLeases
    <2>1. rem[r] \in Row
      BY <1>1 DEF StoreTypeOK
    <2>2. rem'[r] = rem[r] \/ rem'[r].status \in {"pending", "cancelled"}
      BY <1>3, <2>1 DEF RecoverLeases, RecoverAbandoned, Row
    <2> QED BY <2>2 DEF Is
  <1>4. CASE ClaimFirstAttempts \/ ClaimDueRetries \/ Triage
    BY <1>1, <1>4, NotMarkedSent DEF ClaimFirstAttempts, ClaimDueRetries, Triage, ClaimDue, ClaimRetries,
       ApplyDowntimeRecovery
  <1>5. ASSUME NEW c \in queue \cup group, PreflightCancels(c) PROVE FALSE
    BY <1>1, <1>5, NotMarkedSent DEF PreflightCancels, CancelDisallowedRecipient
  <1>6. CASE SendFails
    BY <1>6, FailureMarksNothingSent
  <1>7. CASE SendSucceeds
    <2>1. r \in Ids(sending)
      BY <1>7, ResultTouches DEF Is
    <2> QED BY <1>7, <2>1 DEF SendSucceeds, InFlight
  <1>8. CASE Clock
    BY <1>8 DEF Clock, Environment, Tick, Is
  <1>9. CASE Command
    BY <1>1, <1>9, CommandsMarkNothingSent DEF Command, Environment
  <1>10. CASE StartBot \/ BeginCycle \/ PhaseDone \/ GroupMissed \/ SendGroup \/ TelegramAccepts
              \/ ResultNotRecorded \/ CycleFails \/ Stop \/ TimeIsUp \/ UNCHANGED vars
    BY <1>2, <1>10 DEF StartBot, BeginCycle, PhaseDone, GroupMissed, SendGroup, TelegramAccepts,
       ResultNotRecorded, CycleFails, Stop, TimeIsUp, vars
  <1>11. ASSUME NEW c \in queue \cup group, PreflightReady(c) \/ PreflightSkips(c) \/ PreflightFails(c)
         PROVE  FALSE
    BY <1>2, <1>11 DEF PreflightReady, PreflightSkips, PreflightFails
  <1> QED
    BY <1>3, <1>4, <1>5, <1>6, <1>7, <1>8, <1>9, <1>10, <1>11 DEF Next, CycleStep

(* The lease tests pass, so an answer marks every row of its message.       *)
LEMMA AnswerMarksAll ==
  ASSUME DeliveryInv, SendSucceeds, NEW r \in Ids(sending)
  PROVE  Is(r, "sent")' /\ lost' = lost
  <1> USE DEF DeliveryInv, RouteInv, CycleInv
  <1>1. LeasesHeld
    BY DEF ClaimsHeld, InHand, LeasesHeld
  <1>2. r \in Reminders /\ rem[r] \in Row
    BY SendingIsProcessing DEF TypeOK, StoreTypeOK
  <1>3. ASSUME NEW S, r \in S, SetStatus(S, "sent", cyc) PROVE Is(r, "sent")'
    BY <1>2, <1>3 DEF SetStatus, Is, Row
  <1>4. CASE IsSummary
    BY <1>1, <1>3, <1>4 DEF SendSucceeds, RecordSummarySent
  <1>5. CASE ~IsSummary
    <2>1. PICK c \in sending : sending = {c}
      BY <1>5 DEF MessageInv, Ids
    <2>2. r = c.id /\ RecordSent(c, cyc)
      BY <1>1, <1>5, <2>1 DEF SendSucceeds, Ids
    <2>3. SetStatus({c.id}, "sent", cyc)
      BY <2>2 DEF RecordSent
    <2> QED BY <1>1, <1>3, <2>2, <2>3 DEF SendSucceeds
  <1> QED
    BY <1>1, <1>4, <1>5 DEF SendSucceeds

AccountInv == DeliveryInv /\ DeliveriesAccounted

LEMMA AccountStep ==
  ASSUME AccountInv, [Next]_vars
  PROVE  DeliveriesAccounted'
  <1> USE DEF AccountInv, DeliveryInv, RouteInv, CycleInv
  <1> SUFFICES ASSUME NEW r \in Reminders
               PROVE  got'[r] = lost'[r] + (IF Is(r, "sent")' THEN 1 ELSE 0)
                                         + (IF InFlight(r)' THEN 1 ELSE 0)
    BY DEF DeliveriesAccounted, InFlight
  <1>1. /\ got[r] \in Nat /\ lost[r] \in Nat
        /\ got[r] = lost[r] + (IF Is(r, "sent") THEN 1 ELSE 0) + (IF InFlight(r) THEN 1 ELSE 0)
    BY DEF DeliveriesAccounted, InFlight, TypeOK
  <1>2. Is(r, "sent") => Is(r, "sent")'
    BY StepIsStoreStep, StepSummary DEF TypeOK, Summary, RowMove, Created, Claimed, Released, Cancelled,
       Attempted, Moves, Is
  <1>3. ~SendSucceeds => (Is(r, "sent")' <=> Is(r, "sent"))
    BY <1>2, OnlyAnswersMarkSent
  <1>4. InFlight(r) => ~Is(r, "sent")
    BY SendingIsProcessing DEF InFlight, Is
  <1>5. CASE SendSucceeds
    <2>1. got' = got /\ ~InFlight(r)'
      BY <1>5 DEF SendSucceeds, EndSend, InFlight
    <2>2. CASE r \in Ids(sending)
      <3>1. InFlight(r) /\ Is(r, "sent")' /\ lost' = lost
        BY <1>5, <2>2, AnswerMarksAll DEF SendSucceeds, InFlight
      <3> QED BY <1>1, <1>4, <2>1, <3>1
    <2>3. CASE r \notin Ids(sending)
      <3>1. Is(r, "sent")' <=> Is(r, "sent")
        BY <1>2, <2>3, OnlyAnswersMarkSent DEF InFlight
      <3>2. lost'[r] = lost[r]
        BY <1>5, <2>3 DEF SendSucceeds, MessageLost, Count, TypeOK
      <3> QED BY <1>1, <2>1, <2>3, <3>1, <3>2 DEF InFlight
    <2> QED BY <2>2, <2>3
  <1>6. CASE (SendFails \/ ResultNotRecorded \/ Stop) /\ ~SendSucceeds
    <2>1. got' = got /\ ~InFlight(r)' /\ MessageLost
      BY <1>6 DEF SendFails, ResultNotRecorded, Stop, EndSend, InFlight
    <2>2. Is(r, "sent")' <=> Is(r, "sent")
      BY <1>3, <1>6
    <2>3. lost'[r] = lost[r] + (IF InFlight(r) THEN 1 ELSE 0)
      BY <1>1, <2>1 DEF MessageLost, InFlight, Count, TypeOK
    <2> QED BY <1>1, <2>1, <2>2, <2>3
  <1>7. CASE TelegramAccepts
    <2>1. lost' = lost /\ accepted' /\ sending' = sending /\ got' = Count(got, Ids(sending)) /\ ~accepted
      BY <1>7 DEF TelegramAccepts, hands
    <2>2. Is(r, "sent")' <=> Is(r, "sent")
      BY <1>7 DEF TelegramAccepts, storeVars, Is
    <2>3. got'[r] = IF r \in Ids(sending) THEN got[r] + 1 ELSE got[r]
      BY <2>1 DEF Count
    <2>4. InFlight(r)' <=> r \in Ids(sending)
      BY <2>1 DEF InFlight, Ids
    <2> QED BY <1>1, <2>1, <2>2, <2>3, <2>4 DEF InFlight
  <1>8. ASSUME UNCHANGED <<history, accepted>>, sending' = sending \/ sending = {}, ~SendSucceeds
        PROVE  got'[r] = lost'[r] + (IF Is(r, "sent")' THEN 1 ELSE 0) + (IF InFlight(r)' THEN 1 ELSE 0)
    <2>1. got' = got /\ lost' = lost
      BY <1>8 DEF history
    <2>2. InFlight(r)' <=> InFlight(r)
      BY <1>8 DEF InFlight, MessageInv, Ids
    <2> QED BY <1>1, <1>3, <1>8, <2>1, <2>2
  <1>9. CASE SendGroup \/ \E c \in queue \cup group : PreflightReady(c)
    <2>1. UNCHANGED <<history, accepted>> /\ sending = {}
      BY <1>9 DEF SendGroup, PreflightReady, Prepare, GroupInv
    <2> QED BY <1>5, <1>8, <2>1
  <1>10. CASE StartBot \/ BeginCycle \/ RecoverLeases \/ ClaimFirstAttempts \/ Triage \/ ClaimDueRetries
              \/ PhaseDone \/ GroupMissed \/ CycleFails \/ Clock \/ Command \/ TimeIsUp \/ UNCHANGED vars
    <2>1. UNCHANGED <<history, accepted, sending>>
      BY <1>10 DEF StartBot, BeginCycle, RecoverLeases, ClaimFirstAttempts, Triage, ClaimDueRetries,
         PhaseDone, GroupMissed, CycleFails, Clock, Command, Environment, TimeIsUp, vars, hands
    <2> QED BY <1>5, <1>8, <2>1
  <1>11. CASE \E c \in queue \cup group : PreflightSkips(c) \/ PreflightCancels(c) \/ PreflightFails(c)
    <2>1. UNCHANGED <<history, accepted, sending>>
      BY <1>11 DEF PreflightSkips, PreflightCancels, PreflightFails, Prepare
    <2> QED BY <1>5, <1>8, <2>1
  <1> QED
    BY <1>5, <1>6, <1>7, <1>9, <1>10, <1>11 DEF Next, CycleStep

LEMMA AccountInvariant == Spec => []AccountInv
  <1>1. Init => DeliveriesAccounted
    BY DEF Init, StoreInit, NoRow, DeliveriesAccounted, Is, Ids
  <1>2. AccountInv /\ [Next]_vars => DeliveriesAccounted'
    BY AccountStep
  <1> QED
    BY <1>1, <1>2, DeliveryInvariant, PTL DEF Spec, AccountInv

(* Every message Telegram took is a sent row, a lost result or in flight.   *)
THEOREM MessagesAccounted == Spec => []DeliveriesAccounted
  <1>1. AccountInv => DeliveriesAccounted
    BY DEF AccountInv
  <1> QED BY <1>1, AccountInvariant, PTL
-----------------------------------------------------------------------------
(* Duplicates.                                                              *)

(* A message whose result is lost was one of an attempt that is counted, or *)
(* of one of the faults; a row that does not exist yet has no message.      *)
DuplicatesInv ==
  /\ DuplicatesBounded
  /\ \A r \in Reminders : Is(r, "none") => lost[r] = 0

(* A failed send that keeps its leases counts an attempt for every row.     *)
LEMMA FailureCountsAll ==
  ASSUME DeliveryInv, SendFails, NEW r \in Ids(sending)
  PROVE  rem'[r].retry = rem[r].retry + 1
  <1> USE DEF DeliveryInv, RouteInv, CycleInv
  <1>1. LeasesHeld
    BY DEF ClaimsHeld, InHand, LeasesHeld
  <1>2. r \in Reminders /\ rem[r] \in Row
    BY SendingIsProcessing DEF TypeOK, StoreTypeOK
  <1>3. rem[r].retry \in 0..3
    BY <1>1 DEF LeasesHeld, HoldsLease, Ids, TypeOK, Claim
  <1>4. FailedRow(rem[r], cyc).retry = rem[r].retry + 1
    BY <1>2, <1>3, FailedRowEffect DEF TypeOK, StoreTypeOK
  <1>5. CASE IsSummary
    BY <1>1, <1>2, <1>4, <1>5 DEF SendFails, RecordSummaryFailure
  <1>6. CASE ~IsSummary
    <2>1. PICK c \in sending : sending = {c}
      BY <1>6 DEF MessageInv, Ids
    <2>2. r = c.id /\ RecordFailure(c, cyc)
      BY <1>1, <1>6, <2>1 DEF SendFails, Ids
    <2> QED BY <1>2, <1>4, <2>2 DEF RecordFailure, TypeOK, StoreTypeOK
  <1> QED
    BY <1>5, <1>6

LEMMA DuplicatesStep ==
  ASSUME DeliveryInv, DuplicatesInv, [Next]_vars
  PROVE  DuplicatesInv'
  <1> USE DEF DeliveryInv, RouteInv, CycleInv
  <1> SUFFICES ASSUME NEW r \in Reminders
               PROVE  /\ lost'[r] <= rem'[r].retry + faults'
                      /\ Is(r, "none")' => lost'[r] = 0
    BY DEF DuplicatesInv, DuplicatesBounded
  <1>1. /\ lost[r] \in Nat /\ faults \in Nat /\ lost[r] <= rem[r].retry + faults
        /\ Is(r, "none") => lost[r] = 0
    BY DEF DuplicatesInv, DuplicatesBounded, TypeOK
  <1>2. rem[r].retry \in Nat /\ rem'[r].retry \in Nat /\ faults' \in Nat
    <2>1. TypeOK'
      BY TypeStep
    <2>2. rem[r] \in Row /\ rem'[r] \in Row /\ faults' \in Nat
      BY <2>1 DEF TypeOK, StoreTypeOK
    <2> QED BY <2>2 DEF Row
  <1>3. /\ rem'[r].retry >= rem[r].retry \/ Is(r, "none")
        /\ Is(r, "none")' => Is(r, "none")
    BY <1>2, StepIsStoreStep, StepSummary DEF TypeOK, Summary, RowMove, Created, Claimed, Released, Cancelled,
       Attempted, Moves, Is
  <1>4. ASSUME lost'[r] = lost[r], faults' >= faults
        PROVE  /\ lost'[r] <= rem'[r].retry + faults'
               /\ Is(r, "none")' => lost'[r] = 0
    BY <1>1, <1>2, <1>3, <1>4
  <1>5. r \in Ids(sending) => ~Is(r, "none") /\ ~Is(r, "none")'
    BY <1>3, SendingIsProcessing DEF Is
  <1>6. CASE SendFails
    <2>1. MessageLost /\ faults' = faults
      BY <1>6 DEF SendFails, bounds
    <2>2. CASE r \in Ids(sending)
      <3>1. rem'[r].retry = rem[r].retry + 1
        BY <1>6, <2>2, FailureCountsAll
      <3>2. lost'[r] <= lost[r] + 1
        BY <1>1, <2>1 DEF MessageLost, Count
      <3>3. lost'[r] \in Nat
        BY <1>1, <2>1 DEF MessageLost, Count
      <3> QED BY <1>1, <1>2, <1>5, <2>1, <2>2, <3>1, <3>2, <3>3
    <2>3. CASE r \notin Ids(sending)
      BY <1>1, <1>4, <2>1, <2>3 DEF MessageLost, Count
    <2> QED BY <2>2, <2>3
  <1>7. CASE ResultNotRecorded \/ Stop
    <2>1. MessageLost /\ faults' = faults + 1
      BY <1>7 DEF ResultNotRecorded, Stop, Fault
    <2>2. CASE r \in Ids(sending)
      <3>1. lost'[r] <= lost[r] + 1 /\ lost'[r] \in Nat
        BY <1>1, <2>1 DEF MessageLost, Count
      <3> QED BY <1>1, <1>2, <1>3, <1>5, <2>1, <2>2, <3>1
    <2>3. CASE r \notin Ids(sending)
      BY <1>1, <1>4, <2>1, <2>3 DEF MessageLost, Count
    <2> QED BY <2>2, <2>3
  <1>8. CASE SendSucceeds
    <2>1. r \in Ids(sending) => lost' = lost
      BY <1>8, AnswerMarksAll
    <2>2. r \notin Ids(sending) => lost'[r] = lost[r]
      BY <1>8 DEF SendSucceeds, MessageLost, Count
    <2>3. faults' = faults
      BY <1>8 DEF SendSucceeds, bounds
    <2> QED BY <1>1, <1>4, <2>1, <2>2, <2>3
  <1>9. CASE CycleFails
    BY <1>1, <1>4, <1>9 DEF CycleFails, Fault, history
  <1>10. CASE StartBot \/ BeginCycle \/ RecoverLeases \/ ClaimFirstAttempts \/ Triage \/ ClaimDueRetries
              \/ PhaseDone \/ GroupMissed \/ SendGroup \/ TelegramAccepts \/ Clock \/ Command \/ TimeIsUp
              \/ UNCHANGED vars
    <2>1. lost' = lost /\ faults' = faults
      BY <1>10 DEF StartBot, BeginCycle, RecoverLeases, ClaimFirstAttempts, Triage, ClaimDueRetries,
         PhaseDone, GroupMissed, SendGroup, TelegramAccepts, Clock, Command, Environment, TimeIsUp, vars,
         history, bounds
    <2> QED BY <1>1, <1>4, <2>1
  <1>11. ASSUME NEW c \in queue \cup group,
                PreflightReady(c) \/ PreflightSkips(c) \/ PreflightCancels(c) \/ PreflightFails(c)
         PROVE  lost' = lost /\ faults' >= faults
    BY <1>1, <1>11 DEF PreflightReady, PreflightSkips, PreflightCancels, PreflightFails, Prepare, history,
       bounds, Fault
  <1>12. CASE \E c \in queue \cup group :
                PreflightReady(c) \/ PreflightSkips(c) \/ PreflightCancels(c) \/ PreflightFails(c)
    BY <1>4, <1>11, <1>12
  <1> QED
    BY <1>6, <1>7, <1>8, <1>9, <1>10, <1>12 DEF Next, CycleStep

(* A user sees a reminder at most once for each attempt and each fault, and *)
(* once more when it is sent.                                               *)
THEOREM FewDuplicates == Spec => []DuplicatesBounded
  <1>1. Init => DuplicatesInv
    BY DEF Init, StoreInit, NoRow, DuplicatesInv, DuplicatesBounded
  <1>2. DeliveryInv /\ DuplicatesInv /\ [Next]_vars => DuplicatesInv'
    BY DuplicatesStep
  <1>3. DuplicatesInv => DuplicatesBounded
    BY DEF DuplicatesInv
  <1> QED
    BY <1>1, <1>2, <1>3, DeliveryInvariant, PTL DEF Spec

-----------------------------------------------------------------------------
(* The promise.                                                             *)

(* The one step that adds to the history of a reminder adds one, and finds  *)
(* the row under way.                                                       *)
LEMMA PromiseStep ==
  ASSUME AccountInv, [Next]_vars, NEW r \in Reminders
  PROVE  Promise!Stays(r) \/ Promise!Tells(r) \/ Promise!Lives(r)
  <1> USE DEF AccountInv, DeliveryInv, RouteInv, CycleInv
  <1>1. RowMove(r) /\ StoreTypeOK /\ StoreTypeOK'
    BY StepIsStoreStep, StepSummary DEF TypeOK, Summary
  <1>2. rem[r].status # rem'[r].status => <<rem[r].status, rem'[r].status>> \in Promise!Moves
    BY <1>1 DEF RowMove, Created, Claimed, Released, Cancelled, Attempted, Moves, Promise!Moves
  <1>3. Is(r, "sent")' /\ ~Is(r, "sent") => got[r] > 0
    <2> SUFFICES ASSUME Is(r, "sent")', ~Is(r, "sent") PROVE got[r] > 0
      OBVIOUS
    <2>1. InFlight(r)
      BY OnlyAnswersMarkSent
    <2>2. lost[r] \in Nat
      BY DEF TypeOK
    <2> QED BY <2>1, <2>2 DEF DeliveriesAccounted, InFlight
  <1>4. CASE TelegramAccepts
    <2>1. got'[r] = IF r \in Ids(sending) THEN got[r] + 1 ELSE got[r]
      BY <1>4 DEF TelegramAccepts, Count
    <2>2. rem' = rem
      BY <1>4 DEF TelegramAccepts, storeVars
    <2>3. r \in Ids(sending) => rem[r].status = "processing"
      BY SendingIsProcessing DEF Is
    <2> QED BY <2>1, <2>2, <2>3 DEF Promise!Stays, Promise!Tells
  <1>5. CASE got' = got
    BY <1>2, <1>3, <1>5 DEF Promise!Stays, Promise!Lives, Is
  <1>6. TelegramAccepts \/ got' = got
    BY DEF Next, CycleStep, StartBot, BeginCycle, RecoverLeases, ClaimFirstAttempts, Triage, ClaimDueRetries,
       PhaseDone, GroupMissed, SendGroup, Prepare, PreflightReady, PreflightSkips, PreflightCancels,
       PreflightFails, SendSucceeds, SendFails, ResultNotRecorded, EndSend, CycleFails, Stop, Clock, Command,
       Environment, TimeIsUp, vars, history
  <1> QED
    BY <1>4, <1>5, <1>6

(* The process implements what the feature promises a user.                 *)
THEOREM PromiseIsKept == Spec => PromiseKept
  <1>1. Init => Promise!Init
    BY DEF Init, StoreInit, NoRow, Promise!Init
  <1>2. AccountInv /\ [Next]_vars =>
          [Promise!Next]_<<[r \in Reminders |-> rem[r].status], got>>
    <2> SUFFICES ASSUME AccountInv, [Next]_vars PROVE Promise!Next
      OBVIOUS
    <2>1. \A r \in Reminders : Promise!Stays(r) \/ Promise!Tells(r) \/ Promise!Lives(r)
      BY PromiseStep
    <2>2. got' \in [Reminders -> Nat]
      BY TypeStep DEF AccountInv, DeliveryInv, CycleInv, TypeOK
    <2> QED BY <2>1, <2>2 DEF Promise!Next
  <1> QED
    BY <1>1, <1>2, AccountInvariant, PTL DEF Spec, PromiseKept, Promise!Spec
-----------------------------------------------------------------------------
(* One process beside another.                                              *)
(*                                                                          *)
(* What one process does to the claims of another that shares the table:    *)
(* the lemmas TwoBotsProofs takes from here, once for each of its processes.*)
(* The other process is in the variables of no formula here, so it is a     *)
(* parameter: C its claims in hand, S those of its message, a whether       *)
(* Telegram took that, t the clock of its cycle and p its phase.            *)

(* The steps of the process itself.                                         *)
ProcessStep == StartBot \/ CycleStep \/ TelegramAccepts \/ Stop

(* A claim is as old as its cycle; first attempts and retries have phases   *)
(* of their own, and after the triage no first attempt is one to expire.    *)
Ages(C, t, p) == \A c \in C :
  /\ c.at = t
  /\ p = "retry" <=> c.retry > 0
  /\ p # "triage" /\ c.retry = 0 => t - SchedOf[c.id] < ExpireAfter

(* A message stands for one reminder, or is a summary.                      *)
Shape(S) == S = {} \/ (\E c \in S : S = {c}) \/ Cardinality(S) >= SummaryMin

(* What a process knows of itself, whatever another one does.               *)
OwnInv ==
  /\ TypeOK /\ HandsInOrder
  /\ Ages(InHand, cyc, pc)
  /\ group \cup ready # {} => queue \cup sending = {}
  /\ Shape(sending)
  /\ sending = {} => ~accepted
  /\ accepted => \A c \in sending : got[c.id] > 0

Delivering == {"triage", "normal", "missed", "retry"}

LEMMA HandsOnlyDelivering ==
  ASSUME TypeOK, HandsInOrder, InHand # {}
  PROVE  pc \in Delivering
  BY DEF TypeOK, Phases, Delivering, HandsInOrder, HandsOfPhase

(* The hands of a process at work, as the claims and the clock in it see it *)
LEMMA OwnAges ==
  ASSUME OwnInv, ProcessStep
  PROVE  Ages(InHand, cyc, pc)'
  <1> USE DEF OwnInv
  <1>1. /\ cyc \in Nat /\ MissedAfter \in Nat /\ ExpireAfter \in Nat /\ MissedAfter < ExpireAfter
        /\ \A r \in Reminders : SchedOf[r] \in Nat
    BY StoreAssumption DEF TypeOK, StoreTypeOK
  <1>2. \A c \in InHand : c \in Claim /\ c.id \in Reminders
    BY DEF TypeOK, InHand, Claim
  <1>3. ASSUME InHand' \subseteq InHand, cyc' = cyc, pc' = pc \/ (pc # "triage" /\ pc' # "retry" /\ pc # "retry")
        PROVE  Ages(InHand, cyc, pc)'
    BY <1>3 DEF Ages
  <1>4. ASSUME InHand' = {}
        PROVE  Ages(InHand, cyc, pc)'
    BY <1>4 DEF Ages
  <1>5. CASE StartBot \/ BeginCycle \/ RecoverLeases \/ CycleFails \/ Stop
    <2>1. InHand' = {}
      BY <1>5 DEF StartBot, BeginCycle, RecoverLeases, CycleFails, Stop, HandsInOrder, HandsOfPhase, InHand, hands
    <2> QED BY <1>4, <2>1
  <1>6. CASE ClaimFirstAttempts
    <2> PICK B \in SUBSET Reminders : ClaimDue(cyc, B) /\ queue' = ClaimsOf(B, SchedOf)
      BY <1>6 DEF ClaimFirstAttempts
    <2>1. InHand' = ClaimsOf(B, SchedOf) /\ pc' = "triage" /\ cyc' = cyc
      BY <1>6 DEF ClaimFirstAttempts, HandsInOrder, HandsOfPhase, InHand
    <2>2. \A r \in B : rem[r].retry = 0
      BY DEF ClaimDue, IsBatch, DueFirst
    <2> QED BY <2>1, <2>2 DEF Ages, ClaimsOf
  <1>7. CASE ClaimDueRetries
    <2> DEFINE due == [r \in Reminders |-> RetryDue(r)]
    <2> PICK B \in SUBSET Reminders : ClaimRetries(cyc, B) /\ queue' = ClaimsOf(B, due)
      BY <1>7 DEF ClaimDueRetries
    <2> HIDE DEF due
    <2>1. InHand' = ClaimsOf(B, due) /\ pc' = "retry" /\ cyc' = cyc
      BY <1>7 DEF ClaimDueRetries, HandsInOrder, HandsOfPhase, InHand
    <2>2. \A r \in B : rem[r].retry \in 1..3
      BY DEF ClaimRetries, IsBatch, DueRetry
    <2> QED BY <2>1, <2>2 DEF Ages, ClaimsOf
  <1>8. CASE Triage
    <2>1. /\ \A c \in InHand' : /\ c \in queue
                                /\ c.id \in OnTime(Ids(queue), cyc) \cup Missed(Ids(queue), cyc)
          /\ pc = "triage" /\ pc' = "normal" /\ cyc' = cyc
      BY <1>8 DEF Triage, HandsInOrder, HandsOfPhase, InHand
    <2>2. \A c \in queue : cyc - SchedOf[c.id] \in Int
      BY <1>1, <1>2 DEF InHand
    <2>3. \A c \in queue : c.id \in OnTime(Ids(queue), cyc) \cup Missed(Ids(queue), cyc) =>
            cyc - SchedOf[c.id] < ExpireAfter
      BY <1>1, <2>2 DEF OnTime, Missed
    <2> QED BY <2>1, <2>3 DEF Ages, InHand
  <1>9. CASE PhaseDone
    <2>1. CASE pc = "retry"
      <3>1. InHand' = {}
        BY <1>9, <2>1 DEF PhaseDone, Idle, InHand, hands, HandsInOrder, HandsOfPhase
      <3> QED BY <1>4, <3>1
    <2>2. CASE pc # "retry"
      BY <1>3, <1>9, <2>2 DEF PhaseDone, InHand, hands
    <2> QED BY <2>1, <2>2
  <1>10. CASE GroupMissed \/ SendGroup
    BY <1>3, <1>10 DEF GroupMissed, SendGroup, SameOwner, InHand
  <1>11. ASSUME NEW c \in queue \cup group,
               PreflightReady(c) \/ PreflightSkips(c) \/ PreflightCancels(c) \/ PreflightFails(c)
        PROVE  Ages(InHand, cyc, pc)'
    <2>1. InHand' \subseteq InHand /\ UNCHANGED <<cyc, pc>>
      BY <1>11 DEF Prepare, PreflightReady, PreflightSkips, PreflightCancels, PreflightFails, InHand
    <2> QED BY <1>3, <2>1
  <1>12. CASE SendSucceeds \/ SendFails \/ ResultNotRecorded
    <2>1. InHand' \subseteq InHand /\ UNCHANGED <<cyc, pc>>
      BY <1>12 DEF SendSucceeds, SendFails, ResultNotRecorded, EndSend, InHand
    <2> QED BY <1>3, <2>1
  <1>13. CASE TelegramAccepts
    BY <1>3, <1>13 DEF TelegramAccepts, InHand, hands
  <1> QED
    BY <1>5, <1>6, <1>7, <1>8, <1>9, <1>10, <1>11, <1>12, <1>13 DEF ProcessStep, CycleStep

LEMMA OwnMessage ==
  ASSUME OwnInv, ProcessStep
  PROVE  /\ (group \cup ready # {} => queue \cup sending = {})'
         /\ Shape(sending)'
         /\ (sending = {} => ~accepted)'
         /\ (accepted => \A c \in sending : got[c.id] > 0)'
  <1> DEFINE Exclusive == group \cup ready # {} => queue \cup sending = {}
             Counted == accepted => \A c \in sending : got[c.id] > 0
             Goal == Exclusive' /\ Shape(sending)' /\ (sending = {} => ~accepted)' /\ Counted'
  <1> USE DEF OwnInv
  <1>1. ASSUME Exclusive', UNCHANGED <<sending, accepted, got>>
        PROVE  Goal
    BY <1>1 DEF Shape
  <1>2. CASE StartBot \/ BeginCycle \/ RecoverLeases \/ PhaseDone
    BY <1>1, <1>2 DEF StartBot, BeginCycle, RecoverLeases, PhaseDone, hands, history
  <1>3. CASE ClaimFirstAttempts \/ Triage \/ ClaimDueRetries
    <2>1. group \cup ready = {}
      BY <1>3 DEF HandsInOrder, HandsOfPhase, InHand, ClaimFirstAttempts, Triage, ClaimDueRetries
    <2> QED BY <1>1, <1>3, <2>1 DEF ClaimFirstAttempts, Triage, ClaimDueRetries, history
  <1>4. CASE CycleFails
    <2>1. group \cup ready = {}
      BY <1>4 DEF HandsInOrder, HandsOfPhase, InHand, CycleFails
    <2> QED BY <1>1, <1>4, <2>1 DEF CycleFails, history
  <1>5. CASE GroupMissed
    BY <1>1, <1>5 DEF GroupMissed, Idle, history
  <1>6. CASE SendGroup
    <2>1. sending = {} /\ queue = {} /\ ~accepted
      BY <1>6 DEF SendGroup
    <2>2. UNCHANGED <<accepted, got>> /\ group' \cup ready' = {}
      BY <1>6 DEF SendGroup, history
    <2>3. Shape(sending)' /\ (sending' = {} => ~accepted')
      BY <1>6, <2>1, <2>2 DEF SendGroup, Shape
    <2> QED BY <2>1, <2>2, <2>3
  <1>7. ASSUME NEW c \in queue \cup group, PreflightReady(c)
        PROVE  Goal
    <2>1. sending = {} /\ ~accepted /\ UNCHANGED <<accepted, got>>
      BY <1>7 DEF PreflightReady, Prepare, history
    <2>2. Shape(sending)' /\ (sending' = {} => ~accepted')
      BY <1>7, <2>1 DEF PreflightReady, Shape
    <2>3. Exclusive'
      BY <1>7 DEF PreflightReady, Prepare
    <2> QED BY <2>1, <2>2, <2>3
  <1>8. ASSUME NEW c \in queue \cup group, PreflightSkips(c) \/ PreflightCancels(c) \/ PreflightFails(c)
        PROVE  Goal
    BY <1>1, <1>8 DEF Prepare, PreflightSkips, PreflightCancels, PreflightFails, history
  <1>9. CASE SendSucceeds \/ SendFails \/ ResultNotRecorded
    <2>1. sending # {} /\ sending' = {} /\ accepted' = FALSE /\ UNCHANGED <<queue, group, ready>>
      BY <1>9 DEF SendSucceeds, SendFails, ResultNotRecorded, EndSend
    <2> QED BY <2>1 DEF Shape
  <1>10. CASE Stop
    BY <1>10 DEF Stop, Shape
  <1>11. CASE TelegramAccepts
    <2>1. got' = Count(got, Ids(sending)) /\ sending # {} /\ UNCHANGED hands
      BY <1>11 DEF TelegramAccepts
    <2>2. \A c \in sending : c.id \in Reminders /\ c.id \in Ids(sending) /\ got[c.id] \in Nat
      BY DEF TypeOK, Claim, Ids
    <2>3. \A c \in sending : got'[c.id] = got[c.id] + 1
      BY <2>1, <2>2 DEF Count
    <2> QED BY <2>1, <2>2, <2>3 DEF hands, Shape
  <1> QED
    BY <1>2, <1>3, <1>4, <1>5, <1>6, <1>7, <1>8, <1>9, <1>10, <1>11 DEF ProcessStep, CycleStep

LEMMA OwnStep ==
  ASSUME OwnInv, ProcessStep
  PROVE  OwnInv'
  <1>1. [Next]_vars
    BY DEF Next, ProcessStep
  <1>2. TypeOK'
    BY <1>1, TypeStep DEF OwnInv
  <1>3. HandsInOrder'
    BY <1>1, DisjointStep, PhaseStep DEF OwnInv, HandsInOrder
  <1> QED
    BY <1>2, <1>3, OwnAges, OwnMessage DEF OwnInv

-----------------------------------------------------------------------------
(* What a step of the process does to a row: it requeues a stale lease, it  *)
(* claims a pending row, its triage expires a claimed one, whoever claimed  *)
(* it, or it settles a claim it lets go of and whose lease it holds.        *)

(* The row may be claimed in the rest of the cycle of clock t in phase p.   *)
Claimable(p, t, r) ==
  \/ p \in {"recover", "claim"} /\ rem[r].retry = 0
  \/ /\ p \in {"recover", "claim", "triage", "normal", "missed", "retryclaim"}
     /\ rem[r].retry \in 1..3 /\ RetryDue(r) <= t

Requeues(r) ==
  /\ pc = "recover" /\ pc' # "retry"
  /\ Is(r, "processing") /\ rem[r].upd <= cyc - Lease
  /\ rem'[r].status \in {"pending", "cancelled"}
  /\ rem'[r].retry = rem[r].retry /\ rem'[r].last = rem[r].last

Claims(r) ==
  /\ InHand = {} /\ Claimable(pc, cyc, r)
  /\ Is(r, "pending") /\ Is(r, "processing")'
  /\ rem'[r].upd = cyc
  /\ rem'[r].retry = rem[r].retry /\ rem'[r].last = rem[r].last

Expires(r) ==
  /\ pc = "triage" /\ r \in Ids(queue)
  /\ Is(r, "processing") /\ rem[r].retry = 0 /\ cyc - SchedOf[r] >= ExpireAfter
  /\ rem'[r].status = "expired"
  /\ rem'[r].retry = rem[r].retry /\ rem'[r].last = rem[r].last
  /\ \A c \in InHand' : c.id # r

LetsGo(r) == \E c \in InHand : c.id = r /\ HoldsLease(c) /\ c \notin InHand'

Cancels(r) ==
  /\ LetsGo(r) /\ sending = {}
  /\ Is(r, "cancelled")'
  /\ rem'[r].retry = rem[r].retry /\ rem'[r].last = rem[r].last

Answers(r) ==
  /\ LetsGo(r) /\ r \in Ids(sending) /\ accepted
  /\ Is(r, "sent")'
  /\ rem'[r].retry = rem[r].retry /\ rem'[r].last = rem[r].last

Fails(r) ==
  /\ LetsGo(r) /\ r \in Ids(sending)
  /\ rem'[r].status \in {"pending", "failed"}
  /\ rem'[r].retry = rem[r].retry + 1 /\ rem'[r].last = cyc

(* UPDATE of the status, as one row sees it.                                *)
LEMMA SetStatusRow ==
  ASSUME StoreTypeOK, NEW S, NEW s, NEW at, SetStatus(S, s, at), NEW r \in Reminders
  PROVE  \/ rem'[r] = rem[r]
         \/ /\ r \in S /\ rem'[r].status = s /\ rem'[r].upd = at
            /\ rem'[r].retry = rem[r].retry /\ rem'[r].last = rem[r].last
  <1>1. rem[r] \in Row
    BY DEF StoreTypeOK
  <1>2. rem'[r] = IF r \in S THEN [rem[r] EXCEPT !.status = s, !.upd = at] ELSE rem[r]
    BY DEF SetStatus
  <1> QED
    BY <1>1, <1>2 DEF Row

(* One more failed attempt, as the row sees it.                             *)
LEMMA FailedRowFails ==
  ASSUME TypeOK, NEW r \in Reminders, rem[r].retry \in 0..3, rem'[r] = FailedRow(rem[r], cyc)
  PROVE  /\ rem'[r].status \in {"pending", "failed"}
         /\ rem'[r].retry = rem[r].retry + 1 /\ rem'[r].last = cyc
  <1>1. rem[r] \in Row /\ cyc \in Nat
    BY DEF TypeOK, StoreTypeOK
  <1> QED
    BY <1>1, FailedRowEffect

(* The steps that end a send, and what they do with the rows.               *)
LEMMA AnswerRow ==
  ASSUME OwnInv, SendSucceeds \/ SendFails \/ ResultNotRecorded,
         NEW r \in Reminders, rem'[r] # rem[r]
  PROVE  Answers(r) \/ Fails(r)
  <1> USE DEF OwnInv
  <1>1. EndSend /\ r \in Ids(sending)
    BY ResultTouches
  <1>2. LeasesHeld
    BY DEF SendSucceeds, SendFails, ResultNotRecorded, storeVars
  <1>3. LetsGo(r)
    <2>1. PICK c \in sending : c.id = r
      BY <1>1 DEF Ids
    <2>2. HoldsLease(c)
      BY <1>2 DEF LeasesHeld
    <2>3. c \in InHand /\ c \notin InHand'
      BY <1>1 DEF EndSend, InHand, HandsInOrder, ClaimsDisjoint
    <2> QED BY <2>1, <2>2, <2>3 DEF LetsGo
  <1>4. rem[r].retry \in 0..3
    BY <1>3 DEF LetsGo, HoldsLease, InHand, TypeOK, Claim
  <1>5. StoreTypeOK
    BY DEF TypeOK
  <1>6. CASE SendSucceeds
    <2>1. PICK S : SetStatus(S, "sent", cyc)
      BY <1>2, <1>6 DEF SendSucceeds, RecordSummarySent, RecordSent
    <2>2. Is(r, "sent")' /\ rem'[r].retry = rem[r].retry /\ rem'[r].last = rem[r].last
      BY <1>5, <2>1, SetStatusRow DEF Is
    <2> QED BY <1>1, <1>3, <1>6, <2>2 DEF Answers, SendSucceeds
  <1>7. CASE SendFails
    <2>1. rem'[r] = FailedRow(rem[r], cyc)
      BY <1>2, <1>5, <1>7 DEF SendFails, RecordSummaryFailure, RecordFailure, StoreTypeOK
    <2>2. Fails(r)
      BY <1>1, <1>3, <1>4, <2>1, FailedRowFails DEF Fails
    <2> QED BY <2>2
  <1>8. CASE ResultNotRecorded
    BY <1>8 DEF ResultNotRecorded, storeVars
  <1> QED
    BY <1>6, <1>7, <1>8

LEMMA StepRow ==
  ASSUME OwnInv, ProcessStep, NEW r \in Reminders, rem'[r] # rem[r]
  PROVE  Requeues(r) \/ Claims(r) \/ Expires(r) \/ Cancels(r) \/ Answers(r) \/ Fails(r)
  <1> USE DEF OwnInv
  <1>1. StoreTypeOK
    BY DEF TypeOK
  <1>2. rem' # rem
    OBVIOUS
  <1>3. CASE RecoverLeases
    <2> PICK B \in SUBSET Reminders : RecoverAbandoned(cyc, B)
      BY <1>3 DEF RecoverLeases
    <2>1. rem[r] \in Row
      BY <1>1 DEF StoreTypeOK
    <2>2. r \in B /\ rem'[r] = [rem[r] EXCEPT !.status = IF TaskActive(r) THEN "pending" ELSE "cancelled",
                                               !.upd = cyc]
      BY DEF RecoverAbandoned
    <2>3. Is(r, "processing") /\ rem[r].upd <= cyc - Lease
      BY <2>2 DEF RecoverAbandoned, IsBatch, StaleLeases
    <2>4. /\ rem'[r].status \in {"pending", "cancelled"}
          /\ rem'[r].retry = rem[r].retry /\ rem'[r].last = rem[r].last
      BY <2>1, <2>2 DEF Row
    <2> QED BY <1>3, <2>3, <2>4 DEF Requeues, RecoverLeases
  <1>4. CASE ClaimFirstAttempts
    <2> PICK B \in SUBSET Reminders : ClaimDue(cyc, B)
      BY <1>4 DEF ClaimFirstAttempts
    <2>1. /\ r \in B /\ Is(r, "processing")' /\ rem'[r].upd = cyc
          /\ rem'[r].retry = rem[r].retry /\ rem'[r].last = rem[r].last
      BY <1>1, SetStatusRow DEF ClaimDue, Is
    <2>2. Is(r, "pending") /\ rem[r].retry = 0
      BY <2>1 DEF ClaimDue, IsBatch, DueFirst
    <2>3. InHand = {} /\ pc = "claim"
      BY <1>4 DEF ClaimFirstAttempts, HandsInOrder, HandsOfPhase
    <2> QED BY <2>1, <2>2, <2>3 DEF Claims, Claimable
  <1>5. CASE ClaimDueRetries
    <2> PICK B \in SUBSET Reminders : ClaimRetries(cyc, B)
      BY <1>5 DEF ClaimDueRetries
    <2>1. /\ r \in B /\ Is(r, "processing")' /\ rem'[r].upd = cyc
          /\ rem'[r].retry = rem[r].retry /\ rem'[r].last = rem[r].last
      BY <1>1, SetStatusRow DEF ClaimRetries, Is
    <2>2. Is(r, "pending") /\ rem[r].retry \in 1..3 /\ RetryDue(r) <= cyc
      BY <2>1 DEF ClaimRetries, IsBatch, DueRetry
    <2>3. InHand = {} /\ pc = "retryclaim"
      BY <1>5 DEF ClaimDueRetries, HandsInOrder, HandsOfPhase
    <2> QED BY <2>1, <2>2, <2>3 DEF Claims, Claimable
  <1>6. CASE Triage
    <2>1. /\ r \in Expired(Ids(queue), cyc) /\ rem'[r].status = "expired"
          /\ rem'[r].retry = rem[r].retry /\ rem'[r].last = rem[r].last
      BY <1>1, <1>6, SetStatusRow DEF Triage, ApplyDowntimeRecovery
    <2>2. r \in Ids(queue) /\ Is(r, "processing") /\ rem[r].retry = 0 /\ cyc - SchedOf[r] >= ExpireAfter
      BY <2>1 DEF Expired, FirstAttempts
    <2>3. cyc - SchedOf[r] \in Int /\ MissedAfter \in Nat /\ ExpireAfter \in Nat /\ MissedAfter < ExpireAfter
      BY StoreAssumption DEF TypeOK, StoreTypeOK
    <2>4. r \notin OnTime(Ids(queue), cyc) /\ r \notin Missed(Ids(queue), cyc)
      BY <2>2, <2>3 DEF OnTime, Missed
    <2>5. \A c \in InHand' : c.id # r
      BY <1>6, <2>4 DEF Triage, HandsInOrder, HandsOfPhase, InHand
    <2> QED BY <1>6, <2>1, <2>2, <2>5 DEF Expires, Triage
  <1>7. ASSUME NEW c \in queue \cup group, PreflightCancels(c)
        PROVE  Cancels(r)
    <2>1. /\ r = c.id /\ Is(r, "cancelled")'
          /\ rem'[r].retry = rem[r].retry /\ rem'[r].last = rem[r].last
      BY <1>1, <1>7, SetStatusRow DEF PreflightCancels, CancelDisallowedRecipient, Is
    <2>2. c \in InHand /\ c \notin InHand' /\ HoldsLease(c) /\ sending = {}
      BY <1>7 DEF PreflightCancels, CancelDisallowedRecipient, Prepare, InHand, HandsInOrder, ClaimsDisjoint
    <2> QED BY <2>1, <2>2 DEF Cancels, LetsGo
  <1>8. CASE SendSucceeds \/ SendFails \/ ResultNotRecorded
    BY <1>8, AnswerRow
  <1>9. CASE StartBot \/ BeginCycle \/ PhaseDone \/ GroupMissed \/ SendGroup \/ TelegramAccepts
             \/ CycleFails \/ Stop
    BY <1>2, <1>9 DEF StartBot, BeginCycle, PhaseDone, GroupMissed, SendGroup, TelegramAccepts, CycleFails,
       Stop, storeVars
  <1>10. ASSUME NEW c \in queue \cup group, PreflightReady(c) \/ PreflightSkips(c) \/ PreflightFails(c)
         PROVE  FALSE
    BY <1>2, <1>10 DEF PreflightReady, PreflightSkips, PreflightFails, storeVars
  <1> QED
    BY <1>3, <1>4, <1>5, <1>6, <1>7, <1>8, <1>9, <1>10 DEF ProcessStep, CycleStep

(* A claim in hand after a step was in hand before it, and if it has been   *)
(* triaged now its row was claimed by someone; or it is a new one.          *)
LEMMA HandMoves ==
  ASSUME OwnInv, ProcessStep, NEW c \in InHand'
  PROVE  /\ c \in Claim /\ cyc' = cyc
         /\ \/ c \in InHand /\ (pc = "triage" => Is(c.id, "processing"))
            \/ InHand = {} /\ Is(c.id, "pending") /\ HoldsLease(c)'
  <1> USE DEF OwnInv
  <1>1. c \in Claim
    BY OwnStep DEF TypeOK, InHand
  <1>2. CASE StartBot \/ BeginCycle \/ RecoverLeases \/ CycleFails \/ Stop
    <2>1. InHand' = {}
      BY <1>2 DEF StartBot, BeginCycle, RecoverLeases, CycleFails, Stop, HandsInOrder, HandsOfPhase, InHand, hands
    <2> QED BY <2>1
  <1>3. ASSUME NEW B \in SUBSET Reminders, NEW due, SetStatus(B, "processing", cyc),
               \A r \in B : Is(r, "pending"), InHand' = ClaimsOf(B, due), InHand = {}, cyc' = cyc
        PROVE  InHand = {} /\ Is(c.id, "pending") /\ HoldsLease(c)' /\ cyc' = cyc
    <2>1. HoldsLease(c)'
      BY <1>3, ClaimsOfHeld
    <2>2. c.id \in B
      BY <1>3 DEF ClaimsOf
    <2> QED BY <1>3, <2>1, <2>2
  <1>4. CASE ClaimFirstAttempts
    <2> PICK B \in SUBSET Reminders : ClaimDue(cyc, B) /\ queue' = ClaimsOf(B, SchedOf)
      BY <1>4 DEF ClaimFirstAttempts
    <2>1. InHand' = ClaimsOf(B, SchedOf) /\ InHand = {} /\ cyc' = cyc
      BY <1>4 DEF ClaimFirstAttempts, HandsInOrder, HandsOfPhase, InHand
    <2>2. SetStatus(B, "processing", cyc) /\ \A r \in B : Is(r, "pending")
      BY DEF ClaimDue, IsBatch, DueFirst
    <2> QED BY <1>1, <1>3, <2>1, <2>2
  <1>5. CASE ClaimDueRetries
    <2> DEFINE due == [r \in Reminders |-> RetryDue(r)]
    <2> PICK B \in SUBSET Reminders : ClaimRetries(cyc, B) /\ queue' = ClaimsOf(B, due)
      BY <1>5 DEF ClaimDueRetries
    <2> HIDE DEF due
    <2>1. InHand' = ClaimsOf(B, due) /\ InHand = {} /\ cyc' = cyc
      BY <1>5 DEF ClaimDueRetries, HandsInOrder, HandsOfPhase, InHand
    <2>2. SetStatus(B, "processing", cyc) /\ \A r \in B : Is(r, "pending")
      BY DEF ClaimRetries, IsBatch, DueRetry
    <2> QED BY <1>1, <1>3, <2>1, <2>2
  <1>6. CASE Triage
    <2>1. /\ c \in InHand /\ cyc' = cyc
          /\ c.id \in OnTime(Ids(queue), cyc) \cup Missed(Ids(queue), cyc)
      BY <1>6 DEF Triage, HandsInOrder, HandsOfPhase, InHand
    <2> QED BY <1>1, <2>1 DEF OnTime, Missed, FirstAttempts
  <1>7. ASSUME InHand' \subseteq InHand, cyc' = cyc, pc # "triage"
        PROVE  c \in InHand /\ cyc' = cyc /\ (pc = "triage" => Is(c.id, "processing"))
    BY <1>7
  <1>8. CASE PhaseDone \/ GroupMissed \/ SendGroup \/ TelegramAccepts
    <2>1. InHand' \subseteq InHand /\ cyc' = cyc
      BY <1>8 DEF PhaseDone, GroupMissed, SendGroup, TelegramAccepts, SameOwner, InHand, hands
    <2>2. pc # "triage"
      BY <1>8 DEF PhaseDone, GroupMissed, SendGroup, TelegramAccepts, HandsInOrder, HandsOfPhase
    <2> QED BY <1>1, <1>7, <2>1, <2>2
  <1>9. ASSUME NEW d \in queue \cup group,
               PreflightReady(d) \/ PreflightSkips(d) \/ PreflightCancels(d) \/ PreflightFails(d)
        PROVE  c \in InHand /\ cyc' = cyc /\ pc # "triage"
    BY <1>9 DEF Prepare, PreflightReady, PreflightSkips, PreflightCancels, PreflightFails, InHand
  <1>10. CASE SendSucceeds \/ SendFails \/ ResultNotRecorded
    <2>1. InHand' \subseteq InHand /\ cyc' = cyc /\ sending # {}
      BY <1>10 DEF SendSucceeds, SendFails, ResultNotRecorded, EndSend, InHand
    <2>2. pc # "triage"
      BY <2>1 DEF HandsInOrder, HandsOfPhase
    <2> QED BY <1>1, <1>7, <2>1, <2>2
  <1> QED
    BY <1>1, <1>2, <1>4, <1>5, <1>6, <1>8, <1>9, <1>10 DEF ProcessStep, CycleStep

-----------------------------------------------------------------------------
(* Leases fence.                                                            *)

(* What a process knows of the claims in another one's hands.               *)
Foreign(C, S, t, p) ==
  /\ C \in SUBSET Claim /\ S \subseteq C /\ t \in Nat
  /\ \A c, d \in C : c.id = d.id => c = d
  /\ Ages(C, t, p)
  /\ C # {} => p \in Delivering

(* A claim of the cycle t that lost its lease lost it to a recovery by a    *)
(* cycle, u at the latest, that began a lease after t: so no cycle as old   *)
(* as t claims that row again.  The other way out is the triage, which      *)
(* expires by row and not by lease; the triage of the claimer drops those.  *)
Fenced(C, t, p, u) == \A c \in C :
  HoldsLease(c) \/ u >= t + Lease \/ (p = "triage" /\ Is(c.id, "expired"))

Apart(C, D) == \A c \in C, d \in D : c.id = d.id => ~(HoldsLease(c) /\ HoldsLease(d))

Pair(C, t, p) ==
  /\ Fenced(InHand, cyc, pc, t)
  /\ Fenced(C, t, p, cyc)
  /\ Apart(InHand, C)

(* The clock of the cycles never goes back.                                 *)
LEMMA CycleClock ==
  ASSUME OwnInv, ProcessStep
  PROVE  /\ now \in Nat /\ cyc \in Nat /\ cyc' \in Nat /\ cyc' >= cyc /\ now' = now
         /\ (pc' = "recover" /\ cyc' = now) \/ cyc' = cyc
  <1> USE DEF OwnInv
  <1>1. now \in Nat /\ cyc \in 0..now
    BY DEF TypeOK, StoreTypeOK
  <1>2. now' = now
    BY DEF ProcessStep, CycleStep, StartBot, BeginCycle, RecoverLeases, RecoverAbandoned, ClaimFirstAttempts,
       ClaimDue, Triage, ApplyDowntimeRecovery, ClaimDueRetries, ClaimRetries, PhaseDone, GroupMissed,
       SendGroup, PreflightReady, PreflightSkips, PreflightCancels, CancelDisallowedRecipient, PreflightFails,
       SendSucceeds, RecordSent, RecordSummarySent, SendFails, RecordFailure, RecordSummaryFailure,
       ResultNotRecorded, CycleFails, Stop, TelegramAccepts, storeVars
  <1>3. (pc' = "recover" /\ cyc' = now) \/ cyc' = cyc
    BY DEF ProcessStep, CycleStep, StartBot, BeginCycle, RecoverLeases, ClaimFirstAttempts,
       Triage, ClaimDueRetries, PhaseDone, GroupMissed,
       SendGroup, PreflightReady, PreflightSkips, PreflightCancels, Prepare, PreflightFails,
       SendSucceeds, SendFails, EndSend, ResultNotRecorded, CycleFails, Stop, TelegramAccepts
  <1> QED
    BY <1>1, <1>2, <1>3

(* A claim of the other process on a row that changes: it does not keep the *)
(* lease, and if it had it the process requeues the row a lease later, or   *)
(* expires it on behalf of a claim of its own that is lost.                 *)
LEMMA ForeignRow ==
  ASSUME OwnInv, ProcessStep,
         NEW C, NEW S, NEW t, NEW p, Foreign(C, S, t, p), Pair(C, t, p),
         NEW d \in C, rem'[d.id] # rem[d.id]
  PROVE  /\ ~HoldsLease(d)'
         /\ HoldsLease(d) => \/ Requeues(d.id) /\ cyc >= t + Lease
                            \/ /\ Expires(d.id) /\ p = "triage"
                               /\ \E c \in queue : c.id = d.id /\ ~HoldsLease(c)
         /\ ~HoldsLease(d) => cyc >= t + Lease
  <1> USE DEF OwnInv, Foreign, Pair
  <1> DEFINE r == d.id
  <1>1. r \in Reminders /\ d.at = t /\ t \in Nat
    BY DEF Claim, Ages
  <1>2. cyc \in Nat /\ Lease \in Nat \ {0} /\ rem[r] \in Row /\ rem[r].upd \in Nat
    BY <1>1, StoreAssumption DEF TypeOK, StoreTypeOK, Row
  <1>3. ~HoldsLease(d) => cyc >= t + Lease \/ Is(r, "expired")
    BY DEF Fenced
  <1>4. CASE Requeues(r)
    <2>1. ~HoldsLease(d)'
      BY <1>4 DEF Requeues, HoldsLease, Is
    <2>2. HoldsLease(d) => cyc >= t + Lease
      BY <1>1, <1>2, <1>4 DEF Requeues, HoldsLease
    <2>3. ~Is(r, "expired")
      BY <1>4 DEF Requeues, Is
    <2> QED BY <1>3, <1>4, <2>1, <2>2, <2>3
  <1>5. CASE Claims(r)
    <2>1. ~HoldsLease(d) /\ ~Is(r, "expired")
      BY <1>5 DEF Claims, HoldsLease, Is
    <2>2. rem'[r].upd # d.at
      BY <1>1, <1>2, <1>3, <1>5, <2>1 DEF Claims
    <2> QED BY <1>3, <2>1, <2>2 DEF HoldsLease
  <1>6. CASE Expires(r)
    <2>1. ~HoldsLease(d)' /\ ~Is(r, "expired")
      BY <1>6 DEF Expires, HoldsLease, Is
    <2>2. ASSUME HoldsLease(d)
          PROVE  p = "triage" /\ \E c \in queue : c.id = r /\ ~HoldsLease(c)
      <3>1. PICK c \in queue : c.id = r
        BY <1>6 DEF Expires, Ids
      <3>2. ~HoldsLease(c)
        BY <2>2, <3>1 DEF Apart, InHand
      <3>3. t >= cyc + Lease
        BY <2>1, <3>1, <3>2 DEF Fenced, InHand
      <3>4. d.retry = 0
        BY <1>6, <2>2 DEF Expires, HoldsLease
      <3>5. p # "triage" => t - SchedOf[r] < ExpireAfter
        BY <3>4 DEF Ages
      <3>6. SchedOf[r] \in Nat /\ ExpireAfter \in Nat /\ cyc - SchedOf[r] >= ExpireAfter
        BY <1>1, <1>6, StoreAssumption DEF Expires
      <3>7. p = "triage"
        BY <1>1, <1>2, <3>3, <3>5, <3>6
      <3> QED BY <3>1, <3>2, <3>7
    <2> QED BY <1>3, <1>6, <2>1, <2>2
  <1>7. CASE Cancels(r) \/ Answers(r) \/ Fails(r)
    <2>1. LetsGo(r) /\ ~HoldsLease(d)'
      BY <1>7 DEF Cancels, Answers, Fails, HoldsLease, Is
    <2>2. ~HoldsLease(d) /\ Is(r, "processing")
      BY <2>1 DEF LetsGo, Apart, HoldsLease
    <2> QED BY <1>3, <2>1, <2>2 DEF Is
  <1> QED
    BY <1>1, <1>4, <1>5, <1>6, <1>7, StepRow

(* The row of a claim that stays in the hands of the process is not touched.*)
LEMMA OwnRow ==
  ASSUME OwnInv, ProcessStep, NEW c \in InHand, c \in InHand'
  PROVE  rem'[c.id] = rem[c.id]
  <1> SUFFICES ASSUME rem'[c.id] # rem[c.id] PROVE FALSE
    OBVIOUS
  <1> USE DEF OwnInv
  <1>1. c.id \in Reminders
    BY DEF TypeOK, InHand, Claim
  <1>2. CASE Requeues(c.id)
    BY <1>2 DEF Requeues, HandsInOrder, HandsOfPhase
  <1>3. CASE Claims(c.id)
    BY <1>3 DEF Claims
  <1>4. CASE Expires(c.id)
    BY <1>4 DEF Expires
  <1>5. CASE Cancels(c.id) \/ Answers(c.id) \/ Fails(c.id)
    BY <1>5 DEF Cancels, Answers, Fails, LetsGo, HandsInOrder, ClaimsDisjoint
  <1> QED
    BY <1>1, <1>2, <1>3, <1>4, <1>5, StepRow

LEMMA PairStep ==
  ASSUME OwnInv, ProcessStep,
         NEW C, NEW S, NEW t, NEW p, Foreign(C, S, t, p), Pair(C, t, p)
  PROVE  Pair(C, t, p)'
  <1> USE DEF OwnInv, Foreign, Pair
  <1>1. cyc \in Nat /\ cyc' \in Nat /\ cyc' >= cyc /\ Lease \in Nat \ {0}
    BY CycleClock, StoreAssumption
  <1>2. ASSUME NEW c, rem'[c.id] = rem[c.id]
        PROVE  /\ HoldsLease(c)' <=> HoldsLease(c)
               /\ Is(c.id, "expired")' <=> Is(c.id, "expired")
    BY <1>2 DEF HoldsLease, Is
  <1>3. ASSUME NEW d \in C
        PROVE  HoldsLease(d)' \/ cyc' >= t + Lease \/ (p = "triage" /\ Is(d.id, "expired")')
    <2>1. HoldsLease(d) \/ cyc >= t + Lease \/ (p = "triage" /\ Is(d.id, "expired"))
      BY DEF Fenced
    <2>2. CASE rem'[d.id] = rem[d.id]
      BY <1>1, <1>2, <2>1, <2>2
    <2>3. CASE rem'[d.id] # rem[d.id]
      <3>1. CASE HoldsLease(d)
        <4>1. cyc >= t + Lease \/ (p = "triage" /\ Expires(d.id))
          BY <2>3, <3>1, ForeignRow
        <4> QED BY <1>1, <4>1 DEF Expires, Is
      <3>2. CASE ~HoldsLease(d)
        <4>1. cyc >= t + Lease
          BY <2>3, <3>2, ForeignRow
        <4> QED BY <1>1, <4>1
      <3> QED BY <3>1, <3>2
    <2> QED BY <2>2, <2>3
  <1>4. ASSUME NEW c \in InHand', ~HoldsLease(c)'
        PROVE  t >= cyc' + Lease
    <2>1. c \in InHand /\ cyc' = cyc /\ (pc = "triage" => Is(c.id, "processing"))
      BY <1>4, HandMoves
    <2>2. ~HoldsLease(c)
      BY <1>2, <1>4, <2>1, OwnRow
    <2> QED BY <2>1, <2>2 DEF Fenced, Is
  <1>5. ASSUME NEW c \in InHand', NEW d \in C, c.id = d.id, HoldsLease(c)', HoldsLease(d)'
        PROVE  FALSE
    <2>1. rem'[d.id] = rem[d.id]
      BY <1>5, ForeignRow
    <2>2. HoldsLease(c) /\ HoldsLease(d)
      BY <1>2, <1>5, <2>1
    <2>3. c \in InHand
      BY <2>2, HandMoves DEF HoldsLease, Is
    <2> QED BY <1>5, <2>2, <2>3 DEF Apart
  <1>6. Fenced(InHand, cyc, pc, t)'
    BY <1>4 DEF Fenced
  <1>7. Fenced(C, t, p, cyc)'
    BY <1>3 DEF Fenced
  <1>8. Apart(InHand, C)'
    BY <1>5 DEF Apart
  <1> QED
    BY <1>6, <1>7, <1>8

-----------------------------------------------------------------------------
(* What a row is owed.                                                      *)

(* Messages of the hands C that may still come though the lease is gone.    *)
Stale(C, S, a, r) == \E c \in C : c.id = r /\ ~HoldsLease(c) /\ ~(a /\ c \in S)

(* The message that was taken and whose result can still be recorded.       *)
Taken(S, a, r) == a /\ \E c \in S : c.id = r /\ HoldsLease(c)

Holds(C, r) == \E c \in C : c.id = r /\ HoldsLease(c)

One(b) == IF b THEN 1 ELSE 0

(* The messages a reminder got or will get beyond what its row, the faults  *)
(* and the answer that is due account for.                                  *)
Excess(r, C, S, a) ==
  got[r] + One(Stale(InHand, sending, accepted, r)) + One(Stale(C, S, a, r))
         - rem[r].retry - faults
         - One(Is(r, "sent") \/ Taken(sending, accepted, r) \/ Taken(S, a, r))

(* How a step of the process treats its message.                            *)
QuietSend == UNCHANGED <<got, sending, accepted>> /\ faults' \in Nat /\ faults' >= faults
NewSend == sending = {} /\ ~accepted /\ ~accepted' /\ got' = got /\ faults' = faults
EndedSend == got' = got /\ sending \cap InHand' = {} /\ sending' = {} /\ ~accepted'

LEMMA SendMoves ==
  ASSUME OwnInv, ProcessStep
  PROVE  \/ QuietSend \/ NewSend \/ TelegramAccepts
         \/ EndedSend /\ faults' = faults + 1
         \/ EndedSend /\ faults' = faults /\ (SendSucceeds \/ SendFails)
  <1> USE DEF OwnInv
  <1>1. faults \in Nat
    BY DEF TypeOK
  <1>2. CASE StartBot \/ BeginCycle \/ RecoverLeases \/ ClaimFirstAttempts \/ Triage \/ ClaimDueRetries
             \/ PhaseDone \/ GroupMissed
    <2>1. UNCHANGED <<got, sending, accepted, faults>>
      BY <1>2 DEF StartBot, BeginCycle, RecoverLeases, ClaimFirstAttempts, Triage, ClaimDueRetries, PhaseDone,
         GroupMissed, hands, history, bounds
    <2> QED BY <1>1, <2>1 DEF QuietSend
  <1>3. CASE SendGroup
    BY <1>3 DEF SendGroup, NewSend, history, bounds
  <1>4. ASSUME NEW c \in queue \cup group, PreflightReady(c)
        PROVE  NewSend
    BY <1>4 DEF PreflightReady, Prepare, NewSend, history, bounds
  <1>5. ASSUME NEW c \in queue \cup group, PreflightSkips(c) \/ PreflightCancels(c) \/ PreflightFails(c)
        PROVE  QuietSend
    <2>1. UNCHANGED <<got, sending, accepted>> /\ (faults' = faults \/ faults' = faults + 1)
      BY <1>5 DEF PreflightSkips, PreflightCancels, PreflightFails, Prepare, history, bounds, Fault
    <2> QED BY <1>1, <2>1 DEF QuietSend
  <1>6. CASE SendSucceeds \/ SendFails \/ ResultNotRecorded
    <2>1. EndedSend
      BY <1>6 DEF SendSucceeds, SendFails, ResultNotRecorded, EndSend, EndedSend, InHand, HandsInOrder, ClaimsDisjoint
    <2> QED BY <1>6, <2>1 DEF SendSucceeds, SendFails, ResultNotRecorded, Fault, bounds
  <1>7. CASE CycleFails
    <2>1. UNCHANGED <<got, sending, accepted>> /\ faults' = faults + 1
      BY <1>7 DEF CycleFails, Fault, history
    <2> QED BY <1>1, <2>1 DEF QuietSend
  <1>8. CASE Stop
    BY <1>8 DEF Stop, EndedSend, InHand, Fault
  <1> QED
    BY <1>2, <1>3, <1>4, <1>5, <1>6, <1>7, <1>8 DEF ProcessStep, CycleStep

(* A result recorded with every lease held writes every row of the message. *)
LEMMA ResultWritesAll ==
  ASSUME OwnInv, SendSucceeds \/ SendFails, LeasesHeld, NEW r \in Ids(sending)
  PROVE  rem'[r] # rem[r]
  <1> USE DEF OwnInv
  <1>1. PICK c \in sending : c.id = r /\ HoldsLease(c)
    BY DEF Ids, LeasesHeld
  <1>2. r \in Reminders /\ Is(r, "processing") /\ rem[r].retry \in 0..3 /\ rem[r] \in Row
    BY <1>1 DEF HoldsLease, TypeOK, StoreTypeOK, Claim
  <1>3. ~IsSummary => sending = {c}
    BY DEF Shape, IsSummary
  <1>4. CASE SendSucceeds
    <2>1. PICK S : r \in S /\ SetStatus(S, "sent", cyc)
      BY <1>1, <1>3, <1>4 DEF SendSucceeds, RecordSummarySent, RecordSent
    <2>2. rem'[r].status = "sent"
      BY <1>2, <2>1 DEF SetStatus, Row
    <2> QED BY <1>2, <2>2 DEF Is
  <1>5. CASE SendFails
    <2>1. rem'[r] = FailedRow(rem[r], cyc)
      BY <1>1, <1>2, <1>3, <1>5 DEF SendFails, RecordSummaryFailure, RecordFailure, TypeOK, StoreTypeOK
    <2>2. FailedRow(rem[r], cyc).retry = rem[r].retry + 1
      BY <1>2, FailedRowEffect DEF TypeOK, StoreTypeOK
    <2> QED BY <1>2, <2>1, <2>2
  <1> QED
    BY <1>4, <1>5

(* A claim that stays in hand keeps its part in the message.                *)
LEMMA StaysTaken ==
  ASSUME OwnInv, ProcessStep, NEW c \in InHand', accepted, c \in sending
  PROVE  accepted' /\ c \in sending'
  <1>1. CASE TelegramAccepts
    BY <1>1 DEF TelegramAccepts
  <1> QED
    BY <1>1, SendMoves DEF QuietSend, NewSend, EndedSend

(* The claims of the process on a row it leaves alone.                      *)
LEMMA OwnStaleStays ==
  ASSUME OwnInv, ProcessStep, NEW r \in Reminders, rem'[r] = rem[r],
         Stale(InHand, sending, accepted, r)'
  PROVE  Stale(InHand, sending, accepted, r)
  <1>1. PICK c \in InHand' : c.id = r /\ ~HoldsLease(c)' /\ ~(accepted' /\ c \in sending')
    BY DEF Stale
  <1>2. c \in InHand
    BY <1>1, HandMoves
  <1>3. ~HoldsLease(c)
    BY <1>1 DEF HoldsLease, Is
  <1> QED
    BY <1>1, <1>2, <1>3, StaysTaken DEF Stale

(* The foreign claims on a row.                                             *)
LEMMA ForeignKept ==
  ASSUME NEW C, NEW S, NEW a, NEW r, rem'[r] = rem[r]
  PROVE  /\ Stale(C, S, a, r)' <=> Stale(C, S, a, r)
         /\ Taken(S, a, r)' <=> Taken(S, a, r)
         /\ Holds(C, r)' <=> Holds(C, r)
         /\ Is(r, "sent")' <=> Is(r, "sent")
  BY DEF Stale, Taken, Holds, HoldsLease, Is

LEMMA ForeignMoved ==
  ASSUME OwnInv, ProcessStep,
         NEW C, NEW S, NEW a, NEW t, NEW p, Foreign(C, S, t, p), Pair(C, t, p),
         NEW r \in Reminders, rem'[r] # rem[r]
  PROVE  /\ ~Taken(S, a, r)' /\ ~Holds(C, r)'
         /\ ~Holds(C, r) => /\ ~Taken(S, a, r)
                            /\ Stale(C, S, a, r)' <=> Stale(C, S, a, r)
                            /\ Stale(C, S, a, r) => cyc >= t + Lease
         /\ Holds(C, r) => /\ ~Stale(C, S, a, r)
                           /\ Taken(S, a, r) => ~Stale(C, S, a, r)'
                           /\ \/ Requeues(r) /\ cyc >= t + Lease
                              \/ /\ Expires(r) /\ p = "triage"
                                 /\ Stale(InHand, sending, accepted, r)
  <1>1. S \subseteq C /\ \A c, d \in C : c.id = d.id => c = d
    BY DEF Foreign
  <1>2. \A d \in C : d.id = r => ~HoldsLease(d)'
    BY ForeignRow
  <1>3. ~Taken(S, a, r)' /\ ~Holds(C, r)'
    BY <1>1, <1>2 DEF Taken, Holds
  <1>4. ASSUME ~Holds(C, r)
        PROVE  /\ ~Taken(S, a, r)
               /\ Stale(C, S, a, r)' <=> Stale(C, S, a, r)
               /\ Stale(C, S, a, r) => cyc >= t + Lease
    <2>1. \A d \in C : d.id = r => ~HoldsLease(d)
      BY <1>4 DEF Holds
    <2>2. Stale(C, S, a, r) => cyc >= t + Lease
      BY <2>1, ForeignRow DEF Stale
    <2> QED BY <1>1, <1>2, <2>1, <2>2 DEF Stale, Taken
  <1>5. ASSUME Holds(C, r)
        PROVE  /\ ~Stale(C, S, a, r)
               /\ Taken(S, a, r) => ~Stale(C, S, a, r)'
               /\ \/ Requeues(r) /\ cyc >= t + Lease
                  \/ /\ Expires(r) /\ p = "triage"
                     /\ Stale(InHand, sending, accepted, r)
    <2> PICK d \in C : d.id = r /\ HoldsLease(d)
      BY <1>5 DEF Holds
    <2>1. \A c \in C : c.id = r => c = d
      BY <1>1
    <2>2. ~Stale(C, S, a, r) /\ (Taken(S, a, r) => ~Stale(C, S, a, r)')
      BY <1>1, <2>1 DEF Stale, Taken
    <2>3. \/ Requeues(r) /\ cyc >= t + Lease
          \/ Expires(r) /\ p = "triage" /\ \E c \in queue : c.id = r /\ ~HoldsLease(c)
      BY ForeignRow
    <2>4. ASSUME NEW c \in queue, c.id = r, ~HoldsLease(c)
          PROVE  Stale(InHand, sending, accepted, r)
      BY <2>4 DEF Stale, InHand, OwnInv, HandsInOrder, ClaimsDisjoint
    <2> QED BY <2>2, <2>3, <2>4
  <1> QED
    BY <1>3, <1>4, <1>5

(* The two steps after which a row has one message more than it accounts    *)
(* for: the requeue of a claim the other process still works on, and the    *)
(* answer to a summary one of whose claims was lost.                        *)
LosesForeign(r, C, t) == Requeues(r) /\ Holds(C, r) /\ ~Holds(C, r)' /\ cyc >= t + Lease

LosesSummary(r, t) ==
  /\ Holds(InHand, r) /\ ~Holds(InHand, r)' /\ rem'[r] = rem[r]
  /\ t >= cyc + Lease /\ cyc' = cyc

(* The process's own part in the excess of a row that changes.              *)
LEMMA OwnMoved ==
  ASSUME OwnInv, ProcessStep, NEW r \in Reminders, rem'[r] # rem[r]
  PROVE  /\ ~Stale(InHand, sending, accepted, r)'
         /\ LetsGo(r) => /\ ~Stale(InHand, sending, accepted, r) /\ ~Holds(InHand, r)'
                         /\ Taken(sending, accepted, r)' <=> FALSE
                         /\ r \in Ids(sending) /\ accepted => Taken(sending, accepted, r)
         /\ InHand = {} => ~Taken(sending, accepted, r)
         /\ Expires(r) => ~Taken(sending, accepted, r)
  <1> USE DEF OwnInv
  <1>1. ASSUME NEW c \in InHand', c.id = r
        PROVE  c \notin InHand
    BY <1>1, OwnRow
  <1>2. ~Stale(InHand, sending, accepted, r)'
    BY <1>1, HandMoves DEF Stale
  <1>3. ASSUME LetsGo(r)
        PROVE  /\ ~Stale(InHand, sending, accepted, r) /\ ~Holds(InHand, r)'
               /\ Taken(sending, accepted, r)' <=> FALSE
               /\ r \in Ids(sending) /\ accepted => Taken(sending, accepted, r)
    <2> PICK c \in InHand : c.id = r /\ HoldsLease(c)
      BY <1>3 DEF LetsGo
    <2>1. \A d \in InHand : d.id = r => d = c
      BY DEF HandsInOrder, ClaimsDisjoint
    <2>2. \A d \in InHand' : d.id # r
      BY <1>1, HandMoves
    <2>3. sending \subseteq InHand /\ sending' \subseteq InHand'
      BY DEF InHand
    <2> QED BY <2>1, <2>2, <2>3 DEF Stale, Holds, Taken, Ids
  <1>4. Expires(r) => sending = {}
    BY DEF Expires, HandsInOrder, HandsOfPhase
  <1> QED
    BY <1>2, <1>3, <1>4 DEF Taken, InHand

(* Nothing is taken in a step that writes a row.                            *)
LEMMA CountsMove ==
  ASSUME OwnInv, ProcessStep
  PROVE  /\ faults \in Nat /\ faults' \in Nat /\ faults' >= faults
         /\ got' = got \/ TelegramAccepts
         /\ rem' # rem => got' = got
  <1>1. faults \in Nat
    BY DEF OwnInv, TypeOK
  <1>2. TelegramAccepts => rem' = rem /\ faults' = faults
    BY DEF TelegramAccepts, storeVars, bounds
  <1> QED
    BY <1>1, <1>2, SendMoves DEF QuietSend, NewSend, EndedSend

(* The excess of a row that is left alone.                                  *)
LEMMA ExcessKept ==
  ASSUME OwnInv, ProcessStep,
         NEW C, NEW S, NEW a, NEW t, NEW p, Foreign(C, S, t, p), Pair(C, t, p),
         NEW r \in Reminders, rem'[r] = rem[r], rem[r].retry \in Nat
  PROVE  \/ Excess(r, C, S, a)' <= Excess(r, C, S, a)
         \/ Excess(r, C, S, a)' <= Excess(r, C, S, a) + 1 /\ LosesSummary(r, t)
  <1> USE DEF OwnInv
  <1> DEFINE so == Stale(InHand, sending, accepted, r)
             sf == Stale(C, S, a, r)
             tk == Taken(sending, accepted, r)
             tf == Taken(S, a, r)
             st == Is(r, "sent")
  <1>1. (sf' <=> sf) /\ (tf' <=> tf) /\ (st' <=> st)
    BY ForeignKept
  <1>2. so' => so
    BY OwnStaleStays
  <1>3. got[r] \in Nat /\ faults \in Nat /\ faults' \in Nat /\ faults' >= faults
    BY CountsMove DEF TypeOK
  <1>4. Excess(r, C, S, a) = got[r] + One(so) + One(sf) - rem[r].retry - faults - One(st \/ tk \/ tf)
    BY DEF Excess
  <1>5. Excess(r, C, S, a)' = got'[r] + One(so') + One(sf') - rem[r].retry - faults' - One(st' \/ tk' \/ tf')
    BY DEF Excess, One
  <1> HIDE DEF so, sf, tk, tf, st
  <1>6. ASSUME got' = got, tk => tk'
        PROVE  Excess(r, C, S, a)' <= Excess(r, C, S, a)
    <2>1. One(so') <= One(so) /\ One(so') \in Nat /\ One(so) \in Nat
      BY <1>2 DEF One
    <2>2. One(sf') = One(sf) /\ One(sf) \in Nat
      BY <1>1 DEF One
    <2>3. One(st' \/ tk' \/ tf') >= One(st \/ tk \/ tf)
          /\ One(st' \/ tk' \/ tf') \in Nat /\ One(st \/ tk \/ tf) \in Nat
      BY <1>1, <1>6 DEF One
    <2> QED BY <1>3, <1>4, <1>5, <1>6, <2>1, <2>2, <2>3
  <1>7. ASSUME got' = got
        PROVE  Excess(r, C, S, a)' <= Excess(r, C, S, a) + 1 - (faults' - faults)
    <2>1. One(so') <= One(so) /\ One(so') \in Nat /\ One(so) \in Nat
      BY <1>2 DEF One
    <2>2. One(sf') = One(sf) /\ One(sf) \in Nat
      BY <1>1 DEF One
    <2>3. One(st' \/ tk' \/ tf') \in Nat /\ One(st \/ tk \/ tf) \in {0, 1}
      BY DEF One
    <2> QED BY <1>3, <1>4, <1>5, <1>7, <2>1, <2>2, <2>3
  <1>8. CASE TelegramAccepts
    <2>1. /\ sending' = sending /\ ~accepted /\ accepted' /\ InHand' = InHand
          /\ got' = Count(got, Ids(sending)) /\ faults' = faults
      BY <1>8 DEF TelegramAccepts, hands, InHand, bounds
    <2>2. CASE r \notin Ids(sending)
      <3>1. got'[r] = got[r]
        BY <2>1, <2>2 DEF Count, TypeOK
      <3>2. ~tk
        BY <2>1 DEF Taken, tk
      <3>3. One(so') <= One(so) /\ One(so') \in Nat /\ One(so) \in Nat
        BY <1>2 DEF One
      <3>4. One(sf') = One(sf) /\ One(sf) \in Nat
        BY <1>1 DEF One
      <3>5. One(st' \/ tk' \/ tf') >= One(st \/ tk \/ tf)
            /\ One(st' \/ tk' \/ tf') \in Nat /\ One(st \/ tk \/ tf) \in Nat
        BY <1>1, <3>2 DEF One
      <3> QED BY <1>3, <1>4, <1>5, <2>1, <3>1, <3>3, <3>4, <3>5
    <2>3. CASE r \in Ids(sending)
      <3>1. got'[r] = got[r] + 1
        BY <2>1, <2>3 DEF Count, TypeOK
      <3>2. PICK c \in sending : c.id = r
        BY <2>3 DEF Ids
      <3>3. c \in InHand /\ \A d \in InHand : d.id = r => d = c
        BY <3>2 DEF InHand, HandsInOrder, ClaimsDisjoint
      <3>4. HoldsLease(c)' <=> HoldsLease(c)
        BY <3>2 DEF HoldsLease, Is
      <3>5. ~so'
        BY <2>1, <3>2, <3>3 DEF so, Stale
      <3>6. CASE HoldsLease(c)
        <4>1. ~st /\ ~tk /\ tk'
          BY <2>1, <3>2, <3>4, <3>6 DEF st, tk, Taken, HoldsLease, Is
        <4>2. ~tf
          BY <3>2, <3>3, <3>6 DEF tf, Taken, Pair, Apart, Foreign
        <4>3. One(so') = 0 /\ One(so) \in Nat /\ One(sf') = One(sf) /\ One(sf) \in Nat
          BY <1>1, <3>5 DEF One
        <4>4. One(st \/ tk \/ tf) = 0 /\ One(st' \/ tk' \/ tf') = 1
          BY <4>1, <4>2 DEF One
        <4> QED BY <1>3, <1>4, <1>5, <2>1, <3>1, <4>3, <4>4
      <3>7. CASE ~HoldsLease(c)
        <4>1. so /\ ~tk
          BY <2>1, <3>2, <3>3, <3>7 DEF so, Stale, tk, Taken
        <4>2. One(so') = 0 /\ One(so) = 1 /\ One(sf') = One(sf) /\ One(sf) \in Nat
          BY <1>1, <3>5, <4>1 DEF One
        <4>3. One(st' \/ tk' \/ tf') >= One(st \/ tk \/ tf)
              /\ One(st' \/ tk' \/ tf') \in Nat /\ One(st \/ tk \/ tf) \in Nat
          BY <1>1, <4>1 DEF One
        <4> QED BY <1>3, <1>4, <1>5, <2>1, <3>1, <4>2, <4>3
      <3> QED BY <3>6, <3>7
    <2> QED BY <2>2, <2>3
  <1>9. CASE QuietSend
    <2>1. tk => tk'
      BY <1>9 DEF QuietSend, tk, Taken, HoldsLease, Is
    <2> QED BY <1>6, <1>9, <2>1 DEF QuietSend
  <1>10. CASE NewSend
    <2>1. ~tk
      BY <1>10 DEF NewSend, tk, Taken
    <2> QED BY <1>6, <1>10, <2>1 DEF NewSend
  <1>11. CASE EndedSend /\ faults' = faults + 1
    <2>1. Excess(r, C, S, a)' <= Excess(r, C, S, a) + 1 - (faults' - faults)
      BY <1>7, <1>11 DEF EndedSend
    <2>2. Excess(r, C, S, a) \in Int
      BY <1>3, <1>4 DEF One
    <2>3. Excess(r, C, S, a)' \in Int
      BY <1>3, <1>5, OwnStep DEF One, TypeOK
    <2> QED BY <1>3, <1>11, <2>1, <2>2, <2>3
  <1>12. CASE EndedSend /\ faults' = faults /\ (SendSucceeds \/ SendFails)
    <2>1. CASE ~tk
      BY <1>6, <1>12, <2>1 DEF EndedSend
    <2>2. CASE tk
      <3>1. PICK c \in sending : c.id = r /\ HoldsLease(c)
        BY <2>2 DEF tk, Taken
      <3>2. r \in Ids(sending) /\ Holds(InHand, r)
        BY <3>1 DEF Ids, Holds, InHand
      <3>3. PICK d \in sending : ~HoldsLease(d)
        BY <1>12, <3>2, ResultWritesAll DEF LeasesHeld
      <3>4. pc # "triage" /\ d \in InHand
        BY <3>1 DEF HandsInOrder, HandsOfPhase, InHand
      <3>5. t >= cyc + Lease
        BY <3>3, <3>4 DEF Pair, Fenced
      <3>6. ~Holds(InHand, r)'
        <4> SUFFICES ASSUME NEW e \in InHand', e.id = r, HoldsLease(e)' PROVE FALSE
          BY DEF Holds
        <4>1. HoldsLease(e)
          BY DEF HoldsLease, Is
        <4>2. e \in InHand
          BY <3>4, HandMoves
        <4>3. e = c
          BY <3>1, <4>2 DEF InHand, HandsInOrder, ClaimsDisjoint
        <4> QED BY <1>12, <3>1, <4>3 DEF EndedSend
      <3>7. cyc' = cyc
        BY <1>12 DEF SendSucceeds, SendFails, EndSend
      <3>8. Excess(r, C, S, a)' <= Excess(r, C, S, a) + 1 - (faults' - faults)
        BY <1>7, <1>12 DEF EndedSend
      <3>9. Excess(r, C, S, a) \in Int
        BY <1>3, <1>4 DEF One
      <3> QED BY <1>3, <1>12, <3>2, <3>5, <3>6, <3>7, <3>8, <3>9 DEF LosesSummary
    <2> QED BY <2>1, <2>2
  <1> QED
    BY <1>8, <1>9, <1>10, <1>11, <1>12, SendMoves

(* The excess of a row that is written.                                     *)
LEMMA ExcessMoved ==
  ASSUME OwnInv, ProcessStep,
         NEW C, NEW S, NEW a, NEW t, NEW p, Foreign(C, S, t, p), Pair(C, t, p),
         NEW r \in Reminders, rem'[r] # rem[r], rem[r].retry \in Nat
  PROVE  \/ Excess(r, C, S, a)' <= Excess(r, C, S, a)
         \/ Excess(r, C, S, a)' <= Excess(r, C, S, a) + 1 /\ LosesForeign(r, C, t)
  <1> USE DEF OwnInv
  <1> DEFINE so == Stale(InHand, sending, accepted, r)
             sf == Stale(C, S, a, r)
             tk == Taken(sending, accepted, r)
             tf == Taken(S, a, r)
             st == Is(r, "sent")
             E == Excess(r, C, S, a)
  <1>1. got' = got /\ got[r] \in Nat /\ faults \in Nat /\ faults' \in Nat /\ faults' >= faults
    BY CountsMove DEF TypeOK
  <1>2. E = got[r] + One(so) + One(sf) - rem[r].retry - faults - One(st \/ tk \/ tf)
    BY DEF Excess
  <1>3. E' = got[r] + One(so') + One(sf') - rem'[r].retry - faults' - One(st' \/ tk' \/ tf')
    BY <1>1 DEF Excess, One
  <1>4. ~so'
    BY OwnMoved
  <1>5. /\ ~Holds(C, r) => ~tf /\ (sf' <=> sf)
        /\ Holds(C, r) => ~sf /\ (tf => ~sf')
        /\ Holds(C, r) => (Requeues(r) /\ cyc >= t + Lease) \/ (Expires(r) /\ so)
        /\ ~Holds(C, r)'
    BY ForeignMoved
  <1>6. InHand = {} => ~so /\ ~tk
    BY OwnMoved DEF Stale
  <1>7. LetsGo(r) => ~Holds(C, r) /\ Is(r, "processing")
    BY DEF LetsGo, Holds, Pair, Apart, HoldsLease
  <1>8. Requeues(r) \/ Expires(r) => Is(r, "processing")
    BY DEF Requeues, Expires
  <1>9. /\ Requeues(r) => InHand = {} /\ ~Expires(r)
        /\ Claims(r) => InHand = {} /\ Is(r, "pending") /\ ~Expires(r) /\ ~Requeues(r)
    BY DEF Requeues, HandsInOrder, HandsOfPhase, Claims, Expires, Is
  <1>10. Is(r, "processing") \/ Is(r, "pending") => ~st
    BY DEF Is
  <1>11. /\ Expires(r) => ~tk
         /\ LetsGo(r) => ~so
         /\ LetsGo(r) /\ r \in Ids(sending) /\ accepted => tk
    BY OwnMoved
  <1> HIDE DEF so, sf, tk, tf, st, E
  <1>12. /\ One(so) \in {0, 1} /\ One(sf) \in {0, 1} /\ One(st \/ tk \/ tf) \in {0, 1}
         /\ One(so') = 0 /\ One(sf') \in {0, 1} /\ One(st' \/ tk' \/ tf') \in {0, 1}
    BY <1>4 DEF One
  <1>13. ASSUME rem'[r].retry = rem[r].retry,
                One(sf') + One(st \/ tk \/ tf) <= One(so) + One(sf) + One(st' \/ tk' \/ tf')
         PROVE  E' <= E
    BY <1>1, <1>2, <1>3, <1>12, <1>13
  <1>14. CASE Requeues(r) \/ Claims(r)
    <2>1. rem'[r].retry = rem[r].retry /\ ~st /\ ~so /\ ~tk /\ ~Expires(r)
      BY <1>6, <1>8, <1>9, <1>10, <1>14 DEF Requeues, Claims
    <2>2. CASE ~Holds(C, r)
      <3>1. One(sf') = One(sf) /\ One(st \/ tk \/ tf) = 0
        BY <1>5, <2>1, <2>2 DEF One
      <3> QED BY <1>12, <1>13, <2>1, <3>1 DEF E
    <2>3. CASE Holds(C, r)
      <3>1. One(sf') + One(st \/ tk \/ tf) <= 1
        BY <1>5, <2>1, <2>3 DEF One
      <3>2. E' <= E + 1
        BY <1>1, <1>2, <1>3, <1>12, <2>1, <3>1
      <3> QED BY <1>5, <2>1, <2>3, <3>2 DEF LosesForeign, E
    <2> QED BY <2>2, <2>3
  <1>15. CASE Expires(r)
    <2>1. rem'[r].retry = rem[r].retry /\ ~st /\ ~tk /\ ~Requeues(r)
      BY <1>8, <1>9, <1>10, <1>11, <1>15 DEF Expires
    <2>2. CASE ~Holds(C, r)
      <3>1. One(sf') = One(sf) /\ One(st \/ tk \/ tf) = 0
        BY <1>5, <2>1, <2>2 DEF One
      <3> QED BY <1>12, <1>13, <2>1, <3>1 DEF E
    <2>3. CASE Holds(C, r)
      <3>1. One(sf') + One(st \/ tk \/ tf) <= 1 /\ One(so) = 1
        BY <1>5, <2>1, <2>3 DEF One
      <3> QED BY <1>12, <1>13, <2>1, <3>1 DEF E
    <2> QED BY <2>2, <2>3
  <1>16. CASE LetsGo(r) /\ ~Expires(r)
    <2>1. ~so /\ ~st /\ ~tf /\ One(sf') = One(sf)
      BY <1>5, <1>7, <1>10, <1>11, <1>16 DEF One
    <2>2. CASE Cancels(r)
      <3>1. ~tk /\ rem'[r].retry = rem[r].retry
        BY <2>2 DEF Cancels, tk, Taken
      <3>2. One(st \/ tk \/ tf) = 0
        BY <2>1, <3>1 DEF One
      <3> QED BY <1>12, <1>13, <2>1, <3>1, <3>2 DEF E
    <2>3. CASE Answers(r)
      <3>1. st' /\ rem'[r].retry = rem[r].retry
        BY <2>3 DEF Answers, st
      <3>2. One(st' \/ tk' \/ tf') = 1
        BY <3>1 DEF One
      <3> QED BY <1>12, <1>13, <2>1, <3>1, <3>2 DEF E
    <2>4. CASE Fails(r)
      <3>1. rem'[r].retry = rem[r].retry + 1
        BY <2>4 DEF Fails
      <3> QED BY <1>1, <1>2, <1>3, <1>12, <2>1, <3>1 DEF E
    <2>5. Cancels(r) \/ Answers(r) \/ Fails(r)
      <3>1. InHand # {}
        BY <1>16 DEF LetsGo
      <3> QED BY <1>9, <1>16, <3>1, StepRow
    <2> QED BY <2>2, <2>3, <2>4, <2>5
  <1>17. Requeues(r) \/ Claims(r) \/ Expires(r) \/ LetsGo(r)
    BY StepRow DEF Cancels, Answers, Fails
  <1> QED
    BY <1>14, <1>15, <1>16, <1>17 DEF E

-----------------------------------------------------------------------------
(* What pays for it.                                                        *)

(* A cycle under way has paid with slow for the time since its start, so    *)
(* slow - (now - t) is what slow was when the cycle of clock t began.  What *)
(* a row has in excess is covered by slow; by what it was at the start of a *)
(* cycle if that cycle can still claim the row, or has.                     *)
Budget(r, C, S, a, t, p) ==
  /\ Excess(r, C, S, a) <= slow
  /\ Claimable(pc, cyc, r) \/ Holds(InHand, r) => Excess(r, C, S, a) <= slow - (now - cyc)
  /\ Claimable(p, t, r) \/ Holds(C, r) => Excess(r, C, S, a) <= slow - (now - t)

(* The phases of a cycle follow each other.                                 *)
LEMMA ClaimableStays ==
  ASSUME OwnInv, ProcessStep, NEW r \in Reminders, Claimable(pc, cyc, r)'
  PROVE  Claimable(pc, cyc, r) \/ (pc' = "recover" /\ cyc' = now)
  <1> USE DEF OwnInv
  <1>1. CASE BeginCycle
    BY <1>1 DEF BeginCycle
  <1>2. CASE ~BeginCycle
    <2>1. /\ cyc' = cyc
          /\ pc' \in {"recover", "claim"} => pc \in {"recover", "claim"}
          /\ pc' \in {"recover", "claim", "triage", "normal", "missed", "retryclaim"} =>
               pc \in {"recover", "claim", "triage", "normal", "missed", "retryclaim"}
      BY <1>2 DEF ProcessStep, CycleStep, StartBot, RecoverLeases, ClaimFirstAttempts,
         Triage, ClaimDueRetries, PhaseDone, GroupMissed, SendGroup, PreflightReady, PreflightSkips,
         PreflightCancels, Prepare, PreflightFails, SendSucceeds, SendFails, EndSend, ResultNotRecorded,
         CycleFails, Stop, TelegramAccepts
    <2>2. CASE rem'[r].retry = rem[r].retry /\ rem'[r].last = rem[r].last
      BY <2>1, <2>2 DEF Claimable, RetryDue
    <2>3. CASE Fails(r)
      <3>1. rem'[r].retry = rem[r].retry + 1 /\ rem'[r].last = cyc
        BY <2>3 DEF Fails
      <3>2. cyc \in Nat /\ rem[r].retry \in Nat
        BY DEF TypeOK, StoreTypeOK, Row
      <3>3. \A i \in 1..3 : RetryDelay[i] \in Nat \ {0}
        BY StoreAssumption
      <3> QED BY <2>1, <3>1, <3>2, <3>3 DEF Claimable, RetryDue
    <2>4. Fails(r) \/ (rem'[r].retry = rem[r].retry /\ rem'[r].last = rem[r].last)
      BY StepRow DEF Requeues, Claims, Expires, Cancels, Answers
    <2> QED BY <2>2, <2>3, <2>4
  <1> QED
    BY <1>1, <1>2

(* The other process's cycle may claim a row it could claim before, or one  *)
(* whose failure this process records, if its cycle is the later one.       *)
LEMMA ClaimableElsewhere ==
  ASSUME OwnInv, ProcessStep, NEW r \in Reminders, NEW p, NEW t \in Nat, Claimable(p, t, r)'
  PROVE  Claimable(p, t, r) \/ (Fails(r) /\ cyc < t)
  <1> USE DEF OwnInv
  <1>1. CASE rem'[r].retry = rem[r].retry /\ rem'[r].last = rem[r].last
    BY <1>1 DEF Claimable, RetryDue
  <1>2. CASE Fails(r)
    <2>1. rem'[r].retry = rem[r].retry + 1 /\ rem'[r].last = cyc
      BY <1>2 DEF Fails
    <2>2. cyc \in Nat /\ rem[r].retry \in Nat
      BY DEF TypeOK, StoreTypeOK, Row
    <2>3. \A i \in 1..3 : RetryDelay[i] \in Nat \ {0}
      BY StoreAssumption
    <2> QED BY <1>2, <2>1, <2>2, <2>3 DEF Claimable, RetryDue
  <1>3. Fails(r) \/ (rem'[r].retry = rem[r].retry /\ rem'[r].last = rem[r].last)
    BY StepRow DEF Requeues, Claims, Expires, Cancels, Answers
  <1> QED
    BY <1>1, <1>2, <1>3

(* A process gets a lease by claiming the row.                              *)
LEMMA HoldsStays ==
  ASSUME OwnInv, ProcessStep, NEW r \in Reminders, Holds(InHand, r)'
  PROVE  cyc' = cyc /\ (Holds(InHand, r) \/ Claimable(pc, cyc, r))
  <1> PICK c \in InHand' : c.id = r /\ HoldsLease(c)'
    BY DEF Holds
  <1>1. cyc' = cyc
    BY HandMoves
  <1>2. CASE c \in InHand
    <2>1. HoldsLease(c)
      BY <1>2, OwnRow DEF HoldsLease, Is
    <2> QED BY <1>1, <1>2, <2>1 DEF Holds
  <1>3. CASE InHand = {} /\ Is(r, "pending")
    <2>1. rem'[r] # rem[r]
      BY <1>3 DEF HoldsLease, Is
    <2>2. Claims(r)
      BY <1>3, <2>1, StepRow DEF Requeues, Expires, Cancels, Answers, Fails, LetsGo, Is
    <2> QED BY <1>1, <2>2 DEF Claims
  <1> QED
    BY <1>2, <1>3, HandMoves

(* A row in hand is not one that the same cycle can still claim.            *)
LEMMA HeldNotClaimable ==
  ASSUME NEW C, NEW S, NEW t, NEW p, Foreign(C, S, t, p), NEW r, Holds(C, r)
  PROVE  ~Claimable(p, t, r)
  <1> PICK c \in C : c.id = r /\ HoldsLease(c)
    BY DEF Holds
  <1>1. c.retry = rem[r].retry /\ c.retry \in 0..3 /\ p \in Delivering /\ (p = "retry" <=> c.retry > 0)
    BY DEF Foreign, Ages, Claim, HoldsLease
  <1>2. CASE p = "retry"
    BY <1>2 DEF Claimable
  <1>3. CASE p # "retry"
    <2>1. rem[r].retry = 0 /\ p \notin {"recover", "claim"}
      BY <1>1, <1>3 DEF Delivering
    <2> QED BY <2>1 DEF Claimable
  <1> QED
    BY <1>2, <1>3

LEMMA OwnIsForeign ==
  ASSUME OwnInv
  PROVE  Foreign(InHand, sending, cyc, pc)
  <1>1. InHand \in SUBSET Claim /\ sending \subseteq InHand /\ cyc \in Nat
    BY DEF OwnInv, TypeOK, StoreTypeOK, InHand
  <1>2. \A c, d \in InHand : c.id = d.id => c = d
    BY DEF OwnInv, HandsInOrder, ClaimsDisjoint
  <1>3. InHand # {} => pc \in Delivering
    BY HandsOnlyDelivering DEF OwnInv
  <1> QED
    BY <1>1, <1>2, <1>3 DEF Foreign, OwnInv

LEMMA SlowKept ==
  ASSUME ProcessStep
  PROVE  slow' = slow
  BY DEF ProcessStep, CycleStep, StartBot, BeginCycle, RecoverLeases, ClaimFirstAttempts, Triage,
     ClaimDueRetries, PhaseDone, GroupMissed, SendGroup, PreflightReady, PreflightSkips, PreflightCancels,
     PreflightFails, SendSucceeds, SendFails, ResultNotRecorded, CycleFails, Stop, TelegramAccepts, Fault, bounds

LEMMA ExcessInt ==
  ASSUME OwnInv, NEW C, NEW S, NEW a, NEW r \in Reminders
  PROVE  Excess(r, C, S, a) \in Int
  <1>1. got[r] \in Nat /\ rem[r].retry \in Nat /\ faults \in Nat
    BY DEF OwnInv, TypeOK, StoreTypeOK, Row
  <1>2. \A b \in BOOLEAN : One(b) \in Int
    BY DEF One
  <1>3. /\ One(Stale(InHand, sending, accepted, r)) \in Int
        /\ One(Stale(C, S, a, r)) \in Int
        /\ One(Is(r, "sent") \/ Taken(sending, accepted, r) \/ Taken(S, a, r)) \in Int
    BY DEF One
  <1> QED
    BY <1>1, <1>3 DEF Excess

LEMMA BudgetStep ==
  ASSUME OwnInv, ProcessStep,
         NEW C, NEW S, NEW a, NEW t, NEW p, Foreign(C, S, t, p), Pair(C, t, p), t <= now,
         NEW r \in Reminders, Budget(r, C, S, a, t, p)
  PROVE  Budget(r, C, S, a, t, p)'
  <1> DEFINE E == Excess(r, C, S, a)
             mine == Claimable(pc, cyc, r) \/ Holds(InHand, r)
             theirs == Claimable(p, t, r) \/ Holds(C, r)
  <1>1. /\ now \in Nat /\ cyc \in Nat /\ cyc' \in Nat /\ cyc' >= cyc /\ now' = now /\ cyc' <= now
        /\ t \in Nat /\ slow \in Nat /\ slow' = slow /\ Lease \in Nat \ {0}
    BY CycleClock, SlowKept, OwnStep, StoreAssumption DEF OwnInv, TypeOK, Foreign
  <1>2. E \in Int /\ E' \in Int
    <2>1. E \in Int
      BY ExcessInt
    <2>2. E' \in Int
      <3>1. got'[r] \in Nat /\ rem'[r].retry \in Nat /\ faults' \in Nat
        <4>1. TypeOK'
          BY OwnStep DEF OwnInv
        <4>2. got'[r] \in Nat /\ rem'[r] \in Row /\ faults' \in Nat
          BY <4>1 DEF TypeOK, StoreTypeOK
        <4> QED BY <4>2 DEF Row
      <3>2. /\ One(Stale(InHand, sending, accepted, r))' \in Int
            /\ One(Stale(C, S, a, r))' \in Int
            /\ One(Is(r, "sent") \/ Taken(sending, accepted, r) \/ Taken(S, a, r))' \in Int
        BY DEF One
      <3> QED BY <3>1, <3>2 DEF Excess
    <2> QED BY <2>1, <2>2
  <1>3. E <= slow /\ (mine => E <= slow - (now - cyc)) /\ (theirs => E <= slow - (now - t))
    BY DEF Budget
  <1>4. rem[r].retry \in Nat
    BY DEF OwnInv, TypeOK, StoreTypeOK, Row
  <1>5. mine' => (cyc' = now \/ (cyc' = cyc /\ mine))
    <2>1. Claimable(pc, cyc, r)' => cyc' = now \/ (Claimable(pc, cyc, r) /\ cyc' = cyc)
      BY CycleClock, ClaimableStays
    <2> QED BY <2>1, HoldsStays
  <1>6. Holds(C, r)' => Holds(C, r)
    BY ForeignKept, ForeignMoved
  <1>7. theirs' => theirs \/ (Holds(InHand, r) /\ cyc < t)
    <2>1. Fails(r) => Holds(InHand, r)
      BY DEF Fails, LetsGo, Holds
    <2> QED BY <1>1, <1>6, <2>1, ClaimableElsewhere
  <1>8. CASE E' <= E
    <2> HIDE DEF E, mine, theirs
    <2>1. mine' => E' <= slow' - (now' - cyc')
      <3> SUFFICES ASSUME mine' PROVE E' <= slow' - (now' - cyc')
        OBVIOUS
      <3>1. CASE cyc' = now
        BY <1>1, <1>2, <1>3, <1>8, <3>1
      <3>2. CASE cyc' = cyc /\ mine
        <4>1. E <= slow - (now - cyc)
          BY <1>3, <3>2
        <4> QED BY <1>1, <1>2, <1>8, <3>2, <4>1
      <3> QED BY <1>5, <3>1, <3>2
    <2>2. Holds(InHand, r) => mine
      BY DEF mine
    <2>3. theirs' => E' <= slow' - (now' - t)
      BY <1>1, <1>2, <1>3, <1>7, <1>8, <2>2
    <2>4. E' <= slow'
      BY <1>1, <1>2, <1>3, <1>8
    <2> QED BY <2>1, <2>3, <2>4 DEF Budget, E, mine, theirs
  <1>9. CASE E' <= E + 1 /\ LosesForeign(r, C, t)
    <2>1. Requeues(r) /\ Holds(C, r) /\ ~Holds(C, r)' /\ cyc >= t + Lease
      BY <1>9 DEF LosesForeign
    <2>2. ~Fails(r)
      BY <2>1 DEF Requeues, Fails, LetsGo, OwnInv, HandsInOrder, HandsOfPhase
    <2>3. ~theirs'
      BY <1>1, <2>1, <2>2, ClaimableElsewhere, HeldNotClaimable
    <2>4. theirs
      BY <2>1
    <2> HIDE DEF E, mine, theirs
    <2>5. E' <= slow' /\ E' <= slow' - (now' - cyc')
      <3>1. E <= slow - (now - t)
        BY <1>3, <2>4
      <3>2. E' <= E + 1
        BY <1>9
      <3>3. cyc >= t + Lease
        BY <2>1
      <3>4. E' <= slow - (now - cyc)
        BY <1>1, <1>2, <3>1, <3>2, <3>3
      <3>5. cyc <= now
        BY <1>1
      <3>6. E' <= slow
        BY <1>1, <1>2, <3>4, <3>5
      <3>7. E' <= slow - (now - cyc')
        <4> DEFINE later == cyc'
        <4>1. later \in Nat /\ later >= cyc
          BY <1>1
        <4> HIDE DEF later
        <4>2. E' <= slow - (now - later)
          BY <1>1, <1>2, <3>4, <4>1
        <4> QED BY <4>2 DEF later
      <3> QED BY <1>1, <3>6, <3>7
    <2> QED BY <2>3, <2>5 DEF Budget, E, mine, theirs
  <1>10. CASE E' <= E + 1 /\ LosesSummary(r, t)
    <2>1. Holds(InHand, r) /\ ~Holds(InHand, r)' /\ t >= cyc + Lease /\ cyc' = cyc
      BY <1>10 DEF LosesSummary
    <2>2. mine' => cyc' = now
      BY <2>1, ClaimableStays, HeldNotClaimable, OwnIsForeign
    <2>3. mine
      BY <2>1
    <2> HIDE DEF E, mine, theirs
    <2>4. E' <= slow' /\ E' <= slow' - (now' - t)
      BY <1>1, <1>2, <1>3, <1>10, <2>1, <2>3
    <2>5. mine' => E' <= slow' - (now' - cyc')
      BY <1>1, <2>2, <2>4
    <2> QED BY <2>4, <2>5 DEF Budget, E, mine, theirs
  <1>11. E' <= E \/ (E' <= E + 1 /\ LosesForeign(r, C, t)) \/ (E' <= E + 1 /\ LosesSummary(r, t))
    <2>1. CASE rem'[r] = rem[r]
      BY <1>4, <2>1, ExcessKept
    <2>2. CASE rem'[r] # rem[r]
      BY <1>4, <2>2, ExcessMoved
    <2> QED BY <2>1, <2>2
  <1> QED
    BY <1>8, <1>9, <1>10, <1>11

-----------------------------------------------------------------------------
(* The rest of what is said of the table, and the steps of neither process. *)

(* A row that does not exist yet has no attempts; one that is sent had a    *)
(* message taken for it.                                                    *)
NoneUnused == \A r \in Reminders : Is(r, "none") => rem[r].retry = 0
SentTaken == \A r \in Reminders : Is(r, "sent") => got[r] > 0

LEMMA TableStep ==
  ASSUME OwnInv, ProcessStep, NoneUnused, SentTaken
  PROVE  /\ NoneUnused' /\ SentTaken' /\ StoreTypeOK' /\ now' = now
         /\ faults' \in Nat /\ slow' \in Nat /\ lost' \in [Reminders -> Nat]
         /\ got' \in [Reminders -> Nat] /\ \A r \in Reminders : got'[r] >= got[r]
  <1> USE DEF OwnInv
  <1>1. TypeOK'
    BY OwnStep
  <1>2. ASSUME NEW r \in Reminders
        PROVE  got'[r] >= got[r] /\ got[r] \in Nat /\ got'[r] \in Nat
    <2>1. got[r] \in Nat /\ got'[r] \in Nat
      BY <1>1 DEF TypeOK
    <2>2. TelegramAccepts => got'[r] = got[r] + 1 \/ got'[r] = got[r]
      BY DEF TelegramAccepts, Count, TypeOK
    <2>3. got'[r] = got[r] + 1 => got'[r] >= got[r]
      BY <2>1
    <2> QED BY <2>1, <2>2, <2>3, CountsMove
  <1>3. NoneUnused'
    <2> SUFFICES ASSUME NEW r \in Reminders, Is(r, "none")' PROVE rem'[r].retry = 0
      BY DEF NoneUnused
    <2>1. rem'[r] = rem[r]
      BY StepRow DEF Requeues, Claims, Expires, Cancels, Answers, Fails, Is
    <2> QED BY <2>1 DEF NoneUnused, Is
  <1>4. SentTaken'
    <2> SUFFICES ASSUME NEW r \in Reminders, Is(r, "sent")' PROVE got'[r] > 0
      BY DEF SentTaken
    <2>1. CASE rem'[r] = rem[r]
      <3>1. got[r] > 0
        BY <2>1 DEF SentTaken, Is
      <3> QED BY <1>2, <3>1
    <2>2. CASE rem'[r] # rem[r]
      <3>1. Answers(r)
        BY <2>2, StepRow DEF Requeues, Claims, Expires, Cancels, Fails, Is
      <3>2. got[r] > 0
        BY <3>1 DEF Answers, Ids
      <3> QED BY <1>2, <3>2
    <2> QED BY <2>1, <2>2
  <1> QED
    BY <1>1, <1>2, <1>3, <1>4, CycleClock DEF TypeOK

(* A process that takes no step keeps what it knows of itself.              *)
LEMMA OwnIdle ==
  ASSUME OwnInv, UNCHANGED <<pc, cyc, allowed, hands, accepted>>,
         StoreTypeOK', now' >= now, got' \in [Reminders -> Nat], lost' \in [Reminders -> Nat],
         faults' \in Nat, slow' \in Nat, \A r \in Reminders : got'[r] >= got[r]
  PROVE  OwnInv'
  <1> USE DEF OwnInv, hands
  <1>1. now \in Nat /\ now' \in Nat /\ cyc \in 0..now
    BY DEF TypeOK, StoreTypeOK
  <1>2. cyc \in 0..now'
    BY <1>1
  <1>3. TypeOK'
    BY <1>2 DEF TypeOK
  <1>4. HandsInOrder' /\ InHand' = InHand
    BY DEF HandsInOrder, ClaimsDisjoint, HandsOfPhase, InHand
  <1>5. Ages(InHand, cyc, pc)' /\ Shape(sending)'
    BY <1>4 DEF Ages, Shape
  <1>6. accepted => \A c \in sending : got'[c.id] > 0
    <2> SUFFICES ASSUME accepted, NEW c \in sending PROVE got'[c.id] > 0
      OBVIOUS
    <2>1. c.id \in Reminders
      BY DEF TypeOK, Claim
    <2>2. got[c.id] > 0 /\ got'[c.id] >= got[c.id] /\ got[c.id] \in Nat /\ got'[c.id] \in Nat
      BY <2>1 DEF TypeOK
    <2> QED BY <2>2
  <1> QED
    BY <1>3, <1>4, <1>5, <1>6

(* Commands create a row or cancel a pending one.                           *)
LEMMA CommandRow ==
  ASSUME StoreTypeOK, UserCommand, NEW r \in Reminders
  PROVE  rem'[r] = rem[r] \/ Created(r) \/ Cancelled(r)
  <1>1. now \in Nat /\ "cancelled" \in ActiveStatus \cup TerminalStatus
    BY DEF StoreTypeOK, TerminalStatus
  <1>2. ASSUME NEW Q \in SUBSET Reminders, \A q \in Q : Is(q, "pending"), SetStatus(Q, "cancelled", now)
        PROVE  rem'[r] = rem[r] \/ Cancelled(r)
    BY <1>1, <1>2, SetStatusMoves DEF Cancelled, Is
  <1>3. ASSUME NEW q \in Reminders, CreateReminder(q)
        PROVE  rem'[r] = rem[r] \/ Created(r)
    BY <1>3 DEF CreateReminder, Created, Is, StoreTypeOK
  <1>4. ASSUME NEW q \in Reminders, CancelPendingReminder(q)
        PROVE  rem'[r] = rem[r] \/ Cancelled(r)
    <2>1. {q} \in SUBSET Reminders /\ \A x \in {q} : Is(x, "pending")
      BY <1>4 DEF CancelPendingReminder
    <2> QED BY <1>2, <1>4, <2>1 DEF CancelPendingReminder
  <1>5. ASSUME NEW t \in Tasks, CompleteTask(t) \/ SoftDeleteTask(t) \/ CancelAllFuturePending(t)
        PROVE  rem'[r] = rem[r] \/ Cancelled(r)
    <2>1. FuturePending(t) \in SUBSET Reminders /\ \A x \in FuturePending(t) : Is(x, "pending")
      BY DEF FuturePending
    <2> QED BY <1>2, <1>5, <2>1 DEF CompleteTask, SoftDeleteTask, CancelAllFuturePending
  <1>6. ASSUME NEW t \in Tasks, ReopenTask(t) PROVE rem'[r] = rem[r]
    BY <1>6 DEF ReopenTask
  <1>7. ASSUME NEW t \in Tasks, NEW Q \in SUBSET Reminders, CancelSelectedPendingReminders(t, Q)
        PROVE  rem'[r] = rem[r] \/ Cancelled(r)
    BY <1>2, <1>7 DEF CancelSelectedPendingReminders
  <1> QED
    BY <1>3, <1>4, <1>5, <1>6, <1>7 DEF UserCommand

(* So they change no lease, and nothing that the accounts read.             *)
LEMMA CommandStep ==
  ASSUME OwnInv, NoneUnused, SentTaken,
         UserCommand, UNCHANGED <<pc, cyc, allowed, hands, accepted, history, bounds>>,
         NEW C, NEW S, NEW a, NEW t, NEW p, Foreign(C, S, t, p), Pair(C, t, p)
  PROVE  /\ StoreTypeOK' /\ NoneUnused' /\ SentTaken' /\ now' = now
         /\ Pair(C, t, p)'
         /\ \A r \in Reminders : Budget(r, C, S, a, t, p) => Budget(r, C, S, a, t, p)'
  <1> USE DEF OwnInv
  <1>1. StoreTypeOK /\ StoreTypeOK' /\ now' = now
    <2>1. now' = now
      BY DEF UserCommand, CreateReminder, CancelPendingReminder, CompleteTask, ReopenTask, SoftDeleteTask,
         CancelAllFuturePending, CancelSelectedPendingReminders
    <2> QED BY <2>1, CommandMoves DEF TypeOK, Summary
  <1>2. InHand' = InHand /\ sending' = sending /\ got' = got /\ faults' = faults /\ slow' = slow
    BY DEF InHand, hands, history, bounds
  <1>3. ASSUME NEW r \in Reminders
        PROVE  /\ Is(r, "processing")' \/ Is(r, "processing") => rem'[r] = rem[r]
               /\ Is(r, "expired")' <=> Is(r, "expired")
               /\ Is(r, "sent")' <=> Is(r, "sent")
               /\ rem'[r].retry = rem[r].retry
               /\ rem[r].retry # 0 => rem'[r].last = rem[r].last
               /\ Is(r, "none")' => Is(r, "none")
    <2>1. CASE rem'[r] = rem[r]
      BY <2>1 DEF Is
    <2>2. CASE Created(r)
      BY <2>2 DEF Created, NoneUnused, Is
    <2>3. CASE Cancelled(r)
      BY <2>3 DEF Cancelled, Moves, Is
    <2> QED BY <1>1, <2>1, <2>2, <2>3, CommandRow
  <1>4. ASSUME NEW c \in Claim
        PROVE  (HoldsLease(c)' <=> HoldsLease(c)) /\ (Is(c.id, "expired")' <=> Is(c.id, "expired"))
    <2>1. c.id \in Reminders
      BY DEF Claim
    <2> QED BY <1>3, <2>1 DEF HoldsLease, Is
  <1>5. InHand \subseteq Claim /\ sending \subseteq Claim /\ C \subseteq Claim /\ S \subseteq Claim
    BY DEF TypeOK, InHand, Foreign
  <1>6. Pair(C, t, p)'
    <2>1. Fenced(InHand, cyc, pc, t)'
      BY <1>2, <1>4, <1>5 DEF Pair, Fenced
    <2>2. Fenced(C, t, p, cyc)'
      BY <1>4, <1>5 DEF Pair, Fenced
    <2>3. Apart(InHand, C)'
      BY <1>2, <1>4, <1>5 DEF Pair, Apart
    <2> QED BY <2>1, <2>2, <2>3 DEF Pair
  <1>7. ASSUME NEW r \in Reminders
        PROVE  /\ Excess(r, C, S, a)' = Excess(r, C, S, a)
               /\ Claimable(pc, cyc, r)' <=> Claimable(pc, cyc, r)
               /\ Claimable(p, t, r)' <=> Claimable(p, t, r)
               /\ Holds(InHand, r)' <=> Holds(InHand, r)
               /\ Holds(C, r)' <=> Holds(C, r)
    <2>1. /\ Stale(InHand, sending, accepted, r)' <=> Stale(InHand, sending, accepted, r)
          /\ Taken(sending, accepted, r)' <=> Taken(sending, accepted, r)
          /\ Holds(InHand, r)' <=> Holds(InHand, r)
      BY <1>2, <1>4, <1>5 DEF Stale, Taken, Holds
    <2>2. /\ Stale(C, S, a, r)' <=> Stale(C, S, a, r)
          /\ Taken(S, a, r)' <=> Taken(S, a, r)
          /\ Holds(C, r)' <=> Holds(C, r)
      BY <1>4, <1>5 DEF Stale, Taken, Holds
    <2>3. Excess(r, C, S, a)' = Excess(r, C, S, a)
      <3>1. /\ One(Stale(InHand, sending, accepted, r))' = One(Stale(InHand, sending, accepted, r))
            /\ One(Stale(C, S, a, r))' = One(Stale(C, S, a, r))
            /\ One(Is(r, "sent") \/ Taken(sending, accepted, r) \/ Taken(S, a, r))'
                 = One(Is(r, "sent") \/ Taken(sending, accepted, r) \/ Taken(S, a, r))
        BY <1>3, <2>1, <2>2 DEF One
      <3> QED BY <1>2, <1>3, <3>1 DEF Excess
    <2>4. \A q, u : Claimable(q, u, r)' <=> Claimable(q, u, r)
      BY <1>3 DEF Claimable, RetryDue
    <2> QED BY <2>1, <2>2, <2>3, <2>4 DEF Claimable
  <1>8. NoneUnused' /\ SentTaken'
    BY <1>2, <1>3 DEF NoneUnused, SentTaken
  <1>9. ASSUME NEW r \in Reminders, Budget(r, C, S, a, t, p)
        PROVE  Budget(r, C, S, a, t, p)'
    BY <1>1, <1>2, <1>7, <1>9 DEF Budget
  <1> QED
    BY <1>1, <1>6, <1>8, <1>9

(* Time passes: with slow, unless both processes rest.                      *)
LEMMA ClockStep ==
  ASSUME OwnInv, NoneUnused, SentTaken,
         Tick, UNCHANGED <<pc, cyc, allowed, hands, accepted, history, faults>>,
         NEW C, NEW S, NEW a, NEW t, NEW p, Foreign(C, S, t, p), Pair(C, t, p),
         \/ slow' = slow /\ pc \in {"off", "sleep"} /\ p \in {"off", "sleep"}
         \/ slow' = slow + 1
  PROVE  /\ StoreTypeOK' /\ NoneUnused' /\ SentTaken' /\ now' = now + 1 /\ now' >= now /\ slow' \in Nat
         /\ Pair(C, t, p)'
         /\ \A r \in Reminders : Budget(r, C, S, a, t, p) => Budget(r, C, S, a, t, p)'
  <1> USE DEF OwnInv
  <1>1. /\ now \in Nat /\ cyc \in Nat /\ slow \in Nat /\ t \in Nat /\ now' = now + 1
        /\ rem' = rem /\ task' = task
    BY DEF TypeOK, StoreTypeOK, Foreign, Tick
  <1>2. StoreTypeOK'
    BY <1>1 DEF TypeOK, StoreTypeOK
  <1>3. InHand' = InHand /\ UNCHANGED <<pc, cyc, sending, accepted, got, faults, rem>>
    BY <1>1 DEF InHand, hands, history
  <1>4. NoneUnused' /\ SentTaken'
    BY <1>3 DEF NoneUnused, SentTaken, Is
  <1>5. Pair(C, t, p)'
    BY <1>3 DEF Pair, Fenced, Apart, HoldsLease, Is
  <1>6. ASSUME NEW r \in Reminders, Budget(r, C, S, a, t, p)
        PROVE  Budget(r, C, S, a, t, p)'
    <2> DEFINE E == Excess(r, C, S, a)
    <2>1. E' = E
      BY <1>3 DEF Excess, One, Stale, Taken, HoldsLease, Is
    <2>2. /\ Claimable(pc, cyc, r)' <=> Claimable(pc, cyc, r)
          /\ Claimable(p, t, r)' <=> Claimable(p, t, r)
          /\ Holds(InHand, r)' <=> Holds(InHand, r)
          /\ Holds(C, r)' <=> Holds(C, r)
      BY <1>3 DEF Claimable, RetryDue, Holds, HoldsLease, Is
    <2>3. E \in Int
      BY ExcessInt
    <2>4. CASE slow' = slow + 1
      <3>1. slow' - (now' - cyc') = slow - (now - cyc) /\ slow' - (now' - t) = slow - (now - t)
        BY <1>1, <1>3, <2>4
      <3>2. E <= slow => E <= slow'
        BY <1>1, <2>3, <2>4
      <3> QED BY <1>6, <2>1, <2>2, <3>1, <3>2 DEF Budget
    <2>5. CASE slow' = slow /\ pc \in {"off", "sleep"} /\ p \in {"off", "sleep"}
      <3>1. ~Claimable(pc, cyc, r) /\ ~Claimable(p, t, r)
        BY <2>5 DEF Claimable
      <3>2. InHand = {} /\ C = {}
        BY <2>5 DEF HandsInOrder, HandsOfPhase, Foreign, Delivering
      <3>3. ~Holds(InHand, r) /\ ~Holds(C, r)
        BY <3>2 DEF Holds
      <3> QED BY <1>6, <2>1, <2>2, <2>5, <3>1, <3>3 DEF Budget
    <2> QED BY <2>4, <2>5
  <1>7. now' >= now /\ slow' \in Nat
    BY <1>1
  <1> QED
    BY <1>1, <1>2, <1>4, <1>5, <1>6, <1>7

(* The routes and the messages of the process do not depend on its leases.  *)
LEMMA OwnRoute ==
  ASSUME OwnInv, RouteInv, ProcessStep
  PROVE  RouteInv'
  <1>1. [Next]_vars
    BY DEF Next, ProcessStep
  <1>2. FirstTries
    <2>1. \A c \in queue : c \in InHand /\ c.retry \in 0..3
      BY DEF OwnInv, TypeOK, Claim, InHand
    <2> QED BY <2>1 DEF OwnInv, Ages, FirstTries
  <1> QED BY <1>1, <1>2, RouteStep

LEMMA RouteIdle ==
  ASSUME RouteInv, OwnInv', UNCHANGED <<pc, cyc, allowed, hands, accepted>>
  PROVE  RouteInv'
  <1> USE DEF hands
  <1>1. TypeOK' /\ HandsInOrder'
    BY DEF OwnInv
  <1>2. GroupInv'
    BY DEF RouteInv, GroupInv, Recipient
  <1>3. AgeInv'
    BY DEF RouteInv, AgeInv, Fresh, FoundMissed
  <1>4. MessageInv'
    BY DEF RouteInv, MessageInv, Fresh, FoundMissed, Recipient, IsSummary
  <1> QED BY <1>1, <1>2, <1>3, <1>4 DEF RouteInv

=============================================================================
