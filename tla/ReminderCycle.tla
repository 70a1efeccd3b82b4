--------------------------- MODULE ReminderCycle ---------------------------
(***************************************************************************)
(* One bot process: the scheduler loop (scheduler/runner.py) running one   *)
(* reminder cycle at a time and delivering over Telegram                   *)
(* (telegram/reminder_delivery.py), with the commands of telegram/bot.py   *)
(* changing the same tables in between.                                    *)
(*                                                                         *)
(* A step is one transaction, or one await of send_message.  Cycle and     *)
(* commands share one asyncio event loop and their database calls do not   *)
(* await, so a command runs only while the cycle sleeps or is in a send.   *)
(* The process may stop anywhere, losing everything but the tables.        *)
(***************************************************************************)
EXTENDS ReminderStore

CONSTANTS
  AllowLists,   \* the values TELEGRAM_ALLOWED_USER_IDS may have at a start
  MaxFaults,    \* bound on stops and database errors
  MaxSlow,      \* bound on ticks that pass before the cycle of the tick is over
  LastCommand   \* bound on the time of the last command

ASSUME CycleAssumption ==
  /\ AllowLists # {}
  /\ SummaryMin >= 2
  /\ MaxFaults \in Nat /\ MaxSlow \in Nat /\ LastCommand \in Nat

VARIABLES
  pc,        \* where the cycle is; "off" when no process runs
  cyc,       \* cycle_time, the clock of the cycle's start
  allowed,   \* allowed_telegram_user_ids of this process
  queue,     \* claims to deliver one by one
  late,      \* missed claims whose owner's turn has not come
  group,     \* missed claims of one owner, still to preflight
  ready,     \* ready_reminders: those of the owner that passed
  sending,   \* claims of the send_message awaited now: one, or a summary
  accepted,  \* did Telegram take that message
  got,       \* history: messages Telegram took, per reminder
  lost,      \* history: of those, how many were never recorded as sent
  faults, slow

hands == <<queue, late, group, ready, sending>>
history == <<got, lost>>
bounds == <<faults, slow>>
vars == <<storeVars, pc, cyc, allowed, hands, accepted, history, bounds>>

Phases == {"off", "start", "sleep", "recover", "claim", "triage", "normal",
           "missed", "retryclaim", "retry"}

TypeOK ==
  /\ StoreTypeOK
  /\ pc \in Phases /\ cyc \in 0..now /\ allowed \in AllowLists
  /\ \A C \in {queue, late, group, ready, sending} : C \subseteq Claim
  /\ accepted \in BOOLEAN
  /\ got \in [Reminders -> Nat] /\ lost \in [Reminders -> Nat]
  /\ faults \in Nat /\ slow \in Nat

Init ==
  /\ StoreInit
  /\ pc = "off" /\ cyc = 0 /\ allowed \in AllowLists
  /\ queue = {} /\ late = {} /\ group = {} /\ ready = {} /\ sending = {}
  /\ accepted = FALSE
  /\ got = [r \in Reminders |-> 0] /\ lost = [r \in Reminders |-> 0]
  /\ faults = 0 /\ slow = 0

(* The records of a claimed batch; claims are handled in the order of due.  *)
ClaimsOf(B, due) == {[id |-> r, retry |-> rem[r].retry, at |-> cyc, due |-> due[r]] : r \in B}

IsNext(c, C) == c \in C /\ \A d \in C : c.due < d.due \/ (c.due = d.due /\ c.id <= d.id)

Count(h, S) == [r \in Reminders |-> IF r \in S THEN h[r] + 1 ELSE h[r]]

Fault == faults < MaxFaults /\ faults' = faults + 1 /\ UNCHANGED slow

-----------------------------------------------------------------------------
(* The cycle up to the deliveries.                                          *)

StartBot ==
  /\ pc = "off"
  /\ pc' = "start" /\ allowed' \in AllowLists
  /\ UNCHANGED <<storeVars, cyc, hands, accepted, history, bounds>>

(* The first cycle at once, the next after the poll interval: the clocks of *)
(* two cycles of a process differ.                                          *)
BeginCycle ==
  /\ pc = "start" \/ (pc = "sleep" /\ cyc < now)
  /\ pc' = "recover" /\ cyc' = now
  /\ UNCHANGED <<storeVars, allowed, hands, accepted, history, bounds>>

RecoverLeases ==
  /\ pc = "recover"
  /\ \E B \in SUBSET Reminders : RecoverAbandoned(cyc, B)
  /\ pc' = "claim"
  /\ UNCHANGED <<cyc, allowed, hands, accepted, history, bounds>>

ClaimFirstAttempts ==
  /\ pc = "claim"
  /\ \E B \in SUBSET Reminders : ClaimDue(cyc, B) /\ queue' = ClaimsOf(B, SchedOf)
  /\ pc' = "triage"
  /\ UNCHANGED <<cyc, allowed, late, group, ready, sending, accepted, history, bounds>>

(* Claims found on time go to the normal route, missed ones to the missed   *)
(* route; every other claim is dropped, its row expired or left alone.      *)
TriageAllMissed ==
  /\ pc = "triage"
  /\ ApplyDowntimeRecovery(Ids(queue), cyc)
  /\ queue' = {}
  /\ late' = {c \in queue : c.id \notin Expired(Ids(queue), cyc)}
  /\ pc' = "normal"
  /\ UNCHANGED <<cyc, allowed, group, ready, sending, accepted, history, bounds>>
Triage ==
  /\ pc = "triage"
  /\ ApplyDowntimeRecovery(Ids(queue), cyc)
  /\ queue' = {c \in queue : c.id \in OnTime(Ids(queue), cyc)}
  /\ late' = {c \in queue : c.id \in Missed(Ids(queue), cyc)}
  /\ pc' = "normal"
  /\ UNCHANGED <<cyc, allowed, group, ready, sending, accepted, history, bounds>>

ClaimDueRetries ==
  /\ pc = "retryclaim"
  /\ \E B \in SUBSET Reminders :
       ClaimRetries(cyc, B) /\ queue' = ClaimsOf(B, [r \in Reminders |-> RetryDue(r)])
  /\ pc' = "retry"
  /\ UNCHANGED <<cyc, allowed, late, group, ready, sending, accepted, history, bounds>>

Idle == queue \cup group \cup ready \cup sending = {}

PhaseDoneFirstOwner ==
  /\ Idle
  /\ \/ pc = "normal" /\ pc' = "missed"
     \/ pc = "missed" /\ pc' = "retryclaim"
     \/ pc = "retry" /\ pc' = "sleep"
  /\ UNCHANGED <<storeVars, cyc, allowed, hands, accepted, history, bounds>>
PhaseDone ==
  /\ Idle
  /\ \/ pc = "normal" /\ pc' = "missed"
     \/ pc = "missed" /\ late = {} /\ pc' = "retryclaim"
     \/ pc = "retry" /\ pc' = "sleep"
  /\ UNCHANGED <<storeVars, cyc, allowed, hands, accepted, history, bounds>>

-----------------------------------------------------------------------------
(* Preflight, one transaction per claim, of the individual route (queue)    *)
(* and of the missed claims of one owner (group).                           *)

Recipient(c) == OwnerOf[TaskOf[c.id]]

(* prepare_claimed_reminder_delivery: the claim is still the row's lease    *)
(* and its task is active; then the recipient must be on the allowlist.     *)
EligibleAnyTask(c) == HoldsLease(c)
Eligible(c) == HoldsLease(c) /\ TaskActive(c.id)

Prepare(c) ==
  /\ pc \in {"normal", "missed", "retry"}
  /\ sending = {}
  /\ IsNext(c, queue \cup group)
  /\ queue' = queue \ {c} /\ group' = group \ {c}
  /\ UNCHANGED <<pc, cyc, allowed, late, accepted, history>>

(* A claim of the individual route is sent, one of a group waits.           *)
PreflightReady(c) ==
  /\ Prepare(c)
  /\ Eligible(c) /\ Recipient(c) \in allowed
  /\ IF c \in group
       THEN ready' = ready \cup {c} /\ UNCHANGED sending
       ELSE sending' = {c} /\ UNCHANGED ready
  /\ UNCHANGED <<storeVars, bounds>>

PreflightSkips(c) ==
  /\ Prepare(c)
  /\ ~Eligible(c)
  /\ UNCHANGED <<storeVars, ready, sending, bounds>>

PreflightCancelsAnyTask(c) ==
  /\ Prepare(c)
  /\ Recipient(c) \notin allowed
  /\ SetStatus({c.id}, "cancelled", cyc)
  /\ UNCHANGED <<now, task, ready, sending, bounds>>
PreflightCancels(c) ==
  /\ Prepare(c)
  /\ Recipient(c) \notin allowed
  /\ CancelDisallowedRecipient(c, cyc)
  /\ UNCHANGED <<ready, sending, bounds>>

PreflightFails(c) ==
  /\ Prepare(c)
  /\ Fault
  /\ UNCHANGED <<storeVars, ready, sending>>

(* deliver_missed_reminders: the owner of the first claim is next; its      *)
(* ready reminders go into one summary, or singly when they are few.        *)
SameOwnerAny(c) == late
SameOwner(c) == {d \in late : Recipient(d) = Recipient(c)}

GroupMissed ==
  /\ pc = "missed" /\ Idle
  /\ \E c \in late : IsNext(c, late) /\ group' = SameOwner(c) /\ late' = late \ SameOwner(c)
  /\ UNCHANGED <<storeVars, pc, cyc, allowed, queue, ready, sending, accepted, history, bounds>>

SendGroup ==
  /\ group = {} /\ ready # {}
  /\ ready' = {}
  /\ IF Cardinality(ready) >= SummaryMin
       THEN sending' = ready /\ UNCHANGED queue
       ELSE queue' = ready /\ UNCHANGED sending
  /\ UNCHANGED <<storeVars, pc, cyc, allowed, late, group, accepted, history, bounds>>

-----------------------------------------------------------------------------
(* The await of send_message.  Telegram may take the message whether or not *)
(* the answer makes it back; the request timeout ends every wait.  A        *)
(* message taken after that timeout counts as taken within the await.       *)

TelegramAccepts ==
  /\ sending # {} /\ ~accepted
  /\ accepted' = TRUE /\ got' = Count(got, Ids(sending))
  /\ UNCHANGED <<storeVars, pc, cyc, allowed, hands, lost, bounds>>

IsSummary == Cardinality(sending) >= SummaryMin

LeasesHeld == \A c \in sending : HoldsLease(c)

EndSend ==
  /\ sending # {}
  /\ sending' = {} /\ accepted' = FALSE
  /\ UNCHANGED <<pc, cyc, allowed, queue, late, group, ready, got>>

MessageLost == lost' = IF accepted THEN Count(lost, Ids(sending)) ELSE lost

(* record_claimed_reminder_sent, or its summary form; a lease that is gone  *)
(* raises and nothing is recorded.                                          *)
SendSucceeds ==
  /\ EndSend /\ accepted
  /\ IF LeasesHeld
       THEN /\ IF IsSummary THEN RecordSummarySent(sending, cyc)
                            ELSE \E c \in sending : RecordSent(c, cyc)
            /\ UNCHANGED lost
       ELSE UNCHANGED storeVars /\ MessageLost
  /\ UNCHANGED bounds

(* An exception: a refusal, a network error, or a timeout after which       *)
(* Telegram may have taken the message all the same.                        *)
SendFails ==
  /\ EndSend /\ MessageLost
  /\ IF LeasesHeld
       THEN IF IsSummary THEN RecordSummaryFailure(sending, cyc)
                         ELSE \E c \in sending : RecordFailure(c, cyc)
       ELSE UNCHANGED storeVars
  /\ UNCHANGED bounds

-----------------------------------------------------------------------------
(* Faults.                                                                  *)

(* The transaction that records a result fails: RESULT_PERSISTENCE_ERROR.   *)
ResultNotRecorded ==
  /\ EndSend /\ MessageLost /\ Fault
  /\ UNCHANGED storeVars

(* An exception out of a scheduler transaction ends the cycle.              *)
CycleFails ==
  /\ pc \in {"recover", "claim", "triage", "retryclaim"}
  /\ pc' = "sleep" /\ queue' = {} /\ Fault
  /\ UNCHANGED <<storeVars, cyc, allowed, late, group, ready, sending, accepted, history>>

(* The process dies, or post_stop cancels the coroutine in its await.       *)
Stop ==
  /\ pc # "off"
  /\ pc' = "off"
  /\ queue' = {} /\ late' = {} /\ group' = {} /\ ready' = {} /\ sending' = {}
  /\ accepted' = FALSE
  /\ MessageLost /\ Fault
  /\ UNCHANGED <<storeVars, cyc, allowed, got>>

-----------------------------------------------------------------------------
(* Time and commands.                                                       *)

Environment(A) == A /\ UNCHANGED <<pc, cyc, allowed, hands, accepted, history>>

(* Time passes; MaxSlow bounds how far it runs ahead of the cycles.         *)
Clock ==
  /\ Environment(Tick) /\ UNCHANGED faults
  /\ IF pc = "sleep" /\ cyc = now THEN UNCHANGED slow ELSE slow < MaxSlow /\ slow' = slow + 1

Command ==
  /\ pc \in {"start", "sleep"} \/ sending # {}
  /\ now <= LastCommand
  /\ Environment(UserCommand) /\ UNCHANGED bounds

-----------------------------------------------------------------------------
CycleStep ==
  \/ BeginCycle \/ RecoverLeases \/ ClaimFirstAttempts \/ Triage \/ ClaimDueRetries
  \/ PhaseDone \/ GroupMissed \/ SendGroup
  \/ \E c \in queue \cup group :
       PreflightReady(c) \/ PreflightSkips(c) \/ PreflightCancels(c) \/ PreflightFails(c)
  \/ SendSucceeds \/ SendFails \/ ResultNotRecorded \/ CycleFails

(* The end of the bounded clock, so that any other halt is a deadlock.      *)
TimeIsUp == now = MaxTime /\ pc = "sleep" /\ cyc = now /\ UNCHANGED vars

Next ==
  \/ StartBot \/ CycleStep \/ TelegramAccepts \/ Stop
  \/ Clock \/ Command \/ TimeIsUp

Spec == Init /\ [][Next]_vars

(* The event loop runs every task that is ready and the request timeout     *)
(* ends every await; "restart: unless-stopped" starts the bot again; time   *)
(* passes.  Commands, Telegram and faults are free to happen or not.        *)
FairSpec == Spec /\ WF_vars(CycleStep) /\ WF_vars(StartBot) /\ WF_vars(Clock)

-----------------------------------------------------------------------------
(* Properties.                                                              *)

InHand == queue \cup late \cup group \cup ready \cup sending

(* The process never works on a claim it has lost: through every await,     *)
(* command, crash and recovery each claim in hand is still the row's lease, *)
(* so the lease tests of the recording transactions pass.                   *)
ClaimsHeld == \A c \in InHand : HoldsLease(c)

(* The claims a process may work on: no reminder is in two of its hands, so *)
(* one cycle cannot send it twice, and a phase leaves no claim behind for   *)
(* the next to miss.                                                        *)
ClaimsDisjoint ==
  /\ \A c, d \in InHand : c.id = d.id => c = d
  /\ queue \cap (late \cup group \cup ready \cup sending) = {}
  /\ late \cap (group \cup ready \cup sending) = {}
  /\ group \cap (ready \cup sending) = {}
  /\ ready \cap sending = {}

HandsOfPhase ==
  /\ pc \in {"off", "start", "sleep", "recover", "claim", "retryclaim"} => InHand = {}
  /\ pc = "triage" => late \cup group \cup ready \cup sending = {}
  /\ pc = "normal" => group \cup ready = {}
  /\ pc = "retry" => late \cup group \cup ready = {}

HandsInOrder == ClaimsDisjoint /\ HandsOfPhase

(* Telegram took a reminder once if it is sent, and once more for every     *)
(* time the result did not reach the table: no other duplicate, no row      *)
(* marked sent that nobody received.                                        *)
DeliveriesAccounted == \A r \in Reminders :
  got[r] = lost[r] + (IF Is(r, "sent") THEN 1 ELSE 0)
                   + (IF accepted /\ r \in Ids(sending) THEN 1 ELSE 0)

(* A message whose result was lost costs an attempt or a fault, so a user   *)
(* sees a reminder at most 4 + faults times.                                *)
DuplicatesBounded == \A r \in Reminders : lost[r] <= rem[r].retry + faults

(* A message in flight has one recipient, and one the allowlist names.      *)
OneAllowedRecipient == \A c, d \in sending :
  Recipient(c) = Recipient(d) /\ Recipient(c) \in allowed

(* The process keeps the promise of ReminderPromise: Telegram never takes a *)
(* message for a reminder that is not under way (a cancelled or settled one *)
(* is silent), and "sent" means that someone got it.                        *)
Promise == INSTANCE ReminderPromise
  WITH life <- [r \in Reminders |-> rem[r].status], told <- got
PromiseKept == Promise!Spec

(* Once /done or /delete has answered no new message starts for that task,  *)
(* though claims of its reminders are still in hand.                        *)
NoMessageForInactiveTask ==
  [][sending = {} => \A c \in sending' : TaskActive(c.id)]_vars

(* A first attempt, whatever crash or stop delayed it, is never sent in a   *)
(* cycle that starts ExpireAfter or more behind its schedule, and a summary *)
(* holds first attempts only, none of them within MissedAfter.              *)
NoStaleFirstAttempt == \A c \in sending :
  /\ c.retry = 0 => cyc - SchedOf[c.id] < ExpireAfter
  /\ IsSummary => c.retry = 0 /\ cyc - SchedOf[c.id] > MissedAfter

(* The process only does what the table's contract allows, so what is       *)
(* proved of ReminderStore holds of it.                                     *)
UsesStore == StoreSpec

(* A claimed row does not stay claimed: a delivery, or after a crash the    *)
(* lease recovery, releases it, task active or not.                         *)
LeaseReleased == \A r \in Reminders : Is(r, "processing") ~> ~Is(r, "processing")

(* "retry_count: count of delivery attempts already made"                   *)
(* (docs/Database-diagram.md): a waiting reminder counts at least every     *)
(* attempt that reached Telegram.                                           *)
RetryCountCountsAttempts == \A r \in Reminders : Is(r, "pending") => got[r] <= rem[r].retry

(* A reminder of a task that stays active ends: sent, failed, cancelled or  *)
(* expired.                                                                 *)
EventuallySettled == \A r \in Reminders :
  rem[r].status \in ActiveStatus ~> rem[r].status \in TerminalStatus \/ ~TaskActive(r)
=============================================================================
