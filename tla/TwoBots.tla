------------------------------- MODULE TwoBots -------------------------------
(***************************************************************************)
(* Two bot processes on one database, as while a container is replaced or  *)
(* when a second one is started by mistake: two instances of ReminderCycle *)
(* share the tables and the bounds, and each has a cycle of its own.       *)
(*                                                                         *)
(* What one process has to fear alone here comes from the other: a claim   *)
(* whose send outlasts the lease is requeued and claimed by the other      *)
(* process while the first still has it in hand.  The types are those of   *)
(* ReminderCycle, once for each process.                                   *)
(***************************************************************************)
EXTENDS ReminderStore

CONSTANTS AllowLists, MaxFaults, MaxSlow, LastCommand

ASSUME TwoBotsAssumption ==
  /\ AllowLists # {}
  /\ SummaryMin >= 2
  /\ MaxFaults \in Nat /\ MaxSlow \in Nat /\ LastCommand \in Nat

VARIABLES
  pcA, cycA, allowedA, queueA, lateA, groupA, readyA, sendingA, acceptedA,
  pcB, cycB, allowedB, queueB, lateB, groupB, readyB, sendingB, acceptedB,
  got, lost, faults, slow

botA == <<pcA, cycA, allowedA, queueA, lateA, groupA, readyA, sendingA, acceptedA>>
botB == <<pcB, cycB, allowedB, queueB, lateB, groupB, readyB, sendingB, acceptedB>>
shared == <<storeVars, got, lost, faults, slow>>
vars == <<shared, botA, botB>>

A == INSTANCE ReminderCycle
  WITH pc <- pcA, cyc <- cycA, allowed <- allowedA, queue <- queueA, late <- lateA,
       group <- groupA, ready <- readyA, sending <- sendingA, accepted <- acceptedA
B == INSTANCE ReminderCycle
  WITH pc <- pcB, cyc <- cycB, allowed <- allowedB, queue <- queueB, late <- lateB,
       group <- groupB, ready <- readyB, sending <- sendingB, accepted <- acceptedB

Init == A!Init /\ B!Init

-----------------------------------------------------------------------------
(* A step of one process leaves the other alone.                            *)

Process1 == A!StartBot \/ A!CycleStep \/ A!TelegramAccepts \/ A!Stop
Process2 == B!StartBot \/ B!CycleStep \/ B!TelegramAccepts \/ B!Stop

(* A command reaches the process that polls Telegram while it is in no      *)
(* transaction of its own.                                                  *)
Command == (A!Command /\ UNCHANGED botB) \/ (B!Command /\ UNCHANGED botA)

(* Time passes; MaxSlow bounds how often it does while a cycle is under     *)
(* way, in a send above all.                                                *)
AtRest == pcA \in {"off", "sleep"} /\ pcB \in {"off", "sleep"}
Clock ==
  /\ Tick
  /\ IF AtRest THEN UNCHANGED slow ELSE slow < MaxSlow /\ slow' = slow + 1
  /\ UNCHANGED <<botA, botB, got, lost, faults>>

TimeIsUp == now = MaxTime /\ AtRest /\ UNCHANGED vars

Next ==
  \/ Process1 /\ UNCHANGED botB
  \/ Process2 /\ UNCHANGED botA
  \/ Command \/ Clock \/ TimeIsUp

Spec == Init /\ [][Next]_vars

-----------------------------------------------------------------------------
(* Properties.                                                              *)

(* The lease test of the recording transactions fences: when both processes *)
(* have a reminder in hand, at most one of them can still record a result,  *)
(* although updated_at is all that tells one lease from the next.           *)
OneLeaseHolder == \A c \in A!InHand, d \in B!InHand :
  c.id = d.id => ~(HoldsLease(c) /\ HoldsLease(d))

(* Beyond one message for each attempt and each fault a reminder is told    *)
(* again at most once for every tick of the clock during a cycle, whether   *)
(* or not that tick ends a lease.  And a process that lost its lease marks  *)
(* nothing: a row is sent only when a message was taken.                    *)
InFlight(r) == (acceptedA /\ r \in Ids(sendingA)) \/ (acceptedB /\ r \in Ids(sendingB))

DuplicatesBounded == \A r \in Reminders :
  /\ got[r] <= rem[r].retry + faults + slow + (IF Is(r, "sent") \/ InFlight(r) THEN 1 ELSE 0)
  /\ Is(r, "sent") => got[r] > 0
=============================================================================
