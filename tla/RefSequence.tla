----------------------------- MODULE RefSequence -----------------------------
(***************************************************************************)
(* The public references of one owner's items of one type when several     *)
(* processes create items at once.  allocate_ref (persistence/refs.py)     *)
(* reads the sequence and then writes it: sqlite3 opens the transaction    *)
(* only at the write, so another process may write in between.  The item   *)
(* is inserted in a transaction of its own, which the unique index on its  *)
(* reference may refuse.  Whoever is refused tries again.                  *)
(***************************************************************************)
EXTENDS Integers, FiniteSets

CONSTANTS
  Creators,  \* the processes that create items
  MaxItems,  \* bound on the items that are asked for
  MaxStops   \* bound on the stops of processes

ASSUME RefSequenceAssumption == MaxItems \in Nat /\ MaxStops \in Nat

VARIABLES
  nextValue,  \* ref_sequences.next_value, or 0 when there is no row
  used,       \* the references of the items
  doing,      \* "idle", "write" or "insert": what each process does next
  value,      \* the number it has read
  noRow,      \* it has read that there is no row
  overlaps,   \* a sequence was written after it had changed since the read
  refused,    \* a creation was refused
  stops

vars == <<nextValue, used, doing, value, noRow, overlaps, refused, stops>>

TypeOK ==
  /\ nextValue \in Nat /\ used \subseteq Nat
  /\ doing \in [Creators -> {"idle", "write", "insert"}]
  /\ value \in [Creators -> Nat] /\ noRow \in [Creators -> BOOLEAN]
  /\ overlaps \in BOOLEAN /\ refused \in BOOLEAN /\ stops \in Nat

Init ==
  /\ nextValue = 0 /\ used = {}
  /\ doing = [c \in Creators |-> "idle"]
  /\ value = [c \in Creators |-> 0] /\ noRow = [c \in Creators |-> FALSE]
  /\ overlaps = FALSE /\ refused = FALSE /\ stops = 0

-----------------------------------------------------------------------------
ReadSequence(c) ==
  /\ doing[c] = "idle" /\ Cardinality(used) < MaxItems
  /\ value' = [value EXCEPT ![c] = IF nextValue = 0 THEN 1 ELSE nextValue]
  /\ noRow' = [noRow EXCEPT ![c] = nextValue = 0]
  /\ doing' = [doing EXCEPT ![c] = "write"]
  /\ UNCHANGED <<nextValue, used, overlaps, refused, stops>>

(* The sequence is no longer what the process has read.                     *)
Stale(c) == IF noRow[c] THEN nextValue # 0 ELSE nextValue # value[c]

(* UPDATE, or INSERT of the row, whose key refuses a second one.            *)
NewValueSame(c) == value[c]
NewValue(c) == value[c] + 1
WriteSequence(c) ==
  /\ doing[c] = "write"
  /\ overlaps' = (overlaps \/ Stale(c))
  /\ IF noRow[c] /\ nextValue # 0
       THEN /\ doing' = [doing EXCEPT ![c] = "idle"] /\ refused' = TRUE
            /\ UNCHANGED nextValue
       ELSE /\ doing' = [doing EXCEPT ![c] = "insert"]
            /\ nextValue' = NewValue(c)
            /\ UNCHANGED refused
  /\ UNCHANGED <<used, value, noRow, stops>>

(* The number of a refused item is not given back.                          *)
AfterRefusalReturned(c) == value[c]
AfterRefusal(c) == nextValue
InsertItem(c) ==
  /\ doing[c] = "insert"
  /\ IF value[c] \in used
       THEN refused' = TRUE /\ nextValue' = AfterRefusal(c) /\ UNCHANGED used
       ELSE used' = used \cup {value[c]} /\ UNCHANGED <<refused, nextValue>>
  /\ doing' = [doing EXCEPT ![c] = "idle"]
  /\ UNCHANGED <<value, noRow, overlaps, stops>>

Stop(c) ==
  /\ doing[c] # "idle" /\ stops < MaxStops
  /\ stops' = stops + 1
  /\ doing' = [doing EXCEPT ![c] = "idle"]
  /\ UNCHANGED <<nextValue, used, value, noRow, overlaps, refused>>

Create(c) == ReadSequence(c) \/ WriteSequence(c) \/ InsertItem(c)

Next == \E c \in Creators : Create(c) \/ Stop(c)

Spec == Init /\ [][Next]_vars

(* A process that has begun goes on, and one that was refused tries again.  *)
FairSpec == Spec /\ \A c \in Creators : WF_vars(Create(c))

-----------------------------------------------------------------------------
(* Properties.                                                              *)

(* A creation is refused only after two of them have overlapped between the *)
(* read and the write of the sequence: stops and unused numbers never make  *)
(* the sequence hand out a reference an item has.                           *)
OnlyOverlapsRefuse == refused => overlaps

(* A sequence that an overlapping write has set back behind references in   *)
(* use catches up: the items asked for all come to be, however the          *)
(* processes' steps fall.                                                   *)
CreationsGetThrough == <>(Cardinality(used) = MaxItems)
=============================================================================
