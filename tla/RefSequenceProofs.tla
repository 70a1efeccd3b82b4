-------------------------- MODULE RefSequenceProofs --------------------------
(***************************************************************************)
(* Why a reference is only ever handed out twice after an overlap: without *)
(* one the sequence is ahead of every reference that an item has or that a *)
(* process is about to insert.                                             *)
(***************************************************************************)
EXTENDS RefSequence, TLAPS

Ahead == IF nextValue = 0 THEN 1 ELSE nextValue

InOrder ==
  /\ ~refused
  /\ \A n \in used : n < Ahead
  /\ \A c \in Creators : doing[c] = "insert" =>
       /\ value[c] < Ahead /\ value[c] \notin used
       /\ \A d \in Creators : d # c /\ doing[d] = "insert" => value[d] # value[c]

SequenceInv ==
  /\ TypeOK
  /\ \A c \in Creators : doing[c] = "write" => value[c] >= 1 /\ (noRow[c] => value[c] = 1)
  /\ ~overlaps => InOrder

(* The invariant is kept by each of the three transactions of a creation    *)
(* and by a stop.                                                           *)
LEMMA SequenceStep ==
  ASSUME SequenceInv, [Next]_vars
  PROVE  SequenceInv'
  <1> USE DEF SequenceInv, TypeOK
  <1>1. ASSUME NEW c \in Creators, ReadSequence(c)
        PROVE  SequenceInv'
    <2>0. (IF nextValue = 0 THEN 1 ELSE nextValue) \in Nat \ {0}
      OBVIOUS
    <2>1. TypeOK' /\ (doing[c])' = "write" /\ (value[c])' >= 1 /\ ((noRow[c])' => (value[c])' = 1)
      <3>1. TypeOK' /\ (doing[c])' = "write"
        BY <1>1, <2>0 DEF ReadSequence
      <3>2. (value[c])' = (IF nextValue = 0 THEN 1 ELSE nextValue) /\ (noRow[c])' = (nextValue = 0)
        BY <1>1, <2>0 DEF ReadSequence
      <3> QED
        BY <3>1, <3>2, <2>0
    <2>2. \A d \in Creators : d # c =>
            (doing[d])' = doing[d] /\ (value[d])' = value[d] /\ (noRow[d])' = noRow[d]
      BY <1>1 DEF ReadSequence
    <2>3. UNCHANGED <<nextValue, used, overlaps, refused>>
      BY <1>1 DEF ReadSequence
    <2>4. ~overlaps' => InOrder'
      BY <2>1, <2>2, <2>3 DEF InOrder, Ahead
    <2> QED
      BY <2>1, <2>2, <2>4
  <1>2. ASSUME NEW c \in Creators, WriteSequence(c)
        PROVE  SequenceInv'
    <2>1. /\ TypeOK' /\ UNCHANGED <<used, value, noRow>>
          /\ (doing[c])' \in {"idle", "insert"}
          /\ \A d \in Creators : d # c => (doing[d])' = doing[d]
          /\ overlaps' = (overlaps \/ Stale(c))
      <3>1. overlaps' = (overlaps \/ Stale(c)) /\ overlaps' \in BOOLEAN /\ refused' \in BOOLEAN
        BY <1>2, Zenon DEF WriteSequence
      <3>2. /\ UNCHANGED <<used, value, noRow, stops>>
            /\ \/ doing' = [doing EXCEPT ![c] = "idle"] /\ nextValue' = nextValue
               \/ doing' = [doing EXCEPT ![c] = "insert"] /\ nextValue' = value[c] + 1
        BY <1>2, Zenon DEF WriteSequence, NewValue
      <3>3. /\ nextValue' \in Nat /\ doing' \in [Creators -> {"idle", "write", "insert"}]
            /\ (doing[c])' \in {"idle", "insert"}
            /\ \A d \in Creators : d # c => (doing[d])' = doing[d]
        BY <3>2
      <3> QED
        BY <3>1, <3>2, <3>3
    <2>2. ASSUME ~overlaps'
          PROVE  InOrder'
      <3>0. ~overlaps /\ ~Stale(c) /\ doing[c] = "write"
        BY <1>2, <2>1, <2>2, Zenon DEF WriteSequence
      <3>1. ~overlaps /\ InOrder /\ value[c] = Ahead /\ value[c] >= 1
        <4>1. value[c] >= 1 /\ value[c] = Ahead
          BY <3>0 DEF Stale, Ahead
        <4> QED
          BY <3>0, <4>1
      <3>2. (doing[c])' = "insert" /\ nextValue' = value[c] + 1 /\ ~refused'
        BY <1>2, <2>1, <2>2, <3>1 DEF WriteSequence, Stale, NewValue, InOrder
      <3>3. Ahead' = value[c] + 1
        BY <3>1, <3>2 DEF Ahead
      <3>4. \A n \in used' : n < Ahead'
        BY <2>1, <3>1, <3>3 DEF InOrder
      <3>5. ASSUME NEW d \in Creators, (doing[d])' = "insert"
            PROVE  /\ (value[d])' < Ahead' /\ (value[d])' \notin used'
                   /\ \A e \in Creators : e # d /\ (doing[e])' = "insert" => (value[e])' # (value[d])'
        <4>1. \A e \in Creators : e # c /\ (doing[e])' = "insert" => value[e] < value[c]
          BY <2>1, <3>1 DEF InOrder
        <4>2. value[c] \notin used
          BY <3>1 DEF InOrder
        <4> QED
          BY <2>1, <3>1, <3>3, <3>5, <4>1, <4>2 DEF InOrder
      <3> QED
        BY <3>2, <3>4, <3>5 DEF InOrder
    <2> QED
      BY <2>1, <2>2
  <1>3. ASSUME NEW c \in Creators, InsertItem(c)
        PROVE  SequenceInv'
    <2>1. /\ TypeOK' /\ UNCHANGED <<value, noRow, overlaps>> /\ nextValue' = nextValue
          /\ (doing[c])' = "idle"
          /\ \A d \in Creators : d # c => (doing[d])' = doing[d]
      BY <1>3 DEF InsertItem, AfterRefusal
    <2>2. ASSUME ~overlaps'
          PROVE  InOrder'
      <3>1. InOrder /\ value[c] \notin used /\ value[c] < Ahead
        BY <1>3, <2>1, <2>2 DEF InOrder, InsertItem
      <3>2. used' = used \cup {value[c]} /\ ~refused' /\ Ahead' = Ahead
        BY <1>3, <2>1, <3>1 DEF InsertItem, InOrder, Ahead
      <3>3. \A d \in Creators : (doing[d])' = "insert" => d # c /\ doing[d] = "insert" /\ value[d] # value[c]
        BY <1>3, <2>1, <3>1 DEF InOrder, InsertItem
      <3> QED
        BY <2>1, <3>1, <3>2, <3>3 DEF InOrder
    <2> QED
      BY <2>1, <2>2
  <1>4. ASSUME NEW c \in Creators, Stop(c)
        PROVE  SequenceInv'
    <2>1. /\ TypeOK' /\ UNCHANGED <<nextValue, used, value, noRow, overlaps, refused>>
          /\ \A d \in Creators : (doing[d])' = doing[d] \/ (doing[d])' = "idle"
      BY <1>4 DEF Stop
    <2> QED
      BY <2>1 DEF InOrder, Ahead
  <1>5. CASE UNCHANGED vars
    BY <1>5 DEF vars, InOrder, Ahead
  <1> QED
    BY <1>1, <1>2, <1>3, <1>4, <1>5 DEF Next, Create

(* A creation is refused only after two of them have overlapped, for any    *)
(* number of processes, items and stops.                                    *)
THEOREM RefusalsComeFromOverlaps == Spec => []OnlyOverlapsRefuse
  <1>1. Init => SequenceInv
    <2> SUFFICES ASSUME Init
                 PROVE  SequenceInv
      OBVIOUS
    <2>1. TypeOK /\ \A c \in Creators : doing[c] = "idle"
      BY DEF Init, TypeOK
    <2>2. ~refused /\ used = {}
      BY DEF Init
    <2> QED
      BY <2>1, <2>2 DEF SequenceInv, InOrder
  <1>2. SequenceInv /\ [Next]_vars => SequenceInv'
    BY SequenceStep
  <1>3. SequenceInv => OnlyOverlapsRefuse
    BY DEF SequenceInv, TypeOK, InOrder, OnlyOverlapsRefuse
  <1> QED
    BY <1>1, <1>2, <1>3, PTL DEF Spec
=============================================================================
