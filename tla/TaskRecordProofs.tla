--------------------------- MODULE TaskRecordProofs ---------------------------
(***************************************************************************)
(* The life of a task for any number of bots, any commands and any rows.   *)
(*                                                                         *)
(* The argument for NoEditDiesOnACheck: an edit writes all columns that    *)
(* the CHECKs relate, and writes them as it validated them, so what        *)
(* another bot stored in between does not matter.  RowInv says so of the   *)
(* edits in hand.                                                          *)
(*                                                                         *)
(* The argument for RepeatsBounded: while the log ends in a transition no  *)
(* bot finds the task ready for that transition again, so it is repeated   *)
(* only by the bots that had read before.  RepeatsInv counts the entries   *)
(* of the last run together with those bots.                               *)
(***************************************************************************)
EXTENDS TaskRecord, FiniteSetTheorems, TLAPS

Related == {"deadline", "type", "start", "end", "estimate"}

RowInv ==
  /\ DOMAIN row = Columns
  /\ DOMAIN doing = Bots
  /\ \A b \in Bots : doing[b].op = "edit" =>
       DOMAIN doing[b].next = Columns /\ Validated(doing[b].next)

(* What is computed from a row has the columns of a row.                    *)
LEMMA NextRowColumns ==
  ASSUME NEW m, NEW r, DOMAIN r = Columns
  PROVE  DOMAIN NextRow(m, r) = Columns
  BY DEF NextRow

(* An edit writes the related columns as it validated them.                 *)
LEMMA WrittenPassesChecks ==
  ASSUME DOMAIN row = Columns, NEW d, Validated(d.next)
  PROVE  DOMAIN Written(d) = Columns /\ Checks(Written(d))
  <1>1. DOMAIN Written(d) = Columns
    BY DEF Written
  <1>2. \A f \in Related : f \in Columns /\ f # "title" /\ f # "tags"
    BY DEF Related, Columns
  <1>3. \A f \in Related : Written(d)[f] = d.next[f]
    BY <1>2 DEF Written
  <1>4. /\ Written(d).deadline = d.next.deadline
        /\ Written(d).type = d.next.type
        /\ Written(d).start = d.next.start
        /\ Written(d).end = d.next.end
        /\ Written(d).estimate = d.next.estimate
    BY <1>3 DEF Related
  <1> QED
    BY <1>1, <1>4 DEF Checks, Validated

LEMMA RowInvInit == Init => RowInv
  BY TaskRecordAssumption DEF Init, RowInv, Idle

LEMMA RowInvNext == RowInv /\ [Next]_vars => RowInv' /\ (crashed' <=> crashed)
  <1> SUFFICES ASSUME RowInv, [Next]_vars
               PROVE  RowInv' /\ (crashed' <=> crashed)
    OBVIOUS
  <1>1. CASE UNCHANGED vars
    BY <1>1 DEF vars, RowInv
  <1>2. ASSUME NEW b \in Bots, NEW m \in Commands, ReadTags(b, m)
        PROVE  RowInv' /\ (crashed' <=> crashed)
    BY <1>2 DEF ReadTags, RowInv
  <1>6. ASSUME NEW b \in Bots, ReadFields(b)
        PROVE  RowInv' /\ (crashed' <=> crashed)
    <2> DEFINE m == doing[b].message
               seen == [row EXCEPT !.tags = doing[b].tags]
               next == NextRow(m, seen)
    <2>1. /\ UNCHANGED <<row, crashed>>
          /\ \/ /\ Accepted(m, seen)
                /\ doing' = [doing EXCEPT ![b] =
                     [op |-> "edit", next |-> next, touches |-> TouchesTags(m)]]
             \/ doing' = [doing EXCEPT ![b] = Idle]
      BY <1>6 DEF ReadFields
    <2>2. DOMAIN next = Columns
      BY NextRowColumns DEF RowInv
    <2>3. Accepted(m, seen) => Validated(next)
      BY DEF Accepted
    <2> HIDE DEF m, seen, next
    <2> QED
      BY <2>1, <2>2, <2>3 DEF RowInv, Idle
  <1>3. ASSUME NEW b \in Bots, NEW op \in {"done", "reopen", "delete"}, ReadTransition(b, op)
        PROVE  RowInv' /\ (crashed' <=> crashed)
    BY <1>3 DEF ReadTransition, RowInv
  <1>4. ASSUME NEW b \in Bots, WriteEdit(b)
        PROVE  RowInv' /\ (crashed' <=> crashed)
    <2>1. DOMAIN Written(doing[b]) = Columns /\ Checks(Written(doing[b]))
      BY <1>4, WrittenPassesChecks DEF WriteEdit, RowInv
    <2>2. row' = Written(doing[b]) /\ UNCHANGED crashed /\ doing' = [doing EXCEPT ![b] = Idle]
      BY <1>4, <2>1 DEF WriteEdit
    <2> QED
      BY <2>1, <2>2 DEF RowInv, Idle
  <1>5. ASSUME NEW b \in Bots, WriteDone(b) \/ WriteReopen(b) \/ WriteDelete(b) \/ Stop(b)
        PROVE  RowInv' /\ (crashed' <=> crashed)
    BY <1>5 DEF WriteDone, WriteReopen, WriteDelete, Stop, RowInv, Idle
  <1> QED
    BY <1>1, <1>2, <1>3, <1>4, <1>5, <1>6 DEF Next

(* No edit that was validated dies on a CHECK, whatever other bots store    *)
(* between its reads and its writes (update_task_fields).                   *)
THEOREM EditsAreStored == Spec => []NoEditDiesOnACheck
  <1>1. Init => RowInv /\ NoEditDiesOnACheck
    BY RowInvInit DEF Init, NoEditDiesOnACheck
  <1>2. RowInv /\ NoEditDiesOnACheck /\ [Next]_vars => RowInv' /\ NoEditDiesOnACheck'
    BY RowInvNext DEF NoEditDiesOnACheck
  <1> QED
    BY <1>1, <1>2, PTL DEF Spec

-----------------------------------------------------------------------------
Statuses == {"active", "completed", "deleted"}
Events == {"completed", "reopened"}

SnapshotInv ==
  /\ status \in Statuses /\ log \in Seq(Events)
  /\ SnapshotMatchesHistory

LEMMA AppendedLast ==
  ASSUME log \in Seq(Events), NEW e \in Events
  PROVE  /\ Append(log, e) \in Seq(Events)
         /\ Append(log, e) # << >>
         /\ Append(log, e)[Len(Append(log, e))] = e
  OBVIOUS

LEMMA SnapshotNext == SnapshotInv /\ [Next]_vars => SnapshotInv'
  <1> SUFFICES ASSUME SnapshotInv, [Next]_vars PROVE SnapshotInv'
    OBVIOUS
  <1> USE DEF SnapshotInv, SnapshotMatchesHistory
  <1>1. ASSUME UNCHANGED <<status, completed, log>> PROVE SnapshotInv'
    BY <1>1
  <1>2. ASSUME NEW b \in Bots, WriteDone(b) PROVE SnapshotInv'
    <2>1. completed' = TRUE /\ log' = Append(log, "completed") /\ status' = NextStatus("completed")
      BY <1>2 DEF WriteDone
    <2> QED
      BY <2>1, AppendedLast DEF NextStatus, Statuses, Events
  <1>3. ASSUME NEW b \in Bots, WriteReopen(b) PROVE SnapshotInv'
    <2>1. completed' = FALSE /\ log' = Append(log, "reopened") /\ status' = NextStatus("active")
      BY <1>3 DEF WriteReopen
    <2> QED
      BY <2>1, AppendedLast DEF NextStatus, Statuses, Events
  <1>4. ASSUME NEW b \in Bots, WriteDelete(b) PROVE SnapshotInv'
    <2>1. status' = "deleted" /\ UNCHANGED <<completed, log>>
      BY <1>4 DEF WriteDelete, NextStatus
    <2> QED
      BY <2>1 DEF Statuses
  <1>5. ASSUME NEW b \in Bots,
               \/ \E m \in Commands : ReadTags(b, m)
               \/ \E op \in {"done", "reopen", "delete"} : ReadTransition(b, op)
               \/ ReadFields(b) \/ WriteEdit(b) \/ Stop(b)
        PROVE  UNCHANGED <<status, completed, log>>
    BY <1>5 DEF ReadTags, ReadFields, ReadTransition, WriteEdit, Stop
  <1> QED
    BY <1>1, <1>2, <1>3, <1>4, <1>5 DEF Next, vars

(* completed_at, the status and the completion log agree, for any number of *)
(* bots: complete_task and reopen_task write them in one transaction.       *)
THEOREM SnapshotAgrees == Spec => []SnapshotMatchesHistory
  <1>1. Init => SnapshotInv
    BY DEF Init, SnapshotInv, SnapshotMatchesHistory, Statuses
  <1>2. SnapshotInv => SnapshotMatchesHistory
    BY DEF SnapshotInv
  <1> QED
    BY <1>1, <1>2, SnapshotNext, PTL DEF Spec

(* A deleted task never comes back and keeps its title.                     *)
THEOREM DeletionIsFinal == Spec => DeletedIsFinal
  <1>1. RowInv /\ [Next]_vars => [status = "deleted" => status' = "deleted" /\ row'.title = row.title]_vars
    <2> SUFFICES ASSUME RowInv, [Next]_vars, status = "deleted"
                 PROVE  status' = "deleted" /\ row'.title = row.title
      OBVIOUS
    <2>1. ASSUME NEW b \in Bots, WriteEdit(b)
          PROVE  status' = "deleted" /\ row'.title = row.title
      <3>1. "title" \in DOMAIN row
        BY DEF RowInv, Columns
      <3>2. Written(doing[b]).title = row.title
        BY <3>1 DEF Written
      <3> QED
        BY <2>1, <3>2 DEF WriteEdit
    <2>2. ASSUME NEW b \in Bots, WriteDone(b) \/ WriteReopen(b) \/ WriteDelete(b)
          PROVE  status' = "deleted" /\ row'.title = row.title
      BY <2>2 DEF WriteDone, WriteReopen, WriteDelete, NextStatus
    <2>3. ASSUME NEW b \in Bots,
                 \/ \E m \in Commands : ReadTags(b, m)
                 \/ \E op \in {"done", "reopen", "delete"} : ReadTransition(b, op)
                 \/ ReadFields(b) \/ Stop(b)
          PROVE  UNCHANGED <<status, row>>
      BY <2>3 DEF ReadTags, ReadFields, ReadTransition, Stop
    <2> QED
      BY <2>1, <2>2, <2>3 DEF Next, vars
  <1>2. Spec => []RowInv
    BY RowInvInit, RowInvNext, PTL DEF Spec
  <1> QED
    BY <1>1, <1>2, PTL DEF Spec, DeletedIsFinal

-----------------------------------------------------------------------------
(* The bots that are about to log a transition once more.                   *)
OpOf(event) == IF event = "completed" THEN "done" ELSE "reopen"
About(op) == {b \in Bots : doing[b].op = op}

(* The last k entries and the one before them are not all the same.         *)
RunWithin(k) == k >= Len(log) \/ \E j \in Len(log) - k..Len(log) - 1 : log[j] # log[j + 1]

RepeatsInv ==
  /\ SnapshotInv /\ DOMAIN doing = Bots
  /\ RepeatsBounded
  /\ log # << >> => \E k \in Nat :
       k + Cardinality(About(OpOf(log[Len(log)]))) <= Cardinality(Bots) /\ RunWithin(k)

LEMMA AboutFinite ==
  ASSUME NEW op
  PROVE  /\ IsFiniteSet(About(op)) /\ Cardinality(About(op)) \in Nat
         /\ Cardinality(Bots) \in Nat /\ Cardinality(About(op)) <= Cardinality(Bots)
  <1>1. IsFiniteSet(Bots) /\ About(op) \subseteq Bots
    BY TaskRecordAssumption DEF About
  <1> QED
    BY <1>1, FS_Subset, FS_CardinalityType

(* A step that logs nothing and readies no bot for what was logged last.    *)
LEMMA NothingLogged ==
  ASSUME RepeatsInv, SnapshotInv', UNCHANGED log, DOMAIN doing' = Bots,
         log # << >> => About(OpOf(log[Len(log)]))' \subseteq About(OpOf(log[Len(log)]))
  PROVE  RepeatsInv'
  <1>1. RepeatsBounded'
    BY DEF RepeatsInv, RepeatsBounded
  <1>2. ASSUME log # << >>
        PROVE  \E k \in Nat : /\ k + Cardinality(About(OpOf(log[Len(log)]))') <= Cardinality(Bots)
                             /\ RunWithin(k)'
    <2> DEFINE A == About(OpOf(log[Len(log)]))
    <2>1. PICK k \in Nat : k + Cardinality(A) <= Cardinality(Bots) /\ RunWithin(k)
      BY <1>2 DEF RepeatsInv
    <2>2. A' \subseteq A
      BY <1>2
    <2>3. IsFiniteSet(A) /\ Cardinality(A) \in Nat /\ Cardinality(Bots) \in Nat
      BY AboutFinite
    <2> HIDE DEF A
    <2>4. Cardinality(A') \in Nat /\ Cardinality(A') <= Cardinality(A)
      BY <2>2, <2>3, FS_Subset, FS_CardinalityType
    <2>5. k + Cardinality(A') <= Cardinality(Bots)
      BY <2>1, <2>3, <2>4
    <2>6. RunWithin(k)'
      BY <2>1 DEF RunWithin
    <2> QED
      BY <2>5, <2>6 DEF A
  <1> QED
    BY <1>1, <1>2 DEF RepeatsInv

(* A bot logs the transition it was about to.                               *)
LEMMA OneLogged ==
  ASSUME RepeatsInv, SnapshotInv', NEW b \in Bots, NEW e \in Events, doing[b].op = OpOf(e),
         log' = Append(log, e), doing' = [doing EXCEPT ![b] = Idle]
  PROVE  RepeatsInv'
  <1> DEFINE L == Len(log)
             B == Cardinality(Bots)
             A == About(OpOf(e))
  <1>1. /\ L \in Nat /\ Len(log') = L + 1 /\ log'[L + 1] = e
        /\ \A i \in 1..L : log'[i] = log[i]
    BY DEF RepeatsInv, SnapshotInv
  <1>2. B \in Nat /\ IsFiniteSet(A) /\ Cardinality(A) \in Nat /\ Cardinality(A) <= B
    BY AboutFinite
  <1>3. Cardinality(A') \in Nat /\ Cardinality(A') = Cardinality(A) - 1
    <2>1. A' = A \ {b} /\ b \in A
      BY DEF RepeatsInv, About, Idle, OpOf
    <2> HIDE DEF A
    <2> QED
      BY <1>2, <2>1, FS_RemoveElement, FS_CardinalityType
  <1>4. PICK k \in Nat :
          /\ k + Cardinality(A') <= B
          /\ k >= L + 1 \/ \E j \in L + 1 - k..L : log'[j] # log'[j + 1]
    <2> HIDE DEF A, B
    <2>1. CASE L = 0
      BY <1>2, <1>3, <2>1
    <2>2. CASE L > 0 /\ log[L] # e
      <3>1. L \in L + 1 - 1..L /\ log'[L] # log'[L + 1]
        BY <1>1, <2>2
      <3>2. 1 + Cardinality(A') <= B
        BY <1>2, <1>3
      <3> QED
        BY <3>1, <3>2
    <2>3. CASE L > 0 /\ log[L] = e
      <3>1. log # << >>
        BY <2>3
      <3>2. PICK n \in Nat : n + Cardinality(A) <= B /\ RunWithin(n)
        BY <2>3, <3>1 DEF RepeatsInv, A, B
      <3>3. n + 1 + Cardinality(A') <= B
        BY <1>2, <1>3, <3>2
      <3>4. ASSUME n < L
            PROVE  \E j \in L + 1 - (n + 1)..L : log'[j] # log'[j + 1]
        <4>1. PICK j \in L - n..L - 1 : log[j] # log[j + 1]
          BY <1>1, <3>2, <3>4 DEF RunWithin
        <4>2. j \in 1..L /\ j + 1 \in 1..L /\ j \in L + 1 - (n + 1)..L
          BY <1>1, <3>4, <4>1
        <4> QED
          BY <1>1, <4>1, <4>2
      <3>5. n + 1 \in Nat /\ (n < L \/ n + 1 >= L + 1)
        BY <1>1
      <3> QED
        BY <3>3, <3>4, <3>5
    <2> QED
      BY <1>1, <2>1, <2>2, <2>3
  <1>5. k <= B
    BY <1>2, <1>3, <1>4
  <1>6. RepeatsBounded'
    <2> SUFFICES ASSUME NEW i \in 1..(L + 1) - B
                 PROVE  \E j \in i..i + B - 1 : log'[j] # log'[j + 1]
      BY <1>1 DEF RepeatsBounded
    <2> HIDE DEF A, B
    <2>1. CASE i <= L - B
      <3>1. PICK j \in i..i + B - 1 : log[j] # log[j + 1]
        BY <1>1, <1>2, <2>1 DEF RepeatsInv, RepeatsBounded, B
      <3>2. j \in 1..L /\ j + 1 \in 1..L
        BY <1>1, <1>2, <2>1
      <3> QED
        BY <1>1, <3>1, <3>2
    <2>2. CASE i = L + 1 - B
      <3>1. PICK j \in L + 1 - k..L : log'[j] # log'[j + 1]
        <4>1. ~(k >= L + 1)
          BY <1>1, <1>2, <1>5, <2>2
        <4> QED
          BY <1>4, <4>1
      <3>2. j \in i..i + B - 1
        BY <1>1, <1>2, <1>5, <2>2
      <3> QED
        BY <3>1, <3>2
    <2> QED
      BY <1>1, <1>2, <2>1, <2>2
  <1>7. RunWithin(k)'
    <2>1. Len(log') - k = L + 1 - k /\ Len(log') - 1 = L /\ (k >= Len(log') <=> k >= L + 1)
      BY <1>1
    <2> HIDE DEF L
    <2> QED
      BY <1>4, <2>1 DEF RunWithin
  <1>8. log'[Len(log')] = e /\ DOMAIN doing' = Bots
    BY <1>1 DEF RepeatsInv
  <1> QED
    BY <1>4, <1>6, <1>7, <1>8 DEF RepeatsInv

LEMMA RepeatsNext == RepeatsInv /\ [Next]_vars => RepeatsInv'
  <1> SUFFICES ASSUME RepeatsInv, [Next]_vars PROVE RepeatsInv'
    OBVIOUS
  <1>1. SnapshotInv /\ SnapshotInv' /\ DOMAIN doing = Bots
    BY SnapshotNext DEF RepeatsInv
  <1>2. CASE UNCHANGED vars
    BY <1>1, <1>2, NothingLogged DEF vars, About
  <1>3. ASSUME NEW b \in Bots, \E m \in Commands : ReadTags(b, m) PROVE RepeatsInv'
    <2>1. UNCHANGED log /\ DOMAIN doing' = Bots /\ \A op : op # "begun" => About(op)' \subseteq About(op)
      BY <1>1, <1>3 DEF ReadTags, About
    <2> QED
      BY <1>1, <2>1, NothingLogged DEF OpOf
  <1>4. ASSUME NEW b \in Bots, ReadFields(b) \/ WriteEdit(b) \/ WriteDelete(b) \/ Stop(b)
        PROVE  RepeatsInv'
    <2>1. /\ UNCHANGED log /\ DOMAIN doing' = Bots
          /\ \A q \in Bots : doing'[q] = doing[q] \/ doing'[q].op \in {"edit", "idle"}
      BY <1>1, <1>4 DEF ReadFields, WriteEdit, WriteDelete, Stop, Idle
    <2>2. \A op : op \notin {"edit", "idle"} => About(op)' \subseteq About(op)
      BY <2>1 DEF About
    <2> QED
      BY <1>1, <2>1, <2>2, NothingLogged DEF OpOf
  <1>5. ASSUME NEW b \in Bots, NEW op \in {"done", "reopen", "delete"}, ReadTransition(b, op)
        PROVE  RepeatsInv'
    <2>1. /\ UNCHANGED log /\ DOMAIN doing' = Bots
          /\ \A o : o # op => About(o)' \subseteq About(o)
      BY <1>1, <1>5 DEF ReadTransition, About
    <2>2. log # << >> => OpOf(log[Len(log)]) # op
      <3> SUFFICES ASSUME log # << >> PROVE OpOf(log[Len(log)]) # op
        OBVIOUS
      <3>1. log[Len(log)] \in Events
        BY <1>1 DEF SnapshotInv
      <3>2. log[Len(log)] = "completed" => status # "active"
        BY <1>1 DEF SnapshotInv, SnapshotMatchesHistory
      <3>3. log[Len(log)] = "reopened" => status # "completed"
        BY <1>1 DEF SnapshotInv, SnapshotMatchesHistory
      <3>4. (op = "done" => status = "active") /\ (op = "reopen" => status = "completed")
        BY <1>5 DEF ReadTransition, CanComplete, CanReopen
      <3> QED
        BY <3>1, <3>2, <3>3, <3>4 DEF OpOf, Events
    <2> QED
      BY <1>1, <2>1, <2>2, NothingLogged
  <1>6. ASSUME NEW b \in Bots, WriteDone(b) PROVE RepeatsInv'
    <2>1. doing[b].op = OpOf("completed") /\ log' = Append(log, "completed")
          /\ doing' = [doing EXCEPT ![b] = Idle] /\ "completed" \in Events
      BY <1>6 DEF WriteDone, OpOf, Events
    <2> QED
      BY <1>1, <2>1, OneLogged
  <1>7. ASSUME NEW b \in Bots, WriteReopen(b) PROVE RepeatsInv'
    <2>1. doing[b].op = OpOf("reopened") /\ log' = Append(log, "reopened")
          /\ doing' = [doing EXCEPT ![b] = Idle] /\ "reopened" \in Events
      BY <1>7 DEF WriteReopen, OpOf, Events
    <2> QED
      BY <1>1, <2>1, OneLogged
  <1> QED
    BY <1>2, <1>3, <1>4, <1>5, <1>6, <1>7 DEF Next

(* For any number of bots: no transition is logged more often in a row than *)
(* there are bots (complete_task and reopen_task read the status outside    *)
(* the transaction that logs the transition).                               *)
THEOREM LogRepeatsAreBounded == Spec => []RepeatsBounded
  <1>1. Init => RepeatsInv
    <2> SUFFICES ASSUME Init PROVE RepeatsInv
      OBVIOUS
    <2>1. SnapshotInv /\ DOMAIN doing = Bots /\ log = << >>
      BY DEF Init, SnapshotInv, SnapshotMatchesHistory, Statuses
    <2>2. RepeatsBounded
      BY <2>1, AboutFinite DEF RepeatsBounded
    <2> QED
      BY <2>1, <2>2 DEF RepeatsInv
  <1>2. RepeatsInv => RepeatsBounded
    BY DEF RepeatsInv
  <1> QED
    BY <1>1, <1>2, RepeatsNext, PTL DEF Spec

-----------------------------------------------------------------------------
(* With one bot what a command has read is still so when it writes.         *)
HistoryInv(b) ==
  /\ DOMAIN doing = {b}
  /\ status \in Statuses /\ log \in Seq(Events)
  /\ doing[b].op = "done" => status = "active"
  /\ doing[b].op = "reopen" => status = "completed"
  /\ status = "active" => Len(log) % 2 = 0
  /\ status = "completed" => Len(log) % 2 = 1
  /\ HistoryAlternates

LEMMA AppendedAlternates ==
  ASSUME log \in Seq(Events), HistoryAlternates, NEW e \in Events,
         e = (IF Len(log) % 2 = 0 THEN "completed" ELSE "reopened"),
         log' = Append(log, e)
  PROVE  HistoryAlternates' /\ log' \in Seq(Events) /\ Len(log') = Len(log) + 1
  <1>1. log' \in Seq(Events) /\ Len(log') = Len(log) + 1 /\ Len(log) \in Nat
    OBVIOUS
  <1>2. \A i \in 1..Len(log) : log'[i] = log[i]
    OBVIOUS
  <1>3. log'[Len(log) + 1] = e
    OBVIOUS
  <1>4. (Len(log) + 1) % 2 = 1 <=> Len(log) % 2 = 0
    BY <1>1
  <1>5. ASSUME NEW i \in 1..Len(log')
        PROVE  log'[i] = (IF i % 2 = 1 THEN "completed" ELSE "reopened")
    <2>1. CASE i \in 1..Len(log)
      BY <2>1, <1>2 DEF HistoryAlternates
    <2>2. CASE i = Len(log) + 1
      BY <2>2, <1>3, <1>4
    <2> QED
      BY <1>1, <1>5, <2>1, <2>2
  <1> QED
    BY <1>1, <1>5 DEF HistoryAlternates

LEMMA HistoryNext ==
  ASSUME NEW b, Bots = {b}
  PROVE  HistoryInv(b) /\ [Next]_vars => HistoryInv(b)'
  <1> SUFFICES ASSUME HistoryInv(b), [Next]_vars PROVE HistoryInv(b)'
    OBVIOUS
  <1> USE DEF HistoryInv
  <1>1. CASE UNCHANGED vars
    BY <1>1 DEF vars, HistoryAlternates
  <1>2. ASSUME NEW m \in Commands, ReadTags(b, m) PROVE HistoryInv(b)'
    <2>1. UNCHANGED <<status, log>> /\ DOMAIN doing' = {b} /\ doing'[b].op = "begun"
      BY <1>2 DEF ReadTags
    <2> QED
      BY <2>1 DEF HistoryAlternates
  <1>3. ASSUME NEW op \in {"done", "reopen", "delete"}, ReadTransition(b, op) PROVE HistoryInv(b)'
    <2>1. /\ UNCHANGED <<status, log>> /\ DOMAIN doing' = {b} /\ doing'[b].op = op
          /\ op = "done" => status = "active"
          /\ op = "reopen" => status = "completed"
      BY <1>3 DEF ReadTransition, CanComplete, CanReopen
    <2> QED
      BY <2>1 DEF HistoryAlternates
  <1>4. ASSUME ReadFields(b) \/ WriteEdit(b) \/ Stop(b) PROVE HistoryInv(b)'
    <2>1. UNCHANGED <<status, log>> /\ DOMAIN doing' = {b} /\ doing'[b].op \in {"edit", "idle"}
      BY <1>4 DEF ReadFields, WriteEdit, Stop, Idle
    <2> QED
      BY <2>1 DEF HistoryAlternates
  <1>5. CASE WriteDone(b)
    <2>1. /\ status = "active" /\ status' = "completed" /\ log' = Append(log, "completed")
          /\ DOMAIN doing' = {b} /\ doing'[b] = Idle
      BY <1>5 DEF WriteDone, NextStatus
    <2>2. HistoryAlternates' /\ log' \in Seq(Events) /\ Len(log') = Len(log) + 1
      BY <2>1, AppendedAlternates DEF Events
    <2> QED
      BY <2>1, <2>2 DEF Statuses, Idle
  <1>6. CASE WriteReopen(b)
    <2>1. /\ status = "completed" /\ status' = "active" /\ log' = Append(log, "reopened")
          /\ DOMAIN doing' = {b} /\ doing'[b] = Idle
      BY <1>6 DEF WriteReopen, NextStatus
    <2>2. HistoryAlternates' /\ log' \in Seq(Events) /\ Len(log') = Len(log) + 1
      BY <2>1, AppendedAlternates DEF Events
    <2> QED
      BY <2>1, <2>2 DEF Statuses, Idle
  <1>7. CASE WriteDelete(b)
    <2>1. status' = "deleted" /\ UNCHANGED log /\ DOMAIN doing' = {b} /\ doing'[b] = Idle
      BY <1>7 DEF WriteDelete, NextStatus
    <2> QED
      BY <2>1 DEF HistoryAlternates, Statuses, Idle
  <1> QED
    BY <1>1, <1>2, <1>3, <1>4, <1>5, <1>6, <1>7 DEF Next

(* With one bot every entry of the completion log is a transition of the    *)
(* task (complete_task and reopen_task).                                    *)
THEOREM OneBotHistory ==
  ASSUME NEW b, Bots = {b}
  PROVE  Spec => []HistoryAlternates
  <1>1. Init => HistoryInv(b)
    BY DEF Init, HistoryInv, HistoryAlternates, Statuses, Idle
  <1>2. HistoryInv(b) => HistoryAlternates
    BY DEF HistoryInv
  <1> QED
    BY <1>1, <1>2, HistoryNext, PTL DEF Spec
=============================================================================
