----------------------------- MODULE StartupProofs -----------------------------
(***************************************************************************)
(* Theorems about Startup, for any items, any allowlists and any number of *)
(* stops: a bot that polls has its schema and its references, a script is  *)
(* torn by a stop only, no migration changes a reference, and the binding  *)
(* of the old owner never conflicts.                                       *)
(*                                                                         *)
(* Scripts 3 and 4 are the ones that cannot run twice.  The argument is    *)
(* that the first statement of each is a plain CREATE, and so a lock: of   *)
(* the processes that come to the script one passes it, and what that      *)
(* process has done so far is known from its line.                         *)
(***************************************************************************)
EXTENDS Startup, FiniteSetTheorems, WellFoundedInduction, TLAPS

-----------------------------------------------------------------------------
(* The inductive invariant.                                                 *)

Runs(p, n) == script[p] = n /\ line[p] > 0

AllTasks == OfKind("task")
AllNotes == OfKind("note")

(* Where the processes are, and what they know to be recorded.              *)
Bookkeeping ==
  /\ \A p \in Processes :
       /\ seen[p] \subseteq versions
       /\ \A n \in 1..5 : n < script[p] => n \in versions
       /\ line[p] > 0 => /\ script[p] \in 1..5 /\ script[p] \notin seen[p]
                         /\ line[p] <= Len(Scripts[script[p]])
  /\ pc # "migrate" => script[Bot] = 0
  /\ pc \in {"built", "poll"} => versions = 1..5

(* The objects that the first l statements of script n make and no script   *)
(* drops: they are there for the recorded scripts and for those under way.  *)
Made(n, l) == {Scripts[n][j].on : j \in {i \in 1..l : Scripts[n][i].op \in {"ensure", "create"}}}
                \ {"task_refs", "task_refs_index", "task_refs_trigger"}
Objects ==
  /\ \A n \in versions : Made(n, Len(Scripts[n])) \subseteq schema
  /\ \A p \in Processes : script[p] \in 1..5 => Made(script[p], line[p]) \subseteq schema

(* The references: items that are not there have none, no two items of a    *)
(* kind share one, and the sequence is above those of the tasks.            *)
References ==
  /\ \A i \in Items : /\ taskRefs[i] # 0 => i \in AllTasks
                      /\ pubRef[i] # 0 => i \in live
  /\ \A k \in Kinds : Distinct(pubRef, {i \in OfKind(k) : pubRef[i] # 0})
  /\ \A i \in AllTasks : pubRef[i] < FirstRef("task")
  /\ 4 \in versions => /\ \A i \in live : pubRef[i] # 0
                       /\ \A i \in AllNotes : pubRef[i] < FirstRef("note")

(* The references of the tasks are in task_refs, and nobody writes there.   *)
InTaskRefs ==
  /\ "task_refs" \in schema
  /\ \A p \in Processes : ~Runs(p, 3)
  /\ \A i \in AllTasks : taskRefs[i] # 0 /\ taskRefs[i] < FirstRef("task")
  /\ Distinct(taskRefs, AllTasks)

(* Script 3, the first time and, after script 4, for a process that had     *)
(* read the versions before: then nobody can record it again.               *)
Script3 ==
  /\ "task_refs" \notin schema => /\ schema \cap {"task_refs_index", "task_refs_trigger"} = {}
                                  /\ \A i \in Items : taskRefs[i] = 0
  /\ \A p, q \in Processes : Runs(p, 3) /\ Runs(q, 3) => p = q
  /\ \A p \in Processes : Runs(p, 3) =>
       /\ "task_refs" \in schema
       /\ line[p] = 1 => \A i \in Items : taskRefs[i] = 0
       /\ line[p] <= 3 => "task_refs_index" \notin schema
       /\ line[p] <= 4 => "task_refs_trigger" \notin schema
       /\ 3 \notin versions =>
            /\ line[p] >= 2 => (\A i \in AllTasks : taskRefs[i] # 0) /\ Distinct(taskRefs, AllTasks)
            /\ line[p] >= 3 => \A i \in AllTasks : taskRefs[i] < FirstRef("task")
  /\ 3 \in versions /\ "pub_ref" \notin schema => InTaskRefs

(* Script 4 runs once and to its end, or is torn.                           *)
Script4 ==
  /\ "pub_ref" \notin schema => /\ schema \cap {"pub_ref_index", "pub_ref_valid", "pub_ref_fixed"} = {}
                                /\ \A i \in Items : pubRef[i] = 0
  /\ \A p, q \in Processes : Runs(p, 4) /\ Runs(q, 4) => p = q
  /\ \A p \in Processes : Runs(p, 4) =>
       /\ "pub_ref" \in schema /\ 4 \notin versions
       /\ line[p] <= 7 => InTaskRefs
       /\ line[p] = 1 => \A i \in AllTasks : pubRef[i] = 0
       /\ line[p] <= 2 => \A i \in AllNotes : pubRef[i] = 0
       /\ line[p] >= 2 => \A i \in AllTasks : pubRef[i] # 0
       /\ line[p] >= 3 => \A i \in AllNotes : pubRef[i] # 0
       /\ line[p] >= 4 => \A i \in AllNotes : pubRef[i] < FirstRef("note")
       /\ line[p] <= 4 => "pub_ref_index" \notin schema
       /\ line[p] <= 5 => "pub_ref_valid" \notin schema
       /\ line[p] <= 6 => "pub_ref_fixed" \notin schema

(* Without a stop the process that has begun a script is still in it.       *)
Begun ==
  /\ stops = 0 /\ 3 \notin versions /\ "task_refs" \in schema => \E p \in Processes : Runs(p, 3)
  /\ stops = 0 /\ 4 \notin versions /\ "pub_ref" \in schema => \E p \in Processes : Runs(p, 4)

(* The old owner is bound before the first new user can appear.             *)
Owner ==
  /\ own # {} => ~Unassigned
  /\ pc \in {"built", "poll"} /\ allowed # << >> => ~Unassigned

StartupInv == TypeOK /\ Bookkeeping /\ Objects /\ References /\ Script3 /\ Script4 /\ Begun /\ Owner

-----------------------------------------------------------------------------
(* Numbering: the window functions and the maxima of the scripts.           *)

LEMMA MaxExists ==
  ASSUME NEW S \in SUBSET Nat, IsFiniteSet(S), S # {}
  PROVE  \E n \in S : \A m \in S : m <= n
  <1> DEFINE Bad == {T \in SUBSET S : T # {} /\ ~\E n \in T : \A m \in T : m <= n}
             Sizes == {Cardinality(T) : T \in Bad}
  <1> SUFFICES ASSUME S \in Bad PROVE FALSE
    OBVIOUS
  <1>1. \A T \in Bad : IsFiniteSet(T) /\ Cardinality(T) \in Nat
    BY FS_Subset, FS_CardinalityType
  <1>2. Sizes \subseteq Nat /\ Sizes # {}
    BY <1>1
  <1>3. PICK c \in Sizes : \A d \in Sizes : <<d, c>> \notin OpToRel(<, Nat)
    BY <1>2, WFMin, NatLessThanWellFounded, Zenon
  <1>4. \A d \in Sizes : ~(d < c)
    BY <1>2, <1>3, Zenon DEF OpToRel
  <1>5. PICK T \in Bad : c = Cardinality(T)
    OBVIOUS
  <1>6. PICK x \in T : TRUE
    OBVIOUS
  <1> DEFINE U == T \ {x}
  <1>7. Cardinality(U) = Cardinality(T) - 1 /\ Cardinality(T) \in Nat
    BY <1>1, <1>5, FS_RemoveElement
  <1>8. U \notin Bad
    <2>1. ASSUME U \in Bad PROVE FALSE
      <3>1. Cardinality(U) \in Sizes
        BY <2>1
      <3> QED
        BY <3>1, <1>4, <1>5, <1>7
    <2> QED
      BY <2>1
  <1>9. CASE U = {}
    BY <1>9, <1>5
  <1>10. CASE U # {}
    <2>1. PICK n \in U : \A m \in U : m <= n
      BY <1>8, <1>10
    <2>2. n \in Nat /\ x \in Nat
      BY <1>5
    <2>3. CASE x <= n
      BY <2>1, <2>3, <1>5
    <2>4. CASE n < x
      <3>1. \A m \in T : m <= x
        BY <2>1, <2>2, <2>4, <1>5
      <3> QED
        BY <3>1, <1>5
    <2> QED
      BY <2>2, <2>3, <2>4
  <1> QED
    BY <1>9, <1>10

LEMMA RaisedAbove ==
  ASSUME nextRef \in [Kinds -> Nat], NEW k \in Kinds, NEW S \in SUBSET Nat, IsFiniteSet(S)
  PROVE  /\ Raised(k, S) \in Nat /\ nextRef[k] <= Raised(k, S)
         /\ \A m \in S : m < Raised(k, S)
  <1>1. CASE S = {}
    BY <1>1 DEF Raised
  <1>2. CASE S # {}
    <2> DEFINE m == CHOOSE n \in S : \A l \in S : l <= n
    <2>1. m \in S /\ \A l \in S : l <= m
      BY <1>2, MaxExists
    <2>2. Raised(k, S) = IF m + 1 > nextRef[k] THEN m + 1 ELSE nextRef[k]
      BY <1>2 DEF Raised
    <2> HIDE DEF m
    <2> QED
      BY <2>1, <2>2
  <1> QED
    BY <1>1, <1>2

LEMMA RangeFinite ==
  ASSUME NEW f \in [Items -> Nat]
  PROVE  IsFiniteSet({f[i] : i \in Items}) /\ {f[i] : i \in Items} \subseteq Nat
  <1> DEFINE T == {f[i] : i \in Items}
  <1>1. f \in Surjection(Items, T)
    BY DEF Surjection
  <1> QED
    BY <1>1, FS_Surjection, MigrationsAssumption

(* Rank numbers a finite set of items, each once.                           *)
LEMMA RanksDiffer ==
  ASSUME NEW S \in SUBSET Items
  PROVE  /\ \A i \in S : Rank(i, S) \in Nat /\ Rank(i, S) >= 1 /\ Rank(i, S) <= Cardinality(S)
         /\ \A i, j \in S : Rank(i, S) = Rank(j, S) => i = j
         /\ Cardinality(S) \in Nat
  <1> DEFINE Upto(i) == {j \in S : \/ CreatedAt[j] < CreatedAt[i]
                                   \/ CreatedAt[j] = CreatedAt[i] /\ j <= i}
  <1>1. IsFiniteSet(S) /\ Cardinality(S) \in Nat
    BY MigrationsAssumption, FS_Subset, FS_CardinalityType
  <1>2. ASSUME NEW i \in S
        PROVE  /\ Rank(i, S) = Cardinality(Upto(i)) /\ IsFiniteSet(Upto(i))
               /\ Cardinality(Upto(i)) \in Nat /\ Cardinality(Upto(i)) <= Cardinality(S)
               /\ i \in Upto(i)
    <2>1. Upto(i) \in SUBSET S
      OBVIOUS
    <2>2. i \in Upto(i)
      BY MigrationsAssumption
    <2> QED
      BY <1>1, <2>1, <2>2, FS_Subset, FS_CardinalityType DEF Rank
  <1>3. ASSUME NEW i \in S PROVE Cardinality(Upto(i)) # 0
    BY <1>2, FS_EmptySet
  <1>4. ASSUME NEW i \in S, NEW j \in S, Rank(i, S) = Rank(j, S), i # j
        PROVE  FALSE
    <2>0. i \in Nat /\ j \in Nat /\ CreatedAt[i] \in Nat /\ CreatedAt[j] \in Nat
      BY MigrationsAssumption
    <2>1. ASSUME NEW a \in S, NEW b \in S, Rank(a, S) = Rank(b, S),
                 CreatedAt[a] < CreatedAt[b] \/ (CreatedAt[a] = CreatedAt[b] /\ a < b)
          PROVE  FALSE
      <3>0. \A k \in S : k \in Nat /\ CreatedAt[k] \in Nat
        BY MigrationsAssumption
      <3>1. Upto(a) \in SUBSET Upto(b)
        BY <2>1, <3>0
      <3>2. b \notin Upto(a)
        BY <2>1, <3>0
      <3>3. Upto(a) = Upto(b)
        BY <3>1, <2>1, <1>2, FS_Subset
      <3> QED
        BY <3>2, <3>3, <1>2
    <2>2. \/ CreatedAt[i] < CreatedAt[j] \/ (CreatedAt[i] = CreatedAt[j] /\ i < j)
          \/ CreatedAt[j] < CreatedAt[i] \/ (CreatedAt[j] = CreatedAt[i] /\ j < i)
      BY <1>4, <2>0
    <2> QED
      BY <1>4, <2>1, <2>2
  <1>5. ASSUME NEW i \in S
        PROVE  Rank(i, S) \in Nat /\ Rank(i, S) >= 1 /\ Rank(i, S) <= Cardinality(S)
    <2> DEFINE c == Cardinality(Upto(i))
    <2>1. Rank(i, S) = c /\ c \in Nat /\ c # 0 /\ c <= Cardinality(S)
      BY <1>2, <1>3
    <2> HIDE DEF c
    <2> QED
      BY <2>1
  <1> QED
    BY <1>1, <1>4, <1>5

LEMMA FirstRefIs ==
  ASSUME nextRef \in [Kinds -> Nat], NEW k \in Kinds
  PROVE  FirstRef(k) \in Nat /\ FirstRef(k) >= 1 /\ FirstRef(k) >= nextRef[k]
  BY DEF FirstRef

LEMMA NumberedDistinct ==
  ASSUME nextRef \in [Kinds -> Nat], live \subseteq Items, NEW k \in Kinds
  PROVE  /\ Numbered(k) \in [Items -> Nat]
         /\ \A i \in Items : Numbered(k)[i] # 0 <=> i \in OfKind(k)
         /\ Distinct(Numbered(k), OfKind(k))
  <1>1. OfKind(k) \in SUBSET Items
    BY DEF OfKind
  <1>2. \A i \in OfKind(k) : Rank(i, OfKind(k)) \in Nat /\ Rank(i, OfKind(k)) >= 1
    BY <1>1, RanksDiffer
  <1>3. FirstRef(k) \in Nat /\ FirstRef(k) >= 1
    BY FirstRefIs
  <1>4. \A i \in Items : Numbered(k)[i] = IF i \in OfKind(k) THEN FirstRef(k) + Rank(i, OfKind(k)) - 1 ELSE 0
    BY DEF Numbered
  <1>5. \A i, j \in OfKind(k) : Rank(i, OfKind(k)) = Rank(j, OfKind(k)) => i = j
    BY <1>1, RanksDiffer
  <1>6. \A i \in Items : Numbered(k)[i] \in Nat
    BY <1>2, <1>3, <1>4
  <1>7. Numbered(k) \in [Items -> Nat]
    BY <1>6 DEF Numbered
  <1>8. Distinct(Numbered(k), OfKind(k))
    BY <1>1, <1>2, <1>3, <1>4, <1>5 DEF Distinct
  <1> QED
    BY <1>2, <1>3, <1>4, <1>7, <1>8

-----------------------------------------------------------------------------
(* The scripts, statement by statement.                                     *)

LEMMA ScriptTable ==
  /\ Len(Scripts) = 5 /\ DOMAIN Scripts = 1..5
  /\ Len(Scripts[1]) = 3 /\ Len(Scripts[2]) = 3 /\ Len(Scripts[3]) = 5
  /\ Len(Scripts[4]) = 8 /\ Len(Scripts[5]) = 2
  /\ Scripts[1] = Legacy0001 /\ Scripts[2] = Items0002 /\ Scripts[3] = TaskRefs0003
  /\ Scripts[4] = PublicRefs0004 /\ Scripts[5] = Reminders0005
  BY DEF Scripts, Legacy0001, Items0002, TaskRefs0003, PublicRefs0004, Reminders0005

Ensured == {"users", "ref_sequences", "health_checks", "items", "task_items", "indexes",
            "reminders", "reminder_indexes"}

LEMMA StatementsOfOthers ==
  ASSUME NEW n \in {1, 2, 5}, NEW l \in 1..Len(Scripts[n])
  PROVE  \E o \in Ensured : Scripts[n][l] = Ensure(o)
  <1>1. n = 1 => Scripts[n][l] \in {Ensure("users"), Ensure("ref_sequences"), Ensure("health_checks")}
    BY ScriptTable DEF Legacy0001
  <1>2. n = 2 => Scripts[n][l] \in {Ensure("items"), Ensure("task_items"), Ensure("indexes")}
    BY ScriptTable DEF Items0002
  <1>3. n = 5 => Scripts[n][l] \in {Ensure("reminders"), Ensure("reminder_indexes")}
    BY ScriptTable DEF Reminders0005
  <1> QED
    BY <1>1, <1>2, <1>3 DEF Ensured

LEMMA Statements3 ==
  /\ Scripts[3][1] = Create("task_refs") /\ Scripts[3][2] = Number("task_refs")
  /\ Scripts[3][3] = Raise("task") /\ Scripts[3][4] = Create("task_refs_index")
  /\ Scripts[3][5] = Create("task_refs_trigger")
  BY ScriptTable DEF TaskRefs0003

LEMMA Statements4 ==
  /\ Scripts[4][1] = Create("pub_ref") /\ Scripts[4][2] = Number("tasks")
  /\ Scripts[4][3] = Number("notes") /\ Scripts[4][4] = Raise("note")
  /\ Scripts[4][5] = Create("pub_ref_index") /\ Scripts[4][6] = Create("pub_ref_valid")
  /\ Scripts[4][7] = Create("pub_ref_fixed") /\ Scripts[4][8] = Drop("task_refs")
  BY ScriptTable DEF PublicRefs0004

LEMMA KindsSplit ==
  ASSUME live \subseteq Items
  PROVE  /\ AllTasks \subseteq live /\ AllNotes \subseteq live /\ AllTasks \cap AllNotes = {}
         /\ live = AllTasks \cup AllNotes
         /\ \A i \in AllTasks : KindOf[i] = "task"
         /\ \A i \in AllNotes : KindOf[i] = "note"
  BY MigrationsAssumption DEF AllTasks, AllNotes, OfKind, Kinds

LEMMA MadeNone == \A n : Made(n, 0) = {}
  BY DEF Made

LEMMA MadeGrows ==
  ASSUME NEW n \in 1..5, NEW l \in Nat
  PROVE  Made(n, l + 1) \subseteq Made(n, l) \cup
           (IF Scripts[n][l + 1].op \in {"ensure", "create"} THEN {Scripts[n][l + 1].on} ELSE {})
  <1>1. 1..(l + 1) = (1..l) \cup {l + 1}
    OBVIOUS
  <1> QED
    BY <1>1 DEF Made

LEMMA MadeKeeps ==
  ASSUME NEW n, NEW l
  PROVE  Made(n, l) \cap {"task_refs", "task_refs_index", "task_refs_trigger"} = {}
  BY DEF Made

(* The column pub_ref stays from the first statement of script 4 on.        *)
LEMMA MadePubRef == "pub_ref" \in Made(4, 8)
  <1>1. Scripts[4][1].op = "create" /\ Scripts[4][1].on = "pub_ref"
    BY Statements4 DEF Create
  <1>2. 1 \in {i \in 1..8 : Scripts[4][i].op \in {"ensure", "create"}}
    BY <1>1
  <1> QED
    BY <1>1, <1>2 DEF Made

(* A step that leaves the database alone and begins no script.              *)
LEMMA QuietStep ==
  ASSUME StartupInv, UNCHANGED dbVars, TypeOK', Bookkeeping', Begun', Owner',
         \A q \in Processes : \/ line'[q] = 0
                              \/ script'[q] = script[q] /\ line'[q] = line[q]
  PROVE  StartupInv'
  <1> USE DEF StartupInv, dbVars, refVars
  <1>1. \A q \in Processes, n \in {3, 4} : Runs(q, n)' => Runs(q, n) /\ line'[q] = line[q]
    BY DEF TypeOK, Runs
  <1>2. Objects'
    <2>1. \A n \in versions' : Made(n, Len(Scripts[n])) \subseteq schema'
      BY DEF Objects
    <2>2. ASSUME NEW p \in Processes, script'[p] \in 1..5
          PROVE  Made(script'[p], line'[p]) \subseteq schema'
      BY <2>2, MadeNone DEF Objects
    <2> QED
      BY <2>1, <2>2 DEF Objects, Made
  <1>3. References'
    BY DEF References, AllTasks, AllNotes, OfKind, FirstRef, Distinct
  <1>4. InTaskRefs => InTaskRefs'
    BY <1>1 DEF InTaskRefs, AllTasks, OfKind, FirstRef, Distinct
  <1>5. Script3'
    BY <1>1, <1>4 DEF Script3, AllTasks, OfKind, FirstRef, Distinct
  <1>6. Script4'
    BY <1>1, <1>4 DEF Script4, AllTasks, AllNotes, OfKind, FirstRef
  <1> QED
    BY <1>2, <1>3, <1>5, <1>6

-----------------------------------------------------------------------------
(* What a statement leaves as it was.                                       *)

LEMMA StatementKeeps ==
  ASSUME TypeOK, NEW p \in Processes, RunStatement(p)
  PROVE  /\ UNCHANGED <<versions, live, seen, script>>
         /\ line' = [line EXCEPT ![p] = line[p] + 1] /\ line[p] \in 0..7
         /\ script[p] \in 1..5 /\ script[p] \notin seen[p]
         /\ line[p] < Len(Scripts[script[p]])
         /\ Statement(p) = Scripts[script[p]][line[p] + 1] /\ Possible(Statement(p))
  <1>1. script[p] \in 1..5 /\ line[p] < Len(Scripts[script[p]])
    BY ScriptTable DEF RunStatement, MoreLines, InScript
  <1>2. \A n \in 1..5 : Len(Scripts[n]) \in 0..8
    BY ScriptTable
  <1>3. line[p] \in 0..8
    BY DEF TypeOK
  <1>4. line[p] \in 0..7
    <2> DEFINE top == Len(Scripts[script[p]])
    <2>1. top \in 0..8 /\ line[p] < top
      BY <1>1, <1>2
    <2> HIDE DEF top
    <2> QED
      BY <1>3, <2>1
  <1> QED
    BY <1>1, <1>4 DEF RunStatement, MoreLines, InScript, Statement

LEMMA EffectOnSchema ==
  ASSUME NEW o, NEW s \in {Ensure(o), Create(o)}, TypeOK, NEW p \in Processes,
         RunStatement(p), Statement(p) = s
  PROVE  /\ schema' = schema \cup {o} /\ UNCHANGED refVars
         /\ s = Create(o) => o \notin schema
  <1>1. s.op \in {"ensure", "create"} /\ s.on = o /\ s.op # "raise" /\ s.op # "number"
        /\ (s = Create(o) => s.op = "create")
    BY DEF Ensure, Create
  <1>2. \A k : s # Raise(k) /\ s # Number(k)
    BY <1>1 DEF Raise, Number
  <1>3. NewTaskRefs(s) = taskRefs
    BY <1>1, <1>2 DEF NewTaskRefs
  <1>4. NewPubRef(s) = pubRef
    BY <1>2 DEF NewPubRef, TypeOK
  <1>5. NewNextRef(s) = nextRef
    BY <1>2 DEF NewNextRef, TypeOK
  <1>6. NewSchema(s) = schema \cup {o}
    BY <1>1 DEF NewSchema
  <1>7. s = Create(o) => o \notin schema
    BY <1>1 DEF RunStatement, Possible
  <1> QED
    BY <1>3, <1>4, <1>5, <1>6, <1>7 DEF RunStatement, refVars

LEMMA EffectOfNumber ==
  ASSUME TypeOK, NEW p \in Processes, RunStatement(p), NEW o, Statement(p) = Number(o)
  PROVE  /\ UNCHANGED <<schema, nextRef>>
         /\ o = "task_refs" => /\ UNCHANGED pubRef /\ taskRefs' = Numbered("task")
                               /\ \A i \in live : taskRefs[i] = 0
         /\ o # "task_refs" => UNCHANGED taskRefs
         /\ o = "tasks" => \A i \in Items : pubRef'[i] = IF i \in AllTasks THEN taskRefs[i] ELSE pubRef[i]
         /\ o = "notes" => \A i \in Items : pubRef'[i] = IF i \in AllNotes THEN Numbered("note")[i] ELSE pubRef[i]
         /\ DOMAIN pubRef' = Items
  <1> DEFINE s == Number(o)
  <1>1. s.op = "number" /\ (\A k : s # Raise(k)) /\ (\A x : s = Number(x) <=> o = x)
    BY DEF Number, Raise
  <1> HIDE DEF s
  <1>2. NewSchema(s) = schema
    BY <1>1 DEF NewSchema
  <1>3. NewNextRef(s) = nextRef
    BY <1>1 DEF NewNextRef, TypeOK
  <1>4. Statement(p) = s
    BY DEF s
  <1>5. NewTaskRefs(s) = IF o = "task_refs" THEN Numbered("task") ELSE taskRefs
    BY <1>1 DEF NewTaskRefs
  <1>6. o = "task_refs" => NewPubRef(s) = pubRef
    BY <1>1 DEF NewPubRef, TypeOK
  <1>7. o = "task_refs" => \A i \in live : taskRefs[i] = 0
    BY <1>1, <1>4 DEF RunStatement, Possible
  <1>8. o = "tasks" => \A i \in Items : NewPubRef(s)[i] = IF i \in AllTasks THEN taskRefs[i] ELSE pubRef[i]
    BY <1>1 DEF NewPubRef, AllTasks
  <1>9. o = "notes" => \A i \in Items : NewPubRef(s)[i] = IF i \in AllNotes THEN Numbered("note")[i] ELSE pubRef[i]
    BY <1>1 DEF NewPubRef, AllNotes
  <1>10. DOMAIN NewPubRef(s) = Items
    BY DEF NewPubRef
  <1> QED
    BY <1>2, <1>3, <1>4, <1>5, <1>6, <1>7, <1>8, <1>9, <1>10 DEF RunStatement

LEMMA EffectOfRaise ==
  ASSUME TypeOK, NEW p \in Processes, RunStatement(p), NEW k \in Kinds, Statement(p) = Raise(k)
  PROVE  /\ UNCHANGED <<schema, taskRefs, pubRef>>
         /\ nextRef' \in [Kinds -> Nat]
         /\ \A j \in Kinds : nextRef[j] <= nextRef'[j]
         /\ k = "task" => \A i \in Items : taskRefs[i] < FirstRef("task")'
         /\ k = "note" => \A i \in AllNotes : pubRef[i] < FirstRef("note")'
  <1> DEFINE s == Raise(k)
             Tasks == {taskRefs[i] : i \in Items}
             Notes == {pubRef[i] : i \in OfKind("note")}
  <1>1. s.op = "raise" /\ (\A o : s # Number(o)) /\ (\A x : s = Raise(x) <=> k = x)
    BY DEF Number, Raise
  <1>2. Statement(p) = s /\ s = Raise(k)
    OBVIOUS
  <1> HIDE DEF s
  <1>3. NewSchema(s) = schema /\ NewTaskRefs(s) = taskRefs
    BY <1>1 DEF NewSchema, NewTaskRefs
  <1>4. NewPubRef(s) = pubRef
    BY <1>1 DEF NewPubRef, TypeOK
  <1>5. IsFiniteSet(Tasks \ {0}) /\ Tasks \ {0} \in SUBSET Nat
    BY RangeFinite, FS_Subset DEF TypeOK
  <1>6. IsFiniteSet(Notes) /\ Notes \in SUBSET Nat
    <2>1. Notes \subseteq {pubRef[i] : i \in Items}
      BY DEF OfKind, TypeOK
    <2> QED
      BY <2>1, RangeFinite, FS_Subset DEF TypeOK
  <1>7. nextRef \in [Kinds -> Nat] /\ "task" \in Kinds /\ "note" \in Kinds
    BY DEF TypeOK, Kinds
  <1>8. /\ Raised("task", Tasks \ {0}) \in Nat /\ nextRef["task"] <= Raised("task", Tasks \ {0})
        /\ \A m \in Tasks \ {0} : m < Raised("task", Tasks \ {0})
    BY <1>5, <1>7, RaisedAbove
  <1>9. /\ Raised("note", Notes) \in Nat /\ nextRef["note"] <= Raised("note", Notes)
        /\ \A m \in Notes : m < Raised("note", Notes)
    BY <1>6, <1>7, RaisedAbove
  <1>10. \A j \in Kinds : NewNextRef(s)[j] =
            IF j # k THEN nextRef[j] ELSE IF j = "task" THEN Raised("task", Tasks \ {0}) ELSE Raised("note", Notes)
    BY <1>1 DEF NewNextRef, Kinds
  <1>11. NewNextRef(s) \in [Kinds -> Nat]
    <2>1. \A j \in Kinds : NewNextRef(s)[j] \in Nat
      BY <1>7, <1>8, <1>9, <1>10
    <2> QED
      BY <2>1 DEF NewNextRef
  <1>12. nextRef' = NewNextRef(s) /\ UNCHANGED <<schema, taskRefs, pubRef>>
    BY <1>2, <1>3, <1>4 DEF RunStatement
  <1>13. k = "task" => \A i \in Items : taskRefs[i] < FirstRef("task")'
    <2> SUFFICES ASSUME k = "task", NEW i \in Items
                 PROVE  taskRefs[i] < FirstRef("task")'
      OBVIOUS
    <2>1. nextRef'["task"] = Raised("task", Tasks \ {0}) /\ nextRef'["task"] \in Nat
      BY <1>7, <1>8, <1>10, <1>12
    <2>2. taskRefs[i] = 0 \/ taskRefs[i] \in Tasks \ {0}
      OBVIOUS
    <2>3. \A m \in Tasks \ {0} : m < nextRef'["task"]
      BY <1>8, <2>1
    <2>4. FirstRef("task")' \in Nat /\ FirstRef("task")' >= 1 /\ FirstRef("task")' >= nextRef'["task"]
      BY <2>1 DEF FirstRef
    <2>5. Tasks \ {0} \subseteq Nat
      BY <1>5
    <2> HIDE DEF Tasks
    <2> QED
      BY <2>1, <2>2, <2>3, <2>4, <2>5
  <1>14. k = "note" => \A i \in AllNotes : pubRef[i] < FirstRef("note")'
    <2> SUFFICES ASSUME k = "note", NEW i \in AllNotes
                 PROVE  pubRef[i] < FirstRef("note")'
      OBVIOUS
    <2>1. nextRef'["note"] = Raised("note", Notes) /\ nextRef'["note"] \in Nat
      BY <1>7, <1>9, <1>10, <1>12
    <2>2. pubRef[i] \in Notes
      BY DEF AllNotes
    <2>3. \A m \in Notes : m < nextRef'["note"]
      BY <1>9, <2>1
    <2>4. FirstRef("note")' \in Nat /\ FirstRef("note")' >= 1 /\ FirstRef("note")' >= nextRef'["note"]
      BY <2>1 DEF FirstRef
    <2>5. Notes \subseteq Nat
      BY <1>6
    <2> HIDE DEF Notes
    <2>6. pubRef[i] \in Nat /\ pubRef[i] < nextRef'["note"]
      BY <2>2, <2>3, <2>5
    <2> QED
      BY <2>1, <2>4, <2>6
  <1>15. \A j \in Kinds : nextRef[j] <= nextRef'[j]
    BY <1>7, <1>8, <1>9, <1>10, <1>12 DEF Kinds
  <1> QED
    BY <1>11, <1>12, <1>13, <1>14, <1>15

LEMMA EffectOfDrop ==
  ASSUME TypeOK, NEW p \in Processes, RunStatement(p), Statement(p) = Drop("task_refs")
  PROVE  /\ schema' = schema \ {"task_refs", "task_refs_index", "task_refs_trigger"}
         /\ taskRefs' = [i \in Items |-> 0] /\ UNCHANGED <<pubRef, nextRef>>
  <1> DEFINE s == Drop("task_refs")
  <1>1. s.op = "drop" /\ (\A k : s # Raise(k) /\ s # Number(k))
    BY DEF Drop, Raise, Number
  <1>2. Statement(p) = s
    OBVIOUS
  <1> HIDE DEF s
  <1>3. NewTaskRefs(s) = [i \in Items |-> 0]
    BY <1>1 DEF NewTaskRefs
  <1>4. NewPubRef(s) = pubRef /\ NewNextRef(s) = nextRef
    BY <1>1 DEF NewPubRef, NewNextRef, TypeOK
  <1>5. NewSchema(s) = schema \ {"task_refs", "task_refs_index", "task_refs_trigger"}
    BY <1>1 DEF NewSchema
  <1> QED
    BY <1>2, <1>3, <1>4, <1>5 DEF RunStatement

-----------------------------------------------------------------------------
(* A statement keeps the invariant.                                         *)

LEMMA StatementCases ==
  ASSUME TypeOK, NEW p \in Processes, RunStatement(p)
  PROVE  LET s == Statement(p)
             At(n, l) == script[p] = n /\ line[p] = l
         IN  \/ script[p] \in {1, 2, 5} /\ \E o \in Ensured : s = Ensure(o)
             \/ At(3, 0) /\ s = Create("task_refs")
             \/ At(3, 1) /\ s = Number("task_refs")
             \/ At(3, 2) /\ s = Raise("task")
             \/ At(3, 3) /\ s = Create("task_refs_index")
             \/ At(3, 4) /\ s = Create("task_refs_trigger")
             \/ At(4, 0) /\ s = Create("pub_ref")
             \/ At(4, 1) /\ s = Number("tasks")
             \/ At(4, 2) /\ s = Number("notes")
             \/ At(4, 3) /\ s = Raise("note")
             \/ At(4, 4) /\ s = Create("pub_ref_index")
             \/ At(4, 5) /\ s = Create("pub_ref_valid")
             \/ At(4, 6) /\ s = Create("pub_ref_fixed")
             \/ At(4, 7) /\ s = Drop("task_refs")
  <1>1. /\ script[p] \in 1..5 /\ line[p] \in 0..7 /\ line[p] < Len(Scripts[script[p]])
        /\ Statement(p) = Scripts[script[p]][line[p] + 1]
    BY StatementKeeps
  <1>2. CASE script[p] \in {1, 2, 5}
    <2>1. line[p] + 1 \in 1..Len(Scripts[script[p]])
      BY <1>1, <1>2, ScriptTable
    <2>2. \E o \in Ensured : Statement(p) = Ensure(o)
      BY <1>1, <1>2, <2>1, StatementsOfOthers
    <2> QED
      BY <1>2, <2>2
  <1>3. CASE script[p] = 3
    BY <1>1, <1>3, Statements3, ScriptTable
  <1>4. CASE script[p] = 4
    BY <1>1, <1>4, Statements4, ScriptTable
  <1> QED
    BY <1>1, <1>2, <1>3, <1>4

LEMMA StatementObjects ==
  ASSUME StartupInv, NEW p \in Processes, RunStatement(p), UNCHANGED startVars
  PROVE  TypeOK' /\ Bookkeeping' /\ Objects'
  <1> USE DEF StartupInv
  <1>1. /\ UNCHANGED <<versions, live, seen, script>>
        /\ line' = [line EXCEPT ![p] = line[p] + 1] /\ line[p] \in 0..7
        /\ script[p] \in 1..5 /\ script[p] \notin seen[p]
        /\ line[p] < Len(Scripts[script[p]])
        /\ Statement(p) = Scripts[script[p]][line[p] + 1]
    BY StatementKeeps
  <1> DEFINE s == Statement(p)
             known == {x.on : x \in UNION {{Scripts[n][l] : l \in DOMAIN Scripts[n]} : n \in DOMAIN Scripts}}
  <1>2. s.on \in known
    <2>1. script[p] \in DOMAIN Scripts /\ line[p] + 1 \in DOMAIN Scripts[script[p]]
      BY <1>1, ScriptTable
    <2> QED
      BY <1>1, <2>1
  <1>3. /\ schema' = schema \cup {s.on} \/ schema' = schema
           \/ schema' = schema \ {"task_refs", "task_refs_index", "task_refs_trigger"}
        /\ s.op \in {"ensure", "create"} => schema' = schema \cup {s.on}
    BY DEF RunStatement, NewSchema
  <1>4. taskRefs' \in [Items -> Nat]
    <2>1. NewTaskRefs(s) \in [Items -> Nat]
      BY NumberedDistinct DEF NewTaskRefs, TypeOK, Kinds
    <2> QED
      BY <2>1 DEF RunStatement
  <1>5. pubRef' \in [Items -> Nat]
    <2>1. Numbered("task") \in [Items -> Nat] /\ Numbered("note") \in [Items -> Nat]
      BY NumberedDistinct DEF TypeOK, Kinds
    <2>2. \A i \in Items : NewPubRef(s)[i] \in Nat
      BY <2>1 DEF NewPubRef, TypeOK
    <2>3. NewPubRef(s) \in [Items -> Nat]
      BY <2>2 DEF NewPubRef
    <2> QED
      BY <2>3 DEF RunStatement
  <1>6. nextRef' \in [Kinds -> Nat]
    <2>1. CASE \E k \in Kinds : s = Raise(k)
      BY <2>1, EffectOfRaise
    <2>2. CASE \A k \in Kinds : s # Raise(k)
      <3>1. NewNextRef(s) = nextRef
        BY <2>2 DEF NewNextRef, TypeOK
      <3> QED
        BY <3>1 DEF RunStatement, TypeOK
    <2> QED
      BY <2>1, <2>2
  <1>7. TypeOK'
    <2>1. schema' \subseteq known
      BY <1>2, <1>3 DEF TypeOK
    <2>2. line' \in [Processes -> 0..8]
      BY <1>1 DEF TypeOK
    <2> QED
      BY <1>1, <1>4, <1>5, <1>6, <2>1, <2>2 DEF TypeOK, startVars
  <1>8. Bookkeeping'
    <2>1. line[p] + 1 <= Len(Scripts[script[p]])
      BY <1>1, ScriptTable
    <2>2. \A q \in Processes : line'[q] = IF q = p THEN line[p] + 1 ELSE line[q]
      BY <1>1 DEF TypeOK
    <2> QED
      BY <1>1, <2>1, <2>2 DEF Bookkeeping, startVars
  <1>9. Objects'
    <2>1. \A n, l : Made(n, l) \subseteq schema => Made(n, l) \subseteq schema'
      BY <1>3, MadeKeeps
    <2>2. \A n, l : Made(n, l)' = Made(n, l)
      BY DEF Made
    <2>3. \A n \in versions' : Made(n, Len(Scripts[n])) \subseteq schema'
      BY <1>1, <2>1 DEF Objects
    <2>4. ASSUME NEW q \in Processes, script[q] \in 1..5, q # p
          PROVE  Made(script[q], line'[q]) \subseteq schema'
      BY <1>1, <2>1, <2>4 DEF Objects, TypeOK
    <2>5. Made(script[p], line[p] + 1) \subseteq schema'
      <3>1. Made(script[p], line[p]) \subseteq schema'
        BY <1>1, <2>1 DEF Objects
      <3>2. Made(script[p], line[p] + 1) \subseteq Made(script[p], line[p]) \cup
              (IF s.op \in {"ensure", "create"} THEN {s.on} ELSE {})
        <4>1. line[p] \in Nat
          BY <1>1
        <4> HIDE DEF s
        <4>2. s = Scripts[script[p]][line[p] + 1]
          BY <1>1 DEF s
        <4> QED
          BY <1>1, <4>1, <4>2, MadeGrows
      <3> QED
        BY <1>3, <3>1, <3>2
    <2>6. line'[p] = line[p] + 1
      BY <1>1 DEF TypeOK
    <2>7. \A q \in Processes : script'[q] \in 1..5 => Made(script'[q], line'[q]) \subseteq schema'
      BY <1>1, <2>4, <2>5, <2>6
    <2> QED
      BY <2>2, <2>3, <2>7 DEF Objects
  <1> QED
    BY <1>7, <1>8, <1>9

(* The processes that run a script before and after a statement of p.       *)
LEMMA RunsAfter ==
  ASSUME TypeOK, NEW p \in Processes, RunStatement(p)
  PROVE  /\ \A q \in Processes, n \in 1..5 :
              Runs(q, n)' <=> IF q = p THEN script[p] = n ELSE Runs(q, n)
         /\ \A q \in Processes : q # p => line'[q] = line[q]
         /\ line'[p] = line[p] + 1 /\ script' = script
         /\ line[p] \in 0..7 /\ script[p] \in 1..5
  <1>1. /\ script' = script /\ line' = [line EXCEPT ![p] = line[p] + 1]
        /\ line[p] \in 0..7 /\ script[p] \in 1..5
    BY StatementKeeps
  <1>2. \A q \in Processes : q # p => line'[q] = line[q]
    BY <1>1 DEF TypeOK
  <1>3. line'[p] = line[p] + 1 /\ line[p] + 1 > 0
    BY <1>1 DEF TypeOK
  <1> QED
    BY <1>1, <1>2, <1>3 DEF Runs

Others == References /\ Script3 /\ Script4 /\ Begun

LEMMA OtherScripts ==
  ASSUME StartupInv, NEW p \in Processes, RunStatement(p), UNCHANGED startVars,
         script[p] \in {1, 2, 5}, NEW o \in Ensured, Statement(p) = Ensure(o)
  PROVE  Others'
  <1> USE DEF StartupInv
  <1>1. /\ \A q \in Processes, n \in {3, 4} : Runs(q, n)' => q # p /\ Runs(q, n) /\ line'[q] = line[q]
        /\ \A q \in Processes, n \in {3, 4} : Runs(q, n) => Runs(q, n)'
        /\ UNCHANGED <<versions, live, stops>>
    BY RunsAfter, StatementKeeps DEF startVars, Runs
  <1>2. /\ schema' = schema \cup {o} /\ UNCHANGED <<taskRefs, pubRef, nextRef>>
    BY EffectOnSchema DEF refVars
  <1>3. \A x \in {"task_refs", "task_refs_index", "task_refs_trigger",
               "pub_ref", "pub_ref_index", "pub_ref_valid", "pub_ref_fixed"} :
          x \in schema' <=> x \in schema
    BY <1>2 DEF Ensured
  <1>4. References'
    BY <1>1, <1>2 DEF References, AllTasks, AllNotes, OfKind, FirstRef, Distinct
  <1>5. InTaskRefs => InTaskRefs'
    BY <1>1, <1>2, <1>3 DEF InTaskRefs, AllTasks, OfKind, FirstRef, Distinct
  <1>6. Script3'
    BY <1>1, <1>2, <1>3, <1>5 DEF Script3, AllTasks, OfKind, FirstRef, Distinct
  <1>7. Script4'
    BY <1>1, <1>2, <1>3, <1>5 DEF Script4, AllTasks, AllNotes, OfKind, FirstRef
  <1>8. Begun'
    BY <1>1, <1>3 DEF Begun
  <1> QED
    BY <1>4, <1>6, <1>7, <1>8 DEF Others

(* Whoever is in script 3 after the recording of it has left pub_ref behind.*)
LEMMA NoTaskRefsNow ==
  ASSUME StartupInv, NEW p \in Processes, Runs(p, 3)
  PROVE  /\ ~InTaskRefs /\ (3 \in versions => "pub_ref" \in schema)
         /\ \A q \in Processes : Runs(q, 4) => line[q] = 8
         /\ "task_refs" \in schema
  <1>1. ~InTaskRefs
    BY DEF InTaskRefs
  <1>2. \A q \in Processes : line[q] \in 0..8
    BY DEF StartupInv, TypeOK
  <1> QED
    BY <1>1, <1>2 DEF StartupInv, Script3, Script4

LEMMA Script3Begins ==
  ASSUME StartupInv, NEW p \in Processes, RunStatement(p), UNCHANGED startVars,
         script[p] = 3, line[p] = 0, Statement(p) = Create("task_refs")
  PROVE  Others'
  <1> USE DEF StartupInv
  <1>1. /\ \A q \in Processes : Runs(q, 3)' <=> q = p \/ Runs(q, 3)
        /\ \A q \in Processes : Runs(q, 4)' <=> Runs(q, 4)
        /\ \A q \in Processes : q # p => line'[q] = line[q]
        /\ line'[p] = 1 /\ ~Runs(p, 4)
        /\ UNCHANGED <<versions, live, stops>>
    BY RunsAfter, StatementKeeps DEF startVars, Runs
  <1>2. /\ schema' = schema \cup {"task_refs"} /\ UNCHANGED <<taskRefs, pubRef, nextRef>>
        /\ "task_refs" \notin schema
    BY EffectOnSchema DEF refVars
  <1>3. (\A q \in Processes : ~Runs(q, 3)) /\ ~InTaskRefs
        /\ "task_refs_index" \notin schema /\ "task_refs_trigger" \notin schema
        /\ \A i \in Items : taskRefs[i] = 0
    BY <1>2 DEF Script3, InTaskRefs
  <1>4. References'
    BY <1>1, <1>2 DEF References, AllTasks, AllNotes, OfKind, FirstRef, Distinct
  <1>5. \A q \in Processes : Runs(q, 4) => line[q] = 8
    <2>1. \A q \in Processes : line[q] \in 0..8
      BY DEF TypeOK
    <2> QED
      BY <1>3, <2>1 DEF Script4
  <1>6. 3 \in versions' => "pub_ref" \in schema'
    BY <1>1, <1>2, <1>3 DEF Script3
  <1>7. Script3'
    BY <1>1, <1>2, <1>3, <1>6 DEF Script3
  <1>8. Script4'
    BY <1>1, <1>2, <1>3, <1>5 DEF Script4, AllTasks, AllNotes, OfKind, FirstRef
  <1>9. Begun'
    BY <1>1, <1>2 DEF Begun
  <1> QED
    BY <1>4, <1>7, <1>8, <1>9 DEF Others

LEMMA Script3Numbers ==
  ASSUME StartupInv, NEW p \in Processes, RunStatement(p), UNCHANGED startVars,
         script[p] = 3, line[p] = 1, Statement(p) = Number("task_refs")
  PROVE  Others'
  <1> USE DEF StartupInv
  <1>1. /\ \A q \in Processes, n \in {3, 4} : Runs(q, n)' <=> Runs(q, n)
        /\ \A q \in Processes : q # p => line'[q] = line[q]
        /\ line'[p] = 2 /\ ~Runs(p, 4) /\ Runs(p, 3)
        /\ UNCHANGED <<versions, live, stops>>
    BY RunsAfter, StatementKeeps DEF startVars, Runs
  <1>2. UNCHANGED <<schema, pubRef, nextRef>> /\ taskRefs' = Numbered("task")
    BY EffectOfNumber
  <1>3. /\ \A i \in Items : taskRefs'[i] # 0 <=> i \in AllTasks
        /\ Distinct(taskRefs', AllTasks)
    BY <1>2, NumberedDistinct DEF TypeOK, Kinds, AllTasks
  <1>4. References'
    BY <1>1, <1>2, <1>3 DEF References, AllTasks, AllNotes, OfKind, FirstRef, Distinct
  <1>5. /\ 3 \in versions => "pub_ref" \in schema
        /\ \A q \in Processes : Runs(q, 4) => line[q] = 8
        /\ "task_refs" \in schema
    BY <1>1, NoTaskRefsNow
  <1>6. AllTasks' = AllTasks /\ AllTasks \subseteq Items
    BY <1>1 DEF AllTasks, OfKind, TypeOK
  <1>7. \A q \in Processes : Runs(q, 3) => q = p
    BY <1>1 DEF Script3
  <1>8. Script3'
    <2>1. Distinct(taskRefs, AllTasks)'
      BY <1>3, <1>6 DEF Distinct
    <2>2. \A i \in AllTasks' : taskRefs'[i] # 0
      BY <1>3, <1>6
    <2> QED
      BY <1>1, <1>2, <1>5, <1>7, <2>1, <2>2 DEF Script3
  <1>9. Script4'
    BY <1>1, <1>2, <1>5 DEF Script4, AllTasks, AllNotes, OfKind, FirstRef
  <1>10. Begun'
    BY <1>1, <1>2 DEF Begun
  <1> QED
    BY <1>4, <1>8, <1>9, <1>10 DEF Others

LEMMA Script3Raises ==
  ASSUME StartupInv, NEW p \in Processes, RunStatement(p), UNCHANGED startVars,
         script[p] = 3, line[p] = 2, Statement(p) = Raise("task")
  PROVE  Others'
  <1> USE DEF StartupInv
  <1>1. /\ \A q \in Processes, n \in {3, 4} : Runs(q, n)' <=> Runs(q, n)
        /\ \A q \in Processes : q # p => line'[q] = line[q]
        /\ line[p] = 2 /\ line'[p] = 3 /\ ~Runs(p, 4) /\ Runs(p, 3)
        /\ UNCHANGED <<versions, live, stops>>
    BY RunsAfter, StatementKeeps DEF startVars, Runs
  <1>2. /\ UNCHANGED <<schema, taskRefs, pubRef>>
        /\ \A k \in Kinds : nextRef[k] <= nextRef'[k]
        /\ nextRef' \in [Kinds -> Nat]
        /\ \A i \in Items : taskRefs[i] < FirstRef("task")'
    BY EffectOfRaise DEF Kinds
  <1>3. \A k \in Kinds : FirstRef(k) <= FirstRef(k)' /\ FirstRef(k) \in Nat /\ FirstRef(k)' \in Nat
    BY <1>2 DEF FirstRef, TypeOK
  <1>4. AllTasks' = AllTasks /\ AllTasks \subseteq Items /\ AllNotes' = AllNotes /\ AllNotes \subseteq Items
        /\ \A k : OfKind(k)' = OfKind(k)
    BY <1>1 DEF AllTasks, AllNotes, OfKind, TypeOK
  <1>5. References'
    <2>1. \A i \in Items : pubRef[i] \in Nat /\ ("task" \in Kinds /\ "note" \in Kinds)
      BY DEF TypeOK, Kinds
    <2>2. /\ \A i \in AllTasks : pubRef[i] < FirstRef("task")'
          /\ 4 \in versions => \A i \in AllNotes : pubRef[i] < FirstRef("note")'
      BY <1>3, <1>4, <2>1 DEF References
    <2> QED
      BY <1>1, <1>2, <1>4, <2>2 DEF References, Distinct
  <1>6. /\ 3 \in versions => "pub_ref" \in schema
        /\ \A q \in Processes : Runs(q, 4) => line[q] = 8
    BY <1>1, NoTaskRefsNow
  <1>7. \A q \in Processes : Runs(q, 3) => q = p
    BY <1>1 DEF Script3
  <1>8. Script3'
    BY <1>1, <1>2, <1>4, <1>6, <1>7 DEF Script3, Distinct
  <1>9. Script4'
    <2>1. ASSUME NEW q \in Processes, Runs(q, 4)
          PROVE  \A i \in AllNotes : pubRef[i] < FirstRef("note")'
      <3>1. line[q] = 8
        BY <1>6, <2>1
      <3>2. \A i \in AllNotes : pubRef[i] < FirstRef("note")
        BY <2>1, <3>1 DEF Script4
      <3> QED
        BY <1>3, <1>4, <3>2 DEF TypeOK, Kinds
    <2> QED
      BY <1>1, <1>2, <1>4, <1>6, <2>1 DEF Script4
  <1>10. Begun'
    BY <1>1, <1>2 DEF Begun
  <1> QED
    BY <1>5, <1>8, <1>9, <1>10 DEF Others

LEMMA Script3Creates ==
  ASSUME StartupInv, NEW p \in Processes, RunStatement(p), UNCHANGED startVars,
         script[p] = 3, NEW o \in {"task_refs_index", "task_refs_trigger"}, Statement(p) = Create(o),
         line[p] = IF o = "task_refs_index" THEN 3 ELSE 4
  PROVE  Others'
  <1> USE DEF StartupInv
  <1>1. /\ \A q \in Processes, n \in {3, 4} : Runs(q, n)' <=> Runs(q, n)
        /\ \A q \in Processes : q # p => line'[q] = line[q]
        /\ line[p] \in {3, 4} /\ line'[p] = line[p] + 1 /\ ~Runs(p, 4) /\ Runs(p, 3)
        /\ UNCHANGED <<versions, live, stops>>
    BY RunsAfter, StatementKeeps DEF startVars, Runs
  <1>2. schema' = schema \cup {o} /\ UNCHANGED <<taskRefs, pubRef, nextRef>>
    BY EffectOnSchema DEF refVars
  <1>3. References'
    BY <1>1, <1>2 DEF References, AllTasks, AllNotes, OfKind, FirstRef, Distinct
  <1>4. /\ 3 \in versions => "pub_ref" \in schema
        /\ \A q \in Processes : Runs(q, 4) => line[q] = 8
        /\ "task_refs" \in schema
    BY <1>1, NoTaskRefsNow
  <1>5. \A q \in Processes : Runs(q, 3) => q = p
    BY <1>1 DEF Script3
  <1>6. Script3'
    <2>1. "task_refs_trigger" \notin schema
      BY <1>1 DEF Script3
    <2> QED
      BY <1>1, <1>2, <1>4, <1>5, <2>1 DEF Script3, AllTasks, OfKind, FirstRef, Distinct
  <1>7. Script4'
    BY <1>1, <1>2, <1>4 DEF Script4, AllTasks, AllNotes, OfKind, FirstRef
  <1>8. Begun'
    BY <1>1, <1>2 DEF Begun
  <1> QED
    BY <1>3, <1>6, <1>7, <1>8 DEF Others

(* What the process in script 4 knows.                                      *)
LEMMA InScript4 ==
  ASSUME StartupInv, NEW p \in Processes, Runs(p, 4), RunStatement(p), UNCHANGED startVars
  PROVE  /\ \A q \in Processes, n \in {3, 4} : Runs(q, n)' <=> Runs(q, n)
         /\ line'[p] = line[p] + 1
         /\ \A q \in Processes : ~Runs(q, 4) => line'[q] = line[q]
         /\ \A q \in Processes : Runs(q, 4) => q = p
         /\ \A q \in Processes : ~Runs(q, 3)
         /\ 4 \notin versions /\ "pub_ref" \in schema /\ line[p] \in 1..7 /\ InTaskRefs
         /\ UNCHANGED <<versions, live, stops>>
         /\ AllTasks' = AllTasks /\ AllNotes' = AllNotes /\ \A k : OfKind(k)' = OfKind(k)
         /\ AllTasks \subseteq Items /\ AllNotes \subseteq Items
  <1> USE DEF StartupInv
  <1>1. /\ \A q \in Processes, n \in {3, 4} : Runs(q, n)' <=> Runs(q, n)
        /\ line'[p] = line[p] + 1 /\ \A q \in Processes : q # p => line'[q] = line[q]
        /\ UNCHANGED <<versions, live, stops>>
    BY RunsAfter, StatementKeeps DEF startVars, Runs
  <1>2. line[p] \in 1..7
    BY RunsAfter DEF Runs
  <1>3. 4 \notin versions /\ "pub_ref" \in schema /\ InTaskRefs
    BY <1>2 DEF Script4
  <1>4. \A q \in Processes : (Runs(q, 4) => q = p) /\ ~Runs(q, 3)
    BY <1>3 DEF Script4, InTaskRefs
  <1>5. /\ AllTasks' = AllTasks /\ AllNotes' = AllNotes /\ \A k : OfKind(k)' = OfKind(k)
        /\ AllTasks \subseteq Items /\ AllNotes \subseteq Items
    BY <1>1 DEF AllTasks, AllNotes, OfKind, TypeOK
  <1> QED
    BY <1>1, <1>2, <1>3, <1>4, <1>5

LEMMA Script4Begins ==
  ASSUME StartupInv, NEW p \in Processes, RunStatement(p), UNCHANGED startVars,
         script[p] = 4, line[p] = 0, Statement(p) = Create("pub_ref")
  PROVE  Others'
  <1> USE DEF StartupInv
  <1>1. /\ \A q \in Processes : Runs(q, 4)' <=> q = p \/ Runs(q, 4)
        /\ \A q \in Processes : Runs(q, 3)' <=> Runs(q, 3)
        /\ \A q \in Processes : q # p => line'[q] = line[q]
        /\ line'[p] = 1 /\ ~Runs(p, 3)
        /\ UNCHANGED <<versions, live, stops>>
    BY RunsAfter, StatementKeeps DEF startVars, Runs
  <1>2. /\ schema' = schema \cup {"pub_ref"} /\ UNCHANGED <<taskRefs, pubRef, nextRef>>
        /\ "pub_ref" \notin schema
    BY EffectOnSchema DEF refVars
  <1>3. 4 \notin versions
    BY <1>2, MadePubRef, ScriptTable DEF Objects
  <1>4. 3 \in versions
    BY DEF Bookkeeping
  <1>5. /\ InTaskRefs /\ (\A q \in Processes : ~Runs(q, 4))
        /\ schema \cap {"pub_ref_index", "pub_ref_valid", "pub_ref_fixed"} = {} /\ \A i \in Items : pubRef[i] = 0
    BY <1>2, <1>4 DEF Script3, Script4
  <1>6. \A q \in Processes : ~Runs(q, 3)
    BY <1>5 DEF InTaskRefs
  <1>7. References'
    BY <1>1, <1>2 DEF References, AllTasks, AllNotes, OfKind, FirstRef, Distinct
  <1>8. InTaskRefs'
    BY <1>1, <1>2, <1>5 DEF InTaskRefs, AllTasks, OfKind, FirstRef, Distinct
  <1>9. Script3'
    BY <1>1, <1>2, <1>6, <1>8 DEF Script3
  <1>10. AllTasks' \subseteq Items /\ AllNotes' \subseteq Items
    BY <1>1 DEF AllTasks, AllNotes, OfKind, TypeOK
  <1>11. Script4'
    BY <1>1, <1>2, <1>3, <1>5, <1>8, <1>10 DEF Script4
  <1>12. Begun'
    BY <1>1, <1>2 DEF Begun
  <1> QED
    BY <1>7, <1>9, <1>11, <1>12 DEF Others

LEMMA Script4NumbersTasks ==
  ASSUME StartupInv, NEW p \in Processes, RunStatement(p), UNCHANGED startVars,
         Runs(p, 4), line[p] = 1, Statement(p) = Number("tasks")
  PROVE  Others'
  <1> USE DEF StartupInv
  <1>1. /\ \A q \in Processes, n \in {3, 4} : Runs(q, n)' <=> Runs(q, n)
        /\ line'[p] = 2 /\ \A q \in Processes : Runs(q, 4) => q = p
        /\ \A q \in Processes : ~Runs(q, 3)
        /\ 4 \notin versions /\ "pub_ref" \in schema /\ InTaskRefs
        /\ UNCHANGED <<versions, live, stops>>
        /\ AllTasks' = AllTasks /\ AllNotes' = AllNotes /\ (\A k : OfKind(k)' = OfKind(k))
        /\ AllTasks \subseteq Items /\ AllNotes \subseteq Items
    BY InScript4
  <1>2. /\ UNCHANGED <<schema, nextRef, taskRefs>>
        /\ \A i \in Items : pubRef'[i] = IF i \in AllTasks THEN taskRefs[i] ELSE pubRef[i]
    BY EffectOfNumber
  <1>3. AllTasks \cap AllNotes = {} /\ AllTasks \subseteq live /\ \A k \in Kinds : k = "task" \/ k = "note"
    BY KindsSplit DEF TypeOK, Kinds
  <1>4. References'
    <2>1. \A i \in Items : /\ taskRefs'[i] # 0 => i \in AllTasks'
                           /\ pubRef'[i] # 0 => i \in live'
      BY <1>1, <1>2, <1>3 DEF References
    <2>2. ASSUME NEW k \in Kinds, NEW i \in OfKind(k), NEW j \in OfKind(k),
                 pubRef'[i] # 0, pubRef'[i] = pubRef'[j]
          PROVE  i = j
      <3>1. CASE k = "task"
        BY <1>1, <1>2, <2>2, <3>1 DEF InTaskRefs, Distinct, AllTasks
      <3>2. CASE k = "note"
        BY <1>1, <1>2, <1>3, <2>2, <3>2 DEF References, Distinct, AllNotes
      <3> QED
        BY <1>3, <3>1, <3>2
    <2>3. \A k \in Kinds : Distinct(pubRef, {i \in OfKind(k) : pubRef[i] # 0})'
      BY <1>1, <2>2 DEF Distinct
    <2>4. \A i \in AllTasks' : pubRef'[i] < FirstRef("task")'
      BY <1>1, <1>2 DEF InTaskRefs, FirstRef
    <2> QED
      BY <1>1, <2>1, <2>3, <2>4 DEF References
  <1>5. InTaskRefs'
    BY <1>1, <1>2 DEF InTaskRefs, FirstRef, Distinct
  <1>6. Script3'
    BY <1>1, <1>2, <1>5 DEF Script3
  <1>7. Script4'
    <2>1. \A i \in AllNotes : pubRef'[i] = 0
      BY <1>1, <1>2, <1>3 DEF Script4
    <2>2. \A i \in AllTasks : pubRef'[i] # 0
      BY <1>1, <1>2 DEF InTaskRefs
    <2> QED
      BY <1>1, <1>2, <1>5, <2>1, <2>2 DEF Script4
  <1>8. Begun'
    BY <1>1, <1>2 DEF Begun
  <1> QED
    BY <1>4, <1>6, <1>7, <1>8 DEF Others

LEMMA Script4NumbersNotes ==
  ASSUME StartupInv, NEW p \in Processes, RunStatement(p), UNCHANGED startVars,
         Runs(p, 4), line[p] = 2, Statement(p) = Number("notes")
  PROVE  Others'
  <1> USE DEF StartupInv
  <1>1. /\ \A q \in Processes, n \in {3, 4} : Runs(q, n)' <=> Runs(q, n)
        /\ line'[p] = 3 /\ \A q \in Processes : Runs(q, 4) => q = p
        /\ \A q \in Processes : ~Runs(q, 3)
        /\ 4 \notin versions /\ "pub_ref" \in schema /\ InTaskRefs
        /\ UNCHANGED <<versions, live, stops>>
        /\ AllTasks' = AllTasks /\ AllNotes' = AllNotes /\ (\A k : OfKind(k)' = OfKind(k))
        /\ AllTasks \subseteq Items /\ AllNotes \subseteq Items
    BY InScript4
  <1>2. /\ UNCHANGED <<schema, nextRef, taskRefs>>
        /\ \A i \in Items : pubRef'[i] = IF i \in AllNotes THEN Numbered("note")[i] ELSE pubRef[i]
    BY EffectOfNumber
  <1>3. AllTasks \cap AllNotes = {} /\ AllNotes \subseteq live /\ \A k \in Kinds : k = "task" \/ k = "note"
    BY KindsSplit DEF TypeOK, Kinds
  <1>4. /\ \A i \in Items : Numbered("note")[i] # 0 <=> i \in AllNotes
        /\ Distinct(Numbered("note"), AllNotes)
    BY NumberedDistinct DEF TypeOK, Kinds, AllNotes
  <1>5. References'
    <2>1. \A i \in Items : /\ taskRefs'[i] # 0 => i \in AllTasks'
                           /\ pubRef'[i] # 0 => i \in live'
      BY <1>1, <1>2, <1>3 DEF References
    <2>2. ASSUME NEW k \in Kinds, NEW i \in OfKind(k), NEW j \in OfKind(k),
                 pubRef'[i] # 0, pubRef'[i] = pubRef'[j]
          PROVE  i = j
      <3>1. CASE k = "note"
        BY <1>1, <1>2, <1>4, <2>2, <3>1 DEF Distinct, AllNotes
      <3>2. CASE k = "task"
        BY <1>1, <1>2, <1>3, <2>2, <3>2 DEF References, Distinct, AllTasks
      <3> QED
        BY <1>3, <3>1, <3>2
    <2>3. \A k \in Kinds : Distinct(pubRef, {i \in OfKind(k) : pubRef[i] # 0})'
      BY <1>1, <2>2 DEF Distinct
    <2>4. \A i \in AllTasks' : pubRef'[i] < FirstRef("task")'
      BY <1>1, <1>2, <1>3 DEF References, FirstRef
    <2> QED
      BY <1>1, <2>1, <2>3, <2>4 DEF References
  <1>6. InTaskRefs'
    BY <1>1, <1>2 DEF InTaskRefs, FirstRef, Distinct
  <1>7. Script3'
    BY <1>1, <1>2, <1>6 DEF Script3
  <1>8. Script4'
    <2>1. \A i \in AllNotes : pubRef'[i] # 0
      BY <1>1, <1>2, <1>4
    <2>2. \A i \in AllTasks : pubRef'[i] # 0
      BY <1>1, <1>2, <1>3 DEF Script4
    <2> QED
      BY <1>1, <1>2, <1>6, <2>1, <2>2 DEF Script4
  <1>9. Begun'
    BY <1>1, <1>2 DEF Begun
  <1> QED
    BY <1>5, <1>7, <1>8, <1>9 DEF Others

LEMMA Script4Raises ==
  ASSUME StartupInv, NEW p \in Processes, RunStatement(p), UNCHANGED startVars,
         Runs(p, 4), line[p] = 3, Statement(p) = Raise("note")
  PROVE  Others'
  <1> USE DEF StartupInv
  <1>1. /\ \A q \in Processes, n \in {3, 4} : Runs(q, n)' <=> Runs(q, n)
        /\ line'[p] = 4 /\ \A q \in Processes : Runs(q, 4) => q = p
        /\ \A q \in Processes : ~Runs(q, 3)
        /\ 4 \notin versions /\ "pub_ref" \in schema /\ InTaskRefs
        /\ UNCHANGED <<versions, live, stops>>
        /\ AllTasks' = AllTasks /\ AllNotes' = AllNotes /\ (\A k : OfKind(k)' = OfKind(k))
        /\ AllTasks \subseteq Items /\ AllNotes \subseteq Items
    BY InScript4
  <1>2. /\ UNCHANGED <<schema, taskRefs, pubRef>>
        /\ \A k \in Kinds : nextRef[k] <= nextRef'[k]
        /\ nextRef' \in [Kinds -> Nat]
        /\ \A i \in AllNotes : pubRef[i] < FirstRef("note")'
    BY EffectOfRaise DEF Kinds
  <1>3. FirstRef("task") <= FirstRef("task")' /\ FirstRef("task") \in Nat /\ FirstRef("task")' \in Nat
    BY <1>2 DEF FirstRef, TypeOK, Kinds
  <1>4. \A i \in Items : pubRef[i] \in Nat /\ taskRefs[i] \in Nat
    BY DEF TypeOK
  <1>5. References'
    <2>1. \A i \in AllTasks : pubRef[i] < FirstRef("task")'
      BY <1>1, <1>3, <1>4 DEF References
    <2> QED
      BY <1>1, <1>2, <2>1 DEF References, Distinct
  <1>6. InTaskRefs'
    <2>1. \A i \in AllTasks : taskRefs[i] # 0 /\ taskRefs[i] < FirstRef("task")'
      BY <1>1, <1>3, <1>4 DEF InTaskRefs
    <2> QED
      BY <1>1, <1>2, <2>1 DEF InTaskRefs, Distinct
  <1>7. Script3'
    BY <1>1, <1>2, <1>6 DEF Script3
  <1>8. Script4'
    BY <1>1, <1>2, <1>6 DEF Script4
  <1>9. Begun'
    BY <1>1, <1>2 DEF Begun
  <1> QED
    BY <1>5, <1>7, <1>8, <1>9 DEF Others

LEMMA Script4Creates ==
  ASSUME StartupInv, NEW p \in Processes, RunStatement(p), UNCHANGED startVars,
         Runs(p, 4), NEW o \in {"pub_ref_index", "pub_ref_valid", "pub_ref_fixed"}, Statement(p) = Create(o),
         line[p] = IF o = "pub_ref_index" THEN 4 ELSE IF o = "pub_ref_valid" THEN 5 ELSE 6
  PROVE  Others'
  <1> USE DEF StartupInv
  <1>1. /\ \A q \in Processes, n \in {3, 4} : Runs(q, n)' <=> Runs(q, n)
        /\ line'[p] = line[p] + 1 /\ \A q \in Processes : Runs(q, 4) => q = p
        /\ \A q \in Processes : ~Runs(q, 3)
        /\ 4 \notin versions /\ "pub_ref" \in schema /\ InTaskRefs
        /\ UNCHANGED <<versions, live, stops>>
        /\ AllTasks' = AllTasks /\ AllNotes' = AllNotes /\ (\A k : OfKind(k)' = OfKind(k))
        /\ AllTasks \subseteq Items /\ AllNotes \subseteq Items
    BY InScript4
  <1>2. schema' = schema \cup {o} /\ UNCHANGED <<taskRefs, pubRef, nextRef>>
    BY EffectOnSchema DEF refVars
  <1>3. References'
    BY <1>1, <1>2 DEF References, FirstRef, Distinct
  <1>4. InTaskRefs'
    BY <1>1, <1>2 DEF InTaskRefs, FirstRef, Distinct
  <1>5. Script3'
    BY <1>1, <1>2, <1>4 DEF Script3
  <1>6. Script4'
    <2>1. /\ \A i \in AllTasks : pubRef[i] # 0
          /\ \A i \in AllNotes : pubRef[i] # 0 /\ pubRef[i] < FirstRef("note")
          /\ line[p] <= 5 => "pub_ref_valid" \notin schema
          /\ "pub_ref_fixed" \notin schema
      BY <1>1 DEF Script4
    <2> QED
      BY <1>1, <1>2, <1>4, <2>1 DEF Script4, FirstRef
  <1>7. Begun'
    BY <1>1, <1>2 DEF Begun
  <1> QED
    BY <1>3, <1>5, <1>6, <1>7 DEF Others

LEMMA Script4Drops ==
  ASSUME StartupInv, NEW p \in Processes, RunStatement(p), UNCHANGED startVars,
         Runs(p, 4), line[p] = 7, Statement(p) = Drop("task_refs")
  PROVE  Others'
  <1> USE DEF StartupInv
  <1>1. /\ \A q \in Processes, n \in {3, 4} : Runs(q, n)' <=> Runs(q, n)
        /\ line'[p] = 8 /\ \A q \in Processes : Runs(q, 4) => q = p
        /\ \A q \in Processes : ~Runs(q, 3)
        /\ 4 \notin versions /\ "pub_ref" \in schema /\ InTaskRefs
        /\ UNCHANGED <<versions, live, stops>>
        /\ AllTasks' = AllTasks /\ AllNotes' = AllNotes /\ (\A k : OfKind(k)' = OfKind(k))
        /\ AllTasks \subseteq Items /\ AllNotes \subseteq Items
    BY InScript4
  <1>2. /\ schema' = schema \ {"task_refs", "task_refs_index", "task_refs_trigger"}
        /\ taskRefs' = [i \in Items |-> 0] /\ UNCHANGED <<pubRef, nextRef>>
    BY EffectOfDrop
  <1>3. References'
    BY <1>1, <1>2 DEF References, FirstRef, Distinct
  <1>4. Script3'
    BY <1>1, <1>2 DEF Script3
  <1>5. Script4'
    BY <1>1, <1>2 DEF Script4, FirstRef
  <1>6. Begun'
    BY <1>1, <1>2 DEF Begun
  <1> QED
    BY <1>3, <1>4, <1>5, <1>6 DEF Others

LEMMA StatementStep ==
  ASSUME StartupInv, NEW p \in Processes, RunStatement(p), UNCHANGED startVars
  PROVE  StartupInv'
  <1>1. TypeOK' /\ Bookkeeping' /\ Objects'
    BY StatementObjects
  <1>2. Owner'
    BY DEF StartupInv, Owner, Unassigned, startVars
  <1>3. Others'
    <2>1. line[p] \in 0..7 /\ TypeOK
      BY RunsAfter DEF StartupInv
    <2>2. script[p] = 4 /\ line[p] > 0 => Runs(p, 4)
      BY DEF Runs
    <2> QED
      BY <2>1, <2>2, StatementCases, OtherScripts, Script3Begins, Script3Numbers, Script3Raises,
         Script3Creates, Script4Begins, Script4NumbersTasks, Script4NumbersNotes, Script4Raises,
         Script4Creates, Script4Drops
  <1> QED
    BY <1>1, <1>2, <1>3 DEF StartupInv, Others

-----------------------------------------------------------------------------
(* The database a start finds.                                              *)

LEMMA Objects4 ==
  {s.on : s \in {Scripts[4][l] : l \in DOMAIN Scripts[4]}} =
    {"pub_ref", "tasks", "notes", "note", "pub_ref_index", "pub_ref_valid", "pub_ref_fixed",
                     "task_refs"}
  <1>1. DOMAIN Scripts[4] = {1, 2, 3, 4, 5, 6, 7, 8}
    BY ScriptTable DEF PublicRefs0004
  <1>2. {Scripts[4][l] : l \in DOMAIN Scripts[4]} =
          {Create("pub_ref"), Number("tasks"), Number("notes"), Raise("note"),
           Create("pub_ref_index"), Create("pub_ref_valid"), Create("pub_ref_fixed"), Drop("task_refs")}
    BY <1>1, Statements4
  <1>3. \A o : Create(o).on = o /\ Number(o).on = o /\ Raise(o).on = o /\ Drop(o).on = o
    BY DEF Create, Number, Raise, Drop
  <1>4. {s.on : s \in {Create("pub_ref"), Number("tasks"), Number("notes"), Raise("note"),
                      Create("pub_ref_index"), Create("pub_ref_valid"), Create("pub_ref_fixed"), Drop("task_refs")}} =
          {Create("pub_ref").on, Number("tasks").on, Number("notes").on, Raise("note").on,
           Create("pub_ref_index").on, Create("pub_ref_valid").on, Create("pub_ref_fixed").on,
           Drop("task_refs").on}
    OBVIOUS
  <1>5. {s.on : s \in {Scripts[4][l] : l \in DOMAIN Scripts[4]}} =
          {s.on : s \in {Create("pub_ref"), Number("tasks"), Number("notes"), Raise("note"),
                      Create("pub_ref_index"), Create("pub_ref_valid"), Create("pub_ref_fixed"), Drop("task_refs")}}
    BY <1>2, Zenon
  <1> QED
    BY <1>3, <1>4, <1>5, Zenon

LEMMA Objects3 ==
  {s.on : s \in {Scripts[3][l] : l \in DOMAIN Scripts[3]}} =
    {"task_refs", "task", "task_refs_index", "task_refs_trigger"}
  <1>1. DOMAIN Scripts[3] = {1, 2, 3, 4, 5}
    BY ScriptTable DEF TaskRefs0003
  <1>2. {Scripts[3][l] : l \in DOMAIN Scripts[3]} =
          {Create("task_refs"), Number("task_refs"), Raise("task"),
           Create("task_refs_index"), Create("task_refs_trigger")}
    BY <1>1, Statements3
  <1>3. \A o : Create(o).on = o /\ Number(o).on = o /\ Raise(o).on = o
    BY DEF Create, Number, Raise
  <1> QED
    BY <1>2, <1>3

LEMMA ObjectsOfOthers ==
  ASSUME NEW n \in {1, 2, 5}
  PROVE  {s.on : s \in {Scripts[n][l] : l \in DOMAIN Scripts[n]}} \subseteq Ensured
  <1>1. DOMAIN Scripts[n] = 1..Len(Scripts[n])
    BY ScriptTable DEF Legacy0001, Items0002, Reminders0005
  <1>2. \A l \in DOMAIN Scripts[n] : \E o \in Ensured : Scripts[n][l] = Ensure(o)
    BY <1>1, StatementsOfOthers
  <1>3. \A o : Ensure(o).on = o
    BY DEF Ensure
  <1> QED
    BY <1>2, <1>3

(* The schema of a release: what its scripts have made is there, and the    *)
(* objects of later scripts and of the dropped table are not.               *)
LEMMA SchemaTable ==
  ASSUME NEW v \in 0..5
  PROVE  /\ \A n \in 1..v : Made(n, Len(Scripts[n])) \subseteq SchemaOf(v)
         /\ "task_refs" \in SchemaOf(v) <=> v = 3
         /\ v # 3 => SchemaOf(v) \cap {"task_refs_index", "task_refs_trigger"} = {}
         /\ "pub_ref" \in SchemaOf(v) <=> v >= 4
         /\ v < 4 => SchemaOf(v) \cap {"pub_ref_index", "pub_ref_valid", "pub_ref_fixed"} = {}
         /\ SchemaOf(v) \subseteq
              {s.on : s \in UNION {{Scripts[n][l] : l \in DOMAIN Scripts[n]} : n \in DOMAIN Scripts}}
  <1> DEFINE On(n) == {s.on : s \in {Scripts[n][l] : l \in DOMAIN Scripts[n]}}
             made == (UNION {On(n) : n \in 1..v}) \ (Kinds \cup {"tasks", "notes"})
  <1>1. SchemaOf(v) = IF v < 4 THEN made ELSE made \ {"task_refs", "task_refs_index", "task_refs_trigger"}
    BY DEF SchemaOf
  <1>2. /\ On(3) = {"task_refs", "task", "task_refs_index", "task_refs_trigger"}
        /\ On(4) = {"pub_ref", "tasks", "notes", "note", "pub_ref_index", "pub_ref_valid", "pub_ref_fixed",
                     "task_refs"}
        /\ \A n \in {1, 2, 5} : On(n) \subseteq Ensured
    BY Objects3, Objects4, ObjectsOfOthers
  <1>3. 1..v \subseteq DOMAIN Scripts /\ DOMAIN Scripts = 1..5
    BY ScriptTable
  <1>4. \A n \in 1..5 : DOMAIN Scripts[n] = 1..Len(Scripts[n])
    BY ScriptTable DEF Legacy0001, Items0002, TaskRefs0003, PublicRefs0004, Reminders0005
  <1>5. ASSUME NEW n \in 1..v PROVE Made(n, Len(Scripts[n])) \subseteq SchemaOf(v)
    <2>1. ASSUME NEW j \in DOMAIN Scripts[n], Scripts[n][j].op \in {"ensure", "create"}
          PROVE  Scripts[n][j].on \in On(n) /\ Scripts[n][j].on \notin Kinds \cup {"tasks", "notes"}
      <3>1. CASE n \in {1, 2, 5}
        <4>1. Scripts[n][j].on \in Ensured
          BY <1>2, <3>1
        <4> QED
          BY <4>1 DEF Ensured, Kinds
      <3>2. CASE n = 3
        BY <2>1, <3>2, Statements3, ScriptTable DEF TaskRefs0003, Create, Number, Raise, Kinds
      <3>3. CASE n = 4
        BY <2>1, <3>3, Statements4, ScriptTable DEF PublicRefs0004, Create, Number, Raise, Drop, Kinds
      <3> QED
        BY <1>3, <3>1, <3>2, <3>3
    <2>2. ASSUME NEW x \in Made(n, Len(Scripts[n]))
          PROVE  x \in made /\ x \notin {"task_refs", "task_refs_index", "task_refs_trigger"}
      <3>1. PICK j \in DOMAIN Scripts[n] : Scripts[n][j].op \in {"ensure", "create"} /\ x = Scripts[n][j].on
        BY <1>3, <1>4 DEF Made
      <3>2. x \in On(n) /\ x \notin Kinds \cup {"tasks", "notes"}
        BY <2>1, <3>1
      <3>3. x \notin {"task_refs", "task_refs_index", "task_refs_trigger"}
        BY DEF Made
      <3> HIDE DEF On
      <3> QED
        BY <3>2, <3>3
    <2> QED
      BY <1>1, <2>2
  <1> HIDE DEF On
  <1>6. \A x : x \in made <=> (\E n \in 1..v : x \in On(n)) /\ x \notin {"task", "note", "tasks", "notes"}
    BY DEF Kinds
  <1>7. \A x \in {"task_refs", "task_refs_index", "task_refs_trigger",
               "pub_ref", "pub_ref_index", "pub_ref_valid", "pub_ref_fixed"} :
           \A n \in {1, 2, 5} : x \notin On(n)
    BY <1>2 DEF Ensured
  <1> HIDE DEF made
  <1>8. /\ "task_refs" \in made <=> v >= 3
        /\ v < 3 => "task_refs_index" \notin made /\ "task_refs_trigger" \notin made
        /\ "pub_ref" \in made <=> v >= 4
        /\ v < 4 => {"pub_ref_index", "pub_ref_valid", "pub_ref_fixed"} \cap made = {}
    <2>1. CASE v < 3
      <3>1. 1..v \subseteq {1, 2}
        BY <2>1
      <3>2. \A n \in 1..v : n \in {1, 2, 5}
        BY <3>1
      <3> QED
        BY <1>6, <1>7, <2>1, <3>2
    <2>2. CASE v = 3
      <3>1. 1..v = {1, 2, 3}
        BY <2>2
      <3> QED
        BY <1>2, <1>6, <1>7, <2>2, <3>1
    <2>3. CASE v >= 4
      <3>1. 3 \in 1..v /\ 4 \in 1..v
        BY <2>3
      <3> QED
        BY <1>2, <1>6, <2>3, <3>1
    <2> QED
      BY <2>1, <2>2, <2>3
  <1>9. SchemaOf(v) \subseteq
           {s.on : s \in UNION {{Scripts[n][l] : l \in DOMAIN Scripts[n]} : n \in DOMAIN Scripts}}
    BY <1>1, <1>3, <1>6 DEF On
  <1> QED
    BY <1>1, <1>5, <1>8, <1>9

LEMMA StartupInit == Init => StartupInv
  <1> SUFFICES ASSUME Init PROVE StartupInv
    OBVIOUS
  <1>1. PICK v \in 0..5 :
          /\ versions = 1..v /\ schema = SchemaOf(v)
          /\ legacy \in {"absent"} \cup (IF v = 0 THEN {} ELSE {"unassigned"})
          /\ live \in (IF legacy = "absent" \/ v < 2 THEN {{}} ELSE SUBSET Items)
          /\ taskRefs = IF v = 3 THEN OldRefs("task") ELSE [i \in Items |-> 0]
          /\ pubRef = IF v >= 4 THEN [i \in Items |-> OldRefs(KindOf[i])[i]] ELSE [i \in Items |-> 0]
          /\ \E used \in {0, 2} : nextRef = [k \in Kinds |->
               IF OfKind(k) # {} /\ (v >= 4 \/ (v = 3 /\ k = "task")) THEN Cardinality(OfKind(k)) + 1
               ELSE IF legacy = "absent" THEN 0 ELSE used]
    BY ScriptTable DEF Init
  <1>2. /\ seen = [p \in Processes |-> {}]
        /\ script = [p \in Processes |-> 0] /\ line = [p \in Processes |-> 0]
        /\ pc = "off" /\ allowed \in AllowLists /\ own = {} /\ stops = 0
    BY DEF Init
  <1>3. live \subseteq Items
    BY <1>1
  <1>4. \A k : OfKind(k) \in SUBSET Items /\ OfKind(k) \subseteq live
    BY <1>3 DEF OfKind
  <1>5. \A k : /\ \A i \in OfKind(k) : /\ Rank(i, OfKind(k)) \in Nat /\ Rank(i, OfKind(k)) >= 1
                                        /\ Rank(i, OfKind(k)) <= Cardinality(OfKind(k))
               /\ \A i, j \in OfKind(k) : Rank(i, OfKind(k)) = Rank(j, OfKind(k)) => i = j
               /\ Cardinality(OfKind(k)) \in Nat
    BY <1>4, RanksDiffer
  <1>6. \A k : \A i \in Items : OldRefs(k)[i] = IF i \in OfKind(k) THEN Rank(i, OfKind(k)) ELSE 0
    BY DEF OldRefs
  <1>7. v = 3 => \A i \in Items : taskRefs[i] = IF i \in AllTasks THEN Rank(i, AllTasks) ELSE 0
    BY <1>1, <1>6 DEF AllTasks
  <1>8. v # 3 => \A i \in Items : taskRefs[i] = 0
    BY <1>1
  <1>9. v < 4 => \A i \in Items : pubRef[i] = 0
    BY <1>1
  <1>10. v >= 4 => \A i \in Items : pubRef[i] = IF i \in live THEN Rank(i, OfKind(KindOf[i])) ELSE 0
    BY <1>1, <1>6 DEF OfKind
  <1>11. v >= 3 => \A i \in AllTasks : nextRef["task"] = Cardinality(AllTasks) + 1
    BY <1>1 DEF AllTasks, Kinds
  <1>12. v >= 4 => \A i \in AllNotes : nextRef["note"] = Cardinality(AllNotes) + 1
    BY <1>1 DEF AllNotes, Kinds
  <1>13. TypeOK
    <2>1. taskRefs \in [Items -> Nat]
      <3>1. \A i \in Items : taskRefs[i] \in Nat
        BY <1>5, <1>7, <1>8 DEF AllTasks
      <3> QED
        BY <1>1, <3>1 DEF OldRefs
    <2>2. pubRef \in [Items -> Nat]
      <3>1. \A i \in live : i \in OfKind(KindOf[i])
        BY DEF OfKind
      <3>2. \A i \in Items : pubRef[i] \in Nat
        BY <1>5, <1>9, <1>10, <3>1
      <3> QED
        BY <1>1, <3>2
    <2>3. nextRef \in [Kinds -> Nat]
      BY <1>1, <1>5
    <2>4. versions \subseteq 1..Len(Scripts)
      BY <1>1, ScriptTable
    <2>5. script \in [Processes -> 0..Len(Scripts) + 1]
      BY <1>2, ScriptTable
    <2>6. stops \in 0..MaxStops
      BY <1>2, StartupAssumption
    <2>7. legacy \in TelegramIds \cup {"absent", "unassigned"}
      BY <1>1
    <2>8. /\ seen \in [Processes -> SUBSET (1..Len(Scripts))] /\ line \in [Processes -> 0..8]
          /\ pc \in {"off", "migrate", "built", "poll"} /\ own \subseteq TelegramIds
      BY <1>2
    <2>9. schema \subseteq {s.on : s \in UNION {{Scripts[n][l] : l \in DOMAIN Scripts[n]} : n \in DOMAIN Scripts}}
      BY <1>1, SchemaTable
    <2> QED
      BY <1>2, <1>3, <2>1, <2>2, <2>3, <2>4, <2>5, <2>6, <2>7, <2>8, <2>9 DEF TypeOK
  <1>14. Bookkeeping
    <2>1. \A p \in Processes : seen[p] = {} /\ script[p] = 0 /\ line[p] = 0
      BY <1>2
    <2>2. Bot \in Processes
      BY StartupAssumption
    <2> QED
      BY <1>2, <2>1, <2>2 DEF Bookkeeping
  <1>15. Objects
    <2>1. \A p \in Processes : script[p] \notin 1..5
      BY <1>2
    <2> QED
      BY <1>1, <2>1, SchemaTable DEF Objects
  <1>16. \A i \in live : (KindOf[i] = "task" /\ i \in AllTasks) \/ (KindOf[i] = "note" /\ i \in AllNotes)
    BY <1>3, KindsSplit
  <1>17. References
    <2>1. \A i \in Items : /\ taskRefs[i] # 0 => i \in AllTasks
                           /\ pubRef[i] # 0 => i \in live
      BY <1>7, <1>8, <1>9, <1>10
    <2>2. ASSUME NEW k \in Kinds, NEW i \in OfKind(k), NEW j \in OfKind(k), pubRef[i] # 0,
                 pubRef[i] = pubRef[j]
          PROVE  i = j
      <3>1. KindOf[i] = k /\ KindOf[j] = k /\ i \in live /\ j \in live /\ i \in Items /\ j \in Items
        BY <1>4 DEF OfKind
      <3>2. v >= 4
        BY <1>9, <2>2, <3>1
      <3>3. pubRef[i] = Rank(i, OfKind(k)) /\ pubRef[j] = Rank(j, OfKind(k))
        BY <1>10, <3>1, <3>2
      <3> QED
        BY <1>5, <2>2, <3>3
    <2>3. \A k \in Kinds : Distinct(pubRef, {i \in OfKind(k) : pubRef[i] # 0})
      BY <2>2 DEF Distinct
    <2>4. ASSUME NEW k \in Kinds, NEW i \in OfKind(k), v >= 4
          PROVE  pubRef[i] # 0 /\ pubRef[i] < FirstRef(k)
      <3>1. pubRef[i] = Rank(i, OfKind(k))
        BY <1>4, <1>10, <2>4 DEF OfKind
      <3>2. nextRef[k] = Cardinality(OfKind(k)) + 1
        BY <1>1, <2>4
      <3> QED
        BY <1>5, <3>1, <3>2 DEF FirstRef
    <2>5. \A i \in AllTasks : pubRef[i] < FirstRef("task")
      <3>1. "task" \in Kinds /\ FirstRef("task") >= 1 /\ FirstRef("task") \in Nat
        BY <1>13, FirstRefIs DEF Kinds, TypeOK
      <3>2. CASE v >= 4
        BY <2>4, <3>1, <3>2 DEF AllTasks
      <3>3. CASE v < 4
        BY <1>4, <1>9, <3>1, <3>3 DEF AllTasks
      <3> QED
        BY <3>2, <3>3
    <2>6. 4 \in versions => v >= 4
      BY <1>1
    <2>7. 4 \in versions => /\ \A i \in live : pubRef[i] # 0
                            /\ \A i \in AllNotes : pubRef[i] < FirstRef("note")
      BY <1>16, <2>4, <2>6 DEF AllTasks, AllNotes, Kinds
    <2> QED
      BY <2>1, <2>3, <2>5, <2>7 DEF References
  <1>18. \A p \in Processes, n \in {3, 4} : ~Runs(p, n)
    BY <1>2 DEF Runs
  <1>19. v = 3 => InTaskRefs
    <2> SUFFICES ASSUME v = 3 PROVE InTaskRefs
      OBVIOUS
    <2>1. \A i \in AllTasks : taskRefs[i] = Rank(i, AllTasks)
      BY <1>4, <1>7 DEF AllTasks
    <2>2. \A i \in AllTasks : taskRefs[i] # 0 /\ taskRefs[i] < FirstRef("task")
      BY <1>5, <1>11, <2>1 DEF FirstRef, AllTasks
    <2>3. Distinct(taskRefs, AllTasks)
      BY <1>5, <2>1 DEF Distinct, AllTasks
    <2> QED
      BY <1>1, <1>18, <2>2, <2>3, SchemaTable DEF InTaskRefs
  <1>20. Script3
    BY <1>1, <1>8, <1>18, <1>19, SchemaTable DEF Script3
  <1>21. Script4
    BY <1>1, <1>9, <1>18, SchemaTable DEF Script4
  <1>22. Begun
    BY <1>1, SchemaTable DEF Begun
  <1>23. Owner
    BY <1>2 DEF Owner
  <1> QED
    BY <1>13, <1>14, <1>15, <1>17, <1>20, <1>21, <1>22, <1>23 DEF StartupInv

-----------------------------------------------------------------------------
(* The other steps keep the invariant.                                      *)

(* Every statement of the process that has begun a script succeeds.         *)
LEMMA RunnerNotStopped ==
  ASSUME StartupInv, NEW p \in Processes, NEW n \in {3, 4}, Runs(p, n), n \notin versions
  PROVE  ~MigrationFails(p)
  <1> USE DEF StartupInv
  <1> SUFFICES ASSUME MigrationFails(p) PROVE FALSE
    OBVIOUS
  <1>1. script[p] = n /\ line[p] > 0 /\ line[p] \in 0..8
    BY DEF Runs, TypeOK
  <1>2. MoreLines(p) /\ ~Possible(Statement(p))
    BY <1>1 DEF MigrationFails
  <1>3. line[p] < Len(Scripts[n])
    BY <1>1, <1>2 DEF MoreLines
  <1>4. /\ "task_refs" \in schema => Possible(Number("tasks"))
        /\ Possible(Number("notes"))
        /\ Possible(Raise("task")) /\ Possible(Raise("note"))
    BY DEF Possible, Number, Create, Raise
  <1>5. Statement(p) = Scripts[n][line[p] + 1]
    BY <1>1 DEF Statement
  <1>6. CASE n = 3
    <2>1. line[p] \in {1, 2, 3, 4}
      BY <1>1, <1>3, <1>6, ScriptTable
    <2>2. /\ "task_refs" \in schema
          /\ line[p] = 1 => \A i \in Items : taskRefs[i] = 0
          /\ line[p] <= 3 => "task_refs_index" \notin schema
          /\ "task_refs_trigger" \notin schema
      BY <1>6, <2>1 DEF Script3
    <2>3. CASE line[p] = 1
      <3>1. Statement(p) = Number("task_refs")
        BY <1>5, <1>6, <2>3, Statements3
      <3>2. Distinct(Numbered("task"), OfKind("task"))
        BY NumberedDistinct DEF TypeOK, Kinds
      <3>3. Possible(Number("task_refs"))
        BY <2>2, <2>3, <3>2 DEF Possible, Number, Create, TypeOK
      <3> QED
        BY <1>2, <3>1, <3>3
    <2>4. CASE line[p] = 2
      <3>1. Statement(p) = Raise("task")
        BY <1>5, <1>6, <2>4, Statements3
      <3> QED
        BY <1>2, <1>4, <3>1
    <2>5. CASE line[p] = 3
      <3>1. Statement(p) = Create("task_refs_index")
        BY <1>5, <1>6, <2>5, Statements3
      <3>2. Possible(Create("task_refs_index"))
        BY <2>2, <2>5 DEF Possible, Create, Number
      <3> QED
        BY <1>2, <3>1, <3>2
    <2>6. CASE line[p] = 4
      <3>1. Statement(p) = Create("task_refs_trigger")
        BY <1>5, <1>6, <2>6, Statements3
      <3>2. Possible(Create("task_refs_trigger"))
        BY <2>2 DEF Possible, Create, Number
      <3> QED
        BY <1>2, <3>1, <3>2
    <2> QED
      BY <2>1, <2>3, <2>4, <2>5, <2>6
  <1>7. CASE n = 4
    <2>1. line[p] \in {1, 2, 3, 4, 5, 6, 7}
      BY <1>1, <1>3, <1>7, ScriptTable
    <2>2. /\ line[p] <= 4 => "pub_ref_index" \notin schema
          /\ line[p] <= 5 => "pub_ref_valid" \notin schema
          /\ line[p] <= 6 => "pub_ref_fixed" \notin schema
          /\ "task_refs" \in schema
      BY <1>7, <2>1 DEF Script4, InTaskRefs
    <2>3. CASE line[p] = 1
      <3>1. Statement(p) = Number("tasks")
        BY <1>5, <1>7, <2>3, Statements4
      <3> QED
        BY <1>2, <1>4, <2>2, <3>1
    <2>4. CASE line[p] = 2
      <3>1. Statement(p) = Number("notes")
        BY <1>5, <1>7, <2>4, Statements4
      <3> QED
        BY <1>2, <1>4, <3>1
    <2>5. CASE line[p] = 3
      <3>1. Statement(p) = Raise("note")
        BY <1>5, <1>7, <2>5, Statements4
      <3> QED
        BY <1>2, <1>4, <3>1
    <2>6. CASE line[p] = 4
      <3>1. Statement(p) = Create("pub_ref_index")
        BY <1>5, <1>7, <2>6, Statements4
      <3>2. Possible(Create("pub_ref_index"))
        BY <2>2, <2>6 DEF Possible, Create, Number, References
      <3> QED
        BY <1>2, <3>1, <3>2
    <2>7. CASE line[p] = 5
      <3>1. Statement(p) = Create("pub_ref_valid")
        BY <1>5, <1>7, <2>7, Statements4
      <3>2. Possible(Create("pub_ref_valid"))
        BY <2>2, <2>7 DEF Possible, Create, Number
      <3> QED
        BY <1>2, <3>1, <3>2
    <2>8. CASE line[p] = 6
      <3>1. Statement(p) = Create("pub_ref_fixed")
        BY <1>5, <1>7, <2>8, Statements4
      <3>2. Possible(Create("pub_ref_fixed"))
        BY <2>2, <2>8 DEF Possible, Create, Number
      <3> QED
        BY <1>2, <3>1, <3>2
    <2>9. CASE line[p] = 7
      <3>1. Statement(p) = Drop("task_refs")
        BY <1>5, <1>7, <2>9, Statements4
      <3>2. Possible(Drop("task_refs"))
        BY <2>2, <2>9 DEF Possible, Drop, Create, Number
      <3> QED
        BY <1>2, <3>1, <3>2
    <2> QED
      BY <2>1, <2>3, <2>4, <2>5, <2>6, <2>7, <2>8, <2>9
  <1> QED
    BY <1>6, <1>7

LEMMA RecordStep ==
  ASSUME StartupInv, NEW p \in Processes, RecordVersion(p), UNCHANGED startVars
  PROVE  StartupInv'
  <1> USE DEF StartupInv
  <1> DEFINE n == script[p]
  <1>1. /\ n \in 1..5 /\ n \notin versions /\ versions' = versions \cup {n}
        /\ UNCHANGED <<schema, live, taskRefs, pubRef, nextRef, seen>>
        /\ UNCHANGED <<pc, allowed, legacy, own, stops>>
        /\ script' = [script EXCEPT ![p] = n + 1] /\ line' = [line EXCEPT ![p] = 0]
        /\ ~(line[p] < Len(Scripts[n]))
    BY ScriptTable DEF RecordVersion, InScript, MoreLines, refVars, startVars
  <1>2. line[p] = Len(Scripts[n]) /\ line[p] > 0
    <2> DEFINE top == Len(Scripts[n])
    <2>0. \A m \in 1..5 : Len(Scripts[m]) \in {2, 3, 5, 8}
      <3>1. \A m \in 1..5 : m \in {1, 2, 3, 4, 5}
        OBVIOUS
      <3> QED
        BY <3>1, ScriptTable, Zenon
    <2>1. top \in {2, 3, 5, 8}
      BY <1>1, <2>0
    <2>2. line[p] \in 0..8 /\ (line[p] > 0 => line[p] <= top) /\ ~(line[p] < top)
      BY <1>1 DEF TypeOK, Bookkeeping
    <2> HIDE DEF top
    <2>3. line[p] = top /\ line[p] > 0
      BY <2>1, <2>2
    <2> QED
      BY <2>3 DEF top
  <1>3. /\ script'[p] = n + 1 /\ line'[p] = 0
        /\ \A q \in Processes : q # p => script'[q] = script[q] /\ line'[q] = line[q]
    BY <1>1 DEF TypeOK
  <1>4. \A m \in {3, 4} : /\ n = m => Runs(p, m)
                         /\ ~Runs(p, m)'
                         /\ \A q \in Processes : Runs(q, m)' => q # p /\ Runs(q, m)
                         /\ \A r \in Processes : r # p /\ Runs(r, m) => Runs(r, m)'
    BY <1>2, <1>3 DEF Runs
  <1>5. /\ AllTasks' = AllTasks /\ AllNotes' = AllNotes /\ (\A k : OfKind(k)' = OfKind(k))
        /\ AllTasks \subseteq Items /\ AllNotes \subseteq Items
        /\ \A k : FirstRef(k)' = FirstRef(k)
    BY <1>1 DEF AllTasks, AllNotes, OfKind, FirstRef, TypeOK
  <1>6. TypeOK'
    <2>0. Len(Scripts) = 5 /\ n + 1 \in 0..6
      BY <1>1, ScriptTable
    <2>1. script' \in [Processes -> 0..Len(Scripts) + 1] /\ line' \in [Processes -> 0..8]
          /\ versions' \subseteq 1..Len(Scripts)
      <3>1. /\ script \in [Processes -> 0..6] /\ line \in [Processes -> 0..8] /\ versions \subseteq 1..5
        BY <2>0 DEF TypeOK
      <3>2. script' \in [Processes -> 0..6]
        BY <1>1, <2>0, <3>1
      <3>3. line' \in [Processes -> 0..8]
        BY <1>1, <3>1
      <3>4. versions' \subseteq 1..5
        BY <1>1, <3>1
      <3> QED
        BY <2>0, <3>2, <3>3, <3>4
    <2> QED
      BY <1>1, <2>1 DEF TypeOK
  <1>7. Bookkeeping'
    <2>1. pc \notin {"built", "poll"}
      BY <1>1 DEF Bookkeeping
    <2>2. pc # "migrate" => p # Bot
      BY <1>1 DEF Bookkeeping
    <2>3. pc' # "migrate" => script'[Bot] = 0
      BY <1>1, <1>3, <2>2, StartupAssumption DEF Bookkeeping
    <2>4. ASSUME NEW q \in Processes
          PROVE  /\ seen'[q] \subseteq versions'
                 /\ \A m \in 1..5 : m < script'[q] => m \in versions'
                 /\ line'[q] > 0 => /\ script'[q] \in 1..5 /\ script'[q] \notin seen'[q]
                                    /\ line'[q] <= Len(Scripts[script'[q]])
      <3>1. CASE q = p
        <4>1. \A m \in 1..5 : m < n + 1 => m < n \/ m = n
          BY <1>1
        <4> QED
          BY <1>1, <1>3, <3>1, <4>1 DEF Bookkeeping
      <3>2. CASE q # p
        BY <1>1, <1>3, <3>2 DEF Bookkeeping
      <3> QED
        BY <3>1, <3>2
    <2> QED
      BY <1>1, <2>1, <2>3, <2>4 DEF Bookkeeping
  <1>8. Objects'
    <2>1. Made(n, Len(Scripts[n])) \subseteq schema
      BY <1>1, <1>2 DEF Objects
    <2>2. \A m \in versions' : Made(m, Len(Scripts[m])) \subseteq schema'
      BY <1>1, <2>1 DEF Objects
    <2>3. \A q \in Processes : script'[q] \in 1..5 => Made(script'[q], line'[q]) \subseteq schema'
      BY <1>1, <1>3, MadeNone DEF Objects
    <2>4. \A m, l : Made(m, l)' = Made(m, l)
      BY DEF Made
    <2> QED
      BY <2>2, <2>3, <2>4 DEF Objects
  <1>9. References'
    <2>1. n = 4 => /\ \A i \in live : pubRef[i] # 0
                   /\ \A i \in AllNotes : pubRef[i] < FirstRef("note")
      <3> SUFFICES ASSUME n = 4
                   PROVE  /\ \A i \in live : pubRef[i] # 0
                          /\ \A i \in AllNotes : pubRef[i] < FirstRef("note")
        OBVIOUS
      <3>1. Runs(p, 4) /\ line[p] = 8
        BY <1>2, <1>4, ScriptTable
      <3>2. /\ \A i \in AllTasks \cup AllNotes : pubRef[i] # 0
            /\ \A i \in AllNotes : pubRef[i] < FirstRef("note")
        BY <3>1 DEF Script4
      <3> QED
        BY <3>2, KindsSplit DEF TypeOK
    <2> QED
      BY <1>1, <1>5, <2>1 DEF References, Distinct
  <1>10. InTaskRefs => InTaskRefs'
    BY <1>1, <1>4, <1>5 DEF InTaskRefs, Distinct
  <1>11. n = 3 /\ "pub_ref" \notin schema => InTaskRefs'
    <2> SUFFICES ASSUME n = 3 PROVE InTaskRefs'
      OBVIOUS
    <2>1. Runs(p, 3) /\ line[p] = 5 /\ 3 \notin versions
      BY <1>1, <1>2, <1>4, ScriptTable
    <2>2. /\ "task_refs" \in schema
          /\ (\A i \in AllTasks : taskRefs[i] # 0 /\ taskRefs[i] < FirstRef("task"))
          /\ Distinct(taskRefs, AllTasks)
          /\ \A q \in Processes : Runs(q, 3) => q = p
      BY <2>1 DEF Script3
    <2>3. \A q \in Processes : ~Runs(q, 3)'
      BY <1>4, <2>2
    <2> QED
      BY <1>1, <1>5, <2>2, <2>3 DEF InTaskRefs, Distinct
  <1>12. Script3'
    BY <1>1, <1>3, <1>4, <1>5, <1>10, <1>11 DEF Script3, Distinct
  <1>13. Script4'
    <2>1. \A q \in Processes : Runs(q, 4)' => 4 \notin versions'
      BY <1>1, <1>4 DEF Script4
    <2> QED
      BY <1>1, <1>3, <1>4, <1>5, <1>10, <2>1 DEF Script4
  <1>14. Begun'
    BY <1>1, <1>4 DEF Begun, Runs
  <1>15. Owner'
    BY <1>1 DEF Owner, Unassigned
  <1> QED
    BY <1>6, <1>7, <1>8, <1>9, <1>12, <1>13, <1>14, <1>15

LEMMA SkipStep ==
  ASSUME StartupInv, NEW p \in Processes, SkipScript(p), UNCHANGED startVars
  PROVE  StartupInv'
  <1> USE DEF StartupInv
  <1>1. /\ script[p] \in 1..5 /\ script[p] \in versions /\ script[p] \in seen[p]
        /\ script' = [script EXCEPT ![p] = script[p] + 1] /\ UNCHANGED <<seen, line>>
        /\ UNCHANGED dbVars /\ UNCHANGED <<pc, allowed, legacy, own, stops>>
    BY ScriptTable DEF SkipScript, TypeOK, Bookkeeping, startVars
  <1>2. line[p] = 0
    <2>1. line[p] \in 0..8
      BY DEF TypeOK
    <2> QED
      BY <1>1, <2>1 DEF Bookkeeping
  <1>3. /\ script'[p] = script[p] + 1
        /\ \A q \in Processes : q # p => script'[q] = script[q]
    BY <1>1 DEF TypeOK
  <1>4. TypeOK'
    <2>1. script' \in [Processes -> 0..Len(Scripts) + 1]
      BY <1>1, ScriptTable DEF TypeOK
    <2> QED
      BY <1>1, <2>1 DEF TypeOK, dbVars, refVars
  <1>5. Bookkeeping'
    <2>1. pc # "migrate" => p # Bot
      BY <1>1 DEF Bookkeeping
    <2>2. pc' # "migrate" => script'[Bot] = 0
      BY <1>1, <1>3, <2>1, StartupAssumption DEF Bookkeeping
    <2>3. ASSUME NEW q \in Processes
          PROVE  /\ seen'[q] \subseteq versions'
                 /\ \A m \in 1..5 : m < script'[q] => m \in versions'
                 /\ line'[q] > 0 => /\ script'[q] \in 1..5 /\ script'[q] \notin seen'[q]
                                    /\ line'[q] <= Len(Scripts[script'[q]])
      <3>1. CASE q = p
        <4>1. \A m \in 1..5 : m < script[p] + 1 => m < script[p] \/ m = script[p]
          BY <1>1
        <4> QED
          BY <1>1, <1>2, <1>3, <3>1, <4>1 DEF Bookkeeping, dbVars
      <3>2. CASE q # p
        BY <1>1, <1>3, <3>2 DEF Bookkeeping, dbVars
      <3> QED
        BY <3>1, <3>2
    <2> QED
      BY <1>1, <2>2, <2>3 DEF Bookkeeping, dbVars
  <1>6. Begun'
    <2>1. \A q \in Processes, m \in {3, 4} : Runs(q, m) => Runs(q, m)'
      BY <1>1, <1>2, <1>3 DEF Runs
    <2> QED
      BY <1>1, <2>1 DEF Begun, dbVars
  <1>7. Owner'
    BY <1>1 DEF Owner, Unassigned
  <1>8. \A q \in Processes : line'[q] = 0 \/ (script'[q] = script[q] /\ line'[q] = line[q])
    BY <1>1, <1>2, <1>3
  <1> QED
    BY <1>1, <1>4, <1>5, <1>6, <1>7, <1>8, QuietStep

(* A process that begins, or that ends, is in no script afterwards.         *)
LEMMA BeginOrEnd ==
  ASSUME StartupInv, NEW p \in Processes, NEW v, NEW n \in {0, 1},
         v = versions \/ v = {},
         seen' = [seen EXCEPT ![p] = v], script' = [script EXCEPT ![p] = n],
         line' = [line EXCEPT ![p] = 0], UNCHANGED dbVars,
         UNCHANGED stops => \A m \in {3, 4} : Runs(p, m) => m \in versions,
         stops' \in 0..MaxStops, stops' = stops \/ stops' > 0,
         pc' \in {"off", "migrate", "built", "poll"},
         pc' # "migrate" => script'[Bot] = 0,
         pc' \in {"built", "poll"} => versions = 1..5,
         allowed' \in AllowLists, legacy' \in TelegramIds \cup {"absent", "unassigned"},
         UNCHANGED own, Owner'
  PROVE  StartupInv'
  <1> USE DEF StartupInv
  <1>1. UNCHANGED <<versions, schema, live, taskRefs, pubRef, nextRef>>
    BY DEF dbVars, refVars
  <1>2. /\ seen'[p] \subseteq versions /\ script'[p] = n /\ line'[p] = 0
        /\ \A q \in Processes : q # p =>
             seen'[q] = seen[q] /\ script'[q] = script[q] /\ line'[q] = line[q]
    BY DEF TypeOK
  <1>3. TypeOK'
    <2>0. Len(Scripts) = 5 /\ n \in 0..6
      BY ScriptTable
    <2>1. /\ seen' \in [Processes -> SUBSET (1..Len(Scripts))]
          /\ script' \in [Processes -> 0..Len(Scripts) + 1] /\ line' \in [Processes -> 0..8]
      <3>1. /\ script \in [Processes -> 0..6] /\ line \in [Processes -> 0..8]
            /\ seen \in [Processes -> SUBSET (1..5)] /\ versions \subseteq 1..5
        BY <2>0 DEF TypeOK
      <3>2. script' \in [Processes -> 0..6]
        BY <2>0, <3>1
      <3>3. line' \in [Processes -> 0..8]
        BY <3>1
      <3>4. seen' \in [Processes -> SUBSET (1..5)]
        BY <3>1
      <3> QED
        BY <2>0, <3>2, <3>3, <3>4
    <2> QED
      BY <1>1, <2>1 DEF TypeOK
  <1>4. Bookkeeping'
    <2>1. ASSUME NEW q \in Processes
          PROVE  /\ seen'[q] \subseteq versions'
                 /\ \A m \in 1..5 : m < script'[q] => m \in versions'
                 /\ line'[q] > 0 => /\ script'[q] \in 1..5 /\ script'[q] \notin seen'[q]
                                    /\ line'[q] <= Len(Scripts[script'[q]])
      <3>1. CASE q = p
        BY <1>1, <1>2, <3>1
      <3>2. CASE q # p
        BY <1>1, <1>2, <3>2 DEF Bookkeeping
      <3> QED
        BY <3>1, <3>2
    <2> QED
      BY <1>1, <2>1 DEF Bookkeeping
  <1>5. Begun'
    <2>1. CASE stops' = 0
      <3>1. stops = 0 /\ UNCHANGED stops
        BY <2>1
      <3>2. \A q \in Processes, m \in {3, 4} : Runs(q, m) /\ m \notin versions => Runs(q, m)'
        BY <1>2, <3>1 DEF Runs
      <3> QED
        BY <1>1, <3>1, <3>2 DEF Begun
    <2>2. CASE stops' # 0
      BY <2>2 DEF Begun
    <2> QED
      BY <2>1, <2>2
  <1>6. \A q \in Processes : line'[q] = 0 \/ (script'[q] = script[q] /\ line'[q] = line[q])
    BY <1>2
  <1> QED
    BY <1>3, <1>4, <1>5, <1>6, QuietStep

LEMMA StartupNext == StartupInv /\ [Next]_vars => StartupInv'
  <1> SUFFICES ASSUME StartupInv, [Next]_vars PROVE StartupInv'
    OBVIOUS
  <1>1. Bot \in Processes /\ Tool \in Processes /\ Bot # Tool
    BY StartupAssumption DEF Bot, Tool
  <1>2. \A p \in Processes : Idle(p) \/ Migrated(p) =>
          ~(\E m \in {3, 4} : Runs(p, m))
    BY ScriptTable DEF Idle, Migrated, Runs
  <1>3. \A p \in Processes : MigrationFails(p) => \A m \in {3, 4} : Runs(p, m) => m \in versions
    BY RunnerNotStopped
  <1>4. \A p \in Processes : ReadApplied(p) \/ Quit(p) =>
          /\ UNCHANGED dbVars /\ line' = [line EXCEPT ![p] = 0]
          /\ \E v, n : /\ (v = versions \/ v = {}) /\ n \in {0, 1} /\ (Quit(p) => n = 0)
                       /\ seen' = [seen EXCEPT ![p] = v] /\ script' = [script EXCEPT ![p] = n]
    BY DEF ReadApplied, Quit
  <1>5. TypeOK /\ Bookkeeping /\ Owner
    BY DEF StartupInv
  <1>6. \A n, p : p = Bot \/ p = Tool => [script EXCEPT ![p] = n][Bot] = IF p = Bot THEN n ELSE script[Bot]
    BY <1>1, <1>5 DEF TypeOK
  <1>7. CASE StartBot
    <2>1. /\ ReadApplied(Bot) /\ Idle(Bot) /\ pc' = "migrate" /\ allowed' \in AllowLists
          /\ UNCHANGED <<legacy, own, stops>>
      BY <1>7 DEF StartBot, ReadApplied
    <2>2. Owner'
      BY <1>5, <2>1 DEF Owner, Unassigned
    <2> QED
      BY <1>1, <1>2, <1>5, <2>1, <2>2, BeginOrEnd DEF ReadApplied, TypeOK
  <1>8. ASSUME NEW p \in {Bot, Tool}, Migrate(p) PROVE StartupInv'
    BY <1>1, <1>8, SkipStep, StatementStep, RecordStep DEF Migrate
  <1>9. CASE BotMigrationFails
    <2>1. /\ Quit(Bot) /\ MigrationFails(Bot) /\ pc' = "off" /\ UNCHANGED <<allowed, legacy, own, stops>>
      BY <1>9 DEF BotMigrationFails, MigrationFails
    <2>2. Owner'
      BY <1>5, <2>1 DEF Owner, Unassigned
    <2>3. script'[Bot] = 0
      BY <1>1, <1>6, <2>1 DEF Quit
    <2> QED
      BY <1>1, <1>3, <1>5, <2>1, <2>2, <2>3, BeginOrEnd DEF Quit, TypeOK
  <1>10. CASE BindLegacyOwner
    <2>1. /\ Quit(Bot) /\ Migrated(Bot) /\ UNCHANGED <<allowed, own, stops>>
          /\ pc' = IF Conflict THEN "off" ELSE "built"
          /\ legacy' = IF Binds /\ ~Conflict THEN BoundId(allowed) ELSE legacy
      BY <1>10 DEF BindLegacyOwner
    <2>2. script'[Bot] = 0
      BY <1>1, <1>6, <2>1 DEF Quit
    <2>3. versions = 1..5
      <3>1. script[Bot] > 5
        BY <2>1, ScriptTable DEF Migrated
      <3>2. \A n \in 1..5 : n \in versions
        BY <1>1, <1>5, <3>1 DEF Bookkeeping, TypeOK
      <3> QED
        BY <1>5, <3>2, ScriptTable DEF TypeOK
    <2>4. Binds => BoundId(allowed) \in TelegramIds
      <3>1. allowed \in Seq(TelegramIds)
        BY <1>5, StartupAssumption DEF TypeOK
      <3> QED
        BY <3>1 DEF Binds, BoundId
    <2>5. legacy' \in TelegramIds \cup {"absent", "unassigned"}
      BY <1>5, <2>1, <2>4 DEF TypeOK
    <2>6. Owner'
      BY <1>5, <2>1, <2>4, StartupAssumption DEF Owner, Unassigned, Binds, Conflict
    <2> QED
      BY <1>1, <1>2, <1>5, <2>1, <2>2, <2>3, <2>5, <2>6, BeginOrEnd DEF Quit, TypeOK
  <1>11. CASE StartPolling
    <2>1. /\ UNCHANGED dbVars /\ UNCHANGED <<seen, script, line, allowed, legacy, own, stops>>
          /\ pc = "built" /\ pc' = "poll"
      BY <1>11 DEF StartPolling, migrationVars, procVars
    <2>2. TypeOK' /\ Bookkeeping' /\ Begun' /\ Owner'
      BY <1>5, <2>1 DEF StartupInv, TypeOK, Bookkeeping, Begun, Owner, Unassigned, Runs, dbVars, refVars
    <2> QED
      BY <2>1, <2>2, QuietStep
  <1>12. CASE StartTool
    <2>1. /\ ReadApplied(Tool) /\ Idle(Tool) /\ UNCHANGED <<pc, allowed, legacy, own, stops>>
      BY <1>12 DEF StartTool, ReadApplied, startVars
    <2>2. Owner'
      BY <1>5, <2>1 DEF Owner, Unassigned
    <2>3. script'[Bot] = script[Bot]
      BY <1>1, <1>6, <2>1 DEF ReadApplied
    <2> QED
      BY <1>1, <1>2, <1>5, <2>1, <2>2, <2>3, BeginOrEnd DEF ReadApplied, TypeOK, Bookkeeping
  <1>13. CASE ToolEnds
    <2>1. (Quit(Tool) /\ Migrated(Tool)) \/ MigrationFails(Tool)
      BY <1>13 DEF ToolEnds, MigrationFails
    <2>2. UNCHANGED <<pc, allowed, legacy, own, stops>>
      BY <1>13 DEF ToolEnds, startVars
    <2>3. Owner'
      BY <1>5, <2>2 DEF Owner, Unassigned
    <2>4. script'[Bot] = script[Bot] /\ Quit(Tool)
      BY <1>1, <1>6, <2>1 DEF Quit, MigrationFails
    <2> QED
      BY <1>1, <1>2, <1>3, <1>5, <2>1, <2>2, <2>3, <2>4, BeginOrEnd DEF Quit, TypeOK, Bookkeeping
  <1>14. ASSUME NEW t \in TelegramIds, FirstContact(t) PROVE StartupInv'
    <2>1. /\ UNCHANGED dbVars /\ UNCHANGED <<seen, script, line, pc, allowed, legacy, stops>>
          /\ pc = "poll" /\ IsAllowed(t) /\ own' = own \cup {t}
      BY <1>14 DEF FirstContact, migrationVars, procVars
    <2>2. allowed # << >>
      BY <2>1 DEF IsAllowed
    <2>3. TypeOK' /\ Bookkeeping' /\ Begun' /\ Owner'
      BY <1>5, <2>1, <2>2 DEF StartupInv, TypeOK, Bookkeeping, Begun, Owner, Unassigned, Runs, dbVars, refVars
    <2> QED
      BY <2>1, <2>3, QuietStep
  <1>15. ASSUME NEW i \in Items, CreateItem(i) PROVE StartupInv'
    <2> DEFINE k == KindOf[i]
    <2>1. /\ pc = "poll" /\ i \notin live /\ k \in {"task", "note"}
          /\ nextRef' = [nextRef EXCEPT ![k] = FirstRef(k) + 1]
          /\ UNCHANGED <<versions, schema, taskRefs, seen, script, line, pc, allowed, legacy, own, stops>>
      BY <1>15, MigrationsAssumption DEF CreateItem, procVars, startVars, Kinds
    <2>2. /\ versions = 1..5 /\ "pub_ref" \in schema
      <3>1. versions = 1..5
        BY <1>5, <2>1 DEF Bookkeeping
      <3>2. Made(4, 8) \subseteq schema
        <4>1. Made(4, Len(Scripts[4])) \subseteq schema
          BY <3>1 DEF StartupInv, Objects
        <4> QED
          BY <4>1, ScriptTable
      <3> QED
        BY <3>1, <3>2, MadePubRef
    <2>3. \A q \in Processes : ~Runs(q, 4)
      BY <2>2 DEF StartupInv, Script4
    <2>4. /\ \A j \in AllTasks : pubRef[j] < FirstRef("task")
          /\ \A j \in AllNotes : pubRef[j] < FirstRef("note")
          /\ \A j \in live : pubRef[j] # 0
          /\ \A j \in Items : (taskRefs[j] # 0 => j \in AllTasks) /\ (pubRef[j] # 0 => j \in live)
          /\ \A m \in Kinds : Distinct(pubRef, {j \in OfKind(m) : pubRef[j] # 0})
      BY <2>2 DEF StartupInv, References
    <2>5. \A m \in Kinds : FirstRef(m) \in Nat /\ FirstRef(m) >= 1 /\ FirstRef(m) <= FirstRef(m)'
                           /\ (m = k => FirstRef(m)' = FirstRef(m) + 1)
      BY <1>5, <2>1 DEF TypeOK, FirstRef
    <2>6. live' = live \cup {i} /\ pubRef' = [pubRef EXCEPT ![i] = FirstRef(k)]
      <3>1. ASSUME NEW j \in OfKind(k), pubRef[j] = FirstRef(k) PROVE FALSE
        <4>1. pubRef[j] < FirstRef(k)
          BY <2>1, <2>4 DEF AllTasks, AllNotes
        <4> QED
          BY <2>1, <2>5, <3>1, <4>1 DEF Kinds
      <3> QED
        BY <1>15, <3>1 DEF CreateItem
    <2>7. /\ pubRef'[i] = FirstRef(k) /\ \A j \in Items : j # i => pubRef'[j] = pubRef[j]
          /\ \A j \in Items : pubRef[j] \in Nat
      BY <1>5, <2>6 DEF TypeOK
    <2>8. \A m : OfKind(m)' = IF m = k THEN OfKind(m) \cup {i} ELSE OfKind(m)
      BY <2>6 DEF OfKind
    <2>9. /\ AllTasks' = IF k = "task" THEN AllTasks \cup {i} ELSE AllTasks
          /\ AllNotes' = IF k = "note" THEN AllNotes \cup {i} ELSE AllNotes
          /\ AllTasks \subseteq Items /\ AllNotes \subseteq Items /\ \A m : i \notin OfKind(m) /\ OfKind(m) \subseteq Items
      BY <1>5, <2>1, <2>8 DEF AllTasks, AllNotes, OfKind, TypeOK
    <2>10. TypeOK'
      <3>1. nextRef' \in [Kinds -> Nat]
        BY <1>5, <2>1, <2>5 DEF TypeOK, Kinds
      <3>2. pubRef' \in [Items -> Nat] /\ live' \subseteq Items
        BY <1>5, <2>1, <2>5, <2>6 DEF TypeOK, Kinds
      <3> QED
        BY <1>5, <2>1, <3>1, <3>2 DEF TypeOK
    <2>11. Bookkeeping' /\ Owner'
      BY <1>5, <2>1 DEF Bookkeeping, Owner, Unassigned
    <2>12. Objects'
      BY <2>1 DEF StartupInv, Objects, Made
    <2>13. References'
      <3>1. \A j \in Items : (taskRefs'[j] # 0 => j \in AllTasks') /\ (pubRef'[j] # 0 => j \in live')
        BY <2>1, <2>4, <2>6, <2>7, <2>9
      <3>2. ASSUME NEW m \in Kinds, NEW a \in OfKind(m)', NEW b \in OfKind(m)',
                   pubRef'[a] # 0, pubRef'[a] = pubRef'[b]
            PROVE  a = b
        <4>1. CASE a # i /\ b # i
          <5>1. a \in OfKind(m) /\ b \in OfKind(m) /\ a \in Items /\ b \in Items
            BY <2>8, <2>9, <4>1
          <5> QED
            BY <2>4, <2>7, <3>2, <4>1, <5>1 DEF Distinct
        <4>2. ASSUME NEW c \in OfKind(m), m = k, pubRef[c] = FirstRef(k) PROVE FALSE
          <5>1. pubRef[c] < FirstRef(k)
            BY <2>1, <2>4, <4>2 DEF AllTasks, AllNotes
          <5> QED
            BY <2>5, <4>2, <5>1
        <4>3. CASE a = i /\ b # i
          <5>1. m = k /\ b \in OfKind(m) /\ b \in Items
            BY <2>8, <2>9, <4>3
          <5> QED
            BY <2>7, <3>2, <4>2, <4>3, <5>1
        <4>4. CASE b = i /\ a # i
          <5>1. m = k /\ a \in OfKind(m) /\ a \in Items
            BY <2>8, <2>9, <4>4
          <5> QED
            BY <2>7, <3>2, <4>2, <4>4, <5>1
        <4> QED
          BY <4>1, <4>3, <4>4
      <3>3. \A m \in Kinds : Distinct(pubRef, {j \in OfKind(m) : pubRef[j] # 0})'
        BY <3>2 DEF Distinct
      <3>4. ASSUME NEW j \in AllTasks' PROVE pubRef'[j] < FirstRef("task")'
        <4>1. /\ "task" \in Kinds /\ FirstRef("task") \in Nat /\ FirstRef("task")' \in Nat
              /\ FirstRef("task") <= FirstRef("task")'
              /\ (k = "task" => FirstRef("task")' = FirstRef("task") + 1)
          BY <2>1, <2>5 DEF Kinds, FirstRef
        <4>2. CASE j = i
          <5>1. k = "task"
            BY <2>9, <4>2 DEF AllTasks
          <5>2. pubRef'[j] = FirstRef("task")
            BY <2>7, <4>2, <5>1
          <5> QED
            BY <4>1, <5>1, <5>2
        <4>3. CASE j # i
          <5>1. j \in AllTasks /\ j \in Items /\ pubRef'[j] = pubRef[j] /\ pubRef[j] \in Nat
            BY <2>7, <2>9, <4>3
          <5>2. pubRef[j] < FirstRef("task")
            BY <2>4, <5>1
          <5> QED
            BY <4>1, <5>1, <5>2
        <4> QED
          BY <4>2, <4>3
      <3>5. ASSUME NEW j \in AllNotes' PROVE pubRef'[j] < FirstRef("note")'
        <4>1. /\ "note" \in Kinds /\ FirstRef("note") \in Nat /\ FirstRef("note")' \in Nat
              /\ FirstRef("note") <= FirstRef("note")'
              /\ (k = "note" => FirstRef("note")' = FirstRef("note") + 1)
          BY <2>1, <2>5 DEF Kinds, FirstRef
        <4>2. CASE j = i
          <5>1. k = "note"
            BY <2>9, <4>2 DEF AllNotes
          <5>2. pubRef'[j] = FirstRef("note")
            BY <2>7, <4>2, <5>1
          <5> QED
            BY <4>1, <5>1, <5>2
        <4>3. CASE j # i
          <5>1. j \in AllNotes /\ j \in Items /\ pubRef'[j] = pubRef[j] /\ pubRef[j] \in Nat
            BY <2>7, <2>9, <4>3
          <5>2. pubRef[j] < FirstRef("note")
            BY <2>4, <5>1
          <5> QED
            BY <4>1, <5>1, <5>2
        <4> QED
          BY <4>2, <4>3
      <3>6. \A j \in live' : pubRef'[j] # 0
        BY <1>5, <2>1, <2>4, <2>5, <2>6, <2>7 DEF TypeOK, Kinds
      <3> QED
        BY <3>1, <3>3, <3>4, <3>5, <3>6 DEF References
    <2>14. \A q \in Processes, m \in {3, 4} : Runs(q, m)' <=> Runs(q, m)
      BY <2>1 DEF Runs
    <2>15. Script3'
      BY <2>1, <2>2, <2>14 DEF StartupInv, Script3
    <2>16. Script4'
      BY <2>1, <2>2, <2>3, <2>14 DEF Script4
    <2>17. Begun'
      BY <2>1, <2>2 DEF Begun
    <2> QED
      BY <2>10, <2>11, <2>12, <2>13, <2>15, <2>16, <2>17 DEF StartupInv
  <1>16. ASSUME NEW p \in Processes, Stop(p) PROVE StartupInv'
    <2>1. /\ Quit(p) /\ UNCHANGED <<allowed, legacy, own>>
          /\ stops' = stops + 1 /\ stops < MaxStops
          /\ p = Bot => pc' = "off" 
          /\ p # Bot => pc' = pc
      BY <1>16 DEF Stop
    <2>2. stops' \in 0..MaxStops /\ stops' > 0 /\ stops' # stops
      BY <1>5, <2>1, StartupAssumption DEF TypeOK
    <2>3. p = Bot \/ p = Tool
      BY StartupAssumption
    <2>4. script'[Bot] = IF p = Bot THEN 0 ELSE script[Bot]
      BY <1>6, <2>1, <2>3 DEF Quit
    <2>5. Owner'
      BY <1>5, <2>1 DEF Owner, Unassigned
    <2> QED
      BY <1>5, <2>1, <2>2, <2>4, <2>5, BeginOrEnd DEF Quit, TypeOK, Bookkeeping
  <1>17. CASE UNCHANGED vars
    <2>1. UNCHANGED dbVars /\ UNCHANGED <<seen, script, line, pc, allowed, legacy, own, stops>>
      BY <1>17 DEF vars, migrationVars, procVars, startVars
    <2>2. TypeOK' /\ Bookkeeping' /\ Begun' /\ Owner'
      BY <1>5, <2>1 DEF StartupInv, TypeOK, Bookkeeping, Begun, Owner, Unassigned, Runs, dbVars, refVars
    <2> QED
      BY <2>1, <2>2, QuietStep
  <1> QED
    BY <1>7, <1>8, <1>9, <1>10, <1>11, <1>12, <1>13, <1>14, <1>15, <1>16, <1>17
    DEF Next, BotStep, ToolStep

LEMMA StartupAlways == Spec => []StartupInv
  <1> QED
    BY StartupInit, StartupNext, PTL DEF Spec

-----------------------------------------------------------------------------
(* The theorems.                                                            *)

(* The variables keep their types, whatever is started, stopped and sent.   *)
THEOREM StartupTypes == Spec => []TypeOK
  <1>1. StartupInv => TypeOK
    BY DEF StartupInv
  <1> QED
    BY <1>1, StartupAlways, PTL

(* A bot that polls has every script recorded and applied to its last       *)
(* statement, and every item has a reference (run_bot builds the            *)
(* application only after apply_migrations).                                *)
THEOREM PollsWhenReady == Spec => []PollingMeansReady
  <1>1. ASSUME StartupInv PROVE PollingMeansReady
    <2> SUFFICES ASSUME pc = "poll"
                 PROVE  /\ versions = 1..Len(Scripts) /\ SchemaOf(Len(Scripts)) \subseteq schema
                        /\ \A i \in live : pubRef[i] # 0
      BY DEF PollingMeansReady
    <2>1. versions = 1..5 /\ Len(Scripts) = 5
      BY <1>1, ScriptTable DEF StartupInv, Bookkeeping
    <2>2. \A i \in live : pubRef[i] # 0
      BY <1>1, <2>1 DEF StartupInv, References
    <2>3. SchemaOf(5) \subseteq schema
      <3>1. \A n \in 1..5 : Made(n, Len(Scripts[n])) \subseteq schema
        BY <1>1, <2>1 DEF StartupInv, Objects
      <3>2. ASSUME NEW x \in SchemaOf(5) PROVE \E n \in 1..5 : x \in Made(n, Len(Scripts[n]))
        <4>1. /\ x \notin {"task_refs", "task_refs_index", "task_refs_trigger"} /\ x \notin Kinds \cup {"tasks", "notes"}
              /\ \E n \in 1..5 : x \in {s.on : s \in {Scripts[n][l] : l \in DOMAIN Scripts[n]}}
          BY DEF SchemaOf
        <4>2. PICK n \in 1..5, l \in Nat : l \in DOMAIN Scripts[n] /\ x = Scripts[n][l].on
          BY <4>1, ScriptTable DEF Legacy0001, Items0002, TaskRefs0003, PublicRefs0004, Reminders0005
        <4>3. l \in 1..Len(Scripts[n])
          BY <4>2, ScriptTable DEF Legacy0001, Items0002, TaskRefs0003, PublicRefs0004, Reminders0005
        <4>4. Scripts[n][l].op \in {"ensure", "create"}
          <5>1. CASE n \in {1, 2, 5}
            <6>1. PICK o \in Ensured : Scripts[n][l] = Ensure(o)
              BY <4>3, <5>1, StatementsOfOthers
            <6> QED
              BY <6>1 DEF Ensure
          <5>2. CASE n = 3
            BY <4>1, <4>2, <4>3, <5>2, Statements3, ScriptTable DEF Create, Number, Raise, Kinds
          <5>3. CASE n = 4
            BY <4>1, <4>2, <4>3, <5>3, Statements4, ScriptTable DEF Create, Number, Raise, Drop, Kinds
          <5> QED
            BY <5>1, <5>2, <5>3
        <4> QED
          BY <4>1, <4>2, <4>3, <4>4 DEF Made
      <3> QED
        BY <3>1, <3>2
    <2> QED
      BY <2>1, <2>2, <2>3
  <1> QED
    BY <1>1, StartupAlways, PTL

(* The next reference of the sequence is free whenever the bot polls, so    *)
(* that creating an item never fails on the unique index (allocate_ref).    *)
THEOREM FreeWhilePolling == Spec => []NextReferenceIsFree
  <1>1. ASSUME StartupInv PROVE NextReferenceIsFree
    <2> SUFFICES ASSUME pc = "poll", NEW k \in Kinds, NEW i \in OfKind(k)
                 PROVE  pubRef[i] < FirstRef(k)
      BY DEF NextReferenceIsFree
    <2>1. 4 \in versions
      BY <1>1 DEF StartupInv, Bookkeeping
    <2> QED
      BY <1>1, <2>1 DEF StartupInv, References, AllTasks, AllNotes, Kinds
  <1> QED
    BY <1>1, StartupAlways, PTL

(* Without a stop no script is left in the middle by two processes that     *)
(* migrate at once: the one that has passed its first statement gets        *)
(* through (apply_migrations, scripts 0003 and 0004).                       *)
THEOREM TornByStopsOnly == Spec => []OnlyStopsTear
  <1>1. ASSUME StartupInv PROVE OnlyStopsTear
    <2> SUFFICES ASSUME Torn, stops = 0 PROVE FALSE
      BY <1>1 DEF OnlyStopsTear, StartupInv, TypeOK
    <2>1. /\ Scripts[3][1].on = "task_refs" /\ Scripts[4][1].on = "pub_ref"
      BY Statements3, Statements4 DEF Create
    <2> QED
      BY <1>1, <2>1 DEF Torn, StartupInv, Begun, Runs
  <1> QED
    BY <1>1, StartupAlways, PTL

(* The id bind_unassigned_legacy_single_owner gives the old owner is never  *)
(* another user's already.                                                  *)
THEOREM BindingNeverConflicts == Spec => []NoBindingConflict
  <1>1. StartupInv => NoBindingConflict
    BY DEF StartupInv, Owner, NoBindingConflict, Conflict, Binds
  <1> QED
    BY <1>1, StartupAlways, PTL

(* No statement of any migration changes the reference an owner knows an    *)
(* item by, and neither does anything else.                                 *)
THEOREM ReferencesStay == Spec => ReferencesAreStable
  <1>1. ASSUME StartupInv, [Next]_vars, NEW i \in Items, RefOf(i) # 0
        PROVE  RefOf(i)' = RefOf(i)
    <2>1. TypeOK
      BY <1>1 DEF StartupInv
    <2>2. ASSUME NEW p \in Processes, RunStatement(p) PROVE RefOf(i)' = RefOf(i)
      <3>1. CASE UNCHANGED <<taskRefs, pubRef>> /\ ("pub_ref" \in schema' <=> "pub_ref" \in schema)
        BY <3>1 DEF RefOf
      <3>2. CASE \E o : Statement(p) \in {Ensure(o), Create(o)} /\ o # "pub_ref"
        BY <2>1, <2>2, <3>1, <3>2, EffectOnSchema DEF refVars
      <3>3. CASE \E k \in Kinds : Statement(p) = Raise(k)
        BY <2>1, <2>2, <3>1, <3>3, EffectOfRaise
      <3>4. CASE Statement(p) = Create("pub_ref")
        <4>1. UNCHANGED <<taskRefs, pubRef>> /\ "pub_ref" \notin schema
          BY <2>1, <2>2, <3>4, EffectOnSchema DEF refVars
        <4>2. pubRef[i] = 0
          BY <1>1, <4>1 DEF StartupInv, Script4
        <4> QED
          BY <4>1, <4>2 DEF RefOf
      <3>5. CASE Statement(p) = Number("task_refs")
        <4>1. UNCHANGED <<schema, pubRef>> /\ \A j \in live : taskRefs[j] = 0
          BY <2>1, <2>2, <3>5, EffectOfNumber
        <4>2. taskRefs[i] = 0
          BY <1>1, <2>1, <4>1, KindsSplit DEF StartupInv, References, TypeOK
        <4> QED
          BY <1>1, <4>1, <4>2 DEF RefOf
      <3>6. ASSUME script[p] = 4, line[p] \in {1, 2, 7}
            PROVE  /\ "pub_ref" \in schema
                   /\ line[p] = 1 => \A j \in AllTasks : pubRef[j] = 0
                   /\ line[p] = 2 => \A j \in AllNotes : pubRef[j] = 0
                   /\ line[p] = 7 => \A j \in AllTasks : pubRef[j] # 0
                   /\ \A j \in AllTasks : taskRefs[j] # 0
        <4>1. Runs(p, 4) /\ line[p] <= 7
          BY <3>6 DEF Runs
        <4> QED
          BY <1>1, <3>6, <4>1 DEF StartupInv, Script4, InTaskRefs
      <3>7. CASE Statement(p) = Number("tasks") /\ script[p] = 4 /\ line[p] = 1
        <4>1. UNCHANGED <<schema, taskRefs>> /\ pubRef'[i] = IF i \in AllTasks THEN taskRefs[i] ELSE pubRef[i]
          BY <2>1, <2>2, <3>7, EffectOfNumber
        <4>2. i \in AllTasks => KindOf[i] = "task"
          BY DEF AllTasks, OfKind
        <4> QED
          BY <3>6, <3>7, <4>1, <4>2 DEF RefOf
      <3>8. CASE Statement(p) = Number("notes") /\ script[p] = 4 /\ line[p] = 2
        <4>1. UNCHANGED <<schema, taskRefs>> /\ (i \notin AllNotes => pubRef'[i] = pubRef[i])
          BY <2>1, <2>2, <3>8, EffectOfNumber
        <4>2. i \in AllNotes => KindOf[i] = "note"
          BY DEF AllNotes, OfKind
        <4> QED
          BY <1>1, <3>6, <3>8, <4>1, <4>2 DEF RefOf
      <3>9. CASE Statement(p) = Drop("task_refs") /\ script[p] = 4 /\ line[p] = 7
        <4>1. /\ "pub_ref" \in schema' <=> "pub_ref" \in schema
              /\ UNCHANGED pubRef
          BY <2>1, <2>2, <3>9, EffectOfDrop
        <4>2. taskRefs[i] # 0 => pubRef[i] # 0
          BY <1>1, <3>6, <3>9 DEF StartupInv, References
        <4> QED
          BY <1>1, <3>6, <3>9, <4>1, <4>2 DEF RefOf
      <3> QED
        BY <2>1, <2>2, <3>2, <3>3, <3>4, <3>5, <3>7, <3>8, <3>9, StatementCases DEF Ensured, Kinds
    <2>3. ASSUME NEW j \in Items, CreateItem(j) PROVE RefOf(i)' = RefOf(i)
      <3>1. /\ UNCHANGED <<schema, taskRefs>> /\ j \notin live
            /\ pubRef' = pubRef \/ \E n : pubRef' = [pubRef EXCEPT ![j] = n]
        BY <2>3 DEF CreateItem
      <3>2. RefOf(j) = 0
        BY <1>1, <2>1, <3>1, KindsSplit DEF StartupInv, References, RefOf, TypeOK
      <3>3. i # j
        BY <1>1, <3>2
      <3> QED
        BY <2>1, <3>1, <3>3 DEF RefOf, TypeOK
    <2>4. CASE UNCHANGED <<schema, refVars>>
      BY <2>4 DEF RefOf, refVars
    <2>5. \/ UNCHANGED <<schema, refVars>> \/ (\E p \in Processes : RunStatement(p))
          \/ \E j \in Items : CreateItem(j)
      BY <1>1, StartupAssumption
      DEF Next, BotStep, ToolStep, StartBot, Migrate, BotMigrationFails, BindLegacyOwner,
          StartPolling, StartTool, ToolEnds, FirstContact, Stop, SkipScript, RecordVersion,
          MigrationFails, ReadApplied, Quit, vars, migrationVars, dbVars
    <2> QED
      BY <2>2, <2>3, <2>4, <2>5
  <1>2. StartupInv /\ [Next]_vars => [\A i \in Items : RefOf(i) # 0 => RefOf(i)' = RefOf(i)]_vars
    BY <1>1
  <1> QED
    BY <1>2, StartupAlways, PTL DEF Spec, ReferencesAreStable
=============================================================================
