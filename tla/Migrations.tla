----------------------------- MODULE Migrations -----------------------------
(***************************************************************************)
(* The schema migrations (persistence/migrations.py) and the five scripts  *)
(* they apply, for processes that may migrate the same database at once:   *)
(* the bot at its start and the "migrate" and "healthcheck" commands.      *)
(*                                                                         *)
(* executescript commits every statement by itself, so a step is one       *)
(* statement; a process may stop between any two.  A process reads the     *)
(* applied versions once, before its first script.  The schema is the set  *)
(* of its objects, and the data are the public references of one owner's   *)
(* items, which scripts 0003 and 0004 move from table to table.            *)
(***************************************************************************)
EXTENDS Integers, Sequences, FiniteSets

CONSTANTS
  Processes,  \* the processes that may migrate
  Items,      \* items of one owner, numbered in the order of their ids
  KindOf,     \* item_type of an item: "task" or "note"
  CreatedAt   \* created_at of an item; items may share one

Kinds == {"task", "note"}

ASSUME MigrationsAssumption ==
  /\ Items \subseteq Nat /\ IsFiniteSet(Items)
  /\ KindOf \in [Items -> Kinds]
  /\ CreatedAt \in [Items -> Nat]

VARIABLES
  versions,   \* schema_migrations: the numbers of the recorded scripts
  schema,     \* the tables, columns, indexes and triggers there are
  live,       \* the items there are
  taskRefs,   \* the table task_refs: the number of a task's reference, or 0
  pubRef,     \* items.pub_ref: the number of an item's reference, or 0
  nextRef,    \* ref_sequences.next_value of a kind, or 0 when it has no row
  seen,       \* applied_before of a process
  script,     \* the script a process is at, 0 when it does not migrate
  line        \* the statements of that script it has run

refVars == <<taskRefs, pubRef, nextRef>>
dbVars == <<versions, schema, live, refVars>>
procVars == <<seen, script, line>>
migrationVars == <<dbVars, procVars>>

-----------------------------------------------------------------------------
(* The scripts.                                                             *)

Ensure(o) == [op |-> "ensure", on |-> o]   \* CREATE ... IF NOT EXISTS
Create(o) == [op |-> "create", on |-> o]   \* CREATE ..., ALTER TABLE ... ADD
Drop(o)   == [op |-> "drop", on |-> o]     \* DROP TABLE
Number(o) == [op |-> "number", on |-> o]   \* gives items their references
Raise(k)  == [op |-> "raise", on |-> k]    \* lifts next_value above them

Legacy0001 == <<Ensure("users"), Ensure("ref_sequences"), Ensure("health_checks")>>
Items0002 == <<Ensure("items"), Ensure("task_items"), Ensure("indexes")>>
TaskRefs0003 ==
  <<Create("task_refs"), Number("task_refs"), Raise("task"),
    Create("task_refs_index"), Create("task_refs_trigger")>>
PublicRefs0004 ==
  <<Create("pub_ref"), Number("tasks"), Number("notes"), Raise("note"),
    Create("pub_ref_index"), Create("pub_ref_valid"), Create("pub_ref_fixed"),
    Drop("task_refs")>>
Reminders0005Once == <<Create("reminders"), Create("reminder_indexes")>>
Reminders0005 == <<Ensure("reminders"), Ensure("reminder_indexes")>>

Scripts == <<Legacy0001, Items0002, TaskRefs0003, PublicRefs0004, Reminders0005>>

OfKind(k) == {i \in live : KindOf[i] = k}

(* ROW_NUMBER() OVER (ORDER BY created_at, id), from the sequence's value.  *)
RankOfTime(i, S) == Cardinality({j \in S : CreatedAt[j] < CreatedAt[i]}) + 1
Rank(i, S) == Cardinality({j \in S : \/ CreatedAt[j] < CreatedAt[i]
                                     \/ CreatedAt[j] = CreatedAt[i] /\ j <= i})

FirstRef(k) == IF nextRef[k] = 0 THEN 1 ELSE nextRef[k]
Numbered(k) == [i \in Items |-> IF i \in OfKind(k) THEN FirstRef(k) + Rank(i, OfKind(k)) - 1
                                                   ELSE 0]

Distinct(f, S) == \A i, j \in S : f[i] = f[j] => i = j

(* The reference an owner knows an item by.                                 *)
RefOf(i) == IF "pub_ref" \in schema /\ pubRef[i] # 0 THEN pubRef[i]
            ELSE IF KindOf[i] = "task" THEN taskRefs[i] ELSE 0

(* next_value = MAX(next_value, highest reference + 1), over the references *)
(* that the script has just given.                                          *)
RaisedOnlyIfMissing(k, S) == IF S = {} \/ nextRef[k] # 0 THEN nextRef[k]
                             ELSE (CHOOSE n \in S : \A m \in S : m <= n) + 1
Raised(k, S) ==
  IF S = {} THEN nextRef[k]
  ELSE LET top == (CHOOSE n \in S : \A m \in S : m <= n) + 1
       IN  IF top > nextRef[k] THEN top ELSE nextRef[k]

(* What a statement needs not to raise an error: a plain CREATE an object   *)
(* that is not there, a table that it reads, the references of a UNIQUE     *)
(* table or index to differ.                                                *)
Possible(s) ==
  /\ s.op = "create" => s.on \notin schema
  /\ s.op = "drop" => s.on \in schema
  /\ s = Number("tasks") => "task_refs" \in schema
  /\ s = Number("task_refs") =>
       /\ "task_refs" \in schema
       /\ \A i \in live : taskRefs[i] = 0
       /\ Distinct(Numbered("task"), OfKind("task"))
  /\ s = Create("pub_ref_index") => \A k \in Kinds :
       Distinct(pubRef, {i \in OfKind(k) : pubRef[i] # 0})

NewSchema(s) ==
  IF s.op \in {"ensure", "create"} THEN schema \cup {s.on}
  ELSE IF s.op = "drop" THEN schema \ {"task_refs", "task_refs_index", "task_refs_trigger"}
  ELSE schema

NewTaskRefs(s) ==
  IF s = Number("task_refs") THEN Numbered("task")
  ELSE IF s.op = "drop" THEN [i \in Items |-> 0]
  ELSE taskRefs

NewPubRefRanked(s) ==
  [i \in Items |->
     IF s = Number("tasks") /\ i \in OfKind("task") THEN Numbered("task")[i]
     ELSE IF s = Number("notes") /\ i \in OfKind("note") THEN Numbered("note")[i]
     ELSE pubRef[i]]
NewPubRef(s) ==
  [i \in Items |->
     IF s = Number("tasks") /\ i \in OfKind("task") THEN taskRefs[i]
     ELSE IF s = Number("notes") /\ i \in OfKind("note") THEN Numbered("note")[i]
     ELSE pubRef[i]]

NewNextRef(s) ==
  [k \in Kinds |->
     IF s # Raise(k) THEN nextRef[k]
     ELSE IF k = "task" THEN Raised(k, {taskRefs[i] : i \in Items} \ {0})
     ELSE Raised(k, {pubRef[i] : i \in OfKind("note")})]

-----------------------------------------------------------------------------
(* apply_migrations of a process.                                           *)

Idle(p) == script[p] = 0
Migrated(p) == script[p] > Len(Scripts)

(* ensure_migration_table and get_applied_migrations.                       *)
ReadApplied(p) ==
  /\ Idle(p)
  /\ seen' = [seen EXCEPT ![p] = versions]
  /\ script' = [script EXCEPT ![p] = 1]
  /\ line' = [line EXCEPT ![p] = 0]
  /\ UNCHANGED dbVars

InScript(p) == script[p] \in DOMAIN Scripts /\ script[p] \notin seen[p]

SkipScript(p) ==
  /\ script[p] \in seen[p]
  /\ script' = [script EXCEPT ![p] = @ + 1]
  /\ UNCHANGED <<dbVars, seen, line>>

Statement(p) == Scripts[script[p]][line[p] + 1]

MoreLines(p) == InScript(p) /\ line[p] < Len(Scripts[script[p]])

RunStatement(p) ==
  /\ MoreLines(p)
  /\ Possible(Statement(p))
  /\ schema' = NewSchema(Statement(p))
  /\ taskRefs' = NewTaskRefs(Statement(p))
  /\ pubRef' = NewPubRef(Statement(p))
  /\ nextRef' = NewNextRef(Statement(p))
  /\ line' = [line EXCEPT ![p] = @ + 1]
  /\ UNCHANGED <<versions, live, seen, script>>

(* INSERT INTO schema_migrations: version is its primary key.               *)
RecordVersionEarly(p) ==
  /\ InScript(p)
  /\ script[p] \notin versions
  /\ versions' = versions \cup {script[p]}
  /\ script' = [script EXCEPT ![p] = @ + 1]
  /\ line' = [line EXCEPT ![p] = 0]
  /\ UNCHANGED <<schema, live, refVars, seen>>
RecordVersion(p) ==
  /\ InScript(p) /\ ~MoreLines(p)
  /\ script[p] \notin versions
  /\ versions' = versions \cup {script[p]}
  /\ script' = [script EXCEPT ![p] = @ + 1]
  /\ line' = [line EXCEPT ![p] = 0]
  /\ UNCHANGED <<schema, live, refVars, seen>>

(* The process ends: it forgets what it has read and where it was.          *)
Quit(p) ==
  /\ seen' = [seen EXCEPT ![p] = {}]
  /\ script' = [script EXCEPT ![p] = 0]
  /\ line' = [line EXCEPT ![p] = 0]
  /\ UNCHANGED dbVars

(* A statement raises; what the statements before it did stays.             *)
MigrationFails(p) ==
  /\ \/ MoreLines(p) /\ ~Possible(Statement(p))
     \/ InScript(p) /\ ~MoreLines(p) /\ script[p] \in versions
  /\ Quit(p)
=============================================================================
