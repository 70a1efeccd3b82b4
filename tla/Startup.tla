------------------------------- MODULE Startup -------------------------------
(***************************************************************************)
(* The start of the bot (run_bot of telegram/bot.py): apply the migrations *)
(* of Migrations, bind the unassigned owner of a database older than       *)
(* Telegram identities (app/users.py), then poll.  While it polls, allowed *)
(* senders become users and make items.  A command-line process ("migrate" *)
(* or "healthcheck") may migrate beside it, both may stop at any point,    *)
(* and Docker starts the bot again.                                        *)
(***************************************************************************)
EXTENDS Migrations

CONSTANTS
  TelegramIds,  \* Telegram users who may be on the allowlist
  AllowLists,   \* the values of TELEGRAM_ALLOWED_USER_IDS: sequences of ids
  MaxStops      \* bound on the stops from outside

Bot == "bot"
Tool == "tool"

ASSUME StartupAssumption ==
  /\ Processes = {Bot, Tool}
  /\ AllowLists \subseteq Seq(TelegramIds) /\ AllowLists # {}
  /\ TelegramIds \cap {"absent", "unassigned"} = {}
  /\ MaxStops \in Nat

VARIABLES
  pc,         \* of the bot: "off", "migrate", "built" or "poll"
  allowed,    \* the allowlist of this start
  legacy,     \* the users row "single-owner": "absent", "unassigned" or the
              \* Telegram id it has
  own,        \* Telegram ids with a users row of their own
  stops       \* stops from outside so far

startVars == <<pc, allowed, legacy, own, stops>>
vars == <<migrationVars, startVars>>

TypeOK ==
  /\ versions \subseteq 1..Len(Scripts)
  /\ schema \subseteq {s.on : s \in UNION {{Scripts[n][l] : l \in DOMAIN Scripts[n]} : n \in DOMAIN Scripts}}
  /\ live \subseteq Items
  /\ taskRefs \in [Items -> Nat] /\ pubRef \in [Items -> Nat] /\ nextRef \in [Kinds -> Nat]
  /\ seen \in [Processes -> SUBSET (1..Len(Scripts))]
  /\ script \in [Processes -> 0..Len(Scripts) + 1]
  /\ line \in [Processes -> 0..8]
  /\ pc \in {"off", "migrate", "built", "poll"}
  /\ allowed \in AllowLists
  /\ legacy \in TelegramIds \cup {"absent", "unassigned"}
  /\ own \subseteq TelegramIds
  /\ stops \in 0..MaxStops

-----------------------------------------------------------------------------
(* The databases a start may find: an empty one, or the database of a       *)
(* release with the scripts up to v and one owner without a Telegram id.    *)

SchemaOf(v) ==
  LET made == (UNION {{s.on : s \in {Scripts[n][l] : l \in DOMAIN Scripts[n]}} : n \in 1..v})
                \ (Kinds \cup {"tasks", "notes"})
  IN  IF v < 4 THEN made ELSE made \ {"task_refs", "task_refs_index", "task_refs_trigger"}

OldRefs(kind) == [i \in Items |-> IF i \in OfKind(kind) THEN Rank(i, OfKind(kind)) ELSE 0]

Init ==
  /\ \E v \in 0..Len(Scripts) :
       /\ versions = 1..v /\ schema = SchemaOf(v)
       /\ legacy \in {"absent"} \cup (IF v = 0 THEN {} ELSE {"unassigned"})
       /\ live \in (IF legacy = "absent" \/ v < 2 THEN {{}} ELSE SUBSET Items)
       /\ taskRefs = IF v = 3 THEN OldRefs("task") ELSE [i \in Items |-> 0]
       /\ pubRef = IF v >= 4 THEN [i \in Items |-> OldRefs(KindOf[i])[i]] ELSE [i \in Items |-> 0]
       /\ \E used \in {0, 2} : nextRef = [k \in Kinds |->
            IF OfKind(k) # {} /\ (v >= 4 \/ (v = 3 /\ k = "task")) THEN Cardinality(OfKind(k)) + 1
            ELSE IF legacy = "absent" THEN 0 ELSE used]
  /\ seen = [p \in Processes |-> {}]
  /\ script = [p \in Processes |-> 0] /\ line = [p \in Processes |-> 0]
  /\ pc = "off" /\ allowed \in AllowLists
  /\ own = {}
  /\ stops = 0

-----------------------------------------------------------------------------
(* run_bot.                                                                 *)

StartBot ==
  /\ pc = "off"
  /\ ReadApplied(Bot)
  /\ pc' = "migrate" /\ allowed' \in AllowLists
  /\ UNCHANGED <<legacy, own, stops>>

Migrate(p) ==
  /\ SkipScript(p) \/ RunStatement(p) \/ RecordVersion(p)
  /\ UNCHANGED startVars

(* A migration error ends the process.                                      *)
BotMigrationFails ==
  /\ MigrationFails(Bot)
  /\ pc' = "off"
  /\ UNCHANGED <<allowed, legacy, own, stops>>

(* bind_unassigned_legacy_single_owner, one transaction: the owner without  *)
(* a Telegram id gets the first id of the allowlist, once.                  *)
Unassigned == legacy = "unassigned"
BindsSingle == Unassigned /\ Len(allowed) = 1
Binds == Unassigned /\ allowed # <<>>
BoundId(list) == list[1]

(* "the first allowed Telegram ID already belongs to another user" raises   *)
(* and ends the process.                                                    *)
Conflict == Binds /\ BoundId(allowed) \in own

BindLegacyOwner ==
  /\ pc = "migrate" /\ Migrated(Bot)
  /\ legacy' = IF Binds /\ ~Conflict THEN BoundId(allowed) ELSE legacy
  /\ pc' = IF Conflict THEN "off" ELSE "built"
  /\ Quit(Bot)
  /\ UNCHANGED <<allowed, own, stops>>

StartPolling ==
  /\ pc = "built"
  /\ pc' = "poll"
  /\ UNCHANGED <<migrationVars, allowed, legacy, own, stops>>

-----------------------------------------------------------------------------
(* The bot at work.                                                         *)

IsAllowed(t) == \E n \in DOMAIN allowed : allowed[n] = t

(* get_or_create_telegram_user for a sender the allowlist names.            *)
UserOf(t) == IF t = legacy THEN "legacy" ELSE IF t \in own THEN "own" ELSE "none"

FirstContact(t) ==
  /\ pc = "poll" /\ IsAllowed(t)
  /\ UserOf(t) = "none"
  /\ own' = own \cup {t}
  /\ UNCHANGED <<migrationVars, pc, allowed, legacy, stops>>

(* allocate_ref and the insert of an item with that reference, the index on *)
(* it permitting.                                                           *)
CreateItem(i) ==
  /\ pc = "poll" /\ i \in Items \ live
  /\ \E t \in TelegramIds : IsAllowed(t) /\ UserOf(t) = (IF legacy = "absent" THEN "own" ELSE "legacy")
  /\ nextRef' = [nextRef EXCEPT ![KindOf[i]] = FirstRef(KindOf[i]) + 1]
  /\ IF \E j \in OfKind(KindOf[i]) : pubRef[j] = FirstRef(KindOf[i])
       THEN UNCHANGED <<live, pubRef>>
       ELSE live' = live \cup {i} /\ pubRef' = [pubRef EXCEPT ![i] = FirstRef(KindOf[i])]
  /\ UNCHANGED <<versions, schema, taskRefs, procVars, startVars>>

-----------------------------------------------------------------------------
(* The command-line process, and stops.                                     *)

StartTool == ReadApplied(Tool) /\ UNCHANGED startVars
ToolEnds == ((Migrated(Tool) /\ Quit(Tool)) \/ MigrationFails(Tool)) /\ UNCHANGED startVars

Stop(p) ==
  /\ stops < MaxStops /\ stops' = stops + 1
  /\ IF p = Bot THEN pc # "off" /\ pc' = "off" ELSE ~Idle(p) /\ UNCHANGED pc
  /\ Quit(p)
  /\ UNCHANGED <<allowed, legacy, own>>

-----------------------------------------------------------------------------
BotStep ==
  \/ StartBot \/ Migrate(Bot) \/ BotMigrationFails
  \/ BindLegacyOwner \/ StartPolling
ToolStep == Migrate(Tool) \/ ToolEnds

Next ==
  \/ BotStep \/ StartTool \/ ToolStep
  \/ \E t \in TelegramIds : FirstContact(t)
  \/ \E i \in Items : CreateItem(i)
  \/ \E p \in Processes : Stop(p)

Spec == Init /\ [][Next]_vars

(* "restart: unless-stopped" starts the bot again, and a process that runs  *)
(* goes on; nobody has to run a command, write a message or stop anything.  *)
FairSpec == Spec /\ WF_vars(BotStep) /\ WF_vars(ToolStep)

-----------------------------------------------------------------------------
(* Properties.                                                              *)

(* "Individual Telegram command handlers assume the database schema is      *)
(* already ready" (README.md): whenever the bot polls every script is       *)
(* recorded and applied to its last statement, whatever stopped before and  *)
(* whoever else was migrating, and every item has a reference.              *)
PollingMeansReady == pc = "poll" =>
  /\ versions = 1..Len(Scripts)
  /\ SchemaOf(Len(Scripts)) \subseteq schema
  /\ \A i \in live : pubRef[i] # 0

(* The reference the sequence hands out next is free: neither the numbering *)
(* of old items nor a migration run again beside the bot makes a creation   *)
(* fail on the unique index.                                                *)
NextReferenceIsFree == pc = "poll" =>
  \A k \in Kinds : \A i \in OfKind(k) : pubRef[i] < FirstRef(k)

(* No migration changes the reference an owner knows an item by.            *)
ReferencesAreStable == [][\A i \in Items : RefOf(i) # 0 => RefOf(i)' = RefOf(i)]_vars

(* A script that fails when it is run a second time has run in part, is not *)
(* recorded, and nobody is in it any more.                                  *)
Torn == \E n \in {3, 4} :
  /\ n \notin versions /\ Scripts[n][1].on \in schema
  /\ \A p \in Processes : ~(script[p] = n /\ line[p] > 0)

(* Two processes that migrate at once never tear a script between them: one *)
(* of them gets through it.                                                 *)
OnlyStopsTear == Torn => stops > 0

(* However the allowlist changes from start to start, the bot never finds   *)
(* that the id the old owner should get already belongs to a user.          *)
NoBindingConflict == pc = "migrate" => ~Conflict

(* Unless a stop has torn a script, the bot always comes to poll.           *)
ComesUp == []<>(pc = "poll" \/ Torn)

(* "The bot applies pending migrations on startup" and "Docker restarts the *)
(* TeleSecretary container" (docs/setup_notes.md, autostart after reboot or *)
(* power loss): after a stop the bot polls again.                           *)
ComesUpAfterPowerLoss == pc = "off" ~> pc = "poll"
=============================================================================
