# TeleSecretary: a TLA+ model

TeleSecretary is a Telegram bot that keeps tasks in SQLite, reminds their owners
of them, and lets a language model create tasks from ordinary text. This
directory holds TLA+ modules of it, TLC runs that check them on small instances,
and TLAPS proofs of what matters most for every value of the constants. Paths
below are relative to `src/src/tele_secretary/` of the repository, unless they
start with `docs/`.

## Inventory

| Component | State | Operations | Hard behaviour |
| --- | --- | --- | --- |
| Reminders table (`app/reminders.py`, `migrations/0005`) | rows: status, retry count, last attempt, `updated_at` as the lease | create, cancel, claim, requeue, expire, record results | stale claims, lifecycle against the unique index, counters at their limit, thresholds |
| Reminder delivery (`telegram/reminder_delivery.py`) | claims in hand | preflight, send, summarise, record | one step of several failing, answers lost or late, commands during an await |
| Scheduler (`scheduler/runner.py`) | the running cycle | start, cycle, stop | a crash or an exception in the middle of a cycle, restarts |
| Task lifecycle (`app/tasks.py`) | items: status, fields, tags, completion log | create, edit, complete, reopen, delete | reads and validation outside the transaction that writes |
| Task views (`app/tasks.py`) | none | `/today`, `/due`, `/urgent` | local days over a change of clocks, two sort keys that must agree |
| Edit command (`telegram/edit_command.py`) | none | flags to updates | overriding flags, conflicts, merging of tags, redelivery |
| Reminder time parser (`app/reminder_time_parser.py`, `time_utils.py`) | none | expression to instant | local times that do not exist or come twice |
| LLM agent (`llm/agent.py`, `telegram/natural_language.py`) | one request: rounds, calls, bytes, saved references | ask, dispatch, reply | failure after part of the work, limits in mid-request, termination |
| LLM tools (`llm/tools.py`) | none | parse, check, create | an error reported for a task that exists |
| References (`persistence/refs.py`) | next number per user and type | allocate | a read outside the transaction that writes, an insert in yet another |
| Migrations (`persistence/migrations.py`, `migrations/*.sql`) | applied versions, the schema | apply | a stop between two statements, two processes in one script |
| Users (`app/users.py`) | users, Telegram ids | get or create, bind legacy owner | legacy binding against first contact, changing allowlists |
| Bot (`telegram/bot.py`, `__main__.py`, `app/health.py`) | the Telegram application | commands, start and stop | order at startup, restarts, a second process on the same file |
| Responses, help, config, logging, client, diagnostics, authorisation | none | wording, I/O, a guard | none |

How they interact: all commands and the scheduler share one asyncio loop and one
SQLite file. Command handlers run one after another. A database call never
awaits, so commands and the cycle interleave only where one of them awaits: the
cycle in `send_message`, in its sleep, or before its first cycle. The agent runs
in a worker thread and only creates tasks, which have no reminders. A `migrate`
or `healthcheck` command is a second process on the same file, and so is a
second bot, started by mistake or while a container is replaced.

What makes the components correct:

* table: one active reminder per task and time; the retry columns agree; nothing
  early; settled rows stay settled; an ended task has nothing left to come;
* delivery and scheduler: a claim in hand is the lease of its row, no reminder is
  delivered twice by a cycle, every duplicate is explained by a lost result,
  a message has one owner who may receive it, nothing is claimed for ever;
* tasks: what was validated can be stored, the snapshot agrees with the log, an
  edit does what its flags say in any order and when it is delivered twice;
* dates: the views follow the owner's calendar, a deadline only comes closer, a
  requested time is the next time a clock shows it;
* agent: bounded effects, a complete conversation, truthful failure replies, an
  end to every message;
* references: each names one item for ever, over migrations and several processes;
* startup: whoever stops or migrates beside it, a bot that polls has its schema,
  and a bot that can be started comes to poll.

## Modules

| Module | What it is |
| --- | --- |
| `ReminderStore` | the table's contract: one action per transaction of `app/reminders.py` and per task command that touches reminders, for any callers with any clock up to now |
| `ReminderCycle` | one bot process on top of it (EXTENDS `ReminderStore`): cycle, preflight, send, record, crash, restart, commands |
| `ReminderPromise` | what the feature promises a user, per reminder; `ReminderCycle` implements it |
| `TwoBots` | two instances of `ReminderCycle` on one `ReminderStore` |
| `LlmAgent` | one natural-language message at a time: handler, tool loop, dispatch, the three transactions of a creation |
| `RefSequence` | `allocate_ref` and the insert, for several processes |
| `Migrations` | the five scripts, statement by statement, for several processes |
| `Startup` | the bot on top of it (EXTENDS `Migrations`): start, migrate, bind, poll, first contacts, creations; beside it a command-line process; stops of both |
| `LocalTime` | wall times and instants of a zone with one change of clocks; the resolution of local times |
| `TaskViews` | `/today`, `/due`, `/urgent` as time passes and tasks end and return |
| `ReminderTime` | a parsed `/remind` expression to an instant or an error |
| `EditCommand` | `/edit` as a function: flags to updates, validation, the row that is written |
| `EditRequest` | one `/edit` message about one task |
| `OwnerCommands` | composes `TaskViews`, `EditRequest` and `ReminderTime`: a behaviour is about one command of an owner |
| `TaskRecord` | the life of a task under several bots that read before they write (EXTENDS `EditCommand`) |
| `MC...` | instances for TLC |
| `...Proofs` | theorems, see below |

Two modules are abstract specifications. `ReminderStore` says what a process may
do to the tables; `UsesStore` says that `ReminderCycle` implements it, with the
identity on the table variables, and so every theorem of the store holds of the
process. `ReminderPromise` knows only a status and how often the user was told;
`PromiseKept` is that `ReminderCycle` implements it, with the row's status and
`got` in the place of its variables.

Operators whose name extends that of the operator right after them
(`DueFirst`, `DueFirstEarly`) are mutants: a plausible bug in that definition,
which makes the property named in `PROJECT.json` fail. Nothing else uses them.

### ReminderStore and the code

* `rem[r]` is a row: `status`, `retry` (`retry_count`), `last`
  (`last_attempted_at`) and `upd` (`updated_at`). The CHECKs of `0005` tie the
  other timestamps to the status, so they are left out. A row is numbered by its
  id; `TaskOf` and `SchedOf` give it task and time for good, as in the code, where
  no statement changes them. An id that does not exist has status `"none"`.
* A `Claim` is a `ClaimedReminderRecord`: id, retry count and `claimed_at`.
  `HoldsLease` is the `WHERE` that every recording statement repeats.
* Each action is a whole transaction with its guards; the batch functions choose
  the first `BatchSize` rows of the code's `ORDER BY` (`IsBatch`).
* `RetryDelay`, `Lease`, `MissedAfter`, `ExpireAfter`, `BatchSize`, `SummaryMin`
  are the code's constants (1, 5 and 15 minutes; 5 minutes; 60 minutes; 12 hours;
  50; 4). Time is in ticks.

### ReminderCycle and the code

* `pc` is the place in `process_reminder_cycle`; `queue`, `late`, `group`, `ready`
  and `sending` are its local claim lists; `cyc` is `cycle_time`, which every write
  of a cycle uses.
* A send is three events: the await begins (`sending`), Telegram takes the message
  or not (`TelegramAccepts`), the await ends with an answer (`SendSucceeds`) or an
  exception (`SendFails`), so a timeout after acceptance is possible. A message
  taken only after the client's timeout counts as taken within the await.
* `Stop` is a crash, or `Scheduler.stop`, which cancels the task in its await; only
  the tables survive. `ResultNotRecorded`, `PreflightFails` and `CycleFails` are
  database errors at each place the code catches them.
* `got` and `lost` are history: what Telegram took, and how much of it was never
  recorded as sent.

### TwoBots and the code

Each process has its own copy of the cycle's variables; tables and clock are
shared. `MaxSlow` bounds how often the clock moves while a cycle is under way,
which is what lets a send outlast its lease. `OneLeaseHolder` is the fence: the
test of `updated_at` lets at most one of two holders record a result, although
`updated_at` has a resolution of one second. Its constants are assumed to be what
`ReminderCycle` assumes of them.

### LlmAgent and the code

* The provider is a choice: fail, answer with text, or ask for 1 to
  `MaximumCalls` + 1 calls (a larger batch is refused alike).
* A creation is `AllocateRef`, `InsertTask`, `ReadTask`: three transactions of
  `create_task`. Each can fail; `dispatch_tool_call` turns every exception into an
  error result, also the one of `ReadFails`, after the task was saved.
* A task is its reference's number; a result is its size in an arbitrary unit.
  Titles, categories and the validity of arguments are abstracted to `RejectCall`.
* Texts are kinds. `"check list"` is the handler's generic reply, which also
  replaces a blank model text and answers for any exception but the client's own;
  `"disabled"` is its reply when no client is configured.

### RefSequence and the code

`allocate_ref` selects the sequence and then updates it inside `with conn`.
Python's `sqlite3` begins a transaction at the first write, not at the `SELECT`,
so `ReadSequence` and `WriteSequence` are separate steps: two connections can be
given one number, and a late `UPDATE` sets the sequence back. The second `INSERT`
of the row itself fails on its key; a second item with the number fails on
`idx_items_user_pub_ref`. One bot alone never overlaps: updates are handled one
after another, also while a handler waits for the agent's thread. It takes a
second bot on the same file.

### Migrations, Startup and the code

* A script is the sequence of its statements, each an operation on one object
  (`Ensure`, `Create`, `Drop`) or on the data (`Number`, `Raise`). `executescript`
  commits each by itself, so `RunStatement` is one; `RecordVersion` is the
  insert that follows; `MigrationFails` is a statement that raises, which ends the
  process. Columns are left out but for references and sequences: these the
  scripts compute from data, with `Rank` for the `ROW_NUMBER` queries.
* `Startup`'s `pc` follows `run_bot`: migrations, `bind_unassigned_legacy_single_owner`,
  polling. Initial states are the databases a start can find: empty, or of a
  release with the scripts up to any number, with an owner not yet bound.
* `Tool` is the `migrate` or `healthcheck` command; both apply migrations.

### Dates and the code

* `LocalTime`: a zone is one change of its offset. `ToUtc` with `fold` 0 or 1 is what
  `replace(tzinfo, fold).astimezone` does; `Candidates`, `NextMinute` and `Resolved`
  are the functions of the parser.
* `TaskViews`: `StartOfDay` is `combine(date, min).astimezone(utc)`; `Reason` is the
  chain of `get_focus_today`, `FocusKey` and `DueKey` the sort keys.
* `EditCommand`: a message is a sequence of flags with their words. `Sets` is what a
  flag puts into `task_field_updates`, `Clashing` is the table of
  `_validate_conflicting_flags`, `NextRow` what `update_task_fields` writes.
* `TaskRecord`: a command reads (`ReadTransition`) and then writes, since the code
  reads and validates before `with conn`; an edit reads twice, the tags in
  `edit_task_by_ref` (`ReadTags`) and the columns in `update_task_fields`
  (`ReadFields`). The names it looks up again in its transaction cannot have changed.
  `Checks` are the table's CHECKs.

## Runs

| Run | Question | Bounds |
| --- | --- | --- |
| `store` | is the table consistent under any calls? | two reminders of one task at the same time, clock to 5 |
| `cycle` | is the process correct between awaits, commands, faults? | two owners, one reminder each, one fault, one slow tick, commands up to time 2 |
| `summary` | are several rows behind one message treated as one? | two missed reminders of one owner, one fault, two slow ticks |
| `live` | does everything settle, also when every batch is full? | two reminders due together, one per batch, all attempts of both, one fault, commands up to time 1, clock to 9 |
| `two_bots` | what does the lease guarantee when sends outlast it? | one reminder, two processes, one fault, two slow ticks |
| `agent` | is a message bounded, answered and honest? | two messages, 2 rounds, 3 calls, sizes 1 and 3 of 5 |
| `ref_sequence` | when is a creation refused, and does it recover? | three processes, four items, two stops |
| `startup` | is a polling bot ready, and does it come to poll? | three items, databases of every release, four allowlists, one stop |
| `tasks` | what do two bots do to one task between their reads and writes? | two bots, nine edits, four entries in the log |
| `commands` | do views, `/remind` and `/edit` follow calendar and clock? | days of 4 minutes, weeks of 3 days, every change of clocks of up to two minutes, two tasks, messages of up to two flags (three about planned work) |
| `doc_retry_count`, `doc_autostart` | does what the documents say hold? | one reminder; one task and one power loss |

Why the bounds are enough: two reminders are the fewest that can compete for a
slot, a batch, a group or an owner; the clock reaches past every threshold and,
in `store` and `live`, past the fourth attempt; two bots with four
entries in the log reach every repetition that they can cause (`tasks`, where the
bots are symmetric); one fault breaks each step of a
cycle once. In the runs `SummaryMin` is 2 (4 in the code), so that two missed
reminders make a summary; in `store` it is 1, so that the summary transactions
also happen with a single claim. `MaxSlow` bounds how far time runs on during a
cycle; `MaxFaults`, `MaxStops` and `LastCommand` bound faults, stops and commands. In the
bounded clock of the reminders the last state stutters (`TimeIsUp`), so any other
halt would be reported as a deadlock. Deadlock is not checked in `ref_sequence`,
`tasks` and `commands`, where nothing is left to do at the bounds (`MaxItems`,
`MaxLog`, an answered command). In `agent` all limits are below what the
provider may ask for, so each binds. In `startup` two tasks share their creation
time, so ranks are decided by the id, and one stop reaches every statement of
every script. In `commands` a day has a gap or an overlap at any of its minutes,
midnight included for `/remind`, and pairs of flags suffice for every entry of the
table of conflicts; the theorems of `OwnerCommandsProofs` remove that bound.

Fairness. `ReminderCycle`: `WF(CycleStep)`, as the event loop runs what is ready
and a request timeout ends every await; `WF(StartBot)`, as the container has
`restart: unless-stopped`; `WF(Clock)`. Commands, Telegram and faults have none.
`LlmAgent`: `WF(Work)`, as the SDK's requests and SQLite's locks time out; a stop
ends a message without an answer, and so does a reply Telegram refuses.
`Startup`: `WF(BotStep)`, which includes the restart by Docker, and `WF(ToolStep)`: a
command that runs goes on. `RefSequence`: a creation that has begun goes on, and a
refused one is asked for again; that is the user's doing, and without it a
refusal is final.

### What the violations show

* `doc_retry_count`. `docs/Database-diagram.md:295` calls `retry_count` the "count of
  delivery attempts already made". An attempt whose result was lost is requeued
  uncounted, so a user may see a reminder more often than the count says
  (`RetryCountCountsAttempts`). `DuplicatesBounded` states what does hold:
  attempts plus faults.
* `doc_autostart`. `docs/setup_notes.md:229,238,254` promise that the bot migrates and
  comes back after a power loss. One in the middle of script 0003 or 0004 leaves
  a database on which every start fails at the script's first statement
  (`ComesUpAfterPowerLoss`). `OnlyStopsTear` and `ComesUp` state what does hold:
  only a stop can do that, and otherwise the bot always comes to poll.

Differences from the documents seen while modelling that no run is spent on:

* `docs/Database-diagram.md:296` calls `last_attempted_at` the time of the latest
  attempt; a successful attempt does not set it.
* `docs/setup_notes.md:139` says the order of the allowlist gives no ownership; the
  legacy owner is bound to its first id (`app/users.py:90`).
* `app/help.py:43` says that a date alone is the end of that day; when the clocks skip
  23:59 `local_to_utc` gives an instant of the next day.

## Proofs

Assumptions: those of the modules' `ASSUME`s (positive lease and batch size,
missed before expired, the code's three retry delays, summaries of at least two)
and what a theorem names itself. No theorem uses fairness or the bounds of a run.

* `ReminderStoreProofs`. The steps of the table are first summarised: `RowMove`
  lists what one step may do to one row. The invariant is `StoreTypeOK` with
  the four named properties of the table; `RetryAccounting` needs the type of
  `retry` to bound it, `NothingEarly` needs it to know that a row with a failed
  attempt was due, and `InactiveTaskHasNoFutureReminder` needs `NothingEarly`, since a
  row in flight when its task ends escapes the cancellation. `TerminalIsFinal`
  follows from `RowMove`.
* `ReminderCycleProofs`. `CycleUsesStore` proves the refinement of the table's contract
  step by step. `CycleInv` is `TypeOK`, `ClaimsHeld` and `HandsInOrder`: that claims
  stay held needs that no two hands share a reminder, as recording one would
  invalidate the other, and that the hands are empty where the cycle's recovery
  and claims write the table. `DeliveryInv` adds what is known of a claim in
  each hand: its age since triage (`AgeInv`), that the preflight of a group is not
  interrupted (`GroupInv`; `ReadyActive`, as no command can end a task between the
  preflight and the summary), and that a message is one claim or a summary of
  missed ones of one owner (`MessageInv`). From it follow the properties of
  messages, and, since the lease tests pass, that an answer marks every row of
  its message: `DeliveriesAccounted`. With the accounting the process is shown to
  implement `ReminderPromise` (`PromiseIsKept`): a row becomes sent only while its
  message was taken.
* `LlmAgentProofs`. `AgentInv` counts: tasks of the message against answered
  calls, requests against rounds, and relates `saved` to the history at every
  point of a call. `FailureReplyIsHonest` is not inductive without that.
* `TaskRecordProofs`. An edit writes every column the CHECKs relate, as it validated
  them, so what another bot stored in between does not matter (`NoEditDiesOnACheck`).
  `SnapshotMatchesHistory` holds for any number of bots; `HistoryAlternates` only for
  one (two may both find a task active and both complete it), and is a theorem about
  one. For more, `RepeatsBounded`: a transition is logged at most as often in a row as
  there are bots. `RepeatsInv` counts the entries of the last run of equal ones
  together with the bots about to write one more; after the first of them the status
  lets no further bot begin, and that is what `SnapshotMatchesHistory` is needed for.
* `RefSequenceProofs`. Without an overlap the sequence is ahead of every reference in
  use or about to be inserted, and processes about to insert hold different ones.
* `StartupProofs`. For any items, allowlists and number of stops. Scripts 0003 and 0004
  cannot run twice, and their first statement is a plain `CREATE`: a lock, so that
  of the processes that come to the script one gets past it. `StartupInv` therefore
  says of the process inside such a script what its line has done so far
  (`Script3`, `Script4`), of both what they know to be recorded (`Bookkeeping`), and of
  the database which objects a recorded script has left and where the references
  are (`Objects`, `References`). `Begun` (without a stop somebody is still at work on
  a begun script) gives `OnlyStopsTear`, `Owner` gives `NoBindingConflict`.
* `OwnerCommandsProofs`. A behaviour is about one command, so `OwnerInv` is an
  invariant of each and the rest untouched.
  Time: in every zone the candidates are exactly the instants at which a clock shows
  the wall time, and the resolution is the first instant at which a clock shows it
  or later, whenever a gap is at most a day: so the search of the next 24 hours
  always ends (`CandidatesAreShowings`, `ResolvedIsFirst`). If the change stays within
  one calendar day, the instant the views take for the start of a date divides the
  dates (`StartOfDate`). Views: with that fact they follow the calendar, deadlines
  only come closer, planned work is shown on its dates and the lists agree, for
  any tasks.
  `/edit`: a field two flags of one message could set is in the table of conflicts
  or set to the same value, so the order of the flags never matters, for messages
  of any length; what an accepted edit stores is what each flag says, and a
  fixed point of the edit. `/remind`: the answer is the next time after now that the
  owner's clock first comes to what was asked for, and the warning is true. These
  two theorems assume `Instants = Int`: the property ranges over all instants, of which
  TLC can only enumerate a window.
* `TwoBotsProofs`. Two processes, any leases and delays. The lemmas are at the end of
  `ReminderCycleProofs` ("One process beside another"), about one process and the claims
  of another one it knows nothing of, and are taken once for each process.
  `TwoInv` has three parts. Each process keeps its own claims in order, whatever
  happens to their rows (`OwnInv`; `ClaimsHeld` does not survive a second process).
  `Fence`: a claim that lost its lease lost it to a recovery in a cycle of the other
  process that began a whole `Lease` after its own, or its row was expired by the
  other's triage, which tests no lease. So two claims of a row never share
  `updated_at`, although it is only a clock reading: `OneLeaseHolder`. `Paid`: what
  Telegram took in `Excess` of attempts, faults and the answer due is at most `slow`,
  and, for the sake of the induction, for a cycle that may still claim the row or
  holds it, at most what `slow` was when that cycle began: what time passed since
  has not been spent yet. A lease that is lost spends it. `DuplicatesBounded` follows.
  A process that lost a lease still writes only what the table allows, so two
  processes implement `ReminderStore` as well (`BothUseStore`) and the table's theorems
  hold with two of them (`TableKept`). The owner and the age of messages do not depend
  on leases either (`MessagesOfBoth`). `NoMessageForInactiveTask` does not carry over: the
  other process may end a task between the preflight and the summary.

What the assumptions on zones leave out: a change of a whole day (Samoa in 2011)
for `/remind`, a change that crosses midnight for the views. Stored rows have a
planned start not after its end, as the validation and the CHECK ensure.

The type invariants, `TerminalIsFinal`, `SnapshotMatchesHistory`, `DeletedIsFinal` and
`HistoryAlternates` are proved and not run; neither do runs check `BothUseStore`, `TableKept` and `MessagesOfBoth`.
Every invariant and every action property that a passing run
checks is a theorem, and so are the refinements.

Only model-checked: the liveness properties `LeaseReleased`, `EventuallySettled`,
`EveryMessageEnds`, `CreationsGetThrough` and `ComesUp`, which need fairness and `ENABLED`
and are out of the prover's reach. Proved for two bots and for one bot beside one
command-line process, not for more.

## Plan

What would come next, in this order: `OneLeaseHolder` and `OnlyStopsTear` for any number
of processes; a promise per reminder that two processes still keep, weaker than
`ReminderPromise`.

## Not modelled

* Wording and layout of messages, the title budget of a summary, help,
  configuration, logging and diagnostics have no state of their own. The provider
  client translates one request and response. Authorisation is a stateless guard
  in front of each handler.
* The splitting of command texts into flags, words and times: the models start
  from the parts. Notes differ from tasks in their columns only.
* Zones with several changes close to each other, and, for the views, a change that
  crosses midnight (the assumption `WithinOneDay`). A planned window of length zero
  exactly at a local midnight is left out of `PlannedByDay`.
* Lost updates. An edit writes every column as it read it, so of two bots that edit
  one task at once the later undoes the earlier, and an edit that comes after a
  deletion still writes all columns but the title. The code does not guard against it,
  one bot cannot meet it, and no property speaks of it.
* A bound owner beside the unbound one. `tests/test_user_services.py` inserts a user
  with the first allowed id before the binding, to test that it is refused; no run of
  the bot leads there, since contacts come after the binding: `NoBindingConflict`.
* "database is locked" as an event of its own: where the code catches errors it is
  one of the faults. A bot of an older release at work while a newer one migrates.
* Known and deliberately outside the properties: a reminder whose attempt fails
  after its task ended stays pending, claimed by nothing, until the task is
  reopened; a retry, unlike a first attempt, has no limit on its age.
