------------------------------ MODULE LlmAgent ------------------------------
(***************************************************************************)
(* One natural-language message at a time: the handler of                  *)
(* telegram/natural_language.py, the bounded tool loop of llm/agent.py,    *)
(* the dispatch of llm/tools.py and the creation of a task by              *)
(* app/tasks.py and persistence/refs.py, in its three transactions.        *)
(*                                                                         *)
(* The provider is external: it fails, answers with text, or asks for any  *)
(* number of calls.  A call is the size of its result, in some unit, and   *)
(* a task is the number in its reference.  The handlers of the bot run one *)
(* after the other, so two messages never overlap.                         *)
(***************************************************************************)
EXTENDS Naturals, FiniteSets

CONSTANTS
  MaximumRounds,       \* MAXIMUM_TOOL_CALL_ROUNDS
  MaximumCalls,        \* MAXIMUM_TOOL_CALLS
  MaximumResultBytes,  \* MAXIMUM_TOOL_RESULT_BYTES
  ResultSizes,         \* sizes a result of a saved task may have
  ErrorSize,           \* size of an error result
  MaxMessages          \* bound on the messages of a run

ASSUME AgentAssumption ==
  /\ MaximumRounds \in Nat /\ MaximumCalls \in Nat /\ MaximumResultBytes \in Nat
  /\ ResultSizes \subseteq Nat /\ ErrorSize \in Nat
  /\ MaxMessages \in Nat

VARIABLES
  tasks,     \* references of the rows of items
  nextRef,   \* next_value of ref_sequences
  pc,        \* where the request is; "idle" without one, "off" without a process
  rounds,    \* tool_call_rounds
  calls,     \* total_tool_calls
  bytes,     \* total_tool_result_bytes
  todo,      \* tool calls of this response still to dispatch
  answered,  \* function_call_output items in the conversation
  saved,     \* saved_task_refs
  ref,       \* reference allocated for the task being created
  reply,     \* the kind of reply chosen
  asks,      \* history: requests made to the provider for this message
  mine,      \* history: tasks this message put into the database
  unread,    \* history: of those, the ones whose call reported an error
  messages

database == <<tasks, nextRef>>
counters == <<rounds, calls, bytes, todo, answered, saved>>
history == <<asks, mine, unread>>
vars == <<database, pc, counters, ref, reply, history, messages>>

Working == {"begin", "ask", "dispatch", "insert", "read", "reply"}

(* "text" is the model's own; "disabled" and "check list" are the handler's *)
(* replies, without a client and after an exception or a blank text; "try   *)
(* again" and "saved" are the agent's when the provider fails.              *)
Replies == {"none", "text", "disabled", "check list", "try again", "saved",
            "round limit", "call limit", "size limit"}

Control == pc \in Working \cup {"idle", "off"} /\ reply \in Replies

Data ==
  /\ tasks \subseteq Nat /\ nextRef \in Nat /\ ref \in Nat
  /\ rounds \in 0..MaximumRounds /\ calls \in 0..MaximumCalls
  /\ bytes \in Nat /\ todo \in 0..MaximumCalls /\ answered \in 0..MaximumCalls
  /\ saved \subseteq Nat
  /\ asks \in Nat /\ mine \subseteq Nat /\ unread \subseteq Nat
  /\ messages \in Nat

TypeOK == Control /\ Data

Init ==
  /\ tasks = {} /\ nextRef = 1
  /\ pc = "idle"
  /\ rounds = 0 /\ calls = 0 /\ bytes = 0 /\ todo = 0 /\ answered = 0 /\ saved = {}
  /\ ref = 0 /\ reply = "none"
  /\ asks = 0 /\ mine = {} /\ unread = {}
  /\ messages = 0

Finish(kind) == pc' = "reply" /\ reply' = kind

-----------------------------------------------------------------------------
(* The handler: every message starts from nothing but the database.         *)

Message ==
  /\ pc = "idle" /\ messages < MaxMessages
  /\ pc' = "begin" /\ messages' = messages + 1
  /\ rounds' = 0 /\ calls' = 0 /\ bytes' = 0 /\ todo' = 0 /\ answered' = 0 /\ saved' = {}
  /\ reply' = "none"
  /\ asks' = 0 /\ mine' = {} /\ unread' = {}
  /\ UNCHANGED <<database, ref>>

(* The user and the category names are read before the first request.       *)
Begin ==
  /\ pc = "begin"
  /\ pc' = "ask"
  /\ UNCHANGED <<database, counters, ref, reply, history, messages>>

(* No client, key or model is configured.                                   *)
Disabled ==
  /\ pc = "begin"
  /\ Finish("disabled")
  /\ UNCHANGED <<database, counters, ref, history, messages>>

BeginFails ==
  /\ pc = "begin"
  /\ Finish("check list")
  /\ UNCHANGED <<database, counters, ref, history, messages>>

(* The reply goes out, or Telegram fails and it is given up.                *)
Reply ==
  /\ pc = "reply"
  /\ pc' = "idle"
  /\ UNCHANGED <<database, counters, ref, reply, history, messages>>

Stop ==
  /\ pc # "off"
  /\ pc' = "off"
  /\ UNCHANGED <<database, counters, ref, reply, history, messages>>

Start ==
  /\ pc = "off"
  /\ pc' = "idle"
  /\ UNCHANGED <<database, counters, ref, reply, history, messages>>

-----------------------------------------------------------------------------
(* A round: one request to the provider.                                    *)

Ask == pc = "ask" /\ asks' = asks + 1 /\ UNCHANGED <<mine, unread>>

ProviderFails ==
  /\ Ask
  /\ Finish(IF saved = {} THEN "try again" ELSE "saved")
  /\ UNCHANGED <<database, counters, ref, messages>>

(* The handler replaces a blank text, and what any exception but the        *)
(* client's own would have answered.                                        *)
AnswersText ==
  /\ Ask
  /\ \E kind \in {"text", "check list"} : Finish(kind)
  /\ UNCHANGED <<database, counters, ref, messages>>

(* Mutants of this module stand before the definition they replace.        *)
AboveCallsBatch(n) == n > MaximumCalls
AboveCalls(n) == calls + n > MaximumCalls

RequestsToolsForgetting(n) ==
  /\ Ask
  /\ IF rounds >= MaximumRounds THEN Finish("round limit") /\ UNCHANGED counters
     ELSE IF AboveCalls(n) THEN Finish("call limit") /\ UNCHANGED counters
     ELSE /\ pc' = "dispatch" /\ todo' = n /\ saved' = {}
          /\ rounds' = rounds + 1 /\ calls' = calls + n
          /\ UNCHANGED <<bytes, answered, reply>>
  /\ UNCHANGED <<database, ref, messages>>

(* n tool calls: refused as a whole, or all dispatched in order.            *)
RequestsTools(n) ==
  /\ Ask
  /\ IF rounds >= MaximumRounds THEN Finish("round limit") /\ UNCHANGED counters
     ELSE IF AboveCalls(n) THEN Finish("call limit") /\ UNCHANGED counters
     ELSE /\ pc' = "dispatch" /\ todo' = n
          /\ rounds' = rounds + 1 /\ calls' = calls + n
          /\ UNCHANGED <<bytes, answered, saved, reply>>
  /\ UNCHANGED <<database, ref, messages>>

-----------------------------------------------------------------------------
(* One tool call.  Every exception of the creation becomes an error result. *)

Within(size) == bytes + size <= MaximumResultBytes

AfterCallOneMore == IF todo = 0 THEN "ask" ELSE "dispatch"
AfterCall == IF todo = 1 THEN "ask" ELSE "dispatch"

(* The result of a call: its reference is kept before its size is judged,   *)
(* and past the limit neither it nor the calls behind it are answered.      *)
Result(size, refs) ==
  /\ saved' = saved \cup refs
  /\ bytes' = bytes + size
  /\ todo' = todo - 1
  /\ \/ /\ ~Within(size)
        /\ Finish("size limit") /\ UNCHANGED answered
     \/ /\ Within(size)
        /\ answered' = answered + 1
        /\ pc' = AfterCall
        /\ UNCHANGED reply
  /\ UNCHANGED <<rounds, calls>>

ErrorResultDropped ==
  /\ todo' = todo - 1
  /\ pc' = AfterCall
  /\ UNCHANGED <<rounds, calls, bytes, answered, saved, reply>>

ErrorResult == Result(ErrorSize, {})

(* An unknown tool, malformed arguments, a refused field, a database error. *)
RejectCall ==
  /\ pc = "dispatch" /\ todo > 0
  /\ ErrorResult
  /\ UNCHANGED <<database, ref, history, messages>>

TakeRefCounted == ref' = Cardinality(mine) + 1 /\ nextRef' = nextRef + 1
TakeRef == ref' = nextRef /\ nextRef' = nextRef + 1

AllocateRef ==
  /\ pc = "dispatch" /\ todo > 0
  /\ TakeRef
  /\ pc' = "insert"
  /\ UNCHANGED <<tasks, counters, reply, history, messages>>

(* items has a unique index on the reference.                               *)
InsertTask ==
  /\ pc = "insert" /\ ref \notin tasks
  /\ tasks' = tasks \cup {ref} /\ mine' = mine \cup {ref}
  /\ pc' = "read"
  /\ UNCHANGED <<nextRef, counters, ref, reply, asks, unread, messages>>

(* The reference stays used.                                                *)
InsertFails ==
  /\ pc = "insert"
  /\ ErrorResult
  /\ UNCHANGED <<database, ref, history, messages>>

ReadTask ==
  /\ pc = "read"
  /\ \E size \in ResultSizes : Result(size, {ref})
  /\ UNCHANGED <<database, ref, history, messages>>

(* Saved, and yet reported as not created.                                  *)
ReadFails ==
  /\ pc = "read"
  /\ ErrorResult
  /\ unread' = unread \cup {ref}
  /\ UNCHANGED <<database, ref, asks, mine, messages>>

-----------------------------------------------------------------------------
Provider == ProviderFails \/ AnswersText \/ \E n \in 1..MaximumCalls + 1 : RequestsTools(n)

Dispatch == RejectCall \/ AllocateRef \/ InsertTask \/ InsertFails \/ ReadTask \/ ReadFails

Work == Begin \/ Disabled \/ BeginFails \/ Provider \/ Dispatch \/ Reply

Next == Message \/ Work \/ Stop \/ Start

Spec == Init /\ [][Next]_vars

(* The SDK's requests end, by its own timeout, and so does a transaction.   *)
FairSpec == Spec /\ WF_vars(Work)

-----------------------------------------------------------------------------
(* Whenever the provider is asked, the conversation answers every call it   *)
(* has made, the failed ones too: a call left open makes the next request   *)
(* unusable.                                                                *)
EveryCallAnswered == pc = "ask" => answered = calls /\ todo = 0

(* What one message may cause, whatever the provider answers and wherever   *)
(* the database fails: a bounded number of requests, and of new tasks.      *)
EffectsBounded ==
  /\ asks <= MaximumRounds + 1
  /\ Cardinality(mine) <= MaximumCalls

(* After the provider failed the user is told to try again only if no call  *)
(* reported a saved task, and otherwise not to repeat those in saved; a     *)
(* task missing from saved is one whose call the model saw fail.            *)
FailureReplyIsHonest ==
  pc = "reply" /\ reply \in {"try again", "saved"} =>
     /\ saved = mine \ unread
     /\ reply = "try again" <=> mine \subseteq unread

(* A reference names one task for ever: it is not given out again after an  *)
(* insert that failed or a stop between the two transactions.               *)
RefsUsedOnce ==
  /\ \A t \in tasks : t < nextRef
  /\ pc = "insert" => ref \notin tasks

(* A message is answered, or the process stops.                             *)
EveryMessageEnds == (pc = "begin") ~> (pc \in {"idle", "off"})
=============================================================================
