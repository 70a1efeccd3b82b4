--------------------------- MODULE LlmAgentProofs ---------------------------
(***************************************************************************)
(* Proofs about LlmAgent: whatever the provider answers and wherever the   *)
(* database fails, a message has a bounded effect, the conversation stays  *)
(* complete, the failure replies are true and no reference is reused.      *)
(***************************************************************************)
EXTENDS LlmAgent, FiniteSetTheorems, TLAPS

InCall == {"dispatch", "insert", "read"}

(* The conversation: inside a response, the calls still to dispatch are     *)
(* those not answered; a response is only asked for when none is left.      *)
Conversation ==
  /\ pc = "ask" => answered = calls /\ todo = 0
  /\ pc \in InCall => todo > 0 /\ answered + todo = calls
  /\ pc = "begin" => calls = 0 /\ todo = 0 /\ answered = 0 /\ rounds = 0

(* The references: the one in hand is below the sequence and, until its     *)
(* insert, of no task.                                                      *)
References ==
  /\ \A t \in tasks : t < nextRef
  /\ pc \in {"insert", "read"} => ref < nextRef
  /\ pc = "insert" => ref \notin tasks
  /\ mine \subseteq tasks /\ unread \subseteq mine

(* What the agent remembers as saved is what this message inserted, less    *)
(* the task being read and those whose read failed.                         *)
Remembered ==
  /\ pc \in {"begin", "ask", "dispatch", "insert"} => saved = mine \ unread
  /\ pc = "read" => ref \in mine /\ ref \notin unread /\ saved = (mine \ unread) \ {ref}
  /\ FailureReplyIsHonest

(* A new task is paid for by a call, a request by a round.                  *)
Effects ==
  /\ IsFiniteSet(mine)
  /\ pc \in {"begin", "ask", "dispatch", "insert"} => Cardinality(mine) <= answered /\ asks = rounds
  /\ pc = "read" => Cardinality(mine) <= answered + 1 /\ asks = rounds
  /\ EffectsBounded

AgentInv == TypeOK /\ Conversation /\ References /\ Remembered /\ Effects

USE AgentAssumption

(* The provers are slow when a leaf mixes arithmetic with sets of strings,  *)
(* so each step first says what the action does to each group of variables. *)
LEMMA InitAgent == Init => AgentInv
<1> SUFFICES ASSUME Init PROVE AgentInv
  OBVIOUS
<1> USE DEF Init
<1>1. IsFiniteSet({}) /\ Cardinality({}) = 0
  BY FS_EmptySet
<1>2. Control
  BY DEF Control, Working, Replies
<1>3. Data
  BY DEF Data
<1>4. Conversation /\ References
  BY DEF Conversation, References, InCall
<1>5. Remembered
  BY DEF Remembered, FailureReplyIsHonest
<1>6. Effects
  BY <1>1 DEF Effects, EffectsBounded
<1> QED
  BY <1>2, <1>3, <1>4, <1>5, <1>6 DEF AgentInv, TypeOK

LEMMA MessageStep == AgentInv /\ Message => AgentInv'
<1> SUFFICES ASSUME AgentInv, Message PROVE AgentInv'
  OBVIOUS
<1>1. IsFiniteSet({}) /\ Cardinality({}) = 0
  BY FS_EmptySet
<1>2. /\ pc' = "begin" /\ reply' = "none"
      /\ rounds' = 0 /\ calls' = 0 /\ bytes' = 0 /\ todo' = 0 /\ answered' = 0
      /\ saved' = {} /\ asks' = 0 /\ mine' = {} /\ unread' = {}
      /\ UNCHANGED <<tasks, nextRef, ref>>
  BY DEF Message, database
<1>3. messages' \in Nat
  BY DEF AgentInv, TypeOK, Data, Message
<1>4. Control'
  BY <1>2 DEF Control, Working, Replies
<1>5. Data'
  BY <1>2, <1>3 DEF AgentInv, TypeOK, Data
<1>6. Conversation' /\ References'
  BY <1>2 DEF AgentInv, Conversation, References, InCall
<1>7. Remembered'
  BY <1>2 DEF Remembered, FailureReplyIsHonest
<1>8. Effects'
  BY <1>1, <1>2 DEF Effects, EffectsBounded
<1> QED
  BY <1>4, <1>5, <1>6, <1>7, <1>8 DEF AgentInv, TypeOK

(* Steps that leave the tables and the counters alone.                      *)
LEMMA QuietStep ==
  ASSUME AgentInv, Begin \/ Disabled \/ BeginFails \/ Reply \/ Stop \/ Start \/ UNCHANGED vars
  PROVE  AgentInv'
<1>1. UNCHANGED <<database, counters, ref, history, messages>>
  BY DEF Begin, Disabled, BeginFails, Reply, Stop, Start, vars
<1>2. \/ pc = "begin" /\ pc' = "ask" /\ reply' = reply
      \/ pc' = "reply" /\ reply' \in {"disabled", "check list"}
      \/ pc' \in {"idle", "off"} /\ reply' = reply
      \/ pc' = pc /\ reply' = reply
  BY DEF Begin, Disabled, BeginFails, Reply, Stop, Start, vars, Finish
<1> USE DEF AgentInv, database, counters, history
<1>3. Control'
  BY <1>2 DEF TypeOK, Control, Working, Replies
<1>4. Data'
  BY <1>1 DEF TypeOK, Data
<1>5. Conversation' /\ References'
  BY <1>1, <1>2 DEF Conversation, References, InCall
<1>6. Remembered'
  BY <1>1, <1>2 DEF Remembered, FailureReplyIsHonest
<1>7. Effects'
  BY <1>1, <1>2 DEF Effects, EffectsBounded
<1> QED
  BY <1>3, <1>4, <1>5, <1>6, <1>7 DEF TypeOK

(* An answer of the provider that ends the request.                         *)
ReplyFits == (reply' = "try again" => saved = {}) /\ (reply' = "saved" => saved # {})

LEMMA EndingStep ==
  ASSUME AgentInv, Ask, pc' = "reply", reply' \in Replies,
         UNCHANGED <<database, counters, ref, messages>>, ReplyFits
  PROVE  AgentInv'
<1>1. pc = "ask" /\ asks' = asks + 1 /\ mine' = mine /\ unread' = unread
  BY DEF Ask
<1> USE DEF AgentInv, database, counters
<1>2. Control'
  BY DEF Control, Working
<1>3. Data'
  BY <1>1 DEF TypeOK, Data
<1>4. Conversation' /\ References'
  BY <1>1 DEF Conversation, References, InCall
<1>5. Remembered'
  BY <1>1 DEF Remembered, FailureReplyIsHonest, References, ReplyFits
<1>6. Effects'
  <2>1. /\ Cardinality(mine) \in Nat /\ IsFiniteSet(mine)
        /\ Cardinality(mine) <= MaximumCalls /\ asks + 1 <= MaximumRounds + 1
    BY <1>1, FS_CardinalityType DEF Effects, EffectsBounded, TypeOK, Data
  <2> QED
    BY <1>1, <2>1 DEF Effects, EffectsBounded
<1> QED
  BY <1>2, <1>3, <1>4, <1>5, <1>6 DEF TypeOK

LEMMA ProviderStep == AgentInv /\ Provider => AgentInv'
<1> SUFFICES ASSUME AgentInv, Provider PROVE AgentInv'
  OBVIOUS
<1>1. CASE ProviderFails
  <2>1. /\ Ask /\ pc' = "reply" /\ UNCHANGED <<database, counters, ref, messages>>
        /\ reply' = IF saved = {} THEN "try again" ELSE "saved"
    BY <1>1 DEF ProviderFails, Finish
  <2> QED
    BY <2>1, EndingStep DEF Replies, ReplyFits
<1>2. CASE AnswersText
  <2>1. /\ Ask /\ pc' = "reply" /\ UNCHANGED <<database, counters, ref, messages>>
        /\ reply' \in {"text", "check list"}
    BY <1>2 DEF AnswersText, Finish
  <2> QED
    BY <2>1, EndingStep DEF Replies, ReplyFits
<1>3. ASSUME NEW n \in 1..MaximumCalls + 1, RequestsTools(n) PROVE AgentInv'
  <2>1. Ask /\ UNCHANGED <<database, ref, messages>>
    BY <1>3 DEF RequestsTools
  <2>2. CASE pc' = "reply" /\ reply' \in {"round limit", "call limit"} /\ UNCHANGED counters
    BY <2>1, <2>2, EndingStep DEF Replies, ReplyFits
  <2>3. CASE /\ rounds < MaximumRounds /\ calls + n <= MaximumCalls
             /\ pc' = "dispatch" /\ todo' = n
             /\ rounds' = rounds + 1 /\ calls' = calls + n
             /\ UNCHANGED <<bytes, answered, saved, reply>>
    <3>1. pc = "ask" /\ asks' = asks + 1 /\ mine' = mine /\ unread' = unread
      BY <2>1 DEF Ask
    <3> USE DEF AgentInv, database
    <3>2. Control'
      BY <2>3 DEF TypeOK, Control, Working
    <3>3. Data'
      BY <2>1, <2>3, <3>1 DEF TypeOK, Data
    <3>4. Conversation' /\ References'
      BY <2>1, <2>3, <3>1 DEF Conversation, References, TypeOK, Data
    <3>5. Remembered'
      BY <2>1, <2>3, <3>1 DEF Remembered, FailureReplyIsHonest
    <3>6. Effects'
      BY <2>3, <3>1 DEF Effects, EffectsBounded, TypeOK, Data
    <3> QED
      BY <3>2, <3>3, <3>4, <3>5, <3>6 DEF TypeOK
  <2>4. n \in Nat /\ calls \in Nat /\ rounds \in Nat
    BY DEF AgentInv, TypeOK, Data
  <2>5. CASE rounds >= MaximumRounds
    BY <1>3, <2>2, <2>5 DEF RequestsTools, Finish
  <2>6. CASE rounds < MaximumRounds /\ calls + n > MaximumCalls
    <3>1. ~(rounds >= MaximumRounds) /\ AboveCalls(n)
      BY <2>4, <2>6 DEF AboveCalls
    <3> QED
      BY <1>3, <2>2, <3>1 DEF RequestsTools, Finish
  <2>7. CASE rounds < MaximumRounds /\ calls + n <= MaximumCalls
    <3>1. ~(rounds >= MaximumRounds) /\ ~AboveCalls(n)
      BY <2>4, <2>7 DEF AboveCalls
    <3> QED
      BY <1>3, <2>3, <2>7, <3>1 DEF RequestsTools
  <2> QED
    BY <2>4, <2>5, <2>6, <2>7
<1> QED
  BY <1>1, <1>2, <1>3 DEF Provider

(* What the result of a call does to the request, whatever the call did.    *)
LEMMA ResultStep ==
  ASSUME AgentInv, pc \in InCall, NEW size \in Nat, NEW refs \in SUBSET Nat,
         Result(size, refs)
  PROVE  /\ saved' = saved \cup refs /\ UNCHANGED <<rounds, calls>>
         /\ \/ pc' \in {"ask", "dispatch"} /\ answered' = answered + 1 /\ reply' = reply
            \/ pc' = "reply" /\ reply' = "size limit" /\ answered' = answered
         /\ Control' /\ Conversation'
         /\ saved' \subseteq Nat /\ bytes' \in Nat
         /\ todo' \in 0..MaximumCalls /\ answered' \in 0..MaximumCalls
<1>1. bytes' = bytes + size /\ todo' = todo - 1
  BY DEF Result
<1>2. saved' = saved \cup refs /\ UNCHANGED <<rounds, calls>>
  BY DEF Result
<1>3. \/ pc' = "reply" /\ reply' = "size limit" /\ answered' = answered
      \/ pc' = "ask" /\ todo = 1 /\ answered' = answered + 1 /\ reply' = reply
      \/ pc' = "dispatch" /\ todo # 1 /\ answered' = answered + 1 /\ reply' = reply
  BY DEF Result, Finish, AfterCall
<1>4. /\ todo > 0 /\ answered + todo = calls
      /\ calls \in 0..MaximumCalls /\ todo \in Nat /\ answered \in Nat /\ bytes \in Nat
  BY DEF AgentInv, Conversation, TypeOK, Data
<1>5. Control'
  BY <1>3 DEF AgentInv, TypeOK, Control, Working, Replies
<1>6. Conversation'
  <2>1. \/ pc' = "reply"
        \/ pc' = "ask" /\ todo' = 0 /\ answered' = calls
        \/ pc' = "dispatch" /\ todo' > 0 /\ answered' + todo' = calls
    <3>1. /\ todo = 1 => todo - 1 = 0 /\ answered + 1 = calls
          /\ todo # 1 => todo - 1 > 0
          /\ (answered + 1) + (todo - 1) = calls
      BY <1>4
    <3> QED
      BY <1>1, <1>3, <3>1, Zenon
  <2> QED
    BY <1>2, <2>1 DEF Conversation, InCall
<1>7. bytes' \in Nat /\ todo' \in 0..MaximumCalls
  BY <1>1, <1>4
<1>8. answered' \in 0..MaximumCalls
  <2>1. answered \in 0..MaximumCalls /\ answered + 1 \in 0..MaximumCalls
    BY <1>4
  <2> QED
    BY <1>3, <2>1, Zenon
<1>9. saved' \subseteq Nat
  BY <1>2 DEF AgentInv, TypeOK, Data
<1> QED
  BY <1>2, <1>3, <1>5, <1>6, <1>7, <1>8, <1>9

(* A call that ends with an error and has not inserted anything.            *)
LEMMA FailedCallStep ==
  ASSUME AgentInv, pc \in {"dispatch", "insert"}, ErrorResult,
         UNCHANGED <<database, ref, history, messages>>
  PROVE  AgentInv'
<1>1. /\ saved' = saved /\ UNCHANGED <<rounds, calls>>
      /\ \/ pc' \in {"ask", "dispatch"} /\ answered' = answered + 1 /\ reply' = reply
         \/ pc' = "reply" /\ reply' = "size limit" /\ answered' = answered
      /\ Control' /\ Conversation'
      /\ saved' \subseteq Nat /\ bytes' \in Nat
      /\ todo' \in 0..MaximumCalls /\ answered' \in 0..MaximumCalls
  <2>1. pc \in InCall /\ ErrorSize \in Nat /\ {} \in SUBSET Nat /\ Result(ErrorSize, {})
    BY DEF InCall, ErrorResult
  <2> QED
    BY <2>1, ResultStep
<1> USE DEF AgentInv, database, history
<1>2. Data'
  BY <1>1 DEF TypeOK, Data
<1>3. References'
  BY <1>1 DEF References
<1>4. Remembered'
  BY <1>1 DEF Remembered, FailureReplyIsHonest
<1>5. Effects'
  <2>1. /\ IsFiniteSet(mine) /\ Cardinality(mine) \in Nat /\ answered \in Nat
        /\ Cardinality(mine) <= answered /\ asks = rounds /\ EffectsBounded
    BY FS_CardinalityType DEF Effects, TypeOK, Data
  <2>2. Cardinality(mine) <= answered + 1
    BY <2>1
  <2>3. answered' = answered + 1 \/ answered' = answered
    BY <1>1
  <2>4. Cardinality(mine) <= answered'
    BY <2>1, <2>2, <2>3
  <2>5. pc' \in {"ask", "dispatch", "reply"}
    BY <1>1
  <2> QED
    BY <1>1, <2>1, <2>4, <2>5 DEF Effects, EffectsBounded
<1> QED
  BY <1>1, <1>2, <1>3, <1>4, <1>5 DEF TypeOK

(* A call whose task is in the database: read or not, it is over.           *)
LEMMA ReadStep ==
  ASSUME AgentInv, pc = "read", NEW size \in Nat, NEW refs \in SUBSET Nat,
         Result(size, refs), UNCHANGED <<database, ref, asks, mine, messages>>,
         \/ refs = {ref} /\ unread' = unread
         \/ refs = {} /\ unread' = unread \cup {ref}
  PROVE  AgentInv'
<1>1. /\ saved' = saved \cup refs /\ UNCHANGED <<rounds, calls>>
      /\ \/ pc' \in {"ask", "dispatch"} /\ answered' = answered + 1 /\ reply' = reply
         \/ pc' = "reply" /\ reply' = "size limit" /\ answered' = answered
      /\ Control' /\ Conversation'
      /\ saved' \subseteq Nat /\ bytes' \in Nat
      /\ todo' \in 0..MaximumCalls /\ answered' \in 0..MaximumCalls
  BY ResultStep DEF InCall
<1> USE DEF AgentInv, database
<1>2. ref \in mine /\ ref \notin unread /\ saved = (mine \ unread) \ {ref} /\ unread \subseteq mine
  BY DEF Remembered, References
<1>3. Data'
  BY <1>1 DEF TypeOK, Data
<1>4. References'
  BY <1>1, <1>2 DEF References
<1>5. Remembered'
  <2>1. saved' = mine' \ unread'
    BY <1>1, <1>2
  <2> QED
    BY <1>1, <2>1 DEF Remembered, FailureReplyIsHonest
<1>6. Effects'
  <2>1. Cardinality(mine) \in Nat /\ answered \in Nat
    BY FS_CardinalityType DEF Effects, TypeOK, Data
  <2> QED
    BY <1>1, <2>1 DEF Effects, EffectsBounded
<1> QED
  BY <1>1, <1>3, <1>4, <1>5, <1>6 DEF TypeOK

LEMMA DispatchStep == AgentInv /\ Dispatch => AgentInv'
<1> SUFFICES ASSUME AgentInv, Dispatch PROVE AgentInv'
  OBVIOUS
<1>1. CASE RejectCall
  BY <1>1, FailedCallStep DEF RejectCall
<1>2. CASE AllocateRef
  <2>1. /\ pc = "dispatch" /\ pc' = "insert" /\ ref' = nextRef /\ nextRef' = nextRef + 1
        /\ UNCHANGED <<tasks, counters, reply, history, messages>>
    BY <1>2 DEF AllocateRef, TakeRef
  <2> USE DEF AgentInv, counters, history
  <2>2. Control'
    BY <2>1 DEF TypeOK, Control, Working
  <2>3. Data'
    BY <2>1 DEF TypeOK, Data
  <2>4. Conversation'
    BY <2>1 DEF Conversation, InCall
  <2>5. References'
    <3>1. /\ \A t \in tasks : t \in Nat /\ t < nextRef
          /\ nextRef \in Nat /\ mine \subseteq tasks /\ unread \subseteq mine
      BY DEF References, TypeOK, Data
    <3>2. /\ \A t \in tasks : t < nextRef + 1
          /\ nextRef \notin tasks /\ nextRef < nextRef + 1
      BY <3>1
    <3> QED
      BY <2>1, <3>1, <3>2 DEF References
  <2>6. Remembered'
    BY <2>1 DEF Remembered, FailureReplyIsHonest
  <2>7. Effects'
    BY <2>1 DEF Effects, EffectsBounded
  <2> QED
    BY <2>2, <2>3, <2>4, <2>5, <2>6, <2>7 DEF TypeOK
<1>3. CASE InsertTask
  <2>1. /\ pc = "insert" /\ pc' = "read"
        /\ tasks' = tasks \cup {ref} /\ mine' = mine \cup {ref}
        /\ UNCHANGED <<nextRef, counters, ref, reply, asks, unread, messages>>
    BY <1>3 DEF InsertTask
  <2> USE DEF AgentInv, counters
  <2>2. Control'
    BY <2>1 DEF TypeOK, Control, Working
  <2>3. Data'
    BY <2>1 DEF TypeOK, Data
  <2>4. Conversation'
    BY <2>1 DEF Conversation, InCall
  <2>5. References'
    BY <2>1 DEF References
  <2>6. Remembered'
    <3>1. ref \notin mine /\ ref \notin unread /\ saved = mine \ unread
      BY <2>1 DEF References, Remembered
    <3> QED
      BY <2>1, <3>1 DEF Remembered, FailureReplyIsHonest
  <2>7. Effects'
    <3>1. /\ IsFiniteSet(mine) /\ Cardinality(mine) \in Nat
          /\ Cardinality(mine) <= answered /\ asks = rounds
      BY <2>1, FS_CardinalityType DEF Effects
    <3>2. /\ IsFiniteSet(mine') /\ Cardinality(mine') \in Nat
          /\ Cardinality(mine') <= Cardinality(mine) + 1
      <4>1. /\ IsFiniteSet(mine \cup {ref})
            /\ \/ Cardinality(mine \cup {ref}) = Cardinality(mine)
               \/ Cardinality(mine \cup {ref}) = Cardinality(mine) + 1
        BY <3>1, FS_AddElement
      <4> QED
        BY <2>1, <3>1, <4>1
    <3>3. answered + 1 <= MaximumCalls /\ answered \in Nat
      BY <2>1 DEF Conversation, InCall, TypeOK, Data
    <3> QED
      BY <2>1, <3>1, <3>2, <3>3 DEF Effects, EffectsBounded
  <2> QED
    BY <2>2, <2>3, <2>4, <2>5, <2>6, <2>7 DEF TypeOK
<1>4. CASE InsertFails
  BY <1>4, FailedCallStep DEF InsertFails
<1>5. CASE ReadTask
  <2>1. PICK size \in ResultSizes : Result(size, {ref})
    BY <1>5 DEF ReadTask
  <2>2. size \in Nat /\ {ref} \in SUBSET Nat
    BY DEF AgentInv, TypeOK, Data
  <2> QED
    BY <1>5, <2>1, <2>2, ReadStep DEF ReadTask, history
<1>6. CASE ReadFails
  BY <1>6, ReadStep DEF ReadFails, ErrorResult
<1> QED
  BY <1>1, <1>2, <1>3, <1>4, <1>5, <1>6 DEF Dispatch

LEMMA AgentInvariant == Spec => []AgentInv
<1>1. AgentInv /\ [Next]_vars => AgentInv'
  BY MessageStep, QuietStep, ProviderStep, DispatchStep DEF Next, Work
<1> QED
  BY InitAgent, <1>1, PTL DEF Spec

(* _run_agent, llm/agent.py: the types of the request's state.              *)
THEOREM AgentTyping == Spec => []TypeOK
<1>1. AgentInv => TypeOK
  BY DEF AgentInv
<1> QED
  BY AgentInvariant, <1>1, PTL

(* The loop over response.tool_calls: no request leaves a call open.        *)
THEOREM ConversationComplete == Spec => []EveryCallAnswered
<1>1. AgentInv => EveryCallAnswered
  BY DEF AgentInv, Conversation, EveryCallAnswered
<1> QED
  BY AgentInvariant, <1>1, PTL

(* The limits of llm/agent.py bound what one message can do, for every      *)
(* value of the limits.                                                     *)
THEOREM BoundedMessage == Spec => []EffectsBounded
<1>1. AgentInv => EffectsBounded
  BY DEF AgentInv, Effects
<1> QED
  BY AgentInvariant, <1>1, PTL

(* saved_task_refs and the two replies built from it.                       *)
THEOREM HonestFailure == Spec => []FailureReplyIsHonest
<1>1. AgentInv => FailureReplyIsHonest
  BY DEF AgentInv, Remembered
<1> QED
  BY AgentInvariant, <1>1, PTL

(* allocate_ref, persistence/refs.py, and the insert that follows it.       *)
THEOREM ReferencesUsedOnce == Spec => []RefsUsedOnce
<1>1. AgentInv => RefsUsedOnce
  BY DEF AgentInv, References, RefsUsedOnce
<1> QED
  BY AgentInvariant, <1>1, PTL
=============================================================================
