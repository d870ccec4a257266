------------------------- MODULE JarvisServerProofs -------------------------
(***************************************************************************)
(* Theorems about JarvisServer, for every set of calls and requests.       *)
(*                                                                         *)
(* The server is its components at work together: every step of it is, for *)
(* the agent, the broker and the session, a step of its own or none.  So   *)
(* the inductive invariants of the three are invariants of the server, and *)
(* what is left to show is how their states hang together (Together).      *)
(***************************************************************************)
EXTENDS JarvisServer, TLAPS

EngineThms  == INSTANCE AgentProofs
BrokerThms  == INSTANCE HttpConsentProofs
SessionThms == INSTANCE SessionProofs

-----------------------------------------------------------------------------
(* The components of the server are those the other proof modules are      *)
(* about: their definitions are the same, reached by another name.         *)

(* The agent of the server is an Agent. *)
LEMMA EngineIsAgent ==
  /\ Engine!Init => EngineThms!Init
  /\ [Engine!Next]_(Engine!vars) => [EngineThms!Next]_(EngineThms!vars)
  BY DEF Engine!Init, Engine!Next, Engine!TurnStep, Engine!EngineStep,
         Engine!ExecutorStep, Engine!vars, Engine!locals, Engine!executed,
         Engine!Stored, Engine!Risks, Engine!Stops, Engine!Input,
         Engine!Reply, Engine!ToolResults, Engine!EndTurn,
         Engine!AppendThen, Engine!StartTurn, Engine!RoundsLeft,
         Engine!ProviderRaises, Engine!TakeReply, Engine!Elements,
         Engine!Batches, Engine!ProviderReturns,
         Engine!Exhausted, Engine!RoundsExceeded, Engine!At,
         Engine!WithResult, Engine!Report, Engine!RecordThen,
         Engine!UnknownTool, Engine!NeedsConsent, Engine!Classify,
         Engine!ConsentGranted, Engine!ConsentDenied, Engine!Decision,
         Engine!ReportedOk, Engine!ToolEnds, Engine!Raises,
         Engine!SendResults, Engine!Reset, EngineThms!Init,
         EngineThms!Next, EngineThms!TurnStep, EngineThms!EngineStep,
         EngineThms!ExecutorStep, EngineThms!vars, EngineThms!locals,
         EngineThms!executed, EngineThms!Stored, EngineThms!Risks,
         EngineThms!Stops, EngineThms!Input, EngineThms!Reply,
         EngineThms!ToolResults, EngineThms!EndTurn, EngineThms!AppendThen,
         EngineThms!StartTurn, EngineThms!RoundsLeft,
         EngineThms!ProviderRaises, EngineThms!TakeReply,
         EngineThms!Elements, EngineThms!Batches,
         EngineThms!ProviderReturns, EngineThms!Exhausted,
         EngineThms!RoundsExceeded, EngineThms!At, EngineThms!WithResult,
         EngineThms!Report, EngineThms!RecordThen, EngineThms!UnknownTool,
         EngineThms!NeedsConsent, EngineThms!Classify,
         EngineThms!ConsentGranted, EngineThms!ConsentDenied,
         EngineThms!Decision, EngineThms!ReportedOk, EngineThms!ToolEnds,
         EngineThms!Raises, EngineThms!SendResults, EngineThms!Reset

(* The consent manager of the server is an HttpConsent. *)
LEMMA BrokerIsHttpConsent ==
  /\ Broker!Init => BrokerThms!Init
  /\ [Broker!Next]_(Broker!vars) => [BrokerThms!Next]_(BrokerThms!vars)
  BY DEF Broker!Init, Broker!Next, Broker!RequestStep, Broker!AllDecided,
         Broker!Decided, Broker!vars, Broker!Goto, Broker!Register,
         Broker!Emit, Broker!Wake, Broker!TimesOut, Broker!Expire,
         Broker!Verdict, Broker!Forgotten, Broker!Return,
         Broker!Unresolved, Broker!Resolve, BrokerThms!Init,
         BrokerThms!Next, BrokerThms!RequestStep, BrokerThms!AllDecided,
         BrokerThms!Decided, BrokerThms!vars, BrokerThms!Goto,
         BrokerThms!Register, BrokerThms!Emit, BrokerThms!Wake,
         BrokerThms!TimesOut, BrokerThms!Expire, BrokerThms!Verdict,
         BrokerThms!Forgotten, BrokerThms!Return, BrokerThms!Unresolved,
         BrokerThms!Resolve

(* The session of the server is a Session. *)
LEMMA SessionIsSession ==
  /\ Session!Init => SessionThms!Init
  /\ [Session!Next]_(Session!vars) => [SessionThms!Next]_(SessionThms!vars)
  BY DEF Session!Init, Session!Next, Session!HandlerStep,
         Session!WorkerStep, Session!StreamStep, Session!Rest,
         Session!vars, Session!handlerVars, Session!workerVars,
         Session!queueVars, Session!Queues, Session!Event,
         Session!Answered, Session!HandlerGoes, Session!Lookup,
         Session!Acquirable, Session!Refuse, Session!NewQueue,
         Session!Claim, Session!Spawn, Session!SpawnFails, Session!Respond,
         Session!WorkerGoes, Session!Put, Session!Begin, Session!Emit,
         Session!Conclude, Session!Marked, Session!MarkEnd,
         Session!LockAfterTurn, Session!Release, Session!HasNext,
         Session!NextItem, Session!IsEnd, Session!Deliver,
         Session!Disconnect, Session!DropOne, Session!Delete,
         SessionThms!Init, SessionThms!Next, SessionThms!HandlerStep,
         SessionThms!WorkerStep, SessionThms!StreamStep, SessionThms!Rest,
         SessionThms!vars, SessionThms!handlerVars, SessionThms!workerVars,
         SessionThms!queueVars, SessionThms!Queues, SessionThms!Event,
         SessionThms!Answered, SessionThms!HandlerGoes, SessionThms!Lookup,
         SessionThms!Acquirable, SessionThms!Refuse, SessionThms!NewQueue,
         SessionThms!Claim, SessionThms!Spawn, SessionThms!SpawnFails,
         SessionThms!Respond, SessionThms!WorkerGoes, SessionThms!Put,
         SessionThms!Begin, SessionThms!Emit, SessionThms!Conclude,
         SessionThms!Marked, SessionThms!MarkEnd,
         SessionThms!LockAfterTurn, SessionThms!Release,
         SessionThms!HasNext, SessionThms!NextItem, SessionThms!IsEnd,
         SessionThms!Deliver, SessionThms!Disconnect, SessionThms!DropOne,
         SessionThms!Delete

-----------------------------------------------------------------------------
(* Every step of the server is a step of its components.                   *)

(* Unchanged variables of a component. *)
LEMMA Unmoved ==
  /\ UNCHANGED agentVars => UNCHANGED Engine!vars
  /\ UNCHANGED consentVars => UNCHANGED Broker!vars
  /\ UNCHANGED sessionVars => UNCHANGED Session!vars
  BY DEF agentVars, consentVars, sessionVars, Engine!vars, Engine!locals,
         Engine!executed, Broker!vars, Session!vars, Session!handlerVars,
         Session!workerVars, Session!queueVars

(* The server's steps, for the agent. *)
LEMMA StepOfEngine == [Next]_vars => [Engine!Next]_(Engine!vars)
<1> SUFFICES ASSUME [Next]_vars PROVE [Engine!Next]_(Engine!vars)
  OBVIOUS
<1> USE Unmoved DEF Engine!Next, Engine!TurnStep
<1>1. ASSUME NEW r \in Requests, WorkerStep(r)
      PROVE  [Engine!Next]_(Engine!vars)
  <2>1. CASE BeginTurn(r)
    BY <2>1 DEF BeginTurn
  <2>2. CASE EngineAlone(r)
    BY <2>2 DEF EngineAlone
  <2>3. CASE FinishTurn(r)
    BY <2>3 DEF FinishTurn
  <2>4. ASSUME NEW c \in Calls, Dispatch(r, c)
        PROVE  [Engine!Next]_(Engine!vars)
    <3>1. "read_only" \in Engine!Risks
      BY DEF Engine!Risks
    <3>2. Engine!ExecutorStep(c)
      BY <2>4, <3>1 DEF Dispatch, Engine!ExecutorStep
    <3> QED
      BY <3>2
  <2>5. ASSUME NEW c \in Calls, Ask(r, c) \/ WaitEnds(r, c)
        PROVE  [Engine!Next]_(Engine!vars)
    BY <2>5 DEF Ask, WaitEnds
  <2>6. ASSUME NEW c \in Calls, Verdict(r, c) \/ RunTool(r, c)
        PROVE  [Engine!Next]_(Engine!vars)
    BY <2>6 DEF Verdict, RunTool, Engine!ExecutorStep
  <2> QED
    BY <1>1, <2>1, <2>2, <2>3, <2>4, <2>5, <2>6 DEF WorkerStep
<1>2. CASE \/ \E r \in Requests : MessageStep(r)
           \/ DeleteSession
           \/ \E c \in Calls : ConsentLookup(c) \/ ConsentAnswer(c)
           \/ UNCHANGED vars
  BY <1>2 DEF MessageStep, DeleteSession, ConsentLookup, ConsentAnswer, vars
<1> QED
  BY <1>1, <1>2 DEF Next

(* The server's steps, for the consent manager. *)
LEMMA StepOfBroker == [Next]_vars => [Broker!Next]_(Broker!vars)
<1> SUFFICES ASSUME [Next]_vars PROVE [Broker!Next]_(Broker!vars)
  OBVIOUS
<1> USE Unmoved DEF Broker!Next, Broker!RequestStep
<1>1. ASSUME NEW r \in Requests, WorkerStep(r)
      PROVE  [Broker!Next]_(Broker!vars)
  <2>1. CASE BeginTurn(r) \/ EngineAlone(r) \/ FinishTurn(r)
    BY <2>1 DEF BeginTurn, EngineAlone, FinishTurn
  <2>2. ASSUME NEW c \in Calls,
               \/ Dispatch(r, c) \/ Ask(r, c) \/ WaitEnds(r, c)
               \/ Verdict(r, c) \/ RunTool(r, c)
        PROVE  [Broker!Next]_(Broker!vars)
    BY <2>2 DEF Dispatch, Ask, WaitEnds, Verdict, RunTool
  <2> QED
    BY <1>1, <2>1, <2>2 DEF WorkerStep
<1>2. ASSUME NEW c \in Calls, ConsentAnswer(c)
      PROVE  [Broker!Next]_(Broker!vars)
  BY <1>2 DEF ConsentAnswer
<1>3. CASE \/ \E r \in Requests : MessageStep(r)
           \/ DeleteSession
           \/ \E c \in Calls : ConsentLookup(c)
           \/ UNCHANGED vars
  BY <1>3 DEF MessageStep, DeleteSession, ConsentLookup, vars
<1> QED
  BY <1>1, <1>2, <1>3 DEF Next

(* The server's steps, for the session. *)
LEMMA StepOfSession == [Next]_vars => [Session!Next]_(Session!vars)
<1> SUFFICES ASSUME [Next]_vars PROVE [Session!Next]_(Session!vars)
  OBVIOUS
<1> USE Unmoved DEF Session!Next
<1>1. ASSUME NEW r \in Requests, WorkerStep(r)
      PROVE  [Session!Next]_(Session!vars)
  <2>1. CASE BeginTurn(r) \/ FinishTurn(r)
    BY <2>1 DEF BeginTurn, FinishTurn, Session!WorkerStep
  <2>2. CASE EngineAlone(r)
    BY <2>2 DEF EngineAlone
  <2>3. ASSUME NEW c \in Calls, Dispatch(r, c) \/ Ask(r, c)
        PROVE  [Session!Next]_(Session!vars)
    BY <2>3 DEF Dispatch, Ask, Session!WorkerStep
  <2>4. ASSUME NEW c \in Calls, WaitEnds(r, c) \/ Verdict(r, c) \/ RunTool(r, c)
        PROVE  [Session!Next]_(Session!vars)
    BY <2>4 DEF WaitEnds, Verdict, RunTool
  <2> QED
    BY <1>1, <2>1, <2>2, <2>3, <2>4 DEF WorkerStep
<1>2. ASSUME NEW r \in Requests, MessageStep(r)
      PROVE  [Session!Next]_(Session!vars)
  BY <1>2 DEF MessageStep
<1>3. CASE DeleteSession
  BY <1>3 DEF DeleteSession
<1>4. CASE (\E c \in Calls : ConsentLookup(c) \/ ConsentAnswer(c))
              \/ UNCHANGED vars
  BY <1>4 DEF ConsentLookup, ConsentAnswer, vars
<1> QED
  BY <1>1, <1>2, <1>3, <1>4 DEF Next

(* What is known of each component holds of the server. *)
ComponentsInv == EngineThms!IInv /\ BrokerThms!IInv /\ SessionThms!IInv

(* The bounds of the server are bounds of its components. *)
LEMMA ComponentAssumptions ==
  EngineThms!BoundsAssumption /\ SessionThms!SessionAssumption
  BY ServerAssumption
     DEF EngineThms!BoundsAssumption, SessionThms!SessionAssumption,
         Engine!BoundsAssumption, Session!SessionAssumption

(* Fresh components are in order. *)
LEMMA ComponentsStart == Init => ComponentsInv
<1> SUFFICES ASSUME Init PROVE ComponentsInv
  OBVIOUS
<1>1. EngineThms!Init /\ BrokerThms!Init /\ SessionThms!Init
  BY EngineIsAgent, BrokerIsHttpConsent, SessionIsSession DEF Init
<1>2. EngineThms!IInv
  BY <1>1, ComponentAssumptions, EngineThms!InitIInv
<1>3. BrokerThms!IInv
  BY <1>1, BrokerThms!InitIInv
<1>4. SessionThms!IInv
  BY <1>1, ComponentAssumptions, SessionThms!InitIInv
<1> QED
  BY <1>2, <1>3, <1>4 DEF ComponentsInv

(* A step of the server leaves its components in order. *)
LEMMA ComponentsStay == ComponentsInv /\ [Next]_vars => ComponentsInv'
<1> SUFFICES ASSUME ComponentsInv, [Next]_vars PROVE ComponentsInv'
  OBVIOUS
<1> USE DEF ComponentsInv
<1>1. EngineThms!IInv'
  BY StepOfEngine, EngineIsAgent, ComponentAssumptions, EngineThms!NextIInv
<1>2. BrokerThms!IInv'
  BY StepOfBroker, BrokerIsHttpConsent, BrokerThms!NextIInv
<1>3. SessionThms!IInv'
  <2>1. [SessionThms!Next]_(SessionThms!vars)
    BY StepOfSession, SessionIsSession
  <2>2. SessionThms!TypeOK
    BY DEF SessionThms!IInv
  <2>3. SessionThms!TypeOK'
    BY <2>1, <2>2, ComponentAssumptions, SessionThms!NextTypeOK
  <2>4. SessionThms!OwnerIsCurrent' /\ SessionThms!WorkerAfterSpawn'
        /\ SessionThms!WritesToOwn'
    BY <2>1, ComponentAssumptions, SessionThms!NextOwner
  <2>5. SessionThms!QueueByWorker'
    BY <2>1, ComponentAssumptions, SessionThms!NextQueue
  <2> QED
    BY <2>3, <2>4, <2>5 DEF SessionThms!IInv
<1> QED
  BY <1>1, <1>2, <1>3

-----------------------------------------------------------------------------
(* How the components hang together.                                       *)

(* The consent manager is asked about the call the agent has come to.      *)
QuestionAtHead == \A c \in pending : pc = "asking" /\ c = todo[1]

(* A turn of the agent is run by a worker of the session.                  *)
TurnHasWorker == pc # "idle" => \E r \in Requests : worker[r] = "running"

(* What the executor takes for a grant is one.                             *)
GrantAgrees == \A c \in Calls : consent[c] = "granted" => asker[c] = "granted"

(* Clients answer what they were sent, and nothing after the delete.       *)
AnswersSent ==
    \A c \in answering : c \in Calls /\ asker[c] \notin {"idle", "registered"}

UnsentStaysOpen ==
    \A c \in unsent :
        /\ c \in Calls /\ accepted[c] = << >>
        /\ ~listed /\ c \notin answering

Together == /\ QuestionAtHead /\ TurnHasWorker /\ GrantAgrees
            /\ AnswersSent /\ UnsentStaysOpen

ServerInv == ComponentsInv /\ Together

(* What the component invariants say, as far as it is used here. *)
LEMMA ComponentFacts ==
  ASSUME ComponentsInv
  PROVE  /\ asker \in [Calls -> {"idle", "registered", "waiting", "answered",
                                 "expired", "granted", "refused"}]
         /\ pending = {c \in Calls : asker[c] \notin {"idle", "granted", "refused"}}
         /\ \A c \in Calls :
               /\ accepted[c] = IF isSet[c] THEN <<allow[c]>> ELSE << >>
               /\ isSet[c] => asker[c] \notin {"idle", "registered"}
               /\ asker[c] = "granted" => isSet[c] /\ accepted[c] = <<TRUE>>
         /\ consent \in [Calls -> {"none", "granted", "denied"}]
         /\ pc \in {"asking", "running"} => todo # << >>
         /\ todo \in Seq(Calls)
         /\ worker \in [Requests -> {"none", "started", "running", "concluded",
                                     "marked", "released"}]
         /\ \A r \in Requests :
               /\ handler[r] = "claimed" => worker[r] = "none"
               /\ worker[r] = "running" =>
                     locked /\ current = r /\ writesTo[r] = r
<1>1. /\ asker \in [Calls -> {"idle", "registered", "waiting", "answered",
                              "expired", "granted", "refused"}]
      /\ pending = {c \in Calls : asker[c] \notin {"idle", "granted", "refused"}}
      /\ \A c \in Calls :
            /\ accepted[c] = IF isSet[c] THEN <<allow[c]>> ELSE << >>
            /\ isSet[c] => asker[c] \notin {"idle", "registered"}
            /\ asker[c] = "granted" => isSet[c]
  BY DEF ComponentsInv, BrokerThms!IInv, BrokerThms!TypeOK,
         BrokerThms!TableIsInFlight, BrokerThms!Decided,
         BrokerThms!EntryIsTheAnswer, BrokerThms!AskerKnows
<1>2. \A c \in Calls : asker[c] = "granted" => accepted[c] = <<TRUE>>
  BY BrokerThms!IInvGrant DEF ComponentsInv, BrokerThms!GrantIsTheAnswer
<1>3. /\ consent \in [Calls -> {"none", "granted", "denied"}]
      /\ todo \in Seq(Calls)
      /\ pc \in {"asking", "running"} => todo # << >>
  BY DEF ComponentsInv, EngineThms!IInv, EngineThms!TypeOK,
         EngineThms!TodoIsAhead
<1>4. /\ worker \in [Requests -> {"none", "started", "running", "concluded",
                                  "marked", "released"}]
      /\ \A r \in Requests :
            /\ handler[r] = "claimed" => worker[r] = "none"
            /\ worker[r] = "running" =>
                  locked /\ current = r /\ writesTo[r] = r
  <2>1. /\ SessionThms!TypeOK /\ SessionThms!OwnerIsCurrent
        /\ SessionThms!WorkerAfterSpawn /\ SessionThms!WritesToOwn
    BY DEF ComponentsInv, SessionThms!IInv
  <2>2. \A r \in Requests : worker[r] = "running" => SessionThms!HoldsLock(r)
    BY DEF SessionThms!HoldsLock, SessionThms!Working
  <2>3. ASSUME NEW r \in Requests, handler[r] = "claimed"
        PROVE  worker[r] = "none"
    <3>1. worker[r] \in {"none", "started", "running", "concluded", "marked",
                         "released"}
      BY <2>1 DEF SessionThms!TypeOK
    <3> QED
      BY <2>1, <2>3, <3>1 DEF SessionThms!WorkerAfterSpawn
  <2> QED
    BY <2>1, <2>2, <2>3
       DEF SessionThms!TypeOK, SessionThms!OwnerIsCurrent, SessionThms!WritesToOwn
<1> QED
  BY <1>1, <1>2, <1>3, <1>4

(* A fresh server hangs together. *)
LEMMA TogetherStarts == Init => Together
<1> SUFFICES ASSUME Init PROVE Together
  OBVIOUS
<1>1. /\ pending = {} /\ pc = "idle" /\ answering = {} /\ unsent = {}
      /\ consent = [c \in Calls |-> "none"]
  BY DEF Init, Engine!Init, Broker!Init
<1> QED
  BY <1>1 DEF Together, QuestionAtHead, TurnHasWorker, GrantAgrees,
              AnswersSent, UnsentStaysOpen

(* The consent manager never takes a grant or a question back. *)
LEMMA BrokerGoesOn ==
  ASSUME ComponentsInv, [Next]_vars, NEW c \in Calls
  PROVE  /\ asker[c] = "granted" => asker'[c] = "granted"
         /\ asker[c] \notin {"idle", "registered"} =>
               asker'[c] \notin {"idle", "registered"}
<1>1. asker \in [Calls -> {"idle", "registered", "waiting", "answered",
                           "expired", "granted", "refused"}]
  BY ComponentFacts
<1>2. CASE UNCHANGED Broker!vars
  BY <1>2 DEF Broker!vars
<1>3. ASSUME NEW d \in Calls, NEW answer,
             Broker!Register(d) \/ Broker!RequestStep(d)
                \/ Broker!Resolve(d, answer)
      PROVE  /\ asker[c] = "granted" => asker'[c] = "granted"
             /\ asker[c] \notin {"idle", "registered"} =>
                   asker'[c] \notin {"idle", "registered"}
  BY <1>1, <1>3 DEF Broker!Register, Broker!RequestStep, Broker!Emit,
                    Broker!Wake, Broker!Expire, Broker!Return, Broker!Goto,
                    Broker!Verdict, Broker!Resolve
<1> QED
  BY <1>2, <1>3, StepOfBroker DEF Broker!Next, Broker!AllDecided

(* The question in the table is the one of the call at the head of todo.   *)
LEMMA QuestionStays ==
  ASSUME ComponentsInv, QuestionAtHead, [Next]_vars PROVE QuestionAtHead'
<1> USE DEF QuestionAtHead
<1>0. /\ todo \in Seq(Calls)
      /\ pending = {c \in Calls : asker[c] \notin {"idle", "granted", "refused"}}
  BY ComponentFacts
<1>1. CASE UNCHANGED <<pending, pc, todo>>
  BY <1>1
<1>2. CASE pending' = {}
  BY <1>2
<1>3. ASSUME NEW r \in Requests,
             \/ BeginTurn(r) \/ EngineAlone(r)
             \/ \E c \in Calls : RunTool(r, c)
      PROVE  pending' = {}
  <2>1. pc # "asking" /\ pending' = pending
    BY <1>3 DEF BeginTurn, Engine!StartTurn, EngineAlone, Engine!EngineStep,
                Engine!ProviderRaises, Engine!ProviderReturns,
                Engine!RoundsExceeded, Engine!SendResults, RunTool,
                Engine!ToolEnds, Engine!At, consentVars
  <2> QED
    BY <2>1
<1>4. ASSUME NEW r \in Requests, NEW c \in Calls, Dispatch(r, c)
      PROVE  QuestionAtHead'
  <2>1. pc = "dispatching"
    BY <1>4 DEF Dispatch, Engine!UnknownTool, Engine!Classify, Engine!At
  <2>2. pending = {}
    BY <2>1
  <2>3. CASE UNCHANGED consentVars
    BY <2>2, <2>3 DEF consentVars
  <2>4. ASSUME NEW k \in Engine!Risks \ {"read_only"}, Engine!Classify(c, k),
               Broker!Register(c)
        PROVE  QuestionAtHead'
    <3>1. pending' = {c}
      BY <2>2, <2>4 DEF Broker!Register
    <3>2. pc' = "asking" /\ todo' = todo /\ todo # << >> /\ c = Head(todo)
      BY <2>4 DEF Engine!Classify, Engine!NeedsConsent, Engine!At, Engine!locals
    <3> QED
      BY <1>0, <3>1, <3>2
  <2> QED
    BY <1>4, <2>3, <2>4 DEF Dispatch
<1>5. ASSUME NEW r \in Requests, NEW c \in Calls, Ask(r, c) \/ WaitEnds(r, c)
      PROVE  UNCHANGED <<pending, pc, todo>>
  BY <1>5 DEF Ask, WaitEnds, Broker!Emit, Broker!Wake, Broker!Expire,
              agentVars
<1>6. ASSUME NEW r \in Requests, NEW c \in Calls, Verdict(r, c)
      PROVE  pending' = {}
  <2>1. c \in pending /\ pending' = pending \ {c}
    BY <1>0, <1>6 DEF Verdict, Broker!Return, Broker!Forgotten
  <2> QED
    BY <2>1
<1>7. CASE \/ \E r \in Requests : FinishTurn(r) \/ MessageStep(r)
           \/ DeleteSession
           \/ \E c \in Calls : ConsentLookup(c)
           \/ UNCHANGED vars
  BY <1>1, <1>7 DEF FinishTurn, MessageStep, DeleteSession, ConsentLookup, vars,
                    agentVars, consentVars
<1>8. ASSUME NEW c \in Calls, ConsentAnswer(c)
      PROVE  UNCHANGED <<pending, pc, todo>>
  BY <1>8 DEF ConsentAnswer, Broker!Resolve, agentVars
<1> QED
  BY <1>1, <1>2, <1>3, <1>4, <1>5, <1>6, <1>7, <1>8 DEF Next, WorkerStep

(* A worker runs as long as the turn does. *)
LEMMA WorkerStays ==
  ASSUME ComponentsInv, TurnHasWorker, [Next]_vars PROVE TurnHasWorker'
<1> USE DEF TurnHasWorker
<1>0. /\ worker \in [Requests -> {"none", "started", "running", "concluded",
                                  "marked", "released"}]
      /\ \A r \in Requests : handler[r] = "claimed" => worker[r] = "none"
  BY ComponentFacts
<1>1. ASSUME NEW r \in Requests, BeginTurn(r) PROVE worker'[r] = "running"
  BY <1>0, <1>1 DEF BeginTurn, Session!Begin, Session!WorkerGoes
<1>2. ASSUME NEW r \in Requests, worker[r] = "running", UNCHANGED worker
      PROVE  TurnHasWorker'
  BY <1>2
<1>3. ASSUME NEW r \in Requests,
             \/ EngineAlone(r)
             \/ \E c \in Calls : \/ Dispatch(r, c) \/ Ask(r, c) \/ WaitEnds(r, c)
                                 \/ Verdict(r, c) \/ RunTool(r, c)
      PROVE  TurnHasWorker'
  <2>1. worker[r] = "running" /\ worker' = worker
    BY <1>3 DEF EngineAlone, Dispatch, Ask, WaitEnds, Verdict, RunTool, InTurn,
                Session!Emit, sessionVars
  <2> QED
    BY <1>2, <2>1
<1>4. ASSUME NEW r \in Requests, FinishTurn(r) PROVE pc' = "idle"
  BY <1>4 DEF FinishTurn, agentVars
<1>5. ASSUME NEW r \in Requests, MessageStep(r) PROVE TurnHasWorker'
  <2>1. pc' = pc
    BY <1>5 DEF MessageStep, agentVars
  <2>2. CASE Session!Spawn(r)
    <3>1. worker[r] = "none" /\ worker' = [worker EXCEPT ![r] = "started"]
      BY <1>0, <2>2 DEF Session!Spawn, Session!HandlerGoes
    <3> QED
      BY <1>0, <2>1, <3>1
  <2>3. CASE ~Session!Spawn(r)
    <3>1. worker' = worker
      BY <1>5, <2>3 DEF MessageStep, Session!Lookup, Session!HandlerStep,
            Session!Refuse, Session!Claim, Session!SpawnFails, Session!Respond,
            Session!StreamStep, Session!Deliver, Session!DropOne,
            Session!Disconnect, Session!workerVars
    <3> QED
      BY <2>1, <3>1
  <2> QED
    BY <2>2, <2>3
<1>6. CASE DeleteSession \/ (\E c \in Calls : ConsentLookup(c) \/ ConsentAnswer(c))
              \/ UNCHANGED vars
  <2>1. UNCHANGED <<pc, worker>>
    BY <1>6 DEF DeleteSession, Session!Delete, Session!workerVars, ConsentLookup,
                ConsentAnswer, vars, agentVars, sessionVars
  <2> QED
    BY <2>1
<1> QED
  BY <1>1, <1>3, <1>4, <1>5, <1>6 DEF Next, WorkerStep

(* The executor records a grant only when request() returned one. *)
LEMMA GrantStays ==
  ASSUME ComponentsInv, GrantAgrees, [Next]_vars PROVE GrantAgrees'
<1>0. /\ consent \in [Calls -> {"none", "granted", "denied"}]
      /\ asker \in [Calls -> {"idle", "registered", "waiting", "answered",
                              "expired", "granted", "refused"}]
  BY ComponentFacts
<1>1. CASE consent' = consent
  BY <1>1, BrokerGoesOn DEF GrantAgrees
<1>2. ASSUME NEW r \in Requests, NEW c \in Calls, Verdict(r, c)
      PROVE  GrantAgrees'
  <2>1. CASE Engine!ConsentGranted(c) /\ Broker!Verdict(c) = "granted"
    <3>1. asker'[c] = "granted"
      BY <1>0, <1>2, <2>1 DEF Verdict, Broker!Return
    <3>2. \A d \in Calls \ {c} : consent'[d] = consent[d]
      BY <1>0, <2>1 DEF Engine!ConsentGranted
    <3> QED
      BY <3>1, <3>2, BrokerGoesOn DEF GrantAgrees
  <2>2. ASSUME NEW stored, Engine!ConsentDenied(c, stored) PROVE GrantAgrees'
    <3>1. \A d \in Calls : consent'[d] = "granted" => consent[d] = "granted"
      BY <1>0, <2>2 DEF Engine!ConsentDenied
    <3> QED
      BY <3>1, BrokerGoesOn DEF GrantAgrees
  <2> QED
    BY <1>2, <2>1, <2>2 DEF Verdict
<1>3. ASSUME NEW r \in Requests,
             BeginTurn(r) \/ EngineAlone(r) \/ FinishTurn(r)
      PROVE  consent' = consent
  BY <1>3 DEF BeginTurn, Engine!StartTurn, EngineAlone, Engine!EngineStep,
              Engine!ProviderRaises, Engine!ProviderReturns,
              Engine!RoundsExceeded, Engine!SendResults, Engine!executed,
              FinishTurn, agentVars
<1>4. ASSUME NEW r \in Requests, NEW c \in Calls,
             Dispatch(r, c) \/ Ask(r, c) \/ WaitEnds(r, c) \/ RunTool(r, c)
      PROVE  consent' = consent
  BY <1>4 DEF Dispatch, Engine!UnknownTool, Engine!Raises, Engine!Classify,
              Engine!executed, Ask, WaitEnds, RunTool, Engine!ToolEnds, agentVars
<1>5. CASE \/ \E r \in Requests : MessageStep(r)
           \/ DeleteSession
           \/ \E c \in Calls : ConsentLookup(c) \/ ConsentAnswer(c)
           \/ UNCHANGED vars
  BY <1>1, <1>5 DEF MessageStep, DeleteSession, ConsentLookup, ConsentAnswer,
                    vars, agentVars
<1> QED
  BY <1>1, <1>2, <1>3, <1>4, <1>5 DEF Next, WorkerStep

(* Neither the worker nor post_message answers a question. *)
LEMMA TurnsAnswerNothing ==
  ASSUME NEW r \in Requests, WorkerStep(r) \/ MessageStep(r)
  PROVE  UNCHANGED <<listed, answering, unsent, accepted>>
<1>1. CASE MessageStep(r)
  BY <1>1 DEF MessageStep, answerVars, consentVars, Session!Lookup,
       Session!HandlerStep, Session!Refuse, Session!Claim, Session!Spawn,
       Session!SpawnFails, Session!Respond, Session!StreamStep,
       Session!Deliver, Session!DropOne, Session!Disconnect
<1>2. CASE BeginTurn(r) \/ EngineAlone(r) \/ FinishTurn(r)
  BY <1>2 DEF BeginTurn, EngineAlone, FinishTurn, answerVars, consentVars,
       sessionVars, Session!Begin, Session!Conclude, Session!MarkEnd,
       Session!Release
<1>3. ASSUME NEW c \in Calls,
             \/ Dispatch(r, c) \/ Ask(r, c) \/ WaitEnds(r, c)
             \/ Verdict(r, c) \/ RunTool(r, c)
      PROVE  UNCHANGED <<listed, answering, unsent, accepted>>
  BY <1>3 DEF Dispatch, Ask, WaitEnds, Verdict, RunTool, answerVars,
       consentVars, sessionVars, Session!Emit, Broker!Register, Broker!Emit,
       Broker!Wake, Broker!Expire, Broker!Return
<1> QED
  BY <1>1, <1>2, <1>3 DEF WorkerStep

(* A question not sent by the time of the delete is never found again. *)
LEMMA UnsentStays ==
  ASSUME ComponentsInv, AnswersSent, UnsentStaysOpen, [Next]_vars
  PROVE  AnswersSent' /\ UnsentStaysOpen'
<1> USE DEF AnswersSent, UnsentStaysOpen
<1>0. /\ asker \in [Calls -> {"idle", "registered", "waiting", "answered",
                              "expired", "granted", "refused"}]
      /\ \A c \in Calls :
            /\ accepted[c] = IF isSet[c] THEN <<allow[c]>> ELSE << >>
            /\ isSet[c] => asker[c] \notin {"idle", "registered"}
  BY ComponentFacts
<1>1. CASE UNCHANGED <<listed, answering, unsent, accepted>>
  BY <1>1, BrokerGoesOn
<1>2. ASSUME NEW r \in Requests, WorkerStep(r) \/ MessageStep(r)
      PROVE  UNCHANGED <<listed, answering, unsent, accepted>>
  BY <1>2, TurnsAnswerNothing
<1>3. CASE DeleteSession
  <2>1. /\ listed' = FALSE
        /\ unsent' = {c \in Calls : asker[c] \in {"idle", "registered"}}
        /\ UNCHANGED <<asker, accepted, answering>>
    BY <1>3 DEF DeleteSession, Session!Delete, consentVars
  <2>2. \A c \in unsent' : c \notin answering /\ accepted[c] = << >>
    BY <1>0, <2>1
  <2> QED
    BY <2>1, <2>2
<1>4. ASSUME NEW c \in Calls, ConsentLookup(c)
      PROVE  AnswersSent' /\ UnsentStaysOpen'
  BY <1>4 DEF ConsentLookup, SessionFound, consentVars, sessionVars
<1>5. ASSUME NEW c \in Calls, ConsentAnswer(c)
      PROVE  AnswersSent' /\ UnsentStaysOpen'
  <2>1. /\ c \in answering
        /\ UNCHANGED <<asker, listed, answering, unsent>>
        /\ \E answer : accepted' = [accepted EXCEPT ![c] = Append(@, answer)]
    BY <1>5 DEF ConsentAnswer, Broker!Resolve, answerVars, sessionVars
  <2>2. \A d \in unsent : accepted'[d] = accepted[d]
    BY <2>1
  <2> QED
    BY <2>1, <2>2
<1> QED
  BY <1>1, <1>2, <1>3, <1>4, <1>5 DEF Next, vars, sessionVars, consentVars,
     answerVars

(* The server's inductive invariant, step by step. *)
LEMMA NextServerInv == ServerInv /\ [Next]_vars => ServerInv'
  BY ComponentsStay, QuestionStays, WorkerStays, GrantStays, UnsentStays
     DEF ServerInv, Together

(* What the three runs' invariants follow from. *)
LEMMA ServerInvSafe ==
  ServerInv => GatedRunWasAllowed /\ QuestionIsBeingAsked /\ NoAnswerAfterDelete
<1> SUFFICES ASSUME ServerInv
             PROVE  GatedRunWasAllowed /\ QuestionIsBeingAsked
                                       /\ NoAnswerAfterDelete
  OBVIOUS
<1>1. ComponentsInv /\ Together
  BY DEF ServerInv
<1>2. /\ \A c \in Calls : asker[c] = "granted" => accepted[c] = <<TRUE>>
      /\ \A r \in Requests : worker[r] = "running" =>
            locked /\ current = r /\ writesTo[r] = r
      /\ pending \subseteq Calls
  BY <1>1, ComponentFacts
<1>3. GatedRunWasAllowed
  <2>1. EngineThms!RanOnlyIfAllowed
    BY <1>1 DEF ComponentsInv, EngineThms!IInv
  <2> QED
    BY <1>1, <1>2, <2>1
       DEF GatedRunWasAllowed, EngineThms!RanOnlyIfAllowed, Together, GrantAgrees
<1>4. QuestionIsBeingAsked
  <2> SUFFICES ASSUME NEW c \in pending
               PROVE  /\ locked /\ pc = "asking" /\ c = todo[1]
                      /\ \E r \in Requests :
                            InTurn(r) /\ writesTo[r] = r /\ current = r
    BY DEF QuestionIsBeingAsked
  <2>1. pc = "asking" /\ c = todo[1]
    BY <1>1 DEF Together, QuestionAtHead
  <2>2. PICK r \in Requests : worker[r] = "running"
    BY <1>1, <2>1 DEF Together, TurnHasWorker
  <2>3. locked /\ current = r /\ writesTo[r] = r
    BY <1>2, <2>2
  <2> QED
    BY <2>1, <2>2, <2>3 DEF InTurn
<1>5. NoAnswerAfterDelete
  <2> SUFFICES ASSUME NEW c \in unsent
               PROVE  accepted[c] = << >> /\ asker[c] # "granted"
    BY DEF NoAnswerAfterDelete
  <2>1. c \in Calls /\ accepted[c] = << >>
    BY <1>1 DEF Together, UnsentStaysOpen
  <2>2. <<TRUE>> # << >>
    <3>1. Len(<<TRUE>>) = 1 /\ Len(<< >>) = 0
      OBVIOUS
    <3> QED
      BY <3>1
  <2> QED
    BY <1>2, <2>1, <2>2, Zenon
<1> QED
  BY <1>3, <1>4, <1>5

(* The inductive invariant holds in every state of the server. *)
THEOREM SpecServerInv == Spec => []ServerInv
<1>1. Init => ServerInv
  BY ComponentsStart, TogetherStarts DEF ServerInv
<1> QED
  BY <1>1, NextServerInv, PTL DEF Spec

(* From the client's answer to the tool: whatever the threads do, a tool   *)
(* that is not read-only has run only after post_consent took an allow for *)
(* that very call.                                                         *)
THEOREM SpecGatedRunWasAllowed == Spec => []GatedRunWasAllowed
  BY SpecServerInv, ServerInvSafe, PTL

(* The consent table never holds a question of a turn that is over.        *)
THEOREM SpecQuestionIsBeingAsked == Spec => []QuestionIsBeingAsked
  BY SpecServerInv, ServerInvSafe, PTL

(* A deleted session answers no question it had not sent: the lookup of    *)
(* post_consent comes before the answer, the sending before the lookup.    *)
THEOREM SpecNoAnswerAfterDelete == Spec => []NoAnswerAfterDelete
  BY SpecServerInv, ServerInvSafe, PTL

(* The agent in the server is an agent: the locks, requests and deletes    *)
(* around it let it do nothing that Agent alone does not.                  *)
THEOREM ServerImplementsAgent == Spec => Engine!Spec
<1>1. Init => Engine!Init
  BY DEF Init
<1> QED
  BY <1>1, StepOfEngine, PTL DEF Spec, Engine!Spec

(* The consent manager in the server keeps ConsentPromise's promise with   *)
(* the executor asking and the requests answering.                         *)
THEOREM ServerImplementsHttpConsent == Spec => Broker!Spec
<1>1. Init => Broker!Init
  BY DEF Init
<1> QED
  BY <1>1, StepOfBroker, PTL DEF Spec, Broker!Spec

(* The session in the server is a Session: what the worker does in a turn  *)
(* is one of the workers Session allows.                                   *)
THEOREM ServerImplementsSession == Spec => Session!Spec
<1>1. Init => Session!Init
  BY DEF Init
<1> QED
  BY <1>1, StepOfSession, PTL DEF Spec, Session!Spec
=============================================================================
