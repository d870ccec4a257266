---------------------------- MODULE JarvisServer ----------------------------
(***************************************************************************)
(* A session of the server at work: Session, whose worker thread runs the  *)
(* Agent, whose executor asks HttpConsent, whose questions are sent as     *)
(* events of the Session and answered by requests of their own.            *)
(*                                                                         *)
(* A step is a step of one component, or a joint step of several where one *)
(* calls another: the worker's entry into run_turn, an event put while a   *)
(* call is dispatched or a question asked, and the return of               *)
(* HttpConsent.request into the executor.  Text events are left out; which *)
(* of done and error ends a turn is left open, as Agent does not say       *)
(* whether run_turn returned or raised.                                    *)
(***************************************************************************)
EXTENDS Naturals, Sequences

CONSTANTS
    Calls,          \* tool calls; a call that asks is its consent id
    MaxToolRounds, MaxBatch, MaxTurns, StorageFails,    \* see Agent
    Requests, NoRequest, MaxEvents, SpawnMayFail            \* see Session

VARIABLES
    pc, turns, round, history, todo, toolResults,
    asked, risk, consent, effect, audit,                        \* Agent
    asker, pending, isSet, allow, accepted,                     \* HttpConsent
    listed, locked, current, handler, readsFrom,
    worker, writesTo, events, queue, taken, stream,             \* Session
    answering,  \* the questions for which post_consent has found the session
    unsent      \* history: the questions not yet sent when it was deleted

agentVars == <<pc, turns, round, history, todo, toolResults,
               asked, risk, consent, effect, audit>>
consentVars == <<asker, pending, isSet, allow, accepted>>
sessionVars == <<listed, locked, current, handler, readsFrom,
                 worker, writesTo, events, queue, taken, stream>>
answerVars == <<answering, unsent>>
vars == <<agentVars, consentVars, sessionVars, answerVars>>

Engine  == INSTANCE Agent
Broker  == INSTANCE HttpConsent
Session == INSTANCE Session

ASSUME ServerAssumption == Engine!BoundsAssumption /\ Session!SessionAssumption

Init ==
    /\ Engine!Init /\ Broker!Init /\ Session!Init
    /\ answering = {} /\ unsent = {}

-----------------------------------------------------------------------------
(* The worker thread of request r.                                         *)

InTurn(r) == worker[r] = "running" /\ pc # "idle"

(* _run_turn reads its queue and calls Agent.run_turn. *)
BeginTurn(r) ==
    /\ Session!Begin(r)
    /\ \E stored \in Engine!Stored : Engine!StartTurn(stored)
    /\ UNCHANGED <<consentVars, answerVars>>

(* Between tool calls the worker is in the provider or in the loop.        *)
EngineAlone(r) ==
    /\ InTurn(r) /\ Engine!EngineStep
    /\ UNCHANGED <<consentVars, sessionVars, answerVars>>

(* on_tool_use puts a tool_use event, then execute() classifies the call;  *)
(* a call that needs consent is registered with the broker.                *)
Dispatch(r, c) ==
    /\ InTurn(r) /\ Session!Emit(r, writesTo[r])
    /\ \/ /\ \/ Engine!UnknownTool(c)
             \/ pc = "dispatching" /\ Engine!Raises(c)
             \/ Engine!Classify(c, "read_only")
          /\ UNCHANGED consentVars
       \/ /\ \E k \in Engine!Risks \ {"read_only"} : Engine!Classify(c, k)
          /\ Broker!Register(c)
    /\ UNCHANGED answerVars

(* request() emits the question through Session._emit. *)
Ask(r, c) ==
    /\ InTurn(r)
    /\ Broker!Emit(c) /\ Session!Emit(r, current)
    /\ UNCHANGED <<agentVars, answerVars>>

(* Event.wait returns. *)
WaitEnds(r, c) ==
    /\ InTurn(r)
    /\ Broker!Wake(c) \/ Broker!Expire(c)
    /\ UNCHANGED <<agentVars, sessionVars, answerVars>>

(* request() returns its verdict to execute(). *)
Verdict(r, c) ==
    /\ InTurn(r) /\ Broker!Return(c)
    /\ \/ /\ Broker!Verdict(c) = "granted"
          /\ Engine!ConsentGranted(c)
       \/ /\ Broker!Verdict(c) = "refused"
          /\ \E stored \in Engine!Stored : Engine!ConsentDenied(c, stored)
    /\ UNCHANGED <<sessionVars, answerVars>>

RunTool(r, c) ==
    /\ InTurn(r)
    /\ \/ \E outcome \in {"ok", "error"}, stored \in Engine!Stored :
              Engine!ToolEnds(c, outcome, stored)
       \/ pc = "running" /\ Engine!Raises(c)
    /\ UNCHANGED <<consentVars, sessionVars, answerVars>>

(* run_turn is over: done or error, the end mark, the release. *)
FinishTurn(r) ==
    /\ pc = "idle"
    /\ \/ \E kind \in {"done", "error"} : Session!Conclude(r, kind)
       \/ Session!MarkEnd(r)
       \/ Session!Release(r)
    /\ UNCHANGED <<agentVars, consentVars, answerVars>>

WorkerStep(r) ==
    \/ BeginTurn(r) \/ EngineAlone(r) \/ FinishTurn(r)
    \/ \E c \in Calls : Dispatch(r, c) \/ Ask(r, c) \/ WaitEnds(r, c)
                            \/ Verdict(r, c) \/ RunTool(r, c)

-----------------------------------------------------------------------------
(* The HTTP requests.                                                      *)

(* post_message and its stream, and the end of the session. *)
MessageStep(r) ==
    /\ Session!Lookup(r) \/ Session!HandlerStep(r)
          \/ Session!StreamStep(r) \/ Session!Disconnect(r)
    /\ UNCHANGED <<agentVars, consentVars, answerVars>>

DeleteSession ==
    /\ Session!Delete
    /\ unsent' = {c \in Calls : asker[c] \in {"idle", "registered"}}
    /\ UNCHANGED <<agentVars, consentVars, answering>>

(* Mutant of SessionFound: the consent endpoint answers deleted sessions. *)
SessionFoundAlways == TRUE

SessionFound == listed

(* post_consent finds the session; a client knows the id once it was sent. *)
ConsentLookup(c) ==
    /\ SessionFound
    /\ asker[c] \notin {"idle", "registered"} /\ c \notin answering
    /\ answering' = answering \cup {c}
    /\ UNCHANGED <<agentVars, consentVars, sessionVars, unsent>>

(* post_consent resolves the question, whatever became of the session. *)
ConsentAnswer(c) ==
    /\ c \in answering
    /\ \E answer \in BOOLEAN : Broker!Resolve(c, answer)
    /\ UNCHANGED <<agentVars, sessionVars, answerVars>>

Next ==
    \/ \E r \in Requests : WorkerStep(r) \/ MessageStep(r)
    \/ DeleteSession
    \/ \E c \in Calls : ConsentLookup(c) \/ ConsentAnswer(c)

Spec == Init /\ [][Next]_vars

-----------------------------------------------------------------------------
(* From end to end: a tool that is not read-only runs only if a client     *)
(* answered allow to the question asked for that very call, and that       *)
(* client was told that its answer counts.                                 *)
GatedRunWasAllowed ==
    \A c \in Calls : effect[c] # "none" /\ risk[c] # "read_only" =>
        accepted[c] = <<TRUE>>

(* No question outlives the turn that asks it: a question that can be      *)
(* answered is the one its worker is waiting for, for the call its agent   *)
(* has come to, while the session is claimed and its queue the worker's.   *)
QuestionIsBeingAsked ==
    \A c \in pending :
        /\ locked /\ pc = "asking" /\ c = todo[1]
        /\ \E r \in Requests : InTurn(r) /\ writesTo[r] = r /\ current = r

(* Deleting a session closes it for good: a question that had not been     *)
(* sent when the session was deleted is never answered, let alone allowed, *)
(* although its turn goes on and asks it.                                  *)
NoAnswerAfterDelete ==
    \A c \in unsent : accepted[c] = << >> /\ asker[c] # "granted"
=============================================================================
