----------------------------- MODULE JarvisApp -----------------------------
(***************************************************************************)
(* The menu bar app at work with the server: ChatClient, whose POSTs,      *)
(* events and answers are joint steps with one session of JarvisServer.    *)
(* An event is under way as long as it is in the queue of its turn: that   *)
(* the response sends it and the app handles it is one step.               *)
(*                                                                         *)
(* The app is the only client of its session; JarvisServer has clients of  *)
(* every other kind.                                                       *)
(***************************************************************************)
EXTENDS JarvisServer

CONSTANT NoQuestion     \* see ChatClient

ASSUME QuestionAssumption == NoQuestion \notin Calls

VARIABLES
    isBusy, sessionID, pendingConsent, task, replies, deleting, \* ChatClient
    request,    \* the POST of its Task to the session, or NoRequest
    payload,    \* payload[r]: what the events of turn r say, in order
    allowed     \* history: the questions Allow was clicked for

Client == INSTANCE ChatClient WITH Questions <- Calls

clientVars == <<isBusy, sessionID, pendingConsent, task, replies, deleting>>
serverVars == <<agentVars, consentVars, sessionVars, answerVars>>
appVars == <<clientVars, request, allowed>>
allVars == <<serverVars, appVars, payload>>

AppInit ==
    /\ Init /\ Client!ClientInit
    /\ request = NoRequest /\ allowed = {}
    /\ payload = [r \in Requests |-> << >>]

-----------------------------------------------------------------------------
(* The worker of r, with what it says in its events. *)
Says(r, what) == payload' = [payload EXCEPT ![r] = Append(@, what)]

Silent(r) ==
    \/ BeginTurn(r) \/ EngineAlone(r) \/ FinishTurn(r)
    \/ \E c \in Calls : WaitEnds(r, c) \/ Verdict(r, c) \/ RunTool(r, c)

Work(r) ==
    /\ \/ Silent(r) /\ UNCHANGED payload
       \/ \E c \in Calls : \/ Dispatch(r, c) /\ Says(r, "tool_use")
                           \/ Ask(r, c) /\ Says(r, c)
    /\ UNCHANGED appVars

-----------------------------------------------------------------------------
(* The user. *)

(* Bound: only as many messages to the session as there are Requests. *)
UserSends ==
    /\ sessionID = "here" => \E r \in Requests : handler[r] = "idle"
    /\ Client!Send
    /\ UNCHANGED <<serverVars, request, payload, allowed>>

Clicks(yes) ==
    /\ Client!Respond(yes)
    /\ allowed' = IF yes THEN allowed \cup {pendingConsent} ELSE allowed
    /\ UNCHANGED <<serverVars, request, payload>>

UserClears == Client!Clear /\ UNCHANGED <<serverVars, request, payload, allowed>>

-----------------------------------------------------------------------------
(* The POST of a message and its stream.                                   *)

(* The request reaches the server. *)
Post(r) ==
    /\ task = "posting" /\ sessionID = "here" /\ request = NoRequest
    /\ Session!Lookup(r)
    /\ request' = r
    /\ UNCHANGED <<agentVars, consentVars, answerVars, clientVars, allowed, payload>>

(* The server's own part: the handler, and the thread left in q.get. *)
Handler(r) ==
    /\ Session!HandlerStep(r) \/ Session!DropOne(r)
    /\ UNCHANGED <<agentVars, consentVars, answerVars, appVars, payload>>

(* The app learns the status of its POST. *)
Status ==
    /\ request # NoRequest
    /\ \/ /\ handler[request] = "streaming"
          /\ Client!Accepted /\ UNCHANGED request
       \/ /\ handler[request] \in {"unknown", "busy", "failed"}
          /\ Client!Fail /\ request' = NoRequest
    /\ UNCHANGED <<serverVars, allowed, payload>>

(* handle() is given the next event of the stream. *)
HandleNext ==
    LET item == Session!NextItem(readsFrom[request])
        what == payload[item.from][Len(stream[request]) + 1]
    IN IF item.kind # "event" THEN Client!Handle(item.kind, NoQuestion)
       ELSE IF what \in Calls THEN Client!Handle("consent_request", what)
                              ELSE Client!Handle("tool_use", NoQuestion)

Receive ==
    /\ request # NoRequest /\ task = "reading"
    /\ Session!Deliver(request)
    /\ IF handler'[request] = "closed"
       THEN Client!Finish /\ request' = NoRequest
       ELSE HandleNext /\ UNCHANGED request
    /\ UNCHANGED <<agentVars, consentVars, answerVars, allowed, payload>>

(* The connection breaks, or nothing came for the time-out of URLSession,  *)
(* before the status or in the stream.  The server goes on with the POST,  *)
(* if it has it; one that arrives only now is as if it had come before.    *)
ConnectionBreaks ==
    /\ task \in {"posting", "reading"} /\ sessionID = "here"
    /\ Client!Fail /\ request' = NoRequest
    /\ UNCHANGED <<serverVars, allowed, payload>>

(* The server notices that nobody reads the response any more. *)
Abandoned(r) ==
    /\ r # request /\ Session!Disconnect(r)
    /\ UNCHANGED <<agentVars, consentVars, answerVars, appVars, payload>>

(* What the app does with a session elsewhere; no session can be had.      *)
Elsewhere ==
    /\ \/ Client!Connect
       \/ task = "connecting" /\ Client!Fail
       \/ /\ sessionID = "elsewhere"
          /\ \/ Client!Accepted
             \/ Client!Finish
             \/ Client!Fail
    /\ UNCHANGED <<serverVars, request, allowed, payload>>

-----------------------------------------------------------------------------
(* The answers on their way to post_consent, and the DELETE.               *)

ReplyFound(reply) ==
    /\ reply \in replies
    /\ ConsentLookup(reply.question)
    /\ UNCHANGED <<appVars, payload>>

(* The session is gone: 404. *)
ReplyLost(reply) ==
    /\ ~SessionFound /\ reply.question \notin answering
    /\ Client!Replied(reply)
    /\ UNCHANGED <<serverVars, request, allowed, payload>>

(* resolve() takes the answer, or refuses it with a 404. *)
ReplyCounts(reply) ==
    /\ reply.question \in answering
    /\ Client!Replied(reply)
    /\ IF Broker!Unresolved(reply.question)
       THEN Broker!Resolve(reply.question, reply.allow)
       ELSE UNCHANGED consentVars
    /\ UNCHANGED <<agentVars, sessionVars, answerVars, request, allowed, payload>>

DeleteArrives ==
    /\ Client!Deleted
    /\ IF listed THEN DeleteSession ELSE UNCHANGED serverVars
    /\ UNCHANGED <<request, allowed, payload>>

AppNext ==
    \/ \E r \in Requests : Work(r) \/ Handler(r) \/ Post(r) \/ Abandoned(r)
    \/ UserSends \/ UserClears
    \/ \E yes \in BOOLEAN : Clicks(yes)
    \/ Status \/ Receive \/ ConnectionBreaks \/ Elsewhere
    \/ \E reply \in replies :
          ReplyFound(reply) \/ ReplyLost(reply) \/ ReplyCounts(reply)
    \/ DeleteArrives

AppSpec == AppInit /\ [][AppNext]_allVars

(* The threads of the server are scheduled, the app's Task is, and a turn  *)
(* of a session elsewhere ends like one here.  The user is obliged to      *)
(* nothing, and no answer or DELETE has to arrive.                         *)
TaskStep == Status \/ Receive \/ (Elsewhere /\ task' # task)
                   \/ \E r \in Requests : Post(r)

FairAppSpec ==
    /\ AppSpec
    /\ WF_allVars(\E r \in Requests : Work(r))
    /\ WF_allVars(\E r \in Requests : Handler(r))
    /\ WF_allVars(TaskStep)

-----------------------------------------------------------------------------
(* The guards isBusy and sessionID of the app always tell the truth about  *)
(* its Task, and a card is shown only while it reads (ChatClient).         *)
BusyIsTheTask == Client!BusyIsTheTask

(* The app posts one message at a time, so a response that the server      *)
(* closes has sent it every event of its own turn, in order (Session).     *)
StreamIsItsTurn == Session!StreamIsItsTurn

(* A session that was claimed is free again later, also when the app has   *)
(* left its turn, forgotten the session or deleted it (Session).           *)
LockIsFreed == Session!LockIsFreed

(* The question on the card is the one that the turn the app is reading    *)
(* asked last; no card survives its turn, its session or an error, so a    *)
(* click never answers for a turn the user no longer sees.                 *)
CardIsOfThisTurn ==
    pendingConsent \in Calls =>
        /\ isBusy /\ sessionID = "here" /\ request # NoRequest
        /\ LET sent == stream[request] IN
           \E i \in DOMAIN sent :
              /\ sent[i].kind = "event" /\ payload[request][i] = pendingConsent
              /\ \A j \in (i + 1)..Len(sent) : sent[j].kind # "event"

(* From the button to the tool: a tool that is not read-only runs only if  *)
(* the user of the app clicked Allow on the card for that very call.       *)
GatedRunWasClicked ==
    \A c \in Calls : effect[c] # "none" /\ risk[c] # "read_only" => c \in allowed

(* The app always comes back to its user: whatever the turn, the session   *)
(* and the connection do, isBusy ends and the next message can be sent.    *)
BusyEnds == isBusy ~> ~isBusy
=============================================================================
