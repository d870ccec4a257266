--------------------------- MODULE JarvisAppProofs ---------------------------
(***************************************************************************)
(* Theorems about JarvisApp, for every number of messages, questions and   *)
(* events.                                                                 *)
(*                                                                         *)
(* The app is one of the clients JarvisServer allows, so all that holds of *)
(* the server holds here, and of the streams what Session says of a client *)
(* that posts one message at a time.  The rest is about the app: its       *)
(* guards (BusyInv), its one request (OneReader), its clicks (Clicked),    *)
(* and the events it reads, of which payload tells what they say           *)
(* (PayloadFits, CardFits).                                                *)
(***************************************************************************)
EXTENDS JarvisApp, JarvisServerProofs

(* isBusy as a value, which the boolean guards of the app take it for. *)
BusyInv == isBusy \in BOOLEAN /\ BusyIsTheTask

(* A step of the app by itself. *)
ClientStep ==
    \/ Client!Send \/ Client!Connect \/ Client!Accepted
    \/ Client!Finish \/ Client!Fail
    \/ \E kind, question : Client!Handle(kind, question)
    \/ \E yes : Client!Respond(yes)
    \/ \E reply : Client!Replied(reply)
    \/ Client!Clear \/ Client!Deleted

(* The app keeps its guards true: the Task begins and ends with isBusy,    *)
(* takes the card with it, and never loses its session in between.         *)
LEMMA ClientKeeps ==
  ASSUME BusyInv, ClientStep PROVE BusyInv'
<1> USE DEF BusyInv, BusyIsTheTask, Client!BusyIsTheTask
<1>1. CASE Client!Send
  <2>1. isBusy' = TRUE /\ task' \in {"connecting", "posting"}
    BY <1>1 DEF Client!Send
  <2>2. /\ task' = "posting" => sessionID # "nil"
        /\ sessionID' = sessionID /\ pendingConsent' = pendingConsent
        /\ pendingConsent = NoQuestion
    BY <1>1 DEF Client!Send
  <2> QED
    BY <2>1, <2>2, Zenon
<1>2. CASE Client!Connect
  BY <1>2, Zenon DEF Client!Connect
<1>3. CASE Client!Accepted
  BY <1>3, Zenon DEF Client!Accepted
<1>4. CASE Client!Finish \/ Client!Fail
  <2>1. isBusy' = FALSE /\ task' = "none" /\ pendingConsent' = NoQuestion
    BY <1>4 DEF Client!Finish, Client!Fail, Client!TaskEnds, Client!BusyAfter,
                Client!CardAfter
  <2> QED
    BY <2>1, Zenon
<1>5. ASSUME NEW kind, NEW question, Client!Handle(kind, question) PROVE BusyInv'
  <2>1. task = "reading" /\ UNCHANGED <<isBusy, sessionID, task>>
    BY <1>5 DEF Client!Handle
  <2> QED
    BY <2>1, Zenon
<1>6. ASSUME NEW yes, Client!Respond(yes) PROVE BusyInv'
  BY <1>6, Zenon DEF Client!Respond
<1>7. ASSUME NEW reply, Client!Replied(reply) PROVE BusyInv'
  BY <1>7, Zenon DEF Client!Replied
<1>8. CASE Client!Clear
  BY <1>8, Zenon DEF Client!Clear
<1>9. CASE Client!Deleted
  BY <1>9, Zenon DEF Client!Deleted
<1> QED
  BY <1>1, <1>2, <1>3, <1>4, <1>5, <1>6, <1>7, <1>8, <1>9 DEF ClientStep

(* A step of the two together is one of the app or leaves it alone. *)
LEMMA AppStepIsClientStep ==
  ASSUME [AppNext]_allVars PROVE ClientStep \/ UNCHANGED clientVars
<1>1. CASE \E r \in Requests : Work(r) \/ Handler(r) \/ Post(r) \/ Abandoned(r)
  BY <1>1 DEF Work, Handler, Post, Abandoned, appVars
<1>2. CASE UserSends \/ UserClears \/ \E yes \in BOOLEAN : Clicks(yes)
  BY <1>2 DEF UserSends, UserClears, Clicks, ClientStep
<1>3. CASE Status \/ ConnectionBreaks
  BY <1>3 DEF Status, ConnectionBreaks, ClientStep
<1>4. CASE Receive
  BY <1>4 DEF Receive, HandleNext, ClientStep
<1>5. CASE Elsewhere
  BY <1>5 DEF Elsewhere, ClientStep
<1>6. CASE \E reply \in replies :
              ReplyFound(reply) \/ ReplyLost(reply) \/ ReplyCounts(reply)
  BY <1>6 DEF ReplyFound, ReplyLost, ReplyCounts, ClientStep, appVars
<1>7. CASE DeleteArrives
  BY <1>7 DEF DeleteArrives, ClientStep
<1>8. CASE UNCHANGED allVars
  BY <1>8 DEF allVars, appVars
<1> QED
  BY <1>1, <1>2, <1>3, <1>4, <1>5, <1>6, <1>7, <1>8 DEF AppNext

(* The app is busy exactly while a Task of its own runs, the Task has a    *)
(* session whenever it posts or reads, and a card is shown only while the  *)
(* Task reads: so Send is refused only as long as the app will come back,  *)
(* and Clear never takes a session away from a turn that is being read.    *)
THEOREM SpecBusyIsTheTask == AppSpec => []BusyIsTheTask
<1>1. AppInit => BusyInv
  BY Zenon DEF AppInit, Client!ClientInit, BusyInv, BusyIsTheTask,
               Client!BusyIsTheTask
<1>2. BusyInv /\ [AppNext]_allVars => BusyInv'
  <2> SUFFICES ASSUME BusyInv, [AppNext]_allVars PROVE BusyInv'
    OBVIOUS
  <2>1. CASE ClientStep
    BY <2>1, ClientKeeps
  <2>2. CASE UNCHANGED clientVars
    BY <2>2, Zenon DEF clientVars, BusyInv, BusyIsTheTask, Client!BusyIsTheTask
  <2> QED
    BY <2>1, <2>2, AppStepIsClientStep
<1>3. BusyInv => BusyIsTheTask
  BY DEF BusyInv
<1> QED
  BY <1>1, <1>2, <1>3, PTL DEF AppSpec

-----------------------------------------------------------------------------
(* The server under the app.                                               *)

(* The app's request is one of the session's, its card and its answers are *)
(* about calls of the session.                                             *)
AppTypeOK ==
    /\ request \in Requests \cup {NoRequest}
    /\ pendingConsent \in Calls \cup {NoQuestion}
    /\ replies \subseteq [question : Calls, allow : BOOLEAN]
    /\ allowed \subseteq Calls
    /\ payload \in [Requests -> Seq(Calls \cup {"tool_use"})]

(* What the worker does and says is a step of the server. *)
LEMMA WorkIsWorkerStep ==
  ASSUME NEW r \in Requests, Work(r) PROVE WorkerStep(r) /\ UNCHANGED appVars
  BY DEF Work, Silent, WorkerStep

(* Every step of the two together is one of the server or leaves it alone. *)
LEMMA AppStepIsServerStep ==
  ASSUME AppTypeOK, [AppNext]_allVars PROVE [Next]_vars
<1>0. UNCHANGED serverVars => UNCHANGED vars
  BY DEF serverVars, vars
<1>1. ASSUME NEW r \in Requests, Work(r) PROVE [Next]_vars
  BY <1>1, WorkIsWorkerStep DEF Next
<1>2. ASSUME NEW r \in Requests, Handler(r) \/ Post(r) \/ Abandoned(r)
      PROVE  [Next]_vars
  BY <1>2 DEF Handler, Post, Abandoned, Next, MessageStep, Session!StreamStep
<1>3. CASE UserSends \/ UserClears \/ (\E yes \in BOOLEAN : Clicks(yes))
              \/ Status \/ ConnectionBreaks \/ Elsewhere
  BY <1>0, <1>3 DEF UserSends, UserClears, Clicks, Status, ConnectionBreaks,
                    Elsewhere
<1>4. CASE Receive
  <2>1. request \in Requests
    BY <1>4 DEF Receive, AppTypeOK
  <2>2. MessageStep(request)
    BY <1>4 DEF Receive, MessageStep, Session!StreamStep
  <2> QED
    BY <2>1, <2>2 DEF Next
<1>5. ASSUME NEW reply \in replies,
             ReplyFound(reply) \/ ReplyLost(reply) \/ ReplyCounts(reply)
      PROVE  [Next]_vars
  <2>1. reply.question \in Calls /\ reply.allow \in BOOLEAN
    BY DEF AppTypeOK
  <2>2. CASE ReplyFound(reply)
    BY <2>1, <2>2 DEF ReplyFound, Next
  <2>3. CASE ReplyLost(reply)
    BY <1>0, <2>3 DEF ReplyLost
  <2>4. CASE ReplyCounts(reply) /\ Broker!Unresolved(reply.question)
    <3>1. ConsentAnswer(reply.question)
      BY <2>1, <2>4 DEF ReplyCounts, ConsentAnswer
    <3> QED
      BY <2>1, <3>1 DEF Next
  <2>5. CASE ReplyCounts(reply) /\ ~Broker!Unresolved(reply.question)
    BY <2>5 DEF ReplyCounts, vars
  <2> QED
    BY <1>5, <2>2, <2>3, <2>4, <2>5
<1>6. CASE DeleteArrives
  BY <1>0, <1>6 DEF DeleteArrives, Next
<1>7. CASE UNCHANGED allVars
  BY <1>0, <1>7 DEF allVars
<1> QED
  BY <1>1, <1>2, <1>3, <1>4, <1>5, <1>6, <1>7 DEF AppNext

(* What the app keeps about itself keeps its type. *)
LEMMA NextAppTypeOK ==
  ASSUME AppTypeOK, [AppNext]_allVars PROVE AppTypeOK'
<1> USE DEF AppTypeOK
<1>1. ASSUME NEW r \in Requests, Work(r) PROVE AppTypeOK'
  <2>1. UNCHANGED <<request, pendingConsent, replies, allowed>>
    BY <1>1 DEF Work, appVars, clientVars
  <2>2. CASE payload' = payload
    BY <2>1, <2>2
  <2>3. ASSUME NEW what \in Calls \cup {"tool_use"}, Says(r, what)
        PROVE  AppTypeOK'
    <3>1. Append(payload[r], what) \in Seq(Calls \cup {"tool_use"})
      OBVIOUS
    <3> QED
      BY <2>1, <2>3, <3>1 DEF Says
  <2> QED
    BY <1>1, <2>2, <2>3 DEF Work
<1>2. ASSUME NEW r \in Requests, Handler(r) \/ Post(r) \/ Abandoned(r)
      PROVE  AppTypeOK'
  BY <1>2 DEF Handler, Post, Abandoned, appVars, clientVars
<1>3. CASE UserSends \/ UserClears
  BY <1>3 DEF UserSends, UserClears, Client!Send, Client!Clear
<1>4. ASSUME NEW yes \in BOOLEAN, Clicks(yes) PROVE AppTypeOK'
  <2>1. pendingConsent \in Calls
    BY <1>4 DEF Clicks, Client!Respond
  <2>2. Client!Reply(pendingConsent, yes) \in [question : Calls, allow : BOOLEAN]
    BY <2>1 DEF Client!Reply
  <2>3. allowed' \subseteq Calls
    BY <1>4, <2>1 DEF Clicks
  <2> QED
    BY <1>4, <2>2, <2>3 DEF Clicks, Client!Respond
<1>5. CASE Status \/ ConnectionBreaks \/ Elsewhere
  BY <1>5 DEF Status, ConnectionBreaks, Elsewhere, Client!Accepted, Client!Fail,
              Client!Finish, Client!Connect, Client!TaskEnds, Client!CardAfter
<1>6. CASE Receive
  <2>1. UNCHANGED <<allowed, payload>> /\ replies' = replies
    BY <1>6 DEF Receive, Client!Finish, Client!TaskEnds, HandleNext,
                Client!Handle
  <2>2. request' \in Requests \cup {NoRequest}
    BY <1>6 DEF Receive
  <2>3. pendingConsent' \in Calls \cup {NoQuestion}
    <3>1. CASE Client!Finish
      BY <3>1 DEF Client!Finish, Client!TaskEnds, Client!CardAfter
    <3>2. ASSUME NEW kind, NEW question \in Calls \cup {NoQuestion},
                 Client!Handle(kind, question)
          PROVE  pendingConsent' \in Calls \cup {NoQuestion}
      BY <3>2, Zenon DEF Client!Handle
    <3> QED
      BY <1>6, <3>1, <3>2, Zenon DEF Receive, HandleNext
  <2> QED
    BY <2>1, <2>2, <2>3
<1>7. ASSUME NEW reply \in replies,
             ReplyFound(reply) \/ ReplyLost(reply) \/ ReplyCounts(reply)
      PROVE  AppTypeOK'
  BY <1>7 DEF ReplyFound, ReplyLost, ReplyCounts, Client!Replied, appVars,
              clientVars
<1>8. CASE DeleteArrives
  BY <1>8 DEF DeleteArrives, Client!Deleted
<1>9. CASE UNCHANGED allVars
  BY <1>9 DEF allVars, appVars, clientVars
<1> QED
  BY <1>1, <1>2, <1>3, <1>4, <1>5, <1>6, <1>7, <1>8, <1>9 DEF AppNext

-----------------------------------------------------------------------------
(* From the click to the answer that counts.                               *)

(* An allow is under way, or was taken, only for a question for which      *)
(* Allow was clicked.                                                      *)
Clicked ==
    /\ \A reply \in replies : reply.allow = TRUE => reply.question \in allowed
    /\ \A c \in Calls : accepted[c] = <<TRUE>> => c \in allowed

(* Only a click makes an answer, and only an answer reaches the broker. *)
LEMMA NextClicked ==
  ASSUME ServerInv, AppTypeOK, Clicked, [AppNext]_allVars PROVE Clicked'
<1> USE DEF Clicked
<1>1. CASE /\ UNCHANGED accepted
           /\ replies' \subseteq replies /\ allowed \subseteq allowed'
  BY <1>1
<1>2. ASSUME NEW r \in Requests,
             Work(r) \/ Handler(r) \/ Post(r) \/ Abandoned(r)
      PROVE  UNCHANGED <<accepted, replies, allowed>>
  BY <1>2, WorkIsWorkerStep, TurnsAnswerNothing
     DEF Handler, Post, Abandoned, appVars, clientVars, consentVars
<1>3. CASE UserSends \/ UserClears \/ Status \/ ConnectionBreaks \/ Elsewhere
  <2>1. UNCHANGED <<accepted, replies, allowed>>
    BY <1>3 DEF UserSends, UserClears, Status, ConnectionBreaks, Elsewhere,
         Client!Send, Client!Clear, Client!Accepted, Client!Fail,
         Client!Finish, Client!Connect, Client!TaskEnds, serverVars, consentVars
  <2> QED
    BY <1>1, <2>1
<1>4. CASE Receive
  <2>1. UNCHANGED <<accepted, replies, allowed>>
    BY <1>4 DEF Receive, HandleNext, Client!Finish, Client!TaskEnds,
         Client!Handle, consentVars
  <2> QED
    BY <1>1, <2>1
<1>5. ASSUME NEW yes \in BOOLEAN, Clicks(yes) PROVE Clicked'
  <2> DEFINE new == Client!Reply(pendingConsent, yes)
  <2>1. /\ replies' = replies \cup {new} /\ accepted' = accepted
        /\ allowed \subseteq allowed'
        /\ yes = TRUE => pendingConsent \in allowed'
    BY <1>5 DEF Clicks, Client!Respond, serverVars, consentVars
  <2>2. new.question = pendingConsent /\ new.allow = yes
    BY DEF Client!Reply
  <2> HIDE DEF new
  <2>3. new.allow = TRUE => new.question \in allowed'
    BY <2>1, <2>2, Zenon
  <2> QED
    BY <2>1, <2>3
<1>6. ASSUME NEW reply \in replies, ReplyFound(reply) \/ ReplyLost(reply)
      PROVE  Clicked'
  <2>1. UNCHANGED <<accepted, allowed>> /\ replies' \subseteq replies
    BY <1>6 DEF ReplyFound, ReplyLost, ConsentLookup, Client!Replied, appVars,
         clientVars, serverVars, consentVars
  <2> QED
    BY <1>1, <2>1
<1>7. ASSUME NEW reply \in replies, ReplyCounts(reply) PROVE Clicked'
  <2> DEFINE c == reply.question
             answer == reply.allow
  <2>1. /\ replies' \subseteq replies /\ allowed' = allowed
        /\ UNCHANGED consentVars \/ Broker!Resolve(c, answer)
    BY <1>7 DEF ReplyCounts, Client!Replied
  <2>2. CASE UNCHANGED consentVars
    BY <1>1, <2>1, <2>2 DEF consentVars
  <2>3. CASE Broker!Resolve(c, answer)
    <3>1. c \in Calls /\ answer \in BOOLEAN /\ (answer = TRUE => c \in allowed)
      BY DEF AppTypeOK
    <3>2. accepted[c] = << >>
      BY <2>3, <3>1, ComponentFacts
         DEF ServerInv, Broker!Resolve, Broker!Unresolved
    <3>3. accepted' = [accepted EXCEPT ![c] = Append(accepted[c], answer)]
      BY <2>3 DEF Broker!Resolve
    <3> HIDE DEF c, answer
    <3>4. accepted'[c] = <<TRUE>> => c \in allowed
      <4> SUFFICES ASSUME accepted'[c] = <<TRUE>> PROVE answer = TRUE
        BY <3>1
      <4>1. c \in DOMAIN accepted
        BY <3>1 DEF ServerInv, ComponentsInv, BrokerThms!IInv, BrokerThms!TypeOK
      <4>2. accepted'[c] = Append(<< >>, answer)
        BY <3>2, <3>3, <4>1
      <4>3. Append(<< >>, answer)[1] = answer /\ <<TRUE>>[1] = TRUE
        OBVIOUS
      <4> QED
        BY <4>2, <4>3, Zenon
    <3>5. \A d \in Calls \ {c} : accepted'[d] = accepted[d]
      BY <3>3
    <3> QED
      BY <2>1, <3>4, <3>5
  <2> QED
    BY <2>1, <2>2, <2>3
<1>8. CASE DeleteArrives \/ UNCHANGED allVars
  <2>1. UNCHANGED <<accepted, replies, allowed>>
    BY <1>8 DEF DeleteArrives, DeleteSession, Client!Deleted, allVars, appVars,
         clientVars, serverVars, consentVars
  <2> QED
    BY <1>1, <2>1
<1> QED
  BY <1>1, <1>2, <1>3, <1>4, <1>5, <1>6, <1>7, <1>8 DEF AppNext

-----------------------------------------------------------------------------
(* The one request of the app.                                             *)

(* The handler of r is between the lookup and the end of its stream. *)
Under(r) == handler[r] \in {"found", "claimed", "spawned", "streaming"}

(* At most one request is under way.  As long as the app has the session   *)
(* it is the app's own, whose Task waits for it; a request that the app    *)
(* gave up took the session with it, so that no other follows.             *)
OneReader ==
    /\ \A r, s \in Requests : Under(r) /\ Under(s) => r = s
    /\ sessionID = "here" => \A r \in Requests : Under(r) => r = request
    /\ request # NoRequest =>
          /\ Under(request) \/ handler[request] \in {"unknown", "busy", "failed"}
          /\ sessionID = "here" /\ task \in {"posting", "reading"}
          /\ task = "reading" => handler[request] = "streaming"
    /\ sessionID = "here" /\ task = "reading" => request # NoRequest
    /\ sessionID # "here" => pendingConsent = NoQuestion

(* BusyInv, for provers that do not take a variable for a formula. *)
LEMMA BusyFacts ==
  ASSUME BusyInv
  PROVE  /\ Client!Send \/ Client!Clear => task = "none"
         /\ task # "reading" => pendingConsent = NoQuestion
<1>1. ~isBusy => task = "none"
  BY Zenon DEF BusyInv, BusyIsTheTask, Client!BusyIsTheTask
<1>2. task # "reading" => pendingConsent = NoQuestion
  BY Zenon DEF BusyInv, BusyIsTheTask, Client!BusyIsTheTask
<1>3. Client!Send \/ Client!Clear => ~isBusy
  BY DEF Client!Send, Client!Clear
<1> QED
  BY <1>1, <1>2, <1>3

(* The worker leaves the handlers and the streams alone. *)
LEMMA WorkLeavesStreams ==
  ASSUME NEW r \in Requests, Work(r)
  PROVE  UNCHANGED <<handler, readsFrom, taken, stream>>
<1> USE DEF sessionVars
<1>1. CASE BeginTurn(r) \/ EngineAlone(r) \/ FinishTurn(r)
  BY <1>1 DEF BeginTurn, EngineAlone, FinishTurn, Session!Begin,
       Session!Conclude, Session!MarkEnd, Session!Release,
       Session!handlerVars, Session!queueVars
<1>2. ASSUME NEW c \in Calls,
             \/ Dispatch(r, c) \/ Ask(r, c) \/ WaitEnds(r, c)
             \/ Verdict(r, c) \/ RunTool(r, c)
      PROVE  UNCHANGED <<handler, readsFrom, taken, stream>>
  BY <1>2 DEF Dispatch, Ask, WaitEnds, Verdict, RunTool, Session!Emit,
       Session!handlerVars
<1> QED
  BY <1>1, <1>2, WorkIsWorkerStep DEF WorkerStep

(* The app posts a message only when the last one is over for it. *)
LEMMA NextOneReader ==
  ASSUME ServerInv, AppTypeOK, BusyInv, OneReader, [AppNext]_allVars
  PROVE  OneReader'
<1> USE DEF OneReader, Under
<1>0. /\ handler \in [Requests -> {"unknown", "busy", "failed", "closed", "gone",
               "idle", "found", "claimed", "spawned", "streaming", "orphan"}]
      /\ NoRequest \notin Requests
      /\ request \in Requests \cup {NoRequest}
  <2>1. SessionThms!TypeOK
    BY DEF ServerInv, ComponentsInv, SessionThms!IInv
  <2> QED
    BY <2>1, ComponentAssumptions
       DEF SessionThms!TypeOK, SessionThms!Answered,
           SessionThms!SessionAssumption, AppTypeOK
<1>1. CASE UNCHANGED <<handler, request, sessionID, task, pendingConsent>>
  BY <1>1
<1>2. ASSUME NEW r \in Requests, Work(r) PROVE OneReader'
  <2>1. UNCHANGED <<handler, request, sessionID, task, pendingConsent>>
    BY <1>2, WorkLeavesStreams, WorkIsWorkerStep DEF appVars, clientVars
  <2> QED
    BY <1>1, <2>1
<1>3. ASSUME NEW r \in Requests, Handler(r) PROVE OneReader'
  <2>1. /\ UNCHANGED <<request, sessionID, task, pendingConsent>>
        /\ handler[r] # "streaming"
        /\ \/ /\ handler[r] \in {"found", "claimed", "spawned"}
              /\ \E to \in {"busy", "claimed", "spawned", "failed", "streaming"} :
                    handler' = [handler EXCEPT ![r] = to]
           \/ handler[r] = "orphan" /\ handler' = [handler EXCEPT ![r] = "gone"]
    BY <1>3 DEF Handler, Session!HandlerStep, Session!Refuse, Session!Claim,
         Session!Spawn, Session!SpawnFails, Session!Respond, Session!DropOne,
         Session!HandlerGoes, appVars, clientVars
  <2> QED
    BY <1>0, <2>1
<1>4. ASSUME NEW r \in Requests, Post(r) PROVE OneReader'
  <2>1. /\ task = "posting" /\ sessionID = "here" /\ request = NoRequest
        /\ request' = r /\ UNCHANGED <<sessionID, task, pendingConsent>>
        /\ \E to \in {"found", "unknown"} : handler' = [handler EXCEPT ![r] = to]
    BY <1>4 DEF Post, Session!Lookup, Session!HandlerGoes, clientVars
  <2>2. \A s \in Requests : ~Under(s)
    BY <1>0, <2>1
  <2> QED
    BY <1>0, <2>1, <2>2
<1>5. CASE UserSends \/ UserClears
  <2>1. task = "none" /\ request = NoRequest
    BY <1>5, BusyFacts DEF UserSends, UserClears
  <2>2. /\ UNCHANGED <<handler, request>> /\ pendingConsent' = pendingConsent
        /\ pendingConsent = NoQuestion /\ task' # "reading"
        /\ sessionID' \in {sessionID, "nil"}
    BY <1>5, <2>1, BusyFacts DEF UserSends, UserClears, Client!Send, Client!Clear,
         serverVars, sessionVars
  <2> QED
    BY <2>1, <2>2
<1>6. ASSUME NEW yes \in BOOLEAN, Clicks(yes) PROVE OneReader'
  BY <1>6 DEF Clicks, Client!Respond, serverVars, sessionVars
<1>7. CASE Status
  <2>1. handler' = handler /\ request # NoRequest
    BY <1>7 DEF Status, serverVars, sessionVars
  <2>2. CASE /\ handler[request] = "streaming"
             /\ Client!Accepted /\ UNCHANGED request
    BY <2>1, <2>2 DEF Client!Accepted
  <2>3. CASE /\ handler[request] \in {"unknown", "busy", "failed"}
             /\ Client!Fail /\ request' = NoRequest
    BY <2>1, <2>3 DEF Client!Fail, Client!TaskEnds, Client!CardAfter
  <2> QED
    BY <1>7, <2>2, <2>3 DEF Status
<1>8. CASE Receive
  <2>1. /\ request # NoRequest /\ task = "reading"
        /\ handler[request] = "streaming"
        /\ handler' = handler \/ handler' = [handler EXCEPT ![request] = "closed"]
    BY <1>8 DEF Receive, Session!Deliver
  <2>2. CASE handler'[request] = "closed"
    <3>1. /\ task' = "none" /\ request' = NoRequest
          /\ pendingConsent' = NoQuestion /\ sessionID' = sessionID
      BY <1>8, <2>2 DEF Receive, Client!Finish, Client!TaskEnds,
           Client!CardAfter
    <3> QED
      BY <1>0, <2>1, <2>2, <3>1
  <2>3. CASE handler'[request] # "closed"
    <3>1. UNCHANGED <<request, sessionID, task>>
      BY <1>8, <2>3 DEF Receive, HandleNext, Client!Handle
    <3>2. handler' = handler
      BY <1>0, <2>1, <2>3
    <3> QED
      BY <2>1, <3>1, <3>2
  <2> QED
    BY <2>2, <2>3
<1>9. CASE ConnectionBreaks
  BY <1>9 DEF ConnectionBreaks, Client!Fail, Client!TaskEnds, Client!CardAfter,
       serverVars, sessionVars
<1>13. ASSUME NEW r \in Requests, Abandoned(r) PROVE OneReader'
  <2>1. /\ UNCHANGED <<request, sessionID, task, pendingConsent>>
        /\ r # request /\ handler' = [handler EXCEPT ![r] = "orphan"]
    BY <1>13 DEF Abandoned, Session!Disconnect, Session!HandlerGoes, appVars,
         clientVars
  <2> QED
    BY <1>0, <2>1
<1>10. CASE Elsewhere
  <2>1. UNCHANGED <<handler, request>>
    BY <1>10 DEF Elsewhere, serverVars, sessionVars
  <2>2. request = NoRequest /\ pendingConsent = NoQuestion
    BY <1>10, BusyFacts DEF Elsewhere, Client!Connect
  <2>3. /\ pendingConsent' = NoQuestion
        /\ sessionID' # "here"
    BY <1>10, <2>2 DEF Elsewhere, Client!Connect, Client!Accepted,
         Client!Fail, Client!Finish, Client!TaskEnds, Client!CardAfter
  <2> QED
    BY <2>1, <2>2, <2>3
<1>11. ASSUME NEW reply \in replies,
              ReplyFound(reply) \/ ReplyLost(reply) \/ ReplyCounts(reply)
       PROVE  UNCHANGED <<handler, request, sessionID, task, pendingConsent>>
  BY <1>11 DEF ReplyFound, ReplyLost, ReplyCounts, ConsentLookup, Client!Replied,
       appVars, clientVars, serverVars, sessionVars
<1>12. CASE DeleteArrives \/ UNCHANGED allVars
  <2>1. UNCHANGED <<handler, request, sessionID, task, pendingConsent>>
    BY <1>12 DEF DeleteArrives, DeleteSession, Session!Delete,
         Session!handlerVars, Client!Deleted, allVars, appVars, clientVars,
         serverVars, sessionVars
  <2> QED
    BY <1>1, <2>1
<1> QED
  BY <1>1, <1>2, <1>3, <1>4, <1>5, <1>6, <1>7, <1>8, <1>9, <1>10, <1>11, <1>12,
     <1>13 DEF AppNext

-----------------------------------------------------------------------------
(* What the events say.                                                    *)

(* payload goes with the queues: what an event of r says is known as soon  *)
(* as the event is in the queue, and no step changes what one said.        *)
PayloadFits ==
    \A r \in Requests :
        /\ worker[r] \in {"none", "started"} => payload[r] = << >>
        /\ worker[r] = "running" => Len(payload[r]) = Len(queue[r])
        /\ \A i \in 1..Len(queue[r]) :
              queue[r][i].kind = "event" => i <= Len(payload[r])

(* What the session's inductive invariant says of queues and streams. *)
LEMMA SessionFacts ==
  ASSUME ServerInv
  PROVE  /\ worker \in [Requests -> {"none", "started", "running", "concluded",
                                     "marked", "released"}]
         /\ \A r \in Requests :
               /\ Len(queue[r]) \in Nat
               /\ worker[r] = "started" => queue[r] = << >>
               /\ Len(stream[r]) \in Nat
               /\ DOMAIN stream[r] = 1..Len(stream[r])
<1>1. SessionThms!TypeOK /\ SessionThms!QueueByWorker
  BY DEF ServerInv, ComponentsInv, SessionThms!IInv
<1>2. worker \in [Requests -> {"none", "started", "running", "concluded",
                               "marked", "released"}]
  BY <1>1 DEF SessionThms!TypeOK
<1>3. ASSUME NEW r \in Requests
      PROVE  /\ Len(queue[r]) \in Nat
             /\ worker[r] = "started" => queue[r] = << >>
             /\ Len(stream[r]) \in Nat
             /\ DOMAIN stream[r] = 1..Len(stream[r])
  <2>1. /\ queue[r] \in Seq(SessionThms!Events \cup SessionThms!EndMarks)
        /\ stream[r] \in Seq(SessionThms!Events)
    BY <1>1 DEF SessionThms!TypeOK, SessionThms!Queues
  <2>2. worker[r] = "started" => queue[r] = << >>
    BY <1>1 DEF SessionThms!QueueByWorker, SessionThms!QueueFits
  <2> QED
    BY <2>1, <2>2
<1> QED
  BY <1>2, <1>3

(* The items a step of the session puts, for the server. *)
LEMMA ServerQueuesGrow ==
  ASSUME ServerInv, [Next]_vars, NEW r \in Requests
  PROVE  /\ Len(queue[r]) \in Nat /\ Len(queue'[r]) \in Nat
         /\ Len(queue[r]) <= Len(queue'[r])
         /\ \A i \in 1..Len(queue[r]) : queue'[r][i] = queue[r][i]
<1>1. [SessionThms!Next]_(SessionThms!vars) /\ SessionThms!IInv
  BY StepOfSession, SessionIsSession DEF ServerInv, ComponentsInv
<1> QED
  BY <1>1, ComponentAssumptions, SessionThms!QueuesGrow

(* An event put by a worker, with the queue it goes to. *)
LEMMA WorkerPuts ==
  ASSUME ServerInv, NEW r \in Requests, worker[r] \in {"running", "concluded"},
         NEW kind \in {"event", "done", "error", "none"},
         NEW q \in {writesTo[r], current},
         queue' = [queue EXCEPT ![q] = Append(@, Session!Event(r, kind))]
  PROVE  /\ q = r
         /\ \A s \in Requests \ {r} : queue'[s] = queue[s]
         /\ Len(queue[r]) \in Nat
         /\ Len(queue'[r]) = Len(queue[r]) + 1
         /\ \A i \in 1..Len(queue[r]) : queue'[r][i] = queue[r][i]
         /\ queue'[r][Len(queue[r]) + 1].kind = kind
<1>1. SessionThms!IInv /\ SessionThms!SessionAssumption
  BY ComponentAssumptions DEF ServerInv, ComponentsInv
<1>2. /\ writesTo[r] = r /\ current = r
      /\ queue[r] \in Seq(SessionThms!Events \cup SessionThms!EndMarks)
  BY <1>1, SessionThms!OwnQueue
<1>3. /\ SessionThms!Event(r, kind) \in SessionThms!Events \cup SessionThms!EndMarks
      /\ SessionThms!Event(r, kind).kind = kind
  BY <1>1, SessionThms!EventTyped
<1>4. queue' = [queue EXCEPT ![r] = Append(@, SessionThms!Event(r, kind))]
  BY <1>2 DEF Session!Event, SessionThms!Event
<1>5. /\ \A s \in Requests \ {r} : queue'[s] = queue[s]
      /\ Len(queue[r]) \in Nat
      /\ Len(queue'[r]) = Len(queue[r]) + 1
      /\ \A i \in 1..Len(queue[r]) : queue'[r][i] = queue[r][i]
      /\ queue'[r][Len(queue[r]) + 1] = SessionThms!Event(r, kind)
  BY <1>1, <1>2, <1>3, <1>4, SessionThms!AppendKeeps
<1> QED
  BY <1>2, <1>3, <1>5

(* Every event is put together with what it says. *)
LEMMA NextPayloadFits ==
  ASSUME ServerInv, AppTypeOK, PayloadFits, [AppNext]_allVars
  PROVE  PayloadFits'
<1> USE DEF PayloadFits, Session!WorkerGoes
<1>0. /\ worker \in [Requests -> {"none", "started", "running", "concluded",
                                  "marked", "released"}]
      /\ \A r \in Requests : Len(queue[r]) \in Nat
      /\ payload \in [Requests -> Seq(Calls \cup {"tool_use"})]
      /\ \A r \in Requests : handler[r] = "claimed" => worker[r] = "none"
  BY SessionFacts, ComponentFacts DEF AppTypeOK, ServerInv
<1>1. CASE UNCHANGED <<worker, queue, payload>>
  BY <1>1
<1>2. ASSUME NEW r \in Requests, NEW what \in Calls \cup {"tool_use"},
             Says(r, what), \E c \in Calls : Dispatch(r, c) \/ Ask(r, c)
      PROVE  PayloadFits'
  <2>1. /\ worker[r] = "running" /\ worker' = worker
        /\ \E q \in {writesTo[r], current} :
              queue' = [queue EXCEPT ![q] = Append(@, Session!Event(r, "event"))]
    BY <1>2 DEF Dispatch, Ask, Session!Emit, Session!Put
  <2>2. /\ \A s \in Requests \ {r} : queue'[s] = queue[s]
        /\ Len(queue[r]) \in Nat
        /\ Len(queue'[r]) = Len(queue[r]) + 1
        /\ \A i \in 1..Len(queue[r]) : queue'[r][i] = queue[r][i]
    BY <2>1, WorkerPuts
  <2>3. /\ \A s \in Requests \ {r} : payload'[s] = payload[s]
        /\ Len(payload'[r]) = Len(payload[r]) + 1
    BY <1>0, <1>2 DEF Says
  <2>4. Len(payload'[r]) = Len(queue'[r])
    BY <2>1, <2>2, <2>3
  <2>5. Len(queue'[r]) \in Nat
    BY <2>2
  <2> QED
    BY <1>0, <2>1, <2>2, <2>3, <2>4, <2>5
<1>3. ASSUME NEW r \in Requests, Work(r), UNCHANGED payload PROVE PayloadFits'
  <2>1. CASE BeginTurn(r)
    <3>1. /\ worker[r] = "started" /\ worker' = [worker EXCEPT ![r] = "running"]
          /\ queue' = queue
      BY <2>1 DEF BeginTurn, Session!Begin, Session!queueVars
    <3>2. queue[r] = << >>
      BY <3>1, SessionFacts
    <3> QED
      BY <1>0, <1>3, <3>1, <3>2
  <2>2. CASE FinishTurn(r)
    <3>1. CASE Session!Release(r)
      BY <1>0, <1>3, <3>1 DEF Session!Release, Session!queueVars
    <3>2. ASSUME NEW kind \in {"done", "error"}, Session!Conclude(r, kind)
          PROVE  PayloadFits'
      <4>1. /\ worker[r] = "running" /\ worker' = [worker EXCEPT ![r] = "concluded"]
            /\ queue' = [queue EXCEPT ![writesTo[r]] =
                            Append(@, Session!Event(r, kind))]
        BY <3>2 DEF Session!Conclude, Session!Put
      <4>2. /\ \A s \in Requests \ {r} : queue'[s] = queue[s]
            /\ Len(queue[r]) \in Nat
            /\ Len(queue'[r]) = Len(queue[r]) + 1
            /\ \A i \in 1..Len(queue[r]) : queue'[r][i] = queue[r][i]
            /\ queue'[r][Len(queue[r]) + 1].kind = kind
        BY <4>1, WorkerPuts
      <4> QED
        BY <1>0, <1>3, <4>1, <4>2
    <3>3. CASE Session!MarkEnd(r)
      <4>1. /\ worker[r] = "concluded" /\ worker' = [worker EXCEPT ![r] = "marked"]
            /\ queue' = [queue EXCEPT ![writesTo[r]] =
                            Append(queue[writesTo[r]], Session!Event(r, "none"))]
        BY <3>3 DEF Session!MarkEnd, Session!Marked
      <4>2. /\ \A s \in Requests \ {r} : queue'[s] = queue[s]
            /\ Len(queue[r]) \in Nat
            /\ Len(queue'[r]) = Len(queue[r]) + 1
            /\ \A i \in 1..Len(queue[r]) : queue'[r][i] = queue[r][i]
            /\ queue'[r][Len(queue[r]) + 1].kind = "none"
        BY <4>1, WorkerPuts
      <4> QED
        BY <1>0, <1>3, <4>1, <4>2
    <3> QED
      BY <2>2, <3>1, <3>2, <3>3 DEF FinishTurn
  <2>3. CASE UNCHANGED <<worker, queue>>
    BY <1>1, <1>3, <2>3
  <2>4. CASE EngineAlone(r) \/ \E c \in Calls :
                WaitEnds(r, c) \/ Verdict(r, c) \/ RunTool(r, c)
    BY <1>3, <2>3, <2>4 DEF EngineAlone, WaitEnds, Verdict, RunTool, sessionVars
  <2>5. ASSUME NEW c \in Calls, NEW what, Says(r, what) PROVE FALSE
    <3>1. Len(payload'[r]) = Len(payload[r]) + 1 /\ Len(payload[r]) \in Nat
      BY <1>0, <2>5 DEF Says
    <3> QED
      BY <1>3, <3>1
  <2> QED
    BY <1>3, <2>1, <2>2, <2>4, <2>5 DEF Work, Silent
<1>4. ASSUME NEW r \in Requests, Work(r) PROVE PayloadFits'
  <2>1. CASE UNCHANGED payload
    BY <1>3, <1>4, <2>1
  <2>2. ASSUME NEW c \in Calls, Dispatch(r, c), Says(r, "tool_use")
        PROVE  PayloadFits'
    BY <1>2, <2>2
  <2>3. ASSUME NEW c \in Calls, Ask(r, c), Says(r, c) PROVE PayloadFits'
    BY <1>2, <2>3
  <2> QED
    BY <1>4, <2>1, <2>2, <2>3 DEF Work
<1>5. ASSUME NEW r \in Requests, Handler(r) \/ Post(r) \/ Abandoned(r)
      PROVE  PayloadFits'
  <2>1. CASE Session!Spawn(r)
    <3>1. /\ worker[r] = "none" /\ worker' = [worker EXCEPT ![r] = "started"]
          /\ UNCHANGED <<queue, payload>>
      BY <1>0, <1>5, <2>1 DEF Session!Spawn, Session!HandlerGoes,
           Session!queueVars, Handler, Post, Abandoned
    <3> QED
      BY <1>0, <3>1
  <2>2. CASE ~Session!Spawn(r)
    <3>1. UNCHANGED <<worker, queue, payload>>
      BY <1>5, <2>2 DEF Handler, Post, Abandoned, Session!Lookup,
           Session!Disconnect, Session!HandlerStep, Session!Refuse, Session!Claim, Session!SpawnFails, Session!Respond,
           Session!DropOne, Session!workerVars, Session!queueVars
    <3> QED
      BY <1>1, <3>1
  <2> QED
    BY <2>1, <2>2
<1>6. CASE Receive \/ ConnectionBreaks
  <2>1. UNCHANGED <<worker, queue, payload>>
    BY <1>6 DEF Receive, ConnectionBreaks, Session!Deliver,
         Session!workerVars, serverVars, sessionVars
  <2> QED
    BY <1>1, <2>1
<1>7. CASE \/ UserSends \/ UserClears \/ (\E yes \in BOOLEAN : Clicks(yes))
           \/ Status \/ Elsewhere
           \/ (\E reply \in replies :
                 ReplyFound(reply) \/ ReplyLost(reply) \/ ReplyCounts(reply))
           \/ DeleteArrives \/ UNCHANGED allVars
  <2>1. UNCHANGED <<worker, queue, payload>>
    BY <1>7 DEF UserSends, UserClears, Clicks, Status, Elsewhere, ReplyFound,
         ReplyLost, ReplyCounts, ConsentLookup, DeleteArrives, DeleteSession,
         Session!Delete, Session!workerVars, Session!queueVars, allVars,
         serverVars, sessionVars
  <2> QED
    BY <1>1, <2>1
<1> QED
  BY <1>4, <1>5, <1>6, <1>7 DEF AppNext

-----------------------------------------------------------------------------
(* The card.                                                               *)

(* The last event of r's stream that is neither done nor error said what   *)
(* is on the card.                                                         *)
AskedLast(r, card) ==
    \E i \in DOMAIN stream[r] :
        /\ stream[r][i].kind = "event" /\ payload[r][i] = card
        /\ \A j \in (i + 1)..Len(stream[r]) : stream[r][j].kind # "event"

CardFits ==
    pendingConsent \in Calls =>
        request # NoRequest /\ AskedLast(request, pendingConsent)

(* The stream the app reads, as far as it is needed here. *)
LEMMA ReadingFacts ==
  ASSUME ServerInv, AppTypeOK, SessionThms!StreamInv, PayloadFits,
         request # NoRequest, handler[request] = "streaming"
  PROVE  /\ request \in Requests /\ readsFrom[request] = request
         /\ Len(stream[request]) \in Nat
         /\ DOMAIN stream[request] = 1..Len(stream[request])
         /\ taken[request] = Len(stream[request])
         /\ Len(stream[request]) <= Len(queue[request])
         /\ \A i \in DOMAIN stream[request] :
               /\ stream[request][i] = queue[request][i]
               /\ stream[request][i].kind = "event" =>
                     i \in 1..Len(payload[request])
<1>1. request \in Requests
  BY DEF AppTypeOK
<1>2. /\ Len(stream[request]) \in Nat /\ Len(queue[request]) \in Nat
      /\ DOMAIN stream[request] = 1..Len(stream[request])
  BY <1>1, SessionFacts
<1>3. /\ readsFrom[request] = request
      /\ SessionThms!Sent(request, taken[request])
  BY <1>1 DEF SessionThms!StreamInv, SessionThms!ReadsOwn,
              SessionThms!StreamFits, SessionThms!Fits
<1>4. payload[request] \in Seq(Calls \cup {"tool_use"})
  BY <1>1 DEF AppTypeOK
<1>5. /\ taken[request] = Len(stream[request])
      /\ Len(stream[request]) <= Len(queue[request])
      /\ \A i \in DOMAIN stream[request] :
            stream[request][i] = queue[request][i] /\ i \in 1..Len(queue[request])
  BY <1>2, <1>3 DEF SessionThms!Sent
<1> QED
  BY <1>1, <1>2, <1>3, <1>4, <1>5 DEF PayloadFits

(* No step but the app's own takes the question from under the card. *)
LEMMA CardStays ==
  ASSUME CardFits, NEW r \in Requests, request = r,
         UNCHANGED <<request, pendingConsent, stream>>,
         \A i \in DOMAIN stream[r] :
            stream[r][i].kind = "event" => payload'[r][i] = payload[r][i]
  PROVE  CardFits'
  BY DEF CardFits, AskedLast

(* handle() puts on the card what the event it is given asks. *)
LEMMA NextCardFits ==
  ASSUME ServerInv, AppTypeOK, BusyInv, OneReader, SessionThms!StreamInv,
         PayloadFits, CardFits, [AppNext]_allVars
  PROVE  CardFits'
<1>0. pendingConsent \in Calls =>
         request # NoRequest /\ handler[request] = "streaming"
  <2>1. NoQuestion \notin Calls
    BY QuestionAssumption DEF QuestionAssumption
  <2> QED
    BY <2>1, BusyFacts DEF OneReader
<1>1. CASE pendingConsent' = NoQuestion
  BY <1>1, QuestionAssumption DEF QuestionAssumption, CardFits
<1>2. CASE UNCHANGED <<request, pendingConsent, stream, payload>>
  BY <1>2 DEF CardFits, AskedLast
<1>3. ASSUME NEW r \in Requests, Work(r) PROVE CardFits'
  <2>1. UNCHANGED <<request, pendingConsent, stream>>
    BY <1>3, WorkLeavesStreams, WorkIsWorkerStep DEF appVars, clientVars
  <2>2. CASE pendingConsent \notin Calls
    BY <2>1, <2>2 DEF CardFits
  <2>3. CASE pendingConsent \in Calls
    <3>1. /\ request \in Requests
          /\ \A i \in DOMAIN stream[request] :
                stream[request][i].kind = "event" => i \in 1..Len(payload[request])
      BY <1>0, <2>3, ReadingFacts
    <3>2. /\ payload \in [Requests -> Seq(Calls \cup {"tool_use"})]
          /\ \/ payload' = payload
             \/ \E what \in Calls \cup {"tool_use"} :
                   payload' = [payload EXCEPT ![r] = Append(@, what)]
      BY <1>3 DEF Work, Says, AppTypeOK
    <3>3. \A i \in 1..Len(payload[request]) :
             payload'[request][i] = payload[request][i]
      BY <3>1, <3>2
    <3> QED
      BY <2>1, <3>1, <3>3, CardStays
  <2> QED
    BY <2>2, <2>3
<1>4. ASSUME NEW r \in Requests, Handler(r)
      PROVE  UNCHANGED <<request, pendingConsent, stream, payload>>
  BY <1>4 DEF Handler, Session!HandlerStep, Session!Refuse, Session!Claim,
       Session!Spawn, Session!SpawnFails, Session!Respond, Session!DropOne,
       Session!queueVars, appVars, clientVars
<1>14. ASSUME NEW r \in Requests, Abandoned(r)
       PROVE  UNCHANGED <<request, pendingConsent, stream, payload>>
  BY <1>14 DEF Abandoned, Session!Disconnect, Session!queueVars, appVars, clientVars
<1>5. ASSUME NEW r \in Requests, Post(r) PROVE CardFits'
  <2>1. pendingConsent \notin Calls /\ pendingConsent' = pendingConsent
    BY <1>0, <1>5 DEF Post, clientVars
  <2> QED
    BY <2>1 DEF CardFits
<1>6. CASE Receive
  <2> DEFINE r == request
             n == Len(stream[request])
             item == Session!NextItem(readsFrom[request])
             what == payload[item.from][n + 1]
  <2>1. r # NoRequest /\ handler[r] = "streaming"
    BY <1>6 DEF Receive, Session!Deliver
  <2>2. /\ r \in Requests /\ readsFrom[r] = r /\ n \in Nat
        /\ DOMAIN stream[r] = 1..n /\ taken[r] = n
    BY <2>1, ReadingFacts
  <2>3. CASE handler'[r] = "closed"
    BY <1>1, <1>6, <2>3 DEF Receive, Client!Finish, Client!TaskEnds,
         Client!CardAfter
  <2>4. CASE handler'[r] # "closed"
    <3>1. HandleNext /\ request' = request /\ payload' = payload
      BY <1>6, <2>4 DEF Receive
    <3>2. /\ stream' = [stream EXCEPT ![r] = Append(stream[r], item)]
          /\ item.kind # "none" /\ item = queue[r][n + 1] /\ n < Len(queue[r])
      <4>1. ~Session!IsEnd(item)
        <5>1. handler \in [Requests -> SessionThms!Answered \cup {"idle", "found",
                 "claimed", "spawned", "streaming", "orphan"}]
          BY DEF ServerInv, ComponentsInv, SessionThms!IInv, SessionThms!TypeOK
        <5> QED
          BY <1>6, <2>2, <2>4, <5>1 DEF Receive, Session!Deliver
      <4> QED
        BY <1>6, <2>2, <4>1 DEF Receive, Session!Deliver, Session!IsEnd,
             Session!HasNext, Session!NextItem
    <3>3. item.from = r /\ item.kind \in {"event", "done", "error"}
      <4>1. SessionThms!QueueIsOneTurn /\ SessionThms!TypeOK
        BY ComponentAssumptions, SessionThms!IInvOneTurn
           DEF ServerInv, ComponentsInv, SessionThms!IInv
      <4>2. Len(queue[r]) \in Nat
        BY <2>2, SessionFacts
      <4>3. queue[r] \in Seq(SessionThms!Events \cup SessionThms!EndMarks)
        BY <2>2, <4>1 DEF SessionThms!TypeOK, SessionThms!Queues
      <4>4. n + 1 \in 1..Len(queue[r])
        BY <2>2, <3>2, <4>2
      <4>5. item \in SessionThms!Events \cup SessionThms!EndMarks
        BY <3>2, <4>3, <4>4
      <4>6. queue[r][n + 1].from = r
        BY <2>2, <4>1, <4>4 DEF SessionThms!QueueIsOneTurn
      <4> QED
        BY <3>2, <4>5, <4>6 DEF SessionThms!Events, SessionThms!EndMarks
    <3> HIDE DEF item
    <3>4. /\ stream'[r] = Append(stream[r], item) /\ stream[r] \in Seq(SessionThms!Events)
          /\ item \in SessionThms!Events
      <4>1. stream \in [Requests -> Seq(SessionThms!Events)]
        BY DEF ServerInv, ComponentsInv, SessionThms!IInv, SessionThms!TypeOK
      <4>2. item \in SessionThms!Events \cup SessionThms!EndMarks
        <5>1. queue[r] \in Seq(SessionThms!Events \cup SessionThms!EndMarks)
          BY <2>2 DEF ServerInv, ComponentsInv, SessionThms!IInv,
               SessionThms!TypeOK, SessionThms!Queues
        <5> QED
          BY <2>2, <3>2, <5>1
      <4> QED
        BY <2>2, <3>2, <4>1, <4>2 DEF SessionThms!Events, SessionThms!EndMarks
    <3>5. /\ Len(stream'[r]) = n + 1 /\ DOMAIN stream'[r] = 1..(n + 1)
          /\ stream'[r][n + 1] = item
          /\ \A i \in 1..n : stream'[r][i] = stream[r][i]
      BY <2>2, <3>4
    <3>6. CASE item.kind = "event" /\ what \in Calls
      <4>1. Client!Handle("consent_request", what)
        BY <3>1, <3>6 DEF HandleNext, item
      <4>2. pendingConsent' = what
        BY <4>1, Zenon DEF Client!Handle
      <4>3. what = payload[r][n + 1]
        BY <3>3
      <4> HIDE DEF what
      <4> QED
        BY <2>1, <2>2, <3>1, <3>5, <3>6, <4>2, <4>3 DEF CardFits, AskedLast
    <3>7. CASE item.kind = "event" /\ what \notin Calls
      <4>1. Client!Handle("tool_use", NoQuestion)
        BY <3>1, <3>7 DEF HandleNext, item
      <4>2. pendingConsent' = NoQuestion
        BY <4>1, Zenon DEF Client!Handle
      <4> QED
        BY <1>1, <4>2
    <3>8. CASE item.kind = "done"
      <4>1. Client!Handle("done", NoQuestion)
        BY <3>1, <3>8 DEF HandleNext, item
      <4>2. pendingConsent' = NoQuestion
        BY <4>1, Zenon DEF Client!Handle
      <4> QED
        BY <1>1, <4>2
    <3>9. CASE item.kind = "error"
      <4>1. Client!Handle("error", NoQuestion)
        BY <3>1, <3>9 DEF HandleNext, item
      <4>2. pendingConsent' = pendingConsent
        BY <4>1, Zenon DEF Client!Handle
      <4>3. CASE pendingConsent \in Calls
        <5>1. PICK i \in 1..n :
                 /\ stream[r][i].kind = "event" /\ payload[r][i] = pendingConsent
                 /\ \A j \in (i + 1)..n : stream[r][j].kind # "event"
          BY <2>2, <4>3 DEF CardFits, AskedLast
        <5>2. \A j \in (i + 1)..(n + 1) : stream'[r][j].kind # "event"
          <6>1. \A j \in (i + 1)..(n + 1) : j \in (i + 1)..n \/ j = n + 1
            BY <2>2, <5>1
          <6>2. (i + 1)..n \subseteq 1..n
            BY <2>2, <5>1
          <6> QED
            BY <3>5, <3>9, <5>1, <6>1, <6>2
        <5>3. i \in 1..(n + 1)
          BY <2>2, <5>1
        <5> QED
          BY <2>1, <3>1, <3>5, <4>2, <5>1, <5>2, <5>3 DEF CardFits, AskedLast
      <4> QED
        BY <4>2, <4>3 DEF CardFits
    <3> QED
      BY <3>3, <3>6, <3>7, <3>8, <3>9
  <2> QED
    BY <2>3, <2>4
<1>7. CASE ConnectionBreaks
  BY <1>1, <1>7 DEF ConnectionBreaks, Client!Fail, Client!TaskEnds,
       Client!CardAfter
<1>8. CASE UserSends \/ UserClears
  BY <1>2, <1>8 DEF UserSends, UserClears, Client!Send, Client!Clear,
       serverVars, sessionVars
<1>9. ASSUME NEW yes \in BOOLEAN, Clicks(yes)
      PROVE  pendingConsent' = NoQuestion
  BY <1>9 DEF Clicks, Client!Respond
<1>10. CASE Status
  <2>1. CASE Client!Accepted /\ UNCHANGED request
    BY <1>2, <1>10, <2>1 DEF Status, Client!Accepted, serverVars, sessionVars
  <2>2. CASE Client!Fail
    BY <1>1, <2>2 DEF Client!Fail, Client!TaskEnds, Client!CardAfter
  <2> QED
    BY <1>10, <2>1, <2>2 DEF Status
<1>11. CASE Elsewhere
  <2>1. CASE Client!Connect \/ Client!Accepted
    BY <1>2, <1>11, <2>1 DEF Elsewhere, Client!Connect, Client!Accepted,
         serverVars, sessionVars
  <2>2. CASE Client!Finish \/ Client!Fail
    BY <1>1, <2>2 DEF Client!Finish, Client!Fail, Client!TaskEnds,
         Client!CardAfter
  <2> QED
    BY <1>11, <2>1, <2>2 DEF Elsewhere
<1>12. ASSUME NEW reply \in replies,
              ReplyFound(reply) \/ ReplyLost(reply) \/ ReplyCounts(reply)
       PROVE  UNCHANGED <<request, pendingConsent, stream, payload>>
  BY <1>12 DEF ReplyFound, ReplyLost, ReplyCounts, ConsentLookup, Client!Replied,
       appVars, clientVars, serverVars, sessionVars
<1>13. CASE DeleteArrives \/ UNCHANGED allVars
  <2>1. UNCHANGED <<request, pendingConsent, stream, payload>>
    BY <1>13 DEF DeleteArrives, DeleteSession, Session!Delete,
         Session!queueVars, Client!Deleted, allVars, appVars, clientVars,
         serverVars, sessionVars
  <2> QED
    BY <1>2, <2>1
<1> QED
  BY <1>1, <1>2, <1>3, <1>4, <1>5, <1>6, <1>7, <1>8, <1>9, <1>10, <1>11,
     <1>12, <1>13, <1>14 DEF AppNext

-----------------------------------------------------------------------------
(* The inductive invariant of the two together.                            *)

AppInv == /\ ServerInv /\ BusyInv /\ AppTypeOK /\ Clicked /\ OneReader
          /\ SessionThms!StreamInv /\ PayloadFits /\ CardFits

(* The app at its start, with a fresh server. *)
LEMMA AppStarts == AppInit => AppInv
<1> SUFFICES ASSUME AppInit PROVE AppInv
  OBVIOUS
<1>1. ServerInv
  BY ComponentsStart, TogetherStarts DEF AppInit, ServerInv
<1>2. BusyInv
  BY Zenon DEF AppInit, Client!ClientInit, BusyInv, BusyIsTheTask,
               Client!BusyIsTheTask
<1>3. /\ request = NoRequest /\ allowed = {} /\ replies = {}
      /\ pendingConsent = NoQuestion /\ sessionID = "here" /\ task = "none"
      /\ payload = [r \in Requests |-> << >>]
  BY DEF AppInit, Client!ClientInit
<1>4. AppTypeOK /\ CardFits
  BY <1>3, QuestionAssumption DEF AppTypeOK, CardFits, QuestionAssumption
<1>5. Clicked
  <2>1. \A c \in Calls : accepted[c] = << >>
    BY DEF AppInit, Init, Broker!Init
  <2>2. <<TRUE>> # << >>
    <3>1. Len(<<TRUE>>) = 1 /\ Len(<< >>) = 0
      OBVIOUS
    <3> QED
      BY <3>1
  <2> QED
    BY <1>3, <2>1, <2>2, Zenon DEF Clicked
<1>6. OneReader /\ SessionThms!StreamInv /\ PayloadFits
  <2>1. /\ \A r \in Requests : /\ handler[r] = "idle" /\ stream[r] = << >>
                               /\ taken[r] = 0 /\ queue[r] = << >>
                               /\ worker[r] = "none"
    BY DEF AppInit, Init, Session!Init, Session!Queues
  <2> QED
    BY <1>3, <2>1 DEF OneReader, Under, SessionThms!StreamInv,
       SessionThms!ReadsOwn, SessionThms!StreamFits, SessionThms!Fits,
       PayloadFits
<1> QED
  BY <1>1, <1>2, <1>4, <1>5, <1>6 DEF AppInv

(* A step of the two together keeps it. *)
LEMMA NextAppInv == AppInv /\ [AppNext]_allVars => AppInv'
<1> SUFFICES ASSUME AppInv, [AppNext]_allVars PROVE AppInv'
  OBVIOUS
<1> USE DEF AppInv
<1>1. [Next]_vars /\ ServerInv'
  BY AppStepIsServerStep, NextServerInv
<1>2. BusyInv'
  <2>1. CASE UNCHANGED clientVars
    BY <2>1, Zenon DEF clientVars, BusyInv, BusyIsTheTask, Client!BusyIsTheTask
  <2> QED
    BY <2>1, AppStepIsClientStep, ClientKeeps
<1>3. SessionThms!StreamInv'
  <2>1. SessionThms!IInv /\ [SessionThms!Next]_(SessionThms!vars)
    BY <1>1, StepOfSession, SessionIsSession DEF ServerInv, ComponentsInv
  <2>2. SessionThms!OnePosted
    BY DEF OneReader, Under, SessionThms!OnePosted
  <2> QED
    BY <2>1, <2>2, ComponentAssumptions, SessionThms!NextReadsOwn,
       SessionThms!NextStreamFits DEF SessionThms!StreamInv
<1> QED
  BY <1>1, <1>2, <1>3, NextAppTypeOK, NextClicked, NextOneReader,
     NextPayloadFits, NextCardFits

(* The inductive invariant holds in every state of the two together. *)
THEOREM SpecAppInv == AppSpec => []AppInv
  BY AppStarts, NextAppInv, PTL DEF AppSpec

(* The server's guarantees hold with the app as its client: what the app   *)
(* does is what some client of the server may do.                          *)
THEOREM AppImplementsServer == AppSpec => Spec
<1>1. AppInit => Init
  BY DEF AppInit
<1>2. AppInv /\ [AppNext]_allVars => [Next]_vars
  BY AppStepIsServerStep DEF AppInv
<1> QED
  BY <1>1, <1>2, SpecAppInv, PTL DEF AppSpec, Spec

(* From the button to the tool: a tool that is not read-only has run only  *)
(* after the user clicked Allow on the card for that very call.            *)
THEOREM SpecGatedRunWasClicked == AppSpec => []GatedRunWasClicked
<1>1. AppInv => GatedRunWasClicked
  <2> SUFFICES ASSUME AppInv PROVE GatedRunWasClicked
    OBVIOUS
  <2>1. GatedRunWasAllowed
    BY ServerInvSafe DEF AppInv
  <2> QED
    BY <2>1 DEF AppInv, Clicked, GatedRunWasAllowed, GatedRunWasClicked
<1> QED
  BY <1>1, SpecAppInv, PTL

(* The app is a client that posts one message at a time, so a response     *)
(* that the server closed has sent it every event of its own turn.         *)
THEOREM SpecStreamIsItsTurn == AppSpec => []StreamIsItsTurn
<1>1. AppInv => StreamIsItsTurn
  <2>1. AppInv => SessionThms!StreamIsItsTurn
    BY ComponentAssumptions, SessionThms!StreamInvSafe
       DEF AppInv, ServerInv, ComponentsInv
  <2> QED
    BY <2>1 DEF StreamIsItsTurn, Session!StreamIsItsTurn,
                SessionThms!StreamIsItsTurn
<1> QED
  BY <1>1, SpecAppInv, PTL

(* The question on the card is the one the turn being read asked last: a   *)
(* click never answers for a turn the user no longer sees.                 *)
THEOREM SpecCardIsOfThisTurn == AppSpec => []CardIsOfThisTurn
<1>1. AppInv => CardIsOfThisTurn
  <2> SUFFICES ASSUME AppInv, pendingConsent \in Calls
               PROVE  /\ isBusy /\ sessionID = "here" /\ request # NoRequest
                      /\ AskedLast(request, pendingConsent)
    BY DEF CardIsOfThisTurn, AskedLast
  <2>1. pendingConsent # NoQuestion
    BY QuestionAssumption DEF QuestionAssumption
  <2>2. isBusy
    BY <2>1, Zenon DEF AppInv, BusyInv, BusyIsTheTask, Client!BusyIsTheTask
  <2>3. sessionID = "here"
    BY <2>1 DEF AppInv, OneReader
  <2>4. request # NoRequest /\ AskedLast(request, pendingConsent)
    BY DEF AppInv, CardFits
  <2> QED
    BY <2>2, <2>3, <2>4
<1> QED
  BY <1>1, SpecAppInv, PTL
=============================================================================
