----------------------------- MODULE ChatClient -----------------------------
(***************************************************************************)
(* The model of the menu bar app (JarvisBar/ChatModel.swift) with the HTTP *)
(* client under it (JarvisKit).  Everything here runs on the main actor,   *)
(* so a step is the code up to the next await; what the server does in     *)
(* between is left to the module that composes the two.                    *)
(*                                                                         *)
(* The app uses one server session after another and never returns to one. *)
(* One of them, "here", is followed in detail; of the later ones it is said *)
(* that they are elsewhere, and what they ask is left out, like the        *)
(* transcript and the text of events.                                      *)
(***************************************************************************)
CONSTANTS
    Questions,      \* the consent ids of the session that is followed
    NoQuestion      \* pendingConsent == nil

VARIABLES
    isBusy,         \* ChatModel.isBusy
    sessionID,      \* ChatModel.sessionID: nil, here or elsewhere
    pendingConsent, \* ChatModel.pendingConsent
    task,           \* where the Task of send() awaits: none, connecting,
                    \* posting, reading
    replies,        \* the answers resolveConsent has under way
    deleting        \* is a DELETE of the session under way?

clientVars == <<isBusy, sessionID, pendingConsent, task, replies, deleting>>

Cards == Questions \cup {NoQuestion}

(* The app has connected and created its first session. *)
ClientInit ==
    /\ isBusy = FALSE /\ sessionID = "here" /\ pendingConsent = NoQuestion
    /\ task = "none" /\ replies = {} /\ deleting = FALSE

-----------------------------------------------------------------------------
(* send() and its Task.                                                    *)

Send ==
    /\ ~isBusy
    /\ isBusy' = TRUE
    /\ task' = IF sessionID = "nil" THEN "connecting" ELSE "posting"
    /\ UNCHANGED <<sessionID, pendingConsent, replies, deleting>>

(* connectedClient() has loaded the token and created a session. *)
Connect ==
    /\ task = "connecting"
    /\ task' = "posting" /\ sessionID' = "elsewhere"
    /\ UNCHANGED <<isBusy, pendingConsent, replies, deleting>>

(* The POST is answered with a stream. *)
Accepted ==
    /\ task = "posting" /\ task' = "reading"
    /\ UNCHANGED <<isBusy, sessionID, pendingConsent, replies, deleting>>

(* Mutant of CardAfter: the card is left to whoever answers it. *)
CardAfterKept == pendingConsent

(* The pending consent at the end of the Task. *)
CardAfter == NoQuestion

(* Mutant of BusyAfter: a stream that breaks off skips the reset. *)
BusyAfterIfOk(ok) == ~ok

BusyAfter(ok) == FALSE

(* The end of the Task: the loop is over, or something threw.              *)
TaskEnds(ok) ==
    /\ task' = "none"
    /\ isBusy' = BusyAfter(ok)
    /\ pendingConsent' = CardAfter
    /\ UNCHANGED <<replies, deleting>>

Finish == task = "reading" /\ TaskEnds(TRUE) /\ UNCHANGED sessionID

(* The token is missing, the server is away, a status is not 2xx, or the   *)
(* stream breaks off or is silent for too long: the session is forgotten.  *)
Fail == task # "none" /\ TaskEnds(FALSE) /\ sessionID' = "nil"

(* handle(event).  A tool_use or done takes the card away, a text or an    *)
(* error leaves it.                                                        *)
Handle(kind, question) ==
    /\ task = "reading"
    /\ pendingConsent' = CASE kind = "consent_request" -> question
                           [] kind \in {"tool_use", "done"} -> NoQuestion
                           [] OTHER -> pendingConsent
    /\ UNCHANGED <<isBusy, sessionID, task, replies, deleting>>

-----------------------------------------------------------------------------
(* respondToConsent(allow:), from the buttons of the card that is shown.   *)

(* Mutant of Reply: Deny and Allow post the same answer. *)
ReplyYes(question, allow) == [question |-> question, allow |-> TRUE]

Reply(question, allow) == [question |-> question, allow |-> allow]

Respond(allow) ==
    /\ pendingConsent # NoQuestion /\ sessionID # "nil"
    /\ pendingConsent' = NoQuestion
    /\ replies' = replies \cup {Reply(pendingConsent, allow)}
    /\ UNCHANGED <<isBusy, sessionID, task, deleting>>

(* The reply was answered, with whatever status. *)
Replied(reply) ==
    /\ reply \in replies
    /\ replies' = replies \ {reply}
    /\ UNCHANGED <<isBusy, sessionID, pendingConsent, task, deleting>>

(* clearConversation(); the DELETE is not waited for. *)
Clear ==
    /\ ~isBusy
    /\ sessionID' = "nil"
    /\ deleting' = (deleting \/ sessionID = "here")
    /\ UNCHANGED <<isBusy, pendingConsent, task, replies>>

Deleted ==
    /\ deleting /\ deleting' = FALSE
    /\ UNCHANGED <<isBusy, sessionID, pendingConsent, task, replies>>

-----------------------------------------------------------------------------
ClientTypeOK ==
    /\ isBusy \in BOOLEAN /\ deleting \in BOOLEAN
    /\ sessionID \in {"nil", "here", "elsewhere"}
    /\ pendingConsent \in Cards
    /\ task \in {"none", "connecting", "posting", "reading"}
    /\ replies \subseteq [question : Questions, allow : BOOLEAN]

(* The guards isBusy and sessionID of the app are about its Task: it is    *)
(* busy exactly while a Task runs, and a Task that posts has a session; a  *)
(* card is shown only while a Task reads.                                  *)
BusyIsTheTask ==
    /\ isBusy <=> task # "none"
    /\ task \in {"posting", "reading"} => sessionID # "nil"
    /\ pendingConsent # NoQuestion => task = "reading"
=============================================================================
