------------------------------ MODULE Session ------------------------------
(***************************************************************************)
(* One server session (server/session.py) and the message endpoint that    *)
(* uses it (server/app.py).  Three kinds of threads meet here: the handler *)
(* of a POST /messages request, which claims the session and starts a      *)
(* turn; the worker thread of the turn, which puts its events in a queue;  *)
(* and the response stream, which takes them out.  They share the turn     *)
(* lock, the attribute Session._queue and the queues.                      *)
(*                                                                         *)
(* A request stands for the turn it starts and for the queue made for that *)
(* turn.  A queue is kept as everything ever put in it, with the number of *)
(* items taken, so that the properties can speak of what a stream missed.  *)
(***************************************************************************)
EXTENDS Naturals, Sequences

CONSTANTS
    Requests,       \* the POST /messages requests
    NoRequest,      \* stands for the queue made by Session.__init__
    MaxEvents,      \* bound: events of a turn before its done or error
    SpawnMayFail    \* may Thread.start raise ("can't start new thread")?

ASSUME SessionAssumption ==
    /\ NoRequest \notin Requests
    /\ MaxEvents \in Nat
    /\ SpawnMayFail \in BOOLEAN

VARIABLES
    listed,     \* is the session in SessionManager._sessions?
    locked,     \* Session._turn_lock
    current,    \* Session._queue
    handler,    \* handler[r]: how far post_message has got
    readsFrom,  \* readsFrom[r]: the queue its response drains
    worker,     \* worker[r]: how far _run_turn has got
    writesTo,   \* writesTo[r]: the worker's local q
    events,     \* events[r]: how many events the worker has put
    queue,      \* queue[r]: everything ever put in the queue
    taken,      \* taken[r]: how many of its items were taken
    stream      \* stream[r]: what the response has sent to its client

handlerVars == <<handler, readsFrom>>
workerVars == <<worker, writesTo, events>>
queueVars == <<queue, taken, stream>>
vars == <<listed, locked, current, handlerVars, workerVars, queueVars>>

Queues == Requests \cup {NoRequest}

Event(r, kind) == [from |-> r, kind |-> kind]
Events == [from : Requests, kind : {"event", "done", "error"}]
EndMarks == [from : Requests, kind : {"none"}]

Init ==
    /\ listed = TRUE /\ locked = FALSE /\ current = NoRequest
    /\ handler   = [r \in Requests |-> "idle"]
    /\ readsFrom = [r \in Requests |-> NoRequest]
    /\ worker    = [r \in Requests |-> "none"]
    /\ writesTo  = [r \in Requests |-> NoRequest]
    /\ events    = [r \in Requests |-> 0]
    /\ queue     = [q \in Queues |-> << >>]
    /\ taken     = [q \in Queues |-> 0]
    /\ stream    = [r \in Requests |-> << >>]

-----------------------------------------------------------------------------
(* post_message and Session.start_turn, on a thread of the HTTP server.    *)

Answered == {"unknown", "busy", "failed", "closed", "gone"}

HandlerGoes(r, from, to) ==
    /\ handler[r] = from
    /\ handler' = [handler EXCEPT ![r] = to]

(* The request comes in and SessionManager.get looks the session up. *)
Lookup(r) ==
    /\ HandlerGoes(r, "idle", IF listed THEN "found" ELSE "unknown")
    /\ UNCHANGED <<listed, locked, current, readsFrom, workerVars, queueVars>>

(* Mutant of Acquirable: the result of acquire() is not looked at. *)
AcquirableAlways == TRUE

Acquirable == ~locked

(* acquire(blocking=False) fails: SessionBusyError, 409. *)
Refuse(r) ==
    /\ ~Acquirable
    /\ HandlerGoes(r, "found", "busy")
    /\ UNCHANGED <<listed, locked, current, readsFrom, workerVars, queueVars>>

(* Mutant of NewQueue: the queue of the last turn is used again. *)
NewQueueOnce(r) == IF current = NoRequest THEN r ELSE current

NewQueue(r) == r

(* The lock is taken and the queue replaced; until the worker is there     *)
(* nobody else looks at the queue.                                         *)
Claim(r) ==
    /\ Acquirable
    /\ HandlerGoes(r, "found", "claimed")
    /\ locked' = TRUE
    /\ current' = NewQueue(r)
    /\ UNCHANGED <<listed, readsFrom, workerVars, queueVars>>

(* Thread(...).start(). *)
Spawn(r) ==
    /\ HandlerGoes(r, "claimed", "spawned")
    /\ worker' = [worker EXCEPT ![r] = "started"]
    /\ UNCHANGED <<listed, locked, current, readsFrom, writesTo, events,
                   queueVars>>

(* start() raises: the request is answered with a 500 and that is all. *)
SpawnFails(r) ==
    /\ SpawnMayFail
    /\ HandlerGoes(r, "claimed", "failed")
    /\ UNCHANGED <<listed, locked, current, readsFrom, workerVars, queueVars>>

(* `return self._queue`, read only now. *)
Respond(r) ==
    /\ HandlerGoes(r, "spawned", "streaming")
    /\ readsFrom' = [readsFrom EXCEPT ![r] = current]
    /\ UNCHANGED <<listed, locked, current, workerVars, queueVars>>

-----------------------------------------------------------------------------
(* _run_turn, on the worker thread of r.                                   *)

WorkerGoes(r, from, to) ==
    /\ worker[r] = from
    /\ worker' = [worker EXCEPT ![r] = to]

Put(q, item) == queue' = [queue EXCEPT ![q] = Append(@, item)]

(* `q = self._queue`. *)
Begin(r) ==
    /\ WorkerGoes(r, "started", "running")
    /\ writesTo' = [writesTo EXCEPT ![r] = current]
    /\ UNCHANGED <<listed, locked, current, handlerVars, events, queueVars>>

(* run_turn calls on_text or on_tool_use, which put the event in q, or     *)
(* HttpConsent calls _emit, which puts it in self._queue.                  *)
Emit(r, q) ==
    /\ worker[r] = "running" /\ events[r] < MaxEvents
    /\ Put(q, Event(r, "event"))
    /\ events' = [events EXCEPT ![r] = @ + 1]
    /\ UNCHANGED <<listed, locked, current, handlerVars, worker, writesTo,
                   taken, stream>>

(* run_turn has returned (done) or raised (error). *)
Conclude(r, kind) ==
    /\ WorkerGoes(r, "running", "concluded")
    /\ Put(writesTo[r], Event(r, kind))
    /\ UNCHANGED <<listed, locked, current, handlerVars, writesTo, events,
                   taken, stream>>

(* Mutant of Marked: the sentinel is put after done only, not in finally. *)
MarkedAfterDone(r) ==
    LET log == queue[writesTo[r]] IN
    IF log[Len(log)].kind = "done" THEN Append(log, Event(r, "none")) ELSE log

Marked(r) == Append(queue[writesTo[r]], Event(r, "none"))

(* `q.put(None)`. *)
MarkEnd(r) ==
    /\ WorkerGoes(r, "concluded", "marked")
    /\ queue' = [queue EXCEPT ![writesTo[r]] = Marked(r)]
    /\ UNCHANGED <<listed, locked, current, handlerVars, writesTo, events,
                   taken, stream>>

(* Mutant of LockAfterTurn: no release in the finally clause. *)
LockAfterTurnHeld == locked

LockAfterTurn == FALSE

Release(r) ==
    /\ WorkerGoes(r, "marked", "released")
    /\ locked' = LockAfterTurn
    /\ UNCHANGED <<listed, current, handlerVars, writesTo, events, queueVars>>

-----------------------------------------------------------------------------
(* stream(), in the event loop.                                            *)

HasNext(q) == taken[q] < Len(queue[q])
NextItem(q) == queue[q][taken[q] + 1]

(* Mutants of IsEnd: the sentinel is not looked for; a done event ends the *)
(* stream before it is sent.                                               *)
IsEndNever(item) == FALSE
IsEndAtDone(item) == item.kind \in {"none", "done"}

IsEnd(item) == item.kind = "none"

(* q.get returns: the event is sent, or the stream ends. *)
Deliver(r) ==
    /\ handler[r] = "streaming" /\ HasNext(readsFrom[r])
    /\ taken' = [taken EXCEPT ![readsFrom[r]] = @ + 1]
    /\ LET item == NextItem(readsFrom[r]) IN
       IF IsEnd(item)
       THEN /\ handler' = [handler EXCEPT ![r] = "closed"]
            /\ UNCHANGED stream
       ELSE /\ stream' = [stream EXCEPT ![r] = Append(@, item)]
            /\ UNCHANGED handler
    /\ UNCHANGED <<listed, locked, current, readsFrom, workerVars, queue>>

(* The client goes away.  The thread blocked in q.get cannot be cancelled. *)
Disconnect(r) ==
    /\ HandlerGoes(r, "streaming", "orphan")
    /\ UNCHANGED <<listed, locked, current, readsFrom, workerVars, queueVars>>

(* That thread takes one item more, which nobody is sent. *)
DropOne(r) ==
    /\ HasNext(readsFrom[r])
    /\ HandlerGoes(r, "orphan", "gone")
    /\ taken' = [taken EXCEPT ![readsFrom[r]] = @ + 1]
    /\ UNCHANGED <<listed, locked, current, readsFrom, workerVars, queue, stream>>

-----------------------------------------------------------------------------
(* SessionManager.delete; a turn that is running goes on. *)
Delete ==
    /\ listed
    /\ listed' = FALSE
    /\ UNCHANGED <<locked, current, handlerVars, workerVars, queueVars>>

HandlerStep(r) == Refuse(r) \/ Claim(r) \/ Spawn(r) \/ SpawnFails(r) \/ Respond(r)

WorkerStep(r) ==
    \/ Begin(r)
    \/ \E q \in {writesTo[r], current} : Emit(r, q)
    \/ \E kind \in {"done", "error"} : Conclude(r, kind)
    \/ MarkEnd(r)
    \/ Release(r)

StreamStep(r) == Deliver(r) \/ DropOne(r)

(* Every request was posted and what is left of them waits in q.get. *)
Rest ==
    /\ \A r \in Requests :
          /\ handler[r] \in Answered \cup {"streaming", "orphan"}
          /\ handler[r] \notin Answered => ~HasNext(readsFrom[r])
          /\ worker[r] \in {"none", "released"}
    /\ UNCHANGED vars

Next ==
    \/ \E r \in Requests :
          \/ Lookup(r) \/ Disconnect(r)
          \/ HandlerStep(r) \/ WorkerStep(r) \/ StreamStep(r)
    \/ Delete
    \/ Rest

Spec == Init /\ [][Next]_vars

-----------------------------------------------------------------------------
(* In particular the end mark is never sent to a client. *)
TypeOK ==
    /\ listed \in BOOLEAN /\ locked \in BOOLEAN /\ current \in Queues
    /\ handler \in [Requests -> Answered \cup
            {"idle", "found", "claimed", "spawned", "streaming", "orphan"}]
    /\ readsFrom \in [Requests -> Queues]
    /\ worker \in [Requests -> {"none", "started", "running", "concluded",
                                "marked", "released"}]
    /\ writesTo \in [Requests -> Queues]
    /\ events \in [Requests -> 0..MaxEvents]
    /\ queue \in [Queues -> Seq(Events \cup EndMarks)]
    /\ taken \in [Queues -> Nat]
    /\ stream \in [Requests -> Seq(Events)]

(* The worker of r is alive, or about to be. *)
Working(r) == worker[r] \in {"started", "running", "concluded", "marked"}
HoldsLock(r) == handler[r] = "claimed" \/ Working(r)

(* The agent of a session is not thread-safe: at no time are two turns of  *)
(* it being started or run, however requests, deletes and turns interleave.*)
OneTurnAtATime ==
    \A r, s \in Requests : HoldsLock(r) /\ HoldsLock(s) => r = s

(* The events of a turn, its consent requests included, are put in the     *)
(* queue made for that turn and nowhere else, and the end mark is put      *)
(* last, directly after one done or error.                                 *)
QueueIsOneTurn ==
    /\ queue[NoRequest] = << >>
    /\ \A r \in Requests : \A i \in 1..Len(queue[r]) :
          LET item == queue[r][i] IN
          /\ item.from = r
          /\ item.kind \in {"done", "error"} => i >= Len(queue[r]) - 1
          /\ item.kind = "none" => /\ i = Len(queue[r]) /\ i > 1
                                   /\ queue[r][i - 1].kind \in {"done", "error"}

(* For a client that posts one message at a time: a response that was      *)
(* closed by the server has sent every event of its own turn, in order.    *)
StreamIsItsTurn ==
    \A r \in Requests : handler[r] = "closed" =>
        stream[r] = SubSeq(queue[r], 1, Len(queue[r]) - 1)

(* A session that was claimed is free again later. *)
LockIsFreed == locked ~> ~locked

(* "pushing events into a Queue that the SSE response drains"              *)
(* (server/session.py:4-5): a response sends events of its own turn only.  *)
StreamSendsOwnTurn ==
    \A r \in Requests : \A i \in DOMAIN stream[r] : stream[r][i].from = r

=============================================================================
