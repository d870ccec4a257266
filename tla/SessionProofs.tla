--------------------------- MODULE SessionProofs ---------------------------
(***************************************************************************)
(* Theorems about Session, for every set of requests and every client.     *)
(*                                                                         *)
(* Mutual exclusion needs to know who may hold the lock: a handler between *)
(* acquire() and start(), or the worker it started, never both and never   *)
(* for two requests.  That the queues are pure needs in addition that the  *)
(* attribute Session._queue is the owner's queue as long as it owns.       *)
(*                                                                         *)
(* A response may read the queue of another turn (the run session_mixed    *)
(* shows it), but not while only one message at a time is being posted     *)
(* (OnePosted): then no claim comes before the queue was read (StreamInv). *)
(***************************************************************************)
EXTENDS Session, SequenceTheorems, TLAPS

(* The lock has at most one owner, and Session._queue is the owner's. *)
OwnerIsCurrent ==
    /\ \A r \in Requests : HoldsLock(r) => locked /\ current = r
    /\ current = NoRequest => ~locked

(* A worker exists only once its handler has started it. *)
WorkerAfterSpawn ==
    \A r \in Requests :
        handler[r] \in {"idle", "found", "claimed", "unknown", "busy", "failed"}
            => worker[r] = "none"

(* A worker that has begun writes to the queue of its own request. *)
WritesToOwn ==
    \A r \in Requests :
        worker[r] \in {"running", "concluded", "marked", "released"}
            => writesTo[r] = r

(* What a queue holds, by how far its worker has got: n events, then the   *)
(* conclusion, then the end mark.                                          *)
Starts(r, n) ==
    /\ n \in Nat
    /\ \A i \in 1..n : queue[r][i] = Event(r, "event")
Concludes(r, n) == queue[r][n] \in {Event(r, "done"), Event(r, "error")}

QueueFits(r) ==
    /\ worker[r] \in {"none", "started"} => queue[r] = << >>
    /\ worker[r] = "running" => Starts(r, Len(queue[r]))
    /\ worker[r] = "concluded" =>
          Starts(r, Len(queue[r]) - 1) /\ Concludes(r, Len(queue[r]))
    /\ worker[r] \in {"marked", "released"} =>
          /\ Starts(r, Len(queue[r]) - 2)
          /\ Concludes(r, Len(queue[r]) - 1)
          /\ queue[r][Len(queue[r])] = Event(r, "none")

QueueByWorker == queue[NoRequest] = << >> /\ \A r \in Requests : QueueFits(r)

IInv == /\ TypeOK /\ OwnerIsCurrent /\ WorkerAfterSpawn /\ WritesToOwn
        /\ QueueByWorker

-----------------------------------------------------------------------------
(* Type correctness.                                                       *)

(* The three endings of a queue are items. *)
LEMMA EventTyped ==
  ASSUME NEW r \in Requests,
         NEW kind \in {"event", "done", "error", "none"}
  PROVE  /\ Event(r, kind) \in Events \cup EndMarks
         /\ Event(r, kind).from = r /\ Event(r, kind).kind = kind
  BY DEF Event, Events, EndMarks

(* An item that is not the end mark is an event for the client. *)
LEMMA NotEndIsEvent ==
  ASSUME NEW item \in Events \cup EndMarks, ~IsEnd(item)
  PROVE  item \in Events
  BY DEF IsEnd, Events, EndMarks

(* Putting an item keeps the queues typed. *)
LEMMA PutTyped ==
  ASSUME TypeOK, NEW q \in Queues, NEW item \in Events \cup EndMarks,
         queue' = [queue EXCEPT ![q] = Append(queue[q], item)]
  PROVE  queue' \in [Queues -> Seq(Events \cup EndMarks)]
<1>1. queue \in [Queues -> Seq(Events \cup EndMarks)]
  BY DEF TypeOK
<1>2. Append(queue[q], item) \in Seq(Events \cup EndMarks)
  BY <1>1
<1> QED
  BY <1>1, <1>2

(* Every step keeps the type of every variable. *)
LEMMA NextTypeOK == SessionAssumption /\ TypeOK /\ [Next]_vars => TypeOK'
<1> SUFFICES ASSUME SessionAssumption, TypeOK, [Next]_vars PROVE TypeOK'
  OBVIOUS
<1> USE DEF handlerVars, workerVars, queueVars, HandlerGoes, WorkerGoes
<1>1. ASSUME NEW r \in Requests, Lookup(r) PROVE TypeOK'
  BY <1>1 DEF Lookup, TypeOK, Answered
<1>2. ASSUME NEW r \in Requests, Refuse(r) PROVE TypeOK'
  BY <1>2 DEF Refuse, TypeOK, Answered
<1>3. ASSUME NEW r \in Requests, Claim(r) PROVE TypeOK'
  BY <1>3 DEF Claim, NewQueue, Queues, TypeOK, Answered
<1>4. ASSUME NEW r \in Requests, Spawn(r) PROVE TypeOK'
  BY <1>4 DEF Spawn, TypeOK, Answered
<1>5. ASSUME NEW r \in Requests, SpawnFails(r) PROVE TypeOK'
  BY <1>5 DEF SpawnFails, TypeOK, Answered
<1>6. ASSUME NEW r \in Requests, Respond(r) PROVE TypeOK'
  BY <1>6 DEF Respond, TypeOK, Answered
<1>7. ASSUME NEW r \in Requests, Begin(r) PROVE TypeOK'
  BY <1>7 DEF Begin, TypeOK
<1>8. ASSUME NEW r \in Requests, NEW q \in {writesTo[r], current}, Emit(r, q)
      PROVE  TypeOK'
  <2>1. q \in Queues
    BY DEF TypeOK
  <2>2. queue' \in [Queues -> Seq(Events \cup EndMarks)]
    BY <1>8, <2>1, EventTyped, PutTyped DEF Emit, Put
  <2>3. events' \in [Requests -> 0..MaxEvents]
    BY <1>8 DEF Emit, TypeOK, SessionAssumption
  <2> QED
    BY <1>8, <2>2, <2>3 DEF Emit, TypeOK
<1>9. ASSUME NEW r \in Requests, NEW kind \in {"done", "error"},
             Conclude(r, kind)
      PROVE  TypeOK'
  <2>1. writesTo[r] \in Queues
    BY DEF TypeOK
  <2>2. queue' \in [Queues -> Seq(Events \cup EndMarks)]
    BY <1>9, <2>1, EventTyped, PutTyped DEF Conclude, Put
  <2> QED
    BY <1>9, <2>2 DEF Conclude, TypeOK
<1>10. ASSUME NEW r \in Requests, MarkEnd(r) PROVE TypeOK'
  <2>1. writesTo[r] \in Queues
    BY DEF TypeOK
  <2>2. queue' \in [Queues -> Seq(Events \cup EndMarks)]
    BY <1>10, <2>1, EventTyped, PutTyped DEF MarkEnd, Marked
  <2> QED
    BY <1>10, <2>2 DEF MarkEnd, TypeOK
<1>11. ASSUME NEW r \in Requests, Release(r) PROVE TypeOK'
  BY <1>11 DEF Release, LockAfterTurn, TypeOK
<1>12. ASSUME NEW r \in Requests, Deliver(r) PROVE TypeOK'
  <2>1. readsFrom[r] \in Queues
    BY DEF TypeOK
  <2>2. NextItem(readsFrom[r]) \in Events \cup EndMarks
    BY <1>12, <2>1 DEF Deliver, HasNext, NextItem, TypeOK
  <2>3. taken' \in [Queues -> Nat]
    BY <1>12, <2>1 DEF Deliver, TypeOK
  <2>4. CASE IsEnd(NextItem(readsFrom[r]))
    <3>1. /\ handler' = [handler EXCEPT ![r] = "closed"]
          /\ stream' = stream
      BY <1>12, <2>4 DEF Deliver
    <3> QED
      BY <1>12, <2>3, <3>1 DEF Deliver, TypeOK, Answered
  <2>5. CASE ~IsEnd(NextItem(readsFrom[r]))
    <3>1. NextItem(readsFrom[r]) \in Events
      BY <2>2, <2>5, NotEndIsEvent
    <3>2. /\ handler' = handler
          /\ stream' = [stream EXCEPT
                ![r] = Append(@, NextItem(readsFrom[r]))]
      BY <1>12, <2>5 DEF Deliver
    <3>3. stream' \in [Requests -> Seq(Events)]
      <4> DEFINE item == NextItem(readsFrom[r])
      <4>1. stream \in [Requests -> Seq(Events)]
        BY DEF TypeOK
      <4>2. Append(stream[r], item) \in Seq(Events)
        BY <4>1, <3>1
      <4>3. stream' = [stream EXCEPT ![r] = Append(stream[r], item)]
        BY <3>2
      <4> HIDE DEF item
      <4> QED
        BY <4>1, <4>2, <4>3
    <3> QED
      BY <1>12, <2>3, <3>2, <3>3 DEF Deliver, TypeOK
  <2> QED
    BY <2>4, <2>5
<1>13. ASSUME NEW r \in Requests, Disconnect(r) PROVE TypeOK'
  BY <1>13 DEF Disconnect, TypeOK, Answered
<1>14. ASSUME NEW r \in Requests, DropOne(r) PROVE TypeOK'
  BY <1>14 DEF DropOne, TypeOK, Answered
<1>15. CASE Delete
  BY <1>15 DEF Delete, TypeOK
<1>16. CASE UNCHANGED vars
  BY <1>16 DEF vars, TypeOK
<1> QED
  BY <1>1, <1>2, <1>3, <1>4, <1>5, <1>6, <1>7, <1>8, <1>9, <1>10, <1>11,
     <1>12, <1>13, <1>14, <1>15, <1>16
     DEF Next, HandlerStep, WorkerStep, StreamStep, Rest

(* A fresh session is well typed. *)
LEMMA InitTypeOK == Init => TypeOK
<1> SUFFICES ASSUME Init PROVE TypeOK
  OBVIOUS
<1>1. 0 \in 0..MaxEvents
  BY SessionAssumption DEF SessionAssumption
<1>2. << >> \in Seq(Events \cup EndMarks) /\ << >> \in Seq(Events)
  OBVIOUS
<1>3. NoRequest \in Queues
  BY DEF Queues
<1>4. /\ queue \in [Queues -> Seq(Events \cup EndMarks)]
      /\ stream \in [Requests -> Seq(Events)]
  BY <1>2 DEF Init
<1>5. /\ events \in [Requests -> 0..MaxEvents]
      /\ taken \in [Queues -> Nat]
  BY <1>1 DEF Init
<1> QED
  BY <1>3, <1>4, <1>5 DEF Init, TypeOK, Answered

(* Every variable of a session keeps its type, and no client is ever sent  *)
(* the end mark.                                                           *)
THEOREM SpecTypeOK == Spec => []TypeOK
<1>1. Init => TypeOK
  BY InitTypeOK
<1>2. TypeOK /\ [Next]_vars => TypeOK'
  BY SessionAssumption, NextTypeOK
<1> QED
  BY <1>1, <1>2, PTL DEF Spec

-----------------------------------------------------------------------------
(* The inductive invariant.                                                *)

(* A fresh session satisfies it. *)
LEMMA InitIInv == SessionAssumption /\ Init => IInv
<1> SUFFICES ASSUME SessionAssumption, Init PROVE IInv
  OBVIOUS
<1>1. TypeOK
  <2>1. Init => TypeOK
    BY InitTypeOK
  <2> QED
    BY <2>1
<1>2. OwnerIsCurrent /\ WorkerAfterSpawn /\ WritesToOwn
  BY DEF Init, OwnerIsCurrent, WorkerAfterSpawn, WritesToOwn, HoldsLock, Working
<1>3. QueueByWorker
  BY DEF Init, QueueByWorker, QueueFits, Queues
<1> QED
  BY <1>1, <1>2, <1>3 DEF IInv

(* The lock's owner, the workers' handlers and the workers' queues. *)
LEMMA NextOwner ==
  ASSUME SessionAssumption, IInv, [Next]_vars
  PROVE  OwnerIsCurrent' /\ WorkerAfterSpawn' /\ WritesToOwn'
<1> USE DEF handlerVars, workerVars, queueVars, HandlerGoes, WorkerGoes,
            IInv, TypeOK, OwnerIsCurrent, WorkerAfterSpawn, WritesToOwn,
            HoldsLock, Working
<1>1. ASSUME NEW r \in Requests, Lookup(r)
      PROVE  OwnerIsCurrent' /\ WorkerAfterSpawn' /\ WritesToOwn'
  BY <1>1 DEF Lookup
<1>2. ASSUME NEW r \in Requests, Refuse(r)
      PROVE  OwnerIsCurrent' /\ WorkerAfterSpawn' /\ WritesToOwn'
  BY <1>2 DEF Refuse
<1>3. ASSUME NEW r \in Requests, Claim(r)
      PROVE  OwnerIsCurrent' /\ WorkerAfterSpawn' /\ WritesToOwn'
  BY <1>3 DEF Claim, Acquirable, NewQueue, SessionAssumption
<1>4. ASSUME NEW r \in Requests, Spawn(r)
      PROVE  OwnerIsCurrent' /\ WorkerAfterSpawn' /\ WritesToOwn'
  BY <1>4 DEF Spawn
<1>5. ASSUME NEW r \in Requests, SpawnFails(r)
      PROVE  OwnerIsCurrent' /\ WorkerAfterSpawn' /\ WritesToOwn'
  BY <1>5 DEF SpawnFails
<1>6. ASSUME NEW r \in Requests, Respond(r)
      PROVE  OwnerIsCurrent' /\ WorkerAfterSpawn' /\ WritesToOwn'
  BY <1>6 DEF Respond
<1>7. ASSUME NEW r \in Requests, Begin(r)
      PROVE  OwnerIsCurrent' /\ WorkerAfterSpawn' /\ WritesToOwn'
  BY <1>7 DEF Begin
<1>8. ASSUME NEW r \in Requests, NEW q \in Queues, Emit(r, q)
      PROVE  OwnerIsCurrent' /\ WorkerAfterSpawn' /\ WritesToOwn'
  BY <1>8 DEF Emit
<1>9. ASSUME NEW r \in Requests, NEW kind, Conclude(r, kind)
      PROVE  OwnerIsCurrent' /\ WorkerAfterSpawn' /\ WritesToOwn'
  BY <1>9 DEF Conclude
<1>10. ASSUME NEW r \in Requests, MarkEnd(r)
       PROVE  OwnerIsCurrent' /\ WorkerAfterSpawn' /\ WritesToOwn'
  BY <1>10 DEF MarkEnd
<1>11. ASSUME NEW r \in Requests, Release(r)
       PROVE  OwnerIsCurrent' /\ WorkerAfterSpawn' /\ WritesToOwn'
  BY <1>11 DEF Release, LockAfterTurn
<1>12. ASSUME NEW r \in Requests, Deliver(r) \/ Disconnect(r) \/ DropOne(r)
       PROVE  OwnerIsCurrent' /\ WorkerAfterSpawn' /\ WritesToOwn'
  <2>1. /\ handler[r] \in {"streaming", "orphan"}
        /\ \/ handler' = handler
           \/ \E to \in {"closed", "orphan", "gone"} :
                 handler' = [handler EXCEPT ![r] = to]
        /\ UNCHANGED <<locked, current, worker, writesTo>>
    BY <1>12 DEF Deliver, Disconnect, DropOne
  <2> QED
    BY <2>1
<1>13. CASE Delete \/ UNCHANGED vars
  BY <1>13 DEF Delete, vars
<1>14. \A r \in Requests : {writesTo[r], current} \subseteq Queues
  BY DEF Queues
<1> QED
  BY <1>1, <1>2, <1>3, <1>4, <1>5, <1>6, <1>7, <1>8, <1>9, <1>10, <1>11,
     <1>12, <1>13, <1>14 DEF Next, HandlerStep, WorkerStep, StreamStep, Rest

(* Where a step of a worker may put an item: the queue of its request. *)
LEMMA OwnQueue ==
  ASSUME IInv, NEW r \in Requests, worker[r] \in {"running", "concluded"}
  PROVE  /\ writesTo[r] = r /\ current = r
         /\ r \in Queues /\ queue[r] \in Seq(Events \cup EndMarks)
  BY DEF IInv, TypeOK, OwnerIsCurrent, WritesToOwn, HoldsLock, Working, Queues

(* Appending an item moves no other. *)
LEMMA AppendKeeps ==
  ASSUME SessionAssumption, IInv, NEW r \in Requests,
         NEW item \in Events \cup EndMarks, queue[r] \in Seq(Events \cup EndMarks),
         queue' = [queue EXCEPT ![r] = Append(@, item)]
  PROVE  /\ queue'[NoRequest] = queue[NoRequest]
         /\ \A s \in Requests \ {r} : queue'[s] = queue[s]
         /\ Len(queue[r]) \in Nat
         /\ Len(queue'[r]) = Len(queue[r]) + 1
         /\ \A i \in 1..Len(queue[r]) : queue'[r][i] = queue[r][i]
         /\ queue'[r][Len(queue[r]) + 1] = item
<1>1. queue'[r] = Append(queue[r], item)
  BY DEF IInv, TypeOK, Queues
<1>2. \A q \in Queues \ {r} : queue'[q] = queue[q]
  BY DEF IInv, TypeOK
<1>3. NoRequest \in Queues \ {r} /\ Requests \subseteq Queues
  BY DEF Queues, SessionAssumption
<1> QED
  BY <1>1, <1>2, <1>3

(* A step of one worker touches no other queue. *)
LEMMA OthersFit ==
  ASSUME IInv, NEW r \in Requests, QueueFits(r)',
         queue'[NoRequest] = queue[NoRequest],
         \A s \in Requests \ {r} :
            queue'[s] = queue[s] /\ worker'[s] = worker[s]
  PROVE  QueueByWorker'
  BY DEF IInv, QueueByWorker, QueueFits, Starts, Concludes

(* The contents of the queues follow the workers. *)
LEMMA NextQueue ==
  ASSUME SessionAssumption, IInv, [Next]_vars
  PROVE  QueueByWorker'
<1> USE DEF handlerVars, workerVars, queueVars
<1>0. worker \in [Requests -> {"none", "started", "running", "concluded",
                                "marked", "released"}]
  BY DEF IInv, TypeOK
<1>1. CASE UNCHANGED <<worker, queue>>
  BY <1>1 DEF IInv, QueueByWorker, QueueFits, Starts, Concludes
<1>2. ASSUME NEW r \in Requests, Spawn(r) PROVE QueueByWorker'
  <2>1. /\ worker[r] = "none" /\ queue' = queue
        /\ worker' = [worker EXCEPT ![r] = "started"]
    BY <1>2 DEF Spawn, HandlerGoes, IInv, WorkerAfterSpawn
  <2>2. QueueFits(r)'
    BY <1>0, <2>1 DEF IInv, QueueByWorker, QueueFits
  <2> QED
    BY <1>0, <2>1, <2>2, OthersFit
<1>3. ASSUME NEW r \in Requests, Begin(r) PROVE QueueByWorker'
  <2>1. /\ worker[r] = "started" /\ queue' = queue
        /\ worker' = [worker EXCEPT ![r] = "running"]
    BY <1>3 DEF Begin, WorkerGoes
  <2>2. queue[r] = << >>
    BY <2>1 DEF IInv, QueueByWorker, QueueFits
  <2>3. QueueFits(r)'
    BY <1>0, <2>1, <2>2 DEF QueueFits, Starts
  <2> QED
    BY <1>0, <2>1, <2>3, OthersFit
<1>4. ASSUME NEW r \in Requests, Release(r) PROVE QueueByWorker'
  <2>1. /\ worker[r] = "marked" /\ queue' = queue
        /\ worker' = [worker EXCEPT ![r] = "released"]
    BY <1>4 DEF Release, WorkerGoes
  <2>2. QueueFits(r)'
    BY <1>0, <2>1 DEF IInv, QueueByWorker, QueueFits, Starts, Concludes
  <2> QED
    BY <1>0, <2>1, <2>2, OthersFit
<1>5. ASSUME NEW r \in Requests, NEW q \in {writesTo[r], current}, Emit(r, q)
      PROVE  QueueByWorker'
  <2>1. worker[r] = "running" /\ worker' = worker
    BY <1>5 DEF Emit
  <2>2. q = r /\ queue[r] \in Seq(Events \cup EndMarks)
    BY <2>1, OwnQueue
  <2>3. queue' = [queue EXCEPT ![r] = Append(@, Event(r, "event"))]
    BY <1>5, <2>2 DEF Emit, Put
  <2>4. Event(r, "event") \in Events \cup EndMarks
    BY EventTyped
  <2>5. Starts(r, Len(queue[r]))
    BY <2>1 DEF IInv, QueueByWorker, QueueFits
  <2>6. Starts(r, Len(queue[r]))'
    BY <2>2, <2>3, <2>4, <2>5, AppendKeeps DEF Starts
  <2>7. /\ queue'[NoRequest] = queue[NoRequest]
        /\ \A s \in Requests \ {r} : queue'[s] = queue[s]
    BY <2>2, <2>3, <2>4, AppendKeeps
  <2>8. QueueFits(r)'
    BY <2>1, <2>6 DEF QueueFits
  <2> QED
    BY <2>1, <2>7, <2>8, OthersFit
<1>6. ASSUME NEW r \in Requests, NEW kind \in {"done", "error"},
             Conclude(r, kind)
      PROVE  QueueByWorker'
  <2>1. worker[r] = "running" /\ worker' = [worker EXCEPT ![r] = "concluded"]
    BY <1>6 DEF Conclude, WorkerGoes
  <2>2. writesTo[r] = r /\ queue[r] \in Seq(Events \cup EndMarks)
    BY <2>1, OwnQueue
  <2>3. queue' = [queue EXCEPT ![r] = Append(@, Event(r, kind))]
    BY <1>6, <2>2 DEF Conclude, Put
  <2>4. Event(r, kind) \in Events \cup EndMarks
    BY EventTyped
  <2>5. Starts(r, Len(queue[r]))
    BY <2>1 DEF IInv, QueueByWorker, QueueFits
  <2>6. /\ Len(queue[r]) \in Nat
        /\ Len(queue'[r]) = Len(queue[r]) + 1
        /\ \A i \in 1..Len(queue[r]) : queue'[r][i] = queue[r][i]
        /\ queue'[r][Len(queue[r]) + 1] = Event(r, kind)
    BY <2>2, <2>3, <2>4, AppendKeeps
  <2>7. Starts(r, Len(queue[r]) - 1)'
    BY <2>5, <2>6 DEF Starts
  <2>8. Concludes(r, Len(queue[r]))'
    BY <2>6 DEF Concludes
  <2>9. /\ queue'[NoRequest] = queue[NoRequest]
        /\ \A s \in Requests \ {r} : queue'[s] = queue[s]
    BY <2>2, <2>3, <2>4, AppendKeeps
  <2>10. QueueFits(r)'
    BY <1>0, <2>1, <2>7, <2>8 DEF QueueFits
  <2> QED
    BY <1>0, <2>1, <2>9, <2>10, OthersFit
<1>7. ASSUME NEW r \in Requests, MarkEnd(r) PROVE QueueByWorker'
  <2>1. worker[r] = "concluded" /\ worker' = [worker EXCEPT ![r] = "marked"]
    BY <1>7 DEF MarkEnd, WorkerGoes
  <2>2. writesTo[r] = r /\ queue[r] \in Seq(Events \cup EndMarks)
    BY <2>1, OwnQueue
  <2>3. queue' = [queue EXCEPT ![r] = Append(@, Event(r, "none"))]
    BY <1>7, <2>2 DEF MarkEnd, Marked
  <2>4. Event(r, "none") \in Events \cup EndMarks
    BY EventTyped
  <2>5. Starts(r, Len(queue[r]) - 1) /\ Concludes(r, Len(queue[r]))
    BY <2>1 DEF IInv, QueueByWorker, QueueFits
  <2>6. /\ Len(queue[r]) \in Nat
        /\ Len(queue'[r]) = Len(queue[r]) + 1
        /\ \A i \in 1..Len(queue[r]) : queue'[r][i] = queue[r][i]
        /\ queue'[r][Len(queue[r]) + 1] = Event(r, "none")
    BY <2>2, <2>3, <2>4, AppendKeeps
  <2>7. Len(queue[r]) \in 1..Len(queue[r])
    BY <2>5, <2>6 DEF Starts
  <2>8. Starts(r, Len(queue[r]) - 2)' /\ Concludes(r, Len(queue[r]) - 1)'
    BY <2>5, <2>6, <2>7 DEF Starts, Concludes
  <2>9. queue'[r][Len(queue'[r])] = Event(r, "none")
    BY <2>6
  <2>10. /\ queue'[NoRequest] = queue[NoRequest]
         /\ \A s \in Requests \ {r} : queue'[s] = queue[s]
    BY <2>2, <2>3, <2>4, AppendKeeps
  <2>11. QueueFits(r)'
    BY <1>0, <2>1, <2>8, <2>9 DEF QueueFits
  <2> QED
    BY <1>0, <2>1, <2>10, <2>11, OthersFit
<1>8. ASSUME NEW r \in Requests,
             \/ Lookup(r) \/ Refuse(r) \/ Claim(r) \/ SpawnFails(r)
             \/ Respond(r) \/ Deliver(r) \/ Disconnect(r) \/ DropOne(r)
      PROVE  UNCHANGED <<worker, queue>>
  BY <1>8 DEF Lookup, Refuse, Claim, SpawnFails, Respond, Deliver, Disconnect,
              DropOne
<1>9. ASSUME Delete \/ UNCHANGED vars PROVE UNCHANGED <<worker, queue>>
  BY <1>9 DEF Delete, vars
<1> QED
  BY <1>1, <1>2, <1>3, <1>4, <1>5, <1>6, <1>7, <1>8, <1>9
     DEF Next, HandlerStep, WorkerStep, StreamStep, Rest

(* The inductive invariant holds in every state of a session. *)
THEOREM SpecIInv == Spec => []IInv
<1>1. IInv /\ [Next]_vars => IInv'
  BY SessionAssumption, NextTypeOK, NextOwner, NextQueue DEF IInv
<1>2. Init => IInv
  BY SessionAssumption, InitIInv
<1> QED
  BY <1>1, <1>2, PTL DEF Spec

(* At no time are two turns of a session being started or run: the turn    *)
(* lock, from start_turn's acquire to _run_turn's release.                 *)
THEOREM SpecOneTurnAtATime == Spec => []OneTurnAtATime
<1>1. IInv => OneTurnAtATime
  BY DEF IInv, OwnerIsCurrent, OneTurnAtATime
<1> QED
  BY <1>1, SpecIInv, PTL

(* The queues as the invariant describes them are those of one turn each. *)
LEMMA IInvOneTurn == IInv => QueueIsOneTurn
<1> SUFFICES ASSUME IInv PROVE QueueIsOneTurn
  OBVIOUS
<1>1. queue[NoRequest] = << >>
  BY DEF IInv, QueueByWorker
<1>2. ASSUME NEW r \in Requests, NEW i \in 1..Len(queue[r])
      PROVE  /\ queue[r][i].from = r
             /\ queue[r][i].kind \in {"done", "error"}
                    => i >= Len(queue[r]) - 1
             /\ queue[r][i].kind = "none" =>
                    /\ i = Len(queue[r]) /\ i > 1
                    /\ queue[r][i - 1].kind \in {"done", "error"}
  <2>1. Len(queue[r]) \in Nat
    BY DEF IInv, TypeOK, Queues
  <2>2. \/ Starts(r, Len(queue[r]))
        \/ Starts(r, Len(queue[r]) - 1) /\ Concludes(r, Len(queue[r]))
        \/ /\ Starts(r, Len(queue[r]) - 2)
           /\ Concludes(r, Len(queue[r]) - 1)
           /\ queue[r][Len(queue[r])] = Event(r, "none")
    BY <1>2, <2>1 DEF IInv, TypeOK, QueueByWorker, QueueFits
  <2>3. \A kind \in {"event", "done", "error", "none"} :
           Event(r, kind).from = r /\ Event(r, kind).kind = kind
    BY EventTyped
  <2>4. CASE Starts(r, Len(queue[r]))
    BY <2>1, <2>3, <2>4 DEF Starts
  <2>5. CASE Starts(r, Len(queue[r]) - 1) /\ Concludes(r, Len(queue[r]))
    BY <2>1, <2>3, <2>5 DEF Starts, Concludes
  <2>6. CASE /\ Starts(r, Len(queue[r]) - 2)
             /\ Concludes(r, Len(queue[r]) - 1)
             /\ queue[r][Len(queue[r])] = Event(r, "none")
    <3>1. CASE i <= Len(queue[r]) - 2
      BY <2>1, <2>3, <2>6, <3>1 DEF Starts
    <3>2. CASE i = Len(queue[r]) - 1
      BY <2>1, <2>3, <2>6, <3>2 DEF Concludes
    <3>3. CASE i = Len(queue[r])
      BY <2>1, <2>3, <2>6, <3>3 DEF Starts, Concludes
    <3> QED
      BY <2>1, <3>1, <3>2, <3>3
  <2> QED
    BY <2>2, <2>4, <2>5, <2>6
<1> QED
  BY <1>1, <1>2 DEF QueueIsOneTurn

(* The queue made for a turn gets the events of that turn, all of them,    *)
(* and nothing after its end mark.                                         *)
THEOREM SpecQueueIsOneTurn == Spec => []QueueIsOneTurn
  BY SpecIInv, IInvOneTurn, PTL

-----------------------------------------------------------------------------
(* The streams of a client that posts one message at a time.               *)

(* No two messages are being posted at once: the client posts the next one *)
(* when it knows what became of the last.                                  *)
OnePosted ==
    \A r, s \in Requests :
        /\ handler[r] \in {"found", "claimed", "spawned"}
        /\ handler[s] \in {"found", "claimed", "spawned"}
        => r = s

(* Then `return self._queue` returns the queue of its own turn. *)
ReadsOwn ==
    \A r \in Requests :
        /\ handler[r] \in {"claimed", "spawned"} => current = r
        /\ handler[r] \in {"streaming", "orphan", "gone", "closed"} =>
              readsFrom[r] = r

(* The first n items of the queue of r are what its client was sent. *)
Sent(r, n) ==
    /\ Len(stream[r]) = n
    /\ n <= Len(queue[r])
    /\ \A i \in 1..n : stream[r][i] = queue[r][i]

(* A stream that is open has sent what it took, one that was closed all    *)
(* there was but the end mark.                                             *)
Fits(r) ==
    /\ handler[r] \in {"idle", "found", "claimed", "spawned"} =>
          stream[r] = << >> /\ taken[r] = 0
    /\ handler[r] = "streaming" => Sent(r, taken[r])
    /\ handler[r] = "closed" =>
          /\ worker[r] \in {"marked", "released"}
          /\ Sent(r, Len(queue[r]) - 1)

StreamFits == \A r \in Requests : Fits(r)

StreamInv == ReadsOwn /\ StreamFits

(* A step puts items at the end of a queue, and none after the end mark. *)
LEMMA QueuesGrow ==
  ASSUME SessionAssumption, IInv, [Next]_vars, NEW r \in Requests
  PROVE  /\ Len(queue[r]) \in Nat /\ Len(queue'[r]) \in Nat
         /\ Len(queue[r]) <= Len(queue'[r])
         /\ \A i \in 1..Len(queue[r]) : queue'[r][i] = queue[r][i]
         /\ worker[r] \in {"marked", "released"} =>
               worker'[r] \in {"marked", "released"} /\ queue'[r] = queue[r]
<1> DEFINE Grows == /\ Len(queue[r]) \in Nat /\ Len(queue'[r]) \in Nat
                    /\ Len(queue[r]) <= Len(queue'[r])
                    /\ \A i \in 1..Len(queue[r]) : queue'[r][i] = queue[r][i]
                    /\ worker[r] \in {"marked", "released"} =>
                          /\ worker'[r] \in {"marked", "released"}
                          /\ queue'[r] = queue[r]
<1> USE DEF handlerVars, workerVars, queueVars
<1>0. /\ worker \in [Requests -> {"none", "started", "running", "concluded",
                                  "marked", "released"}]
      /\ Len(queue[r]) \in Nat
  BY DEF IInv, TypeOK, Queues
<1>1. ASSUME queue' = queue, worker[r] \in {"marked", "released"} =>
                                worker'[r] \in {"marked", "released"}
      PROVE  Grows
  BY <1>0, <1>1
<1>2. ASSUME NEW s \in Requests, NEW item \in Events \cup EndMarks,
             worker[s] \in {"running", "concluded"},
             queue' = [queue EXCEPT ![s] = Append(@, item)],
             \A x \in Requests \ {s} : worker'[x] = worker[x]
      PROVE  Grows
  <2>1. queue[s] \in Seq(Events \cup EndMarks)
    BY <1>2, OwnQueue
  <2>2. CASE s = r
    BY <1>0, <1>2, <2>1, <2>2, AppendKeeps
  <2>3. CASE s # r
    <3>1. queue'[r] = queue[r]
      BY <1>2, <2>1, <2>3, AppendKeeps
    <3> QED
      BY <1>0, <1>2, <2>3, <3>1
  <2> QED
    BY <2>2, <2>3
<1>3. ASSUME NEW s \in Requests,
             Spawn(s) \/ Begin(s) \/ Release(s)
      PROVE  Grows
  <2>1. /\ queue' = queue
        /\ \E to \in {"started", "running", "released"} :
              worker' = [worker EXCEPT ![s] = to]
        /\ worker[s] \in {"none", "started"} \/ worker' = [worker EXCEPT ![s] = "released"]
    BY <1>3 DEF Spawn, Begin, Release, WorkerGoes, HandlerGoes, IInv,
                WorkerAfterSpawn
  <2>2. worker[r] \in {"marked", "released"} =>
           worker'[r] \in {"marked", "released"}
    BY <1>0, <2>1
  <2> QED
    BY <1>1, <2>1, <2>2
<1>4. ASSUME NEW s \in Requests, NEW q \in {writesTo[s], current}, Emit(s, q)
      PROVE  Grows
  <2>1. worker[s] = "running" /\ worker' = worker
    BY <1>4 DEF Emit
  <2>2. q = s
    BY <2>1, OwnQueue
  <2>3. queue' = [queue EXCEPT ![s] = Append(@, Event(s, "event"))]
    BY <1>4, <2>2 DEF Emit, Put
  <2>4. Event(s, "event") \in Events \cup EndMarks
    BY EventTyped
  <2> QED
    BY <1>2, <2>1, <2>3, <2>4
<1>5. ASSUME NEW s \in Requests, NEW kind \in {"done", "error"},
             Conclude(s, kind)
      PROVE  Grows
  <2>1. worker[s] = "running" /\ worker' = [worker EXCEPT ![s] = "concluded"]
    BY <1>5 DEF Conclude, WorkerGoes
  <2>2. writesTo[s] = s
    BY <2>1, OwnQueue
  <2>3. queue' = [queue EXCEPT ![s] = Append(@, Event(s, kind))]
    BY <1>5, <2>2 DEF Conclude, Put
  <2>4. Event(s, kind) \in Events \cup EndMarks
    BY EventTyped
  <2>5. \A x \in Requests \ {s} : worker'[x] = worker[x]
    BY <1>0, <2>1
  <2> QED
    BY <1>2, <2>1, <2>3, <2>4, <2>5
<1>6. ASSUME NEW s \in Requests, MarkEnd(s) PROVE Grows
  <2>1. worker[s] = "concluded" /\ worker' = [worker EXCEPT ![s] = "marked"]
    BY <1>6 DEF MarkEnd, WorkerGoes
  <2>2. writesTo[s] = s
    BY <2>1, OwnQueue
  <2>3. queue' = [queue EXCEPT ![s] = Append(@, Event(s, "none"))]
    BY <1>6, <2>2 DEF MarkEnd, Marked
  <2>4. Event(s, "none") \in Events \cup EndMarks
    BY EventTyped
  <2>5. \A x \in Requests \ {s} : worker'[x] = worker[x]
    BY <1>0, <2>1
  <2> QED
    BY <1>2, <2>1, <2>3, <2>4, <2>5
<1>7. ASSUME NEW s \in Requests,
             \/ Lookup(s) \/ Refuse(s) \/ Claim(s) \/ SpawnFails(s)
             \/ Respond(s) \/ Deliver(s) \/ Disconnect(s) \/ DropOne(s)
      PROVE  Grows
  <2>1. UNCHANGED <<worker, queue>>
    BY <1>7 DEF Lookup, Refuse, Claim, SpawnFails, Respond, Deliver,
                Disconnect, DropOne
  <2> QED
    BY <1>1, <2>1
<1>8. CASE Delete \/ UNCHANGED vars
  <2>1. UNCHANGED <<worker, queue>>
    BY <1>8 DEF Delete, vars
  <2> QED
    BY <1>1, <2>1
<1> QED
  BY <1>3, <1>4, <1>5, <1>6, <1>7, <1>8
     DEF Next, HandlerStep, WorkerStep, StreamStep, Rest

(* A response drains the queue of its own turn. *)
LEMMA NextReadsOwn ==
  ASSUME SessionAssumption, IInv, OnePosted, ReadsOwn, [Next]_vars
  PROVE  ReadsOwn'
<1> USE DEF handlerVars, workerVars, queueVars, HandlerGoes, ReadsOwn
<1>0. /\ handler \in [Requests -> Answered \cup
               {"idle", "found", "claimed", "spawned", "streaming", "orphan"}]
      /\ readsFrom \in [Requests -> Queues]
  BY DEF IInv, TypeOK
<1>1. ASSUME NEW r \in Requests, Claim(r) PROVE ReadsOwn'
  <2>1. /\ handler[r] = "found" /\ handler' = [handler EXCEPT ![r] = "claimed"]
        /\ current' = r /\ readsFrom' = readsFrom
    BY <1>1 DEF Claim, NewQueue
  <2>2. \A s \in Requests \ {r} :
           handler'[s] = handler[s] /\ handler[s] \notin {"claimed", "spawned"}
    BY <1>0, <2>1 DEF OnePosted
  <2> QED
    BY <1>0, <2>1, <2>2
<1>2. ASSUME NEW r \in Requests, Respond(r) PROVE ReadsOwn'
  BY <1>0, <1>2 DEF Respond
<1>3. ASSUME NEW r \in Requests,
             Lookup(r) \/ Refuse(r) \/ SpawnFails(r) \/ Spawn(r)
      PROVE  ReadsOwn'
  BY <1>0, <1>3 DEF Lookup, Refuse, SpawnFails, Spawn
<1>4. ASSUME NEW r \in Requests, Deliver(r) \/ Disconnect(r) \/ DropOne(r)
      PROVE  ReadsOwn'
  <2>1. /\ handler[r] \in {"streaming", "orphan"}
        /\ \/ handler' = handler
           \/ \E to \in {"closed", "orphan", "gone"} :
                 handler' = [handler EXCEPT ![r] = to]
        /\ UNCHANGED <<current, readsFrom>>
    BY <1>4 DEF Deliver, Disconnect, DropOne
  <2> QED
    BY <1>0, <2>1
<1>5. ASSUME NEW r \in Requests, WorkerStep(r) PROVE ReadsOwn'
  BY <1>5 DEF WorkerStep, Begin, Emit, Conclude, MarkEnd, Release
<1>6. CASE Delete \/ UNCHANGED vars
  BY <1>6 DEF Delete, vars
<1> QED
  BY <1>1, <1>2, <1>3, <1>4, <1>5, <1>6 DEF Next, HandlerStep, StreamStep, Rest

(* Only a worker that is through has put an end mark, and nothing after it. *)
LEMMA EndMarkIsLast ==
  ASSUME IInv, NEW r \in Requests, NEW i \in 1..Len(queue[r]),
         queue[r][i].kind = "none"
  PROVE  i = Len(queue[r]) /\ worker[r] \in {"marked", "released"}
<1>1. /\ Len(queue[r]) \in Nat
      /\ worker[r] \in {"none", "started", "running", "concluded", "marked",
                        "released"}
  BY DEF IInv, TypeOK, Queues
<1>2. \A kind \in {"event", "done", "error", "none"} :
         Event(r, kind).kind = kind
  BY EventTyped
<1>3. QueueFits(r)
  BY DEF IInv, QueueByWorker
<1>4. CASE worker[r] \in {"none", "started"}
  BY <1>1, <1>3, <1>4 DEF QueueFits
<1>5. CASE worker[r] = "running"
  BY <1>1, <1>2, <1>3, <1>5 DEF QueueFits, Starts
<1>6. CASE worker[r] = "concluded"
  <2>1. CASE i <= Len(queue[r]) - 1
    BY <1>1, <1>2, <1>3, <1>6, <2>1 DEF QueueFits, Starts
  <2>2. CASE i = Len(queue[r])
    BY <1>2, <1>3, <1>6, <2>2 DEF QueueFits, Concludes
  <2> QED
    BY <1>1, <2>1, <2>2
<1>7. CASE worker[r] \in {"marked", "released"}
  <2>1. CASE i <= Len(queue[r]) - 2
    BY <1>1, <1>2, <1>3, <1>7, <2>1 DEF QueueFits, Starts
  <2>2. CASE i = Len(queue[r]) - 1
    BY <1>2, <1>3, <1>7, <2>2 DEF QueueFits, Concludes
  <2> QED
    BY <1>1, <1>7, <2>1, <2>2
<1> QED
  BY <1>1, <1>4, <1>5, <1>6, <1>7

(* A request whose stream a step leaves alone still fits its queue. *)
LEMMA FitsStays ==
  ASSUME SessionAssumption, IInv, [Next]_vars, NEW r \in Requests, Fits(r),
         UNCHANGED <<handler[r], taken[r], stream[r]>>
  PROVE  Fits(r)'
<1>1. /\ taken[r] \in Nat
      /\ Len(queue[r]) \in Nat /\ Len(queue'[r]) \in Nat
      /\ Len(queue[r]) <= Len(queue'[r])
      /\ \A i \in 1..Len(queue[r]) : queue'[r][i] = queue[r][i]
      /\ worker[r] \in {"marked", "released"} =>
            worker'[r] \in {"marked", "released"} /\ queue'[r] = queue[r]
  BY QueuesGrow DEF IInv, TypeOK, Queues
<1>2. CASE handler[r] = "streaming"
  BY <1>1, <1>2 DEF Fits, Sent
<1>3. CASE handler[r] # "streaming"
  BY <1>1, <1>3 DEF Fits, Sent
<1> QED
  BY <1>2, <1>3

(* The open streams follow their queues, the closed ones have it all. *)
LEMMA NextStreamFits ==
  ASSUME SessionAssumption, IInv, ReadsOwn, StreamFits, [Next]_vars
  PROVE  StreamFits'
<1> USE DEF handlerVars, workerVars, queueVars, HandlerGoes
<1>0. /\ handler \in [Requests -> Answered \cup
               {"idle", "found", "claimed", "spawned", "streaming", "orphan"}]
      /\ queue \in [Queues -> Seq(Events \cup EndMarks)]
      /\ taken \in [Queues -> Nat]
      /\ stream \in [Requests -> Seq(Events)]
      /\ Requests \subseteq Queues
  BY DEF IInv, TypeOK, Queues
<1>1. CASE UNCHANGED <<handler, taken, stream>>
  BY <1>1, FitsStays DEF StreamFits
<1>2. ASSUME NEW r \in Requests, Fits(r)',
             \A s \in Requests \ {r} : UNCHANGED <<handler[s], taken[s], stream[s]>>
      PROVE  StreamFits'
  BY <1>2, FitsStays DEF StreamFits
<1>3. ASSUME NEW r \in Requests,
             Lookup(r) \/ Claim(r) \/ Refuse(r) \/ SpawnFails(r) \/ Spawn(r)
      PROVE  StreamFits'
  <2>1. /\ handler[r] \in {"idle", "found", "claimed"}
        /\ \E to \in {"found", "unknown", "claimed", "busy", "failed", "spawned"} :
              handler' = [handler EXCEPT ![r] = to]
        /\ UNCHANGED <<taken, stream>>
    BY <1>3 DEF Lookup, Claim, Refuse, SpawnFails, Spawn
  <2>2. Fits(r)'
    BY <1>0, <2>1 DEF Fits, StreamFits
  <2> QED
    BY <1>0, <1>2, <2>1, <2>2
<1>4. ASSUME NEW r \in Requests, Respond(r) PROVE StreamFits'
  <2>1. /\ handler[r] = "spawned" /\ handler' = [handler EXCEPT ![r] = "streaming"]
        /\ UNCHANGED <<queue, taken, stream>>
    BY <1>4 DEF Respond
  <2>2. stream[r] = << >> /\ taken[r] = 0
    BY <2>1 DEF StreamFits, Fits
  <2>3. Len(stream[r]) = 0 /\ Len(queue[r]) \in Nat
    BY <1>0, <2>2
  <2>4. Sent(r, taken[r])'
    BY <2>1, <2>2, <2>3 DEF Sent
  <2>5. Fits(r)'
    BY <1>0, <2>1, <2>4 DEF Fits
  <2> QED
    BY <1>0, <1>2, <2>1, <2>5
<1>5. ASSUME NEW r \in Requests, Deliver(r) PROVE StreamFits'
  <2> DEFINE n == taken[r]
  <2>1. handler[r] = "streaming" /\ readsFrom[r] = r /\ n \in Nat
    BY <1>0, <1>5 DEF Deliver, ReadsOwn
  <2>2. /\ Sent(r, n) /\ n < Len(queue[r]) /\ Len(queue[r]) \in Nat
    BY <1>0, <1>5, <2>1 DEF Deliver, HasNext, StreamFits, Fits
  <2>3. /\ taken' = [taken EXCEPT ![r] = n + 1]
        /\ queue' = queue /\ worker' = worker
    BY <1>5, <2>1 DEF Deliver
  <2>4. NextItem(r) = queue[r][n + 1] /\ n + 1 \in 1..Len(queue[r])
    BY <2>1, <2>2 DEF NextItem
  <2>5. CASE IsEnd(NextItem(r))
    <3>1. /\ handler' = [handler EXCEPT ![r] = "closed"] /\ stream' = stream
      BY <1>5, <2>1, <2>5 DEF Deliver
    <3>2. n + 1 = Len(queue[r]) /\ worker[r] \in {"marked", "released"}
      BY <2>4, <2>5, EndMarkIsLast DEF IsEnd
    <3>3. Sent(r, Len(queue[r]) - 1)'
      BY <2>1, <2>2, <2>3, <3>1, <3>2 DEF Sent
    <3>4. Fits(r)'
      BY <1>0, <2>3, <3>1, <3>2, <3>3 DEF Fits
    <3> QED
      BY <1>0, <1>2, <2>3, <3>1, <3>4
  <2>6. CASE ~IsEnd(NextItem(r))
    <3> DEFINE item == queue[r][n + 1]
    <3>1. /\ handler' = handler
          /\ stream' = [stream EXCEPT ![r] = Append(stream[r], item)]
      BY <1>5, <2>1, <2>4, <2>6 DEF Deliver
    <3>2. item \in Events
      BY <1>0, <2>4, <2>6, NotEndIsEvent
    <3> HIDE DEF item
    <3>3. stream'[r] = Append(stream[r], item)
      BY <1>0, <3>1
    <3>4. /\ Len(stream'[r]) = n + 1 /\ stream'[r][n + 1] = item
          /\ \A i \in 1..n : stream'[r][i] = stream[r][i]
      BY <1>0, <2>2, <3>2, <3>3 DEF Sent
    <3>5. Sent(r, taken[r])'
      <4>1. taken'[r] = n + 1 /\ queue'[r] = queue[r]
        BY <1>0, <2>3
      <4>2. \A i \in 1..(n + 1) : i \in 1..n \/ i = n + 1
        BY <2>1
      <4> QED
        BY <2>1, <2>2, <3>4, <4>1, <4>2 DEF Sent, item
    <3>6. Fits(r)'
      BY <1>0, <2>1, <2>3, <3>1, <3>5 DEF Fits
    <3> QED
      BY <1>0, <1>2, <2>3, <3>1, <3>6
  <2> QED
    BY <2>5, <2>6
<1>6. ASSUME NEW r \in Requests, Disconnect(r) PROVE StreamFits'
  <2>1. handler' = [handler EXCEPT ![r] = "orphan"] /\ UNCHANGED <<taken, stream>>
    BY <1>6 DEF Disconnect
  <2>2. Fits(r)'
    BY <1>0, <2>1 DEF Fits
  <2> QED
    BY <1>0, <1>2, <2>1, <2>2
<1>7. ASSUME NEW r \in Requests, DropOne(r) PROVE StreamFits'
  <2>1. /\ handler[r] = "orphan" /\ handler' = [handler EXCEPT ![r] = "gone"]
        /\ taken' = [taken EXCEPT ![r] = @ + 1] /\ stream' = stream
    BY <1>7 DEF DropOne, ReadsOwn
  <2>2. Fits(r)'
    BY <1>0, <2>1 DEF Fits
  <2> QED
    BY <1>0, <1>2, <2>1, <2>2
<1>8. ASSUME NEW r \in Requests, WorkerStep(r)
      PROVE  UNCHANGED <<handler, taken, stream>>
  BY <1>8 DEF WorkerStep, Begin, Emit, Conclude, MarkEnd, Release
<1>9. CASE Delete \/ UNCHANGED vars
  BY <1>1, <1>9 DEF Delete, vars
<1> QED
  BY <1>1, <1>3, <1>4, <1>5, <1>6, <1>7, <1>8, <1>9
     DEF Next, HandlerStep, StreamStep, Rest

(* What the streams' invariant says of a closed one. *)
LEMMA StreamInvSafe == IInv /\ StreamInv => StreamIsItsTurn
<1> SUFFICES ASSUME IInv, StreamInv, NEW r \in Requests, handler[r] = "closed"
             PROVE  stream[r] = SubSeq(queue[r], 1, Len(queue[r]) - 1)
  BY DEF StreamIsItsTurn
<1>1. /\ stream[r] \in Seq(Events)
      /\ queue[r] \in Seq(Events \cup EndMarks) /\ Len(queue[r]) \in Nat
  BY DEF IInv, TypeOK, Queues
<1>2. Sent(r, Len(queue[r]) - 1)
  BY DEF StreamInv, StreamFits, Fits
<1>3. Len(queue[r]) >= 1
  BY <1>1, <1>2 DEF Sent
<1> DEFINE sub == SubSeq(queue[r], 1, Len(queue[r]) - 1)
<1>4. /\ sub \in Seq(Events \cup EndMarks)
      /\ Len(sub) = Len(queue[r]) - 1
      /\ \A i \in 1..Len(sub) : sub[i] = queue[r][i]
  BY <1>1, <1>3, SubSeqProperties
<1> HIDE DEF sub
<1>5. stream[r] \in Seq(Events \cup EndMarks)
  BY <1>1
<1>6. Len(stream[r]) = Len(sub) /\ \A i \in 1..Len(stream[r]) : stream[r][i] = sub[i]
  BY <1>2, <1>4 DEF Sent
<1>7. stream[r] = sub
  BY <1>4, <1>5, <1>6, SeqEqual
<1> QED
  BY <1>7 DEF sub

(* A response the server closed has sent its client every event of its own *)
(* turn, in order, provided the client posts one message at a time: else   *)
(* `return self._queue` may return the next turn's.                        *)
THEOREM SpecStreamIsItsTurn == Spec /\ []OnePosted => []StreamIsItsTurn
<1>1. Init => StreamInv
  BY DEF Init, StreamInv, ReadsOwn, StreamFits, Fits, Queues
<1>2. OnePosted /\ IInv /\ StreamInv /\ [Next]_vars => StreamInv'
  BY SessionAssumption, NextReadsOwn, NextStreamFits DEF StreamInv
<1> QED
  BY <1>1, <1>2, SpecIInv, StreamInvSafe, PTL DEF Spec
=============================================================================
