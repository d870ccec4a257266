---------------------------- MODULE HttpConsent ----------------------------
(***************************************************************************)
(* The HTTP consent broker (jarvis/server/consent.py).  The worker thread  *)
(* of a turn blocks in request() while handlers of other HTTP requests, on *)
(* threads of their own, may answer with resolve().  A step below is one   *)
(* stretch of code between two points where another thread can run: the    *)
(* critical sections of request() and resolve(), the emit, and the two     *)
(* ways Event.wait returns.                                                *)
(*                                                                         *)
(* request() draws a fresh uuid every time, so one consent id stands for   *)
(* one call of request().  The timeout is any moment before the event is   *)
(* set.                                                                    *)
(***************************************************************************)
EXTENDS Sequences

CONSTANT Calls      \* the consent ids

VARIABLES
    asker,      \* asker[c]: where the call request() that drew c has got to
    pending,    \* HttpConsent._pending: the ids in the table
    isSet,      \* isSet[c]: _Pending.event.is_set()
    allow,      \* allow[c]: _Pending.allow
    accepted    \* history: the answers for which resolve() returned True

vars == <<asker, pending, isSet, allow, accepted>>

Init ==
    /\ asker    = [c \in Calls |-> "idle"]
    /\ pending  = {}
    /\ isSet    = [c \in Calls |-> FALSE]
    /\ allow    = [c \in Calls |-> FALSE]
    /\ accepted = [c \in Calls |-> << >>]

-----------------------------------------------------------------------------
(* request(), on the worker thread of a turn.                              *)

Goto(c, from, to) ==
    /\ asker[c] = from
    /\ asker' = [asker EXCEPT ![c] = to]

(* The new entry goes into the table, under the lock. *)
Register(c) ==
    /\ Goto(c, "idle", "registered")
    /\ pending' = pending \cup {c}
    /\ UNCHANGED <<isSet, allow, accepted>>

(* The consent_request event is emitted: from here on a client may know    *)
(* the id.  The thread enters Event.wait.                                  *)
Emit(c) ==
    /\ Goto(c, "registered", "waiting")
    /\ UNCHANGED <<pending, isSet, allow, accepted>>

(* Event.wait returns True. *)
Wake(c) ==
    /\ isSet[c]
    /\ Goto(c, "waiting", "answered")
    /\ UNCHANGED <<pending, isSet, allow, accepted>>

(* Mutant of TimesOut: Event.wait called without a timeout. *)
TimesOutNever(c) == FALSE

TimesOut(c) == ~isSet[c]

(* Event.wait returns False.  The entry is still in the table. *)
Expire(c) ==
    /\ TimesOut(c)
    /\ Goto(c, "waiting", "expired")
    /\ UNCHANGED <<pending, isSet, allow, accepted>>

(* Mutant of Verdict: any answer in time counts as a yes. *)
VerdictAnyAnswer(c) == IF asker[c] = "answered" THEN "granted" ELSE "refused"

(* `answered and pending.allow` *)
Verdict(c) ==
    IF asker[c] = "answered" /\ allow[c] THEN "granted" ELSE "refused"

(* Mutant of Forgotten: no finally clause. *)
ForgottenNever(c) == pending

Forgotten(c) == pending \ {c}

(* The return value is computed and the finally clause removes the entry,  *)
(* under the lock.                                                         *)
Return(c) ==
    /\ asker[c] \in {"answered", "expired"}
    /\ asker' = [asker EXCEPT ![c] = Verdict(c)]
    /\ pending' = Forgotten(c)
    /\ UNCHANGED <<isSet, allow, accepted>>

-----------------------------------------------------------------------------
(* resolve(), on the thread of an HTTP request, all of it under the lock.  *)

(* Mutant of Unresolved: is_set() is not consulted. *)
UnresolvedInTable(c) == c \in pending

Unresolved(c) == c \in pending /\ ~isSet[c]

(* A client posts an answer to an id it was told.  When resolve() returns  *)
(* False it changes nothing, which is a stuttering step here.              *)
Resolve(c, answer) ==
    /\ asker[c] \notin {"idle", "registered"}
    /\ Unresolved(c)
    /\ allow' = [allow EXCEPT ![c] = answer]
    /\ isSet' = [isSet EXCEPT ![c] = TRUE]
    /\ accepted' = [accepted EXCEPT ![c] = Append(@, answer)]
    /\ UNCHANGED <<asker, pending>>

-----------------------------------------------------------------------------
RequestStep(c) == Emit(c) \/ Wake(c) \/ Expire(c) \/ Return(c)

Decided(c) == asker[c] \in {"granted", "refused"}

(* Every id has been used and every question decided: nothing is left to   *)
(* model, and the broker waits for a next request() that never comes.      *)
AllDecided ==
    /\ \A c \in Calls : Decided(c)
    /\ UNCHANGED vars

Next ==
    \/ \E c \in Calls : Register(c) \/ RequestStep(c)
    \/ \E c \in Calls, answer \in BOOLEAN : Resolve(c, answer)
    \/ AllDecided

Spec == Init /\ [][Next]_vars

(* The worker thread is scheduled and Event.wait has a finite timeout;     *)
(* nobody is obliged to answer, nor to ask.                                *)
FairSpec == Spec /\ \A c \in Calls : WF_vars(RequestStep(c))

-----------------------------------------------------------------------------
(* The last conjunct is more than a type: of all the clients that answer a *)
(* question, at most one is told that its answer was taken.                *)
TypeOK ==
    /\ asker \in [Calls -> {"idle", "registered", "waiting", "answered",
                            "expired", "granted", "refused"}]
    /\ pending \subseteq Calls
    /\ isSet \in [Calls -> BOOLEAN]
    /\ allow \in [Calls -> BOOLEAN]
    /\ accepted \in [Calls -> {<< >>, <<TRUE>>, <<FALSE>>}]

(* request() returns True only if the answer taken for this very id is     *)
(* allow: no timeout, no answer to another id and no later change of mind  *)
(* grants a call.                                                          *)
GrantIsTheAnswer ==
    \A c \in Calls : asker[c] = "granted" => accepted[c] = <<TRUE>>

(* The table holds exactly the questions whose request() has not returned: *)
(* a question never leaks, and one still being asked can be answered.      *)
TableIsInFlight ==
    pending = {c \in Calls : asker[c] # "idle" /\ ~Decided(c)}

(* Every question asked gets a decision, even if nobody answers it. *)
EveryQuestionIsDecided ==
    \A c \in Calls : asker[c] = "registered" ~> Decided(c)

-----------------------------------------------------------------------------
(* The decision of a question falls when its entry is resolved or when its *)
(* wait times out, whichever is first; the return comes later.             *)
Outcome(c) ==
    CASE asker[c] = "idle"                  -> "unasked"
      [] asker[c] = "granted"               -> "allowed"
      [] asker[c] \in {"expired", "refused"} -> "denied"
      [] OTHER -> IF isSet[c] THEN IF allow[c] THEN "allowed" ELSE "denied"
                              ELSE "open"

Promise == INSTANCE ConsentPromise WITH outcome <- [c \in Calls |-> Outcome(c)]

(* The broker keeps the promise of ConsentPromise: one decision per        *)
(* question, never revised, whatever the timeout and the answers do.       *)
ImplementsPromise == Promise!Spec
=============================================================================
