------------------------------- MODULE Agent -------------------------------
(***************************************************************************)
(* One agent: the turn engine (core/agent.py) with the executor behind it  *)
(* (security/executor.py: classify, consent, execute, audit).  An agent is *)
(* single-threaded; a step is the code up to the next call that can return *)
(* in several ways: the provider, a tool's classify or execute, the        *)
(* consent manager, a write to disk.                                       *)
(*                                                                         *)
(* Text is left out: a message is what kind it is, why a reply stopped and *)
(* which tool calls it names.  The provider draws a fresh id per call, so  *)
(* a call stands for its id.  Any reply the provider interface allows may  *)
(* come: any stop_reason with any tool calls, as llm/claude.py fills the   *)
(* two fields independently.                                               *)
(***************************************************************************)
EXTENDS Naturals, Sequences

CONSTANTS
    Calls,          \* the ids of tool_use blocks
    MaxToolRounds,  \* Agent._max_tool_rounds
    MaxBatch,       \* bound: tool calls in one reply
    MaxTurns,       \* bound: calls of run_turn
    StorageFails    \* may a write to the database or to the audit file raise?

ASSUME BoundsAssumption ==
    /\ MaxToolRounds \in Nat \ {0}
    /\ MaxBatch \in Nat
    /\ MaxTurns \in Nat
    /\ StorageFails \in BOOLEAN

VARIABLES
    pc,             \* where run_turn is: idle, calling, dispatching, asking, running
    turns,          \* how many turns were started
    round,          \* replies received in this turn
    history,        \* Agent._history
    todo,           \* the calls of the reply not yet dispatched
    toolResults,    \* run_turn's tool_results
    asked,          \* history: the calls the provider has ever made
    risk,           \* history: what classify returned for a call
    consent,        \* history: what the consent manager said of a call
    effect,         \* history: how the call's tool.execute ended
    audit           \* audit[c]: the lines of the audit log about call c

locals == <<round, todo, toolResults>>
executed == <<risk, consent, effect, audit>>
vars == <<pc, turns, locals, history, asked, executed>>

Risks == {"read_only", "reversible", "destructive"}
Stops == {"end_turn", "pause_turn", "tool_use", "max_tokens"}
Results == [call : Calls, ok : BOOLEAN]
Lines == [decision : {"auto", "user", "denied"},
          outcome  : {"ok", "error", "denied"}]

Input == [kind |-> "input"]
Reply(stop, calls) == [kind |-> "reply", stop |-> stop, calls |-> calls]
ToolResults(results) == [kind |-> "results", results |-> results]

Messages == {Input} \cup [kind : {"reply"}, stop : Stops, calls : Seq(Calls)]
                    \cup [kind : {"results"}, results : Seq(Results)]

(* Does a write to disk succeed? *)
Stored == IF StorageFails THEN BOOLEAN ELSE {TRUE}

Init ==
    /\ pc = "idle" /\ turns = 0 /\ round = 0
    /\ history = << >> /\ todo = << >> /\ toolResults = << >>
    /\ asked   = {}
    /\ risk    = [c \in Calls |-> "none"]
    /\ consent = [c \in Calls |-> "none"]
    /\ effect  = [c \in Calls |-> "none"]
    /\ audit   = [c \in Calls |-> << >>]

-----------------------------------------------------------------------------
(* run_turn returns or raises: its locals are gone, the history stays.     *)
EndTurn ==
    /\ pc' = "idle" /\ round' = 0
    /\ todo' = << >> /\ toolResults' = << >>

(* _append: the message is in the history before on_message stores it, so  *)
(* a failing store ends the turn with the message in place.                *)
AppendThen(message, stored, Continue) ==
    /\ history' = Append(history, message)
    /\ IF stored THEN Continue ELSE EndTurn

StartTurn(stored) ==
    /\ pc = "idle" /\ turns < MaxTurns
    /\ turns' = turns + 1
    /\ AppendThen(Input, stored, pc' = "calling" /\ UNCHANGED locals)
    /\ UNCHANGED <<asked, executed>>

(* Mutant of RoundsLeft: one round too many. *)
RoundsLeftOneMore == round <= MaxToolRounds

RoundsLeft == round < MaxToolRounds

ProviderRaises ==
    /\ pc = "calling" /\ RoundsLeft
    /\ EndTurn
    /\ UNCHANGED <<turns, history, asked, executed>>

(* What run_turn does with a reply: go on, dispatch its calls, or return.   *)
TakeReply(stop, calls) ==
    \/ /\ stop = "pause_turn"
       /\ round' = round + 1
       /\ UNCHANGED <<pc, todo, toolResults>>
    \/ /\ stop = "tool_use"
       /\ pc' = "dispatching" /\ round' = round + 1
       /\ todo' = calls /\ toolResults' = << >>
    \/ /\ stop \notin {"pause_turn", "tool_use"}
       /\ EndTurn

Elements(s) == {s[i] : i \in DOMAIN s}

(* The tool calls a reply may name: fresh ids, in an order. *)
Batches ==
    UNION {{s \in [1..n -> Calls \ asked] :
                \A i, j \in 1..n : s[i] = s[j] => i = j} : n \in 0..MaxBatch}

(* stop_reason and tool_calls are filled independently of each other. *)
ProviderReturns(stop, calls, stored) ==
    /\ pc = "calling" /\ RoundsLeft
    /\ asked' = asked \cup Elements(calls)
    /\ AppendThen(Reply(stop, calls), stored, TakeReply(stop, calls))
    /\ UNCHANGED <<turns, executed>>

(* Mutant of Exhausted: the loop is left only after one more round. *)
ExhaustedLate == round > MaxToolRounds

Exhausted == round >= MaxToolRounds

(* The for loop is over: RuntimeError. *)
RoundsExceeded ==
    /\ pc = "calling" /\ Exhausted
    /\ EndTurn
    /\ UNCHANGED <<turns, history, asked, executed>>

-----------------------------------------------------------------------------
(* SafeExecutor.execute for the first call of todo.                        *)

At(c, where) == pc = where /\ todo # << >> /\ c = Head(todo)

(* Mutant of WithResult: the except branch appends nothing. *)
WithResultIfOk(c, ok) ==
    IF ok THEN Append(toolResults, [call |-> c, ok |-> ok]) ELSE toolResults

WithResult(c, ok) == Append(toolResults, [call |-> c, ok |-> ok])

(* execute returned, or raised a ToolError: the outcome goes to the model. *)
Report(c, ok) ==
    /\ toolResults' = WithResult(c, ok)
    /\ todo' = Tail(todo)
    /\ pc' = "dispatching"
    /\ UNCHANGED round

(* AuditLog.record.  What follows it happens only if the line was written. *)
RecordThen(c, decision, outcome, stored, Continue) ==
    IF stored
    THEN /\ audit' = [audit EXCEPT ![c] =
                Append(@, [decision |-> decision, outcome |-> outcome])]
         /\ Continue
    ELSE /\ EndTurn
         /\ UNCHANGED audit

UnknownTool(c) ==
    /\ At(c, "dispatching")
    /\ Report(c, FALSE)
    /\ UNCHANGED <<turns, history, asked, executed>>

(* Mutant of NeedsConsent: only destructive calls ask. *)
NeedsConsentDestructive(r) == r = "destructive"

NeedsConsent(r) == r # "read_only"

Classify(c, r) ==
    /\ At(c, "dispatching")
    /\ risk' = [risk EXCEPT ![c] = r]
    /\ pc' = IF NeedsConsent(r) THEN "asking" ELSE "running"
    /\ UNCHANGED <<turns, locals, history, asked, consent, effect, audit>>

ConsentGranted(c) ==
    /\ At(c, "asking")
    /\ consent' = [consent EXCEPT ![c] = "granted"]
    /\ pc' = "running"
    /\ UNCHANGED <<turns, locals, history, asked, risk, effect, audit>>

ConsentDenied(c, stored) ==
    /\ At(c, "asking")
    /\ consent' = [consent EXCEPT ![c] = "denied"]
    /\ RecordThen(c, "denied", "denied", stored, Report(c, FALSE))
    /\ UNCHANGED <<turns, history, asked, risk, effect>>

(* Mutant of Decision: the two ways of being allowed are confused. *)
DecisionSwapped(c) == IF risk[c] = "read_only" THEN "user" ELSE "auto"

Decision(c) == IF risk[c] = "read_only" THEN "auto" ELSE "user"

(* Mutant of ReportedOk: the exception of a failing tool is swallowed. *)
ReportedOkAlways(outcome) == TRUE

ReportedOk(outcome) == outcome = "ok"

(* tool.execute returned a result or raised a ToolError. *)
ToolEnds(c, outcome, stored) ==
    /\ At(c, "running")
    /\ effect' = [effect EXCEPT ![c] = outcome]
    /\ RecordThen(c, Decision(c), outcome, stored,
                  Report(c, ReportedOk(outcome)))
    /\ UNCHANGED <<turns, history, asked, risk, consent>>

(* An exception that is not a ToolError, out of on_tool_use or classify,   *)
(* out of the consent manager, or out of the tool: nothing catches it.     *)
Raises(c) ==
    /\ \/ At(c, "dispatching") \/ At(c, "asking")
       \/ At(c, "running")
    /\ effect' = [effect EXCEPT ![c] = IF pc = "running" THEN "raised" ELSE @]
    /\ EndTurn
    /\ UNCHANGED <<turns, history, asked, risk, consent, audit>>

(* All calls of the reply are dealt with: their results are one message. *)
SendResults(stored) ==
    /\ pc = "dispatching" /\ todo = << >>
    /\ AppendThen(ToolResults(toolResults), stored,
           pc' = "calling" /\ toolResults' = << >> /\ UNCHANGED <<round, todo>>)
    /\ UNCHANGED <<turns, asked, executed>>

-----------------------------------------------------------------------------
(* Agent.reset, between turns. *)
Reset ==
    /\ pc = "idle" /\ history # << >>
    /\ history' = << >>
    /\ UNCHANGED <<pc, turns, locals, asked, executed>>

ExecutorStep(c) ==
    \/ UnknownTool(c)
    \/ \E r \in Risks : Classify(c, r)
    \/ ConsentGranted(c)
    \/ \E stored \in Stored : ConsentDenied(c, stored)
    \/ \E outcome \in {"ok", "error"}, stored \in Stored :
          ToolEnds(c, outcome, stored)
    \/ Raises(c)

EngineStep ==
    \/ ProviderRaises
    \/ \E stop \in Stops, calls \in Batches, stored \in Stored :
          ProviderReturns(stop, calls, stored)
    \/ RoundsExceeded
    \/ \E stored \in Stored : SendResults(stored)

TurnStep == EngineStep \/ \E c \in Calls : ExecutorStep(c)

Next ==
    \/ \E stored \in Stored : StartTurn(stored)
    \/ TurnStep
    \/ Reset

Spec == Init /\ [][Next]_vars

(* The provider's client, the tools' subprocesses and HttpConsent all have *)
(* timeouts, so a turn that is running takes its next step.                *)
FairSpec == Spec /\ WF_vars(TurnStep)

-----------------------------------------------------------------------------
TypeOK ==
    /\ pc \in {"idle", "calling", "dispatching", "asking", "running"}
    /\ turns \in 0..MaxTurns
    /\ round \in 0..MaxToolRounds
    /\ history \in Seq(Messages)
    /\ todo \in Seq(Calls)
    /\ toolResults \in Seq(Results)
    /\ asked \subseteq Calls
    /\ risk \in [Calls -> Risks \cup {"none"}]
    /\ consent \in [Calls -> {"none", "granted", "denied"}]
    /\ effect \in [Calls -> {"none", "ok", "error", "raised"}]
    /\ audit \in [Calls -> Seq(Lines)]

Audited(c, decision, outcome) ==
    audit[c] = <<[decision |-> decision, outcome |-> outcome]>>

(* A tool runs only for a call that was classified read_only or that the   *)
(* consent manager granted; a denied call never runs, however the turn     *)
(* goes on.                                                                *)
RanOnlyIfAllowed ==
    \A c \in Calls : effect[c] # "none" =>
        risk[c] = "read_only" \/ consent[c] = "granted"

(* A call has at most one line in the audit log, and the line is true: its *)
(* decision is the way the call was allowed or denied, its outcome the way *)
(* the tool ended.                                                         *)
AuditIsTrue ==
    \A c \in Calls : audit[c] # << >> =>
        \/ Audited(c, "denied", "denied") /\ consent[c] = "denied"
                                          /\ effect[c] = "none"
        \/ Audited(c, "auto", effect[c]) /\ risk[c] = "read_only"
        \/ Audited(c, "user", effect[c]) /\ consent[c] = "granted"

Told == (UNION {Elements(history[i].results) :
                    i \in {j \in DOMAIN history : history[j].kind = "results"}})
        \cup Elements(toolResults)

(* The model is told that a call succeeded exactly when its tool returned  *)
(* and the audit log says so; of a call that ran it is never told less     *)
(* than the log.                                                           *)
ModelIsToldTheLog ==
    \A r \in Told :
        /\ r.ok <=> effect[r.call] = "ok"
        /\ effect[r.call] # "none" => audit[r.call] # << >>

(* The calls of a results message, or of tool_results so far. *)
CallsOf(results) == [i \in DOMAIN results |-> results[i].call]

(* While a turn runs, the results of a reply's calls come right after it   *)
(* and are complete and in order: a reply that stopped for its calls is    *)
(* followed only by their results or by the input of a later turn, and a   *)
(* round calls the provider only after input, results or a pause.          *)
ResultsFollowTheirReply ==
    /\ \A i \in 1..(Len(history) - 1) :
          history[i].kind = "reply" /\ history[i].stop = "tool_use" =>
              \/ history[i + 1] = Input
              \/ /\ history[i + 1].kind = "results"
                 /\ CallsOf(history[i + 1].results) = history[i].calls
    /\ pc = "dispatching" =>
          history[Len(history)].calls = CallsOf(toolResults) \o todo
    /\ pc = "calling" =>
          LET last == history[Len(history)] IN
          last.kind = "reply" => last.stop = "pause_turn"

(* Every turn ends, also when the provider keeps pausing or keeps asking   *)
(* for tools: run_turn's round limit.                                      *)
TurnEnds == pc # "idle" ~> pc = "idle"

(* "All attempts — allowed, denied, or failed — are appended to the audit  *)
(* log" (README.md:103-105): when no turn is running, every call whose     *)
(* tool was run has its line.                                              *)
EveryRunIsAudited ==
    pc = "idle" => \A c \in Calls : effect[c] # "none" => audit[c] # << >>

(* "Second call must include: user msg, assistant tool_use, user           *)
(* tool_result" (tests/test_agent.py:64): whenever the provider is called, *)
(* every tool call of the history, but those of a reply that only paused,  *)
(* has its result in the next message.                                     *)
ProviderSeesResults ==
    pc = "calling" =>
        \A i \in DOMAIN history :
            (/\ history[i].kind = "reply" /\ history[i].calls # << >>
             /\ history[i].stop # "pause_turn")
                => i < Len(history) /\ history[i + 1].kind = "results"
=============================================================================
