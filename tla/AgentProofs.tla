---------------------------- MODULE AgentProofs ----------------------------
(***************************************************************************)
(* Theorems about Agent, for every set of calls, every bound, and with or  *)
(* without failing storage.                                                *)
(*                                                                         *)
(* The safety invariants speak of what happened to a call; they are        *)
(* inductive only together with what is still to happen: the calls of todo *)
(* are distinct, have not run and have no line in the log, and the one at  *)
(* its head has been classified and granted as far as pc says.             *)
(* What the model is told rests on the calls it was told about being       *)
(* behind, what the history shows on the open reply being its last message *)
(* and its calls being those done and those ahead.                         *)
(***************************************************************************)
EXTENDS Agent, SequenceTheorems, TLAPS

(* Nothing has happened to the call yet. *)
Untouched(c) ==
    /\ risk[c] = "none" /\ consent[c] = "none"
    /\ effect[c] = "none" /\ audit[c] = << >>

(* The ids the provider will still draw. *)
FreshIsUntouched == \A c \in Calls \ asked : Untouched(c)

TodoIsAhead ==
    /\ \A i, j \in 1..Len(todo) : todo[i] = todo[j] => i = j
    /\ \A i \in 1..Len(todo) :
          /\ todo[i] \in asked
          /\ effect[todo[i]] = "none" /\ audit[todo[i]] = << >>
          /\ i > 1 \/ pc = "dispatching" => Untouched(todo[i])
    /\ pc \in {"idle", "calling"} => todo = << >>
    /\ pc \in {"asking", "running"} => todo # << >>

HeadIsCleared ==
    /\ pc = "asking" => /\ risk[todo[1]] # "read_only"
                        /\ consent[todo[1]] = "none"
    /\ pc = "running" => /\ risk[todo[1]] = "read_only"
                                => consent[todo[1]] = "none"
                         /\ risk[todo[1]] # "read_only"
                                => consent[todo[1]] = "granted"

IInv == /\ TypeOK /\ FreshIsUntouched /\ TodoIsAhead /\ HeadIsCleared
        /\ RanOnlyIfAllowed /\ AuditIsTrue

-----------------------------------------------------------------------------
(* Facts about sequences and about the inputs of an action.                *)

(* The rest of a sequence is its elements moved down by one. *)
LEMMA TailMoves ==
  ASSUME NEW S, NEW s \in Seq(S), s # << >>
  PROVE  /\ Head(s) = s[1] /\ s[1] \in S
         /\ Len(s) \in Nat \ {0}
         /\ Tail(s) \in Seq(S)
         /\ Len(Tail(s)) = Len(s) - 1
         /\ \A i \in 1..Len(Tail(s)) : Tail(s)[i] = s[i + 1]
  BY HeadTailProperties

(* A batch is a sequence of distinct ids that the provider has not used. *)
LEMMA BatchIsFresh ==
  ASSUME BoundsAssumption, NEW calls \in Batches
  PROVE  /\ calls \in Seq(Calls)
         /\ \A i \in 1..Len(calls) : calls[i] \in Calls \ asked
         /\ \A i, j \in 1..Len(calls) : calls[i] = calls[j] => i = j
<1>1. PICK n \in 0..MaxBatch :
          /\ calls \in [1..n -> Calls \ asked]
          /\ \A i, j \in 1..n : calls[i] = calls[j] => i = j
  BY DEF Batches
<1>2. n \in Nat
  BY DEF BoundsAssumption
<1>3. calls \in Seq(Calls \ asked) /\ Len(calls) = n
  BY <1>1, <1>2
<1> QED
  BY <1>1, <1>3

(* The three kinds of messages are messages. *)
LEMMA MessagesTyped ==
  /\ Input \in Messages
  /\ \A stop \in Stops, calls \in Seq(Calls) : Reply(stop, calls) \in Messages
  /\ \A r \in Seq(Results) : ToolResults(r) \in Messages
  BY DEF Messages, Reply, ToolResults

(* Stored says whether a write succeeds. *)
LEMMA StoredTyped == Stored \subseteq BOOLEAN
  BY DEF Stored

-----------------------------------------------------------------------------
(* Type correctness.                                                       *)

(* The ends of execute() leave the locals of run_turn typed. *)
LEMMA ReportTyped ==
  ASSUME TypeOK, NEW c \in Calls, NEW ok \in BOOLEAN, todo # << >>,
         Report(c, ok)
  PROVE  /\ pc' = "dispatching" /\ round' = round
         /\ todo' \in Seq(Calls) /\ toolResults' \in Seq(Results)
<1>1. [call |-> c, ok |-> ok] \in Results
  BY DEF Results
<1>2. todo \in Seq(Calls) /\ toolResults \in Seq(Results)
  BY DEF TypeOK
<1>3. Tail(todo) \in Seq(Calls)
  BY <1>2, TailMoves
<1> QED
  BY <1>1, <1>2, <1>3 DEF Report, WithResult

(* run_turn's locals when it returns or raises. *)
LEMMA EndTurnTyped ==
  ASSUME BoundsAssumption, EndTurn
  PROVE  /\ pc' = "idle" /\ round' \in 0..MaxToolRounds
         /\ todo' \in Seq(Calls) /\ toolResults' \in Seq(Results)
  BY DEF EndTurn, BoundsAssumption

(* AuditLog.record and what follows keep every variable it touches typed. *)
LEMMA RecordTyped ==
  ASSUME BoundsAssumption, TypeOK, NEW c \in Calls, NEW ok \in BOOLEAN,
         NEW stored \in BOOLEAN, todo # << >>,
         NEW decision \in {"auto", "user", "denied"},
         NEW outcome \in {"ok", "error", "denied"},
         RecordThen(c, decision, outcome, stored, Report(c, ok))
  PROVE  /\ pc' \in {"idle", "dispatching"} /\ round' \in 0..MaxToolRounds
         /\ todo' \in Seq(Calls) /\ toolResults' \in Seq(Results)
         /\ audit' \in [Calls -> Seq(Lines)]
<1>1. CASE stored
  <2>1. Report(c, ok)
    BY <1>1 DEF RecordThen
  <2>2. [decision |-> decision, outcome |-> outcome] \in Lines
    BY DEF Lines
  <2>3. audit' \in [Calls -> Seq(Lines)]
    <3> DEFINE line == [decision |-> decision, outcome |-> outcome]
    <3>1. audit \in [Calls -> Seq(Lines)]
      BY DEF TypeOK
    <3>2. Append(audit[c], line) \in Seq(Lines)
      BY <2>2, <3>1
    <3>3. audit' = [audit EXCEPT ![c] = Append(audit[c], line)]
      BY <1>1 DEF RecordThen
    <3> HIDE DEF line
    <3> QED
      BY <3>1, <3>2, <3>3
  <2> QED
    BY <2>1, <2>3, ReportTyped DEF TypeOK
<1>2. CASE ~stored
  BY <1>2, EndTurnTyped DEF RecordThen, TypeOK
<1> QED
  BY <1>1, <1>2

(* Every action keeps the type of every variable. *)
LEMMA NextTypeOK == BoundsAssumption /\ TypeOK /\ [Next]_vars => TypeOK'
<1> SUFFICES ASSUME BoundsAssumption, TypeOK, [Next]_vars PROVE TypeOK'
  OBVIOUS
<1> USE DEF TypeOK, locals, executed
<1>1. ASSUME NEW stored \in Stored, StartTurn(stored) PROVE TypeOK'
  <2>1. AppendThen(Input, stored, pc' = "calling" /\ UNCHANGED locals)
    BY <1>1 DEF StartTurn
  <2>2. history' \in Seq(Messages)
    BY <2>1, MessagesTyped DEF AppendThen
  <2>3. turns' \in 0..MaxTurns
    BY <1>1 DEF StartTurn, BoundsAssumption
  <2>4. CASE stored
    BY <1>1, <2>1, <2>2, <2>3, <2>4 DEF StartTurn, AppendThen
  <2>5. CASE ~stored
    BY <1>1, <2>1, <2>2, <2>3, <2>5, EndTurnTyped DEF StartTurn, AppendThen
  <2> QED
    BY <2>4, <2>5
<1>2. ASSUME EndTurn, UNCHANGED <<turns, history, asked, executed>>
      PROVE  TypeOK'
  BY <1>2, EndTurnTyped
<1>3. CASE ProviderRaises
  BY <1>2, <1>3 DEF ProviderRaises
<1>4. ASSUME NEW stop \in Stops, NEW calls \in Batches, NEW stored \in Stored,
             ProviderReturns(stop, calls, stored)
      PROVE  TypeOK'
  <2>1. calls \in Seq(Calls) /\ Elements(calls) \subseteq Calls
    BY BatchIsFresh DEF Elements
  <2>2. AppendThen(Reply(stop, calls), stored, TakeReply(stop, calls))
    BY <1>4 DEF ProviderReturns
  <2>3. history' \in Seq(Messages)
    BY <2>1, <2>2, MessagesTyped DEF AppendThen
  <2>4. round + 1 \in 0..MaxToolRounds
    BY <1>4 DEF ProviderReturns, RoundsLeft, BoundsAssumption
  <2>5. asked' \subseteq Calls /\ turns' = turns /\ executed' = executed
    BY <1>4, <2>1 DEF ProviderReturns
  <2>6. CASE EndTurn
    BY <2>3, <2>5, <2>6, EndTurnTyped
  <2>7. CASE TakeReply(stop, calls) /\ ~EndTurn
    <3>1. /\ pc' = pc \/ pc' = "dispatching"
          /\ round' = round + 1
          /\ todo' = todo \/ todo' = calls
          /\ toolResults' = toolResults \/ toolResults' = << >>
      BY <2>7 DEF TakeReply
    <3>2. /\ pc' \in {"idle", "calling", "dispatching", "asking", "running"}
          /\ round' \in 0..MaxToolRounds
          /\ todo' \in Seq(Calls)
      BY <3>1, <2>1, <2>4
    <3>4. toolResults' \in Seq(Results)
      <4>1. << >> \in Seq(Results) /\ toolResults \in Seq(Results)
        BY DEF TypeOK
      <4> QED
        BY <3>1, <4>1
    <3>3. UNCHANGED <<turns, risk, consent, effect, audit>>
      BY <1>4 DEF ProviderReturns
    <3> QED
      BY <2>3, <2>5, <3>2, <3>3, <3>4
  <2> QED
    BY <2>2, <2>6, <2>7 DEF AppendThen
<1>5. CASE RoundsExceeded
  BY <1>2, <1>5 DEF RoundsExceeded
<1>6. ASSUME NEW stored \in Stored, SendResults(stored) PROVE TypeOK'
  <2>1. AppendThen(ToolResults(toolResults), stored,
            pc' = "calling" /\ toolResults' = << >> /\ UNCHANGED <<round, todo>>)
    BY <1>6 DEF SendResults
  <2>2. history' \in Seq(Messages)
    BY <2>1, MessagesTyped DEF AppendThen
  <2>3. CASE stored
    BY <1>6, <2>1, <2>2, <2>3 DEF SendResults, AppendThen
  <2>4. CASE ~stored
    BY <1>6, <2>1, <2>2, <2>4, EndTurnTyped DEF SendResults, AppendThen
  <2> QED
    BY <2>3, <2>4
<1>7. ASSUME NEW c \in Calls, UnknownTool(c) PROVE TypeOK'
  BY <1>7, ReportTyped DEF UnknownTool, At
<1>8. ASSUME NEW c \in Calls, NEW r \in Risks, Classify(c, r) PROVE TypeOK'
  BY <1>8 DEF Classify
<1>9. ASSUME NEW c \in Calls, ConsentGranted(c) PROVE TypeOK'
  BY <1>9 DEF ConsentGranted
<1>10. ASSUME NEW c \in Calls, NEW stored \in Stored, ConsentDenied(c, stored)
       PROVE  TypeOK'
  <2>1. RecordThen(c, "denied", "denied", stored, Report(c, FALSE))
        /\ todo # << >>
    BY <1>10 DEF ConsentDenied, At
  <2>2. /\ pc' \in {"idle", "dispatching"} /\ round' \in 0..MaxToolRounds
        /\ todo' \in Seq(Calls) /\ toolResults' \in Seq(Results)
        /\ audit' \in [Calls -> Seq(Lines)]
    BY <2>1, RecordTyped, StoredTyped
  <2> QED
    BY <1>10, <2>2 DEF ConsentDenied
<1>11. ASSUME NEW c \in Calls, NEW outcome \in {"ok", "error"},
              NEW stored \in Stored, ToolEnds(c, outcome, stored)
       PROVE  TypeOK'
  <2>1. /\ Decision(c) \in {"auto", "user", "denied"}
        /\ ReportedOk(outcome) \in BOOLEAN
    BY DEF Decision, ReportedOk
  <2>2. /\ RecordThen(c, Decision(c), outcome, stored,
                      Report(c, ReportedOk(outcome)))
        /\ todo # << >>
    BY <1>11 DEF ToolEnds, At
  <2>3. /\ pc' \in {"idle", "dispatching"} /\ round' \in 0..MaxToolRounds
        /\ todo' \in Seq(Calls) /\ toolResults' \in Seq(Results)
        /\ audit' \in [Calls -> Seq(Lines)]
    BY <2>1, <2>2, RecordTyped, StoredTyped
  <2> QED
    BY <1>11, <2>3 DEF ToolEnds
<1>12. ASSUME NEW c \in Calls, Raises(c) PROVE TypeOK'
  BY <1>12, EndTurnTyped DEF Raises
<1>13. CASE Reset
  BY <1>13 DEF Reset
<1>14. CASE UNCHANGED vars
  BY <1>14 DEF vars
<1> QED
  BY <1>1, <1>3, <1>4, <1>5, <1>6, <1>7, <1>8, <1>9, <1>10, <1>11, <1>12,
     <1>13, <1>14 DEF Next, TurnStep, EngineStep, ExecutorStep

(* Every variable of an agent keeps its type. *)
THEOREM SpecTypeOK == Spec => []TypeOK
<1>1. Init => TypeOK
  BY BoundsAssumption DEF Init, TypeOK, BoundsAssumption
<1>2. TypeOK /\ [Next]_vars => TypeOK'
  BY BoundsAssumption, NextTypeOK
<1> QED
  BY <1>1, <1>2, PTL DEF Spec

-----------------------------------------------------------------------------
(* The inductive invariant.                                                *)

(* What is known of the call that execute() is working on. *)
LEMMA HeadOfTodo ==
  ASSUME IInv, NEW c \in Calls, todo # << >>, c = Head(todo)
  PROVE  /\ c = todo[1] /\ 1 \in 1..Len(todo)
         /\ c \in asked /\ effect[c] = "none" /\ audit[c] = << >>
         /\ pc = "dispatching" => Untouched(c)
<1>1. todo \in Seq(Calls)
  BY DEF IInv, TypeOK
<1>2. c = todo[1] /\ 1 \in 1..Len(todo)
  BY <1>1, TailMoves
<1> QED
  BY <1>2 DEF IInv, TodoIsAhead

(* Steps of the engine that touch no call. *)
LEMMA QuietStep ==
  ASSUME IInv, asked \subseteq asked', UNCHANGED executed,
         todo' = << >>, pc' \in {"idle", "calling"}
  PROVE  /\ FreshIsUntouched' /\ TodoIsAhead' /\ HeadIsCleared'
         /\ RanOnlyIfAllowed' /\ AuditIsTrue'
<1>1. Len(todo') = 0
  OBVIOUS
<1> USE DEF executed, IInv
<1>2. TodoIsAhead'
  BY <1>1 DEF TodoIsAhead
<1>3. FreshIsUntouched' /\ HeadIsCleared' /\ RanOnlyIfAllowed'
  BY DEF FreshIsUntouched, Untouched, HeadIsCleared, RanOnlyIfAllowed
<1>4. AuditIsTrue'
  BY DEF AuditIsTrue, Audited
<1> QED
  BY <1>2, <1>3, <1>4

(* Only what is recorded of c changes. *)
OnlyAbout(c) ==
    \A d \in Calls \ {c} :
        /\ risk'[d] = risk[d] /\ consent'[d] = consent[d]
        /\ effect'[d] = effect[d] /\ audit'[d] = audit[d]

(* When execute() is done with a call, what is ahead is still ahead. *)
LEMMA HeadDone ==
  ASSUME IInv, NEW c \in Calls, todo # << >>, c = Head(todo),
         UNCHANGED asked, OnlyAbout(c),
         \/ pc' = "dispatching" /\ todo' = Tail(todo)
         \/ pc' = "idle" /\ todo' = << >>
  PROVE  FreshIsUntouched' /\ TodoIsAhead' /\ HeadIsCleared'
<1>1. todo \in Seq(Calls)
  BY DEF IInv, TypeOK
<1>2. c = todo[1] /\ 1 \in 1..Len(todo) /\ c \in asked
  BY HeadOfTodo
<1>3. FreshIsUntouched'
  BY <1>2 DEF FreshIsUntouched, Untouched, OnlyAbout, IInv
<1>4. HeadIsCleared'
  BY DEF HeadIsCleared
<1>5. CASE pc' = "idle" /\ todo' = << >>
  <2>1. TodoIsAhead'
    BY <1>5 DEF TodoIsAhead
  <2> QED
    BY <2>1, <1>3, <1>4
<1>6. CASE pc' = "dispatching" /\ todo' = Tail(todo)
  <2>1. /\ Len(todo') = Len(todo) - 1 /\ Len(todo) \in Nat
        /\ \A i \in 1..Len(todo') : todo'[i] = todo[i + 1]
    BY <1>1, <1>6, TailMoves
  <2>2. ASSUME NEW i \in 1..Len(todo')
        PROVE  /\ i + 1 \in 2..Len(todo)
               /\ todo'[i] = todo[i + 1] /\ todo'[i] # c
               /\ todo'[i] \in Calls /\ todo'[i] \in asked
               /\ Untouched(todo'[i])
    <3>1. i + 1 \in 2..Len(todo) /\ i + 1 \in 1..Len(todo)
      BY <2>1
    <3>2. todo'[i] = todo[i + 1]
      BY <2>1
    <3>3. todo[i + 1] # todo[1] /\ todo[i + 1] \in asked
          /\ Untouched(todo[i + 1])
      BY <3>1, <1>2 DEF IInv, TodoIsAhead
    <3>4. todo[i + 1] \in Calls
      BY <3>1, <1>1
    <3> QED
      BY <3>1, <3>2, <3>3, <3>4, <1>2
  <2>3. \A i, j \in 1..Len(todo') : todo'[i] = todo'[j] => i = j
    <3> SUFFICES ASSUME NEW i \in 1..Len(todo'), NEW j \in 1..Len(todo'),
                        todo'[i] = todo'[j]
                 PROVE  i = j
      OBVIOUS
    <3>1. /\ i + 1 \in 1..Len(todo) /\ j + 1 \in 1..Len(todo)
          /\ todo[i + 1] = todo[j + 1]
      BY <2>1, <2>2
    <3>2. i + 1 = j + 1
      BY <3>1 DEF IInv, TodoIsAhead
    <3> QED
      BY <3>2
  <2>4. \A i \in 1..Len(todo') :
           /\ risk'[todo'[i]] = "none" /\ consent'[todo'[i]] = "none"
           /\ effect'[todo'[i]] = "none" /\ audit'[todo'[i]] = << >>
    BY <2>2 DEF OnlyAbout, Untouched
  <2>5. TodoIsAhead'
    BY <1>2, <1>6, <2>2, <2>3, <2>4 DEF TodoIsAhead, Untouched
  <2> QED
    BY <2>5, <1>3, <1>4
<1> QED
  BY <1>5, <1>6

(* The lines and the effects of the other calls stay as true as they were. *)
LEMMA OthersStayTrue ==
  ASSUME IInv, NEW c \in Calls, OnlyAbout(c),
         effect'[c] # "none" => risk'[c] = "read_only" \/ consent'[c] = "granted",
         audit'[c] # << >> =>
            \/ /\ audit'[c] = <<[decision |-> "denied", outcome |-> "denied"]>>
               /\ consent'[c] = "denied" /\ effect'[c] = "none"
            \/ /\ audit'[c] = <<[decision |-> "auto", outcome |-> effect'[c]]>>
               /\ risk'[c] = "read_only"
            \/ /\ audit'[c] = <<[decision |-> "user", outcome |-> effect'[c]]>>
               /\ consent'[c] = "granted"
  PROVE  RanOnlyIfAllowed' /\ AuditIsTrue'
<1>1. RanOnlyIfAllowed'
  BY DEF IInv, RanOnlyIfAllowed, OnlyAbout
<1>2. AuditIsTrue'
  BY DEF IInv, AuditIsTrue, Audited, OnlyAbout
<1> QED
  BY <1>1, <1>2

(* The first step of execute(): the rest of todo has not been reached. *)
LEMMA HeadGoesOn ==
  ASSUME IInv, NEW c \in Calls, todo # << >>, c = Head(todo),
         UNCHANGED <<asked, todo, effect, audit>>, OnlyAbout(c),
         pc' \in {"asking", "running"}
  PROVE  FreshIsUntouched' /\ TodoIsAhead'
<1>1. todo \in Seq(Calls)
  BY DEF IInv, TypeOK
<1>2. c = todo[1] /\ 1 \in 1..Len(todo) /\ c \in asked
  BY HeadOfTodo
<1>3. FreshIsUntouched'
  BY <1>2 DEF FreshIsUntouched, Untouched, OnlyAbout, IInv
<1>4. ASSUME NEW i \in 1..Len(todo), i > 1
      PROVE  /\ risk'[todo[i]] = "none" /\ consent'[todo[i]] = "none"
             /\ effect'[todo[i]] = "none" /\ audit'[todo[i]] = << >>
  <2>1. todo[i] \in Calls \ {c} /\ Untouched(todo[i])
    BY <1>1, <1>2, <1>4 DEF IInv, TodoIsAhead
  <2> QED
    BY <2>1 DEF OnlyAbout, Untouched
<1>5. TodoIsAhead'
  BY <1>4 DEF IInv, TodoIsAhead, Untouched
<1> QED
  BY <1>3, <1>5

(* A fresh agent satisfies the inductive invariant. *)
LEMMA InitIInv == Init => IInv
<1> SUFFICES ASSUME Init PROVE IInv
  OBVIOUS
<1>1. TypeOK
  BY BoundsAssumption DEF Init, TypeOK, BoundsAssumption
<1>2. TodoIsAhead
  BY DEF Init, TodoIsAhead
<1>3. FreshIsUntouched /\ HeadIsCleared /\ RanOnlyIfAllowed
  BY DEF Init, FreshIsUntouched, Untouched, HeadIsCleared, RanOnlyIfAllowed
<1>4. AuditIsTrue
  BY DEF Init, AuditIsTrue
<1> QED
  BY <1>1, <1>2, <1>3, <1>4 DEF IInv

(* A reply's calls are new: they are ahead, and nothing else changes. *)
LEMMA ProviderReturnsIInv ==
  ASSUME BoundsAssumption, IInv, NEW stop \in Stops, NEW calls \in Batches,
         NEW stored \in Stored, ProviderReturns(stop, calls, stored)
  PROVE  /\ FreshIsUntouched' /\ TodoIsAhead' /\ HeadIsCleared'
         /\ RanOnlyIfAllowed' /\ AuditIsTrue'
<1>1. /\ pc = "calling" /\ todo = << >>
      /\ asked' = asked \cup Elements(calls) /\ UNCHANGED executed
      /\ AppendThen(Reply(stop, calls), stored, TakeReply(stop, calls))
  BY DEF ProviderReturns, IInv, TodoIsAhead
<1>2. CASE pc' \in {"idle", "calling"} /\ todo' = << >>
  BY <1>1, <1>2, QuietStep
<1>3. CASE pc' = "dispatching" /\ todo' = calls
  <2> USE DEF executed
  <2>1. /\ \A i \in 1..Len(calls) : calls[i] \in Calls \ asked
        /\ \A i \in 1..Len(calls) : calls[i] \in Elements(calls)
        /\ \A i, j \in 1..Len(calls) : calls[i] = calls[j] => i = j
    BY BatchIsFresh DEF Elements
  <2>2. \A i \in 1..Len(calls) :
           calls[i] \in asked' /\ Untouched(calls[i])
    BY <1>1, <2>1 DEF IInv, FreshIsUntouched
  <2>3. TodoIsAhead'
    BY <1>1, <1>3, <2>1, <2>2 DEF TodoIsAhead, Untouched
  <2>4. FreshIsUntouched' /\ HeadIsCleared' /\ RanOnlyIfAllowed'
    BY <1>1, <1>3
       DEF IInv, FreshIsUntouched, Untouched, HeadIsCleared, RanOnlyIfAllowed
  <2>5. AuditIsTrue'
    BY <1>1 DEF IInv, AuditIsTrue, Audited
  <2> QED
    BY <2>3, <2>4, <2>5
<1>4. \/ pc' \in {"idle", "calling"} /\ todo' = << >>
      \/ pc' = "dispatching" /\ todo' = calls
  BY <1>1 DEF AppendThen, TakeReply, EndTurn
<1> QED
  BY <1>2, <1>3, <1>4

(* execute() ends: with an outcome in the log, or with an exception. *)
LEMMA RecordEnds ==
  ASSUME NEW c, NEW decision, NEW outcome, NEW stored, NEW ok,
         RecordThen(c, decision, outcome, stored, Report(c, ok))
  PROVE  /\ \/ pc' = "dispatching" /\ todo' = Tail(todo)
            \/ pc' = "idle" /\ todo' = << >>
         /\ \/ audit' = audit
            \/ audit' = [audit EXCEPT ![c] =
                   Append(@, [decision |-> decision, outcome |-> outcome])]
  BY DEF RecordThen, Report, EndTurn

(* Every step preserves the inductive invariant. *)
LEMMA NextIInv == BoundsAssumption /\ IInv /\ [Next]_vars => IInv'
<1> SUFFICES ASSUME BoundsAssumption, IInv, [Next]_vars PROVE IInv'
  OBVIOUS
<1> DEFINE Rest5 == /\ FreshIsUntouched' /\ TodoIsAhead' /\ HeadIsCleared'
                    /\ RanOnlyIfAllowed' /\ AuditIsTrue'
<1>1. TypeOK /\ TypeOK'
  BY NextTypeOK DEF IInv
<1>2. SUFFICES Rest5
  BY <1>1 DEF IInv
<1> HIDE DEF Rest5
<1>3. ASSUME UNCHANGED <<asked, executed>>, todo' = << >>,
             pc' \in {"idle", "calling"}
      PROVE  Rest5
  BY <1>3, QuietStep DEF Rest5
<1>4. pc \in {"idle", "calling"} => todo = << >>
  BY DEF IInv, TodoIsAhead
<1>5. ASSUME NEW stored \in Stored, StartTurn(stored) PROVE Rest5
  BY <1>3, <1>4, <1>5 DEF StartTurn, AppendThen, EndTurn, locals
<1>6. CASE ProviderRaises
  BY <1>3, <1>6 DEF ProviderRaises, EndTurn
<1>7. ASSUME NEW stop \in Stops, NEW calls \in Batches, NEW stored \in Stored,
             ProviderReturns(stop, calls, stored)
      PROVE  Rest5
  BY <1>7, ProviderReturnsIInv DEF Rest5
<1>8. CASE RoundsExceeded
  BY <1>3, <1>8 DEF RoundsExceeded, EndTurn
<1>9. ASSUME NEW stored \in Stored, SendResults(stored) PROVE Rest5
  BY <1>3, <1>9 DEF SendResults, AppendThen, EndTurn
<1>10. CASE Reset
  BY <1>3, <1>4, <1>10 DEF Reset, locals
<1>11. ASSUME NEW c \in Calls, UnknownTool(c) PROVE Rest5
  <2>1. todo # << >> /\ c = Head(todo) /\ OnlyAbout(c)
    BY <1>11 DEF UnknownTool, At, OnlyAbout, executed
  <2>2. UNCHANGED asked /\ pc' = "dispatching" /\ todo' = Tail(todo)
    BY <1>11 DEF UnknownTool, Report
  <2>3. FreshIsUntouched' /\ TodoIsAhead' /\ HeadIsCleared'
    BY <2>1, <2>2, HeadDone
  <2>4. effect'[c] = "none" /\ audit'[c] = << >>
    BY <1>11, <2>1, HeadOfTodo DEF UnknownTool, executed
  <2> QED
    BY <2>1, <2>3, <2>4, OthersStayTrue DEF Rest5
<1>12. ASSUME NEW c \in Calls, NEW r \in Risks, Classify(c, r) PROVE Rest5
  <2>1. /\ pc = "dispatching" /\ todo # << >> /\ c = Head(todo)
        /\ UNCHANGED <<asked, todo, effect, audit, consent>>
        /\ risk' = [risk EXCEPT ![c] = r]
        /\ pc' = IF NeedsConsent(r) THEN "asking" ELSE "running"
    BY <1>12 DEF Classify, At, locals
  <2>2. /\ c = todo[1] /\ effect[c] = "none" /\ audit[c] = << >>
        /\ consent[c] = "none"
    BY <2>1, HeadOfTodo DEF Untouched
  <2>3. OnlyAbout(c)
    BY <2>1, <1>1 DEF OnlyAbout, TypeOK
  <2>4. FreshIsUntouched' /\ TodoIsAhead'
    BY <2>1, <2>3, HeadGoesOn
  <2>5. risk'[c] = r
    BY <2>1, <1>1 DEF TypeOK
  <2>6. HeadIsCleared'
    BY <2>1, <2>2, <2>5 DEF HeadIsCleared, NeedsConsent
  <2> QED
    BY <2>1, <2>2, <2>3, <2>4, <2>6, OthersStayTrue DEF Rest5
<1>13. ASSUME NEW c \in Calls, ConsentGranted(c) PROVE Rest5
  <2>1. /\ pc = "asking" /\ todo # << >> /\ c = Head(todo)
        /\ UNCHANGED <<asked, todo, effect, audit, risk>>
        /\ consent' = [consent EXCEPT ![c] = "granted"]
        /\ pc' = "running"
    BY <1>13 DEF ConsentGranted, At, locals
  <2>2. c = todo[1] /\ effect[c] = "none" /\ audit[c] = << >>
    BY <2>1, HeadOfTodo
  <2>3. OnlyAbout(c) /\ consent'[c] = "granted"
    BY <2>1, <1>1 DEF OnlyAbout, TypeOK
  <2>4. FreshIsUntouched' /\ TodoIsAhead'
    BY <2>1, <2>3, HeadGoesOn
  <2>5. HeadIsCleared'
    BY <2>1, <2>2, <2>3 DEF HeadIsCleared, IInv
  <2> QED
    BY <2>1, <2>2, <2>3, <2>4, <2>5, OthersStayTrue DEF Rest5
<1>14. ASSUME NEW c \in Calls, NEW stored \in Stored, ConsentDenied(c, stored)
       PROVE  Rest5
  <2>1. /\ todo # << >> /\ c = Head(todo) /\ UNCHANGED <<asked, effect, risk>>
        /\ consent' = [consent EXCEPT ![c] = "denied"]
        /\ RecordThen(c, "denied", "denied", stored, Report(c, FALSE))
    BY <1>14 DEF ConsentDenied, At
  <2>2. effect[c] = "none" /\ audit[c] = << >>
    BY <2>1, HeadOfTodo
  <2>3. /\ \/ pc' = "dispatching" /\ todo' = Tail(todo)
           \/ pc' = "idle" /\ todo' = << >>
        /\ \/ audit' = audit
           \/ audit' = [audit EXCEPT ![c] =
                  Append(@, [decision |-> "denied", outcome |-> "denied"])]
    BY <2>1, RecordEnds
  <2>4. OnlyAbout(c) /\ consent'[c] = "denied"
    BY <2>1, <2>3, <1>1 DEF OnlyAbout, TypeOK
  <2>5. FreshIsUntouched' /\ TodoIsAhead' /\ HeadIsCleared'
    BY <2>1, <2>3, <2>4, HeadDone
  <2>6. \/ audit'[c] = << >>
        \/ audit'[c] = <<[decision |-> "denied", outcome |-> "denied"]>>
    BY <2>2, <2>3, <1>1 DEF TypeOK
  <2> QED
    BY <2>1, <2>2, <2>4, <2>5, <2>6, OthersStayTrue DEF Rest5
<1>15. ASSUME NEW c \in Calls, NEW outcome \in {"ok", "error"},
              NEW stored \in Stored, ToolEnds(c, outcome, stored)
       PROVE  Rest5
  <2>1. /\ pc = "running" /\ todo # << >> /\ c = Head(todo)
        /\ UNCHANGED <<asked, risk, consent>>
        /\ effect' = [effect EXCEPT ![c] = outcome]
        /\ RecordThen(c, Decision(c), outcome, stored,
                      Report(c, ReportedOk(outcome)))
    BY <1>15 DEF ToolEnds, At
  <2>2. c = todo[1] /\ effect[c] = "none" /\ audit[c] = << >>
    BY <2>1, HeadOfTodo
  <2>3. /\ \/ pc' = "dispatching" /\ todo' = Tail(todo)
           \/ pc' = "idle" /\ todo' = << >>
        /\ \/ audit' = audit
           \/ audit' = [audit EXCEPT ![c] =
                  Append(@, [decision |-> Decision(c), outcome |-> outcome])]
    BY <2>1 DEF RecordThen, Report, EndTurn
  <2>4. OnlyAbout(c) /\ effect'[c] = outcome
    BY <2>1, <2>3, <1>1 DEF OnlyAbout, TypeOK
  <2>5. FreshIsUntouched' /\ TodoIsAhead' /\ HeadIsCleared'
    BY <2>1, <2>3, <2>4, HeadDone
  <2>6. \/ audit'[c] = << >>
        \/ audit'[c] = <<[decision |-> Decision(c), outcome |-> outcome]>>
    BY <2>2, <2>3, <1>1 DEF TypeOK
  <2>7. \/ risk[c] = "read_only" /\ Decision(c) = "auto"
        \/ consent[c] = "granted" /\ Decision(c) = "user"
    BY <2>1, <2>2 DEF IInv, HeadIsCleared, Decision
  <2> QED
    BY <2>1, <2>4, <2>5, <2>6, <2>7, OthersStayTrue DEF Rest5
<1>16. ASSUME NEW c \in Calls, Raises(c) PROVE Rest5
  <2>1. /\ todo # << >> /\ c = Head(todo)
        /\ UNCHANGED <<asked, risk, consent, audit>>
        /\ effect' = [effect EXCEPT ![c] = IF pc = "running" THEN "raised" ELSE @]
        /\ pc' = "idle" /\ todo' = << >>
    BY <1>16 DEF Raises, At, EndTurn
  <2>2. c = todo[1] /\ effect[c] = "none" /\ audit[c] = << >>
    BY <2>1, HeadOfTodo
  <2>3. OnlyAbout(c)
    BY <2>1, <1>1 DEF OnlyAbout, TypeOK
  <2>4. FreshIsUntouched' /\ TodoIsAhead' /\ HeadIsCleared'
    BY <2>1, <2>3, HeadDone
  <2>5. effect'[c] = IF pc = "running" THEN "raised" ELSE "none"
    BY <2>1, <2>2, <1>1 DEF TypeOK
  <2>6. pc = "running" => risk[c] = "read_only" \/ consent[c] = "granted"
    BY <2>2 DEF IInv, HeadIsCleared
  <2> QED
    BY <2>1, <2>2, <2>3, <2>4, <2>5, <2>6, OthersStayTrue DEF Rest5
<1>17. CASE UNCHANGED vars
  <2>1. UNCHANGED <<pc, todo, asked, risk, consent, effect, audit>>
    BY <1>17 DEF vars, locals, executed
  <2>2. FreshIsUntouched' /\ HeadIsCleared' /\ RanOnlyIfAllowed'
    BY <2>1
       DEF IInv, FreshIsUntouched, Untouched, HeadIsCleared, RanOnlyIfAllowed
  <2>3. TodoIsAhead' /\ AuditIsTrue'
    BY <2>1 DEF IInv, TodoIsAhead, Untouched, AuditIsTrue, Audited
  <2> QED
    BY <2>2, <2>3 DEF Rest5
<1> QED
  BY <1>5, <1>6, <1>7, <1>8, <1>9, <1>10, <1>11, <1>12, <1>13, <1>14, <1>15,
     <1>16, <1>17 DEF Next, TurnStep, EngineStep, ExecutorStep

(* The inductive invariant holds in every state of an agent. *)
THEOREM SpecIInv == Spec => []IInv
<1>1. IInv /\ [Next]_vars => IInv'
  BY BoundsAssumption, NextIInv
<1> QED
  BY <1>1, InitIInv, PTL DEF Spec

(* No tool runs for a call that is not read_only unless the consent        *)
(* manager granted that very call: SafeExecutor.execute's first branch.    *)
THEOREM SpecRanOnlyIfAllowed == Spec => []RanOnlyIfAllowed
  BY SpecIInv, PTL DEF IInv

(* The audit log never has two lines for a call and never a false one,     *)
(* whatever raises in between.                                             *)
THEOREM SpecAuditIsTrue == Spec => []AuditIsTrue
  BY SpecIInv, PTL DEF IInv

-----------------------------------------------------------------------------
(* What the model is told.                                                 *)

(* The calls the model has been told about were made by the provider and   *)
(* are not ahead: what is known of them does not change any more.          *)
ToldIsBehind ==
    \A r \in Told : r.call \in asked /\ \A i \in 1..Len(todo) : todo[i] # r.call

ToldInv == ToldIsBehind /\ ModelIsToldTheLog

(* Everything told is a result of a message or of tool_results.            *)
LEMMA ToldMembers ==
  /\ \A r \in Told :
        \/ \E i \in DOMAIN history : /\ history[i].kind = "results"
                                     /\ r \in Elements(history[i].results)
        \/ r \in Elements(toolResults)
  /\ \A i \in DOMAIN history : history[i].kind = "results" =>
        Elements(history[i].results) \subseteq Told
  /\ Elements(toolResults) \subseteq Told
  BY DEF Told

(* A message more in the history tells what tool_results held, or nothing. *)
LEMMA ToldByAppend ==
  ASSUME TypeOK, NEW message, history' = Append(history, message),
         message.kind = "results" => message.results = toolResults,
         toolResults' \in {toolResults, << >>}
  PROVE  Told' \subseteq Told
<1>1. history \in Seq(Messages)
  BY DEF TypeOK
<1>2. /\ Len(history') = Len(history) + 1
      /\ DOMAIN history = 1..Len(history) /\ DOMAIN history' = 1..Len(history')
      /\ \A i \in 1..Len(history) : history'[i] = history[i]
      /\ history'[Len(history) + 1] = message
      /\ Len(history) \in Nat
  <2> HIDE DEF Messages
  <2> QED
    BY <1>1
<1>3. Elements(toolResults') \subseteq Elements(toolResults)
  BY DEF Elements
<1>4. ASSUME NEW i \in DOMAIN history', history'[i].kind = "results"
      PROVE  Elements(history'[i].results) \subseteq Told
  <2>1. CASE i \in DOMAIN history
    BY <1>2, <1>4, <2>1, ToldMembers
  <2>2. CASE i = Len(history) + 1
    BY <1>2, <1>4, <2>2, ToldMembers
  <2> QED
    BY <1>2, <2>1, <2>2
<1> QED
  BY <1>3, <1>4, ToldMembers DEF Told

(* A history that stays tells no more than it did.                         *)
LEMMA ToldBefore ==
  ASSUME history' \in {history, << >>}, toolResults' \in {toolResults, << >>}
  PROVE  Told' \subseteq Told
<1>1. Elements(toolResults') \subseteq Elements(toolResults)
  BY DEF Elements
<1>2. DOMAIN history' \subseteq DOMAIN history
      /\ \A i \in DOMAIN history' : history'[i] = history[i]
  OBVIOUS
<1> QED
  BY <1>1, <1>2 DEF Told

(* Report tells one result more.                                           *)
LEMMA ToldByReport ==
  ASSUME TypeOK, NEW c \in Calls, NEW ok \in BOOLEAN, Report(c, ok),
         UNCHANGED history
  PROVE  Told' \subseteq Told \cup {[call |-> c, ok |-> ok]}
<1> DEFINE result == [call |-> c, ok |-> ok]
<1>1. toolResults \in Seq(Results) /\ toolResults' = Append(toolResults, result)
      /\ result \in Results
  BY DEF TypeOK, Report, WithResult, Results
<1> HIDE DEF result
<1>2. Elements(toolResults') \subseteq Elements(toolResults) \cup {result}
  BY <1>1 DEF Elements
<1>3. Told' \subseteq Told \cup {result}
  BY <1>2 DEF Told
<1> QED
  BY <1>3 DEF result

(* A step of the engine, which tells nothing new and runs nothing.         *)
LEMMA EngineToldInv ==
  ASSUME IInv, ToldInv, Told' \subseteq Told, UNCHANGED executed,
         asked \subseteq asked',
         \A i \in 1..Len(todo') : todo'[i] \notin asked
  PROVE  ToldInv'
  BY DEF ToldInv, ToldIsBehind, ModelIsToldTheLog, executed

(* A step of the executor for the call at the head of todo.                *)
LEMMA ExecutorToldInv ==
  ASSUME IInv, ToldInv, NEW c \in Calls, todo # << >>, c = Head(todo),
         NEW ok \in BOOLEAN, OnlyAbout(c), UNCHANGED asked,
         \/ /\ todo' = Tail(todo)
            /\ Told' \subseteq Told \cup {[call |-> c, ok |-> ok]}
            /\ ok <=> effect'[c] = "ok"
            /\ effect'[c] # "none" => audit'[c] # << >>
         \/ todo' \in {todo, << >>} /\ Told' \subseteq Told
  PROVE  ToldInv'
<1>1. todo \in Seq(Calls) /\ asked \subseteq Calls
  BY DEF IInv, TypeOK
<1>2. c = todo[1] /\ 1 \in 1..Len(todo) /\ c \in asked
  BY HeadOfTodo
<1>3. ASSUME NEW r \in Told
      PROVE  /\ r.call \in Calls \ {c} /\ r.call \in asked'
             /\ \A i \in 1..Len(todo') : todo'[i] # r.call
             /\ r.ok <=> effect'[r.call] = "ok"
             /\ effect'[r.call] # "none" => audit'[r.call] # << >>
  <2>1. /\ r.call \in Calls \ {c} /\ r.call \in asked'
        /\ \A i \in 1..Len(todo) : todo[i] # r.call
    BY <1>1, <1>2 DEF ToldInv, ToldIsBehind
  <2>2. \A i \in 1..Len(todo') : todo'[i] # r.call
    BY <1>1, <2>1, TailMoves
  <2>3. effect'[r.call] = effect[r.call] /\ audit'[r.call] = audit[r.call]
    BY <2>1 DEF OnlyAbout
  <2> QED
    BY <2>1, <2>2, <2>3 DEF ToldInv, ModelIsToldTheLog
<1>4. CASE Told' \subseteq Told
  BY <1>3, <1>4 DEF ToldInv, ToldIsBehind, ModelIsToldTheLog
<1>5. CASE /\ todo' = Tail(todo)
           /\ Told' \subseteq Told \cup {[call |-> c, ok |-> ok]}
           /\ ok <=> effect'[c] = "ok"
           /\ effect'[c] # "none" => audit'[c] # << >>
  <2> DEFINE result == [call |-> c, ok |-> ok]
  <2>1. result.call = c /\ (result.ok <=> ok)
    BY Zenon
  <2>2. \A i \in 1..Len(todo') : todo'[i] # c
    <3>1. \A i \in 1..Len(todo') : todo'[i] = todo[i + 1] /\ i + 1 \in 1..Len(todo)
      BY <1>1, <1>5, TailMoves
    <3> QED
      BY <1>2, <3>1 DEF IInv, TodoIsAhead
  <2> HIDE DEF result
  <2>3. \A r \in Told' : r \in Told \/ r = result
    BY <1>5 DEF result
  <2>4. ToldIsBehind'
    BY <1>2, <1>3, <2>1, <2>2, <2>3 DEF ToldIsBehind
  <2>5. result.ok <=> effect'[c] = "ok"
    BY <1>5, <2>1, Zenon
  <2>6. ModelIsToldTheLog'
    BY <1>3, <1>5, <2>1, <2>5, <2>3 DEF ModelIsToldTheLog
  <2> QED
    BY <2>4, <2>6 DEF ToldInv
<1> QED
  BY <1>4, <1>5

(* Every step preserves what the model was told.                           *)
LEMMA NextToldInv ==
  BoundsAssumption /\ IInv /\ ToldInv /\ [Next]_vars => ToldInv'
<1> SUFFICES ASSUME BoundsAssumption, IInv, ToldInv, [Next]_vars
             PROVE  ToldInv'
  OBVIOUS
<1>1. TypeOK /\ TodoIsAhead
  BY DEF IInv
<1>2. pc \in {"idle", "calling"} => todo = << >>
  BY <1>1 DEF TodoIsAhead
<1>3. ASSUME EndTurn, history' = history, asked' = asked, UNCHANGED executed
      PROVE  ToldInv'
  BY <1>3, ToldBefore, EngineToldInv DEF EndTurn
<1>4. ASSUME NEW message,
             message.kind = "results" => message.results = toolResults,
             history' = Append(history, message),
             toolResults' \in {toolResults, << >>}, UNCHANGED executed,
             asked \subseteq asked',
             \A i \in 1..Len(todo') : todo'[i] \notin asked
      PROVE  ToldInv'
  BY <1>1, <1>4, ToldByAppend, EngineToldInv
<1>5. ASSUME NEW stored \in Stored, StartTurn(stored) PROVE ToldInv'
  <2>1. Input.kind # "results"
    BY DEF Input
  <2>2. /\ history' = Append(history, Input) /\ todo' = << >>
        /\ toolResults' \in {toolResults, << >>}
        /\ UNCHANGED <<asked, executed>>
    BY <1>2, <1>5 DEF StartTurn, AppendThen, EndTurn, locals
  <2> QED
    BY <1>4, <2>1, <2>2
<1>6. CASE ProviderRaises
  BY <1>3, <1>6 DEF ProviderRaises
<1>7. ASSUME NEW stop \in Stops, NEW calls \in Batches, NEW stored \in Stored,
             ProviderReturns(stop, calls, stored)
      PROVE  ToldInv'
  <2>1. Reply(stop, calls).kind # "results"
    BY DEF Reply
  <2>2. /\ history' = Append(history, Reply(stop, calls))
        /\ toolResults' \in {toolResults, << >>}
        /\ asked \subseteq asked' /\ UNCHANGED executed
        /\ todo' \in {<< >>, calls}
    BY <1>2, <1>7 DEF ProviderReturns, AppendThen, TakeReply, EndTurn
  <2>3. \A i \in 1..Len(todo') : todo'[i] \notin asked
    BY <2>2, BatchIsFresh
  <2> QED
    BY <1>4, <2>1, <2>2, <2>3
<1>8. CASE RoundsExceeded
  BY <1>3, <1>8 DEF RoundsExceeded
<1>9. ASSUME NEW stored \in Stored, SendResults(stored) PROVE ToldInv'
  <2>1. ToolResults(toolResults).results = toolResults
    BY DEF ToolResults
  <2>2. /\ history' = Append(history, ToolResults(toolResults)) /\ todo' = << >>
        /\ toolResults' = << >>
        /\ UNCHANGED <<asked, executed>>
    BY <1>9 DEF SendResults, AppendThen, EndTurn
  <2> QED
    BY <1>4, <2>1, <2>2
<1>10. CASE Reset
  <2>1. /\ history' = << >> /\ todo' = << >>
        /\ UNCHANGED <<toolResults, asked, executed>>
    BY <1>2, <1>10 DEF Reset, locals
  <2> QED
    BY <2>1, ToldBefore, EngineToldInv
<1>11. ASSUME NEW c \in Calls, UnknownTool(c) PROVE ToldInv'
  <2>1. /\ todo # << >> /\ c = Head(todo) /\ OnlyAbout(c)
        /\ Report(c, FALSE) /\ UNCHANGED <<history, asked, executed>>
    BY <1>11 DEF UnknownTool, At, OnlyAbout, executed
  <2>2. effect'[c] = "none"
    BY <2>1, HeadOfTodo DEF executed
  <2>3. Told' \subseteq Told \cup {[call |-> c, ok |-> FALSE]}
    BY <1>1, <2>1, ToldByReport
  <2>4. todo' = Tail(todo)
    BY <2>1 DEF Report
  <2> QED
    BY <2>1, <2>2, <2>3, <2>4, ExecutorToldInv
<1>12. ASSUME NEW c \in Calls, todo # << >>, c = Head(todo), OnlyAbout(c),
              UNCHANGED <<history, asked>>, toolResults' \in {toolResults, << >>},
              todo' \in {todo, << >>}
       PROVE  ToldInv'
  <2>1. Told' \subseteq Told
    BY <1>12, ToldBefore
  <2> QED
    BY <1>12, <2>1, ExecutorToldInv
<1>13. ASSUME NEW c \in Calls, NEW r \in Risks, Classify(c, r) PROVE ToldInv'
  <2>1. OnlyAbout(c)
    BY <1>1, <1>13 DEF Classify, OnlyAbout, TypeOK
  <2> QED
    BY <1>12, <1>13, <2>1 DEF Classify, At, locals
<1>14. ASSUME NEW c \in Calls, ConsentGranted(c) PROVE ToldInv'
  <2>1. OnlyAbout(c)
    BY <1>1, <1>14 DEF ConsentGranted, OnlyAbout, TypeOK
  <2> QED
    BY <1>12, <1>14, <2>1 DEF ConsentGranted, At, locals
<1>15. ASSUME NEW c \in Calls, Raises(c) PROVE ToldInv'
  <2>1. OnlyAbout(c)
    BY <1>1, <1>15 DEF Raises, OnlyAbout, TypeOK
  <2> QED
    BY <1>12, <1>15, <2>1 DEF Raises, At, EndTurn
<1>16. ASSUME NEW c \in Calls, NEW decision, NEW outcome, NEW ok \in BOOLEAN,
              NEW stored \in Stored,
              todo # << >>, c = Head(todo), OnlyAbout(c),
              UNCHANGED <<history, asked>>,
              RecordThen(c, decision, outcome, stored, Report(c, ok)),
              ok <=> effect'[c] = "ok"
       PROVE  ToldInv'
  <2>1. CASE stored
    <3>1. /\ Report(c, ok)
          /\ audit' = [audit EXCEPT ![c] =
                Append(@, [decision |-> decision, outcome |-> outcome])]
      BY <1>16, <2>1 DEF RecordThen
    <3>2. audit'[c] # << >>
      <4> DEFINE line == [decision |-> decision, outcome |-> outcome]
      <4>1. audit'[c] = Append(audit[c], line) /\ audit[c] \in Seq(Lines)
        BY <1>1, <3>1 DEF TypeOK
      <4> HIDE DEF line
      <4>2. Len(Append(audit[c], line)) = Len(audit[c]) + 1
            /\ Len(audit[c]) \in Nat
        BY <4>1
      <4> QED
        BY <4>1, <4>2
    <3>3. Told' \subseteq Told \cup {[call |-> c, ok |-> ok]}
      BY <1>1, <1>16, <3>1, ToldByReport
    <3>4. todo' = Tail(todo)
      BY <3>1 DEF Report
    <3> QED
      BY <1>16, <3>2, <3>3, <3>4, ExecutorToldInv
  <2>2. CASE ~stored
    BY <1>12, <1>16, <2>2 DEF RecordThen, EndTurn
  <2> QED
    BY <2>1, <2>2
<1>17. ASSUME NEW c \in Calls, NEW stored \in Stored, ConsentDenied(c, stored)
       PROVE  ToldInv'
  <2>1. /\ todo # << >> /\ c = Head(todo)
        /\ UNCHANGED <<history, asked, effect, risk>>
        /\ consent' = [consent EXCEPT ![c] = "denied"]
        /\ RecordThen(c, "denied", "denied", stored, Report(c, FALSE))
    BY <1>17 DEF ConsentDenied, At
  <2>2. effect'[c] = "none"
    BY <2>1, HeadOfTodo
  <2>3. OnlyAbout(c)
    BY <1>1, <2>1, RecordEnds DEF OnlyAbout, TypeOK
  <2> QED
    BY <1>16, <2>1, <2>2, <2>3
<1>18. ASSUME NEW c \in Calls, NEW outcome \in {"ok", "error"},
              NEW stored \in Stored, ToolEnds(c, outcome, stored)
       PROVE  ToldInv'
  <2>1. /\ todo # << >> /\ c = Head(todo)
        /\ UNCHANGED <<history, asked, risk, consent>>
        /\ effect' = [effect EXCEPT ![c] = outcome]
        /\ RecordThen(c, Decision(c), outcome, stored,
                      Report(c, ReportedOk(outcome)))
    BY <1>18 DEF ToolEnds, At
  <2>2. effect'[c] = outcome
    BY <1>1, <2>1 DEF TypeOK
  <2>3. ReportedOk(outcome) \in BOOLEAN /\ (ReportedOk(outcome) <=> effect'[c] = "ok")
    BY <2>2 DEF ReportedOk
  <2>4. OnlyAbout(c)
    BY <1>1, <2>1, RecordEnds DEF OnlyAbout, TypeOK
  <2> QED
    BY <1>16, <2>1, <2>3, <2>4
<1>19. CASE UNCHANGED vars
  <2>1. UNCHANGED <<history, todo, toolResults, asked, effect, audit>>
    BY <1>19 DEF vars, locals, executed
  <2>2. Told' = Told
    BY <2>1 DEF Told
  <2> QED
    BY <2>1, <2>2 DEF ToldInv, ToldIsBehind, ModelIsToldTheLog
<1> QED
  BY <1>5, <1>6, <1>7, <1>8, <1>9, <1>10, <1>11, <1>13, <1>14, <1>15, <1>17,
     <1>18, <1>19 DEF Next, TurnStep, EngineStep, ExecutorStep

(* The model is told of every call what the audit log says of it, however  *)
(* the turns before ended: run_turn's two appends to tool_results.         *)
THEOREM SpecModelIsToldTheLog == Spec => []ModelIsToldTheLog
<1>1. Init => ToldInv
  BY DEF Init, ToldInv, ToldIsBehind, ModelIsToldTheLog, Told, Elements
<1>2. IInv /\ ToldInv /\ [Next]_vars => ToldInv'
  BY BoundsAssumption, NextToldInv
<1>3. ToldInv => ModelIsToldTheLog
  BY DEF ToldInv
<1> QED
  BY <1>1, <1>2, <1>3, SpecIInv, PTL DEF Spec

-----------------------------------------------------------------------------
(* The shape of the history.                                               *)

LastMessage == history[Len(history)]

(* While the calls of a reply are dispatched, the reply is the last        *)
(* message, and what is done and what is ahead are together its calls.     *)
OpenReply ==
    /\ pc \in {"dispatching", "asking", "running"} =>
          /\ history # << >>
          /\ LastMessage.kind = "reply" /\ LastMessage.stop = "tool_use"
          /\ LastMessage.calls = CallsOf(toolResults) \o todo
    /\ pc = "calling" =>
          /\ history # << >>
          /\ LastMessage.kind = "reply" => LastMessage.stop = "pause_turn"

Answered ==
    \A i \in 1..(Len(history) - 1) :
        history[i].kind = "reply" /\ history[i].stop = "tool_use" =>
            \/ history[i + 1] = Input
            \/ /\ history[i + 1].kind = "results"
               /\ CallsOf(history[i + 1].results) = history[i].calls

(* The calls of results are a sequence of calls.                           *)
LEMMA CallsOfTyped ==
  ASSUME NEW results \in Seq(Results)
  PROVE  /\ CallsOf(results) \in Seq(Calls)
         /\ Len(CallsOf(results)) = Len(results)
         /\ \A i \in 1..Len(results) : CallsOf(results)[i] = results[i].call
<1>1. \A i \in 1..Len(results) : results[i].call \in Calls
  <2>1. \A i \in 1..Len(results) : results[i] \in Results
    OBVIOUS
  <2> QED
    BY <2>1 DEF Results
<1>2. CallsOf(results) \in [1..Len(results) -> Calls]
  BY <1>1 DEF CallsOf
<1>3. \A i \in 1..Len(results) : CallsOf(results)[i] = results[i].call
  BY DEF CallsOf
<1> DEFINE n == Len(results)  calls == CallsOf(results)
<1>4. n \in Nat /\ calls \in [1..n -> Calls]
  BY <1>2
<1> HIDE DEF n, calls
<1>5. calls \in Seq(Calls) /\ Len(calls) = n
  BY <1>4
<1> QED
  BY <1>3, <1>5 DEF n, calls

(* A call moves from the front of todo to the end of the results.          *)
LEMMA ReportKeepsTheCalls ==
  ASSUME TypeOK, NEW c \in Calls, NEW ok \in BOOLEAN, todo # << >>,
         c = Head(todo), Report(c, ok)
  PROVE  CallsOf(toolResults') \o todo' = CallsOf(toolResults) \o todo
<1> DEFINE result == [call |-> c, ok |-> ok]
           before == CallsOf(toolResults)
           after  == CallsOf(toolResults')
<1>1. /\ toolResults \in Seq(Results) /\ toolResults' = Append(toolResults, result)
      /\ result \in Results /\ result.call = c
      /\ todo \in Seq(Calls) /\ todo' = Tail(todo)
  BY DEF TypeOK, Report, WithResult, Results
<1> HIDE DEF result
<1>2. /\ toolResults' \in Seq(Results)
      /\ Len(toolResults') = Len(toolResults) + 1
      /\ \A i \in 1..Len(toolResults) : toolResults'[i] = toolResults[i]
      /\ toolResults'[Len(toolResults) + 1] = result
  BY <1>1
<1>3. /\ before \in Seq(Calls) /\ Len(before) = Len(toolResults)
      /\ \A i \in 1..Len(toolResults) : before[i] = toolResults[i].call
      /\ after \in Seq(Calls) /\ Len(after) = Len(toolResults')
      /\ \A i \in 1..Len(toolResults') : after[i] = toolResults'[i].call
  BY <1>1, <1>2, CallsOfTyped
<1> HIDE DEF before, after
<1>4. /\ Len(after) = Len(before) + 1 /\ after[Len(before) + 1] = todo[1]
      /\ \A i \in 1..Len(before) : after[i] = before[i]
      /\ Len(before) \in Nat
  <2>1. Len(toolResults) \in Nat
    BY <1>1
  <2>2. after[Len(toolResults) + 1] = c
    BY <1>1, <1>2, <1>3, <2>1
  <2>3. \A i \in 1..Len(toolResults) : after[i] = before[i]
    BY <1>2, <1>3, <2>1
  <2>4. c = todo[1]
    BY <1>1, TailMoves
  <2> QED
    BY <1>2, <1>3, <2>1, <2>2, <2>3, <2>4
<1>5. /\ todo' \in Seq(Calls) /\ Len(todo) \in Nat /\ Len(todo') = Len(todo) - 1
      /\ \A i \in 1..Len(todo') : todo'[i] = todo[i + 1]
      /\ Len(todo) > 0
  BY <1>1, TailMoves
<1>6. /\ after \o todo' \in Seq(Calls) /\ before \o todo \in Seq(Calls)
      /\ Len(after \o todo') = Len(before) + Len(todo)
      /\ Len(before \o todo) = Len(before) + Len(todo)
  <2>1. /\ after \o todo' \in Seq(Calls) /\ before \o todo \in Seq(Calls)
        /\ Len(after \o todo') = Len(after) + Len(todo')
        /\ Len(before \o todo) = Len(before) + Len(todo)
    BY <1>1, <1>3, <1>5, ConcatProperties
  <2> QED
    BY <1>4, <1>5, <2>1
<1>7. ASSUME NEW i \in 1..(Len(before) + Len(todo))
      PROVE  (after \o todo')[i] = (before \o todo)[i]
  <2>1. CASE i <= Len(before)
    BY <1>1, <1>3, <1>4, <1>5, <2>1
  <2>2. CASE i = Len(before) + 1
    BY <1>1, <1>3, <1>4, <1>5, <2>2
  <2>3. CASE i > Len(before) + 1
    <3>1. (before \o todo)[i] = todo[i - Len(before)]
      BY <1>1, <1>3, <1>4, <2>3
    <3>2. (after \o todo')[i] = todo'[i - (Len(before) + 1)]
      BY <1>3, <1>4, <1>5, <2>3
    <3>3. todo'[i - (Len(before) + 1)] = todo[(i - (Len(before) + 1)) + 1]
      BY <1>4, <1>5, <2>3
    <3>4. (i - (Len(before) + 1)) + 1 = i - Len(before)
      BY <1>4
    <3> QED
      BY <3>1, <3>2, <3>3, <3>4
  <2>4. \/ i <= Len(before) \/ i = Len(before) + 1 \/ i > Len(before) + 1
    BY <1>4
  <2> QED
    BY <2>1, <2>2, <2>3, <2>4
<1>8. after \o todo' = before \o todo
  BY <1>6, <1>7, SeqEqual
<1> QED
  BY <1>8 DEF before, after

(* A message may follow the history: it keeps what was answered answered.  *)
LEMMA AnsweredByAppend ==
  ASSUME TypeOK, Answered, NEW message \in Messages,
         history' = Append(history, message),
         history # << >> /\ LastMessage.kind = "reply"
                         /\ LastMessage.stop = "tool_use" =>
            \/ message = Input
            \/ /\ message.kind = "results"
               /\ CallsOf(message.results) = LastMessage.calls
  PROVE  Answered' /\ history' # << >> /\ LastMessage' = message
<1>1. history \in Seq(Messages)
  BY DEF TypeOK
<1>2. /\ Len(history') = Len(history) + 1
      /\ \A i \in 1..Len(history) : history'[i] = history[i]
      /\ history'[Len(history) + 1] = message
      /\ Len(history) \in Nat /\ history' # << >>
      /\ Len(history) > 0 => history # << >>
  <2> HIDE DEF Messages
  <2> QED
    BY <1>1
<1>3. ASSUME NEW i \in 1..(Len(history') - 1),
             history'[i].kind = "reply", history'[i].stop = "tool_use"
      PROVE  \/ history'[i + 1] = Input
             \/ /\ history'[i + 1].kind = "results"
                /\ CallsOf(history'[i + 1].results) = history'[i].calls
  <2>1. i \in 1..Len(history) /\ history'[i] = history[i]
    BY <1>2
  <2>2. CASE i = Len(history)
    BY <1>2, <1>3, <2>1, <2>2 DEF LastMessage
  <2>3. CASE i # Len(history)
    <3>1. i \in 1..(Len(history) - 1) /\ history'[i + 1] = history[i + 1]
      BY <1>2, <2>1, <2>3
    <3> QED
      BY <1>3, <2>1, <3>1 DEF Answered
  <2> QED
    BY <2>2, <2>3
<1> QED
  BY <1>2, <1>3 DEF Answered, LastMessage

HistoryInv == OpenReply /\ Answered

(* The invariant the runs check follows.                                   *)
LEMMA HistoryInvGivesResults == HistoryInv => ResultsFollowTheirReply
  BY DEF HistoryInv, OpenReply, Answered, LastMessage, ResultsFollowTheirReply

(* A step that leaves the history alone and ends the turn or goes on with  *)
(* the same reply.                                                         *)
LEMMA SameHistory ==
  ASSUME HistoryInv, history' = history,
         \/ pc' = "idle"
         \/ /\ pc \in {"dispatching", "asking", "running"}
            /\ pc' \in {"dispatching", "asking", "running"}
            /\ CallsOf(toolResults') \o todo' = CallsOf(toolResults) \o todo
         \/ UNCHANGED <<pc, todo, toolResults>>
  PROVE  HistoryInv'
<1>1. Answered'
  BY DEF HistoryInv, Answered
<1>2. OpenReply'
  BY DEF HistoryInv, OpenReply, LastMessage
<1> QED
  BY <1>1, <1>2 DEF HistoryInv

(* Every step preserves the shape of the history.                          *)
LEMMA NextHistoryInv ==
  BoundsAssumption /\ IInv /\ HistoryInv /\ [Next]_vars => HistoryInv'
<1> SUFFICES ASSUME BoundsAssumption, IInv, HistoryInv, [Next]_vars
             PROVE  HistoryInv'
  OBVIOUS
<1>1. TypeOK /\ TodoIsAhead /\ OpenReply /\ Answered
  BY DEF IInv, HistoryInv
<1>2. ASSUME NEW stored \in Stored, StartTurn(stored) PROVE HistoryInv'
  <2>1. history' = Append(history, Input) /\ pc' \in {"idle", "calling"}
    BY <1>2 DEF StartTurn, AppendThen, EndTurn
  <2>2. Answered' /\ history' # << >> /\ LastMessage' = Input
    BY <1>1, <2>1, MessagesTyped, AnsweredByAppend
  <2>3. Input.kind # "reply"
    BY DEF Input
  <2> QED
    BY <2>1, <2>2, <2>3 DEF HistoryInv, OpenReply
<1>3. CASE ProviderRaises
  BY <1>3, SameHistory DEF ProviderRaises, EndTurn
<1>4. ASSUME NEW stop \in Stops, NEW calls \in Batches, NEW stored \in Stored,
             ProviderReturns(stop, calls, stored)
      PROVE  HistoryInv'
  <2>1. /\ pc = "calling"
        /\ history' = Append(history, Reply(stop, calls))
        /\ \/ pc' = "idle"
           \/ pc' = "calling" /\ stop = "pause_turn"
           \/ /\ pc' = "dispatching" /\ stop = "tool_use"
              /\ todo' = calls /\ toolResults' = << >>
    BY <1>4 DEF ProviderReturns, AppendThen, TakeReply, EndTurn
  <2>2. Reply(stop, calls) \in Messages /\ calls \in Seq(Calls)
    BY MessagesTyped, BatchIsFresh
  <2>3. /\ Reply(stop, calls).kind = "reply" /\ Reply(stop, calls).stop = stop
        /\ Reply(stop, calls).calls = calls
    BY DEF Reply
  <2>4. LastMessage.kind = "reply" => LastMessage.stop # "tool_use"
    BY <1>1, <2>1 DEF OpenReply
  <2>5. Answered' /\ history' # << >> /\ LastMessage' = Reply(stop, calls)
    BY <1>1, <2>1, <2>2, <2>4, AnsweredByAppend
  <2>6. CallsOf(<< >>) \o calls = calls
    <3>1. CallsOf(<< >>) = << >>
      BY DEF CallsOf
    <3> QED
      BY <2>2, <3>1, ConcatEmptySeq
  <2> QED
    BY <2>1, <2>3, <2>5, <2>6 DEF HistoryInv, OpenReply
<1>5. CASE RoundsExceeded
  BY <1>5, SameHistory DEF RoundsExceeded, EndTurn
<1>6. ASSUME NEW stored \in Stored, SendResults(stored) PROVE HistoryInv'
  <2>1. /\ pc = "dispatching" /\ todo = << >>
        /\ history' = Append(history, ToolResults(toolResults))
        /\ pc' \in {"idle", "calling"}
    BY <1>6 DEF SendResults, AppendThen, EndTurn
  <2>2. toolResults \in Seq(Results)
    BY <1>1 DEF TypeOK
  <2>3. /\ ToolResults(toolResults) \in Messages
        /\ ToolResults(toolResults).kind = "results"
        /\ ToolResults(toolResults).results = toolResults
    BY <2>2, MessagesTyped DEF ToolResults
  <2>4. LastMessage.calls = CallsOf(toolResults)
    <3>1. LastMessage.calls = CallsOf(toolResults) \o << >>
      BY <1>1, <2>1 DEF OpenReply
    <3> QED
      BY <2>2, <3>1, CallsOfTyped, ConcatEmptySeq
  <2>5. /\ Answered' /\ history' # << >>
        /\ LastMessage' = ToolResults(toolResults)
    BY <1>1, <2>1, <2>3, <2>4, AnsweredByAppend
  <2> QED
    BY <2>1, <2>3, <2>5 DEF HistoryInv, OpenReply
<1>7. CASE Reset
  <2>1. pc' = "idle" /\ Len(history') = 0
    BY <1>7 DEF Reset
  <2> QED
    BY <2>1 DEF HistoryInv, OpenReply, Answered
<1>8. ASSUME NEW c \in Calls, NEW ok \in BOOLEAN, todo # << >>, c = Head(todo),
             Report(c, ok), pc \in {"dispatching", "asking", "running"},
             UNCHANGED history
      PROVE  HistoryInv'
  <2>1. CallsOf(toolResults') \o todo' = CallsOf(toolResults) \o todo
    BY <1>1, <1>8, ReportKeepsTheCalls
  <2> QED
    BY <1>8, <2>1, SameHistory DEF Report
<1>9. ASSUME NEW c \in Calls, NEW ok \in BOOLEAN, todo # << >>, c = Head(todo),
             NEW decision, NEW outcome, NEW stored \in Stored,
             pc \in {"asking", "running"}, UNCHANGED history,
             RecordThen(c, decision, outcome, stored, Report(c, ok))
      PROVE  HistoryInv'
  <2>1. CASE stored
    BY <1>8, <1>9, <2>1 DEF RecordThen
  <2>2. CASE ~stored
    BY <1>9, <2>2, SameHistory DEF RecordThen, EndTurn
  <2> QED
    BY <2>1, <2>2
<1>10. ASSUME NEW c \in Calls, UnknownTool(c) PROVE HistoryInv'
  BY <1>8, <1>10 DEF UnknownTool, At
<1>11. ASSUME NEW c \in Calls, NEW r \in Risks, Classify(c, r) PROVE HistoryInv'
  BY <1>11, SameHistory DEF Classify, At, locals
<1>12. ASSUME NEW c \in Calls, ConsentGranted(c) PROVE HistoryInv'
  BY <1>12, SameHistory DEF ConsentGranted, At, locals
<1>13. ASSUME NEW c \in Calls, NEW stored \in Stored, ConsentDenied(c, stored)
       PROVE  HistoryInv'
  BY <1>9, <1>13 DEF ConsentDenied, At
<1>14. ASSUME NEW c \in Calls, NEW outcome \in {"ok", "error"},
              NEW stored \in Stored, ToolEnds(c, outcome, stored)
       PROVE  HistoryInv'
  <2>1. ReportedOk(outcome) \in BOOLEAN
    BY DEF ReportedOk
  <2> QED
    BY <1>9, <1>14, <2>1 DEF ToolEnds, At
<1>15. ASSUME NEW c \in Calls, Raises(c) PROVE HistoryInv'
  BY <1>15, SameHistory DEF Raises, EndTurn
<1>16. CASE UNCHANGED vars
  BY <1>16, SameHistory DEF vars, locals
<1> QED
  BY <1>2, <1>3, <1>4, <1>5, <1>6, <1>7, <1>10, <1>11, <1>12, <1>13, <1>14,
     <1>15, <1>16 DEF Next, TurnStep, EngineStep, ExecutorStep

(* run_turn never calls the provider with a reply whose calls are open,    *)
(* and the results of a reply are complete and in the order of its calls.  *)
THEOREM SpecResultsFollowTheirReply == Spec => []ResultsFollowTheirReply
<1>1. Init => HistoryInv
  BY DEF Init, HistoryInv, OpenReply, Answered
<1>2. IInv /\ HistoryInv /\ [Next]_vars => HistoryInv'
  BY BoundsAssumption, NextHistoryInv
<1> QED
  BY <1>1, <1>2, HistoryInvGivesResults, SpecIInv, PTL DEF Spec

-----------------------------------------------------------------------------
(* How far a turn still has to go: the rounds left, then the calls of the  *)
(* reply not yet dealt with, then where execute() is with the first one.   *)
Stage(where) ==
    CASE where = "dispatching" -> 3
      [] where = "asking"      -> 2
      [] where = "running"     -> 1
      [] where = "calling"     -> 0

NearerItsEnd ==
    \/ pc' = "idle"
    \/ MaxToolRounds - round' < MaxToolRounds - round
    \/ round' = round /\ Len(todo') < Len(todo)
    \/ round' = round /\ Len(todo') = Len(todo) /\ Stage(pc') < Stage(pc)

(* Dealing with a call takes it off todo, or ends the turn. *)
LEMMA ReportIsProgress ==
  ASSUME TypeOK, NEW c, NEW ok, todo # << >>, Report(c, ok)
  PROVE  NearerItsEnd
  BY TailMoves DEF Report, NearerItsEnd, TypeOK

LEMMA RecordIsProgress ==
  ASSUME TypeOK, NEW c, NEW ok, NEW decision, NEW outcome,
         NEW stored \in BOOLEAN, todo # << >>,
         RecordThen(c, decision, outcome, stored, Report(c, ok))
  PROVE  NearerItsEnd
  BY ReportIsProgress DEF RecordThen, EndTurn, NearerItsEnd

LEMMA StepIsProgress ==
  TypeOK /\ [Next]_vars => (pc # "idle" /\ vars' # vars => NearerItsEnd)
<1> SUFFICES ASSUME TypeOK, Next, pc # "idle" PROVE NearerItsEnd
  BY DEF vars
<1>1. CASE ProviderRaises \/ RoundsExceeded
  BY <1>1 DEF ProviderRaises, RoundsExceeded, EndTurn, NearerItsEnd
<1>2. ASSUME NEW stop \in Stops, NEW calls \in Batches, NEW stored \in Stored,
             ProviderReturns(stop, calls, stored)
      PROVE  NearerItsEnd
  <2>1. EndTurn \/ TakeReply(stop, calls)
    BY <1>2 DEF ProviderReturns, AppendThen
  <2>2. EndTurn \/ round' = round + 1
    BY <2>1 DEF TakeReply
  <2>3. ASSUME round' = round + 1 PROVE NearerItsEnd
    BY <2>3, BoundsAssumption DEF TypeOK, BoundsAssumption, NearerItsEnd
  <2> QED
    BY <2>2, <2>3 DEF EndTurn, NearerItsEnd
<1>3. ASSUME NEW stored \in Stored, SendResults(stored) PROVE NearerItsEnd
  <2>1. \/ EndTurn
        \/ pc' = "calling" /\ round' = round /\ todo' = todo
    BY <1>3 DEF SendResults, AppendThen
  <2>2. pc = "dispatching"
    BY <1>3 DEF SendResults
  <2> QED
    BY <2>1, <2>2 DEF EndTurn, NearerItsEnd, Stage
<1>4. ASSUME NEW c \in Calls, UnknownTool(c) PROVE NearerItsEnd
  BY <1>4, ReportIsProgress DEF UnknownTool, At
<1>5. ASSUME NEW c \in Calls, NEW r \in Risks, Classify(c, r)
      PROVE  NearerItsEnd
  BY <1>5 DEF Classify, At, locals, NearerItsEnd, Stage
<1>6. ASSUME NEW c \in Calls, ConsentGranted(c) PROVE NearerItsEnd
  BY <1>6 DEF ConsentGranted, At, locals, NearerItsEnd, Stage
<1>7. ASSUME NEW c \in Calls, NEW stored \in Stored, ConsentDenied(c, stored)
      PROVE  NearerItsEnd
  BY <1>7, RecordIsProgress, StoredTyped DEF ConsentDenied, At
<1>8. ASSUME NEW c \in Calls, NEW outcome \in {"ok", "error"},
             NEW stored \in Stored, ToolEnds(c, outcome, stored)
      PROVE  NearerItsEnd
  BY <1>8, RecordIsProgress, StoredTyped DEF ToolEnds, At
<1>9. ASSUME NEW c \in Calls, Raises(c) PROVE NearerItsEnd
  BY <1>9 DEF Raises, EndTurn, NearerItsEnd
<1> QED
  BY <1>1, <1>2, <1>3, <1>4, <1>5, <1>6, <1>7, <1>8, <1>9
     DEF Next, StartTurn, Reset, TurnStep, EngineStep, ExecutorStep

(* run_turn cannot go round in circles, whatever provider, tools, person   *)
(* and disk do: every step of a turn ends it or brings it nearer its end   *)
(* in the lexicographic order of three natural numbers, and the first of   *)
(* them, the rounds left, is never more than MaxToolRounds.  With steps    *)
(* being taken at all (fairness) this is why every turn ends.              *)
THEOREM SpecTurnComesToItsEnd ==
  Spec => /\ [](MaxToolRounds - round \in 0..MaxToolRounds)
          /\ [][pc # "idle" => NearerItsEnd]_vars
<1>1. TypeOK => MaxToolRounds - round \in 0..MaxToolRounds
  BY BoundsAssumption DEF TypeOK, BoundsAssumption
<1>2. TypeOK /\ [Next]_vars => [pc # "idle" => NearerItsEnd]_vars
  BY StepIsProgress
<1> QED
  BY <1>1, <1>2, SpecTypeOK, PTL DEF Spec
=============================================================================
