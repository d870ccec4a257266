--------------------------- MODULE WorkflowProofs ---------------------------
(***************************************************************************)
(* Theorems about Workflows, for every set of workflows and schedules,     *)
(* every number of triggers, edits, crashes and failures.                  *)
(*                                                                         *)
(* That the history is true rests on no two threads having the same run.   *)
(* That scheduled runs are on time rests on the order of the loop's work:  *)
(* no workflow is in the list of a poll twice, so that between the check   *)
(* that finds it due and its start no scheduled run of it can come.        *)
(***************************************************************************)
EXTENDS Workflows, SequenceTheorems, FiniteSetTheorems, TLAPS

Rows == [workflow : Names, started : Moments,
         status : {"running", "ok", "error"}, how : {"scheduled", "triggered"}]

(* The stages in which a thread has a run_id. *)
Active == {"turn", "replied", "raised", "notifying", "alerting"}

(* A thread about to start a run knows of which workflow. *)
JobFits == \A t \in Threads : stage[t] = "starting" => job[t] \in Names

(* Every thread at a run has one, and no other thread has the same. *)
RunsApart ==
    /\ \A t \in Threads : stage[t] \in Active => run[t] \in DOMAIN runs
    /\ \A t, u \in Threads :
          /\ stage[t] \in Active /\ stage[u] \in Active /\ run[t] = run[u]
          => t = u

-----------------------------------------------------------------------------
(* The table of runs.                                                      *)

(* finish_run changes the status of one run and nothing else. *)
LEMMA RecordedIs ==
  ASSUME runs \in Seq(Rows), NEW i, NEW status \in {"running", "ok", "error"}
  PROVE  /\ Recorded(i, status) \in Seq(Rows)
         /\ DOMAIN Recorded(i, status) = DOMAIN runs
         /\ Len(Recorded(i, status)) = Len(runs)
         /\ \A j \in DOMAIN runs :
               /\ Recorded(i, status)[j].workflow = runs[j].workflow
               /\ Recorded(i, status)[j].started = runs[j].started
               /\ Recorded(i, status)[j].how = runs[j].how
               /\ Recorded(i, status)[j].status =
                     IF j = i THEN status ELSE runs[j].status
<1> DEFINE new == Recorded(i, status)
<1>1. new = [j \in DOMAIN runs |->
                IF j = i THEN [runs[i] EXCEPT !.status = status] ELSE runs[j]]
  BY DEF Recorded
<1>2. \A j \in DOMAIN runs :
         /\ runs[j] \in Rows
         /\ [runs[j] EXCEPT !.status = status] \in Rows
         /\ [runs[j] EXCEPT !.status = status].workflow = runs[j].workflow
         /\ [runs[j] EXCEPT !.status = status].started = runs[j].started
         /\ [runs[j] EXCEPT !.status = status].how = runs[j].how
         /\ [runs[j] EXCEPT !.status = status].status = status
  <2> SUFFICES ASSUME NEW j \in DOMAIN runs
               PROVE  /\ runs[j] \in Rows
                      /\ [runs[j] EXCEPT !.status = status] \in Rows
                      /\ [runs[j] EXCEPT !.status = status].workflow
                            = runs[j].workflow
                      /\ [runs[j] EXCEPT !.status = status].started
                            = runs[j].started
                      /\ [runs[j] EXCEPT !.status = status].how = runs[j].how
                      /\ [runs[j] EXCEPT !.status = status].status = status
    OBVIOUS
  <2>1. runs[j] \in Rows
    OBVIOUS
  <2> QED
    BY <2>1 DEF Rows
<1> HIDE DEF new
<1>3. DOMAIN new = DOMAIN runs /\ \A j \in DOMAIN runs : new[j] \in Rows
  BY <1>1, <1>2
<1>4. DOMAIN runs = 1..Len(runs) /\ Len(runs) \in Nat
  OBVIOUS
<1>5. new \in [1..Len(runs) -> Rows]
  BY <1>1, <1>2, <1>4
<1>6. new \in Seq(Rows) /\ Len(new) = Len(runs)
  BY <1>4, <1>5, SeqDef
<1>7. \A j \in DOMAIN runs :
         /\ new[j].workflow = runs[j].workflow
         /\ new[j].started = runs[j].started
         /\ new[j].how = runs[j].how
         /\ new[j].status = IF j = i THEN status ELSE runs[j].status
  BY <1>1, <1>2
<1> QED
  BY <1>3, <1>6, <1>7 DEF new

(* start_run adds a row and moves no other. *)
LEMMA StartRunAdds ==
  ASSUME TypeOK, JobFits, NEW t \in Threads, StartRun(t)
  PROVE  /\ runs' \in Seq(Rows) /\ DOMAIN runs = 1..Len(runs)
         /\ Len(runs) \in Nat /\ Len(runs') = Len(runs) + 1
         /\ DOMAIN runs' = DOMAIN runs \cup {Len(runs) + 1}
         /\ \A i \in DOMAIN runs : runs'[i] = runs[i]
         /\ runs'[Len(runs) + 1] =
               Row(job[t], IF t = "loop" THEN "scheduled" ELSE "triggered")
<1> DEFINE row == Row(job[t], IF t = "loop" THEN "scheduled" ELSE "triggered")
<1>1. row \in Rows
  BY DEF Row, Rows, JobFits, StartRun, TypeOK
<1>2. runs \in Seq(Rows)
  BY DEF TypeOK, Rows
<1>3. runs' = Append(runs, row)
  BY DEF StartRun
<1> HIDE DEF row
<1>4. /\ runs' \in Seq(Rows) /\ Len(runs) \in Nat /\ Len(runs') = Len(runs) + 1
      /\ DOMAIN runs = 1..Len(runs) /\ DOMAIN runs' = 1..Len(runs')
      /\ \A i \in 1..Len(runs) : runs'[i] = runs[i]
      /\ runs'[Len(runs) + 1] = row
  BY <1>1, <1>2, <1>3
<1>5. 1..(Len(runs) + 1) = 1..Len(runs) \cup {Len(runs) + 1}
  BY <1>4
<1> QED
  BY <1>4, <1>5 DEF row

-----------------------------------------------------------------------------
(* Type correctness, and whose runs they are.                              *)

Typed == TypeOK /\ JobFits /\ RunsApart

(* A step that neither starts a run nor touches the table: what it leaves  *)
(* in the threads' hands was in the same hands before.                     *)
LEMMA HandsStay ==
  ASSUME Typed, UNCHANGED runs,
         stage' \in [Threads -> Stages], job' \in [Threads -> Names \cup {Nobody}],
         run' \in [Threads -> 0..Len(runs)],
         \A t \in Threads : /\ stage'[t] = "starting" => job'[t] \in Names
                            /\ stage'[t] \in Active =>
                                  stage[t] \in Active /\ run'[t] = run[t]
  PROVE  /\ JobFits' /\ RunsApart'
         /\ run' \in [Threads -> 0..Len(runs')]
  BY DEF Typed, JobFits, RunsApart

(* The loop thread, its timers and its polls. *)
LEMMA LoopTyped ==
  ASSUME ScheduleAssumption, Typed, LoopStep PROVE Typed'
<1> USE DEF LoopUnchanged, threadVars, files
<1>0. TypeOK /\ "loop" \in Threads
  BY DEF Typed, Threads
<1>1. UNCHANGED <<now, up, crashes, anchor, definition, valid, edits, run, runs, lost>>
  BY DEF LoopStep, Poll, Check, Launch, WaitAgain, PollRaises
<1>2. /\ loop' \in {"waiting", "polling", "dead"} /\ polledAt' \in Moments
      /\ loaded' \in [Names -> Definitions]
      /\ toCheck' \in Seq(Names) /\ due' \in Seq(Names)
  <2>0. 0 \in Moments /\ NothingRead \in [Names -> Definitions]
    BY DEF ScheduleAssumption, Moments, NothingRead, Definitions
  <2>1. CASE Poll
    BY <1>0, <2>1 DEF Poll, Loaded, TypeOK, ScheduleAssumption
  <2>2. CASE Check
    <3>1. Head(toCheck) \in Names /\ Tail(toCheck) \in Seq(Names)
      BY <1>0, <2>2 DEF Check, TypeOK
    <3>2. due' \in Seq(Names)
      BY <1>0, <2>2, <3>1 DEF Check, TypeOK
    <3> QED
      BY <1>0, <2>2, <3>1, <3>2 DEF Check, TypeOK
  <2>3. CASE Launch
    BY <1>0, <2>3 DEF Launch, TypeOK
  <2>4. CASE WaitAgain
    BY <1>0, <2>0, <2>4 DEF WaitAgain, TypeOK
  <2>5. CASE PollRaises
    BY <2>0, <2>5 DEF PollRaises, LoopDies
  <2> QED
    BY <2>1, <2>2, <2>3, <2>4, <2>5 DEF LoopStep
<1>3. /\ stage' \in [Threads -> Stages] /\ job' \in [Threads -> Names \cup {Nobody}]
      /\ \A t \in Threads : /\ stage'[t] = "starting" => job'[t] \in Names
                            /\ stage'[t] \in Active => stage[t] \in Active
  <2>1. CASE Launch
    <3>1. Head(due) \in Names
      BY <1>0, <2>1 DEF Launch, TypeOK
    <3>2. /\ stage' = [stage EXCEPT !["loop"] = "starting"]
          /\ job' = [job EXCEPT !["loop"] = Head(due)]
      BY <2>1 DEF Launch
    <3>3. "starting" \in Stages
      BY DEF Stages
    <3> QED
      BY <1>0, <3>1, <3>2, <3>3 DEF TypeOK, Typed, JobFits, Active
  <2>2. CASE UNCHANGED threadVars
    BY <1>0, <2>2 DEF TypeOK, Typed, JobFits
  <2> QED
    BY <2>1, <2>2 DEF LoopStep, Poll, Check, WaitAgain, PollRaises
<1>4. JobFits' /\ RunsApart' /\ run' \in [Threads -> 0..Len(runs')]
  BY <1>0, <1>1, <1>3, HandsStay DEF TypeOK
<1> QED
  BY <1>0, <1>1, <1>2, <1>3, <1>4 DEF Typed, TypeOK

(* Time, the editor, the triggers, the end of the process and its start. *)
LEMMA OutsideTyped ==
  ASSUME ScheduleAssumption, Typed,
         \/ \E t \in Triggers, w \in Names : Trigger(t, w)
         \/ Tick
         \/ \E w \in Names, state \in Definitions : Edit(w, state)
         \/ Crash \/ Restart
  PROVE  Typed'
<1> USE DEF threadVars, loopVars, files
<1>0. TypeOK /\ Triggers \subseteq Threads
  BY DEF Typed, Threads
<1>1. ASSUME NEW t \in Triggers, NEW w \in Names, Trigger(t, w) PROVE Typed'
  <2>1. /\ stage' = [stage EXCEPT ![t] = "starting"] /\ stage[t] = "unused"
        /\ job' = [job EXCEPT ![t] = w]
        /\ UNCHANGED <<now, up, crashes, anchor, definition, valid, edits, loop,
                       polledAt, loaded, toCheck, due, run, runs, lost>>
    BY <1>1 DEF Trigger, LoopUnchanged
  <2>2. /\ stage' \in [Threads -> Stages] /\ job' \in [Threads -> Names \cup {Nobody}]
        /\ \A u \in Threads : /\ stage'[u] = "starting" => job'[u] \in Names
                              /\ stage'[u] \in Active => stage[u] \in Active
    BY <1>0, <2>1 DEF TypeOK, Typed, JobFits, Active, Stages
  <2>3. JobFits' /\ RunsApart' /\ run' \in [Threads -> 0..Len(runs')]
    BY <1>0, <2>1, <2>2, HandsStay DEF TypeOK
  <2> QED
    BY <1>0, <2>1, <2>2, <2>3 DEF Typed, TypeOK
<1>2. CASE Tick
  <2>1. now' \in Moments
    BY <1>0, <1>2 DEF Tick, TypeOK, Moments, ScheduleAssumption
  <2>2. UNCHANGED <<up, crashes, anchor, definition, valid, edits, loop, polledAt,
                    loaded, toCheck, due, stage, job, run, runs, lost>>
    BY <1>2 DEF Tick
  <2> QED
    BY <1>0, <2>1, <2>2 DEF Typed, TypeOK, JobFits, RunsApart
<1>3. ASSUME NEW w \in Names, NEW state \in Definitions, Edit(w, state)
      PROVE  Typed'
  <2>1. UNCHANGED <<now, up, crashes, anchor, loop, polledAt, loaded, toCheck, due,
                    stage, job, run, runs, lost>>
    BY <1>3 DEF Edit
  <2>2. definition' \in [Names -> Definitions]
    BY <1>0, <1>3 DEF Edit, TypeOK
  <2>3. valid' \in BOOLEAN
    <3>1. valid' = valid \/ valid' = ~valid
      BY <1>3 DEF Edit
    <3> QED
      BY <1>0, <3>1 DEF TypeOK
  <2>4. edits' \in 0..MaxEdits
    BY <1>0, <1>3 DEF Edit, TypeOK, ScheduleAssumption
  <2> QED
    BY <1>0, <2>1, <2>2, <2>3, <2>4 DEF Typed, TypeOK, JobFits, RunsApart
<1>4. CASE Crash
  <2>1. /\ stage' = [t \in Threads |->
                        IF stage[t] = "unused" THEN "unused" ELSE "idle"]
        /\ job' = [t \in Threads |-> Nobody] /\ run' = [t \in Threads |-> 0]
        /\ UNCHANGED <<now, anchor, definition, valid, edits, runs>>
        /\ up' = FALSE /\ loop' = "dead" /\ polledAt' = 0
        /\ loaded' = NothingRead /\ toCheck' = << >> /\ due' = << >>
    BY <1>4 DEF Crash, LoopDies
  <2>2. crashes' \in 0..MaxCrashes
    BY <1>0, <1>4 DEF Crash, TypeOK, ScheduleAssumption
  <2>3. lost' \subseteq DOMAIN runs
    <3>1. \A t \in Threads :
             stage[t] \in {"turn", "replied", "raised"} => run[t] \in DOMAIN runs
      BY DEF Typed, RunsApart, Active
    <3> QED
      BY <1>0, <1>4, <3>1 DEF Crash, TypeOK
  <2>4. 0 \in Moments /\ NothingRead \in [Names -> Definitions]
    BY DEF ScheduleAssumption, Moments, NothingRead, Definitions
  <2>5. 0 \in 0..Len(runs)
    BY <1>0 DEF TypeOK
  <2>6. JobFits' /\ RunsApart'
    BY <2>1 DEF JobFits, RunsApart, Active
  <2>7. stage' \in [Threads -> Stages]
    BY <2>1 DEF Stages
  <2>8. run' \in [Threads -> 0..Len(runs')] /\ job' \in [Threads -> Names \cup {Nobody}]
    BY <2>1, <2>5
  <2>9. /\ polledAt' \in Moments /\ loaded' \in [Names -> Definitions]
        /\ toCheck' \in Seq(Names) /\ due' \in Seq(Names)
        /\ up' \in BOOLEAN /\ loop' \in {"waiting", "polling", "dead"}
    <3>1. << >> \in Seq(Names)
      OBVIOUS
    <3>2. up' \in BOOLEAN
      BY <2>1, Zenon
    <3> QED
      BY <2>1, <2>4, <3>1, <3>2
  <2>10. /\ now' \in Moments /\ anchor' \in Moments
         /\ definition' \in [Names -> Definitions] /\ valid' \in BOOLEAN
         /\ edits' \in 0..MaxEdits /\ runs' = runs
    BY <1>0, <2>1 DEF TypeOK
  <2>11. runs \in Seq([workflow : Names, started : Moments,
                       status : {"running", "ok", "error"},
                       how : {"scheduled", "triggered"}])
    BY <1>0 DEF TypeOK
  <2> QED
    BY <2>2, <2>3, <2>6, <2>7, <2>8, <2>9, <2>10, <2>11 DEF Typed, TypeOK
<1>5. CASE Restart
  <2>1. /\ up' = TRUE /\ anchor' = now /\ loop' = "waiting"
        /\ UNCHANGED <<now, crashes, definition, valid, edits, polledAt, loaded,
                       toCheck, due, stage, job, run, runs, lost>>
    BY <1>5 DEF Restart
  <2> QED
    BY <1>0, <2>1 DEF Typed, TypeOK, JobFits, RunsApart
<1> QED
  BY <1>1, <1>2, <1>3, <1>4, <1>5

(* What the stages of a run do to the thread that is at it. *)
LEMMA RunStepMoves ==
  ASSUME NEW t \in Threads, RunStep(t)
  PROVE  /\ UNCHANGED <<now, up, crashes, anchor, definition, valid, edits>>
         /\ \/ UNCHANGED <<loop, polledAt, loaded, toCheck, due>>
            \/ t = "loop" /\ LoopDies /\ stage' = [stage EXCEPT ![t] = "idle"]
  BY DEF RunStep, RunUnchanged, StartRun, StartRaises, TurnEnds, FinishOk,
         FinishRaises, NotifyRaises, FinishError, FinishErrorRaises,
         NotifyReturns, AlertRaises, Goes, Quits, Returns, Escapes, loopVars, files

(* A step of a thread at a run that it has started: it keeps the run, or   *)
(* lets go of it.                                                          *)
LEMMA RunStepHands ==
  ASSUME NEW t \in Threads, RunStep(t), ~StartRun(t)
  PROVE  /\ \/ stage[t] = "starting" /\ stage' = [stage EXCEPT ![t] = "idle"]
            \/ /\ stage[t] \in Active
               /\ \E to \in (Active \cup {"idle"}) \ {"turn"} :
                     stage' = [stage EXCEPT ![t] = to]
         /\ \/ UNCHANGED <<job, run>>
            \/ /\ job' = [job EXCEPT ![t] = Nobody]
               /\ run' = [run EXCEPT ![t] = 0]
               /\ stage' = [stage EXCEPT ![t] = "idle"]
         /\ \/ UNCHANGED runs
            \/ stage[t] = "replied" /\ runs' = Recorded(run[t], "ok")
            \/ stage[t] = "raised" /\ runs' = Recorded(run[t], "error")
         /\ \/ UNCHANGED lost
            \/ stage[t] = "raised" /\ lost' = lost \cup {run[t]}
<1> USE DEF Active, Goes, Quits, Returns, Escapes
<1>1. CASE StartRaises(t)
  BY <1>1 DEF StartRaises
<1>2. ASSUME NEW outcome \in {"replied", "raised"}, TurnEnds(t, outcome)
      PROVE  /\ stage[t] = "turn" /\ stage' = [stage EXCEPT ![t] = outcome]
             /\ UNCHANGED <<job, run, runs, lost>>
  BY <1>2 DEF TurnEnds
<1>3. CASE FinishOk(t)
  BY <1>3 DEF FinishOk
<1>4. CASE FinishError(t)
  BY <1>4 DEF FinishError
<1>5. CASE FinishRaises(t) \/ NotifyRaises(t)
  BY <1>5 DEF FinishRaises, NotifyRaises
<1>6. CASE FinishErrorRaises(t)
  BY <1>6 DEF FinishErrorRaises
<1>7. CASE NotifyReturns(t) \/ AlertRaises(t)
  BY <1>7 DEF NotifyReturns, AlertRaises
<1> QED
  BY <1>1, <1>2, <1>3, <1>4, <1>5, <1>6, <1>7 DEF RunStep

(* A run's own steps. *)
LEMMA RunTyped ==
  ASSUME ScheduleAssumption, Typed, NEW t \in Threads, RunStep(t)
  PROVE  Typed'
<1>0. TypeOK /\ runs \in Seq(Rows) /\ Len(runs) \in Nat /\ DOMAIN runs = 1..Len(runs)
  BY DEF Typed, TypeOK, Rows
<1>1. /\ now' \in Moments /\ anchor' \in Moments /\ up' \in BOOLEAN
      /\ crashes' \in 0..MaxCrashes /\ definition' \in [Names -> Definitions]
      /\ valid' \in BOOLEAN /\ edits' \in 0..MaxEdits
  BY <1>0, RunStepMoves DEF TypeOK
<1>2. /\ loop' \in {"waiting", "polling", "dead"} /\ polledAt' \in Moments
      /\ loaded' \in [Names -> Definitions]
      /\ toCheck' \in Seq(Names) /\ due' \in Seq(Names)
  <2>1. CASE UNCHANGED <<loop, polledAt, loaded, toCheck, due>>
    BY <1>0, <2>1 DEF TypeOK
  <2>2. CASE LoopDies
    <3>1. 0 \in Moments /\ NothingRead \in [Names -> Definitions]
      BY DEF ScheduleAssumption, Moments, NothingRead, Definitions
    <3>2. << >> \in Seq(Names)
      OBVIOUS
    <3> QED
      BY <2>2, <3>1, <3>2 DEF LoopDies
  <2> QED
    BY <2>1, <2>2, RunStepMoves
<1>3. CASE StartRun(t)
  <2>1. /\ stage[t] = "starting" /\ stage' = [stage EXCEPT ![t] = "turn"]
        /\ run' = [run EXCEPT ![t] = Len(runs) + 1] /\ UNCHANGED <<job, lost>>
    BY <1>3 DEF StartRun, RunId
  <2>2. /\ runs' \in Seq(Rows) /\ Len(runs') = Len(runs) + 1
        /\ DOMAIN runs' = DOMAIN runs \cup {Len(runs) + 1}
    BY <1>3, StartRunAdds DEF Typed
  <2>3. stage' \in [Threads -> Stages] /\ run' \in [Threads -> 0..Len(runs')]
    BY <1>0, <2>1, <2>2 DEF TypeOK, Stages
  <2>4. JobFits'
    BY <1>0, <2>1 DEF Typed, JobFits, TypeOK
  <2>5. RunsApart'
    <3>1. run'[t] = Len(runs) + 1 /\ run'[t] \notin DOMAIN runs
      BY <1>0, <2>1 DEF TypeOK
    <3>2. \A u \in Threads \ {t} : stage'[u] = stage[u] /\ run'[u] = run[u]
      BY <1>0, <2>1 DEF TypeOK
    <3> QED
      BY <2>2, <3>1, <3>2 DEF Typed, RunsApart
  <2> QED
    BY <1>0, <1>1, <1>2, <2>1, <2>2, <2>3, <2>4, <2>5 DEF Typed, TypeOK, Rows
<1>4. CASE ~StartRun(t)
  <2>1. /\ stage' \in [Threads -> Stages] /\ job' \in [Threads -> Names \cup {Nobody}]
        /\ run' \in [Threads -> 0..Len(runs)]
        /\ \A u \in Threads : /\ stage'[u] = "starting" => job'[u] \in Names
                              /\ stage'[u] \in Active =>
                                    stage[u] \in Active /\ run'[u] = run[u]
    <3>1. /\ stage \in [Threads -> Stages] /\ run \in [Threads -> 0..Len(runs)]
          /\ job \in [Threads -> Names \cup {Nobody}]
          /\ \A u \in Threads : stage[u] = "starting" => job[u] \in Names
      BY <1>0 DEF Typed, TypeOK, JobFits
    <3>2. stage' \in [Threads -> Stages]
      BY <1>4, <3>1, RunStepHands DEF Active, Stages
    <3>3. job' \in [Threads -> Names \cup {Nobody}] /\ run' \in [Threads -> 0..Len(runs)]
      <4>1. 0 \in 0..Len(runs) /\ Nobody \in Names \cup {Nobody}
        BY <1>0
      <4>2. \/ job' = job /\ run' = run
            \/ /\ job' = [job EXCEPT ![t] = Nobody]
               /\ run' = [run EXCEPT ![t] = 0]
        BY <1>4, RunStepHands
      <4> QED
        BY <3>1, <4>1, <4>2
    <3>4. stage'[t] # "starting" /\ (stage'[t] \in Active => stage[t] \in Active)
      BY <1>4, <3>1, RunStepHands DEF Active
    <3>5. stage'[t] \in Active => UNCHANGED <<job, run>>
      BY <1>4, <3>1, RunStepHands DEF Active
    <3>6. \A u \in Threads \ {t} : /\ stage'[u] = stage[u]
                                   /\ job'[u] = job[u] /\ run'[u] = run[u]
      BY <1>4, <3>1, RunStepHands
    <3> QED
      BY <3>1, <3>2, <3>3, <3>4, <3>5, <3>6
  <2>2. /\ runs' \in Seq(Rows) /\ Len(runs') = Len(runs)
        /\ DOMAIN runs' = DOMAIN runs
    BY <1>0, <1>4, RunStepHands, RecordedIs
  <2>3. lost' \subseteq DOMAIN runs
    <3>1. stage[t] = "raised" => run[t] \in DOMAIN runs
      BY DEF Typed, RunsApart, Active
    <3>2. lost \subseteq DOMAIN runs
      BY <1>0 DEF TypeOK
    <3>3. \/ lost' = lost
          \/ stage[t] = "raised" /\ lost' = lost \cup {run[t]}
      BY <1>4, RunStepHands
    <3> QED
      BY <3>1, <3>2, <3>3
  <2>4. JobFits' /\ RunsApart'
    BY <2>1, <2>2 DEF Typed, JobFits, RunsApart
  <2> QED
    BY <1>1, <1>2, <2>1, <2>2, <2>3, <2>4 DEF Typed, TypeOK, Rows
<1> QED
  BY <1>3, <1>4

(* All steps. *)
LEMMA NextTyped ==
  ASSUME ScheduleAssumption, Typed, [Next]_vars PROVE Typed'
<1>1. CASE UNCHANGED vars
  BY <1>1 DEF vars, files, loopVars, threadVars, Typed, TypeOK, JobFits, RunsApart
<1> QED
  BY <1>1, LoopTyped, RunTyped, OutsideTyped DEF Next

(* The server at its first start, with an empty table. *)
LEMMA InitTyped == ScheduleAssumption /\ Init => Typed
<1> SUFFICES ASSUME ScheduleAssumption, Init PROVE Typed
  OBVIOUS
<1>1. /\ 0 \in Moments /\ NothingRead \in [Names -> Definitions]
      /\ 0 \in 0..MaxCrashes /\ 0 \in 0..MaxEdits
  BY DEF ScheduleAssumption, Moments, NothingRead, Definitions
<1>2. /\ << >> \in Seq(Names) /\ Len(<< >>) = 0
      /\ << >> \in Seq([workflow : Names, started : Moments,
                        status : {"running", "ok", "error"},
                        how : {"scheduled", "triggered"}])
  OBVIOUS
<1>3. /\ stage \in [Threads -> Stages] /\ job \in [Threads -> Names \cup {Nobody}]
      /\ run \in [Threads -> 0..Len(runs)]
      /\ definition \in [Names -> Definitions]
  <2>1. run \in [Threads -> 0..Len(runs)]
    BY <1>2 DEF Init
  <2> QED
    BY <2>1 DEF Init, Stages, Definitions
<1>4. lost \subseteq DOMAIN runs
  BY DEF Init
<1>5. up \in BOOLEAN /\ valid \in BOOLEAN
  BY Zenon DEF Init
<1>6. TypeOK
  BY <1>1, <1>2, <1>3, <1>4, <1>5 DEF Init, TypeOK
<1>7. JobFits /\ RunsApart
  BY DEF Init, JobFits, RunsApart, Active
<1> QED
  BY <1>6, <1>7 DEF Typed

(* Every variable keeps its type: in particular no thread has a run_id     *)
(* that the table lacks.                                                   *)
THEOREM SpecTypeOK == Spec => []TypeOK
<1>1. Init => Typed
  BY ScheduleAssumption, InitTyped
<1>2. Typed /\ [Next]_vars => Typed'
  BY ScheduleAssumption, NextTyped
<1>3. Typed => TypeOK
  BY DEF Typed
<1> QED
  BY <1>1, <1>2, <1>3, PTL DEF Spec

-----------------------------------------------------------------------------
(* The history is true.                                                    *)

(* A step of one thread records at most its own run. *)
LEMMA NextHistory ==
  ASSUME Typed, HistoryIsTrue, [Next]_vars PROVE HistoryIsTrue'
<1> USE DEF HistoryIsTrue
<1>0. /\ runs \in Seq(Rows) /\ Len(runs) \in Nat /\ DOMAIN runs = 1..Len(runs)
      /\ stage \in [Threads -> Stages] /\ run \in [Threads -> 0..Len(runs)]
      /\ job \in [Threads -> Names \cup {Nobody}]
  BY DEF Typed, TypeOK, Rows
<1>1. ASSUME NEW t \in Threads, StartRun(t) PROVE HistoryIsTrue'
  <2>1. /\ stage' = [stage EXCEPT ![t] = "turn"] /\ stage[t] = "starting"
        /\ run' = [run EXCEPT ![t] = Len(runs) + 1] /\ lost' = lost
    BY <1>1 DEF StartRun, RunId
  <2>2. /\ DOMAIN runs' = DOMAIN runs \cup {Len(runs) + 1}
        /\ \A i \in DOMAIN runs : runs'[i] = runs[i]
        /\ runs'[Len(runs) + 1].status = "running"
    <3>1. \A how : Row(job[t], how).status = "running"
      BY DEF Row
    <3>2. /\ DOMAIN runs' = DOMAIN runs \cup {Len(runs) + 1}
          /\ \A i \in DOMAIN runs : runs'[i] = runs[i]
          /\ runs'[Len(runs) + 1] =
                Row(job[t], IF t = "loop" THEN "scheduled" ELSE "triggered")
      <4> HIDE DEF HistoryIsTrue
      <4> QED
        BY <1>1, StartRunAdds DEF Typed
    <3> QED
      BY <3>1, <3>2
  <2>3. stage'[t] = "turn" /\ run'[t] = Len(runs) + 1
    BY <1>0, <2>1
  <2>4. \A u \in Threads \ {t} : stage'[u] = stage[u] /\ run'[u] = run[u]
    BY <1>0, <2>1
  <2>5. \A u \in Threads \ {t} : stage[u] \in Active => run[u] \in DOMAIN runs
    BY DEF Typed, RunsApart
  <2>6. ASSUME NEW i \in DOMAIN runs', runs'[i].status = "running"
        PROVE  i \in lost' \/ \E u \in Threads :
                  run'[u] = i /\ stage'[u] \in {"turn", "replied", "raised"}
    <3>1. CASE i = Len(runs) + 1
      BY <2>3, <3>1
    <3>2. CASE i \in DOMAIN runs
      <4>1. i \in lost \/ \E u \in Threads :
               run[u] = i /\ stage[u] \in {"turn", "replied", "raised"}
        BY <2>2, <2>6, <3>2
      <4> QED
        BY <2>1, <2>4, <4>1
    <3> QED
      BY <2>2, <3>1, <3>2
  <2>7. ASSUME NEW u \in Threads
        PROVE  /\ stage'[u] \in {"turn", "replied"} => runs'[run'[u]].status = "running"
               /\ stage'[u] = "notifying" => runs'[run'[u]].status = "ok"
               /\ stage'[u] = "alerting"  => runs'[run'[u]].status = "error"
    <3>1. CASE u = t
      BY <2>2, <2>3, <3>1
    <3>2. CASE u # t
      BY <2>2, <2>4, <2>5, <3>2 DEF Active
    <3> QED
      BY <3>1, <3>2
  <2> QED
    BY <2>6, <2>7
<1>2. ASSUME NEW t \in Threads, RunStep(t), ~StartRun(t) PROVE HistoryIsTrue'
  <2>1. \A u \in Threads \ {t} : stage'[u] = stage[u] /\ run'[u] = run[u]
    BY <1>0, <1>2, RunStepHands
  <2>2. \A u \in Threads : stage[u] \in Active => run[u] \in DOMAIN runs
    BY DEF Typed, RunsApart
  <2>3. \A u \in Threads \ {t} :
           stage[t] \in Active /\ stage[u] \in Active => run[u] # run[t]
    BY DEF Typed, RunsApart
  <2>4. /\ DOMAIN runs' = DOMAIN runs
        /\ \A i \in DOMAIN runs :
              i # run[t] \/ runs' = runs => runs'[i].status = runs[i].status
    BY <1>0, <1>2, RunStepHands, RecordedIs
  <2>5. runs' # runs => stage[t] \in Active
    BY <1>2, RunStepHands DEF Active
  <2>6. \/ /\ UNCHANGED runs /\ run' = run
           /\ stage[t] \in {"turn", "replied"} /\ stage'[t] \in {"replied", "raised"}
        \/ /\ stage[t] = "replied" /\ runs' = Recorded(run[t], "ok")
           /\ (stage'[t] = "notifying" /\ run' = run) \/ stage'[t] = "idle"
        \/ /\ stage[t] = "raised" /\ runs' = Recorded(run[t], "error")
           /\ (stage'[t] = "alerting" /\ run' = run) \/ stage'[t] = "idle"
        \/ UNCHANGED runs /\ stage[t] = "notifying" /\ stage'[t] = "raised" /\ run' = run
        \/ UNCHANGED runs /\ stage[t] = "raised" /\ stage'[t] = "idle" /\ run[t] \in lost'
        \/ /\ UNCHANGED runs /\ stage'[t] = "idle"
           /\ stage[t] \in {"starting", "notifying", "alerting"}
    <3> USE DEF Goes, Quits, Returns, Escapes
    <3>1. CASE StartRaises(t) \/ NotifyReturns(t) \/ AlertRaises(t)
      BY <1>0, <3>1 DEF StartRaises, NotifyReturns, AlertRaises
    <3>2. ASSUME NEW outcome \in {"replied", "raised"}, TurnEnds(t, outcome)
          PROVE  /\ UNCHANGED runs /\ run' = run /\ stage[t] = "turn"
                 /\ stage'[t] \in {"replied", "raised"}
      BY <1>0, <3>2 DEF TurnEnds
    <3>3. CASE FinishOk(t)
      BY <1>0, <3>3 DEF FinishOk
    <3>4. CASE FinishError(t)
      BY <1>0, <3>4 DEF FinishError
    <3>5. CASE FinishRaises(t) \/ NotifyRaises(t)
      BY <1>0, <3>5 DEF FinishRaises, NotifyRaises
    <3>6. CASE FinishErrorRaises(t)
      BY <1>0, <3>6 DEF FinishErrorRaises
    <3> QED
      BY <1>2, <3>1, <3>2, <3>3, <3>4, <3>5, <3>6 DEF RunStep
  <2>7. /\ runs' = Recorded(run[t], "ok") /\ stage[t] \in Active
              => runs'[run[t]].status = "ok"
        /\ runs' = Recorded(run[t], "error") /\ stage[t] \in Active
              => runs'[run[t]].status = "error"
    BY <1>0, <2>2, RecordedIs
  <2>8. lost \subseteq lost'
    BY <1>2, RunStepHands
  <2>9. ASSUME NEW i \in DOMAIN runs', runs'[i].status = "running"
        PROVE  i \in lost' \/ \E u \in Threads :
                  run'[u] = i /\ stage'[u] \in {"turn", "replied", "raised"}
    <3>1. runs[i].status = "running" /\ (i = run[t] => runs' = runs \/ stage[t] \notin {"replied", "raised"})
      BY <2>4, <2>5, <2>6, <2>7, <2>9 DEF Active
    <3>2. CASE i \in lost
      BY <2>8, <3>2
    <3>3. ASSUME NEW u \in Threads \ {t}, run[u] = i,
                 stage[u] \in {"turn", "replied", "raised"}
          PROVE  run'[u] = i /\ stage'[u] \in {"turn", "replied", "raised"}
      BY <2>1, <3>3
    <3>4. CASE run[t] = i /\ stage[t] \in {"turn", "replied", "raised"}
      <4>1. CASE stage[t] = "turn"
        BY <2>6, <3>4, <4>1
      <4>2. CASE stage[t] = "replied"
        BY <2>6, <2>7, <2>9, <3>4, <4>2 DEF Active
      <4>3. CASE stage[t] = "raised"
        BY <2>6, <2>7, <2>9, <3>4, <4>3 DEF Active
      <4> QED
        BY <3>4, <4>1, <4>2, <4>3
    <3> QED
      BY <2>4, <3>1, <3>2, <3>3, <3>4
  <2>10. ASSUME NEW u \in Threads
         PROVE  /\ stage'[u] \in {"turn", "replied"} => runs'[run'[u]].status = "running"
                /\ stage'[u] = "notifying" => runs'[run'[u]].status = "ok"
                /\ stage'[u] = "alerting"  => runs'[run'[u]].status = "error"
    <3>1. CASE u = t
      BY <2>6, <2>7, <3>1 DEF Active
    <3>2. CASE u # t
      <4>1. stage[u] \in Active => runs'[run[u]].status = runs[run[u]].status
        BY <2>2, <2>3, <2>4, <2>5, <3>2
      <4> QED
        BY <2>1, <3>2, <4>1 DEF Active
    <3> QED
      BY <3>1, <3>2
  <2> QED
    BY <2>9, <2>10
<1>3. CASE LoopStep
  <2>1. UNCHANGED <<runs, lost, run>>
    BY <1>3 DEF LoopStep, Poll, Check, Launch, WaitAgain, PollRaises,
         LoopUnchanged, threadVars
  <2>2. \/ stage' = stage
        \/ /\ stage["loop"] = "idle"
           /\ stage' = [stage EXCEPT !["loop"] = "starting"]
    BY <1>3 DEF LoopStep, Poll, Check, Launch, WaitAgain, PollRaises, threadVars
  <2>3. CASE stage' = stage
    BY <2>1, <2>3
  <2>4. CASE /\ stage["loop"] = "idle"
             /\ stage' = [stage EXCEPT !["loop"] = "starting"]
    <3>1. \A t \in Threads : stage'[t] = stage[t] \/ t = "loop"
      BY <1>0, <2>4
    <3>2. stage'["loop"] = "starting"
      BY <1>0, <2>4 DEF Threads
    <3> QED
      BY <2>1, <2>4, <3>1, <3>2
  <2> QED
    BY <2>2, <2>3, <2>4
<1>4. ASSUME NEW t \in Triggers, NEW w \in Names, Trigger(t, w)
      PROVE  HistoryIsTrue'
  <2>1. /\ UNCHANGED <<runs, lost, run>> /\ t \in Threads
        /\ stage[t] = "unused" /\ stage' = [stage EXCEPT ![t] = "starting"]
    BY <1>4 DEF Trigger, LoopUnchanged, Threads
  <2> QED
    BY <1>0, <2>1
<1>5. CASE Tick \/ Restart \/ UNCHANGED vars
              \/ \E w \in Names, state \in Definitions : Edit(w, state)
  BY <1>5 DEF Tick, Restart, Edit, vars, threadVars
<1>6. CASE Crash
  <2>1. /\ UNCHANGED runs
        /\ stage' = [t \in Threads |-> IF stage[t] = "unused" THEN "unused" ELSE "idle"]
        /\ lost' = lost \cup {run[t] : t \in {u \in Threads :
                                 stage[u] \in {"turn", "replied", "raised"}}}
    BY <1>6 DEF Crash
  <2> QED
    BY <2>1
<1> QED
  BY <1>1, <1>2, <1>3, <1>4, <1>5, <1>6 DEF Next

(* The history is true whatever fails: as long as a run says running some  *)
(* thread is at it, unless that thread was lost to a crash or its record   *)
(* to the database; and no thread reports a run otherwise than recorded.   *)
THEOREM SpecHistoryIsTrue == Spec => []HistoryIsTrue
<1>1. Init => Typed /\ HistoryIsTrue
  <2>1. Init => HistoryIsTrue
    BY DEF Init, HistoryIsTrue
  <2> QED
    BY <2>1, ScheduleAssumption, InitTyped
<1>2. Typed /\ HistoryIsTrue /\ [Next]_vars => Typed' /\ HistoryIsTrue'
  BY ScheduleAssumption, NextTyped, NextHistory
<1> QED
  BY <1>1, <1>2, PTL DEF Spec

-----------------------------------------------------------------------------
(* Scheduled runs are on time.                                             *)

(* The latest of the moments of a set is one of them, and none is later.   *)
LEMMA LatestIsLast ==
  ASSUME ScheduleAssumption, NEW S, S \subseteq Moments, S # {}
  PROVE  Latest(S) \in S /\ \A u \in S : u <= Latest(S)
<1> DEFINE T == {n \in Nat : \E x \in S : n = MaxTime - x}
<1>1. \A x \in S : x \in Nat /\ MaxTime - x \in T
  BY DEF ScheduleAssumption, Moments
<1>2. T \subseteq Nat /\ T # {}
  BY <1>1
<1> HIDE DEF T
<1>3. PICK least \in T : \A n \in T : ~(<<n, least>> \in OpToRel(<, Nat))
  BY <1>2, NatLessThanWellFounded, WFMin
<1>4. \A n \in T : ~(n < least)
  BY <1>2, <1>3 DEF OpToRel
<1>5. PICK last \in S : least = MaxTime - last
  BY DEF T
<1>6. \A x \in S : x <= last
  BY <1>1, <1>2, <1>4, <1>5 DEF ScheduleAssumption
<1> QED
  BY <1>6 DEF Latest

Once(s) == \A i, j \in DOMAIN s : s[i] = s[j] => i = j

(* The loop works off one list of a poll after the other: no workflow is   *)
(* in either of them twice or in both, or still in the list when its run   *)
(* is about to be started.                                                 *)
LoopInOrder ==
    /\ ~up => loop = "dead"
    /\ loop # "polling" => due = << >> /\ toCheck = << >> /\ stage["loop"] = "idle"
    /\ stage["loop"] # "idle" => toCheck = << >>
    /\ stage["loop"] # "unused"
    /\ Once(toCheck) /\ Once(due)
    /\ \A i \in DOMAIN due : \A j \in DOMAIN toCheck : due[i] # toCheck[j]
    /\ stage["loop"] = "starting" => \A i \in DOMAIN due : due[i] # job["loop"]

(* It is not too early for a scheduled run of w. *)
OnTime(w) ==
    /\ \A i \in DOMAIN runs : runs[i].workflow = w /\ runs[i].how = "scheduled" =>
          NextDue[w][runs[i].started] <= now
    /\ (\A i \in DOMAIN runs : runs[i].workflow # w) => NextDue[w][anchor] <= now

ChosenOnTime ==
    /\ polledAt <= now
    /\ \A i \in DOMAIN due : OnTime(due[i])
    /\ stage["loop"] = "starting" => OnTime(job["loop"])

PollInv == Typed /\ LoopInOrder /\ ChosenOnTime

(* What the loop takes from a list is not in the rest of it. *)
LEMMA TakenOnce ==
  ASSUME NEW s \in Seq(Names), s # << >>, Once(s)
  PROVE  /\ Once(Tail(s)) /\ Head(s) = s[1] /\ 1 \in DOMAIN s
         /\ \A j \in DOMAIN Tail(s) :
               Tail(s)[j] # Head(s) /\ \E i \in DOMAIN s : Tail(s)[j] = s[i]
<1>1. /\ Len(s) \in Nat /\ Len(s) > 0 /\ DOMAIN s = 1..Len(s)
      /\ Len(Tail(s)) = Len(s) - 1 /\ DOMAIN Tail(s) = 1..(Len(s) - 1)
      /\ \A j \in DOMAIN Tail(s) : Tail(s)[j] = s[j + 1]
      /\ Head(s) = s[1]
  BY HeadTailProperties, EmptySeq, LenProperties
<1>2. \A j \in DOMAIN Tail(s) : j \in Nat /\ j + 1 \in DOMAIN s /\ j + 1 # 1
  BY <1>1
<1>3. 1 \in DOMAIN s
  BY <1>1
<1>4. \A i, j \in DOMAIN Tail(s) : Tail(s)[i] = Tail(s)[j] => i = j
  <2> SUFFICES ASSUME NEW i \in DOMAIN Tail(s), NEW j \in DOMAIN Tail(s),
                      Tail(s)[i] = Tail(s)[j]
               PROVE  i = j
    OBVIOUS
  <2>1. i + 1 = j + 1
    BY <1>1, <1>2 DEF Once
  <2> QED
    BY <1>2, <2>1
<1> QED
  BY <1>1, <1>2, <1>3, <1>4 DEF Once

(* All the times the loop compares are moments. *)
LEMMA TimesTyped ==
  ASSUME ScheduleAssumption, TypeOK, NEW w \in Names
  PROVE  /\ \A i \in DOMAIN runs : runs[i].started \in Moments
         /\ anchor \in Moments /\ polledAt \in Nat /\ now \in Nat
         /\ \A t \in Moments : NextDue[w][t] \in Nat
<1>1. runs \in Seq(Rows)
  BY DEF TypeOK, Rows
<1>2. \A i \in DOMAIN runs : runs[i] \in Rows
  BY <1>1, ElementOfSeq, LenProperties
<1>3. \A i \in DOMAIN runs : runs[i].started \in Moments
  BY <1>2 DEF Rows
<1>4. anchor \in Moments /\ polledAt \in Nat /\ now \in Nat
  BY DEF TypeOK, Moments, ScheduleAssumption
<1>5. \A t \in Moments : NextDue[w][t] \in Nat
  BY DEF ScheduleAssumption
<1> QED
  BY <1>3, <1>4, <1>5

(* A workflow found due by its last start is due by all of its starts. *)
LEMMA DueIsOnTime ==
  ASSUME ScheduleAssumption, TypeOK, polledAt <= now, NEW w \in Names,
         IsDue(w, polledAt)
  PROVE  OnTime(w)
<1> DEFINE mine == {j \in DOMAIN runs : runs[j].workflow = w}
           starts == {runs[i].started : i \in mine}
<1>0. /\ \A i \in DOMAIN runs : runs[i].started \in Moments
      /\ anchor \in Moments /\ polledAt \in Nat /\ now \in Nat
      /\ \A t \in Moments : NextDue[w][t] \in Nat
  BY TimesTyped
<1>1. NextDue[w][LastStart(w)] <= polledAt
  BY DEF IsDue
<1>2. LastStart(w) = IF starts = {} THEN anchor ELSE Latest(starts)
  BY DEF LastStart
<1>3. starts \subseteq Moments
  BY <1>0
<1>4. (\A i \in DOMAIN runs : runs[i].workflow # w) => starts = {}
  OBVIOUS
<1>5. \A i \in DOMAIN runs : runs[i].workflow = w => runs[i].started \in starts
  OBVIOUS
<1> HIDE DEF starts
<1>6. ASSUME NEW i \in DOMAIN runs, runs[i].workflow = w
      PROVE  NextDue[w][runs[i].started] <= now
  <2>1. LastStart(w) \in Moments /\ runs[i].started <= LastStart(w)
    BY <1>2, <1>3, <1>5, <1>6, LatestIsLast
  <2>2. NextDue[w][runs[i].started] <= NextDue[w][LastStart(w)]
    BY <1>0, <2>1 DEF ScheduleAssumption
  <2>3. NextDue[w][runs[i].started] \in Nat /\ NextDue[w][LastStart(w)] \in Nat
    BY <1>0, <2>1
  <2> QED
    BY <1>0, <1>1, <2>2, <2>3
<1>7. (\A i \in DOMAIN runs : runs[i].workflow # w) => NextDue[w][anchor] <= now
  BY <1>0, <1>1, <1>2, <1>4
<1> QED
  BY <1>6, <1>7 DEF OnTime

(* What is on time stays on time while time passes and the table keeps its *)
(* rows, with new ones of other workflows or of manual triggers.           *)
LEMMA OnTimeStays ==
  ASSUME ScheduleAssumption, TypeOK, NEW w \in Names, OnTime(w),
         anchor' = anchor, now' \in Nat, now <= now',
         DOMAIN runs \subseteq DOMAIN runs',
         \A i \in DOMAIN runs : /\ runs'[i].workflow = runs[i].workflow
                                /\ runs'[i].started = runs[i].started
                                /\ runs'[i].how = runs[i].how,
         \A i \in DOMAIN runs' \ DOMAIN runs :
            runs'[i].workflow = w => runs'[i].how = "triggered"
  PROVE  OnTime(w)'
<1>1. /\ now \in Nat /\ anchor \in Moments
      /\ \A i \in DOMAIN runs : runs[i].started \in Moments
      /\ \A t \in Moments : NextDue[w][t] \in Nat
  BY TimesTyped
<1>2. ASSUME NEW i \in DOMAIN runs', runs'[i].workflow = w, runs'[i].how = "scheduled"
      PROVE  NextDue[w][runs'[i].started] <= now'
  <2>1. i \in DOMAIN runs
    BY <1>2
  <2>2. NextDue[w][runs[i].started] <= now /\ NextDue[w][runs[i].started] \in Nat
    BY <1>1, <1>2, <2>1 DEF OnTime
  <2> QED
    BY <1>1, <2>1, <2>2
<1>3. (\A i \in DOMAIN runs' : runs'[i].workflow # w) => NextDue[w][anchor'] <= now'
  <2> SUFFICES ASSUME \A i \in DOMAIN runs' : runs'[i].workflow # w
               PROVE  NextDue[w][anchor] <= now'
    OBVIOUS
  <2>1. NextDue[w][anchor] <= now /\ NextDue[w][anchor] \in Nat
    BY <1>1 DEF OnTime
  <2> QED
    BY <1>1, <2>1
<1> QED
  BY <1>2, <1>3 DEF OnTime

(* The loop's own steps. *)
LEMMA LoopStepOnTime ==
  ASSUME ScheduleAssumption, PollInv, LoopStep
  PROVE  LoopInOrder' /\ ChosenOnTime'
<1> USE DEF LoopUnchanged, threadVars
<1>0. /\ TypeOK /\ LoopInOrder /\ ChosenOnTime /\ "loop" \in Threads
      /\ due \in Seq(Names) /\ toCheck \in Seq(Names)
      /\ stage \in [Threads -> Stages] /\ job \in [Threads -> Names \cup {Nobody}]
  BY DEF PollInv, Typed, TypeOK, Threads
<1>1. UNCHANGED <<now, up, anchor, runs>> /\ now \in Nat
  BY <1>0 DEF LoopStep, Poll, Check, Launch, WaitAgain, PollRaises,
              TypeOK, Moments, ScheduleAssumption
<1>2. \A w : OnTime(w)' = OnTime(w)
  BY <1>1 DEF OnTime
<1>3. ASSUME due' = << >>, toCheck' = << >>, polledAt' = 0, UNCHANGED stage,
             stage["loop"] = "idle", loop' = "dead" \/ up
      PROVE  LoopInOrder' /\ ChosenOnTime'
  <2>1. DOMAIN due' = {} /\ DOMAIN toCheck' = {}
    BY <1>3
  <2>2. Once(due)' /\ Once(toCheck)'
    BY <2>1 DEF Once
  <2>3. stage'["loop"] = "idle" /\ (~up' => loop' = "dead")
    BY <1>1, <1>3
  <2>4. 0 <= now'
    BY <1>1
  <2> QED
    BY <1>3, <2>1, <2>2, <2>3, <2>4 DEF LoopInOrder, ChosenOnTime
<1>4. CASE Poll
  <2>1. /\ up /\ loop = "waiting" /\ loop' = "polling" /\ polledAt' = now
        /\ toCheck' = Loaded /\ UNCHANGED <<due, stage, job>>
    BY <1>4 DEF Poll
  <2>2. due = << >> /\ stage["loop"] = "idle"
    BY <1>0, <2>1 DEF LoopInOrder
  <2>3. DOMAIN due = {} /\ Once(due)
    BY <2>2 DEF Once
  <2>4. Once(Loaded)
    BY DEF Once, Loaded, ScheduleAssumption
  <2> QED
    BY <1>1, <2>1, <2>2, <2>3, <2>4 DEF LoopInOrder, ChosenOnTime, Once
<1>5. CASE Check
  <2> DEFINE w == Head(toCheck)
  <2>1. /\ loop = "polling" /\ toCheck # << >> /\ toCheck' = Tail(toCheck)
        /\ due' = (IF loaded[w] = "enabled" /\ IsDue(w, polledAt)
                   THEN Append(due, w) ELSE due)
        /\ UNCHANGED <<loop, polledAt, stage, job>>
    BY <1>5 DEF Check
  <2>2. /\ Once(toCheck) /\ Once(due) /\ stage["loop"] = "idle"
        /\ \A i \in DOMAIN due : \A j \in DOMAIN toCheck : due[i] # toCheck[j]
    BY <1>0, <2>1 DEF LoopInOrder
  <2>3. /\ Once(Tail(toCheck)) /\ w = toCheck[1] /\ 1 \in DOMAIN toCheck
        /\ \A j \in DOMAIN Tail(toCheck) :
              /\ Tail(toCheck)[j] # w
              /\ \E i \in DOMAIN toCheck : Tail(toCheck)[j] = toCheck[i]
    BY <1>0, <2>1, <2>2, TakenOnce
  <2>4. w \in Names
    BY <1>0, <2>3
  <2> HIDE DEF w
  <2>5. CASE due' = due
    <3>1. \A i \in DOMAIN due : \A j \in DOMAIN Tail(toCheck) :
             due[i] # Tail(toCheck)[j]
      BY <2>2, <2>3
    <3> QED
      BY <1>0, <1>1, <1>2, <2>1, <2>2, <2>3, <2>5, <3>1
         DEF LoopInOrder, ChosenOnTime, Once
  <2>6. CASE due' = Append(due, w) /\ IsDue(w, polledAt)
    <3>1. /\ DOMAIN due' = DOMAIN due \cup {Len(due) + 1}
          /\ \A i \in DOMAIN due : due'[i] = due[i]
          /\ due'[Len(due) + 1] = w
      BY <1>0, <2>4, <2>6
    <3>2. \A i \in DOMAIN due : due[i] # w
      BY <2>2, <2>3
    <3>3. Once(due)'
      BY <2>2, <3>1, <3>2 DEF Once
    <3>4. \A i \in DOMAIN due' : \A j \in DOMAIN Tail(toCheck) :
             due'[i] # Tail(toCheck)[j]
      BY <2>2, <2>3, <3>1
    <3>5. OnTime(w)
      BY <1>0, <2>4, <2>6, DueIsOnTime DEF ChosenOnTime
    <3>6. \A i \in DOMAIN due' : OnTime(due'[i])
      BY <1>0, <3>1, <3>5 DEF ChosenOnTime
    <3>7. \A i \in DOMAIN due' : OnTime(due[i])'
      BY <1>2, <3>6
    <3>8. Once(toCheck)'
      BY <2>1, <2>3 DEF Once
    <3>9. LoopInOrder'
      BY <1>0, <1>1, <2>1, <2>2, <3>3, <3>4, <3>8 DEF LoopInOrder
    <3>10. ChosenOnTime'
      BY <1>0, <1>1, <2>1, <2>2, <3>7 DEF ChosenOnTime
    <3> QED
      BY <3>9, <3>10
  <2> QED
    BY <2>1, <2>5, <2>6
<1>6. CASE Launch
  <2>1. /\ loop = "polling" /\ toCheck = << >> /\ due # << >>
        /\ stage["loop"] = "idle" /\ due' = Tail(due)
        /\ stage'["loop"] = "starting" /\ job'["loop"] = Head(due)
        /\ UNCHANGED <<loop, polledAt, toCheck>>
    BY <1>0, <1>6 DEF Launch
  <2>2. Once(due) /\ Once(toCheck)
    BY <1>0 DEF LoopInOrder
  <2>3. /\ Once(Tail(due)) /\ Head(due) = due[1] /\ 1 \in DOMAIN due
        /\ \A j \in DOMAIN Tail(due) :
              /\ Tail(due)[j] # Head(due)
              /\ \E i \in DOMAIN due : Tail(due)[j] = due[i]
    BY <1>0, <2>1, <2>2, TakenOnce
  <2>4. /\ \A j \in DOMAIN Tail(due) : OnTime(Tail(due)[j])
        /\ OnTime(Head(due))
    BY <1>0, <2>3 DEF ChosenOnTime
  <2>5. \A j \in DOMAIN due' : OnTime(due[j])'
    BY <1>2, <2>1, <2>4
  <2>6. OnTime(job["loop"])'
    BY <1>2, <2>1, <2>4
  <2>7. ChosenOnTime'
    BY <1>0, <1>1, <2>1, <2>5, <2>6 DEF ChosenOnTime
  <2>8. Once(due)' /\ Once(toCheck)' /\ DOMAIN toCheck' = {}
    BY <2>1, <2>2, <2>3 DEF Once
  <2>9. LoopInOrder'
    BY <1>0, <1>1, <2>1, <2>3, <2>8 DEF LoopInOrder
  <2> QED
    BY <2>7, <2>9
<1>7. CASE WaitAgain
  <2>1. up
    BY <1>0, <1>7 DEF WaitAgain, LoopInOrder
  <2> QED
    BY <1>3, <1>7, <2>1 DEF WaitAgain
<1>8. CASE PollRaises
  <2>1. stage["loop"] = "idle"
    BY <1>0, <1>8 DEF PollRaises, LoopInOrder
  <2> QED
    BY <1>3, <1>8, <2>1 DEF PollRaises, LoopDies
<1> QED
  BY <1>4, <1>5, <1>6, <1>7, <1>8 DEF LoopStep

(* A run's own steps: the table grows by starts alone, and only the loop's *)
(* are scheduled, of the workflow it chose.                                *)
LEMMA RunStepOnTime ==
  ASSUME ScheduleAssumption, PollInv, NEW t \in Threads, RunStep(t)
  PROVE  LoopInOrder' /\ ChosenOnTime'
<1>0. /\ Typed /\ TypeOK /\ LoopInOrder /\ ChosenOnTime
      /\ "loop" \in Threads
      /\ runs \in Seq(Rows) /\ due \in Seq(Names) /\ toCheck \in Seq(Names)
      /\ stage \in [Threads -> Stages] /\ job \in [Threads -> Names \cup {Nobody}]
  BY DEF PollInv, Typed, TypeOK, Threads, Rows
<1>1. UNCHANGED <<now, up, anchor>> /\ now \in Nat
  BY <1>0, RunStepMoves DEF TypeOK, Moments, ScheduleAssumption
<1>2. /\ \A i \in DOMAIN due : due[i] \in Names
      /\ stage["loop"] = "starting" => job["loop"] \in Names
  BY <1>0 DEF Typed, JobFits
<1>3. /\ t = "loop" => stage[t] # "idle"
      /\ t = "loop" => stage'["loop"] # "starting" /\ stage'["loop"] # "unused"
      /\ t # "loop" => stage'["loop"] = stage["loop"] /\ job'["loop"] = job["loop"]
  <2>1. CASE StartRun(t)
    BY <1>0, <2>1 DEF StartRun
  <2>2. CASE ~StartRun(t)
    <3>1. \/ stage[t] = "starting" /\ stage' = [stage EXCEPT ![t] = "idle"]
          \/ /\ stage[t] \in Active
             /\ \E to \in (Active \cup {"idle"}) \ {"turn"} :
                   stage' = [stage EXCEPT ![t] = to]
      BY <2>2, RunStepHands
    <3>2. job' = job \/ job' = [job EXCEPT ![t] = Nobody]
      BY <2>2, RunStepHands
    <3> QED
      BY <1>0, <3>1, <3>2 DEF Active
  <2> QED
    BY <2>1, <2>2
<1>4. LoopInOrder'
  <2>1. CASE UNCHANGED <<loop, polledAt, loaded, toCheck, due>>
    <3>1. Once(due)' /\ Once(toCheck)'
      BY <1>0, <2>1 DEF LoopInOrder, Once
    <3>2. loop # "polling" => stage'["loop"] = "idle"
      BY <1>0, <1>3 DEF LoopInOrder
    <3>3. stage'["loop"] # "idle" => toCheck = << >>
      BY <1>0, <1>3 DEF LoopInOrder
    <3> QED
      BY <1>0, <1>1, <1>3, <2>1, <3>1, <3>2, <3>3 DEF LoopInOrder
  <2>2. CASE t = "loop" /\ LoopDies /\ stage' = [stage EXCEPT ![t] = "idle"]
    <3>1. /\ loop' = "dead" /\ toCheck' = << >> /\ due' = << >>
          /\ stage'["loop"] = "idle"
      BY <1>0, <2>2 DEF LoopDies
    <3>2. DOMAIN due' = {} /\ DOMAIN toCheck' = {}
      BY <3>1
    <3>3. Once(due)' /\ Once(toCheck)'
      BY <3>2 DEF Once
    <3> QED
      BY <3>1, <3>2, <3>3 DEF LoopInOrder
  <2> QED
    BY <2>1, <2>2, RunStepMoves
<1>5. ASSUME NEW w \in Names, OnTime(w),
             stage["loop"] = "starting" /\ t = "loop" => w # job["loop"]
      PROVE  OnTime(w)'
  <2>1. CASE StartRun(t)
    <3>1. /\ DOMAIN runs' = DOMAIN runs \cup {Len(runs) + 1}
          /\ \A i \in DOMAIN runs : runs'[i] = runs[i]
          /\ runs'[Len(runs) + 1] =
                Row(job[t], IF t = "loop" THEN "scheduled" ELSE "triggered")
          /\ stage[t] = "starting"
      BY <1>0, <2>1, StartRunAdds DEF Typed, StartRun
    <3>2. /\ runs'[Len(runs) + 1].workflow = job[t]
          /\ t # "loop" => runs'[Len(runs) + 1].how = "triggered"
      BY <3>1 DEF Row
    <3>3. runs'[Len(runs) + 1].workflow = w => runs'[Len(runs) + 1].how = "triggered"
      BY <1>5, <3>1, <3>2
    <3>4. \A i \in DOMAIN runs' \ DOMAIN runs : i = Len(runs) + 1
      BY <3>1
    <3>5. \A i \in DOMAIN runs' \ DOMAIN runs :
             runs'[i].workflow = w => runs'[i].how = "triggered"
      BY <3>3, <3>4
    <3>6. /\ DOMAIN runs \subseteq DOMAIN runs'
          /\ \A i \in DOMAIN runs : /\ runs'[i].workflow = runs[i].workflow
                                    /\ runs'[i].started = runs[i].started
                                    /\ runs'[i].how = runs[i].how
      BY <3>1
    <3>7. now' \in Nat /\ now <= now' /\ anchor' = anchor
      BY <1>1
    <3> QED
      BY <1>0, <1>5, <3>5, <3>6, <3>7, OnTimeStays
  <2>2. CASE ~StartRun(t)
    <3>1. \/ runs' = runs
          \/ \E i, status : status \in {"running", "ok", "error"}
                               /\ runs' = Recorded(i, status)
      BY <2>2, RunStepHands
    <3>2. /\ DOMAIN runs' = DOMAIN runs
          /\ \A i \in DOMAIN runs : /\ runs'[i].workflow = runs[i].workflow
                                    /\ runs'[i].started = runs[i].started
                                    /\ runs'[i].how = runs[i].how
      BY <1>0, <3>1, RecordedIs
    <3> QED
      BY <1>0, <1>1, <1>5, <3>2, OnTimeStays
  <2> QED
    BY <2>1, <2>2
<1>6. ChosenOnTime'
  <2>1. polledAt' <= now'
    BY <1>0, <1>1, RunStepMoves DEF ChosenOnTime, LoopDies
  <2>2. \A i \in DOMAIN due' : OnTime(due[i])'
    <3>1. CASE due' = due
      <4> SUFFICES ASSUME NEW i \in DOMAIN due PROVE OnTime(due[i])'
        BY <3>1
      <4>1. due[i] \in Names /\ OnTime(due[i])
        BY <1>0, <1>2 DEF ChosenOnTime
      <4>2. stage["loop"] = "starting" => due[i] # job["loop"]
        BY <1>0 DEF LoopInOrder
      <4> QED
        BY <1>5, <4>1, <4>2, <3>1
    <3>2. CASE due' = << >>
      BY <3>2
    <3> QED
      BY <3>1, <3>2, RunStepMoves DEF LoopDies
  <2>3. stage'["loop"] = "starting" => OnTime(job["loop"])'
    BY <1>0, <1>2, <1>3, <1>5 DEF ChosenOnTime
  <2> QED
    BY <2>1, <2>2, <2>3 DEF ChosenOnTime
<1> QED
  BY <1>4, <1>6

(* Time, the editor, the triggers, the end of the process and its start:   *)
(* a restart moves the anchor, but then nothing is chosen.                 *)
LEMMA OutsideOnTime ==
  ASSUME ScheduleAssumption, PollInv,
         \/ \E t \in Triggers, w \in Names : Trigger(t, w)
         \/ Tick
         \/ \E w \in Names, state \in Definitions : Edit(w, state)
         \/ Crash \/ Restart
  PROVE  LoopInOrder' /\ ChosenOnTime'
<1> USE DEF loopVars, threadVars, files
<1>0. /\ Typed /\ TypeOK /\ LoopInOrder /\ ChosenOnTime
      /\ "loop" \in Threads /\ "loop" \notin Triggers
      /\ runs \in Seq(Rows) /\ due \in Seq(Names) /\ toCheck \in Seq(Names)
      /\ stage \in [Threads -> Stages] /\ job \in [Threads -> Names \cup {Nobody}]
  BY DEF PollInv, Typed, TypeOK, Threads, Rows, ScheduleAssumption
<1>1. now \in Nat /\ polledAt \in Nat
  BY <1>0 DEF TypeOK, Moments, ScheduleAssumption
<1>2. /\ \A i \in DOMAIN due : due[i] \in Names
      /\ stage["loop"] = "starting" => job["loop"] \in Names
  BY <1>0 DEF Typed, JobFits
<1>3. ASSUME UNCHANGED <<up, anchor, loop, polledAt, toCheck, due, runs>>,
             stage'["loop"] = stage["loop"], job'["loop"] = job["loop"],
             now' \in Nat, now <= now'
      PROVE  LoopInOrder' /\ ChosenOnTime'
  <2>1. \A w \in Names : OnTime(w) => OnTime(w)'
    BY <1>0, <1>3, OnTimeStays
  <2>2. Once(due)' /\ Once(toCheck)'
    BY <1>0, <1>3 DEF LoopInOrder, Once
  <2>3. LoopInOrder'
    BY <1>0, <1>3, <2>2 DEF LoopInOrder
  <2>4. \A i \in DOMAIN due' : OnTime(due[i])'
    BY <1>0, <1>2, <1>3, <2>1 DEF ChosenOnTime
  <2>5. stage'["loop"] = "starting" => OnTime(job["loop"])'
    BY <1>0, <1>2, <1>3, <2>1 DEF ChosenOnTime
  <2>6. polledAt' <= now'
    BY <1>0, <1>1, <1>3 DEF ChosenOnTime
  <2> QED
    BY <2>3, <2>4, <2>5, <2>6 DEF ChosenOnTime
<1>4. ASSUME NEW t \in Triggers, NEW w \in Names, Trigger(t, w)
      PROVE  LoopInOrder' /\ ChosenOnTime'
  BY <1>0, <1>1, <1>3, <1>4 DEF Trigger, LoopUnchanged
<1>5. CASE Tick
  <2>1. now' \in Nat /\ now <= now'
    BY <1>1, <1>5 DEF Tick
  <2> QED
    BY <1>3, <1>5, <2>1 DEF Tick
<1>6. ASSUME NEW w \in Names, NEW state \in Definitions, Edit(w, state)
      PROVE  LoopInOrder' /\ ChosenOnTime'
  BY <1>1, <1>3, <1>6 DEF Edit
<1>7. ASSUME loop' = "dead" \/ up', due' = << >>, toCheck' = << >>,
             stage'["loop"] = "idle", polledAt' <= now'
      PROVE  LoopInOrder' /\ ChosenOnTime'
  <2>1. DOMAIN due' = {} /\ DOMAIN toCheck' = {}
    BY <1>7
  <2>2. Once(due)' /\ Once(toCheck)'
    BY <2>1 DEF Once
  <2> QED
    BY <1>7, <2>1, <2>2 DEF LoopInOrder, ChosenOnTime
<1>8. CASE Crash
  <2>1. stage'["loop"] = "idle"
    BY <1>0, <1>8 DEF Crash, LoopInOrder
  <2>2. polledAt' = 0 /\ now' = now
    BY <1>8 DEF Crash, LoopDies
  <2> QED
    BY <1>1, <1>7, <1>8, <2>1, <2>2 DEF Crash, LoopDies
<1>9. CASE Restart
  <2>1. loop = "dead"
    BY <1>0, <1>9 DEF Restart, LoopInOrder
  <2>2. due = << >> /\ toCheck = << >> /\ stage["loop"] = "idle" /\ polledAt <= now
    BY <1>0, <2>1 DEF LoopInOrder, ChosenOnTime
  <2> QED
    BY <1>7, <1>9, <2>2 DEF Restart
<1> QED
  BY <1>4, <1>5, <1>6, <1>8, <1>9

(* All steps, from the first start on. *)
LEMMA PollInvHolds == Spec => []PollInv
<1>1. Init => PollInv
  <2> SUFFICES ASSUME Init PROVE PollInv
    OBVIOUS
  <2>1. Typed
    BY ScheduleAssumption, InitTyped
  <2>2. DOMAIN due = {} /\ DOMAIN toCheck = {} /\ stage["loop"] = "idle"
    BY DEF Init, Threads
  <2>3. Once(due) /\ Once(toCheck)
    BY <2>2 DEF Once
  <2>4. LoopInOrder
    BY <2>2, <2>3 DEF Init, LoopInOrder
  <2>5. ChosenOnTime
    BY <2>2 DEF Init, ChosenOnTime
  <2> QED
    BY <2>1, <2>4, <2>5 DEF PollInv
<1>2. PollInv /\ [Next]_vars => PollInv'
  <2> SUFFICES ASSUME PollInv, [Next]_vars PROVE PollInv'
    OBVIOUS
  <2>1. Typed /\ Typed'
    BY ScheduleAssumption, NextTyped DEF PollInv
  <2>2. CASE UNCHANGED vars
    <3>1. \A w : OnTime(w)' = OnTime(w)
      BY <2>2 DEF OnTime, vars
    <3> QED
      BY <2>1, <2>2, <3>1 DEF PollInv, LoopInOrder, ChosenOnTime, Once,
           vars, loopVars, threadVars
  <2> QED
    BY <2>1, <2>2, ScheduleAssumption, LoopStepOnTime, RunStepOnTime, OutsideOnTime
       DEF Next, PollInv
<1> QED
  BY <1>1, <1>2, PTL DEF Spec

(* A row comes into the table only as the start of a run, by its thread.   *)
LEMMA NewRowsAreStarts ==
  ASSUME Typed, [Next]_vars, NEW i \in DOMAIN runs' \ DOMAIN runs
  PROVE  \E t \in Threads :
            /\ stage[t] = "starting"
            /\ runs'[i] =
                  Row(job[t], IF t = "loop" THEN "scheduled" ELSE "triggered")
<1>0. runs \in Seq(Rows)
  BY DEF Typed, TypeOK, Rows
<1>1. ASSUME NEW t \in Threads, RunStep(t), ~StartRun(t) PROVE FALSE
  <2>1. \/ runs' = runs
        \/ \E j, status : status \in {"running", "ok", "error"}
                             /\ runs' = Recorded(j, status)
    BY <1>1, RunStepHands
  <2> QED
    BY <1>0, <2>1, RecordedIs
<1>2. ASSUME NEW t \in Threads, StartRun(t)
      PROVE  /\ stage[t] = "starting"
             /\ runs'[i] =
                   Row(job[t], IF t = "loop" THEN "scheduled" ELSE "triggered")
  <2>1. /\ DOMAIN runs' = DOMAIN runs \cup {Len(runs) + 1}
        /\ runs'[Len(runs) + 1] =
              Row(job[t], IF t = "loop" THEN "scheduled" ELSE "triggered")
    BY <1>2, StartRunAdds DEF Typed
  <2>2. i = Len(runs) + 1
    BY <2>1
  <2> QED
    BY <1>2, <2>1, <2>2 DEF StartRun
<1>3. runs' # runs
  OBVIOUS
<1>4. ASSUME LoopStep PROVE FALSE
  BY <1>3, <1>4 DEF LoopStep, Poll, Check, Launch, WaitAgain, PollRaises, LoopUnchanged
<1>5. ASSUME NEW t \in Triggers, NEW w \in Names, Trigger(t, w) PROVE FALSE
  BY <1>3, <1>5 DEF Trigger, LoopUnchanged
<1>6. ASSUME \/ Tick \/ Crash \/ Restart \/ UNCHANGED vars
             \/ \E w \in Names, state \in Definitions : Edit(w, state)
      PROVE  FALSE
  BY <1>3, <1>6 DEF Tick, Crash, Restart, Edit, vars
<1> QED
  BY <1>1, <1>2, <1>4, <1>5, <1>6 DEF Next

(* The scheduler never starts a workflow that never ran before next_run of *)
(* the anchor, nor one again before next_run of any of its own starts,     *)
(* whatever is triggered by hand, comes, goes, fails or restarts meanwhile. *)
THEOREM SpecScheduledRunsAreOnTime == Spec => ScheduledRunsAreOnTime
<1> DEFINE Starts(w) == {runs[j].started : j \in {k \in DOMAIN runs :
                            runs[k].workflow = w /\ runs[k].how = "scheduled"}}
<1>1. ASSUME PollInv, [Next]_vars,
             NEW i \in DOMAIN runs' \ DOMAIN runs, runs'[i].how = "scheduled"
      PROVE  /\ \A s \in Starts(runs'[i].workflow) :
                    NextDue[runs'[i].workflow][s] <= now
             /\ (\A j \in DOMAIN runs : runs[j].workflow # runs'[i].workflow)
                    => NextDue[runs'[i].workflow][anchor] <= now
  <2>1. PICK t \in Threads :
           /\ stage[t] = "starting"
           /\ runs'[i] =
                 Row(job[t], IF t = "loop" THEN "scheduled" ELSE "triggered")
    BY <1>1, NewRowsAreStarts DEF PollInv
  <2>2. t = "loop" /\ runs'[i].workflow = job[t]
    BY <1>1, <2>1 DEF Row
  <2>3. OnTime(job["loop"])
    BY <1>1, <2>1, <2>2 DEF PollInv, ChosenOnTime
  <2> QED
    BY <2>2, <2>3 DEF OnTime
<1>2. PollInv /\ [Next]_vars =>
         [\A i \in DOMAIN runs' \ DOMAIN runs :
            LET new == runs'[i]
                starts == {runs[j].started : j \in {k \in DOMAIN runs :
                            runs[k].workflow = new.workflow /\ runs[k].how = "scheduled"}}
            IN new.how = "scheduled" =>
                  /\ \A s \in starts : NextDue[new.workflow][s] <= now
                  /\ (\A j \in DOMAIN runs : runs[j].workflow # new.workflow)
                         => NextDue[new.workflow][anchor] <= now]_vars
  BY <1>1
<1> QED
  BY <1>2, PollInvHolds, PTL DEF Spec, ScheduledRunsAreOnTime
=============================================================================
