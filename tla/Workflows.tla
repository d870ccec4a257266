----------------------------- MODULE Workflows -----------------------------
(***************************************************************************)
(* The workflows of the server: the scheduler's loop thread                *)
(* (workflows/scheduler.py), the threads of manual triggers, the runner    *)
(* both of them call (workflows/runner.py) and the run history they share  *)
(* (workflows/store.py), which is all that survives a restart.             *)
(*                                                                         *)
(* A step of the loop is one look at one workflow; a step of a run is one  *)
(* call of the store, the agent or the notifier.  Time is local time and   *)
(* never goes back.  What a definition says besides its schedule and its   *)
(* notify flag, and the text of replies, is left out.                      *)
(***************************************************************************)
EXTENDS Naturals, Sequences

CONSTANTS
    Files,          \* the names of the workflows, in the order of their files
    NextDue,        \* NextDue[w][t]: parsed_schedule().next_run(t), see Schedule
    Notifying,      \* the workflows with notify: true
    Triggers,       \* bound: the POST /workflows/{name}/run requests
    MaxTime,        \* bound: the last moment
    MaxCrashes,     \* bound: how often the server goes down
    MaxEdits,       \* bound: how often a file is changed
    StorageFails,   \* may the directory or the database raise?
    NotifierFails   \* may osascript raise (its timeout is not caught)?

Names == {Files[i] : i \in DOMAIN Files}
Moments == 0..MaxTime

ASSUME ScheduleAssumption ==
    /\ MaxTime \in Nat /\ MaxCrashes \in Nat /\ MaxEdits \in Nat
    /\ Files \in Seq(Names) /\ Notifying \subseteq Names
    /\ \A i, j \in DOMAIN Files : Files[i] = Files[j] => i = j
    /\ "loop" \notin Triggers
    /\ StorageFails \in BOOLEAN /\ NotifierFails \in BOOLEAN
    /\ NextDue \in [Names -> [Moments -> Nat]]
    /\ \A w \in Names, s, t \in Moments :
          /\ NextDue[w][s] > s
          /\ s <= t => NextDue[w][s] <= NextDue[w][t]

VARIABLES
    now,        \* datetime.now()
    up,         \* is the server running?
    crashes,    \* how often it went down
    anchor,     \* WorkflowScheduler._anchor
    definition, \* definition[w]: absent, disabled or enabled
    valid,      \* does every file hold a definition?
    edits,      \* how often a file was changed
    loop,       \* the loop thread: waiting, polling, dead
    polledAt,   \* _loop's now
    loaded,     \* the definitions it has read
    toCheck,    \* the workflows due_workflows has not looked at yet
    due,        \* those found due and not yet run
    stage,      \* stage[t]: where thread t is in WorkflowRunner.run
    job,        \* job[t]: the workflow it runs
    run,        \* run[t]: its run_id
    runs,       \* the table workflow_runs, its ids the indices
    lost        \* history: the runs whose thread is gone before its time

files == <<definition, valid, edits>>
loopVars == <<loop, polledAt, loaded, toCheck, due>>
threadVars == <<stage, job, run>>
vars == <<now, up, crashes, anchor, files, loopVars, threadVars, runs, lost>>

Threads == {"loop"} \cup Triggers
Nobody == "none"
Definitions == {"absent", "disabled", "enabled"}
Stages == {"unused", "idle", "starting", "turn", "replied", "raised",
           "notifying", "alerting"}

NothingRead == [w \in Names |-> "absent"]

(* A row of the table, and beside it who started the run. *)
Row(w, how) ==
    [workflow |-> w, started |-> now, status |-> "running", how |-> how]

Init ==
    /\ now = 0 /\ up = TRUE /\ crashes = 0 /\ anchor = 0
    /\ definition = [w \in Names |-> "enabled"] /\ valid = TRUE /\ edits = 0
    /\ loop = "waiting" /\ polledAt = 0 /\ loaded = NothingRead
    /\ toCheck = << >> /\ due = << >>
    /\ stage = [t \in Threads |-> IF t = "loop" THEN "idle" ELSE "unused"]
    /\ job   = [t \in Threads |-> Nobody]
    /\ run   = [t \in Threads |-> 0]
    /\ runs  = << >>
    /\ lost  = {}

-----------------------------------------------------------------------------
(* WorkflowScheduler.                                                      *)

(* Mutant of Loaded: a disabled workflow ends the search, not its turn. *)
LoadedIfAll ==
    IF valid /\ \A w \in Names : definition[w] = "enabled" THEN Files ELSE << >>

(* workflows(), in the order of the files; nothing if one is invalid. *)
Loaded == IF valid THEN Files ELSE << >>

LoopUnchanged == UNCHANGED <<now, up, crashes, anchor, files, runs, lost>>

(* wait() timed out: the definitions are read. *)
Poll ==
    /\ up /\ loop = "waiting"
    /\ loop' = "polling" /\ polledAt' = now
    /\ toCheck' = Loaded /\ loaded' = definition
    /\ UNCHANGED <<due, threadVars>> /\ LoopUnchanged

Latest(S) == CHOOSE t \in S : \A u \in S : u <= t

(* Mutant of LastStart: the history of runs is not consulted. *)
LastStartAnchor(w) == anchor

(* last_started_at, or the anchor. *)
LastStart(w) ==
    LET starts == {runs[i].started : i \in {j \in DOMAIN runs : runs[j].workflow = w}}
    IN IF starts = {} THEN anchor ELSE Latest(starts)

IsDue(w, moment) == NextDue[w][LastStart(w)] <= moment

(* A workflow whose file is not there, or that is disabled, is skipped.    *)
Check ==
    /\ loop = "polling" /\ toCheck # << >>
    /\ toCheck' = Tail(toCheck)
    /\ LET w == Head(toCheck) IN
       due' = IF loaded[w] = "enabled" /\ IsDue(w, polledAt)
              THEN Append(due, w) ELSE due
    /\ UNCHANGED <<loop, polledAt, loaded, threadVars>> /\ LoopUnchanged

(* The loop calls run() for the next workflow that was due. *)
Launch ==
    /\ loop = "polling" /\ toCheck = << >> /\ due # << >>
    /\ stage["loop"] = "idle"
    /\ due' = Tail(due)
    /\ stage' = [stage EXCEPT !["loop"] = "starting"]
    /\ job'   = [job EXCEPT !["loop"] = Head(due)]
    /\ UNCHANGED <<loop, polledAt, loaded, toCheck, run>> /\ LoopUnchanged

WaitAgain ==
    /\ loop = "polling" /\ toCheck = << >> /\ due = << >>
    /\ stage["loop"] = "idle"
    /\ loop' = "waiting" /\ polledAt' = 0 /\ loaded' = NothingRead
    /\ UNCHANGED <<toCheck, due, threadVars>> /\ LoopUnchanged

(* The end of the loop thread: nothing in _loop catches anything. *)
LoopDies ==
    /\ loop' = "dead" /\ polledAt' = 0 /\ loaded' = NothingRead
    /\ toCheck' = << >> /\ due' = << >>

(* Reading a definition or the history raises. *)
PollRaises ==
    /\ StorageFails
    /\ \/ up /\ loop = "waiting"
       \/ loop = "polling" /\ toCheck # << >>
    /\ LoopDies
    /\ UNCHANGED threadVars /\ LoopUnchanged

(* trigger(): disabled workflows too, in a thread of their own. *)
Trigger(t, w) ==
    /\ up /\ stage[t] = "unused"
    /\ \E i \in DOMAIN Loaded : Loaded[i] = w
    /\ definition[w] # "absent"
    /\ stage' = [stage EXCEPT ![t] = "starting"]
    /\ job'   = [job EXCEPT ![t] = w]
    /\ UNCHANGED <<run, loopVars>> /\ LoopUnchanged

-----------------------------------------------------------------------------
(* WorkflowRunner.run, on thread t.                                        *)

RunUnchanged == UNCHANGED <<now, up, crashes, anchor, files>>

Goes(t, from, to) ==
    /\ stage[t] = from
    /\ stage' = [stage EXCEPT ![t] = to]
    /\ UNCHANGED <<job, run, loopVars>>

(* run() returns, or an exception leaves it: its locals are gone. *)
Quits(t) ==
    /\ stage' = [stage EXCEPT ![t] = "idle"]
    /\ job' = [job EXCEPT ![t] = Nobody]
    /\ run' = [run EXCEPT ![t] = 0]
Returns(t) == Quits(t) /\ UNCHANGED loopVars
Escapes(t) ==
    /\ Quits(t)
    /\ IF t = "loop" THEN LoopDies ELSE UNCHANGED loopVars

(* Mutant of RunId: the id is counted before the row of another thread. *)
RunIdOneMore == Len(runs) + 2

(* lastrowid, read under the lock. *)
RunId == Len(runs) + 1

(* start_run is called before the try. *)
StartRun(t) ==
    /\ stage[t] = "starting"
    /\ stage' = [stage EXCEPT ![t] = "turn"]
    /\ runs' = Append(runs, Row(job[t], IF t = "loop" THEN "scheduled" ELSE "triggered"))
    /\ run' = [run EXCEPT ![t] = RunId]
    /\ UNCHANGED <<job, loopVars, lost>> /\ RunUnchanged

(* execute and commit are one step: a row whose commit failed is not there, *)
(* although SQLite keeps it for the next commit of the same connection.    *)
StartRaises(t) ==
    /\ StorageFails /\ stage[t] = "starting"
    /\ Escapes(t)
    /\ UNCHANGED <<runs, lost>> /\ RunUnchanged

(* The agent is built and its turn runs. *)
TurnEnds(t, outcome) ==
    /\ Goes(t, "turn", outcome)
    /\ UNCHANGED <<runs, lost>> /\ RunUnchanged

(* Mutant of Recorded: only success is recorded. *)
RecordedIfOk(i, status) ==
    IF status = "ok" THEN [runs EXCEPT ![i] = [@ EXCEPT !.status = status]]
                     ELSE runs

(* finish_run. *)
Recorded(i, status) == [runs EXCEPT ![i] = [@ EXCEPT !.status = status]]

FinishOk(t) ==
    /\ stage[t] = "replied"
    /\ runs' = Recorded(run[t], "ok")
    /\ IF job[t] \in Notifying
       THEN Goes(t, "replied", "notifying")
       ELSE Returns(t)
    /\ UNCHANGED lost /\ RunUnchanged

(* finish_run or notify raises after the turn: the except branch follows. *)
FinishRaises(t) ==
    /\ StorageFails /\ Goes(t, "replied", "raised")
    /\ UNCHANGED <<runs, lost>> /\ RunUnchanged
NotifyRaises(t) ==
    /\ NotifierFails /\ Goes(t, "notifying", "raised")
    /\ UNCHANGED <<runs, lost>> /\ RunUnchanged

(* The except branch: a run that was recorded ok is recorded again. *)
FinishError(t) ==
    /\ stage[t] = "raised"
    /\ runs' = Recorded(run[t], "error")
    /\ IF job[t] \in Notifying
       THEN Goes(t, "raised", "alerting")
       ELSE Returns(t)
    /\ UNCHANGED lost /\ RunUnchanged
FinishErrorRaises(t) ==
    /\ StorageFails /\ stage[t] = "raised"
    /\ Escapes(t)
    /\ lost' = lost \cup {run[t]}
    /\ UNCHANGED runs /\ RunUnchanged

NotifyReturns(t) ==
    /\ stage[t] \in {"notifying", "alerting"}
    /\ Returns(t)
    /\ UNCHANGED <<runs, lost>> /\ RunUnchanged
AlertRaises(t) ==
    /\ NotifierFails /\ stage[t] = "alerting"
    /\ Escapes(t)
    /\ UNCHANGED <<runs, lost>> /\ RunUnchanged

-----------------------------------------------------------------------------
(* Outside: time, the user's editor, the end of the process.               *)

Tick ==
    /\ now < MaxTime
    /\ now' = now + 1
    /\ UNCHANGED <<up, crashes, anchor, files, loopVars, threadVars, runs, lost>>

(* A workflow is added, removed, enabled or disabled, or a file that does  *)
(* not parse comes or goes.  What an edit leaves alone, in this model, is   *)
(* the text of a schedule: NextDue stays as it is.                         *)
Edit(w, state) ==
    /\ edits < MaxEdits /\ edits' = edits + 1
    /\ \/ /\ definition[w] # state
          /\ definition' = [definition EXCEPT ![w] = state] /\ UNCHANGED valid
       \/ valid' = ~valid /\ UNCHANGED definition
    /\ UNCHANGED <<now, up, crashes, anchor, loopVars, threadVars, runs, lost>>

(* The server is stopped or dies: all its threads are daemons. *)
Crash ==
    /\ up /\ crashes < MaxCrashes
    /\ up' = FALSE /\ crashes' = crashes + 1
    /\ LoopDies
    /\ stage' = [t \in Threads |-> IF stage[t] = "unused" THEN "unused" ELSE "idle"]
    /\ job' = [t \in Threads |-> Nobody] /\ run' = [t \in Threads |-> 0]
    /\ lost' = lost \cup {run[t] : t \in {u \in Threads :
                              stage[u] \in {"turn", "replied", "raised"}}}
    /\ UNCHANGED <<now, anchor, files, runs>>

Restart ==
    /\ ~up
    /\ up' = TRUE /\ anchor' = now /\ loop' = "waiting"
    /\ UNCHANGED <<now, crashes, files, polledAt, loaded, toCheck, due,
                   threadVars, runs, lost>>

-----------------------------------------------------------------------------
RunStep(t) ==
    \/ StartRun(t) \/ StartRaises(t)
    \/ \E outcome \in {"replied", "raised"} : TurnEnds(t, outcome)
    \/ FinishOk(t) \/ FinishRaises(t) \/ NotifyRaises(t)
    \/ FinishError(t) \/ FinishErrorRaises(t)
    \/ NotifyReturns(t) \/ AlertRaises(t)

LoopStep == Poll \/ Check \/ Launch \/ WaitAgain \/ PollRaises

Next ==
    \/ LoopStep
    \/ \E t \in Threads : RunStep(t)
    \/ \E t \in Triggers, w \in Names : Trigger(t, w)
    \/ Tick
    \/ \E w \in Names, state \in Definitions : Edit(w, state)
    \/ Crash \/ Restart

Spec == Init /\ [][Next]_vars

(* The threads of the process are scheduled, the poll interval passes and  *)
(* turns end (Agent, TurnEnds).  Nothing else has to happen.               *)
FairSpec == Spec /\ WF_vars(LoopStep) /\ \A t \in Threads : WF_vars(RunStep(t))

-----------------------------------------------------------------------------
TypeOK ==
    /\ now \in Moments /\ anchor \in Moments /\ polledAt \in Moments
    /\ up \in BOOLEAN /\ crashes \in 0..MaxCrashes
    /\ definition \in [Names -> Definitions] /\ valid \in BOOLEAN
    /\ edits \in 0..MaxEdits
    /\ loop \in {"waiting", "polling", "dead"}
    /\ loaded \in [Names -> Definitions]
    /\ toCheck \in Seq(Names) /\ due \in Seq(Names)
    /\ stage \in [Threads -> Stages]
    /\ job \in [Threads -> Names \cup {Nobody}]
    /\ runs \in Seq([workflow : Names, started : Moments,
                     status : {"running", "ok", "error"},
                     how : {"scheduled", "triggered"}])
    /\ run \in [Threads -> 0..Len(runs)]
    /\ lost \subseteq DOMAIN runs

(* The history is true: as long as a run says running some thread is at    *)
(* it, unless that thread was lost to a crash or to the database refusing  *)
(* the record; and no thread reports a run otherwise than it is recorded.  *)
HistoryIsTrue ==
    /\ \A i \in DOMAIN runs : runs[i].status = "running" =>
          i \in lost \/ \E t \in Threads :
              run[t] = i /\ stage[t] \in {"turn", "replied", "raised"}
    /\ \A t \in Threads :
          /\ stage[t] \in {"turn", "replied"} => runs[run[t]].status = "running"
          /\ stage[t] = "notifying" => runs[run[t]].status = "ok"
          /\ stage[t] = "alerting"  => runs[run[t]].status = "error"

(* What the scheduler may never do, whatever is triggered by hand, however *)
(* often it is restarted, and whatever workflows come, go or are switched  *)
(* on and off: start a workflow that never ran before next_run of the      *)
(* anchor, or start one again before next_run of any start of its own.     *)
(* Schedules keep their texts; how close a triggered run may come to a     *)
(* scheduled one is left open, as the code leaves it.                      *)
ScheduledRunsAreOnTime ==
    [][\A i \in DOMAIN runs' \ DOMAIN runs :
          LET new == runs'[i]
              starts == {runs[j].started : j \in {k \in DOMAIN runs :
                          runs[k].workflow = new.workflow /\ runs[k].how = "scheduled"}}
          IN new.how = "scheduled" =>
                /\ \A s \in starts : NextDue[new.workflow][s] <= now
                /\ (\A j \in DOMAIN runs : runs[j].workflow # new.workflow)
                       => NextDue[new.workflow][anchor] <= now]_vars

(* A workflow that has become due is started, however the runs before it   *)
(* go, as long as the loop lives and the definition stays as it is.        *)
DueWorkflowsRun ==
    \A w \in Names :
        LET Overdue == NextDue[w][LastStart(w)] <= now
            Serving == /\ up /\ loop # "dead"
                       /\ valid /\ definition[w] = "enabled"
        IN Overdue /\ Serving ~> ~Overdue \/ ~Serving

(* "recorded, never crashes the scheduler" (workflows/runner.py:31): no    *)
(* exception of a run ends the loop while the server is up.                *)
RunsNeverCrashTheScheduler == up => loop # "dead"
=============================================================================
