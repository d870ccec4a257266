# Jarvis in TLA+

A specification of the concurrent and stateful parts of Jarvis
(`src/jarvis`): the agent's turn engine, the executor that gates its tools,
the HTTP consent broker, the server's sessions, the menu bar app that uses them,
the workflow scheduler, the terminal program, and the tools that both change
files with.  The modules are checked with TLC on small instances; the most important
safety properties are proved with TLAPS for all instances.

Run a check with `tlc -workers 2 -config X.cfg M`, a proof with
`tlapm MProofs.tla`.  `PROJECT.json` lists the runs, which definition models
which lines of the code, the mutants that show that the properties can fail,
and the hazards they are for.

## 1. The system

### Components

| Component | State | Operations | What makes it correct |
|---|---|---|---|
| **Turn engine** `core/agent.py` | `_history`; the locals of `run_turn` | `run_turn`, `_append`, `reset` | tool calls are answered completely and in order; a turn ends; what fails half-way leaves a history the provider accepts |
| **Provider** `core/llm/` | none (a request per round) | `stream_turn` | — (environment of the engine) |
| **Executor** `security/executor.py`, **audit log** `security/audit.py` | the JSONL file, append only | `execute`: classify, ask, run, record | nothing that is not read-only runs without a yes; the log is true and complete |
| **Consent managers** `security/consent.py`, `server/consent.py`, `workflows/consent.py` | CLI: tools granted for the session; HTTP: the table of open questions | `request`; HTTP also `resolve` | one decision per question; no timeout or stray answer grants anything |
| **Sessions** `server/session.py`, **endpoints** `server/app.py` | per session the turn lock, the current queue, the agent; the table of sessions | `start_turn`, `_run_turn`, `_emit`, create / get / delete; the streams | one turn at a time; a stream shows its own turn, all of it, and ends; the lock comes free |
| **Scheduler, runner, run history** `workflows/` | anchor, loop thread, table `workflow_runs` (persistent) | `_loop`, `due_workflows`, `trigger`, `run`, `start_run`, `finish_run`, `last_started_at` | runs on time, not twice, not never; the history says what happened; the loop survives |
| **Schedule grammar** `workflows/schedule.py` | none | `parse`, `next_run` | the first moment after the argument that the text names |
| **Tools** `tools/`, `security/paths.py` | files, subprocesses | `classify`, `execute` | the risk that was consented to is the risk of what is done |
| **Memory store** `memory/` | SQLite: conversations, facts | `add_message`, `add_fact`, `search_facts` | statements under one lock |
| **CLI** `interfaces/cli.py` | where the REPL is, its grants, the temporary file of an utterance, the folder of a meeting | turn, `/voice`, `/meeting`, `/clear` | what is left on disk is what the user was told; nothing outlives its process but files |
| **Meeting recorder** `meetings/recorder.py`, `meetings/service.py` | wave file, frame count, device stream | `start`, the audio callback, `stop`; `transcribe` | the file holds what the callback got; `stop` returns |
| **Voice** `voice/` | none | record, transcribe, speak | — (device and subprocess I/O) |
| **Token file** `server/main.py` | one file | `load_or_create_token` | one token, also if two servers start or one dies between touch and write |
| **Menu bar client** `apps/macos/JarvisBar` | session, transcript, one pending consent, `isBusy` | send, handle an event, answer, clear | an answer goes to the question that is shown; the app comes back to its user |

### How they interact

`POST /messages` runs `start_turn` on a pool thread of the HTTP server.  It
takes the turn lock, replaces `Session._queue` and starts a worker thread,
which runs `Agent.run_turn` and puts the turn's events in the queue; the
response drains that queue.  Inside `run_turn` the executor classifies each
call and, unless it is read-only, blocks in `HttpConsent.request`, which
sends its question through `Session._emit` into the *current* queue.  Another
HTTP request, on another thread, answers with `resolve`.  The scheduler's loop
thread and the threads of manual triggers run agents of their own, with a
consent policy instead of a person, and share the run history.

The menu bar app is a client of one session at a time: it posts a message,
handles the events of the response, shows one consent card, and posts the
answer in a task of its own.  The terminal program has an agent in its own
process, with a consent manager that asks at the prompt and may remember the
answer; its tools work on the same files as those of the workflows.

### What is hard here

* **Interleaving.** Handler, worker, stream and consent handlers meet in the
  lock, `Session._queue`, the queues, and the table of questions.
* **Time.** A consent timeout races the answer; a client disconnects while its
  stream waits; a session is deleted while its turn asks.
* **Failure in the middle.** A message is in the history before it is stored;
  a tool has run before its line is written; an exception that is not a
  `ToolError` leaves `run_turn` from anywhere; a run is recorded `ok` before
  its notification fails.
* **What is shared without a lock.** A file tool is classified before consent
  and runs after it, while another process works on the same file; the audio
  callback writes while `stop()` closes the file.
* **What survives.** The run history survives a restart of the server; files,
  an utterance that was being transcribed and the folder of a meeting survive
  the terminal program.

The hazards, each at its line and with the properties that cover it, are in
`PROJECT.json`.

## 2. The modules

| Module | Models | Composes / implements |
|---|---|---|
| `ConsentPromise` | what any consent manager promises: one decision per question, never revised | abstract |
| `HttpConsent` | `server/consent.py` | implements `ConsentPromise` |
| `Agent` | `core/agent.py` with `security/executor.py` and `security/audit.py` | |
| `Session` | `server/session.py`, `post_message` and its stream | |
| `JarvisServer` | a session with its agent and its consent broker, `post_consent`, deletion | `Agent`, `HttpConsent`, `Session` by INSTANCE and joint actions |
| `Schedule` | `workflows/schedule.py` | |
| `Workflows` | `workflows/scheduler.py`, `runner.py`, `store.py`, loading in `model.py` | takes `Schedule`'s `next_run` as a constant |
| `ChatClient` | the menu bar app: `ChatModel.swift` over `JarvisClient.swift` | |
| `JarvisApp` | the app at work with a session of the server | `JarvisServer` (EXTENDS) and `ChatClient` (INSTANCE) by joint actions |
| `ToolCalls` | `execute` with `CliConsent` and `PolicyConsent`, and the file and shell tools, on one shared file | |
| `Recorder` | `meetings/recorder.py` | |
| `Cli` | `interfaces/cli.py`, with `meetings/service.py` and the files of `voice/` | `ToolCalls` (EXTENDS) and `Recorder` (INSTANCE) |
| `MCSession`, `MCJarvisServer`, `MCWorkflows`, `MCCli` | symmetry sets and constant values for TLC | |
| `HttpConsentProofs`, `AgentProofs`, `SessionProofs`, `JarvisServerProofs`, `JarvisAppProofs`, `ScheduleProofs`, `WorkflowProofs`, `CliProofs` | theorems | each extends the module it is about; `JarvisServerProofs` takes the component proofs by INSTANCE, `JarvisAppProofs` extends it |

### HttpConsent

A call of `request()` is identified by the uuid it draws (`Calls`).  `asker[c]`
is where that call has got to: registered in the table (lines 33–36), waiting
(the question was emitted, 37–48), answered or expired (`Event.wait` returned
True or False), granted or refused (it returned, 49–52).  The table is
`pending`, the event `isSet`, the answer `allow`; `accepted` is a history
variable: the answers for which `resolve()` returned True.  The timeout may
come at any moment before the event is set.  An answer that `resolve()`
refuses changes nothing and is a stuttering step.

A decision falls at the answer or at the timeout, whichever is first, not when
the call returns.  The refinement mapping (`Outcome`) says so: a question with
an answer that came in the window between the timeout and the removal of its
entry is *denied*, although `resolve()` returned True for it.

### Agent

One step is the code up to the next call that may end in several ways: the
provider, a tool's `classify` or `execute`, the consent manager, a write to
disk.  `Stored` is a choice wherever `add_message` or `AuditLog.record` may
raise (`StorageFails`).  A message is its kind, stop reason and the calls it
names.  The provider may give any reply its interface allows: any calls, or
none, under any stop reason, since `llm/claude.py` fills the two fields
independently.  `Raises` is any exception that is not a `ToolError`:
nothing in `run_turn` catches it.  `risk`, `consent`, `effect` and `audit` keep
what happened to each call for ever, so that the properties relate calls of
different turns.

### Session

Three threads per request: `handler[r]` (lookup, refusal or claim, spawn, and
only then the *read of the attribute* `_queue` that `start_turn` returns),
`worker[r]` (`_run_turn`: begin, emit, conclude, end mark, release), and the
stream, which is `handler[r]` in its later states.  A queue is named after the
request that made it and kept as everything ever put in it, with a count of
what was taken.  A consent question goes to `current`, the other events to
`writesTo[r]`, the worker's local.  A client that disconnects leaves a thread
in `q.get` that takes one item more (`DropOne`).

### JarvisServer

Every step of `Agent` in a session is a step of its worker.  The joint actions
are the calls: `BeginTurn` (the worker enters `run_turn`), `Dispatch` (the
`tool_use` event, `classify`, and the registration of the question), `Ask` (the
question is emitted), `Verdict` (`request` returns to `execute`), `FinishTurn`.
`post_consent` is two steps, the lookup of the session and `resolve`, because
the session may be deleted or its turn may end in between.  Text events are
left out; which of `done` and `error` ends a turn is left open.

### Schedule and Workflows

`Schedule` has the three forms of text with their numbers, what `parse`
refuses, and `next_run` with its loop as a recursive function.  Time is in
half-minutes, so that a moment may lie between two minutes.

In `Workflows` a poll reads the clock and the definitions (`loaded`: an edit
that comes later is seen by the next poll), then looks at one workflow per step (`Check`), then runs those that were due one after the other
(`Launch`).  A run is one step per call of the store, the agent and the
notifier, on the loop thread or on the thread of a manual trigger.  Each call
may raise; an exception out of `start_run`, or out of the `except` branch,
leaves `run()` (`Escapes`) and ends the loop if the loop called it.  `Crash`
takes all threads with it (they are daemons, so a regular stop is no
different); `Restart` sets a new anchor.

### ChatClient and JarvisApp

Everything in `ChatModel` runs on the main actor, so a step of `ChatClient` is
the code up to the next `await`.  `task` is where the Task of `send()` awaits;
`replies` are the tasks of `respondToConsent`, each with its answer under way;
`deleting` is the DELETE that `clearConversation` does not wait for.  `Fail` is
every way to the `catch`: no token, no server, a status that is not 2xx, a
stream that breaks.  The app uses one session after another and never returns
to one, so that one ("here") is followed in detail and the others are
"elsewhere".

`JarvisApp` joins the app with `JarvisServer`.  `payload[r]` adds to the items
of a queue what they say (which question, or a `tool_use`), as `Session` knows
only their kinds.  `Receive` is the response sending an item and `handle()`
taking it; when the response closes, the Task ends in the same step.  `ConnectionBreaks` is the app's side of a
lost connection, before or after the status of the POST, and changes nothing on
the server; that the server notices is a later step (`Abandoned`), or never
comes.  An answer reaches the server in two steps, as in `JarvisServer` (`ReplyFound`, then
`ReplyCounts`), or finds the session gone (`ReplyLost`), at any later time or
never.

### ToolCalls, Recorder and Cli

In `ToolCalls` each agent makes one call after another: `Execute` is `classify`
at that moment, then the consent manager, then the tool.  The file is a
sequence of pieces; `write_text` is two steps, as it empties the file before it
writes (`Open`, `Fill`), and `edit_file` a read before them.  `Dies` is the end
of the process in the middle of anything, and the full disk.

A shell command is whether it is on the read-only list and whether it removes
the file.  The two are independent, as `classify` looks at the name of the first
word only and any program may have that name (`./ls`).  `Remove` is the run of a
command that removes the file: if it succeeds, the file is gone; if it exits
with an error or runs out of time, both a `ToolError`, the file is gone or is
still there.

`meant` is a history variable: the files there may be by what the calls have
reported, if they took effect one at a time.  A file tool that reports success
makes each of them what the call was to leave behind, one that fails leaves them
alone; a removing command that fails adds the file that is not there.  `apart`
says that no two executions have overlapped and none was cut off;
`FileIsWhatWasReported` says nothing once it is false.

`Recorder` has two threads.  `callback` is `_on_audio` up to the lock and with
it; `stop()` waits for it in `StreamStops`, as the audio library does in
`stream.stop()`, and takes the lock afterwards in `CloseWav`.

`Cli` adds where the program is: at a prompt, in a turn (`turnOf` says who
called it, and so what its end leads to), or in one of the steps of voice mode
and of a meeting.  `Calling` is a step of `ToolCalls`: of the terminal's agent
only in a turn, of a workflow's at any time.  `Quit` runs the `finally` clauses,
`Killed` does not.

## 3. What is checked

| Run | Instance | Question |
|---|---|---|
| `consent` | 3 questions | The broker keeps `ConsentPromise`; a grant is an acknowledged *allow* for this very question; the table holds exactly the questions in flight; at most one answer is acknowledged; every question is decided |
| `agent` | 2 turns, 2 rounds, 2 calls | Nothing runs ungranted; an audit line is true and unique; the model is told what the log says; results follow their reply, complete and in order; every turn ends |
| `session_threads` | 3 concurrent requests, threads may fail to start | One turn at a time; a queue holds one turn, its conclusion and its end mark, in this order |
| `server` | 2 overlapping turns, 2 calls, any clients | From the click to the tool: what ran was allowed for this call; a question that can be answered is the one its worker waits for; a question sent after the session was deleted is never answered |
| `app` | 2 turns and later sessions of one app, 1 call | The guards of the app tell the truth about its task; its stream is its turn's; its card is the question its turn asked last; nothing gated runs without a click on the card for it; the app comes back to its user and the session is freed |
| `schedule` | a week of 7 days of 12 ticks, every text at every moment | `next_run` is the first moment named; late starts neither repeat nor skip one |
| `workflows` | 2 workflows, 1 trigger, 1 edit, 1 crash, all failures | Scheduled runs are on time across triggers, restarts and workflows that come, go or are switched off and on; the history is true; what is due is run |
| `cli` | the terminal's agent and a workflow, 6 calls, 1 block of audio | A grant is good for its own process and tool only (mails of the terminal left out, see below); overwriting was allowed by someone who was told, or the file came later; the file is what the calls reported, also after commands that remove it and then fail; a recording is complete when `stop` returns, and it does return; a summary is of what was heard; no utterance is left behind |

Four runs show a disagreement between the code and what it says of itself:

| Run | The text | What TLC finds |
|---|---|---|
| `agent_unaudited` | `README.md:103-105` "All attempts — allowed, denied, or failed — are appended to the audit log" | a tool that raises anything but `ToolError` (a `UnicodeDecodeError`, a missing parameter) ran without a line |
| `agent_dangling` | `tests/test_agent.py:64` a call's reply is followed by its result | a reply that ends the turn (`max_tokens`, or any other stop reason but `tool_use` and `pause_turn`), or an exception, leaves calls without results in the history, and later turns send it |
| `session_mixed` | `server/session.py:3-5` a response drains the queue of its turn | `start_turn` reads `self._queue` after the worker was started; if the turn is over and the next is claimed by then, the response drains the other turn |
| `workflow_crash` | `workflows/runner.py:31` "recorded, never crashes the scheduler" | the `except` branch calls the notifier unprotected; if it raises, the loop thread ends |

Further behaviours the models have and no property forbids: an answer that
comes in the window after the timeout is acknowledged with 204 though the call
is denied (`HttpConsent`: `Resolve` while `expired`); the end mark precedes the
release of the lock, so that a prompt client may still get a 409 (`Session`:
`Refuse` between `MarkEnd` and `Release`); a worker thread that cannot be
started leaves its session locked for ever (`SpawnFails`); a run whose
notification fails is recorded as an error over its reply (`NotifyRaises`,
`FinishError`); a run that a crash interrupts stays `running` (`lost`).

And of the app and the terminal program:

* "`send_email` always requires confirmation", says `README.md:19`, and
  `tools/email.py:75` "outward-facing: always prompts".  The code does not do
  so: `CliConsent` remembers an `a` by the name of the tool
  (`security/consent.py:23-24`), so that after an `a` to one mail the next mails
  of the process go out without a prompt (`AllowedBefore`).
  `GatedRunsAreGranted` therefore leaves the mails of a terminal agent out: what
  holds of them, a yes or an earlier `a`, is less than these texts promise.
* `URLSession` gives a stream up after 60 seconds without data, the server
  waits 300 seconds for consent and sends nothing meanwhile: a user who thinks
  for more than a minute loses the session, and the question with it
  (`ConnectionBreaks` while the worker waits).
* A message sent between the end mark and the release of the lock is answered
  409, and the app then forgets a session that is in good order (`Status`).
  Sessions the app forgot are never deleted on the server.
* A card whose question has timed out stays until the next `tool_use` or
  `done`; a click on it is answered 404 (`ReplyCounts`).  A `tool_use` comes
  *before* its question, so it can never be what clears the card of its own
  call, which the comment at `ChatModel.swift:66` seems to expect.
* `a` for a `write_file` that creates covers later ones that overwrite, and `a`
  for a harmless command every later one (`AllowedBefore`).  A workflow with
  `write_file` on its list overwrites a file that was made after the call was
  classified (`made` in `OverwritesWereAllowed`).
* A command that removes a file and then fails is reported to the model as a
  failure (`Remove`); and a program of the user's own that is called `ls` runs
  without a question (`CommandRisk`).
* Edits that overlap lose one of the two, and a process that ends between `Open`
  and `Fill` leaves an empty file.
* Errors of the provider in the turn that summarises a meeting, and the
  `RuntimeError` of the round limit in any turn, are caught nowhere and end the
  program (`Quit`).
* An utterance that is being transcribed when the process is killed stays on
  disk (`Killed`); and `mkstemp` leaves its file descriptor open each time
  (`voice/recorder.py:42`).

### The bounds

Agent: two turns are needed for a turn to send what an earlier one left
behind, two rounds for the round limit to be reached by way of a pause or a
tool call, two calls in a batch for one to fail beside another.  Session: three
requests for one to claim the session while the stream of another reads the
queue of the third; with a client that waits, two.  JarvisServer: two turns of
one call each, so that a late answer to the first may meet the second;
`app` has one call and a provider that reaches its tool at most once a turn,
because temporal properties forbid symmetry, and its second turn meets the
answers, the streams and the DELETE that the first has left under way.
Schedule: a day of 3 hours of 2 minutes, all seven weekdays, delays up to one
tick less than a day.  Workflows: a clock of three moments, at which the
one-minute workflow is due twice and the daily one once; both are due at the
same poll, so one run delays the other.  Cli: one terminal and one workflow,
since what goes wrong with files takes two; calls of every risk, listed and
unlisted commands that remove the file, and two texts of which one allows an
edit and the other has its piece twice (writes outside of the roots, and
commands that leave the file alone, change nothing but the stage of their agent;
they are left to the theorems, which have calls of every kind); the order of steps at the end of a recording depends on
whether there was a last block, not on how many.  All bounds are constants named as
such in the modules and stand in the guards, never in a constraint.

### Fairness

Weak fairness, and only for steps that the process itself takes.  Threads are
scheduled (handler, worker, stream, loop, trigger).  A wait for consent ends
because `Event.wait` has a timeout.  A turn takes its next step because
everything it waits for has a timeout in the server: the provider's HTTP
client, the tools' subprocesses, and `HttpConsent`.  (In the CLI the prompt
waits for a person; `TurnEnds` speaks of the server and of workflows.)  No
client is obliged to post, to answer, to read or to disconnect; no clock tick,
edit, crash or restart is forced.

In `app` the server's threads are scheduled and so is the app's Task: a request
that was sent is answered, an event that is in the queue is handled.  The
time-out of `URLSession` is not needed: `BusyEnds` holds though
`ConnectionBreaks` is never forced, because the server's turn ends.  The user need not click, send or
clear, and no answer or DELETE needs to arrive.  In `cli` only the audio callback
and `stop()` go on by themselves.

## 4. What is proved

Every safety property that a passing run checks, invariant or action property,
is also proved for all constants that meet the named assumptions of its module.
The assumptions say what kind of thing a constant is (`BoundsAssumption`,
`SessionAssumption`, `CallsAssumption`, `CliAssumption`, `QuestionAssumption`,
`Schedule`'s `ScheduleAssumption`; `ServerAssumption` is those of the
components; `HttpConsent` needs none).  `Workflows`' `ScheduleAssumption` says
two things more: that workflow names are distinct, which `load_workflows` sees
to (`model.py:51-52`), and that `next_run` is later than its argument and
monotonic, which is a theorem of `ScheduleProofs` (`NextRunAdvances`).

| Module | Theorems |
|---|---|
| `HttpConsentProofs` | `SpecTypeOK` (at most one acknowledged answer), `SpecTableIsInFlight`, `SpecGrantIsTheAnswer`; the refinement `SpecImplementsPromise` |
| `AgentProofs` | `SpecTypeOK`, `SpecRanOnlyIfAllowed`, `SpecAuditIsTrue`, `SpecModelIsToldTheLog`, `SpecResultsFollowTheirReply`, `SpecTurnComesToItsEnd` |
| `SessionProofs` | `SpecTypeOK`, `SpecOneTurnAtATime`, `SpecQueueIsOneTurn`; `SpecStreamIsItsTurn`, of clients that post one message at a time |
| `JarvisServerProofs` | `ServerImplementsAgent`, `ServerImplementsHttpConsent`, `ServerImplementsSession`: the server refines its components; `SpecGatedRunWasAllowed`, `SpecQuestionIsBeingAsked`, `SpecNoAnswerAfterDelete` |
| `JarvisAppProofs` | `AppImplementsServer`; `SpecBusyIsTheTask`, `SpecGatedRunWasClicked`, `SpecStreamIsItsTurn`, `SpecCardIsOfThisTurn` |
| `ScheduleProofs` | `NextRunAdvances`, `SpecNextRunIsTheFirst`; `SpecEachMomentIsServedOnce`, if runs start less than a day late |
| `WorkflowProofs` | `SpecTypeOK`, `SpecHistoryIsTrue`, `SpecScheduledRunsAreOnTime` |
| `CliProofs` | `SpecTypeOK`, `SpecGatedRunsAreGranted`, `SpecFileIsWhatWasReported`, `SpecOverwritesWereAllowed`, `SpecRecordingIsComplete`, `SpecSummaryFollowsRecording`, `SpecUtteranceIsRemoved` |

The invariants are not inductive as they stand.

* *HttpConsent.* A grant is an acknowledged allow only because the entry and
  the history agree all along: an entry is set exactly when one answer was
  acknowledged, and its value is that answer.  The refinement maps the initial
  state to the initial state and each step to a step of `ConsentPromise` or a
  stutter.
* *Agent.* `RanOnlyIfAllowed` speaks of calls that ran; the strengthening
  speaks of calls that *may still* run: the calls in `todo` are distinct and,
  except for the first, untouched, and where the engine is says what is known
  of the first (running: read-only or granted; asking: gated and undecided).
  Ids are fresh, so a later reply cannot name a call that has a past.  What the
  model is told (`ToldInv`) rests on the calls it was told about being behind:
  nothing happens to them any more.  `ResultsFollowTheirReply` (`HistoryInv`)
  rests on the reply that is being worked off being the last message, and its
  calls being those done followed by those ahead.
* *Session.* `OneTurnAtATime` needs that whoever holds the lock is the only one
  at work and that `current` is the holder's queue; `QueueIsOneTurn` needs how
  far the worker is to determine how its queue ends.  That a response sends its
  own turn is false for clients that post at once (`session_mixed`).  It is
  proved under `OnePosted`, that no two messages are between the lookup and the
  read of `_queue` at once: then no claim comes between the start of the worker
  and that read (`ReadsOwn`), so what was sent is always the beginning of the
  request's own queue (`StreamInv`), and the end mark is its last item.
* *JarvisServer.* Each joint action is, for each component, a step of its own
  or a stutter.  So the server refines all three, and their inductive invariants
  hold of it without being proved again.  What is left is how their states
  agree (`Together`): the agent is idle unless a worker is in its turn; an open
  question is about the call the agent has come to; what the executor takes for
  a grant is one the broker granted; clients answer only what they were sent;
  and what was not sent before a delete is never answered.  A gated call then
  ran because it was granted (`Agent`), which the broker says only for an
  acknowledged yes (`HttpConsent`).
* *JarvisApp.* The app is one of the clients that `JarvisServer` allows, and it
  posts one message at a time, because it has one Task and gives the session up
  together with a POST that failed (`OneReader`); so the theorems of server and session hold of it.  Beyond that: its guards
  (`BusyInv`), every answer under way or accepted was a click (`Clicked`), and
  what the items of a queue say matches what the session knows of them
  (`PayloadFits`), so that the card is the last question among the items its
  stream has taken (`CardFits`).
* *Schedule.* The loop of `next_run` is a recursive function, which TLA+ takes
  to be some function that satisfies the equation.  That there is one is shown
  by giving it (`SearchExists`); that it yields the first candidate not rejected,
  by a least counterexample instead of induction (`SearchFinds`); that one of
  the next `Days` days is not rejected, by arithmetic modulo the week
  (`SomeDayIsAccepted`).  A moment the text names that is later than the argument
  is a candidate, so the first accepted one is the first named.
* *Workflows.* `HistoryIsTrue` needs that no two threads have the same run
  (`RunsApart`), since a step of one records only its own.  For
  `ScheduledRunsAreOnTime`, the workflow was found due some steps before it is
  started, and in between others are run.  What carries the finding over
  (`ChosenOnTime`) is that no scheduled run of the same workflow can come
  meanwhile (`LoopInOrder`: no workflow is in the lists of a poll twice, or
  still in them when it is about to start), that triggered runs do not count,
  and that the anchor only moves when nothing is chosen.  That being due after
  the *last* start means being due after *every* start is the monotonicity of
  `next_run`.
* *Tool calls.* `GatedRunsAreGranted` (in the proof `RunsAreGranted`, which speaks
  of mails too) needs that the manager remembers only what
  its own user said.  `FileIsWhatWasReported` speaks of a file nobody is at work
  on; the strengthening (`FileIsMeant`) says what the one call at work will make
  of one of the files in `meant`: the buffer of an edit is its text with the one
  place replaced, an open file is empty and its buffer is what the call is to
  leave behind.  That replacing
  all places is replacing the one place is where `Matches` comes in
  (`EditIsReplacement`).  `OverwritesWereAllowed` needs that a risk that was
  right when the call was classified is right until another agent makes the file.
* *Cli.* A recording is complete because the file is open from `start()` to the
  end of `stop()` and at most one block is between the stream and the file; a
  summary follows a recording because each step of a meeting finds the folder as
  the step before it left it.

Only model-checked: liveness (`EveryQuestionIsDecided`, `TurnEnds`,
`LockIsFreed`, `BusyEnds`, `StopReturns`, `DueWorkflowsRun`), since it rests on
fairness and so on ENABLED, which the prover cannot handle; and the four
disagreements, which are shown by their counterexamples.  Of `TurnEnds` the
part that needs no fairness is proved: every step of a turn ends it or brings it
nearer its end in the lexicographic order of the rounds left, the calls still to
deal with and the stage of the first one (`SpecTurnComesToItsEnd`).

## 5. What is not modelled, and why

* **Data**: texts of messages, parameters, results, shell words and paths.
* **One session only.** Sessions share nothing but the table they are looked up
  in and the audit file, to which each line is one append.
* **Memory store.** Its statements run one at a time under a lock.  What it does
  to the rest is that a write may raise (`StorageFails`, `ModelIsToldTheLog`); the
  facts are text that only the provider reads.
* **Authentication, the token file and the settings**: read once, before
  anything that is modelled here; the format of events on the wire and its
  decoding, which keeps no state from one event to the next.
* **Daylight saving.** `Workflows` takes local time as monotonic; intervals are
  in fact added in local time (listed as a hazard).
* **SQLite** beyond "a statement is atomic, survives a crash once committed,
  or raises": `execute` and `commit` are one step, so a row whose commit failed is
  not there, although SQLite would keep it for the next commit.
* **Changes to the text of a schedule.**  Workflows come, go and are switched off
  and on in `Workflows`, but `next_run` of each is a constant.  How close a
  triggered run comes to a scheduled one of the same workflow is left open.
* **The views of the app.** A click is on the card that `pendingConsent` names;
  the moment between an event and the redraw, in which a click may be meant for
  a card that was already replaced, is left out.
* **Speaking, AppleScript tools**: one subprocess each.  `stop()` of the speaker
  finds no process to stop, as `speak()` has cleared it by the time it returns.
* **Shell commands** may remove the shared file, at one moment of their run, and
  do nothing else to it; work they leave running in the background is not
  modelled.
* **Failing writes of a recording.**  `writeframes` is taken to succeed in the
  audio callback; on a full disk it would raise there, which ends the stream and
  loses the block.  An exception of `stop()` itself ends the program (`Quit`).
* **Recorders** are started and stopped once, which is how `meeting_flow` uses
  them; a second recording of the same object would begin with the frame count
  of the first.  Two meetings begun in the same second would share a folder.

## 6. Plan

1. What a proof could still add: that `JarvisServer` cannot deadlock while a
   question is open, and that the steps the liveness properties count on are
   possible whenever they are due, as invariants in place of ENABLED.
2. To be modelled, if it comes to matter: a second clock for `Workflows`, to
   state what a change to or from daylight saving does to intervals; the token
   file with two servers and a crash between `touch` and `write_text`.
