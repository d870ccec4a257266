-------------------------------- MODULE Cli --------------------------------
(***************************************************************************)
(* The terminal program (interfaces/cli.py): main() with its turns, voice  *)
(* mode and meetings.  Its agent is one of ToolCalls, which the workflows  *)
(* of the server are at the same time; meetings are recorded by Recorder.  *)
(* What a turn says, and the conversation /clear resets, is left out, and  *)
(* so are the errors after which everything is as before.                  *)
(***************************************************************************)
EXTENDS ToolCalls

CONSTANTS
    Repl,           \* the agent of the terminal
    MaxBlocks       \* see Recorder

ASSUME CliAssumption ==
    /\ Repl \in Attended /\ Attended \subseteq Agents
    /\ MaxBlocks \in Nat

VARIABLES
    repl,       \* where the program is
    turnOf,     \* who calls run_turn: main (prompt), voice or meeting
    tmpWav,     \* does the file of record_push_to_talk exist?
    folder,     \* the files of the last meeting
    caller, callback, wavOpen, framesWritten, audio, heard  \* Recorder

Rec == INSTANCE Recorder

recorderVars == <<caller, callback, wavOpen, framesWritten, audio, heard>>
replVars == <<repl, turnOf, tmpWav, folder>>
vars == <<toolVars, replVars, recorderVars>>

(* A folder as new_meeting_dir makes it: nothing heard, nothing in it. *)
NewFolder == [heard |-> 0, audio |-> 0, transcript |-> "none", summary |-> FALSE]

Init ==
    /\ ToolInit /\ Rec!RecorderInit
    /\ repl = "gone" /\ turnOf = "prompt" /\ tmpWav = FALSE /\ folder = NewFolder

Goto(from, to) == repl = from /\ repl' = to

Save(file, content) == folder' = [folder EXCEPT ![file] = content]

-----------------------------------------------------------------------------
(* main(), its turns, and the end of the process.                          *)

(* build_agent makes a CliConsent of its own. *)
Start ==
    /\ Goto("gone", "prompt")
    /\ tmpWav' = FALSE
    /\ UNCHANGED <<toolVars, turnOf, folder, recorderVars>>

(* A line that is no command is the input of a turn. *)
Message ==
    /\ Goto("prompt", "turn")
    /\ UNCHANGED <<toolVars, turnOf, tmpWav, folder, recorderVars>>

(* The agent of the terminal does its calls in its turns, the others do    *)
(* theirs when their server runs them.                                     *)
Calling(a) ==
    /\ a = Repl => repl = "turn"
    /\ CallStep(a)
    /\ UNCHANGED <<replVars, recorderVars>>

(* run_turn returns, or raises an error that run_agent_turn prints. *)
TurnEnds ==
    /\ stage[Repl] = "idle" /\ turnOf # "meeting"
    /\ Goto("turn", turnOf) /\ turnOf' = "prompt"
    /\ UNCHANGED <<toolVars, tmpWav, folder, recorderVars>>

Ends ==
    /\ repl # "gone" /\ repl' = "gone" /\ turnOf' = "prompt"
    /\ Dies(Repl) /\ Rec!New
    /\ UNCHANGED folder

(* /exit, Ctrl-C or the end of input at a prompt, an error that nothing in *)
(* main() expects: the finally clauses run.                                *)
Quit == Ends /\ tmpWav' = FALSE

Killed == Ends /\ UNCHANGED tmpWav

ServerDies(a) ==
    /\ a \notin Attended /\ Dies(a)
    /\ UNCHANGED <<replVars, recorderVars>>

-----------------------------------------------------------------------------
(* voice_loop().                                                           *)

EnterVoice ==
    /\ Goto("prompt", "voice")
    /\ UNCHANGED <<toolVars, turnOf, tmpWav, folder, recorderVars>>

(* 'q', or a VoiceError of record_push_to_talk. *)
LeaveVoice ==
    /\ Goto("voice", "prompt")
    /\ UNCHANGED <<toolVars, turnOf, tmpWav, folder, recorderVars>>

(* record_push_to_talk has heard something, and returns a temporary file. *)
Talk ==
    /\ Goto("voice", "dictated")
    /\ tmpWav' = TRUE
    /\ UNCHANGED <<toolVars, turnOf, folder, recorderVars>>

(* Mutant of TmpWavAfter: a VoiceError of transcribe() leaves the file. *)
TmpWavAfterIfOk(ok) == ~ok

TmpWavAfter(ok) == FALSE

(* transcribe() returns a text, returns nothing, or raises. *)
Transcribed ==
    /\ \/ Goto("dictated", "turn") /\ turnOf' = "voice" /\ tmpWav' = TmpWavAfter(TRUE)
       \/ Goto("dictated", "voice") /\ UNCHANGED turnOf /\ tmpWav' = TmpWavAfter(TRUE)
       \/ Goto("dictated", "prompt") /\ UNCHANGED turnOf /\ tmpWav' = TmpWavAfter(FALSE)
    /\ UNCHANGED <<toolVars, folder, recorderVars>>

-----------------------------------------------------------------------------
(* meeting_flow().                                                         *)

(* A recorder and a folder of its own; folders that are made in the same   *)
(* second are one and the same in the code, see the README.                *)
BeginMeeting ==
    /\ Goto("prompt", "meeting")
    /\ folder' = NewFolder
    /\ UNCHANGED <<toolVars, turnOf, tmpWav, recorderVars>>

Recording ==
    /\ repl = "meeting" /\ Rec!RecorderStep
    /\ UNCHANGED <<toolVars, replVars>>

(* The device is not available: VoiceError. *)
RecordingFails ==
    /\ caller = "opened" /\ Goto("meeting", "prompt") /\ Rec!New
    /\ UNCHANGED <<toolVars, turnOf, tmpWav, folder>>

(* stop() has returned, or raised because there is no audio. *)
Recorded ==
    /\ caller \in {"done", "empty"}
    /\ Goto("meeting", IF caller = "done" THEN "minutes" ELSE "prompt")
    /\ folder' = [folder EXCEPT !.heard = heard, !.audio = audio]
    /\ Rec!New
    /\ UNCHANGED <<toolVars, turnOf, tmpWav>>

(* MeetingService.transcribe raises, or saves what may be empty. *)
TranscribeFails ==
    /\ Goto("minutes", "prompt")
    /\ UNCHANGED <<toolVars, turnOf, tmpWav, folder, recorderVars>>

Transcribe ==
    /\ \/ /\ Goto("minutes", "turn") /\ turnOf' = "meeting"
          /\ Save("transcript", "text")
       \/ /\ Goto("minutes", "prompt") /\ UNCHANGED turnOf
          /\ Save("transcript", "empty")
    /\ UNCHANGED <<toolVars, tmpWav, recorderVars>>

(* The turn that summarises returns; of its errors none is expected. *)
Summarise ==
    /\ stage[Repl] = "idle" /\ turnOf = "meeting"
    /\ Goto("turn", "prompt") /\ turnOf' = "prompt"
    /\ Save("summary", TRUE)
    /\ UNCHANGED <<toolVars, tmpWav, recorderVars>>

Voice == EnterVoice \/ LeaveVoice \/ Talk \/ Transcribed
Meeting ==
    \/ BeginMeeting \/ Recording \/ RecordingFails \/ Recorded
    \/ TranscribeFails \/ Transcribe \/ Summarise

Next ==
    \/ Start \/ Message \/ TurnEnds \/ Quit \/ Killed \/ Voice \/ Meeting
    \/ \E a \in Agents : Calling(a) \/ ServerDies(a)

Spec == Init /\ [][Next]_vars

(* The audio library and stop() go on; the user is obliged to nothing. *)
StopGoesOn ==
    /\ repl = "meeting" /\ (Rec!CallbackStep \/ Rec!StopStep)
    /\ UNCHANGED <<toolVars, replVars>>

FairSpec == Spec /\ WF_vars(StopGoesOn)

-----------------------------------------------------------------------------
Modes == {"gone", "prompt", "turn", "voice", "dictated", "meeting", "minutes"}

TypeOK ==
    /\ ToolTypeOK /\ Rec!RecorderTypeOK
    /\ repl \in Modes /\ turnOf \in {"prompt", "voice", "meeting"}
    /\ tmpWav \in BOOLEAN
    /\ folder \in [heard : 0..MaxBlocks, audio : 0..MaxBlocks,
                   transcript : {"none", "empty", "text"}, summary : BOOLEAN]

(* A recording that stop() has returned from is complete (Recorder). *)
RecordingIsComplete == Rec!RecordingIsComplete

(* stop() is not kept waiting by the callback it waits for (Recorder). *)
StopReturns == Rec!StopReturns

(* What the user finds in the folder of a meeting: a summary only with the *)
(* transcript it was made from, a transcript only of a recording in which  *)
(* something was heard, with all that was heard.  No failure, interrupt or *)
(* other meeting in between leads to a summary of nothing.                 *)
SummaryFollowsRecording ==
    /\ folder.summary => folder.transcript = "text"
    /\ folder.transcript # "none" => folder.heard > 0 /\ folder.audio = folder.heard

(* What was said to voice mode is not kept: the file of an utterance is    *)
(* gone when its transcription has ended, whatever way it ended.           *)
UtteranceIsRemoved == tmpWav => repl \in {"dictated", "gone"}
=============================================================================
