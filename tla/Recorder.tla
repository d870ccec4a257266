------------------------------ MODULE Recorder ------------------------------
(***************************************************************************)
(* MeetingRecorder (meetings/recorder.py): start() and stop() on the       *)
(* thread of the REPL, _on_audio on the thread of the audio library, which *)
(* is external: a stream calls back between start and stop, one block at a *)
(* time, and stream.stop() waits for the call that is under way.           *)
(*                                                                         *)
(* Writes to the file are taken to succeed: a writeframes that raises on   *)
(* the audio thread (a full disk) would abort the stream and lose the rest *)
(* of the recording without stop() noticing, and is not modelled.          *)
(***************************************************************************)
EXTENDS Naturals

CONSTANT MaxBlocks      \* bound: blocks of audio per recording

VARIABLES
    caller,         \* where the thread of start() and stop() is
    callback,       \* where the audio thread is; locked: it has _write_lock
    wavOpen,        \* _wav is not None
    framesWritten,  \* frames_written, in blocks
    audio,          \* the blocks in the file
    heard           \* history: the blocks the callback was called with

recorderVars == <<caller, callback, wavOpen, framesWritten, audio, heard>>

(* Mutant of FramesOfNew: one recorder is used for every meeting. *)
FramesOfNewKept == framesWritten

FramesOfNew == 0

RecorderInit ==
    /\ caller = "idle" /\ callback = "idle" /\ wavOpen = FALSE
    /\ framesWritten = 0 /\ audio = 0 /\ heard = 0

(* A new MeetingRecorder, and the old one with its stream and file gone. *)
New ==
    /\ caller' = "idle" /\ callback' = "idle" /\ wavOpen' = FALSE
    /\ framesWritten' = FramesOfNew /\ audio' = 0 /\ heard' = 0

CallerGoes(from, to) == caller = from /\ caller' = to

-----------------------------------------------------------------------------
(* start().                                                                *)

(* wave.open creates the file. *)
OpenWav ==
    /\ CallerGoes("idle", "opened")
    /\ wavOpen' = TRUE /\ audio' = 0
    /\ UNCHANGED <<callback, framesWritten, heard>>

(* The stream factory and stream.start(). *)
StartStream ==
    /\ CallerGoes("opened", "recording")
    /\ UNCHANGED <<callback, wavOpen, framesWritten, audio, heard>>

-----------------------------------------------------------------------------
(* _on_audio().                                                            *)

CallbackGoes(from, to) == callback = from /\ callback' = to

(* The stream has a block of audio. *)
Deliver ==
    /\ caller = "recording" /\ heard < MaxBlocks
    /\ CallbackGoes("idle", "called")
    /\ heard' = heard + 1
    /\ UNCHANGED <<caller, wavOpen, framesWritten, audio>>

(* Mutant of LockIsFree: stop() calls stream.stop() with the lock held. *)
LockIsFreeUnlessStopping == caller # "stopping"

(* stop() does all it does under the lock in one step, CloseWav. *)
LockIsFree == TRUE

CallbackLocks ==
    /\ LockIsFree
    /\ CallbackGoes("called", "locked")
    /\ UNCHANGED <<caller, wavOpen, framesWritten, audio, heard>>

Write ==
    /\ CallbackGoes("locked", "idle")
    /\ IF wavOpen
       THEN audio' = audio + 1 /\ framesWritten' = framesWritten + 1
       ELSE UNCHANGED <<audio, framesWritten>>
    /\ UNCHANGED <<caller, wavOpen, heard>>

-----------------------------------------------------------------------------
(* stop().                                                                 *)

(* Mutant of WavInStop: the file is closed before the stream is stopped. *)
WavInStopClosed == FALSE

WavInStop == wavOpen

(* stream.stop() is called. *)
Stop ==
    /\ CallerGoes("recording", "stopping")
    /\ wavOpen' = WavInStop
    /\ UNCHANGED <<callback, framesWritten, audio, heard>>

(* It returns, and the stream is closed. *)
StreamStops ==
    /\ callback = "idle"
    /\ CallerGoes("stopping", "stopped")
    /\ UNCHANGED <<callback, wavOpen, framesWritten, audio, heard>>

(* The file is closed under the lock, and the frames are looked at. *)
CloseWav ==
    /\ callback # "locked"
    /\ CallerGoes("stopped", IF framesWritten = 0 THEN "empty" ELSE "done")
    /\ wavOpen' = FALSE
    /\ UNCHANGED <<callback, framesWritten, audio, heard>>

CallbackStep == CallbackLocks \/ Write
StopStep == StreamStops \/ CloseWav
RecorderStep == OpenWav \/ StartStream \/ Deliver \/ CallbackStep \/ Stop \/ StopStep

-----------------------------------------------------------------------------
RecorderTypeOK ==
    /\ caller \in {"idle", "opened", "recording", "stopping", "stopped", "empty", "done"}
    /\ callback \in {"idle", "called", "locked"}
    /\ wavOpen \in BOOLEAN
    /\ {framesWritten, audio, heard} \subseteq 0..MaxBlocks

(* When stop() has returned the file is complete: every block the stream   *)
(* has delivered is in it, the last one included, and none comes later;    *)
(* and stop() complains of an empty recording only about an empty one.     *)
(* (No write to the file fails, see above.)                                *)
RecordingIsComplete ==
    caller \in {"empty", "done"} =>
        /\ audio = heard /\ callback = "idle" /\ ~wavOpen
        /\ caller = "done" <=> heard > 0

(* stop() returns: it does not hold the lock the last callback waits for.  *)
StopReturns == caller = "stopping" ~> caller # "stopping"
=============================================================================
