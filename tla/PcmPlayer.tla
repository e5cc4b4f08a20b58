----------------------------- MODULE PcmPlayer ------------------------------
(***************************************************************************)
(* The player of cached sounds (MicAgent/PCMPlayer.cpp).  The one worker   *)
(* of m_executor runs the queued tasks; PortAudio runs paStreamCallback()  *)
(* and PaStreamFinishedCallback() on a thread of its own while the stream  *)
(* is active.  They share m_currentPlaying and the offset without a lock.  *)
(* Samples are counted; their values and the volume are left out.          *)
(*                                                                         *)
(* PortAudio is external: a stream starts only when it is stopped; it ends *)
(* when a callback returns paComplete or in Pa_StopStream(), the finished  *)
(* callback follows, and then it is inactive until Pa_StopStream() has     *)
(* returned, which waits for both callbacks.                               *)
(***************************************************************************)
EXTENDS Naturals, Integers, Sequences

CONSTANTS Files,     \* the names the constructor is given, in its order
          Size,      \* the bytes of each file
          None,      \* the null pointer, no file
          Frames,    \* frameCount of every callback
          MaxCalls,  \* bound: calls of play() and stop()
          MaxOffset  \* bound: samples a callback advances past a sound

FileSet == {Files[i] : i \in DOMAIN Files}

\* The samples cached of a file: the size made even, half of it read, and
\* two bytes to the sample.
Samples(f) == LET even == ((Size[f] + 1) \div 2) * 2  IN (even \div 2) \div 2

ASSUME PlayerAssumption ==
  /\ Files \in Seq(FileSet) /\ None \notin FileSet
  /\ Size \in [FileSet -> Nat]
  /\ \A f \in FileSet : Samples(f) \in Nat
  /\ Frames \in Nat \ {0} /\ MaxCalls \in Nat /\ MaxOffset \in Nat

VARIABLES
  cached,    \* the files in m_mapBuffer
  stream,    \* m_paStream: none, or the state of the stream
  playing, offset,                  \* m_currentPlaying and its offset
  queue, worker,                    \* m_executor: tasks, its worker
  cb, cbSound, cbOffset, cbLeft,    \* the callback: place, what it loaded
  raced,     \* history: the sound was set while the stream was active
  stopUsed,  \* history: stop() has been called
  calls      \* counted against MaxCalls

cbVars == <<cb, cbSound, cbOffset, cbLeft>>
callVars == <<stopUsed, calls>>
vars == <<cached, stream, playing, offset, queue, worker, cbVars, raced, callVars>>

PlayTask(f) == [op |-> "play", file |-> f]
StopTask == [op |-> "stop", file |-> None]
FinishTask == [op |-> "finish", file |-> None]
Tasks == {PlayTask(f) : f \in cached} \cup {StopTask, FinishTask}

\* Types; tasks and pointers name sounds that are cached.
TypeOK ==
  /\ cached \in SUBSET FileSet
  /\ stream \in {"none", "stopped", "active", "ended", "inactive"}
  /\ playing \in cached \cup {None} /\ offset \in Nat
  /\ queue \in Seq(Tasks)
  /\ worker \in {"idle", "reset", "start", "stopping"}
  /\ cb \in {"idle", "offset", "left", "copy"}
  /\ cbSound \in cached \cup {None} /\ cbOffset \in Nat /\ cbLeft \in Int
  /\ raced \in BOOLEAN /\ stopUsed \in BOOLEAN /\ calls \in 0..MaxCalls

\* The constructor returns at the first file that does not open, before there
\* is a stream; PortAudio or the device may fail, too.
Init ==
  /\ \E n \in 0..Len(Files) :
       /\ cached = {Files[i] : i \in 1..n}
       /\ stream \in IF n = Len(Files) THEN {"none", "stopped"} ELSE {"none"}
  /\ playing = None /\ offset = 0
  /\ queue = <<>> /\ worker = "idle"
  /\ cb = "idle" /\ cbSound = None /\ cbOffset = 0 /\ cbLeft = 0
  /\ raced = FALSE /\ stopUsed = FALSE /\ calls = 0

-----------------------------------------------------------------------------
\* Mutant of Play: line 102 is missing.
PlayUnchecked(f) ==
  /\ calls < MaxCalls /\ calls' = calls + 1
  /\ queue' = Append(queue, PlayTask(f))
  /\ UNCHANGED <<cached, stream, playing, offset, worker, cbVars, raced, stopUsed>>
\* play(): a file that is not cached is refused.
Play(f) ==
  /\ calls < MaxCalls /\ calls' = calls + 1
  /\ queue' = IF f \in cached THEN Append(queue, PlayTask(f)) ELSE queue
  /\ UNCHANGED <<cached, stream, playing, offset, worker, cbVars, raced, stopUsed>>

Stop ==
  /\ calls < MaxCalls /\ calls' = calls + 1
  /\ queue' = Append(queue, StopTask) /\ stopUsed' = TRUE
  /\ UNCHANGED <<cached, stream, playing, offset, worker, cbVars, raced>>

-----------------------------------------------------------------------------
\* The worker.  A play task sets the sound, then the offset, then starts.
TakePlay ==
  /\ worker = "idle" /\ queue # <<>> /\ Head(queue).op = "play"
  /\ playing' = Head(queue).file /\ queue' = Tail(queue)
  /\ raced' = (stream = "active") /\ worker' = "reset"
  /\ UNCHANGED <<cached, stream, offset, cbVars, callVars>>

\* Mutant of ResetOffset: line 109 is missing.
ResetOffsetKept ==
  /\ worker = "reset"
  /\ worker' = "start"
  /\ UNCHANGED <<cached, stream, playing, offset, queue, cbVars, raced, callVars>>

ResetOffset ==
  /\ worker = "reset"
  /\ offset' = 0 /\ worker' = "start"
  /\ UNCHANGED <<cached, stream, playing, queue, cbVars, raced, callVars>>

\* Pa_StartStream() fails unless the stream is stopped, and may fail then.
StartStream ==
  /\ worker = "start" /\ worker' = "idle"
  /\ stream' \in IF stream = "stopped" THEN {"stopped", "active"} ELSE {stream}
  /\ UNCHANGED <<cached, playing, offset, queue, cbVars, raced, callVars>>

\* The tasks of stop() and of the finished callback: Pa_StopStream() on a
\* stream that is stopped does nothing, as the test in stop() does.
TakeStop ==
  /\ worker = "idle" /\ queue # <<>> /\ Head(queue).op \in {"stop", "finish"}
  /\ queue' = Tail(queue)
  /\ worker' = IF stream \in {"none", "stopped"} THEN "idle" ELSE "stopping"
  /\ UNCHANGED <<cached, stream, playing, offset, cbVars, raced, callVars>>

StopReturns ==
  /\ worker = "stopping" /\ stream = "inactive"
  /\ stream' = "stopped" /\ worker' = "idle"
  /\ UNCHANGED <<cached, playing, offset, queue, cbVars, raced, callVars>>

Worker == TakePlay \/ ResetOffset \/ StartStream \/ TakeStop \/ StopReturns

-----------------------------------------------------------------------------
\* paStreamCallback() loads the sound, then the offset.
LoadSound ==
  /\ cb = "idle" /\ stream = "active"
  /\ cbSound' = playing /\ cb' = "offset"
  /\ UNCHANGED <<cached, stream, playing, offset, queue, worker, cbOffset, cbLeft,
                 raced, callVars>>

LoadOffset ==
  /\ cb = "offset" /\ cbOffset' = offset /\ cb' = "left"
  /\ UNCHANGED <<cached, stream, playing, offset, queue, worker, cbSound, cbLeft,
                 raced, callVars>>

\* What remains: the build may load sound and offset again or use what it has.
LoadSize ==
  /\ cb = "left" /\ cb' = "copy"
  /\ \E s \in {cbSound, playing}, o \in {cbOffset, offset} :
       cbLeft' = Samples(s) - o
  /\ UNCHANGED <<cached, stream, playing, offset, queue, worker, cbSound, cbOffset,
                 raced, callVars>>

\* The difference is unsigned: below zero it wraps to a large number.
More == cbLeft > Frames \/ cbLeft < 0

\* A whole buffer is copied and the offset advanced.  MaxOffset bounds a
\* callback that runs on behind its sound.
CopyAll ==
  /\ cb = "copy" /\ More /\ cb' = "idle"
  /\ \E o \in {cbOffset, offset} : /\ o + Frames <= MaxOffset
                                   /\ offset' = o + Frames
  /\ UNCHANGED <<cached, stream, playing, queue, worker, cbSound, cbOffset, cbLeft,
                 raced, callVars>>

\* Mutant of CopyRest: the callback queues the stop, too.
CopyRestQueues ==
  /\ cb = "copy" /\ ~More /\ cb' = "idle"
  /\ stream' = "ended" /\ queue' = Append(queue, FinishTask)
  /\ UNCHANGED <<cached, playing, offset, worker, cbSound, cbOffset, cbLeft,
                 raced, callVars>>

\* The rest is copied: paComplete.
CopyRest ==
  /\ cb = "copy" /\ ~More /\ cb' = "idle"
  /\ stream' = "ended"
  /\ UNCHANGED <<cached, playing, offset, queue, worker, cbSound, cbOffset, cbLeft,
                 raced, callVars>>

\* Pa_StopStream() takes an active stream down when no callback runs.
StreamStops ==
  /\ worker = "stopping" /\ stream = "active" /\ cb = "idle"
  /\ stream' = "ended"
  /\ UNCHANGED <<cached, playing, offset, queue, worker, cbVars, raced, callVars>>

\* Mutant of Finished: no stop is queued.
FinishedSilent ==
  /\ stream = "ended" /\ stream' = "inactive"
  /\ UNCHANGED <<cached, playing, offset, queue, worker, cbVars, raced, callVars>>

\* PaStreamFinishedCallback() queues the stop.
Finished ==
  /\ stream = "ended" /\ stream' = "inactive"
  /\ queue' = Append(queue, FinishTask)
  /\ UNCHANGED <<cached, playing, offset, worker, cbVars, raced, callVars>>

Callback == LoadSound \/ LoadOffset \/ LoadSize \/ CopyAll \/ CopyRest
Next == Stop \/ (\E f \in FileSet : Play(f))
          \/ Worker \/ Callback \/ StreamStops \/ Finished

\* Threads run; nobody is bound to call play() or stop().
Spec == /\ Init /\ [][Next]_vars
        /\ WF_vars(Worker) /\ WF_vars(Callback)
        /\ WF_vars(StreamStops) /\ WF_vars(Finished)

-----------------------------------------------------------------------------
Copied == IF More THEN Frames ELSE cbLeft

\* What a callback copies lies within the sound it has loaded, unless the
\* sound was replaced while the stream was active (lines 16 to 34 against
\* 108 and 109).
ReadsInBounds ==
  cb = "copy" /\ ~raced => cbOffset + Copied <= Samples(cbSound)

\* The delayed task of the finished callback stops the stream whose end it
\* was queued for, never a sound that was started since (lines 48 to 52
\* against 111), while nobody calls stop().
FinishStopsEnded ==
  [][TakeStop /\ Head(queue) = FinishTask /\ ~stopUsed => stream = "inactive"]_vars

\* A sound that started comes to its end and the stream is stopped, ready for
\* the next one (lines 35, 43, 50), unless another sound takes its place.
SoundEnds == (stream = "active" /\ ~raced) ~> (stream = "stopped" \/ raced)
=============================================================================
