-------------------------- MODULE PcmPlayerProofs ---------------------------
(***************************************************************************)
(* The safety properties of PcmPlayer for any files, sizes and buffers.    *)
(***************************************************************************)
EXTENDS PcmPlayer, TLAPS

(***************************************************************************)
(* A callback runs only on an active stream, which has a sound; the worker *)
(* waits only for a stream that was started.                               *)
(***************************************************************************)
Shape ==
  /\ cb # "idle" => stream = "active" /\ cbSound # None
  /\ stream \in {"active", "ended", "inactive"} => playing # None
  /\ worker \in {"reset", "start"} => playing # None
  /\ worker = "stopping" => stream \in {"active", "ended", "inactive"}

(***************************************************************************)
(* While the sound has not been replaced under it, the callback sees what  *)
(* is stored, and the offset stays within the sound.                       *)
(***************************************************************************)
Clean ==
  /\ stream = "active" => worker \notin {"reset", "start"} /\ offset <= Samples(playing)
  /\ worker = "start" => offset = 0
  /\ cb # "idle" => cbSound = playing
  /\ cb \in {"left", "copy"} => cbOffset = offset
  /\ cb = "copy" => cbLeft = Samples(playing) - offset

(***************************************************************************)
(* Without stop() there is at most one stop task, queued or running, and   *)
(* only while the stream is inactive.                                      *)
(***************************************************************************)
OneFinish ==
  /\ \A i \in DOMAIN queue : queue[i].op # "play" =>
        /\ queue[i] = FinishTask /\ stream = "inactive" /\ worker # "stopping"
        /\ \A j \in DOMAIN queue : queue[j].op # "play" => j = i
  /\ worker = "stopping" => stream = "inactive"

IInv == TypeOK /\ Shape /\ (~raced => Clean) /\ (~stopUsed => OneFinish)

-----------------------------------------------------------------------------
(* The sounds that are cached have a length.                               *)
LEMMA Lengths == \A f \in FileSet : Samples(f) \in Nat
BY PlayerAssumption

LEMMA InitInv == Init => IInv
<1> SUFFICES ASSUME Init PROVE IInv
  OBVIOUS
<1>1. cached \in SUBSET FileSet /\ stream \in {"none", "stopped"}
  <2> PICK n \in 0..Len(Files) : /\ cached = {Files[i] : i \in 1..n}
                                 /\ stream \in {"none", "stopped"}
    BY DEF Init
  <2> QED BY PlayerAssumption DEF FileSet
<1>2. calls \in 0..MaxCalls
  BY PlayerAssumption DEF Init
<1>3. queue \in Seq(Tasks)
  BY DEF Init
<1>4. raced \in BOOLEAN /\ stopUsed \in BOOLEAN
  BY DEF Init
<1>5. TypeOK
  BY <1>1, <1>2, <1>3, <1>4 DEF Init, TypeOK
<1> QED BY <1>1, <1>5 DEF Init, IInv, Shape, Clean, OneFinish

(* A task taken from the queue is one of Tasks, and so are those that stay. *)
LEMMA Dequeue ==
  ASSUME NEW S, NEW q \in Seq(S), q # <<>>
  PROVE  /\ Head(q) \in S /\ Tail(q) \in Seq(S)
         /\ 1 \in DOMAIN q /\ Head(q) = q[1]
         /\ \A i \in DOMAIN Tail(q) : i + 1 \in DOMAIN q /\ Tail(q)[i] = q[i + 1]
OBVIOUS

LEMMA Enqueue ==
  ASSUME NEW S, NEW q \in Seq(S), NEW t \in S
  PROVE  /\ Append(q, t) \in Seq(S)
         /\ \A i \in DOMAIN Append(q, t) :
              \/ i \in DOMAIN q /\ Append(q, t)[i] = q[i]
              \/ i = Len(q) + 1 /\ Append(q, t)[i] = t
OBVIOUS

(* Every step keeps IInv.                                                  *)
LEMMA StepInv == IInv /\ [Next]_vars => IInv'
<1> SUFFICES ASSUME IInv, [Next]_vars PROVE IInv'
  OBVIOUS
<1> USE Lengths, PlayerAssumption
<1> USE DEF IInv, TypeOK, Shape, Clean, OneFinish, callVars, cbVars
<1>0. Tasks' = Tasks
  BY DEF Next, vars, Worker, Callback, Play, Stop, TakePlay, ResetOffset, StartStream,
     TakeStop, StopReturns, LoadSound, LoadOffset, LoadSize, CopyAll, CopyRest,
     StreamStops, Finished, Tasks
<1>1. ASSUME NEW f \in FileSet, Play(f) PROVE IInv'
  <2>1. CASE f \in cached
    <3>1. PlayTask(f) \in Tasks
      BY <2>1 DEF Tasks
    <3>2. queue' = Append(queue, PlayTask(f))
      BY <1>1, <2>1 DEF Play
    <3>3. queue' \in Seq(Tasks') /\ \A i \in DOMAIN queue' : queue'[i].op # "play" =>
             i \in DOMAIN queue /\ queue'[i] = queue[i]
      BY <1>0, <3>1, <3>2, Enqueue DEF PlayTask
    <3>4. calls' \in 0..MaxCalls
      BY <1>1 DEF Play
    <3>5. TypeOK' /\ Shape' /\ (~raced => Clean)'
      BY <1>1, <3>3, <3>4 DEF Play
    <3>6. (~stopUsed => OneFinish)'
      BY <1>1, <3>3 DEF Play
    <3> QED BY <3>5, <3>6
  <2>2. CASE f \notin cached
    BY <1>0, <1>1, <2>2 DEF Play
  <2> QED BY <2>1, <2>2
<1>2. CASE Stop
  <2>1. StopTask \in Tasks
    BY DEF Tasks
  <2>2. queue' \in Seq(Tasks')
    BY <1>0, <1>2, <2>1, Enqueue DEF Stop
  <2> QED BY <1>2, <2>2 DEF Stop
<1>3. CASE TakePlay
  <2>1. Head(queue) \in Tasks /\ queue' \in Seq(Tasks')
    BY <1>0, <1>3, Dequeue DEF TakePlay
  <2>2. playing' \in cached' /\ playing' # None
    BY <1>3, <2>1 DEF TakePlay, Tasks, PlayTask, StopTask, FinishTask
  <2>3. \A i \in DOMAIN queue' : i + 1 \in DOMAIN queue /\ queue'[i] = queue[i + 1]
    BY <1>3, Dequeue DEF TakePlay
  <2>4. raced' \in BOOLEAN
    BY <1>3 DEF TakePlay
  <2>5. TypeOK' /\ Shape'
    BY <1>3, <2>1, <2>2, <2>4 DEF TakePlay
  <2>6. (~raced => Clean)'
    BY <1>3 DEF TakePlay
  <2>7. (~stopUsed => OneFinish)'
    BY <1>3, <2>3 DEF TakePlay
  <2> QED BY <2>5, <2>6, <2>7
<1>4. CASE ResetOffset
  BY <1>0, <1>4 DEF ResetOffset
<1>5. CASE StartStream
  BY <1>0, <1>5 DEF StartStream
<1>6. CASE TakeStop
  <2>1. queue' \in Seq(Tasks')
    BY <1>0, <1>6, Dequeue DEF TakeStop
  <2>2. \A i \in DOMAIN queue' : i + 1 \in DOMAIN queue /\ queue'[i] = queue[i + 1]
    BY <1>6, Dequeue DEF TakeStop
  <2>3. 1 \in DOMAIN queue /\ queue[1].op # "play"
    BY <1>6, Dequeue DEF TakeStop
  <2>4. TypeOK' /\ Shape' /\ (~raced => Clean)'
    BY <1>6, <2>1 DEF TakeStop
  <2>5. (~stopUsed => OneFinish)'
    <3> SUFFICES ASSUME ~stopUsed PROVE OneFinish'
      BY <1>6 DEF TakeStop
    <3>1. stream = "inactive" /\ \A j \in DOMAIN queue : queue[j].op # "play" => j = 1
      BY <2>3
    <3>2. \A i \in DOMAIN queue' : queue'[i].op = "play"
      BY <2>1, <2>2, <3>1
    <3> QED BY <1>6, <3>1, <3>2 DEF TakeStop
  <2> QED BY <2>4, <2>5
<1>7. CASE StopReturns
  BY <1>0, <1>7 DEF StopReturns
<1>8. CASE LoadSound
  BY <1>0, <1>8 DEF LoadSound
<1>9. CASE LoadOffset
  BY <1>0, <1>9 DEF LoadOffset
<1>10. CASE LoadSize
  <2> PICK s \in {cbSound, playing}, o \in {cbOffset, offset} : cbLeft' = Samples(s) - o
    BY <1>10 DEF LoadSize
  <2>1. s \in FileSet /\ o \in Nat
    BY <1>10 DEF LoadSize
  <2>2. cbLeft' \in Int
    BY <2>1
  <2> QED BY <1>0, <1>10, <2>2 DEF LoadSize
<1>11. CASE CopyAll
  BY <1>0, <1>11 DEF CopyAll, More
<1>12. CASE CopyRest
  BY <1>0, <1>12 DEF CopyRest
<1>13. CASE StreamStops
  BY <1>0, <1>13 DEF StreamStops
<1>14. CASE Finished
  <2>1. FinishTask \in Tasks
    BY DEF Tasks
  <2>2. queue' \in Seq(Tasks')
    BY <1>0, <1>14, <2>1, Enqueue DEF Finished
  <2>3. TypeOK' /\ Shape' /\ (~raced => Clean)'
    BY <1>14, <2>2 DEF Finished
  <2>4. (~stopUsed => OneFinish)'
    <3> SUFFICES ASSUME ~stopUsed PROVE OneFinish'
      BY <1>14 DEF Finished
    <3>1. \A i \in DOMAIN queue : queue[i].op = "play"
      BY <1>14 DEF Finished
    <3>2. \A i \in DOMAIN queue' : queue'[i].op # "play" =>
            i = Len(queue) + 1 /\ queue'[i] = FinishTask
      BY <1>14, <2>1, <3>1, Enqueue DEF Finished
    <3> QED BY <1>14, <3>2 DEF Finished
  <2> QED BY <2>3, <2>4
<1>15. CASE UNCHANGED vars
  BY <1>0, <1>15 DEF vars
<1> QED
  BY <1>1, <1>2, <1>3, <1>4, <1>5, <1>6, <1>7, <1>8, <1>9, <1>10, <1>11, <1>12,
     <1>13, <1>14, <1>15 DEF Next, Worker, Callback

LEMMA Invariance == Spec => []IInv
<1> QED BY InitInv, StepInv, PTL DEF Spec

-----------------------------------------------------------------------------
(* Types; play tasks and the sound pointers name cached sounds only, so    *)
(* that line 108 never makes an empty entry in m_mapBuffer.                *)
THEOREM TypeCorrect == Spec => []TypeOK
<1>1. IInv => TypeOK
  BY DEF IInv
<1> QED BY <1>1, Invariance, PTL

(* The callback reads within its sound unless a play task replaced it while *)
(* the stream was active.                                                  *)
THEOREM CallbackInBounds == Spec => []ReadsInBounds
<1>1. IInv => ReadsInBounds
  <2> SUFFICES ASSUME IInv, cb = "copy", ~raced
               PROVE  cbOffset + Copied <= Samples(cbSound)
    BY DEF ReadsInBounds
  <2>1. cbSound \in FileSet /\ Samples(cbSound) \in Nat /\ offset \in Nat
    BY Lengths DEF IInv, TypeOK, Shape
  <2>2. /\ cbOffset = offset /\ cbLeft = Samples(cbSound) - offset
        /\ offset <= Samples(cbSound)
    BY DEF IInv, Clean, Shape
  <2> QED BY <2>1, <2>2, PlayerAssumption DEF Copied, More
<1> QED BY <1>1, Invariance, PTL

(* The stop queued at the end of a sound never ends a later one.           *)
THEOREM FinishIsForEnded == Spec => FinishStopsEnded
<1>1. IInv /\ [Next]_vars =>
        [TakeStop /\ Head(queue) = FinishTask /\ ~stopUsed => stream = "inactive"]_vars
  <2> SUFFICES ASSUME IInv, TakeStop, ~stopUsed PROVE stream = "inactive"
    OBVIOUS
  <2>1. 1 \in DOMAIN queue /\ queue[1].op # "play"
    BY Dequeue DEF IInv, TypeOK, TakeStop
  <2> QED BY <2>1 DEF IInv, OneFinish
<1> QED BY <1>1, Invariance, PTL DEF Spec, FinishStopsEnded
=============================================================================
