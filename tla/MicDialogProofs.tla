-------------------------- MODULE MicDialogProofs ---------------------------
(***************************************************************************)
(* What the unlocked forwarding/fdAudio pair of MicAgent does guarantee,   *)
(* for any number of wake words, events and exits of the app.              *)
(***************************************************************************)
EXTENDS MicDialog, SequenceTheorems, TLAPS

TaskNames  == {"close", "dialog", "dialogOpen"}
EventNames == {"END", "THINKING", "SPEAKING"}

\* Taking a task leaves the other pending tasks pending.
LEMMA TakeKeepsPending ==
  ASSUME TypeOK, NEW t, TakeTask(t)
  PROVE  /\ executor' \in Seq(TaskNames)
         /\ Pending("dialogOpen") /\ t # "dialogOpen" => Pending("dialogOpen")'
<1>1. /\ Len(executor) \in Nat \ {0} /\ executor[1] = t
      /\ executor' \in Seq(TaskNames)
      /\ Len(executor') = Len(executor) - 1
      /\ \A i \in 1..Len(executor') : executor'[i] = executor[i + 1]
  BY HeadTailProperties, EmptySeq DEF TypeOK, TakeTask, TaskNames
<1>2. ASSUME NEW i \in 1..Len(executor), i # 1
      PROVE  i - 1 \in 1..Len(executor') /\ executor'[i - 1] = executor[i]
  <2>1. i - 1 \in 1..Len(executor')
    BY <1>1, <1>2
  <2>2. executor'[i - 1] = executor[(i - 1) + 1]
    BY <1>1, <2>1
  <2> QED BY <1>1, <1>2, <2>1, <2>2
<1> QED BY <1>1, <1>2 DEF Pending

\* Enqueuing a task makes it pending.
LEMMA AppendIsPending ==
  ASSUME TypeOK, NEW t \in TaskNames, executor' = Append(executor, t)
  PROVE  /\ executor' \in Seq(TaskNames)
         /\ Pending("dialogOpen") => Pending("dialogOpen")'
         /\ Pending(t)'
<1>1. /\ Len(executor) \in Nat
      /\ executor' \in Seq(TaskNames)
      /\ Len(executor') = Len(executor) + 1
      /\ \A i \in 1..Len(executor) : executor'[i] = executor[i]
      /\ executor'[Len(executor) + 1] = t
  BY AppendProperties, LenProperties DEF TypeOK, TaskNames
<1> QED BY <1>1 DEF Pending

-----------------------------------------------------------------------------
LEMMA RecTypes == TypeOK /\ RecNext => TypeOK'
<1> SUFFICES ASSUME TypeOK, RecNext PROVE TypeOK'
  OBVIOUS
<1> USE DEF TypeOK, recOthers, appVars, NextChunk
<1>1. CASE ReadChunk
  BY <1>1, BoundsAssumption DEF ReadChunk
<1>2. CASE WakeWord
  BY <1>2 DEF WakeWord, MayWake
<1>3. CASE WakeInDialog
  <2>1. executor' \in Seq(TaskNames)
    BY <1>3, AppendIsPending DEF WakeInDialog, TaskNames
  <2> QED BY <1>3, <2>1 DEF WakeInDialog, TaskNames
<1>4. CASE WakeStarts
  <2>1. executor' \in Seq(TaskNames)
    BY <1>4, AppendIsPending DEF WakeStarts, TaskNames
  <2> QED BY <1>4, <2>1 DEF WakeStarts, TaskNames
<1>5. CASE OnAudio
  BY <1>5 DEF OnAudio
<1>6. CASE WriteAudio
  BY <1>6 DEF WriteAudio
<1>7. CASE RecorderQuits
  BY <1>7 DEF RecorderQuits
<1> QED BY <1>1, <1>2, <1>3, <1>4, <1>5, <1>6, <1>7 DEF RecNext

LEMMA TaskTypes == TypeOK /\ TaskNext => TypeOK'
<1> SUFFICES ASSUME TypeOK, TaskNext PROVE TypeOK'
  OBVIOUS
<1> USE DEF TypeOK, taskOthers, counters, SendDialogStart
<1>1. ASSUME NEW t, TakeTask(t) PROVE executor' \in Seq({"close", "dialog", "dialogOpen"})
  BY <1>1, TakeKeepsPending DEF TaskNames
<1>2. CASE RunDialog
  BY <1>1, <1>2 DEF RunDialog
<1>3. CASE RunDialogOpen
  BY <1>1, <1>3 DEF RunDialogOpen
<1>4. CASE OpenFifo
  BY <1>4 DEF OpenFifo
<1>5. CASE OpenFails
  <2>1. forwarding' \in BOOLEAN
    BY <1>5 DEF OpenFails
  <2> QED BY <1>5, <2>1 DEF OpenFails
<1>6. CASE RunClose
  <2>1. forwarding' \in BOOLEAN
    BY <1>6 DEF RunClose
  <2> QED BY <1>1, <1>6, <2>1 DEF RunClose
<1>7. CASE CloseFifo
  BY <1>7 DEF CloseFifo
<1>8. CASE ClearFd
  BY <1>8 DEF ClearFd
<1> QED BY <1>2, <1>3, <1>4, <1>5, <1>6, <1>7, <1>8 DEF TaskNext, TaskProgress

LEMMA RecvTypes == TypeOK /\ RecvNext => TypeOK'
<1> SUFFICES ASSUME TypeOK, RecvNext PROVE TypeOK'
  OBVIOUS
<1>1. ASSUME NEW m, Receive(m)
      PROVE  inbox' \in Seq({"END", "THINKING", "SPEAKING", "STOPPED"})
  BY <1>1, HeadTailProperties DEF TypeOK, Receive
<1>2. ASSUME executor' = Append(executor, "close")
      PROVE  executor' \in Seq({"close", "dialog", "dialogOpen"})
  BY <1>2, AppendIsPending DEF TaskNames
<1> USE DEF TypeOK, recvOthers, appVars, counters
<1>3. CASE OnThinking
  BY <1>1, <1>3 DEF OnThinking
<1>4. CASE OnSpeaking
  <2>1. inThinking' \in BOOLEAN
    BY <1>4 DEF OnSpeaking
  <2> QED BY <1>1, <1>4, <2>1 DEF OnSpeaking
<1>5. CASE StopCapture
  <2>1. inThinking' \in BOOLEAN
    BY <1>5 DEF StopCapture
  <2> QED BY <1>1, <1>2, <1>5, <2>1 DEF StopCapture
<1>6. CASE Welcomed
  BY <1>6 DEF Welcomed
<1>7. CASE IflyosAppExited
  BY <1>1, <1>2, <1>7 DEF IflyosAppExited
<1> QED BY <1>3, <1>4, <1>5, <1>6, <1>7 DEF RecvNext

LEMMA MainTypes == TypeOK /\ MainNext => TypeOK'
<1> SUFFICES ASSUME TypeOK, MainNext PROVE TypeOK'
  OBVIOUS
<1> USE DEF TypeOK, mainOthers, appVars, counters
<1>1. CASE RestartKey
  BY <1>1 DEF RestartKey
<1>2. CASE WaitStart
  <2>1. inThinking' \in BOOLEAN
    BY <1>2 DEF WaitStart
  <2> QED BY <1>2, <2>1 DEF WaitStart
<1>3. CASE ReadKeys
  BY <1>3 DEF ReadKeys
<1>4. CASE MicMuteKey
  <2>1. micOn' \in BOOLEAN
    BY <1>4 DEF MicMuteKey
  <2> QED BY <1>4, <2>1 DEF MicMuteKey
<1>5. CASE NetworkStatusChanged
  <2>1. hasNetwork' \in BOOLEAN
    BY <1>5 DEF NetworkStatusChanged
  <2> QED BY <1>5, <2>1 DEF NetworkStatusChanged
<1> QED BY <1>1, <1>2, <1>3, <1>4, <1>5 DEF MainNext

LEMMA AppTypes == TypeOK /\ AppNext => TypeOK'
<1> SUFFICES ASSUME TypeOK, AppNext PROVE TypeOK'
  OBVIOUS
<1>1. ASSUME NEW e \in {"END", "THINKING", "SPEAKING"}, relay' = Append(relay, e)
      PROVE  relay' \in Seq({"END", "THINKING", "SPEAKING"})
  BY <1>1, AppendProperties DEF TypeOK
<1> USE DEF TypeOK, appOthers, micVars
<1>2. CASE AppBoots
  BY <1>1, <1>2 DEF AppBoots
<1>3. CASE AppDialogStarts
  BY <1>3 DEF AppDialogStarts
<1>4. ASSUME NEW from, NEW to \in {"idle", "thinking", "speaking"},
             NEW e \in {"END", "THINKING", "SPEAKING"}, AppReports(from, to, e)
      PROVE  TypeOK'
  <2>1. events' \in 0..MaxEvents
    BY <1>4, BoundsAssumption DEF AppReports
  <2> QED BY <1>1, <1>4, <2>1 DEF AppReports
<1>5. CASE AppClosesFifo
  <2>1. reader' \in BOOLEAN
    BY <1>5 DEF AppClosesFifo
  <2> QED BY <1>5, <2>1 DEF AppClosesFifo
<1>6. CASE AppExits
  <2>1. exits' \in 0..MaxExits
    BY <1>6, BoundsAssumption DEF AppExits
  <2>2. reader' \in BOOLEAN
    BY <1>6 DEF AppExits
  <2> QED BY <1>6, <2>1, <2>2 DEF AppExits
<1>7. CASE Relay
  <2>1. /\ Head(relay) \in {"END", "THINKING", "SPEAKING"}
        /\ relay' \in Seq({"END", "THINKING", "SPEAKING"})
    BY <1>7, HeadTailProperties DEF Relay
  <2>2. inbox' \in Seq({"END", "THINKING", "SPEAKING", "STOPPED"})
    BY <1>7, <2>1, AppendProperties DEF Relay
  <2> QED BY <1>7, <2>1, <2>2 DEF Relay
<1>8. CASE ReportStopped
  <2>1. inbox' \in Seq({"END", "THINKING", "SPEAKING", "STOPPED"})
    BY <1>8, AppendProperties DEF ReportStopped
  <2>2. died' \in BOOLEAN
    BY <1>8 DEF ReportStopped
  <2> QED BY <1>8, <2>1, <2>2 DEF ReportStopped
<1> QED BY <1>2, <1>3, <1>4, <1>5, <1>6, <1>7, <1>8 DEF AppNext, AppDialogGoesOn

\* The state has its types.
THEOREM TypeCorrect == Safety => []TypeOK
<1>1. Init => TypeOK
  <2> SUFFICES ASSUME Init PROVE TypeOK
    OBVIOUS
  <2>1. /\ forwarding \in BOOLEAN /\ inThinking \in BOOLEAN /\ micOn \in BOOLEAN
        /\ hasNetwork \in BOOLEAN /\ alive \in BOOLEAN /\ reader \in BOOLEAN
        /\ died \in BOOLEAN
    BY DEF Init
  <2>2. /\ executor \in Seq({"close", "dialog", "dialogOpen"})
        /\ inbox \in Seq({"END", "THINKING", "SPEAKING", "STOPPED"})
        /\ relay \in Seq({"END", "THINKING", "SPEAKING"})
    BY EmptySeq DEF Init
  <2>3. /\ wakes \in 0..MaxWakes /\ events \in 0..MaxEvents /\ exits \in 0..MaxExits
        /\ requests \in Nat
    BY BoundsAssumption DEF Init
  <2>4. fdAudio \in {-1} \cup Fds /\ recFd \in {-1} \cup Fds
    BY DEF Init
  <2> QED BY <2>1, <2>2, <2>3, <2>4 DEF Init, TypeOK
<1>2. TypeOK /\ [Next]_vars => TypeOK'
  <2>1. TypeOK /\ UNCHANGED vars => TypeOK'
    BY DEF TypeOK, vars, micVars, appVars, counters
  <2> QED BY <2>1, RecTypes, TaskTypes, RecvTypes, MainTypes, AppTypes DEF Next
<1> QED BY <1>1, <1>2, PTL DEF Safety

-----------------------------------------------------------------------------
(* The two invariants of forwarding and fdAudio.  Each is inductive with   *)
(* the types: a task that opens is on its way from the moment forwarding   *)
(* is set, and only the one worker of the executor touches the descriptor. *)

FdInv == NoHollowForwarding /\ CloseHitsFifo

LEMMA FdRec == TypeOK /\ FdInv /\ RecNext => FdInv'
<1> SUFFICES ASSUME TypeOK, FdInv, RecNext PROVE FdInv'
  OBVIOUS
<1> USE DEF FdInv, NoHollowForwarding, CloseHitsFifo, recOthers
<1>1. ASSUME UNCHANGED executor, rec # "start", rec' = "start" \/ forwarding' = forwarding
      PROVE  FdInv'
  BY <1>1, RecTypes DEF RecNext, ReadChunk, WakeWord, WakeInDialog, WakeStarts,
                        OnAudio, WriteAudio, RecorderQuits, Pending
<1>2. CASE WakeInDialog
  <2>1. Pending("dialogOpen") => Pending("dialogOpen")'
    BY <1>2, AppendIsPending DEF WakeInDialog, TaskNames, Pending
  <2> QED BY <1>2, <2>1 DEF WakeInDialog
<1>3. CASE WakeStarts
  <2>1. Pending("dialogOpen")'
    BY <1>3, AppendIsPending DEF WakeStarts, TaskNames
  <2> QED BY <1>3, <2>1 DEF WakeStarts
<1>4. CASE WakeWord
  BY <1>1, <1>4 DEF WakeWord, TypeOK
<1> QED BY <1>1, <1>2, <1>3, <1>4 DEF RecNext, ReadChunk, OnAudio, WriteAudio,
                                      RecorderQuits

LEMMA FdTask == TypeOK /\ FdInv /\ TaskNext => FdInv'
<1> SUFFICES ASSUME TypeOK, FdInv, TaskNext PROVE FdInv'
  OBVIOUS
<1> USE DEF FdInv, NoHollowForwarding, CloseHitsFifo, taskOthers
<1>1. CASE RunDialog
  BY <1>1, TakeKeepsPending DEF RunDialog, TakeTask
<1>2. CASE RunDialogOpen
  BY <1>2 DEF RunDialogOpen, TakeTask
<1>3. CASE OpenFifo
  BY <1>3 DEF OpenFifo
<1>4. CASE OpenFails
  BY <1>4 DEF OpenFails
<1>5. CASE RunClose
  BY <1>5 DEF RunClose, TakeTask
<1>6. CASE CloseFifo
  BY <1>6 DEF CloseFifo, Pending
<1>7. CASE ClearFd
  BY <1>7 DEF ClearFd, Pending
<1> QED BY <1>1, <1>2, <1>3, <1>4, <1>5, <1>6, <1>7 DEF TaskNext, TaskProgress

LEMMA FdRecv == TypeOK /\ FdInv /\ RecvNext => FdInv'
<1> SUFFICES ASSUME TypeOK, FdInv, RecvNext PROVE FdInv'
  OBVIOUS
<1>1. Pending("dialogOpen") => Pending("dialogOpen")'
  <2>1. CASE UNCHANGED executor
    BY <2>1 DEF Pending
  <2>2. CASE executor' = Append(executor, "close")
    BY <2>2, AppendIsPending DEF TaskNames
  <2> QED BY <2>1, <2>2 DEF RecvNext, OnThinking, OnSpeaking, StopCapture, Welcomed,
                            IflyosAppExited
<1>2. UNCHANGED <<forwarding, fdAudio, task, rec, openFds>>
  BY DEF RecvNext, OnThinking, OnSpeaking, StopCapture, Welcomed, IflyosAppExited,
         recvOthers
<1> QED BY <1>1, <1>2 DEF FdInv, NoHollowForwarding, CloseHitsFifo

LEMMA FdOther ==
  TypeOK /\ FdInv /\ (MainNext \/ AppNext \/ UNCHANGED vars) => FdInv'
<1> SUFFICES ASSUME TypeOK, FdInv, MainNext \/ AppNext \/ UNCHANGED vars PROVE FdInv'
  OBVIOUS
<1>1. UNCHANGED <<forwarding, fdAudio, task, rec, openFds, executor>>
  BY DEF MainNext, RestartKey, WaitStart, ReadKeys, MicMuteKey, NetworkStatusChanged,
         mainOthers, AppNext, AppBoots, AppDialogStarts, AppDialogGoesOn, AppReports,
         AppClosesFifo, AppExits, Relay, ReportStopped, appOthers, micVars, vars
<1> QED BY <1>1 DEF FdInv, NoHollowForwarding, CloseHitsFifo, Pending

\* MicAgent never believes it streams with nothing to stream to, and its
\* descriptors are the FIFO's: together they are inductive.
THEOREM DescriptorSafety == Safety => [](NoHollowForwarding /\ CloseHitsFifo)
<1>1. Init => FdInv
  BY DEF Init, FdInv, NoHollowForwarding, CloseHitsFifo
<1>2. TypeOK /\ FdInv /\ [Next]_vars => FdInv'
  BY FdRec, FdTask, FdRecv, FdOther DEF Next
<1>3. FdInv => NoHollowForwarding /\ CloseHitsFifo
  BY DEF FdInv
<1> QED BY <1>1, <1>2, <1>3, TypeCorrect, PTL DEF Safety

\* close() is never given a descriptor that is not the FIFO's: it is closed
\* once, by the task that clears fdAudio next.
THEOREM CloseIsOfFifo == Safety => []CloseHitsFifo
BY DescriptorSafety, PTL
=============================================================================
