--------------------------- MODULE RecorderProofs ---------------------------
(***************************************************************************)
(* The recorder holds its device and its one reader, whatever fails and    *)
(* wherever SIGINT comes.                                                  *)
(***************************************************************************)
EXTENDS Recorder, TLAPS

(***************************************************************************)
(* Neither DeviceHeld nor OneReader says which thread may close the device *)
(* or make a pool: the place of main() does.                               *)
(***************************************************************************)
Phases ==
  /\ worker # "none" => handle = "open" /\ buffers = "allocated" /\ executor # "none"
  /\ worker = "none" => tasks = 0
  /\ executor = "none" => tasks = 0
  /\ executor = "running" /\ main # "stopping" => ~m_quit
  /\ executor = "running" => main \in {"elsewhere", "stopping"}
  /\ executor = "quit" => main \in {"joining", "aborted"}
  /\ main = "joining" => executor = "quit"
  /\ main = "params" => handle = "open"
  /\ main = "spawn" => handle = "open" /\ buffers = "allocated"
  /\ main = "exited" => handle = "null"

IInv == TypeOK /\ Phases /\ OneReader

-----------------------------------------------------------------------------
LEMMA InitInv == Init => IInv
<1> SUFFICES ASSUME Init PROVE IInv
  OBVIOUS
<1>1. TypeOK
  <2>1. exact \in BOOLEAN /\ exiting \in BOOLEAN /\ m_quit \in BOOLEAN
    BY DEF Init
  <2> QED BY <2>1, RecorderAssumption DEF Init, TypeOK
<1> QED BY <1>1 DEF Init, IInv, Phases, OneReader, InReadAudio

(* Every step of both threads, every fault and SIGINT keep IInv.           *)
LEMMA StepInv == IInv /\ [Next]_vars => IInv'
<1> SUFFICES ASSUME IInv, [Next]_vars PROVE IInv'
  OBVIOUS
<1> USE RecorderAssumption
<1> USE DEF IInv, TypeOK, Phases, OneReader, InReadAudio, pcm, pool, ctrl, env
<1>1. CASE Start
  BY <1>1 DEF Start
<1>2. CASE Stop \/ SafeQuit
  <2>1. m_quit' \in BOOLEAN /\ exiting' \in BOOLEAN
    BY <1>2 DEF Stop, SafeQuit
  <2> QED BY <1>2, <2>1 DEF Stop, SafeQuit
<1>3. CASE Interrupt
  <2>1. m_quit' \in BOOLEAN /\ exiting' \in BOOLEAN
    BY <1>3 DEF Interrupt, Running
  <2> QED BY <1>3, <2>1 DEF Interrupt, Running
<1>4. CASE OpenDevice
  <2>1. exact' \in BOOLEAN
    BY <1>4 DEF OpenDevice
  <2> QED BY <1>4, <2>1 DEF OpenDevice
<1>5. CASE SetParams
  <2>1. exact' \in BOOLEAN /\ m_quit' \in BOOLEAN /\ exiting' \in BOOLEAN
    BY <1>5 DEF SetParams
  <2>2. /\ main' \in {"spawn", "elsewhere", "aborted"}
        /\ handle' \in {"null", "open"} /\ buffers' \in {"unset", "null", "allocated", "freed"}
        /\ main' = "spawn" => handle' = "open" /\ buffers' = "allocated"
    BY <1>5 DEF SetParams
  <2>3. worker = "none" /\ executor = "none"
    BY <1>5 DEF SetParams
  <2> QED BY <1>5, <2>1, <2>2, <2>3 DEF SetParams
<1>6. CASE Spawn
  <2>1. m_quit' \in BOOLEAN
    BY <1>6 DEF Spawn
  <2> QED BY <1>6, <2>1 DEF Spawn
<1>7. CASE Join
  <2>1. m_quit' \in BOOLEAN /\ exiting' \in BOOLEAN /\ exact' \in BOOLEAN
    BY <1>7 DEF Join
  <2> QED BY <1>7, <2>1 DEF Join
<1>8. CASE FreeBuffers \/ CloseDevice
  <2>1. worker = "none" /\ executor = "none"
    BY <1>8 DEF FreeBuffers, CloseDevice
  <2> QED BY <1>8, <2>1 DEF FreeBuffers, CloseDevice, Stopped
<1>9. CASE TakeTask
  BY <1>9 DEF TakeTask
<1>10. CASE WorkerLeaves
  BY <1>10 DEF WorkerLeaves
<1>11. CASE CheckQuit
  <2>1. m_quit' \in BOOLEAN /\ exiting' \in BOOLEAN /\ exact' \in BOOLEAN
    BY <1>11 DEF CheckQuit
  <2>2. /\ worker' \in {"idle", "reading"} /\ left' \in 0..Frames
        /\ worker' = "idle" => m_quit
    BY <1>11 DEF CheckQuit
  <2> QED BY <1>11, <2>1, <2>2 DEF CheckQuit
<1>12. CASE ReadFrames
  BY <1>12 DEF ReadFrames
<1>13. CASE RecoverOverrun \/ ReadFails \/ Deliver
  BY <1>13 DEF RecoverOverrun, ReadFails, Deliver
<1>14. CASE Requeue
  BY <1>14 DEF Requeue
<1>15. CASE Fault
  BY <1>15 DEF Fault
<1>16. CASE FifoDrains \/ UNCHANGED vars
  BY <1>16 DEF FifoDrains, vars
<1> QED
  BY <1>1, <1>2, <1>3, <1>4, <1>5, <1>6, <1>7, <1>8, <1>9, <1>10, <1>11, <1>12,
     <1>13, <1>14, <1>15, <1>16 DEF Next, Main, Reader

LEMMA Invariance == Spec => []IInv
<1> QED BY InitInv, StepInv, PTL DEF Spec

-----------------------------------------------------------------------------
(* Types; the queue of the reader's pool never holds two tasks.            *)
THEOREM TypeCorrect == Spec => []TypeOK
<1>1. IInv => TypeOK
  BY DEF IInv
<1> QED BY <1>1, Invariance, PTL

(* stop() and SIGINT close the device only behind the reader, and an exit  *)
(* leaves no open device.                                                  *)
THEOREM DeviceIsHeld == Spec => []DeviceHeld
<1>1. IInv => DeviceHeld
  BY DEF IInv, Phases, DeviceHeld
<1> QED BY <1>1, Invariance, PTL

(* Faults of the device neither end nor double the chain of readAudio().   *)
THEOREM ReaderIsOne == Spec => []OneReader
<1>1. IInv => OneReader
  BY DEF IInv
<1> QED BY <1>1, Invariance, PTL
=============================================================================
