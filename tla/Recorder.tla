------------------------------ MODULE Recorder ------------------------------
(***************************************************************************)
(* The recorder (MicAgent/Recorder.cpp) and its capture device             *)
(* (tdmin_interface.c).  start(), stop() and the handler of SIGINT, which  *)
(* stops the recorder and exits, run on the main thread; readAudio() is a  *)
(* task that queues itself again on the one worker of m_executor.          *)
(*                                                                         *)
(* ALSA is external: an overrun is cleared by snd_pcm_recover(), a         *)
(* suspended device reports -ESTRPIPE until it is resumed, which nobody    *)
(* does.  So is the FIFO onAudio() writes to: it may be full for a while   *)
(* or for ever.  MicAgent starts the recorder once; more starts are        *)
(* allowed here, each after a stop().                                      *)
(***************************************************************************)
EXTENDS Naturals

CONSTANTS Frames,     \* frames one readAudio() reads
          MaxStarts,  \* bound: calls of start()
          MaxFaults   \* bound: faults of the device and of the FIFO

ASSUME RecorderAssumption == /\ Frames \in Nat \ {0} /\ MaxStarts \in Nat
                             /\ MaxFaults \in Nat

VARIABLES
  m_quit, executor,   \* m_executor: none, running, or after safeQuit()
  tasks,              \* readAudio() tasks in its queue
  worker,             \* where its worker is
  left,               \* frames still to read
  handle, buffers,    \* m_pcmParams: handle and data_buf
  exact,              \* chunk_bytes is what readAudio() expects
  main, exiting,      \* the main thread; it is in the signal handler
  device, fifo,       \* external
  starts, faults      \* counted against the bounds

pcm == <<handle, buffers, exact>>
pool == <<executor, tasks, worker, left>>
ctrl == <<m_quit, main, exiting, starts>>
env == <<device, fifo, faults>>
vars == <<pcm, pool, ctrl, env>>

TypeOK ==
  /\ m_quit \in BOOLEAN /\ executor \in {"none", "running", "quit"} /\ tasks \in {0, 1}
  /\ worker \in {"none", "idle", "check", "reading", "delivering", "requeue"}
  /\ left \in 0..Frames
  /\ handle \in {"null", "open"} /\ buffers \in {"unset", "null", "allocated", "freed"}
  /\ exact \in BOOLEAN
  /\ main \in {"elsewhere", "opening", "params", "spawn", "stopping", "joining",
               "uninit", "closing", "exited", "aborted"}
  /\ exiting \in BOOLEAN
  /\ device \in {"ok", "overrun", "suspended", "failed"} /\ fifo \in {"free", "full"}
  /\ starts \in 0..MaxStarts /\ faults \in 0..MaxFaults

\* The constructor sets the handle only: data_buf has no value yet.
Init ==
  /\ m_quit \in BOOLEAN /\ executor = "none" /\ tasks = 0 /\ worker = "none"
  /\ left = 0 /\ handle = "null" /\ buffers = "unset" /\ exact = FALSE
  /\ main = "elsewhere" /\ exiting = FALSE
  /\ device = "ok" /\ fifo = "free" /\ starts = 0 /\ faults = 0

Running == main \notin {"exited", "aborted"}
-----------------------------------------------------------------------------
\* start(): open the device, set its parameters, start the reader.
Start ==
  /\ main = "elsewhere" /\ executor = "none" /\ handle = "null" /\ starts < MaxStarts
  /\ main' = "opening" /\ starts' = starts + 1
  /\ UNCHANGED <<pcm, pool, m_quit, exiting, env>>

OpenDevice ==
  /\ main = "opening"
  /\ \/ handle' = "open" /\ main' = "params"
     \/ handle' = handle /\ main' = "elsewhere"
  /\ UNCHANGED <<buffers, exact, pool, m_quit, exiting, starts, env>>

\* _alsa_set_hw_params(): the period the device takes need not be the one the
\* reader expects.  On an error the buffers are freed, which is undefined
\* while data_buf has no value.
SetParams ==
  /\ main = "params"
  /\ \/ /\ main' = "spawn" /\ buffers' = "allocated" /\ exact' \in BOOLEAN
        /\ handle' = handle
     \/ /\ main' = "elsewhere" /\ buffers' = "null" /\ handle' = "null" /\ exact' = exact
     \/ /\ buffers = "unset" /\ main' = "aborted" /\ UNCHANGED pcm
  /\ UNCHANGED <<pool, m_quit, exiting, starts, env>>

Spawn ==
  /\ main = "spawn" /\ main' = "elsewhere"
  /\ m_quit' = FALSE /\ executor' = "running" /\ tasks' = 1 /\ worker' = "idle"
  /\ UNCHANGED <<pcm, left, exiting, starts, env>>

\* stop(): the flag first ...
Stop ==
  /\ main = "elsewhere" /\ main' = "stopping" /\ m_quit' = TRUE
  /\ UNCHANGED <<pcm, pool, exiting, starts, env>>

\* Mutant of SafeQuit: safeQuit() is missing.
SafeQuitForgotten ==
  /\ main = "stopping"
  /\ main' = IF executor = "none" THEN "uninit" ELSE "joining"
  /\ UNCHANGED <<pcm, pool, m_quit, exiting, starts, env>>

\* ... then safeQuit() and join(), if there is a pool.
SafeQuit ==
  /\ main = "stopping"
  /\ \/ executor = "none" /\ main' = "uninit" /\ UNCHANGED executor
     \/ executor # "none" /\ main' = "joining" /\ executor' = "quit"
  /\ UNCHANGED <<pcm, tasks, worker, left, m_quit, exiting, starts, env>>

\* Mutant of Join: the device is closed before join() has returned.
JoinSkipped ==
  /\ main = "joining" /\ main' = "uninit"
  /\ UNCHANGED <<pcm, pool, m_quit, exiting, starts, env>>

Join ==
  /\ main = "joining" /\ worker = "none"
  /\ executor' = "none" /\ main' = "uninit"
  /\ UNCHANGED <<pcm, tasks, worker, left, m_quit, exiting, starts, env>>

Stopped == IF exiting THEN "exited" ELSE "elsewhere"

\* An open device has its buffers freed, which is undefined while data_buf has
\* no value or one that was freed already: SIGINT came too soon or in between.
FreeBuffers ==
  /\ main = "uninit"
  /\ \/ handle = "null" /\ main' = Stopped /\ UNCHANGED buffers
     \/ handle = "open" /\ main' = "closing"
        /\ buffers' = IF buffers = "null" THEN "null" ELSE "freed"
     \/ handle = "open" /\ buffers \in {"unset", "freed"} /\ main' = "aborted"
        /\ UNCHANGED buffers
  /\ UNCHANGED <<handle, exact, pool, m_quit, exiting, starts, env>>

\* The pointers are reset and the device is closed.
CloseDevice ==
  /\ main = "closing" /\ main' = Stopped
  /\ handle' = "null" /\ buffers' = "null"
  /\ UNCHANGED <<exact, pool, m_quit, exiting, starts, env>>

\* SIGINT: the handler calls stop() and exits, wherever main() is.  Inside
\* join() the same thread joins a second time: an exception, and abort().
Interrupt ==
  /\ Running /\ ~exiting /\ exiting' = TRUE
  /\ \/ main = "joining" /\ main' = "aborted" /\ UNCHANGED m_quit
     \/ main # "joining" /\ main' = "stopping" /\ m_quit' = TRUE
  /\ UNCHANGED <<pcm, pool, starts, env>>

-----------------------------------------------------------------------------
\* The worker of m_executor takes a task, or leaves after safeQuit().
TakeTask ==
  /\ worker = "idle" /\ tasks > 0
  /\ tasks' = tasks - 1 /\ worker' = "check"
  /\ UNCHANGED <<pcm, executor, left, ctrl, env>>

WorkerLeaves ==
  /\ worker = "idle" /\ tasks = 0 /\ executor = "quit" /\ worker' = "none"
  /\ UNCHANGED <<pcm, executor, tasks, left, ctrl, env>>

CheckQuit ==
  /\ worker = "check"
  /\ IF m_quit THEN worker' = "idle" /\ left' = left
     ELSE worker' = "reading" /\ left' = Frames
  /\ UNCHANGED <<pcm, executor, tasks, ctrl, env>>

\* _alsa_read_pcm(): what was read is more than nothing or all that is left.
ReadFrames ==
  /\ worker = "reading" /\ device = "ok"
  /\ \E n \in 0..left - 1 : left' = n
  /\ worker' = IF left' > 0 THEN "reading" ELSE IF exact THEN "delivering" ELSE "requeue"
  /\ UNCHANGED <<pcm, executor, tasks, ctrl, env>>

RecoverOverrun ==
  /\ worker = "reading" /\ device = "overrun" /\ device' = "ok"
  /\ UNCHANGED <<pcm, pool, ctrl, fifo, faults>>

\* Mutants of ReadFails: line 78 is missing; line 79 is missing.
ReadFailsEnds ==
  /\ worker = "reading" /\ device = "failed" /\ worker' = "idle"
  /\ UNCHANGED <<pcm, executor, tasks, left, ctrl, env>>

ReadFailsGoesOn ==
  /\ worker = "reading" /\ device = "failed" /\ worker' = "delivering"
  /\ tasks' = tasks + 1
  /\ UNCHANGED <<pcm, executor, left, ctrl, env>>

ReadFails ==
  /\ worker = "reading" /\ device = "failed" /\ worker' = "requeue"
  /\ UNCHANGED <<pcm, executor, tasks, left, ctrl, env>>

\* onWakeWord() and onAudio(); a full FIFO holds the worker up.
Deliver ==
  /\ worker = "delivering" /\ fifo = "free" /\ worker' = "requeue"
  /\ UNCHANGED <<pcm, executor, tasks, left, ctrl, env>>

\* Every way out of readAudio() but m_quit queues it again; after safeQuit()
\* enqueue() throws, and the task ends with the exception.
Requeue ==
  /\ worker = "requeue" /\ worker' = "idle"
  /\ tasks' = IF executor = "running" THEN tasks + 1 ELSE tasks
  /\ UNCHANGED <<pcm, executor, left, ctrl, env>>

Reader == /\ Running
          /\ \/ TakeTask \/ WorkerLeaves \/ CheckQuit \/ ReadFrames \/ RecoverOverrun
             \/ ReadFails \/ Deliver \/ Requeue
Main == \/ OpenDevice \/ SetParams \/ Spawn
        \/ SafeQuit \/ Join \/ FreeBuffers \/ CloseDevice
-----------------------------------------------------------------------------
\* External.
Fault ==
  /\ Running /\ faults < MaxFaults /\ faults' = faults + 1
  /\ \/ device = "ok" /\ device' \in {"overrun", "suspended", "failed"} /\ fifo' = fifo
     \/ fifo = "free" /\ fifo' = "full" /\ device' = device
  /\ UNCHANGED <<pcm, pool, ctrl>>

FifoDrains ==
  /\ Running /\ fifo = "full" /\ fifo' = "free"
  /\ UNCHANGED <<pcm, pool, ctrl, device, faults>>

Next == Start \/ Stop \/ Interrupt \/ Main \/ Reader \/ Fault \/ FifoDrains

\* Both threads run; nobody is bound to read the FIFO or resume the device.
Spec == Init /\ [][Next]_vars /\ WF_vars(Main) /\ WF_vars(Reader)
-----------------------------------------------------------------------------
\* The reader runs on a device that is open and has its buffers, and after an
\* exit there is neither a reader nor an open device (Recorder.cpp:55 to 64
\* against 75 to 121, and the comment MicAgent.cpp:314).
DeviceHeld ==
  /\ worker # "none" => handle = "open" /\ buffers = "allocated"
  /\ main = "exited" => worker = "none" /\ handle = "null"

\* readAudio() is queued or running at most once, and exactly once from start()
\* until stop() sets m_quit: whatever fails, recording neither ends nor doubles
\* (lines 47, 73 to 86, 139).
InReadAudio == worker \in {"check", "reading", "delivering", "requeue"}
OneReader ==
  LET readers == tasks + (IF InReadAudio THEN 1 ELSE 0)
  IN  readers <= 1 /\ (executor = "running" /\ ~m_quit => readers = 1)

\* stop() and SIGINT get through unless the device stays suspended or the FIFO
\* full (lines 56 and 57 against tdmin_interface.c:39 to 66).
StopEnds ==
  <>[](main = "joining") => <>[](device = "suspended" \/ fifo = "full")
=============================================================================
