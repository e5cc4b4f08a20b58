# A TLA+ model of the iFLYOS Raspberry Pi SDK

The repository is the device side of a voice assistant. The assistant itself
(the *IFLYOS app*) is closed source; the code here starts and stops it
(`IFLYOSUmbrella`), feeds it audio and reacts to its events (`MicAgent`), and
connects everything over UNIX datagram sockets (`IFLYOSInterface`). Nearly all
of its difficulty is concurrency: seven threads in MicAgent, shared flags
without locks, blocking calls on the threads that matter, processes that die
and come back.

## 1. Inventory

| component | state | operations | interacts by |
|---|---|---|---|
| `ThreadPool` (IFLYOSThreadPool.h/.cpp) | `tasks`, `quit`, workers, mutex, condition | `enqueue`, `safeQuit`, `join`, worker loop | used by the umbrella (`exector`), MicAgent (`executor`), Recorder, PCMPlayer |
| umbrella process (IFLYOSUmbrella.cpp) | `iflyosPid`, task queue, child processes, monitor threads | DO_START, DO_STOP, keys `s` `t` `q`, fork/exec, wait | commands by IPC and stdin; EVT_STOPPED to registered clients |
| IPC library (IFLYOSInterface.cpp) | sockets, `handlers`, `receivers`, receiver threads | Init, registration, routing of events and actions, blocking sends | all processes |
| MicAgent, dialog | `forwarding`, `fdAudio`, `inThinking`, `firstDialogState`, `micOn`, `hasNetwork` | wake word, audio chunk, THINKING, SPEAKING, END, STOPPED, restart | recorder thread, executor thread, IPC receiver, main thread, FIFO to the app |
| MicAgent, control | `restartChannel`, `stopAuthCodePlayer`, key pipe | authorisation events, factory reset, key loop, WAIT_START | pipe from the IPC receiver to main(), IPC |
| NetworkMonitor | `m_timeSet`, `m_status`, `failTimes`, observers | time loop, probe, report, `addObserver` | observer sends DO_START and DO_STOP |
| Recorder / tdmin_interface | `m_quit`, own ThreadPool, ALSA handle | `start`, `stop`, `readAudio`, capture with retries | calls MicAgent's `onWakeWord` and `onAudio` |
| PCMPlayer | `m_currentPlaying`, offset, volume, own ThreadPool | `play`, `stop`, stream callbacks | PortAudio's thread |
| jnh.h | one socket, two deadlines | one HTTP GET | used by NetworkMonitor |
| NetworkSetter | - | never called | - |

What must hold, per component:

* ThreadPool: every accepted task runs once, in order; no lost wake-up; shutdown
  drains and `join` returns.
* Umbrella: one app at a time; `iflyosPid` names it; its end is noticed, reported
  once, and not before it is true; a stop ends the app; a start starts it.
* IPC: events reach registered clients in order and at most once; nobody waits
  for ever.
* Dialog: while MicAgent believes it streams there is a FIFO to stream to, the
  end of a dialog or of the app ends the streaming, descriptors are not mixed up.
* NetworkMonitor: the app runs while the network is up and is not stopped by a
  passing failure.
* Control: what asks for a restart of the app gets it; main() and the app do not wait
  for each other; a code is not played beyond its result.
* Recorder: the device outlives its reader and is released; one reader, whatever
  fails; `stop` returns.
* PCMPlayer: callbacks stay inside the sound; a stop ends the sound it was meant for.
* jnh.h: both timeouts are kept; OK means the answer that was sent.

The hard behaviours are listed line by line under `hazards` in PROJECT.json:
unlocked flags tested on one thread and changed on another, queued tasks that act
on what was true when they were queued, blocking `open`, `write` and `sendto`,
SIGPIPE, a failed `fork`, the end of the app racing commands, restarts that lose
registrations, loops that end on the wrong condition.

## 2. Modules

* `Executor` - what a user of a pool may rely on (abstract).
* `ThreadPool` - the pool. A critical section is one action; what happens outside
  the mutex (the notification owed after the unlock, the running task, the way
  back from a wake-up) are steps of their own. Spurious wake-ups happen. Tasks may
  call the pool; a task that calls `enqueue` on a pool that has quit ends, as
  `packaged_task` stores the exception. `ImplementsExecutor` is the refinement.
* `Umbrella` - the umbrella. Tasks of `exector` are atomic, which is justified by
  `Executor` with one slot: only tasks touch `iflyosPid`. The child goes through
  `forked` (asleep before `execl`), `running`, `zombie` and `reaped`; every
  monitor thread waits for *any* child. A failed fork stores -1 and starts a
  monitor all the same, as in the code.
* `AppHost` - the umbrella as the senders of DO_START and DO_STOP see it (abstract): a
  queue of commands and an app that is there, is ending, or is not there. `Umbrella`
  implements it (`ImplementsAppHost`; `AppSeen` maps pid, child and SIGTERM to the
  app; the commands are the queue without the reports of an end, numbered by the
  positions of those reports), `MicControl` is built on it.
* `MicDialog` - the dialog. Each read or write of a shared flag that another thread
  can come between is a step: `onWakeWord` tests `forwarding`, tests `inThinking`,
  then enqueues; `onAudio` reads `fdAudio`, then writes; the close task clears,
  closes, clears. Descriptors are numbers, reused after they were closed. The app
  and the umbrella's relay are external: they boot, report, read, close and exit
  as the protocol in IFLYOSInterface.h lets them; STOPPED comes from another
  thread of the umbrella than the app's events and may overtake them.
  Two things are wider than the code as it is built: `RestartKey` may come at any
  time (in the code after one of the authorisation events, module `MicControl`),
  and `MicMuteKey` needs a writer of the key pipe, which is commented out.
* `NetworkMonitor` - the worker of the monitor and its observer, with the observer's
  sleep before DO_START, the late `addObserver` and a network that changes between
  a probe and its report. Seconds are not counted. Its definitions are named
  `MonitorInit`, `MonitorSpec` and so on, because `NetworkProofs` extends both this
  module and `HttpGet`.
* `Ipc` - the IPC library in the umbrella and its clients, with sockets of bounded
  length, sends that block or fail, registration, the loop over the addresses, and
  processes that end and start again at any point. The umbrella's own handlers are
  in `Umbrella`; the contents of messages are left out.
* `MicControl` - what makes MicAgent restart the app. Three threads: the receiver with
  its handlers, which sleep or play between what they set and what they write (`recv`
  says in which one it is); main() between boot, WAIT_START, the key loop and the two
  restarts; the observer of the network. The pipe `restartChannel` and the umbrella's
  commands are queues. The umbrella is reduced to `AppHost`, a fork that fails being an
  app that exits at once: a start is dropped while the last app is not dealt with. The app reports only what its phase
  allows: it may have to be authorised before it boots, may lose its token later, and
  may exit at any time. A byte written before main() has made the pipe is lost.
* `PcmPlayer` - the player of local sounds. Its worker replaces the sound and the offset
  in two steps, PortAudio's callback loads them in three, without a lock; the compiler
  may load either twice. The stream goes through stopped, active, ended (the callback
  said so or Pa_StopStream() took it down) and inactive (the finished callback has
  queued its stop). Sounds are lengths; only half of each file is cached, as line 66
  has it.
* `Recorder` - start(), stop() and the handler of SIGINT on the main thread against the
  reader, a task that queues itself again. stop() is taken in its steps - m_quit,
  safeQuit(), join(), the buffers freed, the pointers reset and the device closed - so
  that the reader and SIGINT meet each of them. Whether a buffer has a value, is
  allocated or freed is state, as is whether the device's period is the one the reader
  expects. What is undefined in the code (freeing a pointer that was never set, or a
  second time) may abort.
* `HttpGet` - one request of jnh.h. Time is counted, sockets wait until a limit, and the
  answer arrives in any pieces, late, not at all or cut off. Bytes are classes; the
  header scan with what it carries over from one recv() to the next, and the byte it
  reads behind the last one received (line 192), are as in the code. Where the code is
  undefined (line ends that do not fit the four bytes of `buf`, a walk that leaves
  `beforeBodyLine`, a negative length) the call ends with the result `undefined`. A
  write to a connection that was reset ends the process (`SIGPIPE`).
  Of the server only one thing is assumed (`AnswersAssumption`): what it sends, if
  anything, begins with a status line.
* `ThreadPoolProofs`, `UmbrellaProofs`, `MicDialogProofs`, `NetworkProofs`,
  `PcmPlayerProofs`, `RecorderProofs`, `MicControlProofs`, `IpcProofs` - the theorems.
* `MC...` - the specifications as TLC runs them. Definitions that are called a
  *mutant of* another one are plausible bugs in that piece of the code, kept to show
  that the properties would notice them; no specification uses them.

## 3. Runs

| run | bounds | states | shows |
|---|---|---|---|
| `thread_pool` | 2 callers, 2 workers, 3 tasks | 17k | no lost wake-up, drained at join, refinement of `Executor` (first in, first out, once), liveness |
| `umbrella` | 4 commands (so 4 forks) | 3.7k | one app, current pid, one report per start, stop obeyed, refinement of `AppHost` (the end of an app is dealt with) |
| `mic_dialog` | 2 wake words, 2 app events after the boot report, 1 exit | 690k | `forwarding` is never hollow, `close` hits the FIFO, a close is carried out |
| `network_monitor` | none (finite) | 356 | stop on the third loss only, flag follows commands, lasting up and down are acted upon |
| `ipc` | 2 clients, sockets of 1, 2 events, 1 action, 2 starts each | 453k | order, no duplicates, handlers before events, delivery |
| `mic_control` | 3 events of the app besides boot reports, 2 network changes | 100k | no wait for a used-up report, an expired token restarts the app, players end |
| `pcm_player` | 4 calls, sounds of 5 and 2 samples, buffers of 2, offsets up to 8 | 27k | callbacks in bounds, the delayed stop ends only what has ended, sounds end |
| `recorder` | 2 starts, 3 faults, chunks of 2 frames | 7.9k | the device outlives its reader, one reader, stop() returns |
| `http_get` | 2 answers, a buffer of 9 bytes, timeouts of 4 and 3 | 927k | both timeouts, the socket closed on every path, OK means the answer |

The bounds let each case happen twice or meet what an earlier one left: two wake words
let the second meet each stage of the first, two starts let a process meet what an
earlier one left behind, three events let an expired token follow a request that has
not been read, the two answers have a header that fits into the buffer with part of the
body and one that does not. With one caller, worker, command or event more, or with
queues of two, the older models were checked, too (up to 2.2M states), and nothing new
appears.

Three runs show that the code disagrees with what the repository says of it (`findings`
in PROJECT.json quotes the lines):

* `umbrella_lost_start` - DO_STOP followed by DO_START: the start finds the dying
  app's pid and is dropped; nothing retries it.
* `mic_dialog_deaf` - the restart keys stop the recorder; nothing starts it again.
* `mic_control_auth_error` - at first use the app is authorised before it boots; after
  a server error it is stopped, and main(), in WAIT_START, never reads the request to
  start it again. `TokenExpired` sets `firstDialogState` for this very reason.

What else the models let happen, and no run keeps:

* after a failed `fork()` DO_STOP becomes `kill(-1, SIGTERM)` (IFLYOSUmbrella.cpp:79);
* a close task left over from the last dialog runs between `forwarding = true` and the
  open task: the FIFO is opened and never written (MicAgent.cpp:276);
* a chunk written after the app's exit kills MicAgent by SIGPIPE (MicAgent.cpp:238);
* the loop on the time server goes on, without a pause, while it succeeds, and the app
  is not started before it fails (NetworkMonitor.cpp:57);
* the umbrella and a client's handler block on each other's full sockets
  (IFLYOSInterface.cpp:269 and 362), for which `EventArrives` makes an exception;
* a task that only asks for a new dialog may find the streaming closed
  (MicAgent.cpp:268); `open()` of the FIFO may block for ever when the app ends first
  (282); `inThinking` outlives the app (263); `onAudio` may write to a descriptor that
  was closed meanwhile (238);
* a client whose `Init` returned 0 stays unregistered when the umbrella was not ready or
  is started again (IFLYOSInterface.cpp:173);
* a restart before which an older request was read may lose its DO_START as in
  `umbrella_lost_start`, and the newer request waits with it: the reason for the first
  condition of `ExpiryIsActedUpon`; revokeAuth() writes the byte of the restart key, not
  of network setup as its comment says (MicAgent.cpp:116); the restart key starts the
  app whether there is a network or not;
* a play task behind a sound that still runs replaces sound and offset under the
  callback (PCMPlayer.cpp:107-109), which may read behind the end: `ReadsInBounds`
  excepts it (`raced`); the new sound then does not start, as Pa_StartStream() fails on
  an active stream, and goes on from where the callback is;
* the scan of the header reads one byte behind what was received, carries more line
  ends over than `buf` holds when a piece ends in more than four of them, and an end of header
  that is found with bytes carried over makes the body too short or its length negative
  (jnh.h:177, 192), against line 168, where only the status line must not be split; a header that arrives without any body gives OK with an empty body
  (185-188): `OkIsAnswer` speaks of the body only when the recv() that brought the empty
  line brought some of the body and had nothing carried over;
* SIGINT while main() is inside join() joins twice and aborts without releasing the
  device, against the comment on MicAgent.cpp:314; between a free() and the reset of its
  pointer the handler frees a second time (tdmin_interface.c:298); a suspended device makes the reader
  spin and stop() wait for it (tdmin_interface.c:51).

## 4. Fairness

Weak fairness of threads that are ready to run, and nothing else: the pool's workers
and owed notifications; the umbrella's worker, monitors, the child's `execl`, and the
death of a process that was sent SIGTERM; MicAgent's threads, the umbrella's relay and
an app that answers DO_DIALOG_START; receiver threads; the monitor's worker. Tasks may
run for ever, `open` may block for ever, commands, keys, wake words, exits and restarts
may never come. Liveness properties name what they need beyond that:
`QuitEndsWorkers` and `AcceptedIsStarted` that a worker does not stay inside one task,
`CloseIsCarriedOut` that the executor does not stay in `open()`, `EventArrives` that
the processes live and do not wait for each other, `UpStartsIflyosOnce` that the clock
cannot be set and the observer was there for the first success, `StopEnds` that the
device is not suspended and the FIFO not full for ever.

In the newer modules: main(), the receiver, the players of the code, the umbrella's
worker and an app that was told to end (`MicControl`; the app's reports, its own exit
and the network are free; main() calls recorder->stop(), which is taken to return, see
`StopEnds`); the player's worker, PortAudio's callbacks and Pa_StopStream()
(`PcmPlayer`; nobody has to call play or stop); the main thread and the reader
(`Recorder`). `HttpGet` has no temporal property.

## 5. Proofs

For every value of the constants, from the named assumptions of the modules
(`PoolAssumption`, `CommandsAssumption`, `BoundsAssumption`, `ControlAssumption`,
`PlayerAssumption`, `HttpAssumption`, `AnswersAssumption`, `RecorderAssumption`,
`IpcAssumption`):

* ThreadPool: types; `FIFO`; `NoStrandedTask` and `NoSleeperAfterQuit`, by an invariant
  that a sleeping worker saw neither quit nor a task that is not covered by an owed
  notification; `EachTaskOnce`, from the freshness of accepted tasks and `FIFO`;
  `DrainedAtJoin`; and the refinement of `Executor`'s safety.
* Umbrella: types and the four safety properties from one inductive invariant, which
  counts: as long as `iflyosPid` is not 0 there is exactly one monitor thread that
  waits, has returned, or has its "exited" task queued, and otherwise none; the app of
  any other attempt is reaped. `Refinement` shows that the umbrella implements the
  safety of `AppHost`, action by action: a command put behind reports keeps its place
  among the commands, and a task that is taken is either the first command or a report
  that no sender sees.
* MicDialog: types, and `NoHollowForwarding` with `CloseHitsFifo`, which are inductive
  together: only the one worker of `executor` touches the descriptor, and `forwarding`
  is set by a thread that has yet to enqueue the open.
* Ipc: types, which say that no socket is overrun and that the umbrella passes on one
  message at a time; `EventsInOrder`, from an invariant that follows an event on its way: what
  a client's handlers got, what its socket holds, the event that is being forwarded and
  the umbrella's queue increase in this order, and nothing is newer than the last one
  sent; and `HandlersBeforeEvents`, since nobody knows of a client before it asks for
  events.
* NetworkMonitor: types (`MonitorTypeOK`), `FlagMatchesCommand`, `LostOnlyAfterThree`,
  `NoCommandTwice` from an invariant that relates flag, status and last command, and `failTimes` with
  the probes lost.
* MicControl: types and `ReadyIsSeen`, which is inductive: the END of a booted app
  leaves the inbox only as the welcome, and a queued stop only by ending the app; the
  lemmas are about membership in a queue. `AssumesAppHost` shows that the control
  treats the umbrella as `AppHost` lets it, step by step.
* PcmPlayer: types, `ReadsInBounds` and `FinishStopsEnded`; the invariant says what
  the callback has loaded at each of its steps while the sound was not replaced, and
  that without stop() there is at most one stop, while the stream is inactive.
* Recorder: types, `DeviceHeld` and `OneReader`, from `Phases`, which says for each place
  of main() which pool, handle and buffers exist.
* HttpGet: types, which say that what is received and carried over fits its buffers
  unless the result is `undefined`; `DeadlineKept`: a select() that runs was given no
  more than both rests; `OkIsAnswer`, from an invariant that the body so far is what was
  read of the answer behind its header. In whatever piece the first empty line of the
  answer comes, the search in the buffer finds that one (`EmptyLineFound`), and the end of file means all of the answer. The least
  and the greatest of a set, which the parser's operators choose, exist by the
  well-foundedness of < (`LeastExists`).

`FIFO`, `EachTaskOnce`, `NoSleeperAfterQuit`, `StoppedOnlyWhenDown` and `NoCommandTwice`
are proved and no longer have a run: the refinement, `QuitEndsWorkers` and
`FlagMatchesCommand` cover what TLC would tell of them.

Model-checked only: all liveness, which is fairness and ENABLED, outside the prover's
reach: `QuitEndsWorkers`, `AcceptedIsStarted`, `StopIsObeyed`, `CloseIsCarriedOut`,
`DownStopsIflyos`, `UpStartsIflyosOnce`, `EventArrives`, `SoundEnds`, `StopEnds`,
`ExpiryIsActedUpon`, `PlayersEnd`, and the fairness parts of the refinements of
`Executor` and of `AppHost`. Every invariant and safety property that a run checks is
proved.

## 6. Not modelled

NetworkSetter (dead code), the third-party headers, scripts and data, formatting and
the text of messages, Deinit and the end of main() in MicAgent (`quit` is never set),
the destructors of PCMPlayer and NetworkMonitor, which run only then, the data race
between the umbrella's two senders on the table of receivers, the keys other than the
two restarts (the pipe they would come through has no writer), the handlers that only
answer or log, the recorder's unused formats, hardware parameters of ALSA beyond their
outcome, SIGINT inside the critical section of safeQuit() (whose mutex the handler would
lock a second time), inside snd_pcm_open() or inside the error path of the hardware
parameters, and on a thread other than the main one, the volume of a sound.

## 7. What is left

1. MicAgent's and the monitor's DO_START and DO_STOP through `Ipc`, which may lose or
   delay them; `MicControl` has them arrive at once.
2. GetLines and the length limits of messages as operators against reference definitions.
3. Proofs: the safety the liveness properties rest on (what must be true before a step
   that has to come, and stays true until it does).
