----------------------------- MODULE MicDialog ------------------------------
(***************************************************************************)
(* The dialog state of MicAgent (MicAgent/MicAgent.cpp): a wake word makes *)
(* it stream the microphone through a FIFO to the IFLYOS app, the end of   *)
(* the dialog or of the app makes it stop.  Four threads share `forwarding`*)
(* and `fdAudio` without a lock:                                           *)
(*                                                                         *)
(*   rec    the recorder's worker: onWakeWord(), then onAudio(), per chunk *)
(*   task   the worker of `executor`, which opens and closes the FIFO      *)
(*   recv   the IPC receiver: the handlers of the app's events             *)
(*   main   the key loop, which stops the recorder and restarts the app    *)
(*                                                                         *)
(* The app is external: it reads the FIFO from DO_DIALOG_START on, up to   *)
(* the end of file, and reports idle (END) when it has booted.  Its events *)
(* pass through the umbrella (`relay`), which itself reports STOPPED.      *)
(***************************************************************************)
EXTENDS Naturals, Integers, Sequences, FiniteSets

CONSTANTS MaxWakes,   \* bound: wake words detected
          MaxEvents,  \* bound: events the app sends, the boot report not counted
          MaxExits    \* bound: ends of the app

ASSUME BoundsAssumption == /\ MaxWakes \in Nat /\ MaxEvents \in Nat
                           /\ MaxExits \in Nat

Fds == 1..MaxWakes   \* descriptors open() may return for the FIFO

VARIABLES
  forwarding, fdAudio, inThinking, firstDialogState, micOn, hasNetwork,
  executor,  \* queued tasks
  task,      \* where the executor's worker is
  rec,       \* where the recorder's worker is
  recFd,     \* the descriptor onAudio() passes to write()
  recv,      \* where the receiver is
  inbox,     \* messages in the socket of MicAgent
  main,      \* where main() is
  alive,     \* the MicAgent process has not been killed
  openFds,   \* descriptors of the FIFO's write end that are open
  app, reader, requests,   \* the app, its read end, its DO_DIALOG_STARTs
  relay,     \* the app's events still in the umbrella's socket
  died,      \* the app ended and the umbrella has not reported it yet
  wakes, events, exits     \* counted against the bounds

micVars == <<forwarding, fdAudio, inThinking, firstDialogState, micOn,
             hasNetwork, executor, task, rec, recFd, recv, main>>
appVars == <<app, reader, requests, relay, died>>
counters == <<wakes, events, exits>>
vars == <<micVars, inbox, alive, openFds, appVars, counters>>

TypeOK ==
  /\ forwarding \in BOOLEAN /\ fdAudio \in {-1} \cup Fds
  /\ inThinking \in BOOLEAN
  /\ firstDialogState \in {"NOT_START", "STARTED"}
  /\ micOn \in BOOLEAN /\ hasNetwork \in BOOLEAN
  /\ executor \in Seq({"close", "dialog", "dialogOpen"})
  /\ task \in {"idle", "opening", "closing", "clearing"}
  /\ rec \in {"read", "woken", "thinking", "start", "audio", "write", "off"}
  /\ recFd \in {-1} \cup Fds
  /\ recv \in {"idle", "welcoming"}
  /\ inbox \in Seq({"END", "THINKING", "SPEAKING", "STOPPED"})
  /\ main \in {"keys", "stopping", "waitStart"}
  /\ alive \in BOOLEAN
  /\ openFds \in SUBSET Fds
  /\ app \in {"down", "idle", "listening", "thinking", "speaking"}
  /\ reader \in BOOLEAN /\ requests \in Nat
  /\ relay \in Seq({"END", "THINKING", "SPEAKING"})
  /\ died \in BOOLEAN
  /\ wakes \in 0..MaxWakes /\ events \in 0..MaxEvents /\ exits \in 0..MaxExits

\* Recording has started; the app is not up yet.
Init ==
  /\ forwarding = FALSE /\ fdAudio = -1
  /\ inThinking = FALSE /\ firstDialogState = "NOT_START"
  /\ micOn = TRUE /\ hasNetwork = TRUE
  /\ executor = <<>> /\ task = "idle"
  /\ rec = "read" /\ recFd = -1
  /\ recv = "idle" /\ inbox = <<>>
  /\ main = "waitStart"
  /\ alive = TRUE /\ openFds = {}
  /\ app = "down" /\ reader = FALSE /\ requests = 0
  /\ relay = <<>> /\ died = FALSE
  /\ wakes = 0 /\ events = 0 /\ exits = 0

-----------------------------------------------------------------------------
(* The recorder's worker.                                                  *)

recOthers == <<fdAudio, inThinking, firstDialogState, micOn, hasNetwork, task,
               recv, inbox, main, openFds, appVars, events, exits>>

\* A chunk was read; the detector hears the wake word in it, or not.
ReadChunk ==
  /\ alive /\ rec = "read"
  /\ \/ rec' = "audio" /\ UNCHANGED wakes
     \/ rec' = "woken" /\ wakes < MaxWakes /\ wakes' = wakes + 1
  /\ UNCHANGED <<recOthers, forwarding, executor, recFd, alive>>

MayWake == firstDialogState = "STARTED" /\ micOn /\ hasNetwork

\* onWakeWord() up to its test of forwarding.
WakeWord ==
  /\ alive /\ rec = "woken"
  /\ rec' = IF ~MayWake THEN "audio" ELSE IF forwarding THEN "thinking" ELSE "start"
  /\ forwarding' = (forwarding \/ MayWake)
  /\ UNCHANGED <<recOthers, wakes, executor, recFd, alive>>

\* A dialog is going on: ignored while thinking, else a new dialog is asked for.
WakeInDialog ==
  /\ alive /\ rec = "thinking"
  /\ executor' = IF inThinking THEN executor ELSE Append(executor, "dialog")
  /\ rec' = "audio"
  /\ UNCHANGED <<recOthers, wakes, forwarding, recFd, alive>>

\* forwarding is set: the FIFO is to be opened.
WakeStarts ==
  /\ alive /\ rec = "start"
  /\ executor' = Append(executor, "dialogOpen")
  /\ rec' = "audio"
  /\ UNCHANGED <<recOthers, wakes, forwarding, recFd, alive>>

\* Once recorder->stop() was called, enqueuing the next read throws.
NextChunk == IF main = "stopping" THEN "off" ELSE "read"

\* onAudio(): forwarding is tested, then fdAudio is read, then written to.
OnAudio ==
  /\ alive /\ rec = "audio"
  /\ IF forwarding THEN rec' = "write" /\ recFd' = fdAudio
                   ELSE rec' = NextChunk /\ UNCHANGED recFd
  /\ UNCHANGED <<recOthers, wakes, forwarding, executor, alive>>

\* write(): an error for a closed descriptor; SIGPIPE, which is not handled,
\* for a FIFO without a reader.
WriteAudio ==
  /\ alive /\ rec = "write"
  /\ alive' = (recFd \in openFds => reader)
  /\ rec' = NextChunk /\ recFd' = -1
  /\ UNCHANGED <<recOthers, wakes, forwarding, executor>>

\* readAudio() sees m_quit.
RecorderQuits ==
  /\ alive /\ rec = "read" /\ main = "stopping"
  /\ rec' = "off"
  /\ UNCHANGED <<recOthers, wakes, forwarding, executor, recFd, alive>>

-----------------------------------------------------------------------------
(* The worker of executor.                                                 *)

taskOthers == <<inThinking, firstDialogState, micOn, hasNetwork, rec, recFd,
                recv, inbox, main, alive, app, reader, relay, died, counters>>

TakeTask(t) == /\ alive /\ task = "idle"
               /\ executor # <<>> /\ Head(executor) = t
               /\ executor' = Tail(executor)

\* The umbrella passes DO_DIALOG_START on; it is lost when no app is there.
SendDialogStart == requests' = requests + (IF app = "down" THEN 0 ELSE 1)

RunDialog ==
  /\ TakeTask("dialog")
  /\ SendDialogStart
  /\ UNCHANGED <<taskOthers, forwarding, fdAudio, task, openFds>>

RunDialogOpen ==
  /\ TakeTask("dialogOpen")
  /\ SendDialogStart
  /\ task' = "opening"
  /\ UNCHANGED <<taskOthers, forwarding, fdAudio, openFds>>

\* open(FIFO_PATH, O_WRONLY) blocks until the FIFO has a reader, and returns
\* the lowest free descriptor.
OpenFifo ==
  /\ alive /\ task = "opening" /\ reader
  /\ \E fd \in Fds \ openFds :
       /\ \A other \in Fds \ openFds : fd <= other
       /\ fdAudio' = fd
       /\ openFds' = openFds \cup {fd}
  /\ task' = "idle"
  /\ UNCHANGED <<taskOthers, executor, forwarding, requests>>

\* Mutant of OpenFails: forwarding stays set.
OpenFailsForwarding ==
  /\ alive /\ task = "opening"
  /\ fdAudio' = -1
  /\ task' = "idle"
  /\ UNCHANGED <<taskOthers, executor, forwarding, openFds, requests>>

\* ... or it fails, for instance because there is no FIFO.
OpenFails ==
  /\ alive /\ task = "opening"
  /\ fdAudio' = -1
  /\ forwarding' = FALSE
  /\ task' = "idle"
  /\ UNCHANGED <<taskOthers, executor, openFds, requests>>

\* Mutant of RunClose: forwarding is not cleared.
RunCloseForwarding ==
  /\ TakeTask("close")
  /\ task' = IF forwarding THEN "closing" ELSE "idle"
  /\ UNCHANGED <<taskOthers, forwarding, fdAudio, openFds, requests>>

\* The close task: forwarding is cleared, fdAudio is closed, fdAudio is cleared.
RunClose ==
  /\ TakeTask("close")
  /\ forwarding' = FALSE
  /\ task' = IF forwarding THEN "closing" ELSE "idle"
  /\ UNCHANGED <<taskOthers, fdAudio, openFds, requests>>

\* Mutant of CloseFifo: fdAudio keeps the closed descriptor.
CloseFifoOnly ==
  /\ alive /\ task = "closing"
  /\ openFds' = openFds \ {fdAudio}
  /\ task' = "idle"
  /\ UNCHANGED <<taskOthers, executor, forwarding, fdAudio, requests>>

CloseFifo ==
  /\ alive /\ task = "closing"
  /\ openFds' = openFds \ {fdAudio}
  /\ task' = "clearing"
  /\ UNCHANGED <<taskOthers, executor, forwarding, fdAudio, requests>>

\* Mutant of ClearFd: 0 stands for no descriptor.
ClearFdZero ==
  /\ alive /\ task = "clearing"
  /\ fdAudio' = 0
  /\ task' = "idle"
  /\ UNCHANGED <<taskOthers, executor, forwarding, openFds, requests>>

ClearFd ==
  /\ alive /\ task = "clearing"
  /\ fdAudio' = -1
  /\ task' = "idle"
  /\ UNCHANGED <<taskOthers, executor, forwarding, openFds, requests>>

-----------------------------------------------------------------------------
(* The receiver: the event handlers.                                       *)

recvOthers == <<forwarding, fdAudio, micOn, hasNetwork, task, rec, recFd, main,
                alive, openFds, appVars, counters>>

Receive(m) == /\ alive /\ recv = "idle"
              /\ inbox # <<>> /\ Head(inbox) = m
              /\ inbox' = Tail(inbox)

OnThinking == /\ Receive("THINKING") /\ inThinking' = TRUE
              /\ UNCHANGED <<recvOthers, firstDialogState, executor, recv>>

OnSpeaking == /\ Receive("SPEAKING") /\ inThinking' = FALSE
              /\ UNCHANGED <<recvOthers, firstDialogState, executor, recv>>

\* The first idle report plays a welcome; any other one queues a close.
StopCapture ==
  /\ Receive("END") /\ inThinking' = FALSE
  /\ IF firstDialogState = "NOT_START"
       THEN recv' = "welcoming" /\ UNCHANGED executor
       ELSE executor' = Append(executor, "close") /\ UNCHANGED recv
  /\ UNCHANGED <<recvOthers, firstDialogState>>

Welcomed ==
  /\ alive /\ recv = "welcoming"
  /\ firstDialogState' = "STARTED"
  /\ recv' = "idle"
  /\ UNCHANGED <<recvOthers, inThinking, executor, inbox>>

IflyosAppExited ==
  /\ Receive("STOPPED")
  /\ executor' = Append(executor, "close")
  /\ UNCHANGED <<recvOthers, inThinking, firstDialogState, recv>>

-----------------------------------------------------------------------------
(* main(): the keys, and the network observer's flag.                      *)

mainOthers == <<forwarding, fdAudio, executor, task, rec, recFd, recv, inbox,
                alive, openFds, appVars, counters>>

\* KEY_RESTART_IFLYOS and KEY_NET_CONFIG, which the handlers of some events of
\* the app send through restartChannel: the app has to start anew.
RestartKey ==
  /\ alive /\ main = "keys"
  /\ firstDialogState' = "NOT_START"
  /\ main' = "stopping"
  /\ UNCHANGED <<mainOthers, inThinking, micOn, hasNetwork>>

\* recorder->stop() has joined the recorder's worker; DO_STOP and DO_START are
\* sent; WAIT_START is reached.  Nothing starts the recorder again.
WaitStart ==
  /\ alive /\ main = "stopping" /\ rec = "off"
  /\ inThinking' = FALSE
  /\ main' = "waitStart"
  /\ UNCHANGED <<mainOthers, firstDialogState, micOn, hasNetwork>>

ReadKeys ==
  /\ alive /\ main = "waitStart" /\ firstDialogState = "STARTED"
  /\ main' = "keys"
  /\ UNCHANGED <<mainOthers, inThinking, firstDialogState, micOn, hasNetwork>>

\* (Keys need a source on the key pipe: Recorder::fakeWakeUp, MicAgent.cpp:441.)
MicMuteKey ==
  /\ alive /\ main = "keys"
  /\ micOn' = ~micOn
  /\ UNCHANGED <<mainOthers, main, inThinking, firstDialogState, hasNetwork>>

\* NetworkStatusMonitor::onNetworkStatusChanged, on the network monitor's thread.
NetworkStatusChanged ==
  /\ alive
  /\ hasNetwork' = ~hasNetwork
  /\ UNCHANGED <<mainOthers, main, inThinking, firstDialogState, micOn>>

-----------------------------------------------------------------------------
(* The app and the umbrella (external).                                    *)

appOthers == <<micVars, alive, openFds, wakes>>

\* The umbrella starts an app only after it has reported the end of the last.
AppBoots ==
  /\ app = "down" /\ ~died
  /\ app' = "idle"
  /\ relay' = Append(relay, "END")
  /\ UNCHANGED <<appOthers, inbox, reader, requests, died, events, exits>>

AppDialogStarts ==
  /\ app # "down" /\ requests > 0
  /\ requests' = requests - 1
  /\ app' = "listening" /\ reader' = TRUE
  /\ UNCHANGED <<appOthers, inbox, relay, died, events, exits>>

AppReports(from, to, evt) ==
  /\ app = from /\ events < MaxEvents
  /\ app' = to
  /\ relay' = Append(relay, evt)
  /\ events' = events + 1
  /\ UNCHANGED <<appOthers, inbox, reader, requests, died, exits>>

AppDialogGoesOn == \/ AppReports("listening", "thinking", "THINKING")
                   \/ AppReports("thinking", "speaking", "SPEAKING")
                   \/ \E s \in {"listening", "thinking", "speaking"} :
                        AppReports(s, "idle", "END")

\* The read end sees the end of file.
AppClosesFifo ==
  /\ app = "idle" /\ reader /\ openFds = {} /\ task # "opening"
  /\ reader' = FALSE
  /\ UNCHANGED <<appOthers, inbox, app, requests, relay, died, events, exits>>

\* It crashes, or was told to stop.
AppExits ==
  /\ app # "down" /\ exits < MaxExits
  /\ app' = "down" /\ reader' = FALSE /\ requests' = 0
  /\ died' = TRUE
  /\ exits' = exits + 1
  /\ UNCHANGED <<appOthers, inbox, relay, events>>

\* The umbrella's receiver forwards an event; its executor reports STOPPED,
\* whatever of the dead app's events is still to be forwarded.
Relay ==
  /\ relay # <<>>
  /\ inbox' = Append(inbox, Head(relay))
  /\ relay' = Tail(relay)
  /\ UNCHANGED <<appOthers, app, reader, requests, died, events, exits>>

ReportStopped ==
  /\ died
  /\ inbox' = Append(inbox, "STOPPED")
  /\ died' = FALSE
  /\ UNCHANGED <<appOthers, app, reader, requests, relay, events, exits>>

-----------------------------------------------------------------------------
RecNext == \/ ReadChunk \/ WakeWord \/ WakeInDialog \/ WakeStarts \/ OnAudio
           \/ WriteAudio \/ RecorderQuits

TaskProgress == \/ RunDialog \/ RunDialogOpen \/ OpenFifo
                \/ RunClose \/ CloseFifo \/ ClearFd

TaskNext == TaskProgress \/ OpenFails

RecvNext == OnThinking \/ OnSpeaking \/ StopCapture \/ Welcomed \/ IflyosAppExited

MainNext == RestartKey \/ WaitStart \/ ReadKeys \/ MicMuteKey \/ NetworkStatusChanged

AppNext == \/ AppBoots \/ AppDialogStarts \/ AppDialogGoesOn \/ AppClosesFifo
           \/ AppExits \/ Relay \/ ReportStopped

Next == RecNext \/ TaskNext \/ RecvNext \/ MainNext \/ AppNext

\* The threads of MicAgent are scheduled; an open() that blocks need not fail.
\* The umbrella forwards and reports, and an app that is up answers
\* DO_DIALOG_START.  Nothing else is assumed of the app, the keys or the network.
Fairness == /\ WF_vars(RecNext)
            /\ WF_vars(TaskProgress)
            /\ WF_vars(RecvNext)
            /\ WF_vars(WaitStart \/ ReadKeys)
            /\ WF_vars(Relay) /\ WF_vars(ReportStopped) /\ WF_vars(AppDialogStarts)

Safety == Init /\ [][Next]_vars
Spec   == Safety /\ Fairness

-----------------------------------------------------------------------------
(* Properties.                                                             *)

Pending(t) == \E i \in 1..Len(executor) : executor[i] = t

\* Without a lock around forwarding and fdAudio: while forwarding is set, the
\* descriptor is open, or its open() is still ahead; MicAgent never believes it
\* streams with nothing to stream to once the threads have settled.
NoHollowForwarding ==
  forwarding => \/ fdAudio \in openFds /\ task \notin {"closing", "clearing"}
                \/ rec = "start" \/ Pending("dialogOpen") \/ task = "opening"

\* The descriptor that close() is given is the FIFO's, or -1, never a number
\* that was closed before and may by now be another thread's.
CloseHitsFifo == task # "clearing" => fdAudio \in openFds \cup {-1}

\* A dialog ended by the app's END or STOPPED ends the streaming, unless the
\* executor's worker stays blocked in open().
CloseIsCarriedOut ==
  []<>(~alive \/ task # "opening") => (Pending("close") ~> (~forwarding \/ ~alive))

\* README.md:101 (wake it with "snowboy", then start a dialog) and the comment
\* at MicAgent.cpp:429: after a restart of the app MicAgent listens again.
ListensWhenReady == main = "keys" => rec # "off"
=============================================================================
