------------------------------ MODULE Umbrella ------------------------------
(***************************************************************************)
(* The umbrella process (IFLYOSUmbrella/IFLYOSUmbrella.cpp): it starts and *)
(* stops the IFLYOS app on command and reports the app's end.              *)
(*                                                                         *)
(* Commands come from the receiver thread and from stdin; both only put a  *)
(* task on `exector`, a ThreadPool of one worker, so tasks run one by one  *)
(* in order (module Executor).  A task is one action: iflyosPid is touched *)
(* by tasks only.  Each fork has a detached monitor thread of its own,     *)
(* which waits for any child and then enqueues the "exited" task.          *)
(***************************************************************************)
EXTENDS Integers, Sequences, FiniteSets

CONSTANT MaxCommands   \* bound: commands received, hence forks attempted

ASSUME CommandsAssumption == MaxCommands \in Nat \ {0}

Attempts == 1..MaxCommands

VARIABLES
  exector,    \* queued tasks
  closed,     \* safeQuit() was called on it
  iflyosPid,  \* 0: none; -1: fork() failed; n: the child of attempt n
  forks,      \* fork() calls so far; attempt n is the n-th
  child,      \* the process made by each attempt
  monitor,    \* its monitor thread: in wait(), returned from it, or done
  termed,     \* children that were sent SIGTERM
  stopped,    \* EVT_STOPPED events sent
  commands,   \* commands received
  up          \* the umbrella process is alive

vars == <<exector, closed, iflyosPid, forks, child, monitor, termed, stopped,
          commands, up>>

TypeOK ==
  /\ exector \in Seq({"start", "stop", "exited"})
  /\ closed \in BOOLEAN
  /\ iflyosPid \in {-1, 0} \cup Attempts
  /\ forks \in 0..MaxCommands
  /\ child \in [Attempts -> {"none", "forked", "running", "zombie", "reaped"}]
  /\ monitor \in [Attempts -> {"none", "waiting", "returned", "done"}]
  /\ termed \in SUBSET Attempts
  /\ stopped \in Nat
  /\ commands \in 0..MaxCommands
  /\ up \in BOOLEAN

Init ==
  /\ exector = <<>>
  /\ closed = FALSE
  /\ iflyosPid = 0
  /\ forks = 0
  /\ child = [n \in Attempts |-> "none"]
  /\ monitor = [n \in Attempts |-> "none"]
  /\ termed = {}
  /\ stopped = 0
  /\ commands = 0
  /\ up = TRUE

Alive(n)    == child[n] \in {"forked", "running"}
Unreaped(n) == child[n] \in {"forked", "running", "zombie"}

-----------------------------------------------------------------------------
(* The receiver thread, stdin and main().                                  *)

\* onIFLYOS_DoStart / onIFLYOS_DoStop.  enqueue() throws after safeQuit() and
\* nothing catches it: std::terminate().
Command(c) ==
  /\ up /\ commands < MaxCommands
  /\ commands' = commands + 1
  /\ exector' = IF closed THEN exector ELSE Append(exector, c)
  /\ up' = ~closed
  /\ UNCHANGED <<closed, iflyosPid, forks, child, monitor, termed, stopped>>

\* 'q' on stdin.
Quit ==
  /\ up /\ ~closed
  /\ closed' = TRUE
  /\ UNCHANGED <<exector, iflyosPid, forks, child, monitor, termed, stopped,
                 commands, up>>

\* main() returns without joining the pool, which ends the process.
MainReturns ==
  /\ up /\ closed
  /\ up' = FALSE
  /\ UNCHANGED <<exector, closed, iflyosPid, forks, child, monitor, termed,
                 stopped, commands>>

-----------------------------------------------------------------------------
(* The tasks, on the worker of exector.                                    *)

Take(t) == /\ up /\ exector # <<>> /\ Head(exector) = t
           /\ exector' = Tail(exector)

StartIgnored ==
  /\ Take("start") /\ iflyosPid # 0
  /\ UNCHANGED <<closed, iflyosPid, forks, child, monitor, termed, stopped,
                 commands, up>>

\* Mutant of Fork: iflyosPid is not tested.
ForkUntested(pid, state) ==
  /\ Take("start") /\ forks < MaxCommands
  /\ forks' = forks + 1
  /\ iflyosPid' = pid
  /\ child' = [child EXCEPT ![forks + 1] = state]
  /\ monitor' = [monitor EXCEPT ![forks + 1] = "waiting"]
  /\ UNCHANGED <<closed, termed, stopped, commands, up>>

\* (The bound on forks never binds: each fork takes a command of its own.)
Fork(pid, state) ==
  /\ Take("start") /\ iflyosPid = 0
  /\ forks < MaxCommands
  /\ forks' = forks + 1
  /\ iflyosPid' = pid
  /\ child' = [child EXCEPT ![forks + 1] = state]
  /\ monitor' = [monitor EXCEPT ![forks + 1] = "waiting"]
  /\ UNCHANGED <<closed, termed, stopped, commands, up>>

\* Mutant of RunStart: a failed fork leaves -errno in iflyosPid.
RunStartErrno == Fork(forks + 1, "forked") \/ Fork(-11, "none")

\* fork() succeeds, or fails with -1; the result is not tested, so the monitor
\* thread is started either way.
RunStart == Fork(forks + 1, "forked") \/ Fork(-1, "none")

\* Mutants of RunStop: the pid is forgotten once it was signalled; a child that
\* has not reached execl() is not signalled.
RunStopForgets ==
  /\ Take("stop")
  /\ termed' = termed \cup {n \in Attempts : Unreaped(n) /\ iflyosPid \in {-1, n}}
  /\ iflyosPid' = 0
  /\ UNCHANGED <<closed, forks, child, monitor, stopped, commands, up>>

RunStopAfterExec ==
  /\ Take("stop")
  /\ termed' = termed \cup {n \in Attempts : child[n] = "running" /\ iflyosPid = n}
  /\ UNCHANGED <<closed, iflyosPid, forks, child, monitor, stopped, commands, up>>

\* kill(iflyosPid, SIGTERM); kill(-1, ...) reaches every process it may.
RunStop ==
  /\ Take("stop")
  /\ termed' = termed \cup {n \in Attempts : Unreaped(n) /\ iflyosPid \in {-1, n}}
  /\ UNCHANGED <<closed, iflyosPid, forks, child, monitor, stopped, commands, up>>

\* Mutant of RunExited: iflyosPid is not reset.
RunExitedKeepsPid ==
  /\ Take("exited")
  /\ stopped' = stopped + 1
  /\ UNCHANGED <<closed, iflyosPid, forks, child, monitor, termed, commands, up>>

\* iflyosPid = 0, then EVT_STOPPED to whoever registered for it.
RunExited ==
  /\ Take("exited")
  /\ iflyosPid' = 0
  /\ stopped' = stopped + 1
  /\ UNCHANGED <<closed, forks, child, monitor, termed, commands, up>>

-----------------------------------------------------------------------------
(* The child process (its app is external) and the monitor threads.        *)

Becomes(n, state) ==
  /\ child' = [child EXCEPT ![n] = state]
  /\ UNCHANGED <<exector, closed, iflyosPid, forks, monitor, termed, stopped,
                 commands, up>>

\* sleep(2), then execl().
ChildExec(n) == child[n] = "forked" /\ Becomes(n, "running")

\* execl() fails, or the app ends by itself.
ChildExits(n) == Alive(n) /\ Becomes(n, "zombie")

\* SIGTERM ends the app, or the child that still sleeps.
ChildTerminates(n) == Alive(n) /\ n \in termed /\ Becomes(n, "zombie")

\* wait(nullptr) reaps any dead child, or fails at once when there is none.
MonitorWait(n) ==
  /\ up /\ monitor[n] = "waiting"
  /\ \/ \E m \in Attempts : /\ child[m] = "zombie"
                            /\ child' = [child EXCEPT ![m] = "reaped"]
     \/ (\A m \in Attempts : ~Unreaped(m)) /\ UNCHANGED child
  /\ monitor' = [monitor EXCEPT ![n] = "returned"]
  /\ UNCHANGED <<exector, closed, iflyosPid, forks, termed, stopped, commands, up>>

\* As in Command, enqueue() throws after safeQuit().
MonitorEnqueue(n) ==
  /\ up /\ monitor[n] = "returned"
  /\ exector' = IF closed THEN exector ELSE Append(exector, "exited")
  /\ monitor' = [monitor EXCEPT ![n] = "done"]
  /\ up' = ~closed
  /\ UNCHANGED <<closed, iflyosPid, forks, child, termed, stopped, commands>>

-----------------------------------------------------------------------------
RunTask == StartIgnored \/ RunStart \/ RunStop \/ RunExited

Monitor(n) == MonitorWait(n) \/ MonitorEnqueue(n)

Next == \/ \E c \in {"start", "stop"} : Command(c)
        \/ Quit \/ MainReturns
        \/ RunTask
        \/ \E n \in Attempts : \/ ChildExec(n) \/ ChildExits(n) \/ ChildTerminates(n)
                               \/ Monitor(n)

\* The threads of the umbrella and the child are scheduled, and an app that is
\* sent SIGTERM ends.  Commands, quitting and an app's own end may never come.
Fairness == /\ WF_vars(RunTask)
            /\ \A n \in Attempts : /\ WF_vars(ChildExec(n))
                                   /\ WF_vars(ChildTerminates(n))
                                   /\ WF_vars(Monitor(n))

Safety == Init /\ [][Next]_vars
Spec   == Safety /\ Fairness

-----------------------------------------------------------------------------
(* The umbrella as its clients see it: an app is ending from the SIGTERM,  *)
(* its own end or a failed fork on until the "exited" task has run.        *)

Reports(q) == {i \in 1..Len(q) : q[i] = "exited"}

\* The end of an app is queued at most once.
CommandsIn(q) ==
  IF Reports(q) = {} THEN q
  ELSE LET r == CHOOSE i \in Reports(q) : TRUE
       IN  [k \in 1..Len(q) - 1 |-> IF k < r THEN q[k] ELSE q[k + 1]]

Serving == \E n \in Attempts \ termed : n = iflyosPid /\ Alive(n)

AppSeen == IF iflyosPid = 0 THEN "none" ELSE IF Serving THEN "live" ELSE "ending"

Host == INSTANCE AppHost WITH commands <- CommandsIn(exector), app <- AppSeen

-----------------------------------------------------------------------------
(* Properties.                                                             *)

\* However starts, stops and exits interleave, two apps never run at a time:
\* a start is refused until the "exited" task of the last app has run.
AtMostOneApp == \A m, n \in Attempts : Unreaped(m) /\ Unreaped(n) => m = n

\* iflyosPid is never stale towards a live app: while an app lives the next
\* DO_STOP has its pid, even when its exit and new commands race.
PidNamesApp == \A n \in Attempts : Unreaped(n) => iflyosPid = n

\* One EVT_STOPPED per fork, and at most one start not yet answered.  MicAgent
\* relies on it to close the audio FIFO.
StoppedOncePerStart == forks = stopped + (IF iflyosPid = 0 THEN 0 ELSE 1)

\* EVT_STOPPED is sent only when the app is dead and reaped, never while the
\* process it reports on, or a newer one, is alive.
StoppedOnlyWhenDown ==
  [][stopped' # stopped => \A n \in Attempts : ~Unreaped(n)]_vars

\* What DO_START and DO_STOP come to for those who send them (lines 38 to 82):
\* a stop ends the app that lives, no start makes an app before the last one is
\* dead and its end was dealt with, and that end is dealt with, so that a later
\* start works.  MicControl builds on this.
ImplementsAppHost == Host!Spec

\* A queued stop ends the app that lives when it is queued.
StopIsObeyed ==
  \A n \in Attempts :
    (Alive(n) /\ (\E i \in 1..Len(exector) : exector[i] = "stop"))
       ~> (~Alive(n) \/ ~up)

\* DO_START is documented as starting IFLYOS (IFLYOSInterface.h:12) and MicAgent
\* sends it right after DO_STOP to restart the app (MicAgent.cpp:467-471): a start
\* is not dropped on account of an app that was told to stop.
StartNotDroppedByStop == [][StartIgnored => iflyosPid \notin termed]_vars
=============================================================================
