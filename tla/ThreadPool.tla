----------------------------- MODULE ThreadPool -----------------------------
(***************************************************************************)
(* iflyosInterface::ThreadPool (IFLYOSThreadPool.h, IFLYOSThreadPool.cpp). *)
(* queue_mutex is held for the whole of each critical section, so one      *)
(* section is one action.  What the mutex does not cover are steps of      *)
(* their own: the notify_one()/notify_all() that a caller owes after it    *)
(* has unlocked, the task a worker runs, and the way from a wake-up back   *)
(* to the predicate of condition.wait().                                   *)
(***************************************************************************)
EXTENDS Naturals, Sequences, FiniteSets

CONSTANTS Threads,  \* threads outside the pool that call it
          Workers,  \* the threads made by the constructor
          Tasks,    \* packaged_task objects; every enqueue() makes a fresh one
          NoTask    \* a worker's local `task` when it runs none

ASSUME PoolAssumption == /\ Workers # {}
                         /\ Workers \cap Threads = {}
                         /\ NoTask \notin Tasks

VARIABLES
  tasks,     \* the queue
  quit,
  wpc,       \* "lock": about to lock and test the predicate; "waiting":
             \* blocked in the condition variable; "running"; "exited"
  running,   \* the task of each worker
  cpc,       \* "notify" / "notifyAll": the call has unlocked and owes a wake-up
  refused,   \* history: tasks whose enqueue() threw
  accepted,  \* history: tasks whose enqueue() returned, in order
  started,   \* history: tasks taken by a worker, in order
  joined     \* join() has returned

vars == <<tasks, quit, wpc, running, cpc, refused, accepted, started, joined>>

Callers == Threads \cup Workers

TypeOK ==
  /\ tasks \in Seq(Tasks)
  /\ quit \in BOOLEAN
  /\ wpc \in [Workers -> {"lock", "waiting", "running", "exited"}]
  /\ running \in [Workers -> Tasks \cup {NoTask}]
  /\ cpc \in [Callers -> {"out", "notify", "notifyAll"}]
  /\ refused \in SUBSET Tasks
  /\ accepted \in Seq(Tasks)
  /\ started \in Seq(Tasks)
  /\ joined \in BOOLEAN

Init ==
  /\ tasks = <<>>
  /\ quit = FALSE
  /\ wpc = [w \in Workers |-> "lock"]
  /\ running = [w \in Workers |-> NoTask]
  /\ cpc = [c \in Callers |-> "out"]
  /\ refused = {}
  /\ accepted = <<>>
  /\ started = <<>>
  /\ joined = FALSE

-----------------------------------------------------------------------------
(* The callers: any thread, or a task that runs on a worker of this pool.  *)

CanCall(c) == cpc[c] = "out" /\ (c \in Workers => wpc[c] = "running")

Fresh(t) == /\ t \notin refused
            /\ \A i \in 1..Len(accepted) : accepted[i] # t

\* Mutants of Enqueue: the task object was moved from before it was queued; the
\* test of quit is missing.
EnqueueMovedFrom(c, t) ==
  /\ CanCall(c) /\ Fresh(t) /\ ~quit
  /\ tasks' = Append(tasks, NoTask)
  /\ accepted' = Append(accepted, t)
  /\ cpc' = [cpc EXCEPT ![c] = "notify"]
  /\ UNCHANGED <<quit, wpc, running, refused, started, joined>>

EnqueueAfterQuit(c, t) ==
  /\ CanCall(c) /\ Fresh(t)
  /\ tasks' = Append(tasks, t)
  /\ accepted' = Append(accepted, t)
  /\ cpc' = [cpc EXCEPT ![c] = "notify"]
  /\ UNCHANGED <<quit, wpc, running, refused, started, joined>>

\* enqueue() on a pool that has not quit, up to the unlock.
Enqueue(c, t) ==
  /\ CanCall(c) /\ Fresh(t)
  /\ ~quit
  /\ tasks' = Append(tasks, t)
  /\ accepted' = Append(accepted, t)
  /\ cpc' = [cpc EXCEPT ![c] = "notify"]
  /\ UNCHANGED <<quit, wpc, running, refused, started, joined>>

\* enqueue() on a pool that has quit throws.  On a worker the exception ends
\* the packaged task that made the call.
EnqueueThrows(c, t) ==
  /\ CanCall(c) /\ Fresh(t)
  /\ quit
  /\ refused' = refused \cup {t}
  /\ wpc' = [w \in Workers |-> IF w = c THEN "lock" ELSE wpc[w]]
  /\ running' = [w \in Workers |-> IF w = c THEN NoTask ELSE running[w]]
  /\ UNCHANGED <<tasks, quit, cpc, accepted, started, joined>>

\* notify_one() wakes one waiting worker, or nobody when none waits.
NotifyOne(c) ==
  /\ cpc[c] = "notify"
  /\ cpc' = [cpc EXCEPT ![c] = "out"]
  /\ \/ \E w \in Workers : /\ wpc[w] = "waiting"
                           /\ wpc' = [wpc EXCEPT ![w] = "lock"]
     \/ (\A w \in Workers : wpc[w] # "waiting") /\ UNCHANGED wpc
  /\ UNCHANGED <<tasks, quit, running, refused, accepted, started, joined>>

\* Mutant of SafeQuit: notify_one() instead of notify_all().
SafeQuitNotifyOne(c) ==
  /\ CanCall(c)
  /\ quit' = TRUE
  /\ cpc' = [cpc EXCEPT ![c] = "notify"]
  /\ UNCHANGED <<tasks, wpc, running, refused, accepted, started, joined>>

SafeQuit(c) ==
  /\ CanCall(c)
  /\ quit' = TRUE
  /\ cpc' = [cpc EXCEPT ![c] = "notifyAll"]
  /\ UNCHANGED <<tasks, wpc, running, refused, accepted, started, joined>>

NotifyAll(c) ==
  /\ cpc[c] = "notifyAll"
  /\ cpc' = [cpc EXCEPT ![c] = "out"]
  /\ wpc' = [w \in Workers |-> IF wpc[w] = "waiting" THEN "lock" ELSE wpc[w]]
  /\ UNCHANGED <<tasks, quit, running, refused, accepted, started, joined>>

\* join() returns when every worker's thread function has.
Join ==
  /\ ~joined
  /\ \A w \in Workers : wpc[w] = "exited"
  /\ joined' = TRUE
  /\ UNCHANGED <<tasks, quit, wpc, running, cpc, refused, accepted, started>>

-----------------------------------------------------------------------------
(* The worker loop.                                                        *)

WorkerTake(w) ==
  /\ wpc[w] = "lock"
  /\ tasks # <<>>
  /\ running' = [running EXCEPT ![w] = Head(tasks)]
  /\ tasks' = Tail(tasks)
  /\ started' = Append(started, Head(tasks))
  /\ wpc' = [wpc EXCEPT ![w] = "running"]
  /\ UNCHANGED <<quit, cpc, refused, accepted, joined>>

\* Mutant of WorkerExit: `if (quit) return`, whatever is queued.
WorkerExitAtQuit(w) ==
  /\ wpc[w] = "lock"
  /\ quit
  /\ wpc' = [wpc EXCEPT ![w] = "exited"]
  /\ UNCHANGED <<tasks, quit, running, cpc, refused, accepted, started, joined>>

WorkerExit(w) ==
  /\ wpc[w] = "lock"
  /\ quit /\ tasks = <<>>
  /\ wpc' = [wpc EXCEPT ![w] = "exited"]
  /\ UNCHANGED <<tasks, quit, running, cpc, refused, accepted, started, joined>>

\* Mutant of WorkerWait: condition.wait(lock) without the predicate.
WorkerWaitNoPredicate(w) ==
  /\ wpc[w] = "lock"
  /\ wpc' = [wpc EXCEPT ![w] = "waiting"]
  /\ UNCHANGED <<tasks, quit, running, cpc, refused, accepted, started, joined>>

WorkerWait(w) ==
  /\ wpc[w] = "lock"
  /\ ~quit /\ tasks = <<>>
  /\ wpc' = [wpc EXCEPT ![w] = "waiting"]
  /\ UNCHANGED <<tasks, quit, running, cpc, refused, accepted, started, joined>>

\* task() returns, having finished the calls it made on the pool.
WorkerFinish(w) ==
  /\ wpc[w] = "running" /\ cpc[w] = "out"
  /\ running' = [running EXCEPT ![w] = NoTask]
  /\ wpc' = [wpc EXCEPT ![w] = "lock"]
  /\ UNCHANGED <<tasks, quit, cpc, refused, accepted, started, joined>>

\* condition.wait() may return from the wait without a notification.
SpuriousWakeup(w) ==
  /\ wpc[w] = "waiting"
  /\ wpc' = [wpc EXCEPT ![w] = "lock"]
  /\ UNCHANGED <<tasks, quit, running, cpc, refused, accepted, started, joined>>

-----------------------------------------------------------------------------
Call(c) == \/ \E t \in Tasks : Enqueue(c, t) \/ EnqueueThrows(c, t)
           \/ SafeQuit(c)

Notify(c) == NotifyOne(c) \/ NotifyAll(c)

Loop(w) == WorkerTake(w) \/ WorkerExit(w) \/ WorkerWait(w)

Next == \/ \E c \in Callers : Call(c) \/ Notify(c)
        \/ \E w \in Workers : Loop(w) \/ WorkerFinish(w) \/ SpuriousWakeup(w)
        \/ Join

\* A thread that holds or has been given the mutex is scheduled, and so is the
\* notification after an unlock.  Nothing is assumed of tasks, of callers or
\* of spurious wake-ups.
Fairness == /\ \A c \in Callers : WF_vars(Notify(c))
            /\ \A w \in Workers : WF_vars(Loop(w))

Safety == Init /\ [][Next]_vars
Spec   == Safety /\ Fairness

-----------------------------------------------------------------------------
(* Properties.                                                             *)

\* The queue is first in, first out, and what enqueue() accepted is started
\* or still queued: nothing is lost, duplicated or overtaken, whatever the
\* workers do between unlock and notify.
FIFO == accepted = started \o tasks

\* No task is run twice, neither one after the other nor on two workers.
EachTaskOnce ==
  /\ \A i, j \in 1..Len(started) : started[i] = started[j] => i = j
  /\ \A v, w \in Workers : running[v] = running[w] /\ running[v] # NoTask => v = w

\* No lost wake-up: while tasks are queued, some worker is going to look at
\* the queue again, or a caller still owes a notification.
NoStrandedTask ==
  tasks # <<>> => \/ \E w \in Workers : wpc[w] \in {"lock", "running"}
                  \/ \E c \in Callers : cpc[c] # "out"

\* safeQuit() reaches every sleeper: a worker waits on a pool that has quit
\* only until the notify_all() that is still owed.
NoSleeperAfterQuit ==
  quit /\ (\E w \in Workers : wpc[w] = "waiting")
     => \E c \in Callers : cpc[c] = "notifyAll"

\* join() means drained: all that was ever accepted has been started and has
\* returned, and nothing that was refused ever ran.
DrainedAtJoin ==
  joined => /\ tasks = <<>> /\ started = accepted
            /\ \A w \in Workers : running[w] = NoTask
            /\ \A i \in 1..Len(started) : started[i] \notin refused

\* The pool implements the abstract executor.
Abstract == INSTANCE Executor WITH Slots <- Workers, queue <- tasks,
                                   slot <- running, closed <- quit

ImplementsExecutor == Abstract!Spec

\* Shutdown: once quit is set, a worker that does not run one task for ever
\* leaves its loop.
QuitEndsWorkers ==
  \A w \in Workers : (<>quit /\ []<>(wpc[w] # "running")) => <>(wpc[w] = "exited")

\* A task accepted before or during shutdown is started, unless every worker
\* ends up inside a task that does not return.
AcceptedIsStarted ==
  \A t \in Tasks :
    (\E w \in Workers : []<>(wpc[w] # "running")) =>
       ((\E i \in 1..Len(accepted) : accepted[i] = t)
          ~> (\E i \in 1..Len(started) : started[i] = t))
=============================================================================
