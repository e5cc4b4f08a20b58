-------------------------- MODULE ThreadPoolProofs --------------------------
(***************************************************************************)
(* The safety of ThreadPool, for any number of threads, workers and tasks. *)
(***************************************************************************)
EXTENDS ThreadPool, SequenceTheorems, TLAPS

\* The state has its types: the base of every other proof.
THEOREM TypeCorrect == Safety => []TypeOK
<1>1. Init => TypeOK
  BY EmptySeq DEF Init, TypeOK
<1>2. TypeOK /\ [Next]_vars => TypeOK'
  <2> SUFFICES ASSUME TypeOK, [Next]_vars PROVE TypeOK'
    OBVIOUS
  <2> USE DEF TypeOK
  <2>1. ASSUME NEW c \in Callers, NEW t \in Tasks, Enqueue(c, t) PROVE TypeOK'
    BY <2>1 DEF Enqueue
  <2>2. ASSUME NEW c \in Callers, NEW t \in Tasks, EnqueueThrows(c, t) PROVE TypeOK'
    BY <2>2 DEF EnqueueThrows
  <2>3. ASSUME NEW c \in Callers, SafeQuit(c) PROVE TypeOK'
    BY <2>3 DEF SafeQuit
  <2>4. ASSUME NEW c \in Callers, NotifyOne(c) PROVE TypeOK'
    BY <2>4 DEF NotifyOne
  <2>5. ASSUME NEW c \in Callers, NotifyAll(c) PROVE TypeOK'
    BY <2>5 DEF NotifyAll
  <2>6. ASSUME NEW w \in Workers, WorkerTake(w) PROVE TypeOK'
    <3>1. Head(tasks) \in Tasks /\ Tail(tasks) \in Seq(Tasks)
      BY <2>6, HeadTailProperties DEF WorkerTake
    <3> QED BY <2>6, <3>1 DEF WorkerTake
  <2>7. ASSUME NEW w \in Workers, WorkerExit(w) PROVE TypeOK'
    BY <2>7 DEF WorkerExit
  <2>8. ASSUME NEW w \in Workers, WorkerWait(w) PROVE TypeOK'
    BY <2>8 DEF WorkerWait
  <2>9. ASSUME NEW w \in Workers, WorkerFinish(w) PROVE TypeOK'
    BY <2>9 DEF WorkerFinish
  <2>10. ASSUME NEW w \in Workers, SpuriousWakeup(w) PROVE TypeOK'
    BY <2>10 DEF SpuriousWakeup
  <2>11. CASE Join
    BY <2>11 DEF Join
  <2>12. CASE UNCHANGED vars
    BY <2>12 DEF vars
  <2> QED
    BY <2>1, <2>2, <2>3, <2>4, <2>5, <2>6, <2>7, <2>8, <2>9, <2>10, <2>11, <2>12
       DEF Next, Call, Notify, Loop
<1> QED BY <1>1, <1>2, PTL DEF Safety

-----------------------------------------------------------------------------
\* Only two actions touch the queue and its histories.
LEMMA QueueSteps ==
  ASSUME [Next]_vars
  PROVE  \/ \E c \in Callers, t \in Tasks : Enqueue(c, t)
         \/ \E w \in Workers : WorkerTake(w)
         \/ UNCHANGED <<tasks, accepted, started>>
BY DEF Next, Call, Notify, Loop, EnqueueThrows, SafeQuit, NotifyOne, NotifyAll,
       WorkerExit, WorkerWait, WorkerFinish, SpuriousWakeup, Join, vars

\* enqueue() and the worker's pop keep the queue first in, first out.
THEOREM QueueIsFIFO == Safety => []FIFO
<1>1. Init => FIFO
  BY DEF Init, FIFO
<1>2. TypeOK /\ FIFO /\ [Next]_vars => FIFO'
  <2> SUFFICES ASSUME TypeOK, FIFO, [Next]_vars PROVE FIFO'
    OBVIOUS
  <2> USE DEF TypeOK, FIFO
  <2>1. ASSUME NEW c \in Callers, NEW t \in Tasks, Enqueue(c, t) PROVE FIFO'
    <3>1. Append(started \o tasks, t) = started \o Append(tasks, t)
      <4>1. <<t>> \in Seq(Tasks) /\ started \o tasks \in Seq(Tasks)
        BY ConcatProperties
      <4>2. Append(started \o tasks, t) = (started \o tasks) \o <<t>>
        BY <4>1, AppendIsConcat
      <4>3. Append(tasks, t) = tasks \o <<t>>
        BY AppendIsConcat
      <4>4. (started \o tasks) \o <<t>> = started \o (tasks \o <<t>>)
        BY <4>1, ConcatAssociative
      <4> QED BY <4>2, <4>3, <4>4
    <3> QED BY <2>1, <3>1 DEF Enqueue
  <2>2. ASSUME NEW w \in Workers, WorkerTake(w) PROVE FIFO'
    <3>1. started \o tasks = Append(started, Head(tasks)) \o Tail(tasks)
      BY <2>2 DEF WorkerTake
    <3> QED BY <2>2, <3>1 DEF WorkerTake
  <2>3. CASE UNCHANGED <<tasks, accepted, started>>
    BY <2>3
  <2> QED BY <2>1, <2>2, <2>3, QueueSteps
<1> QED BY <1>1, <1>2, TypeCorrect, PTL DEF Safety

-----------------------------------------------------------------------------
(* Wake-ups.  A worker that left the loop left an empty, closed queue, so  *)
(* if no worker is at "lock" or "running" all of them wait.                *)

ExitedDrained == \A w \in Workers : wpc[w] = "exited" => quit /\ tasks = <<>>

WakeupInv == ExitedDrained /\ NoStrandedTask /\ NoSleeperAfterQuit

LEMMA WakeupStep == TypeOK /\ WakeupInv /\ [Next]_vars => WakeupInv'
<1> SUFFICES ASSUME TypeOK, WakeupInv, [Next]_vars PROVE WakeupInv'
  OBVIOUS
<1> USE DEF TypeOK, WakeupInv, ExitedDrained, NoStrandedTask, NoSleeperAfterQuit
<1>1. ASSUME NEW c \in Callers, NEW t \in Tasks, Enqueue(c, t) PROVE WakeupInv'
  BY <1>1 DEF Enqueue, CanCall
<1>2. ASSUME NEW c \in Callers, NEW t \in Tasks, EnqueueThrows(c, t) PROVE WakeupInv'
  BY <1>2 DEF EnqueueThrows, CanCall
<1>3. ASSUME NEW c \in Callers, SafeQuit(c) PROVE WakeupInv'
  BY <1>3 DEF SafeQuit
<1>4. ASSUME NEW c \in Callers, NotifyOne(c) PROVE WakeupInv'
  <2>1. ExitedDrained' /\ NoSleeperAfterQuit'
    BY <1>4 DEF NotifyOne
  <2>2. CASE \E w \in Workers : /\ wpc[w] = "waiting"
                                /\ wpc' = [wpc EXCEPT ![w] = "lock"]
    BY <1>4, <2>1, <2>2 DEF NotifyOne
  <2>3. CASE (\A w \in Workers : wpc[w] # "waiting") /\ UNCHANGED wpc
    <3>1. tasks # <<>> => \E w \in Workers : wpc[w] \in {"lock", "running"}
      BY <2>3, PoolAssumption
    <3> QED BY <1>4, <2>1, <2>3, <3>1 DEF NotifyOne
  <2> QED BY <1>4, <2>2, <2>3 DEF NotifyOne
<1>5. ASSUME NEW c \in Callers, NotifyAll(c) PROVE WakeupInv'
  <2>1. \A w \in Workers : wpc'[w] # "waiting"
    BY <1>5 DEF NotifyAll
  <2>2. ExitedDrained'
    BY <1>5 DEF NotifyAll
  <2>3. tasks # <<>> => \E w \in Workers : wpc'[w] \in {"lock", "running"}
    BY <1>5, PoolAssumption DEF NotifyAll
  <2> QED BY <1>5, <2>1, <2>2, <2>3 DEF NotifyAll
<1>6. ASSUME NEW w \in Workers, WorkerTake(w) PROVE WakeupInv'
  BY <1>6 DEF WorkerTake
<1>7. ASSUME NEW w \in Workers, WorkerExit(w) PROVE WakeupInv'
  BY <1>7 DEF WorkerExit
<1>8. ASSUME NEW w \in Workers, WorkerWait(w) PROVE WakeupInv'
  BY <1>8 DEF WorkerWait
<1>9. ASSUME NEW w \in Workers, WorkerFinish(w) PROVE WakeupInv'
  BY <1>9 DEF WorkerFinish
<1>10. ASSUME NEW w \in Workers, SpuriousWakeup(w) PROVE WakeupInv'
  BY <1>10 DEF SpuriousWakeup
<1>11. CASE Join
  BY <1>11 DEF Join
<1>12. CASE UNCHANGED vars
  BY <1>12 DEF vars
<1> QED
  BY <1>1, <1>2, <1>3, <1>4, <1>5, <1>6, <1>7, <1>8, <1>9, <1>10, <1>11, <1>12
     DEF Next, Call, Notify, Loop

\* No wake-up is lost: neither a task nor a sleeper outlives the notification
\* it depends on.
THEOREM NoLostWakeup == Safety => [](NoStrandedTask /\ NoSleeperAfterQuit)
<1>1. Init => WakeupInv
  BY DEF Init, WakeupInv, ExitedDrained, NoStrandedTask, NoSleeperAfterQuit
<1>2. WakeupInv => NoStrandedTask /\ NoSleeperAfterQuit
  BY DEF WakeupInv
<1> QED BY <1>1, <1>2, WakeupStep, TypeCorrect, PTL DEF Safety

-----------------------------------------------------------------------------
(* Each task once.  Fresh makes the history of accepted tasks injective,   *)
(* the queue being FIFO makes `started` a prefix of it, and what a worker  *)
(* runs is among what was started.                                         *)

AcceptedOnce == \A i, j \in 1..Len(accepted) : accepted[i] = accepted[j] => i = j

RunningStarted ==
  \A w \in Workers :
    running[w] # NoTask => \E i \in 1..Len(started) : started[i] = running[w]

RunningOnce ==
  \A v, w \in Workers : running[v] = running[w] /\ running[v] # NoTask => v = w

OnceInv == AcceptedOnce /\ RunningStarted /\ RunningOnce

LEMMA StartedIsPrefix ==
  ASSUME TypeOK, FIFO
  PROVE  /\ Len(accepted) = Len(started) + Len(tasks)
         /\ \A i \in 1..Len(started) : i \in 1..Len(accepted) /\ accepted[i] = started[i]
         /\ tasks # <<>> => /\ Len(started) + 1 \in 1..Len(accepted)
                            /\ accepted[Len(started) + 1] = Head(tasks)
<1>1. /\ Len(accepted) = Len(started) + Len(tasks)
      /\ \A i \in 1..Len(started) + Len(tasks) :
           accepted[i] = IF i <= Len(started) THEN started[i]
                                              ELSE tasks[i - Len(started)]
  BY ConcatProperties DEF TypeOK, FIFO
<1>2. Len(started) \in Nat /\ Len(tasks) \in Nat
  BY LenProperties DEF TypeOK
<1>3. tasks # <<>> => Len(tasks) > 0 /\ Head(tasks) = tasks[1]
  BY <1>2, EmptySeq, HeadTailProperties DEF TypeOK
<1> QED BY <1>1, <1>2, <1>3

LEMMA OnceStep == TypeOK /\ FIFO /\ OnceInv /\ [Next]_vars => OnceInv'
<1> SUFFICES ASSUME TypeOK, FIFO, OnceInv, [Next]_vars PROVE OnceInv'
  OBVIOUS
<1> USE DEF OnceInv, AcceptedOnce, RunningStarted, RunningOnce
<1>0. Len(accepted) \in Nat /\ Len(started) \in Nat
  BY LenProperties DEF TypeOK
<1>1. ASSUME NEW c \in Callers, NEW t \in Tasks, Enqueue(c, t) PROVE OnceInv'
  <2>1. /\ Len(accepted') = Len(accepted) + 1
        /\ \A i \in 1..Len(accepted) : accepted'[i] = accepted[i] /\ accepted[i] # t
        /\ accepted'[Len(accepted) + 1] = t
    BY <1>0, <1>1, AppendProperties DEF TypeOK, Enqueue, Fresh
  <2> QED BY <1>0, <1>1, <2>1 DEF Enqueue
<1>2. ASSUME NEW w \in Workers, WorkerTake(w) PROVE OnceInv'
  <2>1. Head(tasks) \in Tasks
    BY <1>2, HeadTailProperties DEF TypeOK, WorkerTake
  <2>2. \A i \in 1..Len(started) : started[i] # Head(tasks)
    BY <1>0, <1>2, StartedIsPrefix DEF WorkerTake
  <2>3. /\ Len(started') = Len(started) + 1
        /\ \A i \in 1..Len(started) : started'[i] = started[i]
        /\ started'[Len(started) + 1] = Head(tasks)
    BY <1>0, <1>2, <2>1, AppendProperties DEF TypeOK, WorkerTake
  <2>4. \A v \in Workers : running'[v] = IF v = w THEN Head(tasks) ELSE running[v]
    BY <1>2 DEF TypeOK, WorkerTake
  <2>5. RunningStarted'
    BY <1>0, <2>3, <2>4
  <2>6. RunningOnce'
    BY <2>2, <2>4
  <2> QED BY <1>2, <2>5, <2>6 DEF WorkerTake
<1>3. ASSUME UNCHANGED <<accepted, started>>,
             \A w \in Workers : running'[w] \in {running[w], NoTask}
      PROVE  OnceInv'
  BY <1>3
<1>4. \/ \E c \in Callers, t \in Tasks : Enqueue(c, t)
      \/ \E w \in Workers : WorkerTake(w)
      \/ /\ UNCHANGED <<accepted, started>>
         /\ \A w \in Workers : running'[w] \in {running[w], NoTask}
  BY DEF TypeOK, Next, Call, Notify, Loop, EnqueueThrows, SafeQuit, NotifyOne,
         NotifyAll, WorkerExit, WorkerWait, WorkerFinish, SpuriousWakeup, Join, vars
<1> QED BY <1>1, <1>2, <1>3, <1>4

\* No task is started twice, and no two workers run the same task.
THEOREM TasksRunOnce == Safety => []EachTaskOnce
<1>1. Init => OnceInv
  BY DEF Init, OnceInv, AcceptedOnce, RunningStarted, RunningOnce
<1>2. TypeOK /\ FIFO /\ OnceInv => EachTaskOnce
  BY StartedIsPrefix DEF OnceInv, AcceptedOnce, RunningOnce, EachTaskOnce
<1> QED BY <1>1, <1>2, OnceStep, TypeCorrect, QueueIsFIFO, PTL DEF Safety

-----------------------------------------------------------------------------
(* Shutdown.                                                               *)

ShutdownInv ==
  /\ \A w \in Workers : wpc[w] = "running" <=> running[w] # NoTask
  /\ \A i \in 1..Len(accepted) : accepted[i] \notin refused
  /\ joined => \A w \in Workers : wpc[w] = "exited"

LEMMA ShutdownStep == TypeOK /\ ShutdownInv /\ [Next]_vars => ShutdownInv'
<1> SUFFICES ASSUME TypeOK, ShutdownInv, [Next]_vars PROVE ShutdownInv'
  OBVIOUS
<1> USE DEF TypeOK, ShutdownInv
<1>0. Len(accepted) \in Nat
  BY LenProperties
<1>1. ASSUME NEW c \in Callers, NEW t \in Tasks, Enqueue(c, t) PROVE ShutdownInv'
  <2>1. /\ Len(accepted') = Len(accepted) + 1
        /\ \A i \in 1..Len(accepted) : accepted'[i] = accepted[i]
        /\ accepted'[Len(accepted) + 1] = t
    BY <1>0, <1>1, AppendProperties DEF Enqueue
  <2>2. t \notin refused
    BY <1>1 DEF Enqueue, Fresh
  <2>3. \A i \in 1..Len(accepted') : accepted'[i] \notin refused'
    BY <1>0, <1>1, <2>1, <2>2 DEF Enqueue
  <2> QED BY <1>1, <2>3 DEF Enqueue
<1>2. ASSUME NEW c \in Callers, NEW t \in Tasks, EnqueueThrows(c, t) PROVE ShutdownInv'
  <2>1. \A i \in 1..Len(accepted') : accepted'[i] \notin refused'
    BY <1>2 DEF EnqueueThrows, Fresh
  <2> QED BY <1>2, <2>1 DEF EnqueueThrows, CanCall
<1>3. ASSUME NEW c \in Callers, SafeQuit(c) PROVE ShutdownInv'
  BY <1>3 DEF SafeQuit
<1>4. ASSUME NEW c \in Callers, NotifyOne(c) PROVE ShutdownInv'
  BY <1>4 DEF NotifyOne
<1>5. ASSUME NEW c \in Callers, NotifyAll(c) PROVE ShutdownInv'
  BY <1>5 DEF NotifyAll
<1>6. ASSUME NEW w \in Workers, WorkerTake(w) PROVE ShutdownInv'
  <2>1. Head(tasks) # NoTask
    BY <1>6, HeadTailProperties, PoolAssumption DEF WorkerTake
  <2> QED BY <1>6, <2>1 DEF WorkerTake
<1>7. ASSUME NEW w \in Workers, WorkerExit(w) PROVE ShutdownInv'
  BY <1>7 DEF WorkerExit
<1>8. ASSUME NEW w \in Workers, WorkerWait(w) PROVE ShutdownInv'
  BY <1>8 DEF WorkerWait
<1>9. ASSUME NEW w \in Workers, WorkerFinish(w) PROVE ShutdownInv'
  BY <1>9 DEF WorkerFinish
<1>10. ASSUME NEW w \in Workers, SpuriousWakeup(w) PROVE ShutdownInv'
  BY <1>10 DEF SpuriousWakeup
<1>11. CASE Join
  BY <1>11 DEF Join
<1>12. CASE UNCHANGED vars
  BY <1>12 DEF vars
<1> QED
  BY <1>1, <1>2, <1>3, <1>4, <1>5, <1>6, <1>7, <1>8, <1>9, <1>10, <1>11, <1>12
     DEF Next, Call, Notify, Loop

\* When join() has returned, every accepted task has run and no refused one has.
THEOREM JoinDrains == Safety => []DrainedAtJoin
<1>1. Init => ShutdownInv
  BY DEF Init, ShutdownInv
<1>2. Init => WakeupInv
  BY DEF Init, WakeupInv, ExitedDrained, NoStrandedTask, NoSleeperAfterQuit
<1>3. TypeOK /\ FIFO /\ WakeupInv /\ ShutdownInv => DrainedAtJoin
  <2> SUFFICES ASSUME TypeOK, FIFO, WakeupInv, ShutdownInv, joined
               PROVE  /\ tasks = <<>> /\ started = accepted
                      /\ \A w \in Workers : running[w] = NoTask
                      /\ \A i \in 1..Len(started) : started[i] \notin refused
    BY DEF DrainedAtJoin
  <2>1. \A w \in Workers : wpc[w] = "exited" /\ running[w] = NoTask
    BY DEF ShutdownInv
  <2>2. tasks = <<>>
    BY <2>1, PoolAssumption DEF WakeupInv, ExitedDrained
  <2>3. started = accepted
    BY <2>2, ConcatEmptySeq DEF TypeOK, FIFO
  <2> QED BY <2>1, <2>2, <2>3 DEF ShutdownInv
<1> QED BY <1>1, <1>2, <1>3, ShutdownStep, WakeupStep, TypeCorrect, QueueIsFIFO,
           PTL DEF Safety

-----------------------------------------------------------------------------
\* Every step of the pool is a step of the abstract executor or leaves the
\* executor's state alone.
THEOREM Refinement == Safety => Abstract!Safety
<1> USE DEF Abstract!vars
<1>1. Init => Abstract!Init
  BY DEF Init, Abstract!Init
<1>2. TypeOK /\ ShutdownInv /\ [Next]_vars => [Abstract!Next]_Abstract!vars
  <2> SUFFICES ASSUME TypeOK, ShutdownInv, [Next]_vars
               PROVE  Abstract!Next \/ UNCHANGED Abstract!vars
    OBVIOUS
  <2>1. ASSUME NEW c \in Callers, NEW t \in Tasks, Enqueue(c, t) PROVE Abstract!Submit
    BY <2>1 DEF Enqueue, Abstract!Submit
  <2>2. ASSUME NEW c \in Callers, NEW t \in Tasks, EnqueueThrows(c, t)
        PROVE  Abstract!Finish \/ UNCHANGED Abstract!vars
    <3>1. CASE c \in Workers
      <4>1. running' = [running EXCEPT ![c] = NoTask] /\ running[c] # NoTask
        BY <2>2, <3>1 DEF TypeOK, ShutdownInv, EnqueueThrows, CanCall
      <4> QED BY <2>2, <3>1, <4>1 DEF EnqueueThrows, Abstract!Finish
    <3>2. CASE c \notin Workers
      <4>1. running' = running
        BY <2>2, <3>2 DEF TypeOK, EnqueueThrows
      <4> QED BY <2>2, <4>1 DEF EnqueueThrows
    <3> QED BY <3>1, <3>2
  <2>3. ASSUME NEW c \in Callers, SafeQuit(c) PROVE Abstract!Close
    BY <2>3 DEF SafeQuit, Abstract!Close
  <2>4. ASSUME NEW w \in Workers, WorkerTake(w) PROVE Abstract!Begin
    BY <2>4 DEF TypeOK, ShutdownInv, WorkerTake, Abstract!Begin
  <2>5. ASSUME NEW w \in Workers, WorkerFinish(w) PROVE Abstract!Finish
    BY <2>5 DEF ShutdownInv, WorkerFinish, Abstract!Finish
  <2>6. \/ \E c \in Callers, t \in Tasks : Enqueue(c, t) \/ EnqueueThrows(c, t)
        \/ \E c \in Callers : SafeQuit(c)
        \/ \E w \in Workers : WorkerTake(w) \/ WorkerFinish(w)
        \/ UNCHANGED Abstract!vars
    BY DEF Next, Call, Notify, Loop, NotifyOne, NotifyAll, WorkerExit, WorkerWait,
           SpuriousWakeup, Join, vars
  <2> QED BY <2>1, <2>2, <2>3, <2>4, <2>5, <2>6 DEF Abstract!Next
<1>3. Init => ShutdownInv
  BY DEF Init, ShutdownInv
<1> QED BY <1>1, <1>2, <1>3, ShutdownStep, TypeCorrect, PTL DEF Safety, Abstract!Safety
=============================================================================
