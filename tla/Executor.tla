------------------------------ MODULE Executor ------------------------------
(***************************************************************************)
(* What a user of ThreadPool may rely on, without its mutex, its condition *)
(* variable and its wake-ups: tasks begin in the order in which they were  *)
(* submitted, each at most once, on one of the pool's Slots; nothing can   *)
(* be submitted once the pool is closed; and, as long as a slot is free,   *)
(* the oldest waiting task does begin.                                     *)
(***************************************************************************)
EXTENDS Sequences, Naturals

CONSTANTS Slots,   \* the workers of the pool
          Tasks,   \* the packaged tasks ever handed to it
          NoTask   \* what a free slot holds

VARIABLES queue,   \* submitted and not begun, oldest first
          slot,    \* the task each slot runs
          closed   \* safeQuit() was called

vars == <<queue, slot, closed>>

Init == /\ queue = <<>>
        /\ slot = [s \in Slots |-> NoTask]
        /\ closed = FALSE

Submit == /\ ~closed
          /\ \E t \in Tasks : queue' = Append(queue, t)
          /\ UNCHANGED <<slot, closed>>

Begin == /\ queue # <<>>
         /\ \E s \in Slots :
               /\ slot[s] = NoTask
               /\ slot' = [slot EXCEPT ![s] = Head(queue)]
         /\ queue' = Tail(queue)
         /\ UNCHANGED closed

Finish == /\ \E s \in Slots : /\ slot[s] # NoTask
                              /\ slot' = [slot EXCEPT ![s] = NoTask]
          /\ UNCHANGED <<queue, closed>>

Close == closed' = TRUE /\ UNCHANGED <<queue, slot>>

Next == Submit \/ Begin \/ Finish \/ Close

Safety == Init /\ [][Next]_vars

\* A task may block for ever (MicAgent opens a FIFO in one), so only Begin is
\* promised.
Spec == Safety /\ WF_vars(Begin)
=============================================================================
