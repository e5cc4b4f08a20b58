------------------------------ MODULE AppHost ------------------------------
(***************************************************************************)
(* What the umbrella promises to those who send it DO_START and DO_STOP,   *)
(* without its tasks, pids, forks and monitor threads: commands are dealt  *)
(* with one by one in the order of their arrival; a stop ends the app that *)
(* lives; a start makes an app only where there is none, not even one that *)
(* has ended and is not forgotten yet, and is lost otherwise; and an app   *)
(* that has ended is forgotten as long as the umbrella is up.              *)
(***************************************************************************)
EXTENDS Sequences

VARIABLES commands,  \* received and not dealt with, oldest first
          app,       \* none; live; ending: to end, or ended and not forgotten
          up         \* the umbrella itself

vars == <<commands, app, up>>

Init == /\ commands \in Seq({"start", "stop"})
        /\ app \in {"none", "live", "ending"}
        /\ up = TRUE

Receive == /\ up
           /\ \E c \in {"start", "stop"} : commands' = Append(commands, c)
           /\ UNCHANGED <<app, up>>

Deal(c) == /\ up /\ commands # <<>> /\ Head(commands) = c
           /\ commands' = Tail(commands)
           /\ UNCHANGED up

\* The new app may fail at once.
Start == Deal("start") /\ app = "none" /\ app' \in {"live", "ending"}

StartIsLost == Deal("start") /\ app # "none" /\ UNCHANGED app

Stop == Deal("stop") /\ app' = IF app = "live" THEN "ending" ELSE app

Exit == app = "live" /\ app' = "ending" /\ UNCHANGED <<commands, up>>

Forget == up /\ app = "ending" /\ app' = "none" /\ UNCHANGED <<commands, up>>

\* Quit, or ended by an exception; an app that lives is left alone.
Down == up /\ up' = FALSE /\ UNCHANGED <<commands, app>>

Command == Start \/ StartIsLost \/ Stop

Next == Receive \/ Command \/ Exit \/ Forget \/ Down

Safety == Init /\ [][Next]_vars

Spec == Safety /\ WF_vars(Command) /\ WF_vars(Forget)
=============================================================================
