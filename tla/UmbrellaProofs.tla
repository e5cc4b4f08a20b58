--------------------------- MODULE UmbrellaProofs ---------------------------
(***************************************************************************)
(* The safety of the umbrella, for any number of commands.  The argument:  *)
(* only the latest attempt can have a process or a busy monitor thread,    *)
(* and from its fork until its "exited" task has run iflyosPid is not 0,   *)
(* because exactly one of the monitor thread and the queue holds the       *)
(* report of its end.                                                      *)
(***************************************************************************)
EXTENDS Umbrella, SequenceTheorems, TLAPS

NoReport  == \A i \in 1..Len(exector) : exector[i] # "exited"
OneReport == \A i, j \in 1..Len(exector) :
                exector[i] = "exited" /\ exector[j] = "exited" => i = j

\* The monitor thread of n still has to report.
Busy(n) == monitor[n] \in {"waiting", "returned"}

UmbrellaInv ==
  /\ iflyosPid \in {-1, 0, forks}
  /\ \A n \in Attempts : Unreaped(n) => monitor[n] = "waiting" /\ iflyosPid = n
  /\ \A n \in Attempts : Busy(n) => n = forks /\ NoReport
  /\ iflyosPid = 0 => NoReport /\ \A n \in Attempts : ~Busy(n)
  /\ OneReport
  /\ StoppedOncePerStart

LEMMA TakeQueue ==
  ASSUME TypeOK, NEW t, Take(t)
  PROVE  /\ exector' \in Seq({"start", "stop", "exited"})
         /\ NoReport => NoReport'
         /\ OneReport => OneReport'
         /\ t = "exited" => ~NoReport /\ (OneReport => NoReport')
<1>1. /\ Len(exector) \in Nat \ {0} /\ exector[1] = t
      /\ exector' \in Seq({"start", "stop", "exited"})
      /\ Len(exector') = Len(exector) - 1
      /\ \A i \in 1..Len(exector') : exector'[i] = exector[i + 1]
  BY HeadTailProperties, EmptySeq DEF TypeOK, Take
<1>2. \A i \in 1..Len(exector') : i + 1 \in 1..Len(exector) /\ i + 1 # 1
  BY <1>1
<1>3. 1 \in 1..Len(exector)
  BY <1>1
<1> QED BY <1>1, <1>2, <1>3 DEF NoReport, OneReport

LEMMA AppendQueue ==
  ASSUME TypeOK, NEW t \in {"start", "stop", "exited"},
         exector' = Append(exector, t)
  PROVE  /\ exector' \in Seq({"start", "stop", "exited"})
         /\ t # "exited" => (NoReport => NoReport') /\ (OneReport => OneReport')
         /\ NoReport => OneReport'
<1>1. /\ Len(exector) \in Nat
      /\ exector' \in Seq({"start", "stop", "exited"})
      /\ Len(exector') = Len(exector) + 1
      /\ \A i \in 1..Len(exector) : exector'[i] = exector[i]
      /\ exector'[Len(exector) + 1] = t
  BY AppendProperties, LenProperties DEF TypeOK
<1> QED BY <1>1 DEF NoReport, OneReport

-----------------------------------------------------------------------------
\* The state has its types.
THEOREM TypeCorrect == Safety => []TypeOK
<1>1. Init => TypeOK
  <2>1. 0 \in 0..MaxCommands
    BY CommandsAssumption
  <2>2. <<>> \in Seq({"start", "stop", "exited"})
    BY EmptySeq
  <2>3. 0 \in {-1, 0} \cup Attempts
    OBVIOUS
  <2>4. /\ [n \in Attempts |-> "none"]
             \in [Attempts -> {"none", "forked", "running", "zombie", "reaped"}]
        /\ [n \in Attempts |-> "none"]
             \in [Attempts -> {"none", "waiting", "returned", "done"}]
    OBVIOUS
  <2> SUFFICES ASSUME Init PROVE TypeOK
    OBVIOUS
  <2>5. forks \in 0..MaxCommands /\ commands \in 0..MaxCommands /\ stopped \in Nat
    BY <2>1 DEF Init
  <2>6. closed \in BOOLEAN /\ up \in BOOLEAN /\ termed \in SUBSET Attempts
    BY DEF Init
  <2>7. child \in [Attempts -> {"none", "forked", "running", "zombie", "reaped"}]
    BY <2>4 DEF Init
  <2>8. monitor \in [Attempts -> {"none", "waiting", "returned", "done"}]
    BY <2>4 DEF Init
  <2> QED BY <2>2, <2>3, <2>5, <2>6, <2>7, <2>8 DEF Init, TypeOK
<1>2. TypeOK /\ [Next]_vars => TypeOK'
  <2> SUFFICES ASSUME TypeOK, [Next]_vars PROVE TypeOK'
    OBVIOUS
  <2>1. ASSUME NEW c \in {"start", "stop"}, Command(c) PROVE TypeOK'
    <3>1. exector' \in Seq({"start", "stop", "exited"})
      BY <2>1, AppendQueue DEF TypeOK, Command
    <3>2. commands' \in 0..MaxCommands
      BY <2>1, CommandsAssumption DEF TypeOK, Command
    <3> QED BY <2>1, <3>1, <3>2 DEF TypeOK, Command
  <2>2. CASE Quit
    BY <2>2 DEF TypeOK, Quit
  <2>3. CASE MainReturns
    BY <2>3 DEF TypeOK, MainReturns
  <2>4. CASE StartIgnored
    BY <2>4, TakeQueue DEF TypeOK, StartIgnored
  <2>5. ASSUME NEW pid, NEW state, Fork(pid, state),
               \/ pid = forks + 1 /\ state = "forked"
               \/ pid = -1 /\ state = "none"
        PROVE  TypeOK'
    <3>1. forks + 1 \in Attempts /\ forks + 1 \in 0..MaxCommands
      BY <2>5, CommandsAssumption DEF TypeOK, Fork, Attempts
    <3>2. pid \in {-1, 0} \cup Attempts /\ state \in {"forked", "none"}
      BY <2>5, <3>1
    <3> QED BY <2>5, <3>1, <3>2, TakeQueue DEF TypeOK, Fork
  <2>6. CASE RunStop
    BY <2>6, TakeQueue DEF TypeOK, RunStop
  <2>7. CASE RunExited
    BY <2>7, TakeQueue DEF TypeOK, RunExited
  <2>8. ASSUME NEW n \in Attempts, NEW s \in {"running", "zombie"}, Becomes(n, s)
        PROVE  TypeOK'
    BY <2>8 DEF TypeOK, Becomes
  <2>9. ASSUME NEW n \in Attempts, MonitorWait(n) PROVE TypeOK'
    BY <2>9 DEF TypeOK, MonitorWait
  <2>10. ASSUME NEW n \in Attempts, MonitorEnqueue(n) PROVE TypeOK'
    BY <2>10, AppendQueue DEF TypeOK, MonitorEnqueue
  <2>11. CASE UNCHANGED vars
    BY <2>11 DEF TypeOK, vars
  <2> QED
    BY <2>1, <2>2, <2>3, <2>4, <2>5, <2>6, <2>7, <2>8, <2>9, <2>10, <2>11
       DEF Next, RunTask, RunStart, ChildExec, ChildExits, ChildTerminates, Monitor
<1> QED BY <1>1, <1>2, PTL DEF Safety

-----------------------------------------------------------------------------
LEMMA UmbrellaStep == TypeOK /\ UmbrellaInv /\ [Next]_vars => UmbrellaInv'
<1> SUFFICES ASSUME TypeOK, UmbrellaInv, [Next]_vars PROVE UmbrellaInv'
  OBVIOUS
<1> USE DEF TypeOK, UmbrellaInv, StoppedOncePerStart, Unreaped, Busy
<1>1. ASSUME NEW c \in {"start", "stop"}, Command(c) PROVE UmbrellaInv'
  <2>1. (NoReport => NoReport') /\ OneReport'
    <3>1. CASE closed
      BY <1>1, <3>1 DEF Command, NoReport, OneReport
    <3>2. CASE ~closed
      BY <1>1, <3>2, AppendQueue DEF Command
    <3> QED BY <3>1, <3>2
  <2> QED BY <1>1, <2>1 DEF Command
<1>2. ASSUME UNCHANGED <<exector, iflyosPid, forks, child, monitor, stopped>>
      PROVE  UmbrellaInv'
  BY <1>2 DEF NoReport, OneReport
<1>3. CASE StartIgnored
  BY <1>3, TakeQueue DEF StartIgnored
<1>4. ASSUME NEW pid, NEW state, Fork(pid, state),
             \/ pid = forks + 1 /\ state = "forked"
             \/ pid = -1 /\ state = "none"
      PROVE  UmbrellaInv'
  <2>1. forks + 1 \in Attempts /\ forks \in Nat
    BY <1>4, CommandsAssumption DEF Fork, Attempts
  <2>2. NoReport' /\ OneReport' /\ iflyosPid = 0 /\ iflyosPid' = pid /\ pid # 0
    BY <1>4, <2>1, TakeQueue DEF Fork
  <2>3. \A n \in Attempts : /\ child'[n] = IF n = forks + 1 THEN state ELSE child[n]
                            /\ monitor'[n] = IF n = forks + 1 THEN "waiting" ELSE monitor[n]
    BY <1>4, <2>1 DEF Fork
  <2>4. \A n \in Attempts : ~Busy(n) /\ ~Unreaped(n)
    BY <2>2
  <2>5. \A n \in Attempts : Unreaped(n)' => monitor'[n] = "waiting" /\ iflyosPid' = n
    BY <1>4, <2>2, <2>3, <2>4
  <2>6. \A n \in Attempts : Busy(n)' => n = forks' /\ NoReport'
    BY <1>4, <2>2, <2>3, <2>4 DEF Fork
  <2>7. StoppedOncePerStart'
    BY <1>4, <2>1, <2>2 DEF Fork
  <2> QED BY <1>4, <2>2, <2>5, <2>6, <2>7 DEF Fork
<1>5. CASE RunStop
  BY <1>5, TakeQueue DEF RunStop
<1>6. CASE RunExited
  <2>1. ~NoReport /\ NoReport' /\ OneReport'
    BY <1>6, TakeQueue DEF RunExited
  <2>2. \A n \in Attempts : ~Busy(n) /\ ~Unreaped(n)
    BY <2>1
  <2>3. StoppedOncePerStart'
    BY <1>6, <2>1 DEF RunExited
  <2> QED BY <1>6, <2>1, <2>2, <2>3 DEF RunExited
<1>7. ASSUME NEW n \in Attempts, NEW s \in {"running", "zombie"},
             Alive(n), Becomes(n, s)
      PROVE  UmbrellaInv'
  BY <1>7 DEF Alive, Becomes, NoReport, OneReport
<1>8. ASSUME NEW n \in Attempts, MonitorWait(n) PROVE UmbrellaInv'
  <2>1. n = forks /\ \A m \in Attempts : Unreaped(m) => m = n
    BY <1>8 DEF MonitorWait
  <2>2. \A m \in Attempts : ~Unreaped(m)'
    BY <1>8, <2>1 DEF MonitorWait
  <2>3. NoReport' /\ OneReport'
    BY <1>8 DEF MonitorWait, NoReport, OneReport
  <2> QED BY <1>8, <2>2, <2>3 DEF MonitorWait
<1>9. ASSUME NEW n \in Attempts, MonitorEnqueue(n) PROVE UmbrellaInv'
  <2>1. n = forks /\ NoReport /\ iflyosPid # 0 /\ monitor'[n] = "done"
    BY <1>9 DEF MonitorEnqueue
  <2>2. \A m \in Attempts : ~Unreaped(m)' /\ ~Busy(m)'
    BY <1>9, <2>1 DEF MonitorEnqueue
  <2>3. OneReport'
    <3>1. CASE closed
      BY <1>9, <3>1 DEF MonitorEnqueue, OneReport
    <3>2. CASE ~closed
      BY <1>9, <2>1, <3>2, AppendQueue DEF MonitorEnqueue
    <3> QED BY <3>1, <3>2
  <2> QED BY <1>9, <2>1, <2>2, <2>3 DEF MonitorEnqueue
<1> HIDE DEF TypeOK, UmbrellaInv, StoppedOncePerStart, Unreaped, Busy
<1> QED
  BY <1>1, <1>2, <1>3, <1>4, <1>5, <1>6, <1>7, <1>8, <1>9
     DEF Alive, Next, Quit, MainReturns, RunTask, RunStart, ChildExec, ChildExits,
         ChildTerminates, Monitor, vars

LEMMA UmbrellaInvariant == Safety => [](TypeOK /\ UmbrellaInv)
<1>1. Init => UmbrellaInv
  BY DEF Init, UmbrellaInv, StoppedOncePerStart, Unreaped, Busy, NoReport, OneReport
<1> QED BY <1>1, UmbrellaStep, TypeCorrect, PTL DEF Safety

\* At most one app process exists at a time, whatever commands and exits do.
THEOREM OneApp == Safety => []AtMostOneApp
<1>1. UmbrellaInv => AtMostOneApp
  BY DEF UmbrellaInv, AtMostOneApp
<1> QED BY <1>1, UmbrellaInvariant, PTL

\* iflyosPid is the pid of the app as long as its process exists.
THEOREM PidIsCurrent == Safety => []PidNamesApp
<1>1. UmbrellaInv => PidNamesApp
  BY DEF UmbrellaInv, PidNamesApp
<1> QED BY <1>1, UmbrellaInvariant, PTL

\* Every fork is answered by exactly one EVT_STOPPED before the next fork.
THEOREM OneStoppedPerStart == Safety => []StoppedOncePerStart
<1>1. UmbrellaInv => StoppedOncePerStart
  BY DEF UmbrellaInv
<1> QED BY <1>1, UmbrellaInvariant, PTL

\* EVT_STOPPED is sent only when no app process is left.
THEOREM StoppedWhenDown == Safety => StoppedOnlyWhenDown
<1>1. TypeOK /\ UmbrellaInv /\ [Next]_vars
        => [stopped' # stopped => \A n \in Attempts : ~Unreaped(n)]_vars
  <2> SUFFICES ASSUME TypeOK, UmbrellaInv, [Next]_vars, stopped' # stopped
               PROVE  \A n \in Attempts : ~Unreaped(n)
    OBVIOUS
  <2>1. RunExited
    BY DEF Next, Command, Quit, MainReturns, RunTask, StartIgnored, RunStart, Fork,
           RunStop, ChildExec, ChildExits, ChildTerminates, Becomes, Monitor,
           MonitorWait, MonitorEnqueue, vars
  <2>2. ~NoReport
    BY <2>1, TakeQueue DEF RunExited
  <2> QED BY <2>2 DEF UmbrellaInv, Busy
<1> QED BY <1>1, UmbrellaInvariant, PTL DEF Safety, StoppedOnlyWhenDown

-----------------------------------------------------------------------------
(* The refinement of AppHost.  The queue first: CommandsIn(q) is q without *)
(* the report at r, or q itself when r lies behind its end.                *)
Tasks == {"start", "stop", "exited"}

Once(q) == \A i, j \in 1..Len(q) : q[i] = "exited" /\ q[j] = "exited" => i = j

\* c is q without its r-th task, which is the report, or c is q.
Omits(q, r, c) ==
  /\ \A i \in 1..Len(q) : q[i] = "exited" <=> i = r
  /\ Len(c) = IF r <= Len(q) THEN Len(q) - 1 ELSE Len(q)
  /\ \A k \in 1..Len(c) : c[k] = IF k < r THEN q[k] ELSE q[k + 1]

LEMMA CommandsShape ==
  ASSUME NEW q \in Seq(Tasks), Once(q)
  PROVE  /\ CommandsIn(q) \in Seq({"start", "stop"})
         /\ \E r \in 1..Len(q) + 1 : Omits(q, r, CommandsIn(q))
<1> USE DEF Omits
<1>0. Len(q) \in Nat /\ \A i \in 1..Len(q) : q[i] \in Tasks
  BY ElementOfSeq, LenProperties
<1>1. CASE Reports(q) = {}
  <2>1. CommandsIn(q) = q /\ \A i \in 1..Len(q) : q[i] # "exited"
    BY <1>1 DEF CommandsIn, Reports
  <2>2. q \in Seq({"start", "stop"})
    BY <1>0, <2>1, LenProperties DEF Tasks
  <2> QED BY <1>0, <2>1, <2>2
<1>2. CASE Reports(q) # {}
  <2> DEFINE r == CHOOSE i \in Reports(q) : TRUE
  <2>1. r \in 1..Len(q) /\ q[r] = "exited"
    BY <1>2 DEF Reports
  <2>2. \A i \in 1..Len(q) : q[i] = "exited" <=> i = r
    BY <2>1 DEF Once
  <2> DEFINE c == [k \in 1..Len(q) - 1 |-> IF k < r THEN q[k] ELSE q[k + 1]]
  <2>3. CommandsIn(q) = c
    BY <1>2 DEF CommandsIn
  <2> HIDE DEF r
  <2>4. Len(q) - 1 \in Nat /\ \A k \in 1..Len(q) - 1 : c[k] \in {"start", "stop"}
    BY <1>0, <2>1, <2>2 DEF Tasks
  <2>5. c \in Seq({"start", "stop"}) /\ Len(c) = Len(q) - 1
    BY <2>4
  <2> HIDE DEF c
  <2>6. \A k \in 1..Len(c) : c[k] = IF k < r THEN q[k] ELSE q[k + 1]
    BY <2>4, <2>5 DEF c
  <2> QED BY <1>0, <2>1, <2>2, <2>3, <2>5, <2>6
<1> QED BY <1>1, <1>2

LEMMA CommandsAre ==
  ASSUME NEW q \in Seq(Tasks), Once(q), NEW c \in Seq({"start", "stop"}),
         NEW r \in 1..Len(q) + 1, Omits(q, r, c)
  PROVE  CommandsIn(q) = c
<1>1. PICK s \in 1..Len(q) + 1 : Omits(q, s, CommandsIn(q))
  BY CommandsShape
<1>2. Len(q) \in Nat
  BY LenProperties
<1>3. r = s
  BY <1>1, <1>2 DEF Omits
<1>4. CommandsIn(q) \in Seq({"start", "stop"})
  BY CommandsShape
<1> QED BY <1>1, <1>3, <1>4, SeqEqual DEF Omits

LEMMA CommandTaken ==
  ASSUME NEW q \in Seq(Tasks), Once(q), q # <<>>, Head(q) # "exited"
  PROVE  /\ CommandsIn(q) # <<>> /\ Head(CommandsIn(q)) = Head(q)
         /\ CommandsIn(Tail(q)) = Tail(CommandsIn(q))
<1> DEFINE c == CommandsIn(q)
           tq == Tail(q)
           tc == Tail(c)
<1>1. PICK r \in 1..Len(q) + 1 : Omits(q, r, c)
  BY CommandsShape
<1>2. c \in Seq({"start", "stop"})
  BY CommandsShape
<1> HIDE DEF c
<1>3. /\ Len(q) \in Nat \ {0} /\ tq \in Seq(Tasks) /\ Len(tq) = Len(q) - 1
      /\ \A i \in 1..Len(q) - 1 : tq[i] = q[i + 1]
  BY EmptySeq, HeadTailProperties
<1>4. q[1] = Head(q) /\ 1 \in 1..Len(q) /\ r \in Nat
  BY <1>3
<1>5. r > 1
  BY <1>1, <1>4 DEF Omits
<1>6. Len(c) \in Nat \ {0}
  <2>1. Len(c) = IF r <= Len(q) THEN Len(q) - 1 ELSE Len(q)
    BY <1>1 DEF Omits
  <2>2. CASE r <= Len(q)
    <3>1. Len(c) = Len(q) - 1 /\ Len(q) > 1
      BY <1>3, <1>4, <1>5, <2>1, <2>2
    <3> HIDE DEF c
    <3> QED BY <1>3, <3>1
  <2>3. CASE ~(r <= Len(q))
    BY <1>3, <2>1, <2>3
  <2> QED BY <2>2, <2>3
<1>7. c # <<>> /\ Head(c) = Head(q)
  BY <1>1, <1>2, <1>4, <1>5, <1>6 DEF Omits
<1>8. tc \in Seq({"start", "stop"}) /\ Len(tc) = Len(c) - 1
      /\ \A i \in 1..Len(c) - 1 : tc[i] = c[i + 1]
  BY <1>2, <1>7, HeadTailProperties
<1> HIDE DEF tq, tc
<1>9. Omits(tq, r - 1, tc)
  <2>1. \A i \in 1..Len(q) - 1 : tq[i] = "exited" <=> i = r - 1
    BY <1>1, <1>3, <1>4 DEF Omits
  <2>2. Len(tc) = IF r - 1 <= Len(q) - 1 THEN Len(q) - 2 ELSE Len(q) - 1
    BY <1>1, <1>3, <1>4, <1>8 DEF Omits
  <2>3. \A k \in 1..Len(tc) : tc[k] = IF k < r - 1 THEN tq[k] ELSE tq[k + 1]
    <3> SUFFICES ASSUME NEW k \in 1..Len(tc)
                 PROVE  tc[k] = IF k < r - 1 THEN tq[k] ELSE tq[k + 1]
      OBVIOUS
    <3>1. tc[k] = c[k + 1] /\ k + 1 \in 1..Len(c)
      BY <1>6, <1>8
    <3>2. c[k + 1] = IF k + 1 < r THEN q[k + 1] ELSE q[k + 2]
      BY <1>1, <3>1 DEF Omits
    <3>3. CASE k + 1 < r
      BY <1>3, <1>4, <3>1, <3>2, <3>3
    <3>4. CASE ~(k + 1 < r)
      <4>1. k + 1 \in 1..Len(q) - 1
        BY <1>1, <1>3, <1>4, <3>1, <3>4 DEF Omits
      <4> QED BY <1>3, <1>4, <3>1, <3>2, <3>4, <4>1
    <3> QED BY <3>3, <3>4
  <2> QED BY <1>3, <1>4, <2>1, <2>2, <2>3 DEF Omits
<1>10. Once(tq) /\ r - 1 \in 1..Len(tq) + 1
  BY <1>3, <1>4, <1>5, <1>9 DEF Omits, Once
<1>11. CommandsIn(tq) = tc
  BY <1>3, <1>8, <1>9, <1>10, CommandsAre
<1> QED BY <1>7, <1>11 DEF c, tq, tc

LEMMA ReportTaken ==
  ASSUME NEW q \in Seq(Tasks), Once(q), q # <<>>, Head(q) = "exited"
  PROVE  CommandsIn(Tail(q)) = CommandsIn(q)
<1> DEFINE c == CommandsIn(q)
           tq == Tail(q)
<1>1. PICK r \in 1..Len(q) + 1 : Omits(q, r, c)
  BY CommandsShape
<1>2. c \in Seq({"start", "stop"})
  BY CommandsShape
<1> HIDE DEF c
<1>3. /\ Len(q) \in Nat \ {0} /\ tq \in Seq(Tasks) /\ Len(tq) = Len(q) - 1
      /\ \A i \in 1..Len(q) - 1 : tq[i] = q[i + 1]
  BY EmptySeq, HeadTailProperties
<1>4. q[1] = "exited" /\ 1 \in 1..Len(q)
  BY <1>3
<1> HIDE DEF tq
<1>5. r = 1 /\ Len(c) = Len(q) - 1
  BY <1>1, <1>3, <1>4 DEF Omits
<1>6. \A k \in 1..Len(c) : c[k] = tq[k]
  BY <1>1, <1>3, <1>5 DEF Omits
<1>7. \A i \in 1..Len(tq) : tq[i] # "exited"
  BY <1>1, <1>3, <1>5 DEF Omits
<1>8. Once(tq) /\ Omits(tq, Len(q), c) /\ Len(q) \in 1..Len(tq) + 1
  BY <1>3, <1>5, <1>6, <1>7 DEF Once, Omits
<1>9. CommandsIn(tq) = c
  BY <1>2, <1>3, <1>8, CommandsAre
<1> QED BY <1>9 DEF c, tq

LEMMA CommandQueued ==
  ASSUME NEW q \in Seq(Tasks), Once(q), NEW e \in {"start", "stop"}
  PROVE  CommandsIn(Append(q, e)) = Append(CommandsIn(q), e)
<1> DEFINE c == CommandsIn(q)
<1>1. PICK r \in 1..Len(q) + 1 : Omits(q, r, c)
  BY CommandsShape
<1>2. c \in Seq({"start", "stop"})
  BY CommandsShape
<1> HIDE DEF c
<1> DEFINE qe == Append(q, e)
           ce == Append(c, e)
<1>3. /\ Len(q) \in Nat /\ qe \in Seq(Tasks) /\ Len(qe) = Len(q) + 1
      /\ \A i \in 1..Len(q) : qe[i] = q[i]
      /\ qe[Len(q) + 1] = e
  BY AppendProperties, LenProperties DEF Tasks
<1>4. /\ Len(c) \in Nat /\ ce \in Seq({"start", "stop"}) /\ Len(ce) = Len(c) + 1
      /\ \A i \in 1..Len(c) : ce[i] = c[i]
      /\ ce[Len(c) + 1] = e
  BY <1>2, AppendProperties, LenProperties
<1> HIDE DEF qe, ce
<1>5. Once(qe)
  BY <1>3 DEF Once
<1>6. CASE r <= Len(q)
  <2>1. Omits(qe, r, ce)
    <3>1. Len(c) = Len(q) - 1 /\ ce[Len(q)] = e /\ qe[Len(q) + 1] = e
      BY <1>1, <1>3, <1>4, <1>6 DEF Omits
    <3>2. \A k \in 1..Len(ce) : ce[k] = IF k < r THEN qe[k] ELSE qe[k + 1]
      BY <1>1, <1>3, <1>4, <1>6, <3>1 DEF Omits
    <3>3. \A i \in 1..Len(qe) : qe[i] = "exited" <=> i = r
      BY <1>1, <1>3, <1>6 DEF Omits
    <3> QED BY <1>3, <1>4, <1>6, <3>1, <3>2, <3>3 DEF Omits
  <2>2. r \in 1..Len(qe) + 1
    BY <1>3, <1>6
  <2> QED BY <1>3, <1>4, <1>5, <2>1, <2>2, CommandsAre DEF qe, ce, c
<1>7. CASE r = Len(q) + 1
  <2>1. Omits(qe, r + 1, ce)
    BY <1>1, <1>3, <1>4, <1>7 DEF Omits
  <2>2. r + 1 \in 1..Len(qe) + 1
    BY <1>3, <1>7
  <2> QED BY <1>3, <1>4, <1>5, <2>1, <2>2, CommandsAre DEF qe, ce, c
<1> QED BY <1>3, <1>6, <1>7

LEMMA ReportQueued ==
  ASSUME NEW q \in Seq(Tasks), \A i \in 1..Len(q) : q[i] # "exited"
  PROVE  CommandsIn(Append(q, "exited")) = CommandsIn(q)
<1> DEFINE c == CommandsIn(q)
           qe == Append(q, "exited")
<1>0. Once(q)
  BY DEF Once
<1>1. PICK r \in 1..Len(q) + 1 : Omits(q, r, c)
  BY <1>0, CommandsShape
<1>2. c \in Seq({"start", "stop"})
  BY <1>0, CommandsShape
<1> HIDE DEF c
<1>3. /\ Len(q) \in Nat /\ qe \in Seq(Tasks) /\ Len(qe) = Len(q) + 1
      /\ \A i \in 1..Len(q) : qe[i] = q[i]
      /\ qe[Len(q) + 1] = "exited"
  BY AppendProperties, LenProperties DEF Tasks
<1> HIDE DEF qe
<1>4. r = Len(q) + 1 /\ Len(c) = Len(q)
  BY <1>1, <1>3 DEF Omits
<1>5. Once(qe) /\ Omits(qe, r, c) /\ r \in 1..Len(qe) + 1
  BY <1>1, <1>3, <1>4 DEF Once, Omits
<1> QED BY <1>2, <1>3, <1>5, CommandsAre DEF c, qe

-----------------------------------------------------------------------------
(* The app as clients see it: how the tasks and the processes move it.     *)
LEMMA SeenAfterStop ==
  ASSUME TypeOK, UmbrellaInv, RunStop
  PROVE  AppSeen' = IF AppSeen = "live" THEN "ending" ELSE AppSeen
<1>1. /\ iflyosPid' = iflyosPid /\ UNCHANGED child
      /\ termed' = termed \cup {n \in Attempts : Unreaped(n) /\ iflyosPid \in {-1, n}}
  BY DEF RunStop
<1>2. ~Serving'
  BY <1>1 DEF Serving, Alive, Unreaped
<1> QED BY <1>1, <1>2 DEF AppSeen

LEMMA SeenAfterChild ==
  ASSUME TypeOK, NEW n \in Attempts, NEW s \in {"running", "zombie"}, Alive(n),
         Becomes(n, s)
  PROVE  AppSeen' = AppSeen \/ (AppSeen = "live" /\ AppSeen' = "ending")
<1>1. UNCHANGED <<iflyosPid, termed>> /\ child' = [child EXCEPT ![n] = s]
  BY DEF Becomes
<1>2. Serving' => Serving
  BY <1>1 DEF Serving, Alive, TypeOK
<1> QED BY <1>1, <1>2 DEF AppSeen

LEMMA SeenAtReport ==
  ASSUME TypeOK, UmbrellaInv, RunExited
  PROVE  AppSeen = "ending" /\ AppSeen' = "none"
<1>1. ~NoReport
  BY TakeQueue DEF RunExited
<1>2. iflyosPid # 0 /\ \A n \in Attempts : ~Unreaped(n)
  BY <1>1 DEF UmbrellaInv, Busy
<1> QED BY <1>2 DEF RunExited, AppSeen, Serving, Alive, Unreaped

LEMMA QueueIsProper ==
  ASSUME TypeOK, UmbrellaInv
  PROVE  exector \in Seq(Tasks) /\ Once(exector)
BY DEF TypeOK, UmbrellaInv, OneReport, Once, Tasks

(* Every step of the umbrella is one that AppHost allows, or none.         *)
LEMMA HostStep ==
  TypeOK /\ UmbrellaInv /\ [Next]_vars => [Host!Next]_(Host!vars)
<1> SUFFICES ASSUME TypeOK, UmbrellaInv, [Next]_vars PROVE [Host!Next]_(Host!vars)
  OBVIOUS
<1>0. exector \in Seq(Tasks) /\ Once(exector)
  BY QueueIsProper
<1> DEFINE C == CommandsIn(exector)
<1>q. UNCHANGED exector => UNCHANGED C
  OBVIOUS
<1>t. ASSUME NEW c \in {"start", "stop"}, Take(c)
      PROVE  up /\ C # <<>> /\ Head(C) = c /\ C' = Tail(C)
  BY <1>0, <1>t, CommandTaken DEF Take
<1>s. UNCHANGED <<iflyosPid, child, termed>> => UNCHANGED AppSeen
  BY DEF AppSeen, Serving, Alive
<1> HIDE DEF C
<1>1. ASSUME NEW c \in {"start", "stop"}, Command(c) PROVE Host!Receive \/ Host!Down
  <2>1. CASE closed
    BY <1>1, <1>q, <1>s, <2>1 DEF Command, Host!Down, C
  <2>2. CASE ~closed
    <3>1. C' = Append(C, c)
      BY <1>0, <1>1, <2>2, CommandQueued DEF Command, C
    <3> QED BY <1>1, <1>s, <2>2, <3>1 DEF Command, Host!Receive, C
  <2> QED BY <2>1, <2>2
<1>2. ASSUME Quit PROVE UNCHANGED Host!vars
  BY <1>2, <1>q, <1>s DEF Quit, Host!vars, C
<1>3. ASSUME MainReturns PROVE Host!Down
  BY <1>3, <1>q, <1>s DEF MainReturns, Host!Down, C
<1>4. ASSUME StartIgnored PROVE Host!StartIsLost
  <2>1. AppSeen # "none" /\ UNCHANGED AppSeen
    BY <1>4, <1>s DEF StartIgnored, AppSeen
  <2> QED BY <1>4, <1>t, <2>1 DEF StartIgnored, Host!StartIsLost, Host!Deal, C
<1>5. ASSUME NEW pid, NEW state, Fork(pid, state), pid = forks + 1 \/ pid = -1
      PROVE  Host!Start
  <2>1. AppSeen = "none" /\ AppSeen' \in {"live", "ending"}
    BY <1>5 DEF Fork, AppSeen, TypeOK
  <2> QED BY <1>5, <1>t, <2>1 DEF Fork, Host!Start, Host!Deal, C
<1>6. ASSUME RunStop PROVE Host!Stop
  BY <1>6, <1>t, SeenAfterStop DEF RunStop, Host!Stop, Host!Deal, C
<1>7. ASSUME RunExited PROVE Host!Forget
  <2>1. UNCHANGED C
    BY <1>0, <1>7, ReportTaken DEF RunExited, Take, C
  <2> QED BY <1>7, <2>1, SeenAtReport DEF RunExited, Take, Host!Forget, C
<1>8. ASSUME NEW n \in Attempts, NEW s \in {"running", "zombie"}, Alive(n), Becomes(n, s)
      PROVE  Host!Exit \/ UNCHANGED Host!vars
  BY <1>8, <1>q, SeenAfterChild DEF Becomes, Host!Exit, Host!vars, C
<1>9. ASSUME NEW n \in Attempts, MonitorWait(n) PROVE UNCHANGED Host!vars
  <2>1. Serving' = Serving
    BY <1>9 DEF MonitorWait, Serving, Alive, TypeOK
  <2> QED BY <1>9, <1>q, <2>1 DEF MonitorWait, AppSeen, Host!vars, C
<1>10. ASSUME NEW n \in Attempts, MonitorEnqueue(n)
       PROVE  Host!Down \/ UNCHANGED Host!vars
  <2>1. NoReport /\ UNCHANGED AppSeen
    BY <1>10, <1>s DEF MonitorEnqueue, UmbrellaInv, Busy
  <2>2. CASE closed
    BY <1>10, <1>q, <2>1, <2>2 DEF MonitorEnqueue, Host!Down, C
  <2>3. CASE ~closed
    <3>1. UNCHANGED C
      BY <1>0, <1>10, <2>1, <2>3, ReportQueued DEF MonitorEnqueue, NoReport, C
    <3> QED BY <1>10, <2>1, <2>3, <3>1 DEF MonitorEnqueue, Host!vars, C
  <2> QED BY <2>2, <2>3
<1>11. ASSUME UNCHANGED vars PROVE UNCHANGED Host!vars
  BY <1>11, <1>q, <1>s DEF vars, Host!vars, C
<1> USE DEF Host!Next, Host!Command
<1>12. CASE RunTask
  BY <1>4, <1>5, <1>6, <1>7, <1>12 DEF RunTask, RunStart
<1>13. ASSUME NEW n \in Attempts, ChildExec(n) \/ ChildExits(n) \/ ChildTerminates(n)
       PROVE  Host!Exit \/ UNCHANGED Host!vars
  BY <1>8, <1>13 DEF ChildExec, ChildExits, ChildTerminates, Alive
<1> QED
  BY <1>1, <1>2, <1>3, <1>9, <1>10, <1>11, <1>12, <1>13 DEF Next, Monitor

\* Whatever commands, exits, failed forks and the end of the umbrella do, those
\* who send DO_START and DO_STOP see what AppHost promises (lines 38 to 82).
THEOREM Refinement == Safety => Host!Safety
<1>1. Init => Host!Init
  <2> SUFFICES ASSUME Init PROVE Host!Init
    OBVIOUS
  <2>1. CommandsIn(exector) = <<>>
    BY DEF Init, CommandsIn, Reports
  <2>2. <<>> \in Seq({"start", "stop"})
    BY EmptySeq
  <2> QED BY <2>1, <2>2 DEF Init, AppSeen, Host!Init
<1> QED BY <1>1, HostStep, UmbrellaInvariant, PTL DEF Safety, Host!Safety
=============================================================================
