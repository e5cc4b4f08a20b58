-------------------------- MODULE MicControlProofs --------------------------
(***************************************************************************)
(* main() never waits for a report of readiness that was already used up,  *)
(* for any number of events and changes of the network.                    *)
(***************************************************************************)
EXTENDS MicControl, TLAPS

IInv == TypeOK /\ ReadyIsSeen

-----------------------------------------------------------------------------
(* Sequences: what is in a queue stays in it until it is its head.         *)

LEMMA InAppended ==
  ASSUME NEW S, NEW s \in Seq(S), NEW e \in S, NEW f \in S
  PROVE  /\ InSeq(f, Append(s, f))
         /\ InSeq(e, s) => InSeq(e, Append(s, f))
<1>1. Append(s, f)[Len(s) + 1] = f /\ Len(s) + 1 \in DOMAIN Append(s, f)
  OBVIOUS
<1>2. ASSUME NEW i \in DOMAIN s PROVE i \in DOMAIN Append(s, f) /\ Append(s, f)[i] = s[i]
  OBVIOUS
<1> QED BY <1>1, <1>2 DEF InSeq

LEMMA InTail ==
  ASSUME NEW S, NEW s \in Seq(S), s # <<>>, NEW e, InSeq(e, s), Head(s) # e
  PROVE  InSeq(e, Tail(s))
<1>1. PICK i \in DOMAIN s : s[i] = e
  BY DEF InSeq
<1>2. i \in 1..Len(s) /\ i # 1
  BY <1>1
<1>3. i - 1 \in DOMAIN Tail(s) /\ Tail(s)[i - 1] = s[i]
  BY <1>2
<1> QED BY <1>1, <1>3 DEF InSeq

LEMMA InSingle == InSeq("stop", <<"stop">>)
<1>1. 1 \in DOMAIN <<"stop">> /\ <<"stop">>[1] = "stop"
  OBVIOUS
<1> QED BY <1>1 DEF InSeq

-----------------------------------------------------------------------------
LEMMA InitInv == Init => IInv
<1> SUFFICES ASSUME Init PROVE IInv
  OBVIOUS
<1>1. TypeOK
  <2>1. hasNetwork \in BOOLEAN /\ stopAuthCodePlayer \in BOOLEAN /\ asked \in BOOLEAN
    BY DEF Init
  <2>2. restartChannel \in Seq(Requests) /\ inbox \in Seq(Events)
        /\ commands \in Seq({"start", "stop"})
    BY DEF Init
  <2> QED BY <2>1, <2>2, ControlAssumption DEF Init, TypeOK
<1>2. ReadyIsSeen
  BY InSingle DEF Init, ReadyIsSeen
<1> QED BY <1>1, <1>2 DEF IInv

(* The types, action by action.                                            *)
LEMMA StepType == TypeOK /\ [Next]_vars => TypeOK'
<1> SUFFICES ASSUME TypeOK, [Next]_vars PROVE TypeOK'
  OBVIOUS
<1> USE ControlAssumption
<1> USE DEF TypeOK, Requests, Events, mainVars, authVars, counters
<1>1. CASE Booted
  BY <1>1 DEF Booted
<1>2. CASE LeaveWaitStart
  BY <1>2 DEF LeaveWaitStart
<1>3. CASE TakeRequest
  BY <1>3 DEF TakeRequest
<1>4. CASE StopApp
  BY <1>4 DEF StopApp
<1>5. CASE StartAgain
  BY <1>5 DEF StartAgain
<1>6. CASE StopCapture
  BY <1>6 DEF StopCapture, Take, Due
<1>7. CASE AuthOK
  <2>1. asked' \in BOOLEAN /\ stopAuthCodePlayer' \in BOOLEAN
    BY <1>7 DEF AuthOK
  <2> QED BY <1>7, <2>1 DEF AuthOK, Take, Due
<1>8. CASE AuthError
  <2>1. asked' \in BOOLEAN /\ stopAuthCodePlayer' \in BOOLEAN
    BY <1>8 DEF AuthError
  <2> QED BY <1>8, <2>1 DEF AuthError, Take, Due
<1>9. CASE TokenExpired
  BY <1>9 DEF TokenExpired, Take, Due
<1>10. CASE RevokeAuth
  BY <1>10 DEF RevokeAuth, Take, Due, Request
<1>11. CASE FactoryReset
  BY <1>11 DEF FactoryReset, Take, Due
<1>12. CASE Welcomed
  BY <1>12 DEF Welcomed
<1>13. CASE RequestNetConfig
  BY <1>13 DEF RequestNetConfig, Request
<1>14. CASE PlayAuthCode
  <2>1. asked' \in BOOLEAN /\ stopAuthCodePlayer' \in BOOLEAN
    BY <1>14 DEF PlayAuthCode
  <2> QED BY <1>14, <2>1 DEF PlayAuthCode, Due
<1>15. CASE PlayerEnds
  BY <1>15 DEF PlayerEnds
<1>16. CASE NetworkStatusChanged
  BY <1>16 DEF NetworkStatusChanged
<1>17. CASE RunCommand
  BY <1>17 DEF RunCommand
<1>18. CASE AppEnds
  BY <1>18 DEF AppEnds
<1>19. CASE App
  <2>1. CASE AppExits
    BY <2>1 DEF AppExits
  <2>2. CASE AppBoots
    BY <2>2 DEF AppBoots
  <2>3. ASSUME NEW e \in Events, NEW from, NEW to \in {"up", "auth", "ready"},
               AppReports(e, from, to)
        PROVE  TypeOK'
    BY <2>3 DEF AppReports
  <2> QED BY <1>19, <2>1, <2>2, <2>3 DEF App
<1>20. CASE UNCHANGED vars
  BY <1>20 DEF vars
<1> QED
  BY <1>1, <1>2, <1>3, <1>4, <1>5, <1>6, <1>7, <1>8, <1>9, <1>10, <1>11, <1>12, <1>13,
     <1>14, <1>15, <1>16, <1>17, <1>18, <1>19, <1>20 DEF Next, Main, Receiver

(* ReadyIsSeen: the END of a booted app leaves the socket only to become   *)
(* the welcome, and a stop leaves the queue only by ending the app.        *)
LEMMA StepReady == IInv /\ [Next]_vars => ReadyIsSeen'
<1> SUFFICES ASSUME IInv, [Next]_vars PROVE ReadyIsSeen'
  OBVIOUS
<1> USE ControlAssumption
<1> USE DEF IInv, ReadyIsSeen, mainVars, authVars, counters
<1> DEFINE Cmds == {"start", "stop"}
<1>a. /\ inbox \in Seq(Events) /\ commands \in Seq(Cmds)
      /\ "END" \in Events /\ "stop" \in Cmds /\ "start" \in Cmds
  BY DEF TypeOK, Events
<1>b. /\ InSeq("stop", Append(commands, "stop"))
      /\ InSeq("stop", commands) => InSeq("stop", Append(commands, "start"))
  BY <1>a, InAppended
<1>c. ASSUME NEW e \in Events, inbox' = Append(inbox, e)
      PROVE  /\ InSeq("END", inbox) => InSeq("END", inbox')
             /\ e = "END" => InSeq("END", inbox')
  BY <1>a, <1>c, InAppended
<1>d. ASSUME NEW e, Due(e), e # "END", inbox' = Tail(inbox), InSeq("END", inbox)
      PROVE  InSeq("END", inbox')
  BY <1>a, <1>d, InTail DEF Due
<1>1. CASE Booted
  BY <1>1 DEF Booted
<1>2. CASE LeaveWaitStart
  BY <1>2 DEF LeaveWaitStart
<1>3. CASE TakeRequest
  BY <1>3 DEF TakeRequest
<1>4. CASE StopApp
  BY <1>4, <1>b DEF StopApp
<1>5. CASE StartAgain
  BY <1>5, <1>b DEF StartAgain
<1>6. CASE StopCapture
  BY <1>6 DEF StopCapture, Take, Due, TypeOK
<1>7. CASE AuthOK
  BY <1>7, <1>d DEF AuthOK, Take, Due
<1>8. CASE AuthError
  BY <1>8, <1>b DEF AuthError, Take
<1>9. CASE TokenExpired
  BY <1>9 DEF TokenExpired
<1>10. CASE RevokeAuth
  BY <1>10, <1>d DEF RevokeAuth, Take, Due
<1>11. CASE FactoryReset
  BY <1>11, <1>d DEF FactoryReset, Take, Due
<1>12. CASE Welcomed
  BY <1>12 DEF Welcomed
<1>13. CASE RequestNetConfig
  BY <1>13 DEF RequestNetConfig
<1>14. CASE PlayAuthCode
  BY <1>14, <1>d DEF PlayAuthCode, Due
<1>15. CASE PlayerEnds
  BY <1>15 DEF PlayerEnds
<1>16. CASE NetworkStatusChanged
  BY <1>16, <1>b DEF NetworkStatusChanged
<1>17. CASE RunCommand
  <2>1. CASE Head(commands) = "stop"
    BY <1>17, <2>1 DEF RunCommand, Live
  <2>2. CASE Head(commands) # "stop"
    <3>1. InSeq("stop", commands) => InSeq("stop", Tail(commands))
      BY <1>17, <2>2, <1>a, InTail DEF RunCommand
    <3> QED BY <1>17, <2>2, <3>1 DEF RunCommand
  <2> QED BY <2>1, <2>2
<1>18. CASE AppEnds
  BY <1>18 DEF AppEnds
<1>19. CASE AppExits
  BY <1>19 DEF AppExits
<1>20. CASE AppBoots
  BY <1>20, <1>c, <1>a DEF AppBoots
<1>21. ASSUME NEW e \in Events, NEW from, NEW to, AppReports(e, from, to),
              to = "ready" => from = {"ready"}
       PROVE  ReadyIsSeen'
  BY <1>21, <1>c DEF AppReports
<1>22. CASE App
  BY <1>19, <1>20, <1>21, <1>22 DEF App, Events
<1>23. CASE UNCHANGED vars
  BY <1>23 DEF vars
<1> QED
  BY <1>1, <1>2, <1>3, <1>4, <1>5, <1>6, <1>7, <1>8, <1>9, <1>10, <1>11, <1>12, <1>13,
     <1>14, <1>15, <1>16, <1>17, <1>18, <1>22, <1>23 DEF Next, Main, Receiver

-----------------------------------------------------------------------------
LEMMA Invariance == Spec => []IInv
<1>1. IInv /\ [Next]_vars => IInv'
  BY StepType, StepReady DEF IInv
<1> QED BY InitInv, <1>1, PTL DEF Spec

(* Every variable of MicControl keeps its type; nothing is in the pipe     *)
(* before main() has made it.                                              *)
THEOREM TypeCorrect == Spec => []TypeOK
<1>1. IInv => TypeOK
  BY DEF IInv
<1> QED BY Invariance, <1>1, PTL

(* An app that has booted while firstDialogState says otherwise is about   *)
(* to be noticed or to be stopped (MicAgent.cpp lines 70-78, 433-471).     *)
THEOREM ReadinessIsSeen == Spec => []ReadyIsSeen
<1>1. IInv => ReadyIsSeen
  BY DEF IInv
<1> QED BY Invariance, <1>1, PTL

-----------------------------------------------------------------------------
(* The umbrella as AppHost: queue and app move only as AppHost lets them.  *)
LEMMA HostQueue ==
  TypeOK /\ [Next]_vars =>
    \/ UNCHANGED <<commands, app>>
    \/ UNCHANGED app /\ \E c \in {"start", "stop"} : commands' = Append(commands, c)
    \/ RunCommand \/ AppEnds \/ App
  BY DEF Next, Main, Booted, LeaveWaitStart, TakeRequest, StopApp, StartAgain, Receiver,
         StopCapture, AuthOK, AuthError, TokenExpired, RevokeAuth, FactoryReset, Take,
         Welcomed, RequestNetConfig, PlayAuthCode, PlayerEnds, NetworkStatusChanged, vars,
         mainVars, authVars, counters

LEMMA HostRun == TypeOK /\ RunCommand => Host!Command
<1> SUFFICES ASSUME TypeOK, RunCommand PROVE Host!Command
  OBVIOUS
<1> USE DEF Host!Command, Host!Deal, RunCommand, AppSeen, Live, TypeOK
<1>1. Head(commands) \in {"start", "stop"}
  OBVIOUS
<1>2. CASE Head(commands) = "stop"
  BY <1>2 DEF Host!Stop
<1>3. CASE Head(commands) = "start" /\ app = "none"
  BY <1>3 DEF Host!Start
<1>4. CASE Head(commands) = "start" /\ app # "none"
  BY <1>4 DEF Host!StartIsLost
<1> QED BY <1>1, <1>2, <1>3, <1>4

LEMMA HostApp == TypeOK /\ App => [Host!Exit]_<<commands, AppSeen, TRUE>>
<1> SUFFICES ASSUME TypeOK, App PROVE Host!Exit \/ UNCHANGED <<commands, AppSeen>>
  OBVIOUS
<1> USE DEF AppSeen, Live
<1>1. CASE AppExits
  BY <1>1 DEF AppExits, Host!Exit
<1>2. CASE AppBoots
  BY <1>2 DEF AppBoots
<1>3. ASSUME NEW e, NEW from \in SUBSET {"up", "auth", "ready"},
             NEW to \in {"up", "auth", "ready"}, AppReports(e, from, to)
      PROVE  UNCHANGED <<commands, AppSeen>>
  BY <1>3 DEF AppReports
<1> QED BY <1>1, <1>2, <1>3 DEF App

(* What MicControl takes the umbrella to do is what AppHost promises, and  *)
(* Umbrella is shown to keep (IFLYOSUmbrella.cpp lines 38-82).             *)
THEOREM AssumesAppHost == Spec => Host!Safety
<1>1. Init => Host!Init
  BY DEF Init, Host!Init, AppSeen, Live
<1>2. TypeOK /\ [Next]_vars => [Host!Next]_(Host!vars)
  <2> SUFFICES ASSUME TypeOK, [Next]_vars PROVE [Host!Next]_(Host!vars)
    OBVIOUS
  <2> USE DEF Host!vars, Host!Next
  <2>1. CASE UNCHANGED <<commands, app>>
    BY <2>1 DEF AppSeen, Live
  <2>2. CASE UNCHANGED app /\ \E c \in {"start", "stop"} : commands' = Append(commands, c)
    BY <2>2 DEF AppSeen, Live, Host!Receive
  <2>3. CASE RunCommand
    BY <2>3, HostRun
  <2>4. CASE AppEnds
    BY <2>4 DEF AppEnds, AppSeen, Live, Host!Forget
  <2>5. CASE App
    BY <2>5, HostApp
  <2> QED BY <2>1, <2>2, <2>3, <2>4, <2>5, HostQueue
<1> QED BY <1>1, <1>2, TypeCorrect, PTL DEF Spec, Host!Safety
=============================================================================
