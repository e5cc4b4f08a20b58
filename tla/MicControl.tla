----------------------------- MODULE MicControl -----------------------------
(***************************************************************************)
(* What makes MicAgent restart the IFLYOS app (MicAgent/MicAgent.cpp,      *)
(* syskey.cpp): handlers of the app's events write one byte to the pipe    *)
(* restartChannel, main() reads it in its key loop, and between two apps   *)
(* main() waits in WAIT_START for firstDialogState.  The observer of the   *)
(* network starts and stops the same app from a third thread; threads that *)
(* play the authorisation code end by a flag.                              *)
(*                                                                         *)
(* The umbrella is reduced to what its clients see of it (AppHost): a      *)
(* DO_START while an app or its end is not dealt with is dropped.  The app *)
(* is external.  The recorder and the dialog are in Recorder, MicDialog.   *)
(***************************************************************************)
EXTENDS Naturals, Sequences

CONSTANTS MaxEvents,  \* bound: events the app sends, boot reports not counted
          MaxChanges  \* bound: changes of the network

ASSUME ControlAssumption == MaxEvents \in Nat /\ MaxChanges \in Nat

Requests == {"NET_CONFIG", "NO_NET_CONFIG"}
Events == {"END", "AUTH_REQUIRED", "AUTH_OK", "AUTH_ERROR", "TOKEN_EXPIRED", "REVOKE",
           "FACTORY_RESET"}

VARIABLES
  main, firstDialogState,
  restartChannel,  \* bytes in the pipe, which main() makes when it has booted
  recv,            \* where the receiver is: the handler that sleeps or plays
  inbox,           \* events in the socket of MicAgent
  hasNetwork,
  players, stopAuthCodePlayer,
  commands,        \* in the umbrella's queue
  app,             \* external: the app the umbrella has started
  asked,           \* history: an authorisation code waits for its result
  events, changes  \* counted against the bounds

mainVars == <<main, firstDialogState>>
authVars == <<players, stopAuthCodePlayer, asked>>
counters == <<events, changes>>
vars == <<mainVars, restartChannel, recv, inbox, hasNetwork, authVars, commands,
          app, counters>>

TypeOK ==
  /\ main \in {"boot", "waitStart", "keys", "restart", "netConfig", "down"}
  /\ firstDialogState \in {"NOT_START", "STARTED"}
  /\ restartChannel \in Seq(Requests) /\ (main = "boot" => restartChannel = <<>>)
  /\ recv \in {"idle", "welcome", "expired", "authError", "factory"}
  /\ inbox \in Seq(Events) /\ hasNetwork \in BOOLEAN
  /\ players \in Nat /\ stopAuthCodePlayer \in BOOLEAN
  /\ commands \in Seq({"start", "stop"})
  /\ app \in {"none", "up", "auth", "ready", "ending"}
  /\ asked \in BOOLEAN
  /\ events \in 0..MaxEvents /\ changes \in 0..MaxChanges

\* Line 392: an app that was left over is stopped.
Init ==
  /\ main = "boot" /\ firstDialogState = "NOT_START" /\ restartChannel = <<>>
  /\ recv = "idle" /\ inbox = <<>> /\ hasNetwork = FALSE
  /\ players = 0 /\ stopAuthCodePlayer = FALSE
  /\ commands = <<"stop">> /\ app \in {"none", "ready"}
  /\ asked = FALSE /\ events = 0 /\ changes = 0

\* Mutant: the write before main() has booted is kept.
RequestAlways(r) == restartChannel' = Append(restartChannel, r)

\* write() to the pipe; before main() has made it the byte is lost.
Request(r) ==
  restartChannel' = IF main = "boot" THEN restartChannel ELSE Append(restartChannel, r)
-----------------------------------------------------------------------------
(* main().                                                                 *)

\* Lines 397 to 427: it waits for the network for a while, then makes the pipe.
Booted ==
  /\ main = "boot" /\ main' = "waitStart"
  /\ UNCHANGED <<firstDialogState, restartChannel, recv, inbox, hasNetwork, authVars,
                 commands, app, counters>>

LeaveWaitStart ==
  /\ main = "waitStart" /\ firstDialogState = "STARTED" /\ main' = "keys"
  /\ UNCHANGED <<firstDialogState, restartChannel, recv, inbox, hasNetwork, authVars,
                 commands, app, counters>>

\* SYSKey_getKeyVaule(): a byte of the pipe is a key.
TakeRequest ==
  /\ main = "keys" /\ restartChannel # <<>>
  /\ restartChannel' = Tail(restartChannel)
  /\ main' = IF Head(restartChannel) = "NET_CONFIG" THEN "netConfig" ELSE "restart"
  /\ firstDialogState' = "NOT_START"
  /\ UNCHANGED <<recv, inbox, hasNetwork, authVars, commands, app, counters>>

\* The recorder is stopped first: the old app still reports meanwhile.
StopApp ==
  /\ main \in {"restart", "netConfig"} /\ main' = "down"
  /\ commands' = Append(commands, "stop")
  /\ UNCHANGED <<firstDialogState, restartChannel, recv, inbox, hasNetwork, authVars,
                 app, counters>>

\* Mutant: firstDialogState is reset when the new app is asked for.
StartAgainResets ==
  /\ main = "down" /\ main' = "waitStart" /\ firstDialogState' = "NOT_START"
  /\ commands' = Append(commands, "start")
  /\ UNCHANGED <<restartChannel, recv, inbox, hasNetwork, authVars, app, counters>>

\* After setNetwork(), or five seconds, the app is started again.
StartAgain ==
  /\ main = "down" /\ main' = "waitStart"
  /\ commands' = Append(commands, "start")
  /\ UNCHANGED <<firstDialogState, restartChannel, recv, inbox, hasNetwork, authVars,
                 app, counters>>

Main == Booted \/ LeaveWaitStart \/ TakeRequest \/ StopApp \/ StartAgain

-----------------------------------------------------------------------------
(* The receiver: one handler at a time.                                    *)

Due(e) == recv = "idle" /\ inbox # <<>> /\ Head(inbox) = e

Take(e) ==
  /\ Due(e) /\ inbox' = Tail(inbox)
  /\ UNCHANGED <<main, hasNetwork, players, app, counters>>

\* stopCapture(): the first END since a restart plays the welcome.
StopCapture ==
  /\ Take("END")
  /\ recv' = IF firstDialogState = "NOT_START" THEN "welcome" ELSE "idle"
  /\ UNCHANGED <<firstDialogState, restartChannel, stopAuthCodePlayer, asked, commands>>

AuthOK ==
  /\ Take("AUTH_OK") /\ stopAuthCodePlayer' = TRUE /\ asked' = FALSE
  /\ UNCHANGED <<firstDialogState, restartChannel, recv, commands>>

\* Mutant: the player is not told to end.
AuthErrorPlaysOn ==
  /\ Take("AUTH_ERROR") /\ asked' = FALSE
  /\ commands' = Append(commands, "stop") /\ recv' = "authError"
  /\ UNCHANGED <<firstDialogState, restartChannel, stopAuthCodePlayer>>

AuthError ==
  /\ Take("AUTH_ERROR") /\ stopAuthCodePlayer' = TRUE /\ asked' = FALSE
  /\ commands' = Append(commands, "stop") /\ recv' = "authError"
  /\ UNCHANGED <<firstDialogState, restartChannel>>

\* Mutant: firstDialogState is left alone.
TokenExpiredWaits ==
  /\ Take("TOKEN_EXPIRED") /\ recv' = "expired"
  /\ UNCHANGED <<firstDialogState, restartChannel, stopAuthCodePlayer, asked, commands>>

TokenExpired ==
  /\ Take("TOKEN_EXPIRED") /\ firstDialogState' = "STARTED" /\ recv' = "expired"
  /\ UNCHANGED <<restartChannel, stopAuthCodePlayer, asked, commands>>

RevokeAuth ==
  /\ Take("REVOKE") /\ Request("NO_NET_CONFIG")
  /\ UNCHANGED <<firstDialogState, recv, stopAuthCodePlayer, asked, commands>>

\* DO_CLEAR_DATA_THEN_QUIT goes to the app, which is external.
FactoryReset ==
  /\ Take("FACTORY_RESET") /\ recv' = "factory"
  /\ UNCHANGED <<firstDialogState, restartChannel, stopAuthCodePlayer, asked, commands>>

\* The ends of the handlers that play a sound or sleep.
Welcomed ==
  /\ recv = "welcome" /\ recv' = "idle" /\ firstDialogState' = "STARTED"
  /\ UNCHANGED <<main, restartChannel, inbox, hasNetwork, authVars, commands, app, counters>>

RequestNetConfig ==
  /\ recv \in {"expired", "authError", "factory"} /\ recv' = "idle"
  /\ Request("NET_CONFIG")
  /\ UNCHANGED <<mainVars, inbox, hasNetwork, authVars, commands, app, counters>>

\* playAuthCode(): a new thread; the flag that ends threads is reset.
PlayAuthCode ==
  /\ Due("AUTH_REQUIRED") /\ inbox' = Tail(inbox)
  /\ stopAuthCodePlayer' = FALSE /\ players' = players + 1 /\ asked' = TRUE
  /\ UNCHANGED <<mainVars, restartChannel, recv, hasNetwork, commands, app, counters>>

Receiver == \/ StopCapture \/ AuthOK \/ AuthError \/ TokenExpired \/ RevokeAuth
            \/ FactoryReset \/ Welcomed \/ RequestNetConfig \/ PlayAuthCode

\* A player looks at the flag every ten seconds.
PlayerEnds ==
  /\ players > 0 /\ stopAuthCodePlayer /\ players' = players - 1
  /\ UNCHANGED <<mainVars, restartChannel, recv, inbox, hasNetwork, stopAuthCodePlayer,
                 asked, commands, app, counters>>

\* The observer: the app is stopped without a network and started with one.
NetworkStatusChanged ==
  /\ changes < MaxChanges /\ changes' = changes + 1
  /\ hasNetwork' = ~hasNetwork
  /\ commands' = Append(commands, IF hasNetwork THEN "stop" ELSE "start")
  /\ UNCHANGED <<mainVars, restartChannel, recv, inbox, authVars, app, events>>

-----------------------------------------------------------------------------
(* External: the umbrella and the app.                                     *)

Live == app \in {"up", "auth", "ready"}

RunCommand ==
  /\ commands # <<>> /\ commands' = Tail(commands)
  /\ app' = CASE Head(commands) = "stop" /\ Live -> "ending"
              [] Head(commands) = "start" /\ app = "none" -> "up"
              [] OTHER -> app
  /\ UNCHANGED <<mainVars, restartChannel, recv, inbox, hasNetwork, authVars, counters>>

\* An ending app is gone once the umbrella has forgotten its pid.
AppEnds ==
  /\ app = "ending" /\ app' = "none"
  /\ UNCHANGED <<mainVars, restartChannel, recv, inbox, hasNetwork, authVars, commands,
                 counters>>

AppExits ==
  /\ Live /\ app' = "ending"
  /\ UNCHANGED <<mainVars, restartChannel, recv, inbox, hasNetwork, authVars, commands,
                 counters>>

AppBoots ==
  /\ app = "up" /\ app' = "ready" /\ inbox' = Append(inbox, "END")
  /\ UNCHANGED <<mainVars, restartChannel, recv, hasNetwork, authVars, commands, counters>>

\* An app may need to be authorised before it boots, and again at any time.
AppReports(e, from, to) ==
  /\ events < MaxEvents /\ events' = events + 1
  /\ app \in from /\ app' = to /\ inbox' = Append(inbox, e)
  /\ UNCHANGED <<mainVars, restartChannel, recv, hasNetwork, authVars, commands, changes>>

App == \/ AppExits \/ AppBoots
       \/ AppReports("AUTH_REQUIRED", {"up", "auth"}, "auth")
       \/ AppReports("AUTH_OK", {"auth"}, "up")
       \/ AppReports("AUTH_ERROR", {"auth"}, "auth")
       \/ AppReports("TOKEN_EXPIRED", {"up", "ready"}, "auth")
       \/ \E e \in {"END", "REVOKE", "FACTORY_RESET"} : AppReports(e, {"ready"}, "ready")

Next == \/ Main \/ Receiver \/ PlayerEnds \/ NetworkStatusChanged
        \/ RunCommand \/ AppEnds \/ App

\* Threads run and a stopped app ends; the app and the network are bound to
\* nothing else.
Spec == /\ Init /\ [][Next]_vars
        /\ WF_vars(Main) /\ WF_vars(Receiver) /\ WF_vars(PlayerEnds)
        /\ WF_vars(RunCommand) /\ WF_vars(AppEnds)

-----------------------------------------------------------------------------
(* The umbrella assumed here is the one that module Umbrella implements.   *)

AppSeen == IF Live THEN "live" ELSE app

Host == INSTANCE AppHost WITH app <- AppSeen, up <- TRUE

InSeq(e, s) == \E i \in DOMAIN s : s[i] = e

\* While firstDialogState says that no app has started, an app that has booted
\* is about to be noticed or to be stopped: main() never waits for an END that
\* was already used up (lines 70 to 78, 433 against 456 and 466).
ReadyIsSeen ==
  app = "ready" /\ firstDialogState = "NOT_START" =>
    \/ InSeq("END", inbox) \/ recv = "welcome"
    \/ main \in {"restart", "netConfig"} \/ InSeq("stop", commands)

\* Once a token has expired main() restarts the app, also when it was still
\* waiting in WAIT_START for the app to boot (lines 121 to 128, 433, 464): an
\* app without a token never boots.  An older request is excluded: it restarts
\* the app instead, whose DO_START the umbrella may drop; and so is the time
\* before the pipe is made, when the request is lost.
ExpiryIsActedUpon ==
  (main # "boot" /\ restartChannel = <<>> /\ Due("TOKEN_EXPIRED"))
    ~> main \in {"restart", "netConfig"}

\* No authorisation code is played for long after its result, unless there is
\* a new one (lines 183 to 201).
PlayersEnd == ~asked ~> (players = 0 \/ asked)

\* IFLYOSInterface.h:94, a server error of the authorisation: the app has to be
\* started again, for which lines 199 to 205 ask main().
AuthErrorIsActedUpon ==
  (recv = "authError" /\ main # "boot") ~> main \in {"restart", "netConfig"}
=============================================================================
