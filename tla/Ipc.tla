-------------------------------- MODULE Ipc ---------------------------------
(***************************************************************************)
(* The IPC library (IFLYOSInterface/src/IFLYOSInterface.cpp) in the three  *)
(* kinds of process that link it: the umbrella, which routes everything;   *)
(* its clients (MicAgent, media players), which register for events and    *)
(* send actions; and the IFLYOS app (external).  Each owns one UNIX        *)
(* datagram socket: a queue of bounded length, on which a sender blocks    *)
(* while it is full, and which dies with its process.  One receiver thread *)
(* per process reads it and runs the handlers, which may send.             *)
(*                                                                         *)
(* The events of the app are numbered; all clients register for them.      *)
(* Handlers of the umbrella's own (DO_START ...) are in module Umbrella.   *)
(***************************************************************************)
EXTENDS Naturals, Sequences, FiniteSets

CONSTANTS NumClients,  \* clients, numbered as std::set orders their addresses
          Repliers,    \* clients some of whose handlers send an action
          QueueLen,    \* datagrams a socket holds
          MaxEvents,   \* bound: events the app sends
          MaxActions,  \* bound: actions sent by other threads of the clients
          MaxBoots,    \* bound: starts of one client
          UmbrellaBoots  \* bound: starts of the umbrella

Clients == 1..NumClients

ASSUME IpcAssumption ==
  /\ NumClients \in Nat /\ Repliers \subseteq Clients
  /\ QueueLen \in Nat \ {0}
  /\ MaxEvents \in Nat /\ MaxActions \in Nat
  /\ MaxBoots \in Nat /\ UmbrellaBoots \in Nat

VARIABLES
  umbrella,   \* "down"; "bound": its receiver runs; "ready": it handles registrations
  receivers,  \* the clients registered in it
  uq,         \* its socket
  toApp,      \* its receiver is passing an action on to the app
  fwdEvent, todo,  \* ... or this event on to these clients
  client,     \* "down"; "bound": its receiver runs; "handling": its handlers
              \* are set; "running": Init() has returned 0
  cq,         \* the socket of each client
  handler,    \* what the receiver of each client does
  aq,         \* actions in the app's socket
  sent,       \* events the app has sent
  actions, uboots, boots,  \* counted against the bounds
  delivered,  \* history: the events each client's handlers were called with
  unhandled   \* history: an event was dropped for want of a handler

umbrellaVars == <<umbrella, receivers, uq, toApp, fwdEvent, todo, uboots>>
clientVars == <<client, cq, handler, boots, delivered, unhandled>>
vars == <<umbrellaVars, clientVars, aq, sent, actions>>

Events == 1..MaxEvents

Registration(c) == [type |-> "REG", client |-> c]
Action          == [type |-> "DO"]
Event(n)        == [type |-> "EVT", number |-> n]

Messages == {Registration(c) : c \in Clients} \cup {Action}
              \cup {Event(n) : n \in Events}

TypeOK ==
  /\ umbrella \in {"down", "bound", "ready"}
  /\ receivers \in SUBSET Clients
  /\ uq \in Seq(Messages) /\ Len(uq) <= QueueLen
  /\ toApp \in BOOLEAN
  /\ fwdEvent \in 0..MaxEvents /\ todo \in SUBSET Clients
  /\ toApp => todo = {}   \* the receiver passes on one message at a time
  /\ client \in [Clients -> {"down", "bound", "handling", "running"}]
  /\ cq \in [Clients -> Seq(Events)] /\ \A c \in Clients : Len(cq[c]) <= QueueLen
  /\ handler \in [Clients -> {"idle", "sending"}]
  /\ aq \in 0..QueueLen
  /\ sent \in 0..MaxEvents /\ actions \in 0..MaxActions
  /\ uboots \in 0..UmbrellaBoots /\ boots \in [Clients -> 0..MaxBoots]
  /\ delivered \in [Clients -> Seq(Events)]
  /\ unhandled \in [Clients -> BOOLEAN]

Init ==
  /\ umbrella = "down" /\ receivers = {} /\ uq = <<>>
  /\ toApp = FALSE /\ fwdEvent = 0 /\ todo = {}
  /\ client = [c \in Clients |-> "down"]
  /\ cq = [c \in Clients |-> <<>>]
  /\ handler = [c \in Clients |-> "idle"]
  /\ aq = 0 /\ sent = 0 /\ actions = 0
  /\ uboots = 0 /\ boots = [c \in Clients |-> 0]
  /\ delivered = [c \in Clients |-> <<>>]
  /\ unhandled = [c \in Clients |-> FALSE]

\* sendto() the umbrella: it blocks while the socket is full; it fails, and the
\* message is lost, when there is no socket.
UmbrellaTakes(m) ==
  \/ umbrella = "down" /\ UNCHANGED uq
  \/ umbrella # "down" /\ Len(uq) < QueueLen /\ uq' = Append(uq, m)

-----------------------------------------------------------------------------
(* The umbrella.                                                           *)

\* IFLYOS_InterfaceInit() binds the socket and starts the receiver ...
UmbrellaBinds ==
  /\ umbrella = "down" /\ uboots < UmbrellaBoots
  /\ umbrella' = "bound" /\ uboots' = uboots + 1
  /\ UNCHANGED <<receivers, uq, toApp, fwdEvent, todo, clientVars, aq, sent, actions>>

\* ... and only then the handler of registrations is set.
UmbrellaReady ==
  /\ umbrella = "bound"
  /\ umbrella' = "ready"
  /\ UNCHANGED <<receivers, uq, toApp, fwdEvent, todo, uboots, clientVars, aq, sent,
                 actions>>

\* The process ends: with it its socket and its table.
UmbrellaEnds ==
  /\ umbrella # "down"
  /\ umbrella' = "down" /\ receivers' = {} /\ uq' = <<>>
  /\ toApp' = FALSE /\ fwdEvent' = 0 /\ todo' = {}
  /\ UNCHANGED <<uboots, clientVars, aq, sent, actions>>

UmbrellaIdle == umbrella # "down" /\ ~toApp /\ todo = {}

\* Mutant of UmbrellaReceives: an event is passed on to the app, too (the
\* `else` of IFLYOSInterface.cpp:147 is missing).
UmbrellaReceivesFallsThrough ==
  /\ UmbrellaIdle /\ uq # <<>>
  /\ uq' = Tail(uq)
  /\ LET m == Head(uq) IN
       \/ /\ m.type = "REG" /\ umbrella = "ready"
          /\ receivers' = receivers \cup {m.client}
          /\ UNCHANGED <<toApp, fwdEvent, todo>>
       \/ /\ m.type = "DO" \/ (m.type = "REG" /\ umbrella = "bound")
          /\ toApp' = TRUE
          /\ UNCHANGED <<receivers, fwdEvent, todo>>
       \/ /\ m.type = "EVT"
          /\ fwdEvent' = m.number /\ todo' = receivers /\ toApp' = TRUE
          /\ UNCHANGED receivers
  /\ UNCHANGED <<umbrella, uboots, clientVars, aq, sent, actions>>

\* A message without a handler is passed on: 'E...' to who registered for it,
\* anything else, an early registration included, to the app.
UmbrellaReceives ==
  /\ UmbrellaIdle /\ uq # <<>>
  /\ uq' = Tail(uq)
  /\ LET m == Head(uq) IN
       \/ /\ m.type = "REG" /\ umbrella = "ready"
          /\ receivers' = receivers \cup {m.client}
          /\ UNCHANGED <<toApp, fwdEvent, todo>>
       \/ /\ m.type = "DO" \/ (m.type = "REG" /\ umbrella = "bound")
          /\ toApp' = TRUE
          /\ UNCHANGED <<receivers, fwdEvent, todo>>
       \/ /\ m.type = "EVT"
          /\ fwdEvent' = m.number /\ todo' = receivers
          /\ UNCHANGED <<receivers, toApp>>
  /\ UNCHANGED <<umbrella, uboots, clientVars, aq, sent, actions>>

\* UmbrellaSendAction().
PassToApp ==
  /\ toApp /\ aq < QueueLen
  /\ aq' = aq + 1
  /\ toApp' = FALSE
  /\ UNCHANGED <<umbrella, receivers, uq, fwdEvent, todo, uboots, clientVars, sent,
                 actions>>

\* UmbrellaSendEvent() sends to one address after the other.
NextAddress == CHOOSE c \in todo : \A d \in todo : c <= d

\* Mutants of PassToClient: it gives up at the first address that fails; it does
\* not wait for room but comes back to a full client after the others.
PassToClientGivesUp ==
  /\ todo # {}
  /\ LET c == NextAddress IN
       IF client[c] = "down" THEN todo' = {} /\ UNCHANGED cq
       ELSE /\ Len(cq[c]) < QueueLen
            /\ cq' = [cq EXCEPT ![c] = Append(@, fwdEvent)]
            /\ todo' = todo \ {c}
  /\ UNCHANGED <<umbrella, receivers, uq, toApp, fwdEvent, uboots, client, handler,
                 boots, delivered, unhandled, aq, sent, actions>>

PassToClientRequeues ==
  /\ todo # {}
  /\ LET c == NextAddress IN
       /\ todo' = todo \ {c}
       /\ IF client[c] # "down" /\ Len(cq[c]) < QueueLen
            THEN cq' = [cq EXCEPT ![c] = Append(@, fwdEvent)] /\ UNCHANGED uq
            ELSE UNCHANGED cq /\ uq' = Append(uq, Event(fwdEvent))
  /\ UNCHANGED <<umbrella, receivers, toApp, fwdEvent, uboots, client, handler,
                 boots, delivered, unhandled, aq, sent, actions>>

PassToClient ==
  /\ todo # {}
  /\ LET c == NextAddress IN
       /\ todo' = todo \ {c}
       /\ IF client[c] = "down" THEN UNCHANGED cq
          ELSE /\ Len(cq[c]) < QueueLen
               /\ cq' = [cq EXCEPT ![c] = Append(@, fwdEvent)]
  /\ UNCHANGED <<umbrella, receivers, uq, toApp, fwdEvent, uboots, client, handler,
                 boots, delivered, unhandled, aq, sent, actions>>

-----------------------------------------------------------------------------
(* The clients.                                                            *)

\* IFLYOS_InterfaceInit(): the socket is bound and the receiver started ...
ClientBinds(c) ==
  /\ client[c] = "down" /\ boots[c] < MaxBoots
  /\ client' = [client EXCEPT ![c] = "bound"]
  /\ boots' = [boots EXCEPT ![c] = @ + 1]
  /\ UNCHANGED <<umbrellaVars, cq, handler, delivered, unhandled, aq, sent, actions>>

\* ... then the handlers are registered ...
SetHandlers(c) ==
  /\ client[c] = "bound"
  /\ client' = [client EXCEPT ![c] = "handling"]
  /\ UNCHANGED <<umbrellaVars, cq, handler, boots, delivered, unhandled, aq, sent,
                 actions>>

\* Mutant of BindEvents: the events are asked for before the handlers are set.
BindEventsEarly(c) ==
  /\ client[c] \in {"bound", "handling"}
  /\ UmbrellaTakes(Registration(c))
  /\ client' = [client EXCEPT ![c] = IF umbrella = "down" THEN "down" ELSE @]
  /\ UNCHANGED <<umbrella, receivers, toApp, fwdEvent, todo, uboots, cq, handler,
                 boots, delivered, unhandled, aq, sent, actions>>

\* ... and the umbrella is asked for their events.  When that fails so does
\* Init(), and main() returns.
BindEvents(c) ==
  /\ client[c] = "handling"
  /\ UmbrellaTakes(Registration(c))
  /\ client' = [client EXCEPT ![c] = IF umbrella = "down" THEN "down" ELSE "running"]
  /\ cq' = [cq EXCEPT ![c] = IF umbrella = "down" THEN <<>> ELSE @]
  /\ handler' = [handler EXCEPT ![c] = IF umbrella = "down" THEN "idle" ELSE @]
  /\ UNCHANGED <<umbrella, receivers, toApp, fwdEvent, todo, uboots, boots, delivered,
                 unhandled, aq, sent, actions>>

\* The receiver runs the event's handler, if there is one; it may send.
ClientReceives(c) ==
  /\ client[c] # "down" /\ handler[c] = "idle" /\ cq[c] # <<>>
  /\ cq' = [cq EXCEPT ![c] = Tail(@)]
  /\ IF client[c] = "bound"
       THEN unhandled' = [unhandled EXCEPT ![c] = TRUE] /\ UNCHANGED <<delivered, handler>>
       ELSE /\ delivered' = [delivered EXCEPT ![c] = Append(@, Head(cq[c]))]
            /\ \E h \in {"idle"} \cup (IF c \in Repliers THEN {"sending"} ELSE {}) :
                 handler' = [handler EXCEPT ![c] = h]
            /\ UNCHANGED unhandled
  /\ UNCHANGED <<umbrellaVars, client, boots, aq, sent, actions>>

\* The handler's IFLYOS_InterfaceSendEvent() returns.
HandlerSends(c) ==
  /\ handler[c] = "sending"
  /\ UmbrellaTakes(Action)
  /\ handler' = [handler EXCEPT ![c] = "idle"]
  /\ UNCHANGED <<umbrella, receivers, toApp, fwdEvent, todo, uboots, client, cq, boots,
                 delivered, unhandled, aq, sent, actions>>

\* Another thread of the client sends an action.
ClientSends(c) ==
  /\ client[c] = "running" /\ actions < MaxActions
  /\ UmbrellaTakes(Action)
  /\ actions' = actions + 1
  /\ UNCHANGED <<umbrella, receivers, toApp, fwdEvent, todo, uboots, clientVars, aq,
                 sent>>

ClientEnds(c) ==
  /\ client[c] # "down"
  /\ client' = [client EXCEPT ![c] = "down"]
  /\ cq' = [cq EXCEPT ![c] = <<>>]
  /\ handler' = [handler EXCEPT ![c] = "idle"]
  /\ UNCHANGED <<umbrellaVars, boots, delivered, unhandled, aq, sent, actions>>

-----------------------------------------------------------------------------
(* The app (external).                                                     *)

AppSends ==
  /\ sent < MaxEvents
  /\ UmbrellaTakes(Event(sent + 1))
  /\ sent' = sent + 1
  /\ UNCHANGED <<umbrella, receivers, toApp, fwdEvent, todo, uboots, clientVars, aq,
                 actions>>

AppReceives ==
  /\ aq > 0
  /\ aq' = aq - 1
  /\ UNCHANGED <<umbrellaVars, clientVars, sent, actions>>

-----------------------------------------------------------------------------
UmbrellaNext == UmbrellaReady \/ UmbrellaReceives \/ PassToApp \/ PassToClient

ClientReceiver(c) == ClientReceives(c) \/ HandlerSends(c)

Next == \/ UmbrellaNext \/ UmbrellaBinds \/ UmbrellaEnds
        \/ \E c \in Clients : \/ ClientReceiver(c) \/ ClientBinds(c) \/ SetHandlers(c)
                              \/ BindEvents(c) \/ ClientSends(c) \/ ClientEnds(c)
        \/ AppSends \/ AppReceives

\* The receiver threads are scheduled and the app reads its socket.  No process
\* need start or end, and nobody need send.
Fairness == /\ WF_vars(UmbrellaNext)
            /\ \A c \in Clients : WF_vars(ClientReceiver(c))
            /\ WF_vars(AppReceives)

Safety == Init /\ [][Next]_vars
Spec   == Safety /\ Fairness

-----------------------------------------------------------------------------
(* Properties.                                                             *)

Increasing(s) == \A i, j \in 1..Len(s) : i < j => s[i] < s[j]

\* What the umbrella's receiver has taken for client c, oldest first.
Passed(c) == delivered[c] \o cq[c] \o (IF c \in todo THEN <<fwdEvent>> ELSE <<>>)

\* Where events wait in the umbrella's socket.
QueuedEvents == {i \in 1..Len(uq) : uq[i].type = "EVT"}

\* Events reach a client in the order in which the app sent them, and none
\* twice, across full queues and restarts of the client and of the umbrella.
EventsInOrder ==
  /\ \A i, j \in QueuedEvents : i < j => uq[i].number < uq[j].number
  /\ \A c \in Clients :
       /\ Increasing(Passed(c))
       /\ \A k \in 1..Len(Passed(c)), i \in QueuedEvents : Passed(c)[k] < uq[i].number

\* Init() starts the receiver before it sets the handlers; yet the first process
\* of a client never drops an event for want of a handler, as it asks for events
\* last.
HandlersBeforeEvents ==
  \A c \in Clients : boots[c] = 1 => ~unhandled[c] /\ (client[c] = "bound" => cq[c] = <<>>)

\* The receiver of the umbrella waits for room at a client whose handler waits
\* for room at the umbrella.
CircularWait ==
  /\ todo # {} /\ Len(uq) = QueueLen
  /\ LET c == NextAddress IN /\ client[c] # "down" /\ Len(cq[c]) = QueueLen
                             /\ handler[c] = "sending"

\* An event the umbrella has got while c is registered reaches a handler of c,
\* unless one of the two ends or they wait for each other: a dead or slow
\* client does not keep the event from the others for ever.
EventArrives ==
  \A c \in Clients, n \in Events :
    (\E i \in 1..Len(uq) : uq[i] = Event(n)) /\ c \in receivers /\ client[c] = "running"
      ~> \/ \E i \in 1..Len(delivered[c]) : delivered[c][i] = n
         \/ client[c] = "down" \/ umbrella = "down" \/ CircularWait
=============================================================================
