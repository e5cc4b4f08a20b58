----------------------------- MODULE IpcProofs ------------------------------
(***************************************************************************)
(* The safety of the IPC library, for any number of clients, any length of *)
(* the sockets and any bounds: whoever starts, ends, blocks or gives up    *)
(* sending in between.                                                     *)
(***************************************************************************)
EXTENDS Ipc, WellFoundedInduction, SequenceTheorems, TLAPS

-----------------------------------------------------------------------------
(* Least numbers and queues.                                               *)

NatLess == OpToRel(<, Nat)

LEMMA NatLessIs ==
  /\ IsWellFoundedOn(NatLess, Nat)
  /\ \A k, m \in Nat : <<k, m>> \in NatLess <=> k < m
<1>1. IsWellFoundedOn(NatLess, Nat)
  BY NatLessThanWellFounded, Zenon DEF NatLess
<1>2. NatLess = {ss \in Nat \X Nat : ss[1] < ss[2]}
  BY Zenon DEF NatLess, OpToRel
<1>3. \A k, m \in Nat : <<k, m>> \in NatLess <=> k < m
  BY <1>2
<1> QED BY <1>1, <1>3

LEMMA LeastExists ==
  ASSUME NEW S \in SUBSET Nat, S # {}
  PROVE  \E m \in S : \A k \in S : m <= k
<1>1. IsWellFoundedOn(NatLess, Nat) /\ S \subseteq Nat
  BY NatLessIs
<1>2. PICK m \in S : \A k \in S : <<k, m>> \notin NatLess
  BY <1>1, WFMin
<1>3. SUFFICES ASSUME NEW k \in S PROVE m <= k
  OBVIOUS
<1>4. m \in Nat /\ k \in Nat
  OBVIOUS
<1>5. ~ (k < m)
  BY <1>2, <1>4, NatLessIs
<1> QED BY <1>4, <1>5

LEMMA NextAddressIs ==
  ASSUME todo \in SUBSET Clients, todo # {}
  PROVE  NextAddress \in todo
<1>1. todo \in SUBSET Nat
  BY IpcAssumption DEF Clients
<1>2. \E c \in todo : \A d \in todo : c <= d
  BY <1>1, LeastExists
<1> QED BY <1>2 DEF NextAddress

LEMMA Taken ==
  ASSUME NEW S, NEW q \in Seq(S), q # <<>>
  PROVE  /\ Tail(q) \in Seq(S) /\ Head(q) = q[1] /\ Head(q) \in S
         /\ Len(q) \in Nat \ {0} /\ Len(Tail(q)) = Len(q) - 1
         /\ \A i \in 1..Len(Tail(q)) : i + 1 \in 1..Len(q) /\ Tail(q)[i] = q[i + 1]
<1>1. /\ Tail(q) \in Seq(S) /\ Head(q) \in S
      /\ Len(q) \in Nat \ {0} /\ Len(Tail(q)) = Len(q) - 1
      /\ \A i \in 1..Len(Tail(q)) : Tail(q)[i] = q[i + 1]
  BY HeadTailProperties, EmptySeq
<1>2. Head(q) = q[1]
  BY DEF Head
<1> QED BY <1>1, <1>2

LEMMA Appended ==
  ASSUME NEW S, NEW q \in Seq(S), NEW m \in S
  PROVE  /\ Append(q, m) \in Seq(S)
         /\ Len(q) \in Nat /\ Len(Append(q, m)) = Len(q) + 1
         /\ \A i \in 1..Len(q) : Append(q, m)[i] = q[i]
         /\ Append(q, m)[Len(q) + 1] = m
BY AppendProperties, LenProperties

LEMMA MessageTypes ==
  /\ \A c \in Clients : /\ Registration(c) \in Messages /\ Registration(c).type = "REG"
                        /\ Registration(c).client = c
  /\ Action \in Messages /\ Action.type = "DO"
  /\ \A n \in Events : /\ Event(n) \in Messages /\ Event(n).type = "EVT"
                       /\ Event(n).number = n
  /\ \A m \in Messages : /\ m.type \in {"REG", "DO", "EVT"}
                         /\ m.type = "REG" => m.client \in Clients
                                               /\ m = Registration(m.client)
                         /\ m.type = "EVT" => m.number \in Events
<1>1. \A c \in Clients : /\ Registration(c) \in Messages /\ Registration(c).type = "REG"
                         /\ Registration(c).client = c
  BY DEF Messages, Registration
<1>2. Action \in Messages /\ Action.type = "DO"
  BY DEF Messages, Action
<1>3. \A n \in Events : /\ Event(n) \in Messages /\ Event(n).type = "EVT"
                        /\ Event(n).number = n
  BY DEF Messages, Event
<1>4. \A m \in Messages : \/ \E c \in Clients : m = Registration(c)
                          \/ m = Action
                          \/ \E n \in Events : m = Event(n)
  BY DEF Messages
<1> QED BY <1>1, <1>2, <1>3, <1>4

LEMMA UmbrellaTakesTypes ==
  ASSUME TypeOK, NEW m \in Messages, UmbrellaTakes(m)
  PROVE  uq' \in Seq(Messages) /\ Len(uq') <= QueueLen
<1>1. CASE umbrella = "down"
  BY <1>1 DEF TypeOK, UmbrellaTakes
<1>2. CASE Len(uq) < QueueLen /\ uq' = Append(uq, m)
  <2>1. uq \in Seq(Messages)
    BY DEF TypeOK
  <2>2. uq' \in Seq(Messages) /\ Len(uq) \in Nat /\ Len(uq') = Len(uq) + 1
    BY <1>2, <2>1, Appended
  <2> QED BY <1>2, <2>2, IpcAssumption
<1> QED BY <1>1, <1>2 DEF UmbrellaTakes

-----------------------------------------------------------------------------
(* Types.  TypeOK is not inductive: fwdEvent may be 0, which is no event,  *)
(* only while there is nobody to pass it on to.                            *)

Typed == TypeOK /\ (todo # {} => fwdEvent \in Events)

LEMMA UmbrellaTypes ==
  Typed /\ (UmbrellaNext \/ UmbrellaBinds \/ UmbrellaEnds) => Typed'
<1> SUFFICES ASSUME Typed, UmbrellaNext \/ UmbrellaBinds \/ UmbrellaEnds PROVE Typed'
  OBVIOUS
<1> USE IpcAssumption DEF Typed, TypeOK, clientVars
<1>1. CASE UmbrellaBinds
  BY <1>1 DEF UmbrellaBinds
<1>2. CASE UmbrellaReady
  BY <1>2 DEF UmbrellaReady
<1>3. CASE UmbrellaEnds
  <2>1. toApp' \in BOOLEAN /\ uq' \in Seq(Messages) /\ Len(uq') = 0
    BY <1>3, EmptySeq DEF UmbrellaEnds
  <2> QED BY <1>3, <2>1 DEF UmbrellaEnds
<1>4. CASE UmbrellaReceives
  <2>1. uq' \in Seq(Messages) /\ Len(uq') <= QueueLen /\ Head(uq) \in Messages
    BY <1>4, Taken DEF UmbrellaReceives
  <2>2. toApp' \in BOOLEAN
    BY <1>4 DEF UmbrellaReceives
  <2>3. Head(uq).type = "REG" => Head(uq).client \in Clients
    BY <2>1, MessageTypes
  <2>4. Head(uq).type = "EVT" => Head(uq).number \in Events
    BY <2>1, MessageTypes
  <2>5. fwdEvent' \in 0..MaxEvents /\ (todo' # {} => fwdEvent' \in Events)
    BY <1>4, <2>4 DEF UmbrellaReceives, UmbrellaIdle, Events
  <2>6. todo' \in SUBSET Clients /\ receivers' \in SUBSET Clients
    BY <1>4, <2>3 DEF UmbrellaReceives
  <2>7. toApp' => todo' = {}
    BY <1>4 DEF UmbrellaReceives, UmbrellaIdle
  <2> QED BY <1>4, <2>1, <2>2, <2>5, <2>6, <2>7 DEF UmbrellaReceives
<1>5. CASE PassToApp
  <2>1. toApp' \in BOOLEAN
    BY <1>5 DEF PassToApp
  <2>2. aq' \in 0..QueueLen
    BY <1>5 DEF PassToApp
  <2>3. toApp' => todo' = {}
    BY <1>5 DEF PassToApp
  <2> QED BY <1>5, <2>1, <2>2, <2>3 DEF PassToApp
<1>6. CASE PassToClient
  <2> DEFINE c == NextAddress
  <2>1. c \in todo /\ c \in Clients /\ fwdEvent \in Events
    BY <1>6, NextAddressIs DEF PassToClient
  <2> HIDE DEF c
  <2>2. /\ todo' = todo \ {c}
        /\ \/ cq' = cq
           \/ Len(cq[c]) < QueueLen /\ cq' = [cq EXCEPT ![c] = Append(@, fwdEvent)]
    BY <1>6 DEF PassToClient, c
  <2>3. /\ Append(cq[c], fwdEvent) \in Seq(Events) /\ Len(cq[c]) \in Nat
        /\ Len(Append(cq[c], fwdEvent)) = Len(cq[c]) + 1
    BY <2>1, Appended
  <2>4. cq' \in [Clients -> Seq(Events)] /\ \A d \in Clients : Len(cq'[d]) <= QueueLen
    <3>1. CASE cq' = cq
      BY <3>1
    <3>2. CASE Len(cq[c]) < QueueLen /\ cq' = [cq EXCEPT ![c] = Append(@, fwdEvent)]
      <4>1. Len(Append(cq[c], fwdEvent)) <= QueueLen
        BY <2>3, <3>2
      <4>2. \A d \in Clients : cq'[d] = IF d = c THEN Append(cq[c], fwdEvent) ELSE cq[d]
        BY <2>1, <3>2
      <4> QED BY <2>3, <3>2, <4>1, <4>2
    <3> QED BY <2>2, <3>1, <3>2
  <2>5. todo' \in SUBSET Clients
    BY <2>2
  <2>6. UNCHANGED <<umbrella, receivers, uq, toApp, fwdEvent, uboots, client, handler,
                    boots, delivered, unhandled, aq, sent, actions>>
    BY <1>6 DEF PassToClient
  <2>7. toApp' => todo' = {}
    BY <2>1, <2>6
  <2> QED BY <2>1, <2>4, <2>5, <2>6, <2>7
<1> QED BY <1>1, <1>2, <1>3, <1>4, <1>5, <1>6 DEF UmbrellaNext

LEMMA ClientTypes ==
  ASSUME Typed, NEW c \in Clients,
         ClientReceiver(c) \/ ClientBinds(c) \/ SetHandlers(c) \/ BindEvents(c)
           \/ ClientSends(c) \/ ClientEnds(c)
  PROVE  Typed'
<1> USE IpcAssumption DEF Typed, TypeOK, clientVars, umbrellaVars
<1>1. CASE ClientReceives(c)
  <2>1. /\ Tail(cq[c]) \in Seq(Events) /\ Len(cq[c]) \in Nat
        /\ Len(Tail(cq[c])) = Len(cq[c]) - 1 /\ Head(cq[c]) \in Events
    BY <1>1, Taken DEF ClientReceives
  <2>2. cq' \in [Clients -> Seq(Events)] /\ \A d \in Clients : Len(cq'[d]) <= QueueLen
    BY <1>1, <2>1 DEF ClientReceives
  <2>3. Append(delivered[c], Head(cq[c])) \in Seq(Events)
    BY <2>1, Appended
  <2>4. delivered' \in [Clients -> Seq(Events)]
    BY <1>1, <2>3 DEF ClientReceives
  <2>5. unhandled' \in [Clients -> BOOLEAN]
    BY <1>1 DEF ClientReceives
  <2>6. handler' \in [Clients -> {"idle", "sending"}]
    BY <1>1 DEF ClientReceives
  <2> QED BY <1>1, <2>2, <2>4, <2>5, <2>6 DEF ClientReceives
<1>2. CASE HandlerSends(c)
  <2>1. uq' \in Seq(Messages) /\ Len(uq') <= QueueLen
    BY <1>2, UmbrellaTakesTypes, MessageTypes DEF HandlerSends
  <2> QED BY <1>2, <2>1 DEF HandlerSends
<1>3. CASE ClientBinds(c)
  BY <1>3 DEF ClientBinds
<1>4. CASE SetHandlers(c)
  BY <1>4 DEF SetHandlers
<1>5. CASE BindEvents(c)
  <2>1. uq' \in Seq(Messages) /\ Len(uq') <= QueueLen
    BY <1>5, UmbrellaTakesTypes, MessageTypes DEF BindEvents
  <2>2. cq' \in [Clients -> Seq(Events)] /\ \A d \in Clients : Len(cq'[d]) <= QueueLen
    BY <1>5, EmptySeq DEF BindEvents
  <2> QED BY <1>5, <2>1, <2>2 DEF BindEvents
<1>6. CASE ClientSends(c)
  <2>1. uq' \in Seq(Messages) /\ Len(uq') <= QueueLen
    BY <1>6, UmbrellaTakesTypes, MessageTypes DEF ClientSends
  <2> QED BY <1>6, <2>1 DEF ClientSends
<1>7. CASE ClientEnds(c)
  <2>1. cq' \in [Clients -> Seq(Events)] /\ \A d \in Clients : Len(cq'[d]) <= QueueLen
    BY <1>7, EmptySeq DEF ClientEnds
  <2> QED BY <1>7, <2>1 DEF ClientEnds
<1> QED BY <1>1, <1>2, <1>3, <1>4, <1>5, <1>6, <1>7 DEF ClientReceiver

LEMMA AppTypes == Typed /\ (AppSends \/ AppReceives) => Typed'
<1> SUFFICES ASSUME Typed, AppSends \/ AppReceives PROVE Typed'
  OBVIOUS
<1> USE IpcAssumption DEF Typed, TypeOK, clientVars, umbrellaVars
<1>1. CASE AppSends
  <2>1. sent + 1 \in Events /\ sent' \in 0..MaxEvents
    BY <1>1 DEF AppSends, Events
  <2>2. uq' \in Seq(Messages) /\ Len(uq') <= QueueLen
    BY <1>1, <2>1, UmbrellaTakesTypes, MessageTypes DEF AppSends
  <2> QED BY <1>1, <2>1, <2>2 DEF AppSends
<1>2. CASE AppReceives
  BY <1>2 DEF AppReceives
<1> QED BY <1>1, <1>2

LEMMA TypesKept == Typed /\ [Next]_vars => Typed'
<1>1. Typed /\ UNCHANGED vars => Typed'
  BY DEF Typed, TypeOK, vars, umbrellaVars, clientVars
<1> QED BY <1>1, UmbrellaTypes, ClientTypes, AppTypes DEF Next

LEMMA TypesFirst == Init => Typed
<1> SUFFICES ASSUME Init PROVE Typed
  OBVIOUS
<1>1. toApp \in BOOLEAN /\ unhandled \in [Clients -> BOOLEAN]
  BY DEF Init
<1>2. uq \in Seq(Messages) /\ Len(uq) <= QueueLen
  BY EmptySeq, IpcAssumption DEF Init
<1>3. /\ cq \in [Clients -> Seq(Events)] /\ \A c \in Clients : Len(cq[c]) <= QueueLen
      /\ delivered \in [Clients -> Seq(Events)]
  BY EmptySeq, IpcAssumption DEF Init
<1> QED BY <1>1, <1>2, <1>3, IpcAssumption DEF Init, Typed, TypeOK

\* The state has its types: no socket ever holds more than it has room for, and the
\* umbrella's receiver passes on one message at a time.
THEOREM TypeCorrect == Safety => []TypeOK
<1>1. Typed => TypeOK
  BY DEF Typed
<1> QED BY <1>1, TypesFirst, TypesKept, PTL DEF Safety

-----------------------------------------------------------------------------
(* Order.  EventsInOrder is not inductive: the app numbers its events on   *)
(* from `sent`, so nothing that is under way may lie above it.  What is    *)
(* passed is taken apart, so that a step is seen to move an event from one *)
(* part to the next.                                                       *)

Below(s, n) == \A k \in 1..Len(s) : s[k] < n

\* Everything passed to c is older than event n.
Low(c, n) == Below(delivered[c], n) /\ Below(cq[c], n) /\ (c \in todo => fwdEvent < n)

InOrder(c) ==
  /\ Increasing(delivered[c]) /\ Increasing(cq[c])
  /\ \A k \in 1..Len(cq[c]) : Below(delivered[c], cq[c][k])
  /\ c \in todo => Below(delivered[c], fwdEvent) /\ Below(cq[c], fwdEvent)

QueueInOrder ==
  \A i, j \in QueuedEvents : i < j => uq[i].number < uq[j].number

OrderInv ==
  /\ QueueInOrder /\ \A i \in QueuedEvents : uq[i].number < sent + 1
  /\ \A c \in Clients :
       InOrder(c) /\ Low(c, sent + 1) /\ \A i \in QueuedEvents : Low(c, uq[i].number)

LEMMA TailOrder ==
  ASSUME NEW s \in Seq(Nat), s # <<>>
  PROVE  /\ Increasing(s) => Increasing(Tail(s)) /\ \A k \in 1..Len(Tail(s)) : s[1] < Tail(s)[k]
         /\ \A n \in Nat : Below(s, n) => Below(Tail(s), n) /\ s[1] < n
<1>1. /\ Len(s) \in Nat \ {0} /\ Len(Tail(s)) = Len(s) - 1 /\ 1 \in 1..Len(s)
      /\ \A i \in 1..Len(Tail(s)) : i + 1 \in 1..Len(s) /\ 1 < i + 1 /\ Tail(s)[i] = s[i + 1]
  BY Taken
<1>2. Increasing(s) => Increasing(Tail(s))
  <2> SUFFICES ASSUME Increasing(s), NEW i \in 1..Len(Tail(s)), NEW j \in 1..Len(Tail(s)), i < j
               PROVE  Tail(s)[i] < Tail(s)[j]
    BY DEF Increasing
  <2>1. i + 1 < j + 1
    BY <1>1
  <2> QED BY <1>1, <2>1 DEF Increasing
<1>3. Increasing(s) => \A k \in 1..Len(Tail(s)) : s[1] < Tail(s)[k]
  BY <1>1 DEF Increasing
<1> QED BY <1>1, <1>2, <1>3 DEF Below

LEMMA AppendOrder ==
  ASSUME NEW s \in Seq(Nat), NEW e \in Nat
  PROVE  /\ Increasing(s) /\ Below(s, e) => Increasing(Append(s, e))
         /\ \A n \in Nat : Below(s, n) /\ e < n => Below(Append(s, e), n)
<1>1. /\ Len(s) \in Nat /\ Len(Append(s, e)) = Len(s) + 1
      /\ \A i \in 1..Len(s) : Append(s, e)[i] = s[i]
      /\ Append(s, e)[Len(s) + 1] = e
  BY Appended
<1>2. \A i \in 1..Len(Append(s, e)) : i \in 1..Len(s) \/ i = Len(s) + 1
  BY <1>1
<1>3. ASSUME Increasing(s), Below(s, e) PROVE Increasing(Append(s, e))
  <2> SUFFICES ASSUME NEW i \in 1..Len(Append(s, e)), NEW j \in 1..Len(Append(s, e)), i < j
               PROVE  Append(s, e)[i] < Append(s, e)[j]
    BY DEF Increasing
  <2>1. i \in 1..Len(s)
    BY <1>1
  <2> QED BY <1>1, <1>2, <1>3, <2>1 DEF Increasing, Below
<1> QED BY <1>1, <1>2, <1>3 DEF Below

LEMMA ConcatOrder ==
  ASSUME NEW s \in Seq(Nat), NEW t \in Seq(Nat)
  PROVE  /\ Increasing(s) /\ Increasing(t) /\ (\A k \in 1..Len(t) : Below(s, t[k]))
              => Increasing(s \o t)
         /\ \A n \in Nat : Below(s, n) /\ Below(t, n) => Below(s \o t, n)
<1>1. /\ Len(s) \in Nat /\ Len(t) \in Nat /\ Len(s \o t) = Len(s) + Len(t)
      /\ \A i \in 1..Len(s) + Len(t) :
           (s \o t)[i] = IF i <= Len(s) THEN s[i] ELSE t[i - Len(s)]
  BY ConcatProperties, LenProperties
<1>2. \A i \in 1..Len(s \o t) : \/ i \in 1..Len(s) /\ (s \o t)[i] = s[i]
                               \/ /\ i > Len(s) /\ i - Len(s) \in 1..Len(t)
                                  /\ (s \o t)[i] = t[i - Len(s)]
  BY <1>1
<1>3. ASSUME Increasing(s), Increasing(t), \A k \in 1..Len(t) : Below(s, t[k])
      PROVE  Increasing(s \o t)
  <2> SUFFICES ASSUME NEW i \in 1..Len(s \o t), NEW j \in 1..Len(s \o t), i < j
               PROVE  (s \o t)[i] < (s \o t)[j]
    BY DEF Increasing
  <2>1. CASE j \in 1..Len(s)
    <3>1. i \in 1..Len(s) /\ (s \o t)[i] = s[i] /\ (s \o t)[j] = s[j]
      BY <1>1, <2>1
    <3> QED BY <1>3, <2>1, <3>1 DEF Increasing
  <2>2. CASE j > Len(s) /\ i \in 1..Len(s)
    <3>1. /\ j - Len(s) \in 1..Len(t) /\ (s \o t)[j] = t[j - Len(s)]
          /\ (s \o t)[i] = s[i]
      BY <1>1, <2>2
    <3>2. s[i] < t[j - Len(s)]
      BY <1>3, <2>2, <3>1 DEF Below
    <3> QED BY <3>1, <3>2
  <2>3. CASE j > Len(s) /\ i > Len(s)
    <3>1. i - Len(s) \in 1..Len(t) /\ j - Len(s) \in 1..Len(t) /\ i - Len(s) < j - Len(s)
      BY <1>1, <2>3
    <3>2. (s \o t)[i] = t[i - Len(s)] /\ (s \o t)[j] = t[j - Len(s)]
      BY <1>1, <2>3
    <3> QED BY <1>3, <3>1, <3>2 DEF Increasing
  <2> QED BY <1>1, <2>1, <2>2, <2>3
<1>4. \A n \in Nat : Below(s, n) /\ Below(t, n) => Below(s \o t, n)
  BY <1>2 DEF Below
<1> QED BY <1>3, <1>4

LEMMA Numbers ==
  ASSUME Typed
  PROVE  /\ \A c \in Clients : delivered[c] \in Seq(Nat) /\ cq[c] \in Seq(Nat)
         /\ sent \in Nat /\ (todo # {} => fwdEvent \in Nat)
         /\ \A i \in QueuedEvents : uq[i].number \in Nat /\ i \in 1..Len(uq)
<1>1. Events \subseteq Nat
  BY IpcAssumption DEF Events
<1>2. \A c \in Clients : delivered[c] \in Seq(Nat) /\ cq[c] \in Seq(Nat)
  BY <1>1, SeqMonotonic DEF Typed, TypeOK
<1>3. \A i \in 1..Len(uq) : uq[i] \in Messages
  BY ElementOfSeq DEF Typed, TypeOK
<1>4. \A i \in QueuedEvents : uq[i].number \in Nat /\ i \in 1..Len(uq)
  BY <1>1, <1>3, MessageTypes DEF QueuedEvents
<1>5. sent \in Nat
  BY IpcAssumption DEF Typed, TypeOK
<1> QED BY <1>1, <1>2, <1>4, <1>5 DEF Typed

\* A step keeps the order of what is passed to c and puts nothing newer there.
Keeps(c) == InOrder(c)' /\ \A n \in Nat : Low(c, n) => Low(c, n)'

(* What one step may do to what is passed to c: nothing, pass the event on,*)
(* give up on c, deliver or drop the head of its socket, or end c.         *)
LEMMA PassedStep ==
  ASSUME Typed, NEW c \in Clients, InOrder(c),
         fwdEvent' = fwdEvent \/ c \notin todo',
         \/ UNCHANGED <<delivered[c], cq[c]>> /\ (c \in todo' => c \in todo)
         \/ /\ c \in todo /\ c \notin todo'
            /\ delivered'[c] = delivered[c] /\ cq'[c] = Append(cq[c], fwdEvent)
         \/ /\ cq[c] # <<>> /\ cq'[c] = Tail(cq[c]) /\ (c \in todo' => c \in todo)
            /\ delivered'[c] \in {delivered[c], Append(delivered[c], Head(cq[c]))}
         \/ delivered'[c] = delivered[c] /\ cq'[c] = <<>> /\ (c \in todo' => c \in todo)
  PROVE  Keeps(c)
<1> USE DEF Keeps
<1>1. delivered[c] \in Seq(Nat) /\ cq[c] \in Seq(Nat) /\ (c \in todo => fwdEvent \in Nat)
  BY Numbers
<1>2. CASE UNCHANGED <<delivered[c], cq[c]>> /\ (c \in todo' => c \in todo)
  BY <1>2 DEF InOrder, Low
<1>3. CASE /\ c \in todo /\ c \notin todo'
           /\ delivered'[c] = delivered[c] /\ cq'[c] = Append(cq[c], fwdEvent)
  <2>1. Increasing(cq'[c]) /\ \A n \in Nat : Low(c, n) => Below(cq'[c], n)
    BY <1>1, <1>3, AppendOrder DEF InOrder, Low
  <2>2. \A k \in 1..Len(cq'[c]) : Below(delivered[c], cq'[c][k])
    <3> SUFFICES ASSUME NEW k \in 1..Len(cq'[c]) PROVE Below(delivered[c], cq'[c][k])
      OBVIOUS
    <3>1. \/ k \in 1..Len(cq[c]) /\ cq'[c][k] = cq[c][k]
          \/ cq'[c][k] = fwdEvent
      BY <1>1, <1>3, Appended
    <3> QED BY <1>3, <3>1 DEF InOrder
  <2> QED BY <1>3, <2>1, <2>2 DEF InOrder, Low
<1>4. CASE /\ cq[c] # <<>> /\ cq'[c] = Tail(cq[c]) /\ (c \in todo' => c \in todo)
           /\ delivered'[c] \in {delivered[c], Append(delivered[c], Head(cq[c]))}
  <2>1. /\ Head(cq[c]) = cq[c][1] /\ Head(cq[c]) \in Nat /\ 1 \in 1..Len(cq[c])
        /\ \A k \in 1..Len(Tail(cq[c])) : k + 1 \in 1..Len(cq[c])
                                           /\ Tail(cq[c])[k] = cq[c][k + 1]
                                           /\ Tail(cq[c])[k] \in Nat
    <3>1. 1 \in 1..Len(cq[c])
      BY <1>1, <1>4, Taken
    <3> QED BY <1>1, <1>4, <3>1, Taken, ElementOfSeq
  <2>2. /\ Increasing(Tail(cq[c])) /\ \A k \in 1..Len(Tail(cq[c])) : cq[c][1] < Tail(cq[c])[k]
        /\ \A n \in Nat : Below(cq[c], n) => Below(Tail(cq[c]), n) /\ cq[c][1] < n
    BY <1>1, <1>4, TailOrder DEF InOrder
  <2>3. \A k \in 1..Len(Tail(cq[c])) : Below(delivered[c], Tail(cq[c])[k])
    BY <2>1 DEF InOrder
  <2>4. Below(delivered[c], Head(cq[c]))
    BY <2>1 DEF InOrder
  <2>5. CASE delivered'[c] = delivered[c]
    BY <1>1, <1>4, <2>2, <2>3, <2>5 DEF InOrder, Low
  <2>6. CASE delivered'[c] = Append(delivered[c], Head(cq[c]))
    <3>1. Increasing(delivered'[c])
      BY <1>1, <2>1, <2>4, <2>6, AppendOrder DEF InOrder
    <3>2. \A n \in Nat : Below(delivered[c], n) /\ cq[c][1] < n => Below(delivered'[c], n)
      BY <1>1, <2>1, <2>6, AppendOrder
    <3>3. \A k \in 1..Len(cq'[c]) : Below(delivered'[c], cq'[c][k])
      BY <1>4, <2>1, <2>2, <2>3, <3>2
    <3>4. c \in todo' => Below(delivered'[c], fwdEvent') /\ Below(cq'[c], fwdEvent')
      BY <1>1, <1>4, <2>2, <3>2 DEF InOrder
    <3> QED BY <1>1, <1>4, <2>2, <3>1, <3>2, <3>3, <3>4 DEF InOrder, Low
  <2> QED BY <1>4, <2>5, <2>6
<1>5. CASE delivered'[c] = delivered[c] /\ cq'[c] = <<>> /\ (c \in todo' => c \in todo)
  <2>1. Increasing(cq'[c]) /\ Len(cq'[c]) = 0 /\ \A n : Below(cq'[c], n)
    BY <1>5 DEF Increasing, Below
  <2> QED BY <1>5, <2>1 DEF InOrder, Low
<1> QED BY <1>2, <1>3, <1>4, <1>5

\* A step leaves the order of the umbrella's socket and adds no event to it.
AddsNone ==
  /\ QueueInOrder'
  /\ \A i \in QueuedEvents' : \E j \in QueuedEvents : uq'[i].number = uq[j].number

LEMMA QueueTaken ==
  ASSUME Typed, QueueInOrder, uq # <<>>, uq' = Tail(uq)
  PROVE  /\ AddsNone
         /\ Head(uq).type = "EVT" =>
              /\ \A i \in QueuedEvents' : Head(uq).number < uq'[i].number
              /\ \E j \in QueuedEvents : Head(uq) = uq[j]
<1>1. /\ Head(uq) = uq[1] /\ Len(uq) \in Nat \ {0} /\ Len(uq') = Len(uq) - 1
      /\ \A i \in 1..Len(uq') : i + 1 \in 1..Len(uq) /\ uq'[i] = uq[i + 1]
  BY Taken DEF Typed, TypeOK
<1>2. \A i \in QueuedEvents' : i \in Nat /\ i + 1 \in QueuedEvents /\ 1 < i + 1 /\ uq'[i] = uq[i + 1]
  BY <1>1 DEF QueuedEvents
<1>3. \A i, j \in QueuedEvents' : i < j => i + 1 < j + 1
  BY <1>2
<1>4. AddsNone
  BY <1>2, <1>3 DEF AddsNone, QueueInOrder
<1>5. Head(uq).type = "EVT" => 1 \in QueuedEvents
  BY <1>1 DEF QueuedEvents
<1> QED BY <1>1, <1>2, <1>4, <1>5 DEF QueueInOrder

LEMMA QueueAdded ==
  ASSUME Typed, QueueInOrder, NEW m \in Messages, UmbrellaTakes(m),
         m.type = "EVT" => \A i \in QueuedEvents : uq[i].number < m.number
  PROVE  /\ QueueInOrder'
         /\ \A i \in QueuedEvents' :
              (i \in QueuedEvents /\ uq'[i] = uq[i]) \/ (m.type = "EVT" /\ uq'[i] = m)
<1>1. CASE UNCHANGED uq
  BY <1>1 DEF QueueInOrder, QueuedEvents
<1>2. CASE uq' = Append(uq, m)
  <2>1. /\ Len(uq) \in Nat /\ Len(uq') = Len(uq) + 1 /\ uq'[Len(uq) + 1] = m
        /\ \A i \in 1..Len(uq) : uq'[i] = uq[i]
    BY <1>2, Appended DEF Typed, TypeOK
  <2>2. \A i \in QueuedEvents' :
          \/ i \in QueuedEvents /\ uq'[i] = uq[i] /\ i < Len(uq) + 1
          \/ i = Len(uq) + 1 /\ m.type = "EVT" /\ uq'[i] = m
    BY <2>1 DEF QueuedEvents
  <2>3. QueueInOrder'
    <3> SUFFICES ASSUME NEW i \in QueuedEvents', NEW j \in QueuedEvents', i < j
                 PROVE  uq'[i].number < uq'[j].number
      BY DEF QueueInOrder
    <3>1. i \in 1..Len(uq) + 1 /\ j \in 1..Len(uq) + 1
      BY <2>1 DEF QueuedEvents
    <3>2. i \in QueuedEvents /\ uq'[i] = uq[i]
      BY <2>1, <2>2, <3>1
    <3> QED BY <2>2, <3>2 DEF QueueInOrder
  <2> QED BY <2>2, <2>3
<1> QED BY <1>1, <1>2 DEF UmbrellaTakes

LEMMA OtherAdded ==
  ASSUME Typed, QueueInOrder, NEW m \in Messages, m.type # "EVT", UmbrellaTakes(m)
  PROVE  AddsNone
BY QueueAdded DEF AddsNone

LEMMA OrderKept ==
  ASSUME Typed, OrderInv, AddsNone, sent' = sent, \A c \in Clients : Keeps(c)
  PROVE  OrderInv'
<1>1. sent + 1 \in Nat /\ \A j \in QueuedEvents : uq[j].number \in Nat
  BY Numbers
<1>2. \A c \in Clients : InOrder(c)' /\ Low(c, sent + 1)'
  BY <1>1 DEF OrderInv, Keeps, Low
<1>3. \A i \in QueuedEvents' : /\ uq'[i].number < sent' + 1
                             /\ \A c \in Clients : Low(c, uq[i].number)'
  <2> SUFFICES ASSUME NEW i \in QueuedEvents'
               PROVE  /\ uq'[i].number < sent' + 1
                      /\ \A c \in Clients : Low(c, uq[i].number)'
    OBVIOUS
  <2>1. PICK j \in QueuedEvents : uq'[i].number = uq[j].number
    BY DEF AddsNone
  <2> QED BY <1>1, <2>1 DEF OrderInv, Keeps, Low
<1> QED BY <1>2, <1>3 DEF OrderInv, AddsNone

LEMMA SameQueue == QueueInOrder /\ UNCHANGED uq => AddsNone
BY DEF AddsNone, QueueInOrder, QueuedEvents

LEMMA EmptyQueue == uq' = <<>> => AddsNone
BY DEF AddsNone, QueueInOrder, QueuedEvents

\* The umbrella takes an event off its socket, for those registered by then.
LEMMA OrderTake ==
  ASSUME Typed, OrderInv, UmbrellaReceives PROVE OrderInv'
<1>1. todo = {} /\ uq # <<>> /\ uq' = Tail(uq) /\ UNCHANGED <<delivered, cq, sent>>
  BY DEF UmbrellaReceives, UmbrellaIdle, clientVars
<1>2. CASE Head(uq).type # "EVT"
  <2>1. todo' = todo /\ fwdEvent' = fwdEvent
    BY <1>2 DEF UmbrellaReceives
  <2>2. \A c \in Clients : Keeps(c)
    BY <1>1, <2>1, PassedStep DEF OrderInv
  <2> QED BY <1>1, <2>2, QueueTaken, OrderKept DEF OrderInv
<1>3. CASE Head(uq).type = "EVT"
  <2>1. fwdEvent' = Head(uq).number /\ todo' = receivers
    <3>1. Head(uq).type # "REG" /\ Head(uq).type # "DO"
      BY <1>3
    <3> QED BY <3>1 DEF UmbrellaReceives
  <2>2. PICK j \in QueuedEvents : Head(uq) = uq[j]
    BY <1>1, <1>3, QueueTaken DEF OrderInv
  <2>3. /\ fwdEvent' < sent' + 1 /\ fwdEvent' \in Nat
        /\ \A c \in Clients : Low(c, fwdEvent')
    BY <1>1, <2>1, <2>2, Numbers DEF OrderInv
  <2>4. \A c \in Clients : InOrder(c)'
    BY <1>1, <2>3 DEF OrderInv, InOrder, Low
  <2>5. \A c \in Clients : Low(c, sent + 1)'
    BY <1>1, <2>3 DEF OrderInv, Low
  <2>6. \A i \in QueuedEvents' : /\ uq'[i].number < sent' + 1
                               /\ \A c \in Clients : Low(c, uq[i].number)'
    <3> SUFFICES ASSUME NEW i \in QueuedEvents'
                 PROVE  /\ uq'[i].number < sent' + 1
                        /\ \A c \in Clients : Low(c, uq[i].number)'
      OBVIOUS
    <3>1. PICK k \in QueuedEvents : uq'[i].number = uq[k].number
      BY <1>1, QueueTaken DEF OrderInv, AddsNone
    <3>2. fwdEvent' < uq'[i].number
      BY <1>1, <1>3, <2>1, QueueTaken DEF OrderInv
    <3> QED BY <1>1, <3>1, <3>2 DEF OrderInv, Low
  <2> QED BY <1>1, <2>4, <2>5, <2>6, QueueTaken DEF OrderInv, AddsNone
<1> QED BY <1>2, <1>3

\* The app sends its next event.
LEMMA OrderSend ==
  ASSUME Typed, OrderInv, AppSends PROVE OrderInv'
<1>1. /\ sent \in Nat /\ sent + 1 \in Events /\ sent' = sent + 1
      /\ UmbrellaTakes(Event(sent + 1))
      /\ UNCHANGED <<fwdEvent, todo, delivered, cq>>
  BY IpcAssumption, Numbers DEF AppSends, clientVars, Events
<1>2. /\ Event(sent + 1) \in Messages /\ Event(sent + 1).number = sent + 1
      /\ Event(sent + 1).type = "EVT"
  BY <1>1, MessageTypes
<1>3. /\ QueueInOrder'
      /\ \A i \in QueuedEvents' :
           (i \in QueuedEvents /\ uq'[i] = uq[i]) \/ uq'[i] = Event(sent + 1)
  BY <1>1, <1>2, QueueAdded DEF OrderInv
<1>4. \A c \in Clients : InOrder(c)' /\ \A n \in Nat : Low(c, n) => Low(c, n)'
  BY <1>1 DEF OrderInv, InOrder, Low
<1>5. \A c \in Clients : Low(c, sent + 1)'
  <2> SUFFICES ASSUME NEW c \in Clients PROVE Low(c, sent + 1)'
    OBVIOUS
  <2>1. Low(c, sent + 1)
    BY DEF OrderInv
  <2>2. /\ \A k \in 1..Len(delivered[c]) : delivered[c][k] \in Nat
        /\ \A k \in 1..Len(cq[c]) : cq[c][k] \in Nat
    BY Numbers, ElementOfSeq
  <2>3. todo # {} => fwdEvent \in Nat
    BY Numbers
  <2> QED BY <1>1, <2>1, <2>2, <2>3 DEF Low, Below
<1>6. \A i \in QueuedEvents' : /\ uq'[i].number < sent' + 1
                             /\ \A c \in Clients : Low(c, uq[i].number)'
  <2> SUFFICES ASSUME NEW i \in QueuedEvents'
               PROVE  /\ uq'[i].number < sent' + 1
                      /\ \A c \in Clients : Low(c, uq[i].number)'
    OBVIOUS
  <2>1. CASE i \in QueuedEvents /\ uq'[i] = uq[i]
    <3>1. uq[i].number \in Nat /\ uq[i].number < sent + 1
      BY <2>1, Numbers DEF OrderInv
    <3> QED BY <1>1, <1>4, <2>1, <3>1 DEF OrderInv, Low
  <2>2. CASE uq'[i] = Event(sent + 1)
    <3>1. \A c \in Clients : Low(c, sent + 1)
      BY DEF OrderInv
    <3> QED BY <1>1, <1>2, <2>2, <3>1 DEF Low
  <2> QED BY <1>3, <2>1, <2>2
<1> QED BY <1>3, <1>4, <1>5, <1>6 DEF OrderInv

\* Every other step moves an event on, drops it, or has nothing to do with it.
LEMMA OrderUmbrella ==
  ASSUME Typed, OrderInv,
         UmbrellaBinds \/ UmbrellaReady \/ UmbrellaEnds \/ PassToApp \/ PassToClient
  PROVE  OrderInv'
<1>1. sent' = sent /\ delivered' = delivered
  BY DEF UmbrellaBinds, UmbrellaReady, UmbrellaEnds, PassToApp, PassToClient, clientVars
<1>2. AddsNone
  BY SameQueue, EmptyQueue
  DEF UmbrellaBinds, UmbrellaReady, UmbrellaEnds, PassToApp, PassToClient, OrderInv
<1>3. SUFFICES ASSUME NEW c \in Clients PROVE Keeps(c)
  BY <1>1, <1>2, OrderKept
<1>4. InOrder(c)
  BY DEF OrderInv
<1>5. CASE UmbrellaBinds \/ UmbrellaReady \/ PassToApp
  <2>1. UNCHANGED <<delivered, cq, todo, fwdEvent>>
    BY <1>5 DEF UmbrellaBinds, UmbrellaReady, PassToApp, clientVars
  <2> QED BY <1>4, <2>1, PassedStep
<1>6. CASE UmbrellaEnds
  <2>1. UNCHANGED <<delivered, cq>> /\ todo' = {}
    BY <1>6 DEF UmbrellaEnds, clientVars
  <2> QED BY <1>4, <2>1, PassedStep
<1>7. CASE PassToClient
  <2>1. NextAddress \in todo /\ NextAddress \in Clients /\ cq \in [Clients -> Seq(Events)]
    BY <1>7, NextAddressIs DEF PassToClient, Typed, TypeOK
  <2>2. /\ todo' = todo \ {NextAddress} /\ fwdEvent' = fwdEvent
        /\ \/ cq' = cq
           \/ cq' = [cq EXCEPT ![NextAddress] = Append(@, fwdEvent)]
    BY <1>7 DEF PassToClient
  <2>3. CASE c = NextAddress
    <3>1. cq'[c] = cq[c] \/ cq'[c] = Append(cq[c], fwdEvent)
      BY <2>1, <2>2, <2>3
    <3>2. c \in todo /\ c \notin todo'
      BY <2>1, <2>2, <2>3
    <3> QED BY <1>1, <1>4, <2>2, <3>1, <3>2, PassedStep
  <2>4. CASE c # NextAddress
    <3>1. cq'[c] = cq[c]
      BY <2>1, <2>2, <2>4
    <3> QED BY <1>1, <1>4, <2>2, <3>1, PassedStep
  <2> QED BY <2>3, <2>4
<1> QED BY <1>5, <1>6, <1>7

LEMMA OrderClient ==
  ASSUME Typed, OrderInv, NEW c \in Clients,
         ClientReceiver(c) \/ ClientBinds(c) \/ SetHandlers(c) \/ BindEvents(c)
           \/ ClientSends(c) \/ ClientEnds(c)
  PROVE  OrderInv'
<1>1. UNCHANGED <<sent, todo, fwdEvent>>
  BY DEF ClientReceiver, ClientReceives, HandlerSends, ClientBinds, SetHandlers, BindEvents,
         ClientSends, ClientEnds, umbrellaVars
<1>2. AddsNone
  <2>1. /\ \A m \in {Action, Registration(c)} : m \in Messages /\ m.type # "EVT"
    BY MessageTypes
  <2>2. uq' = uq \/ UmbrellaTakes(Action) \/ UmbrellaTakes(Registration(c))
    BY DEF ClientReceiver, ClientReceives, HandlerSends, ClientBinds, SetHandlers, BindEvents,
           ClientSends, ClientEnds, umbrellaVars
  <2> QED BY <2>1, <2>2, SameQueue, OtherAdded DEF OrderInv
<1>3. SUFFICES ASSUME NEW d \in Clients PROVE Keeps(d)
  BY <1>1, <1>2, OrderKept
<1>4. InOrder(d)
  BY DEF OrderInv
<1>5. cq \in [Clients -> Seq(Events)] /\ delivered \in [Clients -> Seq(Events)]
  BY DEF Typed, TypeOK
<1>6. CASE ClientReceives(c)
  <2>1. /\ cq[c] # <<>> /\ cq' = [cq EXCEPT ![c] = Tail(@)]
        /\ \/ delivered' = delivered
           \/ delivered' = [delivered EXCEPT ![c] = Append(@, Head(cq[c]))]
    BY <1>6 DEF ClientReceives
  <2>2. CASE d = c
    <3>1. /\ cq[d] # <<>> /\ cq'[d] = Tail(cq[d])
          /\ delivered'[d] \in {delivered[d], Append(delivered[d], Head(cq[d]))}
      BY <1>5, <2>1, <2>2
    <3> QED BY <1>1, <1>4, <3>1, PassedStep
  <2>3. CASE d # c
    <3>1. cq'[d] = cq[d] /\ delivered'[d] = delivered[d]
      BY <1>5, <2>1, <2>3
    <3> QED BY <1>1, <1>4, <3>1, PassedStep
  <2> QED BY <2>2, <2>3
<1>7. CASE HandlerSends(c) \/ ClientBinds(c) \/ SetHandlers(c) \/ ClientSends(c)
  <2>1. UNCHANGED <<cq, delivered>>
    BY <1>7 DEF HandlerSends, ClientBinds, SetHandlers, ClientSends, clientVars
  <2> QED BY <1>1, <1>4, <2>1, PassedStep
<1>8. CASE BindEvents(c) \/ ClientEnds(c)
  <2>1. delivered' = delivered /\ cq'[d] \in {cq[d], <<>>}
    BY <1>5, <1>8 DEF BindEvents, ClientEnds
  <2> QED BY <1>1, <1>4, <2>1, PassedStep
<1> QED BY <1>6, <1>7, <1>8 DEF ClientReceiver

LEMMA OrderSteps == Typed /\ OrderInv /\ [Next]_vars => OrderInv'
<1> SUFFICES ASSUME Typed, OrderInv, [Next]_vars PROVE OrderInv'
  OBVIOUS
<1>1. CASE UNCHANGED vars \/ AppReceives
  <2>1. UNCHANGED <<uq, sent, fwdEvent, todo, delivered, cq>>
    BY <1>1 DEF AppReceives, vars, umbrellaVars, clientVars
  <2>2. \A c \in Clients : Keeps(c)
    BY <2>1, PassedStep DEF OrderInv
  <2> QED BY <2>1, <2>2, SameQueue, OrderKept DEF OrderInv
<1> QED BY <1>1, OrderTake, OrderSend, OrderUmbrella, OrderClient DEF Next, UmbrellaNext

LEMMA OrderFirst == Init => OrderInv
<1> SUFFICES ASSUME Init PROVE OrderInv
  OBVIOUS
<1>1. /\ Len(uq) = 0 /\ todo = {}
      /\ \A c \in Clients : Len(delivered[c]) = 0 /\ Len(cq[c]) = 0
  BY DEF Init
<1>2. QueuedEvents = {}
  BY <1>1 DEF QueuedEvents
<1> QED BY <1>1, <1>2 DEF OrderInv, QueueInOrder, InOrder, Low, Below, Increasing

\* The parts of what is passed to c, put together.
LEMMA PassedOrder ==
  ASSUME Typed, NEW c \in Clients, InOrder(c)
  PROVE  Increasing(Passed(c)) /\ \A n \in Nat : Low(c, n) => Below(Passed(c), n)
<1> DEFINE d == delivered[c] \o cq[c]
           f == IF c \in todo THEN <<fwdEvent>> ELSE <<>>
<1>1. /\ delivered[c] \in Seq(Nat) /\ cq[c] \in Seq(Nat)
      /\ c \in todo => fwdEvent \in Nat
  BY Numbers
<1>2. /\ d \in Seq(Nat) /\ Increasing(d)
      /\ \A n \in Nat : Below(delivered[c], n) /\ Below(cq[c], n) => Below(d, n)
  BY <1>1, ConcatProperties, ConcatOrder DEF InOrder
<1>3. /\ f \in Seq(Nat)
      /\ c \in todo => Len(f) = 1 /\ f[1] = fwdEvent
      /\ c \notin todo => Len(f) = 0
  BY <1>1
<1>4. Passed(c) = d \o f
  BY DEF Passed
<1> HIDE DEF d, f
<1>5. Increasing(f)
  BY <1>3 DEF Increasing
<1>6. \A k \in 1..Len(f) : Below(d, f[k])
  <2> SUFFICES ASSUME NEW k \in 1..Len(f) PROVE Below(d, f[k])
    OBVIOUS
  <2>1. c \in todo /\ f[k] = fwdEvent
    BY <1>3
  <2> QED BY <1>1, <1>2, <2>1 DEF InOrder
<1>7. \A n \in Nat : Low(c, n) => Below(f, n)
  BY <1>3 DEF Low, Below
<1> QED BY <1>2, <1>3, <1>4, <1>5, <1>6, <1>7, ConcatOrder DEF Low

\* Events reach the handlers of every client in the order in which the app
\* sent them, and none twice, whatever blocks, ends and starts in between.
THEOREM OrderOfEvents == Safety => []EventsInOrder
<1>1. Typed /\ OrderInv => EventsInOrder
  <2> SUFFICES ASSUME Typed, OrderInv, NEW c \in Clients
               PROVE  /\ Increasing(Passed(c))
                      /\ \A k \in 1..Len(Passed(c)), i \in QueuedEvents :
                           Passed(c)[k] < uq[i].number
    BY DEF EventsInOrder, OrderInv, QueueInOrder
  <2>1. \A i \in QueuedEvents : uq[i].number \in Nat /\ Low(c, uq[i].number)
    BY Numbers DEF OrderInv
  <2> QED BY <2>1, PassedOrder DEF OrderInv, Below
<1> QED BY <1>1, TypesFirst, TypesKept, OrderFirst, OrderSteps, PTL DEF Safety

-----------------------------------------------------------------------------
(* The first process of a client.  HandlersBeforeEvents is not inductive:  *)
(* no event can come before the handlers are set, because nobody knows of  *)
(* the client until it has asked for events.                               *)

Unasked(c) == c \notin receivers \cup todo /\ \A i \in 1..Len(uq) : uq[i] # Registration(c)

FirstStart(c) ==
  /\ boots[c] = 0 => client[c] = "down"
  /\ boots[c] \in {0, 1} => ~unhandled[c]
  /\ boots[c] = 0 \/ (boots[c] = 1 /\ client[c] = "bound") => Unasked(c) /\ cq[c] = <<>>

\* A registration of another client does not name c.
LEMMA UnaskedTakes ==
  ASSUME Typed, NEW c \in Clients, NEW m \in Messages, m # Registration(c),
         UmbrellaTakes(m), UNCHANGED <<receivers, todo>>, Unasked(c)
  PROVE  Unasked(c)'
<1>1. CASE uq' = uq
  BY <1>1 DEF Unasked
<1>2. CASE uq' = Append(uq, m)
  <2>1. /\ Len(uq) \in Nat /\ Len(uq') = Len(uq) + 1 /\ uq'[Len(uq) + 1] = m
        /\ \A i \in 1..Len(uq) : uq'[i] = uq[i]
    BY <1>2, Appended DEF Typed, TypeOK
  <2>2. \A i \in 1..Len(uq') : i \in 1..Len(uq) \/ i = Len(uq) + 1
    BY <2>1
  <2> QED BY <2>1, <2>2 DEF Unasked
<1> QED BY <1>1, <1>2 DEF UmbrellaTakes

LEMMA UnaskedUmbrella ==
  ASSUME Typed, NEW c \in Clients, UmbrellaNext \/ UmbrellaBinds \/ UmbrellaEnds, Unasked(c)
  PROVE  Unasked(c)' /\ cq'[c] = cq[c] /\ UNCHANGED <<boots, client, unhandled>>
<1>1. CASE UmbrellaBinds \/ UmbrellaReady \/ PassToApp
  BY <1>1 DEF UmbrellaBinds, UmbrellaReady, PassToApp, Unasked, clientVars
<1>2. CASE UmbrellaEnds
  BY <1>2 DEF UmbrellaEnds, Unasked, clientVars
<1>3. CASE PassToClient
  <2>1. NextAddress # c /\ cq \in [Clients -> Seq(Events)]
    BY <1>3, NextAddressIs DEF PassToClient, Typed, TypeOK, Unasked
  <2> QED BY <1>3, <2>1 DEF PassToClient, Unasked
<1>4. CASE UmbrellaReceives
  <2>1. /\ Head(uq) = uq[1] /\ Head(uq) \in Messages /\ 1 \in 1..Len(uq) /\ uq' = Tail(uq)
        /\ \A i \in 1..Len(uq') : i + 1 \in 1..Len(uq) /\ uq'[i] = uq[i + 1]
    <3>1. uq \in Seq(Messages) /\ uq # <<>> /\ uq' = Tail(uq)
      BY <1>4 DEF UmbrellaReceives, Typed, TypeOK
    <3>2. 1 \in 1..Len(uq)
      BY <3>1, Taken
    <3> QED BY <3>1, <3>2, Taken
  <2>2. Head(uq).type = "REG" => Head(uq).client # c
    BY <2>1, MessageTypes DEF Unasked
  <2>3. c \notin receivers' \cup todo'
    BY <1>4, <2>2 DEF UmbrellaReceives, Unasked
  <2> QED BY <1>4, <2>1, <2>3 DEF UmbrellaReceives, Unasked, clientVars
<1> QED BY <1>1, <1>2, <1>3, <1>4 DEF UmbrellaNext

LEMMA FirstUmbrella ==
  ASSUME Typed, NEW c \in Clients, FirstStart(c), UmbrellaNext \/ UmbrellaBinds \/ UmbrellaEnds
  PROVE  FirstStart(c)'
<1>1. UNCHANGED <<boots, client, unhandled>>
  BY DEF UmbrellaNext, UmbrellaBinds, UmbrellaReady, UmbrellaEnds, UmbrellaReceives, PassToApp,
         PassToClient, clientVars
<1> QED BY <1>1, UnaskedUmbrella DEF FirstStart

\* What c itself does ...
LEMMA FirstOwn ==
  ASSUME Typed, NEW c \in Clients, FirstStart(c),
         ClientReceiver(c) \/ ClientBinds(c) \/ SetHandlers(c) \/ BindEvents(c)
           \/ ClientSends(c) \/ ClientEnds(c)
  PROVE  FirstStart(c)'
<1> USE DEF FirstStart
<1>1. /\ boots \in [Clients -> 0..MaxBoots] /\ boots[c] \in Nat
      /\ client \in [Clients -> {"down", "bound", "handling", "running"}]
      /\ unhandled \in [Clients -> BOOLEAN] /\ cq \in [Clients -> Seq(Events)]
  BY IpcAssumption DEF Typed, TypeOK
<1>2. CASE ClientBinds(c)
  <2>1. client[c] = "down" /\ boots'[c] = boots[c] + 1 /\ client'[c] = "bound"
        /\ UNCHANGED <<receivers, todo, uq, cq, unhandled>>
    BY <1>1, <1>2 DEF ClientBinds, umbrellaVars
  <2>2. boots[c] # 0 => boots'[c] \notin {0, 1}
    BY <1>1, <2>1
  <2>3. boots[c] = 0 => Unasked(c)' /\ cq'[c] = <<>> /\ ~unhandled'[c]
    BY <2>1 DEF Unasked
  <2>4. boots'[c] # 0
    BY <1>1, <2>1
  <2> QED BY <2>1, <2>2, <2>3, <2>4
<1>3. CASE ClientReceives(c)
  <2>1. client[c] # "down" /\ cq[c] # <<>> /\ UNCHANGED <<client, boots>>
    BY <1>3 DEF ClientReceives
  <2>2. boots[c] # 0 /\ ~ (boots[c] = 1 /\ client[c] = "bound")
    BY <2>1
  <2>3. boots[c] = 1 => unhandled'[c] = unhandled[c]
    BY <1>3, <2>2 DEF ClientReceives
  <2> QED BY <2>1, <2>2, <2>3
<1>4. CASE SetHandlers(c) \/ BindEvents(c) \/ ClientEnds(c)
  <2>1. client[c] # "down" /\ client'[c] \in {"handling", "running", "down"}
        /\ UNCHANGED <<boots, unhandled>>
    BY <1>1, <1>4 DEF SetHandlers, BindEvents, ClientEnds
  <2> QED BY <2>1
<1>5. CASE HandlerSends(c) \/ ClientSends(c)
  <2>1. UmbrellaTakes(Action) /\ UNCHANGED <<receivers, todo, client, cq, boots, unhandled>>
    BY <1>5 DEF HandlerSends, ClientSends, clientVars
  <2>2. Action \in Messages /\ Action # Registration(c)
    BY MessageTypes
  <2> QED BY <2>1, <2>2, UnaskedTakes
<1> QED BY <1>2, <1>3, <1>4, <1>5 DEF ClientReceiver

\* ... and what another client does.
LEMMA FirstOther ==
  ASSUME Typed, NEW c \in Clients, NEW d \in Clients, c # d, FirstStart(c),
         ClientReceiver(d) \/ ClientBinds(d) \/ SetHandlers(d) \/ BindEvents(d)
           \/ ClientSends(d) \/ ClientEnds(d)
  PROVE  FirstStart(c)'
<1>1. UNCHANGED <<boots[c], client[c], unhandled[c], cq[c], receivers, todo>>
  BY DEF ClientReceiver, ClientReceives, HandlerSends, ClientBinds, SetHandlers, BindEvents,
         ClientSends, ClientEnds, umbrellaVars, clientVars, Typed, TypeOK
<1>2. uq' = uq \/ UmbrellaTakes(Action) \/ UmbrellaTakes(Registration(d))
  BY DEF ClientReceiver, ClientReceives, HandlerSends, ClientBinds, SetHandlers, BindEvents,
         ClientSends, ClientEnds, umbrellaVars
<1>3. \A m \in {Action, Registration(d)} : m \in Messages /\ m # Registration(c)
  BY MessageTypes
<1>4. Unasked(c) => Unasked(c)'
  <2>1. uq' = uq /\ Unasked(c) => Unasked(c)'
    BY <1>1 DEF Unasked
  <2> QED BY <1>1, <1>2, <1>3, <2>1, UnaskedTakes
<1> QED BY <1>1, <1>4 DEF FirstStart

LEMMA FirstSteps ==
  ASSUME Typed, NEW c \in Clients, FirstStart(c), [Next]_vars
  PROVE  FirstStart(c)'
<1>1. CASE UNCHANGED vars \/ AppReceives
  BY <1>1 DEF AppReceives, vars, umbrellaVars, clientVars, FirstStart, Unasked
<1>2. CASE AppSends
  <2>1. sent + 1 \in Events /\ UmbrellaTakes(Event(sent + 1))
        /\ UNCHANGED <<receivers, todo, client, cq, boots, unhandled>>
    BY <1>2, Numbers, IpcAssumption DEF AppSends, clientVars, Events
  <2>2. Event(sent + 1) \in Messages /\ Event(sent + 1) # Registration(c)
    BY <2>1, MessageTypes
  <2> QED BY <2>1, <2>2, UnaskedTakes DEF FirstStart
<1> QED BY <1>1, <1>2, FirstUmbrella, FirstOwn, FirstOther DEF Next

\* The first process of a client has set its handlers before an event can come.
THEOREM HandlersFirst == Safety => []HandlersBeforeEvents
<1> DEFINE First == \A c \in Clients : FirstStart(c)
<1>1. Init => First
  <2> SUFFICES ASSUME Init, NEW c \in Clients PROVE FirstStart(c)
    OBVIOUS
  <2>1. /\ boots[c] = 0 /\ client[c] = "down" /\ ~unhandled[c] /\ cq[c] = <<>>
        /\ receivers = {} /\ todo = {} /\ Len(uq) = 0
    BY DEF Init
  <2> QED BY <2>1 DEF FirstStart, Unasked
<1>2. Typed /\ First /\ [Next]_vars => First'
  BY FirstSteps
<1>3. First => HandlersBeforeEvents
  BY DEF FirstStart, HandlersBeforeEvents
<1> QED BY <1>1, <1>2, <1>3, TypesFirst, TypesKept, PTL DEF Safety
=============================================================================
