---------------------------- MODULE BrokerProofs ----------------------------
(***************************************************************************)
(* The broker's invariants hold for every number of connections, consumers *)
(* and producers, every set of addresses and every bound.                  *)
(*                                                                         *)
(* The argument is about the line of events.  MayPrecede says which event  *)
(* can wait before which other one; with it, the event at the front tells  *)
(* in what state its link and its connection are.                          *)
(***************************************************************************)
EXTENDS Broker, DispatchProofs

LinkKinds == {"link_opening", "sendable", "link_closing", "message"}
ConnKinds == {"connection_closing", "disconnected"}

\* A link's first event is its opening and its last one its closing; after the
\* end of a connection there is nothing of it; messages are in sequence.
MayPrecede(e, f) ==
  /\ e.kind \in LinkKinds /\ f.kind \in LinkKinds /\ e.link = f.link =>
       e.kind /= "link_closing" /\ f.kind /= "link_opening"
  /\ e.kind \in ConnKinds /\ f.kind \in LinkKinds => ConnOf[f.link] /= e.conn
  /\ e.kind \in ConnKinds /\ f.kind \in ConnKinds => f.conn /= e.conn
  /\ e.kind = "message" /\ f.kind = "message" => e.id < f.id

Ordered(s) == \A i, j \in DOMAIN s : i < j => MayPrecede(s[i], s[j])

\* What a waiting event says about its link or connection.
Valid(e) ==
  /\ e.kind \in LinkKinds => /\ conn[ConnOf[e.link]] /= "removed"
                             /\ local[e.link] /= "closed"
                             /\ remote[e.link] /= "uninit"
  /\ e.kind \in ConnKinds => conn[e.conn] = "lost"
  /\ e.kind = "link_opening" => local[e.link] = "uninit"
  /\ e.kind = "link_closing" => remote[e.link] = "closed"
  /\ e.kind = "sendable" => e.link \in Consumers
  /\ e.kind = "message" => local[e.link] = "active" /\ e.id <= arrived

EventsValid == Ordered(events) /\ \A e \in Elements(events) : Valid(e)

OpeningOf(l)  == [kind |-> "link_opening", link |-> l]
ClosingOf(l)  == [kind |-> "link_closing", link |-> l]
SendableOf(l) == [kind |-> "sendable", link |-> l]

\* What the peer did and the broker has not handled is in the line.
PeersHeard ==
  /\ \A l \in Links :
       /\ remote[l] = "uninit" => local[l] = "uninit"
       /\ local[l] = "closed" => remote[l] = "closed"
       /\ local[l] = "uninit" => node[l] = None
       /\ local[l] = "uninit" /\ remote[l] /= "uninit" =>
            OpeningOf(l) \in Elements(events)
       /\ remote[l] = "closed" /\ local[l] /= "closed" =>
            ClosingOf(l) \in Elements(events)
  /\ \A c \in Consumers : credit[c] > 0 /\ local[c] = "uninit" =>
       SendableOf(c) \in Elements(events)

\* A deleted queue is empty; fixed addresses are not temporary.
Tidy == /\ \A a \in Keys \ queues : msgs[a] = <<>>
        /\ \A a \in Named \cup {None} : a \notin dynamic

\* A message in a queue, or out of it, is older than every waiting one.
Older == \A a \in Keys : \A m \in Elements(msgs[a]) \cup Elements(taken[a]) :
           /\ m \in 1..arrived
           /\ \A e \in Elements(events) : e.kind = "message" => m < e.id

BrokerInv == /\ TypeOK
             /\ NoStaleConsumer
             /\ NoIdleQueue
             /\ NoStrandedMessage
             /\ EventsValid
             /\ PeersHeard
             /\ Tidy
             /\ Older

-----------------------------------------------------------------------------
(* Sequences of events. *)

LEMMA ElementsAppend ==
  ASSUME NEW S, NEW s \in Seq(S), NEW e \in S
  PROVE  Elements(Append(s, e)) = Elements(s) \cup {e}
<1> DEFINE t == Append(s, e)
<1>1. /\ DOMAIN s = 1..Len(s) /\ DOMAIN t = 1..Len(s) + 1 /\ Len(s) \in Nat
      /\ \A k \in 1..Len(s) : t[k] = s[k]
      /\ t[Len(s) + 1] = e
  BY AppendProperties, LenProperties
<1> HIDE DEF t
<1>2. 1..Len(s) + 1 = (1..Len(s)) \cup {Len(s) + 1}
  BY <1>1
<1>3. Elements(t) = {s[k] : k \in 1..Len(s)} \cup {e}
  BY <1>1, <1>2 DEF Elements
<1> QED BY <1>1, <1>3 DEF Elements, t

LEMMA ElementsConcat ==
  ASSUME NEW S, NEW s \in Seq(S), NEW t \in Seq(S)
  PROVE  Elements(s \o t) = Elements(s) \cup Elements(t)
<1> DEFINE w == s \o t
<1>1. /\ Len(s) \in Nat /\ Len(t) \in Nat
      /\ DOMAIN s = 1..Len(s) /\ DOMAIN t = 1..Len(t)
      /\ w \in Seq(S) /\ Len(w) = Len(s) + Len(t)
      /\ \A k \in 1..Len(s) + Len(t) :
           w[k] = IF k <= Len(s) THEN s[k] ELSE t[k - Len(s)]
  BY ConcatProperties, LenProperties
<1> HIDE DEF w
<1>2. DOMAIN w = 1..Len(s) + Len(t)
  BY <1>1, LenProperties
<1>3. ASSUME NEW k \in 1..Len(s) + Len(t)
      PROVE  w[k] \in Elements(s) \cup Elements(t)
  <2>1. CASE k <= Len(s)
    <3>1. k \in 1..Len(s)
      BY <2>1, <1>1
    <3> QED BY <2>1, <3>1, <1>1 DEF Elements
  <2>2. CASE ~(k <= Len(s))
    <3>1. k - Len(s) \in 1..Len(t)
      BY <2>2, <1>1
    <3> QED BY <2>2, <3>1, <1>1 DEF Elements
  <2> QED BY <2>1, <2>2
<1>4. ASSUME NEW k \in 1..Len(s) PROVE s[k] \in Elements(w)
  <2>1. k \in 1..Len(s) + Len(t) /\ k <= Len(s)
    BY <1>1
  <2> QED BY <2>1, <1>1, <1>2 DEF Elements
<1>5. ASSUME NEW k \in 1..Len(t) PROVE t[k] \in Elements(w)
  <2>1. /\ Len(s) + k \in 1..Len(s) + Len(t) /\ ~(Len(s) + k <= Len(s))
        /\ (Len(s) + k) - Len(s) = k
    BY <1>1
  <2>2. w[Len(s) + k] = t[k]
    BY <2>1, <1>1
  <2> QED BY <2>1, <2>2, <1>2 DEF Elements
<1>6. Elements(w) \subseteq Elements(s) \cup Elements(t)
  BY <1>2, <1>3 DEF Elements
<1>7. Elements(s) \subseteq Elements(w) /\ Elements(t) \subseteq Elements(w)
  BY <1>1, <1>4, <1>5 DEF Elements
<1> QED BY <1>6, <1>7 DEF w

LEMMA ElementsTail ==
  ASSUME NEW S, NEW s \in Seq(S), s /= <<>>
  PROVE  /\ Elements(s) = Elements(Tail(s)) \cup {Head(s)}
         /\ Tail(s) \in Seq(S) /\ Head(s) \in S
         /\ \A k \in DOMAIN Tail(s) : /\ k + 1 \in DOMAIN s
                                      /\ Tail(s)[k] = s[k + 1] /\ k \in Nat
         /\ 1 \in DOMAIN s /\ Head(s) = s[1]
<1> DEFINE t == Tail(s)
<1>1. /\ Len(s) \in Nat \ {0} /\ DOMAIN s = 1..Len(s)
      /\ t \in Seq(S) /\ Head(s) \in S /\ Len(t) = Len(s) - 1
      /\ DOMAIN t = 1..Len(s) - 1
      /\ \A k \in 1..Len(s) - 1 : t[k] = s[k + 1]
      /\ Head(s) = s[1]
  <2>1. /\ t \in Seq(S) /\ Head(s) \in S /\ Len(t) = Len(s) - 1
        /\ \A k \in 1..Len(t) : t[k] = s[k + 1]
    BY HeadTailProperties
  <2>2. Len(s) \in Nat \ {0} /\ DOMAIN s = 1..Len(s)
    BY EmptySeq, LenProperties
  <2>3. DOMAIN t = 1..Len(s) - 1
    <3> HIDE DEF t
    <3> QED BY <2>1, LenProperties
  <2> QED BY <2>1, <2>2, <2>3
<1> HIDE DEF t
<1>2. \A k \in 1..Len(s) - 1 : k + 1 \in 1..Len(s) /\ k \in Nat
  BY <1>1
<1>3. \A k \in 1..Len(s) : k = 1 \/ k - 1 \in 1..Len(s) - 1
  BY <1>1
<1>4. Elements(s) \subseteq Elements(t) \cup {Head(s)}
  <2> SUFFICES ASSUME NEW k \in 1..Len(s) PROVE s[k] \in Elements(t) \cup {Head(s)}
    BY <1>1 DEF Elements
  <2>1. CASE k = 1
    BY <2>1, <1>1
  <2>2. CASE k - 1 \in 1..Len(s) - 1
    <3>1. t[k - 1] = s[(k - 1) + 1] /\ (k - 1) + 1 = k
      BY <2>2, <1>1
    <3> QED BY <2>2, <3>1, <1>1 DEF Elements
  <2> QED BY <2>1, <2>2, <1>3
<1>5. Elements(t) \cup {Head(s)} \subseteq Elements(s)
  <2>1. 1 \in 1..Len(s)
    BY <1>1
  <2> QED BY <2>1, <1>1, <1>2 DEF Elements
<1>6. 1 \in 1..Len(s)
  BY <1>1
<1> QED BY <1>1, <1>2, <1>4, <1>5, <1>6 DEF t

\* A new event joins the line.
LEMMA ReadEvent ==
  ASSUME TypeOK, EventsValid, NEW e \in Event, Read(e),
         \A f \in Elements(events) : MayPrecede(f, e)
  PROVE  /\ events' \in Seq(Event)
         /\ Ordered(events')
         /\ Elements(events') = Elements(events) \cup {e}
<1>1. events \in Seq(Event) /\ events' = Append(events, e)
  BY DEF TypeOK, Read
<1>2. events' \in Seq(Event) /\ Elements(events') = Elements(events) \cup {e}
  BY <1>1, ElementsAppend, AppendProperties
<1>3. /\ DOMAIN events = 1..Len(events) /\ Len(events) \in Nat
      /\ DOMAIN events' = 1..Len(events) + 1
      /\ \A k \in 1..Len(events) : events'[k] = events[k]
      /\ events'[Len(events) + 1] = e
  BY <1>1, <1>2, AppendProperties, LenProperties
<1>4. ASSUME NEW i \in DOMAIN events', NEW j \in DOMAIN events', i < j
      PROVE  MayPrecede(events'[i], events'[j])
  <2>1. i \in 1..Len(events) /\ i \in DOMAIN events
    BY <1>3, <1>4
  <2>2. CASE j \in 1..Len(events)
    <3>1. MayPrecede(events[i], events[j])
      BY <2>1, <2>2, <1>3, <1>4 DEF EventsValid, Ordered
    <3> QED BY <2>1, <2>2, <3>1, <1>3
  <2>3. CASE j = Len(events) + 1
    <3>1. events[i] \in Elements(events)
      BY <2>1 DEF Elements
    <3> QED BY <2>1, <2>3, <3>1, <1>3
  <2> QED BY <2>2, <2>3, <1>3
<1> QED BY <1>2, <1>4 DEF Ordered

\* The first event leaves the line.
LEMMA HandledEvent ==
  ASSUME TypeOK, EventsValid, events /= <<>>, Handled
  PROVE  /\ events' \in Seq(Event)
         /\ Ordered(events')
         /\ Head(events) \in Event /\ Valid(Head(events))
         /\ Elements(events) = Elements(events') \cup {Head(events)}
         /\ \A f \in Elements(events') : MayPrecede(Head(events), f)
<1>1. events \in Seq(Event) /\ events' = Tail(events)
  BY DEF TypeOK, Handled
<1>2. /\ Elements(events) = Elements(events') \cup {Head(events)}
      /\ events' \in Seq(Event) /\ Head(events) \in Event
      /\ \A k \in DOMAIN events' : /\ k + 1 \in DOMAIN events
                                   /\ events'[k] = events[k + 1] /\ k \in Nat
      /\ 1 \in DOMAIN events /\ Head(events) = events[1]
  BY <1>1, ElementsTail
<1>3. \A i, j \in Nat : i < j => i + 1 < j + 1
  OBVIOUS
<1>4. Ordered(events')
  BY <1>2, <1>3 DEF Ordered, EventsValid
<1>5. ASSUME NEW f \in Elements(events') PROVE MayPrecede(Head(events), f)
  <2>1. PICK k \in DOMAIN events' : f = events'[k]
    BY DEF Elements
  <2>2. (k + 1 \in DOMAIN events /\ 1 < k + 1) \/ k = 0
    BY <1>2
  <2>3. k /= 0
    BY <1>2, LenProperties
  <2> QED BY <2>1, <2>2, <2>3, <1>2 DEF Ordered, EventsValid
<1>6. Valid(Head(events))
  BY <1>2 DEF EventsValid
<1> QED BY <1>2, <1>4, <1>5, <1>6

-----------------------------------------------------------------------------
(* The initial state. *)

LEMMA BrokerInvInit == Init => BrokerInv
<1> SUFFICES ASSUME Init PROVE BrokerInv
  OBVIOUS
<1> USE BrokerAssumption
<1>1. \A S : <<>> \in Seq(S)
  BY EmptySeq
<1>2. Elements(<<>>) = {}
  BY DEF Elements
<1>3. None \in Keys /\ Named \cup {None} \subseteq Keys
  BY DEF Keys, Address
<1>4. TypeOK
  <2>1. 0 \in 0..MaxMessages
    OBVIOUS
  <2> QED BY <2>1, <1>1, <1>3 DEF Init, TypeOK, LinkState
<1>5. NoStaleConsumer /\ NoIdleQueue /\ NoStrandedMessage
  BY DEF Init, NoStaleConsumer, NoIdleQueue, NoStrandedMessage, Willing, Links
<1>6. EventsValid
  BY <1>2 DEF Init, EventsValid, Ordered
<1>7. PeersHeard
  BY DEF Init, PeersHeard, Links
<1>8. Tidy /\ Older
  BY <1>2, <1>3 DEF Init, Tidy, Older
<1> QED BY <1>4, <1>5, <1>6, <1>7, <1>8 DEF BrokerInv

-----------------------------------------------------------------------------
(* What peers do. *)

\* Types of what an invariant state contains.
LEMMA Facts ==
  ASSUME BrokerInv
  PROVE  /\ TypeOK /\ NoStaleConsumer /\ NoIdleQueue /\ NoStrandedMessage
         /\ EventsValid /\ PeersHeard /\ Tidy /\ Older
         /\ Consumers \subseteq Links /\ Producers \subseteq Links
         /\ KnownAddresses \subseteq Address /\ Address \subseteq Keys
         /\ None \in Keys
         /\ \A l \in Links : ConnOf[l] \in Conns
         /\ IsFiniteSet(Consumers)
<1>1. TypeOK
  BY DEF BrokerInv
<1>2. KnownAddresses \subseteq Address
  <2>1. \A c \in Consumers : node[c] \in Address \cup {None}
    BY <1>1 DEF TypeOK, Keys, Links
  <2>2. Named \subseteq Address
    BY DEF Address
  <2> QED BY <2>1, <2>2 DEF KnownAddresses
<1> QED BY <1>2, BrokerAssumption DEF BrokerInv, Links, Keys

\* A step of a peer that leaves the broker's table alone and adds event e.
LEMMA PeerStep ==
  ASSUME BrokerInv, NEW e \in Event, Read(e),
         \A f \in Elements(events) : MayPrecede(f, e) /\ Valid(f)',
         Valid(e)', TypeOK', PeersHeard',
         UNCHANGED <<local, node, queues, dynamic, subs, ticket, msgs, taken, got>>,
         \A c \in Consumers : conn'[ConnOf[c]] = "removed" <=> conn[ConnOf[c]] = "removed",
         \A a \in Keys, c \in Consumers :
           Willing(c, a)' => Willing(c, a) \/ e = SendableOf(c),
         arrived <= arrived', e.kind = "message" => e.id = arrived + 1
  PROVE  BrokerInv'
<1>0. /\ TypeOK /\ NoStaleConsumer /\ NoIdleQueue /\ NoStrandedMessage
      /\ EventsValid /\ Tidy /\ Older
  BY Facts
<1>1. /\ Ordered(events')
      /\ Elements(events') = Elements(events) \cup {e}
  BY <1>0, ReadEvent
<1>2. EventsValid'
  BY <1>1 DEF EventsValid
<1>3. NoStaleConsumer' /\ NoIdleQueue' /\ Tidy'
  BY <1>0 DEF NoStaleConsumer, NoIdleQueue, Tidy
<1>4. NoStrandedMessage'
  BY <1>0, <1>1 DEF NoStrandedMessage, SendableOf
<1>5. Older'
  <2>1. ASSUME NEW a \in Keys, NEW m \in Elements(msgs[a]) \cup Elements(taken[a])
        PROVE  /\ m \in 1..arrived'
               /\ \A f \in Elements(events') : f.kind = "message" => m < f.id
    <3>1. m \in 1..arrived /\ arrived \in Nat /\ arrived' \in Nat
      BY <1>0 DEF Older, TypeOK
    <3>2. m \in 1..arrived' /\ m < arrived + 1
      BY <3>1
    <3>3. \A f \in Elements(events) : f.kind = "message" => m < f.id
      BY <1>0 DEF Older
    <3>4. e.kind = "message" => m < e.id
      BY <3>2
    <3> QED BY <3>2, <3>3, <3>4, <1>1
  <2> QED BY <2>1 DEF Older
<1> QED BY <1>2, <1>3, <1>4, <1>5 DEF BrokerInv

\* The first event of a link.
LEMMA AttachInv == ASSUME BrokerInv, NEW l \in Links, Attach(l) PROVE BrokerInv'
<1> USE Facts
<1>1. PICK e : e = OpeningOf(l)
  OBVIOUS
<1>2. /\ remote[l] = "uninit" /\ conn[ConnOf[l]] = "up" /\ ConnOf[l] \in Conns
      /\ remote' = [remote EXCEPT ![l] = "active"]
      /\ UNCHANGED <<conn, arrived, local, node, table, flow>>
      /\ Read(e)
  BY <1>1 DEF Attach, OpeningOf
<1>3. e \in Event /\ e.kind = "link_opening" /\ e.link = l
  BY <1>1 DEF Event, OpeningOf
<1>4. local[l] = "uninit"
  BY <1>2 DEF PeersHeard
<1>5. /\ events' \in Seq(Event)
      /\ Elements(events') = Elements(events) \cup {e}
      /\ \A f \in Elements(events) : MayPrecede(f, e)
  <2>1. ASSUME NEW f \in Elements(events) PROVE MayPrecede(f, e)
    <3>1. Valid(f)
      BY DEF EventsValid
    <3> QED BY <3>1, <1>2, <1>3 DEF MayPrecede, Valid, LinkKinds, ConnKinds
  <2> QED BY <2>1, <1>2, <1>3, ReadEvent
<1>6. \A f \in Elements(events) : Valid(f)'
  <2> SUFFICES ASSUME NEW f \in Elements(events) PROVE Valid(f)'
    OBVIOUS
  <2>1. Valid(f) /\ f \in Event
    BY DEF EventsValid, Elements, TypeOK
  <2>2. f.kind \in LinkKinds => f.link /= l
    BY <2>1, <1>2 DEF Valid
  <2>3. f.kind = "link_closing" => f.kind \in LinkKinds /\ f.link \in Links
    BY <2>1 DEF LinkKinds, Event
  <2>4. f.kind \in LinkKinds => f.link \in Links
    BY <2>1 DEF LinkKinds, Event
  <2> QED BY <2>1, <2>2, <2>3, <2>4, <1>2 DEF Valid, TypeOK
<1>7. Valid(e)'
  BY <1>2, <1>3, <1>4 DEF Valid, LinkKinds, ConnKinds, TypeOK
<1>8. TypeOK'
  <2>1. wants' \in [Links -> Keys \cup {DynamicSource}]
    <3>1. PICK w \in KnownAddresses \cup {None, DynamicSource} :
            wants' = [wants EXCEPT ![l] = w]
      BY DEF Attach
    <3> QED BY <3>1 DEF TypeOK
  <2>2. remote' \in [Links -> LinkState]
    BY <1>2 DEF TypeOK, LinkState
  <2> QED BY <2>1, <2>2, <1>2, <1>5 DEF TypeOK, table, flow
<1>9. PeersHeard'
  BY <1>1, <1>2, <1>4, <1>5 DEF PeersHeard, TypeOK, flow
<1>10. \A a \in Keys, c \in Consumers : Willing(c, a)' => Willing(c, a)
  <2>1. \A a \in Keys : l \in Consumers => l \notin subs[a]
    BY <1>4 DEF NoStaleConsumer
  <2> QED BY <2>1, <1>2 DEF Willing, TypeOK, table, flow
<1>11. arrived <= arrived' /\ UNCHANGED conn /\ e.kind /= "message"
  BY <1>2, <1>3 DEF TypeOK, peers
<1> QED BY <1>2, <1>5, <1>6, <1>7, <1>8, <1>9, <1>10, <1>11, <1>3, PeerStep
        DEF table, flow

\* More credit, with the event that tells of it.
LEMMA GrantCreditInv ==
  ASSUME BrokerInv, NEW c \in Consumers, GrantCredit(c) PROVE BrokerInv'
<1> USE Facts
<1>1. PICK e : e = SendableOf(c)
  OBVIOUS
<1>2. /\ remote[c] = "active" /\ conn[ConnOf[c]] = "up"
      /\ credit' = [credit EXCEPT ![c] = @ + 1]
      /\ UNCHANGED <<peers, local, node, table, msgs, taken, got>>
      /\ Read(e)
  BY <1>1 DEF GrantCredit, SendableOf, Opened
<1>3. e \in Event /\ e.kind = "sendable" /\ e.link = c
  BY <1>1 DEF Event, SendableOf
<1>5. /\ events' \in Seq(Event)
      /\ Elements(events') = Elements(events) \cup {e}
      /\ \A f \in Elements(events) : MayPrecede(f, e)
  <2>1. ASSUME NEW f \in Elements(events) PROVE MayPrecede(f, e)
    <3>1. Valid(f)
      BY DEF EventsValid
    <3> QED BY <3>1, <1>2, <1>3 DEF MayPrecede, Valid, LinkKinds, ConnKinds
  <2> QED BY <2>1, <1>2, <1>3, ReadEvent
<1>6. \A f \in Elements(events) : Valid(f)'
  BY <1>2 DEF EventsValid, Valid, peers
<1>7. Valid(e)'
  <2>1. local[c] /= "closed"
    BY <1>2 DEF PeersHeard
  <2> QED BY <2>1, <1>2, <1>3 DEF Valid, LinkKinds, ConnKinds, peers
<1>8. TypeOK'
  <2>1. credit' \in [Consumers -> Nat]
    BY <1>2 DEF TypeOK
  <2> QED BY <2>1, <1>2, <1>5 DEF TypeOK, table, peers
<1>9. PeersHeard'
  BY <1>1, <1>2, <1>5 DEF PeersHeard, TypeOK, peers
<1>10. \A a \in Keys, d \in Consumers :
         Willing(d, a)' => Willing(d, a) \/ e = SendableOf(d)
  BY <1>1, <1>2 DEF Willing, TypeOK, table, peers
<1>11. arrived <= arrived' /\ UNCHANGED conn /\ e.kind /= "message"
  BY <1>2, <1>3 DEF TypeOK, peers
<1> QED BY <1>2, <1>5, <1>6, <1>7, <1>8, <1>9, <1>10, <1>11, <1>3, PeerStep
        DEF table, peers

\* The next message.
LEMMA TransferInv ==
  ASSUME BrokerInv, NEW p \in Producers, Transfer(p) PROVE BrokerInv'
<1> USE Facts
<1>1. PICK to \in KnownAddresses \cup {None} :
        Read([kind |-> "message", link |-> p, id |-> arrived + 1, to |-> to])
  BY DEF Transfer
<1>2. PICK e : e = [kind |-> "message", link |-> p, id |-> arrived + 1, to |-> to]
  OBVIOUS
<1>3. /\ remote[p] = "active" /\ conn[ConnOf[p]] = "up" /\ local[p] = "active"
      /\ UNCHANGED <<conn, remote, wants, local, node, table, flow>>
      /\ Read(e)
  BY <1>1, <1>2 DEF Transfer, Opened
<1>a. arrived < MaxMessages /\ arrived' = arrived + 1 /\ arrived \in Nat
  BY DEF Transfer, TypeOK
<1>b. arrived + 1 \in Messages /\ arrived' \in 0..MaxMessages
  BY <1>a, BrokerAssumption DEF Messages
<1>4. /\ e \in Event /\ e.kind = "message" /\ e.link = p /\ e.id = arrived + 1
  BY <1>2, <1>b DEF Event
<1>5. /\ events' \in Seq(Event)
      /\ Elements(events') = Elements(events) \cup {e}
      /\ \A f \in Elements(events) : MayPrecede(f, e)
  <2>1. ASSUME NEW f \in Elements(events) PROVE MayPrecede(f, e)
    <3>1. Valid(f) /\ f \in Event
      BY DEF EventsValid, Elements, TypeOK
    <3>2. f.kind = "message" => f.id \in Nat /\ f.id <= arrived
      BY <3>1 DEF Valid, Event, Messages
    <3>3. f.kind = "message" => f.id < e.id
      BY <3>2, <1>4, <1>a
    <3> QED BY <3>1, <3>3, <1>3, <1>4 DEF MayPrecede, Valid, LinkKinds, ConnKinds
  <2> QED BY <2>1, <1>3, <1>4, ReadEvent
<1>6. \A f \in Elements(events) : Valid(f)'
  <2> SUFFICES ASSUME NEW f \in Elements(events) PROVE Valid(f)'
    OBVIOUS
  <2>1. Valid(f) /\ f \in Event
    BY DEF EventsValid, Elements, TypeOK
  <2>2. f.kind = "message" => f.id <= arrived'
    <3>1. f.kind = "message" => f.id \in Nat /\ f.id <= arrived
      BY <2>1 DEF Valid, Event, Messages
    <3> QED BY <3>1, <1>a
  <2> QED BY <2>1, <2>2, <1>3 DEF Valid
<1>7. Valid(e)'
  <2>1. e.id <= arrived'
    BY <1>4, <1>a
  <2> QED BY <2>1, <1>3, <1>4 DEF Valid, LinkKinds, ConnKinds
<1>8. TypeOK'
  BY <1>b, <1>3, <1>5 DEF TypeOK, table, flow
<1>9. PeersHeard'
  BY <1>3, <1>5 DEF PeersHeard, flow
<1>10. \A a \in Keys, c \in Consumers : Willing(c, a)' => Willing(c, a)
  BY <1>3 DEF Willing, table, flow
<1>11. arrived <= arrived'
  BY <1>a
<1> QED BY <1>3, <1>4, <1>5, <1>6, <1>7, <1>8, <1>9, <1>10, <1>11, PeerStep
        DEF table, flow

\* The last event of a link.
LEMMA DetachInv == ASSUME BrokerInv, NEW l \in Links, Detach(l) PROVE BrokerInv'
<1> USE Facts
<1>1. PICK e : e = ClosingOf(l)
  OBVIOUS
<1>2. /\ remote[l] = "active" /\ conn[ConnOf[l]] = "up" /\ ConnOf[l] \in Conns
      /\ remote' = [remote EXCEPT ![l] = "closed"]
      /\ UNCHANGED <<conn, wants, arrived, local, node, table, flow>>
      /\ Read(e)
  BY <1>1 DEF Detach, ClosingOf, Opened
<1>3. e \in Event /\ e.kind = "link_closing" /\ e.link = l
  BY <1>1 DEF Event, ClosingOf
<1>4. local[l] /= "closed"
  BY <1>2 DEF PeersHeard
<1>5. /\ events' \in Seq(Event)
      /\ Elements(events') = Elements(events) \cup {e}
      /\ \A f \in Elements(events) : MayPrecede(f, e)
  <2>1. ASSUME NEW f \in Elements(events) PROVE MayPrecede(f, e)
    <3>1. Valid(f)
      BY DEF EventsValid
    <3> QED BY <3>1, <1>2, <1>3 DEF MayPrecede, Valid, LinkKinds, ConnKinds
  <2> QED BY <2>1, <1>2, <1>3, ReadEvent
<1>6. \A f \in Elements(events) : Valid(f)'
  <2> SUFFICES ASSUME NEW f \in Elements(events) PROVE Valid(f)'
    OBVIOUS
  <2>1. Valid(f) /\ f \in Event
    BY DEF EventsValid, Elements, TypeOK
  <2>2. f.kind = "link_closing" => f.link /= l
    BY <2>1, <1>2 DEF Valid
  <2>3. f.kind \in LinkKinds => f.link \in Links
    BY <2>1 DEF LinkKinds, Event
  <2>4. f.kind = "link_closing" => f.link \in Links
    BY <2>3 DEF LinkKinds
  <2> QED BY <2>1, <2>2, <2>3, <2>4, <1>2 DEF Valid, TypeOK
<1>7. Valid(e)'
  BY <1>2, <1>3, <1>4 DEF Valid, LinkKinds, ConnKinds, TypeOK
<1>8. TypeOK'
  <2>1. remote' \in [Links -> LinkState]
    BY <1>2 DEF TypeOK, LinkState
  <2> QED BY <2>1, <1>2, <1>5 DEF TypeOK, table, flow
<1>9. PeersHeard'
  BY <1>1, <1>2, <1>4, <1>5 DEF PeersHeard, TypeOK, flow
<1>10. \A a \in Keys, c \in Consumers : Willing(c, a)' => Willing(c, a)
  BY <1>2 DEF Willing, TypeOK, table, flow
<1>11. arrived <= arrived' /\ UNCHANGED conn /\ e.kind /= "message"
  BY <1>2, <1>3 DEF TypeOK, peers
<1> QED BY <1>2, <1>5, <1>6, <1>7, <1>8, <1>9, <1>10, <1>11, <1>3, PeerStep
        DEF table, flow

\* The last event of a connection.
LEMMA LeaveConnectionInv ==
  ASSUME BrokerInv, NEW k \in Conns, LeaveConnection(k) PROVE BrokerInv'
<1> USE Facts
<1>1. PICK kind \in ConnKinds : Read([kind |-> kind, conn |-> k])
  BY DEF LeaveConnection, ConnKinds
<1>a. PICK e : e = [kind |-> kind, conn |-> k]
  OBVIOUS
<1>2. /\ conn[k] = "up" /\ conn' = [conn EXCEPT ![k] = "lost"]
      /\ UNCHANGED <<remote, wants, arrived, local, node, table, flow>>
      /\ Read(e)
  BY <1>1, <1>a DEF LeaveConnection
<1>3. e \in Event /\ e.kind \in ConnKinds /\ e.conn = k
  BY <1>a DEF Event, ConnKinds
<1>5. /\ events' \in Seq(Event)
      /\ Elements(events') = Elements(events) \cup {e}
      /\ \A f \in Elements(events) : MayPrecede(f, e)
  <2>1. ASSUME NEW f \in Elements(events) PROVE MayPrecede(f, e)
    <3>1. Valid(f)
      BY DEF EventsValid
    <3> QED BY <3>1, <1>2, <1>3 DEF MayPrecede, Valid, LinkKinds, ConnKinds
  <2> QED BY <2>1, <1>2, <1>3, ReadEvent
<1>6. \A f \in Elements(events) : Valid(f)'
  <2> SUFFICES ASSUME NEW f \in Elements(events) PROVE Valid(f)'
    OBVIOUS
  <2>1. Valid(f) /\ f \in Event
    BY DEF EventsValid, Elements, TypeOK
  <2>2. f.kind \in LinkKinds => f.link \in Links
    BY <2>1 DEF LinkKinds, Event
  <2>3. f.kind \in ConnKinds => f.conn \in Conns
    BY <2>1 DEF ConnKinds, Event
  <2> QED BY <2>1, <2>2, <2>3, <1>2 DEF Valid, TypeOK
<1>7. Valid(e)'
  BY <1>2, <1>3 DEF Valid, LinkKinds, ConnKinds, TypeOK
<1>8. TypeOK'
  <2>1. conn' \in [Conns -> {"up", "lost", "removed"}]
    BY <1>2 DEF TypeOK
  <2> QED BY <2>1, <1>2, <1>5 DEF TypeOK, table, flow
<1>9. PeersHeard'
  BY <1>2, <1>5 DEF PeersHeard, flow
<1>10. \A a \in Keys, c \in Consumers : Willing(c, a)' => Willing(c, a)
  BY <1>2 DEF Willing, table, flow
<1>11. \A c \in Consumers :
         conn'[ConnOf[c]] = "removed" <=> conn[ConnOf[c]] = "removed"
  BY <1>2 DEF TypeOK
<1>12. e.kind /= "message" /\ arrived <= arrived'
  BY <1>2, <1>3 DEF ConnKinds, TypeOK
<1> QED BY <1>2, <1>3, <1>5, <1>6, <1>7, <1>8, <1>9, <1>10, <1>11, <1>12,
           PeerStep DEF table, flow

-----------------------------------------------------------------------------
(* What the handlers do to a queue. *)

\* Dispatching the content q of the queue a to the consumers S: what does not
\* remain has left, and if anything remains then S has no credit any more.
LEMMA Dispatched ==
  ASSUME TypeOK, IsFiniteSet(Consumers), Consumers \subseteq Links,
         NEW a \in Keys, NEW q \in Seq(Messages),
         NEW S \in SUBSET Consumers, DispatchTo(a, q, S)
  PROVE  /\ queues' \subseteq Keys /\ queues' = queues \cup {a}
         /\ msgs' \in [Keys -> Seq(Messages)]
         /\ taken' \in [Keys -> Seq(Messages)]
         /\ got' \in [Consumers -> Seq(Messages)]
         /\ credit' \in [Consumers -> Nat]
         /\ UNCHANGED <<dynamic, subs, ticket>>
         /\ \A b \in Keys \ {a} : msgs'[b] = msgs[b] /\ taken'[b] = taken[b]
         /\ msgs'[a] = Rest(q, S, credit)
         /\ taken'[a] = taken[a] \o Taken(q, S, credit)
         /\ \A c \in Consumers : /\ credit'[c] > 0 => credit[c] > 0
                                 /\ c \notin S => credit'[c] = credit[c]
         /\ msgs'[a] /= <<>> => \A c \in S : credit'[c] = 0
         /\ S = {} => msgs'[a] = q
         /\ q = <<>> => msgs'[a] = <<>>
<1>1. IsFiniteSet(S)
  BY FS_Subset
<1>2. /\ \A c \in S : credit[c] \in Nat /\ ticket[c] \in Nat
      /\ \A c \in Consumers : credit[c] \in Nat
      /\ credit \in [Consumers -> Nat]
  BY DEF TypeOK
<1>3. /\ queues' = queues \cup {a}
      /\ msgs' = [msgs EXCEPT ![a] = Rest(q, S, credit)]
      /\ taken' = [taken EXCEPT ![a] = @ \o Taken(q, S, credit)]
      /\ got' = [c \in Consumers |-> got[c] \o Share(q, S, credit, ticket, c)]
      /\ credit' = [c \in Consumers |->
                      credit[c] - Quota(q, S, credit, ticket, c)]
      /\ UNCHANGED <<dynamic, subs, ticket>>
  BY DEF DispatchTo
<1>4. /\ Rest(q, S, credit) \in Seq(Messages)
      /\ Taken(q, S, credit) \in Seq(Messages)
  BY <1>1, <1>2, RestAndTaken
<1>5. msgs' \in [Keys -> Seq(Messages)]
  BY <1>3, <1>4 DEF TypeOK
<1>6. taken' \in [Keys -> Seq(Messages)] /\ taken'[a] = taken[a] \o Taken(q, S, credit)
  <2>1. taken \in [Keys -> Seq(Messages)]
    BY DEF TypeOK
  <2>2. taken[a] \o Taken(q, S, credit) \in Seq(Messages)
    BY <2>1, <1>4, ConcatProperties
  <2> QED BY <2>1, <2>2, <1>3
<1>7. got' \in [Consumers -> Seq(Messages)]
  <2>1. ASSUME NEW c \in Consumers
        PROVE  got[c] \o Share(q, S, credit, ticket, c) \in Seq(Messages)
    <3>1. got[c] \in Seq(Messages)
      BY DEF TypeOK
    <3>2. Share(q, S, credit, ticket, c) \in Seq(Messages)
      BY <1>1, <1>2, ShareType
    <3> QED BY <3>1, <3>2, ConcatProperties
  <2> QED BY <2>1, <1>3
<1>8. ASSUME NEW c \in Consumers
      PROVE  /\ credit'[c] \in Nat
             /\ credit'[c] > 0 => credit[c] > 0
             /\ c \notin S => credit'[c] = credit[c]
             /\ msgs'[a] /= <<>> /\ c \in S => credit'[c] = 0
  <2> DEFINE n == Quota(q, S, credit, ticket, c)
  <2>1. credit[c] \in Nat /\ credit'[c] = credit[c] - n
    BY <1>2, <1>3
  <2>2. n \in 0..credit[c] /\ (c \notin S => n = 0)
    BY <2>1, <1>1, QuotaRange
  <2>3. msgs'[a] = Rest(q, S, credit)
    BY <1>3 DEF TypeOK
  <2>4. msgs'[a] /= <<>> /\ c \in S => n = credit[c]
    BY <2>3, <1>1, <1>2, WorkConserving
  <2> HIDE DEF n
  <2>5. credit'[c] \in Nat /\ (credit'[c] > 0 => credit[c] > 0)
    BY <2>1, <2>2
  <2>6. c \notin S => credit'[c] = credit[c]
    BY <2>1, <2>2
  <2>7. n = credit[c] => credit'[c] = 0
    BY <2>1
  <2> QED BY <2>4, <2>5, <2>6, <2>7
<1>9. credit' \in [Consumers -> Nat]
  BY <1>3, <1>8
<1>10. queues' \subseteq Keys
  BY <1>3 DEF TypeOK
<1>11. S = {} => Rest(q, S, credit) = q
  BY NobodyServed
<1>12. /\ \A b \in Keys \ {a} : msgs'[b] = msgs[b] /\ taken'[b] = taken[b]
       /\ msgs'[a] = Rest(q, S, credit)
  BY <1>3 DEF TypeOK
<1>13. q = <<>> => Rest(q, S, credit) = <<>>
  <2>1. PICK n : n = Served(q, S, credit)
    OBVIOUS
  <2>2. PICK r : r = Rest(q, S, credit)
    OBVIOUS
  <2>3. n \in 0..Len(q) /\ Len(r) = Len(q) - n /\ r \in Seq(Messages)
    BY <2>1, <2>2, <1>1, <1>2, RestAndTaken
  <2>4. q = <<>> => Len(q) = 0
    BY EmptySeq
  <2>5. q = <<>> => Len(r) = 0
    BY <2>3, <2>4
  <2> QED BY <2>2, <2>3, <2>5, EmptySeq
<1> QED BY <1>3, <1>5, <1>6, <1>7, <1>8, <1>9, <1>10, <1>11, <1>12, <1>13

\* Nothing appears in a queue, or out of it, that was not in q.
LEMMA DispatchedElements ==
  ASSUME TypeOK, IsFiniteSet(Consumers), Consumers \subseteq Links,
         NEW a \in Keys, NEW q \in Seq(Messages),
         NEW S \in SUBSET Consumers, DispatchTo(a, q, S)
  PROVE  Elements(msgs'[a]) \cup Elements(taken'[a])
           \subseteq Elements(q) \cup Elements(taken[a])
<1>1. IsFiniteSet(S) /\ \A c \in S : credit[c] \in Nat
  BY FS_Subset DEF TypeOK
<1>2. PICK r : r = Rest(q, S, credit)
  OBVIOUS
<1>3. PICK t : t = Taken(q, S, credit)
  OBVIOUS
<1>4. PICK n : n = Served(q, S, credit)
  OBVIOUS
<1>5. PICK u : u = taken[a]
  OBVIOUS
<1>6. msgs'[a] = r /\ taken'[a] = u \o t /\ u \in Seq(Messages)
  <2>1. u \in Seq(Messages)
    BY <1>5 DEF TypeOK
  <2>2. /\ msgs'[a] = Rest(q, S, credit)
        /\ taken'[a] = taken[a] \o Taken(q, S, credit)
    BY Dispatched
  <2> QED BY <2>1, <2>2, <1>2, <1>3, <1>5
<1>7. /\ n \in 0..Len(q) /\ Len(q) \in Nat
      /\ r \in Seq(Messages) /\ Len(r) = Len(q) - n
      /\ \A k \in 1..Len(r) : r[k] = q[n + k]
      /\ t \in Seq(Messages) /\ Len(t) = n
      /\ \A k \in 1..Len(t) : t[k] = q[k]
  <2>1. /\ Served(q, S, credit) \in 0..Len(q)
        /\ Rest(q, S, credit) \in Seq(Messages)
        /\ Len(Rest(q, S, credit)) = Len(q) - Served(q, S, credit)
        /\ \A k \in 1..Len(Rest(q, S, credit)) :
             Rest(q, S, credit)[k] = q[Served(q, S, credit) + k]
        /\ Taken(q, S, credit) \in Seq(Messages)
        /\ Len(Taken(q, S, credit)) = Served(q, S, credit)
        /\ \A k \in 1..Len(Taken(q, S, credit)) : Taken(q, S, credit)[k] = q[k]
    <3>1. /\ Served(q, S, credit) \in 0..Len(q)
          /\ Rest(q, S, credit) \in Seq(Messages)
          /\ Len(Rest(q, S, credit)) = Len(q) - Served(q, S, credit)
          /\ Taken(q, S, credit) \in Seq(Messages)
          /\ Len(Taken(q, S, credit)) = Served(q, S, credit)
      BY <1>1, RestAndTaken
    <3>2. \A k \in 1..Len(Rest(q, S, credit)) :
            Rest(q, S, credit)[k] = q[Served(q, S, credit) + k]
      BY <1>1, RestAndTaken
    <3>3. \A k \in 1..Len(Taken(q, S, credit)) : Taken(q, S, credit)[k] = q[k]
      BY <1>1, RestAndTaken
    <3> QED BY <3>1, <3>2, <3>3
  <2>2. Len(q) \in Nat
    BY LenProperties
  <2> QED BY <2>1, <2>2, <1>2, <1>3, <1>4
<1>8. /\ DOMAIN q = 1..Len(q) /\ DOMAIN r = 1..Len(r) /\ DOMAIN t = 1..Len(t)
  BY <1>7, LenProperties
<1>9. Elements(r) \subseteq Elements(q)
  <2> SUFFICES ASSUME NEW k \in 1..Len(r) PROVE r[k] \in Elements(q)
    BY <1>8 DEF Elements
  <2>1. n + k \in 1..Len(q)
    BY <1>7
  <2> QED BY <2>1, <1>7, <1>8 DEF Elements
<1>10. Elements(t) \subseteq Elements(q)
  <2> SUFFICES ASSUME NEW k \in 1..Len(t) PROVE t[k] \in Elements(q)
    BY <1>8 DEF Elements
  <2>1. k \in 1..Len(q)
    BY <1>7
  <2> QED BY <2>1, <1>7, <1>8 DEF Elements
<1>11. Elements(u \o t) = Elements(u) \cup Elements(t)
  BY <1>6, <1>7, ElementsConcat
<1> QED BY <1>5, <1>6, <1>9, <1>10, <1>11

\* The consumers L leave their queues; a queue that nobody needs goes with them.
LEMMA Unsubscribed ==
  ASSUME BrokerInv, NEW L \in SUBSET Consumers, Unsubscribe(L)
  PROVE  /\ subs' \in [Keys -> SUBSET Consumers]
         /\ \A a \in Keys : subs'[a] = subs[a] \ L
         /\ queues' \subseteq Keys /\ dynamic' \subseteq queues'
         /\ msgs' \in [Keys -> Seq(Messages)]
         /\ \A a \in Keys : msgs'[a] = msgs[a] \/ msgs'[a] = <<>>
         /\ \A a \in Named \cup {None} : msgs'[a] = msgs[a]
         /\ \A a \in Keys : subs'[a] /= {} => a \in queues'
         /\ Tidy' /\ NoIdleQueue'
         /\ UNCHANGED <<ticket, credit, taken, got>>
<1> USE Facts
<1>1. PICK D \in SUBSET Keys : D = Deleted(L)
  BY DEF Deleted, TypeOK
<1>2. /\ subs' = [a \in Keys |-> subs[a] \ L]
      /\ queues' = queues \ D
      /\ dynamic' = dynamic \ D
      /\ msgs' = [a \in Keys |-> IF a \in D THEN <<>> ELSE msgs[a]]
      /\ UNCHANGED <<ticket, credit, taken, got>>
  BY <1>1 DEF Unsubscribe
<1>3. \A a \in D : subs[a] \ L = {} /\ (a \in dynamic \/ msgs[a] = <<>>)
  BY <1>1 DEF Deleted
<1>4. \A a \in queues \ D :
        \/ subs[a] \ L /= {}
        \/ a \notin dynamic /\ msgs[a] /= <<>>
        \/ a \notin {node[l] : l \in L}
  BY <1>1 DEF Deleted
<1>5. subs' \in [Keys -> SUBSET Consumers] /\ \A a \in Keys : subs'[a] = subs[a] \ L
  BY <1>2 DEF TypeOK
<1>6. queues' \subseteq Keys /\ dynamic' \subseteq queues'
  BY <1>2 DEF TypeOK
<1>7. msgs' \in [Keys -> Seq(Messages)]
  <2>1. \A a \in Keys : msgs[a] \in Seq(Messages) /\ <<>> \in Seq(Messages)
    BY EmptySeq DEF TypeOK
  <2> QED BY <2>1, <1>2
<1>8. \A a \in Keys : msgs'[a] = IF a \in D THEN <<>> ELSE msgs[a]
  BY <1>2
<1>9. \A a \in Named \cup {None} : a \in Keys /\ a \notin dynamic
  BY DEF Tidy, Address, Keys
<1>10. \A a \in Named \cup {None} : msgs'[a] = msgs[a]
  BY <1>3, <1>8, <1>9
<1>11. \A a \in Keys : subs'[a] /= {} => a \in queues'
  BY <1>2, <1>3, <1>5 DEF NoStaleConsumer, TypeOK
<1>12. Tidy'
  BY <1>2, <1>8, <1>9 DEF Tidy, TypeOK
<1>13. NoIdleQueue'
  <2> SUFFICES ASSUME NEW a \in queues' \ {None}, subs'[a] = {}
               PROVE  a \notin dynamic' /\ msgs'[a] /= <<>>
    BY DEF NoIdleQueue
  <2>1. a \in queues /\ a \notin D /\ a \in Keys
    BY <1>2 DEF TypeOK
  <2>2. subs[a] \ L = {} /\ msgs'[a] = msgs[a]
    BY <2>1, <1>5, <1>8
  <2>3. a \notin {node[l] : l \in L} => subs[a] \cap L = {}
    BY <2>1 DEF NoStaleConsumer
  <2>4. a \notin dynamic /\ msgs[a] /= <<>>
    BY <2>1, <2>2, <2>3, <1>4 DEF NoIdleQueue
  <2> QED BY <2>1, <2>2, <2>4, <1>2
<1> QED BY <1>2, <1>5, <1>6, <1>7, <1>8, <1>10, <1>11, <1>12, <1>13

\* The event at the front, when it is of one link.
LEMMA FrontEvent ==
  ASSUME BrokerInv, events /= <<>>, Handled
  PROVE  /\ Head(events) \in Event /\ Valid(Head(events))
         /\ events' \in Seq(Event) /\ Ordered(events')
         /\ Elements(events) = Elements(events') \cup {Head(events)}
         /\ \A f \in Elements(events') : /\ f \in Event /\ Valid(f)
                                         /\ MayPrecede(Head(events), f)
         /\ Head(events).kind \in LinkKinds => Head(events).link \in Links
         /\ Head(events).kind \in ConnKinds => Head(events).conn \in Conns
         /\ \A f \in Elements(events') :
              /\ f.kind \in LinkKinds => f.link \in Links
              /\ f.kind \in ConnKinds => f.conn \in Conns
<1> USE Facts
<1>1. /\ events' \in Seq(Event)
      /\ Ordered(events')
      /\ Head(events) \in Event /\ Valid(Head(events))
      /\ Elements(events) = Elements(events') \cup {Head(events)}
      /\ \A f \in Elements(events') : MayPrecede(Head(events), f)
  BY HandledEvent
<1>2. \A f \in Elements(events') : Valid(f)
  BY <1>1 DEF EventsValid
<1>3. \A f \in Elements(events') : f \in Event
  BY <1>1 DEF Elements
<1>4. \A f \in Event : /\ f.kind \in LinkKinds => f.link \in Links
                       /\ f.kind \in ConnKinds => f.conn \in Conns
  BY DEF Event, LinkKinds, ConnKinds
<1> QED BY <1>1, <1>2, <1>3, <1>4

-----------------------------------------------------------------------------
(* The handlers. *)

\* What a handler that leaves the states of links and connections alone keeps.
LEMMA QuietHandler ==
  ASSUME BrokerInv, events /= <<>>, Handled,
         Head(events).kind \in {"sendable", "message"},
         UNCHANGED <<peers, local, node>>,
         \A c \in Consumers : credit'[c] > 0 => credit[c] > 0
  PROVE  /\ EventsValid' /\ PeersHeard'
         /\ local[Head(events).link] = "active"
         /\ \A c \in Consumers :
              SendableOf(c) \in Elements(events) =>
                SendableOf(c) \in Elements(events') \/ SendableOf(c) = Head(events)
<1> USE Facts
<1>1. PICK h : h = Head(events)
  OBVIOUS
<1>2. /\ h \in Event /\ Valid(h)
      /\ events' \in Seq(Event) /\ Ordered(events')
      /\ Elements(events) = Elements(events') \cup {h}
      /\ \A f \in Elements(events') : f \in Event /\ Valid(f) /\ MayPrecede(h, f)
      /\ h.kind \in LinkKinds => h.link \in Links
  BY <1>1, FrontEvent
<1>3. UNCHANGED <<conn, remote, wants, arrived, local, node>>
  BY DEF peers
<1>4. EventsValid'
  BY <1>2, <1>3 DEF EventsValid, Valid
<1>5. h.kind \in {"sendable", "message"} /\ h.kind \in LinkKinds
  BY <1>1 DEF LinkKinds
<1>6. \A l \in Links : /\ OpeningOf(l) /= h /\ OpeningOf(l).kind = "link_opening"
                       /\ OpeningOf(l).link = l /\ ClosingOf(l) /= h
  BY <1>5 DEF OpeningOf, ClosingOf
<1>7. local[h.link] = "active"
  <2>1. h.link \in Links
    BY <1>2, <1>5
  <2>2. local[h.link] /= "closed" /\ remote[h.link] /= "uninit"
    BY <1>2, <1>5 DEF Valid
  <2>3. local[h.link] = "uninit" => OpeningOf(h.link) \in Elements(events')
    BY <2>1, <2>2, <1>2, <1>6 DEF PeersHeard
  <2>4. OpeningOf(h.link) \notin Elements(events')
    BY <2>1, <1>2, <1>5, <1>6 DEF MayPrecede, LinkKinds
  <2>5. local[h.link] \in LinkState
    BY <2>1 DEF TypeOK
  <2> QED BY <2>2, <2>3, <2>4, <2>5 DEF LinkState
<1>8. PeersHeard'
  <2>1. \A c \in Consumers : local[c] = "uninit" => SendableOf(c) /= h
    BY <1>7 DEF SendableOf
  <2>2. \A c \in Consumers : credit'[c] > 0 /\ local'[c] = "uninit" =>
          SendableOf(c) \in Elements(events')
    BY <2>1, <1>2, <1>3 DEF PeersHeard
  <2>3. \A l \in Links :
          /\ remote'[l] = "uninit" => local'[l] = "uninit"
          /\ local'[l] = "closed" => remote'[l] = "closed"
          /\ local'[l] = "uninit" => node'[l] = None
          /\ local'[l] = "uninit" /\ remote'[l] /= "uninit" =>
               OpeningOf(l) \in Elements(events')
          /\ remote'[l] = "closed" /\ local'[l] /= "closed" =>
               ClosingOf(l) \in Elements(events')
    BY <1>2, <1>3, <1>6 DEF PeersHeard
  <2> QED BY <2>2, <2>3 DEF PeersHeard
<1> QED BY <1>1, <1>2, <1>4, <1>7, <1>8

LEMMA IgnoreFlowInv == ASSUME BrokerInv, IgnoreFlow PROVE BrokerInv'
<1> USE Facts
<1>1. /\ events /= <<>> /\ Head(events).kind = "sendable" /\ ~Sendable(Sender)
      /\ Handled
      /\ UNCHANGED <<conn, remote, wants, arrived, local, node, queues, dynamic,
                     subs, ticket, msgs, credit, taken, got>>
  BY DEF IgnoreFlow, Pending, peers, table, flow
<1>2. /\ EventsValid' /\ PeersHeard' /\ local[Sender] = "active"
      /\ \A c \in Consumers :
           SendableOf(c) \in Elements(events) =>
             SendableOf(c) \in Elements(events') \/ SendableOf(c) = Head(events)
  BY <1>1, QuietHandler DEF Sender, peers
<1>3. events' \in Seq(Event) /\ Elements(events') \subseteq Elements(events)
  BY <1>1, FrontEvent
<1>4. TypeOK'
  BY <1>1, <1>3 DEF TypeOK
<1>5. NoStaleConsumer' /\ NoIdleQueue' /\ Tidy'
  BY <1>1 DEF NoStaleConsumer, NoIdleQueue, Tidy
<1>6. NoStrandedMessage'
  <2>1. \A c \in Consumers, a \in Keys : Willing(c, a) => Sendable(c)
    BY DEF Willing, Sendable, NoStaleConsumer
  <2>2. \A c \in Consumers : SendableOf(c) = Head(events) => Sender = c
    BY DEF SendableOf, Sender
  <2> QED BY <2>1, <2>2, <1>1, <1>2 DEF NoStrandedMessage, Willing, SendableOf
<1>7. Older'
  BY <1>1, <1>3 DEF Older
<1> QED BY <1>2, <1>4, <1>5, <1>6, <1>7 DEF BrokerInv

\* The step of a handler that dispatches to some consumers of a queue.
LEMMA OnSendableInv == ASSUME BrokerInv, OnSendable PROVE BrokerInv'
<1> USE Facts
<1>1. PICK l : l = Sender
  OBVIOUS
<1>2. PICK a : a = node[l]
  OBVIOUS
<1>3. /\ events /= <<>> /\ Head(events).kind = "sendable" /\ Handled
      /\ remote[l] = "active" /\ credit[l] > 0
      /\ UNCHANGED <<peers, local, node>>
      /\ UNCHANGED <<conn, remote, wants, arrived, local, node>>
      /\ DispatchTo(a, msgs[a], {l})
  BY <1>1, <1>2 DEF OnSendable, Pending, Sendable, peers
<1>4. l \in Consumers /\ conn[ConnOf[l]] /= "removed"
  BY <1>1, <1>3, FrontEvent DEF Valid, LinkKinds, Sender
<1>5. a \in Keys /\ msgs[a] \in Seq(Messages) /\ {l} \in SUBSET Consumers
  BY <1>2, <1>4 DEF TypeOK
<1>6. /\ queues' \subseteq Keys /\ queues' = queues \cup {a}
      /\ msgs' \in [Keys -> Seq(Messages)]
      /\ taken' \in [Keys -> Seq(Messages)]
      /\ got' \in [Consumers -> Seq(Messages)]
      /\ credit' \in [Consumers -> Nat]
      /\ UNCHANGED <<dynamic, subs, ticket>>
      /\ \A b \in Keys \ {a} : msgs'[b] = msgs[b] /\ taken'[b] = taken[b]
      /\ \A c \in Consumers : /\ credit'[c] > 0 => credit[c] > 0
                              /\ c \notin {l} => credit'[c] = credit[c]
      /\ msgs'[a] /= <<>> => \A c \in {l} : credit'[c] = 0
      /\ msgs[a] = <<>> => msgs'[a] = <<>>
  <2> HIDE DEF DispatchTo
  <2> QED BY <1>3, <1>5, Dispatched
<1>7. /\ EventsValid' /\ PeersHeard' /\ local[l] = "active"
      /\ \A c \in Consumers :
           SendableOf(c) \in Elements(events) =>
             SendableOf(c) \in Elements(events') \/ SendableOf(c) = Head(events)
  BY <1>1, <1>3, <1>6, QuietHandler DEF Sender
<1>8. events' \in Seq(Event) /\ Elements(events') \subseteq Elements(events)
  BY <1>3, FrontEvent
<1>9. a /= None => l \in subs[a]
  BY <1>2, <1>4, <1>5, <1>7 DEF NoStaleConsumer
<1>10. TypeOK'
  <2>1. dynamic' \subseteq queues'
    BY <1>6 DEF TypeOK
  <2> QED BY <2>1, <1>3, <1>6, <1>8 DEF TypeOK
<1>11. NoStaleConsumer'
  BY <1>3, <1>6 DEF NoStaleConsumer
<1>12. NoIdleQueue'
  <2> SUFFICES ASSUME NEW b \in queues' \ {None}
               PROVE  subs[b] /= {} \/ (b \notin dynamic /\ msgs'[b] /= <<>>)
    BY <1>6 DEF NoIdleQueue
  <2>1. CASE b = a
    BY <2>1, <1>9
  <2>2. CASE b /= a
    BY <2>2, <1>6 DEF NoIdleQueue
  <2> QED BY <2>1, <2>2
<1>13. NoStrandedMessage'
  <2> SUFFICES ASSUME NEW b \in Keys, NEW c \in Consumers,
                      msgs'[b] /= <<>>, Willing(c, b)'
               PROVE  SendableOf(c) \in Elements(events')
    BY DEF NoStrandedMessage, SendableOf
  <2>1. c \in subs[b] /\ remote[c] = "active" /\ credit'[c] > 0 /\ credit[c] > 0
    BY <1>3, <1>6 DEF Willing
  <2>2. c /= l
    <3> SUFFICES ASSUME c = l PROVE FALSE
      OBVIOUS
    <3>1. b = a
      BY <2>1, <1>2 DEF NoStaleConsumer
    <3>2. credit'[c] = 0
      BY <3>1, <1>6
    <3> QED BY <3>2, <2>1
  <2>3. msgs[b] /= <<>>
    BY <1>6
  <2>4. SendableOf(c) \in Elements(events)
    BY <2>1, <2>3 DEF NoStrandedMessage, Willing, SendableOf
  <2>5. SendableOf(c) /= Head(events)
    BY <2>2, <1>1 DEF SendableOf, Sender
  <2> QED BY <2>4, <2>5, <1>7
<1>14. Tidy'
  BY <1>6 DEF Tidy
<1>15. Older'
  <2>1. Elements(msgs'[a]) \cup Elements(taken'[a])
          \subseteq Elements(msgs[a]) \cup Elements(taken[a])
    BY <1>3, <1>5, DispatchedElements
  <2>2. \A b \in Keys : Elements(msgs'[b]) \cup Elements(taken'[b])
                          \subseteq Elements(msgs[b]) \cup Elements(taken[b])
    BY <2>1, <1>6
  <2> HIDE DEF Elements
  <2> QED BY <2>2, <1>3, <1>8 DEF Older
<1> QED BY <1>7, <1>10, <1>11, <1>12, <1>13, <1>14, <1>15 DEF BrokerInv

LEMMA OnMessageInv == ASSUME BrokerInv, OnMessage PROVE BrokerInv'
<1> USE Facts
<1>1. PICK h : h = Head(events)
  OBVIOUS
<1>2. /\ events /= <<>> /\ h.kind = "message" /\ Handled
      /\ h \in Event /\ Valid(h)
      /\ h.kind \in LinkKinds /\ h.link \in Links
      /\ events' \in Seq(Event)
      /\ Elements(events) = Elements(events') \cup {h}
      /\ \A f \in Elements(events') : MayPrecede(h, f)
  <2>1. events /= <<>> /\ h.kind = "message" /\ Handled
    BY <1>1 DEF OnMessage, Pending
  <2>2. h.kind \in LinkKinds
    BY <2>1 DEF LinkKinds
  <2> QED BY <1>1, <2>1, <2>2, FrontEvent
<1>3. h.id \in Messages /\ h.to \in Keys
  BY <1>2 DEF Event
<1>4. PICK a : a = AddressOf(h)
  OBVIOUS
<1>5. PICK q : q = Append(msgs[a], h.id)
  OBVIOUS
<1>6. PICK S : S = subs[a]
  OBVIOUS
<1>7. /\ a \in Keys /\ msgs[a] \in Seq(Messages) /\ S \in SUBSET Consumers
      /\ q \in Seq(Messages) /\ q /= <<>>
      /\ Elements(q) = Elements(msgs[a]) \cup {h.id}
  <2>1. a \in Keys
    BY <1>2, <1>3, <1>4 DEF AddressOf, TypeOK
  <2>2. msgs[a] \in Seq(Messages) /\ S \in SUBSET Consumers
    BY <2>1, <1>6 DEF TypeOK
  <2>3. q \in Seq(Messages) /\ q /= <<>>
    BY <2>2, <1>3, <1>5, AppendProperties
  <2> QED BY <2>1, <2>2, <2>3, <1>3, <1>5, ElementsAppend
<1>8. /\ DispatchTo(a, q, S)
      /\ UNCHANGED <<peers, local, node>>
      /\ UNCHANGED <<conn, remote, wants, arrived, local, node>>
  BY <1>1, <1>4, <1>5, <1>6 DEF OnMessage, peers
<1>9. /\ queues' \subseteq Keys /\ queues' = queues \cup {a}
      /\ msgs' \in [Keys -> Seq(Messages)]
      /\ taken' \in [Keys -> Seq(Messages)]
      /\ got' \in [Consumers -> Seq(Messages)]
      /\ credit' \in [Consumers -> Nat]
      /\ UNCHANGED <<dynamic, subs, ticket>>
      /\ \A b \in Keys \ {a} : msgs'[b] = msgs[b] /\ taken'[b] = taken[b]
      /\ \A c \in Consumers : /\ credit'[c] > 0 => credit[c] > 0
                              /\ c \notin S => credit'[c] = credit[c]
      /\ msgs'[a] /= <<>> => \A c \in S : credit'[c] = 0
      /\ S = {} => msgs'[a] = q
  BY <1>7, <1>8, Dispatched
<1>10. /\ EventsValid' /\ PeersHeard'
       /\ \A c \in Consumers :
            SendableOf(c) \in Elements(events) =>
              SendableOf(c) \in Elements(events') \/ SendableOf(c) = h
  BY <1>1, <1>2, <1>8, <1>9, QuietHandler
<1>11. TypeOK'
  <2>1. dynamic' \subseteq queues'
    BY <1>9 DEF TypeOK
  <2> QED BY <2>1, <1>2, <1>8, <1>9 DEF TypeOK
<1>12. NoStaleConsumer'
  BY <1>8, <1>9 DEF NoStaleConsumer
<1>13. NoIdleQueue'
  <2> SUFFICES ASSUME NEW b \in queues' \ {None}, subs[b] = {}
               PROVE  b \notin dynamic /\ msgs'[b] /= <<>>
    BY <1>9 DEF NoIdleQueue
  <2>1. CASE b = a
    <3>1. msgs'[b] /= <<>>
      BY <2>1, <1>6, <1>7, <1>9
    <3>2. b \notin dynamic
      BY <2>1 DEF NoIdleQueue, TypeOK
    <3> QED BY <3>1, <3>2
  <2>2. CASE b /= a
    BY <2>2, <1>9 DEF NoIdleQueue
  <2> QED BY <2>1, <2>2
<1>14. NoStrandedMessage'
  <2> SUFFICES ASSUME NEW b \in Keys, NEW c \in Consumers,
                      msgs'[b] /= <<>>, Willing(c, b)'
               PROVE  SendableOf(c) \in Elements(events')
    BY DEF NoStrandedMessage, SendableOf
  <2>1. c \in subs[b] /\ remote[c] = "active" /\ credit'[c] > 0 /\ credit[c] > 0
    BY <1>8, <1>9 DEF Willing
  <2>2. b /= a
    <3> SUFFICES ASSUME b = a PROVE FALSE
      OBVIOUS
    <3>1. credit'[c] = 0
      BY <2>1, <1>6, <1>9
    <3> QED BY <3>1, <2>1
  <2>3. msgs[b] /= <<>>
    BY <2>2, <1>9
  <2>4. SendableOf(c) \in Elements(events)
    BY <2>1, <2>3 DEF NoStrandedMessage, Willing, SendableOf
  <2>5. SendableOf(c) /= h
    BY <1>2 DEF SendableOf
  <2> QED BY <2>4, <2>5, <1>10
<1>15. Tidy'
  BY <1>9 DEF Tidy
<1>16. Older'
  <2>1. Elements(msgs'[a]) \cup Elements(taken'[a])
          \subseteq Elements(q) \cup Elements(taken[a])
    BY <1>7, <1>8, DispatchedElements
  <2>2. \A b \in Keys : Elements(msgs'[b]) \cup Elements(taken'[b])
                 \subseteq Elements(msgs[b]) \cup Elements(taken[b]) \cup {h.id}
    BY <2>1, <1>7, <1>9
  <2>3. h.id \in 1..arrived
    <3>1. h.id \in Nat /\ h.id >= 1 /\ h.id <= arrived /\ arrived \in Nat
      BY <1>2, <1>3 DEF Valid, Messages, TypeOK
    <3> QED BY <3>1
  <2>4. \A f \in Elements(events') : f.kind = "message" => h.id < f.id
    BY <1>2 DEF MayPrecede
  <2> HIDE DEF Elements
  <2> QED BY <2>2, <2>3, <2>4, <1>2, <1>8 DEF Older
<1> QED BY <1>10, <1>11, <1>12, <1>13, <1>14, <1>15, <1>16 DEF BrokerInv

LEMMA OnLinkClosingInv == ASSUME BrokerInv, OnLinkClosing PROVE BrokerInv'
<1> USE Facts
<1>1. PICK h : h = Head(events)
  OBVIOUS
<1>2. PICK l : l = h.link
  OBVIOUS
<1>3. /\ events /= <<>> /\ h.kind = "link_closing" /\ Handled
      /\ h \in Event /\ Valid(h) /\ l \in Links
      /\ events' \in Seq(Event) /\ Ordered(events')
      /\ Elements(events) = Elements(events') \cup {h}
      /\ \A f \in Elements(events') :
           /\ Valid(f) /\ MayPrecede(h, f)
           /\ f.kind \in LinkKinds => f.link \in Links
  <2>1. events /= <<>> /\ h.kind = "link_closing" /\ Handled
    BY <1>1 DEF OnLinkClosing, Pending
  <2>2. h.kind \in LinkKinds
    BY <2>1 DEF LinkKinds
  <2> QED BY <1>1, <1>2, <2>1, <2>2, FrontEvent
<1>4. PICK L : L = {l} \cap Consumers
  OBVIOUS
<1>5. /\ Unsubscribe(L)
      /\ local' = [local EXCEPT ![l] = "closed"]
      /\ UNCHANGED <<conn, remote, wants, arrived, node>>
  BY <1>1, <1>2, <1>4 DEF OnLinkClosing, Sender, peers
<1>6. /\ subs' \in [Keys -> SUBSET Consumers]
      /\ \A a \in Keys : subs'[a] = subs[a] \ L
      /\ queues' \subseteq Keys /\ dynamic' \subseteq queues'
      /\ msgs' \in [Keys -> Seq(Messages)]
      /\ \A a \in Keys : msgs'[a] = msgs[a] \/ msgs'[a] = <<>>
      /\ \A a \in Keys : subs'[a] /= {} => a \in queues'
      /\ Tidy' /\ NoIdleQueue'
      /\ UNCHANGED <<ticket, credit, taken, got>>
  BY <1>4, <1>5, Unsubscribed
<1>7. remote[l] = "closed" /\ local \in [Links -> LinkState]
  BY <1>2, <1>3 DEF Valid, TypeOK
<1>8. TypeOK'
  <2>1. local' \in [Links -> LinkState]
    BY <1>5, <1>7 DEF LinkState
  <2> QED BY <2>1, <1>3, <1>5, <1>6 DEF TypeOK
<1>9. NoStaleConsumer'
  <2> SUFFICES ASSUME NEW c \in Consumers, NEW a \in Keys
               PROVE  /\ c \in subs'[a] <=> /\ node'[c] = a /\ a /= None
                                            /\ local'[c] = "active"
                                            /\ conn'[ConnOf[c]] /= "removed"
                      /\ c \in subs'[a] => a \in queues'
    BY DEF NoStaleConsumer
  <2>1. c \in subs'[a] => a \in queues'
    BY <1>6
  <2>2. CASE c = l
    <3>1. c \notin subs'[a] /\ local'[c] = "closed"
      BY <2>2, <1>4, <1>5, <1>6, <1>7
    <3> QED BY <2>1, <3>1
  <2>3. CASE c /= l
    <3>1. /\ c \in subs'[a] <=> c \in subs[a]
          /\ local'[c] = local[c]
      BY <2>3, <1>4, <1>5, <1>6, <1>7
    <3> QED BY <2>1, <3>1, <1>5 DEF NoStaleConsumer
  <2> QED BY <2>2, <2>3
<1>10. NoStrandedMessage'
  <2>1. \A c \in Consumers : SendableOf(c) /= h
    BY <1>3 DEF SendableOf
  <2>2. \A a \in Keys, c \in Consumers :
          msgs'[a] /= <<>> /\ Willing(c, a)' => msgs[a] /= <<>> /\ Willing(c, a)
    BY <1>5, <1>6 DEF Willing
  <2> QED BY <2>1, <2>2, <1>3 DEF NoStrandedMessage, SendableOf
<1>11. EventsValid'
  <2>1. ASSUME NEW f \in Elements(events') PROVE Valid(f)'
    <3>1. f.kind \in LinkKinds => f.link \in Links /\ f.link /= l
      BY <1>2, <1>3 DEF MayPrecede, LinkKinds
    <3>2. f.kind \in LinkKinds => local'[f.link] = local[f.link]
      BY <3>1, <1>5, <1>7
    <3>3. Valid(f)
      BY <1>3
    <3> QED BY <3>2, <3>3, <1>5 DEF Valid, LinkKinds
  <2> QED BY <2>1, <1>3 DEF EventsValid
<1>12. PeersHeard'
  <2>1. /\ \A k \in Links : /\ OpeningOf(k) /= h
                            /\ ClosingOf(k) = h => k = l
        /\ \A c \in Consumers : SendableOf(c) /= h
    BY <1>2, <1>3 DEF OpeningOf, ClosingOf, SendableOf
  <2>2. \A k \in Links : local'[k] = IF k = l THEN "closed" ELSE local[k]
    BY <1>5, <1>7
  <2>3. remote[l] /= "uninit"
    BY <1>7
  <2> QED BY <2>1, <2>2, <2>3, <1>3, <1>5, <1>6, <1>7 DEF PeersHeard
<1>13. Older'
  <2>1. \A a \in Keys : Elements(msgs'[a]) \subseteq Elements(msgs[a])
    <3>1. Elements(<<>>) = {}
      BY DEF Elements
    <3> QED BY <3>1, <1>6
  <2> HIDE DEF Elements
  <2> QED BY <2>1, <1>3, <1>5, <1>6 DEF Older
<1> QED BY <1>6, <1>8, <1>9, <1>10, <1>11, <1>12, <1>13 DEF BrokerInv

\* The end of a connection, closed or failed.
LEMMA ConnectionGoneInv ==
  ASSUME BrokerInv, OnConnectionClosing \/ OnDisconnected PROVE BrokerInv'
<1> USE Facts
<1>1. PICK h : h = Head(events)
  OBVIOUS
<1>2. PICK k : k = h.conn
  OBVIOUS
<1>3. /\ events /= <<>> /\ h.kind \in ConnKinds /\ Handled
      /\ h.kind \notin LinkKinds
      /\ RemoveStaleConsumers(k)
  BY <1>1, <1>2 DEF OnConnectionClosing, OnDisconnected, Pending, ConnKinds, LinkKinds
<1>4. /\ h \in Event /\ Valid(h) /\ k \in Conns
      /\ events' \in Seq(Event) /\ Ordered(events')
      /\ Elements(events) = Elements(events') \cup {h}
      /\ \A f \in Elements(events') :
           /\ Valid(f) /\ MayPrecede(h, f)
           /\ f.kind \in LinkKinds => f.link \in Links
           /\ f.kind \in ConnKinds => f.conn \in Conns
  BY <1>1, <1>2, <1>3, FrontEvent
<1>5. PICK L : L = RemoteActive(k)
  OBVIOUS
<1>6. /\ L \in SUBSET Consumers /\ Unsubscribe(L)
      /\ conn' = [conn EXCEPT ![k] = "removed"]
      /\ UNCHANGED <<remote, wants, arrived, local, node>>
  BY <1>3, <1>5 DEF RemoveStaleConsumers, RemoteActive
<1>7. /\ subs' \in [Keys -> SUBSET Consumers]
      /\ \A a \in Keys : subs'[a] = subs[a] \ L
      /\ queues' \subseteq Keys /\ dynamic' \subseteq queues'
      /\ msgs' \in [Keys -> Seq(Messages)]
      /\ \A a \in Keys : msgs'[a] = msgs[a] \/ msgs'[a] = <<>>
      /\ \A a \in Keys : subs'[a] /= {} => a \in queues'
      /\ Tidy' /\ NoIdleQueue'
      /\ UNCHANGED <<ticket, credit, taken, got>>
  BY <1>6, Unsubscribed
<1>8. /\ conn' \in [Conns -> {"up", "lost", "removed"}]
      /\ \A j \in Conns : conn'[j] = IF j = k THEN "removed" ELSE conn[j]
  BY <1>6 DEF TypeOK
<1>9. TypeOK'
  BY <1>4, <1>6, <1>7, <1>8 DEF TypeOK
<1>10. /\ \A l \in Links : OpeningOf(l) /= h /\ ClosingOf(l) /= h
       /\ \A c \in Consumers : SendableOf(c) /= h
  BY <1>3 DEF OpeningOf, ClosingOf, SendableOf, LinkKinds
<1>11. PeersHeard'
  BY <1>4, <1>6, <1>7, <1>10 DEF PeersHeard
<1>12. ASSUME NEW c \in Consumers, NEW a \in Keys, c \in subs[a], ConnOf[c] = k
       PROVE  c \in L
  <2>1. local[c] = "active"
    BY <1>12 DEF NoStaleConsumer
  <2>2. remote[c] /= "uninit"
    BY <2>1 DEF PeersHeard
  <2>3. remote[c] /= "closed"
    <3> SUFFICES ASSUME remote[c] = "closed" PROVE FALSE
      OBVIOUS
    <3>1. ClosingOf(c) \in Elements(events')
      BY <2>1, <1>4, <1>10 DEF PeersHeard
    <3>2. ClosingOf(c).kind \in LinkKinds /\ ClosingOf(c).link = c
      BY DEF ClosingOf, LinkKinds
    <3> QED BY <3>1, <3>2, <1>2, <1>3, <1>4, <1>12 DEF MayPrecede
  <2>4. remote[c] \in LinkState
    BY DEF TypeOK
  <2> QED BY <2>2, <2>3, <2>4, <1>5, <1>12 DEF RemoteActive, LinkState
<1>13. NoStaleConsumer'
  <2> SUFFICES ASSUME NEW c \in Consumers, NEW a \in Keys
               PROVE  /\ c \in subs'[a] <=> /\ node'[c] = a /\ a /= None
                                            /\ local'[c] = "active"
                                            /\ conn'[ConnOf[c]] /= "removed"
                      /\ c \in subs'[a] => a \in queues'
    BY DEF NoStaleConsumer
  <2>1. c \in subs'[a] => a \in queues'
    BY <1>7
  <2>2. CASE ConnOf[c] = k
    <3>1. c \notin subs'[a]
      BY <2>2, <1>7, <1>12
    <3>2. conn'[ConnOf[c]] = "removed"
      BY <2>2, <1>4, <1>8
    <3> QED BY <2>1, <3>1, <3>2
  <2>3. CASE ConnOf[c] /= k
    <3>1. c \in subs'[a] <=> c \in subs[a]
      BY <2>3, <1>5, <1>7 DEF RemoteActive
    <3>2. conn'[ConnOf[c]] = conn[ConnOf[c]]
      BY <2>3, <1>8
    <3> QED BY <2>1, <3>1, <3>2, <1>6 DEF NoStaleConsumer
  <2> QED BY <2>2, <2>3
<1>14. NoStrandedMessage'
  <2>1. \A a \in Keys, c \in Consumers :
          msgs'[a] /= <<>> /\ Willing(c, a)' => msgs[a] /= <<>> /\ Willing(c, a)
    BY <1>6, <1>7 DEF Willing
  <2> QED BY <2>1, <1>4, <1>10 DEF NoStrandedMessage, SendableOf
<1>15. EventsValid'
  <2>1. ASSUME NEW f \in Elements(events') PROVE Valid(f)'
    <3>1. f.kind \in LinkKinds => conn'[ConnOf[f.link]] = conn[ConnOf[f.link]]
      BY <1>2, <1>3, <1>4, <1>8 DEF MayPrecede
    <3>2. f.kind \in ConnKinds => conn'[f.conn] = conn[f.conn]
      BY <1>2, <1>3, <1>4, <1>8 DEF MayPrecede
    <3>3. Valid(f)
      BY <1>4
    <3> QED BY <3>1, <3>2, <3>3, <1>6 DEF Valid
  <2> QED BY <2>1, <1>4 DEF EventsValid
<1>16. Older'
  <2>1. \A a \in Keys : Elements(msgs'[a]) \subseteq Elements(msgs[a])
    <3>1. Elements(<<>>) = {}
      BY DEF Elements
    <3> QED BY <3>1, <1>7
  <2> HIDE DEF Elements
  <2> QED BY <2>1, <1>4, <1>6, <1>7 DEF Older
<1> QED BY <1>7, <1>9, <1>11, <1>13, <1>14, <1>15, <1>16 DEF BrokerInv

\* Link l is opened under the address a, as a consumer of a if T holds l.
LEMMA OpeningInv ==
  ASSUME BrokerInv, NEW l \in Links, Opening(l),
         NEW a \in Keys, NEW T \in SUBSET Consumers,
         UNCHANGED <<conn, remote, wants, arrived, msgs, credit, taken, got>>,
         node' = [node EXCEPT ![l] = a],
         T = IF l \in Consumers /\ a /= None THEN {l} ELSE {},
         queues' = queues \cup (IF T = {} THEN {} ELSE {a}),
         subs' \in [Keys -> SUBSET Consumers],
         \A b \in Keys : subs'[b] = subs[b] \cup (IF b = a THEN T ELSE {}),
         ticket' \in [Consumers -> Nat],
         dynamic' \subseteq dynamic \cup (IF T = {} THEN {} ELSE {a}),
         \A b \in Named \cup {None} : b \notin dynamic'
  PROVE  BrokerInv'
<1> USE Facts
<1>1. PICK h : h = Head(events)
  OBVIOUS
<1>2. /\ events /= <<>> /\ h.kind = "link_opening" /\ h.link = l /\ Handled
      /\ local' = [local EXCEPT ![l] = "active"]
      /\ h.kind \in LinkKinds
  BY <1>1 DEF Opening, Pending, LinkKinds
<1>3. /\ Valid(h)
      /\ events' \in Seq(Event) /\ Ordered(events')
      /\ Elements(events) = Elements(events') \cup {h}
      /\ \A f \in Elements(events') :
           /\ Valid(f) /\ MayPrecede(h, f)
           /\ f.kind \in LinkKinds => f.link \in Links
  BY <1>1, <1>2, FrontEvent
<1>4. /\ local[l] = "uninit" /\ remote[l] /= "uninit"
      /\ conn[ConnOf[l]] /= "removed"
  BY <1>2, <1>3 DEF Valid
<1>5. \A k \in Links : local'[k] = IF k = l THEN "active" ELSE local[k]
  BY <1>2 DEF TypeOK
<1>6. \A k \in Links : node'[k] = IF k = l THEN a ELSE node[k]
  BY DEF TypeOK
<1>7. TypeOK'
  <2>1. local' \in [Links -> LinkState]
    BY <1>2 DEF TypeOK, LinkState
  <2>2. node' \in [Links -> Keys]
    BY DEF TypeOK
  <2>3. dynamic' \subseteq queues' /\ queues' \subseteq Keys
    BY DEF TypeOK
  <2> QED BY <2>1, <2>2, <2>3, <1>3 DEF TypeOK
<1>8. NoStaleConsumer'
  <2> SUFFICES ASSUME NEW c \in Consumers, NEW b \in Keys
               PROVE  /\ c \in subs'[b] <=> /\ node'[c] = b /\ b /= None
                                            /\ local'[c] = "active"
                                            /\ conn'[ConnOf[c]] /= "removed"
                      /\ c \in subs'[b] => b \in queues'
    BY DEF NoStaleConsumer
  <2>1. CASE c = l
    <3>1. c \notin subs[b]
      BY <2>1, <1>4 DEF NoStaleConsumer
    <3> QED BY <2>1, <3>1, <1>4, <1>5, <1>6
  <2>2. CASE c /= l
    <3>1. c \in subs'[b] <=> c \in subs[b]
      BY <2>2
    <3>2. b \in queues => b \in queues'
      OBVIOUS
    <3> QED BY <2>2, <3>1, <3>2, <1>5, <1>6 DEF NoStaleConsumer
  <2> QED BY <2>1, <2>2
<1>9. NoIdleQueue'
  <2> SUFFICES ASSUME NEW b \in queues' \ {None}, subs'[b] = {}
               PROVE  b \notin dynamic' /\ msgs'[b] /= <<>>
    BY DEF NoIdleQueue
  <2>1. b \in Keys
    BY DEF TypeOK
  <2>2. ~(b = a /\ T /= {}) /\ subs[b] = {}
    BY <2>1
  <2>3. b \in queues
    BY <2>2
  <2> QED BY <2>2, <2>3 DEF NoIdleQueue
<1>10. NoStrandedMessage'
  <2> SUFFICES ASSUME NEW b \in Keys, NEW c \in Consumers,
                      msgs'[b] /= <<>>, Willing(c, b)'
               PROVE  SendableOf(c) \in Elements(events')
    BY DEF NoStrandedMessage, SendableOf
  <2>1. SendableOf(c) \in Elements(events)
    <3>1. CASE c = l
      BY <3>1, <1>4 DEF PeersHeard, Willing
    <3>2. CASE c /= l
      <4>1. c \in subs[b]
        BY <3>2 DEF Willing
      <4> QED BY <4>1 DEF NoStrandedMessage, Willing, SendableOf
    <3> QED BY <3>1, <3>2
  <2>2. SendableOf(c) /= h
    BY <1>2 DEF SendableOf
  <2> QED BY <2>1, <2>2, <1>3
<1>11. EventsValid'
  <2>1. ASSUME NEW f \in Elements(events') PROVE Valid(f)'
    <3>1. Valid(f) /\ (f.kind \in LinkKinds => f.link \in Links)
      BY <1>3
    <3>2. f.kind \in LinkKinds /\ f.link = l => f.kind /= "link_opening"
      BY <1>2, <1>3 DEF MayPrecede
    <3>3. f.kind \in LinkKinds =>
            local'[f.link] = IF f.link = l THEN "active" ELSE local[f.link]
      BY <3>1, <1>5
    <3>4. f.kind \in {"link_opening", "sendable", "link_closing", "message"}
            => f.kind \in LinkKinds
      BY DEF LinkKinds
    <3> QED BY <3>1, <3>2, <3>3, <3>4 DEF Valid
  <2> QED BY <2>1, <1>3 DEF EventsValid
<1>12. PeersHeard'
  <2>1. /\ \A k \in Links : /\ ClosingOf(k) /= h
                            /\ OpeningOf(k) = h => k = l
        /\ \A c \in Consumers : SendableOf(c) /= h
    BY <1>2 DEF OpeningOf, ClosingOf, SendableOf
  <2> QED BY <2>1, <1>3, <1>4, <1>5, <1>6 DEF PeersHeard
<1>13. Tidy'
  BY DEF Tidy
<1>14. Older'
  BY <1>3 DEF Older
<1> QED BY <1>7, <1>8, <1>9, <1>10, <1>11, <1>12, <1>13, <1>14 DEF BrokerInv

LEMMA NextTicketType == ASSUME IsFiniteSet(Consumers) PROVE NextTicket \in Nat
<1>1. {c \in Consumers : ticket[c] > 0} \in SUBSET Consumers
  OBVIOUS
<1>2. Cardinality({c \in Consumers : ticket[c] > 0}) \in Nat
  BY <1>1, FS_Subset, FS_CardinalityType
<1> QED BY <1>2 DEF NextTicket

LEMMA OnLinkOpeningInv == ASSUME BrokerInv, OnLinkOpening PROVE BrokerInv'
<1> USE Facts
<1>1. PICK l \in Links : \/ OpenDynamic(l) \/ OpenConsumer(l)
                         \/ OpenProducer(l) \/ OpenWithoutAddress(l)
  BY DEF OnLinkOpening
<1>2. Opening(l)
  BY <1>1 DEF OpenDynamic, OpenConsumer, OpenProducer, OpenWithoutAddress
<1>3. NextTicket \in Nat
  BY NextTicketType
<1>4. \A b \in Named \cup {None} : b \notin dynamic
  BY DEF Tidy
<1>5. ASSUME NEW a \in Address, l \in Consumers, Subscribe(l, a),
             dynamic' \subseteq dynamic \cup {a},
             \A b \in Named \cup {None} : b \notin dynamic'
      PROVE  BrokerInv'
  <2>1. a \in Keys /\ a /= None
    BY BrokerAssumption
  <2>2. /\ UNCHANGED <<conn, remote, wants, arrived, msgs, credit, taken, got>>
        /\ node' = [node EXCEPT ![l] = a]
        /\ queues' = queues \cup {a}
        /\ subs' = [subs EXCEPT ![a] = @ \cup {l}]
        /\ ticket' = [ticket EXCEPT ![l] = NextTicket]
    BY <1>5 DEF Subscribe, peers, flow
  <2>3. /\ subs' \in [Keys -> SUBSET Consumers]
        /\ \A b \in Keys : subs'[b] = subs[b] \cup (IF b = a THEN {l} ELSE {})
    BY <2>1, <2>2, <1>5 DEF TypeOK
  <2>4. ticket' \in [Consumers -> Nat]
    BY <2>2, <1>3 DEF TypeOK
  <2>5. PICK T \in SUBSET Consumers : T = {l}
    BY <1>5
  <2>6. /\ T = IF l \in Consumers /\ a /= None THEN {l} ELSE {}
        /\ queues' = queues \cup (IF T = {} THEN {} ELSE {a})
        /\ \A b \in Keys : subs'[b] = subs[b] \cup (IF b = a THEN T ELSE {})
        /\ dynamic' \subseteq dynamic \cup (IF T = {} THEN {} ELSE {a})
    BY <2>1, <2>2, <2>3, <2>5, <1>5
  <2> QED BY <2>1, <2>2, <2>3, <2>4, <2>6, <1>2, <1>5, OpeningInv
<1>6. ASSUME NEW a \in Keys, l \in Consumers => a = None,
             node' = [node EXCEPT ![l] = a], UNCHANGED <<peers, table, flow>>
      PROVE  BrokerInv'
  <2>1. /\ UNCHANGED <<conn, remote, wants, arrived, msgs, credit, taken, got>>
        /\ UNCHANGED <<queues, dynamic, subs, ticket>>
    BY <1>6 DEF peers, table, flow
  <2>2. PICK T \in SUBSET Consumers : T = {}
    OBVIOUS
  <2>3. /\ T = IF l \in Consumers /\ a /= None THEN {l} ELSE {}
        /\ queues' = queues \cup (IF T = {} THEN {} ELSE {a})
        /\ subs' \in [Keys -> SUBSET Consumers]
        /\ \A b \in Keys : subs'[b] = subs[b] \cup (IF b = a THEN T ELSE {})
        /\ ticket' \in [Consumers -> Nat]
        /\ dynamic' \subseteq dynamic \cup (IF T = {} THEN {} ELSE {a})
    BY <2>1, <2>2, <1>6 DEF TypeOK
  <2>4. \A b \in Named \cup {None} : b \notin dynamic'
    BY <2>1, <1>4
  <2> QED BY <2>1, <2>3, <2>4, <1>2, <1>6, OpeningInv
<1>7. CASE OpenDynamic(l)
  <2>1. /\ l \in Consumers /\ Subscribe(l, Uuid[l])
        /\ dynamic' = dynamic \cup {Uuid[l]}
    BY <1>7 DEF OpenDynamic
  <2>2. Uuid[l] \in Address
    BY <2>1 DEF Address
  <2>3. \A b \in Named \cup {None} : b /= Uuid[l]
    BY <2>1, <2>2, BrokerAssumption
  <2>4. \A b \in Named \cup {None} : b \notin dynamic'
    BY <2>1, <2>3, <1>4
  <2> QED BY <2>1, <2>2, <2>4, <1>5
<1>8. CASE OpenConsumer(l)
  <2>1. l \in Consumers /\ wants[l] \in Address /\ Subscribe(l, wants[l])
        /\ UNCHANGED dynamic
    BY <1>8 DEF OpenConsumer
  <2>2. \A b \in Named \cup {None} : b \notin dynamic'
    BY <2>1, <1>4
  <2> QED BY <2>1, <2>2, <1>5
<1>9. CASE OpenProducer(l)
  <2>1. /\ l \notin Consumers /\ wants[l] \in Keys
        /\ node' = [node EXCEPT ![l] = wants[l]]
        /\ UNCHANGED <<peers, table, flow>>
    BY <1>9, BrokerAssumption DEF OpenProducer
  <2> QED BY <2>1, <1>6
<1>10. CASE OpenWithoutAddress(l)
  <2>1. UNCHANGED <<peers, node, table, flow>>
    BY <1>10 DEF OpenWithoutAddress
  <2>2. node[l] = None
    <3>1. events /= <<>> /\ Handled /\ Head(events).kind = "link_opening"
          /\ Head(events).link = l
      BY <1>2 DEF Opening, Pending
    <3>2. Valid(Head(events))
      BY <3>1, FrontEvent
    <3>3. local[l] = "uninit"
      BY <3>1, <3>2 DEF Valid
    <3> QED BY <3>3 DEF PeersHeard
  <2>3. node' = [node EXCEPT ![l] = None]
    BY <2>1, <2>2 DEF TypeOK
  <2> QED BY <2>1, <2>3, <1>6
<1> QED BY <1>1, <1>7, <1>8, <1>9, <1>10

-----------------------------------------------------------------------------
(* The theorems. *)

LEMMA BrokerInvNext == BrokerInv /\ [Next]_vars => BrokerInv'
<1> SUFFICES ASSUME BrokerInv, [Next]_vars PROVE BrokerInv'
  OBVIOUS
<1>1. CASE Peer
  BY <1>1, AttachInv, DetachInv, GrantCreditInv, TransferInv, LeaveConnectionInv
     DEF Peer
<1>2. CASE Handle
  BY <1>2, OnLinkOpeningInv, OnSendableInv, IgnoreFlowInv, OnMessageInv,
     OnLinkClosingInv, ConnectionGoneInv DEF Handle
<1>3. CASE UNCHANGED vars
  <2>1. UNCHANGED <<conn, remote, local, wants, node, credit, events, arrived,
                    queues, dynamic, msgs, subs, ticket, taken, got>>
    BY <1>3 DEF vars, peers, table, flow
  <2>2. TypeOK' /\ NoStaleConsumer' /\ NoIdleQueue' /\ NoStrandedMessage'
    BY <2>1, Facts DEF TypeOK, NoStaleConsumer, NoIdleQueue, NoStrandedMessage, Willing
  <2>3. EventsValid' /\ PeersHeard' /\ Tidy' /\ Older'
    BY <2>1, Facts DEF EventsValid, Valid, PeersHeard, Tidy, Older
  <2> QED BY <2>2, <2>3 DEF BrokerInv
<1> QED BY <1>1, <1>2, <1>3 DEF Next

\* The strengthened invariant of the broker.
THEOREM BrokerInvariant == Spec => []BrokerInv
BY BrokerInvInit, BrokerInvNext, PTL DEF Spec

\* The broker's tables and the peers' links stay within their types, and a
\* temporary queue's flag goes with the queue (class Queue of broker.py).
THEOREM BrokerTypeCorrect == Spec => []TypeOK
<1>1. BrokerInv => TypeOK
  BY DEF BrokerInv
<1> QED BY <1>1, BrokerInvariant, PTL

\* on_link_closing and remove_stale_consumers leave no stale consumer behind
\* and drop none early, for any number of links, connections and addresses.
THEOREM NoStaleConsumerHolds == Spec => []NoStaleConsumer
<1>1. BrokerInv => NoStaleConsumer
  BY DEF BrokerInv
<1> QED BY <1>1, BrokerInvariant, PTL

\* unsubscribe deletes a queue as soon as nobody needs it.
THEOREM NoIdleQueueHolds == Spec => []NoIdleQueue
<1>1. BrokerInv => NoIdleQueue
  BY DEF BrokerInv
<1> QED BY <1>1, BrokerInvariant, PTL

\* publish and dispatch forget no message beside a consumer with credit.
THEOREM NoStrandedMessageHolds == Spec => []NoStrandedMessage
<1>1. BrokerInv => NoStrandedMessage
  BY DEF BrokerInv
<1> QED BY <1>1, BrokerInvariant, PTL

-----------------------------------------------------------------------------
(* Every fixed address is a FIFO node. *)

NamedInit == \A a \in Named \cup {None} : Node(a)!Init
NamedNext == \A a \in Named \cup {None} : [Node(a)!Next]_(Node(a)!vars)

\* A dispatch hands over the front of the line.
LEMMA HandsOver ==
  ASSUME TypeOK, IsFiniteSet(Consumers), Consumers \subseteq Links,
         NEW a \in Keys, NEW q \in Seq(Messages),
         NEW S \in SUBSET Consumers, DispatchTo(a, q, S)
  PROVE  Node(a)!HandOver(q)
<1>1. IsFiniteSet(S) /\ \A c \in S : credit[c] \in Nat
  BY FS_Subset DEF TypeOK
<1>2. Served(q, S, credit) \in 0..Len(q)
  BY <1>1, RestAndTaken
<1>3. /\ msgs'[a] = Rest(q, S, credit)
      /\ taken'[a] = taken[a] \o Taken(q, S, credit)
  BY Dispatched
<1> QED BY <1>2, <1>3 DEF Node!HandOver, Rest, Taken

LEMMA NamedStep ==
  ASSUME BrokerInv, [Next]_vars, <<msgs, taken>>' /= <<msgs, taken>>
  PROVE  NamedNext
<1> USE Facts
<1>1. SUFFICES ASSUME NEW a \in Named \cup {None}
               PROVE  Node(a)!Next \/ UNCHANGED <<msgs[a], taken[a]>>
  BY DEF NamedNext, Node!vars
<1>2. a \in Keys
  BY DEF Keys, Address
<1>3. ASSUME UNCHANGED <<msgs, taken>> PROVE FALSE
  BY <1>3
<1>4. CASE OnSendable
  <2>1. PICK l : l = Sender
    OBVIOUS
  <2>2. PICK b : b = node[l]
    OBVIOUS
  <2>3. DispatchTo(b, msgs[b], {l})
    BY <1>4, <2>1, <2>2 DEF OnSendable
  <2>4. l \in Consumers /\ b \in Keys /\ msgs[b] \in Seq(Messages)
    <3>1. /\ events /= <<>> /\ Handled /\ Head(events).kind = "sendable"
      BY <1>4 DEF OnSendable, Pending
    <3>2. Valid(Head(events))
      BY <3>1, FrontEvent
    <3>3. l \in Consumers
      BY <2>1, <3>1, <3>2 DEF Valid, Sender
    <3> QED BY <2>2, <3>3 DEF TypeOK
  <2>5. CASE b = a
    <3>1. Node(a)!HandOver(msgs[a])
      BY <2>3, <2>4, <2>5, HandsOver
    <3> QED BY <3>1 DEF Node!Next, Node!Take
  <2>6. CASE b /= a
    <3>1. msgs'[a] = msgs[a] /\ taken'[a] = taken[a]
      BY <2>3, <2>4, <2>6, <1>2, Dispatched
    <3> QED BY <3>1
  <2> QED BY <2>5, <2>6
<1>5. CASE OnMessage
  <2>1. PICK h : h = Head(events)
    OBVIOUS
  <2>2. PICK b : b = AddressOf(h)
    OBVIOUS
  <2>3. PICK S : S = subs[b]
    OBVIOUS
  <2>4. DispatchTo(b, Append(msgs[b], h.id), S)
    BY <1>5, <2>1, <2>2, <2>3 DEF OnMessage
  <2>5. /\ h.kind = "message" /\ h \in Event /\ h \in Elements(events)
        /\ h.link \in Links
    <3>1. /\ events /= <<>> /\ Handled /\ h.kind = "message"
      BY <1>5, <2>1 DEF OnMessage, Pending
    <3>2. h.kind \in LinkKinds
      BY <3>1 DEF LinkKinds
    <3> QED BY <2>1, <3>1, <3>2, FrontEvent
  <2>6. h.id \in Messages /\ h.to \in Keys
    BY <2>5 DEF Event
  <2>7. b \in Keys
    BY <2>2, <2>5, <2>6 DEF AddressOf, TypeOK
  <2>8. /\ S \in SUBSET Consumers
        /\ Append(msgs[b], h.id) \in Seq(Messages)
    <3>1. msgs[b] \in Seq(Messages)
      BY <2>7 DEF TypeOK
    <3> QED BY <3>1, <2>3, <2>6, <2>7, AppendProperties DEF TypeOK
  <2>9. CASE b = a
    <3>1. Node(a)!HandOver(Append(msgs[a], h.id))
      BY <2>4, <2>7, <2>8, <2>9, HandsOver
    <3>2. h.id \notin Elements(msgs[a]) \cup Elements(taken[a])
      <4> SUFFICES ASSUME h.id \in Elements(msgs[a]) \cup Elements(taken[a])
                   PROVE  FALSE
        OBVIOUS
      <4>1. h.id < h.id /\ h.id \in Nat
        BY <1>2, <2>5, <2>6 DEF Older, Messages
      <4> QED BY <4>1
    <3>3. h.id \notin Node(a)!Arrived
      BY <3>2 DEF Node!Arrived, Elements
    <3> QED BY <2>6, <3>1, <3>3 DEF Node!Next, Node!Publish
  <2>10. CASE b /= a
    <3>1. \A d \in Keys \ {b} : msgs'[d] = msgs[d] /\ taken'[d] = taken[d]
      <4> HIDE DEF Elements
      <4> QED BY <2>4, <2>7, <2>8, Dispatched
    <3> QED BY <3>1, <2>10, <1>2
  <2> QED BY <2>9, <2>10
<1>6. ASSUME NEW L \in SUBSET Consumers, Unsubscribe(L)
      PROVE  UNCHANGED <<msgs[a], taken[a]>>
  <2>1. msgs'[a] = msgs[a] /\ UNCHANGED taken
    BY <1>6, Unsubscribed
  <2> QED BY <2>1
<1>7. CASE OnLinkClosing
  <2>1. Unsubscribe({Sender} \cap Consumers)
    BY <1>7 DEF OnLinkClosing
  <2> QED BY <2>1, <1>6
<1>8. CASE OnConnectionClosing \/ OnDisconnected
  <2>1. Unsubscribe(RemoteActive(Head(events).conn))
    BY <1>8 DEF OnConnectionClosing, OnDisconnected, RemoveStaleConsumers
  <2>2. RemoteActive(Head(events).conn) \in SUBSET Consumers
    BY DEF RemoteActive
  <2> QED BY <2>1, <2>2, <1>6
<1>9. CASE OnLinkOpening \/ IgnoreFlow
  <2>1. UNCHANGED <<msgs, taken>>
    BY <1>9 DEF OnLinkOpening, OpenDynamic, OpenConsumer, OpenProducer,
       OpenWithoutAddress, Subscribe, IgnoreFlow, flow
  <2> QED BY <2>1
<1>10. CASE Peer \/ UNCHANGED vars
  <2>1. UNCHANGED <<msgs, taken>>
    BY <1>10 DEF Peer, Attach, Detach, GrantCredit, Transfer, LeaveConnection,
       flow, vars
  <2> QED BY <2>1
<1> QED BY <1>4, <1>5, <1>7, <1>8, <1>9, <1>10 DEF Next, Handle

\* Deleting and creating queues on demand, subscribing, leaving and failing
\* connections never lose, duplicate or reorder a message of a fixed address.
THEOREM NamedAddressesFifo == Spec => NamedAddressesAreFifo
<1>1. Init => NamedInit
  <2>1. Named \cup {None} \subseteq Keys
    BY DEF Keys, Address
  <2> QED BY <2>1 DEF Init, NamedInit, Node!Init
<1>2. BrokerInv /\ [Next]_vars => [NamedNext]_<<msgs, taken>>
  BY NamedStep
<1>3. NamedAddressesAreFifo <=> NamedInit /\ [][NamedNext]_<<msgs, taken>>
  BY DEF NamedAddressesAreFifo, NamedInit, NamedNext
<1> QED BY <1>1, <1>2, <1>3, BrokerInvariant, PTL DEF Spec

-----------------------------------------------------------------------------
(* Messages are delivered once and in order. *)

\* Each queue is in order, and what left it is older than what it holds.
Sorted ==
  \A a \in Keys :
    /\ Increasing(msgs[a])
    /\ \A x \in Elements(taken[a]), y \in Elements(msgs[a]) : x < y

\* No message is in two queues.
OneQueue ==
  \A a, b \in Keys : a /= b => Elements(msgs[a]) \cap Elements(msgs[b]) = {}

\* A consumer gets messages of its own queue only.
FromTaken ==
  \A c \in Consumers :
    /\ Elements(got[c]) \subseteq Elements(taken[node[c]])
    /\ local[c] = "uninit" => Elements(got[c]) = {} /\ ticket[c] = 0

Subscribed == {c \in Consumers : ticket[c] > 0}

\* No two consumers have the same place in the order of subscription.
Tickets ==
  /\ \A c \in Consumers : ticket[c] <= Cardinality(Subscribed)
  /\ \A c, d \in Consumers : ticket[c] = ticket[d] /\ c /= d => ticket[c] = 0
  /\ \A a \in Keys : \A c \in subs[a] : ticket[c] > 0

\* The inductive invariant, on top of BrokerInv.
OrderInv == Sorted /\ OneQueue /\ FromTaken /\ Tickets /\ DeliveredOnceInOrder

\* Two sequences in order, one older than the other.
LEMMA IncreasingConcat ==
  ASSUME NEW s \in Seq(Messages), NEW t \in Seq(Messages),
         Increasing(s), Increasing(t),
         \A x \in Elements(s), y \in Elements(t) : x < y
  PROVE  Increasing(s \o t)
<1> DEFINE w == s \o t
<1>1. /\ Len(s) \in Nat /\ Len(t) \in Nat
      /\ DOMAIN s = 1..Len(s) /\ DOMAIN t = 1..Len(t)
      /\ w \in Seq(Messages) /\ Len(w) = Len(s) + Len(t)
      /\ \A k \in 1..Len(s) + Len(t) :
           w[k] = IF k <= Len(s) THEN s[k] ELSE t[k - Len(s)]
  BY ConcatProperties, LenProperties
<1> HIDE DEF w
<1>2. DOMAIN w = 1..Len(s) + Len(t)
  BY <1>1, LenProperties
<1> SUFFICES ASSUME NEW j \in 1..Len(s) + Len(t), NEW k \in 1..Len(s) + Len(t), j < k
             PROVE  w[j] < w[k]
  BY <1>2 DEF Increasing, w
<1>3. CASE k <= Len(s)
  <2>1. j \in 1..Len(s) /\ k \in 1..Len(s) /\ j <= Len(s)
    BY <1>1, <1>3
  <2> QED BY <1>1, <1>3, <2>1 DEF Increasing
<1>4. CASE j <= Len(s) /\ ~(k <= Len(s))
  <2>1. j \in 1..Len(s) /\ k - Len(s) \in 1..Len(t)
    BY <1>1, <1>4
  <2>2. s[j] \in Elements(s) /\ t[k - Len(s)] \in Elements(t)
    BY <1>1, <2>1 DEF Elements
  <2> QED BY <1>1, <1>4, <2>2
<1>5. CASE ~(j <= Len(s))
  <2>1. /\ j - Len(s) \in 1..Len(t) /\ k - Len(s) \in 1..Len(t)
        /\ j - Len(s) < k - Len(s) /\ ~(k <= Len(s))
    BY <1>1, <1>5
  <2> QED BY <1>1, <1>5, <2>1 DEF Increasing
<1> QED BY <1>1, <1>3, <1>4, <1>5

LEMMA IncreasingAppend ==
  ASSUME NEW s \in Seq(Messages), NEW e \in Messages, Increasing(s),
         \A x \in Elements(s) : x < e
  PROVE  Increasing(Append(s, e))
<1> DEFINE w == Append(s, e)
<1>1. /\ Len(s) \in Nat /\ DOMAIN s = 1..Len(s) /\ DOMAIN w = 1..Len(s) + 1
      /\ \A k \in 1..Len(s) : w[k] = s[k]
      /\ w[Len(s) + 1] = e
  BY AppendProperties, LenProperties
<1> HIDE DEF w
<1> SUFFICES ASSUME NEW j \in 1..Len(s) + 1, NEW k \in 1..Len(s) + 1, j < k
             PROVE  w[j] < w[k]
  BY <1>1 DEF Increasing, w
<1>2. j \in 1..Len(s) /\ (k \in 1..Len(s) \/ k = Len(s) + 1)
  BY <1>1
<1>3. s[j] \in Elements(s)
  BY <1>1, <1>2 DEF Elements
<1> QED BY <1>1, <1>2, <1>3 DEF Increasing

\* What is served of an ordered queue is older than what remains.
LEMMA CutInOrder ==
  ASSUME NEW q \in Seq(Messages), Increasing(q),
         NEW S, IsFiniteSet(S), \A c \in S : credit[c] \in Nat
  PROVE  /\ Increasing(Rest(q, S, credit))
         /\ Elements(Rest(q, S, credit)) \subseteq Elements(q)
         /\ Elements(Taken(q, S, credit)) \subseteq Elements(q)
         /\ \A x \in Elements(Taken(q, S, credit)), y \in Elements(Rest(q, S, credit)) :
              x < y
         /\ \A k \in 1..Served(q, S, credit) :
              k \in 1..Len(q) /\ q[k] \in Elements(Taken(q, S, credit))
<1>1. PICK r : r = Rest(q, S, credit)
  OBVIOUS
<1>2. PICK t : t = Taken(q, S, credit)
  OBVIOUS
<1>3. PICK n : n = Served(q, S, credit)
  OBVIOUS
<1>4. /\ n \in 0..Len(q) /\ Len(q) \in Nat
      /\ r \in Seq(Messages) /\ Len(r) = Len(q) - n
      /\ t \in Seq(Messages) /\ Len(t) = n
  BY <1>1, <1>2, <1>3, RestAndTaken, LenProperties
<1>5. \A k \in 1..Len(r) : r[k] = q[n + k]
  <2>1. \A k \in 1..Len(Rest(q, S, credit)) :
          Rest(q, S, credit)[k] = q[Served(q, S, credit) + k]
    BY RestAndTaken
  <2> QED BY <1>1, <1>3, <2>1
<1>6. \A k \in 1..Len(t) : t[k] = q[k]
  <2>1. \A k \in 1..Len(Taken(q, S, credit)) : Taken(q, S, credit)[k] = q[k]
    BY RestAndTaken
  <2> QED BY <1>2, <2>1
<1>7. DOMAIN q = 1..Len(q) /\ DOMAIN r = 1..Len(r) /\ DOMAIN t = 1..Len(t)
  BY <1>4, LenProperties
<1>8. \A k \in 1..Len(r) : n + k \in 1..Len(q)
  BY <1>4
<1>9. \A k \in 1..n : k \in 1..Len(q) /\ k \in 1..Len(t)
  BY <1>4
<1>10. Increasing(r)
  <2> SUFFICES ASSUME NEW j \in 1..Len(r), NEW k \in 1..Len(r), j < k
               PROVE  r[j] < r[k]
    BY <1>7 DEF Increasing
  <2>1. n + j < n + k
    BY <1>4
  <2> QED BY <1>5, <1>7, <1>8, <2>1 DEF Increasing
<1>11. Elements(r) \subseteq Elements(q) /\ Elements(t) \subseteq Elements(q)
  <2>1. \A k \in 1..Len(r) : r[k] \in Elements(q)
    BY <1>5, <1>7, <1>8 DEF Elements
  <2>2. \A k \in 1..Len(t) : t[k] \in Elements(q)
    BY <1>4, <1>6, <1>7, <1>9 DEF Elements
  <2> QED BY <1>7, <2>1, <2>2 DEF Elements
<1>12. \A x \in Elements(t), y \in Elements(r) : x < y
  <2> SUFFICES ASSUME NEW j \in 1..Len(t), NEW k \in 1..Len(r)
               PROVE  t[j] < r[k]
    BY <1>7 DEF Elements
  <2>1. j < n + k /\ j \in 1..Len(q)
    BY <1>4
  <2> QED BY <1>5, <1>6, <1>7, <1>8, <2>1 DEF Increasing
<1>13. \A k \in 1..n : k \in 1..Len(q) /\ q[k] \in Elements(t)
  BY <1>6, <1>7, <1>9 DEF Elements
<1> QED BY <1>1, <1>2, <1>3, <1>10, <1>11, <1>12, <1>13

\* Each consumer receives messages of an ordered queue in order, and no message
\* is sent to two of them.
LEMMA SharesInOrder ==
  ASSUME NEW q \in Seq(Messages), Increasing(q),
         NEW S, IsFiniteSet(S),
         \A c \in S : credit[c] \in Nat /\ ticket[c] \in Nat,
         \A c, d \in S : c /= d => ticket[c] /= ticket[d],
         NEW c, credit[c] \in Nat
  PROVE  /\ Increasing(Share(q, S, credit, ticket, c))
         /\ Elements(Share(q, S, credit, ticket, c))
              \subseteq Elements(Taken(q, S, credit))
         /\ c \notin S => Elements(Share(q, S, credit, ticket, c)) = {}
         /\ \A d : credit[d] \in Nat /\ d /= c =>
              Elements(Share(q, S, credit, ticket, c))
                \cap Elements(Share(q, S, credit, ticket, d)) = {}
<1> DEFINE R(k, d) == Rank(<<k, d>>, S, credit, ticket)
           s(d) == Share(q, S, credit, ticket, d)
           n == Served(q, S, credit)
           t == Taken(q, S, credit)
<1>1. ASSUME NEW d, credit[d] \in Nat, NEW k \in DOMAIN s(d)
      PROVE  d \in S /\ k \in 1..credit[d] /\ R(k, d) \in 1..n /\ s(d)[k] = q[R(k, d)]
  BY <1>1, ShareSlots
<1>2. \A k \in 1..n : k \in 1..Len(q) /\ q[k] \in Elements(t)
  BY CutInOrder
<1>3. /\ \A i \in 1..credit[c], j \in 1..credit[c] :
           c \in S /\ i < j => R(i, c) < R(j, c)
      /\ \A d \in S : \A i \in 1..credit[c], j \in 1..credit[d] :
           c \in S /\ c /= d => R(i, c) /= R(j, d)
  BY RanksDiffer
<1>4. DOMAIN q = 1..Len(q) /\ Len(q) \in Nat
  BY LenProperties
<1> HIDE DEF R, s, n, t
<1>5. Increasing(s(c))
  <2> SUFFICES ASSUME NEW i \in DOMAIN s(c), NEW j \in DOMAIN s(c), i < j
               PROVE  s(c)[i] < s(c)[j]
    BY DEF Increasing
  <2>1. R(i, c) < R(j, c) /\ R(i, c) \in DOMAIN q /\ R(j, c) \in DOMAIN q
    BY <1>1, <1>2, <1>3, <1>4
  <2> QED BY <1>1, <2>1 DEF Increasing
<1>6. Elements(s(c)) \subseteq Elements(t) /\ (c \notin S => Elements(s(c)) = {})
  <2>1. \A k \in DOMAIN s(c) : s(c)[k] \in Elements(t) /\ c \in S
    BY <1>1, <1>2
  <2> QED BY <2>1 DEF Elements
<1>7. ASSUME NEW d, credit[d] \in Nat, d /= c
      PROVE  Elements(s(c)) \cap Elements(s(d)) = {}
  <2> SUFFICES ASSUME NEW i \in DOMAIN s(c), NEW j \in DOMAIN s(d),
                      s(c)[i] = s(d)[j]
               PROVE  FALSE
    BY DEF Elements
  <2>1. /\ R(i, c) /= R(j, d) /\ q[R(i, c)] = q[R(j, d)]
        /\ R(i, c) \in 1..Len(q) /\ R(j, d) \in 1..Len(q)
    BY <1>1, <1>2, <1>3, <1>7
  <2>2. R(i, c) < R(j, d) \/ R(j, d) < R(i, c)
    BY <1>4, <2>1
  <2>3. q[R(i, c)] \in Nat /\ q[R(j, d)] \in Nat
    <3>1. q[R(i, c)] \in Messages /\ q[R(j, d)] \in Messages
      BY <2>1, ElementOfSeq
    <3> QED BY <3>1, BrokerAssumption DEF Messages
  <2>4. q[R(i, c)] < q[R(j, d)] \/ q[R(j, d)] < q[R(i, c)]
    BY <1>4, <2>1, <2>2 DEF Increasing
  <2> QED BY <2>1, <2>3, <2>4
<1> QED BY <1>5, <1>6, <1>7 DEF s, t

\* What a dispatch of the content q of the queue a to S does, taken apart: t leaves
\* the queue, and each consumer c gets the part s[c] of it.
Split(a, q, S, t, s) ==
  /\ t \subseteq Elements(q)
  /\ Elements(taken'[a]) = Elements(taken[a]) \cup t
  /\ Increasing(msgs'[a]) /\ Elements(msgs'[a]) \subseteq Elements(q)
  /\ \A x \in t, y \in Elements(msgs'[a]) : x < y
  /\ \A c \in Consumers :
       /\ s[c] \subseteq t /\ (c \notin S => s[c] = {})
       /\ Elements(got'[c]) = Elements(got[c]) \cup s[c]
       /\ \A d \in Consumers \ {c} : s[c] \cap s[d] = {}
       /\ Increasing(got[c]) /\ (\A x \in Elements(got[c]), y \in s[c] : x < y)
            => Increasing(got'[c])

LEMMA Parts ==
  ASSUME TypeOK, IsFiniteSet(Consumers), Consumers \subseteq Links,
         NEW a \in Keys, NEW q \in Seq(Messages), Increasing(q),
         NEW S \in SUBSET Consumers, DispatchTo(a, q, S),
         \A c, d \in S : c /= d => ticket[c] /= ticket[d]
  PROVE  \E t : \E s \in [Consumers -> SUBSET Messages] : Split(a, q, S, t, s)
<1>1. /\ IsFiniteSet(S)
      /\ \A c \in S : credit[c] \in Nat /\ ticket[c] \in Nat
      /\ \A c \in Consumers : credit[c] \in Nat
  BY FS_Subset DEF TypeOK
<1> DEFINE sh(c) == Share(q, S, credit, ticket, c)
           ta == Taken(q, S, credit)
           re == Rest(q, S, credit)
<1>2. /\ msgs'[a] = re /\ taken'[a] = taken[a] \o ta
      /\ \A c \in Consumers : got'[c] = got[c] \o sh(c)
  BY Dispatched DEF DispatchTo
<1>3. ta \in Seq(Messages) /\ taken[a] \in Seq(Messages)
  BY <1>1, RestAndTaken DEF TypeOK
<1>4. \A c \in Consumers : sh(c) \in Seq(Messages) /\ got[c] \in Seq(Messages)
  BY <1>1, ShareType DEF TypeOK
<1>5. /\ Increasing(re) /\ Elements(re) \subseteq Elements(q)
      /\ Elements(ta) \subseteq Elements(q)
      /\ \A x \in Elements(ta), y \in Elements(re) : x < y
  BY <1>1, CutInOrder
<1>6. ASSUME NEW c \in Consumers
      PROVE  /\ Increasing(sh(c)) /\ Elements(sh(c)) \subseteq Elements(ta)
             /\ c \notin S => Elements(sh(c)) = {}
             /\ \A d \in Consumers \ {c} : Elements(sh(c)) \cap Elements(sh(d)) = {}
  BY <1>1, SharesInOrder
<1> HIDE DEF sh, ta, re
<1>7. Elements(taken'[a]) = Elements(taken[a]) \cup Elements(ta)
  BY <1>2, <1>3, ElementsConcat
<1>8. ASSUME NEW c \in Consumers
      PROVE  Elements(got'[c]) = Elements(got[c]) \cup Elements(sh(c))
  <2>1. /\ got'[c] = got[c] \o sh(c)
        /\ got[c] \in Seq(Messages) /\ sh(c) \in Seq(Messages)
    BY <1>2, <1>4
  <2> QED BY <2>1, ElementsConcat
<1>9. ASSUME NEW c \in Consumers, Increasing(got[c]),
             \A x \in Elements(got[c]), y \in Elements(sh(c)) : x < y
      PROVE  Increasing(got'[c])
  BY <1>2, <1>4, <1>6, <1>9, IncreasingConcat
<1>10. \A c \in Consumers : Elements(sh(c)) \in SUBSET Messages
  <2> SUFFICES ASSUME NEW c \in Consumers, NEW k \in DOMAIN sh(c)
               PROVE  sh(c)[k] \in Messages
    BY DEF Elements
  <2>1. k \in 1..Len(sh(c))
    BY <1>4, LenProperties
  <2> QED BY <1>4, <2>1, ElementOfSeq
<1>11. PICK t : t = Elements(ta)
  OBVIOUS
<1>12. PICK s \in [Consumers -> SUBSET Messages] :
         \A c \in Consumers : s[c] = Elements(sh(c))
  <2>1. [c \in Consumers |-> Elements(sh(c))] \in [Consumers -> SUBSET Messages]
    BY <1>10
  <2> QED BY <2>1
<1> HIDE DEF Elements, Increasing
<1>13. /\ t \subseteq Elements(q)
       /\ Elements(taken'[a]) = Elements(taken[a]) \cup t
       /\ Increasing(msgs'[a]) /\ Elements(msgs'[a]) \subseteq Elements(q)
       /\ \A x \in t, y \in Elements(msgs'[a]) : x < y
  BY <1>2, <1>5, <1>7, <1>11
<1>14. ASSUME NEW c \in Consumers
       PROVE  /\ s[c] \subseteq t /\ (c \notin S => s[c] = {})
              /\ Elements(got'[c]) = Elements(got[c]) \cup s[c]
              /\ \A d \in Consumers \ {c} : s[c] \cap s[d] = {}
              /\ Increasing(got[c]) /\ (\A x \in Elements(got[c]), y \in s[c] : x < y)
                   => Increasing(got'[c])
  BY <1>6, <1>8, <1>9, <1>11, <1>12
<1>15. Split(a, q, S, t, s)
  BY <1>13, <1>14 DEF Split
<1> QED BY <1>15

\* A dispatch keeps the order, if what it adds to the queue is new.
LEMMA DispatchOrder ==
  ASSUME BrokerInv, OrderInv, NEW a \in Keys, NEW q \in Seq(Messages),
         NEW S \in SUBSET Consumers, DispatchTo(a, q, S), UNCHANGED <<local, node>>,
         \A c \in S : node[c] = a /\ local[c] /= "uninit",
         \A c, d \in S : c /= d => ticket[c] /= ticket[d],
         Increasing(q),
         \A x \in Elements(taken[a]), y \in Elements(q) : x < y,
         \A b \in Keys \ {a} : Elements(q) \cap Elements(msgs[b]) = {},
         \A c \in Consumers : Elements(got[c]) \cap Elements(q) = {}
  PROVE  OrderInv'
<1> USE Facts
<1>1. PICK t : \E s \in [Consumers -> SUBSET Messages] : Split(a, q, S, t, s)
  <2>1. TypeOK /\ IsFiniteSet(Consumers) /\ Consumers \subseteq Links
    OBVIOUS
  <2> HIDE DEF DispatchTo, Split
  <2> QED BY <2>1, Parts
<1>2. PICK s \in [Consumers -> SUBSET Messages] :
        /\ t \subseteq Elements(q)
        /\ Elements(taken'[a]) = Elements(taken[a]) \cup t
        /\ Increasing(msgs'[a]) /\ Elements(msgs'[a]) \subseteq Elements(q)
        /\ \A x \in t, y \in Elements(msgs'[a]) : x < y
        /\ \A c \in Consumers :
             /\ s[c] \subseteq t /\ (c \notin S => s[c] = {})
             /\ Elements(got'[c]) = Elements(got[c]) \cup s[c]
             /\ \A d \in Consumers \ {c} : s[c] \cap s[d] = {}
             /\ Increasing(got[c]) /\ (\A x \in Elements(got[c]), y \in s[c] : x < y)
                  => Increasing(got'[c])
  BY <1>1 DEF Split
<1>3. /\ UNCHANGED <<subs, ticket>>
      /\ \A b \in Keys \ {a} : msgs'[b] = msgs[b] /\ taken'[b] = taken[b]
  <2> HIDE DEF DispatchTo
  <2> QED BY Dispatched
<1>4. Sorted'
  <2> SUFFICES ASSUME NEW b \in Keys
               PROVE  /\ Increasing(msgs'[b])
                      /\ \A x \in Elements(taken'[b]), y \in Elements(msgs'[b]) : x < y
    BY DEF Sorted
  <2>1. CASE b = a
    BY <1>2, <2>1
  <2>2. CASE b /= a
    BY <1>3, <2>2 DEF OrderInv, Sorted
  <2> QED BY <2>1, <2>2
<1>5. OneQueue'
  <2>1. \A b \in Keys \ {a} : Elements(msgs'[b]) = Elements(msgs[b])
    BY <1>3
  <2>2. \A b \in Keys \ {a} : Elements(msgs'[a]) \cap Elements(msgs'[b]) = {}
    BY <1>2, <2>1
  <2> QED BY <2>1, <2>2 DEF OrderInv, OneQueue
<1>6. FromTaken'
  <2> SUFFICES ASSUME NEW c \in Consumers
               PROVE  /\ Elements(got'[c]) \subseteq Elements(taken'[node[c]])
                      /\ local[c] = "uninit" => Elements(got'[c]) = {} /\ ticket[c] = 0
    BY <1>3 DEF FromTaken
  <2>1. /\ Elements(got[c]) \subseteq Elements(taken[node[c]]) /\ node[c] \in Keys
        /\ local[c] = "uninit" => Elements(got[c]) = {} /\ ticket[c] = 0
    BY DEF OrderInv, FromTaken, TypeOK
  <2>2. CASE c \in S
    BY <1>2, <2>1, <2>2
  <2>3. CASE c \notin S
    <3>1. Elements(got'[c]) = Elements(got[c])
      <4>1. s[c] = {} /\ Elements(got'[c]) = Elements(got[c]) \cup s[c]
        BY <1>2, <2>3, Zenon
      <4> QED BY <4>1, Zenon
    <3>2. Elements(taken[node[c]]) \subseteq Elements(taken'[node[c]])
      BY <1>2, <1>3, <2>1
    <3> QED BY <2>1, <3>1, <3>2
  <2> QED BY <2>2, <2>3
<1>7. Tickets'
  BY <1>3 DEF OrderInv, Tickets, Subscribed
<1>8. ASSUME NEW c \in Consumers
      PROVE  /\ Increasing(got'[c])
             /\ \A d \in Consumers \ {c} : Elements(got'[c]) \cap Elements(got'[d]) = {}
             /\ \A b \in Keys : Elements(got'[c]) \cap Elements(msgs'[b]) = {}
  <2>1. /\ Increasing(got[c])
        /\ \A d \in Consumers \ {c} : Elements(got[c]) \cap Elements(got[d]) = {}
        /\ \A b \in Keys : Elements(got[c]) \cap Elements(msgs[b]) = {}
    BY DEF OrderInv, DeliveredOnceInOrder
  <2>2. Increasing(got'[c])
    <3>1. ASSUME NEW x \in Elements(got[c]), NEW y \in s[c]
          PROVE  x < y
      <4>1. c \in S /\ y \in Elements(q)
        BY <1>2
      <4>2. x \in Elements(taken[a])
        BY <4>1 DEF OrderInv, FromTaken
      <4> QED BY <4>1, <4>2
    <3> QED BY <1>2, <2>1, <3>1
  <2>3. \A d \in Consumers \ {c} : Elements(got'[c]) \cap Elements(got'[d]) = {}
    <3> HIDE DEF Elements
    <3> QED BY <1>2, <2>1
  <2>4. ASSUME NEW b \in Keys
        PROVE  Elements(got'[c]) \cap Elements(msgs'[b]) = {}
    <3>1. CASE b /= a
      <4>1. Elements(msgs'[b]) = Elements(msgs[b])
        BY <1>3, <3>1
      <4> HIDE DEF Elements
      <4> QED BY <1>2, <2>1, <3>1, <4>1
    <3>2. CASE b = a
      <4> HIDE DEF Elements
      <4>1. s[c] \subseteq Nat
        BY BrokerAssumption DEF Messages
      <4>2. \A x \in s[c] : x \notin Elements(msgs'[a])
        <5>1. \A x \in s[c], y \in Elements(msgs'[a]) : x < y /\ x \in Nat
          BY <1>2, <4>1
        <5>2. \A x \in Nat : ~(x < x)
          OBVIOUS
        <5> QED BY <5>1, <5>2
      <4> QED BY <1>2, <3>2, <4>2
    <3> QED BY <3>1, <3>2
  <2> QED BY <2>2, <2>3, <2>4
<1>9. DeliveredOnceInOrder'
  BY <1>8 DEF DeliveredOnceInOrder
<1> QED BY <1>4, <1>5, <1>6, <1>7, <1>9 DEF OrderInv

\* A step that touches neither queues nor links.
LEMMA OrderKept ==
  ASSUME OrderInv, UNCHANGED <<local, node, msgs, subs, ticket, taken, got>>
  PROVE  OrderInv'
BY DEF OrderInv, Sorted, OneQueue, FromTaken, Tickets, Subscribed, DeliveredOnceInOrder

LEMMA OnSendableOrder == ASSUME BrokerInv, OrderInv, OnSendable PROVE OrderInv'
<1> USE Facts
<1>1. PICK l : l = Sender
  OBVIOUS
<1>2. PICK a : a = node[l]
  OBVIOUS
<1>3. /\ events /= <<>> /\ Head(events).kind = "sendable" /\ Handled
      /\ local[l] = "active" /\ UNCHANGED <<local, node>>
      /\ DispatchTo(a, msgs[a], {l})
  BY <1>1, <1>2 DEF OnSendable, Pending, Sendable
<1>4. l \in Consumers
  BY <1>1, <1>3, FrontEvent DEF Valid, Sender
<1>5. a \in Keys /\ msgs[a] \in Seq(Messages) /\ {l} \in SUBSET Consumers
  BY <1>2, <1>4 DEF TypeOK
<1>6. PICK q : q = msgs[a]
  OBVIOUS
<1>7. /\ Increasing(q)
      /\ \A x \in Elements(taken[a]), y \in Elements(q) : x < y
      /\ \A b \in Keys \ {a} : Elements(q) \cap Elements(msgs[b]) = {}
      /\ \A c \in Consumers : Elements(got[c]) \cap Elements(q) = {}
  BY <1>5, <1>6 DEF OrderInv, Sorted, OneQueue, DeliveredOnceInOrder
<1>8. /\ \A c \in {l} : node[c] = a /\ local[c] /= "uninit"
      /\ \A c, d \in {l} : c /= d => ticket[c] /= ticket[d]
  BY <1>2, <1>3
<1>9. q \in Seq(Messages) /\ DispatchTo(a, q, {l})
  BY <1>3, <1>5, <1>6
<1> HIDE DEF DispatchTo, Elements, Increasing, OrderInv
<1> QED BY <1>3, <1>5, <1>7, <1>8, <1>9, DispatchOrder

LEMMA OnMessageOrder == ASSUME BrokerInv, OrderInv, OnMessage PROVE OrderInv'
<1> USE Facts
<1>1. PICK h : h = Head(events)
  OBVIOUS
<1>2. /\ h.kind = "message" /\ h \in Event /\ h.link \in Links
      /\ h \in Elements(events)
  <2>1. events /= <<>> /\ h.kind = "message" /\ Handled
    BY <1>1 DEF OnMessage, Pending
  <2>2. h.kind \in LinkKinds
    BY <2>1 DEF LinkKinds
  <2> QED BY <1>1, <2>1, <2>2, FrontEvent
<1>3. h.id \in Messages /\ h.to \in Keys
  BY <1>2 DEF Event
<1>4. PICK a : a = AddressOf(h)
  OBVIOUS
<1>5. PICK q : q = Append(msgs[a], h.id)
  OBVIOUS
<1>6. PICK S : S = subs[a]
  OBVIOUS
<1>7. a \in Keys /\ msgs[a] \in Seq(Messages) /\ S \in SUBSET Consumers
  BY <1>2, <1>3, <1>4, <1>6 DEF AddressOf, TypeOK
<1>8. q \in Seq(Messages) /\ Elements(q) = Elements(msgs[a]) \cup {h.id}
  BY <1>3, <1>5, <1>7, ElementsAppend, AppendProperties
<1>9. DispatchTo(a, q, S) /\ UNCHANGED <<local, node>>
  BY <1>1, <1>4, <1>5, <1>6 DEF OnMessage
<1>10. /\ \A b \in Keys : \A m \in Elements(msgs[b]) \cup Elements(taken[b]) : m < h.id
       /\ ~(h.id < h.id)
  <2>1. ~(h.id < h.id)
    BY <1>3 DEF Messages
  <2> QED BY <1>2, <2>1 DEF Older
<1>11. Increasing(q)
  <2>1. Increasing(msgs[a])
    BY <1>7 DEF OrderInv, Sorted
  <2>2. \A m \in Elements(msgs[a]) : m < h.id
    BY <1>7, <1>10
  <2> HIDE DEF Elements, Increasing
  <2> QED BY <1>3, <1>5, <1>7, <2>1, <2>2, IncreasingAppend
<1>12. \A x \in Elements(taken[a]), y \in Elements(q) : x < y
  BY <1>7, <1>8, <1>10 DEF OrderInv, Sorted
<1>13. \A b \in Keys \ {a} : Elements(q) \cap Elements(msgs[b]) = {}
  <2>1. \A b \in Keys : h.id \notin Elements(msgs[b])
    BY <1>10
  <2>2. \A b \in Keys \ {a} : Elements(msgs[a]) \cap Elements(msgs[b]) = {}
    BY <1>7 DEF OrderInv, OneQueue
  <2> HIDE DEF Elements
  <2> QED BY <1>8, <2>1, <2>2
<1>14. \A c \in Consumers : Elements(got[c]) \cap Elements(q) = {}
  <2> SUFFICES ASSUME NEW c \in Consumers
               PROVE  Elements(got[c]) \cap Elements(q) = {}
    OBVIOUS
  <2>1. node[c] \in Keys /\ Elements(got[c]) \subseteq Elements(taken[node[c]])
    BY DEF OrderInv, FromTaken, TypeOK
  <2>2. h.id \notin Elements(got[c])
    BY <1>10, <2>1
  <2>3. Elements(got[c]) \cap Elements(msgs[a]) = {}
    BY <1>7 DEF OrderInv, DeliveredOnceInOrder
  <2> HIDE DEF Elements
  <2> QED BY <1>8, <2>2, <2>3
<1>15. \A c \in S : node[c] = a /\ local[c] /= "uninit"
  BY <1>6, <1>7 DEF NoStaleConsumer
<1>16. \A c, d \in S : c /= d => ticket[c] /= ticket[d]
  <2>1. \A c \in S : ticket[c] > 0 /\ ticket[c] \in Nat
    BY <1>6, <1>7 DEF OrderInv, Tickets, TypeOK
  <2>2. \A c \in S : ticket[c] /= 0
    BY <2>1
  <2> QED BY <1>7, <2>2 DEF OrderInv, Tickets
<1> HIDE DEF DispatchTo, Elements, Increasing, OrderInv
<1> QED BY <1>7, <1>8, <1>9, <1>11, <1>12, <1>13, <1>14, <1>15, <1>16, DispatchOrder

\* A queue that is deleted takes its messages with it.
LEMMA UnsubscribeOrder ==
  ASSUME BrokerInv, OrderInv, NEW L \in SUBSET Consumers, Unsubscribe(L),
         UNCHANGED node, \A c \in Consumers : local'[c] = "uninit" => local[c] = "uninit"
  PROVE  OrderInv'
<1>1. /\ \A a \in Keys : subs'[a] = subs[a] \ L
      /\ \A a \in Keys : msgs'[a] = msgs[a] \/ msgs'[a] = <<>>
      /\ UNCHANGED <<ticket, taken, got>>
  BY Unsubscribed
<1>2. Elements(<<>>) = {} /\ Increasing(<<>>)
  <2>1. DOMAIN <<>> = {}
    OBVIOUS
  <2> QED BY <2>1 DEF Elements, Increasing
<1>3. \A a \in Keys : /\ Elements(msgs'[a]) \subseteq Elements(msgs[a])
                      /\ Increasing(msgs[a]) => Increasing(msgs'[a])
  BY <1>1, <1>2
<1> HIDE DEF Elements, Increasing
<1>4. Sorted'
  BY <1>1, <1>3 DEF OrderInv, Sorted
<1>5. OneQueue'
  <2> SUFFICES ASSUME NEW a \in Keys, NEW b \in Keys, a /= b
               PROVE  Elements(msgs'[a]) \cap Elements(msgs'[b]) = {}
    BY DEF OneQueue
  <2>1. Elements(msgs[a]) \cap Elements(msgs[b]) = {}
    BY DEF OrderInv, OneQueue
  <2> QED BY <1>3, <2>1
<1>6. FromTaken'
  BY <1>1 DEF OrderInv, FromTaken
<1>7. Tickets'
  BY <1>1 DEF OrderInv, Tickets, Subscribed
<1>8. DeliveredOnceInOrder'
  <2>1. \A c \in Consumers, a \in Keys :
          Elements(got[c]) \cap Elements(msgs[a]) = {}
    BY DEF OrderInv, DeliveredOnceInOrder
  <2>2. \A c \in Consumers, a \in Keys :
          Elements(got'[c]) \cap Elements(msgs'[a]) = {}
    BY <1>1, <1>3, <2>1
  <2> QED BY <1>1, <2>2 DEF OrderInv, DeliveredOnceInOrder
<1> QED BY <1>4, <1>5, <1>6, <1>7, <1>8 DEF OrderInv

\* A link that is opened got nothing before; a consumer gets the next ticket.
LEMMA OpeningOrder ==
  ASSUME BrokerInv, OrderInv, NEW l \in Links, Opening(l),
         UNCHANGED <<msgs, taken, got>>,
         \A k \in Links : k /= l => node'[k] = node[k],
         \/ UNCHANGED <<subs, ticket>>
         \/ /\ l \in Consumers
            /\ ticket' = [ticket EXCEPT ![l] = NextTicket]
            /\ \A b \in Keys : subs'[b] \subseteq subs[b] \cup {l}
  PROVE  OrderInv'
<1> USE Facts
<1>1. /\ local[l] = "uninit"
      /\ \A k \in Links : local'[k] = "uninit" => k /= l /\ local[k] = "uninit"
  <2>1. /\ events /= <<>> /\ Head(events).kind = "link_opening"
        /\ Head(events).link = l /\ Handled
        /\ local' = [local EXCEPT ![l] = "active"]
    BY DEF Opening, Pending
  <2>2. Valid(Head(events))
    BY <2>1, FrontEvent
  <2> QED BY <2>1, <2>2 DEF Valid, TypeOK
<1>2. /\ \A c \in Consumers : c /= l => node'[c] = node[c] /\ ticket'[c] = ticket[c]
      /\ l \in Consumers => Elements(got[l]) = {} /\ ticket[l] = 0
  BY <1>1 DEF OrderInv, FromTaken, TypeOK
<1>3. Sorted' /\ OneQueue' /\ DeliveredOnceInOrder'
  BY DEF OrderInv, Sorted, OneQueue, DeliveredOnceInOrder
<1>4. FromTaken'
  <2> HIDE DEF Elements
  <2> QED BY <1>1, <1>2 DEF OrderInv, FromTaken
<1>5. Tickets'
  <2>1. CASE UNCHANGED <<subs, ticket>>
    BY <2>1 DEF OrderInv, Tickets, Subscribed
  <2>2. CASE /\ l \in Consumers
             /\ ticket' = [ticket EXCEPT ![l] = NextTicket]
             /\ \A b \in Keys : subs'[b] \subseteq subs[b] \cup {l}
    <3>1. PICK n : n = Cardinality(Subscribed)
      OBVIOUS
    <3>2. n \in Nat /\ IsFiniteSet(Subscribed)
      <4>1. Subscribed \in SUBSET Consumers
        BY DEF Subscribed
      <4> QED BY <3>1, <4>1, FS_Subset, FS_CardinalityType
    <3>3. ticket'[l] = n + 1 /\ n + 1 > 0
      BY <2>2, <3>1, <3>2 DEF TypeOK, NextTicket, Subscribed
    <3>4. Subscribed' = Subscribed \cup {l} /\ l \notin Subscribed
      BY <1>2, <2>2, <3>3 DEF Subscribed
    <3>5. Cardinality(Subscribed') = n + 1
      BY <3>1, <3>2, <3>4, FS_AddElement
    <3>6. \A c \in Consumers : ticket[c] \in Nat /\ ticket[c] <= n
      BY <3>1 DEF OrderInv, Tickets, TypeOK
    <3>7. \A c \in Consumers : ticket'[c] <= n + 1
      BY <1>2, <3>2, <3>3, <3>6
    <3>8. ASSUME NEW c \in Consumers, NEW d \in Consumers,
                 ticket'[c] = ticket'[d], c /= d
          PROVE  ticket'[c] = 0
      <4>1. \A e \in Consumers : ticket[e] /= n + 1
        BY <3>2, <3>6
      <4> QED BY <1>2, <3>3, <3>8, <4>1 DEF OrderInv, Tickets
    <3>9. ASSUME NEW b \in Keys, NEW c \in subs'[b]
          PROVE  ticket'[c] > 0
      <4>1. c = l \/ (c \in subs[b] /\ c \in Consumers)
        BY <2>2 DEF TypeOK
      <4> QED BY <1>2, <3>3, <4>1 DEF OrderInv, Tickets
    <3> QED BY <3>5, <3>7, <3>8, <3>9 DEF Tickets
  <2> QED BY <2>1, <2>2
<1> QED BY <1>3, <1>4, <1>5 DEF OrderInv

LEMMA OrderInit == Init => OrderInv
<1> SUFFICES ASSUME Init PROVE OrderInv
  OBVIOUS
<1>1. Elements(<<>>) = {} /\ Increasing(<<>>)
  <2>1. DOMAIN <<>> = {}
    OBVIOUS
  <2> QED BY <2>1 DEF Elements, Increasing
<1>2. /\ \A a \in Keys : msgs[a] = <<>> /\ taken[a] = <<>> /\ subs[a] = {}
      /\ \A c \in Consumers : ticket[c] = 0 /\ got[c] = <<>>
  BY DEF Init
<1>3. Cardinality(Subscribed) = 0
  <2>1. Subscribed = {}
    BY <1>2 DEF Subscribed
  <2> QED BY <2>1, FS_EmptySet
<1> HIDE DEF Elements, Increasing
<1> QED BY <1>1, <1>2, <1>3
        DEF OrderInv, Sorted, OneQueue, FromTaken, Tickets, DeliveredOnceInOrder

LEMMA OrderStep == BrokerInv /\ OrderInv /\ [Next]_vars => OrderInv'
<1> SUFFICES ASSUME BrokerInv, OrderInv, [Next]_vars PROVE OrderInv'
  OBVIOUS
<1>1. CASE Peer \/ IgnoreFlow \/ UNCHANGED vars
  <2>1. UNCHANGED <<local, node, msgs, subs, ticket, taken, got>>
    BY <1>1 DEF Peer, Attach, Detach, GrantCredit, Transfer, LeaveConnection,
       IgnoreFlow, flow, table, vars
  <2> QED BY <2>1, OrderKept
<1>2. CASE OnLinkOpening
  <2>1. PICK l \in Links : \/ OpenDynamic(l) \/ OpenConsumer(l)
                           \/ OpenProducer(l) \/ OpenWithoutAddress(l)
    BY <1>2 DEF OnLinkOpening
  <2>2. Opening(l) /\ UNCHANGED <<msgs, taken, got>>
    BY <2>1 DEF OpenDynamic, OpenConsumer, OpenProducer, OpenWithoutAddress,
                Subscribe, flow
  <2>3. ASSUME NEW a \in Keys, l \in Consumers, Subscribe(l, a)
        PROVE  OrderInv'
    <3>1. /\ node' = [node EXCEPT ![l] = a]
          /\ subs' = [subs EXCEPT ![a] = @ \cup {l}]
          /\ ticket' = [ticket EXCEPT ![l] = NextTicket]
      BY <2>3 DEF Subscribe
    <3>2. /\ \A k \in Links : k /= l => node'[k] = node[k]
          /\ \A b \in Keys : subs'[b] \subseteq subs[b] \cup {l}
      BY <3>1, Facts DEF TypeOK
    <3> QED BY <2>2, <2>3, <3>1, <3>2, OpeningOrder
  <2>4. CASE OpenDynamic(l)
    <3>1. l \in Consumers /\ Subscribe(l, Uuid[l])
      BY <2>4 DEF OpenDynamic
    <3> QED BY <2>3, <3>1, Facts DEF Address
  <2>5. CASE OpenConsumer(l)
    BY <2>3, <2>5, Facts DEF OpenConsumer
  <2>6. CASE OpenProducer(l) \/ OpenWithoutAddress(l)
    <3>1. /\ UNCHANGED <<subs, ticket>>
          /\ node' = node \/ \E w : node' = [node EXCEPT ![l] = w]
      BY <2>6 DEF OpenProducer, OpenWithoutAddress, table
    <3>2. \A k \in Links : k /= l => node'[k] = node[k]
      BY <3>1, Facts DEF TypeOK
    <3> QED BY <2>2, <3>1, <3>2, OpeningOrder
  <2> QED BY <2>1, <2>4, <2>5, <2>6
<1>3. CASE OnSendable
  BY <1>3, OnSendableOrder
<1>4. CASE OnMessage
  BY <1>4, OnMessageOrder
<1>5. CASE OnLinkClosing
  <2>1. /\ Unsubscribe({Sender} \cap Consumers) /\ UNCHANGED node
        /\ local' = [local EXCEPT ![Sender] = "closed"]
    BY <1>5 DEF OnLinkClosing
  <2>2. \A c \in Consumers : local'[c] = "uninit" => local[c] = "uninit"
    BY <2>1, Facts DEF TypeOK
  <2>3. {Sender} \cap Consumers \in SUBSET Consumers
    OBVIOUS
  <2> QED BY <2>1, <2>2, <2>3, UnsubscribeOrder
<1>6. CASE OnConnectionClosing \/ OnDisconnected
  <2>1. PICK L : L = RemoteActive(Head(events).conn)
    OBVIOUS
  <2>2. Unsubscribe(L) /\ UNCHANGED <<node, local>> /\ L \in SUBSET Consumers
    BY <1>6, <2>1 DEF OnConnectionClosing, OnDisconnected, RemoveStaleConsumers,
       RemoteActive
  <2> QED BY <2>2, UnsubscribeOrder
<1> QED BY <1>1, <1>2, <1>3, <1>4, <1>5, <1>6 DEF Next, Handle

\* Whatever peers attach, detach and lose, dispatch hands each message to one
\* consumer, and to each consumer in the order in which messages arrived, also
\* when its queue was deleted and made again.
THEOREM DeliveredOnceInOrderHolds == Spec => []DeliveredOnceInOrder
<1>1. Init => OrderInv
  BY OrderInit
<1>2. BrokerInv /\ OrderInv /\ [Next]_vars => OrderInv'
  BY OrderStep
<1>3. OrderInv => DeliveredOnceInOrder
  BY DEF OrderInv
<1> QED BY <1>1, <1>2, <1>3, BrokerInvariant, PTL DEF Spec
=============================================================================
