------------------------------- MODULE Broker -------------------------------
(***************************************************************************)
(* broker.py: a broker that keeps one queue of messages per address.       *)
(*                                                                         *)
(* Peers act on the links of their connections at any moment; what they do *)
(* is read by the transport, which updates the remote state and the credit *)
(* of a link at once and puts an event at the end of one line of events.   *)
(* The handlers of class Broker run one at a time, each for the event at   *)
(* the front.  A handler therefore sees the credit and the remote state    *)
(* that LATER events have already set: this is where orders that nobody    *)
(* wrote down come from.                                                   *)
(*                                                                         *)
(* The first part (peers and event line) is Proton, external to the        *)
(* repository; the second part is the code of broker.py.                   *)
(***************************************************************************)
EXTENDS Dispatch

CONSTANTS
  Conns,          \* connections accepted by the broker
  Consumers,      \* links on which the broker sends (link.is_sender)
  Producers,      \* links on which the broker receives
  ConnOf,         \* the connection of each link
  Named,          \* addresses that peers know beforehand
  Uuid,           \* str(uuid.uuid4()): the address made for each consumer
  None,           \* no address
  DynamicSource,  \* a source that asks for a temporary address
  MaxMessages,    \* messages that peers send in all (bound)
  MaxCredit,      \* credit a consumer keeps outstanding (bound)
  MaxEvents       \* events that wait to be handled (bound)

Links   == Consumers \cup Producers
Address == Named \cup {Uuid[c] : c \in Consumers}
Keys    == Address \cup {None}
Messages == 1..MaxMessages

ASSUME BrokerAssumption ==
  /\ IsFiniteSet(Consumers)
  /\ Consumers \cap Producers = {}
  /\ ConnOf \in [Links -> Conns]
  /\ DOMAIN Uuid = Consumers
  /\ \A c, d \in Consumers : Uuid[c] = Uuid[d] => c = d
  /\ \A c \in Consumers : Uuid[c] \notin Named
  /\ None \notin Address
  /\ DynamicSource \notin Keys
  /\ MaxMessages \in Nat /\ MaxCredit \in Nat /\ MaxEvents \in Nat

VARIABLES
  conn,     \* "up"; "lost": the peer has gone, not yet handled; "removed"
  remote,   \* the state of each link at the peer
  local,    \* the state of each link at the broker
  wants,    \* remote_source or remote_target of each link
  node,     \* link.source.address or link.target.address of each link
  credit,   \* link.credit of the consumers
  events,   \* events read and not yet handled, oldest first
  arrived,  \* messages read so far; they are numbered as they arrive
  queues,   \* the keys of self.queues
  dynamic,  \* the queues made with Queue(True)
  msgs,     \* Queue.queue of every key
  subs,     \* Queue.consumers of every key
  ticket,   \* the order in which consumers subscribed, 0 before they do
  taken,    \* history: what left each queue
  got       \* history: what each consumer was sent

peers  == <<conn, remote, wants, arrived>>
table  == <<queues, dynamic, subs, ticket>>
flow   == <<msgs, credit, taken, got>>
vars   == <<peers, local, node, events, table, flow>>

LinkState == {"uninit", "active", "closed"}

Event ==
       [kind : {"link_opening", "sendable", "link_closing"}, link : Links]
  \cup [kind : {"message"}, link : Producers, id : Messages, to : Keys]
  \cup [kind : {"connection_closing", "disconnected"}, conn : Conns]

Init ==
  /\ conn    = [k \in Conns |-> "up"]
  /\ remote  = [l \in Links |-> "uninit"]
  /\ local   = [l \in Links |-> "uninit"]
  /\ wants   = [l \in Links |-> None]
  /\ node    = [l \in Links |-> None]
  /\ credit  = [c \in Consumers |-> 0]
  /\ events  = <<>>
  /\ arrived = 0
  /\ queues  = {}
  /\ dynamic = {}
  /\ msgs    = [a \in Keys |-> <<>>]
  /\ subs    = [a \in Keys |-> {}]
  /\ ticket  = [c \in Consumers |-> 0]
  /\ taken   = [a \in Keys |-> <<>>]
  /\ got     = [c \in Consumers |-> <<>>]

-----------------------------------------------------------------------------
(* What peers do, as the transport reads it. *)

Read(e) == /\ Len(events) < MaxEvents
           /\ events' = Append(events, e)

\* Addresses a peer can name: the fixed ones, and temporary ones once the
\* broker has told them to their consumer (which can pass them on).
KnownAddresses == Named \cup ({node[c] : c \in Consumers} \ {None})

Opened(l) == remote[l] = "active" /\ conn[ConnOf[l]] = "up"

\* A peer attaches a link to an address, to a temporary one, or to none.
Attach(l) ==
  /\ remote[l] = "uninit" /\ conn[ConnOf[l]] = "up"
  /\ remote' = [remote EXCEPT ![l] = "active"]
  /\ \E w \in KnownAddresses \cup {None}
                \cup (IF l \in Consumers THEN {DynamicSource} ELSE {}) :
       wants' = [wants EXCEPT ![l] = w]
  /\ Read([kind |-> "link_opening", link |-> l])
  /\ UNCHANGED <<conn, arrived, local, node, table, flow>>

\* A consumer grants one more credit; it may do so before it knows that the
\* broker has opened the link.
GrantCredit(c) ==
  /\ Opened(c) /\ credit[c] < MaxCredit
  /\ credit' = [credit EXCEPT ![c] = @ + 1]
  /\ Read([kind |-> "sendable", link |-> c])
  /\ UNCHANGED <<peers, local, node, table, msgs, taken, got>>

\* A producer sends a message; the broker opened the link and so gave credit.
Transfer(p) ==
  /\ Opened(p) /\ local[p] = "active" /\ arrived < MaxMessages
  /\ arrived' = arrived + 1
  /\ \E to \in KnownAddresses \cup {None} :
       Read([kind |-> "message", link |-> p, id |-> arrived + 1, to |-> to])
  /\ UNCHANGED <<conn, remote, wants, local, node, table, flow>>

Detach(l) ==
  /\ Opened(l)
  /\ remote' = [remote EXCEPT ![l] = "closed"]
  /\ Read([kind |-> "link_closing", link |-> l])
  /\ UNCHANGED <<conn, wants, arrived, local, node, table, flow>>

\* The peer closes the connection, or the transport fails.
LeaveConnection(k) ==
  /\ conn[k] = "up"
  /\ conn' = [conn EXCEPT ![k] = "lost"]
  /\ \E kind \in {"connection_closing", "disconnected"} :
       Read([kind |-> kind, conn |-> k])
  /\ UNCHANGED <<remote, wants, arrived, local, node, table, flow>>

Peer ==
  \/ \E l \in Links : Attach(l) \/ Detach(l)
  \/ \E c \in Consumers : GrantCredit(c)
  \/ \E p \in Producers : Transfer(p)
  \/ \E k \in Conns : LeaveConnection(k)

-----------------------------------------------------------------------------
(* The handlers of class Broker. *)

Pending(kind) == events /= <<>> /\ Head(events).kind = kind
Handled       == events' = Tail(events)
Sender        == Head(events).link

NextTicket == Cardinality({c \in Consumers : ticket[c] > 0}) + 1

\* on_link_opening: the library opens the link when the handler returns.
Opening(l) ==
  /\ Pending("link_opening") /\ l = Head(events).link
  /\ local' = [local EXCEPT ![l] = "active"]
  /\ Handled

Subscribe(l, a) ==
  /\ node' = [node EXCEPT ![l] = a]
  /\ queues' = queues \cup {a}
  /\ subs' = [subs EXCEPT ![a] = @ \cup {l}]
  /\ ticket' = [ticket EXCEPT ![l] = NextTicket]
  /\ UNCHANGED <<peers, flow>>

OpenDynamic(l) ==
  /\ Opening(l) /\ l \in Consumers /\ wants[l] = DynamicSource
  /\ Subscribe(l, Uuid[l])
  /\ dynamic' = dynamic \cup {Uuid[l]}

OpenConsumer(l) ==
  /\ Opening(l) /\ l \in Consumers /\ wants[l] \in Address
  /\ Subscribe(l, wants[l])
  /\ UNCHANGED dynamic

OpenProducer(l) ==
  /\ Opening(l) /\ l \in Producers /\ wants[l] \in Address
  /\ node' = [node EXCEPT ![l] = wants[l]]
  /\ UNCHANGED <<peers, table, flow>>

\* Neither a temporary nor a given address: the broker sets none.
OpenWithoutAddress(l) ==
  /\ Opening(l) /\ wants[l] = None
  /\ UNCHANGED <<peers, node, table, flow>>

OnLinkOpening == \E l \in Links : \/ OpenDynamic(l)
                                  \/ OpenConsumer(l)
                                  \/ OpenProducer(l)
                                  \/ OpenWithoutAddress(l)

\* self._queue(a) with the content q, dispatched to the consumers S.
DispatchTo(a, q, S) ==
  /\ queues' = queues \cup {a}
  /\ msgs' = [msgs EXCEPT ![a] = Rest(q, S, credit)]
  /\ taken' = [taken EXCEPT ![a] = @ \o Taken(q, S, credit)]
  /\ got' = [c \in Consumers |-> got[c] \o Share(q, S, credit, ticket, c)]
  /\ credit' = [c \in Consumers |->
                  credit[c] - Quota(q, S, credit, ticket, c)]
  /\ UNCHANGED <<dynamic, subs, ticket>>

\* The library calls on_sendable only for a link open on both sides with credit.
Sendable(l) == local[l] = "active" /\ remote[l] = "active" /\ credit[l] > 0

\* Mutant: on_sendable makes the queue and forgets to dispatch it.
OnSendableNoDispatch ==
  /\ Pending("sendable") /\ Sendable(Sender)
  /\ queues' = queues \cup {node[Sender]}
  /\ Handled
  /\ UNCHANGED <<peers, local, node, dynamic, subs, ticket, flow>>

OnSendable ==
  /\ Pending("sendable") /\ Sendable(Sender)
  /\ LET a == node[Sender] IN DispatchTo(a, msgs[a], {Sender})
  /\ Handled
  /\ UNCHANGED <<peers, local, node>>

\* The event of a link that is no longer open or whose credit is used up.
IgnoreFlow ==
  /\ Pending("sendable") /\ ~Sendable(Sender)
  /\ Handled
  /\ UNCHANGED <<peers, local, node, table, flow>>

\* The address of the link's target, or else that of the message.
AddressOf(e) == IF node[e.link] /= None THEN node[e.link] ELSE e.to

\* Mutants: publish appends without dispatching; it appends on the left.
OnMessageNoDispatch ==
  /\ Pending("message")
  /\ LET e == Head(events)
         a == AddressOf(e)
     IN DispatchTo(a, Append(msgs[a], e.id), {})
  /\ Handled
  /\ UNCHANGED <<peers, local, node>>
OnMessageLeft ==
  /\ Pending("message")
  /\ LET e == Head(events)
         a == AddressOf(e)
     IN DispatchTo(a, <<e.id>> \o msgs[a], subs[a])
  /\ Handled
  /\ UNCHANGED <<peers, local, node>>

OnMessage ==
  /\ Pending("message")
  /\ LET e == Head(events)
         a == AddressOf(e)
     IN DispatchTo(a, Append(msgs[a], e.id), subs[a])
  /\ Handled
  /\ UNCHANGED <<peers, local, node>>

\* Mutants: a temporary queue is kept for its messages; a queue that loses its
\* last consumer is always deleted.
DeletedIfEmpty(L) ==
  {a \in {node[l] : l \in L} \cap queues : subs[a] \ L = {} /\ msgs[a] = <<>>}
DeletedAlways(L) ==
  {a \in {node[l] : l \in L} \cap queues : subs[a] \ L = {}}

\* _unsubscribe of every consumer in L: a queue that loses its last consumer
\* is deleted if it is temporary or empty.
Deleted(L) ==
  {a \in {node[l] : l \in L} \cap queues :
     subs[a] \ L = {} /\ (a \in dynamic \/ msgs[a] = <<>>)}

\* Mutant: the flag of a deleted temporary queue survives.
UnsubscribeKeepsFlag(L) ==
  /\ subs' = [a \in Keys |-> subs[a] \ L]
  /\ queues' = queues \ Deleted(L)
  /\ dynamic' = dynamic
  /\ msgs' = [a \in Keys |-> IF a \in Deleted(L) THEN <<>> ELSE msgs[a]]
  /\ UNCHANGED <<ticket, credit, taken, got>>

Unsubscribe(L) ==
  /\ subs' = [a \in Keys |-> subs[a] \ L]
  /\ queues' = queues \ Deleted(L)
  /\ dynamic' = dynamic \ Deleted(L)
  /\ msgs' = [a \in Keys |-> IF a \in Deleted(L) THEN <<>> ELSE msgs[a]]
  /\ UNCHANGED <<ticket, credit, taken, got>>

\* The library closes the link when the handler returns.
OnLinkClosing ==
  /\ Pending("link_closing")
  /\ Unsubscribe({Sender} \cap Consumers)
  /\ local' = [local EXCEPT ![Sender] = "closed"]
  /\ Handled
  /\ UNCHANGED <<peers, node>>

\* The consumers that remove_stale_consumers finds on connection k.
RemoteActive(k) == {c \in Consumers : ConnOf[c] = k /\ remote[c] = "active"}

RemoveStaleConsumers(k) ==
  /\ Unsubscribe(RemoteActive(k))
  /\ conn' = [conn EXCEPT ![k] = "removed"]
  /\ UNCHANGED <<remote, wants, arrived, local, node>>

OnConnectionClosing == /\ Pending("connection_closing")
                       /\ RemoveStaleConsumers(Head(events).conn)
                       /\ Handled

\* Mutant: the broker does nothing when a connection fails.
OnDisconnectedForgets ==
  /\ Pending("disconnected")
  /\ conn' = [conn EXCEPT ![Head(events).conn] = "removed"]
  /\ Handled
  /\ UNCHANGED <<remote, wants, arrived, local, node, table, flow>>

OnDisconnected == /\ Pending("disconnected")
                  /\ RemoveStaleConsumers(Head(events).conn)
                  /\ Handled

Handle == \/ OnLinkOpening
          \/ OnSendable
          \/ IgnoreFlow
          \/ OnMessage
          \/ OnLinkClosing
          \/ OnConnectionClosing
          \/ OnDisconnected

Next == Peer \/ Handle

\* The container runs its handlers as long as events wait; peers owe nothing.
Spec == Init /\ [][Next]_vars /\ WF_vars(Handle)

-----------------------------------------------------------------------------
(* Properties *)

\* The variables stay within their types; a deleted queue leaves nothing behind.
TypeOK ==
  /\ conn \in [Conns -> {"up", "lost", "removed"}]
  /\ remote \in [Links -> LinkState]
  /\ local \in [Links -> LinkState]
  /\ wants \in [Links -> Keys \cup {DynamicSource}]
  /\ node \in [Links -> Keys]
  /\ credit \in [Consumers -> Nat]
  /\ events \in Seq(Event)
  /\ arrived \in 0..MaxMessages
  /\ queues \subseteq Keys
  /\ dynamic \subseteq queues
  /\ msgs \in [Keys -> Seq(Messages)]
  /\ subs \in [Keys -> SUBSET Consumers]
  /\ ticket \in [Consumers -> Nat]
  /\ taken \in [Keys -> Seq(Messages)]
  /\ got \in [Consumers -> Seq(Messages)]

Elements(s) == {s[k] : k \in DOMAIN s}

\* A link is in the consumers of a queue exactly while the broker has it open,
\* under the address it was given, on a connection it has not cleaned up: no
\* stale consumer stays in any queue and none is dropped early, whatever order
\* link closings, connection closings and disconnections are handled in.
NoStaleConsumer ==
  \A c \in Consumers, a \in Keys :
    /\ c \in subs[a] <=> /\ node[c] = a /\ a /= None
                         /\ local[c] = "active"
                         /\ conn[ConnOf[c]] /= "removed"
    /\ c \in subs[a] => a \in queues

\* A queue is kept only while somebody needs it: it has a consumer, or it is
\* not temporary and holds messages (the nameless queue that on_sendable makes
\* for a link without an address is the exception).
NoIdleQueue ==
  \A a \in queues \ {None} : subs[a] /= {} \/ (a \notin dynamic /\ msgs[a] /= <<>>)

\* A link the broker may send on: its peer has not detached it.
Willing(c, a) == c \in subs[a] /\ remote[c] = "active" /\ credit[c] > 0

\* No message waits beside a consumer with credit unless the event that will
\* dispatch it is on its way: neither a new message, a new subscription nor
\* credit that overtakes the handling of its link is forgotten.
NoStrandedMessage ==
  \A a \in Keys, c \in Consumers :
    msgs[a] /= <<>> /\ Willing(c, a) =>
      [kind |-> "sendable", link |-> c] \in Elements(events)

Increasing(s) == \A j, k \in DOMAIN s : j < k => s[j] < s[k]

\* Every consumer sees messages in the order in which they arrived, no message
\* reaches two consumers, and a message sent to one waits in no queue.
DeliveredOnceInOrder ==
  \A c \in Consumers :
    /\ Increasing(got[c])
    /\ \A d \in Consumers \ {c} : Elements(got[c]) \cap Elements(got[d]) = {}
    /\ \A a \in Keys : Elements(got[c]) \cap Elements(msgs[a]) = {}

\* The address a of the broker is the abstract node.
Node(a) == INSTANCE FifoNode WITH backlog <- msgs[a], handed <- taken[a]

\* Every fixed address, and the nameless one, behaves as a FIFO node: creating
\* and deleting its queue on demand never loses or reorders a message.  (It is
\* \A a : Node(a)!Spec with the quantifier moved into the formulas.)
NamedAddressesAreFifo ==
  /\ \A a \in Named \cup {None} : Node(a)!Init
  /\ [][\A a \in Named \cup {None} :
           [Node(a)!Next]_(Node(a)!vars)]_<<msgs, taken>>

\* A message does not wait forever beside a consumer that has credit: it is
\* handed over, or the consumer leaves.
WaitingEndsWithCredit ==
  \A a \in Keys, c \in Consumers :
    (msgs[a] /= <<>> /\ Willing(c, a)) ~> ~(msgs[a] /= <<>> /\ Willing(c, a))
=============================================================================
