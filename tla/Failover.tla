------------------------------ MODULE Failover ------------------------------
(***************************************************************************)
(* failover_send.py and failover_recv.py on several nodes: the container   *)
(* connects to one of the urls, and after a broken connection to any of    *)
(* them.  Each node keeps the messages that it accepted, in order, until   *)
(* the receiver has accepted them.                                         *)
(*                                                                         *)
(* Of what a broken connection carries to the node, the first part may     *)
(* have been read; acceptances that it carries back are lost.              *)
(***************************************************************************)
EXTENDS Naturals, Sequences, FiniteSetsExt

CONSTANTS Nodes,       \* self.urls
          Total,       \* self.total of the sender
          Expected,    \* self.expected of the receiver, 0 for no limit
          MaxCredit,   \* credit that one flow gives at most (bound)
          MaxBreaks    \* connections that break (bound)

VARIABLES
  sent, confirmed,   \* of class Send
  received,          \* self.received of class Recv
  sendNode,          \* the sender's node, or None while it has no connection
  recvNode,          \* the receiver's
  wire, acks,        \* messages to the sender's node, acceptances back
  store,             \* what each node has to hand out
  unsettled,         \* what the receiver's node has handed out and may take back
  breaks,
  printed,           \* history: the messages printed
  ignored,           \* history: the messages ignored as duplicates
  used               \* history: the nodes that the programs connected to

CONSTANT None

sender == <<sent, confirmed, sendNode, wire, acks>>
receiver == <<received, recvNode, unsettled, printed, ignored>>
vars == <<sender, receiver, store, breaks, used>>

Init ==
  /\ sent = 0 /\ confirmed = 0 /\ received = 0
  /\ sendNode = None /\ recvNode = None
  /\ wire = <<>> /\ acks = 0
  /\ store = [n \in Nodes |-> <<>>] /\ unsettled = <<>>
  /\ breaks = 0 /\ printed = {} /\ ignored = {} /\ used = {}

-----------------------------------------------------------------------------
(* failover_send.py. *)

SendDone == confirmed = Total

\* on_start, and the container's next try.
SendConnect(n) ==
  /\ sendNode = None
  /\ sendNode' = n
  /\ used' = used \union {n}
  /\ UNCHANGED <<sent, confirmed, wire, acks, receiver, store, breaks>>

Batch(c) == IF c <= Total - sent THEN c ELSE Total - sent

OnSendable ==
  /\ sendNode /= None /\ sent < Total
  /\ \E c \in 1..MaxCredit :
       /\ wire' = wire \o [k \in 1..Batch(c) |-> sent + k]
       /\ sent' = sent + Batch(c)
  /\ UNCHANGED <<confirmed, sendNode, acks, receiver, store, breaks, used>>

OnAccepted ==
  /\ sendNode /= None /\ acks > 0
  /\ acks' = acks - 1
  /\ confirmed' = confirmed + 1
  /\ UNCHANGED <<sent, sendNode, wire, receiver, store, breaks, used>>

NodeAccepts ==
  /\ wire /= <<>>
  /\ wire' = Tail(wire)
  /\ store' = [store EXCEPT ![sendNode] = Append(@, Head(wire))]
  /\ acks' = acks + 1
  /\ UNCHANGED <<sent, confirmed, sendNode, receiver, breaks, used>>

OnDisconnected ==
  /\ sendNode /= None /\ ~SendDone /\ breaks < MaxBreaks
  /\ breaks' = breaks + 1
  /\ sent' = confirmed
  /\ \E k \in 0..Len(wire) :
       store' = [store EXCEPT ![sendNode] = @ \o SubSeq(wire, 1, k)]
  /\ sendNode' = None /\ wire' = <<>> /\ acks' = 0
  /\ UNCHANGED <<confirmed, receiver, used>>

-----------------------------------------------------------------------------
(* failover_recv.py. *)

RecvDone == Expected > 0 /\ received = Expected

RecvConnect(n) ==
  /\ recvNode = None /\ ~RecvDone
  /\ recvNode' = n
  /\ used' = used \union {n}
  /\ UNCHANGED <<sender, received, unsettled, printed, ignored, store, breaks>>

\* Mutant: the test is off by one the other way.
IsDuplicateTooWide(id) == id <= received + 1

IsDuplicate(id) == id < received

\* The container accepts a message when on_message returns.  The last one closes
\* the connection, after its acceptance and those before.
OnMessage ==
  /\ recvNode /= None /\ store[recvNode] /= <<>>
  /\ store' = [store EXCEPT ![recvNode] = Tail(@)]
  /\ LET id == Head(store[recvNode])
     IN  IF IsDuplicate(id)
         THEN /\ ignored' = ignored \union {id}
              /\ unsettled' = Append(unsettled, id)
              /\ UNCHANGED <<received, printed, recvNode>>
         ELSE /\ printed' = printed \union {id}
              /\ received' = received + 1
              /\ recvNode' = IF RecvDone' THEN None ELSE recvNode
              /\ unsettled' = IF RecvDone' THEN <<>> ELSE Append(unsettled, id)
              /\ ignored' = ignored
  /\ UNCHANGED <<sender, breaks, used>>

NodeHears ==
  /\ unsettled /= <<>>
  /\ unsettled' = Tail(unsettled)
  /\ UNCHANGED <<sender, received, recvNode, printed, ignored, store, breaks, used>>

\* Class Recv has no handler for this: received stays.
RecvBreaks ==
  /\ recvNode /= None /\ breaks < MaxBreaks
  /\ breaks' = breaks + 1
  /\ store' = [store EXCEPT ![recvNode] = unsettled \o @]
  /\ recvNode' = None /\ unsettled' = <<>>
  /\ UNCHANGED <<sender, received, printed, ignored, used>>

Next ==
  \/ \E n \in Nodes : SendConnect(n) \/ RecvConnect(n)
  \/ OnSendable \/ OnAccepted \/ NodeAccepts \/ OnDisconnected
  \/ OnMessage \/ NodeHears \/ RecvBreaks

Spec == Init /\ [][Next]_vars

-----------------------------------------------------------------------------
(* Properties *)

\* While the programs have used one node, a message is ignored only if it was
\* printed before.
OneNodeIgnoresDuplicates == Cardinality(used) = 1 => ignored \subseteq printed

\* "ignore duplicate message": the same, whatever nodes they use.
IgnoresOnlyDuplicates == ignored \subseteq printed
=============================================================================
