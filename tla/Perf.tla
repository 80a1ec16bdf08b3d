-------------------------------- MODULE Perf --------------------------------
(***************************************************************************)
(* perf_send.py and perf_recv.py on one node.  The receiver does not look  *)
(* for duplicates: it counts, and averages over, every message it is       *)
(* handed, also one that is sent again after the sender's connection broke *)
(* or handed out again after its own did.                                  *)
(***************************************************************************)
EXTENDS Naturals, Sequences, FiniteSets

CONSTANTS Total,       \* self.total of the sender
          Expected,    \* self.expected of the receiver, 0 for no limit
          MaxCredit,   \* credit that one flow gives at most (bound)
          MaxBreaks    \* connections that break (bound)

VARIABLES
  sent, confirmed,   \* of class Send
  received,          \* of class Recv
  wire, acks,        \* messages to the node, acceptances back
  store,             \* what the node has to hand out
  unsettled,         \* what it has handed out and may take back
  breaks,
  measured,          \* history: the messages counted
  again              \* history: how many were sent or handed out again

sender == <<sent, confirmed, wire, acks>>
receiver == <<received, unsettled, measured>>
vars == <<sender, receiver, store, breaks, again>>

Init ==
  /\ sent = 0 /\ confirmed = 0 /\ received = 0
  /\ wire = <<>> /\ acks = 0
  /\ store = <<>> /\ unsettled = <<>>
  /\ breaks = 0 /\ measured = {} /\ again = 0

-----------------------------------------------------------------------------
(* perf_send.py: the loop of on_sendable sends all that the credit allows, *)
(* however long it sleeps in between.                                      *)

Batch(c) == IF c <= Total - sent THEN c ELSE Total - sent

OnSendable ==
  /\ sent < Total
  /\ \E c \in 1..MaxCredit :
       /\ wire' = wire \o [k \in 1..Batch(c) |-> sent + k]
       /\ sent' = sent + Batch(c)
  /\ UNCHANGED <<confirmed, acks, receiver, store, breaks, again>>

OnAccepted ==
  /\ acks > 0
  /\ acks' = acks - 1
  /\ confirmed' = confirmed + 1
  /\ UNCHANGED <<sent, wire, receiver, store, breaks, again>>

\* Mutant: the sequence starts again.
OnDisconnectedStartsAgain ==
  /\ confirmed < Total /\ breaks < MaxBreaks
  /\ breaks' = breaks + 1
  /\ sent' = 0
  /\ again' = again + (sent - confirmed)
  /\ wire' = <<>> /\ acks' = 0
  /\ UNCHANGED <<confirmed, receiver, store>>

\* What the node has read of the broken connection stays there.
OnDisconnected ==
  /\ confirmed < Total /\ breaks < MaxBreaks
  /\ breaks' = breaks + 1
  /\ sent' = confirmed
  /\ again' = again + (sent - confirmed)
  /\ wire' = <<>> /\ acks' = 0
  /\ UNCHANGED <<confirmed, receiver, store>>

NodeAccepts ==
  /\ wire /= <<>>
  /\ wire' = Tail(wire)
  /\ store' = Append(store, Head(wire))
  /\ acks' = acks + 1
  /\ UNCHANGED <<sent, confirmed, receiver, breaks, again>>

-----------------------------------------------------------------------------
(* perf_recv.py. *)

Done == Expected > 0 /\ received = Expected

\* The receiver closes its connection when it has what it expects.
OnMessage ==
  /\ ~Done /\ store /= <<>>
  /\ store' = Tail(store)
  /\ received' = received + 1
  /\ measured' = measured \union {Head(store)}
  /\ unsettled' = IF Done' THEN <<>> ELSE Append(unsettled, Head(store))
  /\ UNCHANGED <<sender, breaks, again>>

NodeHears ==
  /\ unsettled /= <<>>
  /\ unsettled' = Tail(unsettled)
  /\ UNCHANGED <<sender, received, measured, store, breaks, again>>

RecvBreaks ==
  /\ ~Done /\ breaks < MaxBreaks
  /\ breaks' = breaks + 1
  /\ again' = again + Len(unsettled)
  /\ store' = unsettled \o store
  /\ unsettled' = <<>>
  /\ UNCHANGED <<sender, received, measured>>

Next ==
  \/ OnSendable \/ OnAccepted \/ OnDisconnected \/ NodeAccepts
  \/ OnMessage \/ NodeHears \/ RecvBreaks

Fairness ==
  /\ WF_vars(OnSendable) /\ WF_vars(OnAccepted)
  /\ WF_vars(NodeAccepts) /\ WF_vars(OnMessage)

Spec == Init /\ [][Next]_vars /\ Fairness

-----------------------------------------------------------------------------
(* Properties *)

\* What the receiver's averages count twice was sent or handed out again, and
\* the sender never counts a message as confirmed that the receiver, or the
\* node, does not have.
CountsAreHonest ==
  /\ received - Cardinality(measured) <= again
  /\ 1..confirmed \subseteq measured \union {store[k] : k \in DOMAIN store}

\* How it ends: everything is confirmed, and the receiver has counted as many
\* messages as it expects, if that is not more than the sequence has.
BothEnd == confirmed = Total /\ (Expected \in 1..Total => Done)
=============================================================================
