---------------------------- MODULE SimpleSend ----------------------------
(***************************************************************************)
(* class Send of simple_send.py (failover_send.py and colour_send.py have  *)
(* the same handlers), the connections it makes one after the other, and   *)
(* the node that accepts its messages.                                     *)
(*                                                                         *)
(* The node accepts each message when it reads it (the library's           *)
(* auto-accept) and a connection keeps order both ways.  What a broken     *)
(* connection still carries towards the node is lost, or is read late,     *)
(* when the sender already uses a new connection; the acceptances that it  *)
(* carries back are lost.                                                  *)
(***************************************************************************)
EXTENDS Naturals, Sequences, NodeLog

CONSTANTS Total,         \* self.total, the option --messages
          MaxCredit,     \* credit that one flow gives at most (bound)
          MaxAttempts    \* connections that are made at most (bound)

ASSUME SendAssumption == /\ Total \in Nat
                         /\ MaxCredit \in Nat \ {0}
                         /\ MaxAttempts \in Nat \ {0}

VARIABLES
  sent,        \* self.sent: the last message sent
  confirmed,   \* self.confirmed: how many were accepted
  up,          \* the sender has a connection
  attempt,     \* the number of the last connection
  closed,      \* the sender has closed it
  wire,        \* messages each connection carries to the node
  acks         \* acceptances the connection carries back

sendVars == <<sent, confirmed, up, attempt, closed, wire, acks, log>>

Attempts == 1..MaxAttempts
Ids      == 1..Total

SendInit ==
  /\ sent = 0
  /\ confirmed = 0
  /\ up = TRUE
  /\ attempt = 1
  /\ closed = FALSE
  /\ wire = [n \in Attempts |-> <<>>]
  /\ acks = 0
  /\ log = <<>>

Connected == up /\ ~closed

-----------------------------------------------------------------------------
(* The handlers of class Send. *)

\* The loop of on_sendable with credit c: it sends until the credit or the
\* sequence ends.
Batch(c) == IF c <= Total - sent THEN c ELSE Total - sent

OnSendable ==
  /\ Connected /\ sent < Total
  /\ \E c \in 1..MaxCredit :
       /\ wire' = [wire EXCEPT ![attempt] =
                     @ \o [k \in 1..Batch(c) |-> sent + k]]
       /\ sent' = sent + Batch(c)
  /\ UNCHANGED <<confirmed, up, attempt, closed, acks, log>>

\* Mutant: the sender closes one acceptance too early.
OnAcceptedClosesEarly ==
  /\ Connected /\ acks > 0
  /\ acks' = acks - 1
  /\ confirmed' = confirmed + 1
  /\ closed' = (confirmed' + 1 = Total)
  /\ UNCHANGED <<sent, up, attempt, wire, log>>

OnAccepted ==
  /\ Connected /\ acks > 0
  /\ acks' = acks - 1
  /\ confirmed' = confirmed + 1
  /\ closed' = (confirmed' = Total)
  /\ UNCHANGED <<sent, up, attempt, wire, log>>

\* Mutant: the sender goes on where it was when the connection broke.
OnDisconnectedGoesOn ==
  /\ Connected /\ attempt < MaxAttempts
  /\ up' = FALSE
  /\ acks' = 0
  /\ UNCHANGED <<sent, confirmed, attempt, closed, wire, log>>

\* The connection breaks; the container will make another one.
OnDisconnected ==
  /\ Connected /\ attempt < MaxAttempts
  /\ sent' = confirmed
  /\ up' = FALSE
  /\ acks' = 0
  /\ UNCHANGED <<confirmed, attempt, closed, wire, log>>

-----------------------------------------------------------------------------
(* The library and the node. *)

Reconnect ==
  /\ ~up
  /\ up' = TRUE
  /\ attempt' = attempt + 1
  /\ UNCHANGED <<sent, confirmed, closed, wire, acks, log>>

\* The node reads a message of connection n and accepts it; the acceptance
\* travels back if the sender still uses that connection.
NodeAccepts(n) ==
  /\ wire[n] /= <<>>
  /\ wire' = [wire EXCEPT ![n] = Tail(@)]
  /\ log' = Append(log, Head(wire[n]))
  /\ acks' = IF up /\ n = attempt THEN acks + 1 ELSE acks
  /\ UNCHANGED <<sent, confirmed, up, attempt, closed>>

\* The node learns that connection n is gone.
WireLost(n) ==
  /\ n /= attempt \/ ~up
  /\ wire[n] /= <<>>
  /\ wire' = [wire EXCEPT ![n] = <<>>]
  /\ UNCHANGED <<sent, confirmed, up, attempt, closed, acks, log>>

SendNext ==
  \/ OnSendable
  \/ OnAccepted
  \/ OnDisconnected
  \/ Reconnect
  \/ \E n \in Attempts : NodeAccepts(n) \/ WireLost(n)

SendFairness ==
  /\ WF_sendVars(OnSendable)
  /\ WF_sendVars(OnAccepted)
  /\ WF_sendVars(Reconnect)
  /\ WF_sendVars(NodeAccepts(attempt))

SendSpec == SendInit /\ [][SendNext]_sendVars /\ SendFairness

-----------------------------------------------------------------------------
(* Properties *)

\* The variables stay within their types; confirmations never pass what was sent.
SendTypeOK ==
  /\ sent \in 0..Total
  /\ confirmed \in 0..Total
  /\ up \in BOOLEAN
  /\ attempt \in Attempts
  /\ closed \in BOOLEAN
  /\ wire \in [Attempts -> Seq(Ids)]
  /\ acks \in 0..Total
  /\ log \in Seq(Ids)

\* The sender and its node implement the guarantee of README.txt: duplicates,
\* but no message of the sequence lost, none out of sequence before its
\* predecessor, none counted as confirmed that the node does not have.
Guarantee == INSTANCE AtLeastOnce
ImplementsAtLeastOnce == Guarantee!Spec

\* What the sender has in flight on its connection is exactly the window after
\* the messages it knows to be accepted: first those whose acceptance travels
\* back, then those that the node has not read.
Window ==
  up => /\ sent = confirmed + acks + Len(wire[attempt])
        /\ \A k \in DOMAIN wire[attempt] :
             wire[attempt][k] = confirmed + acks + k

\* All messages are confirmed in the end, if connections fail finitely often.
AllConfirmed == <>(confirmed = Total)
=============================================================================
