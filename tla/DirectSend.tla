----------------------------- MODULE DirectSend -----------------------------
(***************************************************************************)
(* direct_send.py: class Send listens, and sends its sequence to the       *)
(* receivers that connect (simple_recv.py, db_recv.py).  All connections   *)
(* share one pair of counters.                                             *)
(*                                                                         *)
(* A receiver accepts messages in the order of its link.  It may close its *)
(* connection, which the library answers without a call of on_disconnected,*)
(* or break it.                                                            *)
(***************************************************************************)
EXTENDS Naturals, Sequences, FiniteSets

CONSTANTS
  Receivers,
  Total,          \* self.total
  MaxCredit,      \* credit that one flow gives at most (bound)
  MaxPartings     \* connections that end before the last one (bound)

VARIABLES
  sent,        \* self.sent
  confirmed,   \* self.confirmed
  listening,   \* self.acceptor is open
  attached,    \* the receivers that are connected
  wire,        \* for each receiver, the messages on the way
  acks,        \* for each receiver, the acceptances on the way back
  accepted,    \* history: the messages that were accepted
  paired,      \* history: no two receivers at once, no message left behind
  partings     \* how many connections ended

vars ==
  <<sent, confirmed, listening, attached, wire, acks, accepted, paired, partings>>

Ids == 1..Total

Init ==
  /\ sent = 0 /\ confirmed = 0
  /\ listening = TRUE
  /\ attached = {}
  /\ wire = [r \in Receivers |-> <<>>]
  /\ acks = [r \in Receivers |-> 0]
  /\ accepted = {}
  /\ paired = TRUE
  /\ partings = 0

Attach(r) ==
  /\ listening /\ r \notin attached
  /\ attached' = attached \union {r}
  /\ paired' = (paired /\ attached = {})
  /\ UNCHANGED <<sent, confirmed, listening, wire, acks, accepted, partings>>

\* The loop of on_sendable with credit c.
Batch(c) == IF c <= Total - sent THEN c ELSE Total - sent

OnSendable(r) ==
  /\ r \in attached /\ sent < Total
  /\ \E c \in 1..MaxCredit :
       /\ wire' = [wire EXCEPT ![r] = @ \o [k \in 1..Batch(c) |-> sent + k]]
       /\ sent' = sent + Batch(c)
  /\ UNCHANGED <<confirmed, listening, attached, acks, accepted, paired, partings>>

ReceiverAccepts(r) ==
  /\ r \in attached /\ wire[r] /= <<>>
  /\ accepted' = accepted \union {Head(wire[r])}
  /\ wire' = [wire EXCEPT ![r] = Tail(@)]
  /\ acks' = [acks EXCEPT ![r] = @ + 1]
  /\ UNCHANGED <<sent, confirmed, listening, attached, paired, partings>>

\* The connection of r is gone, with what it carries.
Gone(r) ==
  /\ attached' = attached \ {r}
  /\ wire' = [wire EXCEPT ![r] = <<>>]
  /\ acks' = [acks EXCEPT ![r] = 0]

\* The last acceptance closes its own connection and the acceptor; connections
\* of other receivers stay.
OnAccepted(r) ==
  /\ r \in attached /\ acks[r] > 0
  /\ confirmed' = confirmed + 1
  /\ IF confirmed' = Total
     THEN Gone(r) /\ listening' = FALSE
     ELSE /\ acks' = [acks EXCEPT ![r] = @ - 1]
          /\ UNCHANGED <<attached, wire, listening>>
  /\ UNCHANGED <<sent, accepted, paired, partings>>

Parts(r) == /\ r \in attached /\ partings < MaxPartings
            /\ partings' = partings + 1
            /\ Gone(r)

\* Mutant: the sender goes on where it was.
OnDisconnectedGoesOn(r) ==
  /\ Parts(r)
  /\ UNCHANGED <<sent, confirmed, listening, accepted, paired>>

OnDisconnected(r) ==
  /\ Parts(r)
  /\ sent' = confirmed
  /\ UNCHANGED <<confirmed, listening, accepted, paired>>

\* The receiver closes its connection; its acceptances came before that.
ReceiverCloses(r) ==
  /\ Parts(r) /\ acks[r] = 0
  /\ paired' = (paired /\ wire[r] = <<>>)
  /\ UNCHANGED <<sent, confirmed, listening, accepted>>

Next ==
  \E r \in Receivers :
    \/ Attach(r) \/ OnSendable(r) \/ ReceiverAccepts(r) \/ OnAccepted(r)
    \/ OnDisconnected(r) \/ ReceiverCloses(r)

\* Receivers come as long as the sender listens; those that are connected give
\* credit and accept.
Fairness ==
  /\ WF_vars(attached = {} /\ \E r \in Receivers : Attach(r))
  /\ \A r \in Receivers : /\ WF_vars(OnSendable(r))
                          /\ WF_vars(ReceiverAccepts(r))
                          /\ WF_vars(OnAccepted(r))

Spec == Init /\ [][Next]_vars /\ Fairness

-----------------------------------------------------------------------------
(* Properties *)

\* The counters stand for the sequence ("all messages confirmed") as long as
\* receivers come one after the other and close with nothing on the way: the
\* first messages, as many as are confirmed, were accepted.  With several
\* receivers an acceptance of one counts for a message of another.
ConfirmedWereAccepted == paired => 1..confirmed \subseteq accepted

\* How such a run ends: all messages were confirmed.
SequenceEnds == ~paired \/ confirmed = Total
=============================================================================
