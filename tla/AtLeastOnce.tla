---------------------------- MODULE AtLeastOnce ----------------------------
(***************************************************************************)
(* The guarantee that README.txt gives for simple_send.py, as a system of  *)
(* its own: the messages 1..Total reach a node in sequence.  Any message   *)
(* may reach it again, but only after its predecessor has, and the sender  *)
(* counts a message as confirmed only when the node has it.                *)
(***************************************************************************)
EXTENDS Naturals, Sequences

CONSTANT Total           \* the length of the sequence

VARIABLES log,           \* what the node has accepted, oldest first
          confirmed      \* the sender knows that 1..confirmed are accepted

vars == <<log, confirmed>>

Accepted(i) == \E k \in DOMAIN log : log[k] = i

Init == log = <<>> /\ confirmed = 0

\* A message is accepted, for the first time or again.
Accept(i) == /\ i = 1 \/ Accepted(i - 1)
             /\ log' = Append(log, i)
             /\ UNCHANGED confirmed

Confirm == /\ confirmed < Total
           /\ Accepted(confirmed + 1)
           /\ confirmed' = confirmed + 1
           /\ UNCHANGED log

Next == Confirm \/ \E i \in 1..Total : Accept(i)

Spec == Init /\ [][Next]_vars
=============================================================================
