------------------------------ MODULE Exchange ------------------------------
(***************************************************************************)
(* simple_send.py and simple_recv.py on the same node, as README.txt       *)
(* proposes: the sender's connections may break, the receiver's does not.  *)
(***************************************************************************)
EXTENDS SimpleSend, SimpleRecv, FiniteSets

vars == <<sendVars, recvVars>>

Init == SendInit /\ RecvInit

SendStep == SendNext /\ UNCHANGED recvVars

ReceiveStep == OnMessage /\ UNCHANGED sendVars

Next == SendStep \/ ReceiveStep

Spec == /\ Init /\ [][Next]_vars
        /\ SendFairness
        /\ WF_vars(ReceiveStep)

-----------------------------------------------------------------------------
(* Properties *)

\* A receiver that expects the whole sequence ends with it, unless a message
\* that was printed twice took the place of the last one (simple_send_recv of
\* test_examples.py, where no connection breaks).
EndsWhenPrinted ==
  <>[](~open /\ (Printed = Ids \/ received > Cardinality(Printed)))
=============================================================================
