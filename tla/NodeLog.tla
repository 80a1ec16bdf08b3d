------------------------------ MODULE NodeLog ------------------------------
(***************************************************************************)
(* The node (an address of a broker) between a sender and a receiver.      *)
(***************************************************************************)
VARIABLE log             \* what the node has accepted, oldest first
=============================================================================
