------------------------------ MODULE MCBroker ------------------------------
(* Two consumers on connections of their own, a producer beside the second. *)
EXTENDS Broker

CONSTANTS k1, k2, c1, c2, p

MCConns     == {k1, k2}
MCConsumers == {c1, c2}
MCProducers == {p}
MCConnOf    == [l \in {c1, c2, p} |-> IF l = c1 THEN k1 ELSE k2]
MCUuid      == [c \in {c1, c2} |-> <<"uuid", c>>]
=============================================================================
