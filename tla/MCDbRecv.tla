------------------------------ MODULE MCDbRecv ------------------------------
(***************************************************************************)
(* The receiver on a node that has one of a set of logs from the start: a  *)
(* message that comes later is one that is handed out later.               *)
(***************************************************************************)
EXTENDS DbRecv, SequencesExt

CONSTANTS Rows,          \* ids of the sender's records
          MaxLog         \* messages of the node at most

ASSUME RowsAssumption == Rows \subseteq Nat \ {0} /\ MaxLog \in Nat

\* What an at-least-once sender may put in the log: each message may be there
\* several times, the first time after all rows with smaller ids.
Sequenced(s) ==
  \A k \in DOMAIN s : \A r \in Rows : r < s[k] => \E j \in 1..(k - 1) : s[j] = r

Feeds == {s \in BoundedSeq(Rows, MaxLog) : Sequenced(s)}

Init == RecvInit /\ log \in Feeds

vars == <<recvVars, log>>

Spec == Init /\ [][RecvNext]_vars /\ RecvFairness
=============================================================================
