------------------------------ MODULE DbBridge ------------------------------
(***************************************************************************)
(* db_send.py and db_recv.py on the same node: records move from src_db to *)
(* dst_db.  The variables of the receiver's database are those with dst.   *)
(***************************************************************************)
EXTENDS DbSend

CONSTANTS Expected, MaxLinks, MaxRestarts

ASSUME BridgeAssumption == /\ Expected \in Nat
                           /\ MaxLinks \in Nat
                           /\ MaxRestarts \in Nat

VARIABLES
  dstTable, dstWork, dstTasks, dstThread, dstRunning, dstPending, dstEvents,
  dstPosition, dstLoading, dstRecords,
  lastId, received, accepted, attached, cursor, accepting, done, link, restarts

Receiver == INSTANCE DbRecv WITH
  table <- dstTable, work <- dstWork, tasks <- dstTasks, thread <- dstThread,
  running <- dstRunning, pending <- dstPending, events <- dstEvents,
  position <- dstPosition, loading <- dstLoading, records <- dstRecords

receiverState ==
  <<dstTable, dstWork, dstTasks, dstThread, dstRunning, dstPending, dstEvents,
    dstPosition, dstLoading, dstRecords,
    lastId, received, accepted, attached, cursor, accepting, done, link, restarts>>

vars == <<sendVars, receiverState>>

Init == SendInit /\ Receiver!RecvInit

SendStep == SendNext /\ UNCHANGED receiverState

ReceiveStep == Receiver!RecvNext /\ UNCHANGED sendVars

Next == SendStep \/ ReceiveStep

Spec == Init /\ [][Next]_vars /\ SendFairness /\ Receiver!RecvFairness

-----------------------------------------------------------------------------
(* Properties *)

\* No record gets lost between the two databases: it is in one of the tables,
\* or the node has its message and will hand it out again.
NoRecordLost ==
  \A i \in Ids : \/ i \in table
                 \/ i \in dstTable
                 \/ \E k \in DOMAIN log \ done : log[k] = i
=============================================================================
