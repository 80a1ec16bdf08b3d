----------------------------- MODULE TxExchange -----------------------------
(***************************************************************************)
(* tx_send.py and tx_recv.py on the same node, as tx_send_tx_recv of       *)
(* test_examples.py runs them.  Each has its connection, and its           *)
(* transactions.  The variables of the receiver are those with recv.       *)
(***************************************************************************)
EXTENDS TxSend

CONSTANTS
  Expected,      \* what the receiver expects; 0: no limit
  RecvBatchSize, \* its batch size
  MaxRecvBreaks  \* its connections that break (bound)

ASSUME TxRecvAssumption == /\ Expected \in Nat
                           /\ RecvBatchSize \in Nat \ {0}
                           /\ MaxRecvBreaks \in Nat

VARIABLES
  recvBatch, recvCommitted, recvTransaction, recvClosed, recvWire, recvReplies,
  recvCredit, handed, recvDeclared, recvOpen, recvStaged, consumed, recvBreaks

Receiver == INSTANCE TxRecv WITH
  BatchSize <- RecvBatchSize, MaxBreaks <- MaxRecvBreaks,
  currentBatch <- recvBatch, committed <- recvCommitted,
  transaction <- recvTransaction, closed <- recvClosed, wire <- recvWire,
  replies <- recvReplies, credit <- recvCredit, declared <- recvDeclared,
  open <- recvOpen, staged <- recvStaged, breaks <- recvBreaks

receiverState ==
  <<recvBatch, recvCommitted, recvTransaction, recvClosed, recvWire, recvReplies,
    recvCredit, handed, recvDeclared, recvOpen, recvStaged, consumed, recvBreaks>>

exchangeVars == <<vars, receiverState>>

ExchangeInit == Init /\ Receiver!Init

SendStep == Next /\ UNCHANGED receiverState

ReceiveStep == Receiver!Next /\ UNCHANGED vars

ExchangeNext == SendStep \/ ReceiveStep

Spec == /\ ExchangeInit /\ [][ExchangeNext]_exchangeVars
        /\ Fairness
        /\ Receiver!Fairness

-----------------------------------------------------------------------------
(* Properties *)

\* No message is handled while the receiver has no transaction to accept it in.
AlwaysInTransaction == Receiver!AlwaysInTransaction

\* Messages leave the node in whole batches of the receiver, in order, and the
\* receiver counts them, except that it may not know of its last batch.
TakesWholeBatches == Receiver!TakesWholeBatches

\* If no connection breaks the receiver ends when it has what it expects, or it
\* has taken all full batches that there are.
ReceiverEnds ==
  <>[](\/ breaks > 0 \/ recvBreaks > 0
       \/ recvClosed /\ recvCommitted >= Expected
       \/ /\ ~recvClosed /\ (Expected = 0 \/ recvCommitted < Expected)
          /\ Len(log) - recvCommitted < RecvBatchSize)
=============================================================================
