---------------------------- MODULE MCTxExchange ----------------------------
(***************************************************************************)
(* Two instances of TxExchange, one of which runs: that of the extended    *)
(* module, where the last batch of each program is partial, and one with   *)
(* totals that are multiples of the batches, as test_tx_send_tx_recv has.  *)
(***************************************************************************)
EXTENDS TxExchange

CONSTANTS WholeTotal, WholeExpected

VARIABLE whole     \* the second one runs

Whole == INSTANCE TxExchange WITH Total <- WholeTotal, Expected <- WholeExpected

MCInit ==
  \/ whole = TRUE  /\ Whole!ExchangeInit
  \/ whole = FALSE /\ ExchangeInit

MCNext ==
  \/ whole  /\ Whole!ExchangeNext /\ UNCHANGED whole
  \/ ~whole /\ ExchangeNext /\ UNCHANGED whole

MCFairness ==
  \/ whole  /\ Whole!Fairness /\ Whole!Receiver!Fairness
  \/ ~whole /\ Fairness /\ Receiver!Fairness

MCSpec == MCInit /\ [][MCNext]_<<exchangeVars, whole>> /\ MCFairness

-----------------------------------------------------------------------------
(* Properties *)

\* tx_send.py, in both instances: all full batches are committed in the end, if
\* no connection breaks, and the program ends if and only if there is no partial
\* batch.
FullBatchesCommitted ==
  \/ whole  /\ Whole!AllCommitted
  \/ ~whole /\ AllCommitted

\* tx_recv.py, in both: if no connection breaks the receiver ends when it has what
\* it expects, or it has taken all full batches that there are.
ReceiversEnd ==
  \/ whole  /\ Whole!ReceiverEnds
  \/ ~whole /\ ReceiverEnds
=============================================================================
