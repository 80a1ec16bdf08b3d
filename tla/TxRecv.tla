------------------------------- MODULE TxRecv -------------------------------
(***************************************************************************)
(* class TxRecv of tx_recv.py: it gives credit for one batch, accepts the  *)
(* messages of the batch in a transaction of the node, commits it and      *)
(* declares the next.                                                      *)
(*                                                                         *)
(* The node has the messages of log, each named by its place there.  It    *)
(* forgets those of a committed transaction; when the connection breaks it *)
(* aborts the open transaction and hands out what it has again.            *)
(***************************************************************************)
EXTENDS Naturals, Sequences, FiniteSetsExt, NodeLog

CONSTANTS
  Expected,      \* self.expected, the option --messages; 0: no limit
  BatchSize,     \* self.batch_size
  MaxBreaks      \* connections that break (bound)

VARIABLES
  currentBatch,  \* self.current_batch
  committed,     \* self.committed
  transaction,   \* self.transaction: its number at the node, 0 for None
  closed,        \* the connection is closed for good
  wire,          \* frames on the way to the node
  replies,       \* frames on the way back
  credit,        \* the credit the node has
  handed,        \* the last message handed out on this connection
  declared,      \* how many transactions the node declared
  open,          \* the node's transaction, 0 if none is open
  staged,        \* the messages accepted in it
  consumed,      \* the messages of committed transactions
  breaks         \* how many connections broke

programVars == <<currentBatch, committed, transaction, closed>>
nodeVars    == <<credit, handed, declared, open, staged, consumed>>
vars        == <<programVars, wire, replies, nodeVars, breaks>>

Messages == DOMAIN log

Declare      == [type |-> "declare"]
Flow(n)      == [type |-> "flow", credit |-> n]
Accept(i, t) == [type |-> "accept", id |-> i, tx |-> t]
Discharge(t) == [type |-> "discharge", tx |-> t]
Declared(t)  == [type |-> "declared", tx |-> t]
Committed    == [type |-> "committed"]
Message(i)   == [type |-> "message", id |-> i]

Init ==
  /\ currentBatch = 0 /\ committed = 0
  /\ transaction = 0
  /\ closed = FALSE
  /\ wire = <<Declare>>
  /\ replies = <<>>
  /\ credit = 0 /\ handed = 0
  /\ declared = 0 /\ open = 0
  /\ staged = {} /\ consumed = {}
  /\ breaks = 0

-----------------------------------------------------------------------------
(* The handlers. *)

\* The next frame for the program has the given type.
Reply(type) ==
  /\ ~closed
  /\ replies /= <<>> /\ Head(replies).type = type
  /\ replies' = Tail(replies)

\* Mutant: a credit more than the batch has messages.
OnTransactionDeclaredFlowsMore ==
  /\ Reply("declared")
  /\ wire' = Append(wire, Flow(BatchSize + 1))
  /\ transaction' = Head(replies).tx
  /\ UNCHANGED <<currentBatch, committed, closed, nodeVars, breaks>>

OnTransactionDeclared ==
  /\ Reply("declared")
  /\ wire' = Append(wire, Flow(BatchSize))
  /\ transaction' = Head(replies).tx
  /\ UNCHANGED <<currentBatch, committed, closed, nodeVars, breaks>>

\* Mutant: the message that fills the batch comes after the commit.
AcceptAfterCommit(full) ==
  IF full THEN <<Discharge(transaction), Accept(Head(replies).id, transaction)>>
          ELSE <<Accept(Head(replies).id, transaction)>>

\* The frames of on_message.
AcceptAndCommit(full) ==
  IF full THEN <<Accept(Head(replies).id, transaction), Discharge(transaction)>>
          ELSE <<Accept(Head(replies).id, transaction)>>

OnMessage ==
  /\ Reply("message")
  /\ currentBatch' = currentBatch + 1
  /\ LET full == currentBatch' = BatchSize
     IN  /\ wire' = wire \o AcceptAndCommit(full)
         /\ transaction' = IF full THEN 0 ELSE transaction
  /\ UNCHANGED <<committed, closed, nodeVars, breaks>>

\* Mutant: the batch counts before the test.
OnTransactionCommittedEarly ==
  /\ Reply("committed")
  /\ committed' = committed + currentBatch
  /\ currentBatch' = 0
  /\ closed' = (Expected /= 0 /\ committed >= Expected)
  /\ wire' = wire
  /\ UNCHANGED <<transaction, nodeVars, breaks>>

\* Mutant: one more than expected is waited for.
OnTransactionCommittedBeyond ==
  /\ Reply("committed")
  /\ committed' = committed + currentBatch
  /\ currentBatch' = 0
  /\ closed' = (Expected /= 0 /\ committed' > Expected)
  /\ wire' = IF closed' THEN wire ELSE Append(wire, Declare)
  /\ UNCHANGED <<transaction, nodeVars, breaks>>

OnTransactionCommitted ==
  /\ Reply("committed")
  /\ committed' = committed + currentBatch
  /\ currentBatch' = 0
  /\ closed' = (Expected /= 0 /\ committed' >= Expected)
  /\ wire' = IF closed' THEN wire ELSE Append(wire, Declare)
  /\ UNCHANGED <<transaction, nodeVars, breaks>>

\* The connection breaks; the container makes another one.  The transaction
\* stays, none is declared, and no credit is given.
OnDisconnected ==
  /\ ~closed /\ breaks < MaxBreaks
  /\ breaks' = breaks + 1
  /\ currentBatch' = 0
  /\ wire' = <<>> /\ replies' = <<>>
  /\ credit' = 0 /\ handed' = 0
  /\ open' = 0 /\ staged' = {}
  /\ UNCHANGED <<committed, transaction, closed, declared, consumed>>

-----------------------------------------------------------------------------
(* The node. *)

\* The next frame for the node has the given type.
Frame(type) ==
  /\ wire /= <<>> /\ Head(wire).type = type
  /\ wire' = Tail(wire)

NodeDeclares ==
  /\ Frame("declare")
  /\ declared' = declared + 1
  /\ open' = declared'
  /\ replies' = Append(replies, Declared(open'))
  /\ UNCHANGED <<programVars, credit, handed, staged, consumed, breaks>>

NodeGetsCredit ==
  /\ Frame("flow")
  /\ credit' = credit + Head(wire).credit
  /\ UNCHANGED <<programVars, replies, handed, declared, open, staged, consumed,
                 breaks>>

ToHandOut == {i \in Messages \ consumed : i > handed}

NodeHandsOut ==
  /\ credit > 0 /\ ToHandOut /= {}
  /\ credit' = credit - 1
  /\ handed' = Min(ToHandOut)
  /\ replies' = Append(replies, Message(handed'))
  /\ UNCHANGED <<programVars, wire, declared, open, staged, consumed, breaks>>

NodeStages ==
  /\ Frame("accept")
  /\ staged' = IF Head(wire).tx = open THEN staged \union {Head(wire).id}
                                       ELSE staged
  /\ UNCHANGED <<programVars, replies, credit, handed, declared, open, consumed,
                 breaks>>

NodeCommits ==
  /\ Frame("discharge")
  /\ IF Head(wire).tx = open
     THEN /\ consumed' = consumed \union staged
          /\ staged' = {}
          /\ open' = 0
          /\ replies' = Append(replies, Committed)
     ELSE UNCHANGED <<consumed, staged, open, replies>>
  /\ UNCHANGED <<programVars, credit, handed, declared, breaks>>

Node == NodeDeclares \/ NodeGetsCredit \/ NodeHandsOut \/ NodeStages \/ NodeCommits

Handlers == OnTransactionDeclared \/ OnMessage \/ OnTransactionCommitted

Next == /\ Handlers \/ OnDisconnected \/ Node
        /\ UNCHANGED log

\* The container handles what arrives; the node reads and hands out.
Fairness == WF_vars(Handlers) /\ WF_vars(Node)

-----------------------------------------------------------------------------
(* Properties *)

\* No message is handled while the program has no transaction to accept it in:
\* on_message would call accept on None.
AlwaysInTransaction ==
  (replies /= <<>> /\ Head(replies).type = "message") => transaction /= 0

\* Messages leave the node in whole batches, in order, and the program counts
\* them, except that it may not know of the last batch.
TakesWholeBatches ==
  LET n == Cardinality(consumed)
  IN  /\ consumed = 1..n
      /\ n % BatchSize = 0
      /\ committed <= n /\ n <= committed + BatchSize
=============================================================================
