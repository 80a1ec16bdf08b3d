------------------------------- MODULE TxSend -------------------------------
(***************************************************************************)
(* class TxSend of tx_send.py: it sends the messages 1..Total in batches,  *)
(* each in a transaction of the node, and declares the next transaction    *)
(* when the last one is committed.                                         *)
(*                                                                         *)
(* A connection keeps the order of its frames.  When it breaks, what it    *)
(* carries is lost and the node aborts its transaction; the program keeps  *)
(* the transaction it holds, and the node refuses it from then on.  log    *)
(* has the messages of committed transactions.                             *)
(***************************************************************************)
EXTENDS Naturals, Sequences, FiniteSetsExt, NodeLog

CONSTANTS Total,         \* self.total, the option --messages
          BatchSize,     \* self.batch_size
          MaxCredit,     \* the window of the node (bound)
          MaxBreaks      \* connections that break (bound)

ASSUME TxSendAssumption == /\ Total \in Nat \ {0}
                           /\ BatchSize \in Nat \ {0}
                           /\ MaxCredit \in Nat \ {0}
                           /\ MaxBreaks \in Nat

VARIABLES
  currentBatch,  \* self.current_batch
  committed,     \* self.committed
  confirmed,     \* self.confirmed
  transaction,   \* self.transaction: its number at the node, 0 for None
  credit,        \* self.sender.credit
  closed,        \* the connection is closed for good
  wire,          \* frames on the way to the node
  replies,       \* frames on the way back
  declared,      \* how many transactions the node declared
  open,          \* the node's transaction, 0 if none is open
  staged,        \* the messages of that transaction
  breaks         \* how many connections broke

programVars == <<currentBatch, committed, confirmed, transaction, closed>>
nodeVars    == <<declared, open, staged, log>>
vars        == <<programVars, credit, wire, replies, nodeVars, breaks>>

Declare       == [type |-> "declare"]
Message(i, t) == [type |-> "message", id |-> i, tx |-> t]
Discharge(t)  == [type |-> "discharge", tx |-> t]
Declared(t)   == [type |-> "declared", tx |-> t]
Committed     == [type |-> "committed"]
Accepted      == [type |-> "accepted"]

Init ==
  /\ currentBatch = 0 /\ committed = 0 /\ confirmed = 0
  /\ transaction = 0
  /\ credit = 0
  /\ closed = FALSE
  /\ wire = <<Declare>>
  /\ replies = <<>>
  /\ declared = 0 /\ open = 0
  /\ staged = <<>> /\ log = <<>>
  /\ breaks = 0

-----------------------------------------------------------------------------
(* The handlers. *)

\* How many messages the loop of send sends in a transaction with credit c.
Room(c) == Min({c, BatchSize - currentBatch, Total - (committed + currentBatch)})

\* Mutant: a transaction is committed when the loop ends.
CommitsAtOnce(n) == n > 0

\* The loop commits when the batch is full.
Commits(n) == n > 0 /\ currentBatch + n = BatchSize

\* send, with credit c and transaction t.
Send(c, t) ==
  LET n == IF t = 0 THEN 0 ELSE Room(c)
      messages == [k \in 1..n |-> Message(committed + currentBatch + k, t)]
  IN  /\ currentBatch' = currentBatch + n
      /\ credit' = c - n
      /\ transaction' = IF Commits(n) THEN 0 ELSE t
      /\ wire' = wire \o messages
                   \o IF Commits(n) THEN <<Discharge(t)>> ELSE <<>>

\* The node's flow.
OnSendable ==
  /\ ~closed /\ credit < MaxCredit
  /\ \E c \in (credit + 1)..MaxCredit : Send(c, transaction)
  /\ UNCHANGED <<committed, confirmed, closed, replies, nodeVars, breaks>>

\* The next frame for the program has the given type.
Reply(type) ==
  /\ ~closed
  /\ replies /= <<>> /\ Head(replies).type = type
  /\ replies' = Tail(replies)

OnTransactionDeclared ==
  /\ Reply("declared")
  /\ Send(credit, Head(replies).tx)
  /\ UNCHANGED <<committed, confirmed, closed, nodeVars, breaks>>

\* Mutant: what is accepted counts as committed.
OnAcceptedCounts ==
  /\ Reply("accepted")
  /\ committed' = committed + 1
  /\ UNCHANGED <<currentBatch, confirmed, transaction, closed, credit, wire,
                 nodeVars, breaks>>

OnAccepted ==
  /\ Reply("accepted")
  /\ confirmed' = confirmed + 1
  /\ UNCHANGED <<currentBatch, committed, transaction, closed, credit, wire,
                 nodeVars, breaks>>

\* Mutant: no transaction follows.
OnTransactionCommittedOnce ==
  /\ Reply("committed")
  /\ committed' = committed + currentBatch
  /\ closed' = (committed' = Total)
  /\ currentBatch' = 0
  /\ UNCHANGED <<confirmed, transaction, credit, wire, nodeVars, breaks>>

\* Mutant: the test for the end does not count the batch.
OnTransactionCommittedLate ==
  /\ Reply("committed")
  /\ committed' = committed + currentBatch
  /\ closed' = (committed = Total)
  /\ IF closed' THEN UNCHANGED <<currentBatch, wire>>
                ELSE /\ currentBatch' = 0
                     /\ wire' = Append(wire, Declare)
  /\ UNCHANGED <<confirmed, transaction, credit, nodeVars, breaks>>

OnTransactionCommitted ==
  /\ Reply("committed")
  /\ committed' = committed + currentBatch
  /\ closed' = (committed' = Total)
  /\ IF closed' THEN UNCHANGED <<currentBatch, wire>>
                ELSE /\ currentBatch' = 0
                     /\ wire' = Append(wire, Declare)
  /\ UNCHANGED <<confirmed, transaction, credit, nodeVars, breaks>>

\* The connection breaks; the container makes another one.  The transaction
\* stays, and none is declared.
OnDisconnected ==
  /\ ~closed /\ breaks < MaxBreaks
  /\ breaks' = breaks + 1
  /\ currentBatch' = 0
  /\ credit' = 0 /\ wire' = <<>> /\ replies' = <<>>
  /\ open' = 0 /\ staged' = <<>>
  /\ UNCHANGED <<committed, confirmed, transaction, closed, declared, log>>

-----------------------------------------------------------------------------
(* The node. *)

\* The next frame for the node has the given type.
Frame(type) ==
  /\ wire /= <<>> /\ Head(wire).type = type
  /\ wire' = Tail(wire)

NodeDeclares ==
  /\ Frame("declare")
  /\ declared' = declared + 1
  /\ open' = declared'
  /\ replies' = Append(replies, Declared(open'))
  /\ UNCHANGED <<programVars, credit, staged, log, breaks>>

\* A message of a transaction that is not open is refused; the program has no
\* handler for that.
NodeStages ==
  /\ Frame("message")
  /\ IF Head(wire).tx = open
     THEN /\ staged' = Append(staged, Head(wire).id)
          /\ replies' = Append(replies, Accepted)
     ELSE UNCHANGED <<staged, replies>>
  /\ UNCHANGED <<programVars, credit, declared, open, log, breaks>>

\* So is the commit of such a transaction.
NodeCommits ==
  /\ Frame("discharge")
  /\ IF Head(wire).tx = open
     THEN /\ log' = log \o staged
          /\ staged' = <<>>
          /\ open' = 0
          /\ replies' = Append(replies, Committed)
     ELSE UNCHANGED <<log, staged, open, replies>>
  /\ UNCHANGED <<programVars, credit, declared, breaks>>

Node == NodeDeclares \/ NodeStages \/ NodeCommits

Next ==
  \/ OnSendable \/ OnTransactionDeclared \/ OnAccepted
  \/ OnTransactionCommitted \/ OnDisconnected
  \/ NodeDeclares \/ NodeStages \/ NodeCommits

\* The container handles what arrives; the node reads, and gives credit again.
Fairness ==
  /\ WF_vars(OnTransactionDeclared \/ OnAccepted \/ OnTransactionCommitted)
  /\ WF_vars(Node)
  /\ WF_vars(OnSendable)

SendSpec == Init /\ [][Next]_vars /\ Fairness

-----------------------------------------------------------------------------
(* Properties *)

\* The node has the messages in sequence, each once, in whole batches, however
\* often connections break ("sends messages in atomic batches"), and the program
\* counts them as committed, except that it may not know of the last batch.
WholeBatches ==
  /\ \A k \in DOMAIN log : log[k] = k
  /\ Len(log) % BatchSize = 0
  /\ committed <= Len(log)
  /\ Len(log) <= committed + BatchSize

\* All full batches are committed in the end, if no connection breaks, and the
\* program ends if there is no partial batch.
AllCommitted ==
  <>[](\/ breaks > 0
       \/ /\ Len(log) = Total - (Total % BatchSize)
          /\ closed <=> (Total % BatchSize = 0))
=============================================================================
