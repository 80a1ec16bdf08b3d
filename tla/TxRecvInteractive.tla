------------------------- MODULE TxRecvInteractive -------------------------
(***************************************************************************)
(* tx_recv_interactive.py: the user fetches messages one by one and        *)
(* commits or aborts what was fetched, in the program's transaction.  The  *)
(* console's thread only triggers events; the reactor's thread handles     *)
(* them one at a time, and an exception in a handler ends it.              *)
(*                                                                         *)
(* The frames to the node and back keep their order.  The node stages      *)
(* acceptances until their transaction is discharged, and refuses what     *)
(* names another transaction than the open one.  That the library, and not *)
(* the node, gives back what the second and later transactions abort makes *)
(* no difference here.                                                     *)
(***************************************************************************)
EXTENDS Naturals, Sequences, FiniteSetsExt

CONSTANTS Stock,         \* how many messages the node has at first
          MaxCommands    \* commands of the user (bound)

VARIABLES
  transaction,   \* the number of self.transaction, 0 for None
  discharged,    \* the number of the last transaction discharged
  discharges,    \* how many discharges were sent
  fetches,       \* commands to fetch that no message has answered
  alive,         \* the reactor's thread runs
  wire, replies, \* frames to the node and back
  open,          \* the node's open transaction, 0 for none
  declared,      \* how many transactions the node has declared
  credit,        \* credit that the node has for the receiver
  waiting,       \* the messages that the node hands out
  staged,        \* those that the open transaction accepts
  consumed,      \* those that a commit has accepted
  commands,      \* how many commands the user gave
  shown,         \* history: messages shown since the last discharge
  kept,          \* history: messages shown and then committed by the user
  hasty          \* history: the user did not wait, see Patient

progVars == <<transaction, discharged, discharges, fetches, alive>>
nodeVars == <<open, declared, credit, waiting, staged, consumed>>
userVars == <<commands, shown, kept, hasty>>
vars == <<progVars, wire, replies, nodeVars, userVars>>

Messages == 1..Stock

Init ==
  /\ transaction = 0 /\ discharged = 0 /\ discharges = 0
  /\ fetches = 0 /\ alive = TRUE
  /\ wire = <<[type |-> "declare"]>> /\ replies = <<>>
  /\ open = 0 /\ declared = 0 /\ credit = 0
  /\ waiting = Messages /\ staged = {} /\ consumed = {}
  /\ commands = 0 /\ shown = {} /\ kept = {} /\ hasty = FALSE

-----------------------------------------------------------------------------
(* The user's commands. *)

Ready == transaction > discharged      \* "transaction declared" was printed

\* patient: the user waits for that, and for a message before the next command
\* but one to fetch.
Command(patient) ==
  /\ alive /\ commands < MaxCommands
  /\ commands' = commands + 1
  /\ hasty' = (hasty \/ ~patient)

OnFetch ==
  /\ Command(Ready)
  /\ fetches' = fetches + 1
  /\ wire' = Append(wire, [type |-> "flow"])
  /\ UNCHANGED <<transaction, discharged, discharges, alive,
                 replies, nodeVars, shown, kept>>

\* transaction.commit() or abort(); for None an exception.
Discharge(commit) ==
  /\ Command(Ready /\ fetches = 0)
  /\ IF transaction = 0
     THEN /\ alive' = FALSE
          /\ UNCHANGED <<discharged, discharges, wire>>
     ELSE /\ discharged' = transaction
          /\ discharges' = discharges + 1
          /\ wire' = Append(wire, [type |-> "discharge", tx |-> transaction,
                                   commit |-> commit, n |-> discharges'])
          /\ alive' = TRUE
  /\ shown' = {}
  /\ UNCHANGED <<transaction, fetches, replies, nodeVars>>

OnCommit == Discharge(TRUE) /\ kept' = kept \union shown

OnAbort == Discharge(FALSE) /\ kept' = kept

\* The connection is closed; what still comes on it changes nothing.
OnQuit ==
  /\ Command(TRUE)
  /\ alive' = FALSE
  /\ wire' = Append(wire, [type |-> "close"])
  /\ UNCHANGED <<transaction, discharged, discharges, fetches,
                 replies, nodeVars, shown, kept>>

-----------------------------------------------------------------------------
(* The handlers of class TxRecv for what the node sends. *)

Reply(type) ==
  /\ alive /\ replies /= <<>> /\ Head(replies).type = type
  /\ replies' = Tail(replies)

OnMessage ==
  /\ Reply("message")
  /\ LET m == Head(replies).message
     IN  /\ shown' = shown \union {m}
         /\ IF transaction = 0
            THEN alive' = FALSE /\ UNCHANGED wire
            ELSE /\ wire' = Append(wire, [type |-> "accept", tx |-> transaction,
                                          message |-> m])
                 /\ alive' = TRUE
  /\ fetches' = fetches - 1
  /\ UNCHANGED <<transaction, discharged, discharges, nodeVars, commands, kept, hasty>>

OnTransactionDeclared ==
  /\ Reply("declared")
  /\ transaction' = Head(replies).tx
  /\ UNCHANGED <<discharged, discharges, fetches, alive, wire, nodeVars, userVars>>

\* The transaction looks for the outcome of its last discharge only.
Outcome(type) == Reply(type) /\ Head(replies).n = discharges

OnTransactionCommitted ==
  /\ Outcome("committed")
  /\ wire' = Append(wire, [type |-> "declare"])
  /\ UNCHANGED <<transaction, discharged, discharges, fetches, alive, nodeVars, userVars>>

\* Mutant: no transaction follows one that was aborted.
OnTransactionAbortedLast ==
  /\ Outcome("aborted")
  /\ UNCHANGED <<transaction, discharged, discharges, fetches, alive, wire, nodeVars, userVars>>

OnTransactionAborted ==
  /\ Outcome("aborted")
  /\ wire' = Append(wire, [type |-> "declare"])
  /\ UNCHANGED <<transaction, discharged, discharges, fetches, alive, nodeVars, userVars>>

\* TxRecv has no handler for a discharge that the node refused, and nobody looks
\* for the outcome of one that another followed.
OtherOutcome ==
  /\ \/ Outcome("refused")
     \/ /\ Reply("refused") \/ Reply("committed") \/ Reply("aborted")
        /\ Head(replies).n /= discharges
  /\ UNCHANGED <<transaction, discharged, discharges, fetches, alive, wire, nodeVars, userVars>>

-----------------------------------------------------------------------------
(* The node. *)

Frame(type) ==
  /\ wire /= <<>> /\ Head(wire).type = type
  /\ wire' = Tail(wire)
  /\ UNCHANGED <<progVars, userVars>>

NodeDeclares ==
  /\ Frame("declare")
  /\ declared' = declared + 1
  /\ open' = declared'
  /\ replies' = Append(replies, [type |-> "declared", tx |-> declared'])
  /\ UNCHANGED <<credit, waiting, staged, consumed>>

NodeGetsCredit ==
  /\ Frame("flow")
  /\ credit' = credit + 1
  /\ UNCHANGED <<replies, open, declared, waiting, staged, consumed>>

NodeStages ==
  /\ Frame("accept")
  /\ staged' = IF Head(wire).tx = open THEN staged \union {Head(wire).message} ELSE staged
  /\ UNCHANGED <<replies, open, declared, credit, waiting, consumed>>

NodeDischarges ==
  /\ Frame("discharge")
  /\ LET d == Head(wire)
         outcome == IF d.tx /= open THEN "refused" ELSE
                    IF d.commit THEN "committed" ELSE "aborted"
     IN  /\ replies' = Append(replies, [type |-> outcome, n |-> d.n])
         /\ IF outcome = "refused"
            THEN UNCHANGED <<open, waiting, staged, consumed>>
            ELSE /\ open' = 0 /\ staged' = {}
                 /\ consumed' = IF d.commit THEN consumed \union staged ELSE consumed
                 /\ waiting' = IF d.commit THEN waiting ELSE waiting \union staged
  /\ UNCHANGED <<declared, credit>>

\* The end of the connection aborts the open transaction.
NodeCloses ==
  /\ Frame("close")
  /\ open' = 0 /\ staged' = {} /\ credit' = 0
  /\ waiting' = Messages \ consumed
  /\ UNCHANGED <<replies, declared, consumed>>

NodeHandsOut ==
  /\ credit > 0 /\ waiting /= {}
  /\ credit' = credit - 1
  /\ waiting' = waiting \ {Min(waiting)}
  /\ replies' = Append(replies, [type |-> "message", message |-> Min(waiting)])
  /\ UNCHANGED <<progVars, wire, open, declared, staged, consumed, userVars>>

User == OnFetch \/ OnCommit \/ OnAbort \/ OnQuit

Handlers == OnMessage \/ OnTransactionDeclared \/ OnTransactionCommitted
              \/ OnTransactionAborted \/ OtherOutcome

Node == NodeDeclares \/ NodeGetsCredit \/ NodeStages
          \/ NodeDischarges \/ NodeCloses

Next == User \/ Handlers \/ Node \/ NodeHandsOut

Fairness == WF_vars(Handlers) /\ WF_vars(Node)

Spec == Init /\ [][Next]_vars /\ Fairness

-----------------------------------------------------------------------------
(* Properties *)

\* "'fetch' will request another message, 'abort' will abort the transaction,
\* 'commit' will commit it": for a user who waits, the node has consumed exactly
\* what was committed, holds for the program's transaction what was shown since,
\* and hands out everything else again.
CommandsTakeEffect ==
  ~hasty /\ wire = <<>> /\ replies = <<>> =>
    /\ consumed = kept
    /\ staged = IF alive THEN shown ELSE {}
    /\ waiting = Messages \ (consumed \union staged)
    /\ alive => transaction = open /\ Ready

\* How it ends for such a user: with another transaction after the last one.
TransactionFollows == hasty \/ ~alive \/ Ready
=============================================================================
