------------------------------ MODULE TxServer ------------------------------
(***************************************************************************)
(* server_tx.py, with sync_client.py as its clients: the server takes a    *)
(* request from the node, and sends the answer and accepts the request in  *)
(* one transaction of the node.                                            *)
(*                                                                         *)
(* A request is a pair of a client and a number, which is its correlation  *)
(* id.  A client has one request at a time and its own reply address.      *)
(* Which link carries an answer, the relay or one for the address, makes   *)
(* no difference to the node.  There is at most one transaction for a      *)
(* request, and the request stands for it.                                 *)
(***************************************************************************)
EXTENDS Naturals, Sequences, FiniteSets

CONSTANTS
  Clients,
  Requests,       \* each client has the requests 1..Requests
  MaxCrashes,     \* crashes of the server (bound)
  MaxRefusals,    \* transactions that the node does not commit (bound)
  MaxWithheld     \* requests whose answer finds a link without credit (bound)

VARIABLES
  call,       \* for each client, its call of SyncRequestResponse, or the next
  calling,    \* the clients that wait for an answer
  gaveUp,     \* the clients that timed out: their connections are closed
  queue,      \* the node's requests that wait
  inbox,      \* requests handed to the server
  wire,       \* frames on the way to the node
  replies,    \* frames on the way back
  open,       \* requests whose transaction is open at the node
  staged,     \* what open transactions hold: answers and accepted requests
  answers,    \* how many answers the node got for each request
  withheld,   \* history: the requests whose answer found a link without credit
  unanswered, \* history: the requests that the node consumed without an answer
  crashes, refusals

serverVars == <<inbox, wire, replies>>
txVars     == <<open, staged>>
clientVars == <<call, calling, gaveUp>>
history    == <<withheld, unanswered>>
vars == <<clientVars, queue, serverVars, txVars, answers, history, crashes, refusals>>

AllRequests == Clients \X (1..Requests)

Frame(type, r) == [type |-> type, request |-> r]

Init ==
  /\ call = [c \in Clients |-> 1]
  /\ calling = {} /\ gaveUp = {}
  /\ queue = <<>> /\ inbox = <<>> /\ wire = <<>> /\ replies = <<>>
  /\ open = {} /\ staged = {}
  /\ answers = [r \in AllRequests |-> 0]
  /\ withheld = {} /\ unanswered = {}
  /\ crashes = 0 /\ refusals = 0

-----------------------------------------------------------------------------
(* sync_client.py. *)

Call(c) ==
  /\ c \notin calling \union gaveUp
  /\ call[c] <= Requests
  /\ calling' = calling \union {c}
  /\ queue' = Append(queue, <<c, call[c]>>)
  /\ UNCHANGED <<call, gaveUp, serverVars, txVars, answers, history, crashes, refusals>>

\* The answer with the correlation id of the call wakes it up.
CallReturns(c) ==
  /\ c \in calling
  /\ answers[<<c, call[c]>>] > 0
  /\ calling' = calling \ {c}
  /\ call' = [call EXCEPT ![c] = @ + 1]
  /\ UNCHANGED <<gaveUp, queue, serverVars, txVars, answers, history, crashes, refusals>>

\* No answer within the time-out: the exception ends the loop of requests.
TimesOut(c) ==
  /\ c \in calling
  /\ calling' = calling \ {c}
  /\ gaveUp' = gaveUp \union {c}
  /\ UNCHANGED <<call, queue, serverVars, txVars, answers, history, crashes, refusals>>

-----------------------------------------------------------------------------
(* server_tx.py. *)

\* on_message of TxServer declares a transaction for the request.
OnMessage ==
  /\ inbox /= <<>>
  /\ inbox' = Tail(inbox)
  /\ wire' = Append(wire, Frame("declare", Head(inbox)))
  /\ UNCHANGED <<clientVars, queue, replies, txVars, answers, history, crashes, refusals>>

Reply(type) ==
  /\ replies /= <<>> /\ Head(replies).type = type
  /\ replies' = Tail(replies)

\* Mutant: the answer is sent outside the transaction.
OnTransactionDeclaredSendsFirst ==
  /\ Reply("declared")
  /\ answers' = [answers EXCEPT ![Head(replies).request] = @ + 1]
  /\ wire' = wire \o <<Frame("accept", Head(replies).request),
                       Frame("discharge", Head(replies).request)>>
  /\ UNCHANGED <<clientVars, queue, inbox, txVars, history, crashes, refusals>>

\* TxRequest sends the answer, accepts the request and commits.  It does not
\* look at the credit of the link: without any the answer stays in the program
\* while the transaction ends, and the node refuses it when it comes.
OnTransactionDeclared ==
  /\ Reply("declared")
  /\ LET r == Head(replies).request
     IN  \/ /\ wire' = wire \o <<Frame("send", r), Frame("accept", r), Frame("discharge", r)>>
            /\ withheld' = withheld
         \/ /\ Cardinality(withheld) < MaxWithheld
            /\ wire' = wire \o <<Frame("accept", r), Frame("discharge", r)>>
            /\ withheld' = withheld \union {r}
  /\ UNCHANGED <<clientVars, queue, inbox, txVars, answers, unanswered, crashes, refusals>>

OnTransactionCommitted ==
  /\ Reply("committed")
  /\ UNCHANGED <<clientVars, queue, inbox, wire, txVars, answers, history, crashes, refusals>>

\* TxRequest has no handler for a commit that fails; the library releases the
\* request, and the node hands it out again.
OnCommitFailed ==
  /\ Reply("failed")
  /\ queue' = Append(queue, Head(replies).request)
  /\ UNCHANGED <<clientVars, inbox, wire, txVars, answers, history, crashes, refusals>>

\* The requests handed to the server and not accepted.
Unsettled ==
  {inbox[k] : k \in DOMAIN inbox} \union open
    \union {wire[k].request : k \in {i \in DOMAIN wire : wire[i].type = "declare"}}
    \union {replies[k].request : k \in {i \in DOMAIN replies : replies[i].type = "failed"}}

\* The server ends with its connection (reconnect=False) and is started again.
\* The node aborts its transactions and takes back what it did not accept.
Crash ==
  /\ crashes < MaxCrashes
  /\ crashes' = crashes + 1
  /\ inbox' = <<>> /\ wire' = <<>> /\ replies' = <<>>
  /\ open' = {} /\ staged' = {}
  /\ \E again \in [1..Cardinality(Unsettled) -> Unsettled] :
       /\ \A i, j \in DOMAIN again : again[i] = again[j] => i = j
       /\ queue' = again \o queue
  /\ UNCHANGED <<clientVars, answers, history, refusals>>

-----------------------------------------------------------------------------
(* The node. *)

NodeHandsOut ==
  /\ queue /= <<>>
  /\ queue' = Tail(queue)
  /\ inbox' = Append(inbox, Head(queue))
  /\ UNCHANGED <<clientVars, wire, replies, txVars, answers, history, crashes, refusals>>

NextFrame(type) ==
  /\ wire /= <<>> /\ Head(wire).type = type
  /\ wire' = Tail(wire)

NodeDeclares ==
  /\ NextFrame("declare")
  /\ open' = open \union {Head(wire).request}
  /\ replies' = Append(replies, Frame("declared", Head(wire).request))
  /\ UNCHANGED <<clientVars, queue, inbox, staged, answers, history, crashes, refusals>>

NodeStages ==
  /\ NextFrame("send") \/ NextFrame("accept")
  /\ staged' = staged \union {Head(wire)}
  /\ UNCHANGED <<clientVars, queue, inbox, replies, open, answers, history, crashes, refusals>>

\* The node commits what the transaction holds, or refuses.
NodeDischarges ==
  /\ NextFrame("discharge")
  /\ LET r == Head(wire).request
     IN  /\ open' = open \ {r}
         /\ staged' = {frame \in staged : frame.request /= r}
         /\ \/ /\ Frame("accept", r) \in staged
               /\ replies' = Append(replies, Frame("committed", r))
               /\ IF Frame("send", r) \in staged
                  THEN answers' = [answers EXCEPT ![r] = @ + 1] /\ unanswered' = unanswered
                  ELSE answers' = answers /\ unanswered' = unanswered \union {r}
               /\ refusals' = refusals
            \/ /\ refusals < MaxRefusals
               /\ refusals' = refusals + 1
               /\ replies' = Append(replies, Frame("failed", r))
               /\ UNCHANGED <<answers, unanswered>>
  /\ UNCHANGED <<clientVars, queue, inbox, withheld, crashes>>

Server == OnMessage \/ OnTransactionDeclared \/ OnTransactionCommitted \/ OnCommitFailed

Node == NodeDeclares \/ NodeStages \/ NodeDischarges

Next ==
  \/ \E c \in Clients : Call(c) \/ CallReturns(c) \/ TimesOut(c)
  \/ Server \/ Crash \/ NodeHandsOut \/ Node

Fairness ==
  /\ \A c \in Clients : /\ WF_vars(Call(c))
                        /\ WF_vars(CallReturns(c))
  /\ WF_vars(Server)
  /\ WF_vars(NodeHandsOut)
  /\ WF_vars(Node)

Spec == Init /\ [][Next]_vars /\ Fairness

-----------------------------------------------------------------------------
(* Properties *)

\* How often the node, or the server, has request r to be answered.
Copies(r) ==
  Cardinality({k \in DOMAIN queue : queue[k] = r}) + (IF r \in Unsettled THEN 1 ELSE 0)

Asked(r) == \/ r[2] < call[r[1]]
            \/ r[2] = call[r[1]] /\ r[1] \in calling \union gaveUp

\* How often the node consumed request r.
Taken(r) == answers[r] + (IF r \in unanswered THEN 1 ELSE 0)

\* A request is either still to be answered or was consumed once, however often
\* the server crashes and whatever the node refuses to commit; and it is
\* consumed without its answer only where the answer found no credit.
AnsweredOnce ==
  /\ \A r \in AllRequests : Taken(r) + Copies(r) = IF Asked(r) THEN 1 ELSE 0
  /\ unanswered \subseteq withheld

\* How it ends: every client got all its answers, or gave up, or waits for an
\* answer that the node refused.
CallsEnd ==
  \A c \in Clients :
    c \in gaveUp \/ call[c] > Requests \/ <<c, call[c]>> \in unanswered
=============================================================================
