------------------------------- MODULE DbRecv -------------------------------
(***************************************************************************)
(* class Recv of db_recv.py: it inserts what it receives into its table    *)
(* through its database thread and accepts a message when its insert is    *)
(* committed.  An id that is not greater than the last one is a duplicate  *)
(* and is accepted at once.                                                *)
(*                                                                         *)
(* The node keeps each message until its acceptance arrives, and hands out *)
(* what it keeps again, in order, on the next connection.  log is what the *)
(* node accepted from a sender; a message is its index in log.             *)
(***************************************************************************)
EXTENDS Db, NodeLog

CONSTANTS Expected,      \* self.expected, the option --messages; 0: no limit
          MaxLinks,      \* connections of the receiver that break (bound)
          MaxRestarts    \* crashes of the process (bound)

ASSUME DbRecvAssumption == /\ Expected \in Nat
                           /\ MaxLinks \in Nat
                           /\ MaxRestarts \in Nat

VARIABLES
  lastId,      \* self.last_id
  received,    \* self.received
  accepted,    \* self.accepted
  attached,    \* the receiver has a link that it has not closed
  cursor,      \* the last message handed out on this connection
  accepting,   \* acceptances on the way to the node
  done,        \* the messages the node has seen accepted
  link,        \* how many connections broke before this one
  restarts     \* how many times the process crashed

receiverVars == <<lastId, received, accepted, attached>>
nodeVars     == <<cursor, accepting, done>>
faultVars    == <<link, restarts>>
recvVars     == <<dbVars, receiverVars, nodeVars, faultVars>>

\* on_start asks for the last id; the link comes with the answer.
RecvInit ==
  /\ DbInit({}, <<GetId>>)
  /\ lastId = 0 /\ received = 0 /\ accepted = 0
  /\ attached = FALSE
  /\ cursor = 0 /\ accepting = {} /\ done = {}
  /\ link = 0 /\ restarts = 0

-----------------------------------------------------------------------------
(* The handlers of class Recv. *)

\* The event at the front has the given type; it leaves the line.
Handles(type) ==
  /\ events /= <<>> /\ Head(events).type = type
  /\ events' = Tail(events)

OnIdLoaded ==
  /\ Handles("id_loaded")
  /\ lastId' = Head(events).id
  /\ attached' = TRUE
  /\ UNCHANGED <<threadVars, tasks, records, received, accepted, nodeVars,
                 faultVars, log>>

\* What the node has to hand out on this connection.
ToHandOut == {k \in (cursor + 1)..Len(log) : k \notin done}

\* The next message for on_message.
Incoming == attached /\ ToHandOut /= {} /\ cursor' = Min(ToHandOut)

\* Mutant: the last id is not taken for a duplicate.
IsNewOrLast(id) == lastId = 0 \/ id >= lastId

IsNew(id) == lastId = 0 \/ id > lastId

\* Mutant: the message is accepted at once.
InsertAndAccept ==
  /\ Incoming
  /\ IsNew(log[cursor'])
  /\ Expected = 0 \/ received < Expected
  /\ received' = received + 1
  /\ lastId' = log[cursor']
  /\ tasks' = Append(tasks, Insert(lastId', [message |-> cursor', link |-> link]))
  /\ accepting' = accepting \union {cursor'}
  /\ UNCHANGED <<threadVars, events, records, accepted, attached, done,
                 faultVars, log>>

InsertMessage ==
  /\ Incoming
  /\ IsNew(log[cursor'])
  /\ Expected = 0 \/ received < Expected
  /\ received' = received + 1
  /\ lastId' = log[cursor']
  /\ tasks' = Append(tasks, Insert(lastId', [message |-> cursor', link |-> link]))
  /\ UNCHANGED <<threadVars, events, records, accepted, attached, accepting,
                 done, faultVars, log>>

\* The node keeps what is released.
ReleaseMessage ==
  /\ Incoming
  /\ IsNew(log[cursor'])
  /\ Expected /= 0 /\ received >= Expected
  /\ UNCHANGED <<dbVars, receiverVars, accepting, done, faultVars, log>>

AcceptDuplicate ==
  /\ Incoming
  /\ ~IsNew(log[cursor'])
  /\ accepting' = accepting \union {cursor'}
  /\ UNCHANGED <<dbVars, receiverVars, done, faultVars, log>>

OnMessage == InsertMessage \/ ReleaseMessage \/ AcceptDuplicate

\* Mutant: one insert too few is waited for.
OnRecordInsertedClosesEarly ==
  /\ Handles("record_inserted")
  /\ accepting' = IF Head(events).delivery.link = link
                  THEN accepting \union {Head(events).delivery.message}
                  ELSE accepting
  /\ accepted' = accepted + 1
  /\ attached' = (accepted' + 1 /= Expected)
  /\ tasks' = IF attached' THEN tasks ELSE Append(tasks, Close)
  /\ UNCHANGED <<threadVars, records, lastId, received, cursor, done, faultVars,
                 log>>

\* The message is accepted; on a connection that is gone, in vain.
OnRecordInserted ==
  /\ Handles("record_inserted")
  /\ accepting' = IF Head(events).delivery.link = link
                  THEN accepting \union {Head(events).delivery.message}
                  ELSE accepting
  /\ accepted' = accepted + 1
  /\ attached' = (accepted' /= Expected)
  /\ tasks' = IF attached' THEN tasks ELSE Append(tasks, Close)
  /\ UNCHANGED <<threadVars, records, lastId, received, cursor, done, faultVars,
                 log>>

\* The process dies and is started again.
RecvCrash ==
  /\ thread /= "ended" /\ restarts < MaxRestarts
  /\ restarts' = restarts + 1
  /\ DbRestart(<<GetId>>)
  /\ lastId' = 0 /\ received' = 0 /\ accepted' = 0
  /\ attached' = FALSE
  /\ cursor' = 0 /\ accepting' = {}
  /\ UNCHANGED <<done, link, log>>

-----------------------------------------------------------------------------
(* The database thread, the connection and the node. *)

RecvDbStep ==
  /\ RunGetId \/ RunInsert \/ RunClose \/ Commit
  /\ UNCHANGED <<receiverVars, nodeVars, faultVars, log>>

\* An acceptance arrives: the node forgets the message.
NodeHears ==
  /\ \E k \in accepting : /\ accepting' = accepting \ {k}
                          /\ done' = done \union {k}
  /\ UNCHANGED <<dbVars, receiverVars, cursor, faultVars, log>>

\* The connection breaks; class Recv has no handler for it.
LinkBreaks ==
  /\ attached /\ link < MaxLinks
  /\ link' = link + 1
  /\ cursor' = 0 /\ accepting' = {}
  /\ UNCHANGED <<dbVars, receiverVars, done, restarts, log>>

RecvNext ==
  \/ OnIdLoaded \/ OnMessage \/ OnRecordInserted
  \/ RecvDbStep \/ NodeHears
  \/ RecvCrash \/ LinkBreaks

RecvFairness ==
  /\ WF_recvVars(OnIdLoaded) /\ WF_recvVars(OnMessage)
  /\ WF_recvVars(OnRecordInserted)
  /\ WF_recvVars(RecvDbStep) /\ WF_recvVars(NodeHears)

-----------------------------------------------------------------------------
(* Properties *)

Messages == DOMAIN log

\* No row is inserted twice, whatever is handed out again after a crash or a
\* broken connection: the exception would end the thread.
ThreadSurvives == thread /= "dead"

\* The event of an insert comes after the commit: the row is in the file.
InsertedIsCommitted ==
  \A k \in DOMAIN events :
    events[k].type = "record_inserted"
      => log[events[k].delivery.message] \in table

\* As long as no connection breaks, the node still has every message that is
\* not in the table, whatever crashes.
NothingLost ==
  link = 0 => \A k \in Messages :
                log[k] \notin table => \E m \in Messages \ done : log[m] = log[k]

\* A receiver that ends has inserted what it expected and nothing else, apart
\* from what it had inserted before it crashed.
ExpectedInserted ==
  thread = "ended" => /\ Cardinality(table) >= Expected
                      /\ restarts = 0 => Cardinality(table) = Expected

\* Every message gets into the table and is acknowledged, or the receiver ends,
\* if no connection breaks.
AllInserted ==
  <>[](\/ link > 0 \/ thread = "ended"
       \/ done = Messages /\ \A k \in Messages : log[k] \in table)
=============================================================================
