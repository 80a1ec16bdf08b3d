# poc-messaging: models, checks and proofs

The repository is a collection of AMQP programs: a small broker, senders and
receivers on qpid-proton (Python), throughput tests on JMS (Java), and the
deployment of two brokers (Ansible and shell). This directory has TLA+ models
of the programs whose behaviour depends on the order in which things happen,
TLC configurations that check them on small instances, and proofs that TLAPS
checks for every value of the constants. `PROJECT.json` names the source lines
of every definition, the runs, the hazards and the theorems.

Paths below are relative to `src/protocols/amqp/1-0/python/qpid-proton/` unless
they say otherwise.

## Inventory

| component | state | operations | what makes it hard | what makes it correct |
|---|---|---|---|---|
| broker (`broker.py`) | a queue of messages and a list of consumers per address; which queues are temporary; each link's address and credit | `on_link_opening`, `on_sendable`, `on_message`, `on_link_closing`, `on_connection_closing`, `on_disconnected`; `Queue.dispatch` | peers act while earlier events wait; a handler sees credit and remote state that later events have set; queues are made and deleted on demand | every message handed out once and in order; none left beside a consumer with credit; no stale consumer; no queue that nobody needs |
| sender (`simple_send.py`, `colour_send.py`) | `sent`, `confirmed` | `on_sendable`, `on_accepted`, `on_disconnected` | connections break with messages and acceptances in flight | at-least-once delivery in sequence (`README.txt`) |
| receiver (`simple_recv.py`, `direct_recv.py`) | `received` | `on_message` | messages come again | nothing missed, duplicates ignored |
| the same with a list of nodes (`failover_send.py`, `failover_recv.py`) | the counters, which belong to no node | the same handlers, each connection to any of the nodes | the messages of one node are numbered apart from those of another | only duplicates are ignored |
| throughput programs (`perf_send.py`, `perf_recv.py`) | `sent`, `confirmed`, `received` and the times | as sender and receiver | duplicates are counted | what is counted twice came twice |
| listening programs (`direct_send.py`, `direct_recv.py`) | `sent`, `confirmed`, shared by all receivers; the acceptor | as sender and receiver | several links and disconnections share the counters | what is confirmed was accepted |
| database thread (`db_common.py`) | task queue, transaction, pending events, load position | `insert`, `delete`, `load`, `get_id`, `reset`, `close` | a second thread; commit only when the task queue is empty; crashes | an event only after its commit |
| database sender and receiver (`db_send.py`, `db_recv.py`) | records loaded, ids sent and settled; last id, events | handlers of proton and of the database | asynchronous loads against disconnection; crash between insert, commit and accept | no record lost between the databases, none inserted twice |
| transactional programs (`tx_send.py`, `tx_recv.py`, `tx_recv_interactive.py`) | batch, transaction | `on_transaction_declared`, `on_transaction_committed`, `on_disconnected`; the commands of a console | batches against disconnection; commands from another thread | batches are all or nothing and complete; commands do what they say |
| request and response (`client.py`, `server.py`, `server_direct.py`, `server_tx.py`, `client_http.py`, `proton_server.py`, `sync_client.py`) | requests, reply addresses | send, reply, correlate | one queue for requests and responses; correlation by order; answers without credit | no request at two places; each answered once, and by order where the client compares nothing |
| Tornado loop (`proton_tornado.py`) | number of selectables, callbacks on the loop | `on_selectable_*`, `_process`, `_stop` | two event loops in each other | the loop ends exactly when the last selectable does |
| JMS throughput test (`../../java/perf`) | counters, latch, sessions, executors | `Producer.run`, `PerfListener.onMessage`, `Consumer.run`, `drainQueue` | threads, batches, warm-up | the run ends, and less than two batches of a listener are uncommitted |
| deployment (`src/centos7-*`) | the directory of each instance, its service, the configuration it runs with | the tasks of the role, `artemis_create.py`, the handler | played again, after a play or a handler that failed half-way; tasks that notify and tasks that do not | no instance created twice; the last broker runs with what notified its restart |

The components meet through AMQP: messages, credit, settlement and the
opening and closing of links and connections. Inside one Python program the
proton container runs one handler at a time; concurrency is between programs,
between a program and what the network still carries, and in the database
programs between two threads.

The small clients (`helloworld*.py`, `recurring_timer*.py`, `queue_browser.py`,
`selected_recv.py`) and the other examples send or receive one message or run
one timer; the RabbitMQ scripts and the program that sets up the databases run
once. They are not modelled.

## Plan

1. *Core, done*: the broker with its abstract FIFO node, the loop of `dispatch`,
   the sender with its abstract at-least-once guarantee, the receiver, and
   sender and receiver composed; their invariants and refinements proved.
2. *Database programs, done*: `Db` (task queue, transaction, events), `DbSend`,
   `DbRecv`, and `DbBridge`, which composes them over a node that keeps order.
   Proved: the event of an insert comes after its commit.
3. *Transactional programs, done*: `TxSend`, `TxRecv` over a node with
   transactions, and `TxExchange`, both on one node; totals that are a multiple of
   the batch and totals that are not (`MCTxExchange`).
4. *Request and response, done*: `Rpc`, clients and a server on the shared queue;
   `HttpClient`, correlation by order; `TxServer`, answers in transactions;
   `DirectServer`, a server that listens.
5. *Variants of sender and receiver, done*: `DirectSend`, several receivers on
   one pair of counters; `Failover`, several nodes; `Perf`, without a test for
   duplicates; `TxRecvInteractive`, the console.
6. *JMS throughput test, done*: `JmsPerf`, producers, listeners, latch, sessions.
7. *Tornado loop and deployment, done*: `TornadoLoop`, on which `HttpClient` runs;
   `ArtemisRole`.
8. *Proofs.* Done: all safety invariants of the broker, of sender and receiver, of
   the database programs, of the transactional programs and of all programs of
   `programs`; the refinements. What is left to TLC needs fairness.

## Modules

### Broker

`Dispatch` says what one call of `Queue.dispatch` does, as operators on the
queue, the consumers and their credit: consumer `c` with `n` credits owns a slot
in each of the first `n` rounds, and the k-th message goes to the k-th slot.
`QueueDispatch` is the loop itself, with the visit of one consumer per step and
the `IndexError` that ends it; `ComputesDispatch` ties the two together.

`Broker` is `broker.py`. Variables correspond to the code like this:

| variable | code |
|---|---|
| `queues`, `dynamic` | the keys of `self.queues`; those whose `Queue.dynamic` is true |
| `msgs[a]`, `subs[a]` | `Queue.queue` and `Queue.consumers` of address `a` |
| `ticket[c]` | the position of `c` in `Queue.consumers` (appending keeps the order) |
| `node[l]` | `link.source.address` or `link.target.address` |
| `local`, `remote`, `credit`, `conn` | endpoint states and `link.credit`, kept by proton |
| `events` | the collector: events read and not yet handled |
| `taken`, `got` | history only: what left a queue, what a consumer was sent |

An action of a peer (`Attach`, `GrantCredit`, `Transfer`, `Detach`,
`LeaveConnection`) changes what proton knows at once and appends an event; an
action of the broker handles the event at the front, with everything the
handler calls. `on_sendable` is called by the library only for an open link
with credit; `IgnoreFlow` is the event for which it is not. A consumer that has
detached still has credit and stays in the queue's list until its closing is
handled, so dispatch may send to it, as in the code.

`FifoNode` is the abstract specification of one address. `MCBroker` has two
consumers on connections of their own and a producer on the second.

### Sender and receiver

`SimpleSend` is class `Send` of `simple_send.py` with the connections it makes
one after the other and a node that accepts messages. A broken connection loses
the acceptances it carries back; the messages it carries towards the node may be
read late, even between those of the next connection, or be lost.
`AtLeastOnce` is what `README.txt` (lines 73-75) promises of it.
`SimpleRecv` is class `Recv` of `simple_recv.py` on a node that hands out what
it accepted, in order; `Exchange` composes the two. `NodeLog` declares the
variable they share, the node's log.

### Database programs

`Db` is class `Db` of `db_common.py`, with one action per kind of task that the
thread takes from its queue (`RunInsert`, `RunDelete`, `RunLoad`, ...) and one
for what it does when the queue is empty (`Commit`).

| variable | code |
|---|---|
| `table`, `work` | the rows in the file; the rows as the thread's open transaction sees them |
| `tasks`, `pending`, `running`, `position` | `self.tasks`, `self.pending_events`, `self.running`, `self.position` |
| `thread` | where `_process` is; `dead` after an exception, which rolls back |
| `loading` | `_load` is in its loop: the container's thread takes records from the queue meanwhile |
| `records` | the `Queue.Queue(maxsize=50)` of `db_send.py` |
| `events` | events triggered and not yet handled by the container |

`DbSend` is class `Send` of `db_send.py`. Its loop `send` is one step per
message, because the database thread runs in between; a handler of the
container starts only when no other one runs (`Idle`). The peer accepts or
releases what arrives, the connection may break with what it carries, and the
process may crash, until the thread has made its last commit: then only `table`
remains. The code compares the subject of
an answer with `load_count`; requests are answered in order, so they are equal
exactly if no later request is outstanding, and that is what the model asks.

`DbRecv` is class `Recv` of `db_recv.py` on a node that keeps a message until
its acceptance arrives and hands out the rest again on the next connection.
`MCDbRecv` gives the node any log an at-least-once sender may produce; `MCDb` adds
the sender by itself, so that one run checks either program alone.
`DbBridge` puts both programs on one node.

### Transactional programs

`TxSend` and `TxRecv` are the classes of `tx_send.py` and `tx_recv.py` with the
frames that they exchange with the node and a coordinator that stages messages
or acceptances until their transaction is committed. A broken connection aborts
the open transaction; a frame for a transaction that is not open is refused
without effect. `TxExchange` puts both on one node, each with its own connection,
as `test_tx_send_tx_recv` runs them; `MCTxExchange` has two instances of it, one
with totals that are multiples of the batches, as that test has.

`TxRecvInteractive` is `tx_recv_interactive.py`. The thread of the console only
triggers events, so a command is an action of its own that may come at any
moment (`OnFetch`, `OnCommit`, `OnAbort`, `OnQuit`): before the transaction is
declared, when the handler raises an exception that ends the reactor's thread
(`alive`), or with a message on its way. `hasty` remembers whether the user ever
did not wait. A second discharge before the outcome of the first makes the library
forget the first (`discharges`).

### Request and response

`Rpc` is `client.py` and `server.py` on one queue of `broker.py`, from which both
receive and to which both send. `subscribers` is the queue's list of consumers and
`flowing` says whose credit has come; `Publish` gives a message to the first of them
that has credit, as `dispatch` does (each grants 10, more than there are ever
messages), so an answer may go back to the server and a request to the client that
sent it. `inbox` is what was given to a consumer and not yet handled; it is gone
when a client that has its last answer closes its connection.

`TornadoLoop` is `proton_tornado.py`, with the timer of the reactor and one
socket as its selectables.

| variable | code |
|---|---|
| `mode` | where the thread is: in `initialise`, in Tornado's loop, in `reactor.process`, or after `stop` |
| `callbacks`, `stopping` | calls of `_process` and of `_stop` queued by `add_callback` |
| `timeouts` | calls of `_expired` scheduled by `add_timeout`; the code never takes one back |
| `watched` | the handler that `_update` leaves with the loop for the socket |
| `count` | `self.count` |
| `events` | the reactor's collector |

A call of the loop (`Touch`, `Callback`, `Expired`, `ProcessQueued`) enters
`process` with the events it causes; `Handle` takes one of them; `Returns` is the
end of the call, which may leave events and then queues another one. `HttpClient`
extends it by `client_http.py` and says what the socket carries: the client's link,
requests, credit (which may come before the address for the answers, `Attached`),
answers, the container's reconnection and a node that closes the connection. The
answers of `proton_server.py` come from `OnRequest`. A web request is its number,
and an answer carries the number of its request, so `shown` tells which answer each
web request got.

`TxServer` is `server_tx.py` with `sync_client.py` as its clients. For each request
the server declares a transaction, sends the answer, accepts the request and
commits; the frames keep their order, and the node stages what it gets. An answer
for which the link has no credit stays with the server, which does not look, while
the acceptance and the commit go out (`withheld`, `unanswered`). The server crashes
and is started again at any point, the node may refuse a commit, and a client may
give up.

`DirectServer` is `server_direct.py` with the two kinds of client it can have:
`sync_client.py` (`Callers`), which asks for a dynamic address and may time out
and be started again, and `client.py` (`Examples`), which names an address.

### Variants of sender and receiver

`DirectSend` is `direct_send.py`: all links share `sent` and `confirmed`. An
acceptance of any receiver counts, each broken connection resets `sent`, and a
receiver that closes in good order resets nothing (the library calls
`on_disconnected` only when the transport fails). `paired` remembers whether there
ever were two receivers at once or a message was left behind by one that closed.

`Failover` is `failover_send.py` and `failover_recv.py` on several nodes, each with
messages of its own. `Perf` is `perf_send.py` and `perf_recv.py`: the same counters,
no test for duplicates, and averages that count every message.

### JMS throughput test

`JmsPerf` is `Producer`, `PerfListener` and `Consumer` of `../../java/perf` on a queue.
One producer warms up, then all run; each listener has a thread, a session and
a latch. A transacted session hands over and takes whole batches, and gives
back what is uncommitted when it is closed. `OnWarmup` and `OnMessage` are the two
halves of `onMessage` with their calls of `checkCommit`, which in the warm-up comes
before the count and after it.

### Deployment

`ArtemisRole` is the role `artemis` played again and again, with a task per step for each
broker in turn (`Create`, with the module `artemis_create.py`; `Owner`, `Configure`,
`Service`) and the handler at the end. `files` are the versions of what the role
writes for an instance, `Notifying` those whose task notifies the handler:
`artemis.profile` and the unit of the service do not. A new archive notifies at the
beginning of a play (`Play`). A task may fail, and the restart; the play ends there and a
notification with it (`lost`). The module does not look at the return code of its
command, so a creation that failed without a word goes on as one that worked. `decoys`
are brokers for which `artemis_create.py` finds a directory of their name where it
should not look.

### One run for many programs

`Programs` has an instance of each module that is part of no other composition, and
picks one in the initial state; the others stay as they are. Its next-state
relation is that of the program picked, its fairness too, and its properties are
those of the modules. Their constants are its own, with a prefix, so that what is proved
in `ProgramsProofs`, and in `WebProofs` of the Tornado loop and its client, holds for
every value of them; `Programs.cfg` gives those of the run.
What such a module says of its end is a state predicate
(`AllAnswered`, `CallsEnd`, `CallersEnd`, `SequenceEnds`,
`TransactionFollows`, `ListenersEnd`, `BothEnd`, `Returns`); `ProgramsEnd` says that it
holds from some time on. Of `Rpc`, `Failover` and `ArtemisRole` only safety is asked there.

## Runs

| run | question | instance |
|---|---|---|
| `broker_safety` | do tables, links and messages stay in step? | 2 consumers, 1 producer, 2 connections, 1 fixed and 2 temporary addresses, 2 messages, credit 1, 3 waiting events |
| `broker_liveness` | is a waiting message handed over to a consumer with credit? | the same with 1 message and 2 waiting events |
| `exchange` | does the sender implement `AtLeastOnce` and end, and what is printed of a sequence that is sent again? | 3 messages, credit 2, 3 connections, the receiver expects 3 |
| `exchange_duplicates` | are duplicates ignored? No. | 3 messages, 2 connections |
| `db_programs` | each database program alone. Is the sender always woken, and every record sent and deleted? Is no row inserted twice, no insert reported too early, nothing lost, and everything inserted? | sender: 2 rows, target 2, a queue of 2, credit 1, 1 broken connection, 1 crash, releases; receiver: every log of up to 4 messages over 3 rows, 2 expected, 2 crashes, 1 broken connection |
| `db_bridge` | is no record lost when both programs crash, and are the deletions in the file when the sender ends? | 2 rows, target 2, 1 crash each |
| `db_bridge_breaks` | is no record lost when a connection breaks? No. | 2 rows, 1 broken connection of the sender |
| `tx_exchange` | whole batches, counted right, always in a transaction; do all full batches get through, and do the programs end when there is no other? | 7 messages in batches of 3, the receiver expects 5 in batches of 2; and 6 messages, 6 expected; credit 3, 2 broken connections each |
| `programs` | do eleven programs, each alone, keep what their modules promise, and do they end? | see below |
| `direct_examples` | does every client end with the direct server? No. | 1 client of each kind, 2 requests |
| `failover` | are only duplicates ignored with several nodes? No. | 2 nodes, 3 messages, credit 2, 2 broken connections |
| `rpc` | does the client end with its own requests in upper case? No. | 1 client with 2 requests |

The instances of `programs` (about 255,000 states together):

| module | question | instance |
|---|---|---|
| `HttpClient` on `TornadoLoop` | does each web request get its own answer, and is no event of the reactor forgotten? | 3 web requests, credit 2, 1 broken connection, 1 closing, 1 queued call of `_process` |
| `TxServer` | is each request answered once? | 2 clients with 2 requests, 2 crashes, 1 refused commit, 1 answer without credit, time-outs |
| `DirectServer` | do the clients with a dynamic address end? | 2 of them, 1 that names its address, 2 requests, 2 starts |
| `DirectSend` | what can be said of counters that links share? | 2 receivers, 3 messages, credit 2, 1 connection that ends early |
| `Rpc` | is no request printed twice? | 2 clients with 2 requests |
| `TxRecvInteractive` | do the commands take effect? | 2 messages, 5 commands |
| `JmsPerf` | do the listeners end, with how much uncommitted? | 1 or 2 listeners, 2 producers with 4 messages, batches of 3, warm-up of 0, 2 or 4, transacted or not |
| `Perf` | what do the counts say? | 3 messages, 3 expected, credit 2, 2 broken connections |
| `QueueDispatch` | does the loop compute `Dispatch`, end, and deal in rounds? | every list of up to 3 of 3 consumers, queues up to 4, credit up to 2 each |
| `Failover` | is one node enough for the test for duplicates? | 2 nodes, 3 messages, credit 2, 2 broken connections |
| `ArtemisRole` | is the role safe to play again? | 2 brokers, 3 edits of the configuration |

Why these bounds are enough: two messages and two consumers are the least with which
order, duplication and a wrong recipient can show; three waiting events let an
opening, credit and a message (or an opening, a closing and the end of the
connection) wait together, which is the longest pattern the invariant speaks about;
three connections let a message of the first be read while the third is in use. Two
rows with a queue of two let a record wait in the queue while an earlier one is in
flight and a request runs, and leave the queue neither full nor empty, so that load
requests go round; three rows with logs of four let a message repeat before and
after a later one. Totals and batches of the transactional run are chosen so that
credit ends in the middle of a batch, and a last batch is partial in one instance
and full in the other. In `programs`, three web requests with a credit of two leave
one waiting while two are answered, and one break is enough for the answer to a
request of the second connection to meet one sent on the first; two clients and two
crashes let the server be lost with a request of each at different points; five
commands are a fetch, its commit, another fetch, its abort and one more; with
batches of three, a warm-up of two leaves a message uncommitted of which the new
count does not know, so that the next commit takes it and a whole batch, and one of
four leaves none; two brokers are the least of which the handler misses one. For the
invariants that are proved the bounds do not matter.

The other runs find a disagreement between the code and what a comment, a test or a
document says of it.

`exchange_duplicates`: `simple_recv.py:39` ignores a message whose id is less than the
number received; ids start at 1, so the last message received is not recognised
when it comes again. TLC's trace: message 1 is sent, and its connection breaks
before the node has read it; the sender sends it again on the next connection,
where the node accepts it, and the node then reads what the first connection still
carried. It has message 1 twice, and the receiver prints it twice. (An acceptance
that is lost with its connection has the same effect.) `AtMostOneDuplicate` says
how far this goes: at most one message is printed twice, because the count is then
one ahead and the test is exact.

`db_bridge_breaks`: on a disconnection `db_send.py:92` resets the position of the
database but keeps the records loaded already. They are sent before the earlier
ones that were in flight; the receiver takes these for duplicates when they come
again, accepts them, and the sender deletes them.

`direct_examples`: `client.py:44` asks for its answers at an address that it
names (the comment above says that RabbitMQ has no dynamic ones).
`server_direct.py:41` keeps a link for answers only if the client asks for a dynamic
address; for the request of `client.py` it finds no link, prints so, and the client
waits for ever. `README.txt:179-180` promises "any of the client alternatives".
`ProgramsEnd` shows that the clients with a dynamic address end, also after a
time-out and a second start.

`failover`: `failover_recv.py:41` compares the id of a message with the
count of what was printed, whatever node it came from. After a receiver has
changed to another node, a message that it never saw is ignored, and accepted,
if its id is less than the count.

`rpc`: `server.py:40` makes its sender for the address from which it receives, and
`dispatch` (`broker.py:53-68`) starts at the first consumer each time. TLC's trace: the
server subscribes first, then the client; the request goes to the server, and so does
its answer, which the server answers again, for ever; the client waits.
`test_client_server` starts the server first and expects each request in upper
case. In the other order of subscription the client is handed its own request and
prints it, in lower case, as the answer. `NothingTwice` is what holds all the same.

Some properties say exactly how far a promise goes, because the code does not go
further:

- `FullBatchesCommitted`, `ReceiversEnd`: only full batches are committed (`tx_send.py:57`,
  `tx_recv.py:47`). With a total that is no multiple of the batch the last
  messages stay uncommitted and the program waits for ever; with one that is, it
  ends.
- `NothingLost`: `on_message` (`db_recv.py:57`, `66`) recognises a message that comes
  again by `last_id`, which is set when the insert is queued, not when it is
  committed, and accepts it. As long as no connection breaks nothing is lost,
  because a crash resets `last_id` to what is committed. After a broken connection the
  node hands the message out again, it is accepted at once, and a crash before the
  commit then loses the record, against `README.txt:95-97` ("only acknowledges them when
  the insert completes"). The model has these steps; the property leaves them out.
- `NoRecordLost` speaks of a node that accepts what it reads, as `broker.py` does.
  `on_settled` (`db_send.py:84`) deletes the record also when its message was
  released, as by a peer that closes its link when it has enough
  (`direct_recv.py:45`); it is then in neither database. `AllDeleted` holds of such a
  record, because it is deleted.
- `AllDeleted` leaves out a sender that has met its target and still has records but no
  credit: it asks for more records again and again, and may keep its thread from the
  commit of the last deletions (`db_common.py:110`).
- `TargetDeleted` speaks of runs without broken connections: after one a record
  may be counted twice.
- `NothingTwice`: `client.py:44` receives from the queue it sends to (the comment above
  it says why), so a request may go to any client and an answer to the server. Whatever
  goes to whom, no request is at two places or printed twice.
- `AnsweredOnce`: a request is consumed without its answer only where the answer found no
  credit. There it is (`server_tx.py:34` does not look at the credit), against
  `README.txt:170-171`, "consumes the request and sends out the response atomically".
- `EvenRounds` speaks of one call of `dispatch`. The next call starts at the first consumer
  again, and `publish` makes one call per message: an early subscriber with credit
  may take every message of a steady stream.
- `AnswersMatch`: `client_http.py:54` gives an answer to the oldest request sent.
  While no connection breaks this is its own; after a break it may be that of a
  later request, never of an earlier one.
- `ConfirmedWereAccepted`: the counters of `direct_send.py` stand for the beginning of
  the sequence as long as receivers come one after the other and leave nothing
  behind (`paired`). With two at a time, an acceptance of one counts for a message
  of the other.
- `OneNodeIgnoresDuplicates`: as long as the programs have used one node.
- `CountsAreHonest`: `perf_recv.py:54` leaves the test for duplicates out; what it counts
  too often was sent or handed out again.
- `CommandsTakeEffect`: for a user who waits for "transaction declared" before a command
  and for the messages fetched before a commit or an abort.
- `LessThanTwoBatches`: `checkCommit` counts anew after the warm-up and does not commit
  a partial batch at the end, so nearly two batches may be given back.
- `ListenersEnd`: each listener waits for the average (`PerfListener.java:46`). It says
  that they end if there is enough for all and no listener took more than its part
  (`EnoughForAll`).
- `PlaysAreSafe`: the handler restarts the broker that the loop named last. Of the others
  nothing is said: they are neither restarted nor ever started by the role. Nor is
  anything said of `artemis.profile` and the unit of the service, whose tasks
  (`configure.yml:14-18`, `service.yml:11-16`) notify nothing. A play or a handler that
  fails takes its notification with it, after which the next play finds nothing changed.

Each property has a mutant, a plausible bug in one mapped definition with which
TLC finds the property violated; they stand in the modules before the
definition they change.

## Fairness

- Broker: `WF_vars(Handle)`. `Container.run` dispatches events as long as there
  are any; nothing is assumed of peers.
- Sender: weak fairness of its handlers and of `Reconnect` (the container tries
  again for ever) and of the node reading the current connection. Connections
  fail at most `MaxAttempts - 1` times; with a connection that always fails the
  program has no way to end.
- Receiver: weak fairness of the node's delivery to it.
- Database programs. `DbRecv`: weak fairness of the handlers (the container calls the
  handler of what stays there to be handled), of the database thread and of the
  node. `DbSend`: the container handles its events in the order of their arrival, so
  none is passed over for ever because another handler happens to run: strong
  fairness of the handlers, and of the peer's flow; weak fairness of the loop in `send`,
  of the database thread and of the peer's settlements. Load requests that go round
  (records neither full nor empty, no credit) give the thread a new task again and
  again, and nothing assumes that it comes to its commit between them. Only when no
  handler runs, no event waits and there is no record to send (`Rests`) is the next
  task that of a timer, five seconds later, and there the commit has strong fairness:
  the timer is not each time quicker than a thread that has nothing else to do.
  Crashes and broken connections have no fairness and are bounded.
- Transactional programs: weak fairness of the handlers and of the node.
- `Rpc` (for the run `rpc`): weak fairness of every handler of the three programs.
- `HttpClient`: the loop of Tornado takes turns between its callbacks, so what it
  watches, queues or schedules has strong fairness (a callback is possible only while
  no other one runs); so have the handlers, because `reactor.process` handles events
  before it returns. The node and the server have weak fairness. Breaks and the
  closing of the connection have none.
- `TxServer`: weak fairness of calls, of the server's handlers and of the node; none of
  crashes, refusals and time-outs.
- `DirectServer`: weak fairness of the server's handlers and of clients that open their
  link, ask and take their answer; none of time-outs.
- `DirectSend`: a receiver comes as long as none is connected and the sender listens;
  connected receivers give credit and accept.
- `TxRecvInteractive`: weak fairness of the reactor's handlers and of the node; nothing
  is assumed of the user, nor that a message is handed out.
- `JmsPerf`: some thread runs as long as one can.
- `Perf`: weak fairness of the handlers and of the node.
- `Queue.dispatch` is a loop: weak fairness of its next statement.
- `Failover` and `ArtemisRole`: only safety is asked, and no fairness assumed; nor of
  `Rpc` in `programs`.

## Proofs

| module | theorem | what it says |
|---|---|---|
| `DispatchProofs` | `WorkConserving` (with `RestAndTaken`, `QuotaRange`, `ShareType`, ...) | a dispatch that leaves a message has used up the credit of everyone it served; what is left and what left make up the queue |
| `BrokerProofs` | `BrokerInvariant`, `BrokerTypeCorrect`, `NoStaleConsumerHolds`, `NoIdleQueueHolds`, `NoStrandedMessageHolds` | the safety invariants of the broker for any sets of links, connections and addresses and any bounds |
| `BrokerProofs` | `DeliveredOnceInOrderHolds` | no message reaches two consumers or one twice, and each consumer gets its messages in the order of their arrival, for any sets of links and addresses and any bounds |
| `BrokerProofs` | `NamedAddressesFifo` | every fixed address implements `FifoNode` |
| `ExchangeProofs` | `SendTypeCorrect`, `WindowHolds`, `SendImplementsAtLeastOnce` | the sender's window, and that it implements `AtLeastOnce` |
| `ExchangeProofs` | `ReceiverMissesNothing`, `ReceiverPrintsAtMostOneTwice` | what the receiver prints |
| `DbRecvProofs` | `InsertedIsCommittedHolds` | the database receiver learns of an insert only when the row is in the file |
| `DbRecvProofs` | `ThreadSurvivesHolds` | no row is inserted twice, so the database thread never dies of it |
| `DbRecvProofs` | `NothingLostHolds` | as long as no connection breaks, every row is in the file or its message still on the node, whatever crashes |
| `TxProofs` | `WholeBatchesHold` | what the node has of `tx_send.py` is whole batches of the sequence, and the program's count is at most one batch behind |
| `DbRecvProofs` | `ExpectedInsertedHolds` | a receiver that ends has the rows it expected, and no other if it never crashed |
| `DbBridgeProofs` | `NeverIdleHolds` | a sender with credit and work to do has a request or a timer on its way |
| `DbBridgeProofs` | `TargetDeletedHolds` | as long as no connection breaks, the sender ends only when its target is deleted from the file |
| `DbBridgeProofs` | `NoRecordLostHolds` | as long as no connection breaks and nothing is released, no record is lost, wherever the two programs crash |
| `TxProofs` | `AlwaysInTransactionHolds`, `TakesWholeBatchesHolds` | `tx_recv.py` handles messages only in a transaction, and takes whole batches in order |
| `ProgramsProofs` | `AnsweredOnceHolds` | `server_tx.py` consumes a request once, and without its answer only where that found no credit, wherever it crashes and whatever the node refuses |
| `ProgramsProofs` | `NothingTwiceHolds` | on the shared queue no request is at two places, and none is printed twice or before it was asked |
| `ProgramsProofs` | `ConfirmedWereAcceptedHolds` | the counters of `direct_send.py` stand for the beginning of the sequence, with one receiver after the other |
| `ProgramsProofs` | `CountsAreHonestHolds` | what the throughput programs count twice came twice |
| `ProgramsProofs` | `LessThanTwoBatchesHolds` | a listener never has two batches uncommitted |
| `ProgramsProofs` | `EvenRoundsHolds` | within one call of `dispatch` no consumer gets two messages ahead of one with credit left |
| `ProgramsProofs` | `ComputesDispatchHolds` | the loop of `Queue.dispatch` computes the operators of `Dispatch` |
| `ProgramsProofs` | `CommandsTakeEffectHolds` | for a user who waits, the commands of the console leave at the node what it shows |
| `WebProofs` | `NothingForgottenHolds` | the Tornado loop waits with no event left, the right watches, a timeout for what is scheduled and the right count |
| `WebProofs` | `AnswersMatchHolds` | a web request is never shown an answer to an earlier one, and its own as long as no connection broke |
| `ProgramsProofs` | `OneNodeIgnoresDuplicatesHolds` | on one node `failover_recv.py` ignores only what it printed |
| `ProgramsProofs` | `PlaysAreSafeHolds` | playing the role again creates no instance twice, and the last broker runs with the files whose tasks notify, unless a failure took the notification |

Assumptions: those named in the modules that declare the constants. For the
broker: finitely many consumers, consumers and producers are different links,
`uuid4` gives each consumer an address that nobody else has. For the sender and
receiver: naturals. For the database programs: rows are numbered from 1, and naturals.
For the transactional programs: totals, batches and credits of at least one. For
`programs` (`ProgramsAssumption`): naturals; finitely many consumers of the loop and clients
of the shared queue; batches, requests and brokers of at least one; and the mark for "no
node" is no node. The runs evaluate all of them. The bounds on
crashes, breaks and refusals are any numbers.

*Broker.* The invariants are not inductive by themselves: whether the handler of
a closing or of a disconnection removes all it must depends on what else waits
in the line of events. `BrokerInv` adds `EventsValid` (which events may wait
before which, and what a waiting event says of its link and connection),
`PeersHeard` (what a peer did and the broker has not handled is in the line),
`Tidy` (a deleted queue leaves nothing) and `Older` (messages in or out of a
queue are older than waiting ones). With them each step is a case: a peer's step
is the lemma `PeerStep` applied to the new event; a handler's step looks at
`FrontEvent`. For the stranded messages the step of `on_message` and
`on_sendable` rests on `WorkConserving`.

*Once and in order.* `OrderInv` goes on from there: a queue is in order and holds
nothing older than what left it (`Sorted`), no message is in two queues (`OneQueue`),
a consumer gets only what left the queue of its own address (`FromTaken`), and no two
consumers have the same ticket (`Tickets`). A dispatch offers the slots of the
consumers one by one; because of the tickets two slots never have the same rank
(`RanksDiffer` of `DispatchProofs`), so that no message is shared, and a consumer's
slots have rising ranks, so that what it gets goes up.

*Sender.* The inductive invariant is the window (what is sent, acknowledged and
carried adds up) together with what older connections may still carry: only
messages whose predecessors the node has.

*Receiver.* The inductive invariant relates the count to the greatest id printed:
they are equal, or the count is one ahead and every id printed before counts as
a duplicate from then on.

*Database receiver.* `InsertedIsCommitted` speaks of events that the thread
triggers after a commit, of rows that it inserted before, for messages that
`on_message` took. `CommitInv` follows them back: an event that waits for the
commit is that of a row of the open transaction, unless the thread died; a task
that waits carries the id of the message it will acknowledge; and the
transaction contains what is committed, since the receiver deletes nothing.

*No row twice.* `db_recv.py` numbers nothing itself: it inserts the id of a message that
is greater than `last_id`. `RowsInv` says that the ids of the inserts that wait in the
task queue go up, from above all rows to `lastId` (`Rising`, `NewRows`), and that no
message is taken before `last_id` is known (`AwaitsId` or `KnowsId`). The answer
to `get_id` is the greatest row because nothing was inserted since it was asked.

*Nothing lost.* The receiver accepts a message at once when its id is not above `last_id`,
although the insert of that row may not be committed. `LossInv` says why no row
gets lost this way: the messages are handed out in order, so that the first
message of a row up to `lastId` was handed out on this connection, before the
repetition, and is not accepted before the row is in the file (`Kept`,
`Accounted`). The rows have no gaps (`Filled`, `Filed`), because a sender numbers
them one by one (`Sequenced`); a crash takes `last_id` and the connection back
together (`Starts`). A broken connection takes back only the connection, which is
why the property stops there.

*Expected rows.* `ExpectedInserted` is about what `on_record_inserted` counts.
`CountInv` has three phases (`Starting`, `Receives`, `Closing`); while messages
come, each one received was accepted or is an insert in the task queue, in the open
transaction or in an event that waits, and the file and the transaction have that
many rows, because `ThreadSurvives` keeps two inserts from being of one row.

*Database sender.* `NeverIdle` is not inductive: a request is outstanding through three
places (task, loop of `_load`, event), and a timer counts only if the queue of records is
empty when it is set (`WakeInv`). For `TargetDeleted`, `StreamInv` follows the records in
the order of their ids, from the cursor over the queue, the messages and their
settlements to the deletions; so each deletion is of another row, and `EndInv` counts
them against `confirmed` and says that the task that closes comes after all of them.

*Both databases.* `NoRecordLost` joins the two: `LogInv` says that what the sender
deleted or will delete is in the node's log, and that the log has no gap; with that
the log is one that `LossInv` of the receiver allows (`Sequenced`), whose invariant
and step lemma are taken over by an instance of `DbRecvProofs` (`Dst`). The theorem
states the conditions under which the property holds; the run `db_bridge` has them
in its constants, and `db_bridge_breaks` shows that the first one is needed.

*Transactional sender.* `TxInv` of `TxProofs` names the phases of a batch by what the
connection carries: the program asks for a transaction, the node begins it, messages fill
it, the commit ends it, its outcome is on its way. A broken connection leads to
`Adrift`, which nothing leaves: the program holds a transaction that the node
refuses, or none and never asks again. There the log is ahead of the count by
one batch or not at all, for good.

*Transactional receiver.* `RecvInv` is built the same way. In the middle of a batch the
acceptances are partly staged and partly on the wire (`Accepts(n)`), and what is
batched, on its way and still covered by credit adds up to one batch
(`RecvFills`): so the node hands out no message after the last one of a batch,
which is why `on_message` always has a transaction. After a break everything is `Still`.

*Programs.* Whichever program runs, a step of `Programs` is one of each module or leaves its
variables alone (`Runs`), so each invariant is proved with the steps of its own module.

*Answered once.* A request goes from the queue to the server's inbox, into a frame that
declares its transaction, is open at the node, and ends in an answer, in a commit
without one or in a failed commit, which takes it back to the queue. `EachOnce` says
that the places a request is at, counted with multiplicity over four sequences, a set
and what was consumed, are one if it was asked and none if not; `InProgress` that an
open transaction is either still to be used or discharged by one frame, and
`SendsFirst` that an answer which found credit is staged before that frame is read, so
that each commit answers unless the answer was `withheld`. A crash takes back each
request that is not settled once, because it is at one place.

*Clients and server on one queue.* `NothingTwice` compares places of several sequences.
`RpcInv` says it sequence by sequence (`Once`): none holds two messages for one
request, no two hold messages for the same, and each request that some sequence holds
was asked. A step takes a message from the head of one and puts one for the same
request, or for one not asked before, at the end of another.

*Listening sender, throughput, several nodes.* All three rest on `Carries`: the connection
carries the numbers between what was acknowledged and what was sent, in order.
`OneAtATime` and `AcceptedInv` add that the only receiver goes on where the
confirmations are; `RateInv` that what was counted or will be is at most what was accepted
and what came again; `OneNode`, for each node that may be the only one used, that the
numbers in its store never skip one (`InOrder`) and that the receiver's count is that of
what it printed or one more.

*Listeners of the JMS test.* `Limit` is what a listener may have uncommitted, depending on
its phase: less than a batch in the warm-up, and after it the rest that the warm-up
left besides the count modulo the batch.

*Loop of dispatch.* `EvenRounds` compares two consumers at any moment of the loop; it
is not inductive because a round may serve one before the other. `Level` says,
for two positions of the list, which of them may be ahead, depending on whether
the round has passed them.

*The loop computes `Dispatch`.* `Dispatch` says at once who gets what; the loop sends one
message after the other. `LoopInv` relates them at every moment of it: what a consumer
was sent and its credit add up to what it was given (`CreditInv`); the slots served are as
many as messages left the queue, and each got the message that its rank names
(`HandedInv`); a round that found nothing found no credit (`RoundInv`). The positions of
the rounds (`LevelInv`, which `EvenRounds` uses too) say that a slot is served only after
all that come before it, and by `ServedInOrder` of `DispatchProofs` such slots have the
first ranks: so the next message is that of the next rank.

*Console.* A user who does not wait may end anywhere, so `ConInv` leaves `hasty` runs out.
For the others `PhaseInv` names where the program is: it asks for a transaction, the node
has declared it, it is in it, it discharges it, the node has. `WireInv` says what may be
on its way before and after what, `KeptInv` that a commit on its way adds what its
transaction accepts, and `AccountsInv` that each message is consumed, held by the
transaction, on its way to the program or waiting.

*Tornado loop.* `NothingForgotten` holds only when the loop waits; `WebInv` says
what holds in the middle of a batch of events. There is always exactly one of: a
connection, a plan for another one, an event that will make one, a client that is
closed (`TokenInv`). `TallyInv` counts `self.count` with the beginnings and ends of
selectables among the events; `DeadlineInv` and `SocketInv` say which event is still
to come when a timeout or a watch is not what it should be. Which events may come
before which (`WellPlaced`) is part of the invariant.

*Web client.* An answer carries no number that the client compares, so `AnswersMatch` is a
matter of order. `LineInv`: the requests of the answers that the client is handling, of
those it still has to read, of those at the node, of those it has to write and of those
that wait are in the order they were made. `LiveInv`: an answer that may still come is to a
request that the client remembers; before any break it remembers no other, and none older
than an answer it has read. So the oldest one remembered is no later than that of the
first answer, and is that one on the first connection. After a break, answers to requests
of the connection before go to its reply address (`AddressInv`) and do not come.

*Role.* `Owed`: if the last broker does not run with those of its files whose tasks
notify (`Stale`), the handler is notified and still to come, or a failure took the
notification with it. A task that notifies writes the files and the notification
together, and every one for the last broker is followed by the handler.

Only model-checked, not proved:

- everything with fairness, which is beyond the provers (`WaitingEndsWithCredit`,
  `AllConfirmed`, `EndsWhenPrinted`, `AllDeleted`, `AllInserted`,
  `FullBatchesCommitted`, `ReceiversEnd`, `ProgramsEnd`).

Every safety invariant and every refinement that a passing run checks is proved.

## Not modelled

- Outcomes other than accepted: the broker has no handler for them. A message
  that a consumer releases is gone; the hazard is listed.
- A link that is detached with an error: whether `on_link_closing` is then
  called is the library's decision.
- Database programs: the second connection's late reading of the first one's
  messages (it is in `SimpleSend`); descriptions of rows; rows that another
  program inserts while the sender runs.
- `Rpc`: the creation and deletion of the queue, and a message that `broker.py` reads
  later than it was sent (both are in `Broker`); a credit of 10 that is used up.
- Transactional programs: what a node does to a link on which a transaction is
  refused.
- `direct_recv.py` with several senders at once: its `on_message` is that of
  `simple_recv.py`, which `SimpleRecv` models with one.
- JMS test: topics, `drainQueue`, which empties the queue before a run, and the parsing
  of parameters.
- `Container.stop` of `proton_tornado.py`, which no program calls.
- Deployment: users, packages, what the archive contains (that a new one notifies is
  modelled), the text of the templates, the shell
  scripts, and the RabbitMQ scripts, which run once.
- Sizes, settlement modes, time: no property of these programs depends on them.
- The small clients, the other examples and the program that sets up the databases: each
  runs through once and keeps no state that several steps or actors share. The
  examples' tests were read as statements of what the programs do.
