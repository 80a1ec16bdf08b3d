------------------------------ MODULE JmsPerf ------------------------------
(***************************************************************************)
(* The JMS throughput test on a queue: PerfSender runs one producer to     *)
(* warm up and then the producers, PerfReceiver runs the listeners, each   *)
(* in a thread and a session of its own.  Messages are only counted.       *)
(*                                                                         *)
(* A transacted session hands over its messages, and takes what it has     *)
(* received, when it commits; a session that is closed rolls back.         *)
(***************************************************************************)
EXTENDS Naturals, FiniteSetsExt

CONSTANTS Listeners, NumProducers, Messages, BatchSize,
          Warmups        \* the numbers of warm-up messages considered (bound)

VARIABLES
  warmup,        \* getNoOfWarmupMessages()
  transacted,    \* isSessionTransacted()
  numConsumers,  \* how many of the listeners run
  sent,          \* for each producer, 0 for the one that warms up, its variable i
  finished,      \* the producers that have ended
  queue,         \* how many messages the broker has to hand out
  count,         \* for each listener, its count
  warmingUp,     \* the listeners whose flag of this name is set
  started,       \* the listeners whose flag of this name is set
  uncommitted,   \* for each listener, what it received since the last commit
  latch,         \* the listeners whose latch is still up
  closed         \* the listeners whose session is closed

conf == <<warmup, transacted, numConsumers>>
vars == <<conf, sent, finished, queue, count, warmingUp, started, uncommitted,
          latch, closed>>

Producers == 0..NumProducers

Running == {l \in Listeners : l <= numConsumers}

Init ==
  /\ warmup \in Warmups
  /\ transacted \in BOOLEAN
  /\ numConsumers \in Listeners
  /\ sent = [p \in Producers |-> 0] /\ finished = {}
  /\ queue = 0
  /\ count = [l \in Listeners |-> 0]
  /\ warmingUp = (IF warmup > 0 THEN Running ELSE {})
  /\ started = {}
  /\ uncommitted = [l \in Listeners |-> 0]
  /\ latch = Running /\ closed = {}

-----------------------------------------------------------------------------
(* Producer. *)

ToSend(p) == IF p = 0 THEN warmup ELSE Messages

\* One turn of the loop of sendMessages; a full batch is committed.
SendMessage(p) ==
  /\ p > 0 => 0 \in finished
  /\ sent[p] < ToSend(p)
  /\ sent' = [sent EXCEPT ![p] = @ + 1]
  /\ queue' = IF ~transacted THEN queue + 1 ELSE
              IF sent'[p] % BatchSize = 0 THEN queue + BatchSize ELSE queue
  /\ UNCHANGED <<conf, finished, count, warmingUp, started, uncommitted, latch, closed>>

\* Mutant: the last messages are not committed.
SendersEndEarly(p) ==
  /\ p > 0 => 0 \in finished
  /\ p \notin finished /\ sent[p] = ToSend(p)
  /\ finished' = finished \union {p}
  /\ UNCHANGED <<conf, sent, queue, count, warmingUp, started, uncommitted, latch, closed>>

\* After the loop the partial batch is committed, and the session closed.
SenderEnds(p) ==
  /\ p > 0 => 0 \in finished
  /\ p \notin finished /\ sent[p] = ToSend(p)
  /\ finished' = finished \union {p}
  /\ queue' = IF transacted THEN queue + (sent[p] % BatchSize) ELSE queue
  /\ UNCHANGED <<conf, sent, count, warmingUp, started, uncommitted, latch, closed>>

-----------------------------------------------------------------------------
(* PerfListener. *)

Awaited == Messages \div numConsumers

\* checkCommit with the count n commits.
Commits(n) == transacted /\ n % BatchSize = 0

\* A message for listener l, after which it has these values.
Takes(l, n, commits) ==
  /\ l \in Running \ closed /\ queue > 0
  /\ queue' = queue - 1
  /\ count' = [count EXCEPT ![l] = n]
  /\ uncommitted' = [uncommitted EXCEPT ![l] =
                       IF commits \/ ~transacted THEN 0 ELSE @ + 1]
  /\ UNCHANGED <<conf, sent, finished, closed>>

\* Mutant: nothing is committed before the test begins.
OnWarmupUncommitted(l) ==
  /\ l \in warmingUp
  /\ Takes(l, count[l] + 1, FALSE)
  /\ warmingUp' = IF count'[l] = warmup THEN warmingUp \ {l} ELSE warmingUp
  /\ UNCHANGED <<started, latch>>

\* onMessage while warming up: checkCommit before the message is counted, and
\* again after the last one.
OnWarmup(l) ==
  /\ l \in warmingUp
  /\ LET n == count[l] + 1
     IN  /\ Takes(l, n, Commits(count[l]) \/ (n = warmup /\ Commits(n)))
         /\ warmingUp' = IF n = warmup THEN warmingUp \ {l} ELSE warmingUp
  /\ UNCHANGED <<started, latch>>

\* onMessage after that.  The second checkCommit, for the last message, asks
\* about the same count as the first.
OnMessage(l) ==
  /\ l \notin warmingUp
  /\ LET n == IF l \in started THEN count[l] + 1 ELSE 1
     IN  /\ Takes(l, n, Commits(n))
         /\ latch' = IF n >= Awaited THEN latch \ {l} ELSE latch
  /\ started' = started \union {l}
  /\ UNCHANGED warmingUp

\* The latch wakes up the thread of the consumer, which closes the session.
ConsumerEnds(l) ==
  /\ l \in Running \ (latch \union closed)
  /\ closed' = closed \union {l}
  /\ queue' = queue + uncommitted[l]
  /\ uncommitted' = [uncommitted EXCEPT ![l] = 0]
  /\ UNCHANGED <<conf, sent, finished, count, warmingUp, started, latch>>

Next ==
  \/ \E p \in Producers : SendMessage(p) \/ SenderEnds(p)
  \/ \E l \in Listeners : OnWarmup(l) \/ OnMessage(l) \/ ConsumerEnds(l)

\* Every thread runs on, and the broker hands out what it has.
Fairness == WF_vars(Next)

Spec == Init /\ [][Next]_vars /\ Fairness

-----------------------------------------------------------------------------
(* Properties *)

\* A listener never has two batches or more to lose: what the warm-up leaves
\* uncommitted is added to the first batch after it, as the counts start anew.
LessThanTwoBatches == \A l \in Listeners : uncommitted[l] < 2 * BatchSize

\* There are enough messages (each listener needs its warm-up, which one producer
\* sends once for all of them, and its part of the messages of one producer) and
\* no listener took more before its thread closed the session.
EnoughForAll ==
  /\ numConsumers * (warmup + Awaited) <= warmup + NumProducers * Messages
  /\ \A l \in started : count[l] <= Awaited

\* How it ends: all listeners have ended, if there was enough for all.
ListenersEnd == EnoughForAll => Running \subseteq closed
=============================================================================
