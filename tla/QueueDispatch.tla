--------------------------- MODULE QueueDispatch ---------------------------
(***************************************************************************)
(* The loop of Queue.dispatch and Queue._deliver_to (broker.py), one visit *)
(* of a consumer per step.                                                 *)
(*                                                                         *)
(* dispatch calls _deliver_to until it returns False; _deliver_to goes     *)
(* through the list of consumers once, sends the oldest message to each    *)
(* consumer with credit, and returns whether it sent any.  popleft of the  *)
(* empty deque raises IndexError, which _deliver_to turns into False: the  *)
(* sends already made by that call stay made.                              *)
(***************************************************************************)
EXTENDS Dispatch

CONSTANTS Consumers,      \* the links that may be subscribed
          MaxQueue,       \* longest queue dispatched (bound)
          MaxCredit       \* largest credit of a consumer (bound)

VARIABLES
  given,      \* the call: [queue, consumers, credit], never changed
  queue,      \* self.queue
  credit,     \* c.credit of every consumer
  sent,       \* the messages each consumer was sent by this call
  i,          \* index of the consumer visited next
  result,     \* the local variable of _deliver_to
  pc          \* "visit" in the for loop, "done" when dispatch has returned

vars == <<given, queue, credit, sent, i, result, pc>>

\* Lists of distinct consumers; dispatch(consumer) is the case of a list of one.
Lists == UNION {{f \in [1..n -> Consumers] :
                    \A j, k \in 1..n : f[j] = f[k] => j = k}
                 : n \in 0..Cardinality(Consumers)}

Calls == [queue     : {[k \in 1..n |-> k] : n \in 0..MaxQueue},
          consumers : Lists,
          credit    : [Consumers -> 0..MaxCredit]]

Init == /\ given \in Calls
        /\ queue = given.queue
        /\ credit = given.credit
        /\ sent = [c \in Consumers |-> <<>>]
        /\ i = 1
        /\ result = FALSE
        /\ pc = "visit"

InLoop == pc = "visit" /\ i <= Len(given.consumers)

\* "if c.credit" is false.
Skip ==
  /\ InLoop
  /\ credit[given.consumers[i]] = 0
  /\ i' = i + 1
  /\ UNCHANGED <<given, queue, credit, sent, result, pc>>

\* Mutant: a consumer is served until it has no credit.
SendUntilNoCredit ==
  /\ InLoop
  /\ queue /= <<>>
  /\ LET c == given.consumers[i]
     IN /\ credit[c] > 0
        /\ sent' = [sent EXCEPT ![c] = Append(@, Head(queue))]
        /\ credit' = [credit EXCEPT ![c] = @ - 1]
  /\ queue' = Tail(queue)
  /\ result' = TRUE
  /\ UNCHANGED <<given, i, pc>>

\* c.send(self.queue.popleft()); send takes one credit.
Send ==
  /\ InLoop
  /\ queue /= <<>>
  /\ LET c == given.consumers[i]
     IN /\ credit[c] > 0
        /\ sent' = [sent EXCEPT ![c] = Append(@, Head(queue))]
        /\ credit' = [credit EXCEPT ![c] = @ - 1]
  /\ queue' = Tail(queue)
  /\ i' = i + 1
  /\ result' = TRUE
  /\ UNCHANGED <<given, pc>>

\* Mutant: the IndexError does not end dispatch.
NoMoreMessagesAgain ==
  /\ InLoop
  /\ credit[given.consumers[i]] > 0
  /\ queue = <<>>
  /\ i' = 1
  /\ result' = TRUE
  /\ UNCHANGED <<given, queue, credit, sent, pc>>

\* popleft raises IndexError: _deliver_to returns False and dispatch ends.
NoMoreMessages ==
  /\ InLoop
  /\ credit[given.consumers[i]] > 0
  /\ queue = <<>>
  /\ pc' = "done"
  /\ UNCHANGED <<given, queue, credit, sent, i, result>>

\* Mutant: dispatch calls _deliver_to once.
EndAfterOneRound ==
  /\ pc = "visit"
  /\ i > Len(given.consumers)
  /\ pc' = "done"
  /\ UNCHANGED <<given, queue, credit, sent, i, result>>

\* "return result": dispatch calls _deliver_to again or ends.
EndOfRound ==
  /\ pc = "visit"
  /\ i > Len(given.consumers)
  /\ IF result THEN /\ i' = 1
                    /\ result' = FALSE
                    /\ pc' = pc
               ELSE /\ pc' = "done"
                    /\ UNCHANGED <<i, result>>
  /\ UNCHANGED <<given, queue, credit, sent>>

Next == Skip \/ Send \/ NoMoreMessages \/ EndOfRound

Fairness == WF_vars(Next)

Spec == Init /\ [][Next]_vars /\ Fairness

-----------------------------------------------------------------------------
Subscribed == {given.consumers[k] : k \in DOMAIN given.consumers}

Ticket == [c \in Subscribed |->
             CHOOSE k \in DOMAIN given.consumers : given.consumers[k] = c]

\* When dispatch returns, every consumer has received exactly its share, in
\* order, and the queue holds the rest: the loop computes module Dispatch.
ComputesDispatch ==
  pc = "done" =>
    /\ queue = Rest(given.queue, Subscribed, given.credit)
    /\ \A c \in Consumers :
         /\ sent[c] = Share(given.queue, Subscribed, given.credit, Ticket, c)
         /\ credit[c] = given.credit[c] - Len(sent[c])

\* At every moment of one call no subscribed consumer with credit left is more
\* than one message behind another one, however much more credit that one has.
\* Nothing follows for several calls: each starts with the first consumer.
EvenRounds ==
  \A c, d \in Subscribed :
    credit[c] > 0 => Len(sent[d]) <= Len(sent[c]) + 1

\* How it ends: dispatch has returned.
Returns == pc = "done"
=============================================================================
