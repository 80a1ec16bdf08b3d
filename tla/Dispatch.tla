------------------------------ MODULE Dispatch ------------------------------
(***************************************************************************)
(* What Queue.dispatch of broker.py does to a queue, as a function of its  *)
(* input.                                                                  *)
(*                                                                         *)
(* dispatch goes round the consumers in subscription order and gives each  *)
(* one that has credit the oldest message, until a whole round sends       *)
(* nothing or the queue is empty.  A consumer with n credits thus owns one *)
(* slot in each of the first n rounds; the k-th message of the queue goes  *)
(* to the k-th slot in the order of <<round, subscription>>.               *)
(*                                                                         *)
(* The consumers of a queue are a set S; ticket[c] is the position at      *)
(* which c subscribed (list.append keeps that order, list.remove does not  *)
(* change it).  Module QueueDispatch has the loop itself, statement by     *)
(* statement, and checks that it computes these operators.                 *)
(***************************************************************************)
EXTENDS Naturals, Sequences, FiniteSets

\* The slots that the credit of the consumers S provides: <<round, consumer>>.
Slots(S, credit) == UNION { (1..credit[c]) \X {c} : c \in S }

\* Slot s is offered a message no later than slot t.
NoLater(s, t, ticket) == \/ s[1] < t[1]
                         \/ s[1] = t[1] /\ ticket[s[2]] <= ticket[t[2]]

\* The number of messages handed out when slot t has been served.
Rank(t, S, credit, ticket) ==
  Cardinality({s \in Slots(S, credit) : NoLater(s, t, ticket)})

\* The number of messages that leave the queue q.
Served(q, S, credit) ==
  LET n == Cardinality(Slots(S, credit)) IN IF n <= Len(q) THEN n ELSE Len(q)

\* What remains of q, and what left it, oldest first.
Rest(q, S, credit)  == SubSeq(q, Served(q, S, credit) + 1, Len(q))
Taken(q, S, credit) == SubSeq(q, 1, Served(q, S, credit))

\* The rounds in which consumer c receives a message.
Rounds(q, S, credit, ticket, c) ==
  {r \in 1..credit[c] : Rank(<<r, c>>, S, credit, ticket) <= Len(q)}

\* The number of messages consumer c receives.
Quota(q, S, credit, ticket, c) ==
  IF c \in S THEN Cardinality(Rounds(q, S, credit, ticket, c)) ELSE 0

\* The messages consumer c receives, in the order in which they are sent.
Share(q, S, credit, ticket, c) ==
  [k \in 1..Quota(q, S, credit, ticket, c)
     |-> q[Rank(<<k, c>>, S, credit, ticket)]]
=============================================================================
