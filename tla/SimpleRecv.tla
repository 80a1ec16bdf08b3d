----------------------------- MODULE SimpleRecv -----------------------------
(***************************************************************************)
(* class Recv of simple_recv.py (failover_recv.py and direct_recv.py have  *)
(* the same on_message), which prints the messages that a node hands it,   *)
(* in the order in which the node accepted them.                           *)
(*                                                                         *)
(* Messages carry their sequence number as id, as simple_send.py sets it.  *)
(***************************************************************************)
EXTENDS Naturals, Sequences, NodeLog

CONSTANT Expected        \* self.expected, the option --messages; 0: no limit

ASSUME RecvAssumption == Expected \in Nat

VARIABLES
  position,    \* how many messages of log the node has sent to the receiver
  received,    \* self.received
  printed,     \* history: the messages printed
  open         \* the receiver has not closed its link

recvVars == <<position, received, printed, open>>

RecvInit ==
  /\ position = 0
  /\ received = 0
  /\ printed = <<>>
  /\ open = TRUE

NextMessage == log[position + 1]

\* The link has a next message for on_message.
Incoming == open /\ position < Len(log) /\ position' = position + 1

\* Mutants: an off-by-one in the other direction, and no test (perf_recv.py).
IsDuplicateTooWide(id) == id /= 0 /\ id <= received + 1
IsDuplicateNever(id)   == FALSE

\* "if event.message.id and event.message.id < self.received"
IsDuplicate(id) == id /= 0 /\ id < received

IgnoreDuplicate ==
  /\ Incoming
  /\ IsDuplicate(NextMessage)
  /\ UNCHANGED <<received, printed, open>>

\* Mutant: the receiver tests what it expects before it counts.
PrintAndCloseEarly ==
  /\ Incoming
  /\ ~IsDuplicate(NextMessage)
  /\ Expected = 0 \/ received < Expected
  /\ printed' = Append(printed, NextMessage)
  /\ received' = received + 1
  /\ open' = (received' + 1 /= Expected)

\* The receiver closes when it has received what it expects.
PrintMessage ==
  /\ Incoming
  /\ ~IsDuplicate(NextMessage)
  /\ Expected = 0 \/ received < Expected
  /\ printed' = Append(printed, NextMessage)
  /\ received' = received + 1
  /\ open' = (received' /= Expected)

OnMessage == IgnoreDuplicate \/ PrintMessage

-----------------------------------------------------------------------------
(* Properties *)

\* The variables stay within their types; the counter counts what is printed.
RecvTypeOK ==
  /\ position \in 0..Len(log)
  /\ received = Len(printed)
  /\ printed \in Seq(Nat)
  /\ open \in BOOLEAN

Seen == {log[k] : k \in 1..position}

Printed == {printed[k] : k \in DOMAIN printed}

\* No message is taken for a duplicate the first time it comes: whatever the
\* receiver was handed, it has printed.
NothingMissed == Seen \subseteq Printed

\* What is printed are the first messages of the sequence, and at most one of
\* them twice, however often the sender sends again.
AtMostOneDuplicate ==
  \E m \in 0..Len(printed) : /\ Printed = 1..m
                             /\ Len(printed) \in {m, m + 1}

\* "ignore duplicate message": no message is printed twice.
DuplicatesIgnored ==
  \A j, k \in DOMAIN printed : printed[j] = printed[k] => j = k
=============================================================================
