------------------------------ MODULE TxProofs ------------------------------
(***************************************************************************)
(* What tx_send.py gets committed, and what tx_recv.py takes from the      *)
(* node, is whole batches of the sequence, in order, and tx_recv.py never  *)
(* handles a message while it has no transaction: for every length, batch  *)
(* size, credit and expectation and any number of broken connections.      *)
(***************************************************************************)
EXTENDS TxExchange, SequenceTheorems, FiniteSetTheorems, TLAPS

(* tx_send.py. *)

Frames == {Declare} \union {Message(m, t) : m \in Nat, t \in Nat}
                    \union {Discharge(t) : t \in Nat}

Answers == {Accepted, Committed} \union {Declared(t) : t \in Nat}

TypeInv ==
  /\ committed \in Nat /\ transaction \in Nat /\ credit \in Nat
  /\ declared \in Nat /\ open \in Nat
  /\ currentBatch \in 0..BatchSize
  /\ closed \in BOOLEAN
  /\ ~closed => committed + currentBatch <= Total
  /\ wire \in Seq(Frames) /\ replies \in Seq(Answers)
  /\ staged \in Seq(Nat) /\ log \in Seq(Nat)

\* The log is the beginning of the sequence, and some number of batches long.
Ledger == /\ \A k \in 1..Len(log) : log[k] = k
          /\ \E q \in Nat : Len(log) = q * BatchSize

AllAccepted == \A k \in 1..Len(replies) : replies[k] = Accepted

\* The open transaction has the messages after the committed ones, up to those
\* that the first n frames carry.
Carries(n) ==
  /\ open /= 0
  /\ Len(staged) + n = currentBatch
  /\ \A k \in 1..Len(staged) : staged[k] = committed + k
  /\ \A k \in 1..n : wire[k] = Message(committed + Len(staged) + k, open)
  /\ Len(log) = committed

(* The phases of a batch, while connections last. *)

Asks == /\ wire = <<Declare>> /\ replies = <<>>
        /\ transaction = 0 /\ open = 0 /\ staged = <<>>
        /\ currentBatch = 0 /\ Len(log) = committed

Begins == /\ wire = <<>> /\ replies = <<Declared(open)>>
          /\ transaction = 0 /\ open /= 0 /\ staged = <<>>
          /\ currentBatch = 0 /\ Len(log) = committed

Fills == /\ transaction = open /\ currentBatch < BatchSize
         /\ Carries(Len(wire)) /\ AllAccepted

Ends == /\ transaction = 0 /\ currentBatch = BatchSize
        /\ wire /= <<>> /\ wire[Len(wire)] = Discharge(open)
        /\ Carries(Len(wire) - 1) /\ AllAccepted

Settled == /\ transaction = 0 /\ currentBatch = BatchSize
           /\ wire = <<>> /\ open = 0 /\ staged = <<>>
           /\ replies /= <<>> /\ replies[Len(replies)] = Committed
           /\ \A k \in 1..Len(replies) - 1 : replies[k] = Accepted
           /\ Len(log) = committed + BatchSize

(* After them. *)

Closed == closed /\ wire = <<>> /\ Len(log) = committed

\* A connection broke: the node has no transaction, and none is declared, so
\* nothing is committed any more.
Adrift == /\ open = 0 /\ staged = <<>> /\ replies = <<>>
          /\ \A k \in 1..Len(wire) : wire[k].type /= "declare" /\ wire[k].tx /= 0
          /\ Len(log) \in {committed, committed + BatchSize}

Phase == Closed \/ (~closed /\ (Asks \/ Begins \/ Fills \/ Ends \/ Settled \/ Adrift))

TxInv == TypeInv /\ Ledger /\ Phase

-----------------------------------------------------------------------------
LEMMA FrameTypes ==
  /\ Declare \in Frames
  /\ \A m, t \in Nat : Message(m, t) \in Frames
  /\ \A t \in Nat : Discharge(t) \in Frames /\ Declared(t) \in Answers
  /\ Accepted \in Answers /\ Committed \in Answers
BY DEF Frames, Answers

\* The sequences of a state, and what leaves the front of one.
LEMMA Front ==
  ASSUME NEW S, NEW s \in Seq(S), s /= <<>>
  PROVE  /\ Len(s) \in Nat \ {0}
         /\ Head(s) = s[1] /\ Tail(s) \in Seq(S)
         /\ Len(Tail(s)) = Len(s) - 1
         /\ \A k \in 1..Len(s) - 1 : Tail(s)[k] = s[k + 1]
         /\ (Len(s) = 1 /\ Tail(s) = <<>>) \/ (Len(s) > 1 /\ Tail(s) /= <<>>)
<1>1. Len(s) \in Nat \ {0} /\ Head(s) = s[1]
  BY EmptySeq
<1>2. /\ Tail(s) \in Seq(S) /\ Len(Tail(s)) = Len(s) - 1
      /\ \A k \in 1..Len(Tail(s)) : Tail(s)[k] = s[k + 1]
  BY HeadTailProperties
<1>3. PICK n, t : n = Len(s) /\ t = Tail(s)
  OBVIOUS
<1>4. n = 1 \/ n > 1
  BY <1>1, <1>3
<1>5. PICK m : m = Len(t)
  OBVIOUS
<1>6. (n = 1 => m = 0) /\ (n > 1 => m /= 0) /\ (m = 0 <=> t = <<>>)
  <2>1. m = n - 1 /\ n \in Nat
    BY <1>1, <1>2, <1>3, <1>5
  <2>2. m = 0 <=> t = <<>>
    BY <1>2, <1>3, <1>5, EmptySeq
  <2> QED BY <2>1, <2>2
<1> QED BY <1>1, <1>2, <1>3, <1>4, <1>6

LEMMA Back ==
  ASSUME NEW S, NEW s \in Seq(S), NEW e \in S
  PROVE  /\ Append(s, e) \in Seq(S) /\ Append(s, e) /= <<>>
         /\ Len(s) \in Nat /\ Len(Append(s, e)) = Len(s) + 1
         /\ \A k \in 1..Len(s) : Append(s, e)[k] = s[k]
         /\ Append(s, e)[Len(s) + 1] = e
BY AppendProperties, LenProperties, EmptySeq

\* What the program reads next tells where the batch is.
LEMMA NextReply ==
  ASSUME TypeInv, Phase, ~closed, replies /= <<>>
  PROVE  \/ Begins /\ Head(replies).type = "declared"
         \/ (Fills \/ Ends) /\ Head(replies).type = "accepted"
         \/ Settled /\ Len(replies) > 1 /\ Head(replies).type = "accepted"
         \/ Settled /\ Len(replies) = 1 /\ Head(replies).type = "committed"
<1>1. /\ Len(replies) \in Nat \ {0} /\ Head(replies) = replies[1]
      /\ Len(replies) = 1 \/ Len(replies) > 1
  BY Front DEF TypeInv
<1>2. Accepted.type = "accepted" /\ Committed.type = "committed"
  BY DEF Accepted, Committed
<1>3. CASE Begins
  BY <1>1, <1>3 DEF Begins, Declared
<1>4. CASE Fills \/ Ends
  <2>1. AllAccepted
    BY <1>4 DEF Fills, Ends
  <2> QED BY <1>1, <1>2, <1>4, <2>1 DEF AllAccepted
<1>5. CASE Settled
  <2>1. CASE Len(replies) = 1
    BY <1>1, <1>2, <1>5, <2>1 DEF Settled
  <2>2. CASE Len(replies) > 1
    BY <1>1, <1>2, <1>5, <2>2 DEF Settled
  <2> QED BY <1>1, <2>1, <2>2
<1>6. ~Asks /\ ~Adrift
  BY DEF Asks, Adrift
<1> QED BY <1>3, <1>4, <1>5, <1>6 DEF Phase, Closed

\* What the node reads next, too.
LEMMA NextFrame ==
  ASSUME TypeInv, Phase, wire /= <<>>
  PROVE  /\ ~closed
         /\ \/ Asks /\ Head(wire) = Declare
            \/ Fills /\ Head(wire) = Message(committed + Len(staged) + 1, open)
            \/ /\ Ends /\ Len(wire) > 1
               /\ Head(wire) = Message(committed + Len(staged) + 1, open)
            \/ Ends /\ Len(wire) = 1 /\ Head(wire) = Discharge(open)
            \/ Adrift /\ Head(wire).type /= "declare" /\ Head(wire).tx /= 0
<1>1. /\ Len(wire) \in Nat \ {0} /\ Head(wire) = wire[1]
      /\ Len(wire) = 1 \/ Len(wire) > 1
  BY Front DEF TypeInv
<1>2. CASE Asks
  BY <1>1, <1>2 DEF Asks, Phase, Closed
<1>3. CASE Fills
  BY <1>1, <1>3 DEF Fills, Carries, Phase, Closed
<1>4. CASE Ends
  <2>1. CASE Len(wire) = 1
    BY <1>1, <1>4, <2>1 DEF Ends, Phase, Closed
  <2>2. CASE Len(wire) > 1
    BY <1>1, <1>4, <2>2 DEF Ends, Carries, Phase, Closed
  <2> QED BY <1>1, <2>1, <2>2
<1>5. CASE Adrift
  BY <1>1, <1>5 DEF Adrift, Phase, Closed
<1>6. ~Begins /\ ~Settled /\ ~Closed
  BY DEF Begins, Settled, Closed
<1> QED BY <1>2, <1>3, <1>4, <1>5, <1>6 DEF Phase

\* The loop of send sends as much as credit, batch and sequence allow.
LEMMA RoomProperties ==
  ASSUME TypeInv, ~closed, NEW c \in Nat
  PROVE  /\ Room(c) \in Nat
         /\ Room(c) <= c
         /\ currentBatch + Room(c) <= BatchSize
         /\ committed + currentBatch + Room(c) <= Total
<1> DEFINE b == BatchSize - currentBatch
           r == Total - (committed + currentBatch)
<1>1. b \in Nat /\ r \in Nat
  BY TxSendAssumption DEF TypeInv
<1>2. PICK m \in {c, b, r} : m <= c /\ m <= b /\ m <= r
  <2>1. CASE c <= b /\ c <= r
    BY <2>1
  <2>2. CASE b <= c /\ b <= r
    BY <1>1, <2>2
  <2>3. CASE r <= c /\ r <= b
    BY <1>1, <2>3
  <2> QED BY <1>1, <2>1, <2>2, <2>3
<1>3. \E x \in {c, b, r} : \A y \in {c, b, r} : x <= y
  BY <1>2
<1>4. Room(c) \in {c, b, r} /\ \A y \in {c, b, r} : Room(c) <= y
  BY <1>3 DEF Room, Min
<1>5. Room(c) \in Nat /\ Room(c) <= c /\ Room(c) <= b /\ Room(c) <= r
  BY <1>1, <1>4
<1> QED BY <1>1, <1>5, TxSendAssumption DEF TypeInv

\* What send puts on the wire: n messages that continue the sequence, and the
\* commit behind them when they fill the batch.
LEMMA SendProperties ==
  ASSUME TypeInv, ~closed, NEW c \in Nat, NEW t \in Nat, Send(c, t)
  PROVE  \E n \in Nat :
           /\ t = 0 => n = 0
           /\ n = 0 => wire' = wire /\ transaction' = t
           /\ currentBatch' = currentBatch + n
           /\ currentBatch' \in 0..BatchSize /\ committed + currentBatch' <= Total
           /\ credit' \in Nat /\ wire' \in Seq(Frames)
           /\ \A k \in 1..Len(wire) : wire'[k] = wire[k]
           /\ \A k \in 1..n :
                wire'[Len(wire) + k] = Message(committed + currentBatch + k, t)
           /\ \/ /\ n = 0 \/ currentBatch' < BatchSize
                 /\ transaction' = t /\ Len(wire') = Len(wire) + n
              \/ /\ n > 0 /\ currentBatch' = BatchSize /\ transaction' = 0
                 /\ Len(wire') = Len(wire) + n + 1
                 /\ wire'[Len(wire) + n + 1] = Discharge(t)
<1> DEFINE n == IF t = 0 THEN 0 ELSE Room(c)
           messages == [k \in 1..n |-> Message(committed + currentBatch + k, t)]
           end == IF Commits(n) THEN <<Discharge(t)>> ELSE <<>>
<1>1. /\ n \in Nat /\ (t = 0 => n = 0)
      /\ currentBatch + n \in 0..BatchSize /\ committed + currentBatch + n <= Total
      /\ c - n \in Nat
  <2>1. CASE t = 0
    BY <2>1, TxSendAssumption DEF TypeInv
  <2>2. CASE t /= 0
    <3>1. /\ Room(c) \in Nat /\ Room(c) <= c
          /\ currentBatch + Room(c) <= BatchSize
          /\ committed + currentBatch + Room(c) <= Total
      BY RoomProperties
    <3>2. currentBatch \in Nat /\ BatchSize \in Nat
      BY TxSendAssumption DEF TypeInv
    <3>3. n = Room(c)
      BY <2>2
    <3> QED BY <2>2, <3>1, <3>2, <3>3
  <2> QED BY <2>1, <2>2
<1>2. /\ currentBatch' = currentBatch + n /\ credit' = c - n
      /\ transaction' = IF Commits(n) THEN 0 ELSE t
      /\ wire' = wire \o messages \o end
  BY DEF Send
<1>3. currentBatch \in Nat /\ committed \in Nat /\ wire \in Seq(Frames)
  BY TxSendAssumption DEF TypeInv
<1> HIDE DEF n
<1>4. /\ messages \in Seq(Frames) /\ Len(messages) = n
      /\ \A k \in 1..n : messages[k] = Message(committed + currentBatch + k, t)
  <2>1. \A k \in 1..n : Message(committed + currentBatch + k, t) \in Frames
    BY <1>1, <1>3, FrameTypes
  <2> QED BY <1>1, <2>1
<1>5. /\ end \in Seq(Frames)
      /\ Commits(n) => Len(end) = 1 /\ end[1] = Discharge(t)
      /\ ~Commits(n) => end = <<>> /\ Len(end) = 0
  BY FrameTypes
<1>6. Commits(n) <=> n > 0 /\ currentBatch + n = BatchSize
  BY DEF Commits
<1> HIDE DEF messages, end
<1> DEFINE both == wire \o messages
<1>7. /\ both \in Seq(Frames) /\ Len(both) = Len(wire) + n
      /\ \A k \in 1..Len(wire) + n :
           both[k] = IF k <= Len(wire) THEN wire[k] ELSE messages[k - Len(wire)]
  BY <1>3, <1>4, ConcatProperties
<1> HIDE DEF both
<1>8. /\ both \o end \in Seq(Frames) /\ Len(both \o end) = Len(both) + Len(end)
      /\ \A k \in 1..Len(both) + Len(end) :
           (both \o end)[k] = IF k <= Len(both) THEN both[k] ELSE end[k - Len(both)]
  BY <1>5, <1>7, ConcatProperties
<1>9. wire' = both \o end
  BY <1>2 DEF both
<1>10. PICK l, e : l = Len(wire) /\ e = Len(end)
  OBVIOUS
<1>11. l \in Nat /\ e \in {0, 1}
  BY <1>3, <1>5, <1>10
<1>12. /\ wire' \in Seq(Frames) /\ Len(wire') = l + n + e
       /\ \A k \in 1..l + n + e :
            wire'[k] = IF k <= l + n THEN both[k] ELSE end[k - (l + n)]
  BY <1>7, <1>8, <1>9, <1>10
<1>13. \A k \in 1..l : wire'[k] = wire[k]
  BY <1>1, <1>7, <1>10, <1>11, <1>12
<1>14. \A k \in 1..n : wire'[l + k] = Message(committed + currentBatch + k, t)
  <2> SUFFICES ASSUME NEW k \in 1..n
               PROVE  wire'[l + k] = Message(committed + currentBatch + k, t)
    OBVIOUS
  <2>1. l + k \in 1..l + n /\ l + k \in 1..l + n + e /\ ~(l + k <= l) /\ l + k - l = k
    BY <1>1, <1>11
  <2> QED BY <1>4, <1>7, <1>10, <1>12, <2>1
<1>15. n = 0 => wire' = wire
  <2> SUFFICES ASSUME n = 0 PROVE wire' = wire
    OBVIOUS
  <2>1. messages = <<>> /\ end = <<>>
    BY <1>4, <1>5, <1>6, EmptySeq
  <2> QED BY <1>2, <1>3, <2>1, ConcatEmptySeq
<1>16. \/ /\ n = 0 \/ currentBatch' < BatchSize
          /\ transaction' = t /\ Len(wire') = l + n
       \/ /\ n > 0 /\ currentBatch' = BatchSize /\ transaction' = 0
          /\ Len(wire') = l + n + 1
          /\ wire'[l + n + 1] = Discharge(t)
  <2>1. CASE Commits(n)
    <3>1. e = 1 /\ end[1] = Discharge(t)
      BY <1>5, <1>10, <2>1
    <3>2. PICK k \in 1..l + n + e : k = l + n + 1
      BY <1>1, <1>11, <3>1
    <3>3. wire'[l + n + 1] = Discharge(t)
      <4>1. ~(k <= l + n) /\ k - (l + n) = 1
        BY <1>1, <1>11, <3>2
      <4>2. wire'[k] = end[1]
        BY <1>12, <4>1
      <4> QED BY <3>1, <3>2, <4>2
    <3>4. /\ n > 0 /\ currentBatch' = BatchSize /\ transaction' = 0
          /\ Len(wire') = l + n + 1
      BY <1>2, <1>6, <1>12, <2>1, <3>1
    <3> QED BY <3>3, <3>4
  <2>2. CASE ~Commits(n)
    <3>1. e = 0 /\ transaction' = t
      BY <1>2, <1>5, <1>10, <2>2
    <3>2. Len(wire') = l + n
      BY <1>1, <1>11, <1>12, <3>1
    <3>3. n = 0 \/ currentBatch' < BatchSize
      BY <1>1, <1>2, <1>3, <1>6, <2>2, TxSendAssumption
    <3> QED BY <3>1, <3>2, <3>3
  <2> QED BY <2>1, <2>2
<1>17. n = 0 => transaction' = t
  BY <1>2, <1>6
<1>18. /\ t = 0 => n = 0
       /\ currentBatch' = currentBatch + n
       /\ currentBatch' \in 0..BatchSize /\ committed + currentBatch' <= Total
       /\ credit' \in Nat
  BY <1>1, <1>2, <1>3
<1> QED BY <1>1, <1>10, <1>12, <1>13, <1>14, <1>15, <1>16, <1>17, <1>18

LEMMA SendTypes ==
  ASSUME TypeInv, ~closed, NEW c \in Nat, NEW t \in Nat, Send(c, t),
         UNCHANGED <<committed, declared, open, closed, staged, log>>,
         replies' \in Seq(Answers)
  PROVE  TypeInv'
<1>1. /\ currentBatch' \in 0..BatchSize /\ committed + currentBatch' <= Total
      /\ credit' \in Nat /\ wire' \in Seq(Frames) /\ transaction' \in {0, t}
  BY SendProperties
<1> QED BY <1>1 DEF TypeInv

\* In the open transaction, send carries on, or ends the batch.
LEMMA SendFills ==
  ASSUME TypeInv, ~closed, NEW c \in Nat, Send(c, open),
         currentBatch < BatchSize, Carries(Len(wire)), AllAccepted',
         UNCHANGED <<committed, closed, open, staged, log>>
  PROVE  Fills' \/ Ends'
<1>1. PICK n \in Nat :
        /\ n = 0 => transaction' = open
        /\ currentBatch' = currentBatch + n
        /\ wire' \in Seq(Frames)
        /\ \A k \in 1..Len(wire) : wire'[k] = wire[k]
        /\ \A k \in 1..n :
             wire'[Len(wire) + k] = Message(committed + currentBatch + k, open)
        /\ \/ /\ n = 0 \/ currentBatch' < BatchSize
              /\ transaction' = open /\ Len(wire') = Len(wire) + n
           \/ /\ n > 0 /\ currentBatch' = BatchSize /\ transaction' = 0
              /\ Len(wire') = Len(wire) + n + 1
              /\ wire'[Len(wire) + n + 1] = Discharge(open)
  <2>1. open \in Nat
    BY DEF TypeInv
  <2> QED BY <2>1, SendProperties
<1>2. PICK l, m, d : l = Len(wire) /\ m = Len(wire') /\ d = Len(staged)
  OBVIOUS
<1>3. /\ l \in Nat /\ m \in Nat /\ d \in Nat /\ committed \in Nat
      /\ currentBatch \in Nat /\ BatchSize \in Nat
  BY <1>1, <1>2, TxSendAssumption DEF TypeInv
<1>4. /\ d + l = currentBatch /\ open /= 0 /\ Len(log) = committed
      /\ \A k \in 1..d : staged[k] = committed + k
      /\ \A k \in 1..l : wire[k] = Message(committed + d + k, open)
  BY <1>2 DEF Carries
<1>5. \A k \in 1..(l + n) : wire'[k] = Message(committed + d + k, open)
  <2> SUFFICES ASSUME NEW k \in 1..(l + n)
               PROVE  wire'[k] = Message(committed + d + k, open)
    OBVIOUS
  <2>1. CASE k \in 1..l
    BY <1>1, <1>2, <1>4, <2>1
  <2>2. CASE k \notin 1..l
    <3>1. PICK j \in 1..n : k = l + j
      <4>1. k - l \in 1..n /\ k = l + (k - l)
        BY <1>3, <2>2
      <4> QED BY <4>1
    <3>2. committed + currentBatch + j = committed + d + k
      BY <1>3, <1>4, <3>1
    <3>3. wire'[l + j] = Message(committed + currentBatch + j, open)
      BY <1>1, <1>2
    <3> QED BY <3>1, <3>2, <3>3
  <2> QED BY <2>1, <2>2
<1>6. d + (l + n) = currentBatch' /\ currentBatch' = currentBatch + n
  BY <1>1, <1>3, <1>4
<1>7. CASE /\ n = 0 \/ currentBatch' < BatchSize
           /\ transaction' = open /\ m = l + n
  <2>1. currentBatch' < BatchSize
    BY <1>3, <1>6, <1>7
  <2>2. /\ open' /= 0 /\ Len(staged') + Len(wire') = currentBatch'
        /\ \A k \in 1..Len(staged') : staged'[k] = committed' + k
        /\ \A k \in 1..Len(wire') : wire'[k] = Message(committed' + Len(staged') + k, open')
        /\ Len(log') = committed'
    BY <1>2, <1>4, <1>5, <1>6, <1>7
  <2> QED BY <1>7, <2>1, <2>2 DEF Fills, Carries
<1>8. CASE /\ n > 0 /\ currentBatch' = BatchSize /\ transaction' = 0
           /\ m = l + n + 1 /\ wire'[l + n + 1] = Discharge(open)
  <2>1. m - 1 = l + n /\ m > 0
    BY <1>3, <1>8
  <2>2. wire' /= <<>> /\ wire'[Len(wire')] = Discharge(open')
    <3>1. wire' /= <<>>
      BY <1>2, <2>1, EmptySeq
    <3> QED BY <1>2, <1>8, <3>1
  <2>3. /\ open' /= 0 /\ Len(staged') + (Len(wire') - 1) = currentBatch'
        /\ \A k \in 1..Len(staged') : staged'[k] = committed' + k
        /\ \A k \in 1..(Len(wire') - 1) :
              wire'[k] = Message(committed' + Len(staged') + k, open')
        /\ Len(log') = committed'
    BY <1>2, <1>4, <1>5, <1>6, <2>1
  <2> QED BY <1>8, <2>2, <2>3 DEF Ends, Carries
<1> QED BY <1>1, <1>2, <1>7, <1>8

\* The node's flow: only the open transaction and one the node refuses carry on.
LEMMA FlowStep ==
  ASSUME TxInv, OnSendable
  PROVE  TxInv'
<1>1. TypeInv /\ Ledger /\ Phase /\ ~closed
  BY DEF TxInv, OnSendable
<1>2. PICK c \in (credit + 1)..MaxCredit : Send(c, transaction)
  BY DEF OnSendable
<1>3. c \in Nat /\ transaction \in Nat
  BY <1>1, TxSendAssumption DEF TypeInv
<1>4. UNCHANGED <<committed, confirmed, closed, replies, declared, open, staged, log>>
  BY DEF OnSendable, nodeVars
<1>5. TypeInv' /\ Ledger'
  <2>1. replies' \in Seq(Answers)
    BY <1>1, <1>4 DEF TypeInv
  <2>2. TypeInv'
    BY <1>1, <1>2, <1>3, <1>4, <2>1, SendTypes
  <2> QED BY <1>1, <1>4, <2>2 DEF Ledger
<1>6. CASE Asks \/ Begins \/ Ends \/ Settled
  <2>1. transaction = 0
    BY <1>6 DEF Asks, Begins, Ends, Settled
  <2>2. wire' = wire /\ transaction' = transaction /\ currentBatch' = currentBatch
    <3>1. currentBatch \in Nat
      BY <1>1, TxSendAssumption DEF TypeInv
    <3> QED BY <1>1, <1>2, <1>3, <2>1, <3>1, SendProperties
  <2> QED BY <1>1, <1>4, <1>5, <1>6, <2>2
          DEF TxInv, Phase, Asks, Begins, Ends, Settled, Carries, AllAccepted
<1>7. CASE Fills
  <2>1. /\ Send(c, open) /\ currentBatch < BatchSize /\ Carries(Len(wire))
        /\ AllAccepted'
    BY <1>2, <1>4, <1>7 DEF Fills, AllAccepted
  <2>2. Fills' \/ Ends'
    BY <1>1, <1>3, <1>4, <2>1, SendFills
  <2> QED BY <1>1, <1>4, <1>5, <2>2 DEF TxInv, Phase
<1>8. CASE Adrift
  <2>1. \A k \in 1..Len(wire') : wire'[k].type /= "declare" /\ wire'[k].tx /= 0
    <3>1. PICK n \in Nat :
            /\ transaction = 0 => n = 0
            /\ n = 0 => wire' = wire
            /\ \A k \in 1..Len(wire) : wire'[k] = wire[k]
            /\ \A k \in 1..n :
                 wire'[Len(wire) + k] = Message(committed + currentBatch + k, transaction)
            /\ \/ Len(wire') = Len(wire) + n
               \/ /\ Len(wire') = Len(wire) + n + 1
                  /\ wire'[Len(wire) + n + 1] = Discharge(transaction)
      BY <1>1, <1>2, <1>3, SendProperties
    <3>2. CASE n = 0
      BY <1>8, <3>1, <3>2 DEF Adrift
    <3>3. CASE n /= 0
      <4> SUFFICES ASSUME NEW k \in 1..Len(wire')
                   PROVE  wire'[k].type /= "declare" /\ wire'[k].tx /= 0
        OBVIOUS
      <4>1. PICK l, m : l = Len(wire) /\ m = Len(wire')
        OBVIOUS
      <4>2. l \in Nat /\ m \in Nat
        <5>1. wire \in Seq(Frames) /\ wire' \in Seq(Frames)
          BY <1>1, <1>5 DEF TypeInv
        <5> QED BY <4>1, <5>1
      <4>3. k \in 1..l \/ k - l \in 1..n \/ (k = l + n + 1 /\ m = l + n + 1)
        BY <3>1, <4>1, <4>2
      <4>4. CASE k \in 1..l
        BY <1>8, <3>1, <4>1, <4>4 DEF Adrift
      <4>5. CASE k - l \in 1..n
        <5>1. PICK j \in 1..n : k = l + j
          BY <4>2, <4>5
        <5>2. wire'[k] = Message(committed + currentBatch + j, transaction)
          BY <3>1, <4>1, <5>1
        <5> QED BY <3>1, <3>3, <5>2 DEF Message
      <4>6. CASE k = l + n + 1 /\ m = l + n + 1
        <5>1. wire'[k] = Discharge(transaction)
          BY <3>1, <4>1, <4>2, <4>6
        <5> QED BY <3>1, <3>3, <5>1 DEF Discharge
      <4> QED BY <4>3, <4>4, <4>5, <4>6
    <3> QED BY <3>2, <3>3
  <2> QED BY <1>1, <1>4, <1>5, <1>8, <2>1 DEF TxInv, Phase, Adrift
<1> QED BY <1>1, <1>6, <1>7, <1>8 DEF Phase, Closed

\* on_transaction_declared starts the batch.
LEMMA DeclaredStep ==
  ASSUME TxInv, OnTransactionDeclared
  PROVE  TxInv'
<1>1. /\ TypeInv /\ Ledger /\ Phase /\ ~closed
      /\ replies /= <<>> /\ Head(replies).type = "declared"
      /\ replies' = Tail(replies) /\ Send(credit, Head(replies).tx)
      /\ UNCHANGED <<committed, confirmed, closed, declared, open, staged, log>>
  BY DEF TxInv, OnTransactionDeclared, Reply, nodeVars
<1>2. Begins
  BY <1>1, NextReply
<1>3. Head(replies).tx = open /\ replies' = <<>>
  BY <1>1, <1>2 DEF Begins, Declared
<1>4. credit \in Nat /\ open \in Nat /\ replies' \in Seq(Answers)
  <2>1. credit \in Nat /\ open \in Nat
    BY <1>1 DEF TypeInv
  <2>2. replies' \in Seq(Answers)
    BY <1>3, EmptySeq
  <2> QED BY <2>1, <2>2
<1>5. TypeInv'
  BY <1>1, <1>3, <1>4, SendTypes
<1>6. Fills' \/ Ends'
  <2>1. currentBatch < BatchSize
    BY <1>2, TxSendAssumption DEF Begins
  <2>2. Carries(Len(wire))
    <3>1. Len(wire) = 0 /\ Len(staged) = 0
      BY <1>2, EmptySeq DEF Begins
    <3> QED BY <1>2, <3>1 DEF Carries, Begins
  <2>3. AllAccepted'
    <3>1. Len(replies') = 0
      BY <1>3, EmptySeq
    <3> QED BY <3>1 DEF AllAccepted
  <2> QED BY <1>1, <1>3, <1>4, <2>1, <2>2, <2>3, SendFills
<1> QED BY <1>1, <1>5, <1>6 DEF TxInv, Phase, Ledger

LEMMA AcceptedStep ==
  ASSUME TxInv, OnAccepted
  PROVE  TxInv'
<1>1. /\ TypeInv /\ Ledger /\ Phase /\ ~closed
      /\ replies /= <<>> /\ Head(replies).type = "accepted"
      /\ replies' = Tail(replies)
      /\ UNCHANGED <<currentBatch, committed, transaction, closed, credit, wire,
                     declared, open, staged, log>>
  BY DEF TxInv, OnAccepted, Reply, nodeVars
<1>2. PICK n, m : n = Len(replies) /\ m = Len(replies')
  OBVIOUS
<1>3. /\ n \in Nat \ {0} /\ m = n - 1 /\ replies' \in Seq(Answers)
      /\ \A k \in 1..m : replies'[k] = replies[k + 1]
      /\ n > 1 => m > 0
  BY <1>1, <1>2, Front DEF TypeInv
<1>4. TypeInv' /\ Ledger'
  BY <1>1, <1>3 DEF TypeInv, Ledger
<1>5. CASE Fills \/ Ends
  <2>1. AllAccepted'
    <3>1. \A k \in 1..n : replies[k] = Accepted
      BY <1>2, <1>5 DEF Fills, Ends, AllAccepted
    <3>2. \A k \in 1..m : k + 1 \in 1..n
      BY <1>3
    <3> QED BY <1>2, <1>3, <3>1, <3>2 DEF AllAccepted
  <2> QED BY <1>1, <1>4, <1>5, <2>1 DEF TxInv, Phase, Fills, Ends, Carries
<1>6. CASE Settled /\ Len(replies) > 1
  <2>1. n > 1 /\ replies[n] = Committed /\ \A k \in 1..n - 1 : replies[k] = Accepted
    BY <1>2, <1>6 DEF Settled
  <2>2. replies' /= <<>> /\ replies'[m] = Committed
    <3>1. m \in 1..m /\ m + 1 = n
      BY <1>3, <2>1
    <3>2. replies' /= <<>>
      <4>1. replies \in Seq(Answers)
        BY <1>1 DEF TypeInv
      <4>2. (n = 1 /\ replies' = <<>>) \/ (n > 1 /\ replies' /= <<>>)
        BY <1>1, <1>2, <4>1, Front
      <4> QED BY <2>1, <4>2
    <3> QED BY <1>3, <2>1, <3>1, <3>2
  <2>3. \A k \in 1..m - 1 : replies'[k] = Accepted
    <3>1. \A k \in 1..m - 1 : k \in 1..m /\ k + 1 \in 1..n - 1
      BY <1>3
    <3> QED BY <1>3, <2>1, <3>1
  <2> QED BY <1>1, <1>2, <1>4, <1>6, <2>2, <2>3 DEF TxInv, Phase, Settled
<1> QED BY <1>1, <1>5, <1>6, NextReply

LEMMA CommittedStep ==
  ASSUME TxInv, OnTransactionCommitted
  PROVE  TxInv'
<1>1. /\ TypeInv /\ Ledger /\ Phase /\ ~closed
      /\ replies /= <<>> /\ Head(replies).type = "committed"
      /\ replies' = Tail(replies)
      /\ committed' = committed + currentBatch
      /\ closed' = (committed' = Total)
      /\ UNCHANGED <<confirmed, transaction, credit, declared, open, staged, log>>
  BY DEF TxInv, OnTransactionCommitted, Reply, nodeVars
<1>2. Settled /\ Len(replies) = 1
  BY <1>1, NextReply
<1>3. replies' = <<>>
  <2>1. replies \in Seq(Answers)
    BY <1>1 DEF TypeInv
  <2>2. PICK n : n = Len(replies)
    OBVIOUS
  <2>3. (n = 1 /\ replies' = <<>>) \/ (n > 1 /\ replies' /= <<>>)
    BY <1>1, <2>1, <2>2, Front
  <2> QED BY <1>2, <2>2, <2>3
<1>4. /\ committed \in Nat /\ BatchSize \in Nat /\ currentBatch = BatchSize
      /\ Len(log) = committed' /\ committed' \in Nat /\ committed' <= Total
  BY <1>1, <1>2, TxSendAssumption DEF TypeInv, Settled
<1>5. CASE closed'
  <2>1. UNCHANGED <<currentBatch, wire>>
    BY <1>5 DEF OnTransactionCommitted
  <2>2. TypeInv' /\ Ledger'
    BY <1>1, <1>3, <1>4, <1>5, <2>1, EmptySeq DEF TypeInv, Ledger
  <2> QED BY <1>1, <1>2, <1>4, <1>5, <2>1, <2>2 DEF TxInv, Phase, Closed, Settled
<1>6. CASE ~closed'
  <2>1. currentBatch' = 0 /\ wire' = Append(wire, Declare) /\ wire = <<>>
    BY <1>2, <1>6 DEF OnTransactionCommitted, Settled
  <2>2. wire' = <<Declare>> /\ wire' \in Seq(Frames)
    BY <2>1, FrameTypes
  <2>3. TypeInv' /\ Ledger'
    <3>1. replies' \in Seq(Answers) /\ currentBatch' \in 0..BatchSize
      BY <1>3, <1>4, <2>1, EmptySeq
    <3>2. committed' + currentBatch' <= Total
      BY <1>4, <2>1
    <3>3. TypeInv'
      BY <1>1, <1>4, <2>2, <3>1, <3>2 DEF TypeInv
    <3> QED BY <1>1, <3>3 DEF Ledger
  <2> QED BY <1>1, <1>2, <1>3, <1>4, <1>6, <2>1, <2>2, <2>3
          DEF TxInv, Phase, Asks, Settled
<1> QED BY <1>5, <1>6

\* After a broken connection the transaction of the program is none of the node.
LEMMA DisconnectedStep ==
  ASSUME TxInv, OnDisconnected
  PROVE  TxInv'
<1>1. /\ TypeInv /\ Ledger /\ Phase /\ ~closed
      /\ currentBatch' = 0 /\ credit' = 0 /\ wire' = <<>> /\ replies' = <<>>
      /\ open' = 0 /\ staged' = <<>>
      /\ UNCHANGED <<committed, transaction, closed, declared, log>>
  BY DEF TxInv, OnDisconnected
<1>2. committed \in Nat /\ BatchSize \in Nat /\ committed <= Total
  BY <1>1, TxSendAssumption DEF TypeInv
<1>3. TypeInv'
  <2>1. /\ wire' \in Seq(Frames) /\ replies' \in Seq(Answers) /\ staged' \in Seq(Nat)
        /\ currentBatch' \in 0..BatchSize /\ committed' + currentBatch' <= Total
    BY <1>1, <1>2, EmptySeq
  <2> QED BY <1>1, <2>1 DEF TypeInv
<1>4. Len(log) \in {committed, committed + BatchSize}
  BY <1>1 DEF Phase, Closed, Asks, Begins, Fills, Ends, Carries, Settled, Adrift
<1>5. Adrift'
  <2>1. Len(wire') = 0
    BY <1>1, EmptySeq
  <2> QED BY <1>1, <1>4, <2>1 DEF Adrift
<1> QED BY <1>1, <1>3, <1>5 DEF TxInv, Phase, Ledger

LEMMA DeclareStep ==
  ASSUME TxInv, NodeDeclares
  PROVE  TxInv'
<1>1. /\ TypeInv /\ Ledger /\ Phase
      /\ wire /= <<>> /\ Head(wire).type = "declare" /\ wire' = Tail(wire)
      /\ declared' = declared + 1 /\ open' = declared'
      /\ replies' = Append(replies, Declared(open'))
      /\ UNCHANGED <<currentBatch, committed, transaction, closed, credit, staged, log>>
  BY DEF TxInv, NodeDeclares, Frame, programVars
<1>2. Asks /\ ~closed
  BY <1>1, NextFrame DEF Message, Discharge
<1>3. wire' = <<>> /\ replies' = <<Declared(open')>>
  BY <1>1, <1>2 DEF Asks
<1>4. open' \in Nat \ {0} /\ declared' \in Nat
  BY <1>1 DEF TypeInv
<1>5. TypeInv'
  <2>1. wire' \in Seq(Frames) /\ replies' \in Seq(Answers)
    BY <1>3, <1>4, FrameTypes, EmptySeq
  <2> QED BY <1>1, <1>4, <2>1 DEF TypeInv
<1>6. Begins'
  BY <1>1, <1>2, <1>3, <1>4 DEF Asks, Begins
<1> QED BY <1>1, <1>2, <1>5, <1>6 DEF TxInv, Phase, Ledger

\* The node takes a message of the open transaction and refuses any other.
LEMMA StageStep ==
  ASSUME TxInv, NodeStages
  PROVE  TxInv'
<1>1. /\ TypeInv /\ Ledger /\ Phase
      /\ wire /= <<>> /\ Head(wire).type = "message" /\ wire' = Tail(wire)
      /\ UNCHANGED <<currentBatch, committed, transaction, closed, credit, declared,
                     open, log>>
  BY DEF TxInv, NodeStages, Frame, programVars
<1>2. PICK l, m, d : l = Len(wire) /\ m = Len(wire') /\ d = Len(staged)
  OBVIOUS
<1>3. /\ wire \in Seq(Frames) /\ l \in Nat \ {0} /\ m = l - 1 /\ wire' \in Seq(Frames)
      /\ \A k \in 1..m : wire'[k] = wire[k + 1]
      /\ (l = 1 /\ wire' = <<>>) \/ (l > 1 /\ wire' /= <<>>)
  <2>1. wire \in Seq(Frames)
    BY <1>1 DEF TypeInv
  <2> QED BY <1>1, <1>2, <2>1, Front
<1>4. d \in Nat /\ committed \in Nat /\ currentBatch \in Nat /\ BatchSize \in Nat
  BY <1>1, <1>2, TxSendAssumption DEF TypeInv
<1>5. CASE Adrift /\ Head(wire).tx /= 0
  <2>1. UNCHANGED <<staged, replies>>
    BY <1>5 DEF NodeStages, Adrift
  <2>2. TypeInv'
    BY <1>1, <1>3, <2>1 DEF TypeInv
  <2>3. \A k \in 1..m : wire'[k].type /= "declare" /\ wire'[k].tx /= 0
    <3>1. \A k \in 1..m : k + 1 \in 1..l
      BY <1>3
    <3> QED BY <1>2, <1>3, <1>5, <3>1 DEF Adrift
  <2>4. Adrift'
    BY <1>1, <1>2, <1>5, <2>1, <2>3 DEF Adrift
  <2>5. ~closed
    BY <1>1, NextFrame
  <2> QED BY <1>1, <2>2, <2>4, <2>5 DEF TxInv, Phase, Ledger
<1>6. CASE /\ Fills \/ (Ends /\ l > 1)
           /\ Head(wire) = Message(committed + d + 1, open)
  <2>1. Head(wire).tx = open /\ Head(wire).id = committed + d + 1
    BY <1>6 DEF Message
  <2>2. staged' = Append(staged, committed + d + 1) /\ replies' = Append(replies, Accepted)
    BY <2>1 DEF NodeStages
  <2>3. /\ staged' \in Seq(Nat) /\ Len(staged') = d + 1
        /\ \A k \in 1..d : staged'[k] = staged[k]
        /\ staged'[d + 1] = committed + d + 1
    <3>1. committed + d + 1 \in Nat /\ staged \in Seq(Nat)
      BY <1>1, <1>4 DEF TypeInv
    <3> QED BY <1>2, <2>2, <3>1, Back
  <2>4. AllAccepted' /\ replies' \in Seq(Answers)
    <3>1. replies \in Seq(Answers) /\ AllAccepted
      BY <1>1, <1>6 DEF TypeInv, Fills, Ends
    <3>2. PICK r : r = Len(replies)
      OBVIOUS
    <3>3. /\ r \in Nat /\ Len(replies') = r + 1 /\ replies' \in Seq(Answers)
          /\ \A k \in 1..r : replies'[k] = replies[k]
          /\ replies'[r + 1] = Accepted
      BY <2>2, <3>1, <3>2, FrameTypes, Back
    <3> QED BY <3>1, <3>2, <3>3 DEF AllAccepted
  <2>5. TypeInv'
    BY <1>1, <1>3, <2>3, <2>4 DEF TypeInv
  <2>6. ASSUME NEW n \in 1..l, Carries(n)
        PROVE  Carries(n - 1)'
    <3>1. /\ open /= 0 /\ d + n = currentBatch /\ Len(log) = committed
          /\ \A k \in 1..d : staged[k] = committed + k
          /\ \A k \in 1..n : wire[k] = Message(committed + d + k, open)
      BY <1>2, <2>6 DEF Carries
    <3>2. d + 1 + (n - 1) = currentBatch /\ n - 1 <= m
      BY <1>3, <1>4, <3>1
    <3>3. \A k \in 1..(d + 1) : staged'[k] = committed + k
      <4>1. \A k \in 1..(d + 1) : k \in 1..d \/ k = d + 1
        BY <1>4
      <4>2. committed + (d + 1) = committed + d + 1
        BY <1>4
      <4> QED BY <2>3, <3>1, <4>1, <4>2
    <3>4. ASSUME NEW k \in 1..(n - 1)
          PROVE  wire'[k] = Message(committed + (d + 1) + k, open)
      <4>1. k \in 1..m /\ k + 1 \in 1..n /\ committed + d + (k + 1) = committed + (d + 1) + k
        BY <1>3, <1>4, <3>2
      <4> QED BY <1>3, <3>1, <4>1
    <3>5. /\ Len(staged') + (n - 1) = currentBatch'
          /\ \A k \in 1..Len(staged') : staged'[k] = committed' + k
          /\ \A k \in 1..(n - 1) : wire'[k] = Message(committed' + Len(staged') + k, open')
      BY <1>1, <2>3, <3>2, <3>3, <3>4
    <3> QED BY <1>1, <3>1, <3>5 DEF Carries
  <2>7. CASE Fills
    <3>1. Carries(l) /\ l \in 1..l
      BY <1>2, <1>3, <2>7 DEF Fills
    <3>2. Carries(l - 1)' /\ l - 1 = Len(wire')
      BY <1>2, <1>3, <2>6, <3>1
    <3>3. Carries(Len(wire))'
      BY <3>2 DEF Carries
    <3>4. Fills'
      BY <1>1, <2>4, <2>7, <3>3 DEF Fills
    <3> QED BY <1>1, <2>5, <3>4, NextFrame DEF TxInv, Phase, Ledger
  <2>8. CASE Ends /\ l > 1
    <3>1. Carries(l - 1) /\ l - 1 \in 1..l
      BY <1>2, <1>3, <2>8 DEF Ends
    <3>2. Carries(l - 1 - 1)' /\ l - 1 - 1 = Len(wire') - 1
      <4>1. Carries(l - 1 - 1)'
        BY <2>6, <3>1
      <4> QED BY <1>2, <1>3, <4>1
    <3>3. Carries(Len(wire) - 1)'
      BY <3>2 DEF Carries
    <3>4. wire' /= <<>> /\ wire'[Len(wire')] = Discharge(open')
      <4>1. m \in 1..m /\ m + 1 = l
        BY <1>3, <2>8
      <4>2. wire[l] = Discharge(open)
        BY <1>2, <2>8 DEF Ends
      <4>3. wire' /= <<>>
        BY <1>3, <2>8
      <4> QED BY <1>1, <1>2, <1>3, <4>1, <4>2, <4>3
    <3>5. Ends'
      BY <1>1, <2>4, <2>8, <3>3, <3>4 DEF Ends
    <3> QED BY <1>1, <2>5, <3>5, NextFrame DEF TxInv, Phase, Ledger
  <2> QED BY <1>6, <2>7, <2>8
<1>7. Declare.type = "declare" /\ Discharge(open).type = "discharge"
  BY DEF Declare, Discharge
<1>8. \/ Adrift /\ Head(wire).tx /= 0
      \/ /\ Fills \/ (Ends /\ l > 1)
         /\ Head(wire) = Message(committed + d + 1, open)
  BY <1>1, <1>2, <1>7, NextFrame
<1> QED BY <1>5, <1>6, <1>8

\* The node commits a full batch, which continues its log, or nothing.
LEMMA CommitStep ==
  ASSUME TxInv, NodeCommits
  PROVE  TxInv'
<1>1. /\ TypeInv /\ Ledger /\ Phase
      /\ wire /= <<>> /\ Head(wire).type = "discharge" /\ wire' = Tail(wire)
      /\ UNCHANGED <<currentBatch, committed, transaction, closed, credit, declared>>
  BY DEF TxInv, NodeCommits, Frame, programVars
<1>2. PICK l, m : l = Len(wire) /\ m = Len(wire')
  OBVIOUS
<1>3. /\ l \in Nat \ {0} /\ m = l - 1 /\ wire' \in Seq(Frames)
      /\ \A k \in 1..m : wire'[k] = wire[k + 1]
      /\ (l = 1 /\ wire' = <<>>) \/ (l > 1 /\ wire' /= <<>>)
  <2>1. wire \in Seq(Frames)
    BY <1>1 DEF TypeInv
  <2> QED BY <1>1, <1>2, <2>1, Front
<1>4. ~closed /\ (\/ Adrift /\ Head(wire).tx /= 0
                  \/ Ends /\ l = 1 /\ Head(wire) = Discharge(open))
  BY <1>1, <1>2, NextFrame DEF Declare, Message
<1>5. CASE Adrift /\ Head(wire).tx /= 0
  <2>1. UNCHANGED <<log, staged, open, replies>>
    BY <1>5 DEF NodeCommits, Adrift
  <2>2. TypeInv'
    BY <1>1, <1>3, <2>1 DEF TypeInv
  <2>3. \A k \in 1..m : wire'[k].type /= "declare" /\ wire'[k].tx /= 0
    <3>1. \A k \in 1..m : k + 1 \in 1..l
      BY <1>3
    <3> QED BY <1>2, <1>3, <1>5, <3>1 DEF Adrift
  <2>4. Adrift'
    BY <1>1, <1>2, <1>5, <2>1, <2>3 DEF Adrift
  <2> QED BY <1>1, <1>4, <2>1, <2>2, <2>4 DEF TxInv, Phase, Ledger
<1>6. CASE Ends /\ l = 1 /\ Head(wire) = Discharge(open)
  <2>1. Head(wire).tx = open /\ wire' = <<>>
    BY <1>3, <1>6 DEF Discharge
  <2>2. /\ log' = log \o staged /\ staged' = <<>> /\ open' = 0
        /\ replies' = Append(replies, Committed)
    BY <2>1 DEF NodeCommits
  <2>3. PICK d, n : d = Len(staged) /\ n = Len(log)
    OBVIOUS
  <2>4. /\ d = BatchSize /\ n = committed /\ n \in Nat /\ d \in Nat
        /\ \A k \in 1..d : staged[k] = n + k
        /\ \A k \in 1..n : log[k] = k
    <3>1. d \in Nat /\ n \in Nat
      BY <1>1, <2>3 DEF TypeInv
    <3>2. Carries(0) /\ currentBatch = BatchSize
      BY <1>2, <1>6 DEF Ends
    <3> QED BY <1>1, <2>3, <3>1, <3>2 DEF Carries, Ledger
  <2>5. /\ log' \in Seq(Nat) /\ Len(log') = n + d
        /\ \A k \in 1..(n + d) : log'[k] = IF k <= n THEN log[k] ELSE staged[k - n]
    <3>1. log \in Seq(Nat) /\ staged \in Seq(Nat)
      BY <1>1 DEF TypeInv
    <3> QED BY <2>2, <2>3, <3>1, ConcatProperties
  <2>6. \A k \in 1..(n + d) : log'[k] = k
    <3> SUFFICES ASSUME NEW k \in 1..(n + d) PROVE log'[k] = k
      OBVIOUS
    <3>1. CASE k <= n
      BY <2>4, <2>5, <3>1
    <3>2. CASE ~(k <= n)
      <4>1. PICK j \in 1..d : j = k - n
        BY <2>4, <3>2
      <4>2. log'[k] = staged[j]
        BY <2>5, <3>2, <4>1
      <4> QED BY <2>4, <4>1, <4>2
    <3> QED BY <3>1, <3>2
  <2>7. Ledger'
    <3>1. PICK q \in Nat : n = q * BatchSize
      BY <1>1, <2>3 DEF Ledger
    <3>2. n + d = (q + 1) * BatchSize /\ q + 1 \in Nat
      BY <2>4, <3>1, TxSendAssumption
    <3>3. \E p \in Nat : Len(log') = p * BatchSize
      BY <2>5, <3>2
    <3> QED BY <2>5, <2>6, <3>3 DEF Ledger
  <2>8. /\ replies' \in Seq(Answers) /\ replies' /= <<>>
        /\ replies'[Len(replies')] = Committed
        /\ \A k \in 1..Len(replies') - 1 : replies'[k] = Accepted
    <3>1. replies \in Seq(Answers) /\ AllAccepted
      BY <1>1, <1>6 DEF TypeInv, Ends
    <3>2. PICK r, p : r = Len(replies) /\ p = Len(replies')
      OBVIOUS
    <3>3. /\ r \in Nat /\ p = r + 1 /\ replies' \in Seq(Answers) /\ replies' /= <<>>
          /\ \A k \in 1..r : replies'[k] = replies[k]
          /\ replies'[r + 1] = Committed
      BY <2>2, <3>1, <3>2, FrameTypes, Back
    <3>4. \A k \in 1..r : replies'[k] = Accepted
      BY <3>1, <3>2, <3>3 DEF AllAccepted
    <3>5. p - 1 = r
      BY <3>3
    <3> QED BY <3>2, <3>3, <3>4, <3>5
  <2>9. TypeInv'
    <3>1. staged' \in Seq(Nat) /\ open' \in Nat
      BY <2>2, EmptySeq
    <3> QED BY <1>1, <1>3, <2>5, <2>8, <3>1 DEF TypeInv
  <2>10. Settled'
    <3>1. Len(log') = committed' + BatchSize
      BY <1>1, <2>4, <2>5
    <3> QED BY <1>1, <1>6, <2>1, <2>2, <2>8, <3>1 DEF Settled, Ends
  <2> QED BY <1>1, <1>4, <2>7, <2>9, <2>10 DEF TxInv, Phase
<1> QED BY <1>4, <1>5, <1>6

LEMMA TxInit ==
  ASSUME Init
  PROVE  TxInv
<1>1. /\ wire \in Seq(Frames) /\ replies \in Seq(Answers)
      /\ staged \in Seq(Nat) /\ log \in Seq(Nat) /\ Len(log) = 0
  BY FrameTypes, EmptySeq DEF Init
<1>2. TypeInv
  <2>1. 0 \in 0..BatchSize /\ 0 + 0 <= Total
    BY TxSendAssumption
  <2>2. /\ committed = 0 /\ currentBatch = 0 /\ transaction = 0 /\ credit = 0
        /\ declared = 0 /\ open = 0 /\ closed = FALSE
    BY DEF Init
  <2> QED BY <1>1, <2>1, <2>2 DEF TypeInv
<1>3. Ledger
  <2>1. 0 = 0 * BatchSize
    BY TxSendAssumption
  <2> QED BY <1>1, <2>1 DEF Ledger
<1>4. Asks /\ ~closed
  BY <1>1 DEF Init, Asks
<1> QED BY <1>2, <1>3, <1>4 DEF TxInv, Phase

LEMMA TxStep ==
  ASSUME TxInv, [Next]_vars
  PROVE  TxInv'
<1>1. ASSUME UNCHANGED vars PROVE TxInv'
  BY <1>1 DEF vars, programVars, nodeVars, TxInv, TypeInv, Ledger, Phase, Closed,
              Asks, Begins, Fills, Ends, Settled, Adrift, Carries, AllAccepted
<1> QED BY <1>1, FlowStep, DeclaredStep, AcceptedStep, CommittedStep,
           DisconnectedStep, DeclareStep, StageStep, CommitStep DEF Next

\* Whatever the sequence, the batch size and the credit, and however often
\* connections break, tx_send.py gets whole batches of its sequence committed,
\* in order and each message once, and counts them, but for one batch at most.
THEOREM WholeBatchesHold == SendSpec => []WholeBatches
<1>1. Init => TxInv
  BY TxInit
<1>2. TxInv /\ [Next]_vars => TxInv'
  BY TxStep
<1>3. TxInv => WholeBatches
  <2> SUFFICES ASSUME TxInv PROVE WholeBatches
    OBVIOUS
  <2>1. PICK q \in Nat : Len(log) = q * BatchSize
    BY DEF TxInv, Ledger
  <2>2. Len(log) % BatchSize = 0
    <3>1. (q * BatchSize) % BatchSize = 0
      BY TxSendAssumption
    <3> QED BY <2>1, <3>1
  <2>3. \A k \in DOMAIN log : log[k] = k
    BY DEF TxInv, TypeInv, Ledger
  <2>4. committed <= Len(log) /\ Len(log) <= committed + BatchSize
    <3>1. Len(log) = committed \/ Len(log) = committed + BatchSize
      BY DEF TxInv, Phase, Closed, Asks, Begins, Fills, Ends, Settled, Adrift, Carries
    <3>2. committed \in Nat /\ BatchSize \in Nat
      BY TxSendAssumption DEF TxInv, TypeInv
    <3> QED BY <3>1, <3>2
  <2> QED BY <2>2, <2>3, <2>4 DEF WholeBatches
<1> QED BY <1>1, <1>2, <1>3, PTL DEF SendSpec

-----------------------------------------------------------------------------
(* tx_recv.py. *)

RecvFrames ==
  [type : {"declare"}] \union [type : {"flow"}, credit : Nat]
    \union [type : {"accept"}, id : Nat, tx : Nat]
    \union [type : {"discharge"}, tx : Nat]

RecvAnswers ==
  [type : {"declared"}, tx : Nat] \union [type : {"committed"}]
    \union [type : {"message"}, id : Nat]

RecvTypeInv ==
  /\ recvBatch \in 0..RecvBatchSize
  /\ recvCommitted \in Nat /\ recvTransaction \in Nat /\ recvCredit \in Nat
  /\ handed \in Nat /\ recvDeclared \in Nat /\ recvOpen \in Nat
  /\ recvClosed \in BOOLEAN
  /\ recvWire \in Seq(RecvFrames) /\ recvReplies \in Seq(RecvAnswers)

\* The program counts whole batches.
WholeCount == \E q \in Nat : recvCommitted = q * RecvBatchSize

\* A batch begins: the node forgot the committed messages and handed out no others.
Fresh ==
  /\ recvBatch = 0 /\ recvStaged = {} /\ recvCredit = 0
  /\ handed = recvCommitted /\ consumed = 1..recvCommitted

\* The messages of the batch that the program has handled are accepted in the open
\* transaction, the last n of them by the first n frames on the wire.
Accepts(n) ==
  /\ recvOpen /= 0 /\ n <= recvBatch
  /\ consumed = 1..recvCommitted
  /\ recvStaged = (recvCommitted + 1)..(recvCommitted + recvBatch - n)
  /\ \A k \in 1..n :
       recvWire[k] = Receiver!Accept(recvCommitted + recvBatch - n + k, recvOpen)

(* The phases of a batch, while the connection lasts. *)

RecvAsks == /\ Fresh /\ recvTransaction = 0 /\ recvOpen = 0
            /\ recvWire = <<Receiver!Declare>> /\ recvReplies = <<>>

RecvBegins == /\ Fresh /\ recvTransaction = 0 /\ recvOpen /= 0
              /\ recvWire = <<>> /\ recvReplies = <<Receiver!Declared(recvOpen)>>

RecvOffers == /\ Fresh /\ recvTransaction = recvOpen /\ recvOpen /= 0
              /\ recvWire = <<Receiver!Flow(RecvBatchSize)>> /\ recvReplies = <<>>

\* What the batch lacks is handed out, or will be: there is credit for it.
RecvFills ==
  /\ recvTransaction = recvOpen /\ recvBatch < RecvBatchSize
  /\ Accepts(Len(recvWire))
  /\ recvBatch + Len(recvReplies) + recvCredit = RecvBatchSize
  /\ handed = recvCommitted + recvBatch + Len(recvReplies)
  /\ \A k \in 1..Len(recvReplies) :
       recvReplies[k] = Receiver!Message(recvCommitted + recvBatch + k)

\* The batch is complete: nothing more is handed out.
Complete == /\ recvTransaction = 0 /\ recvBatch = RecvBatchSize /\ recvCredit = 0
            /\ handed = recvCommitted + RecvBatchSize

RecvEnds ==
  /\ Complete /\ recvReplies = <<>>
  /\ recvWire /= <<>> /\ recvWire[Len(recvWire)] = Receiver!Discharge(recvOpen)
  /\ Accepts(Len(recvWire) - 1)

RecvSettled ==
  /\ Complete /\ recvWire = <<>> /\ recvReplies = <<Receiver!Committed>>
  /\ recvOpen = 0 /\ recvStaged = {}
  /\ consumed = 1..(recvCommitted + RecvBatchSize)

\* The connection is closed, or it broke: then the node has no transaction and
\* nobody asks for one or gives credit, and nothing happens any more.
Still ==
  /\ recvWire = <<>> /\ recvReplies = <<>> /\ recvCredit = 0
  /\ recvOpen = 0 /\ recvStaged = {}
  /\ \/ consumed = 1..recvCommitted
     \/ consumed = 1..(recvCommitted + RecvBatchSize)

RecvPhase ==
  \/ Still
  \/ /\ ~recvClosed
     /\ RecvAsks \/ RecvBegins \/ RecvOffers \/ RecvFills \/ RecvEnds \/ RecvSettled

\* The inductive invariant.
RecvInv == RecvTypeInv /\ WholeCount /\ RecvPhase
-----------------------------------------------------------------------------
LEMMA RecvTypes ==
  /\ Receiver!Declare \in RecvFrames
  /\ \A n \in Nat : Receiver!Flow(n) \in RecvFrames
  /\ \A m, t \in Nat : Receiver!Accept(m, t) \in RecvFrames
  /\ \A t \in Nat : Receiver!Discharge(t) \in RecvFrames
  /\ \A t \in Nat : Receiver!Declared(t) \in RecvAnswers
  /\ Receiver!Committed \in RecvAnswers
  /\ \A m \in Nat : Receiver!Message(m) \in RecvAnswers
BY DEF RecvFrames, RecvAnswers, Receiver!Declare, Receiver!Flow, Receiver!Accept,
       Receiver!Discharge, Receiver!Declared, Receiver!Committed, Receiver!Message

\* A line of one element.
LEMMA One ==
  ASSUME NEW S, NEW e \in S
  PROVE  /\ <<e>> \in Seq(S) /\ Len(<<e>>) = 1 /\ <<e>>[1] = e /\ <<e>> /= <<>>
         /\ Head(<<e>>) = e /\ Tail(<<e>>) = <<>>
OBVIOUS

\* One or two frames put on the wire at once.
LEMMA Joined ==
  ASSUME NEW S, NEW s \in Seq(S), NEW e \in S, NEW f \in S
  PROVE  /\ s \o <<e>> = Append(s, e)
         /\ s \o <<e, f>> = Append(Append(s, e), f)
<1>1. s \o <<e>> = Append(s, e) /\ Append(s, e) \in Seq(S)
  BY AppendIsConcat, AppendProperties
<1>2. <<e, f>> = <<e>> \o <<f>> /\ <<e>> \in Seq(S) /\ <<f>> \in Seq(S)
  <2> DEFINE g == <<e>> \o <<f>>
  <2>1. /\ <<e>> \in Seq(S) /\ <<f>> \in Seq(S) /\ <<e, f>> \in Seq(S)
        /\ Len(<<e>>) = 1 /\ Len(<<f>>) = 1 /\ Len(<<e, f>>) = 2
        /\ <<e>>[1] = e /\ <<f>>[1] = f /\ <<e, f>>[1] = e /\ <<e, f>>[2] = f
    OBVIOUS
  <2>2. /\ g \in Seq(S) /\ Len(g) = Len(<<e>>) + Len(<<f>>)
        /\ \A k \in 1..Len(<<e>>) + Len(<<f>>) :
             g[k] = IF k <= Len(<<e>>) THEN <<e>>[k] ELSE <<f>>[k - Len(<<e>>)]
    BY <2>1, ConcatProperties
  <2> HIDE DEF g
  <2>3. Len(g) = 2 /\ g[1] = e /\ g[2] = f
    <3>1. \A k \in 1..2 : g[k] = IF k <= 1 THEN e ELSE <<f>>[k - 1]
      BY <2>1, <2>2
    <3> QED BY <2>1, <2>2, <3>1
  <2>4. g = <<e, f>>
    <3>1. \A k \in 1..Len(g) : g[k] = <<e, f>>[k]
      <4>1. \A k \in 1..2 : k = 1 \/ k = 2
        OBVIOUS
      <4> QED BY <2>1, <2>3, <4>1
    <3> QED BY <2>1, <2>2, <2>3, <3>1, SeqEqual
  <2> QED BY <2>1, <2>4 DEF g
<1>3. (s \o <<e>>) \o <<f>> = s \o (<<e>> \o <<f>>)
  BY <1>2, ConcatAssociative
<1>4. Append(s, e) \o <<f>> = Append(Append(s, e), f)
  BY <1>1, AppendIsConcat
<1> QED BY <1>1, <1>2, <1>3, <1>4

\* What the program reads next tells where the batch is.
LEMMA RecvNextReply ==
  ASSUME RecvTypeInv, RecvPhase, recvReplies /= <<>>
  PROVE  /\ ~recvClosed
         /\ \/ RecvBegins /\ Head(recvReplies) = Receiver!Declared(recvOpen)
            \/ /\ RecvFills
               /\ Head(recvReplies) = Receiver!Message(recvCommitted + recvBatch + 1)
            \/ RecvSettled /\ Head(recvReplies) = Receiver!Committed
<1>1. Len(recvReplies) \in Nat \ {0} /\ Head(recvReplies) = recvReplies[1]
  BY Front DEF RecvTypeInv
<1>2. CASE RecvBegins
  BY <1>2 DEF RecvBegins, RecvPhase, Still
<1>3. CASE RecvFills
  BY <1>1, <1>3 DEF RecvFills, RecvPhase, Still
<1>4. CASE RecvSettled
  BY <1>4 DEF RecvSettled, RecvPhase, Still
<1> QED BY <1>2, <1>3, <1>4 DEF RecvPhase, Still, RecvAsks, RecvOffers, RecvEnds

\* What the node reads next, too.
LEMMA RecvNextFrame ==
  ASSUME RecvTypeInv, RecvPhase, recvWire /= <<>>
  PROVE  /\ ~recvClosed
         /\ \/ RecvAsks /\ Head(recvWire) = Receiver!Declare
            \/ RecvOffers /\ Head(recvWire) = Receiver!Flow(RecvBatchSize)
            \/ /\ RecvFills
               /\ Head(recvWire) =
                    Receiver!Accept(recvCommitted + recvBatch - Len(recvWire) + 1, recvOpen)
            \/ /\ RecvEnds /\ Len(recvWire) > 1
               /\ Head(recvWire) =
                    Receiver!Accept(recvCommitted + recvBatch - (Len(recvWire) - 1) + 1,
                                    recvOpen)
            \/ /\ RecvEnds /\ Len(recvWire) = 1
               /\ Head(recvWire) = Receiver!Discharge(recvOpen)
<1>1. /\ Len(recvWire) \in Nat \ {0} /\ Head(recvWire) = recvWire[1]
      /\ Len(recvWire) = 1 \/ Len(recvWire) > 1
  BY Front DEF RecvTypeInv
<1>2. ~Still /\ ~recvClosed
  BY DEF Still, RecvPhase
<1>3. CASE RecvAsks \/ RecvOffers
  BY <1>2, <1>3 DEF RecvAsks, RecvOffers
<1>4. CASE RecvFills
  BY <1>1, <1>2, <1>4 DEF RecvFills, Accepts
<1>5. CASE RecvEnds
  <2>1. CASE Len(recvWire) = 1
    BY <1>1, <1>2, <1>5, <2>1 DEF RecvEnds
  <2>2. CASE Len(recvWire) > 1
    <3>1. 1 \in 1..Len(recvWire) - 1
      BY <1>1, <2>2
    <3> QED BY <1>1, <1>2, <1>5, <2>2, <3>1 DEF RecvEnds, Accepts
  <2> QED BY <1>1, <2>1, <2>2
<1> QED BY <1>2, <1>3, <1>4, <1>5 DEF RecvPhase, RecvBegins, RecvSettled

(* The handlers. *)

\* on_transaction_declared gives credit for one batch.
LEMMA RecvDeclaredStep ==
  ASSUME RecvInv, Receiver!OnTransactionDeclared
  PROVE  RecvInv'
<1>1. /\ recvReplies /= <<>> /\ Head(recvReplies).type = "declared"
      /\ recvReplies' = Tail(recvReplies)
      /\ recvWire' = Append(recvWire, Receiver!Flow(RecvBatchSize))
      /\ recvTransaction' = Head(recvReplies).tx
      /\ UNCHANGED <<recvBatch, recvCommitted, recvClosed, recvCredit, handed,
                     recvDeclared, recvOpen, recvStaged, consumed>>
  BY DEF Receiver!OnTransactionDeclared, Receiver!Reply, Receiver!nodeVars
<1>2. RecvBegins /\ ~recvClosed /\ Head(recvReplies) = Receiver!Declared(recvOpen)
  BY <1>1, RecvNextReply DEF RecvInv, Receiver!Message, Receiver!Committed
<1>3. Receiver!Flow(RecvBatchSize) \in RecvFrames
  BY RecvTypes, TxRecvAssumption
<1>4. recvTransaction' = recvOpen /\ recvReplies' = <<>>
  BY <1>1, <1>2 DEF RecvBegins, Receiver!Declared
<1>5. recvWire' = <<Receiver!Flow(RecvBatchSize)>>
  BY <1>1, <1>2 DEF RecvBegins
<1>6. RecvOffers'
  BY <1>1, <1>2, <1>4, <1>5 DEF RecvBegins, RecvOffers, Fresh, Receiver!Flow
<1>7. RecvTypeInv'
  BY <1>1, <1>3, <1>4, <1>5, One, EmptySeq DEF RecvInv, RecvTypeInv
<1> QED BY <1>1, <1>2, <1>6, <1>7 DEF RecvInv, RecvPhase, WholeCount

\* on_message accepts the next message of the batch, and commits a full batch.
LEMMA RecvMessageStep ==
  ASSUME RecvInv, Receiver!OnMessage
  PROVE  RecvInv'
<1> DEFINE full == recvBatch + 1 = RecvBatchSize
<1>1. /\ recvReplies /= <<>> /\ Head(recvReplies).type = "message"
      /\ recvReplies' = Tail(recvReplies)
      /\ recvBatch' = recvBatch + 1
      /\ recvWire' = recvWire \o Receiver!AcceptAndCommit(full)
      /\ recvTransaction' = IF full THEN 0 ELSE recvTransaction
      /\ UNCHANGED <<recvCommitted, recvClosed, recvCredit, handed,
                     recvDeclared, recvOpen, recvStaged, consumed>>
  BY DEF Receiver!OnMessage, Receiver!Reply, Receiver!nodeVars
<1>2. /\ RecvFills /\ ~recvClosed
      /\ Head(recvReplies) = Receiver!Message(recvCommitted + recvBatch + 1)
  BY <1>1, RecvNextReply DEF RecvInv, Receiver!Declared, Receiver!Committed
<1>3. PICK n, r, b, c : /\ n = Len(recvWire) /\ r = Len(recvReplies)
                        /\ b = recvBatch /\ c = recvCommitted
  OBVIOUS
<1>4. /\ n \in Nat /\ r \in Nat /\ b \in Nat /\ c \in Nat /\ recvCredit \in Nat
      /\ RecvBatchSize \in Nat \ {0} /\ recvOpen \in Nat
      /\ recvWire \in Seq(RecvFrames) /\ recvReplies \in Seq(RecvAnswers)
  BY <1>3, TxRecvAssumption DEF RecvInv, RecvTypeInv
<1>5. /\ b < RecvBatchSize /\ n <= b /\ b + r + recvCredit = RecvBatchSize
      /\ handed = c + b + r /\ consumed = 1..c /\ recvStaged = (c + 1)..(c + b - n)
      /\ \A k \in 1..n : recvWire[k] = Receiver!Accept(c + b - n + k, recvOpen)
      /\ \A k \in 1..r : recvReplies[k] = Receiver!Message(c + b + k)
      /\ recvOpen /= 0 /\ recvTransaction = recvOpen
  BY <1>2, <1>3 DEF RecvFills, Accepts
<1>6. /\ recvReplies' \in Seq(RecvAnswers) /\ r > 0 /\ Len(recvReplies') = r - 1
      /\ \A k \in 1..(r - 1) : recvReplies'[k] = recvReplies[k + 1]
      /\ r = 1 => recvReplies' = <<>>
  <2>1. /\ Len(recvReplies) \in Nat \ {0} /\ Tail(recvReplies) \in Seq(RecvAnswers)
        /\ Len(Tail(recvReplies)) = Len(recvReplies) - 1
        /\ \A k \in 1..Len(recvReplies) - 1 : Tail(recvReplies)[k] = recvReplies[k + 1]
        /\ Len(recvReplies) = 1 => Tail(recvReplies) = <<>>
    BY <1>1, <1>4, Front
  <2> QED BY <1>1, <1>3, <2>1
<1>7. Head(recvReplies).id = c + b + 1
  BY <1>2, <1>3 DEF Receiver!Message
<1> DEFINE acc == Receiver!Accept(c + b + 1, recvOpen)
           one == Append(recvWire, acc)
<1>8. acc \in RecvFrames /\ Receiver!Discharge(recvOpen) \in RecvFrames
  BY <1>4, RecvTypes
<1> HIDE DEF acc
<1>9. /\ one \in Seq(RecvFrames) /\ Len(one) = n + 1 /\ one[n + 1] = acc
      /\ \A k \in 1..n : one[k] = recvWire[k]
  BY <1>3, <1>4, <1>8, Back
<1> HIDE DEF one
<1>10. \A k \in 1..(n + 1) : one[k] = Receiver!Accept(c + (b + 1) - (n + 1) + k, recvOpen)
  <2> SUFFICES ASSUME NEW k \in 1..(n + 1)
               PROVE  one[k] = Receiver!Accept(c + (b + 1) - (n + 1) + k, recvOpen)
    OBVIOUS
  <2>1. CASE k \in 1..n
    <3>1. c + (b + 1) - (n + 1) + k = c + b - n + k
      BY <1>4, <2>1
    <3> QED BY <1>5, <1>9, <2>1, <3>1
  <2>2. CASE k = n + 1
    <3>1. c + (b + 1) - (n + 1) + k = c + b + 1
      BY <1>4, <2>2
    <3> QED BY <1>9, <2>2, <3>1 DEF acc
  <2> QED BY <1>4, <2>1, <2>2
<1>11. (c + 1)..(c + b - n) = (c + 1)..(c + (b + 1) - (n + 1))
  BY <1>4
<1>12. CASE ~full
  <2>1. recvWire' = one /\ recvTransaction' = recvOpen
    <3>1. Receiver!AcceptAndCommit(full) = <<acc>>
      BY <1>5, <1>7, <1>12 DEF Receiver!AcceptAndCommit, acc
    <3>2. recvWire \o <<acc>> = one
      BY <1>4, <1>8, Joined DEF one
    <3> QED BY <1>1, <1>5, <1>12, <3>1, <3>2
  <2>2. /\ recvBatch' = b + 1 /\ recvCommitted' = c /\ Len(recvWire') = n + 1
        /\ Len(recvReplies') = r - 1 /\ b + 1 < RecvBatchSize /\ n + 1 <= b + 1
        /\ recvOpen' = recvOpen /\ recvCredit' = recvCredit /\ handed' = handed
        /\ recvStaged' = recvStaged /\ consumed' = consumed
    BY <1>1, <1>3, <1>4, <1>5, <1>6, <1>9, <1>12, <2>1
  <2>3. \A k \in 1..(r - 1) : recvReplies'[k] = Receiver!Message(c + (b + 1) + k)
    <3> SUFFICES ASSUME NEW k \in 1..(r - 1)
                 PROVE  recvReplies'[k] = Receiver!Message(c + (b + 1) + k)
      OBVIOUS
    <3>1. k + 1 \in 1..r /\ c + b + (k + 1) = c + (b + 1) + k
      BY <1>4
    <3>2. recvReplies[k + 1] = Receiver!Message(c + b + (k + 1))
      BY <1>5, <3>1
    <3> QED BY <1>6, <3>1, <3>2
  <2>4. (b + 1) + (r - 1) + recvCredit = RecvBatchSize /\ handed = c + (b + 1) + (r - 1)
    BY <1>4, <1>5
  <2>5. Accepts(Len(recvWire))'
    BY <1>5, <1>10, <1>11, <2>1, <2>2 DEF Accepts
  <2>6. RecvFills'
    BY <2>1, <2>2, <2>3, <2>4, <2>5 DEF RecvFills
  <2>7. RecvTypeInv'
    <3>1. recvBatch' \in 0..RecvBatchSize /\ recvWire' \in Seq(RecvFrames)
      BY <1>4, <1>9, <2>1, <2>2
    <3>2. /\ UNCHANGED <<recvCommitted, recvClosed, recvCredit, handed, recvDeclared,
                         recvOpen>>
          /\ recvTransaction' \in Nat
      BY <1>1, <1>4, <2>1
    <3> QED BY <1>6, <3>1, <3>2 DEF RecvInv, RecvTypeInv
  <2> QED BY <1>1, <1>2, <2>6, <2>7 DEF RecvInv, RecvPhase, WholeCount
<1>13. CASE full
  <2>1. recvTransaction' = 0 /\ recvWire' = Append(one, Receiver!Discharge(recvOpen))
    <3>1. Receiver!AcceptAndCommit(full) = <<acc, Receiver!Discharge(recvOpen)>>
      BY <1>5, <1>7, <1>13 DEF Receiver!AcceptAndCommit, acc
    <3>2. recvWire \o <<acc, Receiver!Discharge(recvOpen)>>
            = Append(one, Receiver!Discharge(recvOpen))
      BY <1>4, <1>8, Joined DEF one
    <3> QED BY <1>1, <1>13, <3>1, <3>2
  <2>2. /\ recvWire' \in Seq(RecvFrames) /\ recvWire' /= <<>> /\ Len(recvWire') = n + 2
        /\ \A k \in 1..(n + 1) : recvWire'[k] = one[k]
        /\ recvWire'[n + 2] = Receiver!Discharge(recvOpen)
    <3>1. PICK m : m = Len(one)
      OBVIOUS
    <3>2. /\ recvWire' \in Seq(RecvFrames) /\ recvWire' /= <<>> /\ Len(recvWire') = m + 1
          /\ \A k \in 1..m : recvWire'[k] = one[k]
          /\ recvWire'[m + 1] = Receiver!Discharge(recvOpen)
      BY <1>8, <1>9, <2>1, <3>1, Back
    <3>3. m = n + 1 /\ m + 1 = n + 2
      BY <1>4, <1>9, <3>1
    <3> QED BY <3>2, <3>3
  <2>3. r = 1 /\ recvCredit = 0 /\ handed = c + RecvBatchSize /\ b + 1 = RecvBatchSize
    <3>1. b + 1 = RecvBatchSize
      BY <1>3, <1>13
    <3>2. b + r + recvCredit = RecvBatchSize /\ handed = c + b + r /\ r > 0
      BY <1>5, <1>6
    <3> QED BY <1>4, <3>1, <3>2
  <2>4. recvReplies' = <<>>
    BY <1>6, <2>3
  <2>5. /\ recvBatch' = RecvBatchSize /\ recvBatch' = b + 1 /\ recvCommitted' = c
        /\ recvOpen' = recvOpen /\ recvCredit' = 0 /\ handed' = c + RecvBatchSize
        /\ recvStaged' = recvStaged /\ consumed' = consumed
        /\ Len(recvWire') - 1 = n + 1 /\ n + 1 <= b + 1
    BY <1>1, <1>3, <1>4, <1>5, <2>2, <2>3
  <2>6. Accepts(Len(recvWire) - 1)'
    BY <1>5, <1>10, <1>11, <2>2, <2>5 DEF Accepts
  <2>7. RecvEnds'
    <3>1. recvWire'[Len(recvWire')] = Receiver!Discharge(recvOpen')
      BY <2>2, <2>5
    <3> QED BY <2>1, <2>2, <2>4, <2>5, <2>6, <3>1 DEF RecvEnds, Complete
  <2>8. RecvTypeInv'
    BY <1>1, <1>4, <1>6, <2>1, <2>2, <2>5 DEF RecvInv, RecvTypeInv
  <2> QED BY <1>1, <1>2, <2>7, <2>8 DEF RecvInv, RecvPhase, WholeCount
<1> QED BY <1>12, <1>13

\* on_transaction_committed counts the batch, and ends or asks for a transaction.
LEMMA RecvCommittedStep ==
  ASSUME RecvInv, Receiver!OnTransactionCommitted
  PROVE  RecvInv'
<1>1. /\ recvReplies /= <<>> /\ Head(recvReplies).type = "committed"
      /\ recvReplies' = Tail(recvReplies)
      /\ recvCommitted' = recvCommitted + recvBatch
      /\ recvBatch' = 0 /\ recvClosed' \in BOOLEAN
      /\ recvWire' = IF recvClosed' THEN recvWire ELSE Append(recvWire, Receiver!Declare)
      /\ UNCHANGED <<recvTransaction, recvCredit, handed, recvDeclared, recvOpen,
                     recvStaged, consumed>>
  BY DEF Receiver!OnTransactionCommitted, Receiver!Reply, Receiver!nodeVars
<1>2. RecvSettled
  BY <1>1, RecvNextReply DEF RecvInv, Receiver!Message, Receiver!Declared
<1>3. /\ recvReplies' = <<>>
      /\ recvWire' = IF recvClosed' THEN <<>> ELSE <<Receiver!Declare>>
  BY <1>1, <1>2 DEF RecvSettled
<1>4. /\ recvCommitted \in Nat /\ RecvBatchSize \in Nat
      /\ recvCommitted' = recvCommitted + RecvBatchSize
  BY <1>1, <1>2, TxRecvAssumption DEF RecvSettled, Complete, RecvInv, RecvTypeInv
<1>5. WholeCount'
  <2>1. PICK q \in Nat : recvCommitted = q * RecvBatchSize
    BY DEF RecvInv, WholeCount
  <2>2. recvCommitted' = (q + 1) * RecvBatchSize /\ q + 1 \in Nat
    BY <1>4, <2>1
  <2> QED BY <2>2 DEF WholeCount
<1>6. RecvTypeInv'
  <2>1. recvWire' \in Seq(RecvFrames) /\ recvReplies' \in Seq(RecvAnswers)
    BY <1>3, RecvTypes, One, EmptySeq
  <2>2. recvBatch' \in 0..RecvBatchSize /\ recvCommitted' \in Nat
    BY <1>1, <1>4
  <2> QED BY <1>1, <2>1, <2>2 DEF RecvInv, RecvTypeInv
<1>7. CASE recvClosed'
  <2>1. Still'
    BY <1>1, <1>2, <1>3, <1>4, <1>7 DEF Still, RecvSettled, Complete
  <2> QED BY <1>5, <1>6, <2>1 DEF RecvInv, RecvPhase
<1>8. CASE ~recvClosed'
  <2>1. RecvAsks'
    BY <1>1, <1>2, <1>3, <1>4, <1>8
    DEF RecvAsks, Fresh, RecvSettled, Complete, Receiver!Declare
  <2> QED BY <1>5, <1>6, <1>8, <2>1 DEF RecvInv, RecvPhase
<1> QED BY <1>7, <1>8

\* A broken connection leaves what is forgotten and what is counted.
LEMMA RecvDisconnectedStep ==
  ASSUME RecvInv, Receiver!OnDisconnected
  PROVE  RecvInv'
<1>1. /\ recvBatch' = 0 /\ recvWire' = <<>> /\ recvReplies' = <<>>
      /\ recvCredit' = 0 /\ handed' = 0 /\ recvOpen' = 0 /\ recvStaged' = {}
      /\ UNCHANGED <<recvCommitted, recvTransaction, recvClosed, recvDeclared, consumed>>
  BY DEF Receiver!OnDisconnected
<1>2. \/ consumed = 1..recvCommitted
      \/ consumed = 1..(recvCommitted + RecvBatchSize)
  BY DEF RecvInv, RecvPhase, Still, RecvAsks, RecvBegins, RecvOffers, RecvFills,
         RecvEnds, RecvSettled, Fresh, Accepts
<1>3. Still'
  BY <1>1, <1>2 DEF Still
<1>4. RecvTypeInv'
  BY <1>1, TxRecvAssumption, EmptySeq DEF RecvInv, RecvTypeInv
<1> QED BY <1>1, <1>3, <1>4 DEF RecvInv, RecvPhase, WholeCount

(* The node. *)

LEMMA RecvDeclareStep ==
  ASSUME RecvInv, Receiver!NodeDeclares
  PROVE  RecvInv'
<1>1. /\ recvWire /= <<>> /\ Head(recvWire).type = "declare"
      /\ recvWire' = Tail(recvWire)
      /\ recvDeclared' = recvDeclared + 1 /\ recvOpen' = recvDeclared'
      /\ recvReplies' = Append(recvReplies, Receiver!Declared(recvOpen'))
      /\ UNCHANGED <<recvBatch, recvCommitted, recvTransaction, recvClosed,
                     recvCredit, handed, recvStaged, consumed>>
  BY DEF Receiver!NodeDeclares, Receiver!Frame, Receiver!programVars
<1>2. RecvAsks /\ ~recvClosed
  BY <1>1, RecvNextFrame
  DEF RecvInv, Receiver!Flow, Receiver!Accept, Receiver!Discharge
<1>3. recvWire' = <<>> /\ recvReplies' = <<Receiver!Declared(recvOpen')>>
  BY <1>1, <1>2 DEF RecvAsks
<1>4. recvDeclared' \in Nat /\ recvOpen' \in Nat /\ recvOpen' /= 0
  BY <1>1 DEF RecvInv, RecvTypeInv
<1>5. RecvBegins'
  BY <1>1, <1>2, <1>3, <1>4 DEF RecvAsks, RecvBegins, Fresh, Receiver!Declared
<1>6. RecvTypeInv'
  <2>1. recvReplies' \in Seq(RecvAnswers) /\ recvWire' \in Seq(RecvFrames)
    BY <1>3, <1>4, RecvTypes, One, EmptySeq
  <2> QED BY <1>1, <1>4, <2>1 DEF RecvInv, RecvTypeInv
<1> QED BY <1>1, <1>2, <1>5, <1>6 DEF RecvInv, RecvPhase, WholeCount

LEMMA RecvCreditStep ==
  ASSUME RecvInv, Receiver!NodeGetsCredit
  PROVE  RecvInv'
<1>1. /\ recvWire /= <<>> /\ Head(recvWire).type = "flow"
      /\ recvWire' = Tail(recvWire)
      /\ recvCredit' = recvCredit + Head(recvWire).credit
      /\ UNCHANGED <<recvBatch, recvCommitted, recvTransaction, recvClosed,
                     recvReplies, handed, recvDeclared, recvOpen, recvStaged, consumed>>
  BY DEF Receiver!NodeGetsCredit, Receiver!Frame, Receiver!programVars
<1>2. RecvOffers /\ ~recvClosed
  BY <1>1, RecvNextFrame
  DEF RecvInv, Receiver!Declare, Receiver!Accept, Receiver!Discharge
<1>3. recvWire' = <<>> /\ recvCredit' = RecvBatchSize
  BY <1>1, <1>2, TxRecvAssumption DEF RecvOffers, Fresh, Receiver!Flow
<1>4. /\ recvCommitted \in Nat /\ recvBatch' = 0 /\ RecvBatchSize \in Nat \ {0}
      /\ Len(recvWire') = 0 /\ Len(recvReplies') = 0
  BY <1>1, <1>2, <1>3, TxRecvAssumption, EmptySeq
  DEF RecvInv, RecvTypeInv, RecvOffers, Fresh
<1>5. Accepts(Len(recvWire))'
  BY <1>1, <1>2, <1>4 DEF RecvOffers, Fresh, Accepts
<1>6. RecvFills'
  BY <1>1, <1>2, <1>3, <1>4, <1>5 DEF RecvOffers, Fresh, RecvFills
<1>7. RecvTypeInv'
  BY <1>1, <1>3, <1>4, EmptySeq DEF RecvInv, RecvTypeInv
<1> QED BY <1>1, <1>2, <1>6, <1>7 DEF RecvInv, RecvPhase, WholeCount

\* The node hands out the message that follows.
LEMMA RecvHandOutStep ==
  ASSUME RecvInv, log \in Seq(Nat), Receiver!NodeHandsOut
  PROVE  RecvInv'
<1>1. /\ recvCredit > 0 /\ Receiver!ToHandOut /= {}
      /\ recvCredit' = recvCredit - 1
      /\ handed' = Receiver!Min(Receiver!ToHandOut)
      /\ recvReplies' = Append(recvReplies, Receiver!Message(handed'))
      /\ UNCHANGED <<recvBatch, recvCommitted, recvTransaction, recvClosed, recvWire,
                     recvDeclared, recvOpen, recvStaged, consumed>>
  BY DEF Receiver!NodeHandsOut, Receiver!programVars
<1>2. recvCredit \in Nat /\ handed \in Nat /\ recvReplies \in Seq(RecvAnswers)
  BY DEF RecvInv, RecvTypeInv
<1>3. RecvFills /\ ~recvClosed
  BY <1>1, <1>2 DEF RecvInv, RecvPhase, Still, RecvAsks, RecvBegins, RecvOffers,
                    RecvEnds, RecvSettled, Fresh, Complete
<1>4. PICK n, r, b, c : /\ n = Len(recvWire) /\ r = Len(recvReplies)
                        /\ b = recvBatch /\ c = recvCommitted
  OBVIOUS
<1>5. /\ n \in Nat /\ r \in Nat /\ b \in Nat /\ c \in Nat /\ RecvBatchSize \in Nat
      /\ b + r + recvCredit = RecvBatchSize /\ handed = c + b + r
      /\ \A k \in 1..r : recvReplies[k] = Receiver!Message(c + b + k)
      /\ consumed = 1..c
  BY <1>3, <1>4, TxRecvAssumption DEF RecvInv, RecvTypeInv, RecvFills, Accepts
<1>6. handed' = handed + 1
  <2>1. /\ Receiver!ToHandOut = {m \in DOMAIN log \ consumed : m > handed}
        /\ DOMAIN log = 1..Len(log) /\ Len(log) \in Nat
    BY DEF Receiver!ToHandOut, Receiver!Messages
  <2>2. \A m \in Receiver!ToHandOut : m \in Nat /\ handed + 1 <= m
    BY <1>2, <2>1
  <2>3. handed + 1 \in Receiver!ToHandOut
    <3>1. PICK m \in Receiver!ToHandOut : m \in 1..Len(log) /\ handed + 1 <= m
      BY <1>1, <2>1, <2>2
    <3>2. handed + 1 \in 1..Len(log) /\ handed + 1 > handed
      BY <1>2, <2>1, <3>1
    <3>3. handed + 1 \notin 1..c
      BY <1>5
    <3> QED BY <1>5, <2>1, <3>2, <3>3
  <2> DEFINE T == Receiver!ToHandOut
  <2>4. handed' \in T /\ \A m \in T : handed' <= m
    <3>1. \E x \in T : \A y \in T : x <= y
      BY <2>2, <2>3
    <3> QED BY <1>1, <3>1 DEF Receiver!Min
  <2>5. handed' <= handed + 1 /\ handed + 1 <= handed' /\ handed' \in Nat
    BY <2>2, <2>3, <2>4
  <2> QED BY <1>2, <2>5
<1>7. /\ recvReplies' \in Seq(RecvAnswers) /\ Len(recvReplies') = r + 1
      /\ \A k \in 1..r : recvReplies'[k] = recvReplies[k]
      /\ recvReplies'[r + 1] = Receiver!Message(handed')
  <2>1. Receiver!Message(handed') \in RecvAnswers
    BY <1>2, <1>6, RecvTypes
  <2>2. PICK s, e : s = recvReplies /\ e = Receiver!Message(handed')
    OBVIOUS
  <2>3. s \in Seq(RecvAnswers) /\ e \in RecvAnswers /\ recvReplies' = Append(s, e)
    BY <1>1, <1>2, <2>1, <2>2
  <2>4. /\ Append(s, e) \in Seq(RecvAnswers) /\ Len(Append(s, e)) = Len(s) + 1
        /\ \A k \in 1..Len(s) : Append(s, e)[k] = s[k]
        /\ Append(s, e)[Len(s) + 1] = e
    BY <2>3, Back
  <2> QED BY <1>4, <2>2, <2>3, <2>4
<1>8. handed' = c + b + (r + 1) /\ b + (r + 1) + recvCredit' = RecvBatchSize
  BY <1>1, <1>2, <1>5, <1>6
<1>9. \A k \in 1..(r + 1) : recvReplies'[k] = Receiver!Message(c + b + k)
  <2>1. \A k \in 1..(r + 1) : k \in 1..r \/ k = r + 1
    BY <1>5
  <2> QED BY <1>5, <1>7, <1>8, <2>1
<1>10. Accepts(Len(recvWire))'
  BY <1>1, <1>3 DEF RecvFills, Accepts
<1>11. RecvFills'
  <2>1. recvBatch' = b /\ recvCommitted' = c /\ Len(recvReplies') = r + 1
    BY <1>1, <1>4, <1>7
  <2> QED BY <1>1, <1>3, <1>8, <1>9, <1>10, <2>1 DEF RecvFills
<1>12. RecvTypeInv'
  <2>1. recvCredit' \in Nat /\ handed' \in Nat
    BY <1>1, <1>2, <1>6
  <2> QED BY <1>1, <1>7, <2>1 DEF RecvInv, RecvTypeInv
<1> QED BY <1>1, <1>3, <1>11, <1>12 DEF RecvInv, RecvPhase, WholeCount

\* The message accepted next joins those staged.
LEMMA AcceptsNext ==
  ASSUME RecvTypeInv, NEW n \in Nat, n > 0, n <= Len(recvWire), Accepts(n),
         Head(recvWire) = Receiver!Accept(recvCommitted + recvBatch - n + 1, recvOpen),
         Receiver!NodeStages
  PROVE  /\ Accepts(n - 1)'
         /\ UNCHANGED <<recvBatch, recvCommitted, recvTransaction, recvClosed,
                        recvReplies, recvCredit, handed, recvDeclared, recvOpen, consumed>>
         /\ recvWire' \in Seq(RecvFrames) /\ Len(recvWire') = Len(recvWire) - 1
         /\ \A k \in 1..Len(recvWire) - 1 : recvWire'[k] = recvWire[k + 1]
         /\ Len(recvWire) = 1 => recvWire' = <<>>
         /\ Len(recvWire) > 1 => recvWire' /= <<>>
<1>1. /\ recvWire /= <<>> /\ recvWire' = Tail(recvWire)
      /\ recvStaged' = IF Head(recvWire).tx = recvOpen
                       THEN recvStaged \union {Head(recvWire).id} ELSE recvStaged
      /\ UNCHANGED <<recvBatch, recvCommitted, recvTransaction, recvClosed,
                     recvReplies, recvCredit, handed, recvDeclared, recvOpen, consumed>>
  BY DEF Receiver!NodeStages, Receiver!Frame, Receiver!programVars
<1>2. PICK w : w = Len(recvWire)
  OBVIOUS
<1>3. /\ w \in Nat \ {0} /\ recvWire' \in Seq(RecvFrames) /\ Len(recvWire') = w - 1
      /\ \A k \in 1..(w - 1) : recvWire'[k] = recvWire[k + 1]
      /\ w = 1 => recvWire' = <<>>
      /\ w > 1 => recvWire' /= <<>>
  <2>1. recvWire \in Seq(RecvFrames)
    BY DEF RecvTypeInv
  <2>2. /\ Len(recvWire) \in Nat \ {0} /\ Tail(recvWire) \in Seq(RecvFrames)
        /\ Len(Tail(recvWire)) = Len(recvWire) - 1
        /\ \A k \in 1..Len(recvWire) - 1 : Tail(recvWire)[k] = recvWire[k + 1]
        /\ \/ Len(recvWire) = 1 /\ Tail(recvWire) = <<>>
           \/ Len(recvWire) > 1 /\ Tail(recvWire) /= <<>>
    BY <1>1, <2>1, Front
  <2> QED BY <1>1, <1>2, <2>2
<1>4. PICK b, c : b = recvBatch /\ c = recvCommitted
  OBVIOUS
<1>5. b \in Nat /\ c \in Nat /\ n <= b
  BY <1>4, TxRecvAssumption DEF RecvTypeInv, Accepts
<1>6. recvStaged' = recvStaged \union {c + b - n + 1}
  BY <1>1, <1>4 DEF Receiver!Accept
<1>7. recvStaged' = (c + 1)..(c + b - (n - 1))
  <2>1. recvStaged = (c + 1)..(c + b - n)
    BY <1>4 DEF Accepts
  <2> QED BY <1>5, <1>6, <2>1
<1>8. \A k \in 1..(n - 1) :
        recvWire'[k] = Receiver!Accept(c + b - (n - 1) + k, recvOpen)
  <2> SUFFICES ASSUME NEW k \in 1..(n - 1)
               PROVE  recvWire'[k] = Receiver!Accept(c + b - (n - 1) + k, recvOpen)
    OBVIOUS
  <2>1. k + 1 \in 1..n /\ k \in 1..(w - 1) /\ c + b - n + (k + 1) = c + b - (n - 1) + k
    BY <1>2, <1>3, <1>5
  <2>2. recvWire[k + 1] = Receiver!Accept(c + b - n + (k + 1), recvOpen)
    BY <1>4, <2>1 DEF Accepts
  <2> QED BY <1>3, <2>1, <2>2
<1>9. Accepts(n - 1)'
  <2>1. n - 1 <= b
    BY <1>5
  <2>2. recvBatch' = b /\ recvCommitted' = c /\ recvOpen' = recvOpen /\ consumed' = consumed
    BY <1>1, <1>4
  <2> QED BY <1>4, <1>7, <1>8, <2>1, <2>2 DEF Accepts
<1> QED BY <1>1, <1>2, <1>3, <1>9

LEMMA RecvStageStep ==
  ASSUME RecvInv, Receiver!NodeStages
  PROVE  RecvInv'
<1>1. RecvTypeInv /\ recvWire /= <<>> /\ Head(recvWire).type = "accept"
  BY DEF RecvInv, Receiver!NodeStages, Receiver!Frame
<1>2. PICK w : w = Len(recvWire)
  OBVIOUS
<1>3. w \in Nat \ {0}
  <2>1. recvWire \in Seq(RecvFrames)
    BY <1>1 DEF RecvTypeInv
  <2> QED BY <1>1, <1>2, <2>1, Front
<1>4. /\ ~recvClosed
      /\ \/ /\ RecvFills
            /\ Head(recvWire) =
                 Receiver!Accept(recvCommitted + recvBatch - w + 1, recvOpen)
         \/ /\ RecvEnds /\ w > 1
            /\ Head(recvWire) =
                 Receiver!Accept(recvCommitted + recvBatch - (w - 1) + 1, recvOpen)
  BY <1>1, <1>2, RecvNextFrame
  DEF RecvInv, Receiver!Declare, Receiver!Flow, Receiver!Discharge
<1>5. CASE /\ RecvFills
           /\ Head(recvWire) =
                Receiver!Accept(recvCommitted + recvBatch - w + 1, recvOpen)
  <2>1. w <= Len(recvWire) /\ w > 0 /\ Accepts(w)
    BY <1>2, <1>3, <1>5 DEF RecvFills
  <2>2. /\ Accepts(w - 1)'
        /\ UNCHANGED <<recvBatch, recvCommitted, recvTransaction, recvClosed,
                       recvReplies, recvCredit, handed, recvDeclared, recvOpen, consumed>>
        /\ recvWire' \in Seq(RecvFrames) /\ Len(recvWire') = w - 1
    BY <1>1, <1>2, <1>3, <1>5, <2>1, AcceptsNext
  <2>3. RecvFills'
    BY <1>5, <2>2 DEF RecvFills
  <2>4. RecvTypeInv'
    BY <1>1, <2>2 DEF RecvTypeInv
  <2> QED BY <1>4, <2>2, <2>3, <2>4 DEF RecvInv, RecvPhase, WholeCount
<1>6. CASE /\ RecvEnds /\ w > 1
           /\ Head(recvWire) =
                Receiver!Accept(recvCommitted + recvBatch - (w - 1) + 1, recvOpen)
  <2>1. w - 1 \in Nat /\ w - 1 <= Len(recvWire) /\ w - 1 > 0 /\ Accepts(w - 1)
    BY <1>2, <1>3, <1>6 DEF RecvEnds
  <2>2. /\ Accepts((w - 1) - 1)'
        /\ UNCHANGED <<recvBatch, recvCommitted, recvTransaction, recvClosed,
                       recvReplies, recvCredit, handed, recvDeclared, recvOpen, consumed>>
        /\ recvWire' \in Seq(RecvFrames) /\ Len(recvWire') = w - 1 /\ recvWire' /= <<>>
        /\ \A k \in 1..(w - 1) : recvWire'[k] = recvWire[k + 1]
    BY <1>1, <1>2, <1>6, <2>1, AcceptsNext
  <2>3. RecvEnds'
    <3>1. recvWire[w] = Receiver!Discharge(recvOpen)
      BY <1>2, <1>6 DEF RecvEnds
    <3>2. w - 1 \in 1..(w - 1) /\ (w - 1) + 1 = w
      BY <1>3, <1>6
    <3>3. recvWire'[Len(recvWire')] = Receiver!Discharge(recvOpen')
      BY <2>2, <3>1, <3>2
    <3> QED BY <1>6, <2>2, <3>3 DEF RecvEnds, Complete
  <2>4. RecvTypeInv'
    BY <1>1, <2>2 DEF RecvTypeInv
  <2> QED BY <1>4, <2>2, <2>3, <2>4 DEF RecvInv, RecvPhase, WholeCount
<1> QED BY <1>4, <1>5, <1>6

\* The node forgets a whole batch.
LEMMA RecvCommitStep ==
  ASSUME RecvInv, Receiver!NodeCommits
  PROVE  RecvInv'
<1>1. /\ recvWire /= <<>> /\ Head(recvWire).type = "discharge"
      /\ recvWire' = Tail(recvWire)
      /\ UNCHANGED <<recvBatch, recvCommitted, recvTransaction, recvClosed,
                     recvCredit, handed, recvDeclared>>
  BY DEF Receiver!NodeCommits, Receiver!Frame, Receiver!programVars
<1>2. /\ RecvEnds /\ ~recvClosed /\ Len(recvWire) = 1
      /\ Head(recvWire) = Receiver!Discharge(recvOpen)
  BY <1>1, RecvNextFrame DEF RecvInv, Receiver!Declare, Receiver!Flow, Receiver!Accept
<1>3. /\ consumed' = consumed \union recvStaged /\ recvStaged' = {} /\ recvOpen' = 0
      /\ recvReplies' = Append(recvReplies, Receiver!Committed)
  BY <1>2 DEF Receiver!NodeCommits, Receiver!Discharge
<1>4. recvWire' = <<>> /\ recvReplies' = <<Receiver!Committed>>
  <2>1. recvWire \in Seq(RecvFrames)
    BY DEF RecvInv, RecvTypeInv
  <2>2. Tail(recvWire) = <<>>
    BY <1>1, <1>2, <2>1, Front
  <2> QED BY <1>1, <1>2, <1>3, <2>2 DEF RecvEnds
<1>5. consumed' = 1..(recvCommitted + RecvBatchSize)
  <2>1. recvCommitted \in Nat /\ RecvBatchSize \in Nat
    BY TxRecvAssumption DEF RecvInv, RecvTypeInv
  <2>2. /\ consumed = 1..recvCommitted
        /\ recvStaged = (recvCommitted + 1)..(recvCommitted + RecvBatchSize)
    BY <1>2, <2>1 DEF RecvEnds, Accepts, Complete
  <2> QED BY <1>3, <2>1, <2>2
<1>6. RecvSettled'
  BY <1>1, <1>2, <1>3, <1>4, <1>5
  DEF RecvEnds, RecvSettled, Complete, Receiver!Committed
<1>7. RecvTypeInv'
  <2>1. recvWire' \in Seq(RecvFrames) /\ recvReplies' \in Seq(RecvAnswers)
    BY <1>4, RecvTypes, One, EmptySeq
  <2> QED BY <1>1, <1>3, <2>1 DEF RecvInv, RecvTypeInv
<1> QED BY <1>1, <1>2, <1>6, <1>7 DEF RecvInv, RecvPhase, WholeCount

(* Both programs. *)

LEMMA RecvInit ==
  ASSUME Receiver!Init
  PROVE  RecvInv
<1>1. /\ recvBatch = 0 /\ recvCommitted = 0 /\ recvTransaction = 0 /\ recvCredit = 0
      /\ handed = 0 /\ recvDeclared = 0 /\ recvOpen = 0 /\ recvClosed = FALSE
      /\ recvWire = <<Receiver!Declare>> /\ recvReplies = <<>>
      /\ recvStaged = {} /\ consumed = {}
  BY DEF Receiver!Init
<1>2. RecvTypeInv
  <2>1. recvWire \in Seq(RecvFrames) /\ recvReplies \in Seq(RecvAnswers)
    BY <1>1, RecvTypes, One, EmptySeq
  <2>2. /\ recvBatch \in 0..RecvBatchSize /\ recvCommitted \in Nat
        /\ recvTransaction \in Nat /\ recvCredit \in Nat /\ handed \in Nat
        /\ recvDeclared \in Nat /\ recvOpen \in Nat
    BY <1>1, TxRecvAssumption
  <2>3. recvClosed \in BOOLEAN
    BY <1>1
  <2> QED BY <2>1, <2>2, <2>3 DEF RecvTypeInv
<1>3. WholeCount
  <2>1. 0 = 0 * RecvBatchSize
    BY TxRecvAssumption
  <2> QED BY <1>1, <2>1 DEF WholeCount
<1>4. RecvAsks
  <2>1. {} = 1..0
    OBVIOUS
  <2> QED BY <1>1, <2>1 DEF RecvAsks, Fresh
<1> QED BY <1>1, <1>2, <1>3, <1>4 DEF RecvInv, RecvPhase

\* The steps of the receiver and of its node.
LEMMA RecvStep ==
  ASSUME RecvInv, log \in Seq(Nat), Receiver!Next
  PROVE  RecvInv'
BY RecvDeclaredStep, RecvMessageStep, RecvCommittedStep, RecvDisconnectedStep,
   RecvDeclareStep, RecvCreditStep, RecvHandOutStep, RecvStageStep, RecvCommitStep
DEF Receiver!Next, Receiver!Handlers, Receiver!Node

\* Both programs keep their invariants, whatever the other one does.
LEMMA ExchangeInvariant == Spec => [](TxInv /\ RecvInv)
<1>1. ExchangeInit => TxInv /\ RecvInv
  BY TxInit, RecvInit DEF ExchangeInit
<1>2. TxInv /\ RecvInv /\ [ExchangeNext]_exchangeVars => (TxInv /\ RecvInv)'
  <2> SUFFICES ASSUME TxInv, RecvInv, [ExchangeNext]_exchangeVars
               PROVE  TxInv' /\ RecvInv'
    OBVIOUS
  <2>1. ASSUME UNCHANGED receiverState
        PROVE  RecvInv'
    BY <2>1
    DEF receiverState, RecvInv, RecvTypeInv, WholeCount, RecvPhase, Still, RecvAsks,
        RecvBegins, RecvOffers, RecvFills, RecvEnds, RecvSettled, Fresh, Accepts, Complete
  <2>2. CASE SendStep
    BY <2>1, <2>2, TxStep DEF SendStep
  <2>3. CASE ReceiveStep
    <3>1. log \in Seq(Nat)
      BY DEF TxInv, TypeInv
    <3>2. UNCHANGED vars /\ Receiver!Next
      BY <2>3 DEF ReceiveStep
    <3> QED BY <3>1, <3>2, TxStep, RecvStep
  <2>4. CASE UNCHANGED exchangeVars
    BY <2>1, <2>4, TxStep DEF exchangeVars
  <2> QED BY <2>2, <2>3, <2>4 DEF ExchangeNext
<1> QED BY <1>1, <1>2, PTL DEF Spec

\* However often connections break, tx_recv.py handles a message only while it has
\* a transaction: on_message never calls accept on None (AlwaysInTransaction).
THEOREM AlwaysInTransactionHolds == Spec => []AlwaysInTransaction
<1>1. RecvInv => AlwaysInTransaction
  <2> SUFFICES ASSUME RecvInv, recvReplies /= <<>>, Head(recvReplies).type = "message"
               PROVE  recvTransaction /= 0
    BY DEF AlwaysInTransaction, Receiver!AlwaysInTransaction
  <2>1. RecvFills
    BY RecvNextReply DEF RecvInv, Receiver!Declared, Receiver!Committed
  <2> QED BY <2>1 DEF RecvFills, Accepts
<1> QED BY <1>1, ExchangeInvariant, PTL

\* Whatever the batch sizes, tx_recv.py takes whole batches from the node, in the
\* order of the log, and counts them, but for one batch at most, however often its
\* connection or that of the sender breaks (TakesWholeBatches).
THEOREM TakesWholeBatchesHolds == Spec => []TakesWholeBatches
<1>1. RecvInv => TakesWholeBatches
  <2> SUFFICES ASSUME RecvInv PROVE TakesWholeBatches
    OBVIOUS
  <2>1. recvCommitted \in Nat /\ RecvBatchSize \in Nat \ {0}
    BY TxRecvAssumption DEF RecvInv, RecvTypeInv
  <2>2. PICK n \in {recvCommitted, recvCommitted + RecvBatchSize} : consumed = 1..n
    BY DEF RecvInv, RecvPhase, Still, RecvAsks, RecvBegins, RecvOffers, RecvFills,
           RecvEnds, RecvSettled, Fresh, Accepts
  <2>3. n \in Nat /\ recvCommitted <= n /\ n <= recvCommitted + RecvBatchSize
    BY <2>1, <2>2
  <2>4. Cardinality(consumed) = n
    BY <2>2, <2>3, FS_Interval
  <2>5. Receiver!Cardinality(consumed) = n
    <3>1. Receiver!Cardinality(consumed) = Cardinality(consumed)
      BY Zenon DEF Cardinality, Receiver!Cardinality
    <3> QED BY <2>4, <3>1
  <2>6. n % RecvBatchSize = 0
    <3>1. PICK q \in Nat : recvCommitted = q * RecvBatchSize
      BY DEF RecvInv, WholeCount
    <3>2. PICK p \in {q, q + 1} : n = p * RecvBatchSize
      BY <2>1, <2>2, <3>1
    <3>3. p \in Nat
      BY <3>2
    <3>4. (p * RecvBatchSize) % RecvBatchSize = 0
      BY <2>1, <3>3
    <3> QED BY <3>2, <3>4
  <2> QED BY <2>2, <2>3, <2>5, <2>6
      DEF TakesWholeBatches, Receiver!TakesWholeBatches
<1> QED BY <1>1, ExchangeInvariant, PTL
=============================================================================
