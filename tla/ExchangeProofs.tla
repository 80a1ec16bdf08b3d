--------------------------- MODULE ExchangeProofs ---------------------------
(***************************************************************************)
(* The sender implements AtLeastOnce for every length of the sequence,     *)
(* every credit and any number of broken connections; and what             *)
(* simple_recv.py prints when simple_send.py sends: nothing of the         *)
(* sequence is missed and at most one message is printed twice.            *)
(***************************************************************************)
EXTENDS Exchange, SequenceTheorems, TLAPS

\* Message i is in s.
Has(s, i) == \E k \in DOMAIN s : s[k] = i

\* Everything confirmed, or whose acceptance travels back, is at the node.
AcceptedAtNode == \A i \in 1..confirmed + acks : Has(log, i)

\* What a connection carries is a run of consecutive messages, and the node has
\* the predecessor of the first.
Consecutive ==
  \A n \in Attempts :
    /\ \A k \in DOMAIN wire[n] : wire[n][k] = wire[n][1] + (k - 1)
    /\ wire[n] /= <<>> => wire[n][1] = 1 \/ Has(log, wire[n][1] - 1)

\* Between two connections the sender stands at what is confirmed.
Between == /\ ~up => acks = 0 /\ sent = confirmed /\ attempt < MaxAttempts
           /\ closed => up /\ confirmed = Total
           /\ \A n \in Attempts : n > attempt => wire[n] = <<>>

SendInv == /\ SendTypeOK
           /\ Window
           /\ AcceptedAtNode
           /\ Consecutive
           /\ Between

-----------------------------------------------------------------------------
\* What the node has is kept when it accepts one more message.
LEMMA HasAppend ==
  ASSUME NEW S, NEW s \in Seq(S), NEW x \in S
  PROVE  /\ \A i : Has(s, i) => Has(Append(s, x), i)
         /\ Has(Append(s, x), x)
<1> DEFINE t == Append(s, x)
<1>1. /\ Len(t) = Len(s) + 1 /\ t \in Seq(S)
      /\ \A k \in 1..Len(s) : t[k] = s[k]
      /\ t[Len(s) + 1] = x
  BY AppendProperties
<1>2. /\ DOMAIN s = 1..Len(s) /\ Len(s) \in Nat
      /\ DOMAIN t = 1..Len(s) + 1
  BY <1>1, LenProperties
<1> HIDE DEF t
<1>3. ASSUME NEW i, Has(s, i) PROVE Has(t, i)
  BY <1>1, <1>2, <1>3 DEF Has
<1>4. Has(t, x)
  BY <1>1, <1>2 DEF Has
<1> QED BY <1>3, <1>4 DEF t

\* The initial state satisfies the invariant.
LEMMA SendInvInit == SendInit => SendInv
<1> SUFFICES ASSUME SendInit PROVE SendInv
  OBVIOUS
<1> USE SendAssumption DEF SendInit, Attempts, Ids
<1>1. SendTypeOK
  <2>1. <<>> \in Seq(Ids)
    BY EmptySeq
  <2>2. 0 \in 0..Total /\ 1 \in 1..MaxAttempts
    OBVIOUS
  <2>3. wire \in [Attempts -> Seq(Ids)]
    BY <2>1
  <2> QED BY <2>1, <2>2, <2>3 DEF SendTypeOK
<1>2. Window /\ AcceptedAtNode /\ Consecutive /\ Between
  BY DEF Window, AcceptedAtNode, Consecutive, Between
<1> QED BY <1>1, <1>2 DEF SendInv

\* on_sendable extends the window and the run of consecutive messages.
LEMMA SendInvSendable == SendInv /\ OnSendable => SendInv'
<1> SUFFICES ASSUME SendInv, OnSendable PROVE SendInv'
  OBVIOUS
<1> USE SendAssumption
<1>0. SendTypeOK /\ Window /\ AcceptedAtNode /\ Consecutive /\ Between
  BY DEF SendInv
<1>1. PICK c \in 1..MaxCredit :
        /\ wire' = [wire EXCEPT ![attempt] =
                      @ \o [k \in 1..Batch(c) |-> sent + k]]
        /\ sent' = sent + Batch(c)
  BY DEF OnSendable
<1> DEFINE w == wire[attempt]
           b == [k \in 1..Batch(c) |-> sent + k]
<1>2. /\ up /\ ~closed /\ sent < Total
      /\ UNCHANGED <<confirmed, up, attempt, closed, acks, log>>
  BY DEF OnSendable, Connected
<1>3. /\ Batch(c) \in Nat /\ Batch(c) <= Total - sent
      /\ sent \in Nat /\ sent' \in 0..Total
  BY <1>0, <1>1 DEF SendTypeOK, Batch
<1>4. b \in Seq(Ids) /\ Len(b) = Batch(c)
  BY <1>3 DEF Ids
<1>5. w \in Seq(Ids) /\ attempt \in Attempts /\ wire \in [Attempts -> Seq(Ids)]
  BY <1>0 DEF SendTypeOK
<1>6. /\ wire' \in [Attempts -> Seq(Ids)]
      /\ wire'[attempt] = w \o b
      /\ \A n \in Attempts : n /= attempt => wire'[n] = wire[n]
  BY <1>1, <1>4, <1>5, ConcatProperties
<1>7. /\ Len(w \o b) = Len(w) + Batch(c)
      /\ Len(w) \in Nat
      /\ \A k \in 1..Len(w) + Batch(c) :
           (w \o b)[k] = IF k <= Len(w) THEN w[k] ELSE sent + (k - Len(w))
      /\ DOMAIN (w \o b) = 1..Len(w) + Batch(c) /\ DOMAIN w = 1..Len(w)
      /\ w \o b \in Seq(Ids)
  <2>1. /\ Len(w \o b) = Len(w) + Len(b)
        /\ \A k \in 1..Len(w) + Len(b) :
             (w \o b)[k] = IF k <= Len(w) THEN w[k] ELSE b[k - Len(w)]
        /\ w \o b \in Seq(Ids) /\ Len(w) \in Nat
    BY <1>4, <1>5, ConcatProperties, LenProperties
  <2> HIDE DEF w
  <2>2. \A k \in 1..Len(w) + Batch(c) : ~(k <= Len(w)) =>
           b[k - Len(w)] = sent + (k - Len(w))
    BY <2>1, <1>3
  <2> QED BY <2>1, <2>2, <1>4, <1>5, LenProperties
<1>8. sent = confirmed + acks + Len(w) /\ confirmed \in Nat /\ acks \in Nat
  BY <1>0, <1>2 DEF Window, SendTypeOK
<1>run. \A k \in 1..Len(w) + Batch(c) : (w \o b)[k] = confirmed + acks + k
  <2> SUFFICES ASSUME NEW k \in 1..Len(w) + Batch(c)
               PROVE  (w \o b)[k] = confirmed + acks + k
    OBVIOUS
  <2>1. CASE k <= Len(w)
    <3>1. (w \o b)[k] = w[k] /\ k \in DOMAIN w
      BY <2>1, <1>3, <1>7
    <3> QED BY <3>1, <1>0, <1>2 DEF Window
  <2>2. CASE ~(k <= Len(w))
    <3>1. (w \o b)[k] = sent + (k - Len(w))
      BY <2>2, <1>7
    <3> HIDE DEF w, b
    <3> QED BY <3>1, <1>3, <1>7, <1>8
  <2> QED BY <2>1, <2>2
<1> HIDE DEF w, b
<1>9. SendTypeOK'
  BY <1>0, <1>2, <1>3, <1>6 DEF SendTypeOK
<1>10. Window'
  <2>1. /\ wire'[attempt'] = w \o b /\ confirmed' = confirmed /\ acks' = acks
        /\ DOMAIN (w \o b) = 1..Len(w) + Batch(c)
    BY <1>2, <1>6, <1>7
  <2>2. sent' = confirmed + acks + Len(w \o b)
    <3>1. Len(w \o b) = Len(w) + Batch(c)
      BY <1>7
    <3>2. sent' = sent + Batch(c)
      BY <1>1
    <3> QED BY <3>1, <3>2, <1>3, <1>7, <1>8
  <2>3. \A k \in DOMAIN wire'[attempt'] :
          wire'[attempt'][k] = confirmed' + acks' + k
    BY <2>1, <1>run
  <2> QED BY <2>1, <2>2, <2>3 DEF Window
<1>11. AcceptedAtNode'
  BY <1>0, <1>2 DEF AcceptedAtNode, Has
<1>12. Consecutive'
  <2>1. ASSUME NEW n \in Attempts, n /= attempt
        PROVE  /\ \A k \in DOMAIN wire'[n] : wire'[n][k] = wire'[n][1] + (k - 1)
               /\ wire'[n] /= <<>> => wire'[n][1] = 1 \/ Has(log, wire'[n][1] - 1)
    BY <2>1, <1>0, <1>6 DEF Consecutive
  <2>3. ASSUME NEW k \in DOMAIN (w \o b)
        PROVE  (w \o b)[k] = (w \o b)[1] + (k - 1)
    <3>1. k \in 1..Len(w) + Batch(c) /\ 1 \in 1..Len(w) + Batch(c)
      BY <1>3, <1>7
    <3>2. (w \o b)[k] = confirmed + acks + k /\ (w \o b)[1] = confirmed + acks + 1
      BY <3>1, <1>run
    <3> QED BY <3>1, <3>2, <1>8
  <2>4. w \o b /= <<>> => (w \o b)[1] = confirmed + acks + 1
    <3>1. w \o b /= <<>> => Len(w \o b) \in Nat \ {0}
      BY <1>7, EmptySeq
    <3> QED BY <3>1, <1>run, <1>7
  <2>5. confirmed + acks = 0 \/ Has(log, confirmed + acks)
    BY <1>0, <1>8 DEF AcceptedAtNode
  <2>6. w \o b /= <<>> => (w \o b)[1] = 1 \/ Has(log, (w \o b)[1] - 1)
    <3>1. CASE w \o b = <<>>
      BY <3>1
    <3>2. CASE w \o b /= <<>>
      <4>1. (w \o b)[1] = confirmed + acks + 1
        BY <3>2, <2>4
      <4>2. (w \o b)[1] - 1 = confirmed + acks
        BY <4>1, <1>8
      <4> QED BY <4>1, <4>2, <2>5
    <3> QED BY <3>1, <3>2
  <2> QED BY <2>1, <2>3, <2>6, <1>2, <1>6 DEF Consecutive, Has
<1>13. Between'
  BY <1>0, <1>2, <1>5, <1>6 DEF Between, SendTypeOK, Attempts
<1> QED BY <1>9, <1>10, <1>11, <1>12, <1>13 DEF SendInv

\* on_accepted moves the front of the window from acks to confirmed.
LEMMA SendInvAccepted == SendInv /\ OnAccepted => SendInv'
<1> SUFFICES ASSUME SendInv, OnAccepted PROVE SendInv'
  OBVIOUS
<1> USE SendAssumption
<1>0. SendTypeOK /\ Window /\ AcceptedAtNode /\ Consecutive /\ Between
  BY DEF SendInv
<1>1. up /\ ~closed /\ UNCHANGED <<sent, up, attempt, wire, log>>
  BY DEF OnAccepted, Connected
<1>a. acks > 0 /\ acks' = acks - 1 /\ confirmed' = confirmed + 1
  BY DEF OnAccepted
<1>c. closed' = (confirmed' = Total)
  BY DEF OnAccepted
<1> DEFINE w == wire[attempt]
<1>2. /\ sent \in 0..Total /\ confirmed \in Nat /\ acks \in Nat
      /\ Len(w) \in Nat
      /\ sent = confirmed + acks + Len(w)
  <2>1. wire[attempt] \in Seq(Ids)
    BY <1>0 DEF SendTypeOK
  <2> QED BY <2>1, <1>0, <1>1, LenProperties DEF SendTypeOK, Window
<1> HIDE DEF w
<1>3. confirmed' + acks' = confirmed + acks /\ confirmed' \in 0..Total
  <2>1. confirmed + 1 <= sent
    BY <1>a, <1>2
  <2> QED BY <2>1, <1>a, <1>2
<1>4. SendTypeOK'
  <2>1. closed' \in BOOLEAN
    BY <1>c
  <2>2. acks' \in 0..Total
    BY <1>a, <1>2
  <2> QED BY <2>1, <2>2, <1>0, <1>1, <1>3 DEF SendTypeOK
<1>5. Window'
  BY <1>0, <1>1, <1>3 DEF Window
<1>6. AcceptedAtNode' /\ Consecutive'
  BY <1>0, <1>1, <1>3 DEF AcceptedAtNode, Consecutive, Has
<1>7. Between'
  <2>1. closed' => confirmed' = Total
    BY <1>c
  <2> QED BY <2>1, <1>0, <1>1 DEF Between
<1> QED BY <1>4, <1>5, <1>6, <1>7 DEF SendInv

\* on_disconnected forgets the window.
LEMMA SendInvDisconnected == SendInv /\ OnDisconnected => SendInv'
<1> SUFFICES ASSUME SendInv, OnDisconnected PROVE SendInv'
  OBVIOUS
<1> USE SendAssumption
<1>0. SendTypeOK /\ Window /\ AcceptedAtNode /\ Consecutive /\ Between
  BY DEF SendInv
<1>1. /\ ~closed /\ attempt < MaxAttempts
      /\ sent' = confirmed /\ ~up' /\ up' \in BOOLEAN /\ acks' = 0
      /\ UNCHANGED <<confirmed, attempt, closed, wire, log>>
  BY DEF OnDisconnected, Connected
<1>2. SendTypeOK'
  <2>1. 0 \in 0..Total
    OBVIOUS
  <2> QED BY <2>1, <1>0, <1>1 DEF SendTypeOK
<1>w. Window'
  BY <1>1 DEF Window
<1>3. AcceptedAtNode'
  BY <1>0, <1>1 DEF AcceptedAtNode, Has, SendTypeOK
<1>4. Consecutive' /\ Between'
  BY <1>0, <1>1 DEF Consecutive, Has, Between
<1> QED BY <1>2, <1>w, <1>3, <1>4 DEF SendInv

\* A new connection starts with an empty window.
LEMMA SendInvReconnect == SendInv /\ Reconnect => SendInv'
<1> SUFFICES ASSUME SendInv, Reconnect PROVE SendInv'
  OBVIOUS
<1> USE SendAssumption
<1>0. SendTypeOK /\ Window /\ AcceptedAtNode /\ Consecutive /\ Between
  BY DEF SendInv
<1>1. /\ ~up /\ up' = TRUE /\ attempt' = attempt + 1
      /\ UNCHANGED <<sent, confirmed, closed, wire, acks, log>>
  BY DEF Reconnect
<1>2. /\ acks = 0 /\ sent = confirmed /\ attempt < MaxAttempts /\ ~closed
      /\ attempt \in Attempts /\ attempt + 1 \in Attempts
      /\ confirmed \in Nat
  BY <1>0, <1>1 DEF Between, SendTypeOK, Attempts
<1>3. wire'[attempt'] = <<>>
  BY <1>0, <1>1, <1>2 DEF Between, Attempts
<1>4. SendTypeOK'
  BY <1>0, <1>1, <1>2 DEF SendTypeOK
<1>5. Window'
  BY <1>1, <1>2, <1>3, EmptySeq DEF Window
<1>6. AcceptedAtNode' /\ Consecutive'
  BY <1>0, <1>1 DEF AcceptedAtNode, Consecutive, Has
<1>7. Between'
  BY <1>0, <1>1, <1>2 DEF Between, Attempts
<1> QED BY <1>4, <1>5, <1>6, <1>7 DEF SendInv

\* The node reads a message of any connection, the present one or an old one.
LEMMA SendInvNodeAccepts ==
  ASSUME SendInv, NEW n \in Attempts, NodeAccepts(n)
  PROVE  SendInv'
<1> USE SendAssumption
<1>0. SendTypeOK /\ Window /\ AcceptedAtNode /\ Consecutive /\ Between
  BY DEF SendInv
<1> DEFINE w == wire[n]
<1>1. /\ w /= <<>>
      /\ wire' = [wire EXCEPT ![n] = Tail(w)]
      /\ log' = Append(log, Head(w))
      /\ acks' = IF up /\ n = attempt THEN acks + 1 ELSE acks
      /\ UNCHANGED <<sent, confirmed, up, attempt, closed>>
  BY DEF NodeAccepts
<1>2. /\ w \in Seq(Ids) /\ log \in Seq(Ids) /\ attempt \in Attempts
      /\ wire \in [Attempts -> Seq(Ids)]
      /\ sent \in 0..Total /\ confirmed \in Nat /\ acks \in Nat
  BY <1>0 DEF SendTypeOK
<1>3. /\ Len(w) \in Nat \ {0} /\ DOMAIN w = 1..Len(w) /\ 1 \in DOMAIN w
      /\ Head(w) = w[1] /\ w[1] \in Ids
      /\ Tail(w) \in Seq(Ids) /\ Len(Tail(w)) = Len(w) - 1
      /\ DOMAIN Tail(w) = 1..Len(w) - 1
      /\ \A k \in 1..Len(w) - 1 : Tail(w)[k] = w[k + 1]
  <2> HIDE DEF w
  <2>1. Len(w) \in Nat \ {0} /\ DOMAIN w = 1..Len(w)
    BY <1>1, <1>2, EmptySeq, LenProperties
  <2>2. /\ Tail(w) \in Seq(Ids) /\ Len(Tail(w)) = Len(w) - 1
        /\ \A k \in 1..Len(Tail(w)) : Tail(w)[k] = w[k + 1]
    BY <1>1, <1>2, HeadTailProperties
  <2>3. DOMAIN Tail(w) = 1..Len(w) - 1
    BY <2>2, LenProperties
  <2>4. 1 \in 1..Len(w)
    BY <2>1
  <2>5. w[1] \in Ids
    BY <2>4, <1>2, ElementOfSeq
  <2>6. Head(w) = w[1]
    OBVIOUS
  <2> QED BY <2>1, <2>2, <2>3, <2>4, <2>5, <2>6
<1>4. /\ wire' \in [Attempts -> Seq(Ids)]
      /\ wire'[n] = Tail(w)
      /\ \A m \in Attempts : m /= n => wire'[m] = wire[m]
  BY <1>1, <1>2, <1>3
<1>5. (\A i : Has(log, i) => Has(log', i)) /\ Has(log', w[1]) /\ log' \in Seq(Ids)
  <2>1. log' = Append(log, w[1]) /\ w[1] \in Ids
    BY <1>1, <1>3
  <2> QED BY <2>1, <1>2, HasAppend, AppendProperties
<1>now. up /\ n = attempt =>
          /\ sent = confirmed + acks + Len(w)
          /\ \A k \in 1..Len(w) : w[k] = confirmed + acks + k
  BY <1>0, <1>3 DEF Window
<1>6. acks' \in 0..Total /\ acks' \in Nat
  <2>1. CASE up /\ n = attempt
    BY <2>1, <1>now, <1>1, <1>2, <1>3
  <2>2. CASE ~(up /\ n = attempt)
    BY <2>2, <1>0, <1>1 DEF SendTypeOK
  <2> QED BY <2>1, <2>2
<1>7. SendTypeOK'
  BY <1>0, <1>1, <1>4, <1>5, <1>6 DEF SendTypeOK
<1>8. Window'
  <2>1. CASE up /\ n = attempt
    <3>1. acks' = acks + 1 /\ wire'[attempt'] = Tail(w)
      BY <2>1, <1>1, <1>4
    <3>2. sent' = confirmed' + acks' + Len(Tail(w))
      BY <2>1, <3>1, <1>now, <1>1, <1>2, <1>3
    <3>3. \A k \in 1..Len(w) - 1 : Tail(w)[k] = confirmed + acks + (k + 1)
      BY <2>1, <1>now, <1>3
    <3>4. \A k \in DOMAIN Tail(w) : Tail(w)[k] = confirmed' + acks' + k
      BY <3>1, <3>3, <1>1, <1>2, <1>3
    <3> QED BY <3>1, <3>2, <3>4 DEF Window
  <2>2. CASE up /\ n /= attempt
    <3>1. wire'[attempt'] = wire[attempt] /\ acks' = acks
      BY <2>2, <1>1, <1>2, <1>4
    <3> QED BY <2>2, <3>1, <1>0, <1>1 DEF Window
  <2>3. CASE ~up
    BY <2>3, <1>1 DEF Window
  <2> QED BY <2>1, <2>2, <2>3
<1>9. AcceptedAtNode'
  <2>1. \A i \in 1..confirmed + acks : Has(log', i)
    BY <1>0, <1>5 DEF AcceptedAtNode
  <2>2. CASE up /\ n = attempt
    <3>1. w[1] = confirmed + acks + 1
      BY <2>2, <1>now, <1>3
    <3>2. \A i \in 1..confirmed' + acks' : i = w[1] \/ i \in 1..confirmed + acks
      BY <2>2, <3>1, <1>1, <1>2
    <3> QED BY <2>1, <3>2, <1>5 DEF AcceptedAtNode
  <2>3. CASE ~(up /\ n = attempt)
    <3>1. confirmed' + acks' = confirmed + acks
      BY <2>3, <1>1
    <3> QED BY <2>1, <3>1 DEF AcceptedAtNode
  <2> QED BY <2>2, <2>3
<1>10. Consecutive'
  <2> SUFFICES ASSUME NEW m \in Attempts
      PROVE  /\ \A k \in DOMAIN wire'[m] : wire'[m][k] = wire'[m][1] + (k - 1)
             /\ wire'[m] /= <<>> => wire'[m][1] = 1 \/ Has(log', wire'[m][1] - 1)
    BY DEF Consecutive
  <2>1. CASE m /= n
    BY <2>1, <1>0, <1>4, <1>5 DEF Consecutive
  <2>2. CASE m = n
    <3>1. \A k \in 1..Len(w) : w[k] = w[1] + (k - 1)
      BY <1>0, <1>3 DEF Consecutive
    <3>2. ASSUME NEW k \in DOMAIN Tail(w)
          PROVE  Tail(w)[k] = Tail(w)[1] + (k - 1) /\ Tail(w)[1] = w[1] + 1
      <4>1. /\ k \in 1..Len(w) - 1 /\ 1 \in 1..Len(w) - 1
            /\ k + 1 \in 1..Len(w) /\ 2 \in 1..Len(w)
        BY <1>3
      <4>2. Tail(w)[k] = w[k + 1] /\ Tail(w)[1] = w[2]
        BY <4>1, <1>3
      <4>3. w[k + 1] = w[1] + k /\ w[2] = w[1] + 1
        BY <4>1, <3>1
      <4>4. w[1] \in Nat
        BY <1>3 DEF Ids
      <4> HIDE DEF w
      <4> QED BY <4>1, <4>2, <4>3, <4>4
    <3>3. Tail(w) /= <<>> => 1 \in DOMAIN Tail(w)
      <4>1. Tail(w) /= <<>> => Len(Tail(w)) \in Nat \ {0}
        BY <1>3, EmptySeq
      <4> QED BY <4>1, <1>3
    <3>4. Tail(w) /= <<>> => Tail(w)[1] - 1 = w[1]
      BY <3>2, <3>3, <1>3 DEF Ids
    <3>5. Tail(w) /= <<>> => Has(log', Tail(w)[1] - 1)
      BY <3>4, <1>5
    <3> QED BY <2>2, <3>2, <3>5, <1>4
  <2> QED BY <2>1, <2>2
<1>11. Between'
  <2>1. n <= attempt
    BY <1>0, <1>1 DEF Between, Attempts, SendTypeOK
  <2>2. \A m \in Attempts : m > attempt => wire'[m] = <<>>
    BY <2>1, <1>0, <1>2, <1>4 DEF Between, Attempts
  <2> QED BY <2>2, <1>0, <1>1 DEF Between
<1> QED BY <1>7, <1>8, <1>9, <1>10, <1>11 DEF SendInv

\* What an old connection carried is lost.
LEMMA SendInvWireLost ==
  ASSUME SendInv, NEW n \in Attempts, WireLost(n)
  PROVE  SendInv'
<1> USE SendAssumption
<1>0. SendTypeOK /\ Window /\ AcceptedAtNode /\ Consecutive /\ Between
  BY DEF SendInv
<1>1. /\ n /= attempt \/ ~up
      /\ wire' = [wire EXCEPT ![n] = <<>>]
      /\ UNCHANGED <<sent, confirmed, up, attempt, closed, acks, log>>
  BY DEF WireLost
<1>2. /\ wire' \in [Attempts -> Seq(Ids)]
      /\ wire'[n] = <<>>
      /\ \A m \in Attempts : m /= n => wire'[m] = wire[m]
  BY <1>0, <1>1, EmptySeq DEF SendTypeOK
<1>3. SendTypeOK'
  BY <1>0, <1>1, <1>2 DEF SendTypeOK
<1>4. Window'
  BY <1>0, <1>1, <1>2 DEF Window, SendTypeOK
<1>5. AcceptedAtNode'
  BY <1>0, <1>1 DEF AcceptedAtNode, Has
<1>6. Consecutive'
  BY <1>0, <1>1, <1>2 DEF Consecutive, Has
<1>7. Between'
  BY <1>0, <1>1, <1>2 DEF Between
<1> QED BY <1>3, <1>4, <1>5, <1>6, <1>7 DEF SendInv

LEMMA SendInvNext == SendInv /\ [SendNext]_sendVars => SendInv'
<1> SUFFICES ASSUME SendInv, [SendNext]_sendVars PROVE SendInv'
  OBVIOUS
<1>1. CASE OnSendable
  BY <1>1, SendInvSendable
<1>2. CASE OnAccepted
  BY <1>2, SendInvAccepted
<1>3. CASE OnDisconnected
  BY <1>3, SendInvDisconnected
<1>4. CASE Reconnect
  BY <1>4, SendInvReconnect
<1>5. CASE \E n \in Attempts : NodeAccepts(n) \/ WireLost(n)
  BY <1>5, SendInvNodeAccepts, SendInvWireLost
<1>6. CASE UNCHANGED sendVars
  BY <1>6 DEF sendVars, SendInv, SendTypeOK, Window, AcceptedAtNode,
              Consecutive, Between, Has
<1> QED BY <1>1, <1>2, <1>3, <1>4, <1>5, <1>6 DEF SendNext

\* The invariant of the sender, its connections and its node.
THEOREM SendInvariant == SendSpec => []SendInv
<1> QED BY SendInvInit, SendInvNext, PTL DEF SendSpec

\* Type correctness of the sender: in particular it never counts more
\* acceptances than it has sent messages.
THEOREM SendTypeCorrect == SendSpec => []SendTypeOK
<1>1. SendInv => SendTypeOK
  BY DEF SendInv
<1> QED BY <1>1, SendInvariant, PTL

\* What is in flight is exactly the window after the confirmed messages, after
\* any number of disconnections.
THEOREM WindowHolds == SendSpec => []Window
<1>1. SendInv => Window
  BY DEF SendInv
<1> QED BY <1>1, SendInvariant, PTL

-----------------------------------------------------------------------------
\* The initial state of the sender is one of AtLeastOnce.
LEMMA GuaranteeInit == SendInit => Guarantee!Init
BY DEF SendInit, Guarantee!Init

\* Every step of the sender is one of AtLeastOnce or changes nothing there.
LEMMA GuaranteeStep ==
  SendInv /\ [SendNext]_sendVars => [Guarantee!Next]_(Guarantee!vars)
<1> SUFFICES ASSUME SendInv, [SendNext]_sendVars
             PROVE  Guarantee!Next \/ UNCHANGED Guarantee!vars
  OBVIOUS
<1> USE SendAssumption
<1>0. SendTypeOK /\ AcceptedAtNode /\ Consecutive /\ Window
  BY DEF SendInv
<1>1. CASE OnAccepted
  <2>1. acks > 0 /\ confirmed' = confirmed + 1 /\ UNCHANGED log
    BY <1>1 DEF OnAccepted
  <2>2. confirmed \in Nat /\ acks \in Nat
    BY <1>0 DEF SendTypeOK
  <2>3. Has(log, confirmed + 1)
    <3>1. confirmed + 1 \in 1..confirmed + acks
      BY <2>1, <2>2
    <3> QED BY <3>1, <1>0 DEF AcceptedAtNode
  <2>4. confirmed < Total
    <3>1. SendTypeOK'
      BY <1>1, SendInvAccepted DEF SendInv
    <3> QED BY <3>1, <2>1, <2>2 DEF SendTypeOK
  <2> QED BY <2>1, <2>3, <2>4
          DEF Guarantee!Next, Guarantee!Confirm, Guarantee!Accepted, Has
<1>2. CASE \E n \in Attempts : NodeAccepts(n)
  <2>1. PICK n \in Attempts : NodeAccepts(n)
    BY <1>2
  <2> DEFINE w == wire[n]
  <2>2. w /= <<>> /\ log' = Append(log, Head(w)) /\ UNCHANGED confirmed
    BY <2>1 DEF NodeAccepts
  <2>3. w \in Seq(Ids)
    BY <1>0 DEF SendTypeOK
  <2>4. Head(w) = w[1] /\ Head(w) \in Ids
    <3> HIDE DEF w
    <3> QED BY <2>2, <2>3, HeadTailProperties
  <2>5. w[1] = 1 \/ Has(log, w[1] - 1)
    BY <1>0, <2>2 DEF Consecutive
  <2>6. Guarantee!Accept(Head(w))
    BY <2>2, <2>4, <2>5 DEF Guarantee!Accept, Guarantee!Accepted, Has
  <2> QED BY <2>4, <2>6 DEF Guarantee!Next, Ids
<1>3. CASE \/ OnSendable \/ OnDisconnected \/ Reconnect
           \/ \E n \in Attempts : WireLost(n)
  BY <1>3 DEF OnSendable, OnDisconnected, Reconnect, WireLost, Guarantee!vars
<1>4. CASE UNCHANGED sendVars
  BY <1>4 DEF sendVars, Guarantee!vars
<1> QED BY <1>1, <1>2, <1>3, <1>4 DEF SendNext

\* The promise of README.txt for simple_send.py: whatever connections break and
\* whatever they still deliver late, the messages reach the node in sequence,
\* possibly more than once, and none is confirmed that is not there.
THEOREM SendImplementsAtLeastOnce == SendSpec => ImplementsAtLeastOnce
<1>1. SendInit => Guarantee!Init
  BY GuaranteeInit
<1>2. SendInv /\ [SendNext]_sendVars => [Guarantee!Next]_(Guarantee!vars)
  BY GuaranteeStep
<1> QED BY <1>1, <1>2, SendInvariant, PTL
        DEF SendSpec, ImplementsAtLeastOnce, Guarantee!Spec

-----------------------------------------------------------------------------
(* Both programs. *)

\* The node accepted the predecessor of every message before it.
InSequence ==
  \A k \in DOMAIN log : log[k] = 1 \/ \E j \in 1..k - 1 : log[j] = log[k] - 1

\* The receiver has printed 1..m, at most one of them twice, and has seen no
\* other message.
PrintedUpTo(m) == /\ Printed = 1..m
                  /\ Len(printed) \in {m, m + 1}
                  /\ Seen \subseteq 1..m

ExchangeInv == /\ SendInv
               /\ RecvTypeOK
               /\ InSequence
               /\ \E m \in Nat : PrintedUpTo(m)

-----------------------------------------------------------------------------
LEMMA ExchangeInvInit == Init => ExchangeInv
<1> SUFFICES ASSUME Init PROVE ExchangeInv
  OBVIOUS
<1>1. SendInv
  BY SendInvInit DEF Init
<1>2. log = <<>> /\ position = 0 /\ received = 0 /\ printed = <<>> /\ open = TRUE
  BY DEF Init, SendInit, RecvInit
<1>3. RecvTypeOK
  <2>1. Len(log) = 0 /\ Len(printed) = 0 /\ printed \in Seq(Nat)
    BY <1>2, EmptySeq
  <2> QED BY <2>1, <1>2 DEF RecvTypeOK
<1>4. InSequence
  BY <1>2 DEF InSequence
<1>5. PrintedUpTo(0)
  <2>1. Printed = {} /\ Seen = {}
    BY <1>2 DEF Printed, Seen
  <2>2. Len(printed) = 0
    BY <1>2, EmptySeq
  <2> QED BY <2>1, <2>2 DEF PrintedUpTo
<1> QED BY <1>1, <1>3, <1>4, <1>5 DEF ExchangeInv

\* A step that leaves the log and the receiver alone.
LEMMA ReceiverUntouched ==
  ASSUME ExchangeInv, UNCHANGED <<log, recvVars>>
  PROVE  RecvTypeOK' /\ InSequence' /\ \E m \in Nat : PrintedUpTo(m)'
<1>1. RecvTypeOK' /\ InSequence'
  BY DEF ExchangeInv, recvVars, RecvTypeOK, InSequence
<1>2. PICK m \in Nat : PrintedUpTo(m)
  BY DEF ExchangeInv
<1>3. PrintedUpTo(m)'
  BY <1>2 DEF recvVars, PrintedUpTo, Printed, Seen
<1> QED BY <1>1, <1>3

\* The log only grows at its end, and in sequence.
LEMMA LogGrows ==
  ASSUME ExchangeInv, UNCHANGED recvVars,
         NEW x \in Ids, log' = Append(log, x), x = 1 \/ Has(log, x - 1)
  PROVE  RecvTypeOK' /\ InSequence' /\ \E m \in Nat : PrintedUpTo(m)'
<1>1. log \in Seq(Ids) /\ position \in 0..Len(log)
  BY DEF ExchangeInv, SendInv, SendTypeOK, RecvTypeOK
<1>2. /\ Len(log') = Len(log) + 1 /\ Len(log) \in Nat
      /\ \A k \in 1..Len(log) : log'[k] = log[k]
      /\ log'[Len(log) + 1] = x
      /\ DOMAIN log = 1..Len(log) /\ DOMAIN log' = 1..Len(log) + 1
  <2>1. Append(log, x) \in Seq(Ids)
    BY <1>1, AppendProperties
  <2> QED BY <1>1, <2>1, AppendProperties, LenProperties
<1>3. RecvTypeOK'
  BY <1>1, <1>2 DEF ExchangeInv, recvVars, RecvTypeOK
<1>4. InSequence'
  <2> SUFFICES ASSUME NEW k \in DOMAIN log'
               PROVE  log'[k] = 1 \/ \E j \in 1..k - 1 : log'[j] = log'[k] - 1
    BY DEF InSequence
  <2>1. CASE k \in 1..Len(log)
    <3>1. log[k] = 1 \/ \E j \in 1..k - 1 : log[j] = log[k] - 1
      BY <2>1, <1>2 DEF ExchangeInv, InSequence
    <3>2. \A j \in 1..k - 1 : j \in 1..Len(log)
      BY <2>1, <1>2
    <3> QED BY <2>1, <3>1, <3>2, <1>2
  <2>2. CASE k = Len(log) + 1
    <3>1. \A j \in DOMAIN log : j \in 1..k - 1
      BY <2>2, <1>2
    <3> QED BY <2>2, <3>1, <1>2 DEF Has
  <2> QED BY <2>1, <2>2, <1>2
<1>5. PICK m \in Nat : PrintedUpTo(m)
  BY DEF ExchangeInv
<1>6. Seen' = Seen
  <2>1. \A k \in 1..position : k \in 1..Len(log)
    BY <1>1, <1>2
  <2> QED BY <2>1, <1>2 DEF Seen, recvVars
<1>7. PrintedUpTo(m)'
  BY <1>5, <1>6 DEF PrintedUpTo, Printed, recvVars
<1> QED BY <1>3, <1>4, <1>7

LEMMA ExchangeInvSend == ExchangeInv /\ SendStep => ExchangeInv'
<1> SUFFICES ASSUME ExchangeInv, SendStep PROVE ExchangeInv'
  OBVIOUS
<1>1. SendInv' /\ SendInv /\ UNCHANGED recvVars
  BY SendInvNext DEF SendStep, ExchangeInv
<1>2. CASE \E n \in Attempts : NodeAccepts(n)
  <2>1. PICK n \in Attempts : NodeAccepts(n)
    BY <1>2
  <2> DEFINE w == wire[n]
  <2>2. w /= <<>> /\ log' = Append(log, Head(w))
    BY <2>1 DEF NodeAccepts
  <2>3. w \in Seq(Ids)
    BY <1>1 DEF SendInv, SendTypeOK
  <2>4. Head(w) = w[1] /\ Head(w) \in Ids
    <3> HIDE DEF w
    <3> QED BY <2>2, <2>3, HeadTailProperties
  <2>5. w[1] = 1 \/ Has(log, w[1] - 1)
    BY <1>1, <2>2 DEF SendInv, Consecutive
  <2> QED BY <1>1, <2>2, <2>4, <2>5, LogGrows DEF ExchangeInv
<1>3. CASE ~\E n \in Attempts : NodeAccepts(n)
  <2>1. UNCHANGED log
    BY <1>3 DEF SendStep, SendNext, OnSendable, OnAccepted, OnDisconnected,
                Reconnect, WireLost
  <2> QED BY <1>1, <2>1, ReceiverUntouched DEF ExchangeInv
<1> QED BY <1>2, <1>3

LEMMA ExchangeInvReceive == ExchangeInv /\ ReceiveStep => ExchangeInv'
<1> SUFFICES ASSUME ExchangeInv, ReceiveStep PROVE ExchangeInv'
  OBVIOUS
<1> DEFINE id == NextMessage
<1>0. /\ UNCHANGED sendVars /\ position' = position + 1
      /\ position < Len(log)
  BY DEF ReceiveStep, OnMessage, IgnoreDuplicate, PrintMessage, Incoming
<1>1. SendInv'
  BY <1>0, SendInvNext DEF ExchangeInv
<1>2. /\ log \in Seq(Ids) /\ Len(log) \in Nat /\ DOMAIN log = 1..Len(log)
      /\ position \in 0..Len(log) /\ printed \in Seq(Nat)
      /\ Len(printed) \in Nat /\ DOMAIN printed = 1..Len(printed)
      /\ received = Len(printed)
  BY LenProperties DEF ExchangeInv, SendInv, SendTypeOK, RecvTypeOK
<1>3. position + 1 \in 1..Len(log) /\ id \in Ids /\ log' = log
  <2>1. position + 1 \in 1..Len(log)
    BY <1>0, <1>2
  <2>2. log[position + 1] \in Ids
    BY <2>1, <1>2, ElementOfSeq
  <2> QED BY <2>1, <2>2, <1>0 DEF NextMessage, sendVars
<1>4. InSequence'
  BY <1>3 DEF ExchangeInv, InSequence
<1>5. PICK m \in Nat : PrintedUpTo(m)
  BY DEF ExchangeInv
<1>6. id \in 1..m + 1
  <2>1. id = 1 \/ \E j \in 1..position : log[j] = id - 1
    <3>1. id = 1 \/ \E j \in 1..(position + 1) - 1 : log[j] = id - 1
      BY <1>2, <1>3 DEF ExchangeInv, InSequence, NextMessage
    <3>2. (position + 1) - 1 = position
      BY <1>2
    <3> QED BY <3>1, <3>2
  <2>2. id = 1 \/ id - 1 \in 1..m
    BY <2>1, <1>5 DEF PrintedUpTo, Seen
  <2>3. id \in Nat /\ id >= 1
    BY <1>3 DEF Ids
  <2> HIDE DEF id
  <2> QED BY <2>2, <2>3, <1>5
<1>7. Seen' = Seen \cup {id}
  <2>1. Seen' = {log[k] : k \in 1..position + 1}
    BY <1>0, <1>3 DEF Seen
  <2>2. 1..position + 1 = (1..position) \cup {position + 1}
    BY <1>2
  <2> QED BY <2>1, <2>2 DEF Seen, NextMessage
<1> HIDE DEF id
<1>8. CASE IgnoreDuplicate
  <2>1. id < received /\ UNCHANGED <<received, printed, open>>
    BY <1>8 DEF IgnoreDuplicate, IsDuplicate, id
  <2>2. id \in 1..m
    BY <2>1, <1>2, <1>5, <1>6 DEF PrintedUpTo
  <2>3. PrintedUpTo(m)'
    BY <2>1, <2>2, <1>5, <1>7 DEF PrintedUpTo, Printed
  <2>4. RecvTypeOK'
    BY <2>1, <1>0, <1>2, <1>3 DEF RecvTypeOK, ExchangeInv
  <2> QED BY <2>3, <2>4, <1>1, <1>4, <1>5 DEF ExchangeInv
<1>9. CASE PrintMessage
  <2>1. /\ ~(id /= 0 /\ id < received)
        /\ printed' = Append(printed, id) /\ received' = received + 1
    BY <1>9 DEF PrintMessage, IsDuplicate, id
  <2>2. open' \in BOOLEAN
    BY <1>9 DEF PrintMessage
  <2>3. id \in Nat /\ id >= 1 /\ received <= id
    BY <2>1, <1>2, <1>6
  <2>4. /\ Len(printed') = Len(printed) + 1
        /\ printed' \in Seq(Nat)
        /\ \A k \in 1..Len(printed) : printed'[k] = printed[k]
        /\ printed'[Len(printed) + 1] = id
        /\ DOMAIN printed' = 1..Len(printed) + 1
    <3>1. Append(printed, id) \in Seq(Nat)
      BY <2>3, <1>2, AppendProperties
    <3> QED BY <2>1, <2>3, <3>1, <1>2, AppendProperties, LenProperties
  <2>5. Printed' = Printed \cup {id}
    <3>1. Printed' = {printed'[k] : k \in 1..Len(printed) + 1}
      BY <2>4 DEF Printed
    <3>2. 1..Len(printed) + 1 = (1..Len(printed)) \cup {Len(printed) + 1}
      BY <1>2
    <3>3. Printed = {printed[k] : k \in 1..Len(printed)}
      BY <1>2 DEF Printed
    <3> QED BY <3>1, <3>2, <3>3, <2>4
  <2>6. RecvTypeOK'
    BY <2>1, <2>2, <2>4, <1>0, <1>2, <1>3 DEF RecvTypeOK
  <2>7. CASE id = m + 1
    <3>1. 1..m + 1 = (1..m) \cup {m + 1}
      OBVIOUS
    <3>2. Printed' = 1..m + 1 /\ Seen' \subseteq 1..m + 1
      BY <2>5, <2>7, <3>1, <1>5, <1>7 DEF PrintedUpTo
    <3>3. Len(printed') \in {m + 1, (m + 1) + 1}
      BY <2>4, <1>2, <1>5 DEF PrintedUpTo
    <3>4. PrintedUpTo(m + 1)'
      BY <3>2, <3>3 DEF PrintedUpTo
    <3> QED BY <3>4, <2>6, <1>1, <1>4 DEF ExchangeInv
  <2>8. CASE id \in 1..m
    <3>1. Printed' = 1..m /\ Seen' \subseteq 1..m
      BY <2>5, <2>8, <1>5, <1>7 DEF PrintedUpTo
    <3>2. Len(printed) = m
      <4>1. Len(printed) = m \/ Len(printed) = m + 1
        BY <1>5 DEF PrintedUpTo
      <4>2. Len(printed) <= id /\ id <= m
        BY <2>3, <2>8, <1>2
      <4>3. Len(printed) \in Nat /\ id \in Nat
        BY <2>3, <1>2
      <4>4. Len(printed) /= m + 1
        BY <4>2, <4>3
      <4> QED BY <4>1, <4>4
    <3>3. PrintedUpTo(m)'
      BY <3>1, <3>2, <2>4 DEF PrintedUpTo
    <3> QED BY <3>3, <2>6, <1>1, <1>4 DEF ExchangeInv
  <2> QED BY <2>7, <2>8, <1>6
<1> QED BY <1>8, <1>9 DEF ReceiveStep, OnMessage

LEMMA ExchangeInvNext == ExchangeInv /\ [Next]_vars => ExchangeInv'
<1> SUFFICES ASSUME ExchangeInv, [Next]_vars PROVE ExchangeInv'
  OBVIOUS
<1>1. CASE SendStep
  BY <1>1, ExchangeInvSend
<1>2. CASE ReceiveStep
  BY <1>2, ExchangeInvReceive
<1>3. CASE UNCHANGED vars
  <2>1. SendInv'
    BY <1>3, SendInvNext DEF vars, ExchangeInv
  <2> QED BY <1>3, <2>1, ReceiverUntouched DEF vars, sendVars, ExchangeInv
<1> QED BY <1>1, <1>2, <1>3 DEF Next

THEOREM ExchangeInvariant == Spec => []ExchangeInv
<1> QED BY ExchangeInvInit, ExchangeInvNext, PTL DEF Spec

\* The receiver never takes a message for a duplicate the first time it comes.
THEOREM ReceiverMissesNothing == Spec => []NothingMissed
<1>1. ExchangeInv => NothingMissed
  BY DEF ExchangeInv, PrintedUpTo, NothingMissed
<1> QED BY <1>1, ExchangeInvariant, PTL

\* However often the sender repeats itself, at most one message is printed
\* twice.
THEOREM ReceiverPrintsAtMostOneTwice == Spec => []AtMostOneDuplicate
<1>1. ExchangeInv => AtMostOneDuplicate
  <2> SUFFICES ASSUME ExchangeInv PROVE AtMostOneDuplicate
    OBVIOUS
  <2>1. PICK m \in Nat : PrintedUpTo(m)
    BY DEF ExchangeInv
  <2>2. Len(printed) \in Nat
    BY LenProperties DEF ExchangeInv, RecvTypeOK
  <2>3. m \in 0..Len(printed)
    BY <2>1, <2>2 DEF PrintedUpTo
  <2> QED BY <2>1, <2>3 DEF PrintedUpTo, AtMostOneDuplicate
<1> QED BY <1>1, ExchangeInvariant, PTL
=============================================================================
