--------------------------- MODULE DispatchProofs ---------------------------
(***************************************************************************)
(* What the operators of module Dispatch return, for every queue and every *)
(* finite set of consumers.                                                *)
(***************************************************************************)
EXTENDS Dispatch, FunctionTheorems, FiniteSetTheorems, SequenceTheorems, TLAPS

\* A finite set of consumers with credit provides finitely many slots.
LEMMA SlotsFinite ==
  ASSUME NEW S, IsFiniteSet(S), NEW credit, \A c \in S : credit[c] \in Nat
  PROVE  /\ IsFiniteSet(Slots(S, credit))
         /\ Cardinality(Slots(S, credit)) \in Nat
<1> DEFINE Row(c) == (1..credit[c]) \X {c}
           Rows   == {Row(c) : c \in S}
           f      == [c \in S |-> Row(c)]
<1>1. f \in Surjection(S, Rows)
  BY DEF Surjection
<1>2. IsFiniteSet(Rows)
  <2> HIDE DEF f, Rows
  <2> QED BY <1>1, FS_Surjection
<1>3. ASSUME NEW c \in S PROVE IsFiniteSet(Row(c))
  <2>1. IsFiniteSet(1..credit[c])
    BY FS_Interval
  <2> QED BY <2>1, FS_Singleton, FS_Product
<1>4. \A T \in Rows : IsFiniteSet(T)
  BY <1>3
<1>5. Slots(S, credit) = UNION Rows
  BY DEF Slots
<1>6. IsFiniteSet(UNION Rows)
  <2> HIDE DEF Rows
  <2> QED BY <1>2, <1>4, FS_UNION
<1>7. IsFiniteSet(Slots(S, credit))
  BY <1>5, <1>6
<1> QED BY <1>7, FS_CardinalityType

\* The rank of a slot is between 1 and the number of slots.
LEMMA RankRange ==
  ASSUME NEW S, IsFiniteSet(S), NEW credit, \A c \in S : credit[c] \in Nat,
         NEW ticket, \A c \in S : ticket[c] \in Nat,
         NEW t \in Slots(S, credit)
  PROVE  Rank(t, S, credit, ticket) \in 1..Cardinality(Slots(S, credit))
<1> DEFINE Slot == Slots(S, credit)
           Before == {s \in Slot : NoLater(s, t, ticket)}
<1>1. IsFiniteSet(Slot) /\ Cardinality(Slot) \in Nat
  BY SlotsFinite
<1>2. t \in Before
  <2>1. PICK c \in S : t \in (1..credit[c]) \X {c}
    BY DEF Slots
  <2>2. ticket[t[2]] \in Nat
    BY <2>1
  <2>3. NoLater(t, t, ticket)
    BY <2>2 DEF NoLater
  <2> QED BY <2>3
<1>3. /\ IsFiniteSet(Before)
      /\ Cardinality(Before) <= Cardinality(Slot)
      /\ Cardinality(Before) \in Nat
  <2>1. Before \in SUBSET Slot
    OBVIOUS
  <2> HIDE DEF Before, Slot
  <2> QED BY <2>1, <1>1, FS_Subset, FS_CardinalityType
<1>4. Cardinality(Before) /= 0
  <2> HIDE DEF Before
  <2> QED BY <1>2, <1>3, FS_EmptySet
<1>5. Rank(t, S, credit, ticket) = Cardinality(Before)
  BY DEF Rank
<1> HIDE DEF Before, Slot
<1>6. Cardinality(Before) \in 1..Cardinality(Slot)
  BY <1>1, <1>3, <1>4
<1> QED BY <1>5, <1>6 DEF Slot

\* A consumer's slot of an earlier round is served earlier.
LEMMA RankMonotonic ==
  ASSUME NEW S, IsFiniteSet(S), NEW credit, \A c \in S : credit[c] \in Nat,
         NEW ticket, \A c \in S : ticket[c] \in Nat,
         NEW c \in S, NEW i \in Nat, NEW j \in Nat, i <= j
  PROVE  Rank(<<i, c>>, S, credit, ticket) <= Rank(<<j, c>>, S, credit, ticket)
<1> DEFINE Slot == Slots(S, credit)
           B(r) == {s \in Slot : NoLater(s, <<r, c>>, ticket)}
<1>1. ASSUME NEW s \in Slot, NoLater(s, <<i, c>>, ticket)
      PROVE  NoLater(s, <<j, c>>, ticket)
  <2>1. PICK d \in S : s \in (1..credit[d]) \X {d}
    BY DEF Slots
  <2>2. s[1] \in Nat /\ s[2] = d
    BY <2>1
  <2>3. \/ s[1] < i
        \/ s[1] = i /\ ticket[s[2]] <= ticket[c]
    BY <1>1 DEF NoLater
  <2>4. \/ s[1] < j
        \/ s[1] = j /\ ticket[s[2]] <= ticket[c]
    BY <2>2, <2>3
  <2> QED BY <2>4 DEF NoLater
<1>2. B(i) \in SUBSET B(j) /\ B(j) \in SUBSET Slot
  BY <1>1
<1>3. IsFiniteSet(Slot)
  BY SlotsFinite
<1> HIDE DEF B, Slot
<1>4. IsFiniteSet(B(j))
  BY <1>2, <1>3, FS_Subset
<1>5. Cardinality(B(i)) <= Cardinality(B(j))
  BY <1>2, <1>4, FS_Subset
<1> QED BY <1>5 DEF Rank, B, Slot

\* The queue is cut in two: what is served and what remains.
LEMMA RestAndTaken ==
  ASSUME NEW M, NEW q \in Seq(M),
         NEW S, IsFiniteSet(S), NEW credit, \A c \in S : credit[c] \in Nat
  PROVE  /\ Served(q, S, credit) \in 0..Len(q)
         /\ Rest(q, S, credit) \in Seq(M)
         /\ Len(Rest(q, S, credit)) = Len(q) - Served(q, S, credit)
         /\ \A k \in 1..Len(Rest(q, S, credit)) :
              Rest(q, S, credit)[k] = q[Served(q, S, credit) + k]
         /\ Taken(q, S, credit) \in Seq(M)
         /\ Len(Taken(q, S, credit)) = Served(q, S, credit)
         /\ \A k \in 1..Len(Taken(q, S, credit)) : Taken(q, S, credit)[k] = q[k]
<1> DEFINE n == Served(q, S, credit)
<1>1. Len(q) \in Nat /\ Cardinality(Slots(S, credit)) \in Nat
  BY SlotsFinite, LenProperties
<1>2. n \in 0..Len(q)
  BY <1>1 DEF Served
<1> HIDE DEF n
<1>3. /\ \A i \in n + 1..Len(q) : q[i] \in M
      /\ \A i \in 1..n : q[i] \in M
  <2>1. \A i \in 1..Len(q) : q[i] \in M
    BY ElementOfSeq
  <2> QED BY <2>1, <1>1, <1>2
<1>4. /\ SubSeq(q, n + 1, Len(q)) \in Seq(M)
      /\ Len(SubSeq(q, n + 1, Len(q))) =
           IF n + 1 <= Len(q) THEN Len(q) - (n + 1) + 1 ELSE 0
      /\ \A k \in 1..Len(q) - (n + 1) + 1 :
           SubSeq(q, n + 1, Len(q))[k] = q[n + 1 + k - 1]
  <2>1. n + 1 \in Int /\ Len(q) \in Int
    BY <1>1, <1>2
  <2> QED BY <2>1, <1>3, SubSeqProperties
<1>5. /\ SubSeq(q, 1, n) \in Seq(M)
      /\ Len(SubSeq(q, 1, n)) = IF 1 <= n THEN n - 1 + 1 ELSE 0
      /\ \A k \in 1..n - 1 + 1 : SubSeq(q, 1, n)[k] = q[1 + k - 1]
  <2>1. n \in Int /\ 1 \in Int
    BY <1>1, <1>2
  <2> QED BY <2>1, <1>3, SubSeqProperties
<1>6. /\ Len(SubSeq(q, n + 1, Len(q))) = Len(q) - n
      /\ \A k \in 1..Len(q) - n : SubSeq(q, n + 1, Len(q))[k] = q[n + k]
  <2> DEFINE r == SubSeq(q, n + 1, Len(q))
  <2>1. /\ Len(r) = IF n + 1 <= Len(q) THEN Len(q) - (n + 1) + 1 ELSE 0
        /\ \A k \in 1..Len(q) - (n + 1) + 1 : r[k] = q[n + 1 + k - 1]
    BY <1>4
  <2> HIDE DEF r
  <2>2. Len(q) - (n + 1) + 1 = Len(q) - n
    BY <1>1, <1>2
  <2>3. Len(r) = Len(q) - n
    BY <2>1, <1>1, <1>2
  <2>4. ASSUME NEW k \in 1..Len(q) - n PROVE r[k] = q[n + k]
    <3>1. n + 1 + k - 1 = n + k /\ k \in 1..Len(q) - (n + 1) + 1
      BY <2>2, <1>1, <1>2
    <3> QED BY <3>1, <2>1
  <2> QED BY <2>3, <2>4 DEF r
<1>7. /\ Len(SubSeq(q, 1, n)) = n
      /\ \A k \in 1..n : SubSeq(q, 1, n)[k] = q[k]
  <2>1. \A k \in 1..n : 1 + k - 1 = k
    BY <1>2
  <2> QED BY <2>1, <1>2, <1>5
<1> QED BY <1>2, <1>4, <1>5, <1>6, <1>7 DEF Rest, Taken, n

\* A consumer receives at most as many messages as it has credit, and a
\* consumer that is not served receives none.
LEMMA QuotaRange ==
  ASSUME NEW q, NEW S, IsFiniteSet(S), NEW credit, NEW ticket, NEW c,
         credit[c] \in Nat
  PROVE  /\ Quota(q, S, credit, ticket, c) \in 0..credit[c]
         /\ c \notin S => Quota(q, S, credit, ticket, c) = 0
<1> DEFINE R == Rounds(q, S, credit, ticket, c)
<1>1. R \in SUBSET (1..credit[c])
  BY DEF Rounds
<1>2. IsFiniteSet(1..credit[c]) /\ Cardinality(1..credit[c]) = credit[c]
  BY FS_Interval
<1> HIDE DEF R
<1>3. Cardinality(R) \in Nat /\ Cardinality(R) <= credit[c]
  BY <1>1, <1>2, FS_Subset, FS_CardinalityType
<1> QED BY <1>3 DEF Quota, R

\* The rounds in which a consumer is served are the first ones.
LEMMA RoundsAreFirst ==
  ASSUME NEW M, NEW q \in Seq(M),
         NEW S, IsFiniteSet(S), NEW credit, \A c \in S : credit[c] \in Nat,
         NEW ticket, \A c \in S : ticket[c] \in Nat,
         NEW c \in S, NEW k \in 1..Quota(q, S, credit, ticket, c)
  PROVE  k \in Rounds(q, S, credit, ticket, c)
<1> DEFINE R == Rounds(q, S, credit, ticket, c)
           n == Quota(q, S, credit, ticket, c)
<1>1. n = Cardinality(R) /\ n \in 0..credit[c] /\ credit[c] \in Nat
  BY QuotaRange DEF Quota
<1>2. k \in 1..credit[c] /\ k \in Nat /\ k <= n
  BY <1>1
<1> SUFFICES ASSUME k \notin R PROVE FALSE
  OBVIOUS
<1>3. ASSUME NEW r \in R PROVE r <= k - 1
  <2>1. r \in 1..credit[c] /\ Rank(<<r, c>>, S, credit, ticket) <= Len(q)
    BY DEF Rounds
  <2>2. CASE k <= r
    <3>1. Rank(<<k, c>>, S, credit, ticket) <= Rank(<<r, c>>, S, credit, ticket)
      BY <2>1, <2>2, <1>2, RankMonotonic
    <3>2. <<r, c>> \in Slots(S, credit) /\ <<k, c>> \in Slots(S, credit)
      BY <2>1, <1>2 DEF Slots
    <3>3. /\ Rank(<<r, c>>, S, credit, ticket) \in 1..Cardinality(Slots(S, credit))
          /\ Rank(<<k, c>>, S, credit, ticket) \in 1..Cardinality(Slots(S, credit))
      BY <3>2, RankRange
    <3>4. Len(q) \in Nat /\ Cardinality(Slots(S, credit)) \in Nat
      BY LenProperties, SlotsFinite
    <3>5. Rank(<<k, c>>, S, credit, ticket) <= Len(q)
      BY <3>1, <3>3, <3>4, <2>1
    <3> QED BY <3>5, <1>2 DEF Rounds
  <2> QED BY <2>1, <2>2, <1>2
<1>4. R \in SUBSET (1..k - 1)
  <2>1. R \in SUBSET (1..credit[c])
    BY DEF Rounds
  <2> QED BY <2>1, <1>1, <1>2, <1>3
<1>5. IsFiniteSet(1..k - 1) /\ Cardinality(1..k - 1) = k - 1
  <2>1. 1 \in Int /\ k - 1 \in Int
    BY <1>2
  <2>2. /\ IsFiniteSet(1..k - 1)
        /\ Cardinality(1..k - 1) = IF 1 > k - 1 THEN 0 ELSE (k - 1) - 1 + 1
    BY <2>1, FS_Interval
  <2> QED BY <2>2, <1>2
<1> HIDE DEF R, n
<1>6. Cardinality(R) <= k - 1
  BY <1>4, <1>5, FS_Subset
<1> QED BY <1>1, <1>2, <1>6

\* What a consumer receives are messages of the queue.
LEMMA ShareType ==
  ASSUME NEW M, NEW q \in Seq(M),
         NEW S, IsFiniteSet(S), NEW credit, \A c \in S : credit[c] \in Nat,
         NEW ticket, \A c \in S : ticket[c] \in Nat,
         NEW c, credit[c] \in Nat
  PROVE  Share(q, S, credit, ticket, c) \in Seq(M)
<1> DEFINE n == Quota(q, S, credit, ticket, c)
           R(k) == Rank(<<k, c>>, S, credit, ticket)
<1>1. n \in Nat
  BY QuotaRange
<1>2. ASSUME NEW k \in 1..n PROVE q[R(k)] \in M
  <2>1. c \in S
    BY <1>1, QuotaRange
  <2>2. k \in Rounds(q, S, credit, ticket, c)
    BY <2>1, RoundsAreFirst
  <2>3. k \in 1..credit[c] /\ R(k) <= Len(q)
    BY <2>2 DEF Rounds
  <2>4. <<k, c>> \in Slots(S, credit)
    BY <2>1, <2>3 DEF Slots
  <2>5. R(k) \in 1..Cardinality(Slots(S, credit))
    BY <2>4, RankRange
  <2>6. Cardinality(Slots(S, credit)) \in Nat /\ Len(q) \in Nat
    BY SlotsFinite, LenProperties
  <2>7. R(k) \in 1..Len(q)
    <3> HIDE DEF R
    <3> QED BY <2>3, <2>5, <2>6
  <2> HIDE DEF R
  <2> QED BY <2>7, ElementOfSeq
<1> HIDE DEF n, R
<1>3. [k \in 1..n |-> q[R(k)]] \in Seq(M)
  BY <1>1, <1>2
<1> QED BY <1>3 DEF Share, n, R

\* dispatch conserves work: if messages remain, every consumer it serves has
\* used up its credit.
LEMMA WorkConserving ==
  ASSUME NEW M, NEW q \in Seq(M),
         NEW S, IsFiniteSet(S), NEW credit, \A c \in S : credit[c] \in Nat,
         NEW ticket, \A c \in S : ticket[c] \in Nat,
         Rest(q, S, credit) /= <<>>, NEW c \in S
  PROVE  Quota(q, S, credit, ticket, c) = credit[c]
<1> DEFINE Slot == Slots(S, credit)
           R == Rounds(q, S, credit, ticket, c)
<1>1. Cardinality(Slot) \in Nat /\ Len(q) \in Nat /\ credit[c] \in Nat
  BY SlotsFinite, LenProperties
<1>2. Cardinality(Slot) < Len(q)
  <2>1. Len(Rest(q, S, credit)) \in Nat \ {0}
    BY RestAndTaken, EmptySeq
  <2>2. Len(q) - Served(q, S, credit) > 0
    BY <2>1, RestAndTaken
  <2>3. Served(q, S, credit) =
          IF Cardinality(Slot) <= Len(q) THEN Cardinality(Slot) ELSE Len(q)
    BY DEF Served
  <2> HIDE DEF Slot
  <2> QED BY <2>2, <2>3, <1>1
<1>3. ASSUME NEW r \in 1..credit[c] PROVE r \in R
  <2>1. <<r, c>> \in Slot
    BY DEF Slots
  <2>2. Rank(<<r, c>>, S, credit, ticket) \in 1..Cardinality(Slot)
    BY <2>1, RankRange
  <2>3. Rank(<<r, c>>, S, credit, ticket) <= Len(q)
    <3> HIDE DEF Slot
    <3> QED BY <2>2, <1>1, <1>2
  <2> QED BY <2>3 DEF Rounds
<1>4. R = 1..credit[c]
  BY <1>3 DEF Rounds
<1>5. Cardinality(1..credit[c]) = credit[c]
  <2> DEFINE n == credit[c]
  <2>1. n \in Nat /\ 1 \in Int /\ n \in Int
    BY <1>1
  <2> HIDE DEF n
  <2>2. Cardinality(1..n) = IF 1 > n THEN 0 ELSE n - 1 + 1
    BY <2>1, FS_Interval
  <2>3. Cardinality(1..n) = n
    BY <2>1, <2>2
  <2> QED BY <2>3 DEF n
<1> QED BY <1>4, <1>5 DEF Quota

\* With nobody to serve, everything remains.
LEMMA NobodyServed ==
  ASSUME NEW M, NEW q \in Seq(M), NEW credit
  PROVE  Rest(q, {}, credit) = q
<1>1. Slots({}, credit) = {}
  BY DEF Slots
<1>2. Served(q, {}, credit) = 0
  <2>1. Len(q) \in Nat /\ Cardinality({}) = 0
    BY LenProperties, FS_EmptySet
  <2> QED BY <1>1, <2>1 DEF Served
<1>3. 0 + 1 = 1
  OBVIOUS
<1> QED BY <1>2, <1>3, SubSeqFull DEF Rest

\* A slot that is strictly earlier has a lower rank.
LEMMA RankStrict ==
  ASSUME NEW S, IsFiniteSet(S), NEW credit, \A c \in S : credit[c] \in Nat,
         NEW ticket, \A c \in S : ticket[c] \in Nat,
         NEW s \in Slots(S, credit), NEW t \in Slots(S, credit),
         ~NoLater(t, s, ticket)
  PROVE  Rank(s, S, credit, ticket) < Rank(t, S, credit, ticket)
<1> DEFINE Slot == Slots(S, credit)
           B(x) == {r \in Slot : NoLater(r, x, ticket)}
<1>1. \A x \in Slot : x[1] \in Nat /\ x[2] \in S /\ ticket[x[2]] \in Nat
  <2> SUFFICES ASSUME NEW x \in Slot
               PROVE  x[1] \in Nat /\ x[2] \in S
    OBVIOUS
  <2>1. PICK c \in S : x \in (1..credit[c]) \X {c}
    BY DEF Slots
  <2> QED BY <2>1
<1>2. NoLater(t, t, ticket)
  BY <1>1 DEF NoLater
<1>3. ASSUME NEW r \in Slot, NoLater(r, s, ticket)
      PROVE  NoLater(r, t, ticket)
  <2>1. /\ r[1] \in Nat /\ s[1] \in Nat /\ t[1] \in Nat
        /\ ticket[r[2]] \in Nat /\ ticket[s[2]] \in Nat /\ ticket[t[2]] \in Nat
    BY <1>1
  <2> QED BY <2>1, <1>3 DEF NoLater
<1>4. B(s) \in SUBSET B(t) /\ B(t) \in SUBSET Slot /\ t \in B(t) /\ t \notin B(s)
  BY <1>2, <1>3
<1>5. IsFiniteSet(Slot)
  BY SlotsFinite
<1> HIDE DEF B, Slot
<1>6. IsFiniteSet(B(t)) /\ B(s) /= B(t)
  BY <1>4, <1>5, FS_Subset
<1>7. /\ Cardinality(B(s)) <= Cardinality(B(t))
      /\ Cardinality(B(s)) = Cardinality(B(t)) => B(s) = B(t)
      /\ Cardinality(B(s)) \in Nat /\ Cardinality(B(t)) \in Nat
  BY <1>4, <1>6, FS_Subset, FS_CardinalityType
<1>8. Cardinality(B(s)) < Cardinality(B(t))
  BY <1>6, <1>7
<1> QED BY <1>8 DEF Rank, B, Slot

\* A consumer's slots have rising ranks, and consumers that subscribed one after
\* the other have no rank in common.
LEMMA RanksDiffer ==
  ASSUME NEW S, IsFiniteSet(S), NEW credit, \A c \in S : credit[c] \in Nat,
         NEW ticket, \A c \in S : ticket[c] \in Nat,
         NEW c \in S, NEW d \in S,
         NEW i \in 1..credit[c], NEW j \in 1..credit[d]
  PROVE  /\ c = d /\ i < j => Rank(<<i, c>>, S, credit, ticket)
                                < Rank(<<j, d>>, S, credit, ticket)
         /\ ticket[c] /= ticket[d] => Rank(<<i, c>>, S, credit, ticket)
                                        /= Rank(<<j, d>>, S, credit, ticket)
<1>1. /\ i \in Nat /\ j \in Nat /\ ticket[c] \in Nat /\ ticket[d] \in Nat
      /\ <<i, c>> \in Slots(S, credit) /\ <<j, d>> \in Slots(S, credit)
  BY DEF Slots
<1>2. /\ Rank(<<i, c>>, S, credit, ticket) \in Nat
      /\ Rank(<<j, d>>, S, credit, ticket) \in Nat
  <2>1. Cardinality(Slots(S, credit)) \in Nat
    BY SlotsFinite
  <2> QED BY <1>1, <2>1, RankRange
<1>3. \/ ~NoLater(<<j, d>>, <<i, c>>, ticket)
      \/ ~NoLater(<<i, c>>, <<j, d>>, ticket)
      \/ ticket[c] = ticket[d] /\ i = j
  BY <1>1 DEF NoLater
<1>4. i < j => ~NoLater(<<j, d>>, <<i, c>>, ticket)
  BY <1>1 DEF NoLater
<1>5. ~NoLater(<<j, d>>, <<i, c>>, ticket) =>
        Rank(<<i, c>>, S, credit, ticket) < Rank(<<j, d>>, S, credit, ticket)
  BY <1>1, RankStrict
<1>6. ~NoLater(<<i, c>>, <<j, d>>, ticket) =>
        Rank(<<j, d>>, S, credit, ticket) < Rank(<<i, c>>, S, credit, ticket)
  BY <1>1, RankStrict
<1> QED BY <1>2, <1>3, <1>4, <1>5, <1>6

\* What a consumer receives, one after the other, is what its slots are offered.
LEMMA ShareSlots ==
  ASSUME NEW M, NEW q \in Seq(M),
         NEW S, IsFiniteSet(S), NEW credit, \A c \in S : credit[c] \in Nat,
         NEW ticket, \A c \in S : ticket[c] \in Nat,
         NEW c, credit[c] \in Nat,
         NEW k \in DOMAIN Share(q, S, credit, ticket, c)
  PROVE  /\ c \in S /\ k \in 1..credit[c]
         /\ Rank(<<k, c>>, S, credit, ticket) \in 1..Served(q, S, credit)
         /\ Share(q, S, credit, ticket, c)[k] = q[Rank(<<k, c>>, S, credit, ticket)]
<1> DEFINE R == Rank(<<k, c>>, S, credit, ticket)
<1>1. k \in 1..Quota(q, S, credit, ticket, c)
      /\ Share(q, S, credit, ticket, c)[k] = q[R]
  BY DEF Share
<1>2. c \in S
  BY <1>1, QuotaRange
<1>3. k \in 1..credit[c] /\ R <= Len(q)
  BY <1>1, <1>2, RoundsAreFirst DEF Rounds
<1>4. R \in 1..Cardinality(Slots(S, credit))
  <2>1. <<k, c>> \in Slots(S, credit)
    BY <1>2, <1>3 DEF Slots
  <2> QED BY <2>1, RankRange
<1>5. Cardinality(Slots(S, credit)) \in Nat /\ Len(q) \in Nat
  BY SlotsFinite, LenProperties
<1> HIDE DEF R
<1>6. R \in 1..Served(q, S, credit)
  BY <1>3, <1>4, <1>5 DEF Served
<1> QED BY <1>1, <1>2, <1>3, <1>6 DEF R

\* Slots served in order: a set of slots that holds, with each of them, those that
\* are no later.  Its slots have the first ranks, the others have higher ones, and
\* the next slot has the next rank.
LEMMA ServedInOrder ==
  ASSUME NEW S, IsFiniteSet(S), NEW credit, \A c \in S : credit[c] \in Nat,
         NEW ticket, \A c \in S : ticket[c] \in Nat,
         NEW D, D \subseteq Slots(S, credit),
         \A s \in Slots(S, credit), t \in D : NoLater(s, t, ticket) => s \in D
  PROVE  /\ IsFiniteSet(D) /\ Cardinality(D) \in 0..Cardinality(Slots(S, credit))
         /\ \A t \in D : Rank(t, S, credit, ticket) <= Cardinality(D)
         /\ \A t \in Slots(S, credit) \ D :
              /\ Rank(t, S, credit, ticket) > Cardinality(D)
              /\ (\A s \in Slots(S, credit) : NoLater(s, t, ticket) => s \in D \union {t})
                   => Rank(t, S, credit, ticket) = Cardinality(D) + 1
<1> DEFINE Slot == Slots(S, credit)
           B(x) == {r \in Slot : NoLater(r, x, ticket)}
<1>1. \A x \in Slot : x[1] \in Nat /\ x[2] \in S /\ ticket[x[2]] \in Nat
  <2> SUFFICES ASSUME NEW x \in Slot
               PROVE  x[1] \in Nat /\ x[2] \in S
    OBVIOUS
  <2>1. PICK c \in S : x \in (1..credit[c]) \X {c}
    BY DEF Slots
  <2> QED BY <2>1
<1>2. IsFiniteSet(Slot) /\ Cardinality(Slot) \in Nat
  BY SlotsFinite
<1>3. \A x \in Slot : B(x) \subseteq Slot /\ Rank(x, S, credit, ticket) = Cardinality(B(x))
  BY DEF Rank
<1>4. \A t \in D : B(t) \subseteq D
  OBVIOUS
<1>5. ASSUME NEW t \in Slot, t \notin D PROVE D \union {t} \subseteq B(t)
  <2>1. NoLater(t, t, ticket)
    BY <1>1, <1>5 DEF NoLater
  <2>2. ASSUME NEW s \in D PROVE NoLater(s, t, ticket)
    <3>1. /\ s[1] \in Nat /\ t[1] \in Nat
          /\ ticket[s[2]] \in Nat /\ ticket[t[2]] \in Nat
      BY <1>1, <1>5
    <3>2. ~NoLater(t, s, ticket)
      BY <1>5
    <3> QED BY <3>1, <3>2 DEF NoLater
  <2> QED BY <1>5, <2>1, <2>2
<1>6. D \subseteq Slot
  OBVIOUS
<1>7. \A t \in Slot : (\A s \in Slot : NoLater(s, t, ticket) => s \in D \union {t})
                        => B(t) \subseteq D \union {t}
  OBVIOUS
<1>8. \A t \in Slot : (\A s \in Slots(S, credit) : NoLater(s, t, ticket) => s \in D \union {t})
                        => B(t) \subseteq D \union {t}
  OBVIOUS
<1> HIDE DEF B
<1>9. IsFiniteSet(D) /\ Cardinality(D) \in Nat /\ Cardinality(D) <= Cardinality(Slot)
  <2> HIDE DEF Slot
  <2> QED BY <1>2, <1>6, FS_Subset, FS_CardinalityType
<1>10. ASSUME NEW t \in D PROVE Cardinality(B(t)) <= Cardinality(D)
  BY <1>4, <1>9, FS_Subset
<1>11. ASSUME NEW t \in Slot, t \notin D
       PROVE  /\ Cardinality(B(t)) > Cardinality(D)
              /\ B(t) \subseteq D \union {t} => Cardinality(B(t)) = Cardinality(D) + 1
  <2>1. IsFiniteSet(D \union {t}) /\ Cardinality(D \union {t}) = Cardinality(D) + 1
    BY <1>9, <1>11, FS_AddElement
  <2>2. IsFiniteSet(B(t)) /\ Cardinality(B(t)) \in Nat
    <3> HIDE DEF Slot
    <3> QED BY <1>2, <1>3, <1>11, FS_Subset, FS_CardinalityType
  <2>3. D \union {t} \subseteq B(t)
    BY <1>5, <1>11
  <2>4. Cardinality(D \union {t}) <= Cardinality(B(t))
    BY <2>2, <2>3, FS_Subset
  <2>5. B(t) \subseteq D \union {t} => B(t) = D \union {t}
    BY <2>3
  <2>6. /\ Cardinality(B(t)) > Cardinality(D)
        /\ Cardinality(B(t)) = Cardinality(D \union {t})
             => Cardinality(B(t)) = Cardinality(D) + 1
    BY <1>9, <2>1, <2>2, <2>4
  <2>7. B(t) \subseteq D \union {t} => Cardinality(B(t)) = Cardinality(D \union {t})
    BY <2>5, Zenon
  <2> QED BY <2>6, <2>7
<1>12. Cardinality(D) \in 0..Cardinality(Slot)
  BY <1>2, <1>9
<1>13. \A t \in D : Rank(t, S, credit, ticket) <= Cardinality(D)
  BY <1>3, <1>6, <1>10
<1>14. \A t \in Slot \ D :
         /\ Rank(t, S, credit, ticket) > Cardinality(D)
         /\ (\A s \in Slots(S, credit) : NoLater(s, t, ticket) => s \in D \union {t})
              => Rank(t, S, credit, ticket) = Cardinality(D) + 1
  BY <1>3, <1>8, <1>11
<1> QED BY <1>9, <1>12, <1>13, <1>14
=============================================================================
