--------------------------- MODULE DbBridgeProofs ---------------------------
(***************************************************************************)
(* Proofs about the database sender, and about both programs on one node.  *)
(***************************************************************************)
EXTENDS DbBridge, FiniteSetTheorems, SequenceTheorems, WellFoundedInduction, TLAPS

SendTasks == {Load, Reset, Close} \union {Delete(i) : i \in Ids}

IsDelete(t) == t.op = "delete"

SendTypeInv ==
  /\ table \subseteq Ids /\ work \subseteq table
  /\ tasks \in Seq(SendTasks)
  /\ thread \in {"waiting", "busy", "ended"} /\ running \in BOOLEAN
  /\ pending = <<>> /\ events \in Seq({RecordsLoaded})
  /\ position \in Ids \union {0} /\ loading \in BOOLEAN
  /\ records \in Seq(Ids) /\ Len(records) <= Capacity
  /\ sent \in Nat /\ confirmed \in Nat /\ sending \in BOOLEAN
  /\ timers \in Nat /\ closed \in BOOLEAN
  /\ credit \in Nat /\ wire \in Seq(Ids) /\ settled \in Seq(Ids)
  /\ log \in Seq(Ids) /\ breaks \in Nat

LEMMA TaskKinds ==
  /\ Load \in SendTasks /\ Reset \in SendTasks /\ Close \in SendTasks
  /\ \A i \in Ids : Delete(i) \in SendTasks
  /\ Load.op = "load" /\ Reset.op = "reset" /\ Close.op = "close"
  /\ \A i : Delete(i).op = "delete" /\ Delete(i).id = i
  /\ \A t \in SendTasks : /\ t.op = "delete" => t.id \in Ids
                          /\ t.op = "load" => t = Load
                          /\ t.op = "close" => t = Close
                          /\ t.op = "reset" => t = Reset
                          /\ t.op \in {"load", "reset", "close", "delete"}
<1>1. /\ Load.op = "load" /\ Reset.op = "reset" /\ Close.op = "close"
      /\ \A i : Delete(i).op = "delete" /\ Delete(i).id = i
  BY DEF Load, Reset, Close, Delete
<1>2. ASSUME NEW t \in SendTasks
      PROVE  /\ t.op = "delete" => t.id \in Ids
             /\ t.op = "load" => t = Load
             /\ t.op = "close" => t = Close
             /\ t.op = "reset" => t = Reset
             /\ t.op \in {"load", "reset", "close", "delete"}
  <2>1. t = Load \/ t = Reset \/ t = Close \/ \E i \in Ids : t = Delete(i)
    BY DEF SendTasks
  <2> QED BY <1>1, <2>1
<1> QED BY <1>1, <1>2 DEF SendTasks

\* The step of a sequence to the one without its first element.
LEMMA Front ==
  ASSUME NEW S, NEW s \in Seq(S), s /= <<>>
  PROVE  /\ 1 \in DOMAIN s /\ Head(s) = s[1] /\ Head(s) \in S
         /\ Tail(s) \in Seq(S) /\ Len(Tail(s)) = Len(s) - 1
         /\ \A k \in DOMAIN Tail(s) : /\ k + 1 \in DOMAIN s /\ k + 1 > 1
                                      /\ Tail(s)[k] = s[k + 1]
         /\ \A k \in DOMAIN s : k = 1 \/ (/\ k - 1 \in DOMAIN Tail(s)
                                          /\ Tail(s)[k - 1] = s[k])
<1> Head(s) \in S
  BY HeadTailProperties
<1> QED OBVIOUS

\* The step to the one with one element more.
LEMMA Back ==
  ASSUME NEW S, NEW s \in Seq(S), NEW e \in S
  PROVE  /\ Append(s, e) \in Seq(S) /\ Len(Append(s, e)) = Len(s) + 1
         /\ Len(s) + 1 \in DOMAIN Append(s, e)
         /\ Append(s, e)[Len(s) + 1] = e
         /\ \A k \in DOMAIN s : /\ k \in DOMAIN Append(s, e) /\ k < Len(s) + 1
                                /\ Append(s, e)[k] = s[k]
         /\ \A k \in DOMAIN Append(s, e) :
              \/ k = Len(s) + 1
              \/ k \in DOMAIN s /\ Append(s, e)[k] = s[k]
OBVIOUS

\* Min, of a set of numbers that is not empty, is its least element.
LEMMA LeastElement ==
  ASSUME NEW S, S \subseteq Nat, S /= {}
  PROVE  Min(S) \in S /\ \A y \in S : Min(S) <= y
<1> DEFINE R == OpToRel(<, Nat)
<1>1. R = {ss \in Nat \X Nat : ss[1] < ss[2]}
  BY DEF OpToRel
<1>2. IsWellFoundedOn(R, Nat)
  BY NatLessThanWellFounded
<1>3. PICK m \in S : \A y \in S : <<y, m>> \notin R
  <2> HIDE DEF R
  <2> QED BY <1>2, WFMin
<1>4. ASSUME NEW y \in S
      PROVE  m <= y
  <2>1. <<y, m>> \in Nat \X Nat /\ <<y, m>> \notin {ss \in Nat \X Nat : ss[1] < ss[2]}
    BY <1>1, <1>3
  <2>2. ~(<<y, m>>[1] < <<y, m>>[2])
    BY <2>1
  <2> QED BY <2>1, <2>2
<1> QED BY <1>4 DEF Min

-----------------------------------------------------------------------------
(* Types. *)

\* What request_records makes of the tasks.
LEMMA Requests ==
  ASSUME SendTypeInv
  PROVE  WithRequest \in Seq(SendTasks)
         /\ (WithRequest = tasks \/ WithRequest = Append(tasks, Load))
BY TaskKinds, Back DEF SendTypeInv, WithRequest

\* The tasks after a settlement.
LEMMA Settles ==
  ASSUME SendTypeInv, OnSettled
  PROVE  /\ Head(settled) \in Ids
         /\ tasks' = IF closed' THEN Append(Append(tasks, Delete(Head(settled))), Close)
                                ELSE Append(tasks, Delete(Head(settled)))
         /\ Append(tasks, Delete(Head(settled))) \in Seq(SendTasks)
         /\ tasks' \in Seq(SendTasks)
<1> DEFINE t == Append(tasks, Delete(Head(settled)))
<1>1. Head(settled) \in Ids
  BY Front DEF SendTypeInv, OnSettled
<1>2. t \in Seq(SendTasks)
  BY <1>1, TaskKinds, Back DEF SendTypeInv
<1>3. tasks' = t \o IF closed' THEN <<Close>> ELSE <<>>
  BY DEF OnSettled
<1> HIDE DEF t
<1>4. t \o <<>> = t /\ t \o <<Close>> = Append(t, Close)
  BY <1>2, TaskKinds, ConcatEmptySeq, AppendIsConcat
<1>5. tasks' = IF closed' THEN Append(t, Close) ELSE t
  BY <1>3, <1>4
<1>6. Append(t, Close) \in Seq(SendTasks)
  BY <1>2, TaskKinds, Back
<1> QED BY <1>1, <1>2, <1>5, <1>6 DEF t

\* What the thread takes was the first of the tasks.
LEMMA Takes ==
  ASSUME SendTypeInv, NEW op, Take(op)
  PROVE  /\ thread \in {"waiting", "busy"} /\ ~loading
         /\ 1 \in DOMAIN tasks /\ Head(tasks) = tasks[1] /\ Head(tasks).op = op
         /\ Head(tasks) \in SendTasks
         /\ tasks' = Tail(tasks) /\ tasks' \in Seq(SendTasks)
         /\ \A k \in DOMAIN tasks' : /\ k + 1 \in DOMAIN tasks /\ k + 1 > 1
                                     /\ tasks'[k] = tasks[k + 1]
         /\ \A k \in DOMAIN tasks : k = 1 \/ (/\ k - 1 \in DOMAIN tasks'
                                              /\ tasks'[k - 1] = tasks[k])
BY Front DEF SendTypeInv, Take

\* The record that the cursor of load delivers is the next one of the table.
LEMMA Loads ==
  ASSUME SendTypeInv, LoadRecord
  PROVE  /\ position' \in work /\ position' \in Ids /\ position' > position
         /\ position \in Nat /\ position' \in Nat
         /\ \A i \in work : i > position => i >= position'
         /\ records' = Append(records, position') /\ records' \in Seq(Ids)
         /\ Len(records') <= Capacity
<1>1. Ids \subseteq Nat /\ work \subseteq Ids
  BY DbSendAssumption DEF SendTypeInv
<1>2. position \in Nat
  BY <1>1 DEF SendTypeInv
<1>3. RowsLeft \subseteq Nat /\ RowsLeft /= {}
  BY <1>1 DEF RowsLeft, LoadRecord
<1>4. position' \in RowsLeft /\ \A y \in RowsLeft : position' <= y
  BY <1>3, LeastElement DEF LoadRecord
<1>5. position' \in Ids /\ position' \in Nat /\ position' > position
  BY <1>1, <1>4 DEF RowsLeft
<1>6. /\ records' = Append(records, position') /\ records' \in Seq(Ids)
      /\ Len(records') <= Capacity
  BY <1>5, DbAssumption, Back DEF LoadRecord, SendTypeInv
<1>7. \A i \in work : i > position => i >= position'
  BY <1>1, <1>4, <1>5 DEF RowsLeft
<1> QED BY <1>2, <1>4, <1>5, <1>6, <1>7 DEF RowsLeft

\* A message arrives at the peer.
LEMMA Arrivals ==
  ASSUME SendTypeInv, PeerAccepts \/ PeerReleasesMessage
  PROVE  /\ wire /= <<>> /\ Head(wire) \in Ids
         /\ wire' = Tail(wire) /\ wire' \in Seq(Ids)
         /\ settled' = Append(settled, Head(wire)) /\ settled' \in Seq(Ids)
         /\ log' = log \/ log' = Append(log, Head(wire))
         /\ log' \in Seq(Ids)
<1>1. /\ wire /= <<>> /\ wire' = Tail(wire)
      /\ settled' = Append(settled, Head(wire))
      /\ log' = log \/ log' = Append(log, Head(wire))
  BY DEF PeerAccepts, PeerReleasesMessage, Arrives
<1>2. Head(wire) \in Ids /\ wire' \in Seq(Ids)
  BY <1>1, Front DEF SendTypeInv
<1>3. Append(settled, Head(wire)) \in Seq(Ids) /\ Append(log, Head(wire)) \in Seq(Ids)
  BY <1>2, Back DEF SendTypeInv
<1> QED BY <1>1, <1>2, <1>3 DEF SendTypeInv

LEMMA SendTypeInit ==
  ASSUME SendInit
  PROVE  SendTypeInv
<1>1. \A S : <<>> \in Seq(S) /\ Len(<<>>) = 0
  BY EmptySeq
<1>2. running \in BOOLEAN /\ loading \in BOOLEAN /\ sending \in BOOLEAN
      /\ closed \in BOOLEAN
  BY DEF SendInit, DbInit
<1> QED BY <1>1, <1>2, DbAssumption DEF SendInit, DbInit, SendTypeInv

LEMMA SendTypeStep ==
  ASSUME SendTypeInv, [SendNext]_sendVars
  PROVE  SendTypeInv'
<1>0. \A S : <<>> \in Seq(S) /\ Len(<<>>) = 0
  BY EmptySeq
<1>1. CASE OnSendable
  BY <1>1, DbSendAssumption
  DEF OnSendable, SendTypeInv, dbVars, threadVars
<1>2. CASE SendRecord
  <2>1. /\ Head(records) \in Ids /\ wire' \in Seq(Ids) /\ records' \in Seq(Ids)
        /\ Len(records') <= Capacity
    BY <1>2, Front, Back, DbAssumption DEF SendRecord, CanSend, SendTypeInv
  <2>2. sent' \in Nat /\ credit' \in Nat
    BY <1>2 DEF SendRecord, CanSend, SendTypeInv
  <2> QED BY <1>2, <2>1, <2>2 DEF SendRecord, SendTypeInv, threadVars
<1>3. CASE SendReturns
  BY <1>3 DEF SendReturns, SendTypeInv, dbVars, threadVars, peerVars
<1>4. CASE SendRequests
  BY <1>4, Requests DEF SendRequests, SendTypeInv, threadVars, peerVars
<1>5. CASE OnRecordsLoaded
  <2>1. events' \in Seq({RecordsLoaded}) /\ timers' \in Nat
    BY <1>5, Front DEF OnRecordsLoaded, SendTypeInv
  <2>2. sending' \in BOOLEAN
    BY <1>5 DEF OnRecordsLoaded, SendTypeInv
  <2> QED BY <1>5, <2>1, <2>2 DEF OnRecordsLoaded, SendTypeInv, threadVars, peerVars
<1>6. CASE OnTimerTask
  <2>1. timers' \in Nat
    BY <1>6 DEF OnTimerTask, SendTypeInv
  <2> QED BY <1>6, <2>1, Requests DEF OnTimerTask, SendTypeInv, threadVars, peerVars
<1>7. CASE OnSettled
  <2>1. settled' \in Seq(Ids) /\ confirmed' \in Nat /\ closed' \in BOOLEAN
    BY <1>7, Front DEF OnSettled, SendTypeInv
  <2>2. tasks' \in Seq(SendTasks)
    BY <1>7, Settles
  <2> QED BY <1>7, <2>1, <2>2 DEF OnSettled, SendTypeInv, threadVars
<1>8. CASE OnDisconnected
  <2>1. tasks' \in Seq(SendTasks)
    BY <1>8, TaskKinds, Back DEF OnDisconnected, SendTypeInv
  <2> QED BY <1>0, <1>8, <2>1 DEF OnDisconnected, SendTypeInv, threadVars
<1>9. CASE SendCrash
  <2>1. /\ running' \in BOOLEAN /\ loading' \in BOOLEAN /\ sending' \in BOOLEAN
        /\ closed' \in BOOLEAN
    BY <1>9 DEF SendCrash, DbRestart
  <2> QED BY <1>0, <1>9, <2>1, DbAssumption DEF SendCrash, DbRestart, SendTypeInv
<1>10. CASE SendDbStep
  <2>0. /\ UNCHANGED <<sent, confirmed, sending, timers, closed, credit, wire, settled,
                       log, breaks>>
    BY <1>10 DEF SendDbStep, handlerVars, peerVars
  <2>1. CASE RunLoad
    BY <2>0, <2>1, Takes DEF RunLoad, SendTypeInv
  <2>2. CASE LoadRecord
    BY <2>0, <2>2, Loads DEF LoadRecord, SendTypeInv
  <2>3. CASE LoadDone
    <3>1. events' \in Seq({RecordsLoaded})
      BY <2>3, Back DEF LoadDone, SendTypeInv
    <3> QED BY <2>0, <2>3, <3>1 DEF LoadDone, SendTypeInv
  <2>4. CASE RunReset
    BY <2>0, <2>4, Takes DEF RunReset, SendTypeInv
  <2>5. CASE RunClose
    BY <2>0, <2>5, Takes DEF RunClose, SendTypeInv
  <2>6. CASE RunDelete
    BY <2>0, <2>6, Takes DEF RunDelete, SendTypeInv
  <2>7. CASE Commit
    <3>1. events' \in Seq({RecordsLoaded})
      BY <2>7, ConcatEmptySeq DEF Commit, SendTypeInv
    <3> QED BY <2>0, <2>7, <3>1 DEF Commit, SendTypeInv
  <2> QED BY <1>10, <2>1, <2>2, <2>3, <2>4, <2>5, <2>6, <2>7 DEF SendDbStep
<1>11. CASE PeerAccepts \/ PeerReleasesMessage
  <2>1. wire' \in Seq(Ids) /\ settled' \in Seq(Ids) /\ log' \in Seq(Ids)
    BY <1>11, Arrivals
  <2> QED BY <1>11, <2>1
          DEF PeerAccepts, PeerReleasesMessage, SendTypeInv, dbVars, threadVars,
              handlerVars
<1>12. CASE UNCHANGED sendVars
  BY <1>12 DEF sendVars, dbVars, threadVars, handlerVars, peerVars, SendTypeInv
<1> QED BY <1>1, <1>2, <1>3, <1>4, <1>5, <1>6, <1>7, <1>8, <1>9, <1>10, <1>11, <1>12
        DEF SendNext

-----------------------------------------------------------------------------
(* A sender that may send is woken. *)

\* A request or an answer is on its way.
Owed == \/ events /= <<>>
        \/ loading
        \/ \E k \in DOMAIN tasks : tasks[k] = Load

\* A timer is of use only to a sender without records.
WakeInv ==
  Idle /\ credit > 0 /\ KeepSending => Owed \/ (timers > 0 /\ records = <<>>)

\* What Outstanding counts.
LEMMA Counts ==
  ASSUME SendTypeInv
  PROVE  /\ Owed => Outstanding > 0
         /\ events /= <<>> /\ Outstanding /= 1
              => \/ Tail(events) /= <<>>
                 \/ loading
                 \/ \E k \in DOMAIN tasks : tasks[k] = Load
<1> DEFINE T == {k \in DOMAIN tasks : tasks[k] = Load}
           E == {k \in DOMAIN events : events[k] = RecordsLoaded}
<1>1. /\ tasks \in Seq(SendTasks) /\ events \in Seq({RecordsLoaded})
      /\ DOMAIN tasks = 1..Len(tasks) /\ DOMAIN events = 1..Len(events)
      /\ Len(tasks) \in Nat /\ Len(events) \in Nat
  BY DEF SendTypeInv
<1>2. IsFiniteSet(T) /\ IsFiniteSet(E)
  <2>1. IsFiniteSet(DOMAIN tasks) /\ IsFiniteSet(DOMAIN events)
    BY <1>1, FS_Interval
  <2> QED BY <2>1, FS_Subset
<1>3. /\ Cardinality(T) \in Nat /\ (Cardinality(T) = 0 <=> T = {})
      /\ Cardinality(E) \in Nat /\ (Cardinality(E) = 0 <=> E = {})
  BY <1>2, FS_CardinalityType, FS_EmptySet
<1>4. Outstanding = Cardinality(T) + Cardinality(E) + (IF loading THEN 1 ELSE 0)
  BY DEF Outstanding
<1>5. events /= <<>> => 1 \in E
  <2>1. events /= <<>> => 1 \in DOMAIN events /\ events[1] = RecordsLoaded
    BY <1>1
  <2> QED BY <2>1
<1>6. ASSUME Owed
      PROVE  Outstanding > 0
  <2>1. loading \/ T /= {} \/ E /= {}
    BY <1>5, <1>6 DEF Owed
  <2> HIDE DEF T, E
  <2> QED BY <1>3, <1>4, <2>1
<1>7. ASSUME events /= <<>>, Tail(events) = <<>>, ~loading, T = {}
      PROVE  Outstanding = 1
  <2>1. Len(events) = 1
    BY <1>1, <1>7
  <2>2. E = {1}
    BY <1>1, <1>5, <1>7, <2>1
  <2>3. Cardinality(E) = 1
    BY <2>2, FS_Singleton
  <2>4. Cardinality(T) = 0
    BY <1>3, <1>7
  <2> HIDE DEF T, E
  <2> QED BY <1>4, <1>7, <2>3, <2>4
<1> QED BY <1>6, <1>7

LEMMA WakeInit == SendInit => WakeInv
BY DEF SendInit, WakeInv

LEMMA WakeStep ==
  ASSUME SendTypeInv, WakeInv, [SendNext]_sendVars
  PROVE  WakeInv'
<1>1. CASE OnSendable \/ SendRecord
  <2>1. sending'
    BY <1>1 DEF OnSendable, SendRecord, CanSend
  <2> QED BY <2>1 DEF WakeInv, Idle
<1>2. CASE SendReturns
  BY <1>2 DEF SendReturns, WakeInv, KeepSending, Idle
<1>3. CASE SendRequests
  <2> SUFFICES ASSUME credit > 0
               PROVE  Owed'
    BY <1>3 DEF WakeInv, SendRequests, peerVars
  <2>1. records = <<>>
    BY <1>3 DEF SendRequests, CanSend
  <2>2. tasks' = Append(tasks, Load)
    <3>1. Len(records) < Capacity
      BY <2>1, DbAssumption, EmptySeq
    <3> QED BY <1>3, <3>1 DEF SendRequests, WithRequest
  <2> QED BY <2>2, TaskKinds, Back DEF Owed, SendTypeInv
<1>4. CASE OnRecordsLoaded
  <2>1. /\ events /= <<>> /\ events' = Tail(events)
        /\ UNCHANGED <<tasks, loading, records, credit, sent>>
    BY <1>4 DEF OnRecordsLoaded, threadVars, peerVars
  <2>2. CASE records /= <<>>
    BY <1>4, <2>2 DEF OnRecordsLoaded, WakeInv, Idle
  <2>3. CASE records = <<>> /\ Outstanding = 1
    <3>1. timers' = timers + 1 /\ timers \in Nat
      BY <1>4, <2>3 DEF OnRecordsLoaded, SendTypeInv
    <3>2. timers' > 0
      BY <3>1
    <3> QED BY <2>1, <2>3, <3>2 DEF WakeInv
  <2>4. CASE Outstanding /= 1
    <3>1. Owed'
      BY <2>1, <2>4, Counts DEF Owed
    <3> QED BY <3>1 DEF WakeInv
  <2> QED BY <2>2, <2>3, <2>4
<1>5. CASE OnTimerTask
  <2>1. /\ UNCHANGED <<loading, events, records, credit, sent, sending>>
        /\ tasks' = WithRequest
    BY <1>5 DEF OnTimerTask, threadVars, peerVars
  <2>2. CASE records = <<>>
    <3>1. Len(records) < Capacity
      BY <2>2, DbAssumption, EmptySeq
    <3>2. tasks' = Append(tasks, Load)
      BY <2>1, <3>1 DEF WithRequest
    <3>3. Owed'
      BY <3>2, TaskKinds, Back DEF Owed, SendTypeInv
    <3> QED BY <3>3 DEF WakeInv
  <2>3. CASE records /= <<>>
    <3>1. Owed => Owed'
      BY <2>1, Requests, TaskKinds, Back DEF Owed, SendTypeInv
    <3> QED BY <2>1, <2>3, <3>1 DEF WakeInv, Idle, KeepSending
  <2> QED BY <2>2, <2>3
<1>6. CASE OnSettled
  <2>1. UNCHANGED <<loading, events, records, timers, credit, sent, sending>>
    BY <1>6 DEF OnSettled, threadVars
  <2>2. ASSUME NEW k \in DOMAIN tasks, tasks[k] = Load
        PROVE  \E j \in DOMAIN tasks' : tasks'[j] = Load
    <3> DEFINE t == Append(tasks, Delete(Head(settled)))
    <3>1. /\ tasks \in Seq(SendTasks) /\ Delete(Head(settled)) \in SendTasks
          /\ t \in Seq(SendTasks) /\ Close \in SendTasks
      BY <1>6, Settles, TaskKinds DEF SendTypeInv
    <3>2. k \in DOMAIN t /\ t[k] = Load
      BY <2>2, <3>1, Back
    <3>3. tasks' = t \/ tasks' = Append(t, Close)
      BY <1>6, Settles
    <3> HIDE DEF t
    <3>4. k \in DOMAIN Append(t, Close) /\ Append(t, Close)[k] = Load
      BY <3>1, <3>2, Back
    <3> QED BY <3>2, <3>3, <3>4
  <2>3. Owed => Owed'
    BY <2>1, <2>2 DEF Owed
  <2> QED BY <2>1, <2>3 DEF WakeInv, Idle, KeepSending
<1>7. CASE OnDisconnected \/ SendCrash
  <2>1. ~(credit' > 0)
    BY <1>7 DEF OnDisconnected, SendCrash
  <2> QED BY <2>1 DEF WakeInv
<1>8. CASE SendDbStep
  <2>1. UNCHANGED <<sent, sending, timers, credit>>
    BY <1>8 DEF SendDbStep, handlerVars, peerVars
  <2>2. CASE RunLoad \/ LoadRecord
    <3>1. Owed'
      BY <2>2 DEF RunLoad, LoadRecord, Owed
    <3> QED BY <3>1 DEF WakeInv
  <2>3. CASE LoadDone
    <3>1. Owed'
      BY <2>3, Back DEF LoadDone, Owed, SendTypeInv
    <3> QED BY <3>1 DEF WakeInv
  <2>4. CASE RunReset \/ RunClose \/ RunDelete
    <3>1. /\ UNCHANGED <<loading, events, records>>
          /\ Take("reset") \/ Take("close") \/ Take("delete")
      BY <2>4 DEF RunReset, RunClose, RunDelete
    <3>2. ASSUME NEW k \in DOMAIN tasks, tasks[k] = Load
          PROVE  \E j \in DOMAIN tasks' : tasks'[j] = Load
      BY <3>1, <3>2, Takes, TaskKinds
    <3>3. Owed => Owed'
      BY <3>1, <3>2 DEF Owed
    <3> QED BY <2>1, <3>1, <3>3 DEF WakeInv, Idle, KeepSending
  <2>5. CASE Commit
    <3>1. UNCHANGED <<loading, tasks, records>> /\ events' = events
      BY <2>5, ConcatEmptySeq DEF Commit, SendTypeInv
    <3> QED BY <2>1, <3>1 DEF WakeInv, Idle, KeepSending, Owed
  <2> QED BY <1>8, <2>2, <2>3, <2>4, <2>5 DEF SendDbStep
<1>9. CASE PeerAccepts \/ PeerReleasesMessage \/ UNCHANGED sendVars
  <2>1. UNCHANGED <<loading, events, tasks, records, timers, credit, sent, sending>>
    BY <1>9 DEF PeerAccepts, PeerReleasesMessage, sendVars, dbVars, threadVars,
                handlerVars, peerVars
  <2> QED BY <2>1 DEF WakeInv, Idle, KeepSending, Owed
<1> QED BY <1>1, <1>2, <1>3, <1>4, <1>5, <1>6, <1>7, <1>8, <1>9 DEF SendNext

\* A sender that has credit and is not done has a request or a timer on its way,
\* whatever breaks, crashes and comes late (NeverIdle): on_records_loaded sets a
\* timer exactly for the last answer that found nothing, and send asks for more
\* as long as the queue is not full.
THEOREM NeverIdleHolds == SendSpec => []NeverIdle
<1>1. SendInit => SendTypeInv /\ WakeInv
  BY SendTypeInit, WakeInit
<1>2. SendTypeInv /\ WakeInv /\ [SendNext]_sendVars => (SendTypeInv /\ WakeInv)'
  BY SendTypeStep, WakeStep
<1>3. SendTypeInv /\ WakeInv => NeverIdle
  BY Counts DEF WakeInv, NeverIdle
<1> QED BY <1>1, <1>2, <1>3, PTL DEF SendSpec

-----------------------------------------------------------------------------
(* Without broken connections, records pass in the order of their ids. *)

\* The ids of the messages that are settled, under way, or to be sent.
Stream == settled \o wire \o records

Rising(s) == \A j, k \in DOMAIN s : j < k => s[j] < s[k]

\* Deletions, settlements, messages and records follow each other by their ids,
\* none beyond the position of the cursor, and none of a row that is deleted.
StreamInv ==
  /\ \A k \in DOMAIN tasks : tasks[k].op /= "reset"
  /\ \A j, k \in DOMAIN tasks :
       j < k /\ IsDelete(tasks[j]) /\ IsDelete(tasks[k]) => tasks[j].id < tasks[k].id
  /\ Rising(Stream)
  /\ \A k \in DOMAIN Stream : Stream[k] \in work /\ Stream[k] <= position
  /\ \A k \in DOMAIN tasks :
       IsDelete(tasks[k]) => /\ tasks[k].id \in work /\ tasks[k].id <= position
                             /\ \A j \in DOMAIN Stream : tasks[k].id < Stream[j]

\* The rows that are to be deleted, and with those that are.
DeleteIds == {i \in Ids : \E k \in DOMAIN tasks : tasks[k] = Delete(i)}

Gone == (Ids \ work) \union DeleteIds

\* For each settlement that was counted a row is deleted or will be; the thread
\* closes after the last deletion, when the target is met.
EndInv ==
  /\ IsFiniteSet(Gone) /\ Cardinality(Gone) >= confirmed
  /\ closed => confirmed = Target
  /\ ~running => closed
  /\ \A j \in DOMAIN tasks :
       tasks[j] = Close => closed /\ \A k \in DOMAIN tasks : IsDelete(tasks[k]) => k < j
  /\ ~running => \A k \in DOMAIN tasks : ~IsDelete(tasks[k])
  /\ loading => thread = "busy"
  /\ thread = "ended" => ~running /\ work = table

TargetInv == breaks = 0 => StreamInv /\ EndInv

\* The first element of a sequence goes to the end of the one before.
LEMMA FrontMoves ==
  ASSUME NEW S, NEW a \in Seq(S), NEW s \in Seq(S), s /= <<>>
  PROVE  Append(a, Head(s)) \o Tail(s) = a \o s
<1> DEFINE u == Append(a, Head(s)) \o Tail(s)
           v == a \o s
<1>1. Head(s) \in S /\ Tail(s) \in Seq(S) /\ Len(s) \in Nat /\ Len(a) \in Nat
  BY Front
<1>2. Append(a, Head(s)) \in Seq(S)
  BY <1>1, Back
<1>3. u \in Seq(S) /\ v \in Seq(S)
  BY <1>1, <1>2
<1>4. Len(u) = Len(v)
  BY <1>1, <1>2, Front, Back
<1>5. ASSUME NEW k \in 1..Len(u)
      PROVE  u[k] = v[k]
  <2>1. CASE k <= Len(a)
    BY <1>1, <1>2, <1>4, <2>1
  <2>2. CASE k = Len(a) + 1
    BY <1>1, <1>2, <1>4, <2>2, Front
  <2>3. CASE k > Len(a) + 1
    <3>1. k - (Len(a) + 1) \in 1..Len(Tail(s)) /\ k - Len(a) \in 1..Len(s)
      BY <1>1, <1>2, <1>4, <2>3, Front
    <3>2. u[k] = Tail(s)[k - (Len(a) + 1)]
      BY <1>1, <1>2, <1>4, <2>3
    <3>3. v[k] = s[k - Len(a)]
      BY <1>1, <1>2, <1>4, <2>3
    <3>4. Tail(s)[k - (Len(a) + 1)] = s[k - Len(a)]
      BY <1>1, <3>1, Front
    <3> QED BY <3>2, <3>3, <3>4
  <2> QED BY <1>1, <2>1, <2>2, <2>3
<1> HIDE DEF u, v
<1>6. u = v
  BY <1>3, <1>4, <1>5, SeqEqual
<1> QED BY <1>6 DEF u, v

\* The first element of a sequence is the first of what it begins.
LEMMA FrontLeaves ==
  ASSUME NEW S, NEW s \in Seq(S), NEW t \in Seq(S), s /= <<>>
  PROVE  /\ s \o t \in Seq(S) /\ s \o t /= <<>>
         /\ Head(s \o t) = Head(s)
         /\ Tail(s \o t) = Tail(s) \o t
<1>1. Tail(s) \in Seq(S) /\ Len(s) \in Nat \ {0} /\ Len(t) \in Nat
  BY Front
<1>2. s \o t \in Seq(S) /\ Len(s \o t) = Len(s) + Len(t) /\ Tail(s) \o t \in Seq(S)
  BY <1>1
<1>3. s \o t /= <<>> /\ Head(s \o t) = Head(s)
  BY <1>1, <1>2
<1>4. Tail(s \o t) \in Seq(S) /\ Len(Tail(s \o t)) = Len(Tail(s) \o t)
  BY <1>1, <1>2, <1>3, Front
<1>5. ASSUME NEW k \in 1..Len(Tail(s \o t))
      PROVE  Tail(s \o t)[k] = (Tail(s) \o t)[k]
  <2>1. Tail(s \o t)[k] = (s \o t)[k + 1]
    BY <1>2, <1>3, Front
  <2>2. CASE k <= Len(Tail(s))
    BY <1>1, <1>2, <1>4, <2>1, <2>2, Front
  <2>3. CASE k > Len(Tail(s))
    BY <1>1, <1>2, <1>4, <2>1, <2>3, Front
  <2> QED BY <1>1, <2>2, <2>3, Front
<1> QED BY <1>2, <1>3, <1>4, <1>5, SeqEqual

\* How the steps change the stream: it grows at its end, it loses its first
\* element, and between that it only moves on.
LEMMA StreamMoves ==
  ASSUME SendTypeInv
  PROVE  /\ Stream \in Seq(Ids)
         /\ SendRecord \/ PeerAccepts \/ PeerReleasesMessage => Stream' = Stream
         /\ LoadRecord /\ UNCHANGED <<settled, wire>> => Stream' = Append(Stream, position')
         /\ OnSettled => /\ Stream /= <<>> /\ Head(Stream) = Head(settled)
                         /\ Stream' = Tail(Stream)
<1>1. settled \in Seq(Ids) /\ wire \in Seq(Ids) /\ records \in Seq(Ids)
  BY DEF SendTypeInv
<1>2. settled \o wire \in Seq(Ids) /\ wire \o records \in Seq(Ids) /\ Stream \in Seq(Ids)
  BY <1>1 DEF Stream
<1>3. ASSUME SendRecord
      PROVE  Stream' = Stream
  <2>1. /\ records /= <<>> /\ wire' = Append(wire, Head(records))
        /\ records' = Tail(records) /\ settled' = settled
    BY <1>3 DEF SendRecord, CanSend
  <2>2. wire' \o records' = wire \o records
    BY <1>1, <2>1, FrontMoves
  <2>3. wire' \in Seq(Ids) /\ records' \in Seq(Ids)
    BY <1>1, <2>1, Front, Back
  <2>4. (settled \o wire') \o records' = settled \o (wire' \o records')
    BY <1>1, <2>3, ConcatAssociative
  <2>5. (settled \o wire) \o records = settled \o (wire \o records)
    BY <1>1, ConcatAssociative
  <2> QED BY <2>1, <2>2, <2>4, <2>5 DEF Stream
<1>4. ASSUME PeerAccepts \/ PeerReleasesMessage
      PROVE  Stream' = Stream
  <2>1. /\ wire /= <<>> /\ wire' = Tail(wire)
        /\ settled' = Append(settled, Head(wire)) /\ records' = records
    BY <1>4, Arrivals DEF PeerAccepts, PeerReleasesMessage, dbVars
  <2>2. settled' \o wire' = settled \o wire
    BY <1>1, <2>1, FrontMoves
  <2> QED BY <2>1, <2>2 DEF Stream
<1>5. ASSUME LoadRecord, UNCHANGED <<settled, wire>>
      PROVE  Stream' = Append(Stream, position')
  <2>1. records' = Append(records, position') /\ position' \in Ids
    BY <1>5, Loads
  <2> DEFINE e == <<position'>>
  <2>2. e \in Seq(Ids)
    BY <2>1
  <2>3. records' = records \o e
    BY <1>1, <2>1, AppendIsConcat
  <2>4. Append(Stream, position') = Stream \o e
    BY <1>2, <2>1, AppendIsConcat
  <2>5. (settled \o wire) \o (records \o e) = ((settled \o wire) \o records) \o e
    <3> DEFINE a == settled \o wire
    <3>1. a \in Seq(Ids)
      BY <1>2
    <3> HIDE DEF a, e
    <3>2. a \o (records \o e) = (a \o records) \o e
      BY <1>1, <2>2, <3>1, ConcatAssociative
    <3> QED BY <3>2 DEF a
  <2> QED BY <1>5, <2>3, <2>4, <2>5 DEF Stream
<1>6. ASSUME OnSettled
      PROVE  /\ Stream /= <<>> /\ Head(Stream) = Head(settled)
             /\ Stream' = Tail(Stream)
  <2>1. /\ settled /= <<>> /\ settled' = Tail(settled)
        /\ wire' = wire /\ records' = records
    BY <1>6 DEF OnSettled
  <2>2. /\ settled \o wire /= <<>> /\ Head(settled \o wire) = Head(settled)
        /\ Tail(settled \o wire) = Tail(settled) \o wire
    BY <1>1, <2>1, FrontLeaves
  <2>3. /\ (settled \o wire) \o records /= <<>>
        /\ Head((settled \o wire) \o records) = Head(settled \o wire)
        /\ Tail((settled \o wire) \o records) = Tail(settled \o wire) \o records
    <3> DEFINE a == settled \o wire
    <3>1. a \in Seq(Ids) /\ a /= <<>>
      BY <1>2, <2>2
    <3> HIDE DEF a
    <3>2. a \o records /= <<>> /\ Head(a \o records) = Head(a)
          /\ Tail(a \o records) = Tail(a) \o records
      BY <1>1, <3>1, FrontLeaves
    <3> QED BY <3>2 DEF a
  <2> QED BY <2>1, <2>2, <2>3 DEF Stream
<1> QED BY <1>2, <1>3, <1>4, <1>5, <1>6

\* The tasks move up by d places, unless the first of them is a deletion, and
\* requests may come.
Shift(d) ==
  /\ \A k \in DOMAIN tasks' :
       \/ tasks'[k].op = "load"
       \/ k + d \in DOMAIN tasks /\ tasks'[k] = tasks[k + d]
  /\ \A k \in DOMAIN tasks :
       \/ k = 1 /\ ~IsDelete(tasks[k])
       \/ k - d \in DOMAIN tasks' /\ tasks'[k - d] = tasks[k]

LEMMA Shifts ==
  ASSUME SendTypeInv
  PROVE  /\ tasks' = tasks \/ tasks' = WithRequest => Shift(0)
         /\ \A op : op /= "delete" /\ Take(op) => Shift(1)
         /\ DOMAIN tasks \subseteq Nat
<1>1. tasks \in Seq(SendTasks) /\ DOMAIN tasks \subseteq Nat
  BY DEF SendTypeInv
<1>2. \A k \in DOMAIN tasks : k + 0 = k /\ k - 0 = k
  BY <1>1
<1>3. tasks' = tasks => Shift(0)
  BY <1>2 DEF Shift
<1>4. ASSUME tasks' = Append(tasks, Load)
      PROVE  Shift(0)
  <2>1. DOMAIN tasks' \subseteq Nat /\ \A k \in DOMAIN tasks' : k + 0 = k
    BY <1>1, <1>4, TaskKinds
  <2> QED BY <1>1, <1>2, <1>4, <2>1, TaskKinds, Back DEF Shift
<1>5. ASSUME NEW op, op /= "delete", Take(op)
      PROVE  Shift(1)
  BY <1>5, Takes DEF Shift, IsDelete
<1> QED BY <1>1, <1>3, <1>4, <1>5, Requests

\* The deletions that wait stay the same.
LEMMA DeleteIdsKept ==
  ASSUME SendTypeInv, NEW d \in {0, 1}, Shift(d)
  PROVE  DeleteIds' = DeleteIds
<1>1. ASSUME NEW i \in Ids
      PROVE  (\E k \in DOMAIN tasks' : tasks'[k] = Delete(i))
               <=> \E k \in DOMAIN tasks : tasks[k] = Delete(i)
  BY TaskKinds DEF Shift, IsDelete
<1> QED BY <1>1 DEF DeleteIds

\* Nothing but the places of the tasks changes.
LEMMA StreamKept ==
  ASSUME SendTypeInv, StreamInv, NEW d \in {0, 1}, Shift(d), DOMAIN tasks' \subseteq Nat,
         UNCHANGED <<work, position, Stream>>
  PROVE  StreamInv'
<1>1. \A k \in DOMAIN tasks' : \/ tasks'[k].op = "load"
                               \/ k + d \in DOMAIN tasks /\ tasks'[k] = tasks[k + d]
  BY DEF Shift
<1>2. \A k \in DOMAIN tasks' : tasks'[k].op /= "reset"
  BY <1>1 DEF StreamInv
<1>3. ASSUME NEW j \in DOMAIN tasks', NEW k \in DOMAIN tasks', j < k,
             IsDelete(tasks'[j]), IsDelete(tasks'[k])
      PROVE  tasks'[j].id < tasks'[k].id
  <2>1. j + d < k + d
    BY <1>3
  <2> QED BY <1>1, <1>3, <2>1 DEF StreamInv, IsDelete
<1>4. Rising(Stream)' /\ \A k \in DOMAIN Stream' : Stream'[k] \in work'
                                                   /\ Stream'[k] <= position'
  BY DEF StreamInv, Rising
<1>5. \A k \in DOMAIN tasks' :
        IsDelete(tasks'[k]) => /\ tasks'[k].id \in work' /\ tasks'[k].id <= position'
                               /\ \A j \in DOMAIN Stream' : tasks'[k].id < Stream'[j]
  BY <1>1 DEF StreamInv, IsDelete
<1> QED BY <1>2, <1>3, <1>4, <1>5 DEF StreamInv, IsDelete

\* Where a place in a sequence without its first element was.
LEMMA RisingMoves ==
  ASSUME NEW s \in Seq(Nat), Rising(s)
  PROVE  /\ s /= <<>> => Rising(Tail(s)) /\ \A k \in DOMAIN Tail(s) : Head(s) < Tail(s)[k]
         /\ \A e \in Nat : (\A k \in DOMAIN s : s[k] < e) => Rising(Append(s, e))
<1>1. ASSUME s /= <<>>
      PROVE  Rising(Tail(s)) /\ \A k \in DOMAIN Tail(s) : Head(s) < Tail(s)[k]
  <2>1. /\ 1 \in DOMAIN s /\ Head(s) = s[1] /\ DOMAIN Tail(s) \subseteq Nat
        /\ \A k \in DOMAIN Tail(s) : /\ k + 1 \in DOMAIN s /\ k + 1 > 1
                                     /\ Tail(s)[k] = s[k + 1]
    <3>1. Tail(s) \in Seq(Nat)
      BY <1>1, Front
    <3> QED BY <1>1, <3>1, Front
  <2>2. \A j, k \in DOMAIN Tail(s) : j < k => j + 1 < k + 1
    BY <2>1
  <2>3. \A k \in DOMAIN Tail(s) : 1 < k + 1
    BY <2>1
  <2> QED BY <2>1, <2>2, <2>3 DEF Rising
<1>2. ASSUME NEW e \in Nat, \A k \in DOMAIN s : s[k] < e
      PROVE  Rising(Append(s, e))
  <2>1. /\ \A k \in DOMAIN Append(s, e) :
             \/ k = Len(s) + 1
             \/ k \in DOMAIN s /\ Append(s, e)[k] = s[k]
        /\ Append(s, e)[Len(s) + 1] = e
        /\ \A k \in DOMAIN s : k < Len(s) + 1
        /\ Len(s) \in Nat /\ DOMAIN s \subseteq Nat
    BY Back
  <2>2. \A k \in DOMAIN s : ~(Len(s) + 1 < k)
    BY <2>1
  <2> QED BY <1>2, <2>1, <2>2 DEF Rising
<1> QED BY <1>1, <1>2

\* A sequence of ids is a sequence of numbers.
LEMMA Elements ==
  ASSUME NEW S, NEW T, S \subseteq T, NEW s \in Seq(S)
  PROVE  s \in Seq(T)
<1>1. \A k \in 1..Len(s) : s[k] \in T
  OBVIOUS
<1>2. s = [k \in 1..Len(s) |-> s[k]] /\ Len(s) \in Nat
  OBVIOUS
<1>3. [k \in 1..Len(s) |-> s[k]] \in Seq(T)
  BY <1>1, <1>2
<1> QED BY <1>2, <1>3

LEMMA StreamStep ==
  ASSUME SendTypeInv, StreamInv, breaks' = 0, [SendNext]_sendVars
  PROVE  StreamInv'
<1>0. /\ Stream \in Seq(Ids) /\ Ids \subseteq Nat /\ Stream \in Seq(Nat)
      /\ tasks' \in Seq(SendTasks) /\ DOMAIN tasks' \subseteq Nat
      /\ position \in Nat
  <2>1. Ids \subseteq Nat
    BY DbSendAssumption
  <2>2. tasks' \in Seq(SendTasks)
    BY SendTypeStep DEF SendTypeInv
  <2>3. Stream \in Seq(Ids)
    BY StreamMoves
  <2>4. Stream \in Seq(Nat)
    BY <2>1, <2>3, Elements
  <2>5. position \in Nat
    BY <2>1 DEF SendTypeInv
  <2>6. DOMAIN tasks' \subseteq Nat
    BY <2>2
  <2> QED BY <2>1, <2>2, <2>3, <2>4, <2>5, <2>6
<1>1. ASSUME UNCHANGED <<work, position, settled, wire, records>>,
             tasks' = tasks \/ tasks' = WithRequest
      PROVE  StreamInv'
  BY <1>0, <1>1, Shifts, StreamKept DEF Stream
<1>2. CASE OnSendable \/ SendReturns
  BY <1>1, <1>2 DEF OnSendable, SendReturns, dbVars, threadVars, peerVars
<1>3. CASE SendRequests \/ OnTimerTask
  BY <1>1, <1>3 DEF SendRequests, OnTimerTask, threadVars, peerVars
<1>4. CASE OnRecordsLoaded
  BY <1>1, <1>4 DEF OnRecordsLoaded, threadVars, peerVars
<1>5. CASE SendRecord \/ PeerAccepts \/ PeerReleasesMessage
  <2>1. UNCHANGED <<work, position, tasks>> /\ Stream' = Stream
    BY <1>5, StreamMoves
    DEF SendRecord, PeerAccepts, PeerReleasesMessage, dbVars, threadVars
  <2> QED BY <1>0, <2>1, Shifts, StreamKept
<1>6. CASE OnSettled
  <2> DEFINE x == Head(settled)
  <2>1. /\ Stream /= <<>> /\ Head(Stream) = x /\ Stream' = Tail(Stream)
        /\ x \in Ids
        /\ UNCHANGED <<work, position>>
    BY <1>6, StreamMoves, Settles DEF OnSettled, threadVars
  <2> HIDE DEF x
  <2>2. /\ x \in work /\ x <= position
        /\ \A k \in DOMAIN tasks : IsDelete(tasks[k]) => tasks[k].id < x
    BY <2>1, <1>0, Front DEF StreamInv
  <2>3. /\ Rising(Stream') /\ \A k \in DOMAIN Stream' : x < Stream'[k]
        /\ \A k \in DOMAIN Stream' : \E j \in DOMAIN Stream : Stream'[k] = Stream[j]
    BY <1>0, <2>1, RisingMoves, Front DEF StreamInv
  <2>4. \A k \in DOMAIN tasks' :
          \/ k \in DOMAIN tasks /\ tasks'[k] = tasks[k]
          \/ k = Len(tasks) + 1 /\ tasks'[k] = Delete(x)
          \/ tasks'[k] = Close
    <3> DEFINE t == Append(tasks, Delete(x))
    <3>1. /\ tasks \in Seq(SendTasks) /\ t \in Seq(SendTasks)
          /\ tasks' = t \/ tasks' = Append(t, Close)
          /\ Delete(x) \in SendTasks /\ Close \in SendTasks
      BY <1>6, <2>1, Settles, TaskKinds DEF SendTypeInv, x
    <3>2. \A k \in DOMAIN t : \/ k = Len(tasks) + 1 /\ t[k] = Delete(x)
                              \/ k \in DOMAIN tasks /\ t[k] = tasks[k]
      BY <3>1, Back
    <3> HIDE DEF t
    <3>3. \A k \in DOMAIN Append(t, Close) :
            Append(t, Close)[k] = Close \/ (k \in DOMAIN t /\ Append(t, Close)[k] = t[k])
      BY <3>1, Back
    <3> QED BY <3>1, <3>2, <3>3
  <2>5. /\ \A k \in DOMAIN tasks : k < Len(tasks) + 1 /\ ~(Len(tasks) + 1 < k)
        /\ ~(Len(tasks) + 1 < Len(tasks) + 1)
    BY DEF SendTypeInv
  <2>6. /\ ~IsDelete(Close) /\ Close.op /= "reset"
        /\ Delete(x).id = x /\ Delete(x).op = "delete"
    BY TaskKinds DEF IsDelete
  <2>7. \A k \in DOMAIN tasks' : tasks'[k].op /= "reset"
    BY <2>4, <2>6 DEF StreamInv
  <2>8. \A j, k \in DOMAIN tasks' :
          j < k /\ IsDelete(tasks'[j]) /\ IsDelete(tasks'[k])
            => tasks'[j].id < tasks'[k].id
    BY <2>2, <2>4, <2>5, <2>6 DEF StreamInv
  <2>9. \A k \in DOMAIN tasks' :
          IsDelete(tasks'[k]) => /\ tasks'[k].id \in work /\ tasks'[k].id <= position
                                 /\ \A j \in DOMAIN Stream' : tasks'[k].id < Stream'[j]
    BY <2>2, <2>3, <2>4, <2>6 DEF StreamInv
  <2> QED BY <2>1, <2>3, <2>7, <2>8, <2>9 DEF StreamInv, Rising, IsDelete
<1>7. CASE OnDisconnected
  BY <1>7 DEF OnDisconnected, SendTypeInv
<1>8. CASE SendCrash
  <2>1. /\ tasks' = <<>> /\ settled' = <<>> /\ wire' = <<>> /\ records' = <<>>
    BY <1>8 DEF SendCrash, DbRestart
  <2>2. Stream' = <<>>
    BY <2>1, EmptySeq, ConcatEmptySeq DEF Stream
  <2>3. DOMAIN tasks' = {} /\ DOMAIN Stream' = {}
    BY <2>1, <2>2
  <2> QED BY <2>3 DEF StreamInv, Rising
<1>9. CASE SendDbStep
  <2>1. UNCHANGED <<settled, wire>>
    BY <1>9 DEF SendDbStep, peerVars
  <2>2. CASE RunLoad \/ RunClose
    <3>1. /\ UNCHANGED <<work, position, records>> /\ (Take("load") \/ Take("close"))
      BY <2>2 DEF RunLoad, RunClose
    <3>2. Shift(1)
      BY <3>1, Shifts
    <3> QED BY <1>0, <2>1, <3>1, <3>2, StreamKept DEF Stream
  <2>3. CASE LoadRecord
    <3>1. /\ Stream' = Append(Stream, position') /\ UNCHANGED <<work, tasks>>
          /\ position' \in work /\ position' \in Nat /\ position' \in Ids
          /\ position < position'
      BY <2>1, <2>3, StreamMoves, Loads DEF LoadRecord
    <3>2. \A k \in DOMAIN Stream : Stream[k] \in Nat /\ Stream[k] <= position
      BY <1>0 DEF StreamInv
    <3>3. \A k \in DOMAIN Stream : Stream[k] < position' /\ Stream[k] <= position'
      BY <1>0, <3>1, <3>2
    <3>4. Rising(Stream')
      BY <1>0, <3>1, <3>3, RisingMoves DEF StreamInv
    <3>5. \A k \in DOMAIN Stream' :
            \/ Stream'[k] = position'
            \/ k \in DOMAIN Stream /\ Stream'[k] = Stream[k]
      BY <1>0, <3>1, Back
    <3>6. \A k \in DOMAIN Stream' : Stream'[k] \in work' /\ Stream'[k] <= position'
      BY <3>1, <3>3, <3>5 DEF StreamInv
    <3>7. \A k \in DOMAIN tasks :
            IsDelete(tasks[k]) => tasks[k].id <= position' /\ tasks[k].id < position'
      <4>1. \A k \in DOMAIN tasks : IsDelete(tasks[k]) => tasks[k].id \in Nat
        <5>1. \A k \in DOMAIN tasks : tasks[k] \in SendTasks
          BY DEF SendTypeInv
        <5>2. \A t \in SendTasks : IsDelete(t) => t.id \in Ids
          BY TaskKinds DEF IsDelete
        <5> QED BY <1>0, <5>1, <5>2
      <4> QED BY <1>0, <3>1, <4>1 DEF StreamInv
    <3> QED BY <3>1, <3>4, <3>5, <3>6, <3>7 DEF StreamInv, Rising, IsDelete
  <2>4. CASE LoadDone \/ Commit
    BY <1>1, <2>1, <2>4 DEF LoadDone, Commit
  <2>5. CASE RunReset
    BY <2>5, Takes DEF RunReset, StreamInv
  <2>6. CASE RunDelete
    <3> DEFINE x == tasks[1].id
    <3>1. /\ Stream' = Stream /\ position' = position /\ work' = work \ {x}
          /\ 1 \in DOMAIN tasks /\ IsDelete(tasks[1])
          /\ \A k \in DOMAIN tasks' : /\ k + 1 \in DOMAIN tasks /\ 1 < k + 1
                                      /\ tasks'[k] = tasks[k + 1]
      BY <2>1, <2>6, Takes DEF RunDelete, IsDelete, Stream
    <3>2. x \in Nat
      BY <1>0, <3>1 DEF StreamInv, SendTypeInv
    <3>3. \A k \in DOMAIN Stream : Stream[k] \in work'
      BY <1>0, <3>1, <3>2 DEF StreamInv
    <3>4. \A k \in DOMAIN tasks' :
            IsDelete(tasks'[k]) => x < tasks'[k].id /\ tasks'[k].id \in work
      BY <3>1 DEF StreamInv
    <3>5. \A k \in DOMAIN tasks' : IsDelete(tasks'[k]) => tasks'[k].id \in work'
      BY <3>1, <3>2, <3>4
    <3>6. \A j, k \in DOMAIN tasks' : j < k => j + 1 < k + 1
      BY <1>0
    <3> HIDE DEF x
    <3>7. \A k \in DOMAIN tasks' : tasks'[k].op /= "reset"
      BY <3>1 DEF StreamInv
    <3>8. \A j, k \in DOMAIN tasks' :
            j < k /\ IsDelete(tasks'[j]) /\ IsDelete(tasks'[k])
              => tasks'[j].id < tasks'[k].id
      BY <3>1, <3>6 DEF StreamInv
    <3>9. \A k \in DOMAIN tasks' :
            IsDelete(tasks'[k]) => /\ tasks'[k].id <= position
                                   /\ \A j \in DOMAIN Stream : tasks'[k].id < Stream[j]
      BY <3>1 DEF StreamInv
    <3> QED BY <3>1, <3>3, <3>5, <3>7, <3>8, <3>9 DEF StreamInv, Rising, IsDelete
  <2> QED BY <1>9, <2>2, <2>3, <2>4, <2>5, <2>6 DEF SendDbStep
<1>10. CASE UNCHANGED sendVars
  BY <1>1, <1>10 DEF sendVars, dbVars, threadVars, peerVars
<1> QED BY <1>2, <1>3, <1>4, <1>5, <1>6, <1>7, <1>8, <1>9, <1>10 DEF SendNext

\* What a handler or a step of the thread that adds and removes no deletion
\* leaves as it was.
LEMMA EndKept ==
  ASSUME SendTypeInv, EndInv, NEW d \in {0, 1}, Shift(d), DOMAIN tasks' \subseteq Nat,
         UNCHANGED <<work, closed>>
  PROVE  /\ Gone' = Gone
         /\ \A j \in DOMAIN tasks' :
              tasks'[j] = Close
                => closed' /\ \A k \in DOMAIN tasks' : IsDelete(tasks'[k]) => k < j
         /\ (\A k \in DOMAIN tasks : ~IsDelete(tasks[k]))
              => \A k \in DOMAIN tasks' : ~IsDelete(tasks'[k])
<1>1. \A k \in DOMAIN tasks' : \/ tasks'[k].op = "load"
                               \/ k + d \in DOMAIN tasks /\ tasks'[k] = tasks[k + d]
  BY DEF Shift
<1>2. Gone' = Gone
  BY DeleteIdsKept DEF Gone
<1>3. ASSUME NEW j \in DOMAIN tasks', tasks'[j] = Close,
             NEW k \in DOMAIN tasks', IsDelete(tasks'[k])
      PROVE  k < j
  <2>1. /\ j + d \in DOMAIN tasks /\ tasks[j + d] = Close
        /\ k + d \in DOMAIN tasks /\ IsDelete(tasks[k + d])
    BY <1>1, <1>3, TaskKinds DEF IsDelete
  <2>2. k + d < j + d
    BY <2>1 DEF EndInv
  <2> QED BY <2>2
<1>4. ASSUME NEW j \in DOMAIN tasks', tasks'[j] = Close
      PROVE  closed'
  <2>1. j + d \in DOMAIN tasks /\ tasks[j + d] = Close
    BY <1>1, <1>4, TaskKinds
  <2> QED BY <2>1 DEF EndInv
<1>5. ASSUME \A k \in DOMAIN tasks : ~IsDelete(tasks[k]), NEW k \in DOMAIN tasks'
      PROVE  ~IsDelete(tasks'[k])
  BY <1>1, <1>5 DEF IsDelete
<1> QED BY <1>2, <1>3, <1>4, <1>5

\* The tasks after a settlement: the deletion is the last of them, but for the
\* one that closes.
LEMMA SettledTasks ==
  ASSUME SendTypeInv, OnSettled
  PROVE  /\ \A k \in DOMAIN tasks : k \in DOMAIN tasks' /\ tasks'[k] = tasks[k]
         /\ Len(tasks) + 1 \in DOMAIN tasks'
         /\ tasks'[Len(tasks) + 1] = Delete(Head(settled))
         /\ \A k \in DOMAIN tasks' :
              \/ k \in DOMAIN tasks /\ tasks'[k] = tasks[k]
              \/ k = Len(tasks) + 1 /\ tasks'[k] = Delete(Head(settled))
              \/ k = Len(tasks) + 2 /\ tasks'[k] = Close /\ closed'
<1> DEFINE t == Append(tasks, Delete(Head(settled)))
<1>1. /\ tasks \in Seq(SendTasks) /\ Delete(Head(settled)) \in SendTasks
      /\ t \in Seq(SendTasks) /\ Close \in SendTasks
      /\ tasks' = t \/ (tasks' = Append(t, Close) /\ closed')
  <2>1. tasks' = t \/ (tasks' = Append(t, Close) /\ closed')
    BY Settles
  <2> QED BY <2>1, Settles, TaskKinds DEF SendTypeInv
<1>2. /\ \A k \in DOMAIN tasks : k \in DOMAIN t /\ t[k] = tasks[k]
      /\ Len(tasks) + 1 \in DOMAIN t /\ Len(t) = Len(tasks) + 1
      /\ t[Len(tasks) + 1] = Delete(Head(settled))
      /\ \A k \in DOMAIN t : \/ k = Len(tasks) + 1 /\ t[k] = Delete(Head(settled))
                             \/ k \in DOMAIN tasks /\ t[k] = tasks[k]
  BY <1>1, Back
<1> HIDE DEF t
<1>3. /\ \A k \in DOMAIN t : k \in DOMAIN Append(t, Close) /\ Append(t, Close)[k] = t[k]
      /\ \A k \in DOMAIN Append(t, Close) :
           \/ k = Len(t) + 1 /\ Append(t, Close)[k] = Close
           \/ k \in DOMAIN t /\ Append(t, Close)[k] = t[k]
  BY <1>1, Back
<1>4. Len(t) + 1 = Len(tasks) + 2
  BY <1>1, <1>2
<1> QED BY <1>1, <1>2, <1>3, <1>4

\* A row that is settled is one that goes.
GoneMoves == \/ Gone' \subseteq Gone
             \/ OnSettled /\ Gone' = Gone \union {Head(settled)}

LEMMA EndStep ==
  ASSUME SendTypeInv, StreamInv, EndInv, breaks' = 0, [SendNext]_sendVars
  PROVE  EndInv' /\ GoneMoves
<1>0. /\ Ids \subseteq Nat /\ tasks \in Seq(SendTasks) /\ tasks' \in Seq(SendTasks)
      /\ DOMAIN tasks' \subseteq Nat /\ DOMAIN tasks \subseteq Nat /\ Len(tasks) \in Nat
  <2>1. tasks' \in Seq(SendTasks) /\ tasks \in Seq(SendTasks)
    BY SendTypeStep DEF SendTypeInv
  <2> QED BY <2>1, DbSendAssumption
<1>1. ASSUME UNCHANGED <<table, work, thread, running, loading, confirmed, closed>>,
             tasks' = tasks \/ tasks' = WithRequest
      PROVE  EndInv' /\ GoneMoves
  <2>1. Shift(0)
    BY <1>1, Shifts
  <2> QED BY <1>0, <1>1, <2>1, EndKept DEF EndInv, GoneMoves
<1>2. CASE OnSendable \/ SendReturns
  BY <1>1, <1>2 DEF OnSendable, SendReturns, dbVars, threadVars, peerVars
<1>3. CASE SendRecord \/ SendRequests \/ OnTimerTask \/ OnRecordsLoaded
  BY <1>1, <1>3 DEF SendRecord, SendRequests, OnTimerTask, OnRecordsLoaded, threadVars
<1>4. CASE PeerAccepts \/ PeerReleasesMessage
  BY <1>1, <1>4 DEF PeerAccepts, PeerReleasesMessage, dbVars, threadVars, handlerVars
<1>5. CASE OnSettled
  <2> DEFINE x == Head(settled)
  <2>1. /\ UNCHANGED <<table, work, thread, running, loading>>
        /\ ~closed /\ confirmed' = confirmed + 1 /\ confirmed \in Nat
        /\ closed' <=> confirmed' = Target
    BY <1>5 DEF OnSettled, threadVars, SendTypeInv
  <2>2. x \in Ids /\ Stream /= <<>> /\ Head(Stream) = x /\ Stream \in Seq(Ids)
    BY <1>5, Settles, StreamMoves
  <2>3. x \in work /\ \A k \in DOMAIN tasks : IsDelete(tasks[k]) => tasks[k].id < x
    BY <2>2, Front DEF StreamInv
  <2> HIDE DEF x
  <2>4. x \notin Gone
    <3>1. x \notin DeleteIds
      <4> SUFFICES ASSUME NEW k \in DOMAIN tasks, tasks[k] = Delete(x)
                   PROVE  FALSE
        BY DEF DeleteIds
      <4>1. IsDelete(tasks[k]) /\ tasks[k].id = x
        BY TaskKinds DEF IsDelete
      <4> QED BY <1>0, <2>2, <2>3, <4>1
    <3> QED BY <2>3, <3>1 DEF Gone
  <2>5. DeleteIds' = DeleteIds \union {x}
    <3>1. ASSUME NEW i \in Ids
          PROVE  (\E k \in DOMAIN tasks' : tasks'[k] = Delete(i))
                   <=> i = x \/ \E k \in DOMAIN tasks : tasks[k] = Delete(i)
      <4>1. Delete(i) /= Close /\ (Delete(i) = Delete(x) => i = x)
        BY TaskKinds
      <4> QED BY <1>5, <4>1, SettledTasks DEF x
    <3> QED BY <2>2, <3>1 DEF DeleteIds
  <2>6. Gone' = Gone \union {x}
    BY <2>1, <2>5 DEF Gone
  <2>7. /\ IsFiniteSet(Gone') /\ Cardinality(Gone') = Cardinality(Gone) + 1
        /\ Cardinality(Gone) \in Nat
    <3> DEFINE G == Gone
    <3>1. IsFiniteSet(G) /\ x \notin G
      BY <2>4 DEF EndInv
    <3> HIDE DEF G
    <3>2. /\ IsFiniteSet(G \union {x}) /\ Cardinality(G) \in Nat
          /\ Cardinality(G \union {x}) = Cardinality(G) + 1
      BY <3>1, FS_AddElement, FS_CardinalityType
    <3> QED BY <2>6, <3>2 DEF G
  <2>8. Cardinality(Gone') >= confirmed'
    BY <2>1, <2>7 DEF EndInv
  <2>9. running' /\ thread' /= "ended"
    BY <2>1 DEF EndInv
  <2>10. ASSUME NEW j \in DOMAIN tasks', tasks'[j] = Close
         PROVE  closed' /\ \A k \in DOMAIN tasks' : IsDelete(tasks'[k]) => k < j
    <3>1. \A k \in DOMAIN tasks : tasks[k] /= Close
      BY <2>1 DEF EndInv
    <3>2. Delete(x) /= Close /\ ~IsDelete(Close)
      BY TaskKinds DEF IsDelete
    <3>3. j = Len(tasks) + 2 /\ closed'
      BY <1>5, <2>10, <3>1, <3>2, SettledTasks DEF x
    <3>4. \A k \in DOMAIN tasks : k < Len(tasks) + 2
      BY <1>0
    <3>5. Len(tasks) + 1 < Len(tasks) + 2
      BY <1>0
    <3> QED BY <1>5, <3>2, <3>3, <3>4, <3>5, SettledTasks DEF x
  <2> QED BY <2>1, <2>7, <1>5, <2>6, <2>8, <2>9, <2>10 DEF EndInv, GoneMoves, x
<1>6. CASE OnDisconnected
  BY <1>6 DEF OnDisconnected, SendTypeInv
<1>7. CASE SendCrash
  <2>1. /\ tasks' = <<>> /\ work' = table /\ running' = TRUE /\ loading' = FALSE
        /\ thread' = "waiting" /\ confirmed' = 0 /\ ~closed'
    BY <1>7 DEF SendCrash, DbRestart
  <2>2. DOMAIN tasks' = {}
    BY <2>1
  <2>3. DeleteIds' = {}
    BY <2>2 DEF DeleteIds
  <2>4. Gone' \subseteq Gone
    BY <2>1, <2>3 DEF Gone, SendTypeInv
  <2>5. IsFiniteSet(Gone') /\ Cardinality(Gone') \in Nat
    <3> DEFINE G == Gone
               H == Gone'
    <3>1. IsFiniteSet(G) /\ H \subseteq G
      BY <2>4 DEF EndInv
    <3> HIDE DEF G, H
    <3>2. IsFiniteSet(H) /\ Cardinality(H) \in Nat
      BY <3>1, FS_Subset, FS_CardinalityType
    <3> QED BY <3>2 DEF H
  <2> QED BY <2>1, <2>2, <2>4, <2>5 DEF EndInv, GoneMoves
<1>8. CASE SendDbStep
  <2>1. UNCHANGED <<confirmed, closed>>
    BY <1>8 DEF SendDbStep, handlerVars
  <2>2. CASE RunLoad \/ RunClose
    <3>1. /\ UNCHANGED <<table, work>> /\ thread' = "busy"
          /\ Take("load") \/ Take("close")
      BY <2>2 DEF RunLoad, RunClose
    <3>2. Shift(1)
      BY <3>1, Shifts
    <3>3. ASSUME RunClose
          PROVE  closed /\ \A k \in DOMAIN tasks : ~IsDelete(tasks[k])
      <4>1. 1 \in DOMAIN tasks /\ tasks[1] = Close
        BY <3>3, Takes, TaskKinds DEF RunClose
      <4>2. \A k \in DOMAIN tasks : ~(k < 1)
        BY <1>0
      <4> QED BY <4>1, <4>2 DEF EndInv
    <3>4. RunLoad => running' = running
      BY DEF RunLoad
    <3>5. ~running' => closed /\ \A k \in DOMAIN tasks : ~IsDelete(tasks[k])
      BY <2>2, <3>3, <3>4 DEF EndInv
    <3> QED BY <1>0, <2>1, <3>1, <3>2, <3>5, EndKept DEF EndInv, GoneMoves
  <2>3. CASE LoadRecord
    BY <1>1, <2>1, <2>3 DEF LoadRecord
  <2>4. CASE LoadDone
    <3>1. UNCHANGED <<table, work, thread, running, tasks>> /\ ~loading'
      BY <2>4 DEF LoadDone
    <3>2. Shift(0)
      BY <3>1, Shifts
    <3> QED BY <1>0, <2>1, <3>1, <3>2, EndKept DEF EndInv, GoneMoves
  <2>5. CASE RunReset
    BY <2>5, Takes DEF RunReset, StreamInv
  <2>6. CASE RunDelete
    <3> DEFINE x == tasks[1].id
    <3>1. /\ work' = work \ {x} /\ UNCHANGED <<table, running, loading>>
          /\ thread' = "busy"
          /\ 1 \in DOMAIN tasks /\ tasks[1] \in SendTasks /\ IsDelete(tasks[1])
          /\ \A k \in DOMAIN tasks' : /\ k + 1 \in DOMAIN tasks /\ tasks'[k] = tasks[k + 1]
          /\ \A k \in DOMAIN tasks : k = 1 \/ (/\ k - 1 \in DOMAIN tasks'
                                               /\ tasks'[k - 1] = tasks[k])
      BY <2>6, Takes DEF RunDelete, IsDelete
    <3>2. x \in Ids /\ tasks[1] = Delete(x)
      <4>1. \/ tasks[1] \in {Load, Reset, Close}
            \/ \E i \in Ids : tasks[1] = Delete(i)
        BY <3>1 DEF SendTasks
      <4> QED BY <3>1, <4>1, TaskKinds DEF IsDelete
    <3> HIDE DEF x
    <3>3. Gone' = Gone
      <4>1. ASSUME NEW i \in Ids
            PROVE  i \notin work' \/ (\E k \in DOMAIN tasks' : tasks'[k] = Delete(i))
                     <=> i \notin work \/ \E k \in DOMAIN tasks : tasks[k] = Delete(i)
        <5>1. Delete(i) = Delete(x) => i = x
          BY TaskKinds
        <5>2. (\E k \in DOMAIN tasks : tasks[k] = Delete(i))
                <=> i = x \/ \E k \in DOMAIN tasks' : tasks'[k] = Delete(i)
          BY <3>1, <3>2, <5>1
        <5> QED BY <3>1, <5>2
      <4> QED BY <4>1 DEF Gone, DeleteIds
    <3>4. running
      BY <3>1 DEF EndInv
    <3>5. ASSUME NEW j \in DOMAIN tasks', tasks'[j] = Close
          PROVE  closed /\ \A k \in DOMAIN tasks' : IsDelete(tasks'[k]) => k < j
      <4>1. j + 1 \in DOMAIN tasks /\ tasks[j + 1] = Close
        BY <3>1, <3>5
      <4>2. closed /\ \A k \in DOMAIN tasks' : IsDelete(tasks'[k]) => k + 1 < j + 1
        BY <3>1, <4>1 DEF EndInv
      <4>3. \A k \in DOMAIN tasks' : k + 1 < j + 1 => k < j
        BY <1>0
      <4> QED BY <4>2, <4>3
    <3> QED BY <2>1, <3>1, <3>3, <3>4, <3>5 DEF EndInv, GoneMoves
  <2>7. CASE Commit
    <3>1. /\ table' = work /\ UNCHANGED <<work, tasks, running, loading>> /\ ~loading
          /\ thread' = IF running THEN "waiting" ELSE "ended"
      BY <2>7 DEF Commit
    <3>2. Shift(0)
      BY <3>1, Shifts
    <3> QED BY <1>0, <2>1, <3>1, <3>2, EndKept DEF EndInv, GoneMoves
  <2> QED BY <1>8, <2>2, <2>3, <2>4, <2>5, <2>6, <2>7 DEF SendDbStep
<1>9. CASE UNCHANGED sendVars
  BY <1>1, <1>9 DEF sendVars, dbVars, threadVars, handlerVars
<1> QED BY <1>2, <1>3, <1>4, <1>5, <1>6, <1>7, <1>8, <1>9 DEF SendNext

LEMMA TargetInit ==
  ASSUME SendInit
  PROVE  TargetInv
<1>1. /\ tasks = <<>> /\ records = <<>> /\ settled = <<>> /\ wire = <<>>
      /\ work = Ids /\ table = Ids /\ confirmed = 0 /\ running /\ ~loading
      /\ ~closed /\ thread = "waiting"
  BY DEF SendInit, DbInit
<1>2. Stream = <<>>
  BY <1>1, EmptySeq, ConcatEmptySeq DEF Stream
<1>3. DOMAIN tasks = {} /\ DOMAIN Stream = {}
  BY <1>1, <1>2
<1>4. Gone = {}
  BY <1>1, <1>3 DEF Gone, DeleteIds
<1>5. IsFiniteSet(Gone) /\ Cardinality(Gone) = 0
  BY <1>4, FS_EmptySet
<1> QED BY <1>1, <1>3, <1>5 DEF TargetInv, StreamInv, EndInv, Rising

LEMMA BreaksStay ==
  ASSUME SendTypeInv, [SendNext]_sendVars
  PROVE  breaks' = 0 => breaks = 0
BY DEF SendTypeInv, SendNext, sendVars, OnSendable, SendRecord, SendReturns,
       SendRequests, OnRecordsLoaded, OnTimerTask, OnSettled, OnDisconnected,
       SendCrash, SendDbStep, PeerAccepts, PeerReleasesMessage

LEMMA TargetStep ==
  ASSUME SendTypeInv, TargetInv, [SendNext]_sendVars
  PROVE  TargetInv'
BY BreaksStay, StreamStep, EndStep DEF TargetInv

LEMMA TargetImplies ==
  ASSUME SendTypeInv, TargetInv
  PROVE  TargetDeleted
<1> SUFFICES ASSUME thread = "ended", breaks = 0
             PROVE  Cardinality(Ids \ table) >= Target
  BY DEF TargetDeleted
<1>1. /\ ~running /\ work = table /\ closed /\ confirmed = Target
      /\ \A k \in DOMAIN tasks : ~IsDelete(tasks[k])
  BY DEF TargetInv, EndInv
<1>2. DeleteIds = {}
  BY <1>1, TaskKinds DEF DeleteIds, IsDelete
<1>3. Gone = Ids \ table
  BY <1>1, <1>2 DEF Gone
<1> QED BY <1>1, <1>3 DEF TargetInv, EndInv

\* A sender ends only when as many rows as it was to send are deleted from the
\* file (TargetDeleted): deletions are of different rows, in the order of the
\* settlements that on_settled counts, the task that closes comes after the last
\* of them, and the thread ends only after the commit that follows.
THEOREM TargetDeletedHolds == SendSpec => []TargetDeleted
<1>1. SendInit => SendTypeInv /\ TargetInv
  BY SendTypeInit, TargetInit
<1>2. SendTypeInv /\ TargetInv /\ [SendNext]_sendVars => (SendTypeInv /\ TargetInv)'
  BY SendTypeStep, TargetStep
<1>3. SendTypeInv /\ TargetInv => TargetDeleted
  BY TargetImplies
<1> QED BY <1>1, <1>2, <1>3, PTL DEF SendSpec

-----------------------------------------------------------------------------
(* Both programs. *)

\* The receiver with what is proved about it.
Dst == INSTANCE DbRecvProofs WITH
  table <- dstTable, work <- dstWork, tasks <- dstTasks, thread <- dstThread,
  running <- dstRunning, pending <- dstPending, events <- dstEvents,
  position <- dstPosition, loading <- dstLoading, records <- dstRecords,
  Rows <- Ids, MaxLog <- 0

LEMMA DstAssumptions == Dst!DbAssumption /\ Dst!DbRecvAssumption /\ Dst!RowsAssumption
BY DbAssumption, DbSendAssumption, BridgeAssumption
DEF Dst!DbAssumption, Dst!DbRecvAssumption, Dst!RowsAssumption

\* The receiver of the bridge is that one.
LEMMA SameReceiver == Receiver!RecvNext <=> Dst!RecvNext
<1>1. Receiver!ToHandOut = Dst!ToHandOut
  BY DEF Receiver!ToHandOut, Dst!ToHandOut
<1>2. Receiver!Min(Receiver!ToHandOut) = Dst!Min(Dst!ToHandOut)
  BY <1>1, Zenon DEF Receiver!Min, Dst!Min
<1>3. Receiver!Incoming <=> Dst!Incoming
  BY <1>1, <1>2, Zenon DEF Receiver!Incoming, Dst!Incoming
<1> QED
  BY <1>3, Zenon
    DEF Receiver!RecvNext, Dst!RecvNext, Receiver!OnMessage, Dst!OnMessage,
        Receiver!OnIdLoaded, Dst!OnIdLoaded, Receiver!InsertMessage,
        Dst!InsertMessage, Receiver!ReleaseMessage, Dst!ReleaseMessage,
        Receiver!AcceptDuplicate, Dst!AcceptDuplicate, Receiver!OnRecordInserted,
        Dst!OnRecordInserted, Receiver!RecvDbStep, Dst!RecvDbStep,
        Receiver!NodeHears, Dst!NodeHears, Receiver!RecvCrash, Dst!RecvCrash,
        Receiver!LinkBreaks, Dst!LinkBreaks, Receiver!RunGetId, Dst!RunGetId,
        Receiver!RunInsert, Dst!RunInsert, Receiver!RunClose, Dst!RunClose,
        Receiver!Commit, Dst!Commit, Receiver!Take, Dst!Take, Receiver!DbRestart,
        Dst!DbRestart, Receiver!GetId, Dst!GetId, Receiver!Insert, Dst!Insert,
        Receiver!Close, Dst!Close, Receiver!RecordInserted, Dst!RecordInserted,
        Receiver!IdLoaded, Dst!IdLoaded, Receiver!Handles, Dst!Handles,
        Receiver!IsNew, Dst!IsNew, Receiver!Max, Dst!Max, Receiver!threadVars,
        Dst!threadVars, Receiver!dbVars, Dst!dbVars, Receiver!receiverVars,
        Dst!receiverVars, Receiver!nodeVars, Dst!nodeVars, Receiver!faultVars,
        Dst!faultVars

InLog(i) == \E k \in DOMAIN log : log[k] = i

\* The node has accepted what is deleted or settled, and every row that the cursor
\* has passed is accepted or on its way.
LogInv ==
  /\ \A i \in Gone : InLog(i)
  /\ \A k \in DOMAIN settled : InLog(settled[k])
  /\ \A i \in Ids : i <= position => InLog(i) \/ \E k \in DOMAIN Stream : Stream[k] = i

Whole == breaks = 0 /\ link = 0 /\ ~PeerReleases

BridgeInv == link \in Nat /\ (Whole => LogInv /\ Dst!LossInv)

\* The log only grows, and rows stay in it.
LEMMA StaysInLog ==
  ASSUME SendTypeInv, NEW x \in Ids, log' = log \/ log' = Append(log, x)
  PROVE  /\ \A i \in Ids : InLog(i) => InLog(i)'
         /\ log' = Append(log, x) => InLog(x)'
<1>1. log \in Seq(Ids)
  BY DEF SendTypeInv
<1>2. ASSUME log' = log
      PROVE  \A i \in Ids : InLog(i) => InLog(i)'
  BY <1>2, Zenon DEF InLog
<1>3. ASSUME log' = Append(log, x)
      PROVE  (\A i \in Ids : InLog(i) => InLog(i)') /\ InLog(x)'
  BY <1>1, <1>3, Back DEF InLog
<1> QED BY <1>2, <1>3

\* The next message for the node follows all rows with smaller ids.
LEMMA InOrder ==
  ASSUME SendTypeInv, StreamInv, LogInv, Dst!Sequenced(log), PeerAccepts
  PROVE  Dst!Sequenced(log')
<1> DEFINE x == Head(wire)
<1>1. /\ x \in Ids /\ log' = Append(log, x) /\ log \in Seq(Ids) /\ Len(log) \in Nat
      /\ wire /= <<>> /\ wire \in Seq(Ids) /\ settled \in Seq(Ids)
      /\ records \in Seq(Ids) /\ Ids \subseteq Nat /\ Stream \in Seq(Ids)
  BY Arrivals, StreamMoves, DbSendAssumption DEF PeerAccepts, SendTypeInv
<1>2. /\ Len(settled) + 1 \in DOMAIN Stream /\ Stream[Len(settled) + 1] = x
      /\ \A k \in DOMAIN Stream : \/ k \in DOMAIN settled /\ Stream[k] = settled[k]
                                  \/ k >= Len(settled) + 1
  <2> DEFINE t == wire \o records
  <2>1. t \in Seq(Ids) /\ t /= <<>> /\ Head(t) = x
    <3>1. wire \in Seq(Ids) /\ records \in Seq(Ids) /\ wire /= <<>>
      BY <1>1
    <3> QED BY <3>1, FrontLeaves
  <2>2. Stream = settled \o t
    <3>1. settled \in Seq(Ids) /\ wire \in Seq(Ids) /\ records \in Seq(Ids)
      BY <1>1
    <3>2. (settled \o wire) \o records = settled \o (wire \o records)
      BY <3>1, ConcatAssociative
    <3> QED BY <3>2 DEF Stream
  <2> HIDE DEF t, x
  <2>3. Len(t) \in Nat \ {0} /\ Len(settled) \in Nat /\ t[1] = x
    BY <1>1, <2>1
  <2> QED BY <1>1, <2>1, <2>2, <2>3
<1> HIDE DEF x
<1>3. ASSUME NEW r \in Ids, r < x
      PROVE  \E j \in 1..Len(log) : log[j] = r
  <2>1. x <= position
    BY <1>2 DEF StreamInv
  <2>2. r <= position
    BY <1>1, <1>3, <2>1 DEF SendTypeInv
  <2>3. ASSUME NEW k \in DOMAIN Stream, Stream[k] = r
        PROVE  InLog(r)
    <3>1. k \in Nat /\ Len(settled) + 1 \in Nat /\ r \in Nat /\ x \in Nat
      BY <1>1
    <3>2. ~(Len(settled) + 1 < k)
      BY <1>2, <1>3, <2>3, <3>1 DEF StreamInv, Rising
    <3>3. k /= Len(settled) + 1
      BY <1>2, <1>3, <2>3, <3>1
    <3>4. k \in DOMAIN settled /\ settled[k] = r
      BY <1>2, <2>3, <3>1, <3>2, <3>3
    <3> QED BY <3>4 DEF LogInv
  <2>4. InLog(r)
    BY <2>2, <2>3 DEF LogInv
  <2> QED BY <1>1, <2>4 DEF InLog
<1> DEFINE a == Append(log, x)
<1>4. /\ \A k \in DOMAIN a : \/ k = Len(log) + 1 /\ a[k] = x
                             \/ k \in DOMAIN log /\ a[k] = log[k]
      /\ \A k \in DOMAIN log : a[k] = log[k]
  <2>1. log \in Seq(Ids) /\ x \in Ids
    BY <1>1
  <2>2. /\ \A k \in DOMAIN a : \/ k = Len(log) + 1
                               \/ k \in DOMAIN log /\ a[k] = log[k]
        /\ a[Len(log) + 1] = x
        /\ \A k \in DOMAIN log : a[k] = log[k]
    BY <2>1, Back
  <2> HIDE DEF a
  <2> QED BY <2>2
<1>5. /\ DOMAIN log = 1..Len(log) /\ 1..(Len(log) + 1 - 1) = DOMAIN log
      /\ \A k \in DOMAIN log : 1..(k - 1) \subseteq DOMAIN log
  BY <1>1
<1> HIDE DEF a
<1>6. ASSUME NEW k \in DOMAIN a, NEW r \in Ids, r < a[k]
      PROVE  \E j \in 1..(k - 1) : a[j] = r
  <2>1. CASE k \in DOMAIN log /\ a[k] = log[k]
    <3>1. \E j \in 1..(k - 1) : log[j] = r
      BY <1>6, <2>1 DEF Dst!Sequenced
    <3> QED BY <1>4, <1>5, <2>1, <3>1
  <2>2. CASE k = Len(log) + 1 /\ a[k] = x
    <3>1. \E j \in 1..Len(log) : log[j] = r
      BY <1>3, <1>6, <2>2
    <3> QED BY <1>4, <1>5, <2>2, <3>1
  <2> QED BY <1>4, <2>1, <2>2
<1>7. log' = a
  BY <1>1 DEF a
<1>8. Dst!Sequenced(a)
  BY <1>6 DEF Dst!Sequenced
<1> QED BY <1>7, <1>8, Zenon DEF Dst!Sequenced

LEMMA LogStep ==
  ASSUME SendTypeInv, StreamInv, EndInv, LogInv, GoneMoves, breaks' = 0, ~PeerReleases,
         [SendNext]_sendVars
  PROVE  LogInv'
<1>0. /\ Stream \in Seq(Ids) /\ settled \in Seq(Ids) /\ wire \in Seq(Ids)
      /\ position \in Nat /\ Ids \subseteq Nat \ {0} /\ Gone \subseteq Ids
  BY StreamMoves, DbSendAssumption DEF SendTypeInv, Gone, DeleteIds
<1>1. ASSUME UNCHANGED <<position, settled, log, Stream>>
      PROVE  LogInv'
  <2>1. ~OnSettled
    <3>1. settled /= <<>> => Len(Tail(settled)) /= Len(settled)
      BY <1>0
    <3> QED BY <1>1, <3>1 DEF OnSettled
  <2> QED BY <1>1, <2>1 DEF LogInv, InLog, GoneMoves
<1>2. CASE OnSendable \/ SendReturns
  BY <1>1, <1>2 DEF OnSendable, SendReturns, dbVars, threadVars, peerVars, Stream
<1>3. CASE SendRequests \/ OnTimerTask \/ OnRecordsLoaded
  BY <1>1, <1>3
  DEF SendRequests, OnTimerTask, OnRecordsLoaded, threadVars, peerVars, Stream
<1>4. CASE SendRecord
  <2>1. Stream' = Stream
    BY <1>4, StreamMoves
  <2> QED BY <1>1, <1>4, <2>1 DEF SendRecord, threadVars
<1>5. CASE PeerAccepts
  <2> PICK x : x = Head(wire)
    OBVIOUS
  <2> DEFINE Logged(i) == \E k \in DOMAIN log' : log'[k] = i
  <2>1. /\ x \in Ids /\ log' = Append(log, x) /\ settled' = Append(settled, x)
        /\ Stream' = Stream /\ position' = position /\ settled' /= settled
        /\ Gone' \subseteq Gone
    <3>1. /\ x \in Ids /\ log' = Append(log, x) /\ settled' = Append(settled, x)
          /\ Stream' = Stream /\ position' = position /\ wire' /= wire
      <4>1. wire /= <<>> /\ wire' = Tail(wire) /\ Len(Tail(wire)) /= Len(wire)
        BY <1>0, <1>5, Arrivals
      <4> QED BY <1>5, <4>1, Arrivals, StreamMoves DEF PeerAccepts, dbVars, threadVars
    <3>2. Len(settled') /= Len(settled)
      BY <1>0, <3>1, Back
    <3>3. ~OnSettled
      BY <3>1 DEF OnSettled
    <3> QED BY <3>1, <3>2, <3>3 DEF GoneMoves
  <2>2. (\A i \in Ids : InLog(i) => Logged(i)) /\ Logged(x)
    BY <2>1, StaysInLog DEF InLog
  <2> HIDE DEF Logged
  <2>3. \A i \in Gone' : Logged(i)
    BY <1>0, <2>1, <2>2 DEF LogInv
  <2>4. \A k \in DOMAIN settled' : Logged(settled'[k])
    <3> SUFFICES ASSUME NEW k \in DOMAIN settled'
                 PROVE  Logged(settled'[k])
      OBVIOUS
    <3>1. settled'[k] = x \/ (k \in DOMAIN settled /\ settled'[k] = settled[k])
      BY <1>0, <2>1, Back
    <3>2. \A j \in DOMAIN settled : settled[j] \in Ids /\ InLog(settled[j])
      BY <1>0 DEF LogInv
    <3> QED BY <2>2, <3>1, <3>2
  <2>5. \A i \in Ids : i <= position'
          => Logged(i) \/ \E k \in DOMAIN Stream' : Stream'[k] = i
    BY <2>1, <2>2 DEF LogInv
  <2> QED BY <2>3, <2>4, <2>5 DEF LogInv, InLog, Logged
<1>6. CASE PeerReleasesMessage
  BY <1>6 DEF PeerReleasesMessage
<1>7. CASE OnSettled
  <2> DEFINE x == Head(settled)
  <2>1. /\ settled /= <<>> /\ settled' = Tail(settled) /\ log' = log
        /\ position' = position
        /\ Stream /= <<>> /\ Head(Stream) = x /\ Stream' = Tail(Stream)
    BY <1>7, StreamMoves DEF OnSettled, threadVars
  <2> HIDE DEF x
  <2>2. InLog(x)
    BY <1>0, <2>1, Front DEF LogInv, x
  <2>3. \A i \in Gone' : InLog(i)
    BY <2>2 DEF GoneMoves, LogInv, x
  <2>4. \A k \in DOMAIN settled' : InLog(settled'[k])
    BY <1>0, <2>1, Front DEF LogInv
  <2>5. ASSUME NEW i \in Ids, i <= position
        PROVE  InLog(i) \/ \E k \in DOMAIN Stream' : Stream'[k] = i
    <3>1. CASE InLog(i)
      BY <3>1
    <3>2. ASSUME NEW k \in DOMAIN Stream, Stream[k] = i
          PROVE  InLog(i) \/ \E j \in DOMAIN Stream' : Stream'[j] = i
      BY <1>0, <2>1, <2>2, <3>2, Front
    <3> QED BY <2>5, <3>1, <3>2 DEF LogInv
  <2> QED BY <2>1, <2>3, <2>4, <2>5 DEF LogInv, InLog
<1>8. CASE OnDisconnected
  BY <1>8 DEF OnDisconnected, SendTypeInv
<1>9. CASE SendCrash
  <2>1. position' = 0 /\ settled' = <<>> /\ log' = log
    BY <1>9 DEF SendCrash, DbRestart
  <2>2. DOMAIN settled' = {} /\ \A i \in Ids : ~(i <= position')
    BY <1>0, <2>1
  <2>3. Gone' \subseteq Gone
    <3>1. Gone' \subseteq Gone \/ settled /= <<>>
      BY DEF GoneMoves, OnSettled
    <3>2. OnSettled => crashes' = crashes
      BY DEF OnSettled
    <3>3. crashes' /= crashes
      BY <1>9 DEF SendCrash
    <3> QED BY <3>2, <3>3 DEF GoneMoves
  <2> QED BY <2>1, <2>2, <2>3 DEF LogInv, InLog
<1>10. CASE SendDbStep
  <2>1. UNCHANGED <<settled, wire, log>>
    BY <1>10 DEF SendDbStep, peerVars
  <2>2. CASE LoadRecord
    <3>1. /\ Stream' = Append(Stream, position') /\ position' \in Ids
          /\ \A i \in work : i > position => i >= position'
          /\ UNCHANGED <<tasks, work>>
      BY <2>1, <2>2, StreamMoves, Loads DEF LoadRecord
    <3>2. Gone' = Gone
      BY <3>1 DEF Gone, DeleteIds
    <3>3. \A k \in DOMAIN Stream : k \in DOMAIN Stream' /\ Stream'[k] = Stream[k]
      BY <1>0, <3>1, Back
    <3>4. \E k \in DOMAIN Stream' : Stream'[k] = position'
      BY <1>0, <3>1, Back
    <3>5. ASSUME NEW i \in Ids, i <= position'
          PROVE  InLog(i) \/ \E k \in DOMAIN Stream' : Stream'[k] = i
      <4>1. CASE i <= position
        BY <3>3, <4>1 DEF LogInv
      <4>2. CASE i \notin work
        BY <4>2 DEF LogInv, Gone
      <4>3. CASE i \in work /\ ~(i <= position)
        <5>1. i >= position' /\ i \in Nat /\ position' \in Nat
          BY <1>0, <3>1, <4>3
        <5>2. i = position'
          BY <3>5, <5>1
        <5> QED BY <3>4, <5>2
      <4> QED BY <4>1, <4>2, <4>3
    <3> QED BY <2>1, <3>2, <3>5 DEF LogInv, InLog
  <2>3. CASE RunReset
    BY <2>3, Takes DEF RunReset, StreamInv
  <2>4. CASE RunLoad \/ LoadDone \/ RunClose \/ RunDelete \/ Commit
    BY <1>1, <2>1, <2>4 DEF RunLoad, LoadDone, RunClose, RunDelete, Commit, Stream
  <2> QED BY <1>10, <2>2, <2>3, <2>4 DEF SendDbStep
<1>11. CASE UNCHANGED sendVars
  BY <1>1, <1>11 DEF sendVars, dbVars, threadVars, peerVars, Stream
<1> QED BY <1>2, <1>3, <1>4, <1>5, <1>6, <1>7, <1>8, <1>9, <1>10, <1>11 DEF SendNext

LEMMA BridgeInit ==
  ASSUME Init
  PROVE  BridgeInv
<1>1. SendTypeInv /\ TargetInv
  BY SendTypeInit, TargetInit DEF Init
<1>2. LogInv
  <2>1. /\ tasks = <<>> /\ settled = <<>> /\ work = Ids /\ position = 0
    BY DEF Init, SendInit, DbInit
  <2>2. DOMAIN tasks = {} /\ DOMAIN settled = {}
    BY <2>1
  <2>3. Gone = {}
    BY <2>1, <2>2 DEF Gone, DeleteIds
  <2>4. \A i \in Ids : ~(i <= position)
    <3>1. \A i \in Ids : i \in Nat \ {0}
      BY DbSendAssumption
    <3> QED BY <2>1, <3>1
  <2> QED BY <2>2, <2>3, <2>4 DEF LogInv
<1>3. Dst!Init
  <2>1. log = <<>>
    BY DEF Init, SendInit
  <2>2. <<>> \in Dst!Feeds
    <3>1. \A k \in DOMAIN <<>> : FALSE
      OBVIOUS
    <3>2. Dst!Sequenced(<<>>)
      BY <3>1 DEF Dst!Sequenced
    <3>3. <<>> \in [1..0 -> Ids]
      OBVIOUS
    <3>4. <<>> \in Dst!BoundedSeq(Ids, 0)
      BY <3>3 DEF Dst!BoundedSeq, Dst!SeqOf
    <3> QED BY <3>2, <3>4 DEF Dst!Feeds
  <2>3. Receiver!RecvInit
    BY DEF Init
  <2>4. Dst!RecvInit
    BY <2>3 DEF Receiver!RecvInit, Dst!RecvInit, Receiver!DbInit, Dst!DbInit,
                Receiver!GetId, Dst!GetId
  <2> QED BY <2>1, <2>2, <2>4 DEF Dst!Init
<1>4. Dst!LossInv
  BY <1>3, DstAssumptions, Dst!LossInit
<1>5. link \in Nat
  BY DEF Init, Receiver!RecvInit
<1> QED BY <1>2, <1>4, <1>5 DEF BridgeInv

LEMMA BridgeStep ==
  ASSUME SendTypeInv, TargetInv, BridgeInv, [Next]_vars
  PROVE  BridgeInv'
<1>0. (link' = link \/ link' = link + 1) /\ link' \in Nat
  BY DEF BridgeInv, Next, vars, SendStep, ReceiveStep, receiverState,
         Receiver!RecvNext, Receiver!OnMessage, Receiver!OnIdLoaded,
         Receiver!InsertMessage, Receiver!ReleaseMessage, Receiver!AcceptDuplicate,
         Receiver!OnRecordInserted, Receiver!RecvDbStep, Receiver!NodeHears,
         Receiver!RecvCrash, Receiver!LinkBreaks, Receiver!faultVars
<1> SUFFICES ASSUME Whole'
             PROVE  LogInv' /\ Dst!LossInv'
  BY <1>0 DEF BridgeInv
<1>1. CASE SendStep \/ UNCHANGED vars
  <2>1. [SendNext]_sendVars /\ UNCHANGED receiverState
    BY <1>1 DEF SendStep, vars
  <2>2. breaks = 0 /\ link = 0 /\ ~PeerReleases /\ breaks' = 0
    BY <2>1, BreaksStay DEF Whole, receiverState
  <2>3. LogInv /\ Dst!LossInv /\ StreamInv /\ EndInv
    BY <2>2 DEF BridgeInv, Whole, TargetInv
  <2>4. GoneMoves
    BY <2>1, <2>2, <2>3, EndStep
  <2>5. LogInv'
    BY <2>1, <2>2, <2>3, <2>4, LogStep
  <2>6. UNCHANGED Dst!recvVars
    BY <2>1
    DEF receiverState, Dst!recvVars, Dst!dbVars, Dst!threadVars, Dst!receiverVars,
        Dst!nodeVars, Dst!faultVars
  <2>7. CASE PeerAccepts
    <3> DEFINE x == Head(wire)
    <3>1. x \in Ids /\ log' = Append(log, x)
      BY <2>7, Arrivals DEF PeerAccepts
    <3>2. Dst!Sequenced(log)
      BY <2>3 DEF Dst!LossInv
    <3>3. Dst!Sequenced(log')
      BY <2>3, <2>7, <3>2, InOrder
    <3> HIDE DEF x
    <3>4. Dst!LossInv'
      BY <2>2, <2>3, <2>6, <3>1, <3>3, DstAssumptions, Dst!LogGrows
    <3> QED BY <2>5, <3>4
  <2>8. CASE ~PeerAccepts
    <3>1. log' = log
      BY <2>1, <2>8
      DEF SendNext, sendVars, OnSendable, SendRecord, SendReturns,
         SendRequests, OnRecordsLoaded, OnTimerTask, OnSettled, OnDisconnected,
         SendCrash, SendDbStep, PeerReleasesMessage, peerVars
    <3>2. [Dst!RecvNext]_Dst!vars
      BY <2>6, <3>1 DEF Dst!vars
    <3>3. Dst!LossInv'
      BY <2>3, <3>2, DstAssumptions, Dst!LossStep
    <3> QED BY <2>5, <3>3
  <2> QED BY <2>7, <2>8
<1>2. CASE ReceiveStep
  <2>1. Receiver!RecvNext /\ UNCHANGED sendVars
    BY <1>2 DEF ReceiveStep
  <2>2. breaks' = breaks /\ log' = log
    BY <2>1 DEF sendVars, peerVars
  <2>3. [Dst!RecvNext]_Dst!vars
    BY <2>1, SameReceiver
  <2>4. link = 0
    BY <1>0 DEF BridgeInv, Whole
  <2>5. LogInv /\ Dst!LossInv
    BY <2>2, <2>4 DEF BridgeInv, Whole
  <2>6. Dst!LossInv'
    BY <2>3, <2>5, DstAssumptions, Dst!LossStep
  <2>7. LogInv'
    BY <2>1, <2>5
    DEF sendVars, dbVars, threadVars, peerVars, LogInv, InLog, Gone, DeleteIds, Stream
  <2> QED BY <2>6, <2>7
<1> QED BY <1>1, <1>2 DEF Next

\* No record gets lost on its way from one database to the other while no connection
\* breaks and the peer accepts what it gets (NoRecordLost), whatever crashes: the
\* sender deletes rows that the node has accepted, in the order of their ids, and
\* of what the node accepted in this order the receiver loses nothing.
THEOREM NoRecordLostHolds ==
  Spec => []((breaks = 0 /\ link = 0 /\ ~PeerReleases) => NoRecordLost)
<1> DEFINE Inv == SendTypeInv /\ TargetInv /\ BridgeInv
<1>1. Init => Inv
  BY SendTypeInit, TargetInit, BridgeInit DEF Init
<1>2. Inv /\ [Next]_vars => Inv'
  <2> SUFFICES ASSUME Inv, [Next]_vars
               PROVE  Inv'
    OBVIOUS
  <2>1. [SendNext]_sendVars
    BY DEF Next, SendStep, ReceiveStep, vars
  <2> QED BY <2>1, SendTypeStep, TargetStep, BridgeStep
<1>3. Inv => (Whole => NoRecordLost)
  <2> SUFFICES ASSUME SendTypeInv, LogInv, Dst!LossInv, link = 0,
                      NEW i \in Ids, i \notin table, i \notin dstTable
               PROVE  \E k \in DOMAIN log \ done : log[k] = i
    BY DEF BridgeInv, Whole, NoRecordLost
  <2>1. PICK k \in DOMAIN log : log[k] = i
    BY DEF SendTypeInv, Gone, LogInv, InLog
  <2>2. Dst!NothingLost
    BY DstAssumptions, Dst!LossImplies
  <2> QED BY <2>1, <2>2 DEF Dst!NothingLost, Dst!Messages
<1> HIDE DEF Inv
<1>4. Inv => ((breaks = 0 /\ link = 0 /\ ~PeerReleases) => NoRecordLost)
  BY <1>3 DEF Whole
<1> QED BY <1>1, <1>2, <1>4, PTL DEF Spec
=============================================================================
