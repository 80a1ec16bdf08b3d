---------------------------- MODULE DbRecvProofs ----------------------------
(***************************************************************************)
(* Proofs about the database receiver.                                     *)
(***************************************************************************)
EXTENDS MCDbRecv, FiniteSetTheorems, WellFoundedInduction, TLAPS

\* The row that event e of an insert speaks about.
RowOf(e) == log[e.delivery.message]

IsInserted(e) == e.type = "record_inserted"

\* The thread's transaction contains what is committed.
WorkExtends == table \subseteq work

\* An insert that waits carries the id of the message it will acknowledge.
TasksMatch ==
  \A k \in DOMAIN tasks :
    tasks[k].op = "insert" => tasks[k].id = log[tasks[k].delivery.message]

\* An event that waits for the commit is that of a row of the transaction,
\* unless the transaction was rolled back for good.
PendingInWork ==
  thread /= "dead"
    => \A k \in DOMAIN pending : IsInserted(pending[k]) => RowOf(pending[k]) \in work

IsSeq(s) == \E S : s \in Seq(S)

\* The queues are sequences.
Lines == IsSeq(tasks) /\ IsSeq(pending) /\ IsSeq(events)

\* The inductive invariant: InsertedIsCommitted and what it rests on.
CommitInv == /\ Lines /\ WorkExtends /\ TasksMatch /\ PendingInWork
             /\ InsertedIsCommitted

-----------------------------------------------------------------------------
(* Queues. *)

\* Elements of a shorter sequence are elements of the longer one, and the one
\* appended is the last.
LEMMA OnAppend ==
  ASSUME NEW s, NEW e, IsSeq(s)
  PROVE  /\ IsSeq(Append(s, e))
         /\ \A k \in DOMAIN Append(s, e) :
              Append(s, e)[k] = e \/ (k \in DOMAIN s /\ Append(s, e)[k] = s[k])
<1>1. PICK S : s \in Seq(S)
  BY DEF IsSeq
<1>2. s \in Seq(S \union {e}) /\ e \in S \union {e}
  BY <1>1
<1>3. Append(s, e) \in Seq(S \union {e})
  BY <1>2
<1>4. IsSeq(Append(s, e))
  BY <1>3 DEF IsSeq
<1>5. \A k \in DOMAIN Append(s, e) :
        Append(s, e)[k] = e \/ (k \in DOMAIN s /\ Append(s, e)[k] = s[k])
  BY <1>2
<1> QED BY <1>4, <1>5

\* What is left when the first element is taken was there before.
LEMMA OnTail ==
  ASSUME NEW s, IsSeq(s), s /= <<>>
  PROVE  /\ IsSeq(Tail(s))
         /\ 1 \in DOMAIN s /\ Head(s) = s[1]
         /\ \A k \in DOMAIN Tail(s) : k + 1 \in DOMAIN s /\ Tail(s)[k] = s[k + 1]
<1>1. PICK S : s \in Seq(S)
  BY DEF IsSeq
<1>2. Tail(s) \in Seq(S)
  BY <1>1
<1>3. IsSeq(Tail(s))
  BY <1>2 DEF IsSeq
<1> QED BY <1>1, <1>3

\* An element of a concatenation is one of the parts'.
LEMMA OnConcat ==
  ASSUME NEW s, NEW t, IsSeq(s), IsSeq(t)
  PROVE  /\ IsSeq(s \o t)
         /\ \A k \in DOMAIN (s \o t) :
              \/ k \in DOMAIN s /\ (s \o t)[k] = s[k]
              \/ \E j \in DOMAIN t : (s \o t)[k] = t[j]
<1>1. PICK S : s \in Seq(S)
  BY DEF IsSeq
<1>2. PICK T : t \in Seq(T)
  BY DEF IsSeq
<1>3. s \in Seq(S \union T) /\ t \in Seq(S \union T)
  BY <1>1, <1>2
<1>4. s \o t \in Seq(S \union T)
  BY <1>3
<1>5. IsSeq(s \o t)
  BY <1>4 DEF IsSeq
<1>6. ASSUME NEW k \in DOMAIN (s \o t)
      PROVE  \/ k \in DOMAIN s /\ (s \o t)[k] = s[k]
             \/ \E j \in DOMAIN t : (s \o t)[k] = t[j]
  <2>1. k \in 1..(Len(s) + Len(t)) /\ Len(s) \in Nat /\ Len(t) \in Nat
    BY <1>3, <1>6
  <2>2. CASE k <= Len(s)
    BY <1>3, <2>1, <2>2
  <2>3. CASE k > Len(s)
    <3>1. k - Len(s) \in DOMAIN t /\ (s \o t)[k] = t[k - Len(s)]
      BY <1>3, <2>1, <2>3
    <3> QED BY <3>1
  <2> QED BY <2>1, <2>2, <2>3
<1> QED BY <1>5, <1>6

LEMMA OnSingle ==
  ASSUME NEW e
  PROVE  IsSeq(<<e>>) /\ DOMAIN <<e>> = {1} /\ <<e>>[1] = e
<1>1. <<e>> \in Seq({e})
  OBVIOUS
<1>2. IsSeq(<<e>>)
  BY <1>1 DEF IsSeq
<1>3. DOMAIN <<e>> = {1} /\ <<e>>[1] = e
  OBVIOUS
<1> QED BY <1>2, <1>3

LEMMA OnEmpty == IsSeq(<<>>) /\ DOMAIN <<>> = {}
<1>1. <<>> \in Seq({})
  OBVIOUS
<1> QED BY <1>1 DEF IsSeq

-----------------------------------------------------------------------------
(* The steps. *)

\* Nothing but an event leaves or an event of another kind comes.
LEMMA EventTaken ==
  ASSUME CommitInv, events /= <<>>, events' = Tail(events),
         UNCHANGED <<table, work, pending, thread, log>>,
         IsSeq(tasks'), TasksMatch'
  PROVE  CommitInv'
<1>1. IsSeq(events') /\ \A k \in DOMAIN events' :
                          k + 1 \in DOMAIN events /\ events'[k] = events[k + 1]
  BY OnTail DEF CommitInv, Lines
<1>2. Lines' /\ WorkExtends'
  BY <1>1 DEF CommitInv, Lines, WorkExtends
<1>3. PendingInWork'
  BY DEF CommitInv, PendingInWork, RowOf, IsInserted
<1>4. InsertedIsCommitted'
  BY <1>1 DEF CommitInv, InsertedIsCommitted
<1> QED BY <1>2, <1>3, <1>4 DEF CommitInv

\* A task is added that keeps TasksMatch.
LEMMA TaskPut ==
  ASSUME CommitInv, NEW t, tasks' = Append(tasks, t), log' = log,
         t.op = "insert" => t.id = log[t.delivery.message]
  PROVE  IsSeq(tasks') /\ TasksMatch'
<1>1. IsSeq(tasks') /\ \A k \in DOMAIN tasks' :
                         tasks'[k] = t \/ (k \in DOMAIN tasks /\ tasks'[k] = tasks[k])
  BY OnAppend DEF CommitInv, Lines
<1> QED BY <1>1 DEF CommitInv, TasksMatch

\* The thread takes a task.
LEMMA TaskTaken ==
  ASSUME CommitInv, tasks /= <<>>, tasks' = Tail(tasks), log' = log
  PROVE  /\ IsSeq(tasks') /\ TasksMatch'
         /\ Head(tasks).op = "insert"
              => Head(tasks).id = log[Head(tasks).delivery.message]
<1>1. /\ IsSeq(tasks') /\ 1 \in DOMAIN tasks /\ Head(tasks) = tasks[1]
      /\ \A k \in DOMAIN tasks' : k + 1 \in DOMAIN tasks /\ tasks'[k] = tasks[k + 1]
  BY OnTail DEF CommitInv, Lines
<1>2. TasksMatch'
  BY <1>1 DEF CommitInv, TasksMatch
<1> QED BY <1>1, <1>2 DEF CommitInv, TasksMatch

\* The database of the process stays as it is.
LEMMA DbUnchanged ==
  ASSUME CommitInv, UNCHANGED <<dbVars, log>>
  PROVE  CommitInv'
<1> QED BY DEF CommitInv, dbVars, threadVars, Lines, WorkExtends, TasksMatch,
               PendingInWork, InsertedIsCommitted, RowOf, IsInserted

\* A handler of the program.
LEMMA HandlerStep ==
  ASSUME CommitInv, OnIdLoaded \/ OnMessage \/ OnRecordInserted
  PROVE  CommitInv'
<1>1. CASE OnIdLoaded
  <2>1. IsSeq(tasks') /\ TasksMatch'
    BY <1>1 DEF OnIdLoaded, CommitInv, Lines, TasksMatch
  <2> QED BY <1>1, <2>1, EventTaken DEF OnIdLoaded, Handles, threadVars
<1>2. CASE InsertMessage
  <2> DEFINE t == Insert(lastId', [message |-> cursor', link |-> link])
  <2>1. tasks' = Append(tasks, t) /\ log' = log /\ lastId' = log[cursor']
    BY <1>2 DEF InsertMessage
  <2>2. t.id = lastId' /\ t.delivery.message = cursor'
    BY DEF Insert
  <2> HIDE DEF t
  <2>3. IsSeq(tasks') /\ TasksMatch'
    BY <2>1, <2>2, TaskPut
  <2>4. UNCHANGED <<table, work, pending, events, thread, log>>
    BY <1>2 DEF InsertMessage, threadVars
  <2>5. Lines' /\ WorkExtends'
    BY <2>3, <2>4 DEF CommitInv, Lines, WorkExtends
  <2>6. PendingInWork' /\ InsertedIsCommitted'
    BY <2>4 DEF CommitInv, PendingInWork, InsertedIsCommitted, RowOf, IsInserted
  <2> QED BY <2>3, <2>5, <2>6 DEF CommitInv
<1>3. CASE ReleaseMessage
  BY <1>3, DbUnchanged DEF ReleaseMessage
<1>4. CASE AcceptDuplicate
  BY <1>4, DbUnchanged DEF AcceptDuplicate
<1>5. CASE OnRecordInserted
  <2>1. tasks' = tasks \/ tasks' = Append(tasks, Close)
    BY <1>5 DEF OnRecordInserted
  <2>2. Close.op /= "insert" /\ log' = log
    BY <1>5 DEF Close, OnRecordInserted
  <2>3. IsSeq(tasks') /\ TasksMatch'
    <3>1. CASE tasks' = tasks
      BY <2>2, <3>1 DEF CommitInv, Lines, TasksMatch
    <3>2. CASE tasks' = Append(tasks, Close)
      BY <2>2, <3>2, TaskPut
    <3> QED BY <2>1, <3>1, <3>2
  <2> QED BY <1>5, <2>3, EventTaken DEF OnRecordInserted, Handles, threadVars
<1> QED BY <1>1, <1>2, <1>3, <1>4, <1>5 DEF OnMessage

\* A step of the database thread.
LEMMA ThreadStep ==
  ASSUME CommitInv, RecvDbStep
  PROVE  CommitInv'
<1>0. log' = log
  BY DEF RecvDbStep
<1>1. CASE RunGetId
  <2>1. PICK i : events' = Append(events, IdLoaded(i))
    BY <1>1 DEF RunGetId
  <2>2. ~IsInserted(IdLoaded(i))
    BY DEF IdLoaded, IsInserted
  <2>3. IsSeq(tasks') /\ TasksMatch'
    BY <1>0, <1>1, TaskTaken DEF RunGetId, Take
  <2>4. UNCHANGED <<table, work, pending>> /\ thread /= "dead"
    BY <1>1 DEF RunGetId, Take
  <2>5. IsSeq(events') /\ \A k \in DOMAIN events' :
          events'[k] = IdLoaded(i) \/ (k \in DOMAIN events /\ events'[k] = events[k])
    BY <2>1, OnAppend DEF CommitInv, Lines
  <2>6. InsertedIsCommitted'
    BY <1>0, <2>2, <2>4, <2>5 DEF CommitInv, InsertedIsCommitted, IsInserted
  <2>7. Lines' /\ WorkExtends' /\ PendingInWork'
    BY <1>0, <2>3, <2>4, <2>5
    DEF CommitInv, Lines, WorkExtends, PendingInWork, RowOf, IsInserted
  <2> QED BY <2>3, <2>6, <2>7 DEF CommitInv
<1>2. CASE RunInsert
  <2> DEFINE t == Head(tasks)
  <2>1. /\ IsSeq(tasks') /\ TasksMatch'
        /\ t.op = "insert" /\ t.id = log[t.delivery.message]
    BY <1>0, <1>2, TaskTaken DEF RunInsert, Take
  <2>2. UNCHANGED <<table, events>> /\ thread /= "dead"
    BY <1>2 DEF RunInsert, Take
  <2>3. InsertedIsCommitted'
    BY <1>0, <2>2 DEF CommitInv, InsertedIsCommitted
  <2>4. CASE t.id \in work
    <3>1. thread' = "dead" /\ work' = table /\ pending' = pending
      BY <1>2, <2>4 DEF RunInsert
    <3>2. Lines' /\ WorkExtends' /\ PendingInWork'
      BY <2>1, <2>2, <3>1 DEF CommitInv, Lines, WorkExtends, PendingInWork
    <3> QED BY <2>1, <2>3, <3>2 DEF CommitInv
  <2>5. CASE t.id \notin work
    <3> DEFINE e == RecordInserted(t.delivery)
    <3>1. work' = work \union {t.id} /\ pending' = Append(pending, e)
      BY <1>2, <2>5 DEF RunInsert
    <3>2. e.delivery = t.delivery
      BY DEF RecordInserted
    <3>3. IsSeq(pending') /\ \A k \in DOMAIN pending' :
            pending'[k] = e \/ (k \in DOMAIN pending /\ pending'[k] = pending[k])
      <4> HIDE DEF e
      <4> QED BY <3>1, OnAppend DEF CommitInv, Lines
    <3>4. PendingInWork'
      <4> HIDE DEF e
      <4> QED BY <1>0, <2>1, <2>2, <3>1, <3>2, <3>3
              DEF CommitInv, PendingInWork, RowOf, IsInserted
    <3>5. Lines' /\ WorkExtends'
      BY <2>1, <2>2, <3>1, <3>3 DEF CommitInv, Lines, WorkExtends
    <3> QED BY <2>1, <2>3, <3>4, <3>5 DEF CommitInv
  <2> QED BY <2>4, <2>5
<1>3. CASE RunClose
  <2>1. IsSeq(tasks') /\ TasksMatch'
    BY <1>0, <1>3, TaskTaken DEF RunClose, Take
  <2>2. UNCHANGED <<table, work, pending, events>> /\ thread /= "dead"
    BY <1>3 DEF RunClose, Take
  <2>3. Lines' /\ WorkExtends'
    BY <2>1, <2>2 DEF CommitInv, Lines, WorkExtends
  <2>4. PendingInWork' /\ InsertedIsCommitted'
    BY <1>0, <2>2 DEF CommitInv, PendingInWork, InsertedIsCommitted, RowOf, IsInserted
  <2> QED BY <2>1, <2>3, <2>4 DEF CommitInv
<1>4. CASE Commit
  <2>1. /\ table' = work /\ work' = work /\ tasks' = tasks
        /\ events' = events \o pending /\ pending' = <<>> /\ thread /= "dead"
    BY <1>4 DEF Commit
  <2>2. /\ IsSeq(events')
        /\ \A k \in DOMAIN events' :
             \/ k \in DOMAIN events /\ events'[k] = events[k]
             \/ \E j \in DOMAIN pending : events'[k] = pending[j]
    BY <2>1, OnConcat DEF CommitInv, Lines
  <2>3. InsertedIsCommitted'
    BY <1>0, <2>1, <2>2
    DEF CommitInv, InsertedIsCommitted, PendingInWork, WorkExtends, RowOf, IsInserted
  <2>4. Lines' /\ WorkExtends' /\ TasksMatch'
    BY <1>0, <2>1, <2>2, OnEmpty DEF CommitInv, Lines, WorkExtends, TasksMatch
  <2>5. PendingInWork'
    BY <2>1, OnEmpty DEF PendingInWork
  <2> QED BY <2>3, <2>4, <2>5 DEF CommitInv
<1> QED BY <1>1, <1>2, <1>3, <1>4 DEF RecvDbStep

\* The process starts again with what is committed.
LEMMA CrashStep ==
  ASSUME CommitInv, RecvCrash
  PROVE  CommitInv'
<1>1. /\ work' = table /\ table' = table /\ log' = log
      /\ tasks' = <<GetId>> /\ pending' = <<>> /\ events' = <<>>
  BY DEF RecvCrash, DbRestart
<1>2. IsSeq(<<GetId>>) /\ DOMAIN <<GetId>> = {1} /\ <<GetId>>[1].op = "get_id"
  <2>1. GetId.op = "get_id"
    BY DEF GetId
  <2> QED BY <2>1, OnSingle
<1>3. Lines' /\ WorkExtends'
  BY <1>1, <1>2, OnEmpty DEF Lines, WorkExtends
<1>4. TasksMatch'
  BY <1>1, <1>2 DEF TasksMatch
<1>5. PendingInWork' /\ InsertedIsCommitted'
  BY <1>1, OnEmpty DEF PendingInWork, InsertedIsCommitted
<1> QED BY <1>3, <1>4, <1>5 DEF CommitInv

LEMMA CommitInit ==
  ASSUME Init
  PROVE  CommitInv
<1>1. /\ work = table /\ tasks = <<GetId>> /\ pending = <<>> /\ events = <<>>
  BY DEF Init, RecvInit, DbInit
<1>2. IsSeq(<<GetId>>) /\ DOMAIN <<GetId>> = {1} /\ <<GetId>>[1].op = "get_id"
  <2>1. GetId.op = "get_id"
    BY DEF GetId
  <2> QED BY <2>1, OnSingle
<1>3. Lines /\ WorkExtends
  BY <1>1, <1>2, OnEmpty DEF Lines, WorkExtends
<1>4. TasksMatch
  BY <1>1, <1>2 DEF TasksMatch
<1>5. PendingInWork /\ InsertedIsCommitted
  BY <1>1, OnEmpty DEF PendingInWork, InsertedIsCommitted
<1> QED BY <1>3, <1>4, <1>5 DEF CommitInv

LEMMA CommitStep ==
  ASSUME CommitInv, [RecvNext]_vars
  PROVE  CommitInv'
<1>1. CASE OnIdLoaded \/ OnMessage \/ OnRecordInserted
  BY <1>1, HandlerStep
<1>2. CASE RecvDbStep
  BY <1>2, ThreadStep
<1>3. CASE NodeHears
  BY <1>3, DbUnchanged DEF NodeHears
<1>4. CASE RecvCrash
  BY <1>4, CrashStep
<1>5. CASE LinkBreaks
  BY <1>5, DbUnchanged DEF LinkBreaks
<1>6. CASE UNCHANGED vars
  BY <1>6, DbUnchanged DEF vars, recvVars
<1> QED BY <1>1, <1>2, <1>3, <1>4, <1>5, <1>6 DEF RecvNext

-----------------------------------------------------------------------------
(* Theorems *)

\* Whatever crashes and breaks, the container handles the event of an insert
\* only when the row is in the file (InsertedIsCommitted): this is why
\* on_record_inserted may accept the message.
THEOREM InsertedIsCommittedHolds == Spec => []InsertedIsCommitted
<1>1. Init => CommitInv
  BY CommitInit
<1>2. CommitInv /\ [RecvNext]_vars => CommitInv'
  BY CommitStep
<1>3. CommitInv => InsertedIsCommitted
  BY DEF CommitInv
<1> QED BY <1>1, <1>2, <1>3, PTL DEF Spec

-----------------------------------------------------------------------------
(* No insert fails. *)

IsInsert(t) == t.op = "insert"

\* s has no greatest element only if it is empty.
HasTop(s) == s \subseteq Nat \ {0} /\ (s = {} \/ \E m \in s : \A r \in s : r <= m)

\* The ids of the inserts that wait go up, from above all rows to lastId.
Rising ==
  \A j, k \in DOMAIN tasks :
    j < k /\ IsInsert(tasks[j]) /\ IsInsert(tasks[k]) => tasks[j].id < tasks[k].id

NewRows ==
  \A k \in DOMAIN tasks :
    IsInsert(tasks[k]) => /\ tasks[k].id \in 1..lastId
                          /\ \A r \in work : r < tasks[k].id

\* The program waits for the last id: there is nothing else to do.
AwaitsId ==
  /\ ~attached /\ pending = <<>>
  /\ \/ tasks = <<GetId>> /\ events = <<>>
     \/ /\ tasks = <<>>
        /\ \E m \in Nat : events = <<IdLoaded(m)>> /\ \A r \in work : r <= m

\* It has the last id, which no row exceeds, and does not ask again.
KnowsId ==
  /\ \A r \in work : r <= lastId
  /\ \A k \in DOMAIN tasks : tasks[k].op /= "get_id"
  /\ \A k \in DOMAIN events : events[k].type /= "id_loaded"

RowsInv ==
  /\ Lines /\ log \in Seq(Nat \ {0}) /\ lastId \in Nat /\ cursor \in Nat
  /\ \A k \in DOMAIN pending : IsInserted(pending[k])
  /\ HasTop(table) /\ HasTop(work)
  /\ Rising /\ NewRows
  /\ AwaitsId \/ KnowsId
  /\ ThreadSurvives

\* Min, of a set of numbers that is not empty, is its least element.
LEMMA LeastElement ==
  ASSUME NEW S, S \subseteq Nat, S /= {}
  PROVE  Min(S) \in S /\ \A y \in S : Min(S) <= y
<1> DEFINE R == OpToRel(<, Nat)
<1>1. R = {ss \in Nat \X Nat : ss[1] < ss[2]}
  BY DEF OpToRel
<1>2. IsWellFoundedOn(R, Nat)
  BY NatLessThanWellFounded
<1>3. PICK m \in S : \A y \in S : <<y, m>> \notin R
  <2> HIDE DEF R
  <2> QED BY <1>2, WFMin
<1>4. ASSUME NEW y \in S
      PROVE  m <= y
  <2>1. <<y, m>> \in Nat \X Nat /\ <<y, m>> \notin {ss \in Nat \X Nat : ss[1] < ss[2]}
    BY <1>1, <1>3
  <2>2. ~(<<y, m>>[1] < <<y, m>>[2])
    BY <2>1
  <2> QED BY <2>1, <2>2
<1> QED BY <1>4 DEF Min

LEMMA GreatestElement ==
  ASSUME NEW S, HasTop(S), S /= {}
  PROVE  Max(S) \in S /\ \A r \in S : r <= Max(S)
<1>1. PICK m \in S : \A r \in S : m >= r
  BY DEF HasTop
<1>2. Max(S) \in S /\ \A r \in S : Max(S) >= r
  BY <1>1 DEF Max
<1> QED BY <1>2 DEF HasTop

\* The message handed out is one of the log.
LEMMA HandedOut ==
  ASSUME RowsInv, Incoming
  PROVE  cursor' \in Nat /\ log[cursor'] \in Nat \ {0}
<1>1. log \in Seq(Nat \ {0}) /\ cursor \in Nat
  BY DEF RowsInv
<1>2. ToHandOut \subseteq 1..Len(log) /\ ToHandOut \subseteq Nat
  BY <1>1 DEF ToHandOut
<1>3. cursor' \in ToHandOut
  BY <1>2, LeastElement DEF Incoming
<1> QED BY <1>1, <1>2, <1>3

\* Nothing of the invariant changes but the events, which lose their first.
LEMMA KeptRows ==
  ASSUME RowsInv, KnowsId, cursor' \in Nat, lastId' = lastId, log' = log,
         UNCHANGED <<table, work, pending, thread>>,
         tasks' = tasks \/ tasks' = Append(tasks, Close),
         events' = events \/ (events /= <<>> /\ events' = Tail(events))
  PROVE  RowsInv'
<1>1. /\ IsSeq(tasks')
      /\ \A k \in DOMAIN tasks' : \/ k \in DOMAIN tasks /\ tasks'[k] = tasks[k]
                                  \/ tasks'[k].op = "close"
  <2>1. CASE tasks' = tasks
    BY <2>1 DEF RowsInv, Lines
  <2>2. CASE tasks' = Append(tasks, Close)
    <3>1. Close.op = "close"
      BY DEF Close
    <3> QED BY <2>2, <3>1, OnAppend DEF RowsInv, Lines
  <2> QED BY <2>1, <2>2
<1>2. /\ IsSeq(events')
      /\ \A k \in DOMAIN events' : \E j \in DOMAIN events : events'[k] = events[j]
  <2>1. CASE events' = events
    BY <2>1 DEF RowsInv, Lines
  <2>2. CASE events /= <<>> /\ events' = Tail(events)
    BY <2>2, OnTail DEF RowsInv, Lines
  <2> QED BY <2>1, <2>2
<1>3. Rising' /\ NewRows'
  BY <1>1 DEF RowsInv, Rising, NewRows, IsInsert
<1>4. KnowsId'
  BY <1>1, <1>2 DEF KnowsId
<1> QED BY <1>1, <1>2, <1>3, <1>4 DEF RowsInv, Lines, ThreadSurvives, HasTop

LEMMA RowsHandlerStep ==
  ASSUME RowsInv, OnIdLoaded \/ OnMessage \/ OnRecordInserted
  PROVE  RowsInv'
<1>1. CASE OnIdLoaded
  <2>1. /\ events /= <<>> /\ events' = Tail(events) /\ Head(events).type = "id_loaded"
        /\ lastId' = Head(events).id
        /\ UNCHANGED <<table, work, tasks, pending, thread, log, cursor>>
    BY <1>1 DEF OnIdLoaded, Handles, threadVars, nodeVars
  <2>2. ~KnowsId
    <3>1. 1 \in DOMAIN events /\ Head(events) = events[1]
      BY <2>1, OnTail DEF RowsInv, Lines
    <3> QED BY <2>1, <3>1 DEF KnowsId
  <2>3. PICK m \in Nat : /\ tasks = <<>> /\ events = <<IdLoaded(m)>>
                         /\ \A r \in work : r <= m
    BY <2>1, <2>2 DEF RowsInv, AwaitsId
  <2>4. lastId' = m /\ events' = <<>>
    BY <2>1, <2>3 DEF IdLoaded
  <2>5. KnowsId' /\ Rising' /\ NewRows' /\ Lines'
    BY <2>1, <2>3, <2>4, OnEmpty DEF KnowsId, Rising, NewRows, RowsInv, Lines
  <2> QED BY <2>1, <2>4, <2>5 DEF RowsInv, ThreadSurvives, HasTop
<1>2. CASE InsertMessage
  <2> DEFINE t == Insert(lastId', [message |-> cursor', link |-> link])
  <2>1. /\ Incoming /\ attached /\ lastId' = log[cursor'] /\ IsNew(lastId')
        /\ tasks' = Append(tasks, t)
        /\ UNCHANGED <<table, work, pending, events, thread, log>>
    BY <1>2 DEF InsertMessage, Incoming, threadVars
  <2>2. t.op = "insert" /\ t.id = lastId'
    BY DEF Insert
  <2> HIDE DEF t
  <2>3. cursor' \in Nat /\ lastId' \in Nat \ {0} /\ lastId \in Nat
    BY <2>1, HandedOut DEF RowsInv
  <2>4. KnowsId
    BY <2>1 DEF RowsInv, AwaitsId
  <2>5. /\ IsSeq(tasks) /\ IsSeq(tasks')
        /\ \A k \in DOMAIN tasks' :
             tasks'[k] = t \/ (k \in DOMAIN tasks /\ tasks'[k] = tasks[k])
    BY <2>1, OnAppend DEF RowsInv, Lines
  <2>6. \A k \in DOMAIN tasks : IsInsert(tasks[k]) => tasks[k].id \in 1..lastId
                                                    /\ tasks[k].id < lastId'
    BY <2>1, <2>3 DEF RowsInv, NewRows, IsNew
  <2>7. \A r \in work : r \in Nat \ {0} /\ r < lastId'
    BY <2>1, <2>3, <2>4 DEF KnowsId, RowsInv, HasTop, IsNew
  <2>8. \A k \in DOMAIN tasks' : \/ k = Len(tasks) + 1 /\ tasks'[k] = t
                                 \/ k \in 1..Len(tasks) /\ tasks'[k] = tasks[k]
    <3>1. PICK S : tasks \in Seq(S)
      BY <2>5 DEF IsSeq
    <3> QED BY <2>1, <3>1
  <2>9. DOMAIN tasks = 1..Len(tasks) /\ Len(tasks) \in Nat
    <3>1. PICK S : tasks \in Seq(S)
      BY <2>5 DEF IsSeq
    <3> QED BY <3>1
  <2>10. Rising'
    BY <2>2, <2>3, <2>6, <2>8, <2>9 DEF RowsInv, Rising, IsInsert
  <2>11. NewRows'
    BY <2>1, <2>2, <2>3, <2>5, <2>6, <2>7 DEF RowsInv, NewRows, IsInsert
  <2>12. KnowsId'
    BY <2>1, <2>2, <2>4, <2>5, <2>7, <2>3 DEF KnowsId
  <2> QED BY <2>1, <2>3, <2>5, <2>10, <2>11, <2>12
          DEF RowsInv, Lines, ThreadSurvives, HasTop
<1>3. CASE ReleaseMessage \/ AcceptDuplicate
  <2>1. Incoming /\ UNCHANGED <<dbVars, lastId, attached, log>>
    BY <1>3 DEF ReleaseMessage, AcceptDuplicate, receiverVars
  <2>2. KnowsId /\ cursor' \in Nat
    BY <2>1, HandedOut DEF RowsInv, AwaitsId, Incoming
  <2> QED BY <2>1, <2>2, KeptRows DEF dbVars, threadVars
<1>4. CASE OnRecordInserted
  <2>1. /\ events /= <<>> /\ events' = Tail(events)
        /\ Head(events).type = "record_inserted"
        /\ tasks' = tasks \/ tasks' = Append(tasks, Close)
        /\ UNCHANGED <<table, work, pending, thread, log, lastId, cursor>>
    BY <1>4 DEF OnRecordInserted, Handles, threadVars
  <2>2. ~AwaitsId
    BY <2>1 DEF AwaitsId, IdLoaded
  <2>3. KnowsId /\ cursor' \in Nat
    BY <2>1, <2>2 DEF RowsInv
  <2> QED BY <2>1, <2>3, KeptRows
<1> QED BY <1>1, <1>2, <1>3, <1>4 DEF OnMessage

\* What the thread leaves of its tasks is as before.
LEMMA RowsTaskTaken ==
  ASSUME RowsInv, tasks /= <<>>, tasks' = Tail(tasks)
  PROVE  /\ IsSeq(tasks') /\ 1 \in DOMAIN tasks /\ Head(tasks) = tasks[1]
         /\ \A k \in DOMAIN tasks' : /\ k + 1 \in DOMAIN tasks
                                     /\ 1 < k + 1
                                     /\ tasks'[k] = tasks[k + 1]
         /\ Rising'
<1>1. PICK S : tasks \in Seq(S)
  BY DEF RowsInv, Lines, IsSeq
<1>2. /\ IsSeq(tasks') /\ 1 \in DOMAIN tasks /\ Head(tasks) = tasks[1]
      /\ \A k \in DOMAIN tasks' : k + 1 \in DOMAIN tasks /\ tasks'[k] = tasks[k + 1]
  BY OnTail DEF RowsInv, Lines
<1>3. tasks' \in Seq(S)
  BY <1>1
<1>4. DOMAIN tasks' \subseteq Nat \ {0}
  BY <1>3
<1>5. \A k \in DOMAIN tasks' : 1 < k + 1
  BY <1>4
<1>6. \A j, k \in DOMAIN tasks' : j < k => j + 1 < k + 1
  BY <1>4
<1>7. Rising'
  BY <1>2, <1>6 DEF RowsInv, Rising
<1> QED BY <1>2, <1>5, <1>7

LEMMA RowsThreadStep ==
  ASSUME RowsInv, RecvDbStep
  PROVE  RowsInv'
<1>0. UNCHANGED <<log, lastId, cursor, attached>>
  BY DEF RecvDbStep, receiverVars, nodeVars
<1>1. CASE RunGetId
  <2>1. /\ tasks /= <<>> /\ Head(tasks).op = "get_id" /\ tasks' = Tail(tasks)
        /\ events' = Append(events, IdLoaded(IF work = {} THEN 0 ELSE Max(work)))
        /\ thread' = "busy"
        /\ UNCHANGED <<table, work, pending>>
    BY <1>1 DEF RunGetId, Take
  <2>2. ~KnowsId
    BY <2>1, RowsTaskTaken DEF KnowsId
  <2>3. AwaitsId /\ tasks = <<GetId>> /\ events = <<>>
    BY <2>1, <2>2 DEF RowsInv, AwaitsId
  <2>4. PICK m \in Nat : /\ m = IF work = {} THEN 0 ELSE Max(work)
                         /\ \A r \in work : r <= m
    <3>1. CASE work = {}
      BY <3>1
    <3>2. CASE work /= {}
      BY <3>2, GreatestElement DEF RowsInv, HasTop
    <3> QED BY <3>1, <3>2
  <2>5. tasks' = <<>> /\ events' = <<IdLoaded(m)>>
    BY <2>1, <2>3, <2>4
  <2>6. AwaitsId' /\ Rising' /\ NewRows'
    BY <1>0, <2>1, <2>3, <2>4, <2>5, OnEmpty DEF AwaitsId, Rising, NewRows
  <2>7. Lines'
    BY <2>1, <2>5, OnEmpty, OnSingle DEF RowsInv, Lines
  <2> QED BY <1>0, <2>1, <2>6, <2>7 DEF RowsInv, ThreadSurvives, HasTop
<1>2. CASE RunInsert
  <2> DEFINE t == Head(tasks)
  <2>1. /\ tasks /= <<>> /\ t.op = "insert" /\ tasks' = Tail(tasks)
        /\ UNCHANGED <<table, events>>
    BY <1>2 DEF RunInsert, Take
  <2>2. /\ IsSeq(tasks') /\ 1 \in DOMAIN tasks /\ t = tasks[1]
        /\ \A k \in DOMAIN tasks' : /\ k + 1 \in DOMAIN tasks /\ 1 < k + 1
                                    /\ tasks'[k] = tasks[k + 1]
        /\ Rising'
    BY <2>1, RowsTaskTaken
  <2>3. t.id \in 1..lastId /\ \A r \in work : r < t.id
    BY <2>1, <2>2 DEF RowsInv, NewRows, IsInsert
  <2>4. t.id \notin work
    BY <2>3 DEF RowsInv, HasTop
  <2>5. /\ thread' = "busy" /\ work' = work \union {t.id}
        /\ pending' = Append(pending, RecordInserted(t.delivery))
    BY <1>2, <2>4 DEF RunInsert
  <2>6. KnowsId
    BY <2>1 DEF RowsInv, AwaitsId, GetId
  <2>7. HasTop(work')
    <3>1. t.id \in work' /\ \A r \in work' : r <= t.id
      BY <2>3, <2>5 DEF RowsInv, HasTop
    <3>2. work' \subseteq Nat \ {0}
      <4>1. t.id \in Nat \ {0}
        BY <2>3 DEF RowsInv
      <4> QED BY <2>5, <4>1 DEF RowsInv, HasTop
    <3> QED BY <3>1, <3>2 DEF HasTop
  <2>8. NewRows'
    <3> SUFFICES ASSUME NEW k \in DOMAIN tasks', IsInsert(tasks'[k])
                 PROVE  /\ tasks'[k].id \in 1..lastId'
                        /\ \A r \in work' : r < tasks'[k].id
      BY DEF NewRows
    <3>1. /\ tasks'[k].id \in 1..lastId /\ \A r \in work : r < tasks'[k].id
      BY <2>2 DEF RowsInv, NewRows
    <3>2. t.id < tasks'[k].id
      BY <2>1, <2>2 DEF RowsInv, Rising, IsInsert
    <3> QED BY <1>0, <2>5, <3>1, <3>2
  <2>9. KnowsId'
    BY <1>0, <2>1, <2>2, <2>3, <2>5, <2>6 DEF KnowsId, RowsInv
  <2>10. /\ IsSeq(pending')
         /\ \A k \in DOMAIN pending' : IsInserted(pending'[k])
    <3> DEFINE e == RecordInserted(t.delivery)
    <3>1. IsInserted(e)
      BY DEF IsInserted, RecordInserted
    <3>2. pending' = Append(pending, e)
      BY <2>5
    <3> HIDE DEF e
    <3> QED BY <3>1, <3>2, OnAppend DEF RowsInv, Lines
  <2> QED BY <1>0, <2>1, <2>2, <2>5, <2>7, <2>8, <2>9, <2>10
          DEF RowsInv, Lines, ThreadSurvives, HasTop
<1>3. CASE RunClose
  <2>1. /\ tasks /= <<>> /\ Head(tasks).op = "close" /\ tasks' = Tail(tasks)
        /\ thread' = "busy"
        /\ UNCHANGED <<table, work, pending, events>>
    BY <1>3 DEF RunClose, Take
  <2>2. KnowsId
    BY <2>1 DEF RowsInv, AwaitsId, GetId
  <2>3. IsSeq(tasks') /\ Rising' /\ NewRows' /\ KnowsId'
    BY <1>0, <2>1, <2>2, RowsTaskTaken DEF RowsInv, NewRows, KnowsId
  <2> QED BY <1>0, <2>1, <2>3 DEF RowsInv, Lines, ThreadSurvives, HasTop
<1>4. CASE Commit
  <2>1. /\ tasks = <<>> /\ tasks' = tasks /\ table' = work /\ work' = work
        /\ events' = events \o pending /\ pending' = <<>>
        /\ thread' \in {"waiting", "ended"}
    BY <1>4 DEF Commit
  <2>2. /\ IsSeq(events')
        /\ \A k \in DOMAIN events' :
             \/ k \in DOMAIN events /\ events'[k] = events[k]
             \/ \E j \in DOMAIN pending : events'[k] = pending[j]
    <3>1. IsSeq(events) /\ IsSeq(pending)
      BY DEF RowsInv, Lines
    <3> QED BY <2>1, <3>1, OnConcat
  <2>3. Rising' /\ NewRows'
    BY <1>0, <2>1, OnEmpty DEF Rising, NewRows
  <2>4. AwaitsId' \/ KnowsId'
    <3>1. CASE AwaitsId
      <4>1. PICK S : events \in Seq(S)
        BY DEF RowsInv, Lines, IsSeq
      <4>2. events' = events
        BY <2>1, <3>1, <4>1 DEF AwaitsId
      <4> QED BY <1>0, <2>1, <3>1, <4>2 DEF AwaitsId
    <3>2. CASE KnowsId
      BY <1>0, <2>1, <2>2, <3>2 DEF KnowsId, RowsInv, IsInserted
    <3> QED BY <3>1, <3>2 DEF RowsInv
  <2> QED BY <1>0, <2>1, <2>2, <2>3, <2>4, OnEmpty
          DEF RowsInv, Lines, ThreadSurvives, HasTop
<1> QED BY <1>1, <1>2, <1>3, <1>4 DEF RecvDbStep

LEMMA RowsInit ==
  ASSUME Init
  PROVE  RowsInv
<1>1. log \in Seq(Nat \ {0})
  <2>1. log \in BoundedSeq(Rows, MaxLog)
    BY DEF Init, Feeds
  <2>2. PICK n \in 0..MaxLog : log \in [1..n -> Rows]
    BY <2>1 DEF BoundedSeq, SeqOf
  <2>3. n \in Nat
    BY RowsAssumption
  <2>4. Rows \subseteq Nat \ {0}
    BY RowsAssumption
  <2>5. \A k \in 1..n : log[k] \in Nat \ {0}
    BY <2>2, <2>4
  <2>6. log \in [1..n -> Nat \ {0}]
    BY <2>2, <2>5
  <2> QED BY <2>3, <2>6
<1>2. /\ work = {} /\ table = {} /\ tasks = <<GetId>> /\ pending = <<>>
      /\ events = <<>> /\ thread = "waiting" /\ lastId = 0 /\ cursor = 0
      /\ ~attached
  BY DEF Init, RecvInit, DbInit
<1>3. AwaitsId /\ HasTop(work) /\ HasTop(table)
  BY <1>2 DEF AwaitsId, HasTop
<1>4. DOMAIN tasks = {1} /\ tasks[1].op = "get_id" /\ Lines
  BY <1>2, OnSingle, OnEmpty DEF GetId, Lines
<1>5. Rising /\ NewRows
  BY <1>4 DEF Rising, NewRows, IsInsert
<1> QED BY <1>1, <1>2, <1>3, <1>4, <1>5, OnEmpty DEF RowsInv, ThreadSurvives

LEMMA RowsStep ==
  ASSUME RowsInv, [RecvNext]_vars
  PROVE  RowsInv'
<1>1. ASSUME UNCHANGED <<dbVars, lastId, log>>, attached' = attached, cursor' \in Nat
      PROVE  RowsInv'
  BY <1>1 DEF RowsInv, dbVars, threadVars, Lines, ThreadSurvives, HasTop, Rising,
              NewRows, AwaitsId, KnowsId
<1>2. CASE OnIdLoaded \/ OnMessage \/ OnRecordInserted
  BY <1>2, RowsHandlerStep
<1>3. CASE RecvDbStep
  BY <1>3, RowsThreadStep
<1>4. CASE RecvCrash
  <2>1. /\ work' = table /\ table' = table /\ log' = log /\ tasks' = <<GetId>>
        /\ pending' = <<>> /\ events' = <<>> /\ thread' = "waiting"
        /\ lastId' = 0 /\ cursor' = 0 /\ ~attached'
    BY <1>4 DEF RecvCrash, DbRestart
  <2>2. AwaitsId'
    BY <2>1 DEF AwaitsId
  <2>3. DOMAIN tasks' = {1} /\ tasks'[1].op = "get_id" /\ Lines'
    BY <2>1, OnSingle, OnEmpty DEF GetId, Lines
  <2>4. Rising' /\ NewRows'
    BY <2>3 DEF Rising, NewRows, IsInsert
  <2> QED BY <2>1, <2>2, <2>3, <2>4, OnEmpty DEF RowsInv, ThreadSurvives, HasTop
<1>5. CASE NodeHears
  BY <1>1, <1>5 DEF NodeHears, receiverVars, RowsInv
<1>6. CASE LinkBreaks
  BY <1>1, <1>6 DEF LinkBreaks, receiverVars
<1>7. CASE UNCHANGED vars
  BY <1>1, <1>7 DEF vars, recvVars, receiverVars, nodeVars, RowsInv
<1> QED BY <1>2, <1>3, <1>4, <1>5, <1>6, <1>7 DEF RecvNext

\* No row is inserted twice, whatever the node hands out again, whatever crashes
\* and whichever connections break: the exception that would end the database
\* thread is never raised (ThreadSurvives).
THEOREM ThreadSurvivesHolds == Spec => []ThreadSurvives
<1>1. Init => RowsInv
  BY RowsInit
<1>2. RowsInv /\ [RecvNext]_vars => RowsInv'
  BY RowsStep
<1>3. RowsInv => ThreadSurvives
  BY DEF RowsInv
<1> QED BY <1>1, <1>2, <1>3, PTL DEF Spec

-----------------------------------------------------------------------------
(* Nothing is lost while connections last. *)

Heard == done \union accepting

\* Message k may be accepted: its row is in the file, or an earlier message
\* with this row is not accepted.
Accounted(k) ==
  log[k] \in table \/ \E m \in 1..(k - 1) : log[m] = log[k] /\ m \notin Heard

\* The acceptances on their way are of messages handed out on this connection,
\* and so are the inserts.
OfThis(d) == d.message \in 1..cursor

Deliveries ==
  /\ \A k \in DOMAIN tasks : IsInsert(tasks[k]) => OfThis(tasks[k].delivery)
  /\ \A k \in DOMAIN pending : OfThis(pending[k].delivery)
  /\ \A k \in DOMAIN events : IsInserted(events[k]) => OfThis(events[k].delivery)

Places == /\ cursor \in 0..Len(log) /\ accepting \subseteq 1..cursor
          /\ done \subseteq 1..Len(log)
          /\ Deliveries

\* The rows of the sender up to id m.
UpTo(m) == {r \in Rows : r <= m}

\* The rows have no gaps: what is up to lastId is in them or waits to be.
Filled(s) == \A r \in s : UpTo(r) \subseteq s

Filed ==
  \A u \in UpTo(lastId) :
    u \in work \/ \E k \in DOMAIN tasks : IsInsert(tasks[k]) /\ tasks[k].id = u

\* Up to lastId every row is in the file, or a message of this connection that
\* has it is not accepted.
Kept ==
  \A u \in UpTo(lastId) :
    u \in table \/ \E m \in 1..cursor : log[m] = u /\ m \notin Heard

\* Up to the cursor there are no rows beyond lastId, unless the receiver has what
\* it expects and inserts no more.
Seen == \/ Expected /= 0 /\ received >= Expected
        \/ \A k \in 1..cursor : log[k] <= lastId

\* While the last id is asked for the transaction is empty and nothing was handed
\* out, and the answer is the id of a row.
AsksId == \/ \E k \in DOMAIN tasks : tasks[k].op = "get_id"
          \/ \E k \in DOMAIN events : events[k].type = "id_loaded"

Starts ==
  /\ AsksId => work = table /\ cursor = 0
  /\ \A k \in DOMAIN events :
       events[k].type = "id_loaded" => events[k].id \in table \union {0}

KeepInv == /\ Places /\ Filled(table) /\ Filled(work) /\ Filed
           /\ \A k \in Heard : Accounted(k)
           /\ Kept /\ Seen /\ Starts

LossInv == /\ CommitInv /\ RowsInv
           /\ log \in Seq(Rows) /\ Sequenced(log)
           /\ received \in Nat /\ link \in Nat
           /\ link = 0 => KeepInv

LEMMA NothingUpToZero == UpTo(0) = {}
<1>1. ASSUME NEW r \in Rows
      PROVE  ~(r <= 0)
  <2>1. r \in Nat \ {0}
    BY RowsAssumption
  <2> QED BY <2>1
<1> QED BY <1>1 DEF UpTo

\* A task that is not the first one moves up.
LEMMA OnRest ==
  ASSUME NEW s, IsSeq(s), s /= <<>>, NEW k \in DOMAIN s, k /= 1
  PROVE  k - 1 \in DOMAIN Tail(s) /\ Tail(s)[k - 1] = s[k]
<1>1. PICK S : s \in Seq(S)
  BY DEF IsSeq
<1>2. k \in 2..Len(s) /\ Len(s) \in Nat
  BY <1>1
<1> QED BY <1>1, <1>2

LEMMA OnLonger ==
  ASSUME NEW s, IsSeq(s), NEW e
  PROVE  /\ \A k \in DOMAIN s : k \in DOMAIN Append(s, e) /\ Append(s, e)[k] = s[k]
         /\ \E k \in DOMAIN Append(s, e) : Append(s, e)[k] = e
<1>1. PICK S : s \in Seq(S)
  BY DEF IsSeq
<1>2. Len(s) \in Nat /\ Len(s) + 1 \in DOMAIN Append(s, e)
      /\ Append(s, e)[Len(s) + 1] = e
  BY <1>1
<1> QED BY <1>1, <1>2

\* Accepting messages whose rows are in the file loses none.
LEMMA AccountedStays ==
  ASSUME KeepInv, log' = log, table \subseteq table',
         NEW A, Heard' \subseteq Heard \union A, \A k \in A : log[k] \in table'
  PROVE  /\ \A k \in Heard' : Accounted(k)'
         /\ cursor' = cursor /\ lastId' = lastId => Kept'
<1>1. ASSUME NEW k \in Heard'
      PROVE  Accounted(k)'
  <2>1. CASE k \in A
    BY <2>1 DEF Accounted
  <2>2. CASE k \in Heard
    <3>1. Accounted(k)
      BY <2>2 DEF KeepInv
    <3> QED BY <3>1 DEF Accounted
  <2> QED BY <2>1, <2>2
<1>2. cursor' = cursor /\ lastId' = lastId => Kept'
  BY DEF KeepInv, Kept
<1> QED BY <1>1, <1>2

\* The places around a step from a to b in a sequence of length n.
Between(a, b, n) ==
  /\ b \in Nat /\ b \in 0..n /\ b \in 1..b /\ b \notin 1..a
  /\ 1..a \subseteq 1..b /\ 1..a \subseteq 1..(b - 1)
  /\ 1..(b - 1) \subseteq 1..n
  /\ \A k \in 1..b : k = b \/ k \in 1..(b - 1)
  /\ \A k \in 1..(b - 1) : k \in 1..a \/ (k \in (a + 1)..n /\ ~(b <= k))
  /\ \A k \in 1..(b - 1) : 1..(k - 1) \subseteq 1..(b - 1)

LEMMA Steps ==
  ASSUME NEW a \in Nat, NEW n \in Nat, NEW b \in 1..n, a < b
  PROVE  Between(a, b, n)
BY DEF Between

\* A message that is handed out has all messages before it accepted or handed out
\* before, so that their rows are known.
LEMMA Behind ==
  ASSUME LossInv, KeepInv, Incoming
  PROVE  /\ KnowsId /\ ~AsksId
         /\ cursor' \in 1..Len(log) /\ Len(log) \in Nat /\ cursor \in Nat
         /\ cursor < cursor' /\ cursor' \notin Heard
         /\ Between(cursor, cursor', Len(log))
         /\ log[cursor'] \in Nat \ {0}
         /\ ~(Expected /= 0 /\ received >= Expected)
              => \A j \in 1..(cursor' - 1) : log[j] <= lastId
<1>1. KnowsId
  BY DEF LossInv, RowsInv, AwaitsId, Incoming
<1>2. ~AsksId
  BY <1>1 DEF KnowsId, AsksId
<1>3. /\ log \in Seq(Nat \ {0}) /\ Len(log) \in Nat /\ cursor \in 0..Len(log)
      /\ accepting \subseteq 1..cursor /\ lastId \in Nat
  BY DEF LossInv, RowsInv, KeepInv, Places
<1>4. ToHandOut \subseteq Nat /\ ToHandOut /= {}
  BY <1>3 DEF ToHandOut, Incoming
<1>5. cursor' \in ToHandOut /\ \A j \in ToHandOut : cursor' <= j
  BY <1>4, LeastElement DEF Incoming
<1>6. /\ cursor' \in 1..Len(log) /\ cursor < cursor' /\ cursor' \notin done
      /\ cursor' \in Nat
  BY <1>3, <1>5 DEF ToHandOut
<1>7. /\ cursor \in Nat /\ cursor' \notin Heard /\ log[cursor'] \in Nat \ {0}
      /\ Between(cursor, cursor', Len(log))
  BY <1>3, <1>6, Steps DEF Heard
<1>8. ASSUME ~(Expected /= 0 /\ received >= Expected),
             NEW j \in 1..(cursor' - 1)
      PROVE  log[j] <= lastId
  <2>1. \A k \in 1..cursor : log[k] <= lastId
    BY <1>8 DEF KeepInv, Seen
  <2>2. ASSUME NEW i \in 1..(cursor' - 1)
        PROVE  i \in 1..cursor \/ i \in done
    <3>1. i \in 1..cursor \/ (i \in (cursor + 1)..Len(log) /\ ~(cursor' <= i))
      BY <1>7, <2>2, Zenon DEF Between
    <3>2. ~(cursor' <= i) => i \notin ToHandOut
      BY <1>5, Zenon
    <3> QED BY <3>1, <3>2, Zenon DEF ToHandOut
  <2>3. CASE j \in 1..cursor
    BY <2>1, <2>3
  <2>4. CASE j \in done
    <3>1. Accounted(j)
      BY <2>4 DEF KeepInv, Heard
    <3>2. CASE log[j] \in table
      BY <1>1, <3>2 DEF KnowsId, LossInv, CommitInv, WorkExtends
    <3>3. ASSUME NEW m \in 1..(j - 1), log[m] = log[j], m \notin Heard
          PROVE  log[j] <= lastId
      <4>1. m \in 1..(cursor' - 1)
        BY <1>7, Zenon DEF Between
      <4>2. m \in 1..cursor
        BY <2>2, <3>3, <4>1 DEF Heard
      <4> QED BY <2>1, <3>3, <4>2
    <3> QED BY <3>1, <3>2, <3>3 DEF Accounted
  <2> QED BY <2>2, <2>3, <2>4
<1> QED BY <1>1, <1>2, <1>3, <1>6, <1>7, <1>8

\* What was handed out before is handed out before a later message, too.
LEMMA PlacesGrow ==
  ASSUME Places, Len(log) \in Nat, cursor \in Nat, cursor' \in 1..Len(log),
         cursor < cursor', log' = log, done' = done,
         accepting' = accepting \/ accepting' = accepting \union {cursor'},
         UNCHANGED <<pending, events>>,
         \A k \in DOMAIN tasks' :
           \/ k \in DOMAIN tasks /\ tasks'[k] = tasks[k]
           \/ tasks'[k].delivery.message \in 1..cursor'
  PROVE  Places'
<1>1. /\ 1..cursor \subseteq 1..cursor' /\ cursor' \in 1..cursor'
      /\ cursor' \in 0..Len(log)
  BY Steps DEF Between
<1>2. Deliveries'
  BY <1>1 DEF Places, Deliveries, OfThis, IsInsert, IsInserted
<1> QED BY <1>1, <1>2 DEF Places

\* on_message inserts: the row is the next one.
LEMMA InsertKeeps ==
  ASSUME LossInv, KeepInv, InsertMessage
  PROVE  KeepInv'
<1> DEFINE t == Insert(lastId', [message |-> cursor', link |-> link])
<1>1. /\ Incoming /\ lastId' = log[cursor'] /\ IsNew(lastId')
      /\ tasks' = Append(tasks, t)
      /\ ~(Expected /= 0 /\ received >= Expected)
      /\ UNCHANGED <<table, work, pending, events, accepting, done, log>>
  <2>1. Expected = 0 \/ received < Expected
    BY DEF InsertMessage
  <2>2. ~(Expected /= 0 /\ received >= Expected)
    BY <2>1, DbRecvAssumption DEF LossInv
  <2> QED BY <2>2 DEF InsertMessage, threadVars
<1>2. IsInsert(t) /\ t.op = "insert" /\ t.id = lastId' /\ t.delivery.message = cursor'
  BY DEF Insert, IsInsert
<1> HIDE DEF t
<1>3. /\ ~AsksId
      /\ cursor' \in 1..Len(log) /\ Len(log) \in Nat /\ cursor \in Nat
      /\ cursor < cursor' /\ cursor' \notin Heard
      /\ Between(cursor, cursor', Len(log))
      /\ lastId' \in Nat \ {0}
      /\ \A j \in 1..(cursor' - 1) : log[j] <= lastId
  BY <1>1, Behind
<1>4. /\ log \in Seq(Nat \ {0}) /\ Sequenced(log) /\ lastId \in Nat
      /\ cursor \in Nat /\ DOMAIN log = 1..Len(log) /\ IsSeq(tasks)
  BY DEF LossInv, RowsInv, Lines
<1>5. /\ \A k \in DOMAIN tasks : k \in DOMAIN tasks' /\ tasks'[k] = tasks[k]
      /\ \E k \in DOMAIN tasks' : tasks'[k] = t
      /\ \A k \in DOMAIN tasks' : \/ tasks'[k] = t
                                  \/ k \in DOMAIN tasks /\ tasks'[k] = tasks[k]
  BY <1>1, <1>4, OnLonger, OnAppend
<1>6. lastId <= lastId' /\ \A u \in UpTo(lastId') : u \in UpTo(lastId) \/ u = lastId'
  <2>1. lastId < lastId'
    BY <1>1, <1>3, <1>4 DEF IsNew
  <2>2. ASSUME NEW u \in Rows, u <= lastId', u /= lastId'
        PROVE  u <= lastId
    <3>1. u < log[cursor']
      BY <1>1, <1>3, <2>2, RowsAssumption
    <3>2. PICK j \in 1..(cursor' - 1) : log[j] = u
      BY <1>3, <1>4, <3>1 DEF Sequenced
    <3> QED BY <1>3, <3>2
  <2> QED BY <1>3, <1>4, <2>1, <2>2 DEF UpTo
<1>7. Places'
  BY <1>1, <1>2, <1>3, <1>5, PlacesGrow DEF KeepInv, OfThis
<1>8. Filed'
  <2> SUFFICES ASSUME NEW u \in UpTo(lastId')
               PROVE  \/ u \in work
                      \/ \E k \in DOMAIN tasks' : IsInsert(tasks'[k]) /\ tasks'[k].id = u
    BY <1>1 DEF Filed, UpTo
  <2>1. u \in UpTo(lastId) \/ u = lastId'
    BY <1>6
  <2> QED BY <1>2, <1>5, <2>1 DEF KeepInv, Filed
<1>9. (\A k \in Heard' : Accounted(k)') /\ Heard' = Heard
  BY <1>1 DEF Heard, KeepInv, Accounted
<1>10. Kept'
  <2> SUFFICES ASSUME NEW u \in UpTo(lastId')
               PROVE  u \in table \/ \E m \in 1..cursor' : log[m] = u /\ m \notin Heard
    BY <1>1, <1>9 DEF Kept, UpTo
  <2>1. u \in UpTo(lastId) \/ u = lastId'
    BY <1>6
  <2>2. 1..cursor \subseteq 1..cursor' /\ cursor' \in 1..cursor'
    BY <1>3, <1>4
  <2> QED BY <1>1, <1>3, <2>1, <2>2 DEF KeepInv, Kept
<1>11. Seen'
  <2>1. ASSUME NEW k \in 1..cursor'
        PROVE  log[k] <= lastId'
    <3>1. CASE k = cursor'
      BY <1>1, <1>3, <3>1
    <3>2. CASE k /= cursor'
      <4>1. k \in 1..(cursor' - 1) /\ k \in 1..Len(log)
        BY <1>3, <2>1, <3>2, Zenon DEF Between
      <4>2. log[k] <= lastId
        BY <1>3, <4>1, Zenon
      <4>3. log[k] \in Nat
        BY <1>4, <4>1
      <4> QED BY <1>3, <1>4, <1>6, <4>2, <4>3
    <3> QED BY <3>1, <3>2
  <2> QED BY <1>1, <2>1 DEF Seen
<1>12. Starts'
  BY <1>1, <1>2, <1>3, <1>5 DEF KeepInv, Starts, AsksId
<1> QED BY <1>1, <1>7, <1>8, <1>9, <1>10, <1>11, <1>12 DEF KeepInv, Filled

\* on_message releases, or accepts a duplicate: its row is in the file, or an
\* earlier message that has it is not accepted.
LEMMA OtherMessageKeeps ==
  ASSUME LossInv, KeepInv, ReleaseMessage \/ AcceptDuplicate
  PROVE  KeepInv'
<1>1. /\ Incoming
      /\ UNCHANGED <<table, work, tasks, pending, events, done, log, lastId, received>>
  BY DEF ReleaseMessage, AcceptDuplicate, dbVars, threadVars, receiverVars
<1>2. /\ ~AsksId
      /\ cursor' \in 1..Len(log) /\ Len(log) \in Nat /\ cursor \in Nat
      /\ cursor < cursor' /\ cursor' \notin Heard
      /\ Between(cursor, cursor', Len(log))
      /\ log[cursor'] \in Nat \ {0}
      /\ ~(Expected /= 0 /\ received >= Expected)
           => \A j \in 1..(cursor' - 1) : log[j] <= lastId
  BY <1>1, Behind
<1>3. accepting' = accepting \/ accepting' = accepting \union {cursor'}
  BY DEF ReleaseMessage, AcceptDuplicate
<1>4. lastId \in Nat /\ cursor \in Nat /\ 1..cursor \subseteq 1..cursor'
  BY <1>2 DEF LossInv, RowsInv
<1>5. Places'
  BY <1>1, <1>2, <1>3, PlacesGrow DEF KeepInv
<1>6. Filed' /\ Starts'
  BY <1>1, <1>2 DEF KeepInv, Filed, Starts, AsksId
<1>7. CASE ReleaseMessage
  <2>1. Heard' = Heard /\ Expected /= 0 /\ received >= Expected
    BY <1>1, <1>7 DEF ReleaseMessage, Heard
  <2>2. (\A k \in Heard' : Accounted(k)') /\ Seen'
    BY <1>1, <2>1 DEF KeepInv, Accounted, Seen
  <2>3. Kept'
    BY <1>1, <1>4, <2>1 DEF KeepInv, Kept
  <2> QED BY <1>1, <1>5, <1>6, <2>2, <2>3 DEF KeepInv, Filled
<1>8. CASE AcceptDuplicate
  <2>1. /\ Heard' = Heard \union {cursor'}
        /\ log[cursor'] \in UpTo(lastId)
    <3>1. log[cursor'] \in Rows
      BY <1>2 DEF LossInv
    <3> QED BY <1>1, <1>2, <1>4, <1>8, <3>1
            DEF AcceptDuplicate, Heard, IsNew, UpTo
  <2>2. \A u \in UpTo(lastId) :
          u \in table \/ \E m \in 1..cursor : log[m] = u /\ m \notin Heard'
    <3>1. cursor' \notin 1..cursor
      BY <1>2, <1>4
    <3> QED BY <2>1, <3>1 DEF KeepInv, Kept
  <2>3. Kept'
    BY <1>1, <1>4, <2>2 DEF Kept
  <2>4. ASSUME NEW k \in Heard'
        PROVE  Accounted(k)'
    <3>1. ASSUME NEW j \in Heard', j = cursor' \/ (j \in Nat /\ cursor' < j),
                 log[j] = log[cursor']
          PROVE  Accounted(j)'
      <4>1. log[j] \in table \/ \E m \in 1..cursor : log[m] = log[j] /\ m \notin Heard'
        BY <2>1, <2>2, <3>1
      <4>2. 1..cursor \subseteq 1..(j - 1)
        BY <1>2, <1>4, <3>1
      <4> QED BY <1>1, <4>1, <4>2 DEF Accounted
    <3>2. CASE k = cursor'
      BY <3>1, <3>2
    <3>3. CASE k \in Heard
      <4>1. Accounted(k) /\ k \in Nat
        BY <3>3 DEF KeepInv, Heard, Places
      <4>2. CASE log[k] \in table
        BY <1>1, <4>2 DEF Accounted
      <4>3. ASSUME NEW m \in 1..(k - 1), log[m] = log[k], m \notin Heard
            PROVE  Accounted(k)'
        <5>1. CASE m = cursor'
          BY <3>1, <4>1, <4>3, <5>1
        <5>2. CASE m /= cursor'
          BY <1>1, <2>1, <4>3, <5>2 DEF Accounted
        <5> QED BY <5>1, <5>2
      <4> QED BY <4>1, <4>2, <4>3 DEF Accounted
    <3> QED BY <2>1, <3>2, <3>3
  <2>5. Seen'
    <3>1. CASE Expected /= 0 /\ received >= Expected
      BY <1>1, <3>1 DEF Seen
    <3>2. CASE ~(Expected /= 0 /\ received >= Expected)
      <4>1. \A j \in 1..cursor' : j = cursor' \/ j \in 1..(cursor' - 1)
        BY <1>2, Zenon DEF Between
      <4>2. log[cursor'] <= lastId
        BY <1>4, <2>1 DEF UpTo
      <4>3. \A j \in 1..cursor' : log[j] <= lastId
        BY <1>2, <3>2, <4>1, <4>2, Zenon
      <4> QED BY <1>1, <4>3, Zenon DEF Seen
    <3> QED BY <3>1, <3>2
  <2> QED BY <1>1, <1>5, <1>6, <2>3, <2>4, <2>5 DEF KeepInv, Filled
<1> QED BY <1>7, <1>8

\* Tasks become pending events and these become events: their deliveries stay.
LEMMA DeliveriesStay ==
  ASSUME Places, UNCHANGED <<log, cursor, done>>, accepting' \subseteq 1..cursor,
         \A k \in DOMAIN tasks' :
           \/ \E j \in DOMAIN tasks : tasks'[k] = tasks[j]
           \/ ~IsInsert(tasks'[k]),
         \A k \in DOMAIN pending' :
           \/ \E j \in DOMAIN pending : pending'[k] = pending[j]
           \/ \E j \in DOMAIN tasks : /\ IsInsert(tasks[j])
                                      /\ pending'[k].delivery = tasks[j].delivery,
         \A k \in DOMAIN events' :
           \/ \E j \in DOMAIN events : events'[k] = events[j]
           \/ \E j \in DOMAIN pending : events'[k] = pending[j]
           \/ ~IsInserted(events'[k])
  PROVE  Places'
<1>1. Deliveries'
  BY DEF Places, Deliveries, OfThis, IsInsert, IsInserted
<1> QED BY <1>1 DEF Places

\* The last id is the id of a row, and the rows up to it are in the file.
LEMMA LoadedKeeps ==
  ASSUME LossInv, KeepInv, OnIdLoaded
  PROVE  KeepInv'
<1>1. /\ events /= <<>> /\ events' = Tail(events) /\ Head(events).type = "id_loaded"
      /\ lastId' = Head(events).id
      /\ UNCHANGED <<table, work, tasks, pending, log, cursor, accepting, done, received>>
  BY DEF OnIdLoaded, Handles, threadVars, nodeVars
<1>2. 1 \in DOMAIN events /\ Head(events) = events[1]
  BY <1>1, OnTail DEF LossInv, RowsInv, Lines
<1>3. ~KnowsId /\ AsksId
  BY <1>1, <1>2 DEF KnowsId, AsksId
<1>4. PICK m \in Nat : tasks = <<>> /\ events = <<IdLoaded(m)>>
  BY <1>1, <1>3 DEF LossInv, RowsInv, AwaitsId
<1>5. events' = <<>> /\ tasks' = <<>>
  BY <1>1, <1>4
<1>6. lastId' \in table \union {0} /\ work = table /\ cursor = 0 /\ lastId' \in Nat
  BY <1>1, <1>2, <1>3, <1>4 DEF KeepInv, Starts, IdLoaded
<1>7. UpTo(lastId') \subseteq table
  <2>1. CASE lastId' = 0
    BY <2>1, NothingUpToZero
  <2>2. CASE lastId' \in table
    BY <2>2 DEF KeepInv, Filled
  <2> QED BY <1>6, <2>1, <2>2
<1>8. Places'
  BY <1>1, <1>5, OnEmpty DEF KeepInv, Places, Deliveries, OfThis
<1>9. Filed' /\ Kept'
  BY <1>1, <1>6, <1>7 DEF Filed, Kept
<1>10. Seen'
  <2>1. 1..cursor' = {}
    BY <1>1, <1>6
  <2> QED BY <2>1 DEF Seen
<1>11. Starts'
  BY <1>5, OnEmpty DEF Starts, AsksId
<1>12. \A k \in Heard' : Accounted(k)'
  BY <1>1 DEF KeepInv, Heard, Accounted
<1> QED BY <1>1, <1>8, <1>9, <1>10, <1>11, <1>12 DEF KeepInv, Filled

\* The message of an insert is accepted when its row is in the file.
LEMMA InsertedKeeps ==
  ASSUME LossInv, KeepInv, OnRecordInserted
  PROVE  KeepInv'
<1> DEFINE d == Head(events).delivery.message
<1>1. /\ events /= <<>> /\ events' = Tail(events)
      /\ Head(events).type = "record_inserted"
      /\ accepting' = accepting \/ accepting' = accepting \union {d}
      /\ tasks' = tasks \/ tasks' = Append(tasks, Close)
      /\ UNCHANGED <<table, work, pending, log, cursor, done, lastId, received>>
  BY DEF OnRecordInserted, Handles, threadVars
<1>2. /\ IsSeq(tasks) /\ 1 \in DOMAIN events /\ Head(events) = events[1]
      /\ \A k \in DOMAIN events' : k + 1 \in DOMAIN events /\ events'[k] = events[k + 1]
  BY <1>1, OnTail DEF LossInv, RowsInv, Lines
<1>3. d \in 1..cursor /\ log[d] \in table
  BY <1>1, <1>2 DEF KeepInv, Places, Deliveries, OfThis, IsInserted,
                    LossInv, CommitInv, InsertedIsCommitted
<1>4. Heard' \subseteq Heard \union {d}
  BY <1>1 DEF Heard
<1>5. ~IsInsert(Close) /\ Close.op /= "get_id"
  BY DEF Close, IsInsert
<1>6. /\ \A k \in DOMAIN tasks : k \in DOMAIN tasks' /\ tasks'[k] = tasks[k]
      /\ \A k \in DOMAIN tasks' : \/ k \in DOMAIN tasks /\ tasks'[k] = tasks[k]
                                  \/ tasks'[k] = Close
  <2>1. CASE tasks' = tasks
    BY <2>1
  <2>2. CASE tasks' = Append(tasks, Close)
    BY <1>2, <2>2, OnLonger, OnAppend
  <2> QED BY <1>1, <2>1, <2>2
<1>7. Places'
  <2>1. accepting' \subseteq 1..cursor
    BY <1>1, <1>3 DEF KeepInv, Places
  <2> QED BY <1>1, <1>2, <1>5, <1>6, <2>1, DeliveriesStay DEF KeepInv
<1>8. (\A k \in Heard' : Accounted(k)') /\ Kept'
  <2> HIDE DEF d
  <2> QED BY <1>1, <1>3, <1>4, AccountedStays
<1>9. Filed' /\ Seen'
  BY <1>1, <1>6 DEF KeepInv, Filed, Seen
<1>10. Starts'
  BY <1>1, <1>2, <1>5, <1>6 DEF KeepInv, Starts, AsksId
<1> QED BY <1>1, <1>7, <1>8, <1>9, <1>10 DEF KeepInv, Filled

\* The thread takes a task that is not an insert and leaves the rows alone.
LEMMA TakenKeeps ==
  ASSUME LossInv, KeepInv, tasks /= <<>>, tasks' = Tail(tasks),
         ~IsInsert(Head(tasks)),
         UNCHANGED <<table, work, pending, log, cursor, accepting, done, lastId,
                     received>>,
         \A k \in DOMAIN events' : \/ \E j \in DOMAIN events : events'[k] = events[j]
                                   \/ ~IsInserted(events'[k])
  PROVE  /\ Places' /\ Filed' /\ Kept' /\ Seen' /\ \A k \in Heard' : Accounted(k)'
         /\ \A k \in DOMAIN tasks' : \E j \in DOMAIN tasks : tasks'[k] = tasks[j]
<1>1. /\ Head(tasks) = tasks[1]
      /\ \A k \in DOMAIN tasks' : \E j \in DOMAIN tasks : tasks'[k] = tasks[j]
  BY RowsTaskTaken DEF LossInv
<1>2. \A k \in DOMAIN tasks : k /= 1 => /\ k - 1 \in DOMAIN tasks'
                                        /\ tasks'[k - 1] = tasks[k]
  BY OnRest DEF LossInv, RowsInv, Lines
<1>3. Filed'
  BY <1>1, <1>2 DEF KeepInv, Filed, UpTo
<1>4. Places'
  <2>1. accepting' \subseteq 1..cursor
    BY DEF KeepInv, Places
  <2> QED BY <1>1, <2>1, DeliveriesStay DEF KeepInv
<1>5. Kept' /\ Seen' /\ \A k \in Heard' : Accounted(k)'
  BY DEF KeepInv, Kept, Seen, Heard, Accounted
<1> QED BY <1>1, <1>3, <1>4, <1>5

\* A step of the database thread.
LEMMA ThreadKeeps ==
  ASSUME LossInv, KeepInv, RecvDbStep
  PROVE  KeepInv'
<1>0. UNCHANGED <<log, lastId, cursor, received, accepting, done>>
  BY DEF RecvDbStep, receiverVars, nodeVars
<1>1. CASE RunGetId
  <2>1. /\ tasks /= <<>> /\ Head(tasks).op = "get_id" /\ tasks' = Tail(tasks)
        /\ events' = Append(events, IdLoaded(IF work = {} THEN 0 ELSE Max(work)))
        /\ UNCHANGED <<table, work, pending>>
    BY <1>1 DEF RunGetId, Take
  <2>2. ~KnowsId /\ AsksId
    BY <2>1, RowsTaskTaken DEF KnowsId, AsksId, LossInv
  <2>3. tasks = <<GetId>> /\ events = <<>>
    BY <2>1, <2>2 DEF LossInv, RowsInv, AwaitsId
  <2>4. PICK m \in table \union {0} : m = IF work = {} THEN 0 ELSE Max(work)
    <3>1. work = table
      BY <2>2 DEF KeepInv, Starts
    <3>2. CASE work /= {}
      BY <3>1, <3>2, GreatestElement DEF LossInv, RowsInv
    <3> QED BY <3>2
  <2>5. events' = <<IdLoaded(m)>>
    BY <2>1, <2>3, <2>4
  <2>6. DOMAIN events' = {1} /\ events'[1].id = m /\ ~IsInserted(events'[1])
    BY <2>5, OnSingle DEF IdLoaded, IsInserted
  <2>7. ~IsInsert(Head(tasks))
    BY <2>1 DEF IsInsert
  <2>8. Places' /\ Filed' /\ Kept' /\ Seen' /\ \A k \in Heard' : Accounted(k)'
    BY <1>0, <2>1, <2>6, <2>7, TakenKeeps
  <2>9. Starts'
    BY <1>0, <2>1, <2>2, <2>4, <2>6 DEF KeepInv, Starts
  <2> QED BY <2>1, <2>8, <2>9 DEF KeepInv, Filled
<1>2. CASE RunInsert
  <2> DEFINE t == Head(tasks)
  <2>1. /\ tasks /= <<>> /\ t.op = "insert" /\ tasks' = Tail(tasks)
        /\ UNCHANGED <<table, events>>
    BY <1>2 DEF RunInsert, Take
  <2>2. /\ 1 \in DOMAIN tasks /\ t = tasks[1]
        /\ \A k \in DOMAIN tasks' : k + 1 \in DOMAIN tasks /\ tasks'[k] = tasks[k + 1]
    BY <2>1, RowsTaskTaken DEF LossInv
  <2>3. t.id \in 1..lastId /\ \A r \in work : r < t.id
    BY <2>1, <2>2 DEF LossInv, RowsInv, NewRows, IsInsert
  <2>4. t.id \notin work
    BY <2>3 DEF LossInv, RowsInv, HasTop
  <2>5. /\ work' = work \union {t.id}
        /\ pending' = Append(pending, RecordInserted(t.delivery))
    BY <1>2, <2>4 DEF RunInsert
  <2>6. KnowsId
    BY <2>1 DEF LossInv, RowsInv, AwaitsId, GetId
  <2>7. \A k \in DOMAIN tasks : k /= 1 => /\ 1 < k /\ k - 1 \in DOMAIN tasks'
                                          /\ tasks'[k - 1] = tasks[k]
    <3>1. IsSeq(tasks)
      BY DEF LossInv, RowsInv, Lines
    <3>2. PICK S : tasks \in Seq(S)
      BY <3>1 DEF IsSeq
    <3>3. \A k \in DOMAIN tasks : k /= 1 => 1 < k
      BY <3>2
    <3> QED BY <2>1, <3>1, <3>3, OnRest
  <2>8. Filed'
    BY <1>0, <2>2, <2>5, <2>7 DEF KeepInv, Filed
  <2>9. Filled(work')
    <3> SUFFICES ASSUME NEW u \in UpTo(t.id)
                 PROVE  u \in work \/ u = t.id
      BY <2>5 DEF KeepInv, Filled
    <3>1. u \in UpTo(lastId) /\ u \in Nat /\ u <= t.id
      BY <2>3, RowsAssumption DEF LossInv, RowsInv, UpTo
    <3>2. ASSUME NEW k \in DOMAIN tasks, IsInsert(tasks[k]), tasks[k].id = u, k /= 1
          PROVE  FALSE
      <4>1. t.id < u
        BY <2>1, <2>2, <2>7, <3>2 DEF LossInv, RowsInv, Rising, IsInsert
      <4> QED BY <2>3, <3>1, <4>1 DEF LossInv, RowsInv
    <3> QED BY <2>2, <3>1, <3>2 DEF KeepInv, Filed
  <2>10. Places'
    <3> DEFINE e == RecordInserted(t.delivery)
    <3>1. pending' = Append(pending, e) /\ e.delivery = t.delivery
      BY <2>5 DEF RecordInserted
    <3> HIDE DEF e
    <3>2. \A k \in DOMAIN pending' :
            pending'[k] = e \/ (k \in DOMAIN pending /\ pending'[k] = pending[k])
      BY <3>1, OnAppend DEF LossInv, RowsInv, Lines
    <3>3. \A k \in DOMAIN pending' :
            \/ \E j \in DOMAIN pending : pending'[k] = pending[j]
            \/ \E j \in DOMAIN tasks : /\ IsInsert(tasks[j])
                                       /\ pending'[k].delivery = tasks[j].delivery
      BY <2>1, <2>2, <3>1, <3>2 DEF IsInsert
    <3>4. accepting' \subseteq 1..cursor
      BY <1>0 DEF KeepInv, Places
    <3> QED BY <1>0, <2>1, <2>2, <3>3, <3>4, DeliveriesStay DEF KeepInv
  <2>11. Kept' /\ Seen' /\ \A k \in Heard' : Accounted(k)'
    BY <1>0, <2>1 DEF KeepInv, Kept, Seen, Heard, Accounted
  <2>12. Starts'
    BY <2>1, <2>2, <2>6 DEF KnowsId, Starts, AsksId
  <2> QED BY <2>1, <2>8, <2>9, <2>10, <2>11, <2>12 DEF KeepInv, Filled
<1>3. CASE RunClose
  <2>1. /\ tasks /= <<>> /\ Head(tasks).op = "close" /\ tasks' = Tail(tasks)
        /\ UNCHANGED <<table, work, pending, events>>
    BY <1>3 DEF RunClose, Take
  <2>2. ~IsInsert(Head(tasks))
    BY <2>1 DEF IsInsert
  <2>3. /\ Places' /\ Filed' /\ Kept' /\ Seen' /\ \A k \in Heard' : Accounted(k)'
        /\ \A k \in DOMAIN tasks' : \E j \in DOMAIN tasks : tasks'[k] = tasks[j]
    BY <1>0, <2>1, <2>2, TakenKeeps
  <2>4. Starts'
    BY <1>0, <2>1, <2>3 DEF KeepInv, Starts, AsksId
  <2> QED BY <2>1, <2>3, <2>4 DEF KeepInv, Filled
<1>4. CASE Commit
  <2>1. /\ tasks = <<>> /\ tasks' = tasks /\ table' = work /\ work' = work
        /\ events' = events \o pending /\ pending' = <<>>
    BY <1>4 DEF Commit
  <2>2. \A k \in DOMAIN events' :
          \/ k \in DOMAIN events /\ events'[k] = events[k]
          \/ \E j \in DOMAIN pending : events'[k] = pending[j]
    BY <2>1, OnConcat DEF LossInv, RowsInv, Lines
  <2>3. table \subseteq table'
    BY <2>1 DEF LossInv, CommitInv, WorkExtends
  <2>4. (\A k \in Heard' : Accounted(k)') /\ Kept'
    <3>1. Heard' \subseteq Heard \union {}
      BY <1>0 DEF Heard
    <3>2. PICK A : A = {}
      OBVIOUS
    <3>3. Heard' \subseteq Heard \union A /\ \A k \in A : log[k] \in table'
      BY <3>1, <3>2
    <3> QED BY <1>0, <2>3, <3>3, AccountedStays
  <2>5. Places'
    <3>1. accepting' \subseteq 1..cursor
      BY <1>0 DEF KeepInv, Places
    <3> QED BY <1>0, <2>1, <2>2, <3>1, OnEmpty, DeliveriesStay DEF KeepInv
  <2>6. Filed' /\ Seen'
    BY <1>0, <2>1 DEF KeepInv, Filed, Seen
  <2>7. Starts'
    BY <1>0, <2>1, <2>2, <2>3
    DEF KeepInv, Starts, AsksId, LossInv, RowsInv, IsInserted
  <2> QED BY <2>1, <2>4, <2>5, <2>6, <2>7 DEF KeepInv, Filled
<1> QED BY <1>1, <1>2, <1>3, <1>4 DEF RecvDbStep

\* The node hears of an acceptance.
LEMMA HearsKeeps ==
  ASSUME LossInv, KeepInv, NodeHears
  PROVE  KeepInv'
<1>1. UNCHANGED <<table, work, tasks, pending, events, log, cursor, lastId, received>>
  BY DEF NodeHears, dbVars, threadVars, receiverVars
<1>2. PICK k \in accepting : accepting' = accepting \ {k} /\ done' = done \union {k}
  BY DEF NodeHears
<1>3. Heard' = Heard
  BY <1>2 DEF Heard
<1>4. k \in 1..Len(log)
  BY <1>2 DEF KeepInv, Places, LossInv, RowsInv
<1>5. Places'
  BY <1>1, <1>2, <1>4 DEF KeepInv, Places, Deliveries, OfThis
<1> QED BY <1>1, <1>3, <1>5
        DEF KeepInv, Filled, Filed, Kept, Seen, Starts, AsksId, Accounted

\* The process starts again: the last id is asked for before anything else.
LEMMA CrashKeeps ==
  ASSUME LossInv, KeepInv, RecvCrash
  PROVE  KeepInv'
<1>1. /\ work' = table /\ table' = table /\ log' = log
      /\ tasks' = <<GetId>> /\ pending' = <<>> /\ events' = <<>>
      /\ lastId' = 0 /\ cursor' = 0 /\ accepting' = {} /\ done' = done
  BY DEF RecvCrash, DbRestart
<1>2. DOMAIN tasks' = {1} /\ ~IsInsert(tasks'[1])
  BY <1>1, OnSingle DEF GetId, IsInsert
<1>3. Places'
  BY <1>1, <1>2, OnEmpty
  DEF KeepInv, Places, Deliveries, LossInv, RowsInv
<1>4. UpTo(lastId') = {} /\ 1..cursor' = {}
  BY <1>1, NothingUpToZero
<1>5. Filed' /\ Kept' /\ Seen'
  BY <1>4 DEF Filed, Kept, Seen
<1>6. Starts'
  BY <1>1, OnEmpty DEF Starts
<1>7. \A k \in Heard' : Accounted(k)'
  BY <1>1 DEF KeepInv, Heard, Accounted
<1> QED BY <1>1, <1>3, <1>5, <1>6, <1>7 DEF KeepInv, Filled

LEMMA LossInit ==
  ASSUME Init
  PROVE  LossInv
<1>1. CommitInv /\ RowsInv
  BY CommitInit, RowsInit
<1>2. /\ work = {} /\ table = {} /\ tasks = <<GetId>> /\ pending = <<>>
      /\ events = <<>> /\ lastId = 0 /\ cursor = 0
      /\ accepting = {} /\ done = {} /\ received = 0 /\ link = 0
  BY DEF Init, RecvInit, DbInit
<1>3. log \in Seq(Rows) /\ Sequenced(log)
  <2>1. log \in BoundedSeq(Rows, MaxLog) /\ Sequenced(log)
    BY DEF Init, Feeds
  <2>2. PICK n \in 0..MaxLog : log \in [1..n -> Rows]
    BY <2>1 DEF BoundedSeq, SeqOf
  <2>3. n \in Nat
    BY RowsAssumption
  <2> QED BY <2>1, <2>2, <2>3
<1>4. DOMAIN tasks = {1} /\ ~IsInsert(tasks[1])
  BY <1>2, OnSingle DEF GetId, IsInsert
<1>5. Len(log) \in Nat
  BY <1>1 DEF RowsInv
<1>6. Places
  BY <1>2, <1>4, <1>5, OnEmpty DEF Places, Deliveries
<1>7. UpTo(lastId) = {} /\ 1..cursor = {}
  BY <1>2, NothingUpToZero
<1>8. Filed /\ Kept /\ Seen
  BY <1>7 DEF Filed, Kept, Seen
<1>9. Starts
  BY <1>2, OnEmpty DEF Starts
<1>10. \A k \in Heard : Accounted(k)
  BY <1>2 DEF Heard
<1>11. Filled(table) /\ Filled(work)
  BY <1>2 DEF Filled
<1> QED BY <1>1, <1>2, <1>3, <1>6, <1>8, <1>9, <1>10, <1>11 DEF LossInv, KeepInv

LEMMA LossStep ==
  ASSUME LossInv, [RecvNext]_vars
  PROVE  LossInv'
<1>1. CommitInv' /\ RowsInv'
  BY CommitStep, RowsStep DEF LossInv
<1>2. log' = log /\ received' \in Nat /\ (link' = link \/ link' = link + 1)
  BY DEF LossInv, RecvNext, OnMessage, OnIdLoaded, InsertMessage, ReleaseMessage,
         AcceptDuplicate, OnRecordInserted, RecvDbStep, NodeHears, RecvCrash,
         LinkBreaks, receiverVars, faultVars, vars, recvVars
<1>3. ASSUME link' = 0
      PROVE  KeepInv'
  <2>1. link = 0 /\ ~LinkBreaks
    BY <1>2, <1>3 DEF LossInv, LinkBreaks
  <2>2. KeepInv
    BY <2>1 DEF LossInv
  <2>3. CASE OnIdLoaded
    BY <2>2, <2>3, LoadedKeeps
  <2>4. CASE OnMessage
    BY <2>2, <2>4, InsertKeeps, OtherMessageKeeps DEF OnMessage
  <2>5. CASE OnRecordInserted
    BY <2>2, <2>5, InsertedKeeps
  <2>6. CASE RecvDbStep
    BY <2>2, <2>6, ThreadKeeps
  <2>7. CASE NodeHears
    BY <2>2, <2>7, HearsKeeps
  <2>8. CASE RecvCrash
    BY <2>2, <2>8, CrashKeeps
  <2>9. CASE UNCHANGED vars
    BY <2>2, <2>9
    DEF vars, recvVars, dbVars, threadVars, receiverVars, nodeVars, KeepInv, Places,
        Deliveries, OfThis, Filled, Filed, Kept, Seen, Starts, AsksId, Heard, Accounted
  <2> QED BY <2>1, <2>3, <2>4, <2>5, <2>6, <2>7, <2>8, <2>9 DEF RecvNext
<1> QED BY <1>1, <1>2, <1>3 DEF LossInv, Sequenced

\* A sender adds a message to the log: what the receiver has handed out is there.
LEMMA LogGrows ==
  ASSUME LossInv, link = 0, NEW x \in Rows, log' = Append(log, x), Sequenced(log'),
         UNCHANGED recvVars
  PROVE  LossInv'
<1>0. /\ KeepInv /\ log \in Seq(Nat \ {0}) /\ x \in Nat \ {0} /\ log \in Seq(Rows)
      /\ Len(log) \in Nat
  BY RowsAssumption DEF LossInv, RowsInv
<1>1. UNCHANGED <<table, work, thread, running, pending, position, loading, tasks, events,
                  records, lastId, received, accepted, attached, cursor, accepting,
                  done, link, restarts>>
  BY DEF recvVars, dbVars, threadVars, receiverVars, nodeVars, faultVars
<1>2. /\ log' \in Seq(Rows) /\ log' \in Seq(Nat \ {0}) /\ Len(log') = Len(log) + 1
      /\ \A k \in 1..Len(log) : log'[k] = log[k]
  BY <1>0
<1>3. /\ 0..Len(log) \subseteq 0..Len(log') /\ 1..Len(log) \subseteq 1..Len(log')
      /\ cursor \in 0..Len(log) /\ 1..cursor \subseteq 1..Len(log)
      /\ done \subseteq 1..Len(log) /\ accepting \subseteq 1..cursor
  BY <1>0, <1>2 DEF KeepInv, Places
<1>4. \A k \in 1..cursor : log'[k] = log[k]
  BY <1>2, <1>3
<1>5. CommitInv'
  <2>1. Deliveries /\ CommitInv
    BY <1>0 DEF KeepInv, Places, LossInv
  <2>2. Lines' /\ WorkExtends'
    BY <1>1, <2>1 DEF CommitInv, Lines, WorkExtends
  <2>3. TasksMatch'
    BY <1>1, <1>4, <2>1 DEF CommitInv, TasksMatch, Deliveries, OfThis, IsInsert
  <2>4. PendingInWork'
    BY <1>1, <1>4, <2>1
    DEF CommitInv, PendingInWork, RowOf, IsInserted, Deliveries, OfThis
  <2>5. InsertedIsCommitted'
    BY <1>1, <1>4, <2>1
    DEF CommitInv, InsertedIsCommitted, IsInserted, Deliveries, OfThis
  <2> QED BY <2>2, <2>3, <2>4, <2>5 DEF CommitInv
<1>6. RowsInv'
  BY <1>1, <1>2
  DEF LossInv, RowsInv, Lines, HasTop, Rising, NewRows, AwaitsId, KnowsId,
      ThreadSurvives, IsInserted, IsInsert
<1>7. Places' /\ Filled(table)' /\ Filled(work)' /\ Filed'
  BY <1>0, <1>1, <1>3
  DEF KeepInv, Places, Deliveries, OfThis, Filled, Filed, IsInsert, IsInserted
<1>8. \A k \in Heard' : Accounted(k)'
  <2>1. Heard' = Heard /\ Heard \subseteq 1..Len(log)
    BY <1>1, <1>3 DEF Heard
  <2> SUFFICES ASSUME NEW k \in Heard
               PROVE  Accounted(k)'
    BY <2>1
  <2>2. Accounted(k) /\ k \in 1..Len(log) /\ 1..(k - 1) \subseteq 1..Len(log)
    BY <1>0, <2>1 DEF KeepInv
  <2>3. log'[k] = log[k] /\ \A m \in 1..(k - 1) : log'[m] = log[m]
    BY <1>2, <2>2
  <2> QED BY <1>1, <2>1, <2>2, <2>3 DEF Accounted
<1>9. Kept' /\ Seen' /\ Starts'
  BY <1>0, <1>1, <1>4 DEF KeepInv, Kept, Seen, Starts, AsksId, Heard, UpTo
<1> QED BY <1>1, <1>2, <1>5, <1>6, <1>7, <1>8, <1>9 DEF LossInv, KeepInv

LEMMA LossImplies ==
  ASSUME LossInv
  PROVE  NothingLost
<1> SUFFICES ASSUME link = 0, NEW k \in Messages, log[k] \notin table
             PROVE  \E m \in Messages \ done : log[m] = log[k]
  BY DEF NothingLost
<1>1. KeepInv /\ Messages = 1..Len(log) /\ Len(log) \in Nat
  BY DEF LossInv, RowsInv, Messages
<1>2. CASE k \notin done
  BY <1>2
<1>3. CASE k \in done
  <2>1. PICK m \in 1..(k - 1) : log[m] = log[k] /\ m \notin Heard
    BY <1>1, <1>3 DEF KeepInv, Heard, Accounted
  <2>2. m \in Messages
    BY <1>1
  <2> QED BY <2>1, <2>2 DEF Heard
<1> QED BY <1>2, <1>3

\* Whatever crashes, and whatever a sender repeats, the node still has a message
\* of every row that is not in the file, as long as no connection breaks
\* (NothingLost): on_message accepts at once only rows up to last_id, and each of
\* these is in the file or its first message is still on the node.
THEOREM NothingLostHolds == Spec => []NothingLost
BY LossInit, LossStep, LossImplies, PTL DEF Spec

-----------------------------------------------------------------------------
(* The receiver ends with the rows it expected. *)

\* The file has at least n rows, and no other if the process never crashed.
HasRows(n) ==
  Cardinality(table) >= n /\ (restarts = 0 => Cardinality(table) = n)

\* The program waits for the last id; nothing is counted.
Starting ==
  /\ AwaitsId /\ running /\ thread /= "ended"
  /\ accepted = 0 /\ received = 0 /\ HasRows(0)

\* Each message received is accepted, or its insert is on the way.
Receives ==
  /\ running /\ thread /= "ended"
  /\ \A k \in DOMAIN tasks : IsInsert(tasks[k])
  /\ \A k \in DOMAIN events : IsInserted(events[k])
  /\ received = accepted + Len(events) + Len(pending) + Len(tasks)
  /\ HasRows(accepted + Len(events))
  /\ Expected /= 0 => received <= Expected /\ accepted < Expected

\* The last message that is expected was accepted: nothing is on the way.
Closing ==
  /\ ~attached /\ events = <<>> /\ pending = <<>>
  /\ tasks = <<>> \/ tasks = <<Close>>
  /\ HasRows(Expected)

\* The transaction has one row more than the file for each event that waits.
CountInv ==
  /\ IsFiniteSet(table) /\ IsFiniteSet(work)
  /\ Cardinality(work) = Cardinality(table) + Len(pending)
  /\ accepted \in Nat
  /\ Starting \/ Receives \/ Closing

\* The lengths of queues.
LEMMA Lengths ==
  ASSUME NEW s, IsSeq(s)
  PROVE  /\ Len(s) \in Nat /\ (Len(s) = 0 <=> s = <<>>)
         /\ DOMAIN s = 1..Len(s)
         /\ \A e : Len(Append(s, e)) = Len(s) + 1
         /\ s /= <<>> => Len(Tail(s)) = Len(s) - 1
<1>1. PICK S : s \in Seq(S)
  BY DEF IsSeq
<1>2. /\ Len(s) \in Nat /\ (Len(s) = 0 <=> s = <<>>) /\ DOMAIN s = 1..Len(s)
      /\ s /= <<>> => Len(Tail(s)) = Len(s) - 1
  BY <1>1
<1>3. ASSUME NEW e
      PROVE  Len(Append(s, e)) = Len(s) + 1
  <2>1. s \in Seq(S \union {e})
    BY <1>1
  <2> QED BY <2>1
<1> QED BY <1>2, <1>3

LEMMA ConcatLength ==
  ASSUME NEW s, NEW t, IsSeq(s), IsSeq(t)
  PROVE  Len(s \o t) = Len(s) + Len(t)
<1>1. PICK S : s \in Seq(S)
  BY DEF IsSeq
<1>2. PICK T : t \in Seq(T)
  BY DEF IsSeq
<1>3. s \in Seq(S \union T) /\ t \in Seq(S \union T)
  BY <1>1, <1>2
<1> QED BY <1>3

LEMMA CountHandlerStep ==
  ASSUME RowsInv, CountInv, OnIdLoaded \/ OnMessage \/ OnRecordInserted
  PROVE  CountInv'
<1>0. IsSeq(tasks) /\ IsSeq(events) /\ IsSeq(pending)
  BY DEF RowsInv, Lines
<1>1. CASE OnIdLoaded
  <2>1. /\ events /= <<>> /\ events' = Tail(events) /\ Head(events).type = "id_loaded"
        /\ UNCHANGED <<table, work, tasks, pending, thread, running, received,
                       accepted, restarts>>
    BY <1>1 DEF OnIdLoaded, Handles, threadVars, faultVars
  <2>2. 1 \in DOMAIN events /\ Head(events) = events[1]
    BY <1>0, <2>1, OnTail
  <2>3. Starting
    BY <2>1, <2>2 DEF CountInv, Receives, Closing, IsInserted
  <2>4. /\ tasks = <<>> /\ pending = <<>> /\ accepted = 0 /\ received = 0
        /\ \E m : events = <<IdLoaded(m)>>
    BY <2>1, <2>3 DEF Starting, AwaitsId
  <2>5. events' = <<>>
    BY <2>1, <2>4
  <2>6. Len(<<>>) = 0
    OBVIOUS
  <2>7. received' = accepted' + Len(events') + Len(pending') + Len(tasks')
        /\ accepted' + Len(events') = 0
    BY <2>1, <2>4, <2>5, <2>6
  <2>8. Expected /= 0 => received' <= Expected /\ accepted' < Expected
    BY <2>1, <2>4, DbRecvAssumption
  <2>9. HasRows(0)'
    BY <2>1, <2>3 DEF Starting, HasRows
  <2>10. Receives'
    BY <2>1, <2>3, <2>4, <2>5, <2>7, <2>8, <2>9, OnEmpty DEF Receives, Starting
  <2> QED BY <2>1, <2>10 DEF CountInv
<1>2. CASE InsertMessage
  <2> DEFINE t == Insert(lastId', [message |-> cursor', link |-> link])
  <2>1. /\ attached /\ tasks' = Append(tasks, t) /\ received' = received + 1
        /\ Expected = 0 \/ received < Expected
        /\ UNCHANGED <<table, work, pending, events, thread, running, accepted,
                       restarts>>
    BY <1>2 DEF InsertMessage, Incoming, threadVars, faultVars
  <2>2. IsInsert(t)
    BY DEF Insert, IsInsert
  <2> HIDE DEF t
  <2>3. Receives
    BY <2>1 DEF CountInv, Starting, AwaitsId, Closing
  <2>4. \A k \in DOMAIN tasks' : IsInsert(tasks'[k])
    BY <1>0, <2>1, <2>2, <2>3, OnAppend DEF Receives
  <2>5. received' = accepted' + Len(events') + Len(pending') + Len(tasks')
    <3>1. /\ Len(tasks') = Len(tasks) + 1
          /\ Len(tasks) \in Nat /\ Len(events) \in Nat /\ Len(pending) \in Nat
      BY <1>0, <2>1, Lengths
    <3> QED BY <2>1, <2>3, <3>1 DEF Receives, CountInv
  <2>6. received \in Nat
    BY <1>0, <2>3, Lengths DEF Receives, CountInv
  <2>7. Expected /= 0 => received' <= Expected /\ accepted' < Expected
    BY <2>1, <2>3, <2>6, DbRecvAssumption DEF Receives
  <2>8. HasRows(accepted + Len(events))'
    BY <2>1, <2>3 DEF Receives, HasRows
  <2>9. Receives'
    BY <2>1, <2>3, <2>4, <2>5, <2>7, <2>8 DEF Receives
  <2> QED BY <2>1, <2>9 DEF CountInv
<1>3. CASE ReleaseMessage \/ AcceptDuplicate
  <2>1. UNCHANGED <<table, work, tasks, pending, events, thread, running, attached,
                    received, accepted, restarts>> /\ attached
    BY <1>3 DEF ReleaseMessage, AcceptDuplicate, Incoming, dbVars, threadVars,
                receiverVars, faultVars
  <2>2. Receives
    BY <2>1 DEF CountInv, Starting, AwaitsId, Closing
  <2>3. Receives'
    BY <2>1, <2>2 DEF Receives, HasRows
  <2> QED BY <2>1, <2>3 DEF CountInv
<1>4. CASE OnRecordInserted
  <2>1. /\ events /= <<>> /\ events' = Tail(events)
        /\ Head(events).type = "record_inserted"
        /\ accepted' = accepted + 1 /\ attached' = (accepted' /= Expected)
        /\ tasks' = IF attached' THEN tasks ELSE Append(tasks, Close)
        /\ UNCHANGED <<table, work, pending, thread, running, received, restarts>>
    BY <1>4 DEF OnRecordInserted, Handles, threadVars, faultVars
  <2>2. Receives
    BY <2>1 DEF CountInv, Starting, AwaitsId, IdLoaded, Closing
  <2>3. /\ Len(events) \in Nat \ {0} /\ Len(events') = Len(events) - 1
        /\ Len(tasks) \in Nat /\ Len(pending) \in Nat /\ accepted \in Nat
    BY <1>0, <2>1, Lengths DEF CountInv
  <2>4. HasRows(accepted + Len(events))'
    <3>1. accepted' + Len(events') = accepted + Len(events)
      BY <2>1, <2>3
    <3> QED BY <2>1, <2>2, <3>1 DEF Receives, HasRows
  <2>5. received = accepted' + Len(events') + Len(pending) + Len(tasks)
    BY <2>1, <2>2, <2>3 DEF Receives
  <2>6. \A k \in DOMAIN events' : IsInserted(events'[k])
    BY <1>0, <2>1, <2>2, OnTail DEF Receives
  <2>7. CASE attached'
    <3>1. accepted' /= Expected
      BY ONLY <2>1, <2>7, Zenon
    <3>2. Expected /= 0 => received' <= Expected /\ accepted' < Expected
      BY <2>1, <2>2, <2>3, <3>1, DbRecvAssumption DEF Receives
    <3>3. tasks' = tasks
      BY <2>1, <2>7
    <3>4. Receives'
      BY <2>1, <2>2, <2>4, <2>5, <2>6, <3>2, <3>3 DEF Receives
    <3> QED BY <2>1, <2>3, <3>4 DEF CountInv
  <2>8. CASE ~attached'
    <3>0. accepted' = Expected
      BY ONLY <2>1, <2>8, Zenon
    <3>1. accepted' = Expected /\ Expected /= 0 /\ received <= Expected
      BY <2>1, <2>2, <2>3, <3>0 DEF Receives
    <3>2. Len(events') = 0 /\ Len(pending) = 0 /\ Len(tasks) = 0
      BY <2>1, <2>3, <2>5, <3>1, DbRecvAssumption
    <3>3. events' = <<>> /\ pending' = <<>> /\ tasks = <<>>
      BY <1>0, <2>1, <3>2, OnTail, Lengths
    <3>4. tasks' = <<Close>>
      BY <2>1, <2>8, <3>3
    <3>5. HasRows(Expected)'
      <4>1. (accepted + Len(events))' = Expected
        BY <3>1, <3>2, DbRecvAssumption
      <4> QED BY <2>4, <4>1 DEF HasRows
    <3>6. Closing'
      BY <2>8, <3>3, <3>4, <3>5 DEF Closing
    <3> QED BY <2>1, <2>3, <3>6 DEF CountInv
  <2> QED BY <2>7, <2>8
<1> QED BY <1>1, <1>2, <1>3, <1>4 DEF OnMessage

LEMMA CountThreadStep ==
  ASSUME RowsInv, CountInv, RecvDbStep
  PROVE  CountInv'
<1>0. /\ IsSeq(tasks) /\ IsSeq(events) /\ IsSeq(pending)
      /\ UNCHANGED <<received, accepted, attached, restarts>>
  BY DEF RowsInv, Lines, RecvDbStep, receiverVars, faultVars
<1>1. CASE RunGetId
  <2>1. /\ tasks /= <<>> /\ Head(tasks).op = "get_id" /\ tasks' = Tail(tasks)
        /\ thread' = "busy" /\ UNCHANGED <<table, work, pending, running>>
    BY <1>1 DEF RunGetId, Take
  <2>2. 1 \in DOMAIN tasks /\ Head(tasks) = tasks[1]
    BY <1>0, <2>1, OnTail
  <2>3. Starting
    BY <2>1, <2>2 DEF CountInv, Receives, Closing, IsInsert, Close
  <2>4. AwaitsId'
    <3>1. RowsInv'
      BY RowsThreadStep
    <3>2. CASE KnowsId'
      <4>1. \E i : events' = Append(events, IdLoaded(i))
        BY <1>1 DEF RunGetId
      <4>2. events = <<>>
        BY <2>1, <2>3 DEF Starting, AwaitsId
      <4>3. PICK i : events' = <<IdLoaded(i)>>
        BY <4>1, <4>2
      <4>4. 1 \in DOMAIN events' /\ events'[1].type = "id_loaded"
        BY <4>3 DEF IdLoaded
      <4> QED BY <3>2, <4>4 DEF KnowsId
    <3> QED BY <3>1, <3>2 DEF RowsInv
  <2>5. Starting'
    BY <1>0, <2>1, <2>3, <2>4 DEF Starting, HasRows
  <2> QED BY <1>0, <2>1, <2>5 DEF CountInv
<1>2. CASE RunInsert
  <2> DEFINE t == Head(tasks)
  <2>1. /\ tasks /= <<>> /\ t.op = "insert" /\ tasks' = Tail(tasks)
        /\ UNCHANGED <<table, events, running>>
    BY <1>2 DEF RunInsert, Take
  <2>2. /\ 1 \in DOMAIN tasks /\ t = tasks[1]
        /\ \A k \in DOMAIN tasks' : k + 1 \in DOMAIN tasks /\ tasks'[k] = tasks[k + 1]
    BY <1>0, <2>1, OnTail
  <2>3. t.id \in Nat /\ \A r \in work : r < t.id
    BY <2>1, <2>2 DEF RowsInv, NewRows, IsInsert
  <2>4. t.id \notin work
    BY <2>3 DEF RowsInv, HasTop
  <2>5. /\ thread' = "busy" /\ work' = work \union {t.id}
        /\ pending' = Append(pending, RecordInserted(t.delivery))
    BY <1>2, <2>4 DEF RunInsert
  <2>6. Receives
    BY <2>1 DEF CountInv, Starting, AwaitsId, Closing, GetId, Close
  <2>7. /\ Len(pending') = Len(pending) + 1 /\ Len(tasks') = Len(tasks) - 1
        /\ Len(pending) \in Nat /\ Len(tasks) \in Nat /\ Len(events) \in Nat
    BY <1>0, <2>1, <2>5, Lengths
  <2>8. IsFiniteSet(work') /\ Cardinality(work') = Cardinality(work) + 1
    BY <2>4, <2>5, FS_AddElement DEF CountInv
  <2>9. Cardinality(work') = Cardinality(table') + Len(pending')
    BY <2>1, <2>7, <2>8, FS_CardinalityType DEF CountInv
  <2>10. received' = accepted' + Len(events') + Len(pending') + Len(tasks')
    BY <1>0, <2>1, <2>6, <2>7 DEF Receives, CountInv
  <2>11. Receives'
    BY <1>0, <2>1, <2>2, <2>5, <2>6, <2>10 DEF Receives, HasRows
  <2> QED BY <1>0, <2>1, <2>8, <2>9, <2>11 DEF CountInv
<1>3. CASE RunClose
  <2>1. /\ tasks /= <<>> /\ Head(tasks).op = "close" /\ tasks' = Tail(tasks)
        /\ UNCHANGED <<table, work, pending, events>>
    BY <1>3 DEF RunClose, Take
  <2>2. 1 \in DOMAIN tasks /\ Head(tasks) = tasks[1]
    BY <1>0, <2>1, OnTail
  <2>3. Closing
    BY <2>1, <2>2 DEF CountInv, Starting, AwaitsId, GetId, Receives, IsInsert
  <2>4. Closing'
    <3>1. tasks' = <<>>
      BY <2>1, <2>3 DEF Closing
    <3> QED BY <1>0, <2>1, <2>3, <3>1 DEF Closing, HasRows
  <2> QED BY <1>0, <2>1, <2>4 DEF CountInv
<1>4. CASE Commit
  <2>1. /\ tasks = <<>> /\ tasks' = tasks /\ table' = work /\ work' = work
        /\ events' = events \o pending /\ pending' = <<>>
        /\ running' = running /\ (running => thread' = "waiting")
    BY <1>4 DEF Commit
  <2>2. /\ Len(events') = Len(events) + Len(pending)
        /\ Len(events) \in Nat /\ Len(pending) \in Nat /\ Len(pending') = 0
        /\ Len(tasks') = 0
    BY <1>0, <2>1, ConcatLength, Lengths, OnEmpty
  <2>3. Cardinality(work) = Cardinality(table) + Len(pending)
        /\ Cardinality(table) \in Nat
    BY FS_CardinalityType DEF CountInv
  <2>4. Cardinality(work') = Cardinality(table') + Len(pending')
    BY <2>1, <2>2, <2>3
  <2>5. ASSUME pending = <<>>
        PROVE  events' = events /\ Cardinality(table') = Cardinality(table)
    <3>1. PICK S : events \in Seq(S)
      BY <1>0 DEF IsSeq
    <3>2. Len(pending) = 0
      BY <2>5
    <3> QED BY <2>1, <2>3, <2>5, <3>1, <3>2
  <2>6. CASE Starting
    <3>1. events' = events /\ Cardinality(table') = Cardinality(table)
      BY <2>5, <2>6 DEF Starting, AwaitsId
    <3>2. AwaitsId'
      BY <1>0, <2>1, <2>6, <3>1 DEF Starting, AwaitsId
    <3>3. Starting'
      BY <1>0, <2>1, <2>6, <3>1, <3>2 DEF Starting, HasRows
    <3> QED BY <1>0, <2>1, <2>4, <3>3 DEF CountInv
  <2>7. CASE Receives
    <3>1. \A k \in DOMAIN events' : IsInserted(events'[k])
      BY <1>0, <2>1, <2>7, OnConcat DEF Receives, RowsInv
    <3>2. received' = accepted' + Len(events') + Len(pending') + Len(tasks')
      BY <1>0, <2>1, <2>2, <2>7 DEF Receives, CountInv
    <3>3. HasRows(accepted + Len(events))'
      BY <1>0, <2>1, <2>2, <2>3, <2>7 DEF Receives, HasRows, CountInv
    <3>4. Receives'
      BY <1>0, <2>1, <2>7, <3>1, <3>2, <3>3, OnEmpty DEF Receives
    <3> QED BY <1>0, <2>1, <2>4, <3>4 DEF CountInv
  <2>8. CASE Closing
    <3>1. events' = <<>> /\ Cardinality(table') = Cardinality(table)
      BY <2>5, <2>8 DEF Closing
    <3>2. Closing'
      BY <1>0, <2>1, <2>8, <3>1 DEF Closing, HasRows
    <3> QED BY <1>0, <2>1, <2>4, <3>2 DEF CountInv
  <2> QED BY <2>6, <2>7, <2>8 DEF CountInv
<1> QED BY <1>1, <1>2, <1>3, <1>4 DEF RecvDbStep

LEMMA CountInit ==
  ASSUME Init
  PROVE  CountInv
<1>1. /\ table = {} /\ work = {} /\ tasks = <<GetId>> /\ pending = <<>>
      /\ events = <<>> /\ thread = "waiting" /\ running = TRUE
      /\ received = 0 /\ accepted = 0 /\ attached = FALSE /\ restarts = 0
  BY DEF Init, RecvInit, DbInit
<1>2. IsFiniteSet({}) /\ Cardinality({}) = 0 /\ Len(<<>>) = 0
  BY FS_EmptySet
<1>3. AwaitsId /\ HasRows(0)
  BY <1>1, <1>2 DEF AwaitsId, HasRows
<1> QED BY <1>1, <1>2, <1>3 DEF CountInv, Starting

\* The rows stay in the file when the process dies.
LEMMA CountCrashStep ==
  ASSUME CountInv, restarts \in Nat, RecvCrash
  PROVE  CountInv'
<1>1. /\ work' = table /\ table' = table /\ tasks' = <<GetId>> /\ pending' = <<>>
      /\ events' = <<>> /\ thread' = "waiting" /\ running' = TRUE
      /\ received' = 0 /\ accepted' = 0 /\ attached' = FALSE
      /\ restarts' = restarts + 1
  BY DEF RecvCrash, DbRestart
<1>2. Cardinality(table) \in Nat /\ Len(<<>>) = 0
  BY FS_CardinalityType DEF CountInv
<1>3. HasRows(0)'
  BY <1>1, <1>2 DEF HasRows
<1>4. Starting'
  BY <1>1, <1>3 DEF Starting, AwaitsId
<1>5. Cardinality(work') = Cardinality(table') + Len(pending')
  BY <1>1, <1>2
<1> QED BY <1>1, <1>4, <1>5 DEF CountInv

LEMMA CountStep ==
  ASSUME RowsInv, CountInv, restarts \in Nat, [RecvNext]_vars
  PROVE  CountInv' /\ restarts' \in Nat
<1>1. CountInv'
  <2>1. CASE OnIdLoaded \/ OnMessage \/ OnRecordInserted
    BY <2>1, CountHandlerStep
  <2>2. CASE RecvDbStep
    BY <2>2, CountThreadStep
  <2>3. CASE RecvCrash
    BY <2>3, CountCrashStep
  <2>4. CASE NodeHears \/ LinkBreaks \/ UNCHANGED vars
    <3>1. UNCHANGED <<table, work, tasks, pending, events, thread, running, attached,
                      received, accepted, restarts>>
      BY <2>4 DEF NodeHears, LinkBreaks, vars, recvVars, dbVars, threadVars,
                  receiverVars, faultVars
    <3> QED BY <3>1 DEF CountInv, Starting, Receives, Closing, HasRows, AwaitsId
  <2> QED BY <2>1, <2>2, <2>3, <2>4 DEF RecvNext
<1>2. restarts' = restarts \/ restarts' = restarts + 1
  BY DEF RecvNext, OnMessage, OnIdLoaded, InsertMessage, ReleaseMessage,
         AcceptDuplicate, OnRecordInserted, RecvDbStep, NodeHears, RecvCrash,
         LinkBreaks, faultVars, vars, recvVars
<1> QED BY <1>1, <1>2

\* A receiver that ends has the rows it expected in its file, and without a crash
\* no other (ExpectedInserted): the count of acceptances closes the connection,
\* and each acceptance is that of another row.
THEOREM ExpectedInsertedHolds == Spec => []ExpectedInserted
<1>1. Init => RowsInv /\ CountInv /\ restarts \in Nat
  <2>1. Init => restarts \in Nat
    BY DEF Init, RecvInit
  <2> QED BY <2>1, RowsInit, CountInit
<1>2. RowsInv /\ CountInv /\ restarts \in Nat /\ [RecvNext]_vars
        => (RowsInv /\ CountInv /\ restarts \in Nat)'
  BY RowsStep, CountStep
<1>3. CountInv => ExpectedInserted
  BY DEF CountInv, Starting, Receives, Closing, HasRows, ExpectedInserted
<1> QED BY <1>1, <1>2, <1>3, PTL DEF Spec
=============================================================================
