--------------------------------- MODULE Db ---------------------------------
(***************************************************************************)
(* class Db of db_common.py: the database of a program and the thread that *)
(* works on it.  The program's handlers put tasks in a queue; the thread   *)
(* drains the queue in one transaction, commits when it finds the queue    *)
(* empty, and only then triggers the events of its inserts.                *)
(*                                                                         *)
(* A row is its id; the description only travels with it.  The events of   *)
(* load and get_id are triggered at once, that of an insert waits for the  *)
(* commit; db_send.py and db_recv.py give an event to each of these and    *)
(* none to delete.                                                         *)
(***************************************************************************)
EXTENDS Naturals, Sequences, FiniteSetsExt

CONSTANT Capacity        \* the size of the queue that load fills (50)

ASSUME DbAssumption == Capacity \in Nat \ {0}

VARIABLES
  table,       \* the rows committed to the file
  work,        \* the rows as the open transaction sees them
  tasks,       \* self.tasks
  thread,      \* where _process is, see ThreadStates
  running,     \* self.running
  pending,     \* self.pending_events
  events,      \* events triggered and not yet handled by the container
  position,    \* self.position, 0 for None
  loading,     \* _load is in its loop
  records      \* the queue that load fills

\* What only the thread changes, and all.
threadVars == <<table, work, thread, running, pending, position, loading>>
dbVars     == <<threadVars, tasks, events, records>>

\* The thread waits in get(True); is busy with the tasks of a transaction;
\* has ended after close; or died of an exception.
ThreadStates == {"waiting", "busy", "ended", "dead"}

\* The tasks.
Load         == [op |-> "load"]
Reset        == [op |-> "reset"]
Close        == [op |-> "close"]
GetId        == [op |-> "get_id"]
Delete(i)    == [op |-> "delete", id |-> i]
Insert(i, d) == [op |-> "insert", id |-> i, delivery |-> d]

\* The events.
RecordsLoaded     == [type |-> "records_loaded"]
IdLoaded(i)       == [type |-> "id_loaded", id |-> i]
RecordInserted(d) == [type |-> "record_inserted", delivery |-> d]

\* The program starts with the tasks of its on_start.
DbInit(rows, start) ==
  /\ table = rows
  /\ work = rows
  /\ tasks = start
  /\ thread = "waiting"
  /\ running = TRUE
  /\ pending = <<>>
  /\ events = <<>>
  /\ position = 0
  /\ loading = FALSE
  /\ records = <<>>

\* The process dies and starts again: of the database the file remains.
DbRestart(start) ==
  /\ work' = table
  /\ tasks' = start
  /\ thread' = "waiting"
  /\ running' = TRUE
  /\ pending' = <<>>
  /\ events' = <<>>
  /\ position' = 0
  /\ loading' = FALSE
  /\ records' = <<>>
  /\ UNCHANGED table

-----------------------------------------------------------------------------
(* The thread. *)

\* The thread takes a task of the given kind from the queue.
Take(op) ==
  /\ thread \in {"waiting", "busy"} /\ ~loading
  /\ tasks /= <<>> /\ Head(tasks).op = op
  /\ tasks' = Tail(tasks)

\* _load opens its cursor; its loop follows.
RunLoad ==
  /\ Take("load")
  /\ thread' = "busy"
  /\ loading' = TRUE
  /\ UNCHANGED <<table, work, running, pending, events, position, records>>

\* The rows the cursor has not delivered: only this thread changes them.
RowsLeft == {i \in work : i > position}

LoadRecord ==
  /\ loading /\ Len(records) < Capacity /\ RowsLeft /= {}
  /\ position' = Min(RowsLeft)
  /\ records' = Append(records, position')
  /\ UNCHANGED <<table, work, tasks, thread, running, pending, events, loading>>

LoadDone ==
  /\ loading
  /\ Len(records) = Capacity \/ RowsLeft = {}
  /\ loading' = FALSE
  /\ events' = Append(events, RecordsLoaded)
  /\ UNCHANGED <<table, work, tasks, thread, running, pending, position, records>>

RunReset ==
  /\ Take("reset")
  /\ thread' = "busy"
  /\ position' = 0
  /\ UNCHANGED <<table, work, running, pending, events, loading, records>>

\* Mutant: the thread ends as soon as it is told to, without a commit.
RunCloseEnds ==
  /\ Take("close")
  /\ thread' = "ended"
  /\ running' = FALSE
  /\ UNCHANGED <<table, work, pending, events, position, loading, records>>

RunClose ==
  /\ Take("close")
  /\ thread' = "busy"
  /\ running' = FALSE
  /\ UNCHANGED <<table, work, pending, events, position, loading, records>>

RunGetId ==
  /\ Take("get_id")
  /\ thread' = "busy"
  /\ events' = Append(events, IdLoaded(IF work = {} THEN 0 ELSE Max(work)))
  /\ UNCHANGED <<table, work, running, pending, position, loading, records>>

RunDelete ==
  /\ Take("delete")
  /\ thread' = "busy"
  /\ work' = work \ {Head(tasks).id}
  /\ UNCHANGED <<table, running, pending, events, position, loading, records>>

\* Mutant: the event of an insert does not wait for the commit.
RunInsertTriggers ==
  /\ Take("insert")
  /\ thread' = "busy"
  /\ work' = work \union {Head(tasks).id}
  /\ events' = Append(events, RecordInserted(Head(tasks).delivery))
  /\ UNCHANGED <<table, running, pending, position, loading, records>>

\* An id that exists raises an exception, which rolls back and ends the thread.
RunInsert ==
  /\ Take("insert")
  /\ IF Head(tasks).id \in work
     THEN /\ thread' = "dead"
          /\ work' = table
          /\ UNCHANGED pending
     ELSE /\ thread' = "busy"
          /\ work' = work \union {Head(tasks).id}
          /\ pending' = Append(pending, RecordInserted(Head(tasks).delivery))
  /\ UNCHANGED <<table, running, events, position, loading, records>>

\* Mutant: only the first event of a transaction is triggered.
CommitTriggersOne ==
  /\ thread = "busy" /\ ~loading /\ tasks = <<>>
  /\ table' = work
  /\ events' = IF pending = <<>> THEN events ELSE Append(events, Head(pending))
  /\ pending' = <<>>
  /\ thread' = IF running THEN "waiting" ELSE "ended"
  /\ UNCHANGED <<work, tasks, running, position, loading, records>>

\* The queue is empty: commit, trigger the events, go on or end.
Commit ==
  /\ thread = "busy" /\ ~loading /\ tasks = <<>>
  /\ table' = work
  /\ events' = events \o pending
  /\ pending' = <<>>
  /\ thread' = IF running THEN "waiting" ELSE "ended"
  /\ UNCHANGED <<work, tasks, running, position, loading, records>>
=============================================================================
