------------------------------- MODULE DbSend -------------------------------
(***************************************************************************)
(* class Send of db_send.py: it loads records through its database thread, *)
(* sends them as credit allows, and deletes a record when its message is   *)
(* settled.  Its process may crash, its connection may break, and the peer *)
(* may release a message instead of accepting it.                          *)
(*                                                                         *)
(* A handler runs while the database thread works: the loop of send is one *)
(* step per message.  load_count is not a variable: requests are answered  *)
(* in order, so the subject of an answer is the load_count exactly if no   *)
(* later request is outstanding.                                           *)
(***************************************************************************)
EXTENDS Db, NodeLog

CONSTANTS Ids,           \* the rows of src_db at the start
          Target,        \* self.target, the option --messages; 0: no limit
          MaxCredit,     \* the window of the peer (bound)
          MaxBreaks,     \* connections that break (bound)
          MaxCrashes,    \* crashes of the process (bound)
          PeerReleases   \* the peer may release messages

ASSUME DbSendAssumption == /\ Ids \subseteq Nat \ {0}
                           /\ Target \in Nat
                           /\ MaxCredit \in Nat \ {0}
                           /\ MaxBreaks \in Nat
                           /\ MaxCrashes \in Nat
                           /\ PeerReleases \in BOOLEAN

VARIABLES
  sent,        \* self.sent
  confirmed,   \* self.confirmed
  sending,     \* a handler is in send
  timers,      \* timer tasks that are scheduled
  closed,      \* the connection is closed for good
  credit,      \* self.sender.credit
  wire,        \* the ids of the messages on the way to the peer
  settled,     \* the ids of the settlements on the way back
  breaks,      \* how many connections broke
  crashes      \* how many times the process crashed

handlerVars == <<sent, confirmed, sending, timers, closed>>
peerVars    == <<credit, wire, settled, log>>
sendVars    == <<dbVars, handlerVars, peerVars, breaks, crashes>>

SendInit ==
  /\ DbInit(Ids, <<>>)
  /\ sent = 0
  /\ confirmed = 0
  /\ sending = FALSE
  /\ timers = 0
  /\ closed = FALSE
  /\ credit = 0
  /\ wire = <<>>
  /\ settled = <<>>
  /\ log = <<>>
  /\ breaks = 0
  /\ crashes = 0

\* No handler runs: the container may call the next one.
Idle == ~sending

KeepSending == Target = 0 \/ sent < Target

\* The requests whose answer has not been handled.
Outstanding ==
  Cardinality({k \in DOMAIN tasks : tasks[k] = Load})
    + Cardinality({k \in DOMAIN events : events[k] = RecordsLoaded})
    + (IF loading THEN 1 ELSE 0)

-----------------------------------------------------------------------------
(* The handlers of class Send. *)

\* The tasks after request_records.
WithRequest == IF Len(records) < Capacity THEN Append(tasks, Load) ELSE tasks

\* The peer's flow: on_sendable calls send.
OnSendable ==
  /\ Idle /\ ~closed
  /\ credit < MaxCredit
  /\ credit' \in (credit + 1)..MaxCredit
  /\ sending' = TRUE
  /\ UNCHANGED <<dbVars, sent, confirmed, timers, closed, wire, settled, log,
                 breaks, crashes>>

CanSend == sending /\ credit > 0 /\ records /= <<>>

\* Mutant: the record is deleted when its message is sent.
SendRecordDeletes ==
  /\ CanSend /\ KeepSending
  /\ wire' = Append(wire, Head(records))
  /\ records' = Tail(records)
  /\ sent' = sent + 1
  /\ credit' = credit - 1
  /\ tasks' = Append(tasks, Delete(Head(records)))
  /\ UNCHANGED <<threadVars, events, confirmed, sending, timers, closed,
                 settled, log, breaks, crashes>>

SendRecord ==
  /\ CanSend /\ KeepSending
  /\ wire' = Append(wire, Head(records))
  /\ records' = Tail(records)
  /\ sent' = sent + 1
  /\ credit' = credit - 1
  /\ UNCHANGED <<threadVars, tasks, events, confirmed, sending, timers, closed,
                 settled, log, breaks, crashes>>

\* Everything is sent: send returns without a request.
SendReturns ==
  /\ CanSend /\ ~KeepSending
  /\ sending' = FALSE
  /\ UNCHANGED <<dbVars, sent, confirmed, timers, closed, peerVars, breaks,
                 crashes>>

\* The loop ends: more records are requested.
SendRequests ==
  /\ sending /\ ~CanSend
  /\ sending' = FALSE
  /\ tasks' = WithRequest
  /\ UNCHANGED <<threadVars, events, records, sent, confirmed, timers, closed,
                 peerVars, breaks, crashes>>

\* Mutant: the answer is compared with the wrong count.
OnRecordsLoadedMiscounts ==
  /\ Idle
  /\ events /= <<>>
  /\ events' = Tail(events)
  /\ IF records = <<>>
     THEN /\ timers' = IF Outstanding = 0 THEN timers + 1 ELSE timers
          /\ UNCHANGED sending
     ELSE /\ sending' = TRUE
          /\ UNCHANGED timers
  /\ UNCHANGED <<threadVars, tasks, records, sent, confirmed, closed, peerVars,
                 breaks, crashes>>

\* The latest request found nothing: look again after five seconds.
OnRecordsLoaded ==
  /\ Idle
  /\ events /= <<>>
  /\ events' = Tail(events)
  /\ IF records = <<>>
     THEN /\ timers' = IF Outstanding = 1 THEN timers + 1 ELSE timers
          /\ UNCHANGED sending
     ELSE /\ sending' = TRUE
          /\ UNCHANGED timers
  /\ UNCHANGED <<threadVars, tasks, records, sent, confirmed, closed, peerVars,
                 breaks, crashes>>

OnTimerTask ==
  /\ Idle
  /\ timers > 0
  /\ timers' = timers - 1
  /\ tasks' = WithRequest
  /\ UNCHANGED <<threadVars, events, records, sent, confirmed, sending, closed,
                 peerVars, breaks, crashes>>

\* The record goes, whatever became of its message.
OnSettled ==
  /\ Idle /\ ~closed
  /\ settled /= <<>>
  /\ settled' = Tail(settled)
  /\ confirmed' = confirmed + 1
  /\ closed' = (confirmed' = Target)
  /\ tasks' = Append(tasks, Delete(Head(settled)))
                \o IF closed' THEN <<Close>> ELSE <<>>
  /\ UNCHANGED <<threadVars, events, records, sent, sending, timers, credit,
                 wire, log, breaks, crashes>>

\* Mutant: the position is not reset.
OnDisconnectedNoReset ==
  /\ Idle /\ ~closed /\ breaks < MaxBreaks
  /\ breaks' = breaks + 1
  /\ sent' = confirmed
  /\ credit' = 0 /\ wire' = <<>> /\ settled' = <<>>
  /\ UNCHANGED <<dbVars, confirmed, sending, timers, closed, log, crashes>>

\* The connection breaks with what it carries; the container makes another,
\* which has credit when the peer's flow comes.  records stays as it is.
OnDisconnected ==
  /\ Idle /\ ~closed /\ breaks < MaxBreaks
  /\ breaks' = breaks + 1
  /\ tasks' = Append(tasks, Reset)
  /\ sent' = confirmed
  /\ credit' = 0 /\ wire' = <<>> /\ settled' = <<>>
  /\ UNCHANGED <<threadVars, events, records, confirmed, sending, timers,
                 closed, log, crashes>>

\* The process dies, in a handler or not, and is started again.  After the last
\* settlement it lives until its thread has made its last commit.
SendCrash ==
  /\ thread /= "ended" /\ crashes < MaxCrashes
  /\ crashes' = crashes + 1
  /\ DbRestart(<<>>)
  /\ sent' = 0 /\ confirmed' = 0 /\ sending' = FALSE /\ timers' = 0
  /\ closed' = FALSE
  /\ credit' = 0 /\ wire' = <<>> /\ settled' = <<>>
  /\ UNCHANGED <<log, breaks>>

-----------------------------------------------------------------------------
(* The database thread and the peer. *)

SendDbStep ==
  /\ RunLoad \/ LoadRecord \/ LoadDone \/ RunReset \/ RunClose \/ RunDelete \/ Commit
  /\ UNCHANGED <<handlerVars, peerVars, breaks, crashes>>

Arrives == wire /= <<>> /\ wire' = Tail(wire)
           /\ settled' = Append(settled, Head(wire))

PeerAccepts ==
  /\ Arrives
  /\ log' = Append(log, Head(wire))
  /\ UNCHANGED <<dbVars, handlerVars, credit, breaks, crashes>>

\* The peer closes its link, as direct_recv.py when it has enough: the library
\* releases what still arrives.
PeerReleasesMessage ==
  /\ PeerReleases
  /\ Arrives
  /\ UNCHANGED <<dbVars, handlerVars, credit, log, breaks, crashes>>

SendNext ==
  \/ OnSendable \/ SendRecord \/ SendReturns \/ SendRequests
  \/ OnRecordsLoaded \/ OnTimerTask \/ OnSettled
  \/ OnDisconnected \/ SendCrash
  \/ SendDbStep \/ PeerAccepts \/ PeerReleasesMessage

\* Nothing but a timer, or the peer, will give the thread a new task.
Rests == Idle /\ records = <<>> /\ events = <<>>

\* The container handles its events in the order of their arrival: none is
\* passed over because another handler runs; and the peer gives credit again.
\* The thread runs, and the timer of five seconds is not each time quicker than
\* a thread that has nothing left to do but its commit.
SendFairness ==
  /\ SF_sendVars(OnSendable) /\ SF_sendVars(OnSettled)
  /\ SF_sendVars(OnRecordsLoaded) /\ SF_sendVars(OnTimerTask)
  /\ WF_sendVars(SendRecord \/ SendReturns \/ SendRequests)
  /\ WF_sendVars(SendDbStep)
  /\ SF_sendVars(Rests /\ Commit /\ SendDbStep)
  /\ WF_sendVars(PeerAccepts \/ PeerReleasesMessage)

SendSpec == SendInit /\ [][SendNext]_sendVars /\ SendFairness

-----------------------------------------------------------------------------
(* Properties *)

\* A sender that may send is never left with nothing to wake it: while it has
\* credit, a request or a timer is on its way.
NeverIdle ==
  (Idle /\ credit > 0 /\ KeepSending) => (Outstanding > 0 \/ timers > 0)

\* The sender ends only when as many rows as it was to send are deleted, and
\* the deletions are in the file, unless a broken connection made it count a
\* record twice.
TargetDeleted ==
  (thread = "ended" /\ breaks = 0) => Cardinality(Ids \ table) >= Target

\* In the end every record is sent and settled and its deletion is in the file,
\* or the program has ended.  One that has met its target with records left in
\* the queue and no credit asks for more of them again and again, and may keep
\* its thread from the last commit.
AllDeleted ==
  <>[](\/ table = {} \/ thread = "ended"
       \/ closed /\ records /= <<>> /\ credit = 0)
=============================================================================
