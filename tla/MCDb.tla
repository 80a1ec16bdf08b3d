-------------------------------- MODULE MCDb --------------------------------
(***************************************************************************)
(* The receiver of MCDbRecv, and the sender of DbSend with a peer of any   *)
(* kind, each by itself: one of them runs, the other has nothing to do.    *)
(* The variables of the sender are those with src.                         *)
(***************************************************************************)
EXTENDS MCDbRecv

CONSTANTS SrcCapacity, SrcIds, Target, MaxCredit, MaxBreaks, MaxCrashes,
          PeerReleases

VARIABLES
  sends,        \* it is the sender that runs
  srcTable, srcWork, srcTasks, srcThread, srcRunning, srcPending, srcEvents,
  srcPosition, srcLoading, srcRecords, srcLog,
  sent, confirmed, sending, timers, closed, credit, wire, settled, breaks,
  crashes

Sender == INSTANCE DbSend WITH
  Capacity <- SrcCapacity, Ids <- SrcIds,
  table <- srcTable, work <- srcWork, tasks <- srcTasks, thread <- srcThread,
  running <- srcRunning, pending <- srcPending, events <- srcEvents,
  position <- srcPosition, loading <- srcLoading, records <- srcRecords,
  log <- srcLog

senderState ==
  <<srcTable, srcWork, srcTasks, srcThread, srcRunning, srcPending, srcEvents,
    srcPosition, srcLoading, srcRecords, srcLog,
    sent, confirmed, sending, timers, closed, credit, wire, settled, breaks,
    crashes>>

\* A sender, or a receiver, for which nothing is to be done.
SenderRests ==
  /\ Sender!DbInit({}, <<>>)
  /\ sent = 0 /\ confirmed = 0 /\ sending = FALSE /\ timers = 0 /\ closed = TRUE
  /\ credit = 0 /\ wire = <<>> /\ settled = <<>> /\ srcLog = <<>>
  /\ breaks = 0 /\ crashes = 0

ReceiverRests ==
  /\ DbInit({}, <<>>)
  /\ lastId = 0 /\ received = 0 /\ accepted = 0 /\ attached = FALSE
  /\ cursor = 0 /\ accepting = {} /\ done = {} /\ log = <<>>
  /\ link = 0 /\ restarts = 0

MCInit ==
  \/ sends = TRUE  /\ Sender!SendInit /\ ReceiverRests
  \/ sends = FALSE /\ SenderRests /\ Init

MCNext ==
  /\ UNCHANGED sends
  /\ \/ sends  /\ Sender!SendNext /\ UNCHANGED vars
     \/ ~sends /\ RecvNext /\ UNCHANGED senderState

\* The one that rests has no action that its fairness speaks of.
MCSpec == /\ MCInit /\ [][MCNext]_<<sends, senderState, vars>>
          /\ Sender!SendFairness
          /\ RecvFairness

-----------------------------------------------------------------------------
(* Properties of db_send.py, see DbSend *)

\* A sender that may send is never left with nothing to wake it.
NeverIdle == Sender!NeverIdle

\* In the end every deletion is in the file, or the program has ended, or met
\* its target and has no credit for what it has loaded.
AllDeleted == Sender!AllDeleted
=============================================================================
