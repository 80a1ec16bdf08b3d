------------------------------ MODULE Programs ------------------------------
(***************************************************************************)
(* Small instances of the programs that have a module of their own and no  *)
(* part in that of another one.  One of them runs: it is chosen in the     *)
(* initial state, and the others stay in theirs.                           *)
(***************************************************************************)
EXTENDS Naturals, Sequences, FiniteSets

CONSTANTS         \* those of each module
  HttpPosts, HttpWindow, HttpBreaks, HttpQueued,
  TxClients, TxRequests, TxCrashes, TxRefusals, TxWithheld,
  DsCallers, DsExamples, DsRequests, DsStarts,
  LsReceivers, LsTotal, LsCredit, LsPartings,
  RpcClients, RpcRequests,
  ConStock, ConCommands,
  JmsListeners, JmsProducers, JmsMessages, JmsBatch, JmsWarmups,
  RateTotal, RateExpected, RateCredit, RateBreaks,
  QConsumers, QLength, QCredit,
  FoNodes, FoNone, FoTotal, FoExpected, FoCredit, FoBreaks,
  RoleBrokers, RoleEdits

ASSUME ProgramsAssumption ==
  /\ TxRequests \in Nat
  /\ LsTotal \in Nat /\ LsCredit \in Nat
  /\ ConStock \in Nat
  /\ JmsMessages \in Nat /\ JmsBatch \in Nat \ {0} /\ JmsWarmups \subseteq Nat
  /\ RateTotal \in Nat /\ RateCredit \in Nat
  /\ IsFiniteSet(QConsumers) /\ QLength \in Nat /\ QCredit \in Nat
  /\ FoNone \notin FoNodes /\ FoTotal \in Nat /\ FoCredit \in Nat
  /\ RoleBrokers \in Nat \ {0}

VARIABLES
  program,      \* the module that runs
  http_mode, http_callbacks, http_stopping, http_timeouts, http_watched,
  http_count, http_events, http_pending, http_sent, http_replyAddress,
  http_credit, http_posts, http_shown, http_connection, http_up,
  http_reconnecting, http_out, http_incoming, http_grants, http_queue,
  http_closed,
  tx_call, tx_calling, tx_gaveUp, tx_queue, tx_inbox, tx_wire, tx_replies,
  tx_open, tx_staged, tx_answers, tx_withheld, tx_unanswered, tx_crashes,
  tx_refusals,
  ds_senders, ds_starts, ds_phase, ds_asking, ds_requests, ds_answers,
  ls_sent, ls_confirmed, ls_listening, ls_attached, ls_wire, ls_acks,
  ls_accepted, ls_paired, ls_partings,
  rpc_subscribers, rpc_flowing, rpc_opened, rpc_printed, rpc_queue, rpc_inbox,
  con_transaction, con_discharged, con_discharges, con_fetches, con_alive,
  con_wire, con_replies, con_open, con_declared, con_credit, con_waiting,
  con_staged, con_consumed, con_commands, con_shown, con_kept, con_hasty,
  jms_warmup, jms_transacted, jms_numConsumers, jms_sent, jms_finished,
  jms_queue, jms_count, jms_warmingUp, jms_started, jms_uncommitted,
  jms_latch, jms_closed,
  rate_sent, rate_confirmed, rate_received, rate_wire, rate_acks,
  rate_store, rate_unsettled, rate_breaks, rate_measured, rate_again,
  q_given, q_queue, q_credit, q_sent, q_i, q_result, q_pc,
  fo_sent, fo_confirmed, fo_received, fo_sendNode, fo_recvNode, fo_wire,
  fo_acks, fo_store, fo_unsettled, fo_breaks, fo_printed, fo_ignored,
  fo_used,
  role_decoys, role_edits, role_wanted, role_task, role_broker,
  role_notified, role_instance, role_recreated, role_files, role_enabled,
  role_running, role_lost

Http == INSTANCE HttpClient WITH
  MaxPosts <- HttpPosts, Window <- HttpWindow, MaxBreaks <- HttpBreaks,
  MaxQueued <- HttpQueued,
  mode <- http_mode, callbacks <- http_callbacks, stopping <- http_stopping,
  timeouts <- http_timeouts, watched <- http_watched, count <- http_count,
  events <- http_events, pending <- http_pending, sent <- http_sent,
  replyAddress <- http_replyAddress, credit <- http_credit,
  posts <- http_posts, shown <- http_shown, connection <- http_connection,
  up <- http_up, reconnecting <- http_reconnecting, out <- http_out,
  incoming <- http_incoming, grants <- http_grants, queue <- http_queue,
  closed <- http_closed

TxServ == INSTANCE TxServer WITH
  Clients <- TxClients, Requests <- TxRequests, MaxCrashes <- TxCrashes,
  MaxRefusals <- TxRefusals, MaxWithheld <- TxWithheld,
  call <- tx_call, calling <- tx_calling, gaveUp <- tx_gaveUp,
  queue <- tx_queue, inbox <- tx_inbox, wire <- tx_wire,
  replies <- tx_replies, open <- tx_open, staged <- tx_staged,
  answers <- tx_answers, withheld <- tx_withheld, unanswered <- tx_unanswered,
  crashes <- tx_crashes, refusals <- tx_refusals

Direct == INSTANCE DirectServer WITH
  Callers <- DsCallers, Examples <- DsExamples, Requests <- DsRequests,
  MaxStarts <- DsStarts, senders <- ds_senders, starts <- ds_starts,
  phase <- ds_phase, asking <- ds_asking, requests <- ds_requests,
  answers <- ds_answers

Listener == INSTANCE DirectSend WITH
  Receivers <- LsReceivers, Total <- LsTotal, MaxCredit <- LsCredit,
  MaxPartings <- LsPartings,
  sent <- ls_sent, confirmed <- ls_confirmed, listening <- ls_listening,
  attached <- ls_attached, wire <- ls_wire, acks <- ls_acks,
  accepted <- ls_accepted, paired <- ls_paired, partings <- ls_partings

Shared == INSTANCE Rpc WITH
  Clients <- RpcClients, Requests <- RpcRequests,
  subscribers <- rpc_subscribers, flowing <- rpc_flowing,
  opened <- rpc_opened, printed <- rpc_printed, queue <- rpc_queue,
  inbox <- rpc_inbox

Console == INSTANCE TxRecvInteractive WITH
  Stock <- ConStock, MaxCommands <- ConCommands, transaction <- con_transaction,
  discharged <- con_discharged, discharges <- con_discharges,
  fetches <- con_fetches, alive <- con_alive, wire <- con_wire,
  replies <- con_replies, open <- con_open, declared <- con_declared,
  credit <- con_credit, waiting <- con_waiting, staged <- con_staged,
  consumed <- con_consumed, commands <- con_commands, shown <- con_shown,
  kept <- con_kept, hasty <- con_hasty

Jms == INSTANCE JmsPerf WITH
  Listeners <- JmsListeners, NumProducers <- JmsProducers,
  Messages <- JmsMessages, BatchSize <- JmsBatch, Warmups <- JmsWarmups,
  warmup <- jms_warmup, transacted <- jms_transacted,
  numConsumers <- jms_numConsumers, sent <- jms_sent,
  finished <- jms_finished, queue <- jms_queue, count <- jms_count,
  warmingUp <- jms_warmingUp, started <- jms_started,
  uncommitted <- jms_uncommitted, latch <- jms_latch, closed <- jms_closed

Rate == INSTANCE Perf WITH
  Total <- RateTotal, Expected <- RateExpected, MaxCredit <- RateCredit,
  MaxBreaks <- RateBreaks,
  sent <- rate_sent, confirmed <- rate_confirmed, received <- rate_received,
  wire <- rate_wire, acks <- rate_acks, store <- rate_store,
  unsettled <- rate_unsettled, breaks <- rate_breaks,
  measured <- rate_measured, again <- rate_again

Loop == INSTANCE QueueDispatch WITH
  Consumers <- QConsumers, MaxQueue <- QLength, MaxCredit <- QCredit,
  given <- q_given, queue <- q_queue, credit <- q_credit, sent <- q_sent,
  i <- q_i, result <- q_result, pc <- q_pc

Urls == INSTANCE Failover WITH
  Nodes <- FoNodes, None <- FoNone, Total <- FoTotal, Expected <- FoExpected,
  MaxCredit <- FoCredit, MaxBreaks <- FoBreaks, sent <- fo_sent,
  confirmed <- fo_confirmed, received <- fo_received,
  sendNode <- fo_sendNode, recvNode <- fo_recvNode, wire <- fo_wire,
  acks <- fo_acks, store <- fo_store, unsettled <- fo_unsettled,
  breaks <- fo_breaks, printed <- fo_printed, ignored <- fo_ignored,
  used <- fo_used

Role == INSTANCE ArtemisRole WITH
  NumBrokers <- RoleBrokers, MaxEdits <- RoleEdits, decoys <- role_decoys,
  edits <- role_edits, wanted <- role_wanted, task <- role_task,
  broker <- role_broker, notified <- role_notified,
  instance <- role_instance, recreated <- role_recreated,
  files <- role_files, enabled <- role_enabled, running <- role_running,
  lost <- role_lost

httpVars == <<http_mode, http_callbacks, http_stopping, http_timeouts,
    http_watched, http_count, http_events, http_pending, http_sent,
    http_replyAddress, http_credit, http_posts, http_shown, http_connection,
    http_up, http_reconnecting, http_out, http_incoming, http_grants,
    http_queue, http_closed>>
txVars == <<tx_call, tx_calling, tx_gaveUp, tx_queue, tx_inbox, tx_wire,
    tx_replies, tx_open, tx_staged, tx_answers, tx_withheld, tx_unanswered,
    tx_crashes, tx_refusals>>
dsVars == <<ds_senders, ds_starts, ds_phase, ds_asking, ds_requests,
    ds_answers>>
lsVars == <<ls_sent, ls_confirmed, ls_listening, ls_attached, ls_wire,
    ls_acks, ls_accepted, ls_paired, ls_partings>>
rpcVars == <<rpc_subscribers, rpc_flowing, rpc_opened, rpc_printed, rpc_queue,
    rpc_inbox>>
conVars == <<con_transaction, con_discharged, con_discharges, con_fetches,
    con_alive, con_wire, con_replies, con_open, con_declared, con_credit,
    con_waiting, con_staged, con_consumed, con_commands, con_shown,
    con_kept, con_hasty>>
jmsVars == <<jms_warmup, jms_transacted, jms_numConsumers, jms_sent,
    jms_finished, jms_queue, jms_count, jms_warmingUp, jms_started,
    jms_uncommitted, jms_latch, jms_closed>>
rateVars == <<rate_sent, rate_confirmed, rate_received, rate_wire,
    rate_acks, rate_store, rate_unsettled, rate_breaks, rate_measured,
    rate_again>>
qVars == <<q_given, q_queue, q_credit, q_sent, q_i, q_result, q_pc>>
foVars == <<fo_sent, fo_confirmed, fo_received, fo_sendNode, fo_recvNode,
    fo_wire, fo_acks, fo_store, fo_unsettled, fo_breaks, fo_printed,
    fo_ignored, fo_used>>
roleVars == <<role_decoys, role_edits, role_wanted, role_task, role_broker,
    role_notified, role_instance, role_recreated, role_files, role_enabled,
    role_running, role_lost>>

vars ==
  <<program, httpVars, txVars, dsVars, lsVars, rpcVars, conVars, jmsVars,
    rateVars, qVars, foVars, roleVars>>

-----------------------------------------------------------------------------
Modules ==
  {"HttpClient", "TxServer", "DirectServer", "DirectSend", "Rpc",
   "TxRecvInteractive", "JmsPerf", "Perf", "QueueDispatch", "Failover",
   "ArtemisRole"}

\* One initial state is enough for a program that does not run.
Init ==
  /\ program \in Modules
  /\ Http!Init
  /\ TxServ!Init
  /\ Direct!Init
  /\ Listener!Init
  /\ Shared!Init
  /\ Console!Init
  /\ Jms!Init
  /\ program = "JmsPerf"
       \/ /\ jms_warmup = 0 /\ jms_transacted /\ jms_numConsumers = 1
  /\ Rate!Init
  /\ Loop!Init
  /\ program = "QueueDispatch"
       \/ /\ q_queue = <<>> /\ q_given.consumers = <<>>
          /\ \A c \in DOMAIN q_credit : q_credit[c] = 0
  /\ Urls!Init
  /\ Role!Init
  /\ program = "ArtemisRole" \/ role_decoys = {}

Next ==
  /\ program' = program
  /\ IF program = "HttpClient" THEN Http!Next ELSE UNCHANGED httpVars
  /\ IF program = "TxServer" THEN TxServ!Next ELSE UNCHANGED txVars
  /\ IF program = "DirectServer" THEN Direct!Next ELSE UNCHANGED dsVars
  /\ IF program = "DirectSend" THEN Listener!Next ELSE UNCHANGED lsVars
  /\ IF program = "Rpc" THEN Shared!Next ELSE UNCHANGED rpcVars
  /\ IF program = "TxRecvInteractive" THEN Console!Next ELSE UNCHANGED conVars
  /\ IF program = "JmsPerf" THEN Jms!Next ELSE UNCHANGED jmsVars
  /\ IF program = "Perf" THEN Rate!Next ELSE UNCHANGED rateVars
  /\ IF program = "QueueDispatch" THEN Loop!Next ELSE UNCHANGED qVars
  /\ IF program = "Failover" THEN Urls!Next ELSE UNCHANGED foVars
  /\ IF program = "ArtemisRole" THEN Role!Next ELSE UNCHANGED roleVars

\* The fairness of the program that runs; of three only safety is asked.
Fairness ==
  \/ program = "HttpClient" /\ Http!Fairness
  \/ program = "TxServer" /\ TxServ!Fairness
  \/ program = "DirectServer" /\ Direct!Fairness
  \/ program = "DirectSend" /\ Listener!Fairness
  \/ program = "TxRecvInteractive" /\ Console!Fairness
  \/ program = "JmsPerf" /\ Jms!Fairness
  \/ program = "Perf" /\ Rate!Fairness
  \/ program = "QueueDispatch" /\ Loop!Fairness
  \/ program \in {"Rpc", "Failover", "ArtemisRole"}

Spec == Init /\ [][Next]_vars /\ Fairness

-----------------------------------------------------------------------------
(* Properties: those of the modules, where they are explained. *)

\* client_http.py: each web request gets its own answer, if no connection broke.
AnswersMatch == Http!AnswersMatch

\* proton_tornado.py: when the loop waits, no event of the reactor is forgotten.
NothingForgotten == Http!NothingForgotten

\* server_tx.py: a request is answered once, or is still to be answered.
AnsweredOnce == TxServ!AnsweredOnce

\* direct_send.py: what is confirmed was accepted, one receiver after another.
ConfirmedWereAccepted == Listener!ConfirmedWereAccepted

\* client.py, server.py: no request is at two places, whoever gets it.
NothingTwice == Shared!NothingTwice

\* tx_recv_interactive.py: commit, abort and fetch do what they say.
CommandsTakeEffect == Console!CommandsTakeEffect

\* PerfListener: less than two batches are lost when a session is closed.
LessThanTwoBatches == Jms!LessThanTwoBatches

\* perf_send.py, perf_recv.py: what is counted twice came twice.
CountsAreHonest == Rate!CountsAreHonest

\* Queue.dispatch computes the operators of module Dispatch ...
ComputesDispatch == Loop!ComputesDispatch

\* ... and within one call gives to all consumers with credit in turn.
EvenRounds == Loop!EvenRounds

\* failover_recv.py: on one node only duplicates are ignored.
OneNodeIgnoresDuplicates == Urls!OneNodeIgnoresDuplicates

\* The role artemis creates an instance once and restarts its last broker when
\* a task that notifies has changed it.
PlaysAreSafe == Role!PlaysAreSafe

\* The program that runs comes to the end that its module describes.
ProgramsEnd ==
  <>[](CASE program = "HttpClient"        -> Http!AllAnswered
         [] program = "TxServer"          -> TxServ!CallsEnd
         [] program = "DirectServer"      -> Direct!CallersEnd
         [] program = "DirectSend"        -> Listener!SequenceEnds
         [] program = "TxRecvInteractive" -> Console!TransactionFollows
         [] program = "JmsPerf"           -> Jms!ListenersEnd
         [] program = "Perf"              -> Rate!BothEnd
         [] program = "QueueDispatch"     -> Loop!Returns
         [] OTHER                         -> TRUE)
=============================================================================
