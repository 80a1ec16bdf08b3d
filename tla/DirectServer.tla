---------------------------- MODULE DirectServer ----------------------------
(***************************************************************************)
(* server_direct.py, which listens and answers on the link that a client   *)
(* opened for its answers.  Its clients are sync_client.py, which asks for *)
(* a dynamic address, and client.py, which names the address 'examples'    *)
(* for requests and answers alike (it was changed for RabbitMQ, which has  *)
(* no dynamic addresses).                                                  *)
(*                                                                         *)
(* A client that times out ends; it may be started again, and then has     *)
(* another connection, another link, and another address.                  *)
(***************************************************************************)
EXTENDS Naturals, FiniteSets

CONSTANTS
  Callers,        \* the clients that run sync_client.py
  Examples,       \* the clients that run client.py
  Requests,       \* each client has the requests 1..Requests
  MaxStarts       \* how often a client is started at most (bound)

VARIABLES
  senders,    \* the addresses that self.senders has a link for
  starts,     \* for each client, how often it was started
  phase,      \* for each client: "opening", "ready", "waiting", "ended"
  asking,     \* for each client, the request it sends next or waits for
  requests,   \* requests on the way to the server
  answers     \* answers on the way to the clients

vars == <<senders, starts, phase, asking, requests, answers>>

Peers == Callers \union Examples

Shared == <<"examples">>

\* remote_source.address of the client's receiver: a uuid of the server for a
\* dynamic source, else what the client named.
Address(c) == IF c \in Callers THEN <<c, starts[c]>> ELSE Shared

Init ==
  /\ senders = {}
  /\ starts = [c \in Peers |-> 1]
  /\ phase = [c \in Peers |-> "opening"]
  /\ asking = [c \in Peers |-> 1]
  /\ requests = {} /\ answers = {}

\* Mutant: links are kept for dynamic sources only when they are the first.
OnLinkOpeningOnce(c) ==
  /\ phase[c] = "opening"
  /\ phase' = [phase EXCEPT ![c] = "ready"]
  /\ senders' = IF c \in Callers /\ senders = {} THEN {Address(c)} ELSE senders
  /\ UNCHANGED <<starts, asking, requests, answers>>

\* on_link_opening: of the links for answers the server keeps those that have a
\* dynamic source.  The other links for messages to clients, whose target has
\* no address, get the address of their source and are not kept.
OnLinkOpening(c) ==
  /\ phase[c] = "opening"
  /\ phase' = [phase EXCEPT ![c] = "ready"]
  /\ senders' = IF c \in Callers THEN senders \union {Address(c)} ELSE senders
  /\ UNCHANGED <<starts, asking, requests, answers>>

\* next_request, or a call of the synchronous client.
Ask(c) ==
  /\ phase[c] = "ready"
  /\ phase' = [phase EXCEPT ![c] = "waiting"]
  /\ requests' = requests \union {[client |-> c, address |-> Address(c),
                                   request |-> asking[c]]}
  /\ UNCHANGED <<senders, starts, asking, answers>>

\* on_message of the server: "No link for reply", or an answer on the link.
OnRequest ==
  \E r \in requests :
    /\ requests' = requests \ {r}
    /\ answers' = IF r.address \in senders THEN answers \union {r} ELSE answers
    /\ UNCHANGED <<senders, starts, phase, asking>>

\* The answer comes on the client's link.
Answered(c) ==
  /\ phase[c] = "waiting"
  /\ \E r \in answers : /\ r.address = Address(c)
                        /\ answers' = answers \ {r}
  /\ asking' = [asking EXCEPT ![c] = @ + 1]
  /\ phase' = [phase EXCEPT ![c] = IF asking[c] = Requests THEN "ended" ELSE "ready"]
  /\ UNCHANGED <<senders, starts, requests>>

\* sync_client.py gives up; what was on its way on its connection is lost.  The
\* server keeps its link.
TimesOut(c) ==
  /\ c \in Callers /\ phase[c] = "waiting"
  /\ starts[c] < MaxStarts
  /\ starts' = [starts EXCEPT ![c] = @ + 1]
  /\ phase' = [phase EXCEPT ![c] = "opening"]
  /\ asking' = [asking EXCEPT ![c] = 1]
  /\ answers' = {r \in answers : r.address /= Address(c)}
  /\ UNCHANGED <<senders, requests>>

Next ==
  \/ OnRequest
  \/ \E c \in Peers : OnLinkOpening(c) \/ Ask(c) \/ Answered(c) \/ TimesOut(c)

Fairness ==
  /\ WF_vars(OnRequest)
  /\ \A c \in Peers : /\ WF_vars(OnLinkOpening(c))
                      /\ WF_vars(Ask(c))
                      /\ WF_vars(Answered(c))

Spec == Init /\ [][Next]_vars /\ Fairness

-----------------------------------------------------------------------------
(* Properties *)

\* How it ends: the synchronous clients got all their answers.
CallersEnd == \A c \in Callers : phase[c] = "ended"

\* "Can be used in conjunction with any of the client alternatives": the
\* clients that name an address end as well (test_client_server_direct).
ExamplesEnd == <>(\A c \in Examples : phase[c] = "ended")
=============================================================================
