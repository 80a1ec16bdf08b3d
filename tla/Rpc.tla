--------------------------------- MODULE Rpc ---------------------------------
(***************************************************************************)
(* Class Client of client.py and class Server of server.py on one queue of *)
(* broker.py: the clients receive from the queue they send their requests  *)
(* to, and the server, whose sender has the same address, answers into it. *)
(* The queue gives a message to the first of its consumers that has        *)
(* credit; each of them grants 10, more than there are ever messages, so a *)
(* message waits only as long as there is no such consumer.                *)
(*                                                                         *)
(* A message is the request it stands for, and whether it is in upper case *)
(* (the answer; the upper case of an answer is the answer).  The handler   *)
(* that sends a message and the one of the node that publishes it are one  *)
(* step: on_message handled later stands for a message that travels.       *)
(***************************************************************************)
EXTENDS Naturals, Sequences

CONSTANTS Clients, Requests      \* each client has the requests 1..Requests

VARIABLES
  subscribers, \* the consumers of the queue, in the order of their openings
  flowing,     \* those whose credit has come
  opened,      \* clients whose receiving link has been opened
  printed,     \* for each client, the messages printed for its requests
  queue,       \* the messages that wait in the queue
  inbox        \* for each consumer, messages given to it and not yet handled

node == <<subscribers, flowing>>
vars == <<node, opened, printed, queue, inbox>>

Server == "server"
Consumers == Clients \union {Server}

Init ==
  /\ subscribers = <<>> /\ flowing = {}
  /\ opened = {}
  /\ printed = [c \in Clients |-> <<>>]
  /\ queue = <<>>
  /\ inbox = [x \in Consumers |-> <<>>]

\* The request that client c sends when it has printed n answers.
Request(c, n) == [client |-> c, request |-> n + 1, upper |-> FALSE]

\* self.requests is empty: the connection is closed.
Done(c) == Len(printed[c]) = Requests

-----------------------------------------------------------------------------
(* broker.py *)

OnLinkOpening(x) ==
  /\ \A k \in DOMAIN subscribers : subscribers[k] /= x
  /\ x \in Clients => ~Done(x)
  /\ subscribers' = Append(subscribers, x)
  /\ UNCHANGED <<flowing, opened, printed, queue, inbox>>

\* The consumer's credit comes, and it gets what waits.
OnSendable(x) ==
  /\ \E k \in DOMAIN subscribers : subscribers[k] = x
  /\ x \notin flowing
  /\ flowing' = flowing \union {x}
  /\ inbox' = [inbox EXCEPT ![x] = @ \o queue]
  /\ queue' = <<>>
  /\ UNCHANGED <<subscribers, opened, printed>>

\* The connection of a client that has ended: what it was given and has not
\* handled is gone with it.
OnConnectionClosing(c) ==
  /\ Done(c)
  /\ \E k \in DOMAIN subscribers : subscribers[k] = c
  /\ subscribers' = SelectSeq(subscribers, LAMBDA x : x /= c)
  /\ flowing' = flowing \ {c}
  /\ UNCHANGED <<opened, printed, queue, inbox>>

IsFirst(x) ==
  \E k \in DOMAIN subscribers :
     subscribers[k] = x /\ \A j \in 1..(k - 1) : subscribers[j] \notin flowing

\* Queue.publish and its loop, which starts at the first consumer each time;
\* rest is what the consumers have not yet handled.
Publish(m, rest) ==
  \/ flowing = {} /\ queue' = Append(queue, m) /\ inbox' = rest
  \/ \E x \in flowing :
        IsFirst(x) /\ inbox' = [rest EXCEPT ![x] = Append(@, m)] /\ UNCHANGED queue

-----------------------------------------------------------------------------
(* client.py and server.py *)

\* The credit for the link travels ahead of the first request.
OnLinkOpened(c) ==
  /\ c \in flowing /\ c \notin opened
  /\ opened' = opened \union {c}
  /\ Publish(Request(c, 0), inbox)
  /\ UNCHANGED <<node, printed>>

Handled(x) == [inbox EXCEPT ![x] = Tail(@)]

\* The client prints what comes as the answer to its next request.
Prints(c) ==
  /\ c \in opened /\ ~Done(c) /\ inbox[c] /= <<>>
  /\ printed' = [printed EXCEPT ![c] = Append(@, Head(inbox[c]))]
  /\ UNCHANGED <<node, opened>>

\* Mutant: the request is sent before the answered one is taken from the list.
OnMessageSendsFirst(c) ==
  /\ Prints(c)
  /\ IF Len(printed'[c]) < Requests
     THEN Publish(Request(c, Len(printed[c])), Handled(c))
     ELSE inbox' = Handled(c) /\ UNCHANGED queue

\* on_message of the client: the next request, or the end.
OnMessage(c) ==
  /\ Prints(c)
  /\ IF Len(printed'[c]) < Requests
     THEN Publish(Request(c, Len(printed'[c])), Handled(c))
     ELSE inbox' = Handled(c) /\ UNCHANGED queue

\* on_message of the server.
Serve ==
  /\ inbox[Server] /= <<>>
  /\ Publish([Head(inbox[Server]) EXCEPT !.upper = TRUE], Handled(Server))
  /\ UNCHANGED <<node, opened, printed>>

Next == \/ Serve
        \/ \E x \in Consumers : OnLinkOpening(x) \/ OnSendable(x)
        \/ \E c \in Clients : OnLinkOpened(c) \/ OnMessage(c) \/ OnConnectionClosing(c)

\* All three programs handle their events.
Fairness ==
  /\ WF_vars(Serve)
  /\ \A x \in Consumers : WF_vars(OnLinkOpening(x)) /\ WF_vars(OnSendable(x))
  /\ \A c \in Clients : /\ WF_vars(OnLinkOpened(c))
                        /\ WF_vars(OnMessage(c))
                        /\ WF_vars(OnConnectionClosing(c))

Spec == Init /\ [][Next]_vars /\ Fairness

-----------------------------------------------------------------------------
(* Properties *)

\* Where messages are: in the queue, with a consumer, on a client's screen.
Where == {<<"queue", Server>>} \union ({"inbox"} \X Consumers) \union ({"printed"} \X Clients)

Held(w) == CASE w[1] = "queue"   -> queue
             [] w[1] = "inbox"   -> inbox[w[2]]
             [] w[1] = "printed" -> printed[w[2]]

Places == UNION {{w} \X DOMAIN Held(w) : w \in Where}

\* The request that the message at place p stands for.
RequestAt(p) == <<Held(p[1])[p[2]].client, Held(p[1])[p[2]].request>>

\* Whoever gets whose messages, a request is never at two places: it is printed
\* once at most, by one client, and only after the client whose request it is
\* has asked it.
NothingTwice ==
  /\ \A p, q \in Places : RequestAt(p) = RequestAt(q) => p = q
  /\ \A p \in Places :
        LET c == RequestAt(p)[1] IN
        c \in opened /\ RequestAt(p)[2] \in 1..(Len(printed[c]) + 1)

\* What test_client_server of test_examples.py expects of client.py: the client
\* ends, and for each of its requests it has printed the same in upper case.
OwnAnswers ==
  <>[](\A c \in Clients :
         printed[c] = [k \in 1..Requests |->
                         [client |-> c, request |-> k, upper |-> TRUE]])
=============================================================================
