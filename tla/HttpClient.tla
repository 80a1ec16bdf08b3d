----------------------------- MODULE HttpClient -----------------------------
(***************************************************************************)
(* client_http.py: web requests become requests of a messaging client that *)
(* runs on the Tornado loop; abstract_server.py (class Server of           *)
(* proton_server.py) answers them through the node.                        *)
(*                                                                         *)
(* A request is its number; its answer carries the same number.  Each      *)
(* connection has a reply address of its own, which is its number too: the *)
(* node drops what is sent to the address of a connection that is gone.    *)
(***************************************************************************)
EXTENDS TornadoLoop, FiniteSets

CONSTANTS
  MaxPosts,       \* web requests (bound)
  Window,         \* the credit of the node (bound)
  MaxBreaks       \* connections that break (bound)

VARIABLES
  pending,        \* self.pending
  sent,           \* self.sent
  replyAddress,   \* self.reply_address, 0 for None
  credit,         \* self.sender.credit
  posts,          \* how many web requests came
  shown,          \* history: pairs of a web request and the answer it got
  connection,     \* the number of the last connection
  up,             \* its socket is open
  reconnecting,   \* the container has scheduled another connection
  out,            \* what the connection has to write
  incoming,       \* what the socket has to read
  grants,         \* credit that the node will give
  queue,          \* the requests at the node
  closed          \* the node has closed the connection in good order

clientVars == <<pending, sent, replyAddress, credit>>
webVars    == <<posts, shown>>
linkVars   == <<connection, up, reconnecting, closed>>
nodeVars   == <<grants, queue>>
vars   == <<loopVars, clientVars, webVars, linkVars, nodeVars, out, incoming>>

Attach         == [type |-> "attach"]
Request(r, to) == [type |-> "request", request |-> r, to |-> to]
Opened(a)      == [type |-> "opened", address |-> a]
Flow           == [type |-> "flow"]
Message(r)     == [type |-> "message", request |-> r]

\* Client.__init__ and on_start: the links are on their way to the node.
Init ==
  /\ Initialise(<<SelectableInit("timer"), SelectableInit("socket")>>)
  /\ pending = <<>> /\ sent = <<>> /\ replyAddress = 0 /\ credit = 0
  /\ posts = 0 /\ shown = <<>>
  /\ connection = 1 /\ up = TRUE /\ reconnecting = FALSE /\ closed = FALSE
  /\ out = <<Attach>> /\ incoming = <<>>
  /\ grants = 0 /\ queue = <<>>

\* sel.reading and sel.writing of the socket.
Wanted == {"read"} \union IF out = <<>> THEN {} ELSE {"write"}

-----------------------------------------------------------------------------
(* class Client. *)

\* do_request sends one request.
Sends(waiting, address, c) == waiting /= <<>> /\ address /= 0 /\ c > 0

\* do_request with these values of self.pending, self.sent, self.reply_address
\* and the credit.
DoRequest(waiting, asked, address, c) ==
  IF Sends(waiting, address, c)
  THEN /\ pending' = Tail(waiting)
       /\ sent' = Append(asked, Head(waiting))
       /\ credit' = c - 1
       /\ out' = Append(out, Request(Head(waiting), address))
  ELSE pending' = waiting /\ sent' = asked /\ credit' = c /\ out' = out

\* The reactor tells of a selectable that has more to write, while it is open.
Changed(sends) == IF sends /\ up THEN <<SelectableUpdated("socket")>> ELSE <<>>

\* post of the web handler: request appends, tries to send and touches.
Post ==
  /\ posts < MaxPosts
  /\ posts' = posts + 1
  /\ LET waiting == Append(pending, posts')
     IN  /\ DoRequest(waiting, sent, replyAddress, credit)
         /\ Touch(Changed(Sends(waiting, replyAddress, credit)))
  /\ UNCHANGED <<replyAddress, shown, linkVars, nodeVars, incoming>>

\* The rest of the loop while a handler of the client runs.
InProcess == UNCHANGED <<mode, callbacks, stopping, timeouts, watched, count>>

OnLinkOpened ==
  /\ Handle("opened", Changed(Sends(pending, Head(events).address, credit)))
  /\ replyAddress' = Head(events).address
  /\ DoRequest(pending, sent, replyAddress', credit)
  /\ InProcess /\ UNCHANGED <<webVars, linkVars, nodeVars, incoming>>

OnSendable ==
  /\ Handle("flow", Changed(Sends(pending, replyAddress, credit + 1)))
  /\ DoRequest(pending, sent, replyAddress, credit + 1)
  /\ InProcess
  /\ UNCHANGED <<replyAddress, webVars, linkVars, nodeVars, incoming>>

\* Mutant: the last request sent gets the answer.
OnMessageLast ==
  /\ Handle("message", Changed(Sends(pending, replyAddress, credit)))
  /\ sent /= <<>>
  /\ shown' = Append(shown, <<sent[Len(sent)], Head(events).request>>)
  /\ DoRequest(pending, SubSeq(sent, 1, Len(sent) - 1), replyAddress, credit)
  /\ InProcess
  /\ UNCHANGED <<replyAddress, posts, linkVars, nodeVars, incoming>>

\* on_message takes the answer for that to the oldest request sent.
OnMessage ==
  /\ Handle("message", Changed(sent /= <<>> /\ Sends(pending, replyAddress, credit)))
  /\ IF sent = <<>>
     THEN UNCHANGED <<shown, pending, sent, credit, out>>
     ELSE /\ shown' = Append(shown, <<Head(sent), Head(events).request>>)
          /\ DoRequest(pending, Tail(sent), replyAddress, credit)
  /\ InProcess
  /\ UNCHANGED <<replyAddress, posts, linkVars, nodeVars, incoming>>

-----------------------------------------------------------------------------
(* The selectables, the container's reconnection and the loop. *)

Selectables ==
  /\ \/ OnSelectableInit(Wanted, reconnecting)
     \/ OnSelectableUpdated(Wanted, reconnecting)
  /\ UNCHANGED <<clientVars, webVars, linkVars, nodeVars, out, incoming>>

\* With the socket of a connection its credit and what it did not write go.
Final ==
  /\ OnSelectableFinal
  /\ IF Head(events).sel = "socket" THEN credit' = 0 /\ out' = <<>>
                                    ELSE UNCHANGED <<credit, out>>
  /\ UNCHANGED <<pending, sent, replyAddress, webVars, linkVars, nodeVars, incoming>>

\* The timer's task: the container connects again and attaches its links.
OnTimerTask ==
  /\ Handle("task", <<SelectableInit("socket")>>)
  /\ connection' = connection + 1
  /\ up' = TRUE
  /\ out' = <<Attach>>
  /\ InProcess
  /\ UNCHANGED <<clientVars, webVars, reconnecting, closed, nodeVars, incoming>>

\* The timer looks for a task that is due; an old timeout finds none.
TimerExpired ==
  /\ Expired(IF reconnecting THEN <<[type |-> "task"]>> ELSE <<>>)
  /\ reconnecting' = FALSE
  /\ UNCHANGED <<clientVars, webVars, connection, up, closed, nodeVars, out, incoming>>

Readable ==
  /\ up /\ incoming /= <<>>
  /\ Callback("read", incoming)
  /\ incoming' = <<>>
  /\ UNCHANGED <<clientVars, webVars, linkVars, nodeVars, out>>

\* What the node sends when the links are attached, the sender first: credit
\* may come before the receiver has its address.
Attached(early) == [k \in 1..early |-> Flow] \o <<Opened(connection)>>

\* The node gets what the socket writes; it will give credit for each request.
Writable ==
  /\ up
  /\ Callback("write", <<SelectableUpdated("socket")>>)
  /\ LET attaches == out /= <<>> /\ Head(out) = Attach     \* before any request
         requests == IF attaches THEN Tail(out) ELSE out
     IN  /\ queue' = queue \o requests
         /\ IF attaches
            THEN \E early \in 0..Window :
                   /\ grants' = grants + Len(requests) + Window - early
                   /\ incoming' = incoming \o Attached(early)
            ELSE grants' = grants + Len(requests) /\ incoming' = incoming
  /\ out' = <<>>
  /\ UNCHANGED <<clientVars, webVars, linkVars>>

\* The socket fails: the reactor closes it and schedules a reconnection.
Break ==
  /\ up /\ connection <= MaxBreaks
  /\ Callback("read", <<SelectableFinal("socket"), SelectableUpdated("timer")>>)
  /\ up' = FALSE
  /\ reconnecting' = TRUE
  /\ incoming' = <<>> /\ grants' = 0
  /\ UNCHANGED <<clientVars, webVars, connection, closed, queue, out>>

\* The node closes the connection.  Nothing is left for the reactor to do: it
\* ends its timer as well.
NodeCloses ==
  /\ up
  /\ Callback("read", <<SelectableFinal("socket"), SelectableFinal("timer")>>)
  /\ up' = FALSE /\ closed' = TRUE
  /\ incoming' = <<>> /\ grants' = 0
  /\ UNCHANGED <<clientVars, webVars, connection, reconnecting, queue, out>>

LoopRuns ==
  /\ ProcessQueued \/ Returns \/ Stop
  /\ UNCHANGED <<clientVars, webVars, linkVars, nodeVars, out, incoming>>

-----------------------------------------------------------------------------
(* The node and the server. *)

NodeGrants ==
  /\ grants > 0
  /\ grants' = grants - 1
  /\ incoming' = Append(incoming, Flow)
  /\ UNCHANGED <<loopVars, clientVars, webVars, linkVars, queue, out>>

\* on_message of the server, with the on_request of the application.
OnRequest ==
  /\ queue /= <<>>
  /\ queue' = Tail(queue)
  /\ incoming' = IF up /\ Head(queue).to = connection
                 THEN Append(incoming, Message(Head(queue).request))
                 ELSE incoming
  /\ UNCHANGED <<loopVars, clientVars, webVars, linkVars, grants, out>>

Handlers == OnLinkOpened \/ OnSendable \/ OnMessage
              \/ Selectables \/ Final \/ OnTimerTask

Next == \/ Post \/ Handlers \/ LoopRuns
            \/ TimerExpired \/ Readable \/ Writable \/ Break \/ NodeCloses
            \/ NodeGrants \/ OnRequest

\* The loop takes turns among its callbacks, a call of process handles an event
\* before it returns, and the node and the server go on.
Fairness ==
  /\ SF_vars(Handlers)
  /\ SF_vars(Readable)
  /\ SF_vars(Writable)
  /\ SF_vars(TimerExpired)
  /\ SF_vars(LoopRuns)
  /\ WF_vars(NodeGrants)
  /\ WF_vars(OnRequest)

Spec == Init /\ [][Next]_vars /\ Fairness

-----------------------------------------------------------------------------
(* Properties *)

\* While no connection breaks every web request gets its own answer, although
\* answers are told apart by their order only; after a break it may get the
\* answer to a later one, whose own answer took the place of a lost one.
AnswersMatch ==
  \A k \in DOMAIN shown : /\ shown[k][1] <= shown[k][2]
                          /\ connection = 1 => shown[k][1] = shown[k][2]

\* When the loop waits with no call of _process queued, no event of the reactor
\* is forgotten: the loop watches the socket for what it wants, has a timeout
\* for the timer if a task is scheduled, and counts the selectables that live.
NothingForgotten ==
  mode = "loop" /\ callbacks = 0 =>
    /\ events = <<>>
    /\ watched = IF up THEN Wanted ELSE {}
    /\ reconnecting => timeouts > 0
    /\ count = (IF up THEN 1 ELSE 0) + (IF closed THEN 0 ELSE 1)

\* How it ends: every web request was answered, unless a connection broke or was
\* closed.
AllAnswered == connection > 1 \/ ~up \/ Len(shown) = posts
=============================================================================
