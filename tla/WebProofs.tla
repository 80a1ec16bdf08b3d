------------------------------ MODULE WebProofs ------------------------------
(***************************************************************************)
(* The program of module Programs that runs on the loop of Tornado:        *)
(* client_http.py on proton_tornado.py.  Its loop forgets nothing, and a   *)
(* web request gets no answer to an earlier one, for every value of the    *)
(* constants.                                                              *)
(***************************************************************************)
EXTENDS ProgramsProofs

(* The events of proton_tornado.py, with the client of client_http.py. *)

SocketInit    == Http!SelectableInit("socket")
SocketUpdated == Http!SelectableUpdated("socket")
SocketFinal   == Http!SelectableFinal("socket")
TimerInit     == Http!SelectableInit("timer")
TimerUpdated  == Http!SelectableUpdated("timer")
TimerFinal    == Http!SelectableFinal("timer")
TimerTask     == [type |-> "task"]

\* What the socket reads, and with it what the reactor handles.
WebIncoming ==
  [type : {"opened"}, address : Nat] \union [type : {"flow"}]
    \union [type : {"message"}, request : Nat]

WebEvents ==
  {SocketInit, SocketUpdated, SocketFinal, TimerInit, TimerUpdated, TimerFinal, TimerTask}
    \union WebIncoming

WebRequests == [type : {"request"}, request : Nat, to : Nat]

WebOut == {Http!Attach} \union WebRequests

LEMMA EventsAre ==
  /\ {SocketInit, SocketUpdated, SocketFinal, TimerInit, TimerUpdated, TimerFinal, TimerTask}
       \subseteq WebEvents
  /\ SocketInit.type = "init" /\ TimerInit.type = "init"
  /\ SocketUpdated.type = "updated" /\ TimerUpdated.type = "updated"
  /\ SocketFinal.type = "final" /\ TimerFinal.type = "final" /\ TimerTask.type = "task"
  /\ SocketInit.sel = "socket" /\ TimerInit.sel = "timer"
  /\ SocketUpdated.sel = "socket" /\ TimerUpdated.sel = "timer"
  /\ SocketFinal.sel = "socket" /\ TimerFinal.sel = "timer"
  /\ \A e \in WebEvents :
       /\ e.type = "init" => e \in {SocketInit, TimerInit}
       /\ e.type = "updated" => e \in {SocketUpdated, TimerUpdated}
       /\ e.type = "final" => e \in {SocketFinal, TimerFinal}
       /\ e.type = "task" => e = TimerTask
       /\ e.type \in {"opened", "flow", "message"} => e \in WebIncoming
BY DEF SocketInit, SocketUpdated, SocketFinal, TimerInit, TimerUpdated, TimerFinal, TimerTask,
       WebEvents, WebIncoming, Http!SelectableInit, Http!SelectableUpdated, Http!SelectableFinal

LEMMA IncomingAre ==
  /\ WebIncoming \subseteq WebEvents
  /\ \A e \in WebIncoming :
       /\ e.type \in {"opened", "flow", "message"}
       /\ e.type = "opened" => e.address \in Nat
       /\ e.type = "message" => e.request \in Nat
  /\ \A n \in Nat :
       /\ Http!Opened(n) \in WebIncoming /\ Http!Opened(n).type = "opened"
       /\ Http!Opened(n).address = n
       /\ Http!Message(n) \in WebIncoming /\ Http!Message(n).type = "message"
       /\ Http!Message(n).request = n
  /\ Http!Flow \in WebIncoming /\ Http!Flow.type = "flow"
BY DEF WebIncoming, WebEvents, Http!Opened, Http!Message, Http!Flow

LEMMA OutAre ==
  /\ Http!Attach \in WebOut /\ Http!Attach.type = "attach" /\ WebRequests \subseteq WebOut
  /\ \A e \in WebRequests : e.type = "request" /\ e.request \in Nat /\ e.to \in Nat
  /\ \A e \in WebOut : e.type = "attach" \/ e \in WebRequests
  /\ \A r \in Nat, n \in Nat :
       /\ Http!Request(r, n) \in WebRequests /\ Http!Request(r, n).type = "request"
       /\ Http!Request(r, n).request = r /\ Http!Request(r, n).to = n
BY DEF WebOut, WebRequests, Http!Attach, Http!Request

\* An event b that does not come after a: the end of a selectable after its
\* start, and another start after the end.
Misplaced(a, b) ==
  \/ b = SocketInit /\ a \in {SocketInit, SocketUpdated, SocketFinal}
  \/ b = SocketFinal /\ a \in {SocketInit, SocketFinal, TimerTask}
  \/ b = SocketUpdated /\ a = SocketFinal

WellPlaced(s) == \A j, k \in DOMAIN s : j < k => ~Misplaced(s[j], s[k])

LEMMA PlacedJoined ==
  ASSUME NEW S, NEW s \in Seq(S), NEW t \in Seq(S), WellPlaced(s), WellPlaced(t),
         \A a \in Elements(s), b \in Elements(t) : ~Misplaced(a, b)
  PROVE  WellPlaced(s \o t)
<1>1. PICK r, n, m : r = s \o t /\ n = Len(s) /\ m = Len(t)
  OBVIOUS
<1>2. /\ r \in Seq(S) /\ Len(r) = n + m /\ n \in Nat /\ m \in Nat
      /\ \A k \in 1..n : r[k] = s[k]
      /\ \A k \in 1..m : r[n + k] = t[k]
  <2>1. n \in Nat /\ m \in Nat
    BY <1>1
  <2> QED BY <1>1, <2>1, Joined
<1>3. DOMAIN s = 1..n /\ DOMAIN t = 1..m /\ DOMAIN r = 1..(n + m)
  BY <1>1, <1>2
<1>4. \A k \in 1..(n + m) : \/ k \in 1..n /\ r[k] = s[k]
                            \/ k > n /\ k - n \in 1..m /\ r[k] = t[k - n]
  <2> TAKE k \in 1..(n + m)
  <2>1. CASE k <= n
    BY <1>2, <2>1
  <2>2. CASE ~(k <= n)
    <3>1. k - n \in 1..m /\ k = n + (k - n) /\ k > n
      BY <1>2, <2>2
    <3> QED BY <1>2, <3>1
  <2> QED BY <2>1, <2>2
<1>5. ASSUME NEW j \in 1..(n + m), NEW k \in 1..(n + m), j < k
      PROVE  ~Misplaced(r[j], r[k])
  <2>1. CASE j \in 1..n /\ r[j] = s[j] /\ k \in 1..n /\ r[k] = s[k]
    BY <1>3, <1>5, <2>1 DEF WellPlaced
  <2>2. CASE /\ j \in 1..n /\ r[j] = s[j]
             /\ k > n /\ k - n \in 1..m /\ r[k] = t[k - n]
    BY <1>3, <2>2 DEF Elements
  <2>3. CASE /\ j > n /\ j - n \in 1..m /\ r[j] = t[j - n]
             /\ k > n /\ k - n \in 1..m /\ r[k] = t[k - n]
    <3>1. j - n < k - n
      BY <1>2, <1>5
    <3> QED BY <1>3, <2>3, <3>1 DEF WellPlaced
  <2>4. ~(j > n /\ k \in 1..n)
    BY <1>2, <1>5
  <2> QED BY <1>4, <2>1, <2>2, <2>3, <2>4
<1> QED BY <1>1, <1>3, <1>5 DEF WellPlaced

LEMMA PlacedTaken ==
  ASSUME NEW S, NEW s \in Seq(S), s /= <<>>, WellPlaced(s)
  PROVE  /\ WellPlaced(Tail(s))
         /\ \A b \in Elements(Tail(s)) : ~Misplaced(Head(s), b)
<1>1. /\ Head(s) = s[1] /\ 1 \in DOMAIN s
      /\ \A k \in DOMAIN Tail(s) : /\ k \in Nat \ {0} /\ k + 1 \in DOMAIN s
                                   /\ Tail(s)[k] = s[k + 1]
  BY Shifted
<1>2. WellPlaced(Tail(s))
  <2>1. \A j, k \in DOMAIN Tail(s) : j < k => j + 1 < k + 1
    BY <1>1
  <2> QED BY <1>1, <2>1 DEF WellPlaced
<1>3. \A k \in DOMAIN Tail(s) : 1 < k + 1
  BY <1>1
<1> QED BY <1>1, <1>2, <1>3 DEF WellPlaced, Elements

LEMMA PlacedFew ==
  /\ WellPlaced(<<>>)
  /\ \A e : WellPlaced(<<e>>) /\ Elements(<<e>>) = {e}
  /\ \A e, f : /\ ~Misplaced(e, f) => WellPlaced(<<e, f>>)
               /\ Elements(<<e, f>>) = {e, f}
<1>1. WellPlaced(<<>>)
  BY DEF WellPlaced
<1>2. \A e : WellPlaced(<<e>>) /\ Elements(<<e>>) = {e}
  <2> TAKE e
  <2>1. DOMAIN <<e>> = {1} /\ <<e>>[1] = e
    OBVIOUS
  <2> QED BY <2>1 DEF WellPlaced, Elements
<1>3. \A e, f : /\ ~Misplaced(e, f) => WellPlaced(<<e, f>>)
                /\ Elements(<<e, f>>) = {e, f}
  <2> TAKE e, f
  <2>1. PICK s : s = <<e, f>>
    OBVIOUS
  <2>2. DOMAIN s = {1, 2} /\ s[1] = e /\ s[2] = f
    BY <2>1
  <2>3. \A j, k \in {1, 2} : j < k => j = 1 /\ k = 2
    OBVIOUS
  <2> QED BY <2>1, <2>2, <2>3 DEF WellPlaced, Elements
<1> QED BY <1>1, <1>2, <1>3

\* What comes with the links: credit, and the address of the connection.
LEMMA AttachedAre ==
  ASSUME http_connection \in Nat, NEW n \in 0..HttpWindow
  PROVE  /\ Http!Attached(n) \in Seq(WebIncoming)
         /\ \A e \in Elements(Http!Attached(n)) :
              e = Http!Flow \/ e = Http!Opened(http_connection)
<1> DEFINE f == [k \in 1..n |-> Http!Flow]
           o == Http!Opened(http_connection)
<1>1. Http!Flow \in WebIncoming /\ o \in WebIncoming /\ n \in Nat
  BY IncomingAre
<1>2. f \in Seq(WebIncoming) /\ \A e \in Elements(f) : e = Http!Flow
  BY <1>1 DEF Elements
<1>3. <<o>> \in Seq(WebIncoming) /\ Elements(<<o>>) = {o}
  BY <1>1, PlacedFew
<1>4. Http!Attached(n) = f \o <<o>>
  BY DEF Http!Attached
<1> HIDE DEF f, o
<1>5. PICK g : g = <<o>>
  OBVIOUS
<1>6. f \o g \in Seq(WebIncoming) /\ Elements(f \o g) = Elements(f) \union Elements(g)
  <2>1. g \in Seq(WebIncoming)
    BY <1>3, <1>5
  <2> QED BY <1>2, <2>1, Joined
<1>7. PICK h : h = f \o g
  OBVIOUS
<1>8. h \in Seq(WebIncoming) /\ \A e \in Elements(h) : e = Http!Flow \/ e = o
  BY <1>2, <1>3, <1>5, <1>6, <1>7
<1> QED BY <1>4, <1>5, <1>7, <1>8 DEF o

\* How many selectables will be counted, and tasks done.
Inits(s)  == Count(SocketInit, s) + Count(TimerInit, s)
Finals(s) == Count(SocketFinal, s) + Count(TimerFinal, s)
Tasks(s)  == Count(TimerTask, s)

LEMMA TallyType ==
  ASSUME NEW s \in Seq(WebEvents)
  PROVE  Inits(s) \in Nat /\ Finals(s) \in Nat /\ Tasks(s) \in Nat
<1>1. /\ Count(SocketInit, s) \in Nat /\ Count(TimerInit, s) \in Nat
      /\ Count(SocketFinal, s) \in Nat /\ Count(TimerFinal, s) \in Nat
      /\ Count(TimerTask, s) \in Nat
  BY CountType
<1> QED BY <1>1 DEF Inits, Finals, Tasks

LEMMA TallyJoined ==
  ASSUME NEW s \in Seq(WebEvents), NEW t \in Seq(WebEvents)
  PROVE  /\ Inits(s \o t) = Inits(s) + Inits(t)
         /\ Finals(s \o t) = Finals(s) + Finals(t)
         /\ Tasks(s \o t) = Tasks(s) + Tasks(t)
<1>1. \A x : /\ Count(x, s \o t) = Count(x, s) + Count(x, t)
             /\ Count(x, s) \in Nat /\ Count(x, t) \in Nat
  BY CountJoined, CountType
<1> QED BY <1>1 DEF Inits, Finals, Tasks

LEMMA TallyOne ==
  /\ \A e \in WebEvents :
       /\ Inits(<<e>>) = IF e.type = "init" THEN 1 ELSE 0
       /\ Finals(<<e>>) = IF e.type = "final" THEN 1 ELSE 0
       /\ Tasks(<<e>>) = IF e.type = "task" THEN 1 ELSE 0
  /\ Inits(<<>>) = 0 /\ Finals(<<>>) = 0 /\ Tasks(<<>>) = 0
<1>1. ASSUME NEW e \in WebEvents
      PROVE  /\ Inits(<<e>>) = IF e.type = "init" THEN 1 ELSE 0
             /\ Finals(<<e>>) = IF e.type = "final" THEN 1 ELSE 0
             /\ Tasks(<<e>>) = IF e.type = "task" THEN 1 ELSE 0
  <2>1. /\ Count(SocketInit, <<e>>) = IF SocketInit = e THEN 1 ELSE 0
        /\ Count(TimerInit, <<e>>) = IF TimerInit = e THEN 1 ELSE 0
        /\ Count(SocketFinal, <<e>>) = IF SocketFinal = e THEN 1 ELSE 0
        /\ Count(TimerFinal, <<e>>) = IF TimerFinal = e THEN 1 ELSE 0
        /\ Count(TimerTask, <<e>>) = IF TimerTask = e THEN 1 ELSE 0
    BY CountOne
  <2>2. /\ e.type = "init" <=> e = SocketInit \/ e = TimerInit
        /\ e.type = "final" <=> e = SocketFinal \/ e = TimerFinal
        /\ e.type = "task" <=> e = TimerTask
        /\ SocketInit /= TimerInit /\ SocketFinal /= TimerFinal
    BY EventsAre
  <2> QED BY <2>1, <2>2 DEF Inits, Finals, Tasks
<1>2. \A x : Count(x, <<>>) = 0
  BY CountNone
<1>3. Inits(<<>>) = 0 /\ Finals(<<>>) = 0 /\ Tasks(<<>>) = 0
  BY <1>2 DEF Inits, Finals, Tasks
<1> QED BY <1>1, <1>3

LEMMA TallyTaken ==
  ASSUME NEW s \in Seq(WebEvents), s /= <<>>
  PROVE  /\ Inits(s) = Inits(Tail(s)) + (IF Head(s).type = "init" THEN 1 ELSE 0)
         /\ Finals(s) = Finals(Tail(s)) + (IF Head(s).type = "final" THEN 1 ELSE 0)
         /\ Tasks(s) = Tasks(Tail(s)) + (IF Head(s).type = "task" THEN 1 ELSE 0)
<1>1. PICK e, t : e = Head(s) /\ t = Tail(s)
  OBVIOUS
<1>2. e \in WebEvents /\ t \in Seq(WebEvents) /\ <<e>> \in Seq(WebEvents)
  <2>1. e \in WebEvents /\ t \in Seq(WebEvents)
    BY <1>1, HeadTaken
  <2> QED BY <2>1
<1>3. s = <<e>> \o t
  BY <1>1
<1>4. /\ Inits(s) = Inits(<<e>>) + Inits(t) /\ Finals(s) = Finals(<<e>>) + Finals(t)
      /\ Tasks(s) = Tasks(<<e>>) + Tasks(t)
  BY <1>2, <1>3, TallyJoined
<1>5. Inits(t) \in Nat /\ Finals(t) \in Nat /\ Tasks(t) \in Nat
  BY <1>2, TallyType
<1> QED BY <1>1, <1>2, <1>4, <1>5, TallyOne

\* Events that start and end nothing.
LEMMA TallyOfNone ==
  ASSUME NEW s \in Seq(WebEvents),
         \A e \in Elements(s) : e.type \notin {"init", "final", "task"}
  PROVE  Inits(s) = 0 /\ Finals(s) = 0 /\ Tasks(s) = 0
<1>1. \A k \in DOMAIN s : s[k] \notin {SocketInit, TimerInit, SocketFinal, TimerFinal, TimerTask}
  BY EventsAre DEF Elements
<1>2. /\ Count(SocketInit, s) = 0 /\ Count(TimerInit, s) = 0 /\ Count(SocketFinal, s) = 0
      /\ Count(TimerFinal, s) = 0 /\ Count(TimerTask, s) = 0
  BY <1>1, CountType
<1> QED BY <1>2 DEF Inits, Finals, Tasks

\* Only the first frame of a connection attaches its links.
AttachFirst(o) == \A k \in DOMAIN o : o[k].type = "attach" => k = 1

WebTypeInv ==
  /\ http_mode \in {"initialise", "loop", "process", "stopped"}
  /\ http_callbacks \in Nat /\ http_timeouts \in Nat /\ http_count \in Int
  /\ http_events \in Seq(WebEvents) /\ http_incoming \in Seq(WebIncoming)
  /\ http_out \in Seq(WebOut) /\ AttachFirst(http_out)
  /\ http_queue \in Seq(WebRequests)
  /\ http_pending \in Seq(Nat) /\ http_sent \in Seq(Nat)
  /\ http_replyAddress \in Nat /\ http_posts \in Nat /\ http_connection \in Nat \ {0}
  /\ http_up \in BOOLEAN /\ http_reconnecting \in BOOLEAN /\ http_closed \in BOOLEAN

\* The requests in what the socket writes.
Written(o) == IF o /= <<>> /\ Head(o) = Http!Attach THEN Tail(o) ELSE o

LEMMA WrittenAre ==
  ASSUME NEW o \in Seq(WebOut), AttachFirst(o)
  PROVE  /\ Written(o) \in Seq(WebRequests)
         /\ Written(o) = o \/ (o /= <<>> /\ Head(o) = Http!Attach /\ Written(o) = Tail(o))
<1>1. CASE o /= <<>> /\ Head(o) = Http!Attach
  <2>1. /\ Tail(o) \in Seq(WebOut)
        /\ \A k \in DOMAIN Tail(o) : /\ k \in Nat \ {0} /\ k + 1 \in DOMAIN o
                                     /\ Tail(o)[k] = o[k + 1]
    BY <1>1, Shifted
  <2>2. \A k \in DOMAIN Tail(o) : k + 1 /= 1
    BY <2>1
  <2>3. \A k \in DOMAIN Tail(o) : Tail(o)[k] \in WebRequests
    BY <2>1, <2>2, OutAre DEF AttachFirst
  <2>4. Tail(o) \in Seq(WebRequests)
    <3>1. PICK t : t = Tail(o)
      OBVIOUS
    <3>2. t \in Seq(WebOut) /\ \A k \in DOMAIN t : t[k] \in WebRequests
      BY <2>1, <2>3, <3>1
    <3>3. t \in Seq(WebRequests)
      BY <3>2
    <3> QED BY <3>1, <3>3
  <2> QED BY <1>1, <2>4 DEF Written
<1>2. CASE ~(o /= <<>> /\ Head(o) = Http!Attach)
  <2>1. \A k \in DOMAIN o : o[k] \in WebRequests
    <3> SUFFICES ASSUME NEW k \in DOMAIN o, o[k] \notin WebRequests PROVE FALSE
      OBVIOUS
    <3>1. o[k] \in WebOut /\ o[k].type = "attach"
      BY OutAre
    <3>2. k = 1 /\ o /= <<>> /\ Head(o) = o[1]
      BY <3>1 DEF AttachFirst
    <3>3. o[k] = Http!Attach
      BY <3>1 DEF WebOut
    <3> QED BY <1>2, <3>2, <3>3
  <2>2. o \in Seq(WebRequests)
    BY <2>1
  <2> QED BY <1>2, <2>2 DEF Written
<1> QED BY <1>1, <1>2

\* do_request sends the first request that waits, or it changes nothing.
LEMMA DoRequestIs ==
  ASSUME NEW w \in Seq(Nat), NEW a \in Seq(Nat), NEW ad \in Nat, NEW c,
         Http!DoRequest(w, a, ad, c), http_out \in Seq(WebOut), AttachFirst(http_out)
  PROVE  /\ http_pending' \in Seq(Nat) /\ http_sent' \in Seq(Nat)
         /\ http_out' \in Seq(WebOut) /\ AttachFirst(http_out')
         /\ \/ ~Http!Sends(w, ad, c) /\ http_pending' = w /\ http_sent' = a /\ http_out' = http_out
            \/ /\ Http!Sends(w, ad, c) /\ w /= <<>> /\ ad /= 0
               /\ http_pending' = Tail(w) /\ http_sent' = Append(a, Head(w))
               /\ Http!Request(Head(w), ad) \in WebRequests
               /\ http_out' = Append(http_out, Http!Request(Head(w), ad))
<1>1. CASE ~Http!Sends(w, ad, c)
  BY <1>1 DEF Http!DoRequest
<1>2. CASE Http!Sends(w, ad, c)
  <2> DEFINE e == Http!Request(Head(w), ad)
  <2>1. /\ w /= <<>> /\ ad /= 0 /\ http_pending' = Tail(w)
        /\ http_sent' = Append(a, Head(w)) /\ http_out' = Append(http_out, e)
    BY <1>2 DEF Http!DoRequest, Http!Sends
  <2>2. Head(w) \in Nat /\ Tail(w) \in Seq(Nat)
    BY <2>1, HeadTaken
  <2>3. e \in WebRequests /\ e \in WebOut /\ e.type = "request"
    BY <2>2, OutAre
  <2> HIDE DEF e
  <2>4. http_sent' \in Seq(Nat)
    BY <2>1, <2>2
  <2>5. /\ http_out' \in Seq(WebOut)
        /\ DOMAIN http_out' = DOMAIN http_out \union {Len(http_out) + 1}
        /\ http_out'[Len(http_out) + 1] = e
        /\ \A k \in DOMAIN http_out : http_out'[k] = http_out[k]
    BY <2>1, <2>3, Extended
  <2>6. AttachFirst(http_out')
    BY <2>3, <2>5 DEF AttachFirst
  <2> QED BY <1>2, <2>1, <2>2, <2>3, <2>4, <2>5, <2>6 DEF e
<1> QED BY <1>1, <1>2

\* The reactor tells of the socket that is to write more, while it is open.
LEMMA ChangedIs ==
  ASSUME NEW b
  PROVE  /\ Http!Changed(b) \in Seq(WebEvents) /\ WellPlaced(Http!Changed(b))
         /\ Elements(Http!Changed(b)) = IF b /\ http_up THEN {SocketUpdated} ELSE {}
<1>1. Http!Changed(b) = IF b /\ http_up THEN <<SocketUpdated>> ELSE <<>>
  BY DEF Http!Changed, SocketUpdated
<1>2. SocketUpdated \in WebEvents
  BY EventsAre
<1>3. <<SocketUpdated>> \in Seq(WebEvents) /\ <<>> \in Seq(WebEvents)
  BY <1>2
<1> QED BY <1>1, <1>3, PlacedFew, EmptyHasNone

\* The next event is handled; its handler adds others.
LEMMA HandledIs ==
  ASSUME http_events \in Seq(WebEvents), NEW t, NEW new \in Seq(WebEvents), Http!Handle(t, new)
  PROVE  /\ http_mode \in {"initialise", "process"} /\ http_events /= <<>>
         /\ Head(http_events) \in WebEvents /\ Head(http_events).type = t
         /\ Tail(http_events) \in Seq(WebEvents)
         /\ http_events' = Tail(http_events) \o new
         /\ http_events' \in Seq(WebEvents)
<1>1. /\ http_mode \in {"initialise", "process"} /\ http_events /= <<>>
      /\ Head(http_events).type = t /\ http_events' = Tail(http_events) \o new
  BY DEF Http!Handle
<1>2. Head(http_events) \in WebEvents /\ Tail(http_events) \in Seq(WebEvents)
  BY <1>1, HeadTaken
<1> QED BY <1>1, <1>2, Joined

\* A call of process, with the events new.
LEMMA ProcessIs ==
  ASSUME http_events \in Seq(WebEvents), NEW new \in Seq(WebEvents), Http!Process(new)
  PROVE  /\ http_mode = "loop" /\ http_mode' = "process"
         /\ http_events' = http_events \o new /\ http_events' \in Seq(WebEvents)
BY Joined DEF Http!Process

LEMMA IncomingAreEvents ==
  ASSUME NEW s \in Seq(WebIncoming)
  PROVE  s \in Seq(WebEvents)
BY IncomingAre, SeqMonotonic

LEMMA WebTypeStart ==
  ASSUME Http!Init
  PROVE  WebTypeInv
<1>1. /\ SocketInit \in WebEvents /\ TimerInit \in WebEvents /\ Http!Attach \in WebOut
  BY EventsAre, OutAre
<1>2. http_events = <<TimerInit, SocketInit>> /\ http_out = <<Http!Attach>>
  BY DEF Http!Init, Http!Initialise, TimerInit, SocketInit
<1>3. /\ http_mode = "initialise" /\ http_callbacks = 0 /\ http_timeouts = 0 /\ http_count = 0
      /\ http_pending = <<>> /\ http_sent = <<>> /\ http_replyAddress = 0
      /\ http_posts = 0 /\ http_connection = 1
      /\ http_up = TRUE /\ http_reconnecting = FALSE /\ http_closed = FALSE
      /\ http_incoming = <<>> /\ http_queue = <<>>
  BY DEF Http!Init, Http!Initialise
<1>4. http_events \in Seq(WebEvents) /\ http_out \in Seq(WebOut)
  BY <1>1, <1>2
<1>5. AttachFirst(http_out)
  <2>1. DOMAIN http_out = {1}
    BY <1>2
  <2> QED BY <2>1 DEF AttachFirst
<1>6. /\ http_pending \in Seq(Nat) /\ http_sent \in Seq(Nat)
      /\ http_incoming \in Seq(WebIncoming) /\ http_queue \in Seq(WebRequests)
  BY <1>3
<1>7. /\ http_callbacks \in Nat /\ http_timeouts \in Nat /\ http_count \in Int
      /\ http_replyAddress \in Nat /\ http_posts \in Nat /\ http_connection \in Nat \ {0}
  BY <1>3
<1>8. /\ http_mode \in {"initialise", "loop", "process", "stopped"}
      /\ http_up \in BOOLEAN /\ http_reconnecting \in BOOLEAN /\ http_closed \in BOOLEAN
  BY <1>3
<1> QED BY <1>4, <1>5, <1>6, <1>7, <1>8 DEF WebTypeInv

LEMMA WebTypeStep ==
  ASSUME WebTypeInv, [Http!Next]_Http!vars
  PROVE  WebTypeInv'
<1>1. CASE Http!Post
  <2>1. http_posts' \in Nat /\ Append(http_pending, http_posts') \in Seq(Nat)
    BY <1>1 DEF Http!Post, WebTypeInv
  <2> DEFINE w == Append(http_pending, http_posts')
  <2>2. /\ Http!DoRequest(w, http_sent, http_replyAddress, http_credit)
        /\ Http!Process(Http!Changed(Http!Sends(w, http_replyAddress, http_credit)))
    BY <1>1 DEF Http!Post, Http!Touch
  <2> HIDE DEF w
  <2>3. /\ http_pending' \in Seq(Nat) /\ http_sent' \in Seq(Nat)
        /\ http_out' \in Seq(WebOut) /\ AttachFirst(http_out')
    BY <2>1, <2>2, DoRequestIs DEF WebTypeInv, w
  <2>4. http_mode' = "process" /\ http_events' \in Seq(WebEvents)
    BY <2>2, ProcessIs, ChangedIs DEF WebTypeInv
  <2>5. UNCHANGED <<http_callbacks, http_timeouts, http_count, http_incoming, http_queue,
                    http_replyAddress, http_connection, http_up, http_reconnecting, http_closed>>
    BY <1>1 DEF Http!Post, Http!Touch, Http!linkVars, Http!nodeVars
  <2> QED BY <2>1, <2>3, <2>4, <2>5 DEF WebTypeInv
<1>2. CASE Http!OnLinkOpened
  <2> DEFINE ad == Head(http_events).address
             b == Http!Sends(http_pending, ad, http_credit)
  <2>1. /\ Http!Handle("opened", Http!Changed(b)) /\ http_replyAddress' = ad
        /\ Http!DoRequest(http_pending, http_sent, ad, http_credit)
    BY <1>2 DEF Http!OnLinkOpened
  <2> HIDE DEF b
  <2>2. /\ http_events' \in Seq(WebEvents) /\ Head(http_events) \in WebEvents
        /\ Head(http_events).type = "opened"
    BY <2>1, HandledIs, ChangedIs DEF WebTypeInv
  <2>3. ad \in Nat
    BY <2>2, EventsAre, IncomingAre
  <2> HIDE DEF ad
  <2>4. /\ http_pending' \in Seq(Nat) /\ http_sent' \in Seq(Nat)
        /\ http_out' \in Seq(WebOut) /\ AttachFirst(http_out')
    BY <2>1, <2>3, DoRequestIs DEF WebTypeInv
  <2>5. UNCHANGED <<http_mode, http_callbacks, http_timeouts, http_count, http_incoming,
                    http_queue, http_posts, http_connection, http_up, http_reconnecting,
                    http_closed>>
    BY <1>2 DEF Http!OnLinkOpened, Http!InProcess, Http!webVars, Http!linkVars, Http!nodeVars
  <2> QED BY <2>1, <2>2, <2>3, <2>4, <2>5 DEF WebTypeInv
<1>3. CASE Http!OnSendable
  <2> DEFINE b == Http!Sends(http_pending, http_replyAddress, http_credit + 1)
  <2>1. /\ Http!Handle("flow", Http!Changed(b))
        /\ Http!DoRequest(http_pending, http_sent, http_replyAddress, http_credit + 1)
    BY <1>3 DEF Http!OnSendable
  <2> HIDE DEF b
  <2>2. http_events' \in Seq(WebEvents)
    BY <2>1, HandledIs, ChangedIs DEF WebTypeInv
  <2>4. /\ http_pending' \in Seq(Nat) /\ http_sent' \in Seq(Nat)
        /\ http_out' \in Seq(WebOut) /\ AttachFirst(http_out')
    BY <2>1, DoRequestIs DEF WebTypeInv
  <2>5. UNCHANGED <<http_mode, http_callbacks, http_timeouts, http_count, http_incoming,
                    http_queue, http_posts, http_connection, http_up, http_reconnecting,
                    http_closed, http_replyAddress>>
    BY <1>3 DEF Http!OnSendable, Http!InProcess, Http!webVars, Http!linkVars, Http!nodeVars
  <2> QED BY <2>2, <2>4, <2>5 DEF WebTypeInv
<1>4. CASE Http!OnMessage
  <2> DEFINE b == http_sent /= <<>> /\ Http!Sends(http_pending, http_replyAddress, http_credit)
  <2>1. Http!Handle("message", Http!Changed(b))
    BY <1>4 DEF Http!OnMessage
  <2> HIDE DEF b
  <2>2. http_events' \in Seq(WebEvents)
    BY <2>1, HandledIs, ChangedIs DEF WebTypeInv
  <2>4. /\ http_pending' \in Seq(Nat) /\ http_sent' \in Seq(Nat)
        /\ http_out' \in Seq(WebOut) /\ AttachFirst(http_out')
    <3>1. CASE http_sent = <<>>
      BY <1>4, <3>1 DEF Http!OnMessage, WebTypeInv
    <3>2. CASE http_sent /= <<>>
      <4>1. Http!DoRequest(http_pending, Tail(http_sent), http_replyAddress, http_credit)
        BY <1>4, <3>2 DEF Http!OnMessage
      <4>2. Tail(http_sent) \in Seq(Nat)
        BY <3>2, HeadTaken DEF WebTypeInv
      <4> QED BY <4>1, <4>2, DoRequestIs DEF WebTypeInv
    <3> QED BY <3>1, <3>2
  <2>5. UNCHANGED <<http_mode, http_callbacks, http_timeouts, http_count, http_incoming,
                    http_queue, http_posts, http_connection, http_up, http_reconnecting,
                    http_closed, http_replyAddress>>
    BY <1>4 DEF Http!OnMessage, Http!InProcess, Http!linkVars, Http!nodeVars
  <2> QED BY <2>2, <2>4, <2>5 DEF WebTypeInv
<1>5. CASE Http!Selectables
  <2>1. \E t \in {"init", "updated"} : Http!Handle(t, <<>>)
    BY <1>5 DEF Http!Selectables, Http!OnSelectableInit, Http!OnSelectableUpdated
  <2>2. http_events' \in Seq(WebEvents)
    BY <2>1, HandledIs, EmptySeq DEF WebTypeInv
  <2>3. http_timeouts' \in Nat /\ http_count' \in Int
    BY <1>5 DEF Http!Selectables, Http!OnSelectableInit, Http!OnSelectableUpdated,
       Http!Schedule, WebTypeInv
  <2>4. UNCHANGED <<http_mode, http_callbacks, http_incoming, http_out, http_queue, http_pending,
                    http_sent, http_replyAddress, http_posts, http_connection, http_up,
                    http_reconnecting, http_closed>>
    BY <1>5 DEF Http!Selectables, Http!OnSelectableInit, Http!OnSelectableUpdated,
       Http!clientVars, Http!webVars, Http!linkVars, Http!nodeVars
  <2> QED BY <2>2, <2>3, <2>4 DEF WebTypeInv
<1>6. CASE Http!Final
  <2>1. Http!Handle("final", <<>>)
    BY <1>6 DEF Http!Final, Http!OnSelectableFinal
  <2>2. http_events' \in Seq(WebEvents)
    BY <2>1, HandledIs, EmptySeq DEF WebTypeInv
  <2>3. http_count' \in Int /\ http_out' \in Seq(WebOut) /\ AttachFirst(http_out')
    <3>1. <<>> \in Seq(WebOut) /\ AttachFirst(<<>>)
      BY DEF AttachFirst
    <3>2. http_count' \in Int /\ (http_out' = <<>> \/ http_out' = http_out)
      BY <1>6 DEF Http!Final, Http!OnSelectableFinal, WebTypeInv
    <3> QED BY <3>1, <3>2 DEF WebTypeInv
  <2>4. UNCHANGED <<http_mode, http_callbacks, http_timeouts, http_incoming, http_queue,
                    http_pending, http_sent, http_replyAddress, http_posts, http_connection,
                    http_up, http_reconnecting, http_closed>>
    BY <1>6 DEF Http!Final, Http!OnSelectableFinal, Http!webVars, Http!linkVars, Http!nodeVars
  <2> QED BY <2>2, <2>3, <2>4 DEF WebTypeInv
<1>7. CASE Http!OnTimerTask
  <2>1. Http!Handle("task", <<SocketInit>>)
    BY <1>7 DEF Http!OnTimerTask, SocketInit
  <2>2. http_events' \in Seq(WebEvents)
    <3>1. <<SocketInit>> \in Seq(WebEvents)
      BY EventsAre
    <3> QED BY <2>1, <3>1, HandledIs DEF WebTypeInv
  <2>3. http_connection' \in Nat \ {0} /\ http_out' = <<Http!Attach>> /\ http_up' = TRUE
    BY <1>7 DEF Http!OnTimerTask, WebTypeInv
  <2>4. http_out' \in Seq(WebOut) /\ AttachFirst(http_out')
    BY <2>3, OutAre DEF AttachFirst
  <2>5. UNCHANGED <<http_mode, http_callbacks, http_timeouts, http_count, http_incoming,
                    http_queue, http_pending, http_sent, http_replyAddress, http_posts,
                    http_reconnecting, http_closed>>
    BY <1>7 DEF Http!OnTimerTask, Http!InProcess, Http!clientVars, Http!webVars, Http!nodeVars
  <2> QED BY <2>2, <2>3, <2>4, <2>5 DEF WebTypeInv
<1>8. CASE Http!LoopRuns
  <2>1. /\ http_events' = http_events /\ http_callbacks' \in Nat
        /\ http_mode' \in {"initialise", "loop", "process", "stopped"}
    <3>1. CASE Http!ProcessQueued
      <4>1. Http!Process(<<>>) /\ http_callbacks' \in Nat
        BY <3>1 DEF Http!ProcessQueued, WebTypeInv
      <4> QED BY <4>1, ConcatEmptySeq DEF Http!Process, WebTypeInv
    <3>2. CASE Http!Returns \/ Http!Stop
      BY <3>2 DEF Http!Returns, Http!Stop, WebTypeInv
    <3> QED BY <1>8, <3>1, <3>2 DEF Http!LoopRuns
  <2>2. UNCHANGED <<http_timeouts, http_count, http_incoming, http_out, http_queue,
                    http_pending, http_sent, http_replyAddress, http_posts, http_connection,
                    http_up, http_reconnecting, http_closed>>
    BY <1>8 DEF Http!LoopRuns, Http!ProcessQueued, Http!Returns, Http!Stop,
       Http!clientVars, Http!webVars, Http!linkVars, Http!nodeVars
  <2> QED BY <2>1, <2>2 DEF WebTypeInv
<1>9. CASE Http!TimerExpired
  <2>1. /\ Http!Process(IF http_reconnecting THEN <<TimerTask>> ELSE <<>>)
        /\ http_timeouts' \in Nat /\ http_reconnecting' = FALSE
    BY <1>9 DEF Http!TimerExpired, Http!Expired, TimerTask, WebTypeInv
  <2>2. (IF http_reconnecting THEN <<TimerTask>> ELSE <<>>) \in Seq(WebEvents)
    BY EventsAre
  <2>3. http_mode' = "process" /\ http_events' \in Seq(WebEvents)
    BY <2>1, <2>2, ProcessIs DEF WebTypeInv
  <2>4. UNCHANGED <<http_callbacks, http_count, http_incoming, http_out, http_queue,
                    http_pending, http_sent, http_replyAddress, http_posts, http_connection,
                    http_up, http_closed>>
    BY <1>9 DEF Http!TimerExpired, Http!Expired, Http!clientVars, Http!webVars, Http!nodeVars
  <2> QED BY <2>1, <2>3, <2>4 DEF WebTypeInv
<1>10. CASE Http!Readable
  <2>1. Http!Process(http_incoming) /\ http_incoming' = <<>>
    BY <1>10 DEF Http!Readable, Http!Callback
  <2>2. http_mode' = "process" /\ http_events' \in Seq(WebEvents)
    BY <2>1, ProcessIs, IncomingAreEvents DEF WebTypeInv
  <2>3. http_incoming' \in Seq(WebIncoming)
    BY <2>1
  <2>4. UNCHANGED <<http_callbacks, http_timeouts, http_count, http_out, http_queue,
                    http_pending, http_sent, http_replyAddress, http_posts, http_connection,
                    http_up, http_reconnecting, http_closed>>
    BY <1>10 DEF Http!Readable, Http!Callback, Http!clientVars, Http!webVars, Http!linkVars,
       Http!nodeVars
  <2> QED BY <2>2, <2>3, <2>4 DEF WebTypeInv
<1>11. CASE Http!Writable
  <2>1. /\ Http!Process(<<SocketUpdated>>) /\ http_out' = <<>>
        /\ http_queue' = http_queue \o Written(http_out)
        /\ \/ http_incoming' = http_incoming
           \/ \E n \in 0..HttpWindow : http_incoming' = http_incoming \o Http!Attached(n)
    BY <1>11 DEF Http!Writable, Http!Callback, SocketUpdated, Written
  <2>2. http_mode' = "process" /\ http_events' \in Seq(WebEvents)
    <3>1. <<SocketUpdated>> \in Seq(WebEvents)
      BY EventsAre
    <3> QED BY <2>1, <3>1, ProcessIs DEF WebTypeInv
  <2>3. http_out' \in Seq(WebOut) /\ AttachFirst(http_out')
    BY <2>1 DEF AttachFirst
  <2>4. http_queue' \in Seq(WebRequests)
    BY <2>1, WrittenAre, Joined DEF WebTypeInv
  <2>5. http_incoming' \in Seq(WebIncoming)
    <3>1. http_incoming \in Seq(WebIncoming) /\ http_connection \in Nat
      BY DEF WebTypeInv
    <3>2. \A n \in 0..HttpWindow : http_incoming \o Http!Attached(n) \in Seq(WebIncoming)
      BY <3>1, AttachedAre, Joined
    <3> QED BY <2>1, <3>1, <3>2
  <2>6. UNCHANGED <<http_callbacks, http_timeouts, http_count,
                    http_pending, http_sent, http_replyAddress, http_posts, http_connection,
                    http_up, http_reconnecting, http_closed>>
    BY <1>11 DEF Http!Writable, Http!Callback, Http!clientVars, Http!webVars, Http!linkVars
  <2> QED BY <2>2, <2>3, <2>4, <2>5, <2>6 DEF WebTypeInv
<1>12. CASE Http!Break \/ Http!NodeCloses
  <2>1. PICK e \in {TimerUpdated, TimerFinal} : Http!Process(<<SocketFinal, e>>)
    BY <1>12 DEF Http!Break, Http!NodeCloses, Http!Callback, SocketFinal, TimerUpdated, TimerFinal
  <2>2. http_mode' = "process" /\ http_events' \in Seq(WebEvents)
    <3>1. SocketFinal \in WebEvents /\ e \in WebEvents
      BY EventsAre
    <3>2. <<SocketFinal, e>> \in Seq(WebEvents)
      BY <3>1
    <3> QED BY <2>1, <3>2, ProcessIs DEF WebTypeInv
  <2>3. /\ http_incoming' = <<>> /\ http_up' = FALSE
        /\ http_reconnecting' \in BOOLEAN /\ http_closed' \in BOOLEAN
    BY <1>12 DEF Http!Break, Http!NodeCloses, WebTypeInv
  <2>4. http_incoming' \in Seq(WebIncoming)
    BY <2>3
  <2>5. UNCHANGED <<http_callbacks, http_timeouts, http_count, http_out, http_queue,
                    http_pending, http_sent, http_replyAddress, http_posts, http_connection>>
    BY <1>12 DEF Http!Break, Http!NodeCloses, Http!Callback, Http!clientVars, Http!webVars
  <2> QED BY <2>2, <2>3, <2>4, <2>5 DEF WebTypeInv
<1>13. CASE Http!NodeGrants
  <2>1. http_incoming' \in Seq(WebIncoming)
    BY <1>13, IncomingAre, Extended DEF Http!NodeGrants, WebTypeInv
  <2> QED BY <1>13, <2>1 DEF Http!NodeGrants, WebTypeInv, Http!loopVars, Http!clientVars,
          Http!webVars, Http!linkVars
<1>14. CASE Http!OnRequest
  <2>1. http_queue /= <<>> /\ http_queue' = Tail(http_queue)
    BY <1>14 DEF Http!OnRequest
  <2>2. Head(http_queue) \in WebRequests /\ http_queue' \in Seq(WebRequests)
    BY <2>1, HeadTaken DEF WebTypeInv
  <2>3. Http!Message(Head(http_queue).request) \in WebIncoming
    BY <2>2, OutAre, IncomingAre
  <2>4. http_incoming' \in Seq(WebIncoming)
    BY <1>14, <2>3, Extended DEF Http!OnRequest, WebTypeInv
  <2> QED BY <1>14, <2>2, <2>4 DEF Http!OnRequest, WebTypeInv, Http!loopVars, Http!clientVars,
          Http!webVars, Http!linkVars
<1>15. CASE UNCHANGED Http!vars
  BY <1>15 DEF Http!vars, WebTypeInv, Http!loopVars, Http!clientVars, Http!webVars,
     Http!linkVars, Http!nodeVars
<1> QED BY <1>1, <1>2, <1>3, <1>4, <1>5, <1>6, <1>7, <1>8, <1>9, <1>10, <1>11, <1>12, <1>13,
           <1>14, <1>15 DEF Http!Next, Http!Handlers

Bit(b) == IF b THEN 1 ELSE 0

\* A connection is up, or the container will make another one, or it is closed.
TokenInv ==
  Bit(http_up) + Bit(http_reconnecting) + Bit(http_closed) + Tasks(http_events) = 1

\* self.count when all events are handled.
TallyInv ==
  http_count + Inits(http_events)
    = Finals(http_events) + Bit(http_up) + Bit(~http_closed)

QueueInv == http_mode = "loop" /\ http_callbacks = 0 => http_events = <<>>

DeadlineInv ==
  http_reconnecting => http_timeouts > 0 \/ TimerUpdated \in Elements(http_events)

\* The socket is to start, or it is watched for what it wants or will be, or it
\* is to end, or it has gone.
SocketInv ==
  /\ SocketInit \in Elements(http_events) => http_up /\ http_watched = {}
  /\ SocketFinal \in Elements(http_events) => ~http_up
  /\ http_up => \/ SocketInit \in Elements(http_events)
                \/ SocketUpdated \in Elements(http_events)
                \/ http_watched = Http!Wanted
  /\ ~http_up => \/ SocketFinal \in Elements(http_events)
                 \/ SocketUpdated \notin Elements(http_events) /\ http_watched = {}

EventsInv ==
  /\ WellPlaced(http_events) /\ TokenInv /\ TallyInv
  /\ QueueInv /\ DeadlineInv /\ SocketInv

WebInv == WebTypeInv /\ EventsInv

LEMMA BitIs == \A b \in BOOLEAN : Bit(b) \in {0, 1} /\ (b => Bit(b) = 1) /\ (~b => Bit(b) = 0)
BY DEF Bit

LEMMA TokenIs ==
  ASSUME WebTypeInv, TokenInv
  PROVE  /\ http_up => ~http_reconnecting /\ ~http_closed
         /\ http_up \/ http_reconnecting => TimerTask \notin Elements(http_events)
         /\ TimerTask \in Elements(http_events) => ~http_up
<1>1. /\ http_events \in Seq(WebEvents)
      /\ http_up \in BOOLEAN /\ http_reconnecting \in BOOLEAN /\ http_closed \in BOOLEAN
  BY DEF WebTypeInv
<1>2. PICK a, b, c, t : /\ a = Bit(http_up) /\ b = Bit(http_reconnecting)
                        /\ c = Bit(http_closed) /\ t = Tasks(http_events)
  OBVIOUS
<1>3. a \in {0, 1} /\ b \in {0, 1} /\ c \in {0, 1} /\ t \in Nat /\ a + b + c + t = 1
  BY <1>1, <1>2, BitIs, TallyType DEF TokenInv
<1>4. /\ http_up => a = 1
      /\ http_reconnecting => b = 1
      /\ http_closed => c = 1
  BY <1>1, <1>2, BitIs
<1>5. TimerTask \in Elements(http_events) => t /= 0
  <2>1. Count(TimerTask, http_events) = 0 <=> \A k \in DOMAIN http_events : http_events[k] /= TimerTask
    BY <1>1, CountType
  <2> QED BY <1>2, <2>1 DEF Tasks, Elements
<1> QED BY <1>3, <1>4, <1>5

\* Events are taken from the front and added at the end.
LEMMA EventsMove ==
  ASSUME NEW b \in Seq(WebEvents), NEW new \in Seq(WebEvents), http_events' = b \o new,
         WellPlaced(b), WellPlaced(new),
         \A x \in Elements(b), y \in Elements(new) : ~Misplaced(x, y)
  PROVE  /\ WellPlaced(http_events')
         /\ Elements(http_events') = Elements(b) \union Elements(new)
         /\ Inits(http_events') = Inits(b) + Inits(new)
         /\ Finals(http_events') = Finals(b) + Finals(new)
         /\ Tasks(http_events') = Tasks(b) + Tasks(new)
         /\ Inits(b) \in Nat /\ Finals(b) \in Nat /\ Tasks(b) \in Nat
BY PlacedJoined, Joined, TallyJoined, TallyType

LEMMA FirstTaken ==
  ASSUME http_events \in Seq(WebEvents), http_events /= <<>>, WellPlaced(http_events)
  PROVE  /\ Tail(http_events) \in Seq(WebEvents) /\ WellPlaced(Tail(http_events))
         /\ Head(http_events) \in WebEvents
         /\ Elements(http_events) = {Head(http_events)} \union Elements(Tail(http_events))
         /\ \A y \in Elements(Tail(http_events)) : ~Misplaced(Head(http_events), y)
         /\ Inits(http_events) = Inits(Tail(http_events))
              + (IF Head(http_events).type = "init" THEN 1 ELSE 0)
         /\ Finals(http_events) = Finals(Tail(http_events))
              + (IF Head(http_events).type = "final" THEN 1 ELSE 0)
         /\ Tasks(http_events) = Tasks(Tail(http_events))
              + (IF Head(http_events).type = "task" THEN 1 ELSE 0)
         /\ Inits(Tail(http_events)) \in Nat /\ Finals(Tail(http_events)) \in Nat
         /\ Tasks(Tail(http_events)) \in Nat
<1>1. /\ Tail(http_events) \in Seq(WebEvents) /\ Head(http_events) \in WebEvents
      /\ Elements(http_events) = {Head(http_events)} \union Elements(Tail(http_events))
  BY HeadTaken
<1> QED BY <1>1, PlacedTaken, TallyTaken, TallyType

\* What concerns neither the selectables nor the tasks.
LEMMA CarriedOn ==
  ASSUME WebInv, NEW b \in Seq(WebEvents), NEW new \in Seq(WebEvents), http_events' = b \o new,
         \/ b = http_events
         \/ /\ http_events /= <<>> /\ b = Tail(http_events)
            /\ Head(http_events).type \in {"opened", "flow", "message"},
         WellPlaced(new),
         \A e \in Elements(new) : \/ e.type \in {"opened", "flow", "message"}
                                  \/ e = SocketUpdated /\ http_up,
         UNCHANGED <<http_up, http_reconnecting, http_closed, http_count, http_timeouts,
                     http_watched>>,
         http_out' = http_out \/ ~http_up \/ SocketUpdated \in Elements(new),
         http_mode' \in {"initialise", "process"}
  PROVE  EventsInv'
<1>1. /\ WebTypeInv /\ WellPlaced(http_events) /\ TokenInv /\ TallyInv /\ DeadlineInv /\ SocketInv
      /\ http_events \in Seq(WebEvents)
  BY DEF WebInv, EventsInv, WebTypeInv
<1> DEFINE Settings == {SocketInit, SocketUpdated, SocketFinal, TimerInit, TimerUpdated, TimerFinal,
                   TimerTask}
<1>2. /\ WellPlaced(b) /\ Elements(b) \subseteq Elements(http_events)
      /\ Elements(http_events) \intersect Settings \subseteq Elements(b)
      /\ Inits(b) = Inits(http_events) /\ Finals(b) = Finals(http_events)
      /\ Tasks(b) = Tasks(http_events)
  <2>1. CASE b = http_events
    BY <1>1, <2>1
  <2>2. CASE b /= http_events
    <3>1. /\ WellPlaced(b) /\ Elements(http_events) = {Head(http_events)} \union Elements(b)
          /\ Inits(http_events) = Inits(b) + 0 /\ Finals(http_events) = Finals(b) + 0
          /\ Tasks(http_events) = Tasks(b) + 0
          /\ Inits(b) \in Nat /\ Finals(b) \in Nat /\ Tasks(b) \in Nat
      BY <1>1, <2>2, FirstTaken
    <3>2. Head(http_events) \notin Settings
      BY <2>2, EventsAre
    <3> QED BY <3>1, <3>2
  <2> QED BY <2>1, <2>2
<1>3. \A x \in Elements(b), y \in Elements(new) : ~Misplaced(x, y)
  <2> SUFFICES ASSUME NEW x \in Elements(b), NEW y \in Elements(new), Misplaced(x, y) PROVE FALSE
    OBVIOUS
  <2>1. y /= SocketInit /\ y /= SocketFinal
    BY EventsAre
  <2>2. y = SocketUpdated /\ http_up /\ x = SocketFinal
    BY <2>1, EventsAre DEF Misplaced
  <2> QED BY <1>1, <1>2, <2>2 DEF SocketInv
<1>4. Inits(new) = 0 /\ Finals(new) = 0 /\ Tasks(new) = 0
  <2>1. \A e \in Elements(new) : e.type \notin {"init", "final", "task"}
    BY EventsAre
  <2> QED BY <2>1, TallyOfNone
<1>5. /\ WellPlaced(http_events') /\ Elements(http_events') = Elements(b) \union Elements(new)
      /\ Inits(http_events') = Inits(http_events) /\ Finals(http_events') = Finals(http_events)
      /\ Tasks(http_events') = Tasks(http_events)
  <2>1. /\ WellPlaced(http_events') /\ Elements(http_events') = Elements(b) \union Elements(new)
        /\ Inits(http_events') = Inits(b) + 0 /\ Finals(http_events') = Finals(b) + 0
        /\ Tasks(http_events') = Tasks(b) + 0
        /\ Inits(b) \in Nat /\ Finals(b) \in Nat /\ Tasks(b) \in Nat
    BY <1>2, <1>3, <1>4, EventsMove
  <2> QED BY <1>2, <2>1
<1>6. TokenInv' /\ TallyInv' /\ QueueInv'
  BY <1>1, <1>5 DEF TokenInv, TallyInv, QueueInv
<1>7. DeadlineInv'
  BY <1>1, <1>2, <1>5 DEF DeadlineInv
<1>8. SocketInv'
  <2>1. SocketInit \notin Elements(new) /\ SocketFinal \notin Elements(new)
        /\ (SocketUpdated \in Elements(new) => http_up)
    BY EventsAre
  <2>2. /\ SocketInit \in Elements(http_events') <=> SocketInit \in Elements(http_events)
        /\ SocketFinal \in Elements(http_events') <=> SocketFinal \in Elements(http_events)
        /\ SocketUpdated \in Elements(http_events')
             <=> SocketUpdated \in Elements(http_events) \union Elements(new)
    BY <1>2, <1>5, <2>1
  <2>3. http_out' = http_out => Http!Wanted' = Http!Wanted
    BY DEF Http!Wanted
  <2> QED BY <1>1, <2>1, <2>2, <2>3 DEF SocketInv
<1> QED BY <1>5, <1>6, <1>7, <1>8 DEF EventsInv

\* A step that leaves the reactor alone.
LEMMA Untouched ==
  ASSUME WebInv, QueueInv',
         UNCHANGED <<http_events, http_up, http_reconnecting, http_closed, http_count,
                     http_timeouts, http_watched, http_out>>
  PROVE  EventsInv'
<1>1. Http!Wanted' = Http!Wanted
  BY DEF Http!Wanted
<1> QED BY <1>1 DEF WebInv, EventsInv, TokenInv, TallyInv, DeadlineInv, SocketInv

LEMMA ClientKeepsEvents ==
  ASSUME WebInv,
         \/ Http!Post \/ Http!OnLinkOpened \/ Http!OnSendable \/ Http!OnMessage
         \/ Http!Readable \/ Http!Writable
         \/ Http!LoopRuns /\ Http!ProcessQueued
  PROVE  EventsInv'
<1>1. http_events \in Seq(WebEvents) /\ WebTypeInv
  BY DEF WebInv, WebTypeInv
<1>2. CASE Http!Post
  <2> DEFINE w == Append(http_pending, http_posts')
             s == Http!Sends(w, http_replyAddress, http_credit)
  <2>1. /\ Http!DoRequest(w, http_sent, http_replyAddress, http_credit)
        /\ Http!Process(Http!Changed(s))
        /\ UNCHANGED <<http_up, http_reconnecting, http_closed, http_count, http_timeouts,
                       http_watched>>
    BY <1>2 DEF Http!Post, Http!Touch, Http!linkVars
  <2>2. http_out' = http_out \/ s
    BY <2>1 DEF Http!DoRequest
  <2> HIDE DEF s, w
  <2>3. /\ Http!Changed(s) \in Seq(WebEvents) /\ WellPlaced(Http!Changed(s))
        /\ Elements(Http!Changed(s)) = IF s /\ http_up THEN {SocketUpdated} ELSE {}
    BY ChangedIs
  <2>4. http_mode' = "process" /\ http_events' = http_events \o Http!Changed(s)
    BY <2>1 DEF Http!Process
  <2> QED BY <1>1, <2>1, <2>2, <2>3, <2>4, CarriedOn
<1>3. ASSUME NEW t \in {"opened", "flow", "message"}, NEW s, Http!Handle(t, Http!Changed(s)),
             http_out' = http_out \/ s, Http!InProcess, UNCHANGED Http!linkVars
      PROVE  EventsInv'
  <2>1. /\ Http!Changed(s) \in Seq(WebEvents) /\ WellPlaced(Http!Changed(s))
        /\ Elements(Http!Changed(s)) = IF s /\ http_up THEN {SocketUpdated} ELSE {}
    BY ChangedIs
  <2>2. /\ http_mode \in {"initialise", "process"} /\ http_events /= <<>>
        /\ Head(http_events).type \in {"opened", "flow", "message"}
        /\ Tail(http_events) \in Seq(WebEvents)
        /\ http_events' = Tail(http_events) \o Http!Changed(s)
    BY <1>1, <1>3, <2>1, HandledIs
  <2>3. UNCHANGED <<http_mode, http_up, http_reconnecting, http_closed, http_count,
                    http_timeouts, http_watched>>
    BY <1>3 DEF Http!InProcess, Http!linkVars
  <2> QED BY <1>3, <2>1, <2>2, <2>3, CarriedOn
<1>4. CASE Http!OnLinkOpened
  <2> DEFINE s == Http!Sends(http_pending, Head(http_events).address, http_credit)
  <2>1. /\ Http!Handle("opened", Http!Changed(s)) /\ Http!InProcess /\ UNCHANGED Http!linkVars
        /\ Http!DoRequest(http_pending, http_sent, Head(http_events).address, http_credit)
    BY <1>4 DEF Http!OnLinkOpened
  <2>2. http_out' = http_out \/ s
    BY <2>1 DEF Http!DoRequest
  <2> HIDE DEF s
  <2> QED BY <1>3, <2>1, <2>2
<1>5. CASE Http!OnSendable
  <2> DEFINE s == Http!Sends(http_pending, http_replyAddress, http_credit + 1)
  <2>1. /\ Http!Handle("flow", Http!Changed(s)) /\ Http!InProcess /\ UNCHANGED Http!linkVars
        /\ Http!DoRequest(http_pending, http_sent, http_replyAddress, http_credit + 1)
    BY <1>5 DEF Http!OnSendable
  <2>2. http_out' = http_out \/ s
    BY <2>1 DEF Http!DoRequest
  <2> HIDE DEF s
  <2> QED BY <1>3, <2>1, <2>2
<1>6. CASE Http!OnMessage
  <2> DEFINE s == http_sent /= <<>> /\ Http!Sends(http_pending, http_replyAddress, http_credit)
  <2>1. /\ Http!Handle("message", Http!Changed(s)) /\ Http!InProcess /\ UNCHANGED Http!linkVars
    BY <1>6 DEF Http!OnMessage
  <2>2. http_out' = http_out \/ s
    BY <1>6 DEF Http!OnMessage, Http!DoRequest
  <2> HIDE DEF s
  <2> QED BY <1>3, <2>1, <2>2
<1>7. CASE Http!Readable
  <2>1. /\ Http!Process(http_incoming)
        /\ UNCHANGED <<http_up, http_reconnecting, http_closed, http_count, http_timeouts,
                       http_watched, http_out>>
    BY <1>7 DEF Http!Readable, Http!Callback, Http!linkVars
  <2>2. http_mode' = "process" /\ http_events' = http_events \o http_incoming
    BY <2>1 DEF Http!Process
  <2>3. http_incoming \in Seq(WebIncoming) /\ http_incoming \in Seq(WebEvents)
    BY <1>1, IncomingAreEvents DEF WebTypeInv
  <2>4. \A e \in Elements(http_incoming) : e.type \in {"opened", "flow", "message"}
    BY <2>3, IncomingAre DEF Elements
  <2>5. WellPlaced(http_incoming)
    BY <2>4, EventsAre DEF WellPlaced, Misplaced, Elements
  <2> QED BY <1>1, <2>1, <2>2, <2>3, <2>4, <2>5, CarriedOn
<1>8. CASE Http!Writable
  <2>1. /\ Http!Process(<<SocketUpdated>>) /\ http_up
        /\ UNCHANGED <<http_up, http_reconnecting, http_closed, http_count, http_timeouts,
                       http_watched>>
    BY <1>8 DEF Http!Writable, Http!Callback, Http!linkVars, SocketUpdated
  <2>2. http_mode' = "process" /\ http_events' = http_events \o <<SocketUpdated>>
    BY <2>1 DEF Http!Process
  <2>3. /\ <<SocketUpdated>> \in Seq(WebEvents) /\ WellPlaced(<<SocketUpdated>>)
        /\ Elements(<<SocketUpdated>>) = {SocketUpdated}
    BY EventsAre, PlacedFew
  <2> QED BY <1>1, <2>1, <2>2, <2>3, CarriedOn
<1>9. CASE Http!LoopRuns /\ Http!ProcessQueued
  <2>1. /\ Http!Process(<<>>)
        /\ UNCHANGED <<http_up, http_reconnecting, http_closed, http_count, http_timeouts,
                       http_watched, http_out>>
    BY <1>9 DEF Http!ProcessQueued, Http!LoopRuns, Http!linkVars
  <2>2. http_mode' = "process" /\ http_events' = http_events \o <<>>
    BY <2>1 DEF Http!Process
  <2>3. <<>> \in Seq(WebEvents) /\ WellPlaced(<<>>) /\ Elements(<<>>) = {}
    BY PlacedFew, EmptyHasNone
  <2> QED BY <1>1, <2>1, <2>2, <2>3, CarriedOn
<1> QED BY <1>2, <1>4, <1>5, <1>6, <1>7, <1>8, <1>9

LEMMA SelectablesKeepEvents ==
  ASSUME WebInv, Http!Selectables
  PROVE  EventsInv'
<1> DEFINE h == Head(http_events)
           r == Tail(http_events)
           E == Elements(http_events)
<1>1. /\ WebTypeInv /\ WellPlaced(http_events) /\ TokenInv /\ TallyInv /\ DeadlineInv /\ SocketInv
      /\ http_events \in Seq(WebEvents) /\ http_timeouts \in Nat /\ http_count \in Int
  BY DEF WebInv, EventsInv, WebTypeInv
<1>2. /\ \E t \in {"init", "updated"} : Http!Handle(t, <<>>)
      /\ UNCHANGED <<http_mode, http_up, http_reconnecting, http_closed, http_out>>
  BY DEF Http!Selectables, Http!OnSelectableInit, Http!OnSelectableUpdated, Http!linkVars
<1>3. <<>> \in Seq(WebEvents)
  OBVIOUS
<1>4. /\ http_mode \in {"initialise", "process"} /\ http_events /= <<>> /\ h \in WebEvents
      /\ h.type \in {"init", "updated"} /\ r \in Seq(WebEvents) /\ http_events' = r \o <<>>
  BY <1>1, <1>2, <1>3, HandledIs
<1>5. http_events' = r
  BY <1>4, ConcatEmptySeq
<1>6. /\ WellPlaced(http_events') /\ E = {h} \union Elements(http_events')
      /\ \A y \in Elements(http_events') : ~Misplaced(h, y)
      /\ Inits(http_events) = Inits(http_events') + (IF h.type = "init" THEN 1 ELSE 0)
      /\ Finals(http_events) = Finals(http_events') + (IF h.type = "final" THEN 1 ELSE 0)
      /\ Tasks(http_events) = Tasks(http_events') + (IF h.type = "task" THEN 1 ELSE 0)
      /\ Inits(http_events') \in Nat /\ Finals(http_events') \in Nat
      /\ Tasks(http_events') \in Nat
  BY <1>1, <1>4, <1>5, FirstTaken
<1>7. h \in {SocketInit, TimerInit, SocketUpdated, TimerUpdated}
  BY <1>4, EventsAre
<1>8. /\ http_watched' = IF h.sel = "socket" THEN Http!Wanted ELSE http_watched
      /\ http_timeouts' = IF h.sel = "timer" /\ http_reconnecting THEN http_timeouts + 1
                                                                  ELSE http_timeouts
      /\ http_count' = IF h.type = "init" THEN http_count + 1 ELSE http_count
  <2>1. CASE Http!OnSelectableInit(Http!Wanted, http_reconnecting)
    <3>1. h.type = "init"
      BY <2>1 DEF Http!OnSelectableInit, Http!Handle
    <3> QED BY <2>1, <3>1 DEF Http!OnSelectableInit, Http!Schedule
  <2>2. CASE Http!OnSelectableUpdated(Http!Wanted, http_reconnecting)
    <3>1. h.type = "updated"
      BY <2>2 DEF Http!OnSelectableUpdated, Http!Handle
    <3> QED BY <2>2, <3>1 DEF Http!OnSelectableUpdated, Http!Schedule
  <2> QED BY <2>1, <2>2 DEF Http!Selectables
<1> HIDE DEF h, r, E
<1>9. TokenInv'
  BY <1>1, <1>2, <1>4, <1>6 DEF TokenInv
<1>10. TallyInv'
  <2>1. PICK i, f, u, c : /\ i = Inits(http_events') /\ f = Finals(http_events')
                          /\ u = Bit(http_up) /\ c = Bit(~http_closed)
    OBVIOUS
  <2>2. i \in Nat /\ f \in Nat /\ u \in Int /\ c \in Int
    BY <1>1, <1>6, <2>1 DEF WebTypeInv, Bit
  <2>3. http_count + (i + (IF h.type = "init" THEN 1 ELSE 0)) = f + 0 + u + c
    BY <1>1, <1>4, <1>6, <2>1 DEF TallyInv
  <2>4. http_count' + i = f + u + c
    BY <1>1, <1>8, <2>2, <2>3
  <2> QED BY <1>2, <2>1, <2>4 DEF TallyInv
<1>11. QueueInv'
  BY <1>2, <1>4 DEF QueueInv
<1>12. DeadlineInv'
  <2>1. CASE h = TimerUpdated
    BY <1>1, <1>2, <1>8, <2>1, EventsAre DEF DeadlineInv
  <2>2. CASE h /= TimerUpdated
    BY <1>1, <1>2, <1>6, <1>8, <2>2 DEF DeadlineInv, E
  <2> QED BY <2>1, <2>2
<1>13. SocketInv'
  <2>1. Http!Wanted' = Http!Wanted
    BY <1>2 DEF Http!Wanted
  <2>2. CASE h = SocketInit \/ h = SocketUpdated
    <3>1. SocketInit \notin Elements(http_events')
      BY <1>6, <2>2 DEF Misplaced
    <3>2. http_watched' = Http!Wanted
      BY <1>8, <2>2, EventsAre
    <3>3. SocketFinal \in Elements(http_events') <=> SocketFinal \in E
      BY <1>6, <2>2, EventsAre
    <3>4. h \in E
      BY <1>6
    <3> QED BY <1>1, <1>2, <2>1, <2>2, <3>1, <3>2, <3>3, <3>4 DEF SocketInv, E
  <2>3. CASE h = TimerInit \/ h = TimerUpdated
    <3>1. http_watched' = http_watched
      BY <1>8, <2>3, EventsAre
    <3>2. \A e \in {SocketInit, SocketUpdated, SocketFinal} :
            e \in Elements(http_events') <=> e \in E
      BY <1>6, <2>3, EventsAre
    <3> QED BY <1>1, <1>2, <2>1, <3>1, <3>2 DEF SocketInv, E
  <2> QED BY <1>7, <2>2, <2>3
<1> QED BY <1>6, <1>9, <1>10, <1>11, <1>12, <1>13 DEF EventsInv

LEMMA FinalKeepsEvents ==
  ASSUME WebInv, Http!Final
  PROVE  EventsInv'
<1> DEFINE h == Head(http_events)
           r == Tail(http_events)
           E == Elements(http_events)
<1>1. /\ WebTypeInv /\ WellPlaced(http_events) /\ TokenInv /\ TallyInv /\ DeadlineInv /\ SocketInv
      /\ http_events \in Seq(WebEvents) /\ http_timeouts \in Nat /\ http_count \in Int
  BY DEF WebInv, EventsInv, WebTypeInv
<1>2. /\ Http!Handle("final", <<>>)
      /\ UNCHANGED <<http_mode, http_up, http_reconnecting, http_closed, http_timeouts>>
      /\ http_watched' = IF h.sel = "socket" THEN {} ELSE http_watched
      /\ http_count' = http_count - 1
      /\ h.sel = "socket" \/ http_out' = http_out
  BY DEF Http!Final, Http!OnSelectableFinal, Http!linkVars
<1>3. <<>> \in Seq(WebEvents)
  OBVIOUS
<1>4. /\ http_mode \in {"initialise", "process"} /\ http_events /= <<>> /\ h \in WebEvents
      /\ h.type = "final" /\ r \in Seq(WebEvents) /\ http_events' = r \o <<>>
  BY <1>1, <1>2, <1>3, HandledIs
<1>5. http_events' = r
  BY <1>4, ConcatEmptySeq
<1>6. /\ WellPlaced(http_events') /\ E = {h} \union Elements(http_events')
      /\ \A y \in Elements(http_events') : ~Misplaced(h, y)
      /\ Inits(http_events) = Inits(http_events') + 0
      /\ Finals(http_events) = Finals(http_events') + 1
      /\ Tasks(http_events) = Tasks(http_events') + 0
      /\ Inits(http_events') \in Nat /\ Finals(http_events') \in Nat
      /\ Tasks(http_events') \in Nat
  BY <1>1, <1>4, <1>5, FirstTaken
<1>7. h \in {SocketFinal, TimerFinal}
  BY <1>4, EventsAre
<1> HIDE DEF h, r, E
<1>8. TokenInv'
  BY <1>1, <1>2, <1>6 DEF TokenInv
<1>9. TallyInv'
  <2>1. PICK i, f, u, c : /\ i = Inits(http_events') /\ f = Finals(http_events')
                          /\ u = Bit(http_up) /\ c = Bit(~http_closed)
    OBVIOUS
  <2>2. i \in Nat /\ f \in Nat /\ u \in Int /\ c \in Int
    BY <1>1, <1>6, <2>1 DEF WebTypeInv, Bit
  <2>3. http_count + (i + 0) = (f + 1) + u + c
    BY <1>1, <1>6, <2>1 DEF TallyInv
  <2>4. http_count' + i = f + u + c
    BY <1>1, <1>2, <2>2, <2>3
  <2> QED BY <1>2, <2>1, <2>4 DEF TallyInv
<1>10. QueueInv'
  BY <1>2, <1>4 DEF QueueInv
<1>11. DeadlineInv'
  <2>1. h /= TimerUpdated
    BY <1>4, EventsAre
  <2> QED BY <1>1, <1>2, <1>6, <2>1 DEF DeadlineInv, E
<1>12. SocketInv'
  <2>1. CASE h = SocketFinal
    <3>1. /\ SocketInit \notin Elements(http_events')
          /\ SocketFinal \notin Elements(http_events')
          /\ SocketUpdated \notin Elements(http_events')
      BY <1>6, <2>1 DEF Misplaced
    <3>2. ~http_up /\ http_watched' = {}
      BY <1>1, <1>2, <1>6, <2>1, EventsAre DEF SocketInv, E
    <3> QED BY <1>2, <3>1, <3>2 DEF SocketInv
  <2>2. CASE h = TimerFinal
    <3>1. http_watched' = http_watched /\ http_out' = http_out
      BY <1>2, <2>2, EventsAre
    <3>2. \A e \in {SocketInit, SocketUpdated, SocketFinal} :
            e \in Elements(http_events') <=> e \in E
      BY <1>6, <2>2, EventsAre
    <3>3. Http!Wanted' = Http!Wanted
      BY <3>1 DEF Http!Wanted
    <3> QED BY <1>1, <1>2, <3>1, <3>2, <3>3 DEF SocketInv, E
  <2> QED BY <1>7, <2>1, <2>2
<1> QED BY <1>6, <1>8, <1>9, <1>10, <1>11, <1>12 DEF EventsInv

LEMMA TimerTaskKeepsEvents ==
  ASSUME WebInv, Http!OnTimerTask
  PROVE  EventsInv'
<1> DEFINE h == Head(http_events)
           r == Tail(http_events)
           E == Elements(http_events)
<1>1. /\ WebTypeInv /\ WellPlaced(http_events) /\ TokenInv /\ TallyInv /\ DeadlineInv /\ SocketInv
      /\ http_events \in Seq(WebEvents) /\ http_count \in Int /\ http_up \in BOOLEAN
  BY DEF WebInv, EventsInv, WebTypeInv
<1>2. /\ Http!Handle("task", <<SocketInit>>)
      /\ http_up' = TRUE
      /\ UNCHANGED <<http_mode, http_reconnecting, http_closed, http_timeouts, http_watched,
                     http_count>>
  BY DEF Http!OnTimerTask, Http!InProcess, SocketInit
<1>3. SocketInit \in WebEvents /\ <<SocketInit>> \in Seq(WebEvents) /\ WellPlaced(<<SocketInit>>)
      /\ Elements(<<SocketInit>>) = {SocketInit}
  BY EventsAre, PlacedFew
<1>4. /\ http_mode \in {"initialise", "process"} /\ http_events /= <<>> /\ h \in WebEvents
      /\ h.type = "task" /\ r \in Seq(WebEvents) /\ http_events' = r \o <<SocketInit>>
  BY <1>1, <1>2, <1>3, HandledIs
<1>5. h = TimerTask
  BY <1>4, EventsAre
<1>6. /\ WellPlaced(r) /\ E = {h} \union Elements(r)
      /\ \A y \in Elements(r) : ~Misplaced(h, y)
      /\ Inits(http_events) = Inits(r) + 0
      /\ Finals(http_events) = Finals(r) + 0
      /\ Tasks(http_events) = Tasks(r) + 1
      /\ Inits(r) \in Nat /\ Finals(r) \in Nat /\ Tasks(r) \in Nat
  BY <1>1, <1>4, FirstTaken
<1> HIDE DEF h, r, E
<1>7. /\ ~http_up /\ SocketInit \notin Elements(r) /\ SocketFinal \notin Elements(r)
      /\ SocketUpdated \notin Elements(r) /\ http_watched = {}
  <2>1. ~http_up
    BY <1>1, <1>5, <1>6, TokenIs DEF E
  <2>2. SocketFinal \notin Elements(r)
    BY <1>5, <1>6 DEF Misplaced
  <2>3. SocketFinal \notin E /\ SocketInit \notin E
    BY <1>1, <1>5, <1>6, <2>1, <2>2, EventsAre DEF SocketInv, E
  <2> QED BY <1>1, <1>6, <2>1, <2>3 DEF SocketInv, E
<1>8. \A x \in Elements(r), y \in Elements(<<SocketInit>>) : ~Misplaced(x, y)
  BY <1>3, <1>7, EventsAre DEF Misplaced
<1>9. /\ Inits(<<SocketInit>>) = 1 /\ Finals(<<SocketInit>>) = 0 /\ Tasks(<<SocketInit>>) = 0
  BY <1>3, TallyOne, EventsAre
<1>10. /\ WellPlaced(http_events') /\ Elements(http_events') = Elements(r) \union {SocketInit}
       /\ Inits(http_events') = Inits(r) + 1 /\ Finals(http_events') = Finals(r) + 0
       /\ Tasks(http_events') = Tasks(r) + 0
  BY <1>3, <1>4, <1>6, <1>8, <1>9, EventsMove
<1>11. Bit(http_up) = 0 /\ Bit(http_up') = 1
  BY <1>2, <1>7 DEF Bit
<1>12. TokenInv'
  <2>1. PICK b, c, t : b = Bit(http_reconnecting) /\ c = Bit(http_closed) /\ t = Tasks(r)
    OBVIOUS
  <2>2. b \in Int /\ c \in Int /\ t \in Nat
    BY <1>1, <1>6, <2>1, BitIs DEF WebTypeInv
  <2>3. 0 + b + c + (t + 1) = 1
    BY <1>1, <1>6, <1>11, <2>1 DEF TokenInv
  <2>4. 1 + b + c + (t + 0) = 1
    BY <2>2, <2>3
  <2> QED BY <1>2, <1>10, <1>11, <2>1, <2>4 DEF TokenInv
<1>13. TallyInv'
  <2>1. PICK i, f, c : i = Inits(r) /\ f = Finals(r) /\ c = Bit(~http_closed)
    OBVIOUS
  <2>2. i \in Nat /\ f \in Nat /\ c \in Int
    BY <1>1, <1>6, <2>1 DEF WebTypeInv, Bit
  <2>3. http_count + (i + 0) = (f + 0) + 0 + c
    BY <1>1, <1>6, <1>11, <2>1 DEF TallyInv
  <2>4. http_count + (i + 1) = (f + 0) + 1 + c
    BY <1>1, <2>2, <2>3
  <2> QED BY <1>2, <1>10, <1>11, <2>1, <2>4 DEF TallyInv
<1>14. QueueInv'
  BY <1>2, <1>4 DEF QueueInv
<1>15. DeadlineInv'
  BY <1>1, <1>2, <1>5, <1>6, <1>10, EventsAre DEF DeadlineInv, E
<1>16. SocketInv'
  BY <1>2, <1>7, <1>10, EventsAre DEF SocketInv
<1> QED BY <1>10, <1>12, <1>13, <1>14, <1>15, <1>16 DEF EventsInv

LEMMA TimerExpiredKeepsEvents ==
  ASSUME WebInv, Http!TimerExpired
  PROVE  EventsInv'
<1>1. /\ WebTypeInv /\ WellPlaced(http_events) /\ TokenInv /\ TallyInv /\ DeadlineInv /\ SocketInv
      /\ http_events \in Seq(WebEvents) /\ http_reconnecting \in BOOLEAN
  BY DEF WebInv, EventsInv, WebTypeInv
<1> DEFINE new == IF http_reconnecting THEN <<TimerTask>> ELSE <<>>
<1>2. /\ Http!Process(new) /\ http_reconnecting' = FALSE
      /\ UNCHANGED <<http_up, http_closed, http_watched, http_count, http_out>>
  BY DEF Http!TimerExpired, Http!Expired, TimerTask
<1>3. /\ new \in Seq(WebEvents) /\ WellPlaced(new)
      /\ Elements(new) = IF http_reconnecting THEN {TimerTask} ELSE {}
      /\ Inits(new) = 0 /\ Finals(new) = 0 /\ Tasks(new) = IF http_reconnecting THEN 1 ELSE 0
  <2>1. TimerTask \in WebEvents /\ <<TimerTask>> \in Seq(WebEvents)
    BY EventsAre
  <2>2. CASE http_reconnecting
    BY <2>1, <2>2, PlacedFew, TallyOne, EventsAre
  <2>3. CASE ~http_reconnecting
    BY <2>3, PlacedFew, TallyOne, EmptyHasNone
  <2> QED BY <1>1, <2>2, <2>3
<1> HIDE DEF new
<1>4. http_mode' = "process" /\ http_events' = http_events \o new
  BY <1>2 DEF Http!Process
<1>5. \A x \in Elements(http_events), y \in Elements(new) : ~Misplaced(x, y)
  BY <1>3, EventsAre DEF Misplaced
<1>6. /\ WellPlaced(http_events')
      /\ Elements(http_events') = Elements(http_events) \union Elements(new)
      /\ Inits(http_events') = Inits(http_events) + 0
      /\ Finals(http_events') = Finals(http_events) + 0
      /\ Tasks(http_events') = Tasks(http_events) + Tasks(new)
      /\ Inits(http_events) \in Nat /\ Finals(http_events) \in Nat
      /\ Tasks(http_events) \in Nat
  BY <1>1, <1>3, <1>4, <1>5, EventsMove
<1>7. TokenInv'
  <2>1. PICK a, c, t : a = Bit(http_up) /\ c = Bit(http_closed) /\ t = Tasks(http_events)
    OBVIOUS
  <2>2. a \in Int /\ c \in Int /\ t \in Nat
    BY <1>1, <1>6, <2>1, BitIs DEF WebTypeInv
  <2>3. a + (IF http_reconnecting THEN 1 ELSE 0) + c + t = 1
    BY <1>1, <2>1 DEF TokenInv, Bit
  <2>4. a + 0 + c + (t + (IF http_reconnecting THEN 1 ELSE 0)) = 1
    BY <2>2, <2>3
  <2>5. Bit(http_reconnecting') = 0
    BY <1>2 DEF Bit
  <2> QED BY <1>2, <1>3, <1>6, <2>1, <2>4, <2>5 DEF TokenInv
<1>8. TallyInv'
  BY <1>1, <1>2, <1>6 DEF TallyInv
<1>9. QueueInv' /\ DeadlineInv'
  BY <1>2, <1>4 DEF QueueInv, DeadlineInv
<1>10. SocketInv'
  <2>1. Http!Wanted' = Http!Wanted
    BY <1>2 DEF Http!Wanted
  <2>2. \A e \in {SocketInit, SocketUpdated, SocketFinal} :
          e \in Elements(http_events') <=> e \in Elements(http_events)
    BY <1>3, <1>6, EventsAre
  <2> QED BY <1>1, <1>2, <2>1, <2>2 DEF SocketInv
<1> QED BY <1>6, <1>7, <1>8, <1>9, <1>10 DEF EventsInv

LEMMA SocketEndKeepsEvents ==
  ASSUME WebInv, Http!Break \/ Http!NodeCloses
  PROVE  EventsInv'
<1>1. /\ WebTypeInv /\ WellPlaced(http_events) /\ TokenInv /\ TallyInv /\ DeadlineInv /\ SocketInv
      /\ http_events \in Seq(WebEvents) /\ http_count \in Int
  BY DEF WebInv, EventsInv, WebTypeInv
<1>2. PICK e \in {TimerUpdated, TimerFinal} :
        /\ Http!Process(<<SocketFinal, e>>)
        /\ e = TimerUpdated => http_reconnecting' = TRUE /\ http_closed' = http_closed
        /\ e = TimerFinal => http_closed' = TRUE /\ http_reconnecting' = http_reconnecting
  <2>1. CASE Http!Break
    <3>1. /\ Http!Process(<<SocketFinal, TimerUpdated>>)
          /\ http_reconnecting' = TRUE /\ http_closed' = http_closed
      BY <2>1 DEF Http!Break, Http!Callback, SocketFinal, TimerUpdated
    <3>2. TimerUpdated /= TimerFinal
      BY EventsAre
    <3> QED BY <3>1, <3>2
  <2>2. CASE Http!NodeCloses
    <3>1. /\ Http!Process(<<SocketFinal, TimerFinal>>)
          /\ http_closed' = TRUE /\ http_reconnecting' = http_reconnecting
      BY <2>2 DEF Http!NodeCloses, Http!Callback, SocketFinal, TimerFinal
    <3>2. TimerUpdated /= TimerFinal
      BY EventsAre
    <3> QED BY <3>1, <3>2
  <2> QED BY <2>1, <2>2
<1>3. /\ http_up /\ http_up' = FALSE /\ "read" \in http_watched
      /\ UNCHANGED <<http_watched, http_count, http_timeouts>>
  BY DEF Http!Break, Http!NodeCloses, Http!Callback
<1> DEFINE new == <<SocketFinal, e>>
<1>4. ~http_reconnecting /\ ~http_closed /\ TimerTask \notin Elements(http_events)
  BY <1>1, <1>3, TokenIs
<1>5. SocketInit \notin Elements(http_events) /\ SocketFinal \notin Elements(http_events)
  BY <1>1, <1>3 DEF SocketInv
<1>6. /\ e \in WebEvents /\ SocketFinal \in WebEvents /\ e \notin {SocketInit, SocketFinal}
      /\ e /= SocketUpdated /\ TimerUpdated /= TimerFinal
  BY EventsAre
<1>7. /\ new \in Seq(WebEvents) /\ WellPlaced(new) /\ Elements(new) = {SocketFinal, e}
      /\ Inits(new) = 0 /\ Finals(new) = (IF e = TimerFinal THEN 2 ELSE 1) /\ Tasks(new) = 0
  <2>1. <<SocketFinal>> \in Seq(WebEvents) /\ <<e>> \in Seq(WebEvents)
        /\ new = <<SocketFinal>> \o <<e>> /\ new \in Seq(WebEvents)
    BY <1>6
  <2>2. ~Misplaced(SocketFinal, e)
    BY <1>6 DEF Misplaced
  <2>3. WellPlaced(new) /\ Elements(new) = {SocketFinal, e}
    BY <2>2, PlacedFew
  <2>4. /\ Inits(<<SocketFinal>>) = 0 /\ Finals(<<SocketFinal>>) = 1
        /\ Tasks(<<SocketFinal>>) = 0 /\ Inits(<<e>>) = 0
        /\ Finals(<<e>>) = (IF e = TimerFinal THEN 1 ELSE 0) /\ Tasks(<<e>>) = 0
    BY <1>6, TallyOne, EventsAre
  <2> HIDE DEF new
  <2>5. Inits(new) = 0 + 0 /\ Finals(new) = 1 + (IF e = TimerFinal THEN 1 ELSE 0)
        /\ Tasks(new) = 0 + 0
    BY <2>1, <2>4, TallyJoined
  <2> QED BY <2>1, <2>3, <2>5
<1>8. http_mode' = "process" /\ http_events' = http_events \o new
  <2>1. Http!Process(new)
    BY <1>2
  <2> HIDE DEF new
  <2> QED BY <2>1 DEF Http!Process
<1> HIDE DEF new
<1>9. \A x \in Elements(http_events), y \in Elements(new) : ~Misplaced(x, y)
  <2> TAKE x \in Elements(http_events), y \in Elements(new)
  <2>1. x \notin {SocketInit, SocketFinal, TimerTask}
    BY <1>4, <1>5
  <2>2. y \notin {SocketInit, SocketUpdated}
    BY <1>6, <1>7, EventsAre
  <2> QED BY <2>1, <2>2 DEF Misplaced
<1>10. /\ WellPlaced(http_events')
       /\ Elements(http_events') = Elements(http_events) \union {SocketFinal, e}
       /\ Inits(http_events') = Inits(http_events) + 0
       /\ Finals(http_events') = Finals(http_events) + (IF e = TimerFinal THEN 2 ELSE 1)
       /\ Tasks(http_events') = Tasks(http_events) + 0
       /\ Inits(http_events) \in Nat /\ Finals(http_events) \in Nat
       /\ Tasks(http_events) \in Nat
  BY <1>1, <1>7, <1>8, <1>9, EventsMove
<1>11. /\ Bit(http_up) = 1 /\ Bit(http_up') = 0
       /\ Bit(http_reconnecting) = 0 /\ Bit(http_closed) = 0 /\ Bit(~http_closed) = 1
       /\ Bit(http_reconnecting') = (IF e = TimerFinal THEN 0 ELSE 1)
       /\ Bit(http_closed') = (IF e = TimerFinal THEN 1 ELSE 0)
       /\ Bit(~http_closed') = (IF e = TimerFinal THEN 0 ELSE 1)
  BY <1>1, <1>2, <1>3, <1>4, <1>6 DEF Bit, WebTypeInv
<1>12. TokenInv'
  <2>1. 1 + 0 + 0 + Tasks(http_events) = 1
    BY <1>1, <1>11 DEF TokenInv
  <2>2. Tasks(http_events') = 0
    BY <1>10, <2>1
  <2> QED BY <1>11, <2>2 DEF TokenInv
<1>13. TallyInv'
  <2>1. PICK i, f : i = Inits(http_events) /\ f = Finals(http_events)
    OBVIOUS
  <2>2. i \in Nat /\ f \in Nat /\ http_count + i = f + 1 + 1
    BY <1>1, <1>10, <1>11, <2>1 DEF TallyInv
  <2>3. http_count + (i + 0) = (f + (IF e = TimerFinal THEN 2 ELSE 1)) + 0
                                 + (IF e = TimerFinal THEN 0 ELSE 1)
    BY <1>1, <2>2
  <2> QED BY <1>3, <1>10, <1>11, <2>1, <2>3 DEF TallyInv
<1>14. QueueInv'
  BY <1>8 DEF QueueInv
<1>15. DeadlineInv'
  BY <1>2, <1>4, <1>10 DEF DeadlineInv
<1>16. SocketInv'
  BY <1>3, <1>5, <1>6, <1>10, EventsAre DEF SocketInv
<1> QED BY <1>10, <1>12, <1>13, <1>14, <1>15, <1>16 DEF EventsInv

LEMMA WebStart ==
  ASSUME Http!Init
  PROVE  WebInv
<1>1. WebTypeInv
  BY WebTypeStart
<1>2. /\ http_events = <<TimerInit, SocketInit>> /\ http_up = TRUE /\ http_reconnecting = FALSE
      /\ http_closed = FALSE /\ http_count = 0 /\ http_watched = {} /\ http_mode = "initialise"
  BY DEF Http!Init, Http!Initialise, TimerInit, SocketInit
<1>3. /\ TimerInit \in WebEvents /\ SocketInit \in WebEvents
      /\ ~Misplaced(TimerInit, SocketInit)
  BY EventsAre DEF Misplaced
<1>4. WellPlaced(http_events) /\ Elements(http_events) = {TimerInit, SocketInit}
  BY <1>2, <1>3, PlacedFew
<1>5. Inits(http_events) = 1 + 1 /\ Finals(http_events) = 0 + 0 /\ Tasks(http_events) = 0 + 0
  <2>1. <<TimerInit>> \in Seq(WebEvents) /\ <<SocketInit>> \in Seq(WebEvents)
        /\ http_events = <<TimerInit>> \o <<SocketInit>>
    BY <1>2, <1>3
  <2>2. /\ Inits(<<TimerInit>>) = 1 /\ Finals(<<TimerInit>>) = 0 /\ Tasks(<<TimerInit>>) = 0
        /\ Inits(<<SocketInit>>) = 1 /\ Finals(<<SocketInit>>) = 0 /\ Tasks(<<SocketInit>>) = 0
    BY <1>3, TallyOne, EventsAre
  <2> QED BY <2>1, <2>2, TallyJoined
<1>6. TokenInv /\ TallyInv
  BY <1>2, <1>5 DEF TokenInv, TallyInv, Bit
<1>7. QueueInv /\ DeadlineInv /\ SocketInv
  BY <1>2, <1>4, EventsAre DEF QueueInv, DeadlineInv, SocketInv
<1> QED BY <1>1, <1>4, <1>6, <1>7 DEF WebInv, EventsInv

LEMMA WebStep ==
  ASSUME WebInv, [Http!Next]_Http!vars
  PROVE  WebInv'
<1>1. WebTypeInv'
  BY WebTypeStep DEF WebInv
<1> SUFFICES EventsInv'
  BY <1>1 DEF WebInv
<1>2. CASE Http!LoopRuns
  <2>1. CASE Http!ProcessQueued
    <3>1. Http!LoopRuns /\ Http!ProcessQueued
      BY <1>2, <2>1
    <3> QED BY <3>1, ClientKeepsEvents
  <2>2. CASE Http!Returns \/ Http!Stop
    <3>1. UNCHANGED <<http_events, http_up, http_reconnecting, http_closed, http_count,
                      http_timeouts, http_watched, http_out>>
      BY <1>2, <2>2 DEF Http!LoopRuns, Http!Returns, Http!Stop, Http!linkVars
    <3>2. QueueInv'
      <4>1. http_callbacks \in Nat
        BY DEF WebInv, WebTypeInv
      <4>2. CASE Http!Returns
        <5>1. http_callbacks' = 0 => http_events = <<>>
          BY <4>1, <4>2 DEF Http!Returns
        <5> QED BY <3>1, <5>1 DEF QueueInv
      <4>3. CASE Http!Stop
        BY <4>3 DEF Http!Stop, QueueInv
      <4> QED BY <2>2, <4>2, <4>3
    <3> QED BY <3>1, <3>2, Untouched
  <2> QED BY <1>2, <2>1, <2>2 DEF Http!LoopRuns
<1>3. CASE Http!NodeGrants \/ Http!OnRequest \/ UNCHANGED Http!vars
  <2>1. UNCHANGED <<http_mode, http_callbacks, http_events, http_up, http_reconnecting,
                    http_closed, http_count, http_timeouts, http_watched, http_out>>
    BY <1>3 DEF Http!NodeGrants, Http!OnRequest, Http!vars, Http!loopVars, Http!linkVars
  <2>2. QueueInv'
    BY <2>1 DEF QueueInv, WebInv, EventsInv
  <2> QED BY <2>1, <2>2, Untouched
<1> QED
  BY <1>2, <1>3, ClientKeepsEvents, SelectablesKeepEvents, FinalKeepsEvents,
     TimerTaskKeepsEvents, TimerExpiredKeepsEvents, SocketEndKeepsEvents
     DEF Http!Next, Http!Handlers

\* Whatever events the reactor of proton_tornado.py has and in whatever order the
\* loop calls it: when the loop waits with no call queued, no event is left, the
\* socket is watched for what it wants, a task that is scheduled has its timeout and
\* the selectables that live are counted.
THEOREM NothingForgottenHolds == Spec => []NothingForgotten
<1>1. Init => WebInv
  BY WebStart DEF Init
<1>2. WebInv /\ [Next]_vars => WebInv'
  BY WebStep, Runs
<1>3. ASSUME WebInv PROVE NothingForgotten
  <2> SUFFICES ASSUME http_mode = "loop", http_callbacks = 0
               PROVE  /\ http_events = <<>>
                      /\ http_watched = IF http_up THEN Http!Wanted ELSE {}
                      /\ http_reconnecting => http_timeouts > 0
                      /\ http_count = (IF http_up THEN 1 ELSE 0) + (IF http_closed THEN 0 ELSE 1)
    BY DEF NothingForgotten, Http!NothingForgotten
  <2>1. http_events = <<>> /\ Elements(http_events) = {} /\ SocketInv /\ DeadlineInv /\ TallyInv
    BY <1>3, EmptyHasNone DEF WebInv, EventsInv, QueueInv
  <2>2. http_count \in Int /\ http_up \in BOOLEAN /\ http_closed \in BOOLEAN
    BY <1>3 DEF WebInv, WebTypeInv
  <2>3. http_count + 0 = 0 + (IF http_up THEN 1 ELSE 0) + (IF http_closed THEN 0 ELSE 1)
    <3>1. Inits(http_events) = 0 /\ Finals(http_events) = 0
      BY <2>1, TallyOne
    <3> QED BY <2>1, <2>2, <3>1 DEF TallyInv, Bit
  <2>4. http_watched = IF http_up THEN Http!Wanted ELSE {}
    BY <2>1 DEF SocketInv
  <2>5. http_reconnecting => http_timeouts > 0
    BY <2>1 DEF DeadlineInv
  <2> QED BY <2>1, <2>2, <2>3, <2>4, <2>5
<1> QED BY <1>1, <1>2, <1>3, PTL DEF Spec

-----------------------------------------------------------------------------
(* Requests of client_http.py, their answers and the order they are in. *)

Numbered(e) == e.type \in {"message", "request"}

\* The requests that the elements of s are, or answer.
Numbers(s) == {n \in Nat : \E e \in Elements(s) : Numbered(e) /\ e.request = n}

Below(A, B) == \A a \in A, b \in B : a < b

Before(d, e) == Numbered(d) /\ Numbered(e) => d.request < e.request

Rising(s) == \A j, k \in DOMAIN s : j < k => Before(s[j], s[k])

\* The same for a sequence of requests, which are their numbers.
Growing(s) == \A j, k \in DOMAIN s : j < k => s[j] < s[k]

\* Its elements have numbers where they are numbered.
NumberedIn(S) == \A e \in S : Numbered(e) => e.request \in Nat

LEMMA SetsNumbered == NumberedIn(WebEvents) /\ NumberedIn(WebIncoming) /\ NumberedIn(WebOut)
                      /\ NumberedIn(WebRequests)
<1>1. NumberedIn(WebOut) /\ NumberedIn(WebRequests)
  BY OutAre DEF NumberedIn, Numbered
<1>2. \A e \in WebEvents : Numbered(e) => e \in WebIncoming /\ e.request \in Nat
  BY EventsAre, IncomingAre DEF Numbered, WebEvents
<1> QED BY <1>1, <1>2, IncomingAre DEF NumberedIn

\* Two sequences of elements are one after the other.
LEMMA OrderJoined ==
  ASSUME NEW T, NumberedIn(T), NEW s \in Seq(T), NEW t \in Seq(T), Rising(s), Rising(t),
         Below(Numbers(s), Numbers(t))
  PROVE  /\ s \o t \in Seq(T) /\ Rising(s \o t)
         /\ Numbers(s \o t) = Numbers(s) \union Numbers(t)
<1>1. PICK r, n, m : r = s \o t /\ n = Len(s) /\ m = Len(t)
  OBVIOUS
<1>2. /\ r \in Seq(T) /\ Len(r) = n + m /\ n \in Nat /\ m \in Nat
      /\ \A k \in 1..n : r[k] = s[k]
      /\ \A k \in 1..m : r[n + k] = t[k]
      /\ Elements(r) = Elements(s) \union Elements(t)
  <2>1. n \in Nat /\ m \in Nat
    BY <1>1
  <2> QED BY <1>1, <2>1, Joined
<1>3. DOMAIN s = 1..n /\ DOMAIN t = 1..m /\ DOMAIN r = 1..(n + m)
  BY <1>1, <1>2
<1>4. \A k \in 1..(n + m) : \/ k \in 1..n /\ r[k] = s[k]
                            \/ k > n /\ k - n \in 1..m /\ r[k] = t[k - n]
  <2> TAKE k \in 1..(n + m)
  <2>1. CASE k <= n
    BY <1>2, <2>1
  <2>2. CASE ~(k <= n)
    <3>1. k - n \in 1..m /\ k = n + (k - n) /\ k > n
      BY <1>2, <2>2
    <3> QED BY <1>2, <3>1
  <2> QED BY <2>1, <2>2
<1>5. \A d \in Elements(s), e \in Elements(t) : Before(d, e)
  <2> SUFFICES ASSUME NEW d \in Elements(s), NEW e \in Elements(t), Numbered(d), Numbered(e)
               PROVE  d.request < e.request
    BY DEF Before
  <2>1. d \in T /\ e \in T
    BY DEF Elements
  <2>2. d.request \in Numbers(s) /\ e.request \in Numbers(t)
    BY <2>1 DEF NumberedIn, Numbers
  <2> QED BY <2>2 DEF Below
<1>6. ASSUME NEW j \in 1..(n + m), NEW k \in 1..(n + m), j < k
      PROVE  Before(r[j], r[k])
  <2>1. CASE j \in 1..n /\ r[j] = s[j] /\ k \in 1..n /\ r[k] = s[k]
    BY <1>3, <1>6, <2>1 DEF Rising
  <2>2. CASE /\ j \in 1..n /\ r[j] = s[j]
             /\ k > n /\ k - n \in 1..m /\ r[k] = t[k - n]
    BY <1>3, <1>5, <2>2 DEF Elements
  <2>3. CASE /\ j > n /\ j - n \in 1..m /\ r[j] = t[j - n]
             /\ k > n /\ k - n \in 1..m /\ r[k] = t[k - n]
    <3>1. j - n < k - n
      BY <1>2, <1>6
    <3> QED BY <1>3, <2>3, <3>1 DEF Rising
  <2>4. ~(j > n /\ k \in 1..n)
    BY <1>2, <1>6
  <2> QED BY <1>4, <2>1, <2>2, <2>3, <2>4
<1>7. Rising(r)
  BY <1>3, <1>6 DEF Rising
<1>8. Numbers(r) = Numbers(s) \union Numbers(t)
  BY <1>2 DEF Numbers
<1> QED BY <1>1, <1>2, <1>7, <1>8

LEMMA OrderTaken ==
  ASSUME NEW T, NumberedIn(T), NEW s \in Seq(T), s /= <<>>, Rising(s)
  PROVE  /\ Head(s) \in T /\ Tail(s) \in Seq(T) /\ Rising(Tail(s))
         /\ Elements(s) = {Head(s)} \union Elements(Tail(s))
         /\ ~Numbered(Head(s)) => Numbers(s) = Numbers(Tail(s))
         /\ Numbered(Head(s)) => /\ Numbers(s) = {Head(s).request} \union Numbers(Tail(s))
                                 /\ Head(s).request \in Nat
                                 /\ Below({Head(s).request}, Numbers(Tail(s)))
<1>1. /\ Head(s) = s[1] /\ 1 \in DOMAIN s /\ Head(s) \in T /\ Tail(s) \in Seq(T)
      /\ Elements(s) = {Head(s)} \union Elements(Tail(s))
      /\ \A k \in DOMAIN Tail(s) : /\ k \in Nat \ {0} /\ k + 1 \in DOMAIN s
                                   /\ Tail(s)[k] = s[k + 1]
  BY Shifted
<1>2. Rising(Tail(s))
  <2>1. \A j, k \in DOMAIN Tail(s) : j < k => j + 1 < k + 1
    BY <1>1
  <2> QED BY <1>1, <2>1 DEF Rising
<1>3. \A e \in Elements(Tail(s)) : Before(Head(s), e)
  <2>1. \A k \in DOMAIN Tail(s) : 1 < k + 1
    BY <1>1
  <2> QED BY <1>1, <2>1 DEF Rising, Elements
<1>4. Numbered(Head(s)) => Head(s).request \in Nat
  BY <1>1 DEF NumberedIn
<1>5. Numbered(Head(s)) => Below({Head(s).request}, Numbers(Tail(s)))
  BY <1>3 DEF Below, Numbers, Before
<1>6. /\ ~Numbered(Head(s)) => Numbers(s) = Numbers(Tail(s))
      /\ Numbered(Head(s)) => Numbers(s) = {Head(s).request} \union Numbers(Tail(s))
  BY <1>1, <1>4 DEF Numbers
<1> QED BY <1>1, <1>2, <1>4, <1>5, <1>6

LEMMA OrderFew ==
  /\ Numbers(<<>>) = {} /\ Rising(<<>>)
  /\ \A e : /\ Rising(<<e>>)
            /\ ~Numbered(e) => Numbers(<<e>>) = {}
            /\ Numbered(e) /\ e.request \in Nat => Numbers(<<e>>) = {e.request}
<1>1. Numbers(<<>>) = {} /\ Rising(<<>>)
  BY EmptyHasNone DEF Numbers, Rising
<1>2. ASSUME NEW e
      PROVE  /\ Rising(<<e>>)
             /\ ~Numbered(e) => Numbers(<<e>>) = {}
             /\ Numbered(e) /\ e.request \in Nat => Numbers(<<e>>) = {e.request}
  <2>1. Elements(<<e>>) = {e}
    BY PlacedFew
  <2>2. \A j, k \in DOMAIN <<e>> : ~(j < k)
    OBVIOUS
  <2> QED BY <2>1, <2>2 DEF Numbers, Rising
<1> QED BY <1>1, <1>2

\* Elements that are not numbered change nothing.
LEMMA OrderPlain ==
  ASSUME NEW T, NumberedIn(T), NEW s \in Seq(T), NEW t \in Seq(T), Rising(s),
         \A e \in Elements(t) : ~Numbered(e)
  PROVE  Rising(s \o t) /\ Numbers(s \o t) = Numbers(s)
<1>1. Numbers(t) = {}
  BY DEF Numbers
<1>2. Rising(t)
  <2>1. \A k \in DOMAIN t : ~Numbered(t[k])
    BY DEF Elements
  <2> QED BY <2>1 DEF Rising, Before
<1>3. Below(Numbers(s), Numbers(t))
  <2>1. \A d \in Numbers(s), e \in Numbers(t) : FALSE
    BY <1>1
  <2> QED BY <2>1 DEF Below
<1>4. /\ Rising(s \o t)
      /\ Numbers(s \o t) = Numbers(s) \union Numbers(t)
  BY <1>2, <1>3, OrderJoined
<1> QED BY <1>1, <1>4

LEMMA GrowingAdded ==
  ASSUME NEW s \in Seq(Nat), NEW n \in Nat, Growing(s), Below(Elements(s), {n})
  PROVE  /\ Append(s, n) \in Seq(Nat) /\ Growing(Append(s, n))
         /\ Elements(Append(s, n)) = Elements(s) \union {n}
<1>1. PICK r, l : r = Append(s, n) /\ l = Len(s)
  OBVIOUS
<1>2. /\ r \in Seq(Nat) /\ l \in Nat /\ Elements(r) = Elements(s) \union {n}
      /\ DOMAIN r = DOMAIN s \union {l + 1} /\ r[l + 1] = n
      /\ \A k \in DOMAIN s : k \in Nat /\ k < l + 1 /\ r[k] = s[k]
  BY <1>1, Extended
<1>3. \A k \in DOMAIN s : s[k] < n
  BY DEF Below, Elements
<1>4. Growing(r)
  <2> SUFFICES ASSUME NEW j \in DOMAIN r, NEW k \in DOMAIN r, j < k PROVE r[j] < r[k]
    BY DEF Growing
  <2>1. CASE j = l + 1
    <3>1. ~(j < k)
      BY <1>2, <2>1
    <3> QED BY <3>1
  <2>2. CASE j \in DOMAIN s /\ k = l + 1
    BY <1>2, <1>3, <2>2
  <2>3. CASE j \in DOMAIN s /\ k \in DOMAIN s
    BY <1>2, <2>3 DEF Growing
  <2> QED BY <1>2, <2>1, <2>2, <2>3
<1> QED BY <1>1, <1>2, <1>4

LEMMA GrowingTaken ==
  ASSUME NEW s \in Seq(Nat), s /= <<>>, Growing(s)
  PROVE  /\ Head(s) \in Nat /\ Tail(s) \in Seq(Nat) /\ Growing(Tail(s))
         /\ Elements(s) = {Head(s)} \union Elements(Tail(s))
         /\ Below({Head(s)}, Elements(Tail(s)))
<1>1. /\ Head(s) = s[1] /\ 1 \in DOMAIN s /\ Head(s) \in Nat /\ Tail(s) \in Seq(Nat)
      /\ Elements(s) = {Head(s)} \union Elements(Tail(s))
      /\ \A k \in DOMAIN Tail(s) : /\ k \in Nat \ {0} /\ k + 1 \in DOMAIN s
                                   /\ Tail(s)[k] = s[k + 1]
  BY Shifted
<1>2. Growing(Tail(s))
  <2>1. \A j, k \in DOMAIN Tail(s) : j < k => j + 1 < k + 1
    BY <1>1
  <2> QED BY <1>1, <2>1 DEF Growing
<1>3. \A e \in Elements(Tail(s)) : Head(s) < e
  <2>1. \A k \in DOMAIN Tail(s) : 1 < k + 1
    BY <1>1
  <2> QED BY <1>1, <2>1 DEF Growing, Elements
<1> QED BY <1>1, <1>2, <1>3 DEF Below

\* Of n requests, those that the client still handles are E, and in the order they
\* were made come after them I, that the socket has to read, Q at the node, O, that
\* the connection has to write, and P, that wait; S were sent.
Sequenced(E, I, Q, O, P, S, n) ==
  /\ Below(E, I \union Q \union O \union P) /\ Below(I, Q \union O \union P)
  /\ Below(Q, O \union P) /\ Below(O \union S, P)
  /\ E \union I \union Q \union O \union P \union S \subseteq 1..n

\* An answer that still may come is to a request that the client remembers, R of
\* them at the node; as long as no connection broke the client remembers no other,
\* and none that is older than an answer that it has read.
Live(E, I, R, O, S, open, c) ==
  /\ E \subseteq S
  /\ IF open THEN I \union R \union O \subseteq S ELSE I = {}
  /\ c = 1 => /\ open => S \subseteq E \union I \union R \union O
              /\ \A m \in E, s \in S : s <= m => s \in E

\* A web request waits.
LEMMA OrderPosted ==
  ASSUME NEW E, NEW I, NEW Q, NEW O, NEW P, NEW S, NEW n \in Nat, Sequenced(E, I, Q, O, P, S, n)
  PROVE  /\ Sequenced(E, I, Q, O, P \union {n + 1}, S, n + 1)
         /\ Below(P, {n + 1})
<1>1. \A k \in 1..n : k \in 1..(n + 1) /\ k < n + 1
  OBVIOUS
<1>2. n + 1 \in 1..(n + 1)
  OBVIOUS
<1> QED BY <1>1, <1>2 DEF Sequenced, Below

\* The requests D are sent.
LEMMA OrderSent ==
  ASSUME NEW E, NEW I, NEW Q, NEW O, NEW P, NEW S, NEW n, Sequenced(E, I, Q, O, P, S, n),
         NEW D, NEW V, P = D \union V, Below(D, V)
  PROVE  Sequenced(E, I, Q, O \union D, V, S \union D, n)
BY DEF Sequenced, Below

LEMMA LiveSent ==
  ASSUME NEW E, NEW I, NEW Q, NEW R, NEW O, NEW P, NEW S, NEW n \in Nat,
         NEW open, NEW c \in Nat, Sequenced(E, I, Q, O, P, S, n),
         Live(E, I, R, O, S, open, c), NEW D, D \subseteq P
  PROVE  Live(E, I, R, O \union D, S \union D, open, c)
<1>1. ASSUME NEW m \in E, NEW s \in D, s <= m PROVE FALSE
  <2>1. m < s /\ m \in 1..n /\ s \in 1..n
    BY DEF Sequenced, Below
  <2> QED BY <1>1, <2>1
<1> QED BY <1>1 DEF Live

\* The first answer is taken for that to the oldest request.
LEMMA OrderAnswered ==
  ASSUME NEW r, NEW B, NEW I, NEW Q, NEW R, NEW O, NEW P, NEW h, NEW A, NEW n,
         Sequenced({r} \union B, I, Q, O, P, {h} \union A, n), R \subseteq Q
  PROVE  Sequenced(B, I, Q, O, P, A, n) /\ Below({r}, I \union R \union O)
BY DEF Sequenced, Below

LEMMA AnswerTaken ==
  ASSUME NEW r, NEW B, NEW I, NEW R, NEW O, NEW h, NEW A, NEW open, NEW c,
         r \in Nat, h \in Nat, c \in Nat,
         Live({r} \union B, I, R, O, {h} \union A, open, c),
         Below({r}, B), Below({h}, A), Below({r}, I \union R \union O)
  PROVE  /\ h <= r /\ (c = 1 => h = r)
         /\ Live(B, I, R, O, A, open, c)
<1> DEFINE E == {r} \union B
           S == {h} \union A
<1>1. r \in S /\ h <= r
  <2>1. r \in S
    BY DEF Live
  <2> QED BY <2>1 DEF Below
<1>2. c = 1 => h = r
  <2> SUFFICES ASSUME c = 1 PROVE h = r
    OBVIOUS
  <2>1. h \in E
    BY <1>1 DEF Live
  <2>2. h = r \/ r < h
    BY <2>1 DEF Below
  <2> QED BY <1>1, <2>2
<1>3. ASSUME NEW x \in B \union I \union R \union O PROVE x /= h
  <2>1. r < x
    BY DEF Below
  <2> QED BY <1>1, <2>1
<1>4. B \subseteq A /\ IF open THEN I \union R \union O \subseteq A ELSE I = {}
  BY <1>3 DEF Live
<1>5. ASSUME c = 1 PROVE /\ open => A \subseteq B \union I \union R \union O
                         /\ \A m \in B, s \in A : s <= m => s \in B
  <2>1. h = r /\ h \notin A
    BY <1>2, <1>5 DEF Below
  <2> QED BY <1>5, <2>1 DEF Live
<1> QED BY <1>1, <1>2, <1>4, <1>5 DEF Live

\* The socket is read.
LEMMA AnswersRead ==
  ASSUME NEW E, NEW I, NEW Q, NEW R, NEW O, NEW P, NEW S, NEW n \in Nat,
         NEW c \in Nat, R \subseteq Q,
         Sequenced(E, I, Q, O, P, S, n), Live(E, I, R, O, S, TRUE, c)
  PROVE  /\ Below(E, I) /\ Sequenced(E \union I, {}, Q, O, P, S, n)
         /\ Live(E \union I, {}, R, O, S, TRUE, c)
<1>1. Below(E, I) /\ Sequenced(E \union I, {}, Q, O, P, S, n)
  BY DEF Sequenced, Below
<1>2. ASSUME NEW m \in E \union I, NEW s \in R \union O, s <= m PROVE FALSE
  <2>1. m < s /\ m \in 1..n /\ s \in 1..n
    BY DEF Sequenced, Below
  <2> QED BY <1>2, <2>1
<1>3. c = 1 => \A m \in E \union I, s \in S : s <= m => s \in E \union I
  BY <1>2 DEF Live
<1> QED BY <1>1, <1>3 DEF Live

\* The socket is written: of O, the requests N come from this connection.
LEMMA RequestsWritten ==
  ASSUME NEW E, NEW I, NEW Q, NEW R, NEW O, NEW P, NEW S, NEW n, NEW c \in Nat,
         Sequenced(E, I, Q, O, P, S, n), Live(E, I, R, O, S, TRUE, c),
         NEW N, N \subseteq O, c = 1 => N = O
  PROVE  /\ Below(Q, O) /\ Sequenced(E, I, Q \union O, {}, P, S, n)
         /\ Live(E, I, R \union N, {}, S, TRUE, c)
BY DEF Sequenced, Below, Live

\* The server answers the oldest request at the node.
LEMMA RequestServed ==
  ASSUME NEW E, NEW I, NEW Q, NEW O, NEW P, NEW S, NEW n,
         NEW r, NEW U, Q = {r} \union U, Below({r}, U),
         Sequenced(E, I, Q, O, P, S, n)
  PROVE  /\ Sequenced(E, I, U, O, P, S, n)
         /\ Below(I, {r}) /\ Sequenced(E, I \union {r}, U, O, P, S, n)
BY DEF Sequenced, Below

\* What is not read, or not written, goes with its connection.
LEMMA OrderLost ==
  ASSUME NEW E, NEW I, NEW Q, NEW O, NEW P, NEW S, NEW n, Sequenced(E, I, Q, O, P, S, n)
  PROVE  Sequenced(E, {}, Q, O, P, S, n) /\ Sequenced(E, I, Q, {}, P, S, n)
BY DEF Sequenced, Below

LEMMA LiveLost ==
  ASSUME NEW E, NEW I, NEW R, NEW O, NEW S, NEW open, NEW c \in Nat,
         Live(E, I, R, O, S, open, c)
  PROVE  /\ Live(E, {}, R, O, S, FALSE, c)
         /\ ~open => I = {} /\ \A d : d /= 1 => Live(E, I, {}, {}, S, TRUE, d)
         /\ ~open => \A A, B : Live(E, I, A, B, S, FALSE, c)
BY DEF Live

-----------------------------------------------------------------------------

\* Requests at the node that came from the connection c.
Own(q, c) == {n \in Nat : \E e \in Elements(q) : e.to = c /\ Numbered(e) /\ e.request = n}

LineInv ==
  /\ Sequenced(Numbers(http_events), Numbers(http_incoming), Numbers(http_queue),
               Numbers(http_out), Elements(http_pending), Elements(http_sent), http_posts)
  /\ Rising(http_events) /\ Rising(http_incoming) /\ Rising(http_queue) /\ Rising(http_out)
  /\ Growing(http_pending) /\ Growing(http_sent)

LiveInv ==
  Live(Numbers(http_events), Numbers(http_incoming), Own(http_queue, http_connection),
       Numbers(http_out), Elements(http_sent), http_up, http_connection)

\* The addresses of s are those of connections until c.
Addressed(s, c) ==
  \A e \in Elements(s) : /\ e.type = "opened" => e.address \in 1..c
                         /\ e.type = "request" => e.to \in 1..c

AddressInv ==
  /\ http_replyAddress \in 0..http_connection
  /\ Addressed(http_events, http_connection) /\ Addressed(http_incoming, http_connection)
  /\ Addressed(http_queue, http_connection) /\ Addressed(http_out, http_connection)

ShownInv == http_shown \in Seq(Nat \X Nat) /\ AnswersMatch

AnswerInv == LineInv /\ LiveInv /\ AddressInv /\ ShownInv

LEMMA AddressedJoined ==
  ASSUME NEW T, NEW s \in Seq(T), NEW t \in Seq(T), NEW c, Addressed(s, c), Addressed(t, c)
  PROVE  Addressed(s \o t, c)
<1>1. Elements(s \o t) = Elements(s) \union Elements(t)
  BY Joined
<1> QED BY <1>1 DEF Addressed

LEMMA AddressedFew ==
  ASSUME NEW c
  PROVE  /\ Addressed(<<>>, c)
         /\ \A e : (e.type = "opened" => e.address \in 1..c) /\ (e.type = "request" => e.to \in 1..c)
                     => Addressed(<<e>>, c)
         /\ \A b : Addressed(Http!Changed(b), c)
<1>1. Addressed(<<>>, c)
  BY EmptyHasNone DEF Addressed
<1>2. ASSUME NEW e, e.type = "opened" => e.address \in 1..c, e.type = "request" => e.to \in 1..c
      PROVE  Addressed(<<e>>, c)
  BY <1>2, PlacedFew DEF Addressed
<1>3. ASSUME NEW b PROVE Addressed(Http!Changed(b), c)
  BY ChangedIs, EventsAre DEF Addressed
<1> QED BY <1>1, <1>2, <1>3

\* do_request sends the first request that waits: the order is kept.
LEMMA DoRequestKeeps ==
  ASSUME NEW w \in Seq(Nat), NEW a \in Seq(Nat), NEW ad \in Nat, NEW c, WebTypeInv,
         Http!DoRequest(w, a, ad, c), Growing(w), Growing(a), Rising(http_out),
         Below(Elements(a), Elements(w)), Below(Numbers(http_out), Elements(w)),
         ad \in 0..http_connection, Addressed(http_out, http_connection)
  PROVE  /\ Growing(http_pending') /\ Growing(http_sent') /\ Rising(http_out')
         /\ Addressed(http_out', http_connection)
         /\ \E D : /\ Elements(w) = D \union Elements(http_pending')
                   /\ Below(D, Elements(http_pending'))
                   /\ Numbers(http_out') = Numbers(http_out) \union D
                   /\ Elements(http_sent') = Elements(a) \union D
<1>1. http_out \in Seq(WebOut) /\ AttachFirst(http_out)
      /\ http_connection \in Nat
  BY DEF WebTypeInv
<1>2. \/ http_pending' = w /\ http_sent' = a /\ http_out' = http_out
      \/ /\ w /= <<>> /\ ad /= 0
         /\ http_pending' = Tail(w) /\ http_sent' = Append(a, Head(w))
         /\ Http!Request(Head(w), ad) \in WebRequests
         /\ http_out' = Append(http_out, Http!Request(Head(w), ad))
  BY <1>1, DoRequestIs
<1>3. CASE http_pending' = w /\ http_sent' = a /\ http_out' = http_out
  <2>1. /\ Elements(w) = {} \union Elements(http_pending')
        /\ Below({}, Elements(http_pending'))
        /\ Numbers(http_out') = Numbers(http_out) \union {}
        /\ Elements(http_sent') = Elements(a) \union {}
    BY <1>3 DEF Below
  <2> QED BY <1>3, <2>1
<1>4. CASE /\ w /= <<>> /\ ad /= 0
           /\ http_pending' = Tail(w) /\ http_sent' = Append(a, Head(w))
           /\ Http!Request(Head(w), ad) \in WebRequests
           /\ http_out' = Append(http_out, Http!Request(Head(w), ad))
  <2>1. PICK h, e, t : h = Head(w) /\ e = Http!Request(Head(w), ad) /\ t = Tail(w)
    OBVIOUS
  <2>2. /\ h \in Nat /\ t \in Seq(Nat) /\ Growing(t)
        /\ Elements(w) = {h} \union Elements(t) /\ Below({h}, Elements(t))
    BY <1>4, <2>1, GrowingTaken
  <2>3. e \in WebOut /\ e.type = "request" /\ e.request = h /\ e.to = ad /\ Numbered(e)
    BY <2>1, <2>2, OutAre DEF Numbered
  <2>4. Below(Elements(a), {h})
    BY <2>2 DEF Below
  <2>5. Growing(http_sent') /\ Elements(http_sent') = Elements(a) \union {h}
    BY <1>4, <2>1, <2>2, <2>4, GrowingAdded
  <2>6. http_out' = http_out \o <<e>> /\ <<e>> \in Seq(WebOut)
    BY <1>1, <1>4, <2>1, <2>3, AppendIsConcat
  <2>7. Numbers(<<e>>) = {h} /\ Rising(<<e>>)
    BY <2>2, <2>3, OrderFew
  <2>8. Below(Numbers(http_out), Numbers(<<e>>))
    BY <2>2, <2>7 DEF Below
  <2>9. Rising(http_out') /\ Numbers(http_out') = Numbers(http_out) \union {h}
    <3>1. /\ Rising(http_out \o <<e>>)
          /\ Numbers(http_out \o <<e>>) = Numbers(http_out) \union Numbers(<<e>>)
      BY <1>1, <2>6, <2>7, <2>8, OrderJoined, SetsNumbered
    <3> QED BY <2>6, <2>7, <3>1
  <2>10. Addressed(http_out', http_connection)
    <3>1. ad \in 1..http_connection
      BY <1>1, <1>4
    <3>2. Addressed(<<e>>, http_connection)
      BY <2>3, <3>1, AddressedFew
    <3> QED BY <1>1, <2>6, <3>2, AddressedJoined
  <2>11. http_pending' = t
    BY <1>4, <2>1
  <2> QED BY <2>2, <2>5, <2>9, <2>10, <2>11
<1> QED BY <1>2, <1>3, <1>4

\* Events that are handled and added without an answer among them.
LEMMA EventsKept ==
  ASSUME http_events \in Seq(WebEvents), NEW c, Addressed(http_events, c), Rising(http_events),
         NEW new \in Seq(WebEvents), Addressed(new, c), \A e \in Elements(new) : ~Numbered(e),
         \/ http_events' = http_events \o new
         \/ /\ http_events /= <<>> /\ http_events' = Tail(http_events) \o new
            /\ Head(http_events).type /= "message"
  PROVE  /\ Rising(http_events') /\ Numbers(http_events') = Numbers(http_events)
         /\ Addressed(http_events', c)
<1>1. PICK b : /\ b \in Seq(WebEvents) /\ http_events' = b \o new
               /\ Rising(b) /\ Numbers(b) = Numbers(http_events) /\ Addressed(b, c)
  <2>1. CASE http_events' = http_events \o new
    BY <2>1
  <2>2. CASE /\ http_events /= <<>> /\ http_events' = Tail(http_events) \o new
             /\ Head(http_events).type /= "message"
    <3>1. /\ Tail(http_events) \in Seq(WebEvents) /\ Rising(Tail(http_events))
          /\ Head(http_events) \in WebEvents
          /\ Elements(http_events) = {Head(http_events)} \union Elements(Tail(http_events))
          /\ ~Numbered(Head(http_events)) => Numbers(http_events) = Numbers(Tail(http_events))
      BY <2>2, SetsNumbered, OrderTaken
    <3>2. ~Numbered(Head(http_events))
      BY <2>2, <3>1, EventsAre, IncomingAre DEF WebEvents, Numbered
    <3>3. Addressed(Tail(http_events), c)
      BY <3>1 DEF Addressed
    <3> QED BY <2>2, <3>1, <3>2, <3>3
  <2> QED BY <2>1, <2>2
<1>2. Rising(b \o new) /\ Numbers(b \o new) = Numbers(b)
  BY <1>1, SetsNumbered, OrderPlain
<1>3. Addressed(b \o new, c)
  BY <1>1, AddressedJoined
<1> QED BY <1>1, <1>2, <1>3

LEMMA OwnJoined ==
  ASSUME NEW q \in Seq(WebRequests), NEW t \in Seq(WebRequests), NEW c
  PROVE  Own(q \o t, c) = Own(q, c) \union Own(t, c)
<1>1. Elements(q \o t) = Elements(q) \union Elements(t)
  BY Joined
<1> QED BY <1>1 DEF Own

LEMMA OwnTaken ==
  ASSUME NEW q \in Seq(WebRequests), q /= <<>>, NEW c
  PROVE  Own(q, c) = Own(Tail(q), c) \union
                       (IF Head(q).to = c THEN {Head(q).request} ELSE {})
<1>1. Head(q) \in WebRequests /\ Elements(q) = {Head(q)} \union Elements(Tail(q))
  BY HeadTaken
<1>2. Numbered(Head(q)) /\ Head(q).request \in Nat
  BY <1>1, OutAre DEF Numbered
<1> QED BY <1>1, <1>2 DEF Own

LEMMA OwnIs ==
  ASSUME NEW q \in Seq(WebRequests), NEW c \in Nat, Addressed(q, c)
  PROVE  /\ \A d : Own(q, d) \subseteq Numbers(q)
         /\ c = 1 => Own(q, c) = Numbers(q)
         /\ Own(q, c + 1) = {}
<1>1. \A e \in Elements(q) : e.to \in 1..c
  <2>1. \A e \in Elements(q) : e \in WebRequests
    BY DEF Elements
  <2> QED BY <2>1, OutAre DEF Addressed
<1>2. c = 1 => \A e \in Elements(q) : e.to = 1
  BY <1>1
<1>3. \A e \in Elements(q) : e.to /= c + 1
  BY <1>1
<1> QED BY <1>2, <1>3 DEF Own, Numbers

LEMMA ShownKept ==
  ASSUME ShownInv, http_shown' = http_shown,
         http_connection' = http_connection \/ http_connection' /= 1
  PROVE  ShownInv'
BY DEF ShownInv, AnswersMatch, Http!AnswersMatch

\* What do_request does to the requests, when answers have been taken and
\* web requests have come.
LEMMA AskedKeeps ==
  ASSUME WebTypeInv, AddressInv, Rising(http_incoming), Rising(http_queue), Rising(http_out),
         NEW w \in Seq(Nat), NEW a \in Seq(Nat), NEW ad \in 0..http_connection, NEW c,
         NEW n \in Nat, NEW B,
         Http!DoRequest(w, a, ad, c), Growing(w), Growing(a),
         Sequenced(B, Numbers(http_incoming), Numbers(http_queue), Numbers(http_out),
               Elements(w), Elements(a), n),
         Live(B, Numbers(http_incoming), Own(http_queue, http_connection), Numbers(http_out),
              Elements(a), http_up, http_connection),
         Rising(http_events'), Numbers(http_events') = B,
         Addressed(http_events', http_connection),
         http_posts' = n, http_replyAddress' \in 0..http_connection,
         UNCHANGED <<http_incoming, http_queue, http_connection, http_up>>
  PROVE  LineInv' /\ LiveInv' /\ AddressInv'
<1>1. /\ http_connection \in Nat /\ http_up \in BOOLEAN
      /\ ad \in Nat
  BY DEF WebTypeInv
<1>2. Below(Elements(a), Elements(w)) /\ Below(Numbers(http_out), Elements(w))
  BY DEF Sequenced, Below
<1>3. Addressed(http_out, http_connection)
  BY DEF AddressInv
<1>4. /\ Growing(http_pending') /\ Growing(http_sent') /\ Rising(http_out')
      /\ Addressed(http_out', http_connection)
  BY <1>1, <1>2, <1>3, DoRequestKeeps
<1>5. PICK D : /\ Elements(w) = D \union Elements(http_pending')
               /\ Below(D, Elements(http_pending'))
               /\ Numbers(http_out') = Numbers(http_out) \union D
               /\ Elements(http_sent') = Elements(a) \union D
  BY <1>1, <1>2, <1>3, DoRequestKeeps
<1>6. Sequenced(B, Numbers(http_incoming), Numbers(http_queue), Numbers(http_out'),
            Elements(http_pending'), Elements(http_sent'), n)
  <2>1. Sequenced(B, Numbers(http_incoming), Numbers(http_queue), Numbers(http_out) \union D,
              Elements(http_pending'), Elements(a) \union D, n)
    BY <1>5, OrderSent
  <2> QED BY <1>5, <2>1
<1>7. Live(B, Numbers(http_incoming), Own(http_queue, http_connection), Numbers(http_out'),
           Elements(http_sent'), http_up, http_connection)
  <2>1. D \subseteq Elements(w)
    BY <1>5
  <2>2. Live(B, Numbers(http_incoming), Own(http_queue, http_connection),
             Numbers(http_out) \union D, Elements(a) \union D, http_up, http_connection)
    BY <1>1, <2>1, LiveSent
  <2> QED BY <1>5, <2>2
<1>8. LineInv'
  BY <1>4, <1>6 DEF LineInv
<1>9. LiveInv'
  BY <1>7 DEF LiveInv
<1>10. AddressInv'
  BY <1>4 DEF AddressInv
<1> QED BY <1>8, <1>9, <1>10

LEMMA AskingKeepsAnswers ==
  ASSUME WebTypeInv, AnswerInv, Http!Post \/ Http!OnLinkOpened \/ Http!OnSendable
  PROVE  AnswerInv'
<1>1. /\ http_events \in Seq(WebEvents) /\ http_pending \in Seq(Nat) /\ http_sent \in Seq(Nat)
      /\ http_posts \in Nat /\ http_connection \in Nat
  BY DEF WebTypeInv
<1>2. /\ Rising(http_events) /\ Rising(http_incoming) /\ Rising(http_queue) /\ Rising(http_out)
      /\ Growing(http_pending) /\ Growing(http_sent)
      /\ Addressed(http_events, http_connection) /\ http_replyAddress \in 0..http_connection
      /\ AddressInv /\ ShownInv
      /\ Sequenced(Numbers(http_events), Numbers(http_incoming), Numbers(http_queue),
               Numbers(http_out), Elements(http_pending), Elements(http_sent), http_posts)
      /\ Live(Numbers(http_events), Numbers(http_incoming), Own(http_queue, http_connection),
              Numbers(http_out), Elements(http_sent), http_up, http_connection)
  BY DEF AnswerInv, LineInv, LiveInv, AddressInv
<1>3. ASSUME NEW b,
             \/ http_events' = http_events \o Http!Changed(b)
             \/ /\ http_events /= <<>> /\ http_events' = Tail(http_events) \o Http!Changed(b)
                /\ Head(http_events).type /= "message"
      PROVE  /\ Rising(http_events') /\ Numbers(http_events') = Numbers(http_events)
             /\ Addressed(http_events', http_connection)
  <2>1. /\ Http!Changed(b) \in Seq(WebEvents) /\ Addressed(Http!Changed(b), http_connection)
        /\ \A e \in Elements(Http!Changed(b)) : ~Numbered(e)
    BY ChangedIs, AddressedFew, EventsAre DEF Numbered
  <2> QED BY <1>1, <1>2, <1>3, <2>1, EventsKept
<1>4. CASE Http!Post
  <2>1. PICK w, n : w = Append(http_pending, n) /\ n = http_posts + 1
    OBVIOUS
  <2>2. /\ Http!DoRequest(w, http_sent, http_replyAddress, http_credit)
        /\ Http!Process(Http!Changed(Http!Sends(w, http_replyAddress, http_credit)))
        /\ http_posts' = n /\ n \in Nat
        /\ UNCHANGED <<http_replyAddress, http_shown, http_incoming, http_queue,
                       http_connection, http_up>>
    BY <1>1, <1>4, <2>1 DEF Http!Post, Http!Touch, Http!linkVars, Http!nodeVars
  <2>3. /\ Sequenced(Numbers(http_events), Numbers(http_incoming), Numbers(http_queue),
                 Numbers(http_out), Elements(http_pending) \union {n},
                 Elements(http_sent), n)
        /\ Below(Elements(http_pending), {n})
    BY <1>1, <1>2, <2>1, OrderPosted
  <2>4. /\ w \in Seq(Nat) /\ Growing(w)
        /\ Elements(w) = Elements(http_pending) \union {n}
    BY <1>1, <1>2, <2>1, <2>2, <2>3, GrowingAdded
  <2>5. /\ Rising(http_events') /\ Numbers(http_events') = Numbers(http_events)
        /\ Addressed(http_events', http_connection)
    BY <1>3, <2>2 DEF Http!Process
  <2>6. LineInv' /\ LiveInv' /\ AddressInv'
    <3>1. Sequenced(Numbers(http_events), Numbers(http_incoming), Numbers(http_queue),
                Numbers(http_out), Elements(w), Elements(http_sent), n)
      BY <2>3, <2>4
    <3> QED BY <1>1, <1>2, <2>2, <2>4, <2>5, <3>1, AskedKeeps
  <2> QED BY <1>2, <2>2, <2>6, ShownKept DEF AnswerInv
<1>5. ASSUME NEW t \in {"opened", "flow"}, NEW b, NEW ad \in 0..http_connection, NEW c,
             Http!Handle(t, Http!Changed(b)),
             Http!DoRequest(http_pending, http_sent, ad, c),
             http_replyAddress' \in 0..http_connection,
             UNCHANGED <<http_posts, http_shown, http_incoming, http_queue, http_connection,
                         http_up>>
      PROVE  AnswerInv'
  <2>1. /\ Rising(http_events') /\ Numbers(http_events') = Numbers(http_events)
        /\ Addressed(http_events', http_connection)
    BY <1>3, <1>5 DEF Http!Handle
  <2>2. LineInv' /\ LiveInv' /\ AddressInv'
    BY <1>1, <1>2, <1>5, <2>1, AskedKeeps
  <2> QED BY <1>2, <1>5, <2>2, ShownKept DEF AnswerInv
<1>6. CASE Http!OnLinkOpened
  <2>1. PICK ad, b : ad = Head(http_events).address
                     /\ b = Http!Sends(http_pending, Head(http_events).address, http_credit)
    OBVIOUS
  <2>2. /\ Http!Handle("opened", Http!Changed(b)) /\ http_replyAddress' = ad
        /\ Http!DoRequest(http_pending, http_sent, ad, http_credit)
        /\ UNCHANGED <<http_posts, http_shown, http_incoming, http_queue, http_connection,
                       http_up>>
    BY <1>6, <2>1 DEF Http!OnLinkOpened, Http!InProcess, Http!webVars, Http!linkVars, Http!nodeVars
  <2>3. ad \in 0..http_connection
    <3>1. http_events /= <<>> /\ Head(http_events).type = "opened"
      BY <2>2 DEF Http!Handle
    <3>2. Head(http_events) \in Elements(http_events)
      BY <1>1, <3>1, HeadTaken
    <3>3. ad \in 1..http_connection
      BY <1>2, <2>1, <3>1, <3>2 DEF Addressed
    <3> QED BY <1>1, <3>3
  <2> QED BY <1>5, <2>2, <2>3
<1>7. CASE Http!OnSendable
  <2>1. PICK c, b : c = http_credit + 1
                    /\ b = Http!Sends(http_pending, http_replyAddress, http_credit + 1)
    OBVIOUS
  <2>2. /\ Http!Handle("flow", Http!Changed(b))
        /\ Http!DoRequest(http_pending, http_sent, http_replyAddress, c)
        /\ UNCHANGED <<http_replyAddress, http_posts, http_shown, http_incoming, http_queue,
                       http_connection, http_up>>
    BY <1>7, <2>1 DEF Http!OnSendable, Http!InProcess, Http!webVars, Http!linkVars, Http!nodeVars
  <2> QED BY <1>2, <1>5, <2>2
<1> QED BY <1>4, <1>6, <1>7

\* The answer that is taken is to a request that was made no later, and while no
\* connection broke it is to that request.
LEMMA AnswerKeepsAnswers ==
  ASSUME WebTypeInv, AnswerInv, Http!OnMessage
  PROVE  AnswerInv'
<1>1. /\ http_events \in Seq(WebEvents) /\ http_pending \in Seq(Nat) /\ http_sent \in Seq(Nat)
      /\ http_queue \in Seq(WebRequests) /\ http_up \in BOOLEAN
      /\ http_posts \in Nat /\ http_connection \in Nat
  BY DEF WebTypeInv
<1>2. /\ Rising(http_events) /\ Rising(http_incoming) /\ Rising(http_queue) /\ Rising(http_out)
      /\ Growing(http_pending) /\ Growing(http_sent)
      /\ Addressed(http_events, http_connection) /\ http_replyAddress \in 0..http_connection
      /\ Addressed(http_queue, http_connection)
      /\ AddressInv /\ ShownInv
      /\ Sequenced(Numbers(http_events), Numbers(http_incoming), Numbers(http_queue),
               Numbers(http_out), Elements(http_pending), Elements(http_sent), http_posts)
      /\ Live(Numbers(http_events), Numbers(http_incoming), Own(http_queue, http_connection),
              Numbers(http_out), Elements(http_sent), http_up, http_connection)
  BY DEF AnswerInv, LineInv, LiveInv, AddressInv
<1>3. PICK b, e, t, r : /\ b = (http_sent /= <<>> /\ Http!Sends(http_pending, http_replyAddress,
                                                                http_credit))
                        /\ e = Head(http_events) /\ t = Tail(http_events) /\ r = e.request
  OBVIOUS
<1>4. /\ http_events /= <<>> /\ e.type = "message" /\ http_events' = t \o Http!Changed(b)
      /\ UNCHANGED <<http_replyAddress, http_posts, http_incoming, http_queue, http_connection,
                     http_up>>
  BY <1>3 DEF Http!OnMessage, Http!Handle, Http!InProcess, Http!linkVars, Http!nodeVars
<1>5. /\ t \in Seq(WebEvents) /\ Rising(t) /\ r \in Nat
      /\ Numbers(http_events) = {r} \union Numbers(t) /\ Below({r}, Numbers(t))
      /\ Elements(http_events) = {e} \union Elements(t)
  <2>1. Numbered(e)
    BY <1>4 DEF Numbered
  <2> QED BY <1>1, <1>2, <1>3, <1>4, <2>1, SetsNumbered, OrderTaken
<1>6. /\ Rising(http_events') /\ Numbers(http_events') = Numbers(t)
      /\ Addressed(http_events', http_connection)
  <2>1. /\ Http!Changed(b) \in Seq(WebEvents) /\ Addressed(Http!Changed(b), http_connection)
        /\ \A f \in Elements(Http!Changed(b)) : ~Numbered(f)
    BY ChangedIs, AddressedFew, EventsAre DEF Numbered
  <2>2. Addressed(t, http_connection)
    BY <1>2, <1>5 DEF Addressed
  <2>3. Rising(t \o Http!Changed(b)) /\ Numbers(t \o Http!Changed(b)) = Numbers(t)
    BY <1>5, <2>1, SetsNumbered, OrderPlain
  <2>4. Addressed(t \o Http!Changed(b), http_connection)
    BY <1>5, <2>1, <2>2, AddressedJoined
  <2> QED BY <1>4, <2>3, <2>4
<1>7. http_sent /= <<>>
  <2>1. r \in Elements(http_sent)
    BY <1>2, <1>5 DEF Live
  <2> QED BY <2>1, EmptyHasNone
<1>8. PICK h, a : h = Head(http_sent) /\ a = Tail(http_sent)
  OBVIOUS
<1>9. /\ h \in Nat /\ a \in Seq(Nat) /\ Growing(a)
      /\ Elements(http_sent) = {h} \union Elements(a) /\ Below({h}, Elements(a))
  BY <1>1, <1>2, <1>7, <1>8, GrowingTaken
<1>10. Own(http_queue, http_connection) \subseteq Numbers(http_queue)
  BY <1>1, <1>2, OwnIs
<1>11. /\ h <= r /\ (http_connection = 1 => h = r)
       /\ Sequenced(Numbers(t), Numbers(http_incoming), Numbers(http_queue), Numbers(http_out),
                Elements(http_pending), Elements(a), http_posts)
       /\ Live(Numbers(t), Numbers(http_incoming), Own(http_queue, http_connection),
               Numbers(http_out), Elements(a), http_up, http_connection)
  <2>1. PICK I, Q, R, O, P, B, A :
          /\ B = Numbers(t) /\ I = Numbers(http_incoming)
          /\ Q = Numbers(http_queue) /\ R = Own(http_queue, http_connection)
          /\ O = Numbers(http_out) /\ P = Elements(http_pending) /\ A = Elements(a)
    OBVIOUS
  <2>2. /\ Below({r}, B) /\ Below({h}, A) /\ R \subseteq Q
        /\ Sequenced({r} \union B, I, Q, O, P, {h} \union A, http_posts)
        /\ Live({r} \union B, I, R, O, {h} \union A, http_up, http_connection)
    BY <1>2, <1>5, <1>9, <1>10, <2>1
  <2>3. Sequenced(B, I, Q, O, P, A, http_posts) /\ Below({r}, I \union R \union O)
    BY <2>2, OrderAnswered
  <2>4. /\ h <= r /\ (http_connection = 1 => h = r)
        /\ Live(B, I, R, O, A, http_up, http_connection)
    BY <1>1, <1>5, <1>9, <2>2, <2>3, AnswerTaken
  <2> QED BY <2>1, <2>3, <2>4
<1>12. /\ http_shown' = Append(http_shown, <<h, r>>)
       /\ Http!DoRequest(http_pending, a, http_replyAddress, http_credit)
  BY <1>3, <1>7, <1>8 DEF Http!OnMessage
<1>13. LineInv' /\ LiveInv' /\ AddressInv'
  BY <1>1, <1>2, <1>4, <1>6, <1>9, <1>11, <1>12, AskedKeeps
<1>14. ShownInv'
  <2>1. <<h, r>> \in Nat \X Nat /\ http_shown \in Seq(Nat \X Nat)
    BY <1>2, <1>5, <1>9 DEF ShownInv
  <2>2. /\ http_shown' \in Seq(Nat \X Nat)
        /\ DOMAIN http_shown' = DOMAIN http_shown \union {Len(http_shown) + 1}
        /\ http_shown'[Len(http_shown) + 1] = <<h, r>>
        /\ \A k \in DOMAIN http_shown : http_shown'[k] = http_shown[k]
    BY <1>12, <2>1, Extended
  <2>3. ASSUME NEW k \in DOMAIN http_shown'
        PROVE  /\ http_shown'[k][1] <= http_shown'[k][2]
               /\ http_connection' = 1 => http_shown'[k][1] = http_shown'[k][2]
    <3>1. CASE k \in DOMAIN http_shown
      BY <1>2, <1>4, <2>2, <3>1 DEF ShownInv, AnswersMatch, Http!AnswersMatch
    <3>2. CASE k = Len(http_shown) + 1
      BY <1>4, <1>11, <2>2, <3>2
    <3> QED BY <2>2, <3>1, <3>2
  <2> QED BY <2>2, <2>3 DEF ShownInv, AnswersMatch, Http!AnswersMatch
<1> QED BY <1>13, <1>14 DEF AnswerInv

\* Nothing is sent and nothing answered; the new order is known.
LEMMA OrderKept ==
  ASSUME WebTypeInv, AnswerInv,
         Rising(http_events'), Rising(http_incoming'), Rising(http_queue'), Rising(http_out'),
         Sequenced(Numbers(http_events'), Numbers(http_incoming'), Numbers(http_queue'),
               Numbers(http_out'), Elements(http_pending), Elements(http_sent), http_posts),
         Live(Numbers(http_events'), Numbers(http_incoming'),
              Own(http_queue', http_connection'), Numbers(http_out'), Elements(http_sent),
              http_up', http_connection'),
         Addressed(http_events', http_connection'), Addressed(http_incoming', http_connection'),
         Addressed(http_queue', http_connection'), Addressed(http_out', http_connection'),
         http_connection' \in {http_connection, http_connection + 1},
         UNCHANGED <<http_pending, http_sent, http_posts, http_shown, http_replyAddress>>
  PROVE  AnswerInv'
<1>1. http_connection \in Nat \ {0}
  BY DEF WebTypeInv
<1>2. LineInv'
  BY DEF AnswerInv, LineInv
<1>3. LiveInv'
  BY DEF LiveInv
<1>4. AddressInv'
  <2>1. http_replyAddress' \in 0..http_connection'
    BY <1>1 DEF AnswerInv, AddressInv
  <2> QED BY <2>1 DEF AddressInv
<1>5. ShownInv'
  <2>1. http_connection' = http_connection \/ http_connection' /= 1
    BY <1>1
  <2> QED BY <2>1, ShownKept DEF AnswerInv
<1> QED BY <1>2, <1>3, <1>4, <1>5 DEF AnswerInv

LEMMA AnswerInvIs ==
  ASSUME WebTypeInv, AnswerInv
  PROVE  /\ http_events \in Seq(WebEvents) /\ http_incoming \in Seq(WebIncoming)
         /\ http_queue \in Seq(WebRequests) /\ http_out \in Seq(WebOut) /\ AttachFirst(http_out)
         /\ http_connection \in Nat \ {0} /\ http_posts \in Nat /\ http_up \in BOOLEAN
         /\ Rising(http_events) /\ Rising(http_incoming) /\ Rising(http_queue) /\ Rising(http_out)
         /\ Addressed(http_events, http_connection) /\ Addressed(http_incoming, http_connection)
         /\ Addressed(http_queue, http_connection) /\ Addressed(http_out, http_connection)
         /\ Sequenced(Numbers(http_events), Numbers(http_incoming), Numbers(http_queue),
                  Numbers(http_out), Elements(http_pending), Elements(http_sent), http_posts)
         /\ Live(Numbers(http_events), Numbers(http_incoming), Own(http_queue, http_connection),
                 Numbers(http_out), Elements(http_sent), http_up, http_connection)
BY DEF WebTypeInv, AnswerInv, LineInv, LiveInv, AddressInv

\* The reactor handles its own events.
LEMMA ReactorKeepsAnswers ==
  ASSUME WebTypeInv, AnswerInv,
         Http!Selectables \/ Http!TimerExpired \/ Http!LoopRuns \/ UNCHANGED Http!vars
  PROVE  AnswerInv'
<1>1. UNCHANGED <<http_incoming, http_queue, http_out, http_pending, http_sent, http_posts,
                  http_shown, http_replyAddress, http_connection, http_up>>
  BY DEF Http!Selectables, Http!TimerExpired, Http!LoopRuns, Http!vars, Http!clientVars,
     Http!webVars, Http!linkVars, Http!nodeVars
<1>2. /\ Rising(http_events') /\ Numbers(http_events') = Numbers(http_events)
      /\ Addressed(http_events', http_connection)
  <2>1. /\ http_events \in Seq(WebEvents) /\ Rising(http_events)
        /\ Addressed(http_events, http_connection)
    BY AnswerInvIs
  <2>2. /\ <<>> \in Seq(WebEvents) /\ Elements(<<>>) = {} /\ Addressed(<<>>, http_connection)
    BY EmptyHasNone, AddressedFew
  <2>3. CASE Http!Selectables
    <3>1. \E t \in {"init", "updated"} : Http!Handle(t, <<>>)
      BY <2>3 DEF Http!Selectables, Http!OnSelectableInit, Http!OnSelectableUpdated
    <3>2. /\ http_events /= <<>> /\ http_events' = Tail(http_events) \o <<>>
          /\ Head(http_events).type /= "message"
      BY <3>1 DEF Http!Handle
    <3> QED BY <2>1, <2>2, <3>2, EventsKept
  <2>4. CASE Http!TimerExpired
    <3>1. PICK new : new = IF http_reconnecting THEN <<TimerTask>> ELSE <<>>
      OBVIOUS
    <3>2. http_events' = http_events \o new
      BY <2>4, <3>1 DEF Http!TimerExpired, Http!Expired, Http!Process, TimerTask
    <3>3. /\ new \in Seq(WebEvents) /\ Elements(new) \subseteq {TimerTask}
          /\ Addressed(new, http_connection)
      <4>1. /\ <<TimerTask>> \in Seq(WebEvents) /\ Elements(<<TimerTask>>) = {TimerTask}
            /\ Addressed(<<TimerTask>>, http_connection)
        BY EventsAre, PlacedFew, AddressedFew
      <4> QED BY <2>2, <3>1, <4>1
    <3>4. \A e \in Elements(new) : ~Numbered(e)
      BY <3>3, EventsAre DEF Numbered
    <3> QED BY <2>1, <3>2, <3>3, <3>4, EventsKept
  <2>5. CASE Http!LoopRuns \/ UNCHANGED Http!vars
    <3>1. http_events' = http_events
      <4>1. CASE Http!ProcessQueued
        BY <2>1, <4>1, ConcatEmptySeq DEF Http!ProcessQueued, Http!Process
      <4>2. CASE Http!Returns \/ Http!Stop \/ UNCHANGED Http!vars
        BY <4>2 DEF Http!Returns, Http!Stop, Http!vars, Http!loopVars
      <4> QED BY <2>5, <4>1, <4>2 DEF Http!LoopRuns
    <3> QED BY <2>1, <3>1
  <2> QED BY <2>3, <2>4, <2>5
<1> QED BY <1>1, <1>2, AnswerInvIs, OrderKept

\* With the socket of a connection goes what it did not write.
LEMMA FinalKeepsAnswers ==
  ASSUME WebInv, AnswerInv, Http!Final
  PROVE  AnswerInv'
<1>1. WebTypeInv
  BY DEF WebInv
<1>2. /\ Http!Handle("final", <<>>)
      /\ Head(http_events).sel = "socket" \/ http_out' = http_out
      /\ http_out' = <<>> \/ http_out' = http_out
      /\ UNCHANGED <<http_incoming, http_queue, http_pending, http_sent, http_posts, http_shown,
                     http_replyAddress, http_connection, http_up>>
  BY DEF Http!Final, Http!OnSelectableFinal, Http!webVars, Http!linkVars, Http!nodeVars
<1>3. /\ http_events /= <<>> /\ Head(http_events).type = "final"
      /\ http_events' = Tail(http_events) \o <<>>
  BY <1>2 DEF Http!Handle
<1>4. /\ Rising(http_events') /\ Numbers(http_events') = Numbers(http_events)
      /\ Addressed(http_events', http_connection)
  <2>1. /\ <<>> \in Seq(WebEvents) /\ Elements(<<>>) = {} /\ Addressed(<<>>, http_connection)
    BY EmptyHasNone, AddressedFew
  <2>2. /\ http_events \in Seq(WebEvents) /\ Rising(http_events)
        /\ Addressed(http_events, http_connection)
    BY <1>1, AnswerInvIs
  <2> QED BY <1>3, <2>1, <2>2, EventsKept
<1>5. CASE http_out' = http_out
  BY <1>1, <1>2, <1>4, <1>5, AnswerInvIs, OrderKept
<1>6. CASE http_out' /= http_out
  <2>1. http_out' = <<>> /\ Head(http_events).sel = "socket"
    BY <1>2, <1>6
  <2>2. http_up = FALSE
    <3>1. /\ Head(http_events) \in WebEvents /\ Head(http_events) \in Elements(http_events)
      BY <1>1, <1>3, HeadTaken DEF WebTypeInv
    <3>2. Head(http_events) = SocketFinal
      BY <1>3, <2>1, <3>1, EventsAre
    <3> QED BY <1>1, <3>1, <3>2 DEF WebInv, EventsInv, SocketInv, WebTypeInv
  <2>3. Numbers(http_out') = {} /\ Rising(http_out') /\ Addressed(http_out', http_connection)
    BY <2>1, OrderFew, AddressedFew
  <2>4. Sequenced(Numbers(http_events), Numbers(http_incoming), Numbers(http_queue),
              {}, Elements(http_pending), Elements(http_sent), http_posts)
    BY <1>1, AnswerInvIs, OrderLost
  <2>5. Live(Numbers(http_events), Numbers(http_incoming), Own(http_queue, http_connection),
             {}, Elements(http_sent), FALSE, http_connection)
    <3>1. Live(Numbers(http_events), Numbers(http_incoming), Own(http_queue, http_connection),
               Numbers(http_out), Elements(http_sent), FALSE, http_connection)
      BY <1>1, <2>2, AnswerInvIs
    <3> QED BY <3>1 DEF Live
  <2> QED BY <1>1, <1>2, <1>4, <2>2, <2>3, <2>4, <2>5, AnswerInvIs, OrderKept
<1> QED BY <1>5, <1>6

\* The container connects again: nothing of the old connection will be answered.
LEMMA ReconnectionKeepsAnswers ==
  ASSUME WebInv, AnswerInv, Http!OnTimerTask
  PROVE  AnswerInv'
<1>1. WebTypeInv
  BY DEF WebInv
<1>2. PICK c : c = http_connection + 1
  OBVIOUS
<1>3. /\ Http!Handle("task", <<SocketInit>>)
      /\ http_connection' = c /\ http_up' = TRUE /\ http_out' = <<Http!Attach>>
      /\ UNCHANGED <<http_incoming, http_queue, http_pending, http_sent, http_posts, http_shown,
                     http_replyAddress>>
  BY <1>2 DEF Http!OnTimerTask, SocketInit, Http!clientVars, Http!webVars, Http!nodeVars
<1>4. /\ http_events /= <<>> /\ Head(http_events).type = "task"
      /\ http_events' = Tail(http_events) \o <<SocketInit>>
  BY <1>3 DEF Http!Handle
<1>5. ~http_up
  <2>1. /\ Head(http_events) \in WebEvents /\ Head(http_events) \in Elements(http_events)
    BY <1>1, <1>4, HeadTaken DEF WebTypeInv
  <2>2. Head(http_events) = TimerTask
    BY <1>4, <2>1, EventsAre
  <2> QED BY <1>1, <2>1, <2>2, TokenIs DEF WebInv, EventsInv
<1>6. ASSUME NEW s, Addressed(s, http_connection) PROVE Addressed(s, c)
  <2>1. \A x \in 1..http_connection : x \in 1..c
    BY <1>1, <1>2 DEF WebTypeInv
  <2> QED BY <1>6, <2>1 DEF Addressed
<1>7. /\ Rising(http_events') /\ Numbers(http_events') = Numbers(http_events)
      /\ Addressed(http_events', c)
  <2>1. /\ <<SocketInit>> \in Seq(WebEvents) /\ Elements(<<SocketInit>>) = {SocketInit}
        /\ Addressed(<<SocketInit>>, c) /\ ~Numbered(SocketInit)
    <3>1. SocketInit \in WebEvents /\ SocketInit.type = "init" /\ <<SocketInit>> \in Seq(WebEvents)
      BY EventsAre
    <3>2. Elements(<<SocketInit>>) = {SocketInit}
      BY PlacedFew
    <3> QED BY <3>1, <3>2 DEF Numbered, Addressed
  <2>2. /\ http_events \in Seq(WebEvents) /\ Rising(http_events) /\ Addressed(http_events, c)
    BY <1>1, <1>6, AnswerInvIs
  <2>3. \A e \in Elements(<<SocketInit>>) : ~Numbered(e)
    BY <2>1
  <2> QED BY <1>4, <2>1, <2>2, <2>3, EventsKept
<1>8. Numbers(http_out') = {} /\ Rising(http_out') /\ Addressed(http_out', c)
  <2>1. ~Numbered(Http!Attach)
    BY OutAre DEF Numbered
  <2> QED BY <1>3, <2>1, OutAre, OrderFew, AddressedFew
<1>9. Sequenced(Numbers(http_events), Numbers(http_incoming), Numbers(http_queue),
            {}, Elements(http_pending), Elements(http_sent), http_posts)
  BY <1>1, AnswerInvIs, OrderLost
<1>10. Own(http_queue, c) = {} /\ c /= 1 /\ c \in {http_connection, http_connection + 1}
  BY <1>1, <1>2, AnswerInvIs, OwnIs
<1>11. Live(Numbers(http_events), Numbers(http_incoming), {}, {}, Elements(http_sent), TRUE, c)
  <2>1. Live(Numbers(http_events), Numbers(http_incoming), Own(http_queue, http_connection),
             Numbers(http_out), Elements(http_sent), http_up, http_connection)
    BY <1>1, AnswerInvIs
  <2> QED BY <1>5, <1>10, <2>1 DEF Live
<1>12. Addressed(http_incoming, c) /\ Addressed(http_queue, c)
  BY <1>1, <1>6, AnswerInvIs
<1> QED BY <1>1, <1>3, <1>7, <1>8, <1>9, <1>10, <1>11, <1>12, AnswerInvIs, OrderKept

\* The socket ends: nothing more is read from it.
LEMMA SocketEndKeepsAnswers ==
  ASSUME WebTypeInv, AnswerInv, Http!Break \/ Http!NodeCloses
  PROVE  AnswerInv'
<1>1. PICK e \in {TimerUpdated, TimerFinal} : Http!Process(<<SocketFinal, e>>)
  BY DEF Http!Break, Http!NodeCloses, Http!Callback, SocketFinal, TimerUpdated, TimerFinal
<1>2. /\ http_incoming' = <<>> /\ http_up' = FALSE
      /\ UNCHANGED <<http_out, http_queue, http_pending, http_sent, http_posts, http_shown,
                     http_replyAddress, http_connection>>
  BY DEF Http!Break, Http!NodeCloses, Http!clientVars, Http!webVars
<1>3. /\ Rising(http_events') /\ Numbers(http_events') = Numbers(http_events)
      /\ Addressed(http_events', http_connection)
  <2>1. PICK new : new = <<SocketFinal, e>>
    OBVIOUS
  <2>2. http_events' = http_events \o new
    BY <1>1, <2>1 DEF Http!Process
  <2>3. SocketFinal \in WebEvents /\ e \in WebEvents
        /\ SocketFinal.type = "final" /\ e.type \in {"updated", "final"}
    BY EventsAre
  <2>4. new \in Seq(WebEvents) /\ Elements(new) = {SocketFinal, e}
    BY <2>1, <2>3, PlacedFew
  <2>5. Addressed(new, http_connection) /\ \A f \in Elements(new) : ~Numbered(f)
    BY <2>3, <2>4 DEF Addressed, Numbered
  <2>6. /\ http_events \in Seq(WebEvents) /\ Rising(http_events)
        /\ Addressed(http_events, http_connection)
    BY AnswerInvIs
  <2> QED BY <2>2, <2>4, <2>5, <2>6, EventsKept
<1>4. Numbers(http_incoming') = {} /\ Rising(http_incoming')
      /\ Addressed(http_incoming', http_connection)
  BY <1>2, OrderFew, AddressedFew
<1>5. Sequenced(Numbers(http_events), {}, Numbers(http_queue), Numbers(http_out),
            Elements(http_pending), Elements(http_sent), http_posts)
  BY AnswerInvIs, OrderLost
<1>6. Live(Numbers(http_events), {}, Own(http_queue, http_connection), Numbers(http_out),
           Elements(http_sent), FALSE, http_connection)
  BY AnswerInvIs, LiveLost
<1> QED BY <1>2, <1>3, <1>4, <1>5, <1>6, AnswerInvIs, OrderKept

LEMMA ReadKeepsAnswers ==
  ASSUME WebTypeInv, AnswerInv, Http!Readable
  PROVE  AnswerInv'
<1>1. /\ http_up = TRUE /\ http_events' = http_events \o http_incoming /\ http_incoming' = <<>>
      /\ UNCHANGED <<http_out, http_queue, http_pending, http_sent, http_posts, http_shown,
                     http_replyAddress, http_connection, http_up>>
  BY DEF Http!Readable, Http!Callback, Http!Process, Http!clientVars, Http!webVars,
     Http!linkVars, Http!nodeVars, WebTypeInv
<1>2. PICK E, I, Q, R, O, P, S :
        /\ E = Numbers(http_events) /\ I = Numbers(http_incoming)
        /\ Q = Numbers(http_queue) /\ R = Own(http_queue, http_connection)
        /\ O = Numbers(http_out) /\ P = Elements(http_pending) /\ S = Elements(http_sent)
  OBVIOUS
<1>3. /\ Sequenced(E, I, Q, O, P, S, http_posts) /\ Live(E, I, R, O, S, TRUE, http_connection)
      /\ R \subseteq Q /\ http_posts \in Nat /\ http_connection \in Nat
  <2>1. R \subseteq Q
    BY <1>2, AnswerInvIs, OwnIs
  <2> QED BY <1>1, <1>2, <2>1, AnswerInvIs
<1>4. /\ Below(E, I) /\ Sequenced(E \union I, {}, Q, O, P, S, http_posts)
      /\ Live(E \union I, {}, R, O, S, TRUE, http_connection)
  BY <1>3, AnswersRead
<1>5. http_events \in Seq(WebEvents) /\ http_incoming \in Seq(WebEvents)
  BY AnswerInvIs, IncomingAreEvents
<1>6. Rising(http_events') /\ Numbers(http_events') = E \union I
  <2>1. Rising(http_events) /\ Rising(http_incoming)
    BY AnswerInvIs
  <2>2. /\ Rising(http_events \o http_incoming)
        /\ Numbers(http_events \o http_incoming) = Numbers(http_events) \union Numbers(http_incoming)
    BY <1>2, <1>4, <1>5, <2>1, SetsNumbered, OrderJoined
  <2> QED BY <1>1, <1>2, <2>2
<1>7. Addressed(http_events', http_connection)
  BY <1>1, <1>5, AnswerInvIs, AddressedJoined
<1>8. Numbers(http_incoming') = {} /\ Rising(http_incoming')
      /\ Addressed(http_incoming', http_connection)
  BY <1>1, OrderFew, AddressedFew
<1> QED BY <1>1, <1>2, <1>4, <1>6, <1>7, <1>8, AnswerInvIs, OrderKept

LEMMA WriteKeepsAnswers ==
  ASSUME WebTypeInv, AnswerInv, Http!Writable
  PROVE  AnswerInv'
<1>1. /\ http_up = TRUE /\ http_events' = http_events \o <<SocketUpdated>> /\ http_out' = <<>>
      /\ http_queue' = http_queue \o Written(http_out)
      /\ \/ http_incoming' = http_incoming
         \/ \E n \in 0..HttpWindow : http_incoming' = http_incoming \o Http!Attached(n)
      /\ UNCHANGED <<http_pending, http_sent, http_posts, http_shown,
                     http_replyAddress, http_connection, http_up>>
  BY DEF Http!Writable, Http!Callback, Http!Process, Http!clientVars, Http!webVars,
     Http!linkVars, Written, SocketUpdated, WebTypeInv
<1>2. PICK w : w = Written(http_out)
  OBVIOUS
<1>3. /\ w \in Seq(WebRequests) /\ Rising(w) /\ Numbers(w) = Numbers(http_out)
      /\ Addressed(w, http_connection)
  <2>1. /\ http_out \in Seq(WebOut) /\ AttachFirst(http_out) /\ Rising(http_out)
        /\ Addressed(http_out, http_connection)
    BY AnswerInvIs
  <2>2. /\ w \in Seq(WebRequests)
        /\ w = http_out \/ (http_out /= <<>> /\ Head(http_out) = Http!Attach /\ w = Tail(http_out))
    BY <1>2, <2>1, WrittenAre
  <2>3. CASE http_out /= <<>> /\ Head(http_out) = Http!Attach /\ w = Tail(http_out)
    <3>1. ~Numbered(Head(http_out))
      BY <2>3, OutAre DEF Numbered
    <3>2. /\ Rising(w) /\ Numbers(w) = Numbers(http_out)
          /\ Elements(http_out) = {Head(http_out)} \union Elements(w)
      BY <2>1, <2>3, <3>1, SetsNumbered, OrderTaken
    <3>3. Addressed(w, http_connection)
      BY <2>1, <3>2 DEF Addressed
    <3> QED BY <2>2, <3>2, <3>3
  <2> QED BY <2>1, <2>2, <2>3
<1>4. PICK E, I, Q, R, O, P, S, N :
        /\ E = Numbers(http_events) /\ I = Numbers(http_incoming)
        /\ Q = Numbers(http_queue) /\ R = Own(http_queue, http_connection)
        /\ O = Numbers(http_out) /\ P = Elements(http_pending) /\ S = Elements(http_sent)
        /\ N = Own(w, http_connection)
  OBVIOUS
<1>5. /\ Sequenced(E, I, Q, O, P, S, http_posts) /\ Live(E, I, R, O, S, TRUE, http_connection)
      /\ N \subseteq O /\ (http_connection = 1 => N = O) /\ http_connection \in Nat
  <2>1. N \subseteq O /\ (http_connection = 1 => N = O)
    BY <1>3, <1>4, AnswerInvIs, OwnIs
  <2> QED BY <1>1, <1>4, <2>1, AnswerInvIs
<1>6. /\ Below(Q, O) /\ Sequenced(E, I, Q \union O, {}, P, S, http_posts)
      /\ Live(E, I, R \union N, {}, S, TRUE, http_connection)
  BY <1>5, RequestsWritten
<1>7. /\ http_queue \in Seq(WebRequests) /\ http_queue' = http_queue \o w
      /\ Rising(http_queue') /\ Numbers(http_queue') = Q \union O
      /\ Own(http_queue', http_connection) = R \union N
      /\ Addressed(http_queue', http_connection)
  <2>1. /\ http_queue \in Seq(WebRequests) /\ Rising(http_queue)
        /\ Addressed(http_queue, http_connection)
    BY AnswerInvIs
  <2>2. Rising(http_queue \o w) /\ Numbers(http_queue \o w) = Numbers(http_queue) \union Numbers(w)
    BY <1>3, <1>4, <1>6, <2>1, SetsNumbered, OrderJoined
  <2>3. Own(http_queue \o w, http_connection) = R \union N
    BY <1>3, <1>4, <2>1, OwnJoined
  <2>4. Addressed(http_queue \o w, http_connection)
    BY <1>3, <2>1, AddressedJoined
  <2> QED BY <1>1, <1>2, <1>3, <1>4, <2>1, <2>2, <2>3, <2>4
<1>8. /\ Rising(http_events') /\ Numbers(http_events') = E
      /\ Addressed(http_events', http_connection)
  <2>1. SocketUpdated \in WebEvents /\ SocketUpdated.type = "updated"
    BY EventsAre
  <2>2. <<SocketUpdated>> \in Seq(WebEvents) /\ Elements(<<SocketUpdated>>) = {SocketUpdated}
    BY <2>1, PlacedFew
  <2>3. /\ Addressed(<<SocketUpdated>>, http_connection)
        /\ \A e \in Elements(<<SocketUpdated>>) : ~Numbered(e)
    BY <2>1, <2>2 DEF Addressed, Numbered
  <2> QED BY <1>1, <1>4, <2>2, <2>3, AnswerInvIs, EventsKept
<1>9. /\ Rising(http_incoming') /\ Numbers(http_incoming') = I
      /\ Addressed(http_incoming', http_connection)
  <2>1. ASSUME NEW n \in 0..HttpWindow, http_incoming' = http_incoming \o Http!Attached(n)
        PROVE  /\ Rising(http_incoming') /\ Numbers(http_incoming') = I
               /\ Addressed(http_incoming', http_connection)
    <3>1. PICK g : g = Http!Attached(n)
      OBVIOUS
    <3>2. /\ g \in Seq(WebIncoming)
          /\ \A e \in Elements(g) : e = Http!Flow \/ e = Http!Opened(http_connection)
      BY <3>1, AnswerInvIs, AttachedAre
    <3>3. /\ Http!Flow.type = "flow" /\ Http!Opened(http_connection).type = "opened"
          /\ Http!Opened(http_connection).address = http_connection
          /\ http_connection \in 1..http_connection
      BY AnswerInvIs, IncomingAre
    <3>4. Addressed(g, http_connection) /\ \A e \in Elements(g) : ~Numbered(e)
      BY <3>2, <3>3 DEF Addressed, Numbered
    <3> QED BY <1>4, <2>1, <3>1, <3>2, <3>4, AnswerInvIs, SetsNumbered, OrderPlain,
               AddressedJoined
  <2> QED BY <1>1, <1>4, <2>1, AnswerInvIs
<1>10. Numbers(http_out') = {} /\ Rising(http_out') /\ Addressed(http_out', http_connection)
  BY <1>1, OrderFew, AddressedFew
<1> QED BY <1>1, <1>4, <1>6, <1>7, <1>8, <1>9, <1>10, AnswerInvIs, OrderKept

\* The node gives credit, and the server answers.
LEMMA NodeKeepsAnswers ==
  ASSUME WebTypeInv, AnswerInv, Http!NodeGrants \/ Http!OnRequest
  PROVE  AnswerInv'
<1>1. UNCHANGED <<http_events, http_out, http_pending, http_sent, http_posts, http_shown,
                  http_replyAddress, http_connection, http_up>>
  BY DEF Http!NodeGrants, Http!OnRequest, Http!loopVars, Http!clientVars, Http!webVars,
     Http!linkVars
<1>2. CASE Http!NodeGrants
  <2>1. http_incoming' = Append(http_incoming, Http!Flow) /\ http_queue' = http_queue
    BY <1>2 DEF Http!NodeGrants
  <2>2. Http!Flow \in WebIncoming /\ Http!Flow.type = "flow"
    BY IncomingAre
  <2>3. /\ <<Http!Flow>> \in Seq(WebIncoming) /\ Elements(<<Http!Flow>>) = {Http!Flow}
        /\ http_incoming' = http_incoming \o <<Http!Flow>>
    BY <2>1, <2>2, AnswerInvIs, PlacedFew, AppendIsConcat
  <2>4. /\ Addressed(<<Http!Flow>>, http_connection)
        /\ \A f \in Elements(<<Http!Flow>>) : ~Numbered(f)
    BY <2>2, <2>3 DEF Addressed, Numbered
  <2>5. /\ Rising(http_incoming') /\ Numbers(http_incoming') = Numbers(http_incoming)
        /\ Addressed(http_incoming', http_connection)
    BY <2>3, <2>4, AnswerInvIs, SetsNumbered, OrderPlain, AddressedJoined
  <2> QED BY <1>1, <2>1, <2>5, AnswerInvIs, OrderKept
<1>3. CASE Http!OnRequest
  <2>1. PICK e, u, r : e = Head(http_queue) /\ u = Tail(http_queue) /\ r = Head(http_queue).request
    OBVIOUS
  <2>2. /\ http_queue /= <<>> /\ http_queue' = u
        /\ http_incoming' = IF http_up /\ e.to = http_connection
                            THEN Append(http_incoming, Http!Message(r)) ELSE http_incoming
    BY <1>3, <2>1 DEF Http!OnRequest
  <2>3. /\ e \in WebRequests /\ u \in Seq(WebRequests) /\ Rising(u)
        /\ Elements(http_queue) = {e} \union Elements(u)
        /\ Numbers(http_queue) = {r} \union Numbers(u) /\ r \in Nat /\ Below({r}, Numbers(u))
    <3>1. Numbered(e)
      BY <2>1, <2>2, AnswerInvIs, HeadTaken, OutAre DEF Numbered
    <3> QED BY <2>1, <2>2, <3>1, AnswerInvIs, SetsNumbered, OrderTaken
  <2>4. /\ e.type = "request" /\ e.to \in 1..http_connection
        /\ Addressed(u, http_connection)
    BY <2>3, AnswerInvIs, OutAre DEF Addressed
  <2>5. Own(http_queue, http_connection) = Own(u, http_connection) \union
                                             (IF e.to = http_connection THEN {r} ELSE {})
    BY <2>1, <2>2, AnswerInvIs, OwnTaken
  <2>6. PICK E, I, U, R, O, P, S :
          /\ E = Numbers(http_events) /\ I = Numbers(http_incoming)
          /\ U = Numbers(u) /\ R = Own(u, http_connection)
          /\ O = Numbers(http_out) /\ P = Elements(http_pending) /\ S = Elements(http_sent)
    OBVIOUS
  <2>7. /\ Sequenced(E, I, {r} \union U, O, P, S, http_posts) /\ Below({r}, U)
        /\ Live(E, I, R \union (IF e.to = http_connection THEN {r} ELSE {}), O, S, http_up,
                http_connection)
    BY <2>3, <2>5, <2>6, AnswerInvIs
  <2>8. /\ Sequenced(E, I, U, O, P, S, http_posts)
        /\ Below(I, {r}) /\ Sequenced(E, I \union {r}, U, O, P, S, http_posts)
    BY <2>7, RequestServed
  <2>9. CASE http_up /\ e.to = http_connection
    <3>1. PICK m : m = Http!Message(r)
      OBVIOUS
    <3>2. m \in WebIncoming /\ m.type = "message" /\ m.request = r /\ Numbered(m)
      BY <2>3, <3>1, IncomingAre DEF Numbered
    <3>3. /\ <<m>> \in Seq(WebIncoming) /\ http_incoming' = http_incoming \o <<m>>
          /\ Numbers(<<m>>) = {r} /\ Rising(<<m>>)
      <4>1. http_incoming' = Append(http_incoming, m) /\ http_incoming \in Seq(WebIncoming)
        BY <2>2, <2>9, <3>1, AnswerInvIs
      <4>2. <<m>> \in Seq(WebIncoming) /\ Append(http_incoming, m) = http_incoming \o <<m>>
        BY <3>2, <4>1, AppendIsConcat
      <4>3. Numbers(<<m>>) = {r} /\ Rising(<<m>>)
        BY <2>3, <3>2, OrderFew
      <4> QED BY <4>1, <4>2, <4>3
    <3>4. Addressed(<<m>>, http_connection)
      BY <3>2, AddressedFew
    <3>5. /\ Rising(http_incoming \o <<m>>) /\ Numbers(http_incoming \o <<m>>) = I \union {r}
          /\ Addressed(http_incoming \o <<m>>, http_connection)
      <4>1. /\ http_incoming \in Seq(WebIncoming) /\ Rising(http_incoming)
            /\ Addressed(http_incoming, http_connection)
            /\ Below(Numbers(http_incoming), Numbers(<<m>>))
        BY <2>6, <2>8, <3>3, AnswerInvIs
      <4>2. Addressed(http_incoming \o <<m>>, http_connection)
        BY <3>3, <3>4, <4>1, AddressedJoined
      <4>3. /\ Rising(http_incoming \o <<m>>)
            /\ Numbers(http_incoming \o <<m>>) = Numbers(http_incoming) \union Numbers(<<m>>)
        BY <3>3, <4>1, SetsNumbered, OrderJoined
      <4> QED BY <2>6, <3>3, <4>2, <4>3
    <3>6. Live(E, I \union {r}, R, O, S, http_up, http_connection)
      BY <2>7, <2>9 DEF Live
    <3> QED BY <1>1, <2>2, <2>3, <2>4, <2>6, <2>8, <3>3, <3>5, <3>6, AnswerInvIs, OrderKept
  <2>10. CASE ~(http_up /\ e.to = http_connection)
    <3>1. http_incoming' = http_incoming
      BY <2>2, <2>10
    <3>2. Live(E, I, R, O, S, http_up, http_connection)
      <4>1. CASE e.to /= http_connection
        BY <2>7, <4>1
      <4>2. CASE ~http_up
        BY <2>7, <4>2 DEF Live
      <4> QED BY <2>10, <4>1, <4>2
    <3> QED BY <1>1, <2>2, <2>3, <2>4, <2>6, <2>8, <3>1, <3>2, AnswerInvIs, OrderKept
  <2> QED BY <2>9, <2>10
<1> QED BY <1>2, <1>3

LEMMA AnswersStart ==
  ASSUME Http!Init
  PROVE  AnswerInv
<1>1. /\ http_events = <<TimerInit, SocketInit>> /\ http_incoming = <<>> /\ http_queue = <<>>
      /\ http_out = <<Http!Attach>> /\ http_pending = <<>> /\ http_sent = <<>> /\ http_posts = 0
      /\ http_shown = <<>> /\ http_replyAddress = 0 /\ http_connection = 1 /\ http_up = TRUE
  BY DEF Http!Init, Http!Initialise, TimerInit, SocketInit
<1>2. TimerInit.type = "init" /\ SocketInit.type = "init" /\ Http!Attach.type = "attach"
  BY EventsAre, OutAre
<1>3. /\ Numbers(http_events) = {} /\ Rising(http_events) /\ Addressed(http_events, 1)
  <2>1. Elements(http_events) = {TimerInit, SocketInit}
    BY <1>1, PlacedFew
  <2>2. \A e \in Elements(http_events) : ~Numbered(e) /\ e.type \notin {"opened", "request"}
    BY <1>2, <2>1 DEF Numbered
  <2>3. \A k \in DOMAIN http_events : ~Numbered(http_events[k])
    BY <2>2 DEF Elements
  <2>4. Numbers(http_events) = {}
    BY <2>2 DEF Numbers
  <2> QED BY <2>2, <2>3, <2>4 DEF Rising, Before, Addressed
<1>4. /\ Numbers(http_out) = {} /\ Rising(http_out) /\ Addressed(http_out, 1)
  BY <1>1, <1>2, OrderFew, AddressedFew DEF Numbered
<1>5. /\ Numbers(http_incoming) = {} /\ Rising(http_incoming) /\ Addressed(http_incoming, 1)
      /\ Numbers(http_queue) = {} /\ Rising(http_queue) /\ Addressed(http_queue, 1)
      /\ Elements(http_pending) = {} /\ Elements(http_sent) = {}
  BY <1>1, OrderFew, AddressedFew, EmptyHasNone
<1>6. Growing(http_pending) /\ Growing(http_sent)
  BY <1>1 DEF Growing
<1>7. Sequenced({}, {}, {}, {}, {}, {}, 0)
  BY DEF Sequenced, Below
<1>8. LineInv
  BY <1>1, <1>3, <1>4, <1>5, <1>6, <1>7 DEF LineInv
<1>9. LiveInv
  <2>1. Own(http_queue, http_connection) = {}
    BY <1>1, EmptyHasNone DEF Own
  <2> QED BY <1>1, <1>3, <1>4, <1>5, <2>1 DEF LiveInv, Live
<1>10. AddressInv
  BY <1>1, <1>3, <1>4, <1>5 DEF AddressInv
<1>11. ShownInv
  BY <1>1 DEF ShownInv, AnswersMatch, Http!AnswersMatch
<1> QED BY <1>8, <1>9, <1>10, <1>11 DEF AnswerInv

\* Whatever the connections, the node and the server do, and in whatever order the
\* reactor handles it: the answer that a web request is shown is to a request that
\* came no earlier, and its own if no connection broke.
THEOREM AnswersMatchHolds == Spec => []AnswersMatch
<1>1. Init => WebInv /\ AnswerInv
  BY WebStart, AnswersStart DEF Init
<1>2. WebInv /\ AnswerInv /\ [Next]_vars => WebInv' /\ AnswerInv'
  <2> SUFFICES ASSUME WebInv, AnswerInv, [Next]_vars PROVE WebInv' /\ AnswerInv'
    OBVIOUS
  <2>1. WebTypeInv /\ [Http!Next]_Http!vars
    BY Runs DEF WebInv
  <2>2. WebInv'
    BY <2>1, WebStep
  <2>3. AnswerInv'
    BY <2>1, AskingKeepsAnswers, AnswerKeepsAnswers, ReactorKeepsAnswers, FinalKeepsAnswers,
       ReconnectionKeepsAnswers, SocketEndKeepsAnswers, ReadKeepsAnswers, WriteKeepsAnswers,
       NodeKeepsAnswers
       DEF Http!Next, Http!Handlers
  <2> QED BY <2>2, <2>3
<1>3. AnswerInv => AnswersMatch
  BY DEF AnswerInv, ShownInv
<1> QED BY <1>1, <1>2, <1>3, PTL DEF Spec
=============================================================================
