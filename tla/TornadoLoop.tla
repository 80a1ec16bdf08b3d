---------------------------- MODULE TornadoLoop ----------------------------
(***************************************************************************)
(* proton_tornado.py: the reactor of a container that runs on the event    *)
(* loop of Tornado.  The loop has one thread.  It calls the methods below  *)
(* one at a time, and each call handles the reactor's events, in order,    *)
(* before the loop goes on.                                                *)
(*                                                                         *)
(* The reactor has two selectables: its timer, which has a deadline while  *)
(* a task is scheduled and no file descriptor, and the socket of the       *)
(* connection, which has no deadline.  Modules that extend this one say    *)
(* what the socket carries and what the other events do.                   *)
(***************************************************************************)
EXTENDS Naturals, Sequences

CONSTANT MaxQueued   \* calls of _process that may be queued (bound)

VARIABLES
  mode,        \* where the thread is: "initialise", "loop", "process", "stopped"
  callbacks,   \* how many calls of _process are queued on the loop
  stopping,    \* a call of _stop is queued
  timeouts,    \* how many calls of _expired are scheduled for the timer
  watched,     \* what the loop watches the socket for
  count,       \* self.count
  events       \* the events of the reactor, oldest first

loopVars == <<mode, callbacks, stopping, timeouts, watched, count, events>>

SelectableInit(sel)    == [type |-> "init", sel |-> sel]
SelectableUpdated(sel) == [type |-> "updated", sel |-> sel]
SelectableFinal(sel)   == [type |-> "final", sel |-> sel]

\* Container.initialise, after container.start(): the first call of process is
\* under way, with the events that start() left.
Initialise(first) ==
  /\ mode = "initialise"
  /\ callbacks = 0 /\ stopping = FALSE /\ timeouts = 0
  /\ watched = {} /\ count = 0
  /\ events = first

-----------------------------------------------------------------------------
(* Calls of the loop; new are the events that the call adds first. *)

Process(new) ==
  /\ mode = "loop"
  /\ mode' = "process"
  /\ events' = events \o new

ProcessQueued ==
  /\ callbacks > 0
  /\ callbacks' = callbacks - 1
  /\ Process(<<>>)
  /\ UNCHANGED <<stopping, timeouts, watched, count>>

\* Container.touch, for a program that has work for the reactor.
Touch(new) ==
  /\ Process(new)
  /\ UNCHANGED <<callbacks, stopping, timeouts, watched, count>>

\* _callback: the socket can be read ("read") or written ("write").
Callback(interest, new) ==
  /\ interest \in watched
  /\ Process(new)
  /\ UNCHANGED <<callbacks, stopping, timeouts, watched, count>>

Expired(new) ==
  /\ timeouts > 0
  /\ timeouts' = timeouts - 1
  /\ Process(new)
  /\ UNCHANGED <<callbacks, stopping, watched, count>>

\* Mutant: a call that leaves events queues no other.
ReturnsOnce ==
  /\ mode \in {"initialise", "process"}
  /\ mode = "initialise" => events = <<>>
  /\ mode' = "loop"
  /\ UNCHANGED <<callbacks, stopping, timeouts, watched, count, events>>

\* reactor.process() returns.  It may leave events (on_reactor_quiesced makes it
\* yield); _process looks for them and queues another call.  initialise does
\* not look; nothing is watched yet that could interrupt that first call.
Returns ==
  /\ mode \in {"initialise", "process"}
  /\ mode = "initialise" => events = <<>>
  /\ mode' = "loop"
  /\ callbacks' = IF events = <<>> THEN callbacks ELSE callbacks + 1
  /\ callbacks' <= MaxQueued
  /\ UNCHANGED <<stopping, timeouts, watched, count, events>>

Stop ==
  /\ mode = "loop" /\ stopping
  /\ mode' = "stopped"
  /\ UNCHANGED <<callbacks, stopping, timeouts, watched, count, events>>

-----------------------------------------------------------------------------
(* Handlers of the reactor's events. *)

\* reactor.process() takes the next event; its handler adds the events new.
Handle(type, new) ==
  /\ mode \in {"initialise", "process"}
  /\ events /= <<>> /\ Head(events).type = type
  /\ events' = Tail(events) \o new

\* _schedule, for a selectable that has a deadline or not.  A timeout that the
\* loop has is not taken back when the deadline changes.
Schedule(deadline) == timeouts' = IF deadline THEN timeouts + 1 ELSE timeouts

OnSelectableInit(wanted, deadline) ==
  /\ Handle("init", <<>>)
  /\ watched' = IF Head(events).sel = "socket" THEN wanted ELSE watched
  /\ Schedule(Head(events).sel = "timer" /\ deadline)
  /\ count' = count + 1
  /\ UNCHANGED <<mode, callbacks, stopping>>

OnSelectableUpdated(wanted, deadline) ==
  /\ Handle("updated", <<>>)
  /\ watched' = IF Head(events).sel = "socket" THEN wanted ELSE watched
  /\ Schedule(Head(events).sel = "timer" /\ deadline)
  /\ UNCHANGED <<mode, callbacks, stopping, count>>

OnSelectableFinal ==
  /\ Handle("final", <<>>)
  /\ watched' = IF Head(events).sel = "socket" THEN {} ELSE watched
  /\ count' = count - 1
  /\ stopping' = (stopping \/ count' = 0)
  /\ UNCHANGED <<mode, callbacks, timeouts>>
=============================================================================
