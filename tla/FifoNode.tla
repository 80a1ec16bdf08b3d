------------------------------ MODULE FifoNode ------------------------------
(***************************************************************************)
(* What a broker promises for one address: the messages published to it    *)
(* wait in one line, oldest first, and leave it from the front only, each  *)
(* once.  Neither the consumers nor the connections appear here.           *)
(***************************************************************************)
EXTENDS Naturals, Sequences

CONSTANT Messages       \* what may be published, each message at most once

VARIABLES backlog,      \* the messages that wait
          handed        \* the messages handed to consumers, oldest first

vars == <<backlog, handed>>

Init == backlog = <<>> /\ handed = <<>>

\* The front of the line of messages whole is handed over.
HandOver(whole) ==
  \E n \in 0..Len(whole) :
    /\ handed' = handed \o SubSeq(whole, 1, n)
    /\ backlog' = SubSeq(whole, n + 1, Len(whole))

Arrived == {backlog[k] : k \in DOMAIN backlog}
             \cup {handed[k] : k \in DOMAIN handed}

\* A new message joins the end; the consumers then take what they can.
Publish == \E m \in Messages \ Arrived : HandOver(Append(backlog, m))

\* The consumers take messages with no new one arriving.
Take == HandOver(backlog)

Next == Publish \/ Take

Spec == Init /\ [][Next]_vars
=============================================================================
