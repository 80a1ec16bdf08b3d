--------------------------- MODULE ProgramsProofs ---------------------------
(***************************************************************************)
(* The programs of module Programs, one after the other, for every value   *)
(* of their constants.  What a program does is a step of its own module or *)
(* nothing, whichever of them runs.                                        *)
(***************************************************************************)
EXTENDS Programs, DispatchProofs, WellFoundedInduction

\* Every step is one of the module or leaves its variables alone.
LEMMA Runs ==
  ASSUME [Next]_vars
  PROVE  /\ [TxServ!Next]_TxServ!vars
         /\ [Listener!Next]_Listener!vars
         /\ [Shared!Next]_Shared!vars
         /\ [Jms!Next]_Jms!vars
         /\ [Rate!Next]_Rate!vars
         /\ [Loop!Next]_Loop!vars
         /\ [Urls!Next]_Urls!vars
         /\ [Role!Next]_Role!vars
         /\ [Console!Next]_Console!vars
         /\ [Http!Next]_Http!vars
<1>1. CASE Next
  <2>1. /\ TxServ!Next \/ UNCHANGED txVars
        /\ Listener!Next \/ UNCHANGED lsVars
        /\ Shared!Next \/ UNCHANGED rpcVars
        /\ Jms!Next \/ UNCHANGED jmsVars
        /\ Rate!Next \/ UNCHANGED rateVars
        /\ Loop!Next \/ UNCHANGED qVars
        /\ Urls!Next \/ UNCHANGED foVars
        /\ Role!Next \/ UNCHANGED roleVars
        /\ Console!Next \/ UNCHANGED conVars
        /\ Http!Next \/ UNCHANGED httpVars
    BY <1>1, Zenon DEF Next
  <2>2. [Console!Next]_Console!vars
    BY <2>1 DEF conVars, Console!vars, Console!progVars, Console!nodeVars, Console!userVars
  <2>3. [Http!Next]_Http!vars
    BY <2>1 DEF httpVars, Http!vars, Http!loopVars, Http!clientVars, Http!webVars,
       Http!linkVars, Http!nodeVars
  <2> QED BY <2>1, <2>2, <2>3 DEF txVars, lsVars, rpcVars, jmsVars, rateVars, qVars, foVars, roleVars,
        TxServ!vars, TxServ!clientVars, TxServ!serverVars, TxServ!txVars, TxServ!history,
        Listener!vars, Shared!vars, Shared!node, Jms!vars, Jms!conf, Rate!vars, Rate!sender, Rate!receiver,
        Loop!vars, Urls!vars, Urls!sender, Urls!receiver, Role!vars, Role!instances
<1>2. CASE UNCHANGED vars
  <2>1. UNCHANGED Console!vars
    BY <1>2 DEF vars, conVars, Console!vars, Console!progVars, Console!nodeVars,
       Console!userVars
  <2>2. UNCHANGED Http!vars
    BY <1>2 DEF vars, httpVars, Http!vars, Http!loopVars, Http!clientVars, Http!webVars,
       Http!linkVars, Http!nodeVars
  <2> QED BY <1>2, <2>1, <2>2 DEF vars, txVars, lsVars, rpcVars, jmsVars, rateVars, qVars, foVars, roleVars,
        TxServ!vars, TxServ!clientVars, TxServ!serverVars, TxServ!txVars, TxServ!history,
        Listener!vars, Shared!vars, Shared!node, Jms!vars, Jms!conf, Rate!vars, Rate!sender, Rate!receiver,
        Loop!vars, Urls!vars, Urls!sender, Urls!receiver, Role!vars, Role!instances
<1> QED BY <1>1, <1>2

-----------------------------------------------------------------------------
(* Sequences of messages. *)

Elements(s) == {s[k] : k \in DOMAIN s}

LEMMA EmptyHasNone == <<>> \in Seq(Nat) /\ Len(<<>>) = 0 /\ Elements(<<>>) = {}
BY DEF Elements

\* The first element and the others.
LEMMA HeadTaken ==
  ASSUME NEW S, NEW s \in Seq(S), s /= <<>>
  PROVE  /\ Head(s) \in S /\ Tail(s) \in Seq(S)
         /\ Len(Tail(s)) = Len(s) - 1
         /\ Elements(s) = {Head(s)} \union Elements(Tail(s))
<1>1. /\ Head(s) \in S /\ Tail(s) \in Seq(S)
      /\ 1 \in DOMAIN s /\ Head(s) = s[1] /\ Len(Tail(s)) = Len(s) - 1
      /\ \A k \in DOMAIN Tail(s) : k + 1 \in DOMAIN s /\ Tail(s)[k] = s[k + 1]
      /\ \A k \in DOMAIN s : k = 1 \/ (k - 1 \in DOMAIN Tail(s) /\ Tail(s)[k - 1] = s[k])
  <2>1. Head(s) \in S
    BY HeadTailProperties
  <2> QED BY <2>1
<1>2. Elements(s) \subseteq {Head(s)} \union Elements(Tail(s))
  <2>1. \A k \in DOMAIN s : s[k] = Head(s) \/ \E j \in DOMAIN Tail(s) : Tail(s)[j] = s[k]
    BY <1>1
  <2> QED BY <2>1 DEF Elements
<1>3. {Head(s)} \union Elements(Tail(s)) \subseteq Elements(s)
  BY <1>1 DEF Elements
<1> QED BY <1>1, <1>2, <1>3

\* One element more at the end.
LEMMA Added ==
  ASSUME NEW S, NEW s \in Seq(S), NEW e \in S
  PROVE  /\ Append(s, e) \in Seq(S) /\ Len(Append(s, e)) = Len(s) + 1
         /\ Elements(Append(s, e)) = Elements(s) \union {e}
<1> DEFINE t == Append(s, e)
<1>1. /\ t \in Seq(S) /\ Len(t) = Len(s) + 1
      /\ Len(s) + 1 \in DOMAIN t /\ t[Len(s) + 1] = e
      /\ \A k \in DOMAIN s : k \in DOMAIN t /\ t[k] = s[k]
      /\ \A k \in DOMAIN t : k = Len(s) + 1 \/ (k \in DOMAIN s /\ t[k] = s[k])
  OBVIOUS
<1> HIDE DEF t
<1>2. Elements(t) \subseteq Elements(s) \union {e}
  BY <1>1 DEF Elements
<1>3. Elements(s) \union {e} \subseteq Elements(t)
  BY <1>1 DEF Elements
<1>4. Elements(t) = Elements(s) \union {e}
  BY <1>2, <1>3
<1> QED BY <1>1, <1>4 DEF t

\* Two sequences, one after the other.
LEMMA Joined ==
  ASSUME NEW S, NEW s \in Seq(S), NEW t \in Seq(S)
  PROVE  /\ s \o t \in Seq(S) /\ Len(s \o t) = Len(s) + Len(t)
         /\ Elements(s \o t) = Elements(s) \union Elements(t)
         /\ \A k \in 1..Len(s) : (s \o t)[k] = s[k]
         /\ \A k \in 1..Len(t) : (s \o t)[Len(s) + k] = t[k]
<1> DEFINE r == s \o t
<1>1. /\ r \in Seq(S) /\ Len(r) = Len(s) + Len(t)
      /\ \A k \in 1..(Len(s) + Len(t)) : r[k] = IF k <= Len(s) THEN s[k] ELSE t[k - Len(s)]
  BY ConcatProperties
<1>2. /\ Len(s) \in Nat /\ Len(t) \in Nat
      /\ DOMAIN s = 1..Len(s) /\ DOMAIN t = 1..Len(t) /\ DOMAIN r = 1..(Len(s) + Len(t))
  <2>1. DOMAIN r = 1..Len(r)
    <3> HIDE DEF r
    <3> QED BY <1>1
  <2> QED BY <1>1, <2>1
<1> HIDE DEF r
<1>3. \A k \in 1..Len(s) : k \in DOMAIN r /\ r[k] = s[k]
  BY <1>1, <1>2
<1>4. ASSUME NEW k \in 1..Len(t) PROVE Len(s) + k \in DOMAIN r /\ r[Len(s) + k] = t[k]
  <2>1. PICK j : j = Len(s) + k /\ j \in 1..(Len(s) + Len(t)) /\ ~(j <= Len(s)) /\ j - Len(s) = k
    BY <1>2
  <2> QED BY <1>1, <1>2, <2>1
<1>5. ASSUME NEW k \in DOMAIN r PROVE r[k] \in Elements(s) \union Elements(t)
  <2>1. CASE k <= Len(s)
    BY <1>1, <1>2, <2>1 DEF Elements
  <2>2. CASE ~(k <= Len(s))
    <3>1. k - Len(s) \in DOMAIN t /\ r[k] = t[k - Len(s)]
      BY <1>1, <1>2, <2>2
    <3> QED BY <3>1 DEF Elements
  <2> QED BY <2>1, <2>2
<1>6. Elements(r) = Elements(s) \union Elements(t)
  <2>1. Elements(r) \subseteq Elements(s) \union Elements(t)
    BY <1>5 DEF Elements
  <2>2. Elements(s) \subseteq Elements(r)
    BY <1>2, <1>3 DEF Elements
  <2>3. Elements(t) \subseteq Elements(r)
    BY <1>2, <1>4 DEF Elements
  <2> QED BY <2>1, <2>2, <2>3
<1> QED BY <1>1, <1>3, <1>4, <1>6 DEF r

\* A sequence has no more elements than places.
LEMMA Counted ==
  ASSUME NEW S, NEW s \in Seq(S)
  PROVE  IsFiniteSet(Elements(s)) /\ Cardinality(Elements(s)) <= Len(s)
           /\ Cardinality(Elements(s)) \in Nat
<1> DEFINE f == [k \in 1..Len(s) |-> s[k]]
<1>1. Len(s) \in Nat /\ DOMAIN s = 1..Len(s)
  OBVIOUS
<1>2. f \in Surjection(1..Len(s), Elements(s))
  BY <1>1 DEF Elements, Surjection
<1>3. IsFiniteSet(1..Len(s)) /\ Cardinality(1..Len(s)) = Len(s)
  BY <1>1, FS_Interval
<1> HIDE DEF f
<1>4. IsFiniteSet(Elements(s)) /\ Cardinality(Elements(s)) <= Len(s)
  BY <1>2, <1>3, FS_Surjection
<1> QED BY <1>4, FS_CardinalityType

\* What a sender's connection carries: the messages after lo up to hi.
Carries(w, lo, hi) ==
  /\ w \in Seq(Nat) /\ lo \in Nat /\ hi \in Nat
  /\ Len(w) = hi - lo
  /\ \A k \in 1..Len(w) : w[k] = lo + k

LEMMA CarriesNothing ==
  ASSUME NEW n \in Nat
  PROVE  Carries(<<>>, n, n)
BY EmptyHasNone DEF Carries

\* on_sendable sends the next n messages.
LEMMA CarriesMore ==
  ASSUME NEW w, NEW lo, NEW hi, Carries(w, lo, hi), NEW n \in Nat
  PROVE  /\ Carries(w \o [k \in 1..n |-> hi + k], lo, hi + n)
         /\ lo <= hi
<1> DEFINE b == [k \in 1..n |-> hi + k]
<1>1. /\ w \in Seq(Nat) /\ lo \in Nat /\ hi \in Nat /\ Len(w) = hi - lo /\ Len(w) \in Nat
      /\ \A k \in 1..Len(w) : w[k] = lo + k
  BY DEF Carries
<1>2. b \in Seq(Nat) /\ Len(b) = n /\ \A k \in 1..n : b[k] = hi + k
  BY <1>1
<1> HIDE DEF b
<1>3. /\ w \o b \in Seq(Nat) /\ Len(w \o b) = Len(w) + Len(b)
      /\ \A k \in 1..Len(w) : (w \o b)[k] = w[k]
      /\ \A k \in 1..Len(b) : (w \o b)[Len(w) + k] = b[k]
  <2>1. w \in Seq(Nat) /\ b \in Seq(Nat)
    BY <1>1, <1>2
  <2> QED BY <2>1, Joined
<1>4. ASSUME NEW k \in 1..Len(w \o b) PROVE (w \o b)[k] = lo + k
  <2>1. CASE k <= Len(w)
    BY <1>1, <1>2, <1>3, <1>4, <2>1
  <2>2. CASE ~(k <= Len(w))
    <3>1. PICK j \in 1..n : k = Len(w) + j
      <4>1. k - Len(w) \in 1..n /\ k = Len(w) + (k - Len(w))
        BY <1>1, <1>2, <1>3, <1>4, <2>2
      <4> QED BY <4>1
    <3>2. (w \o b)[k] = hi + j
      BY <1>2, <1>3, <3>1
    <3> QED BY <1>1, <3>1, <3>2
  <2> QED BY <2>1, <2>2
<1>5. Carries(w \o b, lo, hi + n)
  BY <1>1, <1>2, <1>3, <1>4 DEF Carries
<1> QED BY <1>1, <1>5 DEF b

\* The node reads the first of them.
LEMMA CarriesFirst ==
  ASSUME NEW w, NEW lo, NEW hi, Carries(w, lo, hi), w /= <<>>
  PROVE  /\ Head(w) = lo + 1 /\ lo < hi
         /\ Carries(Tail(w), lo + 1, hi)
<1>1. /\ w \in Seq(Nat) /\ lo \in Nat /\ hi \in Nat /\ Len(w) = hi - lo
      /\ \A k \in 1..Len(w) : w[k] = lo + k
  BY DEF Carries
<1>2. /\ Tail(w) \in Seq(Nat) /\ Len(Tail(w)) = Len(w) - 1 /\ Len(w) >= 1
      /\ Head(w) = w[1]
      /\ \A k \in 1..Len(Tail(w)) : k + 1 \in 1..Len(w) /\ Tail(w)[k] = w[k + 1]
  BY <1>1
<1>3. Head(w) = lo + 1 /\ lo < hi
  BY <1>1, <1>2
<1>4. \A k \in 1..Len(Tail(w)) : Tail(w)[k] = (lo + 1) + k
  BY <1>1, <1>2
<1> QED BY <1>1, <1>2, <1>3, <1>4 DEF Carries

-----------------------------------------------------------------------------
(* The role artemis. *)

\* The broker that the handler names is the last one when its turn comes.
RoleTypeInv ==
  /\ role_broker \in Role!Brokers
  /\ role_notified \in BOOLEAN /\ role_lost \in BOOLEAN
  /\ role_task \in {"idle", "create", "owner", "enable", "handlers"} \union Role!Files
  /\ role_task = "handlers" => role_broker = RoleBrokers
  /\ DOMAIN role_files = Role!Brokers /\ DOMAIN role_running = Role!Brokers
  /\ \A b \in Role!Brokers : DOMAIN role_files[b] = Role!Files

\* The last broker has not read one of the files that call for a restart.
Stale ==
  \E f \in Role!Notifying : role_running[RoleBrokers][f] /= role_files[RoleBrokers][f]

\* Such a broker is owed a restart: the handler is notified and its turn has
\* still to come.
Owed == ~role_lost /\ Stale => role_notified /\ role_task /= "idle"

RoleInv == RoleTypeInv /\ ~role_recreated /\ Owed

\* A task of the play goes on or ends the play; the notification that the play
\* had then is lost.
LEMMA TaskGoes ==
  ASSUME RoleTypeInv, NEW next, NEW ok \in BOOLEAN, Role!Goes(next, ok)
  PROVE  /\ role_task' \in {"idle", next} /\ role_lost' \in BOOLEAN
         /\ role_lost => role_lost'
         /\ ok => role_task' = next /\ role_lost' = role_lost
         /\ ~ok => role_task' = "idle" /\ role_lost' = (role_lost \/ role_notified)
BY DEF RoleTypeInv, Role!Goes

\* A task that leaves the files and the broker that runs as they are.
LEMMA QuietTask ==
  ASSUME RoleInv, role_task /= "idle", NEW next, NEW ok \in BOOLEAN, Role!Goes(next, ok),
         next \in {"owner", "xml"},
         ~role_recreated',
         UNCHANGED <<role_broker, role_notified, role_files, role_running>>
  PROVE  RoleInv'
<1>1. RoleTypeInv /\ Owed
  BY DEF RoleInv
<1>2. /\ role_task' \in {"idle", next} /\ role_lost' \in BOOLEAN
      /\ role_lost => role_lost'
      /\ ok => role_task' = next /\ role_lost' = role_lost
      /\ ~ok => role_task' = "idle" /\ role_lost' = (role_lost \/ role_notified)
  BY <1>1, TaskGoes
<1>3. RoleTypeInv'
  BY <1>1, <1>2 DEF RoleTypeInv, Role!Files
<1>4. Stale' = Stale
  BY DEF Stale
<1>5. Owed'
  BY <1>1, <1>2, <1>4 DEF Owed
<1> QED BY <1>3, <1>5 DEF RoleInv

\* Writing a file that calls for a restart notifies the handler.
LEMMA WriteStep ==
  ASSUME RoleInv, NEW f \in Role!Files, NEW next \in Role!Files \union {"enable"},
         Role!Write(f, next)
  PROVE  RoleInv'
<1>1. RoleTypeInv /\ Owed /\ ~role_recreated /\ RoleBrokers \in Role!Brokers
  BY ProgramsAssumption DEF RoleInv, Role!Brokers
<1>2. role_task' = next /\ role_lost' = role_lost
  BY <1>1, TaskGoes DEF Role!Write
<1>3. /\ role_task = f
      /\ role_files' = [role_files EXCEPT ![role_broker][f] = role_wanted[f]]
      /\ role_notified' = (role_notified
           \/ (f \in Role!Notifying /\ role_files[role_broker][f] /= role_wanted[f]))
      /\ UNCHANGED <<role_broker, role_recreated, role_running>>
  BY DEF Role!Write, Role!instances
<1>4. /\ role_files'[RoleBrokers][f] \in {role_files[RoleBrokers][f], role_wanted[f]}
      /\ role_files'[RoleBrokers][f] /= role_files[RoleBrokers][f]
           => role_files[role_broker][f] /= role_wanted[f]
      /\ \A g \in Role!Files \ {f} :
            role_files'[RoleBrokers][g] = role_files[RoleBrokers][g]
  BY <1>1, <1>3 DEF RoleTypeInv
<1>5. Stale' => Stale \/ role_notified'
  BY <1>3, <1>4 DEF Stale, Role!Notifying, Role!Files
<1>6. role_task' /= "idle" /\ role_task' /= "handlers"
  BY <1>2 DEF Role!Files
<1>7. Owed'
  BY <1>1, <1>2, <1>3, <1>5, <1>6 DEF Owed
<1>8. RoleTypeInv'
  <2>1. role_notified' \in BOOLEAN
    BY <1>1, <1>3 DEF RoleTypeInv
  <2>2. /\ DOMAIN role_files' = Role!Brokers
        /\ \A b \in Role!Brokers : DOMAIN role_files'[b] = Role!Files
    BY <1>1, <1>3 DEF RoleTypeInv
  <2> QED BY <1>1, <1>2, <1>3, <1>6, <2>1, <2>2, Zenon DEF RoleTypeInv
<1> QED BY <1>1, <1>3, <1>7, <1>8 DEF RoleInv

LEMMA RoleStep ==
  ASSUME RoleInv, [Role!Next]_Role!vars
  PROVE  RoleInv'
<1>1. RoleBrokers \in Role!Brokers /\ RoleTypeInv /\ ~role_recreated /\ Owed
  BY ProgramsAssumption DEF Role!Brokers, RoleInv
<1>2. CASE Role!Edit
  <2>1. UNCHANGED <<role_task, role_broker, role_notified, role_recreated, role_files,
                    role_running, role_lost>>
    BY <1>2 DEF Role!Edit, Role!instances
  <2> QED BY <1>1, <2>1 DEF RoleInv, RoleTypeInv, Stale, Owed
<1>3. CASE Role!Play
  <2>1. /\ 1 \in Role!Brokers
        /\ role_task = "idle" /\ role_task' = "create" /\ role_broker' = 1
        /\ role_notified' \in BOOLEAN
        /\ UNCHANGED <<role_recreated, role_files, role_running, role_lost>>
    BY <1>3, ProgramsAssumption DEF Role!Brokers, Role!Play, Role!instances
  <2>2. Owed'
    BY <1>1, <2>1 DEF Stale, Owed
  <2>3. RoleTypeInv'
    BY <1>1, <2>1 DEF RoleTypeInv
  <2> QED BY <1>1, <2>1, <2>2, <2>3 DEF RoleInv
<1>4. CASE Role!Create
  <2>1. /\ role_task = "create"
        /\ UNCHANGED <<role_broker, role_notified, role_files, role_running>>
    BY <1>4 DEF Role!Create
  <2>2. ~role_recreated'
    BY <1>1, <1>4 DEF Role!Create, Role!CreateBroker, Role!instances
  <2>3. \E ok \in BOOLEAN : Role!Goes("owner", ok)
    <3>1. Role!Goes("owner", TRUE) \/ \E stderr \in BOOLEAN : Role!Goes("owner", ~stderr)
      BY <1>4 DEF Role!Create, Role!CreateBroker
    <3> QED BY <3>1
  <2> QED BY <2>1, <2>2, <2>3, QuietTask
<1>5. CASE Role!Owner
  <2>1. /\ role_task = "owner" /\ Role!Goes("xml", TRUE)
        /\ UNCHANGED <<role_broker, role_notified, role_recreated, role_files, role_running>>
    BY <1>5 DEF Role!Owner
  <2> QED BY <1>1, <2>1, QuietTask
<1>6. CASE Role!Configure
  <2>1. \E f \in Role!Files, next \in Role!Files \union {"enable"} : Role!Write(f, next)
    <3>1. /\ {"xml", "profile", "others"} \subseteq Role!Files
          /\ {"profile", "others", "unit"} \subseteq Role!Files
      BY DEF Role!Files
    <3> QED BY <1>6, <3>1, Zenon DEF Role!Configure
  <2> QED BY <2>1, WriteStep
<1>7. CASE Role!Service
  <2>1. CASE Role!Write("unit", "enable")
    <3>1. "unit" \in Role!Files
      BY DEF Role!Files
    <3> QED BY <2>1, <3>1, WriteStep
  <2>2. CASE Role!Enable
    <3>1. /\ role_broker' \in Role!Brokers /\ role_task' \in {"create", "handlers"}
          /\ role_task' = "handlers" => role_broker' = RoleBrokers
      BY <1>1, <2>2, ProgramsAssumption
         DEF Role!Enable, Role!Goes, RoleTypeInv, Role!Brokers
    <3>2. /\ role_notified' \in BOOLEAN /\ (role_notified => role_notified')
          /\ role_lost' = role_lost
          /\ UNCHANGED <<role_recreated, role_files, role_running>>
      BY <1>1, <2>2 DEF Role!Enable, Role!Goes, RoleTypeInv, Role!instances
    <3> QED BY <1>1, <3>1, <3>2 DEF RoleInv, RoleTypeInv, Stale, Owed
  <2> QED BY <1>7, <2>1, <2>2 DEF Role!Service
<1>8. CASE Role!Fails
  <2>1. /\ Role!Goes("idle", FALSE)
        /\ UNCHANGED <<role_broker, role_notified, role_recreated, role_files, role_running>>
    BY <1>8 DEF Role!Fails, Role!instances
  <2>2. role_task' = "idle" /\ role_lost' = (role_lost \/ role_notified)
    BY <2>1 DEF Role!Goes
  <2>3. role_lost' \in BOOLEAN
    BY <1>1, <2>2 DEF RoleTypeInv
  <2>4. RoleTypeInv'
    BY <1>1, <2>1, <2>2, <2>3 DEF RoleTypeInv
  <2>5. Owed'
    BY <1>1, <2>1, <2>2 DEF Owed, Stale
  <2> QED BY <1>1, <2>1, <2>4, <2>5 DEF RoleInv
<1>9. CASE Role!NoHandler
  <2>1. /\ role_task' = "idle" /\ ~role_notified
        /\ UNCHANGED <<role_broker, role_notified, role_recreated, role_files, role_running,
                       role_lost>>
    BY <1>9 DEF Role!NoHandler, Role!instances
  <2> QED BY <1>1, <2>1 DEF RoleInv, RoleTypeInv, Stale, Owed
<1>10. CASE Role!Restart
  <2>1. /\ role_task = "handlers" /\ role_task' = "idle" /\ role_notified' = FALSE
        /\ UNCHANGED <<role_broker, role_recreated, role_files>>
    BY <1>10 DEF Role!Restart, Role!instances
  <2>2. /\ role_lost' \in BOOLEAN /\ DOMAIN role_running' = Role!Brokers
        /\ ~role_lost' => role_running'[RoleBrokers] = role_files[RoleBrokers]
    BY <1>1, <1>10 DEF Role!Restart, RoleTypeInv
  <2>3. RoleTypeInv'
    BY <1>1, <2>1, <2>2 DEF RoleTypeInv
  <2>4. Owed'
    BY <2>1, <2>2 DEF Owed, Stale
  <2> QED BY <1>1, <2>1, <2>3, <2>4 DEF RoleInv
<1>11. CASE UNCHANGED Role!vars
  <2>1. UNCHANGED <<role_task, role_broker, role_notified, role_recreated, role_files,
                    role_running, role_lost>>
    BY <1>11 DEF Role!vars, Role!instances
  <2> QED BY <1>1, <2>1 DEF RoleInv, RoleTypeInv, Stale, Owed
<1> QED BY <1>2, <1>3, <1>4, <1>5, <1>6, <1>7, <1>8, <1>9, <1>10, <1>11
        DEF Role!Next, Role!Handlers

\* Playing the role again is safe for any number of brokers and of changes to
\* the configuration, wherever a play fails: no instance is created over another
\* one, and between the plays the broker that the handler names runs with those
\* of its files whose tasks notify, unless a play that failed took the
\* notification with it.
THEOREM PlaysAreSafeHolds == Spec => []PlaysAreSafe
<1>1. Init => RoleInv
  <2> SUFFICES ASSUME Role!Init PROVE RoleInv
    BY DEF Init
  <2>1. RoleBrokers \in Role!Brokers /\ 1 \in Role!Brokers
    BY ProgramsAssumption DEF Role!Brokers
  <2>2. role_running[RoleBrokers] = role_files[RoleBrokers]
    BY <2>1 DEF Role!Init
  <2>3. /\ DOMAIN role_files = Role!Brokers /\ DOMAIN role_running = Role!Brokers
        /\ \A b \in Role!Brokers : DOMAIN role_files[b] = Role!Files
    BY DEF Role!Init, Role!None
  <2> QED BY <2>1, <2>2, <2>3, Zenon DEF Role!Init, RoleInv, RoleTypeInv, Stale, Owed
<1>2. RoleInv /\ [Next]_vars => RoleInv'
  BY Runs, RoleStep
<1>3. RoleInv => PlaysAreSafe
  BY DEF RoleInv, Owed, Stale, PlaysAreSafe, Role!PlaysAreSafe
<1> QED BY <1>1, <1>2, <1>3, PTL DEF Spec

-----------------------------------------------------------------------------
(* The loop of Queue.dispatch. *)


Positions == DOMAIN q_given.consumers

At(k) == q_given.consumers[k]

LoopTypeInv ==
  /\ q_given.consumers \in Seq(QConsumers)
  /\ \A j, k \in Positions : At(j) = At(k) => j = k
  /\ q_credit \in [QConsumers -> Nat]
  /\ q_sent \in [QConsumers -> Seq(Nat)]
  /\ q_queue \in Seq(Nat)
  /\ q_i \in Nat \ {0}

\* How many messages the consumer at position k has.
Has(k) == Len(q_sent[At(k)])

\* Between two positions of the list: nobody has more than a consumer with
\* credit left, or one more if this round has visited it already and not the
\* other one; and who was visited and has credit left is ahead of who was not.
Level(j, k) ==
  q_credit[At(j)] > 0 =>
    /\ Has(k) <= Has(j) + 1
    /\ k >= q_i \/ j < q_i => Has(k) <= Has(j)
    /\ j < q_i /\ k >= q_i => Has(k) < Has(j)

LevelInv == LoopTypeInv /\ \A j, k \in Positions : Level(j, k)

\* A call has a list of distinct consumers and a queue of numbers.
LEMMA CallType ==
  ASSUME Loop!Init
  PROVE  LoopTypeInv
<1>1. Loop!Cardinality(QConsumers) \in Nat
  <2>1. Cardinality(QConsumers) \in Nat
    BY ProgramsAssumption, FS_CardinalityType
  <2>2. Loop!Cardinality(QConsumers) = Cardinality(QConsumers)
    BY Zenon DEF Loop!Cardinality, Cardinality
  <2> QED BY <2>1, <2>2
<1>2. /\ q_given.queue \in Seq(Nat)
      /\ q_given.consumers \in Loop!Lists
      /\ q_given.credit \in [QConsumers -> 0..QCredit]
  <2>1. PICK q \in {[k \in 1..n |-> k] : n \in 0..QLength}, l \in Loop!Lists,
             f \in [QConsumers -> 0..QCredit] :
             q_given = [queue |-> q, consumers |-> l, credit |-> f]
    BY DEF Loop!Init, Loop!Calls
  <2>2. PICK n \in 0..QLength : q = [k \in 1..n |-> k]
    BY <2>1
  <2>3. q \in Seq(Nat)
    BY <2>2
  <2> QED BY <2>1, <2>3
<1>3. PICK n \in 0..Loop!Cardinality(QConsumers) :
         /\ q_given.consumers \in [1..n -> QConsumers]
         /\ \A j, k \in 1..n : q_given.consumers[j] = q_given.consumers[k] => j = k
  BY <1>2 DEF Loop!Lists
<1>4. q_given.consumers \in Seq(QConsumers) /\ DOMAIN q_given.consumers = 1..n
  BY <1>1, <1>3
<1>5. q_credit \in [QConsumers -> Nat]
  BY <1>2 DEF Loop!Init
<1> QED BY <1>2, <1>3, <1>4, <1>5 DEF Loop!Init, LoopTypeInv, At, Positions

\* The consumer visited gets the next message; the others keep what they have.
LEMMA SendAt ==
  ASSUME LoopTypeInv, Loop!Send
  PROVE  /\ q_i \in Positions
         /\ LoopTypeInv'
         /\ q_i' = q_i + 1 /\ q_given' = q_given
         /\ q_credit[At(q_i)] > 0
         /\ Len(q_sent'[At(q_i)]) = Len(q_sent[At(q_i)]) + 1
         /\ \A k \in Positions :
              k /= q_i => /\ Len(q_sent'[At(k)]) = Len(q_sent[At(k)])
                          /\ q_credit'[At(k)] = q_credit[At(k)]
<1> DEFINE c == q_given.consumers[q_i]
<1>1. q_i \in Positions /\ c \in QConsumers /\ q_given' = q_given /\ q_i' = q_i + 1
  BY DEF LoopTypeInv, Loop!Send, Loop!InLoop, Positions
<1>2. /\ q_credit[c] > 0
      /\ q_sent' = [q_sent EXCEPT ![c] = Append(@, Head(q_queue))]
      /\ q_credit' = [q_credit EXCEPT ![c] = @ - 1]
      /\ q_queue /= <<>> /\ q_queue' = Tail(q_queue)
  BY DEF Loop!Send
<1>3. Head(q_queue) \in Nat /\ Tail(q_queue) \in Seq(Nat)
  BY <1>2 DEF LoopTypeInv
<1>4. q_sent[c] \in Seq(Nat) /\ q_credit[c] \in Nat
  BY <1>1 DEF LoopTypeInv
<1>5. PICK s : s = q_sent[c]
  OBVIOUS
<1>6. Append(s, Head(q_queue)) \in Seq(Nat) /\ Len(Append(s, Head(q_queue))) = Len(s) + 1
  BY <1>3, <1>4, <1>5
<1>7. q_sent'[c] = Append(s, Head(q_queue)) /\ q_sent' \in [QConsumers -> Seq(Nat)]
  BY <1>1, <1>2, <1>5, <1>6 DEF LoopTypeInv
<1>8. q_credit' \in [QConsumers -> Nat]
  <2>1. q_credit[c] - 1 \in Nat
    BY <1>2, <1>4
  <2> QED BY <1>1, <1>2, <2>1 DEF LoopTypeInv
<1>9. LoopTypeInv'
  <2>1. q_i' \in Nat \ {0}
    BY <1>1 DEF LoopTypeInv
  <2>2. q_given'.consumers \in Seq(QConsumers)
    BY <1>1 DEF LoopTypeInv
  <2>3. (\A j, k \in Positions : At(j) = At(k) => j = k)'
    BY <1>1 DEF LoopTypeInv, At, Positions
  <2> QED BY <1>2, <1>3, <1>7, <1>8, <2>1, <2>2, <2>3 DEF LoopTypeInv
<1>10. ASSUME NEW k \in Positions, k /= q_i
       PROVE  Len(q_sent'[At(k)]) = Len(q_sent[At(k)]) /\ q_credit'[At(k)] = q_credit[At(k)]
  <2>1. At(k) \in QConsumers /\ At(k) /= c
    BY <1>1, <1>10 DEF LoopTypeInv, At, Positions
  <2>2. q_sent'[At(k)] = q_sent[At(k)] /\ q_credit'[At(k)] = q_credit[At(k)]
    BY <1>2, <2>1 DEF LoopTypeInv
  <2> QED BY <2>2
<1> QED BY <1>1, <1>2, <1>5, <1>6, <1>7, <1>9, <1>10 DEF Has, At

\* Every step of the loop keeps the consumers level.
LEMMA StepLevel ==
  ASSUME LevelInv, Loop!Next
  PROVE  LevelInv'
<1>1. LoopTypeInv /\ \A j, k \in Positions : Level(j, k)
  BY DEF LevelInv
<1>2. CASE Loop!Send
  <2>1. /\ LoopTypeInv' /\ q_i \in Positions /\ q_i' = q_i + 1
        /\ Positions' = Positions /\ q_given' = q_given
        /\ Positions \subseteq Nat /\ q_i \in Nat
    <3>1. LoopTypeInv' /\ q_i \in Positions /\ q_i' = q_i + 1 /\ q_given' = q_given
      BY <1>1, <1>2, SendAt
    <3>2. Positions \subseteq Nat /\ q_i \in Nat
      BY <1>1 DEF Positions, LoopTypeInv
    <3> QED BY <3>1, <3>2 DEF Positions
  <2>2. SUFFICES ASSUME NEW j \in Positions, NEW k \in Positions
                 PROVE  Level(j, k)'
    BY <2>1 DEF LevelInv
  <2>3. PICK hj, hk, nj, nk :
          /\ hj = Len(q_sent[At(j)]) /\ hk = Len(q_sent[At(k)])
          /\ nj = Len(q_sent'[At(j)]) /\ nk = Len(q_sent'[At(k)])
    OBVIOUS
  <2>4. PICK cj, dj : cj = q_credit[At(j)] /\ dj = q_credit'[At(j)]
    OBVIOUS
  <2>5. hj \in Nat /\ hk \in Nat /\ cj \in Nat /\ dj \in Nat
    <3>1. At(j) \in QConsumers /\ At(k) \in QConsumers
      BY <1>1 DEF LoopTypeInv, At, Positions
    <3>2. q_sent[At(j)] \in Seq(Nat) /\ q_sent[At(k)] \in Seq(Nat)
      BY <1>1, <3>1 DEF LoopTypeInv
    <3> QED BY <1>1, <2>1, <2>3, <2>4, <3>1, <3>2 DEF LoopTypeInv
  <2>6. /\ j = q_i => cj > 0 /\ nj = hj + 1
        /\ j /= q_i => nj = hj /\ dj = cj
        /\ k = q_i => nk = hk + 1
        /\ k /= q_i => nk = hk
    BY <1>1, <1>2, <2>3, <2>4, SendAt
  <2>7. cj > 0 =>
          /\ hk <= hj + 1
          /\ k >= q_i \/ j < q_i => hk <= hj
          /\ j < q_i /\ k >= q_i => hk < hj
    BY <1>1, <2>3, <2>4 DEF Level, Has
  <2>8. dj > 0 =>
          /\ nk <= nj + 1
          /\ k >= q_i + 1 \/ j < q_i + 1 => nk <= nj
          /\ j < q_i + 1 /\ k >= q_i + 1 => nk < nj
    BY <2>1, <2>5, <2>6, <2>7
  <2> QED BY <2>1, <2>3, <2>4, <2>8 DEF Level, Has, At
<1>3. CASE Loop!Skip
  <2>1. /\ LoopTypeInv' /\ q_i \in Positions /\ q_i' = q_i + 1
        /\ UNCHANGED <<q_given, q_credit, q_sent>> /\ q_credit[At(q_i)] = 0
        /\ Positions \subseteq Nat /\ q_i \in Nat
    BY <1>1, <1>3 DEF Loop!Skip, Loop!InLoop, LoopTypeInv, Positions, At
  <2> SUFFICES ASSUME NEW j \in Positions, NEW k \in Positions
               PROVE  Level(j, k)'
    BY <2>1 DEF LevelInv, Positions
  <2>2. PICK hj, hk, cj : hj = Has(j) /\ hk = Has(k) /\ cj = q_credit[At(j)]
    OBVIOUS
  <2>3. hj \in Nat /\ hk \in Nat
    BY <1>1, <2>2 DEF LoopTypeInv, At, Positions, Has
  <2>4. cj > 0 =>
          /\ hk <= hj + 1
          /\ k >= q_i \/ j < q_i => hk <= hj
          /\ j < q_i /\ k >= q_i => hk < hj
    BY <1>1, <2>2 DEF Level
  <2>5. j = q_i => cj = 0
    BY <2>1, <2>2
  <2> QED BY <2>1, <2>2, <2>3, <2>4, <2>5 DEF Level, Has, At
<1>4. CASE Loop!NoMoreMessages
  BY <1>1, <1>4 DEF Loop!NoMoreMessages, LoopTypeInv, LevelInv, Positions, At, Level, Has
<1>5. CASE Loop!EndOfRound
  BY <1>1, <1>5 DEF Loop!EndOfRound, LoopTypeInv, LevelInv, Positions, At, Level, Has
<1> QED BY <1>2, <1>3, <1>4, <1>5 DEF Loop!Next

\* No consumer that is owed a message falls behind: whatever the queue, the list
\* of consumers and their credit, at no moment of one call of Queue.dispatch does a
\* subscribed consumer have credit left while another one is two messages ahead.
THEOREM EvenRoundsHolds == Spec => []EvenRounds
<1>1. Init => LevelInv
  <2> SUFFICES ASSUME Loop!Init PROVE LevelInv
    BY DEF Init
  <2>1. LoopTypeInv
    BY CallType
  <2>2. \A k \in Positions : q_sent[At(k)] = << >>
    BY <2>1 DEF Loop!Init, LoopTypeInv, At, Positions
  <2>3. q_i = 1 /\ Positions \subseteq Nat \ {0}
    BY <2>1 DEF Loop!Init, LoopTypeInv, Positions
  <2> QED BY <2>1, <2>2, <2>3 DEF LevelInv, Level, Has
<1>2. LevelInv /\ [Next]_vars => LevelInv'
  <2> SUFFICES ASSUME LevelInv, UNCHANGED Loop!vars PROVE LevelInv'
    BY StepLevel, Runs
  <2> QED BY DEF LevelInv, LoopTypeInv, Positions, At, Level, Has, Loop!vars
<1>3. LevelInv => EvenRounds
  BY DEF LevelInv, Level, Has, At, Positions, EvenRounds, Loop!EvenRounds, Loop!Subscribed
<1> QED BY <1>1, <1>2, <1>3, PTL DEF Spec

\* The consumers of the call, and the positions at which they subscribed.
Subs == {At(k) : k \in Positions}

Order == Loop!Ticket

\* The slots that module Dispatch gives them, and those that were served.
Due == Slots(Subs, q_given.credit)

Handed == {s \in Due : s[1] <= Len(q_sent[s[2]])}

\* A consumer's credit pays for what it was sent.
CreditInv ==
  /\ q_given.credit \in [QConsumers -> Nat]
  /\ q_given.queue \in Seq(Nat)
  /\ \A c \in QConsumers : q_credit[c] + Len(q_sent[c]) = q_given.credit[c]
  /\ \A c \in QConsumers \ Subs : q_sent[c] = <<>>

\* The slots that were served are as many as messages left the queue, and each of
\* them got the message that its rank names.
HandedInv ==
  /\ Len(q_given.queue) = Cardinality(Handed) + Len(q_queue)
  /\ \A k \in 1..Len(q_queue) : q_queue[k] = q_given.queue[Cardinality(Handed) + k]
  /\ \A s \in Handed :
       q_sent[s[2]][s[1]] = q_given.queue[Rank(s, Subs, q_given.credit, Order)]

\* A round without a message found no credit, and dispatch ends for want of
\* messages or of credit.
RoundInv ==
  /\ q_result \in BOOLEAN /\ q_pc \in {"visit", "done"}
  /\ ~q_result => \A k \in Positions : k < q_i => q_credit[At(k)] = 0
  /\ q_pc = "done" => q_queue = <<>> \/ \A k \in Positions : q_credit[At(k)] = 0

LoopInv == LevelInv /\ CreditInv /\ HandedInv /\ RoundInv

LEMMA SubsAre ==
  ASSUME LoopTypeInv
  PROVE  /\ IsFiniteSet(Subs) /\ Subs \subseteq QConsumers
         /\ Subs = Loop!Subscribed
         /\ \A k \in Positions : k \in Nat /\ At(k) \in Subs /\ Order[At(k)] = k
         /\ \A c \in Subs : Order[c] \in Nat
<1>1. \A k \in Positions : k \in Nat /\ At(k) \in QConsumers /\ At(k) \in Subs
  BY DEF LoopTypeInv, Positions, At, Subs
<1>2. Subs \subseteq QConsumers
  BY <1>1 DEF Subs
<1>3. IsFiniteSet(Subs)
  BY <1>2, ProgramsAssumption, FS_Subset
<1>4. Subs = Loop!Subscribed
  BY DEF Subs, At, Positions, Loop!Subscribed
<1>5. ASSUME NEW k \in Positions PROVE Order[At(k)] = k
  <2>1. Order[At(k)] = CHOOSE j \in Positions : At(j) = At(k)
    BY <1>1, <1>4 DEF Order, Loop!Ticket, Positions, At
  <2>2. \A j \in Positions : At(j) = At(k) => j = k
    BY DEF LoopTypeInv
  <2> QED BY <2>1, <2>2
<1>6. \A c \in Subs : Order[c] \in Nat
  BY <1>1, <1>5 DEF Subs
<1> QED BY <1>1, <1>2, <1>3, <1>4, <1>5, <1>6

\* A slot is a round and a position.
LEMMA DueAre ==
  ASSUME LoopTypeInv, CreditInv
  PROVE  /\ \A k \in Positions, r \in Nat \ {0} :
              r <= q_given.credit[At(k)] <=> <<r, At(k)>> \in Due
         /\ \A s \in Due : \E k \in Positions :
              /\ s = <<s[1], At(k)>> /\ s[2] = At(k) /\ s[1] \in Nat \ {0}
              /\ s[1] <= q_given.credit[At(k)]
         /\ \A c \in Subs : q_given.credit[c] \in Nat
         /\ IsFiniteSet(Due) /\ Cardinality(Due) \in Nat
<1>1. \A c \in Subs : q_given.credit[c] \in Nat
  BY SubsAre DEF CreditInv
<1>2. ASSUME NEW k \in Positions, NEW r \in Nat \ {0}
      PROVE  r <= q_given.credit[At(k)] <=> <<r, At(k)>> \in Due
  <2>1. At(k) \in Subs
    BY SubsAre
  <2>2. r <= q_given.credit[At(k)] => <<r, At(k)>> \in Due
    BY <1>1, <2>1 DEF Due, Slots
  <2>3. ASSUME <<r, At(k)>> \in Due PROVE r <= q_given.credit[At(k)]
    <3>1. PICK c \in Subs : <<r, At(k)>> \in (1..q_given.credit[c]) \X {c}
      BY <2>3 DEF Due, Slots
    <3> QED BY <1>1, <3>1
  <2> QED BY <2>2, <2>3
<1>3. ASSUME NEW s \in Due
      PROVE  \E k \in Positions :
               /\ s = <<s[1], At(k)>> /\ s[2] = At(k) /\ s[1] \in Nat \ {0}
               /\ s[1] <= q_given.credit[At(k)]
  <2>1. PICK c \in Subs : s \in (1..q_given.credit[c]) \X {c}
    BY DEF Due, Slots
  <2>2. PICK k \in Positions : c = At(k)
    BY DEF Subs
  <2> QED BY <1>1, <2>1, <2>2
<1>4. IsFiniteSet(Due) /\ Cardinality(Due) \in Nat
  BY <1>1, SubsAre, SlotsFinite DEF Due
<1> QED BY <1>1, <1>2, <1>3, <1>4

\* The levels of module Dispatch: who is served next, and that those served are the
\* first ones.
LEMMA HandedInOrder ==
  ASSUME LevelInv, CreditInv
  PROVE  /\ \A s \in Due, t \in Handed : NoLater(s, t, Order) => s \in Handed
         /\ q_i \in Positions /\ q_credit[At(q_i)] > 0 =>
              LET t == <<Len(q_sent[At(q_i)]) + 1, At(q_i)>>
              IN  /\ t \in Due /\ t \notin Handed
                  /\ \A s \in Due : NoLater(s, t, Order) => s \in Handed \union {t}
<1>1. LoopTypeInv /\ \A j, k \in Positions : Level(j, k)
  BY DEF LevelInv
<1>2. ASSUME NEW k \in Positions
      PROVE  /\ At(k) \in QConsumers /\ Order[At(k)] = k /\ k \in Nat
             /\ Has(k) \in Nat /\ q_credit[At(k)] \in Nat /\ q_given.credit[At(k)] \in Nat
             /\ q_credit[At(k)] + Has(k) = q_given.credit[At(k)]
  <2>1. At(k) \in QConsumers /\ Order[At(k)] = k /\ k \in Nat
    BY <1>1, SubsAre
  <2>2. q_sent[At(k)] \in Seq(Nat)
    BY <1>1, <2>1 DEF LoopTypeInv
  <2> QED BY <1>1, <2>1, <2>2 DEF LoopTypeInv, CreditInv, Has
<1>3. ASSUME NEW s \in Due, NEW t \in Handed, NoLater(s, t, Order)
      PROVE  s \in Handed
  <2>1. PICK j \in Positions : /\ s = <<s[1], At(j)>> /\ s[2] = At(j)
                               /\ s[1] \in Nat /\ s[1] <= q_given.credit[At(j)]
    BY <1>1, DueAre
  <2>2. PICK k \in Positions : /\ t = <<t[1], At(k)>> /\ t[2] = At(k) /\ t[1] \in Nat
    BY <1>1, DueAre DEF Handed
  <2>3. s[1] < t[1] \/ (s[1] = t[1] /\ j <= k)
    BY <1>2, <1>3, <2>1, <2>2 DEF NoLater
  <2>4. t[1] <= Has(k)
    BY <2>2 DEF Handed, Has
  <2>5. q_i \in Nat
    BY <1>1 DEF LoopTypeInv
  <2>6. q_credit[At(j)] > 0 =>
          /\ Has(k) <= Has(j) + 1
          /\ k >= q_i \/ j < q_i => Has(k) <= Has(j)
    BY <1>1 DEF Level
  <2>7. PICK a, b, cj, gj, hj, hk : /\ a = s[1] /\ b = t[1] /\ cj = q_credit[At(j)]
                                    /\ gj = q_given.credit[At(j)] /\ hj = Has(j) /\ hk = Has(k)
    OBVIOUS
  <2>8. /\ a \in Nat /\ b \in Nat /\ cj \in Nat /\ gj \in Nat /\ hj \in Nat /\ hk \in Nat
        /\ cj + hj = gj /\ a <= gj /\ (a < b \/ (a = b /\ j <= k)) /\ b <= hk
        /\ j \in Nat /\ k \in Nat
        /\ cj > 0 => /\ hk <= hj + 1
                     /\ k >= q_i \/ j < q_i => hk <= hj
    BY <1>2, <2>1, <2>2, <2>3, <2>4, <2>6, <2>7
  <2>9. a <= hj
    BY <2>5, <2>8
  <2> QED BY <2>1, <2>7, <2>9 DEF Handed, Has
<1>4. ASSUME q_i \in Positions, q_credit[At(q_i)] > 0
      PROVE  LET t == <<Len(q_sent[At(q_i)]) + 1, At(q_i)>>
             IN  /\ t \in Due /\ t \notin Handed
                 /\ \A s \in Due : NoLater(s, t, Order) => s \in Handed \union {t}
  <2> DEFINE t == <<Has(q_i) + 1, At(q_i)>>
  <2>1. /\ At(q_i) \in QConsumers /\ Order[At(q_i)] = q_i /\ q_i \in Nat
        /\ Has(q_i) \in Nat /\ q_credit[At(q_i)] \in Nat /\ q_given.credit[At(q_i)] \in Nat
        /\ q_credit[At(q_i)] + Has(q_i) = q_given.credit[At(q_i)]
    BY <1>2, <1>4
  <2>2. t \in Due
    <3>1. Has(q_i) + 1 \in Nat \ {0} /\ Has(q_i) + 1 <= q_given.credit[At(q_i)]
      BY <1>4, <2>1
    <3> QED BY <1>1, <1>4, <3>1, DueAre
  <2>3. t \notin Handed
    BY <2>1 DEF Handed, Has
  <2>4. ASSUME NEW s \in Due, NoLater(s, t, Order), s /= t
        PROVE  s \in Handed
    <3>1. PICK j \in Positions : /\ s = <<s[1], At(j)>> /\ s[2] = At(j)
                                 /\ s[1] \in Nat /\ s[1] <= q_given.credit[At(j)]
      BY <1>1, DueAre
    <3>2. s[1] < Has(q_i) + 1 \/ (s[1] = Has(q_i) + 1 /\ j <= q_i)
      BY <1>2, <2>1, <2>4, <3>1 DEF NoLater
    <3>3. s[1] = Has(q_i) + 1 => j /= q_i
      BY <2>4, <3>1
    <3>4. q_credit[At(j)] > 0 =>
            /\ Has(q_i) <= Has(j)
            /\ j < q_i => Has(q_i) < Has(j)
      BY <1>1, <1>4, <2>1 DEF Level
    <3>5. PICK a, cj, gj, hj, h : /\ a = s[1] /\ cj = q_credit[At(j)] /\ h = Has(q_i)
                                  /\ gj = q_given.credit[At(j)] /\ hj = Has(j)
      OBVIOUS
    <3>6. /\ a \in Nat /\ cj \in Nat /\ gj \in Nat /\ hj \in Nat /\ h \in Nat /\ j \in Nat
          /\ cj + hj = gj /\ a <= gj /\ (a < h + 1 \/ (a = h + 1 /\ j < q_i))
          /\ cj > 0 => /\ h <= hj
                       /\ j < q_i => h < hj
      <4>1. a < h + 1 \/ (a = h + 1 /\ j < q_i)
        BY <1>2, <2>1, <3>2, <3>3, <3>5
      <4> QED BY <1>2, <2>1, <3>1, <3>4, <3>5, <4>1
    <3>7. a <= hj
      BY <3>6
    <3> QED BY <3>1, <3>5, <3>7 DEF Handed, Has
  <2> QED BY <2>2, <2>3, <2>4 DEF Has
<1> QED BY <1>3, <1>4

\* The call does not change, and its slots are those of the call.
LEMMA SameCall ==
  ASSUME q_given' = q_given
  PROVE  /\ Positions' = Positions /\ Subs' = Subs /\ Order' = Order /\ Due' = Due
         /\ \A k : At(k)' = At(k)
         /\ q_sent' = q_sent => Handed' = Handed
<1>1. /\ Positions' = Positions /\ Subs' = Subs /\ Order' = Order
      /\ \A k : At(k)' = At(k)
  BY DEF Positions, At, Subs, Order, Loop!Ticket, Loop!Subscribed
<1>2. Due' = Due
  BY <1>1 DEF Due
<1> QED BY <1>1, <1>2 DEF Handed

\* A message sent is the one that the rank of its slot names.
LEMMA SendHanded ==
  ASSUME LoopInv, Loop!Send
  PROVE  CreditInv' /\ HandedInv'
<1> DEFINE c == At(q_i)
           t == <<Len(q_sent[c]) + 1, c>>
           D == Handed
           R(s) == Rank(s, Subs, q_given.credit, Order)
           g == q_given.queue
<1>1. /\ LoopTypeInv /\ LevelInv /\ CreditInv /\ HandedInv
      /\ q_i \in Positions /\ q_credit[c] > 0 /\ q_given' = q_given
  BY SendAt DEF LoopInv, LevelInv
<1>2. /\ q_queue /= <<>> /\ q_queue' = Tail(q_queue)
      /\ q_sent' = [q_sent EXCEPT ![c] = Append(@, Head(q_queue))]
      /\ q_credit' = [q_credit EXCEPT ![c] = @ - 1]
  BY DEF Loop!Send, At
<1>3. /\ c \in QConsumers /\ c \in Subs /\ Subs \subseteq QConsumers
      /\ q_sent \in [QConsumers -> Seq(Nat)] /\ q_credit \in [QConsumers -> Nat]
      /\ q_queue \in Seq(Nat) /\ g \in Seq(Nat)
  BY <1>1, SubsAre DEF LoopTypeInv, CreditInv
<1>4. /\ Head(q_queue) = q_queue[1] /\ Tail(q_queue) \in Seq(Nat)
      /\ Len(q_queue) \in Nat /\ Len(q_queue) >= 1 /\ Len(Tail(q_queue)) = Len(q_queue) - 1
      /\ \A k \in 1..Len(Tail(q_queue)) : Tail(q_queue)[k] = q_queue[k + 1]
  BY <1>2, <1>3
<1>5. PICK s : s = q_sent[c]
  OBVIOUS
<1>6. /\ s \in Seq(Nat) /\ Len(s) \in Nat
      /\ Len(Append(s, Head(q_queue))) = Len(s) + 1
      /\ Append(s, Head(q_queue))[Len(s) + 1] = q_queue[1]
      /\ \A k \in 1..Len(s) : Append(s, Head(q_queue))[k] = s[k]
  BY <1>3, <1>4, <1>5
<1>7. /\ q_sent'[c] = Append(s, Head(q_queue)) /\ q_credit'[c] = q_credit[c] - 1
      /\ \A d \in QConsumers : d /= c => q_sent'[d] = q_sent[d] /\ q_credit'[d] = q_credit[d]
  BY <1>2, <1>3, <1>5
<1>8. CreditInv'
  <2>1. ASSUME NEW d \in QConsumers
        PROVE  q_credit'[d] + Len(q_sent'[d]) = q_given.credit[d]
    <3>1. /\ q_credit[d] + Len(q_sent[d]) = q_given.credit[d]
          /\ q_credit[c] + Len(s) = q_given.credit[c] /\ q_credit[c] \in Nat
      BY <1>1, <1>3, <1>5 DEF CreditInv
    <3>2. CASE d = c
      <4>1. q_credit'[d] = q_credit[c] - 1 /\ Len(q_sent'[d]) = Len(s) + 1
        BY <1>6, <1>7, <3>2
      <4>2. PICK x, n, y : x = q_credit[c] /\ n = Len(s) /\ y = q_given.credit[c]
        OBVIOUS
      <4>3. x \in Nat /\ n \in Nat /\ x + n = y
        BY <1>6, <3>1, <4>2
      <4>4. (x - 1) + (n + 1) = y
        BY <4>3
      <4> QED BY <3>2, <4>1, <4>2, <4>4
    <3>3. CASE d /= c
      BY <1>7, <3>1, <3>3
    <3> QED BY <3>2, <3>3
  <2>2. \A d \in QConsumers \ Subs : q_sent'[d] = <<>>
    BY <1>1, <1>3, <1>7 DEF CreditInv
  <2> QED BY <1>1, <2>1, <2>2, SameCall DEF CreditInv
<1>9. /\ IsFiniteSet(D) /\ Cardinality(D) \in Nat
      /\ R(t) = Cardinality(D) + 1 /\ t \in Due /\ t \notin D
  <2>1. /\ \A u \in Due, v \in Handed : NoLater(u, v, Order) => u \in Handed
        /\ t \in Due /\ t \notin Handed
        /\ \A u \in Due : NoLater(u, t, Order) => u \in Handed \union {t}
    BY <1>1, HandedInOrder
  <2>2. /\ IsFiniteSet(Subs) /\ \A d \in Subs : Order[d] \in Nat
        /\ \A d \in Subs : q_given.credit[d] \in Nat
        /\ Cardinality(Due) \in Nat /\ Handed \subseteq Due
    BY <1>1, SubsAre, DueAre DEF Handed
  <2> HIDE DEF t, c
  <2>3. /\ IsFiniteSet(Handed) /\ Cardinality(Handed) \in 0..Cardinality(Due)
        /\ Rank(t, Subs, q_given.credit, Order) = Cardinality(Handed) + 1
    BY <2>1, <2>2, ServedInOrder DEF Due
  <2> QED BY <2>1, <2>2, <2>3
<1>10. Handed' = D \union {t}
  <2>1. Handed' = {u \in Due : u[1] <= Len(q_sent'[u[2]])}
    BY <1>1, SameCall DEF Handed
  <2>2. ASSUME NEW u \in Due PROVE u[1] <= Len(q_sent'[u[2]]) <=> u \in D \union {t}
    <3>1. PICK k \in Positions : u = <<u[1], At(k)>> /\ u[2] = At(k) /\ u[1] \in Nat
      BY <1>1, DueAre
    <3>2. CASE u[2] = c
      <4>1. Len(q_sent'[u[2]]) = Len(s) + 1
        BY <1>6, <1>7, <3>2
      <4>2. u = t <=> u[1] = Len(s) + 1
        BY <1>5, <3>1, <3>2
      <4>3. u \in D <=> u[1] <= Len(s)
        BY <1>5, <3>2 DEF Handed
      <4>4. u[1] <= Len(s) + 1 <=> u[1] <= Len(s) \/ u[1] = Len(s) + 1
        BY <1>6, <3>1
      <4> QED BY <4>1, <4>2, <4>3, <4>4
    <3>3. CASE u[2] /= c
      <4>1. At(k) \in QConsumers
        BY <1>1, SubsAre
      <4>2. q_sent'[u[2]] = q_sent[u[2]] /\ u /= t
        BY <1>7, <3>1, <3>3, <4>1
      <4> QED BY <4>2 DEF Handed
    <3> QED BY <3>2, <3>3
  <2>3. t \in Due /\ D \subseteq Due
    BY <1>9 DEF Handed
  <2> QED BY <2>1, <2>2, <2>3
<1>11. Cardinality(Handed') = Cardinality(D) + 1
  <2> HIDE DEF t, D
  <2> QED BY <1>9, <1>10, FS_AddElement
<1>12. PICK n : n = Cardinality(D)
  OBVIOUS
<1>13. /\ n \in Nat /\ Len(g) = n + Len(q_queue) /\ Cardinality(Handed') = n + 1
       /\ \A k \in 1..Len(q_queue) : q_queue[k] = g[n + k]
  BY <1>1, <1>9, <1>11, <1>12 DEF HandedInv
<1>14. Len(g) = Cardinality(Handed') + Len(q_queue')
  BY <1>2, <1>4, <1>13
<1>15. \A k \in 1..Len(q_queue') : q_queue'[k] = g[Cardinality(Handed') + k]
  <2> SUFFICES ASSUME NEW k \in 1..Len(q_queue')
               PROVE  q_queue'[k] = g[Cardinality(Handed') + k]
    OBVIOUS
  <2>1. k + 1 \in 1..Len(q_queue) /\ n + 1 + k = n + (k + 1)
    BY <1>2, <1>4, <1>13
  <2>2. q_queue'[k] = q_queue[k + 1]
    BY <1>2, <1>4
  <2>3. q_queue[k + 1] = g[n + (k + 1)]
    BY <1>13, <2>1
  <2> QED BY <1>13, <2>1, <2>2, <2>3
<1>16. \A u \in Handed' : q_sent'[u[2]][u[1]] = g[R(u)]
  <2> SUFFICES ASSUME NEW u \in Handed' PROVE q_sent'[u[2]][u[1]] = g[R(u)]
    OBVIOUS
  <2>1. CASE u = t
    <3>1. R(u) = n + 1
      BY <1>9, <1>12, <2>1
    <3>2. q_queue[1] = g[n + 1]
      <4>1. 1 \in 1..Len(q_queue)
        BY <1>4
      <4> QED BY <1>13, <4>1
    <3>3. q_sent'[u[2]][u[1]] = q_queue[1]
      BY <1>5, <1>6, <1>7, <2>1
    <3> HIDE DEF R
    <3> QED BY <3>1, <3>2, <3>3
  <2>2. CASE u \in D
    <3>1. q_sent[u[2]][u[1]] = g[R(u)]
      BY <1>1, <2>2 DEF HandedInv
    <3>2. PICK k \in Positions : u[2] = At(k) /\ u[1] \in Nat \ {0}
      BY <1>1, <2>2, DueAre DEF Handed
    <3>3. u[1] <= Len(q_sent[u[2]]) /\ u[2] \in QConsumers
      BY <1>1, <2>2, <3>2, SubsAre DEF Handed
    <3>4. q_sent'[u[2]][u[1]] = q_sent[u[2]][u[1]]
      <4>1. CASE u[2] = c
        <5>1. u[1] \in 1..Len(s)
          BY <1>5, <1>6, <3>2, <3>3, <4>1
        <5> QED BY <1>5, <1>6, <1>7, <4>1, <5>1
      <4>2. CASE u[2] /= c
        BY <1>7, <3>3, <4>2
      <4> QED BY <4>1, <4>2
    <3> HIDE DEF R
    <3> QED BY <3>1, <3>4
  <2> QED BY <1>10, <2>1, <2>2
<1>17. HandedInv'
  <2>1. Subs' = Subs /\ Order' = Order
    BY <1>1, SameCall
  <2> QED BY <1>1, <1>14, <1>15, <1>16, <2>1 DEF HandedInv
<1> QED BY <1>8, <1>17

LEMMA StepLoop ==
  ASSUME LoopInv, [Loop!Next]_Loop!vars
  PROVE  LoopInv'
<1>1. /\ LoopTypeInv /\ LevelInv /\ CreditInv /\ HandedInv /\ RoundInv
  BY DEF LoopInv, LevelInv
<1>2. LevelInv'
  <2>1. CASE Loop!Next
    BY <1>1, <2>1, StepLevel
  <2>2. CASE UNCHANGED Loop!vars
    BY <1>1, <2>2 DEF LevelInv, LoopTypeInv, Positions, At, Level, Has, Loop!vars
  <2> QED BY <2>1, <2>2
<1>3. ASSUME UNCHANGED <<q_given, q_queue, q_credit, q_sent>>
      PROVE  CreditInv' /\ HandedInv'
  <2>1. Subs' = Subs /\ Order' = Order /\ Handed' = Handed
    BY <1>3, SameCall
  <2> QED BY <1>1, <1>3, <2>1 DEF CreditInv, HandedInv
<1>4. /\ q_i \in Nat \ {0} /\ Positions = 1..Len(q_given.consumers)
      /\ Len(q_given.consumers) \in Nat
      /\ \A k \in Positions : q_credit[At(k)] \in Nat
  <2>1. q_i \in Nat \ {0} /\ q_given.consumers \in Seq(QConsumers)
    BY <1>1 DEF LoopTypeInv
  <2>2. \A k \in Positions : q_credit[At(k)] \in Nat
    BY <1>1 DEF LoopTypeInv, Positions, At
  <2> QED BY <2>1, <2>2 DEF Positions
<1>5. CASE Loop!Skip
  <2>1. /\ UNCHANGED <<q_given, q_queue, q_credit, q_sent, q_result, q_pc>>
        /\ q_i' = q_i + 1 /\ q_credit[At(q_i)] = 0
    BY <1>5 DEF Loop!Skip, At
  <2>2. Positions' = Positions /\ \A k : At(k)' = At(k)
    BY <2>1, SameCall
  <2>3. \A k \in Positions : k < q_i + 1 => k < q_i \/ k = q_i
    BY <1>4
  <2>4. RoundInv'
    BY <1>1, <2>1, <2>2, <2>3 DEF RoundInv, At
  <2> QED BY <1>2, <1>3, <2>1, <2>4 DEF LoopInv
<1>6. CASE Loop!Send
  <2>1. RoundInv'
    <3>1. q_result' = TRUE /\ q_pc' = "visit"
      BY <1>6 DEF Loop!Send, Loop!InLoop
    <3> QED BY <3>1 DEF RoundInv
  <2> QED BY <1>2, <1>6, <2>1, SendHanded DEF LoopInv
<1>7. CASE Loop!NoMoreMessages
  <2>1. /\ UNCHANGED <<q_given, q_queue, q_credit, q_sent, q_result, q_i>>
        /\ q_pc' = "done" /\ q_queue = <<>>
    BY <1>7 DEF Loop!NoMoreMessages
  <2>2. RoundInv'
    BY <1>1, <2>1 DEF RoundInv, At, Positions
  <2> QED BY <1>2, <1>3, <2>1, <2>2 DEF LoopInv
<1>8. CASE Loop!EndOfRound
  <2>1. /\ UNCHANGED <<q_given, q_queue, q_credit, q_sent>>
        /\ q_i > Len(q_given.consumers) /\ q_pc = "visit"
        /\ IF q_result THEN q_i' = 1 /\ q_result' = FALSE /\ q_pc' = q_pc
                       ELSE q_pc' = "done" /\ q_i' = q_i /\ q_result' = q_result
    BY <1>8 DEF Loop!EndOfRound
  <2>2. Positions' = Positions /\ \A k : At(k)' = At(k)
    BY <2>1, SameCall
  <2>3. \A k \in Positions : k < q_i /\ ~(k < 1)
    BY <1>4, <2>1
  <2>4. RoundInv'
    <3>1. CASE q_result
      <4>1. q_i' = 1 /\ q_result' = FALSE /\ q_pc' = "visit"
        BY <2>1, <3>1
      <4> QED BY <2>2, <2>3, <4>1 DEF RoundInv
    <3>2. CASE ~q_result
      <4>1. q_i' = q_i /\ q_result' = q_result /\ q_pc' = "done"
        BY <2>1, <3>2
      <4>2. \A k \in Positions : q_credit[At(k)] = 0
        BY <1>1, <2>3, <3>2 DEF RoundInv
      <4> QED BY <1>1, <2>1, <2>2, <4>1, <4>2 DEF RoundInv, At
    <3> QED BY <3>1, <3>2
  <2> QED BY <1>2, <1>3, <2>1, <2>4 DEF LoopInv
<1>9. CASE UNCHANGED Loop!vars
  <2>1. UNCHANGED <<q_given, q_queue, q_credit, q_sent, q_result, q_i, q_pc>>
    BY <1>9 DEF Loop!vars
  <2>2. RoundInv'
    BY <1>1, <2>1 DEF RoundInv, At, Positions
  <2> QED BY <1>2, <1>3, <2>1, <2>2 DEF LoopInv
<1> QED BY <1>5, <1>6, <1>7, <1>8, <1>9 DEF Loop!Next

\* Module Programs' instance of the operators is that of module Dispatch.
LEMMA SameOperators ==
  ASSUME NEW q, NEW S, NEW credit, NEW ticket, NEW c
  PROVE  /\ Loop!Rest(q, S, credit) = Rest(q, S, credit)
         /\ Loop!Share(q, S, credit, ticket, c) = Share(q, S, credit, ticket, c)
<1>1. \A T : Loop!Cardinality(T) = Cardinality(T)
  BY Zenon DEF Loop!Cardinality, Cardinality
<1>2. Loop!Slots(S, credit) = Slots(S, credit)
  BY DEF Loop!Slots, Slots
<1>3. \A t : Loop!Rank(t, S, credit, ticket) = Rank(t, S, credit, ticket)
  BY <1>1, <1>2 DEF Loop!Rank, Rank, Loop!NoLater, NoLater
<1>4. Loop!Rest(q, S, credit) = Rest(q, S, credit)
  BY <1>1, <1>2 DEF Loop!Rest, Rest, Loop!Served, Served
<1>5. Loop!Rounds(q, S, credit, ticket, c) = Rounds(q, S, credit, ticket, c)
  BY <1>3 DEF Loop!Rounds, Rounds
<1>6. Loop!Quota(q, S, credit, ticket, c) = Quota(q, S, credit, ticket, c)
  BY <1>1, <1>5 DEF Loop!Quota, Quota
<1>7. Loop!Share(q, S, credit, ticket, c) = Share(q, S, credit, ticket, c)
  BY <1>3, <1>6 DEF Loop!Share, Share
<1> QED BY <1>4, <1>7

\* When dispatch has returned, the slots that were served are those that module
\* Dispatch serves.
LEMMA AllHanded ==
  ASSUME LoopInv, q_pc = "done"
  PROVE  LET g == q_given.queue
             R(s) == Rank(s, Subs, q_given.credit, Order)
         IN  /\ Cardinality(Handed) = Served(g, Subs, q_given.credit)
             /\ \A s \in Handed : R(s) <= Len(g)
             /\ \A s \in Due \ Handed : ~(R(s) <= Len(g))
<1> DEFINE g == q_given.queue
           R(s) == Rank(s, Subs, q_given.credit, Order)
<1>1. LoopTypeInv /\ LevelInv /\ CreditInv /\ HandedInv /\ RoundInv
  BY DEF LoopInv, LevelInv
<1>2. /\ IsFiniteSet(Handed) /\ Cardinality(Handed) \in 0..Cardinality(Due)
      /\ Cardinality(Due) \in Nat /\ Handed \subseteq Due
      /\ \A s \in Handed : R(s) <= Cardinality(Handed) /\ R(s) \in 1..Cardinality(Due)
      /\ \A s \in Due \ Handed : R(s) > Cardinality(Handed) /\ R(s) \in 1..Cardinality(Due)
  <2>1. \A u \in Due, v \in Handed : NoLater(u, v, Order) => u \in Handed
    BY <1>1, HandedInOrder
  <2>2. /\ IsFiniteSet(Subs) /\ \A d \in Subs : Order[d] \in Nat
        /\ \A d \in Subs : q_given.credit[d] \in Nat
        /\ Cardinality(Due) \in Nat /\ Handed \subseteq Due
    BY <1>1, SubsAre, DueAre DEF Handed
  <2>3. /\ IsFiniteSet(Handed) /\ Cardinality(Handed) \in 0..Cardinality(Due)
        /\ \A s \in Handed : R(s) <= Cardinality(Handed)
        /\ \A s \in Due \ Handed : R(s) > Cardinality(Handed)
    BY <2>1, <2>2, ServedInOrder DEF Due
  <2>4. \A s \in Due : R(s) \in 1..Cardinality(Due)
    BY <2>2, RankRange DEF Due
  <2> QED BY <2>2, <2>3, <2>4
<1>3. /\ Len(g) = Cardinality(Handed) + Len(q_queue)
      /\ g \in Seq(Nat) /\ q_queue \in Seq(Nat)
  BY <1>1 DEF HandedInv, CreditInv, LoopTypeInv
<1>4. PICK n, m, l : n = Cardinality(Handed) /\ m = Cardinality(Due) /\ l = Len(q_queue)
  OBVIOUS
<1>5. n \in 0..m /\ m \in Nat /\ l \in Nat /\ Len(g) = n + l
  BY <1>2, <1>3, <1>4
<1>6. Served(g, Subs, q_given.credit) = IF m <= Len(g) THEN m ELSE Len(g)
  BY <1>4 DEF Served, Due
<1>7. CASE q_queue = <<>>
  <2>1. l = 0
    BY <1>4, <1>7
  <2>2. Len(g) = n
    BY <1>5, <2>1
  <2> HIDE DEF g, R
  <2> QED BY <1>2, <1>4, <1>5, <1>6, <2>2 DEF g, R
<1>8. CASE \A k \in Positions : q_credit[At(k)] = 0
  <2>1. ASSUME NEW s \in Due PROVE s \in Handed
    <3>1. PICK k \in Positions : s[2] = At(k) /\ s[1] \in Nat /\ s[1] <= q_given.credit[At(k)]
      BY <1>1, DueAre
    <3>2. At(k) \in QConsumers
      BY <1>1, SubsAre
    <3>3. /\ q_credit[At(k)] + Len(q_sent[At(k)]) = q_given.credit[At(k)]
          /\ q_credit[At(k)] = 0 /\ q_sent[At(k)] \in Seq(Nat)
      BY <1>1, <1>8, <3>2 DEF CreditInv, LoopTypeInv
    <3>4. q_given.credit[At(k)] = Len(q_sent[At(k)])
      BY <3>3
    <3> QED BY <3>1, <3>4 DEF Handed
  <2>2. Handed = Due
    BY <1>2, <2>1
  <2>3. n = m
    BY <1>4, <2>2
  <2>4. m <= Len(g)
    BY <1>5, <2>3
  <2>5. ASSUME NEW s \in Handed PROVE R(s) <= Len(g)
    <3> HIDE DEF g, R
    <3> QED BY <1>2, <1>4, <1>5, <2>3
  <2> QED BY <1>4, <1>6, <2>2, <2>3, <2>4, <2>5
<1>9. q_queue = <<>> \/ \A k \in Positions : q_credit[At(k)] = 0
  BY <1>1 DEF RoundInv
<1> QED BY <1>7, <1>8, <1>9

\* What a consumer was sent is its share.
LEMMA SentIsShare ==
  ASSUME LoopInv, q_pc = "done", NEW c \in QConsumers
  PROVE  q_sent[c] = Share(q_given.queue, Subs, q_given.credit, Order, c)
<1> DEFINE g == q_given.queue
           R(s) == Rank(s, Subs, q_given.credit, Order)
           Q == Quota(g, Subs, q_given.credit, Order, c)
<1>1. LoopTypeInv /\ LevelInv /\ CreditInv /\ HandedInv /\ RoundInv
  BY DEF LoopInv, LevelInv
<1>2. q_sent[c] \in Seq(Nat) /\ Subs \subseteq QConsumers
  BY <1>1, SubsAre DEF LoopTypeInv
<1>3. PICK n : n = Len(q_sent[c])
  OBVIOUS
<1>4. n \in Nat /\ q_sent[c] = [k \in 1..n |-> q_sent[c][k]]
  BY <1>2, <1>3
<1>5. CASE c \notin Subs
  <2>1. q_sent[c] = <<>> /\ Q = 0
    BY <1>1, <1>5 DEF CreditInv, Quota
  <2>2. n = 0
    BY <1>3, <2>1
  <2>3. 1..n = {} /\ 1..Q = {}
    BY <2>1, <2>2
  <2>4. [k \in 1..n |-> q_sent[c][k]] = [k \in 1..Q |-> g[R(<<k, c>>)]]
    <3> HIDE DEF g, R, Q
    <3> QED BY <2>3
  <2> QED BY <1>4, <2>4 DEF Share
<1>6. CASE c \in Subs
  <2>1. PICK p \in Positions : c = At(p)
    BY <1>6 DEF Subs
  <2>2. q_given.credit[c] \in Nat /\ n <= q_given.credit[c]
    <3>1. /\ q_credit[c] \in Nat /\ q_credit[c] + n = q_given.credit[c]
      BY <1>1, <1>3 DEF CreditInv, LoopTypeInv
    <3>2. q_given.credit[c] \in Nat
      BY <1>1 DEF CreditInv
    <3> QED BY <1>4, <3>1, <3>2
  <2>3. ASSUME NEW r \in 1..q_given.credit[c]
        PROVE  R(<<r, c>>) <= Len(g) <=> r \in 1..n
    <3>1. <<r, c>> \in Due
      BY <1>1, <2>1, <2>2, DueAre
    <3>2. <<r, c>> \in Handed <=> r <= n
      BY <1>3, <3>1 DEF Handed
    <3>3. r <= n <=> r \in 1..n
      BY <1>4, <2>2
    <3>4. /\ \A s \in Handed : R(s) <= Len(g)
          /\ \A s \in Due \ Handed : ~(R(s) <= Len(g))
      BY AllHanded
    <3> HIDE DEF R, g
    <3> QED BY <3>1, <3>2, <3>3, <3>4
  <2>4. Rounds(g, Subs, q_given.credit, Order, c) = 1..n
    <3>1. 1..n \subseteq 1..q_given.credit[c]
      BY <1>4, <2>2
    <3>2. Rounds(g, Subs, q_given.credit, Order, c)
            = {r \in 1..q_given.credit[c] : R(<<r, c>>) <= Len(g)}
      BY DEF Rounds
    <3> HIDE DEF R, g
    <3> QED BY <2>3, <3>1, <3>2
  <2>5. Q = n
    <3>1. Cardinality(1..n) = n
      <4>1. 1 \in Int /\ n \in Int
        BY <1>4
      <4>2. Cardinality(1..n) = IF 1 > n THEN 0 ELSE n - 1 + 1
        BY <4>1, FS_Interval
      <4> QED BY <1>4, <4>2
    <3> QED BY <1>6, <2>4, <3>1 DEF Quota
  <2>6. ASSUME NEW k \in 1..n PROVE q_sent[c][k] = g[R(<<k, c>>)]
    <3>1. k \in Nat \ {0} /\ k <= n /\ k <= q_given.credit[c]
      BY <1>4, <2>2
    <3>2. <<k, c>> \in Handed
      BY <1>1, <1>3, <2>1, <3>1, DueAre DEF Handed
    <3> DEFINE s == <<k, c>>
    <3>3. q_sent[s[2]][s[1]] = g[R(s)]
      <4> HIDE DEF s
      <4> QED BY <1>1, <3>2 DEF HandedInv, s
    <3> QED BY <3>3
  <2>7. [k \in 1..n |-> q_sent[c][k]] = [k \in 1..n |-> g[R(<<k, c>>)]]
    <3> HIDE DEF g, R
    <3> QED BY <2>6
  <2> QED BY <1>4, <2>5, <2>7 DEF Share
<1> QED BY <1>5, <1>6

\* Two sequences with the same elements are the same.
LEMMA RestIsQueue ==
  ASSUME LoopInv, q_pc = "done"
  PROVE  q_queue = Rest(q_given.queue, Subs, q_given.credit)
<1> DEFINE g == q_given.queue
           t == Rest(g, Subs, q_given.credit)
<1>1. /\ g \in Seq(Nat) /\ q_queue \in Seq(Nat)
      /\ Len(g) = Cardinality(Handed) + Len(q_queue)
      /\ \A k \in 1..Len(q_queue) : q_queue[k] = g[Cardinality(Handed) + k]
      /\ Cardinality(Handed) = Served(g, Subs, q_given.credit)
      /\ LoopTypeInv /\ CreditInv
  BY AllHanded DEF LoopInv, LevelInv, LoopTypeInv, CreditInv, HandedInv
<1>2. IsFiniteSet(Subs) /\ \A d \in Subs : q_given.credit[d] \in Nat
  BY <1>1, SubsAre, DueAre
<1>3. /\ Served(g, Subs, q_given.credit) \in 0..Len(g)
      /\ t \in Seq(Nat)
      /\ Len(t) = Len(g) - Served(g, Subs, q_given.credit)
      /\ \A k \in 1..Len(t) : t[k] = g[Served(g, Subs, q_given.credit) + k]
  <2> DEFINE S  == Subs
             cr == q_given.credit
  <2>1. /\ g \in Seq(Nat) /\ IsFiniteSet(S) /\ \A d \in S : cr[d] \in Nat
    BY <1>1, <1>2
  <2> HIDE DEF g, S, cr
  <2>2. /\ Served(g, S, cr) \in 0..Len(g)
        /\ Rest(g, S, cr) \in Seq(Nat)
        /\ Len(Rest(g, S, cr)) = Len(g) - Served(g, S, cr)
        /\ \A k \in 1..Len(Rest(g, S, cr)) :
             Rest(g, S, cr)[k] = g[Served(g, S, cr) + k]
    BY <2>1, RestAndTaken
  <2> QED BY <2>2 DEF S, cr
<1> HIDE DEF g, t
<1>4. Len(t) = Len(q_queue)
  BY <1>1, <1>3
<1>5. \A k \in 1..Len(q_queue) : q_queue[k] = t[k]
  BY <1>1, <1>3, <1>4
<1>6. q_queue = t
  BY <1>1, <1>3, <1>4, <1>5, SeqEqual
<1> QED BY <1>6 DEF t, g

\* When Queue.dispatch returns, it has sent each consumer exactly the messages of
\* the slots that its credit and its place in the list earn, in order, and has left
\* the others in the queue: for every queue, list of consumers and credit the loop
\* of broker.py computes the operators that the models of the broker use.
THEOREM ComputesDispatchHolds == Spec => []ComputesDispatch
<1>1. Init => LoopInv
  <2> SUFFICES ASSUME Loop!Init PROVE LoopInv
    BY DEF Init
  <2>1. LoopTypeInv
    BY CallType
  <2>2. \A c \in QConsumers : q_sent[c] = <<>> /\ Len(q_sent[c]) = 0
    BY DEF Loop!Init
  <2>3. LevelInv
    <3>1. \A k \in Positions : Has(k) = 0
      BY <2>1, <2>2, SubsAre DEF Has
    <3>2. q_i = 1 /\ Positions \subseteq Nat \ {0}
      BY <2>1 DEF Loop!Init, LoopTypeInv, Positions
    <3> QED BY <2>1, <3>1, <3>2 DEF LevelInv, Level
  <2>4. CreditInv
    <3>1. q_queue = q_given.queue /\ q_credit = q_given.credit
      BY DEF Loop!Init
    <3>2. \A c \in QConsumers : q_credit[c] \in Nat
      BY <2>1 DEF LoopTypeInv
    <3>3. \A c \in QConsumers : q_credit[c] + Len(q_sent[c]) = q_given.credit[c]
      BY <2>2, <3>1, <3>2
    <3> QED BY <2>1, <2>2, <3>1, <3>3 DEF CreditInv, LoopTypeInv
  <2>5. Handed = {}
    <3> SUFFICES ASSUME NEW s \in Handed PROVE FALSE
      OBVIOUS
    <3>1. PICK k \in Positions : s[2] = At(k) /\ s[1] \in Nat \ {0}
      BY <2>1, <2>4, DueAre DEF Handed
    <3>2. Len(q_sent[s[2]]) = 0
      BY <2>1, <2>2, <3>1, SubsAre
    <3> QED BY <3>1, <3>2 DEF Handed
  <2>6. HandedInv
    <3>1. Cardinality(Handed) = 0
      BY <2>5, FS_EmptySet
    <3>2. q_queue = q_given.queue /\ q_queue \in Seq(Nat)
      BY <2>1 DEF Loop!Init, LoopTypeInv
    <3>3. \A k \in 1..Len(q_queue) : 0 + k = k
      BY <3>2
    <3> QED BY <2>5, <3>1, <3>2, <3>3 DEF HandedInv
  <2>7. RoundInv
    <3>1. q_i = 1 /\ q_result = FALSE /\ q_pc = "visit" /\ \A k \in Positions : ~(k < 1)
      BY <2>1 DEF Loop!Init, LoopTypeInv, Positions
    <3> QED BY <3>1 DEF RoundInv
  <2> QED BY <2>3, <2>4, <2>6, <2>7 DEF LoopInv
<1>2. LoopInv /\ [Next]_vars => LoopInv'
  BY Runs, StepLoop
<1>3. LoopInv => ComputesDispatch
  <2> SUFFICES ASSUME LoopInv, q_pc = "done" PROVE ComputesDispatch
    BY DEF ComputesDispatch, Loop!ComputesDispatch
  <2>1. Subs = Loop!Subscribed
    BY SubsAre DEF LoopInv, LevelInv
  <2>2. q_queue = Loop!Rest(q_given.queue, Loop!Subscribed, q_given.credit)
    BY <2>1, RestIsQueue, SameOperators
  <2>3. ASSUME NEW c \in QConsumers
        PROVE  /\ q_sent[c] = Loop!Share(q_given.queue, Loop!Subscribed, q_given.credit,
                                         Loop!Ticket, c)
               /\ q_credit[c] = q_given.credit[c] - Len(q_sent[c])
    <3>1. q_sent[c] = Share(q_given.queue, Subs, q_given.credit, Order, c)
      BY SentIsShare
    <3>2. Share(q_given.queue, Subs, q_given.credit, Order, c)
            = Loop!Share(q_given.queue, Subs, q_given.credit, Order, c)
      BY SameOperators
    <3>3. /\ q_credit[c] + Len(q_sent[c]) = q_given.credit[c]
          /\ q_credit[c] \in Nat /\ q_sent[c] \in Seq(Nat)
      BY DEF LoopInv, CreditInv, LevelInv, LoopTypeInv
    <3>4. q_credit[c] = q_given.credit[c] - Len(q_sent[c])
      BY <3>3
    <3> QED BY <2>1, <3>1, <3>2, <3>4 DEF Order
  <2> QED BY <2>2, <2>3 DEF ComputesDispatch, Loop!ComputesDispatch
<1> QED BY <1>1, <1>2, <1>3, PTL DEF Spec

-----------------------------------------------------------------------------
(* The listeners of the JMS throughput test. *)

\* Counting on either fills up the batch by one or completes it.
LEMMA NextInBatch ==
  ASSUME NEW n \in Nat, NEW b \in Nat \ {0}
  PROVE  /\ n % b \in 0..(b - 1)
         /\ (n + 1) % b = 0 \/ (n + 1) % b = (n % b) + 1
<1>1. n % b \in 0..(b - 1) /\ n = b * (n \div b) + (n % b)
  BY SMT
<1>2. (n + 1) % b \in 0..(b - 1) /\ n + 1 = b * ((n + 1) \div b) + ((n + 1) % b)
  BY SMT
<1>3. n \div b \in Nat /\ (n + 1) \div b \in Nat
  BY SMT
<1>4. PICK q, p, r, s : q = n \div b /\ p = (n + 1) \div b /\ r = n % b /\ s = (n + 1) % b
  OBVIOUS
<1>5. q \in Nat /\ p \in Nat /\ r \in 0..(b - 1) /\ s \in 0..(b - 1)
  BY <1>1, <1>2, <1>3, <1>4
<1>6. b * p + s = b * q + r + 1
  BY <1>1, <1>2, <1>4
<1>7. CASE p = q
  BY <1>1, <1>4, <1>5, <1>6, <1>7
<1>8. CASE p >= q + 1
  <2>1. b * p >= b * q + b
    BY <1>5, <1>8
  <2> QED BY <1>1, <1>4, <1>5, <1>6, <2>1
<1>9. CASE p <= q - 1
  <2>1. b * q >= b * p + b
    BY <1>5, <1>9
  <2> QED BY <1>5, <1>6, <2>1
<1> QED BY <1>5, <1>7, <1>8, <1>9

\* What listener l may have received since its last commit.  Warming up it commits
\* before it counts, and thus starts each batch with the message after the one
\* that completes it.  What is left of that is not committed when the count starts
\* anew, but with the first batch of the new count.
Limit(l) ==
  IF l \in jms_started
  THEN (JmsBatch - 1) + (jms_count[l] % JmsBatch)
  ELSE IF l \notin jms_warmingUp THEN JmsBatch - 1
  ELSE IF jms_count[l] = 0 THEN 0
  ELSE (jms_count[l] - 1) % JmsBatch

ListenerTypeInv ==
  /\ jms_count \in [JmsListeners -> Nat]
  /\ jms_uncommitted \in [JmsListeners -> Nat]
  /\ jms_started \intersect jms_warmingUp = {}

BatchInv ==
  /\ ListenerTypeInv
  /\ \A l \in JmsListeners : jms_uncommitted[l] <= Limit(l)

\* The limit is less than two batches.
LEMMA LimitType ==
  ASSUME ListenerTypeInv, NEW l \in JmsListeners
  PROVE  Limit(l) \in Int /\ Limit(l) <= 2 * JmsBatch - 2
<1>1. JmsBatch \in Nat \ {0} /\ jms_count[l] \in Nat
  BY ProgramsAssumption DEF ListenerTypeInv
<1>2. jms_count[l] % JmsBatch \in 0..(JmsBatch - 1)
  BY <1>1, NextInBatch
<1>3. jms_count[l] /= 0 => (jms_count[l] - 1) % JmsBatch \in 0..(JmsBatch - 1)
  <2>1. HAVE jms_count[l] /= 0
  <2>2. jms_count[l] - 1 \in Nat
    BY <1>1, <2>1
  <2> QED BY <1>1, <2>2, NextInBatch
<1> DEFINE r == jms_count[l] % JmsBatch
           s == (jms_count[l] - 1) % JmsBatch
<1>4. Limit(l) \in {0, (JmsBatch - 1) + r, JmsBatch - 1}
        \/ (jms_count[l] /= 0 /\ Limit(l) = s)
  BY DEF Limit
<1> HIDE DEF r, s
<1>5. r \in 0..(JmsBatch - 1) /\ (jms_count[l] /= 0 => s \in 0..(JmsBatch - 1))
  BY <1>2, <1>3 DEF r, s
<1> QED BY <1>1, <1>4, <1>5

\* A message counted as the n-th is added to what is not committed, or commits it.
LEMMA TakesOne ==
  ASSUME ListenerTypeInv, NEW l, NEW n \in Nat, NEW commits, Jms!Takes(l, n, commits)
  PROVE  /\ l \in JmsListeners
         /\ jms_count' = [jms_count EXCEPT ![l] = n]
         /\ jms_count' \in [JmsListeners -> Nat]
         /\ jms_uncommitted' \in [JmsListeners -> Nat]
         /\ jms_uncommitted'[l] \in {0, jms_uncommitted[l] + 1}
         /\ commits => jms_uncommitted'[l] = 0
         /\ ~jms_transacted => jms_uncommitted'[l] = 0
         /\ \A k \in JmsListeners : k /= l => jms_uncommitted'[k] = jms_uncommitted[k]
<1>1. /\ l \in JmsListeners
      /\ jms_count' = [jms_count EXCEPT ![l] = n]
  BY DEF Jms!Takes, Jms!Running
<1>2. PICK u : /\ u \in {0, jms_uncommitted[l] + 1}
               /\ jms_uncommitted' = [jms_uncommitted EXCEPT ![l] = u]
               /\ commits => u = 0
               /\ ~jms_transacted => u = 0
  <2>1. CASE commits \/ ~jms_transacted
    <3>1. jms_uncommitted' = [jms_uncommitted EXCEPT ![l] = 0]
      BY <2>1 DEF Jms!Takes
    <3> QED BY <3>1
  <2>2. CASE ~(commits \/ ~jms_transacted)
    <3>1. jms_uncommitted' = [jms_uncommitted EXCEPT ![l] = @ + 1]
      BY <2>2 DEF Jms!Takes
    <3> QED BY <2>2, <3>1
  <2> QED BY <2>1, <2>2
<1>3. u \in Nat
  BY <1>1, <1>2 DEF ListenerTypeInv
<1> QED BY <1>1, <1>2, <1>3 DEF ListenerTypeInv

LEMMA BatchStep ==
  ASSUME BatchInv, [Jms!Next]_Jms!vars
  PROVE  BatchInv'
<1>1. /\ ListenerTypeInv /\ JmsBatch \in Nat \ {0}
      /\ \A l \in JmsListeners : jms_uncommitted[l] <= Limit(l)
  BY ProgramsAssumption DEF BatchInv
<1>2. ASSUME NEW p \in Jms!Producers, Jms!SendMessage(p) \/ Jms!SenderEnds(p)
      PROVE  BatchInv'
  <2>1. UNCHANGED <<jms_count, jms_uncommitted, jms_started, jms_warmingUp>>
    BY <1>2 DEF Jms!SendMessage, Jms!SenderEnds
  <2> QED BY <1>1, <2>1 DEF BatchInv, ListenerTypeInv, Limit
<1>3. ASSUME NEW l \in JmsListeners, Jms!OnWarmup(l)
      PROVE  BatchInv'
  <2> DEFINE n == jms_count[l] + 1
  <2>1. n \in Nat /\ l \in jms_warmingUp /\ l \notin jms_started /\ jms_started' = jms_started
    BY <1>1, <1>3 DEF Jms!OnWarmup, ListenerTypeInv
  <2>2. PICK commits :
          /\ Jms!Takes(l, n, commits)
          /\ jms_transacted /\ jms_count[l] % JmsBatch = 0 => commits
    BY <1>3, Zenon DEF Jms!OnWarmup, Jms!Commits
  <2>3. jms_warmingUp' \in {jms_warmingUp, jms_warmingUp \ {l}}
    BY <1>3 DEF Jms!OnWarmup
  <2>4. /\ jms_count' = [jms_count EXCEPT ![l] = n]
        /\ jms_count' \in [JmsListeners -> Nat]
        /\ jms_uncommitted' \in [JmsListeners -> Nat]
        /\ jms_uncommitted'[l] \in {0, jms_uncommitted[l] + 1}
        /\ commits => jms_uncommitted'[l] = 0
        /\ ~jms_transacted => jms_uncommitted'[l] = 0
        /\ \A k \in JmsListeners : k /= l => jms_uncommitted'[k] = jms_uncommitted[k]
    BY <1>1, <2>1, <2>2, TakesOne
  <2>5. jms_uncommitted'[l] <= jms_count[l] % JmsBatch
    <3>1. jms_count[l] % JmsBatch = 0 => jms_uncommitted'[l] = 0
      BY <2>2, <2>4
    <3>2. jms_count[l] % JmsBatch \in Nat
      BY <1>1, NextInBatch DEF ListenerTypeInv
    <3>3. jms_count[l] % JmsBatch /= 0 =>
            /\ jms_count[l] /= 0
            /\ jms_count[l] % JmsBatch = ((jms_count[l] - 1) % JmsBatch) + 1
      <4>1. jms_count[l] = 0 => jms_count[l] % JmsBatch = 0
        BY <1>1, <3>2, SMT
      <4>2. jms_count[l] /= 0 => jms_count[l] - 1 \in Nat
        BY <1>1 DEF ListenerTypeInv
      <4>3. PICK c : c = jms_count[l]
        OBVIOUS
      <4>4. c \in Nat
        BY <1>1, <4>3 DEF ListenerTypeInv
      <4>5. c /= 0 => (c - 1) + 1 = c /\ c - 1 \in Nat
        BY <4>4
      <4>6. c /= 0 => c % JmsBatch = 0 \/ c % JmsBatch = ((c - 1) % JmsBatch) + 1
        <5>1. HAVE c /= 0
        <5>2. PICK m \in Nat : m = c - 1 /\ m + 1 = c
          BY <4>5, <5>1
        <5> QED BY <1>1, <5>2, NextInBatch
      <4> QED BY <4>1, <4>3, <4>6
    <3>4. jms_uncommitted[l] <= Limit(l) /\ jms_uncommitted[l] \in Nat
      BY <1>1 DEF ListenerTypeInv
    <3>5. jms_count[l] /= 0 => jms_uncommitted[l] <= (jms_count[l] - 1) % JmsBatch
      BY <2>1, <3>4 DEF Limit
    <3> DEFINE r == (jms_count[l] - 1) % JmsBatch
               u == jms_uncommitted[l]
    <3>6. jms_count[l] % JmsBatch /= 0 => u + 1 <= jms_count[l] % JmsBatch
      <4>1. HAVE jms_count[l] % JmsBatch /= 0
      <4>2. jms_count[l] % JmsBatch = r + 1 /\ u <= r
        BY <3>3, <3>5, <4>1
      <4>3. r \in Nat
        <5>1. jms_count[l] - 1 \in Nat
          BY <1>1, <3>3, <4>1 DEF ListenerTypeInv
        <5> QED BY <1>1, <5>1, NextInBatch
      <4> HIDE DEF r, u
      <4> QED BY <3>4, <4>2, <4>3 DEF u
    <3> QED BY <2>4, <3>1, <3>2, <3>6
  <2>6. (jms_count[l] % JmsBatch \in 0..(JmsBatch - 1)) /\ n - 1 = jms_count[l] /\ n /= 0
    <3>1. jms_count[l] \in Nat
      BY <1>1 DEF ListenerTypeInv
    <3>2. jms_count[l] % JmsBatch \in 0..(JmsBatch - 1)
      BY <1>1, <3>1, NextInBatch
    <3> QED BY <3>1, <3>2
  <2>7. jms_uncommitted'[l] <= Limit(l)'
    <3>1. jms_count'[l] = n
      BY <1>1, <2>4 DEF ListenerTypeInv
    <3>2. l \in jms_warmingUp' => Limit(l)' = jms_count[l] % JmsBatch
      BY <2>1, <2>6, <3>1 DEF Limit
    <3>3. l \notin jms_warmingUp' => Limit(l)' = JmsBatch - 1
      BY <2>1 DEF Limit
    <3>4. jms_uncommitted'[l] \in Nat
      BY <2>4
    <3> QED BY <1>1, <2>5, <2>6, <3>2, <3>3, <3>4
  <2>8. ASSUME NEW k \in JmsListeners, k /= l
        PROVE  jms_uncommitted'[k] <= Limit(k)'
    <3>1. /\ jms_uncommitted'[k] = jms_uncommitted[k]
          /\ jms_count'[k] = jms_count[k]
          /\ k \in jms_warmingUp' <=> k \in jms_warmingUp
      BY <1>1, <2>3, <2>4, <2>8 DEF ListenerTypeInv
    <3>2. Limit(k)' = Limit(k)
      BY <2>1, <3>1, Zenon DEF Limit
    <3> QED BY <1>1, <3>1, <3>2
  <2>9. ListenerTypeInv'
    BY <1>1, <2>1, <2>3, <2>4 DEF ListenerTypeInv
  <2> QED BY <2>7, <2>8, <2>9 DEF BatchInv
<1>4. ASSUME NEW l \in JmsListeners, Jms!OnMessage(l)
      PROVE  BatchInv'
  <2> DEFINE n == IF l \in jms_started THEN jms_count[l] + 1 ELSE 1
  <2>1. /\ n \in Nat /\ l \notin jms_warmingUp
        /\ jms_started' = jms_started \union {l} /\ jms_warmingUp' = jms_warmingUp
    BY <1>1, <1>4 DEF Jms!OnMessage, ListenerTypeInv
  <2>2. PICK commits :
          /\ Jms!Takes(l, n, commits)
          /\ jms_transacted /\ n % JmsBatch = 0 => commits
    BY <1>4, Zenon DEF Jms!OnMessage, Jms!Commits
  <2>3. /\ jms_count' = [jms_count EXCEPT ![l] = n]
        /\ jms_count' \in [JmsListeners -> Nat]
        /\ jms_uncommitted' \in [JmsListeners -> Nat]
        /\ jms_uncommitted'[l] \in {0, jms_uncommitted[l] + 1}
        /\ commits => jms_uncommitted'[l] = 0
        /\ ~jms_transacted => jms_uncommitted'[l] = 0
        /\ \A k \in JmsListeners : k /= l => jms_uncommitted'[k] = jms_uncommitted[k]
    <3> HIDE DEF n
    <3> QED BY <1>1, <2>1, <2>2, TakesOne
  <2>4. n % JmsBatch = 0 => jms_uncommitted'[l] = 0
    BY <2>2, <2>3
  <2>5. n % JmsBatch \in Nat
    BY <1>1, <2>1, NextInBatch
  <2>6. n % JmsBatch /= 0 => jms_uncommitted[l] + 1 <= (JmsBatch - 1) + (n % JmsBatch)
    <3>1. HAVE n % JmsBatch /= 0
    <3>2. jms_uncommitted[l] <= Limit(l) /\ jms_uncommitted[l] \in Nat
      BY <1>1 DEF ListenerTypeInv
    <3>3. CASE l \in jms_started
      <4>1. n = jms_count[l] + 1 /\ Limit(l) = (JmsBatch - 1) + (jms_count[l] % JmsBatch)
        BY <3>3 DEF Limit
      <4>2. /\ jms_count[l] % JmsBatch \in Nat
            /\ n % JmsBatch = (jms_count[l] % JmsBatch) + 1
        <5>1. PICK c \in Nat : c = jms_count[l]
          BY <1>1 DEF ListenerTypeInv
        <5>2. n = c + 1
          BY <4>1, <5>1
        <5> HIDE DEF n
        <5>3. n % JmsBatch = (c + 1) % JmsBatch
          BY <5>2
        <5>4. JmsBatch \in Nat \ {0}
          BY <1>1
        <5>5. c % JmsBatch \in Nat
          BY <5>4
        <5>6. (c + 1) % JmsBatch = 0 \/ (c + 1) % JmsBatch = (c % JmsBatch) + 1
          BY <5>4, NextInBatch, Zenon
        <5> QED BY <3>1, <5>1, <5>3, <5>5, <5>6
      <4> DEFINE r == jms_count[l] % JmsBatch
                 s == n % JmsBatch
                 u == jms_uncommitted[l]
      <4>3. u <= (JmsBatch - 1) + r /\ s = r + 1 /\ r \in Nat /\ u \in Nat
        BY <3>2, <4>1, <4>2
      <4> HIDE DEF r, s, u
      <4>4. u + 1 <= (JmsBatch - 1) + s
        BY <1>1, <4>3
      <4> QED BY <4>4 DEF s, u
    <3>4. CASE l \notin jms_started
      <4>1. Limit(l) = JmsBatch - 1
        BY <2>1, <3>4 DEF Limit
      <4> DEFINE s == n % JmsBatch
                 u == jms_uncommitted[l]
      <4>2. s \in Nat /\ s /= 0 /\ u \in Nat /\ u <= JmsBatch - 1
        BY <2>5, <3>1, <3>2, <4>1
      <4> HIDE DEF s, u
      <4>3. u + 1 <= (JmsBatch - 1) + s
        BY <1>1, <4>2
      <4> QED BY <4>3 DEF s, u
    <3> QED BY <3>3, <3>4
  <2>7. jms_uncommitted'[l] <= Limit(l)'
    <3>1. Limit(l)' = (JmsBatch - 1) + (n % JmsBatch)
      BY <1>1, <2>1, <2>3 DEF Limit, ListenerTypeInv
    <3> HIDE DEF n
    <3> QED BY <1>1, <2>3, <2>4, <2>5, <2>6, <3>1
  <2>8. ASSUME NEW k \in JmsListeners, k /= l
        PROVE  jms_uncommitted'[k] <= Limit(k)'
    <3>1. /\ jms_uncommitted'[k] = jms_uncommitted[k]
          /\ jms_count'[k] = jms_count[k]
          /\ k \in jms_started' <=> k \in jms_started
      BY <1>1, <2>1, <2>3, <2>8 DEF ListenerTypeInv
    <3>2. Limit(k)' = Limit(k)
      BY <2>1, <3>1, Zenon DEF Limit
    <3> QED BY <1>1, <3>1, <3>2
  <2>9. ListenerTypeInv'
    BY <1>1, <2>1, <2>3 DEF ListenerTypeInv
  <2> QED BY <2>7, <2>8, <2>9 DEF BatchInv
<1>5. ASSUME NEW l \in JmsListeners, Jms!ConsumerEnds(l)
      PROVE  BatchInv'
  <2>1. /\ UNCHANGED <<jms_count, jms_warmingUp, jms_started>>
        /\ jms_uncommitted' = [jms_uncommitted EXCEPT ![l] = 0]
    BY <1>5 DEF Jms!ConsumerEnds
  <2>2. ListenerTypeInv'
    BY <1>1, <2>1 DEF ListenerTypeInv
  <2>3. ASSUME NEW k \in JmsListeners
        PROVE  jms_uncommitted'[k] <= Limit(k)'
    <3>1. jms_uncommitted'[k] <= jms_uncommitted[k] /\ jms_uncommitted'[k] \in Nat
      BY <1>1, <2>1 DEF ListenerTypeInv
    <3>2. Limit(k)' = Limit(k)
      BY <2>1, Zenon DEF Limit
    <3>3. jms_uncommitted[k] <= Limit(k) /\ jms_uncommitted[k] \in Nat /\ Limit(k) \in Int
      BY <1>1, LimitType DEF ListenerTypeInv
    <3> QED BY <3>1, <3>2, <3>3
  <2> QED BY <2>2, <2>3 DEF BatchInv
<1>6. CASE UNCHANGED Jms!vars
  BY <1>1, <1>6 DEF Jms!vars, BatchInv, ListenerTypeInv, Limit
<1> QED BY <1>2, <1>3, <1>4, <1>5, <1>6 DEF Jms!Next

\* Less than two batches: whatever the numbers of warm-up messages, of messages and
\* of listeners, and the size of a batch, at no moment would a listener's session
\* lose two batches when it is closed, or more.
THEOREM LessThanTwoBatchesHolds == Spec => []LessThanTwoBatches
<1>1. Init => BatchInv
  <2> SUFFICES ASSUME Jms!Init PROVE BatchInv
    BY DEF Init
  <2>1. ListenerTypeInv
    BY DEF Jms!Init, ListenerTypeInv
  <2>2. ASSUME NEW l \in JmsListeners PROVE jms_uncommitted[l] <= Limit(l)
    <3>1. jms_uncommitted[l] = 0 /\ jms_count[l] = 0 /\ l \notin jms_started
      BY DEF Jms!Init
    <3> QED BY <3>1, ProgramsAssumption DEF Limit
  <2> QED BY <2>1, <2>2 DEF BatchInv
<1>2. BatchInv /\ [Next]_vars => BatchInv'
  BY Runs, BatchStep
<1>3. BatchInv => LessThanTwoBatches
  <2> SUFFICES ASSUME BatchInv, NEW l \in JmsListeners
               PROVE  jms_uncommitted[l] < 2 * JmsBatch
    BY DEF LessThanTwoBatches, Jms!LessThanTwoBatches
  <2>1. jms_uncommitted[l] <= Limit(l) /\ jms_uncommitted[l] \in Nat
    BY DEF BatchInv, ListenerTypeInv
  <2>2. Limit(l) \in Int /\ Limit(l) <= 2 * JmsBatch - 2 /\ JmsBatch \in Nat \ {0}
    BY LimitType, ProgramsAssumption DEF BatchInv
  <2> QED BY <2>1, <2>2
<1> QED BY <1>1, <1>2, <1>3, PTL DEF Spec

-----------------------------------------------------------------------------
(* The throughput programs. *)

RateTypeInv ==
  /\ rate_sent \in 0..RateTotal
  /\ rate_confirmed \in Nat /\ rate_acks \in Nat /\ rate_again \in Nat
  /\ rate_received \in Nat
  /\ rate_store \in Seq(Nat) /\ rate_unsettled \in Seq(Nat)
  /\ IsFiniteSet(rate_measured)

\* What the node has accepted of the sender and the receiver has not counted is in
\* its store; and what was counted or will be is what was accepted, once more for
\* each time that it was sent or handed out again.
RateInv ==
  /\ RateTypeInv
  /\ Carries(rate_wire, rate_confirmed + rate_acks, rate_sent)
  /\ 1..(rate_confirmed + rate_acks) \subseteq rate_measured \union Elements(rate_store)
  /\ rate_received + Len(rate_store) <= rate_confirmed + rate_acks + rate_again

LEMMA RateStep ==
  ASSUME RateInv, [Rate!Next]_Rate!vars
  PROVE  RateInv'
<1>1. /\ RateTypeInv
      /\ Carries(rate_wire, rate_confirmed + rate_acks, rate_sent)
      /\ 1..(rate_confirmed + rate_acks) \subseteq rate_measured \union Elements(rate_store)
      /\ rate_received + Len(rate_store) <= rate_confirmed + rate_acks + rate_again
      /\ RateTotal \in Nat /\ RateCredit \in Nat
  BY ProgramsAssumption DEF RateInv
<1>2. CASE Rate!OnSendable
  <2>1. PICK c \in 1..RateCredit :
          /\ rate_wire' = rate_wire \o [k \in 1..Rate!Batch(c) |-> rate_sent + k]
          /\ rate_sent' = rate_sent + Rate!Batch(c)
    BY <1>2 DEF Rate!OnSendable
  <2>2. Rate!Batch(c) \in Nat /\ rate_sent' \in 0..RateTotal
    BY <1>1, <2>1 DEF Rate!Batch, RateTypeInv
  <2>3. /\ UNCHANGED <<rate_confirmed, rate_acks, rate_again, rate_received, rate_store,
                       rate_unsettled, rate_measured>>
    BY <1>2 DEF Rate!OnSendable, Rate!receiver
  <2>4. Carries(rate_wire', rate_confirmed' + rate_acks', rate_sent')
    <3>1. PICK n \in Nat : n = Rate!Batch(c)
      BY <2>2
    <3>2. /\ rate_wire' = rate_wire \o [k \in 1..n |-> rate_sent + k]
          /\ rate_sent' = rate_sent + n
      BY <2>1, <3>1
    <3> QED BY <1>1, <2>3, <3>2, CarriesMore
  <2> QED BY <1>1, <2>2, <2>3, <2>4 DEF RateInv, RateTypeInv
<1>3. CASE Rate!OnAccepted
  <2>1. /\ rate_acks > 0 /\ rate_acks' = rate_acks - 1 /\ rate_confirmed' = rate_confirmed + 1
        /\ UNCHANGED <<rate_sent, rate_wire, rate_again, rate_received, rate_store,
                       rate_unsettled, rate_measured>>
    BY <1>3 DEF Rate!OnAccepted, Rate!receiver
  <2>2. /\ rate_confirmed' \in Nat /\ rate_acks' \in Nat
        /\ rate_confirmed' + rate_acks' = rate_confirmed + rate_acks
    BY <1>1, <2>1 DEF RateTypeInv
  <2> QED BY <1>1, <2>1, <2>2 DEF RateInv, RateTypeInv
<1>4. CASE Rate!OnDisconnected
  <2>1. /\ rate_sent' = rate_confirmed /\ rate_again' = rate_again + (rate_sent - rate_confirmed)
        /\ rate_wire' = <<>> /\ rate_acks' = 0
        /\ UNCHANGED <<rate_confirmed, rate_received, rate_store, rate_unsettled, rate_measured>>
    BY <1>4 DEF Rate!OnDisconnected, Rate!receiver
  <2>2. rate_confirmed + rate_acks <= rate_sent
    BY <1>1, CarriesMore
  <2>3. Len(rate_store) \in Nat
    BY <1>1 DEF RateTypeInv
  <2>4. /\ rate_sent' \in 0..RateTotal /\ rate_again' \in Nat
        /\ rate_received' + Len(rate_store') <= rate_confirmed' + rate_acks' + rate_again'
        /\ 1..(rate_confirmed' + rate_acks') \subseteq 1..(rate_confirmed + rate_acks)
        /\ rate_confirmed' + rate_acks' = rate_confirmed
    <3> DEFINE l == Len(rate_store)
    <3>1. /\ Len(rate_store') = l /\ l \in Nat
          /\ rate_received + l <= rate_confirmed + rate_acks + rate_again
      BY <1>1, <2>1, <2>3
    <3> HIDE DEF l
    <3> QED BY <1>1, <2>1, <2>2, <3>1 DEF RateTypeInv
  <2>5. RateTypeInv'
    BY <1>1, <2>1, <2>4 DEF RateTypeInv
  <2>6. Carries(rate_wire', rate_confirmed' + rate_acks', rate_sent')
    BY <1>1, <2>1, <2>4, CarriesNothing DEF RateTypeInv
  <2>7. 1..(rate_confirmed' + rate_acks') \subseteq rate_measured' \union Elements(rate_store')
    BY <1>1, <2>1, <2>4
  <2> QED BY <2>4, <2>5, <2>6, <2>7 DEF RateInv
<1>5. CASE Rate!NodeAccepts
  <2>1. /\ rate_wire /= <<>> /\ rate_wire' = Tail(rate_wire)
        /\ rate_store' = Append(rate_store, Head(rate_wire)) /\ rate_acks' = rate_acks + 1
        /\ UNCHANGED <<rate_sent, rate_confirmed, rate_again, rate_received, rate_unsettled,
                       rate_measured>>
    BY <1>5 DEF Rate!NodeAccepts, Rate!receiver
  <2> DEFINE n == rate_confirmed + rate_acks
  <2>2. /\ Head(rate_wire) = n + 1
        /\ Carries(Tail(rate_wire), n + 1, rate_sent)
    BY <1>1, <2>1, CarriesFirst
  <2>3. n \in Nat /\ rate_confirmed' + rate_acks' = n + 1 /\ rate_acks' \in Nat
    BY <1>1, <2>1 DEF RateTypeInv
  <2> HIDE DEF n
  <2>4. /\ rate_store' \in Seq(Nat) /\ Len(rate_store') = Len(rate_store) + 1
        /\ Elements(rate_store') = Elements(rate_store) \union {n + 1}
    <3>1. rate_store \in Seq(Nat) /\ n + 1 \in Nat /\ rate_store' = Append(rate_store, n + 1)
      BY <1>1, <2>1, <2>2, <2>3 DEF RateTypeInv
    <3> QED BY <3>1, Added
  <2>5. RateTypeInv'
    BY <1>1, <2>1, <2>3, <2>4 DEF RateTypeInv
  <2>6. Carries(rate_wire', rate_confirmed' + rate_acks', rate_sent')
    BY <2>1, <2>2, <2>3
  <2>7. 1..(n + 1) \subseteq rate_measured' \union Elements(rate_store')
    <3>1. 1..n \subseteq rate_measured \union Elements(rate_store)
      BY <1>1 DEF n
    <3>2. 1..(n + 1) = (1..n) \union {n + 1}
      BY <2>3
    <3> QED BY <2>1, <2>4, <3>1, <3>2
  <2>8. rate_received' + Len(rate_store') <= rate_confirmed' + rate_acks' + rate_again'
    <3> DEFINE l == Len(rate_store)
    <3>1. /\ Len(rate_store') = l + 1 /\ l \in Nat
          /\ rate_received + l <= n + rate_again
      BY <1>1, <2>4 DEF RateTypeInv, n
    <3> HIDE DEF l
    <3> QED BY <1>1, <2>1, <2>3, <3>1 DEF RateTypeInv
  <2> QED BY <2>3, <2>5, <2>6, <2>7, <2>8 DEF RateInv
<1>6. CASE Rate!OnMessage
  <2>1. /\ rate_store /= <<>> /\ rate_store' = Tail(rate_store)
        /\ rate_received' = rate_received + 1
        /\ rate_measured' = rate_measured \union {Head(rate_store)}
        /\ rate_unsettled' = <<>> \/ rate_unsettled' = Append(rate_unsettled, Head(rate_store))
        /\ UNCHANGED <<rate_sent, rate_confirmed, rate_wire, rate_acks, rate_again>>
    BY <1>6 DEF Rate!OnMessage, Rate!sender
  <2>2. /\ Head(rate_store) \in Nat /\ Tail(rate_store) \in Seq(Nat)
        /\ Len(Tail(rate_store)) = Len(rate_store) - 1
        /\ Elements(rate_store) = {Head(rate_store)} \union Elements(Tail(rate_store))
    BY <1>1, <2>1, HeadTaken DEF RateTypeInv
  <2>3. rate_unsettled' \in Seq(Nat)
    <3>1. rate_unsettled \in Seq(Nat) /\ <<>> \in Seq(Nat)
      BY <1>1, EmptyHasNone DEF RateTypeInv
    <3>2. Append(rate_unsettled, Head(rate_store)) \in Seq(Nat)
      BY <2>2, <3>1, Added
    <3> QED BY <2>1, <3>1, <3>2
  <2>4. IsFiniteSet(rate_measured')
    BY <1>1, <2>1, FS_AddElement DEF RateTypeInv
  <2>5. RateTypeInv'
    BY <1>1, <2>1, <2>2, <2>3, <2>4 DEF RateTypeInv
  <2>6. 1..(rate_confirmed' + rate_acks') \subseteq rate_measured' \union Elements(rate_store')
    BY <1>1, <2>1, <2>2
  <2>7. rate_received' + Len(rate_store') <= rate_confirmed' + rate_acks' + rate_again'
    <3> DEFINE l == Len(rate_store)
    <3>1. /\ Len(rate_store') = l - 1 /\ l \in Nat
          /\ rate_received + l <= rate_confirmed + rate_acks + rate_again
      BY <1>1, <2>1, <2>2 DEF RateTypeInv
    <3> HIDE DEF l
    <3> QED BY <1>1, <2>1, <3>1 DEF RateTypeInv
  <2> QED BY <1>1, <2>1, <2>5, <2>6, <2>7 DEF RateInv
<1>7. CASE Rate!NodeHears
  <2>1. /\ rate_unsettled /= <<>> /\ rate_unsettled' = Tail(rate_unsettled)
        /\ UNCHANGED <<rate_sent, rate_confirmed, rate_wire, rate_acks, rate_received,
                       rate_measured, rate_store, rate_again>>
    BY <1>7 DEF Rate!NodeHears, Rate!sender
  <2>2. rate_unsettled' \in Seq(Nat)
    BY <1>1, <2>1, HeadTaken DEF RateTypeInv
  <2> QED BY <1>1, <2>1, <2>2 DEF RateInv, RateTypeInv
<1>8. CASE Rate!RecvBreaks
  <2>1. /\ rate_again' = rate_again + Len(rate_unsettled)
        /\ rate_store' = rate_unsettled \o rate_store /\ rate_unsettled' = <<>>
        /\ UNCHANGED <<rate_sent, rate_confirmed, rate_wire, rate_acks, rate_received,
                       rate_measured>>
    BY <1>8 DEF Rate!RecvBreaks, Rate!sender
  <2>2. /\ rate_store' \in Seq(Nat)
        /\ Len(rate_store') = Len(rate_unsettled) + Len(rate_store)
        /\ Elements(rate_store) \subseteq Elements(rate_store')
    <3>1. rate_unsettled \in Seq(Nat) /\ rate_store \in Seq(Nat)
      BY <1>1 DEF RateTypeInv
    <3> QED BY <2>1, <3>1, Joined
  <2>3. rate_unsettled' \in Seq(Nat) /\ rate_again' \in Nat
    BY <1>1, <2>1, EmptyHasNone DEF RateTypeInv
  <2>4. RateTypeInv'
    BY <1>1, <2>1, <2>2, <2>3 DEF RateTypeInv
  <2>5. 1..(rate_confirmed' + rate_acks') \subseteq rate_measured' \union Elements(rate_store')
    BY <1>1, <2>1, <2>2
  <2>6. rate_received' + Len(rate_store') <= rate_confirmed' + rate_acks' + rate_again'
    <3> DEFINE l == Len(rate_store)
               u == Len(rate_unsettled)
    <3>1. /\ Len(rate_store') = u + l /\ l \in Nat /\ u \in Nat
          /\ rate_received + l <= rate_confirmed + rate_acks + rate_again
          /\ rate_again' = rate_again + u
      BY <1>1, <2>1, <2>2 DEF RateTypeInv
    <3> HIDE DEF l, u
    <3> QED BY <1>1, <2>1, <3>1 DEF RateTypeInv
  <2> QED BY <1>1, <2>1, <2>4, <2>5, <2>6 DEF RateInv
<1>9. CASE UNCHANGED Rate!vars
  <2>1. UNCHANGED <<rate_sent, rate_confirmed, rate_received, rate_wire, rate_acks, rate_store,
                    rate_unsettled, rate_measured, rate_again>>
    BY <1>9 DEF Rate!vars, Rate!sender, Rate!receiver
  <2> QED BY <1>1, <2>1 DEF RateInv, RateTypeInv
<1> QED BY <1>2, <1>3, <1>4, <1>5, <1>6, <1>7, <1>8, <1>9 DEF Rate!Next

\* The counts are honest, whatever breaks: the receiver counts a message twice only
\* if it was sent or handed out again, and what the sender counts as confirmed the
\* receiver has counted or the node still has.
THEOREM CountsAreHonestHolds == Spec => []CountsAreHonest
<1>1. Init => RateInv
  <2> SUFFICES ASSUME Rate!Init PROVE RateInv
    BY DEF Init
  <2>1. RateTypeInv
    BY ProgramsAssumption, EmptyHasNone, FS_EmptySet DEF Rate!Init, RateTypeInv
  <2>2. Carries(rate_wire, rate_confirmed + rate_acks, rate_sent)
    BY CarriesNothing DEF Rate!Init
  <2> QED BY <2>1, <2>2, EmptyHasNone DEF Rate!Init, RateInv
<1>2. RateInv /\ [Next]_vars => RateInv'
  BY Runs, RateStep
<1>3. RateInv => CountsAreHonest
  <2> SUFFICES ASSUME RateInv PROVE CountsAreHonest
    OBVIOUS
  <2> DEFINE n == rate_confirmed + rate_acks
             stored == Elements(rate_store)
  <2>1. /\ rate_received \in Nat /\ rate_again \in Nat /\ n \in Nat
        /\ rate_confirmed <= n
        /\ rate_store \in Seq(Nat) /\ IsFiniteSet(rate_measured)
        /\ 1..n \subseteq rate_measured \union stored
        /\ rate_received + Len(rate_store) <= n + rate_again
    BY DEF RateInv, RateTypeInv
  <2> HIDE DEF n
  <2>2. /\ IsFiniteSet(stored) /\ Cardinality(stored) <= Len(rate_store)
        /\ Cardinality(stored) \in Nat /\ Len(rate_store) \in Nat
    BY <2>1, Counted
  <2>3. n <= Cardinality(rate_measured) + Cardinality(stored)
    <3>1. /\ IsFiniteSet(rate_measured \union stored)
          /\ Cardinality(rate_measured \union stored)
               = Cardinality(rate_measured) + Cardinality(stored)
                   - Cardinality(rate_measured \intersect stored)
      BY <2>1, <2>2, FS_Union
    <3>2. Cardinality(rate_measured \intersect stored) \in Nat
      <4>1. IsFiniteSet(rate_measured \intersect stored)
        BY <2>1, FS_Subset
      <4> QED BY <4>1, FS_CardinalityType
    <3>3. Cardinality(1..n) <= Cardinality(rate_measured \union stored)
      BY <2>1, <3>1, FS_Subset
    <3>4. Cardinality(1..n) = n
      BY <2>1, FS_Interval
    <3>5. Cardinality(rate_measured) \in Nat
      BY <2>1, FS_CardinalityType
    <3> DEFINE a == Cardinality(rate_measured)
               b == Cardinality(stored)
               c == Cardinality(rate_measured \intersect stored)
    <3>6. n <= a + b - c /\ a \in Nat /\ b \in Nat /\ c \in Nat
      BY <2>2, <3>1, <3>2, <3>3, <3>4, <3>5
    <3> HIDE DEF a, b, c
    <3>7. n <= a + b
      BY <2>1, <3>6
    <3> QED BY <3>7 DEF a, b
  <2>4. Cardinality(rate_measured) \in Nat
    BY <2>1, FS_CardinalityType
  <2>5. rate_received - Cardinality(rate_measured) <= rate_again
    <3> DEFINE a == Cardinality(rate_measured)
               b == Cardinality(stored)
               l == Len(rate_store)
    <3>1. /\ n <= a + b /\ b <= l /\ rate_received + l <= n + rate_again
          /\ a \in Nat /\ b \in Nat /\ l \in Nat
      BY <2>1, <2>2, <2>3, <2>4
    <3> HIDE DEF a, b, l
    <3>2. rate_received - a <= rate_again
      BY <2>1, <3>1
    <3> QED BY <3>2 DEF a
  <2>6. Rate!Cardinality(rate_measured) = Cardinality(rate_measured)
    BY Zenon DEF Rate!Cardinality, Cardinality
  <2>7. 1..rate_confirmed \subseteq rate_measured \union stored
    <3>1. 1..rate_confirmed \subseteq 1..n
      BY <2>1 DEF RateInv, RateTypeInv
    <3> QED BY <2>1, <3>1
  <2> QED BY <2>5, <2>6, <2>7 DEF CountsAreHonest, Rate!CountsAreHonest, Elements
<1> QED BY <1>1, <1>2, <1>3, PTL DEF Spec

-----------------------------------------------------------------------------
(* The sender that listens. *)

ListenTypeInv ==
  /\ ls_sent \in 0..LsTotal /\ ls_confirmed \in Nat
  /\ ls_attached \subseteq LsReceivers
  /\ ls_wire \in [LsReceivers -> Seq(Nat)]
  /\ ls_acks \in [LsReceivers -> Nat]

\* The receiver that is connected, of which there is at most one, continues where
\* the confirmations are.
OneAtATime ==
  /\ \A r, q \in ls_attached : r = q
  /\ \A r \in LsReceivers \ ls_attached : ls_wire[r] = <<>> /\ ls_acks[r] = 0
  /\ ls_attached = {} => ls_sent = ls_confirmed
  /\ \A r \in ls_attached : Carries(ls_wire[r], ls_confirmed + ls_acks[r], ls_sent)

\* What is confirmed, or will be by the acceptances on the way, was accepted.
AcceptedInv ==
  /\ 1..ls_confirmed \subseteq ls_accepted
  /\ \A r \in ls_attached : 1..(ls_confirmed + ls_acks[r]) \subseteq ls_accepted

PairedInv == ls_paired => ListenTypeInv /\ OneAtATime /\ AcceptedInv

\* The connection of the only receiver is gone, and nothing was on it that the
\* counters do not know.
LEMMA ConnectionGone ==
  ASSUME ListenTypeInv, OneAtATime, NEW r \in ls_attached, Listener!Gone(r),
         ls_confirmed' \in Nat, ls_sent' = ls_confirmed', ls_sent' \in 0..LsTotal,
         1..ls_confirmed' \subseteq ls_accepted'
  PROVE  ListenTypeInv' /\ OneAtATime' /\ AcceptedInv'
<1>1. /\ ls_attached' = {}
      /\ ls_wire' = [ls_wire EXCEPT ![r] = <<>>] /\ ls_acks' = [ls_acks EXCEPT ![r] = 0]
  BY DEF Listener!Gone, OneAtATime
<1>2. ListenTypeInv'
  BY <1>1, EmptyHasNone DEF ListenTypeInv
<1>3. \A q \in LsReceivers : ls_wire'[q] = <<>> /\ ls_acks'[q] = 0
  BY <1>1 DEF ListenTypeInv, OneAtATime
<1>4. OneAtATime'
  BY <1>1, <1>3 DEF OneAtATime
<1>5. AcceptedInv'
  BY <1>1 DEF AcceptedInv
<1> QED BY <1>2, <1>4, <1>5

LEMMA ListenStep ==
  ASSUME PairedInv, [Listener!Next]_Listener!vars
  PROVE  PairedInv'
<1> USE ProgramsAssumption
<1>1. SUFFICES ASSUME ls_paired'
               PROVE  ListenTypeInv' /\ OneAtATime' /\ AcceptedInv'
  BY DEF PairedInv
<1>2. ls_paired
  <2>1. ASSUME NEW r \in LsReceivers,
               \/ Listener!Attach(r) \/ Listener!OnSendable(r) \/ Listener!ReceiverAccepts(r)
               \/ Listener!OnAccepted(r) \/ Listener!OnDisconnected(r)
               \/ Listener!ReceiverCloses(r)
        PROVE  ls_paired
    BY <1>1, <2>1 DEF Listener!Attach, Listener!OnSendable, Listener!ReceiverAccepts,
      Listener!OnAccepted, Listener!OnDisconnected, Listener!ReceiverCloses
  <2>2. CASE UNCHANGED Listener!vars
    BY <1>1, <2>2 DEF Listener!vars
  <2> QED BY <2>1, <2>2 DEF Listener!Next
<1>3. ListenTypeInv /\ OneAtATime /\ AcceptedInv
  BY <1>2 DEF PairedInv
<1>4. ASSUME NEW r \in LsReceivers, Listener!Attach(r)
      PROVE  ListenTypeInv' /\ OneAtATime' /\ AcceptedInv'
  <2>1. /\ ls_attached = {} /\ ls_attached' = {r}
        /\ UNCHANGED <<ls_sent, ls_confirmed, ls_wire, ls_acks, ls_accepted>>
    BY <1>1, <1>4 DEF Listener!Attach
  <2>2. ls_wire[r] = <<>> /\ ls_acks[r] = 0 /\ ls_sent = ls_confirmed /\ ls_confirmed \in Nat
    BY <1>3, <2>1 DEF OneAtATime, ListenTypeInv
  <2>3. /\ Carries(ls_wire[r], ls_confirmed + ls_acks[r], ls_sent)
        /\ ls_confirmed + ls_acks[r] = ls_confirmed
    BY <2>2, CarriesNothing
  <2>4. ListenTypeInv'
    BY <1>3, <2>1 DEF ListenTypeInv
  <2>5. OneAtATime'
    BY <1>3, <2>1, <2>3 DEF OneAtATime
  <2>6. AcceptedInv'
    BY <1>3, <2>1, <2>3 DEF AcceptedInv
  <2> QED BY <2>4, <2>5, <2>6
<1>5. ASSUME NEW r \in LsReceivers, Listener!OnSendable(r)
      PROVE  ListenTypeInv' /\ OneAtATime' /\ AcceptedInv'
  <2>1. PICK c \in 1..LsCredit :
          /\ ls_wire' = [ls_wire EXCEPT ![r] =
                           @ \o [k \in 1..Listener!Batch(c) |-> ls_sent + k]]
          /\ ls_sent' = ls_sent + Listener!Batch(c)
    BY <1>5 DEF Listener!OnSendable
  <2>2. /\ r \in ls_attached
        /\ UNCHANGED <<ls_confirmed, ls_attached, ls_acks, ls_accepted>>
    BY <1>5 DEF Listener!OnSendable
  <2>3. PICK n \in Nat : n = Listener!Batch(c) /\ ls_sent + n \in 0..LsTotal
    <3>1. Listener!Batch(c) \in Nat /\ ls_sent + Listener!Batch(c) \in 0..LsTotal
      <4>1. LsTotal \in Nat /\ LsCredit \in Nat /\ ls_sent \in 0..LsTotal /\ c \in Nat
        BY <1>3 DEF ListenTypeInv
      <4> QED BY <4>1 DEF Listener!Batch
    <3> QED BY <3>1
  <2>4. /\ ls_wire' = [ls_wire EXCEPT ![r] = ls_wire[r] \o [k \in 1..n |-> ls_sent + k]]
        /\ ls_sent' = ls_sent + n
    BY <2>1, <2>3
  <2>5. Carries(ls_wire[r] \o [k \in 1..n |-> ls_sent + k], ls_confirmed + ls_acks[r], ls_sent + n)
    BY <1>3, <2>2, CarriesMore DEF OneAtATime
  <2>6. PICK w : w = ls_wire[r] \o [k \in 1..n |-> ls_sent + k]
    OBVIOUS
  <2>7. /\ w \in Seq(Nat) /\ ls_wire' = [ls_wire EXCEPT ![r] = w]
        /\ Carries(w, ls_confirmed + ls_acks[r], ls_sent')
    BY <2>4, <2>5, <2>6 DEF Carries
  <2>8. ListenTypeInv'
    BY <1>3, <2>2, <2>3, <2>4, <2>7 DEF ListenTypeInv
  <2>9. OneAtATime'
    <3>1. \A q \in LsReceivers \ ls_attached : ls_wire'[q] = ls_wire[q]
      BY <1>3, <2>2, <2>7 DEF ListenTypeInv
    <3>2. ls_wire'[r] = w
      BY <1>3, <2>7 DEF ListenTypeInv
    <3> QED BY <1>3, <2>2, <2>7, <3>1, <3>2 DEF OneAtATime
  <2>10. AcceptedInv'
    BY <1>3, <2>2 DEF AcceptedInv
  <2> QED BY <2>8, <2>9, <2>10
<1>6. ASSUME NEW r \in LsReceivers, Listener!ReceiverAccepts(r)
      PROVE  ListenTypeInv' /\ OneAtATime' /\ AcceptedInv'
  <2>1. /\ r \in ls_attached /\ ls_wire[r] /= <<>>
        /\ ls_accepted' = ls_accepted \union {Head(ls_wire[r])}
        /\ ls_wire' = [ls_wire EXCEPT ![r] = Tail(ls_wire[r])]
        /\ ls_acks' = [ls_acks EXCEPT ![r] = ls_acks[r] + 1]
        /\ UNCHANGED <<ls_sent, ls_confirmed, ls_attached>>
    BY <1>6 DEF Listener!ReceiverAccepts
  <2>2. PICK n \in Nat : n = ls_confirmed + ls_acks[r]
    BY <1>3 DEF ListenTypeInv
  <2>3. /\ Head(ls_wire[r]) = n + 1
        /\ Carries(Tail(ls_wire[r]), n + 1, ls_sent)
    BY <1>3, <2>1, <2>2, CarriesFirst DEF OneAtATime
  <2>4. PICK w : w = Tail(ls_wire[r])
    OBVIOUS
  <2>5. w \in Seq(Nat) /\ ls_wire' = [ls_wire EXCEPT ![r] = w]
    BY <2>1, <2>3, <2>4 DEF Carries
  <2>6. /\ ls_acks' \in [LsReceivers -> Nat]
        /\ ls_confirmed' + ls_acks'[r] = n + 1
        /\ \A q \in LsReceivers \ ls_attached : ls_acks'[q] = ls_acks[q] /\ ls_wire'[q] = ls_wire[q]
        /\ ls_wire'[r] = w
    BY <1>3, <2>1, <2>2, <2>5 DEF ListenTypeInv
  <2>7. ListenTypeInv'
    BY <1>3, <2>1, <2>5, <2>6 DEF ListenTypeInv
  <2>8. OneAtATime'
    BY <1>3, <2>1, <2>3, <2>4, <2>6 DEF OneAtATime
  <2>9. AcceptedInv'
    <3>1. 1..n \subseteq ls_accepted /\ 1..ls_confirmed \subseteq ls_accepted
      BY <1>3, <2>1, <2>2 DEF AcceptedInv
    <3>2. 1..(n + 1) \subseteq ls_accepted'
      <4>1. 1..(n + 1) = (1..n) \union {n + 1}
        OBVIOUS
      <4> QED BY <2>1, <2>3, <3>1, <4>1
    <3>3. \A q \in ls_attached' : q = r
      BY <1>3, <2>1 DEF OneAtATime
    <3> QED BY <2>1, <2>6, <3>1, <3>2, <3>3 DEF AcceptedInv
  <2> QED BY <2>7, <2>8, <2>9
<1>7. ASSUME NEW r \in LsReceivers, Listener!OnAccepted(r)
      PROVE  ListenTypeInv' /\ OneAtATime' /\ AcceptedInv'
  <2>1. /\ r \in ls_attached /\ ls_acks[r] > 0
        /\ ls_confirmed' = ls_confirmed + 1
        /\ UNCHANGED <<ls_sent, ls_accepted>>
    BY <1>7 DEF Listener!OnAccepted
  <2>2. PICK a \in Nat : a = ls_acks[r]
    BY <1>3 DEF ListenTypeInv
  <2>3. /\ ls_confirmed + a <= ls_sent /\ ls_sent \in 0..LsTotal
        /\ ls_confirmed \in Nat /\ a > 0
        /\ 1..(ls_confirmed + a) \subseteq ls_accepted
    BY <1>3, <2>1, <2>2, CarriesMore DEF OneAtATime, ListenTypeInv, AcceptedInv
  <2>4. 1..ls_confirmed' \subseteq ls_accepted' /\ ls_confirmed' \in Nat
    BY <2>1, <2>3
  <2>5. CASE ls_confirmed' = LsTotal
    <3>1. Listener!Gone(r)
      BY <1>7, <2>5 DEF Listener!OnAccepted
    <3>2. ls_sent' = ls_confirmed' /\ ls_sent' \in 0..LsTotal
      BY <2>1, <2>3, <2>5
    <3> QED BY <1>3, <2>1, <2>4, <3>1, <3>2, ConnectionGone
  <2>6. CASE ls_confirmed' /= LsTotal
    <3>1. /\ ls_acks' = [ls_acks EXCEPT ![r] = ls_acks[r] - 1]
          /\ UNCHANGED <<ls_attached, ls_wire>>
      BY <1>7, <2>6 DEF Listener!OnAccepted
    <3>2. a - 1 \in Nat /\ ls_acks' = [ls_acks EXCEPT ![r] = a - 1]
      BY <2>2, <2>3, <3>1
    <3>3. /\ ls_acks' \in [LsReceivers -> Nat]
          /\ ls_acks'[r] = a - 1
          /\ \A q \in LsReceivers \ ls_attached : ls_acks'[q] = ls_acks[q]
      BY <1>3, <2>1, <3>2 DEF ListenTypeInv
    <3>4. ls_confirmed' + ls_acks'[r] = ls_confirmed + a
      BY <2>1, <2>3, <3>3
    <3>5. ListenTypeInv'
      BY <1>3, <2>1, <2>4, <3>1, <3>3 DEF ListenTypeInv
    <3>6. \A q \in ls_attached' : q = r
      BY <1>3, <2>1, <3>1 DEF OneAtATime
    <3>7. OneAtATime'
      BY <1>3, <2>1, <2>2, <3>1, <3>3, <3>4, <3>6 DEF OneAtATime
    <3>8. AcceptedInv'
      BY <2>1, <2>3, <2>4, <3>4, <3>6 DEF AcceptedInv
    <3> QED BY <3>5, <3>7, <3>8
  <2> QED BY <2>5, <2>6
<1>8. ASSUME NEW r \in LsReceivers, Listener!OnDisconnected(r)
      PROVE  ListenTypeInv' /\ OneAtATime' /\ AcceptedInv'
  <2>1. /\ r \in ls_attached /\ Listener!Gone(r)
        /\ ls_sent' = ls_confirmed /\ UNCHANGED <<ls_confirmed, ls_accepted>>
    BY <1>8 DEF Listener!OnDisconnected, Listener!Parts
  <2>2. PICK a \in Nat : a = ls_acks[r]
    BY <1>3 DEF ListenTypeInv
  <2>3. ls_confirmed \in 0..LsTotal
    <3>1. ls_confirmed + a <= ls_sent /\ ls_confirmed \in Nat /\ ls_sent \in 0..LsTotal
      BY <1>3, <2>1, <2>2, CarriesMore DEF OneAtATime, ListenTypeInv
    <3> QED BY <3>1
  <2>4. 1..ls_confirmed' \subseteq ls_accepted'
    BY <1>3, <2>1 DEF AcceptedInv
  <2> QED BY <1>3, <2>1, <2>3, <2>4, ConnectionGone
<1>9. ASSUME NEW r \in LsReceivers, Listener!ReceiverCloses(r)
      PROVE  ListenTypeInv' /\ OneAtATime' /\ AcceptedInv'
  <2>1. /\ r \in ls_attached /\ Listener!Gone(r)
        /\ ls_acks[r] = 0 /\ ls_wire[r] = <<>>
        /\ UNCHANGED <<ls_sent, ls_confirmed, ls_accepted>>
    BY <1>1, <1>9 DEF Listener!ReceiverCloses, Listener!Parts
  <2>2. ls_sent' = ls_confirmed' /\ ls_sent' \in 0..LsTotal /\ ls_confirmed' \in Nat
    <3>1. Carries(<<>>, ls_confirmed + 0, ls_sent)
      BY <1>3, <2>1 DEF OneAtATime
    <3>2. ls_sent - (ls_confirmed + 0) = 0
      BY <3>1, EmptyHasNone DEF Carries
    <3> QED BY <1>3, <2>1, <3>2 DEF ListenTypeInv
  <2>3. 1..ls_confirmed' \subseteq ls_accepted'
    BY <1>3, <2>1 DEF AcceptedInv
  <2> QED BY <1>3, <2>1, <2>2, <2>3, ConnectionGone
<1>10. CASE UNCHANGED Listener!vars
  BY <1>3, <1>10 DEF Listener!vars, ListenTypeInv, OneAtATime, AcceptedInv
<1> QED BY <1>4, <1>5, <1>6, <1>7, <1>8, <1>9, <1>10 DEF Listener!Next

\* The counters stand for the sequence as long as receivers come one after the
\* other and close with nothing on the way, for every length of the sequence, every
\* credit and any number of receivers and of broken connections: the first
\* messages, as many as are confirmed, were accepted.
THEOREM ConfirmedWereAcceptedHolds == Spec => []ConfirmedWereAccepted
<1>1. Init => PairedInv
  <2> SUFFICES ASSUME Listener!Init PROVE PairedInv
    BY DEF Init
  <2>1. ListenTypeInv
    BY ProgramsAssumption, EmptyHasNone DEF Listener!Init, ListenTypeInv
  <2>2. OneAtATime /\ AcceptedInv
    BY DEF Listener!Init, OneAtATime, AcceptedInv
  <2> QED BY <2>1, <2>2 DEF PairedInv
<1>2. PairedInv /\ [Next]_vars => PairedInv'
  BY Runs, ListenStep
<1>3. PairedInv => ConfirmedWereAccepted
  BY DEF PairedInv, AcceptedInv, ConfirmedWereAccepted, Listener!ConfirmedWereAccepted
<1> QED BY <1>1, <1>2, <1>3, PTL DEF Spec

-----------------------------------------------------------------------------
(* Clients and server on one queue. *)

RpcMessages == [client : RpcClients, request : Nat, upper : BOOLEAN]

\* The request of a message, and those of a sequence of messages.
IdOf(m) == <<m.client, m.request>>
Ids(s) == {IdOf(s[k]) : k \in DOMAIN s}

Single(s) == \A j, k \in DOMAIN s : IdOf(s[j]) = IdOf(s[k]) => j = k

\* Sequences at several places: a request is in one of them, once.
AllIds(h) == UNION {Ids(h[w]) : w \in DOMAIN h}
Once(h) ==
  /\ \A w \in DOMAIN h : Single(h[w])
  /\ \A w, v \in DOMAIN h : w /= v => Ids(h[w]) \intersect Ids(h[v]) = {}

LEMMA InAllIds == \A h, i : i \in AllIds(h) <=> \E w \in DOMAIN h : i \in Ids(h[w])
BY DEF AllIds

LEMMA IdsTaken ==
  ASSUME NEW s \in Seq(RpcMessages), s /= <<>>, Single(s)
  PROVE  /\ Head(s) \in RpcMessages /\ Tail(s) \in Seq(RpcMessages)
         /\ Single(Tail(s)) /\ IdOf(Head(s)) \in Ids(s)
         /\ Ids(Tail(s)) \subseteq Ids(s) \ {IdOf(Head(s))}
<1> DEFINE t == Tail(s)
<1>1. /\ Head(s) \in RpcMessages /\ t \in Seq(RpcMessages)
      /\ 1 \in DOMAIN s /\ Head(s) = s[1]
      /\ \A k \in DOMAIN t : k \in Nat /\ k + 1 \in DOMAIN s /\ k + 1 /= 1 /\ t[k] = s[k + 1]
  <2>1. Head(s) \in RpcMessages
    BY HeadTailProperties
  <2> QED BY <2>1
<1> HIDE DEF t
<1>2. Single(t)
  <2> SUFFICES ASSUME NEW j \in DOMAIN t, NEW k \in DOMAIN t, IdOf(t[j]) = IdOf(t[k])
               PROVE  j = k
    BY DEF Single
  <2>1. j + 1 = k + 1
    BY <1>1 DEF Single
  <2> QED BY <1>1, <2>1
<1>3. ASSUME NEW i \in Ids(t) PROVE i \in Ids(s) \ {IdOf(Head(s))}
  <2>1. PICK k \in DOMAIN t : i = IdOf(t[k])
    BY DEF Ids
  <2>2. IdOf(s[k + 1]) /= IdOf(s[1])
    BY <1>1 DEF Single
  <2> QED BY <1>1, <2>1, <2>2 DEF Ids
<1>4. IdOf(Head(s)) \in Ids(s)
  BY <1>1 DEF Ids
<1> QED BY <1>1, <1>2, <1>3, <1>4 DEF t

LEMMA IdsJoined ==
  ASSUME NEW s \in Seq(RpcMessages), NEW t \in Seq(RpcMessages), Single(s), Single(t),
         Ids(s) \intersect Ids(t) = {}
  PROVE  /\ s \o t \in Seq(RpcMessages) /\ Single(s \o t)
         /\ Ids(s \o t) = Ids(s) \union Ids(t)
<1> DEFINE r == s \o t
<1>1. /\ r \in Seq(RpcMessages) /\ Len(s) \in Nat /\ Len(t) \in Nat
      /\ DOMAIN s = 1..Len(s) /\ DOMAIN t = 1..Len(t)
      /\ \A k \in DOMAIN s : k \in DOMAIN r /\ r[k] = s[k]
      /\ \A k \in DOMAIN t : Len(s) + k \in DOMAIN r /\ r[Len(s) + k] = t[k]
      /\ \A k \in DOMAIN r : k \in DOMAIN s \/ (k \in Nat /\ k - Len(s) \in DOMAIN t)
      /\ \A k \in DOMAIN r : k - Len(s) \in DOMAIN t => r[k] = t[k - Len(s)]
  <2>1. /\ r \in Seq(RpcMessages) /\ Len(r) = Len(s) + Len(t)
        /\ \A k \in 1..(Len(s) + Len(t)) : r[k] = IF k <= Len(s) THEN s[k] ELSE t[k - Len(s)]
    BY ConcatProperties
  <2>2. Len(s) \in Nat /\ Len(t) \in Nat /\ DOMAIN s = 1..Len(s) /\ DOMAIN t = 1..Len(t)
    OBVIOUS
  <2> HIDE DEF r
  <2>3. DOMAIN r = 1..(Len(s) + Len(t))
    BY <2>1
  <2> QED BY <2>1, <2>2, <2>3
<1> HIDE DEF r
<1>2. \A k \in DOMAIN r :
         \/ k \in DOMAIN s /\ IdOf(r[k]) = IdOf(s[k])
         \/ k - Len(s) \in DOMAIN t /\ IdOf(r[k]) = IdOf(t[k - Len(s)])
  BY <1>1
<1>3. Ids(r) \subseteq Ids(s) \union Ids(t)
  BY <1>2 DEF Ids
<1>4. Ids(s) \union Ids(t) \subseteq Ids(r)
  BY <1>1 DEF Ids
<1>5. Single(r)
  <2> SUFFICES ASSUME NEW j \in DOMAIN r, NEW k \in DOMAIN r, IdOf(r[j]) = IdOf(r[k])
               PROVE  j = k
    BY DEF Single
  <2>1. CASE j \in DOMAIN s /\ k \in DOMAIN s
    BY <1>1, <2>1 DEF Single
  <2>2. CASE j - Len(s) \in DOMAIN t /\ k - Len(s) \in DOMAIN t
    <3>1. j - Len(s) = k - Len(s)
      BY <1>1, <2>2 DEF Single
    <3> QED BY <1>1, <2>2, <3>1
  <2>3. CASE j \in DOMAIN s /\ k - Len(s) \in DOMAIN t
    <3>1. IdOf(r[j]) \in Ids(s) /\ IdOf(r[k]) \in Ids(t)
      BY <1>1, <2>3 DEF Ids
    <3> QED BY <3>1
  <2>4. CASE k \in DOMAIN s /\ j - Len(s) \in DOMAIN t
    <3>1. IdOf(r[k]) \in Ids(s) /\ IdOf(r[j]) \in Ids(t)
      BY <1>1, <2>4 DEF Ids
    <3> QED BY <3>1
  <2> QED BY <1>2, <2>1, <2>2, <2>3, <2>4
<1> QED BY <1>1, <1>3, <1>4, <1>5 DEF r

LEMMA IdsOfOne ==
  ASSUME NEW m \in RpcMessages
  PROVE  /\ <<m>> \in Seq(RpcMessages) /\ Single(<<m>>) /\ Ids(<<m>>) = {IdOf(m)}
<1>1. <<m>> \in Seq(RpcMessages) /\ DOMAIN <<m>> = {1} /\ <<m>>[1] = m
  OBVIOUS
<1> QED BY <1>1 DEF Single, Ids

-----------------------------------------------------------------------------
(* The same for all places together. *)

\* A message is taken from place w ...
LEMMA TakenOnce ==
  ASSUME NEW h \in [Shared!Where -> Seq(RpcMessages)], Once(h), NEW w \in Shared!Where, h[w] /= <<>>,
         NEW g \in [Shared!Where -> Seq(RpcMessages)], g[w] = Tail(h[w]),
         \A v \in Shared!Where : v /= w => g[v] = h[v]
  PROVE  /\ Once(g)
         /\ Head(h[w]) \in RpcMessages /\ IdOf(Head(h[w])) \in AllIds(h)
         /\ AllIds(g) \subseteq AllIds(h) \ {IdOf(Head(h[w]))}
<1>1. DOMAIN h = Shared!Where /\ h[w] \in Seq(RpcMessages) /\ Single(h[w])
  BY DEF Once
<1>2. /\ Head(h[w]) \in RpcMessages /\ Tail(h[w]) \in Seq(RpcMessages)
      /\ Single(Tail(h[w])) /\ IdOf(Head(h[w])) \in Ids(h[w])
      /\ Ids(Tail(h[w])) \subseteq Ids(h[w]) \ {IdOf(Head(h[w]))}
  BY <1>1, IdsTaken
<1>3. /\ g \in [Shared!Where -> Seq(RpcMessages)] /\ DOMAIN g = Shared!Where
      /\ g[w] = Tail(h[w]) /\ \A v \in Shared!Where : v /= w => g[v] = h[v]
  BY <1>2
<1>4. \A v \in Shared!Where : Single(g[v]) /\ Ids(g[v]) \subseteq Ids(h[v]) \ {IdOf(Head(h[w]))}
  <2>1. \A v \in Shared!Where : v /= w => IdOf(Head(h[w])) \notin Ids(h[v])
    BY <1>1, <1>2 DEF Once
  <2> QED BY <1>1, <1>2, <1>3, <2>1 DEF Once
<1>5. Once(g)
  <2>1. \A v, u \in Shared!Where : v /= u => Ids(h[v]) \intersect Ids(h[u]) = {}
    BY <1>1 DEF Once
  <2>2. \A v, u \in Shared!Where : v /= u => Ids(g[v]) \intersect Ids(g[u]) = {}
    BY <1>4, <2>1
  <2> QED BY <1>3, <1>4, <2>2 DEF Once
<1>6. AllIds(g) \subseteq AllIds(h) \ {IdOf(Head(h[w]))}
  BY <1>1, <1>3, <1>4, InAllIds
<1>7. IdOf(Head(h[w])) \in AllIds(h)
  BY <1>1, <1>2, InAllIds
<1> QED BY <1>2, <1>3, <1>5, <1>6, <1>7

\* ... and one that is at no place is put at place w.
LEMMA PutOnce ==
  ASSUME NEW h \in [Shared!Where -> Seq(RpcMessages)], Once(h), NEW w \in Shared!Where,
         NEW m \in RpcMessages, IdOf(m) \notin AllIds(h),
         NEW g \in [Shared!Where -> Seq(RpcMessages)], g[w] = Append(h[w], m),
         \A v \in Shared!Where : v /= w => g[v] = h[v]
  PROVE  /\ Once(g)
         /\ AllIds(g) = AllIds(h) \union {IdOf(m)}
<1>1. DOMAIN h = Shared!Where /\ h[w] \in Seq(RpcMessages) /\ Single(h[w])
  BY DEF Once
<1>2. IdOf(m) \notin Ids(h[w])
  BY <1>1, InAllIds
<1>3. Append(h[w], m) = h[w] \o <<m>>
  BY <1>1, AppendIsConcat
<1>4. /\ Append(h[w], m) \in Seq(RpcMessages) /\ Single(Append(h[w], m))
      /\ Ids(Append(h[w], m)) = Ids(h[w]) \union {IdOf(m)}
  <2>1. <<m>> \in Seq(RpcMessages) /\ Single(<<m>>) /\ Ids(<<m>>) = {IdOf(m)}
    BY IdsOfOne
  <2>2. Ids(h[w]) \intersect Ids(<<m>>) = {}
    BY <1>2, <2>1
  <2> QED BY <1>1, <1>3, <2>1, <2>2, IdsJoined
<1>5. /\ g \in [Shared!Where -> Seq(RpcMessages)] /\ DOMAIN g = Shared!Where
      /\ g[w] = Append(h[w], m) /\ \A v \in Shared!Where : v /= w => g[v] = h[v]
  BY <1>4
<1>6. /\ \A v \in Shared!Where : Single(g[v])
      /\ \A v \in Shared!Where : Ids(g[v]) = IF v = w THEN Ids(h[v]) \union {IdOf(m)} ELSE Ids(h[v])
      /\ \A v \in Shared!Where : IdOf(m) \notin Ids(h[v])
  <2>1. \A v \in Shared!Where : Single(g[v])
    BY <1>1, <1>4, <1>5 DEF Once
  <2>2. \A v \in Shared!Where : Ids(g[v]) = IF v = w THEN Ids(h[v]) \union {IdOf(m)} ELSE Ids(h[v])
    BY <1>4, <1>5
  <2>3. \A v \in Shared!Where : IdOf(m) \notin Ids(h[v])
    BY <1>1, InAllIds
  <2> QED BY <2>1, <2>2, <2>3
<1>7. Once(g)
  <2>1. \A v, u \in Shared!Where : v /= u => Ids(h[v]) \intersect Ids(h[u]) = {}
    BY <1>1 DEF Once
  <2>2. \A v, u \in Shared!Where : v /= u => Ids(g[v]) \intersect Ids(g[u]) = {}
    BY <1>6, <2>1
  <2> QED BY <1>5, <1>6, <2>2 DEF Once
<1>8. AllIds(g) = AllIds(h) \union {IdOf(m)}
  <2>1. \A i : i \in AllIds(g) <=> i \in AllIds(h) \union {IdOf(m)}
    BY <1>1, <1>5, <1>6, InAllIds
  <2> QED BY <2>1
<1> QED BY <1>5, <1>7, <1>8

\* All messages of place v are put at place w.
LEMMA MovedOnce ==
  ASSUME NEW h \in [Shared!Where -> Seq(RpcMessages)], Once(h), NEW w \in Shared!Where, NEW v \in Shared!Where, w /= v,
         NEW g \in [Shared!Where -> Seq(RpcMessages)], g[w] = h[w] \o h[v], g[v] = <<>>,
         \A u \in Shared!Where : u /= w /\ u /= v => g[u] = h[u]
  PROVE  /\ Once(g) /\ AllIds(g) \subseteq AllIds(h)
<1>1. /\ DOMAIN h = Shared!Where /\ h[w] \in Seq(RpcMessages) /\ h[v] \in Seq(RpcMessages)
      /\ Single(h[w]) /\ Single(h[v]) /\ Ids(h[w]) \intersect Ids(h[v]) = {}
  BY DEF Once
<1>2. /\ h[w] \o h[v] \in Seq(RpcMessages) /\ Single(h[w] \o h[v])
      /\ Ids(h[w] \o h[v]) = Ids(h[w]) \union Ids(h[v])
  BY <1>1, IdsJoined
<1>3. /\ <<>> \in Seq(RpcMessages) /\ Single(<<>>) /\ Ids(<<>>) = {}
  BY DEF Single, Ids
<1>4. /\ g \in [Shared!Where -> Seq(RpcMessages)] /\ DOMAIN g = Shared!Where
      /\ g[w] = h[w] \o h[v] /\ g[v] = <<>>
      /\ \A u \in Shared!Where : u /= w /\ u /= v => g[u] = h[u]
  BY <1>2, <1>3
<1>5. /\ \A u \in Shared!Where : Single(g[u])
      /\ \A u \in Shared!Where : Ids(g[u]) = CASE u = w -> Ids(h[w]) \union Ids(h[v])
                                    [] u = v -> {}
                                    [] OTHER -> Ids(h[u])
  BY <1>1, <1>2, <1>3, <1>4 DEF Once
<1>6. ASSUME NEW t \in Shared!Where, NEW u \in Shared!Where, t /= u PROVE Ids(g[t]) \intersect Ids(g[u]) = {}
  <2>1. \A x, y \in Shared!Where : x /= y => Ids(h[x]) \intersect Ids(h[y]) = {}
    BY <1>1 DEF Once
  <2> QED BY <1>5, <1>6, <2>1
<1>7. Once(g)
  BY <1>4, <1>5, <1>6 DEF Once
<1>8. AllIds(g) \subseteq AllIds(h)
  <2>1. \A u \in Shared!Where : Ids(g[u]) \subseteq Ids(h[u]) \union Ids(h[w]) \union Ids(h[v])
    BY <1>5
  <2>2. ASSUME NEW i \in AllIds(g) PROVE i \in AllIds(h)
    <3>1. PICK u \in Shared!Where : i \in Ids(g[u])
      <4>1. \E u \in DOMAIN g : i \in Ids(g[u])
        BY InAllIds
      <4> QED BY <1>4, <4>1
    <3>2. \E t \in Shared!Where : i \in Ids(h[t])
      BY <2>1, <3>1
    <3> QED BY <1>1, <3>2, InAllIds
  <2> QED BY <2>2
<1> QED BY <1>4, <1>7, <1>8

-----------------------------------------------------------------------------
(* Queue, inboxes and screens as one function of the places. *)

AtQueue == <<"queue", "server">>
AtInbox(x) == <<"inbox", x>>
OnScreen(c) == <<"printed", c>>

Holding(q, b, p) ==
  [w \in Shared!Where |-> CASE w[1] = "queue"   -> q
                            [] w[1] = "inbox"   -> b[w[2]]
                            [] w[1] = "printed" -> p[w[2]]]

LEMMA PlacesAre ==
  /\ AtQueue \in Shared!Where
  /\ \A x \in Shared!Consumers : AtInbox(x) \in Shared!Where
  /\ \A c \in RpcClients : OnScreen(c) \in Shared!Where
  /\ \A w \in Shared!Where : \/ w = AtQueue
                             \/ \E x \in Shared!Consumers : w = AtInbox(x)
                             \/ \E c \in RpcClients : w = OnScreen(c)
  /\ \A x : AtInbox(x) /= AtQueue
  /\ \A c : OnScreen(c) /= AtQueue
  /\ \A c, x : OnScreen(c) /= AtInbox(x)
  /\ \A x, y : AtInbox(x) = AtInbox(y) => x = y
  /\ \A c, d : OnScreen(c) = OnScreen(d) => c = d
BY DEF AtQueue, AtInbox, OnScreen, Shared!Where, Shared!Server

LEMMA HoldingAt ==
  ASSUME NEW q, NEW b, NEW p
  PROVE  /\ Holding(q, b, p)[AtQueue] = q
         /\ \A x \in Shared!Consumers : Holding(q, b, p)[AtInbox(x)] = b[x]
         /\ \A c \in RpcClients : Holding(q, b, p)[OnScreen(c)] = p[c]
<1>1. Holding(q, b, p)[AtQueue] = q
  BY PlacesAre DEF Holding, AtQueue
<1>2. ASSUME NEW x \in Shared!Consumers PROVE Holding(q, b, p)[AtInbox(x)] = b[x]
  BY PlacesAre DEF Holding, AtInbox
<1>3. ASSUME NEW c \in RpcClients PROVE Holding(q, b, p)[OnScreen(c)] = p[c]
  BY PlacesAre DEF Holding, OnScreen
<1> QED BY <1>1, <1>2, <1>3

RpcHeld == Holding(rpc_queue, rpc_inbox, rpc_printed)

\* No request is at two places, and each is one that its client has asked.
RpcInv ==
  /\ rpc_flowing \subseteq Shared!Consumers /\ rpc_opened \subseteq RpcClients
  /\ rpc_queue \in Seq(RpcMessages)
  /\ rpc_inbox \in [Shared!Consumers -> Seq(RpcMessages)]
  /\ rpc_printed \in [RpcClients -> Seq(RpcMessages)]
  /\ Once(RpcHeld)
  /\ \A i \in AllIds(RpcHeld) :
        i[1] \in rpc_opened /\ i[2] \in 1..(Len(rpc_printed[i[1]]) + 1)

LEMMA RpcHeldIs ==
  ASSUME NEW q \in Seq(RpcMessages), NEW b \in [Shared!Consumers -> Seq(RpcMessages)],
         NEW p \in [RpcClients -> Seq(RpcMessages)]
  PROVE  Holding(q, b, p) \in [Shared!Where -> Seq(RpcMessages)]
<1> SUFFICES ASSUME NEW w \in Shared!Where
             PROVE  Holding(q, b, p)[w] \in Seq(RpcMessages)
  BY DEF Holding
<1>1. CASE w = AtQueue
  BY <1>1, HoldingAt
<1>2. CASE \E x \in Shared!Consumers : w = AtInbox(x)
  BY <1>2, HoldingAt
<1>3. CASE \E c \in RpcClients : w = OnScreen(c)
  BY <1>3, HoldingAt
<1> QED BY <1>1, <1>2, <1>3, PlacesAre

\* A place sees only what it is of.
LEMMA HoldingSame ==
  ASSUME NEW q, NEW b, NEW p, NEW r, NEW a, NEW o, NEW w \in Shared!Where,
         w = AtQueue => q = r,
         \A x \in Shared!Consumers : w = AtInbox(x) => b[x] = a[x],
         \A c \in RpcClients : w = OnScreen(c) => p[c] = o[c]
  PROVE  Holding(q, b, p)[w] = Holding(r, a, o)[w]
<1>1. CASE w = AtQueue
  BY <1>1, HoldingAt
<1>2. CASE \E x \in Shared!Consumers : w = AtInbox(x)
  <2>1. PICK x \in Shared!Consumers : w = AtInbox(x)
    BY <1>2
  <2>2. Holding(q, b, p)[w] = b[x] /\ Holding(r, a, o)[w] = a[x]
    BY <2>1, HoldingAt
  <2> QED BY <2>1, <2>2
<1>3. CASE \E c \in RpcClients : w = OnScreen(c)
  <2>1. PICK c \in RpcClients : w = OnScreen(c)
    BY <1>3
  <2>2. Holding(q, b, p)[w] = p[c] /\ Holding(r, a, o)[w] = o[c]
    BY <2>1, HoldingAt
  <2> QED BY <2>1, <2>2
<1> QED BY <1>1, <1>2, <1>3, PlacesAre

LEMMA PlacesSame ==
  ASSUME NEW g, NEW h, NEW w \in Shared!Where,
         w = AtQueue => g[AtQueue] = h[AtQueue],
         \A x \in Shared!Consumers : w = AtInbox(x) => g[AtInbox(x)] = h[AtInbox(x)],
         \A c \in RpcClients : w = OnScreen(c) => g[OnScreen(c)] = h[OnScreen(c)]
  PROVE  g[w] = h[w]
BY PlacesAre

-----------------------------------------------------------------------------
(* The steps. *)

\* The node puts the message in one place.
LEMMA PublishStep ==
  ASSUME NEW m \in RpcMessages, NEW b \in [Shared!Consumers -> Seq(RpcMessages)],
         NEW p \in [RpcClients -> Seq(RpcMessages)],
         rpc_queue \in Seq(RpcMessages), rpc_flowing \subseteq Shared!Consumers,
         Once(Holding(rpc_queue, b, p)), IdOf(m) \notin AllIds(Holding(rpc_queue, b, p)),
         Shared!Publish(m, b)
  PROVE  /\ rpc_queue' \in Seq(RpcMessages)
         /\ rpc_inbox' \in [Shared!Consumers -> Seq(RpcMessages)]
         /\ Once(Holding(rpc_queue', rpc_inbox', p))
         /\ AllIds(Holding(rpc_queue', rpc_inbox', p))
              = AllIds(Holding(rpc_queue, b, p)) \union {IdOf(m)}
<1> DEFINE h == Holding(rpc_queue, b, p)
           g == Holding(rpc_queue', rpc_inbox', p)
<1>1. h \in [Shared!Where -> Seq(RpcMessages)] /\ Once(h) /\ IdOf(m) \notin AllIds(h)
  BY RpcHeldIs
<1>2. CASE rpc_queue' = Append(rpc_queue, m) /\ rpc_inbox' = b
  <2>1. rpc_queue' \in Seq(RpcMessages) /\ rpc_inbox' \in [Shared!Consumers -> Seq(RpcMessages)]
    BY <1>2
  <2>2. g \in [Shared!Where -> Seq(RpcMessages)]
    BY <2>1, RpcHeldIs
  <2>3. g[AtQueue] = Append(h[AtQueue], m) /\ AtQueue \in Shared!Where
    <3>1. g[AtQueue] = rpc_queue' /\ h[AtQueue] = rpc_queue
      BY HoldingAt
    <3> QED BY <1>2, <3>1, PlacesAre
  <2>4. ASSUME NEW w \in Shared!Where, w /= AtQueue PROVE g[w] = h[w]
    <3>1. /\ g[AtQueue] = rpc_queue' /\ h[AtQueue] = rpc_queue
          /\ \A y \in Shared!Consumers : g[AtInbox(y)] = rpc_inbox'[y] /\ h[AtInbox(y)] = b[y]
          /\ \A c \in RpcClients : g[OnScreen(c)] = p[c] /\ h[OnScreen(c)] = p[c]
      BY HoldingAt
    <3> HIDE DEF h, g
    <3>2. /\ w = AtQueue => g[AtQueue] = h[AtQueue]
          /\ \A y \in Shared!Consumers : w = AtInbox(y) => g[AtInbox(y)] = h[AtInbox(y)]
          /\ \A c \in RpcClients : w = OnScreen(c) => g[OnScreen(c)] = h[OnScreen(c)]
      BY <1>2, <2>4, <3>1
    <3> QED BY <3>2, PlacesSame
  <2> HIDE DEF h, g
  <2>5. Once(g) /\ AllIds(g) = AllIds(h) \union {IdOf(m)}
    BY <1>1, <2>2, <2>3, <2>4, PutOnce
  <2> QED BY <2>1, <2>5 DEF h, g
<1>3. CASE \E x \in rpc_flowing : /\ rpc_inbox' = [b EXCEPT ![x] = Append(@, m)]
                                  /\ UNCHANGED rpc_queue
  <2>1. PICK x \in Shared!Consumers : /\ rpc_inbox' = [b EXCEPT ![x] = Append(b[x], m)]
                                      /\ UNCHANGED rpc_queue
    BY <1>3
  <2>2. /\ rpc_queue' \in Seq(RpcMessages)
        /\ rpc_inbox' \in [Shared!Consumers -> Seq(RpcMessages)]
        /\ rpc_inbox'[x] = Append(b[x], m)
        /\ \A y \in Shared!Consumers : y /= x => rpc_inbox'[y] = b[y]
    BY <2>1
  <2>3. g \in [Shared!Where -> Seq(RpcMessages)]
    BY <2>2, RpcHeldIs
  <2>4. g[AtInbox(x)] = Append(h[AtInbox(x)], m) /\ AtInbox(x) \in Shared!Where
    <3>1. g[AtInbox(x)] = rpc_inbox'[x] /\ h[AtInbox(x)] = b[x]
      BY HoldingAt
    <3> QED BY <2>2, <3>1, PlacesAre
  <2>5. ASSUME NEW w \in Shared!Where, w /= AtInbox(x) PROVE g[w] = h[w]
    <3>1. /\ g[AtQueue] = rpc_queue' /\ h[AtQueue] = rpc_queue
          /\ \A y \in Shared!Consumers : g[AtInbox(y)] = rpc_inbox'[y] /\ h[AtInbox(y)] = b[y]
          /\ \A c \in RpcClients : g[OnScreen(c)] = p[c] /\ h[OnScreen(c)] = p[c]
      BY HoldingAt
    <3> HIDE DEF h, g
    <3>2. /\ w = AtQueue => g[AtQueue] = h[AtQueue]
          /\ \A y \in Shared!Consumers : w = AtInbox(y) => g[AtInbox(y)] = h[AtInbox(y)]
          /\ \A c \in RpcClients : w = OnScreen(c) => g[OnScreen(c)] = h[OnScreen(c)]
      BY <2>1, <2>2, <2>5, <3>1
    <3> QED BY <3>2, PlacesSame
  <2> HIDE DEF h, g
  <2>6. Once(g) /\ AllIds(g) = AllIds(h) \union {IdOf(m)}
    BY <1>1, <2>3, <2>4, <2>5, PutOnce
  <2> QED BY <2>2, <2>6 DEF h, g
<1> QED BY <1>2, <1>3 DEF Shared!Publish

\* A message is taken from an inbox.
LEMMA HandledStep ==
  ASSUME RpcInv, NEW x \in Shared!Consumers, rpc_inbox[x] /= <<>>
  PROVE  LET b == Shared!Handled(x)
             m == Head(rpc_inbox[x])
             g == Holding(rpc_queue, b, rpc_printed)
         IN  /\ b \in [Shared!Consumers -> Seq(RpcMessages)] /\ m \in RpcMessages
             /\ Once(g) /\ IdOf(m) \in AllIds(RpcHeld)
             /\ AllIds(g) \subseteq AllIds(RpcHeld) \ {IdOf(m)}
<1> DEFINE h == RpcHeld
           b == Shared!Handled(x)
           m == Head(rpc_inbox[x])
           g == Holding(rpc_queue, b, rpc_printed)
<1>1. /\ rpc_queue \in Seq(RpcMessages)
      /\ rpc_inbox \in [Shared!Consumers -> Seq(RpcMessages)]
      /\ rpc_printed \in [RpcClients -> Seq(RpcMessages)]
      /\ Once(h)
  BY DEF RpcInv
<1>2. h \in [Shared!Where -> Seq(RpcMessages)]
  BY <1>1, RpcHeldIs DEF RpcHeld
<1>3. /\ b \in [Shared!Consumers -> Seq(RpcMessages)] /\ b[x] = Tail(rpc_inbox[x])
      /\ \A y \in Shared!Consumers : y /= x => b[y] = rpc_inbox[y]
  BY <1>1 DEF Shared!Handled
<1> HIDE DEF b
<1>4. g \in [Shared!Where -> Seq(RpcMessages)]
  BY <1>1, <1>3, RpcHeldIs
<1>5. /\ g[AtInbox(x)] = Tail(h[AtInbox(x)]) /\ h[AtInbox(x)] = rpc_inbox[x]
      /\ AtInbox(x) \in Shared!Where
  <2>1. g[AtInbox(x)] = b[x] /\ h[AtInbox(x)] = rpc_inbox[x]
    BY HoldingAt DEF RpcHeld
  <2> QED BY <1>3, <2>1, PlacesAre
<1>6. ASSUME NEW w \in Shared!Where, w /= AtInbox(x) PROVE g[w] = h[w]
  <2>1. \A y \in Shared!Consumers : w = AtInbox(y) => b[y] = rpc_inbox[y]
    BY <1>3, <1>6
  <2> QED BY <2>1, HoldingSame DEF RpcHeld
<1> HIDE DEF h, g
<1>7. /\ Once(g) /\ Head(h[AtInbox(x)]) \in RpcMessages
      /\ IdOf(Head(h[AtInbox(x)])) \in AllIds(h)
      /\ AllIds(g) \subseteq AllIds(h) \ {IdOf(Head(h[AtInbox(x)]))}
  BY <1>1, <1>2, <1>4, <1>5, <1>6, TakenOnce
<1> QED BY <1>3, <1>5, <1>7 DEF h, g, b

LEMMA OnSendableStep ==
  ASSUME RpcInv, NEW x \in Shared!Consumers, Shared!OnSendable(x)
  PROVE  RpcInv'
<1> DEFINE h == RpcHeld
           g == RpcHeld'
<1>1. /\ rpc_queue \in Seq(RpcMessages)
      /\ rpc_inbox \in [Shared!Consumers -> Seq(RpcMessages)]
      /\ rpc_printed \in [RpcClients -> Seq(RpcMessages)]
      /\ Once(h)
      /\ \A i \in AllIds(h) :
            i[1] \in rpc_opened /\ i[2] \in 1..(Len(rpc_printed[i[1]]) + 1)
  BY DEF RpcInv
<1>2. /\ rpc_flowing' = rpc_flowing \union {x} /\ rpc_queue' = <<>>
      /\ rpc_inbox' = [rpc_inbox EXCEPT ![x] = rpc_inbox[x] \o rpc_queue]
      /\ UNCHANGED <<rpc_opened, rpc_printed>>
  BY DEF Shared!OnSendable
<1>3. /\ rpc_queue' \in Seq(RpcMessages)
      /\ rpc_inbox' \in [Shared!Consumers -> Seq(RpcMessages)]
      /\ rpc_inbox'[x] = rpc_inbox[x] \o rpc_queue
      /\ \A y \in Shared!Consumers : y /= x => rpc_inbox'[y] = rpc_inbox[y]
  <2>1. rpc_inbox[x] \o rpc_queue \in Seq(RpcMessages)
    BY <1>1
  <2> QED BY <1>1, <1>2, <2>1
<1>4. h \in [Shared!Where -> Seq(RpcMessages)] /\ g \in [Shared!Where -> Seq(RpcMessages)]
  BY <1>1, <1>2, <1>3, RpcHeldIs DEF RpcHeld
<1>5. /\ AtInbox(x) \in Shared!Where /\ AtQueue \in Shared!Where /\ AtInbox(x) /= AtQueue
      /\ g[AtQueue] = <<>> /\ g[AtInbox(x)] = h[AtInbox(x)] \o h[AtQueue]
  <2>1. h[AtQueue] = rpc_queue /\ h[AtInbox(x)] = rpc_inbox[x]
    BY HoldingAt DEF RpcHeld
  <2>2. g[AtQueue] = rpc_queue' /\ g[AtInbox(x)] = rpc_inbox'[x]
    BY HoldingAt DEF RpcHeld
  <2> QED BY <1>2, <1>3, <2>1, <2>2, PlacesAre
<1>6. ASSUME NEW w \in Shared!Where, w /= AtInbox(x), w /= AtQueue PROVE g[w] = h[w]
  <2>1. /\ w = AtQueue => rpc_queue' = rpc_queue
        /\ \A y \in Shared!Consumers : w = AtInbox(y) => rpc_inbox'[y] = rpc_inbox[y]
        /\ \A c \in RpcClients : w = OnScreen(c) => rpc_printed'[c] = rpc_printed[c]
    BY <1>2, <1>3, <1>6
  <2> QED BY <2>1, HoldingSame DEF RpcHeld
<1>7. Once(g) /\ AllIds(g) \subseteq AllIds(h)
  <2> HIDE DEF h, g
  <2> QED BY <1>1, <1>4, <1>5, <1>6, MovedOnce
<1>8. rpc_flowing' \subseteq Shared!Consumers /\ rpc_opened' \subseteq RpcClients
  BY <1>2 DEF RpcInv
<1>9. \A i \in AllIds(g) :
         i[1] \in rpc_opened' /\ i[2] \in 1..(Len(rpc_printed'[i[1]]) + 1)
  BY <1>1, <1>2, <1>7
<1> QED BY <1>1, <1>2, <1>3, <1>7, <1>8, <1>9 DEF RpcInv

LEMMA OnLinkOpenedStep ==
  ASSUME RpcInv, NEW c \in RpcClients, Shared!OnLinkOpened(c)
  PROVE  RpcInv'
<1> DEFINE h == RpcHeld
           g == RpcHeld'
           m == Shared!Request(c, 0)
<1>1. /\ rpc_queue \in Seq(RpcMessages) /\ rpc_flowing \subseteq Shared!Consumers
      /\ rpc_opened \subseteq RpcClients
      /\ rpc_inbox \in [Shared!Consumers -> Seq(RpcMessages)]
      /\ rpc_printed \in [RpcClients -> Seq(RpcMessages)]
      /\ Once(h)
      /\ \A i \in AllIds(h) :
            i[1] \in rpc_opened /\ i[2] \in 1..(Len(rpc_printed[i[1]]) + 1)
  BY DEF RpcInv
<1>2. /\ c \notin rpc_opened /\ rpc_opened' = rpc_opened \union {c}
      /\ Shared!Publish(m, rpc_inbox)
      /\ UNCHANGED <<rpc_flowing, rpc_printed>>
  BY DEF Shared!OnLinkOpened, Shared!node
<1>3. m \in RpcMessages /\ IdOf(m) = <<c, 1>>
  BY DEF Shared!Request, RpcMessages, IdOf
<1>4. IdOf(m) \notin AllIds(h)
  BY <1>1, <1>2, <1>3
<1> HIDE DEF m
<1>5. /\ rpc_queue' \in Seq(RpcMessages)
      /\ rpc_inbox' \in [Shared!Consumers -> Seq(RpcMessages)]
      /\ Once(g) /\ AllIds(g) = AllIds(h) \union {IdOf(m)}
  BY <1>1, <1>2, <1>3, <1>4, PublishStep DEF RpcHeld
<1>6. \A i \in AllIds(g) :
         i[1] \in rpc_opened' /\ i[2] \in 1..(Len(rpc_printed'[i[1]]) + 1)
  <2>1. Len(rpc_printed[c]) \in Nat
    BY <1>1
  <2>2. <<c, 1>>[1] = c /\ <<c, 1>>[2] = 1 /\ 1 \in 1..(Len(rpc_printed[c]) + 1)
    BY <2>1
  <2> HIDE DEF h, g
  <2> QED BY <1>1, <1>2, <1>3, <1>5, <2>2
<1> QED BY <1>1, <1>2, <1>5, <1>6 DEF RpcInv

\* What the client takes from its inbox goes to the screen.
LEMMA PrintsStep ==
  ASSUME RpcInv, NEW c \in RpcClients, Shared!Prints(c)
  PROVE  LET b == Shared!Handled(c)
             g == Holding(rpc_queue, b, rpc_printed')
         IN  /\ b \in [Shared!Consumers -> Seq(RpcMessages)]
             /\ rpc_printed' \in [RpcClients -> Seq(RpcMessages)]
             /\ Len(rpc_printed'[c]) = Len(rpc_printed[c]) + 1
             /\ \A d \in RpcClients : d /= c => rpc_printed'[d] = rpc_printed[d]
             /\ Once(g) /\ AllIds(g) \subseteq AllIds(RpcHeld)
<1> DEFINE h == RpcHeld
           b == Shared!Handled(c)
           m == Head(rpc_inbox[c])
           f == Holding(rpc_queue, b, rpc_printed)
           g == Holding(rpc_queue, b, rpc_printed')
<1>1. /\ rpc_queue \in Seq(RpcMessages)
      /\ rpc_inbox \in [Shared!Consumers -> Seq(RpcMessages)]
      /\ rpc_printed \in [RpcClients -> Seq(RpcMessages)]
      /\ c \in Shared!Consumers /\ rpc_inbox[c] /= <<>>
      /\ rpc_printed' = [rpc_printed EXCEPT ![c] = Append(rpc_printed[c], m)]
  BY DEF RpcInv, Shared!Prints, Shared!Consumers
<1>2. /\ b \in [Shared!Consumers -> Seq(RpcMessages)] /\ m \in RpcMessages
      /\ Once(f) /\ IdOf(m) \in AllIds(h)
      /\ AllIds(f) \subseteq AllIds(h) \ {IdOf(m)}
  BY <1>1, HandledStep
<1> HIDE DEF b, m
<1>3. /\ rpc_printed' \in [RpcClients -> Seq(RpcMessages)]
      /\ rpc_printed'[c] = Append(rpc_printed[c], m)
      /\ Len(rpc_printed'[c]) = Len(rpc_printed[c]) + 1
      /\ \A d \in RpcClients : d /= c => rpc_printed'[d] = rpc_printed[d]
  BY <1>1, <1>2
<1>4. f \in [Shared!Where -> Seq(RpcMessages)] /\ g \in [Shared!Where -> Seq(RpcMessages)]
  BY <1>1, <1>2, <1>3, RpcHeldIs
<1>5. OnScreen(c) \in Shared!Where /\ g[OnScreen(c)] = Append(f[OnScreen(c)], m)
  <2>1. g[OnScreen(c)] = rpc_printed'[c] /\ f[OnScreen(c)] = rpc_printed[c]
    BY HoldingAt
  <2> QED BY <1>3, <2>1, PlacesAre
<1>6. ASSUME NEW w \in Shared!Where, w /= OnScreen(c) PROVE g[w] = f[w]
  <2>1. /\ g[AtQueue] = f[AtQueue]
        /\ \A y \in Shared!Consumers : g[AtInbox(y)] = f[AtInbox(y)]
        /\ \A d \in RpcClients : g[OnScreen(d)] = rpc_printed'[d] /\ f[OnScreen(d)] = rpc_printed[d]
    BY HoldingAt
  <2> HIDE DEF f, g
  <2>2. \A d \in RpcClients : w = OnScreen(d) => g[OnScreen(d)] = f[OnScreen(d)]
    BY <1>3, <1>6, <2>1
  <2> QED BY <2>1, <2>2, PlacesSame
<1> HIDE DEF f, g
<1>7. Once(g) /\ AllIds(g) = AllIds(f) \union {IdOf(m)}
  <2>1. IdOf(m) \notin AllIds(f) /\ m \in RpcMessages /\ Once(f)
    BY <1>2 DEF f
  <2> QED BY <1>4, <1>5, <1>6, <2>1, PutOnce
<1> QED BY <1>2, <1>3, <1>7 DEF g, h, b

LEMMA RpcOnMessageStep ==
  ASSUME RpcInv, NEW c \in RpcClients, Shared!OnMessage(c)
  PROVE  RpcInv'
<1> DEFINE h == RpcHeld
           g == RpcHeld'
           b == Shared!Handled(c)
           f == Holding(rpc_queue, b, rpc_printed')
           m == Shared!Request(c, Len(rpc_printed'[c]))
<1>1. /\ rpc_queue \in Seq(RpcMessages) /\ rpc_flowing \subseteq Shared!Consumers
      /\ rpc_opened \subseteq RpcClients
      /\ rpc_printed \in [RpcClients -> Seq(RpcMessages)]
      /\ \A i \in AllIds(h) :
            i[1] \in rpc_opened /\ i[2] \in 1..(Len(rpc_printed[i[1]]) + 1)
  BY DEF RpcInv
<1>2. /\ Shared!Prints(c) /\ c \in rpc_opened
      /\ UNCHANGED <<rpc_flowing, rpc_opened>>
      /\ \/ Shared!Publish(m, b)
         \/ rpc_inbox' = b /\ UNCHANGED rpc_queue
  BY DEF Shared!OnMessage, Shared!Prints, Shared!node
<1>3. /\ b \in [Shared!Consumers -> Seq(RpcMessages)]
      /\ rpc_printed' \in [RpcClients -> Seq(RpcMessages)]
      /\ Len(rpc_printed'[c]) = Len(rpc_printed[c]) + 1
      /\ \A d \in RpcClients : d /= c => rpc_printed'[d] = rpc_printed[d]
      /\ Once(f) /\ AllIds(f) \subseteq AllIds(h)
  BY <1>2, PrintsStep
<1>4. Len(rpc_printed[c]) \in Nat
  BY <1>1
<1>5. m \in RpcMessages /\ IdOf(m) = <<c, Len(rpc_printed[c]) + 2>>
  BY <1>3, <1>4 DEF Shared!Request, RpcMessages, IdOf
<1>6. IdOf(m) \notin AllIds(f)
  <2>1. <<c, Len(rpc_printed[c]) + 2>>[1] = c
        /\ <<c, Len(rpc_printed[c]) + 2>>[2] = Len(rpc_printed[c]) + 2
    OBVIOUS
  <2>2. Len(rpc_printed[c]) + 2 \notin 1..(Len(rpc_printed[c]) + 1)
    BY <1>4
  <2> HIDE DEF f, h, m
  <2> QED BY <1>1, <1>3, <1>5, <2>1, <2>2
<1> HIDE DEF m, b
<1>7. /\ rpc_queue' \in Seq(RpcMessages)
      /\ rpc_inbox' \in [Shared!Consumers -> Seq(RpcMessages)]
      /\ Once(g) /\ AllIds(g) \subseteq AllIds(h) \union {IdOf(m)}
  <2>1. CASE Shared!Publish(m, b)
    <3>1. /\ rpc_queue' \in Seq(RpcMessages)
          /\ rpc_inbox' \in [Shared!Consumers -> Seq(RpcMessages)]
          /\ Once(g) /\ AllIds(g) = AllIds(f) \union {IdOf(m)}
      BY <1>1, <1>3, <1>5, <1>6, <2>1, PublishStep DEF RpcHeld
    <3> HIDE DEF f, g, h
    <3> QED BY <1>3, <3>1
  <2>2. CASE rpc_inbox' = b /\ UNCHANGED rpc_queue
    <3>1. g = f
      BY <2>2 DEF RpcHeld
    <3> HIDE DEF f, g, h
    <3> QED BY <1>1, <1>3, <2>2, <3>1
  <2> QED BY <1>2, <2>1, <2>2
<1>8. ASSUME NEW i \in AllIds(g)
      PROVE  i[1] \in rpc_opened' /\ i[2] \in 1..(Len(rpc_printed'[i[1]]) + 1)
  <2>1. CASE i = IdOf(m)
    <3>1. i[1] = c /\ i[2] = Len(rpc_printed[c]) + 2
      BY <1>5, <2>1
    <3> QED BY <1>2, <1>3, <1>4, <3>1
  <2>2. CASE i \in AllIds(h)
    <3>1. i[1] \in rpc_opened /\ i[2] \in 1..(Len(rpc_printed[i[1]]) + 1) /\ i[1] \in RpcClients
      BY <1>1, <2>2
    <3>2. Len(rpc_printed[i[1]]) \in Nat
      BY <1>1, <3>1
    <3>3. Len(rpc_printed'[i[1]]) \in {Len(rpc_printed[i[1]]), Len(rpc_printed[i[1]]) + 1}
      BY <1>3, <3>1
    <3> QED BY <1>2, <3>1, <3>2, <3>3
  <2> QED BY <1>7, <2>1, <2>2
<1> QED BY <1>1, <1>2, <1>3, <1>7, <1>8 DEF RpcInv

LEMMA ServeStep ==
  ASSUME RpcInv, Shared!Serve
  PROVE  RpcInv'
<1> DEFINE h == RpcHeld
           g == RpcHeld'
           x == Shared!Server
           b == Shared!Handled(x)
           f == Holding(rpc_queue, b, rpc_printed)
           e == Head(rpc_inbox[x])
           m == [e EXCEPT !.upper = TRUE]
<1>1. /\ rpc_queue \in Seq(RpcMessages) /\ rpc_flowing \subseteq Shared!Consumers
      /\ rpc_opened \subseteq RpcClients
      /\ rpc_printed \in [RpcClients -> Seq(RpcMessages)]
      /\ \A i \in AllIds(h) :
            i[1] \in rpc_opened /\ i[2] \in 1..(Len(rpc_printed[i[1]]) + 1)
  BY DEF RpcInv
<1>2. /\ x \in Shared!Consumers /\ rpc_inbox[x] /= <<>> /\ Shared!Publish(m, b)
      /\ UNCHANGED <<rpc_flowing, rpc_opened, rpc_printed>>
  BY DEF Shared!Serve, Shared!node, Shared!Consumers
<1>3. /\ b \in [Shared!Consumers -> Seq(RpcMessages)] /\ e \in RpcMessages
      /\ Once(f) /\ IdOf(e) \in AllIds(h)
      /\ AllIds(f) \subseteq AllIds(h) \ {IdOf(e)}
  BY <1>2, HandledStep
<1>4. m \in RpcMessages /\ IdOf(m) = IdOf(e)
  <2> HIDE DEF e
  <2> QED BY <1>3 DEF RpcMessages, IdOf
<1> HIDE DEF m, b, e
<1>5. IdOf(m) \notin AllIds(f)
  BY <1>3, <1>4
<1>6. /\ rpc_queue' \in Seq(RpcMessages)
      /\ rpc_inbox' \in [Shared!Consumers -> Seq(RpcMessages)]
      /\ Once(g) /\ AllIds(g) = AllIds(f) \union {IdOf(m)}
  BY <1>1, <1>2, <1>3, <1>4, <1>5, PublishStep DEF RpcHeld
<1>7. AllIds(g) \subseteq AllIds(h)
  BY <1>3, <1>4, <1>6
<1>8. \A i \in AllIds(g) :
         i[1] \in rpc_opened' /\ i[2] \in 1..(Len(rpc_printed'[i[1]]) + 1)
  BY <1>1, <1>2, <1>7
<1> QED BY <1>1, <1>2, <1>6, <1>8 DEF RpcInv

LEMMA RpcStep ==
  ASSUME RpcInv, [Shared!Next]_Shared!vars
  PROVE  RpcInv'
<1>1. CASE Shared!Serve
  BY <1>1, ServeStep
<1>2. CASE \E x \in Shared!Consumers : Shared!OnSendable(x)
  BY <1>2, OnSendableStep
<1>3. CASE \E c \in RpcClients : Shared!OnLinkOpened(c)
  BY <1>3, OnLinkOpenedStep
<1>4. CASE \E c \in RpcClients : Shared!OnMessage(c)
  BY <1>4, RpcOnMessageStep
<1>5. ASSUME UNCHANGED <<rpc_opened, rpc_printed, rpc_queue, rpc_inbox>>,
             rpc_flowing' \subseteq rpc_flowing
      PROVE  RpcInv'
  <2>1. RpcHeld' = RpcHeld
    BY <1>5 DEF RpcHeld
  <2> QED BY <1>5, <2>1 DEF RpcInv
<1>6. CASE \E x \in Shared!Consumers : Shared!OnLinkOpening(x)
  BY <1>5, <1>6 DEF Shared!OnLinkOpening
<1>7. CASE \E c \in RpcClients : Shared!OnConnectionClosing(c)
  BY <1>5, <1>7 DEF Shared!OnConnectionClosing
<1>8. CASE UNCHANGED Shared!vars
  BY <1>5, <1>8 DEF Shared!vars, Shared!node
<1> QED BY <1>1, <1>2, <1>3, <1>4, <1>6, <1>7, <1>8 DEF Shared!Next

\* However many clients there are and whatever they ask, no request is at two
\* places: none is printed twice, by the same client or another one, and none
\* before it was asked.
THEOREM NothingTwiceHolds == Spec => []NothingTwice
<1>1. Init => RpcInv
  <2> SUFFICES ASSUME Shared!Init PROVE RpcInv
    BY DEF Init
  <2>1. /\ rpc_flowing = {} /\ rpc_opened = {} /\ rpc_queue = <<>>
        /\ rpc_inbox = [x \in Shared!Consumers |-> <<>>]
        /\ rpc_printed = [c \in RpcClients |-> <<>>]
    BY DEF Shared!Init
  <2>2. \A w \in Shared!Where : RpcHeld[w] = <<>>
    <3> SUFFICES ASSUME NEW w \in Shared!Where PROVE RpcHeld[w] = <<>>
      OBVIOUS
    <3>1. CASE w = AtQueue
      BY <2>1, <3>1, HoldingAt DEF RpcHeld
    <3>2. CASE \E x \in Shared!Consumers : w = AtInbox(x)
      BY <2>1, <3>2, HoldingAt DEF RpcHeld
    <3>3. CASE \E c \in RpcClients : w = OnScreen(c)
      BY <2>1, <3>3, HoldingAt DEF RpcHeld
    <3> QED BY <3>1, <3>2, <3>3, PlacesAre
  <2>3. DOMAIN RpcHeld = Shared!Where
    BY DEF RpcHeld, Holding
  <2>4. \A w \in DOMAIN RpcHeld : Single(RpcHeld[w]) /\ Ids(RpcHeld[w]) = {}
    BY <2>2, <2>3 DEF Single, Ids
  <2>5. Once(RpcHeld) /\ AllIds(RpcHeld) = {}
    BY <2>4 DEF Once, AllIds
  <2> QED BY <2>1, <2>5 DEF RpcInv
<1>2. RpcInv /\ [Next]_vars => RpcInv'
  BY Runs, RpcStep
<1>3. RpcInv => NothingTwice
  <2> SUFFICES ASSUME RpcInv PROVE Shared!NothingTwice
    BY DEF NothingTwice
  <2>1. \A w \in Shared!Where : Shared!Held(w) = RpcHeld[w]
    <3> SUFFICES ASSUME NEW w \in Shared!Where PROVE Shared!Held(w) = RpcHeld[w]
      OBVIOUS
    <3>1. w[1] = "queue" \/ w[1] = "inbox" \/ w[1] = "printed"
      BY DEF Shared!Where
    <3> QED BY <3>1 DEF RpcHeld, Holding, Shared!Held
  <2>2. DOMAIN RpcHeld = Shared!Where /\ Once(RpcHeld)
    BY DEF RpcHeld, Holding, RpcInv
  <2>3. ASSUME NEW p \in Shared!Places
        PROVE  /\ p[1] \in Shared!Where /\ p[2] \in DOMAIN RpcHeld[p[1]]
               /\ p = <<p[1], p[2]>>
               /\ Shared!RequestAt(p) = IdOf(RpcHeld[p[1]][p[2]])
               /\ Shared!RequestAt(p) \in Ids(RpcHeld[p[1]])
               /\ Shared!RequestAt(p) \in AllIds(RpcHeld)
    <3>1. PICK w \in Shared!Where : p \in {w} \X DOMAIN RpcHeld[w]
      BY <2>1 DEF Shared!Places
    <3>2. p[1] = w /\ p[2] \in DOMAIN RpcHeld[w] /\ p = <<p[1], p[2]>>
      BY <3>1
    <3>3. Shared!RequestAt(p) = IdOf(RpcHeld[w][p[2]])
      BY <2>1, <3>2 DEF Shared!RequestAt, IdOf
    <3>4. Shared!RequestAt(p) \in Ids(RpcHeld[w])
      BY <3>2, <3>3 DEF Ids
    <3>5. Shared!RequestAt(p) \in AllIds(RpcHeld)
      BY <2>2, <3>4, InAllIds
    <3> QED BY <3>2, <3>3, <3>4, <3>5
  <2>4. ASSUME NEW p \in Shared!Places, NEW q \in Shared!Places,
               Shared!RequestAt(p) = Shared!RequestAt(q)
        PROVE  p = q
    <3>1. p[1] = q[1]
      BY <2>2, <2>3, <2>4 DEF Once
    <3>2. p[2] = q[2]
      BY <2>2, <2>3, <2>4, <3>1 DEF Once, Single
    <3> QED BY <2>3, <3>1, <3>2
  <2>5. \A p \in Shared!Places :
           LET c == Shared!RequestAt(p)[1]
           IN  c \in rpc_opened /\ Shared!RequestAt(p)[2] \in 1..(Len(rpc_printed[c]) + 1)
    BY <2>3 DEF RpcInv
  <2> QED BY <2>4, <2>5 DEF Shared!NothingTwice
<1> QED BY <1>1, <1>2, <1>3, PTL DEF Spec

-----------------------------------------------------------------------------
(* The failover programs. *)

\* Every message of s comes after all its predecessors, those in P excepted.
InOrder(s, P) ==
  \A k \in DOMAIN s : /\ s[k] > 0
                      /\ \A x \in 1..(s[k] - 1) : x \in P \/ \E j \in 1..(k - 1) : s[j] = x

\* The first message waits for none that is not in P.
LEMMA InOrderTaken ==
  ASSUME NEW s \in Seq(Nat), s /= <<>>, NEW P, InOrder(s, P)
  PROVE  /\ Head(s) > 0 /\ 1..(Head(s) - 1) \subseteq P
         /\ \A Q : P \union {Head(s)} \subseteq Q => InOrder(Tail(s), Q)
<1>1. /\ 1 \in DOMAIN s /\ Head(s) = s[1] /\ Tail(s) \in Seq(Nat) /\ DOMAIN s = 1..Len(s)
      /\ \A k \in DOMAIN Tail(s) : k \in Nat \ {0} /\ k + 1 \in DOMAIN s /\ Tail(s)[k] = s[k + 1]
      /\ \A k \in DOMAIN Tail(s) : \A j \in 1..(k - 1) : j \in DOMAIN Tail(s)
  OBVIOUS
<1>2. /\ s[1] > 0
      /\ \A x \in 1..(s[1] - 1) : x \in P \/ \E j \in 1..0 : s[j] = x
  BY <1>1 DEF InOrder
<1>3. ASSUME NEW Q, P \union {Head(s)} \subseteq Q PROVE InOrder(Tail(s), Q)
  <2> SUFFICES ASSUME NEW k \in DOMAIN Tail(s)
               PROVE  /\ Tail(s)[k] > 0
                      /\ \A x \in 1..(Tail(s)[k] - 1) :
                           x \in Q \/ \E j \in 1..(k - 1) : Tail(s)[j] = x
    BY DEF InOrder
  <2>1. k \in Nat \ {0} /\ k + 1 \in DOMAIN s /\ Tail(s)[k] = s[k + 1]
    BY <1>1
  <2>2. /\ s[k + 1] > 0
        /\ \A x \in 1..(s[k + 1] - 1) : x \in P \/ \E j \in 1..((k + 1) - 1) : s[j] = x
    BY <2>1 DEF InOrder
  <2>3. ASSUME NEW x \in 1..(Tail(s)[k] - 1), x \notin Q
        PROVE  \E j \in 1..(k - 1) : Tail(s)[j] = x
    <3>1. PICK j \in 1..((k + 1) - 1) : s[j] = x
      BY <1>3, <2>1, <2>2, <2>3
    <3>2. j /= 1
      BY <1>1, <1>3, <2>3, <3>1
    <3>3. j - 1 \in 1..(k - 1) /\ (j - 1) + 1 = j
      BY <2>1, <3>1, <3>2
    <3>4. Tail(s)[j - 1] = s[j]
      BY <1>1, <3>3
    <3> QED BY <3>1, <3>3, <3>4
  <2> QED BY <2>1, <2>2, <2>3
<1> QED BY <1>1, <1>2, <1>3

\* The messages after lo may follow when those up to lo are there.
LEMMA InOrderMore ==
  ASSUME NEW s \in Seq(Nat), NEW P, InOrder(s, P),
         NEW lo \in Nat, 1..lo \subseteq P \union Elements(s),
         NEW b \in Seq(Nat), \A k \in 1..Len(b) : b[k] = lo + k
  PROVE  InOrder(s \o b, P)
<1>1. /\ s \o b \in Seq(Nat) /\ Len(s \o b) = Len(s) + Len(b)
      /\ \A k \in 1..Len(s) : (s \o b)[k] = s[k]
      /\ \A k \in 1..Len(b) : (s \o b)[Len(s) + k] = b[k]
  BY Joined
<1>2. PICK r : r = s \o b
  OBVIOUS
<1>3. /\ Len(s) \in Nat /\ Len(b) \in Nat /\ DOMAIN s = 1..Len(s)
      /\ DOMAIN r = 1..(Len(s) + Len(b))
      /\ \A k \in 1..Len(s) : r[k] = s[k]
      /\ \A k \in 1..Len(b) : r[Len(s) + k] = lo + k
  <2>1. r \in Seq(Nat) /\ Len(r) = Len(s) + Len(b)
    BY <1>1, <1>2
  <2>2. DOMAIN r = 1..Len(r)
    BY <2>1
  <2> QED BY <1>1, <1>2, <2>1, <2>2
<1>4. SUFFICES ASSUME NEW k \in DOMAIN r
               PROVE  /\ r[k] > 0
                      /\ \A x \in 1..(r[k] - 1) : x \in P \/ \E j \in 1..(k - 1) : r[j] = x
  BY <1>2 DEF InOrder
<1>5. CASE k <= Len(s)
  <2>1. k \in DOMAIN s /\ r[k] = s[k]
    BY <1>3, <1>5
  <2>2. /\ s[k] > 0
        /\ \A x \in 1..(s[k] - 1) : x \in P \/ \E j \in 1..(k - 1) : s[j] = x
    BY <2>1 DEF InOrder
  <2>3. \A j \in 1..(k - 1) : r[j] = s[j]
    BY <1>3, <1>5
  <2> QED BY <2>1, <2>2, <2>3
<1>6. CASE ~(k <= Len(s))
  <2>1. PICK i \in 1..Len(b) : k = Len(s) + i
    <3>1. k - Len(s) \in 1..Len(b) /\ k = Len(s) + (k - Len(s))
      BY <1>3, <1>6
    <3> QED BY <3>1
  <2>2. r[k] = lo + i
    BY <1>3, <2>1
  <2>3. ASSUME NEW x \in 1..(r[k] - 1), x \notin P
        PROVE  \E j \in 1..(k - 1) : r[j] = x
    <3>1. CASE x <= lo
      <4>1. PICK j \in DOMAIN s : s[j] = x
        BY <2>3, <3>1 DEF Elements
      <4>2. j \in 1..(k - 1) /\ r[j] = x
        BY <1>3, <1>6, <4>1
      <4> QED BY <4>2
    <3>2. CASE ~(x <= lo)
      <4>1. PICK h \in 1..Len(b) : x = lo + h /\ h < i
        <5>1. x - lo \in 1..Len(b) /\ x = lo + (x - lo) /\ x - lo < i
          BY <1>3, <2>1, <2>2, <3>2
        <5> QED BY <5>1
      <4>2. Len(s) + h \in 1..(k - 1) /\ r[Len(s) + h] = x
        BY <1>3, <2>1, <4>1
      <4> QED BY <4>2
    <3> QED BY <3>1, <3>2
  <2> QED BY <2>1, <2>2, <2>3
<1> QED BY <1>5, <1>6

\* The messages that the node takes back are in P with all their predecessors.
LEMMA InOrderAgain ==
  ASSUME NEW s \in Seq(Nat), NEW m \in Nat, InOrder(s, 1..m),
         NEW t \in Seq(Nat), Elements(t) \subseteq 1..m
  PROVE  InOrder(t \o s, 1..m)
<1>1. /\ t \o s \in Seq(Nat) /\ Len(t \o s) = Len(t) + Len(s)
      /\ \A k \in 1..Len(t) : (t \o s)[k] = t[k]
      /\ \A k \in 1..Len(s) : (t \o s)[Len(t) + k] = s[k]
  BY Joined
<1>2. PICK r : r = t \o s
  OBVIOUS
<1>3. /\ Len(s) \in Nat /\ Len(t) \in Nat /\ DOMAIN s = 1..Len(s) /\ DOMAIN t = 1..Len(t)
      /\ DOMAIN r = 1..(Len(t) + Len(s))
      /\ \A k \in 1..Len(t) : r[k] = t[k]
      /\ \A k \in 1..Len(s) : r[Len(t) + k] = s[k]
  <2>1. r \in Seq(Nat) /\ Len(r) = Len(t) + Len(s)
    BY <1>1, <1>2
  <2>2. DOMAIN r = 1..Len(r)
    BY <2>1
  <2> QED BY <1>1, <1>2, <2>1, <2>2
<1>4. SUFFICES ASSUME NEW k \in DOMAIN r
               PROVE  /\ r[k] > 0
                      /\ \A x \in 1..(r[k] - 1) : x \in 1..m \/ \E j \in 1..(k - 1) : r[j] = x
  BY <1>2 DEF InOrder
<1>5. CASE k <= Len(t)
  <2>1. r[k] = t[k] /\ t[k] \in 1..m
    BY <1>3, <1>5 DEF Elements
  <2> QED BY <2>1
<1>6. CASE ~(k <= Len(t))
  <2>1. PICK i \in 1..Len(s) : k = Len(t) + i
    <3>1. k - Len(t) \in 1..Len(s) /\ k = Len(t) + (k - Len(t))
      BY <1>3, <1>6
    <3> QED BY <3>1
  <2>2. /\ r[k] = s[i] /\ s[i] > 0
        /\ \A x \in 1..(s[i] - 1) : x \in 1..m \/ \E j \in 1..(i - 1) : s[j] = x
    BY <1>3, <2>1 DEF InOrder
  <2>3. ASSUME NEW j \in 1..(i - 1)
        PROVE  Len(t) + j \in 1..(k - 1) /\ r[Len(t) + j] = s[j]
    BY <1>3, <2>1, <2>3
  <2> QED BY <2>2, <2>3
<1> QED BY <1>5, <1>6

\* While n is the only node used, the receiver has printed the first messages and
\* stands at the last of them or one further; the node has the others in order.
OneNode(n) ==
  /\ fo_sendNode \in {FoNone, n} /\ fo_recvNode \in {FoNone, n}
  /\ fo_sendNode = FoNone => fo_wire = <<>>
  /\ fo_confirmed \in Nat /\ fo_acks \in Nat
  /\ fo_store \in [FoNodes -> Seq(Nat)]
  /\ fo_unsettled \in Seq(Nat) /\ Elements(fo_unsettled) \subseteq fo_printed
  /\ Carries(fo_wire, fo_confirmed + fo_acks, fo_sent)
  /\ 1..(fo_confirmed + fo_acks) \subseteq fo_printed \union Elements(fo_store[n])
  /\ InOrder(fo_store[n], fo_printed)
  /\ \E m \in Nat : fo_printed = 1..m /\ fo_received \in {m, m + 1}
  /\ fo_ignored \subseteq fo_printed

UsedInv ==
  /\ fo_used \subseteq FoNodes /\ IsFiniteSet(fo_used)
  /\ \A n \in FoNodes : fo_used \subseteq {n} => OneNode(n)

\* What the programs and the node do with the only node n.
LEMMA OneNodeStep ==
  ASSUME NEW n \in FoNodes, OneNode(n), fo_used' \subseteq {n}, Urls!Next
  PROVE  OneNode(n)'
<1>1. /\ fo_sendNode \in {FoNone, n} /\ fo_recvNode \in {FoNone, n} /\ n /= FoNone
      /\ fo_sendNode = FoNone => fo_wire = <<>>
      /\ fo_confirmed \in Nat /\ fo_acks \in Nat
      /\ fo_store \in [FoNodes -> Seq(Nat)]
      /\ fo_unsettled \in Seq(Nat) /\ Elements(fo_unsettled) \subseteq fo_printed
      /\ FoTotal \in Nat /\ FoCredit \in Nat
  BY ProgramsAssumption DEF OneNode
<1>2. Carries(fo_wire, fo_confirmed + fo_acks, fo_sent)
  BY DEF OneNode
<1>3. /\ 1..(fo_confirmed + fo_acks) \subseteq fo_printed \union Elements(fo_store[n])
      /\ InOrder(fo_store[n], fo_printed) /\ fo_ignored \subseteq fo_printed
  BY DEF OneNode
<1>4. PICK m \in Nat : fo_printed = 1..m /\ fo_received \in {m, m + 1}
  BY DEF OneNode
<1>5. fo_store[n] \in Seq(Nat) /\ fo_confirmed + fo_acks \in Nat
  BY <1>1
<1>6. CASE \E p \in FoNodes : Urls!SendConnect(p) \/ Urls!RecvConnect(p)
  <2>1. PICK p \in FoNodes : Urls!SendConnect(p) \/ Urls!RecvConnect(p)
    BY <1>6
  <2>2. p = n
    BY <2>1 DEF Urls!SendConnect, Urls!RecvConnect
  <2>3. /\ fo_sendNode' \in {FoNone, n} /\ fo_recvNode' \in {FoNone, n}
        /\ fo_sendNode' = FoNone => fo_wire' = <<>>
        /\ UNCHANGED <<fo_sent, fo_confirmed, fo_received, fo_wire, fo_acks, fo_store,
                       fo_unsettled, fo_printed, fo_ignored>>
    BY <1>1, <2>1, <2>2 DEF Urls!SendConnect, Urls!RecvConnect, Urls!sender, Urls!receiver
  <2> QED BY <1>1, <1>2, <1>3, <1>4, <2>3 DEF OneNode
<1>7. CASE Urls!OnSendable
  <2>1. PICK c \in 1..FoCredit :
          /\ fo_wire' = fo_wire \o [k \in 1..Urls!Batch(c) |-> fo_sent + k]
          /\ fo_sent' = fo_sent + Urls!Batch(c)
    BY <1>7 DEF Urls!OnSendable
  <2>2. /\ fo_sendNode /= FoNone /\ fo_sent < FoTotal
        /\ UNCHANGED <<fo_confirmed, fo_received, fo_sendNode, fo_recvNode, fo_acks, fo_store,
                       fo_unsettled, fo_printed, fo_ignored>>
    BY <1>7 DEF Urls!OnSendable, Urls!receiver
  <2>3. PICK b \in Nat : b = Urls!Batch(c)
    <3>1. fo_sent \in Nat /\ c \in Nat
      BY <1>2, <1>1 DEF Carries
    <3>2. Urls!Batch(c) \in Nat
      BY <1>1, <2>2, <3>1 DEF Urls!Batch
    <3> QED BY <3>2
  <2>4. Carries(fo_wire', fo_confirmed + fo_acks, fo_sent')
    <3>1. /\ fo_wire' = fo_wire \o [k \in 1..b |-> fo_sent + k]
          /\ fo_sent' = fo_sent + b
      BY <2>1, <2>3
    <3> QED BY <1>2, <3>1, CarriesMore
  <2> QED BY <1>1, <1>3, <1>4, <2>2, <2>4 DEF OneNode
<1>8. CASE Urls!OnAccepted
  <2>1. /\ fo_acks > 0 /\ fo_acks' = fo_acks - 1 /\ fo_confirmed' = fo_confirmed + 1
        /\ UNCHANGED <<fo_sent, fo_received, fo_sendNode, fo_recvNode, fo_wire, fo_store,
                       fo_unsettled, fo_printed, fo_ignored>>
    BY <1>8 DEF Urls!OnAccepted, Urls!receiver
  <2>2. /\ fo_acks' \in Nat /\ fo_confirmed' \in Nat
        /\ fo_confirmed' + fo_acks' = fo_confirmed + fo_acks
    BY <1>1, <2>1
  <2> QED BY <1>1, <1>2, <1>3, <1>4, <2>1, <2>2 DEF OneNode
<1>9. CASE Urls!NodeAccepts
  <2>1. /\ fo_wire /= <<>> /\ fo_wire' = Tail(fo_wire) /\ fo_acks' = fo_acks + 1
        /\ fo_store' = [fo_store EXCEPT ![fo_sendNode] =
                          Append(fo_store[fo_sendNode], Head(fo_wire))]
        /\ UNCHANGED <<fo_sent, fo_confirmed, fo_received, fo_sendNode, fo_recvNode,
                       fo_unsettled, fo_printed, fo_ignored>>
    BY <1>9 DEF Urls!NodeAccepts, Urls!receiver
  <2>2. PICK lo \in Nat : lo = fo_confirmed + fo_acks
    BY <1>5
  <2>3. /\ Head(fo_wire) = lo + 1
        /\ Carries(Tail(fo_wire), lo + 1, fo_sent)
    BY <1>2, <2>1, <2>2, CarriesFirst
  <2>4. fo_sendNode = n
    BY <1>1, <2>1
  <2>5. PICK s \in Seq(Nat) : s = fo_store[n]
    BY <1>5
  <2>6. PICK t : t = Append(s, lo + 1)
    OBVIOUS
  <2>7. t \in Seq(Nat) /\ Elements(t) = Elements(s) \union {lo + 1}
    <3>1. lo + 1 \in Nat
      OBVIOUS
    <3> QED BY <2>6, <3>1, Added
  <2>8. fo_store' \in [FoNodes -> Seq(Nat)] /\ fo_store'[n] = t
    <3>1. fo_store' = [fo_store EXCEPT ![n] = t]
      BY <2>1, <2>3, <2>4, <2>5, <2>6
    <3> QED BY <1>1, <2>7, <3>1
  <2>9. 1..lo \subseteq fo_printed \union Elements(s) /\ InOrder(s, fo_printed)
    BY <1>3, <2>2, <2>5
  <2>10. InOrder(t, fo_printed)
    <3>1. PICK b : b = <<lo + 1>>
      OBVIOUS
    <3>2. b \in Seq(Nat) /\ \A k \in 1..Len(b) : b[k] = lo + k
      BY <3>1
    <3>3. t = s \o b
      <4>1. lo + 1 \in Nat
        OBVIOUS
      <4> QED BY <2>6, <3>1, <4>1, AppendIsConcat
    <3> QED BY <2>9, <3>2, <3>3, InOrderMore
  <2>11. 1..(lo + 1) \subseteq fo_printed \union Elements(t)
    <3>1. 1..(lo + 1) = (1..lo) \union {lo + 1}
      OBVIOUS
    <3> QED BY <2>7, <2>9, <3>1
  <2>12. fo_acks' \in Nat /\ fo_confirmed' + fo_acks' = lo + 1
    BY <1>1, <2>1, <2>2
  <2>13. /\ Carries(fo_wire', fo_confirmed' + fo_acks', fo_sent')
         /\ 1..(fo_confirmed' + fo_acks') \subseteq fo_printed' \union Elements(fo_store'[n])
         /\ InOrder(fo_store'[n], fo_printed')
    BY <2>1, <2>3, <2>8, <2>10, <2>11, <2>12
  <2>14. fo_sendNode' = FoNone => fo_wire' = <<>>
    BY <1>1, <2>1, <2>4
  <2> QED BY <1>1, <1>3, <1>4, <2>1, <2>8, <2>12, <2>13, <2>14 DEF OneNode
<1>10. CASE Urls!OnDisconnected
  <2>1. /\ fo_sendNode /= FoNone
        /\ fo_sent' = fo_confirmed /\ fo_sendNode' = FoNone /\ fo_wire' = <<>> /\ fo_acks' = 0
        /\ UNCHANGED <<fo_confirmed, fo_received, fo_recvNode, fo_unsettled, fo_printed,
                       fo_ignored>>
    BY <1>10 DEF Urls!OnDisconnected, Urls!receiver
  <2>2. fo_sendNode = n
    BY <1>1, <2>1
  <2>3. PICK k \in 0..Len(fo_wire) :
          fo_store' = [fo_store EXCEPT ![n] = fo_store[n] \o SubSeq(fo_wire, 1, k)]
    BY <1>10, <2>2 DEF Urls!OnDisconnected
  <2>4. PICK lo \in Nat : lo = fo_confirmed + fo_acks
    BY <1>5
  <2>5. PICK b : b = SubSeq(fo_wire, 1, k)
    OBVIOUS
  <2>6. b \in Seq(Nat) /\ \A i \in 1..Len(b) : b[i] = lo + i
    <3>1. /\ fo_wire \in Seq(Nat) /\ Len(fo_wire) \in Nat
          /\ \A i \in 1..Len(fo_wire) : fo_wire[i] = lo + i
      BY <1>2, <2>4 DEF Carries
    <3>2. /\ b \in Seq(Nat) /\ Len(b) = k
          /\ \A i \in 1..k : b[i] = fo_wire[i]
      BY <2>5, <3>1
    <3> QED BY <3>1, <3>2
  <2>7. PICK s \in Seq(Nat) : s = fo_store[n]
    BY <1>5
  <2>8. PICK t : t = s \o b
    OBVIOUS
  <2>9. t \in Seq(Nat) /\ Elements(s) \subseteq Elements(t)
    BY <2>6, <2>8, Joined
  <2>10. fo_store' \in [FoNodes -> Seq(Nat)] /\ fo_store'[n] = t
    <3>1. fo_store' = [fo_store EXCEPT ![n] = t]
      BY <2>3, <2>5, <2>7, <2>8
    <3> QED BY <1>1, <2>9, <3>1
  <2>11. 1..lo \subseteq fo_printed \union Elements(s) /\ InOrder(s, fo_printed)
    BY <1>3, <2>4, <2>7
  <2>12. InOrder(t, fo_printed)
    BY <2>6, <2>8, <2>11, InOrderMore
  <2>13. /\ 1..fo_confirmed \subseteq fo_printed \union Elements(t)
         /\ fo_confirmed' + fo_acks' = fo_confirmed
    <3>1. 1..fo_confirmed \subseteq 1..lo
      BY <1>1, <2>4
    <3>2. 1..fo_confirmed \subseteq fo_printed \union Elements(t)
      BY <2>9, <2>11, <3>1
    <3>3. fo_confirmed' + fo_acks' = fo_confirmed
      BY <1>1, <2>1
    <3> QED BY <3>2, <3>3
  <2>14. Carries(fo_wire', fo_confirmed' + fo_acks', fo_sent')
    BY <1>1, <2>1, <2>13, CarriesNothing
  <2>15. /\ 1..(fo_confirmed' + fo_acks') \subseteq fo_printed' \union Elements(fo_store'[n])
         /\ InOrder(fo_store'[n], fo_printed')
    BY <2>1, <2>10, <2>12, <2>13
  <2> QED BY <1>1, <1>3, <1>4, <2>1, <2>10, <2>14, <2>15 DEF OneNode
<1>11. CASE Urls!OnMessage
  <2>1. PICK s \in Seq(Nat) : s = fo_store[n]
    BY <1>5
  <2>2. /\ fo_recvNode = n /\ s /= <<>>
        /\ fo_store' = [fo_store EXCEPT ![n] = Tail(s)]
        /\ UNCHANGED <<fo_sent, fo_confirmed, fo_sendNode, fo_wire, fo_acks>>
    BY <1>1, <1>11, <2>1 DEF Urls!OnMessage, Urls!sender
  <2>3. PICK id : id = Head(s)
    OBVIOUS
  <2>4. /\ id \in Nat /\ Tail(s) \in Seq(Nat)
        /\ Elements(s) = {id} \union Elements(Tail(s))
    BY <2>2, <2>3, HeadTaken
  <2>5. /\ id > 0 /\ 1..(id - 1) \subseteq 1..m
        /\ \A Q : 1..m \union {id} \subseteq Q => InOrder(Tail(s), Q)
    <3>1. InOrder(s, 1..m)
      BY <1>3, <1>4, <2>1
    <3> QED BY <2>2, <2>3, <3>1, InOrderTaken
  <2>6. id <= m + 1
    <3>1. CASE id = 1
      BY <3>1
    <3>2. CASE id > 1
      <4>1. id - 1 \in 1..(id - 1)
        BY <2>4, <3>2
      <4>2. id - 1 \in 1..m
        BY <2>5, <4>1
      <4> QED BY <2>4, <4>2
    <3> QED BY <2>4, <2>5, <3>1, <3>2
  <2>7. /\ fo_recvNode' \in {FoNone, n} /\ fo_unsettled' \in {<<>>, Append(fo_unsettled, id)}
        /\ \/ /\ id < fo_received /\ fo_printed' = fo_printed /\ fo_received' = fo_received
              /\ fo_ignored' = fo_ignored \union {id}
           \/ /\ ~(id < fo_received) /\ fo_printed' = fo_printed \union {id}
              /\ fo_received' = fo_received + 1 /\ fo_ignored' = fo_ignored
    <3>1. id = Head(fo_store[fo_recvNode])
      BY <2>1, <2>2, <2>3
    <3>2. CASE id < fo_received
      BY <1>1, <1>11, <3>1, <3>2 DEF Urls!OnMessage, Urls!IsDuplicate
    <3>3. CASE ~(id < fo_received)
      <4>1. /\ fo_printed' = fo_printed \union {id} /\ fo_received' = fo_received + 1
            /\ fo_ignored' = fo_ignored
        BY <1>11, <3>1, <3>3 DEF Urls!OnMessage, Urls!IsDuplicate
      <4>2. /\ fo_recvNode' = IF Urls!RecvDone' THEN FoNone ELSE fo_recvNode
            /\ fo_unsettled' = IF Urls!RecvDone' THEN <<>> ELSE Append(fo_unsettled, id)
        BY <1>11, <3>1, <3>3 DEF Urls!OnMessage, Urls!IsDuplicate
      <4>3. fo_recvNode' \in {FoNone, n} /\ fo_unsettled' \in {<<>>, Append(fo_unsettled, id)}
        BY <1>1, <4>2
      <4> QED BY <3>3, <4>1, <4>3
    <3> QED BY <3>2, <3>3
  <2>8. PICK p \in Nat : /\ fo_printed' = 1..p /\ fo_received' \in {p, p + 1}
                         /\ m <= p /\ id <= p
                         /\ fo_ignored' \subseteq 1..p
    <3>1. CASE id <= m
      <4>1. fo_printed' = 1..m
        <5>1. id \in 1..m
          BY <2>4, <2>5, <3>1
        <5> QED BY <1>4, <2>7, <5>1
      <4>2. fo_received' \in {m, m + 1}
        BY <1>4, <2>4, <2>7, <3>1
      <4>3. fo_ignored' \subseteq 1..m
        <5>1. id \in 1..m
          BY <2>4, <2>5, <3>1
        <5> QED BY <1>3, <1>4, <2>7, <5>1
      <4> QED BY <3>1, <4>1, <4>2, <4>3
    <3>2. CASE id = m + 1
      <4>1. /\ ~(id < fo_received) /\ fo_printed' = fo_printed \union {id}
            /\ fo_received' = fo_received + 1 /\ fo_ignored' = fo_ignored
        BY <1>4, <2>7, <3>2
      <4>2. fo_printed' = 1..(m + 1)
        BY <1>4, <3>2, <4>1
      <4>3. fo_received' \in {m + 1, (m + 1) + 1}
        BY <1>4, <4>1
      <4>4. fo_ignored' \subseteq 1..(m + 1)
        BY <1>3, <1>4, <4>1
      <4>5. m + 1 \in Nat /\ m <= m + 1 /\ id <= m + 1
        BY <3>2
      <4> QED BY <4>2, <4>3, <4>4, <4>5
    <3> QED BY <2>4, <2>6, <3>1, <3>2
  <2>9. 1..m \union {id} \subseteq 1..p
    BY <2>4, <2>5, <2>8
  <2>10. InOrder(Tail(s), fo_printed')
    BY <2>5, <2>8, <2>9
  <2>11. fo_store' \in [FoNodes -> Seq(Nat)] /\ fo_store'[n] = Tail(s)
    <3>1. PICK t \in Seq(Nat) : t = Tail(s)
      BY <2>4
    <3>2. fo_store' = [fo_store EXCEPT ![n] = t]
      BY <2>2, <3>1
    <3> QED BY <1>1, <3>1, <3>2
  <2>12. fo_unsettled' \in Seq(Nat) /\ Elements(fo_unsettled') \subseteq fo_printed'
    <3>1. CASE fo_unsettled' = <<>>
      BY <3>1, EmptyHasNone
    <3>2. CASE fo_unsettled' = Append(fo_unsettled, id)
      <4>1. /\ fo_unsettled' \in Seq(Nat)
            /\ Elements(fo_unsettled') = Elements(fo_unsettled) \union {id}
        <5>1. PICK u \in Seq(Nat) : u = fo_unsettled
          BY <1>1
        <5>2. Append(u, id) \in Seq(Nat) /\ Elements(Append(u, id)) = Elements(u) \union {id}
          BY <2>4, <5>1, Added
        <5> QED BY <3>2, <5>1, <5>2
      <4>2. Elements(fo_unsettled) \subseteq 1..p /\ id \in 1..p
        BY <1>1, <1>4, <2>4, <2>5, <2>8
      <4> QED BY <2>8, <4>1, <4>2
    <3> QED BY <2>7, <3>1, <3>2
  <2>13. 1..(fo_confirmed' + fo_acks') \subseteq fo_printed' \union Elements(fo_store'[n])
    <3>1. 1..(fo_confirmed + fo_acks) \subseteq 1..m \union ({id} \union Elements(Tail(s)))
      BY <1>3, <1>4, <2>1, <2>4
    <3> QED BY <2>2, <2>8, <2>9, <2>11, <3>1
  <2>14. /\ fo_sendNode' \in {FoNone, n}
         /\ fo_sendNode' = FoNone => fo_wire' = <<>>
         /\ fo_confirmed' \in Nat /\ fo_acks' \in Nat
         /\ Carries(fo_wire', fo_confirmed' + fo_acks', fo_sent')
    BY <1>1, <1>2, <2>2
  <2>15. InOrder(fo_store'[n], fo_printed')
    BY <2>10, <2>11
  <2> QED BY <2>7, <2>8, <2>11, <2>12, <2>13, <2>14, <2>15 DEF OneNode
<1>12. CASE Urls!NodeHears
  <2>1. /\ fo_unsettled /= <<>> /\ fo_unsettled' = Tail(fo_unsettled)
        /\ UNCHANGED <<fo_sent, fo_confirmed, fo_received, fo_sendNode, fo_recvNode, fo_wire,
                       fo_acks, fo_store, fo_printed, fo_ignored>>
    BY <1>12 DEF Urls!NodeHears, Urls!sender
  <2>2. fo_unsettled' \in Seq(Nat) /\ Elements(fo_unsettled') \subseteq fo_printed
    BY <1>1, <2>1, HeadTaken
  <2> QED BY <1>1, <1>2, <1>3, <1>4, <2>1, <2>2 DEF OneNode
<1>13. CASE Urls!RecvBreaks
  <2>1. PICK s \in Seq(Nat) : s = fo_store[n]
    BY <1>5
  <2>2. PICK t : t = fo_unsettled \o s
    OBVIOUS
  <2>3. /\ fo_store' = [fo_store EXCEPT ![n] = t]
        /\ fo_recvNode' = FoNone /\ fo_unsettled' = <<>>
        /\ UNCHANGED <<fo_sent, fo_confirmed, fo_received, fo_sendNode, fo_wire, fo_acks,
                       fo_printed, fo_ignored>>
    <3>1. fo_recvNode = n
      BY <1>1, <1>13 DEF Urls!RecvBreaks
    <3> QED BY <1>13, <2>1, <2>2, <3>1 DEF Urls!RecvBreaks, Urls!sender
  <2>4. t \in Seq(Nat) /\ Elements(s) \subseteq Elements(t)
    BY <1>1, <2>2, Joined
  <2>5. InOrder(t, fo_printed)
    <3>1. InOrder(s, 1..m) /\ Elements(fo_unsettled) \subseteq 1..m
      BY <1>1, <1>3, <1>4, <2>1
    <3> QED BY <1>1, <1>4, <2>2, <3>1, InOrderAgain
  <2>6. fo_store' \in [FoNodes -> Seq(Nat)] /\ fo_store'[n] = t
    BY <1>1, <2>3, <2>4
  <2>7. /\ 1..(fo_confirmed' + fo_acks') \subseteq fo_printed' \union Elements(fo_store'[n])
        /\ InOrder(fo_store'[n], fo_printed')
    BY <1>3, <2>1, <2>3, <2>4, <2>5, <2>6
  <2>8. fo_unsettled' \in Seq(Nat) /\ Elements(fo_unsettled') \subseteq fo_printed'
    BY <2>3, EmptyHasNone
  <2> QED BY <1>1, <1>2, <1>3, <1>4, <2>3, <2>6, <2>7, <2>8 DEF OneNode
<1> QED BY <1>6, <1>7, <1>8, <1>9, <1>10, <1>11, <1>12, <1>13 DEF Urls!Next

LEMMA UsedStep ==
  ASSUME UsedInv, [Urls!Next]_Urls!vars
  PROVE  UsedInv'
<1>1. CASE Urls!Next
  <2>1. fo_used' = fo_used \/ \E p \in FoNodes : fo_used' = fo_used \union {p}
    BY <1>1 DEF Urls!Next, Urls!SendConnect, Urls!RecvConnect, Urls!OnSendable, Urls!OnAccepted,
      Urls!NodeAccepts, Urls!OnDisconnected, Urls!OnMessage, Urls!NodeHears, Urls!RecvBreaks
  <2>2. fo_used' \subseteq FoNodes /\ IsFiniteSet(fo_used') /\ fo_used \subseteq fo_used'
    BY <2>1, FS_AddElement DEF UsedInv
  <2>3. ASSUME NEW n \in FoNodes, fo_used' \subseteq {n} PROVE OneNode(n)'
    <3>1. OneNode(n)
      BY <2>2, <2>3 DEF UsedInv
    <3> QED BY <1>1, <2>3, <3>1, OneNodeStep
  <2> QED BY <2>2, <2>3 DEF UsedInv
<1>2. CASE UNCHANGED Urls!vars
  <2>1. UNCHANGED <<fo_sent, fo_confirmed, fo_received, fo_sendNode, fo_recvNode, fo_wire,
                    fo_acks, fo_store, fo_unsettled, fo_printed, fo_ignored, fo_used>>
    BY <1>2 DEF Urls!vars, Urls!sender, Urls!receiver
  <2> QED BY <2>1 DEF UsedInv, OneNode
<1> QED BY <1>1, <1>2

\* On one node only duplicates are ignored, whatever the length of the sequence, the
\* credit and however often the two connections break, although the receiver's
\* count is one ahead of what it has printed once a message came twice.
THEOREM OneNodeIgnoresDuplicatesHolds == Spec => []OneNodeIgnoresDuplicates
<1>1. Init => UsedInv
  <2> SUFFICES ASSUME Urls!Init PROVE UsedInv
    BY DEF Init
  <2>1. /\ fo_sent = 0 /\ fo_confirmed = 0 /\ fo_received = 0 /\ fo_acks = 0
        /\ fo_sendNode = FoNone /\ fo_recvNode = FoNone
        /\ fo_wire = <<>> /\ fo_unsettled = <<>>
        /\ fo_printed = {} /\ fo_ignored = {} /\ fo_used = {}
        /\ fo_store = [n \in FoNodes |-> <<>>]
    BY DEF Urls!Init
  <2>2. fo_store \in [FoNodes -> Seq(Nat)] /\ \A n \in FoNodes : fo_store[n] = <<>>
    BY <2>1, EmptyHasNone
  <2>3. Carries(fo_wire, fo_confirmed + fo_acks, fo_sent)
    BY <2>1, CarriesNothing
  <2>4. fo_printed = 1..0 /\ fo_received \in {0, 0 + 1}
    BY <2>1
  <2>5. ASSUME NEW n \in FoNodes PROVE OneNode(n)
    <3>1. InOrder(fo_store[n], fo_printed)
      BY <2>2, EmptyHasNone DEF InOrder
    <3> QED BY <2>1, <2>2, <2>3, <2>4, <3>1, EmptyHasNone DEF OneNode
  <2> QED BY <2>1, <2>5, FS_EmptySet DEF UsedInv
<1>2. UsedInv /\ [Next]_vars => UsedInv'
  BY Runs, UsedStep
<1>3. UsedInv => OneNodeIgnoresDuplicates
  <2> SUFFICES ASSUME UsedInv, Urls!Cardinality(fo_used) = 1
               PROVE  fo_ignored \subseteq fo_printed
    BY DEF OneNodeIgnoresDuplicates, Urls!OneNodeIgnoresDuplicates
  <2>1. Urls!Cardinality(fo_used) = Cardinality(fo_used)
    BY Zenon DEF Urls!Cardinality, Cardinality
  <2>2. PICK n : fo_used = {n}
    BY <2>1, FS_Singleton DEF UsedInv
  <2> QED BY <2>2 DEF UsedInv, OneNode
<1> QED BY <1>1, <1>2, <1>3, PTL DEF Spec

-----------------------------------------------------------------------------
(* How often something is in a sequence. *)

PlacesOf(x, s) == {k \in DOMAIN s : s[k] = x}

Count(x, s) == Cardinality(PlacesOf(x, s))

LEMMA CountType ==
  ASSUME NEW S, NEW s \in Seq(S), NEW x
  PROVE  /\ IsFiniteSet(PlacesOf(x, s)) /\ Count(x, s) \in Nat
         /\ Count(x, s) = 0 <=> \A k \in DOMAIN s : s[k] /= x
<1>1. Len(s) \in Nat /\ PlacesOf(x, s) \subseteq 1..Len(s)
  BY DEF PlacesOf
<1>2. IsFiniteSet(1..Len(s))
  BY <1>1, FS_Interval
<1>3. IsFiniteSet(PlacesOf(x, s))
  BY <1>1, <1>2, FS_Subset
<1>4. Count(x, s) \in Nat
  BY <1>3, FS_CardinalityType DEF Count
<1>5. Count(x, s) = 0 <=> PlacesOf(x, s) = {}
  BY <1>3, FS_EmptySet DEF Count
<1>6. PlacesOf(x, s) = {} <=> \A k \in DOMAIN s : s[k] /= x
  BY DEF PlacesOf
<1> QED BY <1>3, <1>4, <1>5, <1>6

LEMMA CountJoined ==
  ASSUME NEW S, NEW s \in Seq(S), NEW t \in Seq(S), NEW x
  PROVE  Count(x, s \o t) = Count(x, s) + Count(x, t)
<1> DEFINE A == PlacesOf(x, s)
           B == PlacesOf(x, t)
<1>1. PICK r : r = s \o t
  OBVIOUS
<1>2. PICK n \in Nat, m \in Nat : n = Len(s) /\ m = Len(t)
  OBVIOUS
<1>3. /\ r \in Seq(S) /\ Len(r) = n + m
      /\ \A k \in 1..n : r[k] = s[k]
      /\ \A k \in 1..m : r[n + k] = t[k]
  BY <1>1, <1>2, Joined
<1>4. DOMAIN s = 1..n /\ DOMAIN t = 1..m /\ DOMAIN r = 1..(n + m)
  BY <1>2, <1>3
<1> DEFINE T == {k \in (n + 1)..(n + m) : r[k] = x}
           f == [k \in B |-> n + k]
<1>5. PlacesOf(x, r) = A \union T
  BY <1>3, <1>4 DEF PlacesOf
<1>6. A \intersect T = {}
  BY <1>4 DEF PlacesOf
<1>7. f \in Bijection(B, T)
  <2>1. \A k \in B : k \in 1..m /\ t[k] = x
    BY <1>4 DEF PlacesOf
  <2>2. \A k \in B : n + k \in T
    BY <1>3, <2>1
  <2>3. \A j, k \in B : n + j = n + k => j = k
    BY <2>1
  <2>4. ASSUME NEW j \in T PROVE \E k \in B : n + k = j
    <3>1. j - n \in 1..m /\ n + (j - n) = j /\ r[j] = x
      OBVIOUS
    <3>2. t[j - n] = x
      BY <1>3, <3>1
    <3>3. j - n \in B
      BY <1>4, <3>1, <3>2 DEF PlacesOf
    <3> QED BY <3>1, <3>3
  <2> HIDE DEF B, T
  <2> QED BY <2>2, <2>3, <2>4 DEF Bijection, Injection, Surjection, IsInjective
<1>8. IsFiniteSet(A) /\ IsFiniteSet(B)
  BY CountType
<1> HIDE DEF A, B, T, f
<1>9. IsFiniteSet(T) /\ Cardinality(T) = Cardinality(B)
  BY <1>7, <1>8, FS_Bijection DEF ExistsBijection
<1>10. Cardinality(A \union T) = Cardinality(A) + Cardinality(T) - Cardinality(A \intersect T)
  BY <1>8, <1>9, FS_Union
<1>11. Cardinality(A \intersect T) = 0 /\ Cardinality(A) \in Nat /\ Cardinality(T) \in Nat
  BY <1>6, <1>8, <1>9, FS_EmptySet, FS_CardinalityType
<1>12. Cardinality(A \union T) = Cardinality(A) + Cardinality(B)
  BY <1>9, <1>10, <1>11
<1> QED BY <1>1, <1>5, <1>12 DEF Count, A, B

LEMMA CountNone ==
  ASSUME NEW x
  PROVE  Count(x, <<>>) = 0
<1>1. PlacesOf(x, <<>>) = {}
  BY DEF PlacesOf
<1> QED BY <1>1, FS_EmptySet DEF Count

LEMMA CountOne ==
  ASSUME NEW e, NEW x
  PROVE  Count(x, <<e>>) = IF x = e THEN 1 ELSE 0
<1>1. PlacesOf(x, <<e>>) = IF x = e THEN {1} ELSE {}
  BY DEF PlacesOf
<1> QED BY <1>1, FS_Singleton, FS_EmptySet DEF Count

LEMMA CountAdded ==
  ASSUME NEW S, NEW s \in Seq(S), NEW e \in S, NEW x
  PROVE  Count(x, Append(s, e)) = Count(x, s) + (IF x = e THEN 1 ELSE 0)
<1>1. <<e>> \in Seq(S)
  OBVIOUS
<1>2. Append(s, e) = s \o <<e>>
  BY AppendIsConcat
<1>3. Count(x, s \o <<e>>) = Count(x, s) + Count(x, <<e>>)
  BY <1>1, CountJoined
<1> QED BY <1>2, <1>3, CountOne

LEMMA CountTaken ==
  ASSUME NEW S, NEW s \in Seq(S), s /= <<>>, NEW x
  PROVE  Count(x, s) = Count(x, Tail(s)) + (IF x = Head(s) THEN 1 ELSE 0)
<1>1. PICK e, t : e = Head(s) /\ t = Tail(s)
  OBVIOUS
<1>2. e \in S /\ t \in Seq(S)
  BY <1>1, HeadTaken
<1>3. s = <<e>> \o t
  BY <1>1
<1>4. <<e>> \in Seq(S)
  BY <1>2
<1>5. Count(x, s) = Count(x, <<e>>) + Count(x, t)
  BY <1>2, <1>3, <1>4, CountJoined
<1>6. Count(x, t) \in Nat
  BY <1>2, CountType
<1> QED BY <1>1, <1>5, <1>6, CountOne

-----------------------------------------------------------------------------
(* server_tx.py answers each request once. *)

FrameTypes == {"declare", "send", "accept", "discharge", "declared", "committed", "failed"}

TxFrames == [type : FrameTypes, request : TxServ!AllRequests]

LEMMA FramesAre ==
  /\ \A t \in FrameTypes, r \in TxServ!AllRequests :
       /\ TxServ!Frame(t, r) \in TxFrames
       /\ TxServ!Frame(t, r).type = t /\ TxServ!Frame(t, r).request = r
  /\ \A f \in TxFrames : /\ f = TxServ!Frame(f.type, f.request)
                         /\ f.type \in FrameTypes /\ f.request \in TxServ!AllRequests
BY DEF TxFrames, TxServ!Frame

\* A frame of type u for request q is the first.
LEMMA FrameTaken ==
  ASSUME NEW s \in Seq(TxFrames), s /= <<>>, NEW u \in FrameTypes, Head(s).type = u
  PROVE  \E q \in TxServ!AllRequests :
           /\ Head(s).request = q /\ Head(s) = TxServ!Frame(u, q) /\ Tail(s) \in Seq(TxFrames)
           /\ \A t \in FrameTypes, r \in TxServ!AllRequests :
                Count(TxServ!Frame(t, r), s)
                  = Count(TxServ!Frame(t, r), Tail(s)) + (IF t = u /\ r = q THEN 1 ELSE 0)
<1>1. Head(s) \in TxFrames /\ Tail(s) \in Seq(TxFrames)
  BY HeadTaken
<1>2. PICK q \in TxServ!AllRequests : Head(s).request = q /\ Head(s) = TxServ!Frame(u, q)
  BY <1>1, FramesAre
<1>3. ASSUME NEW t \in FrameTypes, NEW r \in TxServ!AllRequests
      PROVE  Count(TxServ!Frame(t, r), s)
               = Count(TxServ!Frame(t, r), Tail(s)) + (IF t = u /\ r = q THEN 1 ELSE 0)
  <2>1. TxServ!Frame(t, r) = Head(s) <=> t = u /\ r = q
    BY <1>2, FramesAre
  <2>2. Count(TxServ!Frame(t, r), s)
          = Count(TxServ!Frame(t, r), Tail(s)) + (IF TxServ!Frame(t, r) = Head(s) THEN 1 ELSE 0)
    BY CountTaken
  <2> QED BY <2>1, <2>2
<1> QED BY <1>1, <1>2, <1>3

\* A frame more at the end.
LEMMA FrameAdded ==
  ASSUME NEW s \in Seq(TxFrames), NEW u \in FrameTypes, NEW q \in TxServ!AllRequests
  PROVE  /\ Append(s, TxServ!Frame(u, q)) \in Seq(TxFrames)
         /\ \A t \in FrameTypes, r \in TxServ!AllRequests :
              Count(TxServ!Frame(t, r), Append(s, TxServ!Frame(u, q)))
                = Count(TxServ!Frame(t, r), s) + (IF t = u /\ r = q THEN 1 ELSE 0)
<1>1. PICK f \in TxFrames : f = TxServ!Frame(u, q)
  BY FramesAre
<1>2. Append(s, f) \in Seq(TxFrames)
  BY Added
<1>3. ASSUME NEW t \in FrameTypes, NEW r \in TxServ!AllRequests
      PROVE  Count(TxServ!Frame(t, r), Append(s, f))
               = Count(TxServ!Frame(t, r), s) + (IF t = u /\ r = q THEN 1 ELSE 0)
  <2>1. TxServ!Frame(t, r) = f <=> t = u /\ r = q
    BY <1>1, FramesAre
  <2>2. Count(TxServ!Frame(t, r), Append(s, f))
          = Count(TxServ!Frame(t, r), s) + (IF TxServ!Frame(t, r) = f THEN 1 ELSE 0)
    BY CountAdded
  <2> QED BY <2>1, <2>2
<1> QED BY <1>1, <1>2, <1>3

\* The frames of a transaction, with the answer and without it.
TxRequestFrames(q) ==
  <<TxServ!Frame("send", q), TxServ!Frame("accept", q), TxServ!Frame("discharge", q)>>

WithheldFrames(q) == <<TxServ!Frame("accept", q), TxServ!Frame("discharge", q)>>

LEMMA EndsAdded ==
  ASSUME NEW s \in Seq(TxFrames), NEW q \in TxServ!AllRequests
  PROVE  /\ s \o WithheldFrames(q) \in Seq(TxFrames)
         /\ \A r \in TxServ!AllRequests :
              /\ Count(TxServ!Frame("declare", r), s \o WithheldFrames(q))
                   = Count(TxServ!Frame("declare", r), s)
              /\ Count(TxServ!Frame("discharge", r), s \o WithheldFrames(q))
                   = Count(TxServ!Frame("discharge", r), s) + (IF r = q THEN 1 ELSE 0)
<1>1. PICK b \in TxFrames, d \in TxFrames :
        b = TxServ!Frame("accept", q) /\ d = TxServ!Frame("discharge", q)
  BY FramesAre DEF FrameTypes
<1>2. PICK s1 : s1 = Append(s, b)
  OBVIOUS
<1>3. PICK s2 : s2 = Append(s1, d)
  OBVIOUS
<1>4. /\ s1 \in Seq(TxFrames)
      /\ \A t \in FrameTypes, r \in TxServ!AllRequests :
           Count(TxServ!Frame(t, r), s1)
             = Count(TxServ!Frame(t, r), s) + (IF t = "accept" /\ r = q THEN 1 ELSE 0)
  BY <1>1, <1>2, FrameAdded DEF FrameTypes
<1>5. /\ s2 \in Seq(TxFrames)
      /\ \A t \in FrameTypes, r \in TxServ!AllRequests :
           Count(TxServ!Frame(t, r), s2)
             = Count(TxServ!Frame(t, r), s1) + (IF t = "discharge" /\ r = q THEN 1 ELSE 0)
  BY <1>1, <1>3, <1>4, FrameAdded DEF FrameTypes
<1>6. s2 = s \o <<b, d>>
  BY <1>2, <1>3
<1>7. ASSUME NEW r \in TxServ!AllRequests
      PROVE  /\ Count(TxServ!Frame("declare", r), s2) = Count(TxServ!Frame("declare", r), s)
             /\ Count(TxServ!Frame("discharge", r), s2)
                  = Count(TxServ!Frame("discharge", r), s) + (IF r = q THEN 1 ELSE 0)
  <2>1. "declare" \in FrameTypes /\ "discharge" \in FrameTypes
    BY DEF FrameTypes
  <2>2. PICK m \in Nat, n \in Nat : m = Count(TxServ!Frame("declare", r), s)
                                    /\ n = Count(TxServ!Frame("discharge", r), s)
    BY <2>1, CountType
  <2>3. /\ Count(TxServ!Frame("declare", r), s1) = m
        /\ Count(TxServ!Frame("discharge", r), s1) = n
    BY <1>4, <2>1, <2>2
  <2> QED BY <1>5, <2>1, <2>2, <2>3
<1> QED BY <1>1, <1>5, <1>6, <1>7 DEF WithheldFrames

LEMMA FramesAdded ==
  ASSUME NEW s \in Seq(TxFrames), NEW q \in TxServ!AllRequests
  PROVE  /\ s \o TxRequestFrames(q) \in Seq(TxFrames)
         /\ \A r \in TxServ!AllRequests :
              /\ Count(TxServ!Frame("declare", r), s \o TxRequestFrames(q))
                   = Count(TxServ!Frame("declare", r), s)
              /\ Count(TxServ!Frame("discharge", r), s \o TxRequestFrames(q))
                   = Count(TxServ!Frame("discharge", r), s) + (IF r = q THEN 1 ELSE 0)
<1>1. PICK a \in TxFrames : a = TxServ!Frame("send", q)
  BY FramesAre DEF FrameTypes
<1>2. PICK s1 : s1 = Append(s, a)
  OBVIOUS
<1>3. /\ s1 \in Seq(TxFrames)
      /\ \A t \in FrameTypes, r \in TxServ!AllRequests :
           Count(TxServ!Frame(t, r), s1)
             = Count(TxServ!Frame(t, r), s) + (IF t = "send" /\ r = q THEN 1 ELSE 0)
  BY <1>1, <1>2, FrameAdded DEF FrameTypes
<1>4. s1 \o WithheldFrames(q) = s \o TxRequestFrames(q)
  <2>1. PICK b \in TxFrames, d \in TxFrames :
          b = TxServ!Frame("accept", q) /\ d = TxServ!Frame("discharge", q)
    BY FramesAre DEF FrameTypes
  <2>2. Append(s, a) \o <<b, d>> = s \o <<a, b, d>>
    BY <1>1, <2>1
  <2> QED BY <1>1, <1>2, <2>1, <2>2 DEF WithheldFrames, TxRequestFrames
<1>5. ASSUME NEW r \in TxServ!AllRequests
      PROVE  /\ Count(TxServ!Frame("declare", r), s1) = Count(TxServ!Frame("declare", r), s)
             /\ Count(TxServ!Frame("discharge", r), s1) = Count(TxServ!Frame("discharge", r), s)
  <2>1. "declare" \in FrameTypes /\ "discharge" \in FrameTypes
    BY DEF FrameTypes
  <2>2. PICK m \in Nat, n \in Nat : m = Count(TxServ!Frame("declare", r), s)
                                    /\ n = Count(TxServ!Frame("discharge", r), s)
    BY <2>1, CountType
  <2> QED BY <1>3, <2>1, <2>2
<1>6. PICK w : w = s1 \o WithheldFrames(q)
  OBVIOUS
<1>7. /\ w \in Seq(TxFrames)
      /\ \A r \in TxServ!AllRequests :
           /\ Count(TxServ!Frame("declare", r), w) = Count(TxServ!Frame("declare", r), s1)
           /\ Count(TxServ!Frame("discharge", r), w)
                = Count(TxServ!Frame("discharge", r), s1) + (IF r = q THEN 1 ELSE 0)
  BY <1>3, <1>6, EndsAdded
<1>8. w = s \o TxRequestFrames(q)
  BY <1>4, <1>6
<1>9. \A r \in TxServ!AllRequests :
        /\ Count(TxServ!Frame("declare", r), w) = Count(TxServ!Frame("declare", r), s)
        /\ Count(TxServ!Frame("discharge", r), w)
             = Count(TxServ!Frame("discharge", r), s) + (IF r = q THEN 1 ELSE 0)
  BY <1>5, <1>7
<1> QED BY <1>7, <1>8, <1>9, Zenon

TxTypeInv ==
  /\ tx_call \in [TxClients -> Nat \ {0}]
  /\ tx_calling \subseteq TxClients /\ tx_calling \intersect tx_gaveUp = {}
  /\ tx_queue \in Seq(TxServ!AllRequests) /\ tx_inbox \in Seq(TxServ!AllRequests)
  /\ tx_wire \in Seq(TxFrames) /\ tx_replies \in Seq(TxFrames)
  /\ tx_open \subseteq TxServ!AllRequests /\ IsFiniteSet(tx_open)
  /\ tx_answers \in [TxServ!AllRequests -> Nat]
  /\ tx_unanswered \subseteq tx_withheld

\* A request that was asked is at one place of its way to the answer.
EachOnce ==
  \A r \in TxServ!AllRequests :
    TxServ!Taken(r) + Count(r, tx_queue) + Count(r, tx_inbox)
      + Count(TxServ!Frame("declare", r), tx_wire) + (IF r \in tx_open THEN 1 ELSE 0)
      + Count(TxServ!Frame("failed", r), tx_replies) = IF TxServ!Asked(r) THEN 1 ELSE 0

\* An open transaction is at one place of its way to its end.
InProgress ==
  \A r \in TxServ!AllRequests :
    Count(TxServ!Frame("declared", r), tx_replies) + Count(TxServ!Frame("discharge", r), tx_wire)
      = IF r \in tx_open THEN 1 ELSE 0

\* An answer that found credit is sent before the transaction is discharged.
SendsFirst ==
  \A r \in TxServ!AllRequests : \A k \in DOMAIN tx_wire :
    tx_wire[k] = TxServ!Frame("discharge", r) /\ r \notin tx_withheld =>
      \/ TxServ!Frame("send", r) \in tx_staged
      \/ \E j \in 1..(k - 1) : tx_wire[j] = TxServ!Frame("send", r)

TxInv == TxTypeInv /\ EachOnce /\ InProgress /\ SendsFirst

LEMMA TxStart == Init => TxInv
<1> SUFFICES ASSUME Init PROVE TxInv
  OBVIOUS
<1>1. TxServ!Init
  BY Zenon DEF Init
<1>2. TxTypeInv
  BY <1>1, FS_EmptySet DEF TxServ!Init, TxTypeInv
<1>3. SendsFirst
  BY <1>1 DEF TxServ!Init, SendsFirst
<1>4. \A x : Count(x, <<>>) = 0
  BY CountNone
<1>5. InProgress
  BY <1>1, <1>4 DEF TxServ!Init, InProgress
<1>6. \A r \in TxServ!AllRequests : ~TxServ!Asked(r)
  BY <1>1, ProgramsAssumption DEF TxServ!Init, TxServ!Asked, TxServ!AllRequests
<1>7. EachOnce
  BY <1>1, <1>4, <1>6 DEF TxServ!Init, EachOnce, TxServ!Taken
<1> QED BY <1>2, <1>3, <1>5, <1>7 DEF TxInv

\* What is counted is a number.
LEMMA TxCounts ==
  ASSUME TxTypeInv, NEW r \in TxServ!AllRequests
  PROVE  /\ TxServ!Taken(r) \in Nat
         /\ Count(r, tx_queue) \in Nat /\ Count(r, tx_inbox) \in Nat
         /\ \A t \in FrameTypes : /\ Count(TxServ!Frame(t, r), tx_wire) \in Nat
                                  /\ Count(TxServ!Frame(t, r), tx_replies) \in Nat
<1>1. TxServ!Taken(r) \in Nat
  <2>1. tx_answers[r] \in Nat
    BY DEF TxTypeInv
  <2> QED BY <2>1 DEF TxServ!Taken
<1>2. Count(r, tx_queue) \in Nat /\ Count(r, tx_inbox) \in Nat
  BY CountType DEF TxTypeInv
<1>3. \A t \in FrameTypes : /\ Count(TxServ!Frame(t, r), tx_wire) \in Nat
                            /\ Count(TxServ!Frame(t, r), tx_replies) \in Nat
  BY CountType DEF TxTypeInv
<1> QED BY <1>1, <1>2, <1>3

\* The counts of a request, and what the invariant says of them.
TxSums(r, a, b, i, d, e, f, g) ==
  /\ a = TxServ!Taken(r) /\ b = Count(r, tx_queue) /\ i = Count(r, tx_inbox)
  /\ d = Count(TxServ!Frame("declare", r), tx_wire)
  /\ e = Count(TxServ!Frame("failed", r), tx_replies)
  /\ f = Count(TxServ!Frame("declared", r), tx_replies)
  /\ g = Count(TxServ!Frame("discharge", r), tx_wire)
  /\ a + b + i + d + (IF r \in tx_open THEN 1 ELSE 0) + e
       = IF TxServ!Asked(r) THEN 1 ELSE 0
  /\ f + g = IF r \in tx_open THEN 1 ELSE 0

LEMMA TxSum ==
  ASSUME TxInv, NEW r \in TxServ!AllRequests
  PROVE  \E a, b, i, d, e, f, g \in Nat : TxSums(r, a, b, i, d, e, f, g)
<1>1. /\ TxServ!Taken(r) \in Nat /\ Count(r, tx_queue) \in Nat /\ Count(r, tx_inbox) \in Nat
      /\ Count(TxServ!Frame("declare", r), tx_wire) \in Nat
      /\ Count(TxServ!Frame("failed", r), tx_replies) \in Nat
      /\ Count(TxServ!Frame("declared", r), tx_replies) \in Nat
      /\ Count(TxServ!Frame("discharge", r), tx_wire) \in Nat
  BY TxCounts DEF TxInv, FrameTypes
<1>2. TxServ!Taken(r) + Count(r, tx_queue) + Count(r, tx_inbox)
        + Count(TxServ!Frame("declare", r), tx_wire) + (IF r \in tx_open THEN 1 ELSE 0)
        + Count(TxServ!Frame("failed", r), tx_replies) = IF TxServ!Asked(r) THEN 1 ELSE 0
  BY DEF TxInv, EachOnce
<1>3. Count(TxServ!Frame("declared", r), tx_replies) + Count(TxServ!Frame("discharge", r), tx_wire)
        = IF r \in tx_open THEN 1 ELSE 0
  BY DEF TxInv, InProgress
<1> QED BY <1>1, <1>2, <1>3 DEF TxSums

\* The invariant of the next state, with the sequences primed.
LEMMA EachOnceIs ==
  ASSUME \A r \in TxServ!AllRequests :
           TxServ!Taken(r)' + Count(r, tx_queue') + Count(r, tx_inbox')
             + Count(TxServ!Frame("declare", r), tx_wire') + (IF r \in tx_open' THEN 1 ELSE 0)
             + Count(TxServ!Frame("failed", r), tx_replies') = IF TxServ!Asked(r)' THEN 1 ELSE 0
  PROVE  EachOnce'
BY DEF EachOnce, TxServ!AllRequests, Count, PlacesOf, TxServ!Frame, TxServ!Taken

LEMMA InProgressIs ==
  ASSUME \A r \in TxServ!AllRequests :
           Count(TxServ!Frame("declared", r), tx_replies')
             + Count(TxServ!Frame("discharge", r), tx_wire') = IF r \in tx_open' THEN 1 ELSE 0
  PROVE  InProgress'
BY DEF InProgress, TxServ!AllRequests, Count, PlacesOf, TxServ!Frame

\* The clients.
LEMMA TxCallStep ==
  ASSUME TxInv, NEW c \in TxClients, TxServ!Call(c)
  PROVE  TxInv'
<1> DEFINE q == <<c, tx_call[c]>>
<1>1. tx_call[c] \in Nat \ {0} /\ tx_call[c] <= TxRequests
  BY DEF TxInv, TxTypeInv, TxServ!Call, TxServ!history
<1>2. q \in TxServ!AllRequests
  BY <1>1, ProgramsAssumption DEF TxServ!AllRequests
<1>3. tx_queue' = Append(tx_queue, q)
  BY DEF TxServ!Call, TxServ!history
<1>4. UNCHANGED <<tx_call, tx_gaveUp, tx_inbox, tx_wire, tx_replies, tx_open, tx_staged,
                  tx_answers, tx_withheld,
                  tx_unanswered>>
  BY DEF TxServ!Call, TxServ!history, TxServ!serverVars, TxServ!txVars
<1>5. /\ tx_calling' = tx_calling \union {c}
      /\ c \notin tx_calling /\ c \notin tx_gaveUp
  BY DEF TxServ!Call, TxServ!history
<1>6. tx_queue' \in Seq(TxServ!AllRequests)
  BY <1>2, <1>3, Added DEF TxInv, TxTypeInv
<1>7. TxTypeInv'
  BY <1>4, <1>5, <1>6 DEF TxInv, TxTypeInv, TxServ!AllRequests
<1>8. InProgress' /\ SendsFirst'
  BY <1>4 DEF TxInv, InProgress, SendsFirst, TxServ!AllRequests, TxServ!Frame
<1>9. ASSUME NEW r \in TxServ!AllRequests
      PROVE  /\ r = q => TxServ!Asked(r)' /\ ~TxServ!Asked(r)
             /\ r /= q => (TxServ!Asked(r)' <=> TxServ!Asked(r))
  <2>1. PICK d \in TxClients, n \in Nat : r = <<d, n>> /\ r[1] = d /\ r[2] = n
    BY ProgramsAssumption DEF TxServ!AllRequests
  <2>2. tx_call[d] \in Nat
    BY <2>1 DEF TxInv, TxTypeInv
  <2> QED BY <1>1, <1>4, <1>5, <2>1, <2>2 DEF TxServ!Asked
<1>10. ASSUME NEW r \in TxServ!AllRequests
       PROVE  Count(r, tx_queue') = Count(r, tx_queue) + (IF r = q THEN 1 ELSE 0)
  <2>1. tx_queue \in Seq(TxServ!AllRequests)
    BY DEF TxInv, TxTypeInv
  <2>2. Count(r, Append(tx_queue, q)) = Count(r, tx_queue) + (IF r = q THEN 1 ELSE 0)
    BY <1>2, <2>1, CountAdded
  <2> QED BY <1>3, <2>2
<1> HIDE DEF q
<1>11. ASSUME NEW r \in TxServ!AllRequests
       PROVE  TxServ!Taken(r)' + Count(r, tx_queue') + Count(r, tx_inbox')
                + Count(TxServ!Frame("declare", r), tx_wire') + (IF r \in tx_open' THEN 1 ELSE 0)
                + Count(TxServ!Frame("failed", r), tx_replies')
                  = IF TxServ!Asked(r)' THEN 1 ELSE 0
  <2>1. PICK a, b, i, d, e, f, g \in Nat : TxSums(r, a, b, i, d, e, f, g)
    BY TxSum
  <2>2. Count(r, tx_queue') = b + (IF r = q THEN 1 ELSE 0)
    BY <1>10, <2>1 DEF TxSums
  <2>3. a + (b + (IF r = q THEN 1 ELSE 0)) + i + d + (IF r \in tx_open THEN 1 ELSE 0) + e
          = IF TxServ!Asked(r)' THEN 1 ELSE 0
    BY <1>9, <2>1 DEF TxSums
  <2> QED BY <1>4, <2>1, <2>2, <2>3 DEF TxSums, TxServ!Taken
<1>12. EachOnce'
  BY <1>11, EachOnceIs
<1> QED BY <1>7, <1>8, <1>12 DEF TxInv

LEMMA TxClientStep ==
  ASSUME TxInv, NEW c \in TxClients, TxServ!CallReturns(c) \/ TxServ!TimesOut(c)
  PROVE  TxInv'
<1>1. UNCHANGED <<tx_queue, tx_inbox, tx_wire, tx_replies, tx_open, tx_staged, tx_answers, tx_withheld,
                  tx_unanswered>>
  BY DEF TxServ!CallReturns, TxServ!TimesOut, TxServ!serverVars, TxServ!txVars,
     TxServ!history
<1>2. /\ c \in tx_calling /\ tx_calling' = tx_calling \ {c}
      /\ \/ tx_call' = [tx_call EXCEPT ![c] = @ + 1] /\ tx_gaveUp' = tx_gaveUp
         \/ tx_call' = tx_call /\ tx_gaveUp' = tx_gaveUp \union {c}
  BY DEF TxServ!CallReturns, TxServ!history, TxServ!TimesOut
<1>3. tx_call \in [TxClients -> Nat \ {0}] /\ tx_calling \intersect tx_gaveUp = {}
  BY DEF TxInv, TxTypeInv
<1>4. tx_call' \in [TxClients -> Nat \ {0}] /\ tx_calling' \subseteq TxClients
        /\ tx_calling' \intersect tx_gaveUp' = {}
  <2>1. tx_call[c] + 1 \in Nat \ {0}
    BY <1>3
  <2>2. tx_call' \in [TxClients -> Nat \ {0}]
    BY <1>2, <1>3, <2>1
  <2> QED BY <1>2, <1>3, <2>2 DEF TxInv, TxTypeInv
<1>5. TxTypeInv'
  BY <1>1, <1>4 DEF TxInv, TxTypeInv, TxServ!AllRequests
<1>6. ASSUME NEW r \in TxServ!AllRequests PROVE TxServ!Asked(r)' <=> TxServ!Asked(r)
  <2>1. PICK d \in TxClients, n \in Nat : r = <<d, n>> /\ r[1] = d /\ r[2] = n
    BY ProgramsAssumption DEF TxServ!AllRequests
  <2>2. tx_call[d] \in Nat \ {0}
    BY <1>3, <2>1
  <2>3. CASE d = c
    BY <1>2, <1>3, <2>1, <2>2, <2>3 DEF TxServ!Asked
  <2>4. CASE d /= c
    BY <1>2, <1>3, <2>1, <2>2, <2>4 DEF TxServ!Asked
  <2> QED BY <2>3, <2>4
<1>7. EachOnce' /\ InProgress' /\ SendsFirst'
  <2>1. InProgress' /\ SendsFirst'
    BY <1>1 DEF TxInv, InProgress, SendsFirst, TxServ!AllRequests, TxServ!Frame, Count, PlacesOf
  <2>2. ASSUME NEW r \in TxServ!AllRequests
        PROVE  TxServ!Taken(r)' + Count(r, tx_queue') + Count(r, tx_inbox')
                 + Count(TxServ!Frame("declare", r), tx_wire') + (IF r \in tx_open' THEN 1 ELSE 0)
                 + Count(TxServ!Frame("failed", r), tx_replies')
                   = IF TxServ!Asked(r)' THEN 1 ELSE 0
    BY <1>1, <1>6 DEF TxInv, EachOnce, TxServ!Taken
  <2> QED BY <2>1, <2>2, EachOnceIs
<1> QED BY <1>5, <1>7 DEF TxInv

\* The steps of the server and of the node leave the clients alone.
LEMMA AskedBefore ==
  ASSUME UNCHANGED <<tx_call, tx_calling, tx_gaveUp>>, NEW r
  PROVE  TxServ!Asked(r)' <=> TxServ!Asked(r)
BY DEF TxServ!Asked

\* A step keeps the sums of a request if the place it leaves is another one.
TxSumsNext(r) ==
  /\ TxServ!Taken(r)' + Count(r, tx_queue') + Count(r, tx_inbox')
       + Count(TxServ!Frame("declare", r), tx_wire') + (IF r \in tx_open' THEN 1 ELSE 0)
       + Count(TxServ!Frame("failed", r), tx_replies') = IF TxServ!Asked(r) THEN 1 ELSE 0
  /\ Count(TxServ!Frame("declared", r), tx_replies')
       + Count(TxServ!Frame("discharge", r), tx_wire') = IF r \in tx_open' THEN 1 ELSE 0

LEMMA TxKeeps ==
  ASSUME TxInv, TxTypeInv', SendsFirst', UNCHANGED <<tx_call, tx_calling, tx_gaveUp>>,
         ASSUME NEW r \in TxServ!AllRequests, NEW a \in Nat, NEW b \in Nat, NEW i \in Nat,
                NEW d \in Nat, NEW e \in Nat, NEW f \in Nat, NEW g \in Nat,
                TxSums(r, a, b, i, d, e, f, g)
         PROVE  TxSumsNext(r)
  PROVE  TxInv'
<1>1. ASSUME NEW r \in TxServ!AllRequests PROVE TxSumsNext(r)
  <2>1. PICK a, b, i, d, e, f, g \in Nat : TxSums(r, a, b, i, d, e, f, g)
    BY TxSum
  <2> QED BY <2>1
<1>2. \A r : TxServ!Asked(r)' <=> TxServ!Asked(r)
  BY AskedBefore
<1>3. EachOnce'
  BY <1>1, <1>2, EachOnceIs DEF TxSumsNext
<1>4. InProgress'
  BY <1>1, InProgressIs DEF TxSumsNext
<1> QED BY <1>3, <1>4 DEF TxInv

LEMMA TxOnMessageStep == TxInv /\ TxServ!OnMessage => TxInv'
<1> SUFFICES ASSUME TxInv, TxServ!OnMessage PROVE TxInv'
  OBVIOUS
<1>1. PICK q : q = Head(tx_inbox)
  OBVIOUS
<1>2. /\ tx_inbox /= <<>> /\ tx_inbox' = Tail(tx_inbox)
      /\ tx_wire' = Append(tx_wire, TxServ!Frame("declare", q))
      /\ UNCHANGED <<tx_queue, tx_replies, tx_open, tx_staged, tx_answers, tx_withheld,
                  tx_unanswered>>
  BY <1>1 DEF TxServ!OnMessage, TxServ!history, TxServ!txVars
<1>3. UNCHANGED <<tx_call, tx_calling, tx_gaveUp>>
  BY DEF TxServ!OnMessage, TxServ!clientVars
<1>4. tx_inbox \in Seq(TxServ!AllRequests) /\ tx_wire \in Seq(TxFrames)
  BY DEF TxInv, TxTypeInv
<1>5. q \in TxServ!AllRequests /\ tx_inbox' \in Seq(TxServ!AllRequests)
  BY <1>1, <1>2, <1>4, HeadTaken
<1>6. \A r : Count(r, tx_inbox) = Count(r, tx_inbox') + (IF r = q THEN 1 ELSE 0)
  BY <1>1, <1>2, <1>4, CountTaken
<1>7. /\ tx_wire' \in Seq(TxFrames)
      /\ \A t \in FrameTypes, r \in TxServ!AllRequests :
           Count(TxServ!Frame(t, r), tx_wire')
             = Count(TxServ!Frame(t, r), tx_wire) + (IF t = "declare" /\ r = q THEN 1 ELSE 0)
  BY <1>2, <1>4, <1>5, FrameAdded DEF FrameTypes
<1>8. TxTypeInv'
  BY <1>2, <1>3, <1>5, <1>7 DEF TxInv, TxTypeInv, TxServ!AllRequests, TxFrames
<1>9. SendsFirst'
  <2>1. /\ Len(tx_wire) \in Nat /\ DOMAIN tx_wire = 1..Len(tx_wire)
        /\ DOMAIN tx_wire' = 1..(Len(tx_wire) + 1)
        /\ \A k \in 1..Len(tx_wire) : tx_wire'[k] = tx_wire[k]
        /\ tx_wire'[Len(tx_wire) + 1] = TxServ!Frame("declare", q)
    BY <1>2, <1>4
  <2>2. ASSUME NEW r \in TxServ!AllRequests, NEW k \in DOMAIN tx_wire',
               tx_wire'[k] = TxServ!Frame("discharge", r), r \notin tx_withheld'
        PROVE  \/ TxServ!Frame("send", r) \in tx_staged'
               \/ \E j \in 1..(k - 1) : tx_wire'[j] = TxServ!Frame("send", r)
    <3>1. TxServ!Frame("declare", q) /= TxServ!Frame("discharge", r)
      BY DEF TxServ!Frame
    <3>2. k \in DOMAIN tx_wire /\ tx_wire[k] = TxServ!Frame("discharge", r)
      BY <2>1, <2>2, <3>1
    <3>3. \/ TxServ!Frame("send", r) \in tx_staged
          \/ \E j \in 1..(k - 1) : tx_wire[j] = TxServ!Frame("send", r)
      BY <1>2, <2>2, <3>2 DEF TxInv, SendsFirst
    <3> QED BY <1>2, <2>1, <3>2, <3>3
  <2> QED BY <2>2 DEF SendsFirst, TxServ!AllRequests, TxServ!Frame
<1>10. ASSUME NEW r \in TxServ!AllRequests, NEW a \in Nat, NEW b \in Nat, NEW i \in Nat,
              NEW d \in Nat, NEW e \in Nat, NEW f \in Nat, NEW g \in Nat,
              TxSums(r, a, b, i, d, e, f, g)
       PROVE  TxSumsNext(r)
  <2>1. Count(r, tx_inbox') \in Nat
    BY <1>5, CountType
  <2>2. Count(r, tx_inbox') = i - (IF r = q THEN 1 ELSE 0)
    BY <1>6, <1>10, <2>1 DEF TxSums
  <2>3. /\ Count(TxServ!Frame("declare", r), tx_wire') = d + (IF r = q THEN 1 ELSE 0)
        /\ Count(TxServ!Frame("discharge", r), tx_wire') = g
    <3>1. /\ d = Count(TxServ!Frame("declare", r), tx_wire)
          /\ g = Count(TxServ!Frame("discharge", r), tx_wire)
      BY <1>10 DEF TxSums
    <3> QED BY <1>7, <3>1 DEF FrameTypes
  <2>4. /\ TxServ!Taken(r)' = a /\ Count(r, tx_queue') = b
        /\ Count(TxServ!Frame("failed", r), tx_replies') = e
        /\ Count(TxServ!Frame("declared", r), tx_replies') = f
        /\ tx_open' = tx_open
    BY <1>2, <1>10 DEF TxSums, TxServ!Taken
  <2>5. /\ a + b + i + d + (IF r \in tx_open THEN 1 ELSE 0) + e
             = IF TxServ!Asked(r) THEN 1 ELSE 0
        /\ f + g = IF r \in tx_open THEN 1 ELSE 0
    BY <1>10 DEF TxSums
  <2> QED BY <2>2, <2>3, <2>4, <2>5 DEF TxSumsNext
<1> QED BY <1>3, <1>8, <1>9, <1>10, TxKeeps

LEMMA SendsSame ==
  ASSUME SendsFirst, UNCHANGED <<tx_wire, tx_staged, tx_withheld>>
  PROVE  SendsFirst'
BY DEF SendsFirst, TxServ!AllRequests, TxServ!Frame

\* The node takes a frame: an answer that was not yet staged still comes before.
LEMMA SendsTaken ==
  ASSUME SendsFirst, tx_wire \in Seq(TxFrames), tx_wire /= <<>>, tx_wire' = Tail(tx_wire),
         UNCHANGED tx_withheld,
         \A r \in TxServ!AllRequests : \A k \in DOMAIN tx_wire' :
           /\ tx_wire'[k] = TxServ!Frame("discharge", r)
           /\ \/ TxServ!Frame("send", r) \in tx_staged
              \/ Head(tx_wire) = TxServ!Frame("send", r)
           => TxServ!Frame("send", r) \in tx_staged'
  PROVE  SendsFirst'
<1>1. /\ Len(tx_wire) \in Nat /\ DOMAIN tx_wire = 1..Len(tx_wire)
      /\ DOMAIN tx_wire' = 1..(Len(tx_wire) - 1)
      /\ \A k \in 1..(Len(tx_wire) - 1) : tx_wire'[k] = tx_wire[k + 1]
      /\ Head(tx_wire) = tx_wire[1]
  OBVIOUS
<1>2. ASSUME NEW r \in TxServ!AllRequests, NEW k \in DOMAIN tx_wire',
             tx_wire'[k] = TxServ!Frame("discharge", r), r \notin tx_withheld'
      PROVE  \/ TxServ!Frame("send", r) \in tx_staged'
             \/ \E j \in 1..(k - 1) : tx_wire'[j] = TxServ!Frame("send", r)
  <2>1. k + 1 \in DOMAIN tx_wire /\ tx_wire[k + 1] = TxServ!Frame("discharge", r)
    BY <1>1, <1>2
  <2>2. \/ TxServ!Frame("send", r) \in tx_staged
        \/ \E j \in 1..((k + 1) - 1) : tx_wire[j] = TxServ!Frame("send", r)
    BY <1>2, <2>1 DEF SendsFirst
  <2>3. CASE TxServ!Frame("send", r) \in tx_staged
    BY <1>2, <2>3
  <2>4. CASE \E j \in 1..((k + 1) - 1) : tx_wire[j] = TxServ!Frame("send", r)
    <3>1. PICK j \in 1..((k + 1) - 1) : tx_wire[j] = TxServ!Frame("send", r)
      BY <2>4
    <3>2. CASE j = 1
      BY <1>1, <1>2, <3>1, <3>2
    <3>3. CASE j /= 1
      <4>1. j - 1 \in 1..(k - 1) /\ j - 1 \in 1..(Len(tx_wire) - 1) /\ (j - 1) + 1 = j
        BY <1>1, <3>3
      <4> QED BY <1>1, <3>1, <4>1
    <3> QED BY <3>2, <3>3
  <2> QED BY <2>2, <2>3, <2>4
<1> QED BY <1>2 DEF SendsFirst, TxServ!AllRequests, TxServ!Frame

\* The server sends frames: an answer comes before the end of its transaction.
LEMMA SendsAppended ==
  ASSUME SendsFirst, tx_wire \in Seq(TxFrames), NEW s \in Seq(TxFrames),
         tx_wire' = tx_wire \o s, UNCHANGED tx_staged, tx_withheld \subseteq tx_withheld',
         \A r \in TxServ!AllRequests : \A k \in DOMAIN s :
           s[k] = TxServ!Frame("discharge", r) /\ r \notin tx_withheld' =>
             \E j \in 1..(k - 1) : s[j] = TxServ!Frame("send", r)
  PROVE  SendsFirst'
<1>1. PICK n \in Nat, m \in Nat : /\ n = Len(tx_wire) /\ DOMAIN tx_wire = 1..n
                                  /\ m = Len(s) /\ DOMAIN s = 1..m
  OBVIOUS
<1>2. PICK w : w = tx_wire \o s
  OBVIOUS
<1>3. /\ DOMAIN w = 1..(n + m) /\ \A k \in 1..n : w[k] = tx_wire[k]
      /\ \A k \in 1..m : w[n + k] = s[k]
  <2>1. /\ Len(tx_wire \o s) = Len(tx_wire) + Len(s) /\ tx_wire \o s \in Seq(TxFrames)
        /\ \A k \in 1..Len(tx_wire) : (tx_wire \o s)[k] = tx_wire[k]
        /\ \A k \in 1..Len(s) : (tx_wire \o s)[Len(tx_wire) + k] = s[k]
    BY Joined
  <2>2. /\ w \in Seq(TxFrames) /\ Len(w) = n + m
        /\ \A k \in 1..n : w[k] = tx_wire[k]
        /\ \A k \in 1..m : w[n + k] = s[k]
    BY <1>1, <1>2, <2>1
  <2> QED BY <2>2
<1>4. ASSUME NEW r \in TxServ!AllRequests, NEW k \in DOMAIN w,
             w[k] = TxServ!Frame("discharge", r), r \notin tx_withheld'
      PROVE  \/ TxServ!Frame("send", r) \in tx_staged
             \/ \E j \in 1..(k - 1) : w[j] = TxServ!Frame("send", r)
  <2>1. CASE k \in 1..n
    <3>1. k \in DOMAIN tx_wire /\ tx_wire[k] = TxServ!Frame("discharge", r)
      BY <1>1, <1>3, <1>4, <2>1
    <3>2. \/ TxServ!Frame("send", r) \in tx_staged
          \/ \E j \in 1..(k - 1) : tx_wire[j] = TxServ!Frame("send", r)
      BY <1>4, <3>1, Zenon DEF SendsFirst
    <3>3. CASE \E j \in 1..(k - 1) : tx_wire[j] = TxServ!Frame("send", r)
      <4>1. PICK j \in 1..(k - 1) : tx_wire[j] = TxServ!Frame("send", r)
        BY <3>3
      <4>2. j \in 1..n
        BY <2>1, <4>1
      <4> QED BY <1>3, <4>1, <4>2
    <3> QED BY <3>2, <3>3
  <2>2. CASE k \notin 1..n
    <3>1. PICK i \in 1..m : k = n + i
      <4>1. k - n \in 1..m /\ k = n + (k - n)
        BY <1>3, <2>2
      <4> QED BY <4>1
    <3>2. i \in DOMAIN s /\ s[i] = TxServ!Frame("discharge", r)
      BY <1>1, <1>3, <1>4, <3>1
    <3>3. PICK j \in 1..(i - 1) : s[j] = TxServ!Frame("send", r)
      BY <1>4, <3>2
    <3>4. n + j \in 1..(k - 1) /\ j \in 1..m
      BY <3>1, <3>3
    <3> QED BY <1>3, <3>3, <3>4
  <2> QED BY <2>1, <2>2
<1>5. ASSUME NEW r \in TxServ!AllRequests, NEW k \in DOMAIN tx_wire',
             tx_wire'[k] = TxServ!Frame("discharge", r), r \notin tx_withheld'
      PROVE  \/ TxServ!Frame("send", r) \in tx_staged'
             \/ \E j \in 1..(k - 1) : tx_wire'[j] = TxServ!Frame("send", r)
  <2>1. tx_wire' = w /\ tx_staged' = tx_staged
    BY <1>2
  <2> QED BY <1>4, <1>5, <2>1, Zenon
<1> QED BY <1>5 DEF SendsFirst, TxServ!AllRequests, TxServ!Frame

LEMMA TxOnTransactionDeclaredStep == TxInv /\ TxServ!OnTransactionDeclared => TxInv'
<1> SUFFICES ASSUME TxInv, TxServ!OnTransactionDeclared PROVE TxInv'
  OBVIOUS
<1>1. tx_wire \in Seq(TxFrames) /\ tx_replies \in Seq(TxFrames)
  BY DEF TxInv, TxTypeInv
<1>2. tx_replies /= <<>> /\ Head(tx_replies).type = "declared" /\ tx_replies' = Tail(tx_replies)
  BY DEF TxServ!OnTransactionDeclared, TxServ!Reply
<1>3. PICK q \in TxServ!AllRequests :
        /\ Head(tx_replies).request = q /\ tx_replies' \in Seq(TxFrames)
        /\ \A t \in FrameTypes, r \in TxServ!AllRequests :
             Count(TxServ!Frame(t, r), tx_replies)
               = Count(TxServ!Frame(t, r), tx_replies')
                   + (IF t = "declared" /\ r = q THEN 1 ELSE 0)
  BY <1>1, <1>2, FrameTaken DEF FrameTypes
<1>4. PICK s : /\ tx_wire' = tx_wire \o s
               /\ \/ s = TxRequestFrames(q) /\ tx_withheld' = tx_withheld
                  \/ s = WithheldFrames(q) /\ tx_withheld' = tx_withheld \union {q}
               /\ UNCHANGED <<tx_queue, tx_inbox, tx_open, tx_staged, tx_answers, tx_unanswered>>
  BY <1>3 DEF TxServ!OnTransactionDeclared, TxServ!txVars, TxRequestFrames, WithheldFrames
<1>5. UNCHANGED <<tx_call, tx_calling, tx_gaveUp>>
  BY DEF TxServ!OnTransactionDeclared, TxServ!clientVars
<1>6. /\ tx_wire' \in Seq(TxFrames)
      /\ \A r \in TxServ!AllRequests :
           /\ Count(TxServ!Frame("declare", r), tx_wire')
                = Count(TxServ!Frame("declare", r), tx_wire)
           /\ Count(TxServ!Frame("discharge", r), tx_wire')
                = Count(TxServ!Frame("discharge", r), tx_wire) + (IF r = q THEN 1 ELSE 0)
  BY <1>1, <1>4, FramesAdded, EndsAdded
<1>7. TxTypeInv'
  BY <1>3, <1>4, <1>5, <1>6 DEF TxInv, TxTypeInv, TxServ!AllRequests, TxFrames
<1>8. SendsFirst'
  <2>1. /\ TxServ!Frame("send", q) \in TxFrames /\ TxServ!Frame("accept", q) \in TxFrames
        /\ TxServ!Frame("discharge", q) \in TxFrames
    BY FramesAre DEF FrameTypes
  <2>2. \A r : /\ TxServ!Frame("discharge", r) = TxServ!Frame("discharge", q) => r = q
               /\ TxServ!Frame("discharge", r) /= TxServ!Frame("send", q)
               /\ TxServ!Frame("discharge", r) /= TxServ!Frame("accept", q)
    BY DEF TxServ!Frame
  <2>3. SendsFirst
    BY DEF TxInv
  <2>4. CASE s = TxRequestFrames(q) /\ tx_withheld' = tx_withheld
    <3>1. /\ s \in Seq(TxFrames) /\ DOMAIN s = 1..3
          /\ s[1] = TxServ!Frame("send", q) /\ s[2] = TxServ!Frame("accept", q)
          /\ s[3] = TxServ!Frame("discharge", q)
      BY <2>1, <2>4 DEF TxRequestFrames
    <3>2. ASSUME NEW r \in TxServ!AllRequests, NEW k \in DOMAIN s,
                 s[k] = TxServ!Frame("discharge", r)
          PROVE  \E j \in 1..(k - 1) : s[j] = TxServ!Frame("send", r)
      <4>1. k = 3 /\ r = q
        BY <2>2, <3>1, <3>2
      <4>2. 1 \in 1..(k - 1)
        BY <4>1
      <4> QED BY <3>1, <4>1, <4>2
    <3> QED BY <1>1, <1>4, <2>3, <2>4, <3>1, <3>2, SendsAppended
  <2>5. CASE s = WithheldFrames(q) /\ tx_withheld' = tx_withheld \union {q}
    <3>1. /\ s \in Seq(TxFrames) /\ DOMAIN s = 1..2
          /\ s[1] = TxServ!Frame("accept", q) /\ s[2] = TxServ!Frame("discharge", q)
      BY <2>1, <2>5 DEF WithheldFrames
    <3>2. \A r \in TxServ!AllRequests : \A k \in DOMAIN s :
            s[k] = TxServ!Frame("discharge", r) => r \in tx_withheld'
      BY <2>2, <2>5, <3>1
    <3> QED BY <1>1, <1>4, <2>3, <2>5, <3>1, <3>2, SendsAppended
  <2> QED BY <1>4, <2>4, <2>5
<1>9. ASSUME NEW r \in TxServ!AllRequests, NEW a \in Nat, NEW b \in Nat, NEW i \in Nat,
             NEW d \in Nat, NEW e \in Nat, NEW f \in Nat, NEW g \in Nat,
             TxSums(r, a, b, i, d, e, f, g)
      PROVE  TxSumsNext(r)
  <2>1. /\ Count(TxServ!Frame("declared", r), tx_replies') \in Nat
        /\ Count(TxServ!Frame("failed", r), tx_replies') \in Nat
    BY <1>3, CountType
  <2>2. /\ Count(TxServ!Frame("declared", r), tx_replies') = f - (IF r = q THEN 1 ELSE 0)
        /\ Count(TxServ!Frame("failed", r), tx_replies') = e
    <3>1. /\ f = Count(TxServ!Frame("declared", r), tx_replies)
          /\ e = Count(TxServ!Frame("failed", r), tx_replies)
      BY <1>9 DEF TxSums
    <3> QED BY <1>3, <2>1, <3>1 DEF FrameTypes
  <2>3. /\ Count(TxServ!Frame("declare", r), tx_wire') = d
        /\ Count(TxServ!Frame("discharge", r), tx_wire') = g + (IF r = q THEN 1 ELSE 0)
    BY <1>6, <1>9 DEF TxSums
  <2>4. /\ TxServ!Taken(r)' = a /\ Count(r, tx_queue') = b /\ Count(r, tx_inbox') = i
        /\ tx_open' = tx_open
    BY <1>4, <1>9 DEF TxSums, TxServ!Taken
  <2>5. /\ a + b + i + d + (IF r \in tx_open THEN 1 ELSE 0) + e
             = IF TxServ!Asked(r) THEN 1 ELSE 0
        /\ f + g = IF r \in tx_open THEN 1 ELSE 0
    BY <1>9 DEF TxSums
  <2> QED BY <2>2, <2>3, <2>4, <2>5 DEF TxSumsNext
<1> QED BY <1>5, <1>7, <1>8, <1>9, TxKeeps

\* The server takes a frame of type u off the replies, the node off the wire.
LEMMA ReplyTaken ==
  ASSUME TxInv, NEW u \in FrameTypes, TxServ!Reply(u)
  PROVE  \E q \in TxServ!AllRequests :
           /\ Head(tx_replies).request = q /\ tx_replies' \in Seq(TxFrames)
           /\ \A t \in FrameTypes, r \in TxServ!AllRequests :
                /\ Count(TxServ!Frame(t, r), tx_replies') \in Nat
                /\ Count(TxServ!Frame(t, r), tx_replies)
                     = Count(TxServ!Frame(t, r), tx_replies')
                         + (IF t = u /\ r = q THEN 1 ELSE 0)
<1>1. /\ tx_replies \in Seq(TxFrames) /\ tx_replies /= <<>>
      /\ Head(tx_replies).type = u /\ tx_replies' = Tail(tx_replies)
  BY DEF TxInv, TxTypeInv, TxServ!Reply
<1>2. PICK q \in TxServ!AllRequests :
        /\ Head(tx_replies).request = q /\ tx_replies' \in Seq(TxFrames)
        /\ \A t \in FrameTypes, r \in TxServ!AllRequests :
             Count(TxServ!Frame(t, r), tx_replies)
               = Count(TxServ!Frame(t, r), tx_replies') + (IF t = u /\ r = q THEN 1 ELSE 0)
  BY <1>1, FrameTaken
<1>3. \A x : Count(x, tx_replies') \in Nat
  BY <1>2, CountType
<1> QED BY <1>2, <1>3

LEMMA TxOnTransactionCommittedStep == TxInv /\ TxServ!OnTransactionCommitted => TxInv'
<1> SUFFICES ASSUME TxInv, TxServ!OnTransactionCommitted PROVE TxInv'
  OBVIOUS
<1>1. TxServ!Reply("committed")
  BY DEF TxServ!OnTransactionCommitted, TxServ!history
<1>2. PICK q \in TxServ!AllRequests :
        /\ Head(tx_replies).request = q /\ tx_replies' \in Seq(TxFrames)
        /\ \A t \in FrameTypes, r \in TxServ!AllRequests :
             /\ Count(TxServ!Frame(t, r), tx_replies') \in Nat
             /\ Count(TxServ!Frame(t, r), tx_replies)
                  = Count(TxServ!Frame(t, r), tx_replies')
                      + (IF t = "committed" /\ r = q THEN 1 ELSE 0)
  BY <1>1, ReplyTaken DEF FrameTypes
<1>3. /\ UNCHANGED <<tx_queue, tx_inbox, tx_wire, tx_open, tx_staged, tx_answers, tx_withheld,
                  tx_unanswered>>
      /\ UNCHANGED <<tx_call, tx_calling, tx_gaveUp>>
  BY DEF TxServ!OnTransactionCommitted, TxServ!history, TxServ!txVars, TxServ!clientVars
<1>4. TxTypeInv'
  BY <1>2, <1>3 DEF TxInv, TxTypeInv, TxServ!AllRequests, TxFrames
<1>5. SendsFirst'
  BY <1>3, SendsSame DEF TxInv
<1>6. ASSUME NEW r \in TxServ!AllRequests, NEW a \in Nat, NEW b \in Nat, NEW i \in Nat,
             NEW d \in Nat, NEW e \in Nat, NEW f \in Nat, NEW g \in Nat,
             TxSums(r, a, b, i, d, e, f, g)
      PROVE  TxSumsNext(r)
  <2>1. /\ Count(TxServ!Frame("declared", r), tx_replies') = f
        /\ Count(TxServ!Frame("failed", r), tx_replies') = e
    <3>1. /\ f = Count(TxServ!Frame("declared", r), tx_replies)
          /\ e = Count(TxServ!Frame("failed", r), tx_replies)
      BY <1>6 DEF TxSums
    <3> QED BY <1>2, <3>1 DEF FrameTypes
  <2>2. /\ TxServ!Taken(r)' = a /\ Count(r, tx_queue') = b /\ Count(r, tx_inbox') = i
        /\ Count(TxServ!Frame("declare", r), tx_wire') = d
        /\ Count(TxServ!Frame("discharge", r), tx_wire') = g
        /\ tx_open' = tx_open
    BY <1>3, <1>6 DEF TxSums, TxServ!Taken
  <2>3. /\ a + b + i + d + (IF r \in tx_open THEN 1 ELSE 0) + e
             = IF TxServ!Asked(r) THEN 1 ELSE 0
        /\ f + g = IF r \in tx_open THEN 1 ELSE 0
    BY <1>6 DEF TxSums
  <2> QED BY <2>1, <2>2, <2>3 DEF TxSumsNext
<1> QED BY <1>3, <1>4, <1>5, <1>6, TxKeeps

LEMMA TxOnCommitFailedStep == TxInv /\ TxServ!OnCommitFailed => TxInv'
<1> SUFFICES ASSUME TxInv, TxServ!OnCommitFailed PROVE TxInv'
  OBVIOUS
<1>1. TxServ!Reply("failed")
  BY DEF TxServ!OnCommitFailed, TxServ!history
<1>2. PICK q \in TxServ!AllRequests :
        /\ Head(tx_replies).request = q /\ tx_replies' \in Seq(TxFrames)
        /\ \A t \in FrameTypes, r \in TxServ!AllRequests :
             /\ Count(TxServ!Frame(t, r), tx_replies') \in Nat
             /\ Count(TxServ!Frame(t, r), tx_replies)
                  = Count(TxServ!Frame(t, r), tx_replies')
                      + (IF t = "failed" /\ r = q THEN 1 ELSE 0)
  BY <1>1, ReplyTaken DEF FrameTypes
<1>3. /\ tx_queue' = Append(tx_queue, q)
      /\ UNCHANGED <<tx_inbox, tx_wire, tx_open, tx_staged, tx_answers, tx_withheld,
                  tx_unanswered>>
      /\ UNCHANGED <<tx_call, tx_calling, tx_gaveUp>>
  BY <1>2 DEF TxServ!OnCommitFailed, TxServ!history, TxServ!txVars, TxServ!clientVars
<1>4. tx_queue \in Seq(TxServ!AllRequests)
  BY DEF TxInv, TxTypeInv
<1>5. /\ tx_queue' \in Seq(TxServ!AllRequests)
      /\ \A r : Count(r, tx_queue') = Count(r, tx_queue) + (IF r = q THEN 1 ELSE 0)
  <2>1. Append(tx_queue, q) \in Seq(TxServ!AllRequests)
    BY <1>4, Added
  <2>2. \A r : Count(r, Append(tx_queue, q)) = Count(r, tx_queue) + (IF r = q THEN 1 ELSE 0)
    BY <1>4, CountAdded
  <2> QED BY <1>3, <2>1, <2>2
<1>6. TxTypeInv'
  BY <1>2, <1>3, <1>5 DEF TxInv, TxTypeInv, TxServ!AllRequests, TxFrames
<1>7. SendsFirst'
  BY <1>3, SendsSame DEF TxInv
<1>8. ASSUME NEW r \in TxServ!AllRequests, NEW a \in Nat, NEW b \in Nat, NEW i \in Nat,
             NEW d \in Nat, NEW e \in Nat, NEW f \in Nat, NEW g \in Nat,
             TxSums(r, a, b, i, d, e, f, g)
      PROVE  TxSumsNext(r)
  <2>1. /\ Count(TxServ!Frame("declared", r), tx_replies') = f
        /\ Count(TxServ!Frame("failed", r), tx_replies') = e - (IF r = q THEN 1 ELSE 0)
    <3>1. /\ f = Count(TxServ!Frame("declared", r), tx_replies)
          /\ e = Count(TxServ!Frame("failed", r), tx_replies)
      BY <1>8 DEF TxSums
    <3> QED BY <1>2, <3>1 DEF FrameTypes
  <2>2. Count(r, tx_queue') = b + (IF r = q THEN 1 ELSE 0)
    BY <1>5, <1>8 DEF TxSums
  <2>3. /\ TxServ!Taken(r)' = a /\ Count(r, tx_inbox') = i
        /\ Count(TxServ!Frame("declare", r), tx_wire') = d
        /\ Count(TxServ!Frame("discharge", r), tx_wire') = g
        /\ tx_open' = tx_open
    BY <1>3, <1>8 DEF TxSums, TxServ!Taken
  <2>4. /\ a + b + i + d + (IF r \in tx_open THEN 1 ELSE 0) + e
             = IF TxServ!Asked(r) THEN 1 ELSE 0
        /\ f + g = IF r \in tx_open THEN 1 ELSE 0
    BY <1>8 DEF TxSums
  <2> QED BY <2>1, <2>2, <2>3, <2>4 DEF TxSumsNext
<1> QED BY <1>3, <1>6, <1>7, <1>8, TxKeeps

LEMMA TxNodeHandsOutStep == TxInv /\ TxServ!NodeHandsOut => TxInv'
<1> SUFFICES ASSUME TxInv, TxServ!NodeHandsOut PROVE TxInv'
  OBVIOUS
<1>1. PICK q : q = Head(tx_queue)
  OBVIOUS
<1>2. /\ tx_queue /= <<>> /\ tx_queue' = Tail(tx_queue) /\ tx_inbox' = Append(tx_inbox, q)
      /\ UNCHANGED <<tx_wire, tx_replies, tx_open, tx_staged, tx_answers, tx_withheld,
                  tx_unanswered>>
      /\ UNCHANGED <<tx_call, tx_calling, tx_gaveUp>>
  BY <1>1 DEF TxServ!NodeHandsOut, TxServ!history, TxServ!txVars, TxServ!clientVars
<1>3. tx_queue \in Seq(TxServ!AllRequests) /\ tx_inbox \in Seq(TxServ!AllRequests)
  BY DEF TxInv, TxTypeInv
<1>4. q \in TxServ!AllRequests /\ tx_queue' \in Seq(TxServ!AllRequests)
  BY <1>1, <1>2, <1>3, HeadTaken
<1>5. \A r : /\ Count(r, tx_queue') \in Nat
             /\ Count(r, tx_queue) = Count(r, tx_queue') + (IF r = q THEN 1 ELSE 0)
  <2>1. \A r : Count(r, tx_queue') \in Nat
    BY <1>4, CountType
  <2>2. \A r : Count(r, tx_queue) = Count(r, tx_queue') + (IF r = q THEN 1 ELSE 0)
    BY <1>1, <1>2, <1>3, CountTaken
  <2> QED BY <2>1, <2>2
<1>6. /\ tx_inbox' \in Seq(TxServ!AllRequests)
      /\ \A r : Count(r, tx_inbox') = Count(r, tx_inbox) + (IF r = q THEN 1 ELSE 0)
  <2>1. Append(tx_inbox, q) \in Seq(TxServ!AllRequests)
    BY <1>3, <1>4, Added
  <2>2. \A r : Count(r, Append(tx_inbox, q)) = Count(r, tx_inbox) + (IF r = q THEN 1 ELSE 0)
    BY <1>3, <1>4, CountAdded
  <2> QED BY <1>2, <2>1, <2>2
<1>7. TxTypeInv'
  BY <1>2, <1>4, <1>6 DEF TxInv, TxTypeInv, TxServ!AllRequests, TxFrames
<1>8. SendsFirst'
  BY <1>2, SendsSame DEF TxInv
<1>9. ASSUME NEW r \in TxServ!AllRequests, NEW a \in Nat, NEW b \in Nat, NEW i \in Nat,
             NEW d \in Nat, NEW e \in Nat, NEW f \in Nat, NEW g \in Nat,
             TxSums(r, a, b, i, d, e, f, g)
      PROVE  TxSumsNext(r)
  <2>1. Count(r, tx_queue') = b - (IF r = q THEN 1 ELSE 0)
    BY <1>5, <1>9 DEF TxSums
  <2>2. Count(r, tx_inbox') = i + (IF r = q THEN 1 ELSE 0)
    BY <1>6, <1>9 DEF TxSums
  <2>3. /\ TxServ!Taken(r)' = a
        /\ Count(TxServ!Frame("declare", r), tx_wire') = d
        /\ Count(TxServ!Frame("failed", r), tx_replies') = e
        /\ Count(TxServ!Frame("declared", r), tx_replies') = f
        /\ Count(TxServ!Frame("discharge", r), tx_wire') = g
        /\ tx_open' = tx_open
    BY <1>2, <1>9 DEF TxSums, TxServ!Taken
  <2>4. /\ a + b + i + d + (IF r \in tx_open THEN 1 ELSE 0) + e
             = IF TxServ!Asked(r) THEN 1 ELSE 0
        /\ f + g = IF r \in tx_open THEN 1 ELSE 0
    BY <1>9 DEF TxSums
  <2> QED BY <2>1, <2>2, <2>3, <2>4 DEF TxSumsNext
<1> QED BY <1>2, <1>7, <1>8, <1>9, TxKeeps

LEMMA WireTaken ==
  ASSUME TxInv, NEW u \in FrameTypes, TxServ!NextFrame(u)
  PROVE  \E q \in TxServ!AllRequests :
           /\ Head(tx_wire).request = q /\ Head(tx_wire) = TxServ!Frame(u, q)
           /\ tx_wire' \in Seq(TxFrames)
           /\ \A t \in FrameTypes, r \in TxServ!AllRequests :
                /\ Count(TxServ!Frame(t, r), tx_wire') \in Nat
                /\ Count(TxServ!Frame(t, r), tx_wire)
                     = Count(TxServ!Frame(t, r), tx_wire') + (IF t = u /\ r = q THEN 1 ELSE 0)
<1>1. /\ tx_wire \in Seq(TxFrames) /\ tx_wire /= <<>>
      /\ Head(tx_wire).type = u /\ tx_wire' = Tail(tx_wire)
  BY DEF TxInv, TxTypeInv, TxServ!NextFrame
<1>2. PICK q \in TxServ!AllRequests :
        /\ Head(tx_wire).request = q /\ Head(tx_wire) = TxServ!Frame(u, q)
        /\ tx_wire' \in Seq(TxFrames)
        /\ \A t \in FrameTypes, r \in TxServ!AllRequests :
             Count(TxServ!Frame(t, r), tx_wire)
               = Count(TxServ!Frame(t, r), tx_wire') + (IF t = u /\ r = q THEN 1 ELSE 0)
  BY <1>1, FrameTaken
<1>3. \A x : Count(x, tx_wire') \in Nat
  BY <1>2, CountType
<1> QED BY <1>2, <1>3

LEMMA TxNodeDeclaresStep == TxInv /\ TxServ!NodeDeclares => TxInv'
<1> SUFFICES ASSUME TxInv, TxServ!NodeDeclares PROVE TxInv'
  OBVIOUS
<1>1. TxServ!NextFrame("declare")
  BY DEF TxServ!NodeDeclares, TxServ!history
<1>2. PICK q \in TxServ!AllRequests :
        /\ Head(tx_wire).request = q /\ Head(tx_wire) = TxServ!Frame("declare", q)
        /\ tx_wire' \in Seq(TxFrames)
        /\ \A t \in FrameTypes, r \in TxServ!AllRequests :
             /\ Count(TxServ!Frame(t, r), tx_wire') \in Nat
             /\ Count(TxServ!Frame(t, r), tx_wire)
                  = Count(TxServ!Frame(t, r), tx_wire')
                      + (IF t = "declare" /\ r = q THEN 1 ELSE 0)
  BY <1>1, WireTaken DEF FrameTypes
<1>3. /\ tx_open' = tx_open \union {q}
      /\ tx_replies' = Append(tx_replies, TxServ!Frame("declared", q))
      /\ UNCHANGED <<tx_queue, tx_inbox, tx_staged, tx_answers, tx_withheld,
                  tx_unanswered>>
      /\ UNCHANGED <<tx_call, tx_calling, tx_gaveUp>>
  BY <1>2 DEF TxServ!NodeDeclares, TxServ!history, TxServ!clientVars
<1>4. /\ tx_replies' \in Seq(TxFrames)
      /\ \A t \in FrameTypes, r \in TxServ!AllRequests :
           Count(TxServ!Frame(t, r), tx_replies')
             = Count(TxServ!Frame(t, r), tx_replies) + (IF t = "declared" /\ r = q THEN 1 ELSE 0)
  <2>1. tx_replies \in Seq(TxFrames)
    BY DEF TxInv, TxTypeInv
  <2> QED BY <1>3, <2>1, FrameAdded DEF FrameTypes
<1>5. IsFiniteSet(tx_open')
  BY <1>3, FS_AddElement DEF TxInv, TxTypeInv
<1>6. TxTypeInv'
  BY <1>2, <1>3, <1>4, <1>5 DEF TxInv, TxTypeInv, TxServ!AllRequests, TxFrames
<1>7. SendsFirst'
  <2>1. /\ tx_wire \in Seq(TxFrames) /\ tx_wire /= <<>> /\ tx_wire' = Tail(tx_wire)
    BY <1>1 DEF TxInv, TxTypeInv, TxServ!NextFrame
  <2>2. \A r : Head(tx_wire) /= TxServ!Frame("send", r)
    BY <1>2 DEF TxServ!Frame
  <2>3. SendsFirst
    BY DEF TxInv
  <2> QED BY <1>3, <2>1, <2>2, <2>3, SendsTaken
<1>8. ASSUME NEW r \in TxServ!AllRequests, NEW a \in Nat, NEW b \in Nat, NEW i \in Nat,
             NEW d \in Nat, NEW e \in Nat, NEW f \in Nat, NEW g \in Nat,
             TxSums(r, a, b, i, d, e, f, g)
      PROVE  TxSumsNext(r)
  <2>1. /\ a + b + i + d + (IF r \in tx_open THEN 1 ELSE 0) + e
             = IF TxServ!Asked(r) THEN 1 ELSE 0
        /\ f + g = IF r \in tx_open THEN 1 ELSE 0
    BY <1>8 DEF TxSums
  <2>2. /\ d = Count(TxServ!Frame("declare", r), tx_wire)
        /\ g = Count(TxServ!Frame("discharge", r), tx_wire)
        /\ e = Count(TxServ!Frame("failed", r), tx_replies)
        /\ f = Count(TxServ!Frame("declared", r), tx_replies)
    BY <1>8 DEF TxSums
  <2>3. PICK m \in Nat : m = Count(TxServ!Frame("declare", r), tx_wire')
    BY <1>2 DEF FrameTypes
  <2>4. d = m + (IF r = q THEN 1 ELSE 0)
    BY <1>2, <2>2, <2>3 DEF FrameTypes
  <2>5. Count(TxServ!Frame("discharge", r), tx_wire') = g
    BY <1>2, <2>2 DEF FrameTypes
  <2>6. /\ Count(TxServ!Frame("failed", r), tx_replies') = e
        /\ Count(TxServ!Frame("declared", r), tx_replies') = f + (IF r = q THEN 1 ELSE 0)
    BY <1>4, <2>2 DEF FrameTypes
  <2>7. /\ TxServ!Taken(r)' = a /\ Count(r, tx_queue') = b /\ Count(r, tx_inbox') = i
    BY <1>3, <1>8 DEF TxSums, TxServ!Taken
  <2>8. r = q => r \notin tx_open
    BY <2>1, <2>4
  <2>9. (IF r \in tx_open' THEN 1 ELSE 0)
          = (IF r \in tx_open THEN 1 ELSE 0) + (IF r = q THEN 1 ELSE 0)
    BY <1>3, <2>8
  <2>10. /\ a + b + i + m + (IF r \in tx_open' THEN 1 ELSE 0) + e
              = IF TxServ!Asked(r) THEN 1 ELSE 0
         /\ (f + (IF r = q THEN 1 ELSE 0)) + g = IF r \in tx_open' THEN 1 ELSE 0
    BY <2>1, <2>4, <2>9
  <2> QED BY <2>3, <2>5, <2>6, <2>7, <2>10 DEF TxSumsNext
<1> QED BY <1>3, <1>6, <1>7, <1>8, TxKeeps

LEMMA TxNodeStagesStep == TxInv /\ TxServ!NodeStages => TxInv'
<1> SUFFICES ASSUME TxInv, TxServ!NodeStages PROVE TxInv'
  OBVIOUS
<1>1. PICK u \in {"send", "accept"} : TxServ!NextFrame(u)
  BY DEF TxServ!NodeStages, TxServ!history
<1>2. PICK q \in TxServ!AllRequests :
        /\ Head(tx_wire).request = q /\ Head(tx_wire) = TxServ!Frame(u, q)
        /\ tx_wire' \in Seq(TxFrames)
        /\ \A t \in FrameTypes, r \in TxServ!AllRequests :
             /\ Count(TxServ!Frame(t, r), tx_wire') \in Nat
             /\ Count(TxServ!Frame(t, r), tx_wire)
                  = Count(TxServ!Frame(t, r), tx_wire') + (IF t = u /\ r = q THEN 1 ELSE 0)
  BY <1>1, WireTaken DEF FrameTypes
<1>3. /\ tx_staged' = tx_staged \union {Head(tx_wire)}
      /\ UNCHANGED <<tx_queue, tx_inbox, tx_replies, tx_open, tx_answers, tx_withheld,
                  tx_unanswered>>
      /\ UNCHANGED <<tx_call, tx_calling, tx_gaveUp>>
  BY DEF TxServ!NodeStages, TxServ!history, TxServ!clientVars
<1>4. TxTypeInv'
  BY <1>2, <1>3 DEF TxInv, TxTypeInv, TxServ!AllRequests, TxFrames
<1>5. SendsFirst'
  <2>1. /\ tx_wire \in Seq(TxFrames) /\ tx_wire /= <<>> /\ tx_wire' = Tail(tx_wire)
    BY <1>1 DEF TxInv, TxTypeInv, TxServ!NextFrame
  <2>2. SendsFirst
    BY DEF TxInv
  <2> QED BY <1>3, <2>1, <2>2, SendsTaken
<1>6. ASSUME NEW r \in TxServ!AllRequests, NEW a \in Nat, NEW b \in Nat, NEW i \in Nat,
             NEW d \in Nat, NEW e \in Nat, NEW f \in Nat, NEW g \in Nat,
             TxSums(r, a, b, i, d, e, f, g)
      PROVE  TxSumsNext(r)
  <2>1. /\ Count(TxServ!Frame("declare", r), tx_wire') = d
        /\ Count(TxServ!Frame("discharge", r), tx_wire') = g
    <3>1. /\ d = Count(TxServ!Frame("declare", r), tx_wire)
          /\ g = Count(TxServ!Frame("discharge", r), tx_wire)
      BY <1>6 DEF TxSums
    <3>2. u /= "declare" /\ u /= "discharge"
      OBVIOUS
    <3> QED BY <1>2, <3>1, <3>2 DEF FrameTypes
  <2>2. /\ TxServ!Taken(r)' = a /\ Count(r, tx_queue') = b /\ Count(r, tx_inbox') = i
        /\ Count(TxServ!Frame("failed", r), tx_replies') = e
        /\ Count(TxServ!Frame("declared", r), tx_replies') = f
        /\ tx_open' = tx_open
    BY <1>3, <1>6 DEF TxSums, TxServ!Taken
  <2>3. /\ a + b + i + d + (IF r \in tx_open THEN 1 ELSE 0) + e
             = IF TxServ!Asked(r) THEN 1 ELSE 0
        /\ f + g = IF r \in tx_open THEN 1 ELSE 0
    BY <1>6 DEF TxSums
  <2> QED BY <2>1, <2>2, <2>3 DEF TxSumsNext
<1> QED BY <1>3, <1>4, <1>5, <1>6, TxKeeps

LEMMA TxNodeDischargesStep == TxInv /\ TxServ!NodeDischarges => TxInv'
<1> SUFFICES ASSUME TxInv, TxServ!NodeDischarges PROVE TxInv'
  OBVIOUS
<1>1. TxServ!NextFrame("discharge")
  BY DEF TxServ!NodeDischarges, TxServ!history
<1>2. PICK q \in TxServ!AllRequests :
        /\ Head(tx_wire).request = q /\ Head(tx_wire) = TxServ!Frame("discharge", q)
        /\ tx_wire' \in Seq(TxFrames)
        /\ \A t \in FrameTypes, r \in TxServ!AllRequests :
             /\ Count(TxServ!Frame(t, r), tx_wire') \in Nat
             /\ Count(TxServ!Frame(t, r), tx_wire)
                  = Count(TxServ!Frame(t, r), tx_wire')
                      + (IF t = "discharge" /\ r = q THEN 1 ELSE 0)
  BY <1>1, WireTaken DEF FrameTypes
<1>3. /\ tx_wire \in Seq(TxFrames) /\ tx_wire /= <<>> /\ tx_wire' = Tail(tx_wire)
      /\ tx_replies \in Seq(TxFrames)
  BY <1>1 DEF TxInv, TxTypeInv, TxServ!NextFrame
<1>4. UNCHANGED <<tx_queue, tx_inbox>> /\ UNCHANGED <<tx_call, tx_calling, tx_gaveUp>>
  BY DEF TxServ!NodeDischarges, TxServ!history, TxServ!clientVars
<1>5. /\ tx_open' = tx_open \ {q}
      /\ tx_staged' = {frame \in tx_staged : frame.request /= q}
  BY <1>2 DEF TxServ!NodeDischarges, TxServ!history
\* The transaction is open, and no other frame discharges it.
<1>6. q \in tx_open /\ \A k \in DOMAIN tx_wire' : tx_wire'[k] /= TxServ!Frame("discharge", q)
  <2>1. PICK a, b, i, d, e, f, g \in Nat : TxSums(q, a, b, i, d, e, f, g)
    BY TxSum
  <2>2. f + g = (IF q \in tx_open THEN 1 ELSE 0) /\ g = Count(TxServ!Frame("discharge", q), tx_wire)
    BY <2>1 DEF TxSums
  <2>3. PICK m \in Nat : m = Count(TxServ!Frame("discharge", q), tx_wire')
    BY <1>2 DEF FrameTypes
  <2>4. g = m + 1
    BY <1>2, <2>2, <2>3 DEF FrameTypes
  <2>5. q \in tx_open /\ m = 0
    BY <2>2, <2>4
  <2> QED BY <1>2, <2>3, <2>5, CountType
\* The answer is among what the transaction holds, if it found credit.
<1>7. TxServ!Frame("send", q) \in tx_staged \/ q \in tx_withheld
  <2>1. 1 \in DOMAIN tx_wire /\ tx_wire[1] = TxServ!Frame("discharge", q)
    BY <1>2, <1>3
  <2>2. SendsFirst
    BY DEF TxInv
  <2>3. \/ TxServ!Frame("send", q) \in tx_staged \/ q \in tx_withheld
        \/ \E j \in 1..(1 - 1) : tx_wire[j] = TxServ!Frame("send", q)
    BY <2>1, <2>2 DEF SendsFirst
  <2> QED BY <2>3
<1>8. PICK u \in {"committed", "failed"} :
        /\ tx_replies' = Append(tx_replies, TxServ!Frame(u, q))
        /\ tx_withheld' = tx_withheld
        /\ \/ /\ u = "committed" /\ tx_unanswered' = tx_unanswered
              /\ tx_answers' = [tx_answers EXCEPT ![q] = @ + 1]
           \/ /\ u = "committed" /\ tx_unanswered' = tx_unanswered \union {q}
              /\ tx_answers' = tx_answers /\ q \in tx_withheld
           \/ u = "failed" /\ tx_answers' = tx_answers /\ tx_unanswered' = tx_unanswered
  BY <1>2, <1>7 DEF TxServ!NodeDischarges
<1>9. /\ tx_replies' \in Seq(TxFrames)
      /\ \A t \in FrameTypes, r \in TxServ!AllRequests :
           Count(TxServ!Frame(t, r), tx_replies')
             = Count(TxServ!Frame(t, r), tx_replies) + (IF t = u /\ r = q THEN 1 ELSE 0)
  BY <1>3, <1>8, FrameAdded DEF FrameTypes
<1>10. /\ tx_answers' \in [TxServ!AllRequests -> Nat] /\ tx_unanswered' \subseteq tx_withheld'
       /\ \A r \in TxServ!AllRequests :
            TxServ!Taken(r)' = TxServ!Taken(r) + (IF u = "committed" /\ r = q THEN 1 ELSE 0)
  <2>1. tx_answers \in [TxServ!AllRequests -> Nat] /\ tx_unanswered \subseteq tx_withheld
    BY DEF TxInv, TxTypeInv
  <2>2. q \notin tx_unanswered
    <3>1. PICK a, b, i, d, e, f, g \in Nat : TxSums(q, a, b, i, d, e, f, g)
      BY TxSum
    <3>2. a = 0 /\ a = TxServ!Taken(q)
      <4>1. /\ a = TxServ!Taken(q)
            /\ a + b + i + d + (IF q \in tx_open THEN 1 ELSE 0) + e
                 = IF TxServ!Asked(q) THEN 1 ELSE 0
        BY <3>1 DEF TxSums
      <4>2. a + b + i + d + 1 + e <= 1
        BY <1>6, <4>1
      <4> QED BY <4>1, <4>2
    <3>3. tx_answers[q] \in Nat
      BY <2>1
    <3> QED BY <3>2, <3>3 DEF TxServ!Taken
  <2>3. \A r \in TxServ!AllRequests : tx_answers[r] \in Nat
    BY <2>1
  <2>4. tx_answers' \in [TxServ!AllRequests -> Nat] /\ tx_unanswered' \subseteq tx_withheld'
    BY <1>8, <2>1
  <2>5. ASSUME NEW r \in TxServ!AllRequests
        PROVE  TxServ!Taken(r)' = TxServ!Taken(r) + (IF u = "committed" /\ r = q THEN 1 ELSE 0)
    <3>1. tx_answers[r] \in Nat
      BY <2>3
    <3> QED BY <1>8, <2>1, <2>2, <3>1 DEF TxServ!Taken
  <2> QED BY <2>4, <2>5
<1>11. IsFiniteSet(tx_open')
  BY <1>5, FS_Subset DEF TxInv, TxTypeInv
<1>12. TxTypeInv'
  BY <1>2, <1>4, <1>5, <1>9, <1>10, <1>11 DEF TxInv, TxTypeInv, TxServ!AllRequests, TxFrames
<1>13. SendsFirst'
  <2>1. SendsFirst
    BY DEF TxInv
  <2>2. ASSUME NEW r \in TxServ!AllRequests, NEW k \in DOMAIN tx_wire',
               tx_wire'[k] = TxServ!Frame("discharge", r),
               \/ TxServ!Frame("send", r) \in tx_staged
               \/ Head(tx_wire) = TxServ!Frame("send", r)
        PROVE  TxServ!Frame("send", r) \in tx_staged'
    <3>1. r /= q
      BY <1>6, <2>2
    <3>2. Head(tx_wire) /= TxServ!Frame("send", r) /\ TxServ!Frame("send", r).request = r
      BY <1>2 DEF TxServ!Frame
    <3> QED BY <1>5, <2>2, <3>1, <3>2
  <2> QED BY <1>3, <1>8, <2>1, <2>2, SendsTaken
<1>14. ASSUME NEW r \in TxServ!AllRequests, NEW a \in Nat, NEW b \in Nat, NEW i \in Nat,
              NEW d \in Nat, NEW e \in Nat, NEW f \in Nat, NEW g \in Nat,
              TxSums(r, a, b, i, d, e, f, g)
       PROVE  TxSumsNext(r)
  <2>1. /\ a + b + i + d + (IF r \in tx_open THEN 1 ELSE 0) + e
             = IF TxServ!Asked(r) THEN 1 ELSE 0
        /\ f + g = IF r \in tx_open THEN 1 ELSE 0
    BY <1>14 DEF TxSums
  <2>2. /\ d = Count(TxServ!Frame("declare", r), tx_wire)
        /\ g = Count(TxServ!Frame("discharge", r), tx_wire)
        /\ e = Count(TxServ!Frame("failed", r), tx_replies)
        /\ f = Count(TxServ!Frame("declared", r), tx_replies)
    BY <1>14 DEF TxSums
  <2>3. PICK m \in Nat : m = Count(TxServ!Frame("discharge", r), tx_wire')
    BY <1>2 DEF FrameTypes
  <2>4. g = m + (IF r = q THEN 1 ELSE 0)
    BY <1>2, <2>2, <2>3 DEF FrameTypes
  <2>5. Count(TxServ!Frame("declare", r), tx_wire') = d
    BY <1>2, <2>2 DEF FrameTypes
  <2>6. /\ Count(TxServ!Frame("failed", r), tx_replies')
             = e + (IF u = "failed" /\ r = q THEN 1 ELSE 0)
        /\ Count(TxServ!Frame("declared", r), tx_replies') = f
    <3>1. Count(TxServ!Frame("failed", r), tx_replies')
            = e + (IF u = "failed" /\ r = q THEN 1 ELSE 0)
      BY <1>9, <2>2 DEF FrameTypes
    <3>2. Count(TxServ!Frame("declared", r), tx_replies') = f
      BY <1>9, <2>2 DEF FrameTypes
    <3> QED BY <3>1, <3>2
  <2>7. /\ Count(r, tx_queue') = b /\ Count(r, tx_inbox') = i
        /\ TxServ!Taken(r)' = a + (IF u = "committed" /\ r = q THEN 1 ELSE 0)
    BY <1>4, <1>10, <1>14 DEF TxSums
  <2>8. (IF r \in tx_open THEN 1 ELSE 0)
          = (IF r \in tx_open' THEN 1 ELSE 0) + (IF r = q THEN 1 ELSE 0)
    BY <1>5, <1>6
  <2>9. (IF u = "committed" /\ r = q THEN 1 ELSE 0) + (IF u = "failed" /\ r = q THEN 1 ELSE 0)
          = IF r = q THEN 1 ELSE 0
    OBVIOUS
  <2>10. /\ (a + (IF u = "committed" /\ r = q THEN 1 ELSE 0)) + b + i + d
              + (IF r \in tx_open' THEN 1 ELSE 0)
              + (e + (IF u = "failed" /\ r = q THEN 1 ELSE 0))
                = IF TxServ!Asked(r) THEN 1 ELSE 0
         /\ f + m = IF r \in tx_open' THEN 1 ELSE 0
    BY <2>1, <2>4, <2>8, <2>9
  <2> QED BY <2>3, <2>5, <2>6, <2>7, <2>10 DEF TxSumsNext
<1> QED BY <1>4, <1>12, <1>13, <1>14, TxKeeps

\* The requests of the frames of a type.
LEMMA RequestsOf ==
  ASSUME NEW s \in Seq(TxFrames), NEW u \in FrameTypes, NEW R,
         R = {s[k].request : k \in {j \in DOMAIN s : s[j].type = u}}
  PROVE  /\ IsFiniteSet(R) /\ R \subseteq TxServ!AllRequests
         /\ \A r \in TxServ!AllRequests : r \in R <=> Count(TxServ!Frame(u, r), s) > 0
<1> DEFINE K == {j \in DOMAIN s : s[j].type = u}
           h == [k \in K |-> s[k].request]
<1>1. /\ Len(s) \in Nat /\ DOMAIN s = 1..Len(s) /\ \A k \in DOMAIN s : s[k] \in TxFrames
  OBVIOUS
<1>2. IsFiniteSet(K)
  <2>1. K \subseteq 1..Len(s) /\ IsFiniteSet(1..Len(s))
    BY <1>1, FS_Interval
  <2> QED BY <2>1, FS_Subset
<1>3. h \in Surjection(K, R)
  <2>1. \A k \in K : h[k] \in R
    OBVIOUS
  <2>2. \A r \in R : \E k \in K : h[k] = r
    OBVIOUS
  <2> HIDE DEF K
  <2> QED BY <2>1, <2>2 DEF Surjection
<1>4. IsFiniteSet(R)
  <2> HIDE DEF K, h
  <2> QED BY <1>2, <1>3, FS_Surjection
<1>5. R \subseteq TxServ!AllRequests
  BY <1>1 DEF TxFrames
<1>6. ASSUME NEW r \in TxServ!AllRequests
      PROVE  r \in R <=> Count(TxServ!Frame(u, r), s) > 0
  <2>1. r \in R <=> \E k \in DOMAIN s : s[k].type = u /\ s[k].request = r
    OBVIOUS
  <2>2. \A k \in DOMAIN s : s[k].type = u /\ s[k].request = r <=> s[k] = TxServ!Frame(u, r)
    BY <1>1, FramesAre
  <2>3. /\ Count(TxServ!Frame(u, r), s) \in Nat
        /\ Count(TxServ!Frame(u, r), s) = 0 <=> \A k \in DOMAIN s : s[k] /= TxServ!Frame(u, r)
    BY CountType
  <2> QED BY <2>1, <2>2, <2>3
<1> QED BY <1>4, <1>5, <1>6

\* What is not settled is finite, and each request of it is at one place.
LEMMA UnsettledIs ==
  ASSUME TxInv
  PROVE  /\ IsFiniteSet(TxServ!Unsettled) /\ TxServ!Unsettled \subseteq TxServ!AllRequests
         /\ \A r \in TxServ!AllRequests :
              Count(r, tx_inbox) + Count(TxServ!Frame("declare", r), tx_wire)
                + (IF r \in tx_open THEN 1 ELSE 0) + Count(TxServ!Frame("failed", r), tx_replies)
                  = IF r \in TxServ!Unsettled THEN 1 ELSE 0
<1>1. PICK D : D = {tx_wire[k].request : k \in {j \in DOMAIN tx_wire : tx_wire[j].type = "declare"}}
  OBVIOUS
<1>2. PICK E : E = {tx_replies[k].request :
                      k \in {j \in DOMAIN tx_replies : tx_replies[j].type = "failed"}}
  OBVIOUS
<1>3. TxServ!Unsettled = Elements(tx_inbox) \union tx_open \union D \union E
  BY <1>1, <1>2 DEF TxServ!Unsettled, Elements
<1>4. /\ tx_inbox \in Seq(TxServ!AllRequests)
      /\ tx_wire \in Seq(TxFrames) /\ tx_replies \in Seq(TxFrames)
      /\ IsFiniteSet(tx_open) /\ tx_open \subseteq TxServ!AllRequests
  BY DEF TxInv, TxTypeInv
<1>5. /\ IsFiniteSet(D) /\ D \subseteq TxServ!AllRequests
      /\ \A r \in TxServ!AllRequests : r \in D <=> Count(TxServ!Frame("declare", r), tx_wire) > 0
  <2>1. "declare" \in FrameTypes
    BY DEF FrameTypes
  <2> QED BY <1>1, <1>4, <2>1, RequestsOf
<1>6. /\ IsFiniteSet(E) /\ E \subseteq TxServ!AllRequests
      /\ \A r \in TxServ!AllRequests : r \in E <=> Count(TxServ!Frame("failed", r), tx_replies) > 0
  <2>1. "failed" \in FrameTypes
    BY DEF FrameTypes
  <2> QED BY <1>2, <1>4, <2>1, RequestsOf
<1>7. /\ IsFiniteSet(Elements(tx_inbox)) /\ Elements(tx_inbox) \subseteq TxServ!AllRequests
      /\ \A r : r \in Elements(tx_inbox) <=> Count(r, tx_inbox) > 0
  <2>1. IsFiniteSet(Elements(tx_inbox))
    BY <1>4, Counted
  <2>2. Elements(tx_inbox) \subseteq TxServ!AllRequests
    BY <1>4 DEF Elements
  <2>3. \A r : /\ Count(r, tx_inbox) \in Nat
               /\ Count(r, tx_inbox) = 0 <=> \A k \in DOMAIN tx_inbox : tx_inbox[k] /= r
    BY <1>4, CountType
  <2>4. \A r : r \in Elements(tx_inbox) <=> \E k \in DOMAIN tx_inbox : tx_inbox[k] = r
    BY DEF Elements
  <2> QED BY <2>1, <2>2, <2>3, <2>4
<1>8. IsFiniteSet(TxServ!Unsettled)
  <2>1. IsFiniteSet(Elements(tx_inbox) \union tx_open)
    BY <1>4, <1>7, FS_Union
  <2>2. IsFiniteSet((Elements(tx_inbox) \union tx_open) \union D)
    BY <1>5, <2>1, FS_Union
  <2>3. IsFiniteSet(((Elements(tx_inbox) \union tx_open) \union D) \union E)
    BY <1>6, <2>2, FS_Union
  <2> QED BY <1>3, <2>3
<1>9. TxServ!Unsettled \subseteq TxServ!AllRequests
  BY <1>3, <1>4, <1>5, <1>6, <1>7
<1>10. ASSUME NEW r \in TxServ!AllRequests
       PROVE  Count(r, tx_inbox) + Count(TxServ!Frame("declare", r), tx_wire)
                + (IF r \in tx_open THEN 1 ELSE 0) + Count(TxServ!Frame("failed", r), tx_replies)
                  = IF r \in TxServ!Unsettled THEN 1 ELSE 0
  <2>1. PICK a, b, i, d, e, f, g \in Nat : TxSums(r, a, b, i, d, e, f, g)
    BY TxSum
  <2>2. a + b + i + d + (IF r \in tx_open THEN 1 ELSE 0) + e = IF TxServ!Asked(r) THEN 1 ELSE 0
    BY <2>1 DEF TxSums
  <2>3. /\ r \in Elements(tx_inbox) <=> i > 0
        /\ r \in D <=> d > 0
        /\ r \in E <=> e > 0
    BY <1>5, <1>6, <1>7, <2>1 DEF TxSums
  <2>4. r \in TxServ!Unsettled <=> i > 0 \/ r \in tx_open \/ d > 0 \/ e > 0
    BY <1>3, <2>3
  <2>5. i + d + (IF r \in tx_open THEN 1 ELSE 0) + e = IF r \in TxServ!Unsettled THEN 1 ELSE 0
    BY <2>2, <2>4
  <2> QED BY <2>1, <2>5 DEF TxSums
<1> QED BY <1>8, <1>9, <1>10

\* An injective sequence of as many elements as a set has holds each of them once.
LEMMA EachOfThem ==
  ASSUME NEW U, IsFiniteSet(U), NEW again \in [1..Cardinality(U) -> U],
         \A j, k \in DOMAIN again : again[j] = again[k] => j = k
  PROVE  /\ again \in Seq(U)
         /\ \A r : Count(r, again) = IF r \in U THEN 1 ELSE 0
<1>1. PICK n \in Nat : n = Cardinality(U)
  BY FS_CardinalityType
<1>2. again \in [1..n -> U] /\ DOMAIN again = 1..n
  BY <1>1
<1>3. again \in Seq(U)
  BY <1>2
<1>4. again \in Injection(1..n, U)
  BY <1>2 DEF Injection, IsInjective
<1>5. Cardinality(1..n) = n
  BY FS_Interval
<1>6. again \in Surjection(1..n, U)
  BY <1>1, <1>4, <1>5, FS_Injection
<1>7. \A r \in U : \E k \in 1..n : again[k] = r
  BY <1>6 DEF Surjection
<1>8. ASSUME NEW r PROVE Count(r, again) = IF r \in U THEN 1 ELSE 0
  <2>1. CASE r \in U
    <3>1. PICK k \in 1..n : again[k] = r
      BY <1>7, <2>1
    <3>2. PlacesOf(r, again) = {k}
      BY <1>2, <3>1 DEF PlacesOf
    <3> QED BY <2>1, <3>2, FS_Singleton DEF Count
  <2>2. CASE r \notin U
    <3>1. PlacesOf(r, again) = {}
      BY <1>2, <2>2 DEF PlacesOf
    <3> QED BY <2>2, <3>1, FS_EmptySet DEF Count
  <2> QED BY <2>1, <2>2
<1> QED BY <1>3, <1>8

LEMMA TxCrashStep == TxInv /\ TxServ!Crash => TxInv'
<1> SUFFICES ASSUME TxInv, TxServ!Crash PROVE TxInv'
  OBVIOUS
<1>1. PICK U : U = TxServ!Unsettled
  OBVIOUS
<1>2. /\ IsFiniteSet(U) /\ U \subseteq TxServ!AllRequests
      /\ \A r \in TxServ!AllRequests :
           Count(r, tx_inbox) + Count(TxServ!Frame("declare", r), tx_wire)
             + (IF r \in tx_open THEN 1 ELSE 0) + Count(TxServ!Frame("failed", r), tx_replies)
               = IF r \in U THEN 1 ELSE 0
  BY <1>1, UnsettledIs
<1>3. PICK again \in [1..Cardinality(U) -> U] :
        /\ \A j, k \in DOMAIN again : again[j] = again[k] => j = k
        /\ tx_queue' = again \o tx_queue
  <2>1. TxServ!Cardinality(TxServ!Unsettled) = Cardinality(U)
    BY <1>1, Zenon DEF TxServ!Cardinality, Cardinality
  <2> QED BY <1>1, <2>1 DEF TxServ!Crash
<1>4. /\ tx_inbox' = <<>> /\ tx_wire' = <<>> /\ tx_replies' = <<>>
      /\ tx_open' = {} /\ tx_staged' = {}
      /\ UNCHANGED <<tx_answers, tx_withheld, tx_unanswered>>
      /\ UNCHANGED <<tx_call, tx_calling, tx_gaveUp>>
  BY DEF TxServ!Crash, TxServ!history, TxServ!clientVars
<1>5. /\ again \in Seq(U)
      /\ \A r : Count(r, again) = IF r \in U THEN 1 ELSE 0
  BY <1>2, <1>3, EachOfThem
<1>6. again \in Seq(TxServ!AllRequests) /\ tx_queue \in Seq(TxServ!AllRequests)
  BY <1>2, <1>5 DEF TxInv, TxTypeInv
<1>7. /\ tx_queue' \in Seq(TxServ!AllRequests)
      /\ \A r : Count(r, tx_queue') = Count(r, again) + Count(r, tx_queue)
  <2>1. again \o tx_queue \in Seq(TxServ!AllRequests)
    BY <1>6, Joined
  <2>2. \A r : Count(r, again \o tx_queue) = Count(r, again) + Count(r, tx_queue)
    BY <1>6, CountJoined
  <2> QED BY <1>3, <2>1, <2>2
<1>8. TxTypeInv'
  BY <1>4, <1>7, FS_EmptySet DEF TxInv, TxTypeInv, TxServ!AllRequests, TxFrames
<1>9. SendsFirst'
  BY <1>4 DEF SendsFirst
<1>10. ASSUME NEW r \in TxServ!AllRequests, NEW a \in Nat, NEW b \in Nat, NEW i \in Nat,
              NEW d \in Nat, NEW e \in Nat, NEW f \in Nat, NEW g \in Nat,
              TxSums(r, a, b, i, d, e, f, g)
       PROVE  TxSumsNext(r)
  <2>1. a + b + i + d + (IF r \in tx_open THEN 1 ELSE 0) + e = IF TxServ!Asked(r) THEN 1 ELSE 0
    BY <1>10 DEF TxSums
  <2>2. i + d + (IF r \in tx_open THEN 1 ELSE 0) + e = IF r \in U THEN 1 ELSE 0
    BY <1>2, <1>10 DEF TxSums
  <2>3. Count(r, tx_queue') = (IF r \in U THEN 1 ELSE 0) + b
    BY <1>5, <1>7, <1>10 DEF TxSums
  <2>4. /\ Count(r, tx_inbox') = 0
        /\ Count(TxServ!Frame("declare", r), tx_wire') = 0
        /\ Count(TxServ!Frame("discharge", r), tx_wire') = 0
        /\ Count(TxServ!Frame("failed", r), tx_replies') = 0
        /\ Count(TxServ!Frame("declared", r), tx_replies') = 0
    BY <1>4, CountNone
  <2>5. TxServ!Taken(r)' = a /\ r \notin tx_open'
    BY <1>4, <1>10 DEF TxSums, TxServ!Taken
  <2>6. a + ((IF r \in U THEN 1 ELSE 0) + b) = IF TxServ!Asked(r) THEN 1 ELSE 0
    BY <2>1, <2>2
  <2> QED BY <2>3, <2>4, <2>5, <2>6 DEF TxSumsNext
<1> QED BY <1>4, <1>8, <1>9, <1>10, TxKeeps

LEMMA TxStep == TxInv /\ [TxServ!Next]_TxServ!vars => TxInv'
<1> SUFFICES ASSUME TxInv, [TxServ!Next]_TxServ!vars PROVE TxInv'
  OBVIOUS
<1>1. ASSUME NEW c \in TxClients, TxServ!Call(c) \/ TxServ!CallReturns(c) \/ TxServ!TimesOut(c)
      PROVE  TxInv'
  BY <1>1, TxCallStep, TxClientStep
<1>2. CASE TxServ!Server
  BY <1>2, TxOnMessageStep, TxOnTransactionDeclaredStep, TxOnTransactionCommittedStep,
     TxOnCommitFailedStep DEF TxServ!Server
<1>3. CASE TxServ!Crash \/ TxServ!NodeHandsOut
  BY <1>3, TxCrashStep, TxNodeHandsOutStep
<1>4. CASE TxServ!Node
  BY <1>4, TxNodeDeclaresStep, TxNodeStagesStep, TxNodeDischargesStep DEF TxServ!Node
<1>5. CASE UNCHANGED TxServ!vars
  <2>1. /\ UNCHANGED <<tx_queue, tx_inbox, tx_wire, tx_replies, tx_open, tx_staged, tx_answers, tx_withheld,
                  tx_unanswered>>
        /\ UNCHANGED <<tx_call, tx_calling, tx_gaveUp>>
    BY <1>5 DEF TxServ!vars, TxServ!clientVars, TxServ!serverVars, TxServ!txVars,
       TxServ!history
  <2>2. TxTypeInv'
    BY <2>1 DEF TxInv, TxTypeInv, TxServ!AllRequests, TxFrames
  <2>3. SendsFirst'
    BY <2>1, SendsSame DEF TxInv
  <2>4. ASSUME NEW r \in TxServ!AllRequests, NEW a \in Nat, NEW b \in Nat, NEW i \in Nat,
               NEW d \in Nat, NEW e \in Nat, NEW f \in Nat, NEW g \in Nat,
               TxSums(r, a, b, i, d, e, f, g)
        PROVE  TxSumsNext(r)
    BY <2>1, <2>4 DEF TxSums, TxSumsNext, TxServ!Taken
  <2> QED BY <2>1, <2>2, <2>3, <2>4, TxKeeps
<1> QED BY <1>1, <1>2, <1>3, <1>4, <1>5 DEF TxServ!Next

\* Wherever server_tx.py crashes and whatever the node refuses to commit, a request
\* that a client made was answered once, or it is at exactly one place from which it
\* will be; no request is answered that was not made.
THEOREM AnsweredOnceHolds == Spec => []AnsweredOnce
<1>1. Init => TxInv
  BY TxStart
<1>2. TxInv /\ [Next]_vars => TxInv'
  BY TxStep, Runs
<1>3. ASSUME TxInv PROVE AnsweredOnce
  <2>1. ASSUME NEW r \in TxServ!AllRequests
        PROVE  TxServ!Taken(r) + TxServ!Copies(r) = IF TxServ!Asked(r) THEN 1 ELSE 0
    <3>1. PICK a, b, i, d, e, f, g \in Nat : TxSums(r, a, b, i, d, e, f, g)
      BY <1>3, TxSum
    <3>2. i + d + (IF r \in tx_open THEN 1 ELSE 0) + e
            = IF r \in TxServ!Unsettled THEN 1 ELSE 0
      <4>1. Count(r, tx_inbox) + Count(TxServ!Frame("declare", r), tx_wire)
              + (IF r \in tx_open THEN 1 ELSE 0) + Count(TxServ!Frame("failed", r), tx_replies)
                = IF r \in TxServ!Unsettled THEN 1 ELSE 0
        BY <1>3, UnsettledIs
      <4> QED BY <3>1, <4>1 DEF TxSums
    <3>3. a + b + (IF r \in TxServ!Unsettled THEN 1 ELSE 0) = IF TxServ!Asked(r) THEN 1 ELSE 0
      BY <3>1, <3>2 DEF TxSums
    <3>4. TxServ!Cardinality({k \in DOMAIN tx_queue : tx_queue[k] = r}) = Count(r, tx_queue)
      BY Zenon DEF TxServ!Cardinality, Cardinality, Count, PlacesOf
    <3>5. TxServ!Copies(r) = b + (IF r \in TxServ!Unsettled THEN 1 ELSE 0)
      BY <3>1, <3>4 DEF TxSums, TxServ!Copies
    <3> QED BY <3>1, <3>3, <3>5 DEF TxSums
  <2>2. tx_unanswered \subseteq tx_withheld
    BY <1>3 DEF TxInv, TxTypeInv
  <2> QED BY <2>1, <2>2 DEF AnsweredOnce, TxServ!AnsweredOnce
<1> QED BY <1>1, <1>2, <1>3, PTL DEF Spec


-----------------------------------------------------------------------------
(* The commands of tx_recv_interactive.py take effect. *)

ConMessages == Console!Messages

ConFrames ==
  [type : {"declare", "flow", "close"}]
    \union [type : {"accept"}, tx : Nat, message : ConMessages]
    \union [type : {"discharge"}, tx : Nat, commit : BOOLEAN, n : Nat]

ConReplies ==
  [type : {"declared"}, tx : Nat]
    \union [type : {"message"}, message : ConMessages]
    \union [type : {"committed", "aborted", "refused"}, n : Nat]

ConTypeInv ==
  /\ con_transaction \in Nat /\ con_discharged \in Nat /\ con_discharges \in Nat
  /\ con_open \in Nat /\ con_declared \in Nat /\ con_credit \in Nat
  /\ con_alive \in BOOLEAN
  /\ con_wire \in Seq(ConFrames) /\ con_replies \in Seq(ConReplies)
  /\ con_staged \subseteq ConMessages /\ con_consumed \subseteq ConMessages
  /\ con_waiting \subseteq ConMessages

\* Messages that are accepted, or handed out, by what is on its way.
AcceptedIn(w) == {m \in ConMessages : \E f \in Elements(w) : f.type = "accept" /\ f.message = m}

ComingIn(r) == {m \in ConMessages : \E f \in Elements(r) : f.type = "message" /\ f.message = m}

\* What the program's transaction accepts, when the node has read it all.
Held == con_staged \union AcceptedIn(con_wire)

Coming == ComingIn(con_replies)

\* Acceptances and discharges name the open transaction, only acceptances come
\* before a discharge, and nothing but the end of the connection after it.
WireInv ==
  \A k \in DOMAIN con_wire :
    /\ con_wire[k].type = "accept" => con_wire[k].tx = con_open
    /\ con_wire[k].type = "discharge" =>
         /\ con_wire[k].tx = con_open /\ con_wire[k].n = con_discharges
         /\ \A j \in DOMAIN con_wire : /\ j < k => con_wire[j].type = "accept"
                                       /\ j > k => con_wire[j].type = "close"
    /\ con_wire[k].type = "declare" =>
         /\ k = 1
         /\ \A j \in DOMAIN con_wire : j > 1 => con_wire[j].type = "close"
    /\ con_wire[k].type = "close" <=> ~con_alive /\ k = Len(con_wire)

Committing == \E f \in Elements(con_wire) : f.type = "discharge" /\ f.commit

\* A commit on its way adds to what is consumed what its transaction accepts.
KeptInv == con_kept = IF Committing THEN con_consumed \union Held ELSE con_consumed

ClosedInv ==
  ~con_alive /\ con_wire = <<>> =>
    con_staged = {} /\ con_waiting = ConMessages \ con_consumed /\ con_credit = 0

AccountsInv ==
  /\ con_waiting = ConMessages \ (con_consumed \union Held \union Coming)
  /\ con_consumed \intersect (Held \union Coming) = {}

\* Where the program is with its transaction.
Quiet ==
  con_transaction = con_discharged /\ con_credit = 0 /\ con_fetches = 0 /\ con_shown = {}

Declaring ==
  /\ Quiet /\ con_staged = {} /\ con_discharged <= con_declared
  /\ con_wire = <<[type |-> "declare"]>> /\ con_replies = <<>>

Declared ==
  /\ Quiet /\ con_staged = {} /\ con_discharged < con_declared /\ con_open = con_declared
  /\ con_wire = <<>> /\ con_replies = <<[type |-> "declared", tx |-> con_declared]>>

InTransaction ==
  /\ con_discharged < con_transaction
  /\ con_transaction = con_open /\ con_open = con_declared
  /\ \A f \in Elements(con_wire) : f.type \in {"flow", "accept"}
  /\ \A f \in Elements(con_replies) : f.type = "message"
  /\ con_shown = Held
  /\ con_fetches = Count([type |-> "flow"], con_wire) + con_credit + Len(con_replies)

Discharging ==
  /\ Quiet /\ con_discharged = con_declared
  /\ \E f \in Elements(con_wire) : f.type = "discharge"
  /\ con_replies = <<>>

Discharged ==
  /\ Quiet /\ con_staged = {} /\ con_discharged <= con_declared
  /\ con_wire = <<>>
  /\ \E t \in {"committed", "aborted"} : con_replies = <<[type |-> t, n |-> con_discharges]>>

PhaseInv == Declaring \/ Declared \/ InTransaction \/ Discharging \/ Discharged

PatientInv ==
  /\ ConTypeInv /\ WireInv /\ KeptInv /\ ClosedInv
  /\ con_alive => AccountsInv /\ PhaseInv

\* Nothing is asked for a user who does not wait.
ConInv == con_hasty \in BOOLEAN /\ (con_hasty \/ PatientInv)

\* Min, of a set of numbers that is not empty, is one of them.
LEMMA LeastWaiting ==
  ASSUME NEW S, S \subseteq Nat, S /= {}
  PROVE  Console!Min(S) \in S
<1> DEFINE R == OpToRel(<, Nat)
<1>1. R = {ss \in Nat \X Nat : ss[1] < ss[2]}
  BY DEF OpToRel
<1>2. IsWellFoundedOn(R, Nat)
  BY NatLessThanWellFounded
<1>3. PICK m \in S : \A y \in S : <<y, m>> \notin R
  <2> HIDE DEF R
  <2> QED BY <1>2, WFMin
<1>4. ASSUME NEW y \in S
      PROVE  m <= y
  <2>1. <<y, m>> \in Nat \X Nat /\ <<y, m>> \notin {ss \in Nat \X Nat : ss[1] < ss[2]}
    BY <1>1, <1>3
  <2>2. ~(<<y, m>>[1] < <<y, m>>[2])
    BY <2>1
  <2> QED BY <2>1, <2>2
<1> QED BY <1>4 DEF Console!Min

\* What a frame has.
LEMMA ConFramesAre ==
  /\ \A f \in ConFrames :
       /\ f.type \in {"declare", "flow", "close", "accept", "discharge"}
       /\ f.type = "flow" => f = [type |-> "flow"]
       /\ f.type = "accept" => f.tx \in Nat /\ f.message \in ConMessages
       /\ f.type = "discharge" => f.tx \in Nat /\ f.commit \in BOOLEAN /\ f.n \in Nat
  /\ \A t \in {"declare", "flow", "close"} : [type |-> t] \in ConFrames
  /\ \A x \in Nat, m \in ConMessages :
       [type |-> "accept", tx |-> x, message |-> m] \in ConFrames
  /\ \A x \in Nat, b \in BOOLEAN, n \in Nat :
       [type |-> "discharge", tx |-> x, commit |-> b, n |-> n] \in ConFrames
BY DEF ConFrames

LEMMA ConRepliesAre ==
  /\ \A f \in ConReplies :
       /\ f.type \in {"declared", "message", "committed", "aborted", "refused"}
       /\ f.type = "declared" => f.tx \in Nat
       /\ f.type = "message" => f.message \in ConMessages
       /\ f.type \in {"committed", "aborted", "refused"} => f.n \in Nat
  /\ \A x \in Nat : [type |-> "declared", tx |-> x] \in ConReplies
  /\ \A m \in ConMessages : [type |-> "message", message |-> m] \in ConReplies
  /\ \A t \in {"committed", "aborted", "refused"}, n \in Nat :
       [type |-> t, n |-> n] \in ConReplies
BY DEF ConReplies

\* The places of the first element, and of one more at the end.
LEMMA Shifted ==
  ASSUME NEW S, NEW s \in Seq(S), s /= <<>>
  PROVE  /\ Head(s) = s[1] /\ 1 \in DOMAIN s /\ Head(s) \in S
         /\ Tail(s) \in Seq(S) /\ Len(Tail(s)) = Len(s) - 1 /\ Len(s) \in Nat \ {0}
         /\ Elements(s) = {Head(s)} \union Elements(Tail(s))
         /\ \A k \in DOMAIN Tail(s) : /\ k \in Nat \ {0} /\ k + 1 \in DOMAIN s
                                      /\ Tail(s)[k] = s[k + 1]
<1>1. /\ Head(s) = s[1] /\ 1 \in DOMAIN s /\ Len(s) \in Nat \ {0}
      /\ \A k \in DOMAIN Tail(s) : /\ k \in Nat \ {0} /\ k + 1 \in DOMAIN s
                                   /\ Tail(s)[k] = s[k + 1]
  OBVIOUS
<1> QED BY <1>1, HeadTaken

LEMMA Extended ==
  ASSUME NEW S, NEW s \in Seq(S), NEW e \in S
  PROVE  /\ Append(s, e) \in Seq(S) /\ Len(Append(s, e)) = Len(s) + 1 /\ Len(s) \in Nat
         /\ Elements(Append(s, e)) = Elements(s) \union {e}
         /\ DOMAIN Append(s, e) = DOMAIN s \union {Len(s) + 1}
         /\ Append(s, e)[Len(s) + 1] = e
         /\ \A k \in DOMAIN s : k \in Nat /\ k < Len(s) + 1 /\ Append(s, e)[k] = s[k]
<1>1. /\ Len(s) \in Nat
      /\ DOMAIN Append(s, e) = DOMAIN s \union {Len(s) + 1}
      /\ Append(s, e)[Len(s) + 1] = e
      /\ \A k \in DOMAIN s : k \in Nat /\ k < Len(s) + 1 /\ Append(s, e)[k] = s[k]
  OBVIOUS
<1> QED BY <1>1, Added

LEMMA ElementsIs ==
  ASSUME NEW s, NEW f
  PROVE  f \in Elements(s) <=> \E k \in DOMAIN s : s[k] = f
BY DEF Elements

\* What comes first tells where the program is.
LEMMA ReplyPhase ==
  ASSUME PatientInv, con_alive, con_replies /= <<>>
  PROVE  /\ Head(con_replies).type /= "refused"
         /\ Head(con_replies).type = "message" => InTransaction
         /\ Head(con_replies).type = "declared" =>
              Declared /\ Tail(con_replies) = <<>> /\ Head(con_replies).tx = con_declared
         /\ Head(con_replies).type \in {"committed", "aborted"} =>
              /\ Discharged /\ Tail(con_replies) = <<>>
              /\ Head(con_replies).n = con_discharges
<1>1. PhaseInv /\ con_replies \in Seq(ConReplies)
  BY DEF PatientInv, ConTypeInv
<1>2. Head(con_replies) \in Elements(con_replies)
  BY <1>1, Shifted
<1> QED BY <1>1, <1>2 DEF PhaseInv, Declaring, Declared, InTransaction, Discharging, Discharged

LEMMA FramePhase ==
  ASSUME PatientInv, con_alive, con_wire /= <<>>
  PROVE  /\ Head(con_wire).type /= "close"
         /\ Head(con_wire).type = "declare" => Declaring /\ Tail(con_wire) = <<>>
         /\ Head(con_wire).type = "flow" => InTransaction
         /\ Head(con_wire).type = "accept" => InTransaction \/ Discharging
         /\ Head(con_wire).type = "discharge" => Discharging /\ Tail(con_wire) = <<>>
<1>1. PhaseInv /\ con_wire \in Seq(ConFrames) /\ WireInv
  BY DEF PatientInv, ConTypeInv
<1>2. /\ Head(con_wire) \in Elements(con_wire) /\ Head(con_wire) = con_wire[1]
      /\ 1 \in DOMAIN con_wire
      /\ \A k \in DOMAIN Tail(con_wire) : /\ k \in Nat \ {0} /\ k + 1 \in DOMAIN con_wire
                                          /\ Tail(con_wire)[k] = con_wire[k + 1]
  BY <1>1, Shifted
<1>3. \A k \in DOMAIN con_wire : con_wire[k].type /= "close"
  BY <1>1 DEF WireInv
<1>4. ASSUME Head(con_wire).type = "discharge" PROVE Tail(con_wire) = <<>>
  <2>1. \A k \in DOMAIN Tail(con_wire) : k + 1 \in DOMAIN con_wire /\ k + 1 > 1
    BY <1>2
  <2>2. \A j \in DOMAIN con_wire : ~(j > 1)
    BY <1>1, <1>2, <1>3, <1>4 DEF WireInv
  <2>3. DOMAIN Tail(con_wire) = {}
    BY <2>1, <2>2
  <2>4. Tail(con_wire) \in Seq(ConFrames)
    BY <1>1, Shifted
  <2> QED BY <2>3, <2>4
<1>5. Discharging => Head(con_wire).type \in {"accept", "discharge"}
  <2> SUFFICES ASSUME Discharging PROVE Head(con_wire).type \in {"accept", "discharge"}
    OBVIOUS
  <2>1. PICK k \in DOMAIN con_wire : con_wire[k].type = "discharge"
    BY DEF Discharging, Elements
  <2>2. k = 1 \/ 1 < k
    BY <1>1
  <2> QED BY <1>1, <1>2, <2>1, <2>2 DEF WireInv
<1> QED BY <1>1, <1>2, <1>3, <1>4, <1>5
         DEF PhaseInv, Declaring, Declared, InTransaction, Discharged

\* The node reads a frame that does not end the connection.
LEMMA WireRest ==
  ASSUME ConTypeInv, WireInv, con_wire /= <<>>, Head(con_wire).type /= "close",
         con_wire' = Tail(con_wire), con_alive' = con_alive,
         con_discharges' = con_discharges,
         \/ con_open' = con_open
         \/ Head(con_wire).type \in {"declare", "discharge"}
  PROVE  /\ WireInv' /\ (con_wire' = <<>> => con_alive)
         /\ Head(con_wire).type \in {"declare", "discharge"} =>
              \A f \in Elements(con_wire') : f.type = "close"
<1>1. con_wire \in Seq(ConFrames) /\ con_alive \in BOOLEAN
  BY DEF ConTypeInv
<1>2. /\ Head(con_wire) = con_wire[1] /\ 1 \in DOMAIN con_wire
      /\ Len(con_wire') = Len(con_wire) - 1 /\ Len(con_wire) \in Nat \ {0}
      /\ con_wire' \in Seq(ConFrames)
      /\ \A k \in DOMAIN con_wire' : /\ k \in Nat \ {0} /\ k + 1 \in DOMAIN con_wire
                                     /\ con_wire'[k] = con_wire[k + 1]
  BY <1>1, Shifted
<1>3. Head(con_wire).type \in {"declare", "discharge"} =>
        \A k \in DOMAIN con_wire' : con_wire'[k].type = "close"
  <2>1. \A k \in DOMAIN con_wire' : k + 1 > 1
    BY <1>2
  <2> QED BY <1>2, <2>1 DEF WireInv
<1>4. WireInv'
  <2> SUFFICES ASSUME NEW k \in DOMAIN con_wire'
               PROVE  /\ con_wire'[k].type = "accept" => con_wire'[k].tx = con_open'
                      /\ con_wire'[k].type = "discharge" =>
                           /\ con_wire'[k].tx = con_open' /\ con_wire'[k].n = con_discharges'
                           /\ \A j \in DOMAIN con_wire' :
                                /\ j < k => con_wire'[j].type = "accept"
                                /\ j > k => con_wire'[j].type = "close"
                      /\ con_wire'[k].type = "declare" =>
                           /\ k = 1
                           /\ \A j \in DOMAIN con_wire' : j > 1 => con_wire'[j].type = "close"
                      /\ con_wire'[k].type = "close" <=> ~con_alive' /\ k = Len(con_wire')
    BY DEF WireInv
  <2>1. k \in Nat \ {0} /\ k + 1 \in DOMAIN con_wire /\ con_wire'[k] = con_wire[k + 1]
    BY <1>2
  <2>2. con_wire'[k].type = "accept" => con_wire'[k].tx = con_open'
    BY <1>3, <2>1 DEF WireInv
  <2>3. ASSUME con_wire'[k].type = "discharge"
        PROVE  /\ con_wire'[k].tx = con_open' /\ con_wire'[k].n = con_discharges'
               /\ \A j \in DOMAIN con_wire' : /\ j < k => con_wire'[j].type = "accept"
                                              /\ j > k => con_wire'[j].type = "close"
    <3>1. con_wire'[k].tx = con_open' /\ con_wire'[k].n = con_discharges'
      BY <1>3, <2>1, <2>3 DEF WireInv
    <3>2. \A j \in DOMAIN con_wire' : /\ j < k => j + 1 < k + 1
                                      /\ j > k => j + 1 > k + 1
      BY <1>2, <2>1
    <3> QED BY <1>2, <2>1, <2>3, <3>1, <3>2 DEF WireInv
  <2>4. con_wire'[k].type /= "declare"
    <3>1. k + 1 /= 1
      BY <2>1
    <3> QED BY <2>1, <3>1 DEF WireInv
  <2>5. con_wire'[k].type = "close" <=> ~con_alive' /\ k = Len(con_wire')
    <3>1. k = Len(con_wire') <=> k + 1 = Len(con_wire)
      BY <1>2, <2>1
    <3> QED BY <2>1, <3>1 DEF WireInv
  <2> QED BY <2>2, <2>3, <2>4, <2>5
<1>5. con_wire' = <<>> => con_alive
  <2> SUFFICES ASSUME con_wire' = <<>>, ~con_alive PROVE FALSE
    BY <1>1
  <2>1. Len(con_wire) = 1
    <3>1. PICK n, m : n = Len(con_wire') /\ m = Len(con_wire)
      OBVIOUS
    <3>2. n = 0
      BY <3>1
    <3> QED BY <1>2, <3>1, <3>2
  <2>2. \A k \in DOMAIN con_wire : k = Len(con_wire) => con_wire[k].type = "close"
    BY <1>1 DEF WireInv
  <2>3. con_wire[1].type = "close"
    BY <1>2, <2>1, <2>2
  <2> QED BY <1>2, <2>3
<1> QED BY <1>3, <1>4, <1>5 DEF Elements

\* What an element more or less changes in what is on its way.
LEMMA AcceptedChange ==
  ASSUME NEW s \in Seq(ConFrames)
  PROVE  /\ s /= <<>> =>
              AcceptedIn(s) = AcceptedIn(Tail(s))
                \union (IF Head(s).type = "accept" THEN {Head(s).message} ELSE {})
         /\ \A e \in ConFrames :
              AcceptedIn(Append(s, e)) = AcceptedIn(s)
                \union (IF e.type = "accept" THEN {e.message} ELSE {})
<1>1. ASSUME s /= <<>>
      PROVE  AcceptedIn(s) = AcceptedIn(Tail(s))
               \union (IF Head(s).type = "accept" THEN {Head(s).message} ELSE {})
  <2>1. Head(s) \in ConFrames /\ Elements(s) = {Head(s)} \union Elements(Tail(s))
    BY <1>1, Shifted
  <2>2. Head(s).type = "accept" => Head(s).message \in ConMessages
    BY <2>1, ConFramesAre
  <2> QED BY <2>1, <2>2 DEF AcceptedIn
<1>2. ASSUME NEW e \in ConFrames
      PROVE  AcceptedIn(Append(s, e)) = AcceptedIn(s)
               \union (IF e.type = "accept" THEN {e.message} ELSE {})
  <2>1. Elements(Append(s, e)) = Elements(s) \union {e}
    BY Extended
  <2>2. e.type = "accept" => e.message \in ConMessages
    BY ConFramesAre
  <2> QED BY <2>1, <2>2 DEF AcceptedIn
<1> QED BY <1>1, <1>2

LEMMA ComingChange ==
  ASSUME NEW s \in Seq(ConReplies)
  PROVE  /\ s /= <<>> =>
              ComingIn(s) = ComingIn(Tail(s))
                \union (IF Head(s).type = "message" THEN {Head(s).message} ELSE {})
         /\ \A e \in ConReplies :
              ComingIn(Append(s, e)) = ComingIn(s)
                \union (IF e.type = "message" THEN {e.message} ELSE {})
<1>1. ASSUME s /= <<>>
      PROVE  ComingIn(s) = ComingIn(Tail(s))
               \union (IF Head(s).type = "message" THEN {Head(s).message} ELSE {})
  <2>1. Head(s) \in ConReplies /\ Elements(s) = {Head(s)} \union Elements(Tail(s))
    BY <1>1, Shifted
  <2>2. Head(s).type = "message" => Head(s).message \in ConMessages
    BY <2>1, ConRepliesAre
  <2> QED BY <2>1, <2>2 DEF ComingIn
<1>2. ASSUME NEW e \in ConReplies
      PROVE  ComingIn(Append(s, e)) = ComingIn(s)
               \union (IF e.type = "message" THEN {e.message} ELSE {})
  <2>1. Elements(Append(s, e)) = Elements(s) \union {e}
    BY Extended
  <2>2. e.type = "message" => e.message \in ConMessages
    BY ConRepliesAre
  <2> QED BY <2>1, <2>2 DEF ComingIn
<1> QED BY <1>1, <1>2

LEMMA NothingIn ==
  /\ AcceptedIn(<<>>) = {} /\ ComingIn(<<>>) = {} /\ Elements(<<>>) = {}
  /\ \A w : (\A f \in Elements(w) : f.type = "close") => AcceptedIn(w) = {}
BY EmptyHasNone DEF AcceptedIn, ComingIn

\* In a transaction the program sends requests for a message and acceptances.
LEMMA WireInTransaction ==
  ASSUME con_alive',
         \A f \in Elements(con_wire') : /\ f.type \in {"flow", "accept"}
                                        /\ f.type = "accept" => f.tx = con_open'
  PROVE  WireInv' /\ ~Committing'
<1>1. \A k \in DOMAIN con_wire' :
        /\ con_wire'[k].type \in {"flow", "accept"}
        /\ con_wire'[k].type = "accept" => con_wire'[k].tx = con_open'
  BY DEF Elements
<1> QED BY <1>1 DEF WireInv, Committing

LEMMA AcceptNames ==
  ASSUME WireInv
  PROVE  \A f \in Elements(con_wire) : f.type = "accept" => f.tx = con_open
BY DEF WireInv, Elements

LEMMA ConStart ==
  ASSUME Console!Init
  PROVE  ConInv
<1> DEFINE d == [type |-> "declare"]
<1>1. /\ con_transaction = 0 /\ con_discharged = 0 /\ con_discharges = 0
      /\ con_fetches = 0 /\ con_alive = TRUE
      /\ con_wire = <<d>> /\ con_replies = <<>>
      /\ con_open = 0 /\ con_declared = 0 /\ con_credit = 0
      /\ con_waiting = ConMessages /\ con_staged = {} /\ con_consumed = {}
      /\ con_shown = {} /\ con_kept = {} /\ con_hasty = FALSE
  BY DEF Console!Init, ConMessages
<1>2. d \in ConFrames /\ d.type = "declare"
  BY ConFramesAre
<1>3. con_wire \in Seq(ConFrames) /\ con_replies \in Seq(ConReplies)
  BY <1>1, <1>2
<1>4. Elements(con_wire) = {d} /\ DOMAIN con_wire = {1} /\ con_wire[1] = d
  BY <1>1 DEF Elements
<1> HIDE DEF d
<1>5. ConTypeInv
  BY <1>1, <1>3 DEF ConTypeInv
<1>6. WireInv /\ ~Committing
  BY <1>1, <1>2, <1>4 DEF WireInv, Committing
<1>7. KeptInv
  BY <1>1, <1>6 DEF KeptInv
<1>8. Held = {} /\ Coming = {}
  BY <1>1, <1>2, <1>4, NothingIn DEF Held, Coming, AcceptedIn
<1>9. AccountsInv
  BY <1>1, <1>8 DEF AccountsInv
<1>10. PhaseInv
  <2>1. con_discharged <= con_declared
    BY <1>1
  <2> QED BY <1>1, <2>1, Zenon DEF PhaseInv, Declaring, Quiet, d
<1>11. ClosedInv
  BY <1>1 DEF ClosedInv
<1> QED BY <1>1, <1>5, <1>6, <1>7, <1>9, <1>10, <1>11 DEF ConInv, PatientInv

\* The user's commands, of a user who waits.
LEMMA ConFetchStep ==
  ASSUME PatientInv, Console!OnFetch, Console!Ready
  PROVE  PatientInv'
<1> DEFINE e == [type |-> "flow"]
<1>1. /\ ConTypeInv /\ WireInv /\ KeptInv /\ ClosedInv /\ con_alive
      /\ AccountsInv /\ PhaseInv /\ con_transaction > con_discharged
  BY DEF PatientInv, Console!OnFetch, Console!Command, Console!Ready
<1>2. InTransaction
  BY <1>1 DEF PhaseInv, Declaring, Declared, Discharging, Discharged, Quiet, ConTypeInv
<1>3. /\ con_fetches' = con_fetches + 1 /\ con_wire' = Append(con_wire, e)
      /\ UNCHANGED <<con_transaction, con_discharged, con_discharges, con_alive,
                     con_replies, con_open, con_declared, con_credit, con_waiting,
                     con_staged, con_consumed, con_shown, con_kept>>
  BY DEF Console!OnFetch, Console!nodeVars
<1>4. e \in ConFrames /\ e.type = "flow" /\ con_wire \in Seq(ConFrames)
  BY <1>1, ConFramesAre DEF ConTypeInv
<1>5. /\ con_wire' \in Seq(ConFrames) /\ Elements(con_wire') = Elements(con_wire) \union {e}
      /\ con_wire' /= <<>>
  <2>1. Len(con_wire') = Len(con_wire) + 1 /\ Len(con_wire) \in Nat
    BY <1>3, <1>4, Extended
  <2>2. con_wire' /= <<>>
    BY <1>3, <1>4
  <2> QED BY <1>3, <1>4, <2>2, Extended
<1>6. Count(e, con_wire') = Count(e, con_wire) + 1 /\ Count(e, con_wire) \in Nat
  BY <1>3, <1>4, CountAdded, CountType
<1>7. Held' = Held /\ Coming' = Coming
  <2>1. AcceptedIn(con_wire') = AcceptedIn(con_wire)
    BY <1>3, <1>4, AcceptedChange
  <2> QED BY <1>3, <2>1 DEF Held, Coming
<1>8. ConTypeInv'
  BY <1>1, <1>3, <1>5 DEF ConTypeInv
<1>9. WireInv' /\ ~Committing'
  <2>1. \A f \in Elements(con_wire') : /\ f.type \in {"flow", "accept"}
                                       /\ f.type = "accept" => f.tx = con_open'
    BY <1>1, <1>2, <1>3, <1>4, <1>5, AcceptNames DEF InTransaction
  <2> QED BY <1>1, <1>3, <2>1, WireInTransaction
<1>10. KeptInv'
  <2>1. ~Committing
    BY <1>2 DEF InTransaction, Committing
  <2> QED BY <1>1, <1>3, <1>9, <2>1 DEF KeptInv
<1>11. AccountsInv' /\ ClosedInv'
  BY <1>1, <1>3, <1>5, <1>7 DEF AccountsInv, ClosedInv
<1>12. InTransaction'
  <2>1. \A f \in Elements(con_wire') : f.type \in {"flow", "accept"}
    BY <1>2, <1>4, <1>5 DEF InTransaction
  <2>2. con_fetches' = Count(e, con_wire') + con_credit' + Len(con_replies')
    <3>1. PICK a, b, c : a = Count(e, con_wire) /\ b = con_credit /\ c = Len(con_replies)
      OBVIOUS
    <3>2. a \in Nat /\ b \in Nat /\ c \in Nat
      BY <1>1, <1>6, <3>1 DEF ConTypeInv
    <3>3. con_fetches = a + b + c
      BY <1>2, <3>1 DEF InTransaction
    <3>4. con_fetches' = (a + 1) + b + c
      BY <1>3, <3>2, <3>3
    <3> QED BY <1>3, <1>6, <3>1, <3>4
  <2> QED BY <1>2, <1>3, <1>7, <2>1, <2>2 DEF InTransaction
<1> QED BY <1>8, <1>9, <1>10, <1>11, <1>12 DEF PatientInv, PhaseInv

\* With no request pending, all that is on its way are acceptances.
LEMMA NothingAsked ==
  ASSUME PatientInv, con_alive, InTransaction, con_fetches = 0
  PROVE  /\ con_credit = 0 /\ con_replies = <<>>
         /\ \A f \in Elements(con_wire) : f.type = "accept"
<1>1. ConTypeInv
  BY DEF PatientInv
<1>2. con_wire \in Seq(ConFrames) /\ con_replies \in Seq(ConReplies) /\ con_credit \in Nat
  BY <1>1 DEF ConTypeInv
<1>3. PICK a, b, c : /\ a = Count([type |-> "flow"], con_wire)
                     /\ b = con_credit /\ c = Len(con_replies)
  OBVIOUS
<1>4. a \in Nat /\ b \in Nat /\ c \in Nat /\ 0 = a + b + c
  BY <1>2, <1>3, CountType DEF InTransaction
<1>5. a = 0 /\ b = 0 /\ c = 0
  BY <1>4
<1>6. con_replies = <<>>
  BY <1>2, <1>3, <1>5, EmptySeq
<1>7. \A k \in DOMAIN con_wire : con_wire[k] /= [type |-> "flow"]
  BY <1>2, <1>3, <1>5, CountType
<1>8. \A f \in Elements(con_wire) : f \in ConFrames /\ f /= [type |-> "flow"]
  BY <1>2, <1>7 DEF Elements
<1>9. \A f \in Elements(con_wire) : f.type = "accept"
  BY <1>8, ConFramesAre DEF InTransaction
<1> QED BY <1>3, <1>5, <1>6, <1>9

LEMMA ConDischargeStep ==
  ASSUME PatientInv, Console!Ready, con_fetches = 0, NEW commit \in BOOLEAN,
         Console!Discharge(commit),
         con_kept' = IF commit THEN con_kept \union con_shown ELSE con_kept
  PROVE  PatientInv'
<1> DEFINE e == [type |-> "discharge", tx |-> con_transaction, commit |-> commit,
                 n |-> con_discharges + 1]
<1>1. /\ ConTypeInv /\ WireInv /\ KeptInv /\ ClosedInv /\ con_alive
      /\ AccountsInv /\ PhaseInv /\ con_transaction > con_discharged
  BY DEF PatientInv, Console!Discharge, Console!Command, Console!Ready
<1>2. InTransaction
  BY <1>1 DEF PhaseInv, Declaring, Declared, Discharging, Discharged, Quiet, ConTypeInv
<1>3. /\ con_discharged' = con_transaction /\ con_discharges' = con_discharges + 1
      /\ con_wire' = Append(con_wire, e) /\ con_alive' = TRUE /\ con_shown' = {}
      /\ UNCHANGED <<con_transaction, con_fetches, con_replies, con_open, con_declared,
                     con_credit, con_waiting, con_staged, con_consumed>>
  <2>1. con_transaction /= 0
    BY <1>1 DEF ConTypeInv
  <2> QED BY <2>1 DEF Console!Discharge, Console!nodeVars
<1>4. /\ con_credit = 0 /\ con_replies = <<>>
      /\ \A f \in Elements(con_wire) : f.type = "accept"
  BY <1>1, <1>2, NothingAsked
<1>5. /\ e \in ConFrames /\ con_wire \in Seq(ConFrames) /\ e.type = "discharge"
      /\ e.tx = con_open' /\ e.n = con_discharges' /\ e.commit = commit
      /\ con_discharges + 1 \in Nat
  <2>1. con_discharges + 1 \in Nat /\ con_transaction \in Nat
    BY <1>1 DEF ConTypeInv
  <2>2. e \in ConFrames
    BY <2>1, ConFramesAre
  <2> QED BY <1>1, <1>2, <1>3, <2>1, <2>2 DEF ConTypeInv, InTransaction
<1> HIDE DEF e
<1>6. /\ con_wire' \in Seq(ConFrames) /\ Elements(con_wire') = Elements(con_wire) \union {e}
      /\ Len(con_wire) \in Nat
      /\ DOMAIN con_wire' = DOMAIN con_wire \union {Len(con_wire) + 1}
      /\ con_wire'[Len(con_wire) + 1] = e
      /\ \A k \in DOMAIN con_wire : /\ k \in Nat /\ k < Len(con_wire) + 1
                                    /\ con_wire'[k] = con_wire[k]
  BY <1>3, <1>5, Extended
<1>7. con_wire' /= <<>>
  BY <1>3, <1>5
<1>8. Held' = Held /\ Coming' = Coming
  <2>1. AcceptedIn(con_wire') = AcceptedIn(con_wire)
    BY <1>3, <1>5, AcceptedChange
  <2> QED BY <1>3, <2>1 DEF Held, Coming
<1>9. ConTypeInv'
  BY <1>1, <1>3, <1>5, <1>6 DEF ConTypeInv
<1>10. WireInv'
  <2>1. ASSUME NEW k \in DOMAIN con_wire
        PROVE  con_wire'[k].type = "accept" /\ con_wire'[k].tx = con_open'
    BY <1>1, <1>3, <1>4, <1>6 DEF WireInv, Elements
  <2>2. \A k \in DOMAIN con_wire' : ~(k > Len(con_wire) + 1)
    BY <1>6
  <2> QED BY <1>3, <1>5, <1>6, <2>1, <2>2 DEF WireInv
<1>11. Committing' <=> commit
  BY <1>4, <1>5, <1>6 DEF Committing
<1>12. KeptInv'
  <2>1. ~Committing /\ con_shown = Held
    BY <1>2 DEF InTransaction, Committing
  <2> QED BY <1>1, <1>3, <1>8, <1>11, <2>1 DEF KeptInv
<1>13. AccountsInv' /\ ClosedInv'
  BY <1>1, <1>3, <1>7, <1>8 DEF AccountsInv, ClosedInv
<1>14. Discharging'
  BY <1>2, <1>3, <1>4, <1>5, <1>6 DEF Discharging, Quiet, InTransaction
<1> QED BY <1>9, <1>10, <1>12, <1>13, <1>14 DEF PatientInv, PhaseInv

LEMMA ConQuitStep ==
  ASSUME PatientInv, Console!OnQuit
  PROVE  PatientInv'
<1> DEFINE e == [type |-> "close"]
<1>1. ConTypeInv /\ WireInv /\ KeptInv /\ con_alive
  BY DEF PatientInv, Console!OnQuit, Console!Command
<1>2. /\ con_wire' = Append(con_wire, e) /\ con_alive' = FALSE
      /\ UNCHANGED <<con_transaction, con_discharged, con_discharges, con_fetches,
                     con_replies, con_open, con_declared, con_credit, con_waiting,
                     con_staged, con_consumed, con_shown, con_kept>>
  BY DEF Console!OnQuit, Console!nodeVars
<1>3. e \in ConFrames /\ con_wire \in Seq(ConFrames) /\ e.type = "close"
  BY <1>1, ConFramesAre DEF ConTypeInv
<1> HIDE DEF e
<1>4. /\ con_wire' \in Seq(ConFrames) /\ Elements(con_wire') = Elements(con_wire) \union {e}
      /\ Len(con_wire) \in Nat /\ Len(con_wire') = Len(con_wire) + 1
      /\ DOMAIN con_wire' = DOMAIN con_wire \union {Len(con_wire) + 1}
      /\ con_wire'[Len(con_wire) + 1] = e
      /\ \A k \in DOMAIN con_wire : /\ k \in Nat /\ k < Len(con_wire) + 1
                                    /\ con_wire'[k] = con_wire[k]
  BY <1>2, <1>3, Extended
<1>5. con_wire' /= <<>>
  BY <1>2, <1>3
<1>6. Held' = Held /\ (Committing' <=> Committing)
  <2>1. AcceptedIn(con_wire') = AcceptedIn(con_wire)
    BY <1>2, <1>3, AcceptedChange
  <2> QED BY <1>2, <1>3, <1>4, <2>1 DEF Held, Committing
<1>7. ConTypeInv'
  BY <1>1, <1>2, <1>4 DEF ConTypeInv
<1>8. WireInv'
  <2>1. \A k \in DOMAIN con_wire : con_wire[k].type /= "close" /\ k /= Len(con_wire')
    BY <1>1, <1>4 DEF WireInv
  <2>2. ASSUME NEW k \in DOMAIN con_wire
        PROVE  /\ con_wire[k].type = "accept" => con_wire[k].tx = con_open
               /\ con_wire[k].type = "discharge" =>
                    /\ con_wire[k].tx = con_open /\ con_wire[k].n = con_discharges
                    /\ \A j \in DOMAIN con_wire' :
                         /\ j < k => con_wire'[j].type = "accept"
                         /\ j > k => con_wire'[j].type = "close"
               /\ con_wire[k].type = "declare" =>
                    /\ k = 1
                    /\ \A j \in DOMAIN con_wire' : j > 1 => con_wire'[j].type = "close"
    BY <1>1, <1>3, <1>4 DEF WireInv
  <2> QED BY <1>2, <1>3, <1>4, <2>1, <2>2 DEF WireInv
<1>9. KeptInv' /\ ClosedInv'
  BY <1>1, <1>2, <1>5, <1>6 DEF KeptInv, ClosedInv
<1> QED BY <1>2, <1>7, <1>8, <1>9 DEF PatientInv

\* The handlers for what the node sends.
LEMMA ConOnMessageStep ==
  ASSUME PatientInv, Console!OnMessage
  PROVE  PatientInv'
<1> DEFINE m == Head(con_replies).message
           e == [type |-> "accept", tx |-> con_transaction, message |-> m]
<1>1. /\ ConTypeInv /\ WireInv /\ KeptInv /\ ClosedInv /\ con_alive
      /\ AccountsInv /\ con_replies /= <<>> /\ Head(con_replies).type = "message"
      /\ con_replies' = Tail(con_replies)
  BY DEF PatientInv, Console!OnMessage, Console!Reply
<1>2. InTransaction
  BY <1>1, ReplyPhase
<1>3. /\ con_replies \in Seq(ConReplies) /\ con_wire \in Seq(ConFrames)
      /\ con_transaction \in Nat /\ con_transaction /= 0 /\ con_credit \in Nat
  BY <1>1, <1>2 DEF ConTypeInv, InTransaction
<1>4. /\ Head(con_replies) \in ConReplies /\ con_replies' \in Seq(ConReplies)
      /\ Len(con_replies') = Len(con_replies) - 1 /\ Len(con_replies) \in Nat \ {0}
      /\ Elements(con_replies) = {Head(con_replies)} \union Elements(con_replies')
      /\ Coming = Coming' \union {m}
  BY <1>1, <1>3, Shifted, ComingChange DEF Coming
<1>5. m \in ConMessages
  BY <1>1, <1>4, ConRepliesAre
<1>6. /\ con_wire' = Append(con_wire, e) /\ con_alive' = TRUE
      /\ con_fetches' = con_fetches - 1 /\ con_shown' = con_shown \union {m}
      /\ UNCHANGED <<con_transaction, con_discharged, con_discharges, con_open,
                     con_declared, con_credit, con_waiting, con_staged, con_consumed,
                     con_kept>>
  BY <1>3 DEF Console!OnMessage, Console!nodeVars
<1>7. /\ e \in ConFrames /\ e.type = "accept" /\ e.message = m /\ e.tx = con_open'
      /\ e /= [type |-> "flow"]
  BY <1>2, <1>3, <1>5, <1>6, ConFramesAre DEF InTransaction
<1> HIDE DEF m, e
<1>8. /\ con_wire' \in Seq(ConFrames) /\ Elements(con_wire') = Elements(con_wire) \union {e}
      /\ con_wire' /= <<>>
  <2>1. con_wire' /= <<>>
    BY <1>3, <1>6
  <2> QED BY <1>3, <1>6, <1>7, <2>1, Extended
<1>9. Count([type |-> "flow"], con_wire') = Count([type |-> "flow"], con_wire)
      /\ Count([type |-> "flow"], con_wire) \in Nat
  <2> DEFINE x == [type |-> "flow"]
  <2>1. x /= e
    BY <1>7
  <2> HIDE DEF x
  <2>2. Count(x, con_wire') = Count(x, con_wire) + 0 /\ Count(x, con_wire) \in Nat
    BY <1>3, <1>6, <1>7, <2>1, CountAdded, CountType
  <2> QED BY <2>2 DEF x
<1>10. Held' = Held \union {m}
  <2>1. AcceptedIn(con_wire') = AcceptedIn(con_wire) \union {m}
    BY <1>3, <1>6, <1>7, AcceptedChange
  <2> QED BY <1>6, <2>1 DEF Held
<1>11. ConTypeInv'
  BY <1>1, <1>4, <1>6, <1>8 DEF ConTypeInv
<1>12. \A f \in Elements(con_wire') : /\ f.type \in {"flow", "accept"}
                                      /\ f.type = "accept" => f.tx = con_open'
  BY <1>1, <1>2, <1>6, <1>7, <1>8, AcceptNames DEF InTransaction
<1>13. WireInv' /\ ~Committing'
  BY <1>6, <1>12, WireInTransaction
<1>14. KeptInv'
  <2>1. ~Committing
    BY <1>2 DEF InTransaction, Committing
  <2> QED BY <1>1, <1>6, <1>13, <2>1 DEF KeptInv
<1>15. AccountsInv' /\ ClosedInv'
  BY <1>1, <1>4, <1>6, <1>8, <1>10 DEF AccountsInv, ClosedInv
<1>16. InTransaction'
  <2>1. con_fetches' = Count([type |-> "flow"], con_wire') + con_credit' + Len(con_replies')
    <3>1. PICK a, b, c : /\ a = Count([type |-> "flow"], con_wire) /\ b = con_credit
                         /\ c = Len(con_replies)
      OBVIOUS
    <3>2. a \in Nat /\ b \in Nat /\ c \in Nat \ {0}
      BY <1>3, <1>4, <1>9, <3>1
    <3>3. con_fetches = a + b + c
      BY <1>2, <3>1 DEF InTransaction
    <3>4. con_fetches' = a + b + (c - 1)
      BY <1>6, <3>2, <3>3
    <3> QED BY <1>4, <1>6, <1>9, <3>1, <3>4
  <2>2. \A f \in Elements(con_replies') : f.type = "message"
    BY <1>2, <1>4 DEF InTransaction
  <2> QED BY <1>2, <1>6, <1>10, <1>12, <2>1, <2>2 DEF InTransaction
<1> QED BY <1>11, <1>13, <1>14, <1>15, <1>16 DEF PatientInv, PhaseInv

LEMMA ConOnTransactionDeclaredStep ==
  ASSUME PatientInv, Console!OnTransactionDeclared
  PROVE  PatientInv'
<1>1. /\ ConTypeInv /\ WireInv /\ KeptInv /\ ClosedInv /\ con_alive
      /\ AccountsInv /\ con_replies /= <<>> /\ Head(con_replies).type = "declared"
      /\ con_replies' = Tail(con_replies) /\ con_transaction' = Head(con_replies).tx
      /\ UNCHANGED <<con_discharged, con_discharges, con_fetches, con_alive, con_wire,
                     con_open, con_declared, con_credit, con_waiting, con_staged,
                     con_consumed, con_shown, con_kept>>
  BY DEF PatientInv, Console!OnTransactionDeclared, Console!Reply,
         Console!nodeVars, Console!userVars
<1>2. /\ Declared /\ con_replies' = <<>> /\ con_transaction' = con_declared
      /\ Head(con_replies).type /= "message"
  BY <1>1, ReplyPhase
<1>3. con_replies' \in Seq(ConReplies) /\ con_wire = <<>> /\ con_declared \in Nat
  BY <1>1, <1>2 DEF ConTypeInv, Declared
<1>4. Coming' = Coming /\ Held' = Held
  <2>1. Coming = ComingIn(Tail(con_replies)) \union {}
    BY <1>1, <1>2, ComingChange DEF Coming, ConTypeInv
  <2> QED BY <1>1, <2>1 DEF Coming, Held
<1>5. ConTypeInv'
  BY <1>1, <1>2, <1>3 DEF ConTypeInv
<1>6. WireInv' /\ KeptInv' /\ ClosedInv' /\ AccountsInv'
  <2>1. WireInv' /\ (Committing' <=> Committing)
    BY <1>1 DEF WireInv, Committing
  <2> QED BY <1>1, <1>4, <2>1 DEF KeptInv, ClosedInv, AccountsInv
<1>7. InTransaction'
  <2>1. Elements(con_wire') = {} /\ Elements(con_replies') = {}
    BY <1>1, <1>2, <1>3, NothingIn
  <2>2. Held' = {} /\ con_shown' = {}
    BY <1>1, <1>2, <1>3, <1>4, NothingIn DEF Held, Declared, Quiet
  <2>3. /\ Count([type |-> "flow"], con_wire') = 0 /\ con_credit' = 0
        /\ Len(con_replies') = 0 /\ con_fetches' = 0
    <3>1. Count([type |-> "flow"], <<>>) = 0
      BY CountNone
    <3> QED BY <1>1, <1>2, <1>3, <3>1, EmptyHasNone DEF Declared, Quiet
  <2>4. con_fetches' = Count([type |-> "flow"], con_wire') + con_credit' + Len(con_replies')
    BY <2>3
  <2> QED BY <1>1, <1>2, <2>1, <2>2, <2>4 DEF InTransaction, Declared
<1> QED BY <1>5, <1>6, <1>7 DEF PatientInv, PhaseInv

\* Another transaction follows the one that was discharged.
LEMMA ConOutcomeStep ==
  ASSUME PatientInv, Console!OnTransactionCommitted \/ Console!OnTransactionAborted
  PROVE  PatientInv'
<1> DEFINE e == [type |-> "declare"]
<1>1. /\ ConTypeInv /\ KeptInv /\ ClosedInv /\ con_alive
      /\ AccountsInv /\ con_replies /= <<>>
      /\ Head(con_replies).type \in {"committed", "aborted"}
      /\ con_replies' = Tail(con_replies) /\ con_wire' = Append(con_wire, e)
      /\ UNCHANGED <<con_transaction, con_discharged, con_discharges, con_fetches,
                     con_alive, con_open, con_declared, con_credit, con_waiting,
                     con_staged, con_consumed, con_shown, con_kept>>
  BY DEF PatientInv, Console!OnTransactionCommitted, Console!OnTransactionAborted,
         Console!Outcome, Console!Reply, Console!nodeVars, Console!userVars
<1>2. /\ Discharged /\ con_replies' = <<>> /\ Head(con_replies).type /= "message"
  BY <1>1, ReplyPhase
<1>3. con_wire = <<>> /\ con_wire' = <<e>>
  BY <1>1, <1>2 DEF Discharged
<1>4. e \in ConFrames /\ e.type = "declare"
  BY ConFramesAre
<1>5. /\ con_wire' \in Seq(ConFrames) /\ con_replies' \in Seq(ConReplies)
      /\ Elements(con_wire') = {e} /\ DOMAIN con_wire' = {1} /\ con_wire'[1] = e
  BY <1>2, <1>3, <1>4 DEF Elements
<1>6. Coming' = Coming /\ Held' = Held
  <2>1. Coming = ComingIn(Tail(con_replies)) \union {}
    BY <1>1, <1>2, ComingChange DEF Coming, ConTypeInv
  <2>2. AcceptedIn(con_wire') = AcceptedIn(con_wire) \union {}
    BY <1>1, <1>4, AcceptedChange DEF ConTypeInv
  <2> QED BY <1>1, <2>1, <2>2 DEF Coming, Held
<1>7. ConTypeInv'
  BY <1>1, <1>5 DEF ConTypeInv
<1>8. Declaring'
  BY <1>1, <1>2, <1>3 DEF Declaring, Discharged, Quiet
<1> HIDE DEF e
<1>9. WireInv' /\ ~Committing'
  BY <1>1, <1>4, <1>5 DEF WireInv, Committing
<1>10. KeptInv' /\ ClosedInv' /\ AccountsInv'
  <2>1. ~Committing
    BY <1>3, NothingIn DEF Committing
  <2> QED BY <1>1, <1>6, <1>9, <2>1 DEF KeptInv, ClosedInv, AccountsInv
<1> QED BY <1>7, <1>8, <1>9, <1>10 DEF PatientInv, PhaseInv

\* The node.
LEMMA ConNodeFrame ==
  ASSUME PatientInv, NEW t \in {"declare", "flow", "accept", "discharge"}, Console!Frame(t)
  PROVE  /\ con_wire /= <<>> /\ Head(con_wire).type = t /\ con_wire' = Tail(con_wire)
         /\ Head(con_wire) \in ConFrames /\ con_wire' \in Seq(ConFrames)
         /\ Elements(con_wire) = {Head(con_wire)} \union Elements(con_wire')
         /\ AcceptedIn(con_wire) = AcceptedIn(con_wire')
              \union (IF t = "accept" THEN {Head(con_wire).message} ELSE {})
         /\ UNCHANGED <<con_transaction, con_discharged, con_discharges, con_fetches,
                        con_alive, con_shown, con_kept>>
         /\ t \in {"accept", "discharge"} => Head(con_wire).tx = con_open
         /\ t = "discharge" => Head(con_wire).n = con_discharges
         /\ con_open' = con_open \/ t \in {"declare", "discharge"} =>
              WireInv' /\ (con_wire' = <<>> => con_alive)
         /\ t \in {"declare", "discharge"} =>
              \A f \in Elements(con_wire') : f.type = "close"
<1>1. /\ con_wire /= <<>> /\ Head(con_wire).type = t /\ con_wire' = Tail(con_wire)
      /\ UNCHANGED <<con_transaction, con_discharged, con_discharges, con_fetches,
                     con_alive, con_shown, con_kept>>
      /\ con_wire \in Seq(ConFrames) /\ WireInv /\ ConTypeInv
  BY DEF Console!Frame, Console!progVars, Console!userVars, PatientInv, ConTypeInv
<1>2. /\ Head(con_wire) \in ConFrames /\ con_wire' \in Seq(ConFrames)
      /\ Elements(con_wire) = {Head(con_wire)} \union Elements(con_wire')
      /\ Head(con_wire) = con_wire[1] /\ 1 \in DOMAIN con_wire
      /\ Len(con_wire') = Len(con_wire) - 1 /\ Len(con_wire) \in Nat \ {0}
      /\ \A k \in DOMAIN con_wire' : /\ k \in Nat \ {0} /\ k + 1 \in DOMAIN con_wire
                                     /\ con_wire'[k] = con_wire[k + 1]
  BY <1>1, Shifted
<1>3. AcceptedIn(con_wire) = AcceptedIn(con_wire')
        \union (IF t = "accept" THEN {Head(con_wire).message} ELSE {})
  BY <1>1, AcceptedChange
<1>4. /\ t \in {"accept", "discharge"} => Head(con_wire).tx = con_open
      /\ t = "discharge" => Head(con_wire).n = con_discharges
  BY <1>1, <1>2 DEF WireInv
<1>5. con_open' = con_open \/ t \in {"declare", "discharge"} =>
        WireInv' /\ (con_wire' = <<>> => con_alive)
  BY <1>1, WireRest
<1>6. t \in {"declare", "discharge"} => \A f \in Elements(con_wire') : f.type = "close"
  <2>1. \A k \in DOMAIN con_wire' : k + 1 > 1
    BY <1>2
  <2>2. t \in {"declare", "discharge"} =>
          \A j \in DOMAIN con_wire : j > 1 => con_wire[j].type = "close"
    BY <1>1, <1>2 DEF WireInv
  <2> QED BY <1>2, <2>1, <2>2 DEF Elements
<1> QED BY <1>1, <1>2, <1>3, <1>4, <1>5, <1>6

LEMMA ConNodeDeclaresStep ==
  ASSUME PatientInv, Console!NodeDeclares
  PROVE  PatientInv'
<1> DEFINE e == [type |-> "declared", tx |-> con_declared + 1]
<1>1. ConTypeInv /\ WireInv /\ KeptInv /\ (con_alive => AccountsInv /\ PhaseInv)
  BY DEF PatientInv
<1>2. Console!Frame("declare")
  BY DEF Console!NodeDeclares
<1>3. /\ con_declared' = con_declared + 1 /\ con_open' = con_declared + 1
      /\ con_replies' = Append(con_replies, e)
      /\ UNCHANGED <<con_credit, con_waiting, con_staged, con_consumed>>
  BY DEF Console!NodeDeclares
<1>4. /\ con_wire /= <<>> /\ Head(con_wire).type = "declare" /\ con_wire' = Tail(con_wire)
      /\ con_wire' \in Seq(ConFrames)
      /\ Elements(con_wire) = {Head(con_wire)} \union Elements(con_wire')
      /\ AcceptedIn(con_wire) = AcceptedIn(con_wire')
      /\ UNCHANGED <<con_transaction, con_discharged, con_discharges, con_fetches,
                     con_alive, con_shown, con_kept>>
      /\ WireInv' /\ (con_wire' = <<>> => con_alive)
      /\ \A f \in Elements(con_wire') : f.type = "close"
  <2>1. "declare" \in {"declare", "flow", "accept", "discharge"}
        /\ "declare" \in {"declare", "discharge"} /\ "declare" /= "accept"
    OBVIOUS
  <2> QED BY <1>2, <2>1, ConNodeFrame
<1>5. con_declared \in Nat /\ con_replies \in Seq(ConReplies) /\ con_declared + 1 \in Nat
  BY <1>1 DEF ConTypeInv
<1>6. e \in ConReplies /\ e.type /= "message"
  BY <1>5, ConRepliesAre
<1>7. con_replies' \in Seq(ConReplies) /\ Coming' = Coming /\ Held' = Held
  <2>1. con_replies' \in Seq(ConReplies)
    BY <1>3, <1>5, <1>6, Extended
  <2>2. ComingIn(con_replies') = ComingIn(con_replies) \union {}
    BY <1>3, <1>5, <1>6, ComingChange
  <2> QED BY <1>3, <1>4, <2>1, <2>2 DEF Coming, Held
<1>8. ConTypeInv'
  BY <1>1, <1>3, <1>4, <1>5, <1>7 DEF ConTypeInv
<1>9. ~Committing /\ ~Committing'
  BY <1>4 DEF Committing
<1>10. KeptInv' /\ ClosedInv'
  BY <1>1, <1>3, <1>4, <1>9 DEF KeptInv, ClosedInv, ConTypeInv
<1>11. con_alive' => AccountsInv' /\ PhaseInv'
  <2> SUFFICES ASSUME con_alive PROVE AccountsInv' /\ PhaseInv'
    BY <1>4
  <2>1. Declaring /\ con_wire' = <<>>
    BY <1>4, FramePhase
  <2>2. AccountsInv'
    BY <1>1, <1>3, <1>7 DEF AccountsInv
  <2>3. con_replies' = <<e>>
    BY <1>3, <2>1 DEF Declaring
  <2>4. con_discharged' < con_declared'
    BY <1>1, <1>3, <1>4, <2>1 DEF Declaring, ConTypeInv
  <2>5. Declared'
    BY <1>3, <1>4, <2>1, <2>3, <2>4 DEF Declaring, Declared, Quiet
  <2> QED BY <2>2, <2>5 DEF PhaseInv
<1> QED BY <1>4, <1>8, <1>10, <1>11 DEF PatientInv

LEMMA ConNodeGetsCreditStep ==
  ASSUME PatientInv, Console!NodeGetsCredit
  PROVE  PatientInv'
<1> DEFINE x == [type |-> "flow"]
<1>1. ConTypeInv /\ WireInv /\ KeptInv /\ (con_alive => AccountsInv /\ PhaseInv)
  BY DEF PatientInv
<1>2. Console!Frame("flow")
  BY DEF Console!NodeGetsCredit
<1>3. /\ con_credit' = con_credit + 1
      /\ UNCHANGED <<con_replies, con_open, con_declared, con_waiting, con_staged,
                     con_consumed>>
  BY DEF Console!NodeGetsCredit
<1>4. /\ con_wire /= <<>> /\ Head(con_wire).type = "flow" /\ con_wire' = Tail(con_wire)
      /\ con_wire' \in Seq(ConFrames) /\ Head(con_wire) \in ConFrames
      /\ Elements(con_wire) = {Head(con_wire)} \union Elements(con_wire')
      /\ AcceptedIn(con_wire) = AcceptedIn(con_wire')
      /\ UNCHANGED <<con_transaction, con_discharged, con_discharges, con_fetches,
                     con_alive, con_shown, con_kept>>
      /\ WireInv' /\ (con_wire' = <<>> => con_alive)
  <2>1. "flow" \in {"declare", "flow", "accept", "discharge"} /\ "flow" /= "accept"
    OBVIOUS
  <2> QED BY <1>2, <1>3, <2>1, ConNodeFrame
<1>5. Head(con_wire) = x
  BY <1>4, ConFramesAre
<1>6. Coming' = Coming /\ Held' = Held /\ (Committing' <=> Committing)
  <2>1. Committing' <=> Committing
    BY <1>4 DEF Committing
  <2> QED BY <1>3, <1>4, <2>1 DEF Coming, Held
<1>7. ConTypeInv'
  BY <1>1, <1>3, <1>4 DEF ConTypeInv
<1>8. KeptInv' /\ ClosedInv'
  BY <1>1, <1>3, <1>4, <1>6 DEF KeptInv, ClosedInv, ConTypeInv
<1>9. con_alive' => AccountsInv' /\ PhaseInv'
  <2> SUFFICES ASSUME con_alive PROVE AccountsInv' /\ PhaseInv'
    BY <1>4
  <2>1. InTransaction
    BY <1>4, FramePhase
  <2>2. AccountsInv'
    BY <1>1, <1>3, <1>6 DEF AccountsInv
  <2>3. con_fetches' = Count(x, con_wire') + con_credit' + Len(con_replies')
    <3>1. con_wire \in Seq(ConFrames) /\ con_replies \in Seq(ConReplies) /\ con_credit \in Nat
      BY <1>1 DEF ConTypeInv
    <3> HIDE DEF x
    <3>2. Count(x, con_wire) = Count(x, con_wire') + 1 /\ Count(x, con_wire') \in Nat
      BY <1>4, <1>5, <3>1, CountTaken, CountType
    <3>3. PICK a, b, c : a = Count(x, con_wire') /\ b = con_credit /\ c = Len(con_replies)
      OBVIOUS
    <3>4. a \in Nat /\ b \in Nat /\ c \in Nat
      BY <3>1, <3>2, <3>3
    <3>5. con_fetches = Count(x, con_wire) + con_credit + Len(con_replies)
      BY <2>1 DEF InTransaction, x
    <3>6. con_fetches = (a + 1) + b + c
      BY <3>2, <3>3, <3>5
    <3>7. con_fetches = a + (b + 1) + c
      BY <3>4, <3>6
    <3> QED BY <1>3, <1>4, <3>3, <3>7
  <2>4. InTransaction'
    BY <1>3, <1>4, <1>6, <2>1, <2>3 DEF InTransaction
  <2> QED BY <2>2, <2>4 DEF PhaseInv
<1> QED BY <1>4, <1>7, <1>8, <1>9 DEF PatientInv

LEMMA ConNodeStagesStep ==
  ASSUME PatientInv, Console!NodeStages
  PROVE  PatientInv'
<1> DEFINE x == [type |-> "flow"]
           m == Head(con_wire).message
<1>1. ConTypeInv /\ WireInv /\ KeptInv /\ (con_alive => AccountsInv /\ PhaseInv)
  BY DEF PatientInv
<1>2. Console!Frame("accept")
  BY DEF Console!NodeStages
<1>3. /\ UNCHANGED <<con_replies, con_open, con_declared, con_credit, con_waiting,
                     con_consumed>>
  BY DEF Console!NodeStages
<1>4. /\ con_wire /= <<>> /\ Head(con_wire).type = "accept" /\ con_wire' = Tail(con_wire)
      /\ con_wire' \in Seq(ConFrames) /\ Head(con_wire) \in ConFrames
      /\ Elements(con_wire) = {Head(con_wire)} \union Elements(con_wire')
      /\ AcceptedIn(con_wire) = AcceptedIn(con_wire') \union {m}
      /\ UNCHANGED <<con_transaction, con_discharged, con_discharges, con_fetches,
                     con_alive, con_shown, con_kept>>
      /\ WireInv' /\ (con_wire' = <<>> => con_alive)
      /\ Head(con_wire).tx = con_open
  <2>1. "accept" \in {"declare", "flow", "accept", "discharge"}
    OBVIOUS
  <2> QED BY <1>2, <1>3, <2>1, ConNodeFrame
<1>5. con_staged' = con_staged \union {m}
  BY <1>4 DEF Console!NodeStages
<1>6. m \in ConMessages /\ Head(con_wire) /= x
  BY <1>4, ConFramesAre
<1> HIDE DEF m
<1>7. Coming' = Coming /\ Held' = Held /\ (Committing' <=> Committing)
  <2>1. Committing' <=> Committing
    BY <1>4 DEF Committing
  <2> QED BY <1>3, <1>4, <1>5, <2>1 DEF Coming, Held
<1>8. ConTypeInv'
  BY <1>1, <1>3, <1>4, <1>5, <1>6 DEF ConTypeInv
<1>9. KeptInv' /\ ClosedInv'
  BY <1>1, <1>3, <1>4, <1>7 DEF KeptInv, ClosedInv, ConTypeInv
<1>10. con_alive' => AccountsInv' /\ PhaseInv'
  <2> SUFFICES ASSUME con_alive PROVE AccountsInv' /\ PhaseInv'
    BY <1>4
  <2>1. InTransaction \/ Discharging
    BY <1>4, FramePhase
  <2>2. AccountsInv'
    BY <1>1, <1>3, <1>7 DEF AccountsInv
  <2>3. CASE InTransaction
    <3>1. Count(x, con_wire') = Count(x, con_wire)
      <4>1. con_wire \in Seq(ConFrames)
        BY <1>1 DEF ConTypeInv
      <4> HIDE DEF x
      <4>2. Count(x, con_wire) = Count(x, con_wire') + 0 /\ Count(x, con_wire') \in Nat
        BY <1>4, <1>6, <4>1, CountTaken, CountType
      <4> QED BY <4>2
    <3>2. InTransaction'
      BY <1>3, <1>4, <1>7, <2>3, <3>1 DEF InTransaction
    <3> QED BY <2>2, <3>2 DEF PhaseInv
  <2>4. CASE Discharging
    <3>1. \E f \in Elements(con_wire') : f.type = "discharge"
      BY <1>4, <2>4 DEF Discharging
    <3>2. Discharging'
      BY <1>3, <1>4, <2>4, <3>1 DEF Discharging, Quiet
    <3> QED BY <2>2, <3>2 DEF PhaseInv
  <2> QED BY <2>1, <2>3, <2>4
<1> QED BY <1>4, <1>8, <1>9, <1>10 DEF PatientInv

LEMMA ConNodeDischargesStep ==
  ASSUME PatientInv, Console!NodeDischarges
  PROVE  PatientInv'
<1> DEFINE d == Head(con_wire)
           t == IF d.commit THEN "committed" ELSE "aborted"
           e == [type |-> t, n |-> con_discharges]
<1>1. /\ ConTypeInv /\ WireInv /\ KeptInv /\ (con_alive => AccountsInv /\ PhaseInv)
  BY DEF PatientInv
<1>2. Console!Frame("discharge")
  BY DEF Console!NodeDischarges
<1>3. /\ con_wire /= <<>> /\ d.type = "discharge" /\ con_wire' = Tail(con_wire)
      /\ con_wire' \in Seq(ConFrames) /\ d \in ConFrames
      /\ Elements(con_wire) = {d} \union Elements(con_wire')
      /\ AcceptedIn(con_wire) = AcceptedIn(con_wire')
      /\ UNCHANGED <<con_transaction, con_discharged, con_discharges, con_fetches,
                     con_alive, con_shown, con_kept>>
      /\ d.tx = con_open /\ d.n = con_discharges
      /\ WireInv' /\ (con_wire' = <<>> => con_alive)
      /\ \A f \in Elements(con_wire') : f.type = "close"
  <2>1. "discharge" \in {"declare", "flow", "accept", "discharge"}
        /\ "discharge" \in {"declare", "discharge"} /\ "discharge" /= "accept"
        /\ "discharge" \in {"accept", "discharge"}
    OBVIOUS
  <2> QED BY <1>2, <2>1, ConNodeFrame
<1>4. d.commit \in BOOLEAN
  BY <1>3, ConFramesAre
<1>5. /\ con_replies' = Append(con_replies, e)
      /\ con_open' = 0 /\ con_staged' = {}
      /\ con_consumed' = IF d.commit THEN con_consumed \union con_staged ELSE con_consumed
      /\ con_waiting' = IF d.commit THEN con_waiting ELSE con_waiting \union con_staged
      /\ UNCHANGED <<con_declared, con_credit>>
  BY <1>3, <1>4 DEF Console!NodeDischarges
<1>6. e \in ConReplies /\ e.type /= "message" /\ t \in {"committed", "aborted"}
  BY <1>1, ConRepliesAre DEF ConTypeInv
<1>7. con_replies' \in Seq(ConReplies) /\ Coming' = Coming
  <2>1. con_replies \in Seq(ConReplies)
    BY <1>1 DEF ConTypeInv
  <2> HIDE DEF e
  <2>2. con_replies' \in Seq(ConReplies)
    BY <1>5, <1>6, <2>1, Extended
  <2>3. ComingIn(con_replies') = ComingIn(con_replies) \union {}
    BY <1>5, <1>6, <2>1, ComingChange
  <2> QED BY <2>2, <2>3 DEF Coming
<1>8. Held = con_staged /\ Held' = {} /\ (Committing <=> d.commit) /\ ~Committing'
  <2>1. AcceptedIn(con_wire') = {} /\ AcceptedIn(con_wire) = {}
    BY <1>3, NothingIn
  <2>2. (Committing <=> d.commit) /\ ~Committing'
    BY <1>3 DEF Committing
  <2> QED BY <1>5, <2>1, <2>2 DEF Held
<1> HIDE DEF e, t, d
<1>9. ConTypeInv'
  BY <1>1, <1>3, <1>5, <1>7 DEF ConTypeInv
<1>10. KeptInv'
  BY <1>1, <1>3, <1>5, <1>8 DEF KeptInv
<1>11. ClosedInv'
  BY <1>3 DEF ClosedInv
<1>12. con_alive' => AccountsInv' /\ PhaseInv'
  <2> SUFFICES ASSUME con_alive PROVE AccountsInv' /\ PhaseInv'
    BY <1>3
  <2>1. Discharging /\ con_wire' = <<>>
    BY <1>3, FramePhase DEF d
  <2>2. AccountsInv'
    <3>1. Coming = {}
      BY <2>1, NothingIn DEF Discharging, Coming
    <3>2. /\ con_waiting = ConMessages \ (con_consumed \union con_staged)
          /\ con_consumed \intersect con_staged = {} /\ con_staged \subseteq ConMessages
      BY <1>1, <1>3, <1>8, <3>1 DEF AccountsInv, ConTypeInv
    <3> QED BY <1>5, <1>7, <1>8, <3>1, <3>2 DEF AccountsInv
  <2>3. con_replies' = <<[type |-> t, n |-> con_discharges']>>
    BY <1>3, <1>5, <2>1 DEF Discharging, e
  <2>4. Discharged'
    BY <1>1, <1>3, <1>5, <1>6, <2>1, <2>3 DEF Discharging, Discharged, Quiet, ConTypeInv
  <2> QED BY <2>2, <2>4 DEF PhaseInv
<1> QED BY <1>3, <1>9, <1>10, <1>11, <1>12 DEF PatientInv

LEMMA ConNodeClosesStep ==
  ASSUME PatientInv, Console!NodeCloses
  PROVE  PatientInv'
<1>1. ConTypeInv /\ WireInv /\ KeptInv
  BY DEF PatientInv
<1>2. /\ con_wire /= <<>> /\ Head(con_wire).type = "close" /\ con_wire' = Tail(con_wire)
      /\ con_open' = 0 /\ con_staged' = {} /\ con_credit' = 0
      /\ con_waiting' = ConMessages \ con_consumed
      /\ UNCHANGED <<con_transaction, con_discharged, con_discharges, con_fetches,
                     con_alive, con_shown, con_kept, con_replies, con_declared, con_consumed>>
  BY DEF Console!NodeCloses, Console!Frame, Console!progVars, Console!userVars, ConMessages
<1>3. /\ Head(con_wire) = con_wire[1] /\ 1 \in DOMAIN con_wire
      /\ con_wire' \in Seq(ConFrames) /\ Len(con_wire') = Len(con_wire) - 1
      /\ Elements(con_wire) = {Head(con_wire)} \union Elements(con_wire')
  BY <1>1, <1>2, Shifted DEF ConTypeInv
<1>4. ~con_alive /\ Len(con_wire) = 1
  BY <1>1, <1>2, <1>3 DEF WireInv
<1>5. con_wire' = <<>>
  BY <1>3, <1>4, EmptySeq
<1>6. ~Committing /\ ~Committing'
  BY <1>2, <1>3, <1>5, NothingIn DEF Committing
<1>7. ConTypeInv'
  BY <1>1, <1>2, <1>3 DEF ConTypeInv
<1>8. WireInv'
  BY <1>5, <1>3 DEF WireInv
<1>9. KeptInv' /\ ClosedInv'
  BY <1>1, <1>2, <1>6 DEF KeptInv, ClosedInv
<1> QED BY <1>2, <1>4, <1>7, <1>8, <1>9 DEF PatientInv

LEMMA ConNodeHandsOutStep ==
  ASSUME PatientInv, Console!NodeHandsOut
  PROVE  PatientInv'
<1> DEFINE m == Console!Min(con_waiting)
           e == [type |-> "message", message |-> m]
<1>1. /\ ConTypeInv /\ WireInv /\ KeptInv /\ ClosedInv
      /\ (con_alive => AccountsInv /\ PhaseInv)
  BY DEF PatientInv
<1>2. /\ con_credit > 0 /\ con_waiting /= {} /\ con_credit' = con_credit - 1
      /\ con_waiting' = con_waiting \ {m} /\ con_replies' = Append(con_replies, e)
      /\ UNCHANGED <<con_transaction, con_discharged, con_discharges, con_fetches,
                     con_alive, con_wire, con_open, con_declared, con_staged,
                     con_consumed, con_shown, con_kept>>
  BY DEF Console!NodeHandsOut, Console!progVars, Console!userVars
<1>3. m \in con_waiting
  <2>1. con_waiting \subseteq Nat
    BY <1>1, ProgramsAssumption DEF ConTypeInv, ConMessages, Console!Messages
  <2> QED BY <1>2, <2>1, LeastWaiting
<1>4. e \in ConReplies /\ e.type = "message" /\ e.message = m
  BY <1>1, <1>3, ConRepliesAre DEF ConTypeInv
<1> HIDE DEF e, m
<1>5. /\ con_replies' \in Seq(ConReplies) /\ Len(con_replies') = Len(con_replies) + 1
      /\ Len(con_replies) \in Nat
      /\ Elements(con_replies') = Elements(con_replies) \union {e}
      /\ Coming' = Coming \union {m} /\ Held' = Held
  <2>1. con_replies \in Seq(ConReplies)
    BY <1>1 DEF ConTypeInv
  <2>2. /\ con_replies' \in Seq(ConReplies) /\ Len(con_replies') = Len(con_replies) + 1
        /\ Len(con_replies) \in Nat
        /\ Elements(con_replies') = Elements(con_replies) \union {e}
    BY <1>2, <1>4, <2>1, Extended
  <2>3. ComingIn(con_replies') = ComingIn(con_replies) \union {m}
    BY <1>2, <1>4, <2>1, ComingChange
  <2> QED BY <1>2, <2>2, <2>3 DEF Coming, Held
<1>6. ConTypeInv'
  BY <1>1, <1>2, <1>5 DEF ConTypeInv
<1>7. WireInv' /\ KeptInv'
  <2>1. Committing' <=> Committing
    BY <1>2 DEF Committing
  <2> QED BY <1>1, <1>2, <1>5, <2>1 DEF WireInv, KeptInv
<1>8. ClosedInv'
  BY <1>1, <1>2 DEF ClosedInv
<1>9. con_alive' => AccountsInv' /\ PhaseInv'
  <2> SUFFICES ASSUME con_alive PROVE AccountsInv' /\ PhaseInv'
    BY <1>2
  <2>1. InTransaction
    <3>1. con_credit /= 0
      BY <1>2
    <3> QED BY <1>1, <3>1 DEF PhaseInv, Declaring, Declared, Discharging, Discharged, Quiet
  <2>2. AccountsInv'
    BY <1>1, <1>2, <1>3, <1>5 DEF AccountsInv
  <2>3. con_fetches' = Count([type |-> "flow"], con_wire') + con_credit' + Len(con_replies')
    <3>1. PICK a, b, c : /\ a = Count([type |-> "flow"], con_wire) /\ b = con_credit
                         /\ c = Len(con_replies)
      OBVIOUS
    <3>2. a \in Nat /\ b \in Nat /\ c \in Nat
      BY <1>1, <1>5, <3>1, CountType DEF ConTypeInv
    <3>3. con_fetches = a + b + c
      BY <2>1, <3>1 DEF InTransaction
    <3>4. con_fetches = a + (b - 1) + (c + 1)
      BY <3>2, <3>3
    <3> QED BY <1>2, <1>5, <3>1, <3>4
  <2>4. InTransaction'
    BY <1>2, <1>4, <1>5, <2>1, <2>3 DEF InTransaction
  <2> QED BY <2>2, <2>4 DEF PhaseInv
<1> QED BY <1>2, <1>6, <1>7, <1>8, <1>9 DEF PatientInv

LEMMA ConStep ==
  ASSUME ConInv, [Console!Next]_Console!vars
  PROVE  ConInv'
<1>1. con_hasty \in BOOLEAN /\ (con_hasty \/ PatientInv)
  BY DEF ConInv
<1>2. CASE Console!OnFetch
  <2>1. con_hasty' = (con_hasty \/ ~Console!Ready)
    BY <1>2 DEF Console!OnFetch, Console!Command
  <2> QED BY <1>1, <1>2, <2>1, ConFetchStep DEF ConInv
<1>3. ASSUME NEW commit \in BOOLEAN, Console!Discharge(commit),
             con_kept' = IF commit THEN con_kept \union con_shown ELSE con_kept
      PROVE  ConInv'
  <2>1. con_hasty' = (con_hasty \/ ~(Console!Ready /\ con_fetches = 0))
    BY <1>3 DEF Console!Discharge, Console!Command
  <2> QED BY <1>1, <1>3, <2>1, ConDischargeStep DEF ConInv
<1>4. CASE Console!OnCommit \/ Console!OnAbort
  BY <1>3, <1>4 DEF Console!OnCommit, Console!OnAbort
<1>5. CASE Console!OnQuit
  <2>1. con_hasty' = (con_hasty \/ ~TRUE)
    BY <1>5 DEF Console!OnQuit, Console!Command
  <2> QED BY <1>1, <1>5, <2>1, ConQuitStep DEF ConInv
<1>6. CASE Console!Handlers
  <2>1. con_hasty' = con_hasty
    BY <1>6 DEF Console!Handlers, Console!OnMessage, Console!OnTransactionDeclared,
       Console!OnTransactionCommitted, Console!OnTransactionAborted, Console!OtherOutcome,
       Console!userVars
  <2>2. PatientInv => ~Console!OtherOutcome
    <3> SUFFICES ASSUME PatientInv, Console!OtherOutcome PROVE FALSE
      OBVIOUS
    <3>1. /\ con_alive /\ con_replies /= <<>>
          /\ \/ Head(con_replies).type = "refused"
             \/ /\ Head(con_replies).type \in {"refused", "committed", "aborted"}
                /\ Head(con_replies).n /= con_discharges
      BY DEF Console!OtherOutcome, Console!Outcome, Console!Reply
    <3> QED BY <3>1, ReplyPhase
  <2>3. PatientInv => PatientInv'
    BY <1>6, <2>2, ConOnMessageStep, ConOnTransactionDeclaredStep, ConOutcomeStep
       DEF Console!Handlers
  <2> QED BY <1>1, <2>1, <2>3 DEF ConInv
<1>7. CASE Console!Node \/ Console!NodeHandsOut
  <2>1. con_hasty' = con_hasty
    BY <1>7 DEF Console!Node, Console!NodeDeclares, Console!NodeGetsCredit, Console!NodeStages,
       Console!NodeDischarges, Console!NodeCloses, Console!NodeHandsOut, Console!Frame,
       Console!userVars
  <2>2. PatientInv => PatientInv'
    BY <1>7, ConNodeDeclaresStep, ConNodeGetsCreditStep, ConNodeStagesStep,
       ConNodeDischargesStep, ConNodeClosesStep, ConNodeHandsOutStep DEF Console!Node
  <2> QED BY <1>1, <2>1, <2>2 DEF ConInv
<1>8. CASE UNCHANGED Console!vars
  <2>1. UNCHANGED <<con_transaction, con_discharged, con_discharges, con_fetches, con_alive,
                    con_wire, con_replies, con_open, con_declared, con_credit, con_waiting,
                    con_staged, con_consumed, con_shown, con_kept, con_hasty>>
    BY <1>8 DEF Console!vars, Console!progVars, Console!nodeVars, Console!userVars
  <2>2. Held' = Held /\ Coming' = Coming /\ (Committing' <=> Committing)
    BY <2>1 DEF Held, Coming, Committing
  <2>3. PatientInv => ConTypeInv' /\ WireInv' /\ KeptInv' /\ ClosedInv'
    BY <2>1, <2>2 DEF PatientInv, ConTypeInv, WireInv, KeptInv, ClosedInv
  <2>4. PatientInv => (con_alive' => AccountsInv' /\ PhaseInv')
    BY <2>1, <2>2 DEF PatientInv, AccountsInv, PhaseInv, Quiet, Declaring, Declared,
       InTransaction, Discharging, Discharged
  <2> QED BY <1>1, <2>1, <2>3, <2>4 DEF ConInv, PatientInv
<1> QED BY <1>2, <1>4, <1>5, <1>6, <1>7, <1>8 DEF Console!Next, Console!User

\* For a user of tx_recv_interactive.py who waits for the program's answers: when
\* nothing is on its way, the node has consumed exactly what was committed, holds for
\* the program's transaction what was shown since, and hands out everything else.
THEOREM CommandsTakeEffectHolds == Spec => []CommandsTakeEffect
<1>1. Init => ConInv
  BY ConStart DEF Init
<1>2. ConInv /\ [Next]_vars => ConInv'
  BY ConStep, Runs
<1>3. ASSUME ConInv PROVE CommandsTakeEffect
  <2> SUFFICES ASSUME ~con_hasty, con_wire = <<>>, con_replies = <<>>
               PROVE  /\ con_consumed = con_kept
                      /\ con_staged = IF con_alive THEN con_shown ELSE {}
                      /\ con_waiting = ConMessages \ (con_consumed \union con_staged)
                      /\ con_alive => con_transaction = con_open /\ Console!Ready
    BY DEF CommandsTakeEffect, Console!CommandsTakeEffect, ConMessages
  <2>1. PatientInv
    BY <1>3 DEF ConInv
  <2>2. ~Committing /\ Held = con_staged /\ Coming = {}
    BY NothingIn DEF Committing, Held, Coming
  <2>3. con_consumed = con_kept
    BY <2>1, <2>2 DEF PatientInv, KeptInv
  <2>4. CASE con_alive
    <3>1. InTransaction /\ AccountsInv
      BY <2>1, <2>4, NothingIn
         DEF PatientInv, PhaseInv, Declaring, Declared, Discharging, Discharged
    <3>2. con_transaction > con_discharged
      BY <2>1, <3>1 DEF InTransaction, PatientInv, ConTypeInv
    <3> QED BY <2>2, <2>3, <2>4, <3>1, <3>2 DEF InTransaction, AccountsInv, Console!Ready
  <2>5. CASE ~con_alive
    BY <2>1, <2>3, <2>5 DEF PatientInv, ClosedInv
  <2> QED BY <2>4, <2>5
<1> QED BY <1>1, <1>2, <1>3, PTL DEF Spec
=============================================================================
