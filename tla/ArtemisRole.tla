---------------------------- MODULE ArtemisRole ----------------------------
(***************************************************************************)
(* The Ansible role artemis, played again and again: for each broker it    *)
(* creates the instance with artemis_create.py unless its directory is     *)
(* there, writes the files of its configuration and of its service and     *)
(* enables the service.  Most tasks that change something notify the       *)
(* handler, which runs after all tasks; those for artemis.profile and for  *)
(* the unit of systemd do not.  A task that fails ends the play, and the   *)
(* handler does not run.                                                   *)
(***************************************************************************)
EXTENDS Naturals

CONSTANTS NumBrokers,    \* the length of artemis_brokers
          MaxEdits       \* changes of the configuration by the operator (bound)

VARIABLES
  decoys,      \* brokers whose name is a directory of the module's own directory
  edits,       \* how often the operator changed the configuration
  wanted,      \* for each file the edit that its contents come from
  task,        \* "idle", or the task that the play has to do next
  broker,      \* _broker: set by the loop, it stays set after it
  notified,    \* the handler "restart broker" is notified
  instance,    \* each broker's directory: "absent", "bare", "created"
  recreated,   \* history: "artemis create" ran for a directory that was there
  files,       \* what the files of each broker come from, 0: not from the role
  enabled,     \* the brokers whose service is enabled
  running,     \* the files each broker had read when it was started
  lost         \* history: a notification ended with a play that failed

instances == <<instance, recreated>>
vars == <<decoys, edits, wanted, task, broker, notified, instances, files,
          enabled, running, lost>>

Brokers == 1..NumBrokers

\* broker.xml and bootstrap.xml; artemis.profile; the other files of etc; the
\* unit.  The first and the third notify.
Files     == {"xml", "profile", "others", "unit"}
Notifying == {"xml", "others"}

\* The files of a broker that the role has written nothing for, and what a
\* broker that does not run has read.
None == [f \in Files |-> 0]

Init ==
  /\ decoys \in SUBSET Brokers
  /\ edits = 1 /\ wanted = [f \in Files |-> 1]
  /\ task = "idle" /\ broker = 1 /\ notified = FALSE
  /\ instance = [b \in Brokers |-> "absent"]
  /\ recreated = FALSE
  /\ files = [b \in Brokers |-> None]
  /\ enabled = {}
  /\ running = [b \in Brokers |-> None]
  /\ lost = FALSE

Edit ==
  /\ task = "idle" /\ edits < MaxEdits
  /\ edits' = edits + 1
  /\ \E f \in Files : wanted' = [wanted EXCEPT ![f] = edits']
  /\ UNCHANGED <<decoys, task, broker, notified, instances, files, enabled,
                 running, lost>>

\* The first tasks of the role end with the archive, which notifies the handler
\* when it is extracted.
Play ==
  /\ task = "idle"
  /\ task' = "create" /\ broker' = 1
  /\ notified' \in BOOLEAN
  /\ UNCHANGED <<decoys, edits, wanted, instances, files, enabled, running, lost>>

\* The play goes on with the task next, or ends where it is.
Goes(next, ok) ==
  /\ task' = IF ok THEN next ELSE "idle"
  /\ lost' = (lost \/ (~ok /\ notified))

\* A task that can only fail without having changed anything.
Fails ==
  /\ task \notin {"idle", "handlers"}
  /\ Goes("idle", FALSE)
  /\ UNCHANGED <<decoys, edits, wanted, broker, notified, instances, files,
                 enabled, running>>

-----------------------------------------------------------------------------
(* The tasks for one broker. *)

\* create_broker: it looks for the broker's name, not for its path.  Of the
\* command it asks only whether it wrote to stderr, not for its return code:
\* it goes on with whatever the command has left.
CreateBroker(b) ==
  IF b \in decoys
  THEN UNCHANGED instances /\ Goes("owner", TRUE)
  ELSE /\ \E left \in {instance[b], "bare", "created"} :
            instance' = [instance EXCEPT ![b] = left]
       /\ recreated' = (recreated \/ instance[b] /= "absent")
       /\ \E stderr \in BOOLEAN : Goes("owner", ~stderr)

\* Mutant: the role leaves it to artemis_create.py to look.
CreateAlways ==
  /\ task = "create"
  /\ CreateBroker(broker)
  /\ UNCHANGED <<decoys, edits, wanted, broker, notified, files, enabled, running>>

\* stat, and artemis_create "when: not broker_path.stat.exists".
Create ==
  /\ task = "create"
  /\ IF instance[broker] /= "absent"
     THEN UNCHANGED instances /\ Goes("owner", TRUE)
     ELSE CreateBroker(broker)
  /\ UNCHANGED <<decoys, edits, wanted, broker, notified, files, enabled, running>>

\* "state: directory" makes the directory if it is missing.
Owner ==
  /\ task = "owner"
  /\ instance' = IF instance[broker] = "absent"
                 THEN [instance EXCEPT ![broker] = "bare"] ELSE instance
  /\ Goes("xml", TRUE)
  /\ UNCHANGED <<decoys, edits, wanted, broker, notified, recreated, files,
                 enabled, running>>

\* The task that writes file f, and has changed it if it comes from an older
\* edit.  The files of etc cannot be written into a bare directory.
Write(f, next) ==
  /\ task = f
  /\ f /= "unit" => instance[broker] = "created"
  /\ files' = [files EXCEPT ![broker][f] = wanted[f]]
  /\ notified' = (notified \/ (f \in Notifying /\ files[broker][f] /= wanted[f]))
  /\ Goes(next, TRUE)
  /\ UNCHANGED <<decoys, edits, wanted, broker, instances, enabled, running>>

Configure == \/ Write("xml", "profile")
             \/ Write("profile", "others")
             \/ Write("others", "unit")

\* Enabling does not start the service.
Enable ==
  /\ task = "enable"
  /\ enabled' = enabled \union {broker}
  /\ notified' = (notified \/ broker \notin enabled)
  /\ Goes(IF broker < NumBrokers THEN "create" ELSE "handlers", TRUE)
  /\ broker' = IF broker < NumBrokers THEN broker + 1 ELSE broker
  /\ UNCHANGED <<decoys, edits, wanted, instances, files, running>>

Service == Write("unit", "enable") \/ Enable

-----------------------------------------------------------------------------
(* The handler. *)

NoHandler ==
  /\ task = "handlers" /\ ~notified
  /\ task' = "idle"
  /\ UNCHANGED <<decoys, edits, wanted, broker, notified, instances, files,
                 enabled, running, lost>>

\* Mutant: the broker is the first one again.
RestartsFirst ==
  /\ task = "handlers" /\ notified
  /\ task' = "idle" /\ notified' = FALSE
  /\ \/ running' = [running EXCEPT ![1] = files[1]] /\ lost' = FALSE
     \/ running' = [running EXCEPT ![1] = None] /\ lost' = TRUE
  /\ UNCHANGED <<decoys, edits, wanted, broker, instances, files, enabled>>

\* The broker that _broker names at the end is restarted, or fails to stop or to
\* start.
Restart ==
  /\ task = "handlers" /\ notified
  /\ task' = "idle" /\ notified' = FALSE
  /\ \/ running' = [running EXCEPT ![broker] = files[broker]] /\ lost' = FALSE
     \/ running' \in {running, [running EXCEPT ![broker] = None]} /\ lost' = TRUE
  /\ UNCHANGED <<decoys, edits, wanted, broker, instances, files, enabled>>

Handlers == NoHandler \/ Restart

Next == Edit \/ Play \/ Create \/ Owner \/ Configure \/ Service \/ Fails \/ Handlers

Spec == Init /\ [][Next]_vars

-----------------------------------------------------------------------------
(* Properties *)

\* However often the role is played and wherever it fails, no instance is
\* created over another one, and between the plays the last broker of the list,
\* the one that the handler names, runs with those files of its directory whose
\* tasks notify, unless a notification was lost with a play that failed.
PlaysAreSafe ==
  /\ ~recreated
  /\ task = "idle" /\ ~lost
       => \A f \in Notifying : running[NumBrokers][f] = files[NumBrokers][f]
=============================================================================
