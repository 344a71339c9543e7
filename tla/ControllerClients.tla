-------------------------- MODULE ControllerClients -------------------------
(***************************************************************************)
(* A client application of slurmctld: sackd, which needs the controllers'  *)
(* addresses, or slurmrestd, which needs the whole configuration, each     *)
(* with the authentication key's secret.  The leader of slurmctld fills    *)
(* the integration's data bag from several handlers: the one of the new    *)
(* connection overwrites it and grants the secret, the others merge a new  *)
(* version into it.  The client takes the data over once it is complete.   *)
(*                                                                         *)
(* A version stands for the controllers or the configuration files of one  *)
(* moment.  A handler whose conditions do not hold defers its event, which *)
(* then stays due; a failed hook is repeated.  Keys are the subject of     *)
(* AuthKeyRotation: here a new key only has an effect on the service.      *)
(***************************************************************************)
EXTENDS Naturals

CONSTANTS
  Controllers,  \* the units of slurmctld
  First,        \* the one that leads at the start
  Apps,         \* kinds of client looked at, of "sackd" and "slurmrestd"
  MaxVersion,   \* bound on the versions
  Faults        \* what may go wrong, a subset of FaultKinds

FaultKinds ==
  { "down",        \* slurmctld stops
    "restart",     \* slurmctld does not come up in _reconfigure
    "scontrol",    \* scontrol reconfigure fails in _reconfigure
    "leadership",  \* another unit of slurmctld becomes the leader
    "service",     \* systemd fails on the client
    "install",     \* installing the client fails after its package is there
    "hasty" }      \* the client is integrated again before it has stopped

ASSUME FirstKnown    == First \in Controllers
ASSUME AppsKnown     == Apps \subseteq {"sackd", "slurmrestd"}
ASSUME MaxVersionPos == MaxVersion \in Nat \ {0}
ASSUME FaultsKnown   == Faults \subseteq FaultKinds

VARIABLES
  app,         \* the kind of the client
  leader,      \* leader of slurmctld
  active,      \* slurmctld.service is active
  accounting,  \* slurmdbd has published its host (database_ready)
  newest,      \* version on slurmctld's side
  failed,      \* the leader's last _reconfigure ended before it published anything
  holds,       \* units with a deferred event that changes slurm.conf
  behind,      \* a unit that leads no more has changed slurm.conf since the leader
               \* last published it
  joined,      \* the integration exists
  pending,     \* units of slurmctld with the connected event to handle
  bag,         \* its data: the secret's id, and a version or 0
  installed,   \* the client is installed
  due,         \* events due on the client, or deferred
  files,       \* version in its files, 0 for none
  using,       \* version its service runs with, 0 if stopped
  tracks,      \* the client has read the secret, under its label
  lost         \* the integration does not work: the connected event was handled by
               \* a unit that leads no more, or the late event of an earlier
               \* integration, or a deferred install, has stopped the client

changeVars == <<holds, behind>>
ctlVars == <<leader, active, accounting, newest, failed, changeVars>>
clientVars == <<installed, files, using, tracks>>
vars == <<app, ctlVars, joined, pending, bag, clientVars, due, lost>>

NoData == [auth |-> FALSE, data |-> 0]
Events == {"install", "ready", "disconnected", "secret"}

TypeOK ==
  /\ app \in Apps /\ leader \in Controllers /\ pending \subseteq Controllers
  /\ active \in BOOLEAN /\ accounting \in BOOLEAN /\ failed \in BOOLEAN
  /\ holds \subseteq Controllers /\ behind \in BOOLEAN
  /\ joined \in BOOLEAN /\ installed \in BOOLEAN /\ tracks \in BOOLEAN /\ lost \in BOOLEAN
  /\ newest \in 1 .. MaxVersion
  /\ bag \in [auth : BOOLEAN, data : 0 .. MaxVersion]
  /\ due \subseteq Events
  /\ files \in 0 .. MaxVersion /\ using \in 0 .. MaxVersion

Init ==
  /\ app \in Apps /\ leader = First /\ pending = {}
  /\ active = TRUE /\ accounting = FALSE /\ newest = 1 /\ failed = FALSE
  /\ holds = {} /\ behind = FALSE
  /\ joined = FALSE /\ bag = NoData
  /\ installed = FALSE /\ due = {} /\ files = 0 /\ using = 0 /\ tracks = FALSE
  /\ lost = FALSE

(***************************************************************************)
(* The data bag.  A definition named ...Bug is a faulty variant of the one *)
(* after it, kept to show which property notices it.                       *)
(***************************************************************************)

\* set_controller_data overwrites the bag and grants the secret, which Juju
\* takes back with the integration ...
Written(version) == [auth |-> TRUE, data |-> version]

\* ... or, with merge=True, replaces a field that is not empty.
Merged(version) == IF joined THEN [bag EXCEPT !.data = version] ELSE bag

\* is_ready of the client, with the validators of both interfaces.
Complete == bag.auth /\ bag.data # 0

\* Events for the client besides the given ones: if its bag changes it gets
\* relation-changed, which emits slurmctld_ready.
Told(events) == due' = due \cup events \cup (IF bag' # bag THEN {"ready"} ELSE {})

\* _reconfigure: nothing unless slurmctld is active, restart it, scontrol
\* reconfigure; if it gets there it publishes the files to slurmrestd.
Reconfigure ==
  \/ /\ failed' = ~active /\ UNCHANGED active
  \/ /\ active /\ "restart" \in Faults
     /\ active' = FALSE /\ failed' = TRUE
  \/ /\ active /\ "scontrol" \in Faults
     /\ failed' = TRUE /\ UNCHANGED active

(***************************************************************************)
(* slurmctld                                                               *)
(***************************************************************************)

\* The leader sees relation-created and emits the connected event.
Integrate ==
  /\ ~joined
  /\ ("disconnected" \notin due) \/ "hasty" \in Faults
  /\ joined' = TRUE /\ pending' = {leader}
  /\ UNCHANGED <<app, ctlVars, bag, clientVars, due, lost>>

\* Relation-broken on the client; its deferred slurmctld_ready has no data left.
\* Juju may keep or forget that the client has read the secret.
Separate ==
  /\ joined
  /\ joined' = FALSE /\ pending' = {} /\ bag' = NoData /\ lost' = FALSE
  /\ due' = (due \ {"ready"}) \cup {"disconnected"}
  /\ tracks' \in {FALSE, tracks}
  /\ UNCHANGED <<app, ctlVars, installed, files, using>>

\* sackd_connected or slurmrestd_connected, deferred until slurmctld runs and,
\* for slurmrestd, has accounting.  set_controller_data does nothing on a unit
\* that leads no more.
Connected(u) ==
  /\ u \in pending /\ active
  /\ app = "slurmrestd" => accounting
  /\ pending' = pending \ {u}
  /\ bag' = IF u = leader THEN Written(newest) ELSE bag
  /\ behind' = (behind /\ u # leader)
  /\ lost' = (u # leader)
  /\ Told({})
  /\ UNCHANGED <<app, leader, active, accounting, newest, failed, holds, joined, clientVars>>

\* A handler of the leader that changes slurm.conf waits, deferred, ...
DeferChange ==
  /\ newest < MaxVersion
  /\ holds' = holds \cup {leader}
  /\ UNCHANGED <<app, leader, active, accounting, newest, failed, behind, joined, pending, bag,
                 clientVars, due, lost>>

\* ... or changes it, at once or later.  Controllers go to sackd at once
\* (_refresh_controllers), the files to slurmrestd by _reconfigure, if it gets
\* there.  Variant: sackd too is told after a successful _reconfigure.
LeaderChangesBug(u) ==
  /\ u = leader
  /\ newest < MaxVersion
  /\ newest' = newest + 1
  /\ Reconfigure
  /\ bag' = IF failed' THEN bag ELSE Merged(newest + 1)
  /\ behind' = (behind /\ app = "slurmrestd" /\ failed')
  /\ holds' = holds \ {u}
  /\ Told({})
  /\ UNCHANGED <<app, leader, accounting, joined, pending, clientVars, lost>>
LeaderChanges(u) ==
  /\ u = leader
  /\ newest < MaxVersion
  /\ newest' = newest + 1
  /\ Reconfigure
  /\ bag' = IF app = "slurmrestd" /\ failed' THEN bag ELSE Merged(newest + 1)
  /\ behind' = (behind /\ app = "slurmrestd" /\ failed')
  /\ holds' = holds \ {u}
  /\ Told({})
  /\ UNCHANGED <<app, leader, accounting, joined, pending, clientVars, lost>>

\* The deferred handler of a unit that leads no more edits slurm.conf, which the
\* controllers share, but set_controller_data does nothing.
FollowerChanges(u) ==
  /\ u \in holds /\ u # leader
  /\ newest < MaxVersion
  /\ newest' = newest + 1
  /\ behind' = TRUE
  /\ holds' = holds \ {u}
  /\ UNCHANGED <<app, leader, active, accounting, failed, joined, pending, bag, clientVars, due, lost>>

\* rotate-auth-key: no new secret if _reconfigure raises, which it does not if
\* slurmctld is stopped.  A client that has read the secret is told of the new one,
\* unless it has no access, when it may be or not.
RotateKey ==
  /\ Reconfigure
  /\ bag' = IF app = "slurmrestd" /\ ~failed' THEN Merged(newest) ELSE bag
  /\ behind' = (behind /\ (app = "sackd" \/ failed'))
  /\ \E told \in BOOLEAN :
       /\ bag.auth => told
       /\ Told(IF tracks /\ told /\ (active => ~failed') THEN {"secret"} ELSE {})
  /\ UNCHANGED <<app, leader, accounting, newest, holds, joined, pending, clientVars, lost>>

\* The start hook, after a reboot or deferred: it restarts slurmctld and tells
\* no client.
StartController ==
  /\ ~active
  /\ active' = TRUE
  /\ UNCHANGED <<app, leader, accounting, newest, failed, changeVars, joined, pending, bag, clientVars, due, lost>>

StopController ==
  /\ "down" \in Faults /\ active
  /\ active' = FALSE
  /\ UNCHANGED <<app, leader, accounting, newest, failed, changeVars, joined, pending, bag, clientVars, due, lost>>

\* slurmdbd publishes its host, or leaves.
AccountingChanges ==
  /\ accounting' = ~accounting
  /\ UNCHANGED <<app, leader, active, newest, failed, changeVars, joined, pending, bag, clientVars, due, lost>>

LeaderMoves(u) ==
  /\ "leadership" \in Faults /\ u # leader
  /\ leader' = u
  /\ UNCHANGED <<app, active, accounting, newest, failed, changeVars, joined, pending, bag, clientVars, due, lost>>

(***************************************************************************)
(* The client                                                              *)
(***************************************************************************)

\* install leaves the service stopped and disabled.  A failure is deferred, also one
\* after the package is there (sackd: the exporter, slurmrestd: its user) ...
Install ==
  /\ ~installed
  /\ installed' = TRUE
  /\ \/ UNCHANGED due
     \/ "install" \in Faults /\ due' = due \cup {"install"}
  /\ UNCHANGED <<app, ctlVars, joined, pending, bag, files, using, tracks, lost>>

\* ... and then stops the service that a slurmctld_ready has started meanwhile.
Reinstall ==
  /\ installed /\ "install" \in due
  /\ \/ using' = 0 /\ due' = due \ {"install"}
     \/ using' \in {0, using} /\ UNCHANGED due   \* it fails again
  /\ lost' = (lost \/ using # using')
  /\ UNCHANGED <<app, ctlVars, joined, pending, bag, installed, files, tracks>>

Handles(event) == installed /\ event \in due

\* slurmctld_ready: write the key and the data, enable, restart.
ReadyOk ==
  /\ Handles("ready") /\ Complete
  /\ files' = bag.data /\ tracks' = TRUE
  /\ using' = bag.data
  /\ due' = due \ {"ready"}
  /\ UNCHANGED <<app, ctlVars, joined, pending, bag, installed, lost>>

\* ... enable or restart fails, and the event is deferred (sackd: the hook fails).
\* Variant: it is not.
ReadyFailsBug ==
  /\ "service" \in Faults
  /\ Handles("ready") /\ Complete
  /\ files' = bag.data /\ tracks' = TRUE
  /\ using' \in {using, 0}
  /\ due' = due \ {"ready"}
  /\ UNCHANGED <<app, ctlVars, joined, pending, bag, installed, lost>>
ReadyFails ==
  /\ "service" \in Faults
  /\ Handles("ready") /\ Complete
  /\ files' = bag.data /\ tracks' = TRUE
  /\ using' \in {using, 0}
  /\ UNCHANGED <<app, ctlVars, joined, pending, bag, installed, due, lost>>

\* slurmctld_disconnected: stop and disable; sackd also forgets the controllers.
DisconnectedOk ==
  /\ Handles("disconnected")
  /\ using' = 0
  /\ files' = IF app = "sackd" THEN 0 ELSE files
  /\ due' = due \ {"disconnected"}
  /\ lost' = (lost \/ joined)
  /\ UNCHANGED <<app, ctlVars, joined, pending, bag, installed, tracks>>

\* ... one of the two fails, and the event is deferred.  Variant: it is not.
DisconnectedFailsBug ==
  /\ "service" \in Faults
  /\ Handles("disconnected")
  /\ using' \in {using, 0}
  /\ lost' = (lost \/ joined)
  /\ due' = due \ {"disconnected"}
  /\ UNCHANGED <<app, ctlVars, joined, pending, bag, installed, files, tracks>>
DisconnectedFails ==
  /\ "service" \in Faults
  /\ Handles("disconnected")
  /\ using' \in {using, 0}
  /\ lost' = (lost \/ joined)
  /\ UNCHANGED <<app, ctlVars, joined, pending, bag, installed, files, tracks, due>>

\* secret_changed: the secret can be read while it is granted.  sackd reloads,
\* which a stopped service cannot do; slurmrestd restarts, stopped or not.
SecretChangedOk ==
  /\ Handles("secret") /\ bag.auth
  /\ app = "sackd" => using # 0
  /\ using' = IF app = "slurmrestd" THEN files ELSE using
  /\ due' = due \ {"secret"}
  /\ UNCHANGED <<app, ctlVars, joined, pending, bag, installed, files, tracks, lost>>

\* ... the restart fails, and the hook is repeated; a reload that fails changes
\* nothing and is deferred.
SecretChangedFails ==
  /\ "service" \in Faults /\ app = "slurmrestd"
  /\ Handles("secret") /\ bag.auth
  /\ using' = 0
  /\ UNCHANGED <<app, ctlVars, joined, pending, bag, installed, files, tracks, due, lost>>

Client ==
  \/ Install \/ Reinstall \/ ReadyOk \/ ReadyFails \/ DisconnectedOk \/ DisconnectedFails
  \/ SecretChangedOk \/ SecretChangedFails

Next ==
  \/ Integrate \/ Separate \/ DeferChange \/ RotateKey
  \/ StartController \/ StopController \/ AccountingChanges
  \/ \E u \in Controllers :
       Connected(u) \/ LeaderChanges(u) \/ FollowerChanges(u) \/ LeaderMoves(u)
  \/ Client

Spec == Init /\ [][Next]_vars

\* slurmctld is started again, systemd does not fail for ever, and what can be
\* handled time and again is handled.
Fairness ==
  /\ WF_vars(StartController) /\ WF_vars(Install)
  /\ \A u \in Controllers : SF_vars(Connected(u))
  /\ SF_vars(ReadyOk) /\ SF_vars(SecretChangedOk)

FairSpec == Spec /\ Fairness

(***************************************************************************)
(* Properties                                                              *)
(***************************************************************************)
Contract == INSTANCE ServiceContract WITH
  offered <- IF Complete THEN bag.data ELSE 0,
  told <- due # {}

\* Whatever is deferred, fails, or is repeated in whichever order, each step keeps
\* the promise of ServiceContract: every change of the bag reaches the client as an
\* event that stays due until the service runs with the bag's version, or is
\* stopped.  In particular a client with nothing left to handle never runs on with
\* an old configuration, nor after its integration.
ImplementsContract == Contract!Spec

\* A client that was connected finds the newest version in its bag, however its
\* connection, the changes and the failures were interleaved, in all but two cases:
\* slurmrestd after a _reconfigure that ended early (nothing repeats it,
\* charm.py:915-943), and a change made by a unit that leads no more, until the
\* leader publishes again.
PublishedIsNewest ==
  joined /\ bag.auth =>
    (bag.data = newest \/ (app = "slurmrestd" /\ failed) \/ behind)

\* A client that is integrated gets to run with what is published, unless the
\* connected event was lost with the leadership or slurmrestd has no accounting to
\* wait for, although connections are deferred and systemd fails.
Serving == Complete /\ using = bag.data
Served ==
  joined ~> (Serving \/ ~joined \/ lost \/ (app = "slurmrestd" /\ ~accounting))
=============================================================================
