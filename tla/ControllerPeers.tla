-------------------------- MODULE ControllerPeers --------------------------
(***************************************************************************)
(* The controllers of a highly available cluster: how slurmctld units join *)
(* and leave the peer relation, how the leader keeps the SlurmctldHost     *)
(* list of the shared slurm.conf and the endpoints it gives to sackd and   *)
(* slurmd, and how the `restart_signal' nonce makes the other controllers  *)
(* restart.                                                                *)
(*                                                                         *)
(* Every unit mounts the shared /etc/slurm.  One action is one hook: what  *)
(* a hook writes to data bags and to slurm.conf is seen by the others when *)
(* it ends.  Every nonce is a fresh uuid4, so all that matters of it is    *)
(* which units have not yet stored the one in the data bag.                *)
(***************************************************************************)
EXTENDS Integers, FiniteSets, SequencesExt

CONSTANTS
  Units,           \* slurmctld units that may ever exist
  First,           \* the first unit of the deployment, Juju's first leader
  Elastic,         \* the units that may be added or removed; the others stay
  NoName,          \* the cluster name before it is chosen
  LeaderNotified,  \* TRUE: Juju reports the leader's own data-bag write to it
  MaxReconfigures, \* bound on the configuration changes
  Faults           \* what may go wrong, a subset of FaultKinds

FaultKinds ==
  { "leadership",  \* leadership moves although the leader is not leaving
    "early",       \* a unit may become leader before it is settled
    "hasty",       \* a unit is removed before the others have seen it join
    "crash" }      \* a slurmctld service dies, or its machine reboots

ASSUME UnitsFinite            == IsFiniteSet(Units)
ASSUME FirstIsUnit            == First \in Units
ASSUME ElasticUnits           == Elastic \subseteq Units
ASSUME NoNameIsNoUnit         == NoName \notin Units
ASSUME LeaderNotifiedBool     == LeaderNotified \in BOOLEAN
ASSUME MaxReconfiguresNat     == MaxReconfigures \in Nat
ASSUME FaultsKnown            == Faults \subseteq FaultKinds

VARIABLES
  planned,     \* units of the application that are not being removed
  gone,        \* units that were removed
  leader,      \* the leader of the application
  electedDue,  \* the leader's leader-elected hook has yet to run
  hostnames,   \* units whose hostname is in their unit data bag
  view,        \* view[u]: other units whose relation-joined u has seen
  appDue,      \* units with a relation-changed to run for the app data bag
  cluster,     \* the name in the app data bag: the unit that chose it
  unseen,      \* units whose last_restart_signal is not the nonce in the bag
  conf,        \* SlurmctldHost of slurm.conf, << >> while there is no file
  running,     \* running[u]: SlurmctldHost u's slurmctld loaded, << >> if down
  deferred,    \* deferred[u]: charm events of u waiting in its queue
  endpoints,   \* controllers published to sackd and slurmd, << >> if none
  reconfigures \* number of configuration changes so far

jujuVars  == <<planned, gone, leader>>
peerVars  == <<hostnames, view>>
bagVars   == <<cluster, unseen, appDue>>
slurmVars == <<conf, running, endpoints>>
vars == <<jujuVars, electedDue, peerVars, bagVars, slurmVars, deferred, reconfigures>>

Init ==
  /\ planned \in {s \in SUBSET Units : {First} \cup (Units \ Elastic) \subseteq s}
  /\ leader = First
  /\ gone = {}
  /\ electedDue = TRUE
  /\ hostnames = {}
  /\ view = [u \in Units |-> {}]
  /\ appDue = {}
  /\ cluster = NoName
  /\ unseen = {}
  /\ conf = <<>>
  /\ running = [u \in Units |-> <<>>]
  /\ deferred = [u \in Units |-> {}]
  /\ endpoints = <<>>
  /\ reconfigures = 0

(***************************************************************************)
(* Helpers.  A definition named ...Bug is a faulty variant of the one that *)
(* follows it, kept to show which property notices the fault.              *)
(***************************************************************************)

\* A unit that runs hooks: it is not leaving and its peer relation is created.
Ready(u) == u \in planned /\ u \in hostnames

\* Variant: once there is a file, only the units of the relation, which are the
\* other ones.
PeersBug(u, seen) == IF conf = <<>> THEN {u} \cup seen ELSE seen

\* get_controllers: the unit itself and the peers it has seen.
Peers(u, seen) == {u} \cup seen

Listed(c) == c \in ToSet(conf)
Position(c) == CHOOSE i \in DOMAIN conf : conf[i] = c

\* c stands before d in any refreshed list: the file's order is kept and
\* controllers that are new to the file come last, in any order.
Precedes(c, d) == Listed(c) /\ (Listed(d) => Position(c) < Position(d))

\* Variant: the list is rebuilt from the peer relation, a set without order.
HostListsBug(peers) == SetToSeqs(peers)

\* _get_controllers: the lists a refresh may produce from these peers.
HostLists(peers) ==
  {s \in SetToSeqs(peers) :
     \A i, j \in DOMAIN s : i < j => ~Precedes(s[j], s[i])}

\* Variant: the unit itself is counted as a peer to wait for.
AllObservedBug(seen) == Cardinality(seen) = Cardinality(planned)

\* all_units_observed for a unit that has seen `seen'.
AllObserved(seen) == Cardinality(seen) = Cardinality(planned) - 1

\* Units that Juju tells about a write of the leader u to the app data bag.
Told(u) == {v \in planned \cap hostnames : v # u \/ LeaderNotified}

\* Variant: the peers are not signalled.
ReconfiguredBug(u, hosts, due) ==
  /\ running' = IF running[u] = <<>> THEN running ELSE [running EXCEPT ![u] = hosts]
  /\ unseen' = unseen
  /\ appDue' = due

\* _reconfigure on u once slurm.conf lists `hosts', with the hooks of `due'
\* queued for the app data bag.  It does nothing unless the local service is
\* active; slurmctld cannot start with a file that does not list it.  Only the
\* leader signals the others, and its own last_restart_signal stays behind.
Reconfigured(u, hosts, due) ==
  IF running[u] = <<>> \/ cluster = NoName
    THEN running' = running /\ unseen' = unseen /\ appDue' = due
    ELSE IF u \notin ToSet(hosts)
    THEN /\ running' = [running EXCEPT ![u] = <<>>]
         /\ unseen' = unseen
         /\ appDue' = due
    ELSE /\ running' = [running EXCEPT ![u] = hosts]
         /\ unseen' = IF u = leader THEN Units ELSE unseen
         /\ appDue' = IF u = leader THEN due \cup Told(u) ELSE due

\* _refresh_controllers and _reconfigure on u, which has seen the units `seen'.
\* Only a leader's write to the integrations of sackd and slurmd goes through.
Refresh(u, seen, due) ==
  \E hosts \in HostLists(Peers(u, seen)) :
    /\ conf' = hosts
    /\ endpoints' = IF u = leader /\ endpoints # <<>> THEN hosts ELSE endpoints
    /\ Reconfigured(u, hosts, due)

\* _on_slurmctld_changed: deferred until slurm.conf exists.
OnPeersChanged(u, seen, due) ==
  IF conf = <<>>
    THEN /\ deferred' = [deferred EXCEPT ![u] = @ \cup {"peers"}]
         /\ appDue' = due
         /\ UNCHANGED <<conf, running, endpoints, unseen>>
    ELSE /\ Refresh(u, seen, due)
         /\ UNCHANGED deferred

(***************************************************************************)
(* Juju: units come and go, leadership moves.                              *)
(***************************************************************************)
\* A unit whose slurmctld runs and that has seen all the others.  Leadership
\* goes only to such a unit, unless Faults has "early".
Settled(u) == Ready(u) /\ running[u] # <<>> /\ planned \ {u} \subseteq view[u]
MayLead(u) == Settled(u) \/ "early" \in Faults

AddUnit(u) ==
  /\ u \in Elastic \ (planned \cup gone)
  /\ planned' = planned \cup {u}
  /\ UNCHANGED <<gone, leader, electedDue, peerVars, bagVars, slurmVars, deferred, reconfigures>>

\* The unit tears its service down and runs none of the hooks modelled here: a
\* departing leader's relation-departed returns without a refresh.
RemoveUnit(u) ==
  /\ u \in planned \cap Elastic
  /\ (\A v \in planned \ {u} : u \in view[v]) \/ "hasty" \in Faults
  /\ leader \in planned \ {u} \/ \E v \in planned \ {u} : MayLead(v)
  /\ planned # {u}
  /\ planned' = planned \ {u}
  /\ gone' = gone \cup {u}
  /\ running' = [running EXCEPT ![u] = <<>>]
  /\ UNCHANGED <<leader, electedDue, peerVars, bagVars, conf, endpoints, deferred, reconfigures>>

LeaderChanges(u) ==
  /\ u # leader
  /\ u \in planned
  /\ leader \in planned => "leadership" \in Faults
  /\ MayLead(u)
  /\ leader' = u
  /\ electedDue' = TRUE
  /\ UNCHANGED <<planned, gone, peerVars, bagVars, slurmVars, deferred, reconfigures>>

(***************************************************************************)
(* Hooks of unit u                                                         *)
(***************************************************************************)

\* The unit publishes its hostname and the leader names the cluster if nobody
\* has.  The start hook comes later in the same sequence.
RelationCreated(u) ==
  /\ u \in planned
  /\ u \notin hostnames
  /\ hostnames' = hostnames \cup {u}
  /\ IF u = leader /\ cluster = NoName
       THEN cluster' = u /\ appDue' = appDue \cup Told(u)
       ELSE UNCHANGED <<cluster, appDue>>
  /\ deferred' = [deferred EXCEPT ![u] = @ \cup {"start"}]
  /\ UNCHANGED <<jujuVars, electedDue, view, unseen, slurmVars, reconfigures>>

\* Variant: the nonce is stored but no start event follows.
StartEmittedBug(u) == deferred' = deferred

\* The leader has restarted its own service already.
StartEmitted(u) ==
  deferred' = IF u = leader THEN deferred
              ELSE [deferred EXCEPT ![u] = @ \cup {"start"}]

\* _on_relation_changed on u, which has seen the units `seen' and leaves the
\* hooks of `due' queued for the app data bag: a new nonce ends the handler,
\* whatever else the event was about.
OnRelationChanged(u, seen, due) ==
  \/ /\ cluster = NoName
     /\ appDue' = due
     /\ UNCHANGED <<unseen, slurmVars, deferred>>
  \/ /\ cluster # NoName
     /\ u \in unseen
     /\ unseen' = unseen \ {u}
     /\ appDue' = due
     /\ StartEmitted(u)
     /\ UNCHANGED slurmVars
  \/ /\ cluster # NoName
     /\ u \notin unseen
     /\ IF u = leader /\ AllObserved(seen)
          THEN OnPeersChanged(u, seen, due)
          ELSE appDue' = due /\ UNCHANGED <<unseen, slurmVars, deferred>>

\* relation-joined for v, which nothing observes, and the relation-changed that
\* always follows it.
PeerJoined(u, v) ==
  /\ Ready(u)
  /\ v # u
  /\ Ready(v)
  /\ v \notin view[u]
  /\ view' = [view EXCEPT ![u] = @ \cup {v}]
  /\ OnRelationChanged(u, view'[u], appDue)
  /\ UNCHANGED <<jujuVars, electedDue, hostnames, cluster, reconfigures>>

AppChanged(u) ==
  /\ u \in planned
  /\ u \in appDue
  /\ OnRelationChanged(u, view[u], appDue \ {u})
  /\ UNCHANGED <<jujuVars, electedDue, peerVars, cluster, reconfigures>>

PeerDeparted(u, v) ==
  /\ u \in planned
  /\ v \in view[u] \cap gone
  /\ view' = [view EXCEPT ![u] = @ \ {v}]
  /\ IF u = leader /\ AllObserved(view'[u])
       THEN OnPeersChanged(u, view'[u], appDue)
       ELSE UNCHANGED <<appDue, unseen, slurmVars, deferred>>
  /\ UNCHANGED <<jujuVars, electedDue, hostnames, cluster, reconfigures>>

\* leader-elected waits for slurm.conf, then refreshes the controllers.
LeaderElected(u) ==
  /\ u = leader
  /\ Ready(u)
  /\ electedDue
  /\ electedDue' = FALSE
  /\ IF conf = <<>>
       THEN /\ deferred' = [deferred EXCEPT ![u] = @ \cup {"elected"}]
            /\ UNCHANGED <<appDue, unseen, slurmVars>>
       ELSE /\ Refresh(u, view[u], appDue)
            /\ UNCHANGED deferred
  /\ UNCHANGED <<jujuVars, peerVars, cluster, reconfigures>>

\* The deferred leader-elected and peer events come back, on a unit that may no
\* longer be the leader.
RefreshDeferred(u, event) ==
  /\ Ready(u)
  /\ event \in deferred[u] \ {"start"}
  /\ conf # <<>>
  /\ deferred' = [deferred EXCEPT ![u] = @ \ {event}]
  /\ Refresh(u, view[u], appDue)
  /\ UNCHANGED <<jujuVars, electedDue, peerVars, cluster, reconfigures>>

\* peer_ready: a backup waits until slurm.conf lists it.
MayStart(u) == u = leader \/ Listed(u)

\* The start event, first or re-emitted: the leader writes the first slurm.conf,
\* the service is restarted.  A slurmctld that is not in the list fails to start
\* and the event is deferred again.
Start(u) ==
  /\ Ready(u)
  /\ "start" \in deferred[u]
  /\ cluster # NoName
  /\ MayStart(u)
  /\ IF conf = <<>> THEN conf' \in HostLists(Peers(u, view[u])) ELSE conf' = conf
  /\ u \in ToSet(conf')
  /\ running' = [running EXCEPT ![u] = conf']
  /\ deferred' = [deferred EXCEPT ![u] = @ \ {"start"}]
  /\ UNCHANGED <<jujuVars, electedDue, peerVars, bagVars, endpoints, reconfigures>>

\* config-changed on the leader or a backup ends in _reconfigure.
ConfigChanged(u) ==
  /\ Ready(u)
  /\ reconfigures < MaxReconfigures
  /\ reconfigures' = reconfigures + 1
  /\ Reconfigured(u, conf, appDue)
  /\ UNCHANGED <<jujuVars, electedDue, peerVars, cluster, conf, endpoints, deferred>>

\* The first sackd application connects to the leader, whose slurmctld runs.
SackdConnected(u) ==
  /\ u = leader
  /\ Ready(u)
  /\ running[u] # <<>>
  /\ endpoints = <<>>
  /\ endpoints' \in HostLists(Peers(u, view[u]))
  /\ UNCHANGED <<jujuVars, electedDue, peerVars, bagVars, conf, running, deferred, reconfigures>>

\* The service dies; a reboot of the machine runs the start hook again.
Crash(u) ==
  /\ "crash" \in Faults
  /\ u \in planned
  /\ running[u] # <<>>
  /\ running' = [running EXCEPT ![u] = <<>>]
  /\ \/ deferred' = [deferred EXCEPT ![u] = @ \cup {"start"}]
     \/ deferred' = deferred
  /\ UNCHANGED <<jujuVars, electedDue, peerVars, bagVars, conf, endpoints, reconfigures>>

----------------------------------------------------------------------------
\* The hooks that Juju or ops has queued for u.
QueuedHook(u) ==
  \/ RelationCreated(u) \/ LeaderElected(u) \/ AppChanged(u) \/ Start(u)
  \/ \E event \in {"elected", "peers"} : RefreshDeferred(u, event)
  \/ \E v \in Units : PeerJoined(u, v) \/ PeerDeparted(u, v)

Environment(u) ==
  \/ AddUnit(u) \/ RemoveUnit(u) \/ LeaderChanges(u) \/ Crash(u)
  \/ ConfigChanged(u) \/ SackdConnected(u)

Next == \E u \in Units : QueuedHook(u) \/ Environment(u)

Spec == Init /\ [][Next]_vars

\* The agent of a unit does not idle while a hook is queued, and a leader that
\* is gone is replaced.  What the operator does, and failures, come by chance.
Fairness ==
  /\ \A u \in Units : WF_vars(QueuedHook(u))
  /\ WF_vars(leader \notin planned /\ \E u \in Units : LeaderChanges(u))

FairSpec == Spec /\ Fairness

----------------------------------------------------------------------------
(***************************************************************************)
(* Properties                                                              *)
(***************************************************************************)

\* Lists of distinct controllers.
Lists == UNION {SetToSeqs(s) : s \in SUBSET Units}

\* Every variable has the shape its declaration promises, a unit is not both
\* planned and gone, and a unit sees, and is listed with, published hostnames
\* once it has published its own.
TypeOK ==
  /\ planned \subseteq Units /\ planned # {}
  /\ gone \subseteq Units \ planned
  /\ leader \in Units
  /\ electedDue \in BOOLEAN
  /\ hostnames \subseteq planned \cup gone
  /\ view \in [Units -> SUBSET hostnames]
  /\ \A u \in Units : u \notin view[u] /\ (view[u] # {} => u \in hostnames)
  /\ appDue \subseteq hostnames
  /\ cluster \in hostnames \cup {NoName}
  /\ unseen \subseteq Units
  /\ conf \in Lists /\ ToSet(conf) \subseteq hostnames
  /\ endpoints \in Lists
  /\ running \in [Units -> Lists]
  /\ deferred \in [Units -> SUBSET {"start", "elected", "peers"}]

\* u's slurmctld will be restarted: by the start event of a signal it has seen,
\* by a signal it has yet to see, or by u's own leader-elected hook.
RestartComing(u) ==
  \/ "start" \in deferred[u]
  \/ u # leader /\ u \in unseen /\ u \in appDue
  \/ u = leader /\ electedDue

\* A controller that runs with a SlurmctldHost list other than that of slurm.conf
\* has a restart to come: no controller is forgotten by a membership change.
RestartOutstanding ==
  \A u \in planned : running[u] \in {<<>>, conf} \/ RestartComing(u)

\* charm.py:890 "Controllers in the file but not the peer relation have
\* departed": only a unit that is leaving is taken out of slurm.conf.
OnlyDepartedDropped ==
  [][\A c \in ToSet(conf) : c \in planned' => c \in ToSet(conf')]_vars

Before(list, c, d) == \E i, j \in DOMAIN list : i < j /\ list[i] = c /\ list[j] = d

\* A refresh never swaps two controllers that stay: the order of the file tells
\* the primary from the backups, and a failover order in use must not change.
FailoverOrderKept ==
  [][\A c, d \in planned' : Before(conf, c, d) => ~Before(conf', d, c)]_vars

\* No two controllers that run disagree on who takes over from whom, though one may
\* have been restarted with a list that another has yet to load: among the
\* controllers that stay, whatever list one runs with has the order of slurm.conf.
FailoverAgreed ==
  \A u, c, d \in planned : Before(running[u], c, d) => Before(conf, c, d)

\* No hook stops a controller that stays in the application: _reconfigure never
\* restarts a slurmctld with a slurm.conf that does not list it.
ServiceKept ==
  [][\A u \in planned' : running[u] # <<>> => running'[u] # <<>>]_vars

Owed == {u \in planned : RestartComing(u)}

Contract == INSTANCE FailoverContract WITH
  members <- planned, left <- gone, list <- conf, using <- running, owed <- Owed

\* Each step of the controllers keeps the promise of FailoverContract: slurm.conf
\* changes only by a running controller that keeps those that stay, in their order,
\* and leaves each that runs with another list a restart to come; nobody is stopped.
KeepsContract == Contract!Spec

\* Once units stop coming and going, slurm.conf lists exactly those that are
\* there, whichever hooks the restart signals used up.
HostsConverge == <>[](ToSet(conf) = planned)

\* ... every one of them runs with that list ...
ControllersConverge == <>[](\A u \in planned : running[u] = conf)

\* ... and sackd and slurmd have been given the same controllers in the same
\* order.
EndpointsConverge == <>[](endpoints \in {<<>>, conf})
=============================================================================
