---------------------------- MODULE ComputeNodes ----------------------------
(***************************************************************************)
(* The life of the compute nodes of a slurmd application.  A unit installs *)
(* slurmd as a dynamic node, starts it when slurmctld has published its    *)
(* controllers, and gives a node that is new to Slurm its default state;   *)
(* the leader of slurmctld deletes the node when the unit departs.  In     *)
(* between an administrator changes the state of a node with               *)
(* set-node-state and its hardware description with set-node-config, which *)
(* deletes the node and registers it again in the base state it had.       *)
(*                                                                         *)
(* slurmd registers some time after its start, and slurmctld, restarted by *)
(* every change of its configuration, does not answer scontrol all the     *)
(* time: a handler is split where it talks to them.  A handler that defers *)
(* its event before it changed anything (not installed, invalid            *)
(* configuration, controller data missing) leaves the event due.  A unit   *)
(* runs one handler at a time.                                             *)
(***************************************************************************)
EXTENDS Naturals

CONSTANTS
  Nodes,     \* the units of the application, and the nodes they are in Slurm
  Default,   \* default-node-state
  MaxConf,   \* bound on the hardware descriptions; 0 is what slurmd -C prints
  Faults     \* what may go wrong, a subset of FaultKinds

FaultKinds ==
  { "blackout",  \* slurmctld stops answering
    "service",   \* systemd fails to stop or to restart slurmd
    "install",   \* the drivers or the exporter cannot be installed after slurmd
    "refused",   \* Slurm refuses to delete a node, which has jobs
    "hasty" }    \* a unit is integrated while its departure is still handled

\* What an administrator asks for.  "drain" stands for drain, fail and failing:
\* Slurm sets them on top of a base state, and the node is held back from new jobs.
BaseStates == {"idle", "down"}
Requests   == BaseStates \cup {"drain"}

\* A state as Slurm lists it: the base state first.
States  == BaseStates \X {"free", "held"}
NoState == <<"none", "free">>
Unset   == {"none"} \X {"free", "held"}

ASSUME DefaultKnown == Default \in BaseStates
ASSUME MaxConfNat   == MaxConf \in Nat
ASSUME FaultsKnown  == Faults \subseteq FaultKinds

VARIABLES
  unit,       \* "absent", "out" (not integrated), "in" or "dying"
  installed,  \* units where slurmd is installed
  due,        \* events to come on a unit, or deferred by it
  svc,        \* slurmd.service: "off", "starting" or "on" (registered)
  server,     \* units whose options name a controller (--conf-server)
  conf,       \* hardware description in the unit's options (--conf)
  loaded,     \* ... and the one slurmd was last started with
  reg,        \* what Slurm knows of the node
  task,       \* rest of the unit's handler
  answers,    \* slurmctld answers
  departed,   \* nodes whose departure the leader has not yet handled
  want,       \* what the node should be: the default, or the administrator's choice
  released,   \* nodes that set-node-config took the administrator's hold from
  spoilt      \* units for which something went wrong that nobody repairs

unitVars == <<installed, due, svc, server, conf, loaded, task>>
ghosts == <<want, released, spoilt>>
vars == <<unit, unitVars, reg, answers, departed, ghosts>>

NoNode == [state |-> NoState, conf |-> 0]
Idle == [at |-> "idle", state |-> "none"]
Records == [state : States, conf : 0 .. MaxConf]
Tasks == [at : {"apply", "enrol"}, state : BaseStates] \cup {Idle}
Known(n) == reg[n] # NoNode
Free(n) == n \in installed /\ task[n] = Idle

\* build_node: what slurmd -C prints.
Detected == 0

TypeOK ==
  /\ unit \in [Nodes -> {"absent", "out", "in", "dying"}]
  /\ installed \subseteq Nodes
  /\ due \in [Nodes -> SUBSET {"install", "ready", "disconnected"}]
  /\ svc \in [Nodes -> {"off", "starting", "on"}]
  /\ server \subseteq Nodes
  /\ conf \in [Nodes -> 0 .. MaxConf] /\ loaded \in [Nodes -> 0 .. MaxConf]
  /\ reg \in [Nodes -> Records \cup {NoNode}]
  /\ task \in [Nodes -> Tasks]
  /\ answers \in BOOLEAN
  /\ departed \subseteq Nodes
  /\ want \in [Nodes -> States \cup Unset]
  /\ released \subseteq Nodes
  /\ spoilt \subseteq Nodes

Init ==
  /\ unit = [n \in Nodes |-> "absent"]
  /\ installed = {} /\ server = {} /\ departed = {} /\ released = {} /\ spoilt = {}
  /\ due = [n \in Nodes |-> {}]
  /\ svc = [n \in Nodes |-> "off"]
  /\ conf = [n \in Nodes |-> Detected] /\ loaded = [n \in Nodes |-> 0]
  /\ reg = [n \in Nodes |-> NoNode]
  /\ task = [n \in Nodes |-> Idle]
  /\ answers = TRUE
  /\ want = [n \in Nodes |-> NoState]

(***************************************************************************)
(* The operator, Juju and Slurm.  A definition named ...Bug is a faulty    *)
(* variant of the one after it, kept to show which property notices it.    *)
(***************************************************************************)
Deploy(n) ==
  /\ unit[n] = "absent"
  /\ unit' = [unit EXCEPT ![n] = "out"]
  /\ UNCHANGED <<unitVars, reg, answers, departed, ghosts>>

\* slurmctld_ready is emitted on the unit, and deferred until slurmd is installed.
\* Variant: an event that comes too early is dropped.
AnnouncedBug(n) == IF n \in installed THEN [due EXCEPT ![n] = @ \cup {"ready"}] ELSE due
Announced(n) == [due EXCEPT ![n] = @ \cup {"ready"}]

\* Nothing is left of an earlier integration of the unit.
Clean(n) ==
  /\ n \notin departed /\ ~Known(n)
  /\ due[n] \subseteq {"install"} /\ task[n] = Idle /\ svc[n] = "off"

\* Both sides of the integration are set up, and slurmctld's leader has run
\* slurmd_ready, which publishes the controllers.
Integrate(n) ==
  /\ unit[n] = "out"
  /\ Clean(n) \/ "hasty" \in Faults
  /\ unit' = [unit EXCEPT ![n] = "in"]
  /\ due' = Announced(n)
  /\ spoilt' = IF Clean(n) THEN spoilt \ {n} ELSE spoilt \cup {n}
  /\ UNCHANGED <<installed, svc, server, conf, loaded, task, reg, answers, departed, want,
                 released>>

\* The controllers have changed, and slurmctld publishes them.
PublishControllers(n) ==
  /\ unit[n] = "in"
  /\ due' = Announced(n)
  /\ UNCHANGED <<unit, installed, svc, server, conf, loaded, task, reg, answers, departed, ghosts>>

\* The integration is removed: relation-departed on slurmctld, whose leader
\* emits slurmd_node_departed, and relation-broken on the unit.
Separate(n) ==
  /\ unit[n] = "in"
  /\ unit' = [unit EXCEPT ![n] = "out"]
  /\ due' = [due EXCEPT ![n] = (@ \ {"ready"}) \cup {"disconnected"}]
  /\ departed' = departed \cup {n}
  /\ UNCHANGED <<installed, svc, server, conf, loaded, task, reg, answers, ghosts>>

\* The unit is removed.  It does not handle relation-broken then, which is
\* ignored on a departing unit.
RemoveUnit(n) ==
  /\ unit[n] \in {"in", "out"}
  /\ unit' = [unit EXCEPT ![n] = "dying"]
  /\ due' = [due EXCEPT ![n] = {}]
  /\ departed' = IF unit[n] = "in" THEN departed \cup {n} ELSE departed
  /\ UNCHANGED <<installed, svc, server, conf, loaded, task, reg, answers, ghosts>>

Terminate(n) ==
  /\ unit[n] = "dying" /\ task[n] = Idle
  /\ unit' = [unit EXCEPT ![n] = "absent"]
  /\ installed' = installed \ {n}
  /\ svc' = [svc EXCEPT ![n] = "off"]
  /\ server' = server \ {n}
  /\ conf' = [conf EXCEPT ![n] = Detected] /\ loaded' = [loaded EXCEPT ![n] = 0]
  /\ UNCHANGED <<due, task, reg, answers, departed, ghosts>>

\* slurmd -Z reaches a controller: a node that is unknown becomes idle, one that
\* is known keeps its record.
Register(n) ==
  /\ svc[n] = "starting" /\ answers
  /\ svc' = [svc EXCEPT ![n] = "on"]
  /\ reg' = [reg EXCEPT ![n] = IF Known(n) THEN @
                               ELSE [state |-> <<"idle", "free">>, conf |-> loaded[n]]]
  /\ UNCHANGED <<unit, installed, due, server, conf, loaded, task, answers, departed, ghosts>>

Blackout ==
  /\ "blackout" \in Faults /\ answers
  /\ answers' = FALSE
  /\ UNCHANGED <<unit, unitVars, reg, departed, ghosts>>

AnswersAgain ==
  /\ ~answers
  /\ answers' = TRUE
  /\ UNCHANGED <<unit, unitVars, reg, departed, ghosts>>

(***************************************************************************)
(* Handlers of the slurmd unit                                             *)
(***************************************************************************)

\* install: slurmd, stopped and disabled, then drivers and the node exporter.  A
\* failure of these is deferred like one of slurmd, but slurmd is then installed.
Install(n) ==
  /\ unit[n] \in {"out", "in"} /\ n \notin installed
  /\ installed' = installed \cup {n}
  /\ \/ UNCHANGED due
     \/ "install" \in Faults /\ due' = [due EXCEPT ![n] = @ \cup {"install"}]
  /\ UNCHANGED <<unit, svc, server, conf, loaded, task, reg, answers, departed, ghosts>>

\* The deferred install runs from its start, on a slurmd that may be in use: it
\* stops it, writes the detected description, and may fail again.
Reinstall(n) ==
  /\ Free(n) /\ unit[n] \in {"out", "in"} /\ "install" \in due[n]
  /\ svc' = [svc EXCEPT ![n] = "off"]
  /\ conf' = [conf EXCEPT ![n] = Detected]
  /\ due' \in {due, [due EXCEPT ![n] = @ \ {"install"}]}
  /\ spoilt' = IF svc[n] # "off" \/ Known(n) THEN spoilt \cup {n} ELSE spoilt
  /\ UNCHANGED <<unit, installed, server, loaded, task, reg, answers, departed, want, released>>

\* SlurmdManager.exists: a failing scontrol means that there is no such node,
\* whatever made it fail.  Variant: the node is always taken to be new.
ExistsBug(n) == FALSE
Exists(n) == answers /\ Known(n)

\* scontrol update state=: drain, fail and failing leave the base state, "idle"
\* lifts them, "down" leaves them.
Updated(state, request) ==
  << IF request = "drain" THEN state[1] ELSE request,
     IF request = "drain" THEN "held" ELSE IF request = "idle" THEN "free" ELSE state[2] >>

\* info["state"][0].lower().
BaseState(state) == state[1]

\* scontrol delete.
Deleted(n) == reg' = [reg EXCEPT ![n] = NoNode]

\* SlurmdManager.reconfigure up to the registration: enable and restart, then
\* apply a state unless it is "none".  systemd may fail; no caller tries again.
Restart(n, state) ==
  \/ /\ svc' = [svc EXCEPT ![n] = "starting"]
     /\ loaded' = [loaded EXCEPT ![n] = conf[n]]
     /\ task' = [task EXCEPT ![n] = IF state = "none" THEN Idle
                                    ELSE [at |-> "apply", state |-> state]]
  \/ /\ "service" \in Faults
     /\ svc' = [svc EXCEPT ![n] = "off"]
     /\ task' = [task EXCEPT ![n] = Idle]
     /\ UNCHANGED loaded

\* slurmctld_ready.
Ready(n) ==
  /\ Free(n) /\ unit[n] = "in" /\ "ready" \in due[n]
  /\ due' = [due EXCEPT ![n] = @ \ {"ready"}]
  /\ server' = server \cup {n}
  /\ Restart(n, IF Exists(n) THEN "none" ELSE Default)
  /\ IF Known(n) THEN UNCHANGED <<want, released>>
     ELSE want' = [want EXCEPT ![n] = <<Default, "free">>] /\ released' = released \ {n}
  /\ spoilt' = IF svc'[n] = "off" \/ (Known(n) /\ ~answers) THEN spoilt \cup {n} ELSE spoilt
  /\ UNCHANGED <<unit, installed, conf, reg, answers, departed>>

\* The end of reconfigure: scontrol update.  It fails if slurmctld does not
\* answer or slurmd has not registered yet, and neither caller tries again.
Apply(n) ==
  /\ task[n].at = "apply"
  /\ task' = [task EXCEPT ![n] = Idle]
  /\ IF answers /\ Known(n)
       THEN reg' = [reg EXCEPT ![n].state = Updated(@, task[n].state)] /\ UNCHANGED spoilt
       ELSE spoilt' = spoilt \cup {n} /\ UNCHANGED reg
  /\ UNCHANGED <<unit, installed, due, svc, server, conf, loaded, answers, departed, want,
                 released>>

\* slurmctld_disconnected: stop, disable, forget the controllers; a failure
\* anywhere is deferred.
Disconnected(n) ==
  /\ Free(n) /\ "disconnected" \in due[n]
  /\ \/ /\ svc' = [svc EXCEPT ![n] = "off"]
        /\ server' = server \ {n}
        /\ due' = [due EXCEPT ![n] = @ \ {"disconnected"}]
     \/ /\ "service" \in Faults          \* disable fails
        /\ svc' = [svc EXCEPT ![n] = "off"]
        /\ UNCHANGED <<server, due>>
  /\ UNCHANGED <<unit, installed, conf, loaded, task, reg, answers, departed, ghosts>>

\* set-node-config, a reset or a new description c: written to the options at
\* once; if the node exists its base state is read, to be given back.  A node that
\* is known and not seen, or is about to register, keeps its old description.
SetNodeConfig(n, c) ==
  /\ Free(n) /\ unit[n] \in {"out", "in"}
  /\ conf' = [conf EXCEPT ![n] = c]
  /\ task' = IF Exists(n) THEN [task EXCEPT ![n] = [at |-> "enrol", state |-> BaseState(reg[n].state)]]
             ELSE task
  /\ spoilt' = IF ~Exists(n) /\ (Known(n) \/ svc[n] = "starting")
                 THEN spoilt \cup {n} ELSE spoilt
  /\ UNCHANGED <<unit, installed, due, svc, server, loaded, reg, answers, departed, want, released>>

\* ... delete and reconfigure.  The record that comes back has the base state and
\* no hold.  If either fails the action fails, and is over.
\* Variant: slurmd is restarted without the deletion.
EnrolBug(n) ==
  /\ task[n].at = "enrol"
  /\ Restart(n, task[n].state)
  /\ UNCHANGED <<unit, installed, due, server, conf, reg, answers, departed, ghosts>>
Enrol(n) ==
  /\ task[n].at = "enrol"
  /\ \/ /\ answers /\ Known(n)
        /\ Deleted(n)
        /\ Restart(n, task[n].state)
        /\ released' = IF reg[n].state[2] = "held" THEN released \cup {n} ELSE released
        /\ spoilt' = IF svc'[n] = "off" THEN spoilt \cup {n} ELSE spoilt
     \/ /\ ~answers \/ ~Known(n) \/ "refused" \in Faults
        /\ task' = [task EXCEPT ![n] = Idle]
        /\ spoilt' = spoilt \cup {n}
        /\ UNCHANGED <<svc, loaded, reg, released>>
  /\ UNCHANGED <<unit, installed, due, server, conf, answers, departed, want>>

(***************************************************************************)
(* Handlers of the leader of slurmctld                                     *)
(***************************************************************************)

\* set-node-state.  It can come in the middle of a handler of the unit, which
\* then undoes it.
SetNodeState(n, request) ==
  /\ answers /\ Known(n)
  /\ reg' = [reg EXCEPT ![n].state = Updated(@, request)]
  /\ want' = [want EXCEPT ![n] = Updated(@, request)]
  /\ released' = IF request = "down" THEN released ELSE released \ {n}
  /\ spoilt' = IF task[n] # Idle THEN spoilt \cup {n} ELSE spoilt
  /\ UNCHANGED <<unit, unitVars, answers, departed>>

\* slurmd_node_departed.  A deletion that fails, also because the node is not
\* known, is deferred and tried again.  A slurmd that is just starting registers
\* afterwards.  Variant: a failed deletion is not tried again.
NodeDepartedBug(n) ==
  /\ n \in departed
  /\ departed' = departed \ {n}
  /\ reg' = IF answers THEN [reg EXCEPT ![n] = NoNode] ELSE reg
  /\ UNCHANGED <<unit, unitVars, answers, ghosts>>
NodeDeparted(n) ==
  /\ n \in departed
  /\ answers /\ Known(n)
  /\ departed' = departed \ {n}
  /\ Deleted(n)
  /\ spoilt' = IF svc[n] = "starting" THEN spoilt \cup {n} ELSE spoilt
  /\ UNCHANGED <<unit, unitVars, answers, want, released>>

Next ==
  \/ \E n \in Nodes :
       \/ Deploy(n) \/ Integrate(n) \/ PublishControllers(n)
       \/ Separate(n) \/ RemoveUnit(n) \/ Terminate(n)
       \/ Register(n) \/ Install(n) \/ Reinstall(n) \/ Ready(n) \/ Apply(n) \/ Disconnected(n)
       \/ Enrol(n) \/ NodeDeparted(n)
       \/ \E c \in 0 .. MaxConf : SetNodeConfig(n, c)
       \/ \E request \in Requests : SetNodeState(n, request)
  \/ Blackout \/ AnswersAgain

Spec == Init /\ [][Next]_vars

\* Hooks are run and repeated as long as there is something to do, a started
\* slurmd registers, slurmctld comes back, and a node's jobs come to an end.
Fairness ==
  /\ WF_vars(AnswersAgain)
  /\ \A n \in Nodes :
       /\ WF_vars(Install(n)) /\ WF_vars(Apply(n)) /\ WF_vars(Enrol(n))
       /\ SF_vars(Ready(n)) /\ SF_vars(Register(n)) /\ SF_vars(NodeDeparted(n))

FairSpec == Spec /\ Fairness

(***************************************************************************)
(* Properties.  A unit is spoilt once something happened that the handlers *)
(* do not repair: they asked for the node while slurmctld was silent, the  *)
(* service failed to start, a repeated install stopped it, the state was   *)
(* applied before slurmd had registered or changed by hand meanwhile, a    *)
(* deletion met a starting slurmd or was refused to set-node-config, or    *)
(* the unit came back while its departure was still handled.               *)
(***************************************************************************)
Settled(n) == unit[n] = "in" /\ Known(n) /\ task[n] = Idle /\ n \notin spoilt

\* A node has the default state until the administrator gives it another.  Its
\* base state survives every change of the controllers and every new hardware
\* description (charm.py:203 sets the default only for a node that is new), and
\* a drain, fail or failing everything but set-node-config, which gives back only
\* the base state (charm.py:315); a node that nobody held back takes jobs.
StateAsWanted ==
  \A n \in Nodes : Settled(n) =>
    reg[n].state = IF n \in released THEN <<want[n][1], "free">> ELSE want[n]

\* Slurm schedules on the hardware description in the unit's options, however
\* set-node-config and restarts follow each other.
ConfRegistered == \A n \in Nodes : Settled(n) => reg[n].conf = conf[n]

\* Slurm knows no node of a unit that has left, except while the leader still
\* has to delete it: no departure is forgotten, however often the deletion fails.
NoGhostNodes ==
  \A n \in Nodes : Known(n) /\ n \notin departed /\ n \notin spoilt => unit[n] = "in"

\* An integrated unit gets into Slurm, whatever was deferred before.
Enrolled == \A n \in Nodes : unit[n] = "in" ~> (Known(n) \/ n \in spoilt \/ unit[n] # "in")
=============================================================================
