------------------------ MODULE ComputeNodes_proofs -------------------------
(***************************************************************************)
(* Proofs about ComputeNodes, for any nodes, default state, descriptions   *)
(* and faults: types, a node that is not spoilt has the state and the      *)
(* description it should have, and none is left behind by its unit.        *)
(***************************************************************************)
EXTENDS ComputeNodes, TLAPS

USE DefaultKnown, MaxConfNat, FaultsKnown

----------------------------------------------------------------------------
(* Types.                                                                  *)

\* A restart, with the given state to apply.
LEMMA RestartType ==
  ASSUME TypeOK, NEW n \in Nodes, NEW state \in BaseStates \cup {"none"}, Restart(n, state)
  PROVE  /\ svc' \in [Nodes -> {"off", "starting", "on"}]
         /\ loaded' \in [Nodes -> 0 .. MaxConf]
         /\ task' \in [Nodes -> Tasks]
<1>1. Idle \in Tasks /\ (state # "none" => [at |-> "apply", state |-> state] \in Tasks)
  BY DEF Tasks
<1> QED
  BY <1>1 DEF TypeOK, Restart

\* scontrol update, by its parts.
LEMMA UpdateState ==
  ASSUME NEW state \in States \cup Unset, NEW request \in Requests
  PROVE  /\ Updated(state, request) \in States \cup Unset
         /\ state \in States => Updated(state, request) \in States
         /\ Updated(state, request)[1] = IF request = "drain" THEN state[1] ELSE request
         /\ Updated(state, request)[2] = IF request = "drain" THEN "held"
                                         ELSE IF request = "idle" THEN "free" ELSE state[2]
  BY DEF Updated, States, Unset, BaseStates, Requests

\* A state is what its parts are.
LEMMA StateParts ==
  ASSUME NEW s \in States \cup Unset, NEW t \in States \cup Unset,
         s[1] = t[1], s[2] = t[2]
  PROVE  s = t
  BY DEF States, Unset

LEMMA InitTypes == Init => TypeOK
<1> SUFFICES ASSUME Init PROVE TypeOK
  OBVIOUS
<1>1. task \in [Nodes -> Tasks] /\ 0 \in 0 .. MaxConf /\ Detected = 0
  BY DEF Init, Tasks, Detected
<1> QED
  BY <1>1 DEF Init, TypeOK, NoState, Unset

\* Steps of the operator, Juju and Slurm.
LEMMA OutsideTypes ==
  ASSUME TypeOK,
         \/ Blackout \/ AnswersAgain
         \/ \E n \in Nodes : \/ Deploy(n) \/ Integrate(n) \/ PublishControllers(n)
                             \/ Separate(n) \/ RemoveUnit(n) \/ Terminate(n)
  PROVE  TypeOK'
<1> USE DEF unitVars, ghosts
<1>1. CASE Blackout \/ AnswersAgain
  BY <1>1 DEF TypeOK, Blackout, AnswersAgain
<1>2. ASSUME NEW n \in Nodes, Deploy(n) \/ Integrate(n) PROVE TypeOK'
  BY <1>2 DEF TypeOK, Deploy, Integrate, Announced
<1>3. ASSUME NEW n \in Nodes, PublishControllers(n) \/ Separate(n) PROVE TypeOK'
  BY <1>3 DEF TypeOK, PublishControllers, Separate, Announced
<1>4. ASSUME NEW n \in Nodes, RemoveUnit(n) PROVE TypeOK'
  BY <1>4 DEF TypeOK, RemoveUnit
<1>5. ASSUME NEW n \in Nodes, Terminate(n) PROVE TypeOK'
  <2>1. 0 \in 0 .. MaxConf /\ Detected = 0
    BY DEF Detected
  <2> QED
    BY <1>5, <2>1 DEF TypeOK, Terminate
<1> QED
  BY <1>1, <1>2, <1>3, <1>4, <1>5

\* Steps of a registration, of a unit and of the leader of slurmctld.
LEMMA NodeTypes ==
  ASSUME TypeOK, NEW n \in Nodes,
         \/ Register(n) \/ Install(n) \/ Reinstall(n) \/ Ready(n) \/ Apply(n) \/ Disconnected(n)
         \/ Enrol(n) \/ NodeDeparted(n)
         \/ \E c \in 0 .. MaxConf : SetNodeConfig(n, c)
         \/ \E request \in Requests : SetNodeState(n, request)
  PROVE  TypeOK'
<1> USE DEF unitVars, ghosts
<1>1. CASE Register(n)
  <2>1. [state |-> <<"idle", "free">>, conf |-> loaded[n]] \in Records
    BY DEF TypeOK, Records, States, BaseStates
  <2> QED
    BY <1>1, <2>1 DEF TypeOK, Register
<1>a. Detected \in 0 .. MaxConf
  BY DEF Detected
<1>2. CASE Install(n) \/ Reinstall(n) \/ Disconnected(n)
  BY <1>2, <1>a DEF TypeOK, Install, Reinstall, Disconnected
<1>3. CASE Ready(n)
  <2>1. Restart(n, IF Exists(n) THEN "none" ELSE Default)
    BY <1>3 DEF Ready
  <2>2. /\ svc' \in [Nodes -> {"off", "starting", "on"}]
        /\ loaded' \in [Nodes -> 0 .. MaxConf]
        /\ task' \in [Nodes -> Tasks]
    BY <2>1, RestartType
  <2>3. /\ want' \in [Nodes -> States \cup Unset]
        /\ released' \subseteq Nodes /\ spoilt' \subseteq Nodes
    BY <1>3 DEF TypeOK, Ready, States
  <2>4. due' \in [Nodes -> SUBSET {"install", "ready", "disconnected"}] /\ server' \subseteq Nodes
    BY <1>3 DEF TypeOK, Ready
  <2> QED
    BY <1>3, <2>2, <2>3, <2>4 DEF TypeOK, Ready
<1>4. CASE Apply(n)
  <2>1. task[n].state \in Requests
    BY <1>4 DEF TypeOK, Apply, Tasks, Idle, Requests
  <2>2. Known(n) => [reg[n] EXCEPT !.state = Updated(@, task[n].state)] \in Records
    BY <2>1, UpdateState DEF TypeOK, Known, Records
  <2>3. reg' \in [Nodes -> Records \cup {NoNode}]
    BY <1>4, <2>2 DEF TypeOK, Apply
  <2>4. task' \in [Nodes -> Tasks] /\ spoilt' \subseteq Nodes
    BY <1>4 DEF TypeOK, Apply, Tasks
  <2> QED
    BY <1>4, <2>3, <2>4 DEF TypeOK, Apply
<1>5. CASE Enrol(n)
  <2>1. task[n].state \in BaseStates
    BY <1>5 DEF TypeOK, Enrol, Tasks, Idle
  <2>2. Idle \in Tasks
    BY DEF Tasks
  <2>3. Restart(n, task[n].state) \/ (UNCHANGED <<svc, loaded>> /\ task' = [task EXCEPT ![n] = Idle])
    BY <1>5 DEF Enrol
  <2>4. /\ svc' \in [Nodes -> {"off", "starting", "on"}]
        /\ loaded' \in [Nodes -> 0 .. MaxConf]
        /\ task' \in [Nodes -> Tasks]
    BY <2>1, <2>2, <2>3, RestartType DEF TypeOK
  <2> QED
    BY <1>5, <2>4 DEF TypeOK, Enrol, Deleted
<1>6. ASSUME NEW c \in 0 .. MaxConf, SetNodeConfig(n, c) PROVE TypeOK'
  <2>1. Exists(n) => [at |-> "enrol", state |-> BaseState(reg[n].state)] \in Tasks
    BY DEF TypeOK, Exists, Known, Records, Tasks, BaseState, States
  <2>2. task' \in [Nodes -> Tasks]
    BY <1>6, <2>1 DEF TypeOK, SetNodeConfig
  <2> QED
    BY <1>6, <2>2 DEF TypeOK, SetNodeConfig
<1>7. ASSUME NEW request \in Requests, SetNodeState(n, request) PROVE TypeOK'
  <2>1. [reg[n] EXCEPT !.state = Updated(@, request)] \in Records
    BY <1>7, UpdateState DEF TypeOK, SetNodeState, Known, Records
  <2>2. reg' \in [Nodes -> Records \cup {NoNode}]
    BY <1>7, <2>1 DEF TypeOK, SetNodeState
  <2>3. want' \in [Nodes -> States \cup Unset]
    BY <1>7, UpdateState DEF TypeOK, SetNodeState
  <2> QED
    BY <1>7, <2>2, <2>3 DEF TypeOK, SetNodeState
<1>8. CASE NodeDeparted(n)
  BY <1>8 DEF TypeOK, NodeDeparted, Deleted
<1> QED
  BY <1>1, <1>2, <1>3, <1>4, <1>5, <1>6, <1>7, <1>8

LEMMA StepTypes == TypeOK /\ [Next]_vars => TypeOK'
<1> SUFFICES ASSUME TypeOK, [Next]_vars PROVE TypeOK'
  OBVIOUS
<1>1. CASE UNCHANGED vars
  BY <1>1 DEF TypeOK, vars, unitVars, ghosts
<1> QED
  BY <1>1, OutsideTypes, NodeTypes DEF Next

\* Whatever is deferred or fails, the variables keep their types.
THEOREM TypeCorrect == Spec => []TypeOK
  BY InitTypes, StepTypes, PTL DEF Spec
----------------------------------------------------------------------------
(* What holds of a node that is not spoilt.                                *)

\* Only an integrated unit, or one whose departure is to be handled, has a node or
\* a slurmd about to register; such a slurmd has the description of the options;
\* and between an integrated unit's handlers a node has what it should have, or the
\* rest of a handler is about to give it to it: a node that it is to give a base
\* state is held back by nobody when it registers.
Meets(n) ==
  /\ reg[n].state[1] = want[n][1]
  /\ reg[n].state[2] = IF n \in released THEN "free" ELSE want[n][2]

NodeFacts(n) ==
  n \notin spoilt =>
    /\ Known(n) \/ svc[n] = "starting" => unit[n] = "in" \/ n \in departed
    /\ svc[n] = "starting" /\ task[n].at # "enrol" => loaded[n] = conf[n]
    /\ unit[n] = "in" =>
         /\ Known(n) /\ task[n].at # "enrol" => reg[n].conf = conf[n]
         /\ Known(n) /\ task[n].at # "apply" => Meets(n)
         /\ svc[n] = "starting" /\ task[n].at # "apply" => Known(n)
         /\ task[n] # Idle => task[n].state = want[n][1]
         /\ task[n].at = "apply" /\ n \notin released => want[n][2] = "free"
         /\ task[n].at = "apply" /\ Known(n) => reg[n].state[2] = "free"

NodesInv == \A n \in Nodes : NodeFacts(n)

\* A node's facts are about its own parts of the state.
LEMMA Frame ==
  ASSUME NEW m \in Nodes, NodeFacts(m),
         unit'[m] = unit[m], svc'[m] = svc[m], loaded'[m] = loaded[m],
         conf'[m] = conf[m], reg'[m] = reg[m], task'[m] = task[m], want'[m] = want[m],
         m \in released <=> m \in released',
         m \in spoilt => m \in spoilt', m \in departed => m \in departed'
  PROVE  NodeFacts(m)'
  BY DEF NodeFacts, Known, Meets

\* Steps of the operator and Juju.
LEMMA OutsideFacts ==
  ASSUME TypeOK, NEW n \in Nodes, NodeFacts(n),
         \/ Deploy(n) \/ Integrate(n) \/ PublishControllers(n)
         \/ Separate(n) \/ RemoveUnit(n) \/ Terminate(n)
  PROVE  NodeFacts(n)'
<1> USE DEF NodeFacts, Known, Meets, unitVars, ghosts
<1>1. CASE Deploy(n)
  BY <1>1 DEF TypeOK, Deploy
<1>2. CASE Integrate(n)
  BY <1>2 DEF TypeOK, Integrate, Clean, Idle
<1>3. CASE PublishControllers(n)
  BY <1>3 DEF TypeOK, PublishControllers
<1>4. CASE Separate(n)
  BY <1>4 DEF TypeOK, Separate
<1>5. CASE RemoveUnit(n)
  BY <1>5 DEF TypeOK, RemoveUnit
<1>6. CASE Terminate(n)
  BY <1>6 DEF TypeOK, Terminate
<1> QED
  BY <1>1, <1>2, <1>3, <1>4, <1>5, <1>6

\* A restart that succeeds, at the node.
LEMMA RestartFacts ==
  ASSUME TypeOK, NEW n \in Nodes, NEW state \in BaseStates \cup {"none"}, Restart(n, state)
  PROVE  \/ svc'[n] = "off" /\ task'[n] = Idle
         \/ /\ svc'[n] = "starting" /\ loaded'[n] = conf[n]
            /\ state = "none" => task'[n] = Idle
            /\ state # "none" => task'[n] = [at |-> "apply", state |-> state]
  BY DEF TypeOK, Restart

LEMMA NodeStepFacts ==
  ASSUME TypeOK, NEW n \in Nodes, NodeFacts(n),
         \/ Register(n) \/ Install(n) \/ Reinstall(n) \/ Ready(n) \/ Apply(n) \/ Disconnected(n)
         \/ Enrol(n) \/ NodeDeparted(n)
         \/ \E c \in 0 .. MaxConf : SetNodeConfig(n, c)
         \/ \E request \in Requests : SetNodeState(n, request)
  PROVE  NodeFacts(n)'
<1> USE DEF NodeFacts, Known, Meets, unitVars, ghosts
<1>a. Idle.at = "idle" /\ task[n] \in Tasks /\ reg[n] \in Records \cup {NoNode}
  BY DEF TypeOK, Idle
<1>1. CASE Register(n)
  <2>1. [state |-> <<"idle", "free">>, conf |-> loaded[n]] # NoNode
    BY DEF NoNode, NoState
  <2> QED
    BY <1>1, <2>1 DEF TypeOK, Register
<1>2. CASE Install(n) \/ Reinstall(n)
  BY <1>2 DEF TypeOK, Install, Reinstall, Free
<1>3. CASE Ready(n)
  <2>1. Restart(n, IF Exists(n) THEN "none" ELSE Default)
    BY <1>3 DEF Ready
  <2>2. \/ svc'[n] = "off" /\ task'[n] = Idle
        \/ /\ svc'[n] = "starting" /\ loaded'[n] = conf[n]
           /\ Exists(n) => task'[n] = Idle
           /\ ~Exists(n) => task'[n] = [at |-> "apply", state |-> Default]
    BY <2>1, RestartFacts DEF BaseStates
  <2>3. /\ UNCHANGED <<unit, conf, reg, departed>> /\ unit[n] = "in" /\ task[n] = Idle
        /\ svc'[n] = "off" \/ (Known(n) /\ ~answers) => n \in spoilt'
        /\ n \in spoilt => n \in spoilt'
        /\ Known(n) => want'[n] = want[n] /\ (n \in released' <=> n \in released)
        /\ ~Known(n) => want'[n] = <<Default, "free">>
    BY <1>3 DEF TypeOK, Ready, Free
  <2> QED
    BY <1>a, <2>2, <2>3 DEF Exists, Idle
<1>4. CASE Apply(n)
  <2>1. /\ UNCHANGED <<unit, svc, loaded, conf, departed, want, released>>
        /\ task'[n] = Idle /\ task[n].at = "apply" /\ task[n] # Idle
    BY <1>4, <1>a DEF TypeOK, Apply
  <2>2. CASE answers /\ Known(n)
    <3>1. reg'[n] = [reg[n] EXCEPT !.state = Updated(@, task[n].state)] /\ UNCHANGED spoilt
      BY <1>4, <2>2 DEF TypeOK, Apply
    <3>2. reg[n] \in Records /\ task[n].state \in BaseStates
      BY <1>a, <2>1, <2>2 DEF Tasks
    <3>3. /\ reg'[n] = [state |-> Updated(reg[n].state, task[n].state), conf |-> reg[n].conf]
          /\ reg[n].state \in States
      BY <3>1, <3>2 DEF Records
    <3>4. task[n].state \in Requests /\ task[n].state # "drain"
      BY <3>2 DEF Requests, BaseStates
    <3>5. /\ reg'[n].state[1] = task[n].state /\ reg'[n].conf = reg[n].conf
          /\ reg[n].state[2] = "free" => reg'[n].state[2] = "free"
          /\ reg'[n] # NoNode
      BY <3>3, <3>4, UpdateState DEF NoNode, NoState, States, BaseStates
    <3> QED
      BY <1>a, <2>1, <2>2, <3>1, <3>5
  <2>3. CASE ~(answers /\ Known(n))
    BY <1>4, <2>3 DEF Apply
  <2> QED
    BY <2>2, <2>3
<1>5. CASE Disconnected(n)
  BY <1>5 DEF TypeOK, Disconnected
<1>6. CASE Enrol(n)
  <2>1. /\ UNCHANGED <<unit, conf, departed, want>>
        /\ task[n].at = "enrol" /\ task[n] # Idle /\ task[n].state \in BaseStates
    BY <1>6, <1>a DEF Enrol, Tasks
  <2>2. CASE n \in spoilt'
    BY <2>2
  <2>3. CASE n \notin spoilt'
    <3>1. /\ Known(n) /\ reg'[n] = NoNode /\ n \notin spoilt /\ svc'[n] # "off"
          /\ n \in released' <=> reg[n].state[2] = "held" \/ n \in released
          /\ Restart(n, task[n].state)
      BY <1>6, <2>3 DEF TypeOK, Enrol, Deleted
    <3>2. /\ svc'[n] = "starting" /\ loaded'[n] = conf[n]
          /\ task'[n] = [at |-> "apply", state |-> task[n].state]
      BY <2>1, <3>1, RestartFacts DEF BaseStates
    <3>3. reg[n] \in Records /\ reg[n].state[2] \in {"free", "held"}
          /\ want[n][2] \in {"free", "held"}
      BY <1>a, <3>1 DEF Records, TypeOK, States, Unset
    <3> QED
      BY <1>a, <2>1, <3>1, <3>2, <3>3
  <2> QED
    BY <2>2, <2>3
<1>7. CASE NodeDeparted(n)
  BY <1>7 DEF TypeOK, NodeDeparted, Deleted
<1>8. ASSUME NEW c \in 0 .. MaxConf, SetNodeConfig(n, c) PROVE NodeFacts(n)'
  <2>1. /\ UNCHANGED <<unit, svc, loaded, reg, departed, want>> /\ task[n] = Idle
        /\ Exists(n) => task'[n] = [at |-> "enrol", state |-> reg[n].state[1]] /\ UNCHANGED spoilt
        /\ UNCHANGED released
        /\ ~Exists(n) => /\ task'[n] = Idle
                         /\ n \in spoilt \/ Known(n) \/ svc[n] = "starting" => n \in spoilt'
    BY <1>8 DEF TypeOK, SetNodeConfig, Free, BaseState
  <2> QED
    BY <1>a, <2>1 DEF Exists
<1>9. ASSUME NEW request \in Requests, SetNodeState(n, request) PROVE NodeFacts(n)'
  <2>1. /\ UNCHANGED <<unit, svc, loaded, conf, task, departed>> /\ Known(n)
        /\ want'[n] = Updated(want[n], request)
        /\ reg'[n] = [reg[n] EXCEPT !.state = Updated(@, request)]
        /\ n \in released' <=> request = "down" /\ n \in released
        /\ n \in spoilt \/ task[n] # Idle => n \in spoilt'
    BY <1>9 DEF TypeOK, SetNodeState
  <2>2. reg[n] \in Records /\ want[n] \in States \cup Unset
    BY <1>a, <2>1 DEF TypeOK
  <2>3. /\ reg'[n] = [state |-> Updated(reg[n].state, request), conf |-> reg[n].conf]
        /\ reg[n].state \in States
    BY <2>1, <2>2 DEF Records
  <2>4. /\ reg'[n].conf = reg[n].conf /\ reg'[n] # NoNode
        /\ reg'[n].state[1] = IF request = "drain" THEN reg[n].state[1] ELSE request
        /\ reg'[n].state[2] = IF request = "drain" THEN "held"
                              ELSE IF request = "idle" THEN "free" ELSE reg[n].state[2]
    BY <2>3, UpdateState DEF NoNode, NoState, States, BaseStates
  <2>5. /\ want'[n][1] = IF request = "drain" THEN want[n][1] ELSE request
        /\ want'[n][2] = IF request = "drain" THEN "held"
                         ELSE IF request = "idle" THEN "free" ELSE want[n][2]
    BY <2>1, <2>2, UpdateState
  <2> QED
    BY <1>a, <2>1, <2>4, <2>5 DEF Requests, BaseStates
<1> QED
  BY <1>1, <1>2, <1>3, <1>4, <1>5, <1>6, <1>7, <1>8, <1>9

\* A step of one node leaves the others alone.
LEMMA OtherNodes ==
  ASSUME TypeOK, NEW n \in Nodes, NEW m \in Nodes, m # n, NodeFacts(m),
         \/ Deploy(n) \/ Integrate(n) \/ PublishControllers(n)
         \/ Separate(n) \/ RemoveUnit(n) \/ Terminate(n)
         \/ Register(n) \/ Install(n) \/ Reinstall(n) \/ Ready(n) \/ Apply(n) \/ Disconnected(n)
         \/ Enrol(n) \/ NodeDeparted(n)
         \/ \E c \in 0 .. MaxConf : SetNodeConfig(n, c)
         \/ \E request \in Requests : SetNodeState(n, request)
  PROVE  NodeFacts(m)'
<1> DEFINE Same == /\ unit'[m] = unit[m] /\ svc'[m] = svc[m] /\ loaded'[m] = loaded[m]
                   /\ conf'[m] = conf[m] /\ reg'[m] = reg[m] /\ task'[m] = task[m]
                   /\ want'[m] = want[m]
                   /\ m \in released <=> m \in released'
                   /\ m \in spoilt => m \in spoilt'
                   /\ m \in departed => m \in departed'
<1> SUFFICES Same
  BY Frame
<1> USE DEF unitVars, ghosts
<1>1. CASE Deploy(n) \/ Integrate(n) \/ PublishControllers(n) \/ Separate(n) \/ RemoveUnit(n)
  BY <1>1 DEF TypeOK, Deploy, Integrate, PublishControllers, Separate, RemoveUnit
<1>2. CASE \/ Terminate(n) \/ Register(n) \/ Install(n) \/ Reinstall(n) \/ Disconnected(n)
           \/ NodeDeparted(n)
  BY <1>2 DEF TypeOK, Terminate, Register, Install, Reinstall, Disconnected, NodeDeparted, Deleted
<1>3. CASE Ready(n)
  BY <1>3 DEF TypeOK, Ready, Restart
<1>4. CASE Apply(n)
  BY <1>4 DEF TypeOK, Apply
<1>5. CASE Enrol(n)
  BY <1>5 DEF TypeOK, Enrol, Deleted, Restart
<1>6. ASSUME NEW c \in 0 .. MaxConf, SetNodeConfig(n, c) PROVE Same
  BY <1>6 DEF TypeOK, SetNodeConfig
<1>7. ASSUME NEW request \in Requests, SetNodeState(n, request) PROVE Same
  BY <1>7 DEF TypeOK, SetNodeState
<1> QED
  BY <1>1, <1>2, <1>3, <1>4, <1>5, <1>6, <1>7

LEMMA StepFacts == TypeOK /\ NodesInv /\ [Next]_vars => NodesInv'
<1> SUFFICES ASSUME TypeOK, NodesInv, [Next]_vars, NEW m \in Nodes PROVE NodeFacts(m)'
  BY DEF NodesInv
<1>1. NodeFacts(m)
  BY DEF NodesInv
<1>2. CASE UNCHANGED vars \/ Blackout \/ AnswersAgain
  BY <1>1, <1>2, Frame DEF vars, unitVars, ghosts, Blackout, AnswersAgain
<1>3. ASSUME NEW n \in Nodes,
             \/ Deploy(n) \/ Integrate(n) \/ PublishControllers(n)
             \/ Separate(n) \/ RemoveUnit(n) \/ Terminate(n)
             \/ Register(n) \/ Install(n) \/ Reinstall(n) \/ Ready(n) \/ Apply(n) \/ Disconnected(n)
             \/ Enrol(n) \/ NodeDeparted(n)
             \/ \E c \in 0 .. MaxConf : SetNodeConfig(n, c)
             \/ \E request \in Requests : SetNodeState(n, request)
      PROVE  NodeFacts(m)'
  <2>1. CASE m = n
    BY <1>1, <1>3, <2>1, OutsideFacts, NodeStepFacts
  <2>2. CASE m # n
    BY <1>1, <1>3, <2>2, OtherNodes
  <2> QED
    BY <2>1, <2>2
<1> QED
  BY <1>2, <1>3 DEF Next

LEMMA Reachable == Spec => [](TypeOK /\ NodesInv)
<1>1. Init => NodesInv
  BY DEF Init, NodesInv, NodeFacts, Known, Idle
<1> QED
  BY <1>1, InitTypes, StepTypes, StepFacts, PTL DEF Spec

\* A node keeps the base state it was given through every restart and every change
\* of its description, and is held back exactly if the administrator held it back
\* and set-node-config has not registered it anew since.
THEOREM StateIsAsWanted == Spec => []StateAsWanted
<1>1. TypeOK /\ NodesInv => StateAsWanted
  <2> SUFFICES ASSUME TypeOK, NodesInv, NEW n \in Nodes, Settled(n)
               PROVE  reg[n].state = IF n \in released THEN <<want[n][1], "free">> ELSE want[n]
    BY DEF StateAsWanted
  <2>1. Meets(n) /\ reg[n].state \in States /\ want[n] \in States \cup Unset
    BY DEF NodesInv, NodeFacts, Settled, Idle, Known, TypeOK, Records
  <2>2. <<want[n][1], "free">> \in States \cup Unset
    BY <2>1 DEF States, Unset
  <2> QED
    BY <2>1, <2>2, StateParts DEF Meets
<1> QED
  BY <1>1, Reachable, PTL

\* Slurm schedules on the description in the unit's options.
THEOREM ConfIsRegistered == Spec => []ConfRegistered
<1>1. NodesInv => ConfRegistered
  BY DEF NodesInv, NodeFacts, ConfRegistered, Settled, Idle
<1> QED
  BY <1>1, Reachable, PTL

\* No node outlives its unit, unless the leader of slurmctld is still to delete it.
THEOREM NoNodeIsLeftBehind == Spec => []NoGhostNodes
<1>1. NodesInv => NoGhostNodes
  BY DEF NodesInv, NodeFacts, NoGhostNodes
<1> QED
  BY <1>1, Reachable, PTL
=============================================================================
