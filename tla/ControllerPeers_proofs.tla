----------------------- MODULE ControllerPeers_proofs -----------------------
(***************************************************************************)
(* Theorems about ControllerPeers, for any finite set of units.            *)
(***************************************************************************)
EXTENDS ControllerPeers, FiniteSetTheorems, TLAPS

----------------------------------------------------------------------------
(* Lists of controllers.                                                   *)

\* A list of the elements of a finite set has them all, each of them once.
LEMMA ListFacts ==
  ASSUME NEW S, IsFiniteSet(S), NEW s \in SetToSeqs(S)
  PROVE  /\ DOMAIN s = 1..Cardinality(S)
         /\ Cardinality(S) \in Nat
         /\ ToSet(s) = S
         /\ \A i, j \in DOMAIN s : i # j => s[i] # s[j]
<1>1. /\ s \in [1..Cardinality(S) -> S]
      /\ \A i, j \in 1..Cardinality(S) : i # j => s[i] # s[j]
  BY DEF SetToSeqs
<1>2. Cardinality(S) \in Nat
  BY FS_CardinalityType
<1>3. Cardinality(1..Cardinality(S)) = Cardinality(S)
  BY <1>2, FS_Interval
<1>4. s \in Injection(1..Cardinality(S), S)
  BY <1>1 DEF Injection, IsInjective
<1>5. s \in Surjection(1..Cardinality(S), S)
  BY <1>3, <1>4, FS_Injection
<1> QED
  BY <1>1, <1>2, <1>5 DEF Surjection, ToSet

LEMMA ListsFinite ==
  ASSUME NEW S \in SUBSET Units
  PROVE  IsFiniteSet(S) /\ SetToSeqs(S) \subseteq Lists
<1>1. IsFiniteSet(S)
  BY UnitsFinite, FS_Subset
<1> QED
  BY <1>1 DEF Lists

\* The empty list has no elements and is a list.
LEMMA EmptyList == <<>> \in Lists /\ ToSet(<<>>) = {}
<1>1. Cardinality({}) = 0
  BY FS_EmptySet
<1>2. <<>> \in [1..Cardinality({}) -> {}]
  BY <1>1
<1>3. <<>> \in SetToSeqs({})
  BY <1>1, <1>2 DEF SetToSeqs
<1>4. {} \in SUBSET Units
  OBVIOUS
<1> QED
  BY <1>3, <1>4, ListsFinite DEF ToSet

\* A list holds units, each of them once.
LEMMA ListsDistinct ==
  ASSUME NEW s \in Lists
  PROVE  /\ \E n \in Nat : s \in [1..n -> Units]
         /\ ToSet(s) \subseteq Units
         /\ \A i, j \in DOMAIN s : i # j => s[i] # s[j]
<1>1. PICK S \in SUBSET Units : s \in SetToSeqs(S)
  BY DEF Lists
<1>2. IsFiniteSet(S)
  BY ListsFinite
<1>3. s \in [1..Cardinality(S) -> S]
  BY <1>1 DEF SetToSeqs
<1> QED
  BY <1>1, <1>2, <1>3, ListFacts

\* A refreshed list has exactly the peers.
LEMMA RefreshedList ==
  ASSUME NEW S \in SUBSET Units, NEW s \in HostLists(S)
  PROVE  s \in Lists /\ ToSet(s) = S
<1>1. s \in SetToSeqs(S)
  BY DEF HostLists
<1> QED
  BY <1>1, ListsFinite, ListFacts

----------------------------------------------------------------------------
(* Type correctness.                                                       *)

\* The variables Refresh and _reconfigure write, and the deferred events.
WrittenTypes ==
  /\ appDue \subseteq hostnames
  /\ unseen \subseteq Units
  /\ conf \in Lists /\ ToSet(conf) \subseteq hostnames
  /\ endpoints \in Lists
  /\ running \in [Units -> Lists]
  /\ deferred \in [Units -> SUBSET {"start", "elected", "peers"}]

LEMMA ReconfiguredTypes ==
  ASSUME TypeOK, NEW u \in Units, NEW hosts \in Lists, NEW due \in SUBSET hostnames,
         Reconfigured(u, hosts, due)
  PROVE  /\ running' \in [Units -> Lists]
         /\ unseen' \subseteq Units
         /\ appDue' \subseteq hostnames
<1>1. Told(u) \subseteq hostnames
  BY DEF Told
<1>2. CASE running[u] = <<>> \/ cluster = NoName
  BY <1>2 DEF Reconfigured, TypeOK
<1>3. CASE ~(running[u] = <<>> \/ cluster = NoName) /\ u \notin ToSet(hosts)
  BY <1>3, EmptyList DEF Reconfigured, TypeOK
<1>4. CASE ~(running[u] = <<>> \/ cluster = NoName) /\ u \in ToSet(hosts)
  BY <1>1, <1>4 DEF Reconfigured, TypeOK
<1> QED
  BY <1>2, <1>3, <1>4

LEMMA RefreshTypes ==
  ASSUME TypeOK, NEW u \in hostnames, NEW seen \in SUBSET hostnames,
         NEW due \in SUBSET hostnames, Refresh(u, seen, due)
  PROVE  /\ running' \in [Units -> Lists]
         /\ unseen' \subseteq Units
         /\ appDue' \subseteq hostnames
         /\ conf' \in Lists /\ ToSet(conf') \subseteq hostnames
         /\ endpoints' \in Lists
<1>1. u \in Units /\ Peers(u, seen) \subseteq hostnames /\ hostnames \subseteq Units
  BY DEF TypeOK, Peers
<1>2. PICK hosts \in HostLists(Peers(u, seen)) :
        /\ conf' = hosts
        /\ endpoints' = IF u = leader /\ endpoints # <<>> THEN hosts ELSE endpoints
        /\ Reconfigured(u, hosts, due)
  BY DEF Refresh
<1>3. hosts \in Lists /\ ToSet(hosts) = Peers(u, seen)
  BY <1>1, <1>2, RefreshedList
<1> QED
  BY <1>1, <1>2, <1>3, ReconfiguredTypes DEF TypeOK

LEMMA PeersChangedTypes ==
  ASSUME TypeOK, NEW u \in hostnames, NEW seen \in SUBSET hostnames,
         NEW due \in SUBSET hostnames, OnPeersChanged(u, seen, due),
         hostnames' = hostnames
  PROVE  WrittenTypes'
<1>1. u \in Units
  BY DEF TypeOK
<1>2. CASE conf = <<>>
  BY <1>1, <1>2 DEF OnPeersChanged, WrittenTypes, TypeOK
<1>3. CASE conf # <<>>
  BY <1>3, RefreshTypes DEF OnPeersChanged, WrittenTypes, TypeOK
<1> QED
  BY <1>2, <1>3

LEMMA RelationChangedTypes ==
  ASSUME TypeOK, NEW u \in hostnames, NEW seen \in SUBSET hostnames,
         NEW due \in SUBSET hostnames, OnRelationChanged(u, seen, due),
         hostnames' = hostnames
  PROVE  WrittenTypes'
<1>1. u \in Units
  BY DEF TypeOK
<1>2. CASE OnPeersChanged(u, seen, due)
  BY <1>2, PeersChangedTypes
<1>3. CASE ~OnPeersChanged(u, seen, due)
  BY <1>1, <1>3 DEF OnRelationChanged, StartEmitted, slurmVars, WrittenTypes, TypeOK
<1> QED
  BY <1>2, <1>3

LEMMA InitTypes == Init => TypeOK
<1> SUFFICES ASSUME Init PROVE TypeOK
  OBVIOUS
<1>1. planned \subseteq Units /\ planned # {} /\ leader \in Units
  BY FirstIsUnit DEF Init
<1> QED
  BY <1>1, EmptyList DEF Init, TypeOK

LEMMA TypesKept == TypeOK /\ [Next]_vars => TypeOK'
<1> SUFFICES ASSUME TypeOK, [Next]_vars PROVE TypeOK'
  OBVIOUS
<1> USE DEF jujuVars, peerVars, bagVars, slurmVars
<1>0. hostnames \subseteq Units
  BY DEF TypeOK
<1>1. ASSUME NEW u \in Units, RelationCreated(u) PROVE TypeOK'
  <2>1. Told(u) \subseteq hostnames
    BY DEF Told
  <2> QED
    BY <1>0, <1>1, <2>1 DEF RelationCreated, TypeOK
<1>2. ASSUME NEW u \in Units, LeaderElected(u) PROVE TypeOK'
  <2>1. u \in hostnames /\ view[u] \subseteq hostnames /\ appDue \subseteq hostnames
    BY <1>2 DEF LeaderElected, Ready, TypeOK
  <2>2. WrittenTypes'
    <3>1. CASE conf = <<>>
      BY <1>2, <3>1 DEF LeaderElected, WrittenTypes, TypeOK
    <3>2. CASE conf # <<>>
      BY <1>2, <2>1, <3>2, RefreshTypes DEF LeaderElected, WrittenTypes, TypeOK
    <3> QED
      BY <3>1, <3>2
  <2> QED
    BY <1>2, <2>2 DEF LeaderElected, WrittenTypes, TypeOK
<1>3. ASSUME NEW u \in Units, AppChanged(u) PROVE TypeOK'
  <2>1. u \in hostnames /\ view[u] \subseteq hostnames /\ appDue \ {u} \subseteq hostnames
    BY <1>3 DEF AppChanged, TypeOK
  <2>2. WrittenTypes'
    BY <1>3, <2>1, RelationChangedTypes DEF AppChanged
  <2> QED
    BY <1>3, <2>2 DEF AppChanged, WrittenTypes, TypeOK
<1>4. ASSUME NEW u \in Units, Start(u) PROVE TypeOK'
  <2>1. u \in hostnames /\ Peers(u, view[u]) \subseteq hostnames
    BY <1>4 DEF Start, Ready, Peers, TypeOK
  <2>2. conf' \in Lists /\ ToSet(conf') \subseteq hostnames
    BY <1>0, <1>4, <2>1, RefreshedList DEF Start, TypeOK
  <2> QED
    BY <1>4, <2>2 DEF Start, TypeOK
<1>5. ASSUME NEW u \in Units, NEW event \in {"elected", "peers"}, RefreshDeferred(u, event)
      PROVE TypeOK'
  <2>1. u \in hostnames /\ view[u] \subseteq hostnames /\ appDue \subseteq hostnames
    BY <1>5 DEF RefreshDeferred, Ready, TypeOK
  <2>2. WrittenTypes'
    BY <1>5, <2>1, RefreshTypes DEF RefreshDeferred, WrittenTypes, TypeOK
  <2> QED
    BY <1>5, <2>2 DEF RefreshDeferred, WrittenTypes, TypeOK
<1>6. ASSUME NEW u \in Units, NEW v \in Units, PeerJoined(u, v) PROVE TypeOK'
  <2>1. /\ u \in hostnames /\ v \in hostnames \ {u}
        /\ view' = [view EXCEPT ![u] = @ \cup {v}]
        /\ view'[u] \subseteq hostnames /\ appDue \subseteq hostnames
    BY <1>6 DEF PeerJoined, Ready, TypeOK
  <2>2. WrittenTypes'
    BY <1>6, <2>1, RelationChangedTypes DEF PeerJoined
  <2>3. view' \in [Units -> SUBSET hostnames]
    BY <2>1 DEF TypeOK
  <2>4. \A w \in Units : w \notin view'[w] /\ (view'[w] # {} => w \in hostnames)
    BY <1>6, <2>1 DEF PeerJoined, TypeOK
  <2> QED
    BY <1>6, <2>2, <2>3, <2>4 DEF PeerJoined, WrittenTypes, TypeOK
<1>7. ASSUME NEW u \in Units, NEW v \in Units, PeerDeparted(u, v) PROVE TypeOK'
  <2>1. /\ u \in hostnames
        /\ view' = [view EXCEPT ![u] = @ \ {v}]
        /\ view'[u] \subseteq hostnames /\ appDue \subseteq hostnames
    BY <1>7 DEF PeerDeparted, TypeOK
  <2>2. WrittenTypes'
    <3>1. CASE u = leader /\ AllObserved(view'[u])
      BY <1>7, <2>1, <3>1, PeersChangedTypes DEF PeerDeparted
    <3>2. CASE ~(u = leader /\ AllObserved(view'[u]))
      BY <1>7, <3>2 DEF PeerDeparted, WrittenTypes, TypeOK
    <3> QED
      BY <3>1, <3>2
  <2> QED
    BY <1>7, <2>1, <2>2 DEF PeerDeparted, WrittenTypes, TypeOK
<1>8. ASSUME NEW u \in Units, AddUnit(u) PROVE TypeOK'
  BY <1>8 DEF AddUnit, TypeOK
<1>9. ASSUME NEW u \in Units, RemoveUnit(u) PROVE TypeOK'
  <2>1. planned' # {} /\ planned' \subseteq Units /\ gone' \subseteq Units \ planned'
    BY <1>9 DEF RemoveUnit, TypeOK
  <2>2. hostnames' \subseteq planned' \cup gone'
    BY <1>9 DEF RemoveUnit, TypeOK
  <2>3. running' \in [Units -> Lists]
    BY <1>9, EmptyList DEF RemoveUnit, TypeOK
  <2> QED
    BY <1>9, <2>1, <2>2, <2>3 DEF RemoveUnit, TypeOK
<1>10. ASSUME NEW u \in Units, LeaderChanges(u) PROVE TypeOK'
  BY <1>10 DEF LeaderChanges, TypeOK
<1>11. ASSUME NEW u \in Units, Crash(u) PROVE TypeOK'
  BY <1>11, EmptyList DEF Crash, TypeOK
<1>12. ASSUME NEW u \in Units, ConfigChanged(u) PROVE TypeOK'
  <2>1. conf \in Lists /\ appDue \subseteq hostnames
    BY DEF TypeOK
  <2> QED
    BY <1>12, <2>1, ReconfiguredTypes DEF ConfigChanged, TypeOK
<1>13. ASSUME NEW u \in Units, SackdConnected(u) PROVE TypeOK'
  <2>1. Peers(u, view[u]) \subseteq Units
    BY <1>0 DEF Peers, TypeOK
  <2> QED
    BY <1>13, <2>1, RefreshedList DEF SackdConnected, TypeOK
<1>14. CASE UNCHANGED vars
  BY <1>14 DEF vars, TypeOK
<1> QED
  BY <1>1, <1>2, <1>3, <1>4, <1>5, <1>6, <1>7, <1>8, <1>9, <1>10, <1>11, <1>12, <1>13, <1>14
  DEF Next, QueuedHook, Environment

\* Type correctness for any set of units and any faults: in particular slurm.conf
\* and every published list name each controller at most once.
THEOREM TypeCorrect == Spec => []TypeOK
  BY InitTypes, TypesKept, PTL DEF Spec

----------------------------------------------------------------------------
(* What a step does to slurm.conf, to the services and to the queues.      *)

\* u has a deferred leader-elected or peer event.
RefreshDue(u) == deferred[u] \ {"start"} # {}

\* A step in which u writes slurm.conf from the peers it then sees: u is the
\* leader, or handles an event it deferred.
Refreshes(u) ==
  /\ u \in planned \cap hostnames
  /\ u = leader \/ RefreshDue(u)
  /\ UNCHANGED <<jujuVars, hostnames>>
  /\ view[u] \cap planned \subseteq view'[u]
  /\ conf' \in HostLists(Peers(u, view'[u]))

\* w's slurmctld is restarted with the file as it then is, or is down after the
\* step, because w leaves, its service crashes or the file does not list it.
Loads(w) == w \in hostnames /\ w \in ToSet(conf') /\ running'[w] = conf'
Stops(w) ==
  /\ running'[w] = <<>>
  /\ w \notin planned' \/ "crash" \in Faults \/ w \notin ToSet(conf')

\* The effect of a step on slurm.conf and on every unit's service and queue.
Effect ==
  /\ conf' = conf \/ \E u \in Units : Refreshes(u)
  /\ \A w \in Units : running'[w] = running[w] \/ Loads(w) \/ Stops(w)
  /\ \A w \in Units : RefreshDue(w)' =>
       RefreshDue(w) \/ (w = leader /\ leader' = leader /\ w \in hostnames)

LEMMA ReconfiguredEffect ==
  ASSUME TypeOK, NEW u \in hostnames, NEW due, Reconfigured(u, conf', due), NEW w \in Units
  PROVE  running'[w] = running[w] \/ Loads(w) \/ Stops(w)
<1>1. u \in Units
  BY DEF TypeOK
<1>2. CASE running[u] = <<>> \/ cluster = NoName
  BY <1>2 DEF Reconfigured
<1>3. CASE ~(running[u] = <<>> \/ cluster = NoName) /\ u \notin ToSet(conf')
  BY <1>1, <1>3 DEF Reconfigured, TypeOK, Stops
<1>4. CASE ~(running[u] = <<>> \/ cluster = NoName) /\ u \in ToSet(conf')
  BY <1>1, <1>4 DEF Reconfigured, TypeOK, Loads
<1> QED
  BY <1>2, <1>3, <1>4

LEMMA RefreshEffect ==
  ASSUME TypeOK, NEW u \in planned \cap hostnames, u = leader \/ RefreshDue(u),
         NEW due, Refresh(u, view'[u], due),
         UNCHANGED <<jujuVars, hostnames>>, view[u] \cap planned \subseteq view'[u],
         \A w \in Units : deferred'[w] \subseteq deferred[w]
  PROVE  Effect
<1>1. conf' \in HostLists(Peers(u, view'[u])) /\ Reconfigured(u, conf', due)
  BY DEF Refresh
<1>2. Refreshes(u) /\ u \in Units
  BY <1>1 DEF Refreshes, TypeOK
<1>3. \A w \in Units : running'[w] = running[w] \/ Loads(w) \/ Stops(w)
  BY <1>1, ReconfiguredEffect
<1>4. \A w \in Units : RefreshDue(w)' => RefreshDue(w)
  BY DEF RefreshDue
<1> QED
  BY <1>2, <1>3, <1>4 DEF Effect

\* A step that writes neither the file nor a service and defers no event but a
\* start.
LEMMA QuietEffect ==
  ASSUME TypeOK, conf' = conf, running' = running,
         \A w \in Units : deferred'[w] \subseteq deferred[w] \cup {"start"}
  PROVE  Effect
  BY DEF Effect, RefreshDue

\* The leader's peer event, handled at once or deferred.
LEMMA PeersChangedEffect ==
  ASSUME TypeOK, NEW u \in planned \cap hostnames, u = leader, NEW due,
         OnPeersChanged(u, view'[u], due),
         UNCHANGED <<jujuVars, hostnames>>, view[u] \cap planned \subseteq view'[u]
  PROVE  Effect
<1>1. CASE conf = <<>>
  <2>1. conf' = conf /\ running' = running
    BY <1>1 DEF OnPeersChanged
  <2>2. deferred' = [deferred EXCEPT ![u] = @ \cup {"peers"}]
    BY <1>1 DEF OnPeersChanged
  <2>3. \A w \in Units \ {u} : deferred'[w] = deferred[w]
    BY <2>2 DEF TypeOK
  <2>4. leader' = leader
    BY DEF jujuVars
  <2> QED
    BY <2>1, <2>3, <2>4 DEF Effect, RefreshDue
<1>2. CASE conf # <<>>
  BY <1>2, RefreshEffect DEF OnPeersChanged
<1> QED
  BY <1>1, <1>2

LEMMA RelationChangedEffect ==
  ASSUME TypeOK, NEW u \in planned \cap hostnames, NEW due,
         OnRelationChanged(u, view'[u], due),
         UNCHANGED <<jujuVars, hostnames>>, view[u] \cap planned \subseteq view'[u]
  PROVE  Effect
<1>1. CASE u = leader /\ OnPeersChanged(u, view'[u], due)
  BY <1>1, PeersChangedEffect
<1>2. CASE ~(u = leader /\ OnPeersChanged(u, view'[u], due))
  <2>1. conf' = conf /\ running' = running
    BY <1>2 DEF OnRelationChanged, slurmVars
  <2>2. deferred' = deferred \/ deferred' = [deferred EXCEPT ![u] = @ \cup {"start"}]
    BY <1>2 DEF OnRelationChanged, StartEmitted
  <2> QED
    BY <2>1, <2>2, QuietEffect DEF TypeOK
<1> QED
  BY <1>1, <1>2

LEMMA NextEffect == TypeOK /\ [Next]_vars => Effect
<1> SUFFICES ASSUME TypeOK, [Next]_vars PROVE Effect
  OBVIOUS
<1> USE DEF peerVars, bagVars, slurmVars
<1>1. ASSUME NEW u \in Units, RelationCreated(u) PROVE Effect
  BY <1>1, QuietEffect DEF RelationCreated, TypeOK
<1>2. ASSUME NEW u \in Units, LeaderElected(u) PROVE Effect
  <2>1. u = leader /\ u \in planned \cap hostnames /\ UNCHANGED <<jujuVars, hostnames, view>>
    BY <1>2 DEF LeaderElected, Ready
  <2>2. CASE conf = <<>>
    <3>1. conf' = conf /\ running' = running
      BY <1>2, <2>2 DEF LeaderElected
    <3>2. \A w \in Units \ {u} : deferred'[w] = deferred[w]
      BY <1>2, <2>2 DEF LeaderElected, TypeOK
    <3> QED
      BY <2>1, <3>1, <3>2 DEF Effect, RefreshDue, jujuVars
  <2>3. CASE conf # <<>>
    <3>1. Refresh(u, view'[u], appDue) /\ deferred' = deferred
      BY <1>2, <2>1, <2>3 DEF LeaderElected
    <3> QED
      BY <2>1, <3>1, RefreshEffect
  <2> QED
    BY <2>2, <2>3
<1>3. ASSUME NEW u \in Units, AppChanged(u) PROVE Effect
  <2>1. u \in planned \cap hostnames /\ UNCHANGED <<jujuVars, hostnames, view>>
    BY <1>3 DEF AppChanged, TypeOK
  <2>2. OnRelationChanged(u, view'[u], appDue \ {u})
    BY <1>3, <2>1 DEF AppChanged
  <2> QED
    BY <2>1, <2>2, RelationChangedEffect
<1>4. ASSUME NEW u \in Units, Start(u) PROVE Effect
  <2>1. u \in planned \cap hostnames /\ UNCHANGED <<jujuVars, hostnames, view>>
    BY <1>4 DEF Start, Ready
  <2>2. conf' = conf \/ Refreshes(u)
    <3>1. CASE conf = <<>>
      <4>1. u = leader
        BY <1>4, <3>1, EmptyList DEF Start, MayStart, Listed
      <4> QED
        BY <1>4, <2>1, <3>1, <4>1 DEF Start, Refreshes
    <3>2. CASE conf # <<>>
      BY <1>4, <3>2 DEF Start
    <3> QED
      BY <3>1, <3>2
  <2>3. \A w \in Units : running'[w] = running[w] \/ Loads(w)
    BY <1>4, <2>1 DEF Start, Loads, TypeOK
  <2>4. \A w \in Units : deferred'[w] \subseteq deferred[w]
    BY <1>4 DEF Start, TypeOK
  <2> QED
    BY <2>2, <2>3, <2>4 DEF Effect, RefreshDue
<1>5. ASSUME NEW u \in Units, NEW event \in {"elected", "peers"}, RefreshDeferred(u, event)
      PROVE Effect
  <2>1. u \in planned \cap hostnames /\ UNCHANGED <<jujuVars, hostnames, view>>
    BY <1>5 DEF RefreshDeferred, Ready
  <2>2. Refresh(u, view'[u], appDue) /\ RefreshDue(u)
    BY <1>5, <2>1 DEF RefreshDeferred, RefreshDue
  <2>3. \A w \in Units : deferred'[w] \subseteq deferred[w]
    BY <1>5 DEF RefreshDeferred, TypeOK
  <2> QED
    BY <2>1, <2>2, <2>3, RefreshEffect
<1>6. ASSUME NEW u \in Units, NEW v \in Units, PeerJoined(u, v) PROVE Effect
  <2>1. /\ u \in planned \cap hostnames
        /\ view[u] \cap planned \subseteq view'[u]
    BY <1>6 DEF PeerJoined, Ready, TypeOK
  <2>2. OnRelationChanged(u, view'[u], appDue) /\ UNCHANGED <<jujuVars, hostnames>>
    BY <1>6 DEF PeerJoined
  <2> QED
    BY <2>1, <2>2, RelationChangedEffect
<1>7. ASSUME NEW u \in Units, NEW v \in Units, PeerDeparted(u, v) PROVE Effect
  <2>1. u \in planned \cap hostnames /\ UNCHANGED <<jujuVars, hostnames>>
    BY <1>7 DEF PeerDeparted, TypeOK
  <2>2. view[u] \cap planned \subseteq view'[u]
    BY <1>7 DEF PeerDeparted, TypeOK
  <2>3. CASE u = leader /\ AllObserved(view'[u])
    BY <1>7, <2>1, <2>2, <2>3, PeersChangedEffect DEF PeerDeparted
  <2>4. CASE ~(u = leader /\ AllObserved(view'[u]))
    BY <1>7, <2>4, QuietEffect DEF PeerDeparted
  <2> QED
    BY <2>3, <2>4
<1>8. ASSUME NEW u \in Units, AddUnit(u) PROVE Effect
  BY <1>8, QuietEffect DEF AddUnit
<1>9. ASSUME NEW u \in Units, RemoveUnit(u) PROVE Effect
  <2>1. conf' = conf /\ deferred' = deferred
    BY <1>9 DEF RemoveUnit
  <2>2. \A w \in Units : running'[w] = running[w] \/ Stops(w)
    BY <1>9 DEF RemoveUnit, Stops, TypeOK
  <2> QED
    BY <2>1, <2>2 DEF Effect, RefreshDue
<1>10. ASSUME NEW u \in Units, LeaderChanges(u) PROVE Effect
  BY <1>10, QuietEffect DEF LeaderChanges
<1>11. ASSUME NEW u \in Units, Crash(u) PROVE Effect
  <2>1. conf' = conf /\ \A w \in Units : deferred'[w] \subseteq deferred[w] \cup {"start"}
    BY <1>11 DEF Crash, TypeOK
  <2>2. \A w \in Units : running'[w] = running[w] \/ Stops(w)
    BY <1>11 DEF Crash, Stops, TypeOK
  <2> QED
    BY <2>1, <2>2 DEF Effect, RefreshDue
<1>12. ASSUME NEW u \in Units, ConfigChanged(u) PROVE Effect
  <2>1. u \in hostnames /\ conf' = conf /\ deferred' = deferred /\ Reconfigured(u, conf', appDue)
    BY <1>12 DEF ConfigChanged, Ready
  <2>2. \A w \in Units : running'[w] = running[w] \/ Loads(w) \/ Stops(w)
    BY <2>1, ReconfiguredEffect
  <2> QED
    BY <2>1, <2>2 DEF Effect, RefreshDue
<1>13. ASSUME NEW u \in Units, SackdConnected(u) PROVE Effect
  BY <1>13, QuietEffect DEF SackdConnected
<1>14. CASE UNCHANGED vars
  BY <1>14, QuietEffect DEF vars
<1> QED
  BY <1>1, <1>2, <1>3, <1>4, <1>5, <1>6, <1>7, <1>8, <1>9, <1>10, <1>11, <1>12, <1>13, <1>14
  DEF Next, QueuedHook, Environment

----------------------------------------------------------------------------
(* The failover order and the cluster name.                                *)

\* A controller that stands before another in the file does so in any refreshed
\* list that has both.
LEMMA HostListsOrder ==
  ASSUME TypeOK, NEW S \in SUBSET Units, NEW s \in HostLists(S), NEW c, NEW d,
         Before(conf, c, d)
  PROVE  ~Before(s, d, c)
<1>1. /\ \A i, j \in DOMAIN conf : i # j => conf[i] # conf[j]
      /\ DOMAIN conf \subseteq Nat
  BY ListsDistinct DEF TypeOK
<1>2. PICK i \in DOMAIN conf, j \in DOMAIN conf : i < j /\ conf[i] = c /\ conf[j] = d
  BY DEF Before
<1>3. Position(c) = i /\ Position(d) = j
  BY <1>1, <1>2 DEF Position
<1>4. Precedes(c, d)
  BY <1>2, <1>3 DEF Precedes, Listed, ToSet
<1> QED
  BY <1>4 DEF HostLists, Before

\* No list of distinct controllers has two of them in both orders.
LEMMA OneOrder ==
  ASSUME NEW s \in Lists, NEW c, NEW d, Before(s, c, d)
  PROVE  ~Before(s, d, c)
<1>1. /\ \A i, j \in DOMAIN s : i # j => s[i] # s[j]
      /\ DOMAIN s \subseteq Nat
  BY ListsDistinct
<1>2. PICK i \in DOMAIN s, j \in DOMAIN s : i < j /\ s[i] = c /\ s[j] = d
  BY DEF Before
<1>3. \A k, l \in DOMAIN s : s[k] = d /\ s[l] = c => k = j /\ l = i
  BY <1>1, <1>2
<1> QED
  BY <1>1, <1>2, <1>3 DEF Before

LEMMA OrderStep ==
  TypeOK /\ [Next]_vars =>
    \A c, d \in planned' : Before(conf, c, d) => ~Before(conf', d, c)
<1> SUFFICES ASSUME TypeOK, [Next]_vars, NEW c \in planned', NEW d \in planned',
                    Before(conf, c, d)
             PROVE  ~Before(conf', d, c)
  OBVIOUS
<1>1. CASE conf' = conf
  BY <1>1, OneOrder DEF TypeOK
<1>2. ASSUME NEW u \in Units, Refreshes(u) PROVE ~Before(conf', d, c)
  <2>1. TypeOK'
    BY TypesKept
  <2>2. Peers(u, view'[u]) \in SUBSET Units
    BY <2>1 DEF TypeOK, Peers
  <2> QED
    BY <1>2, <2>2, HostListsOrder DEF Refreshes
<1> QED
  BY <1>1, <1>2, NextEffect DEF Effect

\* Whatever fails, whoever leads and however often units come and go, two
\* controllers that stay never change places in slurm.conf.
THEOREM FailoverOrderIsKept == Spec => FailoverOrderKept
<1>1. TypeOK /\ [Next]_vars =>
        [\A c, d \in planned' : Before(conf, c, d) => ~Before(conf', d, c)]_vars
  BY OrderStep
<1> QED
  BY <1>1, TypeCorrect, PTL DEF Spec, FailoverOrderKept

\* No hook replaces the name of the cluster.
LEMMA NameStep == [Next]_vars => (cluster # NoName => cluster' = cluster)
<1> SUFFICES ASSUME [Next]_vars, cluster # NoName PROVE cluster' = cluster
  OBVIOUS
<1> USE DEF bagVars
<1>1. ASSUME NEW u \in Units, QueuedHook(u) PROVE cluster' = cluster
  BY <1>1 DEF QueuedHook, RelationCreated, LeaderElected, AppChanged, Start,
              RefreshDeferred, PeerJoined, PeerDeparted
<1>2. ASSUME NEW u \in Units, Environment(u) PROVE cluster' = cluster
  BY <1>2 DEF Environment, AddUnit, RemoveUnit, LeaderChanges, Crash, ConfigChanged,
              SackdConnected
<1>3. CASE UNCHANGED vars
  BY <1>3 DEF vars
<1> QED
  BY <1>1, <1>2, <1>3 DEF Next

----------------------------------------------------------------------------
(* Only departed controllers are dropped.                                  *)

\* Leadership moves only from a leader that leaves, to a settled unit.
OrderlyLeadership == Faults \cap {"leadership", "early"} = {}

\* The leader sees every controller of the file that is still there.
LeaderSeesListed ==
  leader \in planned => ToSet(conf) \cap planned \subseteq {leader} \cup view[leader]

\* Only the leader, or a unit that has left, still has a refresh deferred.
RefreshesWithLeader ==
  \A u \in Units : RefreshDue(u) => u \in hostnames /\ (u = leader \/ u \notin planned)

DropInv ==
  /\ leader \in planned \cup gone
  /\ LeaderSeesListed
  /\ RefreshesWithLeader

LEMMA InitDrop == Init => DropInv
<1> SUFFICES ASSUME Init PROVE DropInv
  OBVIOUS
<1>1. leader \in planned
  BY DEF Init
<1>2. LeaderSeesListed
  BY EmptyList DEF Init, LeaderSeesListed
<1>3. RefreshesWithLeader
  BY DEF Init, RefreshesWithLeader, RefreshDue
<1> QED
  BY <1>1, <1>2, <1>3 DEF DropInv

\* Every refresh is the leader's and keeps the controllers that are still there.
LEMMA RefreshKeepsPlanned ==
  ASSUME TypeOK, [Next]_vars, DropInv, NEW u \in Units, Refreshes(u)
  PROVE  /\ u = leader
         /\ ToSet(conf') = {leader} \cup view'[leader]
         /\ ToSet(conf) \cap planned' \subseteq ToSet(conf')
<1>1. u = leader /\ u \in planned /\ planned' = planned
  BY DEF DropInv, RefreshesWithLeader, Refreshes, jujuVars
<1>2. TypeOK'
  BY TypesKept
<1>3. Peers(u, view'[u]) \in SUBSET Units
  BY <1>2 DEF TypeOK, Peers
<1>4. ToSet(conf') = {leader} \cup view'[leader]
  BY <1>1, <1>3, RefreshedList DEF Refreshes, Peers
<1>5. view[leader] \cap planned \subseteq view'[leader]
  BY <1>1 DEF Refreshes
<1>6. ToSet(conf) \cap planned \subseteq {leader} \cup view[leader]
  BY <1>1 DEF DropInv, LeaderSeesListed
<1> QED
  BY <1>1, <1>4, <1>5, <1>6

LEMMA DropStep ==
  TypeOK /\ DropInv /\ [Next]_vars => \A c \in ToSet(conf) : c \in planned' => c \in ToSet(conf')
<1> SUFFICES ASSUME TypeOK, DropInv, [Next]_vars
             PROVE  \A c \in ToSet(conf) : c \in planned' => c \in ToSet(conf')
  OBVIOUS
<1> QED
  BY NextEffect, RefreshKeepsPlanned DEF Effect

\* How units, leadership and views move in a step of an orderly system.
Movement ==
  \/ \* a unit is new
     \E u \in Units \ (planned \cup gone) :
       planned' = planned \cup {u} /\ UNCHANGED <<gone, leader, view>>
  \/ \* a unit leaves
     \E u \in planned :
       planned' = planned \ {u} /\ gone' = gone \cup {u} /\ UNCHANGED <<leader, view>>
  \/ \* a settled unit replaces a leader that left
     /\ leader \notin planned
     /\ leader' \in planned
     /\ planned \ {leader'} \subseteq view[leader']
     /\ UNCHANGED <<planned, gone, view>>
  \/ \* a unit sees others join, or those that left depart
     /\ UNCHANGED jujuVars
     /\ \A w \in Units : view[w] \cap planned \subseteq view'[w]

LEMMA NextMovement ==
  ASSUME OrderlyLeadership, TypeOK, [Next]_vars
  PROVE  Movement
<1> USE DEF peerVars, jujuVars
<1>1. ASSUME NEW u \in Units, QueuedHook(u) PROVE Movement
  <2>1. UNCHANGED jujuVars
    BY <1>1 DEF QueuedHook, RelationCreated, LeaderElected, AppChanged, Start,
                RefreshDeferred, PeerJoined, PeerDeparted
  <2>2. \/ UNCHANGED view
        \/ \E v \in Units : view' = [view EXCEPT ![u] = @ \cup {v}]
        \/ \E v \in gone : view' = [view EXCEPT ![u] = @ \ {v}]
    BY <1>1 DEF QueuedHook, RelationCreated, LeaderElected, AppChanged, Start,
                RefreshDeferred, PeerJoined, PeerDeparted
  <2>3. \A w \in Units : view[w] \cap planned \subseteq view'[w]
    BY <2>2 DEF TypeOK
  <2> QED
    BY <2>1, <2>3 DEF Movement
<1>2. ASSUME NEW u \in Units, AddUnit(u) PROVE Movement
  BY <1>2 DEF AddUnit, Movement
<1>3. ASSUME NEW u \in Units, RemoveUnit(u) PROVE Movement
  BY <1>3 DEF RemoveUnit, Movement
<1>4. ASSUME NEW u \in Units, LeaderChanges(u) PROVE Movement
  BY <1>4 DEF LeaderChanges, MayLead, Settled, Movement, OrderlyLeadership
<1>5. ASSUME NEW u \in Units, Crash(u) \/ ConfigChanged(u) \/ SackdConnected(u) PROVE Movement
  BY <1>5 DEF Crash, ConfigChanged, SackdConnected, Movement
<1>6. CASE UNCHANGED vars
  BY <1>6 DEF vars, Movement
<1> QED
  BY <1>1, <1>2, <1>3, <1>4, <1>5, <1>6 DEF Next, Environment

LEMMA HostnamesGrow == TypeOK /\ [Next]_vars => hostnames \subseteq hostnames'
<1> SUFFICES ASSUME TypeOK, [Next]_vars PROVE hostnames \subseteq hostnames'
  OBVIOUS
<1> USE DEF peerVars
<1>1. ASSUME NEW u \in Units, QueuedHook(u) PROVE hostnames \subseteq hostnames'
  BY <1>1 DEF QueuedHook, RelationCreated, LeaderElected, AppChanged, Start,
              RefreshDeferred, PeerJoined, PeerDeparted
<1>2. ASSUME NEW u \in Units, Environment(u) PROVE hostnames \subseteq hostnames'
  BY <1>2 DEF Environment, AddUnit, RemoveUnit, LeaderChanges, Crash, ConfigChanged,
              SackdConnected
<1>3. CASE UNCHANGED vars
  BY <1>3 DEF vars
<1> QED
  BY <1>1, <1>2, <1>3 DEF Next

LEMMA DropKept ==
  ASSUME OrderlyLeadership, TypeOK, DropInv, [Next]_vars
  PROVE  DropInv'
<1>0. Effect /\ Movement /\ hostnames \subseteq hostnames' /\ TypeOK'
  BY NextEffect, NextMovement, HostnamesGrow, TypesKept
<1>1. leader' \in planned' \cup gone'
  BY <1>0 DEF Movement, DropInv, jujuVars
<1>2. \A w \in Units : w \in planned' \ planned => w \notin hostnames /\ w # leader'
  BY <1>0 DEF Movement, DropInv, jujuVars, TypeOK
<1>3. RefreshesWithLeader'
  <2> SUFFICES ASSUME NEW w \in Units, RefreshDue(w)'
               PROVE  w \in hostnames' /\ (w = leader' \/ w \notin planned')
    BY DEF RefreshesWithLeader
  <2>1. CASE w = leader /\ leader' = leader /\ w \in hostnames
    BY <1>0, <2>1
  <2>2. CASE RefreshDue(w)
    <3>1. w \in hostnames /\ (w = leader \/ w \notin planned)
      BY <2>2 DEF DropInv, RefreshesWithLeader
    <3>2. w \notin planned => w \notin planned'
      BY <1>2, <3>1
    <3>3. leader' = leader \/ (leader \notin planned /\ planned' = planned)
      BY <1>0 DEF Movement, jujuVars
    <3> QED
      BY <1>0, <3>1, <3>2, <3>3
  <2> QED
    BY <1>0, <2>1, <2>2 DEF Effect
<1>4. LeaderSeesListed'
  <2> SUFFICES ASSUME leader' \in planned'
               PROVE  ToSet(conf') \cap planned' \subseteq {leader'} \cup view'[leader']
    BY DEF LeaderSeesListed
  <2>1. ASSUME NEW u \in Units, Refreshes(u)
        PROVE  ToSet(conf') \cap planned' \subseteq {leader'} \cup view'[leader']
    <3>1. leader' = leader
      BY <2>1 DEF Refreshes, jujuVars
    <3> QED
      BY <2>1, <3>1, RefreshKeepsPlanned
  <2>2. CASE conf' = conf
    <3>1. ToSet(conf) \cap planned' \subseteq planned
      BY <1>2 DEF TypeOK
    <3>2. CASE leader' = leader
      <4>1. leader \in planned
        BY <1>1, <1>2, <3>2 DEF TypeOK
      <4>2. view[leader] \cap planned' \subseteq view'[leader] \cup (planned' \ planned)
        BY <1>0 DEF Movement, jujuVars, TypeOK
      <4> QED
        BY <2>2, <3>1, <3>2, <4>1, <4>2 DEF DropInv, LeaderSeesListed
    <3>3. CASE leader' # leader
      BY <1>0, <2>2, <3>1, <3>3 DEF Movement, jujuVars
    <3> QED
      BY <3>2, <3>3
  <2> QED
    BY <1>0, <2>1, <2>2 DEF Effect
<1> QED
  BY <1>1, <1>3, <1>4 DEF DropInv

LEMMA DropInvariant ==
  ASSUME OrderlyLeadership
  PROVE  Spec => [](TypeOK /\ DropInv)
<1>1. Init => TypeOK /\ DropInv
  BY InitTypes, InitDrop
<1>2. (TypeOK /\ DropInv) /\ [Next]_vars => (TypeOK /\ DropInv)'
  BY OrderlyLeadership, TypesKept, DropKept
<1> QED
  BY <1>1, <1>2, PTL DEF Spec

\* If leadership passes only from leaders that leave to settled units, a refresh
\* takes a controller out of slurm.conf only if its unit departed, whatever else
\* happens: services may crash and units be removed before they have joined.
THEOREM OnlyDepartedAreDropped ==
  ASSUME OrderlyLeadership
  PROVE  Spec => OnlyDepartedDropped
<1>1. (TypeOK /\ DropInv) /\ [Next]_vars =>
        [\A c \in ToSet(conf) : c \in planned' => c \in ToSet(conf')]_vars
  BY DropStep
<1> QED
  BY <1>1, DropInvariant, OrderlyLeadership, PTL DEF Spec, OnlyDepartedDropped

----------------------------------------------------------------------------
(* No hook stops a controller that stays.                                  *)

\* A running controller of the application has its place in the file.
RunningListed ==
  \A u \in Units : running[u] # <<>> => u \in hostnames /\ (u \in planned => u \in ToSet(conf))

LEMMA RunningKept ==
  ASSUME OrderlyLeadership, TypeOK, DropInv, RunningListed, [Next]_vars
  PROVE  RunningListed'
<1>0. Effect /\ Movement /\ hostnames \subseteq hostnames'
  BY NextEffect, NextMovement, HostnamesGrow
<1> SUFFICES ASSUME NEW w \in Units, running'[w] # <<>>
             PROVE  w \in hostnames' /\ (w \in planned' => w \in ToSet(conf'))
  BY DEF RunningListed
<1>1. CASE Loads(w)
  BY <1>0, <1>1 DEF Loads
<1>2. CASE running'[w] = running[w]
  <2>1. w \in hostnames /\ (w \in planned => w \in ToSet(conf))
    BY <1>2 DEF RunningListed
  <2>2. w \in planned' => w \in planned
    BY <1>0, <2>1 DEF Movement, jujuVars, TypeOK
  <2> QED
    BY <1>0, <2>1, <2>2, DropStep
<1> QED
  BY <1>0, <1>1, <1>2 DEF Effect, Stops

LEMMA ServiceStep ==
  ASSUME OrderlyLeadership, "crash" \notin Faults, TypeOK, DropInv, RunningListed,
         [Next]_vars, NEW u \in planned', running[u] # <<>>
  PROVE  running'[u] # <<>>
<1>0. Effect /\ Movement /\ planned' \subseteq Units
  BY NextEffect, NextMovement, TypesKept DEF TypeOK
<1>1. u \in Units /\ u \in planned /\ u \in ToSet(conf)
  BY <1>0 DEF RunningListed, Movement, jujuVars, TypeOK
<1>2. u \in ToSet(conf')
  BY <1>1, DropStep
<1>3. ~Stops(u)
  BY <1>2 DEF Stops
<1> QED
  BY <1>0, <1>1, <1>2, <1>3, EmptyList DEF Effect, Loads

\* Under the same assumption and without crashes, no hook leaves a controller
\* that stays without its slurmctld: the file it is restarted with lists it.
THEOREM ServiceIsKept ==
  ASSUME OrderlyLeadership, "crash" \notin Faults
  PROVE  Spec => ServiceKept
<1>1. Init => RunningListed
  BY DEF Init, RunningListed
<1>2. (TypeOK /\ DropInv) /\ RunningListed /\ [Next]_vars => RunningListed'
  BY OrderlyLeadership, RunningKept
<1>3. (TypeOK /\ DropInv) /\ RunningListed /\ [Next]_vars =>
        [\A u \in planned' : running[u] # <<>> => running'[u] # <<>>]_vars
  BY OrderlyLeadership, "crash" \notin Faults, ServiceStep
<1>4. Spec => [](TypeOK /\ DropInv)
  BY OrderlyLeadership, DropInvariant
<1>5. Spec => []RunningListed
  BY <1>1, <1>2, <1>4, PTL DEF Spec
<1> QED
  BY <1>3, <1>4, <1>5, PTL DEF Spec, ServiceKept

----------------------------------------------------------------------------
(* No controller is forgotten by a membership change.                      *)

\* No service runs before there is a file and a name, and once there is a file
\* the leader's does.
Started ==
  /\ \A u \in Units : running[u] # <<>> => conf # <<>> /\ cluster # NoName
  /\ conf # <<>> /\ leader \in planned => running[leader] # <<>>

\* Only the leader's start writes the first file.
LEMMA FirstFile ==
  ASSUME TypeOK, [Next]_vars, conf = <<>>, conf' # <<>>
  PROVE  \E u \in Units : Start(u)
<1> USE DEF slurmVars
<1>1. ASSUME NEW u \in Units, QueuedHook(u), ~Start(u) PROVE FALSE
  BY <1>1 DEF QueuedHook, RelationCreated, LeaderElected, AppChanged, RefreshDeferred,
              PeerJoined, PeerDeparted, OnRelationChanged, OnPeersChanged
<1>2. ASSUME NEW u \in Units, Environment(u) PROVE FALSE
  BY <1>2 DEF Environment, AddUnit, RemoveUnit, LeaderChanges, Crash, ConfigChanged,
              SackdConnected
<1> QED
  BY <1>1, <1>2 DEF Next, vars

\* A service that was down is only ever brought up by start.
LEMMA StartsUp ==
  ASSUME TypeOK, [Next]_vars, NEW w \in Units, running[w] = <<>>, running'[w] # <<>>
  PROVE  Start(w)
<1> USE DEF slurmVars
<1>1. ASSUME NEW u \in Units, NEW hosts, NEW due, Reconfigured(u, hosts, due)
      PROVE  running'[w] = <<>>
  BY <1>1, EmptyList DEF Reconfigured, TypeOK
<1>2. ASSUME NEW u \in Units, NEW seen, NEW due, Refresh(u, seen, due)
      PROVE  running'[w] = <<>>
  BY <1>1, <1>2 DEF Refresh
<1>3. ASSUME NEW u \in Units, NEW seen, NEW due, OnPeersChanged(u, seen, due)
      PROVE  running'[w] = <<>>
  BY <1>2, <1>3 DEF OnPeersChanged
<1>4. ASSUME NEW u \in Units, NEW seen, NEW due, OnRelationChanged(u, seen, due)
      PROVE  running'[w] = <<>>
  BY <1>3, <1>4 DEF OnRelationChanged
<1>5. ASSUME NEW u \in Units, QueuedHook(u), ~Start(u) PROVE FALSE
  BY <1>2, <1>3, <1>4, <1>5
  DEF QueuedHook, RelationCreated, LeaderElected, AppChanged, RefreshDeferred,
      PeerJoined, PeerDeparted
<1>6. ASSUME NEW u \in Units, Start(u) PROVE u = w
  BY <1>6 DEF Start, TypeOK
<1>7. ASSUME NEW u \in Units, Environment(u) PROVE FALSE
  BY <1>1, <1>7 DEF Environment, AddUnit, RemoveUnit, LeaderChanges, Crash, ConfigChanged,
              SackdConnected, TypeOK
<1> QED
  BY <1>5, <1>6, <1>7 DEF Next, vars

LEMMA StartedKept ==
  ASSUME OrderlyLeadership, "crash" \notin Faults, TypeOK, DropInv, RunningListed, Started,
         [Next]_vars
  PROVE  Started'
<1>0. Effect /\ Movement /\ TypeOK'
  BY NextEffect, NextMovement, TypesKept
<1>1. conf # <<>> => conf' # <<>>
  <2>1. ASSUME NEW u \in Units, Refreshes(u) PROVE conf' # <<>>
    BY <2>1, RefreshKeepsPlanned, EmptyList
  <2> QED
    BY <1>0, <2>1 DEF Effect
<1>2. cluster # NoName => cluster' # NoName
  BY NameStep
<1>3. ASSUME NEW w \in Units, running'[w] # <<>> PROVE conf' # <<>> /\ cluster' # NoName
  <2>1. CASE running[w] # <<>>
    BY <1>1, <1>2, <2>1 DEF Started
  <2>2. CASE running[w] = <<>>
    <3>1. Start(w)
      BY <1>3, <2>2, StartsUp
    <3> QED
      BY <3>1, EmptyList DEF Start, bagVars
  <2> QED
    BY <2>1, <2>2
<1>4. ASSUME conf' # <<>>, leader' \in planned' PROVE running'[leader'] # <<>>
  <2>1. ASSUME NEW u \in Units, Start(u), conf = <<>> PROVE running'[leader'] # <<>>
    <3>1. u = leader /\ leader' = leader
      BY <2>1, EmptyList DEF Start, MayStart, Listed, jujuVars
    <3>2. running' = [running EXCEPT ![u] = conf']
      BY <2>1 DEF Start
    <3> QED
      BY <1>4, <3>1, <3>2 DEF TypeOK
  <2>2. CASE conf # <<>> /\ leader' = leader
    <3>1. leader \in planned
      BY <1>0, <1>4, <2>2 DEF Movement, DropInv, jujuVars
    <3> QED
      BY <1>4, <2>2, <3>1, ServiceStep, OrderlyLeadership DEF Started
  <2>3. CASE leader' # leader
    <3>1. ASSUME NEW u \in Units, LeaderChanges(u) PROVE running'[leader'] # <<>>
      BY <3>1, OrderlyLeadership
      DEF LeaderChanges, MayLead, Settled, slurmVars, OrderlyLeadership
    <3>2. ASSUME NEW u \in Units, QueuedHook(u) PROVE FALSE
      BY <2>3, <3>2
      DEF QueuedHook, RelationCreated, LeaderElected, AppChanged, Start, RefreshDeferred,
          PeerJoined, PeerDeparted, jujuVars
    <3>3. ASSUME NEW u \in Units, Environment(u), ~LeaderChanges(u) PROVE FALSE
      BY <2>3, <3>3
      DEF Environment, AddUnit, RemoveUnit, Crash, ConfigChanged, SackdConnected, jujuVars
    <3> QED
      BY <2>3, <3>1, <3>2, <3>3 DEF Next, vars, jujuVars
  <2> QED
    BY <1>4, <2>1, <2>2, <2>3, FirstFile
<1> QED
  BY <1>3, <1>4 DEF Started

\* The leader's _reconfigure restarts its own service and signals every unit that
\* could be running.
LEMMA ReconfiguredSignals ==
  ASSUME TypeOK, NEW due, leader \in planned, running[leader] # <<>>, cluster # NoName,
         leader \in ToSet(conf'), Reconfigured(leader, conf', due)
  PROVE  /\ running' = [running EXCEPT ![leader] = conf']
         /\ unseen' = Units
         /\ \A w \in planned \cap hostnames : w # leader => w \in appDue'
<1>1. /\ running' = [running EXCEPT ![leader] = conf']
      /\ unseen' = Units
      /\ appDue' = due \cup Told(leader)
  BY DEF Reconfigured
<1> QED
  BY <1>1 DEF Told

\* After a refresh or _reconfigure by the leader every running controller is
\* signalled.
LEMMA SignalledRestart ==
  ASSUME TypeOK, RunningListed, leader \in planned, leader' = leader, planned' = planned,
         running' = [running EXCEPT ![leader] = conf'], unseen' = Units,
         \A w \in planned \cap hostnames : w # leader => w \in appDue'
  PROVE  RestartOutstanding'
<1> SUFFICES ASSUME NEW w \in planned
             PROVE  running'[w] \in {<<>>, conf'} \/ RestartComing(w)'
  BY DEF RestartOutstanding
<1>1. CASE w = leader
  BY <1>1 DEF TypeOK
<1>2. CASE w # leader
  <2>1. running'[w] = running[w] /\ w \in Units
    BY <1>2 DEF TypeOK
  <2> QED
    BY <1>2, <2>1 DEF RunningListed, RestartComing
<1> QED
  BY <1>1, <1>2

LEMMA RefreshRestarts ==
  ASSUME TypeOK, [Next]_vars, DropInv, RunningListed, Started, conf # <<>>,
         NEW u \in planned \cap hostnames, u = leader \/ RefreshDue(u),
         NEW due, Refresh(u, view'[u], due),
         UNCHANGED <<jujuVars, hostnames>>, view[u] \cap planned \subseteq view'[u]
  PROVE  RestartOutstanding'
<1>1. conf' \in HostLists(Peers(u, view'[u])) /\ Reconfigured(u, conf', due)
  BY DEF Refresh
<1>2. Refreshes(u) /\ u \in Units
  BY <1>1 DEF Refreshes, TypeOK
<1>3. u = leader /\ leader \in ToSet(conf')
  BY <1>2, RefreshKeepsPlanned
<1>4. running[leader] # <<>> /\ cluster # NoName
  BY <1>2, <1>3 DEF Started
<1>5. leader' = leader /\ planned' = planned
  BY DEF jujuVars
<1> QED
  BY <1>1, <1>3, <1>4, <1>5, ReconfiguredSignals, SignalledRestart

\* A step that keeps the file and the services and loses no restart.
LEMMA RestartsKept ==
  ASSUME RestartOutstanding, conf' = conf,
         \A w \in planned' : w \in planned /\ running'[w] = running[w],
         \A w \in planned' : RestartComing(w) => running[w] = <<>> \/ RestartComing(w)'
  PROVE  RestartOutstanding'
  BY DEF RestartOutstanding

LEMMA PeersChangedRestarts ==
  ASSUME TypeOK, [Next]_vars, DropInv, RunningListed, Started, RestartOutstanding,
         NEW u \in planned \cap hostnames, u = leader, NEW due,
         due = appDue \/ due = appDue \ {u},
         OnPeersChanged(u, view'[u], due), electedDue' = electedDue,
         UNCHANGED <<jujuVars, hostnames>>, view[u] \cap planned \subseteq view'[u]
  PROVE  RestartOutstanding'
<1>1. CASE conf = <<>>
  <2>1. /\ conf' = conf /\ running' = running /\ unseen' = unseen
        /\ deferred' = [deferred EXCEPT ![u] = @ \cup {"peers"}]
        /\ appDue' = due
    BY <1>1 DEF OnPeersChanged
  <2>2. \A w \in planned : running[w] = <<>>
    BY <1>1 DEF Started, TypeOK
  <2>3. planned' = planned
    BY DEF jujuVars
  <2> QED
    BY <2>1, <2>2, <2>3, RestartsKept
<1>2. CASE conf # <<>>
  BY <1>2, RefreshRestarts DEF OnPeersChanged
<1> QED
  BY <1>1, <1>2

LEMMA RelationChangedRestarts ==
  ASSUME TypeOK, [Next]_vars, DropInv, RunningListed, Started, RestartOutstanding,
         NEW u \in planned \cap hostnames, NEW due,
         due = appDue \/ due = appDue \ {u},
         OnRelationChanged(u, view'[u], due), electedDue' = electedDue,
         UNCHANGED <<jujuVars, hostnames>>, view[u] \cap planned \subseteq view'[u]
  PROVE  RestartOutstanding'
<1>1. planned' = planned /\ leader' = leader /\ planned \subseteq Units
  BY DEF jujuVars, TypeOK
<1>2. CASE cluster = NoName
  <2>1. conf' = conf /\ running' = running
    BY <1>2 DEF OnRelationChanged, slurmVars
  <2>2. \A w \in planned : running[w] = <<>>
    BY <1>1, <1>2 DEF Started
  <2> QED
    BY <1>1, <2>1, <2>2, RestartsKept
<1>3. CASE cluster # NoName /\ u \in unseen
  <2>1. conf' = conf /\ running' = running /\ unseen' = unseen \ {u} /\ appDue' = due
    BY <1>3 DEF OnRelationChanged, slurmVars
  <2>2. deferred' = IF u = leader THEN deferred
                    ELSE [deferred EXCEPT ![u] = @ \cup {"start"}]
    BY <1>3 DEF OnRelationChanged, StartEmitted
  <2>3. \A w \in planned : RestartComing(w) => RestartComing(w)'
    BY <1>1, <2>1, <2>2 DEF RestartComing, TypeOK
  <2> QED
    BY <1>1, <2>1, <2>3, RestartsKept
<1>4. CASE cluster # NoName /\ u \notin unseen
  <2>1. CASE u = leader /\ AllObserved(view'[u])
    BY <1>4, <2>1, PeersChangedRestarts DEF OnRelationChanged
  <2>2. CASE ~(u = leader /\ AllObserved(view'[u]))
    <3>1. /\ conf' = conf /\ running' = running /\ unseen' = unseen
          /\ deferred' = deferred /\ appDue' = due
      BY <1>4, <2>2 DEF OnRelationChanged, slurmVars
    <3>2. \A w \in planned : RestartComing(w) => RestartComing(w)'
      BY <1>1, <1>4, <3>1 DEF RestartComing
    <3> QED
      BY <1>1, <3>1, <3>2, RestartsKept
  <2> QED
    BY <2>1, <2>2
<1> QED
  BY <1>2, <1>3, <1>4

LEMMA RestartStep ==
  ASSUME OrderlyLeadership, "crash" \notin Faults, TypeOK, DropInv, RunningListed, Started,
         RestartOutstanding, [Next]_vars
  PROVE  RestartOutstanding'
<1> USE DEF peerVars, bagVars, slurmVars
<1>1. ASSUME NEW u \in Units, RelationCreated(u) PROVE RestartOutstanding'
  <2>1. /\ conf' = conf /\ running' = running /\ planned' = planned /\ leader' = leader
        /\ unseen' = unseen /\ electedDue' = electedDue /\ appDue \subseteq appDue'
        /\ \A w \in planned : deferred[w] \subseteq deferred'[w]
    BY <1>1 DEF RelationCreated, jujuVars, TypeOK
  <2>2. \A w \in planned : RestartComing(w) => RestartComing(w)'
    BY <2>1 DEF RestartComing
  <2> QED
    BY <2>1, <2>2, RestartsKept
<1>2. ASSUME NEW u \in Units, LeaderElected(u) PROVE RestartOutstanding'
  <2>1. u = leader /\ u \in planned \cap hostnames /\ UNCHANGED <<jujuVars, hostnames, view>>
    BY <1>2 DEF LeaderElected, Ready
  <2>2. CASE conf = <<>>
    <3>1. conf' = conf /\ running' = running /\ planned' = planned
      BY <1>2, <2>2 DEF LeaderElected, jujuVars
    <3>2. \A w \in planned : running[w] = <<>>
      BY <2>2 DEF Started, TypeOK
    <3> QED
      BY <3>1, <3>2, RestartsKept
  <2>3. CASE conf # <<>>
    <3>1. Refresh(u, view'[u], appDue)
      BY <1>2, <2>1, <2>3 DEF LeaderElected
    <3> QED
      BY <2>1, <2>3, <3>1, RefreshRestarts
  <2> QED
    BY <2>2, <2>3
<1>3. ASSUME NEW u \in Units, AppChanged(u) PROVE RestartOutstanding'
  <2>1. /\ u \in planned \cap hostnames /\ UNCHANGED <<jujuVars, hostnames, view>>
        /\ electedDue' = electedDue
    BY <1>3 DEF AppChanged, TypeOK
  <2>2. OnRelationChanged(u, view'[u], appDue \ {u})
    BY <1>3, <2>1 DEF AppChanged
  <2> QED
    BY <2>1, <2>2, RelationChangedRestarts
<1>4. ASSUME NEW u \in Units, Start(u) PROVE RestartOutstanding'
  <2>1. /\ planned' = planned /\ leader' = leader /\ unseen' = unseen
        /\ electedDue' = electedDue /\ appDue' = appDue /\ planned \subseteq Units
        /\ running' = [running EXCEPT ![u] = conf']
        /\ deferred' = [deferred EXCEPT ![u] = @ \ {"start"}]
    BY <1>4 DEF Start, jujuVars, TypeOK
  <2>2. ASSUME NEW w \in planned PROVE running'[w] \in {<<>>, conf'} \/ RestartComing(w)'
    <3>1. CASE w = u
      BY <2>1, <3>1 DEF TypeOK
    <3>2. CASE w # u /\ conf = <<>>
      BY <2>1, <3>2 DEF TypeOK, Started
    <3>3. CASE w # u /\ conf # <<>>
      <4>1. conf' = conf /\ running'[w] = running[w] /\ deferred'[w] = deferred[w]
        BY <1>4, <2>1, <3>3 DEF Start, TypeOK
      <4> QED
        BY <2>1, <4>1 DEF RestartOutstanding, RestartComing
    <3> QED
      BY <3>1, <3>2, <3>3
  <2> QED
    BY <2>1, <2>2 DEF RestartOutstanding
<1>5. ASSUME NEW u \in Units, NEW event \in {"elected", "peers"}, RefreshDeferred(u, event)
      PROVE RestartOutstanding'
  <2>1. u \in planned \cap hostnames /\ UNCHANGED <<jujuVars, hostnames, view>>
    BY <1>5 DEF RefreshDeferred, Ready
  <2>2. Refresh(u, view'[u], appDue) /\ RefreshDue(u) /\ conf # <<>>
    BY <1>5, <2>1 DEF RefreshDeferred, RefreshDue
  <2> QED
    BY <2>1, <2>2, RefreshRestarts
<1>6. ASSUME NEW u \in Units, NEW v \in Units, PeerJoined(u, v) PROVE RestartOutstanding'
  <2>1. /\ u \in planned \cap hostnames /\ electedDue' = electedDue
        /\ view[u] \cap planned \subseteq view'[u]
    BY <1>6 DEF PeerJoined, Ready, TypeOK
  <2>2. OnRelationChanged(u, view'[u], appDue) /\ UNCHANGED <<jujuVars, hostnames>>
    BY <1>6 DEF PeerJoined
  <2> QED
    BY <2>1, <2>2, RelationChangedRestarts
<1>7. ASSUME NEW u \in Units, NEW v \in Units, PeerDeparted(u, v) PROVE RestartOutstanding'
  <2>1. /\ u \in planned \cap hostnames /\ UNCHANGED <<jujuVars, hostnames>>
        /\ electedDue' = electedDue
    BY <1>7 DEF PeerDeparted, TypeOK
  <2>2. view[u] \cap planned \subseteq view'[u]
    BY <1>7 DEF PeerDeparted, TypeOK
  <2>3. CASE u = leader /\ AllObserved(view'[u])
    BY <1>7, <2>1, <2>2, <2>3, PeersChangedRestarts DEF PeerDeparted
  <2>4. CASE ~(u = leader /\ AllObserved(view'[u]))
    <3>1. UNCHANGED <<appDue, unseen, conf, running, deferred, planned, leader>>
      BY <1>7, <2>4 DEF PeerDeparted, jujuVars
    <3>2. \A w \in planned : RestartComing(w) => RestartComing(w)'
      BY <2>1, <3>1 DEF RestartComing
    <3> QED
      BY <3>1, <3>2, RestartsKept
  <2> QED
    BY <2>3, <2>4
<1>8. ASSUME NEW u \in Units, AddUnit(u) PROVE RestartOutstanding'
  <2>1. UNCHANGED <<conf, running, deferred, appDue, unseen, electedDue, leader>>
    BY <1>8 DEF AddUnit
  <2>2. running[u] = <<>> /\ planned' = planned \cup {u}
    BY <1>8 DEF AddUnit, RunningListed, TypeOK
  <2> QED
    BY <2>1, <2>2 DEF RestartOutstanding, RestartComing
<1>9. ASSUME NEW u \in Units, RemoveUnit(u) PROVE RestartOutstanding'
  <2>1. UNCHANGED <<conf, deferred, appDue, unseen, electedDue, leader>>
    BY <1>9 DEF RemoveUnit
  <2>2. \A w \in planned' : w \in planned /\ running'[w] = running[w]
    BY <1>9 DEF RemoveUnit, TypeOK
  <2>3. \A w \in planned' : RestartComing(w) => RestartComing(w)'
    BY <2>1 DEF RestartComing
  <2> QED
    BY <2>1, <2>2, <2>3, RestartsKept
<1>10. ASSUME NEW u \in Units, LeaderChanges(u) PROVE RestartOutstanding'
  <2>1. /\ UNCHANGED <<planned, conf, running, deferred, appDue, unseen>>
        /\ leader' = u /\ electedDue' /\ leader \notin planned
    BY <1>10 DEF LeaderChanges, OrderlyLeadership
  <2>2. \A w \in planned : RestartComing(w) => RestartComing(w)'
    BY <2>1 DEF RestartComing
  <2> QED
    BY <2>1, <2>2, RestartsKept
<1>11. ASSUME NEW u \in Units, Crash(u) PROVE RestartOutstanding'
  BY <1>11 DEF Crash
<1>12. ASSUME NEW u \in Units, ConfigChanged(u) PROVE RestartOutstanding'
  <2>1. /\ u \in planned \cap hostnames /\ planned \subseteq Units
        /\ Reconfigured(u, conf', appDue)
        /\ UNCHANGED <<conf, deferred, electedDue, planned, leader, cluster>>
    BY <1>12 DEF ConfigChanged, Ready, jujuVars, TypeOK
  <2>2. CASE running[u] = <<>> \/ cluster = NoName
    <3>1. running' = running /\ unseen' = unseen /\ appDue' = appDue
      BY <2>1, <2>2 DEF Reconfigured
    <3>2. \A w \in planned : RestartComing(w) => RestartComing(w)'
      BY <2>1, <3>1 DEF RestartComing
    <3> QED
      BY <2>1, <3>1, <3>2, RestartsKept
  <2>3. CASE running[u] # <<>> /\ cluster # NoName
    <3>1. u \in ToSet(conf')
      BY <2>1, <2>3 DEF RunningListed
    <3>2. CASE u = leader
      BY <2>1, <2>3, <3>1, <3>2, ReconfiguredSignals, SignalledRestart
    <3>3. CASE u # leader
      <4>1. running' = [running EXCEPT ![u] = conf'] /\ unseen' = unseen /\ appDue' = appDue
        BY <2>1, <2>3, <3>1, <3>3 DEF Reconfigured
      <4>2. \A w \in planned : running'[w] = conf' \/ running'[w] = running[w]
        BY <2>1, <4>1 DEF TypeOK
      <4> QED
        BY <2>1, <4>1, <4>2 DEF RestartOutstanding, RestartComing
    <3> QED
      BY <3>2, <3>3
  <2> QED
    BY <2>2, <2>3
<1>13. ASSUME NEW u \in Units, SackdConnected(u) PROVE RestartOutstanding'
  <2>1. UNCHANGED <<planned, leader, conf, running, deferred, appDue, unseen, electedDue>>
    BY <1>13 DEF SackdConnected, jujuVars
  <2> QED
    BY <2>1 DEF RestartOutstanding, RestartComing
<1>14. CASE UNCHANGED vars
  BY <1>14 DEF vars, jujuVars, RestartOutstanding, RestartComing
<1> QED
  BY <1>1, <1>2, <1>3, <1>4, <1>5, <1>6, <1>7, <1>8, <1>9, <1>10, <1>11, <1>12, <1>13, <1>14
  DEF Next, QueuedHook, Environment

\* Under the assumption of orderly leadership and without crashes, a controller
\* that runs with an older SlurmctldHost list always has its restart to come,
\* however membership and configuration change: the nonce reaches them all.
THEOREM RestartIsOutstanding ==
  ASSUME OrderlyLeadership, "crash" \notin Faults
  PROVE  Spec => []RestartOutstanding
<1> DEFINE Inv == RunningListed /\ Started /\ RestartOutstanding
<1>1. Init => Inv
  BY DEF Init, RunningListed, Started, RestartOutstanding
<1>2. (TypeOK /\ DropInv) /\ Inv /\ [Next]_vars => Inv'
  BY OrderlyLeadership, "crash" \notin Faults, RunningKept, StartedKept, RestartStep
<1>3. Spec => [](TypeOK /\ DropInv)
  BY OrderlyLeadership, DropInvariant
<1>4. Inv => RestartOutstanding
  OBVIOUS
<1> HIDE DEF Inv
<1> QED
  BY <1>1, <1>2, <1>3, <1>4, PTL DEF Spec

----------------------------------------------------------------------------
(* The controllers agree on who takes over.                                *)

\* A list with two controllers has them in one order or the other.
LEMMA SomeOrder ==
  ASSUME NEW s \in Lists, NEW c \in ToSet(s), NEW d \in ToSet(s), c # d
  PROVE  Before(s, c, d) \/ Before(s, d, c)
<1>1. DOMAIN s \subseteq Nat
  BY ListsDistinct
<1>2. PICK i \in DOMAIN s, j \in DOMAIN s : s[i] = c /\ s[j] = d
  BY DEF ToSet
<1>3. i < j \/ j < i
  BY <1>1, <1>2
<1> QED
  BY <1>2, <1>3 DEF Before

LEMMA OrderedAreListed ==
  ASSUME NEW s \in Lists, NEW c, NEW d, Before(s, c, d)
  PROVE  c \in ToSet(s) /\ d \in ToSet(s) /\ c # d
  BY ListsDistinct DEF Before, ToSet

\* No unit that has yet to come is in the list of a slurmctld.
RunningKnown == \A u \in Units : ToSet(running[u]) \subseteq hostnames

AgreementInv == RunningListed /\ RunningKnown /\ FailoverAgreed

\* The file keeps the order of the controllers that stay.
LEMMA OrderPreserved ==
  ASSUME TypeOK, DropInv, [Next]_vars, NEW c \in planned', NEW d \in planned', Before(conf, c, d)
  PROVE  Before(conf', c, d)
<1>1. c \in ToSet(conf') /\ d \in ToSet(conf') /\ c # d
  BY OrderedAreListed, DropStep DEF TypeOK
<1>2. ~Before(conf', d, c)
  BY OrderStep
<1>3. conf' \in Lists
  BY TypesKept DEF TypeOK
<1> QED
  BY <1>1, <1>2, <1>3, SomeOrder

LEMMA AgreementStep ==
  ASSUME OrderlyLeadership, TypeOK, DropInv, AgreementInv, [Next]_vars
  PROVE  AgreementInv'
<1>0. /\ Effect /\ Movement /\ TypeOK' /\ hostnames \subseteq hostnames'
      /\ planned' \subseteq Units /\ hostnames \subseteq planned \cup gone
  BY NextEffect, NextMovement, TypesKept, HostnamesGrow DEF TypeOK
<1>1. ASSUME NEW u \in Units PROVE ToSet(running'[u]) \subseteq hostnames'
  <2>1. CASE running'[u] = conf'
    BY <1>0, <2>1 DEF TypeOK
  <2>2. CASE running'[u] = running[u]
    BY <1>0, <2>2 DEF AgreementInv, RunningKnown
  <2>3. CASE running'[u] = <<>>
    BY <2>3, EmptyList
  <2> QED
    BY <1>0, <2>1, <2>2, <2>3 DEF Effect, Loads, Stops
<1>2. ASSUME NEW u \in planned', NEW c \in planned', NEW d \in planned', Before(running'[u], c, d)
      PROVE  Before(conf', c, d)
  <2>1. CASE running'[u] = conf'
    BY <1>2, <2>1
  <2>2. CASE running'[u] = running[u]
    <3>1. u \in Units /\ running[u] \in Lists
      BY <1>0 DEF TypeOK
    <3>2. c \in hostnames /\ d \in hostnames
      BY <1>2, <2>2, <3>1, OrderedAreListed DEF AgreementInv, RunningKnown
    <3>3. u \in hostnames
      BY <1>2, <2>2, <3>1 DEF Before, AgreementInv, RunningListed
    <3>4. u \in planned /\ c \in planned /\ d \in planned
      BY <1>0, <3>2, <3>3 DEF Movement, jujuVars
    <3>5. Before(conf, c, d)
      BY <1>2, <2>2, <3>4 DEF AgreementInv, FailoverAgreed
    <3> QED
      BY <3>5, OrderPreserved
  <2>3. CASE running'[u] = <<>>
    BY <1>2, <2>3 DEF Before
  <2> QED
    BY <1>0, <2>1, <2>2, <2>3 DEF Effect, Loads, Stops
<1> QED
  BY OrderlyLeadership, <1>1, <1>2, RunningKept DEF AgreementInv, RunningKnown, FailoverAgreed

\* If leadership passes only from leaders that leave to settled units, two
\* controllers that run and stay have them all in the same failover order, though
\* one was restarted with a newer list than the other: services may crash, and
\* units leave before others have seen them join.
THEOREM FailoverIsAgreed ==
  ASSUME OrderlyLeadership
  PROVE  Spec => []FailoverAgreed
<1>1. Init => AgreementInv
  BY EmptyList DEF Init, AgreementInv, RunningListed, RunningKnown, FailoverAgreed, Before
<1>2. (TypeOK /\ DropInv) /\ AgreementInv /\ [Next]_vars => AgreementInv'
  BY OrderlyLeadership, AgreementStep
<1>3. Spec => [](TypeOK /\ DropInv)
  BY OrderlyLeadership, DropInvariant
<1>4. AgreementInv => FailoverAgreed
  BY DEF AgreementInv
<1> HIDE DEF AgreementInv
<1> QED
  BY <1>1, <1>2, <1>3, <1>4, PTL DEF Spec

----------------------------------------------------------------------------
(* The controllers keep the promise of FailoverContract.                   *)

LEMMA ContractTerms ==
  /\ Contract!vars = <<planned, gone, conf, running, Owed>>
  /\ \A s : Contract!ToSet(s) = ToSet(s)
  /\ \A s : Contract!Orders(s) = UNION {SetToSeqs(t) : t \in SUBSET s}
  /\ \A s, c, d : Contract!Before(s, c, d) <=> Before(s, c, d)
  /\ \A u : Contract!UpToDate(u) <=> running[u] \in {<<>>, conf}
<1>1. \A s : Contract!ToSet(s) = ToSet(s)
  BY DEF Contract!ToSet, ToSet
<1>2. \A s : Contract!SetToSeqs(s) = SetToSeqs(s)
  BY DEF Contract!SetToSeqs, SetToSeqs, Contract!Cardinality, Cardinality
<1>3. \A s : Contract!Orders(s) = UNION {SetToSeqs(t) : t \in SUBSET s}
  BY <1>2 DEF Contract!Orders
<1>4. \A s, c, d : Contract!Before(s, c, d) <=> Before(s, c, d)
  BY DEF Contract!Before, Before
<1> QED
  BY <1>1, <1>3, <1>4 DEF Contract!vars, Contract!UpToDate

\* A list is an order of any set that has its elements.
LEMMA ListIsOrder ==
  ASSUME NEW s \in Lists, NEW S, ToSet(s) \subseteq S
  PROVE  s \in Contract!Orders(S)
<1>1. PICK t \in SUBSET Units : s \in SetToSeqs(t)
  BY DEF Lists
<1>2. ToSet(s) = t
  BY <1>1, ListsFinite, ListFacts
<1> QED
  BY <1>1, <1>2, ContractTerms

\* u's service is restarted with a file that lists u.  If the file was there and
\* changes, u's service was running.
Restarted(u) ==
  /\ u \in planned
  /\ u \in ToSet(conf')
  /\ running' = [running EXCEPT ![u] = conf']
  /\ conf' = conf \/ conf = <<>> \/ running[u] # <<>>

\* The effect on file and services of a step in which no unit comes or goes.
OneRestart == UNCHANGED <<conf, running>> \/ \E u \in Units : Restarted(u)

PeersInv == TypeOK /\ DropInv /\ RunningListed /\ Started /\ RestartOutstanding

LEMMA RefreshOne ==
  ASSUME PeersInv, NEW u \in planned, u = leader \/ RefreshDue(u), conf # <<>>,
         NEW seen, NEW due, Refresh(u, seen, due),
         Peers(u, seen) \in SUBSET Units
  PROVE  OneRestart
<1>1. PICK hosts \in HostLists(Peers(u, seen)) : conf' = hosts /\ Reconfigured(u, hosts, due)
  BY DEF Refresh
<1>2. u \in ToSet(conf') /\ u \in Units
  BY <1>1, RefreshedList DEF Peers
<1>3. u = leader
  BY <1>2 DEF PeersInv, DropInv, RefreshesWithLeader
<1>4. running[u] # <<>> /\ cluster # NoName
  BY <1>2, <1>3 DEF PeersInv, Started
<1>5. Restarted(u)
  BY <1>1, <1>2, <1>4 DEF Reconfigured, Restarted
<1> QED
  BY <1>2, <1>5 DEF OneRestart

LEMMA RelationChangedOne ==
  ASSUME PeersInv, NEW u \in planned, NEW seen, NEW due, OnRelationChanged(u, seen, due),
         Peers(u, seen) \in SUBSET Units
  PROVE  OneRestart
<1>1. CASE UNCHANGED slurmVars
  BY <1>1 DEF slurmVars, OneRestart
<1>2. CASE u = leader /\ conf # <<>> /\ Refresh(u, seen, due)
  BY <1>2, RefreshOne
<1>3. CASE u = leader /\ conf = <<>> /\ UNCHANGED <<conf, running>>
  BY <1>3 DEF OneRestart
<1> QED
  BY <1>1, <1>2, <1>3 DEF OnRelationChanged, OnPeersChanged

LEMMA NextOne ==
  ASSUME "crash" \notin Faults, PeersInv, [Next]_vars
  PROVE  \/ \E u \in Units : AddUnit(u) \/ RemoveUnit(u)
         \/ planned' = planned /\ gone' = gone /\ OneRestart
<1> USE DEF jujuVars, slurmVars
<1>0. /\ planned \subseteq Units /\ hostnames \subseteq Units
      /\ \A u \in Units : view[u] \subseteq hostnames
  BY DEF PeersInv, TypeOK
<1>p. \A u \in Units, seen \in SUBSET Units : Peers(u, seen) \in SUBSET Units
  BY DEF Peers
<1>1. ASSUME NEW u \in Units, QueuedHook(u) PROVE planned' = planned /\ gone' = gone
  BY <1>1 DEF QueuedHook, RelationCreated, LeaderElected, AppChanged, Start,
              RefreshDeferred, PeerJoined, PeerDeparted
<1>2. ASSUME NEW u \in Units, RelationCreated(u) PROVE OneRestart
  BY <1>2 DEF RelationCreated, OneRestart
<1>3. ASSUME NEW u \in Units, LeaderElected(u) PROVE OneRestart
  <2>1. CASE conf = <<>>
    BY <1>3, <2>1 DEF LeaderElected, OneRestart
  <2>2. CASE conf # <<>>
    <3>1. u = leader /\ u \in planned /\ Refresh(u, view[u], appDue)
      BY <1>3, <2>2 DEF LeaderElected, Ready
    <3> QED
      BY <1>0, <1>p, <2>2, <3>1, RefreshOne
  <2> QED
    BY <2>1, <2>2
<1>4. ASSUME NEW u \in Units, AppChanged(u) PROVE OneRestart
  <2>1. u \in planned /\ OnRelationChanged(u, view[u], appDue \ {u})
    BY <1>4 DEF AppChanged
  <2> QED
    BY <1>0, <1>p, <2>1, RelationChangedOne
<1>5. ASSUME NEW u \in Units, Start(u) PROVE OneRestart
  BY <1>5 DEF Start, Ready, OneRestart, Restarted
<1>6. ASSUME NEW u \in Units, NEW event \in {"elected", "peers"}, RefreshDeferred(u, event)
      PROVE OneRestart
  <2>1. u \in planned /\ RefreshDue(u) /\ conf # <<>> /\ Refresh(u, view[u], appDue)
    BY <1>6 DEF RefreshDeferred, Ready, RefreshDue
  <2> QED
    BY <1>0, <1>p, <2>1, RefreshOne
<1>7. ASSUME NEW u \in Units, NEW v \in Units, PeerJoined(u, v) PROVE OneRestart
  <2>1. u \in planned /\ OnRelationChanged(u, view'[u], appDue) /\ view'[u] \subseteq Units
    BY <1>0, <1>7 DEF PeerJoined, Ready, PeersInv, TypeOK
  <2> QED
    BY <1>p, <2>1, RelationChangedOne
<1>8. ASSUME NEW u \in Units, NEW v \in Units, PeerDeparted(u, v) PROVE OneRestart
  <2>1. u \in planned /\ view'[u] \subseteq Units
    BY <1>0, <1>8 DEF PeerDeparted, PeersInv, TypeOK
  <2>2. CASE UNCHANGED slurmVars
    BY <2>2 DEF OneRestart
  <2>3. CASE u = leader /\ OnPeersChanged(u, view'[u], appDue)
    <3>1. CASE conf = <<>>
      BY <2>3, <3>1 DEF OnPeersChanged, OneRestart
    <3>2. CASE conf # <<>>
      BY <1>p, <2>1, <2>3, <3>2, RefreshOne DEF OnPeersChanged
    <3> QED
      BY <3>1, <3>2
  <2> QED
    BY <1>8, <2>2, <2>3 DEF PeerDeparted
<1>9. ASSUME NEW u \in Units, LeaderChanges(u) \/ SackdConnected(u)
      PROVE  planned' = planned /\ gone' = gone /\ OneRestart
  BY <1>9 DEF LeaderChanges, SackdConnected, OneRestart
<1>10. ASSUME NEW u \in Units, ConfigChanged(u)
       PROVE  planned' = planned /\ gone' = gone /\ OneRestart
  <2>1. u \in planned /\ conf' = conf /\ Reconfigured(u, conf, appDue) /\ UNCHANGED jujuVars
    BY <1>10 DEF ConfigChanged, Ready
  <2>2. running[u] # <<>> => u \in ToSet(conf)
    BY <2>1 DEF PeersInv, RunningListed
  <2> QED
    BY <2>1, <2>2 DEF Reconfigured, OneRestart, Restarted
<1>11. ASSUME NEW u \in Units, Crash(u) PROVE FALSE
  BY <1>11, "crash" \notin Faults DEF Crash
<1>12. CASE UNCHANGED vars
  BY <1>12 DEF vars, OneRestart
<1> QED
  BY <1>1, <1>2, <1>3, <1>4, <1>5, <1>6, <1>7, <1>8, <1>9, <1>10, <1>11, <1>12
  DEF Next, QueuedHook, Environment

\* Every step is one of the contract, or a stutter.
LEMMA ContractStep ==
  ASSUME OrderlyLeadership, "crash" \notin Faults, PeersInv, PeersInv', [Next]_vars
  PROVE  [Contract!Next]_(Contract!vars)
<1>0. /\ Owed \subseteq planned /\ Owed' \subseteq planned'
      /\ \A v \in planned' \ Owed' : running'[v] \in {<<>>, conf'}
      /\ planned \subseteq Units
  BY DEF PeersInv, RestartOutstanding, Owed, TypeOK
<1>1. ASSUME NEW u \in Units, AddUnit(u) PROVE Contract!Next
  <2>1. /\ u \notin planned \cup gone /\ planned' = planned \cup {u}
        /\ UNCHANGED <<gone, conf, running>>
    BY <1>1 DEF AddUnit, slurmVars
  <2>2. Owed \subseteq Owed'
    BY <1>1 DEF AddUnit, bagVars, Owed, RestartComing
  <2>3. Contract!Join(u)
    BY <1>0, <2>1, <2>2 DEF Contract!Join
  <2> QED
    BY <2>3 DEF Contract!Next
<1>2. ASSUME NEW u \in Units, RemoveUnit(u) PROVE Contract!Next
  <2>1. /\ u \in planned /\ planned' = planned \ {u} /\ gone' = gone \cup {u}
        /\ running' = [running EXCEPT ![u] = <<>>] /\ conf' = conf
    BY <1>2 DEF RemoveUnit
  <2>2. Owed' = Owed \ {u}
    BY <1>2 DEF RemoveUnit, bagVars, Owed, RestartComing
  <2>3. Contract!Leave(u)
    BY <2>1, <2>2 DEF Contract!Leave
  <2> QED
    BY <2>3 DEF Contract!Next
<1>3. ASSUME planned' = planned, gone' = gone, UNCHANGED <<conf, running>> PROVE Contract!Next
  <2>1. Contract!Owe
    BY <1>0, <1>3, ContractTerms DEF Contract!Owe
  <2> QED
    BY <2>1 DEF Contract!Next
<1>4. ASSUME planned' = planned, gone' = gone, NEW u \in Units, Restarted(u)
      PROVE  Contract!Next
  <2>1. conf' \in Contract!Orders(planned \cup gone)
    <3>1. conf' \in Lists /\ ToSet(conf') \subseteq planned \cup gone
      BY <1>4 DEF PeersInv, TypeOK
    <3> QED
      BY <3>1, ListIsOrder
  <2>2. \A v \in planned \ Owed' : Contract!UpToDate(v)'
    BY <1>0, <1>4 DEF Contract!UpToDate
  <2>3. CASE conf' = conf \/ conf = <<>>
    <3>1. Contract!Restart(u)
      BY <1>0, <1>4, <2>1, <2>2, <2>3, ContractTerms DEF Contract!Restart, Restarted
    <3> QED
      BY <3>1 DEF Contract!Next
  <2>4. CASE running[u] # <<>>
    <3>1. \A c \in ToSet(conf) \cap planned : c \in ToSet(conf')
      BY <1>4, DropStep DEF PeersInv
    <3>2. \A c, d \in planned : Before(conf, c, d) => Before(conf', c, d)
      BY <1>4, OrderPreserved DEF PeersInv
    <3>3. Contract!Change(u)
      BY <1>0, <1>4, <2>1, <2>2, <2>4, <3>1, <3>2, ContractTerms DEF Contract!Change, Restarted
    <3> QED
      BY <3>3 DEF Contract!Next
  <2> QED
    BY <1>4, <2>3, <2>4 DEF Restarted
<1> QED
  BY <1>1, <1>2, <1>3, <1>4, NextOne DEF OneRestart

\* While leadership passes only from leaders that leave to settled units and no
\* service fails, the controllers keep the promise of FailoverContract, for any
\* number of units that come and go, also before they have seen each other.
THEOREM ContractIsKept ==
  ASSUME OrderlyLeadership, "crash" \notin Faults
  PROVE  Spec => KeepsContract
<1>1. Init => PeersInv
  BY InitTypes, InitDrop DEF Init, PeersInv, RunningListed, Started, RestartOutstanding
<1>2. PeersInv /\ [Next]_vars => PeersInv'
  BY OrderlyLeadership, "crash" \notin Faults, TypesKept, DropKept, RunningKept, StartedKept,
     RestartStep DEF PeersInv
<1>3. Init => Contract!Init
  BY <1>1 DEF Init, Contract!Init, Owed, PeersInv, TypeOK
<1>4. PeersInv /\ PeersInv' /\ [Next]_vars => [Contract!Next]_(Contract!vars)
  BY OrderlyLeadership, "crash" \notin Faults, ContractStep
<1> QED
  BY <1>1, <1>2, <1>3, <1>4, PTL DEF Spec, KeepsContract, Contract!Spec

----------------------------------------------------------------------------
(* The contract is enough.                                                 *)

\* Besides what it is to imply: the list in force and those in use name only units
\* that are or were members, and only such units run.
ContractFacts ==
  /\ planned \subseteq Units /\ Owed \subseteq planned
  /\ DOMAIN running = Units
  /\ ToSet(conf) \subseteq planned \cup gone
  /\ \A u \in Units : ToSet(running[u]) \subseteq planned \cup gone
  /\ \A u \in Units : running[u] # <<>> => u \in planned \cup gone
  /\ \A u \in planned \ Owed : running[u] \in {<<>>, conf}
  /\ \A u, c, d \in planned : Before(running[u], c, d) => Before(conf, c, d)

LEMMA ContractFactsKept ==
  ASSUME ContractFacts, [Contract!Next]_(Contract!vars)
  PROVE  ContractFacts'
<1>1. \A s, c, d : Before(s, c, d) => c \in ToSet(s) /\ d \in ToSet(s) /\ s # <<>>
  BY DEF Before, ToSet
<1>2. ToSet(<<>>) = {}
  BY EmptyList
<1>3. ASSUME NEW u \in Units, Contract!Join(u) PROVE ContractFacts'
  <2>1. /\ u \notin planned \cup gone /\ planned' = planned \cup {u}
        /\ UNCHANGED <<gone, conf, running>>
        /\ Owed \subseteq Owed' /\ Owed' \subseteq planned'
    BY <1>3 DEF Contract!Join
  <2>2. \A w \in planned' \ Owed' : running'[w] \in {<<>>, conf'}
    BY <2>1 DEF ContractFacts
  <2>3. ASSUME NEW w \in planned', NEW c \in planned', NEW d \in planned',
               Before(running'[w], c, d)
        PROVE  Before(conf', c, d)
    BY <1>1, <2>1, <2>3 DEF ContractFacts
  <2> QED
    BY <2>1, <2>2, <2>3 DEF ContractFacts
<1>4. ASSUME NEW u \in Units, Contract!Leave(u) PROVE ContractFacts'
  <2>1. /\ u \in planned /\ planned' = planned \ {u} /\ gone' = gone \cup {u}
        /\ running' = [running EXCEPT ![u] = <<>>] /\ conf' = conf
        /\ Owed' = Owed \ {u}
    BY <1>4 DEF Contract!Leave
  <2>2. \A w \in Units : running'[w] = IF w = u THEN <<>> ELSE running[w]
    BY <2>1 DEF ContractFacts
  <2> QED
    BY <1>2, <2>1, <2>2 DEF ContractFacts
<1>5. CASE Contract!Owe
  <2>1. /\ UNCHANGED <<planned, gone, conf, running>>
        /\ Owed' \subseteq planned
        /\ \A v \in Owed \ Owed' : running[v] \in {<<>>, conf}
    BY <1>5, ContractTerms DEF Contract!Owe
  <2> QED
    BY <2>1 DEF ContractFacts
<1>6. ASSUME NEW u \in Units, Contract!Restart(u) \/ Contract!Change(u) PROVE ContractFacts'
  <2>1. /\ u \in planned /\ UNCHANGED <<planned, gone>>
        /\ running' = [running EXCEPT ![u] = conf']
        /\ Owed' \subseteq planned
    BY <1>6 DEF Contract!Restart, Contract!Change
  <2>2. \A w \in Units : running'[w] = IF w = u THEN conf' ELSE running[w]
    BY <2>1 DEF ContractFacts
  <2>3. ToSet(conf') \subseteq planned \cup gone
    <3>1. conf' = conf \/ conf' \in Contract!Orders(planned \cup gone)
      BY <1>6 DEF Contract!Restart, Contract!Change
    <3>2. ASSUME NEW t \in SUBSET (planned \cup gone), conf' \in SetToSeqs(t)
          PROVE  ToSet(conf') \subseteq planned \cup gone
      BY <3>2 DEF SetToSeqs, ToSet
    <3> QED
      BY <3>1, <3>2, ContractTerms DEF ContractFacts
  <2>4. \A v \in planned \ Owed' : running'[v] \in {<<>>, conf'}
    <3>1. CASE Contract!Restart(u)
      <4>1. /\ conf' = conf \/ conf = <<>>
            /\ \A v \in Owed \ Owed' : running'[v] \in {<<>>, conf'}
        BY <3>1 DEF Contract!Restart, Contract!UpToDate
      <4> QED
        BY <2>1, <2>2, <4>1 DEF ContractFacts
    <3>2. CASE Contract!Change(u)
      BY <3>2 DEF Contract!Change, Contract!UpToDate
    <3> QED
      BY <1>6, <3>1, <3>2
  <2>5. \A c, d \in planned : Before(conf, c, d) => Before(conf', c, d)
    <3>1. CASE Contract!Restart(u)
      BY <1>1, <3>1 DEF Contract!Restart
    <3>2. CASE Contract!Change(u)
      BY <3>2, ContractTerms DEF Contract!Change
    <3> QED
      BY <1>6, <3>1, <3>2
  <2>6. ASSUME NEW w \in planned, NEW c \in planned, NEW d \in planned,
               Before(running'[w], c, d)
        PROVE  Before(conf', c, d)
    BY <2>2, <2>5, <2>6 DEF ContractFacts
  <2> QED
    BY <2>1, <2>2, <2>3, <2>4, <2>6 DEF ContractFacts
<1>7. CASE UNCHANGED Contract!vars
  BY <1>7 DEF ContractFacts, Contract!vars
<1> QED
  BY <1>3, <1>4, <1>5, <1>6, <1>7 DEF Contract!Next

\* The contract alone, whoever keeps it, implies that no member that runs with an
\* older list is forgotten and that members agree on who takes over from whom.
THEOREM ContractSuffices ==
  Contract!Spec => [](Contract!NoneForgotten /\ Contract!InOrder)
<1>1. Contract!Init => ContractFacts
  BY EmptyList DEF Contract!Init, ContractFacts, Before
<1>2. ContractFacts /\ [Contract!Next]_(Contract!vars) => ContractFacts'
  BY ContractFactsKept
<1>3. ContractFacts => Contract!NoneForgotten /\ Contract!InOrder
  BY ContractTerms DEF ContractFacts, Contract!NoneForgotten, Contract!InOrder
<1> QED
  BY <1>1, <1>2, <1>3, PTL DEF Contract!Spec
=============================================================================
