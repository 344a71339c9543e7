-------------------------- MODULE PartitionConfig --------------------------
(***************************************************************************)
(* The partitions of slurm.conf.  Each slurmd application is one partition *)
(* with an include file slurm.conf.<partition>; the charm option           *)
(* default-partition says which one carries Default=YES.  The slurmctld    *)
(* leader writes the files in the hooks of the slurmd integrations and in  *)
(* config-changed.                                                         *)
(*                                                                         *)
(* ops re-emits the deferred events before the event of each dispatch, and *)
(* a hook always reads the newest charm configuration, whether or not      *)
(* config-changed has run for it.  When the agent dies in a hook the file  *)
(* edits made so far stay and the hook, or the deferred event, runs again. *)
(***************************************************************************)
EXTENDS FiniteSets

CONSTANTS
  Partitions,   \* slurmd applications, each with the partition of its name
  NoPartition   \* the empty default-partition option

ASSUME PartitionsFinite == IsFiniteSet(Partitions)
ASSUME NoPartitionIsNone == NoPartition \notin Partitions

VARIABLES
  relation,   \* relation[p]: "none", "open" or "broken" (relation-broken due)
  described,  \* partitions whose slurmd leader has published their configuration
  readyDue,   \* partitions whose relation-changed the leader has yet to run
  deferred,   \* partitions whose slurmd-ready event is deferred
  wanted,     \* the default-partition option
  valid,      \* the charm configuration as a whole can be parsed
  configDue,  \* config-changed has yet to run
  active,     \* slurmctld.service is active
  file,       \* file[p]: "absent", "plain" or "default" (Default=YES)
  included,   \* partitions whose include file slurm.conf names
  informed    \* partitions whose slurmd has been given the controllers

filesVars == <<file, included, informed>>
vars == <<relation, described, readyDue, deferred, wanted, valid, configDue, active, filesVars>>

Options == Partitions \cup {NoPartition}

Init ==
  /\ relation = [p \in Partitions |-> "none"]
  /\ described = {}
  /\ readyDue = {}
  /\ deferred = {}
  /\ wanted \in Options
  /\ valid = TRUE
  /\ configDue = FALSE
  /\ active \in BOOLEAN
  /\ file = [p \in Partitions |-> "absent"]
  /\ included = {}
  /\ informed = {}

(***************************************************************************)
(* Helpers.  A definition named ...Bug is a faulty variant of the one that *)
(* follows it, kept to show which property notices the fault.              *)
(***************************************************************************)
Defaults == {p \in Partitions : file[p] = "default"}

\* get_default_partition: the first default partition among the include files,
\* in whatever order the directory lists them.
CurrentDefaults == IF Defaults = {} THEN {NoPartition} ELSE Defaults

\* slurmd-ready is handled when slurmctld is active, the configuration valid, and
\* every slurmd application, not only the event's, has published (partition_ready).
MayHandle ==
  active /\ valid /\ \A p \in Partitions : relation[p] = "open" => p \in described

\* The deferred events that could be handled have been: a new hook may run.
Dispatchable == deferred = {} \/ ~MayHandle

\* The include file of p written from the data of its slurmd application.
PartitionFile(p) == [file EXCEPT ![p] = IF p = wanted THEN "default" ELSE "plain"]

\* Variant: only the previous default is edited.
DefaultMovedBug(new, previous) ==
  [p \in Partitions |->
     IF file[p] = "absent" THEN "absent"
     ELSE IF p = previous THEN "plain"
     ELSE file[p]]

\* set_default_partition: only files that exist are edited.
DefaultMoved(new, previous) ==
  [p \in Partitions |->
     IF file[p] = "absent" THEN "absent"
     ELSE IF p = previous THEN "plain"
     ELSE IF p = new THEN "default"
     ELSE file[p]]

(***************************************************************************)
(* The operator, Juju and Slurm                                            *)
(***************************************************************************)
Integrate(p) ==
  /\ relation[p] = "none"
  /\ relation' = [relation EXCEPT ![p] = "open"]
  /\ UNCHANGED <<described, readyDue, deferred, wanted, valid, configDue, active, filesVars>>

\* The slurmd leader publishes its partition's configuration, or changes it.
PartitionDataChanges(p) ==
  /\ relation[p] = "open"
  /\ described' = described \cup {p}
  /\ readyDue' = readyDue \cup {p}
  /\ UNCHANGED <<relation, deferred, wanted, valid, configDue, active, filesVars>>

RemoveIntegration(p) ==
  /\ relation[p] = "open" /\ p \in described
  /\ relation' = [relation EXCEPT ![p] = "broken"]
  /\ readyDue' = readyDue \ {p}
  /\ UNCHANGED <<described, deferred, wanted, valid, configDue, active, filesVars>>

SetConfig(p, ok) ==
  /\ <<p, ok>> # <<wanted, valid>>
  /\ wanted' = p
  /\ valid' = ok
  /\ configDue' = TRUE
  /\ UNCHANGED <<relation, described, readyDue, deferred, active, filesVars>>

SlurmctldStops ==
  /\ active
  /\ active' = FALSE
  /\ UNCHANGED <<relation, described, readyDue, deferred, wanted, valid, configDue, filesVars>>

SlurmctldStarts ==
  /\ ~active
  /\ active' = TRUE
  /\ UNCHANGED <<relation, described, readyDue, deferred, wanted, valid, configDue, filesVars>>

(***************************************************************************)
(* Hooks of the slurmctld leader                                           *)
(***************************************************************************)

\* slurmd-ready of p, from its hook or deferred: the include file, the include
\* line, the controllers for slurmd.
WritePartition(p) ==
  /\ file' = PartitionFile(p)
  /\ included' = included \cup {p}
  /\ informed' = informed \cup {p}

\* Variant: the event is given up.
SlurmdReadyBug(p) ==
  /\ p \in readyDue
  /\ Dispatchable
  /\ readyDue' = readyDue \ {p}
  /\ IF MayHandle THEN WritePartition(p) ELSE UNCHANGED filesVars
  /\ UNCHANGED <<relation, described, deferred, wanted, valid, configDue, active>>

SlurmdReady(p) ==
  /\ p \in readyDue
  /\ Dispatchable
  /\ readyDue' = readyDue \ {p}
  /\ IF MayHandle
       THEN WritePartition(p) /\ UNCHANGED deferred
       ELSE deferred' = deferred \cup {p} /\ UNCHANGED filesVars
  /\ UNCHANGED <<relation, described, wanted, valid, configDue, active>>

SlurmdReadyDeferred(p) ==
  /\ p \in deferred
  /\ relation[p] = "open"
  /\ MayHandle
  /\ deferred' = deferred \ {p}
  /\ WritePartition(p)
  /\ UNCHANGED <<relation, described, readyDue, wanted, valid, configDue, active>>

\* The agent dies between the include file and the include line.
SlurmdReadyDies(p) ==
  /\ p \in readyDue \cup deferred
  /\ relation[p] = "open"
  /\ MayHandle
  /\ file' = PartitionFile(p)
  /\ UNCHANGED <<relation, described, readyDue, deferred, wanted, valid, configDue,
                 active, included, informed>>

\* Variant: the file stays.
SlurmdDisconnectedBug(p) ==
  /\ relation[p] = "broken"
  /\ relation' = [relation EXCEPT ![p] = "none"]
  /\ deferred' = deferred \ {p} /\ described' = described \ {p}
  /\ included' = included \ {p}
  /\ informed' = informed \ {p}
  /\ UNCHANGED <<readyDue, wanted, valid, configDue, active, file>>

\* The include line goes, then the file.  A slurmd-ready event still deferred has
\* lost its relation; ops, which is outside this code, is taken to drop it.
SlurmdDisconnected(p) ==
  /\ relation[p] = "broken"
  /\ relation' = [relation EXCEPT ![p] = "none"]
  /\ deferred' = deferred \ {p} /\ described' = described \ {p}
  /\ included' = included \ {p}
  /\ file' = [file EXCEPT ![p] = "absent"]
  /\ informed' = informed \ {p}
  /\ UNCHANGED <<readyDue, wanted, valid, configDue, active>>

\* Variant: the file goes first.
SlurmdDisconnectedDiesBug(p) ==
  /\ relation[p] = "broken"
  /\ file' = [file EXCEPT ![p] = "absent"]
  /\ UNCHANGED <<relation, described, readyDue, deferred, wanted, valid, configDue,
                 active, included, informed>>

\* The agent dies between the two.
SlurmdDisconnectedDies(p) ==
  /\ relation[p] = "broken"
  /\ included' = included \ {p}
  /\ UNCHANGED <<relation, described, readyDue, deferred, wanted, valid, configDue,
                 active, file, informed>>

\* An invalid configuration ends the hook; otherwise the default moves unless
\* the file found first already has the wanted one.
ConfigChanged ==
  /\ configDue
  /\ Dispatchable
  /\ configDue' = FALSE
  /\ IF valid
       THEN \E current \in CurrentDefaults :
              file' = IF current = wanted THEN file ELSE DefaultMoved(wanted, current)
       ELSE file' = file
  /\ UNCHANGED <<relation, described, readyDue, deferred, wanted, valid, active, included, informed>>

\* The agent dies between the two edits of set_default_partition.
ConfigChangedDies ==
  /\ configDue
  /\ Dispatchable
  /\ valid
  /\ CurrentDefaults # {wanted}
  /\ wanted # NoPartition /\ file[wanted] # "absent"
  /\ file' = [file EXCEPT ![wanted] = "default"]
  /\ UNCHANGED <<relation, described, readyDue, deferred, wanted, valid, configDue,
                 active, included, informed>>

----------------------------------------------------------------------------
Environment ==
  \/ \E p \in Partitions : Integrate(p) \/ PartitionDataChanges(p) \/ RemoveIntegration(p)
  \/ \E p \in Options, ok \in BOOLEAN : SetConfig(p, ok)
  \/ SlurmctldStops \/ SlurmctldStarts

LeaderHook(p) ==
  \/ SlurmdReady(p) \/ SlurmdReadyDeferred(p) \/ SlurmdReadyDies(p)
  \/ SlurmdDisconnected(p) \/ SlurmdDisconnectedDies(p)

Next == Environment \/ ConfigChanged \/ ConfigChangedDies \/ \E p \in Partitions : LeaderHook(p)

Spec == Init /\ [][Next]_vars

\* Juju runs the hooks it has queued; the deferred events come back with every
\* dispatch.  What the operator and Slurm do is not fair.
Fairness ==
  /\ WF_vars(ConfigChanged)
  /\ \A p \in Partitions :
       SF_vars(SlurmdReady(p)) /\ SF_vars(SlurmdReadyDeferred(p)) /\ WF_vars(SlurmdDisconnected(p))

FairSpec == Spec /\ Fairness

----------------------------------------------------------------------------
(***************************************************************************)
(* Properties                                                              *)
(***************************************************************************)

\* Every variable has the shape its declaration promises; events and published
\* controllers belong to partitions that are or were integrated.
TypeOK ==
  /\ relation \in [Partitions -> {"none", "open", "broken"}]
  /\ described \subseteq {p \in Partitions : relation[p] # "none"}
  /\ readyDue \subseteq {p \in described : relation[p] = "open"}
  /\ deferred \subseteq {p \in Partitions : relation[p] # "none"}
  /\ wanted \in Options
  /\ valid \in BOOLEAN /\ configDue \in BOOLEAN /\ active \in BOOLEAN
  /\ file \in [Partitions -> {"absent", "plain", "default"}]
  /\ included \subseteq Partitions
  /\ informed \subseteq Partitions

\* Every partition's file that slurm.conf includes exists, at every moment of every
\* hook: a slurmctld restarted now, by whatever cause, finds them all.
IncludesExist == \A p \in included : file[p] # "absent"

\* A partition whose application is gone leaves nothing behind, even if the
\* agent died half-way through one of its hooks.
NothingLeftBehind ==
  \A p \in Partitions :
    relation[p] = "none" => file[p] = "absent" /\ p \notin included \cup informed

\* Once config-changed has run for a valid configuration, the partition the
\* operator asked for is a default partition, in whichever order it was
\* configured and connected.
WantedIsDefault ==
  valid /\ ~configDue /\ wanted # NoPartition /\ file[wanted] # "absent" =>
    file[wanted] = "default"

\* A partition that stays integrated ends up in slurm.conf with its slurmd
\* knowing the controllers, if slurmctld and the configuration stay well and no
\* slurmd application, its own or another, keeps its configuration back for ever.
PartitionsServed ==
  \A p \in Partitions :
    <>[](active /\ valid /\ relation[p] = "open") /\ []<>MayHandle =>
      <>[](p \in included /\ p \in informed)
=============================================================================
