---------------------------- MODULE HAMigration ----------------------------
(***************************************************************************)
(* Migration of the controllers to shared storage.  When the shared file   *)
(* system is mounted on a slurmctld unit, the unit replaces /etc/slurm by  *)
(* a link into it.  The leader copies its own /etc/slurm there first, then *)
(* moves StateSaveLocation, where slurmctld keeps the jobs: one rsync      *)
(* while the service runs, one after it has been stopped, a new            *)
(* StateSaveLocation in slurm.conf, and a start.                           *)
(*                                                                         *)
(* The leader's hook is split where its own slurmctld, which accepts jobs  *)
(* meanwhile, or another unit can see the difference.  Every unit is       *)
(* listed in slurm.conf, the list is the subject of ControllerPeers;       *)
(* leadership does not move and the shared file system is empty at first.  *)
(***************************************************************************)
EXTENDS Naturals, FiniteSets

CONSTANTS
  Leader,    \* the leader of slurmctld, the first of slurm.conf
  Peers,     \* the other units
  Shared,    \* the shared file system, as a place
  MaxJobs,   \* bound on the jobs submitted
  Faults     \* what may go wrong, a subset of FaultKinds

FaultKinds ==
  { "copy",      \* copying /etc/slurm fails for some files
    "rsync",     \* rsync ends with an error, files may be missing
    "agent",     \* the leader's agent dies inside the migration
    "reboot",    \* a machine reboots between two hooks
    "failover" } \* a backup takes over while the leader's slurmctld is down

ASSUME LeaderIsNoPeer == Leader \notin Peers
ASSUME SharedIsNoUnit == Shared \notin {Leader} \cup Peers
ASSUME MaxJobsNat     == MaxJobs \in Nat
ASSUME FaultsKnown    == Faults \subseteq FaultKinds

Units == {Leader} \cup Peers

\* Where files are: the disk of a unit, or the shared file system.
Places == Units \cup {Shared}

VARIABLES
  mounted,    \* units on which the file system is mounted
  mountDue,   \* units whose mounted-filesystem event is yet to be completed
  startDue,   \* units with a start event to run, first, emitted or deferred
  step,       \* progress of the leader's migration hook
  etc,        \* etc[u]: /etc/slurm of u is its "own" directory, "none" or a "link"
  targetMade, \* the target of the links exists
  conf,       \* conf[p]: slurm.conf of p, its StateSaveLocation or "absent"
  whole,      \* whole[p]: the other files of p's configuration are complete
  saveMade,   \* the shared StateSaveLocation exists
  saved,      \* saved[p]: jobs in p's StateSaveLocation
  running,    \* running[u]: StateSaveLocation u's slurmctld uses, or "down"
  jobs,       \* number of jobs submitted so far
  failures    \* what has gone wrong so far

hookVars == <<mounted, mountDue, startDue, step>>
fileVars == <<etc, targetMade, conf, whole>>
saveVars == <<saveMade, saved, jobs>>
vars == <<hookVars, fileVars, saveVars, running, failures>>

Submitted == 1..jobs

\* The cluster is deployed with the file system, or has been running without.
Init ==
  /\ mounted = {} /\ mountDue = {}
  /\ step = "idle"
  /\ etc = [u \in Units |-> "own"]
  /\ targetMade = FALSE
  /\ saveMade = FALSE
  /\ saved = [p \in Places |-> {}]
  /\ jobs = 0
  /\ failures = {}
  /\ whole = [p \in Places |-> p = Leader]
  /\ \/ /\ conf = [p \in Places |-> IF p = Leader THEN "local" ELSE "absent"]
        /\ running = [u \in Units |-> IF u = Leader THEN "local" ELSE "down"]
        /\ startDue = Peers
     \/ /\ conf = [p \in Places |-> "absent"]
        /\ running = [u \in Units |-> "down"]
        /\ startDue = Units

(***************************************************************************)
(* Helpers.  A definition named ...Bug is a faulty variant of the one that *)
(* follows it, kept to show which property notices the fault.              *)
(***************************************************************************)
Dir(u) == IF etc[u] = "link" THEN Shared ELSE u
Visible(u) == IF etc[u] = "none" THEN "absent" ELSE conf[Dir(u)]

\* What a (re)started slurmctld of u uses: it does not start without its files.
Started(u) == IF whole[Dir(u)] THEN Visible(u) ELSE "absent"
Restarted(u) ==
  [running EXCEPT ![u] = IF Started(u) = "absent" THEN "down" ELSE Started(u)]

\* Where the running slurmctld of u keeps the jobs.
SaveOf(u) == IF running[u] = "local" THEN u ELSE Shared

Fails(kind) == kind \in Faults /\ failures' = failures \cup {kind}

(***************************************************************************)
(* Juju, Slurm and its users                                               *)
(***************************************************************************)
Mount(u) ==
  /\ u \in Units \ mounted
  /\ mounted' = mounted \cup {u}
  /\ mountDue' = mountDue \cup {u}
  /\ UNCHANGED <<startDue, step, fileVars, saveVars, running, failures>>

\* The first controller accepts jobs; a backup does while the first is down.
SubmitJob(u) ==
  /\ jobs < MaxJobs
  /\ running[u] # "down"
  /\ IF u = Leader
       THEN UNCHANGED failures
       ELSE running[Leader] = "down" /\ Fails("failover")
  /\ jobs' = jobs + 1
  /\ saved' = [saved EXCEPT ![SaveOf(u)] = @ \cup {jobs + 1}]
  /\ UNCHANGED <<hookVars, fileVars, saveMade, running>>

Reboot(u) ==
  /\ u = Leader => step = "idle"
  /\ running[u] # "down"
  /\ Fails("reboot")
  /\ running' = [running EXCEPT ![u] = "down"]
  /\ startDue' = startDue \cup {u}
  /\ UNCHANGED <<mounted, mountDue, step, fileVars, saveVars>>

(***************************************************************************)
(* The start event.  The leader writes a slurm.conf if there is none.      *)
(***************************************************************************)
StartLeader ==
  /\ step = "idle"
  /\ Leader \in startDue \cap mounted
  /\ etc[Leader] # "none"
  /\ conf' = IF Visible(Leader) = "absent" THEN [conf EXCEPT ![Dir(Leader)] = "local"] ELSE conf
  /\ whole[Dir(Leader)]
  /\ running' = [running EXCEPT ![Leader] = conf'[Dir(Leader)]]
  /\ startDue' = startDue \ {Leader}
  /\ UNCHANGED <<mounted, mountDue, step, etc, targetMade, whole, saveVars, failures>>

\* A peer waits for the file system, slurm.conf and the keys.
StartPeer(u) ==
  /\ u \in startDue \cap mounted
  /\ Started(u) # "absent"
  /\ running' = Restarted(u)
  /\ startDue' = startDue \ {u}
  /\ UNCHANGED <<mounted, mountDue, step, fileVars, saveVars, failures>>

\* Any later hook that ends in _reconfigure: the leader's service is restarted
\* and the peers are signalled.
Reconfigure ==
  /\ step = "idle"
  /\ running[Leader] # "down"
  /\ running' = Restarted(Leader)
  /\ startDue' = IF running'[Leader] = "down" THEN startDue ELSE startDue \cup Peers
  /\ UNCHANGED <<mounted, mountDue, step, fileVars, saveVars, failures>>

(***************************************************************************)
(* mounted-filesystem on a peer: its directory is backed up and replaced   *)
(* by the link, whether or not the target exists yet.                      *)
(***************************************************************************)
MigratePeer(u) ==
  /\ u \in mountDue
  /\ etc' = [etc EXCEPT ![u] = "link"]
  /\ mountDue' = mountDue \ {u}
  /\ startDue' = startDue \cup {u}
  /\ UNCHANGED <<mounted, step, targetMade, conf, whole, saveVars, running, failures>>

(***************************************************************************)
(* mounted-filesystem on the leader, deferred until slurm.conf exists      *)
(***************************************************************************)
GoTo(next) == step' = next /\ UNCHANGED <<mounted, mountDue, startDue>>

MayMigrate == step = "idle" /\ Leader \in mountDue /\ Visible(Leader) # "absent"

\* A target that exists is taken for a copy.
CopyEtc ==
  /\ MayMigrate
  /\ etc[Leader] = "own"
  /\ targetMade' = TRUE
  /\ conf' = IF targetMade THEN conf ELSE [conf EXCEPT ![Shared] = conf[Leader]]
  /\ whole' = IF targetMade THEN whole ELSE [whole EXCEPT ![Shared] = whole[Leader]]
  /\ GoTo("copied")
  /\ UNCHANGED <<etc, saveVars, running, failures>>

\* Some files are not copied: shutil.Error, or the agent is gone.
CopyEtcFails ==
  /\ MayMigrate
  /\ etc[Leader] = "own"
  /\ ~targetMade
  /\ Fails("copy")
  /\ targetMade' = TRUE
  /\ conf' \in {conf, [conf EXCEPT ![Shared] = conf[Leader]]}
  /\ whole' \in {whole, [whole EXCEPT ![Shared] = whole[Leader]]}
  /\ ~(conf'[Shared] # "absent" /\ whole'[Shared])
  /\ UNCHANGED <<hookVars, etc, saveVars, running>>

MoveEtc ==
  /\ step = "copied"
  /\ etc' = [etc EXCEPT ![Leader] = "none"]
  /\ GoTo("moved")
  /\ UNCHANGED <<targetMade, conf, whole, saveVars, running, failures>>

LinkEtc ==
  /\ step = "moved"
  /\ etc' = [etc EXCEPT ![Leader] = "link"]
  /\ GoTo("linked")
  /\ UNCHANGED <<targetMade, conf, whole, saveVars, running, failures>>

\* The event is handled again when /etc/slurm is the link already.
AlreadyLinked ==
  /\ MayMigrate
  /\ etc[Leader] = "link"
  /\ GoTo("linked")
  /\ UNCHANGED <<fileVars, saveVars, running, failures>>

\* The linked directory has no slurm.conf to load: the hook fails.
NothingToLoad ==
  /\ step = "linked"
  /\ conf[Shared] = "absent"
  /\ GoTo("idle")
  /\ UNCHANGED <<fileVars, saveVars, running, failures>>

\* Variant: neither the location in use nor the target is looked at.
MustSyncBug == step = "linked" /\ conf[Shared] # "absent"

MustSync == step = "linked" /\ conf[Shared] = "local" /\ ~saveMade

\* A shared StateSaveLocation that exists is taken for a complete one.
SkipSync ==
  /\ step = "linked"
  /\ conf[Shared] # "absent"
  /\ conf[Shared] = "shared" \/ saveMade
  /\ GoTo("synced")
  /\ UNCHANGED <<fileVars, saveVars, running, failures>>

\* The first rsync, while slurmctld runs.
FirstSync ==
  /\ MustSync
  /\ saveMade' = TRUE
  /\ saved' = [saved EXCEPT ![Shared] = saved[Leader]]
  /\ GoTo("rsynced")
  /\ UNCHANGED <<fileVars, jobs, running, failures>>

FirstSyncFails ==
  /\ MustSync
  /\ Fails("rsync")
  /\ saveMade' \in BOOLEAN
  /\ \E some \in SUBSET saved[Leader] :
       saved' = [saved EXCEPT ![Shared] = IF saveMade' THEN some ELSE {}]
  /\ GoTo("idle")
  /\ UNCHANGED <<fileVars, jobs, running>>

StopService ==
  /\ step = "rsynced"
  /\ running' = [running EXCEPT ![Leader] = "down"]
  /\ GoTo("stopped")
  /\ UNCHANGED <<fileVars, saveVars, failures>>

\* Variant: the jobs accepted since the first rsync are not copied.
DeltaSyncBug ==
  /\ step = "stopped"
  /\ GoTo("synced")
  /\ UNCHANGED <<fileVars, saveVars, running, failures>>

\* The second rsync.
DeltaSync ==
  /\ step = "stopped"
  /\ saved' = [saved EXCEPT ![Shared] = saved[Leader]]
  /\ GoTo("synced")
  /\ UNCHANGED <<fileVars, saveMade, jobs, running, failures>>

\* slurmctld is started again where it was.
DeltaSyncFails ==
  /\ step = "stopped"
  /\ Fails("rsync")
  /\ \E more \in SUBSET saved[Leader] :
       saved' = [saved EXCEPT ![Shared] = @ \cup more]
  /\ running' = Restarted(Leader)
  /\ GoTo("idle")
  /\ UNCHANGED <<fileVars, saveMade, jobs>>

SetLocation ==
  /\ step = "synced"
  /\ conf' = [conf EXCEPT ![Shared] = "shared"]
  /\ GoTo("located")
  /\ UNCHANGED <<etc, targetMade, whole, saveVars, running, failures>>

\* Variant: the stopped service is not brought up.
EmitStartBug ==
  /\ step = "located"
  /\ step' = "idle"
  /\ mountDue' = mountDue \ {Leader}
  /\ UNCHANGED <<mounted, startDue, fileVars, saveVars, running, failures>>

\* The start event is handled at once, and deferred if the service fails.
EmitStart ==
  /\ step = "located"
  /\ step' = "idle"
  /\ mountDue' = mountDue \ {Leader}
  /\ running' = Restarted(Leader)
  /\ startDue' = IF running'[Leader] = "down" THEN startDue \cup {Leader} ELSE startDue
  /\ UNCHANGED <<mounted, fileVars, saveVars, failures>>

\* Juju runs the hook again; slurmctld stays as it is.
AgentDies ==
  /\ step # "idle"
  /\ Fails("agent")
  /\ GoTo("idle")
  /\ UNCHANGED <<fileVars, saveVars, running>>

----------------------------------------------------------------------------
Migration ==
  \/ CopyEtc \/ MoveEtc \/ LinkEtc \/ AlreadyLinked \/ NothingToLoad \/ SkipSync
  \/ FirstSync \/ StopService \/ DeltaSync \/ SetLocation \/ EmitStart

Failure == CopyEtcFails \/ FirstSyncFails \/ DeltaSyncFails \/ AgentDies

Next ==
  \/ Migration \/ Failure \/ StartLeader \/ Reconfigure
  \/ \E u \in Units : Mount(u) \/ SubmitJob(u) \/ Reboot(u)
  \/ \E u \in Peers : StartPeer(u) \/ MigratePeer(u)

Spec == Init /\ [][Next]_vars

\* Queued and deferred hooks run and a hook that began goes on; the file system
\* is mounted on every unit.  Start competes with Reconfigure for the peers.
Fairness ==
  /\ WF_vars(Migration) /\ WF_vars(StartLeader)
  /\ \A u \in Units : WF_vars(Mount(u))
  /\ \A u \in Peers : WF_vars(StartPeer(u)) /\ WF_vars(MigratePeer(u))

FairSpec == Spec /\ Fairness

----------------------------------------------------------------------------
(***************************************************************************)
(* Properties                                                              *)
(***************************************************************************)

Steps == {"idle", "copied", "moved", "linked", "rsynced", "stopped", "synced", "located"}

\* Every variable has the shape its declaration promises; a place only holds
\* submitted jobs, and no job is in a shared location that does not exist.
TypeOK ==
  /\ mounted \subseteq Units
  /\ mountDue \subseteq mounted
  /\ startDue \subseteq Units
  /\ step \in Steps
  /\ etc \in [Units -> {"own", "none", "link"}]
  /\ targetMade \in BOOLEAN /\ saveMade \in BOOLEAN
  /\ conf \in [Places -> {"absent", "local", "shared"}]
  /\ whole \in [Places -> BOOLEAN]
  /\ jobs \in Nat
  /\ saved \in [Places -> SUBSET Submitted]
  /\ ~saveMade => saved[Shared] = {}
  /\ running \in [Units -> {"down", "local", "shared"}]
  /\ failures \subseteq Faults

\* The leader's slurmctld has every job that was ever submitted in the location
\* it uses, before, during and after the migration, unless an rsync or the agent
\* failed or a backup took over: the jobs accepted during the copy are not lost.
StateKept ==
  running[Leader] # "down" /\ failures \cap {"rsync", "agent", "failover"} = {} =>
    saved[SaveOf(Leader)] = Submitted

\* Whatever fails, no submitted job is erased from every place that had it.
NothingErased == Submitted \subseteq UNION {saved[p] : p \in Places}

\* If nothing fails, or only reboots happen, every unit is linked in the end,
\* slurm.conf names the shared location and the leader and the peers run.
MigrationCompletes ==
  <>[](failures \subseteq {"reboot"} =>
         /\ \A u \in Units : etc[u] = "link"
         /\ conf[Shared] = "shared"
         /\ startDue = {} => running[Leader] = "shared" /\ \A u \in Units : running[u] # "down")

\* high_availability.py:96 "Migration has been successful, update configs to the
\* new path": the location is only switched to a complete copy.
SwitchedWhenComplete ==
  [][conf[Shared] # "shared" /\ conf'[Shared] = "shared" => saved[Shared] = Submitted]_vars
=============================================================================
