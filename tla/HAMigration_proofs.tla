------------------------- MODULE HAMigration_proofs -------------------------
(***************************************************************************)
(* Proofs about HAMigration, for any number of peers and jobs: types, no   *)
(* job is lost from the location in use while nothing disturbs the copy,   *)
(* and no job is ever erased.                                              *)
(***************************************************************************)
EXTENDS HAMigration, TLAPS

USE LeaderIsNoPeer, SharedIsNoUnit DEF Units, Places

----------------------------------------------------------------------------
(* Types.                                                                  *)

\* Nothing uses the shared location before it is made, and only the slurm.conf of
\* the shared file system ever names it.
SyncFacts ==
  /\ step \in {"rsynced", "stopped", "synced", "located"} => saveMade
  /\ \A p \in Places : conf[p] = "shared" => p = Shared /\ saveMade
  /\ \A u \in Units : running[u] = "shared" => conf[Shared] = "shared"
  /\ step # "idle" \/ etc[Leader] # "own" \/ conf[Shared] # "absent" => targetMade

TypeInv == TypeOK /\ SyncFacts

\* A restart leaves the service down or with the location of a slurm.conf.
LEMMA RestartedType ==
  ASSUME TypeInv, NEW u \in Units
  PROVE  /\ Restarted(u) \in [Units -> {"down", "local", "shared"}]
         /\ \A v \in Units : Restarted(u)[v] = "shared" => conf[Shared] = "shared"
<1>1. Started(u) \in {"absent", "local", "shared"}
  BY DEF TypeInv, TypeOK, Started, Visible, Dir
<1>2. Started(u) = "shared" => conf[Shared] = "shared"
  BY DEF TypeInv, SyncFacts, Started, Visible, Dir
<1> QED
  BY <1>1, <1>2 DEF TypeInv, TypeOK, SyncFacts, Restarted

LEMMA InitTypes == Init => TypeInv
<1> SUFFICES ASSUME Init PROVE TypeInv
  OBVIOUS
<1>1. whole \in [Places -> BOOLEAN]
  BY Zenon DEF Init
<1>2. /\ conf \in [Places -> {"absent", "local", "shared"}]
      /\ running \in [Units -> {"down", "local", "shared"}]
      /\ startDue \subseteq Units
  BY DEF Init
<1>3. saved \in [Places -> SUBSET Submitted] /\ saved[Shared] = {}
  BY DEF Init
<1> QED
  BY <1>1, <1>2, <1>3 DEF Init, TypeInv, TypeOK, SyncFacts, Steps

\* A step of the environment or of a start.
LEMMA OtherTypes ==
  ASSUME TypeInv,
         \/ StartLeader \/ Reconfigure
         \/ \E u \in Units : Mount(u) \/ SubmitJob(u) \/ Reboot(u)
         \/ \E u \in Peers : StartPeer(u) \/ MigratePeer(u)
  PROVE  TypeInv'
<1> USE DEF TypeInv, TypeOK, SyncFacts, hookVars, fileVars, saveVars, Submitted, Fails
<1>1. CASE StartLeader
  <2>1. conf' \in [Places -> {"absent", "local", "shared"}] /\ conf'[Dir(Leader)] # "absent"
    BY <1>1 DEF StartLeader, Dir, Visible
  <2>2. /\ Dir(Leader) \in Places
        /\ \A p \in Places : conf'[p] = "shared" <=> conf[p] = "shared"
    BY <1>1 DEF StartLeader, Dir, Visible
  <2>3. running' = [running EXCEPT ![Leader] = conf'[Dir(Leader)]]
    BY <1>1 DEF StartLeader
  <2>4. \A u \in Units : running'[u] = "shared" => conf'[Shared] = "shared"
    BY <2>2, <2>3
  <2>5. running' \in [Units -> {"down", "local", "shared"}]
    BY <2>1, <2>2, <2>3
  <2>6. conf'[Shared] # "absent" => conf[Shared] # "absent" \/ etc[Leader] = "link"
    BY <1>1 DEF StartLeader, Dir
  <2>7. UNCHANGED <<mounted, mountDue, step, etc, targetMade, whole, saveMade, saved, jobs, failures>>
        /\ startDue' \subseteq Units
    BY <1>1 DEF StartLeader
  <2>8. conf' \in [Places -> {"absent", "local", "shared"}]
    BY <1>1 DEF StartLeader
  <2>9. TypeOK'
    BY <2>5, <2>7, <2>8 DEF Steps
  <2>10. SyncFacts'
    BY <2>2, <2>4, <2>6, <2>7
  <2> QED
    BY <2>9, <2>10
<1>2. CASE Reconfigure
  BY <1>2, RestartedType DEF Reconfigure
<1>3. ASSUME NEW u \in Units, Mount(u) PROVE TypeInv'
  BY <1>3 DEF Mount
<1>4. ASSUME NEW u \in Units, SubmitJob(u) PROVE TypeInv'
  <2>1. jobs' \in Nat /\ Submitted \subseteq Submitted' /\ jobs + 1 \in Submitted'
    BY <1>4 DEF SubmitJob
  <2>2. SaveOf(u) \in Places /\ (SaveOf(u) = Shared <=> running[u] # "local")
    BY <1>4 DEF SaveOf
  <2>3. saved' \in [Places -> SUBSET Submitted'] /\ (~saveMade' => saved'[Shared] = {})
    <3>1. saved' = [saved EXCEPT ![SaveOf(u)] = @ \cup {jobs + 1}] /\ saveMade' = saveMade
      BY <1>4 DEF SubmitJob
    <3>2. ~saveMade => SaveOf(u) # Shared
      BY <1>4, <2>2 DEF SubmitJob
    <3> QED
      BY <2>1, <2>2, <3>1, <3>2
  <2>4. failures' \subseteq Faults
    BY <1>4 DEF SubmitJob
  <2> QED
    BY <1>4, <2>1, <2>3, <2>4 DEF SubmitJob
<1>5. ASSUME NEW u \in Units, Reboot(u) PROVE TypeInv'
  BY <1>5 DEF Reboot
<1>6. ASSUME NEW u \in Peers, StartPeer(u) PROVE TypeInv'
  BY <1>6, RestartedType DEF StartPeer
<1>7. ASSUME NEW u \in Peers, MigratePeer(u) PROVE TypeInv'
  BY <1>7 DEF MigratePeer
<1> QED
  BY <1>1, <1>2, <1>3, <1>4, <1>5, <1>6, <1>7

\* A step of the migration.
LEMMA MigrationTypes ==
  ASSUME TypeInv, Migration
  PROVE  TypeInv'
<1> USE DEF TypeInv, TypeOK, SyncFacts, fileVars, saveVars, Submitted, Steps, GoTo, MayMigrate
<1>1. CASE CopyEtc
  <2>1. whole' \in [Places -> BOOLEAN]
    BY <1>1 DEF CopyEtc
  <2>2. /\ conf' \in [Places -> {"absent", "local", "shared"}]
        /\ \A p \in Places : conf'[p] = "shared" => p = Shared /\ saveMade
        /\ \A u \in Units : running[u] = "shared" => conf'[Shared] = "shared"
    BY <1>1 DEF CopyEtc
  <2> QED
    BY <1>1, <2>1, <2>2 DEF CopyEtc
<1>2. CASE MoveEtc
  BY <1>2 DEF MoveEtc
<1>3. CASE LinkEtc
  BY <1>3 DEF LinkEtc
<1>4. CASE AlreadyLinked
  BY <1>4 DEF AlreadyLinked
<1>5. CASE NothingToLoad
  BY <1>5 DEF NothingToLoad
<1>6. CASE SkipSync
  BY <1>6 DEF SkipSync
<1>7. CASE FirstSync
  BY <1>7 DEF FirstSync, MustSync
<1>8. CASE StopService
  BY <1>8 DEF StopService
<1>9. CASE DeltaSync
  BY <1>9 DEF DeltaSync
<1>10. CASE SetLocation
  BY <1>10 DEF SetLocation
<1>11. CASE EmitStart
  BY <1>11, RestartedType DEF EmitStart
<1> QED
  BY <1>1, <1>2, <1>3, <1>4, <1>5, <1>6, <1>7, <1>8, <1>9, <1>10, <1>11 DEF Migration

LEMMA FailureTypes ==
  ASSUME TypeInv, Failure
  PROVE  TypeInv'
<1> USE DEF TypeInv, TypeOK, SyncFacts, hookVars, fileVars, saveVars, Submitted, Steps, GoTo,
            MayMigrate, Fails
<1>1. CASE CopyEtcFails
  <2>1. whole' \in [Places -> BOOLEAN]
    BY <1>1 DEF CopyEtcFails
  <2>2. /\ conf' \in [Places -> {"absent", "local", "shared"}]
        /\ \A p \in Places : conf'[p] = "shared" => p = Shared /\ saveMade
        /\ \A u \in Units : running[u] = "shared" => conf'[Shared] = "shared"
    BY <1>1 DEF CopyEtcFails
  <2> QED
    BY <1>1, <2>1, <2>2 DEF CopyEtcFails
<1>2. CASE FirstSyncFails
  BY <1>2 DEF FirstSyncFails, MustSync
<1>3. CASE DeltaSyncFails
  <2>0. PICK more \in SUBSET saved[Leader] :
           saved' = [saved EXCEPT ![Shared] = saved[Shared] \cup more]
    BY <1>3 DEF DeltaSyncFails
  <2>1. saved' \in [Places -> SUBSET Submitted] /\ saveMade
    <3>1. more \subseteq Submitted /\ saved[Shared] \subseteq Submitted
      BY <2>0
    <3> QED
      BY <1>3, <2>0, <3>1 DEF DeltaSyncFails
  <2>2. /\ running' \in [Units -> {"down", "local", "shared"}]
        /\ \A u \in Units : running'[u] = "shared" => conf[Shared] = "shared"
    BY <1>3, RestartedType DEF DeltaSyncFails
  <2>3. step' = "idle" /\ UNCHANGED <<mounted, mountDue, startDue, fileVars, saveMade, jobs>>
    BY <1>3 DEF DeltaSyncFails
  <2>4. failures' \subseteq Faults
    BY <1>3 DEF DeltaSyncFails
  <2> QED
    BY <2>1, <2>2, <2>3, <2>4
<1>4. CASE AgentDies
  BY <1>4 DEF AgentDies
<1> QED
  BY <1>1, <1>2, <1>3, <1>4 DEF Failure

LEMMA TypesKept == TypeInv /\ [Next]_vars => TypeInv'
<1>1. TypeInv /\ UNCHANGED vars => TypeInv'
  BY DEF TypeInv, TypeOK, SyncFacts, vars, hookVars, fileVars, saveVars, Submitted
<1> QED
  BY <1>1, OtherTypes, MigrationTypes, FailureTypes DEF Next

LEMMA TypeInvariant == Spec => []TypeInv
  BY InitTypes, TypesKept, PTL DEF Spec

\* Types, and that nothing is in the shared location before it is made, whatever
\* fails and for any number of peers and jobs.
THEOREM TypeCorrect == Spec => []TypeOK
<1>1. TypeInv => TypeOK
  BY DEF TypeInv
<1> QED
  BY <1>1, TypeInvariant, PTL

----------------------------------------------------------------------------
(* No job is lost from the location in use.  A copy is undisturbed when no *)
(* rsync failed, the agent lived and no backup took jobs on its own.       *)

Undisturbed == failures \cap {"rsync", "agent", "failover"} = {}

Switched == conf[Shared] = "shared"

\* Until slurm.conf is switched the leader keeps every job on its own disk, from
\* then on all of them are in the shared location; between the second copy and
\* the switch, with the service down, they are in both.
SaveInv ==
  /\ Switched =>
       etc[Leader] = "link" /\ running[Leader] # "local" /\ saved[Shared] = Submitted
  /\ ~Switched => saved[Leader] = Submitted
  /\ step \in {"copied", "moved", "rsynced", "stopped"} => ~Switched
  /\ step \in {"linked", "rsynced", "stopped", "synced", "located"} => etc[Leader] = "link"
  /\ step = "stopped" => running[Leader] = "down"
  /\ step = "synced" => running[Leader] # "local" /\ saved[Shared] = Submitted
  /\ step = "located" => Switched
  /\ saveMade => Switched \/ step \in {"rsynced", "stopped", "synced"}

CalmInv == Undisturbed => SaveInv

\* A restarted leader runs where its slurm.conf says.
LEMMA RestartedLeader ==
  ASSUME TypeInv, SaveInv
  PROVE  /\ Switched => Restarted(Leader)[Leader] # "local"
         /\ \A u \in Units \ {Leader} : Restarted(Leader)[u] = running[u]
  BY DEF TypeInv, TypeOK, SaveInv, Switched, Restarted, Started, Visible, Dir

LEMMA InitCalm == Init => CalmInv
  BY DEF Init, CalmInv, SaveInv, Switched, Submitted

LEMMA MigrationCalm ==
  ASSUME TypeInv, SaveInv, Migration
  PROVE  SaveInv'
<1> USE DEF TypeInv, TypeOK, SyncFacts, SaveInv, Switched, fileVars, saveVars, Submitted, GoTo,
            MayMigrate
<1>1. CASE CopyEtc
  BY <1>1 DEF CopyEtc
<1>2. CASE MoveEtc
  BY <1>2 DEF MoveEtc
<1>3. CASE LinkEtc
  BY <1>3 DEF LinkEtc
<1>4. CASE AlreadyLinked
  BY <1>4 DEF AlreadyLinked
<1>5. CASE NothingToLoad
  BY <1>5 DEF NothingToLoad
<1>6. CASE SkipSync
  BY <1>6 DEF SkipSync
<1>7. CASE FirstSync
  BY <1>7 DEF FirstSync, MustSync
<1>8. CASE StopService
  BY <1>8 DEF StopService
<1>9. CASE DeltaSync
  BY <1>9 DEF DeltaSync
<1>10. CASE SetLocation
  BY <1>10 DEF SetLocation
<1>11. CASE EmitStart
  BY <1>11, RestartedLeader DEF EmitStart
<1> QED
  BY <1>1, <1>2, <1>3, <1>4, <1>5, <1>6, <1>7, <1>8, <1>9, <1>10, <1>11 DEF Migration

LEMMA FailureCalm ==
  ASSUME TypeInv, SaveInv, Failure
  PROVE  CalmInv'
<1> USE DEF TypeInv, TypeOK, SyncFacts, CalmInv, Undisturbed, SaveInv, Switched, hookVars, fileVars,
            saveVars, Submitted, GoTo, MayMigrate, Fails
<1>1. CASE CopyEtcFails
  BY <1>1 DEF CopyEtcFails
<1>2. CASE FirstSyncFails
  BY <1>2 DEF FirstSyncFails
<1>3. CASE DeltaSyncFails
  BY <1>3 DEF DeltaSyncFails
<1>4. CASE AgentDies
  BY <1>4 DEF AgentDies
<1> QED
  BY <1>1, <1>2, <1>3, <1>4 DEF Failure

LEMMA OtherCalm ==
  ASSUME TypeInv, SaveInv,
         \/ StartLeader \/ Reconfigure
         \/ \E u \in Units : Mount(u) \/ SubmitJob(u) \/ Reboot(u)
         \/ \E u \in Peers : StartPeer(u) \/ MigratePeer(u)
  PROVE  CalmInv'
<1> USE DEF TypeInv, TypeOK, SyncFacts, CalmInv, Undisturbed, SaveInv, Switched, hookVars, fileVars,
            saveVars, Fails
<1>1. CASE StartLeader
  BY <1>1 DEF StartLeader, Dir, Visible, Submitted
<1>2. CASE Reconfigure
  BY <1>2, RestartedLeader DEF Reconfigure, Submitted
<1>3. ASSUME NEW u \in Units, Mount(u) PROVE CalmInv'
  BY <1>3 DEF Mount, Submitted
<1>4. ASSUME NEW u \in Units, SubmitJob(u) PROVE CalmInv'
  <2>1. CASE u = Leader
    <3>1. Submitted' = Submitted \cup {jobs + 1}
      BY <1>4 DEF SubmitJob, Submitted
    <3>2. SaveOf(Leader) = IF Switched THEN Shared ELSE Leader
      BY <1>4, <2>1 DEF SubmitJob, SaveOf
    <3>3. step # "synced" \/ Switched
      BY <1>4, <2>1 DEF SubmitJob
    <3> QED
      BY <1>4, <2>1, <3>1, <3>2, <3>3 DEF SubmitJob
  <2>2. CASE u # Leader
    BY <1>4, <2>2 DEF SubmitJob
  <2> QED
    BY <2>1, <2>2
<1>5. ASSUME NEW u \in Units, Reboot(u) PROVE CalmInv'
  BY <1>5 DEF Reboot, Submitted
<1>6. ASSUME NEW u \in Peers, StartPeer(u) PROVE CalmInv'
  BY <1>6 DEF StartPeer, Restarted, Submitted
<1>7. ASSUME NEW u \in Peers, MigratePeer(u) PROVE CalmInv'
  BY <1>7 DEF MigratePeer, Submitted
<1> QED
  BY <1>1, <1>2, <1>3, <1>4, <1>5, <1>6, <1>7

\* Failures are never forgotten.
LEMMA FailuresGrow == TypeInv /\ [Next]_vars => failures \subseteq failures'
  BY DEF Next, vars, hookVars, Migration, Failure, CopyEtc, MoveEtc, LinkEtc, AlreadyLinked,
         NothingToLoad, SkipSync, FirstSync, StopService, DeltaSync, SetLocation, EmitStart,
         CopyEtcFails, FirstSyncFails, DeltaSyncFails, AgentDies, StartLeader, Reconfigure, Mount,
         SubmitJob, Reboot, StartPeer, MigratePeer, Fails

LEMMA CalmKept == TypeInv /\ CalmInv /\ [Next]_vars => CalmInv'
<1> SUFFICES ASSUME TypeInv, CalmInv, [Next]_vars, Undisturbed' PROVE SaveInv'
  BY DEF CalmInv
<1>1. Undisturbed /\ SaveInv
  BY FailuresGrow DEF Undisturbed, CalmInv
<1>2. CASE UNCHANGED vars
  BY <1>1, <1>2 DEF SaveInv, Switched, Submitted, vars, hookVars, fileVars, saveVars
<1>3. CASE Next
  BY <1>1, <1>3, MigrationCalm, FailureCalm, OtherCalm DEF Next, CalmInv
<1> QED
  BY <1>2, <1>3

\* Through the whole migration, reboots and failed copies of /etc/slurm included,
\* the leader's slurmctld finds every job in the location it uses.
THEOREM StateIsKept == Spec => []StateKept
<1>1. TypeInv /\ CalmInv => StateKept
  BY DEF TypeInv, TypeOK, SyncFacts, CalmInv, Undisturbed, SaveInv, Switched, StateKept, SaveOf
<1> QED
  BY <1>1, InitCalm, CalmKept, TypeInvariant, PTL DEF Spec

LEMMA SwitchedBySetLocation ==
  ASSUME TypeInv, Next, conf[Shared] # "shared", conf'[Shared] = "shared"
  PROVE  SetLocation
<1> USE DEF TypeInv, TypeOK, SyncFacts, fileVars
<1>1. CASE Migration
  BY <1>1 DEF Migration, CopyEtc, MoveEtc, LinkEtc, AlreadyLinked, NothingToLoad, SkipSync,
              FirstSync, StopService, DeltaSync, EmitStart
<1>2. CASE Failure
  BY <1>2 DEF Failure, CopyEtcFails, FirstSyncFails, DeltaSyncFails, AgentDies
<1>3. CASE StartLeader
  BY <1>3 DEF StartLeader, Dir, Visible
<1> QED
  BY <1>1, <1>2, <1>3 DEF Next, Reconfigure, Mount, SubmitJob, Reboot, StartPeer, MigratePeer

\* If neither rsync nor the agent fails and no backup takes over, slurm.conf is
\* switched to the shared location only when every job is there.
THEOREM SwitchIsComplete ==
  ASSUME Faults \cap {"rsync", "agent", "failover"} = {}
  PROVE  Spec => SwitchedWhenComplete
<1>1. TypeInv => Undisturbed
  BY Faults \cap {"rsync", "agent", "failover"} = {} DEF TypeInv, TypeOK, Undisturbed
<1>2. TypeInv /\ CalmInv /\ [Next]_vars =>
        [conf[Shared] # "shared" /\ conf'[Shared] = "shared" => saved[Shared] = Submitted]_vars
  <2> SUFFICES ASSUME TypeInv, SaveInv, Next, conf[Shared] # "shared", conf'[Shared] = "shared"
               PROVE  saved[Shared] = Submitted
    BY <1>1 DEF CalmInv
  <2>1. SetLocation
    BY SwitchedBySetLocation
  <2> QED
    BY <2>1 DEF SetLocation, SaveInv
<1> QED
  BY <1>2, InitCalm, CalmKept, TypeInvariant, PTL DEF Spec, SwitchedWhenComplete

----------------------------------------------------------------------------
(* No job is erased.  rsync --delete makes the shared location a copy of   *)
(* the leader's, so no job may be there that the leader's disk lacks.      *)

\* Until the switch the shared location has nothing of its own, and only until
\* the switch does rsync run.
EraseInv ==
  /\ Submitted \subseteq UNION {saved[p] : p \in Places}
  /\ conf[Shared] # "shared" => saved[Shared] \subseteq saved[Leader]
  /\ step \in {"rsynced", "stopped"} => conf[Shared] # "shared"

\* A copy over the shared location takes nothing away that is not in its source.
LEMMA CopyErasesNothing ==
  ASSUME TypeInv, EraseInv, conf[Shared] # "shared", jobs' = jobs, conf' = conf,
         saved' = [saved EXCEPT ![Shared] = saved[Leader]]
  PROVE  /\ Submitted' \subseteq UNION {saved'[p] : p \in Places}
         /\ saved'[Shared] \subseteq saved'[Leader]
<1>1. /\ saved'[Shared] = saved[Leader]
      /\ \A u \in Units : saved'[u] = saved[u]
  BY DEF TypeInv, TypeOK
<1>2. Submitted' = Submitted
  BY DEF Submitted
<1>3. ASSUME NEW j \in Submitted PROVE \E p \in Places : j \in saved'[p]
  <2>1. PICK p \in Places : j \in saved[p]
    BY DEF EraseInv
  <2>2. CASE p = Shared
    BY <1>1, <2>1, <2>2 DEF EraseInv
  <2> QED
    BY <1>1, <2>1, <2>2
<1> QED
  BY <1>1, <1>2, <1>3

\* Where no place loses a job and none is submitted, none is erased.
LEMMA GrowthErasesNothing ==
  ASSUME EraseInv, jobs' = jobs, \A p \in Places : saved[p] \subseteq saved'[p]
  PROVE  Submitted' \subseteq UNION {saved'[p] : p \in Places}
<1>1. Submitted' = Submitted
  BY DEF Submitted
<1> QED
  BY <1>1 DEF EraseInv

LEMMA InitErase == Init => EraseInv
  BY DEF Init, EraseInv, Submitted

LEMMA MigrationErase ==
  ASSUME TypeInv, EraseInv, Migration
  PROVE  EraseInv'
<1> USE DEF TypeInv, TypeOK, SyncFacts, EraseInv, fileVars, saveVars, Submitted, GoTo, MayMigrate
<1>1. CASE CopyEtc
  BY <1>1 DEF CopyEtc
<1>2. CASE MoveEtc
  BY <1>2 DEF MoveEtc
<1>3. CASE LinkEtc
  BY <1>3 DEF LinkEtc
<1>4. CASE AlreadyLinked
  BY <1>4 DEF AlreadyLinked
<1>5. CASE NothingToLoad
  BY <1>5 DEF NothingToLoad
<1>6. CASE SkipSync
  BY <1>6 DEF SkipSync
<1>7. CASE FirstSync
  BY <1>7, CopyErasesNothing DEF FirstSync, MustSync
<1>8. CASE StopService
  BY <1>8 DEF StopService
<1>9. CASE DeltaSync
  BY <1>9, CopyErasesNothing DEF DeltaSync
<1>10. CASE SetLocation
  BY <1>10 DEF SetLocation
<1>11. CASE EmitStart
  BY <1>11 DEF EmitStart
<1> QED
  BY <1>1, <1>2, <1>3, <1>4, <1>5, <1>6, <1>7, <1>8, <1>9, <1>10, <1>11 DEF Migration

LEMMA FailureErase ==
  ASSUME TypeInv, EraseInv, Failure
  PROVE  EraseInv'
<1> USE DEF hookVars, fileVars, saveVars, GoTo, MayMigrate, Fails
<1>1. CASE CopyEtcFails
  BY <1>1 DEF CopyEtcFails, TypeInv, TypeOK, SyncFacts, EraseInv, Submitted
<1>2. CASE FirstSyncFails
  <2>1. /\ saved[Shared] = {} /\ conf[Shared] = "local"
        /\ step' = "idle" /\ UNCHANGED <<conf, jobs>>
    BY <1>2 DEF FirstSyncFails, MustSync, TypeInv, TypeOK
  <2>2. /\ saved'[Shared] \subseteq saved'[Leader]
        /\ \A p \in Places : saved[p] \subseteq saved'[p]
    BY <1>2, <2>1 DEF FirstSyncFails, TypeInv, TypeOK
  <2> QED
    BY <2>1, <2>2, GrowthErasesNothing DEF EraseInv
<1>3. CASE DeltaSyncFails
  <2>1. step' = "idle" /\ UNCHANGED <<conf, jobs>> /\ conf[Shared] # "shared"
    BY <1>3 DEF DeltaSyncFails, EraseInv
  <2>2. PICK more \in SUBSET saved[Leader] :
           saved' = [saved EXCEPT ![Shared] = saved[Shared] \cup more]
    BY <1>3 DEF DeltaSyncFails
  <2>3. /\ saved'[Shared] = saved[Shared] \cup more
        /\ \A u \in Units : saved'[u] = saved[u]
    BY <2>2 DEF TypeInv, TypeOK
  <2>4. /\ saved'[Shared] \subseteq saved'[Leader]
        /\ \A p \in Places : saved[p] \subseteq saved'[p]
    BY <2>1, <2>3 DEF EraseInv
  <2> QED
    BY <2>1, <2>4, GrowthErasesNothing DEF EraseInv
<1>4. CASE AgentDies
  BY <1>4 DEF AgentDies, EraseInv, Submitted
<1> QED
  BY <1>1, <1>2, <1>3, <1>4 DEF Failure

LEMMA OtherErase ==
  ASSUME TypeInv, EraseInv,
         \/ StartLeader \/ Reconfigure
         \/ \E u \in Units : Mount(u) \/ SubmitJob(u) \/ Reboot(u)
         \/ \E u \in Peers : StartPeer(u) \/ MigratePeer(u)
  PROVE  EraseInv'
<1> USE DEF hookVars, fileVars, saveVars
<1>1. CASE StartLeader
  <2>1. /\ step' = step /\ UNCHANGED <<saved, jobs>>
        /\ conf'[Shared] # "shared" => conf[Shared] # "shared"
        /\ step = "idle"
    BY <1>1 DEF StartLeader, TypeInv, TypeOK, Dir, Visible
  <2> QED
    BY <2>1 DEF EraseInv, Submitted
<1>2. CASE Reconfigure
  BY <1>2 DEF Reconfigure, EraseInv, Submitted
<1>3. ASSUME NEW u \in Units, Mount(u) PROVE EraseInv'
  BY <1>3 DEF Mount, EraseInv, Submitted
<1>4. ASSUME NEW u \in Units, SubmitJob(u) PROVE EraseInv'
  <2>1. /\ jobs' = jobs + 1 /\ UNCHANGED <<conf, step>>
        /\ saved' = [saved EXCEPT ![SaveOf(u)] = @ \cup {jobs + 1}]
        /\ running[u] # "down"
    BY <1>4 DEF SubmitJob
  <2>2. /\ SaveOf(u) \in Places
        /\ SaveOf(u) = Shared => conf[Shared] = "shared"
    BY <2>1 DEF SaveOf, TypeInv, TypeOK, SyncFacts
  <2>3. Submitted' = Submitted \cup {jobs + 1}
    BY <2>1 DEF Submitted, TypeInv, TypeOK
  <2>4. /\ jobs + 1 \in saved'[SaveOf(u)]
        /\ \A p \in Places : saved[p] \subseteq saved'[p]
        /\ SaveOf(u) # Shared => saved'[Shared] = saved[Shared]
    BY <2>1, <2>2 DEF TypeInv, TypeOK
  <2>5. Submitted' \subseteq UNION {saved'[p] : p \in Places}
    BY <2>2, <2>3, <2>4 DEF EraseInv
  <2> QED
    BY <2>1, <2>2, <2>4, <2>5 DEF EraseInv
<1>5. ASSUME NEW u \in Units, Reboot(u) PROVE EraseInv'
  BY <1>5 DEF Reboot, EraseInv, Submitted
<1>6. ASSUME NEW u \in Peers, StartPeer(u) PROVE EraseInv'
  BY <1>6 DEF StartPeer, EraseInv, Submitted
<1>7. ASSUME NEW u \in Peers, MigratePeer(u) PROVE EraseInv'
  BY <1>7 DEF MigratePeer, EraseInv, Submitted
<1> QED
  BY <1>1, <1>2, <1>3, <1>4, <1>5, <1>6, <1>7

LEMMA EraseKept == TypeInv /\ EraseInv /\ [Next]_vars => EraseInv'
<1>1. EraseInv /\ UNCHANGED vars => EraseInv'
  BY DEF EraseInv, Submitted, vars, hookVars, fileVars, saveVars
<1> QED
  BY <1>1, MigrationErase, FailureErase, OtherErase DEF Next

\* No submitted job is erased from every place that had it, whatever fails,
\* whenever the agent dies and however often the migration is tried again.
THEOREM NothingIsErased == Spec => []NothingErased
<1>1. EraseInv => NothingErased
  BY DEF EraseInv, NothingErased
<1> QED
  BY <1>1, InitErase, EraseKept, TypeInvariant, PTL DEF Spec
=============================================================================
