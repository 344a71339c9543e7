-------------------------- MODULE SlurmConf_proofs --------------------------
(***************************************************************************)
(* Theorems about the two components whose hooks edit the slurm.conf of    *)
(* the leader for an integration: PartitionConfig (the include lines and   *)
(* files of the partitions), for any finite set of partitions, and         *)
(* JobMail (the mail program), for any set of units and any faults.  The   *)
(* two specifications share no variable; the names of JobMail's are its    *)
(* own for that reason.                                                    *)
(***************************************************************************)
EXTENDS PartitionConfig, JobMail, TLAPS

----------------------------------------------------------------------------
(* PartitionConfig.  The contents of the files after each kind of write.   *)

FileTypes == file \in [Partitions -> {"absent", "plain", "default"}]

\* Writing one partition's file makes that file exist and leaves the others.
LEMMA PartitionFileFacts ==
  ASSUME FileTypes, NEW p \in Partitions
  PROVE  /\ PartitionFile(p) \in [Partitions -> {"absent", "plain", "default"}]
         /\ PartitionFile(p)[p] = IF p = wanted THEN "default" ELSE "plain"
         /\ \A q \in Partitions \ {p} : PartitionFile(p)[q] = file[q]
  BY DEF FileTypes, PartitionFile

\* Moving the default neither creates nor deletes a file.
LEMMA DefaultMovedFacts ==
  ASSUME FileTypes, NEW new, NEW previous
  PROVE  /\ DefaultMoved(new, previous) \in [Partitions -> {"absent", "plain", "default"}]
         /\ \A q \in Partitions :
              DefaultMoved(new, previous)[q] = "absent" <=> file[q] = "absent"
  BY DEF FileTypes, DefaultMoved

----------------------------------------------------------------------------
(* Type correctness.                                                       *)

LEMMA InitTypes == Init => TypeOK
  BY NoPartitionIsNone DEF Init, TypeOK, Options

LEMMA TypesKept == TypeOK /\ [Next]_vars => TypeOK'
<1> SUFFICES ASSUME TypeOK, [Next]_vars PROVE TypeOK'
  OBVIOUS
<1> USE DEF TypeOK, filesVars
<1>0. FileTypes
  BY DEF FileTypes
<1>1. ASSUME NEW p \in Partitions, Integrate(p) PROVE TypeOK'
  BY <1>1 DEF Integrate
<1>2. ASSUME NEW p \in Partitions, PartitionDataChanges(p) PROVE TypeOK'
  BY <1>2 DEF PartitionDataChanges
<1>3. ASSUME NEW p \in Partitions, RemoveIntegration(p) PROVE TypeOK'
  BY <1>3 DEF RemoveIntegration
<1>4. ASSUME NEW p \in Options, NEW ok \in BOOLEAN, SetConfig(p, ok) PROVE TypeOK'
  BY <1>4 DEF SetConfig
<1>5. CASE SlurmctldStops
  BY <1>5 DEF SlurmctldStops
<1>6. CASE SlurmctldStarts
  BY <1>6 DEF SlurmctldStarts
<1>7. ASSUME NEW p \in Partitions, SlurmdReady(p) PROVE TypeOK'
  BY <1>7, <1>0, PartitionFileFacts DEF SlurmdReady, WritePartition
<1>8. ASSUME NEW p \in Partitions, SlurmdReadyDeferred(p) PROVE TypeOK'
  BY <1>8, <1>0, PartitionFileFacts DEF SlurmdReadyDeferred, WritePartition
<1>9. ASSUME NEW p \in Partitions, SlurmdReadyDies(p) PROVE TypeOK'
  BY <1>9, <1>0, PartitionFileFacts DEF SlurmdReadyDies
<1>10. ASSUME NEW p \in Partitions, SlurmdDisconnected(p) PROVE TypeOK'
  BY <1>10 DEF SlurmdDisconnected
<1>11. ASSUME NEW p \in Partitions, SlurmdDisconnectedDies(p) PROVE TypeOK'
  BY <1>11 DEF SlurmdDisconnectedDies
<1>12. CASE ConfigChanged
  <2>1. \/ file' = file
        \/ \E current : file' = DefaultMoved(wanted, current)
    BY <1>12 DEF ConfigChanged
  <2>2. file' \in [Partitions -> {"absent", "plain", "default"}]
    BY <2>1, <1>0, DefaultMovedFacts DEF FileTypes
  <2> QED
    BY <1>12, <2>2 DEF ConfigChanged
<1>13. CASE ConfigChangedDies
  BY <1>13 DEF ConfigChangedDies
<1>14. CASE UNCHANGED vars
  BY <1>14 DEF vars
<1> QED
  BY <1>1, <1>2, <1>3, <1>4, <1>5, <1>6, <1>7, <1>8, <1>9, <1>10, <1>11, <1>12, <1>13, <1>14
  DEF Next, Environment, LeaderHook

\* Type correctness for any set of partitions: events and deferred events only
\* of partitions that are integrated.
THEOREM TypeCorrect == Spec => []TypeOK
  BY InitTypes, TypesKept, PTL DEF Spec

----------------------------------------------------------------------------
(* slurm.conf and its include files agree.                                 *)

FilesAgree == IncludesExist /\ NothingLeftBehind

LEMMA InitFiles == Init => FilesAgree
  BY DEF Init, FilesAgree, IncludesExist, NothingLeftBehind

LEMMA FilesKept == TypeOK /\ FilesAgree /\ [Next]_vars => FilesAgree'
<1> SUFFICES ASSUME TypeOK, FilesAgree, [Next]_vars PROVE FilesAgree'
  OBVIOUS
<1> USE DEF TypeOK, filesVars, FilesAgree, IncludesExist, NothingLeftBehind
<1>0. FileTypes
  BY DEF FileTypes
<1>1. ASSUME NEW p \in Partitions, Integrate(p) PROVE FilesAgree'
  BY <1>1 DEF Integrate
<1>2. ASSUME NEW p \in Partitions, PartitionDataChanges(p) PROVE FilesAgree'
  BY <1>2 DEF PartitionDataChanges
<1>3. ASSUME NEW p \in Partitions, RemoveIntegration(p) PROVE FilesAgree'
  BY <1>3 DEF RemoveIntegration
<1>4. ASSUME NEW p \in Options, NEW ok \in BOOLEAN, SetConfig(p, ok) PROVE FilesAgree'
  BY <1>4 DEF SetConfig
<1>5. CASE SlurmctldStops
  BY <1>5 DEF SlurmctldStops
<1>6. CASE SlurmctldStarts
  BY <1>6 DEF SlurmctldStarts
<1>7. ASSUME NEW p \in Partitions, SlurmdReady(p) PROVE FilesAgree'
  BY <1>7, <1>0, PartitionFileFacts DEF SlurmdReady, WritePartition
<1>8. ASSUME NEW p \in Partitions, SlurmdReadyDeferred(p) PROVE FilesAgree'
  BY <1>8, <1>0, PartitionFileFacts DEF SlurmdReadyDeferred, WritePartition
<1>9. ASSUME NEW p \in Partitions, SlurmdReadyDies(p) PROVE FilesAgree'
  BY <1>9, <1>0, PartitionFileFacts DEF SlurmdReadyDies
<1>10. ASSUME NEW p \in Partitions, SlurmdDisconnected(p) PROVE FilesAgree'
  BY <1>10 DEF SlurmdDisconnected
<1>11. ASSUME NEW p \in Partitions, SlurmdDisconnectedDies(p) PROVE FilesAgree'
  BY <1>11 DEF SlurmdDisconnectedDies
<1>12. CASE ConfigChanged
  BY <1>12, <1>0, DefaultMovedFacts DEF ConfigChanged
<1>13. CASE ConfigChangedDies
  BY <1>13 DEF ConfigChangedDies
<1>14. CASE UNCHANGED vars
  BY <1>14 DEF vars
<1> QED
  BY <1>1, <1>2, <1>3, <1>4, <1>5, <1>6, <1>7, <1>8, <1>9, <1>10, <1>11, <1>12, <1>13, <1>14
  DEF Next, Environment, LeaderHook

LEMMA FilesAlwaysAgree == Spec => []FilesAgree
<1>1. Spec => []TypeOK
  BY TypeCorrect
<1> QED
  BY <1>1, InitFiles, FilesKept, PTL DEF Spec

\* slurm.conf never includes a file that is missing, even between the two writes
\* of a hook or after the agent died there.
THEOREM IncludesAlwaysExist == Spec => []IncludesExist
<1>1. FilesAgree => IncludesExist
  BY DEF FilesAgree
<1> QED
  BY <1>1, FilesAlwaysAgree, PTL

\* A partition whose application is gone has no include line, no file, and no
\* entry among the partitions that know the controllers.
THEOREM NothingIsLeftBehind == Spec => []NothingLeftBehind
<1>1. FilesAgree => NothingLeftBehind
  BY DEF FilesAgree
<1> QED
  BY <1>1, FilesAlwaysAgree, PTL

----------------------------------------------------------------------------
(* The default partition.                                                  *)

LEMMA InitWanted == Init => WantedIsDefault
  BY NoPartitionIsNone DEF Init, WantedIsDefault, Options

\* The default ends at the wanted partition: either the file found first was its
\* own, or it is edited now.
LEMMA ConfigChangedWanted ==
  ASSUME TypeOK, ConfigChanged
  PROVE  WantedIsDefault'
<1> SUFFICES ASSUME valid, wanted # NoPartition, file'[wanted] # "absent"
             PROVE  file'[wanted] = "default"
  BY DEF ConfigChanged, WantedIsDefault
<1>1. wanted \in Partitions
  BY DEF TypeOK, Options
<1>2. PICK current \in CurrentDefaults :
        file' = IF current = wanted THEN file ELSE DefaultMoved(wanted, current)
  BY DEF ConfigChanged
<1>3. CASE current = wanted
  <2>1. wanted \in Defaults
    BY <1>3 DEF CurrentDefaults
  <2> QED
    BY <1>2, <1>3, <2>1 DEF Defaults
<1>4. CASE current # wanted
  BY <1>1, <1>2, <1>4 DEF DefaultMoved
<1> QED
  BY <1>3, <1>4

LEMMA WantedKept == TypeOK /\ WantedIsDefault /\ [Next]_vars => WantedIsDefault'
<1> SUFFICES ASSUME TypeOK, WantedIsDefault, [Next]_vars PROVE WantedIsDefault'
  OBVIOUS
<1> USE DEF filesVars, WantedIsDefault
<1>0. FileTypes /\ wanted \in Partitions \cup {NoPartition}
  BY DEF FileTypes, TypeOK, Options
<1>1. ASSUME NEW p \in Partitions, Integrate(p) PROVE WantedIsDefault'
  BY <1>1 DEF Integrate
<1>2. ASSUME NEW p \in Partitions, PartitionDataChanges(p) PROVE WantedIsDefault'
  BY <1>2 DEF PartitionDataChanges
<1>3. ASSUME NEW p \in Partitions, RemoveIntegration(p) PROVE WantedIsDefault'
  BY <1>3 DEF RemoveIntegration
<1>4. ASSUME NEW p \in Options, NEW ok \in BOOLEAN, SetConfig(p, ok) PROVE WantedIsDefault'
  BY <1>4 DEF SetConfig
<1>5. CASE SlurmctldStops
  BY <1>5 DEF SlurmctldStops
<1>6. CASE SlurmctldStarts
  BY <1>6 DEF SlurmctldStarts
<1>7. ASSUME NEW p \in Partitions, SlurmdReady(p) PROVE WantedIsDefault'
  BY <1>7, <1>0, PartitionFileFacts DEF SlurmdReady, WritePartition
<1>8. ASSUME NEW p \in Partitions, SlurmdReadyDeferred(p) PROVE WantedIsDefault'
  BY <1>8, <1>0, PartitionFileFacts DEF SlurmdReadyDeferred, WritePartition
<1>9. ASSUME NEW p \in Partitions, SlurmdReadyDies(p) PROVE WantedIsDefault'
  BY <1>9, <1>0, PartitionFileFacts DEF SlurmdReadyDies
<1>10. ASSUME NEW p \in Partitions, SlurmdDisconnected(p) PROVE WantedIsDefault'
  BY <1>10, <1>0 DEF SlurmdDisconnected, FileTypes
<1>11. ASSUME NEW p \in Partitions, SlurmdDisconnectedDies(p) PROVE WantedIsDefault'
  BY <1>11 DEF SlurmdDisconnectedDies
<1>12. CASE ConfigChanged
  BY <1>12, ConfigChangedWanted
<1>13. CASE ConfigChangedDies
  BY <1>13 DEF ConfigChangedDies
<1>14. CASE UNCHANGED vars
  BY <1>14 DEF vars
<1> QED
  BY <1>1, <1>2, <1>3, <1>4, <1>5, <1>6, <1>7, <1>8, <1>9, <1>10, <1>11, <1>12, <1>13, <1>14
  DEF Next, Environment, LeaderHook

\* After config-changed, the wanted partition is a default partition if it is
\* connected, whichever of the two came first.
THEOREM WantedPartitionIsDefault == Spec => []WantedIsDefault
<1>1. Spec => []TypeOK
  BY TypeCorrect
<1> QED
  BY <1>1, InitWanted, WantedKept, PTL DEF Spec

----------------------------------------------------------------------------
(* JobMail: types.                                                         *)

LEMMA MailInitTypes == MailInit => MailTypeOK
  BY FirstKnown DEF MailInit, MailTypeOK

LEMMA MailTypesKept == MailTypeOK /\ [MailNext]_allVars => MailTypeOK'
<1> SUFFICES ASSUME MailTypeOK, [MailNext]_allVars PROVE MailTypeOK'
  OBVIOUS
<1> USE DEF MailTypeOK, outside, mailVars, Told, Outdated, Done, Configured, Reconfigure, Events, Fields
<1>1. CASE IntegrateSmtp
  BY <1>1 DEF IntegrateSmtp
<1>2. CASE Offer
  BY <1>2 DEF Offer
<1>3. CASE SeparateSmtp
  BY <1>3 DEF SeparateSmtp
<1>4. CASE SetName
  BY <1>4 DEF SetName
<1>5. CASE AccountingChanges
  BY <1>5 DEF AccountingChanges
<1>6. ASSUME NEW u \in Units, AddUnit(u) PROVE MailTypeOK'
  BY <1>6 DEF AddUnit
<1>7. ASSUME NEW u \in Units, LeaderMoves(u) PROVE MailTypeOK'
  BY <1>7 DEF LeaderMoves, Overtaken
<1>8. ASSUME NEW u \in Units, Created(u) PROVE MailTypeOK'
  BY <1>8 DEF Created
<1>9. ASSUME NEW u \in Units, SmtpData(u) PROVE MailTypeOK'
  BY <1>9 DEF SmtpData
<1>10. ASSUME NEW u \in Units, Broken(u) PROVE MailTypeOK'
  BY <1>10 DEF Broken, Uninstalled
<1>11. ASSUME NEW u \in Units, Config(u) PROVE MailTypeOK'
  BY <1>11 DEF Config
<1>12. ASSUME NEW u \in Units, NEW next \in Units, Depart(u, next) PROVE MailTypeOK'
  BY <1>12 DEF Depart, Removed, Overtaken
<1>13. ASSUME NEW u \in Units, CreatedFails(u) PROVE MailTypeOK'
  BY <1>13 DEF CreatedFails, allVars
<1>14. CASE UNCHANGED allVars
  BY <1>14 DEF allVars
<1> QED
  BY <1>1, <1>2, <1>3, <1>4, <1>5, <1>6, <1>7, <1>8, <1>9, <1>10, <1>11, <1>12, <1>13, <1>14
  DEF MailNext

\* Type correctness of JobMail for any set of units: the leader is one of them.
THEOREM MailTypeCorrect == MailSpec => []MailTypeOK
  BY MailInitTypes, MailTypesKept, PTL DEF MailSpec

----------------------------------------------------------------------------
(* JobMail: the events due and what each unit has on its disk.             *)

\* The end of an integration is still to be handled only while there is no other:
\* Juju waits for it.
BrokenInv == \A u \in units : "broken" \in due[u] => ~joined

\* What a unit lacks, an event that is due will bring: the package and the newest data.
UnitsInv ==
  joined => \A u \in units :
    /\ "created" \in due[u] \/ u \in package
    /\ published /\ "data" \notin due[u] => "server" \notin stale[u]
    /\ published /\ due[u] \cap {"data", "config"} = {} => "name" \notin stale[u]

EventsInv == MailTypeOK /\ BrokenInv /\ UnitsInv

LEMMA MailInitEvents == MailInit => BrokenInv /\ UnitsInv
  BY DEF MailInit, BrokenInv, UnitsInv

LEMMA BrokenKept == MailTypeOK /\ BrokenInv /\ [MailNext]_allVars => BrokenInv'
<1> SUFFICES ASSUME MailTypeOK, BrokenInv, [MailNext]_allVars PROVE BrokenInv'
  OBVIOUS
<1> USE DEF MailTypeOK, BrokenInv, outside, mailVars, Told, Done, Handles
<1>1. CASE IntegrateSmtp
  BY <1>1 DEF IntegrateSmtp
<1>2. CASE Offer
  BY <1>2 DEF Offer
<1>3. CASE SeparateSmtp
  BY <1>3 DEF SeparateSmtp
<1>4. CASE SetName
  BY <1>4 DEF SetName
<1>5. CASE AccountingChanges
  BY <1>5 DEF AccountingChanges
<1>6. ASSUME NEW u \in Units, AddUnit(u) PROVE BrokenInv'
  BY <1>6 DEF AddUnit
<1>7. ASSUME NEW u \in Units, LeaderMoves(u) PROVE BrokenInv'
  BY <1>7 DEF LeaderMoves
<1>8. ASSUME NEW u \in Units, Created(u) PROVE BrokenInv'
  BY <1>8 DEF Created
<1>9. ASSUME NEW u \in Units, CreatedFails(u) PROVE BrokenInv'
  BY <1>9 DEF CreatedFails, allVars
<1>10. ASSUME NEW u \in Units, SmtpData(u) PROVE BrokenInv'
  BY <1>10 DEF SmtpData, Configured
<1>11. ASSUME NEW u \in Units, Broken(u) PROVE BrokenInv'
  BY <1>11 DEF Broken, Uninstalled
<1>12. ASSUME NEW u \in Units, Config(u) PROVE BrokenInv'
  BY <1>12 DEF Config, Configured
<1>13. ASSUME NEW u \in Units, NEW next \in Units, Depart(u, next) PROVE BrokenInv'
  BY <1>13 DEF Depart, Removed
<1>14. CASE UNCHANGED allVars
  BY <1>14 DEF allVars
<1> QED
  BY <1>1, <1>2, <1>3, <1>4, <1>5, <1>6, <1>7, <1>8, <1>9, <1>10, <1>11, <1>12, <1>13, <1>14
  DEF MailNext

LEMMA UnitsKept == EventsInv /\ [MailNext]_allVars => UnitsInv'
<1> SUFFICES ASSUME MailTypeOK, BrokenInv, UnitsInv, [MailNext]_allVars PROVE UnitsInv'
  BY DEF EventsInv
<1> USE DEF MailTypeOK, BrokenInv, UnitsInv, outside, mailVars, Told, Outdated, Done, Handles, Fields
<1>1. CASE IntegrateSmtp
  BY <1>1 DEF IntegrateSmtp
<1>2. CASE Offer
  BY <1>2 DEF Offer
<1>3. CASE SeparateSmtp
  BY <1>3 DEF SeparateSmtp
<1>4. CASE SetName
  BY <1>4 DEF SetName
<1>5. CASE AccountingChanges
  BY <1>5 DEF AccountingChanges
<1>6. ASSUME NEW u \in Units, AddUnit(u) PROVE UnitsInv'
  BY <1>6 DEF AddUnit
<1>7. ASSUME NEW u \in Units, LeaderMoves(u) PROVE UnitsInv'
  BY <1>7 DEF LeaderMoves
<1>8. ASSUME NEW u \in Units, Created(u) PROVE UnitsInv'
  BY <1>8 DEF Created
<1>9. ASSUME NEW u \in Units, CreatedFails(u) PROVE UnitsInv'
  BY <1>9 DEF CreatedFails, allVars
<1>10. ASSUME NEW u \in Units, SmtpData(u) PROVE UnitsInv'
  BY <1>10 DEF SmtpData, Configured
<1>11. ASSUME NEW u \in Units, Broken(u) PROVE UnitsInv'
  BY <1>11 DEF Broken, Uninstalled
<1>12. ASSUME NEW u \in Units, Config(u) PROVE UnitsInv'
  BY <1>12 DEF Config, Configured
<1>13. ASSUME NEW u \in Units, NEW next \in Units, Depart(u, next) PROVE UnitsInv'
  BY <1>13 DEF Depart, Removed
<1>14. CASE UNCHANGED allVars
  BY <1>14 DEF allVars
<1> QED
  BY <1>1, <1>2, <1>3, <1>4, <1>5, <1>6, <1>7, <1>8, <1>9, <1>10, <1>11, <1>12, <1>13, <1>14
  DEF MailNext

LEMMA EventsAlwaysHold == MailSpec => []EventsInv
<1>1. MailInit => EventsInv
  BY MailInitTypes, MailInitEvents DEF EventsInv
<1>2. EventsInv /\ [MailNext]_allVars => EventsInv'
  BY MailTypesKept, BrokenKept, UnitsKept DEF EventsInv
<1> QED
  BY <1>1, <1>2, PTL DEF MailSpec

\* For any set of units and any faults: a unit with nothing left to handle has the
\* package and mails with the newest server and name.
THEOREM UnitsStayInSync == MailSpec => []UnitsInSync
<1>1. EventsInv => UnitsInSync
  <2> SUFFICES ASSUME EventsInv, joined, published, NEW u \in units, due[u] = {}
               PROVE  u \in package /\ stale[u] = {}
    BY DEF UnitsInSync
  <2>1. u \in package /\ "server" \notin stale[u] /\ "name" \notin stale[u]
    BY DEF EventsInv, UnitsInv
  <2>2. stale[u] \subseteq Fields
    BY DEF EventsInv, MailTypeOK
  <2> QED
    BY <2>1, <2>2 DEF Fields
<1> QED
  BY <1>1, EventsAlwaysHold, PTL

----------------------------------------------------------------------------
(* JobMail: the mail program in slurm.conf and in the running slurmctld.   *)

LEMMA ProgramInit == MailInit => ProgramInStep
  BY DEF MailInit, ProgramInStep

LEMMA ProgramKept == EventsInv /\ ProgramInStep /\ [MailNext]_allVars => ProgramInStep'
<1> SUFFICES ASSUME MailTypeOK, BrokenInv, ProgramInStep, [MailNext]_allVars PROVE ProgramInStep'
  BY DEF EventsInv
<1> USE DEF MailTypeOK, BrokenInv, ProgramInStep, outside, mailVars, Told, Done, Handles
<1>1. CASE IntegrateSmtp
  BY <1>1 DEF IntegrateSmtp
<1>2. CASE Offer
  BY <1>2 DEF Offer
<1>3. CASE SeparateSmtp
  BY <1>3 DEF SeparateSmtp
<1>4. CASE SetName
  BY <1>4 DEF SetName
<1>5. CASE AccountingChanges
  BY <1>5 DEF AccountingChanges
<1>6. ASSUME NEW u \in Units, AddUnit(u) PROVE ProgramInStep'
  BY <1>6 DEF AddUnit
<1>7. ASSUME NEW u \in Units, LeaderMoves(u) PROVE ProgramInStep'
  BY <1>7 DEF LeaderMoves, Overtaken
<1>8. ASSUME NEW u \in Units, Created(u) PROVE ProgramInStep'
  BY <1>8 DEF Created
<1>9. ASSUME NEW u \in Units, CreatedFails(u) PROVE ProgramInStep'
  BY <1>9 DEF CreatedFails, allVars
<1>10. ASSUME NEW u \in Units, SmtpData(u) PROVE ProgramInStep'
  BY <1>10 DEF SmtpData, Configured
<1>11. ASSUME NEW u \in Units, Broken(u) PROVE ProgramInStep'
  BY <1>11 DEF Broken, Uninstalled
<1>12. ASSUME NEW u \in Units, Config(u) PROVE ProgramInStep'
  BY <1>12 DEF Config, Configured
<1>13. ASSUME NEW u \in Units, NEW next \in Units, Depart(u, next) PROVE ProgramInStep'
  BY <1>13 DEF Depart, Removed, Overtaken
<1>14. CASE UNCHANGED allVars
  BY <1>14 DEF allVars
<1> QED
  BY <1>1, <1>2, <1>3, <1>4, <1>5, <1>6, <1>7, <1>8, <1>9, <1>10, <1>11, <1>12, <1>13, <1>14
  DEF MailNext

\* For any set of units: slurm.conf names the mail program as the integration wants
\* it, or the leader has the event to come that puts it right, unless leadership
\* moved to a unit that had handled it already.
THEOREM ProgramStaysInStep == MailSpec => []ProgramInStep
  BY ProgramInit, ProgramKept, EventsAlwaysHold, PTL DEF MailSpec

\* A handler that got to the end of _reconfigure leaves slurmctld with the line that
\* slurm.conf has: the leader edits it before it reconfigures, never after.
RunningInv == ~failed => running = mailProg

LEMMA RunningInit == MailInit => RunningInv
  BY DEF MailInit, RunningInv

LEMMA RunningKept == RunningInv /\ [MailNext]_allVars => RunningInv'
<1> SUFFICES ASSUME RunningInv, [MailNext]_allVars PROVE RunningInv'
  OBVIOUS
<1> USE DEF RunningInv, outside, mailVars, Reconfigure
<1>1. CASE IntegrateSmtp
  BY <1>1 DEF IntegrateSmtp
<1>2. CASE Offer
  BY <1>2 DEF Offer
<1>3. CASE SeparateSmtp
  BY <1>3 DEF SeparateSmtp
<1>4. CASE SetName
  BY <1>4 DEF SetName
<1>5. CASE AccountingChanges
  BY <1>5 DEF AccountingChanges
<1>6. ASSUME NEW u \in Units, AddUnit(u) PROVE RunningInv'
  BY <1>6 DEF AddUnit
<1>7. ASSUME NEW u \in Units, LeaderMoves(u) PROVE RunningInv'
  BY <1>7 DEF LeaderMoves
<1>8. ASSUME NEW u \in Units, Created(u) PROVE RunningInv'
  BY <1>8 DEF Created
<1>9. ASSUME NEW u \in Units, CreatedFails(u) PROVE RunningInv'
  BY <1>9 DEF CreatedFails, allVars
<1>10. ASSUME NEW u \in Units, SmtpData(u) PROVE RunningInv'
  BY <1>10 DEF SmtpData, Configured
<1>11. ASSUME NEW u \in Units, Broken(u) PROVE RunningInv'
  BY <1>11 DEF Broken, Uninstalled
<1>12. ASSUME NEW u \in Units, Config(u) PROVE RunningInv'
  BY <1>12 DEF Config, Configured
<1>13. ASSUME NEW u \in Units, NEW next \in Units, Depart(u, next) PROVE RunningInv'
  BY <1>13 DEF Depart, Removed
<1>14. CASE UNCHANGED allVars
  BY <1>14 DEF allVars
<1> QED
  BY <1>1, <1>2, <1>3, <1>4, <1>5, <1>6, <1>7, <1>8, <1>9, <1>10, <1>11, <1>12, <1>13, <1>14
  DEF MailNext

LEMMA RunningAlwaysHolds == MailSpec => []RunningInv
  BY RunningInit, RunningKept, PTL DEF MailSpec

\* For any set of units: when all have handled the end of the integration, no
\* slurmctld mails any more.
THEOREM MailIsStopped == MailSpec => []MailStopped
<1>1. EventsInv /\ ProgramInStep /\ RunningInv => MailStopped
  BY DEF EventsInv, MailTypeOK, ProgramInStep, RunningInv, MailStopped
<1> QED
  BY <1>1, EventsAlwaysHold, ProgramStaysInStep, RunningAlwaysHolds, PTL
=============================================================================
