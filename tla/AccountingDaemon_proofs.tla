----------------------- MODULE AccountingDaemon_proofs ----------------------
(***************************************************************************)
(* Proofs about AccountingDaemon, for any bounds and faults: types, the    *)
(* newest database and overrides are in force, and the two daemons agree   *)
(* on the JWT key.                                                         *)
(***************************************************************************)
EXTENDS AccountingDaemon, TLAPS

USE KindsKnown, BoundsNat, FaultsKnown

Confs == [user : Dbs, host : Dbs, over : 0 .. MaxOverrides]
Runs == [user : Dbs, host : Dbs, over : 0 .. MaxOverrides, port : Dbs, jwt : Keys, on : BOOLEAN]

\* The steps that do not touch slurmdbd's files, nor its service.
Elsewhere ==
  \/ Integrate \/ Connected \/ RemoveDatabase \/ MoveDatabase \/ (\E kind \in Kinds : CreateDatabase(kind))
  \/ RotateJwt \/ RestartController \/ StopController \/ Install

----------------------------------------------------------------------------
(* Types.                                                                  *)

LEMMA ReconfigureType ==
  ASSUME TypeOK, Reconfigure, storage' \in [user : Dbs, host : Dbs],
         overrides' \in 0 .. MaxOverrides, port' \in Dbs, jwt' \in Keys
  PROVE  conf' \in Confs /\ using' \in Runs /\ host' \in BOOLEAN /\ failed' \in BOOLEAN
<1>1. CASE ~CanServe
  BY <1>1 DEF Reconfigure, TypeOK, serviceVars, Confs, Runs
<1>2. CASE CanServe
  <2>1. Merged \in Confs
    BY DEF TypeOK, Merged, Confs
  <2>2. conf' \in Confs
    BY <1>2, <2>1 DEF Reconfigure
  <2>3. Started \in Runs /\ Stopped \in Runs /\ using \in Runs
    BY <2>2 DEF TypeOK, Started, Stopped, Confs, Runs, Dbs, Keys
  <2>4. using' \in Runs
    BY <1>2, <2>3 DEF Reconfigure
  <2>5. host' \in BOOLEAN /\ failed' \in BOOLEAN
    BY <1>2 DEF Reconfigure, TypeOK
  <2> QED
    BY <2>2, <2>4, <2>5
<1> QED
  BY <1>1, <1>2

LEMMA InitTypes == Init => TypeOK
<1> SUFFICES ASSUME Init PROVE TypeOK
  OBVIOUS
<1>1. 0 \in Dbs /\ 0 \in Keys /\ 1 \in Keys /\ 0 \in 0 .. MaxOverrides
  BY DEF Dbs, Keys
<1>2. Stopped \in Runs
  BY <1>1 DEF Stopped, Runs
<1> QED
  BY <1>1, <1>2 DEF Init, TypeOK, Runs

LEMMA StepTypes == TypeOK /\ [Next]_vars => TypeOK'
<1> SUFFICES ASSUME TypeOK, [Next]_vars PROVE TypeOK'
  OBVIOUS
<1> USE DEF vars, dbVars, fileVars, serviceVars
<1>1. CASE Integrate \/ Connected \/ RemoveDatabase \/ Install \/ UNCHANGED vars
  BY <1>1 DEF TypeOK, Integrate, Connected, RemoveDatabase, Install
<1>2. CASE Separate
  <2>0. tracked \in Keys /\ 0 \in Keys /\ overlooked \in BOOLEAN
    BY DEF TypeOK, Keys
  <2>1. tracked' \in Keys /\ overlooked' \in BOOLEAN
    BY <1>2, <2>0 DEF Separate
  <2>2. joined' \in BOOLEAN /\ granted' \in BOOLEAN /\ host' \in BOOLEAN
    BY <1>2 DEF Separate
  <2>3. due' \subseteq {"ready", "database", "secret"}
    BY <1>2 DEF TypeOK, Separate
  <2>4. UNCHANGED <<key, dbVars, installed, jwt, storage, overrides, port, conf, using, failed>>
    BY <1>2 DEF Separate
  <2> QED
    BY <2>1, <2>2, <2>3, <2>4 DEF TypeOK
<1>3. ASSUME NEW kind \in Kinds, CreateDatabase(kind) PROVE TypeOK'
  <2>1. databases + 1 \in 1 .. MaxDb /\ databases + 1 \in Dbs
    BY <1>3 DEF TypeOK, CreateDatabase, Dbs
  <2>2. db' \in [id : 1 .. MaxDb, at : 1 .. MaxDb, kind : Kinds] /\ moved' = FALSE
    BY <1>3, <2>1 DEF CreateDatabase
  <2> QED
    BY <1>3, <2>1, <2>2 DEF TypeOK, CreateDatabase
<1>9. CASE MoveDatabase
  <2>1. databases + 1 \in 1 .. MaxDb /\ databases + 1 \in Dbs
    BY <1>9 DEF TypeOK, MoveDatabase, Dbs
  <2>2. db \in [id : 1 .. MaxDb, at : 1 .. MaxDb, kind : Kinds]
    BY <1>9 DEF TypeOK, MoveDatabase
  <2>3. db' \in [id : 1 .. MaxDb, at : 1 .. MaxDb, kind : Kinds]
    BY <1>9, <2>1, <2>2 DEF MoveDatabase
  <2>4. moved' \in BOOLEAN
    BY <1>9 DEF TypeOK, MoveDatabase
  <2> QED
    BY <1>9, <2>1, <2>3, <2>4 DEF TypeOK, MoveDatabase
<1>4. CASE RotateJwt \/ RestartController \/ StopController
  <2>1. key' \in [file : Keys, used : Keys, secret : Keys]
    <3>1. key \in [file : Keys, used : Keys, secret : Keys] /\ 0 \in Keys
      BY DEF TypeOK, Keys
    <3>2. key.file < MaxKey => key.file + 1 \in Keys
      BY <3>1 DEF Keys
    <3>3. CASE RotateJwt
      BY <3>1, <3>2, <3>3 DEF RotateJwt
    <3>4. CASE RestartController \/ StopController
      BY <3>1, <3>4 DEF RestartController, StopController
    <3> QED
      BY <1>4, <3>3, <3>4
  <2>2. due' \subseteq {"ready", "database", "secret"} /\ overlooked' \in BOOLEAN
    BY <1>4 DEF TypeOK, RotateJwt, NewRevision, RestartController, StopController
  <2> QED
    BY <1>4, <2>1, <2>2 DEF TypeOK, RotateJwt, RestartController, StopController
<1>5. ASSUME NEW o \in 0 .. MaxOverrides, ConfigChanged(o) PROVE TypeOK'
  <2>1. conf' \in Confs /\ using' \in Runs /\ host' \in BOOLEAN /\ failed' \in BOOLEAN
    BY <1>5, ReconfigureType DEF TypeOK, ConfigChanged
  <2> QED
    BY <1>5, <2>1 DEF TypeOK, ConfigChanged, Confs, Runs
<1>6. CASE Ready
  <2>1. /\ tracked' \in Keys /\ jwt' \in Keys
        /\ UNCHANGED <<overlooked, storage, overrides, port>>
    BY <1>6 DEF TypeOK, Ready, Read, JwtSet
  <2>2. conf' \in Confs /\ using' \in Runs /\ host' \in BOOLEAN /\ failed' \in BOOLEAN
    BY <1>6, <2>1, ReconfigureType DEF TypeOK, Ready, Read, JwtSet
  <2> QED
    BY <1>6, <2>1, <2>2 DEF TypeOK, Ready, Read, JwtSet, Confs, Runs
<1>7. CASE DatabaseCreated
  <2>1. db.id \in Dbs /\ db.at \in Dbs /\ 0 \in Dbs
    BY DEF TypeOK, Dbs, NoDb
  <2>2. storage' \in [user : Dbs, host : Dbs] /\ port' \in Dbs
    BY <1>7, <2>1 DEF DatabaseCreated
  <2>3. conf' \in Confs /\ using' \in Runs /\ host' \in BOOLEAN /\ failed' \in BOOLEAN
    BY <1>7, <2>2, ReconfigureType DEF TypeOK, DatabaseCreated
  <2> QED
    BY <1>7, <2>2, <2>3 DEF TypeOK, DatabaseCreated, Confs, Runs
<1>8. CASE SecretChanged
  <2>1. jwt' \in Keys /\ tracked' \in Keys /\ UNCHANGED <<conf, port>>
    BY <1>8 DEF TypeOK, SecretChanged, JwtSet
  <2>2. Started \in Runs /\ Stopped \in Runs
    BY <2>1 DEF TypeOK, Started, Stopped, Runs, Dbs, Keys
  <2>3. using' \in Runs
    BY <1>8, <2>2 DEF SecretChanged, JwtSet
  <2> QED
    BY <1>8, <2>1, <2>3 DEF TypeOK, SecretChanged, JwtSet, Runs
<1> QED
  BY <1>1, <1>2, <1>3, <1>4, <1>5, <1>6, <1>7, <1>8, <1>9 DEF Next

\* Whatever comes, goes or fails, the variables keep their types.
THEOREM TypeCorrect == Spec => []TypeOK
  BY InitTypes, StepTypes, PTL DEF Spec

----------------------------------------------------------------------------
(* Keys.                                                                   *)

\* The secret is never ahead of slurmctld's file, which slurmctld runs with if
\* they agree; slurmdbd has the key it has read, the secret's unless it is to be
\* told or had no access; and it has one once it has handled slurmctld_ready.
KeyFacts ==
  /\ key.secret # 0 /\ key.secret <= key.file
  /\ key.used # 0 /\ key.file = key.secret => key.used = key.secret
  /\ tracked # 0 => jwt = tracked
  /\ tracked # 0 /\ "secret" \notin due /\ ~overlooked => tracked = key.secret
  /\ granted /\ "ready" \notin due => tracked # 0

LEMMA StepKeys == TypeOK /\ KeyFacts /\ [Next]_vars => KeyFacts'
<1> SUFFICES ASSUME TypeOK, KeyFacts, [Next]_vars PROVE KeyFacts'
  OBVIOUS
<1> USE DEF KeyFacts, vars, dbVars, fileVars, serviceVars
<1>1. CASE \/ Integrate \/ Connected \/ RemoveDatabase \/ MoveDatabase \/ Install
           \/ UNCHANGED vars \/ Separate
  BY <1>1 DEF Integrate, Connected, RemoveDatabase, MoveDatabase, Install, Separate
<1>2. ASSUME NEW kind \in Kinds, CreateDatabase(kind) PROVE KeyFacts'
  BY <1>2 DEF CreateDatabase
<1>3. CASE RotateJwt
  <2>1. key.file \in Nat /\ key.secret \in Nat /\ key.used \in Nat
    BY DEF TypeOK, Keys
  <2>2. \/ /\ key'.file = key.file + 1 /\ key'.secret = key.file + 1
           /\ key'.used = 0 \/ key'.used = key.file + 1
           /\ NewRevision
        \/ /\ key'.file = key.file + 1 /\ key'.secret = key.secret
           /\ UNCHANGED <<due, overlooked>>
    <3>1. key \in [file : Keys, used : Keys, secret : Keys]
      BY DEF TypeOK
    <3> QED
      BY <1>3, <3>1 DEF RotateJwt
  <2>3. UNCHANGED <<tracked, jwt, granted>>
    BY <1>3 DEF RotateJwt
  <2>4. "ready" \notin due' => "ready" \notin due
    BY <2>2 DEF NewRevision
  <2>5. CASE /\ key'.secret = key.secret /\ key'.file = key.file + 1
             /\ UNCHANGED <<due, overlooked>>
    BY <2>1, <2>3, <2>5
  <2>6. CASE /\ key'.secret = key.file + 1 /\ key'.file = key.file + 1
             /\ key'.used = 0 \/ key'.used = key.file + 1
             /\ NewRevision
    BY <2>1, <2>3, <2>4, <2>6 DEF NewRevision
  <2> QED
    BY <2>2, <2>5, <2>6
<1>4. CASE RestartController \/ StopController
  BY <1>4 DEF TypeOK, RestartController, StopController
<1>5. ASSUME NEW o \in 0 .. MaxOverrides, ConfigChanged(o) PROVE KeyFacts'
  BY <1>5 DEF ConfigChanged
<1>6. CASE Ready
  BY <1>6 DEF Ready, Read, JwtSet, Handles
<1>7. CASE DatabaseCreated
  BY <1>7 DEF DatabaseCreated, Handles
<1>8. CASE SecretChanged
  BY <1>8 DEF SecretChanged, JwtSet, Handles
<1> QED
  BY <1>1, <1>2, <1>3, <1>4, <1>5, <1>6, <1>7, <1>8 DEF Next

----------------------------------------------------------------------------
(* What is in force.                                                       *)

\* Everything slurmdbd has to handle about its two integrations is handled.
Handled == granted /\ db # NoDb /\ due \cap {"ready", "database"} = {} /\ ~failed

\* The storage file and the environment are those of the database whose event was
\* handled; slurmdbd.conf has what the included files have, and a running service
\* was started with it, as soon as everything is handled.
StoredFacts ==
  db # NoDb /\ "database" \notin due =>
    /\ storage.user = db.id
    /\ ~moved /\ db.kind = "tcp" => storage.host = db.at /\ port = 0
    /\ ~moved /\ db.kind = "socket" => port = db.at

ForceFacts ==
  Handled =>
    /\ conf.user = storage.user \/ storage.user = 0
    /\ storage.host # 0 => conf.host = storage.host
    /\ overrides # 0 => conf.over = overrides
    /\ using.on =>
         /\ using.user = conf.user /\ using.host = conf.host /\ using.over = conf.over
         /\ using.port = port /\ using.jwt = jwt

\* After a _reconfigure of a handler that leaves everything handled.
LEMMA Reconfigured ==
  ASSUME Reconfigure, Handled', jwt' # 0, UNCHANGED <<granted, db>>
  PROVE  ForceFacts'
<1>1. CanServe
  BY DEF CanServe, Handled
<1>2. conf' = Merged /\ using' = Started
  BY <1>1 DEF Reconfigure, Handled
<1> QED
  BY <1>2 DEF ForceFacts, Merged, Started

LEMMA StepForce ==
  TypeOK /\ KeyFacts /\ StoredFacts /\ ForceFacts /\ [Next]_vars => StoredFacts' /\ ForceFacts'
<1> SUFFICES ASSUME TypeOK, KeyFacts, StoredFacts, ForceFacts, [Next]_vars
             PROVE  StoredFacts' /\ ForceFacts'
  OBVIOUS
<1> USE DEF StoredFacts, ForceFacts, Handled, vars, dbVars, fileVars, serviceVars
<1>1. CASE Elsewhere \/ Separate \/ UNCHANGED vars
  <2>1. CASE Integrate \/ Connected \/ Install \/ Separate \/ RemoveDatabase \/ UNCHANGED vars
    BY <2>1 DEF Integrate, Connected, Install, Separate, RemoveDatabase
  <2>2. ASSUME NEW kind \in Kinds, CreateDatabase(kind) PROVE StoredFacts' /\ ForceFacts'
    BY <2>2 DEF CreateDatabase
  <2>3. CASE RotateJwt \/ RestartController \/ StopController
    BY <2>3 DEF RotateJwt, NewRevision, RestartController, StopController
  <2>4. CASE MoveDatabase
    <3>1. /\ db'.id = db.id /\ db'.kind = db.kind /\ db # NoDb
          /\ "database" \notin due => moved'
      BY <2>4 DEF MoveDatabase, TypeOK
    <3>2. UNCHANGED <<granted, due, storage, overrides, port, conf, using, failed, jwt>>
      BY <2>4 DEF MoveDatabase
    <3> QED
      BY <3>1, <3>2
  <2> QED
    BY <1>1, <2>1, <2>2, <2>3, <2>4 DEF Elsewhere
<1>2. ASSUME NEW o \in 0 .. MaxOverrides, ConfigChanged(o) PROVE StoredFacts' /\ ForceFacts'
  <2>1. /\ Reconfigure /\ UNCHANGED <<granted, dbVars, due, storage, port, tracked, jwt>>
    BY <1>2 DEF ConfigChanged
  <2>2. CASE Handled'
    <3>1. jwt' # 0
      BY <2>1, <2>2 DEF KeyFacts
    <3> QED
      BY <2>1, <2>2, <3>1, Reconfigured
  <2> QED
    BY <2>1, <2>2
<1>3. CASE Ready
  <2>1. /\ Reconfigure /\ UNCHANGED <<granted, dbVars, storage, port>>
        /\ jwt' # 0 /\ due' = due \ {"ready"}
    BY <1>3 DEF Ready, Read, JwtSet, KeyFacts
  <2>2. CASE Handled'
    BY <2>1, <2>2, Reconfigured
  <2> QED
    BY <2>1, <2>2
<1>4. CASE DatabaseCreated
  <2>1. /\ Reconfigure /\ UNCHANGED <<granted, db, tracked, jwt>>
        /\ storage'.user = db.id
        /\ db.kind = "tcp" => storage'.host = db.at /\ port' = 0
        /\ db.kind = "socket" => port' = db.at
        /\ UNCHANGED moved
        /\ due' = due \ {"database"}
    BY <1>4 DEF DatabaseCreated
  <2>2. CASE Handled'
    <3>1. jwt' # 0
      BY <2>1, <2>2 DEF KeyFacts
    <3> QED
      BY <2>1, <2>2, <3>1, Reconfigured
  <2> QED
    BY <2>1, <2>2
<1>5. CASE SecretChanged
  <2>1. /\ UNCHANGED <<granted, dbVars, storage, overrides, port, conf, failed>>
        /\ "ready" \in due' <=> "ready" \in due
        /\ "database" \in due' <=> "database" \in due
        /\ using' = Started \/ using' = Stopped
    BY <1>5 DEF SecretChanged, JwtSet
  <2> QED
    BY <2>1 DEF Started, Stopped
<1> QED
  BY <1>1, <1>2, <1>3, <1>4, <1>5 DEF Next, Elsewhere

LEMMA Reachable == Spec => [](TypeOK /\ KeyFacts /\ StoredFacts /\ ForceFacts)
<1>1. Init => KeyFacts /\ StoredFacts /\ ForceFacts
  BY DEF Init, KeyFacts, StoredFacts, ForceFacts, Handled
<1> QED
  BY <1>1, InitTypes, StepTypes, StepKeys, StepForce, PTL DEF Spec

\* The database created last and the overrides set last are in force, in whichever
\* order the two integrations and the configuration came and changed, except for the
\* endpoint of a database that is moved after its event.
THEOREM NewestIsInForce == Spec => []NewestInForce
<1>1. TypeOK /\ StoredFacts /\ ForceFacts => NewestInForce
  <2> SUFFICES ASSUME TypeOK, StoredFacts, ForceFacts, Settled PROVE
        /\ using.user = db.id
        /\ ~moved /\ db.kind = "tcp" => using.host = db.at /\ using.port = 0
        /\ ~moved /\ db.kind = "socket" => using.port = db.at
        /\ overrides # 0 => using.over = overrides
    BY DEF NewestInForce
  <2>1. Handled /\ using.on /\ "database" \notin due /\ db # NoDb
    BY DEF Settled, Handled
  <2>2. db.id # 0 /\ db.at # 0
    BY <2>1 DEF TypeOK
  <2> QED
    BY <2>1, <2>2 DEF StoredFacts, ForceFacts
<1> QED
  BY <1>1, Reachable, PTL

\* slurmdbd checks tokens with the key slurmctld signs them with, unless it still
\* has something to handle, was not told while it had no access, or a rotation
\* failed halfway.
THEOREM KeysDoAgree == Spec => []KeysAgree
<1>1. KeyFacts /\ ForceFacts => KeysAgree
  BY DEF KeyFacts, ForceFacts, KeysAgree, Settled, Handled
<1> QED
  BY <1>1, Reachable, PTL

\* Publishing the host takes the present database's storage, but for the time
\* between the creation of the database and its event.
THEOREM PublicationHasStorage == Spec => PublishedHasStorage
<1>1. TypeOK /\ KeyFacts /\ StoredFacts /\ [Next]_vars =>
        [~host /\ host' => db # NoDb /\ (conf'.user = db.id \/ "database" \in due)]_vars
  <2> SUFFICES ASSUME TypeOK, KeyFacts, StoredFacts, [Next]_vars, ~host, host'
               PROVE  db # NoDb /\ (conf'.user = db.id \/ "database" \in due)
    OBVIOUS
  <2> USE DEF vars, dbVars, fileVars, serviceVars
  <2>1. Reconfigure /\ (UNCHANGED storage \/ "database" \in due)
    BY DEF Next, Integrate, Connected, Separate, RemoveDatabase, MoveDatabase, CreateDatabase, RotateJwt,
           RestartController, StopController, Install, Ready, DatabaseCreated, SecretChanged,
           ConfigChanged, Handles
  <2>2. CanServe /\ conf' = Merged
    BY <2>1 DEF Reconfigure
  <2>3. db # NoDb
    BY <2>2 DEF CanServe
  <2>4. db.id # 0
    BY <2>3 DEF TypeOK
  <2> QED
    BY <2>1, <2>2, <2>3, <2>4 DEF Merged, StoredFacts
<1> QED
  BY <1>1, Reachable, PTL DEF Spec, PublishedHasStorage
=============================================================================
