-------------------------- MODULE AccountingDaemon --------------------------
(***************************************************************************)
(* slurmdbd between its two integrations.  slurmctld grants it the keys, a *)
(* MySQL charm creates its database, and in whichever order they come, go  *)
(* and change, _reconfigure starts the service once both are there and     *)
(* tells slurmctld the host.  slurmdbd.conf is put together from included  *)
(* files that only ever add to it.  The leader of slurmctld rotates the    *)
(* JWT key that both daemons share.                                        *)
(*                                                                         *)
(* Only the leader of slurmdbd serves; another unit is never installed.    *)
(* Databases, overrides and keys are numbered, 0 stands for none; a place  *)
(* where a database can be reached has the number of the database that was *)
(* created there, or a fresh one if the database was moved.                *)
(***************************************************************************)
EXTENDS Naturals

CONSTANTS
  Kinds,         \* kinds of endpoints looked at, of "tcp" and "socket"
  MaxDb,         \* bound on the databases and the moves
  MaxOverrides,  \* bound on the values of slurmdbd-conf-parameters
  MaxKey,        \* bound on the JWT keys
  Faults         \* what may go wrong, a subset of FaultKinds

FaultKinds ==
  { "service",   \* systemd fails on slurmdbd
    "restart",   \* slurmctld does not restart in _reconfigure
    "scontrol",  \* scontrol reconfigure fails in _reconfigure
    "reboot" }   \* slurmctld is stopped for a while

ASSUME KindsKnown  == Kinds \subseteq {"tcp", "socket"}
ASSUME BoundsNat   == MaxDb \in Nat /\ MaxOverrides \in Nat /\ MaxKey \in Nat \ {0}
ASSUME FaultsKnown == Faults \subseteq FaultKinds

VARIABLES
  key,        \* slurmctld: [file, used, secret], the JWT key in its file, the one
              \* it runs with (0 if stopped), and the content of the Juju secret
  joined,     \* slurmctld and slurmdbd are integrated
  granted,    \* ... and the bag has the secrets' ids, and access to them
  db,         \* the database on offer: [id, at, kind], its credentials and endpoint
  databases,  \* how often one was created or moved
  moved,      \* it was moved after slurmdbd had looked at its endpoint
  installed,  \* slurmdbd is installed
  due,        \* events due on slurmdbd
  tracked,    \* revision of the JWT secret that slurmdbd has read
  overlooked, \* a later revision of which it was not told, having no access
  jwt,        \* its JWT key file
  storage,    \* slurmdbd.conf.storage: [user, host]
  overrides,  \* slurmdbd.conf.overrides
  port,       \* MYSQL_UNIX_PORT in its environment file
  conf,       \* slurmdbd.conf: [user, host, over]
  using,      \* what the running service was started with
  host,       \* its host is published to slurmctld
  failed      \* the last _reconfigure failed

dbVars == <<db, databases, moved>>
fileVars == <<tracked, overlooked, jwt, storage, overrides, port>>
serviceVars == <<conf, using, host, failed>>
vars == <<key, joined, granted, dbVars, installed, due, fileVars, serviceVars>>

NoDb == [id |-> 0, at |-> 0, kind |-> "none"]
Stopped == [user |-> 0, host |-> 0, over |-> 0, port |-> 0, jwt |-> 0, on |-> FALSE]

Dbs == 0 .. MaxDb
Keys == 0 .. MaxKey

TypeOK ==
  /\ key \in [file : Keys, used : Keys, secret : Keys]
  /\ joined \in BOOLEAN /\ granted \in BOOLEAN
  /\ db \in [id : 1 .. MaxDb, at : 1 .. MaxDb, kind : Kinds] \cup {NoDb}
  /\ databases \in Dbs /\ moved \in BOOLEAN /\ overlooked \in BOOLEAN
  /\ installed \in BOOLEAN /\ due \subseteq {"ready", "database", "secret"}
  /\ tracked \in Keys /\ jwt \in Keys
  /\ storage \in [user : Dbs, host : Dbs]
  /\ overrides \in 0 .. MaxOverrides /\ port \in Dbs
  /\ conf \in [user : Dbs, host : Dbs, over : 0 .. MaxOverrides]
  /\ using \in [user : Dbs, host : Dbs, over : 0 .. MaxOverrides,
                port : Dbs, jwt : Keys, on : BOOLEAN]
  /\ host \in BOOLEAN /\ failed \in BOOLEAN

\* slurmctld runs with the first key, which its leader has put into the secret.
Init ==
  /\ key = [file |-> 1, used |-> 1, secret |-> 1]
  /\ joined = FALSE /\ granted = FALSE
  /\ db = NoDb /\ databases = 0 /\ moved = FALSE /\ overlooked = FALSE
  /\ installed = FALSE /\ due = {} /\ tracked = 0 /\ jwt = 0
  /\ storage = [user |-> 0, host |-> 0] /\ overrides = 0 /\ port = 0
  /\ conf = [user |-> 0, host |-> 0, over |-> 0]
  /\ using = Stopped /\ host = FALSE /\ failed = FALSE

(***************************************************************************)
(* Juju, MySQL and slurmctld.  A definition named ...Bug is a faulty       *)
(* variant of the one after it, kept to show which property notices it.    *)
(***************************************************************************)
Integrate ==
  /\ ~joined
  /\ joined' = TRUE
  /\ UNCHANGED <<key, granted, dbVars, installed, due, fileVars, serviceVars>>

\* slurmdbd_connected on the leader of slurmctld: grant both secrets.
Connected ==
  /\ joined /\ ~granted
  /\ granted' = TRUE
  /\ due' = due \cup {"ready"}
  /\ UNCHANGED <<key, joined, dbVars, installed, fileVars, serviceVars>>

\* Nothing handles the end of the integration on slurmdbd, which runs on.  Its
\* access to the secrets ends, and so does the host's publication.  Juju may keep
\* or forget which revision it has read.
Separate ==
  /\ joined
  /\ joined' = FALSE /\ granted' = FALSE /\ host' = FALSE
  /\ \/ tracked' = 0 /\ overlooked' = FALSE
     \/ UNCHANGED <<tracked, overlooked>>
  /\ due' = due \ {"ready"}
  /\ UNCHANGED <<key, dbVars, installed, jwt, storage, overrides, port, conf, using, failed>>

\* The MySQL charm creates a database.
CreateDatabase(kind) ==
  /\ db = NoDb
  /\ databases < MaxDb
  /\ databases' = databases + 1
  /\ db' = [id |-> databases + 1, at |-> databases + 1, kind |-> kind]
  /\ moved' = FALSE
  /\ due' = due \cup {"database"}
  /\ UNCHANGED <<key, joined, granted, installed, fileVars, serviceVars>>

\* It moves the database to another endpoint, of which DatabaseRequires tells by an
\* event that slurmdbd does not observe.
MoveDatabase ==
  /\ db # NoDb
  /\ databases < MaxDb
  /\ databases' = databases + 1
  /\ db' = [id |-> db.id, at |-> databases + 1, kind |-> db.kind]
  /\ moved' = (moved \/ "database" \notin due)
  /\ UNCHANGED <<key, joined, granted, installed, due, fileVars, serviceVars>>

\* Nothing handles this either.
RemoveDatabase ==
  /\ db # NoDb
  /\ db' = NoDb /\ moved' = FALSE
  /\ due' = due \ {"database"}
  /\ UNCHANGED <<key, joined, granted, databases, installed, fileVars, serviceVars>>

\* A new revision of the secret: a unit that has read an earlier one is told, unless
\* it has no access now, when it may be or not.
NewRevision ==
  \/ /\ due' = IF tracked # 0 THEN due \cup {"secret"} ELSE due
     /\ UNCHANGED overlooked
  \/ /\ tracked # 0 /\ ~granted
     /\ overlooked' = TRUE /\ UNCHANGED due

\* rotate-jwt-key: write the file, _reconfigure, set the secret's content.  The rest
\* is skipped when _reconfigure fails, before or after slurmctld took the new key;
\* it does nothing on a stopped one.
RotateJwt ==
  /\ key.file < MaxKey
  /\ LET new == key.file + 1 IN
       \/ /\ key' = [file |-> new, secret |-> new,
                     used |-> IF key.used = 0 THEN 0 ELSE new]
          /\ NewRevision
       \/ /\ "restart" \in Faults /\ key.used # 0
          /\ \E used \in {0, key.used} : key' = [file |-> new, secret |-> key.secret, used |-> used]
          /\ UNCHANGED <<due, overlooked>>
       \/ /\ "scontrol" \in Faults /\ key.used # 0
          /\ key' = [file |-> new, secret |-> key.secret, used |-> new]
          /\ UNCHANGED <<due, overlooked>>
  /\ UNCHANGED <<joined, granted, dbVars, installed, tracked, jwt, storage, overrides, port,
                 serviceVars>>

\* slurmctld is started, or restarted by any other _reconfigure: it reads the file.
RestartController ==
  /\ key' = [key EXCEPT !.used = key.file]
  /\ UNCHANGED <<joined, granted, dbVars, installed, due, fileVars, serviceVars>>

StopController ==
  /\ "reboot" \in Faults
  /\ key' = [key EXCEPT !.used = 0]
  /\ UNCHANGED <<joined, granted, dbVars, installed, due, fileVars, serviceVars>>

(***************************************************************************)
(* slurmdbd                                                                *)
(***************************************************************************)

\* install leaves the service stopped and disabled.  A failure is deferred.
Install ==
  /\ ~installed
  /\ installed' = TRUE
  /\ UNCHANGED <<key, joined, granted, dbVars, due, fileVars, serviceVars>>

Handles(event) == installed /\ event \in due

\* get_controller_data: get_content gives the revision that was read before, the
\* newest one the first time.
Read ==
  /\ tracked' = IF tracked = 0 THEN key.secret ELSE tracked
  /\ UNCHANGED overlooked

\* The JWT key file is replaced by the content that was read.
JwtSet == jwt' = tracked'

\* slurmdbd_ready, after the handler has written its files: is_resource_created
\* sees the credentials, whether or not database_created was handled.
\* Variant: it does not ask for the database.
CanServeBug == granted /\ jwt' # 0
CanServe == granted /\ db # NoDb /\ jwt' # 0

\* SlurmConfigManager.merge: an option of an included file replaces the one in
\* slurmdbd.conf; an option that is in none of them any more stays.
Merged ==
  [user |-> IF storage'.user # 0 THEN storage'.user ELSE conf.user,
   host |-> IF storage'.host # 0 THEN storage'.host ELSE conf.host,
   over |-> IF overrides' # 0 THEN overrides' ELSE conf.over]

Started ==
  [user |-> conf'.user, host |-> conf'.host, over |-> conf'.over,
   port |-> port', jwt |-> jwt', on |-> TRUE]

\* _reconfigure: merge, enable, restart, publish.  If systemd fails nothing is
\* published, and no caller defers its event.
Reconfigure ==
  \/ /\ ~CanServe
     /\ UNCHANGED serviceVars
  \/ /\ CanServe
     /\ conf' = Merged
     /\ \/ using' = Started /\ host' = TRUE /\ failed' = FALSE
        \/ /\ "service" \in Faults
           /\ using' \in {using, Stopped} /\ failed' = TRUE /\ UNCHANGED host

\* config_changed.
ConfigChanged(o) ==
  /\ installed /\ o # overrides
  /\ overrides' = o
  /\ UNCHANGED <<tracked, overlooked, jwt, storage, port>>
  /\ Reconfigure
  /\ UNCHANGED <<key, joined, granted, dbVars, installed, due>>

\* slurmctld_ready.
Ready ==
  /\ Handles("ready") /\ granted
  /\ Read /\ JwtSet
  /\ UNCHANGED <<storage, overrides, port>>
  /\ Reconfigure
  /\ due' = due \ {"ready"}
  /\ UNCHANGED <<key, joined, granted, dbVars, installed>>

\* database_created.  slurmdbd.conf.storage is written anew, with a host for TCP
\* endpoints only; a socket goes to the environment file, from which TCP endpoints
\* remove it.  Variants: they do not; or the service is not reconfigured.
DatabaseCreatedBug ==
  /\ Handles("database")
  /\ storage' = [user |-> db.id, host |-> IF db.kind = "tcp" THEN db.at ELSE 0]
  /\ port' = IF db.kind = "tcp" THEN port ELSE db.at
  /\ UNCHANGED <<tracked, overlooked, jwt, overrides>>
  /\ Reconfigure
  /\ due' = due \ {"database"}
  /\ UNCHANGED <<key, joined, granted, dbVars, installed>>
DatabaseCreatedBug2 ==
  /\ Handles("database")
  /\ storage' = [user |-> db.id, host |-> IF db.kind = "tcp" THEN db.at ELSE 0]
  /\ port' = IF db.kind = "tcp" THEN 0 ELSE db.at
  /\ UNCHANGED <<tracked, overlooked, jwt, overrides, serviceVars>>
  /\ due' = due \ {"database"}
  /\ UNCHANGED <<key, joined, granted, dbVars, installed>>
DatabaseCreated ==
  /\ Handles("database")
  /\ storage' = [user |-> db.id, host |-> IF db.kind = "tcp" THEN db.at ELSE 0]
  /\ port' = IF db.kind = "tcp" THEN 0 ELSE db.at
  /\ UNCHANGED <<tracked, overlooked, jwt, overrides>>
  /\ Reconfigure
  /\ due' = due \ {"database"}
  /\ UNCHANGED <<key, joined, granted, dbVars, installed>>

\* secret_changed: the file is replaced and the service is restarted, stopped or
\* not, with slurmdbd.conf as it is.  If systemd fails the hook is repeated.
\* Variant: a reload, which does not read the key file (charm.py:177).
SecretChangedBug ==
  /\ Handles("secret") /\ granted
  /\ tracked' = key.secret /\ overlooked' = FALSE /\ JwtSet
  /\ due' = due \ {"secret"}
  /\ UNCHANGED <<storage, overrides, port, conf, using, host, failed>>
  /\ UNCHANGED <<key, joined, granted, dbVars, installed>>
SecretChanged ==
  /\ Handles("secret") /\ granted
  /\ tracked' = key.secret /\ overlooked' = FALSE /\ JwtSet
  /\ UNCHANGED <<storage, overrides, port, conf, host, failed>>
  /\ \/ using' = Started /\ due' = due \ {"secret"}
     \/ "service" \in Faults /\ using' = Stopped /\ UNCHANGED due
  /\ UNCHANGED <<key, joined, granted, dbVars, installed>>

Next ==
  \/ Integrate \/ Connected \/ Separate
  \/ RemoveDatabase \/ MoveDatabase \/ (\E kind \in Kinds : CreateDatabase(kind))
  \/ RotateJwt \/ RestartController \/ StopController
  \/ Install \/ Ready \/ DatabaseCreated \/ SecretChanged
  \/ \E o \in 0 .. MaxOverrides : ConfigChanged(o)

Spec == Init /\ [][Next]_vars

\* Hooks are run as long as there is something to do.
Fairness ==
  /\ WF_vars(Install) /\ WF_vars(Connected)
  /\ SF_vars(Ready) /\ SF_vars(DatabaseCreated)

FairSpec == Spec /\ Fairness

(***************************************************************************)
(* Properties                                                              *)
(***************************************************************************)
Settled ==
  using.on /\ granted /\ db # NoDb /\ due \cap {"ready", "database"} = {} /\ ~failed

\* A running slurmdbd with nothing left to handle has the credentials and the
\* endpoint of the database that was created last and the overrides set last, in
\* whichever order the integrations and the configuration came and changed, also
\* while one of them was missing.  Only these are left behind: the endpoint of a
\* database that is moved later, which nothing observes (charm.py:74); a host by TCP
\* endpoints when a socket follows, and an override that is removed (config.py:190).
NewestInForce ==
  Settled =>
    /\ using.user = db.id
    /\ ~moved /\ db.kind = "tcp" => using.host = db.at /\ using.port = 0
    /\ ~moved /\ db.kind = "socket" => using.port = db.at
    /\ overrides # 0 => using.over = overrides

\* slurmdbd checks tokens with the key slurmctld signs them with, unless it still
\* has to handle an event, or a rotation failed halfway (charm.py:988): the file
\* then has a key that the secret has not; or it was not told of a rotation while
\* it had no access, and reads the revision it knows (get_content does not refresh).
KeysAgree ==
  Settled /\ "secret" \notin due /\ ~overlooked /\ key.used # 0 /\ key.file = key.secret =>
    using.jwt = key.used

\* slurmctld is told of a slurmdbd that is not configured for the present database
\* only in the time between that database's creation and its event.
PublishedHasStorage ==
  [][~host /\ host' => db # NoDb /\ (conf'.user = db.id \/ "database" \in due)]_vars

\* slurmdbd that has both integrations gets to publish its host, unless systemd
\* failed, after which nothing tries again.
Published ==
  (joined /\ db # NoDb) ~> (host \/ failed \/ ~joined \/ db = NoDb)
=============================================================================
