# Verification of the Slurm charms

This directory holds TLA+ models of the Slurm charms of this repository: Juju operators that deploy and run a Slurm
cluster (`slurmctld`, `slurmd`, `slurmdbd`, `slurmrestd`, `sackd`). The models cover the parts whose correctness
depends on the order in which hooks, Juju and Slurm act on several machines. TLC checks them on small instances, and
TLAPS proves the main safety properties for every value of the constants.

Paths below are relative to `src/`.

## 1. The system

### How it runs

Each charm is a set of event handlers. Juju dispatches one *hook* at a time on each unit, hooks of different units
run concurrently. At the start of every dispatch the `ops` framework re-emits the events that earlier handlers
*deferred*. What a hook writes to relation data bags and secrets becomes visible when the hook commits; what it writes
to files, and commands such as `systemctl restart`, act at once. Juju runs a failed event hook again, and never
repeats an action. One unit of each application is the *leader*, only it may write application data, and Juju may
choose another at any time.

### Components

| Component | Source | State | Operations | Module |
|---|---|---|---|---|
| Authentication key rotation | `charms/slurmctld/src/charm.py` 692-733, `internal/slurm-ops/src/slurm_ops/core/base.py`, secret handlers of the four other charms | `slurm.jwks` on each machine, the Juju secret and who tracks which revision, keys loaded by running daemons | rotate-auth-key action, secret-changed, secret-remove, slurmctld-ready | `AuthKeyRotation`, `RotationPromise` |
| Controller membership | `charms/slurmctld/src/integrations.py`, `charm.py` 242-422 and 877-975, `state.py` | peer data bags, `SlurmctldHost` list, restart nonces, deferred events, cluster name, published endpoints | peer created/joined/changed/departed, leader-elected, start, config-changed | `ControllerPeers`, `FailoverContract` |
| Partition configuration | `charm.py` 424-518 and 324-377, `slurm_ops/slurmctld.py` | include files `slurm.conf.<partition>`, include lines, default partition | slurmd-ready, slurmd-disconnected, config-changed | `PartitionConfig` |
| High availability migration | `charms/slurmctld/src/high_availability.py` | `/etc/slurm`, StateSaveLocation and links to shared storage | mounted-filesystem: migration of both directories | `HAMigration` |
| Accounting and profiling configuration | `charm.py` 535-667, `interface_influxdb.py`, `config.py`, `slurmdbd-interface` | accounting and profiling include files, `acct_gather.conf` and its snapshot, the InfluxDB user, deferred offers | InfluxDB joined/broken, influxdb-available, slurmdbd-ready/disconnected | `ProfilingConfig` |
| Compute nodes | `charms/slurmd/src/charm.py`, `slurm_ops/slurmd.py`, `charms/slurmctld/src/charm.py` 174-241 and 469-518 | slurmd's options, its service, the node in Slurm and its state | install, slurmctld-ready and -disconnected, set-node-config, set-node-state, departure | `ComputeNodes` |
| slurmrestd and sackd | `charms/slurmrestd/src`, `charms/sackd/src`, `pkg/slurmctld-interface`, `charm.py` 520-533 and 669-690 | the integration's data bag, the client's files and service | connected, change of the configuration, slurmctld-ready, -disconnected, secret-changed | `ControllerClients`, `ServiceContract` |
| Accounting daemon | `charms/slurmdbd/src`, `slurm_ops/slurmdbd.py` | `slurmdbd.conf` and its include files, the environment file, the service, the published host | slurmctld-ready, database-created, config-changed, secret-changed | `AccountingDaemon` |
| JWT key | `charm.py` 735-773, `slurm_ops/core/base.py` | `jwt_hs256.key` on controllers and slurmdbd, its Juju secret | rotate-jwt-key, slurmctld-ready and secret-changed of slurmdbd | `AccountingDaemon` |
| Job mail | `charms/slurmctld/src/mail.py`, `charm.py` 299-332 and 775-875 | package and `slurm-mail.conf` of each unit, the mail program in `slurm.conf` | smtp created, data available and broken, config-changed | `JobMail` |
| Integration data bags | `pkg/slurmctld-interface`, `internal/*-interface` | application data of each integration | set and get of controller and node data | with their users |
| Service option files | `slurm_ops/core/options.py` | `/etc/default/<service>` | read, edit, write | not modelled: text; the options themselves are state of `ComputeNodes` |
| OCI runtime | `slurm-oci-runtime-interface` | one file | create, remove | not modelled: one file, one leader |
| GPU, RDMA, repository tool, Terraform | `gpu.py`, `rdma.py`, `repository.py`, `terraform/` | none that is shared | hardware detection, builds, deployment plans | not modelled: pure I/O |

### How they interact

* The slurmctld leader owns the secret with the authentication key. Every other unit *observes* it. A consumer moves
  to a new revision by `get_content(refresh=True)`. Juju tells the owner that a revision is unused by secret-remove.
* Controllers share one mounted `/etc/slurm`. Any `_reconfigure` on the leader writes a fresh `restart_signal` nonce
  to the application data bag of the peer relation. The others notice a nonce that differs from their stored one in
  `relation-changed`, store it and emit `start`, which restarts their service with the file.
* Rotation and membership meet in `_reconfigure`: both restart the leader and signal the others.
  `AuthKeyRotation` represents the signal by the set `restartDue`; `ControllerPeers` models how it is delivered.
* slurmd applications hand partition data to the slurmctld leader, which writes include files and answers with the
  endpoints of the controllers. The same answer goes to sackd.
* `_reconfigure` is also the last step of the accounting, profiling, mail and configuration handlers. On its way it
  publishes the configuration files to slurmrestd; `_refresh_controllers` publishes the controllers to sackd and slurmd.
* slurmd registers its node with slurmctld by itself, some time after its start. Three handlers then talk to the same
  record through `scontrol`: slurmctld-ready and set-node-config on the unit, set-node-state and the departure on the
  slurmctld leader. slurmctld, restarted by every change of its configuration, does not always answer.
* slurmdbd waits for two integrations, slurmctld and MySQL, and publishes its host when it has both. Profiling,
  slurmrestd and job mail in turn wait for that host (`database_ready`).
* Job mail is set up on every unit of slurmctld, the one line in the shared `slurm.conf` by the leader alone.

### What is hard here

1. A handler reads state at one moment and acts on it at another: the tracked revision moves before the file is
   written; a peer event is deferred and handled when the unit leads no more; `keep_latest_key` never asks which
   revision became obsolete.
2. One event carries two meanings: `relation-changed` reports both a joining unit and a restart nonce.
3. Failures between the steps of a hook: `StopCharm` after the file was written, an agent that dies, an inactive
   service that makes `_reconfigure` return silently.
4. Sets without order feed a list whose order matters: `SlurmctldHost` is the failover order.
5. Counts that change without an event: `planned_units` is compared with the peers seen so far.
6. One failing command stands for several causes: `SlurmdManager.exists` takes a slurmctld that does not answer for a
   node that does not exist.
7. One data bag is written by several handlers, some of which overwrite and some of which merge, and each may be
   deferred, fail or be overtaken by a change of leadership.
8. Nothing undoes: include files are only merged *into* `slurmdbd.conf`, integrations that end are not handled by
   slurmdbd, and a deferred `install` stops the service a later event has started.
9. Convergence: every consumer must end with the newest key, every controller with the last host list, every client
   with the newest version.

`PROJECT.json` lists each hazard at its line with the properties that would notice it going wrong, or the reason why
none does yet.

### What makes each component correct

* *Key rotation*: no running client is locked out for good, and none at all if rotations do not overlap; a failed
  write or reload is never forgotten; the key a new client would read is accepted; a dropped key is no longer accepted
  anywhere; a rotation ends.
* *Membership*: `slurm.conf` ends up naming exactly the units there are; it never loses a unit that stays nor changes
  the failover order; no two running controllers disagree on that order; every controller is restarted with the last list; no hook stops a
  controller that stays.
* *Partitions*: every included file exists at every moment; a removed partition leaves nothing behind; the wanted
  default is a default; a connected partition is served.
* *Migration*: slurmctld finds every accepted job where it runs, the only copy of a job is never erased, the location
  switches only to a complete copy, and a migration that nothing fails in ends with every controller linked and running.
* *Profiling*: slurmctld never has the profiling plugin without accounting or without `acct_gather.conf`; the newest
  password is the one in use and the one InfluxDB knows; profiling comes back with slurmdbd.
* *Compute nodes*: a node has the base state and the description it should have after any sequence of restarts and
  actions, and is held back from jobs as long as the administrator wants, except by set-node-config;
  a unit that has left is not known to Slurm; one that is integrated gets into Slurm.
* *Clients*: a client with nothing left to handle runs with what is published or not at all; what is published is the
  newest version unless the update failed or came from a demoted leader; a client that is integrated is served.
* *Accounting daemon*: in whichever order its integrations come, it runs with the database created last, the newest overrides
  and the JWT key of slurmctld, and slurmctld is told of it only if it has a database.
* *Job mail*: `slurm.conf` names the mail program exactly while there is a server, and every unit sends with the newest
  server and name.

## 2. The models

### `AuthKeyRotation` and `RotationPromise`

One key is a number, in the order of generation; a secret revision is a position of `published`. The leader's hook is
split where another unit can see the difference: write of `slurm.jwks` (`RotateApply`, `KeepLatestKey`), restart of the
local service (`Reconfigure`, with the failures `RestartFails` and `ScontrolFails`), commit (`RotateCommit`,
`RemoveCommit`, `PublishFails`); `HookDies` is the agent's death in between. The consumer's secret-changed handler is
split the same way into `SecretRefresh`, `SecretWrite` and `SecretReload`, and `SecretChangedFails` is its failure
at any of these points. `ControllerReady` is slurmctld-ready, and `Disconnect` is slurmctld-disconnected.

The Juju secret is external to this repository and is modelled from its use: a revision is *obsolete* once a newer one
exists and no observer tracks it, and the owner is told once (`Announce`). A new leader may be told again.

`Faults` selects what may go wrong, and `OperatorWaits` says whether an operator starts a rotation while another is
under way.

`RotationPromise` is what consumers may rely on: the controllers accept a set of keys and offer one of them; a consumer
uses an offered key or does not run, and `told` are the consumers with something to handle. A new key is offered only
when it is accepted, and then every consumer in service is told; the key on offer is never retired; a consumer settles
only on the key on offer. `AuthKeyRotation` implements it (`KeepsPromise`) with `accepted` the keys in
`slurm.jwks`, `offered` the published revisions, `using` the keys the consumers' services loaded, and `told` the
consumers (`Behind`) that are inside a handler or track an older revision. The promise is kept whatever
consumers and daemons do wrong. It is not kept if a rotation is interrupted on the leader: each of the faults
`reconfigure`, `publish`, `leadership` and `hook` alone makes TLC refute it.

### `ControllerPeers` and `FailoverContract`

An action is a hook. `view[u]` is the set of peers whose relation-joined `u` has seen, `unseen` the units that have not
stored the nonce in the data bag, `appDue` the units with a relation-changed to come, `deferred[u]` the deferred
`start`, `leader-elected` and peer events. Every nonce is a fresh uuid4, so only who has stored the newest one matters.
`OnRelationChanged` keeps the handler's order: no cluster name, then a new nonce (which *ends* the handler), then the
report of a join. `Refresh` merges the file with the peers as `_get_controllers` does; `HostLists` is the set of lists
it may produce, because the peers come from a Python set. `Reconfigured` is `_reconfigure` with its early return for an
inactive service.

Juju's part is external: `AddUnit`, `RemoveUnit`, `LeaderChanges`, `Told`. Whether Juju reports to the leader its own
write to the application data bag decides how long a swallowed join stays unnoticed, so it is a constant,
`LeaderNotified`. By default leadership moves only when the leader leaves, to a unit that runs and has seen the
others, and only units that the others have seen are removed; `Faults` lifts each of these.

Hooks are atomic in this module. Two units that rewrite `slurm.conf` at the very same time are not modelled.

`FailoverContract` says the same without Juju, events and nonces: members share one ordered list, each runs with a copy
of it, and to some a restart is `owed`. `Change` is the only action that alters the list once it exists: a running member
does it, keeps every member that stays in its place in the order, restarts with it, and owes a restart to all that run
with another copy. `Restart` brings one of them up to date, `Owe` lets restarts become due for any reason but waives
none that is needed, `Join` and `Leave` are the members' own. Nothing stops a member. `ControllerPeers` implements it
(`KeepsContract`) with `members <- planned`, `list <- conf`, `using <- running` and `owed` the units whose restart is on
its way (`RestartComing`): a `start` that is queued, a nonce still to be seen, or the leader's own leader-elected. Each
of the faults `early`, `leadership` and `crash` alone makes TLC refute it; `hasty` does not.

### `PartitionConfig`

`file[p]` is absent, plain or has `Default=YES`; `included` holds the include lines. The handlers are whole hooks, and
`SlurmdReadyDies`, `SlurmdDisconnectedDies` and `ConfigChangedDies` are the prefixes of file edits that remain when
the agent dies. `Dispatchable` expresses that deferred events are re-emitted before the event of a dispatch. Hooks
read the charm configuration as it is now (`wanted`), whether or not config-changed has run.

`MayHandle` is the guard of slurmd-ready: slurmctld runs, the configuration is valid, and `partition_ready` holds, which
asks about *every* slurmd application and not only about the event's (`described` are those that have published). How
`is_ready` of charmed-hpc-libs, outside `src/`, treats several integrations is an assumption: all must be complete. Two
more are that ops drops a deferred slurmd-ready whose integration is gone, and that an integration is only removed after
its application has published, since slurmd-disconnected reads the partition's name from the bag. `IncludesExist` is
about the partitions' files. The accounting, profiling and override files are not: the first start writes their include
lines before it makes them (`charm.py:299-308`).

### `HAMigration`

A *place* is the disk of a unit or the shared file system. `etc[u]` tells a unit's own `/etc/slurm` from the link to
the shared one, `conf[p]` is the StateSaveLocation that the `slurm.conf` in place `p` names, `whole[p]` says that no
other file is missing there, and `saved[p]` is the set of jobs in the StateSaveLocation of `p`. `Dir` and `Visible`
follow the link, as every path of the code does.

The leader's mounted-filesystem hook advances `step`: `CopyEtc` (or `CopyEtcFails`), `MoveEtc`, `LinkEtc`, then `SkipSync`
if the target exists, or `FirstSync`, `StopService`, `DeltaSync`, then `SetLocation` and `EmitStart`. Between any two of them
jobs are submitted, peers run their own hook (`MigratePeer`) and start event (`StartPeer`), or the agent dies
(`AgentDies`); the retry sees what is on disk. An event deferred or repeated stays in `mountDue` or `startDue`. Every
`start` that peers have to run, whether emitted, deferred or signalled, is one pending event of the unit, because the
handler only depends on the files it finds.

External: the moment at which a mount becomes visible, users that submit jobs, slurmctld's refusal to start without its
files, and Slurm's failover, by which a backup accepts jobs while the first controller is down. Membership and
leadership do not change in this module.

### `ProfilingConfig`

InfluxDB and slurmdbd are each a small state machine of Juju (`influx`, `dbd`); `Joined`, `Broken`, `SlurmdbdReady` and
`SlurmdbdDisconnected` are the four handlers. What influxdb-available carries is an *offer*, a number that
stands for the password: `user` is the one InfluxDB has, `offered` the one recorded for the present integration,
`gather` and `snapshot` those in `acct_gather.conf` and its snapshot. `create_user` does nothing if the user exists
(`UserFor`). `listed` and `filled` are the include line and the content of the profiling file; `acct` is the content
of the accounting file.

`Available` is the handler of influxdb-available, run inside `Joined` if slurmdbd has published, else deferred in
`queue`; `HandleDeferred` is its re-emission, which precedes every later handler (`Dispatchable`). In relation-broken of
slurmdbd the integration already does not count, so deferred offers stay deferred. `JoinedFails`, `BrokenDies`, `SlurmdbdReadyDies`,
`SlurmdbdDisconnectedDies` and `HandleDeferredDies` leave a prefix of the handler's edits and `hook` names the hook
Juju repeats before any other. `BrokenUnreachable` is the branch that logs a connection error and goes on.

One slurmdbd and one InfluxDB are integrated at a time, and leadership does not move. `slurmctld` is
installed; a second include line for the same file is rejected by slurmutils, which is what the handler's
`except ModelError` expects. Waiting for other units (`all_units_observed`, `config_ready`) is a delay of
slurmdbd-ready. The database and retention policy of InfluxDB are left out: they are created and dropped with the user.

### `ComputeNodes`

`unit[n]` is the unit as Juju sees it, `svc[n]` its slurmd (`starting` until `Register`), `reg[n]` the record Slurm has
of the node. A handler is split where it talks to slurmctld: `Ready` ends with the restart and leaves the state to be
applied in `task[n]`, `Apply` is the `scontrol update` that follows; `SetNodeConfig` writes the options and reads the
state, `Enrol` deletes the node and restarts slurmd. `answers` says whether slurmctld answers; that the leader's own
`_reconfigure` restarts it is one of the reasons for a `Blackout`. `want[n]` is the state the node should have: the
default when it is new, then whatever the administrator last set.

A state is a pair, as Slurm lists it: the base state (`idle` or `down`) and whether the node is held back from new jobs.
set-node-state offers idle, down, drain, fail and failing (`charmcraft.yaml:203`); the last three keep the base state
and are one request, `"drain"` (`Updated`). set-node-config reads the first element of the list only (`BaseState`,
`charms/slurmd/src/charm.py:317`), so the record that is registered again is not held back; `released` are the nodes
whose hold was lost in this way. What `scontrol update` does to a record is Slurm's, and an assumption.

`spoilt` marks the units for which something happened that no handler repairs, each named where it is set: `exists`
asked while slurmctld was silent, slurmd that systemd did not start, a deferred `install` that stops a running slurmd
(`Reinstall`), a state applied before slurmd had registered, set-node-state in the middle of a handler, a deletion
refused or met by a starting slurmd, an integration renewed before its departure was handled. The properties speak of
the other units; they show that nothing else spoils a node, in particular no deferral, no blackout during a departure and
no order of the two actions and the controllers' changes. A faultless new integration cures a unit.

### `ControllerClients` and `ServiceContract`

One client application of either kind (`app`). A *version* stands for the controllers or files of one moment; `bag`
is what the client sees of it, with the secret's id. `Written` overwrites the bag (`Connected`, the handler of a new
connection), `Merged` replaces one field (`LeaderChanges`, `RotateKey`). `LeaderChanges` publishes to sackd before
`_reconfigure`, and to slurmrestd within it, so only if it gets there; `failed` remembers that it did not. A leader may
also defer its handler (`DeferChange`, `holds`). If another unit leads when the event comes back, `FollowerChanges` edits
the shared `slurm.conf`, but `set_controller_data` does nothing there: `behind` says that the bag waits for the leader's next
publication.

A change of the bag is an event for the client (`Told`). `lost` says that the integration does not work until it is made again:
its connected event was handled by a unit that no longer leads, or a late slurmctld-disconnected or deferred `install`
has stopped the service. Deferred events of an integration that is gone are taken to be dropped by ops.
Whether Juju keeps or forgets that a client has read the secret when its integration ends is left open (`Separate`), and
so is whether a client without access is told of a new revision; `AccountingDaemon` makes the same assumptions.

`ServiceContract` is the abstract promise: an offer, the version the service runs with, and whether the client has been
told. Its four actions allow a client with an event to handle to adopt the offer, to stop, or to come up with an older
version, and a client without one to do nothing. `ControllerClients` implements it with `offered <- IF Complete THEN
bag.data ELSE 0` and `told <- due # {}` (`ImplementsContract`).

### `AccountingDaemon`

`storage`, `overrides` and `port` are the included files and the environment file, `conf` is `slurmdbd.conf`, `using` what
the running service was started with. `Merged` is `SlurmConfigManager.merge`: it adds and replaces, it never removes.
`Reconfigure` is the common end of the handlers, with `CanServe` its conditions. `key` has the JWT key of
slurmctld three times, in the file, in use and in the secret, because `RotateJwt` can end between them; `tracked` is
the revision slurmdbd reads until secret-changed refreshes it (`get_controller_data` calls `get_content` without
`refresh`). Juju keeps or forgets it when the integration ends, and a rotation in the meantime is told or not; `overlooked`
says that it was not. A database `db` has credentials (`id`) and an endpoint (`at`), TCP or socket. `CreateDatabase` is
told by database_created. `MoveDatabase` gives the database another endpoint, for which the library emits an event that
slurmdbd does not observe; `moved` says that slurmdbd had already handled the creation.

Only the leader of slurmdbd serves, so there is one unit. The handlers' options are disjoint, so the
order of the include files does not matter. A deferred repetition of `install` is left out: the only thing that can fail
after the package is there is the query of its version.

### `JobMail`

`stale[u]` is the set of fields of `slurm-mail.conf` that are not the newest on unit `u`, which makes a version counter
unnecessary; host, port and login are one field, `server`. `mailProg` is the line in the shared `slurm.conf`, `running`
says that slurmctld was last reconfigured with it. `Created` and `SmtpData` wait for accounting; `Broken` runs on each
unit, and on a departing one it leaves everything in place (`Depart`). `lost` is set when leadership
moves to a unit that has already handled, as a follower, an event the old leader has not; the next data or the end of the
integration resets it. `failed` says that the last handler did not reach the end of `_reconfigure`. Numbers of units are
never reused.

The names of `JobMail` that would otherwise coincide with those of `PartitionConfig` begin with `Mail` (`MailInit`,
`MailNext`, `MailSpec`): both are about handlers that edit the one `slurm.conf`, and share the proof module
`SlurmConf_proofs`.

A definition named `...Bug` in any module is a faulty variant of the definition after it. It is not part of the
specification; replacing the original by it violates the property that guards against that fault.

## 3. What is checked

Twelve runs, each a module and a `.cfg`. Where the run uses `SYMMETRY` it checks no liveness property, and
no definition tells the permuted units apart (in `ControllerPeers` the first unit is special, so it is not permuted).

| Run | Instance | What it shows |
|---|---|---|
| `rotation_overlap` | 2 controllers, 1 consumer, 3 keys, consumers may fail, overlapping rotations, fair | `LockoutIsTransient`, `OldKeysRevoked`, `PublishAfterLoad`, the refinement `KeepsPromise`, and that rotations complete and consumers converge (`RotationCompletes`, `ConsumersConverge`) |
| `rotation_faults` | the same with every fault | `ConsumerInStep`: no failed write or reload is forgotten |
| `peers_safe` | 3 units that come and go at any time | `RestartOutstanding`, and the refinement `KeepsContract` |
| `peers_crashes` | 3 units, the first leader may leave, services crash, a configuration change | `FailoverAgreed`, also when the leader's slurmctld is down and nobody is told of a new list |
| `peers_live` | 3 units, the first leader may leave, fair | `HostsConverge`, `ControllersConverge`, `EndpointsConverge` |
| `partitions_all` | 2 partitions, agents die, fair | `IncludesExist`, `NothingLeftBehind`, `WantedIsDefault`, `PartitionsServed` |
| `migration_all` | 3 controllers, 2 jobs, every fault, fair | `StateKept`, `NothingErased`, `MigrationCompletes` |
| `profiling_all` | 3 offers, every fault, fair | `PluginNeedsAccounting`, `PluginIsConfigured`, `NewestOfferUsed`, `ProfilingServed` |
| `nodes_all` | 1 node, 2 descriptions, every fault, fair | `StateAsWanted`, `ConfRegistered`, `NoGhostNodes`, `Enrolled` |
| `clients_all` | 2 controllers, either client, 3 versions, every fault, fair | `PublishedIsNewest`, `Served`, and the refinement `ImplementsContract` |
| `accounting_all` | 2 databases, overrides and keys, every fault, fair | `NewestInForce`, `KeysAgree`, `PublishedHasStorage`, `Published` |
| `mail_all` | 2 units, every fault, fair | `ProgramInStep`, `UnitsInSync`, `MailStopped`, `MailSent` |

Every property is also checked to notice a fault: `PROJECT.json` pairs it with a faulty variant of a definition that
makes its run fail.

### Bounds and why they are enough

* *Three keys* (`MaxKeys`) allow two rotations, hence one that starts inside another, and a revision that becomes
  obsolete after the next one was published. *Two controllers* are a leader and a backup, and the two can change roles.
  One consumer suffices for the hazards of a revision that is still tracked, since consumers meet only in the secret;
  the proofs hold for any number.
* *Three units* in `ControllerPeers` allow a leader, a backup and a unit that joins or leaves meanwhile, and the
  shortest list whose order can be spoiled by a third. A removed unit's name does not come back (Juju never reuses one).
  `MaxReconfigures` bounds configuration changes, which are nonces without a change of the list; one is enough to come
  between a join and its report.
* *Two partitions* allow the default to move from one to the other; each is integrated, removed and integrated again
  without bound.
* In `peers_live` and `peers_crashes` only the first leader may leave (`Elastic`): with three units that all come and go
  the liveness check, and the crashes, are out of reach, while `peers_safe` lets all of them do so.

* *Two jobs* (`MaxJobs`) allow one before and one after the first rsync. A second peer allows one that is linked and
  started before the leader has copied anything while another comes after the switch. Faults repeat without bound.
* *Three offers* (`MaxOffers`) allow two deferred offers of InfluxDBs that are gone to be overtaken by a third, or an
  offer that fails to be repeated next to an older one. slurmdbd comes and goes without bound.
* *One node* in `ComputeNodes`: units share nothing but the slurmctld that answers or does not, which changes at any
  moment anyway. *Two descriptions* (`MaxConf`) are the detected one and another.
* *Three versions* in `ControllerClients` (`MaxVersion`) allow a version to be published between one the client runs
  with and one it has not seen. It has *two controllers* because a handler can run on one that leads no more.
* *Two databases, overrides and keys* in `AccountingDaemon` (`MaxDb`, `MaxOverrides`, `MaxKey`) allow each to be
  replaced, with TCP after a socket and the reverse; a move counts as a database, so a moved one is the first. Everything else comes and goes without bound.
* *Two units* in `JobMail`: a leader and a follower that is ahead of it or behind. With numbers that are not reused the
  second joins once; it may be the first that leaves.

### Fairness

Weak fairness stands for Juju and ops: a unit's agent does not idle while it has a hook to run, and a hook that began
ends. Strong fairness is used where other steps may disable a handler again and again without removing its
event: the steps of secret-changed, which a failure may interrupt (a consumer does not fail for ever); secret-remove,
which waits for other hooks of the leader; slurmd-ready, which is deferred while slurmctld is down. The handlers of `ProfilingConfig` exclude one another in the same way, and are strongly fair for that reason.
In the other modules the handlers that defer or fail are strongly fair, because each dispatch of the unit tries them
again: slurmctld-ready of slurmd, the departure of a node (Slurm ends its jobs) and slurmd's registration; the
connected event, slurmctld-ready and secret-changed in `ControllerClients`; slurmctld-ready and database-created
in `AccountingDaemon`; the two handlers of `JobMail` that wait for accounting. Install, relation-broken and
config-changed are weakly fair. `MailSent` assumes in its own statement what Juju does not promise: a leader that stays at
last, and accounting that comes back.
In `HAMigration` the
mount is also weakly fair: the file system appears on every unit it was requested for. Nothing is
assumed of the operator, of failures or of leadership, except that a leader that has left is replaced.

### What the models show of the code

No run is there to fail. What follows holds of the code as it is. A property that one of these cases would break exempts it,
by a variable kept for that purpose (`spoilt`, `lost`, `failed`, `behind`, `moved`, `overlooked`, `released`), by a premise,
or because its run does not enable the fault. Such a property says that the cases named are the only ones, and
it does not guard against them; `PROJECT.json` says so at each hazard.

Each is reproducible by the change of constants or the property given in brackets:

* set-node-config gives a node back only its base state: a node that the administrator has drained, or set to fail or
  failing, takes jobs again (`charms/slurmd/src/charm.py:315-318`; `Faults = {}`, `StateAsWanted` without `released`);
* a handler that was deferred on a leader comes back on a unit that leads no more: it edits `slurm.conf`, but its
  `set_controller_data` does nothing (`@leader`), and sackd, slurmrestd and slurmd keep the old data until the leader
  publishes again (`charm.py:399-407`, `423-461`, `463-503`, `535-555`; `Faults = {"leadership"}`, `PublishedIsNewest`
  without `behind`);
* slurmdbd observes `database_created` only, so it keeps the old endpoint of a database that is moved
  (`charms/slurmdbd/src/charm.py:74`; `Faults = {}`, `NewestInForce` without `moved`);
* a snapshot of `acct_gather.conf` is never removed: with a new InfluxDB integrated meanwhile, the next slurmdbd-ready
  restores the old file over the newest offer (`charm.py:548`; `Faults = {}`, `NewestOfferUsed` without its second alternative);
* a slurmd application that has not published its configuration holds up slurmd-ready of all the others, since
  `partition_ready` asks about all of them (`charm.py:424`; `PartitionsServed` with `[]<>(active /\ valid)` for
  `[]<>MayHandle`);
* slurmdbd reads the JWT key it knows when it is integrated again: if Juju kept its revision and did not tell it of a
  rotation in between, it goes on with the old key (`pkg/slurmctld-interface`, lines 283-288; `Faults = {}`, `KeysAgree`
  without `overlooked`);
* the profiling plugin stays on without accounting until slurmdbd-ready, or the end of slurmdbd's integration, is handled
  (`charm.py:557`; `Faults = {}`, `filled /\ listed => acct`);
* the comment at `charms/slurmctld/src/charm.py:712-716` says that secret-remove arrives once all observers have
  completed their rotation. With overlapping rotations the revision reported is an old one, and `keep_latest_key` drops
  a key that is still tracked. `LockoutIsTransient` limits the damage: the consumers affected still have their
  secret-changed to come (`OperatorWaits = FALSE`, `[][Len(jwks') < Len(jwks) => \A o \in Observers : tracked[o] \in {0, Latest}]_vars`);
* the leader never stores the nonce it writes, so the next relation-changed, that of a joining unit, is taken for a
  restart signal and ends there (`integrations.py:142`). With a second nonce before the next event the unit is never
  added to `slurm.conf` (`ControllerPeers`: two units, `MaxReconfigures = 1`, `HostsConverge`);
* when the first rsync fails after it made its target directory, the event is deferred; the retry takes the directory
  for a finished migration, and slurmctld restarts with a StateSaveLocation that lacks jobs
  (`high_availability.py:173`; `Faults = {"rsync"}`, `SwitchedWhenComplete`). They are still on the leader's disk (`NothingErased`);
* an influxdb-available that is deferred for want of slurmdbd outlives its InfluxDB: relation-broken clears both files,
  and once slurmdbd publishes its host slurmctld profiles into an InfluxDB that is gone (`charm.py:598` and `:650`;
  `ProfilingConfig`, `Faults = {}`, `influx = "none" => ~filled`);
* slurmd's `exists` is false while slurmctld is restarting: a node that is known is given the default state again, or
  keeps its old description (`charms/slurmd/src/charm.py:203`; `Faults = {"blackout"}`, `StateAsWanted` without `spoilt`);
* `reconfigure` applies a state right after the restart: if slurmd has not registered yet, scontrol fails
  and the state is never applied (`ComputeNodes`, `Faults = {}`, the same);
* a deferred `install` of slurmd, sackd or slurmrestd runs again from its start and stops and disables the service that a
  slurmctld-ready has started meanwhile (`Faults = {"install"}`, `Enrolled` or `Served` without its exception);
* the connected event that is deferred on a leader that then leads no more is consumed there without effect
  (`Faults = {"leadership"}`, `Served` without `lost`);
* secret-changed on slurmdbd restarts the service without looking for a database: a slurmdbd that was stopped is started
  with the `slurmdbd.conf` it has (`charms/slurmdbd/src/charm.py:181`, cf. `:81-83`);
* the end of an integration is not handled by slurmdbd: it runs on with a database that is gone (`using.on => db # NoDb`), and
  options removed from an include file stay in `slurmdbd.conf` (`NewestInForce` without `overrides # 0`);
* a rotation of the JWT key that fails in `_reconfigure` leaves the new key in the file and the old one in the secret; the
  next restart of slurmctld then disagrees with slurmdbd (`charm.py:988`; `KeysAgree` without `key.file = key.secret`);
* smtp-data-available that is handled before the package could be installed names a mail program that is not there
  (`JobMail`, `Faults = {"apt"}`, `mailProg => leader \in package`);
* a new SMTP server without credentials keeps those of the old one, since options that are `None` are skipped
  (`mail.py:124`, against the comment at `charm.py:329-332`). Not visible in `JobMail`, where the login is part of `server`;
* a leader that handles an smtp event after its successor has handled it as a follower leaves `slurm.conf` as it was
  (`Faults = {"leadership"}`, `ProgramInStep` without `lost`);
* when the restart fails in `_reconfigure`, the exception `StopCharm` leaves the rotate-auth-key action after the key was
  appended (`charm.py:991`): it is never published, the file keeps two keys and nothing retries
  (`Faults = {"reconfigure"}`, `RotationCompletes`);
* `get_default_partition` returns *the* default partition, but a slurmd-ready that runs between the change of the option
  and config-changed already writes the new default; the previous one may then not be found, and two partitions keep
  `Default=YES` (`slurmctld.py:126`; no fault needed, `valid /\ ~configDue => Defaults \subseteq {wanted}`);
* when relation-joined of InfluxDB fails after `create_user`, the repeated hook finds the user and offers a new password
  the user does not have (`interface_influxdb.py:147`; `Faults = {"join"}`, `OfferWorks` without its premise);
* joins are counted against the number of planned units, which falls without an event when a unit is removed before it
  has joined; a unit that did join is then never reported (`Faults = {"hasty"}` with three units, `HostsConverge`);
* a backup that starts after the leader linked `/etc/slurm` and before it switched StateSaveLocation keeps the old one on
  its own disk: only the leader is restarted (`Faults = {}`, `<>[](\A u \in Units : running[u] = conf[Shared])`);
* an agent that dies between the move of `/etc/slurm` and the link, or a copy of it that is cut short, is not repaired by
  the retry (`charms/slurmctld/src/high_availability.py:60` and `:128`; `Faults = {"agent"}` or `{"copy"}`,
  `MigrationCompletes` without its premise);
* a leader whose slurmctld is down returns from `_reconfigure` (`charm.py:916`) before the nonce is written: the peers
  keep running with the older list (`Faults = {"crash"}`, `RestartOutstanding`);
* a unit that becomes leader before it has seen all peers removes from `slurm.conf` those it has not seen
  (`charm.py:250`; `Faults = {"early"}`, `OnlyDepartedDropped`, and with it `KeepsContract`);
* a demoted leader still handles its deferred peer event and rewrites `slurm.conf` from its view (`charm.py:405`;
  `Faults = {"leadership"}`);
* leadership that moves while no unit has run `relation-created` as leader leaves the cluster without a name
  (`charm.py:383`).

## 4. What is proved

The proofs hold for any finite or infinite sets of controllers, consumers and partitions the assumptions allow, and
any bound. Each theorem is in the `..._proofs` module beside its component, those of `PartitionConfig` and `JobMail` in
`SlurmConf_proofs`.

**`AuthKeyRotation_proofs`** *(assumptions: those of the module)*

* `TypeCorrect`: `Spec => []TypeOK`.
* `ConsumersStayInStep`: `ConsumerInStep`, with every fault. The property is not inductive, since a reload takes
  what is in the key file; `ConsumerInv` adds that the file of a consumer that is past the write, or at rest, has the
  key of the tracked revision.
* `PublishedKeyStaysOnFile` and `NoPermanentLockout`: under `Reliable` (services restart, the backend accepts,
  leaders and agents outlive a hook; consumers and daemons may still fail and rotations overlap). `FileInv` says
  that only the leader is inside a key-changing hook and that the file ends with the published key, or with the
  published key and the one being rotated in.
* `NoLockoutEver`: with `OperatorWaits`, nobody is locked out at all. `RotationInv` divides the rotation into
  four stages (settled, rotating, published, removing) and says which revisions can still be in use in each.
* `PublishedAfterLoad`: `PublishAfterLoad`, with every fault. `LoadedInv` says that the key the leader rotates in is on
  file, and in its running service once that is restarted. It survives changes of leadership because a unit in the
  middle of a hook is not elected.
* `PromiseIsKept`: under `Reliable`, `AuthKeyRotation` implements `RotationPromise`. Each step of a hook is mapped to one
  abstract action or to a stutter. `PromiseInv` supplies what the mapping needs: the published key is on file
  (`FileInv`, so that `KeepLatestKey` cannot retire it), a consumer at rest has the key of the revision it tracks
  (`ConsumerInv`), and its key file never had one that was not published (`KeyFileInv`).
* `PromiseSuffices`: the promise alone implies that no consumer is locked out without having something to
  handle, and that no service runs with a key that was not published.
* `OldKeysAreRevoked`: `OldKeysRevoked`, under `Undisturbed` (restarts succeed, no slurmctld or agent dies, leaders outlive a
  hook). `RevokedInv` says where the restart of a controller with other keys is to come from: the leader's hook, or a
  signal that is out.

**`ControllerPeers_proofs`**

* `TypeCorrect`: among other things `slurm.conf` and every published list name each controller at most once.
* `FailoverOrderIsKept`: without any assumption on faults.
* `OnlyDepartedAreDropped`: if leadership moves only from a leaving leader to a settled unit (`OrderlyLeadership`).
  `DropInv` is the strengthening: the leader sees every listed unit, and only it has a refresh deferred.
* `ServiceIsKept` and `RestartIsOutstanding`: the same, without service crashes. `RunningListed` says that a running
  controller is listed, `Started` that with a file and a leader that stays the leader runs; without the latter
  `_reconfigure` would return before the nonce is written.
* `FailoverIsAgreed`: under `OrderlyLeadership`, crashes included. It needs that a service runs only with controllers that
  published a hostname (`RunningKnown`), so that a unit that joins is in no older list, and that the file keeps the order
  of those that stay (`OrderPreserved`, from `OnlyDepartedAreDropped` and `FailoverOrderIsKept`).
* `ContractIsKept`: `ControllerPeers` implements `FailoverContract`, under the assumptions of `ServiceIsKept`. `NextOne` says
  that a step in which no unit comes or goes restarts at most one service, and changes the file only with it; the rest
  of the mapping is the conjunction of the invariants above, `PeersInv`.
* `ContractSuffices`: the contract alone implies that nobody with an older list is forgotten (`NoneForgotten`) and that
  members agree on the failover order (`InOrder`).

The step lemmas `NextEffect` and `NextMovement` first reduce every action to its few possible effects on
`slurm.conf`, services and queues; the invariants are then proved from those effects.

**`SlurmConf_proofs`** (any number of partitions, and of units with job mail, every fault)

* `TypeCorrect`, `IncludesAlwaysExist` and `NothingIsLeftBehind` (proved together as `FilesAgree`), and
  `WantedPartitionIsDefault`, of `PartitionConfig`.
* `MailTypeCorrect` and, of `JobMail`, `UnitsStayInSync`: `UnitsInv` says that what a unit lacks, the package or the newest
  server or name, an event that is due will bring, and `BrokenInv` that the end of an integration is handled
  before the next one begins. `ProgramStaysInStep` is inductive with these. `MailIsStopped` also needs `RunningInv`:
  after a handler that came to its end, slurmctld has the line that `slurm.conf` has.

**`HAMigration_proofs`** (any number of peers and jobs)

* `TypeCorrect`: nothing is in a shared StateSaveLocation that was not made. `SyncFacts` adds that only a slurm.conf on the
  shared file system names it, and that a service uses it only while that file does.
* `StateIsKept`: `SaveInv` is the heart of the argument: until the switch the leader has every job on its own disk, from
  the switch on all of them are in the shared location, and between the second rsync and the switch, with the service
  down, they are in both. It holds as long as no rsync or agent failed and no backup took over (`Undisturbed`), which
  is why `CalmInv` is an implication.
* `SwitchIsComplete`: slurmctld is switched to a complete copy (`SwitchedWhenComplete`), once those three faults are ruled out.
* `NothingIsErased`: with every fault. `EraseInv` says that before the switch the shared location holds nothing the
  leader's disk lacks, and that rsync runs only before the switch; `CopyErasesNothing` is the step that needs it.

**`ProfilingConfig_proofs`** (any number of offers, every fault)

* `TypeCorrect`, `PluginHasAccounting`, `PluginIsAlwaysConfigured`, `OfferAlwaysWorks` and `NewestOfferIsUsed`. The
  invariant has one part for each. `ConfiguredInv` adds that options in the profiling file imply a file or a snapshot
  to restore, which is why a save that finds no file must keep the old snapshot; `NewestInv` adds that the last of
  the deferred offers is the one recorded, so that handling the oldest first ends with it, and says what is left when
  slurmdbd-ready restores a snapshot instead.

**`ComputeNodes_proofs`** (any number of nodes and descriptions, every fault)

* `TypeCorrect`, `StateIsAsWanted`, `ConfIsRegistered` and `NoNodeIsLeftBehind`. The properties of a node
  hold only between handlers, so `NodeFacts` says what is true inside: a handler will apply the wanted base state, a service that is
  starting was started with the present description, and one that starts with nothing left to apply is a known node.

**`ControllerClients_proofs`** (any number of controllers and versions, every fault)

* `TypeCorrect`, and `NewestIsPublished`, which needs that a unit has the connected event pending only while there is
  an integration. It exempts slurmrestd's failed `_reconfigure` and the change of a demoted leader, no other step.
* `ContractIsKept`: `ControllerClients` implements `ServiceContract`. Each action is mapped to one of the four
  abstract ones or to a stutter. `ClientFacts` supplies what the mapping needs: the client's files have the
  bag's version unless slurmctld-ready is due, a service without an event due runs with its files, and it does not run once the
  data are withdrawn and slurmctld-disconnected is handled.
* `NoStaleClient`: the abstract `InStep`, an invariant of the contract, hence of its implementation.

**`AccountingDaemon_proofs`** (any number of databases, overrides and keys, every fault)

* `TypeCorrect`, `NewestIsInForce`, `KeysDoAgree` and `PublicationHasStorage`. `KeyFacts` and
  `StoredFacts` relate each file to the event that is due when it is old (secret-changed for the JWT key, database-created
  for the storage file), and `ForceFacts` relates `conf` and `using` to the files when no `_reconfigure` has failed. `StoredFacts`
  speaks of the credentials always and of the endpoint until the database is moved.

### Only model-checked

Liveness (`RotationCompletes`, `ConsumersConverge`, the three `...Converge` of `ControllerPeers`, `PartitionsServed`,
`MigrationCompletes`, `ProfilingServed`, `Enrolled`, `Served`, `Published`, `MailSent`), because the prover has no rules for
fairness and ENABLED. Every invariant and every action property of the runs, and the three refinements, are proved.

## 5. Not modelled, and what is left

Not modelled at all: package installation (except where it is deferred and repeated), hardware detection, mail
templates, the OCI runtime file, Terraform plans and the repository tool, which share no state between units; the text
of configuration files and option strings, except the facts above; lost updates by two units writing `slurm.conf` at the
same instant.

What could be added, in this order:

1. `HAMigration`, `PartitionConfig` and `ProfilingConfig` under the changes of leadership of `ControllerPeers`.
2. Option strings of `/etc/default/<service>` as pure operators: what is parsed and written back is the same options.
