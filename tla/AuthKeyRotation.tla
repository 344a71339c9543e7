-------------------------- MODULE AuthKeyRotation --------------------------
(***************************************************************************)
(* Rotation of the Slurm authentication key (slurm.jwks) across the        *)
(* cluster: the slurmctld leader adds a key to its file, restarts the      *)
(* controllers, publishes the key as a new revision of a Juju secret, and  *)
(* drops the older keys once Juju reports an old revision as unused.       *)
(* sackd, slurmd, slurmdbd and slurmrestd units ("consumers") follow the   *)
(* secret.                                                                 *)
(*                                                                         *)
(* A key is a positive number, handed out in the order of generation; a    *)
(* revision is a position of `published'.  With high availability the      *)
(* controllers share one slurm.jwks; without it Controllers is a           *)
(* singleton.  Hooks of one unit exclude each other; hooks of different    *)
(* units interleave between any two writes another unit can see.  A hook's *)
(* databag and secret writes reach Juju when the hook commits, while       *)
(* `secret-get --refresh' moves the tracked revision at once.              *)
(***************************************************************************)
EXTENDS Integers, Sequences, FiniteSets

CONSTANTS
  Controllers,    \* slurmctld units
  Consumers,      \* units of the other Slurm applications
  MaxKeys,        \* bound on the number of keys ever generated
  OperatorWaits,  \* TRUE: rotate-auth-key is run only while one key is in use
  Faults          \* environment faults that may occur, a subset of FaultKinds

FaultKinds ==
  { "reconfigure",  \* a slurmctld restart or `scontrol reconfigure' fails
    "publish",      \* the secret backend refuses the new revision
    "leadership",   \* the leader changes while a hook of the old leader runs
    "hook",         \* the agent dies in the middle of a hook
    "crash",        \* a slurmctld service dies
    "consumer" }    \* a consumer cannot write its key file or reload

ASSUME ControllersNonEmpty == Controllers # {}
ASSUME RolesDisjoint       == Controllers \cap Consumers = {}
ASSUME MaxKeysPositive     == MaxKeys \in Nat \ {0}
ASSUME OperatorWaitsBool   == OperatorWaits \in BOOLEAN
ASSUME FaultsKnown         == Faults \subseteq FaultKinds

VARIABLES
  leader,      \* the slurmctld leader
  generated,   \* number of keys generated so far
  jwks,        \* keys of the controllers' slurm.jwks, oldest first
  active,      \* active[u]: slurmctld.service of u is active
  running,     \* running[u]: keys loaded by u's slurmctld
  restartDue,  \* controllers with an unhandled restart signal
  hook,        \* hook[u]: the key-changing hook u is executing
  published,   \* published[r]: key in revision r of the secret
  removed,     \* revisions removed from the secret
  removeDue,   \* revisions whose secret-remove event awaits the leader
  tracked,     \* tracked[o]: revision observer o tracks, 0 if none
  keyFile,     \* keyFile[c]: key in consumer c's slurm.jwks, 0 if none
  loaded,      \* loaded[c]: key in use by consumer c's service, 0 if stopped
  phase,       \* phase[c]: progress of c's secret-changed handler
  deferred     \* consumers with a deferred secret-changed event

ctlVars  == <<leader, generated, jwks, active, running, restartDue, hook>>
jujuVars == <<published, removed, removeDue, tracked>>
conVars  == <<keyFile, loaded, phase, deferred>>
vars     == <<ctlVars, jujuVars, conVars>>

Observers == Controllers \cup Consumers
Keys      == 1..MaxKeys
Revisions == 1..Len(published)
Latest    == Len(published)
FileKeys  == {jwks[i] : i \in 1..Len(jwks)}

NoHook == [op |-> "none", step |-> "none", rev |-> 0, signal |-> FALSE]
Free(u) == hook[u] = NoHook

Hooks == [op : {"none", "rotate", "remove"}, step : {"none", "file", "restarted"},
          rev : Nat, signal : BOOLEAN]

(***************************************************************************)
(* The Juju secret.  A revision is obsolete once a newer one exists and no *)
(* observer tracks it; the leader is told once, when it becomes obsolete.  *)
(***************************************************************************)
ObsoleteIn(pub, tr) == {r \in 1..(Len(pub) - 1) : \A o \in Observers : tr[o] # r}
Obsolete == ObsoleteIn(published, tracked)

\* removeDue after a step that makes the secret `pub' and the tracking `tr'.
Announce(pub, tr) == removeDue \cup (ObsoleteIn(pub, tr) \ Obsolete)

Init ==
  /\ leader \in Controllers
  /\ generated = 1
  /\ jwks = <<1>>
  /\ active = [u \in Controllers |-> TRUE]
  /\ running = [u \in Controllers |-> {1}]
  /\ restartDue = {}
  /\ hook = [u \in Controllers |-> NoHook]
  /\ published = <<1>>
  /\ removed = {}
  /\ removeDue = {}
  /\ tracked = [o \in Observers |-> IF o \in Controllers THEN 1 ELSE 0]
  /\ keyFile = [c \in Consumers |-> 0]
  /\ loaded = [c \in Consumers |-> 0]
  /\ phase = [c \in Consumers |-> "idle"]
  /\ deferred = {}

(***************************************************************************)
(* slurmctld.  A definition named ...Bug is a faulty variant of the one    *)
(* that follows it, kept to show which property notices the fault.         *)
(***************************************************************************)

\* apply writes the new key behind the others.
Applied(k) == Append(jwks, k)

\* keep_latest_key keeps the last entry; the variant keeps the first.
LatestKeptBug == <<jwks[1]>>
LatestKept == <<jwks[Len(jwks)]>>

\* A restarted slurmctld has the keys on file; the variant only re-reads the
\* configuration.
RestartedBug(u) == running
Restarted(u) == [running EXCEPT ![u] = FileKeys]

\* rotate-auth-key on the leader, up to the write of slurm.jwks.
RotateApply(u) ==
  /\ u = leader
  /\ Free(u)
  /\ generated < MaxKeys
  /\ OperatorWaits => Len(jwks) = 1 /\ \A v \in Controllers : Free(v)
  /\ generated' = generated + 1
  /\ jwks' = Applied(generated + 1)
  /\ hook' = [hook EXCEPT ![u] =
                [op |-> "rotate", step |-> "file", rev |-> generated + 1, signal |-> FALSE]]
  /\ UNCHANGED <<leader, active, running, restartDue, jujuVars, conVars>>

\* secret-remove for revision r on the leader, up to the write of slurm.jwks.
\* The handler never looks at r: whatever it is, all keys but the last go.
KeepLatestKey(u, r) ==
  /\ u = leader
  /\ Free(u)
  /\ r \in removeDue
  /\ jwks' = LatestKept
  /\ removeDue' = removeDue \ {r}
  /\ hook' = [hook EXCEPT ![u] =
                [op |-> "remove", step |-> "file", rev |-> r, signal |-> FALSE]]
  /\ UNCHANGED <<leader, generated, active, running, restartDue,
                 published, removed, tracked, conVars>>

\* _reconfigure inside a key-changing hook: a silent return when the local
\* service is inactive, else restart, signal the peers, `scontrol reconfigure'.
Reconfigure(u) ==
  /\ hook[u].step = "file"
  /\ running' = IF active[u] THEN Restarted(u) ELSE running
  /\ hook' = [hook EXCEPT ![u].step = "restarted", ![u].signal = active[u]]
  /\ UNCHANGED <<leader, generated, jwks, active, restartDue, jujuVars, conVars>>

\* The restart fails: StopCharm leaves the hook before any signal.
RestartFails(u) ==
  /\ "reconfigure" \in Faults
  /\ hook[u].step = "file"
  /\ active[u]
  /\ active' = [active EXCEPT ![u] = FALSE]
  /\ running' = [running EXCEPT ![u] = {}]
  /\ hook' = [hook EXCEPT ![u] = NoHook]
  /\ UNCHANGED <<leader, generated, jwks, restartDue, jujuVars, conVars>>

\* `scontrol reconfigure' fails: StopCharm leaves the hook after the signal.
ScontrolFails(u) ==
  /\ "reconfigure" \in Faults
  /\ hook[u].step = "file"
  /\ active[u]
  /\ running' = Restarted(u)
  /\ restartDue' = restartDue \cup (Controllers \ {u})
  /\ hook' = [hook EXCEPT ![u] = NoHook]
  /\ UNCHANGED <<leader, generated, jwks, active, jujuVars, conVars>>

\* The restart signal a hook wrote becomes visible to the peers at its commit.
DeliverSignal(u) ==
  restartDue' = IF hook[u].signal THEN restartDue \cup (Controllers \ {u}) ELSE restartDue

RotateCommit(u) ==
  /\ hook[u].op = "rotate"
  /\ hook[u].step = "restarted"
  /\ u = leader
  /\ published' = Append(published, hook[u].rev)
  /\ removeDue' = Announce(published', tracked)
  /\ DeliverSignal(u)
  /\ hook' = [hook EXCEPT ![u] = NoHook]
  /\ UNCHANGED <<leader, generated, jwks, active, running, removed, tracked, conVars>>

\* set_content raises: the action fails, slurm.jwks keeps the new key.
PublishFails(u) ==
  /\ hook[u].op = "rotate"
  /\ hook[u].step = "restarted"
  /\ u # leader \/ "publish" \in Faults
  /\ DeliverSignal(u)
  /\ hook' = [hook EXCEPT ![u] = NoHook]
  /\ UNCHANGED <<leader, generated, jwks, active, running, jujuVars, conVars>>

RemoveCommit(u) ==
  /\ hook[u].op = "remove"
  /\ hook[u].step = "restarted"
  /\ removed' = removed \cup {hook[u].rev}
  /\ DeliverSignal(u)
  /\ hook' = [hook EXCEPT ![u] = NoHook]
  /\ UNCHANGED <<leader, generated, jwks, active, running,
                 published, removeDue, tracked, conVars>>

\* The agent dies inside a hook.  Juju runs an event hook again before anything
\* else, so keep_latest_key is repeated; it never runs an action again.
HookDies(u) ==
  /\ "hook" \in Faults
  /\ ~Free(u)
  /\ IF hook[u].op = "remove" /\ u = leader
       THEN /\ jwks' = LatestKept
            /\ hook' = [hook EXCEPT ![u].step = "file", ![u].signal = FALSE]
       ELSE /\ hook' = [hook EXCEPT ![u] = NoHook]
            /\ UNCHANGED jwks
  /\ UNCHANGED <<leader, generated, active, running, restartDue, jujuVars, conVars>>

\* Variant: the owner does not refresh the revision it tracks.
ControllerSecretChangedBug(u) == Free(u) /\ tracked[u] < Latest /\ UNCHANGED vars

\* secret-changed on a controller only moves its tracked revision.
ControllerSecretChanged(u) ==
  /\ Free(u)
  /\ tracked[u] < Latest
  /\ tracked' = [tracked EXCEPT ![u] = Latest]
  /\ removeDue' = Announce(published, tracked')
  /\ UNCHANGED <<ctlVars, published, removed, conVars>>

\* The peer relation-changed with a new signal; the leader only records it.
RestartSignalled(u) ==
  /\ u \in restartDue
  /\ Free(u)
  /\ restartDue' = restartDue \ {u}
  /\ IF u = leader
       THEN UNCHANGED <<active, running>>
       ELSE /\ active' = [active EXCEPT ![u] = TRUE]
            /\ running' = Restarted(u)
  /\ UNCHANGED <<leader, generated, jwks, hook, jujuVars, conVars>>

\* A new leader refreshes the controllers and runs _reconfigure.  Juju may
\* report again the obsolete revisions that were never removed.
LeaderElected(u) ==
  /\ u # leader
  /\ Free(u)
  /\ (\A v \in Controllers : Free(v)) \/ "leadership" \in Faults
  /\ leader' = u
  /\ running' = IF active[u] THEN Restarted(u) ELSE running
  /\ restartDue' = IF active[u] THEN Controllers \ {u} ELSE restartDue
  /\ removeDue' \in {removeDue, removeDue \cup (Obsolete \ removed)}
  /\ UNCHANGED <<generated, jwks, active, hook, published, removed, tracked, conVars>>

SlurmctldDies(u) ==
  /\ "crash" \in Faults
  /\ active[u]
  /\ active' = [active EXCEPT ![u] = FALSE]
  /\ running' = [running EXCEPT ![u] = {}]
  /\ UNCHANGED <<leader, generated, jwks, restartDue, hook, jujuVars, conVars>>

\* The start hook, or systemd, brings the service back with the current file.
SlurmctldStarts(u) ==
  /\ ~active[u]
  /\ active' = [active EXCEPT ![u] = TRUE]
  /\ running' = Restarted(u)
  /\ UNCHANGED <<leader, generated, jwks, restartDue, hook, jujuVars, conVars>>

(***************************************************************************)
(* Consumers                                                               *)
(***************************************************************************)

\* slurmctld-ready: the key comes from the revision the unit tracks, which is
\* the latest one the first time, and the service is (re)started with it.
ControllerReady(c) ==
  /\ phase[c] = "idle"
  /\ LET rev == IF tracked[c] = 0 THEN Latest ELSE tracked[c] IN
       /\ tracked' = [tracked EXCEPT ![c] = rev]
       /\ keyFile' = [keyFile EXCEPT ![c] = published[rev]]
       /\ \/ loaded' = [loaded EXCEPT ![c] = published[rev]]
          \/ "consumer" \in Faults /\ loaded' \in {loaded, [loaded EXCEPT ![c] = 0]}
  /\ UNCHANGED <<ctlVars, published, removed, removeDue, phase, deferred>>

\* secret-changed, first or re-emitted after a deferral: track the latest.
SecretRefresh(c) ==
  /\ phase[c] = "idle"
  /\ tracked[c] # 0
  /\ tracked[c] < Latest \/ c \in deferred
  /\ tracked' = [tracked EXCEPT ![c] = Latest]
  /\ removeDue' = Announce(published, tracked')
  /\ phase' = [phase EXCEPT ![c] = "refreshed"]
  /\ UNCHANGED <<ctlVars, published, removed, keyFile, loaded, deferred>>

SecretWrite(c) ==
  /\ phase[c] = "refreshed"
  /\ keyFile' = [keyFile EXCEPT ![c] = published[tracked[c]]]
  /\ phase' = [phase EXCEPT ![c] = "written"]
  /\ UNCHANGED <<ctlVars, jujuVars, loaded, deferred>>

\* Variant: the service is not told about the new file.
SecretReloadBug(c) ==
  /\ phase[c] = "written"
  /\ phase' = [phase EXCEPT ![c] = "idle"]
  /\ deferred' = deferred \ {c}
  /\ UNCHANGED <<ctlVars, jujuVars, keyFile, loaded>>

SecretReload(c) ==
  /\ phase[c] = "written"
  /\ loaded' = [loaded EXCEPT ![c] = keyFile[c]]
  /\ phase' = [phase EXCEPT ![c] = "idle"]
  /\ deferred' = deferred \ {c}
  /\ UNCHANGED <<ctlVars, jujuVars, keyFile>>

\* Variant: the event is not deferred.
SecretChangedFailsBug(c) ==
  /\ "consumer" \in Faults
  /\ phase[c] # "idle"
  /\ phase' = [phase EXCEPT ![c] = "idle"]
  /\ UNCHANGED <<ctlVars, jujuVars, keyFile, loaded, deferred>>

\* Writing the file fails, or reloading (the service goes on with its old key)
\* or restarting it (it stops): the event is deferred or, where the charm lets
\* the exception out, the hook is run again.
SecretChangedFails(c) ==
  /\ "consumer" \in Faults
  /\ phase[c] # "idle"
  /\ phase' = [phase EXCEPT ![c] = "idle"]
  /\ deferred' = deferred \cup {c}
  /\ loaded' \in {loaded, IF phase[c] = "written" THEN [loaded EXCEPT ![c] = 0] ELSE loaded}
  /\ UNCHANGED <<ctlVars, jujuVars, keyFile>>

\* The consumer's service restarts by itself, for example after a reboot.
ServiceRestarts(c) ==
  /\ loaded[c] # 0
  /\ loaded' = [loaded EXCEPT ![c] = keyFile[c]]
  /\ UNCHANGED <<ctlVars, jujuVars, keyFile, phase, deferred>>

\* slurmctld-disconnected: the service stops; Juju forgets the unit's tracking.
\* A deferred secret-changed stays: it fails on the missing secret, and is
\* deferred again, until the unit is connected anew.
Disconnect(c) ==
  /\ phase[c] = "idle"
  /\ tracked[c] # 0
  /\ tracked' = [tracked EXCEPT ![c] = 0]
  /\ removeDue' = Announce(published, tracked')
  /\ loaded' = [loaded EXCEPT ![c] = 0]
  /\ UNCHANGED <<ctlVars, published, removed, keyFile, phase, deferred>>

----------------------------------------------------------------------------
LeaderHook(u) ==
  \/ RotateApply(u) \/ (\E r \in removeDue : KeepLatestKey(u, r))
  \/ Reconfigure(u) \/ RestartFails(u) \/ ScontrolFails(u)
  \/ RotateCommit(u) \/ PublishFails(u) \/ RemoveCommit(u) \/ HookDies(u)

ControllerStep(u) ==
  \/ ControllerSecretChanged(u) \/ RestartSignalled(u) \/ LeaderElected(u)
  \/ SlurmctldDies(u) \/ SlurmctldStarts(u)

ConsumerStep(c) ==
  \/ ControllerReady(c) \/ SecretRefresh(c) \/ SecretWrite(c) \/ SecretReload(c)
  \/ SecretChangedFails(c) \/ ServiceRestarts(c) \/ Disconnect(c)

Next ==
  \/ \E u \in Controllers : LeaderHook(u) \/ ControllerStep(u)
  \/ \E c \in Consumers : ConsumerStep(c)

Spec == Init /\ [][Next]_vars

\* Juju runs the hooks it has queued and a started hook reaches its end; a
\* consumer does not fail for ever.  An action is run, a service fails and a
\* leader changes only by chance.
Fairness ==
  /\ \A u \in Controllers :
       /\ WF_vars(Reconfigure(u))
       /\ WF_vars(RotateCommit(u))
       /\ WF_vars(RemoveCommit(u))
       /\ WF_vars(ControllerSecretChanged(u))
       /\ WF_vars(RestartSignalled(u))
       /\ WF_vars(SlurmctldStarts(u))
       /\ SF_vars(\E r \in removeDue : KeepLatestKey(u, r))
  /\ \A c \in Consumers :
       /\ SF_vars(SecretRefresh(c))
       /\ SF_vars(SecretWrite(c))
       /\ SF_vars(SecretReload(c))

FairSpec == Spec /\ Fairness

----------------------------------------------------------------------------
(***************************************************************************)
(* Properties                                                              *)
(***************************************************************************)

ControllerTypes ==
  /\ leader \in Controllers
  /\ generated \in Keys
  /\ jwks \in Seq(Keys) /\ jwks # <<>>
  /\ active \in [Controllers -> BOOLEAN]
  /\ running \in [Controllers -> SUBSET Keys]
  /\ restartDue \subseteq Controllers

HookTypes ==
  /\ hook \in [Controllers -> Hooks]
  /\ \A u \in Controllers :
       /\ hook[u].op = "rotate" => hook[u].rev \in Keys
       /\ hook[u].op = "remove" => hook[u].rev \in Revisions
       /\ hook[u].step # "none" => hook[u].op # "none"

SecretTypes ==
  /\ published \in Seq(Keys) /\ published # <<>>
  /\ removed \subseteq Revisions
  /\ removeDue \subseteq Revisions
  /\ tracked \in [Observers -> {0} \cup Revisions]

ConsumerTypes ==
  /\ keyFile \in [Consumers -> Keys \cup {0}]
  /\ loaded \in [Consumers -> Keys \cup {0}]
  /\ phase \in [Consumers -> {"idle", "refreshed", "written"}]
  /\ deferred \subseteq Consumers
  /\ \A c \in Consumers : phase[c] # "idle" => tracked[c] # 0

\* Every variable has the shape its declaration promises: slurm.jwks and the
\* secret are never empty, a hook carries a key or revision that exists, and a
\* consumer handles secret-changed only for a secret it tracks.
TypeOK == ControllerTypes /\ HookTypes /\ SecretTypes /\ ConsumerTypes

LockedOut(c) == loaded[c] # 0 /\ loaded[c] \notin FileKeys

\* secret-changed is running on c or waits in its queue of deferred events.
Handling(c) == phase[c] # "idle" \/ c \in deferred

\* A consumer whose key the controllers no longer have on file always has a
\* secret-changed event still to come or in progress that brings it back: the
\* handlers never leave a consumer locked out for good.
LockoutIsTransient ==
  \A c \in Consumers : LockedOut(c) => Handling(c) \/ tracked[c] < Latest

\* When the operator lets one rotation end before the next, the leader drops an
\* old key only after every consumer has at least begun to take the new one.
NoLockout == \A c \in Consumers : LockedOut(c) => Handling(c)

\* Whatever fails and however rotations overlap, the running service of a
\* consumer that is not handling secret-changed uses the key of the revision the
\* unit tracks: no failed write or reload is forgotten.
ConsumerInStep ==
  \A c \in Consumers :
    loaded[c] # 0 /\ ~Handling(c) => tracked[c] # 0 /\ loaded[c] = published[tracked[c]]

\* The revision a newly connected consumer would read holds a key that the
\* controllers' file has.
PublishedKeyOnFile == published[Latest] \in FileKeys

\* With no rotation in progress and no restart to come, every active controller
\* has exactly the keys on file: a dropped key is no longer accepted anywhere.
OldKeysRevoked ==
  (\A u \in Controllers : Free(u)) /\ restartDue = {} =>
    \A u \in Controllers : active[u] => running[u] = FileKeys

\* The leader publishes a key only when its own running slurmctld, if there is
\* one, already accepts it.
PublishAfterLoad ==
  [][published' # published =>
       (active[leader] => published'[Len(published')] \in running[leader])]_vars

\* Every step is one that RotationPromise allows: the file accepts the key on offer
\* through every overlap of rotations, each publication reaches every consumer in
\* service, and no failure makes one forget that it has an old key.
Promise == INSTANCE RotationPromise WITH
  accepted <- FileKeys,
  offered <- published,
  using <- loaded,
  told <- {c \in Consumers : Handling(c) \/ tracked[c] \in 1..(Latest - 1)}
KeepsPromise == Promise!Spec

\* A rotation comes to its end: slurm.jwks is back to a single key, the state
\* the leader's "rotation in progress" status waits for.
RotationCompletes == (Len(jwks) > 1) ~> (Len(jwks) = 1)

\* From some time on every running consumer uses the newest published key.
ConsumersConverge ==
  <>[](\A c \in Consumers : loaded[c] # 0 => loaded[c] = published[Latest])
=============================================================================
