----------------------- MODULE AuthKeyRotation_proofs -----------------------
(***************************************************************************)
(* Theorems about AuthKeyRotation, for any number of controllers,          *)
(* consumers and keys.                                                     *)
(***************************************************************************)
EXTENDS AuthKeyRotation, TLAPS

----------------------------------------------------------------------------
(* Facts about the state and about Juju's bookkeeping.                     *)

\* slurm.jwks has a last key, and the newest revision and every tracked
\* revision hold a key.
LEMMA StateFacts ==
  ASSUME TypeOK
  PROVE  /\ Len(jwks) \in Nat \ {0} /\ jwks[Len(jwks)] \in Keys /\ FileKeys \subseteq Keys
         /\ Latest \in Nat \ {0} /\ Latest \in Revisions /\ published[Latest] \in Keys
         /\ \A o \in Observers : tracked[o] # 0 => published[tracked[o]] \in Keys
<1>1. Len(jwks) \in Nat \ {0} /\ jwks[Len(jwks)] \in Keys /\ FileKeys \subseteq Keys
  BY DEF TypeOK, ControllerTypes, FileKeys
<1>2. Latest \in Nat \ {0} /\ Latest \in Revisions /\ published[Latest] \in Keys
  BY DEF TypeOK, SecretTypes, Latest, Revisions
<1>3. \A o \in Observers : tracked[o] # 0 => published[tracked[o]] \in Keys
  BY DEF TypeOK, SecretTypes, Revisions
<1> QED
  BY <1>1, <1>2, <1>3

\* The secret-remove events after an announcement are about known revisions.
LEMMA AnnounceType ==
  ASSUME SecretTypes, NEW pub \in Seq(Keys), NEW tr, Len(published) <= Len(pub)
  PROVE  Announce(pub, tr) \subseteq 1..Len(pub)
<1>1. removeDue \subseteq 1..Len(pub)
  BY DEF SecretTypes, Revisions
<1>2. ObsoleteIn(pub, tr) \subseteq 1..Len(pub)
  BY DEF ObsoleteIn
<1> QED
  BY <1>1, <1>2 DEF Announce

----------------------------------------------------------------------------
(* Type correctness: which part of TypeOK each group of variables carries. *)

LEMMA ControllerTypesKept ==
  ASSUME ControllerTypes, UNCHANGED <<leader, generated, jwks, active, running, restartDue>>
  PROVE  ControllerTypes'
  BY DEF ControllerTypes

LEMMA SecretTypesKept ==
  ASSUME SecretTypes, UNCHANGED jujuVars
  PROVE  SecretTypes'
  BY DEF SecretTypes, jujuVars, Revisions

LEMMA ConsumerTypesKept ==
  ASSUME ConsumerTypes, UNCHANGED <<conVars, tracked>>
  PROVE  ConsumerTypes'
  BY DEF ConsumerTypes, conVars

\* A hook that ends, or none that begins, leaves the hooks well formed.
LEMMA HookTypesKept ==
  ASSUME HookTypes, Revisions \subseteq Revisions', NEW u \in Controllers,
         hook' = hook \/ hook' = [hook EXCEPT ![u] = NoHook]
  PROVE  HookTypes'
<1>0. NoHook \in Hooks
  BY DEF NoHook, Hooks
<1>1. hook' \in [Controllers -> Hooks]
  BY <1>0 DEF HookTypes
<1>2. \A v \in Controllers : hook'[v] = hook[v] \/ hook'[v] = NoHook
  BY DEF HookTypes
<1> QED
  BY <1>1, <1>2 DEF HookTypes, NoHook

LEMMA InitType == Init => TypeOK
<1> SUFFICES ASSUME Init PROVE TypeOK
  OBVIOUS
<1>1. ControllerTypes /\ HookTypes
  BY MaxKeysPositive DEF Init, ControllerTypes, HookTypes, Keys, Hooks, NoHook
<1>2. SecretTypes
  BY MaxKeysPositive DEF Init, SecretTypes, Keys, Revisions
<1>3. ConsumerTypes
  BY DEF Init, ConsumerTypes
<1> QED
  BY <1>1, <1>2, <1>3 DEF TypeOK

\* A step of a hook that changes slurm.jwks, the services or the secret keeps
\* the types.
LEMMA LeaderHookType ==
  ASSUME TypeOK, NEW u \in Controllers, LeaderHook(u)
  PROVE  TypeOK'
<1>0. ControllerTypes /\ HookTypes /\ SecretTypes /\ ConsumerTypes
  BY DEF TypeOK
<1>1. CASE RotateApply(u)
  <2>1. generated + 1 \in Keys /\ generated + 1 \in Nat
    BY <1>0, <1>1, MaxKeysPositive DEF RotateApply, Applied, Keys, ControllerTypes
  <2>2. ControllerTypes'
    BY <1>0, <1>1, <2>1 DEF RotateApply, Applied, ControllerTypes
  <2>3. HookTypes'
    BY <1>0, <1>1, <2>1 DEF RotateApply, Applied, HookTypes, Hooks, jujuVars, Revisions
  <2>4. QED
    BY <1>0, <1>1, <2>2, <2>3, SecretTypesKept, ConsumerTypesKept
    DEF RotateApply, Applied, TypeOK, jujuVars
<1>2. ASSUME NEW r \in removeDue, KeepLatestKey(u, r) PROVE TypeOK'
  <2>1. ControllerTypes'
    BY <1>0, <1>2, StateFacts DEF KeepLatestKey, LatestKept, ControllerTypes
  <2>2. r \in Revisions /\ r \in Nat /\ Revisions' = Revisions
    BY <1>0, <1>2 DEF KeepLatestKey, LatestKept, SecretTypes, Revisions
  <2>3. HookTypes'
    BY <1>0, <1>2, <2>2 DEF KeepLatestKey, LatestKept, HookTypes, Hooks
  <2>4. SecretTypes'
    BY <1>0, <1>2, <2>2 DEF KeepLatestKey, LatestKept, SecretTypes
  <2>5. QED
    BY <1>0, <1>2, <2>1, <2>3, <2>4, ConsumerTypesKept DEF KeepLatestKey, LatestKept, TypeOK
<1>3. CASE Reconfigure(u)
  <2>1. ControllerTypes'
    BY <1>0, <1>3, StateFacts DEF Reconfigure, Restarted, ControllerTypes
  <2>2. HookTypes'
    BY <1>0, <1>3 DEF Reconfigure, Restarted, HookTypes, Hooks, ControllerTypes, jujuVars, Revisions
  <2>3. QED
    BY <1>0, <1>3, <2>1, <2>2, SecretTypesKept, ConsumerTypesKept
    DEF Reconfigure, Restarted, TypeOK, jujuVars
<1>4. CASE RestartFails(u) \/ ScontrolFails(u) \/ PublishFails(u)
  <2>1. ControllerTypes'
    BY <1>0, <1>4, StateFacts
    DEF RestartFails, ScontrolFails, PublishFails, DeliverSignal, Restarted, ControllerTypes
  <2>2. HookTypes'
    BY <1>0, <1>4, HookTypesKept
    DEF RestartFails, ScontrolFails, PublishFails, jujuVars, Revisions
  <2>3. UNCHANGED <<jujuVars, conVars>>
    BY <1>4 DEF RestartFails, ScontrolFails, PublishFails
  <2>4. QED
    BY <1>0, <2>1, <2>2, <2>3, SecretTypesKept, ConsumerTypesKept DEF TypeOK, jujuVars
<1>5. CASE RotateCommit(u)
  <2>1. /\ published' \in Seq(Keys) /\ published' # <<>>
        /\ Len(published) \in Nat /\ Len(published') = Len(published) + 1
    BY <1>0, <1>5 DEF RotateCommit, HookTypes, SecretTypes
  <2>2. Revisions \subseteq Revisions'
    BY <2>1 DEF Revisions
  <2>3. removeDue' \subseteq Revisions'
    <3>1. Announce(published', tracked) \subseteq 1..Len(published')
      BY <1>0, <2>1, AnnounceType
    <3>2. QED
      BY <1>5, <3>1 DEF RotateCommit, Revisions
  <2>4. SecretTypes'
    BY <1>0, <1>5, <2>1, <2>2, <2>3 DEF RotateCommit, SecretTypes
  <2>5. HookTypes'
    BY <1>0, <1>5, <2>2, HookTypesKept DEF RotateCommit
  <2>6. ControllerTypes'
    BY <1>0, <1>5 DEF RotateCommit, DeliverSignal, ControllerTypes
  <2>7. QED
    BY <1>0, <1>5, <2>4, <2>5, <2>6, ConsumerTypesKept DEF RotateCommit, TypeOK
<1>6. CASE RemoveCommit(u)
  <2>1. ControllerTypes'
    BY <1>0, <1>6 DEF RemoveCommit, DeliverSignal, ControllerTypes
  <2>2. HookTypes'
    BY <1>0, <1>6, HookTypesKept DEF RemoveCommit, Revisions
  <2>3. SecretTypes'
    BY <1>0, <1>6 DEF RemoveCommit, HookTypes, SecretTypes, Revisions
  <2>4. QED
    BY <1>0, <1>6, <2>1, <2>2, <2>3, ConsumerTypesKept DEF RemoveCommit, TypeOK
<1>7. CASE HookDies(u)
  <2>1. ControllerTypes'
    <3>1. CASE jwks' = jwks
      BY <1>0, <1>7, <3>1, ControllerTypesKept DEF HookDies, LatestKept
    <3>2. CASE jwks' = <<jwks[Len(jwks)]>>
      BY <1>0, <1>7, <3>2, StateFacts DEF HookDies, LatestKept, ControllerTypes
    <3>3. QED
      BY <1>7, <3>1, <3>2 DEF HookDies, LatestKept
  <2>2. HookTypes'
    <3>0. Revisions' = Revisions
      BY <1>7 DEF HookDies, LatestKept, jujuVars, Revisions
    <3>1. CASE hook' = [hook EXCEPT ![u] = NoHook]
      BY <1>0, <3>0, <3>1, HookTypesKept
    <3>2. CASE /\ hook[u].op = "remove"
               /\ hook' = [hook EXCEPT ![u].step = "file", ![u].signal = FALSE]
      BY <1>0, <3>0, <3>2 DEF HookTypes, Hooks
    <3>3. QED
      BY <1>7, <3>1, <3>2 DEF HookDies, LatestKept
  <2>3. QED
    BY <1>0, <1>7, <2>1, <2>2, SecretTypesKept, ConsumerTypesKept DEF HookDies, LatestKept, TypeOK, jujuVars
<1> QED
  BY <1>1, <1>2, <1>3, <1>4, <1>5, <1>6, <1>7 DEF LeaderHook

\* So do the other steps of a controller.
LEMMA ControllerStepType ==
  ASSUME TypeOK, NEW u \in Controllers, ControllerStep(u)
  PROVE  TypeOK'
<1>0. ControllerTypes /\ HookTypes /\ SecretTypes /\ ConsumerTypes
  BY DEF TypeOK
<1>1. CASE ControllerSecretChanged(u)
  <2>0. published \in Seq(Keys) /\ Len(published) <= Len(published)
    BY <1>0 DEF SecretTypes
  <2>1. removeDue' \subseteq Revisions
    BY <1>0, <1>1, <2>0, AnnounceType DEF ControllerSecretChanged, Revisions
  <2>2. SecretTypes'
    BY <1>0, <1>1, <2>1, StateFacts DEF ControllerSecretChanged, SecretTypes, Revisions, Observers
  <2>3. ConsumerTypes'
    BY <1>0, <1>1, RolesDisjoint
    DEF ControllerSecretChanged, ConsumerTypes, SecretTypes, Observers, conVars
  <2>4. QED
    BY <1>0, <1>1, <2>2, <2>3, ControllerTypesKept, HookTypesKept
    DEF ControllerSecretChanged, TypeOK, ctlVars, Revisions
<1>2. CASE RestartSignalled(u) \/ SlurmctldDies(u) \/ SlurmctldStarts(u)
  <2>1. ControllerTypes'
    BY <1>0, <1>2, StateFacts
    DEF RestartSignalled, SlurmctldDies, SlurmctldStarts, Restarted, ControllerTypes
  <2>2. UNCHANGED <<hook, jujuVars, conVars>>
    BY <1>2 DEF RestartSignalled, SlurmctldDies, SlurmctldStarts
  <2>3. QED
    BY <1>0, <2>1, <2>2, HookTypesKept, SecretTypesKept, ConsumerTypesKept
    DEF TypeOK, jujuVars, Revisions
<1>3. CASE LeaderElected(u)
  <2>1. ControllerTypes'
    BY <1>0, <1>3, StateFacts DEF LeaderElected, Restarted, ControllerTypes
  <2>2. Obsolete \subseteq Revisions
    BY <1>0 DEF Obsolete, ObsoleteIn, Revisions, SecretTypes
  <2>3. SecretTypes'
    BY <1>0, <1>3, <2>2 DEF LeaderElected, SecretTypes, Revisions
  <2>4. QED
    BY <1>0, <1>3, <2>1, <2>3, HookTypesKept, ConsumerTypesKept
    DEF LeaderElected, TypeOK, Revisions
<1> QED
  BY <1>1, <1>2, <1>3 DEF ControllerStep

\* And the steps of a consumer.
LEMMA ConsumerStepType ==
  ASSUME TypeOK, NEW c \in Consumers, ConsumerStep(c)
  PROVE  TypeOK'
<1>0. /\ ControllerTypes /\ HookTypes /\ SecretTypes /\ ConsumerTypes
      /\ c \in Observers
  BY DEF TypeOK, Observers
<1>1. CASE ControllerReady(c)
  <2> DEFINE rev == IF tracked[c] = 0 THEN Latest ELSE tracked[c]
  <2>1. rev \in Revisions /\ rev # 0 /\ published[rev] \in Keys
    BY <1>0, StateFacts DEF SecretTypes
  <2>2. /\ tracked' = [tracked EXCEPT ![c] = rev]
        /\ keyFile' = [keyFile EXCEPT ![c] = published[rev]]
        /\ \/ loaded' = [loaded EXCEPT ![c] = published[rev]]
           \/ loaded' = [loaded EXCEPT ![c] = 0]
           \/ loaded' = loaded
    BY <1>1 DEF ControllerReady
  <2> HIDE DEF rev
  <2>3. SecretTypes'
    BY <1>0, <1>1, <2>1, <2>2 DEF ControllerReady, SecretTypes, Revisions
  <2>4. ConsumerTypes'
    BY <1>0, <1>1, <2>1, <2>2 DEF ControllerReady, ConsumerTypes, SecretTypes, Observers
  <2>5. QED
    BY <1>0, <1>1, <2>3, <2>4, ControllerTypesKept, HookTypesKept, ControllersNonEmpty
    DEF ControllerReady, TypeOK, ctlVars, Revisions
<1>2. ASSUME SecretRefresh(c) \/ Disconnect(c) PROVE TypeOK'
  <2>0. published \in Seq(Keys) /\ Len(published) <= Len(published)
    BY <1>0 DEF SecretTypes
  <2>1. removeDue' \subseteq Revisions
    BY <1>0, <1>2, <2>0, AnnounceType DEF SecretRefresh, Disconnect, Revisions
  <2>2. SecretTypes'
    BY <1>0, <1>2, <2>1, StateFacts DEF SecretRefresh, Disconnect, SecretTypes, Revisions
  <2>3. ConsumerTypes'
    BY <1>0, <1>2, StateFacts
    DEF SecretRefresh, Disconnect, ConsumerTypes, SecretTypes, Observers
  <2>4. QED
    BY <1>0, <1>2, <2>2, <2>3, ControllerTypesKept, HookTypesKept, ControllersNonEmpty
    DEF SecretRefresh, Disconnect, TypeOK, ctlVars, Revisions
<1>3. ASSUME \/ SecretWrite(c) \/ SecretReload(c) \/ SecretChangedFails(c)
             \/ ServiceRestarts(c)
      PROVE  TypeOK'
  <2>1. ConsumerTypes'
    BY <1>0, <1>3, StateFacts
    DEF SecretWrite, SecretReload, SecretChangedFails, ServiceRestarts,
        ConsumerTypes, SecretTypes, Observers, jujuVars
  <2>2. UNCHANGED <<ctlVars, jujuVars>>
    BY <1>3 DEF SecretWrite, SecretReload, SecretChangedFails, ServiceRestarts
  <2>3. QED
    BY <1>0, <2>1, <2>2, ControllerTypesKept, HookTypesKept, SecretTypesKept, ControllersNonEmpty
    DEF TypeOK, ctlVars, jujuVars, Revisions
<1> QED
  BY <1>1, <1>2, <1>3 DEF ConsumerStep

LEMMA TypeStep == TypeOK /\ [Next]_vars => TypeOK'
<1>1. TypeOK /\ UNCHANGED vars => TypeOK'
  BY ControllerTypesKept, HookTypesKept, SecretTypesKept, ConsumerTypesKept, ControllersNonEmpty
  DEF TypeOK, vars, ctlVars, jujuVars, conVars, Revisions
<1> QED
  BY <1>1, LeaderHookType, ControllerStepType, ConsumerStepType DEF Next

\* The types are an invariant, whatever fails and however rotations overlap.
THEOREM TypeCorrect == Spec => []TypeOK
  BY InitType, TypeStep, PTL DEF Spec

----------------------------------------------------------------------------
(* No permanent lockout.  The environment is reliable when a rotation that *)
(* began is always published: services restart, the secret backend         *)
(* accepts, leadership and agents outlive a hook.  Consumers and           *)
(* slurmctld services may still fail and rotations may overlap.            *)

Reliable == Faults \cap {"reconfigure", "publish", "leadership", "hook"} = {}

\* Only the leader is inside a key-changing hook; the last key on file is the
\* published one, or the key being rotated in, right after the published one.
FileInv ==
  /\ \A u \in Controllers : ~Free(u) => u = leader
  /\ \A u \in Controllers : hook[u].op = "rotate" =>
       /\ Len(jwks) > 1
       /\ jwks[Len(jwks)] = hook[u].rev
       /\ jwks[Len(jwks) - 1] = published[Latest]
  /\ (\A u \in Controllers : hook[u].op # "rotate") => jwks[Len(jwks)] = published[Latest]

\* A consumer that is not handling secret-changed has, in its key file and in
\* its running service, the key of the revision it tracks.
ConsumerInv ==
  \A c \in Consumers :
    /\ phase[c] = "written" => keyFile[c] = published[tracked[c]]
    /\ loaded[c] # 0 /\ ~Handling(c) =>
         /\ tracked[c] # 0
         /\ loaded[c] = published[tracked[c]]
         /\ keyFile[c] = published[tracked[c]]

\* ConsumerInv is a matter of the consumers and the secret alone.
LEMMA ConsumerInvKept ==
  ASSUME TypeOK, ConsumerInv, UNCHANGED conVars,
         \A c \in Consumers : tracked'[c] = tracked[c],
         \A r \in Revisions : published'[r] = published[r]
  PROVE  ConsumerInv'
<1>1. \A c \in Consumers : tracked[c] # 0 => published'[tracked[c]] = published[tracked[c]]
  BY DEF TypeOK, SecretTypes, Observers
<1>2. \A c \in Consumers : phase[c] # "idle" => tracked[c] # 0
  BY DEF TypeOK, ConsumerTypes
<1> QED
  BY <1>1, <1>2 DEF ConsumerInv, Handling, conVars

LEMMA ConsumerInvStep ==
  ASSUME TypeOK, ConsumerInv, [Next]_vars
  PROVE  ConsumerInv'
<1>0. SecretTypes /\ ConsumerTypes /\ HookTypes /\ Consumers \subseteq Observers
  BY DEF TypeOK, Observers
<1>1. ASSUME NEW u \in Controllers, LeaderHook(u) PROVE ConsumerInv'
  <2>1. UNCHANGED <<conVars, tracked>>
    BY <1>1 DEF LeaderHook, RotateApply, KeepLatestKey, LatestKept, Reconfigure, Restarted, RestartFails,
       ScontrolFails, RotateCommit, PublishFails, RemoveCommit, HookDies, LatestKept, jujuVars
  <2>2. \A r \in Revisions : published'[r] = published[r]
    BY <1>0, <1>1 DEF LeaderHook, RotateApply, KeepLatestKey, LatestKept, Reconfigure, Restarted, RestartFails,
       ScontrolFails, RotateCommit, PublishFails, RemoveCommit, HookDies, LatestKept, jujuVars,
       SecretTypes, HookTypes, Revisions
  <2>3. QED
    BY <2>1, <2>2, ConsumerInvKept
<1>2. ASSUME NEW u \in Controllers, ControllerStep(u) PROVE ConsumerInv'
  <2>1. UNCHANGED <<conVars, published>> /\ \A c \in Consumers : tracked'[c] = tracked[c]
    BY <1>0, <1>2, RolesDisjoint DEF ControllerStep, ControllerSecretChanged, RestartSignalled,
       LeaderElected, SlurmctldDies, SlurmctldStarts, jujuVars, SecretTypes, Observers
  <2>2. QED
    BY <2>1, ConsumerInvKept
<1>3. ASSUME NEW c \in Consumers, ConsumerStep(c) PROVE ConsumerInv'
  <2>1. CASE ControllerReady(c)
    <3> DEFINE rev == IF tracked[c] = 0 THEN Latest ELSE tracked[c]
    <3>1. rev # 0 /\ (tracked[c] # 0 => rev = tracked[c])
      BY StateFacts
    <3>2. /\ tracked' = [tracked EXCEPT ![c] = rev]
          /\ keyFile' = [keyFile EXCEPT ![c] = published[rev]]
          /\ \/ loaded' = [loaded EXCEPT ![c] = published[rev]]
             \/ loaded' = [loaded EXCEPT ![c] = 0]
             \/ loaded' = loaded
          /\ phase[c] = "idle"
          /\ UNCHANGED <<published, phase, deferred>>
      BY <2>1 DEF ControllerReady
    <3> HIDE DEF rev
    <3>3. QED
      BY <1>0, <3>1, <3>2 DEF ConsumerInv, Handling, SecretTypes, ConsumerTypes
  <2>2. CASE SecretRefresh(c)
    BY <1>0, <2>2 DEF SecretRefresh, ConsumerInv, Handling, SecretTypes, ConsumerTypes
  <2>3. CASE SecretWrite(c)
    BY <1>0, <2>3 DEF SecretWrite, ConsumerInv, Handling, ConsumerTypes, jujuVars
  <2>4. CASE SecretReload(c)
    BY <1>0, <2>4 DEF SecretReload, ConsumerInv, Handling, ConsumerTypes, jujuVars
  <2>5. CASE SecretChangedFails(c)
    BY <1>0, <2>5 DEF SecretChangedFails, ConsumerInv, Handling, ConsumerTypes, jujuVars
  <2>6. CASE ServiceRestarts(c)
    BY <1>0, <2>6 DEF ServiceRestarts, ConsumerInv, Handling, ConsumerTypes, jujuVars
  <2>7. CASE Disconnect(c)
    BY <1>0, <2>7 DEF Disconnect, ConsumerInv, Handling, SecretTypes, ConsumerTypes
  <2>8. QED
    BY <1>3, <2>1, <2>2, <2>3, <2>4, <2>5, <2>6, <2>7 DEF ConsumerStep
<1>4. CASE UNCHANGED vars
  BY <1>4, ConsumerInvKept DEF vars, conVars, jujuVars
<1> QED
  BY <1>1, <1>2, <1>3, <1>4 DEF Next

\* Whatever fails, a consumer at rest is in step with the secret.
THEOREM ConsumersStayInStep == Spec => []ConsumerInStep
<1>1. Init => TypeOK /\ ConsumerInv
  BY InitType DEF Init, ConsumerInv, Handling
<1>2. TypeOK /\ ConsumerInv /\ [Next]_vars => (TypeOK /\ ConsumerInv)'
  BY TypeStep, ConsumerInvStep
<1>3. ConsumerInv => ConsumerInStep
  BY DEF ConsumerInv, ConsumerInStep
<1> QED
  BY <1>1, <1>2, <1>3, PTL DEF Spec

\* While the environment is reliable, so is the file.
LEMMA FileInvStep ==
  ASSUME Reliable, TypeOK, FileInv, [Next]_vars
  PROVE  FileInv'
<1>0. ControllerTypes /\ SecretTypes /\ HookTypes
  BY DEF TypeOK
<1>1. ASSUME NEW u \in Controllers, RotateApply(u) PROVE FileInv'
  <2>1. jwks[Len(jwks)] = published[Latest] /\ \A v \in Controllers : v # u => Free(v)
    BY <1>1 DEF RotateApply, Applied, FileInv, Free, NoHook
  <2>2. /\ Len(jwks') = Len(jwks) + 1
        /\ jwks'[Len(jwks) + 1] = generated + 1
        /\ jwks'[Len(jwks)] = jwks[Len(jwks)]
    BY <1>0, <1>1, StateFacts DEF RotateApply, Applied, ControllerTypes
  <2>3. /\ hook'[u].op = "rotate" /\ hook'[u].rev = generated + 1
        /\ \A v \in Controllers : v # u => hook'[v] = NoHook
    BY <1>0, <1>1, <2>1 DEF RotateApply, Applied, HookTypes, Free
  <2>4. QED
    BY <1>1, <2>1, <2>2, <2>3, StateFacts DEF RotateApply, Applied, FileInv, Free, NoHook, Latest, jujuVars
<1>2. ASSUME NEW u \in Controllers, NEW r \in removeDue, KeepLatestKey(u, r) PROVE FileInv'
  <2>1. jwks[Len(jwks)] = published[Latest] /\ \A v \in Controllers : Free(v)
    BY <1>2 DEF KeepLatestKey, LatestKept, FileInv, Free, NoHook
  <2>2. Len(jwks') = 1 /\ jwks'[1] = jwks[Len(jwks)]
    BY <1>2 DEF KeepLatestKey, LatestKept
  <2>3. \A v \in Controllers : v # u => hook'[v] = NoHook
    BY <1>0, <1>2, <2>1 DEF KeepLatestKey, LatestKept, HookTypes, Free
  <2>4. hook'[u].op = "remove"
    BY <1>0, <1>2 DEF KeepLatestKey, LatestKept, HookTypes
  <2>5. \A v \in Controllers : hook'[v].op # "rotate"
    BY <2>3, <2>4 DEF NoHook
  <2>6. QED
    BY <1>2, <2>1, <2>2, <2>3, <2>5 DEF KeepLatestKey, LatestKept, FileInv, Free, Latest
<1>3. ASSUME NEW u \in Controllers, Reconfigure(u) PROVE FileInv'
  <2>1. \A v \in Controllers : /\ hook'[v].op = hook[v].op /\ hook'[v].rev = hook[v].rev
    BY <1>0, <1>3 DEF Reconfigure, Restarted, HookTypes, Hooks
  <2>2. \A v \in Controllers : Free(v) => hook'[v] = NoHook
    <3>1. hook[u] # NoHook
      BY <1>3 DEF Reconfigure, Restarted, NoHook
    <3>2. QED
      BY <1>0, <1>3, <3>1 DEF Reconfigure, Restarted, HookTypes, Free
  <2>3. QED
    BY <1>3, <2>1, <2>2 DEF Reconfigure, Restarted, FileInv, Free, Latest, jujuVars
<1>4. ASSUME NEW u \in Controllers, RotateCommit(u) PROVE FileInv'
  <2>1. /\ Len(published') = Latest + 1 /\ published'[Latest + 1] = hook[u].rev
        /\ jwks[Len(jwks)] = hook[u].rev
    BY <1>0, <1>4 DEF RotateCommit, SecretTypes, HookTypes, FileInv, Latest
  <2>2. \A v \in Controllers : hook'[v] = NoHook
    BY <1>0, <1>4 DEF RotateCommit, HookTypes, FileInv, Free
  <2>3. QED
    BY <1>4, <2>1, <2>2 DEF RotateCommit, FileInv, Free, NoHook, Latest
<1>5. ASSUME NEW u \in Controllers, RemoveCommit(u) PROVE FileInv'
  <2>1. \A v \in Controllers : hook'[v] = IF v = u THEN NoHook ELSE hook[v]
    BY <1>0, <1>5 DEF RemoveCommit, HookTypes
  <2>2. hook[u].op # "rotate" /\ UNCHANGED <<leader, jwks, published>>
    BY <1>5 DEF RemoveCommit
  <2>3. QED
    BY <2>1, <2>2 DEF FileInv, Free, NoHook, Latest
<1>6. ASSUME NEW u \in Controllers, LeaderElected(u) PROVE FileInv'
  <2>1. \A v \in Controllers : Free(v)
    BY <1>6 DEF LeaderElected, Reliable
  <2>2. QED
    BY <1>6, <2>1 DEF LeaderElected, FileInv, Free, NoHook, Latest
<1>7. ASSUME UNCHANGED <<leader, jwks, hook, published>> PROVE FileInv'
  BY <1>7 DEF FileInv, Free, Latest
<1>8. ASSUME NEW u \in Controllers, LeaderHook(u) PROVE FileInv'
  <2>1. ~RestartFails(u) /\ ~ScontrolFails(u) /\ ~HookDies(u)
    BY DEF RestartFails, ScontrolFails, HookDies, LatestKept, Reliable
  <2>2. ~PublishFails(u)
    <3>1. hook[u].op = "rotate" => u = leader
      BY DEF FileInv, Free, NoHook
    <3>2. QED
      BY <3>1 DEF PublishFails, Reliable
  <2>3. QED
    BY <1>1, <1>2, <1>3, <1>4, <1>5, <1>8, <2>1, <2>2 DEF LeaderHook
<1>9. ASSUME NEW u \in Controllers, ControllerStep(u) PROVE FileInv'
  BY <1>6, <1>7, <1>9 DEF ControllerStep, ControllerSecretChanged, RestartSignalled,
     SlurmctldDies, SlurmctldStarts, ctlVars, jujuVars
<1>10. ASSUME NEW c \in Consumers, ConsumerStep(c) PROVE FileInv'
  BY <1>7, <1>10 DEF ConsumerStep, ControllerReady, SecretRefresh, SecretWrite, SecretReload,
     SecretChangedFails, ServiceRestarts, Disconnect, ctlVars, jujuVars
<1> QED
  BY <1>7, <1>8, <1>9, <1>10 DEF Next, vars, ctlVars, jujuVars

LEMMA LockoutInit == Init => FileInv /\ ConsumerInv
  BY DEF Init, FileInv, ConsumerInv, Free, NoHook, Latest, Handling

\* Both invariants hold of every behaviour of a reliable environment.
LEMMA LockoutInvariants ==
  ASSUME Reliable
  PROVE  Spec => [](TypeOK /\ FileInv /\ ConsumerInv)
<1>1. Init => TypeOK /\ FileInv /\ ConsumerInv
  BY InitType, LockoutInit
<1>2. TypeOK /\ [Next]_vars => TypeOK'
  BY TypeStep
<1>3. TypeOK /\ FileInv /\ ConsumerInv /\ [Next]_vars => (TypeOK /\ FileInv /\ ConsumerInv)'
  BY Reliable, <1>2, FileInvStep, ConsumerInvStep
<1> QED
  BY <1>1, <1>3, PTL DEF Spec

LEMMA LatestOnFile ==
  ASSUME TypeOK, FileInv
  PROVE  PublishedKeyOnFile
<1>1. CASE \E u \in Controllers : hook[u].op = "rotate"
  BY <1>1, StateFacts DEF FileInv, PublishedKeyOnFile, FileKeys
<1>2. CASE \A u \in Controllers : hook[u].op # "rotate"
  BY <1>2, StateFacts DEF FileInv, PublishedKeyOnFile, FileKeys
<1> QED
  BY <1>1, <1>2

\* The newest published key is on file, or the one before the last while the
\* next is being rotated in: a new consumer reads a key that is accepted.
THEOREM PublishedKeyStaysOnFile ==
  ASSUME Reliable
  PROVE  Spec => []PublishedKeyOnFile
<1>1. TypeOK /\ FileInv => PublishedKeyOnFile
  BY LatestOnFile
<1> QED
  BY Reliable, LockoutInvariants, <1>1, PTL

\* A consumer whose key was dropped always has a secret-changed event to come
\* or in progress, even when rotations overlap: no lockout is for good.
THEOREM NoPermanentLockout ==
  ASSUME Reliable
  PROVE  Spec => []LockoutIsTransient
<1>1. TypeOK /\ FileInv => PublishedKeyOnFile
  BY LatestOnFile
<1>2. TypeOK /\ PublishedKeyOnFile /\ ConsumerInv => LockoutIsTransient
  <2> SUFFICES ASSUME TypeOK, PublishedKeyOnFile, ConsumerInv,
                      NEW c \in Consumers, LockedOut(c), ~Handling(c)
               PROVE  tracked[c] < Latest
    BY DEF LockoutIsTransient
  <2>1. loaded[c] = published[tracked[c]] /\ tracked[c] # Latest
    BY DEF LockedOut, ConsumerInv, PublishedKeyOnFile
  <2>2. tracked[c] \in 0..Latest
    BY DEF TypeOK, SecretTypes, Revisions, Observers, Latest
  <2>3. QED
    BY <2>1, <2>2, StateFacts
<1> QED
  BY Reliable, LockoutInvariants, <1>1, <1>2, PTL

----------------------------------------------------------------------------
(* No lockout at all, when the operator lets each rotation end before the  *)
(* next.  The cluster then goes round four stages, and only the revision   *)
(* before the newest can still be in use or await its removal.             *)

\* Every observer has moved to the newest revision, or to none.
AllCurrent == \A o \in Observers : tracked[o] \in {0, Latest}

\* No rotation: one key, every earlier revision gone.
Settled ==
  /\ \A u \in Controllers : Free(u)
  /\ Len(jwks) = 1
  /\ AllCurrent
  /\ removeDue = {}
  /\ 1..(Latest - 1) \subseteq removed

\* The rotate action has written its key and not yet published it.
Rotating ==
  /\ \E u \in Controllers : hook[u].op = "rotate"
  /\ Len(jwks) = 2
  /\ AllCurrent
  /\ removeDue = {}
  /\ 1..(Latest - 1) \subseteq removed

\* Both keys are on file while the observers move over.
Published ==
  /\ \A u \in Controllers : Free(u)
  /\ Len(jwks) = 2
  /\ Latest > 1
  /\ jwks[1] = published[Latest - 1]
  /\ \A o \in Observers : tracked[o] \in {0, Latest - 1, Latest}
  /\ removeDue \subseteq {Latest - 1}
  /\ removeDue # {} => AllCurrent
  /\ 1..(Latest - 2) \subseteq removed

\* The secret-remove handler has dropped the old key.
Removing ==
  /\ \E u \in Controllers : hook[u].op = "remove" /\ hook[u].rev = Latest - 1
  /\ Len(jwks) = 1
  /\ AllCurrent
  /\ removeDue = {}
  /\ 1..(Latest - 2) \subseteq removed

RotationInv == Settled \/ Rotating \/ Published \/ Removing

\* An observer that moves to the newest revision, or to none, leaves the stage
\* as it is: at most the revision before the newest becomes obsolete.
LEMMA TrackingStep ==
  ASSUME TypeOK, RotationInv, NEW o \in Observers, NEW rev \in {0, Latest},
         tracked' = [tracked EXCEPT ![o] = rev],
         removeDue' \subseteq Announce(published, tracked'),
         UNCHANGED <<jwks, hook, published, removed>>
  PROVE  RotationInv'
<1>0. /\ SecretTypes /\ Latest \in Nat \ {0} /\ Latest' = Latest
      /\ \A p \in Observers : tracked'[p] = IF p = o THEN rev ELSE tracked[p]
  BY StateFacts DEF TypeOK, SecretTypes, Latest
<1>1. AllCurrent => AllCurrent'
  BY <1>0 DEF AllCurrent
<1>2. AllCurrent => Obsolete = 1..(Latest - 1)
  BY <1>0 DEF AllCurrent, Obsolete, ObsoleteIn, Latest
<1>3. ObsoleteIn(published, tracked') \subseteq 1..(Latest - 1)
  BY DEF ObsoleteIn, Latest
<1>4. AllCurrent => removeDue' \subseteq removeDue
  BY <1>2, <1>3 DEF Announce
<1>5. CASE Settled \/ Rotating \/ Removing
  BY <1>0, <1>1, <1>4, <1>5 DEF Settled, Rotating, Removing, RotationInv, Free
<1>6. CASE Published
  <2>1. \A p \in Observers : tracked'[p] \in {0, Latest - 1, Latest}
    BY <1>0, <1>6 DEF Published
  <2>2. 1..(Latest - 2) \subseteq Obsolete
    BY <1>0, <1>6 DEF Published, Obsolete, ObsoleteIn, Latest
  <2>3. ObsoleteIn(published, tracked') \ Obsolete \subseteq {Latest - 1}
    <3>1. \A r \in 1..(Latest - 1) : r \in 1..(Latest - 2) \/ r = Latest - 1
      BY <1>0
    <3>2. QED
      BY <1>3, <2>2, <3>1
  <2>4. removeDue' \subseteq {Latest - 1}
    BY <1>6, <2>3 DEF Published, Announce
  <2>5. removeDue' # {} => AllCurrent'
    <3>1. CASE removeDue # {}
      BY <1>1, <1>6, <3>1 DEF Published
    <3>2. CASE removeDue = {} /\ removeDue' # {}
      <4>1. Latest - 1 \in ObsoleteIn(published, tracked')
        BY <2>3, <3>2 DEF Announce
      <4>2. \A p \in Observers : tracked'[p] # Latest - 1
        BY <4>1 DEF ObsoleteIn
      <4>3. QED
        BY <1>0, <2>1, <4>2 DEF AllCurrent
    <3>3. QED
      BY <3>1, <3>2
  <2>6. QED
    BY <1>0, <1>6, <2>1, <2>4, <2>5 DEF Published, RotationInv, Free
<1> QED
  BY <1>5, <1>6 DEF RotationInv

\* The stages follow one another: Settled, Rotating, Published, Removing.
LEMMA RotationInvStep ==
  ASSUME Reliable, OperatorWaits, TypeOK, FileInv, RotationInv, [Next]_vars
  PROVE  RotationInv'
<1>0. /\ ControllerTypes /\ SecretTypes /\ HookTypes
      /\ Latest \in Nat \ {0} /\ Latest = Len(published)
      /\ Consumers \subseteq Observers /\ Controllers \subseteq Observers
  BY StateFacts DEF TypeOK, Observers, Latest
<1>1. ASSUME NEW u \in Controllers, RotateApply(u) PROVE RotationInv'
  <2>1. Settled
    BY <1>1 DEF RotateApply, Applied, RotationInv, Settled, Rotating, Published, Removing, Free, NoHook
  <2>2. Len(jwks') = 2
    <3>1. Len(jwks') = Len(jwks) + 1
      BY <1>0, <1>1, StateFacts DEF RotateApply, Applied, ControllerTypes
    <3>2. QED
      BY <2>1, <3>1 DEF Settled
  <2>3. hook'[u].op = "rotate"
    BY <1>0, <1>1 DEF RotateApply, Applied, HookTypes
  <2>4. UNCHANGED <<published, tracked, removed, removeDue>>
    BY <1>1 DEF RotateApply, Applied, jujuVars
  <2>5. QED
    BY <2>1, <2>2, <2>3, <2>4 DEF Settled, Rotating, RotationInv, AllCurrent, Latest
<1>2. ASSUME NEW u \in Controllers, NEW r \in removeDue, KeepLatestKey(u, r) PROVE RotationInv'
  <2>1. Published
    <3>1. ~Rotating
      BY <1>2 DEF Rotating
    <3>2. QED
      BY <1>2, <3>1 DEF RotationInv, Settled, Removing
  <2>2. r = Latest - 1 /\ AllCurrent /\ removeDue' = {}
    BY <1>2, <2>1 DEF Published, KeepLatestKey, LatestKept
  <2>3. hook'[u].op = "remove" /\ hook'[u].rev = r
    BY <1>0, <1>2 DEF KeepLatestKey, LatestKept, HookTypes
  <2>4. Len(jwks') = 1 /\ UNCHANGED <<published, tracked, removed>>
    BY <1>2 DEF KeepLatestKey, LatestKept
  <2>5. QED
    BY <2>1, <2>2, <2>3, <2>4 DEF Published, Removing, RotationInv, AllCurrent, Latest
<1>3. ASSUME NEW u \in Controllers, Reconfigure(u) PROVE RotationInv'
  <2>1. Rotating \/ Removing
    BY <1>3 DEF Reconfigure, Restarted, RotationInv, Settled, Published, Free, NoHook
  <2>2. \A v \in Controllers : hook'[v].op = hook[v].op /\ hook'[v].rev = hook[v].rev
    BY <1>0, <1>3 DEF Reconfigure, Restarted, HookTypes, Hooks
  <2>3. UNCHANGED <<jwks, jujuVars>>
    BY <1>3 DEF Reconfigure, Restarted
  <2>4. QED
    BY <2>1, <2>2, <2>3 DEF Rotating, Removing, RotationInv, AllCurrent, Latest, jujuVars
<1>4. ASSUME NEW u \in Controllers, RotateCommit(u) PROVE RotationInv'
  <2>1. Rotating
    <3>1. ~Settled /\ ~Published
      BY <1>4 DEF RotateCommit, Settled, Published, Free, NoHook
    <3>2. ~Removing
      BY <1>0, <1>4 DEF RotateCommit, Removing, FileInv
    <3>3. QED
      BY <3>1, <3>2 DEF RotationInv
  <2>2. \A v \in Controllers : hook'[v] = NoHook
    BY <1>0, <1>4 DEF RotateCommit, HookTypes, FileInv, Free
  <2>3. /\ Latest' = Latest + 1 /\ published'[Latest] = published[Latest]
        /\ UNCHANGED <<jwks, tracked, removed>>
    BY <1>0, <1>4 DEF RotateCommit, SecretTypes, HookTypes, Latest
  <2>4. jwks[1] = published[Latest]
    BY <1>4, <2>1 DEF RotateCommit, Rotating, FileInv
  <2>5. 1..(Latest - 1) \subseteq Obsolete
    BY <1>0, <2>1 DEF Rotating, AllCurrent, Obsolete, ObsoleteIn
  <2>6. ObsoleteIn(published', tracked) \subseteq 1..Latest
    BY <1>0, <2>3 DEF ObsoleteIn, Latest
  <2>7. removeDue' \subseteq {Latest} /\ removeDue' \subseteq ObsoleteIn(published', tracked)
    <3>1. \A r \in 1..Latest : r \in 1..(Latest - 1) \/ r = Latest
      BY <1>0
    <3>2. QED
      BY <1>4, <2>1, <2>5, <2>6, <3>1 DEF RotateCommit, Announce, Rotating
  <2>8. removeDue' # {} => AllCurrent'
    BY <2>1, <2>3, <2>7 DEF Rotating, AllCurrent, ObsoleteIn
  <2>9. Published'
    BY <1>0, <2>1, <2>2, <2>3, <2>4, <2>7, <2>8 DEF Published, Rotating, AllCurrent, Free
  <2>10. QED
    BY <2>9 DEF RotationInv
<1>5. ASSUME NEW u \in Controllers, RemoveCommit(u) PROVE RotationInv'
  <2>1. Removing
    <3>1. ~Settled /\ ~Published
      BY <1>5 DEF RemoveCommit, Settled, Published, Free, NoHook
    <3>2. ~Rotating
      BY <1>0, <1>5 DEF RemoveCommit, Rotating, FileInv, Free, NoHook
    <3>3. QED
      BY <3>1, <3>2 DEF RotationInv
  <2>2. hook[u].rev = Latest - 1 /\ \A v \in Controllers : hook'[v] = NoHook
    <3>1. \A v \in Controllers : ~Free(v) => v = u
      BY <1>5 DEF RemoveCommit, FileInv, Free, NoHook
    <3>2. hook[u].rev = Latest - 1
      BY <2>1, <3>1 DEF Removing, Free, NoHook
    <3>3. QED
      BY <1>0, <1>5, <3>1, <3>2 DEF RemoveCommit, HookTypes, Free
  <2>3. \A r \in 1..(Latest - 1) : r \in 1..(Latest - 2) \/ r = Latest - 1
    BY <1>0
  <2>4. 1..(Latest - 1) \subseteq removed'
    BY <1>5, <2>1, <2>2, <2>3 DEF RemoveCommit, Removing
  <2>5. Settled'
    BY <1>5, <2>1, <2>2, <2>4 DEF RemoveCommit, Removing, Settled, AllCurrent, Free, Latest
  <2>6. QED
    BY <2>5 DEF RotationInv
<1>6. ASSUME NEW u \in Controllers, LeaderElected(u) PROVE RotationInv'
  <2>1. \A v \in Controllers : Free(v)
    BY <1>6 DEF LeaderElected, Reliable
  <2>2. Settled \/ Published
    BY <2>1 DEF RotationInv, Rotating, Removing, Free, NoHook
  <2>3. UNCHANGED <<jwks, hook, published, tracked, removed>>
    BY <1>6 DEF LeaderElected
  <2>4. CASE Settled
    <3>1. removeDue' = {}
      BY <1>6, <2>4 DEF LeaderElected, Settled, Obsolete, ObsoleteIn, Latest
    <3>2. QED
      BY <2>3, <2>4, <3>1 DEF Settled, RotationInv, AllCurrent, Free, Latest
  <2>5. CASE Published
    <3>1. \A r \in 1..(Latest - 1) : r \in 1..(Latest - 2) \/ r = Latest - 1
      BY <1>0
    <3>2. removeDue' \subseteq removeDue \cup (Obsolete \cap {Latest - 1})
      BY <1>6, <2>5, <3>1 DEF LeaderElected, Published, Obsolete, ObsoleteIn, Latest
    <3>3. Latest - 1 \in Obsolete => AllCurrent
      BY <2>5 DEF Published, Obsolete, ObsoleteIn, AllCurrent
    <3>4. removeDue' \subseteq {Latest - 1} /\ (removeDue' # {} => AllCurrent)
      BY <2>5, <3>2, <3>3 DEF Published
    <3>5. QED
      BY <2>3, <2>5, <3>4 DEF Published, RotationInv, AllCurrent, Free, Latest
  <2>6. QED
    BY <2>2, <2>4, <2>5
<1>7. ASSUME UNCHANGED <<jwks, hook, published, removed, removeDue, tracked>> PROVE RotationInv'
  BY <1>7 DEF RotationInv, Settled, Rotating, Published, Removing, AllCurrent, Free, Latest
<1>8. ASSUME NEW u \in Controllers, LeaderHook(u) PROVE RotationInv'
  <2>1. ~RestartFails(u) /\ ~ScontrolFails(u) /\ ~HookDies(u)
    BY DEF RestartFails, ScontrolFails, HookDies, LatestKept, Reliable
  <2>2. ~PublishFails(u)
    <3>1. hook[u].op = "rotate" => u = leader
      BY DEF FileInv, Free, NoHook
    <3>2. QED
      BY <3>1 DEF PublishFails, Reliable
  <2>3. QED
    BY <1>1, <1>2, <1>3, <1>4, <1>5, <1>8, <2>1, <2>2 DEF LeaderHook
<1>9. ASSUME NEW u \in Controllers, ControllerStep(u) PROVE RotationInv'
  <2>1. CASE ControllerSecretChanged(u)
    BY <1>0, <2>1, TrackingStep DEF ControllerSecretChanged, ctlVars
  <2>2. QED
    BY <1>6, <1>7, <1>9, <2>1 DEF ControllerStep, RestartSignalled, SlurmctldDies,
       SlurmctldStarts, ctlVars, jujuVars
<1>10. ASSUME NEW c \in Consumers, ConsumerStep(c) PROVE RotationInv'
  <2>1. CASE ControllerReady(c) /\ tracked[c] = 0
    BY <1>0, <2>1, TrackingStep DEF ControllerReady, Announce, ctlVars
  <2>2. CASE ControllerReady(c) /\ tracked[c] # 0
    BY <1>0, <1>7, <2>2 DEF ControllerReady, SecretTypes, ctlVars
  <2>3. CASE SecretRefresh(c) \/ Disconnect(c)
    BY <1>0, <2>3, TrackingStep DEF SecretRefresh, Disconnect, ctlVars
  <2>4. QED
    BY <1>7, <1>10, <2>1, <2>2, <2>3 DEF ConsumerStep, SecretWrite, SecretReload,
       SecretChangedFails, ServiceRestarts, ctlVars, jujuVars
<1> QED
  BY <1>7, <1>8, <1>9, <1>10 DEF Next, vars, ctlVars, jujuVars

\* Every revision an observer tracks has its key on file, so a consumer is never
\* locked out except while it is itself changing keys.
THEOREM NoLockoutEver ==
  ASSUME Reliable, OperatorWaits
  PROVE  Spec => []NoLockout
<1>1. Init => TypeOK /\ FileInv /\ ConsumerInv /\ RotationInv
  <2>1. Init => RotationInv
    BY DEF Init, RotationInv, Settled, AllCurrent, Free, NoHook, Latest
  <2>2. QED
    BY <2>1, InitType, LockoutInit
<1>2. TypeOK /\ FileInv /\ ConsumerInv /\ RotationInv /\ [Next]_vars
        => (TypeOK /\ FileInv /\ ConsumerInv /\ RotationInv)'
  BY Reliable, OperatorWaits, TypeStep, FileInvStep, ConsumerInvStep, RotationInvStep
<1>3. TypeOK /\ FileInv /\ ConsumerInv /\ RotationInv => NoLockout
  <2> SUFFICES ASSUME TypeOK, FileInv, ConsumerInv, RotationInv,
                      NEW c \in Consumers, loaded[c] # 0, ~Handling(c)
               PROVE  loaded[c] \in FileKeys
    BY DEF NoLockout, LockedOut
  <2>1. /\ tracked[c] # 0 /\ loaded[c] = published[tracked[c]] /\ c \in Observers
        /\ Latest \in Nat \ {0}
    BY StateFacts DEF ConsumerInv, Observers
  <2>2. published[Latest] \in FileKeys
    BY LatestOnFile DEF PublishedKeyOnFile
  <2>3. CASE AllCurrent
    BY <2>1, <2>2, <2>3 DEF AllCurrent
  <2>4. CASE Published
    <3>1. tracked[c] \in {Latest - 1, Latest}
      BY <2>1, <2>4 DEF Published
    <3>2. published[Latest - 1] \in FileKeys
      BY <2>4 DEF Published, FileKeys
    <3>3. QED
      BY <2>1, <2>2, <3>1, <3>2
  <2>5. QED
    BY <2>3, <2>4 DEF RotationInv, Settled, Rotating, Removing
<1> QED
  BY <1>1, <1>2, <1>3, PTL DEF Spec

----------------------------------------------------------------------------
(* Publication after the load, with every fault.  A leader that rotates    *)
(* has not changed since it wrote the key, and nobody else writes the file *)
(* meanwhile.                                                              *)

\* The key the leader rotates in is on file, and once its slurmctld is restarted
\* the running service has it.
LoadedInv ==
  hook[leader].op = "rotate" =>
    /\ hook[leader].rev \in FileKeys
    /\ hook[leader].step = "restarted" /\ active[leader] =>
         hook[leader].rev \in running[leader]

\* The file, and the leader's hook and service, are as they were, or the hook
\* has ended.
LEMMA LoadedKept ==
  ASSUME TypeOK, LoadedInv, UNCHANGED <<leader, jwks>>,
         hook'[leader] = hook[leader] \/ hook'[leader] = NoHook,
         \/ active'[leader] = active[leader] /\ running'[leader] = running[leader]
         \/ ~active'[leader]
         \/ running'[leader] = FileKeys
  PROVE  LoadedInv'
  BY DEF LoadedInv, FileKeys, NoHook

LEMMA LoadedStep ==
  ASSUME TypeOK, LoadedInv, [Next]_vars
  PROVE  LoadedInv'
<1>0. /\ leader \in Controllers /\ jwks \in Seq(Keys) /\ jwks # <<>>
      /\ hook \in [Controllers -> Hooks] /\ active \in [Controllers -> BOOLEAN]
      /\ running \in [Controllers -> SUBSET Keys]
  BY DEF TypeOK, ControllerTypes, HookTypes
<1>1. ASSUME NEW u \in Controllers, RotateApply(u) PROVE LoadedInv'
  <2>1. generated + 1 \in FileKeys'
    <3>1. Len(jwks') = Len(jwks) + 1 /\ jwks'[Len(jwks) + 1] = generated + 1
      BY <1>0, <1>1 DEF RotateApply, Applied
    <3> QED
      BY <1>0, <3>1 DEF FileKeys
  <2>2. hook'[leader'].rev = generated + 1 /\ hook'[leader'].step = "file"
    BY <1>0, <1>1 DEF RotateApply
  <2> QED
    BY <2>1, <2>2 DEF LoadedInv
<1>2. ASSUME NEW u \in Controllers, NEW r \in removeDue, KeepLatestKey(u, r)
      PROVE  LoadedInv'
  BY <1>0, <1>2 DEF KeepLatestKey, LoadedInv
<1>3. ASSUME NEW u \in Controllers, Reconfigure(u) PROVE LoadedInv'
  <2>1. CASE u = leader
    <3>1. hook'[leader].op = hook[leader].op /\ hook'[leader].rev = hook[leader].rev
      BY <1>0, <1>3, <2>1 DEF Reconfigure, Hooks
    <3>2. active[leader] => running'[leader] = FileKeys
      BY <1>0, <1>3, <2>1 DEF Reconfigure, Restarted
    <3> QED
      BY <1>3, <3>1, <3>2 DEF Reconfigure, LoadedInv, FileKeys
  <2>2. CASE u # leader
    <3>1. hook'[leader] = hook[leader] /\ running'[leader] = running[leader]
      BY <1>0, <1>3, <2>2 DEF Reconfigure, Restarted
    <3> QED
      BY <1>3, <3>1, LoadedKept DEF Reconfigure
  <2> QED
    BY <2>1, <2>2
<1>4. ASSUME NEW u \in Controllers,
             \/ RestartFails(u) \/ ScontrolFails(u)
             \/ RotateCommit(u) \/ PublishFails(u) \/ RemoveCommit(u)
      PROVE  LoadedInv'
  <2>1. UNCHANGED <<leader, jwks>> /\ (hook'[leader] = hook[leader] \/ hook'[leader] = NoHook)
    BY <1>0, <1>4 DEF RestartFails, ScontrolFails, RotateCommit, PublishFails, RemoveCommit
  <2>2. \/ active'[leader] = active[leader] /\ running'[leader] = running[leader]
        \/ ~active'[leader]
        \/ running'[leader] = FileKeys
    BY <1>0, <1>4
    DEF RestartFails, ScontrolFails, RotateCommit, PublishFails, RemoveCommit, Restarted
  <2> QED
    BY <2>1, <2>2, LoadedKept
<1>5. ASSUME NEW u \in Controllers, HookDies(u) PROVE LoadedInv'
  <2>1. CASE hook[u].op = "remove" /\ u = leader
    <3>1. hook'[leader].op = "remove"
      BY <1>0, <1>5, <2>1 DEF HookDies, Hooks
    <3> QED
      BY <1>5, <3>1 DEF HookDies, LoadedInv
  <2>2. CASE ~(hook[u].op = "remove" /\ u = leader)
    BY <1>0, <1>5, <2>2, LoadedKept DEF HookDies
  <2> QED
    BY <2>1, <2>2
<1>6. ASSUME NEW u \in Controllers,
             \/ ControllerSecretChanged(u) \/ RestartSignalled(u)
             \/ SlurmctldDies(u) \/ SlurmctldStarts(u)
      PROVE  LoadedInv'
  <2>1. UNCHANGED <<leader, jwks, hook>>
    BY <1>6 DEF ControllerSecretChanged, RestartSignalled, SlurmctldDies, SlurmctldStarts, ctlVars
  <2>2. \/ active'[leader] = active[leader] /\ running'[leader] = running[leader]
        \/ ~active'[leader]
        \/ running'[leader] = FileKeys
    BY <1>0, <1>6 DEF ControllerSecretChanged, RestartSignalled, SlurmctldDies, SlurmctldStarts,
                      Restarted, ctlVars
  <2> QED
    BY <2>1, <2>2, LoadedKept
<1>7. ASSUME NEW u \in Controllers, LeaderElected(u) PROVE LoadedInv'
  BY <1>7 DEF LeaderElected, Free, NoHook, LoadedInv
<1>8. CASE UNCHANGED ctlVars
  BY <1>8, LoadedKept DEF ctlVars
<1>9. ASSUME NEW c \in Consumers, ConsumerStep(c) PROVE UNCHANGED ctlVars
  BY <1>9 DEF ConsumerStep, ControllerReady, SecretRefresh, SecretWrite, SecretReload,
              SecretChangedFails, ServiceRestarts, Disconnect
<1> QED
  BY <1>1, <1>2, <1>3, <1>4, <1>5, <1>6, <1>7, <1>8, <1>9
  DEF Next, LeaderHook, ControllerStep, vars

\* Only RotateCommit publishes, and it publishes the key the leader rotates in.
LEMMA PublicationStep ==
  ASSUME TypeOK, LoadedInv, [Next]_vars, published' # published, active[leader]
  PROVE  published'[Len(published')] \in running[leader]
<1>1. PICK u \in Controllers : RotateCommit(u)
  BY DEF Next, LeaderHook, ControllerStep, ConsumerStep, vars, jujuVars,
         RotateApply, KeepLatestKey, Reconfigure, RestartFails, ScontrolFails, PublishFails,
         RemoveCommit, HookDies, ControllerSecretChanged, RestartSignalled, LeaderElected,
         SlurmctldDies, SlurmctldStarts, ControllerReady, SecretRefresh, SecretWrite,
         SecretReload, SecretChangedFails, ServiceRestarts, Disconnect
<1>2. u = leader /\ hook[leader].rev \in running[leader]
  BY <1>1 DEF RotateCommit, LoadedInv
<1>3. published'[Len(published')] = hook[u].rev
  BY <1>1 DEF RotateCommit, TypeOK, SecretTypes
<1> QED
  BY <1>2, <1>3

\* A key is published only when the leader's own slurmctld, if it runs, accepts
\* it, whatever fails and whoever leads.
THEOREM PublishedAfterLoad == Spec => PublishAfterLoad
<1>1. Init => LoadedInv
  BY DEF Init, LoadedInv, NoHook
<1>2. TypeOK /\ LoadedInv /\ [Next]_vars => LoadedInv'
  BY LoadedStep
<1>3. TypeOK /\ LoadedInv /\ [Next]_vars =>
        [published' # published =>
           (active[leader] => published'[Len(published')] \in running[leader])]_vars
  BY PublicationStep
<1> QED
  BY <1>1, <1>2, <1>3, TypeCorrect, PTL DEF Spec, PublishAfterLoad

----------------------------------------------------------------------------
(* Old keys are revoked, when restarts succeed, no service or agent dies   *)
(* and leadership outlives a hook.                                         *)

Undisturbed == Faults \cap {"reconfigure", "leadership", "hook", "crash"} = {}

\* Every slurmctld runs.  One that has not the keys on file is restarted by the
\* leader's hook, or by a signal that is delivered or will be at its end.
RevokedInv ==
  /\ \A u \in Controllers : active[u]
  /\ \A u \in Controllers : ~Free(u) => u = leader
  /\ hook[leader].step = "restarted" => hook[leader].signal
  /\ hook[leader].step = "file" \/ running[leader] = FileKeys
  /\ \A u \in Controllers \ {leader} :
       running[u] = FileKeys \/ u \in restartDue \/ hook[leader].step # "none"

LEMMA RevokedStep ==
  ASSUME Undisturbed, TypeOK, RevokedInv, [Next]_vars
  PROVE  RevokedInv'
<1>0. /\ leader \in Controllers /\ restartDue \subseteq Controllers
      /\ hook \in [Controllers -> Hooks] /\ active \in [Controllers -> BOOLEAN]
      /\ running \in [Controllers -> SUBSET Keys]
  BY DEF TypeOK, ControllerTypes, HookTypes
<1> USE DEF RevokedInv, Free, NoHook
<1>1. ASSUME NEW u \in Controllers,
             RotateApply(u) \/ \E r \in removeDue : KeepLatestKey(u, r)
      PROVE  RevokedInv'
  <2>1. /\ u = leader /\ UNCHANGED <<leader, active>>
        /\ hook'[leader].step = "file"
        /\ \A v \in Controllers \ {leader} : hook'[v] = hook[v]
    BY <1>0, <1>1 DEF RotateApply, KeepLatestKey
  <2> QED
    BY <2>1
<1>2. ASSUME NEW u \in Controllers, Reconfigure(u) PROVE RevokedInv'
  <2>1. u = leader /\ active[u] /\ UNCHANGED <<leader, jwks, active, restartDue>>
    BY <1>2 DEF Reconfigure
  <2>2. /\ hook'[leader].step = "restarted" /\ hook'[leader].signal
        /\ running'[leader] = FileKeys
        /\ \A v \in Controllers \ {leader} : hook'[v] = hook[v]
    BY <1>0, <1>2, <2>1 DEF Reconfigure, Restarted, Hooks
  <2> QED
    BY <2>1, <2>2 DEF FileKeys
<1>3. ASSUME NEW u \in Controllers, RotateCommit(u) \/ PublishFails(u) \/ RemoveCommit(u)
      PROVE  RevokedInv'
  <2>1. u = leader /\ UNCHANGED <<leader, jwks, active, running>>
    BY <1>3 DEF RotateCommit, PublishFails, RemoveCommit
  <2>2. /\ hook[leader].step = "restarted"
        /\ restartDue' = restartDue \cup (Controllers \ {leader})
        /\ \A v \in Controllers : hook'[v] = NoHook
    BY <1>0, <1>3, <2>1 DEF RotateCommit, PublishFails, RemoveCommit, DeliverSignal
  <2> QED
    BY <1>0, <2>1, <2>2 DEF FileKeys
<1>4. ASSUME NEW u \in Controllers, ControllerSecretChanged(u) PROVE RevokedInv'
  BY <1>4 DEF ControllerSecretChanged, ctlVars, FileKeys
<1>5. ASSUME NEW u \in Controllers, RestartSignalled(u) PROVE RevokedInv'
  <2>1. UNCHANGED <<leader, jwks, hook>> /\ restartDue' = restartDue \ {u}
    BY <1>5 DEF RestartSignalled
  <2>2. \A v \in Controllers : active'[v]
    BY <1>0, <1>5 DEF RestartSignalled
  <2>3. /\ running'[leader] = running[leader]
        /\ \A v \in Controllers \ {u} : running'[v] = running[v]
        /\ u # leader => running'[u] = FileKeys
    BY <1>0, <1>5 DEF RestartSignalled, Restarted
  <2> QED
    BY <1>0, <2>1, <2>2, <2>3 DEF FileKeys
<1>6. ASSUME NEW u \in Controllers, LeaderElected(u) PROVE RevokedInv'
  <2>1. /\ \A v \in Controllers : hook[v] = NoHook
        /\ leader' = u /\ UNCHANGED <<jwks, active, hook>>
        /\ running'[u] = FileKeys /\ restartDue' = Controllers \ {u}
    BY <1>0, <1>6, Undisturbed DEF LeaderElected, Restarted, Undisturbed
  <2> QED
    BY <1>0, <2>1 DEF FileKeys
<1>7. ASSUME NEW u \in Controllers,
             \/ RestartFails(u) \/ ScontrolFails(u) \/ HookDies(u)
             \/ SlurmctldDies(u) \/ SlurmctldStarts(u)
      PROVE  FALSE
  BY <1>7, Undisturbed
  DEF RestartFails, ScontrolFails, HookDies, SlurmctldDies, SlurmctldStarts, Undisturbed
<1>8. CASE UNCHANGED ctlVars
  BY <1>8 DEF ctlVars, FileKeys
<1>9. ASSUME NEW c \in Consumers, ConsumerStep(c) PROVE UNCHANGED ctlVars
  BY <1>9 DEF ConsumerStep, ControllerReady, SecretRefresh, SecretWrite, SecretReload,
              SecretChangedFails, ServiceRestarts, Disconnect
<1> QED
  BY <1>1, <1>2, <1>3, <1>4, <1>5, <1>6, <1>7, <1>8, <1>9
  DEF Next, LeaderHook, ControllerStep, vars

\* When no hook runs and no restart signal is out, every slurmctld has exactly
\* the keys on file: a key that was dropped is no longer accepted anywhere.
THEOREM OldKeysAreRevoked ==
  ASSUME Undisturbed
  PROVE  Spec => []OldKeysRevoked
<1>1. Init => RevokedInv
  BY ControllersNonEmpty DEF Init, RevokedInv, Free, NoHook, FileKeys
<1>2. TypeOK /\ RevokedInv /\ [Next]_vars => RevokedInv'
  BY Undisturbed, RevokedStep
<1>3. TypeOK /\ RevokedInv => OldKeysRevoked
  BY DEF RevokedInv, OldKeysRevoked, Free, NoHook, TypeOK, ControllerTypes
<1> QED
  BY <1>1, <1>2, <1>3, TypeCorrect, PTL DEF Spec

----------------------------------------------------------------------------
(* The promise of RotationPromise, in a reliable environment.              *)

Behind == {c \in Consumers : Handling(c) \/ tracked[c] \in 1..(Latest - 1)}
OfferedKeys == {published[r] : r \in Revisions}

\* A consumer's key file has a key that was published, whatever became of the rest
\* of the handler that wrote it.
KeyFileInv == \A c \in Consumers : keyFile[c] \in {0} \cup OfferedKeys

PromiseInv == TypeOK /\ FileInv /\ ConsumerInv /\ KeyFileInv

\* What RotationPromise speaks of, in terms of this specification.
LEMMA PromiseTerms ==
  /\ Promise!vars = <<FileKeys, published, loaded, Behind>>
  /\ Promise!Current = published[Latest]
  /\ Promise!Offered = OfferedKeys
  BY DEF Promise!vars, Promise!Current, Promise!Offered, Behind, Latest, OfferedKeys, Revisions

\* Only RotateCommit adds to what was published, and it keeps the rest.
LEMMA OfferedGrows ==
  ASSUME TypeOK, [Next]_vars
  PROVE  OfferedKeys \subseteq OfferedKeys'
<1>1. \/ published' = published
      \/ \E u \in Controllers : RotateCommit(u)
  BY DEF Next, LeaderHook, ControllerStep, ConsumerStep, vars, jujuVars,
         RotateApply, KeepLatestKey, Reconfigure, RestartFails, ScontrolFails, PublishFails,
         RemoveCommit, HookDies, ControllerSecretChanged, RestartSignalled, LeaderElected,
         SlurmctldDies, SlurmctldStarts, ControllerReady, SecretRefresh, SecretWrite,
         SecretReload, SecretChangedFails, ServiceRestarts, Disconnect
<1>2. ASSUME NEW u \in Controllers, RotateCommit(u) PROVE OfferedKeys \subseteq OfferedKeys'
  <2>1. published' = Append(published, hook[u].rev) /\ published \in Seq(Keys)
    BY <1>2 DEF RotateCommit, TypeOK, SecretTypes
  <2>2. /\ Len(published') = Len(published) + 1
        /\ \A r \in 1..Len(published) : published'[r] = published[r]
    BY <2>1
  <2> QED
    BY <2>1, <2>2 DEF OfferedKeys, Revisions
<1> QED
  BY <1>1, <1>2 DEF OfferedKeys, Revisions

LEMMA KeyFileStep ==
  ASSUME TypeOK, KeyFileInv, [Next]_vars
  PROVE  KeyFileInv'
<1>0. /\ keyFile \in [Consumers -> Keys \cup {0}] /\ OfferedKeys \subseteq OfferedKeys'
      /\ \A c \in Consumers : tracked[c] # 0 => published[tracked[c]] \in OfferedKeys
      /\ \A c \in Consumers : phase[c] # "idle" => tracked[c] # 0
      /\ published[Latest] \in OfferedKeys
  BY OfferedGrows, StateFacts DEF TypeOK, ConsumerTypes, SecretTypes, OfferedKeys, Observers, Revisions
<1>1. ASSUME NEW c \in Consumers, ControllerReady(c) PROVE KeyFileInv'
  <2>1. PICK k \in OfferedKeys : keyFile' = [keyFile EXCEPT ![c] = k]
    BY <1>0, <1>1 DEF ControllerReady
  <2> QED
    BY <1>0, <2>1 DEF KeyFileInv
<1>2. ASSUME NEW c \in Consumers, SecretWrite(c) PROVE KeyFileInv'
  <2>1. PICK k \in OfferedKeys : keyFile' = [keyFile EXCEPT ![c] = k]
    BY <1>0, <1>2 DEF SecretWrite
  <2> QED
    BY <1>0, <2>1 DEF KeyFileInv
<1>3. CASE UNCHANGED keyFile
  BY <1>0, <1>3 DEF KeyFileInv
<1>4. ASSUME NEW c \in Consumers,
             \/ SecretRefresh(c) \/ SecretReload(c) \/ SecretChangedFails(c)
             \/ ServiceRestarts(c) \/ Disconnect(c)
      PROVE  UNCHANGED keyFile
  BY <1>4 DEF SecretRefresh, SecretReload, SecretChangedFails, ServiceRestarts, Disconnect
<1>5. ASSUME NEW u \in Controllers, LeaderHook(u) \/ ControllerStep(u) PROVE UNCHANGED keyFile
  BY <1>5 DEF LeaderHook, ControllerStep, conVars,
         RotateApply, KeepLatestKey, Reconfigure, RestartFails, ScontrolFails, RotateCommit,
         PublishFails, RemoveCommit, HookDies, ControllerSecretChanged, RestartSignalled,
         LeaderElected, SlurmctldDies, SlurmctldStarts
<1> QED
  BY <1>1, <1>2, <1>3, <1>4, <1>5 DEF Next, ConsumerStep, vars, conVars

\* A step of the leader introduces a key, publishes it or retires the others.
LEMMA LeaderKeepsPromise ==
  ASSUME Reliable, PromiseInv, NEW u \in Controllers, LeaderHook(u)
  PROVE  Promise!Next \/ UNCHANGED Promise!vars
<1>0. TypeOK /\ FileInv /\ ConsumerInv /\ ControllerTypes /\ HookTypes /\ SecretTypes
  BY DEF PromiseInv, TypeOK
<1>1. CASE RotateApply(u)
  <2>1. generated + 1 \in Keys
    BY <1>0, <1>1, MaxKeysPositive DEF RotateApply, ControllerTypes, Keys
  <2>2. FileKeys' = FileKeys \cup {generated + 1}
    <3>1. /\ Len(jwks') = Len(jwks) + 1 /\ jwks'[Len(jwks) + 1] = generated + 1
          /\ \A i \in 1..Len(jwks) : jwks'[i] = jwks[i]
          /\ Len(jwks) \in Nat
      BY <1>0, <1>1 DEF RotateApply, Applied, ControllerTypes
    <3> QED
      BY <3>1 DEF FileKeys
  <2>3. UNCHANGED <<published, loaded, Behind>>
    BY <1>1 DEF RotateApply, jujuVars, conVars, Behind, Handling, Latest
  <2>4. Promise!Introduce(generated + 1)
    BY <2>2, <2>3 DEF Promise!Introduce, Behind
  <2> QED
    BY <2>1, <2>4 DEF Promise!Next
<1>2. ASSUME NEW r \in removeDue, KeepLatestKey(u, r) PROVE Promise!Next
  <2>1. jwks[Len(jwks)] = published[Latest] /\ jwks[Len(jwks)] \in FileKeys
    BY <1>0, <1>2, StateFacts DEF KeepLatestKey, FileInv, Free, NoHook, FileKeys
  <2>2. FileKeys' = {jwks[Len(jwks)]}
    BY <1>2 DEF KeepLatestKey, LatestKept, FileKeys
  <2>3. UNCHANGED <<published, loaded, Behind>>
    BY <1>2 DEF KeepLatestKey, conVars, Behind, Handling, Latest
  <2>4. Promise!Retire
    BY <2>1, <2>2, <2>3, PromiseTerms DEF Promise!Retire, Behind
  <2> QED
    BY <2>4 DEF Promise!Next
<1>3. CASE Reconfigure(u) \/ RemoveCommit(u)
  <2>1. UNCHANGED <<jwks, published, tracked, conVars>>
    BY <1>3 DEF Reconfigure, RemoveCommit, jujuVars
  <2> QED
    BY <2>1, PromiseTerms DEF Promise!vars, FileKeys, Behind, Handling, Latest, conVars
<1>4. CASE RotateCommit(u)
  <2>0. PICK k : k = hook[u].rev
    OBVIOUS
  <2>1. /\ k \in Keys /\ k \in FileKeys
        /\ published' = Append(published, k) /\ Len(published') = Latest + 1
        /\ UNCHANGED <<jwks, tracked, conVars>>
    BY <1>0, <1>4, <2>0, StateFacts DEF RotateCommit, HookTypes, FileInv, FileKeys, SecretTypes, Latest
  <2>2. Behind \cup {c \in Consumers : loaded[c] # 0} \subseteq Behind'
    <3> SUFFICES ASSUME NEW c \in Consumers, c \in Behind \/ loaded[c] # 0 PROVE c \in Behind'
      BY DEF Behind
    <3>1. tracked[c] \in 0..Latest /\ Latest \in Nat
      BY <1>0, StateFacts DEF SecretTypes, Revisions, Observers, Latest
    <3>2. Handling(c) \/ tracked[c] # 0
      BY DEF Behind, PromiseInv, ConsumerInv
    <3>3. Handling(c)' <=> Handling(c)
      BY <2>1 DEF Handling, conVars
    <3> QED
      BY <2>1, <3>1, <3>2, <3>3 DEF Behind, Latest
  <2>3. Behind' \in SUBSET Consumers
    BY DEF Behind
  <2>4. UNCHANGED <<FileKeys, loaded>>
    BY <2>1 DEF FileKeys, conVars
  <2>5. k \in Keys /\ Promise!Publish(k)
    BY <2>1, <2>2, <2>3, <2>4 DEF Promise!Publish, Behind
  <2> QED
    BY <2>5 DEF Promise!Next
<1>5. ~RestartFails(u) /\ ~ScontrolFails(u) /\ ~HookDies(u) /\ ~PublishFails(u)
  <2>1. hook[u].op = "rotate" => u = leader
    BY <1>0 DEF FileInv, Free, NoHook
  <2> QED
    BY <2>1 DEF RestartFails, ScontrolFails, HookDies, PublishFails, Reliable
<1> QED
  BY <1>1, <1>2, <1>3, <1>4, <1>5 DEF LeaderHook

\* The other controllers only load keys and move the revision they track themselves.
LEMMA ControllersKeepPromise ==
  ASSUME PromiseInv, NEW u \in Controllers, ControllerStep(u)
  PROVE  UNCHANGED Promise!vars
<1>1. UNCHANGED <<jwks, published, conVars>> /\ \A c \in Consumers : tracked'[c] = tracked[c]
  BY RolesDisjoint DEF PromiseInv, TypeOK, SecretTypes, Observers, ControllerStep,
     ControllerSecretChanged, RestartSignalled, LeaderElected, SlurmctldDies, SlurmctldStarts,
     ctlVars, jujuVars
<1> QED
  BY <1>1 DEF Promise!vars, FileKeys, Handling, Latest, conVars

\* A step of a consumer is that of one that has nothing to handle, lags or settles.
LEMMA ConsumersKeepPromise ==
  ASSUME PromiseInv, PromiseInv', NEW c \in Consumers, ConsumerStep(c)
  PROVE  Promise!Next \/ UNCHANGED Promise!vars
<1>0. /\ ConsumerInv /\ SecretTypes /\ ConsumerTypes /\ c \in Observers
      /\ tracked[c] \in 0..Latest /\ Latest \in Nat \ {0}
      /\ tracked[c] # 0 => published[tracked[c]] \in OfferedKeys
      /\ published[Latest] \in OfferedKeys
      /\ keyFile[c] \in {0} \cup OfferedKeys
  BY StateFacts DEF PromiseInv, TypeOK, SecretTypes, Revisions, Observers, Latest, OfferedKeys, KeyFileInv
\* At rest a consumer uses the key on offer, or none.
<1>1. c \notin Behind => /\ ~Handling(c) /\ tracked[c] \in {0, Latest}
                         /\ loaded[c] \in {0, published[Latest]}
                         /\ loaded[c] # 0 => keyFile[c] = published[Latest]
  BY <1>0 DEF Behind, ConsumerInv
<1>2. UNCHANGED <<jwks, published, FileKeys, Latest>>
  BY DEF ConsumerStep, ControllerReady, SecretRefresh, SecretWrite, SecretReload, SecretChangedFails,
         ServiceRestarts, Disconnect, ctlVars, jujuVars, FileKeys, Latest
\* The three ways in which a consumer may move.
<1>serve. ASSUME c \notin Behind, Behind' = Behind,
                 NEW k \in {0, published[Latest]}, loaded' = [loaded EXCEPT ![c] = k]
          PROVE  Promise!Next
  BY <1>2, <1>serve, PromiseTerms DEF Promise!Next, Promise!Serve, Promise!Runs, Behind
<1>lag. ASSUME c \in Behind, Behind' = Behind,
               NEW k \in {0} \cup OfferedKeys, loaded' = [loaded EXCEPT ![c] = k]
        PROVE  Promise!Next
  BY <1>2, <1>lag, PromiseTerms DEF Promise!Next, Promise!Lag, Promise!Runs, Behind
<1>settle. ASSUME c \in Behind, Behind' = Behind \ {c},
                  NEW k \in {0, published[Latest]}, loaded' = [loaded EXCEPT ![c] = k]
           PROVE  Promise!Next
  BY <1>2, <1>settle, PromiseTerms DEF Promise!Next, Promise!Settle, Promise!Runs, Behind
<1>stutter. ASSUME Behind' = Behind, loaded' = loaded PROVE UNCHANGED Promise!vars
  BY <1>2, <1>stutter, PromiseTerms DEF Promise!vars, Behind
\* Nobody else is affected.
<1>others. ASSUME \A o \in Consumers \ {c} :
                    phase'[o] = phase[o] /\ tracked'[o] = tracked[o] /\ (o \in deferred' <=> o \in deferred)
           PROVE  Behind' = IF c \in Behind' THEN Behind \cup {c} ELSE Behind \ {c}
  BY <1>2, <1>others DEF Behind, Handling
<1>3. CASE ControllerReady(c)
  <2>1. /\ \A o \in Consumers \ {c} :
             phase'[o] = phase[o] /\ tracked'[o] = tracked[o] /\ (o \in deferred' <=> o \in deferred)
        /\ Handling(c)' <=> Handling(c)
        /\ tracked'[c] = IF tracked[c] = 0 THEN Latest ELSE tracked[c]
    BY <1>0, <1>3 DEF ControllerReady, SecretTypes, Handling
  <2>2. Behind' = Behind
    <3>1. c \in Behind' <=> c \in Behind
      BY <1>0, <1>2, <2>1 DEF Behind
    <3> QED
      BY <2>1, <3>1, <1>others
  <2>3. PICK k \in {0, loaded[c], published[IF tracked[c] = 0 THEN Latest ELSE tracked[c]]} :
          loaded' = [loaded EXCEPT ![c] = k]
    BY <1>0, <1>3 DEF ControllerReady, ConsumerTypes
  <2>4. CASE k = loaded[c]
    BY <1>0, <2>2, <2>3, <2>4, <1>stutter DEF ConsumerTypes
  <2>5. CASE c \notin Behind /\ k # loaded[c]
    <3>1. k \in {0, published[Latest]}
      BY <1>1, <2>3, <2>5
    <3> QED
      BY <2>2, <2>3, <2>5, <3>1, <1>serve
  <2>6. CASE c \in Behind /\ k # loaded[c]
    <3>1. k \in {0} \cup OfferedKeys
      BY <1>0, <2>3, <2>6
    <3> QED
      BY <2>2, <2>3, <2>6, <3>1, <1>lag
  <2> QED
    BY <2>4, <2>5, <2>6
<1>4. CASE SecretRefresh(c) \/ SecretWrite(c)
  <2>1. /\ \A o \in Consumers \ {c} :
             phase'[o] = phase[o] /\ tracked'[o] = tracked[o] /\ (o \in deferred' <=> o \in deferred)
        /\ Handling(c)' /\ loaded' = loaded
        /\ Handling(c) \/ (tracked[c] # 0 /\ tracked[c] < Latest)
    <3>1. CASE SecretRefresh(c)
      BY <1>0, <3>1 DEF SecretRefresh, SecretTypes, ConsumerTypes, Handling
    <3>2. CASE SecretWrite(c)
      BY <1>0, <3>2 DEF SecretWrite, ConsumerTypes, Handling, jujuVars
    <3> QED
      BY <1>4, <3>1, <3>2
  <2>2. c \in Behind /\ c \in Behind'
    BY <1>0, <2>1 DEF Behind
  <2>3. Behind' = Behind
    BY <2>1, <2>2, <1>others
  <2> QED
    BY <2>1, <2>3, <1>stutter
<1>5. CASE SecretReload(c)
  <2>1. /\ \A o \in Consumers \ {c} :
             phase'[o] = phase[o] /\ tracked'[o] = tracked[o] /\ (o \in deferred' <=> o \in deferred)
        /\ c \in Behind
        /\ keyFile[c] = published[tracked[c]] /\ tracked[c] # 0
        /\ loaded' = [loaded EXCEPT ![c] = keyFile[c]]
        /\ ~Handling(c)' /\ tracked'[c] = tracked[c]
    BY <1>0, <1>5 DEF SecretReload, ConsumerTypes, ConsumerInv, Behind, Handling, jujuVars
  <2>2. CASE tracked[c] = Latest
    <3>1. c \notin Behind'
      BY <1>2, <2>1, <2>2 DEF Behind
    <3> QED
      BY <2>1, <2>2, <3>1, <1>others, <1>settle
  <2>3. CASE tracked[c] # Latest
    <3>1. c \in Behind' /\ keyFile[c] \in OfferedKeys
      BY <1>0, <1>2, <2>1, <2>3 DEF Behind
    <3> QED
      BY <2>1, <3>1, <1>others, <1>lag
  <2> QED
    BY <2>2, <2>3
<1>6. CASE SecretChangedFails(c)
  <2>1. /\ \A o \in Consumers \ {c} :
             phase'[o] = phase[o] /\ tracked'[o] = tracked[o] /\ (o \in deferred' <=> o \in deferred)
        /\ c \in Behind /\ c \in Behind'
    BY <1>6 DEF SecretChangedFails, ConsumerTypes, Behind, Handling, jujuVars
  <2>2. loaded' = loaded \/ loaded' = [loaded EXCEPT ![c] = 0]
    BY <1>6 DEF SecretChangedFails
  <2> QED
    BY <2>1, <2>2, <1>others, <1>lag, <1>stutter
<1>7. CASE ServiceRestarts(c)
  <2>1. Behind' = Behind /\ loaded[c] # 0 /\ loaded' = [loaded EXCEPT ![c] = keyFile[c]]
    BY <1>2, <1>7 DEF ServiceRestarts, Behind, Handling, jujuVars
  <2> QED
    BY <1>0, <1>1, <2>1, <1>serve, <1>lag
<1>8. CASE Disconnect(c)
  <2>1. /\ \A o \in Consumers \ {c} :
             phase'[o] = phase[o] /\ tracked'[o] = tracked[o] /\ (o \in deferred' <=> o \in deferred)
        /\ tracked'[c] = 0 /\ (Handling(c)' <=> Handling(c))
        /\ loaded' = [loaded EXCEPT ![c] = 0]
    BY <1>0, <1>8 DEF Disconnect, SecretTypes, Handling
  <2>2. c \in Behind' => c \in Behind
    BY <2>1 DEF Behind
  <2> QED
    BY <2>1, <2>2, <1>others, <1>serve, <1>lag, <1>settle
<1> QED
  BY <1>3, <1>4, <1>5, <1>6, <1>7, <1>8 DEF ConsumerStep

\* However rotations overlap and whatever fails at a consumer or a service, every
\* step is one that RotationPromise allows, if neither restarts, publications, hooks
\* nor leadership fail half-way: without any one of the four the promise is broken.
THEOREM PromiseIsKept ==
  ASSUME Reliable
  PROVE  Spec => KeepsPromise
<1>1. Init => PromiseInv
  BY InitType, LockoutInit DEF Init, PromiseInv, KeyFileInv
<1>2. Init => Promise!Init
  <2> SUFFICES ASSUME Init PROVE Promise!Init
    OBVIOUS
  <2>1. FileKeys = {1} /\ published = <<1>> /\ 1 \in Keys
    BY MaxKeysPositive DEF Init, FileKeys, Keys
  <2>2. Behind = {}
    BY RolesDisjoint DEF Init, Behind, Handling, Latest, Observers
  <2> QED
    BY <2>1, <2>2 DEF Promise!Init, Init, Behind
<1>3. PromiseInv /\ [Next]_vars => PromiseInv'
  BY Reliable, TypeStep, FileInvStep, ConsumerInvStep, KeyFileStep DEF PromiseInv
<1>4. PromiseInv /\ PromiseInv' /\ [Next]_vars => [Promise!Next]_(Promise!vars)
  <2> SUFFICES ASSUME PromiseInv, PromiseInv', [Next]_vars
               PROVE  [Promise!Next]_(Promise!vars)
    OBVIOUS
  <2>1. CASE UNCHANGED vars
    BY <2>1 DEF vars, ctlVars, jujuVars, conVars, Promise!vars, FileKeys, Handling, Latest
  <2> QED
    BY Reliable, <2>1, LeaderKeepsPromise, ControllersKeepPromise, ConsumersKeepPromise DEF Next
<1> QED
  BY <1>1, <1>2, <1>3, <1>4, PTL DEF Spec, KeepsPromise, Promise!Spec

\* RotationPromise keeps these between any two steps.
PromiseFacts ==
  /\ Promise!Current \in FileKeys
  /\ published \in Seq(Keys) /\ published # <<>>
  /\ loaded \in [Consumers -> {0} \cup Promise!Offered]
  /\ \A c \in Consumers \ Behind : loaded[c] \in {0, Promise!Current}

LEMMA PromiseStep ==
  ASSUME PromiseFacts, [Promise!Next]_(Promise!vars)
  PROVE  PromiseFacts'
<1> DEFINE accepted == FileKeys
           told == Behind
           Keeps == /\ published'[Len(published')] \in accepted'
                    /\ published' \in Seq(Keys) /\ published' # <<>>
                    /\ loaded' \in [Consumers -> {0} \cup OfferedKeys']
                    /\ \A c \in Consumers \ told' : loaded'[c] \in {0, published'[Len(published')]}
<1>1. /\ published[Len(published)] \in accepted
      /\ published \in Seq(Keys) /\ published # <<>>
      /\ loaded \in [Consumers -> {0} \cup OfferedKeys]
      /\ \A c \in Consumers \ told : loaded[c] \in {0, published[Len(published)]}
      /\ published[Len(published)] \in OfferedKeys
  BY PromiseTerms DEF PromiseFacts, Latest, OfferedKeys, Revisions
<1>2. SUFFICES Keeps
  BY DEF PromiseFacts, Promise!Current, Promise!Offered, OfferedKeys, Revisions
<1>3. UNCHANGED published => UNCHANGED OfferedKeys
  BY DEF OfferedKeys, Revisions
<1>4. ASSUME NEW k \in Keys, Promise!Introduce(k) PROVE Keeps
  <2>1. accepted' = accepted \cup {k} /\ UNCHANGED <<published, loaded, told>>
    BY <1>4 DEF Promise!Introduce, Behind
  <2> HIDE DEF accepted, told
  <2> QED
    BY <1>1, <1>3, <2>1
<1>5. ASSUME NEW k \in Keys, Promise!Publish(k) PROVE Keeps
  <2>1. /\ k \in accepted /\ published' = Append(published, k) /\ UNCHANGED <<accepted, loaded>>
        /\ told \cup {c \in Consumers : loaded[c] # 0} \subseteq told'
    BY <1>5 DEF Promise!Publish, Behind
  <2> HIDE DEF accepted, told
  <2>2. /\ published' \in Seq(Keys) /\ published' # <<>>
        /\ published'[Len(published')] = k
        /\ OfferedKeys \subseteq OfferedKeys'
    BY <1>1, <2>1 DEF OfferedKeys, Revisions
  <2> QED
    BY <1>1, <2>1, <2>2
<1>6. CASE Promise!Retire
  <2>1. published[Len(published)] \in accepted' /\ UNCHANGED <<published, loaded, told>>
    BY <1>6, PromiseTerms DEF Promise!Retire, Behind, Latest
  <2> HIDE DEF accepted, told
  <2> QED
    BY <1>1, <1>3, <2>1
<1>7. ASSUME NEW c \in Consumers, Promise!Serve(c) \/ Promise!Lag(c) \/ Promise!Settle(c)
      PROVE  Keeps
  <2>1. PICK k \in {0} \cup OfferedKeys :
          /\ loaded' = [loaded EXCEPT ![c] = k] /\ UNCHANGED <<accepted, published>>
          /\ \/ told' = told /\ c \in told
             \/ told' \in {told, told \ {c}} /\ k \in {0, published[Len(published)]}
    BY <1>1, <1>7, PromiseTerms DEF Promise!Serve, Promise!Lag, Promise!Settle, Promise!Runs, Behind, Latest
  <2> HIDE DEF accepted, told
  <2> QED
    BY <1>1, <1>3, <2>1
<1>8. CASE UNCHANGED Promise!vars
  <2>1. UNCHANGED <<accepted, published, loaded, told>>
    BY <1>8 DEF Promise!vars, Behind
  <2> HIDE DEF accepted, told
  <2> QED
    BY <1>1, <1>3, <2>1
<1> QED
  BY <1>4, <1>5, <1>6, <1>7, <1>8 DEF Promise!Next

\* What the promise is worth by itself, for whatever keeps it: a consumer whose key
\* is no longer accepted has something to handle that helps, and no service runs
\* with a key that was never published.
THEOREM PromiseSuffices ==
  Promise!Spec => [](Promise!NoSilentLockout /\ Promise!OnlyOffered)
<1>1. Promise!Init => PromiseFacts
  <2> SUFFICES ASSUME Promise!Init PROVE PromiseFacts
    OBVIOUS
  <2>1. PICK k \in Keys : FileKeys = {k} /\ published = <<k>>
    BY DEF Promise!Init
  <2>2. loaded = [c \in Consumers |-> 0]
    BY DEF Promise!Init
  <2>3. published \in Seq(Keys) /\ published # <<>> /\ Promise!Current = k
    BY <2>1 DEF Promise!Current
  <2> QED
    BY <2>1, <2>2, <2>3 DEF PromiseFacts
<1>2. PromiseFacts /\ [Promise!Next]_(Promise!vars) => PromiseFacts'
  BY PromiseStep
<1>3. PromiseFacts => Promise!NoSilentLockout /\ Promise!OnlyOffered
  BY DEF PromiseFacts, Promise!NoSilentLockout, Promise!OnlyOffered, Behind
<1> QED
  BY <1>1, <1>2, <1>3, PTL DEF Promise!Spec
=============================================================================
