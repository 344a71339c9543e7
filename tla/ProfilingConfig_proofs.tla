----------------------- MODULE ProfilingConfig_proofs -----------------------
(***************************************************************************)
(* Proofs about ProfilingConfig, for any number of offers and any faults:  *)
(* the safety properties the runs check.                                   *)
(***************************************************************************)
EXTENDS ProfilingConfig, SequenceTheorems, TLAPS

USE MaxOffersNat DEF influxVars, dbdVars, fileVars, Ends, FailsIn, Runs, DatabaseReady, Dispatchable,
                    Offers, Hooks

----------------------------------------------------------------------------
(* Types, and which handler may have failed when.                          *)

\* A failed handler has its event still to come, and an offer is recorded from
\* relation-joined to relation-broken.
HookFacts ==
  /\ hook = "join" => influx = "joining"
  /\ hook = "broken" => influx = "leaving" /\ offered # 0
  /\ hook = "ready" => readyDue
  /\ hook = "disconnected" => dbd = "leaving"
  /\ influx = "joined" => offered # 0
  /\ influx \in {"none", "joining"} => offered = 0

TypeInv == TypeOK /\ HookFacts

LEMMA TypeStep ==
  ASSUME TypeInv, Next
  PROVE  TypeInv'
<1> USE DEF TypeInv, TypeOK, HookFacts
<1>1. CASE IntegrateInflux
  BY <1>1 DEF IntegrateInflux
<1>2. CASE RemoveInflux
  BY <1>2 DEF RemoveInflux
<1>3. CASE IntegrateSlurmdbd
  BY <1>3 DEF IntegrateSlurmdbd
<1>4. CASE SlurmdbdChanged
  BY <1>4 DEF SlurmdbdChanged
<1>5. CASE RemoveSlurmdbd
  BY <1>5 DEF RemoveSlurmdbd
<1>6. CASE Joined
  <2>1. issued + 1 \in Offers
    BY <1>6 DEF Joined
  <2>2. user' \in Offers \cup {0}
    BY <1>6, <2>1 DEF Joined, UserFor
  <2>3. /\ queue' \in Seq(Offers)
        /\ gather' \in Offers \cup {0}
        /\ filled' \in BOOLEAN
    <3>1. Append(queue, issued + 1) \in Seq(Offers)
      BY <2>1, AppendProperties
    <3>2. CASE published
      BY <1>6, <2>1, <3>2 DEF Joined, Available
    <3>3. CASE ~published
      BY <1>6, <3>1, <3>3 DEF Joined, Available
    <3> QED
      BY <3>2, <3>3
  <2>4. /\ issued' = issued + 1 /\ offered' = issued + 1 /\ influx' = "joined" /\ hook' = "none"
        /\ UNCHANGED <<dbdVars, acct, snapshot, listed, failures>>
    BY <1>6 DEF Joined
  <2> QED
    BY <2>1, <2>2, <2>3, <2>4
<1>7. CASE JoinedFails
  <2>1. issued + 1 \in Offers
    BY <1>7 DEF JoinedFails
  <2>2. user' \in Offers \cup {0}
    BY <1>7, <2>1 DEF JoinedFails, UserFor
  <2>3. gather' \in Offers \cup {0} /\ filled' \in BOOLEAN
    BY <1>7, <2>1 DEF JoinedFails
  <2>4. failures' \subseteq Faults
    BY <1>7 DEF JoinedFails
  <2>5. /\ issued' = issued + 1 /\ hook' = "join" /\ influx = "joining"
        /\ UNCHANGED <<influx, offered, queue, dbdVars, acct, snapshot, listed>>
    BY <1>7 DEF JoinedFails
  <2> QED
    BY <2>1, <2>2, <2>3, <2>4, <2>5
<1>8. CASE HandleDeferred
  BY <1>8 DEF HandleDeferred
<1>9. CASE HandleDeferredDies
  <2>1. gather' \in Offers /\ filled' \in BOOLEAN
    BY <1>9, HeadTailProperties DEF HandleDeferredDies
  <2>2. failures' \subseteq Faults
    BY <1>9 DEF HandleDeferredDies
  <2>3. UNCHANGED <<influxVars, queue, dbdVars, hook, acct, snapshot, listed>>
    BY <1>9 DEF HandleDeferredDies
  <2> QED
    BY <2>1, <2>2, <2>3
<1>10. CASE Broken
  BY <1>10 DEF Broken, Dropped
<1>11. CASE BrokenUnreachable
  BY <1>11 DEF BrokenUnreachable
<1>12. CASE BrokenDies
  BY <1>12 DEF BrokenDies, Dropped
<1>13. CASE SlurmdbdReady
  BY <1>13 DEF SlurmdbdReady, Restored
<1>14. CASE SlurmdbdReadyDies
  BY <1>14 DEF SlurmdbdReadyDies, Restored
<1>15. CASE SlurmdbdDisconnected
  BY <1>15 DEF SlurmdbdDisconnected, Saved
<1>16. CASE SlurmdbdDisconnectedDies
  BY <1>16 DEF SlurmdbdDisconnectedDies, Saved
<1> QED
  BY <1>1, <1>2, <1>3, <1>4, <1>5, <1>6, <1>7, <1>8, <1>9, <1>10, <1>11, <1>12, <1>13, <1>14, <1>15, <1>16 DEF Next

----------------------------------------------------------------------------
(* The plugin's options, its acct_gather.conf, and accounting.             *)

\* Without slurmdbd the options are not in slurm.conf; with it, accounting is
\* configured or will be.
AccountingInv ==
  /\ published => acct \/ readyDue \/ dbd = "leaving"
  /\ filled /\ listed => published

\* While slurmdbd is gone the snapshot stands in for acct_gather.conf.
ConfiguredInv ==
  /\ filled /\ hook # "broken" => gather # 0 \/ snapshot # 0
  /\ filled /\ listed /\ hook \notin {"broken", "disconnected"} => gather # 0

LEMMA AccountingStep ==
  ASSUME TypeInv, AccountingInv, Next
  PROVE  AccountingInv'
<1> USE DEF TypeInv, TypeOK, HookFacts, AccountingInv
<1>1. CASE IntegrateInflux
  BY <1>1 DEF IntegrateInflux
<1>2. CASE RemoveInflux
  BY <1>2 DEF RemoveInflux
<1>3. CASE IntegrateSlurmdbd
  BY <1>3 DEF IntegrateSlurmdbd
<1>4. CASE SlurmdbdChanged
  BY <1>4 DEF SlurmdbdChanged
<1>5. CASE RemoveSlurmdbd
  BY <1>5 DEF RemoveSlurmdbd
<1>6. CASE Joined
  BY <1>6 DEF Joined, UserFor, Available
<1>7. CASE JoinedFails
  BY <1>7 DEF JoinedFails, UserFor
<1>8. CASE HandleDeferred
  BY <1>8 DEF HandleDeferred
<1>9. CASE HandleDeferredDies
  BY <1>9 DEF HandleDeferredDies
<1>10. CASE Broken
  BY <1>10 DEF Broken, Dropped
<1>11. CASE BrokenUnreachable
  BY <1>11 DEF BrokenUnreachable
<1>12. CASE BrokenDies
  BY <1>12 DEF BrokenDies, Dropped
<1>13. CASE SlurmdbdReady
  BY <1>13 DEF SlurmdbdReady, Restored
<1>14. CASE SlurmdbdReadyDies
  BY <1>14 DEF SlurmdbdReadyDies, Restored
<1>15. CASE SlurmdbdDisconnected
  BY <1>15 DEF SlurmdbdDisconnected, Saved
<1>16. CASE SlurmdbdDisconnectedDies
  BY <1>16 DEF SlurmdbdDisconnectedDies, Saved
<1> QED
  BY <1>1, <1>2, <1>3, <1>4, <1>5, <1>6, <1>7, <1>8, <1>9, <1>10, <1>11, <1>12, <1>13, <1>14, <1>15, <1>16 DEF Next

LEMMA ConfiguredStep ==
  ASSUME TypeInv, ConfiguredInv, Next
  PROVE  ConfiguredInv'
<1> USE DEF TypeInv, TypeOK, HookFacts, ConfiguredInv
<1>1. CASE IntegrateInflux
  BY <1>1 DEF IntegrateInflux
<1>2. CASE RemoveInflux
  BY <1>2 DEF RemoveInflux
<1>3. CASE IntegrateSlurmdbd
  BY <1>3 DEF IntegrateSlurmdbd
<1>4. CASE SlurmdbdChanged
  BY <1>4 DEF SlurmdbdChanged
<1>5. CASE RemoveSlurmdbd
  BY <1>5 DEF RemoveSlurmdbd
<1>6. CASE Joined
  BY <1>6 DEF Joined, UserFor, Available
<1>7. CASE JoinedFails
  BY <1>7 DEF JoinedFails, UserFor
<1>8. CASE HandleDeferred
  BY <1>8 DEF HandleDeferred
<1>9. CASE HandleDeferredDies
  BY <1>9 DEF HandleDeferredDies
<1>10. CASE Broken
  BY <1>10 DEF Broken, Dropped
<1>11. CASE BrokenUnreachable
  BY <1>11 DEF BrokenUnreachable
<1>12. CASE BrokenDies
  BY <1>12 DEF BrokenDies, Dropped
<1>13. CASE SlurmdbdReady
  BY <1>13 DEF SlurmdbdReady, Restored
<1>14. CASE SlurmdbdReadyDies
  BY <1>14 DEF SlurmdbdReadyDies, Restored
<1>15. CASE SlurmdbdDisconnected
  BY <1>15 DEF SlurmdbdDisconnected, Saved
<1>16. CASE SlurmdbdDisconnectedDies
  BY <1>16 DEF SlurmdbdDisconnectedDies, Saved
<1> QED
  BY <1>1, <1>2, <1>3, <1>4, <1>5, <1>6, <1>7, <1>8, <1>9, <1>10, <1>11, <1>12, <1>13, <1>14, <1>15, <1>16 DEF Next

----------------------------------------------------------------------------
(* Offers.                                                                 *)

\* Without failures the user exists exactly while there is an offer.
UserInv ==
  failures \cap {"join", "unreachable"} = {} =>
    /\ influx = "joined" => user = offered
    /\ influx \in {"none", "joining"} => user = 0
    /\ influx = "leaving" /\ offered = 0 => user = 0

\* The last deferred offer is the newest; once it is handled acct_gather.conf has
\* that offer, or what was restored from the snapshot, or is set aside there.
NewestInv ==
  influx = "joined" =>
    /\ queue # <<>> => queue[Len(queue)] = offered
    /\ queue = <<>> =>
         \/ gather = offered
         \/ snapshot # 0 /\ gather = snapshot
         \/ snapshot # 0 /\ gather = 0 /\ (listed => hook = "disconnected")

LEMMA UserStep ==
  ASSUME TypeInv, UserInv, Next
  PROVE  UserInv'
<1> USE DEF TypeInv, TypeOK, HookFacts, UserInv
<1>1. CASE IntegrateInflux
  BY <1>1 DEF IntegrateInflux
<1>2. CASE RemoveInflux
  BY <1>2 DEF RemoveInflux
<1>3. CASE IntegrateSlurmdbd
  BY <1>3 DEF IntegrateSlurmdbd
<1>4. CASE SlurmdbdChanged
  BY <1>4 DEF SlurmdbdChanged
<1>5. CASE RemoveSlurmdbd
  BY <1>5 DEF RemoveSlurmdbd
<1>6. CASE Joined
  BY <1>6 DEF Joined, UserFor, Available
<1>7. CASE JoinedFails
  BY <1>7 DEF JoinedFails, UserFor
<1>8. CASE HandleDeferred
  BY <1>8 DEF HandleDeferred
<1>9. CASE HandleDeferredDies
  BY <1>9 DEF HandleDeferredDies
<1>10. CASE Broken
  BY <1>10 DEF Broken, Dropped
<1>11. CASE BrokenUnreachable
  BY <1>11 DEF BrokenUnreachable
<1>12. CASE BrokenDies
  BY <1>12 DEF BrokenDies, Dropped
<1>13. CASE SlurmdbdReady
  BY <1>13 DEF SlurmdbdReady, Restored
<1>14. CASE SlurmdbdReadyDies
  BY <1>14 DEF SlurmdbdReadyDies, Restored
<1>15. CASE SlurmdbdDisconnected
  BY <1>15 DEF SlurmdbdDisconnected, Saved
<1>16. CASE SlurmdbdDisconnectedDies
  BY <1>16 DEF SlurmdbdDisconnectedDies, Saved
<1> QED
  BY <1>1, <1>2, <1>3, <1>4, <1>5, <1>6, <1>7, <1>8, <1>9, <1>10, <1>11, <1>12, <1>13, <1>14, <1>15, <1>16 DEF Next

LEMMA NewestStep ==
  ASSUME TypeInv, NewestInv, Next
  PROVE  NewestInv'
<1> USE DEF TypeInv, TypeOK, HookFacts, NewestInv
<1>1. CASE IntegrateInflux
  BY <1>1 DEF IntegrateInflux
<1>2. CASE RemoveInflux
  BY <1>2 DEF RemoveInflux
<1>3. CASE IntegrateSlurmdbd
  BY <1>3 DEF IntegrateSlurmdbd
<1>4. CASE SlurmdbdChanged
  BY <1>4 DEF SlurmdbdChanged
<1>5. CASE RemoveSlurmdbd
  BY <1>5 DEF RemoveSlurmdbd
<1>6. CASE Joined
  BY <1>6 DEF Joined, UserFor, Available
<1>7. CASE JoinedFails
  BY <1>7 DEF JoinedFails, UserFor
<1>8. CASE HandleDeferred
  <2>1. /\ queue # <<>> /\ gather' = Head(queue) /\ queue' = Tail(queue)
        /\ UNCHANGED <<influx, offered, snapshot>>
    BY <1>8 DEF HandleDeferred
  <2>2. queue' # <<>> => queue'[Len(queue')] = queue[Len(queue)]
    <3>1. /\ Len(queue') = Len(queue) - 1 /\ Len(queue) \in Nat
          /\ \A i \in 1..Len(queue') : queue'[i] = queue[i + 1]
      BY <2>1, HeadTailProperties
    <3>2. queue' # <<>> => Len(queue') \in 1..Len(queue')
      BY <2>1, <3>1, EmptySeq
    <3> QED
      BY <3>1, <3>2
  <2>3. queue' = <<>> => Head(queue) = queue[Len(queue)]
    <3>1. /\ Len(queue') = Len(queue) - 1 /\ Len(queue) \in Nat
          /\ Head(queue) = queue[1]
      BY <2>1, HeadTailProperties
    <3>2. Len(<<>>) = 0
      BY EmptySeq
    <3>3. queue' = <<>> => Len(queue) = 1
      <4>1. queue' = <<>> => Len(queue') = 0
        BY <3>2
      <4> QED
        BY <3>1, <4>1
    <3> QED
      BY <3>1, <3>3
  <2> QED
    BY <2>1, <2>2, <2>3
<1>9. CASE HandleDeferredDies
  BY <1>9 DEF HandleDeferredDies
<1>10. CASE Broken
  BY <1>10 DEF Broken, Dropped
<1>11. CASE BrokenUnreachable
  BY <1>11 DEF BrokenUnreachable
<1>12. CASE BrokenDies
  BY <1>12 DEF BrokenDies, Dropped
<1>13. CASE SlurmdbdReady
  BY <1>13 DEF SlurmdbdReady, Restored
<1>14. CASE SlurmdbdReadyDies
  BY <1>14 DEF SlurmdbdReadyDies, Restored
<1>15. CASE SlurmdbdDisconnected
  BY <1>15 DEF SlurmdbdDisconnected, Saved
<1>16. CASE SlurmdbdDisconnectedDies
  BY <1>16 DEF SlurmdbdDisconnectedDies, Saved
<1> QED
  BY <1>1, <1>2, <1>3, <1>4, <1>5, <1>6, <1>7, <1>8, <1>9, <1>10, <1>11, <1>12, <1>13, <1>14, <1>15, <1>16 DEF Next

----------------------------------------------------------------------------
(* Every invariant holds from the start, and through stuttering.           *)

IInv == TypeInv /\ AccountingInv /\ ConfiguredInv /\ UserInv /\ NewestInv

LEMMA InitInv == Init => IInv
<1>1. <<>> \in Seq(Offers)
  BY EmptySeq
<1> QED
  BY <1>1 DEF Init, IInv, TypeInv, TypeOK, HookFacts, AccountingInv, ConfiguredInv, UserInv, NewestInv

LEMMA InvKept == IInv /\ [Next]_vars => IInv'
<1>1. IInv /\ UNCHANGED vars => IInv'
  BY DEF vars, IInv, TypeInv, TypeOK, HookFacts, AccountingInv, ConfiguredInv, UserInv, NewestInv
<1>2. IInv /\ Next => IInv'
  BY TypeStep, AccountingStep, ConfiguredStep, UserStep, NewestStep DEF IInv
<1> QED
  BY <1>1, <1>2

LEMMA Invariant == Spec => []IInv
  BY InitInv, InvKept, PTL DEF Spec

\* Types, for any number of offers and any faults.
THEOREM TypeCorrect == Spec => []TypeOK
<1>1. IInv => TypeOK
  BY DEF IInv, TypeInv
<1> QED
  BY <1>1, Invariant, PTL

\* slurm.conf has the plugin's options only with accounting, or while the handler
\* that settles it is to come, wherever the agent dies.
THEOREM PluginHasAccounting == Spec => []PluginNeedsAccounting
<1>1. IInv => PluginNeedsAccounting
  BY DEF IInv, AccountingInv, PluginNeedsAccounting
<1> QED
  BY <1>1, Invariant, PTL

\* slurm.conf never has the plugin's options without an acct_gather.conf.
THEOREM PluginIsAlwaysConfigured == Spec => []PluginIsConfigured
<1>1. IInv => PluginIsConfigured
  BY DEF IInv, ConfiguredInv, PluginIsConfigured
<1> QED
  BY <1>1, Invariant, PTL

\* Unless an attempt to create or to drop the user failed, the password offered to
\* the cluster is the user's.
THEOREM OfferAlwaysWorks == Spec => []OfferWorks
<1>1. IInv => OfferWorks
  BY DEF IInv, UserInv, OfferWorks
<1> QED
  BY <1>1, Invariant, PTL

\* However many offers are deferred or fail, acct_gather.conf has the newest or the
\* snapshot's, never another older one.
THEOREM NewestOfferIsUsed == Spec => []NewestOfferUsed
<1>1. IInv => NewestOfferUsed
  BY DEF IInv, NewestInv, NewestOfferUsed
<1> QED
  BY <1>1, Invariant, PTL
=============================================================================
