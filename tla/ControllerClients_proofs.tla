---------------------- MODULE ControllerClients_proofs ----------------------
(***************************************************************************)
(* Proofs about ControllerClients, for any controllers, versions and       *)
(* faults: types, the bag holds the newest version, and every step keeps   *)
(* the promise of ServiceContract, by which no client with nothing left to *)
(* handle runs with anything but what it is offered.                       *)
(***************************************************************************)
EXTENDS ControllerClients, TLAPS

USE FirstKnown, AppsKnown, MaxVersionPos, FaultsKnown

\* Steps that leave the bag alone and add nothing for the client to do.
Elsewhere ==
  \/ Integrate \/ StartController \/ StopController \/ AccountingChanges
  \/ DeferChange \/ \E u \in Controllers : FollowerChanges(u) \/ LeaderMoves(u)

----------------------------------------------------------------------------
(* Types.                                                                  *)

LEMMA MergedType ==
  ASSUME TypeOK, NEW v \in 0 .. MaxVersion
  PROVE  /\ Merged(v) \in [auth : BOOLEAN, data : 0 .. MaxVersion]
         /\ Merged(v).auth = bag.auth
         /\ joined => Merged(v).data = v
         /\ ~joined => Merged(v) = bag
  BY DEF TypeOK, Merged

\* Types at the start, and after every step.
LEMMA InitTypes == Init => TypeOK
<1> SUFFICES ASSUME Init PROVE TypeOK
  OBVIOUS
<1>1. NoData \in [auth : BOOLEAN, data : 0 .. MaxVersion] /\ 1 \in 1 .. MaxVersion
  BY DEF NoData
<1>2. 0 \in 0 .. MaxVersion
  OBVIOUS
<1> QED
  BY <1>1, <1>2 DEF Init, TypeOK

LEMMA StepTypes == TypeOK /\ [Next]_vars => TypeOK'
<1> SUFFICES ASSUME TypeOK, [Next]_vars PROVE TypeOK'
  OBVIOUS
<1> USE DEF vars, ctlVars, changeVars, clientVars
<1>1. CASE Elsewhere
  <2>1. ASSUME NEW u \in Controllers, FollowerChanges(u) PROVE TypeOK'
    <3>1. newest' \in 1 .. MaxVersion /\ holds' \subseteq Controllers
      BY <2>1 DEF FollowerChanges, TypeOK
    <3> QED
      BY <2>1, <3>1 DEF TypeOK, FollowerChanges
  <2>2. ASSUME NEW u \in Controllers, LeaderMoves(u) PROVE TypeOK'
    BY <2>2 DEF TypeOK, LeaderMoves
  <2>3. CASE DeferChange
    BY <2>3 DEF TypeOK, DeferChange
  <2>4. CASE Integrate \/ StartController \/ StopController \/ AccountingChanges
    BY <2>4 DEF TypeOK, Integrate, StartController, StopController, AccountingChanges
  <2> QED
    BY <1>1, <2>1, <2>2, <2>3, <2>4 DEF Elsewhere
<1>2. CASE Separate
  <2>1. NoData \in [auth : BOOLEAN, data : 0 .. MaxVersion]
    BY DEF NoData
  <2>2. (due \ {"ready"}) \cup {"disconnected"} \subseteq Events
    BY DEF TypeOK, Events
  <2> QED
    BY <1>2, <2>1, <2>2 DEF TypeOK, Separate
<1>3. ASSUME NEW u \in Controllers, Connected(u) PROVE TypeOK'
  BY <1>3 DEF TypeOK, Connected, Written, Told, Events
<1>4. ASSUME NEW u \in Controllers, LeaderChanges(u) PROVE TypeOK'
  <2>1. newest + 1 \in 1 .. MaxVersion /\ newest + 1 \in 0 .. MaxVersion
    BY <1>4 DEF LeaderChanges, TypeOK
  <2>2. bag' \in [auth : BOOLEAN, data : 0 .. MaxVersion]
    BY <1>4, <2>1, MergedType DEF LeaderChanges, TypeOK
  <2> QED
    BY <1>4, <2>1, <2>2 DEF TypeOK, LeaderChanges, Reconfigure, Told, Events
<1>5. CASE RotateKey
  <2>1. bag' \in [auth : BOOLEAN, data : 0 .. MaxVersion]
    BY <1>5, MergedType DEF RotateKey, TypeOK
  <2> QED
    BY <1>5, <2>1 DEF TypeOK, RotateKey, Reconfigure, Told, Events
<1>6. CASE ReadyOk \/ ReadyFails
  <2>1. bag.data \in 0 .. MaxVersion /\ 0 \in 0 .. MaxVersion
    BY DEF TypeOK
  <2>2. files' \in 0 .. MaxVersion /\ using' \in 0 .. MaxVersion
    BY <1>6, <2>1 DEF TypeOK, ReadyOk, ReadyFails
  <2>3. due' \subseteq Events /\ tracks' = TRUE
    BY <1>6 DEF TypeOK, ReadyOk, ReadyFails
  <2>4. UNCHANGED <<app, ctlVars, joined, pending, bag, installed, lost>>
    BY <1>6 DEF ReadyOk, ReadyFails
  <2> QED
    BY <2>2, <2>3, <2>4 DEF TypeOK
<1>7. CASE DisconnectedOk \/ DisconnectedFails
  BY <1>7 DEF TypeOK, DisconnectedOk, DisconnectedFails
<1>8. CASE SecretChangedOk \/ SecretChangedFails
  BY <1>8 DEF TypeOK, SecretChangedOk, SecretChangedFails
<1>9. CASE Install \/ Reinstall
  <2>1. 0 \in 0 .. MaxVersion
    OBVIOUS
  <2> QED
    BY <1>9, <2>1 DEF TypeOK, Install, Reinstall, Events
<1>10. CASE UNCHANGED vars
  BY <1>10 DEF TypeOK
<1> QED
  BY <1>1, <1>2, <1>3, <1>4, <1>5, <1>6, <1>7, <1>8, <1>9, <1>10 DEF Next, Client, Elsewhere

\* Whatever is deferred or fails, the variables keep their types.
THEOREM TypeCorrect == Spec => []TypeOK
  BY InitTypes, StepTypes, PTL DEF Spec

----------------------------------------------------------------------------
(* What is published.                                                      *)

\* A separated client has no data, and a complete bag is never emptied by a merge.
BagFacts ==
  /\ ~joined => bag = NoData /\ pending = {}
  /\ bag.auth => bag.data # 0

Published == BagFacts /\ PublishedIsNewest

LEMMA StepPublished == TypeOK /\ Published /\ [Next]_vars => Published'
<1> SUFFICES ASSUME TypeOK, Published, [Next]_vars PROVE Published'
  OBVIOUS
<1> USE DEF Published, BagFacts, PublishedIsNewest, vars, ctlVars, changeVars, clientVars
<1>1. CASE Elsewhere
  BY <1>1 DEF Elsewhere, Integrate, StartController, StopController,
              AccountingChanges, DeferChange, FollowerChanges, LeaderMoves, NoData
<1>2. CASE Separate
  BY <1>2 DEF Separate, NoData
<1>3. ASSUME NEW u \in Controllers, Connected(u) PROVE Published'
  <2>1. joined
    BY <1>3 DEF Connected
  <2> QED
    BY <1>3, <2>1 DEF Connected, Written, TypeOK
<1>4. ASSUME NEW u \in Controllers, LeaderChanges(u) PROVE Published'
  <2>1. newest + 1 \in 0 .. MaxVersion /\ newest + 1 # 0 /\ newest' = newest + 1
    BY <1>4 DEF LeaderChanges, TypeOK
  <2>2. bag' = bag \/ bag' = Merged(newest + 1)
    BY <1>4 DEF LeaderChanges
  <2>3. bag' = Merged(newest + 1) \/ (app = "slurmrestd" /\ failed')
    BY <1>4 DEF LeaderChanges
  <2> QED
    BY <1>4, <2>1, <2>2, <2>3, MergedType DEF LeaderChanges, TypeOK
<1>5. CASE RotateKey
  <2>1. newest \in 0 .. MaxVersion /\ newest # 0
    BY DEF TypeOK
  <2>2. bag' = IF app = "slurmrestd" /\ ~failed' THEN Merged(newest) ELSE bag
    BY <1>5 DEF RotateKey
  <2> QED
    BY <1>5, <2>1, <2>2, MergedType DEF RotateKey, TypeOK
<1>6. CASE Client \/ UNCHANGED vars
  BY <1>6 DEF Client, Install, Reinstall, ReadyOk, ReadyFails, DisconnectedOk, DisconnectedFails,
              SecretChangedOk, SecretChangedFails
<1> QED
  BY <1>1, <1>2, <1>3, <1>4, <1>5, <1>6 DEF Next, Client, Elsewhere

\* A client that is connected is offered the newest version, unless it is
\* slurmrestd and the leader's last _reconfigure ended early, or a unit that leads
\* no more has changed the configuration and the leader has not published since.
THEOREM NewestIsPublished == Spec => []PublishedIsNewest
<1>1. Init => Published
  BY DEF Init, Published, BagFacts, PublishedIsNewest, NoData
<1> QED
  BY <1>1, InitTypes, StepTypes, StepPublished, PTL DEF Spec, Published

----------------------------------------------------------------------------
(* The promise of ServiceContract.                                         *)

\* The service runs with what is in the files, and these hold what is in the bag
\* or nothing, unless an event is due that changes that; without an integration
\* it does not run, unless it is still to be stopped.
ClientFacts ==
  /\ bag.auth /\ "ready" \notin due =>
       files = bag.data \/ (app = "sackd" /\ files = 0)
  /\ due \cap {"ready", "disconnected"} = {} => using \in {0, files}
  /\ ~bag.auth /\ "disconnected" \notin due => using = 0

ClientInv == TypeOK /\ BagFacts /\ ClientFacts

\* The bag is left alone, or the client has to handle slurmctld_ready.
LEMMA Publications ==
  ASSUME TypeOK, BagFacts,
         RotateKey \/ \E u \in Controllers : LeaderChanges(u) \/ Connected(u)
  PROVE  /\ UNCHANGED <<app, installed, files, using, tracks>>
         /\ due \subseteq due'
         /\ bag' = bag \/ "ready" \in due'
         /\ bag.auth => bag'.auth
<1> USE DEF clientVars, ctlVars, changeVars
<1>1. ASSUME NEW u \in Controllers, LeaderChanges(u)
      PROVE  /\ UNCHANGED <<app, installed, files, using, tracks>>
             /\ due \subseteq due'
             /\ bag' = bag \/ "ready" \in due'
             /\ bag.auth => bag'.auth
  <2>1. newest + 1 \in 0 .. MaxVersion
    BY <1>1 DEF LeaderChanges, TypeOK
  <2> QED
    BY <1>1, <2>1, MergedType DEF LeaderChanges, Told
<1>2. CASE RotateKey
  <2>1. newest \in 0 .. MaxVersion
    BY DEF TypeOK
  <2> QED
    BY <1>2, <2>1, MergedType DEF RotateKey, Told
<1>3. ASSUME NEW u \in Controllers, Connected(u)
      PROVE  /\ UNCHANGED <<app, installed, files, using, tracks>>
             /\ due \subseteq due'
             /\ bag' = bag \/ "ready" \in due'
             /\ bag.auth => bag'.auth
  BY <1>3 DEF Connected, Told, Written
<1> QED
  BY <1>1, <1>2, <1>3

LEMMA StepClient == ClientInv /\ PublishedIsNewest /\ [Next]_vars => ClientInv'
<1> SUFFICES ASSUME ClientInv, PublishedIsNewest, [Next]_vars PROVE ClientInv'
  OBVIOUS
<1>1. TypeOK' /\ BagFacts'
  BY StepTypes, StepPublished DEF ClientInv, Published
<1> SUFFICES ClientFacts'
  BY <1>1 DEF ClientInv
<1> USE DEF ClientInv, ClientFacts, vars, ctlVars, changeVars, clientVars
<1>2. CASE Elsewhere
  BY <1>2 DEF Elsewhere, Integrate, StartController, StopController,
              AccountingChanges, DeferChange, FollowerChanges, LeaderMoves
<1>3. CASE Separate
  BY <1>3 DEF Separate, NoData
<1>4. CASE RotateKey \/ \E u \in Controllers : LeaderChanges(u) \/ Connected(u)
  BY <1>4, Publications
<1>5. CASE ReadyOk \/ ReadyFails
  BY <1>5 DEF ReadyOk, ReadyFails, Handles, Complete
<1>6. CASE DisconnectedOk \/ DisconnectedFails
  BY <1>6 DEF DisconnectedOk, DisconnectedFails, Handles
<1>7. CASE SecretChangedOk \/ SecretChangedFails
  BY <1>7 DEF SecretChangedOk, SecretChangedFails, Handles
<1>8. CASE Install \/ Reinstall
  BY <1>8 DEF Install, Reinstall
<1>9. CASE UNCHANGED vars
  BY <1>9
<1> QED
  BY <1>2, <1>3, <1>4, <1>5, <1>6, <1>7, <1>8, <1>9 DEF Next, Client, Elsewhere

\* Every step of the detailed specification is one of the contract, or a stutter.
LEMMA StepKeepsPromise ==
  ClientInv /\ ClientInv' /\ [Next]_vars => [Contract!Next]_(Contract!vars)
<1> SUFFICES ASSUME ClientInv, ClientInv', [Next]_vars PROVE [Contract!Next]_(Contract!vars)
  OBVIOUS
<1> DEFINE offer == IF Complete THEN bag.data ELSE 0
<1>1. /\ offer \in 0 .. MaxVersion /\ offer' \in 0 .. MaxVersion
      /\ offer = IF bag.auth THEN bag.data ELSE 0
      /\ bag' = bag => offer' = offer
  BY DEF ClientInv, TypeOK, BagFacts, Complete
<1> HIDE DEF offer
<1>2. /\ Contract!vars = <<offer, using, due # {}>>
      /\ Contract!vars' = <<offer', using', due' # {}>>
  BY DEF Contract!vars, offer
<1>publish. ASSUME due' # {}, UNCHANGED using PROVE Contract!Next
  BY <1>publish, <1>1 DEF Contract!Next, Contract!Publish, Contract!Versions, offer
<1>halt. ASSUME due # {}, using' = 0, bag' = bag PROVE Contract!Next
  BY <1>halt, <1>1 DEF Contract!Next, Contract!Halt, offer
<1>adopt. ASSUME due # {}, using' = offer, bag' = bag PROVE Contract!Next
  BY <1>adopt, <1>1 DEF Contract!Next, Contract!Adopt, offer
<1>resume. ASSUME due # {}, due' # {}, using' \in 0 .. MaxVersion, offer # 0, bag' = bag
           PROVE  Contract!Next
  BY <1>resume, <1>1 DEF Contract!Next, Contract!Resume, Contract!Versions, offer
<1>stutter. ASSUME UNCHANGED <<bag, using, due>> PROVE UNCHANGED Contract!vars
  BY <1>stutter, <1>1, <1>2
<1> USE DEF vars, ctlVars, changeVars, clientVars
<1>3. CASE Elsewhere \/ UNCHANGED vars
  BY <1>3, <1>stutter DEF Elsewhere, Integrate, StartController, StopController,
              AccountingChanges, DeferChange, FollowerChanges, LeaderMoves
<1>4. CASE Separate
  BY <1>4, <1>publish DEF Separate
<1>5. CASE RotateKey \/ \E u \in Controllers : LeaderChanges(u) \/ Connected(u)
  <2>1. /\ UNCHANGED using /\ due \subseteq due'
        /\ bag' = bag \/ "ready" \in due'
    BY <1>5, Publications DEF ClientInv
  <2>2. CASE due' = {}
    BY <2>1, <2>2, <1>stutter
  <2> QED
    BY <2>1, <2>2, <1>publish
<1>6. CASE ReadyOk
  BY <1>6, <1>1, <1>adopt DEF ReadyOk, Handles, Complete
<1>7. CASE ReadyFails
  BY <1>7, <1>halt, <1>stutter DEF ReadyFails, Handles
<1>8. CASE DisconnectedOk \/ DisconnectedFails
  BY <1>8, <1>halt, <1>stutter DEF DisconnectedOk, DisconnectedFails, Handles
<1>9. CASE SecretChangedOk
  <2>1. /\ due # {} /\ bag.auth /\ bag' = bag
        /\ app = "sackd" => using # 0 /\ using' = using
        /\ app = "slurmrestd" => using' = files
        /\ due' = due \ {"secret"}
    BY <1>9 DEF SecretChangedOk, Handles
  <2>2. offer = bag.data /\ offer # 0
    BY <2>1, <1>1 DEF ClientInv, BagFacts
  <2>3. CASE due' # {}
    BY <2>1, <2>2, <2>3, <1>resume DEF ClientInv, TypeOK
  <2>4. CASE due' = {}
    <3>1. /\ files = bag.data \/ (app = "sackd" /\ files = 0)
          /\ using \in {0, files}
      BY <2>1, <2>4 DEF ClientInv, ClientFacts
    <3>2. app \in {"sackd", "slurmrestd"}
      BY DEF ClientInv, TypeOK
    <3>3. using' = offer
      BY <2>1, <2>2, <3>1, <3>2
    <3> QED
      BY <2>1, <3>3, <1>adopt
  <2> QED
    BY <2>3, <2>4
<1>10. CASE SecretChangedFails
  BY <1>10, <1>halt DEF SecretChangedFails, Handles
<1>11. CASE Install
  BY <1>11, <1>publish, <1>stutter DEF Install
<1>12. CASE Reinstall
  BY <1>12, <1>halt, <1>stutter DEF Reinstall
<1> QED
  BY <1>3, <1>4, <1>5, <1>6, <1>7, <1>8, <1>9, <1>10, <1>11, <1>12 DEF Next, Client, Elsewhere

\* slurmctld and its clients keep the promise of ServiceContract, whatever is
\* deferred, fails or is repeated.
THEOREM ContractIsKept == Spec => ImplementsContract
<1>1. Init => ClientInv
  BY InitTypes DEF Init, ClientInv, BagFacts, ClientFacts, NoData
<1>2. Init => Published
  BY DEF Init, Published, BagFacts, PublishedIsNewest, NoData
<1>3. Init => Contract!Init
  BY DEF Init, Contract!Init, Complete, NoData
<1>4. ClientInv /\ Published /\ [Next]_vars => ClientInv' /\ Published'
  BY StepClient, StepPublished DEF ClientInv, Published
<1> QED
  BY <1>1, <1>2, <1>3, <1>4, StepKeepsPromise, PTL DEF Spec, ImplementsContract, Contract!Spec

\* So a client with nothing left to handle runs with what it is offered or not at
\* all: never with an old version, and not after its integration.
THEOREM NoStaleClient == Spec => []Contract!InStep
<1>1. ClientInv => Contract!InStep
  BY DEF ClientInv, BagFacts, ClientFacts, Contract!InStep, Complete
<1>2. Init => ClientInv
  BY InitTypes DEF Init, ClientInv, BagFacts, ClientFacts, NoData
<1>3. Init => Published
  BY DEF Init, Published, BagFacts, PublishedIsNewest, NoData
<1>4. ClientInv /\ Published /\ [Next]_vars => ClientInv' /\ Published'
  BY StepClient, StepPublished DEF ClientInv, Published
<1> QED
  BY <1>1, <1>2, <1>3, <1>4, PTL DEF Spec
=============================================================================
