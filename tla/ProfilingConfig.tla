-------------------------- MODULE ProfilingConfig --------------------------
(***************************************************************************)
(* Job accounting and profiling of slurmctld.  Accounting is configured    *)
(* when slurmdbd has published its host.  Profiling takes an InfluxDB: the *)
(* leader creates a user there, and writes acct_gather.conf and an include *)
(* file of slurm.conf.  Because the plugin requires accounting, it waits   *)
(* for slurmdbd, and is set aside while slurmdbd is gone: the include line *)
(* is removed, acct_gather.conf saved in a snapshot, and both are restored *)
(* with the next slurmdbd.                                                 *)
(*                                                                         *)
(* An offer is what influxdb-available carries: a user's new password.     *)
(* Offers are numbered, 0 is none.  ops re-emits the deferred offers first *)
(* in each dispatch, and Juju repeats a failed hook before any other of    *)
(* the unit.  One slurmdbd and one InfluxDB are integrated at a time, and  *)
(* leadership does not move.                                               *)
(***************************************************************************)
EXTENDS Naturals, Sequences

CONSTANTS
  MaxOffers,   \* bound on the passwords generated
  Faults       \* what may go wrong, a subset of FaultKinds

FaultKinds ==
  { "join",       \* relation-joined of InfluxDB fails before it commits
    "unreachable",\* InfluxDB cannot be reached when it is removed
    "agent" }     \* the agent dies in another handler

ASSUME MaxOffersNat == MaxOffers \in Nat
ASSUME FaultsKnown  == Faults \subseteq FaultKinds

VARIABLES
  influx,     \* InfluxDB: "none", "joining", "joined" or "leaving"
  offered,    \* offer made to the integration that is recorded in app data
  issued,     \* offers made so far
  user,       \* offer whose password InfluxDB has for the user, 0 without user
  queue,      \* deferred influxdb-available events
  dbd,        \* slurmdbd: "none", "open" or "leaving"
  published,  \* slurmdbd has published its host on the integration
  readyDue,   \* slurmdbd-ready is due or deferred
  hook,       \* handler that failed and is repeated, or "none"
  acct,       \* the accounting include names slurmdbd
  gather,     \* offer in acct_gather.conf, 0 if the file is absent
  snapshot,   \* offer in its snapshot, 0 if there is none
  filled,     \* the profiling include has its options
  listed,     \* slurm.conf includes the profiling file
  failures    \* what has gone wrong so far

influxVars == <<influx, offered, issued, user>>
dbdVars == <<dbd, published, readyDue>>
fileVars == <<acct, gather, snapshot, filled, listed>>
vars == <<influxVars, queue, dbdVars, hook, fileVars, failures>>

\* The include files are listed and empty from the first start on.
Init ==
  /\ influx = "none" /\ offered = 0 /\ issued = 0 /\ user = 0
  /\ queue = <<>>
  /\ dbd = "none" /\ published = FALSE /\ readyDue = FALSE
  /\ hook = "none"
  /\ acct = FALSE /\ gather = 0 /\ snapshot = 0 /\ filled = FALSE /\ listed = TRUE
  /\ failures = {}

(***************************************************************************)
(* Helpers.  A definition named ...Bug is a faulty variant of the one that *)
(* follows it, kept to show which property notices the fault.              *)
(***************************************************************************)
DatabaseReady == published

\* Deferred offers that could be handled have been: another handler may run.
Dispatchable == ~DatabaseReady \/ queue = <<>>

\* A handler runs, or is repeated after its failure.
Runs(name) == hook \in {"none", name}

Ends == hook' = "none" /\ UNCHANGED failures
FailsIn(name, kind) ==
  /\ kind \in Faults
  /\ failures' = failures \cup {kind}
  /\ hook' = name

\* create_user, unless the user exists.
UserFor(offer) == IF user = 0 THEN offer ELSE user

\* Variant: influxdb-available is handled whatever slurmdbd does.
AvailableBug(offer) ==
  gather' = offer /\ filled' = TRUE /\ UNCHANGED queue

\* influxdb-available: handled, or deferred.
Available(offer) ==
  IF DatabaseReady
    THEN gather' = offer /\ filled' = TRUE /\ UNCHANGED queue
    ELSE queue' = Append(queue, offer) /\ UNCHANGED <<gather, filled>>

\* restore of acct_gather.conf.  Variant: nothing is restored.
RestoredBug == gather
Restored == IF snapshot = 0 THEN gather ELSE snapshot

\* save of acct_gather.conf.  Variant: an absent file removes the snapshot.
SavedBug == gather
Saved == IF gather = 0 THEN snapshot ELSE gather

(***************************************************************************)
(* The operator, Juju and slurmdbd                                         *)
(***************************************************************************)
IntegrateInflux ==
  /\ influx = "none"
  /\ issued < MaxOffers
  /\ influx' = "joining"
  /\ UNCHANGED <<offered, issued, user, queue, dbdVars, hook, fileVars, failures>>

RemoveInflux ==
  /\ influx \in {"joining", "joined"}
  /\ hook # "join"
  /\ influx' = "leaving"
  /\ UNCHANGED <<offered, issued, user, queue, dbdVars, hook, fileVars, failures>>

IntegrateSlurmdbd ==
  /\ dbd = "none"
  /\ dbd' = "open"
  /\ UNCHANGED <<influxVars, queue, published, readyDue, hook, fileVars, failures>>

\* relation-changed with data of slurmdbd: its host, later a unit's address.
SlurmdbdChanged ==
  /\ dbd = "open"
  /\ published' = TRUE
  /\ readyDue' = TRUE
  /\ UNCHANGED <<influxVars, queue, dbd, hook, fileVars, failures>>

RemoveSlurmdbd ==
  /\ dbd = "open"
  /\ dbd' = "leaving"
  /\ UNCHANGED <<influxVars, queue, published, readyDue, hook, fileVars, failures>>

(***************************************************************************)
(* InfluxDB.  relation-joined makes the offer, once per integration; it is *)
(* deferred, hence delayed, while the InfluxDB unit's data is incomplete.  *)
(***************************************************************************)
Joined ==
  /\ influx = "joining" /\ Runs("join") /\ Dispatchable
  /\ issued < MaxOffers
  /\ issued' = issued + 1
  /\ user' = UserFor(issued + 1)
  /\ offered' = issued + 1
  /\ influx' = "joined"
  /\ Available(issued + 1)
  /\ Ends
  /\ UNCHANGED <<dbdVars, acct, snapshot, listed>>

\* The hook fails after the user was created or the files were written; app data
\* and deferred events are not committed.
JoinedFails ==
  /\ influx = "joining" /\ Runs("join") /\ Dispatchable
  /\ issued < MaxOffers
  /\ issued' = issued + 1
  /\ user' = UserFor(issued + 1)
  /\ \/ UNCHANGED <<gather, filled>>
     \/ DatabaseReady /\ gather' = issued + 1 /\ (filled' = TRUE \/ UNCHANGED filled)
  /\ FailsIn("join", "join")
  /\ UNCHANGED <<influx, offered, queue, dbdVars, acct, snapshot, listed>>

\* A deferred influxdb-available is handled, oldest first.  Variant: newest first.
HandleDeferredBug ==
  /\ DatabaseReady /\ queue # <<>>
  /\ gather' = queue[Len(queue)]
  /\ filled' = TRUE
  /\ queue' = SubSeq(queue, 1, Len(queue) - 1)
  /\ UNCHANGED <<influxVars, dbdVars, hook, acct, snapshot, listed, failures>>

HandleDeferred ==
  /\ DatabaseReady /\ queue # <<>>
  /\ gather' = Head(queue)
  /\ filled' = TRUE
  /\ queue' = Tail(queue)
  /\ UNCHANGED <<influxVars, dbdVars, hook, acct, snapshot, listed, failures>>

HandleDeferredDies ==
  /\ DatabaseReady /\ queue # <<>>
  /\ "agent" \in Faults
  /\ gather' = Head(queue)
  /\ (filled' = TRUE \/ UNCHANGED filled)
  /\ failures' = failures \cup {"agent"}
  /\ UNCHANGED <<influxVars, queue, dbdVars, hook, acct, snapshot, listed>>

Dropped == 0

\* relation-broken: the user is dropped and both files are cleared, if there was
\* an offer.  An InfluxDB that cannot be reached keeps the user.
Broken ==
  /\ influx = "leaving" /\ Runs("broken") /\ Dispatchable
  /\ influx' = "none" /\ offered' = 0
  /\ user' = IF offered # 0 THEN Dropped ELSE user
  /\ gather' = IF offered # 0 THEN 0 ELSE gather
  /\ filled' = (filled /\ offered = 0)
  /\ Ends
  /\ UNCHANGED <<issued, queue, dbdVars, acct, snapshot, listed>>

BrokenUnreachable ==
  /\ influx = "leaving" /\ Runs("broken") /\ Dispatchable
  /\ offered # 0
  /\ "unreachable" \in Faults
  /\ failures' = failures \cup {"unreachable"}
  /\ influx' = "none" /\ offered' = 0
  /\ gather' = 0 /\ filled' = FALSE
  /\ hook' = "none"
  /\ UNCHANGED <<issued, user, queue, dbdVars, acct, snapshot, listed>>

BrokenDies ==
  /\ influx = "leaving" /\ Runs("broken") /\ Dispatchable
  /\ offered # 0
  /\ FailsIn("broken", "agent")
  /\ user' \in {user, Dropped}
  /\ \/ UNCHANGED <<gather, filled>>
     \/ gather' = 0 /\ (filled' = FALSE \/ UNCHANGED filled)
  /\ UNCHANGED <<influx, offered, issued, queue, dbdVars, acct, snapshot, listed>>

(***************************************************************************)
(* slurmdbd.  slurmdbd-ready waits for the data and for the other units.   *)
(***************************************************************************)
SlurmdbdReady ==
  /\ readyDue /\ DatabaseReady /\ Runs("ready") /\ Dispatchable
  /\ acct' = TRUE
  /\ gather' = Restored
  /\ listed' = TRUE
  /\ readyDue' = FALSE
  /\ Ends
  /\ UNCHANGED <<influxVars, queue, dbd, published, snapshot, filled>>

SlurmdbdReadyDies ==
  /\ readyDue /\ DatabaseReady /\ Runs("ready") /\ Dispatchable
  /\ FailsIn("ready", "agent")
  /\ acct' = TRUE
  /\ \/ UNCHANGED <<gather, listed>>
     \/ gather' = Restored /\ (listed' = TRUE \/ UNCHANGED listed)
  /\ UNCHANGED <<influxVars, queue, dbdVars, snapshot, filled>>

\* relation-broken, in which the integration does not count any more: deferred
\* offers stay deferred.
SlurmdbdDisconnected ==
  /\ dbd = "leaving" /\ Runs("disconnected")
  /\ dbd' = "none" /\ published' = FALSE /\ readyDue' = FALSE
  /\ acct' = FALSE
  /\ snapshot' = Saved
  /\ gather' = 0
  /\ listed' = FALSE
  /\ Ends
  /\ UNCHANGED <<influxVars, queue, filled>>

SlurmdbdDisconnectedDies ==
  /\ dbd = "leaving" /\ Runs("disconnected")
  /\ FailsIn("disconnected", "agent")
  /\ acct' = FALSE
  /\ \/ UNCHANGED <<snapshot, gather, listed>>
     \/ snapshot' = Saved /\ UNCHANGED <<gather, listed>>
     \/ snapshot' = Saved /\ gather' = 0 /\ (listed' = FALSE \/ UNCHANGED listed)
  /\ UNCHANGED <<influxVars, queue, dbdVars, filled>>

----------------------------------------------------------------------------
Next ==
  \/ IntegrateInflux \/ RemoveInflux
  \/ IntegrateSlurmdbd \/ SlurmdbdChanged \/ RemoveSlurmdbd
  \/ Joined \/ JoinedFails \/ HandleDeferred \/ HandleDeferredDies
  \/ Broken \/ BrokenUnreachable \/ BrokenDies
  \/ SlurmdbdReady \/ SlurmdbdReadyDies
  \/ SlurmdbdDisconnected \/ SlurmdbdDisconnectedDies

Spec == Init /\ [][Next]_vars

\* Juju and ops run what is due, and do not fail in it for ever.  Handlers of the
\* unit exclude one another, so those that others may hold up are strongly fair.
Fairness ==
  /\ WF_vars(HandleDeferred)
  /\ SF_vars(Joined) /\ SF_vars(Broken)
  /\ SF_vars(SlurmdbdReady) /\ SF_vars(SlurmdbdDisconnected)

FairSpec == Spec /\ Fairness

----------------------------------------------------------------------------
(***************************************************************************)
(* Properties                                                              *)
(***************************************************************************)
Offers == 1..MaxOffers

Hooks == {"none", "join", "broken", "ready", "disconnected"}

\* Every variable has the shape its declaration promises; a host is published
\* on an integration that exists, and slurmdbd-ready comes with it.
TypeOK ==
  /\ influx \in {"none", "joining", "joined", "leaving"}
  /\ {issued, offered, user, gather, snapshot} \subseteq Offers \cup {0}
  /\ queue \in Seq(Offers)
  /\ dbd \in {"none", "open", "leaving"}
  /\ readyDue => published
  /\ published => dbd # "none"
  /\ published \in BOOLEAN /\ readyDue \in BOOLEAN
  /\ acct \in BOOLEAN /\ filled \in BOOLEAN /\ listed \in BOOLEAN
  /\ hook \in Hooks
  /\ failures \subseteq Faults

\* charm.py:566 "acct_gather plugins require that slurmctld is integrated with
\* slurmdbd": slurm.conf has the plugin's options only with accounting, or while
\* the handler that adds it, or removes them, is to come.
PluginNeedsAccounting ==
  filled /\ listed => acct \/ readyDue \/ dbd = "leaving"

\* slurm.conf never has the plugin's options without an acct_gather.conf, in
\* whichever order InfluxDB and slurmdbd come and go, but for a failed handler
\* that is repeated next.
PluginIsConfigured == filled /\ listed /\ hook = "none" => gather # 0

\* The password the cluster was offered is the one InfluxDB knows, unless an
\* earlier attempt to create or to drop the user failed.
OfferWorks ==
  influx = "joined" /\ failures \cap {"join", "unreachable"} = {} => user = offered

\* Once no offer is deferred, acct_gather.conf has the newest one, or that of the
\* snapshot: the file set aside with slurmdbd, and restored with the next one.  So
\* an older offer, deferred or failed, never comes last, unless it is in a snapshot
\* that outlived its InfluxDB: nothing removes it, and slurmdbd-ready restores it
\* over the newest offer (charm.py:548).
NewestOfferUsed ==
  influx = "joined" /\ hook = "none" /\ queue = <<>> =>
    \/ gather = offered
    \/ snapshot # 0 /\ (gather = snapshot \/ (gather = 0 /\ ~listed))

\* When slurmdbd and InfluxDB stay, jobs are accounted and profiled in the end.
ProfilingServed ==
  <>[](dbd = "open" /\ published /\ influx = "joined") =>
    <>[](acct /\ listed /\ filled /\ gather # 0)
=============================================================================
