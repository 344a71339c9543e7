------------------------------- MODULE JobMail -------------------------------
(***************************************************************************)
(* Job mail: slurmctld is integrated with an SMTP server.  Every unit of   *)
(* slurmctld installs slurm-mail and writes its own slurm-mail.conf; the   *)
(* leader alone names the mail program in the shared slurm.conf.  Nobody   *)
(* tells the leader that the others are done, and each unit handles its    *)
(* events when it comes to them: what is set or removed while leadership   *)
(* moves is the subject here, with what is deferred until accounting is    *)
(* there.  A hook or an event that fails is repeated, unless a comment     *)
(* says otherwise; a repetition that changes nothing is not a step.        *)
(***************************************************************************)
CONSTANTS
  Units,   \* the units slurmctld can have
  First,   \* the one it starts with, which leads
  Faults   \* what may go wrong, a subset of FaultKinds

FaultKinds ==
  { "apt",         \* slurm-mail is not installed, or not removed
    "service",     \* _reconfigure ends early: slurmctld is down or fails
    "leadership" } \* another unit becomes the leader

ASSUME FirstKnown  == First \in Units
ASSUME FaultsKnown == Faults \subseteq FaultKinds

VARIABLES
  units,       \* the units of slurmctld
  past,        \* ... and those it had
  leader,
  accounting,  \* slurmdbd has published its host (database_ready)
  joined,      \* the smtp integration exists
  published,   \* ... and the server has published its data, or had when it ended
  due,         \* per unit: events to come, or deferred
  package,     \* units that have slurm-mail
  stale,       \* per unit: the fields of its slurm-mail.conf that are not the newest
  mailProg,    \* slurm.conf names the mail program
  running,     \* slurmctld was last restarted or reconfigured with it
  failed,      \* the last handler did not get to the end of _reconfigure
  lost         \* leadership moved to a unit that had handled what the old leader
               \* had not

outside == <<units, past, leader, accounting, joined, published>>
mailVars == <<package, stale, mailProg, running, failed>>
allVars == <<outside, due, mailVars, lost>>

\* The server with its port and login, and email-from-name.
Fields == {"server", "name"}
Events == {"created", "data", "broken", "config"}

MailTypeOK ==
  /\ units \subseteq Units /\ past \subseteq Units /\ leader \in units
  /\ accounting \in BOOLEAN /\ joined \in BOOLEAN /\ published \in BOOLEAN
  /\ due \in [Units -> SUBSET Events]
  /\ package \subseteq Units /\ stale \in [Units -> SUBSET Fields]
  /\ mailProg \in BOOLEAN /\ running \in BOOLEAN /\ failed \in BOOLEAN /\ lost \in BOOLEAN

MailInit ==
  /\ units = {First} /\ past = {} /\ leader = First
  /\ accounting = FALSE /\ joined = FALSE /\ published = FALSE
  /\ due = [u \in Units |-> {}]
  /\ package = {} /\ stale = [u \in Units |-> Fields]
  /\ mailProg = FALSE /\ running = FALSE /\ failed = FALSE /\ lost = FALSE

(***************************************************************************)
(* The operator, Juju and the SMTP integrator                              *)
(***************************************************************************)
Told(event) == due' = [u \in Units |-> IF u \in units THEN due[u] \cup {event} ELSE due[u]]
Outdated(field) == stale' = [u \in Units |-> stale[u] \cup {field}]

\* Juju allows a new integration when the old one is broken on every unit.
IntegrateSmtp ==
  /\ ~joined /\ \A u \in units : "broken" \notin due[u]
  /\ joined' = TRUE /\ published' = FALSE
  /\ Told("created")
  /\ UNCHANGED <<units, past, leader, accounting, mailVars, lost>>

\* New data.  Every unit is told of it, whatever the leader missed before.
Offer ==
  /\ joined
  /\ published' = TRUE
  /\ Told("data") /\ Outdated("server")
  /\ lost' = FALSE
  /\ UNCHANGED <<units, past, leader, accounting, joined, package, mailProg, running, failed>>

SeparateSmtp ==
  /\ joined
  /\ joined' = FALSE
  /\ Told("broken")
  /\ lost' = FALSE
  /\ UNCHANGED <<units, past, leader, accounting, published, mailVars>>

SetName ==
  /\ Told("config") /\ Outdated("name")
  /\ UNCHANGED <<outside, package, mailProg, running, failed, lost>>

AccountingChanges ==
  /\ accounting' = ~accounting
  /\ UNCHANGED <<units, past, leader, joined, published, due, mailVars, lost>>

\* A new unit, which has a new number, is told of everything there is.
AddUnit(u) ==
  /\ u \notin units \cup past
  /\ units' = units \cup {u}
  /\ due' = [due EXCEPT ![u] = (IF joined THEN {"created"} ELSE {})
                          \cup (IF joined /\ published THEN {"data"} ELSE {})]
  /\ UNCHANGED <<past, leader, accounting, joined, published, mailVars, lost>>

\* The next leader has already handled an event that the old one has not.
Overtaken(u) == \E e \in {"data", "broken"} : e \in due[leader] /\ e \notin due[u]

LeaderMoves(u) ==
  /\ "leadership" \in Faults
  /\ u \in units \ {leader}
  /\ leader' = u
  /\ lost' = (lost \/ Overtaken(u))
  /\ UNCHANGED <<units, past, accounting, joined, published, due, mailVars>>

(***************************************************************************)
(* Handlers of a unit.  A definition named ...Bug is a faulty variant of   *)
(* the one after it, kept to show which property notices it.               *)
(***************************************************************************)
Handles(u, event) == u \in units /\ event \in due[u]
Done(u, events) == due' = [due EXCEPT ![u] = @ \ events]

\* configure: only the given fields are written.
Configured(u, fields) == stale' = [stale EXCEPT ![u] = @ \ fields]

\* _reconfigure: slurmctld runs with the slurm.conf of now, or it ends early.
Reconfigure ==
  \/ running' = mailProg' /\ failed' = FALSE
  \/ "service" \in Faults /\ failed' = TRUE /\ UNCHANGED running

\* smtp_relation_created waits for accounting.  It does not look at the
\* integration, which may be gone when it is handled.
Created(u) ==
  /\ Handles(u, "created") /\ accounting
  /\ package' = package \cup {u}
  /\ Done(u, {"created"})
  /\ UNCHANGED <<outside, stale, mailProg, running, failed, lost>>

\* ... and defers when the package cannot be installed.  Variant: it does not.
CreatedFailsBug(u) ==
  /\ "apt" \in Faults
  /\ Handles(u, "created") /\ accounting
  /\ Done(u, {"created"})
  /\ UNCHANGED <<outside, mailVars, lost>>
CreatedFails(u) ==
  /\ "apt" \in Faults
  /\ Handles(u, "created") /\ accounting
  /\ UNCHANGED allVars

\* smtp_data_available waits for accounting too.  The leader names the mail
\* program, installed or not.  Between the end of the integration and
\* relation-broken a deferred one still finds the data.
\* Variant: it does not wait, and is over without accounting.
SmtpDataBug(u) ==
  /\ Handles(u, "data") /\ (joined \/ "broken" \in due[u])
  /\ IF accounting
       THEN Configured(u, Fields) /\ mailProg' = (mailProg \/ u = leader) /\ Reconfigure
       ELSE UNCHANGED <<stale, mailProg, running, failed>>
  /\ Done(u, {"data"})
  /\ UNCHANGED <<outside, package, lost>>
SmtpData(u) ==
  /\ Handles(u, "data") /\ accounting
  /\ joined \/ "broken" \in due[u]
  /\ Configured(u, Fields)
  /\ mailProg' = (mailProg \/ u = leader)
  /\ Reconfigure
  /\ Done(u, {"data"})
  /\ UNCHANGED <<outside, package, lost>>

Uninstalled(u) == package' = package \ {u}

\* smtp_relation_broken.  A package that cannot be removed ends the handler, which
\* nobody repeats.  Variant: slurmctld is reconfigured before slurm.conf changes.
BrokenBug(u) ==
  /\ Handles(u, "broken")
  /\ running' = mailProg /\ failed' = FALSE
  /\ mailProg' = (mailProg /\ u # leader)
  /\ Uninstalled(u)
  /\ Done(u, {"broken", "data"})
  /\ UNCHANGED <<outside, stale, lost>>
Broken(u) ==
  /\ Handles(u, "broken")
  /\ mailProg' = (mailProg /\ u # leader)
  /\ \/ Uninstalled(u) /\ Reconfigure
     \/ "apt" \in Faults /\ failed' = TRUE /\ UNCHANGED <<package, running>>
  /\ Done(u, {"broken", "data"})
  /\ UNCHANGED <<outside, stale, lost>>

\* The unit is removed: relation-departed notes it, so that relation-broken leaves
\* everything in place for the others.  A leader is succeeded by one of them.
Removed(u, next) ==
  /\ u \in units /\ next \in units \ {u}
  /\ units' = units \ {u} /\ past' = past \cup {u}
  /\ leader' = IF u = leader THEN next ELSE leader
  /\ due' = [due EXCEPT ![u] = {}]
  /\ lost' = (lost \/ (u = leader /\ Overtaken(next)))
  /\ UNCHANGED <<accounting, joined, published>>

\* Variant: the unit cleans up as if the integration were removed.
DepartBug(u, next) ==
  /\ Removed(u, next)
  /\ mailProg' = (mailProg /\ u # leader)
  /\ Reconfigure
  /\ UNCHANGED <<package, stale>>
Depart(u, next) == Removed(u, next) /\ UNCHANGED mailVars

\* config_changed: each unit writes the name, if there is an integration, and
\* reconfigures slurmctld.  Variant: only the leader writes it.
ConfigBug(u) ==
  /\ Handles(u, "config")
  /\ IF joined /\ u = leader THEN Configured(u, {"name"}) ELSE UNCHANGED stale
  /\ UNCHANGED mailProg /\ Reconfigure
  /\ Done(u, {"config"})
  /\ UNCHANGED <<outside, package, lost>>
Config(u) ==
  /\ Handles(u, "config")
  /\ IF joined THEN Configured(u, {"name"}) ELSE UNCHANGED stale
  /\ UNCHANGED mailProg /\ Reconfigure
  /\ Done(u, {"config"})
  /\ UNCHANGED <<outside, package, lost>>

MailNext ==
  \/ IntegrateSmtp \/ Offer \/ SeparateSmtp \/ SetName \/ AccountingChanges
  \/ \E u \in Units :
       \/ AddUnit(u) \/ LeaderMoves(u)
       \/ Created(u) \/ CreatedFails(u) \/ SmtpData(u) \/ Broken(u) \/ Config(u)
       \/ \E next \in Units : Depart(u, next)

MailSpec == MailInit /\ [][MailNext]_allVars

\* Events are handled; what is deferred is tried with every further hook, so it is
\* handled if it can be time and again.
MailFairness ==
  \A u \in Units :
    /\ WF_allVars(Broken(u)) /\ WF_allVars(Config(u))
    /\ SF_allVars(Created(u)) /\ SF_allVars(SmtpData(u))

FairMailSpec == MailSpec /\ MailFairness

(***************************************************************************)
(* Properties                                                              *)
(***************************************************************************)

\* slurm.conf names the mail program once the server's data is there and no more
\* when the integration is removed, or the unit that leads has still to see to it:
\* with the leader's departures and deferred events, and except for what a new
\* leader has already handled as a follower (charm.py:836 and 860).
ProgramInStep ==
  ~lost => /\ joined /\ published => mailProg \/ "data" \in due[leader]
           /\ ~joined /\ mailProg => "broken" \in due[leader]

\* A unit with nothing left to handle has the package and sends with the newest
\* server and name, whatever is left of an earlier integration and was deferred or
\* failed since: what charm.py:329-332 calls in sync.
UnitsInSync ==
  joined /\ published =>
    \A u \in units : due[u] = {} => u \in package /\ stale[u] = {}

\* When every unit has handled the end of the integration no slurmctld uses the
\* program any more, under the same condition and if the last handler came to its end.
MailStopped ==
  ~joined /\ running /\ (\A u \in units : "broken" \notin due[u]) => lost \/ failed

\* With accounting again and again, and a leader that stays at last, slurmctld gets
\* to mail through the server, if no handler fails at the end and leadership has not
\* overtaken the events.
MailSent ==
  ([]<>accounting /\ <>[][leader' = leader]_allVars) =>
    (joined /\ published ~> (running \/ ~joined \/ lost \/ failed))
=============================================================================
