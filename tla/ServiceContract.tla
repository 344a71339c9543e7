--------------------------- MODULE ServiceContract --------------------------
(***************************************************************************)
(* What slurmctld and a client of its data (sackd, slurmrestd) promise     *)
(* each other, whatever is deferred or fails between them.  slurmctld      *)
(* offers a version of its configuration, or nothing; the client runs with *)
(* one version, or does not run; told says that it has an event to handle. *)
(* The promise is Next: no change of the offer goes untold, and a client   *)
(* with nothing left to handle runs with what is offered or not at all.    *)
(***************************************************************************)
EXTENDS Naturals

CONSTANT MaxVersion

VARIABLES
  offered,  \* version published to the client, 0 for none
  using,    \* version its service runs with, 0 if it does not run
  told      \* the client has an event to handle

vars == <<offered, using, told>>

Versions == 0 .. MaxVersion

Init == offered = 0 /\ using = 0 /\ told = FALSE

\* Something is published, completed or withdrawn.
Publish ==
  /\ offered' \in Versions
  /\ told' = TRUE
  /\ UNCHANGED using

\* The client takes over what is offered; nothing offered stops it.
Adopt ==
  /\ told
  /\ using' = offered
  /\ told' \in BOOLEAN
  /\ UNCHANGED offered

\* The service fails, or is stopped for an integration that was replaced.
Halt ==
  /\ told
  /\ using' = 0
  /\ told' \in BOOLEAN
  /\ UNCHANGED offered

\* The service comes up with an earlier version, but the client will hear more.
Resume ==
  /\ told /\ offered # 0
  /\ using' \in Versions
  /\ UNCHANGED <<offered, told>>

Next == Publish \/ Adopt \/ Halt \/ Resume

Spec == Init /\ [][Next]_vars

\* A client that has nothing left to handle runs with what is offered, or not.
InStep == ~told => using \in {0, offered}
=============================================================================
