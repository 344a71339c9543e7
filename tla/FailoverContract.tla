-------------------------- MODULE FailoverContract --------------------------
(***************************************************************************)
(* What the controllers of a highly available cluster promise each other:  *)
(* they share one list of controllers, whose order says who takes over     *)
(* from whom, and each runs with a copy of it.  The list may change only   *)
(* so that the members that stay keep their places in the order, and with  *)
(* a change a restart is owed to every member that runs with another copy. *)
(* No member is stopped, and none is forgotten.                            *)
(***************************************************************************)
EXTENDS SequencesExt

CONSTANT Units

VARIABLES
  members,  \* the controllers of the application
  left,     \* those that were, and do not come back
  list,     \* the controllers in failover order, << >> before the first one starts
  using,    \* using[u]: the list that u runs with, << >> if it does not run
  owed      \* the members that will be restarted

vars == <<members, left, list, using, owed>>

\* Controllers in some order, each of them once.
Orders(s) == UNION {SetToSeqs(t) : t \in SUBSET s}

Before(order, c, d) == \E i, j \in DOMAIN order : i < j /\ order[i] = c /\ order[j] = d

\* u runs with the list, or with none.
UpToDate(u) == using[u] \in {<<>>, list}

Init ==
  /\ members \in SUBSET Units
  /\ left = {} /\ list = <<>> /\ owed \subseteq members
  /\ using = [u \in Units |-> <<>>]

\* A controller is new: it does not run yet.
Join(u) ==
  /\ u \in Units \ (members \cup left)
  /\ members' = members \cup {u}
  /\ UNCHANGED <<left, list, using>>
  /\ owed \subseteq owed' /\ owed' \subseteq members'

\* A controller leaves, and stops; the list has it until it is next changed.
Leave(u) ==
  /\ u \in members
  /\ members' = members \ {u} /\ left' = left \cup {u}
  /\ using' = [using EXCEPT ![u] = <<>>]
  /\ UNCHANGED list
  /\ owed' = owed \ {u}

\* Restarts are owed, for whatever reason; one that is still needed is not waived.
Owe ==
  /\ UNCHANGED <<members, left, list, using>>
  /\ owed' \subseteq members
  /\ \A v \in owed \ owed' : UpToDate(v)

\* A controller that is in the list is restarted, or started.  The first one to
\* start makes the list.
Restart(u) ==
  /\ u \in members
  /\ UNCHANGED <<members, left>>
  /\ using' = [using EXCEPT ![u] = list']
  /\ u \in ToSet(list')
  /\ list' = list \/ (list = <<>> /\ list' \in Orders(members \cup left))
  /\ owed' \subseteq members
  /\ \A v \in owed \ owed' : UpToDate(v)'

\* A running controller changes the list and is restarted with it.
Change(u) ==
  /\ u \in members /\ using[u] # <<>>
  /\ UNCHANGED <<members, left>>
  /\ using' = [using EXCEPT ![u] = list']
  /\ u \in ToSet(list')
  /\ list' \in Orders(members \cup left)
  /\ \A c \in ToSet(list) \cap members : c \in ToSet(list')
  /\ \A c, d \in members : Before(list, c, d) => Before(list', c, d)
  /\ owed' \subseteq members
  /\ \A v \in members \ owed' : UpToDate(v)'

Next ==
  \/ Owe
  \/ \E u \in Units : Join(u) \/ Leave(u) \/ Restart(u) \/ Change(u)

Spec == Init /\ [][Next]_vars

\* A member to which nothing is owed runs with the list, if it runs ...
NoneForgotten == \A u \in members \ owed : UpToDate(u)

\* ... and members agree on who takes over from whom whatever is still owed.
InOrder == \A u, c, d \in members : Before(using[u], c, d) => Before(list, c, d)
=============================================================================
