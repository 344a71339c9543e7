-------------------------- MODULE RotationPromise --------------------------
(***************************************************************************)
(* What a rotation of the authentication key promises the consumers,       *)
(* however rotations overlap and whatever fails at a consumer.  The        *)
(* controllers accept a set of keys and offer one of them, the newest      *)
(* published; a consumer uses one that was offered, or does not run, and   *)
(* `told' are those that have something to handle.  The promise is Next:   *)
(* only an accepted key is offered, the one on offer is not retired, no    *)
(* consumer in service goes untold of a new one, and one that has nothing  *)
(* to handle uses what is on offer.                                        *)
(***************************************************************************)
EXTENDS Naturals, Sequences

CONSTANTS Consumers, Keys

VARIABLES
  accepted,  \* keys the controllers accept
  offered,   \* keys published so far, the one on offer last
  using,     \* using[c]: key of c's service, 0 if it does not run
  told       \* consumers that have something to handle

vars == <<accepted, offered, using, told>>

Current == offered[Len(offered)]
Offered == {offered[r] : r \in 1..Len(offered)}

Init ==
  /\ \E k \in Keys : accepted = {k} /\ offered = <<k>>
  /\ using = [c \in Consumers |-> 0]
  /\ told = {}

Introduce(k) ==
  /\ accepted' = accepted \cup {k}
  /\ UNCHANGED <<offered, using, told>>

Publish(k) ==
  /\ k \in accepted
  /\ offered' = Append(offered, k)
  /\ told' \in SUBSET Consumers
  /\ told \cup {c \in Consumers : using[c] # 0} \subseteq told'
  /\ UNCHANGED <<accepted, using>>

Retire ==
  /\ accepted' \in SUBSET accepted
  /\ Current \in accepted'
  /\ UNCHANGED <<offered, using, told>>

Runs(c, keys) == \E k \in keys : using' = [using EXCEPT ![c] = k]

\* A consumer that has nothing to handle starts, goes on, or stops.
Serve(c) ==
  /\ c \notin told
  /\ Runs(c, {0, Current})
  /\ UNCHANGED <<accepted, offered, told>>

\* One that has may use an older key meanwhile ...
Lag(c) ==
  /\ c \in told
  /\ Runs(c, {0} \cup Offered)
  /\ UNCHANGED <<accepted, offered, told>>

\* ... but is not done before it uses the one on offer, or none.
Settle(c) ==
  /\ c \in told
  /\ Runs(c, {0, Current})
  /\ told' = told \ {c}
  /\ UNCHANGED <<accepted, offered>>

Next ==
  \/ \E k \in Keys : Introduce(k) \/ Publish(k)
  \/ Retire
  \/ \E c \in Consumers : Serve(c) \/ Lag(c) \/ Settle(c)

Spec == Init /\ [][Next]_vars

\* A consumer in service is accepted, or has something to handle that helps.
NoSilentLockout == \A c \in Consumers : using[c] \in {0} \cup accepted \/ c \in told

\* No service runs with a key that was not published.
OnlyOffered == \A c \in Consumers : using[c] \in {0} \cup Offered
=============================================================================
