------------------------------ MODULE LeaseGate ------------------------------
(***************************************************************************)
(* What the trait LeaseManager of grok-egress promises whoever calls       *)
(* acquire, with no semaphore, no Redis command and no score: a gate has a *)
(* number of slots, a lease is of one gate and takes one slot of it, and   *)
(* is given out only while a slot is free.  The slot is the caller's until *)
(* it drops the lease or the lease's time is up, whichever comes first,    *)
(* and is free some time after that.                                       *)
(***************************************************************************)
EXTENDS Integers, FiniteSets

CONSTANTS Lease,  \* the leases that may be given out
          Gate,   \* scope and gate id
          Slots   \* slots of each gate

VARIABLES held,    \* the leases that take a slot of each gate
          owned,   \* the leases whose callers have not dropped them
          running  \* the leases whose time is not up

vars == <<held, owned, running>>

Init ==
  /\ held = [g \in Gate |-> {}]
  /\ owned = {} /\ running = {}

(* active(scope, gate).                                                    *)
Active(g) == Cardinality(held[g])

Acquire(l, g) ==
  /\ \A any \in Gate : l \notin held[any]
  /\ Active(g) < Slots
  /\ held' = [held EXCEPT ![g] = @ \cup {l}]
  /\ owned' = owned \cup {l}
  /\ running' \in {running, running \cup {l}}

(* A lease is dropped, and its slot is given back later, if ever.          *)
Drop(l) ==
  /\ owned' = owned \ {l}
  /\ UNCHANGED <<held, running>>

(* Slots become free, none of a lease that is owned and still runs.        *)
Release(g, gone) ==
  /\ owned' \in {owned, owned \ gone}
  /\ gone \cap owned' \cap running = {}
  /\ held' = [held EXCEPT ![g] = @ \ gone]
  /\ running' = running \ gone

Clock ==
  /\ running' \in SUBSET UNION {held[g] : g \in Gate}
  /\ UNCHANGED <<held, owned>>

Next ==
  \/ \E g \in Gate : \/ \E l \in Lease : Acquire(l, g)
                     \/ \E gone \in SUBSET held[g] : Release(g, gone)
  \/ \E l \in Lease : Drop(l)
  \/ Clock

Spec == Init /\ [][Next]_vars
=============================================================================
