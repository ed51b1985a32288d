----------------------------- MODULE EgressLease -----------------------------
(***************************************************************************)
(* grok-egress's Redis lease backend: one (scope, gate) ZSET whose members *)
(* are the leases of all instances, each scored with its expiry.           *)
(*                                                                         *)
(* Every Redis command is one action, so that clients of any instance can  *)
(* interleave between ZREMRANGEBYSCORE, ZCARD and ZADD.  A client is a     *)
(* task that calls acquire again and again.                                *)
(*                                                                         *)
(* Time is counted in whole seconds, as now_epoch() reads it.  The ZSET is *)
(* the function left, from its members to their score minus the current    *)
(* time.  That goes below zero, because a client compares scores with the  *)
(* time it read before its first command, age[c] seconds ago, and it stops *)
(* at -MaxAge, which no client can tell from less.  The instances' clocks  *)
(* agree.                                                                  *)
(***************************************************************************)
EXTENDS Integers, FiniteSets

CONSTANTS Client,    \* tasks of all instances that acquire this gate
          Uid,       \* lease ids
          NoUid,     \* "no lease id"
          Limit,     \* slots of the gate
          Duration,  \* lease_secs, and how long acquire waits
          MaxAge,    \* bound: seconds the commands of one turn can take
          MaxFaults  \* bound: crashes, cancellations, Redis errors and
                     \* ids that are taken

ASSUME GateAssumption ==
  /\ IsFiniteSet(Client)
  /\ NoUid \notin Uid
  /\ Limit \in Nat \ {0}
  /\ Duration \in Nat \ {0}
  /\ MaxAge \in Nat
  /\ MaxFaults \in Nat

VARIABLES pc,        \* where each client is in acquire
          uid,       \* the id of the lease it added, or NoUid
          age,       \* seconds since it read "now"
          waited,    \* seconds since it called acquire
          left,      \* the ZSET: seconds until each member's score
          releasing, \* ids whose ZREM has been spawned
          faults     \* faults so far

vars == <<pc, uid, age, waited, left, releasing, faults>>

Turn == {"clean", "count", "add"}         \* between two commands of a turn
Trying == Turn \cup {"wait", "added"}     \* inside acquire

Larger(m, n) == IF m > n THEN m ELSE n
Lesser(m, n) == IF m < n THEN m ELSE n

zset == DOMAIN left
Only(members) == [u \in members |-> left[u]]

Fresh == Uid \ (zset \cup releasing \cup {uid[c] : c \in Client})

Faulty ==
  /\ faults < MaxFaults
  /\ faults' = faults + 1

-----------------------------------------------------------------------------
(* The client is out of acquire and of its lease.                          *)
Leave(c) ==
  /\ pc' = [pc EXCEPT ![c] = "idle"]
  /\ uid' = [uid EXCEPT ![c] = NoUid]
  /\ age' = [age EXCEPT ![c] = 0]
  /\ waited' = [waited EXCEPT ![c] = 0]

Begin(c) ==
  /\ pc[c] = "idle"
  /\ pc' = [pc EXCEPT ![c] = "clean"]
  /\ UNCHANGED <<uid, age, waited, left, releasing, faults>>

(* health: ZREMRANGEBYSCORE -inf now, with the "now" of this turn.         *)
ExpiringSoon(c) ==  \* mutant: cleans up to the new expiry, not up to now
  {u \in zset : left[u] <= Duration - age[c]}
OwnExpired(c) ==  \* mutant: cleans this client's own lease only
  {u \in zset : left[u] <= -age[c] /\ u = uid[c]}

Expired(c) == {u \in zset : left[u] <= -age[c]}

Clean(c) ==
  /\ pc[c] = "clean"
  /\ left' = Only(zset \ Expired(c))
  /\ pc' = [pc EXCEPT ![c] = "count"]
  /\ UNCHANGED <<uid, age, waited, releasing, faults>>

(* ZCARD, and what it decides: go on to ZADD, sleep, or time out.          *)
Overfull == Cardinality(zset) > Limit  \* mutant: off by one
Full == Cardinality(zset) >= Limit

FindsSlot(c) ==
  /\ pc[c] = "count" /\ ~Full
  /\ pc' = [pc EXCEPT ![c] = "add"]
  /\ UNCHANGED <<uid, age, waited, left, releasing, faults>>

FindsFull(c) ==
  /\ pc[c] = "count" /\ Full /\ waited[c] < Duration
  /\ pc' = [pc EXCEPT ![c] = "wait"]
  /\ age' = [age EXCEPT ![c] = 0]
  /\ UNCHANGED <<uid, waited, left, releasing, faults>>

TimesOut(c) ==
  /\ pc[c] = "count" /\ Full /\ waited[c] >= Duration
  /\ Leave(c)
  /\ UNCHANGED <<left, releasing, faults>>

(* ZADD of a new id, scored with the "now" of this turn plus the lease.    *)
(* Which id it is does not matter.                                         *)
NewUid == CHOOSE u \in Fresh : TRUE

AddTwiceTheLease(c) ==  \* mutant: the lease is added to a time that has it
  /\ pc[c] = "add"
  /\ Fresh # {}
  /\ uid' = [uid EXCEPT ![c] = NewUid]
  /\ left' = [u \in zset \cup {NewUid} |->
                IF u = NewUid THEN Duration + Duration ELSE left[u]]
  /\ pc' = [pc EXCEPT ![c] = "added"]
  /\ age' = [age EXCEPT ![c] = 0]
  /\ UNCHANGED <<waited, releasing, faults>>

Add(c) ==
  /\ pc[c] = "add"
  /\ Fresh # {}
  /\ uid' = [uid EXCEPT ![c] = NewUid]
  /\ left' = [u \in zset \cup {NewUid} |->
                IF u = NewUid THEN Larger(Duration - age[c], -MaxAge) ELSE left[u]]
  /\ pc' = [pc EXCEPT ![c] = "added"]
  /\ age' = [age EXCEPT ![c] = 0]
  /\ UNCHANGED <<waited, releasing, faults>>

(* ZADD finds the id taken, by a task of the same instance in the same     *)
(* nanosecond: it sets the score of that member and adds none, and the     *)
(* turn ends as if the gate were full.                                     *)
Collides(c) ==
  /\ pc[c] = "add"
  /\ Faulty
  /\ \E u \in zset : left' = [left EXCEPT ![u] = Larger(Duration - age[c], -MaxAge)]
  /\ IF waited[c] < Duration
       THEN /\ pc' = [pc EXCEPT ![c] = "wait"]
            /\ age' = [age EXCEPT ![c] = 0]
            /\ UNCHANGED <<uid, waited>>
       ELSE Leave(c)
  /\ UNCHANGED releasing

(* The reply to ZADD arrives: only now is there a Lease to be dropped.     *)
DropAtOnce(c) ==  \* mutant: "let _ = lease" drops the guard at once
  /\ pc[c] = "added"
  /\ pc' = [pc EXCEPT ![c] = "hold"]
  /\ waited' = [waited EXCEPT ![c] = 0]
  /\ releasing' = releasing \cup {uid[c]}
  /\ UNCHANGED <<uid, age, left, faults>>

Hold(c) ==
  /\ pc[c] = "added"
  /\ pc' = [pc EXCEPT ![c] = "hold"]
  /\ waited' = [waited EXCEPT ![c] = 0]
  /\ UNCHANGED <<uid, age, left, releasing, faults>>

(* After the poll interval the next turn begins.                           *)
PollAnew(c) ==  \* mutant: the deadline is computed inside the loop
  /\ pc[c] = "wait"
  /\ pc' = [pc EXCEPT ![c] = "clean"]
  /\ waited' = [waited EXCEPT ![c] = 0]
  /\ UNCHANGED <<uid, age, left, releasing, faults>>

Poll(c) ==
  /\ pc[c] = "wait"
  /\ pc' = [pc EXCEPT ![c] = "clean"]
  /\ UNCHANGED <<uid, age, waited, left, releasing, faults>>

(* The lease is dropped: its ZREM is spawned, and runs some time later.    *)
Release(c) ==
  /\ pc[c] = "hold"
  /\ releasing' = releasing \cup {uid[c]}
  /\ Leave(c)
  /\ UNCHANGED <<left, faults>>

ReleaseGate(u) ==  \* mutant: deletes the key instead of its member
  /\ u \in releasing
  /\ left' = Only({})
  /\ releasing' = releasing \ {u}
  /\ UNCHANGED <<pc, uid, age, waited, faults>>

DoRelease(u) ==
  /\ u \in releasing
  /\ left' = Only(zset \ {u})
  /\ releasing' = releasing \ {u}
  /\ UNCHANGED <<pc, uid, age, waited, faults>>

(* The ZREM fails, its instance dies first, or no runtime was there.       *)
LoseRelease(u) ==
  /\ u \in releasing
  /\ Faulty
  /\ releasing' = releasing \ {u}
  /\ UNCHANGED <<pc, uid, age, waited, left>>

(* A Redis error, or the end of the task, inside acquire.  After ZADD has  *)
(* run the member stays behind, and nobody knows its id.                   *)
Abandon(c) ==
  /\ pc[c] \in Trying
  /\ Faulty
  /\ Leave(c)
  /\ UNCHANGED <<left, releasing>>

(* The instance dies with the lease held.                                  *)
Crash(c) ==
  /\ pc[c] = "hold"
  /\ Faulty
  /\ Leave(c)
  /\ UNCHANGED <<left, releasing>>

(* active() from anywhere: cleans, then only reads.                        *)
Active ==
  /\ left' = Only({u \in zset : left[u] > 0})
  /\ UNCHANGED <<pc, uid, age, waited, releasing, faults>>

TimePasses ==
  /\ \A c \in Client : pc[c] \in Turn => age[c] < MaxAge
  /\ left' = [u \in zset |-> Larger(left[u] - 1, -MaxAge)]
  /\ age' = [c \in Client |-> IF pc[c] \in Turn THEN age[c] + 1 ELSE age[c]]
  /\ waited' = [c \in Client |->
                  IF pc[c] \in Trying THEN Lesser(waited[c] + 1, Duration)
                                      ELSE waited[c]]
  /\ UNCHANGED <<pc, uid, releasing, faults>>

-----------------------------------------------------------------------------
Init ==
  /\ pc = [c \in Client |-> "idle"]
  /\ uid = [c \in Client |-> NoUid]
  /\ age = [c \in Client |-> 0]
  /\ waited = [c \in Client |-> 0]
  /\ left = [u \in {} |-> 0]
  /\ releasing = {}
  /\ faults = 0

(* One turn of the loop in acquire, as the runtime and Redis drive it.     *)
Acquire(c) ==
  \/ Clean(c) \/ FindsSlot(c) \/ FindsFull(c) \/ TimesOut(c)
  \/ Add(c) \/ Hold(c) \/ Poll(c)

Next ==
  \/ \E c \in Client : \/ Begin(c) \/ Acquire(c) \/ Collides(c)
                       \/ Release(c) \/ Abandon(c) \/ Crash(c)
  \/ \E u \in Uid : DoRelease(u) \/ LoseRelease(u)
  \/ Active \/ TimePasses

Spec == Init /\ [][Next]_vars

(* Redis answers, the runtime polls, time goes on, and callers keep        *)
(* coming.  Nobody has to release, or to do so in time.                    *)
FairSpec ==
  /\ Spec
  /\ \A c \in Client : WF_vars(Begin(c)) /\ WF_vars(Acquire(c))
  /\ \A u \in Uid : WF_vars(DoRelease(u))
  /\ SF_vars(TimePasses)

-----------------------------------------------------------------------------
LeaseTypeOK ==
  /\ pc \in [Client -> Trying \cup {"idle", "hold"}]
  /\ uid \in [Client -> Uid \cup {NoUid}]
  /\ age \in [Client -> 0..MaxAge]
  /\ waited \in [Client -> 0..Duration]
  /\ zset \in SUBSET Uid
  /\ left \in [zset -> -MaxAge..Duration]
  /\ releasing \in SUBSET Uid
  /\ faults \in 0..MaxFaults

(* What the check-then-add of redis.rs:161-175 does guarantee: the gate is *)
(* oversold by less than the number of tasks that race for it, with the    *)
(* orphans of crashes and cancellations counted.                           *)
Adding == {c \in Client : pc[c] = "add"}

OversellBounded ==
  Cardinality(zset) + Cardinality(Adding) < Limit + Cardinality(Client)

(* A client that holds a lease keeps its slot until the lease expires:     *)
(* no slow client's cleaning and no release of another lease takes it.     *)
Holding(c) == pc[c] \in {"added", "hold"}

SlotKeptUntilExpiry ==
  [][\A c \in Client :
       (Holding(c) /\ Holding(c)' /\ uid[c] \in zset \ zset')
         => left[uid[c]] <= 0]_vars

(* Lease ids are not mixed up: two clients never share one, and one whose  *)
(* release is under way is nobody's.                                       *)
OneOwner ==
  \A c \in Client :
    uid[c] # NoUid =>
      /\ uid[c] \notin releasing
      /\ \A d \in Client : uid[d] = uid[c] => d = c

(* Every call of acquire comes to an end: with a lease, a timeout or an    *)
(* error, however the other clients race (redis.rs:195-227).               *)
AcquireEnds ==
  \A c \in Client : pc[c] \in Trying ~> pc[c] \notin Trying

(* A slot nobody gives back (crash, cancelled ZADD, lost release) is free  *)
(* again in the end (redis.rs:18).                                         *)
Orphans == zset \ (releasing \cup {uid[c] : c \in Client})

OrphansAreCleaned == \A u \in Uid : u \in Orphans ~> u \notin Orphans

(* The trait LeaseManager, as the Redis backend keeps it.                  *)
Trait == INSTANCE LeaseGate WITH
  Lease <- Uid,
  Gate <- {"gate"},
  Slots <- Limit + Cardinality(Client) - 1,
  held <- [g \in {"gate"} |-> zset],
  owned <- {uid[c] : c \in {d \in Client : Holding(d)}},
  running <- {u \in zset : left[u] > 0}

(* The backend keeps the promise of LeaseManager, with the crashes, lost   *)
(* releases and late commands it lives with: nobody's slot is freed while  *)
(* he has the lease and its time is not up, but the gate may have as many  *)
(* slots more as it has clients to race, less one (redis.rs:148-227).      *)
KeepsTrait == Trait!Spec

(* redis.rs:16-18 says that several instances passing ZCARD at once do not *)
(* oversell the gate.                                                      *)
NoOversell == Cardinality({u \in zset : left[u] > 0}) <= Limit
=============================================================================
