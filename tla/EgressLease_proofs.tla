------------------------- MODULE EgressLease_proofs -------------------------
(***************************************************************************)
(* What the Redis gate guarantees, for every number of clients, slots, and *)
(* every length of lease.                                                  *)
(***************************************************************************)
EXTENDS EgressLease, FiniteSetTheorems, TLAPS

(* A client between ZADD and the end of its lease knows its id.            *)
KnowsId == \A c \in Client : Holding(c) => uid[c] # NoUid

Ownership == KnowsId /\ OneOwner

-----------------------------------------------------------------------------
(* The scores a ZADD, a decay and a removal leave behind.                  *)
LEMMA ScoreRange ==
  ASSUME NEW n \in -MaxAge..Duration, NEW k \in 0..MaxAge
  PROVE  /\ Larger(n - 1, -MaxAge) \in -MaxAge..Duration
         /\ Larger(Duration - k, -MaxAge) \in -MaxAge..Duration
  BY GateAssumption DEF Larger

(* A new lease id is nobody's.                                             *)
LEMMA FreshId ==
  ASSUME Fresh # {}
  PROVE  /\ NewUid \in Uid /\ NewUid \notin zset /\ NewUid \notin releasing
         /\ \A c \in Client : uid[c] # NewUid
<1>1. NewUid \in Fresh
  BY DEF NewUid
<1> QED
  BY <1>1 DEF Fresh

(* Removing members keeps the ZSET well typed.                             *)
LEMMA OnlyType ==
  ASSUME LeaseTypeOK, NEW members, members \subseteq zset, left' = Only(members)
  PROVE  zset' = members /\ zset' \in SUBSET Uid /\ left' \in [zset' -> -MaxAge..Duration]
<1>1. zset' = members
  BY DEF zset, Only
<1>2. left \in [zset -> -MaxAge..Duration] /\ zset \in SUBSET Uid
  BY DEF LeaseTypeOK
<1>3. left' \in [members -> -MaxAge..Duration]
  BY <1>2 DEF Only
<1> QED
  BY <1>1, <1>2, <1>3

(* Leaving acquire or the lease keeps the types of a client's state.       *)
LEMMA LeaveType ==
  ASSUME LeaseTypeOK, NEW c \in Client, Leave(c)
  PROVE  /\ pc' \in [Client -> Trying \cup {"idle", "hold"}]
         /\ uid' \in [Client -> Uid \cup {NoUid}]
         /\ age' \in [Client -> 0..MaxAge]
         /\ waited' \in [Client -> 0..Duration]
  BY GateAssumption DEF LeaseTypeOK, Leave

(* A collision removes and adds nothing, and ends the client's turn.       *)
LEMMA CollidesParts ==
  ASSUME LeaseTypeOK, NEW c \in Client, Collides(c)
  PROVE  /\ pc[c] = "add" /\ zset' = zset /\ releasing' = releasing
         /\ faults' \in 0..MaxFaults
         /\ \/ Leave(c)
            \/ /\ pc' = [pc EXCEPT ![c] = "wait"] /\ age' = [age EXCEPT ![c] = 0]
               /\ UNCHANGED <<uid, waited>>
<1>1. zset' = zset
  BY DEF Collides, zset
<1>2. faults' \in 0..MaxFaults
  BY GateAssumption DEF Collides, Faulty, LeaseTypeOK
<1>3. \/ Leave(c)
      \/ /\ pc' = [pc EXCEPT ![c] = "wait"] /\ age' = [age EXCEPT ![c] = 0]
         /\ UNCHANGED <<uid, waited>>
  BY DEF Collides
<1> QED
  BY <1>1, <1>2, <1>3 DEF Collides

(* Init has the types.                                                     *)
LEMMA LeaseTypeInit == Init => LeaseTypeOK
<1> SUFFICES ASSUME Init PROVE LeaseTypeOK
  OBVIOUS
<1>1. zset = {} /\ left \in [zset -> -MaxAge..Duration]
  BY DEF Init, zset
<1> QED
  BY <1>1, GateAssumption DEF Init, LeaseTypeOK

(* Every step keeps the types; a release needs the id it releases.         *)
LEMMA LeaseTypeStep == LeaseTypeOK /\ KnowsId /\ [Next]_vars => LeaseTypeOK'
<1> SUFFICES ASSUME LeaseTypeOK, KnowsId, [Next]_vars PROVE LeaseTypeOK'
  OBVIOUS
<1> USE GateAssumption
<1>1. ASSUME NEW c \in Client, Begin(c) PROVE LeaseTypeOK'
  BY <1>1 DEF LeaseTypeOK, Begin, Trying, Turn, zset
<1>2. ASSUME NEW c \in Client, Clean(c) PROVE LeaseTypeOK'
  <2>1. zset' \in SUBSET Uid /\ left' \in [zset' -> -MaxAge..Duration]
    BY <1>2, OnlyType DEF Clean
  <2> QED
    BY <1>2, <2>1 DEF LeaseTypeOK, Clean, Trying, Turn
<1>3. ASSUME NEW c \in Client, FindsSlot(c) PROVE LeaseTypeOK'
  BY <1>3 DEF LeaseTypeOK, FindsSlot, Trying, Turn, zset
<1>4. ASSUME NEW c \in Client, FindsFull(c) PROVE LeaseTypeOK'
  BY <1>4 DEF LeaseTypeOK, FindsFull, Trying, Turn, zset
<1>5. ASSUME NEW c \in Client, TimesOut(c) PROVE LeaseTypeOK'
  BY <1>5, LeaveType DEF LeaseTypeOK, TimesOut, zset
<1>6. ASSUME NEW c \in Client, Add(c) PROVE LeaseTypeOK'
  <2>1. NewUid \in Uid
    BY <1>6, FreshId DEF Add
  <2>2. zset' = zset \cup {NewUid}
    BY <1>6 DEF Add, zset
  <2>3. age[c] \in 0..MaxAge
    BY DEF LeaseTypeOK
  <2>4. Larger(Duration - age[c], -MaxAge) \in -MaxAge..Duration
    <3>1. Duration \in -MaxAge..Duration
      OBVIOUS
    <3> QED
      BY <2>3, <3>1, ScoreRange
  <2>5. left' \in [zset' -> -MaxAge..Duration]
    BY <1>6, <2>2, <2>4 DEF Add, LeaseTypeOK
  <2> QED
    BY <1>6, <2>1, <2>2, <2>5 DEF LeaseTypeOK, Add, Trying, Turn
<1>7. ASSUME NEW c \in Client, Hold(c) PROVE LeaseTypeOK'
  BY <1>7 DEF LeaseTypeOK, Hold, Trying, Turn, zset
<1>8. ASSUME NEW c \in Client, Poll(c) PROVE LeaseTypeOK'
  BY <1>8 DEF LeaseTypeOK, Poll, Trying, Turn, zset
<1>9. ASSUME NEW c \in Client, Release(c) PROVE LeaseTypeOK'
  <2>1. uid[c] \in Uid
    BY <1>9 DEF LeaseTypeOK, KnowsId, Holding, Release
  <2> QED
    BY <1>9, <2>1, LeaveType DEF LeaseTypeOK, Release, zset
<1>10. ASSUME NEW c \in Client, Abandon(c) \/ Crash(c) PROVE LeaseTypeOK'
  BY <1>10, LeaveType DEF LeaseTypeOK, Abandon, Crash, Faulty, zset
<1>11. ASSUME NEW u \in Uid, DoRelease(u) PROVE LeaseTypeOK'
  <2>1. zset' \in SUBSET Uid /\ left' \in [zset' -> -MaxAge..Duration]
    BY <1>11, OnlyType DEF DoRelease
  <2> QED
    BY <1>11, <2>1 DEF LeaseTypeOK, DoRelease
<1>12. ASSUME NEW u \in Uid, LoseRelease(u) PROVE LeaseTypeOK'
  BY <1>12 DEF LeaseTypeOK, LoseRelease, Faulty, zset
<1>13. CASE Active
  <2>1. zset' \in SUBSET Uid /\ left' \in [zset' -> -MaxAge..Duration]
    BY <1>13, OnlyType DEF Active
  <2> QED
    BY <1>13, <2>1 DEF LeaseTypeOK, Active
<1>14. CASE TimePasses
  <2>1. zset' = zset
    BY <1>14 DEF TimePasses, zset
  <2>2. left' \in [zset' -> -MaxAge..Duration]
    <3>1. \A u \in zset : left[u] \in -MaxAge..Duration
      BY DEF LeaseTypeOK
    <3>2. \A u \in zset : Larger(left[u] - 1, -MaxAge) \in -MaxAge..Duration
      BY <3>1 DEF Larger
    <3> QED
      BY <1>14, <2>1, <3>2 DEF TimePasses
  <2>3. age' \in [Client -> 0..MaxAge] /\ waited' \in [Client -> 0..Duration]
    BY <1>14 DEF LeaseTypeOK, TimePasses, Lesser
  <2> QED
    BY <1>14, <2>1, <2>2, <2>3 DEF LeaseTypeOK, TimePasses
<1>15. CASE UNCHANGED vars
  BY <1>15 DEF vars, LeaseTypeOK, zset
<1>16. ASSUME NEW c \in Client, Collides(c) PROVE LeaseTypeOK'
  <2>1. zset' = zset /\ uid' \in [Client -> Uid \cup {NoUid}]
        /\ releasing' = releasing /\ faults' \in 0..MaxFaults
    BY <1>16, CollidesParts, LeaveType DEF LeaseTypeOK
  <2>2. left' \in [zset' -> -MaxAge..Duration]
    <3>1. Larger(Duration - age[c], -MaxAge) \in -MaxAge..Duration
      <4>1. Duration \in -MaxAge..Duration /\ age[c] \in 0..MaxAge
        BY DEF LeaseTypeOK
      <4> QED
        BY <4>1, ScoreRange
    <3>2. PICK u \in zset : left' = [left EXCEPT ![u] = Larger(Duration - age[c], -MaxAge)]
      BY <1>16 DEF Collides
    <3> QED
      BY <2>1, <3>1, <3>2 DEF LeaseTypeOK
  <2>3. /\ pc' \in [Client -> Trying \cup {"idle", "hold"}]
        /\ age' \in [Client -> 0..MaxAge] /\ waited' \in [Client -> 0..Duration]
    <3>1. CASE Leave(c)
      BY <3>1, LeaveType
    <3>2. CASE ~Leave(c)
      BY <1>16, <3>2, CollidesParts DEF LeaseTypeOK, Trying, Turn
    <3> QED
      BY <3>1, <3>2
  <2> QED
    BY <2>1, <2>2, <2>3 DEF LeaseTypeOK
<1> QED
  BY <1>1, <1>2, <1>3, <1>4, <1>5, <1>6, <1>7, <1>8, <1>9, <1>10, <1>11, <1>12,
     <1>13, <1>14, <1>15, <1>16 DEF Next, Acquire

-----------------------------------------------------------------------------
(* At the start nobody owns an id.                                         *)
LEMMA OwnershipInit == Init => Ownership
  BY DEF Init, Ownership, KnowsId, OneOwner, Holding

(* The client that leaves has no id any more, the others keep theirs.      *)
LEMMA LeaveOwner ==
  ASSUME LeaseTypeOK, NEW c \in Client, Leave(c)
  PROVE  /\ uid'[c] = NoUid /\ ~Holding(c)'
         /\ \A d \in Client \ {c} : uid'[d] = uid[d] /\ pc'[d] = pc[d]
  BY DEF LeaseTypeOK, Leave, Holding

(* Only Add hands out an id, and a fresh one; whoever leaves gives it up.  *)
LEMMA OwnershipStep == LeaseTypeOK /\ Ownership /\ [Next]_vars => Ownership'
<1> SUFFICES ASSUME LeaseTypeOK, Ownership, [Next]_vars PROVE Ownership'
  OBVIOUS
<1>1. ASSUME NEW c \in Client,
             Begin(c) \/ Clean(c) \/ FindsSlot(c) \/ FindsFull(c) \/ Poll(c)
      PROVE  Ownership'
  <2>1. uid' = uid /\ releasing' = releasing
    BY <1>1 DEF Begin, Clean, FindsSlot, FindsFull, Poll
  <2>2. \A d \in Client : Holding(d)' => Holding(d)
    BY <1>1 DEF LeaseTypeOK, Begin, Clean, FindsSlot, FindsFull, Poll, Holding
  <2> QED
    BY <2>1, <2>2 DEF Ownership, KnowsId, OneOwner
<1>2. ASSUME NEW c \in Client, TimesOut(c) \/ Abandon(c) \/ Crash(c)
      PROVE  Ownership'
  <2>1. Leave(c) /\ releasing' = releasing
    BY <1>2 DEF TimesOut, Abandon, Crash
  <2> QED
    BY <2>1, LeaveOwner DEF Ownership, KnowsId, OneOwner, Holding
<1>3. ASSUME NEW c \in Client, Release(c) PROVE Ownership'
  <2>1. Leave(c) /\ releasing' = releasing \cup {uid[c]}
    BY <1>3 DEF Release
  <2>2. \A d \in Client \ {c} : uid[d] # NoUid => uid[d] # uid[c]
    BY DEF Ownership, OneOwner
  <2> QED
    BY <2>1, <2>2, LeaveOwner DEF Ownership, KnowsId, OneOwner, Holding
<1>4. ASSUME NEW c \in Client, Add(c) PROVE Ownership'
  <2>1. /\ NewUid \in Uid /\ NewUid \notin releasing
        /\ \A d \in Client : uid[d] # NewUid
    BY <1>4, FreshId DEF Add
  <2>2. /\ uid'[c] = NewUid /\ releasing' = releasing
        /\ \A d \in Client \ {c} : uid'[d] = uid[d] /\ pc'[d] = pc[d]
    BY <1>4 DEF LeaseTypeOK, Add
  <2> QED
    BY <2>1, <2>2, GateAssumption DEF Ownership, KnowsId, OneOwner, Holding
<1>5. ASSUME NEW c \in Client, Hold(c) PROVE Ownership'
  <2>1. uid' = uid /\ releasing' = releasing
    BY <1>5 DEF Hold
  <2>2. \A d \in Client : Holding(d)' => Holding(d)
    BY <1>5 DEF LeaseTypeOK, Hold, Holding
  <2> QED
    BY <2>1, <2>2 DEF Ownership, KnowsId, OneOwner
<1>6. ASSUME UNCHANGED <<pc, uid>>, releasing' \subseteq releasing
      PROVE  Ownership'
  BY <1>6 DEF Ownership, KnowsId, OneOwner, Holding
<1>7. ASSUME NEW u \in Uid, DoRelease(u) \/ LoseRelease(u) PROVE Ownership'
  BY <1>7, <1>6 DEF DoRelease, LoseRelease
<1>8. CASE Active \/ TimePasses \/ UNCHANGED vars
  BY <1>8, <1>6 DEF Active, TimePasses, vars
<1>9. ASSUME NEW c \in Client, Collides(c) PROVE Ownership'
  <2>1. pc[c] = "add" /\ releasing' = releasing
    BY <1>9, CollidesParts
  <2>2. CASE Leave(c)
    BY <2>1, <2>2, LeaveOwner DEF Ownership, KnowsId, OneOwner, Holding
  <2>3. CASE ~Leave(c)
    <3>1. uid' = uid /\ pc' = [pc EXCEPT ![c] = "wait"]
      BY <1>9, <2>3, CollidesParts
    <3>2. \A d \in Client : Holding(d)' => Holding(d)
      BY <3>1 DEF LeaseTypeOK, Holding
    <3> QED
      BY <2>1, <3>1, <3>2 DEF Ownership, KnowsId, OneOwner
  <2> QED
    BY <2>2, <2>3
<1> QED
  BY <1>1, <1>2, <1>3, <1>4, <1>5, <1>7, <1>8, <1>9 DEF Next, Acquire

(* The two invariants are inductive together.                              *)
LEMMA OwnershipCorrect == Spec => [](LeaseTypeOK /\ Ownership)
<1>1. Init => LeaseTypeOK /\ Ownership
  BY LeaseTypeInit, OwnershipInit
<1>2. LeaseTypeOK /\ Ownership /\ [Next]_vars => (LeaseTypeOK /\ Ownership)'
  BY LeaseTypeStep, OwnershipStep DEF Ownership
<1> QED
  BY <1>1, <1>2, PTL DEF Spec

(* The ZSET holds lease ids with scores in range, and every client is in a *)
(* place of acquire, whatever is lost on the way.                          *)
THEOREM LeaseTypeCorrect == Spec => []LeaseTypeOK
  BY OwnershipCorrect, PTL

(* No two clients ever own the same lease, and nobody owns one whose       *)
(* release has been spawned.                                               *)
THEOREM OneOwnerCorrect == Spec => []OneOwner
<1>1. Ownership => OneOwner
  BY DEF Ownership
<1> QED
  BY <1>1, OwnershipCorrect, PTL

-----------------------------------------------------------------------------
(* A member leaves the ZSET because its score has passed or because its    *)
(* release runs; the latter never hits a lease that somebody holds.        *)
LEMMA KeptStep ==
  ASSUME LeaseTypeOK, Ownership, [Next]_vars,
         NEW h \in Client, Holding(h), uid[h] \in zset, uid[h] \notin zset'
  PROVE  left[uid[h]] <= 0
<1>1. ASSUME NEW c \in Client, Clean(c) PROVE left[uid[h]] <= 0
  <2>1. zset' = zset \ Expired(c)
    BY <1>1 DEF Clean, Only, zset
  <2>2. left[uid[h]] <= -age[c]
    BY <2>1 DEF Expired
  <2>3. left[uid[h]] \in Int /\ age[c] \in Nat
    BY GateAssumption DEF LeaseTypeOK
  <2> QED
    BY <2>2, <2>3
<1>2. CASE Active
  <2>1. zset' = {u \in zset : left[u] > 0}
    BY <1>2 DEF Active, Only, zset
  <2>2. left[uid[h]] \in Int
    BY GateAssumption DEF LeaseTypeOK
  <2> QED
    BY <2>1, <2>2
<1>3. ASSUME NEW u \in Uid, DoRelease(u) PROVE FALSE
  <2>1. zset' = zset \ {u} /\ u \in releasing
    BY <1>3 DEF DoRelease, Only, zset
  <2>2. uid[h] = u
    BY <2>1
  <2> QED
    BY <2>1, <2>2 DEF Ownership, KnowsId, OneOwner
<1>4. ASSUME NEW c \in Client, Add(c) PROVE FALSE
  BY <1>4 DEF Add, zset
<1>5. CASE TimePasses
  BY <1>5 DEF TimePasses, zset
<1>6. ASSUME left' = left PROVE FALSE
  BY <1>6 DEF zset
<1>7. ASSUME NEW c \in Client,
             \/ Begin(c) \/ FindsSlot(c) \/ FindsFull(c) \/ TimesOut(c) \/ Hold(c)
             \/ Poll(c) \/ Release(c) \/ Abandon(c) \/ Crash(c)
      PROVE  FALSE
  BY <1>7, <1>6 DEF Begin, FindsSlot, FindsFull, TimesOut, Hold, Poll, Release,
                    Abandon, Crash
<1>8. ASSUME NEW u \in Uid, LoseRelease(u) PROVE FALSE
  BY <1>8, <1>6 DEF LoseRelease
<1>9. CASE UNCHANGED vars
  BY <1>9, <1>6 DEF vars
<1>10. ASSUME NEW c \in Client, Collides(c) PROVE FALSE
  BY <1>10, CollidesParts
<1> QED
  BY <1>1, <1>2, <1>3, <1>4, <1>5, <1>7, <1>8, <1>9, <1>10 DEF Next, Acquire

(* A slot stays its holder's until the lease has expired, however late the *)
(* other clients' commands reach Redis.                                    *)
THEOREM SlotKept == Spec => SlotKeptUntilExpiry
<1>1. LeaseTypeOK /\ Ownership /\ [Next]_vars =>
        [\A c \in Client :
           (Holding(c) /\ Holding(c)' /\ uid[c] \in zset \ zset')
             => left[uid[c]] <= 0]_vars
  BY KeptStep
<1> QED
  BY <1>1, OwnershipCorrect, PTL DEF Spec, SlotKeptUntilExpiry

-----------------------------------------------------------------------------
(* The oversell bound.  Whoever adds has seen a free slot; at that moment  *)
(* the members are fewer than Limit and at most all clients are adding,    *)
(* and from then on an addition only moves a client's share of the sum     *)
(* from Adding to zset.                                                    *)
Bounded == IsFiniteSet(zset) /\ OversellBounded

(* There are no more clients adding than clients.                          *)
LEMMA AddingFinite ==
  /\ IsFiniteSet(Adding) /\ Cardinality(Adding) \in Nat
  /\ Cardinality(Adding) <= Cardinality(Client)
  /\ Cardinality(Client) \in Nat
<1>1. Adding \in SUBSET Client
  BY DEF Adding
<1> QED
  BY <1>1, GateAssumption, FS_Subset, FS_CardinalityType

(* The empty gate is within its bound.                                     *)
LEMMA BoundedInit == Init => Bounded
<1> SUFFICES ASSUME Init PROVE Bounded
  OBVIOUS
<1>1. zset = {} /\ Adding = {}
  BY DEF Init, zset, Adding
<1>2. IsFiniteSet(zset) /\ Cardinality(zset) = 0 /\ Cardinality(Adding) = 0
  BY <1>1, FS_EmptySet
<1> QED
  BY <1>2, AddingFinite, GateAssumption DEF Bounded, OversellBounded

(* Fewer members and fewer clients adding stay within the bound.           *)
LEMMA BoundedShrink ==
  ASSUME Bounded, zset' \subseteq zset, Adding' \subseteq Adding
  PROVE  Bounded'
<1>1. /\ IsFiniteSet(zset') /\ Cardinality(zset') <= Cardinality(zset)
      /\ Cardinality(zset') \in Nat /\ Cardinality(zset) \in Nat
  BY FS_Subset, FS_CardinalityType DEF Bounded
<1>2. Cardinality(Adding') <= Cardinality(Adding) /\ Cardinality(Adding') \in Nat
  BY AddingFinite, FS_Subset, FS_CardinalityType
<1> QED
  BY <1>1, <1>2, AddingFinite, GateAssumption DEF Bounded, OversellBounded

(* A client that joins Adding has just seen fewer members than slots.      *)
LEMMA BoundedFindsSlot ==
  ASSUME LeaseTypeOK, Bounded, NEW c \in Client, FindsSlot(c)
  PROVE  Bounded'
<1>1. zset' = zset
  BY DEF FindsSlot, zset
<1>2. Cardinality(zset) \in Nat /\ Cardinality(zset) < Limit
  BY FS_CardinalityType, GateAssumption DEF Bounded, FindsSlot, Full
<1>3. Adding' \in SUBSET Client
  BY DEF Adding
<1>4. Cardinality(Adding') <= Cardinality(Client) /\ Cardinality(Adding') \in Nat
  BY <1>3, GateAssumption, FS_Subset, FS_CardinalityType
<1> QED
  BY <1>1, <1>2, <1>4, AddingFinite, GateAssumption DEF Bounded, OversellBounded

(* An addition moves one from Adding to zset.                              *)
LEMMA BoundedAdd ==
  ASSUME LeaseTypeOK, Bounded, NEW c \in Client, Add(c)
  PROVE  Bounded'
<1>1. zset' = zset \cup {NewUid} /\ NewUid \notin zset
  BY FreshId DEF Add, zset
<1>2. /\ IsFiniteSet(zset') /\ Cardinality(zset') = Cardinality(zset) + 1
      /\ Cardinality(zset) \in Nat
  BY <1>1, FS_AddElement, FS_CardinalityType DEF Bounded
<1>3. Adding' = Adding \ {c} /\ c \in Adding
  BY DEF Add, Adding, LeaseTypeOK
<1>4. Cardinality(Adding') = Cardinality(Adding) - 1
  BY <1>3, AddingFinite, FS_RemoveElement
<1> QED
  BY <1>2, <1>4, AddingFinite, GateAssumption DEF Bounded, OversellBounded

(* All other steps only shrink both sets.                                  *)
LEMMA BoundedStep == LeaseTypeOK /\ Bounded /\ [Next]_vars => Bounded'
<1> SUFFICES ASSUME LeaseTypeOK, Bounded, [Next]_vars PROVE Bounded'
  OBVIOUS
<1>1. ASSUME NEW c \in Client, Clean(c) PROVE Bounded'
  <2>1. zset' \subseteq zset
    BY <1>1 DEF Clean, Only, zset
  <2>2. Adding' \subseteq Adding
    BY <1>1 DEF Clean, Adding, LeaseTypeOK
  <2> QED
    BY <2>1, <2>2, BoundedShrink
<1>2. ASSUME NEW c \in Client,
             \/ Begin(c) \/ FindsFull(c) \/ TimesOut(c) \/ Hold(c) \/ Poll(c)
             \/ Release(c) \/ Abandon(c) \/ Crash(c)
      PROVE  Bounded'
  <2>1. zset' = zset
    BY <1>2 DEF Begin, FindsFull, TimesOut, Hold, Poll, Release, Abandon, Crash, zset
  <2>2. \A d \in Client : pc'[d] = "add" => pc[d] = "add"
    BY <1>2 DEF Begin, FindsFull, TimesOut, Hold, Poll, Release, Abandon, Crash,
                Leave, LeaseTypeOK
  <2> QED
    BY <2>1, <2>2, BoundedShrink DEF Adding
<1>3. ASSUME NEW c \in Client, FindsSlot(c) PROVE Bounded'
  BY <1>3, BoundedFindsSlot
<1>4. ASSUME NEW c \in Client, Add(c) PROVE Bounded'
  BY <1>4, BoundedAdd
<1>5. ASSUME NEW u \in Uid, DoRelease(u) \/ LoseRelease(u) PROVE Bounded'
  <2>1. zset' \subseteq zset
    BY <1>5 DEF DoRelease, LoseRelease, Only, zset
  <2>2. Adding' = Adding
    BY <1>5 DEF DoRelease, LoseRelease, Adding
  <2> QED
    BY <2>1, <2>2, BoundedShrink
<1>6. CASE Active \/ TimePasses \/ UNCHANGED vars
  <2>1. zset' \subseteq zset
    BY <1>6 DEF Active, TimePasses, vars, Only, zset
  <2>2. Adding' = Adding
    BY <1>6 DEF Active, TimePasses, vars, Adding
  <2> QED
    BY <2>1, <2>2, BoundedShrink
<1>7. ASSUME NEW c \in Client, Collides(c) PROVE Bounded'
  <2>1. \A d \in Client : pc'[d] = "add" => pc[d] = "add"
    BY <1>7, CollidesParts DEF Leave, LeaseTypeOK
  <2> QED
    BY <1>7, <2>1, CollidesParts, BoundedShrink DEF Adding
<1> QED
  BY <1>1, <1>2, <1>3, <1>4, <1>5, <1>6, <1>7 DEF Next, Acquire

(* However many instances pass ZCARD at once, and whatever they leave      *)
(* behind, the gate never has more members than its limit plus the other   *)
(* clients: a gate of one slot is oversold by at most N - 1.               *)
THEOREM OversellIsBounded == Spec => []OversellBounded
<1>1. Init => Bounded
  BY BoundedInit
<1>2. LeaseTypeOK /\ Bounded /\ [Next]_vars => Bounded'
  BY BoundedStep
<1>3. Bounded => OversellBounded
  BY DEF Bounded
<1> QED
  BY <1>1, <1>2, <1>3, LeaseTypeCorrect, PTL DEF Spec

-----------------------------------------------------------------------------
(* The refinement.  An addition is an acquire of the trait, leaving with a *)
(* lease a drop, and a removal a release; time, and a score that is set    *)
(* again, are the clock.                                                   *)
LEMMA SameCount == \A S : Trait!Cardinality(S) = Cardinality(S)
BY DEF Trait!Cardinality, Cardinality

GateHeld == [g \in {"gate"} |-> zset]
Owned == {uid[c] : c \in {d \in Client : Holding(d)}}
Running == {u \in zset : left[u] > 0}

LEMMA AddAcquires ==
  ASSUME LeaseTypeOK, Bounded, NEW c \in Client, Add(c)
  PROVE  Trait!Next
<1>1. NewUid \in Uid /\ NewUid \notin zset /\ zset' = zset \cup {NewUid}
  BY FreshId DEF Add, zset
<1>2. c \in Adding
  BY DEF Add, Adding
<1>3. Cardinality(Adding) \in Nat /\ Cardinality(Adding) # 0
  BY <1>2, AddingFinite, FS_EmptySet
<1>4. Cardinality(zset) \in Nat
  BY FS_CardinalityType DEF Bounded
<1>5. Cardinality(zset) < Limit + Cardinality(Client) - 1
  BY <1>3, <1>4, AddingFinite, GateAssumption DEF Bounded, OversellBounded
<1>6. Owned' = Owned \cup {NewUid}
  <2>1. /\ pc[c] = "add" /\ pc' = [pc EXCEPT ![c] = "added"]
        /\ uid' = [uid EXCEPT ![c] = NewUid]
    BY DEF Add
  <2>2. /\ \A d \in Client : Holding(d)' <=> Holding(d) \/ d = c
        /\ ~Holding(c) /\ uid'[c] = NewUid /\ \A d \in Client \ {c} : uid'[d] = uid[d]
    BY <2>1 DEF Holding, LeaseTypeOK
  <2> QED
    BY <2>2 DEF Owned
<1>7. Running' \in {Running, Running \cup {NewUid}}
  <2>1. \A u \in zset : left'[u] = left[u]
    BY <1>1 DEF Add
  <2> QED
    BY <1>1, <2>1 DEF Running
<1>8. Trait!Acquire(NewUid, "gate")
  <2> DEFINE held == GateHeld
  <2>1. held["gate"] = zset
    BY DEF GateHeld
  <2>2. held' = [held EXCEPT !["gate"] = @ \cup {NewUid}]
    BY <1>1 DEF GateHeld
  <2>3. Cardinality(held["gate"]) < Limit + Cardinality(Client) - 1
    BY <1>5, <2>1
  <2>4. \A g \in {"gate"} : NewUid \notin held[g]
    BY <1>1, <2>1
  <2> QED
    BY <1>6, <1>7, <2>2, <2>3, <2>4, SameCount
       DEF Trait!Acquire, Trait!Active, GateHeld, Owned, Running
<1> QED
  BY <1>1, <1>8 DEF Trait!Next

LEMMA RemovalReleases ==
  ASSUME NEW gone \in SUBSET zset, left' = Only(zset \ gone),
         Owned' = Owned, gone \cap Owned \cap Running = {}
  PROVE  Trait!Next
<1>1. zset' = zset \ gone
  BY DEF Only, zset
<1>2. Running' = Running \ gone
  BY <1>1 DEF Only, Running
<1>3. GateHeld' = [GateHeld EXCEPT !["gate"] = @ \ gone]
  BY <1>1 DEF GateHeld
<1>4. Trait!Release("gate", gone)
  BY <1>2, <1>3 DEF Trait!Release, GateHeld, Owned, Running
<1>5. gone \in SUBSET GateHeld["gate"]
  BY DEF GateHeld
<1> QED
  BY <1>4, <1>5 DEF Trait!Next, GateHeld

(* A client that leaves drops the lease it holds, and no other.            *)
LEMMA LeavingDrops ==
  ASSUME LeaseTypeOK, Ownership, NEW c \in Client, Leave(c), left' = left
  PROVE  Trait!Next \/ UNCHANGED <<GateHeld, Owned, Running>>
<1>1. UNCHANGED <<GateHeld, Running>>
  BY DEF GateHeld, Running, zset
<1>2. /\ ~Holding(c)'
      /\ \A d \in Client \ {c} : uid'[d] = uid[d] /\ (Holding(d)' <=> Holding(d))
  BY LeaveOwner DEF Holding
<1>3. CASE Holding(c)
  <2>1. PICK u \in Uid : u = uid[c] /\ \A d \in Client \ {c} : uid[d] # u
    BY <1>3 DEF LeaseTypeOK, Ownership, KnowsId, OneOwner
  <2>2. Owned' = Owned \ {u}
    BY <1>2, <1>3, <2>1 DEF Owned
  <2>3. Trait!Drop(u)
    BY <1>1, <2>2 DEF Trait!Drop, GateHeld, Owned, Running
  <2> QED
    BY <2>1, <2>3 DEF Trait!Next
<1>4. CASE ~Holding(c)
  <2>1. Owned' = Owned
    BY <1>2, <1>4 DEF Owned
  <2> QED
    BY <1>1, <2>1
<1> QED
  BY <1>3, <1>4

LEMMA ClockTicks ==
  ASSUME zset' = zset, Owned' = Owned
  PROVE  Trait!Next
<1>1. Running' \in SUBSET UNION {GateHeld[g] : g \in {"gate"}}
  BY DEF Running, GateHeld
<1>2. GateHeld' = GateHeld
  BY DEF GateHeld
<1> QED
  BY <1>1, <1>2 DEF Trait!Next, Trait!Clock, GateHeld, Owned, Running

LEMMA TraitStep ==
  ASSUME LeaseTypeOK, Ownership, Bounded, [Next]_vars
  PROVE  Trait!Next \/ UNCHANGED <<GateHeld, Owned, Running>>
<1>1. ASSUME NEW c \in Client, Add(c)
      PROVE  Trait!Next
  BY <1>1, AddAcquires
<1>2. ASSUME NEW c \in Client,
             Begin(c) \/ FindsSlot(c) \/ FindsFull(c) \/ Hold(c) \/ Poll(c)
      PROVE  UNCHANGED <<GateHeld, Owned, Running>>
  <2>1. UNCHANGED <<uid, left>> /\ \A d \in Client : Holding(d)' <=> Holding(d)
    BY <1>2 DEF Begin, FindsSlot, FindsFull, Hold, Poll, Holding, LeaseTypeOK
  <2> QED
    BY <2>1 DEF GateHeld, Owned, Running, zset
<1>3. ASSUME NEW c \in Client, TimesOut(c) \/ Release(c) \/ Abandon(c) \/ Crash(c)
      PROVE  Trait!Next \/ UNCHANGED <<GateHeld, Owned, Running>>
  BY <1>3, LeavingDrops DEF TimesOut, Release, Abandon, Crash
<1>4. ASSUME NEW c \in Client, Clean(c)
      PROVE  Trait!Next
  <2>1. uid' = uid /\ \A d \in Client : Holding(d)' <=> Holding(d)
    BY <1>4 DEF Clean, Holding, LeaseTypeOK
  <2>2. Owned' = Owned
    BY <2>1 DEF Owned
  <2>3. Expired(c) \in SUBSET zset /\ Expired(c) \cap Running = {}
    <3>1. age[c] \in Nat /\ \A u \in zset : left[u] \in Int
      BY GateAssumption DEF LeaseTypeOK
    <3> QED
      BY <3>1 DEF Expired, Running
  <2> QED
    BY <1>4, <2>2, <2>3, RemovalReleases DEF Clean
<1>5. ASSUME NEW u \in Uid, DoRelease(u)
      PROVE  Trait!Next
  <2>1. Owned' = Owned
    BY <1>5 DEF DoRelease, Owned, Holding
  <2>2. u \notin Owned
    BY <1>5 DEF DoRelease, Owned, Ownership, KnowsId, OneOwner
  <2>3. left' = Only(zset \ (zset \cap {u}))
    <3>1. zset \ {u} = zset \ (zset \cap {u})
      OBVIOUS
    <3> QED
      BY <1>5, <3>1 DEF DoRelease
  <2>4. zset \cap {u} \in SUBSET zset /\ (zset \cap {u}) \cap Owned \cap Running = {}
    BY <2>2
  <2> QED
    BY <2>1, <2>3, <2>4, RemovalReleases
<1>6. CASE Active
  <2>1. Owned' = Owned
    BY <1>6 DEF Active, Owned, Holding
  <2> DEFINE gone == zset \ Running
  <2>2. gone \in SUBSET zset /\ gone \cap Owned \cap Running = {}
    OBVIOUS
  <2>3. left' = Only(zset \ gone)
    <3>1. zset \ gone = {u \in zset : left[u] > 0}
      BY DEF Running
    <3> QED
      BY <1>6, <3>1 DEF Active
  <2> HIDE DEF gone
  <2> QED
    BY <2>1, <2>2, <2>3, RemovalReleases
<1>7. CASE TimePasses
  BY <1>7, ClockTicks DEF TimePasses, Owned, Holding, zset
<1>8. ASSUME NEW c \in Client, Collides(c)
      PROVE  Trait!Next
  <2>1. pc[c] = "add" /\ zset' = zset
    BY <1>8, CollidesParts
  <2>2. \A d \in Client : /\ Holding(d)' <=> Holding(d)
                          /\ Holding(d) => uid'[d] = uid[d]
    BY <1>8, <2>1, CollidesParts DEF Leave, Holding, LeaseTypeOK
  <2>3. Owned' = Owned
    BY <2>2 DEF Owned
  <2> QED
    BY <2>1, <2>3, ClockTicks
<1>9. ASSUME NEW u \in Uid, LoseRelease(u)
      PROVE  UNCHANGED <<GateHeld, Owned, Running>>
  BY <1>9 DEF LoseRelease, GateHeld, Owned, Running, Holding, zset
<1>10. CASE UNCHANGED vars
  BY <1>10 DEF vars, GateHeld, Owned, Running, Holding, zset
<1> QED
  BY <1>1, <1>2, <1>3, <1>4, <1>5, <1>6, <1>7, <1>8, <1>9, <1>10 DEF Next, Acquire

(* The Redis backend implements the trait LeaseManager for a gate of       *)
(* Limit + N - 1 slots, N clients, whatever crashes, is lost or comes      *)
(* late: as long as a caller has a lease and its time is not up, nothing   *)
(* frees its slot (redis.rs:148-227).  The run "oversell" shows that it    *)
(* does not for a gate of Limit slots.                                     *)
THEOREM RedisKeepsTrait == Spec => KeepsTrait
<1>1. Init => Trait!Init
  BY DEF Init, Trait!Init, zset, Holding
<1>2. Init => Bounded
  BY BoundedInit
<1>3. LeaseTypeOK /\ Bounded /\ [Next]_vars => Bounded'
  BY BoundedStep
<1>4. LeaseTypeOK /\ Ownership /\ Bounded /\ [Next]_vars => [Trait!Next]_(Trait!vars)
  BY TraitStep DEF Trait!vars, GateHeld, Owned, Running
<1> QED
  BY <1>1, <1>2, <1>3, <1>4, OwnershipCorrect, PTL DEF Spec, KeepsTrait, Trait!Spec
=============================================================================
