--------------------------- MODULE GrokProxy_proofs ---------------------------
(***************************************************************************)
(* Proofs about GrokProxy, for every set of accounts and of requests, and  *)
(* for every bound on tokens, generations, attempts and faults.            *)
(***************************************************************************)
EXTENDS GrokProxy, TLAPS

Rows == [gen : 1..MaxGen, health : Health, wait : BOOLEAN,
         token : 1..MaxToken, budget : Budget]

(* Somebody has taken acct[r] off the queue, or it is None.                *)
Carries == \A r \in Request : Holds(r) => acct[r] \in Snapshots

Typed == TypeOK /\ Carries

-----------------------------------------------------------------------------
(* What the writes of the store do to the rows.  A write that only marks a *)
(* row leaves tokens and generations alone, and revives nobody.            *)
Undisturbed ==
  \A e \in Email : /\ db'[e].gen = db[e].gen
                   /\ db'[e].token = db[e].token
                   /\ db[e].health = "deleted" => db'[e].health = "deleted"

Marked == db' \in [Email -> Rows] /\ Undisturbed

LEMMA RowType ==
  ASSUME TypeOK, NEW e \in Email
  PROVE  db[e] \in Rows
BY DEF TypeOK, Rows

LEMMA WrittenRow ==
  ASSUME TypeOK, NEW a, a.email \in Email, NEW row \in Rows, Write(a, row)
  PROVE  /\ db' \in [Email -> Rows]
         /\ \A e \in Email \ {a.email} : db'[e] = db[e]
         /\ Present(a) => db'[a.email] = row
         /\ ~Present(a) => db' = db
BY DEF TypeOK, Write, Rows

(* A write that leaves token and generation of a row that is there.        *)
LEMMA WriteMarks ==
  ASSUME TypeOK, NEW a, a.email \in Email, NEW row \in Rows, Write(a, row),
         row.token = db[a.email].token, row.gen = db[a.email].gen
  PROVE  Marked
<1>1. \A e \in Email : db'[e] = db[e] \/ (e = a.email /\ Present(a) /\ db'[e] = row)
  BY WrittenRow
<1>2. Undisturbed
  BY <1>1 DEF Undisturbed, Present
<1> QED
  BY <1>2, WrittenRow DEF Marked

LEMMA FailureMarks ==
  ASSUME TypeOK, NEW a, a.email \in Email, NEW health \in Health \ {"deleted"},
         RecordFailure(a, health)
  PROVE  Marked
<1> DEFINE row == [db[a.email] EXCEPT !.health = health, !.wait = health = "cooling"]
<1>1. (health = "cooling") \in BOOLEAN
  BY Zenon
<1>2. row \in Rows /\ row.token = db[a.email].token /\ row.gen = db[a.email].gen
  <2> DEFINE w == health = "cooling"
  <2> HIDE DEF w
  <2>1. [db[a.email] EXCEPT !.health = health, !.wait = w] \in Rows
    BY <1>1, RowType DEF Rows, w
  <2> QED
    BY <2>1, RowType DEF Rows, w
<1>3. Write(a, row)
  BY DEF RecordFailure
<1> QED
  BY <1>2, <1>3, WriteMarks

LEMMA SuccessMarks ==
  ASSUME TypeOK, NEW a, a.email \in Email, NEW b \in Budget, NEW spent \in BOOLEAN,
         RecordSuccess(a, b, spent)
  PROVE  Marked
<1> DEFINE row == [db[a.email] EXCEPT !.health = IF spent THEN "cooling" ELSE "active",
                                      !.wait = spent, !.budget = b]
<1>1. row \in Rows /\ row.token = db[a.email].token /\ row.gen = db[a.email].gen
  BY RowType DEF Rows, Health
<1>2. Write(a, row)
  BY DEF RecordSuccess
<1> QED
  BY <1>1, <1>2, WriteMarks

LEMMA ClearMarks ==
  ASSUME TypeOK, NEW a, a.email \in Email, ClearFailure(a)
  PROVE  Marked
<1> DEFINE row == [db[a.email] EXCEPT !.health = IF @ = "cooling" THEN "active" ELSE @,
                                      !.wait = FALSE]
<1>1. row \in Rows /\ row.token = db[a.email].token /\ row.gen = db[a.email].gen
  BY RowType DEF Rows, Health
<1>2. Write(a, row)
  BY DEF ClearFailure
<1> QED
  BY <1>1, <1>2, WriteMarks

LEMMA SameMarks == TypeOK /\ UNCHANGED db => Marked
BY DEF TypeOK, Marked, Undisturbed, Rows

LEMMA FaultType ==
  ASSUME TypeOK, Fault
  PROVE  faults' \in 0..MaxFaults
BY ProxyAssumption DEF TypeOK, Fault

LEMMA DeleteMarks ==
  ASSUME TypeOK, DeleteTerminal
  PROVE  Marked
<1>1. db' = [e \in Email |-> IF e \in Terminal
                             THEN [db[e] EXCEPT !.health = "deleted"] ELSE db[e]]
  BY DEF DeleteTerminal
<1>2. \A e \in Email : [db[e] EXCEPT !.health = "deleted"] \in Rows
  BY RowType DEF Rows, Health
<1>3. db' \in [Email -> Rows]
  BY <1>1, <1>2, RowType
<1>4. Undisturbed
  BY <1>1, RowType DEF Undisturbed, Rows
<1> QED
  BY <1>3, <1>4 DEF Marked

(* A purge deletes rows and thins out the queue, all of it or a part.      *)
LEMMA PurgeMarks ==
  ASSUME TypeOK, NEW evicted, Purge(evicted)
  PROVE  /\ Marked
         /\ web' \in [Email -> {"ok", "dead", "none"}]
         /\ queue' \subseteq queue
         /\ faults' \in 0..MaxFaults
<1>1. CASE Purged(evicted) /\ UNCHANGED faults
  <2>1. web' \in [Email -> {"ok", "dead", "none"}]
    BY <1>1 DEF Purged, TypeOK
  <2>2. queue' \subseteq queue
    BY <1>1 DEF Purged, Without
  <2> QED
    BY <1>1, <2>1, <2>2, DeleteMarks DEF Purged, TypeOK
<1>2. CASE PurgeBreaks(evicted) /\ Fault
  <2>1. Marked
    BY <1>2, DeleteMarks, SameMarks DEF PurgeBreaks, rows
  <2>2. web' \in [Email -> {"ok", "dead", "none"}]
    BY <1>2 DEF PurgeBreaks, rows, TypeOK
  <2> QED
    BY <1>2, <2>1, <2>2, FaultType DEF PurgeBreaks, Without
<1> QED
  BY <1>1, <1>2 DEF Purge

(* A refreshed token is written in the row of its own id, if that is there. *)
LEMMA SavedRow ==
  ASSUME TypeOK, NEW a, a.email \in Email, a.token \in 1..MaxToken, SaveRefreshed(a)
  PROVE  /\ db' \in [Email -> Rows]
         /\ \A e \in Email \ {a.email} : db'[e] = db[e]
         /\ Present(a) => /\ db'[a.email].token = a.token
                          /\ db'[a.email].gen = a.gen
         /\ ~Present(a) => db' = db
<1> DEFINE row == [db[a.email] EXCEPT !.token = a.token,
                     !.health = IF @ = "needs_reauth" THEN "active" ELSE @]
<1>1. row \in Rows /\ row.token = a.token /\ row.gen = db[a.email].gen
  BY RowType DEF Rows, Health
<1>2. Write(a, row)
  BY DEF SaveRefreshed
<1> QED
  BY <1>1, <1>2, WrittenRow DEF Present

LEMMA ImportedRow ==
  ASSUME TypeOK, NEW e \in Email, NEW token \in 1..MaxToken, Import(e, token),
         db[e].health = "deleted" => db[e].gen < MaxGen
  PROVE  /\ db' \in [Email -> Rows]
         /\ \A f \in Email \ {e} : db'[f] = db[f]
         /\ db'[e].token = token
<1>1. db[e] \in Rows /\ db[e].gen \in 1..MaxGen /\ MaxGen \in Nat
  BY RowType, ProxyAssumption DEF Rows
<1>2. CASE db[e].health = "deleted"
  <2>1. db[e].gen + 1 \in 1..MaxGen
    BY <1>1, <1>2
  <2>2. [gen |-> db[e].gen + 1, health |-> "active", wait |-> FALSE,
         token |-> token, budget |-> "unknown"] \in Rows
    BY <2>1 DEF Rows, Health, Budget
  <2> QED
    BY <1>2, <2>2 DEF Import, TypeOK, Rows
<1>3. CASE db[e].health # "deleted"
  <2>1. [db[e] EXCEPT !.health = "active", !.wait = FALSE, !.token = token] \in Rows
    BY <1>1 DEF Rows, Health
  <2> QED
    BY <1>1, <1>3, <2>1 DEF Import, TypeOK, Rows
<1> QED
  BY <1>2, <1>3

LEMMA RemainingBudget ==
  ASSUME TypeOK, NEW e \in Email
  PROVE  Remaining(e) \subseteq Budget
<1>1. db[e].budget \in {"unknown", "rich", "low"}
  BY RowType DEF Rows, Budget
<1> QED
  BY <1>1 DEF Remaining, Budget

LEMMA RefusalHealth ==
  ASSUME NEW e
  PROVE  Refusal(e) \subseteq Health \ {"deleted"}
BY DEF Refusal, Health

LEMMA SnapshotType ==
  ASSUME TypeOK, NEW e \in Email
  PROVE  Snapshot(e) \in Snapshots
BY DEF TypeOK, Snapshot, Snapshots

LEMMA IdType ==
  ASSUME NEW a \in Snapshots
  PROVE  Id(a) \in Ids
BY DEF Snapshots, Id, Ids

LEMMA RotatedType ==
  ASSUME TypeOK, NEW e \in Email, NEW token, Rotate(e, token)
  PROVE  /\ valid' \in [Email -> SUBSET (1..MaxToken)]
         /\ issued' \in [Email -> 1..MaxToken]
         /\ stale' = stale
         /\ issued'[e] = issued[e] + 1
         /\ token \in 1..MaxToken
<1>1. issued[e] \in 1..MaxToken /\ issued[e] < MaxToken /\ valid[e] \in SUBSET (1..MaxToken)
  BY DEF TypeOK, Rotate
<1>2. issued[e] + 1 \in 1..MaxToken
  BY <1>1, ProxyAssumption
<1> QED
  BY <1>1, <1>2 DEF TypeOK, Rotate

-----------------------------------------------------------------------------
LEMMA FirstValues ==
  /\ 0 \in 0..(MaxAttempts - 1) /\ 0 \in 0..MaxFaults /\ 0 \in 0..MaxToken
  /\ 1 \in 1..MaxToken /\ 1 \in 1..MaxGen
BY ProxyAssumption

(* Type correctness, step by step, together with Carries.  Ends is how a   *)
(* request ends, and IsPlaced what types its place has.                    *)
IsPlaced ==
  /\ pc \in [Request -> {"idle", "take", "pop", "refresh", "rotated", "send"}]
  /\ inner \in [Request -> 0..(MaxAttempts - 1)]
  /\ outer \in [Request -> 0..(MaxAttempts - 1)]

LEMMA EndsPlaced ==
  ASSUME TypeOK, NEW r \in Request, Ends(r)
  PROVE  IsPlaced'
BY ProxyAssumption DEF TypeOK, Ends, Goto, IsPlaced

LEMMA TakesNext ==
  ASSUME TypeOK, NEW r \in Request, Goto(r, "take"), inner[r] + 1 # MaxAttempts,
         inner' = [inner EXCEPT ![r] = @ + 1], UNCHANGED outer
  PROVE  IsPlaced'
<1> DEFINE n == inner[r] + 1
<1>0. inner[r] \in 0..(MaxAttempts - 1)
  BY DEF TypeOK
<1>1. n \in 0..(MaxAttempts - 1)
  BY <1>0, ProxyAssumption
<1>2. inner' = [inner EXCEPT ![r] = n]
  BY DEF TypeOK
<1> HIDE DEF n
<1>3. inner' \in [Request -> 0..(MaxAttempts - 1)]
  BY <1>1, <1>2 DEF TypeOK
<1>4. pc' \in [Request -> {"idle", "take", "pop", "refresh", "rotated", "send"}]
  BY DEF TypeOK, Goto
<1> QED
  BY <1>3, <1>4 DEF TypeOK, IsPlaced

LEMMA SendsNext ==
  ASSUME TypeOK, NEW r \in Request, Goto(r, "take"), outer[r] + 1 # MaxAttempts,
         outer' = [outer EXCEPT ![r] = @ + 1], inner' = [inner EXCEPT ![r] = 0]
  PROVE  IsPlaced'
<1> DEFINE n == outer[r] + 1
<1>0. outer[r] \in 0..(MaxAttempts - 1)
  BY DEF TypeOK
<1>1. n \in 0..(MaxAttempts - 1) /\ 0 \in 0..(MaxAttempts - 1)
  BY <1>0, ProxyAssumption
<1>2. outer' = [outer EXCEPT ![r] = n]
  BY DEF TypeOK
<1> HIDE DEF n
<1>3. /\ outer' \in [Request -> 0..(MaxAttempts - 1)]
      /\ inner' \in [Request -> 0..(MaxAttempts - 1)]
  BY <1>1, <1>2 DEF TypeOK
<1>4. pc' \in [Request -> {"idle", "take", "pop", "refresh", "rotated", "send"}]
  BY DEF TypeOK, Goto
<1> QED
  BY <1>3, <1>4 DEF IsPlaced

(* The account is charged and given back.                                  *)
LEMMA Charged ==
  ASSUME Typed, NEW r \in Request, Holds(r), NEW health \in Health \ {"deleted"},
         ChargeAndRelease(r, health)
  PROVE  /\ Marked
         /\ queue' \subseteq queue
         /\ leased' = leased \ {Id(acct[r])}
         /\ acct' = [acct EXCEPT ![r] = None]
<1>1. acct[r].email \in Email
  BY DEF Typed, Carries, Snapshots
<1> QED
  BY <1>1, FailureMarks DEF Typed, ChargeAndRelease, GiveBack, Without

LEMMA TakeReadyType ==
  ASSUME Typed, NEW r \in Request, TakeReady(r)
  PROVE  Typed'
<1>1. PICK a \in queue : Claim(r, a)
  BY DEF TakeReady
<1>2. a \in Snapshots /\ Id(a) \in Ids
  BY IdType DEF Typed, TypeOK
<1>3. TypeOK'
  BY <1>1, <1>2 DEF Typed, TypeOK, Claim, Goto, rows, loops, upstream, harm, Health
<1>4. Carries'
  BY <1>1, <1>2 DEF Typed, TypeOK, Carries, Holds, Claim, Goto
<1> QED
  BY <1>3, <1>4 DEF Typed

LEMMA RefillType ==
  ASSUME Typed, NEW r \in Request, Refill(r)
  PROVE  Typed'
<1>1. queue' \subseteq Snapshots
  BY SnapshotType DEF Typed, Refill, Candidates
<1>2. TypeOK'
  BY <1>1 DEF Typed, TypeOK, Refill, Goto, rows, loops, upstream, harm
<1>3. Carries'
  BY DEF Typed, TypeOK, Carries, Holds, Refill, Goto
<1> QED
  BY <1>2, <1>3 DEF Typed

LEMMA NoneReadyType ==
  ASSUME Typed, NEW r \in Request, NoneReady(r) \/ RefillFails(r)
  PROVE  Typed'
<1>1. IsPlaced' /\ faults' \in 0..MaxFaults
  BY EndsPlaced, FaultType DEF Typed, TypeOK, NoneReady, RefillFails, harm
<1>2. TypeOK'
  BY <1>1
     DEF Typed, TypeOK, NoneReady, RefillFails, IsPlaced, rows, ready, loops, upstream, harm
<1>3. Carries'
  BY DEF Typed, TypeOK, Carries, Holds, NoneReady, RefillFails, Ends, Goto
<1> QED
  BY <1>2, <1>3 DEF Typed

LEMMA RefreshRotatesType ==
  ASSUME Typed, NEW r \in Request, RefreshRotates(r)
  PROVE  Typed'
<1>1. acct[r] \in Snapshots /\ acct[r].email \in Email
  BY DEF Typed, Carries, Holds, RefreshRotates, Snapshots
<1>2. /\ valid' \in [Email -> SUBSET (1..MaxToken)]
      /\ issued' \in [Email -> 1..MaxToken]
      /\ stale' = stale
  BY <1>1, RotatedType DEF Typed, RefreshRotates
<1>3. [acct[r] EXCEPT !.token = issued'[acct[r].email]] \in Snapshots
  BY <1>1, <1>2 DEF Snapshots
<1>4. acct' = [acct EXCEPT ![r] = [acct[r] EXCEPT !.token = issued'[acct[r].email]]]
  BY DEF RefreshRotates, Typed, TypeOK
<1>5. TypeOK'
  BY <1>2, <1>3, <1>4 DEF Typed, TypeOK, RefreshRotates, Goto, rows, ready, loops, harm
<1>6. Carries'
  BY <1>3, <1>4 DEF Typed, TypeOK, Carries, Holds, RefreshRotates, Goto
<1> QED
  BY <1>5, <1>6 DEF Typed

LEMMA RefreshSavedType ==
  ASSUME Typed, NEW r \in Request, RefreshSaved(r)
  PROVE  Typed'
<1>1. acct[r].email \in Email /\ acct[r].token \in 1..MaxToken
  BY DEF Typed, Carries, Holds, RefreshSaved, Snapshots
<1>2. db' \in [Email -> Rows]
  BY <1>1, SavedRow DEF Typed, RefreshSaved
<1>3. TypeOK'
  BY <1>2 DEF Typed, TypeOK, RefreshSaved, Goto, Rows, ready, loops, upstream, harm
<1>4. Carries'
  BY DEF Typed, TypeOK, Carries, Holds, RefreshSaved, Goto
<1> QED
  BY <1>3, <1>4 DEF Typed

(* What RefreshFails, Serve and SendFails have in common.                  *)
LEMMA GivenBackType ==
  ASSUME Typed, NEW r \in Request, Holds(r), Marked, queue' \subseteq queue,
         leased' = leased \ {Id(acct[r])}, acct' = [acct EXCEPT ![r] = None],
         IsPlaced', ~Holds(r)', \A q \in Request \ {r} : pc'[q] = pc[q],
         faults' \in 0..MaxFaults, lost' \subseteq Email, UNCHANGED stranded,
         UNCHANGED web, UNCHANGED loops, UNCHANGED upstream
  PROVE  Typed'
<1>1. TypeOK'
  BY DEF Typed, TypeOK, Marked, Rows, IsPlaced, loops, upstream
<1>2. Carries'
  BY DEF Typed, TypeOK, Carries, Holds
<1> QED
  BY <1>1, <1>2 DEF Typed

(* The parts of RefreshFails that the types and the rest need.             *)
LEMMA RefreshFailsParts ==
  ASSUME Typed, NEW r \in Request, RefreshFails(r)
  PROVE  /\ pc[r] \in {"refresh", "rotated"}
         /\ Marked
         /\ queue' \subseteq queue
         /\ leased' = leased \ {Id(acct[r])}
         /\ acct' = [acct EXCEPT ![r] = None]
         /\ IsPlaced' /\ pc'[r] \in {"idle", "take"}
         /\ \A q \in Request \ {r} : pc'[q] = pc[q]
         /\ IF pc[r] = "rotated" THEN Fault /\ lost' = lost \cup {acct[r].email} /\ UNCHANGED stranded
            ELSE UNCHANGED harm
<1>1. PICK health \in Health \ {"deleted"} :
        /\ ChargeAndRelease(r, health)
        /\ pc[r] \in {"refresh", "rotated"}
        /\ IF pc[r] = "rotated" THEN Fault /\ lost' = lost \cup {acct[r].email} /\ UNCHANGED stranded
           ELSE UNCHANGED harm
  <2>1. {"cooling", "forbidden", "needs_reauth"} \subseteq Health \ {"deleted"}
    BY DEF Health
  <2> QED
    BY <2>1 DEF RefreshFails
<1>2. Holds(r)
  BY <1>1 DEF Holds
<1>3. IsPlaced' /\ pc'[r] \in {"idle", "take"} /\ \A q \in Request \ {r} : pc'[q] = pc[q]
  <2>1. CASE inner[r] + 1 = MaxAttempts
    BY <2>1, EndsPlaced DEF RefreshFails, Ends, Goto, Typed, TypeOK
  <2>2. CASE inner[r] + 1 # MaxAttempts
    BY <2>2, TakesNext DEF RefreshFails, Goto, Typed, TypeOK
  <2> QED
    BY <2>1, <2>2
<1> QED
  BY <1>1, <1>2, <1>3, Charged

LEMMA RefreshFailsType ==
  ASSUME Typed, NEW r \in Request, RefreshFails(r)
  PROVE  Typed'
<1>1. pc[r] \in {"refresh", "rotated"} /\ Holds(r) /\ ~Holds(r)'
  BY RefreshFailsParts DEF Holds
<1>2. faults' \in 0..MaxFaults /\ lost' \subseteq Email /\ UNCHANGED stranded
  <2>1. acct[r].email \in Email
    BY <1>1 DEF Typed, Carries, Snapshots
  <2> QED
    BY <2>1, RefreshFailsParts, FaultType DEF Typed, TypeOK, harm
<1> QED
  BY <1>1, <1>2, RefreshFailsParts, GivenBackType DEF RefreshFails

LEMMA ServeParts ==
  ASSUME Typed, NEW r \in Request, Serve(r) \/ SendFails(r) \/ Unbooked(r)
  PROVE  /\ pc[r] = "send"
         /\ Marked
         /\ queue' \subseteq queue
         /\ leased' = leased \ {Id(acct[r])}
         /\ acct' = [acct EXCEPT ![r] = None]
         /\ IsPlaced' /\ pc'[r] \in {"idle", "take"}
         /\ \A q \in Request \ {r} : pc'[q] = pc[q]
         /\ UNCHANGED <<stranded, lost>> /\ faults' \in 0..MaxFaults
<1>1. /\ pc[r] = "send" /\ Holds(r)
      /\ UNCHANGED <<stranded, lost>> /\ faults' \in 0..MaxFaults
  BY FaultType DEF Serve, SendFails, Unbooked, Holds, harm, Typed, TypeOK
<1>2. acct[r].email \in Email
  BY <1>1 DEF Typed, Carries, Snapshots
<1>3. CASE Serve(r)
  <2>1. Marked
    BY <1>2, <1>3, SuccessMarks, RemainingBudget DEF Serve, Typed
  <2>2. IsPlaced' /\ pc'[r] = "idle" /\ \A q \in Request \ {r} : pc'[q] = pc[q]
    BY <1>3, EndsPlaced DEF Serve, Ends, Goto, Typed, TypeOK
  <2> QED
    BY <1>1, <1>3, <2>1, <2>2 DEF Serve, GiveBack
<1>5. TryAnother(r) =>
        IsPlaced' /\ pc'[r] \in {"idle", "take"} /\ \A q \in Request \ {r} : pc'[q] = pc[q]
  BY SendsNext DEF TryAnother, Goto, Typed, TypeOK
<1>6. Ends(r) =>
        IsPlaced' /\ pc'[r] \in {"idle", "take"} /\ \A q \in Request \ {r} : pc'[q] = pc[q]
  BY EndsPlaced DEF Ends, Goto, Typed, TypeOK
<1>4. CASE SendFails(r)
  <2>1. PICK health \in Health \ {"deleted"} : ChargeAndRelease(r, health)
    BY <1>4, RefusalHealth DEF SendFails
  <2>2. IsPlaced' /\ pc'[r] \in {"idle", "take"} /\ \A q \in Request \ {r} : pc'[q] = pc[q]
    BY <1>4, <1>5, <1>6 DEF SendFails
  <2> QED
    BY <1>1, <2>1, <2>2, Charged
<1>7. CASE Unbooked(r)
  <2>1. Marked
    BY <1>7, SameMarks DEF Unbooked, rows, Typed
  <2>2. IsPlaced' /\ pc'[r] \in {"idle", "take"} /\ \A q \in Request \ {r} : pc'[q] = pc[q]
    BY <1>7, <1>5, <1>6 DEF Unbooked
  <2> QED
    BY <1>1, <1>7, <2>1, <2>2 DEF Unbooked, GiveBack
<1> QED
  BY <1>3, <1>4, <1>7

LEMMA ServeType ==
  ASSUME Typed, NEW r \in Request, Serve(r) \/ SendFails(r) \/ Unbooked(r)
  PROVE  Typed'
<1>1. Holds(r) /\ ~Holds(r)'
  BY ServeParts DEF Holds
<1>2. faults' \in 0..MaxFaults /\ lost' \subseteq Email /\ UNCHANGED stranded
  BY ServeParts DEF Typed, TypeOK
<1>3. UNCHANGED web /\ UNCHANGED loops /\ UNCHANGED upstream
  BY DEF Serve, SendFails, Unbooked, rows
<1> QED
  BY <1>1, <1>2, <1>3, ServeParts, GivenBackType

LEMMA LeaveBehindType ==
  ASSUME Typed, NEW r \in Request, Holds(r), Fault, LeaveBehind(r)
  PROVE  Typed'
<1>1. acct[r] \in Snapshots /\ acct[r].email \in Email /\ Id(acct[r]) \in Ids
  BY IdType DEF Typed, Carries, Snapshots
<1>2. IsPlaced' /\ faults' \in 0..MaxFaults
  BY EndsPlaced, FaultType DEF Typed, LeaveBehind
<1>3. stranded' \subseteq Ids /\ lost' \subseteq Email
  BY <1>1 DEF Typed, TypeOK, LeaveBehind
<1>4. TypeOK'
  BY <1>2, <1>3 DEF Typed, TypeOK, LeaveBehind, IsPlaced, rows, ready, loops, upstream
<1>5. Carries'
  BY DEF Typed, TypeOK, Carries, LeaveBehind, Holds, Ends, Goto
<1> QED
  BY <1>4, <1>5 DEF Typed

(* Whatever leaves an account behind leaves it with a token to lose or not. *)
LEMMA LeavesBehind ==
  ASSUME NEW r \in Request,
         \/ SaveFails(r) \/ ChargeFails(r)
         \/ Cancel(r) /\ pc[r] # "send"
  PROVE  /\ pc[r] \in {"refresh", "rotated"} /\ Holds(r)
         /\ Fault /\ LeaveBehind(r)
BY DEF SaveFails, ChargeFails, Cancel, Holds

(* A request cancelled with a Lease drops it, as after a failed booking.   *)
LEMMA CancelledLease ==
  ASSUME NEW r \in Request, Cancel(r), pc[r] = "send"
  PROVE  Unbooked(r)
BY DEF Cancel, Unbooked

LEMMA CancelType ==
  ASSUME Typed, NEW r \in Request, Cancel(r) \/ SaveFails(r) \/ ChargeFails(r)
  PROVE  Typed'
BY LeavesBehind, LeaveBehindType, CancelledLease, ServeType

(* The probers.  A step of theirs touches no request.                      *)
LEMMA JobType ==
  ASSUME TypeOK, NEW p \in Prober, NEW j \in jobs[p]
  PROVE  /\ j \in Jobs /\ j.email \in Email /\ j.token \in 1..MaxToken
BY DEF TypeOK, Jobs

LEMMA BecomesType ==
  ASSUME TypeOK, NEW p \in Prober, NEW j \in jobs[p], NEW step, Becomes(p, j, step),
         step \in {"refresh", "rotated", "ask", "alive", "dead", "broken"}
  PROVE  jobs' \in [Prober -> SUBSET Jobs]
<1>1. [j EXCEPT !.step = step] \in Jobs
  BY JobType DEF Jobs
<1> QED
  BY <1>1 DEF TypeOK, Becomes

LEMMA RequestsStay ==
  ASSUME Typed, UNCHANGED <<pc, acct>>
  PROVE  Carries'
BY DEF Typed, Carries, Holds

LEMMA ProbeRotatesType ==
  ASSUME Typed, NEW p \in Prober, NEW j \in jobs[p], ProbeRotates(p, j)
  PROVE  Typed'
<1>1. j \in Jobs /\ j.email \in Email
  BY JobType DEF Typed
<1>2. /\ valid' \in [Email -> SUBSET (1..MaxToken)]
      /\ issued' \in [Email -> 1..MaxToken]
      /\ stale' = stale
  BY <1>1, RotatedType DEF Typed, ProbeRotates
<1>3. [j EXCEPT !.step = "rotated", !.token = issued'[j.email]] \in Jobs
  BY <1>1, <1>2 DEF Jobs
<1>4. jobs' \in [Prober -> SUBSET Jobs]
  BY <1>3 DEF ProbeRotates, Typed, TypeOK
<1>5. TypeOK'
  BY <1>2, <1>4 DEF Typed, TypeOK, ProbeRotates, rows, ready, requests, harm
<1> QED
  BY <1>5, RequestsStay DEF Typed, ProbeRotates, requests

LEMMA ProbeSavesType ==
  ASSUME Typed, NEW p \in Prober, NEW j \in jobs[p], ProbeSaves(p, j)
  PROVE  Typed'
<1>1. db' \in [Email -> Rows]
  BY JobType, SavedRow DEF Typed, ProbeSaves
<1>2. jobs' \in [Prober -> SUBSET Jobs]
  BY BecomesType DEF Typed, ProbeSaves
<1>3. TypeOK'
  BY <1>1, <1>2 DEF Typed, TypeOK, ProbeSaves, Rows, ready, requests, upstream, harm
<1> QED
  BY <1>3, RequestsStay DEF Typed, ProbeSaves, requests

LEMMA ProbeFailsParts ==
  ASSUME Typed, NEW p \in Prober, NEW j \in jobs[p], ProbeFails(p, j)
  PROVE  /\ j.step \in {"refresh", "rotated", "ask"}
         /\ Marked
         /\ Becomes(p, j, "dead")
         /\ IF j.step = "rotated" THEN Fault /\ lost' = lost \cup {j.email} /\ UNCHANGED stranded
            ELSE UNCHANGED harm
<1>1. {"cooling", "forbidden", "needs_reauth"} \subseteq Health \ {"deleted"}
  BY DEF Health
<1>2. \A health \in Health \ {"deleted"} : RecordFailure(j, health) => Marked
  BY JobType, FailureMarks DEF Typed
<1> QED
  BY <1>1, <1>2, RefusalHealth DEF ProbeFails

LEMMA ProbeFailsType ==
  ASSUME Typed, NEW p \in Prober, NEW j \in jobs[p], ProbeFails(p, j)
  PROVE  Typed'
<1>1. jobs' \in [Prober -> SUBSET Jobs]
  BY BecomesType, ProbeFailsParts DEF Typed
<1>2. faults' \in 0..MaxFaults /\ lost' \subseteq Email /\ UNCHANGED stranded
  BY JobType, ProbeFailsParts, FaultType DEF Typed, TypeOK, harm
<1>3. TypeOK'
  BY <1>1, <1>2, ProbeFailsParts
     DEF Typed, TypeOK, ProbeFails, Marked, Rows, ready, requests, upstream
<1> QED
  BY <1>3, RequestsStay DEF Typed, ProbeFails, requests

LEMMA ProbeAnsweredParts ==
  ASSUME Typed, NEW p \in Prober, NEW j \in jobs[p], ProbeAnswered(p, j)
  PROVE  /\ j.step = "ask"
         /\ Marked
         /\ Becomes(p, j, "alive") \/ Becomes(p, j, "broken")
<1>1. j.email \in Email
  BY JobType DEF Typed
<1>2. \A b \in Remaining(j.email) : RecordSuccess(j, b, FALSE) => Marked
  BY <1>1, SuccessMarks, RemainingBudget DEF Typed
<1>3. ClearFailure(j) => Marked
  BY <1>1, ClearMarks DEF Typed
<1> QED
  BY <1>2, <1>3 DEF ProbeAnswered

LEMMA ProbeAnsweredType ==
  ASSUME Typed, NEW p \in Prober, NEW j \in jobs[p], ProbeAnswered(p, j)
  PROVE  Typed'
<1>1. jobs' \in [Prober -> SUBSET Jobs]
  BY BecomesType, ProbeAnsweredParts DEF Typed
<1>2. TypeOK'
  BY <1>1, ProbeAnsweredParts
     DEF Typed, TypeOK, ProbeAnswered, Marked, Rows, ready, requests, upstream, harm
<1> QED
  BY <1>2, RequestsStay DEF Typed, ProbeAnswered, requests

LEMMA ProbeUnbookedParts ==
  ASSUME Typed, NEW p \in Prober, NEW j \in jobs[p], ProbeUnbooked(p, j)
  PROVE  /\ j.step \in {"refresh", "rotated", "ask"}
         /\ Marked
         /\ Becomes(p, j, "broken")
         /\ Fault /\ UNCHANGED stranded
         /\ lost' = IF j.step = "rotated" THEN lost \cup {j.email} ELSE lost
<1>1. j.email \in Email
  BY JobType DEF Typed
<1>2. \A b \in Remaining(j.email) : RecordSuccess(j, b, FALSE) => Marked
  BY <1>1, SuccessMarks, RemainingBudget DEF Typed
<1> QED
  BY <1>2, SameMarks DEF ProbeUnbooked, Typed

LEMMA ProbeUnbookedType ==
  ASSUME Typed, NEW p \in Prober, NEW j \in jobs[p], ProbeUnbooked(p, j)
  PROVE  Typed'
<1>1. jobs' \in [Prober -> SUBSET Jobs]
  BY BecomesType, ProbeUnbookedParts DEF Typed
<1>2. faults' \in 0..MaxFaults /\ lost' \subseteq Email
  BY JobType, ProbeUnbookedParts, FaultType DEF Typed, TypeOK
<1>3. TypeOK'
  BY <1>1, <1>2, ProbeUnbookedParts
     DEF Typed, TypeOK, ProbeUnbooked, Marked, Rows, ready, requests, upstream
<1> QED
  BY <1>3, RequestsStay DEF Typed, ProbeUnbooked, requests

LEMMA NewJobType ==
  ASSUME TypeOK, NEW e \in Email
  PROVE  Job(e) \in Jobs
BY RowType DEF Job, Jobs, Rows

LEMMA ProbeStartType ==
  ASSUME Typed, NEW p \in Prober, ProbeStart(p)
  PROVE  Typed'
<1>1. jobs' \in [Prober -> SUBSET Jobs]
  BY NewJobType DEF Typed, TypeOK, ProbeStart, Eligible
<1>2. TypeOK'
  BY <1>1 DEF Typed, TypeOK, ProbeStart, rows, ready, requests, upstream, harm
<1> QED
  BY <1>2, RequestsStay DEF Typed, ProbeStart, requests

LEMMA ProbeNoneType ==
  ASSUME Typed, NEW p \in Prober, ProbeNone(p)
  PROVE  Typed'
<1>1. /\ Marked
      /\ web' \in [Email -> {"ok", "dead", "none"}]
      /\ queue' \subseteq queue
      /\ faults' \in 0..MaxFaults
  BY PurgeMarks DEF Typed, ProbeNone
<1>2. TypeOK'
  BY <1>1 DEF Typed, TypeOK, ProbeNone, Marked, Rows, requests, loops, upstream
<1> QED
  BY <1>2, RequestsStay DEF Typed, ProbeNone, requests

LEMMA ProbeEndsParts ==
  ASSUME Typed, NEW p \in Prober, ProbeEnds(p)
  PROVE  /\ Marked
         /\ web' \in [Email -> {"ok", "dead", "none"}]
         /\ queue' \subseteq queue
         /\ faults' \in 0..MaxFaults
         /\ jobs' = [jobs EXCEPT ![p] = {}]
         /\ \A j \in jobs[p] : j.step \in {"alive", "dead", "broken"}
<1> DEFINE Those(step) == {Id(j) : j \in {k \in jobs[p] : k.step = step}}
<1>1. CASE Those("broken") = {}
  <2>1. Purge(Those("dead"))
    BY <1>1 DEF ProbeEnds
  <2> QED
    BY <2>1, PurgeMarks DEF Typed, ProbeEnds
<1>2. CASE Those("broken") # {}
  <2>1. UNCHANGED rows /\ UNCHANGED faults /\ queue' \subseteq queue
    BY <1>2 DEF ProbeEnds, Without
  <2> QED
    BY <2>1, SameMarks DEF Typed, TypeOK, ProbeEnds, rows
<1> QED
  BY <1>1, <1>2

LEMMA ProbeEndsType ==
  ASSUME Typed, NEW p \in Prober, ProbeEnds(p)
  PROVE  Typed'
<1>1. jobs' \in [Prober -> SUBSET Jobs]
  BY ProbeEndsParts DEF Typed, TypeOK
<1>2. UNCHANGED <<leased, requests, minting, remint, upstream, stranded, lost>>
  BY DEF ProbeEnds
<1>3. TypeOK'
  BY <1>1, <1>2, ProbeEndsParts DEF Typed, TypeOK, Marked, Rows, requests, upstream
<1> QED
  BY <1>2, <1>3, RequestsStay DEF Typed, requests

(* The remint loop, operators and time.                                    *)
LEMMA RemintStartType ==
  ASSUME Typed, RemintStart
  PROVE  Typed'
<1>1. TypeOK'
  BY DEF Typed, TypeOK, RemintStart, Mintable, rows, ready, requests, upstream, harm
<1> QED
  BY <1>1, RequestsStay DEF Typed, RemintStart, requests

LEMMA MintedType ==
  ASSUME Typed, NEW e \in Email, Minted(e)
  PROVE  Typed'
<1>1. issued[e] + 1 \in 1..MaxToken
  BY ProxyAssumption DEF Typed, TypeOK, Minted
<1>2. db' \in [Email -> Rows]
  BY <1>1, ImportedRow DEF Typed, Minted
<1>3. issued' \in [Email -> 1..MaxToken] /\ valid' \in [Email -> SUBSET (1..MaxToken)]
  BY <1>1 DEF Typed, TypeOK, Minted
<1>4. minting' \subseteq Email /\ lost' \subseteq Email
  BY DEF Typed, TypeOK, Minted
<1>5. TypeOK'
  BY <1>2, <1>3, <1>4 DEF Typed, TypeOK, Minted, Rows, ready, requests
<1> QED
  BY <1>5, RequestsStay DEF Typed, Minted, requests

LEMMA MintFailsType ==
  ASSUME Typed, NEW e \in Email, MintFails(e)
  PROVE  Typed'
<1>1. TypeOK'
  BY DEF Typed, TypeOK, MintFails, ready, requests, upstream, harm
<1> QED
  BY <1>1, RequestsStay DEF Typed, MintFails, requests

LEMMA RemintEndsType ==
  ASSUME Typed, RemintEnds
  PROVE  Typed'
<1>1. /\ Marked
      /\ web' \in [Email -> {"ok", "dead", "none"}]
      /\ queue' \subseteq queue
      /\ faults' \in 0..MaxFaults
  BY PurgeMarks DEF Typed, RemintEnds
<1>2. TypeOK'
  BY <1>1 DEF Typed, TypeOK, RemintEnds, Marked, Rows, requests, upstream
<1> QED
  BY <1>2, RequestsStay DEF Typed, RemintEnds, requests

LEMMA RowMarks ==
  ASSUME TypeOK, NEW e \in Email,
         \/ WakeUp(e)
         \/ \E health \in {"active", "disabled"} : SetHealth(e, health)
  PROVE  Marked
<1>1. CASE WakeUp(e)
  <2>1. [db[e] EXCEPT !.wait = FALSE] \in Rows
    BY RowType DEF Rows
  <2> QED
    BY <1>1, <2>1, RowType DEF WakeUp, Marked, Undisturbed, Rows, TypeOK
<1>2. ASSUME NEW health \in {"active", "disabled"}, SetHealth(e, health)
      PROVE  Marked
  <2>1. [db[e] EXCEPT !.health = health, !.wait = FALSE] \in Rows
    BY RowType DEF Rows, Health
  <2>2. db' = [db EXCEPT ![e] = [db[e] EXCEPT !.health = health, !.wait = FALSE]]
    BY <1>2 DEF SetHealth, TypeOK
  <2>3. db' \in [Email -> Rows]
    BY <2>1, <2>2 DEF TypeOK, Rows
  <2>4. Undisturbed
    BY <1>2, <2>2, RowType DEF Undisturbed, SetHealth, TypeOK, Rows
  <2> QED
    BY <2>3, <2>4 DEF Marked
<1> QED
  BY <1>1, <1>2

LEMMA OutsideType ==
  ASSUME Typed, NEW e \in Email,
         \/ WakeUp(e) \/ Expire(e) \/ Revoke(e)
         \/ \E health \in {"active", "disabled"} : SetHealth(e, health)
  PROVE  Typed'
<1>1. CASE WakeUp(e)
  <2>1. TypeOK'
    BY <1>1, RowMarks
       DEF Typed, TypeOK, WakeUp, Marked, Rows, ready, requests, loops, upstream, harm
  <2> QED
    BY <1>1, <2>1, RequestsStay DEF Typed, WakeUp, requests
<1>2. CASE Expire(e)
  <2>1. TypeOK'
    BY <1>2 DEF Typed, TypeOK, Expire, rows, ready, requests, loops, harm
  <2> QED
    BY <1>2, <2>1, RequestsStay DEF Typed, Expire, requests
<1>3. CASE Revoke(e)
  <2>1. TypeOK'
    BY <1>3, FaultType DEF Typed, TypeOK, Revoke, rows, ready, requests, loops
  <2> QED
    BY <1>3, <2>1, RequestsStay DEF Typed, Revoke, requests
<1>4. ASSUME NEW health \in {"active", "disabled"}, SetHealth(e, health)
      PROVE  Typed'
  <2>1. Marked /\ faults' \in 0..MaxFaults
    BY <1>4, RowMarks, FaultType DEF Typed, SetHealth
  <2>2. TypeOK'
    BY <1>4, <2>1
       DEF Typed, TypeOK, SetHealth, Marked, Rows, ready, requests, loops, upstream
  <2> QED
    BY <1>4, <2>2, RequestsStay DEF Typed, SetHealth, requests
<1> QED
  BY <1>1, <1>2, <1>3, <1>4

LEMMA UnsavedType ==
  ASSUME Typed
  PROVE  Unsaved \subseteq Email
BY JobType DEF Typed, Carries, Holds, Unsaved, Snapshots

LEMMA CrashType ==
  ASSUME Typed, Crash
  PROVE  Typed'
<1>1. faults' \in 0..MaxFaults /\ lost' \subseteq Email
  BY FaultType, UnsavedType DEF Typed, TypeOK, Crash
<1>2. TypeOK'
  BY <1>1, FirstValues DEF Typed, TypeOK, Crash, rows, upstream
<1>3. Carries'
  BY DEF Carries, Crash, Holds
<1> QED
  BY <1>2, <1>3 DEF Typed

LEMMA TypedInit == Init => Typed
<1> SUFFICES ASSUME Init
             PROVE  Typed
  OBVIOUS
<1>1. db \in [Email -> Rows]
  BY FirstValues DEF Init, Rows, Health, Budget
<1>3. /\ valid \in [Email -> SUBSET (1..MaxToken)]
      /\ issued \in [Email -> 1..MaxToken] /\ stale \in [Email -> 0..MaxToken]
  BY FirstValues DEF Init
<1>4. TypeOK
  BY <1>1, <1>3, FirstValues DEF Init, TypeOK, Rows
<1>2. Carries
  BY DEF Init, Carries, Holds
<1> QED
  BY <1>2, <1>4 DEF Typed

LEMMA TypedStep == Typed /\ [Next]_vars => Typed'
<1> SUFFICES ASSUME Typed, [Next]_vars
             PROVE  Typed'
  OBVIOUS
<1>1. ASSUME NEW r \in Request, Serving(r) \/ Cancel(r)
      PROVE  Typed'
  BY <1>1, TakeReadyType, RefillType, NoneReadyType, RefreshRotatesType, RefreshSavedType,
     RefreshFailsType, ServeType, CancelType DEF Serving
<1>2. ASSUME NEW p \in Prober, Probing(p)
      PROVE  Typed'
  BY <1>2, ProbeStartType, ProbeNoneType, ProbeEndsType, ProbeRotatesType, ProbeSavesType,
     ProbeFailsType, ProbeAnsweredType, ProbeUnbookedType DEF Probing
<1>3. CASE Reminting
  BY <1>3, RemintStartType, RemintEndsType, MintedType, MintFailsType DEF Reminting
<1>4. CASE UNCHANGED vars
  BY <1>4 DEF vars, rows, ready, requests, loops, upstream, harm, Typed, TypeOK, Carries, Holds
<1> QED
  BY <1>1, <1>2, <1>3, <1>4, OutsideType, CrashType DEF Next

(* The proxy stays within its types.                                       *)
THEOREM TypeCorrect == Spec => []TypeOK
<1>1. Typed => TypeOK
  BY DEF Typed
<1> QED
  BY <1>1, TypedInit, TypedStep, PTL DEF Spec

-----------------------------------------------------------------------------
(* The pool.  OneUserEach and LeasedIsHeld are inductive together with      *)
(* what else is true of the ids: the queue has each of them once, and none *)
(* that is leased, and a stranded id is held by nobody.                    *)
QueueOnce == \A a, b \in queue : Id(a) = Id(b) => a = b

QueueFree == \A a \in queue : Id(a) \notin leased

HeldApart ==
  \A q, r \in Request : Holds(q) /\ Holds(r) /\ q # r => Id(acct[q]) # Id(acct[r])

StrandedFree == \A r \in Request : Holds(r) => Id(acct[r]) \notin stranded

PoolInv == QueueOnce /\ QueueFree /\ HeldApart /\ StrandedFree /\ LeasedIsHeld

(* Who holds what, and LeasedIsHeld by members.                            *)
LEMMA LeasedMembers ==
  LeasedIsHeld <=>
    \A i : i \in leased <=> \/ i \in stranded
                            \/ \E r \in Request : Holds(r) /\ i = Id(acct[r])
BY DEF LeasedIsHeld

LEMMA LeasedMembersNext ==
  LeasedIsHeld' <=>
    \A i : i \in leased' <=> \/ i \in stranded'
                             \/ \E r \in Request : Holds(r)' /\ i = Id(acct'[r])
BY DEF LeasedIsHeld

(* A step that takes nothing and gives nothing back.                       *)
LEMMA PoolStays ==
  ASSUME PoolInv, queue' \subseteq queue, UNCHANGED <<leased, stranded>>,
         \A r \in Request : Holds(r)' <=> Holds(r),
         \A r \in Request : Holds(r) => Id(acct'[r]) = Id(acct[r])
  PROVE  PoolInv'
<1>1. QueueOnce' /\ QueueFree' /\ HeldApart' /\ StrandedFree'
  BY DEF PoolInv, QueueOnce, QueueFree, HeldApart, StrandedFree, Id
<1>2. LeasedIsHeld'
  BY LeasedMembers, LeasedMembersNext DEF PoolInv
<1> QED
  BY <1>1, <1>2 DEF PoolInv

LEMMA RequestsHold ==
  ASSUME PoolInv, queue' \subseteq queue, UNCHANGED <<leased, stranded, pc, acct>>
  PROVE  PoolInv'
BY PoolStays DEF Holds

LEMMA TakenPool ==
  ASSUME Typed, PoolInv, NEW r \in Request, TakeReady(r)
  PROVE  PoolInv'
<1>1. PICK a \in queue : Claim(r, a)
  BY DEF TakeReady
<1>2. /\ queue' = queue \ {a} /\ leased' = leased \cup {Id(a)} /\ stranded' = stranded
      /\ acct'[r] = a /\ Holds(r)' /\ ~Holds(r)
      /\ \A q \in Request \ {r} : acct'[q] = acct[q] /\ (Holds(q)' <=> Holds(q))
  BY <1>1 DEF Claim, TakeReady, Goto, Holds, Typed, TypeOK, harm
<1>3. Id(a) \notin leased /\ Id(a) \notin stranded
      /\ \A q \in Request : Holds(q) => Id(acct[q]) # Id(a)
  BY LeasedMembers DEF PoolInv, QueueFree
<1>4. QueueOnce' /\ QueueFree'
  <2>1. QueueOnce'
    BY <1>2 DEF PoolInv, QueueOnce, Id
  <2>2. QueueFree'
    BY <1>2 DEF PoolInv, QueueFree, QueueOnce, Id
  <2> QED
    BY <2>1, <2>2
<1>5. HeldApart' /\ StrandedFree'
  BY <1>2, <1>3 DEF PoolInv, HeldApart, StrandedFree, Id
<1>6. LeasedIsHeld'
  <2>1. ASSUME NEW i
        PROVE  i \in leased' <=> \/ i \in stranded'
                                 \/ \E q \in Request : Holds(q)' /\ i = Id(acct'[q])
    BY <1>2, LeasedMembers DEF PoolInv
  <2> QED
    BY <2>1, LeasedMembersNext
<1> QED
  BY <1>4, <1>5, <1>6 DEF PoolInv

LEMMA RefilledPool ==
  ASSUME Typed, PoolInv, NEW r \in Request, Refill(r)
  PROVE  PoolInv'
<1>1. PICK batch \in SUBSET Candidates : queue' = {Snapshot(e) : e \in batch}
  BY DEF Refill
<1>2. /\ leased' = leased /\ acct' = acct /\ stranded' = stranded
      /\ \A q \in Request : Holds(q)' <=> Holds(q)
  BY DEF Refill, Goto, Holds, Typed, TypeOK, harm
<1>3. \A e \in batch : Id(Snapshot(e)) = <<e, db[e].gen>> /\ Id(Snapshot(e)) \notin leased
  BY DEF Candidates, Snapshot, Id
<1>4. QueueOnce' /\ QueueFree'
  <2>1. \A a \in queue' : \E e \in batch : a = Snapshot(e)
    BY <1>1
  <2>2. \A e, f \in batch : Id(Snapshot(e)) = Id(Snapshot(f)) => e = f
    BY <1>3
  <2>3. QueueOnce'
    BY <2>1, <2>2 DEF QueueOnce, Id
  <2>4. QueueFree'
    BY <1>2, <1>3, <2>1 DEF QueueFree, Id
  <2> QED
    BY <2>3, <2>4
<1>5. HeldApart' /\ StrandedFree'
  BY <1>2 DEF PoolInv, HeldApart, StrandedFree, Id
<1>6. LeasedIsHeld'
  BY <1>2, LeasedMembers, LeasedMembersNext DEF PoolInv
<1> QED
  BY <1>4, <1>5, <1>6 DEF PoolInv

(* A request that is done with its account, and gives it back, or leaves   *)
(* it behind.                                                              *)
LEMMA GivenBackPool ==
  ASSUME PoolInv, NEW r \in Request, Holds(r), ~Holds(r)', queue' \subseteq queue,
         \A q \in Request \ {r} : acct'[q] = acct[q] /\ (Holds(q)' <=> Holds(q)),
         \/ leased' = leased \ {Id(acct[r])} /\ UNCHANGED stranded
         \/ stranded' = stranded \cup {Id(acct[r])} /\ UNCHANGED leased
  PROVE  PoolInv'
<1>1. leased' \subseteq leased /\ stranded' \subseteq stranded \cup {Id(acct[r])}
  OBVIOUS
<1>2. QueueOnce' /\ QueueFree'
  BY <1>1 DEF PoolInv, QueueOnce, QueueFree, Id
<1>3. HeldApart' /\ StrandedFree'
  BY <1>1 DEF PoolInv, HeldApart, StrandedFree, Id
<1>4. LeasedIsHeld'
  <2>1. Id(acct[r]) \notin stranded /\ Id(acct[r]) \in leased
    BY LeasedMembers DEF PoolInv, StrandedFree
  <2>2. \A q \in Request \ {r} : Holds(q) => Id(acct[q]) # Id(acct[r])
    BY DEF PoolInv, HeldApart
  <2>3. ASSUME NEW i
        PROVE  i \in leased' <=> \/ i \in stranded'
                                 \/ \E q \in Request : Holds(q)' /\ i = Id(acct'[q])
    BY <2>1, <2>2, LeasedMembers DEF PoolInv
  <2> QED
    BY <2>3, LeasedMembersNext
<1> QED
  BY <1>2, <1>3, <1>4 DEF PoolInv

LEMMA UnleasedPool ==
  ASSUME Typed, PoolInv, NEW r \in Request, Serve(r) \/ SendFails(r) \/ Unbooked(r)
  PROVE  PoolInv'
<1>1. /\ Holds(r) /\ ~Holds(r)' /\ UNCHANGED stranded
      /\ \A q \in Request \ {r} : acct'[q] = acct[q] /\ (Holds(q)' <=> Holds(q))
  BY ServeParts DEF Holds, Typed, TypeOK
<1> QED
  BY <1>1, ServeParts, GivenBackPool

LEMMA CancelledPool ==
  ASSUME Typed, PoolInv, NEW r \in Request, Cancel(r) \/ SaveFails(r) \/ ChargeFails(r)
  PROVE  PoolInv'
<1>1. CASE Cancel(r) /\ pc[r] = "send"
  BY <1>1, CancelledLease, UnleasedPool
<1>2. CASE ~(Cancel(r) /\ pc[r] = "send")
  <2>1. Holds(r) /\ LeaveBehind(r)
    BY <1>2, LeavesBehind
  <2>2. /\ ~Holds(r)' /\ queue' = queue /\ UNCHANGED leased
        /\ stranded' = stranded \cup {Id(acct[r])}
        /\ \A q \in Request \ {r} : acct'[q] = acct[q] /\ (Holds(q)' <=> Holds(q))
    BY <2>1 DEF LeaveBehind, ready, Ends, Goto, Holds, Typed, TypeOK
  <2> QED
    BY <2>1, <2>2, GivenBackPool
<1> QED
  BY <1>1, <1>2

LEMMA ServingPool ==
  ASSUME Typed, PoolInv, NEW r \in Request, Serving(r)
  PROVE  PoolInv'
<1>1. CASE NoneReady(r) \/ RefillFails(r)
  <2>1. \A q \in Request : Holds(q)' <=> Holds(q)
    BY <1>1 DEF NoneReady, RefillFails, Ends, Goto, Holds, Typed, TypeOK
  <2> QED
    BY <1>1, <2>1, PoolStays DEF NoneReady, RefillFails, ready, harm
<1>2. CASE RefreshRotates(r)
  <2>1. \A q \in Request : Holds(q)' <=> Holds(q)
    BY <1>2 DEF RefreshRotates, Goto, Holds, Typed, TypeOK
  <2>2. acct[r] \in Snapshots
    BY <1>2 DEF RefreshRotates, Typed, Carries, Holds
  <2>3. acct' = [acct EXCEPT ![r] = [acct[r] EXCEPT !.token = issued'[acct[r].email]]]
    BY <1>2 DEF RefreshRotates, Typed, TypeOK
  <2>4. \A q \in Request : Holds(q) => Id(acct'[q]) = Id(acct[q])
    BY <2>2, <2>3 DEF Typed, TypeOK, Id, Snapshots
  <2> QED
    BY <1>2, <2>1, <2>4, PoolStays DEF RefreshRotates, ready, harm
<1>3. CASE RefreshSaved(r)
  <2>1. \A q \in Request : Holds(q)' <=> Holds(q)
    BY <1>3 DEF RefreshSaved, Goto, Holds, Typed, TypeOK
  <2> QED
    BY <1>3, <2>1, PoolStays DEF RefreshSaved, ready, harm
<1>4. CASE RefreshFails(r)
  <2>1. /\ Holds(r) /\ ~Holds(r)' /\ UNCHANGED stranded
        /\ \A q \in Request \ {r} : acct'[q] = acct[q] /\ (Holds(q)' <=> Holds(q))
    BY <1>4, RefreshFailsParts DEF Holds, Typed, TypeOK, harm
  <2> QED
    BY <1>4, <2>1, RefreshFailsParts, GivenBackPool
<1> QED
  BY <1>1, <1>2, <1>3, <1>4, TakenPool, RefilledPool, UnleasedPool, CancelledPool DEF Serving

LEMMA ProbingPool ==
  ASSUME Typed, PoolInv, NEW p \in Prober, Probing(p)
  PROVE  PoolInv'
<1>1. queue' \subseteq queue /\ UNCHANGED <<leased, requests>> /\ UNCHANGED stranded
  <2>1. CASE ProbeStart(p)
    BY <2>1 DEF ProbeStart, ready, harm
  <2>2. CASE ProbeNone(p)
    BY <2>2, PurgeMarks DEF ProbeNone, Typed
  <2>3. CASE ProbeEnds(p)
    BY <2>3, ProbeEndsParts DEF ProbeEnds
  <2>4. ASSUME NEW j \in jobs[p],
               ProbeRotates(p, j) \/ ProbeSaves(p, j) \/ ProbeAnswered(p, j)
        PROVE  queue' \subseteq queue /\ UNCHANGED <<leased, requests>> /\ UNCHANGED stranded
    BY <2>4 DEF ProbeRotates, ProbeSaves, ProbeAnswered, ready, harm
  <2>5. ASSUME NEW j \in jobs[p], ProbeFails(p, j)
        PROVE  queue' \subseteq queue /\ UNCHANGED <<leased, requests>> /\ UNCHANGED stranded
    BY <2>5, ProbeFailsParts DEF ProbeFails, ready, harm
  <2>6. ASSUME NEW j \in jobs[p], ProbeUnbooked(p, j)
        PROVE  queue' \subseteq queue /\ UNCHANGED <<leased, requests>> /\ UNCHANGED stranded
    BY <2>6 DEF ProbeUnbooked, ready
  <2> QED
    BY <2>1, <2>2, <2>3, <2>4, <2>5, <2>6 DEF Probing
<1> QED
  BY <1>1, RequestsHold DEF requests

LEMMA RemintingPool ==
  ASSUME Typed, PoolInv, Reminting
  PROVE  PoolInv'
<1>1. queue' \subseteq queue /\ UNCHANGED <<leased, requests>> /\ UNCHANGED stranded
  <2>1. CASE RemintEnds
    BY <2>1, PurgeMarks DEF RemintEnds, Typed
  <2> QED
    BY <2>1 DEF Reminting, RemintStart, Minted, MintFails, ready, harm
<1> QED
  BY <1>1, RequestsHold DEF requests

LEMMA OutsidePool ==
  ASSUME PoolInv, NEW e \in Email,
         \/ WakeUp(e) \/ Expire(e) \/ Revoke(e)
         \/ \E health \in {"active", "disabled"} : SetHealth(e, health)
  PROVE  PoolInv'
BY RequestsHold DEF WakeUp, Expire, Revoke, SetHealth, ready, requests, harm

LEMMA CrashedPool ==
  ASSUME Crash
  PROVE  PoolInv'
BY LeasedMembersNext
   DEF Crash, PoolInv, QueueOnce, QueueFree, HeldApart, StrandedFree, Holds

LEMMA PoolInit == Init => PoolInv
BY LeasedMembers
   DEF Init, PoolInv, QueueOnce, QueueFree, HeldApart, StrandedFree, Holds

LEMMA PoolStep == Typed /\ PoolInv /\ [Next]_vars => PoolInv'
<1> SUFFICES ASSUME Typed, PoolInv, [Next]_vars
             PROVE  PoolInv'
  OBVIOUS
<1>1. CASE UNCHANGED vars
  BY <1>1, RequestsHold DEF vars, ready, requests, harm
<1> QED
  BY <1>1, ServingPool, CancelledPool, ProbingPool, RemintingPool, OutsidePool, CrashedPool
     DEF Next

LEMMA PoolHolds == Spec => []PoolInv
<1>1. Typed /\ PoolInv /\ [Next]_vars => Typed' /\ PoolInv'
  BY TypedStep, PoolStep
<1> QED
  BY <1>1, TypedInit, PoolInit, PTL DEF Spec

(* No account is handed to two requests, nor waits in the queue to be.     *)
THEOREM NoAccountShared == Spec => []OneUserEach
<1>1. PoolInv => OneUserEach
  BY LeasedMembers DEF PoolInv, OneUserEach, HeldApart, QueueFree
<1> QED
  BY <1>1, PoolHolds, PTL

(* What is leased is what requests hold, and what they left behind: where   *)
(* they were cancelled, or SQLite failed, while a token was refreshed.     *)
THEOREM NothingLeaks == Spec => []LeasedIsHeld
<1>1. PoolInv => LeasedIsHeld
  BY DEF PoolInv
<1> QED
  BY <1>1, PoolHolds, PTL

-----------------------------------------------------------------------------
(* The tokens.  Known has every snapshot somebody may yet refresh with, or *)
(* copy; Work has the exchanged tokens that are not stored yet, and whose  *)
(* they are.                                                               *)
Of(j) == [email |-> j.email, gen |-> j.gen, token |-> j.token]

Stored == {Snapshot(e) : e \in Email}

Asking == {acct[r] : r \in {q \in Request : pc[q] = "refresh"}}

Trying == UNION {{Of(j) : j \in {k \in jobs[p] : k.step = "refresh"}} : p \in Prober}

Known == Stored \cup queue \cup Asking \cup Trying

ByRequest(r) == <<"request", r, acct[r]>>

ByProber(p, j) == <<"prober", p, Of(j)>>

Taken == {ByRequest(r) : r \in {q \in Request : pc[q] = "rotated"}}

Tried == UNION {{ByProber(p, j) : j \in {k \in jobs[p] : k.step = "rotated"}} : p \in Prober}

Work == Taken \cup Tried

(* Nobody has a token that was not issued.                                 *)
Bounded ==
  /\ \A a \in Known : a.token <= issued[a.email]
  /\ \A w \in Work : w[3].token <= issued[w[3].email]

(* A token tells which row of its email it belongs to.                     *)
OneGen == \A a, b \in Known : a.email = b.email /\ a.token = b.token => a.gen = b.gen

(* Until it is stored, a new token is known to the one task that got it.   *)
Secret ==
  /\ \A w \in Work, a \in Known : a.email = w[3].email => a.token # w[3].token
  /\ \A v, w \in Work : v[3].email = w[3].email /\ v[3].token = w[3].token => v = w

(* What that task will store is good.                                      *)
Good == \A w \in Work : w[3].token \in valid[w[3].email] \/ w[3].email \in lost

(* A row whose token was exchanged gets the new one from a task that will  *)
(* write to this very row.                                                 *)
Kept ==
  \A e \in Email :
    db[e].health # "deleted" =>
      \/ db[e].token \in valid[e] \/ e \in lost
      \/ \E w \in Work : w[3].email = e /\ w[3].gen = db[e].gen

TokenInv == Bounded /\ OneGen /\ Secret /\ Good /\ Kept

(* Only the tokens of known snapshots are refreshed with.                  *)
LEMMA KnownType ==
  ASSUME Typed
  PROVE  \A a \in Known : a.email \in Email /\ a.gen \in 1..MaxGen /\ a.token \in 1..MaxToken
<1>1. Stored \subseteq Snapshots
  BY SnapshotType DEF Typed, Stored
<1>2. queue \subseteq Snapshots
  BY DEF Typed, TypeOK
<1>3. Asking \subseteq Snapshots
  BY DEF Typed, Carries, Holds, Asking
<1>4. Trying \subseteq Snapshots
  BY DEF Typed, TypeOK, Trying, Of, Jobs, Snapshots
<1> QED
  BY <1>1, <1>2, <1>3, <1>4 DEF Known, Snapshots

LEMMA WorkType ==
  ASSUME Typed
  PROVE  \A w \in Work : /\ w[3].email \in Email /\ w[3].gen \in 1..MaxGen
                         /\ w[3].token \in 1..MaxToken
<1>1. \A r \in Request : pc[r] = "rotated" => ByRequest(r)[3] \in Snapshots
  BY DEF Typed, Carries, Holds, ByRequest
<1>2. \A p \in Prober : \A j \in jobs[p] : ByProber(p, j)[3] \in Snapshots
  BY DEF Typed, TypeOK, ByProber, Of, Jobs, Snapshots
<1> QED
  BY <1>1, <1>2 DEF Work, Taken, Tried, Snapshots

LEMMA StoredKnown ==
  ASSUME TypeOK, NEW e \in Email
  PROVE  /\ Snapshot(e) \in Known /\ Snapshot(e).email = e
         /\ Snapshot(e).token = db[e].token /\ Snapshot(e).gen = db[e].gen
BY DEF Known, Stored, Snapshot

(* The effects.  Every action has one of them.                             *)
LEMMA TokensQuiet ==
  ASSUME Typed, TokenInv, Undisturbed, Known' \subseteq Known, Work' = Work,
         UNCHANGED <<valid, issued, lost>>
  PROVE  TokenInv'
<1>1. Bounded' /\ OneGen' /\ Secret' /\ Good'
  BY DEF TokenInv, Bounded, OneGen, Secret, Good
<1>2. Kept'
  BY DEF TokenInv, Kept, Undisturbed
<1> QED
  BY <1>1, <1>2 DEF TokenInv

LEMMA TokensExchanged ==
  ASSUME Typed, TokenInv, NEW k \in Known, NEW w, Rotate(k.email, k.token),
         w[3].email = k.email, w[3].gen = k.gen, w[3].token = issued[k.email] + 1,
         Known' \subseteq Known, Work' = Work \cup {w}, UNCHANGED <<db, lost>>
  PROVE  TokenInv'
<1> DEFINE e == k.email
           n == issued[e] + 1
<1>1. e \in Email /\ issued \in [Email -> Nat] /\ n > issued[e]
  BY KnownType, ProxyAssumption DEF Typed, TypeOK
<1>2. /\ issued' = [issued EXCEPT ![e] = n]
      /\ valid' = [valid EXCEPT ![e] = (@ \ {k.token}) \cup {n}]
  BY DEF Rotate
<1>3. /\ \A f \in Email : issued'[f] = IF f = e THEN n ELSE issued[f]
      /\ \A f \in Email : valid'[f] = IF f = e THEN (valid[e] \ {k.token}) \cup {n} ELSE valid[f]
  BY <1>1, <1>2 DEF Typed, TypeOK
<1> HIDE DEF n
<1>4. w[3].email = e /\ w[3].gen = k.gen /\ w[3].token = n
  BY DEF n
<1> HIDE DEF e
<1>5. \A a \in Known : a.email = e => a.token # n
  BY <1>1, KnownType DEF TokenInv, Bounded
<1>6. \A v \in Work : v[3].email = e => v[3].token # n /\ v[3].token # k.token
  BY <1>1, WorkType DEF TokenInv, Bounded, Secret, e
<1>7. Bounded'
  BY <1>1, <1>3, <1>4, KnownType, WorkType DEF TokenInv, Bounded
<1>8. OneGen' /\ Secret'
  BY <1>4, <1>5, <1>6 DEF TokenInv, OneGen, Secret
<1>9. Good'
  BY <1>1, <1>3, <1>4, <1>6, WorkType DEF TokenInv, Good
<1>10. Kept'
  <2> SUFFICES ASSUME NEW f \in Email, db[f].health # "deleted"
               PROVE  \/ db[f].token \in valid'[f] \/ f \in lost
                      \/ \E v \in Work' : v[3].email = f /\ v[3].gen = db[f].gen
    BY DEF Kept
  <2>1. CASE f = e /\ db[f].token = k.token
    <3>1. db[f].gen = k.gen
      BY <2>1, StoredKnown DEF TokenInv, OneGen, Typed, e
    <3> QED
      BY <2>1, <3>1, <1>4
  <2>2. CASE ~(f = e /\ db[f].token = k.token)
    BY <2>2, <1>3 DEF TokenInv, Kept
  <2> QED
    BY <2>1, <2>2
<1> QED
  BY <1>7, <1>8, <1>9, <1>10 DEF TokenInv

LEMMA TokensSaved ==
  ASSUME Typed, TokenInv, NEW w \in Work, UNCHANGED <<valid, issued, lost>>,
         Present(w[3]) => /\ db'[w[3].email].token = w[3].token
                          /\ db'[w[3].email].gen = w[3].gen,
         ~Present(w[3]) => db' = db,
         \A e \in Email \ {w[3].email} : db'[e] = db[e],
         Known' \subseteq Known \cup {w[3]}, Work' = Work \ {w}
  PROVE  TokenInv'
<1>1. Bounded'
  BY DEF TokenInv, Bounded
<1>2. OneGen' /\ Secret'
  BY DEF TokenInv, OneGen, Secret
<1>3. Good'
  BY DEF TokenInv, Good
<1>4. Kept'
  <2> SUFFICES ASSUME NEW f \in Email, db'[f].health # "deleted"
               PROVE  \/ db'[f].token \in valid[f] \/ f \in lost
                      \/ \E v \in Work' : v[3].email = f /\ v[3].gen = db'[f].gen
    BY DEF Kept
  <2>1. CASE f = w[3].email /\ Present(w[3])
    BY <2>1 DEF TokenInv, Good
  <2>2. CASE ~(f = w[3].email /\ Present(w[3]))
    <3>1. db'[f] = db[f]
      BY <2>2
    <3>2. f = w[3].email => w[3].gen # db[f].gen
      BY <2>2, <3>1 DEF Present
    <3> QED
      BY <3>1, <3>2 DEF TokenInv, Kept
  <2> QED
    BY <2>1, <2>2
<1> QED
  BY <1>1, <1>2, <1>3, <1>4 DEF TokenInv

LEMMA TokensDropped ==
  ASSUME Typed, TokenInv, NEW w \in Work, Undisturbed, Known' \subseteq Known,
         Work' = Work \ {w}, UNCHANGED <<valid, issued>>, lost' = lost \cup {w[3].email}
  PROVE  TokenInv'
<1>1. Bounded' /\ OneGen' /\ Secret' /\ Good'
  BY DEF TokenInv, Bounded, OneGen, Secret, Good
<1>2. Kept'
  <2> SUFFICES ASSUME NEW f \in Email, db'[f].health # "deleted"
               PROVE  \/ db'[f].token \in valid[f] \/ f \in lost'
                      \/ \E v \in Work' : v[3].email = f /\ v[3].gen = db'[f].gen
    BY DEF Kept
  <2>1. db[f].health # "deleted" /\ db'[f].token = db[f].token /\ db'[f].gen = db[f].gen
    BY DEF Undisturbed
  <2> QED
    BY <2>1 DEF TokenInv, Kept
<1> QED
  BY <1>1, <1>2 DEF TokenInv

LEMMA TokensMinted ==
  ASSUME Typed, TokenInv, NEW e \in Email, db'[e].token = issued[e] + 1,
         \A f \in Email \ {e} : db'[f] = db[f],
         issued' = [issued EXCEPT ![e] = @ + 1],
         valid' = [valid EXCEPT ![e] = @ \cup {issued[e] + 1}],
         lost' = lost \ ({e} \ Unsaved), \A w \in Work : w[3].email \in Unsaved,
         NEW s, s.email = e, s.token = issued[e] + 1,
         Known' \subseteq Known \cup {s}, Work' = Work
  PROVE  TokenInv'
<1> DEFINE n == issued[e] + 1
<1>1. issued \in [Email -> Nat] /\ n > issued[e]
  BY ProxyAssumption DEF Typed, TypeOK
<1>2. /\ \A f \in Email : issued'[f] = IF f = e THEN n ELSE issued[f]
      /\ \A f \in Email : valid'[f] = IF f = e THEN valid[e] \cup {n} ELSE valid[f]
  BY DEF Typed, TypeOK
<1>3. db'[e].token = n /\ s.token = n
  OBVIOUS
<1> HIDE DEF n
<1>4. \A a \in Known : a.email = e => a.token # n
  BY <1>1, KnownType DEF TokenInv, Bounded
<1>5. \A v \in Work : v[3].email = e => v[3].token # n
  BY <1>1, WorkType DEF TokenInv, Bounded
<1>6. Bounded'
  BY <1>1, <1>2, <1>3, KnownType, WorkType DEF TokenInv, Bounded
<1>7. OneGen' /\ Secret'
  BY <1>3, <1>4, <1>5 DEF TokenInv, OneGen, Secret
<1>8. Good'
  BY <1>2, WorkType DEF TokenInv, Good
<1>9. Kept'
  BY <1>2, <1>3 DEF TokenInv, Kept
<1> QED
  BY <1>6, <1>7, <1>8, <1>9 DEF TokenInv

LEMMA TokensCrash ==
  ASSUME Typed, TokenInv, Known' \subseteq Known, Work' = {}, UNCHANGED <<db, valid, issued>>,
         lost' = lost \cup Unsaved, \A w \in Work : w[3].email \in Unsaved
  PROVE  TokenInv'
BY DEF TokenInv, Bounded, OneGen, Secret, Good, Kept

LEMMA TokensRevoked ==
  ASSUME Typed, TokenInv, NEW e \in Email, Known' = Known, Work' = Work,
         UNCHANGED <<db, issued>>, valid' = [valid EXCEPT ![e] = {}], lost' = lost \cup {e}
  PROVE  TokenInv'
<1>1. \A f \in Email \ {e} : valid'[f] = valid[f]
  BY DEF Typed, TypeOK
<1>2. Bounded' /\ OneGen' /\ Secret'
  BY DEF TokenInv, Bounded, OneGen, Secret
<1>3. Good' /\ Kept'
  BY <1>1, WorkType DEF TokenInv, Good, Kept
<1> QED
  BY <1>2, <1>3 DEF TokenInv

(* How the actions move these sets.                                        *)
LEMMA StoredStays ==
  ASSUME Undisturbed
  PROVE  Stored' = Stored
<1>1. \A e \in Email : Snapshot(e)' = Snapshot(e)
  BY DEF Undisturbed, Snapshot
<1> QED
  BY <1>1 DEF Stored

LEMMA JobsStay ==
  ASSUME UNCHANGED jobs
  PROVE  Trying' = Trying /\ Tried' = Tried
BY DEF Trying, Tried, ByProber, Of

LEMMA PlacesStay ==
  ASSUME UNCHANGED <<pc, acct>>
  PROVE  Asking' = Asking /\ Taken' = Taken
BY DEF Asking, Taken, ByRequest

(* A request moves to where it has nothing to do with tokens.              *)
LEMMA RequestLeaves ==
  ASSUME NEW r \in Request, \A q \in Request \ {r} : pc'[q] = pc[q] /\ acct'[q] = acct[q],
         pc'[r] \notin {"refresh", "rotated"}
  PROVE  /\ Asking' \subseteq Asking
         /\ Taken' = Taken \ {ByRequest(r)}
         /\ pc[r] # "rotated" => Taken' = Taken
<1>1. \A q \in Request : ByRequest(q) = ByRequest(r) => q = r
  BY DEF ByRequest
<1>2. \A q \in Request \ {r} : ByRequest(q)' = ByRequest(q)
  BY DEF ByRequest
<1>3. Asking' \subseteq Asking
  BY DEF Asking
<1>4. \A w : w \in Taken' <=> \E q \in Request \ {r} : pc[q] = "rotated" /\ w = ByRequest(q)
  BY <1>2 DEF Taken
<1>5. Taken' = Taken \ {ByRequest(r)}
  <2>1. \A w : w \in Taken <=> \E q \in Request : pc[q] = "rotated" /\ w = ByRequest(q)
    BY DEF Taken
  <2>2. \A w : w \in Taken' <=> w \in Taken /\ w # ByRequest(r)
    BY <1>1, <1>4, <2>1
  <2> QED
    BY <2>2
<1>6. pc[r] # "rotated" => ByRequest(r) \notin Taken
  BY <1>1 DEF Taken
<1> QED
  BY <1>3, <1>5, <1>6

LEMMA RequestWork ==
  ASSUME NEW r \in Request, pc[r] = "rotated"
  PROVE  ByRequest(r) \in Work /\ ByRequest(r)[3] = acct[r] /\ ByRequest(r) \notin Tried
BY DEF Work, Taken, Tried, ByRequest, ByProber

LEMMA ProberWork ==
  ASSUME NEW p \in Prober, NEW j \in jobs[p], j.step = "rotated"
  PROVE  ByProber(p, j) \in Work /\ ByProber(p, j)[3] = Of(j) /\ ByProber(p, j) \notin Taken
BY DEF Work, Taken, Tried, ByRequest, ByProber

(* A job moves to where it has nothing to do with tokens.                  *)
LEMMA JobLeaves ==
  ASSUME TypeOK, NEW p \in Prober, NEW j \in jobs[p], NEW step, Becomes(p, j, step),
         step \notin {"refresh", "rotated"}
  PROVE  /\ Trying' \subseteq Trying
         /\ j.step = "rotated" => Tried' = Tried \ {ByProber(p, j)}
         /\ j.step # "rotated" => Tried' = Tried
<1> DEFINE i == [j EXCEPT !.step = step]
<1>1. i.step = step /\ jobs'[p] = (jobs[p] \ {j}) \cup {i}
      /\ \A q \in Prober \ {p} : jobs'[q] = jobs[q]
  BY JobType DEF TypeOK, Becomes, Jobs
<1> HIDE DEF i
<1>2. \A q \in Prober : \A k \in jobs'[q] :
        k.step \in {"refresh", "rotated"} => k \in jobs[q] /\ ~(q = p /\ k = j)
  BY <1>1
<1>3. \A q \in Prober : \A k \in jobs[q] : ~(q = p /\ k = j) => k \in jobs'[q]
  BY <1>1
<1>4. Trying' \subseteq Trying
  BY <1>2 DEF Trying, Of
<1>5. \A q \in Prober : \A k \in jobs[q] :
        ByProber(q, k) = ByProber(p, j) /\ k.step = j.step => q = p /\ k = j
  BY DEF TypeOK, ByProber, Of, Jobs
<1>6. \A w : w \in Tried <=>
        \E q \in Prober : \E k \in jobs[q] : k.step = "rotated" /\ w = ByProber(q, k)
  BY DEF Tried
<1>7. \A w : w \in Tried' <=>
        \E q \in Prober : \E k \in jobs'[q] : k.step = "rotated" /\ w = ByProber(q, k)
  BY DEF Tried, ByProber, Of
<1>8. CASE j.step = "rotated"
  BY <1>2, <1>3, <1>4, <1>5, <1>6, <1>7, <1>8
<1>9. CASE j.step # "rotated"
  BY <1>2, <1>3, <1>4, <1>6, <1>7, <1>9
<1> QED
  BY <1>8, <1>9

LEMMA WorkUnsaved == \A w \in Work : w[3].email \in Unsaved
BY DEF Work, Taken, Tried, ByRequest, ByProber, Of, Unsaved

(* The requests.                                                           *)
LEMMA ServingTokensTake ==
  ASSUME Typed, TokenInv, NEW r \in Request, TakeReady(r) \/ Refill(r)
  PROVE  TokenInv'
<1>1. UNCHANGED <<rows, loops, upstream, harm>>
  BY DEF TakeReady, Refill, Claim
<1>2. Undisturbed /\ Stored' = Stored /\ Trying' = Trying /\ Tried' = Tried
  BY <1>1, StoredStays, JobsStay DEF rows, loops, Undisturbed
<1>3. CASE TakeReady(r)
  <2>1. PICK a \in queue : Claim(r, a)
    BY <1>3 DEF TakeReady
  <2>2. /\ queue' \subseteq queue /\ acct'[r] = a /\ pc'[r] # "rotated" /\ pc[r] # "rotated"
        /\ \A q \in Request \ {r} : pc'[q] = pc[q] /\ acct'[q] = acct[q]
    BY <1>3, <2>1 DEF TakeReady, Claim, Goto, Typed, TypeOK
  <2>3. Asking' \subseteq Asking \cup {a}
    BY <2>2 DEF Asking
  <2>4. Taken' = Taken
    <3>1. \A q \in Request : pc'[q] = "rotated" <=> pc[q] = "rotated"
      BY <2>2
    <3>2. \A q \in Request : pc[q] = "rotated" => ByRequest(q)' = ByRequest(q)
      BY <2>2 DEF ByRequest
    <3> QED
      BY <3>1, <3>2 DEF Taken
  <2> QED
    BY <1>1, <1>2, <2>1, <2>2, <2>3, <2>4, TokensQuiet DEF Known, Work, upstream, harm
<1>4. CASE Refill(r)
  <2>1. queue' \subseteq Stored
    BY <1>4 DEF Refill, Candidates, Stored
  <2>2. Asking' \subseteq Asking /\ Taken' = Taken
    <3>1. /\ \A q \in Request \ {r} : pc'[q] = pc[q] /\ acct'[q] = acct[q]
          /\ pc'[r] = "pop" /\ pc[r] # "rotated"
      BY <1>4 DEF Refill, Goto, Typed, TypeOK
    <3> QED
      BY <3>1, RequestLeaves
  <2> QED
    BY <1>1, <1>2, <2>1, <2>2, TokensQuiet DEF Known, Work, upstream, harm
<1> QED
  BY <1>3, <1>4

(* A request gives up its account, before the exchange or after the save.  *)
LEMMA RequestQuiet ==
  ASSUME Typed, TokenInv, NEW r \in Request, pc[r] # "rotated", Undisturbed,
         \A q \in Request \ {r} : pc'[q] = pc[q] /\ acct'[q] = acct[q],
         pc'[r] \notin {"refresh", "rotated"}, queue' \subseteq queue,
         UNCHANGED loops, UNCHANGED upstream, UNCHANGED lost
  PROVE  TokenInv'
<1>1. Stored' = Stored /\ Trying' = Trying /\ Tried' = Tried
  BY StoredStays, JobsStay DEF loops
<1>2. Asking' \subseteq Asking /\ Taken' = Taken
  BY RequestLeaves
<1> QED
  BY <1>1, <1>2, TokensQuiet DEF Known, Work, upstream

(* A request gives up an account whose new token nobody has stored.        *)
LEMMA RequestDrops ==
  ASSUME Typed, TokenInv, NEW r \in Request, pc[r] = "rotated", Undisturbed,
         \A q \in Request \ {r} : pc'[q] = pc[q] /\ acct'[q] = acct[q],
         pc'[r] \notin {"refresh", "rotated"}, queue' \subseteq queue,
         UNCHANGED loops, UNCHANGED upstream, lost' = lost \cup {acct[r].email}
  PROVE  TokenInv'
<1>1. Stored' = Stored /\ Trying' = Trying /\ Tried' = Tried
  BY StoredStays, JobsStay DEF loops
<1>2. Asking' \subseteq Asking /\ Taken' = Taken \ {ByRequest(r)}
  BY RequestLeaves
<1>3. ByRequest(r) \in Work /\ ByRequest(r)[3] = acct[r] /\ ByRequest(r) \notin Tried
  BY RequestWork
<1>4. Known' \subseteq Known
  BY <1>1, <1>2 DEF Known
<1>5. Work' = Work \ {ByRequest(r)}
  BY <1>1, <1>2, <1>3 DEF Work
<1> QED
  BY <1>3, <1>4, <1>5, TokensDropped DEF upstream

LEMMA ExchangeTokens ==
  ASSUME Typed, TokenInv, NEW r \in Request, RefreshRotates(r)
  PROVE  TokenInv'
<1> DEFINE a == [acct[r] EXCEPT !.token = issued'[acct[r].email]]
           w == <<"request", r, a>>
<1>1. acct[r] \in Snapshots /\ acct[r].email \in Email /\ pc[r] = "refresh"
  BY DEF Typed, Carries, Holds, RefreshRotates, Snapshots
<1>2. /\ acct' = [acct EXCEPT ![r] = a] /\ pc' = [pc EXCEPT ![r] = "rotated"]
      /\ Rotate(acct[r].email, acct[r].token)
      /\ UNCHANGED <<rows, ready, loops, harm>>
  BY DEF RefreshRotates, Typed, TypeOK, Goto
<1>3. issued'[acct[r].email] = issued[acct[r].email] + 1
  BY <1>1, <1>2, RotatedType DEF Typed
<1>4. /\ w[3].email = acct[r].email /\ w[3].gen = acct[r].gen
      /\ w[3].token = issued[acct[r].email] + 1
  BY <1>1, <1>3 DEF Snapshots
<1>5. /\ acct'[r] = a /\ pc'[r] = "rotated"
      /\ \A q \in Request \ {r} : pc'[q] = pc[q] /\ acct'[q] = acct[q]
  BY <1>2 DEF Typed, TypeOK
<1> HIDE DEF a
<1>6. Asking' \subseteq Asking
  BY <1>5 DEF Asking
<1>7. Taken' = Taken \cup {w}
  <2>1. ByRequest(r)' = w /\ \A q \in Request \ {r} : ByRequest(q)' = ByRequest(q)
    BY <1>5 DEF ByRequest
  <2>2. pc[r] # "rotated"
    BY <1>1
  <2> QED
    BY <1>5, <2>1, <2>2 DEF Taken
<1>8. Stored' = Stored /\ Trying' = Trying /\ Tried' = Tried
  BY <1>2, StoredStays, JobsStay DEF rows, loops, Undisturbed
<1>9. Known' \subseteq Known /\ Work' = Work \cup {w} /\ acct[r] \in Known
  BY <1>1, <1>2, <1>6, <1>7, <1>8 DEF Known, Work, Asking, ready
<1> HIDE DEF w
<1> QED
  BY <1>2, <1>4, <1>9, TokensExchanged DEF rows, harm

LEMMA SavedTokens ==
  ASSUME Typed, TokenInv, NEW r \in Request, RefreshSaved(r)
  PROVE  TokenInv'
<1> DEFINE w == ByRequest(r)
<1>1. /\ pc[r] = "rotated" /\ acct[r] \in Snapshots
      /\ acct[r].email \in Email /\ acct[r].token \in 1..MaxToken
      /\ acct[r] = [email |-> acct[r].email, gen |-> acct[r].gen, token |-> acct[r].token]
  BY DEF Typed, Carries, Holds, RefreshSaved, Snapshots
<1>2. w \in Work /\ w[3] = acct[r] /\ w \notin Tried
  BY <1>1, RequestWork
<1>3. /\ \A e \in Email \ {acct[r].email} : db'[e] = db[e]
      /\ Present(acct[r]) => /\ db'[acct[r].email].token = acct[r].token
                             /\ db'[acct[r].email].gen = acct[r].gen
      /\ ~Present(acct[r]) => db' = db
  BY <1>1, SavedRow DEF Typed, RefreshSaved
<1>4. /\ \A q \in Request \ {r} : pc'[q] = pc[q] /\ acct'[q] = acct[q]
      /\ pc'[r] = "send"
  BY DEF RefreshSaved, Goto, Typed, TypeOK
<1>5. Asking' \subseteq Asking /\ Taken' = Taken \ {w}
  BY <1>4, RequestLeaves
<1>6. Stored' \subseteq Stored \cup {acct[r]}
  <2>1. \A e \in Email : Snapshot(e)' = Snapshot(e) \/ Snapshot(e)' = acct[r]
    BY <1>1, <1>3 DEF Snapshot
  <2> QED
    BY <2>1 DEF Stored
<1>7. Trying' = Trying /\ Tried' = Tried /\ queue' = queue
  BY JobsStay DEF RefreshSaved, loops, ready
<1>8. Known' \subseteq Known \cup {w[3]}
  BY <1>2, <1>5, <1>6, <1>7 DEF Known
<1>9. Work' = Work \ {w}
  BY <1>2, <1>5, <1>7 DEF Work
<1>10. UNCHANGED <<valid, issued, lost>>
  BY DEF RefreshSaved, upstream, harm
<1> HIDE DEF w
<1> QED
  BY <1>2, <1>3, <1>8, <1>9, <1>10, TokensSaved

LEMMA RefreshFailsTokens ==
  ASSUME Typed, TokenInv, NEW r \in Request, RefreshFails(r)
  PROVE  TokenInv'
<1>1. /\ Undisturbed /\ queue' \subseteq queue
      /\ pc'[r] \notin {"refresh", "rotated"}
      /\ \A q \in Request \ {r} : pc'[q] = pc[q] /\ acct'[q] = acct[q]
  BY RefreshFailsParts DEF Marked, Typed, TypeOK
<1>2. UNCHANGED loops /\ UNCHANGED upstream
  BY DEF RefreshFails
<1>3. CASE pc[r] = "rotated"
  BY <1>1, <1>2, <1>3, RefreshFailsParts, RequestDrops
<1>4. CASE pc[r] # "rotated"
  <2>1. UNCHANGED lost
    BY <1>4, RefreshFailsParts DEF harm
  <2> QED
    BY <1>1, <1>2, <1>4, <2>1, RequestQuiet
<1> QED
  BY <1>3, <1>4

LEMMA UnleasedTokens ==
  ASSUME Typed, TokenInv, NEW r \in Request, Serve(r) \/ SendFails(r) \/ Unbooked(r)
  PROVE  TokenInv'
<1>1. /\ pc[r] # "rotated" /\ pc'[r] \notin {"refresh", "rotated"} /\ Undisturbed
      /\ \A q \in Request \ {r} : pc'[q] = pc[q] /\ acct'[q] = acct[q]
      /\ queue' \subseteq queue /\ UNCHANGED lost
  BY ServeParts DEF Marked, Typed, TypeOK
<1>2. UNCHANGED loops /\ UNCHANGED upstream
  BY DEF Serve, SendFails, Unbooked
<1> QED
  BY <1>1, <1>2, RequestQuiet

LEMMA CancelTokens ==
  ASSUME Typed, TokenInv, NEW r \in Request, Cancel(r) \/ SaveFails(r) \/ ChargeFails(r)
  PROVE  TokenInv'
<1>1. CASE Cancel(r) /\ pc[r] = "send"
  BY <1>1, CancelledLease, UnleasedTokens
<1>2. CASE ~(Cancel(r) /\ pc[r] = "send")
  <2>1. LeaveBehind(r)
    BY <1>2, LeavesBehind
  <2>2. /\ pc'[r] = "idle" /\ Undisturbed /\ queue' = queue
        /\ \A q \in Request \ {r} : pc'[q] = pc[q] /\ acct'[q] = acct[q]
        /\ UNCHANGED loops /\ UNCHANGED upstream
        /\ lost' = IF pc[r] = "rotated" THEN lost \cup {acct[r].email} ELSE lost
    BY <2>1 DEF LeaveBehind, ready, Ends, Goto, Typed, TypeOK, Undisturbed, rows
  <2> QED
    BY <2>2, RequestQuiet, RequestDrops
<1> QED
  BY <1>1, <1>2

LEMMA ServingTokens ==
  ASSUME Typed, TokenInv, NEW r \in Request, Serving(r)
  PROVE  TokenInv'
<1>1. CASE NoneReady(r) \/ RefillFails(r)
  <2>1. /\ pc[r] # "rotated" /\ pc'[r] = "idle" /\ Undisturbed
        /\ \A q \in Request \ {r} : pc'[q] = pc[q] /\ acct'[q] = acct[q]
    BY <1>1 DEF NoneReady, RefillFails, Ends, Goto, Typed, TypeOK, Undisturbed, rows
  <2> QED
    BY <1>1, <2>1, RequestQuiet DEF NoneReady, RefillFails, ready, harm
<1> QED
  BY <1>1, UnleasedTokens, CancelTokens,
     ServingTokensTake, ExchangeTokens, SavedTokens, RefreshFailsTokens DEF Serving

(* The probers.                                                            *)
LEMMA JobQuiet ==
  ASSUME Typed, TokenInv, NEW p \in Prober, NEW j \in jobs[p], j.step # "rotated",
         Undisturbed, NEW step, Becomes(p, j, step), step \notin {"refresh", "rotated"},
         UNCHANGED <<ready, requests, upstream, lost>>
  PROVE  TokenInv'
<1>1. Stored' = Stored /\ Trying' \subseteq Trying /\ Tried' = Tried
  BY StoredStays, JobLeaves DEF Typed
<1>2. Asking' = Asking /\ Taken' = Taken
  BY PlacesStay DEF requests
<1> QED
  BY <1>1, <1>2, TokensQuiet DEF Known, Work, ready, upstream

LEMMA ProbeExchangeTokens ==
  ASSUME Typed, TokenInv, NEW p \in Prober, NEW j \in jobs[p], ProbeRotates(p, j)
  PROVE  TokenInv'
<1> DEFINE i == [j EXCEPT !.step = "rotated", !.token = issued'[j.email]]
           k == Of(j)
           w == <<"prober", p, Of(i)>>
<1>1. j \in Jobs /\ j.email \in Email /\ j.step = "refresh"
  BY JobType DEF Typed, ProbeRotates
<1>2. /\ jobs' = [jobs EXCEPT ![p] = (@ \ {j}) \cup {i}]
      /\ Rotate(k.email, k.token)
      /\ UNCHANGED <<rows, ready, requests, minting, remint, harm>>
  BY DEF ProbeRotates, Of
<1>3. issued'[j.email] = issued[j.email] + 1
  BY <1>1, <1>2, RotatedType DEF Typed, Of
<1>4. /\ w[3].email = k.email /\ w[3].gen = k.gen /\ w[3].token = issued[k.email] + 1
      /\ i.step = "rotated"
  BY <1>1, <1>3 DEF Jobs, Of
<1>5. /\ jobs'[p] = (jobs[p] \ {j}) \cup {i}
      /\ \A q \in Prober \ {p} : jobs'[q] = jobs[q]
  BY <1>2 DEF Typed, TypeOK
<1> HIDE DEF i
<1>6. Trying' \subseteq Trying
  BY <1>4, <1>5 DEF Trying, Of
<1>7. Tried' = Tried \cup {w}
  <2>1. ByProber(p, i) = w
    BY DEF ByProber
  <2>2. \A x : x \in Tried <=>
          \E q \in Prober : \E y \in jobs[q] : y.step = "rotated" /\ x = ByProber(q, y)
    BY DEF Tried
  <2>3. \A x : x \in Tried' <=>
          \E q \in Prober : \E y \in jobs'[q] : y.step = "rotated" /\ x = ByProber(q, y)
    BY DEF Tried, ByProber, Of
  <2>4. \A x : x \in Tried' <=> x \in Tried \/ x = w
    BY <1>1, <1>4, <1>5, <2>1, <2>2, <2>3
  <2> QED
    BY <2>4
<1>8. Stored' = Stored /\ Asking' = Asking /\ Taken' = Taken
  BY <1>2, StoredStays, PlacesStay DEF rows, requests, Undisturbed
<1>9. Known' \subseteq Known /\ Work' = Work \cup {w} /\ k \in Known
  BY <1>1, <1>2, <1>6, <1>7, <1>8 DEF Known, Work, Trying, ready
<1> HIDE DEF w, k
<1> QED
  BY <1>2, <1>4, <1>9, TokensExchanged DEF rows, harm

LEMMA ProbeSavesTokens ==
  ASSUME Typed, TokenInv, NEW p \in Prober, NEW j \in jobs[p], ProbeSaves(p, j)
  PROVE  TokenInv'
<1> DEFINE w == ByProber(p, j)
<1>1. j \in Jobs /\ j.email \in Email /\ j.token \in 1..MaxToken /\ j.step = "rotated"
  BY JobType DEF Typed, ProbeSaves
<1>2. /\ w \in Work /\ w \notin Taken
      /\ w[3].email = j.email /\ w[3].gen = j.gen /\ w[3].token = j.token
      /\ w[3] = [email |-> j.email, gen |-> j.gen, token |-> j.token]
  BY <1>1, ProberWork DEF Of
<1>3. Present(w[3]) <=> Present(j)
  BY <1>2 DEF Present
<1>4. /\ \A e \in Email \ {j.email} : db'[e] = db[e]
      /\ Present(j) => db'[j.email].token = j.token /\ db'[j.email].gen = j.gen
      /\ ~Present(j) => db' = db
  BY <1>1, SavedRow DEF Typed, ProbeSaves
<1>5. Trying' \subseteq Trying /\ Tried' = Tried \ {w}
  BY <1>1, JobLeaves DEF Typed, ProbeSaves
<1>6. Stored' \subseteq Stored \cup {w[3]}
  <2>1. \A e \in Email : Snapshot(e)' = Snapshot(e) \/ Snapshot(e)' = w[3]
    BY <1>1, <1>2, <1>4 DEF Snapshot
  <2> QED
    BY <2>1 DEF Stored
<1>7. Asking' = Asking /\ Taken' = Taken /\ queue' = queue
  BY PlacesStay DEF ProbeSaves, requests, ready
<1>8. Known' \subseteq Known \cup {w[3]}
  BY <1>5, <1>6, <1>7 DEF Known
<1>9. Work' = Work \ {w}
  BY <1>2, <1>5, <1>7 DEF Work
<1>10. UNCHANGED <<valid, issued, lost>>
  BY DEF ProbeSaves, upstream, harm
<1> HIDE DEF w
<1> QED
  BY <1>2, <1>3, <1>4, <1>8, <1>9, <1>10, TokensSaved

LEMMA JobDrops ==
  ASSUME Typed, TokenInv, NEW p \in Prober, NEW j \in jobs[p], j.step = "rotated",
         Undisturbed, NEW step, Becomes(p, j, step), step \notin {"refresh", "rotated"},
         UNCHANGED <<ready, requests, upstream>>, lost' = lost \cup {j.email}
  PROVE  TokenInv'
<1> DEFINE w == ByProber(p, j)
<1>1. w \in Work /\ w \notin Taken /\ w[3] = Of(j)
  BY ProberWork
<1>2. w[3].email = j.email
  BY <1>1 DEF Of
<1>3. Trying' \subseteq Trying /\ Tried' = Tried \ {w}
  BY JobLeaves DEF Typed
<1>4. Stored' = Stored /\ Asking' = Asking /\ Taken' = Taken
  BY StoredStays, PlacesStay DEF requests
<1>5. Known' \subseteq Known /\ Work' = Work \ {w}
  BY <1>1, <1>3, <1>4 DEF Known, Work, ready
<1> HIDE DEF w
<1> QED
  BY <1>1, <1>2, <1>5, TokensDropped DEF upstream

LEMMA ProbeFailsTokens ==
  ASSUME Typed, TokenInv, NEW p \in Prober, NEW j \in jobs[p],
         ProbeFails(p, j) \/ ProbeUnbooked(p, j)
  PROVE  TokenInv'
<1>1. PICK step \in {"dead", "broken"} : Becomes(p, j, step)
  BY ProbeFailsParts, ProbeUnbookedParts
<1>2. /\ Undisturbed /\ UNCHANGED <<ready, requests, upstream>>
      /\ lost' = IF j.step = "rotated" THEN lost \cup {j.email} ELSE lost
  BY ProbeFailsParts, ProbeUnbookedParts DEF Marked, ProbeFails, ProbeUnbooked, harm
<1> QED
  BY <1>1, <1>2, JobDrops, JobQuiet

LEMMA ProbeAnsweredTokens ==
  ASSUME Typed, TokenInv, NEW p \in Prober, NEW j \in jobs[p], ProbeAnswered(p, j)
  PROVE  TokenInv'
<1>1. UNCHANGED <<ready, requests, upstream, lost>> /\ Undisturbed /\ j.step # "rotated"
  BY ProbeAnsweredParts DEF ProbeAnswered, Marked, harm
<1> QED
  BY <1>1, ProbeAnsweredParts, JobQuiet

(* A pass begins or ends.                                                  *)
LEMMA PassTokens ==
  ASSUME Typed, TokenInv, NEW p \in Prober, ProbeStart(p) \/ ProbeNone(p) \/ ProbeEnds(p)
  PROVE  TokenInv'
<1>1. UNCHANGED <<requests, upstream, lost>> /\ Undisturbed /\ queue' \subseteq queue
  BY PurgeMarks, ProbeEndsParts
     DEF ProbeStart, ProbeNone, ProbeEnds, Marked, Typed, ready, rows, harm, Undisturbed
<1>2. Stored' = Stored /\ Asking' = Asking /\ Taken' = Taken
  BY <1>1, StoredStays, PlacesStay DEF requests
<1>3. Trying' \subseteq Trying \cup Stored /\ Tried' = Tried
  <2>1. CASE ProbeStart(p)
    <3>1. jobs[p] = {} /\ jobs' = [jobs EXCEPT ![p] = {Job(e) : e \in Eligible(p)}]
      BY <2>1 DEF ProbeStart
    <3>2. \A e \in Email : Job(e).step \in {"refresh", "ask"} /\ Of(Job(e)) = Snapshot(e)
      BY DEF Job, Of, Snapshot
    <3>3. \A j \in jobs'[p] : j.step # "rotated" /\ Of(j) \in Stored
      BY <3>1, <3>2 DEF Eligible, Stored, Typed, TypeOK
    <3>4. \A q \in Prober \ {p} : jobs'[q] = jobs[q]
      BY <3>1 DEF Typed, TypeOK
    <3>5. Trying' \subseteq Trying \cup Stored
      BY <3>3, <3>4 DEF Trying, Of
    <3>6. \A x : x \in Tried <=>
            \E q \in Prober : \E j \in jobs[q] : j.step = "rotated" /\ x = ByProber(q, j)
      BY DEF Tried
    <3>7. \A x : x \in Tried' <=>
            \E q \in Prober : \E j \in jobs'[q] : j.step = "rotated" /\ x = ByProber(q, j)
      BY DEF Tried, ByProber, Of
    <3>8. \A x : x \in Tried' <=> x \in Tried
      BY <3>1, <3>3, <3>4, <3>6, <3>7
    <3> QED
      BY <3>5, <3>8
  <2>2. CASE ProbeNone(p)
    BY <2>2, JobsStay DEF ProbeNone, loops
  <2>3. CASE ProbeEnds(p)
    <3>1. /\ jobs'[p] = {} /\ \A q \in Prober \ {p} : jobs'[q] = jobs[q]
          /\ \A j \in jobs[p] : j.step \notin {"refresh", "rotated"}
      BY <2>3, ProbeEndsParts DEF Typed, TypeOK
    <3>2. Trying' \subseteq Trying
      BY <3>1 DEF Trying, Of
    <3>3. \A x : x \in Tried <=>
            \E q \in Prober : \E j \in jobs[q] : j.step = "rotated" /\ x = ByProber(q, j)
      BY DEF Tried
    <3>4. \A x : x \in Tried' <=>
            \E q \in Prober : \E j \in jobs'[q] : j.step = "rotated" /\ x = ByProber(q, j)
      BY DEF Tried, ByProber, Of
    <3>5. \A x : x \in Tried' <=> x \in Tried
      BY <3>1, <3>3, <3>4
    <3> QED
      BY <3>2, <3>5
  <2> QED
    BY <2>1, <2>2, <2>3
<1> QED
  BY <1>1, <1>2, <1>3, TokensQuiet DEF Known, Work, upstream, harm

(* The remint loop, operators, time, and a crash.                          *)
LEMMA MintedTokens ==
  ASSUME Typed, TokenInv, NEW e \in Email, Minted(e)
  PROVE  TokenInv'
<1> DEFINE s == Snapshot(e)'
<1>1. issued[e] + 1 \in 1..MaxToken
  BY ProxyAssumption DEF Typed, TypeOK, Minted
<1>2. /\ \A f \in Email \ {e} : db'[f] = db[f]
      /\ db'[e].token = issued[e] + 1
  BY <1>1, ImportedRow DEF Typed, Minted
<1>3. s.email = e /\ s.token = issued[e] + 1
  BY <1>2 DEF Snapshot
<1>4. Stored' \subseteq Stored \cup {s}
  <2>1. \A f \in Email : Snapshot(f)' = Snapshot(f) \/ Snapshot(f)' = s
    BY <1>2 DEF Snapshot
  <2> HIDE DEF s
  <2> QED
    BY <2>1 DEF Stored
<1>5. /\ Asking' = Asking /\ Taken' = Taken
      /\ Trying' = Trying /\ Tried' = Tried
  BY PlacesStay, JobsStay DEF Minted, requests
<1>6. Known' \subseteq Known \cup {s} /\ Work' = Work
  BY <1>4, <1>5 DEF Known, Work, Minted, ready
<1> HIDE DEF s
<1> QED
  BY <1>2, <1>3, <1>6, WorkUnsaved, TokensMinted DEF Minted

LEMMA RowsQuiet ==
  ASSUME Typed, TokenInv, Undisturbed, queue' \subseteq queue,
         UNCHANGED <<requests, jobs, valid, issued, lost>>
  PROVE  TokenInv'
<1>1. Stored' = Stored /\ Asking' = Asking /\ Taken' = Taken
      /\ Trying' = Trying /\ Tried' = Tried
  BY StoredStays, PlacesStay, JobsStay DEF requests
<1> QED
  BY <1>1, TokensQuiet DEF Known, Work

LEMMA RemintingTokens ==
  ASSUME Typed, TokenInv, Reminting
  PROVE  TokenInv'
<1>1. CASE RemintEnds
  BY <1>1, PurgeMarks, RowsQuiet DEF RemintEnds, Typed, Marked, upstream
<1>2. CASE RemintStart
  BY <1>2, RowsQuiet DEF RemintStart, Undisturbed, rows, ready, upstream, harm
<1>3. ASSUME NEW e \in Email, MintFails(e)
      PROVE  TokenInv'
  BY <1>3, RowsQuiet DEF MintFails, Undisturbed, ready, upstream, harm
<1> QED
  BY <1>1, <1>2, <1>3, MintedTokens DEF Reminting

LEMMA OutsideTokens ==
  ASSUME Typed, TokenInv, NEW e \in Email,
         \/ WakeUp(e) \/ Expire(e) \/ Revoke(e)
         \/ \E health \in {"active", "disabled"} : SetHealth(e, health)
  PROVE  TokenInv'
<1>1. CASE WakeUp(e) \/ \E health \in {"active", "disabled"} : SetHealth(e, health)
  <2>1. Undisturbed
    BY <1>1, RowMarks DEF Typed, Marked
  <2> QED
    BY <1>1, <2>1, RowsQuiet DEF WakeUp, SetHealth, ready, loops, upstream, harm
<1>2. CASE Expire(e)
  BY <1>2, RowsQuiet DEF Expire, Undisturbed, rows, ready, loops, harm
<1>3. CASE Revoke(e)
  <2>1. Undisturbed
    BY <1>3 DEF Revoke, rows, Undisturbed
  <2>2. Stored' = Stored /\ Asking' = Asking /\ Taken' = Taken
        /\ Trying' = Trying /\ Tried' = Tried
    BY <1>3, <2>1, StoredStays, PlacesStay, JobsStay DEF Revoke, requests, loops
  <2>3. Known' = Known /\ Work' = Work
    BY <1>3, <2>2 DEF Known, Work, Revoke, ready
  <2> QED
    BY <1>3, <2>3, TokensRevoked DEF Revoke, rows
<1> QED
  BY <1>1, <1>2, <1>3

LEMMA CrashTokens ==
  ASSUME Typed, TokenInv, Crash
  PROVE  TokenInv'
<1>1. Undisturbed /\ UNCHANGED <<db, valid, issued>> /\ lost' = lost \cup Unsaved
  BY DEF Crash, Undisturbed, rows, upstream
<1>2. Stored' = Stored
  BY <1>1, StoredStays
<1>3. Asking' = {} /\ Taken' = {}
  BY DEF Crash, Asking, Taken
<1>4. Trying' = {} /\ Tried' = {}
  <2>1. \A p \in Prober : jobs'[p] = {}
    BY DEF Crash
  <2> QED
    BY <2>1 DEF Trying, Tried
<1>5. queue' = {}
  BY DEF Crash
<1>6. Known' \subseteq Known /\ Work' = {}
  BY <1>2, <1>3, <1>4, <1>5 DEF Known, Work
<1> QED
  BY <1>1, <1>6, WorkUnsaved, TokensCrash

LEMMA TokenInit == Init => TokenInv
<1> SUFFICES ASSUME Init
             PROVE  TokenInv
  OBVIOUS
<1>1. Asking = {} /\ Taken = {} /\ queue = {}
  BY DEF Init, Asking, Taken
<1>2. Trying = {} /\ Tried = {}
  BY DEF Init, Trying, Tried
<1>3. Work = {} /\ Known = Stored
  BY <1>1, <1>2 DEF Work, Known
<1>4. \A e \in Email : db[e].gen = 1 /\ db[e].token = 1 /\ valid[e] = {1} /\ issued[e] = 1
  BY DEF Init
<1>5. \A a \in Stored : a.email \in Email /\ a.gen = 1 /\ a.token = 1
  BY <1>4 DEF Stored, Snapshot
<1> QED
  BY <1>3, <1>4, <1>5 DEF TokenInv, Bounded, OneGen, Secret, Good, Kept

LEMMA TokenStep == Typed /\ TokenInv /\ [Next]_vars => TokenInv'
<1> SUFFICES ASSUME Typed, TokenInv, [Next]_vars
             PROVE  TokenInv'
  OBVIOUS
<1>1. CASE UNCHANGED vars
  BY <1>1, RowsQuiet DEF vars, rows, ready, loops, upstream, harm, Undisturbed
<1>2. ASSUME NEW p \in Prober, Probing(p)
      PROVE  TokenInv'
  BY <1>2, PassTokens, ProbeExchangeTokens, ProbeSavesTokens, ProbeFailsTokens,
     ProbeAnsweredTokens DEF Probing
<1> QED
  BY <1>1, <1>2, ServingTokens, CancelTokens, RemintingTokens, OutsideTokens, CrashTokens
     DEF Next

(* The refresh token of a row stays good, or a task is about to store its   *)
(* successor in this row, or a fault destroyed it.                         *)
THEOREM TokensSurvive == Spec => []TokenNeverLost
<1>1. Typed /\ TokenInv /\ [Next]_vars => Typed' /\ TokenInv'
  BY TypedStep, TokenStep
<1>2. TokenInv => TokenNeverLost
  BY WorkUnsaved DEF TokenInv, Kept, TokenNeverLost
<1> QED
  BY <1>1, <1>2, TypedInit, TokenInit, PTL DEF Spec

=============================================================================
