------------------------ MODULE SimplifiedPool_proofs ------------------------
(***************************************************************************)
(* Proofs about SimplifiedPool, for every set of accounts, every choice of *)
(* durations and every bound on the number of selections.                  *)
(***************************************************************************)
EXTENDS SimplifiedPool, TLAPS

(* A backoff is a positive number of time units, whatever the durations.   *)
LEMMA BackoffPositive ==
  ASSUME NEW n \in 1..RlSteps
  PROVE  Backoff(n) \in Nat \ {0}
<1>1. n \in {1, 2, 3}
  BY DEF RlSteps
<1>2. <<1, 2, 4>>[n] \in {1, 2, 4}
  BY <1>1
<1>3. RlBase * (<<1, 2, 4>>[n]) \in Nat \ {0}
  BY <1>2, TimeAssumption
<1> QED
  BY <1>3, TimeAssumption DEF Backoff, Lesser

-----------------------------------------------------------------------------
(* Type correctness, step by step.                                         *)
LEMMA TypeInit == PoolInit => TypeOK
<1> SUFFICES ASSUME PoolInit
             PROVE  TypeOK
  OBVIOUS
<1>1. last_reconciled_at \in BOOLEAN
  BY Zenon DEF PoolInit
<1> QED
  BY <1>1 DEF PoolInit, TypeOK, RlSteps

(* No operation takes the pool out of its types.                           *)
LEMMA TypeStep == TypeOK /\ [PoolNext]_poolVars => TypeOK'
<1> SUFFICES ASSUME TypeOK, [PoolNext]_poolVars
             PROVE  TypeOK'
  OBVIOUS
<1> USE DEF TypeOK
<1>1. ASSUME NEW listed \in SUBSET Account, Load(listed)
      PROVE  TypeOK'
  BY <1>1 DEF Load, RlSteps
<1>2. ASSUME NEW listed \in SUBSET Account,
             NEW stored \in [listed -> StoreCooldown],
             Reconcile(listed, stored)
      PROVE  TypeOK'
  <2>1. \A a \in listed : stored[a] \in Nat
    BY TimeAssumption
  <2>2. cooldown_until' \in [Account -> Nat]
    BY <1>2, <2>1 DEF Reconcile, MergedCooldown, Larger
  <2>3. rl_failure_count' \in [Account -> 0..RlSteps]
    BY <1>2 DEF Reconcile, RlSteps
  <2>4. last_selected_seq' \in [Account -> Nat]
    BY <1>2 DEF Reconcile
  <2> QED
    BY <1>2, <2>2, <2>3, <2>4 DEF Reconcile
<1>3. ASSUME NEW a \in Account, SetPin(a)
      PROVE  TypeOK'
  BY <1>3 DEF SetPin, books, rotation
<1>4. CASE Unpin
  BY <1>4 DEF Unpin, books, rotation
<1>5. ASSUME NEW a \in Account, NEW skip \in SUBSET Account,
             Select(a, None, skip)
      PROVE  TypeOK'
  BY <1>5 DEF Select, MarkSelected, books
<1>6. ASSUME NEW a \in Account, Report(a)
      PROVE  TypeOK'
  <2>1. CASE DispatchSuccess(a)
    BY <2>1 DEF DispatchSuccess, rotation, RlSteps
  <2>2. CASE DispatchFailure(a)
    BY <2>2, TimeAssumption DEF DispatchFailure, rotation
  <2>3. CASE DispatchRateLimited(a)
    <3> DEFINE n == Lesser(rl_failure_count[a] + 1, RlSteps)
    <3>1. n \in 1..RlSteps
      BY DEF Lesser, RlSteps
    <3>2. Backoff(n) \in Nat
      BY <3>1, BackoffPositive
    <3> HIDE DEF n
    <3>3. n \in 0..RlSteps
      BY <3>1 DEF RlSteps
    <3>4. /\ rl_failure_count' = [rl_failure_count EXCEPT ![a] = n]
          /\ cooldown_until' = [cooldown_until EXCEPT ![a] = Backoff(n)]
          /\ UNCHANGED <<accounts, pin, select_seq, last_selected_seq,
                         last_reconciled_at>>
      BY <2>3 DEF DispatchRateLimited, rotation, n
    <3> QED
      BY <3>2, <3>3, <3>4
  <2> QED
    BY <1>6, <2>1, <2>2, <2>3 DEF Report
<1>7. CASE Tick
  BY <1>7 DEF Tick, Larger, rotation
<1>8. CASE UNCHANGED poolVars
  BY <1>8 DEF poolVars, books, rotation
<1> QED
  BY <1>1, <1>2, <1>3, <1>4, <1>5, <1>6, <1>7, <1>8 DEF PoolNext

(* Every reachable state of the pool has the types the code declares.      *)
THEOREM TypeCorrect == PoolSpec => []TypeOK
  BY TypeInit, TypeStep, PTL DEF PoolSpec

-----------------------------------------------------------------------------
(* The sequence numbers.  RotationSound is inductive given the types.      *)
LEMMA RotationInit == PoolInit => RotationSound
  BY DEF PoolInit, RotationSound, NoneFromFuture, NoneShared, OutsidersUnnumbered

(* Every operation keeps the sequence numbers a record of who was served.  *)
LEMMA RotationStep ==
  TypeOK /\ RotationSound /\ [PoolNext]_poolVars => RotationSound'
<1> SUFFICES ASSUME TypeOK, RotationSound, [PoolNext]_poolVars
             PROVE  RotationSound'
  OBVIOUS
<1> USE DEF TypeOK, RotationSound, NoneFromFuture, NoneShared, OutsidersUnnumbered
<1>1. ASSUME NEW listed \in SUBSET Account, Load(listed)
      PROVE  RotationSound'
  BY <1>1 DEF Load
<1>2. ASSUME NEW listed \in SUBSET Account,
             NEW stored \in [listed -> StoreCooldown],
             Reconcile(listed, stored)
      PROVE  RotationSound'
  <2>1. \A a \in Account :
          last_selected_seq'[a] =
            IF a \in accounts \ listed THEN 0 ELSE last_selected_seq[a]
    BY <1>2 DEF Reconcile
  <2>2. select_seq' = select_seq /\ accounts' = listed
    BY <1>2 DEF Reconcile
  <2> QED
    BY <2>1, <2>2
<1>3. ASSUME NEW a \in Account, NEW skip \in SUBSET Account,
             Select(a, None, skip)
      PROVE  RotationSound'
  <2>1. a \in accounts
    BY <1>3 DEF Select, IsChoice, Eligible
  <2> QED
    BY <1>3, <2>1 DEF Select, MarkSelected, books
<1>4. ASSUME UNCHANGED <<accounts, rotation>>
      PROVE  RotationSound'
  BY <1>4 DEF rotation
<1>5. CASE \/ \E a \in Account : SetPin(a) \/ Report(a)
           \/ Unpin \/ Tick \/ UNCHANGED poolVars
  BY <1>4, <1>5
  DEF SetPin, Unpin, Report, DispatchSuccess, DispatchFailure,
      DispatchRateLimited, Tick, poolVars
<1> QED
  BY <1>1, <1>2, <1>3, <1>5 DEF PoolNext

(* The rotation's records stay sound however load, reconcile, selection,   *)
(* pinning and reports interleave.                                         *)
THEOREM RotationCorrect == PoolSpec => []RotationSound
  BY TypeCorrect, RotationInit, RotationStep, PTL DEF PoolSpec

-----------------------------------------------------------------------------
(* reconcile and every other operation but a reload spare the books of the *)
(* accounts that stay.                                                     *)
LEMMA BooksStep ==
  ASSUME TypeOK, RotationSound, PoolNext, last_reconciled_at,
         NEW x \in accounts \cap accounts'
  PROVE  /\ last_selected_seq'[x] >= last_selected_seq[x]
         /\ rl_failure_count'[x] < rl_failure_count[x] => DispatchSuccess(x)
         /\ cooldown_until'[x] < cooldown_until[x] => Tick \/ Report(x)
<1> USE DEF TypeOK
<1> DEFINE Kept ==
      /\ last_selected_seq'[x] >= last_selected_seq[x]
      /\ rl_failure_count'[x] < rl_failure_count[x] => DispatchSuccess(x)
      /\ cooldown_until'[x] < cooldown_until[x] => Tick \/ Report(x)
<1>0. x \in Account
  OBVIOUS
<1>1. ASSUME NEW listed \in SUBSET Account, Load(listed)
      PROVE  Kept
  BY <1>1 DEF Load
<1>2. ASSUME NEW listed \in SUBSET Account,
             NEW stored \in [listed -> StoreCooldown],
             Reconcile(listed, stored)
      PROVE  Kept
  <2>1. x \in listed
    BY <1>2 DEF Reconcile
  <2>2. stored[x] \in Nat
    BY <2>1, TimeAssumption
  <2> QED
    BY <1>0, <1>2, <2>1, <2>2
    DEF Reconcile, MergedCooldown, Larger, RlSteps
<1>3. ASSUME NEW a \in Account, SetPin(a)
      PROVE  Kept
  BY <1>0, <1>3 DEF SetPin, books, rotation, RlSteps
<1>4. CASE Unpin
  BY <1>0, <1>4 DEF Unpin, books, rotation, RlSteps
<1>5. ASSUME NEW a \in Account, NEW skip \in SUBSET Account,
             Select(a, None, skip)
      PROVE  Kept
  BY <1>0, <1>5
  DEF Select, MarkSelected, books, RlSteps, RotationSound, NoneFromFuture
<1>6. ASSUME NEW a \in Account, Report(a)
      PROVE  Kept
  <2>1. last_selected_seq'[x] >= last_selected_seq[x]
    <3>1. UNCHANGED rotation
      BY <1>6
      DEF Report, DispatchSuccess, DispatchFailure, DispatchRateLimited
    <3> QED
      BY <1>0, <3>1 DEF rotation
  <2>2. ASSUME rl_failure_count'[x] < rl_failure_count[x]
        PROVE  DispatchSuccess(x)
    <3>1. CASE DispatchFailure(a)
      BY <1>0, <2>2, <3>1 DEF DispatchFailure, RlSteps
    <3>2. CASE DispatchRateLimited(a)
      BY <1>0, <2>2, <3>2 DEF DispatchRateLimited, Lesser, RlSteps
    <3>3. CASE DispatchSuccess(a)
      <4>1. a = x
        BY <1>0, <2>2, <3>3 DEF DispatchSuccess, RlSteps
      <4> QED
        BY <3>3, <4>1
    <3> QED
      BY <1>6, <3>1, <3>2, <3>3 DEF Report
  <2>3. ASSUME cooldown_until'[x] < cooldown_until[x]
        PROVE  Report(x)
    <3>1. \/ UNCHANGED cooldown_until
          \/ \E d : cooldown_until' = [cooldown_until EXCEPT ![a] = d]
      BY <1>6
      DEF Report, DispatchSuccess, DispatchFailure, DispatchRateLimited
    <3>2. a = x
      BY <1>0, <2>3, <3>1
    <3> QED
      BY <1>6, <3>2
  <2> QED
    BY <2>1, <2>2, <2>3
<1>7. CASE Tick
  BY <1>0, <1>7 DEF Tick, rotation, RlSteps
<1> QED
  BY <1>1, <1>2, <1>3, <1>4, <1>5, <1>6, <1>7
  DEF PoolNext

(* A reconcile, a selection, a pin or the passing of time never costs an   *)
(* account that stays its place, its strikes or its cooldown (lib.rs:117-124). *)
THEOREM BooksKept == PoolSpec => StayersKeepBooks
<1>1. TypeOK /\ RotationSound /\ [PoolNext]_poolVars =>
        [last_reconciled_at =>
          \A a \in accounts \cap accounts' :
            /\ last_selected_seq'[a] >= last_selected_seq[a]
            /\ rl_failure_count'[a] < rl_failure_count[a] => DispatchSuccess(a)
            /\ cooldown_until'[a] < cooldown_until[a] => Tick \/ Report(a)]_poolVars
  BY BooksStep
<1> QED
  BY <1>1, TypeCorrect, RotationCorrect, PTL DEF PoolSpec, StayersKeepBooks

-----------------------------------------------------------------------------
(* The pool implements FairRotation.  What FairRotation sees of the pool,  *)
(* under the names the proof uses:                                         *)
Resting == {a \in Account : cooldown_until[a] > 0}
Owed == {p \in Account \X Account :
           last_selected_seq[p[1]] < last_selected_seq[p[2]]}
Ever == {a \in Account : last_selected_seq[a] > 0}
Served == {a \in Account :
             last_selected_seq[a] > 0 /\ last_selected_seq[a] = select_seq}

(* The empty pool owes nobody a turn.                                      *)
LEMMA RefInit == PoolInit => Rotation!Init
  BY DEF PoolInit, Rotation!Init

(* A selection serves the account FairRotation lets the caller have.       *)
LEMMA RefSelect ==
  ASSUME TypeOK, RotationSound,
         NEW c \in Account, NEW skip \in SUBSET Account,
         Select(c, None, skip)
  PROVE  Rotation!Serve(c, skip)
<1> USE AccountAssumption DEF TypeOK, Select, MarkSelected
<1>1. Eligible(None, skip) = Rotation!Ready(skip)
  <2>1. ASSUME NEW a \in accounts
        PROVE  cooldown_until[a] = 0 <=> ~(cooldown_until[a] > 0)
    OBVIOUS
  <2>2. \A a \in accounts : a # None /\ a \in Account
    OBVIOUS
  <2> QED
    BY <2>1, <2>2 DEF Eligible, Rotation!Ready
<1>2. c \in Rotation!Ready(skip)
  BY <1>1 DEF IsChoice
<1>3. pin \in Rotation!Ready(skip) => c = pin
  BY <1>1 DEF IsChoice
<1>4. c = pin \/ \A a \in Rotation!Ready(skip) : <<a, c>> \notin Owed
  <2> SUFFICES ASSUME c # pin, NEW a \in Rotation!Ready(skip)
               PROVE  <<a, c>> \notin Owed
    OBVIOUS
  <2>1. Before(c, a)
    BY <1>1 DEF IsChoice
  <2>2. a \in Account
    BY DEF Rotation!Ready
  <2> QED
    BY <2>1, <2>2 DEF Before, Owed
<1>5. \A a \in Account :
        /\ last_selected_seq'[a] =
             IF a = c THEN select_seq + 1 ELSE last_selected_seq[a]
        /\ last_selected_seq[a] \in Nat
        /\ last_selected_seq[a] <= select_seq
  BY DEF RotationSound, NoneFromFuture
<1>6. select_seq' = select_seq + 1 /\ select_seq \in Nat
  OBVIOUS
<1>7. Owed' = {p \in Owed : p[1] # c} \cup ((Account \ {c}) \X {c})
  <2>1. ASSUME NEW a \in Account, NEW b \in Account
        PROVE  <<a, b>> \in Owed' <=>
                 (a # c /\ <<a, b>> \in Owed) \/ (a # c /\ b = c)
    BY <1>5, <1>6 DEF Owed
  <2> QED
    BY <2>1 DEF Owed
<1>8. Ever' = Ever \cup {c}
  BY <1>5, <1>6 DEF Ever
<1>9. Served' = {c}
  <2>1. ASSUME NEW a \in Account
        PROVE  a = c <=> last_selected_seq'[a] > 0
                           /\ last_selected_seq'[a] = select_seq'
    BY <1>5, <1>6
  <2> QED
    BY <2>1 DEF Served
<1>10. Resting' = Resting /\ UNCHANGED <<accounts, pin, last_reconciled_at>>
  BY DEF Resting, books
<1> QED
  BY <1>2, <1>3, <1>4, <1>7, <1>8, <1>9, <1>10
  DEF Rotation!Serve, Owed, Ever, Served, Resting

(* A reconcile follows the store.                                          *)
LEMMA RefReconcile ==
  ASSUME TypeOK, RotationSound,
         NEW listed \in SUBSET Account,
         NEW stored \in [listed -> StoreCooldown],
         Reconcile(listed, stored)
  PROVE  Rotation!Follow(listed)
<1> DEFINE gone == accounts \ listed
<1>1. \A a \in Account :
        /\ last_selected_seq'[a] = IF a \in gone THEN 0 ELSE last_selected_seq[a]
        /\ last_selected_seq[a] \in Nat
        /\ cooldown_until[a] \in Nat
        /\ cooldown_until'[a] =
             LET kept == IF a \in gone THEN 0 ELSE cooldown_until[a]
             IN  IF a \in listed THEN Larger(kept, stored[a]) ELSE kept
  BY DEF Reconcile, MergedCooldown, TypeOK
<1>2. select_seq' = select_seq
  BY DEF Reconcile
<1>3. gone \subseteq Account
  BY DEF TypeOK
<1>4. Owed' = {p \in Owed : p[1] \notin gone /\ p[2] \notin gone}
                \cup (gone \X (Ever \ gone))
  <2>1. ASSUME NEW a \in Account, NEW b \in Account
        PROVE  <<a, b>> \in Owed' <=>
                 \/ <<a, b>> \in Owed /\ a \notin gone /\ b \notin gone
                 \/ a \in gone /\ b \in Ever /\ b \notin gone
    BY <1>1 DEF Owed, Ever
  <2> QED
    BY <1>3, <2>1 DEF Owed, Ever
<1>5. Ever' = Ever \ gone
  BY <1>1 DEF Ever
<1>6. Served' = Served \ gone
  BY <1>1, <1>2 DEF Served
<1>7. \E more \in SUBSET listed : Resting' = (Resting \ gone) \cup more
  <2> DEFINE more == {a \in listed : cooldown_until'[a] > 0}
  <2>1. \A a \in listed : stored[a] \in Nat
    BY TimeAssumption
  <2>2. ASSUME NEW a \in Account
        PROVE  a \in Resting' <=> (a \in Resting /\ a \notin gone) \/ a \in more
    BY <1>1, <2>1 DEF Resting, Larger
  <2>3. Resting' = (Resting \ gone) \cup more
    BY <2>2 DEF Resting
  <2> QED
    BY <2>3
<1>8. /\ accounts' = listed
      /\ pin' = IF pin \in listed THEN pin ELSE None
      /\ last_reconciled_at' = TRUE
  BY DEF Reconcile
<1> QED
  BY <1>4, <1>5, <1>6, <1>7, <1>8
  DEF Rotation!Follow, Owed, Ever, Served, Resting

(* The operations that leave the rotation alone.                           *)
LEMMA RefBooks ==
  ASSUME TypeOK, NEW a \in Account, Report(a)
  PROVE  Rotation!Rest(a) \/ UNCHANGED Rotation!vars
<1>1. UNCHANGED <<accounts, pin, rotation, last_reconciled_at>>
  BY DEF Report, DispatchSuccess, DispatchFailure, DispatchRateLimited
<1>2. UNCHANGED <<Owed, Ever, Served>>
  BY <1>1 DEF rotation, Owed, Ever, Served
<1>3. CASE DispatchSuccess(a)
  <2>1. Resting' = Resting
    BY <1>3 DEF DispatchSuccess, Resting
  <2> QED
    BY <1>1, <1>2, <2>1 DEF Rotation!vars, Owed, Ever, Served, Resting
<1>4. CASE DispatchFailure(a) \/ DispatchRateLimited(a)
  <2>1. \E d \in Nat \ {0} : cooldown_until' = [cooldown_until EXCEPT ![a] = d]
    <3>1. CASE DispatchFailure(a)
      BY <3>1, TimeAssumption DEF DispatchFailure
    <3>2. CASE DispatchRateLimited(a)
      <4> DEFINE n == Lesser(rl_failure_count[a] + 1, RlSteps)
      <4>1. n \in 1..RlSteps
        BY DEF Lesser, RlSteps, TypeOK
      <4>2. Backoff(n) \in Nat \ {0}
        BY <4>1, BackoffPositive
      <4> QED
        BY <3>2, <4>2 DEF DispatchRateLimited
    <3> QED
      BY <1>4, <3>1, <3>2
  <2>2. Resting' = Resting \cup {a}
    BY <2>1 DEF Resting, TypeOK
  <2> QED
    BY <1>1, <1>2, <2>2 DEF Rotation!Rest, Owed, Ever, Served, Resting
<1> QED
  BY <1>3, <1>4 DEF Report

(* Time wakes accounts up.                                                 *)
LEMMA RefTick ==
  ASSUME TypeOK, Tick
  PROVE  Rotation!Wake
<1>1. UNCHANGED <<accounts, pin, last_reconciled_at, Owed, Ever, Served>>
  BY DEF Tick, rotation, Owed, Ever, Served
<1>2. Resting' \in SUBSET Resting
  BY DEF Tick, Larger, Resting, TypeOK
<1> QED
  BY <1>1, <1>2 DEF Rotation!Wake, Owed, Ever, Served, Resting

(* The load at start-up fills the pool.                                    *)
LEMMA RefLoad ==
  ASSUME NEW listed \in SUBSET Account, Load(listed)
  PROVE  Rotation!Fill(listed)
<1>1. /\ accounts' = listed
      /\ ~last_reconciled_at /\ last_reconciled_at' = TRUE
      /\ pin' = pin
  BY DEF Load
<1>2. Owed' = {} /\ Ever' = {} /\ Served' = {} /\ Resting' = {}
  BY DEF Load, Owed, Ever, Served, Resting
<1> QED
  BY <1>1, <1>2 DEF Rotation!Fill, Owed, Ever, Served, Resting

(* Pinning and unpinning choose the favourite.                             *)
LEMMA RefPin ==
  ASSUME NEW a \in Account \cup {None},
         pin' = a, UNCHANGED <<accounts, books, rotation, last_reconciled_at>>
  PROVE  Rotation!Favour(a)
<1>1. UNCHANGED <<Owed, Ever, Served, Resting>>
  BY DEF books, rotation, Owed, Ever, Served, Resting
<1> QED
  BY <1>1 DEF Rotation!Favour, Owed, Ever, Served, Resting

(* Every operation of the pool is one of FairRotation, or none it can see. *)
LEMMA RefStep ==
  TypeOK /\ RotationSound /\ [PoolNext]_poolVars => [Rotation!Next]_(Rotation!vars)
<1> SUFFICES ASSUME TypeOK, RotationSound, [PoolNext]_poolVars
             PROVE  Rotation!Next \/ UNCHANGED Rotation!vars
  OBVIOUS
<1>1. ASSUME NEW listed \in SUBSET Account, Load(listed)
      PROVE  Rotation!Next
  BY <1>1, RefLoad DEF Rotation!Next
<1>2. ASSUME NEW listed \in SUBSET Account,
             NEW stored \in [listed -> StoreCooldown],
             Reconcile(listed, stored)
      PROVE  Rotation!Next
  BY <1>2, RefReconcile DEF Rotation!Next
<1>3. ASSUME NEW a \in Account, SetPin(a)
      PROVE  Rotation!Next
  BY <1>3, RefPin DEF SetPin, Rotation!Next
<1>4. CASE Unpin
  BY <1>4, RefPin DEF Unpin, Rotation!Next
<1>5. ASSUME NEW a \in Account, NEW skip \in SUBSET Account,
             Select(a, None, skip)
      PROVE  Rotation!Next
  BY <1>5, RefSelect DEF Rotation!Next
<1>6. ASSUME NEW a \in Account, Report(a)
      PROVE  Rotation!Next \/ UNCHANGED Rotation!vars
  BY <1>6, RefBooks DEF Rotation!Next
<1>7. CASE Tick
  BY <1>7, RefTick DEF Rotation!Next
<1>8. CASE UNCHANGED poolVars
  <2>1. UNCHANGED <<Owed, Ever, Served, Resting>>
    BY <1>8 DEF poolVars, books, rotation, Owed, Ever, Served, Resting
  <2> QED
    BY <1>8, <2>1 DEF poolVars, Rotation!vars, Owed, Ever, Served, Resting
<1> QED
  BY <1>1, <1>2, <1>3, <1>4, <1>5, <1>6, <1>7, <1>8 DEF PoolNext

(* Sequence numbers and cooldown deadlines keep the promise of             *)
(* FairRotation: nobody ready is passed over twice by the same account.    *)
THEOREM ImplementsRotation == PoolSpec => RotationSpec
  BY RefInit, RefStep, TypeCorrect, RotationCorrect, PTL
  DEF PoolSpec, RotationSpec, Rotation!Spec
=============================================================================
