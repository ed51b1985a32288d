--------------------------- MODULE SimplifiedPool ---------------------------
(***************************************************************************)
(* grok-pool's SimplifiedPool: the in-memory pool of grok_web accounts     *)
(* behind the chat and image engines.  Every method is one critical        *)
(* section of the RwLock around Inner, so every method is one action.      *)
(*                                                                         *)
(* Time.  cooldown_until[a] holds what is left of a's cooldown, 0 when     *)
(* there is none or it has run out, so the code's "until > now" reads      *)
(* "cooldown_until[a] > 0" and Tick takes one unit off everybody.          *)
(*                                                                         *)
(* Left out: success_count and failure_count (nothing but the metrics      *)
(* reads them) and the account rows beyond their id.  rl_failure_count     *)
(* stops at RlSteps because the backoff tells no larger counts apart.      *)
(***************************************************************************)
EXTENDS Integers, FiniteSets

CONSTANTS Account,       \* account ids; the smaller id wins a tie
          None,          \* Rust's Option::None where an id is expected
          FailCooldown,  \* cooldown after an ordinary failure (2s)
          RlBase,        \* first rate-limit backoff (60s)
          RlCap,         \* backoff cap (300s)
          StoreCooldown, \* what can be left of a cooldown stored in PG
          MaxSeq         \* bound: selections in one behaviour

ASSUME AccountAssumption == Account \subseteq Int /\ None \notin Account

ASSUME TimeAssumption ==
  /\ FailCooldown \in Nat \ {0}
  /\ RlBase \in Nat \ {0}
  /\ RlCap \in Nat \ {0}
  /\ StoreCooldown \subseteq Nat
  /\ MaxSeq \in Nat

VARIABLES accounts,          \* ids in the pool
          pin,               \* the pinned id, or None
          cooldown_until,    \* what is left of each id's cooldown
          rl_failure_count,  \* consecutive 429/403 answers
          select_seq,        \* number of the last selection
          last_selected_seq, \* its number when each id was last selected
          last_reconciled_at \* has a load or reconcile succeeded?

rotation == <<select_seq, last_selected_seq>>
books == <<cooldown_until, rl_failure_count>>
poolVars == <<accounts, pin, books, rotation, last_reconciled_at>>

Larger(m, n) == IF m > n THEN m ELSE n
Lesser(m, n) == IF m < n THEN m ELSE n

-----------------------------------------------------------------------------
(* Backoff after n consecutive rate limits: RlBase << min(n - 1, 2), at    *)
(* most RlCap.                                                             *)
RlSteps == 3
Backoff(n) == Lesser(RlBase * (<<1, 2, 4>>[n]), RlCap)

PoolInit ==
  /\ accounts = {}
  /\ pin = None
  /\ cooldown_until = [a \in Account |-> 0]
  /\ rl_failure_count = [a \in Account |-> 0]
  /\ select_seq = 0
  /\ last_selected_seq = [a \in Account |-> 0]
  /\ last_reconciled_at = FALSE

LoadAgain(listed) ==  \* mutant: a timer calls load, as docs/44 A.3 warns
  /\ accounts' = listed
  /\ cooldown_until' = [a \in Account |-> 0]
  /\ rl_failure_count' = [a \in Account |-> 0]
  /\ select_seq' = 0
  /\ last_selected_seq' = [a \in Account |-> 0]
  /\ last_reconciled_at' = TRUE
  /\ UNCHANGED pin

(* load: called once, before the server accepts requests.                  *)
Load(listed) ==
  /\ ~last_reconciled_at
  /\ accounts' = listed
  /\ cooldown_until' = [a \in Account |-> 0]
  /\ rl_failure_count' = [a \in Account |-> 0]
  /\ select_seq' = 0
  /\ last_selected_seq' = [a \in Account |-> 0]
  /\ last_reconciled_at' = TRUE
  /\ UNCHANGED pin

StoreWins(listed, stored) ==  \* mutant: the stored cooldown replaces the other
  [a \in Account |->
     IF a \in listed THEN stored[a]
     ELSE IF a \in accounts THEN 0 ELSE cooldown_until[a]]

(* reconcile, once list_pool has returned the enabled ids and what is left *)
(* of their stored cooldowns.                                              *)
MergedCooldown(listed, stored) ==
  [a \in Account |->
     LET kept == IF a \in accounts \ listed THEN 0 ELSE cooldown_until[a]
     IN  IF a \in listed THEN Larger(kept, stored[a]) ELSE kept]

Reconcile(listed, stored) ==
  LET removed == accounts \ listed IN
  /\ accounts' = listed
  /\ cooldown_until' = MergedCooldown(listed, stored)
  /\ rl_failure_count' =
       [a \in Account |-> IF a \in removed THEN 0 ELSE rl_failure_count[a]]
  /\ last_selected_seq' =
       [a \in Account |-> IF a \in removed THEN 0 ELSE last_selected_seq[a]]
  /\ pin' = IF pin \in listed THEN pin ELSE None
  /\ last_reconciled_at' = TRUE
  /\ UNCHANGED select_seq

SetPin(a) ==
  /\ pin' = a
  /\ UNCHANGED <<accounts, books, rotation, last_reconciled_at>>

Unpin ==
  /\ pin' = None
  /\ UNCHANGED <<accounts, books, rotation, last_reconciled_at>>

(* select_skip: the pinned account if it is eligible, else the one that    *)
(* was selected longest ago.                                               *)
Eligible(exclude, skip) ==
  {a \in accounts : a # exclude /\ a \notin skip /\ cooldown_until[a] = 0}

Before(a, b) ==
  \/ last_selected_seq[a] < last_selected_seq[b]
  \/ last_selected_seq[a] = last_selected_seq[b] /\ a <= b

IsChoice(a, eligible) ==
  /\ a \in eligible
  /\ IF pin \in eligible THEN a = pin ELSE \A b \in eligible : Before(a, b)

MarkOnly(a) ==  \* mutant: the number is noted but not used up
  /\ select_seq < MaxSeq
  /\ select_seq' = select_seq
  /\ last_selected_seq' = [last_selected_seq EXCEPT ![a] = select_seq + 1]

MarkSelected(a) ==
  /\ select_seq < MaxSeq
  /\ select_seq' = select_seq + 1
  /\ last_selected_seq' = [last_selected_seq EXCEPT ![a] = select_seq + 1]

Select(a, exclude, skip) ==
  /\ IsChoice(a, Eligible(exclude, skip))
  /\ MarkSelected(a)
  /\ UNCHANGED <<accounts, pin, books, last_reconciled_at>>

SelectsNobody(exclude, skip) ==
  /\ Eligible(exclude, skip) = {}
  /\ UNCHANGED poolVars

(* The three ways a request reports back.  None of them asks whether the   *)
(* account is still in the pool.                                           *)
DispatchSuccess(a) ==
  /\ rl_failure_count' = [rl_failure_count EXCEPT ![a] = 0]
  /\ UNCHANGED <<accounts, pin, cooldown_until, rotation, last_reconciled_at>>

DispatchFailure(a) ==
  /\ cooldown_until' = [cooldown_until EXCEPT ![a] = FailCooldown]
  /\ UNCHANGED <<accounts, pin, rl_failure_count, rotation, last_reconciled_at>>

DispatchRateLimited(a) ==
  LET consecutive == Lesser(rl_failure_count[a] + 1, RlSteps) IN
  /\ rl_failure_count' = [rl_failure_count EXCEPT ![a] = consecutive]
  /\ cooldown_until' = [cooldown_until EXCEPT ![a] = Backoff(consecutive)]
  /\ UNCHANGED <<accounts, pin, rotation, last_reconciled_at>>

TickPastZero ==  \* mutant: the difference to now is not clamped
  /\ \E a \in Account : cooldown_until[a] > 0
  /\ cooldown_until' = [a \in Account |-> cooldown_until[a] - 1]
  /\ UNCHANGED <<accounts, pin, rl_failure_count, rotation, last_reconciled_at>>

(* One unit of time; nothing to see when no cooldown is running.           *)
Tick ==
  /\ \E a \in Account : cooldown_until[a] > 0
  /\ cooldown_until' = [a \in Account |-> Larger(cooldown_until[a] - 1, 0)]
  /\ UNCHANGED <<accounts, pin, rl_failure_count, rotation, last_reconciled_at>>

-----------------------------------------------------------------------------
(* The pool under any callers: requests, direct dispatches to a named      *)
(* account, the dispatch probe, the pin task and the reconcile task.  All  *)
(* callers of select_skip pass None for exclude.                           *)
Report(a) ==
  DispatchSuccess(a) \/ DispatchFailure(a) \/ DispatchRateLimited(a)

PoolNext ==
  \/ \E listed \in SUBSET Account : Load(listed)
  \/ \E listed \in SUBSET Account :
       \E stored \in [listed -> StoreCooldown] : Reconcile(listed, stored)
  \/ \E a \in Account : SetPin(a)
  \/ Unpin
  \/ \E a \in Account, skip \in SUBSET Account : Select(a, None, skip)
  \/ \E a \in Account : Report(a)
  \/ Tick

PoolSpec == PoolInit /\ [][PoolNext]_poolVars

-----------------------------------------------------------------------------
TypeOK ==
  /\ accounts \in SUBSET Account
  /\ pin \in Account \cup {None}
  /\ cooldown_until \in [Account -> Nat]
  /\ rl_failure_count \in [Account -> 0..RlSteps]
  /\ select_seq \in Nat
  /\ last_selected_seq \in [Account -> Nat]
  /\ last_reconciled_at \in BOOLEAN

(* The sequence numbers can be trusted as a record of who was served when: *)
(* none is from the future, no two accounts share one, and an account      *)
(* outside the pool has none.  reconcile, load and selection in any order  *)
(* must keep all three or the rotation of lib.rs:275-285 is unfair.        *)
NoneFromFuture == \A a \in Account : last_selected_seq[a] <= select_seq

NoneShared ==
  \A a, b \in Account :
    (a # b /\ last_selected_seq[a] = last_selected_seq[b])
      => last_selected_seq[a] = 0

OutsidersUnnumbered ==
  \A a \in Account \ accounts : last_selected_seq[a] = 0

RotationSound == NoneFromFuture /\ NoneShared /\ OutsidersUnnumbered

(* reconcile is not a reload (lib.rs:117-124): an account that stays in    *)
(* the pool keeps its place in the rotation and its count of rate limits,  *)
(* and no cooldown is cut short by anything but time and a new report on   *)
(* that very account.                                                      *)
StayersKeepBooks ==
  [][last_reconciled_at =>
     \A a \in accounts \cap accounts' :
       /\ last_selected_seq'[a] >= last_selected_seq[a]
       /\ rl_failure_count'[a] < rl_failure_count[a] => DispatchSuccess(a)
       /\ cooldown_until'[a] < cooldown_until[a] => Tick \/ Report(a)]_poolVars

(* The pool keeps the promise of FairRotation.                             *)
Rotation == INSTANCE FairRotation WITH
  members <- accounts,
  resting <- {a \in Account : cooldown_until[a] > 0},
  favourite <- pin,
  owed <- {p \in Account \X Account :
             last_selected_seq[p[1]] < last_selected_seq[p[2]]},
  ever <- {a \in Account : last_selected_seq[a] > 0},
  served <- {a \in Account :
               last_selected_seq[a] > 0 /\ last_selected_seq[a] = select_seq},
  filled <- last_reconciled_at

RotationSpec == Rotation!Spec
=============================================================================
