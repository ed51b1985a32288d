---------------------------- MODULE ImageDispatch ----------------------------
(***************************************************************************)
(* How the GPT gateway dispatches an image to an account: the in-flight    *)
(* counter of the account in the database, the in-flight count of its      *)
(* binding (the proxy it goes out through), its slot and a numbered sS     *)
(* slot in the slot ledger, and the loops that reconcile all of them.      *)
(*                                                                         *)
(* A task is one call of generate_one_image or generate_one_image_edit, or *)
(* of chat_image_completions, which takes the in-flight counter alone.     *)
(* Its RAII guards follow from pc: a guard is alive between the step that  *)
(* makes it and the step that leaves its scope.  Every lock section and    *)
(* every database statement is an action.  Guards that are dropped         *)
(* together are dropped in one action, except the database's.              *)
(*                                                                         *)
(* A slot is "fresh" until it is older than its TTL, then "old".           *)
(***************************************************************************)
EXTENDS Integers, FiniteSets, SequencesExt

CONSTANTS Task,           \* image requests and task workers
          Email,          \* accounts
          Binding,        \* proxies
          BindingOf,      \* the proxy of each account
          SsSlot,         \* indices of the sS slots
          InflightMax,    \* account_inflight_max, 0 for no limit
          BindingMax,     \* image_binding_inflight_max
          BindingCeiling, \* counts above it are taken for leaks
          RetryCap,       \* IMAGE_ADMIN_RETRY_MAX
          MaxCrash        \* bound: crashes of the gateway

ASSUME DispatchAssumption ==
  /\ IsFiniteSet(Task) /\ IsFiniteSet(Email)
  /\ SsSlot # {}
  /\ BindingOf \in [Email -> Binding]
  /\ Email \cap SsSlot = {}
  /\ InflightMax \in Nat
  /\ BindingMax \in Nat \ {0} /\ BindingCeiling \in Nat
  /\ RetryCap \in Nat \ {0} /\ MaxCrash \in Nat

VARIABLES pc,       \* where each task is
          cands,    \* the accounts it may use, in order
          try,      \* its attempt
          ss,       \* its sS slot
          inflight, \* database: image_inflight of each account
          bindings, \* BindingInflightLedger.counts
          ledger,   \* SlotLedger: the slot of each account, and the sS slots
          leaked,   \* history: counts whose tasks died in a crash
          wiped,    \* history: accounts zeroed while tasks counted on them
          zeroed,   \* history: proxies zeroed while attempts ran through them
          expired,  \* history: slots removed while a task held them
          crashes

task == <<pc, cands, try, ss>>
history == <<leaked, wiped, zeroed, expired>>
vars == <<task, inflight, bindings, ledger, leaked, wiped, zeroed, expired, crashes>>

Key == Email \cup SsSlot

AtWork == {"slot", "ss", "upstream"}

Place == {"idle", "chat", "count", "uncount", "bind", "end"} \cup AtWork

Cand(t) == cands[t][try[t]]

(* image_max_attempts.  A member of the public has one candidate.          *)
Attempts(t) == IF Len(cands[t]) < RetryCap THEN Len(cands[t]) ELSE RetryCap

(* Whose guards count or hold what.  The guard of the last attempt's       *)
(* account lives until the next one has been counted.                      *)
Counts(t, e) ==
  \/ /\ pc[t] \in AtWork \cup {"chat", "uncount", "bind", "end"}
     /\ Cand(t) = e
  \/ /\ pc[t] \in {"count", "uncount"} /\ try[t] > 1
     /\ cands[t][try[t] - 1] = e

Live(e) == {t \in Task : Counts(t, e)}

Using(b) == {t \in Task : pc[t] \in AtWork /\ BindingOf[Cand(t)] = b}

Holds(t, k) ==
  \/ pc[t] \in {"ss", "upstream"} /\ Cand(t) = k
  \/ pc[t] = "upstream" /\ ss[t] = k

Holders(k) == {t \in Task : Holds(t, k)}

NoTask == [t \in Task |-> "idle"]

-----------------------------------------------------------------------------
Init ==
  /\ pc = NoTask
  /\ cands = [t \in Task |-> <<>>]
  /\ try = [t \in Task |-> 1]
  /\ ss \in [Task -> {CHOOSE i \in SsSlot : TRUE}]
  /\ inflight = [e \in Email |-> 0]
  /\ bindings = [b \in Binding |-> 0]
  /\ ledger = [k \in Key |-> "free"]
  /\ leaked = [e \in Email |-> 0]
  /\ wiped = {}
  /\ zeroed = {}
  /\ expired = {}
  /\ crashes = 0

(* reconcile_stale_inflight takes a counter above this for runaway.        *)
InflightCeiling == IF InflightMax > 0 THEN 4 * InflightMax ELSE 8

(* History.  An account is wiped while a task that the database counted    *)
(* before it was zeroed, or one that overlaps with such a task, runs on    *)
(* it; a proxy is zeroed likewise.  A slot is expired while a task that    *)
(* held it when it was removed, or one that overlaps with such a task,     *)
(* holds it.                                                               *)
Remember ==
  /\ wiped' = {e \in Email : /\ Live(e)' # {}
                             /\ \/ e \in wiped
                                \/ inflight[e] > InflightCeiling /\ inflight'[e] = 0}
  /\ zeroed' = {b \in Binding : /\ Using(b)' # {}
                                /\ \/ b \in zeroed
                                   \/ bindings[b] > BindingCeiling /\ bindings'[b] = 0}
  /\ expired' = {k \in Key : /\ Holders(k)' # {}
                             /\ \/ k \in expired
                                \/ ledger[k] = "old" /\ ledger'[k] # "old"}

(* collect_image_accounts.  The gate refuses an account that is at its     *)
(* limit, except the one an admin asks for; the last filter drops accounts *)
(* whose binding is busy.  What else it filters by, and the order, depend  *)
(* on cooldowns, quotas and chance.                                        *)
RoomForOneMore(b) == bindings[b] <= BindingMax  \* mutant: off by one
HasRoom(b) == bindings[b] < BindingMax

Schedulable(e) == InflightMax = 0 \/ inflight[e] < InflightMax

Candidates ==
  LET open == {e \in Email : HasRoom(BindingOf[e])}
      full == {e \in open : ~Schedulable(e)}
  IN {s \in UNION {SetToSeqs(S) : S \in (SUBSET open) \ {{}}} :
        Cardinality(ToSet(s) \cap full) <= 1}

Admit(t) ==
  /\ pc[t] = "idle"
  /\ \E s \in Candidates : cands' = [cands EXCEPT ![t] = s]
  /\ pc' = [pc EXCEPT ![t] = "count"]
  /\ UNCHANGED <<try, ss, inflight, bindings, ledger, leaked, crashes>> /\ Remember

(* begin_inflight: the guard of this attempt.                              *)
Count(t) ==
  /\ pc[t] = "count"
  /\ inflight' = [inflight EXCEPT ![Cand(t)] = @ + 1]
  /\ pc' = [pc EXCEPT ![t] = IF try[t] = 1 THEN "bind" ELSE "uncount"]
  /\ UNCHANGED <<cands, try, ss, bindings, ledger, leaked, crashes>> /\ Remember

(* The guard it replaces is dropped: touch_inflight(-1).                   *)
TouchDown(e) == inflight' = [inflight EXCEPT ![e] = IF @ = 0 THEN 0 ELSE @ - 1]

UncountTheNew(t) ==  \* mutant: the guard that is dropped has the new email
  /\ pc[t] = "uncount"
  /\ TouchDown(Cand(t))
  /\ pc' = [pc EXCEPT ![t] = "bind"]
  /\ UNCHANGED <<cands, try, ss, bindings, ledger, leaked, crashes>> /\ Remember

Uncount(t) ==
  /\ pc[t] = "uncount"
  /\ TouchDown(cands[t][try[t] - 1])
  /\ pc' = [pc EXCEPT ![t] = "bind"]
  /\ UNCHANGED <<cands, try, ss, bindings, ledger, leaked, crashes>> /\ Remember

(* The scope of an attempt ends: its guards on the ledger and the binding  *)
(* are dropped.  A slot is removed by its key, whoever has it now.         *)
KeepSlots(t, l) == l  \* mutant: the slots are left to the TTL
FreeSlots(t, l) == [k \in Key |-> IF Holds(t, k) THEN "free" ELSE l[k]]

KeepBinding(t) ==  \* mutant: only an attempt that got to the upstream
  bindings' = [bindings EXCEPT ![BindingOf[Cand(t)]] =
                 IF pc[t] = "upstream" /\ @ > 0 THEN @ - 1 ELSE @]
FreeBinding(t) ==
  bindings' = [bindings EXCEPT ![BindingOf[Cand(t)]] =
                 IF pc[t] \in AtWork /\ @ > 0 THEN @ - 1 ELSE @]

(* An attempt that is refused or fails: the next account, or the end.      *)
NextAttempt(t, l) ==
  /\ try[t] < Attempts(t)
  /\ try' = [try EXCEPT ![t] = @ + 1]
  /\ pc' = [pc EXCEPT ![t] = "count"]
  /\ ledger' = FreeSlots(t, l) /\ FreeBinding(t)
  /\ UNCHANGED <<cands, ss, inflight, leaked, crashes>> /\ Remember

Finish(t, l) ==
  /\ pc' = [pc EXCEPT ![t] = "end"]
  /\ ledger' = FreeSlots(t, l) /\ FreeBinding(t)
  /\ UNCHANGED <<cands, try, ss, inflight, leaked, crashes>> /\ Remember

Refused(t, l) == NextAttempt(t, l) \/ (try[t] = Attempts(t) /\ Finish(t, l))

(* binding_inflight.try_begin.                                             *)
Bind(t) ==
  /\ pc[t] = "bind" /\ HasRoom(BindingOf[Cand(t)])
  /\ bindings' = [bindings EXCEPT ![BindingOf[Cand(t)]] = @ + 1]
  /\ pc' = [pc EXCEPT ![t] = "slot"]
  /\ UNCHANGED <<cands, try, ss, inflight, ledger, leaked, crashes>> /\ Remember

BindingBusy(t) ==
  pc[t] = "bind" /\ ~HasRoom(BindingOf[Cand(t)]) /\ Refused(t, ledger)

(* slot_ledger.try_acquire_account.                                        *)
TakeAccount(t) ==
  /\ pc[t] = "slot" /\ ledger[Cand(t)] = "free"
  /\ ledger' = [ledger EXCEPT ![Cand(t)] = "fresh"]
  /\ pc' = [pc EXCEPT ![t] = "ss"]
  /\ UNCHANGED <<cands, try, ss, inflight, bindings, leaked, crashes>> /\ Remember

AccountBusy(t) == pc[t] = "slot" /\ ledger[Cand(t)] # "free" /\ Refused(t, ledger)

(* watchdog_tick(false), by the loop and by every try_acquire_ss.          *)
EvictHeld(l) ==  \* mutant: as watchdog_tick(true)
  [k \in Key |-> "free"]
Evict(l) == [k \in Key |-> IF l[k] = "old" THEN "free" ELSE l[k]]

(* slot_ledger.try_acquire_ss.  The round robin picks one of the free      *)
(* indices; here any of them.                                              *)
TakeSs(t) ==
  /\ pc[t] = "ss"
  /\ \E i \in SsSlot : /\ Evict(ledger)[i] = "free"
                       /\ ledger' = [Evict(ledger) EXCEPT ![i] = "fresh"]
                       /\ ss' = [ss EXCEPT ![t] = i]
  /\ pc' = [pc EXCEPT ![t] = "upstream"]
  /\ UNCHANGED <<cands, try, inflight, bindings, leaked, crashes>> /\ Remember

SsBusy(t) ==
  /\ pc[t] = "ss" /\ \A i \in SsSlot : Evict(ledger)[i] # "free"
  /\ Refused(t, Evict(ledger))

(* run_upstream_image ends: with an image, with an error that is final, or *)
(* with one that another account may not have.                             *)
Answer(t) == pc[t] = "upstream" /\ Finish(t, ledger)

Retry(t) == pc[t] = "upstream" /\ NextAttempt(t, ledger)

(* The future is dropped at an await: the pause before a retry, or the     *)
(* upstream call.                                                          *)
Cancel(t) ==
  /\ \/ pc[t] = "slot" /\ try[t] > 1
     \/ pc[t] = "upstream"
  /\ Finish(t, ledger)

(* The in-flight guard goes when the function returns.  The handler of a   *)
(* batch calls it again, with the same candidates from another start.      *)
Rotations(s) ==
  {[i \in 1 .. Len(s) |-> IF i + n <= Len(s) THEN s[i + n] ELSE s[i + n - Len(s)]] :
     n \in 0 .. Len(s) - 1}

End(t) ==
  /\ pc[t] = "end"
  /\ TouchDown(Cand(t))
  /\ try' = [try EXCEPT ![t] = 1]
  /\ \/ /\ pc' = [pc EXCEPT ![t] = "idle"]
        /\ cands' = [cands EXCEPT ![t] = <<>>]
     \/ /\ pc' = [pc EXCEPT ![t] = "count"]
        /\ \E s \in Rotations(cands[t]) : cands' = [cands EXCEPT ![t] = s]
  /\ UNCHANGED <<ss, bindings, ledger, leaked, crashes>> /\ Remember

(* chat_image_completions: an account the request names or the pick        *)
(* chooses goes upstream under the in-flight guard alone.  The guard goes  *)
(* when the function returns or its future is dropped.                     *)
ChatImage(t) ==
  /\ pc[t] = "idle"
  /\ \E e \in Email : /\ cands' = [cands EXCEPT ![t] = <<e>>]
                      /\ inflight' = [inflight EXCEPT ![e] = @ + 1]
  /\ pc' = [pc EXCEPT ![t] = "chat"]
  /\ UNCHANGED <<try, ss, bindings, ledger, leaked, crashes>> /\ Remember

ChatImageEnds(t) ==
  /\ pc[t] = "chat"
  /\ TouchDown(Cand(t))
  /\ pc' = [pc EXCEPT ![t] = "idle"]
  /\ cands' = [cands EXCEPT ![t] = <<>>]
  /\ UNCHANGED <<try, ss, bindings, ledger, leaked, crashes>> /\ Remember

Step(t) ==
  \/ Admit(t) \/ ChatImage(t) \/ ChatImageEnds(t) \/ Count(t) \/ Uncount(t)
  \/ Bind(t) \/ BindingBusy(t) \/ TakeAccount(t) \/ AccountBusy(t) \/ TakeSs(t) \/ SsBusy(t)
  \/ Answer(t) \/ Retry(t) \/ Cancel(t) \/ End(t)

-----------------------------------------------------------------------------
(* The reconcile loop, one ledger at a time, and time.                     *)
Clamped == [e \in Email |-> IF inflight[e] > InflightCeiling THEN 0 ELSE inflight[e]]

ReconcileInflight ==
  /\ inflight' = Clamped
  /\ leaked' = [e \in Email |-> IF inflight'[e] = inflight[e] THEN leaked[e] ELSE 0]
  /\ UNCHANGED <<task, bindings, ledger, crashes>> /\ Remember

ReconcileBindings ==
  /\ bindings' = [b \in Binding |-> IF bindings[b] > BindingCeiling THEN 0 ELSE bindings[b]]
  /\ UNCHANGED <<task, inflight, ledger, leaked, crashes>> /\ Remember

Watchdog ==
  /\ ledger' = Evict(ledger)
  /\ UNCHANGED <<task, inflight, bindings, leaked, crashes>> /\ Remember

Age(k) ==
  /\ ledger[k] = "fresh"
  /\ ledger' = [ledger EXCEPT ![k] = "old"]
  /\ UNCHANGED <<task, inflight, bindings, leaked, crashes>> /\ Remember

(* The gateway dies and starts: what is in the database remains, and is    *)
(* reconciled by from_backend.                                             *)
Crash ==
  /\ crashes < MaxCrash
  /\ crashes' = crashes + 1
  /\ pc' = NoTask
  /\ cands' = [t \in Task |-> <<>>]
  /\ try' = [t \in Task |-> 1]
  /\ bindings' = [b \in Binding |-> 0]
  /\ ledger' = [k \in Key |-> "free"]
  /\ inflight' = Clamped
  /\ leaked' = Clamped
  /\ UNCHANGED ss /\ Remember

Next ==
  \/ \E t \in Task : Step(t)
  \/ ReconcileInflight \/ ReconcileBindings \/ Watchdog \/ Crash
  \/ \E k \in Key : Age(k)

Spec == Init /\ [][Next]_vars

-----------------------------------------------------------------------------
TypeOK ==
  /\ pc \in [Task -> Place]
  /\ cands \in [Task -> Seq(Email)]
  /\ try \in [Task -> 1 .. RetryCap]
  /\ \A t \in Task : pc[t] # "idle" => try[t] <= Len(cands[t])
  /\ ss \in [Task -> SsSlot]
  /\ inflight \in [Email -> Nat]
  /\ bindings \in [Binding -> 0 .. BindingMax]
  /\ ledger \in [Key -> {"free", "fresh", "old"}]
  /\ leaked \in [Email -> Nat]
  /\ wiped \subseteq Email
  /\ zeroed \subseteq Binding
  /\ expired \subseteq Key
  /\ crashes \in 0 .. MaxCrash

(* What is counted on a proxy is what runs through it, whichever way the   *)
(* attempts before ended: refused halfway, failed, cancelled, cut off by a *)
(* crash, or outlived by their slots.  So BindingMax attempts share a      *)
(* proxy, and none is refused for one that is over.  Only after the        *)
(* reconcile loop, whose ceiling is fixed while the limit is configured,   *)
(* has taken running attempts for a leak does it count too few, and only   *)
(* until those, and all that overlap with them, are over.                  *)
BindingsAccounted ==
  \A b \in Binding : IF b \in zeroed THEN bindings[b] <= Cardinality(Using(b))
                     ELSE bindings[b] = Cardinality(Using(b))

(* The database counts an account's tasks and what crashes have left       *)
(* behind.  Only after the reconciler has zeroed a counter with tasks on   *)
(* it does it count too few, and only until those, and all that overlap    *)
(* with them, are over.                                                    *)
InflightAccounted ==
  \A e \in Email : IF e \in wiped THEN inflight[e] <= Cardinality(Live(e))
                   ELSE inflight[e] = Cardinality(Live(e)) + leaked[e]

(* A slot that is taken has a task that will give it back, although a task *)
(* that outlived its slot gives back one that belongs to somebody else.    *)
NoStuckSlot == \A k \in Key : ledger[k] # "free" => Holders(k) # {}

(* An account, and an sS slot, is shared by two attempts only if its slot  *)
(* has expired under an attempt and the attempts overlap ever since: as    *)
(* soon as all of them are over, the slot is exclusive again.              *)
SharedOnlyAfterExpiry ==
  \A k \in Key \ expired : /\ \A t, u \in Holders(k) : t = u
                           /\ Holders(k) # {} => ledger[k] # "free"
=============================================================================
