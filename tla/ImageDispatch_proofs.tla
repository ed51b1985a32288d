------------------------ MODULE ImageDispatch_proofs ------------------------
(***************************************************************************)
(* Proofs about ImageDispatch, for any number of tasks, accounts, proxies  *)
(* and slots, and any limits.                                              *)
(***************************************************************************)
EXTENDS ImageDispatch, FiniteSetTheorems, TLAPS

(* A list of candidates names nobody twice.                                *)
CandidateList(s) ==
  /\ s \in Seq(Email)
  /\ \A i, k \in 1 .. Len(s) : s[i] = s[k] => i = k

LEMMA AdmittedList ==
  ASSUME NEW s \in Candidates
  PROVE  CandidateList(s) /\ Len(s) >= 1
<1>1. PICK S \in SUBSET Email : S # {} /\ s \in SetToSeqs(S)
  BY DEF Candidates
<1>2. IsFiniteSet(S) /\ Cardinality(S) \in Nat \ {0}
  <2>1. IsFiniteSet(S)
    BY FS_Subset, DispatchAssumption
  <2> QED
    BY <1>1, <2>1, FS_CardinalityType, FS_EmptySet
<1>3. /\ s \in [1 .. Cardinality(S) -> S]
      /\ \A i, k \in 1 .. Cardinality(S) : i # k => s[i] # s[k]
  BY <1>1 DEF SetToSeqs
<1>4. s \in Seq(Email) /\ Len(s) = Cardinality(S)
  BY <1>1, <1>2, <1>3
<1> QED
  BY <1>2, <1>3, <1>4 DEF CandidateList

LEMMA RotatedList ==
  ASSUME NEW s, CandidateList(s), NEW r \in Rotations(s)
  PROVE  CandidateList(r) /\ Len(r) = Len(s)
<1>1. PICK n \in 0 .. Len(s) - 1 :
        r = [i \in 1 .. Len(s) |-> IF i + n <= Len(s) THEN s[i + n] ELSE s[i + n - Len(s)]]
  BY DEF Rotations
<1>2. Len(s) \in Nat /\ s \in [1 .. Len(s) -> Email]
  BY DEF CandidateList
<1>3. \A i \in 1 .. Len(s) : IF i + n <= Len(s) THEN i + n \in 1 .. Len(s)
                                                 ELSE i + n - Len(s) \in 1 .. Len(s)
  BY <1>2
<1>4. r \in [1 .. Len(s) -> Email]
  BY <1>1, <1>2, <1>3
<1>5. r \in Seq(Email) /\ Len(r) = Len(s)
  BY <1>2, <1>4
<1>6. ASSUME NEW i \in 1 .. Len(s), NEW k \in 1 .. Len(s), r[i] = r[k]
      PROVE  i = k
  <2> DEFINE L == Len(s)
             j(x) == IF x + n <= L THEN x + n ELSE x + n - L
  <2>1. L \in Nat /\ n \in 0 .. L - 1
    BY <1>2
  <2>2. j(i) \in 1 .. L /\ j(k) \in 1 .. L
    BY <2>1
  <2>3. s[j(i)] = r[i] /\ s[j(k)] = r[k]
    BY <1>1
  <2>4. j(i) = j(k)
    <3> HIDE DEF j
    <3> QED
      BY <1>6, <2>2, <2>3 DEF CandidateList
  <2>5. i \in 1 .. L /\ k \in 1 .. L
    BY <1>6
  <2> HIDE DEF L
  <2> QED
    BY <2>1, <2>4, <2>5
<1> QED
  BY <1>5, <1>6 DEF CandidateList

-----------------------------------------------------------------------------
(* Type correctness, step by step.  A task that is idle or serves a chat   *)
(* has made no other attempt, and one that drops the guard of another      *)
(* attempt has made one.                                                   *)
Tidy ==
  \A t \in Task : /\ CandidateList(cands[t])
                  /\ pc[t] \in {"idle", "chat"} => try[t] = 1
                  /\ pc[t] = "uncount" => try[t] > 1

LEMMA TypeInit == Init => TypeOK /\ Tidy
<1> SUFFICES ASSUME Init
             PROVE  TypeOK /\ Tidy
  OBVIOUS
<1>1. (CHOOSE i \in SsSlot : TRUE) \in SsSlot
  BY DispatchAssumption
<1> QED
  BY <1>1, DispatchAssumption DEF Init, TypeOK, Tidy, CandidateList, NoTask, Place, AtWork

(* The account of an attempt, and of the one before, and its proxy.        *)
LEMMA CandType ==
  ASSUME TypeOK, Tidy, NEW t \in Task, pc[t] # "idle"
  PROVE  /\ cands[t] \in Seq(Email) /\ try[t] \in 1 .. Len(cands[t])
         /\ Cand(t) \in Email
         /\ BindingOf[Cand(t)] \in Binding
         /\ try[t] > 1 => cands[t][try[t] - 1] \in Email
<1>1. cands[t] \in Seq(Email) /\ try[t] \in 1 .. Len(cands[t])
  BY DEF TypeOK
<1>2. Len(cands[t]) \in Nat /\ \A i \in 1 .. Len(cands[t]) : cands[t][i] \in Email
  BY <1>1
<1> QED
  BY <1>1, <1>2, DispatchAssumption DEF Cand

(* What the helpers do to the types.                                       *)
LEMMA TouchType ==
  ASSUME TypeOK, NEW e \in Email, TouchDown(e)
  PROVE  inflight' \in [Email -> Nat]
<1>1. CASE inflight[e] = 0
  BY <1>1 DEF TypeOK, TouchDown
<1>2. CASE inflight[e] # 0
  <2>1. inflight[e] - 1 \in Nat
    BY <1>2 DEF TypeOK
  <2> QED
    BY <1>2, <2>1 DEF TypeOK, TouchDown
<1> QED
  BY <1>1, <1>2

LEMMA FreedType ==
  ASSUME TypeOK, NEW t \in Task, NEW l \in [Key -> {"free", "fresh", "old"}]
  PROVE  FreeSlots(t, l) \in [Key -> {"free", "fresh", "old"}]
BY DEF FreeSlots

LEMMA EvictType ==
  ASSUME TypeOK
  PROVE  Evict(ledger) \in [Key -> {"free", "fresh", "old"}]
BY DEF TypeOK, Evict

LEMMA FreeBindingType ==
  ASSUME TypeOK, NEW t \in Task, FreeBinding(t)
  PROVE  bindings' \in [Binding -> 0 .. BindingMax]
<1> DEFINE b == BindingOf[Cand(t)]
           n == IF pc[t] \in AtWork /\ bindings[b] > 0 THEN bindings[b] - 1 ELSE bindings[b]
<1>1. bindings' = [bindings EXCEPT ![b] = n]
  BY DEF FreeBinding
<1>2. b \in Binding => n \in 0 .. BindingMax
  BY DispatchAssumption DEF TypeOK
<1> QED
  BY <1>1, <1>2 DEF TypeOK

LEMMA RememberType ==
  ASSUME Remember
  PROVE  wiped' \subseteq Email /\ zeroed' \subseteq Binding /\ expired' \subseteq Key
BY DEF Remember

LEMMA NextAttemptType ==
  ASSUME TypeOK, Tidy, NEW t \in Task, pc[t] \in AtWork \cup {"bind"},
         NEW l \in [Key -> {"free", "fresh", "old"}], NextAttempt(t, l)
  PROVE  TypeOK' /\ Tidy'
<1>1. try[t] + 1 <= Len(cands[t]) /\ try[t] + 1 \in 1 .. RetryCap
  <2>1. Len(cands[t]) \in Nat /\ RetryCap \in Nat /\ try[t] \in 1 .. RetryCap
    BY DispatchAssumption DEF TypeOK
  <2>2. try[t] < IF Len(cands[t]) < RetryCap THEN Len(cands[t]) ELSE RetryCap
    BY DEF NextAttempt, Attempts
  <2> QED
    BY <2>1, <2>2
<1>2. ledger' \in [Key -> {"free", "fresh", "old"}]
  BY FreedType DEF NextAttempt
<1>3. bindings' \in [Binding -> 0 .. BindingMax]
  BY FreeBindingType DEF NextAttempt
<1>4. wiped' \subseteq Email /\ zeroed' \subseteq Binding /\ expired' \subseteq Key
  BY RememberType DEF NextAttempt
<1> QED
  BY <1>1, <1>2, <1>3, <1>4 DEF NextAttempt, TypeOK, Tidy, Place, AtWork

LEMMA FinishType ==
  ASSUME TypeOK, Tidy, NEW t \in Task, pc[t] \in AtWork \cup {"bind"},
         NEW l \in [Key -> {"free", "fresh", "old"}], Finish(t, l)
  PROVE  TypeOK' /\ Tidy'
<1>1. ledger' \in [Key -> {"free", "fresh", "old"}]
  BY FreedType DEF Finish
<1>2. bindings' \in [Binding -> 0 .. BindingMax]
  BY FreeBindingType DEF Finish
<1>3. wiped' \subseteq Email /\ zeroed' \subseteq Binding /\ expired' \subseteq Key
  BY RememberType DEF Finish
<1> QED
  BY <1>1, <1>2, <1>3 DEF Finish, TypeOK, Tidy, Place, AtWork

(* The six ways to give up an attempt: the next one begins, or the last    *)
(* one was that.                                                           *)
Leaves(t) ==
  /\ pc[t] \in AtWork \cup {"bind"}
  /\ \E l \in {ledger, Evict(ledger)} : NextAttempt(t, l) \/ Finish(t, l)

LEMMA StepCases ==
  ASSUME NEW t \in Task, Step(t)
  PROVE  \/ Admit(t) \/ ChatImage(t) \/ ChatImageEnds(t)
         \/ Count(t) \/ Uncount(t) \/ Bind(t)
         \/ TakeAccount(t) \/ TakeSs(t) \/ Leaves(t) \/ End(t)
<1>1. BindingBusy(t) => Leaves(t)
  BY DEF BindingBusy, Refused, Leaves
<1>2. AccountBusy(t) => Leaves(t)
  BY DEF AccountBusy, Refused, Leaves, AtWork
<1>3. SsBusy(t) => Leaves(t)
  BY DEF SsBusy, Refused, Leaves, AtWork
<1>4. Answer(t) => Leaves(t)
  BY DEF Answer, Leaves, AtWork
<1>5. Retry(t) => Leaves(t)
  BY DEF Retry, Leaves, AtWork
<1>6. Cancel(t) => Leaves(t)
  BY DEF Cancel, Leaves, AtWork
<1> QED
  BY <1>1, <1>2, <1>3, <1>4, <1>5, <1>6 DEF Step

LEMMA NextRemembers == Next => Remember
BY StepCases DEF Next, Admit, ChatImage, ChatImageEnds, Count, Uncount, Bind, TakeAccount, TakeSs,
   Leaves, NextAttempt, Finish, End, ReconcileInflight, ReconcileBindings, Watchdog, Crash, Age

LEMMA TypeStep == TypeOK /\ Tidy /\ [Next]_vars => TypeOK' /\ Tidy'
<1> SUFFICES ASSUME TypeOK, Tidy, [Next]_vars
             PROVE  TypeOK' /\ Tidy'
  OBVIOUS
<1>r. Remember => wiped' \subseteq Email /\ zeroed' \subseteq Binding /\ expired' \subseteq Key
  BY RememberType
<1>l. ledger \in [Key -> {"free", "fresh", "old"}]
  BY DEF TypeOK
<1>t. InflightCeiling \in Nat
  BY DispatchAssumption DEF InflightCeiling
<1>1. ASSUME NEW t \in Task, Admit(t)
      PROVE  TypeOK' /\ Tidy'
  <2>1. PICK s \in Candidates : cands' = [cands EXCEPT ![t] = s]
    BY <1>1 DEF Admit
  <2>2. CandidateList(s) /\ Len(s) >= 1
    BY AdmittedList
  <2> QED
    BY <1>1, <1>r, <2>1, <2>2 DEF Admit, TypeOK, Tidy, CandidateList, Place, AtWork
<1>2. ASSUME NEW t \in Task, Count(t)
      PROVE  TypeOK' /\ Tidy'
  <2>1. inflight' \in [Email -> Nat]
    <3>1. Cand(t) \in Email /\ inflight \in [Email -> Nat]
      BY <1>2, CandType DEF Count, TypeOK
    <3>2. inflight' = [inflight EXCEPT ![Cand(t)] = @ + 1]
      BY <1>2 DEF Count
    <3> QED
      BY <3>1, <3>2
  <2>2. try[t] \in Nat /\ try[t] >= 1
    BY DispatchAssumption DEF TypeOK
  <2>3. \/ try[t] = 1 /\ pc' = [pc EXCEPT ![t] = "bind"]
        \/ try[t] > 1 /\ pc' = [pc EXCEPT ![t] = "uncount"]
    <3>1. CASE try[t] = 1
      BY <1>2, <3>1, Zenon DEF Count
    <3>2. CASE try[t] # 1
      <4>1. pc' = [pc EXCEPT ![t] = "uncount"]
        BY <1>2, <3>2, Zenon DEF Count
      <4> QED
        BY <2>2, <3>2, <4>1
    <3> QED
      BY <3>1, <3>2
  <2>4. UNCHANGED <<cands, try, ss, bindings, ledger, leaked, crashes>> /\ Remember
    BY <1>2 DEF Count
  <2>5. pc' \in [Task -> Place] /\ pc[t] = "count"
    BY <1>2, <2>3 DEF Count, TypeOK, Place, AtWork
  <2>6. \A u \in Task : /\ pc'[u] # "idle" => pc[u] # "idle"
                        /\ pc'[u] \in {"idle", "chat"} => pc[u] \in {"idle", "chat"}
                        /\ pc'[u] = "uncount" => pc[u] = "uncount" \/ try[u] > 1
    BY <2>3, <2>5 DEF TypeOK
  <2> QED
    BY <1>r, <2>1, <2>4, <2>5, <2>6 DEF TypeOK, Tidy
<1>3. ASSUME NEW t \in Task, Uncount(t)
      PROVE  TypeOK' /\ Tidy'
  <2>1. inflight' \in [Email -> Nat]
    BY <1>3, CandType, TouchType DEF Uncount, Tidy
  <2> QED
    BY <1>3, <1>r, <2>1 DEF Uncount, TypeOK, Tidy, Place, AtWork
<1>4. ASSUME NEW t \in Task, Bind(t)
      PROVE  TypeOK' /\ Tidy'
  <2>1. bindings' \in [Binding -> 0 .. BindingMax]
    <3>1. bindings[BindingOf[Cand(t)]] + 1 \in 0 .. BindingMax
      <4> DEFINE b == BindingOf[Cand(t)]
      <4>1. b \in Binding /\ bindings[b] < BindingMax
        BY <1>4, CandType DEF Bind, HasRoom
      <4> HIDE DEF b
      <4>2. b \in Binding /\ bindings[b] \in 0 .. BindingMax
        BY <4>1 DEF TypeOK
      <4> QED
        BY <4>1, <4>2, DispatchAssumption DEF b
    <3> QED
      BY <1>4, <3>1 DEF Bind, TypeOK
  <2> QED
    BY <1>4, <1>r, <2>1 DEF Bind, TypeOK, Tidy, Place, AtWork
<1>5. ASSUME NEW t \in Task, TakeAccount(t)
      PROVE  TypeOK' /\ Tidy'
  BY <1>5, <1>r, <1>t, DispatchAssumption DEF TakeAccount, task, TypeOK, Tidy, Place, AtWork
<1>6. ASSUME NEW t \in Task, TakeSs(t)
      PROVE  TypeOK' /\ Tidy'
  <2>1. PICK i \in SsSlot : /\ ledger' = [Evict(ledger) EXCEPT ![i] = "fresh"]
                            /\ ss' = [ss EXCEPT ![t] = i]
    BY <1>6 DEF TakeSs
  <2>2. ledger' \in [Key -> {"free", "fresh", "old"}]
    BY <2>1, EvictType DEF Key
  <2> QED
    BY <1>6, <1>r, <2>1, <2>2 DEF TakeSs, TypeOK, Tidy, Place, AtWork
<1>7. ASSUME NEW t \in Task, Leaves(t)
      PROVE  TypeOK' /\ Tidy'
  <2>1. PICK l \in {ledger, Evict(ledger)} : NextAttempt(t, l) \/ Finish(t, l)
    BY <1>7 DEF Leaves
  <2>2. l \in [Key -> {"free", "fresh", "old"}]
    BY <1>l, EvictType
  <2> QED
    BY <1>7, <2>1, <2>2, NextAttemptType, FinishType DEF Leaves
<1>8. ASSUME NEW t \in Task, End(t)
      PROVE  TypeOK' /\ Tidy'
  <2>1. inflight' \in [Email -> Nat]
    BY <1>8, CandType, TouchType DEF End
  <2>2. Len(cands[t]) >= 1 /\ CandidateList(cands[t])
    BY <1>8 DEF End, TypeOK, Tidy
  <2>3. CASE pc' = [pc EXCEPT ![t] = "idle"] /\ cands' = [cands EXCEPT ![t] = <<>>]
    BY <1>8, <1>r, <2>1, <2>3, DispatchAssumption DEF End, TypeOK, Tidy, CandidateList, Place, AtWork
  <2>4. ASSUME pc' = [pc EXCEPT ![t] = "count"], NEW s \in Rotations(cands[t]),
               cands' = [cands EXCEPT ![t] = s]
        PROVE  TypeOK' /\ Tidy'
    <3>1. CandidateList(s) /\ Len(s) = Len(cands[t])
      BY <2>2, RotatedList
    <3>2. \A u \in Task : /\ CandidateList(cands'[u])
                          /\ pc'[u] # "idle" => try'[u] <= Len(cands'[u])
                          /\ pc'[u] \in {"idle", "chat"} => try'[u] = 1
                          /\ pc'[u] = "uncount" => try'[u] > 1
      <4> TAKE u \in Task
      <4>1. CASE u = t
        BY <1>8, <2>2, <2>4, <3>1, <4>1 DEF End, TypeOK
      <4>2. CASE u # t
        BY <1>8, <2>4, <4>2 DEF End, TypeOK, Tidy
      <4> QED
        BY <4>1, <4>2
    <3>3. cands' \in [Task -> Seq(Email)]
      BY <2>4, <3>1 DEF TypeOK, CandidateList
    <3>4. /\ try' = [try EXCEPT ![t] = 1] /\ Remember
          /\ UNCHANGED <<ss, bindings, ledger, leaked, crashes>>
      BY <1>8 DEF End
    <3>5. /\ pc' \in [Task -> Place]
          /\ try' \in [Task -> 1 .. RetryCap]
      BY <2>4, <3>4, DispatchAssumption DEF TypeOK, Place
    <3> QED
      BY <1>r, <2>1, <3>2, <3>3, <3>4, <3>5 DEF TypeOK, Tidy
  <2> QED
    BY <1>8, <2>3, <2>4 DEF End
<1>9. CASE ReconcileInflight
  BY <1>9, <1>r, <1>t, DispatchAssumption DEF ReconcileInflight, Clamped, task, TypeOK, Tidy, Place, AtWork
<1>10. CASE ReconcileBindings
  BY <1>10, <1>r, <1>t, DispatchAssumption DEF ReconcileBindings, task, TypeOK, Tidy, Place, AtWork
<1>11. CASE Watchdog
  BY <1>11, <1>r, EvictType DEF Watchdog, TypeOK, Tidy, task
<1>12. CASE Crash
  BY <1>12, <1>r, <1>t, DispatchAssumption DEF Crash, Clamped, NoTask, TypeOK, Tidy, CandidateList, Place, AtWork
<1>13. ASSUME NEW k \in Key, Age(k)
      PROVE  TypeOK' /\ Tidy'
  BY <1>13, <1>r, <1>t, DispatchAssumption DEF Age, task, TypeOK, Tidy, Place, AtWork
<1>14. CASE UNCHANGED vars
  BY <1>14 DEF vars, task, history, TypeOK, Tidy
<1>15. ASSUME NEW t \in Task, ChatImage(t)
      PROVE  TypeOK' /\ Tidy'
  <2>1. PICK e \in Email : /\ cands' = [cands EXCEPT ![t] = <<e>>]
                           /\ inflight' = [inflight EXCEPT ![e] = @ + 1]
    BY <1>15 DEF ChatImage
  <2>2. CandidateList(<<e>>) /\ Len(<<e>>) = 1
    BY DEF CandidateList
  <2>3. inflight' \in [Email -> Nat] /\ cands' \in [Task -> Seq(Email)]
    BY <2>1, <2>2 DEF TypeOK, CandidateList
  <2>4. try[t] = 1
    BY <1>15 DEF ChatImage, Tidy
  <2> HIDE DEF CandidateList
  <2>5. \A u \in Task : /\ CandidateList(cands'[u])
                        /\ pc'[u] # "idle" => try'[u] <= Len(cands'[u])
                        /\ pc'[u] \in {"idle", "chat"} => try'[u] = 1
                        /\ pc'[u] = "uncount" => try'[u] > 1
    <3> TAKE u \in Task
    <3>1. CASE u = t
      BY <1>15, <2>1, <2>2, <2>4, <3>1 DEF ChatImage, TypeOK
    <3>2. CASE u # t
      BY <1>15, <2>1, <3>2 DEF ChatImage, TypeOK, Tidy
    <3> QED
      BY <3>1, <3>2
  <2> QED
    BY <1>15, <1>r, <2>3, <2>5 DEF ChatImage, TypeOK, Tidy, Place
<1>16. ASSUME NEW t \in Task, ChatImageEnds(t)
      PROVE  TypeOK' /\ Tidy'
  <2>1. inflight' \in [Email -> Nat]
    BY <1>16, CandType, TouchType DEF ChatImageEnds
  <2>2. CandidateList(<<>>)
    BY DEF CandidateList
  <2>3. try[t] = 1
    BY <1>16 DEF ChatImageEnds, Tidy
  <2> QED
    BY <1>16, <1>r, <2>1, <2>2, <2>3 DEF ChatImageEnds, TypeOK, Tidy, Place, CandidateList
<1> QED
  BY <1>1, <1>2, <1>3, <1>4, <1>5, <1>6, <1>7, <1>8, <1>9, <1>10, <1>11, <1>12, <1>13, <1>14,
     <1>15, <1>16, StepCases DEF Next

-----------------------------------------------------------------------------
(* A step of one task leaves the others where they are, and with them what *)
(* they count on and hold.                                                 *)
Stays(u) ==
  /\ pc'[u] = pc[u] /\ cands'[u] = cands[u] /\ try'[u] = try[u] /\ ss'[u] = ss[u]

LEMMA StaysMeans ==
  ASSUME NEW u \in Task, Stays(u)
  PROVE  /\ \A k : Holds(u, k)' <=> Holds(u, k)
         /\ \A e : Counts(u, e)' <=> Counts(u, e)
         /\ \A b : (u \in Using(b))' <=> u \in Using(b)
<1>1. (Cand(u))' = Cand(u)
  BY DEF Stays, Cand
<1>2. \A k : Holds(u, k)' <=> Holds(u, k)
  BY <1>1 DEF Stays, Holds
<1>3. \A e : Counts(u, e)' <=> Counts(u, e)
  BY <1>1 DEF Stays, Counts
<1>4. \A b : (u \in Using(b))' <=> u \in Using(b)
  BY <1>1 DEF Stays, Using
<1> QED
  BY <1>2, <1>3, <1>4

LEMMA OthersStay ==
  ASSUME TypeOK, NEW t \in Task, Step(t), NEW u \in Task, u # t
  PROVE  Stays(u)
<1>1. CASE Admit(t)
  BY <1>1 DEF Admit, Stays, TypeOK
<1>2. CASE Count(t)
  BY <1>2 DEF Count, Stays, TypeOK
<1>3. CASE Uncount(t)
  BY <1>3 DEF Uncount, Stays, TypeOK
<1>4. CASE Bind(t)
  BY <1>4 DEF Bind, Stays, TypeOK
<1>5. CASE TakeAccount(t)
  BY <1>5 DEF TakeAccount, Stays, TypeOK
<1>6. CASE TakeSs(t)
  BY <1>6 DEF TakeSs, Stays, TypeOK
<1>7. CASE Leaves(t)
  BY <1>7 DEF Leaves, NextAttempt, Finish, Stays, TypeOK
<1>8. CASE End(t)
  BY <1>8 DEF End, Stays, TypeOK
<1>9. CASE ChatImage(t) \/ ChatImageEnds(t)
  BY <1>9 DEF ChatImage, ChatImageEnds, Stays, TypeOK
<1> QED
  BY <1>1, <1>2, <1>3, <1>4, <1>5, <1>6, <1>7, <1>8, <1>9, StepCases

(* A step without a task, except a crash.                                  *)
Background ==
  \/ ReconcileInflight \/ ReconcileBindings \/ Watchdog \/ \E k \in Key : Age(k)

LEMMA BackgroundStays ==
  ASSUME Background \/ UNCHANGED vars, NEW u \in Task
  PROVE  Stays(u)
BY DEF Background, ReconcileInflight, ReconcileBindings, Watchdog, Age, vars, task, Stays

-----------------------------------------------------------------------------
(* What is held.  A step lets the holders be, adds one to a slot that was  *)
(* free or has just been evicted, or frees all that one task holds.        *)
SameHolders == \A u \in Task, k \in Key : Holds(u, k)' <=> Holds(u, k)

Base == {ledger, Evict(ledger)}

Aging == \E k \in Key : ledger[k] = "fresh" /\ ledger' = [ledger EXCEPT ![k] = "old"]

Grant ==
  \E t \in Task, j \in Key, l \in Base :
    /\ l[j] = "free"
    /\ ledger' = [l EXCEPT ![j] = "fresh"]
    /\ \A u \in Task, k \in Key : Holds(u, k)' <=> Holds(u, k) \/ (u = t /\ k = j)

Return ==
  \E t \in Task, l \in Base :
    /\ ledger' = FreeSlots(t, l)
    /\ \A u \in Task, k \in Key : Holds(u, k)' <=> Holds(u, k) /\ u # t

Lost == /\ ledger' = [k \in Key |-> "free"]
        /\ \A u \in Task, k \in Key : ~Holds(u, k)'

SlotEffect ==
  \/ SameHolders /\ (ledger' \in Base \/ Aging)
  \/ Grant \/ Return \/ Lost

LEMMA SlotEffects ==
  ASSUME TypeOK, Tidy, [Next]_vars
  PROVE  SlotEffect
<1>0. \A t, u \in Task, k \in Key : Step(t) /\ u # t => (Holds(u, k)' <=> Holds(u, k))
  BY OthersStay, StaysMeans
<1>q. ASSUME NEW t \in Task, Step(t), \A k \in Key : Holds(t, k)' <=> Holds(t, k)
      PROVE  SameHolders
  BY <1>0, <1>q DEF SameHolders
<1>1. ASSUME NEW t \in Task,
             \/ Admit(t) \/ ChatImage(t) \/ ChatImageEnds(t)
             \/ Count(t) \/ Uncount(t) \/ Bind(t) \/ End(t)
      PROVE  SlotEffect
  <2>1. pc[t] \notin {"ss", "upstream"} /\ pc'[t] \notin {"ss", "upstream"}
    BY <1>1 DEF Admit, ChatImage, ChatImageEnds, Count, Uncount, Bind, End, TypeOK
  <2>2. \A k \in Key : Holds(t, k)' <=> Holds(t, k)
    BY <2>1 DEF Holds
  <2>3. ledger' = ledger
    BY <1>1 DEF Admit, ChatImage, ChatImageEnds, Count, Uncount, Bind, End
  <2>4. Step(t)
    BY <1>1 DEF Step
  <2> QED
    BY <1>q, <2>2, <2>3, <2>4 DEF SlotEffect, Base
<1>2. ASSUME NEW t \in Task, TakeAccount(t)
      PROVE  SlotEffect
  <2>1. Cand(t) \in Key /\ ledger[Cand(t)] = "free"
    BY <1>2, CandType DEF TakeAccount, Key
  <2>2. pc[t] = "slot" /\ pc'[t] = "ss" /\ (Cand(t))' = Cand(t)
    BY <1>2 DEF TakeAccount, Cand, TypeOK
  <2>3. \A k \in Key : ~Holds(t, k) /\ (Holds(t, k)' <=> k = Cand(t))
    BY <2>2 DEF Holds
  <2>4. ledger' = [ledger EXCEPT ![Cand(t)] = "fresh"]
    BY <1>2 DEF TakeAccount
  <2>5. Step(t)
    BY <1>2 DEF Step
  <2>6. \A u \in Task, k \in Key : Holds(u, k)' <=> Holds(u, k) \/ (u = t /\ k = Cand(t))
    BY <1>0, <2>3, <2>5
  <2> QED
    BY <2>1, <2>4, <2>6 DEF SlotEffect, Grant, Base
<1>3. ASSUME NEW t \in Task, TakeSs(t)
      PROVE  SlotEffect
  <2>1. PICK i \in SsSlot : /\ Evict(ledger)[i] = "free"
                            /\ ledger' = [Evict(ledger) EXCEPT ![i] = "fresh"]
                            /\ ss' = [ss EXCEPT ![t] = i]
    BY <1>3 DEF TakeSs
  <2>2. pc[t] = "ss" /\ pc'[t] = "upstream" /\ (Cand(t))' = Cand(t) /\ ss'[t] = i
    BY <1>3, <2>1 DEF TakeSs, Cand, TypeOK
  <2>3. \A k \in Key : Holds(t, k)' <=> Holds(t, k) \/ k = i
    BY <2>2 DEF Holds
  <2>4. Step(t) /\ i \in Key
    BY <1>3 DEF Step, Key
  <2>5. \A u \in Task, k \in Key : Holds(u, k)' <=> Holds(u, k) \/ (u = t /\ k = i)
    BY <1>0, <2>3, <2>4
  <2> QED
    BY <2>1, <2>4, <2>5 DEF SlotEffect, Grant, Base
<1>4. ASSUME NEW t \in Task, Step(t), Leaves(t)
      PROVE  SlotEffect
  <2>1. PICK l \in Base : NextAttempt(t, l) \/ Finish(t, l)
    BY <1>4 DEF Leaves, Base
  <2>2. ledger' = FreeSlots(t, l) /\ pc'[t] \notin {"ss", "upstream"}
    BY <2>1 DEF NextAttempt, Finish, TypeOK
  <2>3. \A k \in Key : ~Holds(t, k)'
    BY <2>2 DEF Holds
  <2>4. \A u \in Task, k \in Key : Holds(u, k)' <=> Holds(u, k) /\ u # t
    BY <1>0, <1>4, <2>3
  <2> QED
    BY <2>2, <2>4 DEF SlotEffect, Return
<1>5. CASE Background \/ UNCHANGED vars
  <2>1. SameHolders
    BY <1>5, BackgroundStays, StaysMeans DEF SameHolders
  <2>2. ledger' \in Base \/ Aging
    BY <1>5 DEF Background, ReconcileInflight, ReconcileBindings, Watchdog, Age, vars, Base, Aging
  <2> QED
    BY <2>1, <2>2 DEF SlotEffect
<1>6. CASE Crash
  BY <1>6 DEF Crash, NoTask, Holds, SlotEffect, Lost
<1> QED
  BY <1>1, <1>2, <1>3, <1>4, <1>5, <1>6, StepCases DEF Next, Background

LEMMA NoStuckSlotStep ==
  ASSUME TypeOK, Tidy, NoStuckSlot, [Next]_vars
  PROVE  NoStuckSlot'
<1> SUFFICES ASSUME NEW k \in Key, ledger'[k] # "free"
             PROVE  \E u \in Task : Holds(u, k)'
  BY DEF NoStuckSlot, Holders
<1>1. \A l \in Base : l[k] # "free" => \E u \in Task : Holds(u, k)
  BY DEF Base, Evict, NoStuckSlot, Holders
<1>2. CASE SameHolders /\ ledger' \in Base
  BY <1>1, <1>2 DEF SameHolders
<1>3. CASE SameHolders /\ Aging
  <2>1. ledger[k] # "free"
    BY <1>3 DEF Aging, TypeOK
  <2> QED
    BY <1>1, <1>3, <2>1 DEF SameHolders, Base
<1>4. CASE Grant
  <2>1. PICK t \in Task, j \in Key, l \in Base :
          /\ ledger' = [l EXCEPT ![j] = "fresh"]
          /\ \A u \in Task, kk \in Key : Holds(u, kk)' <=> Holds(u, kk) \/ (u = t /\ kk = j)
    BY <1>4 DEF Grant
  <2>2. CASE k = j
    BY <2>1, <2>2
  <2>3. CASE k # j
    <3>1. ledger'[k] = l[k]
      BY <2>1, <2>3 DEF Base, Evict, TypeOK
    <3> QED
      BY <1>1, <2>1, <3>1
  <2> QED
    BY <2>2, <2>3
<1>5. CASE Return
  <2>1. PICK t \in Task, l \in Base :
          /\ ledger' = FreeSlots(t, l)
          /\ \A u \in Task, kk \in Key : Holds(u, kk)' <=> Holds(u, kk) /\ u # t
    BY <1>5 DEF Return
  <2>2. ~Holds(t, k) /\ l[k] # "free"
    BY <2>1 DEF FreeSlots
  <2> QED
    BY <1>1, <2>1, <2>2
<1>6. CASE Lost
  BY <1>6 DEF Lost
<1> QED
  BY <1>2, <1>3, <1>4, <1>5, <1>6, SlotEffects DEF SlotEffect

LEMMA SharedStep ==
  ASSUME TypeOK, Tidy, SharedOnlyAfterExpiry, Next
  PROVE  SharedOnlyAfterExpiry'
<1> SUFFICES ASSUME NEW k \in Key \ expired', NEW w \in Task, Holds(w, k)'
             PROVE  /\ \A u \in Task : Holds(u, k)' => u = w
                    /\ ledger'[k] # "free"
  BY DEF SharedOnlyAfterExpiry, Holders
<1>1. Remember
  BY NextRemembers
<1>2. k \notin expired /\ ~(ledger[k] = "old" /\ ledger'[k] # "old")
  BY <1>1 DEF Remember, Holders
<1>3. /\ \A t, u \in Task : Holds(t, k) /\ Holds(u, k) => t = u
      /\ \A t \in Task : Holds(t, k) => ledger[k] # "free"
  BY <1>2 DEF SharedOnlyAfterExpiry, Holders
<1>4. CASE SameHolders /\ ledger' \in Base
  BY <1>2, <1>3, <1>4 DEF SameHolders, Base, Evict
<1>5. CASE SameHolders /\ Aging
  BY <1>3, <1>5 DEF SameHolders, Aging, TypeOK
<1>6. CASE Grant
  <2>1. PICK t \in Task, j \in Key, l \in Base :
          /\ l[j] = "free"
          /\ ledger' = [l EXCEPT ![j] = "fresh"]
          /\ \A u \in Task, kk \in Key : Holds(u, kk)' <=> Holds(u, kk) \/ (u = t /\ kk = j)
    BY <1>6 DEF Grant
  <2>2. l[k] = ledger[k] \/ (l[k] = "free" /\ ledger[k] = "old")
    <3>1. CASE l = ledger
      BY <3>1
    <3>2. CASE l = Evict(ledger)
      BY <3>2 DEF Evict
    <3> QED
      BY <3>1, <3>2 DEF Base
  <2>3. l \in [Key -> {"free", "fresh", "old"}]
    BY EvictType DEF Base, TypeOK
  <2>4. CASE k = j
    <3>1. ledger'[k] = "fresh"
      BY <2>1, <2>3, <2>4
    <3>2. ledger[k] = "free"
      BY <1>2, <2>1, <2>2, <2>4, <3>1
    <3> QED
      BY <1>3, <2>1, <2>4, <3>1, <3>2
  <2>5. CASE k # j
    <3>1. ledger'[k] = l[k]
      BY <2>1, <2>3, <2>5
    <3> QED
      BY <1>2, <1>3, <2>1, <2>2, <2>5, <3>1
  <2> QED
    BY <2>4, <2>5
<1>7. CASE Return
  <2>1. PICK t \in Task, l \in Base :
          /\ ledger' = FreeSlots(t, l)
          /\ \A u \in Task, kk \in Key : Holds(u, kk)' <=> Holds(u, kk) /\ u # t
    BY <1>7 DEF Return
  <2>2. Holds(w, k) /\ w # t /\ ~Holds(t, k)
    BY <1>3, <2>1
  <2>3. ledger'[k] = l[k]
    BY <2>1, <2>2 DEF FreeSlots
  <2> QED
    BY <1>2, <1>3, <2>1, <2>2, <2>3 DEF Base, Evict
<1>8. CASE Lost
  BY <1>8 DEF Lost
<1> QED
  BY <1>4, <1>5, <1>6, <1>7, <1>8, SlotEffects DEF SlotEffect

-----------------------------------------------------------------------------
(* What is counted on a proxy.                                             *)
SameOn(b) == Using(b)' = Using(b) /\ bindings'[b] = bindings[b]

JoinedOn(b) ==
  \E t \in Task \ Using(b) : Using(b)' = Using(b) \cup {t} /\ bindings'[b] = bindings[b] + 1

LeftOn(b) ==
  \E t \in Using(b) :
    /\ Using(b)' = Using(b) \ {t}
    /\ bindings'[b] = IF bindings[b] > 0 THEN bindings[b] - 1 ELSE bindings[b]

ZeroedOn(b) ==
  Using(b)' = Using(b) /\ bindings[b] > BindingCeiling /\ bindings'[b] = 0

LostOn(b) == Using(b)' = {} /\ bindings'[b] = 0

BindingEffect(b) == SameOn(b) \/ JoinedOn(b) \/ LeftOn(b) \/ ZeroedOn(b) \/ LostOn(b)

LEMMA BindingEffects ==
  ASSUME TypeOK, Tidy, [Next]_vars, NEW b \in Binding
  PROVE  BindingEffect(b)
<1>0. \A t, u \in Task : Step(t) /\ u # t => (u \in Using(b)' <=> u \in Using(b))
  BY OthersStay, StaysMeans
<1>s. Using(b) \subseteq Task /\ Using(b)' \subseteq Task
  BY DEF Using
<1>q. ASSUME NEW t \in Task, Step(t), t \in Using(b)' <=> t \in Using(b), bindings'[b] = bindings[b]
      PROVE  SameOn(b)
  BY <1>0, <1>q, <1>s DEF SameOn
<1>1. ASSUME NEW t \in Task,
             \/ Admit(t) \/ ChatImage(t) \/ ChatImageEnds(t)
             \/ Count(t) \/ Uncount(t) \/ End(t)
      PROVE  SameOn(b)
  <2>1. pc[t] \notin AtWork /\ pc'[t] \notin AtWork /\ bindings' = bindings
    BY <1>1 DEF Admit, ChatImage, ChatImageEnds, Count, Uncount, End, AtWork, TypeOK
  <2>2. t \notin Using(b) /\ t \notin Using(b)'
    BY <2>1 DEF Using
  <2> QED
    BY <1>1, <1>q, <2>1, <2>2 DEF Step
<1>2. ASSUME NEW t \in Task, TakeAccount(t) \/ TakeSs(t)
      PROVE  SameOn(b)
  <2>1. pc[t] \in AtWork /\ pc'[t] \in AtWork /\ bindings' = bindings
    BY <1>2 DEF TakeAccount, TakeSs, AtWork, TypeOK
  <2>2. (Cand(t))' = Cand(t)
    BY <1>2 DEF TakeAccount, TakeSs, Cand
  <2>3. t \in Using(b)' <=> t \in Using(b)
    BY <2>1, <2>2 DEF Using
  <2> QED
    BY <1>2, <1>q, <2>1, <2>3 DEF Step
<1>3. ASSUME NEW t \in Task, Bind(t)
      PROVE  SameOn(b) \/ JoinedOn(b)
  <2>1. pc[t] = "bind" /\ pc'[t] = "slot" /\ (Cand(t))' = Cand(t)
    BY <1>3 DEF Bind, Cand, TypeOK
  <2>2. t \notin Using(b) /\ (t \in Using(b)' <=> BindingOf[Cand(t)] = b)
    BY <2>1 DEF Using, AtWork
  <2>3. Step(t)
    BY <1>3 DEF Step
  <2>4. CASE BindingOf[Cand(t)] = b
    <3>1. Using(b)' = Using(b) \cup {t}
      BY <1>0, <1>s, <2>2, <2>3, <2>4
    <3>2. bindings'[b] = bindings[b] + 1
      BY <1>3, <2>4 DEF Bind, TypeOK
    <3> QED
      BY <2>2, <3>1, <3>2 DEF JoinedOn
  <2>5. CASE BindingOf[Cand(t)] # b
    <3>1. bindings'[b] = bindings[b]
      BY <1>3, <2>5 DEF Bind, TypeOK
    <3> QED
      BY <1>q, <2>2, <2>3, <2>5, <3>1
  <2> QED
    BY <2>4, <2>5
<1>4. ASSUME NEW t \in Task, Step(t), Leaves(t)
      PROVE  SameOn(b) \/ LeftOn(b)
  <2>1. FreeBinding(t) /\ pc'[t] \notin AtWork /\ pc[t] \in AtWork \cup {"bind"}
    BY <1>4 DEF Leaves, NextAttempt, Finish, AtWork, TypeOK
  <2>2. t \notin Using(b)' /\ (t \in Using(b) <=> pc[t] \in AtWork /\ BindingOf[Cand(t)] = b)
    BY <2>1 DEF Using
  <2> DEFINE c == BindingOf[Cand(t)]
             n == IF pc[t] \in AtWork /\ bindings[c] > 0 THEN bindings[c] - 1 ELSE bindings[c]
  <2>3. bindings' = [bindings EXCEPT ![c] = n]
    BY <2>1 DEF FreeBinding
  <2>4. CASE t \in Using(b)
    <3>1. Using(b)' = Using(b) \ {t}
      BY <1>0, <1>4, <1>s, <2>2
    <3>2. bindings'[b] = IF bindings[b] > 0 THEN bindings[b] - 1 ELSE bindings[b]
      BY <2>2, <2>3, <2>4 DEF TypeOK
    <3> QED
      BY <2>4, <3>1, <3>2 DEF LeftOn
  <2>5. CASE t \notin Using(b)
    <3>1. bindings'[b] = bindings[b]
      BY <2>2, <2>3, <2>5 DEF TypeOK
    <3> QED
      BY <1>4, <1>q, <2>2, <2>5, <3>1
  <2> QED
    BY <2>4, <2>5
<1>5. CASE Background \/ UNCHANGED vars
  <2>1. Using(b)' = Using(b)
    BY <1>5, <1>s, BackgroundStays, StaysMeans
  <2>2. CASE ReconcileBindings
    <3>1. bindings'[b] = IF bindings[b] > BindingCeiling THEN 0 ELSE bindings[b]
      BY <2>2 DEF ReconcileBindings
    <3> QED
      BY <2>1, <3>1 DEF SameOn, ZeroedOn, BindingEffect
  <2>3. CASE ~ReconcileBindings
    <3>1. bindings' = bindings
      BY <1>5, <2>3 DEF Background, ReconcileInflight, Watchdog, Age, vars
    <3> QED
      BY <2>1, <3>1 DEF SameOn, BindingEffect
  <2> QED
    BY <2>2, <2>3
<1>6. CASE Crash
  BY <1>6 DEF Crash, NoTask, Using, AtWork, LostOn, BindingEffect
<1> QED
  BY <1>1, <1>2, <1>3, <1>4, <1>5, <1>6, StepCases DEF Next, Background, BindingEffect

(* A limit within the ceiling: nothing that runs is ever zeroed.           *)
CeilingSpares == BindingMax <= BindingCeiling => zeroed = {}

LEMMA BindingsStep ==
  ASSUME TypeOK, Tidy, BindingsAccounted, CeilingSpares, Next
  PROVE  BindingsAccounted' /\ CeilingSpares'
<1>1. zeroed' = {b \in Binding : /\ Using(b)' # {}
                                /\ \/ b \in zeroed
                                   \/ bindings[b] > BindingCeiling /\ bindings'[b] = 0}
  BY NextRemembers DEF Remember
<1>2. CeilingSpares'
  <2> SUFFICES ASSUME BindingMax <= BindingCeiling
               PROVE  zeroed' = {}
    BY DEF CeilingSpares
  <2>1. \A b \in Binding : ~(bindings[b] > BindingCeiling)
    BY DispatchAssumption DEF TypeOK
  <2> QED
    BY <1>1, <2>1 DEF CeilingSpares
<1>3. BindingsAccounted'
  <2> SUFFICES ASSUME NEW b \in Binding
               PROVE  IF b \in zeroed' THEN bindings'[b] <= Cardinality(Using(b)')
                      ELSE bindings'[b] = Cardinality(Using(b)')
    BY DEF BindingsAccounted
  <2> DEFINE U == Cardinality(Using(b))
             V == Cardinality(Using(b)')
  <2> SUFFICES IF b \in zeroed' THEN bindings'[b] <= V ELSE bindings'[b] = V
    OBVIOUS
  <2>1. IsFiniteSet(Using(b)) /\ U \in Nat
    BY FS_Subset, FS_CardinalityType, DispatchAssumption DEF Using
  <2>2. bindings[b] \in Nat /\ BindingCeiling \in Nat
    BY DispatchAssumption DEF TypeOK
  <2>3. IF b \in zeroed THEN bindings[b] <= U ELSE bindings[b] = U
    BY DEF BindingsAccounted
  <2>4. b \in zeroed' <=> /\ Using(b)' # {}
                          /\ b \in zeroed \/ (bindings[b] > BindingCeiling /\ bindings'[b] = 0)
    BY <1>1
  <2>5. CASE SameOn(b)
    <3>1. V = U /\ (Using(b)' = {} => U = 0) /\ bindings'[b] = bindings[b]
      BY <2>5, FS_EmptySet DEF SameOn
    <3> HIDE DEF U, V
    <3> QED
      BY <2>1, <2>2, <2>3, <2>4, <3>1
  <2>6. CASE JoinedOn(b)
    <3>1. V = U + 1 /\ Using(b)' # {} /\ bindings'[b] = bindings[b] + 1
      BY <2>1, <2>6, FS_AddElement DEF JoinedOn
    <3> HIDE DEF U, V
    <3> QED
      BY <2>1, <2>2, <2>3, <2>4, <3>1
  <2>7. CASE LeftOn(b)
    <3>1. PICK t \in Using(b) :
            /\ Using(b)' = Using(b) \ {t}
            /\ bindings'[b] = IF bindings[b] > 0 THEN bindings[b] - 1 ELSE bindings[b]
      BY <2>7 DEF LeftOn
    <3>2. V = U - 1 /\ V \in Nat
      BY <2>1, <3>1, FS_RemoveElement, FS_Subset, FS_CardinalityType
    <3>3. IsFiniteSet(Using(b)') /\ (Using(b)' = {} <=> V = 0)
      BY <2>1, <3>1, FS_RemoveElement, FS_EmptySet
    <3> HIDE DEF U, V
    <3> QED
      BY <2>1, <2>2, <2>3, <2>4, <3>1, <3>2, <3>3
  <2>8. CASE ZeroedOn(b)
    <3>1. V = U /\ (Using(b)' = {} => V = 0)
      BY <2>8, FS_EmptySet DEF ZeroedOn
    <3>2. bindings[b] > BindingCeiling /\ bindings'[b] = 0
      BY <2>8 DEF ZeroedOn
    <3> HIDE DEF U, V
    <3> QED
      BY <2>1, <2>4, <3>1, <3>2
  <2>9. CASE LostOn(b)
    <3>1. V = 0 /\ Using(b)' = {} /\ bindings'[b] = 0
      BY <2>9, FS_EmptySet DEF LostOn
    <3> HIDE DEF U, V
    <3> QED
      BY <2>4, <3>1
  <2> QED
    BY <2>5, <2>6, <2>7, <2>8, <2>9, BindingEffects DEF BindingEffect
<1> QED
  BY <1>2, <1>3

-----------------------------------------------------------------------------
(* What the database counts.                                               *)
SameCount(e) ==
  Live(e)' = Live(e) /\ inflight'[e] = inflight[e] /\ leaked'[e] = leaked[e]

JoinedCount(e) ==
  /\ \E t \in Task \ Live(e) : Live(e)' = Live(e) \cup {t}
  /\ inflight'[e] = inflight[e] + 1 /\ leaked'[e] = leaked[e]

LeftCount(e) ==
  /\ \E t \in Live(e) : Live(e)' = Live(e) \ {t}
  /\ inflight'[e] = IF inflight[e] = 0 THEN 0 ELSE inflight[e] - 1
  /\ leaked'[e] = leaked[e]

Zeroed(e) ==
  /\ Live(e)' = Live(e)
  /\ inflight[e] > InflightCeiling /\ inflight'[e] = 0 /\ leaked'[e] = 0

LostCount(e) == Live(e)' = {} /\ leaked'[e] = inflight'[e]

CountEffect(e) ==
  SameCount(e) \/ JoinedCount(e) \/ LeftCount(e) \/ Zeroed(e) \/ LostCount(e)

(* One task's step, by what it counts on before and after.                 *)
LEMMA OneCounts ==
  ASSUME TypeOK, NEW t \in Task, Step(t), NEW e \in Email, leaked' = leaked
  PROVE  /\ /\ Counts(t, e)' <=> Counts(t, e)
            /\ inflight'[e] = inflight[e]
            => SameCount(e)
         /\ /\ ~Counts(t, e) /\ Counts(t, e)'
            /\ inflight'[e] = inflight[e] + 1
            => JoinedCount(e)
         /\ /\ Counts(t, e) /\ ~Counts(t, e)'
            /\ inflight'[e] = IF inflight[e] = 0 THEN 0 ELSE inflight[e] - 1
            => LeftCount(e)
<1>1. \A u \in Task : u # t => (u \in Live(e)' <=> u \in Live(e))
  BY OthersStay, StaysMeans DEF Live
<1>2. /\ Live(e) \subseteq Task /\ Live(e)' \subseteq Task
      /\ t \in Live(e) <=> Counts(t, e)
      /\ t \in Live(e)' <=> Counts(t, e)'
  BY DEF Live
<1>3. ASSUME Counts(t, e)' <=> Counts(t, e)
      PROVE  Live(e)' = Live(e)
  BY <1>1, <1>2, <1>3
<1>4. ASSUME ~Counts(t, e), Counts(t, e)'
      PROVE  t \in Task \ Live(e) /\ Live(e)' = Live(e) \cup {t}
  BY <1>1, <1>2, <1>4
<1>5. ASSUME Counts(t, e), ~Counts(t, e)'
      PROVE  t \in Live(e) /\ Live(e)' = Live(e) \ {t}
  BY <1>1, <1>2, <1>5
<1>6. leaked'[e] = leaked[e]
  OBVIOUS
<1> QED
  BY <1>3, <1>4, <1>5, <1>6 DEF SameCount, JoinedCount, LeftCount

LEMMA TouchOne ==
  ASSUME TypeOK, NEW d \in Email, TouchDown(d), NEW e \in Email
  PROVE  inflight'[e] = IF e # d THEN inflight[e]
                        ELSE IF inflight[e] = 0 THEN 0 ELSE inflight[e] - 1
<1>1. CASE e = d
  BY <1>1 DEF TouchDown, TypeOK
<1>2. CASE e # d
  BY <1>2 DEF TouchDown, TypeOK
<1> QED
  BY <1>1, <1>2

LEMMA CountEffects ==
  ASSUME TypeOK, Tidy, [Next]_vars, NEW e \in Email
  PROVE  CountEffect(e)
<1>1. ASSUME NEW t \in Task, Admit(t)
      PROVE  CountEffect(e)
  <2>1. pc[t] = "idle" /\ pc'[t] = "count" /\ try'[t] = 1 /\ UNCHANGED <<inflight, leaked>>
    BY <1>1 DEF Admit, Tidy, TypeOK
  <2>2. ~Counts(t, e) /\ ~Counts(t, e)'
    BY <2>1 DEF Counts, AtWork
  <2> QED
    BY <1>1, <2>1, <2>2, OneCounts DEF CountEffect, Step
<1>2. ASSUME NEW t \in Task, Count(t)
      PROVE  CountEffect(e)
  <2>1. /\ pc[t] = "count" /\ (Cand(t))' = Cand(t) /\ cands' = cands /\ try' = try
        /\ leaked' = leaked
    BY <1>2 DEF Count, Cand
  <2>2. pc'[t] = IF try[t] = 1 THEN "bind" ELSE "uncount"
    BY <1>2, Zenon DEF Count, TypeOK
  <2>3. /\ cands[t] \in Seq(Email) /\ try[t] \in 1 .. Len(cands[t])
        /\ Cand(t) = cands[t][try[t]] /\ Cand(t) \in Email
        /\ \A i, k \in 1 .. Len(cands[t]) : cands[t][i] = cands[t][k] => i = k
    BY <2>1, CandType DEF Cand, Tidy, CandidateList
  <2>4. try[t] > 1 => cands[t][try[t] - 1] # Cand(t)
    <3>1. try[t] > 1 => try[t] - 1 \in 1 .. Len(cands[t]) /\ try[t] - 1 # try[t]
      BY <2>3
    <3> QED
      BY <2>3, <3>1
  <2>5. Counts(t, e) <=> try[t] > 1 /\ cands[t][try[t] - 1] = e
    BY <2>1 DEF Counts, AtWork
  <2>6. Counts(t, e)' <=> e = Cand(t) \/ (try[t] > 1 /\ cands[t][try[t] - 1] = e)
    <3>1. CASE try[t] = 1
      BY <2>1, <2>2, <3>1 DEF Counts, AtWork
    <3>2. CASE try[t] # 1
      <4>1. pc'[t] = "uncount"
        BY <2>2, <3>2
      <4> QED
        BY <2>1, <4>1 DEF Counts, AtWork
    <3> QED
      BY <3>1, <3>2
  <2>7. inflight' = [inflight EXCEPT ![Cand(t)] = @ + 1]
    BY <1>2 DEF Count
  <2>8. CASE e = Cand(t)
    <3>1. ~Counts(t, e) /\ Counts(t, e)' /\ inflight'[e] = inflight[e] + 1
      BY <2>4, <2>5, <2>6, <2>7, <2>8 DEF TypeOK
    <3> QED
      BY <1>2, <2>1, <3>1, OneCounts DEF CountEffect, Step
  <2>9. CASE e # Cand(t)
    <3>1. (Counts(t, e)' <=> Counts(t, e)) /\ inflight'[e] = inflight[e]
      BY <2>5, <2>6, <2>7, <2>9 DEF TypeOK
    <3> QED
      BY <1>2, <2>1, <3>1, OneCounts DEF CountEffect, Step
  <2> QED
    BY <2>8, <2>9
<1>3. ASSUME NEW t \in Task, Uncount(t)
      PROVE  CountEffect(e)
  <2>1. /\ pc[t] = "uncount" /\ pc'[t] = "bind" /\ (Cand(t))' = Cand(t)
        /\ leaked' = leaked /\ try[t] > 1
    BY <1>3 DEF Uncount, Cand, TypeOK, Tidy
  <2> DEFINE d == cands[t][try[t] - 1]
  <2>2. d \in Email /\ TouchDown(d)
    BY <1>3, <2>1, CandType DEF Uncount
  <2>3. d # Cand(t)
    <3>1. /\ cands[t] \in Seq(Email) /\ try[t] \in 1 .. Len(cands[t])
          /\ \A i, k \in 1 .. Len(cands[t]) : cands[t][i] = cands[t][k] => i = k
      BY <2>1, CandType DEF Tidy, CandidateList
    <3>2. try[t] - 1 \in 1 .. Len(cands[t]) /\ try[t] - 1 # try[t]
      BY <2>1, <3>1
    <3> QED
      BY <3>1, <3>2 DEF Cand
  <2>4. Counts(t, e) <=> e = Cand(t) \/ e = d
    BY <2>1 DEF Counts, AtWork
  <2>5. Counts(t, e)' <=> e = Cand(t)
    BY <2>1 DEF Counts, AtWork
  <2>6. inflight'[e] = IF e # d THEN inflight[e]
                       ELSE IF inflight[e] = 0 THEN 0 ELSE inflight[e] - 1
    BY <2>2, TouchOne
  <2> HIDE DEF d
  <2>7. CASE e = d
    BY <1>3, <2>1, <2>3, <2>4, <2>5, <2>6, <2>7, OneCounts DEF CountEffect, Step
  <2>8. CASE e # d
    BY <1>3, <2>1, <2>4, <2>5, <2>6, <2>8, OneCounts DEF CountEffect, Step
  <2> QED
    BY <2>7, <2>8
<1>4. ASSUME NEW t \in Task, Bind(t) \/ TakeAccount(t) \/ TakeSs(t)
      PROVE  CountEffect(e)
  <2>1. /\ pc[t] \in AtWork \cup {"bind"} /\ pc'[t] \in AtWork /\ (Cand(t))' = Cand(t)
        /\ UNCHANGED <<inflight, leaked>>
    BY <1>4 DEF Bind, TakeAccount, TakeSs, AtWork, Cand, TypeOK
  <2>2. Counts(t, e)' <=> Counts(t, e)
    BY <2>1 DEF Counts, AtWork
  <2> QED
    BY <1>4, <2>1, <2>2, OneCounts DEF CountEffect, Step
<1>5. ASSUME NEW t \in Task, Step(t), Leaves(t)
      PROVE  CountEffect(e)
  <2>1. PICK l \in Base : NextAttempt(t, l) \/ Finish(t, l)
    BY <1>5 DEF Leaves, Base
  <2>2. /\ pc[t] \in AtWork \cup {"bind"} /\ UNCHANGED <<cands, inflight, leaked>>
    BY <1>5, <2>1 DEF Leaves, NextAttempt, Finish
  <2>3. Counts(t, e) <=> e = Cand(t)
    BY <2>2 DEF Counts, AtWork
  <2>4. Counts(t, e)' <=> e = Cand(t)
    <3>1. CASE NextAttempt(t, l)
      <4>1. pc'[t] = "count" /\ try'[t] = try[t] + 1 /\ try[t] \in Nat /\ try[t] >= 1
        BY <3>1, DispatchAssumption DEF NextAttempt, TypeOK
      <4>2. try'[t] > 1 /\ try'[t] - 1 = try[t]
        BY <4>1
      <4> QED
        BY <2>2, <4>1, <4>2 DEF Counts, AtWork, Cand
    <3>2. CASE Finish(t, l)
      <4>1. pc'[t] = "end" /\ (Cand(t))' = Cand(t)
        BY <3>2 DEF Finish, Cand, TypeOK
      <4> QED
        BY <4>1 DEF Counts, AtWork
    <3> QED
      BY <2>1, <3>1, <3>2
  <2> QED
    BY <1>5, <2>2, <2>3, <2>4, OneCounts DEF CountEffect
<1>6. ASSUME NEW t \in Task, End(t)
      PROVE  CountEffect(e)
  <2>1. pc[t] = "end" /\ pc'[t] \in {"idle", "count"} /\ try'[t] = 1 /\ leaked' = leaked
    BY <1>6 DEF End, TypeOK
  <2>2. Cand(t) \in Email /\ TouchDown(Cand(t))
    BY <1>6, CandType DEF End
  <2>3. (Counts(t, e) <=> e = Cand(t)) /\ ~Counts(t, e)'
    BY <2>1 DEF Counts, AtWork
  <2>4. inflight'[e] = IF e # Cand(t) THEN inflight[e]
                       ELSE IF inflight[e] = 0 THEN 0 ELSE inflight[e] - 1
    BY <2>2, TouchOne
  <2>5. CASE e = Cand(t)
    BY <1>6, <2>1, <2>3, <2>4, <2>5, OneCounts DEF CountEffect, Step
  <2>6. CASE e # Cand(t)
    BY <1>6, <2>1, <2>3, <2>4, <2>6, OneCounts DEF CountEffect, Step
  <2> QED
    BY <2>5, <2>6
<1>7. CASE Background \/ UNCHANGED vars
  <2>1. Live(e)' = Live(e)
    BY <1>7, BackgroundStays, StaysMeans DEF Live
  <2>2. CASE ReconcileInflight
    <3>1. InflightCeiling \in Nat
      BY DispatchAssumption DEF InflightCeiling
    <3>2. inflight'[e] = IF inflight[e] > InflightCeiling THEN 0 ELSE inflight[e]
      BY <2>2 DEF ReconcileInflight, Clamped
    <3>3. leaked'[e] = IF inflight'[e] = inflight[e] THEN leaked[e] ELSE 0
      BY <2>2 DEF ReconcileInflight
    <3>4. inflight[e] \in Nat
      BY DEF TypeOK
    <3> QED
      BY <2>1, <3>1, <3>2, <3>3, <3>4 DEF CountEffect, SameCount, Zeroed
  <2>3. CASE ~ReconcileInflight
    BY <1>7, <2>1, <2>3 DEF Background, ReconcileBindings, Watchdog, Age, vars, history,
       CountEffect, SameCount
  <2> QED
    BY <2>2, <2>3
<1>8. CASE Crash
  BY <1>8 DEF Crash, NoTask, Live, Counts, AtWork, CountEffect, LostCount
<1>9. ASSUME NEW t \in Task, ChatImage(t)
      PROVE  CountEffect(e)
  <2>1. PICK d \in Email : /\ cands' = [cands EXCEPT ![t] = <<d>>]
                           /\ inflight' = [inflight EXCEPT ![d] = @ + 1]
    BY <1>9 DEF ChatImage
  <2>2. pc[t] = "idle" /\ pc'[t] = "chat" /\ try'[t] = 1 /\ leaked' = leaked
    BY <1>9 DEF ChatImage, Tidy, TypeOK
  <2>3. (Cand(t))' = d
    BY <2>1, <2>2 DEF Cand, TypeOK
  <2>4. ~Counts(t, e) /\ (Counts(t, e)' <=> e = d)
    BY <2>2, <2>3 DEF Counts, AtWork
  <2>5. inflight'[e] = IF e = d THEN inflight[e] + 1 ELSE inflight[e]
    BY <2>1 DEF TypeOK
  <2> QED
    BY <1>9, <2>2, <2>4, <2>5, OneCounts DEF CountEffect, Step
<1>10. ASSUME NEW t \in Task, ChatImageEnds(t)
      PROVE  CountEffect(e)
  <2>1. pc[t] = "chat" /\ pc'[t] = "idle" /\ leaked' = leaked
    BY <1>10 DEF ChatImageEnds, TypeOK
  <2>2. Cand(t) \in Email /\ TouchDown(Cand(t))
    BY <1>10, CandType DEF ChatImageEnds
  <2>3. (Counts(t, e) <=> e = Cand(t)) /\ ~Counts(t, e)'
    BY <2>1 DEF Counts, AtWork
  <2>4. inflight'[e] = IF e # Cand(t) THEN inflight[e]
                       ELSE IF inflight[e] = 0 THEN 0 ELSE inflight[e] - 1
    BY <2>2, TouchOne
  <2>5. CASE e = Cand(t)
    BY <1>10, <2>1, <2>3, <2>4, <2>5, OneCounts DEF CountEffect, Step
  <2>6. CASE e # Cand(t)
    BY <1>10, <2>1, <2>3, <2>4, <2>6, OneCounts DEF CountEffect, Step
  <2> QED
    BY <2>5, <2>6
<1> QED
  BY <1>1, <1>2, <1>3, <1>4, <1>5, <1>6, <1>7, <1>8, <1>9, <1>10, StepCases DEF Next, Background

(* A counter that has been zeroed under its tasks owes nothing to crashes. *)
WipedOwesNothing == \A e \in wiped : leaked[e] = 0

LEMMA CeilingPositive == InflightCeiling \in Nat /\ InflightCeiling > 0
BY DispatchAssumption DEF InflightCeiling

LEMMA InflightStep ==
  ASSUME TypeOK, Tidy, InflightAccounted, WipedOwesNothing, Next
  PROVE  InflightAccounted' /\ WipedOwesNothing'
<1>1. Remember
  BY NextRemembers
<1> SUFFICES ASSUME NEW e \in Email
             PROVE  /\ IF e \in wiped' THEN inflight'[e] <= Cardinality(Live(e)')
                       ELSE inflight'[e] = Cardinality(Live(e)') + leaked'[e]
                    /\ e \in wiped' => leaked'[e] = 0
  BY <1>1 DEF InflightAccounted, WipedOwesNothing, Remember
<1> DEFINE L == Cardinality(Live(e))
           M == Cardinality(Live(e)')
<1> SUFFICES /\ IF e \in wiped' THEN inflight'[e] <= M ELSE inflight'[e] = M + leaked'[e]
             /\ e \in wiped' => leaked'[e] = 0
  OBVIOUS
<1>2. IsFiniteSet(Live(e)) /\ L \in Nat
  BY FS_Subset, FS_CardinalityType, DispatchAssumption DEF Live
<1>3. inflight[e] \in Nat /\ leaked[e] \in Nat
  BY DEF TypeOK
<1>4. IF e \in wiped THEN inflight[e] <= L /\ leaked[e] = 0 ELSE inflight[e] = L + leaked[e]
  BY DEF InflightAccounted, WipedOwesNothing
<1>5. e \in wiped' <=> /\ Live(e)' # {}
                       /\ e \in wiped \/ (inflight[e] > InflightCeiling /\ inflight'[e] = 0)
  BY <1>1 DEF Remember
<1>6. CASE SameCount(e)
  <2>1. M = L /\ (Live(e)' = {} => L = 0)
    BY <1>6, FS_EmptySet DEF SameCount
  <2>2. inflight'[e] = inflight[e] /\ leaked'[e] = leaked[e]
    BY <1>6 DEF SameCount
  <2> HIDE DEF L, M
  <2> QED
    BY <1>2, <1>3, <1>4, <1>5, <2>1, <2>2, CeilingPositive
<1>7. CASE JoinedCount(e)
  <2>1. M = L + 1 /\ Live(e)' # {}
    BY <1>2, <1>7, FS_AddElement DEF JoinedCount
  <2>2. inflight'[e] = inflight[e] + 1 /\ leaked'[e] = leaked[e]
    BY <1>7 DEF JoinedCount
  <2> HIDE DEF L, M
  <2> QED
    BY <1>2, <1>3, <1>4, <1>5, <2>1, <2>2
<1>8. CASE LeftCount(e)
  <2>1. PICK t \in Live(e) : Live(e)' = Live(e) \ {t}
    BY <1>8 DEF LeftCount
  <2>2. M = L - 1 /\ M \in Nat
    BY <1>2, <2>1, FS_RemoveElement, FS_Subset, FS_CardinalityType
  <2>3. Live(e)' = {} => M = 0
    BY FS_EmptySet
  <2>4. /\ inflight'[e] = IF inflight[e] = 0 THEN 0 ELSE inflight[e] - 1
        /\ leaked'[e] = leaked[e]
    BY <1>8 DEF LeftCount
  <2> HIDE DEF L, M
  <2>5. e \in wiped' => e \in wiped
    BY <1>3, <1>5, <2>4, CeilingPositive
  <2>6. CASE e \in wiped
    BY <1>2, <1>3, <1>4, <1>5, <2>2, <2>3, <2>4, <2>6
  <2>7. CASE e \notin wiped
    BY <1>2, <1>3, <1>4, <2>2, <2>4, <2>5, <2>7
  <2> QED
    BY <2>6, <2>7
<1>9. CASE Zeroed(e)
  <2>1. M = L /\ (Live(e)' = {} => M = 0)
    BY <1>9, FS_EmptySet DEF Zeroed
  <2>2. inflight[e] > InflightCeiling /\ inflight'[e] = 0 /\ leaked'[e] = 0
    BY <1>9 DEF Zeroed
  <2> HIDE DEF L, M
  <2> QED
    BY <1>2, <1>5, <2>1, <2>2
<1>10. CASE LostCount(e)
  <2>1. M = 0 /\ Live(e)' = {} /\ leaked'[e] = inflight'[e]
    BY <1>10, FS_EmptySet DEF LostCount
  <2>2. TypeOK'
    BY TypeStep
  <2>3. inflight'[e] \in Nat
    BY <2>2 DEF TypeOK
  <2> HIDE DEF L, M
  <2> QED
    BY <1>5, <2>1, <2>3
<1> QED
  BY <1>6, <1>7, <1>8, <1>9, <1>10, CountEffects DEF CountEffect

-----------------------------------------------------------------------------
IInv ==
  /\ TypeOK /\ Tidy
  /\ NoStuckSlot /\ SharedOnlyAfterExpiry /\ BindingsAccounted /\ CeilingSpares
  /\ InflightAccounted /\ WipedOwesNothing

LEMMA InductiveInit == Init => IInv
<1> SUFFICES ASSUME Init
             PROVE  IInv
  OBVIOUS
<1>1. /\ \A e : Live(e) = {}
      /\ \A b : Using(b) = {}
      /\ \A k : Holders(k) = {}
  BY DEF Init, NoTask, Live, Counts, Using, Holders, Holds, AtWork
<1>2. TypeOK /\ Tidy
  BY TypeInit
<1>3. NoStuckSlot /\ SharedOnlyAfterExpiry
  BY <1>1 DEF Init, NoStuckSlot, SharedOnlyAfterExpiry
<1>4. BindingsAccounted /\ CeilingSpares /\ InflightAccounted /\ WipedOwesNothing
  <2>1. Cardinality({}) = 0
    BY FS_EmptySet
  <2>2. BindingsAccounted /\ CeilingSpares /\ WipedOwesNothing
    BY <1>1, <2>1 DEF Init, BindingsAccounted, CeilingSpares, WipedOwesNothing
  <2>3. ASSUME NEW e \in Email
        PROVE  e \notin wiped /\ inflight[e] = Cardinality(Live(e)) + leaked[e]
    <3>1. Cardinality(Live(e)) = 0
      BY <1>1, <2>1
    <3>2. inflight[e] = 0 /\ leaked[e] = 0 /\ wiped = {}
      BY DEF Init
    <3> QED
      BY <3>1, <3>2
  <2> QED
    BY <2>2, <2>3 DEF InflightAccounted
<1> QED
  BY <1>2, <1>3, <1>4 DEF IInv

LEMMA InductiveStep == IInv /\ [Next]_vars => IInv'
<1> SUFFICES ASSUME IInv, [Next]_vars
             PROVE  IInv'
  OBVIOUS
<1>1. (TypeOK /\ Tidy)' /\ NoStuckSlot'
  BY TypeStep, NoStuckSlotStep DEF IInv
<1>2. CASE Next
  BY <1>1, <1>2, SharedStep, BindingsStep, InflightStep DEF IInv
<1>3. CASE UNCHANGED vars
  <2>1. \A u \in Task : Stays(u)
    BY <1>3, BackgroundStays
  <2>2. /\ \A k \in Key : Holders(k)' = Holders(k)
        /\ \A e \in Email : Live(e)' = Live(e)
        /\ \A b \in Binding : Using(b)' = Using(b)
    <3>1. \A b : Using(b) \subseteq Task /\ Using(b)' \subseteq Task
      BY DEF Using
    <3> QED
      BY <2>1, <3>1, StaysMeans DEF Holders, Live
  <2>3. UNCHANGED <<inflight, bindings, ledger, leaked, wiped, zeroed, expired>>
    BY <1>3 DEF vars, history
  <2>4. SharedOnlyAfterExpiry'
    BY <2>2, <2>3 DEF IInv, SharedOnlyAfterExpiry
  <2>5. InflightAccounted' /\ WipedOwesNothing'
    BY <2>2, <2>3 DEF IInv, InflightAccounted, WipedOwesNothing
  <2>6. BindingsAccounted' /\ CeilingSpares'
    BY <2>2, <2>3 DEF IInv, BindingsAccounted, CeilingSpares
  <2> QED
    BY <1>1, <2>4, <2>5, <2>6 DEF IInv
<1> QED
  BY <1>2, <1>3

LEMMA Inductive == Spec => []IInv
BY InductiveInit, InductiveStep, PTL DEF Spec

(* No task is ever beyond its candidates, no counter leaves its range, and *)
(* no slot or count belongs to what is not there.                          *)
THEOREM TypeCorrect == Spec => []TypeOK
<1>1. IInv => TypeOK
  BY DEF IInv
<1> QED
  BY <1>1, Inductive, PTL

(* However attempts end, the count of a proxy is the number of attempts    *)
(* that run through it (binding_inflight.rs), or at most that number while *)
(* attempts run that the reconcile loop has taken for a leak, or overlap   *)
(* with such: for any limit and any ceiling.                               *)
THEOREM ProxiesAccounted == Spec => []BindingsAccounted
<1>1. IInv => BindingsAccounted
  BY DEF IInv
<1> QED
  BY <1>1, Inductive, PTL

(* The in-flight counter of an account in the database is the number of    *)
(* its tasks plus what crashes left, until the reconciler zeroes it, and   *)
(* then it is at most that number (scheduling_gate.rs).                    *)
THEOREM CountersAccounted == Spec => []InflightAccounted
<1>1. IInv => InflightAccounted
  BY DEF IInv
<1> QED
  BY <1>1, Inductive, PTL

(* Every slot that is taken has a task that will give it back              *)
(* (slot_ledger.rs), for any lateness of tasks and watchdog.               *)
THEOREM SlotsComeBack == Spec => []NoStuckSlot
<1>1. IInv => NoStuckSlot
  BY DEF IInv
<1> QED
  BY <1>1, Inductive, PTL

(* Two attempts share an account or an sS slot only if a slot expired      *)
(* under one of them, or under one that overlapped with them               *)
(* (slot_ledger.rs).                                                       *)
THEOREM ExclusiveUntilExpiry == Spec => []SharedOnlyAfterExpiry
<1>1. IInv => SharedOnlyAfterExpiry
  BY DEF IInv
<1> QED
  BY <1>1, Inductive, PTL

-----------------------------------------------------------------------------
Upstream == {t \in Task : pc[t] = "upstream"}

(* The attempts that share account e, binding b, or an sS slot.            *)
OnAccount(e) == {t \in Upstream : Cand(t) = e}
Through(b) == {t \in Upstream : BindingOf[Cand(t)] = b}

LimitsAtUpstream ==
  /\ \A b \in Binding \ zeroed : Cardinality(Through(b)) <= BindingMax
  /\ BindingMax <= BindingCeiling => zeroed = {}
  /\ \A e \in Email \ expired : \A t, u \in OnAccount(e) : t = u
  /\ (IsFiniteSet(SsSlot) /\ expired \cap SsSlot = {})
       => Cardinality(Upstream) <= Cardinality(SsSlot)

InAllLedgers ==
  \A t \in Upstream :
    /\ Cand(t) \notin wiped => inflight[Cand(t)] >= 1
    /\ BindingOf[Cand(t)] \notin zeroed => bindings[BindingOf[Cand(t)]] >= 1
    /\ Cand(t) \notin expired => ledger[Cand(t)] # "free"
    /\ ss[t] \notin expired => ledger[ss[t]] # "free"

(* An attempt at the upstream is where it should be.                       *)
LEMMA UpstreamPlaces ==
  ASSUME TypeOK, NEW t \in Upstream
  PROVE  /\ t \in Task /\ Cand(t) \in Email /\ BindingOf[Cand(t)] \in Binding
         /\ ss[t] \in SsSlot /\ Cand(t) \in Key /\ ss[t] \in Key
         /\ t \in Holders(Cand(t)) /\ t \in Holders(ss[t])
         /\ t \in Live(Cand(t)) /\ t \in Using(BindingOf[Cand(t)])
<1>1. t \in Task /\ pc[t] = "upstream"
  BY DEF Upstream
<1>2. try[t] \in 1 .. RetryCap /\ try[t] <= Len(cands[t]) /\ cands[t] \in Seq(Email)
  BY <1>1 DEF TypeOK
<1>3. Cand(t) \in Email
  BY <1>2, DispatchAssumption DEF Cand
<1>4. ss[t] \in SsSlot /\ BindingOf[Cand(t)] \in Binding
  BY <1>1, <1>3, DispatchAssumption DEF TypeOK
<1> QED
  BY <1>1, <1>3, <1>4 DEF Key, Holders, Holds, Live, Counts, Using, AtWork

LEMMA ProxyLimit ==
  ASSUME IInv, NEW b \in Binding \ zeroed
  PROVE  Cardinality(Through(b)) <= BindingMax
<1>1. Through(b) \subseteq Using(b) /\ IsFiniteSet(Using(b))
  BY UpstreamPlaces, DispatchAssumption, FS_Subset DEF Through, Upstream, Using, AtWork
<1>2. /\ Cardinality(Through(b)) <= Cardinality(Using(b))
      /\ Cardinality(Through(b)) \in Nat /\ Cardinality(Using(b)) \in Nat
  BY <1>1, FS_Subset, FS_CardinalityType
<1>3. Cardinality(Using(b)) <= BindingMax
  BY DEF IInv, TypeOK, BindingsAccounted
<1> QED
  BY <1>2, <1>3, DispatchAssumption

LEMMA SsLimit ==
  ASSUME IInv, IsFiniteSet(SsSlot), expired \cap SsSlot = {}
  PROVE  Cardinality(Upstream) <= Cardinality(SsSlot)
<1> DEFINE f == [t \in Upstream |-> ss[t]]
<1>1. \A t \in Upstream : ss[t] \in SsSlot /\ ss[t] \in Key \ expired /\ t \in Holders(ss[t])
  BY UpstreamPlaces DEF IInv
<1>2. \A t, u \in Upstream : ss[t] = ss[u] => t = u
  BY <1>1 DEF IInv, SharedOnlyAfterExpiry
<1>3. f \in Injection(Upstream, SsSlot)
  BY <1>1, <1>2 DEF Injection, IsInjective
<1> QED
  BY <1>3, FS_Injection

LEMMA AccountedFor ==
  ASSUME IInv, NEW t \in Upstream
  PROVE  /\ Cand(t) \notin wiped => inflight[Cand(t)] >= 1
         /\ BindingOf[Cand(t)] \notin zeroed => bindings[BindingOf[Cand(t)]] >= 1
         /\ Cand(t) \notin expired => ledger[Cand(t)] # "free"
         /\ ss[t] \notin expired => ledger[ss[t]] # "free"
<1> DEFINE e == Cand(t)
           b == BindingOf[Cand(t)]
<1>1. /\ e \in Email /\ b \in Binding /\ e \in Key /\ ss[t] \in Key
      /\ t \in Holders(e) /\ t \in Holders(ss[t]) /\ t \in Live(e) /\ t \in Using(b)
  BY UpstreamPlaces DEF IInv
<1> HIDE DEF e, b
<1>2. ASSUME NEW S \in SUBSET Task, t \in S
      PROVE  Cardinality(S) \in Nat /\ Cardinality(S) >= 1
  <2>1. IsFiniteSet(S) /\ S # {}
    BY <1>2, DispatchAssumption, FS_Subset
  <2> QED
    BY <2>1, FS_CardinalityType, FS_EmptySet
<1>3. Live(e) \in SUBSET Task /\ Using(b) \in SUBSET Task
  BY DEF Live, Using
<1>4. e \notin wiped => inflight[e] >= 1
  <2>1. leaked[e] \in Nat
    BY <1>1 DEF IInv, TypeOK
  <2>2. e \notin wiped => inflight[e] = Cardinality(Live(e)) + leaked[e]
    BY <1>1 DEF IInv, InflightAccounted
  <2> QED
    BY <1>1, <1>2, <1>3, <2>1, <2>2
<1>5. b \notin zeroed => bindings[b] >= 1
  BY <1>1, <1>2, <1>3 DEF IInv, BindingsAccounted
<1>6. /\ e \notin expired => ledger[e] # "free"
      /\ ss[t] \notin expired => ledger[ss[t]] # "free"
  BY <1>1 DEF IInv, SharedOnlyAfterExpiry
<1> QED
  BY <1>4, <1>5, <1>6 DEF e, b

(* What the four ledgers are for.  Image attempts at the upstream share a  *)
(* proxy beyond image_binding_inflight_max only after the reconcile loop   *)
(* has zeroed its count, and it never does if the limit is within its      *)
(* ceiling; as long as no slot has expired under an attempt, an account    *)
(* has one at a time and all accounts together as many as there are sS     *)
(* slots.  And each is in all four ledgers, so none is invisible to        *)
(* admission, but for what a reconcile has zeroed and a watchdog has       *)
(* evicted (main.rs:1213-1347).  Images of a chat are in one ledger only,  *)
(* the in-flight counter, and are not bounded (main.rs:924-970).           *)
THEOREM UpstreamIsBounded == Spec => [](LimitsAtUpstream /\ InAllLedgers)
<1>1. IInv => LimitsAtUpstream
  <2> SUFFICES ASSUME IInv
               PROVE  LimitsAtUpstream
    OBVIOUS
  <2>1. ASSUME NEW e \in Email \ expired, NEW t \in OnAccount(e), NEW u \in OnAccount(e)
        PROVE  t = u
    <3>1. t \in Holders(e) /\ u \in Holders(e) /\ e \in Key \ expired
      BY <2>1, UpstreamPlaces DEF OnAccount, IInv
    <3> QED
      BY <3>1 DEF IInv, SharedOnlyAfterExpiry
  <2> QED
    BY <2>1, ProxyLimit, SsLimit DEF LimitsAtUpstream, IInv, CeilingSpares
<1>2. IInv => InAllLedgers
  BY AccountedFor DEF InAllLedgers
<1> QED
  BY <1>1, <1>2, Inductive, PTL
=============================================================================
