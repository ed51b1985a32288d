--------------------------- MODULE ChatEngine_proofs ---------------------------
(***************************************************************************)
(* Proofs about ChatEngine, for any number of accounts and requests, and   *)
(* any limits.  The pool's own proofs are reused: whatever the engine, the *)
(* probe and reconcile do to the pool is an operation of the pool.         *)
(***************************************************************************)
EXTENDS ChatEngine, SimplifiedPool_proofs, FiniteSetTheorems

Places == {"idle"} \cup InFlight \cup Over

(* What a request keeps between its awaits.                                *)
Locals ==
  /\ pc \in [Request -> Places]
  /\ kind \in [Request -> {"chat", "ocr", "direct"}]
  /\ tried \in [Request -> Seq(Account)]
  /\ skip \in [Request -> SUBSET Account]
  /\ weak \in [Request -> BOOLEAN]

Gates == permits \in [Account -> Nat] /\ ocr_gate \in Nat

(* What is left of a stored cooldown is at most the base backoff.          *)
Outside ==
  /\ enabled \in SUBSET Account
  /\ stored \in [Account -> 0..RlBase]
  /\ DOMAIN listing = {"ids", "left", "busy"}
  /\ listing = [ids |-> listing.ids, left |-> listing.left, busy |-> listing.busy]
  /\ listing.ids \in SUBSET Account /\ listing.busy \in BOOLEAN
  /\ listing.busy => listing.left \in [listing.ids -> 0..RlBase]
  /\ spawned \subseteq [req : Request, on : Account,
                         outcome : {"success", "rate_limited"}]
  /\ todo \in SUBSET Account /\ probing \in Account \cup {None}

(* What is true of a request where it is.  In the select loop it passes    *)
(* over all it has tried, and else over keyless accounts only.             *)
Placed(r) ==
  /\ pc[r] \in {"idle", "gate"} => tried[r] = <<>> /\ skip[r] = {}
  /\ pc[r] = "gate" => kind[r] = "ocr"
  /\ pc[r] = "select" => /\ ToSet(tried[r]) \subseteq skip[r]
                         /\ skip[r] \subseteq ToSet(tried[r]) \cup (Account \ HasKeys)
                         /\ Len(tried[r]) < RetryMax
  /\ pc[r] \in {"lease"} \cup Leased => tried[r] # <<>>

Elsewhere(r) ==
  /\ IsFiniteSet(ToSet(tried[r]))
  /\ Cardinality(ToSet(tried[r])) = Len(tried[r])
  /\ Len(tried[r]) <= RetryMax

Requests == Locals /\ \A r \in Request : Placed(r) /\ Elsewhere(r)

-----------------------------------------------------------------------------
(* Lists of accounts.                                                      *)
LEMMA Limits ==
  /\ RetryMax \in Nat \ {0} /\ MaxAttempts \in Nat \ {0}
  /\ LeaseLimit \in Nat \ {0} /\ OcrLimit \in Nat \ {0}
BY EngineAssumption

LEMMA ListFacts ==
  /\ ToSet(<<>>) = {} /\ Len(<<>>) = 0 /\ <<>> \in Seq(Account)
  /\ \A s \in Seq(Account), a \in Account :
       /\ Append(s, a) \in Seq(Account)
       /\ ToSet(Append(s, a)) = ToSet(s) \cup {a}
       /\ Len(Append(s, a)) = Len(s) + 1 /\ Append(s, a) # <<>>
       /\ Last(Append(s, a)) = a
  /\ \A a \in Account : /\ <<a>> \in Seq(Account) /\ <<a>> # <<>>
                        /\ ToSet(<<a>>) = {a} /\ Len(<<a>>) = 1
  /\ \A s \in Seq(Account) : /\ ToSet(s) \subseteq Account /\ Len(s) \in Nat
                             /\ s # <<>> => Last(s) \in Account
<1>1. ToSet(<<>>) = {} /\ Len(<<>>) = 0 /\ <<>> \in Seq(Account)
  BY DEF ToSet
<1>2. ASSUME NEW s \in Seq(Account), NEW a \in Account
      PROVE  /\ Append(s, a) \in Seq(Account)
             /\ ToSet(Append(s, a)) = ToSet(s) \cup {a}
             /\ Len(Append(s, a)) = Len(s) + 1 /\ Append(s, a) # <<>>
             /\ Last(Append(s, a)) = a
  <2> DEFINE t == Append(s, a)
  <2>1. /\ t \in Seq(Account) /\ Len(t) = Len(s) + 1 /\ Len(s) \in Nat
        /\ \A i \in 1..Len(s) : t[i] = s[i]
        /\ t[Len(s) + 1] = a
    OBVIOUS
  <2>2. DOMAIN s = 1..Len(s) /\ DOMAIN t = 1..(Len(s) + 1)
    BY <2>1
  <2> HIDE DEF t
  <2>3. 1..(Len(s) + 1) = 1..Len(s) \cup {Len(s) + 1}
    BY <2>1
  <2>4. ToSet(t) = ToSet(s) \cup {a}
    BY <2>1, <2>2, <2>3 DEF ToSet
  <2>5. t # <<>>
    BY <2>1
  <2>6. Last(t) = a
    BY <2>1 DEF Last
  <2> QED
    BY <2>1, <2>4, <2>5, <2>6 DEF t
<1>3. ASSUME NEW a \in Account
      PROVE  /\ <<a>> \in Seq(Account) /\ <<a>> # <<>>
             /\ ToSet(<<a>>) = {a} /\ Len(<<a>>) = 1
  BY DEF ToSet
<1>4. ASSUME NEW s \in Seq(Account)
      PROVE  /\ ToSet(s) \subseteq Account /\ Len(s) \in Nat
             /\ s # <<>> => Last(s) \in Account
  BY DEF ToSet, Last
<1> QED
  BY <1>1, <1>2, <1>3, <1>4

LEMMA NothingTried ==
  ASSUME NEW s, s = <<>>
  PROVE  IsFiniteSet(ToSet(s)) /\ Cardinality(ToSet(s)) = Len(s) /\ Len(s) <= RetryMax
<1>1. ToSet(s) = {} /\ Len(s) = 0
  BY ListFacts
<1> QED
  BY <1>1, FS_EmptySet, Limits

-----------------------------------------------------------------------------
(* A step of one request.                                                  *)
OthersStay(r) ==
  \A q \in Request \ {r} : /\ pc'[q] = pc[q] /\ kind'[q] = kind[q]
                           /\ tried'[q] = tried[q] /\ skip'[q] = skip[q]

LEMMA RequestMoves ==
  ASSUME Requests, NEW r \in Request, Locals', OthersStay(r), Placed(r)', Elsewhere(r)'
  PROVE  Requests'
<1>1. ASSUME NEW q \in Request \ {r}
      PROVE  Placed(q)' /\ Elsewhere(q)'
  <2>1. /\ pc'[q] = pc[q] /\ kind'[q] = kind[q]
        /\ tried'[q] = tried[q] /\ skip'[q] = skip[q]
    BY DEF OthersStay
  <2> QED
    BY <2>1 DEF Requests, Placed, Elsewhere
<1> QED
  BY <1>1 DEF Requests

(* It keeps the books of the gates when it changes its own entry by one.   *)
HoldsLease(r, a) == pc[r] \in Leased /\ acct(r) = a

LEMMA CountOne ==
  ASSUME NEW S \in SUBSET Request, NEW T \in SUBSET Request, NEW r \in Request,
         \A q \in Request \ {r} : q \in S <=> q \in T
  PROVE  /\ Cardinality(S) \in Nat /\ Cardinality(T) \in Nat
         /\ Cardinality(T) + (IF r \in S THEN 1 ELSE 0)
              = Cardinality(S) + (IF r \in T THEN 1 ELSE 0)
<1>1. IsFiniteSet(S) /\ IsFiniteSet(T)
  BY FS_Subset, EngineAssumption
<1>2. Cardinality(S) \in Nat /\ Cardinality(T) \in Nat
  BY <1>1, FS_CardinalityType
<1>3. CASE r \in S /\ r \in T
  <2>1. S = T
    BY <1>3
  <2> QED
    BY <1>2, <1>3, <2>1
<1>4. CASE r \notin S /\ r \notin T
  <2>1. S = T
    BY <1>4
  <2> QED
    BY <1>2, <1>4, <2>1
<1>5. CASE r \in S /\ r \notin T
  <2>1. S = T \cup {r}
    BY <1>5
  <2> QED
    BY <1>1, <1>2, <1>5, <2>1, FS_AddElement
<1>6. CASE r \notin S /\ r \in T
  <2>1. T = S \cup {r}
    BY <1>6
  <2> QED
    BY <1>1, <1>2, <1>6, <2>1, FS_AddElement
<1> QED
  BY <1>3, <1>4, <1>5, <1>6

LEMMA PermitsMove ==
  ASSUME PermitsConserved, Gates, Gates', NEW r \in Request, OthersStay(r),
         \A a \in Account :
           permits'[a] + (IF HoldsLease(r, a)' THEN 1 ELSE 0)
             = permits[a] + (IF HoldsLease(r, a) THEN 1 ELSE 0),
         ocr_gate' + (IF HoldsGate(r)' THEN 1 ELSE 0)
           = ocr_gate + (IF HoldsGate(r) THEN 1 ELSE 0)
  PROVE  PermitsConserved'
<1> DEFINE S(a) == {q \in Request : pc[q] \in Leased /\ acct(q) = a}
           T(a) == {q \in Request : pc'[q] \in Leased /\ acct(q)' = a}
           G == {q \in Request : HoldsGate(q)}
           H == {q \in Request : HoldsGate(q)'}
<1>1. \A q \in Request \ {r} : /\ pc'[q] = pc[q] /\ acct(q)' = acct(q)
                               /\ HoldsGate(q)' <=> HoldsGate(q)
  BY DEF OthersStay, acct, HoldsGate
<1>2. ASSUME NEW a \in Account
      PROVE  permits'[a] + Cardinality(T(a)) = LeaseLimit
  <2>1. \A q \in Request \ {r} : q \in S(a) <=> q \in T(a)
    BY <1>1
  <2>2. /\ Cardinality(S(a)) \in Nat /\ Cardinality(T(a)) \in Nat
        /\ Cardinality(T(a)) + (IF r \in S(a) THEN 1 ELSE 0)
             = Cardinality(S(a)) + (IF r \in T(a) THEN 1 ELSE 0)
    BY <2>1, CountOne
  <2>3. (r \in S(a) <=> HoldsLease(r, a)) /\ (r \in T(a) <=> HoldsLease(r, a)')
    BY DEF HoldsLease
  <2>4. permits[a] + Cardinality(S(a)) = LeaseLimit
    BY DEF PermitsConserved
  <2>5. permits[a] \in Nat /\ permits'[a] \in Nat
    BY DEF Gates
  <2>6. permits'[a] + (IF r \in T(a) THEN 1 ELSE 0) = permits[a] + (IF r \in S(a) THEN 1 ELSE 0)
    BY <2>3
  <2>7. /\ (IF r \in S(a) THEN 1 ELSE 0) \in Nat
        /\ (IF r \in T(a) THEN 1 ELSE 0) \in Nat
    OBVIOUS
  <2> DEFINE s == Cardinality(S(a))
             t == Cardinality(T(a))
             was == IF r \in S(a) THEN 1 ELSE 0
             is == IF r \in T(a) THEN 1 ELSE 0
             free == permits[a]
             left == permits'[a]
  <2>8. /\ {s, t, was, is, free, left, LeaseLimit} \subseteq Nat
        /\ t + was = s + is /\ free + s = LeaseLimit /\ left + is = free + was
    BY <2>2, <2>4, <2>5, <2>6, <2>7, Limits
  <2> HIDE DEF s, t, was, is, free, left
  <2>9. left + t = LeaseLimit
    BY <2>8
  <2> QED
    BY <2>9 DEF left, t
<1>3. ocr_gate' + Cardinality(H) = OcrLimit
  <2>1. \A q \in Request \ {r} : q \in G <=> q \in H
    BY <1>1
  <2>2. /\ Cardinality(G) \in Nat /\ Cardinality(H) \in Nat
        /\ Cardinality(H) + (IF r \in G THEN 1 ELSE 0)
             = Cardinality(G) + (IF r \in H THEN 1 ELSE 0)
    BY <2>1, CountOne
  <2>3. (r \in G <=> HoldsGate(r)) /\ (r \in H <=> HoldsGate(r)')
    OBVIOUS
  <2>4. ocr_gate + Cardinality(G) = OcrLimit /\ ocr_gate \in Nat /\ ocr_gate' \in Nat
    BY DEF PermitsConserved, Gates
  <2>5. ocr_gate' + (IF r \in H THEN 1 ELSE 0) = ocr_gate + (IF r \in G THEN 1 ELSE 0)
    BY <2>3
  <2>6. /\ (IF r \in G THEN 1 ELSE 0) \in Nat
        /\ (IF r \in H THEN 1 ELSE 0) \in Nat
    OBVIOUS
  <2> DEFINE g == Cardinality(G)
             h == Cardinality(H)
             was == IF r \in G THEN 1 ELSE 0
             is == IF r \in H THEN 1 ELSE 0
  <2>7. /\ {g, h, was, is, ocr_gate, ocr_gate', OcrLimit} \subseteq Nat
        /\ h + was = g + is /\ ocr_gate + g = OcrLimit /\ ocr_gate' + is = ocr_gate + was
    BY <2>2, <2>4, <2>5, <2>6, Limits
  <2> HIDE DEF g, h, was, is
  <2>8. ocr_gate' + h = OcrLimit
    BY <2>7
  <2> QED
    BY <2>8 DEF h
<1> QED
  BY <1>2, <1>3 DEF PermitsConserved

(* The requests and the gates together.                                    *)
LoopSound == Requests /\ Gates /\ PermitsConserved

LEMMA AccountOf ==
  ASSUME Requests, NEW r \in Request, pc[r] \in {"lease"} \cup Leased
  PROVE  /\ acct(r) \in Account /\ tried[r] # <<>> /\ tried[r] \in Seq(Account)
         /\ pc[r] \in Leased => HoldsLease(r, acct(r))
BY ListFacts DEF Requests, Locals, Placed, acct, HoldsLease

LEMMA ServedStays ==
  ASSUME LoopSound, UNCHANGED <<request, gates>>
  PROVE  LoopSound'
<1>1. Requests' /\ Gates'
  BY DEF LoopSound, Requests, Locals, Gates, Placed, Elsewhere, request, gates
<1>2. PermitsConserved'
  BY DEF LoopSound, PermitsConserved, HoldsGate, acct, request, gates
<1> QED
  BY <1>1, <1>2 DEF LoopSound

(* A lease is dropped with the place it is held in, and so is the gate.    *)
LEMMA LeaseDropped ==
  ASSUME LoopSound, NEW r \in Request, DropLease(r), pc'[r] \notin Leased
  PROVE  /\ permits' \in [Account -> Nat]
         /\ \A a \in Account :
              permits'[a] + (IF HoldsLease(r, a)' THEN 1 ELSE 0)
                = permits[a] + (IF HoldsLease(r, a) THEN 1 ELSE 0)
<1>1. \A a : ~HoldsLease(r, a)'
  BY DEF HoldsLease
<1>2. permits \in [Account -> Nat]
  BY DEF LoopSound, Gates
<1>3. CASE pc[r] \in Leased
  <2>1. acct(r) \in Account /\ permits' = [permits EXCEPT ![acct(r)] = @ + 1]
    BY <1>3, AccountOf DEF LoopSound, DropLease
  <2>2. \A a \in Account : HoldsLease(r, a) <=> a = acct(r)
    BY <1>3 DEF HoldsLease
  <2> QED
    BY <1>1, <1>2, <2>1, <2>2
<1>4. CASE pc[r] \notin Leased
  BY <1>1, <1>2, <1>4 DEF DropLease, HoldsLease
<1> QED
  BY <1>3, <1>4

LEMMA FinishServes ==
  ASSUME LoopSound, NEW r \in Request, NEW result \in Over, Finish(r, result)
  PROVE  LoopSound' /\ pc'[r] = result
<1>1. /\ Locals' /\ OthersStay(r) /\ pc'[r] = result /\ tried'[r] = <<>> /\ skip'[r] = {}
      /\ kind'[r] = "chat"
  BY ListFacts DEF LoopSound, Requests, Locals, Finish, OthersStay, Places
<1>2. pc'[r] \notin {"gate", "select", "lease"} \cup Leased
  BY <1>1 DEF Over, Leased
<1>3. Placed(r)' /\ Elsewhere(r)'
  BY <1>1, <1>2, NothingTried DEF Placed, Elsewhere
<1>4. Requests'
  BY <1>1, <1>3, RequestMoves DEF LoopSound
<1>5. /\ permits' \in [Account -> Nat]
      /\ \A a \in Account :
           permits'[a] + (IF HoldsLease(r, a)' THEN 1 ELSE 0)
             = permits[a] + (IF HoldsLease(r, a) THEN 1 ELSE 0)
  BY <1>2, LeaseDropped DEF Finish
<1>6. /\ ocr_gate' \in Nat
      /\ ocr_gate' + (IF HoldsGate(r)' THEN 1 ELSE 0)
           = ocr_gate + (IF HoldsGate(r) THEN 1 ELSE 0)
  <2>1. ~HoldsGate(r)'
    BY <1>1 DEF HoldsGate
  <2> QED
    BY <2>1 DEF Finish, DropGate, LoopSound, Gates
<1>7. Gates'
  BY <1>5, <1>6 DEF Gates
<1>8. PermitsConserved'
  BY <1>1, <1>5, <1>6, <1>7, PermitsMove DEF LoopSound
<1> QED
  BY <1>1, <1>4, <1>7, <1>8 DEF LoopSound

LEMMA NextAttemptServes ==
  ASSUME LoopSound, NEW r \in Request, pc[r] \in Leased, MayRetry(r),
         NEW isWeak \in BOOLEAN, NextAttempt(r, isWeak)
  PROVE  LoopSound'
<1>1. /\ Locals' /\ OthersStay(r) /\ pc'[r] = "select" /\ tried'[r] = tried[r]
      /\ skip'[r] = ToSet(tried[r]) /\ kind'[r] = kind[r] /\ tried[r] \in Seq(Account)
  <2>1. tried[r] \in Seq(Account) /\ ToSet(tried[r]) \in SUBSET Account
    BY ListFacts DEF LoopSound, Requests, Locals
  <2>2. (weak[r] \/ isWeak) \in BOOLEAN
    BY DEF LoopSound, Requests, Locals
  <2>3. weak' \in [Request -> BOOLEAN]
    BY <2>2 DEF LoopSound, Requests, Locals, NextAttempt
  <2> QED
    BY <2>1, <2>3 DEF LoopSound, Requests, Locals, NextAttempt, OthersStay, Places, InFlight, Waiting
<1>2. Placed(r)' /\ Elsewhere(r)'
  <2>1. Len(tried[r]) < RetryMax
    BY DEF MayRetry
  <2>2. Elsewhere(r)'
    BY <1>1 DEF LoopSound, Requests, Elsewhere
  <2> QED
    BY <1>1, <2>1, <2>2 DEF Placed, Leased
<1>3. Requests'
  BY <1>1, <1>2, RequestMoves DEF LoopSound
<1>4. /\ permits' \in [Account -> Nat]
      /\ \A a \in Account :
           permits'[a] + (IF HoldsLease(r, a)' THEN 1 ELSE 0)
             = permits[a] + (IF HoldsLease(r, a) THEN 1 ELSE 0)
  BY <1>1, LeaseDropped DEF NextAttempt, Leased
<1>5. ocr_gate' = ocr_gate /\ (HoldsGate(r)' <=> HoldsGate(r))
  BY <1>1 DEF HoldsGate, Waiting, Leased, NextAttempt
<1>6. Gates'
  BY <1>4, <1>5 DEF LoopSound, Gates
<1>7. PermitsConserved'
  BY <1>1, <1>4, <1>5, <1>6, PermitsMove DEF LoopSound
<1> QED
  BY <1>3, <1>6, <1>7 DEF LoopSound

LEMMA AfterErrorServes ==
  ASSUME LoopSound, NEW r \in Request, pc[r] \in Leased, NEW retryable \in BOOLEAN,
         AfterError(r, retryable)
  PROVE  LoopSound'
<1>1. "error" \in Over
  BY DEF Over
<1> QED
  BY <1>1, FinishServes, NextAttemptServes DEF AfterError

LEMMA AfterTextServes ==
  ASSUME LoopSound, NEW r \in Request, pc[r] \in Leased, NEW weakText \in BOOLEAN,
         AfterText(r, weakText)
  PROVE  LoopSound'
<1>1. "text" \in Over
  BY DEF Over
<1> QED
  BY <1>1, FinishServes, NextAttemptServes DEF AfterText

(* A request that moves and touches no gate.                               *)
LEMMA MovesServed ==
  ASSUME LoopSound, NEW r \in Request, Locals', OthersStay(r), Placed(r)', Elsewhere(r)',
         UNCHANGED gates, HoldsGate(r)' <=> HoldsGate(r),
         \A a \in Account : HoldsLease(r, a)' <=> HoldsLease(r, a)
  PROVE  LoopSound'
<1>1. Requests' /\ Gates'
  BY RequestMoves DEF LoopSound, Gates, gates
<1>2. PermitsConserved'
  BY <1>1, PermitsMove DEF LoopSound, gates
<1> QED
  BY <1>1, <1>2 DEF LoopSound

-----------------------------------------------------------------------------
(* The steps of a request.                                                 *)
LEMMA ReceiveServes ==
  ASSUME LoopSound, NEW r \in Request, NEW k \in {"chat", "ocr"}, Receive(r, k)
  PROVE  LoopSound'
<1>1. /\ Locals' /\ OthersStay(r) /\ kind'[r] = k
      /\ pc[r] = "idle" /\ pc'[r] = (IF k = "ocr" THEN "gate" ELSE "select")
      /\ tried'[r] = tried[r] /\ skip'[r] = skip[r] /\ tried[r] = <<>> /\ skip[r] = {}
  BY DEF Receive, LoopSound, Requests, Locals, Placed, OthersStay, Places, InFlight, Waiting
<1>2. Placed(r)' /\ Elsewhere(r)'
  <2>1. ToSet(tried[r]) = {} /\ Len(tried[r]) = 0 /\ Len(tried[r]) < RetryMax
    BY <1>1, ListFacts, Limits
  <2> QED
    BY <1>1, <2>1, NothingTried DEF Placed, Elsewhere, Leased
<1>3. (HoldsGate(r)' <=> HoldsGate(r)) /\ \A a : HoldsLease(r, a)' <=> HoldsLease(r, a)
  BY <1>1 DEF HoldsGate, HoldsLease, Waiting, Leased
<1> QED
  BY <1>1, <1>2, <1>3, MovesServed DEF Receive

LEMMA ReceiveDirectServes ==
  ASSUME LoopSound, NEW r \in Request, NEW a \in Direct, ReceiveDirect(r, a)
  PROVE  LoopSound'
<1>1. a \in Account
  BY EngineAssumption
<1>2. /\ Locals' /\ OthersStay(r) /\ pc[r] = "idle" /\ skip'[r] = skip[r]
      /\ \/ pc'[r] = "lease" /\ tried'[r] = <<a>> /\ kind'[r] = "direct"
         \/ pc'[r] = "error" /\ tried'[r] = tried[r] /\ kind'[r] = kind[r]
      /\ tried[r] = <<>>
  <2>1. <<a>> \in Seq(Account)
    BY <1>1
  <2>2. CASE a \in HasKeys
    <3> DEFINE t == <<a>>
    <3>1. /\ pc[r] = "idle" /\ pc' = [pc EXCEPT ![r] = "lease"]
          /\ kind' = [kind EXCEPT ![r] = "direct"] /\ tried' = [tried EXCEPT ![r] = t]
          /\ UNCHANGED <<skip, weak>> /\ t \in Seq(Account) /\ tried[r] = <<>>
      BY <2>1, <2>2 DEF ReceiveDirect, LoopSound, Requests, Placed
    <3>2. Locals /\ {"lease"} \subseteq Places
      BY DEF LoopSound, Requests, Places, InFlight, Waiting
    <3> HIDE DEF t
    <3>3. Locals' /\ OthersStay(r) /\ skip'[r] = skip[r]
      BY <3>1, <3>2 DEF Locals, OthersStay
    <3>4. pc'[r] = "lease" /\ tried'[r] = t /\ kind'[r] = "direct"
      BY <3>1, <3>2 DEF Locals
    <3> QED
      BY <3>1, <3>3, <3>4 DEF t
  <2>3. CASE a \notin HasKeys
    BY <2>3 DEF ReceiveDirect, LoopSound, Requests, Locals, Placed, OthersStay, Places, Over
  <2> QED
    BY <2>2, <2>3
<1>3. Placed(r)'
  BY <1>1, <1>2, ListFacts DEF Placed, Leased
<1>4. Elsewhere(r)'
  <2>1. CASE tried'[r] = <<a>>
    <3> DEFINE t == <<a>>
    <3>1. ToSet(t) = {a} /\ Len(t) = 1
      BY <1>1, ListFacts
    <3>2. IsFiniteSet({a}) /\ Cardinality({a}) = 1
      BY FS_Singleton
    <3>3. tried'[r] = t /\ 1 <= RetryMax
      BY <2>1, Limits
    <3> HIDE DEF t
    <3> QED
      BY <3>1, <3>2, <3>3 DEF Elsewhere
  <2>2. CASE tried'[r] = tried[r]
    BY <1>2, <2>2, NothingTried DEF Elsewhere
  <2> QED
    BY <1>2, <2>1, <2>2
<1>5. (HoldsGate(r)' <=> HoldsGate(r)) /\ \A b : HoldsLease(r, b)' <=> HoldsLease(r, b)
  BY <1>2 DEF HoldsGate, HoldsLease, Waiting, Leased
<1> QED
  BY <1>2, <1>3, <1>4, <1>5, MovesServed DEF ReceiveDirect

LEMMA PassGateServes ==
  ASSUME LoopSound, NEW r \in Request, PassGate(r)
  PROVE  LoopSound'
<1>1. /\ Locals' /\ OthersStay(r) /\ pc[r] = "gate" /\ pc'[r] = "select"
      /\ kind'[r] = "ocr" /\ tried'[r] = tried[r] /\ skip'[r] = skip[r]
      /\ tried[r] = <<>> /\ skip[r] = {}
  BY DEF PassGate, LoopSound, Requests, Locals, Placed, OthersStay, Places, InFlight, Waiting
<1>2. Placed(r)' /\ Elsewhere(r)'
  <2>1. ToSet(tried[r]) = {} /\ Len(tried[r]) = 0 /\ Len(tried[r]) < RetryMax
    BY <1>1, ListFacts, Limits
  <2> QED
    BY <1>1, <2>1, NothingTried DEF Placed, Elsewhere, Leased
<1>3. Requests'
  BY <1>1, <1>2, RequestMoves DEF LoopSound
<1>4. HoldsGate(r)' /\ ~HoldsGate(r) /\ \A a : ~HoldsLease(r, a)' /\ ~HoldsLease(r, a)
  BY <1>1 DEF HoldsGate, HoldsLease, Waiting, Leased
<1>5. ocr_gate \in Nat /\ ocr_gate > 0 /\ ocr_gate' = ocr_gate - 1 /\ permits' = permits
  BY DEF PassGate, LoopSound, Gates
<1>6. Gates'
  BY <1>5 DEF LoopSound, Gates
<1>7. PermitsConserved'
  BY <1>1, <1>4, <1>5, <1>6, PermitsMove DEF LoopSound
<1> QED
  BY <1>3, <1>6, <1>7 DEF LoopSound

LEMMA SelectTurnServes ==
  ASSUME LoopSound, NEW r \in Request, SelectTurn(r)
  PROVE  LoopSound'
<1>0. pc[r] = "select" /\ "weak" \in Over /\ "error" \in Over
  BY DEF SelectTurn, Over
<1>1. GiveUp(r) => LoopSound'
  BY <1>0, FinishServes DEF GiveUp
<1>2. /\ ToSet(tried[r]) \subseteq skip[r] /\ skip[r] \in SUBSET Account
      /\ skip[r] \subseteq ToSet(tried[r]) \cup (Account \ HasKeys)
      /\ Len(tried[r]) < RetryMax /\ tried[r] \in Seq(Account)
  BY <1>0 DEF LoopSound, Requests, Locals, Placed
<1>3. ASSUME NEW a \in Account, Select(a, None, skip[r]), SelectKeyed(r, a)
      PROVE  LoopSound'
  <2>1. a \notin ToSet(tried[r])
    BY <1>2, <1>3 DEF Select, IsChoice, Eligible
  <2> DEFINE t == Append(tried[r], a)
  <2>2. /\ t \in Seq(Account) /\ ToSet(t) = ToSet(tried[r]) \cup {a} /\ t # <<>>
        /\ Len(t) = Len(tried[r]) + 1 /\ Len(tried[r]) \in Nat
    BY <1>2, ListFacts
  <2>3. tried' = [tried EXCEPT ![r] = t]
    BY <1>3 DEF SelectKeyed, LoopSound, Requests, Locals
  <2> HIDE DEF t
  <2>4. /\ Locals' /\ OthersStay(r) /\ pc'[r] = "lease" /\ kind'[r] = kind[r]
        /\ tried'[r] = t /\ skip'[r] = {}
    BY <1>3, <2>2, <2>3
       DEF SelectKeyed, LoopSound, Requests, Locals, OthersStay, Places, InFlight, Waiting
  <2>5. Placed(r)'
    BY <2>2, <2>4 DEF Placed, Leased
  <2>6. Elsewhere(r)'
    <3>1. /\ IsFiniteSet(ToSet(tried[r])) /\ Cardinality(ToSet(tried[r])) = Len(tried[r])
      BY DEF LoopSound, Requests, Elsewhere
    <3>2. /\ IsFiniteSet(ToSet(t)) /\ Cardinality(ToSet(t)) = Len(tried[r]) + 1
      <4> DEFINE S == ToSet(tried[r])
                 T == ToSet(t)
      <4>1. T = S \cup {a} /\ IsFiniteSet(S) /\ a \notin S /\ Cardinality(S) = Len(tried[r])
        BY <2>1, <2>2, <3>1
      <4> HIDE DEF S, T
      <4>2. IsFiniteSet(T) /\ Cardinality(T) = Cardinality(S) + 1
        BY <4>1, FS_AddElement
      <4> QED
        BY <4>1, <4>2 DEF T
    <3>3. Len(t) <= RetryMax
      BY <1>2, <2>2, Limits
    <3> QED
      BY <2>2, <2>4, <3>2, <3>3 DEF Elsewhere
  <2>7. (HoldsGate(r)' <=> HoldsGate(r)) /\ \A b : HoldsLease(r, b)' <=> HoldsLease(r, b)
    BY <1>0, <2>4 DEF HoldsGate, HoldsLease, Waiting, Leased
  <2> QED
    BY <1>3, <2>4, <2>5, <2>6, <2>7, MovesServed DEF SelectKeyed
<1>4. ASSUME NEW a \in Account, PassOverKeyless(r, a), ~GiveUp(r)
      PROVE  LoopSound'
  <2>1. /\ a \notin HasKeys /\ skip' = [skip EXCEPT ![r] = @ \cup {a}]
        /\ UNCHANGED <<pc, kind, tried, weak, gates>>
    BY <1>4 DEF PassOverKeyless
  <2>2. /\ Locals' /\ OthersStay(r) /\ skip'[r] = skip[r] \cup {a}
    BY <2>1 DEF LoopSound, Requests, Locals, OthersStay
  <2>3. Placed(r)' /\ Elsewhere(r)'
    BY <1>0, <1>2, <2>1, <2>2 DEF LoopSound, Requests, Placed, Elsewhere, Leased
  <2>4. (HoldsGate(r)' <=> HoldsGate(r)) /\ \A b : HoldsLease(r, b)' <=> HoldsLease(r, b)
    BY <2>1 DEF HoldsGate, HoldsLease, acct
  <2> QED
    BY <2>1, <2>2, <2>3, <2>4, MovesServed
<1> QED
  BY <1>1, <1>3, <1>4 DEF SelectTurn

LEMMA AcquireLeaseServes ==
  ASSUME LoopSound, NEW r \in Request, AcquireLease(r)
  PROVE  LoopSound'
<1>1. /\ Locals' /\ OthersStay(r) /\ pc[r] = "lease" /\ pc'[r] = "prepare"
      /\ kind'[r] = kind[r] /\ tried'[r] = tried[r] /\ skip'[r] = skip[r]
      /\ permits' = [permits EXCEPT ![acct(r)] = @ - 1] /\ ocr_gate' = ocr_gate
      /\ permits[acct(r)] > 0
  BY DEF AcquireLease, LoopSound, Requests, Locals, OthersStay, Places, InFlight, Leased
<1>2. acct(r) \in Account /\ tried[r] # <<>> /\ acct(r)' = acct(r)
  BY <1>1, AccountOf DEF LoopSound, acct
<1>3. Placed(r)' /\ Elsewhere(r)'
  BY <1>1, <1>2 DEF LoopSound, Requests, Placed, Elsewhere, Leased
<1>4. Requests'
  BY <1>1, <1>3, RequestMoves DEF LoopSound
<1>5. permits \in [Account -> Nat] /\ ocr_gate \in Nat
  BY DEF LoopSound, Gates
<1>6. Gates'
  BY <1>1, <1>2, <1>5 DEF Gates
<1>7. \A a \in Account : /\ ~HoldsLease(r, a)
                         /\ HoldsLease(r, a)' <=> a = acct(r)
  BY <1>1, <1>2 DEF HoldsLease, Leased
<1>8. \A a \in Account :
        permits'[a] + (IF HoldsLease(r, a)' THEN 1 ELSE 0)
          = permits[a] + (IF HoldsLease(r, a) THEN 1 ELSE 0)
  BY <1>1, <1>2, <1>5, <1>7
<1>9. HoldsGate(r)' <=> HoldsGate(r)
  BY <1>1 DEF HoldsGate, Waiting, Leased
<1>10. PermitsConserved'
  BY <1>1, <1>6, <1>8, <1>9, PermitsMove DEF LoopSound
<1> QED
  BY <1>4, <1>6, <1>10 DEF LoopSound

LEMMA PreparedServes ==
  ASSUME LoopSound, NEW r \in Request, Prepared(r)
  PROVE  LoopSound'
<1>1. /\ Locals' /\ OthersStay(r) /\ pc[r] = "prepare" /\ pc'[r] = "upstream"
      /\ kind'[r] = kind[r] /\ tried'[r] = tried[r] /\ skip'[r] = skip[r]
  BY DEF Prepared, LoopSound, Requests, Locals, OthersStay, Places, InFlight, Leased
<1>2. tried[r] # <<>> /\ acct(r)' = acct(r)
  BY <1>1, AccountOf DEF LoopSound, acct, Leased
<1>3. Placed(r)' /\ Elsewhere(r)'
  BY <1>1, <1>2 DEF LoopSound, Requests, Placed, Elsewhere, Leased
<1>4. (HoldsGate(r)' <=> HoldsGate(r)) /\ \A a : HoldsLease(r, a)' <=> HoldsLease(r, a)
  BY <1>1, <1>2 DEF HoldsGate, HoldsLease, Waiting, Leased
<1> QED
  BY <1>1, <1>3, <1>4, MovesServed DEF Prepared

LEMMA RequestServes ==
  ASSUME LoopSound, NEW r \in Request, Arrive(r) \/ Advance(r) \/ Cancel(r)
  PROVE  LoopSound'
<1>0. {"error", "cancelled"} \subseteq Over
  BY DEF Over
<1>1. CASE LeaseTimeout(r)
  BY <1>0, <1>1, FinishServes DEF LeaseTimeout
<1>2. CASE Cancel(r)
  BY <1>0, <1>2, FinishServes DEF Cancel
<1>3. ASSUME NEW retryable \in BOOLEAN, AttachmentsFail(r, retryable) \/ TokenFails(r, retryable)
      PROVE  LoopSound'
  <2>1. pc[r] \in Leased /\ AfterError(r, retryable)
    BY <1>3 DEF AttachmentsFail, TokenFails, Leased
  <2> QED
    BY <2>1, AfterErrorServes
<1>4. CASE AnswerRateLimited(r) \/ AnswerFails(r)
  <2>1. pc[r] \in Leased /\ (AfterError(r, TRUE) \/ AfterError(r, FALSE))
    BY <1>4 DEF AnswerRateLimited, AnswerFails, Leased
  <2> QED
    BY <2>1, AfterErrorServes
<1>5. ASSUME NEW weakText \in BOOLEAN, AnswerText(r, weakText)
      PROVE  LoopSound'
  <2>1. pc[r] \in Leased /\ AfterText(r, weakText)
    BY <1>5 DEF AnswerText, Leased
  <2> QED
    BY <2>1, AfterTextServes
<1> QED
  BY <1>1, <1>2, <1>3, <1>4, <1>5, ReceiveServes, ReceiveDirectServes, PassGateServes,
     SelectTurnServes, AcquireLeaseServes, PreparedServes
     DEF Arrive, Advance, Prepare, Answer

-----------------------------------------------------------------------------
(* The inductive invariant: the pool's, the requests' and their gates',    *)
(* and the types of what the other tasks keep.                             *)
IInv == TypeOK /\ RotationSound /\ LoopSound /\ Outside

LEMMA BookIsPool ==
  ASSUME NEW a \in Account, DispatchSuccess(a) \/ DispatchFailure(a) \/ DispatchRateLimited(a)
  PROVE  PoolNext
BY DEF PoolNext, Report

LEMMA RequestIsPool ==
  ASSUME IInv, NEW r \in Request, Arrive(r) \/ Advance(r) \/ Cancel(r)
  PROVE  PoolNext \/ UNCHANGED poolVars
<1>1. CASE Arrive(r) \/ Cancel(r) \/ PassGate(r) \/ AcquireLease(r) \/ Prepared(r)
  BY <1>1 DEF Arrive, Receive, ReceiveDirect, Cancel, PassGate, AcquireLease, Prepared
<1>2. CASE SelectTurn(r)
  <2>1. skip[r] \in SUBSET Account
    BY DEF IInv, LoopSound, Requests, Locals
  <2>2. \/ \E a \in Account : Select(a, None, skip[r])
        \/ UNCHANGED poolVars
    BY <1>2 DEF SelectTurn, SelectsNobody
  <2> QED
    BY <2>1, <2>2 DEF PoolNext
<1>3. CASE LeaseTimeout(r)
  <2>1. acct(r) \in Account /\ DispatchFailure(acct(r))
    BY <1>3, AccountOf DEF LeaseTimeout, IInv, LoopSound
  <2> QED
    BY <2>1, BookIsPool
<1>4. CASE Answer(r)
  <2>1. pc[r] \in Leased
    BY <1>4 DEF Answer, AnswerText, AnswerRateLimited, AnswerFails, Leased
  <2>2. acct(r) \in Account
    BY <2>1, AccountOf DEF IInv, LoopSound
  <2>3. \/ DispatchSuccess(acct(r)) \/ DispatchFailure(acct(r))
        \/ DispatchRateLimited(acct(r))
    BY <1>4 DEF Answer, AnswerText, AnswerRateLimited, AnswerFails
  <2> QED
    BY <2>2, <2>3, BookIsPool
<1>5. ASSUME NEW retryable \in BOOLEAN, AttachmentsFail(r, retryable)
      PROVE  PoolNext
  <2>1. pc[r] \in Leased /\ DispatchFailure(acct(r))
    BY <1>5 DEF AttachmentsFail, Leased
  <2>2. acct(r) \in Account
    BY <2>1, AccountOf DEF IInv, LoopSound
  <2> QED
    BY <2>1, <2>2, BookIsPool
<1>6. ASSUME NEW retryable \in BOOLEAN, TokenFails(r, retryable)
      PROVE  UNCHANGED poolVars
  BY <1>6 DEF TokenFails
<1> QED
  BY <1>1, <1>2, <1>3, <1>4, <1>5, <1>6 DEF Advance, Prepare

(* A request touches the rows and the other tasks only by what it spawns.  *)
LEMMA RequestOutside ==
  ASSUME IInv, NEW r \in Request, Arrive(r) \/ Advance(r) \/ Cancel(r)
  PROVE  Outside'
<1>1. CASE UNCHANGED <<store, tasks>>
  BY <1>1 DEF IInv, Outside, store, tasks, probe
<1>2. ASSUME NEW outcome \in {"success", "rate_limited"}, pc[r] = "upstream",
             Spawn(r, outcome), UNCHANGED <<store, listing, probe>>
      PROVE  Outside'
  <2>1. acct(r) \in Account
    BY <1>2, AccountOf DEF IInv, LoopSound, Leased
  <2>2. spawned' \subseteq [req : Request, on : Account,
                            outcome : {"success", "rate_limited"}]
    BY <1>2, <2>1 DEF Spawn, IInv, Outside
  <2> QED
    BY <1>2, <2>2 DEF IInv, Outside, store, probe
<1>3. \/ UNCHANGED <<store, tasks>>
      \/ \E outcome \in {"success", "rate_limited"} :
           pc[r] = "upstream" /\ Spawn(r, outcome) /\ UNCHANGED <<store, listing, probe>>
  BY DEF Arrive, Receive, ReceiveDirect, Cancel, Advance, PassGate, SelectTurn, AcquireLease,
     LeaseTimeout, Prepare, Prepared, AttachmentsFail, TokenFails, Answer, AnswerText,
     AnswerRateLimited, AnswerFails
<1> QED
  BY <1>1, <1>2, <1>3

-----------------------------------------------------------------------------
(* The other tasks leave the requests and their gates alone.               *)
OtherTask ==
  \/ \E w \in spawned : HealthWrite(w) \/ HealthWriteFails(w)
  \/ \E a \in Account : Operator(a) \/ ProbeVisit(a)
  \/ ProbeRound \/ ProbeAnswers \/ ProbeAborts
  \/ ReconcileQuery \/ ReconcileApply
  \/ TimePasses

LEMMA TasksKeepRequests == OtherTask => UNCHANGED <<request, gates>>
BY DEF OtherTask, HealthWrite, HealthWriteFails, Operator, ProbeVisit, ProbeRound,
   ProbeAnswers, ProbeAborts, ReconcileQuery, ReconcileApply, TimePasses

LEMMA LessFacts ==
  /\ \A S : \A left \in [S -> 0..RlBase] : Less(left) \in [S -> 0..RlBase]
  /\ \A left \in [Account -> Nat] :
       Less(left) = [a \in Account |-> Larger(left[a] - 1, 0)]
  /\ \A left \in [Account -> Nat] : ~Running(left) => Less(left) = left
<1>1. RlBase \in Nat
  BY TimeAssumption
<1>2. ASSUME NEW S, NEW left \in [S -> 0..RlBase]
      PROVE  Less(left) \in [S -> 0..RlBase]
  <2>1. \A a \in S : Larger(left[a] - 1, 0) \in 0..RlBase
    BY <1>1 DEF Larger
  <2> QED
    BY <2>1 DEF Less
<1>3. ASSUME NEW left \in [Account -> Nat]
      PROVE  /\ Less(left) = [a \in Account |-> Larger(left[a] - 1, 0)]
             /\ ~Running(left) => Less(left) = left
  <2>1. Less(left) = [a \in Account |-> Larger(left[a] - 1, 0)]
    BY DEF Less
  <2>2. ASSUME ~Running(left)
        PROVE  \A a \in Account : Larger(left[a] - 1, 0) = left[a]
    BY <2>2 DEF Running, Larger
  <2> QED
    BY <2>1, <2>2
<1> QED
  BY <1>2, <1>3

LEMMA TaskIsPool ==
  ASSUME IInv, OtherTask
  PROVE  PoolNext \/ UNCHANGED poolVars
<1>1. CASE \/ \E w \in spawned : HealthWrite(w) \/ HealthWriteFails(w)
           \/ \E a \in Account : Operator(a)
           \/ ProbeRound \/ ProbeAborts \/ ReconcileQuery
  BY <1>1 DEF HealthWrite, HealthWriteFails, Operator, ProbeRound, ProbeAborts, ReconcileQuery
<1>2. ASSUME NEW a \in Account, ProbeVisit(a)
      PROVE  PoolNext \/ UNCHANGED poolVars
  BY <1>2, BookIsPool DEF ProbeVisit
<1>3. CASE ProbeAnswers
  <2>1. probing \in Account
    BY <1>3 DEF ProbeAnswers, IInv, Outside
  <2> QED
    BY <1>3, <2>1, BookIsPool DEF ProbeAnswers
<1>4. CASE ReconcileApply
  <2>1. listing.ids \in SUBSET Account /\ listing.left \in [listing.ids -> 0..RlBase]
    BY <1>4 DEF ReconcileApply, IInv, Outside
  <2>2. listing.left \in [listing.ids -> StoreCooldown]
    BY <2>1, EngineAssumption
  <2> QED
    BY <1>4, <2>1, <2>2 DEF ReconcileApply, PoolNext
<1>5. CASE TimePasses
  <2>1. cooldown_until \in [Account -> Nat]
    BY DEF IInv, TypeOK
  <2>2. /\ cooldown_until' = Less(cooldown_until)
        /\ UNCHANGED <<accounts, pin, rl_failure_count, rotation, last_reconciled_at>>
    BY <1>5 DEF TimePasses
  <2>3. CASE Running(cooldown_until)
    <3>1. Tick
      BY <2>1, <2>2, <2>3, LessFacts DEF Tick, Running
    <3> QED
      BY <3>1 DEF PoolNext
  <2>4. CASE ~Running(cooldown_until)
    BY <2>1, <2>2, <2>4, LessFacts DEF poolVars, books
  <2> QED
    BY <2>3, <2>4
<1> QED
  BY <1>1, <1>2, <1>3, <1>4, <1>5 DEF OtherTask

LEMMA TaskOutside ==
  ASSUME IInv, OtherTask
  PROVE  Outside'
<1> USE DEF IInv, Outside
<1>1. ASSUME NEW w \in spawned, HealthWrite(w) \/ HealthWriteFails(w)
      PROVE  Outside'
  <2>1. w.on \in Account /\ RlBase \in Nat
    BY TimeAssumption
  <2>2. spawned' = spawned \ {w} /\ UNCHANGED <<enabled, listing, probe>>
    BY <1>1 DEF HealthWrite, HealthWriteFails, store
  <2>3. stored' \in [Account -> 0..RlBase]
    BY <1>1, <2>1 DEF HealthWrite, HealthWriteFails, store
  <2> QED
    BY <2>2, <2>3 DEF probe
<1>2. ASSUME NEW a \in Account, Operator(a)
      PROVE  Outside'
  <2>1. enabled' \in SUBSET Account /\ UNCHANGED <<stored, tasks>>
    BY <1>2 DEF Operator
  <2> QED
    BY <2>1 DEF tasks, probe
<1>3. ASSUME NEW a \in Account, ProbeVisit(a)
      PROVE  Outside'
  BY <1>3 DEF ProbeVisit, store
<1>4. CASE ProbeRound \/ ProbeAnswers \/ ProbeAborts
  <2>1. todo' \in SUBSET Account /\ probing' \in Account \cup {None}
    BY <1>4 DEF ProbeRound, ProbeAnswers, ProbeAborts, TypeOK
  <2> QED
    BY <1>4, <2>1 DEF ProbeRound, ProbeAnswers, ProbeAborts, store
<1>5. CASE ReconcileQuery
  <2>1. [a \in enabled |-> stored[a]] \in [enabled -> 0..RlBase]
    OBVIOUS
  <2> QED
    BY <1>5, <2>1 DEF ReconcileQuery, store, probe
<1>6. CASE ReconcileApply
  BY <1>6 DEF ReconcileApply, NoListing, store, probe
<1>7. CASE TimePasses
  <2>1. stored' \in [Account -> 0..RlBase]
    BY <1>7, LessFacts DEF TimePasses
  <2>2. listing' = [ids |-> listing.ids, left |-> Less(listing.left), busy |-> listing.busy]
    BY <1>7 DEF TimePasses
  <2>3. listing.busy => Less(listing.left) \in [listing.ids -> 0..RlBase]
    BY LessFacts
  <2> QED
    BY <1>7, <2>1, <2>2, <2>3 DEF TimePasses, probe
<1> QED
  BY <1>1, <1>2, <1>3, <1>4, <1>5, <1>6, <1>7 DEF OtherTask

-----------------------------------------------------------------------------
LEMMA EngineInit == Init => IInv
<1> SUFFICES ASSUME Init
             PROVE  IInv
  OBVIOUS
<1>1. TypeOK /\ RotationSound
  <2>1. last_reconciled_at \in BOOLEAN
    BY Zenon DEF Init
  <2> QED
    BY <2>1 DEF Init, TypeOK, RotationSound, NoneFromFuture, NoneShared,
       OutsidersUnnumbered, RlSteps
<1>2. Outside
  BY TimeAssumption DEF Init, Outside, NoListing
<1>3. Locals
  BY ListFacts DEF Init, Locals, Places
<1>4. \A r \in Request : Placed(r) /\ Elsewhere(r)
  BY NothingTried DEF Init, Placed, Elsewhere, Leased
<1>5. Gates
  BY Limits DEF Init, Gates
<1>6. PermitsConserved
  <2>1. \A r \in Request : pc[r] \notin Leased /\ ~HoldsGate(r)
    BY DEF Init, Leased, HoldsGate
  <2>2. \A a \in Account : {r \in Request : pc[r] \in Leased /\ acct(r) = a} = {}
    BY <2>1
  <2>3. {r \in Request : HoldsGate(r)} = {}
    BY <2>1
  <2>4. Cardinality({}) = 0
    BY FS_EmptySet
  <2>5. ocr_gate = OcrLimit /\ \A a \in Account : permits[a] = LeaseLimit
    BY DEF Init
  <2> QED
    BY <2>2, <2>3, <2>4, <2>5, Limits DEF PermitsConserved
<1> QED
  BY <1>1, <1>2, <1>3, <1>4, <1>5, <1>6 DEF IInv, LoopSound, Requests

(* Whatever the engine does to the pool, the pool's own operations do.     *)
LEMMA EngineIsPool == IInv /\ [Next]_chatVars => [PoolNext]_poolVars
BY RequestIsPool, TaskIsPool DEF Next, OtherTask, chatVars

LEMMA EngineStep == IInv /\ [Next]_chatVars => IInv'
<1> SUFFICES ASSUME IInv, [Next]_chatVars
             PROVE  IInv'
  OBVIOUS
<1>1. TypeOK' /\ RotationSound'
  BY EngineIsPool, TypeStep, RotationStep DEF IInv
<1>2. ASSUME NEW r \in Request, Arrive(r) \/ Advance(r) \/ Cancel(r)
      PROVE  LoopSound' /\ Outside'
  BY <1>2, RequestServes, RequestOutside DEF IInv
<1>3. CASE OtherTask
  <2>1. UNCHANGED <<request, gates>>
    BY <1>3, TasksKeepRequests
  <2>2. LoopSound'
    <3>1. LoopSound
      BY DEF IInv
    <3> QED
      BY <2>1, <3>1, ServedStays
  <2>3. Outside'
    BY <1>3, TaskOutside
  <2> QED
    BY <1>1, <2>2, <2>3 DEF IInv
<1>4. CASE UNCHANGED chatVars
  <2>1. LoopSound'
    BY <1>4, ServedStays DEF IInv, chatVars
  <2>2. Outside'
    <3>1. UNCHANGED <<enabled, stored, listing, spawned, todo, probing>>
      BY <1>4 DEF chatVars, store, tasks, probe
    <3>2. Outside
      BY DEF IInv
    <3> QED
      BY <3>1, <3>2 DEF Outside
  <2> QED
    BY <1>1, <2>1, <2>2 DEF IInv
<1> QED
  BY <1>1, <1>2, <1>3, <1>4 DEF Next, OtherTask, IInv

LEMMA EngineInvariant == Spec => []IInv
BY EngineInit, EngineStep, PTL DEF Spec

-----------------------------------------------------------------------------
(* The permits of an account and of the OCR gate never exceed their limits *)
(* and every local of a request, the rows and the probe keep their types.  *)
THEOREM ChatTypeCorrect == Spec => []ChatTypeOK
<1>1. IInv => ChatTypeOK
  <2> SUFFICES ASSUME IInv
               PROVE  ChatTypeOK
    OBVIOUS
  <2>1. ASSUME NEW S \in SUBSET Request
        PROVE  Cardinality(S) \in Nat
    <3>1. IsFiniteSet(S)
      BY FS_Subset, EngineAssumption
    <3> QED
      BY <3>1, FS_CardinalityType
  <2>2. permits \in [Account -> 0..LeaseLimit]
    <3>1. ASSUME NEW a \in Account
          PROVE  permits[a] \in 0..LeaseLimit
      <4> DEFINE S == {r \in Request : pc[r] \in Leased /\ acct(r) = a}
      <4>1. Cardinality(S) \in Nat
        BY <2>1
      <4>2. permits[a] \in Nat /\ permits[a] + Cardinality(S) = LeaseLimit
        BY DEF IInv, LoopSound, Gates, PermitsConserved
      <4> HIDE DEF S
      <4> QED
        BY <4>1, <4>2, Limits
    <3> QED
      BY <3>1 DEF IInv, LoopSound, Gates
  <2>3. ocr_gate \in 0..OcrLimit
    <3> DEFINE S == {r \in Request : HoldsGate(r)}
    <3>1. Cardinality(S) \in Nat
      BY <2>1
    <3>2. ocr_gate \in Nat /\ ocr_gate + Cardinality(S) = OcrLimit
      BY DEF IInv, LoopSound, Gates, PermitsConserved
    <3> HIDE DEF S
    <3> QED
      BY <3>1, <3>2, Limits
  <2>4. stored \in [Account -> Nat]
    BY TimeAssumption DEF IInv, Outside
  <2> QED
    BY <2>2, <2>3, <2>4
       DEF IInv, LoopSound, Requests, Locals, Places, Outside, ChatTypeOK
<1> QED
  BY <1>1, EngineInvariant, PTL

(* No way out of the retry loop, and no hang-up at any await, loses a      *)
(* lease permit or a place at the OCR gate, or gives one back twice        *)
(* (engine.rs:140-148, 216-230).                                           *)
THEOREM PermitsNeverLost == Spec => []PermitsConserved
<1>1. IInv => PermitsConserved
  BY DEF IInv, LoopSound
<1> QED
  BY <1>1, EngineInvariant, PTL

(* A request never goes back to an account it has spent an attempt on, and *)
(* never spends more than its budget (engine.rs:133-134).                  *)
THEOREM AttemptsDiffer == Spec => []EachAttemptElsewhere
<1>1. IInv => EachAttemptElsewhere
  BY DEF IInv, LoopSound, Requests, Elsewhere, EachAttemptElsewhere
<1> QED
  BY <1>1, EngineInvariant, PTL

(* The engine, the probe and reconcile use the pool only through its own   *)
(* operations, so that what is proved of the pool's steps holds of theirs: *)
(* the rotation of lib.rs:275-285 serves the engine as FairRotation says.  *)
THEOREM EngineServesFairly ==
  Spec => /\ []RotationSound
          /\ [][PoolNext]_poolVars
          /\ [][Rotation!Next]_(Rotation!vars)
<1>1. IInv => TypeOK /\ RotationSound
  BY DEF IInv
<1> QED
  BY <1>1, EngineInvariant, EngineIsPool, RefStep, PTL DEF Spec

-----------------------------------------------------------------------------
(* Who moves when a request gives up.                                      *)
LEMMA OnlyItself ==
  ASSUME IInv, NEW r \in Request, NEW q \in Request, q # r,
         Arrive(q) \/ Advance(q) \/ Cancel(q)
  PROVE  pc'[r] = pc[r]
<1>1. \/ UNCHANGED pc
      \/ \E place : pc' = [pc EXCEPT ![q] = place]
  BY DEF Arrive, Receive, ReceiveDirect, Cancel, Advance, PassGate, SelectTurn, SelectKeyed,
     PassOverKeyless, GiveUp, AcquireLease, LeaseTimeout, Prepare, Prepared, AttachmentsFail,
     TokenFails, Answer, AnswerText, AnswerRateLimited, AnswerFails, AfterError, AfterText,
     NextAttempt, Finish
<1> QED
  BY <1>1 DEF IInv, LoopSound, Requests, Locals

LEMMA OnlySelecting ==
  ASSUME IInv, NEW r \in Request, Arrive(r) \/ Advance(r) \/ Cancel(r),
         pc[r] = "select", pc'[r] \in {"weak", "error"}
  PROVE  SelectTurn(r)
<1>1. CASE Cancel(r)
  <2>1. pc'[r] = "cancelled"
    BY <1>1 DEF Cancel, Finish, IInv, LoopSound, Requests, Locals
  <2> QED
    BY <2>1
<1> QED
  BY <1>1 DEF Arrive, Receive, ReceiveDirect, Advance, PassGate, AcquireLease, LeaseTimeout,
     Prepare, Prepared, AttachmentsFail, TokenFails, Answer, AnswerText, AnswerRateLimited,
     AnswerFails

(* It stops for want of accounts with keys, or of turns.                   *)
GaveUpRightly(r) ==
  \/ Eligible(None, ToSet(tried[r])) \cap HasKeys = {}
  \/ \E a \in Eligible(None, skip[r]) \ HasKeys :
       Cardinality(KeylessSeen(r) \cup {a}) >= MaxAttempts

LEMMA GivesUp ==
  ASSUME IInv, NEW r \in Request, pc[r] = "select", SelectTurn(r),
         pc'[r] \in {"weak", "error"}
  PROVE  GaveUpRightly(r)
<1>1. /\ ToSet(tried[r]) \subseteq skip[r] /\ skip[r] \in SUBSET Account
      /\ skip[r] \subseteq ToSet(tried[r]) \cup (Account \ HasKeys)
      /\ pc \in [Request -> Places]
  BY DEF IInv, LoopSound, Requests, Locals, Placed
<1>2. CASE SelectsNobody(None, skip[r])
  BY <1>1, <1>2 DEF SelectsNobody, Eligible, GaveUpRightly
<1>3. ASSUME NEW a \in Account, Select(a, None, skip[r]), SelectKeyed(r, a)
      PROVE  FALSE
  <2>1. pc'[r] = "lease"
    BY <1>1, <1>3 DEF SelectKeyed
  <2> QED
    BY <2>1
<1>4. ASSUME NEW a \in Account, Select(a, None, skip[r]), PassOverKeyless(r, a)
      PROVE  GaveUpRightly(r)
  <2> DEFINE K == KeylessSeen(r)
  <2>1. a \in Eligible(None, skip[r]) \ HasKeys /\ a \notin K /\ K \in SUBSET Account
    BY <1>1, <1>4 DEF PassOverKeyless, KeylessSeen, Select, IsChoice, Eligible
  <2>2. ~(Cardinality(K) + 1 < MaxAttempts)
    BY <1>4 DEF PassOverKeyless
  <2>3. IsFiniteSet(K)
    BY <2>1, FS_Subset, EngineAssumption
  <2> HIDE DEF K
  <2>4. Cardinality(K \cup {a}) = Cardinality(K) + 1 /\ Cardinality(K) \in Nat
    BY <2>1, <2>3, FS_AddElement, FS_CardinalityType
  <2>5. Cardinality(K \cup {a}) >= MaxAttempts
    BY <2>2, <2>4, Limits
  <2> QED
    BY <2>1, <2>5 DEF GaveUpRightly, K
<1> QED
  BY <1>2, <1>3, <1>4 DEF SelectTurn

(* A request turns its client away only when no account with keys that it  *)
(* has not tried could serve it, or when as many different accounts        *)
(* without keys were in its way as the select loop has turns               *)
(* (engine.rs:308).                                                        *)
THEOREM TurnsAwayRightly == Spec => GivesUpOnlyWhenNobodyReady
<1>1. IInv /\ [Next]_chatVars =>
        [\A r \in Request :
           (pc[r] = "select" /\ pc'[r] \in {"weak", "error"}) => GaveUpRightly(r)]_chatVars
  <2> SUFFICES ASSUME IInv, Next, NEW r \in Request,
                      pc[r] = "select", pc'[r] \in {"weak", "error"}
               PROVE  GaveUpRightly(r)
    OBVIOUS
  <2>1. ~UNCHANGED pc
    OBVIOUS
  <2>2. ~OtherTask
    BY <2>1, TasksKeepRequests DEF request
  <2>3. PICK q \in Request : Arrive(q) \/ Advance(q) \/ Cancel(q)
    BY <2>2 DEF Next, OtherTask
  <2>4. q = r
    BY <2>3, OnlyItself
  <2>5. SelectTurn(r)
    BY <2>3, <2>4, OnlySelecting
  <2> QED
    BY <2>5, GivesUp
<1> QED
  BY <1>1, EngineInvariant, PTL DEF Spec, GivesUpOnlyWhenNobodyReady, GaveUpRightly

-----------------------------------------------------------------------------
(* Every step a request makes ends it, spends one more attempt, or brings  *)
(* it nearer to that: along the places of an attempt, and in the select    *)
(* loop with every turn.                                                   *)
ToGo(r) ==
  CASE pc[r] = "lease" -> MaxAttempts + 4
    [] pc[r] = "prepare" -> MaxAttempts + 3
    [] pc[r] = "upstream" -> MaxAttempts + 2
    [] pc[r] = "gate" -> MaxAttempts + 1
    [] pc[r] = "select" -> MaxAttempts - Cardinality(KeylessSeen(r))
    [] OTHER -> 0

TurnsLeft(r) == pc[r] = "select" => Cardinality(KeylessSeen(r)) < MaxAttempts

Nearer(r) ==
  \/ pc'[r] \in Over
  \/ Len(tried'[r]) = Len(tried[r]) + 1
  \/ tried'[r] = tried[r] /\ ToGo(r)' < ToGo(r)

LEMMA SeenFinite ==
  ASSUME IInv, NEW r \in Request
  PROVE  IsFiniteSet(KeylessSeen(r)) /\ Cardinality(KeylessSeen(r)) \in Nat
<1>1. KeylessSeen(r) \in SUBSET Account
  BY DEF IInv, LoopSound, Requests, Locals, KeylessSeen
<1> QED
  BY <1>1, FS_Subset, FS_CardinalityType, EngineAssumption

LEMMA ToGoBound ==
  ASSUME IInv, NEW r \in Request, TurnsLeft(r)
  PROVE  ToGo(r) \in 0 .. MaxAttempts + 4 /\ (pc[r] \in InFlight => ToGo(r) > 0)
<1> DEFINE n == Cardinality(KeylessSeen(r))
<1>1. n \in Nat /\ MaxAttempts \in Nat \ {0}
  BY SeenFinite, Limits
<1>2. pc[r] = "select" => n < MaxAttempts
  BY DEF TurnsLeft
<1>3. ToGo(r) = CASE pc[r] = "lease" -> MaxAttempts + 4
                  [] pc[r] = "prepare" -> MaxAttempts + 3
                  [] pc[r] = "upstream" -> MaxAttempts + 2
                  [] pc[r] = "gate" -> MaxAttempts + 1
                  [] pc[r] = "select" -> MaxAttempts - n
                  [] OTHER -> 0
  BY DEF ToGo
<1> HIDE DEF n
<1> QED
  BY <1>1, <1>2, <1>3 DEF InFlight, Waiting, Leased

LEMMA FinishEnds ==
  ASSUME IInv, NEW r \in Request, NEW result \in Over, Finish(r, result)
  PROVE  pc'[r] \in Over /\ pc'[r] # "select"
BY DEF IInv, LoopSound, Requests, Locals, Finish, Over

LEMMA RetryNearer ==
  ASSUME IInv, NEW r \in Request, NEW isWeak, pc[r] \in Leased, NextAttempt(r, isWeak)
  PROVE  Nearer(r) /\ TurnsLeft(r)'
<1>1. pc'[r] = "select" /\ tried'[r] = tried[r] /\ skip'[r] = ToSet(tried[r])
  BY DEF IInv, LoopSound, Requests, Locals, NextAttempt
<1>2. KeylessSeen(r)' = {}
  BY <1>1 DEF KeylessSeen
<1>3. Cardinality(KeylessSeen(r)') = 0
  BY <1>2, FS_EmptySet
<1>4. ToGo(r) > MaxAttempts /\ ToGo(r)' = MaxAttempts
  BY <1>1, <1>3, Limits DEF ToGo, Leased
<1> QED
  BY <1>1, <1>3, <1>4, Limits DEF Nearer, TurnsLeft

LEMMA AfterNearer ==
  ASSUME IInv, NEW r \in Request, pc[r] \in Leased,
         (\E b \in BOOLEAN : AfterError(r, b)) \/ (\E b \in BOOLEAN : AfterText(r, b))
  PROVE  Nearer(r) /\ TurnsLeft(r)'
<1>1. \/ \E isWeak \in BOOLEAN : NextAttempt(r, isWeak)
      \/ \E result \in Over : Finish(r, result)
  BY DEF AfterError, AfterText, Over
<1> QED
  BY <1>1, RetryNearer, FinishEnds DEF Nearer, TurnsLeft

LEMMA TurnNearer ==
  ASSUME IInv, NEW r \in Request, TurnsLeft(r), SelectTurn(r)
  PROVE  Nearer(r) /\ TurnsLeft(r)'
<1>1. /\ ToSet(tried[r]) \subseteq skip[r] /\ skip[r] \in SUBSET Account
      /\ pc[r] = "select" /\ Locals
  BY DEF SelectTurn, IInv, LoopSound, Requests, Locals, Placed
<1>2. ASSUME GiveUp(r)
      PROVE  Nearer(r) /\ TurnsLeft(r)'
  BY <1>2, FinishEnds DEF GiveUp, Over, Nearer, TurnsLeft
<1>3. ASSUME NEW a \in Account, SelectKeyed(r, a)
      PROVE  Nearer(r) /\ TurnsLeft(r)'
  <2>1. pc'[r] = "lease" /\ tried'[r] = Append(tried[r], a)
    BY <1>1, <1>3 DEF SelectKeyed, Locals
  <2>2. Len(tried'[r]) = Len(tried[r]) + 1
    BY <1>1, <2>1, ListFacts DEF Locals
  <2> QED
    BY <2>1, <2>2 DEF Nearer, TurnsLeft
<1>4. ASSUME NEW a \in Account, Select(a, None, skip[r]), PassOverKeyless(r, a), ~GiveUp(r)
      PROVE  Nearer(r) /\ TurnsLeft(r)'
  <2> DEFINE K == KeylessSeen(r)
  <2>1. /\ Cardinality(K) + 1 < MaxAttempts
        /\ skip'[r] = skip[r] \cup {a} /\ tried'[r] = tried[r] /\ pc'[r] = pc[r]
    BY <1>1, <1>4 DEF PassOverKeyless, Locals
  <2>2. a \notin skip[r]
    BY <1>4 DEF Select, IsChoice, Eligible
  <2>3. KeylessSeen(r)' = K \cup {a} /\ a \notin K
    BY <1>1, <2>1, <2>2 DEF KeylessSeen
  <2>4. IsFiniteSet(K) /\ Cardinality(K) \in Nat
    BY SeenFinite
  <2>5. Cardinality(K \cup {a}) = Cardinality(K) + 1
    BY <2>3, <2>4, FS_AddElement
  <2>6. ToGo(r) = MaxAttempts - Cardinality(K)
    BY <1>1 DEF ToGo
  <2>7. ToGo(r)' = MaxAttempts - (Cardinality(K) + 1)
    BY <1>1, <2>1, <2>3, <2>5 DEF ToGo
  <2>8. TurnsLeft(r)'
    BY <2>1, <2>3, <2>5 DEF TurnsLeft
  <2> HIDE DEF K
  <2>9. ToGo(r)' < ToGo(r)
    BY <2>4, <2>6, <2>7, Limits
  <2> QED
    BY <2>1, <2>8, <2>9 DEF Nearer
<1> QED
  BY <1>2, <1>3, <1>4 DEF SelectTurn

LEMMA AdvanceNearer ==
  ASSUME IInv, NEW r \in Request, TurnsLeft(r), Advance(r)
  PROVE  Nearer(r) /\ TurnsLeft(r)'
<1>1. Locals
  BY DEF IInv, LoopSound, Requests
<1>2. CASE PassGate(r)
  <2>1. pc[r] = "gate" /\ pc'[r] = "select" /\ tried'[r] = tried[r] /\ skip'[r] = {}
    BY <1>1, <1>2 DEF PassGate, Locals, IInv, LoopSound, Requests, Placed
  <2>2. KeylessSeen(r)' = {}
    BY <2>1 DEF KeylessSeen
  <2>3. Cardinality(KeylessSeen(r)') = 0
    BY <2>2, FS_EmptySet
  <2> QED
    BY <1>1, <2>1, <2>3, Limits DEF Nearer, ToGo, TurnsLeft
<1>3. CASE AcquireLease(r) \/ Prepared(r)
  <2>1. /\ tried'[r] = tried[r]
        /\ \/ pc[r] = "lease" /\ pc'[r] = "prepare"
           \/ pc[r] = "prepare" /\ pc'[r] = "upstream"
    BY <1>1, <1>3 DEF AcquireLease, Prepared, Locals
  <2> QED
    BY <2>1, Limits DEF Nearer, ToGo, TurnsLeft
<1>4. CASE LeaseTimeout(r)
  BY <1>4, FinishEnds DEF LeaseTimeout, Over, Nearer, TurnsLeft
<1>5. CASE Answer(r) \/ \E b \in BOOLEAN : AttachmentsFail(r, b) \/ TokenFails(r, b)
  <2>1. /\ pc[r] \in Leased
        /\ (\E b \in BOOLEAN : AfterError(r, b)) \/ (\E b \in BOOLEAN : AfterText(r, b))
    BY <1>5 DEF Answer, AnswerText, AnswerRateLimited, AnswerFails, AttachmentsFail, TokenFails, Leased
  <2> QED
    BY <2>1, AfterNearer
<1> QED
  BY <1>2, <1>3, <1>4, <1>5, TurnNearer DEF Advance, Prepare

(* The other steps leave a request where it is, take it in, or end it.     *)
Same(r) == pc'[r] = pc[r] /\ tried'[r] = tried[r] /\ skip'[r] = skip[r]

LEMMA OthersSame ==
  ASSUME IInv, NEW r \in Request, NEW q \in Request, q # r,
         Arrive(q) \/ Advance(q) \/ Cancel(q)
  PROVE  Same(r)
<1>1. /\ UNCHANGED pc \/ \E place : pc' = [pc EXCEPT ![q] = place]
      /\ UNCHANGED tried \/ \E some : tried' = [tried EXCEPT ![q] = some]
      /\ UNCHANGED skip \/ \E some : skip' = [skip EXCEPT ![q] = some]
  BY DEF Arrive, Receive, ReceiveDirect, Cancel, Advance, PassGate, SelectTurn, SelectKeyed,
     PassOverKeyless, GiveUp, AcquireLease, LeaseTimeout, Prepare, Prepared, AttachmentsFail,
     TokenFails, Answer, AnswerText, AnswerRateLimited, AnswerFails, AfterError, AfterText,
     NextAttempt, Finish
<1> QED
  BY <1>1 DEF IInv, LoopSound, Requests, Locals, Same

LEMMA SameTurns ==
  ASSUME NEW r \in Request, TurnsLeft(r), Same(r)
  PROVE  TurnsLeft(r)'
BY DEF TurnsLeft, Same, KeylessSeen

LEMMA ArriveTurns ==
  ASSUME IInv, NEW r \in Request, Arrive(r)
  PROVE  pc[r] = "idle" /\ TurnsLeft(r)'
<1>1. Locals
  BY DEF IInv, LoopSound, Requests
<1>2. pc[r] = "idle"
  BY DEF Arrive, Receive, ReceiveDirect
<1>3. pc'[r] = "select" => skip'[r] = {}
  BY <1>1, <1>2 DEF Arrive, Receive, ReceiveDirect, Locals, IInv, LoopSound, Requests, Placed
<1>4. pc'[r] = "select" => KeylessSeen(r)' = {}
  BY <1>3 DEF KeylessSeen
<1>5. pc'[r] = "select" => Cardinality(KeylessSeen(r)') = 0
  BY <1>4, FS_EmptySet
<1> QED
  BY <1>2, <1>5, Limits DEF TurnsLeft

LEMMA StepNearer ==
  ASSUME IInv, [Next]_chatVars, NEW r \in Request, TurnsLeft(r)
  PROVE  /\ Same(r) \/ pc[r] = "idle" \/ Nearer(r)
         /\ TurnsLeft(r)'
<1>1. CASE OtherTask \/ UNCHANGED chatVars
  <2>1. Same(r)
    BY <1>1, TasksKeepRequests DEF chatVars, request, Same
  <2> QED
    BY <2>1, SameTurns
<1>2. ASSUME NEW q \in Request, q # r, Arrive(q) \/ Advance(q) \/ Cancel(q)
      PROVE  Same(r) /\ TurnsLeft(r)'
  BY <1>2, OthersSame, SameTurns
<1>3. CASE Cancel(r)
  BY <1>3, FinishEnds DEF Cancel, Over, Nearer, TurnsLeft
<1> QED
  BY <1>1, <1>2, <1>3, AdvanceNearer, ArriveTurns DEF Next, OtherTask

(* A request cannot go round for ever: it has RetryMax attempts and in     *)
(* each no more than MaxAttempts + 4 steps, and every step it makes ends   *)
(* it, spends another attempt or leaves it with fewer steps, whatever the  *)
(* pool and the other requests do meanwhile (engine.rs:140-212, 296-330).  *)
THEOREM RequestsRunOut ==
  Spec => /\ [](\A r \in Request : /\ Len(tried[r]) \in 0 .. RetryMax
                                   /\ ToGo(r) \in 0 .. MaxAttempts + 4
                                   /\ pc[r] \in InFlight => ToGo(r) > 0)
          /\ [][\A r \in Request : Same(r) \/ pc[r] = "idle" \/ Nearer(r)]_chatVars
<1> DEFINE Turns == \A r \in Request : TurnsLeft(r)
           Bounded == \A r \in Request : /\ Len(tried[r]) \in 0 .. RetryMax
                                         /\ ToGo(r) \in 0 .. MaxAttempts + 4
                                         /\ pc[r] \in InFlight => ToGo(r) > 0
           Step == \A r \in Request : Same(r) \/ pc[r] = "idle" \/ Nearer(r)
<1>1. Init => Turns
  BY DEF Init, TurnsLeft
<1>2. IInv /\ Turns /\ [Next]_chatVars => Turns'
  BY StepNearer
<1>3. IInv /\ Turns /\ [Next]_chatVars => [Step]_chatVars
  BY StepNearer
<1>4. IInv /\ Turns => Bounded
  <2> SUFFICES ASSUME IInv, Turns, NEW r \in Request
               PROVE  /\ Len(tried[r]) \in 0 .. RetryMax
                      /\ ToGo(r) \in 0 .. MaxAttempts + 4
                      /\ pc[r] \in InFlight => ToGo(r) > 0
    OBVIOUS
  <2>1. Len(tried[r]) \in Nat /\ Len(tried[r]) <= RetryMax
    BY ListFacts DEF IInv, LoopSound, Requests, Locals, Elsewhere
  <2> QED
    BY <2>1, ToGoBound, Limits
<1> HIDE DEF Turns, Bounded, Step
<1>5. Spec => []Bounded /\ [][Step]_chatVars
  BY <1>1, <1>2, <1>3, <1>4, EngineInvariant, PTL DEF Spec
<1> QED
  BY <1>5 DEF Bounded, Step

-----------------------------------------------------------------------------
(* The refinement.  Only AcquireLease takes a slot, only the request that  *)
(* holds one gives it back, and it holds no other.                         *)
LEMMA SameCount == \A S : Trait!Cardinality(S) = Cardinality(S)
BY DEF Trait!Cardinality, Cardinality

Leases(a) == {r \in Request : pc[r] \in Leased /\ acct(r) = a}
Holders == {r \in Request : pc[r] \in Leased}
Slots == <<[a \in Account |-> Leases(a)], Holders, Holders>>

LEMMA EndsUnleased ==
  ASSUME IInv, NEW r \in Request, Arrive(r) \/ Advance(r) \/ Cancel(r),
         ~AcquireLease(r), ~Prepared(r)
  PROVE  pc'[r] \notin Leased
<1>1. Locals
  BY DEF IInv, LoopSound, Requests
<1>2. \A result \in Over : Finish(r, result) => pc'[r] \notin Leased
  BY FinishEnds DEF Over, Leased
<1>3. \A b : NextAttempt(r, b) => pc'[r] \notin Leased
  BY <1>1 DEF NextAttempt, Leased, Locals
<1>4. CASE SelectTurn(r)
  <2>1. \/ GiveUp(r) \/ UNCHANGED pc
        \/ pc' = [pc EXCEPT ![r] = "lease"]
    BY <1>4 DEF SelectTurn, SelectKeyed, PassOverKeyless
  <2> QED
    BY <1>1, <1>2, <1>4, <2>1 DEF GiveUp, Over, SelectTurn, Leased, Locals
<1>5. CASE Arrive(r) \/ PassGate(r)
  BY <1>1, <1>5 DEF Arrive, Receive, ReceiveDirect, PassGate, Leased, Locals
<1>6. CASE LeaseTimeout(r) \/ Cancel(r)
  BY <1>2, <1>6 DEF LeaseTimeout, Cancel, Over
<1>7. CASE \/ Answer(r)
           \/ \E b \in BOOLEAN : AttachmentsFail(r, b) \/ TokenFails(r, b)
  <2>1. (\E b \in BOOLEAN : AfterError(r, b)) \/ (\E b \in BOOLEAN : AfterText(r, b))
    BY <1>7 DEF Answer, AnswerText, AnswerRateLimited, AnswerFails, AttachmentsFail, TokenFails
  <2>2. \/ \E b \in BOOLEAN : NextAttempt(r, b)
        \/ \E result \in Over : Finish(r, result)
    BY <2>1 DEF AfterError, AfterText, Over
  <2> QED
    BY <1>2, <1>3, <2>2
<1> QED
  BY <1>4, <1>5, <1>6, <1>7 DEF Advance, Prepare

LEMMA OthersLeases ==
  ASSUME IInv, NEW r \in Request, Arrive(r) \/ Advance(r) \/ Cancel(r), NEW a \in Account
  PROVE  \A q \in Request \ {r} : q \in Leases(a)' <=> q \in Leases(a)
BY OthersSame DEF Leases, Same, acct

LEMMA OthersHolders ==
  ASSUME IInv, NEW r \in Request, Arrive(r) \/ Advance(r) \/ Cancel(r)
  PROVE  \A q \in Request \ {r} : q \in Holders' <=> q \in Holders
BY OthersSame DEF Holders, Same

LEMMA AcquireIsTraits ==
  ASSUME IInv, NEW r \in Request, AcquireLease(r)
  PROVE  Trait!Next
<1> DEFINE held == [b \in Account |-> Leases(b)]
<1>1. PICK a \in Account : a = acct(r)
  BY AccountOf DEF AcquireLease, IInv, LoopSound
<1>2. /\ pc[r] = "lease" /\ pc'[r] = "prepare" /\ tried'[r] = tried[r] /\ permits[a] > 0
      /\ permits[a] \in Nat
  BY <1>1 DEF AcquireLease, IInv, LoopSound, Requests, Locals, Gates, Leased
<1>3. acct(r)' = a
  BY <1>1, <1>2 DEF acct
<1>4. \A b \in Account : r \notin Leases(b) /\ (r \in Leases(b)' <=> b = a)
  BY <1>1, <1>2, <1>3 DEF Leases, Leased
<1>5. \A b \in Account : Leases(b)' = IF b = a THEN Leases(b) \cup {r} ELSE Leases(b)
  <2>1. \A b \in Account : \A q \in Request \ {r} : q \in Leases(b)' <=> q \in Leases(b)
    BY OthersLeases DEF Advance
  <2> QED
    BY <1>4, <2>1 DEF Leases
<1>6. Cardinality(Leases(a)) < LeaseLimit
  <2>1. permits[a] + Cardinality(Leases(a)) = LeaseLimit
    BY <1>1 DEF IInv, LoopSound, PermitsConserved, Leases
  <2>2. Leases(a) \in SUBSET Request
    BY DEF Leases
  <2>3. Cardinality(Leases(a)) \in Nat
    BY <2>2, EngineAssumption, FS_Subset, FS_CardinalityType
  <2> QED
    BY <1>2, <2>1, <2>3, Limits
<1>7. held' = [held EXCEPT ![a] = @ \cup {r}]
  BY <1>1, <1>5
<1>8. (\A b \in Account : r \notin held[b]) /\ Cardinality(held[a]) < LeaseLimit
  BY <1>1, <1>4, <1>6
<1>9. Holders' = Holders \cup {r}
  <2>1. r \in Holders'
    BY <1>2 DEF Holders, Leased
  <2>2. \A q \in Request \ {r} : q \in Holders' <=> q \in Holders
    BY OthersHolders DEF Advance
  <2> QED
    BY <2>1, <2>2 DEF Holders
<1>10. Trait!Acquire(r, a)
  BY <1>7, <1>8, <1>9, SameCount DEF Trait!Acquire, Trait!Active, Leases, Holders
<1> QED
  BY <1>1, <1>10 DEF Trait!Next

LEMMA TraitStep ==
  ASSUME IInv, [Next]_chatVars
  PROVE  Trait!Next \/ UNCHANGED Slots
<1>1. CASE OtherTask \/ UNCHANGED chatVars
  <2>1. UNCHANGED request
    BY <1>1, TasksKeepRequests DEF chatVars
  <2> QED
    BY <2>1 DEF request, Leases, Holders, Slots, acct
<1>2. ASSUME NEW r \in Request, AcquireLease(r)
      PROVE  Trait!Next
  BY <1>2, AcquireIsTraits
<1>3. ASSUME NEW r \in Request, Prepared(r)
      PROVE  UNCHANGED Slots
  <2>1. /\ \A a \in Account : r \in Leases(a)' <=> r \in Leases(a)
        /\ r \in Holders' <=> r \in Holders
    BY <1>3 DEF Prepared, Leases, Holders, Leased, acct, IInv, LoopSound, Requests, Locals
  <2>2. \A a \in Account : \A q \in Request \ {r} : q \in Leases(a)' <=> q \in Leases(a)
    BY <1>3, OthersLeases DEF Advance, Prepare
  <2>3. \A a \in Account : Leases(a)' = Leases(a)
    BY <2>1, <2>2 DEF Leases
  <2>4. Holders' = Holders
    <3>1. \A q \in Request \ {r} : q \in Holders' <=> q \in Holders
      BY <1>3, OthersHolders DEF Advance, Prepare
    <3> QED
      BY <2>1, <3>1 DEF Holders
  <2> QED
    BY <2>3, <2>4 DEF Slots
<1>4. ASSUME NEW r \in Request, Arrive(r) \/ Advance(r) \/ Cancel(r),
             ~AcquireLease(r), ~Prepared(r)
      PROVE  Trait!Next \/ UNCHANGED Slots
  <2> DEFINE held == [b \in Account |-> Leases(b)]
  <2>1. \A b \in Account : Leases(b)' = Leases(b) \ {r}
    <3>1. \A b \in Account : r \notin Leases(b)'
      BY <1>4, EndsUnleased DEF Leases
    <3>2. \A b \in Account : \A q \in Request \ {r} : q \in Leases(b)' <=> q \in Leases(b)
      BY <1>4, OthersLeases
    <3> QED
      BY <3>1, <3>2 DEF Leases
  <2>9. Holders' = Holders \ {r}
    <3>1. r \notin Holders'
      BY <1>4, EndsUnleased DEF Holders
    <3>2. \A q \in Request \ {r} : q \in Holders' <=> q \in Holders
      BY <1>4, OthersHolders
    <3> QED
      BY <3>1, <3>2 DEF Holders
  <2>2. CASE pc[r] \notin Leased
    <3>1. (\A b \in Account : Leases(b)' = Leases(b)) /\ Holders' = Holders
      BY <2>1, <2>2, <2>9 DEF Leases, Holders
    <3> QED
      BY <3>1 DEF Slots
  <2>3. CASE pc[r] \in Leased
    <3>1. PICK a \in Account : r \in Leases(a) /\ \A b \in Account \ {a} : r \notin Leases(b)
      BY <2>3, AccountOf DEF IInv, LoopSound, Leases
    <3>2. \A b \in Account : Leases(b)' = IF b = a THEN Leases(b) \ {r} ELSE Leases(b)
      BY <2>1, <3>1
    <3>3. held' = [held EXCEPT ![a] = @ \ {r}]
      BY <3>2
    <3>4. Trait!Release(a, {r})
      <4>1. Holders' \in {Holders, Holders \ {r}} /\ {r} \cap Holders' \cap Holders = {}
        BY <2>9
      <4> QED
        BY <2>9, <3>3, <4>1 DEF Trait!Release, Leases, Holders
    <3>5. {r} \in SUBSET held[a]
      BY <3>1
    <3> QED
      BY <3>1, <3>4, <3>5 DEF Trait!Next, Leases
  <2> QED
    BY <2>2, <2>3
<1> QED
  BY <1>1, <1>2, <1>3, <1>4 DEF Next, OtherTask

(* The in-memory backend implements the trait LeaseManager for gates of    *)
(* LeaseLimit slots: no request is given a slot beyond the limit, a slot   *)
(* is not free before its request has dropped the lease, and retries,      *)
(* timeouts, errors and clients that hang up give back the one slot they   *)
(* have and no other (memory.rs:72-91, lease.rs:96-112).                   *)
THEOREM MemoryKeepsTrait == Spec => Trait!Spec
<1>1. Init => Trait!Init
  BY DEF Init, Trait!Init, Leased
<1>2. IInv /\ [Next]_chatVars => [Trait!Next]_(Trait!vars)
  BY TraitStep DEF Slots, Leases, Holders, Trait!vars
<1> QED
  BY <1>1, <1>2, EngineInvariant, PTL DEF Spec, Trait!Spec
=============================================================================
