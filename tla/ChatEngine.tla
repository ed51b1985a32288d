----------------------------- MODULE ChatEngine -----------------------------
(***************************************************************************)
(* grok-provider-web's ChatEngine over the shared SimplifiedPool, the      *)
(* per-account egress lease (in-memory backend) and the account rows in    *)
(* PG.  Concurrent requests each run the retry loop of chat_outcome; the   *)
(* reconcile task copies PG into the pool; the dispatch probe reports on   *)
(* accounts of its own accord; spawned tasks write an account's health     *)
(* back to PG, in whatever order they get to run.                          *)
(*                                                                         *)
(* One action is the code between two awaits that other tasks can see.     *)
(***************************************************************************)
EXTENDS SimplifiedPool, Sequences, SequencesExt

CONSTANTS Request,     \* requests the server receives
          HasKeys,     \* accounts whose pure-http session keys are on disk
          RetryMax,    \* attempts per request (GROK_CHAT_RETRY_MAX)
          MaxAttempts, \* accounts tried for keys per attempt (64)
          LeaseLimit,  \* permits per account (4)
          OcrLimit,    \* OCR requests at a time (GROK_OCR_GLOBAL_CONCURRENCY)
          Managed,     \* bound: accounts an operator switches on and off
          Direct,      \* bound: accounts that get direct requests
          Probed       \* bound: accounts the dispatch probe looks at

ASSUME EngineAssumption ==
  /\ IsFiniteSet(Request) /\ IsFiniteSet(Account) /\ HasKeys \subseteq Account
  /\ 0..RlBase \subseteq StoreCooldown
  /\ RetryMax \in Nat \ {0} /\ MaxAttempts \in Nat \ {0}
  /\ LeaseLimit \in Nat \ {0} /\ OcrLimit \in Nat \ {0}
  /\ Managed \subseteq Account /\ Direct \subseteq Account /\ Probed \subseteq Account

VARIABLES pc,       \* where each request is
          kind,     \* "chat", "ocr", or "direct" (to a named account)
          tried,    \* accounts the request has spent an attempt on, in order
          skip,     \* accounts the current select loop passes over
          weak,     \* has an attempt returned a weak OCR text?
          permits,  \* free permits of each account's lease gate
          ocr_gate, \* free permits of ocr_global_gate
          enabled,  \* PG: grok_web accounts with enabled = true
          stored,   \* PG: what is left of each row's cooldown_until
          listing,  \* what list_pool returned to a reconcile under way
          spawned,  \* health writes spawned and not yet run
          todo,     \* accounts left in the probe's round
          probing   \* the account whose probe is under way, or None

request == <<pc, kind, tried, skip, weak>>
gates == <<permits, ocr_gate>>
store == <<enabled, stored>>
probe == <<todo, probing>>
tasks == <<listing, spawned, probe>>
chatVars == <<poolVars, request, gates, store, tasks>>

NoListing == [ids |-> {}, left |-> <<>>, busy |-> FALSE]

acct(r) == Last(tried[r])
Leased == {"prepare", "upstream"}
Waiting == {"select", "lease"}
InFlight == {"gate"} \cup Waiting \cup Leased
Over == {"text", "weak", "error", "cancelled"}

HoldsGate(r) == kind[r] = "ocr" /\ pc[r] \in Waiting \cup Leased

-----------------------------------------------------------------------------
(* The ways a request leaves the retry loop.  The lease guard and the OCR  *)
(* gate guard are dropped on every one of them, and the locals are gone.   *)
LeakLease(r) ==  \* mutant: the guard lives in the bridge call only
  permits' = IF pc[r] = "upstream"
             THEN [permits EXCEPT ![acct(r)] = @ + 1] ELSE permits

DropLease(r) ==
  permits' = IF pc[r] \in Leased
             THEN [permits EXCEPT ![acct(r)] = @ + 1] ELSE permits

LeakGate(r) ==  \* mutant: the gate is only given back after a lease
  ocr_gate' = IF HoldsGate(r) /\ pc[r] \in Leased THEN ocr_gate + 1 ELSE ocr_gate

ReleaseAnyGate(r) ==  \* mutant: every request gives the gate back
  ocr_gate' = IF pc[r] \in Waiting \cup Leased THEN ocr_gate + 1 ELSE ocr_gate

DropGate(r) == ocr_gate' = IF HoldsGate(r) THEN ocr_gate + 1 ELSE ocr_gate

Finish(r, result) ==
  /\ pc' = [pc EXCEPT ![r] = result]
  /\ DropLease(r) /\ DropGate(r)
  /\ kind' = [kind EXCEPT ![r] = "chat"]
  /\ tried' = [tried EXCEPT ![r] = <<>>]
  /\ skip' = [skip EXCEPT ![r] = {}]
  /\ weak' = [weak EXCEPT ![r] = FALSE]

RetryByCooldown(r, isWeak) ==  \* mutant: relies on the cooldown alone
  /\ pc' = [pc EXCEPT ![r] = "select"]
  /\ weak' = [weak EXCEPT ![r] = @ \/ isWeak]
  /\ DropLease(r)
  /\ UNCHANGED <<kind, tried, skip, ocr_gate>>

(* Another attempt: the select loop starts over with the tried accounts.   *)
NextAttempt(r, isWeak) ==
  /\ pc' = [pc EXCEPT ![r] = "select"]
  /\ skip' = [skip EXCEPT ![r] = ToSet(tried[r])]
  /\ weak' = [weak EXCEPT ![r] = @ \/ isWeak]
  /\ DropLease(r)
  /\ UNCHANGED <<kind, tried, ocr_gate>>

MayRetry(r) == kind[r] # "direct" /\ Len(tried[r]) < RetryMax

AfterError(r, retryable) ==
  IF retryable /\ MayRetry(r) THEN NextAttempt(r, FALSE) ELSE Finish(r, "error")

AfterText(r, weakText) ==
  IF weakText /\ kind[r] = "ocr" /\ MayRetry(r)
  THEN NextAttempt(r, TRUE) ELSE Finish(r, "text")

-----------------------------------------------------------------------------
(* chat_outcome up to its first attempt: an OCR request waits for the gate *)
(* all OCR requests share.                                                 *)
Receive(r, k) ==
  /\ pc[r] = "idle"
  /\ kind' = [kind EXCEPT ![r] = k]
  /\ pc' = [pc EXCEPT ![r] = IF k = "ocr" THEN "gate" ELSE "select"]
  /\ UNCHANGED <<poolVars, tried, skip, weak, gates, store, tasks>>

PassGate(r) ==
  /\ pc[r] = "gate" /\ ocr_gate > 0
  /\ ocr_gate' = ocr_gate - 1
  /\ pc' = [pc EXCEPT ![r] = "select"]
  /\ UNCHANGED <<poolVars, kind, tried, skip, weak, permits, store, tasks>>

(* chat_for_account: nurturing and tests name the account themselves.      *)
ReceiveDirect(r, a) ==
  /\ pc[r] = "idle"
  /\ IF a \in HasKeys
     THEN /\ pc' = [pc EXCEPT ![r] = "lease"]
          /\ kind' = [kind EXCEPT ![r] = "direct"]
          /\ tried' = [tried EXCEPT ![r] = <<a>>]
     ELSE /\ pc' = [pc EXCEPT ![r] = "error"]
          /\ UNCHANGED <<kind, tried>>
  /\ UNCHANGED <<poolVars, skip, weak, gates, store, tasks>>

(* One turn of select_account_with_keys_skip.  An account without keys is  *)
(* passed over without a cooldown; MaxAttempts turns end the loop.         *)
KeylessSeen(r) == skip[r] \ ToSet(tried[r])

GiveUp(r) == Finish(r, IF weak[r] THEN "weak" ELSE "error")

SelectKeyed(r, a) ==
  /\ a \in HasKeys
  /\ pc' = [pc EXCEPT ![r] = "lease"]
  /\ tried' = [tried EXCEPT ![r] = Append(@, a)]
  /\ skip' = [skip EXCEPT ![r] = {}]
  /\ UNCHANGED <<kind, weak, gates>>

StopAtKeyless(r, a) ==  \* mutant: the first keyless account ends the loop
  a \notin HasKeys /\ GiveUp(r)

PassOverKeyless(r, a) ==
  /\ a \notin HasKeys
  /\ IF Cardinality(KeylessSeen(r)) + 1 < MaxAttempts
     THEN /\ skip' = [skip EXCEPT ![r] = @ \cup {a}]
          /\ UNCHANGED <<pc, kind, tried, weak, gates>>
     ELSE GiveUp(r)

SelectTurn(r) ==
  /\ pc[r] = "select"
  /\ \/ \E a \in Account :
          /\ Select(a, None, skip[r])
          /\ SelectKeyed(r, a) \/ PassOverKeyless(r, a)
     \/ SelectsNobody(None, skip[r]) /\ GiveUp(r)
  /\ UNCHANGED <<store, tasks>>

-----------------------------------------------------------------------------
(* execute_for_account.  A lease is awaited at most lease_duration; the    *)
(* timeout can only strike a request that found no free permit.            *)
AcquireLease(r) ==
  /\ pc[r] = "lease" /\ permits[acct(r)] > 0
  /\ permits' = [permits EXCEPT ![acct(r)] = @ - 1]
  /\ pc' = [pc EXCEPT ![r] = "prepare"]
  /\ UNCHANGED <<poolVars, kind, tried, skip, weak, ocr_gate, store, tasks>>

LeaseTimeout(r) ==
  /\ pc[r] = "lease" /\ permits[acct(r)] = 0
  /\ DispatchFailure(acct(r))
  /\ Finish(r, "error")
  /\ UNCHANGED <<store, tasks>>

(* Attachments and the sso token.  A failed attachment is booked, a failed *)
(* token is not; either error text may look retryable.                     *)
Prepared(r) ==
  /\ pc[r] = "prepare"
  /\ pc' = [pc EXCEPT ![r] = "upstream"]
  /\ UNCHANGED <<poolVars, kind, tried, skip, weak, gates, store, tasks>>

AttachmentsFail(r, retryable) ==
  /\ pc[r] = "prepare"
  /\ DispatchFailure(acct(r))
  /\ AfterError(r, retryable)
  /\ UNCHANGED <<store, tasks>>

TokenFails(r, retryable) ==
  /\ pc[r] = "prepare"
  /\ AfterError(r, retryable)
  /\ UNCHANGED <<poolVars, store, tasks>>

(* The three answers of the bridge: book, spawn the health write, go on.   *)
Spawn(r, outcome) ==
  spawned' = spawned \cup {[req |-> r, on |-> acct(r), outcome |-> outcome]}

AnswerText(r, weakText) ==
  /\ pc[r] = "upstream"
  /\ DispatchSuccess(acct(r))
  /\ Spawn(r, "success")
  /\ AfterText(r, weakText)
  /\ UNCHANGED <<store, listing, probe>>

AnswerRateLimited(r) ==
  /\ pc[r] = "upstream"
  /\ DispatchRateLimited(acct(r))
  /\ Spawn(r, "rate_limited")
  /\ AfterError(r, TRUE)
  /\ UNCHANGED <<store, listing, probe>>

AnswerFails(r) ==
  /\ pc[r] = "upstream"
  /\ DispatchFailure(acct(r))
  /\ AfterError(r, FALSE)
  /\ UNCHANGED <<store, tasks>>

(* The client of a non-streaming request hangs up: axum drops the future   *)
(* at the await it is in.                                                  *)
Cancel(r) ==
  /\ pc[r] \in InFlight
  /\ Finish(r, "cancelled")
  /\ UNCHANGED <<poolVars, store, tasks>>

-----------------------------------------------------------------------------
(* A spawned health write runs.  update_health overwrites the row: the     *)
(* fixed base cooldown after a rate limit, none after a success.           *)
HealthWrite(w) ==
  /\ w \in spawned
  /\ spawned' = spawned \ {w}
  /\ stored' = [stored EXCEPT ![w.on] = IF w.outcome = "success" THEN 0 ELSE RlBase]
  /\ UNCHANGED <<poolVars, request, gates, enabled, listing, probe>>

HealthWriteFails(w) ==
  /\ w \in spawned
  /\ spawned' = spawned \ {w}
  /\ UNCHANGED <<poolVars, request, gates, store, listing, probe>>

(* An operator enables or disables an account.                             *)
Operator(a) ==
  /\ a \in Managed
  /\ enabled' = IF a \in enabled THEN enabled \ {a} ELSE enabled \cup {a}
  /\ UNCHANGED <<poolVars, request, gates, stored, tasks>>

(* The dispatch probe: a round over the ids of the pool at its start.  It  *)
(* looks at the cooldown before the probe and reports after it.  Without   *)
(* keys the probe fails at once; a token error ends the round unreported.  *)
ProbeRound ==
  /\ todo = {} /\ probing = None
  /\ todo' = accounts \cap Probed
  /\ UNCHANGED <<poolVars, request, gates, store, listing, spawned, probing>>

ProbeVisit(a) ==
  /\ probing = None /\ a \in todo
  /\ todo' = todo \ {a}
  /\ \/ cooldown_until[a] > 0 /\ UNCHANGED <<poolVars, probing>>
     \/ /\ cooldown_until[a] = 0 /\ a \in HasKeys
        /\ probing' = a
        /\ UNCHANGED poolVars
     \/ /\ cooldown_until[a] = 0 /\ a \notin HasKeys
        /\ DispatchFailure(a)
        /\ UNCHANGED probing
  /\ UNCHANGED <<request, gates, store, listing, spawned>>

ProbeAnswers ==
  /\ probing # None
  /\ DispatchSuccess(probing) \/ DispatchFailure(probing)
  /\ probing' = None
  /\ UNCHANGED <<request, gates, store, listing, spawned, todo>>

ProbeAborts ==
  /\ probing # None
  /\ todo' = {} /\ probing' = None
  /\ UNCHANGED <<poolVars, request, gates, store, listing, spawned>>

(* reconcile: the query, then the critical section.                        *)
ReconcileQuery ==
  /\ ~listing.busy
  /\ listing' = [ids |-> enabled, left |-> [a \in enabled |-> stored[a]], busy |-> TRUE]
  /\ UNCHANGED <<poolVars, request, gates, store, spawned, probe>>

OnlyAdd ==  \* mutant: reconcile adds accounts and removes none
  /\ listing.busy
  /\ Reconcile(listing.ids \cup accounts,
               [a \in listing.ids \cup accounts |-> stored[a]])
  /\ listing' = NoListing
  /\ UNCHANGED <<request, gates, store, spawned, probe>>

ReconcileApply ==
  /\ listing.busy
  /\ Reconcile(listing.ids, listing.left)
  /\ listing' = NoListing
  /\ UNCHANGED <<request, gates, store, spawned, probe>>

(* A unit of time passes for the pool, the rows and the listing alike.     *)
Less(left) == [a \in DOMAIN left |-> Larger(left[a] - 1, 0)]

Running(left) == \E a \in DOMAIN left : left[a] > 0

TimePasses ==
  /\ Running(cooldown_until) \/ Running(stored) \/ Running(listing.left)
  /\ cooldown_until' = Less(cooldown_until)
  /\ stored' = Less(stored)
  /\ listing' = [listing EXCEPT !.left = Less(@)]
  /\ UNCHANGED <<accounts, pin, rl_failure_count, rotation, last_reconciled_at,
                 request, gates, enabled, spawned, probe>>

-----------------------------------------------------------------------------
(* The server starts with a successful load of an all-enabled store.       *)
Init ==
  /\ accounts = Account /\ pin = None
  /\ cooldown_until = [a \in Account |-> 0]
  /\ rl_failure_count = [a \in Account |-> 0]
  /\ select_seq = 0 /\ last_selected_seq = [a \in Account |-> 0]
  /\ last_reconciled_at = TRUE
  /\ pc = [r \in Request |-> "idle"]
  /\ kind = [r \in Request |-> "chat"]
  /\ tried = [r \in Request |-> <<>>]
  /\ skip = [r \in Request |-> {}]
  /\ weak = [r \in Request |-> FALSE]
  /\ permits = [a \in Account |-> LeaseLimit]
  /\ ocr_gate = OcrLimit
  /\ enabled = Account
  /\ stored = [a \in Account |-> 0]
  /\ listing = NoListing
  /\ spawned = {}
  /\ todo = {} /\ probing = None

Answer(r) ==
  \/ \E weakText \in BOOLEAN : AnswerText(r, weakText)
  \/ AnswerRateLimited(r)
  \/ AnswerFails(r)

Prepare(r) ==
  \/ Prepared(r)
  \/ \E retryable \in BOOLEAN :
       AttachmentsFail(r, retryable) \/ TokenFails(r, retryable)

(* What the runtime does for a request without any help from its client.   *)
Advance(r) ==
  \/ PassGate(r) \/ SelectTurn(r)
  \/ AcquireLease(r) \/ LeaseTimeout(r)
  \/ Prepare(r) \/ Answer(r)

Arrive(r) ==
  \/ \E k \in {"chat", "ocr"} : Receive(r, k)
  \/ \E a \in Direct : ReceiveDirect(r, a)

Next ==
  \/ \E r \in Request : Arrive(r) \/ Advance(r) \/ Cancel(r)
  \/ \E w \in spawned : HealthWrite(w) \/ HealthWriteFails(w)
  \/ \E a \in Account : Operator(a) \/ ProbeVisit(a)
  \/ ProbeRound \/ ProbeAnswers \/ ProbeAborts
  \/ ReconcileQuery \/ ReconcileApply
  \/ TimePasses

Spec == Init /\ [][Next]_chatVars

(* Tokio keeps polling every task, the bridge's HTTP client has a timeout, *)
(* and the scheduler runs reconcile again after every round.               *)
FairSpec ==
  /\ Spec
  /\ \A r \in Request : WF_chatVars(Advance(r))
  /\ WF_chatVars(ReconcileQuery) /\ WF_chatVars(ReconcileApply)
-----------------------------------------------------------------------------
ChatTypeOK ==
  /\ TypeOK
  /\ pc \in [Request -> {"idle"} \cup InFlight \cup Over]
  /\ kind \in [Request -> {"chat", "ocr", "direct"}]
  /\ tried \in [Request -> Seq(Account)]
  /\ skip \in [Request -> SUBSET Account]
  /\ weak \in [Request -> BOOLEAN]
  /\ permits \in [Account -> 0..LeaseLimit]
  /\ ocr_gate \in 0..OcrLimit
  /\ enabled \in SUBSET Account
  /\ stored \in [Account -> Nat]
  /\ listing.ids \in SUBSET Account /\ listing.busy \in BOOLEAN
  /\ spawned \subseteq [req : Request, on : Account,
                         outcome : {"success", "rate_limited"}]
  /\ todo \in SUBSET Account /\ probing \in Account \cup {None}

(* Permits are neither lost nor made up on any way out of the retry loop:  *)
(* answer, error, retry, timeout, or a client that hangs up at any await   *)
(* (the RAII guards of engine.rs:140-148 and 216-230).  A lost lease       *)
(* permit would fail every later request on that account after 5s.         *)
PermitsConserved ==
  /\ \A a \in Account :
       permits[a] + Cardinality({r \in Request : pc[r] \in Leased /\ acct(r) = a})
         = LeaseLimit
  /\ ocr_gate + Cardinality({r \in Request : HoldsGate(r)}) = OcrLimit

(* The trait LeaseManager, as the in-memory backend keeps it: the leases   *)
(* of an account are named after the requests that hold them, and have no  *)
(* time limit.                                                             *)
Trait == INSTANCE LeaseGate WITH
  Lease <- Request,
  Gate <- Account,
  Slots <- LeaseLimit,
  held <- [a \in Account |-> {r \in Request : pc[r] \in Leased /\ acct(r) = a}],
  owned <- {r \in Request : pc[r] \in Leased},
  running <- {r \in Request : pc[r] \in Leased}

(* A request spends its attempts on different accounts, never more than    *)
(* its budget (engine.rs:133-134: "retry on another account").  The        *)
(* cooldowns alone would not keep it away from the account it comes from:  *)
(* a weak OCR text starts none, and others can run out meanwhile.          *)
EachAttemptElsewhere ==
  \A r \in Request :
    /\ Cardinality(ToSet(tried[r])) = Len(tried[r])
    /\ Len(tried[r]) <= RetryMax

(* A request leaves the select loop empty-handed only when every account   *)
(* it could use is out of the pool, in cooldown or tried, whatever the     *)
(* others reported while it passed over keyless accounts; or when the      *)
(* turns of engine.rs:308 are used up, and then MaxAttempts different      *)
(* accounts without keys have been in its way.                             *)
GivesUpOnlyWhenNobodyReady ==
  [][\A r \in Request :
       (pc[r] = "select" /\ pc'[r] \in {"weak", "error"})
         => \/ Eligible(None, ToSet(tried[r])) \cap HasKeys = {}
            \/ \E a \in Eligible(None, skip[r]) \ HasKeys :
                 Cardinality(KeylessSeen(r) \cup {a}) >= MaxAttempts]_chatVars

(* Every request the server has taken ends, with the permits and the OCR   *)
(* gate contended for by the others.                                       *)
RequestsEnd ==
  \A r \in Request : pc[r] \in InFlight ~> pc[r] \in Over

(* The pool follows the operator (docs/44, A.3): an account that stays     *)
(* disabled is in the end out of the pool for good, one that stays enabled *)
(* is in the end in it for good, whatever listing was under way when the   *)
(* operator acted.                                                         *)
PoolFollowsStore ==
  \A a \in Account :
    /\ <>[](a \notin enabled) => <>[](a \notin accounts)
    /\ <>[](a \in enabled) => <>[](a \in accounts)

(* lib.rs:38-39 says that an account takes no part in selection while its  *)
(* backoff lasts: nothing but time shortens the cooldown of an account     *)
(* that stays in the pool.                                                 *)
BackoffRunsOut ==
  [][\A a \in accounts \cap accounts' :
       cooldown_until'[a] < cooldown_until[a] => TimePasses]_chatVars

(* docs/44 A.3 says that an account reconcile adds starts clean, and       *)
(* lib.rs:144 that the books of one it removes are cleared.                *)
JoinersStartClean ==
  [][\A a \in accounts' \ accounts : rl_failure_count'[a] = 0]_chatVars
=============================================================================
