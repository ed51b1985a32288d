------------------------------ MODULE GrokProxy ------------------------------
(***************************************************************************)
(* grokproxy: requests, probers and the remint loop over one SQLite table  *)
(* of accounts and one in-memory queue of ready accounts.                  *)
(*                                                                         *)
(* An account travels as a snapshot of its row.  xAI rotates the refresh   *)
(* token at every use: the token numbers issued to an email count up, and  *)
(* the upstream accepts those in valid.  An access token dies with time:   *)
(* tokens up to stale[e] need a refresh.  A row is known by its email and  *)
(* gen, because SQLite never gives an id twice.  Token counts are          *)
(* abstracted to what is left of a budget, cooldowns to whether they last, *)
(* and the order of the queue is left open.                                *)
(*                                                                         *)
(* One action runs from one await, or one lock section of take_ready, to   *)
(* the next.  A statement that SQLite fails has written nothing, and is a  *)
(* fault.                                                                  *)
(***************************************************************************)
EXTENDS Integers, FiniteSets

CONSTANTS Email,        \* accounts, by email; each has a build and a web row
          Request,      \* requests received
          None,         \* no account
          MaxAttempts,  \* accounts tried by acquire_build, and by forward
          MaxToken,     \* bound: refresh tokens issued to an email
          MaxGen,       \* bound: times an email gets a row
          MaxFaults     \* bound: cancellations, crashes, lost answers,
                        \* failing statements, revocations, operators' changes

ASSUME ProxyAssumption ==
  /\ IsFiniteSet(Email) /\ IsFiniteSet(Request)
  /\ MaxAttempts \in Nat \ {0} /\ MaxToken \in Nat \ {0} /\ MaxGen \in Nat \ {0}
  /\ MaxFaults \in Nat

VARIABLES db,      \* the build row of each email
          web,     \* its web row: "ok", "dead", or "none"
          queue,   \* Ready.queue: snapshots
          leased,  \* Ready.leased: ids
          pc, acct, inner, outer,  \* of each request: place, snapshot, attempts
          jobs,    \* of each prober: "idle", or the snapshots it works on
          minting, \* emails being reminted
          remint,  \* is the remint loop in a batch?
          valid,   \* upstream: tokens it accepts
          issued,  \* upstream: tokens it has issued
          stale,   \* access tokens up to this one have expired
          faults, stranded, lost   \* what faults have done

rows == <<db, web>>
ready == <<queue, leased>>
requests == <<pc, acct, inner, outer>>
loops == <<jobs, minting, remint>>
upstream == <<valid, issued, stale>>
harm == <<faults, stranded, lost>>
vars == <<rows, ready, requests, loops, upstream, harm>>

Prober == {"measure", "sweep"}

Health == {"active", "cooling", "needs_reauth", "forbidden", "disabled", "deleted"}

Budget == {"unknown", "rich", "low"}

Id(a) == <<a.email, a.gen>>

Snapshot(e) == [email |-> e, gen |-> db[e].gen, token |-> db[e].token]

Available(e) ==
  \/ db[e].health = "active"
  \/ db[e].health = "cooling" /\ ~db[e].wait

NeedsRefresh(a) == a.token <= stale[a.email]

-----------------------------------------------------------------------------
(* The store.  Every write names an id, and does nothing when its row has  *)
(* been deleted.                                                           *)
Present(a) == db[a.email].gen = a.gen /\ db[a.email].health # "deleted"

Write(a, row) == db' = IF Present(a) THEN [db EXCEPT ![a.email] = row] ELSE db

SaveAccessOnly(a) ==  \* mutant: the rotated refresh token is not stored
  Write(a, [db[a.email] EXCEPT !.health = IF @ = "needs_reauth" THEN "active" ELSE @])

SaveRefreshed(a) ==
  Write(a, [db[a.email] EXCEPT !.token = a.token,
                               !.health = IF @ = "needs_reauth" THEN "active" ELSE @])

RecordFailure(a, health) ==
  Write(a, [db[a.email] EXCEPT !.health = health, !.wait = health = "cooling"])

RecordSuccess(a, budget, spent) ==
  Write(a, [db[a.email] EXCEPT !.health = IF spent THEN "cooling" ELSE "active",
                               !.wait = spent, !.budget = budget])

ClearFailure(a) ==
  Write(a, [db[a.email] EXCEPT !.health = IF @ = "cooling" THEN "active" ELSE @,
                               !.wait = FALSE])

Import(e, token) ==
  db' = [db EXCEPT ![e] =
           IF db[e].health = "deleted"
           THEN [gen |-> db[e].gen + 1, health |-> "active", wait |-> FALSE,
                 token |-> token, budget |-> "unknown"]
           ELSE [db[e] EXCEPT !.health = "active", !.wait = FALSE, !.token = token]]

(* Pool::evict.                                                            *)
Without(ids) == {a \in queue : Id(a) \notin ids}

(* purge_unusable of the store and of the pool.  evicted is what probe_pool *)
(* takes off the queue right before it.                                    *)
Terminal == {e \in Email : db[e].health \in {"needs_reauth", "forbidden"}}

DeleteTerminal ==
  db' = [e \in Email |-> IF e \in Terminal
                         THEN [db[e] EXCEPT !.health = "deleted"] ELSE db[e]]

Purged(evicted) ==
  LET orphans == {e \in Email : /\ web[e] # "none"
                                /\ \/ web[e] = "dead"
                                   \/ db[e].health \notin {"active", "cooling"}}
  IN /\ DeleteTerminal
     /\ web' = [e \in Email |-> IF e \in orphans THEN "none" ELSE web[e]]
     /\ queue' = IF Terminal \cup orphans # {} THEN {} ELSE Without(evicted)

(* The first or the second DELETE fails: the queue keeps what was deleted. *)
PurgeBreaks(evicted) ==
  /\ \/ UNCHANGED rows
     \/ /\ DeleteTerminal
        /\ web' = [e \in Email |-> IF web[e] = "dead" THEN "none" ELSE web[e]]
  /\ queue' = Without(evicted)

Fault == faults < MaxFaults /\ faults' = faults + 1

Purge(evicted) ==
  \/ Purged(evicted) /\ UNCHANGED faults
  \/ PurgeBreaks(evicted) /\ Fault

-----------------------------------------------------------------------------
(* The upstream.  What a refresh does there, whether or not its answer     *)
(* arrives: the token is exchanged for a new one.                          *)
Rotate(e, token) ==
  /\ token \in valid[e] /\ issued[e] < MaxToken
  /\ issued' = [issued EXCEPT ![e] = @ + 1]
  /\ valid' = [valid EXCEPT ![e] = (@ \ {token}) \cup {issued[e] + 1}]
  /\ UNCHANGED stale

(* How a chat can end, by what the upstream thinks of the account.         *)
Refusal(e) == {"cooling", "forbidden"} \cup (IF valid[e] = {} THEN {"needs_reauth"} ELSE {})

Remaining(e) ==
  CASE db[e].budget = "unknown" -> Budget
    [] db[e].budget = "rich" -> {"rich", "low"}
    [] db[e].budget = "low" -> {"low"}

-----------------------------------------------------------------------------
(* forward and acquire_build.  inner and outer count what each has tried.  *)
Goto(r, there) == pc' = [pc EXCEPT ![r] = there]

Ends(r) ==
  /\ Goto(r, "idle")
  /\ inner' = [inner EXCEPT ![r] = 0] /\ outer' = [outer EXCEPT ![r] = 0]

Holds(r) == pc[r] \in {"refresh", "rotated", "send"}

(* take_ready: its first lock section, where a request begins too, or the  *)
(* one after refill.                                                       *)
Claim(r, a) ==
  /\ queue' = queue \ {a}
  /\ leased' = leased \cup {Id(a)}
  /\ acct' = [acct EXCEPT ![r] = a]
  /\ Goto(r, IF NeedsRefresh(a) THEN "refresh" ELSE "send")
  /\ UNCHANGED <<rows, inner, outer, loops, upstream, harm>>

TakeReady(r) ==
  /\ pc[r] \in {"idle", "take", "pop"}
  /\ \E a \in queue : Claim(r, a)

(* refill holds the lock on the queue while it reads the table.  It queues *)
(* a batch: measured accounts with a budget, and a few unmeasured ones.    *)
IdleOrNot ==  \* mutant: a refill that does not look at the leased ids
  {e \in Email : Available(e) /\ db[e].budget # "low"}

Candidates ==
  {e \in Email : Available(e) /\ <<e, db[e].gen>> \notin leased /\ db[e].budget # "low"}

Refill(r) ==
  /\ pc[r] \in {"idle", "take"} /\ queue = {}
  /\ \E batch \in SUBSET Candidates : /\ batch = {} => Candidates = {}
                                      /\ queue' = {Snapshot(e) : e \in batch}
  /\ Goto(r, "pop")
  /\ UNCHANGED <<rows, leased, acct, inner, outer, loops, upstream, harm>>

RefillFails(r) ==
  /\ pc[r] \in {"idle", "take"} /\ queue = {} /\ Fault
  /\ Ends(r)
  /\ UNCHANGED <<rows, ready, acct, loops, upstream, stranded, lost>>

NoneReady(r) ==
  /\ pc[r] = "pop" /\ queue = {}
  /\ Ends(r)
  /\ UNCHANGED <<rows, ready, acct, loops, upstream, harm>>

RefreshRotates(r) ==
  /\ pc[r] = "refresh"
  /\ Rotate(acct[r].email, acct[r].token)
  /\ acct' = [acct EXCEPT ![r].token = issued'[acct[r].email]]
  /\ Goto(r, "rotated")
  /\ UNCHANGED <<rows, ready, inner, outer, loops, harm>>

RefreshSaved(r) ==
  /\ pc[r] = "rotated"
  /\ SaveRefreshed(acct[r])
  /\ Goto(r, "send")
  /\ UNCHANGED <<web, ready, acct, inner, outer, loops, upstream, harm>>

(* report_failure charges the account, evicts it, and it is released; then *)
(* the next account is tried.                                              *)
ChargeAndKeep(r, health) ==  \* mutant: the early way out forgets to release
  /\ RecordFailure(acct[r], health)
  /\ queue' = Without({Id(acct[r])})
  /\ acct' = [acct EXCEPT ![r] = None] /\ UNCHANGED leased

GiveBack(r) ==
  leased' = leased \ {Id(acct[r])} /\ acct' = [acct EXCEPT ![r] = None]

ChargeAndRelease(r, health) ==
  /\ RecordFailure(acct[r], health)
  /\ queue' = Without({Id(acct[r])})
  /\ GiveBack(r)

RefreshFails(r) ==
  /\ \/ /\ pc[r] = "refresh" /\ acct[r].token \notin valid[acct[r].email]
        /\ ChargeAndRelease(r, "needs_reauth")
        /\ UNCHANGED harm
     \/ /\ pc[r] = "refresh"
        /\ \E health \in {"cooling", "forbidden"} : ChargeAndRelease(r, health)
        /\ UNCHANGED harm
     \/ /\ pc[r] = "rotated" /\ Fault
        /\ ChargeAndRelease(r, "cooling")
        /\ lost' = lost \cup {acct[r].email}
        /\ UNCHANGED stranded
  /\ IF inner[r] + 1 = MaxAttempts THEN Ends(r)
     ELSE /\ inner' = [inner EXCEPT ![r] = @ + 1] /\ UNCHANGED outer
          /\ Goto(r, "take")
  /\ UNCHANGED <<web, loops, upstream>>

(* acquire_build ends without a Lease and without a release: the id stays  *)
(* leased until the process restarts.                                      *)
LeaveBehind(r) ==
  /\ Ends(r)
  /\ acct' = [acct EXCEPT ![r] = None]
  /\ stranded' = stranded \cup {Id(acct[r])}
  /\ lost' = IF pc[r] = "rotated" THEN lost \cup {acct[r].email} ELSE lost
  /\ UNCHANGED <<rows, ready, loops, upstream>>

(* save_refreshed, or record_failure within report_failure, returns an     *)
(* error, and so does acquire_build.                                       *)
SaveFails(r) == pc[r] = "rotated" /\ Fault /\ LeaveBehind(r)

ChargeFails(r) == pc[r] = "refresh" /\ Fault /\ LeaveBehind(r)

Serve(r) ==
  /\ pc[r] = "send"
  /\ \E b \in Remaining(acct[r].email) :
       \/ RecordSuccess(acct[r], b, FALSE)
       \/ b = "low" /\ RecordSuccess(acct[r], b, TRUE)
  /\ GiveBack(r)
  /\ Ends(r)
  /\ UNCHANGED <<web, queue, loops, upstream, harm>>

SendOnceMore(r) ==  \* mutant: one account too many
  /\ pc[r] = "send"
  /\ \E health \in Refusal(acct[r].email) : ChargeAndRelease(r, health)
  /\ IF outer[r] = MaxAttempts THEN Ends(r)
     ELSE /\ outer' = [outer EXCEPT ![r] = @ + 1] /\ inner' = [inner EXCEPT ![r] = 0]
          /\ Goto(r, "take")
  /\ UNCHANGED <<web, loops, upstream, harm>>

TryAnother(r) ==
  /\ outer[r] + 1 # MaxAttempts
  /\ outer' = [outer EXCEPT ![r] = @ + 1] /\ inner' = [inner EXCEPT ![r] = 0]
  /\ Goto(r, "take")

SendFails(r) ==
  /\ pc[r] = "send"
  /\ \E health \in Refusal(acct[r].email) : ChargeAndRelease(r, health)
  /\ \/ outer[r] + 1 = MaxAttempts /\ Ends(r)
     \/ TryAnother(r)
  /\ UNCHANGED <<web, loops, upstream, harm>>

(* The Lease is dropped, and nothing is booked: forward ignores an error   *)
(* of report_success_with_usage and of report_failure.                     *)
Unbooked(r) ==
  /\ pc[r] = "send" /\ Fault
  /\ GiveBack(r)
  /\ Ends(r) \/ TryAnother(r)
  /\ UNCHANGED <<rows, queue, loops, upstream, stranded, lost>>

(* axum drops the request.  A Lease gives its account back; while a token  *)
(* is refreshed there is no Lease yet.                                     *)
Cancel(r) ==
  /\ Holds(r) /\ Fault
  /\ IF pc[r] = "send"
     THEN /\ GiveBack(r) /\ Ends(r)
          /\ UNCHANGED <<rows, queue, loops, upstream, stranded, lost>>
     ELSE LeaveBehind(r)

-----------------------------------------------------------------------------
(* The probers.  measure chats with accounts of unknown budget; sweep only *)
(* sees to it that the tokens of the others are fresh.  A pass works on a  *)
(* chunk of snapshots at once, each at a step of its own.                  *)
Eligible(p) ==
  {e \in Email : /\ Available(e)
                 /\ IF p = "measure" THEN db[e].budget = "unknown"
                    ELSE db[e].budget # "unknown" \/ NeedsRefresh(Snapshot(e))}

Job(e) == [email |-> e, gen |-> db[e].gen, token |-> db[e].token,
           step |-> IF NeedsRefresh(Snapshot(e)) THEN "refresh" ELSE "ask"]

ProbeStart(p) ==
  /\ jobs[p] = {} /\ Eligible(p) # {}
  /\ jobs' = [jobs EXCEPT ![p] = {Job(e) : e \in Eligible(p)}]
  /\ UNCHANGED <<rows, ready, requests, minting, remint, upstream, harm>>

ProbeNone(p) ==
  /\ jobs[p] = {} /\ Eligible(p) = {}
  /\ Purge({})
  /\ UNCHANGED <<leased, requests, loops, upstream, stranded, lost>>

Becomes(p, j, step) ==
  jobs' = [jobs EXCEPT ![p] = (@ \ {j}) \cup {[j EXCEPT !.step = step]}]

ProbeRotates(p, j) ==
  /\ j.step = "refresh"
  /\ Rotate(j.email, j.token)
  /\ jobs' = [jobs EXCEPT ![p] = (@ \ {j}) \cup
                 {[j EXCEPT !.step = "rotated", !.token = issued'[j.email]]}]
  /\ UNCHANGED <<rows, ready, requests, minting, remint, harm>>

ProbeSaves(p, j) ==
  /\ j.step = "rotated"
  /\ SaveRefreshed(j)
  /\ Becomes(p, j, "ask")
  /\ UNCHANGED <<web, ready, requests, minting, remint, upstream, harm>>

ProbeFails(p, j) ==
  /\ \/ /\ j.step = "refresh" /\ j.token \notin valid[j.email]
        /\ RecordFailure(j, "needs_reauth")
        /\ UNCHANGED harm
     \/ /\ j.step = "refresh"
        /\ \E health \in {"cooling", "forbidden"} : RecordFailure(j, health)
        /\ UNCHANGED harm
     \/ /\ j.step = "rotated" /\ Fault
        /\ RecordFailure(j, "cooling")
        /\ lost' = lost \cup {j.email}
        /\ UNCHANGED stranded
     \/ /\ j.step = "ask" /\ p = "measure"
        /\ \E health \in Refusal(j.email) : RecordFailure(j, health)
        /\ UNCHANGED harm
  /\ Becomes(p, j, "dead")
  /\ UNCHANGED <<web, ready, requests, minting, remint, upstream>>

(* record_success_with_usage reads its row back, and fails when it is gone. *)
(* A prober does not retire an account whose budget it finds spent.        *)
ProbeAnswered(p, j) ==
  /\ j.step = "ask"
  /\ IF p = "sweep" THEN ClearFailure(j)
     ELSE \E b \in Remaining(j.email) : RecordSuccess(j, b, FALSE)
  /\ Becomes(p, j, IF p = "measure" /\ ~Present(j) THEN "broken" ELSE "alive")
  /\ UNCHANGED <<web, ready, requests, minting, remint, upstream, harm>>

(* Nothing, or not all, of an outcome is persisted.  An error of            *)
(* save_refreshed alone is a failure like any other: ProbeFails.           *)
ProbeUnbooked(p, j) ==
  /\ j.step \in {"refresh", "rotated", "ask"} /\ Fault
  /\ \/ UNCHANGED db
     \/ /\ j.step = "ask" /\ p = "measure"
        /\ \E b \in Remaining(j.email) : RecordSuccess(j, b, FALSE)
  /\ lost' = IF j.step = "rotated" THEN lost \cup {j.email} ELSE lost
  /\ Becomes(p, j, "broken")
  /\ UNCHANGED <<web, ready, requests, minting, remint, upstream, stranded>>

(* The outcomes are read in turn: an error ends the pass before the later  *)
(* dead are evicted, and there is no purge.                                *)
ProbeEnds(p) ==
  LET Those(step) == {Id(j) : j \in {k \in jobs[p] : k.step = step}}
  IN /\ jobs[p] # {}
     /\ \A j \in jobs[p] : j.step \in {"alive", "dead", "broken"}
     /\ IF Those("broken") = {} THEN Purge(Those("dead"))
        ELSE /\ \E evicted \in SUBSET Those("dead") : queue' = Without(evicted)
             /\ UNCHANGED <<rows, faults>>
     /\ jobs' = [jobs EXCEPT ![p] = {}]
     /\ UNCHANGED <<leased, requests, minting, remint, upstream, stranded, lost>>

-----------------------------------------------------------------------------
(* The remint loop.                                                        *)
Mintable == {e \in Email : db[e].health = "needs_reauth" /\ web[e] = "ok"}

(* Whose rotated token only a task in flight knows.                        *)
Unsaved ==
  {acct[r].email : r \in {q \in Request : pc[q] = "rotated"}} \cup
  {j.email : j \in {k \in UNION {jobs[p] : p \in Prober} : k.step = "rotated"}}

RemintStart ==
  /\ ~remint /\ Mintable # {}
  /\ remint' = TRUE /\ minting' = Mintable
  /\ UNCHANGED <<rows, ready, requests, jobs, upstream, harm>>

Minted(e) ==
  /\ e \in minting
  /\ issued[e] < MaxToken /\ (db[e].health = "deleted" => db[e].gen < MaxGen)
  /\ issued' = [issued EXCEPT ![e] = @ + 1]
  /\ valid' = [valid EXCEPT ![e] = @ \cup {issued[e] + 1}]
  /\ Import(e, issued[e] + 1)
  /\ minting' = minting \ {e}
  /\ lost' = lost \ ({e} \ Unsaved)
  /\ UNCHANGED <<web, ready, requests, jobs, remint, stale, faults, stranded>>

(* The cookie is rejected, the mint fails in another way, or the import    *)
(* fails, and with it goes a token that nobody else has.                   *)
MintFails(e) ==
  /\ e \in minting
  /\ web' = [web EXCEPT ![e] = IF @ = "ok" THEN "dead" ELSE @] \/ UNCHANGED web
  /\ minting' = minting \ {e}
  /\ UNCHANGED <<db, ready, requests, jobs, remint, upstream, harm>>

(* Nothing to mint, or a batch done: purge.  A batch whose candidates      *)
(* cannot be counted is not purged after, as when the first DELETE fails.  *)
RemintEnds ==
  /\ IF remint THEN minting = {} ELSE Mintable = {}
  /\ remint' = FALSE
  /\ Purge({})
  /\ UNCHANGED <<leased, requests, jobs, minting, upstream, stranded, lost>>

-----------------------------------------------------------------------------
(* Time, operators, and what goes wrong outside.                           *)
WakeUp(e) ==
  /\ db[e].health = "cooling" /\ db[e].wait
  /\ db' = [db EXCEPT ![e].wait = FALSE]
  /\ UNCHANGED <<web, ready, requests, loops, upstream, harm>>

Expire(e) ==
  /\ stale[e] < issued[e] /\ issued[e] < MaxToken
  /\ stale' = [stale EXCEPT ![e] = issued[e]]
  /\ UNCHANGED <<rows, ready, requests, loops, valid, issued, harm>>

(* set_health leaves the queue alone.                                      *)
SetHealth(e, health) ==
  /\ db[e].health \notin {"deleted", health} /\ Fault
  /\ db' = [db EXCEPT ![e].health = health, ![e].wait = FALSE]
  /\ UNCHANGED <<web, ready, requests, loops, upstream, stranded, lost>>

Revoke(e) ==
  /\ valid[e] # {} /\ Fault
  /\ valid' = [valid EXCEPT ![e] = {}]
  /\ lost' = lost \cup {e}
  /\ UNCHANGED <<rows, ready, requests, loops, issued, stale, stranded>>

Crash ==
  /\ Fault
  /\ queue' = {} /\ leased' = {} /\ stranded' = {}
  /\ pc' = [r \in Request |-> "idle"] /\ acct' = [r \in Request |-> None]
  /\ inner' = [r \in Request |-> 0] /\ outer' = [r \in Request |-> 0]
  /\ jobs' = [p \in Prober |-> {}] /\ minting' = {} /\ remint' = FALSE
  /\ lost' = lost \cup Unsaved
  /\ UNCHANGED <<rows, upstream>>

-----------------------------------------------------------------------------
Init ==
  /\ db = [e \in Email |-> [gen |-> 1, health |-> "active", wait |-> FALSE,
                            token |-> 1, budget |-> "unknown"]]
  /\ web = [e \in Email |-> "ok"]
  /\ queue = {} /\ leased = {}
  /\ pc = [r \in Request |-> "idle"] /\ acct = [r \in Request |-> None]
  /\ inner = [r \in Request |-> 0] /\ outer = [r \in Request |-> 0]
  /\ jobs = [p \in Prober |-> {}] /\ minting = {} /\ remint = FALSE
  /\ valid = [e \in Email |-> {1}] /\ issued = [e \in Email |-> 1]
  /\ stale = [e \in Email |-> 0]
  /\ faults = 0 /\ stranded = {} /\ lost = {}

Serving(r) ==
  \/ TakeReady(r) \/ Refill(r) \/ RefillFails(r) \/ NoneReady(r)
  \/ RefreshRotates(r) \/ RefreshSaved(r) \/ RefreshFails(r)
  \/ SaveFails(r) \/ ChargeFails(r)
  \/ Serve(r) \/ SendFails(r) \/ Unbooked(r)

Probing(p) ==
  \/ ProbeStart(p) \/ ProbeNone(p) \/ ProbeEnds(p)
  \/ \E j \in jobs[p] : \/ ProbeRotates(p, j) \/ ProbeSaves(p, j)
                        \/ ProbeFails(p, j) \/ ProbeAnswered(p, j)
                        \/ ProbeUnbooked(p, j)

Reminting == RemintStart \/ RemintEnds \/ \E e \in Email : Minted(e) \/ MintFails(e)

Next ==
  \/ \E r \in Request : Serving(r) \/ Cancel(r)
  \/ \E p \in Prober : Probing(p)
  \/ Reminting
  \/ \E e \in Email : \/ WakeUp(e) \/ Expire(e) \/ Revoke(e)
                      \/ \E health \in {"active", "disabled"} : SetHealth(e, health)
  \/ Crash

Spec == Init /\ [][Next]_vars

-----------------------------------------------------------------------------
Snapshots == [email : Email, gen : 1..MaxGen, token : 1..MaxToken]

Jobs == [email : Email, gen : 1..MaxGen, token : 1..MaxToken,
         step : {"refresh", "rotated", "ask", "alive", "dead", "broken"}]

Ids == Email \X (1..MaxGen)

TypeOK ==
  /\ db \in [Email -> [gen : 1..MaxGen, health : Health, wait : BOOLEAN,
                       token : 1..MaxToken, budget : Budget]]
  /\ web \in [Email -> {"ok", "dead", "none"}]
  /\ queue \subseteq Snapshots /\ leased \subseteq Ids
  /\ pc \in [Request -> {"idle", "take", "pop", "refresh", "rotated", "send"}]
  /\ acct \in [Request -> Snapshots \cup {None}]
  /\ inner \in [Request -> 0..(MaxAttempts - 1)]
  /\ outer \in [Request -> 0..(MaxAttempts - 1)]
  /\ jobs \in [Prober -> SUBSET Jobs]
  /\ minting \subseteq Email /\ remint \in BOOLEAN
  /\ valid \in [Email -> SUBSET (1..MaxToken)]
  /\ issued \in [Email -> 1..MaxToken] /\ stale \in [Email -> 0..MaxToken]
  /\ faults \in 0..MaxFaults /\ stranded \subseteq Ids /\ lost \subseteq Email

(* An account is handed to one request at a time: no two requests hold one  *)
(* id, and no id that a request holds is waiting in the queue to be taken   *)
(* by another (pool.rs:5-7 and 44-45, across refills, releases, evictions   *)
(* and purges).                                                            *)
OneUserEach ==
  \A r \in Request : Holds(r) =>
    /\ \A q \in Request \ {r} : Holds(q) => Id(acct[q]) # Id(acct[r])
    /\ \A a \in queue : Id(a) # Id(acct[r])

(* An account leaves the rotation only by a fault that ends acquire_build   *)
(* while a token is being refreshed, before there is a Lease to give it     *)
(* back: the request is cancelled there, or the ? of pool.rs:136 or 148     *)
(* returns an error of SQLite.  Otherwise what is leased is what requests   *)
(* hold, over retries, charges, evictions, purges and restarts.             *)
LeasedIsHeld ==
  leased = stranded \cup {Id(acct[r]) : r \in {q \in Request : Holds(q)}}

(* The README's first hard rule: the refresh token of a row stays good.     *)
(* When the upstream has revoked the stored token, its successor is with a  *)
(* task about to save it, unless a fault destroyed it.                      *)
TokenNeverLost ==
  \A e \in Email :
    db[e].health # "deleted" => \/ db[e].token \in valid[e]
                               \/ e \in Unsaved \cup lost
=============================================================================
