---------------------------- MODULE FairRotation ----------------------------
(***************************************************************************)
(* What a caller of the Grok account pool may rely on, with no counters    *)
(* and no clock: who is served next, and who waits.                        *)
(*                                                                         *)
(* "a is owed a turn before b" means that b has been served since a was    *)
(* served, or since a joined.  Nobody is served while another account that *)
(* is ready is owed a turn before it, an operator's pin excepted.          *)
(* SimplifiedPool implements this with sequence numbers.                   *)
(***************************************************************************)
EXTENDS FiniteSets

CONSTANTS Account,   \* the account ids the pool may hold
          None       \* "no account"

VARIABLES members,   \* the accounts in the pool
          resting,   \* the accounts in cooldown
          favourite, \* the pinned account, or None
          owed,      \* <<a, b>>: a is owed a turn before b
          ever,      \* the members that had a turn since they joined
          served,    \* the account served last, while it stays a member
          filled     \* has the pool been filled yet?

vars == <<members, resting, favourite, owed, ever, served, filled>>

Ready(skip) == members \ (resting \cup skip)

-----------------------------------------------------------------------------
Init ==
  /\ members = {}
  /\ resting = {}
  /\ favourite = None
  /\ owed = {}
  /\ ever = {}
  /\ served = {}
  /\ filled = FALSE

ServeAnyReady(c, skip) ==  \* mutant: whoever is ready, in no order
  /\ c \in Ready(skip)
  /\ favourite \in Ready(skip) => c = favourite
  /\ owed' = {p \in owed : p[1] # c} \cup ((Account \ {c}) \X {c})
  /\ ever' = ever \cup {c}
  /\ served' = {c}
  /\ UNCHANGED <<members, resting, favourite, filled>>

(* One caller is given c; it refuses the accounts in skip.                 *)
Serve(c, skip) ==
  /\ c \in Ready(skip)
  /\ favourite \in Ready(skip) => c = favourite
  /\ c = favourite \/ \A a \in Ready(skip) : <<a, c>> \notin owed
  /\ owed' = {p \in owed : p[1] # c} \cup ((Account \ {c}) \X {c})
  /\ ever' = ever \cup {c}
  /\ served' = {c}
  /\ UNCHANGED <<members, resting, favourite, filled>>

(* The pool follows the store.  Whoever leaves is forgotten, and goes to   *)
(* the front should it come back; whoever stays keeps its place and is not *)
(* woken; the store may put members to rest.                               *)
Follow(listed) ==
  LET gone == members \ listed IN
  /\ members' = listed
  /\ favourite' = IF favourite \in listed THEN favourite ELSE None
  /\ owed' = {p \in owed : p[1] \notin gone /\ p[2] \notin gone}
               \cup (gone \X (ever \ gone))
  /\ ever' = ever \ gone
  /\ served' = served \ gone
  /\ filled' = TRUE
  /\ \E more \in SUBSET listed : resting' = (resting \ gone) \cup more

(* The pool is filled at start-up, once: filling it again and again would  *)
(* send the same accounts to the front for ever.                           *)
Fill(listed) ==
  /\ ~filled
  /\ filled' = TRUE
  /\ members' = listed
  /\ resting' = {}
  /\ owed' = {}
  /\ ever' = {}
  /\ served' = {}
  /\ UNCHANGED favourite

Favour(a) ==
  /\ favourite' = a
  /\ UNCHANGED <<members, resting, owed, ever, served, filled>>

Rest(a) ==
  /\ resting' = resting \cup {a}
  /\ UNCHANGED <<members, favourite, owed, ever, served, filled>>

Wake ==
  /\ resting' \in SUBSET resting
  /\ UNCHANGED <<members, favourite, owed, ever, served, filled>>

Next ==
  \/ \E c \in Account, skip \in SUBSET Account : Serve(c, skip)
  \/ \E listed \in SUBSET Account : Follow(listed) \/ Fill(listed)
  \/ \E a \in Account \cup {None} : Favour(a)
  \/ \E a \in Account : Rest(a)
  \/ Wake

Spec == Init /\ [][Next]_vars

(* Requests keep coming: for ever one that has refused nobody yet is       *)
(* served whenever an account is ready.                                    *)
ServeAny == \E c \in Account : Serve(c, {})

FairSpec == Spec /\ WF_vars(ServeAny)

-----------------------------------------------------------------------------
(* No starvation: an account that from some point on is ready, while the   *)
(* membership is settled and nobody is pinned, is served again and again.  *)
NoStarvation ==
  \A a \in Account :
    (/\ <>[][UNCHANGED members]_vars
     /\ <>[](a \in Ready({}) /\ favourite = None))
      => []<>(a \in served)
=============================================================================
