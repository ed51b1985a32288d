-------------------------- MODULE MCSimplifiedPool --------------------------
(* Three accounts, so that one can wait while two others are served, and   *)
(* every cooldown one unit long: the rotation does not look at durations.  *)
EXTENDS SimplifiedPool

MCAccount == 1..3
MCStoreCooldown == {0, 1}

(* At most one account at a time carries rate-limit strikes: the strikes   *)
(* of different accounts never meet in the code.                           *)
OneOffender == Cardinality({a \in Account : rl_failure_count[a] > 0}) <= 1
=============================================================================
