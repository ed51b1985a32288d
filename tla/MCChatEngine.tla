---------------------------- MODULE MCChatEngine ----------------------------
(* Two requests against four accounts, two of them with keys, so that a    *)
(* request can retry on the other, and can use up its turns on the two     *)
(* without while an account with keys is ready; and                        *)
(* against a single account, which an operator switches on and off, so     *)
(* that the gates are contended for and requests outlive a membership.     *)
EXTENDS ChatEngine, TLC

MCAccount == 1..4
MCHasKeys == {1, 3}
MCNobody == {}
MCDirect == {2, 3}
MCProbed == {1}

MCOne == {1}

(* update_health stores the base backoff; the runs take 1 or 2 units.      *)
MCStoreCooldown == 0..2

(* With all backoffs alike, a second strike changes nothing.               *)
OneStrike == \A a \in Account : rl_failure_count[a] <= 1

(* Nothing tells requests apart; for the safety run only.                  *)
MCSymmetry == Permutations(Request)
=============================================================================
