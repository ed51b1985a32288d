---------------------------- MODULE MCEgressLease ----------------------------
(* Two clients and one slot, ids enough for every orphan, and a clock that *)
(* can strike between any two commands.                                    *)
EXTENDS EgressLease
=============================================================================
