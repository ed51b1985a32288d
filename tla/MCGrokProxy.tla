----------------------------- MODULE MCGrokProxy -----------------------------
(* Instances of GrokProxy.                                                 *)
EXTENDS GrokProxy, TLC

MCSymmetry == Permutations(Request)
=============================================================================
