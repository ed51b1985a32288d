--------------------------- MODULE MCImageDispatch ---------------------------
(* Instances of ImageDispatch: two accounts behind one proxy, which one    *)
(* attempt may use, and a reconcile whose ceiling is below that limit.     *)
EXTENDS ImageDispatch, TLC

MCBindingOf == [e \in Email |-> CHOOSE b \in Binding : TRUE]

MCSymmetry == Permutations(Task) \cup Permutations(Email)
=============================================================================
