--------------------------- MODULE MCFairRotation ---------------------------
(* Three accounts: the smallest set in which two can keep a third waiting. *)
EXTENDS FairRotation
MCAccount == {"a", "b", "c"}
=============================================================================
