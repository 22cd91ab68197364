----------------------------- MODULE MCPromoter -----------------------------
(* Small instances of the promoter.                                         *)
EXTENDS Promoter, TLC

MCSymmetry == Permutations(Jobs) \cup Permutations(Promoters)
=============================================================================
