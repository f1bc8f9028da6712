---------------------------- MODULE MCPromotions ----------------------------
(* Small instances of Promotions for TLC.                                    *)
EXTENDS Promotions, TLC

Symmetry == Permutations(Callers) \cup Permutations(Businesses)
=============================================================================
