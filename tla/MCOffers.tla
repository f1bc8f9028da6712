------------------------------ MODULE MCOffers ------------------------------
(* Small instances of Offers for TLC.                                        *)
EXTENDS Offers, TLC

Symmetry == Permutations(Callers)
=============================================================================
