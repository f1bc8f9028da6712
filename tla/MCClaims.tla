------------------------------ MODULE MCClaims ------------------------------
(* Small instances of Claims for TLC.                                        *)
EXTENDS Claims, TLC

Symmetry == Permutations(Callers) \cup Permutations(Users)
=============================================================================
