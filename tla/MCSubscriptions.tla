---------------------------- MODULE MCSubscriptions ----------------------------
(* Subscriptions for TLC: the callers are interchangeable.                    *)
EXTENDS Subscriptions, TLC

Symmetry == Permutations(Callers)
=============================================================================
