----------------------------- MODULE MCSessions -----------------------------
(* Sessions on a small instance.                                           *)
EXTENDS Sessions, TLC

\* Calls and tokens are interchangeable.
Symmetry == Permutations(Calls) \cup Permutations(SessionIds)
=============================================================================
