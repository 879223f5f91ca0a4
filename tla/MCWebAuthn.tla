------------------------------ MODULE MCWebAuthn ------------------------------
(* WebAuthn on a small instance.                                           *)
EXTENDS WebAuthn, TLC

Symmetry == Permutations(Calls) \cup Permutations(Users) \cup Permutations(Keys)
            \cup Permutations(Challenges)
=============================================================================
