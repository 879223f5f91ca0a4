----------------------------- MODULE MCRateLimit -----------------------------
(* RateLimit on a small instance.                                          *)
EXTENDS RateLimit, TLC

MCOverrides == {[bypass |-> FALSE, max |-> 1, window |-> 1, start |-> 1, life |-> Always],
                [bypass |-> TRUE, max |-> 0, window |-> 0, start |-> 0, life |-> 1]}
MCConfigs == {[max |-> 1, window |-> 1, enabled |-> TRUE], [max |-> 1, window |-> 2, enabled |-> FALSE],
              [max |-> 0, window |-> 1, enabled |-> TRUE]}
Symmetry == Permutations(Calls)
=============================================================================
