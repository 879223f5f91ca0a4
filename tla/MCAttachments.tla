---------------------------- MODULE MCAttachments ----------------------------
(* Attachments on a small instance.                                        *)
EXTENDS Attachments, TLC

\* Calls, contents and ids are interchangeable.
Symmetry == Permutations(Calls) \cup Permutations(AttIds) \cup Permutations(Hashes)
=============================================================================
