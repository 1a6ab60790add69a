------------------------------ MODULE MCFreshness ------------------------------
(* DocumentFreshness for TLC: texts are interchangeable. *)
EXTENDS DocumentFreshness, TLC

Symmetry == Permutations(Texts)

=============================================================================
