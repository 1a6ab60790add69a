------------------------------- MODULE MCLifecycle -------------------------------
(* GenerationLifecycle for TLC: requests are interchangeable, and so are commits. *)
EXTENDS GenerationLifecycle, TLC

Symmetry == Permutations(Requests) \union Permutations(Heads)

=============================================================================
