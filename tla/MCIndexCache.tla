---------------------------- MODULE MCIndexCache ----------------------------
EXTENDS IndexCache, TLC

CONSTANTS a, b

(* One server may publish twice, so that three generations exist. *)
BusyAndIdle == (a :> 2) @@ (b :> 1)

(* Nothing tells one commit from another. *)
Commits == Permutations(Heads)

=============================================================================
