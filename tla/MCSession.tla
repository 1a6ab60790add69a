------------------------------- MODULE MCSession -------------------------------
(* Session for TLC. *)
EXTENDS Session

(* Every operation, and two of them together. *)
MCUsed ==
  {{op} : op \in Ops \ {"workspaceSymbol", "documentSymbol"}} \union {{"workspaceSymbol", "documentSymbol"}}

MCDurations == <<2, 4, 1, 3>>

=============================================================================
