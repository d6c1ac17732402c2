------------------------------ MODULE MCToolCalls ------------------------------
(* Small instances of ToolCalls for TLC. *)
EXTENDS ToolCalls, TLC

AnyCall == Permutations(Calls)
=============================================================================
