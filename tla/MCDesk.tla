--------------------------------- MODULE MCDesk ---------------------------------
(* Instances of Desk for TLC.                                                *)
EXTENDS Desk, TLC

Symmetry == Permutations(Chats) \union Permutations(Dirs) \union Permutations(Studies) \union Permutations(Calls)
=============================================================================
