----------------------------- MODULE MCRpcSync -----------------------------
(* RpcSync on two references that nothing tells apart. *)
EXTENDS RpcSync, TLC
Symmetry == Permutations(Refs)
=============================================================================
