----------------------------- MODULE MCPTCache -----------------------------
(* PTCache for TLC: the objects are interchangeable. *)
EXTENDS PTCache, TLC
ObjSymmetry == Permutations(Obj)
=============================================================================
