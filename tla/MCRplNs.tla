------------------------------ MODULE MCRplNs ------------------------------
(* The root of three nodes.  They begin as a line, the deepest network; two *)
(* moves lead from there to every shape of tree, and from a parent back to  *)
(* it.                                                                      *)
EXTENDS RplNs, TLC

CONSTANTS r, a, b, c

MCNodes == {r, a, b, c}
MCTrees == {a :> r @@ b :> a @@ c :> b}
=============================================================================
