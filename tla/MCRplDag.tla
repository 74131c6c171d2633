------------------------------ MODULE MCRplDag ------------------------------
(* Neighbours that announce the root's rank, one so far away that no node  *)
(* nearer takes it for a parent and one that does has a limit that wraps   *)
(* around, or no rank at all, over links that are good or that the         *)
(* objective function refuses.                                             *)
EXTENDS RplDag, TLC

MCRanks == {256, 64000, 65535}
MCEtxs == {256, 1100}
MCHeaderRanks == {64000}

(* Neighbours near the root or without a rank *)
MCSameRanks == {256, 65535}

(* Every neighbour next to the root, every link good *)
MCNearRanks == {256}
MCGoodEtxs == {256}

MCSymmetry == Permutations(Nbr)
=============================================================================
