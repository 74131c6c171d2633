-------------------------- MODULE MCBestParentScan --------------------------
(* Ranks less and more than the path-cost threshold apart, announcing an  *)
(* infinite rank or one that would be infinite here, and links on each     *)
(* side of every limit of the objective function.                          *)
EXTENDS BestParentScan

MCEntries ==
  [rank : {256, 320, 512, 65400, 65535}, etx : {0, 128, 300, 700, 1100},
   rssi : {-60, -101}, tau : {0, 1000}]
=============================================================================
