--------------------------- MODULE MCDodagVersion ---------------------------
(* A root and two routers, examined around both wrap-arounds of the        *)
(* counter: 127 -> 0 inside the circular region and 255 -> 0 out of the    *)
(* linear one.  The root is cycled only while the network is young and no  *)
(* repair of the run leaves the linear region (what becomes of the order   *)
(* afterwards is the theorem RestartIsAmbiguous of DodagVersion_proofs).   *)
EXTENDS DodagVersion

MCStarts == {126, 242, 254}
MCYoung == LollipopInit .. 250
=============================================================================
