---------------------------- MODULE MCNbrPolicy ----------------------------
(* Four neighbours for three places.  Their ranks are the same, half a hop  *)
(* apart, a whole one, or infinite, which wraps around in 16 bits.          *)
EXTENDS NbrPolicy, TLC

CONSTANTS a, b, c, d

MCNbr == {a, b, c, d}
MCAnnounced ==
    {a :> r[1] @@ b :> r[2] @@ c :> r[3] @@ d :> r[4] :
        r \in {<<256, 384, 512, 512>>, <<256, 256, 512, InfiniteRank>>,
                <<256, 512, 768, 1024>>, <<400, 400, 400, 400>>}}
MCMetrics == {256, 700}
=============================================================================
