----------------------------- MODULE MCRlAgent -----------------------------
(* Links that the agent finds good, without any quality, or without a rank. *)
EXTENDS RlAgent, TLC

Good == [rank |-> 512, etx |-> 256, rssi |-> -60, tau |-> 500]
Dead == [rank |-> 512, etx |-> 1100, rssi |-> -101, tau |-> 0]
Lost == [Good EXCEPT !.rank = InfiniteRank]

MCLinks == {Good, Dead, Lost}
MCDelays == {10}

MCSymmetry == Permutations(Nbr)
=============================================================================
