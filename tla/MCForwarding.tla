---------------------------- MODULE MCForwarding ----------------------------
(* A packet of router a for d; the ranks of the routers are next to the     *)
(* root's or below, d's is the largest or as good as theirs.                *)
EXTENDS Forwarding

CONSTANTS r, a, b, c, d

MCNodes   == {r, a, b, c, d}
MCParents == MCNodes \X MCNodes
MCRoutes  ==
    {f \in [MCNodes -> {a, b, c, d, None}] :
        f[d] = None /\ \A n \in {a, b, c} : f[n] # n}
=============================================================================
