---------------------------- MODULE MCDaoRoutes ----------------------------
(* A root, a router below it, and a target that may be the child of either. *)
EXTENDS DaoRoutes

CONSTANTS r, a, t

MCNodes   == {r, a, t}
MCTargets == {t}
MCUplinks == {<<a, r>>, <<t, a>>, <<t, r>>}
=============================================================================
