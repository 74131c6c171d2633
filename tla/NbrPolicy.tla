----------------------------- MODULE NbrPolicy -----------------------------
(* Who may take a place in a full neighbour table, and whose place it is.   *)
(* The table is asked to admit the sender of a DIO, of a DAO or of a        *)
(* unicast DIS; while it has free places it does so unasked.  What is       *)
(* known of a neighbour goes with its place.                                *)
(*                                                                          *)
(* rpl-nbr-policy.c, and its callers in rpl-icmp6.c and rpl-dag.c.  Every   *)
(* entry is an IPv6 neighbour, as the policy assumes.  Which parent is      *)
(* preferred is left open, as in RplDag; ranks taken from a header are left *)
(* out.                                                                     *)
EXTENDS OfTau, FiniteSets

CONSTANTS
    Nbr, None,
    TableSize, \* NBR_TABLE_MAX_NEIGHBORS
    Announced, \* assignments of the ranks the neighbours announce
    Metrics,   \* link metrics there may be
    IntWidth   \* bits of an int: 16 on sky and z1, 32 on cooja and native

(* Ranks below the root's never get as far as the policy of a joined node.  *)
ASSUME PolicyAssumption ==
    /\ None \notin Nbr
    /\ TableSize \in Nat \ {0, 1}
    /\ Announced \subseteq [Nbr -> MinHopRankInc..InfiniteRank]
    /\ Metrics \subseteq 1..InfiniteRank
    /\ IntWidth \in {16, 32}

VARIABLES
    root,    \* the node is the root
    ann,     \* ranks in the neighbours' DIOs
    table,   \* neighbours with a place
    parents, \* those in rpl_parents
    lost,    \* parents whose rank was set to infinite
    metric,  \* link metric of a neighbour with a place
    child,   \* next hops of routes
    pref     \* dag->preferred_parent

vars == <<root, ann, table, parents, lost, metric, child, pref>>

-----------------------------------------------------------------------------
(* update_nbr *)

ParentRank(n) == IF n \in lost THEN InfiniteRank ELSE ann[n]
Via(n) == RankVia(ParentRank(n), metric[n])

Unused == table \ (parents \cup child)

(* Mutant: the preferred parent is not locked. *)
AllSpare == parents \ child

(* Parents that nobody needs. *)
Spare == parents \ (child \cup {pref})

(* worst_rank: 0 if there is nobody to remove. *)
WorstRank ==
    IF Unused # {} THEN InfiniteRank
    ELSE LET ranks == {Via(n) : n \in Spare} \cup {0}
         IN  CHOOSE r \in ranks : \A q \in ranks : q <= r

(* worst_rank_nbr, but for the order of the table: the last of those not    *)
(* used, else the first of the worst parents.                               *)
Worst ==
    IF Unused # {} THEN Unused ELSE {n \in Spare : Via(n) = WorstRank}

MaxChildren == TableSize - 2

(* dio->rank + min_hoprankinc, of which a 16-bit int loses the carry.       *)
NextRank(r) == UncastSum(r, MinHopRankInc, IntWidth)
Wraps(r)    == NextRank(r) < r

(* Mutant: without the cost of the hop and the hysteresis. *)
AnyBetter(r) == r < WorstRank

(* find_removable_dio: better by half a hop than the worst.  (If there is   *)
(* nobody to remove the answer does not matter.)                            *)
Great(r) == NextRank(r) < WorstRank - MinHopRankInc \div 2

(* find_removable_dao and find_removable_dis: room is kept for parents.     *)
RoomForDao == Cardinality(child) < IF root THEN TableSize ELSE MaxChildren
RoomForDis == Cardinality(child) < MaxChildren

-----------------------------------------------------------------------------
(* What has to go for n to have a place: nobody, one of the worst if the    *)
(* policy agrees, or there is no way.                                       *)
Places(n, agreed) ==
    IF n \in table \/ Cardinality(table) < TableSize THEN {None}
    ELSE IF agreed THEN Worst
    ELSE {}

(* n takes its place; w, if it is a neighbour, is forgotten.                *)
Takes(n, w) ==
    /\ table' = (table \ {w}) \cup {n}
    /\ metric' = [m \in Nbr |-> IF m \in table' THEN metric[m] ELSE InitEtx]

Finite(ps) == {p \in ps : ann[p] # InfiniteRank}

(* rpl_process_dio; the root knows no parents.  The agent may choose        *)
(* another parent.                                                          *)
ReceiveDio(n) ==
    /\ \E w \in Places(n, Great(ann[n])) :
         /\ Takes(n, w)
         /\ parents' = (parents \ {w}) \cup (IF root THEN {} ELSE {n})
         /\ lost' = lost \ {w, n}
    /\ pref' \in {pref} \cup Finite(parents' \ lost')
    /\ UNCHANGED <<root, ann, child>>

(* dao_input_storing, dis_input: n may lose nothing by it.                  *)
Admit(n, agreed) ==
    \E w \in Places(n, agreed) :
        /\ Takes(n, w)
        /\ parents' = parents \ {w}
        /\ lost' = lost \ {w}
        /\ UNCHANGED <<root, ann, pref>>

ReceiveDao(n) ==
    /\ n # pref
    /\ Admit(n, RoomForDao)
    /\ child' = child \cup {n}

ReceiveDis(n) ==
    /\ n \notin table
    /\ Admit(n, RoomForDis)
    /\ UNCHANGED child

(* A No-Path DAO, or the purge.                                             *)
RoutesGone(n) ==
    /\ n \in child
    /\ child' = child \ {n}
    /\ UNCHANGED <<root, ann, table, parents, lost, metric, pref>>

(* dao_input_storing: n, of a lower rank or the preferred parent, is below  *)
(* us, and its rank not to be believed until its next DIO.                  *)
LoopingDao(n) ==
    /\ n \in parents \ lost
    /\ lost' = lost \cup {n}
    /\ UNCHANGED <<root, ann, table, parents, metric, child, pref>>

(* rpl_recalculate_ranks: another parent is chosen, or none.                *)
Select(p) ==
    /\ p \in Finite(parents \ lost) \cup {None}
    /\ p # pref
    /\ pref' = p
    /\ UNCHANGED <<root, ann, table, parents, lost, metric, child>>

Measure(n, m) ==
    /\ n \in parents /\ metric[n] # m
    /\ metric' = [metric EXCEPT ![n] = m]
    /\ UNCHANGED <<root, ann, table, parents, lost, child, pref>>

Init ==
    /\ root \in BOOLEAN
    /\ ann \in Announced
    /\ table = {} /\ parents = {} /\ lost = {}
    /\ metric = [n \in Nbr |-> InitEtx]
    /\ child = {} /\ pref = None

Next ==
    \/ \E n \in Nbr :
         \/ ReceiveDio(n) \/ ReceiveDao(n) \/ ReceiveDis(n)
         \/ RoutesGone(n) \/ LoopingDao(n)
         \/ \E m \in Metrics : Measure(n, m)
    \/ \E p \in Nbr \cup {None} : Select(p)

(* The neighbours' Trickle timers keep going.                               *)
Fairness == \A n \in Nbr : WF_vars(ReceiveDio(n))

Spec == Init /\ [][Next]_vars /\ Fairness

-----------------------------------------------------------------------------
(* Types; the preferred parent and every next hop keep their place,         *)
(* whoever comes (update_nbr spares them).                                  *)
TypeOK ==
    /\ root \in BOOLEAN
    /\ ann \in Announced
    /\ table \subseteq Nbr /\ Cardinality(table) <= TableSize
    /\ parents \subseteq table /\ lost \subseteq parents /\ child \subseteq table
    /\ metric \in [Nbr -> Metrics \cup {InitEtx}]
    /\ pref \in parents \cup {None}

(* DIOs come, with any choice of the parent, and links prove good.          *)
Calm ==
    /\ ~root
    /\ \E n \in Nbr :
         ReceiveDio(n) \/ \E m \in {k \in Metrics : k <= InitEtx} : Measure(n, m)

(* The neighbours whose rank the sum wraps: a 16-bit int makes the worst    *)
(* look like the best.                                                      *)
Wrapped == {n \in Nbr : Wraps(ann[n])}

(* When only DIOs come, neighbours stop displacing each other, although     *)
(* what was known of a neighbour goes with its place ("Add the new neighbor *)
(* only if it is better than the worst parent"); and if the parent stays,   *)
(* none is left outside that is better.  A link measured to be bad is worse *)
(* than one not known, and could displace its neighbour again and again.    *)
(* Excepted by name are the neighbours of Wrapped, who come for the worst   *)
(* and go for anybody, for ever.                                            *)
TableSettles ==
    /\ <>[][Calm]_vars
         => <>[][(table \cup table') \cap Wrapped \subseteq table \cap table'
                   => table \subseteq table']_vars
    /\ <>[][Calm /\ pref' = pref]_vars /\ <>[](~root)
         => <>[](\A n \in Nbr \ (table \cup Wrapped) :
                    Places(n, Great(ann[n])) \subseteq Wrapped)
=============================================================================
