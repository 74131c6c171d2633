------------------------------- MODULE RplNs -------------------------------
(* The graph the root of a non-storing DODAG keeps of the network: a list   *)
(* of nodes from a fixed pool (memb), each with a pointer to its parent.    *)
(* DAOs add and move nodes, No-Path DAOs shorten lifetimes, a periodic      *)
(* sweep frees what expired.  A pointer may outlive the slot it points to.  *)
(*                                                                          *)
(* rpl-ns.c, and dao_input_nonstoring of rpl-icmp6.c.  memb_alloc takes the *)
(* first free slot; list_remove clears the next field of what it removes,   *)
(* so the sweep ends with the first node it frees.                          *)
EXTENDS Naturals

CONSTANTS
    Nodes, Root,
    Trees,       \* trees the network may be at first
    NoNode,      \* no identifier: a slot never used
    PoolSize,    \* RPL_NS_LINK_NUM
    Lifetime,    \* of a DAO, in sweeps
    NoPathDelay, \* RPL_NOPATH_REMOVAL_DELAY
    MaxMoves,    \* bound: changes of parent in the network
    MaxLapses    \* bound: sweeps that let a live node expire

ASSUME RplNsAssumption ==
    /\ Root \in Nodes /\ NoNode \notin Nodes
    /\ Trees \subseteq [Nodes \ {Root} -> Nodes]
    /\ PoolSize \in Nat \ {0}
    /\ Lifetime \in Nat \ {0} /\ NoPathDelay \in 1..Lifetime
    /\ MaxMoves \in Nat /\ MaxLapses \in Nat

VARIABLES
    up,     \* the parent every node has in the network
    late,   \* <<n, p>>: messages of n's that name a p it has left may come yet
    slot,   \* the pool: identifier, parent pointer, lifetime
    used,   \* slots on nodelist
    moves, lapses

vars == <<up, late, slot, used, moves, lapses>>

Slots    == 1..PoolSize
Null     == 0
Infinite == Lifetime + 1  \* 0xffffffff
Others   == Nodes \ {Root}

-----------------------------------------------------------------------------
(* The operations below are on a graph g: pool and list.                    *)
Graph == [pool |-> slot, list |-> used]

(* rpl_ns_get_node *)
NodeOf(g, n) ==
    IF \E s \in g.list : g.pool[s].id = n
      THEN CHOOSE s \in g.list : g.pool[s].id = n
      ELSE Null

(* memb_alloc *)
FreeSlot(g) ==
    IF g.list = Slots THEN Null
    ELSE CHOOSE s \in Slots \ g.list : \A z \in Slots \ g.list : s <= z

Up(g, s) == IF s = Null THEN Null ELSE g.pool[s].parent

(* The slot reached from s after max_depth parent pointers, wherever they   *)
(* lead, unless r is met before.                                            *)
Climb(g, s, r) ==
    LET path[k \in 0..PoolSize] ==
          IF k = 0 THEN s
          ELSE LET z == path[k - 1] IN IF z = r THEN r ELSE Up(g, z)
    IN  path[PoolSize]

(* rpl_ns_is_node_reachable *)
Reachable(g, n) ==
    \E s \in {NodeOf(g, n)}, r \in {NodeOf(g, Root)} :
        s # Null /\ r # Null /\ Climb(g, s, r) = r

Added(g, n, life) ==
    LET s == FreeSlot(g)
    IN  [pool |-> [g.pool EXCEPT ![s] = [id |-> n, parent |-> Null, life |-> life]],
         list |-> g.list \cup {s}]

(* Mutant: a node that is reachable keeps its parent. *)
FirstParent(g, n, p) ==
    IF Reachable(g, n) THEN g ELSE [g EXCEPT !.pool[NodeOf(g, n)].parent = NodeOf(g, p)]

(* child_node->parent = parent_node; also the mutant that never restores. *)
Relinked(g, n, p) == [g EXCEPT !.pool[NodeOf(g, n)].parent = NodeOf(g, p)]

(* The parent is changed, unless that makes a reachable node unreachable.   *)
Linked(g, n, p) ==
    IF Reachable(g, n) /\ ~Reachable(Relinked(g, n, p), n) THEN g ELSE Relinked(g, n, p)

(* Mutant: memb_alloc without looking for the node first. *)
AdoptedTwice(g, n, life) == IF FreeSlot(g) = Null THEN g ELSE Added(g, n, life)

(* rpl_ns_update_node: the parent is added first, to stay; no room for one  *)
(* of the two ends the update where it is.                                  *)
Adopted(g, n, life) ==
    IF NodeOf(g, n) = Null
      THEN IF FreeSlot(g) = Null THEN g ELSE Added(g, n, life)
      ELSE g

(* There was room for both ends. *)
Complete(g, n, p) == Null \notin {NodeOf(g, n), NodeOf(g, p)}

Renewed(g, n) == [g EXCEPT !.pool[NodeOf(g, n)].life = Lifetime]

-----------------------------------------------------------------------------
(* dao_input_nonstoring: a DAO of n's that names p, the update in its       *)
(* stages.                                                                  *)
Dao(n, p) ==
    /\ UNCHANGED <<up, late, moves, lapses>>
    /\ \E g  \in {Graph} :
       \E gp \in {Adopted(g, p, Infinite)} :
       \E gn \in {IF NodeOf(gp, p) = Null THEN gp ELSE Adopted(gp, n, Lifetime)} :
       \E gr \in {IF Complete(gn, n, p) THEN Renewed(gn, n) ELSE gn} :
       \E gl \in {IF Complete(gr, n, p) THEN Linked(gr, n, p) ELSE gr} :
          slot' = gl.pool /\ used' = gl.list

(* A DAO sent before n left p, behind those that name its present parent:   *)
(* p may be its parent again meanwhile.                                     *)
LateDao(n, p) == <<n, p>> \in late /\ Dao(n, p)

(* A No-Path DAO sent when n left p.  rpl_ns_expire_parent compares what    *)
(* the pointer points to, on the list or not.                               *)
NoPath(n, p) ==
    /\ <<n, p>> \in late
    /\ LET s == NodeOf(Graph, n)
       IN  /\ s # Null
           /\ slot[s].parent # Null
           /\ slot[slot[s].parent].id = p
           /\ slot' = [slot EXCEPT ![s].life = NoPathDelay]
    /\ UNCHANGED <<up, late, used, moves, lapses>>

(* The last of these messages has come, or is lost. *)
AllIn(n, p) ==
    /\ <<n, p>> \in late
    /\ late' = late \ {<<n, p>>}
    /\ UNCHANGED <<up, slot, used, moves, lapses>>

Aged(s) ==
    IF s \in used /\ slot[s].life \notin {0, Infinite}
      THEN [slot[s] EXCEPT !.life = @ - 1] ELSE slot[s]

(* rpl_ns_periodic: the loop that looks for children has no effect on what  *)
(* follows it, and an expired node is freed.  The list is not ordered here, *)
(* so it may be any of them.                                                *)
Sweep ==
    /\ slot' = [s \in Slots |-> Aged(s)]
    /\ LET expired == {s \in used : slot'[s].life = 0}
       IN  IF expired = {} THEN UNCHANGED used
           ELSE \E s \in expired : used' = used \ {s}
    /\ UNCHANGED <<up, late, moves>>

(* DAOs are renewed in time: a sweep that brings a node to the end of its   *)
(* life is one that follows lost DAOs, or a node that was off.              *)
Tick ==
    /\ Sweep
    /\ IF \E s \in used : slot[s].life <= 1
         THEN lapses < MaxLapses /\ lapses' = lapses + 1
         ELSE UNCHANGED lapses

(* The network: n changes its parent.                                       *)
IsTree(f) ==
    \A n \in Others :
        LET climb[k \in 0..PoolSize] ==
              IF k = 0 THEN n
              ELSE LET m == climb[k - 1] IN IF m = Root THEN Root ELSE f[m]
        IN  climb[PoolSize] = Root

Move(n, p) ==
    /\ moves < MaxMoves
    /\ p # up[n] /\ p # n
    /\ up' = [up EXCEPT ![n] = p]
    /\ IsTree(up')
    /\ late' = late \cup {<<n, up[n]>>}
    /\ moves' = moves + 1
    /\ UNCHANGED <<slot, used, lapses>>

Init ==
    /\ up \in Trees
    /\ slot = [s \in Slots |-> [id |-> NoNode, parent |-> Null, life |-> 0]]
    /\ used = {} /\ late = {}
    /\ moves = 0 /\ lapses = 0

Next ==
    \/ \E n \in Others :
         \/ Dao(n, up[n])
         \/ \E p \in Nodes : LateDao(n, p) \/ NoPath(n, p) \/ AllIn(n, p) \/ Move(n, p)
    \/ Tick

Fairness == \A n \in Others : WF_vars(Dao(n, up[n]))

Safety == Init /\ [][Next]_vars
Spec   == Safety /\ Fairness

-----------------------------------------------------------------------------
(* Types; a node is on the list once.                                       *)
TypeOK ==
    /\ up \in [Others -> Nodes] /\ late \subseteq Others \X Nodes
    /\ slot \in [Slots -> [id : Nodes \cup {NoNode}, parent : Slots \cup {Null},
                           life : 0..Infinite]]
    /\ used \subseteq Slots
    /\ \A s, z \in used : slot[s].id = slot[z].id => s = z
    /\ moves \in 0..MaxMoves /\ lapses \in 0..MaxLapses

Reached == {n \in Others : Reachable(Graph, n)}

Dangles(s) == slot[s].parent # Null /\ slot[s].parent \notin used

(* A DAO never cuts a node off: whoever the root could reach it can reach   *)
(* after the update, the node that moved and all behind it, in whatever     *)
(* order the DAOs of a changing network come in, those that name a former   *)
(* parent among them (rpl_ns_update_node restores the old parent).          *)
(* Pointers into freed slots are excepted.                                  *)
UpdateKeepsReachable ==
    [][used \subseteq used' /\ (\A s \in used : ~Dangles(s))
         => Reached \subseteq Reached']_vars

(* Every node of the network is known with its parent, and reachable.       *)
Matches ==
    \A n \in Others :
        LET s == NodeOf(Graph, n)
        IN  /\ s # Null
            /\ slot[s].parent = NodeOf(Graph, up[n])
            /\ Reachable(Graph, n)

(* Once the network stays as it is, its DAOs arrive and none from before is *)
(* still to come, the graph becomes its tree: "We will take the update next *)
(* time, with chances we know more of the topology and the loop is gone",   *)
(* whatever pointers dangled before.                                        *)
GraphSettles == <>[](late = {}) => <>[]Matches
=============================================================================
