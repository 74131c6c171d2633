------------------------------- MODULE RplDag -------------------------------
(***************************************************************************)
(* One router's membership of one DODAG: its table of candidate parents,   *)
(* its preferred parent and rank, the default route and the registrations  *)
(* that follow them (rpl-dag.c, with the callers in rpl.c, rpl-icmp6.c,    *)
(* rpl-timers.c, rpl-ext-header.c and rpl-of-tau.c).                       *)
(*                                                                         *)
(* Three parties change the preferred parent: the learning agent, run on   *)
(* every DIO and by the panic monitor; the periodic recalculation of the   *)
(* parents flagged RPL_PARENT_FLAG_UPDATED; and the repairs.  What the     *)
(* agent picks among the neighbours it may pick is left open here (RlAgent *)
(* has the decision itself), and so is what the objective function prefers *)
(* among eligible candidates (BestParentScan has the scan).                *)
(***************************************************************************)
EXTENDS OfTau, FiniteSets

CONSTANTS
  Nbr,          \* the neighbours in radio range
  None,         \* the NULL of pointers to a parent or a route
  Ranks,        \* the ranks a DIO may announce
  Etxs,         \* the link metrics a transmission may leave behind
  HeaderRanks,  \* the ranks a rank-error header may carry
  TableSize,    \* entries of the rpl_parents table
  RouterSlots,  \* entries of the default router list (UIP_DS6_DEFRT_NB)
  IntWidth      \* bits of an int: 16 on sky and z1, 32 on cooja and native

MaxRankInc == 7 * MinHopRankInc    \* RPL_MAX_RANKINC

(* No router of this code announces less than the root's rank, so none is  *)
(* announced here.  (rpl_process_dio ignores such a DIO in a DODAG it has  *)
(* joined, at the same version, but neither when it joins nor in a repair.)*)
ASSUME DagAssumption ==
  /\ None \notin Nbr
  /\ IntWidth \in {16, 32}
  /\ Ranks \cup HeaderRanks \subseteq MinHopRankInc .. InfiniteRank
  /\ Etxs \subseteq 1 .. InfiniteRank
  /\ InitEtx \in Etxs
  /\ TableSize \in Nat /\ RouterSlots \in Nat

VARIABLES
  joined,      \* the instance is in use and the DAG joined
  tbl,         \* the neighbours in rpl_parents
  prank,       \* prank[n]: p->rank, InfiniteRank outside the table
  etx,         \* etx[n]: the link metric of n
  upd,         \* parents with RPL_PARENT_FLAG_UPDATED
  heard,       \* parents whose rl_time_last_dio has not timed out
  pref,        \* dag->preferred_parent
  locked,      \* entries of rpl_parents that are locked
  rank,        \* dag->rank
  minRank,     \* dag->min_rank
  routers,     \* the uIP default router list
  defRoute,    \* instance->def_route
  registered,  \* neighbours told to route to us and not told to stop
  daoTimer,    \* instance->dao_timer is running
  ticking      \* rpl_recalculate_ranks is in its loop

tableVars == <<tbl, prank, upd, heard>>
dagVars   == <<pref, locked, rank, minRank>>
routeVars == <<routers, defRoute>>
daoVars   == <<registered, daoTimer>>
vars == <<joined, tableVars, etx, dagVars, routeVars, daoVars, ticking>>

Init ==
  /\ joined = FALSE
  /\ tbl = {} /\ upd = {} /\ heard = {}
  /\ prank = [n \in Nbr |-> InfiniteRank]
  /\ etx = [n \in Nbr |-> InitEtx]
  /\ pref = None /\ locked = {}
  /\ rank = InfiniteRank /\ minRank = InfiniteRank
  /\ routers = {} /\ defRoute = None
  /\ registered = {} /\ daoTimer = FALSE
  /\ ticking = FALSE

Idle == joined /\ ~ ticking
-----------------------------------------------------------------------------
(* rpl_rank_via_parent, for a parent or NULL, over announced ranks pr *)
RankThrough(pr, n) == IF n = None THEN InfiniteRank ELSE RankVia(pr[n], etx[n])
Via(n) == RankThrough(prank, n)

(* acceptable_rank: the limit is a sum of two uint16_t, which an int of 16 *)
(* bits does not hold if low is near the infinite rank.                    *)
DagRank(r) == r \div MinHopRankInc
Limit(low) == UncastSum(low, MaxRankInc, IntWidth)
Acceptable(r, low) == r # InfiniteRank /\ DagRank(r) <= DagRank(Limit(low))

(* uip_ds6_defrt_add: an address already listed takes no second entry, and *)
(* a full list refuses a new one.                                          *)
WithRouter(R, n) == IF Cardinality(R) < RouterSlots THEN R \cup {n} ELSE R

(* rpl_set_default_route(instance, n); with NULL it only removes. *)
SetDefaultRoute(n) ==
  /\ routers' = WithRouter(routers \ {defRoute}, n)
  /\ defRoute' = IF n \in routers' THEN n ELSE None

(* Mutant: the route is not removed. *)
KeepDefaultRoute == UNCHANGED routeVars

DropDefaultRoute ==
  /\ routers' = routers \ {defRoute}
  /\ defRoute' = None

(* Mutant: no No-Path DAO is sent. *)
NoPathLost(n) == UNCHANGED registered

(* dao_output(n, RPL_ZERO_LIFETIME) *)
NoPathTo(n) == registered' = registered \ {n}

(* Mutant: the former parent is not unlocked. *)
NeverUnlocked(p) == pref' = p /\ locked' = locked \cup ({p} \ {None})

(* rpl_set_preferred_parent moves the lock along. *)
SetPreferredParent(p) ==
  /\ pref' = p
  /\ locked' = IF p = pref THEN locked ELSE (locked \ {pref}) \cup ({p} \ {None})

(* rpl_nullify_parent *)
NullifyParent(p) ==
  IF pref \in {p, None}
  THEN /\ SetPreferredParent(None) /\ rank' = InfiniteRank
       /\ DropDefaultRoute
       /\ NoPathTo(pref)
  ELSE UNCHANGED <<pref, locked, rank, routeVars, registered>>
-----------------------------------------------------------------------------
(* rpl_join_instance, on the first DIO: any sender becomes the parent. *)
Join(n, r) ==
  /\ ~ joined
  /\ joined' = TRUE
  /\ tbl' = {n}
  /\ prank' = [prank EXCEPT ![n] = r]
  /\ SetPreferredParent(n)
  /\ rank' = RankVia(r, etx[n])
  /\ minRank' = rank'
  /\ SetDefaultRoute(n)
  /\ daoTimer' = TRUE
  /\ UNCHANGED <<etx, upd, heard, registered, ticking>>

(* What rpl_rl_trigger may leave as the preferred parent: the present one, *)
(* or a neighbour heard recently that announced a finite rank pr.          *)
AgentChoices(T, pr, H) == {pref} \cup {m \in T \cap H : pr[m] # InfiniteRank}

(* rpl_process_dio, same version: record the announcement, let the agent   *)
(* decide, flag the sender.  c is the agent's choice, newDtsn the outcome  *)
(* of should_refresh_routes's comparison, false for a sender just added.   *)
(* A sender that finds no room in the table is dropped.                    *)
ReceiveDio(n, r, c, newDtsn) ==
  /\ Idle
  /\ n \in tbl \/ Cardinality(tbl) < TableSize
  /\ tbl' = tbl \cup {n}
  /\ prank' = [prank EXCEPT ![n] = r]
  /\ heard' = heard \cup {n}
  /\ upd' = upd \cup {n}
  /\ c \in AgentChoices(tbl', prank', heard')
  /\ newDtsn => n \in tbl
  /\ SetPreferredParent(c)
  /\ rank' = RankThrough(prank', c)
  /\ routers' = IF c = n THEN WithRouter(routers, n) ELSE routers
  /\ daoTimer' = (daoTimer \/ (c = n /\ newDtsn))
  /\ UNCHANGED <<joined, etx, minRank, defRoute, registered, ticking>>

(* rpl_process_dio, newer version: global_repair forgets every parent, the *)
(* preferred one with a No-Path DAO, and starts again from the sender if   *)
(* its address is known to the neighbour cache.  v, the rank through the   *)
(* sender, becomes min_rank before the sender is judged by it.             *)
GlobalRepair(n, r, known) ==
  LET v == RankVia(r, etx[n])
      judged == known /\ Acceptable(r, v)
      ok == judged /\ Acceptable(v, v)
  IN  /\ Idle
      /\ tbl' = IF known THEN {n} ELSE {}
      /\ prank' = [m \in Nbr |-> IF known /\ m = n THEN r ELSE InfiniteRank]
      /\ upd' = {} /\ heard' = {}
      /\ NoPathTo(pref)
      /\ SetPreferredParent(IF ok THEN n ELSE None)
      /\ rank' = IF judged THEN v ELSE InfiniteRank
      /\ minRank' = IF known THEN v ELSE InfiniteRank
      /\ IF ok THEN SetDefaultRoute(n) ELSE DropDefaultRoute
      /\ daoTimer' = (daoTimer \/ ok)
      /\ UNCHANGED <<joined, etx, ticking>>

(* handle_panic_monitor finds the link of the parent degraded and calls    *)
(* the agent as if the parent had sent a DIO.  RSSI is not modelled, so    *)
(* the monitor may find any link degraded.                                 *)
Panic(c) ==
  /\ Idle /\ pref # None
  /\ heard' = heard \cup {pref}
  /\ c \in AgentChoices(tbl, prank, heard')
  /\ SetPreferredParent(c)
  /\ rank' = IF c = pref THEN rank ELSE Via(c)
  /\ UNCHANGED <<joined, tbl, prank, upd, etx, minRank, routeVars, daoVars, ticking>>
-----------------------------------------------------------------------------
(* handle_periodic_timer enters rpl_recalculate_ranks, which handles the   *)
(* flagged parents one by one before anything else runs.                   *)
Tick ==
  /\ Idle /\ upd # {}
  /\ ticking' = TRUE
  /\ UNCHANGED <<joined, tableVars, etx, dagVars, routeVars, daoVars>>

NextFlagged(p) ==
  /\ ticking /\ p \in upd
  /\ upd' = upd \ {p}
  /\ ticking' = (upd' # {})
  /\ UNCHANGED <<joined, tbl, prank, heard, etx>>

(* rpl_process_parent_event(p), p's rank not acceptable: rpl_nullify_parent *)
Nullify(p) ==
  /\ NextFlagged(p)
  /\ ~ Acceptable(prank[p], minRank)
  /\ NullifyParent(p)
  /\ UNCHANGED <<minRank, daoTimer>>

(* best_parent(dag, fresh_only) over the candidates C: some eligible one   *)
(* if there is any (BestParentScan!EligibleWins).                          *)
Candidates == {n \in tbl : prank[n] \in MinHopRankInc .. InfiniteRank - 1}
BestOf(C, eligible) == IF C \cap eligible # {} THEN C \cap eligible ELSE C

(* A link good enough for the OF, as far as its ETX tells *)
MayBeEligible(n) == SquaredEtxNorm(etx[n]) > 0 /\ Via(n) # InfiniteRank

(* Mutant: the agent is the only one to choose a first parent. *)
NoFallback(eligible) == {pref}

(* rpl_select_parent, over what the link statistics and the RSSI may be    *)
(* when it runs: the parent we have is kept, and the objective function is *)
(* asked only if there is none.  Either way a best without fresh link      *)
(* statistics gives way to the best candidate that has them.               *)
StableChoices(eligible) ==
  IF pref # None THEN {pref} ELSE BestOf(Candidates, eligible)

FreshChoices(best, fresh, eligible) ==
  LET Fresh == Candidates \cap fresh
  IN  IF best \in fresh \/ Fresh = {} THEN {best} ELSE BestOf(Fresh, eligible)

Selected(q) ==
  \/ q = None /\ pref = None /\ Candidates = {}
  \/ \E fresh \in SUBSET tbl, eligible \in SUBSET {n \in tbl : MayBeEligible(n)} :
       \E best \in StableChoices(eligible) : q \in FreshChoices(best, fresh, eligible)

(* Mutant: min_rank follows the rank of the moment. *)
LatestRank(v) == v

(* The min_rank rpl_select_dag works with: reset when there was no parent. *)
LowestWith(v) == IF pref = None \/ v < minRank THEN v ELSE minRank

(* rpl_select_dag keeps the parent or moves to q, and then hands over the  *)
(* default route and the registration.                                     *)
Select(p, q) ==
  /\ NextFlagged(p)
  /\ Acceptable(prank[p], minRank)
  /\ Selected(q) /\ q # None
  /\ Acceptable(Via(q), LowestWith(Via(q)))
  /\ SetPreferredParent(q)
  /\ rank' = Via(q)
  /\ minRank' = LowestWith(Via(q))
  /\ IF q # pref
     THEN SetDefaultRoute(q) /\ NoPathTo(pref) /\ daoTimer' = TRUE
     ELSE UNCHANGED <<routeVars, daoVars>>

(* rpl_select_dag finds no parent, or only one through which our rank      *)
(* would rise too much; if there was a parent, rpl_local_repair follows.   *)
SelectNone(p, q) ==
  /\ NextFlagged(p)
  /\ Acceptable(prank[p], minRank)
  /\ Selected(q)
  /\ q = None \/ ~ Acceptable(Via(q), LowestWith(Via(q)))
  /\ minRank' = IF q = None THEN minRank ELSE LowestWith(Via(q))
  /\ SetPreferredParent(None)
  /\ NoPathTo(pref)
  /\ IF pref = None THEN rank' = Via(q) /\ UNCHANGED routeVars
                    ELSE rank' = InfiniteRank /\ DropDefaultRoute
  /\ UNCHANGED daoTimer
-----------------------------------------------------------------------------
(* nbr_table takes the entry of a neighbour that is not locked for a new   *)
(* one and calls rpl_remove_parent.                                        *)
Evict(n) ==
  /\ Idle /\ n \in tbl \ locked
  /\ tbl' = tbl \ {n} /\ upd' = upd \ {n} /\ heard' = heard \ {n}
  /\ prank' = [prank EXCEPT ![n] = InfiniteRank]
  /\ NullifyParent(n)
  /\ UNCHANGED <<joined, etx, minRank, daoTimer, ticking>>

(* Forget the rank n announced and have it reconsidered. *)
Poison(n) ==
  /\ Idle /\ n \in tbl
  /\ prank' = [prank EXCEPT ![n] = InfiniteRank]
  /\ upd' = upd \cup {n}
  /\ UNCHANGED <<joined, tbl, heard, etx, dagVars, routeVars, daoVars, ticking>>

(* rpl_ipv6_neighbor_callback *)
NeighborCallback(n) == Poison(n)

(* dao_input_storing: a DAO from above means a loop. *)
LoopingDao(n) ==
  /\ n = pref \/ DagRank(prank[n]) < DagRank(rank)
  /\ Poison(n)

(* rpl_verify_hbh_header: a rank error overwrites the sender's rank. *)
RankErrorHeader(n, r) ==
  /\ Idle /\ n \in tbl
  /\ prank' = [prank EXCEPT ![n] = r]
  /\ UNCHANGED <<joined, tbl, upd, heard, etx, dagVars, routeVars, daoVars, ticking>>

(* Mutant: rpl_link_neighbor_callback does not flag the parent. *)
LinkCallbackUnflagged(n, e) ==
  /\ Idle
  /\ etx' = [etx EXCEPT ![n] = e]
  /\ UNCHANGED <<joined, tableVars, dagVars, routeVars, daoVars, ticking>>

(* A transmission to n ends: the link metric changes and                   *)
(* rpl_link_neighbor_callback flags n if it is a parent.                   *)
LinkCallback(n, e) ==
  /\ Idle
  /\ etx' = [etx EXCEPT ![n] = e]
  /\ upd' = upd \cup ({n} \cap tbl)
  /\ UNCHANGED <<joined, tbl, prank, heard, dagVars, routeVars, daoVars, ticking>>

(* RL_NEIGHBOR_TIMEOUT passes without a DIO from n. *)
NeighborTimeout(n) ==
  /\ Idle /\ n \in heard
  /\ heard' = heard \ {n}
  /\ UNCHANGED <<joined, tbl, prank, upd, etx, dagVars, routeVars, daoVars, ticking>>

(* handle_dao_timer, from dao_timer or from dao_lifetime_timer, which      *)
(* schedule_dao arms on the join and which then re-arms itself.            *)
HandleDaoTimer ==
  /\ registered' = registered \cup ({pref} \ {None})
  /\ daoTimer' = FALSE
  /\ UNCHANGED <<joined, tableVars, etx, dagVars, routeVars, ticking>>

DaoTimer == Idle /\ daoTimer /\ HandleDaoTimer
(* Mutant: dao_lifetime_timer does not re-arm itself. *)
NoRefresh == DaoTimer

DaoLifetimeTimer == Idle /\ HandleDaoTimer
-----------------------------------------------------------------------------
DioFrom(n) ==
  \E r \in Ranks, c \in Nbr \cup {None}, d \in BOOLEAN : ReceiveDio(n, r, c, d)

Recalculate ==
  \E p \in Nbr :
    \/ Nullify(p)
    \/ \E q \in Nbr \cup {None} : Select(p, q) \/ SelectNone(p, q)

NewVersion ==
  \E n \in Nbr, r \in Ranks, known \in BOOLEAN : GlobalRepair(n, r, known)

RankOverwritten ==
  \E n \in Nbr : \E r \in HeaderRanks : RankErrorHeader(n, r)

PanicMonitor == \E c \in Nbr \cup {None} : Panic(c)

Next ==
  \/ \E n \in Nbr : \E r \in Ranks : Join(n, r)
  \/ \E n \in Nbr : DioFrom(n)
  \/ NewVersion
  \/ PanicMonitor
  \/ Tick
  \/ Recalculate
  \/ \E n \in Nbr : Evict(n) \/ NeighborCallback(n) \/ LoopingDao(n)
  \/ RankOverwritten
  \/ \E n \in Nbr : \E e \in Etxs : LinkCallback(n, e)
  \/ \E n \in Nbr : NeighborTimeout(n)
  \/ DaoTimer
  \/ DaoLifetimeTimer

Spec == Init /\ [][Next]_vars

(* The timers fire and their callbacks end; neighbours keep sending DIOs.  *)
AnyDio == \E n \in Nbr : DioFrom(n)

Fairness ==
  /\ WF_vars(Tick) /\ WF_vars(Recalculate)
  /\ SF_vars(DaoLifetimeTimer) /\ SF_vars(AnyDio)

FairSpec == Spec /\ Fairness
-----------------------------------------------------------------------------
(* The variables keep their types; what is flagged or was heard recently   *)
(* is in the table; the default route of the instance is in the router     *)
(* list; the rank is never as low as the root's.                           *)
TypeOK ==
  /\ joined \in BOOLEAN /\ ticking \in BOOLEAN /\ daoTimer \in BOOLEAN
  /\ tbl \subseteq Nbr /\ upd \subseteq tbl /\ heard \subseteq tbl
  /\ prank \in [Nbr -> MinHopRankInc .. InfiniteRank]
  /\ etx \in [Nbr -> 1 .. InfiniteRank]
  /\ pref \in Nbr \cup {None}
  /\ rank \in MinHopRankInc + 1 .. InfiniteRank
  /\ minRank \in MinHopRankInc + 1 .. InfiniteRank
  /\ routers \subseteq Nbr
  /\ defRoute \in routers \cup {None}
  /\ registered \subseteq Nbr /\ locked \subseteq tbl
  /\ ~ joined => tbl = {} /\ pref = None /\ registered = {}

(* dag->preferred_parent never dangles: it is an entry of the table, and    *)
(* locked there (rpl_set_preferred_parent), so that whatever the neighbour  *)
(* table gives up it is not the parent.  No other entry is locked for good, *)
(* on whatever path the parent changed or was forgotten.                    *)
PreferredInTable ==
  /\ pref # None => pref \in tbl
  /\ locked = {pref} \ {None}

(* min_rank + max_rankinc wraps around. *)
LimitWraps(low) == Limit(low) < low

(* A node without a parent announces an infinite rank, and its default     *)
(* route is NULL, whichever of rpl_nullify_parent, local repair,           *)
(* rpl_select_dag, global repair or the agent left it without one.  Only a *)
(* parent given up because the limit of a very high rank wraps around      *)
(* (rpl-dag.c:693) leaves its rank behind.  Other entries of the router    *)
(* list, left by the agent, may remain.                                    *)
DetachedIsSilent ==
  pref = None => /\ rank = InfiniteRank \/ LimitWraps(rank)
                 /\ defRoute = None

(* The rank of this node is the one through its parent, or the parent is   *)
(* flagged and the periodic recalculation has the change still to come.    *)
RankFollowsParent == pref # None /\ pref \notin upd => rank = Via(pref)

(* Whatever changes the parent, its rank or its link, the rank a node      *)
(* announces keeps up, or the parent is flagged for the recalculation.     *)
(* Only a rank-error header escapes: rpl_verify_hbh_header overwrites the  *)
(* sender's rank without flagging it.                                      *)
RankKeepsUp ==
  [][RankFollowsParent /\ ~ RankOverwritten => RankFollowsParent']_vars

(* dag->min_rank, the base of the count against MaxRankInc, rises only     *)
(* with a new version or out of a detachment (rpl_select_dag): a node      *)
(* cannot creep away from the root by small steps.                         *)
LowestRankHeld == [][minRank' > minRank => pref = None \/ NewVersion]_vars

(* When rpl_select_dag, a repair or a nullification changes the parent,    *)
(* the old one is told in the same step, and our default route no longer   *)
(* leads to it.                                                            *)
HandOverComplete ==
  [][(Recalculate \/ NewVersion) /\ pref' # pref =>
       pref \notin registered' /\ defRoute' \in {pref', None}]_vars

(* A parent that lasts learns of us again and again, even one the agent    *)
(* chose without scheduling a DAO or one a repair has sent a No-Path DAO;  *)
(* without repairs it learns of us for good.                               *)
ParentRegistered ==
  \A n \in Nbr : <>[](pref = n) =>
    /\ []<>(n \in registered)
    /\ <>[][~ NewVersion]_vars => <>[](n \in registered)

(* What may take a candidate away *)
Fault ==
  \/ NewVersion \/ RankOverwritten
  \/ \E n \in Nbr : Evict(n) \/ NeighborCallback(n) \/ LoopingDao(n)

(* A node that has lost its parent finds one again, once faults cease and  *)
(* as long as neighbours of an acceptable rank are heard: neither the      *)
(* nullified parent, nor min_rank, nor an agent that declines to choose    *)
(* leaves it detached.                                                     *)
Reattaches == <>[][~ Fault]_vars => (joined ~> pref # None)
-----------------------------------------------------------------------------
(* A neighbour our default route leads to and that routes back to us *)
Official == {defRoute} \cap registered

(* rpl-dag.c: "We don't use route control, so we can have only one         *)
(* official parent."  With no recalculation and no DAO due, nobody but the *)
(* preferred parent is one.                                                *)
OneOfficialParent ==
  Idle /\ upd = {} /\ ~ daoTimer => Official \subseteq {pref}
=============================================================================
