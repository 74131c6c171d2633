---------------------------- MODULE RplDag_proofs ----------------------------
(* The invariants of RplDag for any number of neighbours, any ranks and    *)
(* link metrics, and any sizes of the tables.                              *)
EXTENDS RplDag, BestParentScan, TLAPS

(* What the proofs need of the numbers, which stay folded elsewhere. *)
LEMMA RankBounds ==
  /\ MinHopRankInc \in Nat /\ InfiniteRank \in Nat
  /\ 0 < MinHopRankInc /\ 2 * MinHopRankInc < InfiniteRank
  BY DEF MinHopRankInc, InfiniteRank

LEMMA WrappedSum ==
  ASSUME NEW r \in Nat, NEW e \in Nat
  PROVE  (r + e) % 65536 \in Nat /\ (r + e) % 65536 <= InfiniteRank
  BY DEF InfiniteRank

(* The rank OF-TAU computes through a parent is the parent's plus at least *)
(* one minimum hop increase, or infinite: the uint16_t sum that may wrap   *)
(* never brings it below that (rank_via_parent).                           *)
THEOREM RankIncreases ==
  ASSUME NEW r \in MinHopRankInc .. InfiniteRank, NEW e \in 1 .. InfiniteRank
  PROVE  /\ RankVia(r, e) \in MinHopRankInc + 1 .. InfiniteRank
         /\ RankVia(r, e) = InfiniteRank \/ RankVia(r, e) >= r + MinHopRankInc
<1> DEFINE sum == (r + e) % 65536
           step == Lower(r + MinHopRankInc, InfiniteRank)
<1>1. sum \in Nat /\ sum <= InfiniteRank
  <2>1. r \in Nat /\ e \in Nat
    BY RankBounds
  <2> QED BY <2>1, WrappedSum
<1>2. /\ step \in MinHopRankInc + 1 .. InfiniteRank
      /\ step = InfiniteRank \/ step = r + MinHopRankInc
  BY RankBounds DEF Lower
<1>3. CASE e > MaxEtx
  BY <1>3, RankBounds DEF RankVia
<1>4. CASE ~ e > MaxEtx
  <2>1. RankVia(r, e) = Higher(step, sum)
    BY <1>4 DEF RankVia
  <2> HIDE DEF sum, step
  <2> QED BY <1>1, <1>2, <2>1, RankBounds DEF Higher
<1> QED BY <1>3, <1>4

LEMMA RankThroughType ==
  ASSUME NEW pr \in [Nbr -> MinHopRankInc .. InfiniteRank], TypeOK,
         NEW n \in Nbr \cup {None}
  PROVE  RankThrough(pr, n) \in MinHopRankInc + 1 .. InfiniteRank
<1>1. CASE n = None
  BY <1>1, RankBounds DEF RankThrough
<1>2. CASE n \in Nbr
  BY <1>2, RankIncreases, DagAssumption DEF RankThrough, TypeOK
<1> QED BY <1>1, <1>2

(* What SetDefaultRoute and DropDefaultRoute leave behind. *)
LEMMA RouteStep ==
  ASSUME TypeOK
  PROVE  /\ \A n \in Nbr : SetDefaultRoute(n) =>
              /\ routers' \subseteq Nbr
              /\ defRoute' \in {n, None} /\ defRoute' \in routers' \cup {None}
         /\ DropDefaultRoute => routers' \subseteq Nbr /\ defRoute' = None
  BY DEF TypeOK, SetDefaultRoute, DropDefaultRoute, WithRouter

(* A node just reattached never rises too much, but for a limit that wraps. *)
LEMMA AcceptableSelf ==
  ASSUME NEW r \in Nat, ~ LimitWraps(r)
  PROVE  DagRank(r) <= DagRank(Limit(r))
<1>1. Limit(r) \in Nat
  BY DEF Limit, UncastSum, MaxRankInc, MinHopRankInc
<1>2. r <= Limit(r)
  BY <1>1 DEF LimitWraps
<1> HIDE DEF Limit
<1> QED BY <1>1, <1>2 DEF DagRank, MinHopRankInc

(* The lock goes with the parent. *)
LEMMA LockStep ==
  ASSUME PreferredInTable, NEW p, SetPreferredParent(p)
  PROVE  pref' = p /\ locked' = {p} \ {None}
  BY DEF SetPreferredParent, PreferredInTable

(* What rpl_nullify_parent does to the parent and to the routes. *)
LEMMA NullifyStep ==
  ASSUME TypeOK, PreferredInTable, NEW p \in Nbr, NullifyParent(p)
  PROVE  /\ routers' \subseteq Nbr /\ registered' \subseteq registered
         /\ \/ /\ pref \in {p, None}
               /\ pref' = None /\ locked' = {}
               /\ rank' = InfiniteRank /\ defRoute' = None
               /\ registered' = registered \ {pref}
            \/ /\ pref \notin {p, None}
               /\ UNCHANGED <<pref, locked, rank, routeVars, registered>>
<1>1. CASE pref \in {p, None}
  BY <1>1, LockStep, RouteStep DEF NullifyParent, NoPathTo
<1>2. CASE pref \notin {p, None}
  BY <1>2 DEF NullifyParent, TypeOK, routeVars
<1> QED BY <1>1, <1>2

(* Outcomes of rpl_select_parent are candidates of the table. *)
LEMMA SelectedType ==
  ASSUME TypeOK, PreferredInTable, NEW q, Selected(q)
  PROVE  q \in tbl \cup {None}
<1>1. CASE q = None
  BY <1>1
<1>2. CASE \E fresh \in SUBSET tbl, eligible \in SUBSET {n \in tbl : MayBeEligible(n)} :
             \E best \in StableChoices(eligible) : q \in FreshChoices(best, fresh, eligible)
  BY <1>2 DEF StableChoices, FreshChoices, BestOf, Candidates, PreferredInTable
<1> QED BY <1>1, <1>2 DEF Selected

(* The inductive invariant; RankFollowsParent joins it as long as no       *)
(* header overwrites a rank.                                               *)
Core == /\ TypeOK
        /\ PreferredInTable
        /\ DetachedIsSilent
        /\ ticking => joined

(* Nothing else happens in a step of the recalculation, so that what it    *)
(* does to the parent and to the routes decides the invariant.             *)
LEMMA RecalculateStep ==
  ASSUME Core, NEW p \in Nbr, NEW q \in Nbr \cup {None},
         Nullify(p) \/ Select(p, q) \/ SelectNone(p, q)
  PROVE  Core'
<1>1. /\ p \in upd /\ upd' = upd \ {p} /\ ticking /\ joined /\ ticking' \in BOOLEAN
      /\ UNCHANGED <<joined, tbl, prank, heard, etx>>
  BY DEF Nullify, Select, SelectNone, NextFlagged, Core
<1>2. CASE Nullify(p)
  <2>1. NullifyParent(p) /\ UNCHANGED <<minRank, daoTimer>>
    BY <1>2 DEF Nullify
  <2>2. CASE pref \in {p, None}
    BY <1>1, <2>1, <2>2, NullifyStep, RankBounds
       DEF Core, TypeOK, PreferredInTable, DetachedIsSilent
  <2>3. CASE pref \notin {p, None}
    BY <1>1, <2>1, <2>3, NullifyStep
       DEF Core, TypeOK, PreferredInTable, DetachedIsSilent, routeVars
  <2> QED BY <2>2, <2>3
<1>3. ASSUME Select(p, q) PROVE Core'
  <2>1. q \in tbl /\ q \in Nbr /\ q # None
    BY <1>3, SelectedType, DagAssumption DEF Select, Core, TypeOK
  <2>2. Via(q) \in MinHopRankInc + 1 .. InfiniteRank
    BY <2>1, RankThroughType DEF Via, Core, TypeOK
  <2>3. minRank' \in MinHopRankInc + 1 .. InfiniteRank
    BY <1>3, <2>2 DEF Select, LowestWith, Core, TypeOK
  <2>4. routers' \subseteq Nbr /\ defRoute' \in routers' \cup {None}
        /\ registered' \subseteq Nbr /\ daoTimer' \in BOOLEAN
    BY <1>3, <2>1, RouteStep DEF Select, Core, TypeOK, NoPathTo, routeVars, daoVars
  <2>5. pref' = q /\ locked' = {q} /\ rank' = Via(q)
    BY <1>3, <2>1, LockStep DEF Select, Core
  <2> QED BY <1>1, <2>1, <2>2, <2>3, <2>4, <2>5
         DEF Core, TypeOK, PreferredInTable, DetachedIsSilent
<1>4. ASSUME SelectNone(p, q) PROVE Core'
  <2>1. Via(q) \in MinHopRankInc + 1 .. InfiniteRank
    BY RankThroughType DEF Via, Core, TypeOK
  <2>2. minRank' \in MinHopRankInc + 1 .. InfiniteRank
    BY <1>4, <2>1 DEF SelectNone, LowestWith, Core, TypeOK
  <2>3. pref = None => Via(q) = InfiniteRank \/ LimitWraps(Via(q))
    <3>1. CASE q = None
      BY <3>1 DEF Via, RankThrough
    <3>2. CASE pref = None /\ ~ Acceptable(Via(q), Via(q)) /\ ~ LimitWraps(Via(q))
      <4>1. Via(q) \in Nat
        BY <2>1, RankBounds
      <4>2. DagRank(Via(q)) <= DagRank(Limit(Via(q)))
        BY <3>2, <4>1, AcceptableSelf
      <4> QED BY <3>2, <4>2 DEF Acceptable
    <3> QED BY <1>4, <3>1, <3>2 DEF SelectNone, LowestWith
  <2>4. /\ pref' = None /\ locked' = {} /\ defRoute' = None
        /\ routers' \subseteq Nbr /\ registered' \subseteq Nbr /\ daoTimer' = daoTimer
    BY <1>4, LockStep, RouteStep DEF SelectNone, Core, TypeOK, DetachedIsSilent, NoPathTo, routeVars
  <2>5. /\ rank' \in MinHopRankInc + 1 .. InfiniteRank
        /\ rank' = InfiniteRank \/ LimitWraps(rank')
    BY <1>4, <2>1, <2>3, RankBounds DEF SelectNone
  <2>6. LimitWraps(rank)' = LimitWraps(rank')
    BY DEF LimitWraps, Limit, UncastSum
  <2> QED BY <1>1, <2>2, <2>4, <2>5, <2>6
         DEF Core, TypeOK, PreferredInTable, DetachedIsSilent
<1> QED BY <1>2, <1>3, <1>4

(* A rank a DIO or a header carries is a rank. *)
LEMMA CarriedRank == Ranks \cup HeaderRanks \subseteq MinHopRankInc .. InfiniteRank
  BY DagAssumption

(* The agent's choice is an entry of the table or the present parent. *)
LEMMA ChoiceType ==
  ASSUME NEW T, NEW pr, NEW H, pref \in T \cup {None}, NEW c \in AgentChoices(T, pr, H)
  PROVE  c \in T \cup {None}
  BY DEF AgentChoices

LEMMA JoinStep ==
  ASSUME Core, NEW n \in Nbr, NEW r \in Ranks, Join(n, r)
  PROVE  Core'
<1>1. r \in MinHopRankInc .. InfiniteRank /\ n # None
  BY CarriedRank, DagAssumption
<1>2. RankVia(r, etx[n]) \in MinHopRankInc + 1 .. InfiniteRank
  BY <1>1, RankIncreases DEF Core, TypeOK
<1>3. ~ joined /\ tbl = {} /\ upd' = {} /\ heard' = {} /\ registered' = {}
  BY DEF Join, Core, TypeOK
<1>4. pref' = n /\ locked' = {n}
  BY <1>1, LockStep DEF Join, Core
<1> QED BY <1>1, <1>2, <1>3, <1>4, RouteStep
       DEF Join, Core, TypeOK, PreferredInTable, DetachedIsSilent

LEMMA DioStep ==
  ASSUME Core, NEW n \in Nbr, NEW r \in Ranks, NEW c \in Nbr \cup {None},
         NEW d \in BOOLEAN, ReceiveDio(n, r, c, d)
  PROVE  Core' /\ rank' = RankThrough(prank', pref') /\ etx' = etx /\ joined'
<1>1. prank' \in [Nbr -> MinHopRankInc .. InfiniteRank]
  BY CarriedRank DEF ReceiveDio, Core, TypeOK
<1>2. /\ pref' = c /\ locked' = {c} \ {None}
      /\ rank' = RankThrough(prank', c) /\ etx' = etx
  BY LockStep DEF ReceiveDio, Core
<1>3. rank' \in MinHopRankInc + 1 .. InfiniteRank
  BY <1>1, <1>2, RankThroughType DEF Core
<1>4. c \in tbl' \cup {None}
  BY ChoiceType DEF ReceiveDio, Core, PreferredInTable
<1>5. c = None => pref = None
  BY DagAssumption DEF ReceiveDio, AgentChoices, Core, TypeOK
<1>6. c = None => rank' = InfiniteRank
  BY <1>2 DEF RankThrough
<1>7. routers' \subseteq Nbr /\ routers \subseteq routers' /\ defRoute' = defRoute
  BY DEF ReceiveDio, WithRouter, Core, TypeOK
<1> QED BY <1>1, <1>2, <1>3, <1>4, <1>5, <1>6, <1>7
       DEF ReceiveDio, Idle, Core, TypeOK, PreferredInTable, DetachedIsSilent

LEMMA GlobalRepairStep ==
  ASSUME Core, NEW n \in Nbr, NEW r \in Ranks, NEW known \in BOOLEAN,
         GlobalRepair(n, r, known)
  PROVE  Core'
<1> DEFINE v == RankVia(r, etx[n])
           judged == known /\ Acceptable(r, v)
           ok == judged /\ Acceptable(v, v)
<1>1. r \in MinHopRankInc .. InfiniteRank /\ n # None
  BY CarriedRank, DagAssumption
<1>2. v \in MinHopRankInc + 1 .. InfiniteRank
  BY <1>1, RankIncreases DEF Core, TypeOK
<1>3. /\ prank' \in [Nbr -> MinHopRankInc .. InfiniteRank]
      /\ tbl' \subseteq Nbr /\ (known => n \in tbl') /\ upd' = {} /\ heard' = {}
      /\ registered' \subseteq Nbr /\ daoTimer' \in BOOLEAN
      /\ minRank' \in MinHopRankInc + 1 .. InfiniteRank
      /\ joined /\ UNCHANGED <<joined, etx, ticking>>
  BY <1>1, <1>2, RankBounds DEF GlobalRepair, Idle, NoPathTo, Core, TypeOK
<1>4. CASE ok
  <2>1. SetPreferredParent(n) /\ rank' = v /\ SetDefaultRoute(n)
    BY <1>4 DEF GlobalRepair
  <2>2. pref' = n /\ locked' = {n}
    BY <1>1, <2>1, LockStep DEF Core
  <2> HIDE DEF v
  <2> QED BY <1>1, <1>2, <1>3, <1>4, <2>1, <2>2, RouteStep
         DEF Core, TypeOK, PreferredInTable, DetachedIsSilent
<1>5. CASE ~ ok
  <2>1. SetPreferredParent(None) /\ DropDefaultRoute
    BY <1>5 DEF GlobalRepair
  <2>2. pref' = None /\ locked' = {}
    BY <2>1, LockStep DEF Core
  <2>3. rank' = IF judged THEN v ELSE InfiniteRank
    BY DEF GlobalRepair
  <2>4. judged => v = InfiniteRank \/ LimitWraps(v)
    <3>1. v \in Nat
      BY <1>2, RankBounds
    <3> QED BY <1>5, <3>1, AcceptableSelf DEF Acceptable
  <2> HIDE DEF v
  <2>5. /\ rank' \in MinHopRankInc + 1 .. InfiniteRank
        /\ rank' = InfiniteRank \/ LimitWraps(rank')
    BY <1>2, <2>3, <2>4, RankBounds
  <2>6. LimitWraps(rank)' = LimitWraps(rank')
    BY DEF LimitWraps, Limit, UncastSum
  <2> QED BY <1>3, <2>1, <2>2, <2>5, <2>6, RouteStep
         DEF Core, TypeOK, PreferredInTable, DetachedIsSilent
<1> QED BY <1>4, <1>5

LEMMA PanicStep ==
  ASSUME Core, NEW c \in Nbr \cup {None}, Panic(c)
  PROVE  Core'
<1>1. c \in tbl /\ c # None
  BY ChoiceType, DagAssumption DEF Panic, AgentChoices, Core, PreferredInTable, TypeOK
<1>2. Via(c) \in MinHopRankInc + 1 .. InfiniteRank
  BY RankThroughType DEF Via, Core, TypeOK
<1>3. rank' \in MinHopRankInc + 1 .. InfiniteRank
  BY <1>2 DEF Panic, Core, TypeOK
<1>4. pref' = c /\ locked' = {c}
  BY <1>1, LockStep DEF Panic, Core
<1> QED BY <1>1, <1>3, <1>4
       DEF Panic, Idle, Core, TypeOK, PreferredInTable, DetachedIsSilent, routeVars, daoVars

LEMMA EvictStep ==
  ASSUME Core, NEW n \in Nbr, Evict(n)
  PROVE  Core'
<1>1. prank' \in [Nbr -> MinHopRankInc .. InfiniteRank]
  BY RankBounds DEF Evict, Core, TypeOK
<1>2. NullifyParent(n) /\ n # pref
  BY DagAssumption DEF Evict, Core, PreferredInTable
<1>3. CASE pref = None
  BY <1>1, <1>2, <1>3, NullifyStep, RankBounds
     DEF Evict, Idle, Core, TypeOK, PreferredInTable, DetachedIsSilent
<1>4. CASE pref # None
  BY <1>1, <1>2, <1>4, NullifyStep
     DEF Evict, Idle, Core, TypeOK, PreferredInTable, DetachedIsSilent, routeVars
<1> QED BY <1>3, <1>4

(* The steps that leave the parent and the routes alone. *)
LEMMA QuietStep ==
  ASSUME Core,
         \/ Tick
         \/ \E n \in Nbr : \/ Poison(n) \/ NeighborTimeout(n)
                           \/ \E r \in HeaderRanks : RankErrorHeader(n, r)
                           \/ \E e \in Etxs : LinkCallback(n, e)
         \/ DaoTimer \/ DaoLifetimeTimer
         \/ UNCHANGED vars
  PROVE  Core'
<1> USE DEF Core, TypeOK, PreferredInTable, DetachedIsSilent, Idle
<1>1. CASE Tick
  BY <1>1 DEF Tick, tableVars, dagVars, routeVars, daoVars
<1>2. ASSUME NEW n \in Nbr, Poison(n) PROVE Core'
  BY <1>2, RankBounds DEF Poison, dagVars, routeVars, daoVars
<1>3. ASSUME NEW n \in Nbr, NeighborTimeout(n) PROVE Core'
  BY <1>3 DEF NeighborTimeout, dagVars, routeVars, daoVars
<1>4. ASSUME NEW n \in Nbr, NEW r \in HeaderRanks, RankErrorHeader(n, r) PROVE Core'
  BY <1>4, CarriedRank DEF RankErrorHeader, dagVars, routeVars, daoVars
<1>5. ASSUME NEW n \in Nbr, NEW e \in Etxs, LinkCallback(n, e) PROVE Core'
  BY <1>5, DagAssumption DEF LinkCallback, dagVars, routeVars, daoVars
<1>6. CASE DaoTimer \/ DaoLifetimeTimer
  BY <1>6 DEF DaoTimer, DaoLifetimeTimer, HandleDaoTimer, tableVars, dagVars, routeVars
<1>7. CASE UNCHANGED vars
  BY <1>7 DEF vars, tableVars, dagVars, routeVars, daoVars
<1> QED BY <1>1, <1>2, <1>3, <1>4, <1>5, <1>6, <1>7

LEMMA CoreStep == Core /\ [Next]_vars => Core'
<1> SUFFICES ASSUME Core, [Next]_vars PROVE Core'
  OBVIOUS
<1>1. CASE \E n \in Nbr : \E r \in Ranks : Join(n, r)
  BY <1>1, JoinStep
<1>2. CASE \E n \in Nbr : DioFrom(n)
  BY <1>2, DioStep DEF DioFrom
<1>3. CASE NewVersion
  BY <1>3, GlobalRepairStep DEF NewVersion
<1>4. CASE PanicMonitor
  BY <1>4, PanicStep DEF PanicMonitor
<1>5. CASE Recalculate
  <2>1. PICK p \in Nbr, q \in Nbr \cup {None} :
          Nullify(p) \/ Select(p, q) \/ SelectNone(p, q)
    BY <1>5 DEF Recalculate
  <2> QED BY <2>1, RecalculateStep
<1>6. CASE \E n \in Nbr : Evict(n)
  BY <1>6, EvictStep
<1>7. CASE \E n \in Nbr : NeighborCallback(n) \/ LoopingDao(n)
  BY <1>7, QuietStep DEF NeighborCallback, LoopingDao
<1> QED BY <1>1, <1>2, <1>3, <1>4, <1>5, <1>6, <1>7, QuietStep DEF Next, RankOverwritten

LEMMA CoreInvariant == Spec => []Core
<1>1. Init => Core
  <2> SUFFICES ASSUME Init PROVE Core
    OBVIOUS
  <2>1. InitEtx \in 1 .. InfiniteRank
    BY DagAssumption
  <2>2. etx \in [Nbr -> 1 .. InfiniteRank]
    BY <2>1 DEF Init
  <2>3. InfiniteRank \in MinHopRankInc + 1 .. InfiniteRank
    BY RankBounds
  <2>4. prank \in [Nbr -> MinHopRankInc .. InfiniteRank]
    BY <2>3, RankBounds DEF Init
  <2> QED BY <2>2, <2>3, <2>4
         DEF Init, Core, TypeOK, PreferredInTable, DetachedIsSilent
<1> QED BY <1>1, CoreStep, PTL DEF Spec

(* The variables keep their types. *)
THEOREM Typing == Spec => []TypeOK
<1>1. Core => TypeOK
  BY DEF Core
<1> QED BY <1>1, CoreInvariant, PTL

(* dag->preferred_parent never dangles. *)
THEOREM ParentNeverDangles == Spec => []PreferredInTable
<1>1. Core => PreferredInTable
  BY DEF Core
<1> QED BY <1>1, CoreInvariant, PTL

(* A node without a parent announces an infinite rank, but for a limit that *)
(* wraps around, and has no route.                                          *)
THEOREM DetachedStaysSilent == Spec => []DetachedIsSilent
<1>1. Core => DetachedIsSilent
  BY DEF Core
<1> QED BY <1>1, CoreInvariant, PTL
-----------------------------------------------------------------------------
LEMMA RankStep ==
  ASSUME Core, RankFollowsParent, [Next]_vars, ~ RankOverwritten
  PROVE  RankFollowsParent'
<1> USE DEF RankFollowsParent, Via, RankThrough
<1>1. ASSUME NEW n \in Nbr, NEW r \in Ranks, Join(n, r) PROVE RankFollowsParent'
  BY <1>1, DagAssumption DEF Join, SetPreferredParent, Core, TypeOK
<1>2. ASSUME NEW n \in Nbr, DioFrom(n) PROVE RankFollowsParent'
  <2>1. PICK r \in Ranks, c \in Nbr \cup {None}, d \in BOOLEAN : ReceiveDio(n, r, c, d)
    BY <1>2 DEF DioFrom
  <2> QED BY <2>1, DioStep
<1>3. ASSUME NEW n \in Nbr, NEW r \in Ranks, NEW known \in BOOLEAN,
             GlobalRepair(n, r, known)
      PROVE  RankFollowsParent'
  BY <1>3, DagAssumption DEF GlobalRepair, SetPreferredParent, Core, TypeOK
<1>4. ASSUME NEW c \in Nbr \cup {None}, Panic(c) PROVE RankFollowsParent'
  BY <1>4 DEF Panic, SetPreferredParent
<1>5. ASSUME NEW p \in Nbr, NEW q \in Nbr \cup {None},
             Nullify(p) \/ Select(p, q) \/ SelectNone(p, q)
      PROVE  RankFollowsParent'
  BY <1>5 DEF Nullify, NullifyParent, Select, SelectNone, SetPreferredParent, NextFlagged
<1>6. ASSUME NEW n \in Nbr, Evict(n) PROVE RankFollowsParent'
  BY <1>6 DEF Evict, NullifyParent, SetPreferredParent, Core, TypeOK, PreferredInTable
<1>7. ASSUME NEW n \in Nbr, Poison(n) PROVE RankFollowsParent'
  BY <1>7 DEF Poison, dagVars, Core, TypeOK
<1>8. ASSUME NEW n \in Nbr, NEW e \in Etxs, LinkCallback(n, e) PROVE RankFollowsParent'
  BY <1>8 DEF LinkCallback, dagVars, Core, TypeOK, PreferredInTable
<1>9. ASSUME NEW n \in Nbr, NeighborTimeout(n) PROVE RankFollowsParent'
  BY <1>9 DEF NeighborTimeout, dagVars
<1>10. CASE Tick \/ DaoTimer \/ DaoLifetimeTimer \/ UNCHANGED vars
  BY <1>10 DEF Tick, DaoTimer, DaoLifetimeTimer, HandleDaoTimer, vars, tableVars, dagVars
<1> QED BY <1>1, <1>2, <1>3, <1>4, <1>5, <1>6, <1>7, <1>8, <1>9, <1>10
       DEF Next, NewVersion, PanicMonitor, Recalculate, NeighborCallback, LoopingDao

(* The rank keeps up with the parent in every step but one that handles a  *)
(* rank-error header.                                                      *)
THEOREM RankStaysThroughParent == Spec => RankKeepsUp
<1>1. Core /\ [Next]_vars =>
        [RankFollowsParent /\ ~ RankOverwritten => RankFollowsParent']_vars
  BY RankStep
<1> QED BY <1>1, CoreInvariant, PTL DEF Spec, RankKeepsUp

(* Without rank errors, the rank a node announces is the one through its   *)
(* parent, or a recalculation is due.                                      *)
THEOREM RankIsThroughParent ==
  ASSUME HeaderRanks = {} PROVE Spec => []RankFollowsParent
<1>1. Init => RankFollowsParent
  BY DEF Init, RankFollowsParent
<1>2. ~ RankOverwritten
  BY DEF RankOverwritten
<1>3. Core /\ RankFollowsParent /\ [Next]_vars => RankFollowsParent'
  BY <1>2, RankStep
<1> QED BY <1>1, <1>3, CoreInvariant, PTL DEF Spec

(* min_rank rises only with a new version or out of a detachment, so a     *)
(* node does not creep away from the root while it keeps a parent.         *)
THEOREM NoCreeping == Spec => LowestRankHeld
<1> DEFINE Held == minRank' > minRank => pref = None \/ NewVersion
<1>1. Core /\ [Next]_vars => [Held]_vars
  <2> SUFFICES ASSUME Core, [Next]_vars PROVE Held
    OBVIOUS
  <2>1. /\ minRank \in Nat /\ minRank <= InfiniteRank
        /\ minRank' \in Nat /\ minRank' <= InfiniteRank
    BY CoreStep, RankBounds DEF Core, TypeOK
  <2>2. ASSUME ~ joined PROVE pref = None
    BY <2>2 DEF Core, TypeOK
  <2>3. ASSUME NEW p \in Nbr, NEW q \in Nbr \cup {None},
               Select(p, q) \/ SelectNone(p, q)
        PROVE  Held
    <3>1. Via(q) \in Nat
      BY RankThroughType, RankBounds DEF Via, Core, TypeOK
    <3> QED BY <2>1, <2>3, <3>1 DEF Select, SelectNone, LowestWith
  <2>4. ASSUME minRank' = minRank PROVE Held
    BY <2>1, <2>4
  <2>5. \A p \in Nbr : Nullify(p) => minRank' = minRank
    BY DEF Nullify
  <2>6. CASE Recalculate
    BY <2>3, <2>4, <2>5, <2>6 DEF Recalculate
  <2>7. CASE \E n \in Nbr : \E r \in Ranks : Join(n, r)
    BY <2>2, <2>7 DEF Join
  <2>8. CASE NewVersion
    BY <2>8
  <2>9. CASE UNCHANGED vars
    BY <2>4, <2>9 DEF vars, dagVars
  <2>10. CASE Next /\ ~ Recalculate /\ ~ NewVersion
              /\ ~ \E n \in Nbr : \E r \in Ranks : Join(n, r)
    BY <2>4, <2>10
       DEF Next, DioFrom, ReceiveDio, PanicMonitor, Panic, Tick, Evict, NeighborCallback,
           LoopingDao, Poison, RankOverwritten, RankErrorHeader, LinkCallback, NeighborTimeout, DaoTimer,
           DaoLifetimeTimer, HandleDaoTimer, dagVars
  <2> QED BY <2>6, <2>7, <2>8, <2>9, <2>10
<1> QED BY <1>1, CoreInvariant, PTL DEF Spec, LowestRankHeld

(* When the objective function, a repair or a nullification changes the    *)
(* parent, registration and default route leave the old one in that step.  *)
THEOREM HandsOver == Spec => HandOverComplete
<1> DEFINE Handed == (Recalculate \/ NewVersion) /\ pref' # pref =>
                       pref \notin registered' /\ defRoute' \in {pref', None}
<1>1. Core /\ [Next]_vars => [Handed]_vars
  <2> SUFFICES ASSUME Core, pref' # pref, Recalculate \/ NewVersion
               PROVE  pref \notin registered' /\ defRoute' \in {pref', None}
    OBVIOUS
  <2>1. ASSUME NEW n \in Nbr, NEW r \in Ranks, NEW known \in BOOLEAN,
               GlobalRepair(n, r, known)
        PROVE  pref \notin registered' /\ defRoute' \in {pref', None}
    BY <2>1, RouteStep, DagAssumption DEF GlobalRepair, SetPreferredParent, NoPathTo, Core, TypeOK
  <2>2. ASSUME NEW p \in Nbr, Nullify(p)
        PROVE  pref \notin registered' /\ defRoute' \in {pref', None}
    BY <2>2, NullifyStep DEF Nullify, Core
  <2>3. ASSUME NEW p \in Nbr, NEW q \in Nbr \cup {None}, Select(p, q)
        PROVE  pref \notin registered' /\ defRoute' \in {pref', None}
    BY <2>3, RouteStep DEF Select, SetPreferredParent, NoPathTo, Core
  <2>4. ASSUME NEW p \in Nbr, NEW q \in Nbr \cup {None}, SelectNone(p, q)
        PROVE  pref \notin registered' /\ defRoute' \in {pref', None}
    BY <2>4, RouteStep DEF SelectNone, SetPreferredParent, NoPathTo, Core
  <2> QED BY <2>1, <2>2, <2>3, <2>4 DEF Recalculate, NewVersion
<1> QED BY <1>1, CoreInvariant, PTL DEF Spec, HandOverComplete
-----------------------------------------------------------------------------
(* The scan of the neighbour table (BestParentScan), over any entries, in   *)
(* tables of any length.                                                    *)

LEMMA PathCostType ==
  ASSUME NEW p \in Entries
  PROVE  PathCost(p) \in Nat
<1>1. p.rank \in Nat /\ p.etx \in Nat
  BY ScanAssumption, RankBounds
<1> QED BY <1>1 DEF PathCost, Lower, LinkMetric, InitEtx, EtxDivisor

(* The final comparison picks one of its two arguments: its cases leave    *)
(* nothing out.                                                            *)
LEMMA BetterOfPicks ==
  ASSUME NEW p1 \in Entries, NEW p2 \in Entries
  PROVE  BetterOf(p1, p2) \in {p1, p2}
<1> DEFINE c1 == PathCost(p1)
           c2 == PathCost(p2)
<1>1. c1 \in Nat /\ c2 \in Nat
  BY PathCostType
<1>2. PathCostsClose(p1, p2) \/ c1 < c2 \/ c2 < c1
  BY <1>1 DEF PathCostsClose, PathCostThreshold
<1> QED BY <1>2 DEF BetterOf

(* best_parent returns one of its arguments, and an eligible one if it is  *)
(* given an eligible one.                                                  *)
LEMMA BestParentPicks ==
  ASSUME NEW p1 \in Entries, NEW p2 \in Entries
  PROVE  BestParent(p1, p2) \in {p1, p2}
  BY BetterOfPicks DEF BestParent

LEMMA BestParentKeepsEligible ==
  ASSUME NEW p1 \in Entries, NEW p2 \in Entries,
         p1.rank \in MinHopRankInc .. InfiniteRank - 1,
         p2.rank \in MinHopRankInc .. InfiniteRank - 1,
         Eligible(p1) \/ Eligible(p2)
  PROVE  Eligible(BestParent(p1, p2))
  BY BetterOfPicks, RankBounds DEF BestParent, Eligible

(* The entries the scan does not pass over *)
Usable(p) == p.rank \in MinHopRankInc .. InfiniteRank - 1

(* The best so far is an entry that was not passed over, and there is one  *)
(* as soon as one was read.                                                *)
Scanned ==
  /\ read \subseteq Entries
  /\ chosen \in read \cup {NoEntry}
  /\ chosen # NoEntry => Usable(chosen)
  /\ chosen = NoEntry => \A p \in read : ~ Usable(p)

LEMMA ScanStep ==
  Scanned /\ EligibleWins /\ [ScanNext]_scanVars => Scanned' /\ EligibleWins'
<1> SUFFICES ASSUME Scanned, EligibleWins, [ScanNext]_scanVars
             PROVE  Scanned' /\ EligibleWins'
  OBVIOUS
<1>1. ASSUME NEW p \in Entries, Consider(p) PROVE Scanned' /\ EligibleWins'
  <2>1. read' = read \cup {p} /\ read' \subseteq Entries
    BY <1>1 DEF Consider, Scanned
  <2>2. p.rank \in 0..InfiniteRank /\ p # NoEntry
    BY ScanAssumption
  <2>3. CASE ~ Usable(p)
    <3>1. ~ Eligible(p)
      BY <2>3, RankBounds DEF Eligible, Usable
    <3>2. chosen' = chosen
      BY <1>1, <2>2, <2>3, RankBounds DEF Consider, Usable
    <3> QED BY <2>1, <2>3, <3>1, <3>2 DEF Scanned, EligibleWins
  <2>4. CASE Usable(p)
    <3>1. ~ (p.rank = InfiniteRank \/ p.rank < MinHopRankInc)
      BY <2>4, RankBounds DEF Usable
    <3>2. CASE chosen = NoEntry
      <4>1. chosen' = p
        BY <1>1, <3>1, <3>2 DEF Consider
      <4>2. \A q \in read : ~ Eligible(q)
        BY <3>2, RankBounds DEF EligibleWins
      <4> QED BY <2>1, <2>2, <2>4, <4>1, <4>2 DEF Scanned, EligibleWins
    <3>3. CASE chosen # NoEntry
      <4>1. chosen \in Entries /\ Usable(chosen)
        BY <3>3 DEF Scanned
      <4>2. chosen' = BestParent(chosen, p) /\ chosen' \in {chosen, p}
        BY <1>1, <3>1, <3>3, <4>1, BestParentPicks DEF Consider
      <4>3. Eligible(chosen) \/ Eligible(p) => Eligible(chosen')
        BY <2>4, <4>1, <4>2, BestParentKeepsEligible DEF Usable
      <4> QED BY <2>1, <2>2, <2>4, <3>3, <4>1, <4>2, <4>3 DEF Scanned, EligibleWins
    <3> QED BY <3>2, <3>3
  <2> QED BY <2>3, <2>4
<1>2. CASE UNCHANGED scanVars
  BY <1>2 DEF scanVars, Scanned, EligibleWins
<1> QED BY <1>1, <1>2 DEF ScanNext

LEMMA ScanInvariant == ScanSpec => [](Scanned /\ EligibleWins)
<1>1. ScanInit => Scanned /\ EligibleWins
  BY DEF ScanInit, Scanned, EligibleWins
<1> QED BY <1>1, ScanStep, PTL DEF ScanSpec

(* Filters 1 and 2 of best_parent make eligibility decide first, in        *)
(* whatever order the table is read.                                       *)
THEOREM ScanKeepsEligible == ScanSpec => []EligibleWins
  BY ScanInvariant, PTL

(* best is an entry of the table that announced a finite rank, whatever    *)
(* best_parent made of the comparisons.                                    *)
THEOREM ScanTyping == ScanSpec => []ScanTypeOK
<1>1. Scanned => ScanTypeOK
  BY ScanAssumption, RankBounds DEF Scanned, Usable, ScanTypeOK
<1> QED BY <1>1, ScanInvariant, PTL

-----------------------------------------------------------------------------
(* What best_parent makes of the neighbours N of the DAG's table.           *)

(* The entries read describe the neighbours N as the DAG has them: their    *)
(* ranks, and the metrics of their links.                                   *)
HasRead(N) ==
  /\ \A p \in read : /\ p.nbr \in N
                     /\ p.rank = prank[p.nbr]
                     /\ LinkMetric(p) = etx[p.nbr]
  /\ N \subseteq {p.nbr : p \in read}

LEMMA EtxScaleType ==
  ASSUME NEW e \in Nat
  PROVE  EtxScale(e) \in Nat /\ (e <= 512 => EtxScale(e) > 0)
  BY DEF EtxScale, EtxDivisor, MaxEtx

(* A usable link is one as far as its metric tells, also when nothing was   *)
(* measured and the metric is the one assumed.                              *)
LEMMA NormOfMetric ==
  ASSUME NEW p \in Entries, SquaredEtxNorm(p.etx) # 0
  PROVE  SquaredEtxNorm(LinkMetric(p)) > 0
<1>1. CASE p.etx = 0
  <2>1. LinkMetric(p) = 256
    BY <1>1 DEF LinkMetric, InitEtx, EtxDivisor
  <2>2. Lower(SquaredEtx(256), 65535) = 512
    BY DEF Lower, SquaredEtx, EtxDivisor
  <2> QED BY <2>1, <2>2, EtxScaleType DEF SquaredEtxNorm
<1>2. CASE p.etx # 0
  <2>1. p.etx \in Nat /\ LinkMetric(p) = p.etx
    BY <1>2, ScanAssumption DEF LinkMetric
  <2> DEFINE square == p.etx * p.etx
  <2>2. square \in Nat
    BY <2>1
  <2> HIDE DEF square
  <2>3. square \div 128 \in Nat
    BY <2>2
  <2>4. Lower(SquaredEtx(p.etx), 65535) \in Nat
    BY <2>3 DEF Lower, SquaredEtx, EtxDivisor, square
  <2>5. SquaredEtxNorm(p.etx) \in Nat
    BY <1>2, <2>4, EtxScaleType DEF SquaredEtxNorm
  <2> QED BY <2>1, <2>5
<1> QED BY <1>1, <1>2

LEMMA EligibleMayBe ==
  ASSUME NEW p \in Entries, Eligible(p),
         p.nbr \in Nbr, p.rank = prank[p.nbr], LinkMetric(p) = etx[p.nbr]
  PROVE  MayBeEligible(p.nbr)
<1>1. p.nbr # None
  BY DagAssumption
<1>2. SquaredEtxNorm(p.etx) # 0
  <2>1. CandidateScore(p) >= 1
    BY DEF Eligible, HasUsableLink
  <2>2. SquaredEtxNorm(p.etx) = 0 => CandidateScore(p) = 0
    BY DEF CandidateScore
  <2> QED BY <2>1, <2>2
<1>3. RankVia(p.rank, LinkMetric(p)) # InfiniteRank
  BY DEF Eligible, RankViaParent
<1>4. Via(p.nbr) # InfiniteRank
  BY <1>1, <1>3 DEF Via, RankThrough
<1> QED BY <1>2, <1>4, NormOfMetric DEF MayBeEligible

(* What the scan found is a choice BestOf allows, and it found nothing      *)
(* exactly if there is no candidate among N.                                *)
IsChoiceOf(N) ==
  IF chosen = NoEntry THEN N \cap Candidates = {}
  ELSE \E eligible \in SUBSET {n \in N : MayBeEligible(n)} :
         chosen.nbr \in BestOf(N \cap Candidates, eligible)

(* The scan is what the DAG's model takes it for (StableChoices over the    *)
(* whole table, FreshChoices over its fresh entries), in whatever order     *)
(* rpl_select_parent's calls of best_parent meet the entries.               *)
THEOREM ScanChooses ==
  Spec /\ ScanSpec => [](\A N \in SUBSET tbl : HasRead(N) => IsChoiceOf(N))
<1>1. ASSUME Core, Scanned, EligibleWins, NEW N \in SUBSET tbl, HasRead(N)
      PROVE  IsChoiceOf(N)
  <2>1. ASSUME NEW p \in read
        PROVE  /\ p \in Entries /\ p.nbr \in N /\ p.nbr \in tbl /\ p.nbr \in Nbr
               /\ p.rank = prank[p.nbr] /\ LinkMetric(p) = etx[p.nbr]
               /\ Usable(p) <=> p.nbr \in Candidates
    BY <1>1 DEF Core, TypeOK, Scanned, HasRead, Usable, Candidates
  <2>2. CASE chosen = NoEntry
    <3>1. ASSUME NEW n \in N \cap Candidates PROVE FALSE
      <4>1. PICK p \in read : p.nbr = n
        BY <1>1 DEF HasRead
      <4> QED BY <1>1, <2>1, <2>2, <4>1 DEF Scanned
    <3> QED BY <2>2, <3>1 DEF IsChoiceOf
  <2>3. CASE chosen # NoEntry
    <3> DEFINE eligible == {p.nbr : p \in {q \in read : Eligible(q)}}
    <3>1. chosen \in read /\ chosen.nbr \in N \cap Candidates
      BY <1>1, <2>1, <2>3 DEF Scanned
    <3>2. eligible \subseteq {n \in N : MayBeEligible(n)}
      BY <2>1, EligibleMayBe
    <3>3. eligible # {} => chosen.nbr \in eligible
      BY <1>1, <3>1 DEF EligibleWins
    <3> HIDE DEF eligible
    <3>4. chosen.nbr \in BestOf(N \cap Candidates, eligible)
      BY <3>1, <3>3 DEF BestOf
    <3> QED BY <2>3, <3>2, <3>4 DEF IsChoiceOf
  <2> QED BY <2>2, <2>3
<1>2. Core /\ Scanned /\ EligibleWins =>
        \A N \in SUBSET tbl : HasRead(N) => IsChoiceOf(N)
  BY <1>1
<1> QED BY <1>2, CoreInvariant, ScanInvariant, PTL
=============================================================================
