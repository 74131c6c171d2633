-------------------------------- MODULE OfTau --------------------------------
(***************************************************************************)
(* The objective function OF-TAU (rpl-of-tau.c and the metric functions of *)
(* rpl-dag.c) as pure operators.  A candidate parent is a record           *)
(*   [rank, etx, rssi, tau]                                                *)
(* of the rank and tau its last DIO announced and of the link statistics;  *)
(* etx = 0 stands for a link with no ETX measured yet.                     *)
(***************************************************************************)
EXTENDS Integers

InfiniteRank == 65535        \* INFINITE_RANK, the largest uint16_t
MinHopRankInc == 256         \* RPL_MIN_HOPRANKINC, and the root's rank
EtxDivisor == 128            \* LINK_STATS_ETX_DIVISOR: ETX 1.0
MaxEtx == 8 * EtxDivisor     \* RPL_OF_TAU_MAX_ETX
InitEtx == 2 * EtxDivisor    \* RPL_OF_TAU_INIT_ETX
RssiFloor == -100            \* RPL_RSSI_MIN
RssiCeiling == -40           \* RPL_RSSI_MAX
WEtx == 5                    \* the weights of project-conf.h
WRssi == 3
WTau == 5
PathCostThreshold == 96      \* MRHOF_PC_THRESHOLD
SwitchThreshold == 75        \* RPL_OF_TAU_SWITCH_THRESHOLD
NeutralTau == 500            \* bootstrap value for a score of 0

Lower(a, b) == IF a < b THEN a ELSE b
Higher(a, b) == IF a < b THEN b ELSE a
Clamp1000(v) == Lower(v, 1000)

(* The sum of two uint16_t operands that no cast or variable of 16 bits    *)
(* cuts: as wide as the int they are promoted to.                          *)
UncastSum(x, y, intWidth) == IF intWidth = 16 THEN (x + y) % 65536 ELSE x + y
-----------------------------------------------------------------------------
(* The scale both norms of an ETX share: 1000 at ETX 1, 0 from ETX 8 on. *)
EtxScale(e) ==
  IF e <= EtxDivisor THEN 1000
  ELSE IF e >= MaxEtx THEN 0
  ELSE 1000 - ((e - EtxDivisor) * 1000) \div (MaxEtx - EtxDivisor)

(* rpl_etx_norm *)
EtxNorm(etx) == IF etx = 0 THEN 500 ELSE EtxScale(etx)

(* the squared-ETX penalty of calculate_candidate_score *)
SquaredEtx(etx) == (etx * etx) \div EtxDivisor
SquaredEtxNorm(etx) ==
  IF etx = 0 THEN 500 ELSE EtxScale(Lower(SquaredEtx(etx), 65535))

(* rpl_rssi_norm *)
RssiNorm(rssi) ==
  IF rssi <= RssiFloor THEN 0
  ELSE IF rssi >= RssiCeiling THEN 1000
  ELSE ((rssi - RssiFloor) * 1000) \div (RssiCeiling - RssiFloor)

(* rpl_tau_compute_cand *)
TauComputeCand(e, r, t) ==
  (WEtx * Clamp1000(e) + WRssi * Clamp1000(r) + WTau * Clamp1000(t))
    \div (WEtx + WRssi + WTau)

(* Mutant: tau_cand without its bootstrap value. *)
RawScore(p) == TauComputeCand(EtxNorm(p.etx), RssiNorm(p.rssi), p.tau)

(* tau_cand as rpl_process_dio and rpl_add_parent store it *)
DioScore(p) ==
  LET t == TauComputeCand(EtxNorm(p.etx), RssiNorm(p.rssi), p.tau)
  IN  IF t = 0 THEN NeutralTau ELSE t

(* calculate_candidate_score, the score everything else recomputes *)
CandidateScore(p) ==
  IF SquaredEtxNorm(p.etx) = 0 \/ RssiNorm(p.rssi) = 0 THEN 0
  ELSE TauComputeCand(SquaredEtxNorm(p.etx), RssiNorm(p.rssi), p.tau)
-----------------------------------------------------------------------------
(* get_etx_or_default, and with it parent_link_metric *)
LinkMetric(p) == IF p.etx > 0 THEN p.etx ELSE InitEtx

(* parent_has_usable_link *)
HasUsableLink(p) == CandidateScore(p) >= 1 /\ LinkMetric(p) <= MaxEtx

(* Mutant: the path cost alone, without the minimum hop increase. *)
RankSum(rank, etx) == IF etx > MaxEtx THEN InfiniteRank ELSE (rank + etx) % 65536

(* rank_via_parent over an advertised rank and a link metric: the path     *)
(* cost is a uint16_t sum that may wrap, the minimum hop increase is not.  *)
RankVia(rank, etx) ==
  IF etx > MaxEtx THEN InfiniteRank
  ELSE Higher(Lower(rank + MinHopRankInc, InfiniteRank), (rank + etx) % 65536)

RankViaParent(p) == RankVia(p.rank, LinkMetric(p))

(* the saturated path cost best_parent compares *)
PathCost(p) == Lower(p.rank + LinkMetric(p), 65535)

Clear(t1, t2) == t1 > t2 + SwitchThreshold
PathCostsClose(p1, p2) ==
  /\ PathCost(p1) <= PathCost(p2) + PathCostThreshold
  /\ PathCost(p2) <= PathCost(p1) + PathCostThreshold

(* best_parent of two usable candidates with a finite rank, neither of     *)
(* them the preferred parent: close path costs leave the choice to tau,    *)
(* otherwise the dearer path needs a clearly higher tau.                   *)
BetterOf(p1, p2) ==
  LET t1 == CandidateScore(p1)    t2 == CandidateScore(p2)
      c1 == PathCost(p1)          c2 == PathCost(p2)
      r1 == RankViaParent(p1)     r2 == RankViaParent(p2)
  IN  CASE PathCostsClose(p1, p2) /\ t1 # t2 -> IF t2 > t1 THEN p2 ELSE p1
        [] PathCostsClose(p1, p2) /\ t1 = t2 ->
             IF \/ c2 < c1
                \/ c2 = c1 /\ r2 < r1
                \/ c2 = c1 /\ r2 = r1 /\ LinkMetric(p2) < LinkMetric(p1)
             THEN p2 ELSE p1
        [] ~ PathCostsClose(p1, p2) /\ c1 < c2 -> IF Clear(t2, t1) THEN p2 ELSE p1
        [] ~ PathCostsClose(p1, p2) /\ c2 < c1 -> IF Clear(t1, t2) THEN p1 ELSE p2

(* Mutant: the filter on infinite ranks is missing. *)
UnfilteredBest(p1, p2) ==
  IF ~ HasUsableLink(p1) THEN p2
  ELSE IF ~ HasUsableLink(p2) THEN p1
  ELSE BetterOf(p1, p2)

(* best_parent: unusable links lose first, then candidates through which   *)
(* the rank would be infinite.                                             *)
BestParent(p1, p2) ==
  IF ~ HasUsableLink(p1) THEN p2
  ELSE IF ~ HasUsableLink(p2) THEN p1
  ELSE IF RankViaParent(p2) = InfiniteRank THEN p1
  ELSE IF RankViaParent(p1) = InfiniteRank THEN p2
  ELSE BetterOf(p1, p2)
=============================================================================
