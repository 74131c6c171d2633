-------------------------- MODULE NbrPolicy_proofs --------------------------
(* The places of a neighbour table, for any neighbours, ranks and sizes.    *)
EXTENDS NbrPolicy, FiniteSetTheorems, WellFoundedInduction, TLAPS

(* The table is finite, so that its size means something.                   *)
Inv == TypeOK /\ IsFiniteSet(table)

LEMMA NoneOutside == None \notin Nbr /\ TableSize \in Nat
<1>1. None \notin Nbr
  BY PolicyAssumption
<1>2. TableSize \in Nat
  BY PolicyAssumption
<1> QED
  BY <1>1, <1>2

LEMMA Announcements ==
    ASSUME TypeOK, NEW n \in Nbr
    PROVE  /\ ann[n] \in MinHopRankInc..InfiniteRank
           /\ metric[n] \in 1..InfiniteRank \cup {InitEtx}
<1>1. Announced \subseteq [Nbr -> MinHopRankInc..InfiniteRank] /\ Metrics \subseteq 1..InfiniteRank
  BY PolicyAssumption
<1>2. ann \in [Nbr -> MinHopRankInc..InfiniteRank] /\ metric \in [Nbr -> Metrics \cup {InitEtx}]
  BY <1>1 DEF TypeOK
<1> QED
  BY <1>1, <1>2

(* Whoever is given up for a place is a neighbour nobody needs, or nobody.  *)
LEMMA PlaceSpares ==
    ASSUME TypeOK, NEW n \in Nbr, NEW w \in Places(n, TRUE)
    PROVE  /\ w \in table \cup {None}
           /\ w \notin child
           /\ w # pref \/ w = None
<1>0. None \notin table /\ None \notin child
  BY NoneOutside DEF TypeOK
<1>1. CASE w = None
  BY <1>0, <1>1
<1>2. CASE w \in Worst
  <2>1. w \in Unused \/ w \in Spare
    BY <1>2 DEF Worst
  <2>2. pref \in parents \/ pref = None
    BY DEF TypeOK
  <2>3. w \in table
    BY <2>1 DEF Unused, Spare, TypeOK
  <2>4. w \notin child /\ w # pref
    BY <1>0, <2>1, <2>2, <2>3 DEF Unused, Spare
  <2> QED
    BY <2>3, <2>4
<1> QED
  BY <1>1, <1>2 DEF Places

(* A place is free, or is freed: the table does not grow past its size.     *)
LEMMA PlaceFits ==
    ASSUME Inv, NEW n \in Nbr, NEW w \in Places(n, TRUE)
    PROVE  LET t == (table \ {w}) \cup {n}
           IN  /\ t \subseteq Nbr
               /\ IsFiniteSet(t)
               /\ Cardinality(t) <= TableSize
<1> DEFINE rest == table \ {w}
           t == rest \cup {n}
<1>0. table \subseteq Nbr /\ IsFiniteSet(table) /\ Cardinality(table) <= TableSize
  BY DEF Inv, TypeOK
<1>1. /\ table \subseteq Nbr /\ IsFiniteSet(table) /\ Cardinality(table) <= TableSize
      /\ Cardinality(table) \in Nat /\ TableSize \in Nat
  BY <1>0, FS_CardinalityType, NoneOutside
<1>2. /\ IsFiniteSet(rest)
      /\ Cardinality(rest) = IF w \in table THEN Cardinality(table) - 1 ELSE Cardinality(table)
  BY <1>1, FS_RemoveElement
<1>3. /\ IsFiniteSet(t)
      /\ Cardinality(t) = IF n \in rest THEN Cardinality(rest) ELSE Cardinality(rest) + 1
  BY <1>2, FS_AddElement
<1>4. Cardinality(t) <= TableSize
  <2>1. w \in table \/ n \in table \/ Cardinality(table) < TableSize
    <3>1. w \in table \/ w = None
      BY PlaceSpares DEF Inv
    <3>2. n \in table \/ Cardinality(table) < TableSize \/ w \in Worst
      BY DEF Places
    <3>3. w \in Worst => w \in table
      BY DEF Worst, Unused, Spare, Inv, TypeOK
    <3> QED
      BY <3>2, <3>3
  <2>2. CASE w \in table
    BY <1>1, <1>2, <1>3, <2>2
  <2>3. CASE w \notin table /\ n \in table
    <3>1. n \in rest
      BY <2>3
    <3> QED
      BY <1>1, <1>2, <1>3, <2>3, <3>1
  <2>4. CASE w \notin table /\ Cardinality(table) < TableSize
    BY <1>1, <1>2, <1>3, <2>4
  <2> QED
    BY <2>1, <2>2, <2>3, <2>4
<1>5. t \subseteq Nbr
  BY <1>0
<1> QED
  BY <1>3, <1>4, <1>5

(* What admitting n leaves of the types.                                    *)
LEMMA TakesKeeps ==
    ASSUME Inv, NEW n \in Nbr, NEW w \in Places(n, TRUE), Takes(n, w)
    PROVE  /\ table' \subseteq Nbr /\ Cardinality(table') <= TableSize
           /\ IsFiniteSet(table')
           /\ metric' \in [Nbr -> Metrics \cup {InitEtx}]
           /\ n \in table' /\ parents \ {w} \subseteq table' /\ child \subseteq table'
           /\ lost \ {w} \subseteq parents \ {w}
           /\ pref \in (parents \ {w}) \cup {None}
<1>1. table' = (table \ {w}) \cup {n}
  BY DEF Takes
<1>2. /\ w \notin child /\ (w # pref \/ w = None)
  BY PlaceSpares DEF Inv
<1>3. table' \subseteq Nbr /\ IsFiniteSet(table') /\ Cardinality(table') <= TableSize
  BY <1>1, PlaceFits
<1>4. metric' \in [Nbr -> Metrics \cup {InitEtx}]
  BY DEF Takes, Inv, TypeOK
<1> QED
  BY <1>1, <1>2, <1>3, <1>4 DEF Inv, TypeOK

LEMMA InvStep == Inv /\ [Next]_vars => Inv'
<1> SUFFICES ASSUME Inv, [Next]_vars PROVE  Inv'
  OBVIOUS
<1>1. ASSUME NEW n \in Nbr, ReceiveDio(n) PROVE  Inv'
  <2>1. PICK w \in Places(n, TRUE) :
           /\ Takes(n, w)
           /\ parents' = (parents \ {w}) \cup (IF root THEN {} ELSE {n})
           /\ lost' = lost \ {w, n}
    BY <1>1 DEF ReceiveDio, Places
  <2>2. /\ pref' = pref \/ pref' \in parents'
        /\ UNCHANGED <<root, ann, child>>
    BY <1>1 DEF ReceiveDio, Finite
  <2> QED
    BY <2>1, <2>2, TakesKeeps DEF Inv, TypeOK
<1>2. ASSUME NEW n \in Nbr, ReceiveDao(n) \/ ReceiveDis(n) PROVE  Inv'
  <2>1. PICK w \in Places(n, TRUE) :
           /\ Takes(n, w)
           /\ parents' = parents \ {w} /\ lost' = lost \ {w}
           /\ UNCHANGED <<root, ann, pref>>
    BY <1>2 DEF ReceiveDao, ReceiveDis, Admit, Places
  <2>2. child' = child \cup {n} \/ child' = child
    BY <1>2 DEF ReceiveDao, ReceiveDis
  <2> QED
    BY <2>1, <2>2, TakesKeeps DEF Inv, TypeOK
<1>3. ASSUME NEW n \in Nbr, RoutesGone(n) PROVE  Inv'
  BY <1>3 DEF RoutesGone, Inv, TypeOK
<1>4. ASSUME NEW n \in Nbr, LoopingDao(n) PROVE  Inv'
  BY <1>4 DEF LoopingDao, Inv, TypeOK
<1>5. ASSUME NEW p \in Nbr \cup {None}, Select(p) PROVE  Inv'
  BY <1>5 DEF Select, Finite, Inv, TypeOK
<1>6. ASSUME NEW n \in Nbr, NEW m \in Metrics, Measure(n, m) PROVE  Inv'
  BY <1>6 DEF Measure, Inv, TypeOK
<1>7. CASE UNCHANGED vars
  BY <1>7 DEF vars, Inv, TypeOK
<1> QED
  BY <1>1, <1>2, <1>3, <1>4, <1>5, <1>6, <1>7 DEF Next

LEMMA InitInv == Init => Inv
<1> SUFFICES ASSUME Init PROVE Inv
  OBVIOUS
<1>1. IsFiniteSet(table) /\ Cardinality(table) = 0
  BY FS_EmptySet DEF Init
<1>2. 0 <= TableSize
  BY PolicyAssumption
<1> QED
  BY <1>1, <1>2 DEF Init, Inv, TypeOK

(* The preferred parent and every next hop keep their place in a table of   *)
(* any size, whoever asks for one (update_nbr).                             *)
THEOREM PlacesKept == Spec => []TypeOK
<1>1. Inv => TypeOK
  BY DEF Inv
<1> QED
  BY <1>1, InitInv, InvStep, PTL DEF Spec

-----------------------------------------------------------------------------
(* Whom a DIO may displace.                                                 *)

(* A link nobody measured has the metric that is assumed. *)
Unmeasured == \A n \in Nbr \ table : metric[n] = InitEtx

LEMMA UnmeasuredStep == Inv /\ Unmeasured /\ [Next]_vars => Unmeasured'
<1> SUFFICES ASSUME Inv, Unmeasured, [Next]_vars PROVE Unmeasured'
  OBVIOUS
<1>1. ASSUME NEW n, NEW w, Takes(n, w) PROVE Unmeasured'
  BY <1>1 DEF Takes, Unmeasured
<1>2. ASSUME NEW n \in Nbr, ReceiveDio(n) \/ ReceiveDao(n) \/ ReceiveDis(n)
      PROVE  Unmeasured'
  BY <1>1, <1>2 DEF ReceiveDio, ReceiveDao, ReceiveDis, Admit
<1>3. ASSUME NEW n \in Nbr, NEW m \in Metrics, Measure(n, m) PROVE Unmeasured'
  BY <1>3 DEF Measure, Unmeasured, Inv, TypeOK
<1>4. CASE UNCHANGED <<table, metric>>
  BY <1>4 DEF Unmeasured
<1>5. ASSUME NEW n \in Nbr, RoutesGone(n) \/ LoopingDao(n)
      PROVE  UNCHANGED <<table, metric>>
  BY <1>5 DEF RoutesGone, LoopingDao
<1>6. ASSUME NEW p \in Nbr \cup {None}, Select(p) PROVE UNCHANGED <<table, metric>>
  BY <1>6 DEF Select
<1>7. UNCHANGED vars => UNCHANGED <<table, metric>>
  BY DEF vars
<1> QED BY <1>2, <1>3, <1>4, <1>5, <1>6, <1>7 DEF Next

(* What the proofs need of the numbers, which stay folded elsewhere.        *)
LEMMA RankNumbers ==
    /\ MinHopRankInc \in Nat /\ InfiniteRank \in Nat /\ MinHopRankInc \div 2 \in Nat
    /\ InitEtx = MinHopRankInc /\ InitEtx \in Nat /\ ~ (InitEtx > MaxEtx)
  BY DEF MinHopRankInc, InfiniteRank, InitEtx, MaxEtx, EtxDivisor

LEMMA TwoHops == MinHopRankInc + MinHopRankInc <= InfiniteRank
  BY DEF MinHopRankInc, InfiniteRank

Sum16(r, e) == (r + e) % 65536

LEMMA SumBound ==
    ASSUME NEW r \in Nat, NEW e \in Nat
    PROVE  Sum16(r, e) \in Nat /\ Sum16(r, e) <= InfiniteRank
  BY DEF Sum16, InfiniteRank

LEMMA NoWrap ==
    ASSUME NEW r \in Nat, NEW e \in Nat, r + e <= InfiniteRank
    PROVE  Sum16(r, e) = r + e
  BY DEF Sum16, InfiniteRank

LEMMA RankOfSum ==
    ASSUME NEW r, NEW e
    PROVE  RankVia(r, e) = IF e > MaxEtx THEN InfiniteRank
                           ELSE Higher(Lower(r + MinHopRankInc, InfiniteRank), Sum16(r, e))
  BY DEF RankVia, Sum16

LEMMA RanksInRange ==
    ASSUME TypeOK, NEW n \in Nbr
    PROVE  Via(n) \in 0..InfiniteRank
<1> DEFINE r == ParentRank(n)
           e == metric[n]
<1>1. r \in Nat /\ e \in Nat
  BY Announcements, RankNumbers DEF ParentRank
<1> HIDE DEF r, e
<1>2. Sum16(r, e) \in Nat /\ Sum16(r, e) <= InfiniteRank
  BY <1>1, SumBound
<1>3. RankVia(r, e) \in 0..InfiniteRank
  BY <1>1, <1>2, RankOfSum, RankNumbers DEF Higher, Lower
<1> QED BY <1>3 DEF Via, r, e

(* The worst of the parents that may go is one of them, and the worst.      *)
LEMMA WorstIsWorst ==
    ASSUME TypeOK, Unused = {}
    PROVE  /\ WorstRank \in 0..InfiniteRank
           /\ \A s \in Spare : Via(s) <= WorstRank
<1> DEFINE ranks == {Via(n) : n \in Spare} \cup {0}
           gaps == {InfiniteRank - r : r \in ranks}
           R == OpToRel(<, Nat)
<1>1. InfiniteRank \in Nat /\ ranks \subseteq 0..InfiniteRank
  <2>1. Spare \subseteq Nbr
    BY DEF Spare, TypeOK
  <2> QED BY <2>1, RanksInRange, RankNumbers
<1>2. WorstRank = CHOOSE r \in ranks : \A q \in ranks : q <= r
  BY DEF WorstRank
<1>3. 0 \in ranks /\ \A s \in Spare : Via(s) \in ranks
  OBVIOUS
<1> HIDE DEF ranks
<1>4. gaps # {} /\ gaps \subseteq Nat
  BY <1>1, <1>3
<1>5. \A x, y \in Nat : <<y, x>> \in R <=> y < x
  BY DEF OpToRel
<1>6. IsWellFoundedOn(R, Nat)
  BY NatLessThanWellFounded
<1> HIDE DEF gaps, R
<1>7. PICK x \in gaps : \A y \in gaps : ~ (<<y, x>> \in R)
  BY <1>4, <1>6, WFMin, Zenon
<1>8. \A y \in gaps : y \in Nat /\ x \in Nat /\ ~ (y < x)
  BY <1>4, <1>5, <1>7
<1>9. PICK r \in ranks : x = InfiniteRank - r
  BY <1>7 DEF gaps
<1>10. \A q \in ranks : q <= r
  <2> TAKE q \in ranks
  <2>1. InfiniteRank - q \in gaps
    BY DEF gaps
  <2> QED BY <1>1, <1>8, <1>9, <2>1
<1>11. WorstRank \in ranks /\ \A q \in ranks : q <= WorstRank
  BY <1>2, <1>10
<1> QED BY <1>1, <1>3, <1>11

(* The sum of a newcomer, as far as its width lets it.                      *)
LEMMA NextRankFits ==
    ASSUME NEW r \in Nat, r <= InfiniteRank, ~ Wraps(r)
    PROVE  NextRank(r) = r + MinHopRankInc
  BY DEF Wraps, NextRank, UncastSum, MinHopRankInc, InfiniteRank

(* "Add the new neighbor only if it is better than the worst parent": a     *)
(* parent that loses its place to the sender of a DIO is the worst of those *)
(* that may go, and the new one better by more than half a hop with the     *)
(* metric it starts with, unless the sum of its rank wraps around.  Places  *)
(* cannot be taken in turns by others while links prove no worse than       *)
(* assumed.                                                                 *)
Displaces(n, w) == ReceiveDio(n) /\ n \notin table /\ w \in table \ table'

OnlyBetter(n, w) ==
    w \in parents /\ ~ Wraps(ann[n]) =>
      /\ Via(n)' + MinHopRankInc \div 2 < Via(w)
      /\ \A s \in Spare : Via(s) <= Via(w)

THEOREM BetterDisplacesWorst ==
    Spec => [][\A n, w \in Nbr : Displaces(n, w) => OnlyBetter(n, w)]_vars
<1>1. Init => Inv /\ Unmeasured
  BY InitInv DEF Init, Unmeasured
<1>2. ASSUME Inv, Unmeasured, [Next]_vars
      PROVE  [\A n, w \in Nbr : Displaces(n, w) => OnlyBetter(n, w)]_vars
  <2> SUFFICES ASSUME NEW n \in Nbr, NEW w \in Nbr, Displaces(n, w), w \in parents,
                      ~ Wraps(ann[n])
               PROVE  /\ Via(n)' + MinHopRankInc \div 2 < Via(w)
                      /\ \A s \in Spare : Via(s) <= Via(w)
    BY DEF OnlyBetter
  <2>1. PICK v \in Places(n, Great(ann[n])) :
           /\ Takes(n, v)
           /\ lost' = lost \ {v, n}
    BY DEF Displaces, ReceiveDio
  <2>2. v = w /\ n \in table' /\ n \notin table
    BY <2>1 DEF Displaces, Takes
  <2>3. w \in Worst /\ Great(ann[n])
    <3>1. w # None
      BY NoneOutside
    <3> QED BY <2>1, <2>2, <3>1 DEF Places
  <2>4. Unused = {} /\ Via(w) = WorstRank
    BY <2>3 DEF Worst, Unused
  <2>5. WorstRank \in 0..InfiniteRank /\ \A s \in Spare : Via(s) <= WorstRank
    BY <1>2, <2>4, WorstIsWorst DEF Inv
  <2>6. /\ ann[n] \in Nat
        /\ ann[n] + MinHopRankInc < WorstRank - MinHopRankInc \div 2
    <3>1. ann[n] \in MinHopRankInc..InfiniteRank
      BY <1>2, Announcements DEF Inv
    <3>2. ann[n] \in Nat /\ ann[n] <= InfiniteRank
      BY <3>1, RankNumbers
    <3>3. NextRank(ann[n]) = ann[n] + MinHopRankInc
      BY <3>2, NextRankFits
    <3> QED BY <2>3, <3>2, <3>3 DEF Great
  <2>7. Via(n)' = RankVia(ann[n], InitEtx)
    <3>1. ann' = ann
      BY DEF Displaces, ReceiveDio
    <3>2. metric'[n] = InitEtx
      BY <1>2, <2>1, <2>2 DEF Takes, Unmeasured
    <3>3. n \notin lost'
      BY <2>1
    <3> QED BY <3>1, <3>2, <3>3 DEF Via, ParentRank
  <2>8. RankVia(ann[n], InitEtx) = ann[n] + MinHopRankInc
    <3> DEFINE r == ann[n]
               half == MinHopRankInc \div 2
    <3>1. half \in Nat /\ r \in Nat /\ r + MinHopRankInc < WorstRank - half
      BY <2>6, RankNumbers
    <3> HIDE DEF r, half
    <3>2. r + MinHopRankInc <= InfiniteRank /\ r + InitEtx <= InfiniteRank
      BY <2>5, <3>1, RankNumbers
    <3>3. Sum16(r, InitEtx) = r + MinHopRankInc
      BY <3>1, <3>2, NoWrap, RankNumbers
    <3>4. RankVia(r, InitEtx) = Higher(Lower(r + MinHopRankInc, InfiniteRank), r + MinHopRankInc)
      <4>1. RankVia(r, InitEtx)
              = IF InitEtx > MaxEtx THEN InfiniteRank
                ELSE Higher(Lower(r + MinHopRankInc, InfiniteRank), Sum16(r, InitEtx))
        BY RankOfSum, Zenon
      <4> QED BY <3>3, <4>1, RankNumbers, Zenon
    <3> QED BY <3>1, <3>2, <3>4, RankNumbers DEF Higher, Lower, r
  <2> DEFINE half == MinHopRankInc \div 2
  <2>9. half \in Nat
    BY RankNumbers
  <2> HIDE DEF half
  <2>10. ann[n] + MinHopRankInc + half < WorstRank
    BY <2>5, <2>6, <2>9, RankNumbers DEF half
  <2> QED BY <2>4, <2>5, <2>7, <2>8, <2>10 DEF half
<1>3. Inv /\ Unmeasured /\ [Next]_vars => Inv' /\ Unmeasured'
  BY InvStep, UnmeasuredStep
<1> QED BY <1>1, <1>2, <1>3, PTL DEF Spec

-----------------------------------------------------------------------------
(* In 16 bits the sum of an infinite rank is below that of any other.       *)
LEMMA InfiniteIsGreat ==
    ASSUME IntWidth = 16, WorstRank \in Nat, WorstRank >= MinHopRankInc + MinHopRankInc
    PROVE  Great(InfiniteRank)
  BY DEF Great, NextRank, UncastSum, MinHopRankInc, InfiniteRank

(* A parent costs a hop at least, on top of the root's rank.                *)
LEMMA HopCosts ==
    ASSUME TypeOK, NEW n \in Nbr
    PROVE  Via(n) >= MinHopRankInc + MinHopRankInc
<1> DEFINE r == ParentRank(n)
           e == metric[n]
<1>1. /\ r \in Nat /\ r >= MinHopRankInc /\ r <= InfiniteRank /\ e \in Nat
      /\ MinHopRankInc + MinHopRankInc <= InfiniteRank
  BY Announcements, RankNumbers, TwoHops DEF ParentRank
<1> HIDE DEF r, e
<1>2. Sum16(r, e) \in Nat
  BY <1>1, SumBound
<1>3. RankVia(r, e) >= MinHopRankInc + MinHopRankInc
  BY <1>1, <1>2, RankOfSum, RankNumbers DEF Higher, Lower
<1> QED BY <1>3 DEF Via, r, e

OutOfReach(n) == n \notin table /\ ann[n] = InfiniteRank

WorstGoes == \A n \in Nbr :
    OutOfReach(n) /\ ~ Cardinality(table) < TableSize => Places(n, Great(ann[n])) = Worst

(* With ints of 16 bits the rule is turned round for the worst newcomer:    *)
(* the sender of an infinite rank, who can be no parent to us, always has   *)
(* the place of the worst, whatever its rank (rpl-nbr-policy.c:203).        *)
THEOREM InfiniteDisplaces == Spec => [](IntWidth = 16 => WorstGoes)
<1>1. ASSUME Inv, IntWidth = 16,
             NEW n \in Nbr, OutOfReach(n), ~ Cardinality(table) < TableSize
      PROVE  Places(n, Great(ann[n])) = Worst
  <2>1. Places(n, Great(ann[n])) = IF Great(ann[n]) THEN Worst ELSE {}
    BY <1>1 DEF Places, OutOfReach
  <2>2. CASE Unused # {}
    <3>1. WorstRank = InfiniteRank /\ InfiniteRank >= MinHopRankInc + MinHopRankInc
      BY <2>2, TwoHops DEF WorstRank
    <3>2. Great(InfiniteRank)
      BY <1>1, <3>1, InfiniteIsGreat, RankNumbers
    <3> QED BY <1>1, <2>1, <3>2 DEF OutOfReach
  <2>3. CASE Unused = {} /\ Spare # {}
    <3>1. PICK s \in Spare : TRUE
      BY <2>3
    <3>2. s \in Nbr /\ TypeOK
      BY <1>1 DEF Spare, TypeOK, Inv
    <3>3. Via(s) \in 0..InfiniteRank /\ Via(s) >= MinHopRankInc + MinHopRankInc
      BY <3>2, RanksInRange, HopCosts
    <3>4. WorstRank \in 0..InfiniteRank /\ Via(s) <= WorstRank
      BY <2>3, <3>2, WorstIsWorst
    <3>5. WorstRank \in Nat /\ WorstRank >= MinHopRankInc + MinHopRankInc
      BY <3>3, <3>4, RankNumbers
    <3>6. Great(InfiniteRank)
      BY <1>1, <3>5, InfiniteIsGreat
    <3> QED BY <1>1, <2>1, <3>6 DEF OutOfReach
  <2>4. CASE Unused = {} /\ Spare = {}
    <3>1. Worst = {}
      BY <2>4 DEF Worst
    <3> QED BY <2>1, <3>1
  <2> QED BY <2>2, <2>3, <2>4
<1>2. Inv => (IntWidth = 16 => WorstGoes)
  BY <1>1 DEF WorstGoes
<1> QED BY <1>2, InitInv, InvStep, PTL DEF Spec
=============================================================================
