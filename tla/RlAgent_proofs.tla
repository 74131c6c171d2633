--------------------------- MODULE RlAgent_proofs ---------------------------
(* The scales of the scores and of the Q-table, and what the agent may     *)
(* pick and credit, for any neighbours and any links they show.            *)
EXTENDS RlAgent, TLAPS

(* Norms and scores never leave their scales. *)
LEMMA EtxScaleType == \A e \in Nat : EtxScale(e) \in Nat
  BY DEF EtxScale, EtxDivisor, MaxEtx

LEMMA ComputeCandType ==
  ASSUME NEW e \in Nat, NEW r \in Nat, NEW t \in Nat
  PROVE  TauComputeCand(e, r, t) \in Nat /\ TauComputeCand(e, r, t) <= 1000
<1> DEFINE a == Clamp1000(e)
           b == Clamp1000(r)
           c == Clamp1000(t)
<1>1. /\ a \in Nat /\ a <= 1000
      /\ b \in Nat /\ b <= 1000
      /\ c \in Nat /\ c <= 1000
  BY DEF Clamp1000, Lower
<1>2. TauComputeCand(e, r, t) = (5 * a + 3 * b + 5 * c) \div 13
  BY DEF TauComputeCand, WEtx, WRssi, WTau
<1> HIDE DEF a, b, c
<1>3. (5 * a + 3 * b + 5 * c) \div 13 \in Nat /\ (5 * a + 3 * b + 5 * c) \div 13 <= 1000
  BY <1>1
<1> QED BY <1>2, <1>3

LEMMA NormTypes ==
  ASSUME NEW e \in Nat, NEW r \in Int
  PROVE  EtxNorm(e) \in Nat /\ SquaredEtxNorm(e) \in Nat /\ RssiNorm(r) \in Nat
<1>1. EtxNorm(e) \in Nat
  BY EtxScaleType DEF EtxNorm
<1>2. SquaredEtxNorm(e) \in Nat
  <2>1. e * e \in Nat
    OBVIOUS
  <2>2. SquaredEtx(e) \in Nat
    BY <2>1 DEF SquaredEtx, EtxDivisor
  <2>3. Lower(SquaredEtx(e), 65535) \in Nat
    BY <2>2 DEF Lower
  <2> QED BY <2>3, EtxScaleType DEF SquaredEtxNorm
<1>3. RssiNorm(r) \in Nat
  BY DEF RssiNorm, RssiFloor, RssiCeiling
<1> QED BY <1>1, <1>2, <1>3

LEMMA LinkType ==
  ASSUME NEW l \in Links
  PROVE  l.etx \in Nat /\ l.rssi \in Int /\ l.tau \in Nat
  BY AgentAssumption

(* tau_cand is at most 1000, and never 0 right after a DIO: a score of 0   *)
(* is read as "not scored" by the agent, and only a recomputation yields   *)
(* it (rpl_process_dio, calculate_candidate_score).                        *)
THEOREM ScoresInScale ==
  ASSUME NEW l \in Links
  PROVE  /\ DioScore(l) \in Nat /\ 0 < DioScore(l) /\ DioScore(l) <= 1000
         /\ CandidateScore(l) \in Nat /\ CandidateScore(l) <= 1000
<1>1. /\ EtxNorm(l.etx) \in Nat /\ SquaredEtxNorm(l.etx) \in Nat
      /\ RssiNorm(l.rssi) \in Nat /\ l.tau \in Nat
  BY LinkType, NormTypes
<1>2. ASSUME NEW e \in Nat, NEW r \in Nat
      PROVE  /\ TauComputeCand(e, r, l.tau) \in Nat
             /\ TauComputeCand(e, r, l.tau) <= 1000
  <2>1. l.tau \in Nat
    BY LinkType
  <2>2. \A t \in Nat : /\ TauComputeCand(e, r, t) \in Nat
                       /\ TauComputeCand(e, r, t) <= 1000
    BY ComputeCandType
  <2> QED BY <2>1, <2>2
<1>3. DioScore(l) \in Nat /\ 0 < DioScore(l) /\ DioScore(l) <= 1000
  <2> DEFINE d == TauComputeCand(EtxNorm(l.etx), RssiNorm(l.rssi), l.tau)
  <2>1. d \in Nat /\ d <= 1000
    BY <1>1, <1>2
  <2>2. DioScore(l) = IF d = 0 THEN 500 ELSE d
    BY DEF DioScore, NeutralTau
  <2> HIDE DEF d
  <2> QED BY <2>1, <2>2
<1>4. CandidateScore(l) \in Nat /\ CandidateScore(l) <= 1000
  <2> DEFINE d == TauComputeCand(SquaredEtxNorm(l.etx), RssiNorm(l.rssi), l.tau)
  <2>1. d \in Nat /\ d <= 1000
    BY <1>1, <1>2
  <2>2. CandidateScore(l) = 0 \/ CandidateScore(l) = d
    BY DEF CandidateScore
  <2> HIDE DEF d
  <2> QED BY <2>1, <2>2
<1> QED BY <1>3, <1>4

LEMMA BinType == \A t \in Nat : Bin(t) \in Bins
  BY DEF Bin, Bins, Lower, TauStep, NumStates

(* update_q_table moves an entry of the Q-table towards ten times the      *)
(* reward and not past it, so that an entry never leaves 0..100.           *)
THEOREM CreditBetween ==
  ASSUME NEW old \in 0 .. 10 * MaxReward, NEW reward \in 0 .. MaxReward
  PROVE  /\ Credited(old, reward) \in 0 .. 10 * MaxReward
         /\ \/ old <= Credited(old, reward) /\ Credited(old, reward) <= 10 * reward
            \/ old >= Credited(old, reward) /\ Credited(old, reward) >= 10 * reward
  BY DEF Credited, Alpha, MaxReward
-----------------------------------------------------------------------------
(* A call of the agent keeps the parent or moves to a neighbour it may     *)
(* pick, and credits the Q-table at most once.                             *)
LEMMA CallOutcome ==
  ASSUME NEW v, NEW sc, OnDioReceived(v, sc)
  PROVE  /\ UNCHANGED table \/ UpdateQTable
         /\ pref' = pref \/ pref' \in Fresh
  BY DEF OnDioReceived, Learn, Decide, KeepAsIs, Keep, Commit, Usable, InBin, Fresh

(* What RplDag takes for granted of the agent: in either mode it moves     *)
(* only to a neighbour heard of late that announced a finite rank.         *)
THEOREM AgentStaysUsable == Spec => AgentKeepsToUsable
<1>1. [Next]_vars => [pref' # pref /\ AgentStep =>
                        pref' \in heard' /\ link'[pref'].rank # InfiniteRank]_vars
  BY CallOutcome DEF AgentStep, Panic, DioFrom, ReceiveDio, Fresh
<1> QED BY <1>1, PTL DEF Spec, AgentKeepsToUsable

LEMMA RecalculatedType ==
  ASSUME link' \in [Nbr -> Links], pref \in Nbr \cup {None}, NEW sc \in [Nbr -> Nat]
  PROVE  Recalculated(sc) \in [Nbr -> Nat]
<1>1. CASE pref = None
  BY <1>1 DEF Recalculated
<1>2. CASE pref \in Nbr
  BY <1>2, ScoresInScale DEF Recalculated
<1> QED BY <1>1, <1>2

(* The same in types: what is kept or committed. *)
LEMMA CallType ==
  ASSUME TypeOK, link' \in [Nbr -> Links], NEW v \in Nbr, NEW sc \in [Nbr -> Nat],
         OnDioReceived(v, sc)
  PROVE  \E sc2 \in [Nbr -> Nat] :
           \/ \E S \in Bins : Keep(sc2, S)
           \/ \E m \in Fresh : Commit(m, sc2)
<1> DEFINE sc1 == IF v = pref THEN sc ELSE Recalculated(sc)
<1>1. pref \in Nbr \cup {None}
  BY DEF TypeOK
<1>2. /\ sc1 \in [Nbr -> Nat]
      /\ Recalculated(sc1) \in [Nbr -> Nat]
  BY <1>1, RecalculatedType
<1>3. /\ Learn(sc1) \/ Decide(sc1) \/ KeepAsIs(sc1) \/ Keep(sc1, Bin(sc1[v]))
  BY DEF OnDioReceived
<1> HIDE DEF sc1
<1>4. /\ Bin(sc1[v]) \in Bins /\ 0 \in Bins
      /\ pref # None => Bin(sc1[pref]) \in Bins /\ stateS[pref] \in Bins
  BY <1>1, <1>2, BinType DEF TypeOK, Bins, NumStates
<1>5. CASE KeepAsIs(sc1) \/ Keep(sc1, Bin(sc1[v]))
  BY <1>2, <1>4, <1>5 DEF KeepAsIs
<1>6. CASE Learn(sc1)
  BY <1>2, <1>4, <1>6 DEF Learn, KeepAsIs, Usable
<1>7. CASE Decide(sc1)
  BY <1>2, <1>4, <1>7 DEF Decide, KeepAsIs, InBin
<1> QED BY <1>3, <1>5, <1>6, <1>7

(* What a credit does to the Q-table. *)
LEMMA CreditType ==
  ASSUME TypeOK, UNCHANGED table \/ UpdateQTable
  PROVE  /\ q' \in [Bins \X Bins -> 0 .. 10 * MaxReward]
         /\ credits' \in 0 .. MaxCredits
<1>1. CASE UNCHANGED table
  BY <1>1 DEF TypeOK, table
<1>2. CASE UpdateQTable /\ pref \notin attached
  BY <1>2 DEF UpdateQTable, TypeOK, table
<1>3. CASE UpdateQTable /\ pref \in attached
  <2>1. pref \in Nbr /\ age[pref] \in 0 .. MaxReward
    BY <1>3 DEF TypeOK
  <2>2. \A old \in 0 .. 10 * MaxReward :
          Credited(old, age[pref]) \in 0 .. 10 * MaxReward
    BY <2>1, CreditBetween
  <2>3. q' \in [Bins \X Bins -> 0 .. 10 * MaxReward]
    BY <1>3, <2>1, <2>2 DEF UpdateQTable, TypeOK
  <2>4. credits' \in 0 .. MaxCredits
    BY <1>3, AgentAssumption DEF UpdateQTable, TypeOK
  <2> QED BY <2>3, <2>4
<1> QED BY <1>1, <1>2, <1>3

(* A call of the agent, made after the caller recorded what it heard. *)
LEMMA CallStep ==
  ASSUME TypeOK, NEW v \in Nbr, NEW sc \in [Nbr -> Nat], OnDioReceived(v, sc),
         link' \in [Nbr -> Links], lastRssi' \in [Nbr -> Int],
         tbl' \subseteq Nbr, tbl \subseteq tbl', heard' \subseteq tbl',
         joined' \in BOOLEAN, ~ joined' => tbl' = {}
  PROVE  TypeOK'
<1>1. mode' \in {"off", "learning", "production"}
  BY DEF OnDioReceived, TypeOK
<1>2. q' \in [Bins \X Bins -> 0 .. 10 * MaxReward] /\ credits' \in 0 .. MaxCredits
  BY CallOutcome, CreditType
<1>3. PICK sc2 \in [Nbr -> Nat] :
        \/ \E S \in Bins : Keep(sc2, S)
        \/ \E m \in Fresh : Commit(m, sc2)
  BY CallType
<1>4. ASSUME NEW S \in Bins, Keep(sc2, S) PROVE TypeOK'
  BY <1>1, <1>2, <1>4 DEF Keep, TypeOK
<1>5. ASSUME NEW m \in Fresh, Commit(m, sc2) PROVE TypeOK'
  <2>1. m \in tbl' /\ m \in Nbr
    BY <1>5 DEF Fresh
  <2>2. Bin(sc2[m]) \in Bins /\ 0 \in 0 .. MaxReward
    BY <2>1, BinType DEF MaxReward
  <2> QED BY <1>1, <1>2, <1>5, <2>1, <2>2 DEF Commit, TypeOK
<1> QED BY <1>3, <1>4, <1>5

(* The variables keep their types; in particular the scores never become   *)
(* negative and every entry of the Q-table stays within 0..100.            *)
THEOREM Typing == Spec => []TypeOK
<1>1. Init => TypeOK
  <2> SUFFICES ASSUME Init PROVE TypeOK
    OBVIOUS
  <2>1. joined \in BOOLEAN /\ (~ joined => tbl = {})
    BY DEF Init
  <2> QED BY <2>1, AgentAssumption DEF Init, TypeOK, Bins, NumStates, MaxReward
<1>2. TypeOK /\ [Next]_vars => TypeOK'
  <2> SUFFICES ASSUME TypeOK, [Next]_vars PROVE TypeOK'
    OBVIOUS
  <2>1. ASSUME NEW n \in Nbr, NEW l \in Links, ReceiveDio(n, l) PROVE TypeOK'
    <3>1. DioScore(l) \in Nat /\ l.rssi \in Int
      BY ScoresInScale, LinkType
    <3>2. [score EXCEPT ![n] = DioScore(l)] \in [Nbr -> Nat]
      BY <3>1 DEF TypeOK
    <3>3. /\ link' \in [Nbr -> Links] /\ lastRssi' \in [Nbr -> Int]
          /\ tbl' \subseteq Nbr /\ tbl \subseteq tbl' /\ heard' \subseteq tbl'
          /\ joined' = TRUE
          /\ OnDioReceived(n, [score EXCEPT ![n] = DioScore(l)])
      BY <2>1, <3>1 DEF ReceiveDio, TypeOK
    <3> QED BY <3>2, <3>3, CallStep
  <2>2. CASE Panic
    <3>1. pref \in Nbr /\ pref \in tbl
      BY <2>2 DEF Panic, TypeOK
    <3>2. link[pref].rssi \in Int
      BY <3>1, LinkType DEF TypeOK
    <3>3. /\ link' \in [Nbr -> Links] /\ lastRssi' \in [Nbr -> Int]
          /\ tbl' \subseteq Nbr /\ tbl \subseteq tbl' /\ heard' \subseteq tbl'
          /\ joined' = TRUE
          /\ score \in [Nbr -> Nat] /\ OnDioReceived(pref, score)
      BY <2>2, <3>1, <3>2 DEF Panic, TypeOK
    <3> QED BY <3>1, <3>3, CallStep
  <2>3. ASSUME NEW n \in Nbr, NEW l \in Links, Join(n, l) PROVE TypeOK'
    <3>1. DioScore(l) \in Nat
      BY ScoresInScale
    <3> QED BY <2>3, <3>1 DEF Join, TypeOK, memory, table
  <2>4. ASSUME NEW n \in Nbr, Forget(n) PROVE TypeOK'
    BY <2>4 DEF Forget, TypeOK, table, Bins, NumStates, MaxReward
  <2>5. ASSUME NEW n \in Nbr, NEW l \in Links, LinkChange(n, l) PROVE TypeOK'
    BY <2>5 DEF LinkChange, TypeOK, memory, table
  <2>6. ASSUME NEW p \in Nbr \cup {None}, Override(p) PROVE TypeOK'
    BY <2>6 DEF Override, TypeOK, memory, table
  <2>7. ASSUME NEW n \in Nbr, Timeout(n) PROVE TypeOK'
    BY <2>7 DEF Timeout, TypeOK, memory, table
  <2>8. ASSUME NEW d \in Delays, Elapse(d) PROVE TypeOK'
    <3>1. \A a \in 0 .. MaxReward : Lower(a + d, MaxReward) \in 0 .. MaxReward
      BY AgentAssumption DEF Lower, MaxReward
    <3> QED BY <2>8, <3>1 DEF Elapse, TypeOK, table
  <2>9. CASE EndLearning \/ UNCHANGED vars
    BY <2>9 DEF EndLearning, vars, TypeOK, memory, table
  <2> QED BY <2>1, <2>2, <2>3, <2>4, <2>5, <2>6, <2>7, <2>8, <2>9 DEF Next, DioFrom
<1> QED BY <1>1, <1>2, PTL DEF Spec

(* A credit goes to the entry of the parent that is left or kept and moves *)
(* it towards ten times the time since the agent attached to that parent.  *)
THEOREM CreditsAreBounded == Spec => CreditsTowardsReward
<1> DEFINE sa == <<stateS[pref], choice[pref]>>
           Towards == \/ q[sa] < q'[sa] /\ q'[sa] <= 10 * age[pref]
                      \/ q[sa] > q'[sa] /\ q'[sa] >= 10 * age[pref]
           Credit == q' # q => /\ pref \in attached
                              /\ q' = [q EXCEPT ![sa] = q'[sa]]
                              /\ Towards
<1>1. TypeOK /\ [Next]_vars => [Credit]_vars
  <2> SUFFICES ASSUME TypeOK, Next, q' # q PROVE Credit
    OBVIOUS
  <2>1. UpdateQTable
    <3>1. AgentStep
      BY DEF Next, AgentStep, Forget, Timeout, Join, LinkChange, Override, Elapse,
             EndLearning, table
    <3> QED BY <3>1, CallOutcome DEF AgentStep, Panic, DioFrom, ReceiveDio, table
  <2>2. pref \in attached /\ pref \in Nbr
    BY <2>1 DEF UpdateQTable, table, TypeOK
  <2>3. sa \in Bins \X Bins /\ age[pref] \in 0 .. MaxReward
    BY <2>2 DEF TypeOK
  <2>4. q[sa] \in 0 .. 10 * MaxReward /\ q \in [Bins \X Bins -> 0 .. 10 * MaxReward]
    BY <2>3 DEF TypeOK
  <2>5. q' = [q EXCEPT ![sa] = Credited(q[sa], age[pref])]
    BY <2>1, <2>2 DEF UpdateQTable
  <2> HIDE DEF sa
  <2>6. q'[sa] = Credited(q[sa], age[pref]) /\ q' = [q EXCEPT ![sa] = q'[sa]]
    BY <2>3, <2>4, <2>5
  <2>7. q'[sa] # q[sa]
    BY <2>3, <2>4, <2>6
  <2>8. Towards
    <3> DEFINE new == Credited(q[sa], age[pref])
    <3>1. \/ q[sa] <= new /\ new <= 10 * age[pref]
          \/ q[sa] >= new /\ new >= 10 * age[pref]
      BY <2>3, <2>4, CreditBetween
    <3>2. new # q[sa] /\ q'[sa] = new /\ new \in Int /\ q[sa] \in Int
      BY <2>3, <2>4, <2>6, <2>7, CreditBetween
    <3> HIDE DEF new
    <3> QED BY <3>1, <3>2
  <2> QED BY <2>2, <2>6, <2>8
<1> QED BY <1>1, Typing, PTL DEF Spec, CreditsTowardsReward

(* A detached node that still learns takes a parent on the first DIO with  *)
(* a finite rank: the sender's score is positive whatever its link is      *)
(* worth, so the agent has a neighbour to pick, and no neighbour is None.  *)
THEOREM LearningAttaches == Spec => JoinsWhileLearning
<1> DEFINE Attaches ==
      \A n \in Nbr :
        pref = None /\ mode # "production" /\ link'[n].rank # InfiniteRank /\ DioFrom(n)
          => pref' # None
<1>1. TypeOK => [Attaches]_vars
  <2> SUFFICES ASSUME TypeOK, NEW n \in Nbr, NEW l \in Links, ReceiveDio(n, l),
                      pref = None, mode # "production", link'[n].rank # InfiniteRank
               PROVE  pref' # None
    BY DEF DioFrom
  <2> DEFINE sc == [score EXCEPT ![n] = DioScore(l)]
  <2>1. n # pref /\ Recalculated(sc) = sc
    BY AgentAssumption DEF Recalculated
  <2>2. sc[n] # 0
    BY ScoresInScale DEF TypeOK
  <2>3. OnDioReceived(n, sc) /\ n \in heard' /\ heard' \subseteq Nbr
    BY DEF ReceiveDio, TypeOK
  <2> HIDE DEF sc
  <2>4. n \in Usable(sc) /\ Usable(sc) \subseteq Nbr
    BY <2>2, <2>3 DEF Usable, Fresh
  <2>5. Learn(sc)
    BY <2>1, <2>3 DEF OnDioReceived, Triggered, Decide
  <2>6. PICK m \in Usable(sc) : m # pref => Commit(m, sc)
    BY <2>4, <2>5 DEF Learn
  <2>7. m # None
    BY <2>4, AgentAssumption
  <2> QED BY <2>6, <2>7 DEF Commit
<1> QED BY <1>1, Typing, PTL DEF Spec, JoinsWhileLearning
=============================================================================
