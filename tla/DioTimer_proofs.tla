--------------------------- MODULE DioTimer_proofs ---------------------------
(* The timers of rpl-timers.c: the response time and the pace of the        *)
(* Trickle timer, for every setting of its interval, and what the probing   *)
(* timer does to the parents' order, for any number of slots.               *)
EXTENDS DioTimer, Probing, FiniteSetTheorems, WellFoundedInduction, TLAPS

(* What the arithmetic below needs of the state.  A decision that is still  *)
(* to come leaves the timer in its first part, at most the interval; after  *)
(* it the timer runs for at most half.                                      *)
Ranges ==
    /\ exp \in Nat /\ half \in Nat /\ HalfMin <= half
    /\ exp = 0 => half = HalfMin
    /\ left \in Nat /\ nextDelay \in Nat /\ nextDelay <= half
    /\ left <= 2 * half
    /\ ~dioSend => left <= half
    /\ age \in Nat
    /\ gap \in Nat /\ gap <= HalfMin

(* An unanswered inconsistency is in one of three phases: at the minimum    *)
(* before the last decision, in the doubled interval that follows one, or   *)
(* at the minimum after a decision.  What is left of the later phases is    *)
(* part of the bound of the earlier ones.                                   *)
Phase ==
    /\ ~sendOk => dioSend
    /\ sendOk => addressOk
    /\ ~addressOk => age = 0
    /\ waiting =>
         \/ dioSend /\ exp = 0 /\ age + left <= 7 * HalfMin
         \/ dioSend /\ exp > 0 /\ half = 2 * HalfMin /\ age + left <= 5 * HalfMin
         \/ ~dioSend /\ exp = 0 /\ age + left <= HalfMin
    /\ ~waiting => age = 0

(* What is missing of the pause is still to run before a decision.  Only    *)
(* before the first one may the timer be set to less, and no pause is owed. *)
Pause ==
    /\ dioSend => gap + left >= HalfMin
    /\ ~sendOk => gap = HalfMin

Inv == Ranges /\ Phase

(* What a T drawn for an interval of 2 * h can be.                          *)
LEMMA Drawn ==
    ASSUME NEW h \in Nat, NEW t \in h..(2 * h)
    PROVE  t \in Nat /\ h <= t /\ t <= 2 * h /\ 2 * h - t \in Nat /\ 2 * h - t <= h
  OBVIOUS

(* The sums of the pause and of the phases.                                 *)
LEMMA PauseKept == \A g, l, h \in Nat : h <= l => g + l >= h
  OBVIOUS

LEMMA LastPhase ==
    \A a, l, h \in Nat : a <= 5 * h => (l <= 2 * h => a + l <= 7 * h)
  OBVIOUS

LEMMA MiddlePhase ==
    \A a, l, h \in Nat : a <= h => (l <= 4 * h => a + l <= 5 * h)
  OBVIOUS

(* The initial states are in the first phase.                               *)
LEMMA InvInit == Init => Inv /\ Pause
<1> SUFFICES ASSUME Init PROVE Inv /\ Pause
  OBVIOUS
<1>1. /\ left \in Nat /\ HalfMin <= left /\ left <= 2 * HalfMin
      /\ nextDelay \in Nat /\ nextDelay <= HalfMin
  BY IntervalAssumption DEF Init
<1>2. Ranges
  BY <1>1, IntervalAssumption DEF Init, Ranges
<1>3. Phase
  BY <1>1, IntervalAssumption DEF Init, Phase
<1>4. Pause
  BY <1>1, IntervalAssumption DEF Init, Pause
<1> QED
  BY <1>2, <1>3, <1>4 DEF Inv

(* Every handler keeps the ranges and moves an unanswered inconsistency on   *)
(* to a later phase, or back to the first with enough left of its bound.     *)
LEMMA InvStep == Inv /\ [Next]_vars => Inv'
<1> SUFFICES ASSUME Inv, [Next]_vars PROVE Inv'
  OBVIOUS
<1> USE IntervalAssumption DEF Inv, Ranges, Phase
<1>1. CASE Inconsistency
  <2>1. CASE exp > 0
    <3>1. PICK t \in HalfMin..(2 * HalfMin) :
              /\ exp' = 0 /\ half' = HalfMin
              /\ left' = t /\ nextDelay' = 2 * HalfMin - t /\ dioSend'
      BY <1>1, <2>1 DEF Inconsistency, Reset, NewInterval
    <3>2. /\ left' \in Nat /\ left' <= 2 * HalfMin
          /\ nextDelay' \in Nat /\ nextDelay' <= HalfMin
      BY <3>1, Drawn
    <3>3. age <= 5 * HalfMin
      BY <2>1
    <3>4. /\ waiting' /\ addressOk' = addressOk /\ sendOk' = sendOk
          /\ age' \in Nat /\ age' <= 5 * HalfMin /\ gap' = gap
          /\ ~addressOk => age' = 0
      BY <1>1, <3>3 DEF Inconsistency
    <3>5. Ranges'
      BY <3>1, <3>2, <3>4
    <3>6. age' + left' <= 7 * HalfMin
      BY <3>2, <3>4, LastPhase
    <3>7. Phase'
      BY <3>1, <3>4, <3>6
    <3> QED
      BY <3>5, <3>7
  <2>2. CASE ~(exp > 0)
    BY <1>1, <2>2 DEF Inconsistency, Reset, timer
  <2> QED
    BY <2>1, <2>2
<1>2. CASE ConsistentDio
  BY <1>2 DEF ConsistentDio
<1>3. CASE AddressReady
  BY <1>3 DEF AddressReady
<1>4. CASE Postpone
  BY <1>4 DEF Postpone
<1>5. CASE Decide
  BY <1>5 DEF Decide, Ready
<1>6. CASE EndInterval
  <2>1. /\ exp' \in Nat /\ half' \in Nat /\ HalfMin <= half'
        /\ exp' = 0 => half' = HalfMin
        /\ exp = 0 => exp' > 0 /\ half' = 2 * HalfMin
    BY <1>6 DEF EndInterval, Double
  <2>2. /\ left' \in Nat /\ left' <= 2 * half'
        /\ nextDelay' \in Nat /\ nextDelay' <= half'
        /\ dioSend'
    <3>1. PICK t \in half'..(2 * half') :
              left' = t /\ nextDelay' = 2 * half' - t /\ dioSend'
      BY <1>6 DEF EndInterval, NewInterval
    <3> QED
      BY <2>1, <3>1, Drawn
  <2>3. /\ left = 0 /\ ~dioSend /\ sendOk /\ addressOk
    BY <1>6 DEF EndInterval, Ready
  <2>4. /\ sendOk' /\ addressOk' = addressOk /\ waiting' = waiting
        /\ age' \in Nat /\ (waiting => age' <= HalfMin) /\ (~waiting => age' = 0)
        /\ gap' = gap
    BY <1>6, <2>3 DEF EndInterval
  <2>5. Ranges'
    BY <2>1, <2>2, <2>4
  <2>6. waiting => age' + left' <= 5 * HalfMin /\ exp' > 0 /\ half' = 2 * HalfMin
    <3> SUFFICES ASSUME waiting
                 PROVE  age' + left' <= 5 * HalfMin /\ exp' > 0 /\ half' = 2 * HalfMin
      OBVIOUS
    <3>1. exp' > 0 /\ half' = 2 * HalfMin
      BY <2>1, <2>3
    <3>2. age' \in Nat /\ age' <= HalfMin /\ left' \in Nat /\ left' <= 4 * HalfMin
      BY <2>2, <2>4, <3>1
    <3> QED
      BY <3>1, <3>2, MiddlePhase
  <2>7. Phase'
    BY <2>2, <2>3, <2>4, <2>6
  <2> QED
    BY <2>5, <2>7
<1>7. CASE Tick
  BY <1>7 DEF Tick
<1>8. CASE UNCHANGED vars
  BY <1>8 DEF vars
<1> QED
  BY <1>1, <1>2, <1>3, <1>4, <1>5, <1>6, <1>7, <1>8 DEF Next

(* The timer of handle_dio_timer never leaves its three phases.              *)
THEOREM Invariance == Spec => []Inv
<1>1. Init => Inv
  BY InvInit
<1> QED
  BY <1>1, InvStep, PTL DEF Spec

(* A node decides on a DIO within seven halves of the least interval of any *)
(* inconsistency, however many follow it.                                   *)
THEOREM ResponseBounded == Spec => []AnsweredInTime
<1>1. Inv => AnsweredInTime
  BY IntervalAssumption DEF Inv, Ranges, Phase, AnsweredInTime
<1> QED
  BY <1>1, Invariance, PTL

(* Decisions are half of the least interval apart, in any burst.            *)
THEOREM DecisionsPaced == Spec => Paced
<1>1. Inv /\ Pause /\ [Next]_vars => Pause'
  <2> SUFFICES ASSUME Inv, Pause, [Next]_vars PROVE Pause'
    OBVIOUS
  <2> USE IntervalAssumption DEF Inv, Ranges, Pause
  <2>1. CASE Inconsistency
    <3>1. CASE exp > 0
      <4>1. PICK t \in HalfMin..(2 * HalfMin) : left' = t
        BY <2>1, <3>1 DEF Inconsistency, Reset, NewInterval
      <4>2. left' \in Nat /\ HalfMin <= left'
        BY <4>1, Drawn
      <4>3. gap' \in Nat /\ (~sendOk' => gap' = HalfMin)
        BY <2>1 DEF Inconsistency
      <4> QED
        BY <4>2, <4>3, PauseKept
    <3>2. CASE ~(exp > 0)
      BY <2>1, <3>2 DEF Inconsistency, Reset, timer
    <3> QED
      BY <3>1, <3>2
  <2>2. CASE ConsistentDio
    BY <2>2 DEF ConsistentDio
  <2>3. CASE AddressReady
    BY <2>3 DEF AddressReady
  <2>4. CASE Postpone
    BY <2>4 DEF Postpone
  <2>5. CASE Decide
    BY <2>5 DEF Decide
  <2>6. CASE EndInterval
    <3>1. half' \in Nat /\ HalfMin <= half'
      BY <2>6 DEF EndInterval, Double
    <3>2. PICK t \in half'..(2 * half') : left' = t
      BY <2>6 DEF EndInterval, NewInterval
    <3>3. left' \in Nat /\ HalfMin <= left'
      BY <3>1, <3>2, Drawn
    <3>4. gap' \in Nat /\ sendOk'
      BY <2>6 DEF EndInterval
    <3> QED
      BY <3>3, <3>4, PauseKept
  <2>7. CASE Tick
    BY <2>7 DEF Tick
  <2>8. CASE UNCHANGED vars
    BY <2>8 DEF vars
  <2> QED
    BY <2>1, <2>2, <2>3, <2>4, <2>5, <2>6, <2>7, <2>8 DEF Next
<1>2. Inv /\ Pause /\ [Next]_vars
        => [dioSend /\ ~dioSend' => gap >= HalfMin]_vars
  <2> SUFFICES ASSUME Inv, Pause, Next, dioSend, ~dioSend'
               PROVE  gap >= HalfMin
    BY DEF vars
  <2>1. ~Inconsistency /\ ~EndInterval
    BY DEF Inconsistency, Reset, timer, EndInterval, NewInterval
  <2>2. Decide
    BY <2>1 DEF Next, ConsistentDio, AddressReady, Postpone, Tick
  <2> QED
    BY <2>2, IntervalAssumption DEF Decide, Ready, Inv, Ranges, Pause
<1>3. Init => Inv /\ Pause
  BY InvInit
<1> QED
  BY <1>1, <1>2, <1>3, InvStep, PTL DEF Spec, Paced

-----------------------------------------------------------------------------
(* Types.  That 2^n doubles with n is all the arithmetic of ^ that is used; *)
(* none of the provers knows it.                                            *)

PowersDouble == 2^0 = 1 /\ \A n \in 0..Doublings : 2^n \in Nat /\ 2^(n + 1) = 2 * 2^n

Doubled(k) == HalfMin * 2^k

LEMMA Doubling ==
    ASSUME PowersDouble
    PROVE  Doubled(0) = HalfMin /\ \A n \in 0..Doublings : Doubled(n + 1) = 2 * Doubled(n)
<1>1. Doubled(0) = HalfMin
  BY IntervalAssumption DEF Doubled, PowersDouble
<1>2. ASSUME NEW n \in 0..Doublings PROVE Doubled(n + 1) = 2 * Doubled(n)
  <2>1. 2^n \in Nat /\ 2^(n + 1) = 2 * 2^n
    BY DEF PowersDouble
  <2>2. \A a, b \in Nat : a * (2 * b) = 2 * (a * b)
    OBVIOUS
  <2>3. HalfMin * (2 * 2^n) = 2 * (HalfMin * 2^n)
    BY <2>1, <2>2, IntervalAssumption
  <2> QED BY <2>1, <2>3 DEF Doubled
<1> QED BY <1>1, <1>2

Rest ==
    /\ exp \in 0..Doublings /\ half = Doubled(exp)
    /\ dioSend \in BOOLEAN /\ counter \in 0..Redundancy
    /\ addressOk \in BOOLEAN /\ sendOk \in BOOLEAN /\ waiting \in BOOLEAN

LEMMA RestStep == PowersDouble /\ Inv /\ Rest /\ [Next]_vars => Rest'
<1> SUFFICES ASSUME PowersDouble, Inv, Rest, [Next]_vars PROVE Rest'
  OBVIOUS
<1> USE IntervalAssumption
<1>0. ASSUME NEW h, NewInterval(h) PROVE dioSend' = TRUE /\ counter' = 0
  BY <1>0 DEF NewInterval
<1>1. CASE Inconsistency
  <2>1. CASE exp > 0
    <3>1. exp' = 0 /\ half' = HalfMin /\ dioSend' = TRUE /\ counter' = 0
      BY <1>0, <1>1, <2>1 DEF Inconsistency, Reset
    <3>2. half' = Doubled(exp')
      BY <3>1, Doubling
    <3> QED BY <1>1, <3>1, <3>2 DEF Inconsistency, Rest
  <2>2. CASE ~(exp > 0)
    BY <1>1, <2>2 DEF Inconsistency, Reset, timer, Rest
  <2> QED BY <2>1, <2>2
<1>2. CASE ConsistentDio
  BY <1>2 DEF ConsistentDio, Rest
<1>3. CASE AddressReady
  BY <1>3 DEF AddressReady, Rest
<1>4. CASE Postpone
  BY <1>4 DEF Postpone, Rest
<1>5. CASE Decide
  BY <1>5 DEF Decide, Rest
<1>6. CASE EndInterval
  <2>1. dioSend' = TRUE /\ counter' = 0
    BY <1>0, <1>6 DEF EndInterval
  <2>2. exp' \in 0..Doublings /\ half' = Doubled(exp')
    <3>1. CASE exp < Doublings
      <4>1. exp' = exp + 1 /\ half' = 2 * half
        BY <1>6, <3>1 DEF EndInterval, Double
      <4> QED BY <3>1, <4>1, Doubling DEF Rest
    <3>2. CASE ~(exp < Doublings)
      BY <1>6, <3>2 DEF EndInterval, Double, Rest
    <3> QED BY <3>1, <3>2
  <2> QED BY <1>6, <2>1, <2>2 DEF EndInterval, Rest
<1>7. CASE Tick
  BY <1>7 DEF Tick, Rest
<1>8. CASE UNCHANGED vars
  BY <1>8 DEF vars, Rest
<1> QED
  BY <1>1, <1>2, <1>3, <1>4, <1>5, <1>6, <1>7, <1>8 DEF Next

(* Types for any setting of the interval: dio_intcurrent stays within the   *)
(* doublings, the timer within its interval, and dio_send_ok is set no      *)
(* later than the first decision.                                           *)
THEOREM Typing == PowersDouble => (Spec => []TypeOK)
<1> SUFFICES ASSUME PowersDouble PROVE Spec => []TypeOK
  OBVIOUS
<1>1. Init => Rest
  <2> SUFFICES ASSUME Init PROVE Rest
    OBVIOUS
  <2>1. exp \in 0..Doublings /\ counter \in 0..Redundancy
    BY IntervalAssumption DEF Init
  <2>2. half = Doubled(exp)
    BY Doubling DEF Init
  <2>3. dioSend = TRUE /\ sendOk = FALSE /\ waiting = TRUE /\ addressOk \in BOOLEAN
    BY DEF Init
  <2> QED BY <2>1, <2>2, <2>3 DEF Rest
<1>2. Inv /\ Rest => TypeOK
  <2> SUFFICES ASSUME Inv, Rest PROVE TypeOK
    OBVIOUS
  <2>1. half = HalfMin * 2^exp
    BY DEF Rest, Doubled
  <2>2. /\ left \in 0..(2 * half) /\ nextDelay \in 0..half
        /\ age \in Nat /\ gap \in 0..HalfMin
    BY IntervalAssumption DEF Inv, Ranges
  <2> QED BY <2>1, <2>2, Zenon DEF Inv, Phase, Rest, TypeOK
<1> QED BY <1>1, <1>2, Invariance, RestStep, PTL DEF Spec

-----------------------------------------------------------------------------
(* Probing, for any number of slots.                                        *)

LEMMA SlotCount == Cardinality(Slots) \in Nat /\ (\E s : s \in Slots => Cardinality(Slots) >= 1)
  BY SlotsAssumption, FS_CardinalityType, FS_EmptySet

(* A slot that is sent to, or gets a new neighbour, takes the last or the   *)
(* first turn, and those in between move by one: turns stay apart.          *)
LEMMA TurnsShift ==
    ASSUME turn \in Turns, NEW s \in Slots
    PROVE  SentTo(s) \in Turns /\ NeverSent(s) \in Turns
<1> DEFINE N == Cardinality(Slots)
<1>1. N \in Nat
  BY SlotCount
<1>2. /\ turn \in [Slots -> 1..N]
      /\ \A y, z \in Slots : turn[y] = turn[z] => y = z
  BY DEF Turns
<1> HIDE DEF N
<1>3. \A z \in Slots : turn[z] \in 1..N
  BY <1>2
<1>4. SentTo(s) \in Turns
  <2> DEFINE f == SentTo(s)
  <2>1. \A z \in Slots : f[z] = IF z = s THEN N
                                ELSE IF turn[z] > turn[s] THEN turn[z] - 1 ELSE turn[z]
    BY DEF SentTo, N
  <2>2. f = [z \in Slots |-> f[z]]
    BY DEF SentTo
  <2> HIDE DEF f
  <2>3. \A z \in Slots : f[z] \in 1..N
    BY <1>1, <1>3, <2>1
  <2>4. \A y, z \in Slots : f[y] = f[z] => y = z
    BY <1>1, <1>2, <1>3, <2>1
  <2> QED BY <2>2, <2>3, <2>4 DEF Turns, N, f
<1>5. NeverSent(s) \in Turns
  <2> DEFINE f == NeverSent(s)
  <2>1. \A z \in Slots : f[z] = IF z = s THEN 1
                                ELSE IF turn[z] < turn[s] THEN turn[z] + 1 ELSE turn[z]
    BY DEF NeverSent
  <2>2. f = [z \in Slots |-> f[z]]
    BY DEF NeverSent
  <2> HIDE DEF f
  <2>3. \A z \in Slots : f[z] \in 1..N
    BY <1>1, <1>3, <2>1
  <2>4. \A y, z \in Slots : f[y] = f[z] => y = z
    BY <1>1, <1>2, <1>3, <2>1
  <2> QED BY <2>2, <2>3, <2>4 DEF Turns, N, f
<1> QED BY <1>4, <1>5

LEMMA TransmissionType ==
    ASSUME ProbingTypeOK, NEW s \in Slots, Transmission(s)
    PROVE  turn' \in Turns /\ fresh' \subseteq Slots
  BY TurnsShift DEF ProbingTypeOK, Transmission

(* The target of the probing timer is a slot. *)
LEMMA OldestType ==
    ASSUME ProbingTypeOK, par # {}
    PROVE  /\ Oldest \in par
           /\ \A z \in par : turn[Oldest] <= turn[z]
<1> DEFINE T == {turn[z] : z \in par}
           R == OpToRel(<, Nat)
<1>1. T # {} /\ T \subseteq Nat
  BY SlotCount DEF ProbingTypeOK, Turns
<1>2. \A x, y \in Nat : <<y, x>> \in R <=> y < x
  BY DEF OpToRel
<1>3. IsWellFoundedOn(R, Nat)
  BY NatLessThanWellFounded
<1> HIDE DEF T, R
<1>4. PICK x \in T : \A y \in T : ~ (<<y, x>> \in R)
  BY <1>1, <1>3, WFMin, Zenon
<1>5. \A y \in T : x <= y
  <2>1. x \in Nat /\ \A y \in T : y \in Nat
    BY <1>1, <1>4
  <2>2. \A y \in T : ~ (y < x)
    BY <1>2, <1>4, <2>1
  <2> QED BY <2>1, <2>2
<1>6. \E s \in par : \A z \in par : turn[s] <= turn[z]
  <2>1. PICK s \in par : turn[s] = x
    BY <1>4 DEF T
  <2>2. \A z \in par : turn[z] \in T
    BY DEF T
  <2> QED BY <1>5, <2>1, <2>2
<1> QED BY <1>6 DEF Oldest

LEMMA ProbeType ==
    ASSUME ProbingTypeOK, ProbingTimer
    PROVE  \E t \in Slots : Probe(t)
<1>1. CASE ProbeUrgent
  BY <1>1 DEF ProbeUrgent, ProbingTypeOK
<1>2. CASE ProbePreferred
  BY <1>2 DEF ProbePreferred, ParentStale, ProbingTypeOK
<1>3. CASE ProbeStale
  BY <1>3 DEF ProbeStale, ProbingTypeOK
<1>4. CASE ProbeOldest
  BY <1>4, OldestType DEF ProbeOldest, ProbingTypeOK
<1> QED BY <1>1, <1>2, <1>3, <1>4 DEF ProbingTimer

LEMMA ProbingStep == ProbingTypeOK /\ [ProbingNext]_probingVars => ProbingTypeOK'
<1> SUFFICES ASSUME ProbingTypeOK, [ProbingNext]_probingVars PROVE ProbingTypeOK'
  OBVIOUS
<1>1. ASSUME NEW s \in Slots, NEW b \in BOOLEAN, Admit(s, b) PROVE ProbingTypeOK'
  BY <1>1, TurnsShift DEF Admit, ProbingTypeOK
<1>2. ASSUME NEW s \in Slots, Dio(s) \/ CacheDrops(s) \/ Expire(s) PROVE ProbingTypeOK'
  BY <1>2 DEF Dio, CacheDrops, Expire, ProbingTypeOK
<1>3. ASSUME NEW s \in Slots, Transmit(s) PROVE ProbingTypeOK'
  BY <1>3, TransmissionType DEF Transmit, ProbingTypeOK
<1>4. CASE Select
  BY <1>4 DEF Select, SelectParent, BestParents, ProbingTypeOK
<1>5. ASSUME NEW p \in Slots \cup {None}, Override(p) PROVE ProbingTypeOK'
  BY <1>5 DEF Override, ProbingTypeOK
<1>6. CASE ProbingTimer
  <2>1. PICK t \in Slots : Probe(t)
    BY <1>6, ProbeType
  <2>2. turn' \in Turns /\ fresh' \subseteq Slots /\ urgent' \in {urgent, None}
    BY <2>1, TransmissionType DEF Probe, ProbingTypeOK
  <2> QED BY <1>6, <2>2 DEF ProbingTimer, ProbingTypeOK
<1>7. CASE UNCHANGED probingVars
  BY <1>7 DEF probingVars, ProbingTypeOK
<1> QED BY <1>1, <1>2, <1>3, <1>4, <1>5, <1>6, <1>7 DEF ProbingNext

LEMMA ProbingInvariant == ProbingSpec => []ProbingTypeOK
<1>1. ProbingInit => ProbingTypeOK
  BY DEF ProbingInit, ProbingTypeOK
<1> QED BY <1>1, ProbingStep, PTL DEF ProbingSpec

(* The preferred parent is an entry of the table whoever takes slots, while *)
(* the urgent target need not be; every slot has a turn of its own.         *)
THEOREM ProbingTyping == ProbingSpec => []ProbingTypeOK
  BY ProbingInvariant

(* No parent is passed over for ever (get_probing_target): while no         *)
(* neighbour comes, a slot that is not sent to never waits longer, and a    *)
(* probe of the least recently updated parent is of this one or brings it   *)
(* one turn nearer.                                                         *)
NoneAdmitted == \A z \in Slots, b \in BOOLEAN : ~ Admit(z, b)

Advances(s) ==
    /\ turn' = SentTo(s) \/ turn'[s] <= turn[s]
    /\ ProbeOldest /\ ProbingTimer /\ par \subseteq nd /\ s \in par =>
         turn' = SentTo(s) \/ turn'[s] < turn[s]

THEOREM ParentsAdvance ==
    ProbingSpec => [][NoneAdmitted => \A s \in Slots : Advances(s)]_probingVars
<1>1. ASSUME ProbingTypeOK, [ProbingNext]_probingVars
      PROVE  [NoneAdmitted => \A s \in Slots : Advances(s)]_probingVars
  <2> SUFFICES ASSUME ProbingNext, NoneAdmitted, NEW s \in Slots PROVE Advances(s)
    BY <1>1
  <2>1. /\ turn \in [Slots -> 1..Cardinality(Slots)] /\ Cardinality(Slots) \in Nat
        /\ \A y, z \in Slots : turn[y] = turn[z] => y = z
    BY <1>1, SlotCount DEF ProbingTypeOK, Turns
  <2>2. ASSUME NEW t \in Slots, turn' = SentTo(t), t # s
        PROVE  turn'[s] <= turn[s] /\ (turn[t] <= turn[s] => turn'[s] < turn[s])
    BY <2>1, <2>2 DEF SentTo
  <2>3. turn' = turn \/ \E t \in Slots : turn' = SentTo(t)
    <3>1. CASE ProbingTimer
      BY <1>1, <3>1, ProbeType DEF Probe, Transmission
    <3>2. ASSUME NEW z \in Slots, Transmit(z) PROVE turn' = SentTo(z)
      BY <3>2 DEF Transmit, Transmission
    <3> QED BY <1>1, <3>1, <3>2
            DEF ProbingNext, NoneAdmitted, Dio, CacheDrops, Expire, Select, Override
  <2>4. turn' = SentTo(s) \/ turn'[s] <= turn[s]
    BY <2>1, <2>2, <2>3
  <2>5. ASSUME ProbeOldest, ProbingTimer, par \subseteq nd, s \in par
        PROVE  turn' = SentTo(s) \/ turn'[s] < turn[s]
    <3>1. Oldest \in par /\ turn[Oldest] <= turn[s] /\ par \subseteq Slots
      BY <1>1, <2>5, OldestType DEF ProbingTypeOK
    <3>2. turn' = SentTo(Oldest)
      BY <2>5, <3>1 DEF ProbeOldest, Probe, Transmission
    <3> HIDE DEF Oldest
    <3> QED BY <2>2, <3>1, <3>2
  <2> QED BY <2>4, <2>5 DEF Advances
<1> QED BY <1>1, ProbingInvariant, PTL DEF ProbingSpec
=============================================================================
