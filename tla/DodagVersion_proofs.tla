------------------------- MODULE DodagVersion_proofs -------------------------
(* What the lollipop order guarantees about counters that are less than a  *)
(* window apart; and that, while the root does not lose its memory, for    *)
(* any number of nodes and fewer repairs than a lollipop window, no node   *)
(* is ever ahead of it.                                                    *)
EXTENDS DodagVersion, TLAPS

-----------------------------------------------------------------------------
(* The counters *)

(* RPL_LOLLIPOP_INCREMENT keeps a counter inside the byte. *)
LEMMA IncrementType == \A c \in Counter : Increment(c) \in Counter
  BY DEF Counter, Increment, LollipopMax, CircularRegion

(* Advance really is repeated incrementing. *)
LEMMA AdvanceStep ==
  ASSUME NEW c \in Counter, NEW k \in 0 .. SequenceWindows
  PROVE  /\ Advance(c, 0) = c
         /\ Advance(c, k) \in Counter
         /\ Advance(c, k + 1) = Increment(Advance(c, k))
  BY DEF Counter, Advance, Increment, LollipopMax, CircularRegion, SequenceWindows

(* Advancing twice is advancing once, and fewer than two windows of        *)
(* increments never lead to the same counter.                              *)
LEMMA AdvanceInjective ==
  ASSUME NEW c \in Counter, NEW i \in 0 .. SequenceWindows - 1,
         NEW k \in 0 .. SequenceWindows - 1, NEW r \in 0 .. SequenceWindows - 1
  PROVE  Advance(Advance(c, i), k) = Advance(c, r) <=> i + k = r
  BY SMTT(30) DEF Counter, Advance, LollipopMax, CircularRegion, SequenceWindows

(* Within the window the number of increments between two counters can be  *)
(* read off the bytes.                                                     *)
LEMMA DistanceCounts ==
  ASSUME NEW c \in Counter, NEW r \in 0 .. SequenceWindows - 1, NEW i \in 0 .. r
  PROVE  Distance(Advance(c, i), Advance(c, r), r) = r - i
<1>1. /\ i \in 0 .. SequenceWindows - 1 /\ r - i \in 0 .. r
      /\ \A k \in 0 .. r : k \in 0 .. SequenceWindows - 1
      /\ i \in Int /\ r \in Int
  BY DEF SequenceWindows
<1>2. \A k \in 0 .. r : Advance(Advance(c, i), k) = Advance(c, r) <=> i + k = r
  BY <1>1, AdvanceInjective
<1>3. \A k \in 0 .. r : Advance(Advance(c, i), k) = Advance(c, r) <=> k = r - i
  BY <1>1, <1>2
<1> QED BY <1>1, <1>3 DEF Distance

(* Two counters that are fewer than RPL_LOLLIPOP_SEQUENCE_WINDOWS          *)
(* increments apart are ordered by lollipop_greater_than as they were      *)
(* issued, and only that way round, across both wrap-arounds.              *)
THEOREM WindowOrder ==
  ASSUME NEW c \in Counter,
         NEW i \in 0 .. SequenceWindows - 1, NEW j \in 0 .. SequenceWindows - 1
  PROVE  GreaterThan(Advance(c, i), Advance(c, j)) <=> i > j
  BY DEF Counter, Advance, GreaterThan, LollipopMax, CircularRegion, SequenceWindows

(* A root that restarts at RPL_LOLLIPOP_INIT while its network has left    *)
(* the linear region is ahead of and behind any but the first of the       *)
(* circular versions at once: lollipop_greater_than, which the two version *)
(* tests of rpl_process_dio ask in turn, holds both ways round.            *)
THEOREM RestartIsAmbiguous ==
  \A c \in 1 .. CircularRegion :
    GreaterThan(LollipopInit, c) /\ GreaterThan(c, LollipopInit)
  BY DEF GreaterThan, LollipopInit, LollipopMax, CircularRegion, SequenceWindows

-----------------------------------------------------------------------------
(* The protocol *)

(* v is one of the versions the root has issued since it held v0. *)
Issued(v0, v) == \E i \in 0 .. repairs : v = Advance(v0, i)

(* The root holds the last version it issued, and everything anybody else  *)
(* holds or has in the air was issued by the root.                         *)
Lineage(v0) ==
  /\ version[Root] = Advance(v0, repairs)
  /\ \A n \in Nodes : version[n] # NoDag => Issued(v0, version[n])
  /\ \A n \in Nodes : air[n] # NoDag => Issued(v0, air[n])

(* The variables keep their types, whatever is repaired, lost or rebooted. *)
THEOREM Typing == Spec => []TypeOK
<1>1. Init => TypeOK
  BY VersionAssumption DEF Init, TypeOK
<1>2. TypeOK /\ [Next]_vars => TypeOK'
  <2> SUFFICES ASSUME TypeOK, [Next]_vars PROVE TypeOK'
    OBVIOUS
  <2> USE VersionAssumption
  <2>1. \A c \in Counter : Increment(c) \in Counter /\ c # NoDag
    BY IncrementType
  <2>2. CASE RepairRoot
    BY <2>1, <2>2 DEF RepairRoot, TypeOK
  <2>3. CASE RebootRoot
    <3>1. LollipopInit \in Counter
      BY DEF LollipopInit, Counter, LollipopMax, SequenceWindows
    <3> QED BY <2>1, <2>3, <3>1 DEF RebootRoot, TypeOK
  <2>4. ASSUME NEW n \in Nodes, SendDio(n) PROVE TypeOK'
    BY <2>4 DEF SendDio, TypeOK, counts
  <2>5. ASSUME NEW n \in Nodes, RebootNode(n) PROVE TypeOK'
    BY <2>5 DEF RebootNode, TypeOK
  <2>6. ASSUME NEW n \in Nodes, NEW s \in Nodes, ReceiveJoin(n, s) PROVE TypeOK'
    BY <2>6 DEF ReceiveJoin, TypeOK, counts
  <2>7. ASSUME NEW n \in Nodes, NEW s \in Nodes, ReceiveNewer(n, s) PROVE TypeOK'
    BY <2>1, <2>7 DEF ReceiveNewer, TypeOK, counts
  <2>8. CASE UNCHANGED vars
    BY <2>8 DEF vars, TypeOK
  <2> QED BY <2>2, <2>3, <2>4, <2>5, <2>6, <2>7, <2>8 DEF Next, Receive
<1> QED BY <1>1, <1>2, PTL DEF Spec

(* A step that leaves the root its memory leaves the lineage intact. *)
LEMMA LineageStep ==
  ASSUME MaxRepairs < SequenceWindows, TypeOK, [Next]_vars,
         reboots = 0, reboots' = 0, NEW v0 \in Starts, Lineage(v0)
  PROVE  Lineage(v0)'
<1> USE VersionAssumption
<1>0. ~ RebootRoot
  BY DEF RebootRoot
<1>1. repairs \in 0 .. SequenceWindows - 1
  BY DEF TypeOK, SequenceWindows
<1>2. CASE RepairRoot
  <2>1. repairs' = repairs + 1
    BY <1>2 DEF RepairRoot
  <2>2. Advance(v0, repairs + 1) = Increment(Advance(v0, repairs))
    BY <1>1, AdvanceStep DEF SequenceWindows
  <2>3. ASSUME NEW v, Issued(v0, v) PROVE Issued(v0, v)'
    BY <1>1, <2>1, <2>3 DEF Issued, SequenceWindows
  <2>4. /\ version'[Root] = Advance(v0, repairs')
        /\ \A n \in Nodes \ {Root} : version'[n] = version[n]
        /\ air' = air
    BY <1>2, <2>1, <2>2 DEF RepairRoot, Lineage, TypeOK
  <2>5. Issued(v0, version[Root])'
    BY <1>1, <2>1, <2>4 DEF Issued, SequenceWindows
  <2>6. ASSUME NEW n \in Nodes, version'[n] # NoDag
        PROVE  Issued(v0, version[n])'
    <3>1. CASE n = Root
      BY <2>5, <3>1
    <3>2. CASE n # Root
      <4>1. version'[n] = version[n]
        BY <2>4, <3>2
      <4>2. Issued(v0, version[n])
        BY <2>6, <4>1 DEF Lineage
      <4> QED BY <2>1, <4>1, <4>2, <1>1 DEF Issued, SequenceWindows
    <3> QED BY <3>1, <3>2
  <2>7. ASSUME NEW n \in Nodes, air'[n] # NoDag
        PROVE  Issued(v0, air[n])'
    <3>1. Issued(v0, air[n])
      BY <2>4, <2>7 DEF Lineage
    <3> QED BY <2>1, <2>4, <3>1, <1>1 DEF Issued, SequenceWindows
  <2> QED BY <2>4, <2>6, <2>7 DEF Lineage
<1>4. ASSUME NEW n \in Nodes, SendDio(n) PROVE Lineage(v0)'
  BY <1>4 DEF SendDio, counts, Lineage, Issued, TypeOK
<1>5. ASSUME NEW n \in Nodes, RebootNode(n) PROVE Lineage(v0)'
  BY <1>5 DEF RebootNode, Lineage, Issued, TypeOK
<1>6. ASSUME NEW n \in Nodes, NEW s \in Nodes, ReceiveJoin(n, s)
      PROVE  Lineage(v0)'
  BY <1>6 DEF ReceiveJoin, counts, Lineage, Issued, TypeOK
<1>7. ASSUME NEW n \in Nodes, NEW s \in Nodes, ReceiveNewer(n, s)
      PROVE  Lineage(v0)'
  <2>1. PICK i \in 0 .. repairs : air[s] = Advance(v0, i)
    BY <1>7 DEF ReceiveNewer, Lineage, Issued
  <2>2. i \in 0 .. SequenceWindows - 1 /\ ~ (i > repairs)
    BY <1>1 DEF SequenceWindows
  <2>3. ~ GreaterThan(Advance(v0, i), Advance(v0, repairs))
    BY <1>1, <2>2, WindowOrder
  <2>4. n # Root
    BY <1>7, <2>1, <2>3 DEF ReceiveNewer, Lineage
  <2> QED BY <1>7, <2>4 DEF ReceiveNewer, counts, Lineage, Issued, TypeOK
<1>8. CASE UNCHANGED vars
  BY <1>8 DEF vars, Lineage, Issued
<1> QED BY <1>0, <1>2, <1>4, <1>5, <1>6, <1>7, <1>8 DEF Next, Receive

(* The root keeps its memory from the start if it has it now. *)
LEMMA MemoryStep ==
  ASSUME TypeOK, [Next]_vars, reboots' = 0
  PROVE  reboots = 0
  BY VersionAssumption DEF TypeOK, Next, vars, counts, RepairRoot, RebootRoot, SendDio,
     RebootNode, Receive, ReceiveJoin, ReceiveNewer

(* Everything started from one version. *)
LEMMA LineageInit ==
  ASSUME Init
  PROVE  \E v0 \in Starts : version = [n \in Nodes |-> v0] /\ Lineage(v0)
<1>1. PICK v0 \in Starts : version = [n \in Nodes |-> v0]
  BY DEF Init
<1>2. Advance(v0, 0) = v0
  BY VersionAssumption, AdvanceStep DEF SequenceWindows
<1> QED BY <1>1, <1>2, VersionAssumption DEF Init, Lineage, Issued

(* RootIsNewest, for every network: as long as the root keeps its memory   *)
(* and repairs fewer times than the window of lollipop_greater_than, no    *)
(* node and no DIO is ahead of it, so it never has to overtake a version.  *)
THEOREM RootStaysNewest ==
  ASSUME MaxRepairs < SequenceWindows
  PROVE  Spec => []RootIsNewest
<1> USE VersionAssumption
<1> DEFINE IInv == reboots = 0 => \E v0 \in Starts : Lineage(v0)
<1>1. Init => IInv
  BY LineageInit
<1>2. TypeOK /\ IInv /\ [Next]_vars => IInv'
  <2> SUFFICES ASSUME TypeOK, IInv, [Next]_vars, reboots' = 0
               PROVE  \E v0 \in Starts : Lineage(v0)'
    OBVIOUS
  <2>1. reboots = 0
    BY MemoryStep
  <2>2. PICK v0 \in Starts : Lineage(v0)
    BY <2>1
  <2> QED BY <2>1, <2>2, LineageStep
<1>3. TypeOK /\ IInv => RootIsNewest
  <2> SUFFICES ASSUME TypeOK, reboots = 0, NEW v0 \in Starts, Lineage(v0),
                      NEW v, v # NoDag, Issued(v0, v)
               PROVE  v = version[Root] \/ GreaterThan(version[Root], v)
    BY DEF RootIsNewest, Lineage
  <2>1. PICK i \in 0 .. repairs : v = Advance(v0, i)
    BY DEF Issued
  <2>2. /\ repairs \in 0 .. SequenceWindows - 1
        /\ i \in 0 .. SequenceWindows - 1
        /\ i = repairs \/ repairs > i
    BY <2>1 DEF TypeOK, SequenceWindows
  <2> QED BY <2>1, <2>2, WindowOrder DEF Lineage
<1> QED BY <1>1, <1>2, <1>3, Typing, PTL DEF Spec

(* The versions of a network whose root was cycled at versions up to last: *)
(* all in the linear region, and none beyond the top, or the root ahead of *)
(* the others and at most one beyond the top.                              *)
InUse == ({version[n] : n \in Nodes} \cup {air[n] : n \in Nodes}) \ {NoDag}

Linear == LollipopInit - SequenceWindows .. LollipopMax

Top(last) == last + reboots + repairs - 1

Young(last) ==
  /\ InUse \subseteq Linear
  /\ \/ \A v \in InUse : v <= Top(last)
     \/ /\ \A v \in InUse : v <= version[Root]
        /\ version[Root] <= Top(last) + 1

(* In the linear region the lollipop order is that of the numbers.         *)
LEMMA LinearOrder ==
  ASSUME NEW v \in Linear, NEW w \in Linear
  PROVE  /\ v \in Counter
         /\ GreaterThan(v, w) => v > w
         /\ v < LollipopMax => Increment(v) = v + 1
<1>1. v \in 224 .. 255 /\ w \in 224 .. 255
  BY DEF Linear, LollipopInit, LollipopMax, SequenceWindows
<1>2. v \in Counter
  BY <1>1 DEF Counter, LollipopMax
<1>3. GreaterThan(v, w) => v > w
  BY <1>1 DEF GreaterThan, CircularRegion, SequenceWindows
<1>4. v < LollipopMax => Increment(v) = v + 1
  BY <1>1 DEF Increment, CircularRegion, LollipopMax
<1> QED BY <1>2, <1>3, <1>4

(* VersionOrderAsymmetric, for every network: two versions in use are not  *)
(* ahead of each other, even if the root forgets its own (rpl_set_root     *)
(* starts again at RPL_LOLLIPOP_INIT, whatever the others hold), as long   *)
(* as it does so at versions of the linear region, and few enough repairs  *)
(* follow to stay in it.                                                   *)
THEOREM OrderStaysAsymmetric ==
  ASSUME MaxRepairs < SequenceWindows,
         NEW last \in LollipopInit .. LollipopMax,
         Rebootable \subseteq LollipopInit .. last,
         last + MaxReboots + MaxRepairs <= LollipopMax
  PROVE  Spec => []VersionOrderAsymmetric
<1> USE VersionAssumption
<1> DEFINE IInv == \/ reboots = 0 /\ \E v0 \in Starts : Lineage(v0)
                   \/ reboots > 0 /\ Young(last)
<1>1. Init => IInv
  BY LineageInit DEF Init
<1>2. TypeOK /\ TypeOK' /\ IInv /\ [Next]_vars => IInv'
  <2> SUFFICES ASSUME TypeOK, TypeOK', IInv, [Next]_vars PROVE IInv'
    OBVIOUS
  <2>1. /\ reboots \in 0 .. MaxReboots /\ repairs \in 0 .. MaxRepairs
        /\ reboots' \in 0 .. MaxReboots /\ repairs' \in 0 .. MaxRepairs
        /\ MaxRepairs \in Nat /\ MaxReboots \in Nat
        /\ last \in 240 .. 255 /\ last + MaxReboots + MaxRepairs <= 255
    BY DEF TypeOK, LollipopInit, LollipopMax, SequenceWindows
  <2>2. /\ version \in [Nodes -> Counter \cup {NoDag}] /\ version[Root] # NoDag
        /\ air \in [Nodes -> Counter \cup {NoDag}]
    BY DEF TypeOK
  <2>3. CASE reboots = 0 /\ reboots' = 0
    <3>1. PICK v0 \in Starts : Lineage(v0)
      BY <2>3
    <3>2. Lineage(v0)'
      BY <2>3, <3>1, LineageStep
    <3> QED BY <2>3, <3>2
  <2>4. CASE reboots = 0 /\ reboots' # 0
    <3>1. RebootRoot
      BY <2>4 DEF Next, vars, counts, RepairRoot, SendDio, RebootNode, Receive,
                  ReceiveJoin, ReceiveNewer
    <3>2. PICK v0 \in Starts : Lineage(v0)
      BY <2>4
    <3>3. Advance(v0, repairs) \in LollipopInit .. last
      BY <3>1, <3>2 DEF RebootRoot, Lineage
    <3>4. ASSUME NEW i \in 0 .. repairs
          PROVE  Advance(v0, i) \in Linear /\ Advance(v0, i) <= last
      <4>1. v0 \in 0 .. LollipopMax /\ repairs \in 0 .. SequenceWindows - 1
        BY <2>1 DEF Counter, SequenceWindows
      <4> QED BY <2>1, <3>3, <4>1 DEF Advance, Linear, LollipopInit, LollipopMax,
                                      CircularRegion, SequenceWindows
    <3>5. ASSUME NEW v \in InUse' PROVE  v \in Linear /\ v <= last
      <4>1. CASE v = LollipopInit
        BY <2>1, <4>1 DEF Linear, LollipopInit, LollipopMax, SequenceWindows
      <4>2. CASE v \in InUse
        BY <3>2, <3>4, <4>2 DEF InUse, Lineage, Issued
      <4>3. v = LollipopInit \/ v \in InUse
        BY <2>2, <3>1 DEF RebootRoot, InUse
      <4> QED BY <4>1, <4>2, <4>3
    <3>6. reboots' = 1 /\ last <= Top(last)'
      BY <2>1, <2>4, <3>1 DEF RebootRoot, Top
    <3>7. Top(last)' \in Int
      BY <2>1 DEF Top
    <3>8. \A v \in InUse' : v \in Int /\ v <= Top(last)'
      BY <2>1, <3>5, <3>6, <3>7 DEF Linear, LollipopInit, LollipopMax, SequenceWindows
    <3>9. Young(last)'
      BY <3>5, <3>8 DEF Young
    <3> QED BY <3>6, <3>9
  <2>5. CASE reboots > 0
    <3> DEFINE root == version[Root]
               top == Top(last)
    <3>0. Linear = 224 .. 255
      BY DEF Linear, LollipopInit, LollipopMax, SequenceWindows
    <3>1. /\ Young(last) /\ reboots' > 0
          /\ top \in 240 .. 254
      BY <2>1, <2>5 DEF Next, vars, counts, RepairRoot, RebootRoot, SendDio, RebootNode,
                        Receive, ReceiveJoin, ReceiveNewer, Top
    <3>2. root \in InUse
      BY <2>2 DEF InUse
    <3>3. ASSUME NEW v \in InUse
          PROVE  v \in 224 .. 255 /\ v <= top + 1 /\ (v <= top \/ v <= root)
      <4>1. v \in 224 .. 255 /\ root \in 224 .. 255
        BY <3>0, <3>1, <3>2 DEF Young
      <4> QED BY <3>1, <4>1 DEF Young
    \* What a step does to the versions in use.
    <3>4. ASSUME InUse' \subseteq InUse, version'[Root] = root, Top(last)' = top
          PROVE  Young(last)'
      BY <3>1, <3>4 DEF Young
    <3>5. ASSUME InUse' \subseteq InUse \cup {LollipopInit}, Top(last)' = top + 1
          PROVE  Young(last)'
      <4>1. \A v \in InUse' : v \in 224 .. 255 /\ v <= top + 1
        BY <3>1, <3>3, <3>5 DEF LollipopInit, LollipopMax, SequenceWindows
      <4> QED BY <3>0, <3>5, <4>1 DEF Young
    <3>6. CASE RepairRoot
      <4>1. Top(last)' = top + 1 /\ Top(last)' \in 240 .. 254
        BY <2>1, <2>5, <3>6 DEF RepairRoot, Top
      <4>2. root \in 224 .. 254 /\ root <= top + 1
        BY <3>2, <3>3, <4>1
      <4>3. version'[Root] = root + 1
        BY <2>2, <3>6, <4>2, LinearOrder
           DEF RepairRoot, Linear, LollipopInit, LollipopMax, SequenceWindows
      <4>4. InUse' \subseteq InUse \cup {root + 1}
        BY <2>2, <3>6, <4>3 DEF RepairRoot, InUse
      <4>5. \A v \in InUse' : v \in 224 .. 255
        BY <3>3, <4>2, <4>4
      <4>6. \/ \A v \in InUse' : v <= top + 1
            \/ /\ \A v \in InUse' : v <= root + 1
               /\ root + 1 <= top + 2
        <5>1. CASE \A v \in InUse : v <= top
          <6>1. root + 1 <= top + 1 /\ \A v \in InUse : v <= top + 1
            BY <3>1, <3>2, <3>3, <4>2, <5>1
          <6> QED BY <4>4, <6>1
        <5>2. CASE \A v \in InUse : v <= root
          BY <3>1, <3>3, <4>2, <4>4, <5>2
        <5> QED BY <3>1, <5>1, <5>2 DEF Young
      <4>7. Young(last)'
        <5>1. InUse' \subseteq Linear
          BY <3>0, <4>5
        <5>2. CASE \A v \in InUse' : v <= top + 1
          BY <4>1, <5>1, <5>2 DEF Young
        <5>3. CASE (\A v \in InUse' : v <= root + 1) /\ root + 1 <= top + 2
          <6>1. version'[Root] <= Top(last)' + 1
            BY <3>1, <4>1, <4>2, <4>3, <5>3
          <6>2. \A v \in InUse' : v <= version'[Root]
            BY <4>3, <5>3
          <6> QED BY <5>1, <6>1, <6>2 DEF Young
        <5> QED BY <4>6, <5>2, <5>3
      <4> QED BY <3>1, <4>7
    <3>7. CASE RebootRoot
      <4>1. Top(last)' = top + 1
        BY <2>1, <3>7 DEF RebootRoot, Top
      <4>2. InUse' \subseteq InUse \cup {LollipopInit}
        BY <2>2, <3>7 DEF RebootRoot, InUse
      <4> QED BY <3>1, <3>5, <4>1, <4>2
    <3>8. ASSUME UNCHANGED <<repairs, reboots>> PROVE  Top(last)' = top
      BY <3>8 DEF Top
    <3>9. ASSUME NEW n \in Nodes, SendDio(n) PROVE  IInv'
      <4>1. InUse' \subseteq InUse /\ version'[Root] = root /\ Top(last)' = top
        BY <2>2, <3>8, <3>9 DEF SendDio, counts, InUse
      <4> QED BY <3>1, <3>4, <4>1
    <3>10. ASSUME NEW n \in Nodes, RebootNode(n) PROVE  IInv'
      <4>1. InUse' \subseteq InUse /\ version'[Root] = root /\ Top(last)' = top
        BY <2>2, <3>8, <3>10 DEF RebootNode, InUse
      <4> QED BY <3>1, <3>4, <4>1
    <3>11. ASSUME NEW n \in Nodes, NEW s \in Nodes, ReceiveJoin(n, s) PROVE  IInv'
      <4>1. InUse' \subseteq InUse /\ version'[Root] = root /\ Top(last)' = top
        BY <2>2, <3>8, <3>11 DEF ReceiveJoin, counts, InUse
      <4> QED BY <3>1, <3>4, <4>1
    <3>12. ASSUME NEW n \in Nodes \ {Root}, NEW s \in Nodes, ReceiveNewer(n, s) PROVE  IInv'
      <4>1. InUse' \subseteq InUse /\ version'[Root] = root /\ Top(last)' = top
        BY <2>2, <3>8, <3>12 DEF ReceiveNewer, counts, InUse
      <4> QED BY <3>1, <3>4, <4>1
    \* The root overtakes only a version beyond its own.
    <3>13. ASSUME NEW s \in Nodes, ReceiveNewer(Root, s) PROVE  IInv'
      <4> DEFINE heard == air[s]
      <4>1. heard \in InUse /\ Top(last)' = top
        BY <2>2, <3>8, <3>13 DEF ReceiveNewer, counts, InUse
      <4>2. heard \in Linear /\ root \in Linear
        BY <3>1, <3>2, <4>1 DEF Young
      <4>3. heard > root
        BY <3>13, <4>2, LinearOrder DEF ReceiveNewer
      <4>4. heard \in 224 .. 254 /\ heard <= top /\ root \in 224 .. 255
        BY <3>1, <3>2, <3>3, <4>1, <4>3
      <4>5. version'[Root] = heard + 1
        BY <2>2, <3>13, <4>2, <4>4, LinearOrder DEF ReceiveNewer, LollipopMax
      <4>6. InUse' \subseteq InUse \cup {heard + 1}
        BY <2>2, <3>13, <4>5 DEF ReceiveNewer, counts, InUse
      <4>7. \A v \in InUse : v <= top
        BY <3>1, <3>3, <4>1, <4>3, <4>4 DEF Young
      <4>8. \/ \A v \in InUse' : v <= top
            \/ /\ \A v \in InUse' : v <= heard + 1
               /\ heard + 1 <= top + 1
        BY <3>1, <3>3, <4>4, <4>6, <4>7
      <4>9. \A v \in InUse' : v \in 224 .. 255
        BY <3>3, <4>4, <4>6
      <4>10. Young(last)'
        BY <3>0, <4>1, <4>5, <4>8, <4>9 DEF Young
      <4> QED BY <3>1, <4>10
    <3>14. CASE UNCHANGED vars
      <4>1. InUse' \subseteq InUse /\ version'[Root] = root /\ Top(last)' = top
        BY <3>8, <3>14 DEF vars, InUse
      <4> QED BY <3>1, <3>4, <4>1
    <3> QED
      BY <3>1, <3>6, <3>7, <3>9, <3>10, <3>11, <3>12, <3>13, <3>14 DEF Next, Receive
  <2> QED BY <2>1, <2>3, <2>4, <2>5
<1>3. TypeOK /\ IInv => VersionOrderAsymmetric
  <2> SUFFICES ASSUME TypeOK, IInv, NEW m \in Nodes, NEW n \in Nodes,
                      version[m] # NoDag, version[n] # NoDag
               PROVE  ~(/\ GreaterThan(version[m], version[n])
                        /\ GreaterThan(version[n], version[m]))
    BY DEF VersionOrderAsymmetric
  <2>1. CASE reboots = 0 /\ \E v0 \in Starts : Lineage(v0)
    <3>1. PICK v0 \in Starts : Lineage(v0)
      BY <2>1
    <3>2. PICK i \in 0 .. repairs : version[m] = Advance(v0, i)
      BY <3>1 DEF Lineage, Issued
    <3>3. PICK j \in 0 .. repairs : version[n] = Advance(v0, j)
      BY <3>1 DEF Lineage, Issued
    <3>4. i \in 0 .. SequenceWindows - 1 /\ j \in 0 .. SequenceWindows - 1
      BY DEF TypeOK, SequenceWindows
    <3> QED BY <3>2, <3>3, <3>4, WindowOrder
  <2>2. CASE Young(last)
    <3>1. version[m] \in Linear /\ version[n] \in Linear
      BY <2>2 DEF Young, InUse
    <3> QED BY <3>1, LinearOrder DEF Linear, LollipopInit, LollipopMax, SequenceWindows
  <2> QED BY <2>1, <2>2
<1> QED BY <1>1, <1>2, <1>3, Typing, PTL DEF Spec

(* The refinement, for every network: as long as the root remembers, the   *)
(* wrapping bytes order the repairs as unbounded numbers would.            *)
THEOREM VersionsAreEpochs ==
  ASSUME MaxRepairs < SequenceWindows
  PROVE  Spec => RepairsInOrder
<1> USE VersionAssumption
<1> DEFINE IInv == reboots = 0 => \E v0 \in Starts : Lineage(v0)
<1>0. ASSUME NEW v0 \in Starts, NEW r \in 0 .. MaxRepairs, NEW i \in 0 .. r
      PROVE  r - Distance(Advance(v0, i), Advance(v0, r), r) = i
  <2>1. r \in 0 .. SequenceWindows - 1 /\ r \in Int /\ i \in Int
    BY DEF SequenceWindows
  <2> QED BY <2>1, DistanceCounts
<1>1. Init => Epochs!EInit
  <2> SUFFICES ASSUME Init PROVE Epochs!EInit
    OBVIOUS
  <2>1. PICK v0 \in Starts : version = [n \in Nodes |-> v0] /\ Lineage(v0)
    BY LineageInit
  <2>2. EpochOf(v0) = 0
    <3>1. v0 # NoDag /\ Advance(v0, 0) = v0 /\ repairs = 0 /\ version[Root] = v0
      BY <2>1, AdvanceStep DEF SequenceWindows, Init
    <3>2. 0 - Distance(v0, v0, 0) = 0
      BY <1>0, <3>1
    <3> QED BY <3>1, <3>2 DEF EpochOf
  <2> QED BY <2>1, <2>2 DEF Init, Epochs!EInit
<1>2. TypeOK /\ TypeOK' /\ IInv /\ [Next]_vars => [Epochs!ENext]_(Epochs!evars)
  <2> SUFFICES ASSUME TypeOK, TypeOK', IInv, [Next]_vars, reboots' = 0
               PROVE  [Epochs!ENext]_(Epochs!evars)
    BY DEF Epochs!ENext
  <2>1. reboots = 0
    BY MemoryStep
  <2>2. PICK v0 \in Starts : Lineage(v0)
    BY <2>1
  <2>3. Lineage(v0)'
    BY <2>1, <2>2, LineageStep
  <2> DEFINE e == [n \in Nodes |-> EpochOf(version[n])]
             mapped == [n \in Nodes |-> IF reboots = 0 THEN EpochOf(version[n])
                                                       ELSE NoDag]
  <2>4. mapped = e /\ mapped' = e'
    BY <2>1
  \* Every version anybody holds or sends is that of a repair of the root.
  <2>5. ASSUME NEW i \in 0 .. repairs
        PROVE  Advance(v0, i) # NoDag /\ EpochOf(Advance(v0, i)) = i
    <3>1. repairs \in 0 .. MaxRepairs /\ i \in 0 .. SequenceWindows
      BY DEF TypeOK, SequenceWindows
    <3> QED BY <1>0, <2>2, <3>1, AdvanceStep DEF EpochOf, Lineage
  <2>6. ASSUME NEW i \in 0 .. repairs' PROVE EpochOf(Advance(v0, i))' = i
    <3>1. repairs' \in 0 .. MaxRepairs /\ i \in 0 .. SequenceWindows
      BY DEF TypeOK, SequenceWindows
    <3>2. Advance(v0, i) # NoDag
      BY <3>1, AdvanceStep
    <3> QED BY <1>0, <2>3, <3>1, <3>2 DEF EpochOf, Lineage
  <2>7. /\ repairs \in 0 .. MaxRepairs
        /\ version \in [Nodes -> Counter \cup {NoDag}]
        /\ version[Root] # NoDag
        /\ version[Root] = Advance(v0, repairs)
        /\ e[Root] = repairs
    BY <2>2, <2>5 DEF TypeOK, Lineage
  <2>8. CASE RepairRoot
    <3>1. repairs' = repairs + 1 /\ e'[Root] = e[Root] + 1
      BY <2>3, <2>6, <2>7, <2>8 DEF RepairRoot, Lineage
    <3>2. ASSUME NEW n \in Nodes \ {Root} PROVE e'[n] = e[n]
      <4>1. version'[n] = version[n]
        BY <2>7, <2>8, <3>2 DEF RepairRoot
      <4>2. CASE version[n] = NoDag
        BY <4>1, <4>2 DEF EpochOf
      <4>3. CASE version[n] # NoDag
        <5>1. PICK i \in 0 .. repairs : version[n] = Advance(v0, i)
          BY <2>2, <4>3 DEF Lineage, Issued
        <5>2. i \in 0 .. repairs'
          BY <2>7, <3>1
        <5> QED BY <2>5, <2>6, <4>1, <5>1, <5>2
      <4> QED BY <4>2, <4>3
    <3>3. e' = [e EXCEPT ![Root] = @ + 1]
      BY <3>1, <3>2
    <3> QED BY <2>1, <2>4, <3>3 DEF Epochs!ENext, Epochs!Repair
  <2>9. ASSUME repairs' = repairs, version'[Root] = version[Root], NEW v
        PROVE  EpochOf(v)' = EpochOf(v)
    BY <2>9 DEF EpochOf
  <2>10. ASSUME UNCHANGED <<version, repairs, reboots>>
         PROVE  UNCHANGED Epochs!evars
    BY <2>10, <2>9 DEF Epochs!evars
  <2>11. ASSUME NEW n \in Nodes, RebootNode(n)
         PROVE  Epochs!ENext
    <3>1. /\ n # Root /\ repairs' = repairs /\ version'[Root] = version[Root]
          /\ version' = [version EXCEPT ![n] = NoDag]
      BY <2>7, <2>11 DEF RebootNode
    <3>2. e' = [e EXCEPT ![n] = NoDag]
      BY <2>7, <2>9, <3>1 DEF EpochOf
    <3> QED BY <2>1, <2>4, <3>1, <3>2 DEF Epochs!ENext, Epochs!Leave
  <2>12. ASSUME NEW n \in Nodes \ {Root}, NEW i \in 0 .. repairs,
                version[n] # NoDag => i > EpochOf(version[n]),
                version' = [version EXCEPT ![n] = Advance(v0, i)],
                repairs' = repairs
         PROVE  Epochs!ENext
    <3>1. version'[Root] = version[Root]
      BY <2>7, <2>12
    <3>2. e' = [e EXCEPT ![n] = i]
      BY <2>5, <2>7, <2>9, <2>12, <3>1
    <3>3. e[n] # NoDag => i > e[n]
      BY <2>12 DEF EpochOf
    <3>4. /\ n # Root /\ i \in 0 .. mapped[Root]
          /\ mapped[n] # NoDag => i > mapped[n]
          /\ mapped' = [mapped EXCEPT ![n] = i]
      BY <2>4, <2>7, <3>2, <3>3
    <3>5. Epochs!TakePart(n)
      BY <3>4 DEF Epochs!TakePart
    <3> QED BY <2>1, <3>5 DEF Epochs!ENext
  <2>13. ASSUME NEW n \in Nodes, NEW s \in Nodes, ReceiveJoin(n, s)
         PROVE  Epochs!ENext
    <3>1. PICK i \in 0 .. repairs : air[s] = Advance(v0, i)
      BY <2>2, <2>13 DEF ReceiveJoin, Lineage, Issued
    <3> QED BY <2>7, <2>12, <2>13, <3>1 DEF ReceiveJoin, counts
  <2>14. ASSUME NEW n \in Nodes, NEW s \in Nodes, ReceiveNewer(n, s)
         PROVE  Epochs!ENext
    <3>1. PICK i \in 0 .. repairs : air[s] = Advance(v0, i)
      BY <2>2, <2>14 DEF ReceiveNewer, Lineage, Issued
    <3>2. PICK j \in 0 .. repairs : version[n] = Advance(v0, j)
      BY <2>2, <2>14 DEF ReceiveNewer, Lineage, Issued
    <3>3. /\ repairs \in 0 .. SequenceWindows - 1
          /\ i \in 0 .. SequenceWindows - 1 /\ j \in 0 .. SequenceWindows - 1
          /\ ~ (i > repairs)
      BY <2>7 DEF SequenceWindows
    <3>4. i > j
      BY <2>14, <3>1, <3>2, <3>3, WindowOrder DEF ReceiveNewer
    <3>5. n # Root
      BY <2>7, <2>14, <3>1, <3>3, WindowOrder DEF ReceiveNewer
    <3> QED BY <2>5, <2>12, <2>14, <3>1, <3>2, <3>4, <3>5 DEF ReceiveNewer, counts
  <2>15. ASSUME NEW n \in Nodes, SendDio(n) PROVE UNCHANGED Epochs!evars
    BY <2>10, <2>15 DEF SendDio, counts
  <2>16. CASE UNCHANGED vars
    BY <2>10, <2>16 DEF vars
  <2>17. ~ RebootRoot
    BY <2>1 DEF RebootRoot
  <2> QED BY <2>8, <2>11, <2>13, <2>14, <2>15, <2>16, <2>17 DEF Next, Receive
<1>3. IInv /\ TypeOK /\ [Next]_vars => IInv'
  <2> SUFFICES ASSUME TypeOK, IInv, [Next]_vars, reboots' = 0
               PROVE  \E v0 \in Starts : Lineage(v0)'
    OBVIOUS
  <2>1. reboots = 0
    BY MemoryStep
  <2>2. PICK v0 \in Starts : Lineage(v0)
    BY <2>1
  <2> QED BY <2>1, <2>2, LineageStep
<1>4. Init => IInv
  BY LineageInit
<1> QED BY <1>1, <1>2, <1>3, <1>4, Typing, PTL DEF Spec, RepairsInOrder, Epochs!ESpec
=============================================================================
