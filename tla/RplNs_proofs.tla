---------------------------- MODULE RplNs_proofs ----------------------------
(* The root's graph, for any nodes, pool size and lifetimes: a node is on   *)
(* the list once, and an update cuts nobody off.                            *)
EXTENDS RplNs, FiniteSetTheorems, WellFoundedInduction, TLAPS

-----------------------------------------------------------------------------
(* Induction over numbers, by the least counterexample.                     *)
LEMMA LeastOf ==
    ASSUME NEW T, T \subseteq Nat, T # {}
    PROVE  \E x \in T : \A y \in T : x <= y
<1> DEFINE R == OpToRel(<, Nat)
<1>1. \A x, y \in Nat : <<y, x>> \in R <=> y < x
  BY DEF OpToRel
<1>2. IsWellFoundedOn(R, Nat)
  BY NatLessThanWellFounded
<1> HIDE DEF R
<1>3. PICK x \in T : \A y \in T : ~ (<<y, x>> \in R)
  BY <1>2, WFMin, Zenon
<1>4. \A y \in T : ~ (y < x)
  BY <1>1, <1>3
<1>5. \A y \in T : x <= y
  BY <1>4
<1> QED BY <1>5

LEMMA Inductive ==
    ASSUME NEW I, 0 \in I, \A k \in Nat : k \in I => k + 1 \in I
    PROVE  Nat \subseteq I
<1> SUFFICES ASSUME Nat \ I # {} PROVE FALSE
  OBVIOUS
<1>1. PICK x \in Nat \ I : \A y \in Nat \ I : x <= y
  BY LeastOf
<1>2. x - 1 \in Nat /\ x - 1 \notin Nat \ I
  BY <1>1
<1>3. x \in I
  BY <1>2
<1> QED BY <1>3

-----------------------------------------------------------------------------
(* Paths.  Climb follows the pointers of Ladder as often as the pool has    *)
(* slots; it arrives if r lies on every set of slots that holds s and, up   *)
(* to r, the parents of its members: a path of that length has been         *)
(* everywhere.                                                              *)

Places == Slots \cup {Null}

Nodeslots == [id : Nodes \cup {NoNode}, parent : Places, life : 0..Infinite]

Graphs == [pool : [Slots -> Nodeslots], list : SUBSET Slots]

Step(g, z, r) == IF z = r THEN r ELSE Up(g, z)

IsPath(f, g, s, r) ==
    /\ f \in [0..PoolSize -> Places]
    /\ f[0] = s
    /\ \A k \in 0..PoolSize - 1 : f[k + 1] = Step(g, f[k], r)

Closed(S, g, r) == \A y \in S : y # r => Up(g, y) \in S

Leads(g, s, r) == \A S \in SUBSET Places : s \in S /\ Closed(S, g, r) => r \in S

LEMMA Numbers ==
    /\ PoolSize \in Nat \ {0}
    /\ Places = 0..PoolSize /\ Slots \subseteq Places /\ Null \in Places /\ Null \notin Slots
    /\ Infinite \in Nat /\ Lifetime \in 0..Infinite /\ NoPathDelay \in 0..Infinite
  BY RplNsAssumption DEF Places, Slots, Null, Infinite

LEMMA UpType ==
    ASSUME NEW g \in Graphs, NEW s \in Places
    PROVE  Up(g, s) \in Places
<1>1. g.pool \in [Slots -> Nodeslots]
  BY DEF Graphs
<1>2. CASE s = Null
  BY <1>2, Numbers DEF Up
<1>3. CASE s \in Slots
  <2>1. g.pool[s] \in Nodeslots
    BY <1>1, <1>3
  <2> QED BY <1>3, <2>1, Numbers DEF Up, Nodeslots
<1> QED BY <1>2, <1>3 DEF Places

(* There is a path of any length. *)
LEMMA PathExists ==
    ASSUME NEW g \in Graphs, NEW s \in Places, NEW r \in Slots
    PROVE  \E f : IsPath(f, g, s, r)
<1> DEFINE Starts(f, n) == /\ f \in [0..n -> Places]
                           /\ f[0] = s
                           /\ \A k \in 0..n - 1 : f[k + 1] = Step(g, f[k], r)
           I == {n \in Nat : \E f : Starts(f, n)}
<1>1. 0 \in I
  <2>1. Starts([k \in 0..0 |-> s], 0)
    OBVIOUS
  <2> QED BY <2>1
<1>2. ASSUME NEW n \in Nat, n \in I PROVE n + 1 \in I
  <2>1. PICK f : Starts(f, n)
    BY <1>2
  <2> DEFINE h == [k \in 0..n + 1 |-> IF k = n + 1 THEN Step(g, f[n], r) ELSE f[k]]
  <2>2. n \in 0..n /\ f[n] \in Places /\ Step(g, f[n], r) \in Places
    BY <2>1, UpType, Numbers DEF Step
  <2>3. h \in [0..n + 1 -> Places] /\ h[0] = s
    BY <2>1, <2>2
  <2>4. ASSUME NEW k \in 0..n + 1 - 1 PROVE h[k + 1] = Step(g, h[k], r)
    <3>1. CASE k = n
      BY <3>1
    <3>2. CASE k # n
      <4>1. k \in 0..n - 1 /\ k + 1 \in 0..n
        BY <3>2
      <4> QED BY <2>1, <4>1
    <3> QED BY <3>1, <3>2
  <2>5. Starts(h, n + 1)
    BY <2>3, <2>4
  <2> HIDE DEF h, Starts
  <2>6. \E e : Starts(e, n + 1)
    BY <2>5
  <2> QED BY <2>6
<1> HIDE DEF I
<1>3. PoolSize \in I
  BY <1>1, <1>2, Inductive, Numbers
<1> QED BY <1>3 DEF I, IsPath

LEMMA ClimbPath ==
    ASSUME NEW g \in Graphs, NEW s \in Places, NEW r \in Slots
    PROVE  \E f : IsPath(f, g, s, r) /\ Climb(g, s, r) = f[PoolSize]
<1> DEFINE Recurs(f) ==
             f = [k \in 0..PoolSize |->
                    IF k = 0 THEN s
                    ELSE LET z == f[k - 1] IN IF z = r THEN r ELSE Up(g, z)]
           h == CHOOSE f : Recurs(f)
<1>1. PICK f : IsPath(f, g, s, r)
  BY PathExists
<1>2. Recurs(f)
  <2>1. \A k \in 0..PoolSize : k = 0 \/ (k - 1 \in 0..PoolSize - 1 /\ (k - 1) + 1 = k)
    BY Numbers
  <2>2. \A k \in 0..PoolSize : k # 0 => f[k] = Step(g, f[k - 1], r)
    <3> TAKE k \in 0..PoolSize
    <3> HAVE k # 0
    <3>1. f[(k - 1) + 1] = Step(g, f[k - 1], r)
      BY <1>1, <2>1 DEF IsPath
    <3> QED BY <2>1, <3>1
  <2> QED BY <1>1, <2>2 DEF IsPath, Step
<1>3. Recurs(h)
  BY <1>2
<1>4. Climb(g, s, r) = h[PoolSize]
  BY DEF Climb
<1> HIDE DEF h
<1>5. /\ h = [k \in 0..PoolSize |-> h[k]]
      /\ h[0] = s
      /\ \A k \in 0..PoolSize - 1 : h[k + 1] = Step(g, h[k], r)
  <2>1. \A k \in 0..PoolSize - 1 : k + 1 \in 0..PoolSize /\ k + 1 # 0 /\ (k + 1) - 1 = k
    BY Numbers
  <2>2. /\ h = [k \in 0..PoolSize |-> h[k]]
        /\ \A k \in 0..PoolSize : h[k] = IF k = 0 THEN s ELSE Step(g, h[k - 1], r)
    BY <1>3 DEF Step
  <2>3. 0 \in 0..PoolSize
    BY Numbers
  <2>4. \A k \in 0..PoolSize - 1 : h[k + 1] = Step(g, h[(k + 1) - 1], r)
    BY <2>1, <2>2
  <2> QED BY <2>1, <2>2, <2>3, <2>4
<1>6. h = f
  <2> DEFINE I == {n \in Nat : n <= PoolSize => h[n] = f[n]}
  <2>1. 0 \in I
    BY <1>1, <1>5 DEF IsPath
  <2>2. ASSUME NEW n \in Nat, n \in I PROVE n + 1 \in I
    <3> SUFFICES ASSUME n + 1 <= PoolSize PROVE h[n + 1] = f[n + 1]
      OBVIOUS
    <3>1. n \in 0..PoolSize - 1 /\ n <= PoolSize
      BY Numbers
    <3>2. h[n] = f[n]
      BY <2>2, <3>1
    <3> QED BY <1>1, <1>5, <3>1, <3>2 DEF IsPath
  <2> HIDE DEF I
  <2>3. Nat \subseteq I
    BY <2>1, <2>2, Inductive
  <2>4. \A n \in 0..PoolSize : h[n] = f[n]
    BY <2>3 DEF I
  <2> QED BY <1>1, <1>5, <2>4 DEF IsPath
<1> QED BY <1>1, <1>4, <1>6

(* A path that has met r stays there. *)
LEMMA PathStays ==
    ASSUME NEW g \in Graphs, NEW s \in Places, NEW r \in Slots,
           NEW f, IsPath(f, g, s, r), NEW i \in 0..PoolSize, f[i] = r
    PROVE  f[PoolSize] = r
<1> DEFINE I == {d \in Nat : i + d <= PoolSize => f[i + d] = r}
<1>1. 0 \in I
  BY Numbers
<1>2. ASSUME NEW d \in Nat, d \in I PROVE d + 1 \in I
  <2> SUFFICES ASSUME i + (d + 1) <= PoolSize PROVE f[i + (d + 1)] = r
    OBVIOUS
  <2>1. i + d \in 0..PoolSize - 1 /\ i + d <= PoolSize /\ (i + d) + 1 = i + (d + 1)
    BY Numbers
  <2>2. f[i + d] = r
    BY <1>2, <2>1
  <2>3. f[(i + d) + 1] = Step(g, f[i + d], r)
    BY <2>1 DEF IsPath
  <2> QED BY <2>1, <2>2, <2>3 DEF Step
<1> HIDE DEF I
<1>3. PoolSize - i \in I
  BY <1>1, <1>2, Inductive, Numbers
<1>4. i + (PoolSize - i) = PoolSize
  BY Numbers
<1> QED BY <1>3, <1>4, Numbers DEF I

(* A path that avoids r comes back to where it was: there are no more       *)
(* places than the pool has slots.                                          *)
LEMMA PathReturns ==
    ASSUME NEW g \in Graphs, NEW s \in Places, NEW r \in Slots,
           NEW f, IsPath(f, g, s, r), \A k \in 0..PoolSize : f[k] # r
    PROVE  \E m \in 0..PoolSize - 1 : f[PoolSize] = f[m]
<1> DEFINE D == 0..PoolSize
           T == (0..PoolSize) \ {r}
<1>1. /\ IsFiniteSet(D) /\ IsFiniteSet(T)
      /\ Cardinality(T) < Cardinality(D)
  <2>1. IsFiniteSet(D) /\ Cardinality(D) = PoolSize + 1
    BY FS_Interval, Numbers
  <2>2. r \in D
    BY Numbers
  <2>3. IsFiniteSet(T) /\ Cardinality(T) = Cardinality(D) - 1
    BY <2>1, <2>2, FS_RemoveElement
  <2> QED BY <2>1, <2>3, Numbers
<1>2. f \in [D -> T]
  BY Numbers DEF IsPath
<1> HIDE DEF D, T
<1>3. \E x, y \in D : x # y /\ f[x] = f[y]
  BY <1>1, <1>2, FS_PigeonHole
<1>4. PICK i, j \in D : i < j /\ f[i] = f[j]
  <2>1. \A x, y \in D : x \in Nat /\ y \in Nat
    BY Numbers DEF D
  <2>2. \A x, y \in Nat : x # y => x < y \/ y < x
    OBVIOUS
  <2> QED BY <1>3, <2>1, <2>2
<1>5. i \in Nat /\ j \in Nat /\ j <= PoolSize
  BY <1>4, Numbers DEF D
<1> DEFINE I == {d \in Nat : j + d <= PoolSize => f[i + d] = f[j + d]}
<1>6. 0 \in I
  BY <1>4, <1>5
<1>7. ASSUME NEW d \in Nat, d \in I PROVE d + 1 \in I
  <2> SUFFICES ASSUME j + (d + 1) <= PoolSize PROVE f[i + (d + 1)] = f[j + (d + 1)]
    OBVIOUS
  <2>1. /\ i + d \in 0..PoolSize - 1 /\ j + d \in 0..PoolSize - 1 /\ j + d <= PoolSize
        /\ (i + d) + 1 = i + (d + 1) /\ (j + d) + 1 = j + (d + 1)
    BY <1>4, <1>5, Numbers
  <2>2. f[i + d] = f[j + d]
    BY <1>7, <2>1
  <2>3. /\ f[(i + d) + 1] = Step(g, f[i + d], r)
        /\ f[(j + d) + 1] = Step(g, f[j + d], r)
    BY <2>1 DEF IsPath
  <2> QED BY <2>1, <2>2, <2>3
<1> HIDE DEF I
<1>8. PoolSize - j \in Nat /\ PoolSize - j \in I
  BY <1>5, <1>6, <1>7, Inductive, Numbers
<1>9. /\ j + (PoolSize - j) = PoolSize
      /\ i + (PoolSize - j) \in 0..PoolSize - 1
  BY <1>4, <1>5, Numbers
<1>10. f[i + (PoolSize - j)] = f[j + (PoolSize - j)]
  BY <1>5, <1>8, <1>9, Numbers DEF I
<1> QED BY <1>9, <1>10

LEMMA ClimbLeads ==
    ASSUME NEW g \in Graphs, NEW s \in Places, NEW r \in Slots
    PROVE  Climb(g, s, r) = r <=> Leads(g, s, r)
<1>1. PICK f : IsPath(f, g, s, r) /\ Climb(g, s, r) = f[PoolSize]
  BY ClimbPath
<1>2. ASSUME f[PoolSize] = r, NEW S \in SUBSET Places, s \in S, Closed(S, g, r)
      PROVE  r \in S
  <2> DEFINE I == {n \in Nat : n <= PoolSize => f[n] \in S}
  <2>1. 0 \in I
    BY <1>1, <1>2 DEF IsPath
  <2>2. ASSUME NEW n \in Nat, n \in I PROVE n + 1 \in I
    <3> SUFFICES ASSUME n + 1 <= PoolSize PROVE f[n + 1] \in S
      OBVIOUS
    <3>1. n \in 0..PoolSize - 1 /\ n <= PoolSize
      BY Numbers
    <3>2. f[n] \in S
      BY <2>2, <3>1
    <3>3. f[n + 1] = Step(g, f[n], r)
      BY <1>1, <3>1 DEF IsPath
    <3> QED BY <1>2, <3>2, <3>3 DEF Step, Closed
  <2> HIDE DEF I
  <2>3. PoolSize \in I
    BY <2>1, <2>2, Inductive, Numbers
  <2> QED BY <1>2, <2>3, Numbers DEF I
<1>3. ASSUME f[PoolSize] # r
      PROVE  ~ Leads(g, s, r)
  <2> DEFINE S == {f[k] : k \in 0..PoolSize}
  <2>1. \A k \in 0..PoolSize : f[k] # r
    BY <1>1, <1>3, PathStays
  <2>2. PICK m \in 0..PoolSize - 1 : f[PoolSize] = f[m]
    BY <1>1, <2>1, PathReturns
  <2>3. S \in SUBSET Places /\ s \in S /\ r \notin S
    <3>1. \A k \in 0..PoolSize : f[k] \in Places
      BY <1>1 DEF IsPath
    <3>2. 0 \in 0..PoolSize /\ f[0] = s
      BY <1>1, Numbers DEF IsPath
    <3>3. r \notin S
      BY <2>1
    <3> QED BY <3>1, <3>2, <3>3
  <2>4. ASSUME NEW k \in 0..PoolSize - 1 PROVE Up(g, f[k]) \in S
    <3>1. k \in 0..PoolSize /\ k + 1 \in 0..PoolSize
      BY Numbers
    <3>2. f[k + 1] = Up(g, f[k])
      BY <1>1, <2>1, <3>1 DEF IsPath, Step
    <3> QED BY <3>1, <3>2
  <2>5. ASSUME NEW k \in 0..PoolSize PROVE Up(g, f[k]) \in S
    <3>1. k \in 0..PoolSize - 1 \/ k = PoolSize
      BY Numbers
    <3> QED BY <2>2, <2>4, <3>1
  <2>6. Closed(S, g, r)
    BY <2>5 DEF Closed
  <2> QED BY <2>3, <2>6 DEF Leads
<1> QED BY <1>1, <1>2, <1>3 DEF Leads

-----------------------------------------------------------------------------
(* Graphs.  What an operation of rpl-ns.c does to the list and the pointers *)
(* decides who stays reachable.                                             *)

(* A node is on the list once. *)
Sound(g) ==
    /\ g \in Graphs
    /\ \A s, z \in g.list : g.pool[s].id = g.pool[z].id => s = z

(* No pointer of the list leads off the list. *)
Tied(g) == \A s \in g.list : g.pool[s].parent \in g.list \cup {Null}

LEMMA GraphParts ==
    ASSUME NEW g \in Graphs
    PROVE  /\ g.list \subseteq Slots
           /\ \A s \in Slots : /\ g.pool[s] \in Nodeslots
                               /\ g.pool[s].id \in Nodes \cup {NoNode}
                               /\ g.pool[s].parent \in Places
                               /\ g.pool[s].life \in 0..Infinite
           /\ g.pool \in [Slots -> Nodeslots]
           /\ g = [pool |-> g.pool, list |-> g.list]
  BY DEF Graphs, Nodeslots

LEMMA NodeOfType ==
    ASSUME NEW g, Sound(g), NEW n \in Nodes
    PROVE  /\ NodeOf(g, n) \in g.list \cup {Null} /\ NodeOf(g, n) \in Places
           /\ NodeOf(g, n) # Null => NodeOf(g, n) \in g.list /\ g.pool[NodeOf(g, n)].id = n
           /\ \A s \in g.list : g.pool[s].id = n => NodeOf(g, n) = s
           /\ NodeOf(g, n) = Null => \A s \in g.list : g.pool[s].id # n
<1>0. g.list \subseteq Slots
  BY GraphParts DEF Sound
<1>1. CASE \E s \in g.list : g.pool[s].id = n
  <2>1. NodeOf(g, n) \in g.list /\ g.pool[NodeOf(g, n)].id = n
    BY <1>1 DEF NodeOf
  <2>2. \A s \in g.list : g.pool[s].id = n => NodeOf(g, n) = s
    BY <2>1 DEF Sound
  <2> QED BY <1>0, <2>1, <2>2, Numbers
<1>2. CASE ~ \E s \in g.list : g.pool[s].id = n
  <2>1. NodeOf(g, n) = Null
    BY <1>2 DEF NodeOf
  <2> QED BY <1>2, <2>1, Numbers
<1> QED BY <1>1, <1>2

LEMMA ReachableLeads ==
    ASSUME NEW g, Sound(g), NEW n \in Nodes
    PROVE  Reachable(g, n) <=>
             /\ NodeOf(g, n) # Null /\ NodeOf(g, Root) # Null
             /\ Leads(g, NodeOf(g, n), NodeOf(g, Root))
<1> DEFINE s == NodeOf(g, n)
           r == NodeOf(g, Root)
<1>1. Reachable(g, n) <=> s # Null /\ r # Null /\ Climb(g, s, r) = r
  BY DEF Reachable
<1>2. s \in Places /\ (r = Null \/ r \in Slots) /\ g \in Graphs
  BY NodeOfType, GraphParts, RplNsAssumption DEF Sound
<1> HIDE DEF s, r
<1>3. r \in Slots => (Climb(g, s, r) = r <=> Leads(g, s, r))
  BY <1>2, ClimbLeads
<1> QED BY <1>1, <1>2, <1>3 DEF s, r

(* An operation that leaves names and pointers on the list as they are      *)
(* keeps everyone reachable.                                                *)
LEMMA KeptByGrowing ==
    ASSUME NEW g, Sound(g), Tied(g), NEW h, Sound(h),
           g.list \subseteq h.list,
           \A s \in g.list : /\ h.pool[s].id = g.pool[s].id
                             /\ h.pool[s].parent = g.pool[s].parent,
           NEW n \in Nodes, Reachable(g, n)
    PROVE  Reachable(h, n)
<1> DEFINE s == NodeOf(g, n)
           r == NodeOf(g, Root)
<1>1. s # Null /\ r # Null /\ Leads(g, s, r) /\ s \in g.list /\ r \in g.list
  BY ReachableLeads, NodeOfType, RplNsAssumption
<1>2. NodeOf(h, n) = s /\ NodeOf(h, Root) = r
  <2>1. g.pool[s].id = n /\ g.pool[r].id = Root
    BY <1>1, NodeOfType, RplNsAssumption
  <2> HIDE DEF s, r
  <2> QED BY <1>1, <2>1, NodeOfType, RplNsAssumption
<1> HIDE DEF s, r
<1>3. ASSUME NEW S \in SUBSET Places, s \in S, Closed(S, h, r) PROVE r \in S
  <2> DEFINE T == S \cap (g.list \cup {Null})
  <2>1. ASSUME NEW y \in T, y # r PROVE Up(g, y) \in T
    <3>1. CASE y = Null
      BY <3>1 DEF Up
    <3>2. CASE y \in g.list /\ y # Null
      <4>1. Up(h, y) \in S /\ Up(h, y) = Up(g, y) /\ Up(g, y) = g.pool[y].parent
        BY <1>3, <2>1, <3>2 DEF Closed, Up
      <4> QED BY <3>2, <4>1 DEF Tied
    <3> QED BY <3>1, <3>2
  <2>2. T \in SUBSET Places /\ s \in T /\ Closed(T, g, r)
    BY <1>1, <1>3, <2>1 DEF Closed
  <2>3. r \in T
    BY <1>1, <2>2 DEF Leads
  <2> QED BY <2>3
<1>4. Leads(h, s, r)
  BY <1>3 DEF Leads
<1> QED BY <1>1, <1>2, <1>4, ReachableLeads

(* memb_alloc gives a slot off the list. *)
LEMMA FreeSlotType ==
    ASSUME NEW g \in Graphs
    PROVE  FreeSlot(g) = Null \/ FreeSlot(g) \in Slots \ g.list
<1> DEFINE Free == Slots \ g.list
<1>1. CASE g.list = Slots
  BY <1>1 DEF FreeSlot
<1>2. CASE g.list # Slots
  <2>1. Free # {} /\ Free \subseteq Nat
    <3>1. g.list \subseteq Slots
      BY GraphParts
    <3>2. \E z \in Slots : z \notin g.list
      <4>1. ~ (Slots \subseteq g.list)
        BY <1>2, <3>1, Zenon
      <4> QED BY <4>1
    <3>3. Slots \subseteq Nat
      BY Numbers DEF Slots
    <3> QED BY <3>2, <3>3
  <2>2. \E s \in Free : \A z \in Free : s <= z
    <3> HIDE DEF Free
    <3> QED BY <2>1, LeastOf
  <2> QED BY <1>2, <2>2 DEF FreeSlot
<1> QED BY <1>1, <1>2

(* A node is added only if it is not on the list, and at the end of it.     *)
LEMMA AdoptedKeeps ==
    ASSUME NEW g, Sound(g), NEW n \in Nodes, NEW life \in 0..Infinite
    PROVE  /\ Sound(Adopted(g, n, life))
           /\ g.list \subseteq Adopted(g, n, life).list
           /\ \A s \in g.list : Adopted(g, n, life).pool[s] = g.pool[s]
           /\ Tied(g) => Tied(Adopted(g, n, life))
<1> DEFINE h == Adopted(g, n, life)
           s == FreeSlot(g)
           entry == [id |-> n, parent |-> Null, life |-> life]
<1>0. g \in Graphs
  BY DEF Sound
<1>1. CASE NodeOf(g, n) # Null \/ s = Null
  <2>1. h = g
    BY <1>1 DEF Adopted
  <2> QED BY <2>1, Zenon
<1>2. CASE NodeOf(g, n) = Null /\ s # Null
  <2>1. h = [pool |-> [g.pool EXCEPT ![s] = entry], list |-> g.list \cup {s}]
    BY <1>2 DEF Adopted, Added
  <2>2. s \in Slots /\ s \notin g.list
    BY <1>0, <1>2, FreeSlotType
  <2>3. entry \in Nodeslots /\ entry.id = n /\ entry.parent = Null
    BY Numbers DEF Nodeslots
  <2> HIDE DEF h, s, entry
  <2>4. h.list = g.list \cup {s} /\ h.pool = [g.pool EXCEPT ![s] = entry]
    BY <2>1
  <2>5. /\ h.pool \in [Slots -> Nodeslots] /\ h.list \subseteq Slots
        /\ h.pool[s] = entry
        /\ \A z \in g.list : h.pool[z] = g.pool[z]
    BY <1>0, <2>2, <2>3, <2>4, GraphParts
  <2>6. h \in Graphs
    BY <2>1, <2>4, <2>5 DEF Graphs
  <2>7. \A z \in g.list : g.pool[z].id # n
    BY <1>2, NodeOfType
  <2>8. Sound(h)
    BY <2>3, <2>4, <2>5, <2>6, <2>7 DEF Sound
  <2>9. Tied(g) => Tied(h)
    BY <2>3, <2>4, <2>5 DEF Tied
  <2> QED BY <2>4, <2>5, <2>8, <2>9 DEF h
<1> QED BY <1>1, <1>2

LEMMA RenewedKeeps ==
    ASSUME NEW g, Sound(g), NEW n \in Nodes, NodeOf(g, n) # Null
    PROVE  /\ Sound(Renewed(g, n))
           /\ Renewed(g, n).list = g.list
           /\ \A s \in Slots : /\ Renewed(g, n).pool[s].id = g.pool[s].id
                               /\ Renewed(g, n).pool[s].parent = g.pool[s].parent
           /\ Tied(g) => Tied(Renewed(g, n))
<1> DEFINE h == Renewed(g, n)
           x == NodeOf(g, n)
<1>1. x \in g.list /\ x \in Slots /\ g \in Graphs
  BY NodeOfType, GraphParts DEF Sound
<1>2. h = [g EXCEPT !.pool[x].life = Lifetime]
  BY DEF Renewed
<1> HIDE DEF h, x
<1>3. /\ h.list = g.list
      /\ h.pool = [g.pool EXCEPT ![x].life = Lifetime]
      /\ h = [pool |-> h.pool, list |-> h.list]
  <2>1. g = [pool |-> g.pool, list |-> g.list]
    BY <1>1, GraphParts
  <2> QED BY <1>2, <2>1
<1>4. \A s \in Slots : /\ h.pool[s].id = g.pool[s].id
                       /\ h.pool[s].parent = g.pool[s].parent
                       /\ h.pool[s] \in Nodeslots
  <2> TAKE s \in Slots
  <2>1. g.pool[s] \in Nodeslots /\ g.pool \in [Slots -> Nodeslots]
    BY <1>1, GraphParts
  <2>2. h.pool[s] = IF s = x THEN [g.pool[s] EXCEPT !.life = Lifetime] ELSE g.pool[s]
    BY <1>3, <2>1
  <2> QED BY <2>1, <2>2, Numbers DEF Nodeslots
<1>5. h.pool \in [Slots -> Nodeslots]
  BY <1>1, <1>3, <1>4, GraphParts
<1>6. h \in Graphs /\ h.list \subseteq Slots
  BY <1>1, <1>3, <1>5, GraphParts DEF Graphs
<1> QED BY <1>3, <1>4, <1>6 DEF Sound, Tied, h

LEMMA RelinkedKeeps ==
    ASSUME NEW g, Sound(g), NEW n \in Nodes, NEW p \in Nodes, NodeOf(g, n) # Null
    PROVE  /\ Sound(Relinked(g, n, p))
           /\ Relinked(g, n, p).list = g.list
           /\ \A s \in Slots : /\ Relinked(g, n, p).pool[s].id = g.pool[s].id
                               /\ s # NodeOf(g, n) =>
                                    Relinked(g, n, p).pool[s].parent = g.pool[s].parent
<1> DEFINE h == Relinked(g, n, p)
           x == NodeOf(g, n)
           y == NodeOf(g, p)
<1>1. x \in g.list /\ x \in Slots /\ g \in Graphs /\ y \in Places
  BY NodeOfType, GraphParts DEF Sound
<1>2. h = [g EXCEPT !.pool[x].parent = y]
  BY DEF Relinked
<1> HIDE DEF h, x, y
<1>3. /\ h.list = g.list
      /\ h.pool = [g.pool EXCEPT ![x].parent = y]
      /\ h = [pool |-> h.pool, list |-> h.list]
  BY <1>1, <1>2, GraphParts
<1>4. \A s \in Slots : /\ h.pool[s].id = g.pool[s].id
                       /\ s # x => h.pool[s].parent = g.pool[s].parent
                       /\ h.pool[s] \in Nodeslots
  BY <1>1, <1>3, GraphParts DEF Nodeslots
<1>5. h.pool \in [Slots -> Nodeslots]
  BY <1>1, <1>3, <1>4, GraphParts
<1>6. h \in Graphs /\ h.list \subseteq Slots
  BY <1>1, <1>3, <1>5, GraphParts DEF Graphs
<1> QED BY <1>3, <1>4, <1>6 DEF Sound, h, x

(* The parent of n changes.  A way to the root that does not pass n is as   *)
(* it was; one that does goes on from n as n's does now, unless n could not *)
(* be reached before, and then no way passed it.                            *)
LEMMA LinkedKeeps ==
    ASSUME NEW g, Sound(g), NEW n \in Nodes, NEW p \in Nodes, NodeOf(g, n) # Null
    PROVE  /\ Sound(Linked(g, n, p))
           /\ Linked(g, n, p).list = g.list
           /\ \A m \in Nodes : Reachable(g, m) => Reachable(Linked(g, n, p), m)
<1> DEFINE h == Relinked(g, n, p)
           x == NodeOf(g, n)
           r == NodeOf(g, Root)
<1>1. CASE Reachable(g, n) /\ ~ Reachable(h, n)
  BY <1>1 DEF Linked
<1>2. CASE ~ (Reachable(g, n) /\ ~ Reachable(h, n))
  <2>1. Linked(g, n, p) = h
    BY <1>2 DEF Linked
  <2>2. /\ Sound(h) /\ h.list = g.list
        /\ \A s \in Slots : /\ h.pool[s].id = g.pool[s].id
                            /\ s # x => h.pool[s].parent = g.pool[s].parent
    BY RelinkedKeeps
  <2> HIDE DEF h
  <2>3. \A m \in Nodes : NodeOf(h, m) = NodeOf(g, m)
    <3> TAKE m \in Nodes
    <3>1. g.list \subseteq Slots
      BY GraphParts DEF Sound
    <3>2. CASE NodeOf(g, m) # Null
      BY <2>2, <3>1, <3>2, NodeOfType
    <3>3. CASE NodeOf(g, m) = Null
      BY <2>2, <3>1, <3>3, NodeOfType
    <3> QED BY <3>2, <3>3
  <2>4. ASSUME NEW m \in Nodes, Reachable(g, m) PROVE Reachable(h, m)
    <3> DEFINE s == NodeOf(g, m)
    <3>1. s # Null /\ r # Null /\ Leads(g, s, r)
      BY <2>4, ReachableLeads
    <3>2. NodeOf(h, m) = s /\ NodeOf(h, Root) = r /\ NodeOf(h, n) = x
      BY <2>3, RplNsAssumption
    <3>3. ASSUME NEW S \in SUBSET Places, s \in S, Closed(S, h, r), r \notin S PROVE FALSE
      <4> HIDE DEF s, r, x
      <4>1. \A y \in S : y # x => Up(h, y) = Up(g, y)
        BY <2>2 DEF Up, Places
      <4>2. x \in S
        <5> SUFFICES ASSUME x \notin S PROVE FALSE
          OBVIOUS
        <5>1. Closed(S, g, r)
          BY <3>3, <4>1 DEF Closed
        <5> QED BY <3>1, <3>3, <5>1 DEF Leads
      <4>3. ~ Reachable(h, n)
        <5>1. ~ Leads(h, x, r)
          BY <3>3, <4>2 DEF Leads
        <5> QED BY <2>2, <3>2, <5>1, ReachableLeads
      <4>4. ~ Reachable(g, n)
        BY <1>2, <4>3 DEF h
      <4>5. ~ Leads(g, x, r)
        BY <3>1, <4>4, ReachableLeads DEF x, r
      <4>6. PICK B \in SUBSET Places : x \in B /\ Closed(B, g, r) /\ r \notin B
        BY <4>5 DEF Leads
      <4>7. Closed(S \cup B, g, r)
        BY <3>3, <4>1, <4>6 DEF Closed
      <4>8. S \cup B \in SUBSET Places /\ s \in S \cup B /\ r \notin S \cup B
        BY <3>3, <4>6
      <4> QED BY <3>1, <4>7, <4>8 DEF Leads
    <3>4. Leads(h, s, r)
      BY <3>3 DEF Leads
    <3> QED BY <2>2, <3>1, <3>2, <3>4, ReachableLeads
  <2> QED BY <2>1, <2>2, <2>4
<1> QED BY <1>1, <1>2

-----------------------------------------------------------------------------
(* Steps *)

GraphInv == Sound(Graph)

LEMMA GraphFields == Graph.pool = slot /\ Graph.list = used
  BY DEF Graph

(* The whole of rpl_ns_update_node, whatever room there is. *)
LEMMA DaoKeeps ==
    ASSUME GraphInv, NEW n \in Others, NEW p \in Nodes, Dao(n, p)
    PROVE  /\ Sound(Graph')
           /\ Tied(Graph) => \A m \in Nodes : Reachable(Graph, m) => Reachable(Graph', m)
<1> DEFINE gp == Adopted(Graph, p, Infinite)
           gn == IF NodeOf(gp, p) = Null THEN gp ELSE Adopted(gp, n, Lifetime)
           gr == IF Complete(gn, n, p) THEN Renewed(gn, n) ELSE gn
           gl == IF Complete(gr, n, p) THEN Linked(gr, n, p) ELSE gr
<1>1. n \in Nodes /\ p \in Nodes /\ Sound(Graph)
  BY DEF Others, GraphInv
<1>2. slot' = gl.pool /\ used' = gl.list
  BY DEF Dao
<1>3. /\ Sound(gp)
      /\ Tied(Graph) => Tied(gp)
      /\ Tied(Graph) => \A m \in Nodes : Reachable(Graph, m) => Reachable(gp, m)
  <2>1. /\ Sound(gp)
        /\ Tied(Graph) => Tied(gp)
        /\ Graph.list \subseteq gp.list
        /\ \A s \in Graph.list : gp.pool[s] = Graph.pool[s]
    BY <1>1, AdoptedKeeps, Numbers
  <2> HIDE DEF gp
  <2> QED BY <1>1, <2>1, KeptByGrowing
<1> HIDE DEF gp
<1>4. /\ Sound(gn)
      /\ Tied(gp) => Tied(gn)
      /\ Tied(gp) => \A m \in Nodes : Reachable(gp, m) => Reachable(gn, m)
  <2> DEFINE h == Adopted(gp, n, Lifetime)
  <2>1. /\ Sound(h)
        /\ Tied(gp) => Tied(h)
        /\ gp.list \subseteq h.list
        /\ \A s \in gp.list : h.pool[s] = gp.pool[s]
    BY <1>1, <1>3, AdoptedKeeps, Numbers
  <2> HIDE DEF h
  <2>2. Tied(gp) => \A m \in Nodes : Reachable(gp, m) => Reachable(h, m)
    BY <1>3, <2>1, KeptByGrowing
  <2>3. gn = gp \/ gn = h
    BY DEF gn, h
  <2> HIDE DEF gn
  <2> QED BY <1>3, <2>1, <2>2, <2>3
<1> HIDE DEF gn
<1>5. /\ Sound(gr)
      /\ Tied(gn) => \A m \in Nodes : Reachable(gn, m) => Reachable(gr, m)
  <2>1. CASE ~ Complete(gn, n, p)
    BY <1>4, <2>1
  <2>2. CASE Complete(gn, n, p)
    <3> DEFINE h == Renewed(gn, n)
    <3>1. NodeOf(gn, n) # Null
      BY <2>2 DEF Complete
    <3>2. /\ Sound(h) /\ h.list = gn.list
          /\ \A s \in Slots : /\ h.pool[s].id = gn.pool[s].id
                              /\ h.pool[s].parent = gn.pool[s].parent
      BY <1>1, <1>4, <3>1, RenewedKeeps
    <3> HIDE DEF h
    <3>3. gn.list \subseteq Slots
      BY <1>4, GraphParts DEF Sound
    <3>4. Tied(gn) => \A m \in Nodes : Reachable(gn, m) => Reachable(h, m)
      BY <1>4, <3>2, <3>3, KeptByGrowing
    <3>5. gr = h
      BY <2>2 DEF gr, h
    <3> HIDE DEF gr
    <3> QED BY <3>2, <3>4, <3>5
  <2> QED BY <2>1, <2>2
<1> HIDE DEF gr
<1>6. /\ Sound(gl)
      /\ \A m \in Nodes : Reachable(gr, m) => Reachable(gl, m)
  <2>1. CASE ~ Complete(gr, n, p)
    BY <1>5, <2>1
  <2>2. CASE Complete(gr, n, p)
    <3>1. NodeOf(gr, n) # Null
      BY <2>2 DEF Complete
    <3>2. gl = Linked(gr, n, p)
      BY <2>2
    <3> HIDE DEF gl
    <3> QED BY <1>1, <1>5, <3>1, <3>2, LinkedKeeps
  <2> QED BY <2>1, <2>2
<1> HIDE DEF gl
<1>7. Graph' = gl
  <2>1. gl = [pool |-> gl.pool, list |-> gl.list]
    BY <1>6, GraphParts DEF Sound
  <2> QED BY <1>2, <2>1 DEF Graph
<1> QED BY <1>3, <1>4, <1>5, <1>6, <1>7

(* What other steps leave of the graph: all but lifetimes, or a sweep frees *)
(* a slot.                                                                  *)
SameLinks ==
    \A s \in Slots : slot'[s].id = slot[s].id /\ slot'[s].parent = slot[s].parent

LEMMA SameLinksKeep ==
    ASSUME GraphInv, slot' \in [Slots -> Nodeslots], SameLinks, used' \subseteq used
    PROVE  /\ Sound(Graph')
           /\ used' = used /\ Tied(Graph) =>
                \A m \in Nodes : Reachable(Graph, m) => Reachable(Graph', m)
<1>1. Graph.list \subseteq Slots /\ Graph.pool = slot /\ Graph.list = used
  BY GraphParts, GraphFields DEF GraphInv, Sound
<1>2. Graph'.pool = slot' /\ Graph'.list = used' /\ Graph' \in Graphs
  BY <1>1 DEF Graph, Graphs
<1> DEFINE h == Graph'
<1>3. /\ h.pool = slot' /\ h.list = used' /\ h \in Graphs
      /\ \A s \in Slots : /\ h.pool[s].id = Graph.pool[s].id
                          /\ h.pool[s].parent = Graph.pool[s].parent
  BY <1>1, <1>2 DEF SameLinks
<1> HIDE DEF h
<1>4. Sound(h)
  BY <1>1, <1>3 DEF Sound, GraphInv
<1>5. ASSUME used' = used, Tied(Graph), NEW m \in Nodes, Reachable(Graph, m)
      PROVE  Reachable(h, m)
  BY <1>1, <1>3, <1>4, <1>5, KeptByGrowing DEF GraphInv
<1> QED BY <1>4, <1>5 DEF h

LEMMA SlotType ==
    ASSUME GraphInv
    PROVE  /\ slot \in [Slots -> Nodeslots] /\ used \subseteq Slots
           /\ \A s \in Slots : slot[s].id \in Nodes \cup {NoNode}
                            /\ slot[s].parent \in Places /\ slot[s].life \in 0..Infinite
  BY GraphParts, GraphFields DEF GraphInv, Sound

LEMMA NoPathKeeps ==
    ASSUME GraphInv, NEW n \in Others, NEW p, NoPath(n, p)
    PROVE  slot' \in [Slots -> Nodeslots] /\ SameLinks /\ used' = used
<1> DEFINE x == NodeOf(Graph, n)
<1>1. x \in Slots /\ slot' = [slot EXCEPT ![x].life = NoPathDelay] /\ used' = used
  <2>1. n \in Nodes
    BY DEF Others
  <2>2. x # Null /\ slot' = [slot EXCEPT ![x].life = NoPathDelay] /\ used' = used
    BY DEF NoPath
  <2>3. x \in Graph.list
    BY <2>1, <2>2, NodeOfType DEF GraphInv
  <2> QED BY <2>2, <2>3, SlotType, GraphFields
<1> HIDE DEF x
<1>2. ASSUME NEW s \in Slots
      PROVE  /\ slot'[s].id = slot[s].id /\ slot'[s].parent = slot[s].parent
             /\ slot'[s] \in Nodeslots
  <2>1. slot[s] \in Nodeslots
    BY SlotType
  <2>2. slot'[s] = IF s = x THEN [slot[s] EXCEPT !.life = NoPathDelay] ELSE slot[s]
    BY <1>1, SlotType
  <2> QED BY <2>1, <2>2, Numbers DEF Nodeslots
<1>3. slot' \in [Slots -> Nodeslots]
  BY <1>1, <1>2, SlotType
<1> QED BY <1>1, <1>2, <1>3 DEF SameLinks

LEMMA SweepKeeps ==
    ASSUME GraphInv, Sweep
    PROVE  slot' \in [Slots -> Nodeslots] /\ SameLinks /\ used' \subseteq used
<1>1. slot' = [s \in Slots |-> Aged(s)] /\ used' \subseteq used
  BY DEF Sweep
<1>2. ASSUME NEW s \in Slots
      PROVE  /\ Aged(s).id = slot[s].id /\ Aged(s).parent = slot[s].parent
             /\ Aged(s) \in Nodeslots
  <2>1. slot[s] \in Nodeslots /\ slot[s].life \in 0..Infinite
    BY SlotType
  <2>2. CASE s \in used /\ slot[s].life \notin {0, Infinite}
    <3>1. slot[s].life - 1 \in 0..Infinite
      BY <2>1, <2>2, Numbers
    <3>2. Aged(s) = [slot[s] EXCEPT !.life = slot[s].life - 1]
      BY <2>2 DEF Aged
    <3> QED BY <2>1, <3>1, <3>2 DEF Nodeslots
  <2>3. CASE ~ (s \in used /\ slot[s].life \notin {0, Infinite})
    BY <2>1, <2>3 DEF Aged
  <2> QED BY <2>2, <2>3
<1> QED BY <1>1, <1>2 DEF SameLinks

(* moves and lapses are bounded by their guards. *)
Bounded == moves \in 0..MaxMoves /\ lapses \in 0..MaxLapses

Inv ==
    /\ up \in [Others -> Nodes] /\ late \subseteq Others \X Nodes
    /\ GraphInv /\ Bounded

(* The empty graph. *)
LEMMA InitInv == Init => Inv
<1> SUFFICES ASSUME Init PROVE Inv
  OBVIOUS
<1>1. up \in [Others -> Nodes] /\ late \subseteq Others \X Nodes /\ Bounded
  BY RplNsAssumption DEF Init, Bounded, Others
<1>2. slot \in [Slots -> Nodeslots] /\ used = {}
  <2>1. [id |-> NoNode, parent |-> Null, life |-> 0] \in Nodeslots
    BY Numbers DEF Nodeslots
  <2> QED BY <2>1 DEF Init
<1>3. Graph \in Graphs
  BY <1>2 DEF Graph, Graphs
<1>4. GraphInv
  BY <1>2, <1>3, GraphFields DEF GraphInv, Sound
<1> QED BY <1>1, <1>4 DEF Inv

(* What every step does to the graph; the last conjunct is the property.    *)
LEMMA GraphStep ==
    ASSUME Inv, [Next]_vars
    PROVE  /\ GraphInv'
           /\ used \subseteq used' /\ Tied(Graph) =>
                \A m \in Nodes : Reachable(Graph, m) => Reachable(Graph', m)
<1> USE DEF Inv
<1>1. ASSUME NEW n \in Others, NEW p \in Nodes, Dao(n, p)
      PROVE  /\ GraphInv'
             /\ Tied(Graph) => \A m \in Nodes : Reachable(Graph, m) => Reachable(Graph', m)
  BY <1>1, DaoKeeps DEF GraphInv
<1>2. ASSUME NEW n \in Others, NEW p \in Nodes, NoPath(n, p)
      PROVE  slot' \in [Slots -> Nodeslots] /\ SameLinks /\ used' \subseteq used
  BY <1>2, NoPathKeeps
<1>3. ASSUME NEW n \in Others, NEW p \in Nodes, Move(n, p) \/ AllIn(n, p)
      PROVE  slot' \in [Slots -> Nodeslots] /\ SameLinks /\ used' \subseteq used
  BY <1>3, SlotType DEF Move, AllIn, SameLinks
<1>4. ASSUME Tick
      PROVE  slot' \in [Slots -> Nodeslots] /\ SameLinks /\ used' \subseteq used
  BY <1>4, SweepKeeps DEF Tick
<1>5. ASSUME UNCHANGED vars
      PROVE  slot' \in [Slots -> Nodeslots] /\ SameLinks /\ used' \subseteq used
  BY <1>5, SlotType DEF vars, SameLinks
<1>6. CASE slot' \in [Slots -> Nodeslots] /\ SameLinks /\ used' \subseteq used
  BY <1>6, SameLinksKeep DEF GraphInv
<1>7. \A n \in Others : up[n] \in Nodes
  OBVIOUS
<1> QED BY <1>1, <1>2, <1>3, <1>4, <1>5, <1>6, <1>7 DEF Next, LateDao

LEMMA InvStep == Inv /\ [Next]_vars => Inv'
<1> SUFFICES ASSUME Inv, [Next]_vars PROVE Inv'
  OBVIOUS
<1>1. GraphInv'
  BY GraphStep
<1>2. up' \in [Others -> Nodes] /\ late' \subseteq Others \X Nodes /\ Bounded'
  <2> USE DEF Inv, Bounded
  <2>1. ASSUME NEW n \in Others, NEW p, Dao(n, p) \/ NoPath(n, p)
        PROVE  UNCHANGED <<up, late, moves, lapses>>
    BY <2>1 DEF Dao, NoPath
  <2>2. ASSUME NEW n \in Others, NEW p \in Nodes, AllIn(n, p)
        PROVE  late' \subseteq late /\ UNCHANGED <<up, moves, lapses>>
    BY <2>2 DEF AllIn
  <2>3. ASSUME NEW n \in Others, NEW p \in Nodes, Move(n, p)
        PROVE  up' \in [Others -> Nodes] /\ late' \subseteq Others \X Nodes /\ Bounded'
    BY <2>3, RplNsAssumption DEF Move
  <2>4. ASSUME Tick PROVE UNCHANGED <<up, late>> /\ Bounded'
    BY <2>4, RplNsAssumption DEF Tick, Sweep
  <2>5. ASSUME UNCHANGED vars PROVE UNCHANGED <<up, late, moves, lapses>>
    BY <2>5 DEF vars
  <2>6. CASE late' \subseteq late /\ UNCHANGED <<up, moves, lapses>>
    BY <2>6
  <2> QED BY <2>1, <2>2, <2>3, <2>4, <2>5, <2>6 DEF Next, LateDao
<1> QED BY <1>1, <1>2 DEF Inv

LEMMA SpecInv == Spec => []Inv
  BY InitInv, InvStep, PTL DEF Spec, Safety

(* Types of the pool, and that a node is on the list once: every update     *)
(* looks for the node before it takes a slot (rpl_ns_update_node).          *)
THEOREM Typing == Spec => []TypeOK
<1>1. Inv => TypeOK
  <2> SUFFICES ASSUME Inv PROVE TypeOK
    OBVIOUS
  <2>1. \A s, z \in used : slot[s].id = slot[z].id => s = z
    BY GraphFields DEF Inv, GraphInv, Sound
  <2> QED BY <2>1, SlotType DEF Inv, Bounded, TypeOK, Nodeslots, Places
<1> QED BY <1>1, SpecInv, PTL

(* A DAO cuts nobody off, whatever the pool's size and the order of DAOs,   *)
(* as long as no pointer dangles: rpl_ns_update_node restores the old       *)
(* parent if the node itself cannot be reached through the new one.         *)
THEOREM UpdatesCutNobodyOff == Spec => UpdateKeepsReachable
<1>1. ASSUME Inv, [Next]_vars
      PROVE  [used \subseteq used' /\ (\A s \in used : ~Dangles(s))
                => Reached \subseteq Reached']_vars
  <2> SUFFICES ASSUME used \subseteq used', \A s \in used : ~Dangles(s)
               PROVE  Reached \subseteq Reached'
    OBVIOUS
  <2>1. Tied(Graph)
    BY GraphFields DEF Dangles, Tied
  <2>2. Others \subseteq Nodes
    BY DEF Others
  <2>3. \A m \in Nodes : Reachable(Graph, m) => Reachable(Graph', m)
    BY <1>1, <2>1, GraphStep
  <2>4. \A m \in Nodes : Reachable(Graph, m)' <=> Reachable(Graph', m)
    BY DEF Reachable, NodeOf, Climb, Up
  <2> QED BY <2>2, <2>3, <2>4 DEF Reached
<1> QED BY <1>1, SpecInv, PTL DEF Spec, Safety, UpdateKeepsReachable
=============================================================================
