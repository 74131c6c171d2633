-------------------------- MODULE DaoRoutes_proofs --------------------------
(* Downward routes of any network, with any changes of parent and losses:   *)
(* a route in use is backed, and without changes and losses it is renewed.  *)
EXTENDS DaoRoutes, SequenceTheorems, TLAPS

-----------------------------------------------------------------------------
(* Messages and queues *)

Path(t)   == [target |-> t, path |-> TRUE]
NoPath(t) == [target |-> t, path |-> FALSE]

Holds(q, m) == \E i \in 1..Len(q) : q[i] = m

(* Every announcement of t in the queue is taken back further behind.       *)
Silenced(q, t) ==
    \A i \in 1..Len(q) :
        q[i] = Path(t) => \E j \in 1..Len(q) : j > i /\ q[j] = NoPath(t)

LEMMA Messages ==
    /\ \A t \in Targets : Path(t) \in Message /\ NoPath(t) \in Message
    /\ \A t, u : Path(t) # NoPath(u)
    /\ \A t, u : t # u => Path(t) # Path(u) /\ NoPath(t) # NoPath(u)
    /\ \A m \in Message : /\ m.target \in Targets
                          /\ m = IF m.path THEN Path(m.target) ELSE NoPath(m.target)
<1>1. \A t, u : Path(t) # NoPath(u)
  <2> SUFFICES ASSUME NEW t, NEW u, Path(t) = NoPath(u) PROVE FALSE
    OBVIOUS
  <2>1. Path(t).path = TRUE /\ NoPath(u).path = FALSE
    BY DEF Path, NoPath
  <2> QED BY <2>1
<1>2. \A t, u : t # u => Path(t) # Path(u) /\ NoPath(t) # NoPath(u)
  <2>1. \A t : Path(t).target = t /\ NoPath(t).target = t
    BY DEF Path, NoPath
  <2> QED BY <2>1
<1>3. \A t \in Targets : Path(t) \in Message /\ NoPath(t) \in Message
  BY DEF Path, NoPath, Message
<1>4. ASSUME NEW m \in Message
      PROVE  /\ m.target \in Targets
             /\ m = IF m.path THEN Path(m.target) ELSE NoPath(m.target)
  BY DEF Message, Path, NoPath
<1> QED BY <1>1, <1>2, <1>3, <1>4

(* What a message added at the end does to the queue.                       *)
LEMMA AppendWord ==
    ASSUME NEW q \in Seq(Message), NEW m \in Message
    PROVE  /\ Append(q, m) \in Seq(Message)
           /\ Len(Append(q, m)) = Len(q) + 1
           /\ \A x : Holds(Append(q, m), x) <=> Holds(q, x) \/ m = x
           /\ \A t : m = NoPath(t) => Silenced(Append(q, m), t)
           /\ \A t : m # Path(t) /\ Silenced(q, t) => Silenced(Append(q, m), t)
<1> DEFINE r == Append(q, m)
<1>1. /\ r \in Seq(Message) /\ Len(q) \in Nat /\ Len(r) = Len(q) + 1
      /\ \A i \in 1..Len(q) : r[i] = q[i]
      /\ r[Len(q) + 1] = m
  OBVIOUS
<1> HIDE DEF r
<1>2. 1..Len(r) = (1..Len(q)) \cup {Len(q) + 1} /\ Len(q) + 1 \in 1..Len(r)
  BY <1>1
<1>3. ASSUME NEW x PROVE Holds(r, x) <=> Holds(q, x) \/ m = x
  BY <1>1, <1>2 DEF Holds
<1>4. ASSUME NEW t, m = NoPath(t) PROVE Silenced(r, t)
  <2>1. m # Path(t)
    BY <1>4, Messages
  <2>2. \A i \in 1..Len(r) : r[i] = Path(t) => Len(q) + 1 > i /\ r[Len(q) + 1] = NoPath(t)
    BY <1>1, <1>2, <1>4, <2>1
  <2> QED BY <1>2, <2>2 DEF Silenced
<1>5. ASSUME NEW t, m # Path(t), Silenced(q, t) PROVE Silenced(r, t)
  BY <1>1, <1>2, <1>5 DEF Silenced
<1> QED BY <1>1, <1>3, <1>4, <1>5 DEF r

(* What the removal of the oldest message does to it.                       *)
LEMMA TailWord ==
    ASSUME NEW q \in Seq(Message), q # <<>>
    PROVE  /\ Head(q) \in Message /\ Tail(q) \in Seq(Message)
           /\ Len(Tail(q)) = Len(q) - 1
           /\ Holds(q, Head(q))
           /\ \A x : Holds(Tail(q), x) => Holds(q, x)
           /\ \A x : Holds(q, x) => Head(q) = x \/ Holds(Tail(q), x)
           /\ \A t : Silenced(q, t) => Silenced(Tail(q), t)
           /\ \A t : Silenced(q, t) /\ Head(q) = Path(t) => Holds(Tail(q), NoPath(t))
<1> DEFINE r == Tail(q)
<1>1. /\ Head(q) \in Message /\ r \in Seq(Message)
      /\ Len(q) \in Nat \ {0} /\ Len(r) = Len(q) - 1
      /\ q[1] = Head(q)
      /\ \A i \in 1..Len(r) : r[i] = q[i + 1]
  BY HeadTailProperties, EmptySeq
<1> HIDE DEF r
<1>2. \A i \in 1..Len(q) : i = 1 \/ (i - 1 \in 1..Len(r) /\ r[i - 1] = q[i])
  <2> SUFFICES ASSUME NEW i \in 1..Len(q), i # 1
               PROVE  i - 1 \in 1..Len(r) /\ r[i - 1] = q[i]
    OBVIOUS
  <2>1. i - 1 \in 1..Len(r)
    BY <1>1
  <2>2. r[i - 1] = q[(i - 1) + 1]
    BY <1>1, <2>1
  <2> QED BY <2>1, <2>2
<1>3. \A i \in 1..Len(r) : i + 1 \in 1..Len(q)
  BY <1>1
<1>4. ASSUME NEW x, Holds(r, x) PROVE Holds(q, x)
  BY <1>1, <1>3, <1>4 DEF Holds
<1>5. ASSUME NEW x, Holds(q, x) PROVE Head(q) = x \/ Holds(r, x)
  BY <1>1, <1>2, <1>5 DEF Holds
<1>6. ASSUME NEW t, Silenced(q, t) PROVE Silenced(r, t)
  <2> SUFFICES ASSUME NEW i \in 1..Len(r), r[i] = Path(t)
               PROVE  \E j \in 1..Len(r) : j > i /\ r[j] = NoPath(t)
    BY DEF Silenced
  <2>1. PICK j \in 1..Len(q) : j > i + 1 /\ q[j] = NoPath(t)
    BY <1>1, <1>3, <1>6 DEF Silenced
  <2>2. j - 1 \in 1..Len(r) /\ r[j - 1] = NoPath(t) /\ j - 1 > i
    BY <1>2, <2>1
  <2> QED BY <2>2
<1>7. ASSUME NEW t, Silenced(q, t), Head(q) = Path(t) PROVE Holds(r, NoPath(t))
  <2>1. PICK j \in 1..Len(q) : j > 1 /\ q[j] = NoPath(t)
    BY <1>1, <1>7 DEF Silenced
  <2> QED BY <1>2, <2>1 DEF Holds
<1>8. Holds(q, Head(q))
  BY <1>1 DEF Holds
<1> QED BY <1>1, <1>4, <1>5, <1>6, <1>7, <1>8 DEF r

-----------------------------------------------------------------------------
(* Links *)

Queues(ch) ==
    /\ ch \in [Uplinks -> Seq(Message)]
    /\ \A l \in Uplinks : Len(ch[l]) <= QueueSize

(* Where a message goes, and that it fits.                                  *)
LEMMA SentWord ==
    ASSUME NEW ch, Queues(ch), NEW n \in Nodes, NEW p \in Parents(n) \cup {None},
           p # None => Len(ch[<<n, p>>]) < QueueSize,
           NEW t \in Targets, NEW path \in BOOLEAN
    PROVE  /\ Queues(Sent(ch, n, p, t, path))
           /\ \A l \in Uplinks : l # <<n, p>> => Sent(ch, n, p, t, path)[l] = ch[l]
           /\ p # None =>
                /\ <<n, p>> \in Uplinks
                /\ Sent(ch, n, p, t, path)[<<n, p>>] =
                     Append(ch[<<n, p>>], IF path THEN Path(t) ELSE NoPath(t))
<1>1. CASE p = None
  <2>1. \A l \in Uplinks : l # <<n, p>>
    BY <1>1, NodesAssumption
  <2> QED BY <1>1, <2>1 DEF Sent
<1>2. CASE p # None
  <2> DEFINE m == [target |-> t, path |-> path]
             q == ch[<<n, p>>]
  <2>1. <<n, p>> \in Uplinks
    BY <1>2 DEF Parents
  <2>2. m \in Message /\ m = IF path THEN Path(t) ELSE NoPath(t)
    BY DEF Message, Path, NoPath
  <2>3. q \in Seq(Message) /\ Len(q) < QueueSize
    BY <1>2, <2>1 DEF Queues
  <2>4. Append(q, m) \in Seq(Message) /\ Len(Append(q, m)) = Len(q) + 1 /\ Len(q) \in Nat
    BY <2>2, <2>3
  <2>5. Len(Append(q, m)) <= QueueSize
    BY <2>3, <2>4, BoundsAssumption
  <2> HIDE DEF m
  <2>6. Sent(ch, n, p, t, path) = [ch EXCEPT ![<<n, p>>] = Append(q, m)]
    BY <1>2 DEF Sent, m
  <2> QED BY <1>2, <2>1, <2>2, <2>4, <2>5, <2>6 DEF Queues
<1> QED BY <1>1, <1>2

LEMMA ReceivedWord ==
    ASSUME Queues(chan), NEW c, NEW n, <<c, n>> \in Uplinks, chan[<<c, n>>] # <<>>
    PROVE  /\ Queues(Received(c, n))
           /\ \A l \in Uplinks : l # <<c, n>> => Received(c, n)[l] = chan[l]
           /\ Received(c, n)[<<c, n>>] = Tail(chan[<<c, n>>])
           /\ Head(chan[<<c, n>>]) \in Message
<1> DEFINE q == chan[<<c, n>>]
<1>1. q \in Seq(Message) /\ q # <<>> /\ Len(q) <= QueueSize
  BY DEF Queues
<1>2. /\ Tail(q) \in Seq(Message) /\ Len(Tail(q)) = Len(q) - 1 /\ Len(q) \in Nat
      /\ Head(q) \in Message
  BY <1>1, TailWord
<1>3. Len(Tail(q)) <= QueueSize
  BY <1>1, <1>2, BoundsAssumption
<1> QED BY <1>2, <1>3 DEF Received, Queues

-----------------------------------------------------------------------------
(* Types *)

(* Entries keep their form, and age; one of no route stays one.             *)
LEMMA Entries ==
    /\ NoRoute \in Route /\ NoRoute.hop = None /\ ~NoRoute.nopath
    /\ \A r \in Route : /\ r.nopath \in BOOLEAN /\ r.life \in 0..Lifetime
                        /\ r = NoRoute <=> r.hop = None
                        /\ r # NoRoute => r.hop \in Nodes
    /\ \A r \in Route : /\ Aged(r) \in Route
                        /\ Aged(r).hop = r.hop /\ Aged(r).nopath = r.nopath
                        /\ Aged(r).life = IF r.life >= 1 THEN r.life - 1 ELSE 0
    /\ \A c \in Nodes :
         /\ [hop |-> c, life |-> Lifetime, nopath |-> FALSE] \in Route \ {NoRoute}
         /\ [hop |-> c, life |-> NoPathDelay, nopath |-> TRUE] \in Route \ {NoRoute}
<1> USE NodesAssumption, BoundsAssumption
<1>1. NoRoute \in Route /\ NoRoute.hop = None /\ ~NoRoute.nopath /\ NoRoute.life = 0
      /\ NoRoute.nopath = FALSE
  BY DEF NoRoute, Route
<1>2. ASSUME NEW c \in Nodes, NEW b \in BOOLEAN, NEW k \in 0..Lifetime
      PROVE  [hop |-> c, life |-> k, nopath |-> b] \in Route \ {NoRoute}
  <2>1. [hop |-> c, life |-> k, nopath |-> b] \in Route
    BY DEF Route
  <2>2. [hop |-> c, life |-> k, nopath |-> b].hop = c /\ c # None
    OBVIOUS
  <2> QED BY <1>1, <2>1, <2>2
<1>3. ASSUME NEW r \in Route
      PROVE  /\ r.nopath \in BOOLEAN /\ r.life \in 0..Lifetime
             /\ r = NoRoute <=> r.hop = None
             /\ r # NoRoute => r.hop \in Nodes
             /\ Aged(r) \in Route
             /\ Aged(r).hop = r.hop /\ Aged(r).nopath = r.nopath
             /\ Aged(r).life = IF r.life >= 1 THEN r.life - 1 ELSE 0
  <2> DEFINE k == IF r.life >= 1 THEN r.life - 1 ELSE 0
  <2>1. r \in [hop : Nodes \cup {None}, life : 0..Lifetime, nopath : BOOLEAN]
    <3>1. 0 \in 0..Lifetime
      OBVIOUS
    <3>2. NoRoute \in [hop : Nodes \cup {None}, life : 0..Lifetime, nopath : BOOLEAN]
      BY <3>1 DEF NoRoute
    <3>3. CASE r \in [hop : Nodes, life : 0..Lifetime, nopath : BOOLEAN]
      BY <3>3
    <3> QED BY <3>2, <3>3 DEF Route
  <2>2. k \in 0..Lifetime
    BY <2>1
  <2>3. Aged(r) = [hop |-> r.hop, life |-> k, nopath |-> r.nopath]
    BY <2>1 DEF Aged
  <2>4. /\ Aged(r).hop = r.hop /\ Aged(r).nopath = r.nopath /\ Aged(r).life = k
    BY <2>3
  <2>5. CASE r = NoRoute
    <3>1. r.hop = None /\ k = 0 /\ r.nopath = FALSE
      BY <1>1, <2>5
    <3>2. Aged(r) = NoRoute
      BY <2>3, <3>1 DEF NoRoute
    <3> QED BY <1>1, <2>1, <2>4, <2>5, <3>2
  <2>6. CASE r # NoRoute
    <3>1. r \in [hop : Nodes, life : 0..Lifetime, nopath : BOOLEAN]
      BY <2>6 DEF Route
    <3>2. r.hop \in Nodes
      BY <3>1
    <3>3. Aged(r) \in Route
      BY <1>2, <2>1, <2>2, <2>3, <3>2
    <3> QED BY <2>1, <2>4, <2>6, <3>2, <3>3
  <2> QED BY <2>5, <2>6
<1>4. Lifetime \in 0..Lifetime /\ NoPathDelay \in 0..Lifetime
  OBVIOUS
<1> QED BY <1>1, <1>2, <1>3, <1>4

-----------------------------------------------------------------------------
(* Steps *)

Tables == [Nodes -> [Targets -> Route]]

(* chan' is chan with m behind it, on the link from n to its parent.        *)
Passed(ch, n, m) ==
    /\ Queues(chan')
    /\ \A l \in Uplinks : l # <<n, parent[n]>> => chan'[l] = ch[l]
    /\ parent[n] # None =>
         /\ <<n, parent[n]>> \in Uplinks
         /\ chan'[<<n, parent[n]>>] = Append(ch[<<n, parent[n]>>], m)

LEMMA Passing ==
    ASSUME TypeOK, NEW ch, Queues(ch), NEW n \in Nodes, NEW t \in Targets, NEW path \in BOOLEAN,
           parent[n] # None => Len(ch[<<n, parent[n]>>]) < QueueSize,
           chan' = Sent(ch, n, parent[n], t, path)
    PROVE  Passed(ch, n, IF path THEN Path(t) ELSE NoPath(t))
<1>1. parent[n] \in Parents(n) \cup {None}
  BY DEF TypeOK
<1> QED BY <1>1, SentWord DEF Passed

(* A DAO with a lifetime, one that withdraws the route, one of no effect.   *)
LEMMA Receiving ==
    ASSUME TypeOK, NEW c \in Nodes, NEW n \in Nodes, <<c, n>> \in Uplinks, ReceiveDao(c, n)
    PROVE  LET m == Head(chan[<<c, n>>])
               t == m.target
           IN  /\ c # n /\ t \in Targets /\ chan[<<c, n>>] # <<>>
               /\ Queues(Received(c, n))
               /\ route' \in Tables
               /\ \A x \in Nodes, u \in Targets :
                    <<x, u>> # <<n, t>> => route'[x][u] = route[x][u]
               /\ \/ /\ m = Path(t)
                     /\ route'[n][t] = [hop |-> c, life |-> Lifetime, nopath |-> FALSE]
                     /\ Passed(Received(c, n), n, Path(t))
                  \/ /\ m = NoPath(t)
                     /\ route[n][t].hop = c /\ ~route[n][t].nopath
                     /\ route'[n][t] # NoRoute
                     /\ route'[n][t].hop = c /\ route'[n][t].nopath
                     /\ Passed(Received(c, n), n, NoPath(t))
                  \/ /\ m = NoPath(t)
                     /\ ~(route[n][t].hop = c /\ ~route[n][t].nopath)
                     /\ route' = route
                     /\ chan' = Received(c, n)
<1> DEFINE m == Head(chan[<<c, n>>])
           t == m.target
           ch == Received(c, n)
<1>1. Queues(chan) /\ route \in Tables /\ parent[n] \in Parents(n) \cup {None}
  BY DEF TypeOK, Queues, Tables
<1>2. c # n /\ chan[<<c, n>>] # <<>> /\ HasRoom(n, parent[n])
  <2>1. \A l \in Uplinks : l[1] # l[2]
    BY NodesAssumption
  <2> QED BY <2>1 DEF ReceiveDao
<1>3. /\ Queues(ch) /\ m \in Message
      /\ \A l \in Uplinks : l # <<c, n>> => ch[l] = chan[l]
  BY <1>1, <1>2, ReceivedWord
<1>4. t \in Targets /\ m = IF m.path THEN Path(t) ELSE NoPath(t)
  BY <1>3, Messages
<1>5. parent[n] # None => Len(ch[<<n, parent[n]>>]) < QueueSize
  <2> SUFFICES ASSUME parent[n] # None PROVE Len(ch[<<n, parent[n]>>]) < QueueSize
    OBVIOUS
  <2>1. <<n, parent[n]>> \in Uplinks /\ <<n, parent[n]>> # <<c, n>>
    BY <1>1, <1>2 DEF Parents
  <2> QED BY <1>2, <1>3, <2>1 DEF HasRoom
<1> HIDE DEF m, t, ch
<1>6. CASE m.path
  <2>1. /\ route' = [route EXCEPT ![n][t] = [hop |-> c, life |-> Lifetime, nopath |-> FALSE]]
        /\ chan' = Sent(ch, n, parent[n], t, TRUE)
    BY <1>6 DEF ReceiveDao, ReceivePath, m, t, ch
  <2>2. [hop |-> c, life |-> Lifetime, nopath |-> FALSE] \in Route
    BY Entries
  <2>3. Passed(ch, n, Path(t))
    BY <1>3, <1>4, <1>5, <2>1, Passing
  <2>4. /\ route' \in Tables
        /\ \A x \in Nodes, u \in Targets : <<x, u>> # <<n, t>> => route'[x][u] = route[x][u]
        /\ route'[n][t] = [hop |-> c, life |-> Lifetime, nopath |-> FALSE]
    BY <1>1, <1>4, <2>1, <2>2 DEF Tables
  <2>5. m = Path(t)
    BY <1>4, <1>6
  <2> QED BY <1>2, <1>3, <1>4, <2>3, <2>4, <2>5 DEF m, t, ch
<1>7. CASE ~m.path /\ route[n][t].hop = c /\ ~route[n][t].nopath
  <2>1. /\ route' = [route EXCEPT ![n][t] = [hop |-> c, life |-> NoPathDelay, nopath |-> TRUE]]
        /\ chan' = Sent(ch, n, parent[n], t, FALSE)
    BY <1>7 DEF ReceiveDao, ReceiveNoPath, m, t, ch
  <2>4. [hop |-> c, life |-> NoPathDelay, nopath |-> TRUE] \in Route \ {NoRoute}
    BY Entries
  <2>5. Passed(ch, n, NoPath(t))
    BY <1>3, <1>4, <1>5, <2>1, Passing
  <2>6. /\ route' \in Tables
        /\ \A x \in Nodes, u \in Targets : <<x, u>> # <<n, t>> => route'[x][u] = route[x][u]
        /\ route'[n][t] = [hop |-> c, life |-> NoPathDelay, nopath |-> TRUE]
    BY <1>1, <1>4, <2>1, <2>4 DEF Tables
  <2>7. m = NoPath(t)
    BY <1>4, <1>7
  <2> QED BY <1>2, <1>3, <1>4, <1>7, <2>4, <2>5, <2>6, <2>7 DEF m, t, ch
<1>8. CASE ~m.path /\ ~(route[n][t].hop = c /\ ~route[n][t].nopath)
  <2>1. route' = route /\ chan' = ch
    BY <1>8 DEF ReceiveDao, ReceiveNoPath, m, t, ch
  <2>2. m = NoPath(t)
    BY <1>4, <1>8
  <2> QED BY <1>1, <1>2, <1>3, <1>4, <1>8, <2>1, <2>2 DEF m, t, ch
<1> QED BY <1>6, <1>7, <1>8

(* A pass of the purge: entries age, and those that go expired; n reports   *)
(* the one it takes, unless it is the root.                                 *)
LEMMA Purging ==
    ASSUME TypeOK, NEW n \in Nodes, HasRoom(n, parent[n]), Purge(n)
    PROVE  /\ Queues(chan') /\ route' \in Tables
           /\ \A x \in Nodes, u \in Targets :
                \/ x # n /\ route'[x][u] = route[x][u]
                \/ x = n /\ route'[x][u] = Aged(route[x][u])
                \/ /\ x = n /\ u \in Expired(n) /\ route'[x][u] = NoRoute
                   /\ n = Root \/ Passed(chan, n, NoPath(u))
           /\ \/ chan' = chan
              \/ \E u \in Expired(n) : Passed(chan, n, NoPath(u))
<1>1. Queues(chan) /\ route \in Tables /\ Expired(n) \subseteq Targets
  BY DEF TypeOK, Queues, Tables, Expired
<1>2. ASSUME NEW gone \in SUBSET Targets, route' = Purged(n, gone)
      PROVE  /\ route' \in Tables
             /\ \A x \in Nodes \ {n} : route'[x] = route[x]
             /\ \A u \in Targets :
                  route'[n][u] = IF u \in gone THEN NoRoute ELSE Aged(route[n][u])
  <2> DEFINE row == [u \in Targets |-> IF u \in gone THEN NoRoute ELSE Aged(route[n][u])]
  <2>1. \A u \in Targets : route[n][u] \in Route
    BY <1>1 DEF Tables
  <2>2. row \in [Targets -> Route]
    BY <2>1, Entries
  <2>3. route' = [route EXCEPT ![n] = row]
    BY <1>2 DEF Purged
  <2> HIDE DEF row
  <2>4. route' \in Tables /\ route'[n] = row /\ \A x \in Nodes \ {n} : route'[x] = route[x]
    BY <1>1, <2>2, <2>3 DEF Tables
  <2> QED BY <2>4 DEF row
<1>3. CASE n = Root \/ Expired(n) = {}
  <2>1. route' = Purged(n, Expired(n)) /\ chan' = chan
    BY <1>3 DEF Purge
  <2> QED BY <1>1, <1>2, <1>3, <2>1
<1>4. CASE ~(n = Root \/ Expired(n) = {})
  <2>1. PICK u \in Expired(n) :
           /\ route' = Purged(n, {u})
           /\ chan' = Sent(chan, n, parent[n], u, FALSE)
    BY <1>4 DEF Purge
  <2>2. parent[n] # None => Len(chan[<<n, parent[n]>>]) < QueueSize
    BY DEF HasRoom
  <2>3. Passed(chan, n, NoPath(u))
    BY <1>1, <2>1, <2>2, Passing
  <2>4. /\ route' \in Tables
        /\ \A x \in Nodes \ {n} : route'[x] = route[x]
        /\ \A w \in Targets : route'[n][w] = IF w \in {u} THEN NoRoute ELSE Aged(route[n][w])
    BY <1>1, <1>2, <2>1
  <2> QED BY <2>1, <2>3, <2>4 DEF Passed
<1> QED BY <1>3, <1>4

(* A link found bad: only lifetimes change.                                 *)
LEMMA Souring ==
    ASSUME TypeOK, NEW n \in Nodes, NEW c \in Nodes, BadLink(n, c)
    PROVE  /\ route' \in Tables
           /\ \A x \in Nodes, u \in Targets :
                /\ route'[x][u].hop = route[x][u].hop
                /\ route'[x][u].nopath = route[x][u].nopath
<1>1. route \in Tables
  BY DEF TypeOK, Tables
<1> DEFINE row == [t \in Targets |-> IF route[n][t].hop = c THEN [route[n][t] EXCEPT !.life = 0]
                                                           ELSE route[n][t]]
<1>2. route' = [route EXCEPT ![n] = row]
  BY <1>1 DEF BadLink, Tables
<1>3. ASSUME NEW r \in Route, r.hop = c
      PROVE  LET z == [r EXCEPT !.life = 0]
             IN  z \in Route /\ z.hop = r.hop /\ z.nopath = r.nopath
  <2>1. r \in [hop : Nodes, life : 0..Lifetime, nopath : BOOLEAN]
    BY <1>3, Entries, NodesAssumption DEF Route
  <2>2. 0 \in 0..Lifetime
    BY BoundsAssumption
  <2> QED BY <2>1, <2>2 DEF Route
<1>4. \A t \in Targets : route[n][t] \in Route
  BY <1>1 DEF Tables
<1>5. \A t \in Targets : /\ row[t] \in Route
                         /\ row[t].hop = route[n][t].hop
                         /\ row[t].nopath = route[n][t].nopath
  BY <1>3, <1>4
<1>6. row \in [Targets -> Route]
  BY <1>5
<1> HIDE DEF row
<1>7. route' \in Tables /\ route'[n] = row /\ \A x \in Nodes \ {n} : route'[x] = route[x]
  BY <1>1, <1>2, <1>6 DEF Tables
<1> QED BY <1>5, <1>7

(* The next registration and the timers.                                    *)
LEMMA Delays == RefreshDelays \subseteq 0..Lifetime
  BY DEF RefreshDelays

LEMMA Scheduling ==
    ASSUME TypeOK, NEW n \in Nodes, ScheduleDao(n)
    PROVE  daoTimer' \subseteq Targets /\ refresh' \in [Targets -> 0..Lifetime]
BY Delays DEF ScheduleDao, TypeOK

(* What is known of the actions that change a parent.                       *)
LEMMA Leaving ==
    ASSUME TypeOK, NEW n \in Nodes, NEW p \in Parents(n) \cup {None},
           \/ HasRoom(n, parent[n]) /\ chan' = Farewell(n)
           \/ chan' = chan,
           parent' = [parent EXCEPT ![n] = p]
    PROVE  /\ Queues(chan')
           /\ parent' \in [Nodes -> Nodes \cup {None}]
           /\ \A x \in Nodes : parent'[x] \in Parents(x) \cup {None}
           /\ chan' = chan \/ (n \in Targets /\ Passed(chan, n, NoPath(n)))
<1>1. Queues(chan) /\ parent[n] \in Parents(n) \cup {None}
  BY DEF TypeOK, Queues
<1>2. ASSUME HasRoom(n, parent[n]), n \in Targets, chan' = Farewell(n)
      PROVE  Passed(chan, n, NoPath(n))
  <2>1. chan' = Sent(chan, n, parent[n], n, FALSE)
    BY <1>2 DEF Farewell
  <2>2. parent[n] # None => Len(chan[<<n, parent[n]>>]) < QueueSize
    BY <1>2 DEF HasRoom
  <2> QED BY <1>1, <1>2, <2>1, <2>2, Passing
<1>3. chan' = chan \/ (n \in Targets /\ Passed(chan, n, NoPath(n)))
  BY <1>2 DEF Farewell
<1>4. p \in Nodes \cup {None}
  BY DEF Parents
<1>5. parent' \in [Nodes -> Nodes \cup {None}] /\ \A x \in Nodes : parent'[x] \in Parents(x) \cup {None}
  BY <1>4 DEF TypeOK
<1> QED BY <1>1, <1>3, <1>5 DEF Passed

LEMMA TypeInit == Init => TypeOK
<1> SUFFICES ASSUME Init PROVE TypeOK
  OBVIOUS
<1> USE NodesAssumption, BoundsAssumption
<1>1. /\ parent \in [Nodes -> Nodes \cup {None}]
      /\ \A n \in Nodes : parent[n] \in Parents(n) \cup {None}
  BY DEF Init
<1>2. route \in [Nodes -> [Targets -> Route]]
  BY Entries DEF Init
<1>3. chan \in [Uplinks -> Seq(Message)] /\ \A l \in Uplinks : Len(chan[l]) <= QueueSize
  BY EmptySeq DEF Init
<1>4. refresh \in [Targets -> 0..Lifetime]
  BY Delays DEF Init
<1> QED BY <1>1, <1>2, <1>3, <1>4 DEF Init, TypeOK

LEMMA TypeStep == TypeOK /\ [Next]_vars => TypeOK'
<1> SUFFICES ASSUME TypeOK, [Next]_vars PROVE TypeOK'
  OBVIOUS
<1> USE NodesAssumption, BoundsAssumption
<1>1. /\ Queues(chan) /\ route \in Tables
      /\ \A l \in Uplinks : l[1] \in Nodes /\ l[2] \in Nodes /\ l = <<l[1], l[2]>>
  BY DEF TypeOK, Queues, Tables
<1>2. ASSUME NEW n \in Nodes \ {Root}, NEW p \in Nodes, SwitchParent(n, p) \/ AgentSwitch(n, p)
      PROVE  TypeOK'
  <2>1. /\ p \in Parents(n) \cup {None} /\ parent' = [parent EXCEPT ![n] = p]
        /\ \/ HasRoom(n, parent[n]) /\ chan' = Farewell(n)
           \/ chan' = chan
    BY <1>2 DEF SwitchParent, AgentSwitch
  <2>2. /\ Queues(chan')
        /\ parent' \in [Nodes -> Nodes \cup {None}]
        /\ \A x \in Nodes : parent'[x] \in Parents(x) \cup {None}
    BY <2>1, Leaving
  <2>3. daoTimer' \subseteq Targets /\ refresh' \in [Targets -> 0..Lifetime]
    BY <1>2, Scheduling DEF SwitchParent, AgentSwitch, TypeOK
  <2>4. switches' \in 0..MaxSwitches
    BY <1>2 DEF SwitchParent, AgentSwitch, TypeOK
  <2>5. untold' \subseteq Nodes \X Nodes \X Targets
    BY <1>2 DEF SwitchParent, AgentSwitch, TypeOK, LeavesUntold
  <2>6. news' \subseteq Uplinks /\ route' = route /\ ticked' = ticked /\ losses' = losses
    BY <1>2 DEF SwitchParent, AgentSwitch, TypeOK, Announced
  <2> QED BY <2>2, <2>3, <2>4, <2>5, <2>6 DEF TypeOK, Queues
<1>3. ASSUME NEW n \in Nodes \ {Root}, Detach(n) PROVE TypeOK'
  <2>1. /\ parent' = [parent EXCEPT ![n] = None]
        /\ HasRoom(n, parent[n]) /\ chan' = Farewell(n)
    BY <1>3 DEF Detach
  <2>2. /\ Queues(chan')
        /\ parent' \in [Nodes -> Nodes \cup {None}]
        /\ \A x \in Nodes : parent'[x] \in Parents(x) \cup {None}
    BY <2>1, Leaving
  <2>3. /\ switches' \in 0..MaxSwitches
        /\ untold' \subseteq Nodes \X Nodes \X Targets
        /\ news' \subseteq Uplinks
    BY <1>3 DEF Detach, TypeOK, LeavesUntold, Announced
  <2>4. UNCHANGED <<route, daoTimer, refresh, ticked, losses>>
    BY <1>3 DEF Detach
  <2> QED BY <2>2, <2>3, <2>4 DEF TypeOK, Queues
<1>4. CASE RootDio
  BY <1>4 DEF RootDio, TypeOK, Announced
<1>5. ASSUME NEW l \in Uplinks, HearDio(l[1], l[2]) PROVE TypeOK'
  <2>1. daoTimer' \subseteq Targets /\ refresh' \in [Targets -> 0..Lifetime]
    BY <1>1, <1>5, Scheduling DEF HearDio, TypeOK
  <2>2. news' \subseteq Uplinks
    BY <1>5 DEF HearDio, TypeOK, Announced
  <2>3. UNCHANGED <<parent, route, chan, ticked, switches, losses, untold>>
    BY <1>5 DEF HearDio
  <2> QED BY <2>1, <2>2, <2>3 DEF TypeOK
<1>6. ASSUME NEW l \in Uplinks, Lose(l[1], l[2]) PROVE TypeOK'
  <2>1. chan[l] # <<>> /\ chan' = Received(l[1], l[2])
    BY <1>1, <1>6 DEF Lose
  <2>2. Queues(chan') /\ Head(chan[l]) \in Message
    BY <1>1, <2>1, ReceivedWord
  <2>3. untold' \subseteq Nodes \X Nodes \X Targets
    <3> DEFINE t == Head(chan[<<l[1], l[2]>>]).target
    <3>1. t \in Targets
      BY <1>1, <2>2, Messages
    <3>2. untold' = untold \/ untold' = untold \cup {<<l[1], l[2], t>>}
      BY <1>6 DEF Lose
    <3> HIDE DEF t
    <3>3. <<l[1], l[2], t>> \in Nodes \X Nodes \X Targets
      BY <1>1, <3>1
    <3> QED BY <3>2, <3>3 DEF TypeOK
  <2>4. losses' \in 0..MaxLosses
    BY <1>6 DEF Lose, TypeOK
  <2>5. UNCHANGED <<parent, route, news, daoTimer, refresh, ticked, switches>>
    BY <1>6 DEF Lose
  <2> QED BY <2>2, <2>3, <2>4, <2>5 DEF TypeOK, Queues
<1>7. ASSUME NEW l \in Uplinks, BadLink(l[2], l[1]) PROVE TypeOK'
  <2>1. route' \in Tables
    BY <1>1, <1>7, Souring
  <2>2. losses' \in 0..MaxLosses
    BY <1>7 DEF BadLink, TypeOK
  <2>3. UNCHANGED <<parent, chan, news, daoTimer, refresh, ticked, switches, untold>>
    BY <1>7 DEF BadLink
  <2> QED BY <2>1, <2>2, <2>3 DEF TypeOK, Tables
<1>8. ASSUME NEW t \in Targets, SendDao(t) PROVE TypeOK'
  <2>1. /\ t \in Nodes /\ chan' = Sent(chan, t, parent[t], t, TRUE)
        /\ parent[t] # None => Len(chan[<<t, parent[t]>>]) < QueueSize
    BY <1>8 DEF SendDao, HasRoom
  <2>2. Passed(chan, t, Path(t))
    BY <1>1, <2>1, Passing
  <2>3. daoTimer' \subseteq Targets /\ refresh' \in [Targets -> 0..Lifetime]
    BY <1>8, Delays DEF SendDao, Rearm, TypeOK
  <2>4. UNCHANGED <<parent, route, news, ticked, switches, losses, untold>>
    BY <1>8 DEF SendDao
  <2> QED BY <2>2, <2>3, <2>4 DEF TypeOK, Queues, Passed
<1>9. ASSUME NEW n \in Nodes, NEW p \in Nodes, NEW t \in Targets, Unroutable(n, p, t)
      PROVE  TypeOK'
  <2>1. /\ p \in Parents(n) /\ Len(chan[<<n, p>>]) < QueueSize
        /\ chan' = Sent(chan, n, p, t, FALSE)
    BY <1>9, EmptySeq DEF Unroutable, Parents
  <2>2. Queues(chan')
    BY <1>1, <2>1, SentWord
  <2>3. UNCHANGED <<parent, route, news, daoTimer, refresh, ticked, switches, losses, untold>>
    BY <1>9 DEF Unroutable
  <2> QED BY <2>2, <2>3 DEF TypeOK, Queues
<1>10. ASSUME NEW l \in Uplinks, ReceiveDao(l[1], l[2]) PROVE TypeOK'
  <2>1. Queues(chan') /\ route' \in Tables
    <3> DEFINE c == l[1]
               n == l[2]
    <3>1. c \in Nodes /\ n \in Nodes /\ <<c, n>> \in Uplinks
      BY <1>1
    <3>2. ReceiveDao(c, n)
      BY <1>10
    <3> HIDE DEF c, n
    <3> QED BY <3>1, <3>2, Receiving DEF Passed
  <2>2. UNCHANGED <<parent, news, daoTimer, refresh, ticked, switches, losses, untold>>
    BY <1>10 DEF ReceiveDao
  <2> QED BY <2>1, <2>2 DEF TypeOK, Queues, Tables
<1>11. ASSUME NEW n \in Nodes, Tick(n) PROVE TypeOK'
  <2>1. Queues(chan') /\ route' \in Tables
    BY <1>11, Purging DEF Tick
  <2>2. refresh' \in [Targets -> 0..Lifetime]
    BY <1>11 DEF Tick, TypeOK
  <2>3. ticked' \subseteq Nodes
    BY <1>11 DEF Tick, TypeOK
  <2>4. UNCHANGED <<parent, news, daoTimer, switches, losses, untold>>
    BY <1>11 DEF Tick
  <2> QED BY <2>1, <2>2, <2>3, <2>4 DEF TypeOK, Queues, Tables
<1>12. CASE UNCHANGED vars
  BY <1>12 DEF vars, TypeOK
<1> QED
  BY <1>2, <1>3, <1>4, <1>5, <1>6, <1>7, <1>8, <1>9, <1>10, <1>11, <1>12 DEF Next, Deliver

(* Types, for any network: queues stay within their bound and entries keep  *)
(* their form through every DAO, purge and change of parent.                *)
THEOREM Typing == Spec => []TypeOK
BY TypeInit, TypeStep, PTL DEF Spec, Safety

-----------------------------------------------------------------------------
(* Routes stay backed.  A next hop that can no longer deliver has a No-Path *)
(* DAO on the way, behind every announcement still under way; and a router  *)
(* that is not a child of n (any more), and did not leave it in the dark,   *)
(* is no next hop of n for others, nor about to become one.                 *)

InUse(n, t, h) == route[n][t].hop = h /\ ~route[n][t].nopath

Backed(h, n, t) ==
    <<h, n, t>> \notin untold /\ ~Serves(h, n, t)
      => /\ InUse(n, t, h) => Holds(chan[<<h, n>>], NoPath(t))
         /\ Silenced(chan[<<h, n>>], t)

Heard(h, n, t) ==
    h # t /\ <<h, n, t>> \notin untold /\ parent[h] # n
      => route[n][t].hop # h /\ ~Holds(chan[<<h, n>>], Path(t))

RoutesInv == \A l \in Uplinks, t \in Targets : Backed(l[1], l[2], t) /\ Heard(l[1], l[2], t)

(* Neither the entry nor the queue gains anything but a No-Path DAO.        *)
LEMMA Keeping ==
    ASSUME TypeOK, NEW h \in Nodes, NEW n \in Nodes, NEW t \in Targets, <<h, n>> \in Uplinks,
           Backed(h, n, t), Heard(h, n, t),
           untold \subseteq untold', parent'[h] = parent[h],
           Serves(h, n, t) => Serves(h, n, t)',
           \/ route'[n][t].hop = route[n][t].hop /\ route'[n][t].nopath = route[n][t].nopath
           \/ route'[n][t].hop # h,
           \/ chan'[<<h, n>>] = chan[<<h, n>>]
           \/ \E m \in Message : /\ m # Path(t)
                                 /\ chan'[<<h, n>>] = Append(chan[<<h, n>>], m)
    PROVE  Backed(h, n, t)' /\ Heard(h, n, t)'
<1> DEFINE q == chan[<<h, n>>]
           r == chan'[<<h, n>>]
<1>1. q \in Seq(Message)
  BY DEF TypeOK
<1>2. /\ Holds(q, NoPath(t)) => Holds(r, NoPath(t))
      /\ Holds(r, Path(t)) => Holds(q, Path(t))
      /\ Silenced(q, t) => Silenced(r, t)
  <2>1. CASE r = q
    BY <2>1
  <2>2. ASSUME NEW m \in Message, m # Path(t), r = Append(q, m)
        PROVE  /\ Holds(q, NoPath(t)) => Holds(r, NoPath(t))
               /\ Holds(r, Path(t)) => Holds(q, Path(t))
               /\ Silenced(q, t) => Silenced(r, t)
    <3>1. /\ \A x : Holds(r, x) <=> Holds(q, x) \/ m = x
          /\ Silenced(q, t) => Silenced(r, t)
      BY <1>1, <2>2, AppendWord
    <3> QED BY <2>2, <3>1
  <2> QED BY <2>1, <2>2
<1>3. InUse(n, t, h)' => InUse(n, t, h)
  BY DEF InUse
<1>4. /\ <<h, n, t>> \notin untold' => <<h, n, t>> \notin untold
      /\ ~Serves(h, n, t)' => ~Serves(h, n, t)
  OBVIOUS
<1>5. /\ (InUse(n, t, h) => Holds(q, NoPath(t))) => (InUse(n, t, h)' => Holds(r, NoPath(t)))
      /\ route[n][t].hop # h => route'[n][t].hop # h
  BY <1>2, <1>3
<1>6. Backed(h, n, t)'
  BY <1>2, <1>4, <1>5 DEF Backed
<1>7. Heard(h, n, t)'
  BY <1>2, <1>4, <1>5 DEF Heard
<1> QED BY <1>6, <1>7

(* A change of parent: the old parent is told, or is in untold.             *)
LEMMA KeptByLeaving ==
    ASSUME TypeOK, RoutesInv, NEW x \in Nodes, NEW p \in Parents(x) \cup {None},
           parent' = [parent EXCEPT ![x] = p], route' = route,
           \/ /\ HasRoom(x, parent[x]) /\ chan' = Farewell(x)
              /\ untold' = LeavesUntold(x, Targets \ {x})
           \/ /\ chan' = chan
              /\ untold' = LeavesUntold(x, Targets),
           NEW h \in Nodes, NEW n \in Nodes, NEW t \in Targets, <<h, n>> \in Uplinks
    PROVE  Backed(h, n, t)' /\ Heard(h, n, t)'
<1>1. /\ untold \subseteq untold'
      /\ parent' \in [Nodes -> Nodes \cup {None}] /\ parent'[x] = p
      /\ \A y \in Nodes \ {x} : parent'[y] = parent[y]
      /\ Backed(h, n, t) /\ Heard(h, n, t)
      /\ chan[<<h, n>>] \in Seq(Message) /\ NoPath(t) \in Message /\ NoPath(t) # Path(t)
      /\ t \in Nodes /\ n # None
  BY Messages, NodesAssumption DEF TypeOK, LeavesUntold, RoutesInv, Parents
<1>2. chan' = chan \/ (x \in Targets /\ Passed(chan, x, NoPath(x)))
  BY Leaving
<1>3. \/ chan'[<<h, n>>] = chan[<<h, n>>]
      \/ h = x /\ n = parent[x] /\ \E m \in Message :
           /\ m # Path(t) /\ chan'[<<h, n>>] = Append(chan[<<h, n>>], m)
  <2>1. x \in Targets => NoPath(x) \in Message /\ NoPath(x) # Path(t)
    BY Messages
  <2> QED BY <1>1, <1>2, <2>1 DEF Passed
<1>4. CASE h # x
  <2>1. Serves(h, n, t) => Serves(h, n, t)'
    BY <1>1, <1>4 DEF Serves
  <2>2. parent'[h] = parent[h]
    BY <1>1, <1>4
  <2> QED BY <1>1, <1>3, <2>1, <2>2, Keeping
<1>5. CASE h = x /\ parent[x] # n /\ h = t
  <2>1. chan'[<<h, n>>] = chan[<<h, n>>]
    BY <1>3, <1>5
  <2>2. ~Serves(h, n, t)
    BY <1>5 DEF Serves
  <2>3. Backed(h, n, t)'
    BY <1>1, <2>1, <2>2 DEF Backed, InUse
  <2> QED BY <1>5, <2>3 DEF Heard
<1>6. CASE h = x /\ parent[x] # n /\ h # t
  <2>1. chan'[<<h, n>>] = chan[<<h, n>>]
    BY <1>3, <1>6
  <2>2. Serves(h, n, t)' <=> Serves(h, n, t)
    BY <1>6 DEF Serves
  <2>3. Backed(h, n, t)'
    BY <1>1, <2>1, <2>2 DEF Backed, InUse
  <2>4. <<h, n, t>> \notin untold => route[n][t].hop # h /\ ~Holds(chan[<<h, n>>], Path(t))
    BY <1>1, <1>6 DEF Heard
  <2> QED BY <1>1, <2>1, <2>3, <2>4 DEF Heard
<1>7. CASE h = x /\ parent[x] = n /\ <<h, n, t>> \in untold'
  BY <1>7 DEF Backed, Heard
<1>8. CASE h = x /\ parent[x] = n /\ <<h, n, t>> \notin untold'
  <2>1. h = t /\ chan' = Farewell(x) /\ HasRoom(x, parent[x])
    BY <1>1, <1>8 DEF LeavesUntold
  <2>2. chan' = Sent(chan, x, parent[x], x, FALSE)
    BY <1>8, <2>1 DEF Farewell
  <2>3. chan'[<<h, n>>] = Append(chan[<<h, n>>], NoPath(t))
    <3>1. Queues(chan) /\ x \in Targets
      BY <1>8, <2>1 DEF TypeOK, Queues
    <3>2. parent[x] # None => Len(chan[<<x, parent[x]>>]) < QueueSize
      BY <2>1 DEF HasRoom
    <3>3. Passed(chan, x, NoPath(x))
      BY <2>2, <3>1, <3>2, Passing
    <3> QED BY <1>1, <1>8, <2>1, <3>3 DEF Passed
  <2>4. Holds(chan'[<<h, n>>], NoPath(t)) /\ Silenced(chan'[<<h, n>>], t)
    BY <1>1, <2>3, AppendWord
  <2> QED BY <2>1, <2>4 DEF Backed, Heard
<1> QED BY <1>4, <1>5, <1>6, <1>7, <1>8

(* A DAO sent, by the target or by a router without a route.                *)
LEMMA KeptBySending ==
    ASSUME TypeOK, RoutesInv,
           UNCHANGED <<parent, route, untold>>,
           NEW x \in Nodes, NEW p \in Nodes, NEW u \in Targets, NEW m \in Message,
           \/ m = NoPath(u)
           \/ m = Path(u) /\ u = x /\ parent[x] = p,
           \A l \in Uplinks : l # <<x, p>> => chan'[l] = chan[l],
           <<x, p>> \in Uplinks => chan'[<<x, p>>] = Append(chan[<<x, p>>], m),
           NEW h \in Nodes, NEW n \in Nodes, NEW t \in Targets, <<h, n>> \in Uplinks
    PROVE  Backed(h, n, t)' /\ Heard(h, n, t)'
<1>1. /\ Backed(h, n, t) /\ Heard(h, n, t)
      /\ Serves(h, n, t)' <=> Serves(h, n, t)
  BY DEF RoutesInv, Serves
<1>2. CASE chan'[<<h, n>>] = chan[<<h, n>>] \/ m # Path(t)
  <2>1. \/ chan'[<<h, n>>] = chan[<<h, n>>]
        \/ \E w \in Message : w # Path(t) /\ chan'[<<h, n>>] = Append(chan[<<h, n>>], w)
    BY <1>2
  <2> QED BY <1>1, <2>1, Keeping
<1>3. CASE chan'[<<h, n>>] # chan[<<h, n>>] /\ m = Path(t)
  <2>1. <<h, n>> = <<x, p>> /\ m = Path(u) /\ t = u
    BY <1>3, Messages
  <2>2. h = t /\ parent[t] = n
    BY <2>1, Messages
  <2>3. Serves(h, n, t)'
    BY <2>2 DEF Serves
  <2> QED BY <2>2, <2>3 DEF Backed, Heard
<1> QED BY <1>2, <1>3

(* A DAO lost: an announcement may go, a withdrawal puts its target in      *)
(* untold.                                                                  *)
LEMMA KeptByLosing ==
    ASSUME TypeOK, RoutesInv, NEW c \in Nodes, NEW x \in Nodes, <<c, x>> \in Uplinks, Lose(c, x),
           NEW h \in Nodes, NEW n \in Nodes, NEW t \in Targets, <<h, n>> \in Uplinks
    PROVE  Backed(h, n, t)' /\ Heard(h, n, t)'
<1> DEFINE q == chan[<<c, x>>]
           m == Head(q)
<1>1. /\ Backed(h, n, t) /\ Heard(h, n, t)
      /\ Serves(h, n, t)' <=> Serves(h, n, t)
      /\ parent' = parent /\ route' = route
      /\ untold' = IF m.path THEN untold ELSE untold \cup {<<c, x, m.target>>}
  BY DEF RoutesInv, Serves, Lose
<1>2. q \in Seq(Message) /\ q # <<>> /\ Queues(chan) /\ chan' = Received(c, x)
  BY DEF Lose, TypeOK, Queues
<1>3. /\ \A l \in Uplinks : l # <<c, x>> => chan'[l] = chan[l]
      /\ chan'[<<c, x>>] = Tail(q) /\ m \in Message
  BY <1>2, ReceivedWord
<1>4. CASE <<h, n>> # <<c, x>>
  <2>1. chan'[<<h, n>>] = chan[<<h, n>>] /\ untold \subseteq untold'
    BY <1>1, <1>3, <1>4
  <2> QED BY <1>1, <2>1, Keeping
<1>5. CASE <<h, n>> = <<c, x>>
  <2>1. /\ Holds(Tail(q), Path(t)) => Holds(q, Path(t))
        /\ Holds(q, NoPath(t)) => m = NoPath(t) \/ Holds(Tail(q), NoPath(t))
        /\ Silenced(q, t) => Silenced(Tail(q), t)
    BY <1>2, TailWord
  <2>2. m = NoPath(t) => <<h, n, t>> \in untold'
    BY <1>1, <1>5 DEF NoPath
  <2>3. untold \subseteq untold' /\ h = c /\ n = x
    BY <1>1, <1>5
  <2>4. Backed(h, n, t)'
    BY <1>1, <1>3, <2>1, <2>2, <2>3 DEF Backed, InUse
  <2>5. Heard(h, n, t)'
    BY <1>1, <1>3, <2>1, <2>3 DEF Heard
  <2> QED BY <2>4, <2>5
<1> QED BY <1>4, <1>5

(* A DAO received: a No-Path DAO leaves the queue when it has made its      *)
(* route one out of use, an announcement when the sender can deliver or     *)
(* when a No-Path DAO follows; what is passed on is what n can do itself.   *)
LEMMA KeptByReceiving ==
    ASSUME TypeOK, RoutesInv, NEW c \in Nodes, NEW x \in Nodes, <<c, x>> \in Uplinks,
           ReceiveDao(c, x),
           NEW h \in Nodes, NEW n \in Nodes, NEW t \in Targets, <<h, n>> \in Uplinks
    PROVE  Backed(h, n, t)' /\ Heard(h, n, t)'
<1> DEFINE q == chan[<<c, x>>]
           m == Head(q)
           u == m.target
           ch == Received(c, x)
<1>1. /\ Backed(h, n, t) /\ Heard(h, n, t)
      /\ parent' = parent /\ untold' = untold /\ h # n
  BY NodesAssumption DEF RoutesInv, ReceiveDao
<1>2. /\ c # x /\ u \in Targets /\ q # <<>>
      /\ \A y \in Nodes, w \in Targets : <<y, w>> # <<x, u>> => route'[y][w] = route[y][w]
      /\ \/ m = Path(u) /\ Passed(ch, x, Path(u))
            /\ route'[x][u] = [hop |-> c, life |-> Lifetime, nopath |-> FALSE]
         \/ m = NoPath(u) /\ Passed(ch, x, NoPath(u)) /\ route[x][u].hop = c
            /\ ~route[x][u].nopath /\ route'[x][u] # NoRoute
            /\ route'[x][u].hop = c /\ route'[x][u].nopath
         \/ m = NoPath(u) /\ ~(route[x][u].hop = c /\ ~route[x][u].nopath)
            /\ route' = route /\ chan' = ch
  BY Receiving, ZenonT(60)
<1>3. /\ \A l \in Uplinks : l # <<c, x>> => ch[l] = chan[l]
      /\ ch[<<c, x>>] = Tail(q) /\ q \in Seq(Message) /\ m \in Message
  BY <1>2, ReceivedWord, SMTT(30) DEF TypeOK, Queues
<1>4. /\ route' # route => route'[x][u] # NoRoute /\ route'[x][u].hop = c
      /\ Serves(h, n, t) => Serves(h, n, t)'
  <2>1. route' # route => route'[x][u] # NoRoute /\ route'[x][u].hop = c
    <3>1. [hop |-> c, life |-> Lifetime, nopath |-> FALSE] # NoRoute
      BY Entries
    <3> QED BY <1>2, <3>1
  <2>2. ASSUME h # t, route[h][t] # NoRoute PROVE route'[h][t] # NoRoute
    BY <1>2, <2>1, <2>2
  <2> QED BY <1>1, <2>1, <2>2 DEF Serves
<1>5. \/ chan' = ch
      \/ /\ Passed(ch, x, m) /\ m \in {Path(u), NoPath(u)}
         /\ route'[x][u] # NoRoute
  BY <1>2, <1>3, <1>4, Entries
<1> HIDE DEF q, m, u, ch
<1>6. CASE <<h, n>> = <<c, x>>
  <2>0. h = c /\ n = x
    BY <1>6
  <2>1. chan'[<<c, x>>] = Tail(q)
    <3>1. <<c, x>> # <<x, parent[x]>>
      BY <1>2
    <3> QED BY <1>3, <1>5, <3>1 DEF Passed
  <2>2. /\ Holds(Tail(q), Path(t)) => Holds(q, Path(t))
        /\ Holds(q, NoPath(t)) => m = NoPath(t) \/ Holds(Tail(q), NoPath(t))
        /\ Silenced(q, t) => Silenced(Tail(q), t)
        /\ Silenced(q, t) /\ m = Path(t) => Holds(Tail(q), NoPath(t))
        /\ Holds(q, m)
    BY <1>2, <1>3, TailWord DEF m
  <2>3. CASE t # u
    <3>1. m # NoPath(t) /\ route'[n][t] = route[n][t]
      BY <1>2, <2>0, <2>3, Messages
    <3>2. Backed(h, n, t)'
      BY <1>1, <1>4, <2>0, <2>1, <2>2, <3>1 DEF Backed, InUse, q
    <3>3. Heard(h, n, t)'
      BY <1>1, <2>0, <2>1, <2>2, <3>1 DEF Heard, q
    <3> QED BY <3>2, <3>3
  <2>4. CASE t = u /\ m = Path(u)
    <3>1. Backed(h, n, t)'
      BY <1>1, <1>4, <2>0, <2>1, <2>2, <2>4 DEF Backed, q
    <3>2. Heard(h, n, t)'
      BY <1>1, <2>0, <2>2, <2>4 DEF Heard, q
    <3> QED BY <3>1, <3>2
  <2>5. CASE t = u /\ m # Path(u)
    <3>1. ~InUse(n, t, h)'
      BY <1>2, <2>0, <2>5 DEF InUse
    <3>2. Backed(h, n, t)'
      BY <1>1, <1>4, <2>0, <2>1, <2>2, <3>1 DEF Backed, q
    <3>3. route'[n][t].hop = h => route[n][t].hop = h
      BY <1>2, <2>0, <2>5
    <3>4. Heard(h, n, t)'
      BY <1>1, <2>0, <2>1, <2>2, <3>3 DEF Heard, q
    <3> QED BY <3>2, <3>4
  <2> QED BY <2>3, <2>4, <2>5
<1>7. CASE <<h, n>> # <<c, x>>
  <2>1. \/ route'[n][t].hop = route[n][t].hop /\ route'[n][t].nopath = route[n][t].nopath
        \/ route'[n][t].hop # h
    <3>1. CASE route' = route \/ <<n, t>> # <<x, u>>
      BY <1>2, <3>1
    <3>2. CASE route' # route /\ <<n, t>> = <<x, u>>
      BY <1>4, <1>7, <3>2
    <3> QED BY <3>1, <3>2
  <2>2. CASE chan'[<<h, n>>] = chan[<<h, n>>]
    BY <1>1, <1>4, <2>1, <2>2, Keeping
  <2>3. CASE chan'[<<h, n>>] # chan[<<h, n>>]
    <3>1. /\ <<h, n>> = <<x, parent[x]>> /\ Passed(ch, x, m)
          /\ route'[x][u] # NoRoute
          /\ chan'[<<h, n>>] = Append(chan[<<h, n>>], m)
      BY <1>3, <1>5, <1>7, <2>3, NodesAssumption DEF Passed
    <3>2. h = x /\ n = parent[h]
      BY <3>1
    <3>3. CASE m # Path(t)
      BY <1>1, <1>3, <1>4, <2>1, <3>1, <3>3, Keeping
    <3>4. CASE m = Path(t)
      <4>1. t = u
        BY <1>2, <3>4, Messages
      <4>2. Serves(h, n, t)'
        BY <1>1, <3>1, <3>2, <4>1 DEF Serves
      <4> QED BY <1>1, <3>2, <4>2 DEF Backed, Heard
    <3> QED BY <3>3, <3>4
  <2> QED BY <2>2, <2>3
<1> QED BY <1>6, <1>7

(* A purge: the parent hears of the entry taken, and to nobody else did x   *)
(* matter.                                                                  *)
LEMMA KeptByPurging ==
    ASSUME TypeOK, RoutesInv, NEW x \in Nodes, Tick(x),
           NEW h \in Nodes, NEW n \in Nodes, NEW t \in Targets, <<h, n>> \in Uplinks
    PROVE  Backed(h, n, t)' /\ Heard(h, n, t)'
<1>1. /\ Backed(h, n, t) /\ Heard(h, n, t)
      /\ parent' = parent /\ untold' = untold /\ h # n /\ h # Root
      /\ n # None /\ h # None /\ chan[<<h, n>>] \in Seq(Message)
  BY NodesAssumption DEF RoutesInv, Tick, TypeOK
<1>2. /\ route' \in Tables /\ route \in Tables
      /\ \A y \in Nodes, w \in Targets :
           \/ y # x /\ route'[y][w] = route[y][w]
           \/ y = x /\ route'[y][w] = Aged(route[y][w])
           \/ /\ y = x /\ w \in Expired(x) /\ route'[y][w] = NoRoute
              /\ x = Root \/ Passed(chan, x, NoPath(w))
      /\ \/ chan' = chan
         \/ \E w \in Expired(x) : Passed(chan, x, NoPath(w))
  BY Purging DEF Tick, TypeOK, Tables
<1>3. \/ route'[n][t].hop = route[n][t].hop /\ route'[n][t].nopath = route[n][t].nopath
      \/ route'[n][t].hop # h
  <2>1. route[n][t] \in Route
    BY <1>2 DEF Tables
  <2> QED BY <1>1, <1>2, <2>1, Entries
<1>4. \/ chan'[<<h, n>>] = chan[<<h, n>>]
      \/ \E m \in Message : m # Path(t) /\ chan'[<<h, n>>] = Append(chan[<<h, n>>], m)
  <2>1. \A w \in Expired(x) : NoPath(w) \in Message /\ NoPath(w) # Path(t)
    BY Messages DEF Expired
  <2> QED BY <1>1, <1>2, <2>1 DEF Passed
<1>5. CASE Serves(h, n, t) => Serves(h, n, t)'
  BY <1>1, <1>3, <1>4, <1>5, Keeping
<1>6. CASE Serves(h, n, t) /\ ~Serves(h, n, t)'
  <2>1. h # t /\ route[h][t] # NoRoute /\ route'[h][t] = NoRoute
    BY <1>1, <1>6 DEF Serves
  <2>2. route[h][t] \in Route /\ Aged(route[h][t]) # NoRoute
    <3>1. route[h][t] \in Route
      BY <1>2 DEF Tables
    <3> QED BY <2>1, <3>1, Entries
  <2>3. h = x /\ Passed(chan, x, NoPath(t))
    BY <1>1, <1>2, <2>1, <2>2
  <2>4. CASE parent[x] = n
    <3>1. chan'[<<h, n>>] = Append(chan[<<h, n>>], NoPath(t))
      BY <1>1, <2>3, <2>4 DEF Passed
    <3>2. NoPath(t) \in Message
      BY Messages
    <3>3. Holds(chan'[<<h, n>>], NoPath(t)) /\ Silenced(chan'[<<h, n>>], t)
      BY <1>1, <3>1, <3>2, AppendWord
    <3>4. Backed(h, n, t)'
      BY <3>3 DEF Backed
    <3>5. parent'[h] = n
      BY <1>1, <2>3, <2>4
    <3> QED BY <3>4, <3>5 DEF Heard
  <2>5. CASE parent[x] # n
    <3>1. chan'[<<h, n>>] = chan[<<h, n>>]
      BY <2>3, <2>5 DEF Passed
    <3>2. route'[n][t].hop = route[n][t].hop \/ route'[n][t].hop # h
      BY <1>3
    <3>3. <<h, n, t>> \notin untold
            => route[n][t].hop # h /\ ~Holds(chan[<<h, n>>], Path(t))
      BY <1>1, <2>1, <2>3, <2>5 DEF Heard
    <3>4. <<h, n, t>> \notin untold => Silenced(chan[<<h, n>>], t)
      BY <3>3 DEF Holds, Silenced
    <3>5. Backed(h, n, t)'
      BY <1>1, <3>1, <3>2, <3>3, <3>4 DEF Backed, InUse
    <3>6. Heard(h, n, t)'
      BY <1>1, <3>1, <3>2, <3>3 DEF Heard
    <3> QED BY <3>5, <3>6
  <2> QED BY <2>4, <2>5
<1> QED BY <1>5, <1>6

LEMMA RoutesStep == TypeOK /\ RoutesInv /\ [Next]_vars => RoutesInv'
<1> SUFFICES ASSUME TypeOK, RoutesInv, [Next]_vars,
                    NEW l \in Uplinks, NEW t \in Targets
             PROVE  Backed(l[1], l[2], t)' /\ Heard(l[1], l[2], t)'
  BY DEF RoutesInv
<1>1. PICK h \in Nodes, n \in Nodes : l = <<h, n>>
  BY NodesAssumption
<1>2. l[1] = h /\ l[2] = n /\ <<h, n>> \in Uplinks /\ Backed(h, n, t) /\ Heard(h, n, t)
  BY <1>1 DEF RoutesInv
<1> DEFINE Goal == Backed(h, n, t)' /\ Heard(h, n, t)'
<1>3. \A k \in Uplinks : k = <<k[1], k[2]>> /\ k[1] \in Nodes /\ k[2] \in Nodes
  BY NodesAssumption
<1> SUFFICES Goal
  BY <1>2
<1> HIDE DEF Goal
<1>4. ASSUME UNCHANGED <<parent, route, chan, untold>> PROVE Goal
  <2>1. Serves(h, n, t)' <=> Serves(h, n, t)
    BY <1>4 DEF Serves
  <2> QED BY <1>2, <1>4, <2>1, Keeping DEF Goal
<1>5. ASSUME NEW x \in Nodes \ {Root}, NEW p \in Nodes, SwitchParent(x, p) \/ AgentSwitch(x, p)
      PROVE  Goal
  <2>1. /\ p \in Parents(x) \cup {None}
        /\ parent' = [parent EXCEPT ![x] = p] /\ route' = route
        /\ \/ /\ HasRoom(x, parent[x]) /\ chan' = Farewell(x)
              /\ untold' = LeavesUntold(x, Targets \ {x})
           \/ /\ chan' = chan
              /\ untold' = LeavesUntold(x, Targets)
    BY <1>5 DEF SwitchParent, AgentSwitch
  <2> QED BY <1>2, <2>1, KeptByLeaving DEF Goal
<1>6. ASSUME NEW x \in Nodes \ {Root}, Detach(x) PROVE Goal
  <2>1. /\ parent' = [parent EXCEPT ![x] = None] /\ route' = route
        /\ HasRoom(x, parent[x]) /\ chan' = Farewell(x)
        /\ untold' = LeavesUntold(x, Targets \ {x})
        /\ None \in Parents(x) \cup {None}
    BY <1>6 DEF Detach
  <2> QED BY <1>2, <2>1, KeptByLeaving DEF Goal
<1>7. CASE RootDio
  BY <1>4, <1>7 DEF RootDio
<1>8. ASSUME NEW k \in Uplinks, HearDio(k[1], k[2]) PROVE Goal
  BY <1>4, <1>8 DEF HearDio
<1>9. ASSUME NEW k \in Uplinks, Lose(k[1], k[2]) PROVE Goal
  <2>1. PICK c \in Nodes, x \in Nodes : k = <<c, x>> /\ <<c, x>> \in Uplinks /\ Lose(c, x)
    BY <1>3, <1>9
  <2> QED BY <1>2, <2>1, KeptByLosing DEF Goal
<1>10. ASSUME NEW k \in Uplinks, BadLink(k[2], k[1]) PROVE Goal
  <2>1. /\ route' \in Tables
        /\ \A x \in Nodes, u \in Targets : /\ route'[x][u].hop = route[x][u].hop
                                           /\ route'[x][u].nopath = route[x][u].nopath
    BY <1>3, <1>10, Souring
  <2>2. \A x \in Nodes, u \in Targets : route'[x][u] = NoRoute <=> route[x][u] = NoRoute
    <3>1. \A x \in Nodes, u \in Targets : route'[x][u] \in Route /\ route[x][u] \in Route
      BY <2>1 DEF Tables, TypeOK
    <3> QED BY <2>1, <3>1, Entries
  <2>3. UNCHANGED <<parent, chan, untold>>
    BY <1>10 DEF BadLink
  <2>4. Serves(h, n, t)' <=> Serves(h, n, t)
    BY <2>2, <2>3 DEF Serves
  <2> QED BY <1>2, <2>1, <2>3, <2>4, Keeping DEF Goal
<1>11. ASSUME NEW x \in Targets, SendDao(x) PROVE Goal
  <2>1. /\ x \in Nodes /\ chan' = Sent(chan, x, parent[x], x, TRUE)
        /\ parent[x] # None => Len(chan[<<x, parent[x]>>]) < QueueSize
        /\ UNCHANGED <<parent, route, untold>>
    BY <1>11, NodesAssumption DEF SendDao, HasRoom
  <2>2. CASE parent[x] = None
    <3>1. chan' = chan
      BY <2>1, <2>2 DEF Sent
    <3> QED BY <1>4, <2>1, <3>1
  <2>3. CASE parent[x] # None
    <3>1. Passed(chan, x, Path(x))
      <4>1. Queues(chan)
        BY DEF TypeOK, Queues
      <4> QED BY <2>1, <4>1, Passing
    <3>2. parent[x] \in Nodes /\ Path(x) \in Message
      BY <2>1, <2>3, Messages DEF TypeOK
    <3> QED BY <1>2, <2>1, <2>3, <3>1, <3>2, KeptBySending DEF Goal, Passed
  <2> QED BY <2>2, <2>3
<1>12. ASSUME NEW x \in Nodes, NEW p \in Nodes, NEW u \in Targets, Unroutable(x, p, u)
       PROVE  Goal
  <2>1. /\ p \in Parents(x) /\ p # None /\ Len(chan[<<x, p>>]) < QueueSize
        /\ chan' = Sent(chan, x, p, u, FALSE) /\ Queues(chan)
        /\ UNCHANGED <<parent, route, untold>>
    BY <1>12, EmptySeq, NodesAssumption, BoundsAssumption DEF Unroutable, Parents, TypeOK, Queues
  <2>2. /\ \A k \in Uplinks : k # <<x, p>> => chan'[k] = chan[k]
        /\ chan'[<<x, p>>] = Append(chan[<<x, p>>], NoPath(u))
    <3>1. /\ chan' = [chan EXCEPT ![<<x, p>>] = Append(@, NoPath(u))]
          /\ <<x, p>> \in Uplinks
      BY <2>1 DEF Sent, NoPath, Parents
    <3> QED BY <2>1, <3>1 DEF Queues
  <2>3. NoPath(u) \in Message
    BY Messages
  <2> QED BY <1>2, <2>1, <2>2, <2>3, KeptBySending DEF Goal
<1>13. ASSUME NEW k \in Uplinks, ReceiveDao(k[1], k[2]) PROVE Goal
  <2>1. PICK c \in Nodes, x \in Nodes : k = <<c, x>> /\ <<c, x>> \in Uplinks /\ ReceiveDao(c, x)
    BY <1>3, <1>13
  <2> QED BY <1>2, <2>1, KeptByReceiving DEF Goal
<1>14. ASSUME NEW x \in Nodes, Tick(x) PROVE Goal
  BY <1>2, <1>14, KeptByPurging DEF Goal
<1>15. CASE UNCHANGED vars
  BY <1>4, <1>15 DEF vars
<1> QED
  BY <1>5, <1>6, <1>7, <1>8, <1>9, <1>10, <1>11, <1>12, <1>13, <1>14, <1>15
     DEF Next, Deliver

(* dao_input_storing, rpl_purge_routes and the farewells of rpl-dag.c, for  *)
(* any network, whatever changes of parent and losses there are: a route in *)
(* use leads to a neighbour that can take the packet on, or its No-Path DAO *)
(* is on the way, or it is one of those the code leaves in the dark.        *)
THEOREM RoutesStayBacked == Spec => []RoutesBacked
<1>1. Init => RoutesInv
  <2> SUFFICES ASSUME Init, NEW l \in Uplinks, NEW t \in Targets
               PROVE  Backed(l[1], l[2], t) /\ Heard(l[1], l[2], t)
    BY DEF RoutesInv
  <2>1. PICK h \in Nodes, n \in Nodes : l = <<h, n>> /\ l[1] = h /\ l[2] = n
    BY NodesAssumption
  <2>2. chan[<<h, n>>] = <<>> /\ route[n][t] = NoRoute /\ h # None
    BY <2>1, NodesAssumption DEF Init
  <2>3. ~\E i \in 1..Len(chan[<<h, n>>]) : TRUE
    BY <2>2
  <2> QED BY <2>1, <2>2, <2>3, Entries DEF Backed, Heard, InUse, Holds, Silenced
<1>2. RoutesInv => RoutesBacked
  BY DEF RoutesInv, RoutesBacked, Backed, InUse, Withdrawn, Holds, NoPath
<1> QED BY <1>1, <1>2, TypeInit, TypeStep, RoutesStep, PTL DEF Spec, Safety

-----------------------------------------------------------------------------
(* Renewal in time.  As long as no parent has changed and nothing was lost, *)
(* routes and announcements are on the target's way to the root, and every  *)
(* entry has a period more left than the registration that renews it has,   *)
(* unless that registration is due, or under way below the entry.           *)

Climbing(S) == \A m \in S : parent[m] # None => parent[m] \in S

(* x and the parents from x on.                                             *)
Above(x) == {n \in Nodes : \A S \in SUBSET Nodes : x \in S /\ Climbing(S) => n \in S}

LEMMA Climbs ==
    ASSUME TypeOK, NEW x \in Nodes
    PROVE  /\ x \in Above(x)
           /\ \A n \in Above(x) : parent[n] # None => parent[n] \in Above(x)
           /\ \A n \in Above(x) : n # x => parent[x] # None /\ n \in Above(parent[x])
<1>1. x \in Above(x)
  BY DEF Above
<1>2. ASSUME NEW n \in Above(x), parent[n] # None PROVE parent[n] \in Above(x)
  <2>1. n \in Nodes /\ parent[n] \in Nodes
    BY <1>2 DEF Above, TypeOK
  <2>2. ASSUME NEW S \in SUBSET Nodes, x \in S, Climbing(S) PROVE parent[n] \in S
    BY <1>2, <2>2 DEF Above, Climbing
  <2> QED BY <2>1, <2>2 DEF Above
<1>3. ASSUME NEW n \in Above(x), n # x PROVE parent[x] # None /\ n \in Above(parent[x])
  <2>0. n \in Nodes
    BY DEF Above
  <2>1. parent[x] # None
    <3> SUFFICES ASSUME parent[x] = None PROVE FALSE
      OBVIOUS
    <3>1. {x} \in SUBSET Nodes /\ x \in {x} /\ Climbing({x})
      BY DEF Climbing
    <3> QED BY <1>3, <3>1 DEF Above
  <2>2. ASSUME NEW S \in SUBSET Nodes, parent[x] \in S, Climbing(S) PROVE n \in S
    <3>1. S \cup {x} \in SUBSET Nodes /\ Climbing(S \cup {x})
      BY <2>2 DEF Climbing
    <3> QED BY <1>3, <3>1 DEF Above
  <2> QED BY <2>0, <2>1, <2>2 DEF Above
<1> QED BY <1>1, <1>2, <1>3

Bit(n) == IF n \in ticked THEN 1 ELSE 0

Calm == switches = 0 /\ losses = 0

Faithful ==
    /\ untold = {}
    /\ \A n \in Nodes : parent[n] = None => n = Root
    /\ \A t \in Targets : 4 * refresh[t] < 3 * Lifetime

(* Announcements only, each on its target's way up.                         *)
Upward ==
    \A l \in Uplinks, t \in Targets :
        /\ ~Holds(chan[l], NoPath(t))
        /\ Holds(chan[l], Path(t)) =>
             /\ parent[l[1]] = l[2]
             /\ l[1] = t \/ l[1] \in Above(parent[t])

Placed ==
    \A n \in Nodes, t \in Targets :
        route[n][t] # NoRoute => ~route[n][t].nopath /\ n \in Above(parent[t])

Fresh(n, t) == route[n][t].life + Bit(n) >= refresh[t] + 1 + Bit(t)

Due(n, t) ==
    \/ Fresh(n, t)
    \/ t \in daoTimer \/ refresh[t] = 0
    \/ \E l \in Uplinks : Holds(chan[l], Path(t)) /\ n \in Above(l[2])

Renewing ==
    \A n \in Nodes, t \in Targets :
        route[n][t] # NoRoute =>
          /\ Due(n, t)
          /\ ticked # {} => route[n][t].life >= 2 - Bit(n)

CalmInv == Calm => Faithful /\ Upward /\ Placed /\ Renewing

(* An entry with a period left and one to spare survives the next purge.    *)
LEMMA NothingExpires ==
    ASSUME TypeOK, Calm, CalmInv, NEW n \in Nodes, Tick(n)
    PROVE  /\ \A x \in Nodes, t \in Targets :
                route[x][t] # NoRoute => route[x][t].life >= 2 - Bit(x)
           /\ Expired(n) = {}
<1>1. \A x \in Nodes, t \in Targets : route[x][t] \in Route
  BY DEF TypeOK
<1>2. \A x \in Nodes, t \in Targets :
        route[x][t] # NoRoute => route[x][t].life >= 2 - Bit(x)
  <2> SUFFICES ASSUME NEW x \in Nodes, NEW t \in Targets, route[x][t] # NoRoute
               PROVE  route[x][t].life >= 2 - Bit(x)
    OBVIOUS
  <2>1. CASE ticked # {}
    BY <2>1 DEF CalmInv, Renewing
  <2>2. CASE ticked = {}
    <3>1. Quiet /\ Due(x, t)
      BY <2>2 DEF Tick, CalmInv, Renewing
    <3>2. \A l \in Uplinks : ~Holds(chan[l], Path(t))
      BY <3>1 DEF Quiet, Holds
    <3>3. Fresh(x, t) /\ refresh[t] \in Nat \ {0}
      BY <3>1, <3>2 DEF Quiet, Due, TypeOK
    <3>4. route[x][t].life \in Nat
      BY <1>1, Entries
    <3> QED BY <2>2, <3>3, <3>4 DEF Fresh, Bit
  <2> QED BY <2>1, <2>2
<1>3. Expired(n) = {}
  <2> SUFFICES ASSUME NEW t \in Targets, route[n][t] # NoRoute, Aged(route[n][t]).life < 1
               PROVE  FALSE
    BY DEF Expired
  <2>1. Bit(n) = 0 /\ route[n][t].life \in Nat
    BY <1>1, Entries DEF Tick, Bit
  <2>2. route[n][t].life >= 2
    BY <1>2, <2>1
  <2>3. Aged(route[n][t]).life = route[n][t].life - 1
    BY <1>1, <2>1, <2>2, Entries
  <2> QED BY <2>1, <2>2, <2>3
<1> QED BY <1>2, <1>3

LEMMA CalmHearing ==
    ASSUME TypeOK, Calm, CalmInv, UNCHANGED <<parent, route, chan, ticked, untold>>,
           NEW n \in Nodes, ScheduleDao(n) \/ UNCHANGED <<daoTimer, refresh>>
    PROVE  CalmInv'
<1>1. Faithful /\ Upward /\ Placed /\ Renewing
  BY DEF CalmInv
<1>2. /\ daoTimer \subseteq daoTimer'
      /\ \A t \in Targets : refresh'[t] = refresh[t] \/ t \in daoTimer'
      /\ \A t \in Targets : 4 * refresh'[t] < 3 * Lifetime
  BY <1>1 DEF ScheduleDao, TypeOK, Faithful, RefreshDelays
<1>3. Faithful' /\ Upward' /\ Placed'
  BY <1>1, <1>2 DEF Faithful, Upward, Placed, Above, Climbing
<1>4. ASSUME NEW x \in Nodes, NEW t \in Targets, route[x][t] # NoRoute PROVE Due(x, t)'
  <2>1. Due(x, t)
    BY <1>1, <1>4 DEF Renewing
  <2> QED BY <1>2, <2>1 DEF Due, Fresh, Bit, Above, Climbing
<1>5. Renewing'
  BY <1>1, <1>4 DEF Renewing, Bit
<1> QED BY <1>3, <1>5 DEF CalmInv

LEMMA CalmSending ==
    ASSUME TypeOK, Calm, CalmInv, NEW t \in Targets, SendDao(t)
    PROVE  CalmInv'
<1>1. /\ Faithful /\ Upward /\ Placed /\ Renewing
      /\ UNCHANGED <<parent, route, ticked, untold>>
      /\ t \in Nodes /\ parent[t] # None
  BY NodesAssumption DEF CalmInv, SendDao, Faithful
<1>2. Passed(chan, t, Path(t)) /\ Path(t) \in Message /\ chan \in [Uplinks -> Seq(Message)]
  <2>1. chan' = Sent(chan, t, parent[t], t, TRUE) /\ Queues(chan)
        /\ Len(chan[<<t, parent[t]>>]) < QueueSize
    BY <1>1 DEF SendDao, HasRoom, TypeOK, Queues
  <2> QED BY <1>1, <2>1, Passing, Messages DEF Queues
<1>3. \A l \in Uplinks : \A m : Holds(chan'[l], m)
        <=> Holds(chan[l], m) \/ (l = <<t, parent[t]>> /\ m = Path(t))
  <2> SUFFICES ASSUME NEW l \in Uplinks, NEW m
               PROVE  Holds(chan'[l], m)
                        <=> Holds(chan[l], m) \/ (l = <<t, parent[t]>> /\ m = Path(t))
    OBVIOUS
  <2>1. CASE l = <<t, parent[t]>>
    <3>1. chan'[l] = Append(chan[l], Path(t)) /\ chan[l] \in Seq(Message)
      BY <1>1, <1>2, <2>1 DEF Passed
    <3> QED BY <1>2, <2>1, <3>1, AppendWord
  <2>2. CASE l # <<t, parent[t]>>
    BY <1>2, <2>2 DEF Passed
  <2> QED BY <2>1, <2>2
<1>4. /\ \A u \in Targets \ {t} : refresh'[u] = refresh[u] /\ (u \in daoTimer => u \in daoTimer')
      /\ \A u \in Targets : 4 * refresh'[u] < 3 * Lifetime
  BY <1>1 DEF SendDao, Rearm, TypeOK, Faithful, RefreshDelays
<1>5. \A x : Above(x)' = Above(x)
  BY <1>1 DEF Above, Climbing
<1>6. Faithful'
  BY <1>1, <1>4 DEF Faithful
<1>7. Placed'
  BY <1>1, <1>5 DEF Placed
<1>8. Upward'
  <2> SUFFICES ASSUME NEW l \in Uplinks, NEW u \in Targets
               PROVE  /\ ~Holds(chan'[l], NoPath(u))
                      /\ Holds(chan'[l], Path(u)) =>
                           /\ parent[l[1]] = l[2]
                           /\ l[1] = u \/ l[1] \in Above(parent[u])
    BY <1>1, <1>5 DEF Upward
  <2>1. /\ ~Holds(chan[l], NoPath(u))
        /\ Holds(chan[l], Path(u)) =>
             /\ parent[l[1]] = l[2]
             /\ l[1] = u \/ l[1] \in Above(parent[u])
    BY <1>1 DEF Upward
  <2>2. NoPath(u) # Path(t) /\ (u # t => Path(u) # Path(t))
    BY Messages
  <2> QED BY <1>3, <2>1, <2>2
<1>9. ASSUME NEW n \in Nodes, NEW u \in Targets, route[n][u] # NoRoute PROVE Due(n, u)'
  <2>1. CASE u = t
    <3>1. n \in Above(parent[t]) /\ <<t, parent[t]>> \in Uplinks
      BY <1>1, <1>2, <1>9, <2>1 DEF Placed, Passed
    <3>2. Holds(chan'[<<t, parent[t]>>], Path(u))
      BY <1>3, <2>1, <3>1
    <3>3. \E l \in Uplinks : Holds(chan'[l], Path(u)) /\ n \in Above(l[2])
      BY <3>1, <3>2
    <3> QED BY <1>5, <3>3 DEF Due
  <2>2. CASE u # t
    <3>1. Due(n, u)
      BY <1>1, <1>9 DEF Renewing
    <3> QED BY <1>1, <1>3, <1>4, <1>5, <2>2, <3>1 DEF Due, Fresh, Bit
  <2> QED BY <2>1, <2>2
<1>10. Renewing'
  BY <1>1, <1>9 DEF Renewing, Bit
<1> QED BY <1>6, <1>7, <1>8, <1>10 DEF CalmInv

LEMMA CalmReceiving ==
    ASSUME TypeOK, Calm, CalmInv, Lifetime >= 4,
           NEW c \in Nodes, NEW x \in Nodes, <<c, x>> \in Uplinks, ReceiveDao(c, x)
    PROVE  CalmInv'
<1> DEFINE q == chan[<<c, x>>]
           t == Head(q).target
           ch == Received(c, x)
           new == [hop |-> c, life |-> Lifetime, nopath |-> FALSE]
<1>1. /\ Faithful /\ Upward /\ Placed /\ Renewing
      /\ UNCHANGED <<parent, ticked, untold, refresh, daoTimer>>
      /\ \A y : Above(y)' = Above(y)
  BY DEF CalmInv, ReceiveDao, Above, Climbing
<1>2. q \in Seq(Message) /\ q # <<>> /\ Queues(chan)
  BY DEF TypeOK, Queues, ReceiveDao
<1>3. /\ \A l \in Uplinks : l # <<c, x>> => ch[l] = chan[l]
      /\ ch[<<c, x>>] = Tail(q) /\ Queues(ch)
      /\ Holds(q, Head(q))
  BY <1>2, ReceivedWord, TailWord
<1>4. /\ c # x /\ t \in Targets /\ Head(q) = Path(t)
      /\ \A y \in Nodes, u \in Targets : <<y, u>> # <<x, t>> => route'[y][u] = route[y][u]
      /\ route'[x][t] = new
      /\ Passed(ch, x, Path(t))
  <2>1. t \in Targets
    BY Receiving
  <2>2. Head(q) # NoPath(t)
    BY <1>1, <1>3, <2>1 DEF Upward
  <2> QED BY <2>2, Receiving
<1> HIDE DEF q, t, ch
<1>5. parent[c] = x /\ x \in Above(parent[t]) /\ parent[t] \in Nodes
  <2>1. parent[c] = x /\ (c = t \/ c \in Above(parent[t]))
    BY <1>1, <1>3, <1>4 DEF Upward, q
  <2>2. parent[t] \in Nodes /\ x # None
    BY <1>1, <1>4, NodesAssumption DEF Faithful, TypeOK
  <2> QED BY <2>1, <2>2, Climbs
<1>6. \A l \in Uplinks, u \in Targets :
        /\ Holds(chan'[l], NoPath(u)) => Holds(chan[l], NoPath(u))
        /\ Holds(chan'[l], Path(u)) => Holds(chan[l], Path(u)) \/ (l = <<x, parent[x]>> /\ u = t)
        /\ Holds(chan[l], Path(u)) => Holds(chan'[l], Path(u)) \/ (l = <<c, x>> /\ u = t)
  <2> SUFFICES ASSUME NEW l \in Uplinks, NEW u \in Targets
               PROVE  /\ Holds(chan'[l], NoPath(u)) => Holds(chan[l], NoPath(u))
                      /\ Holds(chan'[l], Path(u))
                           => Holds(chan[l], Path(u)) \/ (l = <<x, parent[x]>> /\ u = t)
                      /\ Holds(chan[l], Path(u))
                           => Holds(chan'[l], Path(u)) \/ (l = <<c, x>> /\ u = t)
    OBVIOUS
  <2>0. NoPath(u) # Path(t) /\ (u # t => Path(u) # Path(t)) /\ Path(t) \in Message
    BY <1>4, Messages
  <2>1. CASE l = <<c, x>>
    <3>1. chan'[l] = Tail(q) /\ chan[l] = q
      <4>1. l # <<x, parent[x]>>
        BY <1>4, <2>1
      <4> QED BY <1>3, <1>4, <2>1, <4>1 DEF Passed, q
    <3>2. /\ \A m : Holds(Tail(q), m) => Holds(q, m)
          /\ \A m : Holds(q, m) => Head(q) = m \/ Holds(Tail(q), m)
      BY <1>2, TailWord
    <3> QED BY <1>4, <2>0, <2>1, <3>1, <3>2
  <2>2. CASE l = <<x, parent[x]>>
    <3>1. l # <<c, x>> /\ parent[x] # None
      BY <1>4, <2>2, NodesAssumption
    <3>2. chan'[l] = Append(chan[l], Path(t)) /\ chan[l] \in Seq(Message)
      BY <1>2, <1>3, <1>4, <2>2, <3>1 DEF Passed, Queues
    <3>3. \A m : Holds(chan'[l], m) <=> Holds(chan[l], m) \/ Path(t) = m
      BY <2>0, <3>2, AppendWord
    <3> QED BY <2>0, <2>2, <3>3
  <2>3. CASE l # <<c, x>> /\ l # <<x, parent[x]>>
    BY <1>3, <1>4, <2>3 DEF Passed
  <2> QED BY <2>1, <2>2, <2>3
<1>7. Faithful'
  BY <1>1 DEF Faithful
<1>8. Upward'
  <2> SUFFICES ASSUME NEW l \in Uplinks, NEW u \in Targets
               PROVE  /\ ~Holds(chan'[l], NoPath(u))
                      /\ Holds(chan'[l], Path(u)) =>
                           /\ parent[l[1]] = l[2]
                           /\ l[1] = u \/ l[1] \in Above(parent[u])
    BY <1>1 DEF Upward
  <2>1. /\ ~Holds(chan[l], NoPath(u))
        /\ Holds(chan[l], Path(u)) =>
             /\ parent[l[1]] = l[2]
             /\ l[1] = u \/ l[1] \in Above(parent[u])
    BY <1>1 DEF Upward
  <2> QED BY <1>5, <1>6, <2>1
<1>9. Placed'
  <2> SUFFICES ASSUME NEW n \in Nodes, NEW u \in Targets, route'[n][u] # NoRoute
               PROVE  ~route'[n][u].nopath /\ n \in Above(parent[u])
    BY <1>1 DEF Placed
  <2>1. CASE <<n, u>> = <<x, t>>
    BY <1>4, <1>5, <2>1
  <2>2. CASE <<n, u>> # <<x, t>>
    BY <1>1, <1>4, <2>2 DEF Placed
  <2> QED BY <2>1, <2>2
<1>10. ASSUME NEW n \in Nodes, NEW u \in Targets, route'[n][u] # NoRoute
       PROVE  Due(n, u)' /\ (ticked # {} => route'[n][u].life >= 2 - Bit(n))
  <2>1. CASE <<n, u>> = <<x, t>>
    <3>1. refresh[t] \in Nat /\ 4 * refresh[t] < 3 * Lifetime /\ Lifetime \in Nat
      BY <1>1, <1>4, BoundsAssumption DEF Faithful, TypeOK
    <3>2. route'[n][u].life = Lifetime /\ refresh' = refresh
      BY <1>1, <1>4, <2>1
    <3>3. Lifetime >= refresh[t] + 2
      BY <3>1
    <3>4. Fresh(n, u)'
      BY <1>1, <2>1, <3>1, <3>2, <3>3 DEF Fresh, Bit
    <3> QED BY <3>1, <3>2, <3>4 DEF Due, Bit
  <2>2. CASE <<n, u>> # <<x, t>>
    <3>1. route'[n][u] = route[n][u] /\ Due(n, u)
          /\ (ticked # {} => route[n][u].life >= 2 - Bit(n))
      BY <1>1, <1>4, <1>10, <2>2 DEF Renewing
    <3>2. CASE Fresh(n, u) \/ u \in daoTimer \/ refresh[u] = 0
      BY <1>1, <3>1, <3>2 DEF Due, Fresh, Bit
    <3>3. ASSUME NEW l \in Uplinks, Holds(chan[l], Path(u)), n \in Above(l[2])
          PROVE  \E k \in Uplinks : Holds(chan'[k], Path(u)) /\ n \in Above(k[2])
      <4>1. CASE l = <<c, x>> /\ u = t
        <5>1. n # x /\ n \in Above(x)
          BY <2>2, <3>3, <4>1
        <5>2. parent[x] # None /\ n \in Above(parent[x])
          BY <5>1, Climbs
        <5>3. <<x, parent[x]>> \in Uplinks /\ <<x, parent[x]>> # <<c, x>>
              /\ chan'[<<x, parent[x]>>] = Append(ch[<<x, parent[x]>>], Path(t))
          BY <1>4, <5>2 DEF Passed
        <5>4. Holds(chan'[<<x, parent[x]>>], Path(u))
          BY <1>3, <1>4, <4>1, <5>3, AppendWord, Messages DEF Queues
        <5>5. n \in Above(<<x, parent[x]>>[2])
          BY <5>2
        <5> QED BY <5>3, <5>4, <5>5
      <4>2. CASE ~(l = <<c, x>> /\ u = t)
        BY <1>6, <3>3, <4>2
      <4> QED BY <4>1, <4>2
    <3> QED BY <1>1, <3>1, <3>2, <3>3 DEF Due
  <2> QED BY <2>1, <2>2
<1>11. Renewing'
  BY <1>1, <1>10 DEF Renewing, Bit
<1> QED BY <1>7, <1>8, <1>9, <1>11 DEF CalmInv

LEMMA CalmTicking ==
    ASSUME TypeOK, Calm, CalmInv, NEW n \in Nodes, Tick(n)
    PROVE  /\ CalmInv'
           /\ \A x \in Nodes, t \in Targets : route[x][t] # NoRoute => route'[x][t] # NoRoute
<1>1. /\ Faithful /\ Upward /\ Placed /\ Renewing
      /\ UNCHANGED <<parent, daoTimer, untold>> /\ n \notin ticked
      /\ \A x : Above(x)' = Above(x)
  BY DEF CalmInv, Tick, Above, Climbing
<1>2. /\ Expired(n) = {}
      /\ \A x \in Nodes, t \in Targets :
           route[x][t] # NoRoute => route[x][t].life >= 2 - Bit(x)
  BY NothingExpires
<1>3. /\ chan' = chan
      /\ \A x \in Nodes, t \in Targets :
           route'[x][t] = IF x = n THEN Aged(route[x][t]) ELSE route[x][t]
  <2>1. HasRoom(n, parent[n]) /\ Purge(n)
    BY DEF Tick
  <2> QED BY <1>2, <2>1, Purging
<1>4. \A x \in Nodes, t \in Targets :
        /\ route[x][t].life \in Nat
        /\ route'[x][t] = NoRoute <=> route[x][t] = NoRoute
        /\ route'[x][t].nopath = route[x][t].nopath
        /\ route[x][t] # NoRoute =>
             route'[x][t].life = IF x = n THEN route[x][t].life - 1 ELSE route[x][t].life
  <2> SUFFICES ASSUME NEW x \in Nodes, NEW t \in Targets
               PROVE  /\ route[x][t].life \in Nat
                      /\ route'[x][t] = NoRoute <=> route[x][t] = NoRoute
                      /\ route'[x][t].nopath = route[x][t].nopath
                      /\ route[x][t] # NoRoute =>
                           route'[x][t].life = IF x = n THEN route[x][t].life - 1
                                                        ELSE route[x][t].life
    OBVIOUS
  <2>1. route[x][t] \in Route
    BY DEF TypeOK
  <2>2. x = n /\ route[x][t] # NoRoute => route[x][t].life >= 2
    BY <1>1, <1>2 DEF Bit
  <2> QED BY <1>3, <2>1, <2>2, Entries
<1>5. \A t \in Targets :
        /\ refresh[t] \in Nat
        /\ refresh'[t] = IF t = n /\ refresh[t] > 0 THEN refresh[t] - 1 ELSE refresh[t]
  BY DEF Tick, TypeOK
<1>6. \/ ticked' = {} /\ ticked \cup {n} = Nodes
      \/ ticked' = ticked \cup {n}
  BY DEF Tick
<1>7. Faithful'
  <2>1. \A t \in Targets : 4 * refresh'[t] < 3 * Lifetime
    BY <1>1, <1>5, BoundsAssumption DEF Faithful
  <2> QED BY <1>1, <2>1 DEF Faithful
<1>8. Upward'
  BY <1>1, <1>3 DEF Upward
<1>9. Placed'
  BY <1>1, <1>4 DEF Placed
<1>10. ASSUME NEW x \in Nodes, NEW t \in Targets, route'[x][t] # NoRoute
       PROVE  Due(x, t)' /\ (ticked' # {} => route'[x][t].life >= 2 - Bit(x)')
  <2>1. route[x][t] # NoRoute /\ Due(x, t) /\ t \in Nodes
    BY <1>1, <1>4, <1>10, NodesAssumption DEF Renewing
  <2>2. ASSUME t \in daoTimer \/ refresh[t] = 0 PROVE Due(x, t)'
    BY <1>1, <1>5, <2>2 DEF Due
  <2>3. ASSUME \E l \in Uplinks : Holds(chan[l], Path(t)) /\ x \in Above(l[2])
        PROVE  Due(x, t)'
    BY <1>1, <1>3, <2>3 DEF Due
  <2>4. ASSUME Fresh(x, t), refresh[t] > 0 PROVE Due(x, t)'
    <3>1. /\ route'[x][t].life = IF x = n THEN route[x][t].life - 1 ELSE route[x][t].life
          /\ refresh'[t] = IF t = n THEN refresh[t] - 1 ELSE refresh[t]
          /\ route[x][t].life \in Nat /\ refresh[t] \in Nat
      BY <1>4, <1>5, <2>1, <2>4
    <3>2. CASE ticked' = {} /\ ticked \cup {n} = Nodes
      <4>1. /\ Bit(x) = (IF x = n THEN 0 ELSE 1) /\ Bit(t) = (IF t = n THEN 0 ELSE 1)
            /\ Bit(x)' = 0 /\ Bit(t)' = 0
        BY <1>1, <2>1, <3>2 DEF Bit
      <4> QED BY <2>4, <3>1, <4>1 DEF Due, Fresh
    <3>3. CASE ticked' = ticked \cup {n}
      <4>1. /\ Bit(x)' = (IF x = n THEN 1 ELSE Bit(x)) /\ (x = n => Bit(x) = 0)
            /\ Bit(t)' = (IF t = n THEN 1 ELSE Bit(t)) /\ (t = n => Bit(t) = 0)
            /\ Bit(x) \in {0, 1} /\ Bit(t) \in {0, 1}
        BY <1>1, <3>3 DEF Bit
      <4> QED BY <2>4, <3>1, <4>1 DEF Due, Fresh
    <3> QED BY <1>6, <3>2, <3>3
  <2>5. Due(x, t)'
    BY <1>5, <2>1, <2>2, <2>3, <2>4 DEF Due
  <2>6. ticked' # {} => route'[x][t].life >= 2 - Bit(x)'
    <3>1. /\ route'[x][t].life = IF x = n THEN route[x][t].life - 1 ELSE route[x][t].life
          /\ route[x][t].life \in Nat /\ route[x][t].life >= 2 - Bit(x)
      BY <1>2, <1>4, <2>1
    <3>2. ticked' # {} => /\ Bit(x)' = IF x = n THEN 1 ELSE Bit(x)
                          /\ x = n => Bit(x) = 0
      BY <1>1, <1>6 DEF Bit
    <3> QED BY <3>1, <3>2 DEF Bit
  <2> QED BY <2>5, <2>6
<1>11. Renewing'
  BY <1>10 DEF Renewing
<1> QED BY <1>4, <1>7, <1>8, <1>9, <1>11 DEF CalmInv

(* No packet can find a router without a route.                             *)
LEMMA NothingUnroutable ==
    ASSUME TypeOK, RoutesBacked, Calm, CalmInv,
           NEW n \in Nodes, NEW p \in Nodes, NEW t \in Targets, Unroutable(n, p, t)
    PROVE  FALSE
<1>1. <<n, p>> \in Uplinks /\ untold = {} /\ ~Holds(chan[<<n, p>>], NoPath(t))
  BY DEF Unroutable, CalmInv, Faithful, Upward
<1>2. route[p][t].hop = n /\ ~route[p][t].nopath /\ ~Serves(n, p, t)
  BY DEF Unroutable, Serves
<1>3. Serves(n, p, t) \/ Withdrawn(n, p, t)
  BY <1>1, <1>2 DEF RoutesBacked
<1> QED BY <1>1, <1>2, <1>3 DEF Withdrawn, Holds, NoPath

LEMMA CalmStep ==
    ASSUME TypeOK, RoutesBacked, CalmInv, [Next]_vars, Lifetime >= 4, Calm'
    PROVE  /\ CalmInv'
           /\ \A x \in Nodes, t \in Targets : route[x][t] # NoRoute => route'[x][t] # NoRoute
<1> DEFINE Goal ==
      /\ CalmInv'
      /\ \A x \in Nodes, t \in Targets : route[x][t] # NoRoute => route'[x][t] # NoRoute
<1> SUFFICES Goal
  OBVIOUS
<1> HIDE DEF Goal
<1>1. switches \in Nat /\ losses \in Nat /\ switches' = 0 /\ losses' = 0
  BY BoundsAssumption DEF TypeOK, Calm
<1>2. \A k \in Uplinks : k = <<k[1], k[2]>> /\ k[1] \in Nodes /\ k[2] \in Nodes
  BY NodesAssumption
<1>3. CASE UNCHANGED vars
  BY <1>1, <1>3, CalmHearing DEF vars, Calm, CalmInv, Goal, Faithful, Upward, Placed, Renewing,
     Due, Fresh, Bit, Above, Climbing
<1>4. ASSUME NEW x \in Nodes, NEW p \in Nodes, SwitchParent(x, p) \/ AgentSwitch(x, p) \/ Detach(x)
      PROVE  Goal
  BY <1>1, <1>4 DEF SwitchParent, AgentSwitch, Detach
<1>5. CASE RootDio
  <2>1. Calm /\ UNCHANGED <<parent, route, chan, ticked, untold, daoTimer, refresh>>
    BY <1>1, <1>5 DEF RootDio, Calm
  <2> QED BY <2>1, CalmHearing, NodesAssumption DEF Goal
<1>6. ASSUME NEW k \in Uplinks, HearDio(k[1], k[2]) PROVE Goal
  <2>1. /\ Calm /\ UNCHANGED <<parent, route, chan, ticked, untold>>
        /\ ScheduleDao(k[1]) \/ UNCHANGED <<daoTimer, refresh>>
    BY <1>1, <1>6 DEF HearDio, Calm
  <2> QED BY <1>2, <2>1, CalmHearing DEF Goal
<1>7. ASSUME NEW k \in Uplinks, Lose(k[1], k[2]) \/ BadLink(k[2], k[1]) PROVE Goal
  BY <1>1, <1>7 DEF Lose, BadLink
<1>8. ASSUME NEW t \in Targets, SendDao(t) PROVE Goal
  <2>1. Calm /\ route' = route
    BY <1>1, <1>8 DEF SendDao, Calm
  <2> QED BY <1>8, <2>1, CalmSending DEF Goal
<1>9. ASSUME NEW n \in Nodes, NEW p \in Nodes, NEW t \in Targets, Unroutable(n, p, t) PROVE Goal
  <2>1. Calm
    BY <1>1, <1>9 DEF Unroutable, Calm
  <2> QED BY <1>9, <2>1, NothingUnroutable
<1>10. ASSUME NEW k \in Uplinks, ReceiveDao(k[1], k[2]) PROVE Goal
  <2>1. PICK c \in Nodes, x \in Nodes : <<c, x>> \in Uplinks /\ ReceiveDao(c, x)
    BY <1>2, <1>10
  <2>2. Calm
    BY <1>1, <1>10 DEF ReceiveDao, Calm
  <2>3. CalmInv'
    BY <2>1, <2>2, CalmReceiving
  <2>4. \A y \in Nodes, t \in Targets : route[y][t] # NoRoute => route'[y][t] # NoRoute
    <3> DEFINE u == Head(chan[<<c, x>>]).target
    <3>1. /\ \A y \in Nodes, t \in Targets :
               <<y, t>> # <<x, u>> => route'[y][t] = route[y][t]
          /\ \/ route'[x][u] = [hop |-> c, life |-> Lifetime, nopath |-> FALSE]
             \/ route'[x][u] # NoRoute
             \/ route' = route
      BY <2>1, Receiving
    <3>2. [hop |-> c, life |-> Lifetime, nopath |-> FALSE] # NoRoute
      BY Entries
    <3> HIDE DEF u
    <3> QED BY <3>1, <3>2
  <2> QED BY <2>3, <2>4 DEF Goal
<1>11. ASSUME NEW n \in Nodes, Tick(n) PROVE Goal
  <2>1. Calm
    BY <1>1, <1>11 DEF Tick, Calm
  <2> QED BY <1>11, <2>1, CalmTicking DEF Goal
<1> QED
  BY <1>3, <1>4, <1>5, <1>6, <1>7, <1>8, <1>9, <1>10, <1>11 DEF Next, Deliver

(* set_dao_lifetime_timer and rpl_purge_routes, for any network and any     *)
(* lifetime of at least four periods (rpl-conf.h: 30; project-conf.h: 10):  *)
(* while parents stay and nothing is lost, an entry is renewed in time.     *)
THEOREM RenewedInTime == Lifetime >= 4 => (Spec => RefreshedInTime)
<1> SUFFICES ASSUME Lifetime >= 4 PROVE Spec => RefreshedInTime
  OBVIOUS
<1>1. Init => CalmInv
  <2> SUFFICES ASSUME Init PROVE Faithful /\ Upward /\ Placed /\ Renewing
    BY DEF CalmInv
  <2>1. /\ untold = {} /\ ticked = {}
        /\ \A n \in Nodes, t \in Targets : route[n][t] = NoRoute
        /\ \A l \in Uplinks : chan[l] = <<>>
        /\ \A t \in Targets : refresh[t] \in RefreshDelays
    BY DEF Init
  <2>2. Faithful
    BY <2>1, NodesAssumption DEF Faithful, RefreshDelays, Init, Parents
  <2>3. Upward
    BY <2>1 DEF Upward, Holds
  <2> QED BY <2>1, <2>2, <2>3 DEF Placed, Renewing
<1>2. TypeOK /\ RoutesBacked /\ CalmInv /\ [Next]_vars => CalmInv'
  BY CalmStep DEF CalmInv
<1>3. TypeOK /\ RoutesBacked /\ CalmInv /\ [Next]_vars
        => [\A n \in Nodes, t \in Targets :
              switches' = 0 /\ losses' = 0 /\ route[n][t] # NoRoute
                => route[n][t]' # NoRoute]_vars
  BY CalmStep DEF Calm
<1> QED BY <1>1, <1>2, <1>3, Typing, RoutesStayBacked, PTL DEF Spec, Safety, RefreshedInTime

=============================================================================
