----------------------------- MODULE DaoRoutes -----------------------------
(* Downward routes in storing mode: every target announces itself with DAOs *)
(* to its parent, each router keeps a route and passes the DAO on to the    *)
(* parent it has at that moment, No-Path DAOs take routes back, lifetimes   *)
(* take back what no message does.  DAOs are not acknowledged               *)
(* (RPL_WITH_DAO_ACK 0); those of one link arrive in order, or are lost.    *)
(*                                                                          *)
(* rpl-icmp6.c (dao_input_storing, dao_output), rpl.c (rpl_purge_routes),   *)
(* rpl-timers.c (DAO timers), rpl-ext-header.c (update_hbh_header), and     *)
(* what rpl-dag.c and rpl-rl-agent.c do to registrations when they change   *)
(* the parent.                                                              *)
EXTENDS Naturals, Sequences, FiniteSets

CONSTANTS
    Nodes,       \* the routers
    Root,
    None,        \* no parent, no next hop
    Targets,     \* nodes with a global address, whose DAOs are followed
    Uplinks,     \* pairs <<c, p>>: p has the lower rank, c may choose it
    Lifetime,    \* default_lifetime, in periods of the purge
    NoPathDelay, \* RPL_NOPATH_REMOVAL_DELAY, in the same unit
    QueueSize,   \* bound: DAOs under way on a link
    MaxSwitches, \* bound: changes of parent
    MaxLosses    \* bound: lost DAOs and links gone bad

ASSUME NodesAssumption ==
    /\ Root \in Nodes /\ None \notin Nodes
    /\ Targets \subseteq Nodes \ {Root}
    /\ Uplinks \subseteq (Nodes \ {Root}) \X Nodes
    /\ \A l \in Uplinks : l[1] # l[2]
ASSUME BoundsAssumption ==
    /\ Lifetime \in Nat \ {0} /\ NoPathDelay \in Nat /\ NoPathDelay <= Lifetime
    /\ QueueSize \in Nat \ {0} /\ MaxSwitches \in Nat /\ MaxLosses \in Nat

VARIABLES
    parent,   \* dag->preferred_parent of every node
    route,    \* route[n][t]: the entry of n for t
    chan,     \* DAOs under way on each link, oldest first
    news,     \* <<c, p>>: p has a dtsn_out newer than the one c recorded
    daoTimer, \* targets whose instance->dao_timer runs
    refresh,  \* periods left on each target's dao_lifetime_timer
    ticked,   \* nodes whose periodic timer has fired in this period
    switches, losses,
    untold    \* <<h, n, t>>: h may have lost t without word to n (history)

vars == <<parent, route, chan, news, daoTimer, refresh, ticked, switches,
          losses, untold>>

NoRoute == [hop |-> None, life |-> 0, nopath |-> FALSE]
Route   == [hop : Nodes, life : 0..Lifetime, nopath : BOOLEAN] \cup {NoRoute}
Message == [target : Targets, path : BOOLEAN]

(* The next registration falls between 1/2 and 3/4 of the lifetime.         *)
RefreshDelays == {d \in 0..Lifetime : 2 * d >= Lifetime /\ 4 * d < 3 * Lifetime}

Parents(n) == {p \in Nodes : <<n, p>> \in Uplinks}

-----------------------------------------------------------------------------
(* Messages *)

Sent(ch, n, p, t, path) ==
    IF p = None THEN ch
    ELSE [ch EXCEPT ![<<n, p>>] = Append(@, [target |-> t, path |-> path])]

HasRoom(n, p) == p # None => Len(chan[<<n, p>>]) < QueueSize

(* Nothing under way and no DAO due.  A period is a minute, a DAO takes     *)
(* seconds, so a period does not begin before.                              *)
Quiet ==
    /\ \A l \in Uplinks : chan[l] = <<>>
    /\ daoTimer = {}
    /\ \A t \in Targets : refresh[t] > 0

(* schedule_dao: a timer that runs is left alone, lifetime timer included.  *)
ScheduleDao(n) ==
    IF n \in Targets \ daoTimer
      THEN /\ daoTimer' = daoTimer \cup {n}
           /\ \E d \in RefreshDelays : refresh' = [refresh EXCEPT ![n] = d]
      ELSE UNCHANGED <<daoTimer, refresh>>

(* RPL_LOLLIPOP_INCREMENT(instance->dtsn_out): the next DIO is news to all. *)
Announced(n) == news \cup {l \in Uplinks : l[2] = n}

-----------------------------------------------------------------------------
(* Changes of parent *)

(* dao_output(last_parent, RPL_ZERO_LIFETIME): own prefix only.             *)
Farewell(n) ==
    IF n \in Targets THEN Sent(chan, n, parent[n], n, FALSE) ELSE chan

LeavesUntold(n, ts) ==
    untold \cup (IF parent[n] = None THEN {} ELSE {<<n, parent[n], t>> : t \in ts})

(* rpl_select_dag, or a parent found after a local repair.                  *)
SwitchParent(n, p) ==
    /\ switches < MaxSwitches
    /\ p \in Parents(n) \ {parent[n]}
    /\ HasRoom(n, parent[n])
    /\ chan' = Farewell(n)
    /\ parent' = [parent EXCEPT ![n] = p]
    /\ news' = Announced(n)
    /\ ScheduleDao(n)
    /\ untold' = LeavesUntold(n, Targets \ {n})
    /\ switches' = switches + 1
    /\ UNCHANGED <<route, ticked, losses>>

(* The parent is nullified and rpl_local_repair follows.                    *)
Detach(n) ==
    /\ switches < MaxSwitches
    /\ parent[n] # None
    /\ HasRoom(n, parent[n])
    /\ chan' = Farewell(n)
    /\ parent' = [parent EXCEPT ![n] = None]
    /\ news' = Announced(n)
    /\ untold' = LeavesUntold(n, Targets \ {n})
    /\ switches' = switches + 1
    /\ UNCHANGED <<route, daoTimer, refresh, ticked, losses>>

(* The agent commits: the parent changes, and nothing else does.            *)
AgentSwitch(n, p) ==
    /\ switches < MaxSwitches
    /\ p \in Parents(n) \ {parent[n]}
    /\ parent' = [parent EXCEPT ![n] = p]
    /\ untold' = LeavesUntold(n, Targets)
    /\ switches' = switches + 1
    /\ UNCHANGED <<route, chan, news, daoTimer, refresh, ticked, losses>>

-----------------------------------------------------------------------------
(* DIOs that ask for DAOs *)

(* dio_output: the root asks with every multicast DIO, at most once before  *)
(* the answers are in.                                                      *)
RootDio ==
    /\ Quiet /\ ticked = {}
    /\ news' = Announced(Root)
    /\ UNCHANGED <<parent, route, chan, daoTimer, refresh, ticked, switches,
                   losses, untold>>

(* rpl_process_dio: a parent's newer DTSN is passed on and answered.        *)
HearDio(c, p) ==
    /\ <<c, p>> \in news
    /\ IF parent[c] = p
         THEN /\ news' = Announced(c) \ {<<c, p>>}
              /\ ScheduleDao(c)
         ELSE /\ news' = news \ {<<c, p>>}
              /\ UNCHANGED <<daoTimer, refresh>>
    /\ UNCHANGED <<parent, route, chan, ticked, switches, losses, untold>>

-----------------------------------------------------------------------------
(* DAOs *)

(* set_dao_lifetime_timer, only if the timer has expired.                   *)
Rearm(t) ==
    IF refresh[t] = 0
      THEN \E d \in RefreshDelays : refresh' = [refresh EXCEPT ![t] = d]
      ELSE UNCHANGED refresh

(* handle_dao_timer, for either timer.                                      *)
SendDao(t) ==
    /\ t \in daoTimer \/ refresh[t] = 0
    /\ HasRoom(t, parent[t])
    /\ chan' = Sent(chan, t, parent[t], t, TRUE)
    /\ daoTimer' = daoTimer \ {t}
    /\ Rearm(t)
    /\ UNCHANGED <<parent, route, news, ticked, switches, losses, untold>>

Received(c, n) == [chan EXCEPT ![<<c, n>>] = Tail(@)]

(* A DAO with a lifetime: rpl_add_route, then on to the parent.             *)
ReceivePath(c, n, t) ==
    /\ route' = [route EXCEPT ![n][t] =
                    [hop |-> c, life |-> Lifetime, nopath |-> FALSE]]
    /\ chan' = Sent(Received(c, n), n, parent[n], t, TRUE)

(* A No-Path DAO counts if it comes from the next hop, and counts once.     *)
ReceiveNoPath(c, n, t) ==
    IF route[n][t].hop = c /\ ~route[n][t].nopath
      THEN /\ route' = [route EXCEPT ![n][t] =
                            [hop |-> c, life |-> NoPathDelay, nopath |-> TRUE]]
           /\ chan' = Sent(Received(c, n), n, parent[n], t, FALSE)
      ELSE /\ chan' = Received(c, n)
           /\ UNCHANGED route

(* dao_input_storing *)
ReceiveDao(c, n) ==
    /\ chan[<<c, n>>] # <<>>
    /\ HasRoom(n, parent[n])
    /\ LET m == Head(chan[<<c, n>>])
       IN  IF m.path THEN ReceivePath(c, n, m.target)
                     ELSE ReceiveNoPath(c, n, m.target)
    /\ UNCHANGED <<parent, news, daoTimer, refresh, ticked, switches, losses,
                   untold>>

(* A DAO is lost, or dropped on arrival: no room for the neighbour or the   *)
(* route, or a sender whose recorded rank is lower than ours.               *)
Lose(c, n) ==
    /\ losses < MaxLosses
    /\ chan[<<c, n>>] # <<>>
    /\ chan' = Received(c, n)
    /\ LET m == Head(chan[<<c, n>>])
       IN  untold' = IF m.path THEN untold
                               ELSE untold \cup {<<c, n, m.target>>}
    /\ losses' = losses + 1
    /\ UNCHANGED <<parent, route, news, daoTimer, refresh, ticked, switches>>

(* update_hbh_header: a packet for t going down reaches n, which has no     *)
(* route.  It is dropped, and a No-Path DAO sent to p, where it came from.  *)
(* Another is only worth a step when that one is in.                        *)
Unroutable(n, p, t) ==
    /\ <<n, p>> \in Uplinks
    /\ n # t /\ route[n][t] = NoRoute
    /\ route[p][t].hop = n /\ ~route[p][t].nopath
    /\ chan[<<n, p>>] = <<>>
    /\ chan' = Sent(chan, n, p, t, FALSE)
    /\ UNCHANGED <<parent, route, news, daoTimer, refresh, ticked, switches,
                   losses, untold>>

(* rpl_process_parent_event finds the link to c unacceptable: routes by c   *)
(* are left to the next purge (rpl_remove_routes_by_nexthop).               *)
BadLink(n, c) ==
    /\ losses < MaxLosses
    /\ \E t \in Targets : route[n][t].hop = c
    /\ route' = [route EXCEPT ![n] =
                    [t \in Targets |-> IF @[t].hop = c THEN [@[t] EXCEPT !.life = 0]
                                                       ELSE @[t]]]
    /\ losses' = losses + 1
    /\ UNCHANGED <<parent, chan, news, daoTimer, refresh, ticked, switches, untold>>

-----------------------------------------------------------------------------
(* rpl_purge_routes *)

(* Mutant: an entry goes with its last period, not after it. *)
AgedEarly(r) == [r EXCEPT !.life = IF @ <= 2 THEN 0 ELSE @ - 1]

(* Mutant: a lifetime of 0 is decremented too. *)
AgedUnguarded(r) == [r EXCEPT !.life = @ - 1]

(* Mutant: the first pass is left out. *)
NeverAged(r) == r

(* First pass.                                                              *)
Aged(r) == [r EXCEPT !.life = IF @ >= 1 THEN @ - 1 ELSE 0]

Expired(n) ==
    {t \in Targets : route[n][t] # NoRoute /\ Aged(route[n][t]).life < 1}

Purged(n, gone) ==
    [route EXCEPT ![n] =
        [t \in Targets |-> IF t \in gone THEN NoRoute ELSE Aged(route[n][t])]]

(* Mutant: routes expire without a No-Path DAO. *)
SilentPurge(n) ==
    /\ route' = Purged(n, Expired(n))
    /\ UNCHANGED chan

(* Second pass.  The root removes all that expired and tells nobody; others *)
(* remove one, report it, and leave the rest to the next period.            *)
Purge(n) ==
    IF n = Root \/ Expired(n) = {}
      THEN /\ route' = Purged(n, Expired(n))
           /\ UNCHANGED chan
      ELSE \E t \in Expired(n) :
             /\ route' = Purged(n, {t})
             /\ chan' = Sent(chan, n, parent[n], t, FALSE)

(* The periodic timer of n fires, once a period, and its lifetime timer     *)
(* runs on.                                                                 *)
Tick(n) ==
    /\ n \notin ticked
    /\ ticked = {} => Quiet
    /\ HasRoom(n, parent[n])
    /\ Purge(n)
    /\ refresh' = IF n \in Targets /\ refresh[n] > 0
                    THEN [refresh EXCEPT ![n] = @ - 1] ELSE refresh
    /\ ticked' = IF ticked \cup {n} = Nodes THEN {} ELSE ticked \cup {n}
    /\ UNCHANGED <<parent, news, daoTimer, switches, losses, untold>>

-----------------------------------------------------------------------------
(* Everybody has just joined and is about to register.                      *)
Init ==
    /\ parent \in {f \in [Nodes -> Nodes \cup {None}] :
                    /\ f[Root] = None
                    /\ \A n \in Nodes \ {Root} : f[n] \in Parents(n)}
    /\ route = [n \in Nodes |-> [t \in Targets |-> NoRoute]]
    /\ chan = [l \in Uplinks |-> <<>>]
    /\ news = {}
    /\ daoTimer = Targets
    /\ refresh \in [Targets -> RefreshDelays]
    /\ ticked = {}
    /\ switches = 0 /\ losses = 0
    /\ untold = {}

Deliver == \E l \in Uplinks : ReceiveDao(l[1], l[2])

Next ==
    \/ \E n \in Nodes \ {Root} :
         \/ \E p \in Nodes : SwitchParent(n, p) \/ AgentSwitch(n, p)
         \/ Detach(n)
    \/ RootDio
    \/ \E l \in Uplinks :
         HearDio(l[1], l[2]) \/ Lose(l[1], l[2]) \/ BadLink(l[2], l[1])
    \/ \E t \in Targets :
         \/ SendDao(t)
         \/ \E n, p \in Nodes : Unroutable(n, p, t)
    \/ Deliver
    \/ \E n \in Nodes : Tick(n)

(* Timers fire: both DAO timers call SendDao, the periodic timer re-arms    *)
(* itself.  A DAO that is not lost arrives.                                 *)
Fairness ==
    /\ \A t \in Targets : WF_vars(SendDao(t))
    /\ \A l \in Uplinks : WF_vars(ReceiveDao(l[1], l[2]))
    /\ \A n \in Nodes : SF_vars(Tick(n))

Safety == Init /\ [][Next]_vars
Spec   == Safety /\ Fairness

-----------------------------------------------------------------------------
(* Types; queues stay within their bound.                                   *)
TypeOK ==
    /\ parent \in [Nodes -> Nodes \cup {None}]
    /\ \A n \in Nodes : parent[n] \in Parents(n) \cup {None}
    /\ route \in [Nodes -> [Targets -> Route]]
    /\ chan \in [Uplinks -> Seq(Message)]
    /\ \A l \in Uplinks : Len(chan[l]) <= QueueSize
    /\ news \subseteq Uplinks
    /\ daoTimer \subseteq Targets
    /\ refresh \in [Targets -> 0..Lifetime]
    /\ ticked \subseteq Nodes
    /\ switches \in 0..MaxSwitches /\ losses \in 0..MaxLosses
    /\ untold \subseteq Nodes \X Nodes \X Targets

(* h can deliver to t for n: it is t and n's child, or has a route itself.  *)
Serves(h, n, t) ==
    IF h = t THEN parent[t] = n ELSE route[h][t] # NoRoute

Withdrawn(h, n, t) ==
    \E i \in 1..Len(chan[<<h, n>>]) : chan[<<h, n>>][i] = [target |-> t, path |-> FALSE]

(* A route in use leads to a neighbour that can take the packet on, unless  *)
(* its No-Path DAO is on the way or n is one of those the code leaves in    *)
(* the dark (a lost No-Path DAO, a commit of the agent, and for the targets *)
(* behind it any change of parent).  dao_input_storing passes No-Path DAOs  *)
(* to the parent of the moment and honours each once; rpl_purge_routes      *)
(* reports one removal a period.                                            *)
RoutesBacked ==
    \A l \in Uplinks, t \in Targets :
        LET h == l[1]  n == l[2]
        IN  route[n][t].hop = h /\ ~route[n][t].nopath /\ <<h, n, t>> \notin untold
              => Serves(h, n, t) \/ Withdrawn(h, n, t)

(* While parents stay and nothing is lost, a route once installed is renewed *)
(* before rpl_purge_routes takes it: the lifetime timer's 1/2 to 3/4 and    *)
(* the purge that keeps entries "just decremented from 2 to 1" fit.         *)
RefreshedInTime ==
    [][\A n \in Nodes, t \in Targets :
         switches' = 0 /\ losses' = 0 /\ route[n][t] # NoRoute
           => route[n][t]' # NoRoute]_vars

Ancestors(t) ==
    LET up[k \in 0..Cardinality(Nodes)] ==
          IF k = 0 THEN {t}
          ELSE up[k - 1] \cup ({parent[n] : n \in up[k - 1]} \ {None})
    IN  up[Cardinality(Nodes)] \ {t}

(* The tables hold the routes of the present tree, and no others.           *)
Settled ==
    \A t \in Targets, n \in Nodes :
        IF n \in Ancestors(t)
          THEN /\ ~route[n][t].nopath
               /\ route[n][t].hop \in Ancestors(t) \cup {t}
               /\ parent[route[n][t].hop] = n
          ELSE route[n][t] = NoRoute

(* When parents stop changing and DAOs stop being lost, the tables become,  *)
(* and stay, the routes of the tree: stale entries expire, late and lost    *)
(* DAOs and the agent's unannounced changes are made good by the lifetime   *)
(* timer (handle_dao_timer, rpl_purge_routes).                              *)
RoutesSettle == <>[]Settled
=============================================================================
