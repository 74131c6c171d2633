# RPL with a learning agent: models and proofs

This directory specifies, model-checks and proves properties of the RPL routing
stack of this repository, in the variant
`src/RL/Version2-OnlyTauDIO-RL-Lakhlef` (called *the code* below): Contiki-NG's
RPL Classic with an objective function of its own (OF-TAU), a health value *tau*
announced in every DIO, and a Q-learning agent that chooses the preferred parent.
It is the most recent line of work of the repository. The other directories under
`src/` are earlier or alternative copies of the same stack, a third-party baseline
(mRPL) and simulation material; none of them is modelled.

File names without a directory are those of `rpl/` in that variant.

## 1. The system

| Part | State | Operations | Talks to |
|---|---|---|---|
| DODAG membership (`rpl-dag.c`) | instance, DAG, table `rpl_parents`, preferred parent, rank, `min_rank`, flags `RPL_PARENT_FLAG_UPDATED` | `rpl_process_dio`, `rpl_join_instance`, `global_repair`, `rpl_local_repair`, `rpl_recalculate_ranks`, `rpl_process_parent_event`, `rpl_select_dag`, `rpl_nullify_parent`, `rpl_remove_parent` | everything below |
| Objective function (`rpl-of-tau.c`) | none of its own | `best_parent`, `rank_via_parent`, link filters, `handle_panic_monitor` | asked by `rpl-dag.c`, calls the agent |
| Agent (`rpl-rl-agent.c`) | Q-table, learning clock, per neighbour `tau_cand`, `rl_time_attachment`, `rl_state_S`, `rl_tau_at_choice`, `rl_last_rssi`, `rl_time_last_dio` | `rpl_rl_on_dio_received`, `rpl_rl_trigger`, `update_q_table` | called on each DIO and by the panic monitor; sets parent and rank |
| Versions (`rpl-private.h`, `rpl-dag.c`) | `dag->version` of every node | `rpl_repair_root`, `rpl_set_root`, the version tests of `rpl_process_dio` | DIOs |
| Timers (`rpl-timers.c`) | Trickle interval, DAO timers, probing target | `handle_periodic_timer`, `handle_dao_timer`, `handle_dio_timer`, probing | `rpl-dag.c`, `rpl-icmp6.c` |
| Control messages (`rpl-icmp6.c`) | routes learned from DAOs | `dio_input`, `dao_input_storing`, `dao_output` | routes, parents |
| Routes (`rpl.c`) | lifetimes of routes, default router list | `rpl_purge_routes`, `rpl_add_route`, neighbour callbacks | uIP |
| Header (`rpl-ext-header.c`) | none | `rpl_verify_hbh_header` and the header updates | parents' ranks, DIO timer |
| Health metrics (`rpl-dag.c`, PE) | degree, parent changes, energy, queue | `rpl_pe_update_local` | the tau announced |
| Neighbour policy (`rpl-nbr-policy.c`) | none | `find_removable_dio`, `_dao`, `_dis` | asked by the neighbour table when it is full |
| Root, non-storing graph | `rpl-dag-root.c`, `rpl-ns.c` | | |

Contiki runs one event handler at a time, so a handler is one step. Difficulty
does not come from preemption but from **who acts next**: three parties move the
preferred parent (the agent, the periodic recalculation, the repairs), each with
its own idea of what goes with a change of parent; data of the neighbours (rank, tau,
score, link statistics, time stamps) is stale by the time the next party reads
it; messages are late, lost or repeated; tables are full; pointers outlive the slots they
point to. One handler is split
into steps: `rpl_recalculate_ranks` visits several flagged parents and each visit
may change the parent.

What should be true:

* the preferred parent is in the table, a detached node is silent, the announced
  rank is the one through the parent or a recalculation is due, `min_rank` cannot
  creep, a hand-over is complete, a lasting parent gets to know of us, a detached
  node comes back (membership);
* an eligible candidate never loses to an unusable one, tau decides among close path
  costs (objective function);
* the agent picks only neighbours that are heard and have a rank, learns towards the
  reward, never keeps a detached node out while learning, reacts to a bad link, does not
  switch between equals (agent);
* nobody overtakes the root, a repair reaches everybody, versions are ordered one way, and the
  bytes that wrap do the work of plain counters (versions);
* a route in use leads to a node that can take the packet on or is being taken back, a route
  that is renewed does not expire, the tables settle to the routes of the tree (DAOs);
* an inconsistency is answered in bounded time, a burst of them does not flood the network,
  a consistent network falls silent (Trickle);
* the statistics of a parent that is stale are renewed, whatever the probing targets point to
  (probing);
* every packet comes to an end, a packet lost to a loop has left word with a node that can mend
  it, and there is no false alarm (header);
* a full neighbour table keeps the preferred parent and the next hops, and settles to the best
  neighbours (neighbour policy);
* an update never cuts off a node that was reachable, and the graph becomes the tree of the
  network (non-storing root).

`PROJECT.json` lists the hazards of the code at their lines with the properties that
would catch them.

## 2. Modules

| Module | Models | Used by |
|---|---|---|
| `Lollipop` | counter arithmetic and order of `rpl-private.h` and `lollipop_greater_than` | `DodagVersion` |
| `RepairEpochs` | abstract: what versions are for, with natural numbers | implemented by `DodagVersion` |
| `DodagVersion` | the version of every node and of the last DIO each one broadcast | |
| `OfTau` | every metric function of `rpl-of-tau.c`, and `tau_cand` of `rpl-dag.c` | `BestParentScan`, `RplDag`, `RlAgent` |
| `BestParentScan` | `best_parent(dag, fresh_only)`, the scan of the neighbour table | |
| `RplDag` | one router's parents, parent, rank, default route, registrations | |
| `RlAgent` | the agent in both modes, its gates, metadata and Q-table, the panic monitor | |
| `DaoRoutes` | DAOs and routes of a storing network whose parents change | |
| `DioTimer` | the Trickle timer of one instance | |
| `Probing` | link statistics, the probing timer and its targets, `rpl_select_parent` | |
| `NbrPolicy` | who takes a place in a full neighbour table, and whose | |
| `Forwarding` | one packet and the checks of its hop-by-hop header, over any network | |
| `RplNs` | the graph a non-storing root keeps | |
| `*_proofs` | the theorems of a module; those about `Lollipop` are in `DodagVersion_proofs`, those about `BestParentScan` beside the router that asks for the scan in `RplDag_proofs`, those about `Probing` beside the other timer in `DioTimer_proofs` | |
| `MC*` | constants for TLC | |

Each module keeps the source's names where it can. How they fit together:

* `RplDag` leaves open *which* usable neighbour the agent picks: `AgentChoices` is the
  present parent or any neighbour heard lately with a finite rank. `RlAgent` has the
  decision, and its property `AgentKeepsToUsable` is just that contract, proved.
* `RplDag` leaves open *which* eligible candidate the objective function prefers
  (`BestOf`). `BestParentScan` has the scan, and `EligibleWins` is that contract, proved.
* `RplDag` leaves open which link statistics are fresh. `Probing` has what makes them so.
* `RplDag!Evict` and `Probing!Admit` leave open whose place a new neighbour takes. `NbrPolicy` has the
  choice.
* `RlAgent` leaves open what `rpl-dag.c` does to the parent: the action `Override`.
* `RplDag` takes a newer version as an event; `DodagVersion` has the versions.
* `DaoRoutes` takes the changes of parent as events, in their two forms: with the hand-over
  that `RplDag` does in `Select` (`SwitchParent`, `Detach`; that the hand-over is complete is
  `HandOverComplete`, proved), and without, as the agent commits (`AgentSwitch`).
* `DioTimer` takes the inconsistencies as events: they are the calls of
  `rpl_reset_dio_timer` in the other parts.
* `Forwarding` leaves ranks, parents and routes open, right or wrong. The words it leaves
  (`told`, `corrected`, `withdrawn`) are events of the others: a unicast DIO,
  `RplDag!RankErrorHeader`, `DaoRoutes!Unroutable`.

### RplDag

| Variable | Code |
|---|---|
| `joined` | the instance is in use and `dag->joined` |
| `tbl`, `prank`, `upd`, `heard` | entries of `rpl_parents`, their `rank`, `RPL_PARENT_FLAG_UPDATED`, and whether `rl_time_last_dio` is within `RL_NEIGHBOR_TIMEOUT` |
| `etx` | link metric of each neighbour |
| `pref`, `rank`, `minRank` | `dag->preferred_parent`, `dag->rank`, `dag->min_rank` |
| `locked` | entries of `rpl_parents` that are locked: `rpl_set_preferred_parent` moves the lock, `Evict` respects it |
| `routers`, `defRoute` | the uIP default router list, `instance->def_route` |
| `registered` | neighbours that got a DAO of ours and no No-Path DAO since |
| `daoTimer` | `instance->dao_timer` runs |
| `ticking` | between two parents in the loop of `rpl_recalculate_ranks` |

Actions: `Join` (`rpl_join_instance`), `ReceiveDio` (`rpl_process_dio`, same version, with
the agent's call inside), `GlobalRepair`, `Panic` (`handle_panic_monitor`), `Tick` and then
`Nullify`, `Select`, `SelectNone` (`rpl_process_parent_event` on one flagged parent:
nullification, a hand-over, or a local repair), `Evict` (`nbr_table` takes an entry),
`NeighborCallback`, `LinkCallback` (`rpl.c`), `LoopingDao`, `RankErrorHeader`,
`NeighborTimeout`, `DaoTimer`, `DaoLifetimeTimer`.

Freshness of link statistics and RSSI change without any handler running, so `Selected`
lets them be anything when the recalculation asks for them. What the ETX alone decides is
kept (`MayBeEligible`).

`IntWidth` is the width of an `int` (16 on sky and z1, 32 on cooja and native). `acceptable_rank`
adds `max_rankinc` to a `uint16_t` without a cast (`rpl-dag.c:693`), so in 16 bits the limit wraps
around for ranks from 63744 on (`Limit`, from `UncastSum` of `OfTau`). Ranks below the root's are not
announced: no router of this code does (theorem `Typing`). `rpl_process_dio` would ignore such a
DIO in a DODAG it has joined at that version, though not when it joins or repairs.

### RlAgent

`joined` tells a node that has not joined (`Join` next) from one whose table has emptied, whose next
DIO is an ordinary one (`ReceiveDio`). `tau_cand` is `score`; the other per-neighbour fields have names of their own. Time is
counted in periods of `RL_STABILITY_CONSTANT` up to the tenth, from which the reward is capped at
`RL_MAX_REWARD`. Epsilon never falls below `RL_EPSILON_MIN`, so any active action may be
chosen in production. The tie-break on ETX and RSSI trend inside a bin is left open. The
two functions that compute a score are kept apart, as in the code: `DioScore` (what
`rpl_process_dio` and `rpl_add_parent` store) and `CandidateScore` (what everything else
recomputes).

### DodagVersion

A DIO stays in the air until its sender's next one, and any node may receive it any
number of times or never. Nodes lose their memory; the root may, at the versions in
`Rebootable`.

That it implements `RepairEpochs` is the property `RepairsInOrder`, under the mapping that
gives every version the number of the repair it stands for (`EpochOf`): the root's is the number
of repairs so far, the others' are counted back from it. Versions alone do not say the number;
the root's count (`repairs`) does.

### DaoRoutes

| Variable | Code |
|---|---|
| `parent` | `dag->preferred_parent` of every node |
| `route` | uIP's routes: next hop, `state.lifetime`, `RPL_ROUTE_ENTRY_NOPATH_RECEIVED` |
| `chan` | DAOs on each link, in order |
| `news` | links whose upper end has raised `dtsn_out` since the lower end took it over |
| `daoTimer`, `refresh` | `dao_timer` runs; periods left of `dao_lifetime_timer` |
| `ticked` | whose periodic timer has fired in this period |
| `untold` (history) | routes the code takes no care of: their No-Path DAO was lost, the agent moved the child, or they are for targets behind a child that moved |

Actions: `SwitchParent`, `Detach` (No-Path DAO, new DTSN, DAO scheduled), `AgentSwitch`,
`RootDio`, `HearDio` (`rpl_process_dio`, the DTSN part), `SendDao` (`handle_dao_timer`),
`ReceiveDao` (`dao_input_storing`: route and forwarding, whole), `Lose`, `Unroutable`
(`update_hbh_header`), `BadLink` (`rpl_remove_routes_by_nexthop`), `Tick` (`rpl_purge_routes`, both
passes). Time passes in periods of the purge, a minute; a DAO takes seconds to its
destination, so a period begins when none is under way and none is due (`Quiet`). This is an
assumption on time scales, not a guard of the code: `handle_periodic_timer` purges every second
(`rpl-timers.c:86-117`), whether or not a DAO is under way, and counts lifetimes of minutes.

### DioTimer

The names are those of the instance. `half` is half of the interval, so that T is drawn from
`half .. 2 * half`; `left` counts down to the expiry of `dio_timer`. `waiting`, `age` and `gap`
are history: how long an inconsistency has waited, and how long ago the last decision was.
The ticks of `Tick` are the unit of `HalfMin`, as fine as one likes. `dio_send_ok` and the
postponement until there is an address are modelled.

### Probing

The targets are kept as pointers, that is, as slots of the neighbour table: `Admit` gives a slot
to another neighbour, and `urgent` stays. The neighbour table, uIP's neighbour cache (`nd`) and
link statistics (`fresh`, and in `turn` the order of `last_tx_time`) are modelled from how the code uses them. Whether a parent
is chosen by the objective function or the agent is left open (`BestParents`,
`Override`); the branch of `rpl_select_parent` that defers to a fresh parent and asks for an
urgent probe is not.

### NbrPolicy

`table` holds the neighbours with a place, of which some are `parents`, some are next hops of routes
(`child`). `lost` are the parents whose recorded rank is infinite because of a looping DAO. `Places` is what
`nbr_table_add_lladdr` does with the answer of the policy: a free place, a place taken
from somebody, or none. Which of several equals has to go depends on the order of the table and is left
open. The root, where DIOs add no parents, is an initial state of its own. `NextRank` is the sum of
`rpl-nbr-policy.c:203`, as wide as the target's `int` (`IntWidth`): in 16 bits it wraps around for an
infinite rank, and `Great` then finds the sender better than anybody (`Wrapped`).

### Forwarding

One action per case a packet meets in `rpl_verify_hbh_header` and `rpl_update_header`, in the
order of the code: `Verify` first, then delivery, the root's new header, or `update_hbh_header`. A packet
crosses the network before the next control message is handled, so ranks, parents and
routes stay as they are; `Init` takes every assignment of them. The hop limit is left out:
a packet that only the hop limit would end is visible as one that never ends.

### RplNs

`slot` is the pool of `memb`, `used` the list, and parent pointers are slot numbers, so
that a pointer may lead to a freed slot and to the node that gets it next. The stages of
`rpl_ns_update_node` are operators on a graph (`Adopted`, `Renewed`, `Linked`), composed in `Dao`. The
network (`up`) changes under it as it likes, as long as it is a tree. `late` holds the parents a node has
left and messages about which may come yet: a DAO that names one (`LateDao`) or the No-Path
DAO sent on leaving it (`NoPath`), in any order with the DAOs that name the present one, and after a return to that
parent too; `AllIn` ends it.

### Abstractions common to all

One instance and one DAG per node (the arrays of the code have room for more; joining a second
DAG is planned). Wording, logging, and the statistics counters are left out. The
retransmission of a DAO and the acknowledgement are compiled out
(`RPL_WITH_DAO_ACK 0`), the mode is storing (MOP 2) but in `RplNs`.

## 3. Runs

| Run | Shows | Instance |
|---|---|---|
| `version` | repairs reach all; nobody is ahead of a root with a memory; the order is asymmetric; versions implement plain counters | root and two routers, starts 126, 242, 254, two repairs, one power cycle each of the root (while at 240..250) and of a router |
| `scan` | an eligible candidate is never lost | 100 candidate records, on each side of every limit, tables of three |
| `dag` | parent, rank, `min_rank`, route and registration stay consistent | two neighbours; 16-bit ints; ranks 256, 64000 (beyond `MaxRankInc` for a node near the root, and high enough for the limit to wrap around), infinite; ETX good and over the limit; one default router slot; overwriting headers |
| `dag_live` | registration and reattachment happen | two neighbours next to the root, good links, two router slots |
| `dag_handover` | *violated*: one official parent | two neighbours |
| `agent` | the agent's contract and its Q-table; a learning agent keeps nobody out | two neighbours over good and dead links, that may withdraw their rank; one credit |
| `routes` | routes are backed or withdrawn, renewed in time, and settle | root, router, target that may be below either; lifetime 4; one change of parent, one loss or bad link |
| `trickle` | answers in time, paced, quietens down | least interval of four units, three doublings, redundancy 2 |
| `probing` | stale parents are probed | three slots |
| `nbr_policy` | places are kept and settle | four neighbours for three places, four assignments of ranks, links good and bad, 16-bit ints |
| `forwarding` | packets end, loops are reported, no false alarm | root, three routers, destination; all ranks in {1, 2}, parents, routes |
| `ns` | updates keep nodes reachable, the graph becomes the tree | root and three nodes, at first in a line, a slot for each, two moves, one lapse |

**Why the bounds are enough.** Two neighbours are the least that gives a hand-over, and
a table of two with both flagged gives the loop with a change of parent between its two
turns; a third neighbour could only fill the router list, which `RouterSlots = 1` does
with two. The ranks of `dag` are one each of: acceptable, beyond `MaxRankInc`, infinite; the second one
also makes a node's own rank and `min_rank` so high that the limit wraps around (without the exception
for it TLC finds `DetachedIsSilent` violated).
`version` starts just before each wrap-around, and two repairs cross it; the start at
242 is the young network whose root is power-cycled. Tables of three
let a scan displace its best once and see a third. One credit is
enough to credit a wrong entry or to pass the reward; that an entry is lowered as it is raised is the
theorem `CreditsAreBounded`.
In `routes`, two links in a row are the least over which DAOs are forwarded, and
the target's other link gives every change of parent its overtaking: the No-Path DAO and
the new DAO come to the root by ways of different length. With lifetime 4 a
target registers every two periods (`RefreshDelays` is {2}), and a route has one to spare;
two DAOs fit on a link, so that a No-Path DAO may stand behind another. `trickle` reaches
the bound of `AnsweredInTime` (with one unit less TLC finds it violated), and three doublings
give an interval that is neither the first nor the last. `probing` has a slot each for the
preferred parent, the urgent target and a parent that starves meanwhile. `nbr_policy` has one
neighbour too many, ranks half a hop apart (where the hysteresis begins), a hop apart, all equal,
and one infinite (which wraps around); three places give the limit of one child. `forwarding`
has routers for a loop of two and of three, of default routes, of routes or of both, with
equal and with unequal ranks on it. In `ns` one move is enough for a cycle in the root's graph
when the DAOs of the others are late, a second for a return to a parent whose No-Path DAO is still to come, and one
lapse for a pointer that dangles and is given to another. The graph is empty at first and the nodes are
alike; two moves lead from a line to every shape of tree.

**Deadlock** is checked except for `RlAgent`, whose updates of the Q-table are bounded by
`MaxCredits`, and for `BestParentScan` and `Forwarding`, which end.

**Symmetry** in the neighbours is used where no liveness is checked.

**Mutants.** A definition under a comment `Mutant:` is not part of a model: it is the form
a neighbouring definition would have with a plausible bug in it, and serves to show that
the properties can tell. `PROJECT.json` says which definition it replaces and which
property TLC must then find violated: an increment without masks, a missing filter
on infinite ranks, a route left in place, a No-Path DAO not sent, a former parent
that stays locked, a callback that does not flag, a timer that does not re-arm, and so on.

## 4. Fairness

`RplDag!Fairness` has weak fairness of `Tick` and `Recalculate` (the periodic ctimer
re-arms itself in `handle_periodic_timer`; a loop that began ends before the
next event) and strong fairness of `DaoLifetimeTimer` (it re-arms itself in
`handle_dao_lifetime_timer`; strong, as `ticking` disables it now and then) and of the
arrival of *some* DIO (neighbours keep sending, driven by their Trickle timers). Nothing is
assumed of which neighbour's DIO it is, of the agent's choice, or of the DAO timer proper.
`ParentRegistered` then rests on the lifetime timer only, as in the code, where a parent the
agent chose gets no DAO of its own: a parent that stays learns of the router again and again, and for good
if no repair tells it to forget (`global_repair` sends a No-Path DAO to a parent it may take again). `Reattaches` is conditional on an end of the faults that
take candidates away: evictions, loops, unreachable neighbours, header overwrites,
repairs.

`DodagVersion!Fairness` has weak fairness of `SendDio(n)` (Trickle) and of `Receive(n)`: a
node that could learn something from the DIOs in the air does not lose every one of
them. Single DIOs may be lost at will.

`DaoRoutes!Fairness` has weak fairness of `SendDao(t)` (both DAO timers end there) and of
`ReceiveDao(l)` (a DAO that is not lost arrives), and strong fairness of `Tick(n)`: the
periodic timer re-arms itself; strong, as `Quiet` disables it while DAOs are under way. Losses and changes
of parent are bounded, so `RoutesSettle` is about what follows the last of them.

`DioTimer!Fairness`: the ctimer expires and is served (`Tick`, `Decide`, `EndInterval`), nothing
of the rest. `QuietensDown` is conditional: inconsistencies end, and there is an address.

`Probing!Fairness`: weak fairness of `ProbingTimer` (`rpl_schedule_probing` re-arms it at the end of
its handler) and strong fairness of its branch `ProbeOldest`, the toss of `random_rand` that
chooses the least recently updated parent: a fair coin does not fall on one side for
ever. A fairness condition counts only steps that change something, and a timer that finds
its target already the most recent one changes nothing else, so the history variable
`fired` flips at every expiry.

`NbrPolicy`: weak fairness of each neighbour's DIO (its Trickle timer).
`Forwarding`: weak fairness of the packet's next hop. `RplNs`: weak fairness of `Dao(n, up[n])`, as
nodes keep renewing their registration with the present parent; single DAOs are lost by not being taken. Nothing is assumed
of late ones; that they end is the hypothesis of `GraphSettles`.

## 5. Proofs

All theorems are checked for every value of the constants allowed by the `ASSUME`
of each module. They bound ranks and metrics by their C types and say that the NULL values
are not members; only the slots that `Probing` puts in order are assumed to be finitely many,
every other set may be infinite.

Induction along data is done without the library's induction theorems: a least counterexample
exists as `<` is well-founded on the natural numbers (`NatLessThanWellFounded`, `WFMin`), and the
step rules it out. Where it can be avoided, the least set closed under a relation
takes its place.

* **Versions.** `WindowOrder`: counters fewer than sixteen increments apart compare as they
  were issued, and only that way round. `RootStaysNewest`: with
  `MaxRepairs < SequenceWindows` (fewer than sixteen repairs, whatever the network does meanwhile), nobody is ahead of a root that keeps its memory. `RootIsNewest` is
  not inductive: it says nothing of *which* old versions are around, so a DIO could
  carry a version the root would find newer after its next repair. The invariant `Lineage` says
  every version held or in the air is the start advanced by at most as many increments as
  there were repairs; `WindowOrder` turns that into the order. `RestartIsAmbiguous`:
  a root restarting at 240 is ahead of and behind every version 1..127 at once, which is why `version` cycles
  the root only in a young network. `VersionsAreEpochs`: the protocol implements `RepairEpochs`. A
  step maps to `Repair`, `Leave`, `TakePart` or a stutter; `Lineage` gives the repair that a
  version received stands for, and `WindowOrder` that a version found newer is of a later one.
  `OrderStaysAsymmetric` is about a root that does forget: `VersionOrderAsymmetric` holds as long as the root
  is cycled at versions 240..`last` only and `last` leaves room below 255 for all restarts and
  repairs. The order alone is not inductive, for a repair makes a new version; the invariant is
  `Lineage` until the first restart and then `Young`: all versions in use are in the linear region,
  where the lollipop order is that of the numbers (`LinearOrder`), with a top that rises by
  one with every restart or repair. The hypotheses say what the run's constants say; that they are
  needed is `RestartIsAmbiguous`.
* **Scan.** `ScanKeepsEligible`, from the fact that the running best is always an entry with
  a finite rank (`Scanned`), and that `best_parent` returns one of its two arguments and never
  the unusable one. `ScanTyping` follows from the same fact. `ScanChooses` puts the scan beside the
  router: read over the entries of any part of the router's table, it returns a choice that `BestOf` allows, and
  nothing exactly if there is no candidate. What `RplDag` leaves open is thus what the
  scan may do, in any order of the table.
* **Router.** `ParentNeverDangles`, `DetachedStaysSilent`, `Typing` from one inductive
  invariant `Core`, for both widths of an `int`. `PreferredInTable` says that the parent holds the only lock, so an
  eviction, which takes any entry that is not locked, cannot take the parent. The parts are not inductive on their own: a turn of the loop of
  `rpl_recalculate_ranks` chooses a parent, which stays within the types only if the loop
  runs in a joined DAG (`ticking => joined`) and the parent that is kept is in the table
  (`PreferredInTable`); and a nullification with no parent, or an eviction, leaves routes
  alone that `DetachedIsSilent` knows to be gone. `RankIncreases` is arithmetic: the 16-bit sum of
  `rank_via_parent` may wrap, the minimum hop increase keeps the result above the parent's
  rank. On top of `Core`, `RankStaysThroughParent` (no step but a rank-error header makes
  the rank lag unflagged), `RankIsThroughParent` (an invariant without such headers),
  `NoCreeping` and `HandsOver` (action properties).
* **Agent.** `ScoresInScale`, `CreditBetween` (truncating division moves an entry towards
  ten times the reward and never past it), hence `Typing` with the Q-table in 0..100,
  `CreditsAreBounded`, and `AgentStaysUsable`, the contract `RplDag` uses. `LearningAttaches`: a
  DIO never leaves a score of 0 (`ScoresInScale`), so in the learning mode its sender
  is among those a detached node may pick, and the best of them is taken.
* **Routes.** `RoutesStayBacked`, for any network, order of DAOs, losses and changes of parent.
  `RoutesBacked` is not inductive: it says nothing of announcements still in a queue, which may
  install a route after the child has lost its own, nor of a former child whose old announcements would make it a
  next hop again. The invariant `RoutesInv` has two parts for every link and target. `Backed`: if the
  child cannot deliver and the code has not left the parent in the dark, a No-Path DAO is on the
  way for a route in use, and behind *every* announcement in the queue (`Silenced`; queues
  keep their order). `Heard`: a router that is not a child, and did not leave the parent in the dark, is no
  next hop for others and has nothing in its queue that makes it one. The lemmas `KeptBy...` say for each kind of step
  what it adds to queues and entries. `RenewedInTime`: with a lifetime of at least four periods
  (`rpl-conf.h` has 30, `project-conf.h` 10) a route that is renewed never expires while parents stay and nothing is
  lost. With two or three TLC finds a route that expires: the timer's 1/2 to 3/4 of the lifetime leaves no
  period to spare. The
  invariant `CalmInv` holds as long as nothing happened: messages and routes lie on the target's way to the
  root (`Upward`, `Placed`; the way is `Above`, the least set closed under parents, so
  that no induction along it is needed), and an entry has a period more left than the registration that renews
  it, unless that is due or under way below the entry (`Due`).
* **Header.** `LoopsAreReported`, for any ranks, parents and routes, right or wrong, with all senders known
  as in the run (`AllKnown`; a DIO or No-Path DAO to a sender that is not in the parent table is not sent).
  `LoopsReported` is about the drop only; `Rising` says what a packet on its way up has behind it:
  a trail of nodes without a route, each with its parent on the trail, which a looping
  packet never leaves, so it is dropped by the checks and not for want of a way on. `NoFalseAlarm` is
  the safety half of `SoundDelivers`: in sound tables the header agrees with the ranks at
  each hop (`Coherent`), so no check fires.
* **Trickle.** `ResponseBounded` and `DecisionsPaced`, for any interval, doublings and redundancy.
  The bound of seven halves of the least interval is not inductive; `Phase` says in which of
  three phases an unanswered inconsistency is, and bounds its age *and* what is left of
  the phase: 1 at the minimum after a decision; then 5 in the doubled interval; and 7 in a last
  one at the minimum, if a second inconsistency comes at the end of that. `Pause` does
  the same for the time that is missing between two decisions. `Typing` has one hypothesis, the
  arithmetic of powers (`PowersDouble`: 2^0 = 1 and 2^(n+1) = 2 * 2^n), which is true and which none of the provers knows;
  it ties `dio_intcurrent` to the length of the interval.

* **Neighbour policy.** `PlacesKept`: the preferred parent and every next hop keep their place,
  and the table its size, for any neighbours and ranks. The types are inductive once the table is
  known to be finite (`Inv`), since the places are counted: who gives up a place is in
  `Worst`, which `update_nbr` draws from entries without route or preference
  ((`PlaceSpares`), and one entry goes for the one that comes (`PlaceFits`). `BetterDisplacesWorst` is
  the argument behind `TableSettles`: a parent that loses its place to the sender of a DIO is the worst of
  those that may go, and the rank through the newcomer better by more than half a hop. The policy
  compares what the newcomer *announced* plus one hop; that this is the rank through it rests on
  the invariant `Unmeasured` (a neighbour without a place has the metric that is assumed), and on the
  16-bit sums not wrapping: that of `rank_via_parent` does not below a finite rank (`NoWrap`), that of the comparison
  is a hypothesis (`Wraps`; it holds for every rank where an `int` has 32 bits). `InfiniteDisplaces` says what
  happens without it: in 16 bits the sender of an infinite rank has the place of the worst, as every parent that
  may go costs two hops at least (`HopCosts`).
* **Non-storing graph.** `Typing`: a node is on the list once, whatever is freed and taken again in the
  pool. `UpdatesCutNobodyOff`: no DAO makes a node of the root's graph unreachable, for any
  nodes, pool size and order of DAOs, as long as no pointer dangles (the hypothesis of
  `UpdateKeepsReachable` itself: the sweep does leave such pointers behind). Reachability is a climb of
  as many steps as the pool has places, and the proofs replace it by sets: a node is reachable if and
  only if every set of slots that holds its slot and, up to the root, the parents of its members holds the root
  (`Leads`). For the one direction, a climb of that length which has not arrived has been somewhere twice, by the
  pigeonhole principle, so that the slots it met are such a set (`ClimbLeads`). Of the stages of
  `Dao`, those that add or renew a node leave names and pointers on the list alone (`KeptByGrowing`), which is
  where a dangling pointer would do harm: it may lead to the slot just taken. The last one changes one
  pointer (`LinkedKeeps`): a way to the root that does not pass the child is as it was, and one that does goes on
  from the child as the child's does now, since the code takes the pointer back if it would cut off the child.
* **Probing.** `ProbingTyping`: the order of the slots stays an order, and the preferred parent a
  parent, whoever takes slots. `ParentsAdvance` is the ranking argument behind `StaleProbed`: while
  nobody is admitted, a parent moves up in the order until it is sent to, and strictly so each time the
  timer picks the oldest. What is left to TLC is that the timer does so again and again.

Only model-checked:

* every liveness property (`RepairReachesAll`, `Reattaches`, `ParentRegistered`, `RoutesSettle`, `QuietensDown`,
  `LoopsEnd`, the delivery in `SoundDelivers`, `GraphSettles`, `ParentProbed`, `StaleProbed`, `TableSettles`): no prover here
  handles fairness;
* the violation, which is a behaviour.

## 6. Where the code and its words differ

With a run (quoted in `PROJECT.json`): `OneOfficialParent`. The agent's commits leave default
route and registration at the old parent; a later recalculation finds nothing to hand over. In the run
a router is registered with the parent it joined by, the agent switches to another on its first DIO, and after the
recalculation `instance->def_route` and the only registration are still with the first.
`DaoRoutes` shows that the routes recover all the same, by the lifetime timer.

Where the width of an `int` matters (two sums of `uint16_t` without a cast; sky and z1 have 16 bits):

* `rpl-nbr-policy.c:203`: rank 65535 plus one hop is 255, so in a full table the sender of an infinite rank
  takes the place of the worst neighbour, against the comment "only if it is better than the worst
  parent"; that neighbour takes it back with its next DIO, and so on for ever. `InfiniteDisplaces`
  proves it; `TableSettles` and `BetterDisplacesWorst` except such neighbours by name.
* `rpl-dag.c:693`: for a `min_rank` from 63744 on, as after joining by the sender of an infinite rank or
  after a global repair that failed, the limit is below 1792, and neighbours of rank 1792 or more are
  nullified. A router whose own rank is that high gives its parent up for it and, in `rpl_select_dag`, keeps
  the rank; `DetachedIsSilent` excepts it (`LimitWraps`).

Seen while modelling, without a run of their own. Of the agent and the objective function:

* With probing, `rpl_select_parent` does call `best_parent` when the parent's link statistics
  are stale (`rpl-dag.c:1296-1308`), although the agent is the sole authority (`README.md:55`
  of the variant).
* The panic monitor calls the agent (`rpl-of-tau.c:195-198`, `RL.md:237`), whose Gate 1 compares a
  score nobody recomputed, and returns. The call stamps `rl_time_last_dio` of a silent parent,
  although `RL.md` says that a neighbour silent for the timeout is not selected.
* A fresh score of the parent and a stored one of the candidate are on two scales, squared and
  plain ETX, so that the agent may switch between equals (`rpl-rl-agent.c:428`, `555`).
* A former parent that `rpl-dag.c` takes back keeps its old time stamp, so the reward counts
  time it was not the parent (`rpl-rl-agent.c:128`, `RL.md:64`).
* Gate 2 can block the first selection of a detached node in production, as the Q-table
  shows no gain over state 0; the objective function then attaches it at the next
  recalculation, which is why `Reattaches` holds.
* tau decides among close path costs (`rpl-of-tau.c:11-12`) only pairwise: the rule is not
  transitive, and the scan keeps one best (`rpl-of-tau.c:318`).

Of the header: a rank error overwrites a rank unflagged (`RankKeepsUp` excludes it by name). The
root strips a header together with its error flag. A loop of default routes at one rank is taken
for progress; `LoopsEnd` excepts it, and only the hop limit ends it. The branch for a forwarding
error in a header that arrives (`rpl-ext-header.c:99`) cannot be reached: a packet that gets the flag
is dropped at once.

Of routes and timers:

* A DAO that comes late by the old parent replaces the route by the new one, as the path sequence
  is not compared; the lifetime timer makes it good.
* `dio_intdoubl` of 0 in a DIO (`rpl-dag.c:1538`) leaves the interval at its minimum, where a reset does
  nothing: the timer is never started. `IntervalAssumption` excludes it.
* An urgent probing target whose address the neighbour cache has dropped is never
  cleared (`rpl-timers.c:535-547`). The timer then fires every few seconds without a probe, and
  no other parent is probed. `ParentProbed` and `StaleProbed` except it by name.

Of the neighbour policy:

* The comment promises "max X children (nexthops)" and free slots for others (`rpl-nbr-policy.c:52-59`), but the
  limit is asked only of a sender that has no place yet. Neighbours that came in by a free place or a DIO become
  children unasked, and a table full of children admits no parent until routes expire.
* At the root a neighbour that came in by a DIO is neither parent nor child and counts as the worst, so that with a
  full table such neighbours displace each other at every DIO.
* A link measured to be bad makes a neighbour worse than one outside whose link is not known, so two such
  neighbours displace each other for as long as their links are measured again (`TableSettles` speaks of links that
  prove good).

Of the non-storing graph (compiled with `RPL_WITH_NON_STORING` only): the periodic sweep
frees nodes others point to, since the search for children has no effect on what follows
(`rpl-ns.c:213`, `217-224`); `list_remove` clears the next pointer, so that the sweep ends with the
first node it frees; a parent is added with an infinite lifetime before there is room for the child
(`rpl-ns.c:130`), and then stays.

## 7. Not modelled

Most of the repository's lines. Other variants and the baseline mRPL are whole copies of the same
Contiki stack, with drivers and header files of microcontrollers that this protocol
has no part in; the simulation assets hold no protocol logic. OF0 and MRHOF are
compiled and not selected; collect generates traffic.

Of the variant itself: a second DAG or instance (`rpl_add_dag`, `rpl_move_parent`,
`find_parent_any_dag`); the root's set-up, which is done once; the PE metrics, which only
feed the announced tau (any value of its range in every model); the DIS counter, multicast routes, feather and leaf
modes, the source routing header, message formats, statistics and logging.

There is no module that puts several `RplDag` routers together. How fast a loop of default routes
dissolves depends on link statistics and freshness that `RplDag` leaves open, so a composed model
would find only what follows from those choices. What loops do to a packet, and which word
it leaves, is in `Forwarding`, for every assignment of ranks, parents and routes.

## 8. Plan

The order was: versions (the smallest complete protocol), objective function, router, agent,
because every other part reads or writes the router's parent; then routes, Trickle, header,
the non-storing graph, probing and the neighbour policy. Next:

1. `ParentChoice`, the abstract promise of parent selection (a parent is none or usable;
   changes come from the agent, a repair or a recalculation), implemented by `RplDag` and
   `RlAgent`; the step simulations proved.
2. The set of DAGs in `RplDag` (joining a second DAG, `rpl_add_dag` with a full table).
3. Root set-up, the PE metrics (integer averages), the wrap of the reward.
