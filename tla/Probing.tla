------------------------------ MODULE Probing ------------------------------
(* Probes keep the link statistics of the parents up to date.  Targets are  *)
(* kept as pointers to slots of the neighbour table, which outlive what was *)
(* in the slot, and a probe needs the neighbour's address, which the        *)
(* neighbour cache may have dropped.                                        *)
(*                                                                          *)
(* rpl-timers.c (probing), rpl_select_parent of rpl-dag.c.  Which parent    *)
(* the objective function or the agent prefers is left open.                *)
(* DioTimer_proofs has the proofs about both timers of rpl-timers.c, hence  *)
(* the names of the specification.                                          *)
EXTENDS Integers, FiniteSets

CONSTANTS
    Slots, \* of the neighbour table
    None   \* a NULL pointer

ASSUME SlotsAssumption == None \notin Slots /\ IsFiniteSet(Slots)

VARIABLES
    par,    \* slots used in rpl_parents
    nd,     \* slots whose neighbour is in the neighbour cache
    fresh,  \* slots with fresh link statistics
    turn,   \* slots in the order of last_tx_time, the longest ago first
    pref,   \* dag->preferred_parent
    urgent, \* instance->urgent_probing_target
    fired   \* flips whenever the probing timer fires (history)

probingVars == <<par, nd, fresh, turn, pref, urgent, fired>>

-----------------------------------------------------------------------------
(* The orders of the slots: no two of them have their turn together.        *)
Turns ==
    {f \in [Slots -> 1..Cardinality(Slots)] : \A s, z \in Slots : f[s] = f[z] => s = z}

(* The slot's neighbour was sent to just now; or never, if it is new.       *)
SentTo(s) ==
    [z \in Slots |-> IF z = s THEN Cardinality(Slots)
                     ELSE IF turn[z] > turn[s] THEN turn[z] - 1 ELSE turn[z]]

NeverSent(s) ==
    [z \in Slots |-> IF z = s THEN 1
                     ELSE IF turn[z] < turn[s] THEN turn[z] + 1 ELSE turn[z]]

(* A frame to s is acknowledged or not: its statistics may become fresh.    *)
Transmission(s) ==
    /\ turn' = SentTo(s)
    /\ fresh' \in {fresh, fresh \cup {s}}

(* Mutant: the preferred parent is not spared. *)
AdmitAnywhere(s, isParent) ==
    /\ par' = IF isParent THEN par \cup {s} ELSE par \ {s}
    /\ nd' = nd \cup {s}
    /\ fresh' = fresh \ {s}
    /\ turn' = NeverSent(s)
    /\ UNCHANGED <<pref, urgent, fired>>

(* A new neighbour takes a slot, free or not: by a DIO as a parent, by a    *)
(* DAO or a unicast DIS only as a neighbour.  nbr_callback removes what was *)
(* there; the preferred parent is spared.                                   *)
Admit(s, isParent) ==
    /\ s # pref
    /\ par' = IF isParent THEN par \cup {s} ELSE par \ {s}
    /\ nd' = nd \cup {s}
    /\ fresh' = fresh \ {s}
    /\ turn' = NeverSent(s)
    /\ UNCHANGED <<pref, urgent, fired>>

(* A DIO of a neighbour that has its slot already.                          *)
Dio(s) ==
    /\ s \in par \cup nd
    /\ par' = par \cup {s}
    /\ nd' = nd \cup {s}
    /\ UNCHANGED <<fresh, turn, pref, urgent, fired>>

(* The neighbour cache drops an address; rpl_parents keeps the slot.        *)
CacheDrops(s) ==
    /\ s \in nd
    /\ nd' = nd \ {s}
    /\ UNCHANGED <<par, fresh, turn, pref, urgent, fired>>

(* Any frame but a probe; time takes freshness away again.                  *)
Transmit(s) ==
    /\ s \in nd
    /\ Transmission(s)
    /\ UNCHANGED <<par, nd, pref, urgent, fired>>

Expire(s) ==
    /\ s \in fresh
    /\ fresh' = fresh \ {s}
    /\ UNCHANGED <<par, nd, turn, pref, urgent, fired>>

-----------------------------------------------------------------------------
(* Any parent, or none that is usable.                                      *)
BestParents(ps) == ps \cup {None}

(* rpl_select_parent: a best parent that is not fresh gives way to a fresh  *)
(* one, and is probed shortly.                                              *)
SelectParent ==
    \E best \in IF pref # None THEN {pref} ELSE BestParents(par) :
        IF best = None \/ best \in fresh
          THEN pref' = best /\ UNCHANGED urgent
          ELSE /\ \E f \in BestParents(par \cap fresh) :
                    pref' = IF f = None THEN best ELSE f
               /\ urgent' = best

Select == SelectParent /\ UNCHANGED <<par, nd, fresh, turn, fired>>

(* The agent's commit, and rpl_nullify_parent.                              *)
Override(p) ==
    /\ p \in (par \cup {None}) \ {pref}
    /\ pref' = p
    /\ UNCHANGED <<par, nd, fresh, turn, urgent, fired>>

-----------------------------------------------------------------------------
(* Mutant: the urgent target is not cleared. *)
ProbeForEver(t) ==
    IF t \in nd
      THEN Transmission(t) /\ UNCHANGED urgent
      ELSE UNCHANGED <<fresh, turn, urgent>>

(* handle_probing_timer, with its target: no address, no probe, and the     *)
(* urgent target stays.                                                     *)
Probe(t) ==
    IF t \in nd
      THEN Transmission(t) /\ urgent' = None
      ELSE UNCHANGED <<fresh, turn, urgent>>

(* get_probing_target, in its order of preference.                          *)
ProbeUrgent == urgent # None /\ Probe(urgent)

ParentStale == pref # None /\ pref \notin fresh

ProbePreferred == urgent = None /\ ParentStale /\ Probe(pref)

(* With probability 1/2: the best parent that is not fresh.                 *)
ProbeStale ==
    /\ urgent = None /\ ~ParentStale
    /\ \E t \in par \ fresh : Probe(t)

(* Mutant: the most recently updated parent. *)
Newest == CHOOSE s \in par : \A z \in par : turn[z] <= turn[s]

(* The least recently updated parent.                                       *)
Oldest == CHOOSE s \in par : \A z \in par : turn[s] <= turn[z]

(* With probability 1/2, or if every parent is fresh.                       *)
ProbeOldest ==
    /\ urgent = None /\ ~ParentStale
    /\ par # {}
    /\ Probe(Oldest)

ProbingTimer ==
    /\ fired' = ~fired
    /\ ProbeUrgent \/ ProbePreferred \/ ProbeStale \/ ProbeOldest
    /\ UNCHANGED <<par, nd, pref>>

-----------------------------------------------------------------------------
(* rpl_alloc_instance; nobody is known yet.                                 *)
ProbingInit ==
    /\ par = {} /\ nd = {} /\ fresh = {}
    /\ turn \in Turns
    /\ pref = None /\ urgent = None
    /\ fired = FALSE

ProbingNext ==
    \/ \E s \in Slots :
         \/ \E b \in BOOLEAN : Admit(s, b)
         \/ Dio(s) \/ CacheDrops(s) \/ Transmit(s) \/ Expire(s)
    \/ Select
    \/ \E p \in Slots \cup {None} : Override(p)
    \/ ProbingTimer

(* The probing timer re-arms itself; the coin does not fall on one side for *)
(* ever.                                                                    *)
ProbingFairness ==
    /\ WF_probingVars(ProbingTimer)
    /\ SF_probingVars(ProbingTimer /\ ProbeOldest)

ProbingSpec == ProbingInit /\ [][ProbingNext]_probingVars /\ ProbingFairness

-----------------------------------------------------------------------------
(* Types; the preferred parent is a parent, whoever takes slots.            *)
ProbingTypeOK ==
    /\ par \subseteq Slots /\ nd \subseteq Slots /\ fresh \subseteq Slots
    /\ turn \in Turns
    /\ pref \in par \cup {None}
    /\ urgent \in Slots \cup {None}
    /\ fired \in BOOLEAN

(* The timer fires and a frame goes to s. *)
Probed(s) == ProbingTimer /\ s \in nd /\ turn' = SentTo(s)

(* "Probes will be sent periodically to keep parent link estimates up to    *)
(* date": a parent that stays preferred and stale is probed again and       *)
(* again.  An urgent target of another time, perhaps with another neighbour *)
(* in its slot by now, comes first, but once; only one without an address   *)
(* is in the way for good (handle_probing_timer clears what it has probed). *)
ParentProbed ==
    \A s \in Slots :
        <>[](pref = s /\ s \notin fresh /\ {pref, urgent} \ {None} \subseteq nd)
          => []<><<Probed(s)>>_probingVars

(* Every parent with stale statistics is sent to again and again once       *)
(* neighbours no longer come and nothing is urgent, as long as no parent    *)
(* without an address stays the least recently updated one.                 *)
StaleProbed ==
    (/\ <>[][\A s \in Slots, b \in BOOLEAN : ~Admit(s, b)]_probingVars
     /\ <>[](urgent = None /\ ~ParentStale /\ par \subseteq nd))
      => \A s \in Slots :
           <>[](s \in par \ fresh) => []<><<Probed(s) \/ Transmit(s)>>_probingVars
=============================================================================
