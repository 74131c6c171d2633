---------------------------- MODULE DodagVersion ----------------------------
(***************************************************************************)
(* How a DODAG version travels: the root raises it (rpl_repair_root), every*)
(* node repeats in its DIOs the version it holds, and rpl_process_dio      *)
(* compares the two with the lollipop order.  A DIO stays in the air until *)
(* its sender broadcasts the next one: it may be received late, by several *)
(* nodes, several times or never.  Ranks and parents are left to RplDag.   *)
(***************************************************************************)
EXTENDS Lollipop

CONSTANTS
  Nodes,       \* the routers of the network
  Root,        \* the one of them that called rpl_set_root
  NoDag,       \* the version of a node that has not joined
  Starts,      \* versions from which the network is examined
  MaxRepairs,  \* bound on rpl_repair_root calls
  MaxReboots,  \* bound on power cycles of the root
  Rebootable,  \* versions at which the root may be cycled
  MaxLosses    \* bound on power cycles of the other nodes

ASSUME VersionAssumption ==
  /\ Root \in Nodes
  /\ NoDag \notin Counter
  /\ Starts \subseteq Counter /\ Rebootable \subseteq Counter
  /\ {MaxRepairs, MaxReboots, MaxLosses} \subseteq Nat

VARIABLES
  version,   \* version[n]: dag->version of n, NoDag before it joins
  air,       \* air[n]: the version in the last DIO n broadcast
  repairs, reboots, losses   \* how often each bounded event happened

vars == <<version, air, repairs, reboots, losses>>
counts == <<repairs, reboots, losses>>

Init ==
  /\ \E v \in Starts : version = [n \in Nodes |-> v]
  /\ air = [n \in Nodes |-> NoDag]
  /\ repairs = 0 /\ reboots = 0 /\ losses = 0

(* handle_dio_timer / dio_output: only a node in a DAG advertises it. *)
SendDio(n) ==
  /\ version[n] # NoDag
  /\ air' = [air EXCEPT ![n] = version[n]]
  /\ UNCHANGED <<version, counts>>

(* rpl_repair_root *)
RepairRoot ==
  /\ repairs < MaxRepairs
  /\ repairs' = repairs + 1
  /\ version' = [version EXCEPT ![Root] = Increment(@)]
  /\ UNCHANGED <<air, reboots, losses>>

(* The root loses its memory and calls rpl_set_root with no DAG known. *)
RebootRoot ==
  /\ reboots < MaxReboots /\ version[Root] \in Rebootable
  /\ reboots' = reboots + 1
  /\ version' = [version EXCEPT ![Root] = LollipopInit]
  /\ UNCHANGED <<air, repairs, losses>>

(* Another node loses its memory; it is out of the DAG until a DIO comes. *)
RebootNode(n) ==
  /\ n # Root /\ version[n] # NoDag
  /\ losses < MaxLosses
  /\ losses' = losses + 1
  /\ version' = [version EXCEPT ![n] = NoDag]
  /\ UNCHANGED <<air, repairs, reboots>>

(* rpl_process_dio, no DAG yet: rpl_join_instance copies the version. *)
ReceiveJoin(n, s) ==
  /\ air[s] # NoDag /\ version[n] = NoDag
  /\ version' = [version EXCEPT ![n] = air[s]]
  /\ UNCHANGED <<air, counts>>

(* Mutant: the root ignores a newer version instead of overtaking it. *)
FollowNewer(n, s) ==
  /\ n # Root /\ s # n /\ air[s] # NoDag /\ version[n] # NoDag
  /\ GreaterThan(air[s], version[n])
  /\ version' = [version EXCEPT ![n] = air[s]]
  /\ UNCHANGED <<air, counts>>

(* Mutant: any version but its own makes a node repair. *)
FollowOther(n, s) ==
  /\ s # n /\ air[s] # NoDag /\ version[n] # NoDag
  /\ air[s] # version[n]
  /\ version' = [version EXCEPT ![n] =
                   IF n = Root THEN Increment(air[s]) ELSE air[s]]
  /\ UNCHANGED <<air, counts>>

(* rpl_process_dio, a newer version: the root overtakes it, any other node *)
(* takes part in the global repair.  Every other DIO leaves the version.   *)
ReceiveNewer(n, s) ==
  /\ s # n /\ air[s] # NoDag /\ version[n] # NoDag
  /\ GreaterThan(air[s], version[n])
  /\ version' = [version EXCEPT ![n] =
                   IF n = Root THEN Increment(air[s]) ELSE air[s]]
  /\ UNCHANGED <<air, counts>>

Receive(n) == \E s \in Nodes : ReceiveJoin(n, s) \/ ReceiveNewer(n, s)

Next ==
  \/ RepairRoot
  \/ RebootRoot
  \/ \E n \in Nodes :
       \/ SendDio(n)
       \/ RebootNode(n)
       \/ Receive(n)

(* Trickle timers fire for ever, and a node that could learn something    *)
(* from a DIO in the air does not lose every one of them.                  *)
Fairness == \A n \in Nodes : WF_vars(SendDio(n)) /\ WF_vars(Receive(n))

Spec == Init /\ [][Next]_vars /\ Fairness
-----------------------------------------------------------------------------
(* The variables keep their types and the bounds on events are respected. *)
TypeOK ==
  /\ version \in [Nodes -> Counter \cup {NoDag}]
  /\ version[Root] # NoDag
  /\ air \in [Nodes -> Counter \cup {NoDag}]
  /\ repairs \in 0 .. MaxRepairs
  /\ reboots \in 0 .. MaxReboots
  /\ losses \in 0 .. MaxLosses

(* While the root keeps its memory nobody holds, and no DIO in the air     *)
(* carries, a version that the lollipop order puts beyond the root's own:  *)
(* repairs flow from the root outwards (rpl_process_dio, version tests).   *)
RootIsNewest ==
  reboots = 0 =>
    \A v \in ({version[n] : n \in Nodes} \cup {air[n] : n \in Nodes}) \ {NoDag} :
      v = version[Root] \/ GreaterThan(version[Root], v)

(* The order rpl_process_dio uses is never satisfied both ways round by    *)
(* two versions that are in use: of two DIO senders at most one is ahead.  *)
VersionOrderAsymmetric ==
  \A m, n \in Nodes :
    version[m] # NoDag /\ version[n] # NoDag =>
      ~ (GreaterThan(version[m], version[n])
           /\ GreaterThan(version[n], version[m]))

(* The number of the repair that started with version v. *)
EpochOf(v) ==
  IF v = NoDag THEN NoDag
  ELSE repairs - Distance(v, version[Root], repairs)

(* The bytes that wrap do the work of the natural numbers of RepairEpochs: *)
(* while the root remembers, a node never goes back to an earlier repair   *)
(* and never takes part in one the root did not start, whatever DIOs come  *)
(* late, twice or never (rpl_process_dio, lollipop_greater_than).          *)
Epochs == INSTANCE RepairEpochs WITH
            Out <- NoDag,
            remembers <- reboots = 0,
            epoch <- [n \in Nodes |-> IF reboots = 0 THEN EpochOf(version[n]) ELSE NoDag]

RepairsInOrder == Epochs!ESpec

(* Once the root has stopped repairing, every node ends up, and stays, at  *)
(* the root's version.                                                     *)
RepairReachesAll == <>[](\A n \in Nodes : version[n] = version[Root])
=============================================================================
