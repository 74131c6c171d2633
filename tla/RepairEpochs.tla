---------------------------- MODULE RepairEpochs ----------------------------
(***************************************************************************)
(* What the DODAG versions are for.  The root numbers its global repairs   *)
(* with natural numbers that never wrap; every other node is out of the    *)
(* DODAG or takes part in some repair.  A node may come in at any repair   *)
(* the root has started, leaves it only for a later one, and nobody but    *)
(* the root starts one.  Once the root has lost its memory nothing is      *)
(* promised about the numbers any more.                                    *)
(***************************************************************************)
EXTENDS Naturals

CONSTANTS Nodes, Root, Out

VARIABLES
  epoch,      \* epoch[n]: the repair that n takes part in, or Out
  remembers   \* the root has kept its memory so far

evars == <<epoch, remembers>>

EInit == epoch = [n \in Nodes |-> 0] /\ remembers = TRUE

Repair == epoch' = [epoch EXCEPT ![Root] = @ + 1]

Leave(n) == n # Root /\ epoch' = [epoch EXCEPT ![n] = Out]

TakePart(n) ==
  /\ n # Root
  /\ \E e \in 0 .. epoch[Root] :
       /\ epoch[n] # Out => e > epoch[n]
       /\ epoch' = [epoch EXCEPT ![n] = e]

ENext ==
  \/ remembers' = FALSE
  \/ /\ remembers = TRUE /\ remembers' = TRUE
     /\ Repair \/ \E n \in Nodes : Leave(n) \/ TakePart(n)

ESpec == EInit /\ [][ENext]_evars
=============================================================================
