--------------------------- MODULE BestParentScan ---------------------------
(***************************************************************************)
(* best_parent(dag, fresh_only) of rpl-dag.c: the neighbour table is read  *)
(* once, in whatever order its entries were added, and the objective       *)
(* function keeps the better of the entry at hand and the best so far.     *)
(* The objective function's order is not transitive, so what the scan      *)
(* returns may depend on that order.  RplDag_proofs puts the scan beside   *)
(* the DAG that asks it, hence the names of its specification.             *)
(***************************************************************************)
EXTENDS OfTau, FiniteSets

CONSTANTS
  Entries,      \* the parent records that may be met in the table
  ScanLength,   \* bound on the number of entries read
  NoEntry       \* the scan's result before a candidate qualified

ASSUME ScanAssumption ==
  /\ NoEntry \notin Entries
  /\ \A p \in Entries : p.rank \in 0 .. InfiniteRank /\ p.etx \in Nat

VARIABLES
  read,    \* the entries the loop has had
  chosen   \* best, the best of them so far

scanVars == <<read, chosen>>

ScanInit == read = {} /\ chosen = NoEntry

(* Mutant: an entry that announced an infinite rank is not passed over. *)
ConsiderAny(p) ==
  /\ p \notin read /\ Cardinality(read) < ScanLength
  /\ read' = read \cup {p}
  /\ chosen' = IF chosen = NoEntry THEN p ELSE BestParent(chosen, p)

(* One turn of the loop: an entry with an infinite or invalid rank is      *)
(* passed over.                                                            *)
Consider(p) ==
  /\ p \notin read /\ Cardinality(read) < ScanLength
  /\ read' = read \cup {p}
  /\ chosen' = IF p.rank = InfiniteRank \/ p.rank < MinHopRankInc THEN chosen
               ELSE IF chosen = NoEntry THEN p
               ELSE BestParent(chosen, p)

ScanNext == \E p \in Entries : Consider(p)

ScanSpec == ScanInit /\ [][ScanNext]_scanVars
-----------------------------------------------------------------------------
Eligible(p) == /\ p.rank \in MinHopRankInc .. InfiniteRank - 1
               /\ HasUsableLink(p)
               /\ RankViaParent(p) # InfiniteRank

(* The result is an entry of the table that announced a finite rank. *)
ScanTypeOK ==
  /\ read \subseteq Entries
  /\ chosen \in read \cup {NoEntry}
  /\ chosen # NoEntry => chosen.rank # InfiniteRank

(* Whatever the order of the table, a candidate with a usable link and a   *)
(* finite rank is never lost to one without (filters 1 and 2).             *)
EligibleWins ==
  (\E p \in read : Eligible(p)) => chosen # NoEntry /\ Eligible(chosen)
=============================================================================
