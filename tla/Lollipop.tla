------------------------------ MODULE Lollipop ------------------------------
(***************************************************************************)
(* The lollipop sequence counters of RPL (rpl-private.h, rpl-dag.c): DODAG *)
(* versions, DTSNs and DAO sequence numbers are bytes that start in a      *)
(* linear region 128..255 and then run for ever in the circular region     *)
(* 0..127.                                                                 *)
(***************************************************************************)
EXTENDS Integers

LollipopMax     == 255    \* RPL_LOLLIPOP_MAX_VALUE
CircularRegion  == 127    \* RPL_LOLLIPOP_CIRCULAR_REGION
SequenceWindows == 16     \* RPL_LOLLIPOP_SEQUENCE_WINDOWS
LollipopInit    == LollipopMax - SequenceWindows + 1   \* RPL_LOLLIPOP_INIT

Counter == 0 .. LollipopMax

(* Mutant: the increment without its masks. *)
IncrementUnmasked(c) == c + 1

(* RPL_LOLLIPOP_INCREMENT: the masks are the two region sizes less one. *)
Increment(c) == IF c > CircularRegion THEN (c + 1) % (LollipopMax + 1)
                                      ELSE (c + 1) % (CircularRegion + 1)

(* Mutants: byte order, and the window test without the sign of a - b. *)
PlainGreater(a, b) == a > b
WithinWindow(a, b) ==
  a - b < SequenceWindows \/ b - a > CircularRegion + 1 - SequenceWindows

(* lollipop_greater_than *)
GreaterThan(a, b) ==
  IF a > CircularRegion /\ b <= CircularRegion
  THEN LollipopMax + 1 + b - a > SequenceWindows
  ELSE \/ a > b /\ a - b < SequenceWindows
       \/ a < b /\ b - a > CircularRegion + 1 - SequenceWindows

(* k increments of c in closed form, for a k below the size of a region. *)
Advance(c, k) ==
  IF c <= CircularRegion THEN (c + k) % (CircularRegion + 1)
  ELSE IF c + k <= LollipopMax THEN c + k ELSE c + k - LollipopMax - 1

(* How many increments, of at most n, lead from c to d. *)
Distance(c, d, n) == CHOOSE k \in 0 .. n : Advance(c, k) = d
=============================================================================
