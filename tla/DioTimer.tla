------------------------------ MODULE DioTimer ------------------------------
(* The Trickle timer of one instance: when the next DIO is broadcast.  In   *)
(* each interval I the timer fires at T in I/2..I, when a DIO is sent or    *)
(* suppressed, and at the end of I, when the interval is doubled.  An       *)
(* inconsistency takes I back to the minimum, unless it is there already.   *)
(*                                                                          *)
(* rpl-timers.c, with ALGO 2 (the DIO goes out from handle_dio_timer).      *)
EXTENDS Naturals

CONSTANTS
    HalfMin,    \* half of the least interval (2^dio_intmin milliseconds)
    Doublings,  \* dio_intdoubl
    Redundancy, \* dio_redundancy, 0 for no suppression
    Second      \* CLOCK_SECOND in the same unit

(* Without doublings the interval is at its minimum when a node joins, and  *)
(* rpl_reset_dio_timer never starts the timer.                              *)
ASSUME IntervalAssumption ==
    /\ HalfMin \in Nat \ {0} /\ Doublings \in Nat \ {0}
    /\ Redundancy \in Nat
    /\ Second \in Nat \ {0} /\ Second <= 2 * HalfMin

VARIABLES
    exp,       \* dio_intcurrent - dio_intmin
    half,      \* half of the current interval, HalfMin doubled exp times
    left,      \* until dio_timer expires
    nextDelay, \* dio_next_delay
    dioSend,   \* dio_send: the decision of this interval is still to come
    counter,   \* dio_counter, up to Redundancy
    addressOk, \* there is a preferred link-local address
    sendOk,    \* dio_send_ok
    waiting,   \* an inconsistency has seen no decision yet (history)
    age,       \* of the oldest such (history)
    gap        \* since the last decision, up to HalfMin (history)

timer == <<exp, half, left, nextDelay, dioSend, counter>>
vars  == <<exp, half, left, nextDelay, dioSend, counter, addressOk, sendOk,
           waiting, age, gap>>

-----------------------------------------------------------------------------
(* Mutant: T is drawn from the whole interval. *)
WholeInterval(h) ==
    \E t \in 0..(2 * h) :
        /\ left' = t
        /\ nextDelay' = 2 * h - t
        /\ dioSend' = TRUE
        /\ counter' = 0

(* new_dio_interval, for an interval of 2 * h. *)
NewInterval(h) ==
    \E t \in h..(2 * h) :
        /\ left' = t
        /\ nextDelay' = 2 * h - t
        /\ dioSend' = TRUE
        /\ counter' = 0

(* Mutant: a reset begins the minimum interval anew. *)
AlwaysReset ==
    /\ exp' = 0
    /\ half' = HalfMin
    /\ NewInterval(HalfMin)

(* rpl_reset_dio_timer *)
Reset ==
    IF exp > 0
      THEN /\ exp' = 0
           /\ half' = HalfMin
           /\ NewInterval(HalfMin)
      ELSE UNCHANGED timer

(* An inconsistency: a new parent, a repair, a loop, a multicast DIS, a     *)
(* parent that withdraws.                                                   *)
Inconsistency ==
    /\ Reset
    /\ waiting' = TRUE
    /\ UNCHANGED <<addressOk, sendOk, age, gap>>

(* A DIO with the rank known already, counted by rpl_process_dio.           *)
ConsistentDio ==
    /\ counter < Redundancy
    /\ counter' = counter + 1
    /\ UNCHANGED <<exp, half, left, nextDelay, dioSend, addressOk, sendOk,
                   waiting, age, gap>>

AddressReady ==
    /\ ~addressOk
    /\ addressOk' = TRUE
    /\ UNCHANGED <<exp, half, left, nextDelay, dioSend, counter, sendOk,
                   waiting, age, gap>>

-----------------------------------------------------------------------------
(* handle_dio_timer *)

Postpone ==
    /\ left = 0 /\ ~sendOk /\ ~addressOk
    /\ left' = Second
    /\ UNCHANGED <<exp, half, nextDelay, dioSend, counter, addressOk, sendOk,
                   waiting, age, gap>>

Ready == left = 0 /\ (sendOk \/ addressOk)

(* A DIO is sent, or suppressed when counter has reached the redundancy.    *)
Decide ==
    /\ Ready /\ dioSend
    /\ sendOk' = TRUE
    /\ dioSend' = FALSE
    /\ left' = nextDelay
    /\ waiting' = FALSE /\ age' = 0 /\ gap' = 0
    /\ UNCHANGED <<exp, half, nextDelay, counter, addressOk>>

(* Mutant: the last doubling is left out. *)
NoLastDoubling ==
    IF exp + 1 < Doublings
      THEN exp' = exp + 1 /\ half' = 2 * half
      ELSE UNCHANGED <<exp, half>>

(* Mutant: the interval is doubled without end. *)
DoubleAlways == exp' = exp + 1 /\ half' = 2 * half

Double ==
    IF exp < Doublings
      THEN exp' = exp + 1 /\ half' = 2 * half
      ELSE UNCHANGED <<exp, half>>

EndInterval ==
    /\ Ready /\ ~dioSend
    /\ sendOk' = TRUE
    /\ Double
    /\ NewInterval(half')
    /\ UNCHANGED <<addressOk, waiting, age, gap>>

-----------------------------------------------------------------------------
(* Time passes while no timer is due.  An inconsistency waits from when     *)
(* there is an address to send from.                                        *)
Tick ==
    /\ left > 0
    /\ left' = left - 1
    /\ age' = IF waiting /\ addressOk THEN age + 1 ELSE age
    /\ gap' = IF gap < HalfMin THEN gap + 1 ELSE gap
    /\ UNCHANGED <<exp, half, nextDelay, dioSend, counter, addressOk, sendOk,
                   waiting>>

(* rpl_join_instance, rpl_set_root: the interval is the longest, and reset. *)
Init ==
    /\ exp = 0 /\ half = HalfMin
    /\ left \in HalfMin..(2 * HalfMin)
    /\ nextDelay = 2 * HalfMin - left
    /\ dioSend = TRUE
    /\ counter = 0
    /\ addressOk \in BOOLEAN
    /\ sendOk = FALSE
    /\ waiting = TRUE /\ age = 0
    /\ gap = HalfMin

Next ==
    \/ Inconsistency
    \/ ConsistentDio
    \/ AddressReady
    \/ Postpone
    \/ Decide
    \/ EndInterval
    \/ Tick

(* Timers expire and are served.                                            *)
Fairness == WF_vars(Tick) /\ WF_vars(Decide) /\ WF_vars(EndInterval)

Spec == Init /\ [][Next]_vars /\ Fairness

-----------------------------------------------------------------------------
(* Types; half is HalfMin doubled exp times; dio_send_ok is set no later    *)
(* than the first decision.                                                 *)
TypeOK ==
    /\ exp \in 0..Doublings
    /\ half = HalfMin * 2^exp
    /\ left \in 0..(2 * half)
    /\ nextDelay \in 0..half
    /\ dioSend \in BOOLEAN
    /\ counter \in 0..Redundancy
    /\ addressOk \in BOOLEAN /\ sendOk \in BOOLEAN
    /\ waiting \in BOOLEAN
    /\ age \in Nat
    /\ gap \in 0..HalfMin
    /\ sendOk => addressOk
    /\ ~sendOk => dioSend

(* However many inconsistencies come, and whenever, a node decides on a DIO *)
(* within seven halves of the least interval of the first of them: one that *)
(* comes at the minimum just after a decision waits for the next interval,  *)
(* twice as long; a second one may cut that short at its very end, and      *)
(* start a last one.  Further ones find the interval at the minimum and     *)
(* rpl_reset_dio_timer leaves it alone.                                     *)
AnsweredInTime == waiting => age <= 7 * HalfMin

(* No burst of inconsistencies makes a node decide on DIOs closer together  *)
(* than half of the least interval (new_dio_interval draws T from I/2 on).  *)
Paced == [][dioSend /\ ~dioSend' => gap >= HalfMin]_vars

(* In a consistent network the interval becomes, and stays, the longest     *)
(* (handle_dio_timer doubles it).                                           *)
QuietensDown ==
    []<>addressOk => []<><<Inconsistency>>_vars \/ <>[](exp = Doublings)
=============================================================================
