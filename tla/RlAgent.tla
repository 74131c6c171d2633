------------------------------- MODULE RlAgent -------------------------------
(***************************************************************************)
(* The Q-learning agent of rpl-rl-agent.c: what it keeps of each neighbour,*)
(* the three gates, the learning and the production mode, and the panic    *)
(* monitor of rpl-of-tau.c that calls it.  Whatever else changes the       *)
(* preferred parent (rpl-dag.c, see RplDag) is the action Override.        *)
(*                                                                         *)
(* Time is counted in RL_STABILITY_CONSTANT periods, up to the one from    *)
(* which the reward is capped.  Any active action may be chosen, for       *)
(* epsilon is never below RL_EPSILON_MIN, and any neighbour of its bin,    *)
(* for the tie-break on ETX and RSSI trend decides nothing below.          *)
(***************************************************************************)
EXTENDS OfTau, FiniteSets

CONSTANTS
  Nbr,         \* the neighbours
  None,        \* no preferred parent
  Links,       \* the [rank, etx, rssi, tau] a neighbour may show
  Delays,      \* how many periods may go by at once
  MaxCredits   \* bound on the number of Q-table updates

MaxReward == 10                   \* RL_MAX_REWARD
Alpha == 10                       \* RL_ALPHA, per cent
TauStep == 100                    \* RL_TAU_STEP
NumStates == 10                   \* RL_NUM_STATES and RL_NUM_ACTIONS
MinSwitchGain == 3                \* RL_MIN_SWITCH_GAIN
HysteresisTau == 20               \* RL_HYSTERESIS_TAU
RssiWeak == -85                   \* RL_RSSI_WEAK_THRESHOLD, RL_RSSI_THRESHOLD
EtxWeak == 3 * EtxDivisor         \* RL_ETX_WEAK_THRESHOLD
EtxPanic == 6 * EtxDivisor        \* RL_ETX_THRESHOLD

ASSUME AgentAssumption ==
  /\ None \notin Nbr
  /\ Delays \subseteq Nat /\ MaxCredits \in Nat
  /\ \A l \in Links : /\ l.rank \in MinHopRankInc .. InfiniteRank
                      /\ l.etx \in 1 .. InfiniteRank
                      /\ l.rssi \in Int /\ l.tau \in Nat

VARIABLES
  joined,     \* the instance is in use
  mode,       \* "off" until rl_initialized, "learning" while RL_IS_LEARNING()
  pref,       \* dag->preferred_parent
  tbl,        \* the neighbours in rpl_parents
  link,       \* link[n]: what n announced last and the link statistics
  score,      \* score[n]: n->tau_cand
  lastRssi,   \* lastRssi[n]: n->rl_last_rssi
  heard,      \* neighbours whose rl_time_last_dio is recent
  attached,   \* neighbours whose rl_time_attachment is set
  age,        \* age[n]: periods since rl_time_attachment of n
  stateS,     \* stateS[n]: n->rl_state_S
  choice,     \* choice[n]: the bin of n->rl_tau_at_choice
  q,          \* q_table
  credits     \* how often update_q_table wrote to it

memory == <<attached, age, stateS, choice>>
table  == <<q, credits>>
vars == <<joined, mode, pref, tbl, link, score, lastRssi, heard, memory, table>>

Bins == 0 .. NumStates - 1
Bin(t) == Lower(t \div TauStep, NumStates - 1)     \* get_bin

Init ==
  /\ joined = FALSE /\ mode = "off" /\ pref = None /\ tbl = {}
  /\ link \in [Nbr -> Links]
  /\ score = [n \in Nbr |-> 0] /\ lastRssi = [n \in Nbr |-> 0]
  /\ heard = {}
  /\ attached = {}
  /\ age = [n \in Nbr |-> 0]
  /\ stateS = [n \in Nbr |-> 0] /\ choice = [n \in Nbr |-> 0]
  /\ q = [sa \in Bins \X Bins |-> 0] /\ credits = 0
-----------------------------------------------------------------------------
(* Mutant: alpha not taken as a percentage. *)
CreditedWhole(old, reward) == old + (reward * 10 - old) * Alpha

(* update_q_table's arithmetic: C divides towards zero. *)
Credited(old, reward) ==
  LET delta == reward * 10 - old
  IN  IF delta >= 0 THEN old + (delta * Alpha) \div 100
                    ELSE old - (- delta * Alpha) \div 100

(* Mutant: the entry of the parent's present score, not of its choice. *)
UpdatePresentBin ==
  IF pref \notin attached THEN UNCHANGED table
  ELSE /\ credits < MaxCredits
       /\ credits' = credits + 1
       /\ q' = [q EXCEPT ![<<stateS[pref], Bin(score[pref])>>] = Credited(@, age[pref])]

(* update_q_table(current) *)
UpdateQTable ==
  IF pref \notin attached THEN UNCHANGED table
  ELSE /\ credits < MaxCredits
       /\ credits' = credits + 1
       /\ q' = [q EXCEPT ![<<stateS[pref], choice[pref]>>] = Credited(@, age[pref])]

(* The composite confidence in v over the current parent, given their taus *)
Confidence(v, tv, tc) ==
  LET d == SquaredEtx(LinkMetric(link'[pref])) - SquaredEtx(LinkMetric(link'[v]))
  IN  tv - tc + 2 * (lastRssi'[v] - lastRssi'[pref]) + (IF d < 0 THEN 2 * d ELSE d)

Convincing(v, tv) ==
  Confidence(v, tv, CandidateScore(link'[pref])) > HysteresisTau

Weak == lastRssi'[pref] < RssiWeak \/ LinkMetric(link'[pref]) > EtxWeak
StillAcceptable == lastRssi'[pref] > RssiWeak /\ LinkMetric(link'[pref]) < EtxWeak

(* tau_cand of the current parent recalculated, as Gate 1 (on a DIO from   *)
(* another neighbour) and Gate 3 do                                        *)
Recalculated(sc) ==
  IF pref = None THEN sc ELSE [sc EXCEPT ![pref] = CandidateScore(link'[pref])]

(* Gate 1: does a call for v lead to rpl_rl_trigger? *)
Triggered(v, sc) ==
  \/ pref = None
  \/ v = pref /\ Bin(sc[v]) < stateS[v]
  \/ v # pref /\ pref # None /\ (Weak \/ Convincing(v, sc[v]))

(* Mutant: the rank of a neighbour is not looked at. *)
AnyHeard == heard'

(* The neighbours the agent may pick, and those of one bin *)
Fresh == {n \in heard' : link'[n].rank # InfiniteRank}
Usable(sc) == {n \in Fresh : sc[n] # 0}
InBin(sc, a) == {n \in Fresh : Bin(sc[n]) = a}

(* The two ends of every decision *)
Keep(sc, S) ==
  /\ score' = sc
  /\ stateS' = IF pref = None THEN stateS ELSE [stateS EXCEPT ![pref] = S]
  /\ UNCHANGED <<pref, attached, age, choice>>

Commit(m, sc) ==
  /\ pref' = m /\ score' = sc
  /\ attached' = attached \cup {m}
  /\ age' = [age EXCEPT ![m] = 0]
  /\ stateS' = [stateS EXCEPT ![m] = Bin(sc[m])]
  /\ choice' = [choice EXCEPT ![m] = Bin(sc[m])]

KeepAsIs(sc) == Keep(sc, IF pref = None THEN 0 ELSE stateS[pref])

(* rpl_rl_trigger, learning mode: the best tau_cand wins. *)
Learn(sc) ==
  /\ mode # "production"
  /\ IF Usable(sc) = {} THEN KeepAsIs(sc) /\ UNCHANGED table
     ELSE \E m \in Usable(sc) :
            /\ \A k \in Usable(sc) : sc[k] <= sc[m]
            /\ IF m = pref THEN KeepAsIs(sc) /\ UNCHANGED table
                           ELSE UpdateQTable /\ Commit(m, sc)

(* rpl_rl_trigger, production mode: an active action a is chosen, the      *)
(* Q-table updated, and Gates 2 and 3 may block.                           *)
Decide(sc) ==
  LET S == IF pref = None THEN 0 ELSE Bin(sc[pref])
  IN  /\ mode = "production"
      /\ \/ Usable(sc) = {} /\ KeepAsIs(sc) /\ UNCHANGED table
         \/ \E a \in {Bin(sc[n]) : n \in Usable(sc)} :
              /\ UpdateQTable
              /\ IF q'[<<S, a>>] - q'[<<S, S>>] < MinSwitchGain THEN Keep(sc, S)
                 ELSE \E m \in InBin(sc, a) :
                        IF m = pref THEN Keep(sc, S)
                        ELSE IF pref # None /\ StillAcceptable /\ ~ Convincing(m, sc[m])
                        THEN Keep(Recalculated(sc), S)
                        ELSE Commit(m, Recalculated(sc))

(* rpl_rl_on_dio_received for v, after its Step 0; the first call starts   *)
(* the learning phase.                                                     *)
OnDioReceived(v, sc) ==
  LET sc1 == IF v = pref THEN sc ELSE Recalculated(sc)
  IN  /\ mode' = IF mode = "off" THEN "learning" ELSE mode
      /\ IF Triggered(v, sc1) THEN Learn(sc1) \/ Decide(sc1)
         ELSE /\ IF v = pref THEN Keep(sc1, Bin(sc1[v])) ELSE KeepAsIs(sc1)
              /\ UNCHANGED table
-----------------------------------------------------------------------------
(* rpl_process_dio with an instance: the sender is added if new, be it to  *)
(* an empty table, its rank and tau recorded, tau_cand computed, and the   *)
(* agent called.                                                           *)
ReceiveDio(n, l) ==
  /\ joined
  /\ UNCHANGED joined
  /\ tbl' = tbl \cup {n}
  /\ link' = [link EXCEPT ![n] = l]
  /\ lastRssi' = [lastRssi EXCEPT ![n] = l.rssi]
  /\ heard' = heard \cup {n}
  /\ OnDioReceived(n, [score EXCEPT ![n] = DioScore(l)])

(* handle_panic_monitor *)
Degraded == link[pref].rssi <= RssiWeak \/ LinkMetric(link[pref]) >= EtxPanic

Panic ==
  /\ pref # None /\ Degraded
  /\ lastRssi' = [lastRssi EXCEPT ![pref] = link[pref].rssi]
  /\ heard' = heard \cup {pref}
  /\ UNCHANGED <<joined, tbl, link>>
  /\ OnDioReceived(pref, score)

(* rpl_join_instance: the agent is not called and leaves no metadata. *)
Join(n, l) ==
  /\ ~ joined /\ joined' = TRUE
  /\ tbl' = {n} /\ pref' = n
  /\ link' = [link EXCEPT ![n] = l]
  /\ score' = [score EXCEPT ![n] = DioScore(l)]
  /\ UNCHANGED <<mode, lastRssi, heard, memory, table>>

(* rpl_set_preferred_parent called by rpl-dag.c *)
Override(p) ==
  /\ p \in tbl \cup {None} /\ p # pref
  /\ pref' = p
  /\ UNCHANGED <<joined, mode, tbl, link, score, lastRssi, heard, memory, table>>

(* The table entry of n, and with it what the agent kept of n, is freed. *)
Forget(n) ==
  /\ n \in tbl /\ n # pref
  /\ tbl' = tbl \ {n}
  /\ heard' = heard \ {n}
  /\ attached' = attached \ {n}
  /\ score' = [score EXCEPT ![n] = 0] /\ lastRssi' = [lastRssi EXCEPT ![n] = 0]
  /\ age' = [age EXCEPT ![n] = 0]
  /\ stateS' = [stateS EXCEPT ![n] = 0] /\ choice' = [choice EXCEPT ![n] = 0]
  /\ UNCHANGED <<joined, mode, pref, link, table>>

(* Transmissions change the link statistics of n. *)
LinkChange(n, l) ==
  /\ n \in tbl /\ l.rank = link[n].rank /\ l.tau = link[n].tau
  /\ link' = [link EXCEPT ![n] = l]
  /\ UNCHANGED <<joined, mode, pref, tbl, score, lastRssi, heard, memory, table>>

(* RL_NEIGHBOR_TIMEOUT passes after rl_time_last_dio of n was set. *)
Timeout(n) ==
  /\ n \in heard
  /\ heard' = heard \ {n}
  /\ UNCHANGED <<joined, mode, pref, tbl, link, score, lastRssi, memory, table>>

(* d periods of RL_STABILITY_CONSTANT go by. *)
Elapse(d) ==
  /\ pref # None
  /\ age' = [n \in Nbr |-> IF n \in attached THEN Lower(age[n] + d, MaxReward) ELSE age[n]]
  /\ UNCHANGED <<joined, mode, pref, tbl, link, score, lastRssi, heard, attached,
                 stateS, choice, table>>

EndLearning ==
  /\ mode = "learning" /\ mode' = "production"
  /\ UNCHANGED <<joined, pref, tbl, link, score, lastRssi, heard, memory, table>>

DioFrom(n) == \E l \in Links : ReceiveDio(n, l)

Next ==
  \/ \E n \in Nbr : DioFrom(n) \/ Forget(n) \/ Timeout(n)
  \/ \E n \in Nbr : \E l \in Links : Join(n, l) \/ LinkChange(n, l)
  \/ \E p \in Nbr \cup {None} : Override(p)
  \/ Panic
  \/ \E d \in Delays : Elapse(d)
  \/ EndLearning

Spec == Init /\ [][Next]_vars
-----------------------------------------------------------------------------
(* The variables keep their types; the Q-table holds ten times an average  *)
(* of rewards, so it stays within their range.                             *)
TypeOK ==
  /\ joined \in BOOLEAN /\ (~ joined => tbl = {})
  /\ mode \in {"off", "learning", "production"}
  /\ pref \in tbl \cup {None} /\ tbl \subseteq Nbr
  /\ link \in [Nbr -> Links]
  /\ score \in [Nbr -> Nat] /\ lastRssi \in [Nbr -> Int]
  /\ heard \subseteq tbl /\ attached \subseteq tbl
  /\ age \in [Nbr -> 0 .. MaxReward]
  /\ stateS \in [Nbr -> Bins] /\ choice \in [Nbr -> Bins]
  /\ q \in [Bins \X Bins -> 0 .. 10 * MaxReward]
  /\ credits \in 0 .. MaxCredits

AgentStep == Panic \/ \E n \in Nbr : DioFrom(n)

(* What RplDag takes the agent to do: it keeps the parent or moves to a    *)
(* neighbour in the table that is not timed out and announced a finite     *)
(* rank, in either mode and however stale the scores are.                  *)
AgentKeepsToUsable ==
  [][pref' # pref /\ AgentStep =>
       pref' \in heard' /\ link'[pref'].rank # InfiniteRank]_vars

(* While it learns, the agent takes a detached node back as soon as some   *)
(* neighbour with a finite rank sends a DIO: no score, not even that of a  *)
(* link without any quality, keeps the node out (bootstrap value 500).     *)
JoinsWhileLearning ==
  [][\A n \in Nbr :
       pref = None /\ mode # "production" /\ link'[n].rank # InfiniteRank /\ DioFrom(n)
         => pref' # None]_vars

(* An update credits the parent that is left or kept, with no more than    *)
(* the time since the agent attached to it, and moves an entry towards     *)
(* that reward without passing it, up or down.                             *)
CreditsTowardsReward ==
  [][q' # q =>
       LET sa == <<stateS[pref], choice[pref]>>
       IN  /\ pref \in attached
           /\ q' = [q EXCEPT ![sa] = q'[sa]]
           /\ \/ q[sa] < q'[sa] /\ q'[sa] <= 10 * age[pref]
              \/ q[sa] > q'[sa] /\ q'[sa] >= 10 * age[pref]]_vars
=============================================================================
