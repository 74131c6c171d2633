------------------------- MODULE Forwarding_proofs -------------------------
(* Data packets over any tables: whoever loses one to a loop has left word  *)
(* of it, and tables without contradictions raise no alarm.                 *)
EXTENDS Forwarding, TLAPS

-----------------------------------------------------------------------------
(* Types *)

(* Only the root has no way up, and no route leads to it.                   *)
Ways ==
    /\ \A n \in Nodes : parent[n] = None <=> n = Root
    /\ \A n \in Routers : parent[n] # n
    /\ \A n \in Nodes : route[n] \in (Nodes \ {Root}) \cup {None}

TypeInv == TypeOK /\ Ways /\ (from = None => at = Source /\ ~looped)

LEMMA TypeInit == Init => TypeInv
<1> SUFFICES ASSUME Init PROVE TypeInv
  OBVIOUS
<1> USE ForwardingAssumption
<1>1. parent \in [Nodes -> Nodes \cup {None}] /\ rank \in [Nodes -> Ranks \cup {RootRank}]
  BY DEF Init
<1>2. \A n \in Nodes : parent[n] = None <=> n = Root
  <2>1. \A n \in Routers : parent[n] \in Routers \cup {Root} /\ parent[n] # n
    BY DEF Init
  <2>2. parent[Root] = None /\ parent[Dest] = Root
    BY DEF Init
  <2> QED BY <2>1, <2>2 DEF Routers
<1>3. \A n \in Routers : parent[n] # n
  BY DEF Init
<1>4. route \in Routes /\ \A n \in Nodes : route[n] \in (Nodes \ {Root}) \cup {None}
  BY DEF Init
<1> QED BY <1>1, <1>2, <1>3, <1>4 DEF Init, TypeInv, TypeOK, Ways

(* The packet goes on along the route, and down from there, or up.          *)
LEMMA SendingOn ==
    ASSUME TypeInv, Moving, NEW err \in BOOLEAN,
           NEW d \in BOOLEAN, d <=> route[at] # None,
           NextHop(at) # None, SendOn(NextHop(at), d, err)
    PROVE  /\ at' \in Nodes /\ from' \in Nodes
           /\ down' \in BOOLEAN /\ rankErr' \in BOOLEAN
           /\ senderRank' \in Ranks \cup {RootRank}
           /\ visited' \subseteq Nodes /\ looped' \in BOOLEAN
           /\ down' => from' # None /\ route[from'] = at'
           /\ status' = status
<1>1. NextHop(at) \in Nodes /\ rank[at] \in Ranks \cup {RootRank} /\ at # None
  BY ForwardingAssumption DEF TypeInv, TypeOK, Ways, NextHop
<1>2. d => NextHop(at) = route[at]
  BY DEF NextHop
<1> QED BY <1>1, <1>2 DEF SendOn, TypeInv, TypeOK

(* What a hop leaves: the tables, and a packet that moved on, or ended.     *)
LEMMA Hopping ==
    ASSUME TypeInv, Hop
    PROVE  /\ Moving /\ UNCHANGED config
           /\ \/ /\ NextHop(at) # None /\ at # Dest
                 /\ rankErr' = (from # None /\ at # Root /\ (rankErr \/ Mismatch))
                 /\ SendOn(NextHop(at), route[at] # None, rankErr')
                 /\ from # None /\ at # Root => ~(down /\ route[at] = None)
                 /\ UNCHANGED withdrawn
              \/ /\ status' \in {"delivered", "dropped"}
                 /\ Ends(status')
           /\ \/ from = None /\ UNCHANGED <<told, corrected>>
              \/ from # None /\ Verify
<1> USE DEF TypeInv, TypeOK, Arrives, Ends, config
<1>1. CASE Originate
  <2>1. at # Dest /\ from = None
    BY <1>1, ForwardingAssumption DEF Originate
  <2> QED BY <1>1, <2>1 DEF Originate, Insert, SendOn, words
<1>2. CASE DropLooping
  BY <1>2 DEF DropLooping
<1>3. CASE Deliver
  BY <1>3 DEF Deliver
<1>4. CASE Turn
  <2>1. at # Dest
    BY <1>4, ForwardingAssumption DEF Turn
  <2> QED BY <1>4, <2>1 DEF Turn, Insert, SendOn
<1>5. CASE DropUnroutable
  BY <1>5 DEF DropUnroutable
<1>6. CASE Forward
  <2>1. NextHop(at) # None /\ at # Root /\ at # Dest
    BY <1>6, ForwardingAssumption DEF Forward, Routers, NextHop, Ways
  <2>2. (down \/ route[at] # None) = (route[at] # None)
    BY <1>6 DEF Forward
  <2> QED BY <1>6, <2>1, <2>2 DEF Forward, SendOn
<1> QED BY <1>1, <1>2, <1>3, <1>4, <1>5, <1>6 DEF Hop

LEMMA TypeStep == TypeInv /\ [Hop]_vars => TypeInv'
<1> SUFFICES ASSUME TypeInv, [Hop]_vars PROVE TypeInv'
  OBVIOUS
<1>1. CASE UNCHANGED vars
  BY <1>1 DEF vars, header, TypeInv, TypeOK, Ways
<1>2. CASE Hop
  <2>1. /\ Moving /\ UNCHANGED config
        /\ \/ from = None /\ UNCHANGED <<told, corrected>>
           \/ from # None /\ Verify
    BY <1>2, Hopping
  <2>2. told' \subseteq Parents /\ corrected' \subseteq Parents
    BY <2>1 DEF Verify, KnownSender, TypeInv, TypeOK
  <2>3. withdrawn' \subseteq Parents
    BY <1>2 DEF Hop, Originate, DropLooping, Deliver, Turn, DropUnroutable, Forward, words,
       KnownSender, TypeInv, TypeOK
  <2>4. Ways' /\ rank' = rank /\ parent' = parent /\ route' = route
    BY <2>1 DEF config, Ways, TypeInv
  <2>5. CASE status' \in {"delivered", "dropped"} /\ Ends(status')
    BY <2>2, <2>3, <2>4, <2>5 DEF TypeInv, TypeOK, Ends, header
  <2>6. CASE NextHop(at) # None /\ SendOn(NextHop(at), route[at] # None, rankErr')
             /\ rankErr' = (from # None /\ at # Root /\ (rankErr \/ Mismatch))
    <3>1. rankErr' \in BOOLEAN /\ (route[at] # None) \in BOOLEAN
      BY <2>6
    <3>2. /\ at' \in Nodes /\ from' \in Nodes
          /\ down' \in BOOLEAN /\ rankErr' \in BOOLEAN
          /\ senderRank' \in Ranks \cup {RootRank}
          /\ visited' \subseteq Nodes /\ looped' \in BOOLEAN
          /\ down' => from' # None /\ route[from'] = at'
          /\ status' = status
      BY <2>1, <2>6, <3>1, SendingOn
    <3> QED BY <2>2, <2>3, <2>4, <3>2, ForwardingAssumption DEF TypeInv, TypeOK
  <2> QED BY <1>2, <2>5, <2>6, Hopping
<1> QED BY <1>1, <1>2

(* Types, for any tables; a packet going down has a node behind it that had *)
(* a route (update_hbh_header).                                             *)
THEOREM Typing == Spec => []TypeOK
<1>1. TypeInv => TypeOK
  BY DEF TypeInv
<1> QED BY <1>1, TypeInit, TypeStep, PTL DEF Spec

-----------------------------------------------------------------------------
(* Loops.  A packet that has not been sent down has left a trail of nodes   *)
(* without a route; once it loops it never leaves the trail, which the root *)
(* is not on.  So a looping packet is dropped by the checks, not for want   *)
(* of a way on.                                                             *)

Trail(n) == route[n] = None /\ n # Root /\ parent[n] \in visited

Rising ==
    Moving /\ ~down =>
      /\ \A n \in visited \ {at} : Trail(n)
      /\ looped => at \in visited /\ Trail(at)

LoopInv == TypeInv /\ Rising /\ LoopsReported

AllKnown == Nodes \X Nodes \subseteq Parents

LEMMA LoopStep == AllKnown /\ LoopInv /\ [Hop]_vars => LoopsReported' /\ Rising'
<1> SUFFICES ASSUME AllKnown, LoopInv, [Hop]_vars PROVE LoopsReported' /\ Rising'
  OBVIOUS
<1>0. TypeInv /\ at \in Nodes
  BY DEF LoopInv, TypeInv, TypeOK
<1>1. CASE UNCHANGED vars
  BY <1>1 DEF vars, header, LoopInv, LoopsReported, Rising, Trail, Moving
<1>2. CASE Hop /\ status' \in {"delivered", "dropped"} /\ Ends(status')
  <2>1. ~Moving'
    BY <1>2 DEF Moving
  <2>2. looped' = looped
    BY <1>2 DEF Ends
  <2>3. from # None => KnownSender
    BY <1>0 DEF AllKnown, KnownSender, TypeInv, TypeOK
  <2>4. CASE DropLooping
    <3>1. Mismatch /\ KnownSender /\ Verify
      BY <2>3, <2>4 DEF DropLooping, Arrives, Accepted
    <3> QED BY <2>1, <3>1 DEF Verify, LoopsReported, Rising
  <2>5. CASE DropUnroutable
    BY <2>1, <2>3, <2>5 DEF DropUnroutable, Arrives, LoopsReported, Rising
  <2>6. CASE Deliver
    BY <2>1, <2>6 DEF Deliver, Ends, LoopsReported, Rising
  <2>7. CASE Originate
    BY <1>0, <2>1, <2>2, <2>7 DEF Originate, LoopsReported, Rising, TypeInv
  <2>8. CASE Turn
    <3>1. ~down
      BY <1>0, <2>8, ForwardingAssumption DEF Turn, TypeInv, TypeOK, Ways
    <3>2. ~looped
      BY <2>8, <3>1 DEF Turn, Arrives, LoopInv, Rising, Trail
    <3> QED BY <2>1, <2>2, <3>2 DEF LoopsReported, Rising
  <2>9. CASE Forward
    BY <1>2, <2>9 DEF Forward, SendOn, Arrives, Moving
  <2> QED BY <1>2, <2>4, <2>5, <2>6, <2>7, <2>8, <2>9 DEF Hop
<1>3. CASE Hop /\ NextHop(at) # None /\ SendOn(NextHop(at), route[at] # None, rankErr')
  <2>0. at # Dest /\ (from # None /\ at # Root => ~(down /\ route[at] = None))
    <3>1. status' = "moving"
      BY <1>0, <1>3, Hopping DEF SendOn, Moving
    <3> QED BY <1>0, <1>3, <3>1, Hopping
  <2>1. Moving /\ Moving' /\ UNCHANGED <<parent, route>>
    BY <1>0, <1>3, Hopping DEF SendOn, Moving, config
  <2>2. LoopsReported'
    BY <2>1 DEF LoopsReported, Moving
  <2>3. ASSUME ~down'
        PROVE  /\ \A n \in visited' \ {at'} : Trail(n)'
               /\ looped' => at' \in visited' /\ Trail(at)'
    <3>1. /\ route[at] = None /\ at # Root /\ at # Dest
          /\ at' = parent[at] /\ visited' = visited \cup {at'}
          /\ looped' = (looped \/ at' \in visited)
      <4>1. /\ (route[at] # None) = down' /\ at' = NextHop(at) /\ NextHop(at) # None
            /\ visited' = visited \cup {at'}
            /\ looped' = (looped \/ at' \in visited)
        BY <1>3 DEF SendOn
      <4>2. route[at] = None /\ at' = parent[at] /\ parent[at] # None
        BY <2>3, <4>1 DEF NextHop
      <4>3. at # Root
        BY <1>0, <4>2 DEF TypeInv, Ways
      <4> QED BY <2>0, <4>1, <4>2, <4>3
    <3>2. ~down
      BY <1>0, <2>0, <3>1 DEF TypeInv, TypeOK
    <3>3. /\ \A n \in visited \ {at} : Trail(n)
          /\ looped => at \in visited /\ Trail(at)
      BY <2>1, <3>2 DEF LoopInv, Rising
    <3>4. ASSUME NEW n \in visited' \ {at'} PROVE Trail(n)'
      BY <2>1, <3>1, <3>3 DEF Trail
    <3>5. looped' => at' \in visited' /\ Trail(at)'
      <4>1. at' # at
        BY <1>0, <3>1 DEF TypeInv, Ways, Routers
      <4>2. looped' => at' \in visited
        BY <3>1, <3>3 DEF Trail
      <4>3. looped' => route[at'] = None /\ at' # Root /\ parent[at'] \in visited
        BY <3>3, <4>1, <4>2 DEF Trail
      <4> QED BY <2>1, <3>1, <4>2, <4>3 DEF Trail
    <3> QED BY <3>4, <3>5
  <2> QED BY <2>2, <2>3 DEF Rising
<1> QED BY <1>0, <1>1, <1>2, <1>3, Hopping

(* rpl_verify_hbh_header and update_hbh_header, for any ranks, parents and  *)
(* routes: if senders are in the parent tables, a packet lost to a loop has *)
(* left a unicast DIO or a No-Path DAO behind.                              *)
THEOREM LoopsAreReported == AllKnown => (Spec => []LoopsReported)
<1> SUFFICES ASSUME AllKnown PROVE Spec => []LoopsReported
  OBVIOUS
<1>1. Init => LoopInv
  BY TypeInit DEF Init, LoopInv, LoopsReported, Rising, Trail
<1>2. LoopInv /\ [Hop]_vars => LoopInv'
  BY TypeStep, LoopStep DEF LoopInv
<1>3. LoopInv => LoopsReported
  BY DEF LoopInv
<1> QED BY <1>1, <1>2, <1>3, PTL DEF Spec

-----------------------------------------------------------------------------
(* False alarms *)

NoAlarm ==
    Sound => /\ told = {} /\ corrected = {} /\ withdrawn = {}
             /\ status # "dropped"

(* The header agrees with the ranks, and going down there is a way on.      *)
Coherent ==
    /\ ~rankErr
    /\ Moving /\ from # None => ~Mismatch
    /\ Moving /\ down => at = Dest \/ route[at] # None

AlarmInv == TypeInv /\ (Sound => Coherent) /\ NoAlarm

LEMMA AlarmStep == AlarmInv /\ [Hop]_vars => (Sound => Coherent)' /\ NoAlarm'
<1> SUFFICES ASSUME AlarmInv, [Hop]_vars, Sound' PROVE Coherent' /\ NoAlarm'
  BY DEF NoAlarm
<1>0. TypeInv /\ at \in Nodes
  BY DEF AlarmInv, TypeInv, TypeOK
<1>1. UNCHANGED config
  BY <1>0, Hopping DEF vars, config
<1>2. Sound /\ Coherent /\ NoAlarm
  BY <1>1 DEF Sound, config, AlarmInv
<1>3. CASE UNCHANGED vars
  BY <1>2, <1>3 DEF vars, header, Coherent, NoAlarm, Sound, Moving, Mismatch, SenderCloser
<1>4. CASE Hop
  <2>1. /\ Moving
        /\ \/ from = None /\ UNCHANGED <<told, corrected>>
           \/ from # None /\ Verify
    BY <1>0, <1>4, Hopping
  <2>2. ~rankErr /\ (from # None => ~Mismatch)
    BY <1>2, <2>1 DEF Coherent
  <2>3. told' = {} /\ corrected' = {}
    BY <1>2, <2>1, <2>2 DEF NoAlarm, Verify
  <2>4. ~DropLooping /\ ~DropUnroutable
    <3>1. ~DropLooping
      BY <2>2 DEF DropLooping, Accepted
    <3>2. ~DropUnroutable
      BY <1>2, <2>1 DEF DropUnroutable, Coherent, Routers
    <3> QED BY <3>1, <3>2
  <2>5. withdrawn' = {}
    BY <1>2, <1>4, <2>4 DEF Hop, Originate, Deliver, Turn, Forward, words, NoAlarm
  <2>6. at # Dest => NextHop(at) # None
    <3>1. route[Root] # None
      BY <1>2 DEF Sound
    <3> QED BY <1>0, <3>1 DEF NextHop, TypeInv, Ways
  <2>7. CASE Deliver
    <3>1. status' = "delivered" /\ rankErr' = rankErr
      BY <2>7 DEF Deliver, Ends, header
    <3> QED BY <2>2, <2>3, <2>5, <3>1 DEF NoAlarm, Coherent, Moving
  <2>8. CASE /\ NextHop(at) # None /\ at # Dest
             /\ SendOn(NextHop(at), route[at] # None, rankErr')
             /\ rankErr' = (from # None /\ at # Root /\ (rankErr \/ Mismatch))
    <3>1. /\ ~rankErr' /\ at' = NextHop(at) /\ from' = at /\ senderRank' = rank[at]
          /\ down' = (route[at] # None) /\ Moving' /\ rank' = rank /\ route' = route
      BY <1>1, <2>1, <2>2, <2>8 DEF SendOn, config, Moving
    <3>2. \A n \in Nodes : rank[n] \in Nat
      BY <1>0, ForwardingAssumption DEF TypeInv, TypeOK
    <3>3. CASE route[at] # None
      <4>1. at' = route[at] /\ at' \in Nodes
        BY <1>0, <3>1, <3>3 DEF NextHop, TypeInv, Ways
      <4>2. rank[at] < rank[at'] /\ (at' = Dest \/ route[at'] # None)
        BY <1>0, <1>2, <2>8, <3>3, <4>1 DEF Sound
      <4> QED BY <2>3, <2>5, <3>1, <3>3, <4>2 DEF Coherent, NoAlarm, Moving, Mismatch, SenderCloser
    <3>4. CASE route[at] = None
      <4>1. at \in Routers /\ at' = parent[at] /\ at' \in Nodes
        BY <1>0, <1>2, <2>8, <3>1, <3>4 DEF NextHop, TypeInv, TypeOK, Ways, Sound, Routers
      <4>2. rank[at'] < rank[at]
        BY <1>2, <4>1 DEF Sound
      <4>3. ~(rank[at] < rank[at'])
        BY <1>0, <3>2, <4>1, <4>2
      <4> QED BY <2>3, <2>5, <3>1, <3>4, <4>3 DEF Coherent, NoAlarm, Moving, Mismatch, SenderCloser
    <3> QED BY <3>3, <3>4
  <2>9. CASE ~Deliver
    <3>1. Originate \/ Turn \/ Forward
      BY <1>4, <2>4, <2>9 DEF Hop
    <3>2. at # Dest
      BY <1>0, <3>1, ForwardingAssumption DEF Originate, Turn, Forward, Routers, TypeInv
    <3>3. Moving'
      BY <2>1, <2>6, <3>1, <3>2 DEF Originate, Turn, Forward, Insert, SendOn, Moving
    <3>4. ~Ends(status') \/ status' \notin {"delivered", "dropped"}
      BY <3>3 DEF Moving
    <3> QED BY <1>0, <1>4, <2>8, <3>4, Hopping
  <2> QED BY <2>7, <2>9
<1> QED BY <1>3, <1>4

(* The same checks where ranks grow from the root and routes lead down to   *)
(* the destination, for any such tables: no packet is dropped, no DIO and   *)
(* no No-Path DAO is sent for one, no rank taken from a header.             *)
THEOREM NoFalseAlarm == Spec => []NoAlarm
<1>1. Init => AlarmInv
  BY TypeInit DEF Init, AlarmInv, NoAlarm, Coherent
<1>2. AlarmInv /\ [Hop]_vars => AlarmInv'
  BY TypeStep, AlarmStep DEF AlarmInv
<1>3. AlarmInv => NoAlarm
  BY DEF AlarmInv
<1> QED BY <1>1, <1>2, <1>3, PTL DEF Spec

=============================================================================
