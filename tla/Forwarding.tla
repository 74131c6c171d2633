----------------------------- MODULE Forwarding -----------------------------
(* One data packet in storing mode and the checks of its hop-by-hop header: *)
(* over any ranks, parents and routes, right, stale or in a loop.  A packet *)
(* is faster than control traffic, so ranks, parents and routes stay as     *)
(* they are while it travels.  The hop limit is left out.                   *)
(*                                                                          *)
(* rpl-ext-header.c; the next hop is uIP's: the route if there is one, else *)
(* the default router, which is the preferred parent.                       *)
EXTENDS Naturals

CONSTANTS
    Nodes, Root,
    Dest,      \* destination, a node of the DODAG
    Source,
    None,      \* no next hop; no sender
    Parents,   \* <<n, s>>: n has s in its parent table
    RootRank,  \* ROOT_RANK
    Ranks,     \* ranks the others may have
    Routes     \* assignments of next hops for Dest

Routers == Nodes \ {Root, Dest}

ASSUME ForwardingAssumption ==
    /\ Root \in Nodes /\ Dest \in Nodes \ {Root}
    /\ Source \in Nodes \ {Dest} /\ None \notin Nodes
    /\ Parents \subseteq Nodes \X Nodes
    /\ RootRank \in Nat /\ Ranks \subseteq {k \in Nat : k > RootRank}
    /\ Routes \subseteq [Nodes -> (Nodes \ {Root}) \cup {None}]

VARIABLES
    rank,       \* dag->rank
    parent,     \* preferred parent and default router
    route,      \* next hop of the route to Dest
    at, from,   \* the node that holds the packet, and its sender
    down,       \* RPL_HDR_OPT_DOWN
    rankErr,    \* RPL_HDR_OPT_RANK_ERR
    senderRank, \* in the header
    status,     \* of the packet
    visited,    \* nodes it has been at (history)
    looped,     \* it has been somewhere twice (history)
    told,       \* <<n, s>>: n has scheduled a unicast DIO to s
    corrected,  \* <<n, s>>: n has taken s's rank from a header
    withdrawn   \* <<n, s>>: n has sent s a No-Path DAO for Dest

config == <<rank, parent, route>>
header == <<down, rankErr, senderRank>>
words  == <<told, corrected, withdrawn>>
vars   == <<rank, parent, route, at, from, down, rankErr, senderRank, status,
            visited, looped, told, corrected, withdrawn>>

-----------------------------------------------------------------------------
(* rpl_verify_hbh_header *)

SenderCloser == senderRank < rank[at]

(* The ranks contradict the direction: equal ranks are right for a packet   *)
(* going up, and wrong for one going down.                                  *)
Mismatch == (down /\ ~SenderCloser) \/ (~down /\ SenderCloser)

KnownSender == <<at, from>> \in Parents

(* Mutant: only a mismatch on the way up is answered with a DIO. *)
VerifyUp ==
    /\ told' = IF Mismatch /\ ~down /\ KnownSender
                 THEN told \cup {<<at, from>>} ELSE told
    /\ corrected' = IF rankErr /\ KnownSender
                      THEN corrected \cup {<<at, from>>} ELSE corrected

(* A mismatch schedules a unicast DIO to the sender; a header with an error *)
(* corrects what is known of it.                                            *)
Verify ==
    /\ told' = IF Mismatch /\ KnownSender THEN told \cup {<<at, from>>} ELSE told
    /\ corrected' = IF rankErr /\ KnownSender
                      THEN corrected \cup {<<at, from>>} ELSE corrected

Accepted == ~(Mismatch /\ rankErr)

-----------------------------------------------------------------------------
Moving == status = "moving"

(* The packet goes on with a header.                                        *)
SendOn(next, isDown, err) ==
    /\ down' = isDown
    /\ rankErr' = err
    /\ senderRank' = rank[at]
    /\ at' = next
    /\ from' = at
    /\ visited' = visited \cup {next}
    /\ looped' = (looped \/ next \in visited)
    /\ UNCHANGED status

Ends(how) ==
    /\ status' = how
    /\ UNCHANGED <<at, from, header, visited, looped>>

NextHop(n) == IF route[n] # None THEN route[n] ELSE parent[n]

(* Mutant: every new header says down. *)
InsertDown ==
    IF NextHop(at) = None THEN Ends("dropped")
    ELSE SendOn(NextHop(at), TRUE, FALSE)

(* The source, or the root, inserts a header: no flag but the direction.    *)
Insert ==
    IF NextHop(at) = None THEN Ends("dropped")
    ELSE SendOn(NextHop(at), route[at] # None, FALSE)

Originate ==
    /\ Moving /\ from = None
    /\ Insert
    /\ UNCHANGED <<config, words>>

Arrives == Moving /\ from # None

(* A second rank error.                                                     *)
DropLooping ==
    /\ Arrives /\ ~Accepted
    /\ Verify
    /\ Ends("dropped")
    /\ UNCHANGED <<config, withdrawn>>

Deliver ==
    /\ Arrives /\ Accepted
    /\ at = Dest
    /\ Verify
    /\ Ends("delivered")
    /\ UNCHANGED <<config, withdrawn>>

(* The root takes the old header off, with what it said of errors.          *)
Turn ==
    /\ Arrives /\ Accepted
    /\ at = Root
    /\ Verify
    /\ Insert
    /\ UNCHANGED <<config, withdrawn>>

(* update_hbh_header: down, and no way on.                                  *)
DropUnroutable ==
    /\ Arrives /\ Accepted
    /\ at \in Routers
    /\ down /\ route[at] = None
    /\ Verify
    /\ withdrawn' = IF KnownSender THEN withdrawn \cup {<<at, from>>} ELSE withdrawn
    /\ Ends("dropped")
    /\ UNCHANGED config

(* Mutant: the rank error is not kept in the header. *)
ForgetError ==
    /\ Arrives /\ Accepted
    /\ at \in Routers
    /\ ~(down /\ route[at] = None)
    /\ Verify
    /\ SendOn(NextHop(at), down \/ route[at] # None, FALSE)
    /\ UNCHANGED <<config, withdrawn>>

(* Mutant: the direction is not updated where a route begins. *)
KeepDirection ==
    /\ Arrives /\ Accepted
    /\ at \in Routers
    /\ ~(down /\ route[at] = None)
    /\ Verify
    /\ SendOn(NextHop(at), down, rankErr \/ Mismatch)
    /\ UNCHANGED <<config, withdrawn>>

(* update_hbh_header: on along the route, down from here; else up.          *)
Forward ==
    /\ Arrives /\ Accepted
    /\ at \in Routers
    /\ ~(down /\ route[at] = None)
    /\ Verify
    /\ SendOn(NextHop(at), down \/ route[at] # None, rankErr \/ Mismatch)
    /\ UNCHANGED <<config, withdrawn>>

Init ==
    /\ rank \in {f \in [Nodes -> Ranks \cup {RootRank}] :
                  \A n \in Nodes : f[n] = RootRank <=> n = Root}
    /\ parent \in {f \in [Nodes -> Nodes \cup {None}] :
                    /\ f[Root] = None
                    /\ f[Dest] = Root
                    /\ \A n \in Routers : f[n] \in (Routers \cup {Root}) \ {n}}
    /\ route \in Routes
    /\ at = Source /\ from = None
    /\ down = FALSE /\ rankErr = FALSE /\ senderRank = RootRank
    /\ status = "moving"
    /\ visited = {Source} /\ looped = FALSE
    /\ told = {} /\ corrected = {} /\ withdrawn = {}

Hop == Originate \/ DropLooping \/ Deliver \/ Turn \/ DropUnroutable \/ Forward

Spec == Init /\ [][Hop]_vars /\ WF_vars(Hop)

-----------------------------------------------------------------------------
(* Types; a packet going down has a node behind it that had a route.        *)
TypeOK ==
    /\ rank \in [Nodes -> Ranks \cup {RootRank}]
    /\ parent \in [Nodes -> Nodes \cup {None}]
    /\ route \in Routes
    /\ at \in Nodes /\ from \in Nodes \cup {None}
    /\ down \in BOOLEAN /\ rankErr \in BOOLEAN
    /\ senderRank \in Ranks \cup {RootRank}
    /\ status \in {"moving", "delivered", "dropped"}
    /\ visited \subseteq Nodes /\ looped \in BOOLEAN
    /\ told \subseteq Parents /\ corrected \subseteq Parents
    /\ withdrawn \subseteq Parents
    /\ down => from # None /\ route[from] = at

(* Every packet is delivered or dropped whatever loops its way has, except  *)
(* in a loop of default routes at one rank, which the comparison of         *)
(* rpl_verify_hbh_header takes for progress (the hop limit ends that one).  *)
LoopsEnd ==
    \/ <>~Moving
    \/ \E k \in Ranks : <>[](~down /\ rank[at] = k)

(* A packet lost to a loop has left word with a node that can mend it: a    *)
(* unicast DIO where the ranks were wrong, a No-Path DAO where the route    *)
(* was (all senders being in the tables).                                   *)
LoopsReported ==
    status = "dropped" /\ looped => told # {} \/ withdrawn # {}

(* Ranks grow from the root, and routes lead down to Dest.                  *)
Sound ==
    /\ \A n \in Routers : rank[parent[n]] < rank[n]
    /\ route[Root] # None
    /\ \A n \in Nodes \ {Dest} :
         route[n] # None => /\ rank[n] < rank[route[n]]
                            /\ route[n] = Dest \/ route[route[n]] # None

(* In a DODAG without contradictions every packet is delivered and no check *)
(* strikes: no DIO, no No-Path DAO, no rank taken from a header.            *)
SoundDelivers ==
    Sound => /\ <>(status = "delivered")
             /\ [](told = {} /\ corrected = {} /\ withdrawn = {})
=============================================================================
