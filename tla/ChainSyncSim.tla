------------------------------ MODULE ChainSyncSim ----------------------------
(***************************************************************************)
(* The chain-synchronisation simulator (simulations/modules/blockchain/    *)
(* chain_sync.go): nodes that copy one block at a time from a random peer, *)
(* and a canonical chain that grows meanwhile.                             *)
(*                                                                         *)
(* node.Blocks is a prefix of the canonical chain; its length is the       *)
(* node's height.                                                          *)
(***************************************************************************)
EXTENDS Naturals, FiniteSets, FiniteSetsExt

CONSTANTS
    N,             \* node_count
    Start,         \* height of the canonical chain at first; 10 in the code
    Period,        \* ticks between new blocks; 20 in the code
    MaxCanonical   \* bound: height of the canonical chain

ChainSyncAssumption ==
    /\ {N, Start, Period} \subseteq Nat \ {0}
    /\ MaxCanonical \in Nat /\ MaxCanonical >= Start

VARIABLES
    peers,         \* node.Peers
    heights,       \* node.ChainHeight
    synced,        \* the nodes whose SyncStatus is "synced"
    canonical,     \* len(s.canonicalChain) - 1
    tick,          \* the tick, modulo Period
    first          \* observer: the greatest height of a node at first

vars == <<peers, heights, synced, canonical, tick, first>>

Nodes == 1 .. N

Init ==
    /\ peers \in {p \in [Nodes -> SUBSET Nodes] : \A n \in Nodes : n \notin p[n]}
    /\ heights \in [Nodes -> 0 .. Start]
    /\ synced = {}
    /\ canonical = Start
    /\ tick = 0
    /\ first = Max({heights[n] : n \in Nodes})

-----------------------------------------------------------------------------
\* A peer helps only if it is ahead.
Ahead(h, n, p) == h[p] > h[n]

\* syncNode with peer p: the heights and the synced nodes afterwards.
Synced(at, n, p) ==
    LET h == IF Ahead(at.heights, n, p) THEN [at.heights EXCEPT ![n] = @ + 1] ELSE at.heights
    IN  [heights |-> h, synced |-> at.synced \cup IF h[n] = canonical THEN {n} ELSE {}]

(* A pass over the nodes in turn, each with a random peer if it has one.   *)
Passes ==
    LET after[n \in 0 .. N] ==
            IF n = 0 THEN {[heights |-> heights, synced |-> synced]}
            ELSE UNION {IF at.heights[n] = canonical \/ peers[n] = {} THEN {at}
                        ELSE {Synced(at, n, p) : p \in peers[n]} : at \in after[n - 1]}
    IN  after[N]

Pass == \E at \in Passes : heights' = at.heights /\ synced' = at.synced

(* onTick.                                                                 *)
Tick ==
    /\ Pass
    /\ tick' = (tick + 1) % Period
    /\ IF tick' = 0 THEN canonical < MaxCanonical /\ canonical' = canonical + 1
       ELSE UNCHANGED canonical
    /\ UNCHANGED <<peers, first>>

(* sync_round.                                                             *)
SyncRound ==
    /\ Pass
    /\ UNCHANGED <<peers, canonical, tick, first>>

Next == Tick \/ SyncRound

Spec == Init /\ [][Next]_vars

-----------------------------------------------------------------------------
(* Type correctness.                                                       *)
TypeOK ==
    /\ peers \in [Nodes -> SUBSET Nodes]
    /\ heights \in [Nodes -> 0 .. MaxCanonical]
    /\ synced \subseteq Nodes
    /\ canonical \in Start .. MaxCanonical
    /\ tick \in 0 .. Period - 1
    /\ first \in 0 .. Start

(* Blocks spread only from peers that have them, and nobody has the blocks *)
(* that are added: no node ever gets beyond the greatest height it was     *)
(* dealt among them at first.  Once the canonical chain is above that,     *)
(* nobody becomes synced, and those who are keep the status although they  *)
(* are behind.                                                             *)
NobodyLeads ==
    /\ \A n \in Nodes : heights[n] <= first
    /\ synced # {} => first = Start
    /\ \A n \in synced : heights[n] = Start
=============================================================================
