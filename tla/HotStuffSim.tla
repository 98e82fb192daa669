------------------------------ MODULE HotStuffSim -----------------------------
(***************************************************************************)
(* The HotStuff teaching simulator (simulations/modules/consensus/         *)
(* hotstuff.go).  The proposal is queued once for every other node, yet    *)
(* each copy makes all of them vote, and these votes are spent on the four *)
(* phases one after the other: nothing ties a vote to a phase, and nobody  *)
(* looks whether a node has voted already.                                 *)
(*                                                                         *)
(* One message is handled per tick.  The timer and the user propose in the *)
(* same way; a leader is rotated by a block that is decided, or by the     *)
(* user at any time.                                                       *)
(***************************************************************************)
EXTENDS Naturals, Sequences, FiniteSets, SequencesExt

CONSTANTS
    ReplicaCount,  \* node_count, four at least
    MaxBlocks,     \* bound: proposals
    MaxRotations   \* bound: leaders rotated by the user

HotStuffAssumption ==
    /\ ReplicaCount \in Nat /\ ReplicaCount >= 4
    /\ {MaxBlocks, MaxRotations} \subseteq Nat

VARIABLES
    viewNum,       \* s.viewNum
    phase,         \* s.phase
    block,         \* s.pendingBlock; 0 for none
    votes,         \* s.votes of the pending block
    msgQueue,      \* s.msgQueue
    height,        \* len(s.chain) - 1
    \* hotStuffObservers
    proposed,      \* blocks proposed
    rotations,     \* leaders rotated by the user
    rotated,       \* the leader was rotated under a pending block
    quorums        \* the votes of every QC formed, and of every decision

hotStuffObservers == <<proposed, rotations, rotated, quorums>>
hotStuffVars == <<viewNum, phase, block, votes, msgQueue, height, hotStuffObservers>>

Replicas == 1 .. ReplicaCount
Phases == <<"prepare", "precommit", "commit", "decide">>
Threshold == (ReplicaCount * 2) \div 3 + 1

\* getLeader, in view v; the leader of the view is the one with IsLeader.
Leader(v) == ((v - 1) % ReplicaCount) + 1

HotStuffInit ==
    /\ viewNum = 1
    /\ phase = 1
    /\ block = 0
    /\ votes = <<>>
    /\ msgQueue = <<>>
    /\ height = 0
    /\ proposed = 0 /\ rotations = 0
    /\ rotated = FALSE
    /\ quorums = {}

-----------------------------------------------------------------------------
\* Mutant: the proposer is not left out.
EveryVoter(n) == [i \in Replicas |-> i]

\* Those who vote for a proposal of node n, in the order of s.nodeList.
Voters(n) == [i \in 1 .. ReplicaCount - 1 |-> IF i < n THEN i ELSE i + 1]

(* propose.                                                                *)
Propose ==
    /\ block = 0
    /\ proposed < MaxBlocks /\ proposed' = proposed + 1
    /\ block' = proposed + 1
    /\ phase' = 1
    /\ votes' = <<Leader(viewNum)>>
    /\ msgQueue' = msgQueue \o [i \in 1 .. ReplicaCount - 1 |->
           [type |-> "propose", block |-> proposed + 1, from |-> Leader(viewNum)]]
    /\ UNCHANGED <<viewNum, height, rotations, rotated, quorums>>

(* handlePropose: every node but the sender votes.                         *)
HandlePropose ==
    /\ msgQueue # <<>> /\ Head(msgQueue).type = "propose"
    /\ LET m == Head(msgQueue)
       IN  msgQueue' = Tail(msgQueue) \o [i \in DOMAIN Voters(m.from) |->
               [type |-> "vote", block |-> m.block, from |-> Voters(m.from)[i]]]
    /\ UNCHANGED <<viewNum, phase, block, votes, height, hotStuffObservers>>

(* handleVote and advancePhase: the quorum makes a QC and opens the next   *)
(* phase, or decides the block and rotates the leader.                     *)
HandleVote ==
    /\ msgQueue # <<>> /\ Head(msgQueue).type = "vote"
    /\ LET m == Head(msgQueue)
           counts == block # 0 /\ m.block = block
           cast == Append(votes, m.from)
           advances == counts /\ Len(cast) >= Threshold
           decides == advances /\ phase = Len(Phases)
       IN  /\ msgQueue' = Tail(msgQueue)
           /\ votes' = IF decides THEN <<>> ELSE IF advances THEN <<Leader(viewNum)>>
                       ELSE IF counts THEN cast ELSE votes
           /\ phase' = IF decides THEN 1 ELSE IF advances THEN phase + 1 ELSE phase
           /\ block' = IF decides THEN 0 ELSE block
           /\ height' = IF decides THEN height + 1 ELSE height
           /\ viewNum' = IF decides THEN viewNum + 1 ELSE viewNum
           /\ rotated' = (rotated /\ ~decides)
           /\ quorums' = IF advances /\ ~rotated THEN quorums \cup {cast} ELSE quorums
    /\ UNCHANGED <<proposed, rotations>>

(* rotate_leader: the pending block, its phase and its votes stay.         *)
RotateLeader ==
    /\ rotations < MaxRotations /\ rotations' = rotations + 1
    /\ viewNum' = viewNum + 1
    /\ rotated' = (block # 0)
    /\ UNCHANGED <<phase, block, votes, msgQueue, height, proposed, quorums>>

HotStuffNext ==
    \/ Propose
    \/ HandlePropose
    \/ HandleVote
    \/ RotateLeader

HotStuffSpec == HotStuffInit /\ [][HotStuffNext]_hotStuffVars

-----------------------------------------------------------------------------
(* Type correctness.                                                       *)
HotStuffTypeOK ==
    /\ viewNum \in Nat \ {0}
    /\ phase \in DOMAIN Phases
    /\ block \in 0 .. proposed
    /\ votes \in Seq(Replicas)
    /\ msgQueue \in Seq([type : {"propose", "vote"}, block : 1 .. proposed, from : Replicas])
    /\ height \in 0 .. proposed
    /\ proposed \in 0 .. MaxBlocks
    /\ rotations \in 0 .. MaxRotations
    /\ rotated \in BOOLEAN
    /\ quorums \subseteq Seq(Replicas)

(* Every QC holds the votes of a quorum of different nodes (the node cards *)
(* count them), although votes are not checked: the repeated votes come    *)
(* round in turn.  A leader rotated under its block has voted as a         *)
(* follower and breaks it.  And the votes of one proposal always suffice   *)
(* for all four phases: no block is stuck once the queue is empty.         *)
QuorumsAreReal ==
    /\ \A q \in quorums : Cardinality(ToSet(q)) >= Threshold
    /\ msgQueue = <<>> => block = 0
=============================================================================
