----------------------------- MODULE ForkChoiceSim ----------------------------
(***************************************************************************)
(* The fork-choice simulator (simulations/modules/consensus/               *)
(* fork_choice.go): a tree of blocks, four rules that pick a tip, nodes    *)
(* that vote for what the rule picks, and the canonical chain.             *)
(*                                                                         *)
(* A block's weight is its height (createBlock adds one to the parent's),  *)
(* so weights are computed from the tree.  Tips and children are sets: the *)
(* code keeps them in the order of creation, which is that of the numbers. *)
(* The user forks at any block and has the canonical chain recomputed at   *)
(* any time.                                                               *)
(***************************************************************************)
EXTENDS Naturals, Sequences, FiniteSets, FiniteSetsExt

CONSTANTS
    N,             \* node_count
    MaxBlocks      \* bound: blocks, genesis included

ForkChoiceAssumption == {N, MaxBlocks} \subseteq Nat \ {0}

VARIABLES
    rule,          \* s.rule
    tick,          \* the tick, modulo 15: blocks every 3, votes every 5
    tree,          \* s.blocks by their parents, s.tips, s.forkCount
    ballots,       \* node.VotedFor, block.Votes
    chain          \* s.canonicalHead, the blocks with IsCanonical, s.reorgCount

vars == <<rule, tick, tree, ballots, chain>>

Nodes == 1 .. N
Genesis == 1
None == 0
Rules == {"longest_chain", "ghost", "lmd_ghost", "heaviest"}

Init ==
    /\ rule \in Rules
    /\ tick = 0
    /\ tree = [parent |-> <<None>>, tips |-> {Genesis}, forkCount |-> 0]
    /\ ballots = [votedFor |-> [n \in Nodes |-> None], votes |-> [b \in 1 .. MaxBlocks |-> 0]]
    /\ chain = [head |-> Genesis, canonical |-> {Genesis}, reorgCount |-> 0]

-----------------------------------------------------------------------------
\* The blocks from each block back to genesis.
Paths(t) ==
    LET path[b \in DOMAIN t.parent] ==
            IF b = Genesis THEN {b} ELSE {b} \cup path[t.parent[b]]
    IN  path

Height(t, b) == Cardinality(Paths(t)[b]) - 1
Children(t, b) == {c \in DOMAIN t.parent : t.parent[c] = b}
Subtree(t, b) == {d \in DOMAIN t.parent : b \in Paths(t)[d]}

\* Mutant: a tie goes to the last.
LastOf(best) == Max(best)

\* Every rule compares with `>`: the first of the greatest wins.
FirstOf(best) == Min(best)

\* The block of S greatest by f, which must be above zero.
Greatest(S, f) ==
    LET best == {b \in S : f[b] > 0 /\ \A c \in S : f[c] <= f[b]}
    IN  IF best = {} THEN None ELSE FirstOf(best)

\* findGHOSTTip, findLMDGHOSTTip: from genesis to the best child while there is one.
Descent(t, f) ==
    LET below[b \in DOMAIN t.parent] ==
            LET c == Greatest(Children(t, b), f) IN IF c = None THEN b ELSE below[c]
    IN  below[Genesis]

\* What the rule compares: the height of a block, the weight of its chain, the
\* weight or the votes of its subtree.
Worth(t, votes) ==
    LET height == [b \in DOMAIN t.parent |-> Height(t, b)]
    IN  [b \in DOMAIN t.parent |->
            CASE rule = "longest_chain" -> height[b]
              [] rule = "heaviest" -> MapThenSumSet(LAMBDA a : height[a], Paths(t)[b])
              [] rule = "ghost" -> MapThenSumSet(LAMBDA d : height[d], Subtree(t, b))
              [] rule = "lmd_ghost" -> MapThenSumSet(LAMBDA d : votes[d], Subtree(t, b))]

Best(t, votes) ==
    IF rule \in {"longest_chain", "heaviest"} THEN Greatest(t.tips, Worth(t, votes))
    ELSE Descent(t, Worth(t, votes))

(* createBlock and updateTips.                                             *)
Create(p) ==
    [parent |-> Append(tree.parent, p),
     tips |-> (tree.tips \ {p}) \cup {Len(tree.parent) + 1},
     forkCount |-> tree.forkCount + IF p = chain.head THEN 0 ELSE 1]

(* castVote of every node in turn; each sees the votes before its own.     *)
CastVotes(t) ==
    LET cast[n \in 0 .. N] ==
            IF n = 0 THEN ballots
            ELSE LET b == cast[n - 1]
                     old == b.votedFor[n]
                     new == Best(t, b.votes)
                 IN  IF new \in {None, old} THEN b
                     ELSE [votedFor |-> [b.votedFor EXCEPT ![n] = new],
                           votes |-> [x \in DOMAIN b.votes |->
                               b.votes[x] + (IF x = new THEN 1 ELSE 0)
                                          - (IF x = old THEN 1 ELSE 0)]]
    IN  cast[N]

(* updateCanonicalChain.                                                   *)
Canonical(t, votes) ==
    LET new == Best(t, votes)
    IN  IF new \in {None, chain.head} THEN chain
        ELSE [head |-> new, canonical |-> Paths(t)[new],
              reorgCount |-> chain.reorgCount + IF chain.head \in Paths(t)[new] THEN 0 ELSE 1]

(* onTick: a block on the head, or on any tip, then the votes.             *)
Tick ==
    /\ tick' = (tick + 1) % 15
    /\ \E p \in IF tick' % 3 = 0 THEN {chain.head} \cup tree.tips ELSE {None} :
           LET t == IF p = None THEN tree ELSE Create(p)
               b == IF tick' % 5 = 0 THEN CastVotes(t) ELSE ballots
           IN  /\ Len(t.parent) <= MaxBlocks
               /\ tree' = t
               /\ ballots' = b
               /\ chain' = IF tick' % 5 = 0 THEN Canonical(t, b.votes) ELSE chain
    /\ UNCHANGED rule

(* create_fork (TriggerFork) on block p.                                   *)
CreateFork(p) ==
    /\ Len(tree.parent) < MaxBlocks
    /\ tree' = Create(p)
    /\ UNCHANGED <<rule, tick, ballots, chain>>

(* recompute_canonical.                                                    *)
Recompute ==
    /\ chain' = Canonical(tree, ballots.votes)
    /\ UNCHANGED <<rule, tick, tree, ballots>>

Next ==
    \/ Tick
    \/ \E p \in DOMAIN tree.parent : CreateFork(p)
    \/ Recompute

Spec == Init /\ [][Next]_vars

-----------------------------------------------------------------------------
(* Type correctness.                                                       *)
TypeOK ==
    /\ rule \in Rules
    /\ tick \in 0 .. 14
    /\ Len(tree.parent) \in 1 .. MaxBlocks
    /\ \A b \in DOMAIN tree.parent : tree.parent[b] \in 0 .. b - 1
    /\ tree.tips \subseteq DOMAIN tree.parent
    /\ tree.forkCount \in 0 .. MaxBlocks
    /\ ballots.votedFor \in [Nodes -> 0 .. MaxBlocks]
    /\ ballots.votes \in [1 .. MaxBlocks -> 0 .. N]
    /\ chain.head \in DOMAIN tree.parent
    /\ chain.canonical \subseteq DOMAIN tree.parent
    /\ chain.reorgCount \in Nat

(* Flags, tips and vote counters, kept apart from the tree, agree with it  *)
(* and with each other.  A reorganisation takes a fork that was counted,   *)
(* and with the longest or the heaviest chain it gains height, so there    *)
(* are never more of them than blocks below the head.  Under lmd_ghost,    *)
(* the default, the first votes go to genesis and outweigh nothing below   *)
(* it: the head never leaves genesis, whatever is built.                   *)
HeadFollowsRule ==
    /\ tree.tips = {b \in DOMAIN tree.parent : Children(tree, b) = {}}
    /\ chain.canonical = Paths(tree)[chain.head]
    /\ \A b \in 1 .. MaxBlocks :
           ballots.votes[b] = Cardinality({n \in Nodes : ballots.votedFor[n] = b})
    /\ chain.reorgCount > 0 => tree.forkCount > 0
    /\ rule \in {"longest_chain", "heaviest"} => chain.reorgCount <= Height(tree, chain.head)
    /\ rule = "lmd_ghost" => chain.head = Genesis
=============================================================================
