----------------------------- MODULE TendermintSim ----------------------------
(***************************************************************************)
(* The Tendermint simulator (simulations/modules/consensus/tendermint.go). *)
(* The validators enter each step together and vote alike; IsByzantine is  *)
(* never set and the queued messages are thrown away unread.  So one copy  *)
(* of a validator stands for all, and a vote, cast by all of them, has     *)
(* more than two thirds of the power.                                      *)
(*                                                                         *)
(* The user may have a block proposed, or a round begun, in any step.  A   *)
(* proposal reuses the hash of the proposer's ValidValue, which a commit   *)
(* does not reset, and replaces the one under vote.                        *)
(***************************************************************************)
EXTENDS Integers, Sequences

CONSTANTS
    Timeout,       \* timeout_propose, and the 10 ticks of the other steps
    MaxHeight,     \* bound: heights
    MaxRounds,     \* bound: rounds begun in a height
    MaxFresh       \* bound: hashes made up

TendermintAssumption ==
    /\ Timeout \in Nat /\ Timeout > 1
    /\ {MaxHeight, MaxRounds, MaxFresh} \subseteq Nat \ {0}

VARIABLES
    height, round, \* s.currentHeight, s.currentRound
    step,          \* s.currentStep
    stepTicks,     \* s.stepTicks
    proposal,      \* the hash of s.proposal; Nil for none
    prevote,       \* what s.prevotes holds the votes of all for; Nil for "nil" or none
    precommit,     \* the same of s.precommits
    locked,        \* LockedValue
    valid,         \* ValidValue
    chain,         \* the hashes of s.chain after genesis
    fresh,         \* hashes made up so far
    \* observers
    nilVotes,      \* a round in which the validators voted nil
    unvoted        \* heights whose block is not the one precommitted

votes == <<prevote, precommit>>
observers == <<nilVotes, unvoted>>
vars == <<height, round, step, stepTicks, proposal, votes, locked, valid, chain, fresh,
          observers>>

Nil == 0

Init ==
    /\ height = 1 /\ round = 0
    /\ step = "propose" /\ stepTicks = 0
    /\ proposal = Nil /\ prevote = Nil /\ precommit = Nil
    /\ locked = Nil /\ valid = Nil
    /\ chain = <<>>
    /\ fresh = 0
    /\ nilVotes = FALSE /\ unvoted = {}

-----------------------------------------------------------------------------
\* Mutant: the proposer forgets what was valid.
AlwaysFresh ==
    /\ fresh < MaxFresh
    /\ proposal' = fresh + 1 /\ fresh' = fresh + 1

(* doPropose.                                                              *)
DoPropose ==
    IF valid # Nil THEN proposal' = valid /\ UNCHANGED fresh
    ELSE /\ fresh < MaxFresh
         /\ proposal' = fresh + 1 /\ fresh' = fresh + 1

(* enterPrevote: for the proposal, unless locked on another.               *)
EnterPrevote ==
    /\ step' = "prevote" /\ stepTicks' = 0
    /\ prevote' = IF locked \in {Nil, proposal} THEN proposal ELSE Nil
    /\ nilVotes' = (nilVotes \/ prevote' = Nil)
    /\ UNCHANGED <<height, round, proposal, precommit, locked, valid, chain, fresh, unvoted>>

(* enterPrecommit.                                                         *)
EnterPrecommit ==
    /\ step' = "precommit" /\ stepTicks' = 0
    /\ precommit' = prevote
    /\ locked' = IF prevote = Nil THEN locked ELSE prevote
    /\ valid' = IF prevote = Nil THEN valid ELSE prevote
    /\ UNCHANGED <<height, round, proposal, prevote, chain, fresh, observers>>

\* What nextRound and commitBlock have in common.
BeginRound ==
    /\ step' = "propose" /\ stepTicks' = 0
    /\ proposal' = Nil /\ prevote' = Nil /\ precommit' = Nil

(* nextRound.                                                              *)
NextRound ==
    /\ round < MaxRounds /\ round' = round + 1
    /\ BeginRound
    /\ UNCHANGED <<height, locked, valid, chain, fresh, observers>>

(* commitBlock: it appends the proposal, whatever was voted for.           *)
CommitBlock ==
    IF proposal = Nil THEN NextRound
    ELSE /\ height < MaxHeight /\ height' = height + 1
         /\ round' = 0
         /\ BeginRound
         /\ chain' = Append(chain, proposal)
         /\ locked' = Nil
         /\ unvoted' = IF proposal = precommit THEN unvoted ELSE unvoted \cup {height}
         /\ UNCHANGED <<valid, fresh, nilVotes>>

Wait ==
    /\ stepTicks' = stepTicks + 1
    /\ UNCHANGED <<height, round, step, proposal, votes, locked, valid, chain, fresh, observers>>

TimedOut == stepTicks + 1 >= Timeout

(* onTick, in each step.                                                   *)
TickPropose ==
    /\ step = "propose"
    /\ IF stepTicks = 0
       THEN /\ DoPropose /\ stepTicks' = 1
            /\ UNCHANGED <<height, round, step, votes, locked, valid, chain, observers>>
       ELSE IF TimedOut THEN EnterPrevote ELSE Wait

TickPrevote ==
    /\ step = "prevote"
    /\ IF prevote # Nil \/ TimedOut THEN EnterPrecommit ELSE Wait

TickPrecommit ==
    /\ step = "precommit"
    /\ IF precommit # Nil THEN CommitBlock ELSE IF TimedOut THEN NextRound ELSE Wait

(* submit_proposal.                                                        *)
SubmitProposal ==
    /\ DoPropose
    /\ UNCHANGED <<height, round, step, stepTicks, votes, locked, valid, chain, observers>>

Next ==
    \/ TickPropose
    \/ TickPrevote
    \/ TickPrecommit
    \/ SubmitProposal
    \/ NextRound

Spec == Init /\ [][Next]_vars

-----------------------------------------------------------------------------
(* Type correctness.                                                       *)
TypeOK ==
    /\ height \in 1 .. MaxHeight
    /\ round \in 0 .. MaxRounds
    /\ step \in {"propose", "prevote", "precommit"}
    /\ stepTicks \in 0 .. Timeout - 1
    /\ {proposal, prevote, precommit, locked, valid} \subseteq 0 .. fresh
    /\ chain \in Seq(1 .. fresh)
    /\ fresh \in 0 .. MaxFresh
    /\ nilVotes \in BOOLEAN
    /\ unvoted \subseteq 1 .. MaxHeight

(* No lock ever stands against a proposal when the votes are cast, however *)
(* rounds are cut short and proposals replaced: nobody votes nil and every *)
(* round that is left alone commits.  Only in the first height can the     *)
(* block committed differ from the one voted for; from the second on,      *)
(* every block carries the hash that the first vote settled, for a commit  *)
(* keeps ValidValue.                                                       *)
LocksAgreeWithProposals ==
    /\ ~nilVotes
    /\ unvoted \subseteq {1}
    /\ \A h \in 2 .. Len(chain) : chain[h] = valid
=============================================================================
