----------------------------- MODULE MCSimulators -----------------------------
(***************************************************************************)
(* Six more simulators of the engine, each checked on its own: `scene`     *)
(* says which of them moves in a behaviour.  MCClassroom runs them with    *)
(* its other parts.  A simulator that is not on starts in one state, so    *)
(* that the choices of the others do not multiply.                         *)
(***************************************************************************)
EXTENDS Naturals, Sequences

CONSTANTS
    ForkNodes, MaxTree, DagNodes, MaxVertices, Timeout, MaxHeight, MaxRounds, MaxFresh,
    ValidatorCounts, SlotsPerEpoch, MaxSlot, MaxSlashes, Limits, Delegates, Stranger,
    Balances, FirstVotes, MaxSeats, Interval, MaxTurns, SyncNodes, SyncStart, SyncPeriod, MaxCanonical

VARIABLES
    scene,
    rule, forkTick, tree, ballots, canonicalChain,
    limits, selection, dagTick, dag, confirmed, confirmedCount,
    tmHeight, round, step, stepTicks, proposal, prevote, precommit, locked, valid, hashes,
    fresh, nilVotes, unvoted,
    validators, slot, epoch, posChain, finalized, slashes,
    votedFor, delegateVotes, seats, roundIndex, dposTick, turns, meddled, skipped,
    peers, heights, synced, canonical, syncTick, first

Fork == INSTANCE ForkChoiceSim WITH
    N <- ForkNodes, MaxBlocks <- MaxTree, tick <- forkTick, chain <- canonicalChain
Dag == INSTANCE DagSim WITH
    N <- DagNodes, tick <- dagTick
Tendermint == INSTANCE TendermintSim WITH height <- tmHeight, chain <- hashes
Pos == INSTANCE PosSim WITH
    Counts <- ValidatorCounts, S <- SlotsPerEpoch, active <- validators, chain <- posChain
Dpos == INSTANCE DposSim WITH
    A <- MaxSeats, votes <- delegateVotes, tick <- dposTick
Sync == INSTANCE ChainSyncSim WITH
    N <- SyncNodes, Start <- SyncStart, Period <- SyncPeriod, tick <- syncTick

ASSUME SimulatorsAssumption ==
    /\ Fork!ForkChoiceAssumption /\ Dag!DagAssumption /\ Tendermint!TendermintAssumption
    /\ Pos!PosAssumption /\ Dpos!DposAssumption /\ Sync!ChainSyncAssumption

forkVars == <<rule, forkTick, tree, ballots, canonicalChain>>
dagVars == <<limits, selection, dagTick, dag, confirmed, confirmedCount>>
tendermintVars == <<tmHeight, round, step, stepTicks, proposal, prevote, precommit, locked,
                    valid, hashes, fresh, nilVotes, unvoted>>
posVars == <<validators, slot, epoch, posChain, finalized, slashes>>
dposVars == <<votedFor, delegateVotes, seats, roundIndex, dposTick, turns, meddled, skipped>>
syncVars == <<peers, heights, synced, canonical, syncTick, first>>
simulatorVars == <<forkVars, dagVars, tendermintVars, posVars, dposVars, syncVars>>

SimulatorsInit ==
    /\ Fork!Init
    /\ scene = "fork" \/ rule = "ghost"
    /\ Dag!Init
    /\ scene = "dag" \/ (limits = (CHOOSE l \in Limits : TRUE) /\ selection = "mcmc")
    /\ Tendermint!Init
    /\ Pos!Init
    /\ scene = "pos" \/ validators = CHOOSE n \in ValidatorCounts : TRUE
    /\ Dpos!Init
    /\ \/ scene = "dpos"
       \/ /\ \A v \in Dpos!Voters : votedFor[v] = CHOOSE vote \in FirstVotes : TRUE
          /\ seats = CHOOSE s \in Dpos!Elected(delegateVotes) : TRUE
    /\ Sync!Init
    /\ scene = "sync" \/ \A n \in Sync!Nodes : heights[n] = 0 /\ peers[n] = {}

-----------------------------------------------------------------------------
InFork ==
    /\ scene = "fork"
    /\ UNCHANGED <<scene, dagVars, tendermintVars, posVars, dposVars, syncVars>>
InDag ==
    /\ scene = "dag"
    /\ UNCHANGED <<scene, forkVars, tendermintVars, posVars, dposVars, syncVars>>
InTendermint ==
    /\ scene = "tendermint"
    /\ UNCHANGED <<scene, forkVars, dagVars, posVars, dposVars, syncVars>>
InPos ==
    /\ scene = "pos"
    /\ UNCHANGED <<scene, forkVars, dagVars, tendermintVars, dposVars, syncVars>>
InDpos ==
    /\ scene = "dpos"
    /\ UNCHANGED <<scene, forkVars, dagVars, tendermintVars, posVars, syncVars>>
InSync ==
    /\ scene = "sync"
    /\ UNCHANGED <<scene, forkVars, dagVars, tendermintVars, posVars, dposVars>>

-----------------------------------------------------------------------------
(* Type correctness of the simulator that is on.                           *)
SimulatorTyped ==
    /\ scene = "fork" => Fork!TypeOK
    /\ scene = "dag" => Dag!TypeOK
    /\ scene = "tendermint" => Tendermint!TypeOK
    /\ scene = "pos" => Pos!TypeOK
    /\ scene = "dpos" => Dpos!TypeOK
    /\ scene = "sync" => Sync!TypeOK

(* What the votes decide in the stake-based simulators: no lock stands     *)
(* against a proposal (tendermint.go), final blocks keep their two thirds  *)
(* (pos.go), votes and turns of the delegates add up (dpos.go).            *)
VotesDecide ==
    /\ scene = "tendermint" => Tendermint!LocksAgreeWithProposals
    /\ scene = "pos" => Pos!FinalityIsBacked
    /\ scene = "dpos" => Dpos!VotesAndTurnsAddUp

(* What the blocks form: a tree whose head follows the rule                *)
(* (fork_choice.go), a graph that stays a chain (dag.go), copies of a      *)
(* chain that nobody leads (chain_sync.go).                                *)
StructuresFollowRules ==
    /\ scene = "fork" => Fork!HeadFollowsRule
    /\ scene = "dag" => Dag!OneTip
    /\ scene = "sync" => Sync!NobodyLeads
=============================================================================
