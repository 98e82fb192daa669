----------------------------- MODULE MCClassroom -----------------------------
(***************************************************************************)
(* What students work with, each part checked on its own in one run: the   *)
(* sessions in which they share an environment, the simulation engine, and *)
(* the simulators it runs: three that exchange messages, and those of      *)
(* MCSimulators.  `scene` says which of them moves in a behaviour; they    *)
(* share nothing.  The definitions of sessions, engine, Raft and HotStuff  *)
(* are used under their own names, the others under that of their part.    *)
(***************************************************************************)
EXTENDS Sessions, SimEngine, RaftSim, HotStuffSim, MCSimulators, TLC

CONSTANTS
    BftNodes, Payloads, Fake, MaxSubmits, MaxViews, MaxByzantine

VARIABLES
    pbftNode, pbftQueue, view, seq, pending, committed, asked, committers, byzantine,
    overlapped

Pbft == INSTANCE PbftSim WITH
    N <- BftNodes, MaxRequests <- MaxSubmits, MaxFaults <- MaxByzantine,
    node <- pbftNode, queue <- pbftQueue, faults <- byzantine

ASSUME ClassroomAssumption ==
    /\ SessionAssumption /\ RaftAssumption /\ Pbft!PbftAssumption
    /\ HotStuffAssumption /\ EngineAssumption

MCLimits == {<<1, 2>>, <<2, 4>>}
MCBalances == <<5, 4>>
MCFirstVotes == {<<d>> : d \in Delegates} \cup {<<d, e>> : d, e \in Delegates}

MCSymmetry == Permutations(Users) \cup Permutations(Actors)

pbftVars == <<pbftNode, pbftQueue, view, seq, pending, committed, asked, committers,
              byzantine, overlapped>>
otherVars == <<sessionVars, raftVars, pbftVars, hotStuffVars, vars>>
MCVars == <<scene, otherVars, simulatorVars>>

MCInit ==
    /\ scene \in {"session", "raft", "pbft", "hotstuff", "engine",
                  "fork", "dag", "tendermint", "pos", "dpos", "sync"}
    /\ SessionInit /\ RaftInit /\ Pbft!Init /\ HotStuffInit /\ Init /\ SimulatorsInit

-----------------------------------------------------------------------------
InSession ==
    /\ scene = "session"
    /\ UNCHANGED <<scene, simulatorVars, raftVars, pbftVars, hotStuffVars, vars>>
InRaft ==
    /\ scene = "raft"
    /\ UNCHANGED <<scene, simulatorVars, sessionVars, pbftVars, hotStuffVars, vars>>
InPbft ==
    /\ scene = "pbft"
    /\ UNCHANGED <<scene, simulatorVars, sessionVars, raftVars, hotStuffVars, vars>>
InHotStuff ==
    /\ scene = "hotstuff"
    /\ UNCHANGED <<scene, simulatorVars, sessionVars, raftVars, pbftVars, vars>>
InEngine ==
    /\ scene = "engine"
    /\ UNCHANGED <<scene, simulatorVars, sessionVars, raftVars, pbftVars, hotStuffVars>>

RestIdle == UNCHANGED otherVars

MCNext ==
    \/ \E a \in Actors : InSession /\ Attach(a)
    \/ \E a \in Actors : InSession /\ Found(a)
    \/ \E a \in Actors : InSession /\ Bind(a)
    \/ \E a \in Actors : InSession /\ Provision(a)
    \/ \E a \in Actors : InSession /\ Ready(a)
    \/ \E a \in Actors : InSession /\ Detach(a)
    \/ \E a \in Actors : InSession /\ Depart(a)
    \/ \E a \in Actors : InSession /\ Delete(a)
    \/ \E a \in Actors : InSession /\ Close(a)
    \/ \E a \in Actors : InSession /\ PauseDeletes(a)
    \/ \E a \in Actors : InSession /\ Park(a)
    \/ \E a \in Actors : InSession /\ Revive(a)
    \/ \E a \in Actors : InSession /\ Recount(a)
    \/ \E a \in Actors : InSession /\ WriteSession(a)
    \/ \E a \in Actors, u \in Users : InSession /\ Create(a, u)
    \/ \E a \in Actors, i \in DOMAIN envs : InSession /\ StopEnv(a, i)
    \/ \E a \in Actors, i \in DOMAIN envs : InSession /\ Expire(a, i)
    \/ \E a \in Actors, i \in DOMAIN envs : InSession /\ PauseEnv(a, i)
    \/ \E a \in Actors, i \in DOMAIN envs : InSession /\ ResumeEnv(a, i)
    \/ \E a \in Actors, s \in DOMAIN sessions, u \in Users, join \in {"joined", "left"} :
           InSession /\ ChangeJoin(a, s, u, join)
    \/ \E i \in DOMAIN envs : InSession /\ Poll(i)
    \/ \E n \in Nodes : InRaft /\ ElectionTimeout(n)
    \/ \E n \in Nodes : InRaft /\ TriggerElection(n)
    \/ \E n \in Nodes : InRaft /\ HeartbeatTimeout(n)
    \/ \E n \in Nodes : InRaft /\ RestoreNode(n)
    \/ InRaft /\ LoseMessage
    \/ InRaft /\ HandleRequestVote
    \/ InRaft /\ HandleRequestVoteReply
    \/ InRaft /\ HandleAppendEntries
    \/ InRaft /\ HandleAppendEntriesReply
    \/ InRaft /\ SubmitCommand
    \/ InRaft /\ FailLeader
    \/ \E d \in Payloads : InPbft /\ Pbft!SubmitRequest(d)
    \/ InPbft /\ Pbft!HandlePrePrepare
    \/ InPbft /\ Pbft!HandlePrepare
    \/ InPbft /\ Pbft!HandleCommit
    \/ InPbft /\ Pbft!TriggerViewChange
    \/ \E n \in Pbft!Nodes, behavior \in {"ignore", "equivocate"} :
           InPbft /\ Pbft!InjectFault(n, behavior)
    \/ InHotStuff /\ Propose
    \/ InHotStuff /\ HandlePropose
    \/ InHotStuff /\ HandleVote
    \/ InHotStuff /\ RotateLeader
    \/ InEngine /\ InitModule
    \/ InEngine /\ Start
    \/ InEngine /\ Stop
    \/ InEngine /\ Pause
    \/ InEngine /\ Resume
    \/ InEngine /\ Reset
    \/ InEngine /\ Switch
    \/ \E l \in DOMAIN loops : InEngine /\ AwaitTick(l)
    \/ \E l \in DOMAIN loops : InEngine /\ Tick(l)
    \/ \E l \in DOMAIN loops : InEngine /\ TickDone(l)
    \/ \E l \in DOMAIN loops : InEngine /\ LoopEnds(l)
    \/ InFork /\ RestIdle /\ Fork!Tick
    \/ \E p \in DOMAIN tree.parent : InFork /\ RestIdle /\ Fork!CreateFork(p)
    \/ InFork /\ RestIdle /\ Fork!Recompute
    \/ InDag /\ RestIdle /\ Dag!Tick
    \/ InDag /\ RestIdle /\ Dag!CreateVertex
    \/ InDag /\ RestIdle /\ Dag!UpdateConfirmations
    \/ InTendermint /\ RestIdle /\ Tendermint!TickPropose
    \/ InTendermint /\ RestIdle /\ Tendermint!TickPrevote
    \/ InTendermint /\ RestIdle /\ Tendermint!TickPrecommit
    \/ InTendermint /\ RestIdle /\ Tendermint!SubmitProposal
    \/ InTendermint /\ RestIdle /\ Tendermint!NextRound
    \/ InPos /\ RestIdle /\ Pos!Tick
    \/ InPos /\ RestIdle /\ Pos!AdvanceEpoch
    \/ InPos /\ RestIdle /\ Pos!SlashValidator
    \/ InDpos /\ RestIdle /\ Dpos!Tick
    \/ InDpos /\ RestIdle /\ Dpos!ProduceNow
    \/ \E v \in Dpos!Voters, d \in Delegates \cup {Stranger} :
           InDpos /\ RestIdle /\ Dpos!Vote(v, d)
    \/ InDpos /\ RestIdle /\ Dpos!ReElect
    \/ InSync /\ RestIdle /\ Sync!Tick
    \/ InSync /\ RestIdle /\ Sync!SyncRound

MCSpec == MCInit /\ [][MCNext]_MCVars

-----------------------------------------------------------------------------
(* Type correctness of the part that is on.                                *)
PartsTyped ==
    /\ SimulatorTyped
    /\ scene = "session" => SessionTypeOK
    /\ scene = "raft" => RaftTypeOK
    /\ scene = "pbft" => Pbft!TypeOK
    /\ scene = "hotstuff" => HotStuffTypeOK
    /\ scene = "engine" => TypeOK

(* What PBFT commits has a quorum behind it (pbft.go).                     *)
QuorumsBehindCommits == scene = "pbft" => Pbft!QuorumsBehindCommits
=============================================================================
