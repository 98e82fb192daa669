--------------------------- MODULE ClassroomProofs ---------------------------
(***************************************************************************)
(* Proofs about MCClassroom as a whole: a behaviour of it is one of each   *)
(* of its parts, so that what the modules extended here prove of the parts *)
(* holds of it.                                                            *)
(***************************************************************************)
EXTENDS PbftProofs, LabProofs, SimulatorProofs

-----------------------------------------------------------------------------
(***************************************************************************)
(* The parts together.  In a behaviour of MCClassroom the part that is on  *)
(* takes the steps, and the others stay as they are: the behaviour is one  *)
(* of every part.                                                          *)
(***************************************************************************)
LEMMA SceneSteps ==
    ASSUME MCNext
    PROVE  \/ InSession /\ SessionNext
           \/ InRaft /\ RaftNext
           \/ InPbft /\ Pbft!Next
           \/ InHotStuff /\ HotStuffNext
           \/ InEngine /\ Next
           \/ InFork /\ RestIdle /\ Fork!Next
           \/ InDag /\ RestIdle /\ Dag!Next
           \/ InTendermint /\ RestIdle /\ Tendermint!Next
           \/ InPos /\ RestIdle /\ Pos!Next
           \/ InDpos /\ RestIdle /\ Dpos!Next
           \/ InSync /\ RestIdle /\ Sync!Next
<1>1. ASSUME NEW a \in Actors,
             \/ InSession /\ Attach(a)
             \/ InSession /\ Found(a)
             \/ InSession /\ Bind(a)
             \/ InSession /\ Provision(a)
             \/ InSession /\ Ready(a)
             \/ InSession /\ Detach(a)
             \/ InSession /\ Depart(a)
             \/ InSession /\ Delete(a)
             \/ InSession /\ Close(a)
             \/ InSession /\ PauseDeletes(a)
             \/ InSession /\ Park(a)
             \/ InSession /\ Revive(a)
             \/ InSession /\ Recount(a)
             \/ InSession /\ WriteSession(a)
      PROVE  InSession /\ SessionNext
  BY <1>1 DEF SessionNext, ActorStep
<1>2. ASSUME NEW a \in Actors,
             \/ \E u \in Users : InSession /\ Create(a, u)
             \/ \E i \in DOMAIN envs :
                    \/ InSession /\ StopEnv(a, i)
                    \/ InSession /\ Expire(a, i)
                    \/ InSession /\ PauseEnv(a, i)
                    \/ InSession /\ ResumeEnv(a, i)
             \/ \E s \in DOMAIN sessions, u \in Users, join \in {"joined", "left"} :
                    InSession /\ ChangeJoin(a, s, u, join)
      PROVE  InSession /\ SessionNext
  <2>1. SessionRequest(a) /\ InSession
    BY <1>2 DEF SessionRequest
  <2> QED
    BY <2>1 DEF SessionNext
<1>3. ASSUME NEW i \in DOMAIN envs, InSession /\ Poll(i) PROVE InSession /\ SessionNext
  BY <1>3 DEF SessionNext
<1>4. ASSUME \/ \E n \in Nodes : \/ InRaft /\ ElectionTimeout(n)
                                 \/ InRaft /\ TriggerElection(n)
                                 \/ InRaft /\ HeartbeatTimeout(n)
                                 \/ InRaft /\ RestoreNode(n)
             \/ InRaft /\ LoseMessage
             \/ InRaft /\ HandleRequestVote
             \/ InRaft /\ HandleRequestVoteReply
             \/ InRaft /\ HandleAppendEntries
             \/ InRaft /\ HandleAppendEntriesReply
             \/ InRaft /\ SubmitCommand
             \/ InRaft /\ FailLeader
      PROVE  InRaft /\ RaftNext
  BY <1>4 DEF RaftNext
<1>5. ASSUME \/ \E d \in Payloads : InPbft /\ Pbft!SubmitRequest(d)
             \/ InPbft /\ Pbft!HandlePrePrepare
             \/ InPbft /\ Pbft!HandlePrepare
             \/ InPbft /\ Pbft!HandleCommit
             \/ InPbft /\ Pbft!TriggerViewChange
             \/ \E n \in Pbft!Nodes, behavior \in {"ignore", "equivocate"} :
                    InPbft /\ Pbft!InjectFault(n, behavior)
      PROVE  InPbft /\ Pbft!Next
  BY <1>5 DEF Pbft!Next
<1>6. ASSUME \/ InHotStuff /\ Propose
             \/ InHotStuff /\ HandlePropose
             \/ InHotStuff /\ HandleVote
             \/ InHotStuff /\ RotateLeader
      PROVE  InHotStuff /\ HotStuffNext
  BY <1>6 DEF HotStuffNext
<1>7. ASSUME \/ InEngine /\ InitModule
             \/ InEngine /\ Start
             \/ InEngine /\ Stop
             \/ InEngine /\ Pause
             \/ InEngine /\ Resume
             \/ InEngine /\ Reset
             \/ InEngine /\ Switch
             \/ \E l \in DOMAIN loops : \/ InEngine /\ AwaitTick(l)
                                        \/ InEngine /\ Tick(l)
                                        \/ InEngine /\ TickDone(l)
                                        \/ InEngine /\ LoopEnds(l)
      PROVE  InEngine /\ Next
  BY <1>7 DEF Next
<1>8. ASSUME \/ InFork /\ RestIdle /\ Fork!Tick
             \/ \E p \in DOMAIN tree.parent : InFork /\ RestIdle /\ Fork!CreateFork(p)
             \/ InFork /\ RestIdle /\ Fork!Recompute
      PROVE  InFork /\ RestIdle /\ Fork!Next
  BY <1>8 DEF Fork!Next
<1>9. ASSUME \/ InDag /\ RestIdle /\ Dag!Tick
             \/ InDag /\ RestIdle /\ Dag!CreateVertex
             \/ InDag /\ RestIdle /\ Dag!UpdateConfirmations
      PROVE  InDag /\ RestIdle /\ Dag!Next
  BY <1>9 DEF Dag!Next
<1>10. ASSUME \/ InTendermint /\ RestIdle /\ Tendermint!TickPropose
              \/ InTendermint /\ RestIdle /\ Tendermint!TickPrevote
              \/ InTendermint /\ RestIdle /\ Tendermint!TickPrecommit
              \/ InTendermint /\ RestIdle /\ Tendermint!SubmitProposal
              \/ InTendermint /\ RestIdle /\ Tendermint!NextRound
       PROVE  InTendermint /\ RestIdle /\ Tendermint!Next
  BY <1>10 DEF Tendermint!Next
<1>11. ASSUME \/ InPos /\ RestIdle /\ Pos!Tick
              \/ InPos /\ RestIdle /\ Pos!AdvanceEpoch
              \/ InPos /\ RestIdle /\ Pos!SlashValidator
       PROVE  InPos /\ RestIdle /\ Pos!Next
  BY <1>11 DEF Pos!Next
<1>12. ASSUME \/ InDpos /\ RestIdle /\ Dpos!Tick
              \/ InDpos /\ RestIdle /\ Dpos!ProduceNow
              \/ \E v \in Dpos!Voters, d \in Delegates \cup {Stranger} :
                     InDpos /\ RestIdle /\ Dpos!Vote(v, d)
              \/ InDpos /\ RestIdle /\ Dpos!ReElect
       PROVE  InDpos /\ RestIdle /\ Dpos!Next
  BY <1>12 DEF Dpos!Next
<1>13. ASSUME \/ InSync /\ RestIdle /\ Sync!Tick
              \/ InSync /\ RestIdle /\ Sync!SyncRound
       PROVE  InSync /\ RestIdle /\ Sync!Next
  BY <1>13 DEF Sync!Next
<1> QED
  BY <1>1, <1>2, <1>3, <1>4, <1>5, <1>6, <1>7, <1>8, <1>9, <1>10, <1>11, <1>12, <1>13
  DEF MCNext

\* A step of every part.
SceneStep ==
    /\ [SessionNext]_sessionVars /\ [RaftNext]_raftVars /\ [Pbft!Next]_pbftVars
    /\ [HotStuffNext]_hotStuffVars /\ [Next]_vars
    /\ [Fork!Next]_forkVars /\ [Dag!Next]_dagVars /\ [Tendermint!Next]_tendermintVars
    /\ [Pos!Next]_posVars /\ [Dpos!Next]_dposVars /\ [Sync!Next]_syncVars

LEMMA SceneMoves ==
    ASSUME [MCNext]_MCVars
    PROVE  SceneStep
<1>1. CASE UNCHANGED MCVars
  BY <1>1 DEF SceneStep, MCVars, otherVars, simulatorVars
<1>2. CASE MCNext
  <2>1. CASE InSession /\ SessionNext
    BY <2>1 DEF SceneStep, InSession, simulatorVars
  <2>2. CASE InRaft /\ RaftNext
    BY <2>2 DEF SceneStep, InRaft, simulatorVars
  <2>3. CASE InPbft /\ Pbft!Next
    BY <2>3 DEF SceneStep, InPbft, simulatorVars
  <2>4. CASE InHotStuff /\ HotStuffNext
    BY <2>4 DEF SceneStep, InHotStuff, simulatorVars
  <2>5. CASE InEngine /\ Next
    BY <2>5 DEF SceneStep, InEngine, simulatorVars
  <2>6. CASE InFork /\ RestIdle /\ Fork!Next
    BY <2>6 DEF SceneStep, InFork, RestIdle, otherVars
  <2>7. CASE InDag /\ RestIdle /\ Dag!Next
    BY <2>7 DEF SceneStep, InDag, RestIdle, otherVars
  <2>8. CASE InTendermint /\ RestIdle /\ Tendermint!Next
    BY <2>8 DEF SceneStep, InTendermint, RestIdle, otherVars
  <2>9. CASE InPos /\ RestIdle /\ Pos!Next
    BY <2>9 DEF SceneStep, InPos, RestIdle, otherVars
  <2>10. CASE InDpos /\ RestIdle /\ Dpos!Next
    BY <2>10 DEF SceneStep, InDpos, RestIdle, otherVars
  <2>11. CASE InSync /\ RestIdle /\ Sync!Next
    BY <2>11 DEF SceneStep, InSync, RestIdle, otherVars
  <2> QED
    BY <1>2, <2>1, <2>2, <2>3, <2>4, <2>5, <2>6, <2>7, <2>8, <2>9, <2>10, <2>11, SceneSteps
<1> QED
  BY <1>1, <1>2

(* The variables of a part, under its own name for them.                   *)
LEMMA SceneVars ==
    /\ UNCHANGED pbftVars <=> UNCHANGED Pbft!vars
    /\ UNCHANGED forkVars <=> UNCHANGED Fork!vars
    /\ UNCHANGED dagVars <=> UNCHANGED Dag!vars
    /\ UNCHANGED tendermintVars <=> UNCHANGED Tendermint!vars
    /\ UNCHANGED posVars <=> UNCHANGED Pos!vars
    /\ UNCHANGED dposVars <=> UNCHANGED Dpos!vars
    /\ UNCHANGED syncVars <=> UNCHANGED Sync!vars
<1>1. UNCHANGED pbftVars <=> UNCHANGED Pbft!vars
  BY DEF pbftVars, Pbft!vars, Pbft!observers
<1>2. UNCHANGED forkVars <=> UNCHANGED Fork!vars
  BY DEF forkVars, Fork!vars
<1>3. UNCHANGED dagVars <=> UNCHANGED Dag!vars
  BY DEF dagVars, Dag!vars
<1>4. UNCHANGED tendermintVars <=> UNCHANGED Tendermint!vars
  BY DEF tendermintVars, Tendermint!vars, Tendermint!observers, Tendermint!votes
<1>5. UNCHANGED posVars <=> UNCHANGED Pos!vars
  BY DEF posVars, Pos!vars
<1>6. UNCHANGED dposVars <=> UNCHANGED Dpos!vars
  BY DEF dposVars, Dpos!vars, Dpos!observers
<1>7. UNCHANGED syncVars <=> UNCHANGED Sync!vars
  BY DEF syncVars, Sync!vars
<1> QED
  BY <1>1, <1>2, <1>3, <1>4, <1>5, <1>6, <1>7

(* The parts share nothing: what is proved of each holds of MCClassroom.   *)
THEOREM PartsBehave ==
    MCSpec => /\ SessionSpec /\ RaftSpec /\ Pbft!Spec /\ HotStuffSpec /\ Spec
              /\ Fork!Spec /\ Dag!Spec /\ Tendermint!Spec /\ Pos!Spec /\ Dpos!Spec
              /\ Sync!Spec
<1>1. MCInit => /\ SessionInit /\ RaftInit /\ Pbft!Init /\ HotStuffInit /\ Init
                /\ Fork!Init /\ Dag!Init /\ Tendermint!Init /\ Pos!Init /\ Dpos!Init
                /\ Sync!Init
  BY DEF MCInit, SimulatorsInit
<1>2. [MCNext]_MCVars =>
          /\ [SessionNext]_sessionVars /\ [RaftNext]_raftVars /\ [Pbft!Next]_(Pbft!vars)
          /\ [HotStuffNext]_hotStuffVars /\ [Next]_vars
          /\ [Fork!Next]_(Fork!vars) /\ [Dag!Next]_(Dag!vars)
          /\ [Tendermint!Next]_(Tendermint!vars) /\ [Pos!Next]_(Pos!vars)
          /\ [Dpos!Next]_(Dpos!vars) /\ [Sync!Next]_(Sync!vars)
  BY SceneMoves, SceneVars DEF SceneStep
<1> QED
  BY <1>1, <1>2, PTL
  DEF MCSpec, SessionSpec, RaftSpec, Pbft!Spec, HotStuffSpec, Spec, Fork!Spec, Dag!Spec,
      Tendermint!Spec, Pos!Spec, Dpos!Spec, Sync!Spec

(* Every quorum behind what PBFT commits: with fewer than a third of the   *)
(* nodes faulty, and as long as no request is submitted while another is   *)
(* under way, a block that is committed was committed by 2f + 1 nodes.     *)
THEOREM CommitsBacked ==
    ASSUME BftNodes >= 4, MaxByzantine <= (BftNodes - 1) \div 3
    PROVE  MCSpec => []QuorumsBehindCommits
<1>1. BftEnough
  BY ClassroomAssumption DEF BftEnough, BftFew
<1>2. Pbft!Init => BftInv
  BY <1>1, BftStarts
<1>3. BftInv /\ [Pbft!Next]_(Pbft!vars) => BftInv'
  BY <1>1, BftSteps, SceneVars
<1>4. BftInv => QuorumsBehindCommits
  BY <1>1, BftHolds DEF QuorumsBehindCommits
<1> QED
  BY <1>2, <1>3, <1>4, PartsBehave, PTL DEF Pbft!Spec

(* Type correctness of PBFT: with any number of nodes, faulty or not.      *)
LEMMA BftTypeCorrect == Pbft!Spec => []Pbft!TypeOK
<1>1. Pbft!Init => BftTypeInv
  BY ClassroomAssumption, BftTypeInit
<1>2. BftTypeInv /\ [Pbft!Next]_(Pbft!vars) => BftTypeInv'
  BY ClassroomAssumption, BftTypeNext, SceneVars
<1>3. BftTypeInv => Pbft!TypeOK
  BY DEF BftTypeInv
<1> QED
  BY <1>1, <1>2, <1>3, PTL DEF Pbft!Spec

(* Type correctness of whatever part of the classroom is on.               *)
THEOREM PartsTypeCorrect == MCSpec => []PartsTyped
<1>1. SessionSpec => []SessionTypeOK
  BY ClassroomAssumption, SessionTypeCorrect
<1>2. (RaftSpec => []RaftTypeOK) /\ (HotStuffSpec => []HotStuffTypeOK) /\ (Spec => []TypeOK)
  BY ClassroomAssumption, RaftTypeCorrect, HotStuffTypeCorrect, TypeCorrect
<1>3. /\ Fork!Spec => []Fork!TypeOK
      /\ Dag!Spec => []Dag!TypeOK
      /\ Tendermint!Spec => []Tendermint!TypeOK
      /\ Pos!Spec => []Pos!TypeOK
      /\ Dpos!Spec => []Dpos!TypeOK
      /\ Sync!Spec => []Sync!TypeOK
  <2>1. /\ Fork!Spec => [](Fork!TypeOK /\ Fork!HeadFollowsRule)
        /\ Dag!Spec => [](Dag!TypeOK /\ Dag!OneTip)
        /\ Tendermint!Spec => [](Tendermint!TypeOK /\ Tendermint!LocksAgreeWithProposals)
        /\ Pos!Spec => [](Pos!TypeOK /\ Pos!FinalityIsBacked)
        /\ Dpos!Spec => [](Dpos!TypeOK /\ Dpos!VotesAndTurnsAddUp)
        /\ Sync!Spec => [](Sync!TypeOK /\ Sync!NobodyLeads)
    BY SimulatorsAssumption, HeadFollows, DagStaysChain, TendermintTypeCorrect,
       PosFinalityBacked, DposAddsUp, SyncNobodyLeads
  <2> QED
    BY <2>1, PTL
<1>4. /\ SessionTypeOK /\ RaftTypeOK /\ Pbft!TypeOK /\ HotStuffTypeOK /\ TypeOK
      /\ Fork!TypeOK /\ Dag!TypeOK /\ Tendermint!TypeOK /\ Pos!TypeOK /\ Dpos!TypeOK
      /\ Sync!TypeOK
      => PartsTyped
  BY DEF PartsTyped, SimulatorTyped
<1> QED
  BY <1>1, <1>2, <1>3, <1>4, BftTypeCorrect, PartsBehave, PTL

(* What is proved of the parts holds in the classroom: members keep the    *)
(* runtime of their session and sessions their size; the engine's loops    *)
(* are accounted for; one leader per Raft term; real HotStuff quorums; the *)
(* votes of the stake-based simulators and the blocks of the others.       *)
THEOREM ClassroomKept ==
    MCSpec => /\ []MembersKeepRuntime /\ []SeatsRespected /\ []LoopsAccounted
              /\ []OneLeaderPerTerm /\ []QuorumsAreReal
              /\ []VotesDecide /\ []StructuresFollowRules
<1>1. SessionSpec => []MembersKeepRuntime /\ []SeatsRespected
  <2>1. SessionSpec => []MembersKeepRuntime
    BY ClassroomAssumption, RuntimeKept
  <2>2. SessionSpec => []SeatsRespected
    BY ClassroomAssumption, SeatsKept
  <2> QED
    BY <2>1, <2>2
<1>2. /\ Spec => []LoopsAccounted
      /\ RaftSpec => []OneLeaderPerTerm
      /\ HotStuffSpec => []QuorumsAreReal
  BY ClassroomAssumption, Accounted, OneLeader, QuorumsReal
<1>3. /\ Tendermint!Spec /\ Pos!Spec /\ Dpos!Spec => []VotesDecide
      /\ Fork!Spec /\ Dag!Spec /\ Sync!Spec => []StructuresFollowRules
  BY StakeVotesDecide, BlocksFollowRules
<1> QED
  BY <1>1, <1>2, <1>3, PartsBehave, PTL
=============================================================================
