----------------------------- MODULE MCRuntimes -----------------------------
(***************************************************************************)
(* Three components that share nothing, each checked in one run: the       *)
(* RabbitMQ path, the rounds of an agent battle and the environments of a  *)
(* jeopardy challenge.  One of them is live in a behaviour, chosen by the  *)
(* initial state; the code's own early returns keep the others still: no   *)
(* connection to RabbitMQ, a contest of another type, a contest that is    *)
(* not running.                                                            *)
(***************************************************************************)
EXTENDS ChallengeEnv, MQConsumer, BattleRounds

MCQueueOf == [m \in Msgs |-> CHOOSE q \in Queues : TRUE]

ASSUME RuntimesAssumption ==
    MQAssumption /\ BattleAssumption /\ ChallengeAssumption

MCVars == <<mqVars, battleVars, vars>>

MCInit ==
    /\ MQInit /\ BattleInit /\ Init
    /\ \/ channel = "open" /\ drops = 0 /\ ~isBattle /\ ~ongoing
       \/ channel = "nil" /\ drops = MaxDrops /\ isBattle # ongoing

-----------------------------------------------------------------------------
NotMQ == UNCHANGED <<battleVars, vars>>
NotBattle == UNCHANGED <<mqVars, vars>>
NotJeopardy == UNCHANGED <<mqVars, battleVars>>

MCNext ==
    \/ \E id \in Msgs : Submit(id) /\ NotMQ
    \/ \E q \in Queues : Deliver(q) /\ NotMQ
    \/ \E q \in Queues : Start(q) /\ NotMQ
    \/ \E q \in Queues : Receive(q) /\ NotMQ
    \/ \E q \in Queues : HandlerSucceeds(q) /\ NotMQ
    \/ \E q \in Queues : HandlerFails(q) /\ NotMQ
    \/ \E q \in Queues : Republish(q) /\ NotMQ
    \/ \E q \in Queues : Answer(q) /\ NotMQ
    \/ \E q \in Queues : SeeClosed(q) /\ NotMQ
    \/ \E q \in Queues : Resubscribe(q) /\ NotMQ
    \/ NoticeClosed /\ NotMQ
    \/ Reconnect /\ NotMQ
    \/ DialFails("dial") /\ NotMQ
    \/ DialFails("channel") /\ NotMQ
    \/ BrokerReads /\ NotMQ
    \/ Drop /\ NotMQ
    \/ Restart /\ NotMQ
    \/ RoundDue /\ NotBattle
    \/ CreateRound /\ NotBattle
    \/ \E i \in DOMAIN rounds : RoundEnds(i) /\ NotBattle
    \/ \E p \in Readers : Load(p) /\ NotBattle
    \/ \E p \in Readers : CreateNext(p) /\ NotBattle
    \/ \E p \in Readers : StopChain(p) /\ NotBattle
    \/ \E p \in Readers : SaveFinished(p) /\ NotBattle
    \/ \E p \in Readers : CreateChain(p) /\ NotBattle
    \/ \E p \in Readers : ChainReady(p) /\ NotBattle
    \/ \E p \in Readers : ChainFails(p) /\ NotBattle
    \/ \E p \in Readers : SaveStarted(p) /\ NotBattle
    \/ \E p \in Readers : SaveAborted(p) /\ NotBattle
    \/ \E p \in Readers : Abandon(p) /\ NotBattle
    \/ ContestEnds /\ NotJeopardy
    \/ \E r \in Requests : StartReads(r) /\ NotJeopardy
    \/ \E r \in Requests : StartCleansUp(r) /\ NotJeopardy
    \/ \E r \in Requests : StartTerminates(r) /\ NotJeopardy
    \/ \E r \in Requests : StartCreates(r) /\ NotJeopardy
    \/ \E r \in Requests : StatusReads(r) /\ NotJeopardy
    \/ \E r \in Requests : StatusExpires(r) /\ NotJeopardy
    \/ \E r \in Requests : StopReads(r) /\ NotJeopardy
    \/ \E r \in Requests : StopCleansUp(r) /\ NotJeopardy
    \/ \E r \in Requests : StopTerminates(r) /\ NotJeopardy
    \/ \E i \in DOMAIN rows : CreatePods(i) /\ NotJeopardy
    \/ \E i \in DOMAIN rows : PodsReady(i) /\ NotJeopardy
    \/ \E i \in DOMAIN rows : PodsFail(i) /\ NotJeopardy
    \/ \E i \in DOMAIN rows : Check(i) /\ NotJeopardy
    \/ \E i \in DOMAIN rows : CleanUpStopped(i) /\ NotJeopardy
    \/ \E i \in DOMAIN rows : UpdateRunning(i) /\ NotJeopardy
    \/ \E i \in DOMAIN rows : MarkFailed(i) /\ NotJeopardy
    \/ \E i \in DOMAIN rows : CutOff(i) /\ NotJeopardy
    \/ \E i \in DOMAIN rows : Lapse(i) /\ NotJeopardy

MCSpec ==
    /\ MCInit /\ [][MCNext]_MCVars
    /\ MQFairness /\ BattleFairness /\ Fairness

-----------------------------------------------------------------------------
(* Type correctness of the three.                                          *)
PartsTyped == MQTypeOK /\ BattleTypeOK /\ TypeOK
=============================================================================
