# ChainSpace in TLA+

ChainSpace is a teaching platform for blockchain technology: a Go backend
(`src/backend`, Gin, GORM, PostgreSQL, Redis, RabbitMQ, Kubernetes), a Go
simulation service (`src/simulations`), a React front end and deployment files.
This directory holds models of the parts of it whose correctness depends on the
order in which things happen, the TLC configurations that check them, and
proofs for TLAPS.

Contents

1. Inventory: the components, their state, their operations, what is hard
2. The modules and how they correspond to the code
3. The runs: what each checks, its bounds, what it shows
4. Fairness
5. The proofs
6. What is not modelled, and why
7. Plan

`backend/` below stands for `src/backend/internal/`.

## 1. Inventory

One server process runs the HTTP handlers (one goroutine per request), five
task workers and their checker, a scheduler with five periodic jobs, message
consumers, a WebSocket hub, and short-lived goroutines that wait for pods. They
share PostgreSQL (mostly one statement at a time, few transactions), Redis (a
cache), RabbitMQ (optional) and a Kubernetes namespace. The simulation service
is a second process that the pods of the experiments run.

| component | state | operations | talks to | hard to get right |
|---|---|---|---|---|
| **Database task queue** `backend/pkg/task/task.go` | table `async_tasks`; the row each worker holds in memory | `Submit`, claim, run handler, complete, retry with backoff, give up, `retryChecker`, `CleanupOldTasks` | submitted by services, cleaned up by the scheduler | workers that race for rows, crashed and slow workers, outcome writes by primary key from a stale copy, ignored write errors |
| **Experiment environments** `backend/service/env_manager_service.go` | table `experiment_envs`, the pods, one goroutine per starting environment | `CreateEnv`, `StopEnv`, `PauseEnv`, `ResumeEnv`, `ExtendEnv`, `CreateSnapshot`, `GetEnvStatus`, `CleanupExpiredEnvs`, `SyncAllEnvStatus` | Kubernetes, scheduler, WebSocket hub, sessions | minutes between reading a row and writing it back whole, partial failure of provisioning, expiry, restarts, quotas checked by a read |
| **Collaboration sessions** same file, `experiment_session_service.go` | `experiment_sessions`, members, a shared environment | attach, detach, promote a primary, count members | environments, hub | shared pods deleted under a member, overbooking, counters computed from stale rows |
| **Jeopardy scoring** `backend/service/contest_score_service.go`, `backend/repository/contest_repository.go` | submissions, score rows, ranks, current points, cached scoreboard | `SubmitFlag`, `GetScoreboard` | Redis | seven statements without a transaction, all errors dropped, check far from the act |
| **Challenge environments** `backend/service/contest_env_service.go` | `challenge_envs`, pods, a provisioning goroutine each | start, provision, stop, status | Kubernetes | stop racing the provisioner, a provisioner that is cut off, expiry that nobody cleans up |
| **Agent battle** `backend/service/agent_battle_service.go` and helpers | rounds, deployments, shared chain, scores | `SyncContestRoundLifecycle` on every read, create, deploy, upgrade, final scores | chain pods | concurrent synchronisation, stale full-row writes, rounds that can never start |
| **Teams, registration** `contest_team_service.go` | teams, members | create, join, invite, register, leave, remove | scoring (`GetUserTeam`) | membership and size checked by a read, leaders inserted by a second statement, rows marked as deleted |
| **WebSocket hub** `backend/pkg/websocket/hub.go` | client, user and room maps; a bounded buffer per client | register, unregister, join, leave, broadcast, send | every service that notifies | a goroutine that waits for itself, closed channels, a newer connection's entry removed |
| **RabbitMQ** `backend/pkg/mq` | queues, dead-letter queues | publish, consume, retry, reconnect | task handlers | duplicates, losses around acknowledge and publish, consumers that never come back |
| **Task handlers** `task_handlers.go` | none of their own | environment, vulnerability and notification jobs; duplicate suppression before `Submit` | queue, MQ | repeated execution, check before submit |
| **Scheduler** `scheduler_service.go` | `Running`, `LastRun` per job | tick, run, run now | environments, tasks, notifications | unlocked reads, jobs longer than their interval |
| **Kubernetes client** `backend/pkg/k8s/client.go` | none | create, delete, status, wait | API server | asynchronous deletion, names that are still taken |
| **Simulation engine** `simulations/pkg/engine`, `modules/base` | simulators, event log, snapshots, state store, run loop | init, start, stop, pause, resume, reset, switch, step, parameters | API, transport | two run loops after a restart, a loop nobody owns any more |
| **Consensus simulators** `modules/consensus` | nodes, messages | Raft, PBFT, HotStuff, Tendermint, PoW, PoS ... | engine | protocols simplified by hand: votes that outlive their view, replies counted for more than they answer |
| **Cross-chain simulators** `modules/crosschain` | hash time locks, bridges, channels, rollups | create, claim, refund, relay ... | engine | time-lock order, replay, finality |
| **Other simulators** (DeFi, EVM, network, cryptography, attacks, chain basics) | per demonstration | actions of a lesson | engine | arithmetic |
| **Submissions and grading** `experiment_submission_service.go`, `experiment_grading_service.go` | submissions, check results, a grading goroutine per submission | submit, grade automatically, grade by hand | environments (checkpoints run in pods) | three writers of whole rows, check results replaced under their old ids, a grader nobody restarts |
| **Courses, experiments** | records | request by request | | little |
| **Users, schools, login** | records, tokens | log in, refresh, manage | Redis | little |
| **Vulnerability pipeline** | records | fetch, enrich, convert | network | text processing |
| **Runtime composition** | none | build pod specifications and proxy targets | | pure functions |
| **Notifications, discussions, uploads, images, monitoring** | records, objects | | | little |
| **Handlers, router, middleware, process assembly, desktop launcher, front end** | | | | entry points |

What makes each of the first components correct:

- *Task queue*: a task is worked on by one worker at a time; it fails only when
  it should, and is completed only when done; an execution is repeated only
  after a loss; every submitted task settles in spite of crashes.
- *Environments*: the row and the pods agree between operations; a terminated
  environment holds no pods; the quotas hold; an environment is extended as
  often as allowed and each extension counts; `creating` does not last; an
  expired environment is ended.
- *Sessions*: members within the limit, a primary that exists, pods that live
  as long as a member needs them.
- *Scoring*: the score of a team is the sum of its solutions, each paid once;
  one first blood; a price that only falls; ranks and cached boards that
  converge to the scores.
- *Teams*: a user is in one team of a contest and is found in it; teams keep to
  their size and have their leader; a contest of single players keeps to its
  places.
- *Grading*: attempts are numbered, what a teacher was told to be stored is the
  score, grading ends, and teachers can grade.
- *Challenge environments*: pods belong to a running environment or to its
  provisioner; one environment per user and challenge; `creating` does not last.
- *Battle rounds*: one running round on a chain that is up, rounds in order,
  numbers given once, every due round starts and every running one ends.
- *Hub*: no goroutine waits for ever, every message reaches the clients whose
  buffer has room, the user map names the user's live connection.
- *RabbitMQ*: at least one attempt per published message, at most three, then
  the dead-letter queue.
- *Engine*: one run loop per running simulator, none for a replaced one, and a
  status that agrees with it.
- *Consensus simulators*: what the lesson says of the protocol: one Raft leader
  per term, commits and certificates with a quorum of different nodes; locks that
  agree with proposals, final blocks with two thirds, votes and turns that add
  up; a head that follows the rule whatever the user forks.

The list of hazards with their lines is in `PROJECT.json`.

## 2. Modules

### TaskQueue, JobBoard, MCTaskQueue, BackendProofs

`TaskQueue` models `backend/pkg/task/task.go`.

| TLA+ | code |
|---|---|
| `row[t]`: status, retry, due, overdue | a row of `async_tasks`; `due` is `next_retry_at IS NULL OR <= now`, `overdue` is `started_at < now - 30 min` |
| `worker[w]`: task, retry, at | the local variable `task` of a worker goroutine and where it is |
| `Submit` | `Manager.Submit` |
| `Claim` | the transaction of `claimAndExecutePendingTask`, and the missing-handler branch of `executeTask` |
| `HandlerReturns` | the handler call, with its result nil, an error, or `NonRetryableError` |
| `Complete`, `GiveUp`, `Reschedule` | `markTaskCompleted`, `markTaskFailed` as called by `handleTaskError`, the retry branch |
| `WriteLost` | the same three writes when the database refuses them: the error is dropped |
| `Reclaim` | a tick of `retryChecker` |
| `Cleanup` | `CleanupOldTasks`, called by the scheduler |
| `Crash` | the process ends (also by a panic in a handler) and starts again |
| `BackoffElapses`, `LeaseExpires`, `OutlivesLease` | time passes for a row that waits, for a row whose worker is gone, for a row whose handler still runs |

The status `retrying` is declared by the code and never written; the model
leaves it out. The payload, the error text and the time stamps are abstracted
to the tests made on them. Tasks are numbered by `created_at`. A claim takes
the oldest claimable row that is not locked; a younger one may be taken when
the older ones are locked by the open claims of other idle workers, which is
what `SKIP LOCKED` allows.

`failures`, `refused`, `effects`, `orphaned` and `contested` are observers for
the properties: no action reads them.

`JobBoard` is what a caller may expect: one executor per job, a job comes back
only after a counted failure or a lost executor, at most `MaxTries` failed
attempts, and done or dropped is final. A job whose lease ran out under a live
worker is "contested" and nothing is promised of it: the queue can then run it
twice, at once, and can even put a completed row back to pending. This is the
price of the 30-minute rule and the reason why handlers should be idempotent.

### EnvLifecycle, MCEnvLifecycle, MCExperiments, ExperimentProofs

`EnvLifecycle` models environments in individual mode: `env_manager_service.go`
with the statements of `experiment_repository.go` it uses and the pods as seen
through `runtime_provision_service.go` and `pkg/k8s/client.go`.

| TLA+ | code |
|---|---|
| `row[e]` | a row of `experiment_envs`: status, owner, experiment, which lease period `expires_at` ends, `extend_count` |
| `pods[e][i]` | Kubernetes: none, pending, running, failed, succeeded, terminating |
| `op[o]` | a request, a waiter goroutine or the clean-up job: kind, place, environment, loop index, and the copy of the row it read |
| `listed` | the rows `CleanupExpiredEnvs` read and did not reach yet |
| `elapsed[e]` | how many lease periods are over |
| `Admit`, `Insert`, `StartInstance`, `StartFails`, `Provisioned` | `CreateEnv` and `ResumeEnv` with `createRuntimeInstances` |
| `InstanceReady`, `InstanceNotReady`, `WriteVerdict` | `waitForRuntimeReady`, and the failure branch of `CreateEnv` |
| `Stop`, `DeleteInstance`, `Close` | `StopEnv`, `terminateEnv`, `deleteRuntimeInstances` |
| `Pause`, `Snapshot`, `SnapshotTaken`, `SnapshotRefused` | `PauseEnv`, `CreateSnapshot` |
| `Extend`, `GrantExtension` | `ExtendEnv`, `UpdateExpireTime` |
| `Poll`, `PollAnswered`, `SyncedRow` | `GetEnvStatus`, `syncEnvRuntimeStatus` |
| `CleanupExpired`, `CleanupNext` | `CleanupExpiredEnvs` |
| `SyncAll` | `SyncAllEnvStatus`, with rows loaded without instances, as `ListByStatus` does |
| `Abandon`, `Crash` | a database error, a cancelled or expired context; a restart |

Every operation is split where another one can come between: after the read,
after each pod, before the write. `Update` writes the whole copy, `UpdateStatus`
one column, as the repository does.

Abstractions: the rate limit, the limit of ten and the failures of a snapshot
are one nondeterministic refusal. The two first reads of `PauseEnv` and
`CreateSnapshot` are one. The stored status of an instance is not kept, so a
status request may or may not rewrite an unchanged row. Sessions are not
modelled: `SessionID` is nil in individual mode. All environments belong to one
school. A service that cannot be created makes `StartInstance` delete its pod
again, which is one of the outcomes of `StartRefused`.

The observers `marks`, `granted` and `crowded` say in which way an
environment's history was not one operation after the other; the properties use
them to state exactly under which conditions the code keeps its word.

### FlagScoring, MCContest, ContestProofs

`FlagScoring` models `SubmitFlag` for correct flags and `GetScoreboard`.

| TLA+ | code |
|---|---|
| `request[r]` | a call of `SubmitFlag` in progress, and afterwards its `contest_submissions` row |
| `stored` | which of those rows exist |
| `current`, `score`, `ranked` | `contest_challenges.current_points`, `contest_scores`, and the totals from which the stored ranks were computed |
| `cache`, `reader` | the Redis entry; a scoreboard that was loaded and not stored yet |
| `Check`, `Price`, `CountSolves`, `UpdateCurrentPoints` | `HasSolved` with the read of the challenge, `GetFirstBlood`, `updateDynamicScore` |
| `AddToRow`, `InsertRow` | the two statements of `AddScore` |
| `UpdateRanks`, `StoreSubmission`, `Invalidate` | the rest of `SubmitFlag` |
| `StatementFails`, `Crash` | a write whose error is dropped; a restart |
| `Load`, `StoreInCache`, `CacheExpires` | `GetScoreboard` on a miss; the time to live |

A read that fails counts as "nothing found", as in the code: not solved yet, no
first blood, no solves. Percentages replace the floating-point decay factor.
The attempt and solve counters of a challenge and the column
`first_blood_count`, which the code never writes, are left out. Rank is modelled
by the totals it was computed from, because `UpdateRanks` recomputes all ranks
in one statement.

### ContestTeams

`ContestTeams` models the teams of one contest, of teams or of single players
(`solo`).

| TLA+ | code |
|---|---|
| `teams[i]`, `member[i][u]` | the leader of a row of `teams`; a row of `team_members`: none, there, or marked as deleted |
| `admission[a]` | a request to enter a team: which, how far, for whom, into what |
| `CreateTeam`, `InsertTeam`, `InsertLeader` | `CreateTeam`; the last two are also the end of `RegisterContest` |
| `JoinTeam`, `InviteTeamMember`, `CountSeats`, `InsertMember` | `JoinTeam` and `InviteTeamMember`, which differ in the registration window and in what a failed count means |
| `RegisterContest`, `RegisterChecks` | `RegisterContest` of a contest of single players; for other contests it writes nothing |
| `LeaveTeam` | `LeaveTeam` and `RemoveTeamMember` |
| `Refuse` | a check that refuses, or a failed insert |
| `IsInAnyTeam`, `CountMembers`, `CountParticipants`, `GetUserTeam` | the queries of these names; the last one does not look at the mark |

A failed query counts as zero where the code drops its error. `raced`, `packed`
and `thronged` are the observers: users, teams and the contest with two
admissions at once.

### Grading

`Grading` models the submissions of one student to one experiment.

| TLA+ | code |
|---|---|
| `rows[i]`: attempt, status, score, auto, manual | a row of `submissions` |
| `results[i]` | its check results: none, there, or marked as deleted, with their ids |
| `request[r]` | a submission or a teacher's grading in progress, its copy of the row, and whether that copy holds check results with ids |
| `grader[i]` | the goroutine `autoGradeSubmission` and its copy |
| `SubmitExperiment`, `InsertSubmission`, `MarkGrading` | `SubmitExperiment`: the count of attempts, the insert, the update that starts the grader |
| `GraderReads`, `GraderWrites` | `AutoGradeSubmission`; without checkpoints it gives a fixed score |
| `GradeSubmission`, `GradeWrites`, `GradeRefused` | `GradeSubmission`, and what its `Update` does with and without loaded check results |
| `GraderFails`, `GradingCrash`, `RequestFails` | the five minutes are over or a statement fails; a restart; a request that is given up |

Scores are those of teachers, the one of the checkpoints, or none.

### WsHub, MCWsHub, BackendProofs

`WsHub` models `pkg/websocket/hub.go`, the upgrade handler and room requests of
`websocket_handler.go`, and the services that call `BroadcastToRoom`.

| TLA+ | code |
|---|---|
| `clients`, `userIndex`, `roomIndex` | the maps of `Hub` |
| `rooms[c]` | `Client.rooms` |
| `buffer[c]`, `closed` | the number of messages in `Client.send`; the closed ones |
| `broken` | connections whose socket is closed |
| `reader[c]`, `writer[c]` | the goroutines of a connection: `Connect` and then `ReadPump`; `WritePump` |
| `hub` | which case `Run` is in; `stuck` is its send on `unregister` at line 119, `dead` the end of the process by a panic |
| `broadcast`, `call[b]` | the broadcast channel; a `BroadcastToRoom` that has not sent yet |
| `request[q]` | the connection an HTTP request got from `GetClientByUserID` |
| `TakeRegister` and `Register`, `TakeUnregister` and `Unregister` | the rendezvous on the channel, then the change of the maps under the lock |
| `TakeBroadcast` | the loop over the members of a room |
| `TakeMessages`, `Written`, `WriterEnds` | `WritePump` |

The loop of a broadcast is one action: the only other goroutines that touch a
send channel while it runs empty it or add a pong, and each such step gives the
same result before or after it. A broadcast stops at the first closed or full
member, in any order, after having served some of the others. `hub.mu` is not a
variable: every section that holds it is one action, and none waits inside it.
Messages are counted, not told apart.

### MQConsumer, RuntimesProofs

`MQConsumer` models the RabbitMQ path: `pkg/mq/rabbitmq.go`, `pkg/mq/consumer.go`
and the submission and registration code of `task_handlers.go`.

| TLA+ | code |
|---|---|
| `ready`, `unacked`, `dead` | the broker: queues, deliveries not acknowledged, dead-letter queues |
| `wire` | what the process published and acknowledged and the broker has not read; one connection, in order |
| `channel`, `watcher` | `Client.channel` (open, closed or nil); the goroutine `watchConnection` and its dial counter |
| `starting`, `consumer[q]`, `inbox` | the subscriptions `Consumer.Start` has still to make; the goroutine of a queue; its buffered deliveries |
| `Submit`, `Publish` | `SubmitEnvCreateTask` and its siblings, `Client.Publish` |
| `Start`, `Receive`, `HandlerSucceeds`, `HandlerFails`, `Republish`, `Answer` | `startQueueConsumer` from subscription to acknowledgement or reject |
| `SeeClosed`, `Resubscribe` | the closed delivery channel, five seconds, one new attempt whose error is dropped |
| `NoticeClosed`, `Reconnect`, `DialFails` | `watchConnection` and `connect`, with the state each failing stage leaves behind |
| `Drop`, `Restart`, `BrokerReads`, `Deliver` | the connection is lost; the process ends; the broker works |

When the tenth dial in a row fails while dialling, the client is left with a nil
connection and never dials again (`abandoned`); when it fails while opening the
channel, the loop starts over. `OutOfService` names the queues for which a
consumer is gone for good, which the liveness property excepts: a consumer whose
one attempt came before the client was back, or a start that failed.

### BattleRounds, RuntimesProofs

`BattleRounds` models `SyncContestRoundLifecycle`, which every read of a battle
page runs, with `CreateRound` and the shared chain of a round.

| TLA+ | code |
|---|---|
| `rounds[i]`: number, status, start, over | a row of `agent_battle_rounds`; `start` is a zero time, the time the plan gives its number, or a time that has passed; `over` is `end_time` passed |
| `begun` | how many planned start times have passed |
| `chain` | rounds whose chain has a pod |
| `reader[p]`, `seen[p]` | a request in the synchronisation, the round it ends, the one it starts; the rows it has in memory while it creates planned ones |
| `Load`, `CreateNext`, `Decide` | the reads, the creation of the planned rounds one by one, the choice of what to end and start |
| `StopChain`, `SaveFinished`, `CreateChain`, `ChainReady`, `ChainFails`, `SaveStarted`, `SaveAborted` | the rest, each write of a whole row from the copy in memory |
| `CreateRound` | the administrator's round |
| `RoundDue`, `RoundEnds`, `Abandon` | time; the client that goes away with the request's context |

A start that fails saves the round as pending with a zero start time. Pending
rounds with a zero start time are never due, and nothing gives them a time
again: that round is lost, and the properties say so instead of hiding it. An
administrator's start time is taken to keep the order of the plan.

### ChallengeEnv, RuntimesProofs

`ChallengeEnv` models `contest_env_service.go` for one user and one challenge.

| TLA+ | code |
|---|---|
| `rows[i]`: status, hasPod, lapsed | a row of `challenge_envs`; whether `PodName` is set; whether `ExpiresAt` has passed |
| `pods` | the environments with pods |
| `provisioner[i]` | the goroutine `provisionChallengeEnv` |
| `request[r]` | a start, a status or a stop request and the environment it read |
| `StartReads` ... `StartCreates`, `StatusReads`, `StatusExpires`, `StopReads` ... `StopTerminates` | the three requests, split at every statement |
| `CreatePods`, `PodsReady`, `PodsFail`, `Check`, `CleanUpStopped`, `UpdateRunning`, `MarkFailed` | the goroutine |
| `CutOff` | its ten minutes are over, or the process ends |
| `ongoing` | `ensureContestOngoing` |

The pods of an environment (main, services, fork) come and go together. An
`expired` row is not an active one: its pods are nobody's, which
`ChallengePodsAccounted` lists among the cases.

### Sessions, LabProofs

`Sessions` models collaboration mode: environments of several users on the pods
of the one that founded the session. It is the counterpart of `EnvLifecycle`,
where sessions are nil; quotas, leases and snapshots are left to that module.

| TLA+ | code |
|---|---|
| `envs[i]`: user, session, runtime, status | a row of `experiment_envs`; `runtime` is the environment whose pods its instances name |
| `sessions[s]`: status, primary, count, member | `experiment_sessions` and `experiment_session_members` |
| `actor[a]` | a request, job or waiter, what it has read, and what `UpdateCounters` will write |
| `Create`, `Attach`, `Found`, `Bind`, `Provision`, `Ready` | `CreateEnv` with `attachToSharedSession`, `ensureSessionForEnv`, `bindEnvToSession`, and `waitForRuntimeReady` |
| `StopEnv`, `Detach`, `Depart`, `Delete`, `Close`, `Expire` | `StopEnv` (which first counts the active environments), `handleSessionDetach`, `terminateEnv`, `CleanupExpiredEnvs` |
| `PauseEnv`, `PauseDeletes`, `Park`, `ResumeEnv`, `Revive`, `Poll` | `PauseEnv`, `ResumeEnv`, `GetEnvStatus` |
| `ChangeJoin`, `Recount` | the join and leave requests, which look at no limit |
| `WriteSession` | `UpdateCounters`, a statement after the read |

The observers `crossed`, `crowded` and `upset` name the ways in which members
disturb each other; the properties hold outside of them.

### RaftSim, PbftSim, HotStuffSim, LabProofs, PbftProofs, SimulatorProofs

The three protocols of `modules/consensus` that a lesson presents as safe. One
process plays all nodes; their messages wait in one queue, of which a tick
handles the first; every operation holds one mutex. What is left of concurrency
is the order of ticks, timers and the actions of the user, and all of it is
modelled: `RaftSim` has elections (timed and triggered), votes, heartbeats,
replies, commands, failing and returning leaders; `PbftSim` requests, the three
phases, view changes, ignoring and equivocating nodes; `HotStuffSim` proposals,
votes, the four phases and rotations of the leader. Every handler is one action
with the name of the handler. Nodes of PBFT are numbers, so that the order in
which one message reaches them all, that of `nodeList`, is the order of numbers
(`InOrder`).

`RaftSim` keeps one detail of Go: a message holds a slice of its sender's log,
and a log overwritten at its old length changes what the message says
(`Overwrite`). `MaxCommands <= 2` makes the array of every log as long as its
longest log, which the rule needs.

### TendermintSim, PosSim, DposSim, ForkChoiceSim, DagSim, ChainSyncSim, MCSimulators, SimulatorProofs

Five more protocols of `modules/consensus`, and `modules/blockchain/chain_sync.go`.
These simulators do not exchange messages: a tick is a whole round of a step, and
the user's actions come between ticks. `Tick` (in Tendermint one for each step)
is `onTick` with all it calls; the other actions are those of `ExecuteAction`.
Where the code draws a random number, any outcome is possible.

| module | state | what stands for what |
|---|---|---|
| `TendermintSim` | height, round, step, proposal, votes, `locked`, `valid`, `chain` | one copy of a validator for all: they enter each step together and vote alike |
| `PosSim` | `active`, slot, epoch, `chain` with attestations, `finalized` | validators by the number of active ones; 5 or 16 of them, on both sides of the change of the committee's size |
| `DposSim` | `votedFor`, `votes`, `seats`, `roundIndex` | balances of 5 and 4, which divide with and without remainder |
| `ForkChoiceSim` | `tree` with tips, `ballots`, `chain` | blocks by number, in order of creation, so that tips and children are sets; a weight is a height |
| `DagSim` | `dag` by parents, tips, `confirmed` | any tips that a selection can return |
| `ChainSyncSim` | `peers`, `heights`, `synced`, `canonical` | a copy of the chain by its height |

`MCSimulators` holds their instances for `MCClassroom`, which gives their
constants values; `SimulatorProofs` proves about the same instances with the
constants left open.

### SimEngine, LabProofs

`SimEngine` models `pkg/engine/engine.go` and the run loop of
`modules/base/simulator.go`.

| TLA+ | code |
|---|---|
| `sims[s]`: ctx, running, paused | a `BaseSimulator`; `ctx` numbers its contexts, the last of which `Stop` cancels |
| `active`, `status` | `e.active`, `e.status` |
| `loops[l]`: sim, at, ctx | a goroutine in `runLoop` and the context it waits on |
| `InitModule`, `Start`, `Stop`, `Pause`, `Resume`, `Reset`, `Switch` | the methods of `Engine` of these names |
| `AwaitTick`, `Tick`, `TickDone`, `LoopEnds` | `runLoop`: `s.ctx.Done()` is evaluated, without the lock, each time round |

`astray` collects the requests that came at a bad moment: a start while the loop
of the run before still goes (it picks up the new context, and two loops tick),
an initialisation that replaces a running simulator (its loop goes on), a start
of a paused simulator and a resume of one that was never started (the status
says running), a failed switch (which has stopped the old simulator).

### MCRuntimes, MCClassroom, MCContest, MCExperiments

Four composite modules for TLC. Each holds several components that share no
variable and no code path, so that a product of their state spaces would show
nothing more than the parts; one of them moves in a behaviour. In `MCRuntimes`
the code's own early returns keep the others still (no RabbitMQ connection, a
contest of another type, a contest that is not running); in the others a
variable `scene` does. The assumptions on the constants of the parts, which are
plain definitions there (`BattleAssumption` and so on), are assumed by the
composite, and TLC evaluates them.
`MCRuntimes`, `MCContest` and `MCExperiments` extend their parts, and
`MCClassroom` extends `Sessions`, `SimEngine`, `RaftSim` and `HotStuffSim`; its
other parts are instances with a name. `PartsTyped` is the type invariant of
every part.

## 3. Runs

| run | properties | bounds | states | shows |
|---|---|---|---|---|
| `task_queue` | `ExclusiveUnlessContested` `NoEarlyGiveUp` `EffectsAccounted` `ImplementsJobBoard` `EveryTaskSettles` | 3 workers, 2 tasks (one without handler), 2 attempts, 1 crash or lost write, 2 overrun leases | 520 281 | all hold |
| `env_safety` | `RowMatchesPods` `QuotaKept` `ExtensionsHonest` | 1 user, 2 experiments, 2 environments of 2 pods, 3 requests, 2 at once, 1 fault | 3 378 052 | all hold |
| `experiments` | `PartsTyped` `SubmissionsSound` `CreatingSettles` `ExpiredIsReaped` `GradingSettles` | Environments: 1 of 2 pods, 3 requests, 2 at once, 1 fault. Grading: 2 submissions, 2 requests of the student and 1 of a teacher at once, 2 grades, 1 fault | 322 682 | all hold |
| `contest` | `PartsTyped` `ScoreIsSum` `AwardedOnce` `PriceOneBehind` `BoardFresh` `TeamsKept` | Scoring: 3 requests, 3 teams, 2 challenges, 1 fault. Teams: 3 users, 2 admissions at once, 4 in all, 2 teams of 2, 1 place for single players, 1 fault | 1 460 307 | all hold |
| `ws_hub` | `IndexesAgree` `ChannelsCloseInOrder` `BrokenLeaves` `BroadcastReturns` | 2 connections of 1 user, 1 room, 1 request, 1 broadcaster, channels of 1 | 336 252 | all hold |
| `runtimes` | `PartsTyped` `NothingLost` `AttemptsAccounted` `EveryMessageSettles` `SingleFileBattle` `RoundsProgress` `ChallengePodsAccounted` `ChallengeSettles` | MQ: 2 messages (one malformed), prefetch 2, 2 lost connections or restarts, 2 failed dials. Battle: 2 readers, 1 planned and 1 administrator's round, 1 fault. Challenge: 2 requests, 2 environments, 1 fault | 828 734 | all hold |
| `classroom` | `PartsTyped` `MembersKeepRuntime` `SeatsRespected` `OneLeaderPerTerm` `QuorumsBehindCommits` `QuorumsAreReal` `LoopsAccounted` `VotesDecide` `StructuresFollowRules` | Sessions: 3 users, 2 at once, seats for 2, 3 environments, 4 requests, 1 fault. Raft: 3 nodes, 2 terms, 1 command, 1 failure. PBFT: 4 nodes, 2 requests, 1 view change, 1 faulty node. HotStuff: 4 nodes, 3 blocks, 2 rotations. Engine: 3 simulators, 3 loops, 6 requests. Fork choice: 2 nodes, 6 blocks. DAG: 4 nodes, 6 vertices. Tendermint: 4 heights of 4 rounds, 4 hashes, timeout 3. Stake: 5 or 16 validators, 6 slots, 2 slashed. Delegates: 3, 2 seats, 2 voters, 2 turns. Synchronisation: 3 nodes, heights 2 to 4 | 1 057 903 | all hold |
| `ws_hub_lookup` | `ConnectedIsFound` | 2 connections | | violated |
| `env_resume_quota` | `UserQuota` | one request at a time, no fault | | violated |
| `grade_refused` | `VerdictsTaken` | 1 submission | | violated |
| `env_expired_leak` | `ExpiredReleasesPods` | one request, one fault | | violated |
| `raft_commit` | `CommittedOnMajority` | 3 nodes, 1 command, no failure | | violated |

Why the bounds are enough. *Task queue*: the interesting histories of a task
need a slow worker, a second one that takes the task over, and a third step of
the first; two overrun leases and three workers let a task be held three times
at once. Two tasks are needed for the order of claims, and one of them takes
the missing-handler path. Two attempts distinguish the first retry from the
last. *Environments*: two pods distinguish all, some and none; two experiments
and two environments are what the quotas need with a limit of one; two requests
in flight with the clean-up job and the waiter give every pair of overlapping
operations; one fault is a crash, an API error, a database error or a dying
pod. The third request reaches pause, resume and create in sequence. The school
limit of two is never the smaller one here, so only its interplay with the user
limit is exercised. *Scoring*: two requests of a team, of a challenge, or of
both interleave in every order, and the third comes before, between or after;
the price is still 20 after the first solve, then 18, and stops at the minimum of
17. *Hub*: two connections of one user are what the user index can confuse; a
channel of one is full with its first message, which is the state everything
that can go wrong here needs. A room is never related to another one, so one is
enough; the safety properties are also proved for any numbers. *MQ*: two lost
connections let a message be lost on the wire, redelivered, and lost again; two
failed dials exhaust the two retries allowed; one queue, because queues meet
only in the client. *Battle*: two readers are what a missing lock needs; a
planned and an added round are what an order needs. *Challenge*: two requests
cross each other and the provisioner; the second environment comes after the
stop of the first. *Sessions*: a founder, a second member and a newcomer, two of
them at work; three environments let a seat be taken, left and taken again.
*Simulators*: three and four nodes are the smallest with a majority and a
quorum that differ from all; the second term, view or block is where stale
messages of the first one arrive. In the smaller simulators a tree of six blocks
has two branches that overtake each other; four heights and rounds let a lock
meet a proposal of another round and of another height; six slots hold two
epochs and the delay of finality; three delegates for two seats change places;
the canonical chain grows twice beyond the first nodes. *Engine*: three simulators, so that a replaced
one is replaced again, and three loops, so that two loops of one simulator meet
a third start. *Teams*: two users meet at one team, or one user at two teams;
three users overfill a team of two. *Grading*: a second submission starts while
the first is graded, a second grade follows the first.

The runs switch the deadlock check off: with the bounds used up and all work
done nothing more happens, which is the normal end.

What the properties say, where it is not obvious:

- `ExclusiveUnlessContested`, `EffectsAccounted`, `NoEarlyGiveUp` together say
  which of the anomalies of an at-least-once queue this code has: double work
  only after a lost attempt or an overrun lease, but never a task that is given
  up too early, however stale the counters are.
- `RowMatchesPods` gives for each resting status what is true of the pods and
  which kinds of history it survives. Terminated is the strongest: it survives
  failed provisioning and crashes, and breaks only through an overlapping
  operation or a refused deletion.
- `QuotaKept` shows that the limits hold for histories without overlapping
  admissions, without stale writes and without `ResumeEnv`; `UserQuota` drops
  the last exception and fails.
- `CreatingSettles` needs the exceptions it has: after a crash, a lost
  operation or a status request that writes `creating` over the verdict, an
  environment stays `creating` for ever and keeps counting against the quota.
- `PriceOneBehind`: the price is computed before the submission is stored, so
  the second solver is paid as much as the first.
- `AwardedOnce`, `ScoreIsSum`, `BoardFresh`: the guarantees hold exactly when
  requests of a team or for a challenge do not overlap and no statement fails.
- `ChannelsCloseInOrder` says that the order in which channels
  are closed is right except for one window: a room request that looked up a
  connection before, and joins after, it was unregistered.
- `BrokenLeaves` and `BroadcastReturns` hold with the exceptions they name. `Run`
  stops for ever when it meets a full channel, since it then sends on a channel
  that only it receives from; from then on nobody registers, unregisters or
  broadcasts. `PongStuck` is a connection whose `WritePump` has ended while
  `ReadPump` sends a pong to a full channel.
- `NothingLost` holds because the retry is published before the old delivery is
  acknowledged and both travel in order, although the publish error is dropped:
  if the publish was lost with its connection, so was the acknowledgement.
  `AttemptsAccounted` is the price: only what was unacknowledged when a
  connection ended is handled twice.
- `SingleFileBattle` holds as long as no two requests are in the synchronisation
  at once, whatever fails or is abandoned; without that premise nearly all of it
  is false, since nothing but luck keeps two readers apart.
- `ChallengePodsAccounted` lists the three ways pods outlive their environment:
  expiry, a stop between the provisioner's check and its update, and a fault.
- `MembersKeepRuntime` and `SeatsRespected` hold for sessions in which an
  operation that ends an environment meets no other one, nobody pauses or lets
  expire what others use, and seats are taken one at a time.
- `OneLeaderPerTerm` holds without failures although a follower forgets its vote
  with every heartbeat of its own term: nobody asks again in that term. A leader
  that was offline may.
- `QuorumsBehindCommits` survives view changes and a faulty node, although votes
  are counted per digest only, as long as requests do not overlap or repeat.
- `QuorumsAreReal` holds although votes are not checked for repetition: every
  copy of a proposal makes all nodes vote in turn, so that the repeated votes
  come a round later, into another phase.
- `VotesDecide` says of Tendermint that nobody ever votes nil and only the block of
  the first height can be another one than was voted for; of proof of stake, that
  a final block keeps two thirds of the validators that are left, and that with
  sixteen or more nothing is final until five eighths as many as are left were
  slashed; of delegates, that votes given and taken back never differ from the
  present choices, and that nobody's turn is skipped unless there are more seats
  than delegates.
- `StructuresFollowRules` says that tips, flags, vote counters and the number of
  reorganisations, each kept by itself, agree with the tree and the rule; that the
  DAG is a chain; that a synchronised chain never passes its best first copy.
- `TeamsKept` holds outside of the windows between check and insert, which
  `raced`, `packed` and `thronged` name; a former member can be found in the
  wrong team.
- `SubmissionsSound` says that a stored grade stands unless grader and teacher,
  or two teachers, had the submission in hand at once; `GradingSettles` excepts
  the submissions whose grader was cut off, which stay `grading` for ever.
- `LoopsAccounted` names the three kinds of request after which loops and
  simulators no longer match.

Three of the violated runs are disagreements between a comment or a lesson and
the code, `ws_hub_lookup` and `grade_refused` show bugs; the quotations are in `PROJECT.json`.
`raft_commit`: the reply to a heartbeat that was sent before a command counts
for the command, so that the leader commits an entry nobody else has.
`grade_refused`: once the checkpoints of a submission were graded automatically,
every grade of a teacher is rolled back, because the check results are inserted
again under ids that the rows marked as deleted still have.

Every property also has a mutant there: a plausible mistake in the modelled
code, written as an operator beside the original, for which TLC finds the
property violated.

## 4. Fairness

*TaskQueue*: weak fairness of each worker's step, of the clock of each task and
of the checker. Workers and checker are ticker loops; the clock is time. Weak
fairness of a worker's step includes that handlers return, which the code leaves
to the timeouts inside the handlers (there is none around them). Nothing forces
submissions, clean-up, crashes, lost writes or slow handlers.

*EnvLifecycle*: weak fairness of every operation in progress (each pod call and
wait has a deadline), of the clean-up job, which the scheduler starts every
minute, and of time. Nothing forces users to act, pods to start, die or vanish,
or the synchronisation job to run.

*WsHub*: weak fairness of `Run`, of the receptions on each connection's behalf
(`select` chooses at random among ready channels), of every pump, whose blocking
calls have deadlines, and strong fairness of each waiting broadcaster, because
Go serves senders that wait on a full channel in turn. Nothing forces peers to
send, leave or answer.

*MQConsumer*: weak fairness of every consumer goroutine (handlers return), of
the watcher, and of the broker's reading and delivering. Faults and failed dials
are bounded: an outage ends. Nothing forces a submission or the success of a
handler.

*BattleRounds*: weak fairness of every reader, that is, somebody goes on reading
the battle (without a reader the code starts and ends nothing), and of the end
of a running round. Planned start times need not come: the property speaks of
due rounds.

*ChallengeEnv*: weak fairness of the provisioning goroutine, whose waits have
deadlines. No request is forced; the contest need not end.

*Grading*: weak fairness of every grader, whose checkpoints end with its context.
Nothing forces a teacher.

*FlagScoring*, *ContestTeams*, *Sessions*, *SimEngine* and the simulators have no liveness
property and no fairness. The simulators advance only while the user lets the
engine run; what must have happened once the queue is empty is a safety property
of theirs (`QuorumsBehindCommits`, `QuorumsAreReal`).

## 5. Proofs

`BackendProofs` has the proofs of the two services of the backend that stand
alone. Of the task queue it proves, for any number of tasks and workers, any `MaxRetries`
and any number of crashes, lost writes and overrun leases:

| theorem | statement |
|---|---|
| `TypeCorrect` | `Spec => []TypeOK` |
| `Exclusive` | `Spec => []ExclusiveUnlessContested` |
| `GiveUpDeserved` | `Spec => []NoEarlyGiveUp` |
| `Effects` | `Spec => []EffectsAccounted` |
| `Implements` | `Spec => Board!Spec`, that is `ImplementsJobBoard` |

The only assumption is `TaskQueueAssumption` (the bounds are numbers, at least
one attempt, `NoTask` is no task), which TLC evaluates in the run.

The argument. None of the properties is inductive alone. Exclusivity needs that
the row of an uncontested task that a worker holds is `running`: then nobody
else can claim it. The honest-failure property needs a count: the retry counter
of a row and of every worker's copy is at most the number of failed attempts,
and while a worker holds an error that it did not report yet, strictly less;
then a worker that gives up has seen `MaxRetries` failures. The accounting of
successes needs that an uncontested task without a lost attempt has no success
as long as it is pending or being executed, one while its worker is about to
report it, and that completed rows had one. The refinement maps a row to a job
and its one holder to the executor and uses all of these. Each invariant is one
module section with one step per action.

Of the WebSocket hub it proves, for any sets of connections, users, rooms and
requests and any capacities from one on:

| theorem | statement |
|---|---|
| `HubTypeCorrect` | `HubSpec => []HubTypeOK`, with no channel above its capacity |
| `Indexed` | `HubSpec => []IndexesAgree`, that is `IndexedIsRegistered` and `RoomsAgree` |
| `CloseOrder` | `HubSpec => []ChannelsCloseInOrder`, that is `OpenWhileRead` and `PanicNeedsLateJoin` |

The assumption is `HubAssumption` (positive capacities; `None` is nothing else).
The four parts are inductive only together with `Phases` and
`ClosedMembersAreLate`: a registered connection is open and past its
registration; while `Run` registers a connection it cannot have taken its
unregistering, so that a connection is not added after it was closed; and a
closed connection is in a room only if it joined late, because `Unregister`
empties, by `RoomsAgree`, every room it was in.

`LabProofs` proves, of the engine for any numbers of simulators, loops and
requests, and of Raft for any numbers of nodes, terms and failures:

| theorem | statement |
|---|---|
| `TypeCorrect` | `Spec => []TypeOK` |
| `Accounted` | `Spec => []LoopsAccounted` |
| `OneLeader` | `RaftSpec => []OneLeaderPerTerm` |
| `RaftTypeCorrect` | `RaftSpec => []RaftTypeOK` |

Of the engine, the assumption is `EngineAssumption` (the bounds are numbers). The
inductive invariant is `LoopInv` with `TypeOK`: as long as no restart came too early, a
simulator has one loop at most that is not gone (`OneLoopEach`), and a running
one has a loop that does not wait on another context than its own (`Driven`): of
such a loop `LoopEnds` is not enabled. As long as no initialisation replaced a
running simulator, only the active one runs (`ReplacedStopped`); and an engine
that says running has an active simulator that runs and is not paused
(`Claimed`). Two lemmas carry the steps: a request that starts nothing keeps the
first two parts (`NothingStarted`), and a step of a loop does (`LoopMoves`).

Of Raft, the assumption is `RaftAssumption` (one node at least, bounds are
numbers). That two nodes cannot both have a majority in a term needs to know who
voted for whom, and the code forgets it: a follower resets its vote when it hears
from a leader (`handleAppendEntries`). `RaftInv` therefore says that there is a set of
ballots, cast once in each term by each node (`Fair`), which explains what is in
sight: requests and replies in the queue, the votes nodes still hold, the count
of a candidate, and that a leader has a majority. A forgotten vote does no harm
as long as no leader failed, because the queue is in order: when a node hears of
a leader, every request of that term has been answered. The set of ballots was first
checked by TLC as an observer. `OneLeaderPerTerm` has the same condition.

That a node's numbers keep their ranges is an invariant of its own, `RaftTyped`,
which holds also when leaders fail. The votes of a candidate are only counted, and
a count has no bound until it is known whose votes are in it: it is at most the
number of nodes whose request or grant of that term is not in the queue any more
(`Tallied`, `Uncast`). No log and no `AppendEntries` reaches beyond the commands
that were submitted, and what a leader keeps of its followers (`next`, `match`)
lies within them (`NodeSteady`, `Wellformed`). Dropping the older `AppendEntries`
of a leader and rewriting those that share its log keep the rest of the queue as
it is (`OrderlyThin`). The bounded form of `RaftTyped` was checked by TLC first.

Of sessions it proves, for any finite set of users, any set of actors, any size
of a session and any numbers of environments, requests and faults:

| theorem | statement |
|---|---|
| `SessionTypeCorrect` | `SessionAssumption => (SessionSpec => []SessionTypeOK)` |
| `SeatsKept` | `SessionAssumption => (SessionSpec => []SeatsRespected)` |
| `RuntimeKept` | `SessionAssumption => (SessionSpec => []MembersKeepRuntime)` |

`SessionAssumption` says that a session has a seat and one environment fits, that
the bounds are numbers and the users finitely many; `MCClassroom` assumes it. The
invariants were checked by TLC, with two users and three actors and with three
users and two actors, before they were proved.

- `Base` holds whatever the members do: an actor goes by rows that exist and belong
  to its session (`Knows`), a primary environment is one of its session
  (`Primaries`), and the environments of a session have one runtime, which no
  other session has (`Rows`).
- `Seated`, for a session that nobody crossed or crowded: who may change its members is alone in
  it (`SeatsInTurn`), a newcomer under way still has a seat, and whoever is about
  to write the row has the right count; if the row is wrong, somebody is about to
  write it.
- `Kept`, for a session that nobody crossed or upset: who ends an environment is
  alone (`EndsAlone`), so what it counted at first still holds when it acts: the
  one that deletes the pods has the only active environment, the one that
  detaches is not the last (`OnCourse`). A running environment has its pods
  unless somebody is between deleting them and writing the row (`HasPods`);
  pods without a fault are those of an environment that is not terminated
  (`PodsOwned`); and a session in use has a primary environment that is not
  terminated, or the actor that ended it is about to hand over to the next
  (`Led`). Every other session stays as it is (`KeptElsewhere`), since a step
  touches the rows of one session and the pods of one runtime.

`ExperimentProofs` proves, for any numbers of environments, instances, users,
experiments and requests, any quotas and any number of faults, and for any
numbers of requests for and grades of submissions:

| theorem | statement |
|---|---|
| `TypeCorrect` | `Spec => []TypeOK` |
| `RowsTellTruth` | `Spec => []RowMatchesPods` |
| `ExtensionsCounted` | `Spec => []ExtensionsHonest` |
| `QuotasKept` | `Spec => []QuotaKept` |
| `GradingTypeCorrect` | `GradingSpec => []GradingTypeOK` |
| `SubmissionsAreSound` | `GradingSpec => []SubmissionsSound` |
| `BothTypeCorrect` | `MCSpec => []PartsTyped` |

The assumptions are `EnvAssumption` (quotas are positive, bounds are numbers, the
scheduler is no request, `None` is nothing else) and `GradingAssumption` (bounds
are numbers, no request is a student's and a teacher's, no score is `AutoScore`
or `Unset`). The first three rest on one
invariant, `IInv`: `TypeInv`, `PointsFit` (which places in the code an
operation of each kind reaches) and, for every environment, `EnvInv`. The
latter is the heart: an environment without a row is nobody's (`Unused`), and
one whose operations never overlapped is `Calm`: who works on it is alone and
holds a copy equal to the row (`SoleOwner`), which is why writing back the
whole row loses nothing; the loops over its pods have done what their index
says (`LoopDone`); the counter, the lease and the extensions granted are one
number (`Counted`); a terminated row has no live pod (`EndedClean`); and,
unless an operation is between its pods and its row (`Busy`), so has a paused
one, and a running one has all its pods (`PausedClean`, `Provided`). A step
either leaves an environment `Untouched`, keeps its one owner, or overlaps and
marks it. `QuotaInv` is the second invariant: while admissions never overlapped
and no late poll revived a row, what the one open admission read still holds
when it inserts (`StillFree`, `StillRoom`), because under it rows only leave the
statuses that count (`RowsFade`); a resume lets a paused row count again without
asking, and the property excepts it where quotas are counted.

Of submissions, `GradingInv`, which TLC checked before it was proved, has three
parts beside the types. `AttemptsNumbered`: unless two submissions were counted
at once, the copy of the one request that has counted says one more than there
are rows, and every copy of a row in a request or a grader has the number of
its row, so that writing back the whole row keeps it. `GradedOnce`: the request
that inserted a submission is the only one that may start its grader, and has
not done so while it has it in hand; hence check results that are stored, or
were loaded by a teacher, come from a grader that is done, and so does a grade
that is refused. `InOneHand`, for every submission that two parties never had in
hand at once: who has it is alone, also with its grader, and holds a copy equal
to the row; while the grader is to write, no teacher has given a score; and a
score once given is still the row's. Most steps only end requests (`Released`),
and one lemma for each part says what such a step must not touch.

`ContestProofs` proves, for any numbers of requests, teams, challenges and
faults and any prices and decay, and for any numbers of users, teams and
admissions and any sizes:

| theorem | statement |
|---|---|
| `TypeCorrect` | `Spec => []TypeOK` |
| `Awards` | `Spec => []AwardedOnce` |
| `Prices` | `Spec => []PriceOneBehind` |
| `BoardShows` | `Spec => []BoardFresh` |
| `Scores` | `Spec => []ScoreIsSum` |
| `TeamsTypeCorrect` | `TeamsSpec => []TeamsTypeOK` |
| `TeamsAreKept` | `TeamsSpec => []TeamsKept` |
| `BothTypeCorrect` | `MCSpec => []PartsTyped` |

The assumptions are `ScoringAssumption` (points, percentage and bounds are
numbers) and `TeamsAssumption` (bounds are numbers, a team has two seats at
least, `Nobody` is no user). Of scoring, `RequestInv` says what requests share: two in flight on one team or
challenge have marked it as mixed (`Apart`), a request that is through left a
submission unless it lost one (`Kept`), and so of a serial challenge one request
only has the bonus (`OneBonus`) and of a serial pair one only an award
(`OneAward`). The three value theorems follow one pattern: the stored value is
what the stored submissions say, or one request is ahead of them and will
catch up. `Priced`: the price is that of one solve fewer than are stored, or
a request has written the next price and not its submission. `Shown`: the
ranks are those of the totals, or somebody is about to compute them; the cache
is what the tables say, or somebody is about to drop it. `Summed`: the score of
a team is the sum over its stored submissions, or one request has added its
points already. The sum is `MapThenSumSet`, which the library defines by a
recursive function over the subsets of its argument: that there is one such
function, that it takes its elements out in turn (`SumStep`) and that one more
request adds its points wherever it comes in that order (`SumAdds`) is shown by
a smallest counterexample, the subsets of a finite set being well-founded under
strict inclusion.

Of teams, the invariant has three parts beside the types, each under the
condition that the property names, and TLC checked it before it was proved.
`UserKept`: of a user whose admissions never overlapped one at most is past the
check for another team, and as long as it is, the user is in no team; so the
row it inserts is the only one. `TeamKept`: of a team whose admissions never
overlapped one at most is under way, and if it has counted the members there
still is a seat; while a team is being founded it has no member. `PlacesKept`:
of a contest of single players whose registrations never overlapped, the one
under way still finds a place when it inserts. The participants are a sum over
the teams, reasoned about by the lemmas of the scores.

`RuntimesProofs` proves, of the RabbitMQ path for any sets of queues and messages, any prefetch,
and any numbers of lost connections, restarts and failed dials:

| theorem | statement |
|---|---|
| `MQTypeCorrect` | `MQAssumption => (MQSpec => []MQTypeOK)` |
| `KeepsMessages` | `MQAssumption => (MQSpec => []NothingLost)` |
| `AttemptsCounted` | `MQAssumption => (MQSpec => []AttemptsAccounted)` |

`MQAssumption` types the constants and asks for a positive prefetch and number
of dials; `MCRuntimes` assumes it. The invariant has three parts, each checked
by TLC before it was proved.

- `TypeInv`: what a message found anywhere says of the past. Its queue is the
  one it was submitted to, the broker has received it, its handler failed at
  least as often as its retry count says, and a frame that rejects it, or the
  consumer about to send one, means that it is malformed or failed three times.
- `Covered`: an acknowledgement on the wire, of a message that is not settled
  otherwise, comes after the publication of a later attempt, or that attempt has
  arrived already (`AcksCovered`, `AckersCovered` for the consumer that is about
  to send it); so a connection that ends at any point of the wire loses the
  acknowledgement before it loses the retry. `NothingLost` itself, with the
  message found at the broker (`Present`), is the third conjunct.
- `Single`: a message that no lost connection gave back is in one of five
  places (the wire, the queue, the library's buffer, a consumer's hand, settled)
  and there once, and whoever is still to ask its handler holds a retry count
  that is not below the number of its failures (`Alone`, `Bounded`). Each action
  leaves the message where it is (`AllKept`), or moves it on.

of challenge environments for any numbers of requests, environments and faults:

| theorem | statement |
|---|---|
| `ChallengeTypeCorrect` | `ChallengeAssumption => (Spec => []TypeOK)` |
| `PodsAccounted` | `ChallengeAssumption => (Spec => []ChallengePodsAccounted)` |

`ChallengeAssumption` says that one environment at least fits and that the
bounds are numbers; `MCRuntimes` assumes it, so TLC evaluates it. The invariant
relates the row, the provisioner and the pods of each environment (`RowSound`:
pods exist only between `CreatePods` and the clean-up, and whoever is at the
update finds the row creating unless a stop crossed it), what a request in
progress knows of the row it will write (`ErrandSound`), and, as long as
requests never overlapped and no stop crossed a provisioner, that only the
newest row is live and the only request works on that one (`SingleLive`).

and of battle rounds for any finite set of readers, any number of planned rounds and
of an administrator's, and any number of faults:

| theorem | statement |
|---|---|
| `BattleTypeCorrect` | `BattleAssumption => (BattleSpec => []BattleTypeOK)` |
| `SingleFileRounds` | `BattleAssumption => (BattleSpec => []SingleFileBattle)` |
| `PartsTypeCorrect` | `MCSpec => []PartsTyped`, of the three parts of `MCRuntimes` together |

`BattleAssumption` says that the readers are finitely many, that a round at least
is planned and that the bounds are numbers; `MCRuntimes` assumes it. Both rest on
`BattleInv`, which TLC checked before it was proved.

- `Base` holds whatever the readers do. Its heart is `Creators`: every row is an
  administrator's or a reader's, and no reader created a number twice, because
  it only creates what its copy misses and reads the table again before it
  misses anything anew. The rows that are not an administrator's are so mapped
  one to one to pairs of a reader and a planned number, which bounds the table
  (`RowsBounded`): the missing lock costs at most one duplicate of the plan per
  reader.
- `SingleFile` holds while no two readers were in the synchronisation at once.
  `TableInOrder` is what the run checks, with the numbers of finished rounds
  below all others; `InStep` says that what a reader decided still holds when it
  acts on it: its copy is the table, the round it ends is running and over, the
  round it starts is pending with every round below it finished or without a
  time, and from `starting` on none runs. That a decision has these properties
  (`DecisionInStep`) needs that the lowest due round has no pending round with a
  time below it, which follows from the order of the planned times; that a
  number is given twice only when a round lost its time needs the order of the
  finished rounds (`FileCreateRound`).

`SimulatorProofs` proves, of HotStuff for any numbers of replicas, blocks and
rotations, and of the six smaller simulators for any values of their constants:

| theorem | statement |
|---|---|
| `HotStuffTypeCorrect` | `HotStuffSpec => []HotStuffTypeOK` |
| `QuorumsReal` | `HotStuffSpec => []QuorumsAreReal` |
| `StakeVotesDecide` | `Tendermint!Spec /\ Pos!Spec /\ Dpos!Spec => []VotesDecide` |
| `BlocksFollowRules` | `Fork!Spec /\ Dag!Spec /\ Sync!Spec => []StructuresFollowRules` |

Of HotStuff, the assumption is `HotStuffAssumption` (four replicas at least, the
minimum of the parameter in the code). A vote carries no sender in the count:
`handleVote` counts messages. That a certificate has the votes of different
replicas is due to their order, and `HotStuffInv` says what it is (`Underway`): the queue
holds votes for older blocks, then the proposals that are not delivered yet, then
the votes that the delivered ones brought, each of them one vote of every replica
but the proposer, in the same order (`Waiting`, `Casts`). The votes that a phase
has counted (`Cast`) are the leader's own and then the last ones cast, as long as
nobody rotated the leader (`InTurn`). A phase needs `Needed` of them, which is
less than the number of replicas, so that they come from different ones; and the
votes of all proposals are enough for the four phases, so that no block is left
waiting for votes when the next one is proposed. TLC checked it for four, five and six
replicas before it was proved.

Of the six, the assumption is `SimulatorsAssumption`, the conjunction of those of the parts:
finite sets of delegates, positive counts and periods. The specifications of the
instances share no variable, so that their conjunction says of each only what it
says alone; the lemmas below them (`TendermintTypeCorrect`, `PosFinalityBacked`,
`DposAddsUp`, `HeadFollows`, `DagStaysChain`, `SyncNobodyLeads`) state each
simulator's type invariant and property separately. The inductive invariants:

- `TmInv`: from the first prevotes on every proposal is the valid value, except
  one that the user submits in the first height, and a lock is on that value.
- `PosInv`: the attestations of a block are at most the size of a committee,
  taken when it was made, and every slashed validator is counted. That a
  committee of a quarter stays below two thirds is arithmetic (`DivideBy`), and
  the attempt to prove it without the count of slashed validators showed that
  it needs one.
- `DposInv`: the tally of a delegate is the sum, over the voters, of what each
  gives to it. A voter who changes their choice changes one term (`Paid`). The
  seats are the first of an order by tally, which holds the seated delegates
  once, and an undisturbed round has taken the turns of its first seats. Here
  the attempt showed that a round can only be full if there are as many
  delegates as seats.
- `DagInv`: the graph is a chain, so that the ancestors of a vertex are all the
  vertices before it (`AncestorsOfChain`) and the confirmers those after it; a
  vertex before a confirmed one has at least its confirmers.
- `SyncInv`: no height is above the best first copy. It holds from node to node
  of the pass that a tick makes (`Copies`).
- `ForkInv`: the tips are the leaves (`Rooted`); a counter is the number of nodes
  that vote for the block, and under `lmd_ghost` nobody votes beyond genesis
  (`Voted`); with the longest or the heaviest chain the head is the first block
  of its height (`Headed`); and as long as no fork was counted every block hangs
  on the canonical chain (`Unforked`). A chain of height h weighs h(h+1)/2
  (`ChainWeight`), so that both rules rank the blocks alike (`WorthRanks`) and a
  change of the head gains height (`HighestIsBest`). GHOST descends the canonical
  chain while it is the only one with weight, and takes the first block on top of
  it (`GhostExtends`): without a counted fork there is no reorganisation. The
  counters hold after each node's vote of a pass (`Cast`).

Sums over sets (tallies, weights) are all one definition, `Weigh`, with a lemma for
one more element, one term changed, and larger terms.

The modules define these sums, passes and closures by recursive functions, and a
recursive function of TLA+ is a `CHOOSE`: that there is one, and what its values
are, is shown with a least argument for which it could fail.

`ClassroomProofs` proves, of the composition `MCClassroom`, and from `PbftProofs`
of PBFT:

| theorem | statement |
|---|---|
| `PartsBehave` | `MCSpec` implies the specification of each of its eleven parts |
| `CommitsBacked` | `BftNodes >= 4`, `MaxByzantine <= (BftNodes - 1) \div 3` and `MCSpec` imply `[]QuorumsBehindCommits` |
| `PartsTypeCorrect` | `MCSpec => []PartsTyped` |
| `ClassroomKept` | `MCSpec` implies the seven other invariants of the run |

The assumptions are `ClassroomAssumption` and `SimulatorsAssumption`, which TLC
evaluates. `CommitsBacked` alone has more: four nodes, the least the parameter of
the simulator admits, and faults in fewer than a third of the nodes, which is
what the protocol presumes and `InjectFault` does not enforce. The second is what
the count of `FakeInv` needs; with two or three faulty nodes of four TLC finds no
violation either, within the bounds of the run.

`BftInv`, the invariant that `PbftProofs` shows to be inductive (`BftStarts`,
`BftSteps`, `BftHolds`), has four parts, of which the last three hold as long as no
request is submitted while another is under way:

- `BftTypeInv` holds always: the queue has all proposals first, then all PREPAREs, then
  all COMMITs, and at most one of each for a node (`Proper`). So a node is counted
  once although the code counts messages and not senders.
- `VotesInv`: one payload at a time is under way, a node commits to it once
  (`CommitsOnce`), and the COMMITs that a node has counted are those of nodes that
  committed and whose message is not in the queue any more (`CountedBy`). Hence 2f + 1
  of them are 2f + 1 nodes (`Backed`).
- `FakeInv`: for the payload that only equivocating nodes send, the votes a node
  has or may get and the nodes that are out of step (`Irregular`) are together at most
  the faults: a node only gets out of step when it is made faulty meanwhile.
- `SmoothInv`: without faults the request passes through three stages, and in each the
  count of every node is the number of nodes whose message is not in the queue
  (`Preparing`, `Closing`, `Settled`). When the queue is empty all have committed
  and replied.

That a behaviour of the composition is one of each part (`PartsBehave`) takes one
step per action: a step of one part leaves the variables of the others
unchanged. The other theorems follow from it and those of `PbftProofs`,
`LabProofs` and `SimulatorProofs`. The proofs of PBFT are in a module that
extends `MCClassroom` because the latter gives `PbftSim` its variables.

Only model-checked: liveness (`EveryTaskSettles`, `CreatingSettles`,
`ExpiredIsReaped`, `BrokenLeaves`, `BroadcastReturns`, `EveryMessageSettles`,
`RoundsProgress`, `ChallengeSettles`, `GradingSettles`), since the prover does not
handle fairness and ENABLED. Every safety property of a passing run is proved.

The type invariants of `TaskQueue` and `WsHub` are proved and not repeated in
their runs.

## 6. Not modelled

`PROJECT.json` lists every component with what is modelled of it. Most of the
code is outside of what a state-based model can add to: of some 96 000 lines,
services and handlers that create, list and update records request by request,
the builders of pod specifications, start scripts and proxy targets, the text
processing of vulnerability data, about ninety sequential or floating-point
teaching demonstrations, and the front end make up most. They have little state
that outlives a request and no actors to interleave; a model of them would be a
transcription. What has state, concurrency or failures is modelled, with these
exceptions:

- *Cross-chain simulators.* The API reaches one to three actions of each, every
  one of which runs a whole flow (lock, claim, refund; deposit, sign, relay) in
  one call, without a tick. The order of the steps is fixed by the call.
- *Scheduler.* `Running` and `LastRun` are read without the lock by the listing;
  one run of a job at a time is assumed where its jobs are modelled.
- *Data races in the simulators.* `NodeState.Data` of the Raft simulator holds
  the leader's `NextIndex` map itself, which is encoded under another lock than
  it is written under, and `ExecuteAction` reads `leaderID` without the mutex:
  the models take every handler as one step.
- *Battle contracts.* `UpgradeContract` shares its `contract` with the goroutine
  it starts; deployments, events and scores are not modelled.
- *Duplicate suppression before `Submit`* (`findActiveTask`), and handlers that
  never return: see the hazards without a property.
- *Step, parameters, snapshots, event bus, time controller* of the engine:
  nothing that is modelled depends on them.

Behaviour seen while modelling that no run is about: one silent backup of
four nodes keeps the PBFT simulator from committing, since each other backup
then counts two of the three votes it needs; a request the primary ignores stays in the list and
blocks the timed ones; `StopEnv` looks at no status, so a former member of a
session can stop again; `attachToSharedSession` copies the status of the primary
environment whatever it is; the synchronisation job of the scheduler changes no
row, since `ListByStatus` loads no instances; a user who left a team is still
found in it by `GetUserTeam`, and what they solve later counts for it;
`InviteTeamMember` ignores the registration window, and the limit of
participants is never applied to contests of teams; `safego.GoWithTimeout` runs
its function in an inner goroutine without the recovery of the outer one, so
that a panic in it ends the process (`Crash` in the models).

In the smaller simulators, all of it part of their properties: under `lmd_ghost`,
the default rule of `fork_choice.go`, the first votes go to genesis and the head
never leaves it; `dag.go` asks for two parents by default, has one tip at first
and so never creates a vertex, and with one parent builds a chain, although it is
presented as building blocks in parallel; `commitBlock` of `tendermint.go` keeps
`ValidValue`, so that all later blocks carry the hash of an earlier one, and a
proposal submitted during the prevotes of the first height is committed unvoted;
`pos.go` lets a quarter of sixteen validators or more attest, and finality needs
two thirds of all, so that nothing is ever final; in `chain_sync.go` nobody
receives the new blocks, and who was synced stays so in name. `pos.go` also leaves
`finalized` at the oldest of the blocks that become final in one tick.

## 7. Plan

Done: `TaskQueue` with `JobBoard`, `EnvLifecycle`, `FlagScoring`, `ContestTeams`,
`Grading`, `WsHub`, `MQConsumer`, `BattleRounds`, `ChallengeEnv`, `Sessions`,
`RaftSim`, `PbftSim`, `HotStuffSim`, the six smaller simulators, `SimEngine`; proofs
of all of their safety properties, and of the composition of what students use.

Not done: what section 6 lists. The next step would be the scheduler, whose jobs
are modelled one run at a time.
