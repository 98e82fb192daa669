---------------------------- MODULE EnvLifecycle -----------------------------
(***************************************************************************)
(* Experiment environments in individual mode,                             *)
(* internal/service/env_manager_service.go: the table experiment_envs, the *)
(* pods each environment owns in Kubernetes, the requests of the users     *)
(* (create, stop, pause, resume, extend, snapshot, status), the goroutine  *)
(* that waits for the pods to become ready, and the scheduled clean-up and *)
(* synchronisation jobs.                                                   *)
(*                                                                         *)
(* Nothing locks an environment.  Every operation reads the row, works on  *)
(* the pods for seconds or minutes, then writes the row: the whole row,    *)
(* from the copy it read (Update), or one column (UpdateStatus).           *)
(***************************************************************************)
EXTENDS Naturals, FiniteSets

CONSTANTS
    Users, Experiments,
    NumEnvs,       \* bound: environments ever created
    NumInstances,  \* runtime instances (pods) of an environment
    MaxUserEnvs, MaxSchoolEnvs, MaxExtendTimes,  \* ExperimentConfig
    Requests,      \* bound: requests in flight at once, waiters included
    Scheduler,     \* the clean-up job of the scheduler
    None,          \* no environment, user or experiment
    MaxRequests,   \* bound: requests ever made
    MaxFaults      \* bound: API errors, crashes, database errors, dying pods

Envs == 1 .. NumEnvs
Instances == 1 .. NumInstances
Actors == Requests \cup {Scheduler}

ASSUME EnvAssumption ==
    /\ {NumEnvs, NumInstances, MaxUserEnvs, MaxSchoolEnvs} \subseteq Nat \ {0}
    /\ {MaxExtendTimes, MaxRequests, MaxFaults} \subseteq Nat
    /\ Scheduler \notin Requests
    /\ None \notin Envs \cup Users \cup Experiments

VARIABLES
    row,       \* experiment_envs
    elapsed,   \* how many of the lease periods of an environment are over
    pods,      \* pods[e][i]: the pod of instance i, as Kubernetes sees it
    op,        \* the operation each actor is in the middle of
    listed,    \* the environments the clean-up job read and did not reach yet
    requests, faults,  \* what is used of MaxRequests and MaxFaults
    \* observers, read by no guard
    marks,     \* what went differently than in one operation at a time
    granted,   \* extensions granted to an environment
    crowded    \* two admissions overlapped

resources == <<row, elapsed, pods>>
observers == <<marks, granted, crowded>>
vars == <<resources, op, listed, requests, faults, observers>>

-----------------------------------------------------------------------------
Status == {"absent", "creating", "running", "failed", "paused", "terminated"}
Active == {"creating", "running", "paused"}   \* ActiveExperimentEnvStatuses

\* Mutant: environments that are still starting are not counted.
ChargedWhenUp == {"running"}

\* What the quotas count.
Charged == {"creating", "running"}

\* expires_at is the end of lease period number `lease`.
Row == [status: Status, user: Users \cup {None}, exp: Experiments \cup {None},
        lease: Nat, extends: Nat]

\* failed, succeeded: the container is over, restarts are off, the pod is kept.
PodState == {"none", "pending", "running", "failed", "succeeded", "terminating"}
Ended == {"failed", "succeeded"}

Kind == {"create", "stop", "pause", "resume", "extend", "snapshot", "poll", "cleanup"}
Point == {"free", "admitted", "provisioning", "waiting", "failing", "ready",
          "snapshotting", "deleting", "closing", "extending", "polling"}
Mark == {"overlap", "lost", "undeleted", "unprovisioned", "stray poll", "resumed"}

NewRow(u, x) == [status |-> "creating", user |-> u, exp |-> x, lease |-> 0, extends |-> 0]
Blank == [NewRow(None, None) EXCEPT !.status = "absent"]
Free == [kind |-> "stop", at |-> "free", env |-> None, next |-> 1, copy |-> Blank]

Expired(e) == elapsed[e] > row[e].lease

Init ==
    /\ row = [e \in Envs |-> Blank]
    /\ elapsed = [e \in Envs |-> 0]
    /\ pods = [e \in Envs |-> [i \in Instances |-> "none"]]
    /\ op = [o \in Actors |-> Free]
    /\ listed = {}
    /\ requests = 0
    /\ faults = 0
    /\ marks = [e \in Envs |-> {}]
    /\ granted = [e \in Envs |-> 0]
    /\ crowded = FALSE

-----------------------------------------------------------------------------
At(o, point) == op[o].at = point
Env(o) == op[o].env
InFlight(e) ==
    {o \in Actors : Env(o) = e} \cup (IF e \in listed THEN {Scheduler} ELSE {})

\* Mutant: the next loop over the instances starts where the last one ended.
GotoMidway(o, point) == op' = [op EXCEPT ![o].at = point]

Goto(o, point) == op' = [op EXCEPT ![o].at = point, ![o].next = 1]
NextInstance(o) == op' = [op EXCEPT ![o].next = @ + 1]
Done(o) == op' = [op EXCEPT ![o] = Free]

MarkEnv(e, m) == marks' = [marks EXCEPT ![e] = @ \cup {m}]

\* One more fault, while there are any left.
Fault == faults < MaxFaults /\ faults' = faults + 1

\* ExperimentEnvRepository.Update: every column, whoever wrote it meanwhile.
Update(e, r) == row' = [row EXCEPT ![e] = r]

\* ExperimentEnvRepository.UpdateStatus: one column.
UpdateStatus(e, s) == row' = [row EXCEPT ![e].status = s]

SetPod(e, i, s) == pods' = [pods EXCEPT ![e][i] = s]

\* A request on environment e by its owner starts: it reads the row.
Begin(o, kind, e, point) ==
    /\ o \in Requests /\ At(o, "free")
    /\ row[e].status # "absent"
    /\ requests < MaxRequests
    /\ requests' = requests + 1
    /\ op' = [op EXCEPT ![o] = [kind |-> kind, at |-> point, env |-> e,
                                next |-> 1, copy |-> row[e]]]
    /\ marks' = IF InFlight(e) = {} THEN marks
                ELSE [marks EXCEPT ![e] = @ \cup {"overlap"}]
    /\ UNCHANGED <<resources, listed, faults, granted, crowded>>

-----------------------------------------------------------------------------
(* CreateEnv.  The admission reads: an active environment of the user for  *)
(* the same experiment is returned as it is, and two quotas are counted.   *)
EnvsOf(u) == {e \in Envs : row[e].user = u}

Admissible(u, x) ==
    /\ \A e \in EnvsOf(u) : row[e].exp = x => row[e].status \notin Active
    /\ Cardinality({e \in EnvsOf(u) : row[e].status \in Charged}) < MaxUserEnvs
    /\ Cardinality({e \in Envs : row[e].status \in Charged}) < MaxSchoolEnvs

Admit(o, u, x) ==
    /\ o \in Requests /\ At(o, "free")
    /\ requests < MaxRequests
    /\ requests' = requests + 1
    /\ Admissible(u, x)
    /\ op' = [op EXCEPT ![o] = [kind |-> "create", at |-> "admitted", env |-> None,
                                next |-> 1, copy |-> NewRow(u, x)]]
    /\ crowded' = (crowded \/ \E p \in Requests : At(p, "admitted"))
    /\ UNCHANGED <<resources, listed, faults, marks, granted>>

Insert(o) ==
    /\ At(o, "admitted")
    /\ \E e \in Envs :
        /\ row[e].status = "absent"
        /\ \A d \in 1 .. e - 1 : row[d].status # "absent"
        /\ Update(e, op[o].copy)
        /\ op' = [op EXCEPT ![o].at = "provisioning", ![o].env = e]
    /\ UNCHANGED <<elapsed, pods, listed, requests, faults, observers>>

(* createRuntimeInstances: the pods one by one.  A pod of the same name,   *)
(* even one that is still terminating, is an error of the API; the pods    *)
(* created before the error stay.                                          *)
StartInstance(o) ==
    /\ At(o, "provisioning") /\ op[o].next \in Instances
    /\ pods[Env(o)][op[o].next] = "none"
    /\ SetPod(Env(o), op[o].next, "pending")
    /\ NextInstance(o)
    /\ UNCHANGED <<row, elapsed, listed, requests, faults, observers>>

\* The name is taken, the API refuses the pod, or it refuses the service and
\* the pod is deleted again.
StartRefused(e, i) ==
    \/ pods[e][i] # "none" /\ UNCHANGED <<pods, faults>>
    \/ Fault /\ UNCHANGED pods
    \/ Fault /\ pods[e][i] = "none" /\ SetPod(e, i, "terminating")

\* Mutant: CreateEnv returns the error without writing the row.
StartFailsUnwritten(o) ==
    /\ At(o, "provisioning") /\ op[o].next \in Instances
    /\ StartRefused(Env(o), op[o].next)
    /\ Done(o)
    /\ MarkEnv(Env(o), "unprovisioned")
    /\ UNCHANGED <<row, elapsed, listed, requests, granted, crowded>>

StartFails(o) ==
    /\ At(o, "provisioning") /\ op[o].next \in Instances
    /\ StartRefused(Env(o), op[o].next)
    /\ IF op[o].kind = "create" THEN Goto(o, "failing") ELSE Done(o)
    /\ MarkEnv(Env(o), "unprovisioned")
    /\ UNCHANGED <<row, elapsed, listed, requests, granted, crowded>>

(* CreateEnv hands over to the waiter; ResumeEnv writes its copy first.    *)
Provisioned(o) ==
    /\ At(o, "provisioning") /\ op[o].next \notin Instances
    /\ IF op[o].kind = "create"
       THEN Goto(o, "waiting") /\ UNCHANGED <<row, marks>>
       ELSE LET r == [op[o].copy EXCEPT !.status = "creating"] IN
            /\ Update(Env(o), r)
            /\ op' = [op EXCEPT ![o].at = "waiting", ![o].next = 1, ![o].copy = r]
            /\ MarkEnv(Env(o), "resumed")
    /\ UNCHANGED <<elapsed, pods, listed, requests, faults, granted, crowded>>

(* waitForRuntimeReady: every instance in turn; a failed pod ends the wait *)
(* at once, one that is missing, pending or not ready does by the timeout. *)
InstanceReady(o) ==
    /\ At(o, "waiting") /\ op[o].next \in Instances
    /\ pods[Env(o)][op[o].next] \in {"running", "terminating"}
    /\ IF op[o].next = NumInstances THEN Goto(o, "ready") ELSE NextInstance(o)
    /\ UNCHANGED <<resources, listed, requests, faults, observers>>

InstanceNotReady(o) ==
    /\ At(o, "waiting")
    /\ Goto(o, "failing")
    /\ UNCHANGED <<resources, listed, requests, faults, observers>>

(* The verdict of the waiter, or of CreateEnv when provisioning failed.    *)
WriteVerdict(o) ==
    /\ At(o, "failing") \/ At(o, "ready")
    /\ Update(Env(o), [op[o].copy EXCEPT
           !.status = IF At(o, "ready") THEN "running" ELSE "failed"])
    /\ Done(o)
    /\ UNCHANGED <<elapsed, pods, listed, requests, faults, observers>>

-----------------------------------------------------------------------------
\* Mutant: the pods are left alone.
StopOnlyRow(o, e) == Begin(o, "stop", e, "closing")

\* Mutant: off by one.
ExtendOnceMore(o, e) ==
    row[e].extends <= MaxExtendTimes /\ Begin(o, "extend", e, "extending")

(* StopEnv, PauseEnv, ResumeEnv, ExtendEnv, CreateSnapshot, GetEnvStatus:  *)
(* what each checks on the row it reads.                                   *)
Stop(o, e) == Begin(o, "stop", e, "deleting")
Pause(o, e) == row[e].status = "running" /\ Begin(o, "pause", e, "snapshotting")
Resume(o, e) == row[e].status = "paused" /\ Begin(o, "resume", e, "provisioning")
Extend(o, e) == row[e].extends < MaxExtendTimes /\ Begin(o, "extend", e, "extending")
Snapshot(o, e) == Begin(o, "snapshot", e, "snapshotting")
Poll(o, e) == Begin(o, "poll", e, "polling")

(* CreateSnapshot, for itself or inside PauseEnv: it needs the first pod,  *)
(* and stores the new URL in the copy it read.                             *)
SnapshotTaken(o) ==
    /\ At(o, "snapshotting")
    /\ pods[Env(o)][1] \in {"running", "terminating"}
    /\ Update(Env(o), op[o].copy)
    /\ IF op[o].kind = "pause" THEN Goto(o, "deleting") ELSE Done(o)
    /\ UNCHANGED <<elapsed, pods, listed, requests, faults, observers>>

(* The rate limit, the limit of ten, the tar or the upload refuses.        *)
SnapshotRefused(o) ==
    /\ At(o, "snapshotting")
    /\ Done(o)
    /\ UNCHANGED <<resources, listed, requests, faults, observers>>

(* deleteRuntimeInstances: errors are logged, deletion is asynchronous.    *)
DeleteInstance(o) ==
    /\ At(o, "deleting") /\ op[o].next \in Instances
    /\ LET e == Env(o)  i == op[o].next IN
        \/ /\ pods' = IF pods[e][i] \in {"pending", "running"} \cup Ended
                      THEN [pods EXCEPT ![e][i] = "terminating"] ELSE pods
           /\ UNCHANGED <<faults, marks>>
        \/ Fault /\ MarkEnv(e, "undeleted") /\ UNCHANGED pods
    /\ IF op[o].next = NumInstances THEN Goto(o, "closing") ELSE NextInstance(o)
    /\ UNCHANGED <<row, elapsed, listed, requests, granted, crowded>>

Close(o) ==
    /\ At(o, "closing")
    /\ IF op[o].kind = "pause"
       THEN Update(Env(o), [op[o].copy EXCEPT !.status = "paused"])
       ELSE UpdateStatus(Env(o), "terminated")
    /\ Done(o)
    /\ UNCHANGED <<elapsed, pods, listed, requests, faults, observers>>

(* UpdateExpireTime: the end is counted from the copy, the counter is not. *)
GrantExtension(o) ==
    /\ At(o, "extending")
    /\ row' = [row EXCEPT ![Env(o)].lease = op[o].copy.lease + 1,
                          ![Env(o)].extends = @ + 1]
    /\ granted' = [granted EXCEPT ![Env(o)] = @ + 1]
    /\ Done(o)
    /\ UNCHANGED <<elapsed, pods, listed, requests, faults, marks, crowded>>

(* syncEnvRuntimeStatus on a row whose preloaded instances are insts: the  *)
(* status the pods suggest, whatever the status of the row.  A pod that    *)
(* terminates still has the phase Running.                                 *)
Phase(e, i) ==
    CASE pods[e][i] \in {"none", "failed"}           -> "failed"
      [] pods[e][i] = "succeeded"                    -> "terminated"
      [] pods[e][i] = "pending"                      -> "creating"
      [] pods[e][i] \in {"running", "terminating"}   -> "running"

MapRuntimeStatuses(phases) ==
    CASE "failed" \in phases                                 -> "failed"
      [] "creating" \in phases /\ "failed" \notin phases     -> "creating"
      [] phases \subseteq {"running", "terminated"} /\ "running" \in phases -> "running"
      [] phases = {"terminated"}                             -> "terminated"

SyncedRow(e, r, insts) ==
    IF insts = {} THEN r
    ELSE [r EXCEPT !.status = MapRuntimeStatuses({Phase(e, i) : i \in insts})]

(* GetEnvStatus goes on: the row is rewritten when its status or the       *)
(* status of an instance (not kept here) changed.                          *)
PollAnswered(o) ==
    /\ At(o, "polling")
    /\ LET e == Env(o)  r == SyncedRow(e, op[o].copy, Instances) IN
        /\ \/ Update(e, r)
           \/ r = op[o].copy /\ UNCHANGED row
        /\ IF op[o].copy.status \in Charged THEN UNCHANGED marks
           ELSE MarkEnv(e, "stray poll")
    /\ Done(o)
    /\ UNCHANGED <<elapsed, pods, listed, requests, faults, granted, crowded>>

-----------------------------------------------------------------------------
\* Mutant: the comparison with NOW() is the wrong way round.
ListExpiredReversed(e) == row[e].status = "running" /\ ~Expired(e)

(* CleanupExpiredEnvs reads the expired rows, running ones only, then ends *)
(* one after the other as StopEnv does, whatever the rows have become.     *)
ListExpired(e) == row[e].status = "running" /\ Expired(e)

CleanupExpired ==
    /\ At(Scheduler, "free") /\ listed = {}
    /\ \E e \in Envs : ListExpired(e)
    /\ listed' = {e \in Envs : ListExpired(e)}
    /\ marks' = [e \in Envs |->
           IF e \in listed' /\ InFlight(e) # {} THEN marks[e] \cup {"overlap"} ELSE marks[e]]
    /\ UNCHANGED <<resources, op, requests, faults, granted, crowded>>

CleanupNext(e) ==
    /\ At(Scheduler, "free") /\ e \in listed
    /\ listed' = listed \ {e}
    /\ op' = [op EXCEPT ![Scheduler] = [kind |-> "cleanup", at |-> "deleting",
                                        env |-> e, next |-> 1, copy |-> row[e]]]
    /\ UNCHANGED <<resources, requests, faults, observers>>

(* SyncAllEnvStatus: ListByStatus does not preload the runtime instances.  *)
ListedInstances == {}

SyncAll ==
    /\ row' = [e \in Envs |->
                  IF row[e].status = "running"
                  THEN SyncedRow(e, row[e], ListedInstances) ELSE row[e]]
    /\ UNCHANGED <<elapsed, pods, op, listed, requests, faults, observers>>

-----------------------------------------------------------------------------
(* Kubernetes, and time.                                                   *)
PodRuns(e, i) ==
    /\ pods[e][i] = "pending"
    /\ SetPod(e, i, "running")
    /\ UNCHANGED <<row, elapsed, op, listed, requests, faults, observers>>

PodDies(e, i) ==
    /\ \/ pods[e][i] \in {"pending", "running"} /\ SetPod(e, i, "failed")
       \/ pods[e][i] = "running" /\ SetPod(e, i, "succeeded")
    /\ Fault
    /\ UNCHANGED <<row, elapsed, op, listed, requests, observers>>

PodGone(e, i) ==
    /\ pods[e][i] = "terminating"
    /\ SetPod(e, i, "none")
    /\ UNCHANGED <<row, elapsed, op, listed, requests, faults, observers>>

Expire(e) ==
    /\ row[e].status # "absent" /\ ~Expired(e)
    /\ elapsed' = [elapsed EXCEPT ![e] = row[e].lease + 1]
    /\ UNCHANGED <<row, pods, op, listed, requests, faults, observers>>

(* A database error ends an operation, or its context does: the client     *)
(* hangs up, the waiter or the clean-up job is out of time.                *)
Abandon(o) ==
    /\ ~At(o, "free")
    /\ Fault
    /\ Done(o)
    /\ listed' \in IF o = Scheduler THEN {listed, {}} ELSE {listed}
    /\ marks' = [e \in Envs |-> IF o \in InFlight(e) /\ e \notin listed'
                                THEN marks[e] \cup {"lost"} ELSE marks[e]]
    /\ UNCHANGED <<resources, requests, granted, crowded>>

Crash ==
    /\ Fault
    /\ op' = [o \in Actors |-> Free]
    /\ listed' = {}
    /\ marks' = [e \in Envs |-> IF InFlight(e) = {} THEN marks[e] ELSE marks[e] \cup {"lost"}]
    /\ UNCHANGED <<resources, requests, granted, crowded>>

-----------------------------------------------------------------------------
UserRequest(o) ==
    \/ \E u \in Users, x \in Experiments : Admit(o, u, x)
    \/ \E e \in Envs :
        \/ Stop(o, e) \/ Pause(o, e) \/ Resume(o, e)
        \/ Extend(o, e) \/ Snapshot(o, e) \/ Poll(o, e)

OpStep(o) ==
    \/ Insert(o) \/ StartInstance(o) \/ StartFails(o) \/ Provisioned(o)
    \/ InstanceReady(o) \/ InstanceNotReady(o) \/ WriteVerdict(o)
    \/ SnapshotTaken(o) \/ SnapshotRefused(o)
    \/ DeleteInstance(o) \/ Close(o)
    \/ GrantExtension(o) \/ PollAnswered(o)

Next ==
    \/ \E o \in Requests : UserRequest(o)
    \/ \E o \in Actors : OpStep(o) \/ Abandon(o)
    \/ \E e \in Envs : CleanupNext(e) \/ Expire(e)
    \/ CleanupExpired
    \/ \E e \in Envs, i \in Instances : PodRuns(e, i) \/ PodDies(e, i) \/ PodGone(e, i)
    \/ SyncAll \/ Crash

Spec == Init /\ [][Next]_vars

(***************************************************************************)
(* Operations that were started go on (every call and wait has a timeout), *)
(* the clean-up job runs every minute, and time passes.  No fairness on    *)
(* users, pods, the grace period or the synchronisation job is needed.     *)
(***************************************************************************)
Fairness ==
    /\ \A o \in Actors : WF_vars(OpStep(o))
    /\ \A e \in Envs : WF_vars(CleanupNext(e)) /\ WF_vars(Expire(e))
    /\ WF_vars(CleanupExpired)

FairSpec == Spec /\ Fairness

-----------------------------------------------------------------------------
(* Type correctness; only a loop over the instances that is over points    *)
(* behind the last one.                                                    *)
TypeOK ==
    /\ row \in [Envs -> Row]
    /\ elapsed \in [Envs -> Nat]
    /\ pods \in [Envs -> [Instances -> PodState]]
    /\ op \in [Actors -> [kind: Kind, at: Point, env: Envs \cup {None},
                          next: 1 .. NumInstances + 1, copy: Row]]
    /\ \A o \in Actors : op[o].next \in Instances \/ At(o, "provisioning")
    /\ listed \subseteq Envs
    /\ requests \in 0 .. MaxRequests
    /\ faults \in 0 .. MaxFaults
    /\ marks \in [Envs -> SUBSET Mark]
    /\ granted \in [Envs -> Nat]
    /\ crowded \in BOOLEAN

Unmarked(e, S) == marks[e] \cap S = {}
PodsOf(e) == {i \in Instances : pods[e][i] \notin {"none", "terminating"}}
LivePods(e) == {i \in PodsOf(e) : pods[e][i] # "succeeded"}

(* Between operations the row tells the truth about the pods, as long as   *)
(* operations on the environment were not interleaved: nothing is left of  *)
(* a terminated environment even after failed provisioning and lost        *)
(* operations, unless the API refused a deletion; a paused one has no pods *)
(* and a running one has them all.                                         *)
RowMatchesPods ==
    \A e \in Envs : InFlight(e) = {} =>
        CASE row[e].status = "terminated" ->
               Unmarked(e, {"overlap", "undeleted"}) => LivePods(e) = {}
          [] row[e].status = "paused" ->
               Unmarked(e, {"overlap", "undeleted", "unprovisioned", "lost"})
                  => LivePods(e) = {}
          [] row[e].status = "running" ->
               Unmarked(e, {"overlap", "lost", "stray poll"}) => PodsOf(e) = Instances
          [] OTHER -> TRUE

(* The quotas of users and schools, and one active environment per user    *)
(* and experiment, hold as long as admissions do not overlap and no row is *)
(* revived by a resume, a stale copy or a status request.                  *)
QuotaKept ==
    (~crowded /\ \A e \in Envs : Unmarked(e, {"overlap", "stray poll"})) =>
        /\ \A u \in Users, x \in Experiments :
              Cardinality({e \in EnvsOf(u) : row[e].exp = x /\ row[e].status \in Active}) <= 1
        /\ (\A e \in Envs : Unmarked(e, {"resumed"})) =>
              /\ Cardinality({e \in Envs : row[e].status \in Charged}) <= MaxSchoolEnvs
              /\ \A u \in Users :
                   Cardinality({e \in EnvsOf(u) : row[e].status \in Charged}) <= MaxUserEnvs

(* Without interleaving, an environment is extended at most MaxExtendTimes *)
(* times, every extension is counted and every extension adds its time.    *)
ExtensionsHonest ==
    \A e \in Envs : Unmarked(e, {"overlap"}) =>
        /\ row[e].extends = granted[e] /\ row[e].lease = granted[e]
        /\ granted[e] <= MaxExtendTimes

(* An environment does not stay "creating": the waiter, or CreateEnv when  *)
(* provisioning fails, writes a verdict, unless that operation was lost or *)
(* a status request wrote "creating" over the verdict.                     *)
CreatingSettles ==
    \A e \in Envs :
        row[e].status = "creating" ~>
            \/ row[e].status # "creating"
            \/ ~Unmarked(e, {"overlap", "lost", "stray poll"})

(* A running environment whose time is over is ended or extended, whatever *)
(* crashes, lost operations and interleavings there are.                   *)
ExpiredIsReaped ==
    \A e \in Envs :
        row[e].status = "running" /\ Expired(e) ~>
            row[e].status # "running" \/ ~Expired(e)
-----------------------------------------------------------------------------
(* config.go, max_user_envs: "the maximum number of concurrent             *)
(* environments of a user", here for one request at a time and without     *)
(* status requests on stopped environments.  ResumeEnv does not count.     *)
UserQuota ==
    (~crowded /\ \A e \in Envs : Unmarked(e, {"overlap", "stray poll"})) =>
        \A u \in Users :
            Cardinality({e \in EnvsOf(u) : row[e].status \in Charged}) <= MaxUserEnvs

(* scheduler_service.go: expired environments are cleaned up every minute. *)
(* The job lists running rows only.                                        *)
ExpiredReleasesPods ==
    \A e \in Envs :
        LivePods(e) # {} /\ Expired(e) ~> LivePods(e) = {} \/ ~Expired(e)
=============================================================================
