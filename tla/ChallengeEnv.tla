---------------------------- MODULE ChallengeEnv ----------------------------
(***************************************************************************)
(* The environment of one participant for one challenge of a jeopardy      *)
(* contest: internal/service/contest_env_service.go, reached through       *)
(* contest_runtime_facade_service.go.  Three requests (start, status,      *)
(* stop) and the goroutine that provisions the pods work on the same row   *)
(* of challenge_envs without a transaction, and each of them writes back   *)
(* the whole row it read (gorm's Save).                                    *)
(*                                                                         *)
(* An environment is named by the place of its row.  Its main pod, its     *)
(* service pods and its fork pod come and go together; the flag, the URLs  *)
(* and the messages are left out.                                          *)
(***************************************************************************)
EXTENDS Naturals, Sequences, FiniteSets, FiniteSetsExt

CONSTANTS
    Requests,     \* requests of the participant that may be in flight at once
    MaxEnvs,      \* bound: environments created
    MaxFaults     \* bound: provisioners cut off plus deletions that fail

ChallengeAssumption ==
    /\ MaxEnvs \in Nat \ {0}
    /\ MaxFaults \in Nat

VARIABLES
    ongoing,      \* ensureContestOngoing lets a start through
    rows,         \* the table of challenge environments
    pods,         \* the environments with pods in the cluster
    provisioner,  \* per environment: provisionChallengeEnv
    request,      \* per request: where it is and which environment it read
    crossed,      \* observer: environments a stop read or wrote while the
                  \* provisioner was between its check and its update
    lost,         \* observer: environments whose provisioner was cut off, or
                  \* whose pods a request failed to delete
    overlapped,   \* observer: two requests were in flight at once
    faults        \* what is used of MaxFaults

observers == <<crossed, lost, overlapped, faults>>
vars == <<ongoing, rows, pods, provisioner, request, observers>>

\* hasPod: PodName is set; lapsed: ExpiresAt is set and has passed.
Row == [status : {"creating", "running", "failed", "terminated", "expired"},
        hasPod : BOOLEAN, lapsed : BOOLEAN]

Creating == [status |-> "creating", hasPod |-> FALSE, lapsed |-> FALSE]

\* model.ActiveChallengeEnvStatuses
ActiveStatuses == {"creating", "running", "failed"}

Request == [at : {"idle", "replacing", "closing", "creating", "expiring",
                  "stopping", "terminating"},
            env : 0 .. MaxEnvs]
Idle == [at |-> "idle", env |-> 0]

Init ==
    /\ ongoing \in BOOLEAN
    /\ rows = <<>>
    /\ pods = {}
    /\ provisioner = <<>>
    /\ request = [r \in Requests |-> Idle]
    /\ crossed = {}
    /\ lost = {}
    /\ overlapped = FALSE
    /\ faults = 0

-----------------------------------------------------------------------------
(* GetActiveByUserAndChallenge: the newest active row; 0 for none.         *)
ActiveEnv ==
    LET active == {i \in DOMAIN rows : rows[i].status \in ActiveStatuses}
    IN  IF active = {} THEN 0 ELSE Max(active)

GoTo(r, at, env) == request' = [request EXCEPT ![r] = [at |-> at, env |-> env]]

Enter(r) ==
    /\ request[r].at = "idle"
    /\ overlapped' = (overlapped \/ \E other \in Requests \ {r} : request[other].at # "idle")

SaveStatus(i, status) == rows' = [rows EXCEPT ![i].status = status]

(* cleanupPersistedChallengeEnv: errors are dropped.                       *)
DeletePods(i) ==
    \/ pods' = pods \ {i} /\ UNCHANGED <<lost, faults>>
    \/ /\ faults < MaxFaults /\ faults' = faults + 1
       /\ lost' = lost \cup {i}
       /\ UNCHANGED pods

-----------------------------------------------------------------------------
(* StartChallengeEnv: a live or a growing environment is handed back, any  *)
(* other active one is cleaned up and terminated first.                    *)
StartReads(r) ==
    /\ ongoing
    /\ Enter(r)
    /\ LET i == ActiveEnv
       IN  IF i = 0 THEN GoTo(r, "creating", 0)
           ELSE IF \/ rows[i].status = "running" /\ ~rows[i].lapsed
                   \/ rows[i].status = "creating"
           THEN UNCHANGED request
           ELSE GoTo(r, IF rows[i].hasPod THEN "replacing" ELSE "closing", i)
    /\ UNCHANGED <<ongoing, rows, pods, provisioner, crossed, lost, faults>>

StartCleansUp(r) ==
    /\ request[r].at = "replacing"
    /\ DeletePods(request[r].env)
    /\ GoTo(r, "closing", request[r].env)
    /\ UNCHANGED <<ongoing, rows, provisioner, crossed, overlapped>>

StartTerminates(r) ==
    /\ request[r].at = "closing"
    /\ SaveStatus(request[r].env, "terminated")
    /\ GoTo(r, "creating", 0)
    /\ UNCHANGED <<ongoing, pods, provisioner, observers>>

StartCreates(r) ==
    /\ request[r].at = "creating"
    /\ Len(rows) < MaxEnvs
    /\ rows' = Append(rows, Creating)
    /\ provisioner' = Append(provisioner, "new")
    /\ GoTo(r, "idle", 0)
    /\ UNCHANGED <<ongoing, pods, observers>>

(* GetChallengeEnvStatus: an environment past its time becomes "expired",  *)
(* which is not an active status; its pods stay.                           *)
StatusReads(r) ==
    /\ Enter(r)
    /\ LET i == ActiveEnv
       IN  IF i # 0 /\ rows[i].lapsed THEN GoTo(r, "expiring", i) ELSE UNCHANGED request
    /\ UNCHANGED <<ongoing, rows, pods, provisioner, crossed, lost, faults>>

StatusExpires(r) ==
    /\ request[r].at = "expiring"
    /\ SaveStatus(request[r].env, "expired")
    /\ GoTo(r, "idle", 0)
    /\ UNCHANGED <<ongoing, pods, provisioner, observers>>

(* StopChallengeEnv: pods are only deleted when the row names them; a stop *)
(* during the provisioning leaves them to the provisioner.                 *)
StopReads(r) ==
    /\ Enter(r)
    /\ LET i == ActiveEnv
       IN  /\ IF i = 0 THEN UNCHANGED request
              ELSE GoTo(r, IF rows[i].hasPod THEN "stopping" ELSE "terminating", i)
           /\ crossed' = IF i # 0 /\ provisioner[i] = "updating"
                         THEN crossed \cup {i} ELSE crossed
    /\ UNCHANGED <<ongoing, rows, pods, provisioner, lost, faults>>

StopCleansUp(r) ==
    /\ request[r].at = "stopping"
    /\ DeletePods(request[r].env)
    /\ GoTo(r, "terminating", request[r].env)
    /\ UNCHANGED <<ongoing, rows, provisioner, crossed, overlapped>>

StopTerminates(r) ==
    /\ request[r].at = "terminating"
    /\ SaveStatus(request[r].env, "terminated")
    /\ GoTo(r, "idle", 0)
    /\ UNCHANGED <<ongoing, pods, provisioner, observers>>

-----------------------------------------------------------------------------
Provision(i, from, to) ==
    /\ provisioner[i] = from
    /\ provisioner' = [provisioner EXCEPT ![i] = to]

(* provisionChallengeEnv: the pods are created and waited for.             *)
CreatePods(i) ==
    /\ Provision(i, "new", "booting")
    /\ pods' = pods \cup {i}
    /\ UNCHANGED <<ongoing, rows, request, observers>>

PodsReady(i) ==
    /\ Provision(i, "booting", "checking")
    /\ UNCHANGED <<ongoing, rows, pods, request, observers>>

\* Mutant: the failure is not written into the row.
PodsFailUnmarked(i) ==
    /\ Provision(i, "booting", "done")
    /\ pods' = pods \ {i}
    /\ UNCHANGED <<ongoing, rows, request, observers>>

(* A pod that does not start, or a workspace that cannot be seeded.        *)
PodsFail(i) ==
    /\ Provision(i, "booting", "failing")
    /\ pods' = pods \ {i}
    /\ UNCHANGED <<ongoing, rows, request, observers>>

\* Mutant: the status is not read again.
CheckNothing(i) ==
    /\ Provision(i, "checking", "updating")
    /\ crossed' = IF \E r \in Requests : request[r].env = i /\ request[r].at = "terminating"
                  THEN crossed \cup {i} ELSE crossed
    /\ UNCHANGED <<ongoing, rows, pods, request, lost, overlapped, faults>>

(* The row is read again: a stop since then is honoured.                   *)
Check(i) ==
    /\ Provision(i, "checking",
                 IF rows[i].status = "terminated" THEN "cleaning" ELSE "updating")
    /\ crossed' = IF /\ rows[i].status # "terminated"
                     /\ \E r \in Requests :
                            request[r].env = i /\ request[r].at = "terminating"
                  THEN crossed \cup {i} ELSE crossed
    /\ UNCHANGED <<ongoing, rows, pods, request, lost, overlapped, faults>>

CleanUpStopped(i) ==
    /\ Provision(i, "cleaning", "done")
    /\ pods' = pods \ {i}
    /\ UNCHANGED <<ongoing, rows, request, observers>>

(* The row the goroutine holds is saved, whatever the table has by now.    *)
UpdateRunning(i) ==
    /\ Provision(i, "updating", "done")
    /\ rows' = [rows EXCEPT ![i] = [status |-> "running", hasPod |-> TRUE, lapsed |-> FALSE]]
    /\ UNCHANGED <<ongoing, pods, request, observers>>

(* markChallengeEnvFailed: over a stop, too; the row is active again.      *)
MarkFailed(i) ==
    /\ Provision(i, "failing", "done")
    /\ rows' = [rows EXCEPT ![i] = [Creating EXCEPT !.status = "failed"]]
    /\ UNCHANGED <<ongoing, pods, request, observers>>

(* The ten minutes of the goroutine are over, after which every call with  *)
(* its context fails; or the process restarts.  The row stays creating.    *)
CutOff(i) ==
    /\ provisioner[i] # "done"
    /\ faults < MaxFaults /\ faults' = faults + 1
    /\ provisioner' = [provisioner EXCEPT ![i] = "done"]
    /\ lost' = lost \cup {i}
    /\ UNCHANGED <<ongoing, rows, pods, request, crossed, overlapped>>

-----------------------------------------------------------------------------
(* ExpiresAt passes.                                                       *)
Lapse(i) ==
    /\ rows[i].status = "running" /\ ~rows[i].lapsed
    /\ rows' = [rows EXCEPT ![i].lapsed = TRUE]
    /\ UNCHANGED <<ongoing, pods, provisioner, request, observers>>

ContestEnds ==
    /\ ongoing
    /\ ongoing' = FALSE
    /\ UNCHANGED <<rows, pods, provisioner, request, observers>>

StartStep(r) ==
    \/ StartCleansUp(r)
    \/ StartTerminates(r)
    \/ StartCreates(r)

StopStep(r) ==
    \/ StopCleansUp(r)
    \/ StopTerminates(r)

ProvisionStep(i) ==
    \/ CreatePods(i)
    \/ PodsReady(i)
    \/ PodsFail(i)
    \/ Check(i)
    \/ CleanUpStopped(i)
    \/ UpdateRunning(i)
    \/ MarkFailed(i)

Next ==
    \/ ContestEnds
    \/ \E r \in Requests :
        \/ StartReads(r) \/ StartStep(r)
        \/ StatusReads(r) \/ StatusExpires(r)
        \/ StopReads(r) \/ StopStep(r)
    \/ \E i \in DOMAIN rows : ProvisionStep(i) \/ CutOff(i) \/ Lapse(i)

Spec == Init /\ [][Next]_vars

(* The goroutine of an environment runs, and its waits have deadlines.     *)
Fairness == \A i \in 1 .. MaxEnvs : WF_vars(i \in DOMAIN rows /\ ProvisionStep(i))

FairSpec == Spec /\ Fairness

-----------------------------------------------------------------------------
(* Type correctness.                                                       *)
TypeOK ==
    /\ ongoing \in BOOLEAN
    /\ rows \in Seq(Row) /\ Len(rows) <= MaxEnvs
    /\ pods \cup crossed \cup lost \subseteq DOMAIN rows
    /\ provisioner \in Seq({"new", "booting", "checking", "updating", "cleaning",
                            "failing", "done"})
    /\ Len(provisioner) = Len(rows)
    /\ request \in [Requests -> Request]
    /\ \A r \in Requests : request[r].env \in DOMAIN rows \cup {0}
    /\ overlapped \in BOOLEAN
    /\ faults \in 0 .. MaxFaults

WithStatus(status) == {i \in DOMAIN rows : rows[i].status = status}

(* Pods belong to a running row, or the provisioner still has them in      *)
(* hand.  Otherwise the status request let the environment expire, a stop  *)
(* met the provisioner between its check and its update, or something      *)
(* failed: no other order of the requests leaves pods behind.  And one     *)
(* environment at most is creating or running, unless two requests         *)
(* overlapped or a stop was crossed.                                       *)
ChallengePodsAccounted ==
    /\ \A i \in pods :
        \/ rows[i].status \in {"running", "expired"}
        \/ provisioner[i] # "done"
        \/ i \in crossed \cup lost
    /\ Cardinality(WithStatus("creating") \cup WithStatus("running")) <= 1
        \/ overlapped \/ crossed # {}

(* No row stays at creating for ever, and what was stopped while its pods  *)
(* came up loses them -- if the provisioner lives and the stop did not     *)
(* cross its update.                                                       *)
ChallengeSettles ==
    <>[](/\ WithStatus("creating") \subseteq lost
         /\ pods \cap WithStatus("terminated") \subseteq lost \cup crossed)
=============================================================================
