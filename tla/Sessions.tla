------------------------------ MODULE Sessions ------------------------------
(***************************************************************************)
(* Collaboration mode of the experiment environments: several users work   *)
(* in one session, each with an environment row of their own, all of them  *)
(* on the pods of the environment that founded the session                 *)
(* (internal/service/env_manager_service.go, the session queries of        *)
(* internal/repository/experiment_repository.go, and the join and leave    *)
(* requests of internal/service/experiment_service.go).                    *)
(*                                                                         *)
(* One experiment.  An environment and a session are named by the place of *)
(* their row.  The pods of a runtime come and go together, under the name  *)
(* of the environment that created them.  Quotas, leases and snapshots are *)
(* those of EnvLifecycle and left out here: an environment may be past its *)
(* time at any moment.                                                     *)
(***************************************************************************)
EXTENDS Naturals, Sequences, FiniteSets, FiniteSetsExt

CONSTANTS
    Users,
    Actors,       \* requests, jobs and waiters that may be in flight at once
    Nobody,
    MaxMembers,   \* blueprint.Collaboration.MaxMembers
    MaxEnvs,      \* bound: environments created
    MaxCalls,     \* bound: requests and expiries
    MaxFaults     \* bound: pods that fail to start, or to be deleted

SessionAssumption ==
    /\ {MaxMembers, MaxEnvs} \subseteq Nat \ {0}
    /\ {MaxCalls, MaxFaults} \subseteq Nat
    /\ IsFiniteSet(Users) /\ Nobody \notin Users

VARIABLES
    envs,           \* experiment_envs
    sessions,       \* experiment_sessions and experiment_session_members
    pods,           \* the runtimes with pods in the cluster
    actor,          \* per actor: where it is and what it has read
    calls, faults,  \* what is used of MaxCalls and MaxFaults
    \* observers
    crossed,        \* sessions in which an operation that ends an environment and
                    \* another operation were in flight at once
    crowded,        \* sessions that two newcomers took a seat in at once, or that
                    \* a member who had left joined again
    upset           \* sessions that a pause, an expiry, or a late stop or poll of
                    \* a former member touched

sessionObservers == <<crossed, crowded, upset>>
sessionVars == <<envs, sessions, pods, actor, calls, faults, sessionObservers>>

\* model.ActiveExperimentEnvStatuses; sessions use the same statuses.
ActiveStatuses == {"creating", "running", "paused"}
Status == ActiveStatuses \cup {"failed", "terminated"}

\* runtime: the environment whose pods this one names.
Env == [user : Users, session : 1 .. MaxEnvs, runtime : 1 .. MaxEnvs, status : Status]
Session == [status : Status, primary : 1 .. MaxEnvs, count : Nat,
            member : [Users -> {"none", "joined", "left"}]]

Points == {"idle", "attaching", "founding", "joining", "provisioning", "waiting",
           "detaching", "leaving", "deleting", "closing", "pausing", "parking",
           "reviving", "rejoining", "writing"}

Then == {"idle", "provisioning", "waiting"}
Role == [at : Points, env : 0 .. MaxEnvs, session : 0 .. MaxEnvs,
         user : Users \cup {Nobody}, count : Nat, primary : 0 .. MaxEnvs,
         status : Status, then : Then]

\* count, primary, status: what UpdateCounters will write; then: what follows it.
Idle == [at |-> "idle", env |-> 0, session |-> 0, user |-> Nobody,
         count |-> 0, primary |-> 0, status |-> "creating", then |-> "idle"]

SessionInit ==
    /\ envs = <<>>
    /\ sessions = <<>>
    /\ pods = {}
    /\ actor = [a \in Actors |-> Idle]
    /\ calls = 0
    /\ faults = 0
    /\ crossed = {}
    /\ crowded = {}
    /\ upset = {}

-----------------------------------------------------------------------------
Active(i) == envs[i].status \in ActiveStatuses
ActiveOf(s) == {i \in DOMAIN envs : envs[i].session = s /\ Active(i)}
Joined(s) == {u \in Users : sessions[s].member[u] = "joined"}

Ending == {"detaching", "leaving", "deleting", "closing", "pausing", "parking"}
Seating == {"attaching", "joining", "rejoining"}

Working(a) == actor[a].at \notin {"idle", "waiting"}
WorkingIn(s) == {a \in Actors : Working(a) /\ actor[a].session = s}

(* A request of actor a that works on session s and goes to point at; or a *)
(* waiter that goes on.  What it meets there is observed.                  *)
Observe(a, s, at) ==
    LET others == WorkingIn(s) \ {a}
        Meets(points) == others # {} /\
            (at \in points \/ \E b \in others : actor[b].at \in points \cup {"writing"})
    IN  /\ crossed' = IF s # 0 /\ Meets(Ending) THEN crossed \cup {s} ELSE crossed
        /\ crowded' = IF s # 0 /\ Meets(Seating) THEN crowded \cup {s} ELSE crowded

Enter(a, s, at) ==
    /\ actor[a].at = "idle"
    /\ calls < MaxCalls /\ calls' = calls + 1
    /\ Observe(a, s, at)

Upset(s, when) == upset' = IF when THEN upset \cup {s} ELSE upset

GoTo(a, at) == actor' = [actor EXCEPT ![a].at = at]
Leave(a) == actor' = [actor EXCEPT ![a] = Idle]
Begin(a, i, at) ==
    actor' = [actor EXCEPT ![a] = [Idle EXCEPT
        !.at = at, !.env = i, !.session = envs[i].session, !.user = envs[i].user]]

\* What is about to be written into the session row: members as in s, and so on.
Writing(a, count, primary, status, then) ==
    actor' = [actor EXCEPT ![a].at = "writing", ![a].count = count,
                           ![a].primary = primary, ![a].status = status, ![a].then = then]

(* syncSessionStatus: members are counted, the primary is kept.            *)
SyncSession(a, status, then) ==
    LET s == actor[a].session
    IN  Writing(a, Cardinality(Joined(s)), sessions[s].primary, status, then)

(* UpdateCounters, in a statement of its own after the read.               *)
WriteSession(a) ==
    /\ actor[a].at = "writing"
    /\ sessions' = [sessions EXCEPT ![actor[a].session] =
           [@ EXCEPT !.count = actor[a].count, !.primary = actor[a].primary,
                     !.status = actor[a].status]]
    /\ IF actor[a].then = "idle" THEN Leave(a)
       ELSE actor' = [actor EXCEPT ![a] = [Idle EXCEPT !.at = actor[a].then,
                          !.env = actor[a].env, !.session = actor[a].session]]
    /\ UNCHANGED <<envs, pods, calls, faults, sessionObservers>>

SetStatus(i, status) == envs' = [envs EXCEPT ![i].status = status]

-----------------------------------------------------------------------------
\* GetReusableByExperiment: the oldest active session; 0 for none.
Reusable ==
    LET active == {s \in DOMAIN sessions : sessions[s].status \in ActiveStatuses}
    IN  IF active = {} THEN 0 ELSE Min(active)

\* Mutant: off by one, a full session takes one more.
HasRoomForOneMore(s) == sessions[s].count <= MaxMembers

HasRoom(s) == sessions[s].count < MaxMembers

(* CreateEnv: a user with an active environment gets that one; otherwise   *)
(* the oldest session is joined if it has room, or a new one founded.      *)
Create(a, u) ==
    /\ ~ \E i \in DOMAIN envs : envs[i].user = u /\ Active(i)
    /\ LET s == IF Reusable # 0 /\ HasRoom(Reusable) THEN Reusable ELSE 0
           at == IF s # 0 THEN "attaching" ELSE "founding"
       IN  /\ Enter(a, s, at)
           /\ actor' = [actor EXCEPT ![a] = [Idle EXCEPT
                  !.at = at, !.session = s, !.user = u]]
    /\ UNCHANGED <<envs, sessions, pods, faults, upset>>

(* attachToSharedSession: the row copies the pods and the status of the    *)
(* primary environment, whatever that status is.                           *)
Attach(a) ==
    /\ actor[a].at = "attaching"
    /\ Len(envs) < MaxEnvs
    /\ LET p == envs[sessions[actor[a].session].primary]
       IN  envs' = Append(envs, [p EXCEPT !.user = actor[a].user,
                                          !.session = actor[a].session])
    /\ actor' = [actor EXCEPT ![a].at = "joining", ![a].env = Len(envs) + 1]
    /\ UNCHANGED <<sessions, pods, calls, faults, sessionObservers>>

(* ensureSessionForEnv and the row of the founding environment.            *)
Found(a) ==
    /\ actor[a].at = "founding"
    /\ Len(envs) < MaxEnvs
    /\ LET i == Len(envs) + 1
           s == Len(sessions) + 1
       IN  /\ sessions' = Append(sessions, [status |-> "creating", primary |-> i,
                   count |-> 0, member |-> [u \in Users |-> "none"]])
           /\ envs' = Append(envs, [user |-> actor[a].user, session |-> s,
                                    runtime |-> i, status |-> "creating"])
           /\ actor' = [actor EXCEPT ![a] = [@ EXCEPT !.at = "joining", !.env = i,
                            !.session = s, !.then = "provisioning"]]
    /\ UNCHANGED <<pods, calls, faults, sessionObservers>>

(* bindEnvToSession: the user is a member, members are counted.            *)
Bind(a) ==
    /\ actor[a].at = "joining"
    /\ LET s == actor[a].session
           members == Joined(s) \cup {actor[a].user}
       IN  /\ sessions' = [sessions EXCEPT ![s].member[actor[a].user] = "joined"]
           /\ Writing(a, Cardinality(members), sessions[s].primary,
                      envs[actor[a].env].status, actor[a].then)
    /\ UNCHANGED <<envs, pods, calls, faults, sessionObservers>>

(* createRuntimeInstances; a failure marks the row and leaves the session. *)
Provision(a) ==
    /\ actor[a].at = "provisioning"
    /\ \/ /\ pods' = pods \cup {actor[a].env}
          /\ GoTo(a, "waiting")
          /\ UNCHANGED <<envs, faults>>
       \/ /\ faults < MaxFaults /\ faults' = faults + 1
          /\ SetStatus(actor[a].env, "failed")
          /\ Leave(a)
          /\ UNCHANGED pods
    /\ UNCHANGED <<sessions, calls, sessionObservers>>

(* waitForRuntimeReady, long after: the row is saved whatever became of it *)
(* since, and the rows of those who joined meanwhile are not touched.      *)
Ready(a) ==
    /\ actor[a].at = "waiting"
    /\ Observe(a, actor[a].session, "writing")
    /\ LET i == actor[a].env
       IN  \/ /\ envs[i].runtime \in pods
              /\ SetStatus(i, "running")
              /\ SyncSession(a, "running", "idle")
              /\ Upset(actor[a].session, ~Active(i))
              /\ UNCHANGED faults
           \/ /\ IF envs[i].runtime \in pods
                 THEN faults < MaxFaults /\ faults' = faults + 1
                 ELSE UNCHANGED faults
              /\ SetStatus(i, "failed")
              /\ Leave(a)
              /\ UNCHANGED upset
    /\ UNCHANGED <<sessions, pods, calls>>

-----------------------------------------------------------------------------
\* Mutant: off by one, one other active environment does not count.
TwoOthersActive(i) == Cardinality(ActiveOf(envs[i].session)) > 2

OthersActive(i) == Cardinality(ActiveOf(envs[i].session)) > 1

(* StopEnv looks at no status: a member who has already left may stop      *)
(* again, and is then taken for the last one while one other is active.    *)
StopEnv(a, i) ==
    /\ LET at == IF OthersActive(i) THEN "detaching" ELSE "deleting"
       IN  Enter(a, envs[i].session, at) /\ Begin(a, i, at)
    /\ Upset(envs[i].session, ~Active(i))
    /\ UNCHANGED <<envs, sessions, pods, faults>>

Detach(a) ==
    /\ actor[a].at = "detaching"
    /\ SetStatus(actor[a].env, "terminated")
    /\ GoTo(a, "leaving")
    /\ UNCHANGED <<sessions, pods, calls, faults, sessionObservers>>

\* Mutant: the primary environment stays the primary one.
SamePrimary(s, i) == sessions[s].primary

Successor(s, i) ==
    LET others == ActiveOf(s) \ {i}
    IN  IF sessions[s].primary = i /\ others # {} THEN Min(others)
        ELSE sessions[s].primary

(* handleSessionDetach: the member leaves, the oldest active environment   *)
(* follows as the primary one, and the session counts as running.          *)
Depart(a) ==
    /\ actor[a].at = "leaving"
    /\ LET s == actor[a].session
           u == actor[a].user
           members == Joined(s) \ {u}
       IN  /\ sessions' = [sessions EXCEPT ![s].member[u] =
                  IF @ = "none" THEN @ ELSE "left"]
           /\ Writing(a, IF members = {} THEN Cardinality(ActiveOf(s))
                         ELSE Cardinality(members),
                      Successor(s, actor[a].env), "running", "idle")
    /\ UNCHANGED <<envs, pods, calls, faults, sessionObservers>>

(* CleanupExpiredEnvs: every running environment past its time is          *)
(* terminated, members or not.                                             *)
Expire(a, i) ==
    /\ envs[i].status = "running"
    /\ Enter(a, envs[i].session, "deleting") /\ Begin(a, i, "deleting")
    /\ Upset(envs[i].session, OthersActive(i))
    /\ UNCHANGED <<envs, sessions, pods, faults>>

(* deleteRuntimeInstances: errors are logged.                              *)
DeletePods(a, next) ==
    /\ \/ pods' = pods \ {envs[actor[a].env].runtime} /\ UNCHANGED faults
       \/ faults < MaxFaults /\ faults' = faults + 1 /\ UNCHANGED pods
    /\ GoTo(a, next)
    /\ UNCHANGED <<envs, sessions, calls, sessionObservers>>

(* terminateEnv.                                                           *)
Delete(a) == actor[a].at = "deleting" /\ DeletePods(a, "closing")

Close(a) ==
    /\ actor[a].at = "closing"
    /\ SetStatus(actor[a].env, "terminated")
    /\ SyncSession(a, "terminated", "idle")
    /\ UNCHANGED <<sessions, pods, calls, faults, sessionObservers>>

-----------------------------------------------------------------------------
(* PauseEnv deletes the shared pods; its snapshot needs them to be there.  *)
PauseEnv(a, i) ==
    /\ envs[i].status = "running" /\ envs[i].runtime \in pods
    /\ Enter(a, envs[i].session, "pausing") /\ Begin(a, i, "pausing")
    /\ Upset(envs[i].session, OthersActive(i))
    /\ UNCHANGED <<envs, sessions, pods, faults>>

PauseDeletes(a) == actor[a].at = "pausing" /\ DeletePods(a, "parking")

Park(a) ==
    /\ actor[a].at = "parking"
    /\ SetStatus(actor[a].env, "paused")
    /\ SyncSession(a, "paused", "idle")
    /\ UNCHANGED <<sessions, pods, calls, faults, sessionObservers>>

(* ResumeEnv: pods of that name must not be there.                         *)
ResumeEnv(a, i) ==
    /\ envs[i].status = "paused" /\ envs[i].runtime \notin pods
    /\ pods' = pods \cup {envs[i].runtime}
    /\ Enter(a, envs[i].session, "reviving") /\ Begin(a, i, "reviving")
    /\ UNCHANGED <<envs, sessions, faults, upset>>

Revive(a) ==
    /\ actor[a].at = "reviving"
    /\ SetStatus(actor[a].env, "creating")
    /\ SyncSession(a, "creating", "waiting")
    /\ UNCHANGED <<sessions, pods, calls, faults, sessionObservers>>

(* GetEnvStatus: syncEnvRuntimeStatus writes what the pods say into the    *)
(* row, also into that of a former member.  Pods that are not ready yet    *)
(* read as creating.                                                       *)
Poll(i) ==
    /\ calls < MaxCalls /\ calls' = calls + 1
    /\ \E status \in {"creating", "running"} :
           SetStatus(i, IF envs[i].runtime \in pods THEN status ELSE "failed")
    /\ Upset(envs[i].session, envs[i].status \notin {"creating", "running"})
    /\ crossed' = IF WorkingIn(envs[i].session) = {} THEN crossed
                  ELSE crossed \cup {envs[i].session}
    /\ UNCHANGED <<sessions, pods, actor, faults, crowded>>

(* updateCurrentSessionJoinStatus: nobody looks at MaxMembers.             *)
ChangeJoin(a, s, u, status) ==
    /\ sessions[s].member[u] \notin {"none", status}
    /\ sessions' = [sessions EXCEPT ![s].member[u] = status]
    /\ actor' = [actor EXCEPT ![a] = [Idle EXCEPT !.at = "rejoining", !.session = s]]
    /\ actor[a].at = "idle"
    /\ calls < MaxCalls /\ calls' = calls + 1
    /\ crossed' = IF WorkingIn(s) = {} THEN crossed ELSE crossed \cup {s}
    /\ crowded' = IF status = "left" /\ WorkingIn(s) = {} THEN crowded
                  ELSE crowded \cup {s}
    /\ UNCHANGED <<envs, pods, faults, upset>>

Recount(a) ==
    /\ actor[a].at = "rejoining"
    /\ SyncSession(a, sessions[actor[a].session].status, "idle")
    /\ UNCHANGED <<envs, sessions, pods, calls, faults, sessionObservers>>

-----------------------------------------------------------------------------
ActorStep(a) ==
    \/ Attach(a) \/ Found(a) \/ Bind(a) \/ Provision(a) \/ Ready(a)
    \/ Detach(a) \/ Depart(a) \/ Delete(a) \/ Close(a)
    \/ PauseDeletes(a) \/ Park(a) \/ Revive(a) \/ Recount(a)
    \/ WriteSession(a)

SessionRequest(a) ==
    \/ \E u \in Users : Create(a, u)
    \/ \E i \in DOMAIN envs : StopEnv(a, i) \/ Expire(a, i) \/ PauseEnv(a, i) \/ ResumeEnv(a, i)
    \/ \E s \in DOMAIN sessions, u \in Users, status \in {"joined", "left"} :
           ChangeJoin(a, s, u, status)

SessionNext ==
    \/ \E a \in Actors : ActorStep(a) \/ SessionRequest(a)
    \/ \E i \in DOMAIN envs : Poll(i)

SessionSpec == SessionInit /\ [][SessionNext]_sessionVars

-----------------------------------------------------------------------------
(* Type correctness.                                                       *)
SessionTypeOK ==
    /\ envs \in Seq(Env) /\ Len(envs) <= MaxEnvs
    /\ sessions \in Seq(Session) /\ Len(sessions) <= Len(envs)
    /\ pods \subseteq DOMAIN envs
    /\ actor \in [Actors -> Role]
    /\ \A a \in Actors :
        /\ {actor[a].env, actor[a].primary} \subseteq DOMAIN envs \cup {0}
        /\ actor[a].session \in DOMAIN sessions \cup {0}
    /\ calls \in 0 .. MaxCalls
    /\ faults \in 0 .. MaxFaults
    /\ crossed \cup crowded \cup upset \subseteq DOMAIN sessions

Quiet(s) == WorkingIn(s) = {}
Undisturbed == DOMAIN sessions \ (crossed \cup upset)

(* Members come and go without taking the pods from each other, and the    *)
(* last one to leave deletes them: while nobody is at work on a session, a *)
(* running environment has its pods, the pods belong to an environment     *)
(* that is not terminated, and the primary environment, which newcomers    *)
(* attach to, is not a terminated one either.  What breaks it is an        *)
(* operation that ends an environment at the same time as another one, a   *)
(* pause or an expiry of one member under the others, and late requests of *)
(* former members.                                                         *)
MembersKeepRuntime ==
    /\ \A i \in DOMAIN envs :
        envs[i].session \in Undisturbed /\ Quiet(envs[i].session) =>
            /\ envs[i].status = "running" => envs[i].runtime \in pods
            /\ envs[i].runtime \in pods =>
                   faults > 0 \/ \E j \in DOMAIN envs :
                       envs[j].runtime = envs[i].runtime /\ envs[j].status # "terminated"
    /\ \A s \in Undisturbed :
        Quiet(s) /\ sessions[s].status \in ActiveStatuses =>
            envs[sessions[s].primary].status # "terminated"

(* A session takes no more members than its size and counts them right;    *)
(* newcomers who take a seat at once, and a member who comes back, are     *)
(* what breaks it.                                                         *)
SeatsRespected ==
    \A s \in DOMAIN sessions \ (crossed \cup crowded) :
        /\ Cardinality(Joined(s)) <= MaxMembers
        /\ sessions[s].count = Cardinality(Joined(s)) \/ Joined(s) = {} \/ ~Quiet(s)
=============================================================================
