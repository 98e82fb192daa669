------------------------------ MODULE TaskQueue ------------------------------
(***************************************************************************)
(* The database task queue of the backend, internal/pkg/task/task.go: a    *)
(* table async_tasks, a pool of worker goroutines that claim pending rows, *)
(* run the registered handler and write the outcome back, a checker that   *)
(* puts overdue running rows back to pending, and the clean-up of old      *)
(* rows.  Tasks are numbered in the order of created_at, which is the      *)
(* order in which the workers look for work.                               *)
(*                                                                         *)
(* A worker keeps the row it claimed in memory: its retry counter is the   *)
(* one read by the claim, and every outcome is written by primary key      *)
(* alone, whatever the row has become since.                               *)
(***************************************************************************)
EXTENDS Naturals, FiniteSets

CONSTANTS
    NumTasks,    \* how many tasks are ever submitted
    Workers,     \* the worker goroutines of the process
    NoTask,      \* stands for "no row in hand"
    HasHandler,  \* the tasks whose type has a registered handler
    MaxRetries,  \* Task.MaxRetries, copied from the strategy by Submit
    MaxFaults,   \* bound: crashes of the process plus lost outcome writes
    MaxSlow      \* bound: handlers still running when their lease runs out

Tasks == 1 .. NumTasks

ASSUME TaskQueueAssumption ==
    /\ NumTasks \in Nat
    /\ MaxRetries \in Nat \ {0}
    /\ MaxFaults \in Nat
    /\ MaxSlow \in Nat
    /\ HasHandler \subseteq Tasks
    /\ NoTask \notin Tasks \cup Workers

VARIABLES
    row,         \* async_tasks: the persisted row of each task
    worker,      \* what each worker goroutine holds in memory
    \* observers, read by no guard but the bounds
    failures,    \* how many attempts of a task ended in an error
    refused,     \* tasks an attempt found hopeless (NonRetryable, no handler)
    effects,     \* how many attempts of a task succeeded
    orphaned,    \* tasks whose attempt died, or lost its outcome
    contested,   \* tasks put back to pending under a live worker
    faults, slow \* what is used of MaxFaults and of MaxSlow

observers == <<failures, refused, effects, orphaned, contested, faults, slow>>
vars == <<row, worker, observers>>

Status == {"absent", "pending", "running", "completed", "failed", "deleted"}
Finished == {"completed", "failed"}
Outcome == {"ok", "transient", "permanent"}

\* due: next_retry_at is NULL or past.  overdue: started_at < now - 30 min.
Row == [status: Status, retry: Nat, due: BOOLEAN, overdue: BOOLEAN]
Worker == [task: Tasks \cup {NoTask}, retry: Nat,
           at: {"idle", "executing"} \cup Outcome]

Idle == [task |-> NoTask, retry |-> 0, at |-> "idle"]
NewRow == [status |-> "pending", retry |-> 0, due |-> TRUE, overdue |-> FALSE]

Holds(w, t) == worker[w].task = t
Held(t) == \E w \in Workers : Holds(w, t)

Init ==
    /\ row = [t \in Tasks |-> [NewRow EXCEPT !.status = "absent"]]
    /\ worker = [w \in Workers |-> Idle]
    /\ failures = [t \in Tasks |-> 0]
    /\ refused = {}
    /\ effects = [t \in Tasks |-> 0]
    /\ orphaned = {}
    /\ contested = {}
    /\ faults = 0
    /\ slow = 0

-----------------------------------------------------------------------------
(* Submit: a new row.  created_at is taken before the row is committed, so *)
(* the rows need not appear in the order of their numbers.                 *)
Submit(t) ==
    /\ row[t].status = "absent"
    /\ row' = [row EXCEPT ![t] = NewRow]
    /\ UNCHANGED <<worker, observers>>

\* Mutant: the claim forgets the status of the row.
ClaimableWhileRunning(t) == row[t].status \in {"pending", "running"} /\ row[t].due

\* Mutant: the alternative next_retry_at <= now is missing from the query.
ClaimableNeverTried(t) == row[t].status = "pending" /\ row[t].due /\ row[t].retry = 0

Claimable(t) == row[t].status = "pending" /\ row[t].due

IdleWorkers == {w \in Workers : worker[w].at = "idle"}

(* The claim transaction: SELECT ... FOR UPDATE SKIP LOCKED of the oldest  *)
(* claimable row, then running with a fresh started_at.  An older row that *)
(* is passed over is locked by the open claim of another idle worker.      *)
(* executeTask fails a task without handler, which is the outcome          *)
(* "permanent" at once.                                                    *)
Claim(w) ==
    /\ worker[w].at = "idle"
    /\ \E t \in Tasks :
        /\ Claimable(t)
        /\ Cardinality({u \in 1 .. t - 1 : Claimable(u)})
              <= Cardinality(IdleWorkers \ {w})
        /\ row' = [row EXCEPT ![t].status = "running", ![t].overdue = FALSE]
        /\ worker' = [worker EXCEPT ![w] =
               [task |-> t, retry |-> row[t].retry,
                at |-> IF t \in HasHandler THEN "executing" ELSE "permanent"]]
        /\ refused' = IF t \in HasHandler THEN refused ELSE refused \cup {t}
    /\ UNCHANGED <<failures, effects, orphaned, contested, faults, slow>>

(* The handler returns nil, an error, or a NonRetryableError.              *)
HandlerReturns(w, o) ==
    /\ worker[w].at = "executing"
    /\ LET t == worker[w].task IN
        /\ worker' = [worker EXCEPT ![w].at = o]
        /\ effects' = IF o = "ok" THEN [effects EXCEPT ![t] = @ + 1] ELSE effects
        /\ failures' = IF o = "ok" THEN failures ELSE [failures EXCEPT ![t] = @ + 1]
        /\ refused' = IF o = "permanent" THEN refused \cup {t} ELSE refused
    /\ UNCHANGED <<row, orphaned, contested, faults, slow>>

(* Updates by primary key: without effect on a row that is gone.           *)
Write(t, r) ==
    row' = IF row[t].status = "deleted" THEN row ELSE [row EXCEPT ![t] = r]

Release(w) == worker' = [worker EXCEPT ![w] = Idle]

(* markTaskCompleted *)
Complete(w) ==
    /\ worker[w].at = "ok"
    /\ LET t == worker[w].task IN Write(t, [row[t] EXCEPT !.status = "completed"])
    /\ Release(w)
    /\ UNCHANGED observers

\* Mutant: off by one.
ExhaustedTooSoon(w) == worker[w].retry + 2 >= MaxRetries

Exhausted(w) == worker[w].retry + 1 >= MaxRetries

(* handleTaskError, its two calls of markTaskFailed (retry_count stays)    *)
GiveUp(w) ==
    /\ \/ worker[w].at = "permanent"
       \/ worker[w].at = "transient" /\ Exhausted(w)
    /\ LET t == worker[w].task IN Write(t, [row[t] EXCEPT !.status = "failed"])
    /\ Release(w)
    /\ UNCHANGED observers

(* handleTaskError, the retry with backoff                                 *)
Reschedule(w) ==
    /\ worker[w].at = "transient" /\ ~Exhausted(w)
    /\ LET t == worker[w].task
       IN  Write(t, [row[t] EXCEPT !.status = "pending", !.due = FALSE,
                                   !.retry = worker[w].retry + 1])
    /\ Release(w)
    /\ UNCHANGED observers

(* The outcome writes ignore the error of the database.                    *)
WriteLost(w) ==
    /\ worker[w].at \in Outcome
    /\ faults < MaxFaults
    /\ faults' = faults + 1
    /\ orphaned' = orphaned \cup {worker[w].task}
    /\ Release(w)
    /\ UNCHANGED <<row, failures, refused, effects, contested, slow>>

(* The process dies (a handler's panic is not recovered) and starts again. *)
Crash ==
    /\ faults < MaxFaults
    /\ faults' = faults + 1
    /\ orphaned' = orphaned \cup {t \in Tasks : Held(t)}
    /\ worker' = [w \in Workers |-> Idle]
    /\ UNCHANGED <<row, failures, refused, effects, contested, slow>>

-----------------------------------------------------------------------------
(* Time: a backoff ends; the lease of a row whose worker is gone runs out; *)
(* the lease of a row whose handler still runs does, too.                  *)
BackoffElapses(t) ==
    /\ row[t].status = "pending" /\ ~row[t].due
    /\ row' = [row EXCEPT ![t].due = TRUE]
    /\ UNCHANGED <<worker, observers>>

LeaseExpires(t) ==
    /\ row[t].status = "running" /\ ~row[t].overdue
    /\ ~Held(t)
    /\ row' = [row EXCEPT ![t].overdue = TRUE]
    /\ UNCHANGED <<worker, observers>>

OutlivesLease(t) ==
    /\ row[t].status = "running" /\ ~row[t].overdue
    /\ Held(t)
    /\ slow < MaxSlow
    /\ slow' = slow + 1
    /\ row' = [row EXCEPT ![t].overdue = TRUE]
    /\ UNCHANGED <<worker, failures, refused, effects, orphaned, contested, faults>>

\* Mutant: the checker selects on started_at alone.
OverdueInAnyStatus(t) == row[t].overdue

(* retryChecker: every overdue running row becomes pending in one UPDATE.  *)
(* Nothing tells the worker, and retry_count is left alone.                *)
Overdue(t) == row[t].status = "running" /\ row[t].overdue

Reclaim ==
    /\ \E t \in Tasks : Overdue(t)
    /\ row' = [t \in Tasks |->
                  IF Overdue(t) THEN [row[t] EXCEPT !.status = "pending"] ELSE row[t]]
    /\ contested' = contested \cup {t \in Tasks : Overdue(t) /\ Held(t)}
    /\ UNCHANGED <<worker, failures, refused, effects, orphaned, faults, slow>>

(* CleanupOldTasks, for any choice of the rows that are old enough.        *)
Cleanup(t) ==
    /\ row[t].status \in Finished
    /\ row' = [row EXCEPT ![t].status = "deleted"]
    /\ UNCHANGED <<worker, observers>>

-----------------------------------------------------------------------------
WorkerStep(w) ==
    \/ Claim(w)
    \/ \E o \in Outcome : HandlerReturns(w, o)
    \/ Complete(w)
    \/ GiveUp(w)
    \/ Reschedule(w)

Clock(t) == BackoffElapses(t) \/ LeaseExpires(t)

Next ==
    \/ \E t \in Tasks : Submit(t) \/ Clock(t) \/ OutlivesLease(t) \/ Cleanup(t)
    \/ \E w \in Workers : WorkerStep(w) \/ WriteLost(w)
    \/ Reclaim
    \/ Crash

Spec == Init /\ [][Next]_vars

(***************************************************************************)
(* Workers and the checker are ticker loops, handlers return (their calls  *)
(* carry timeouts of their own) and time passes.  Nothing makes clients    *)
(* submit, rows be cleaned up, the process crash or a handler be slow.     *)
(***************************************************************************)
Fairness ==
    /\ \A w \in Workers : WF_vars(WorkerStep(w))
    /\ \A t \in Tasks : WF_vars(Clock(t))
    /\ WF_vars(Reclaim)

FairSpec == Spec /\ Fairness

-----------------------------------------------------------------------------
(* Type correctness, and a worker is idle exactly when it holds no row.    *)
TypeOK ==
    /\ row \in [Tasks -> Row]
    /\ worker \in [Workers -> Worker]
    /\ \A w \in Workers : worker[w].at = "idle" <=> worker[w].task = NoTask
    /\ failures \in [Tasks -> Nat]
    /\ effects \in [Tasks -> Nat]
    /\ refused \subseteq Tasks
    /\ orphaned \subseteq Tasks
    /\ contested \subseteq Tasks
    /\ faults \in 0 .. MaxFaults
    /\ slow \in 0 .. MaxSlow

(* Two workers run the same task only once the 30-minute checker has taken *)
(* it from a worker that was slow, not dead: the row lock of the claim     *)
(* transaction and the status "running" are enough otherwise.              *)
ExclusiveUnlessContested ==
    \A t \in Tasks \ contested : \A v, w \in Workers :
        Holds(v, t) /\ Holds(w, t) => v = w

(* A failed task deserved it: an attempt found it hopeless, or MaxRetries  *)
(* attempts ended in an error -- even for tasks that several workers ran   *)
(* at once, each with its own copy of the retry counter.                   *)
NoEarlyGiveUp ==
    \A t \in Tasks : row[t].status = "failed" =>
        t \in refused \/ failures[t] >= MaxRetries

(* A handler succeeds twice for one task only after an attempt was lost or *)
(* the task was taken from a live worker, and "completed" is only written  *)
(* for work that was done.                                                 *)
EffectsAccounted ==
    \A t \in Tasks :
        /\ effects[t] > 1 => t \in contested \cup orphaned
        /\ row[t].status = "completed" => effects[t] >= 1

(* Every submitted task is eventually completed, failed, or cleaned up.    *)
EveryTaskSettles ==
    \A t \in Tasks :
        row[t].status = "pending" ~> row[t].status \in Finished \cup {"deleted"}

-----------------------------------------------------------------------------
(* The abstraction: which job each row is, and who works on it.            *)
BoardStatus(status) ==
    CASE status = "absent"    -> "absent"
      [] status = "pending"   -> "open"
      [] status = "running"   -> "taken"
      [] status = "completed" -> "done"
      [] status = "failed"    -> "dropped"
      [] status = "deleted"   -> "removed"

BoardJob == [t \in Tasks |->
    IF t \in contested THEN "contested" ELSE BoardStatus(row[t].status)]

BoardExecutor == [t \in Tasks |->
    IF t \in contested \/ ~Held(t) THEN NoTask
    ELSE CHOOSE w \in Workers : Holds(w, t)]

BoardTries == [t \in Tasks |-> IF t \in contested THEN 0 ELSE row[t].retry]

Board == INSTANCE JobBoard WITH
    Jobs <- Tasks, Executors <- Workers, Nobody <- NoTask, MaxTries <- MaxRetries,
    job <- BoardJob, executor <- BoardExecutor, tries <- BoardTries

(* The queue implements the job board: whatever workers, crashes, lost     *)
(* writes and the 30-minute checker do, every task whose lease never ran   *)
(* out under a live worker is executed by one worker at a time, comes back *)
(* only through a counted retry or a lost attempt, and ends for good.      *)
ImplementsJobBoard == Board!Spec
=============================================================================
