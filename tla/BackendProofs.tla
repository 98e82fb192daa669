---------------------------- MODULE BackendProofs ----------------------------
(***************************************************************************)
(* Proofs about the two stand-alone services of the backend, the database  *)
(* task queue and the WebSocket hub.                                       *)
(*                                                                         *)
(* TaskQueue, for every number of tasks, workers, retries and faults: type *)
(* correctness, the three safety invariants, and the implementation of     *)
(* JobBoard.  WsHub, for any connections, users, rooms and capacities:     *)
(* type correctness and the safety invariants.                             *)
(***************************************************************************)
EXTENDS TaskQueue, WsHub, TLAPS

(***************************************************************************)
(* The task queue.                                                         *)
(***************************************************************************)

(* Every update of a row that the queue makes yields a row. *)
LEMMA RowUpdates ==
    ASSUME NEW r \in Row, NEW s \in Status, NEW n \in Nat, NEW d \in BOOLEAN
    PROVE  /\ [r EXCEPT !.status = s] \in Row
           /\ [r EXCEPT !.due = d] \in Row
           /\ [r EXCEPT !.overdue = d] \in Row
           /\ [r EXCEPT !.status = s, !.overdue = d] \in Row
           /\ [r EXCEPT !.status = s, !.due = d, !.retry = n] \in Row
  BY DEF Row

(* Type correctness: every row, worker and observer keeps its shape, and a *)
(* worker is idle exactly when it has no row in hand.                      *)
THEOREM TypeCorrect == Spec => []TypeOK
<1>1. Init => TypeOK
  <2> SUFFICES ASSUME Init PROVE TypeOK
    OBVIOUS
  <2>1. [NewRow EXCEPT !.status = "absent"] \in Row
    BY DEF NewRow, Row, Status
  <2>2. Idle \in Worker /\ Idle.at = "idle" /\ Idle.task = NoTask
    BY DEF Idle, Worker
  <2>3. QED
    BY <2>1, <2>2, TaskQueueAssumption DEF Init, TypeOK
<1>2. TypeOK /\ [Next]_vars => TypeOK'
  <2> SUFFICES ASSUME TypeOK, [Next]_vars PROVE TypeOK'
    OBVIOUS
  <2> USE TaskQueueAssumption DEF TypeOK, Worker, Status, Outcome, observers
  <2>0. NewRow \in Row /\ \A t \in Tasks : row[t].retry \in Nat
    BY DEF NewRow, Row
  <2>1. ASSUME NEW t \in Tasks, Submit(t) PROVE TypeOK'
    BY <2>0, <2>1 DEF Submit
  <2>2. ASSUME NEW w \in Workers, Claim(w) PROVE TypeOK'
    <3>1. PICK t \in Tasks :
             /\ row' = [row EXCEPT ![t].status = "running", ![t].overdue = FALSE]
             /\ worker' = [worker EXCEPT ![w] =
                    [task |-> t, retry |-> row[t].retry,
                     at |-> IF t \in HasHandler THEN "executing" ELSE "permanent"]]
             /\ refused' = IF t \in HasHandler THEN refused ELSE refused \cup {t}
      BY <2>2 DEF Claim
    <3>2. row' \in [Tasks -> Row]
      <4>0. row[t] \in Row
        BY <3>1
      <4>1. [row[t] EXCEPT !.status = "running", !.overdue = FALSE] \in Row
        BY <4>0, RowUpdates
      <4>2. row' = [row EXCEPT ![t] = [row[t] EXCEPT !.status = "running", !.overdue = FALSE]]
        BY <3>1
      <4>3. QED
        BY <4>1, <4>2
    <3>3. worker'[w] \in Worker /\ worker'[w].at # "idle" /\ worker'[w].task # NoTask
      BY <2>0, <3>1
    <3>4. worker' \in [Workers -> Worker]
      BY <3>1, <3>3
    <3>5. QED
      BY <2>2, <3>1, <3>2, <3>3, <3>4 DEF Claim
  <2>3. ASSUME NEW w \in Workers, NEW o \in Outcome, HandlerReturns(w, o) PROVE TypeOK'
    <3>1. worker[w].task \in Tasks
      BY <2>3 DEF HandlerReturns
    <3>2. QED
      BY <2>3, <3>1 DEF HandlerReturns
  <2>4. ASSUME NEW w \in Workers, Complete(w) PROVE TypeOK'
    BY RowUpdates, <2>4 DEF Complete, Write, Release, Idle
  <2>5. ASSUME NEW w \in Workers, GiveUp(w) PROVE TypeOK'
    BY RowUpdates, <2>5 DEF GiveUp, Write, Release, Idle
  <2>6. ASSUME NEW w \in Workers, Reschedule(w) PROVE TypeOK'
    <3> DEFINE t == worker[w].task
    <3>1. t \in Tasks /\ worker[w].retry + 1 \in Nat
      BY <2>6 DEF Reschedule
    <3>2. row' \in [Tasks -> Row]
      <4>0. row[t] \in Row
        BY <3>1
      <4>1. [row[t] EXCEPT !.status = "pending", !.due = FALSE,
                           !.retry = worker[w].retry + 1] \in Row
        BY <3>1, <4>0, RowUpdates
      <4>2. QED
        BY <2>6, <3>1, <4>1 DEF Reschedule, Write
    <3>3. worker' = [worker EXCEPT ![w] = Idle] /\ UNCHANGED observers
      BY <2>6 DEF Reschedule, Release
    <3>4. QED
      BY <3>2, <3>3 DEF Idle
  <2>7. ASSUME NEW w \in Workers, WriteLost(w) PROVE TypeOK'
    BY <2>7 DEF WriteLost, Release, Idle
  <2>8. CASE Crash
    BY <2>8 DEF Crash, Idle
  <2>9. ASSUME NEW t \in Tasks, Clock(t) PROVE TypeOK'
    <3>1. CASE BackoffElapses(t)
      <4>0. row[t] \in Row
        BY <3>1
      <4>1. [row[t] EXCEPT !.due = TRUE] \in Row
        BY <4>0, RowUpdates
      <4>2. QED
        BY <3>1, <4>1 DEF BackoffElapses
    <3>2. CASE LeaseExpires(t)
      <4>0. row[t] \in Row
        BY <3>2
      <4>1. [row[t] EXCEPT !.overdue = TRUE] \in Row
        BY <4>0, RowUpdates
      <4>2. QED
        BY <3>2, <4>1 DEF LeaseExpires
    <3>3. QED
      BY <2>9, <3>1, <3>2 DEF Clock
  <2>10. ASSUME NEW t \in Tasks, OutlivesLease(t) PROVE TypeOK'
    <3>1. row' \in [Tasks -> Row]
      BY RowUpdates, <2>10 DEF OutlivesLease
    <3>2. slow' \in 0 .. MaxSlow
      BY <2>10 DEF OutlivesLease
    <3>3. QED
      BY <2>10, <3>1, <3>2 DEF OutlivesLease
  <2>11. CASE Reclaim
    BY RowUpdates, <2>11 DEF Reclaim, Overdue
  <2>12. ASSUME NEW t \in Tasks, Cleanup(t) PROVE TypeOK'
    BY RowUpdates, <2>12 DEF Cleanup
  <2>13. CASE UNCHANGED vars
    BY <2>13 DEF vars
  <2>14. QED
    BY <2>1, <2>2, <2>3, <2>4, <2>5, <2>6, <2>7, <2>8, <2>9, <2>10, <2>11, <2>12,
       <2>13 DEF Next, WorkerStep
<1>3. QED
  BY <1>1, <1>2, PTL DEF Spec

-----------------------------------------------------------------------------
(* One worker per task: besides exclusivity, an uncontested row that a     *)
(* worker holds reads "running", so that no other worker can claim it, and *)
(* the worker's copy of its retry counter is accurate; no row is born with *)
(* retries.                                                                *)
Exclusivity ==
    /\ ExclusiveUnlessContested
    /\ \A t \in Tasks \ contested, w \in Workers :
        Holds(w, t) => row[t].status = "running" /\ row[t].retry = worker[w].retry
    /\ \A t \in Tasks : row[t].status = "absent" => row[t].retry = 0

LEMMA StrongExclusivity == Spec => []Exclusivity
<1> USE DEF Holds
<1>1. Init => Exclusivity
  BY TaskQueueAssumption DEF Init, Exclusivity, ExclusiveUnlessContested, Idle, NewRow
<1>2. TypeOK /\ Exclusivity /\ [Next]_vars => Exclusivity'
  <2> SUFFICES ASSUME TypeOK, Exclusivity, [Next]_vars PROVE Exclusivity'
    OBVIOUS
  <2> USE TaskQueueAssumption
      DEF TypeOK, Exclusivity, ExclusiveUnlessContested, Row, Worker, Outcome, observers
  <2>1. ASSUME NEW t \in Tasks, Submit(t) PROVE Exclusivity'
    BY <2>1 DEF Submit, NewRow
  <2>2. ASSUME NEW w \in Workers, Claim(w) PROVE Exclusivity'
    BY <2>2 DEF Claim, Claimable
  <2>3. ASSUME NEW w \in Workers, NEW o \in Outcome, HandlerReturns(w, o) PROVE Exclusivity'
    BY <2>3 DEF HandlerReturns
  <2>4. ASSUME NEW w \in Workers, Complete(w) PROVE Exclusivity'
    BY <2>4 DEF Complete, Write, Release, Idle
  <2>5. ASSUME NEW w \in Workers, GiveUp(w) PROVE Exclusivity'
    BY <2>5 DEF GiveUp, Write, Release, Idle
  <2>6. ASSUME NEW w \in Workers, Reschedule(w) PROVE Exclusivity'
    BY <2>6 DEF Reschedule, Write, Release, Idle
  <2>7. ASSUME NEW w \in Workers, WriteLost(w) PROVE Exclusivity'
    BY <2>7 DEF WriteLost, Release, Idle
  <2>8. CASE Crash
    BY <2>8 DEF Crash, Idle
  <2>9. ASSUME NEW t \in Tasks, Clock(t) PROVE Exclusivity'
    <3>1. CASE BackoffElapses(t)
      BY <3>1 DEF BackoffElapses
    <3>2. CASE LeaseExpires(t)
      BY <3>2 DEF LeaseExpires
    <3>3. QED
      BY <2>9, <3>1, <3>2 DEF Clock
  <2>10. ASSUME NEW t \in Tasks, OutlivesLease(t) PROVE Exclusivity'
    BY <2>10 DEF OutlivesLease
  <2>11. CASE Reclaim
    BY <2>11 DEF Reclaim, Overdue, Held
  <2>12. ASSUME NEW t \in Tasks, Cleanup(t) PROVE Exclusivity'
    BY <2>12 DEF Cleanup, Finished
  <2>13. CASE UNCHANGED vars
    BY <2>13 DEF vars
  <2>14. QED
    BY <2>1, <2>2, <2>3, <2>4, <2>5, <2>6, <2>7, <2>8, <2>9, <2>10, <2>11, <2>12,
       <2>13 DEF Next, WorkerStep
<1>3. QED
  BY <1>1, <1>2, TypeCorrect, PTL DEF Spec

(* An uncontested task is in one pair of hands.                            *)
THEOREM Exclusive == Spec => []ExclusiveUnlessContested
<1>1. Exclusivity => ExclusiveUnlessContested
  BY DEF Exclusivity
<1>2. QED
  BY <1>1, StrongExclusivity, PTL
-----------------------------------------------------------------------------
(* Retry counters, persisted or in a worker's memory, count attempts that  *)
(* did fail.  A reclaimed task may be counted twice by two workers from    *)
(* the same start, but each of them saw a failure of its own.              *)
HonestCounters ==
    /\ NoEarlyGiveUp
    /\ \A t \in Tasks : row[t].retry <= failures[t]
    /\ \A w \in Workers :
        LET t == worker[w].task IN
        /\ t \in Tasks => worker[w].retry <= failures[t]
        /\ worker[w].at = "transient" => worker[w].retry + 1 <= failures[t]
        /\ worker[w].at = "permanent" => t \in refused

(* A task is never failed before its time, whatever the interleaving.      *)
THEOREM GiveUpDeserved == Spec => []NoEarlyGiveUp
<1>1. Init => HonestCounters
  BY TaskQueueAssumption DEF Init, HonestCounters, NoEarlyGiveUp, Idle, NewRow
<1>2. TypeOK /\ HonestCounters /\ [Next]_vars => HonestCounters'
  <2> SUFFICES ASSUME TypeOK, HonestCounters, [Next]_vars PROVE HonestCounters'
    OBVIOUS
  <2> USE TaskQueueAssumption
      DEF TypeOK, HonestCounters, NoEarlyGiveUp, Row, Worker, Outcome, observers
  <2>1. ASSUME NEW t \in Tasks, Submit(t) PROVE HonestCounters'
    BY <2>1 DEF Submit, NewRow
  <2>2. ASSUME NEW w \in Workers, Claim(w) PROVE HonestCounters'
    BY <2>2 DEF Claim, Claimable
  <2>3. ASSUME NEW w \in Workers, NEW o \in Outcome, HandlerReturns(w, o)
        PROVE HonestCounters'
    BY <2>3 DEF HandlerReturns
  <2>4. ASSUME NEW w \in Workers, Complete(w) PROVE HonestCounters'
    BY <2>4 DEF Complete, Write, Release, Idle
  <2>5. ASSUME NEW w \in Workers, GiveUp(w) PROVE HonestCounters'
    BY <2>5 DEF GiveUp, Exhausted, Write, Release, Idle
  <2>6. ASSUME NEW w \in Workers, Reschedule(w) PROVE HonestCounters'
    BY <2>6 DEF Reschedule, Write, Release, Idle
  <2>7. ASSUME NEW w \in Workers, WriteLost(w) PROVE HonestCounters'
    BY <2>7 DEF WriteLost, Release, Idle
  <2>8. CASE Crash
    BY <2>8 DEF Crash, Idle
  <2>9. ASSUME NEW t \in Tasks, Clock(t) PROVE HonestCounters'
    <3>1. CASE BackoffElapses(t)
      BY <3>1 DEF BackoffElapses
    <3>2. CASE LeaseExpires(t)
      BY <3>2 DEF LeaseExpires
    <3>3. QED
      BY <2>9, <3>1, <3>2 DEF Clock
  <2>10. ASSUME NEW t \in Tasks, OutlivesLease(t) PROVE HonestCounters'
    BY <2>10 DEF OutlivesLease
  <2>11. CASE Reclaim
    BY <2>11 DEF Reclaim, Overdue
  <2>12. ASSUME NEW t \in Tasks, Cleanup(t) PROVE HonestCounters'
    BY <2>12 DEF Cleanup
  <2>13. CASE UNCHANGED vars
    BY <2>13 DEF vars
  <2>14. QED
    BY <2>1, <2>2, <2>3, <2>4, <2>5, <2>6, <2>7, <2>8, <2>9, <2>10, <2>11, <2>12,
       <2>13 DEF Next, WorkerStep
<1>3. HonestCounters => NoEarlyGiveUp
  BY DEF HonestCounters
<1>4. QED
  BY <1>1, <1>2, <1>3, TypeCorrect, PTL DEF Spec

-----------------------------------------------------------------------------
(* An undisturbed task that took effect is completed, cleaned up, or about *)
(* to be marked completed by the worker that holds it.                     *)
EffectsInOrder ==
    /\ EffectsAccounted
    /\ \A w \in Workers : worker[w].at = "ok" => effects[worker[w].task] >= 1
    /\ \A t \in Tasks \ (contested \cup orphaned) :
        effects[t] # 0 => \/ row[t].status \in {"completed", "deleted"}
                          \/ \E w \in Workers : Holds(w, t) /\ worker[w].at = "ok"

(* Handlers take effect once, unless an attempt was lost or contested, and *)
(* "completed" tells the truth.                                            *)
THEOREM Effects == Spec => []EffectsAccounted
<1> USE DEF Holds
<1>1. Init => EffectsInOrder
  BY TaskQueueAssumption DEF Init, EffectsInOrder, EffectsAccounted, Idle, NewRow
<1>2. TypeOK /\ Exclusivity /\ EffectsInOrder /\ [Next]_vars => EffectsInOrder'
  <2> SUFFICES ASSUME TypeOK, Exclusivity, EffectsInOrder, [Next]_vars
               PROVE EffectsInOrder'
    OBVIOUS
  <2> USE TaskQueueAssumption
      DEF TypeOK, Exclusivity, ExclusiveUnlessContested, EffectsInOrder,
          EffectsAccounted, Row, Worker, Outcome, observers
  <2>1. ASSUME NEW t \in Tasks, Submit(t) PROVE EffectsInOrder'
    BY <2>1 DEF Submit, NewRow
  <2>2. ASSUME NEW w \in Workers, Claim(w) PROVE EffectsInOrder'
    BY <2>2 DEF Claim, Claimable
  <2>3. ASSUME NEW w \in Workers, NEW o \in Outcome, HandlerReturns(w, o)
        PROVE EffectsInOrder'
    BY <2>3 DEF HandlerReturns
  <2>4. ASSUME NEW w \in Workers, Complete(w) PROVE EffectsInOrder'
    BY <2>4 DEF Complete, Write, Release, Idle
  <2>5. ASSUME NEW w \in Workers, GiveUp(w) PROVE EffectsInOrder'
    BY <2>5 DEF GiveUp, Write, Release, Idle
  <2>6. ASSUME NEW w \in Workers, Reschedule(w) PROVE EffectsInOrder'
    BY <2>6 DEF Reschedule, Write, Release, Idle
  <2>7. ASSUME NEW w \in Workers, WriteLost(w) PROVE EffectsInOrder'
    BY <2>7 DEF WriteLost, Release, Idle
  <2>8. CASE Crash
    BY <2>8 DEF Crash, Idle, Held
  <2>9. ASSUME NEW t \in Tasks, Clock(t) PROVE EffectsInOrder'
    <3>1. CASE BackoffElapses(t)
      BY <3>1 DEF BackoffElapses
    <3>2. CASE LeaseExpires(t)
      BY <3>2 DEF LeaseExpires
    <3>3. QED
      BY <2>9, <3>1, <3>2 DEF Clock
  <2>10. ASSUME NEW t \in Tasks, OutlivesLease(t) PROVE EffectsInOrder'
    BY <2>10 DEF OutlivesLease
  <2>11. CASE Reclaim
    BY <2>11 DEF Reclaim, Overdue, Held
  <2>12. ASSUME NEW t \in Tasks, Cleanup(t) PROVE EffectsInOrder'
    BY <2>12 DEF Cleanup, Finished
  <2>13. CASE UNCHANGED vars
    BY <2>13 DEF vars
  <2>14. QED
    BY <2>1, <2>2, <2>3, <2>4, <2>5, <2>6, <2>7, <2>8, <2>9, <2>10, <2>11, <2>12,
       <2>13 DEF Next, WorkerStep
<1>3. EffectsInOrder => EffectsAccounted
  BY DEF EffectsInOrder
<1>4. QED
  BY <1>1, <1>2, <1>3, TypeCorrect, StrongExclusivity, PTL DEF Spec
-----------------------------------------------------------------------------
(* The abstraction, value by value.                                        *)
LEMMA BoardValues ==
    /\ BoardStatus("absent") = "absent" /\ BoardStatus("pending") = "open"
    /\ BoardStatus("running") = "taken" /\ BoardStatus("completed") = "done"
    /\ BoardStatus("failed") = "dropped" /\ BoardStatus("deleted") = "removed"
  BY DEF BoardStatus

(* The executor of an uncontested task is the worker that holds it.        *)
LEMMA ExecutorIsHolder ==
    ASSUME ExclusiveUnlessContested, NEW t \in Tasks \ contested, NEW w \in Workers,
           Holds(w, t)
    PROVE  BoardExecutor[t] = w
<1>1. Held(t)
  BY DEF Held
<1>2. \A v \in Workers : Holds(v, t) => v = w
  BY DEF ExclusiveUnlessContested
<1>3. (CHOOSE v \in Workers : Holds(v, t)) = w
  BY <1>2
<1>4. QED
  BY <1>1, <1>3 DEF BoardExecutor

(* A worker that lets go of an uncontested task leaves it without executor;*)
(* letting go of a contested one shows nowhere.                            *)
LEMMA ReleaseExecutor ==
    ASSUME TypeOK, Exclusivity, NEW w \in Workers, worker[w].at # "idle",
           NEW t \in Tasks, worker[w].task = t, Release(w), UNCHANGED contested
    PROVE  /\ t \in contested => UNCHANGED BoardExecutor
           /\ t \notin contested =>
                /\ row[t].status = "running" /\ row[t].retry = worker[w].retry
                /\ BoardExecutor[t] # NoTask
                /\ BoardExecutor' = [BoardExecutor EXCEPT ![t] = NoTask]
<1>1. Holds(w, t)
  BY DEF Holds
<1>2. \A v \in Workers, u \in Tasks : u # t => (Holds(v, u)' <=> Holds(v, u))
  BY TaskQueueAssumption DEF Release, Idle, Holds, TypeOK
<1>3. \A u \in Tasks : u # t => BoardExecutor'[u] = BoardExecutor[u]
  BY <1>2 DEF BoardExecutor, Held
<1>4. /\ BoardExecutor = [u \in Tasks |-> BoardExecutor[u]]
      /\ BoardExecutor' = [u \in Tasks |-> BoardExecutor'[u]]
  BY DEF BoardExecutor
<1>5. CASE t \in contested
  <2>1. BoardExecutor'[t] = BoardExecutor[t]
    BY <1>5 DEF BoardExecutor
  <2>2. QED
    BY <1>3, <1>4, <1>5, <2>1
<1>6. CASE t \notin contested
  <2>1. row[t].status = "running" /\ row[t].retry = worker[w].retry
    BY <1>1, <1>6 DEF Exclusivity
  <2>2. BoardExecutor[t] = w
    BY <1>1, <1>6, ExecutorIsHolder DEF Exclusivity
  <2>3. \A v \in Workers : Holds(v, t) => v = w
    BY <1>1, <1>6 DEF Exclusivity, ExclusiveUnlessContested
  <2>4. \A v \in Workers : ~Holds(v, t)'
    BY <2>3, TaskQueueAssumption DEF Release, Idle, Holds, TypeOK
  <2>5. BoardExecutor'[t] = NoTask
    BY <2>4 DEF BoardExecutor, Held
  <2>6. BoardExecutor' = [BoardExecutor EXCEPT ![t] = NoTask]
    BY <1>3, <1>4, <2>5
  <2>7. QED
    BY <1>6, <2>1, <2>2, <2>6, TaskQueueAssumption
<1>7. QED
  BY <1>5, <1>6

(* The queue's initial states, and its steps, are the job board's.         *)
THEOREM Implements == Spec => ImplementsJobBoard
<1>1. Init => Board!Init
  BY TaskQueueAssumption
     DEF Init, Board!Init, BoardJob, BoardStatus, BoardExecutor, BoardTries, NewRow,
         Held, Holds, Idle
<1>2. TypeOK /\ Exclusivity /\ Exclusivity' /\ [Next]_vars => [Board!Next]_(Board!vars)
  <2> SUFFICES ASSUME TypeOK, Exclusivity, Exclusivity', [Next]_vars
               PROVE  Board!Next \/ UNCHANGED <<BoardJob, BoardExecutor, BoardTries>>
    BY DEF Board!vars
  <2> DEFINE Steps == Board!Next \/ UNCHANGED <<BoardJob, BoardExecutor, BoardTries>>
  <2> USE BoardValues DEF BoardJob, BoardTries
  <2>1. ASSUME NEW t \in Tasks, Submit(t) PROVE Steps
    <3>1. UNCHANGED <<BoardExecutor, contested>>
      BY <2>1 DEF Submit, observers, BoardExecutor, Held, Holds
    <3>2. row' = [row EXCEPT ![t] = NewRow] /\ row[t].status = "absent"
      BY <2>1 DEF Submit
    <3>3. row[t].retry = 0 /\ NewRow.status = "pending" /\ NewRow.retry = 0
      BY <3>2 DEF Exclusivity, NewRow
    <3>4. CASE t \in contested
      BY <3>1, <3>2, <3>4 DEF TypeOK
    <3>5. CASE t \notin contested
      <4>1. BoardTries' = BoardTries
        BY <3>1, <3>2, <3>3 DEF TypeOK
      <4>2. BoardJob' = [BoardJob EXCEPT ![t] = "open"]
        BY <3>1, <3>2, <3>3, <3>5 DEF TypeOK
      <4>3. BoardJob[t] = "absent"
        BY <3>2, <3>5
      <4>4. Board!Post(t)
        BY <3>1, <4>1, <4>2, <4>3 DEF Board!Post
      <4>5. QED
        BY <4>4 DEF Board!Next
    <3>6. QED
      BY <3>4, <3>5
  <2>2. ASSUME NEW w \in Workers, Claim(w) PROVE Steps
    <3>1. PICK t \in Tasks :
             /\ Claimable(t)
             /\ row' = [row EXCEPT ![t].status = "running", ![t].overdue = FALSE]
             /\ worker' = [worker EXCEPT ![w] =
                    [task |-> t, retry |-> row[t].retry,
                     at |-> IF t \in HasHandler THEN "executing" ELSE "permanent"]]
      BY <2>2 DEF Claim
    <3>2. worker[w].task = NoTask /\ UNCHANGED contested
      BY <2>2 DEF Claim, TypeOK
    <3>3. \A v \in Workers, u \in Tasks : u # t => (Holds(v, u)' <=> Holds(v, u))
      BY <3>1, <3>2, TaskQueueAssumption DEF Holds, TypeOK
    <3>4. \A u \in Tasks : u # t => BoardExecutor'[u] = BoardExecutor[u]
      BY <3>2, <3>3 DEF BoardExecutor, Held
    <3>5. BoardTries' = BoardTries
      BY <3>1, <3>2 DEF TypeOK, Row
    <3>6. CASE t \in contested
      BY <3>1, <3>2, <3>4, <3>5, <3>6 DEF BoardExecutor, TypeOK
    <3>7. CASE t \notin contested
      <4>1. Holds(w, t)'
        BY <3>1 DEF Holds, TypeOK
      <4>2. \A v \in Workers : Holds(v, t)' => v = w
        BY <3>2, <3>7, <4>1 DEF Exclusivity, ExclusiveUnlessContested
      <4>3. (CHOOSE v \in Workers : Holds(v, t)') = w
        BY <4>1, <4>2
      <4>4. BoardExecutor'[t] = w
        BY <3>2, <3>7, <4>1, <4>3 DEF BoardExecutor, Held
      <4>5. BoardExecutor' = [BoardExecutor EXCEPT ![t] = w]
        <5>1. /\ BoardExecutor = [u \in Tasks |-> BoardExecutor[u]]
              /\ BoardExecutor' = [u \in Tasks |-> BoardExecutor'[u]]
          BY DEF BoardExecutor
        <5>2. QED
          BY <3>4, <4>4, <5>1
      <4>6. BoardJob' = [BoardJob EXCEPT ![t] = "taken"] /\ BoardJob[t] = "open"
        <5>1. row[t].status = "pending" /\ row'[t].status = "running"
          BY <3>1 DEF Claimable, TypeOK, Row
        <5>2. \A u \in Tasks : u # t => row'[u] = row[u]
          BY <3>1 DEF TypeOK
        <5>3. QED
          BY <3>2, <3>7, <5>1, <5>2
      <4>7. Board!Take(w, t)
        BY <3>5, <4>5, <4>6 DEF Board!Take
      <4>8. QED
        BY <4>7 DEF Board!Next
    <3>8. QED
      BY <3>6, <3>7
  <2>3. ASSUME NEW w \in Workers, NEW o \in Outcome, HandlerReturns(w, o) PROVE Steps
    <3>1. UNCHANGED <<row, contested>>
      BY <2>3 DEF HandlerReturns
    <3>2. \A v \in Workers, u \in Tasks : Holds(v, u)' <=> Holds(v, u)
      BY <2>3 DEF HandlerReturns, Holds, TypeOK
    <3>3. UNCHANGED BoardExecutor
      BY <3>1, <3>2 DEF BoardExecutor, Held
    <3>4. QED
      BY <3>1, <3>3
  <2>4. ASSUME NEW w \in Workers, NEW s \in {"completed", "failed", "pending"},
               NEW d \in BOOLEAN, NEW n \in Nat,
               NEW t \in Tasks, worker[w].task = t,
               worker[w].at # "idle", Release(w), UNCHANGED observers,
               Write(t, [row[t] EXCEPT !.status = s, !.due = d, !.retry = n]),
               \/ s # "pending" /\ n = row[t].retry
               \/ s = "pending" /\ n = worker[w].retry + 1 /\ n < MaxRetries
        PROVE Steps
    <3>1. UNCHANGED contested
      BY <2>4 DEF observers
    <3>2. CASE t \in contested
      BY <2>4, <3>1, <3>2, ReleaseExecutor DEF Write, TypeOK
    <3>3. CASE t \notin contested
      <4>1. /\ row[t].status = "running" /\ row[t].retry = worker[w].retry
            /\ BoardExecutor[t] # NoTask
            /\ BoardExecutor' = [BoardExecutor EXCEPT ![t] = NoTask]
        BY <2>4, <3>1, <3>3, ReleaseExecutor
      <4>2. row' = [row EXCEPT ![t] = [row[t] EXCEPT !.status = s, !.due = d, !.retry = n]]
        BY <2>4, <4>1 DEF Write
      <4>3. row'[t].status = s /\ row'[t].retry = n
        BY <3>1, <4>2 DEF TypeOK, Row
      <4>4. BoardJob[t] = "taken" /\ BoardJob' = [BoardJob EXCEPT ![t] = BoardStatus(s)]
        BY <3>1, <3>3, <4>1, <4>2, <4>3 DEF TypeOK
      <4>5. BoardTries' = [BoardTries EXCEPT ![t] = n]
        BY <3>1, <3>3, <4>2, <4>3 DEF TypeOK
      <4>6. CASE s = "completed"
        <5>1. Board!Succeed(t)
          BY <2>4, <3>1, <3>3, <4>1, <4>4, <4>5, <4>6 DEF Board!Succeed, Board!Finish
        <5>2. QED
          BY <3>1, <5>1 DEF Board!Next
      <4>7. CASE s = "failed"
        <5>1. Board!Drop(t)
          BY <2>4, <3>1, <3>3, <4>1, <4>4, <4>5, <4>7 DEF Board!Drop, Board!Finish
        <5>2. QED
          BY <3>1, <5>1 DEF Board!Next
      <4>8. CASE s = "pending"
        <5>1. BoardTries[t] + 1 = n
          BY <2>4, <3>1, <3>3, <4>1, <4>8
        <5>2. Board!Fail(t)
          BY <2>4, <4>1, <4>4, <4>5, <4>8, <5>1 DEF Board!Fail, Board!Finish
        <5>3. QED
          BY <3>1, <5>2 DEF Board!Next
      <4>9. QED
        BY <4>6, <4>7, <4>8
    <3>4. QED
      BY <3>2, <3>3
  <2>5. ASSUME NEW w \in Workers, Complete(w) \/ GiveUp(w) \/ Reschedule(w) PROVE Steps
    <3>1. PICK t \in Tasks : worker[w].task = t
      BY <2>5 DEF Complete, GiveUp, Reschedule, TypeOK, Worker
    <3>2. row[t] \in Row /\ row[t].due \in BOOLEAN /\ row[t].retry \in Nat
      BY DEF TypeOK, Row
    <3>3. worker[w].retry + 1 \in Nat
      BY DEF TypeOK, Worker
    <3>4. \A s \in Status :
            [row[t] EXCEPT !.status = s]
              = [row[t] EXCEPT !.status = s, !.due = row[t].due, !.retry = row[t].retry]
      BY <3>2 DEF Row
    <3>5. CASE Complete(w)
      <4>1. Write(t, [row[t] EXCEPT !.status = "completed", !.due = row[t].due,
                                    !.retry = row[t].retry])
        BY <3>1, <3>4, <3>5 DEF Complete, Status
      <4>2. QED
        BY <2>4, <3>1, <3>2, <3>5, <4>1 DEF Complete
    <3>6. CASE GiveUp(w)
      <4>1. Write(t, [row[t] EXCEPT !.status = "failed", !.due = row[t].due,
                                    !.retry = row[t].retry])
        BY <3>1, <3>4, <3>6 DEF GiveUp, Status
      <4>2. QED
        BY <2>4, <3>1, <3>2, <3>6, <4>1 DEF GiveUp
    <3>7. CASE Reschedule(w)
      <4>1. worker[w].retry + 1 < MaxRetries
        BY <3>3, <3>7, TaskQueueAssumption DEF Reschedule, Exhausted
      <4>2. QED
        BY <2>4, <3>1, <3>3, <3>7, <4>1 DEF Reschedule
    <3>8. QED
      BY <2>5, <3>5, <3>6, <3>7
  <2>6. ASSUME NEW w \in Workers, WriteLost(w) PROVE Steps
    <3>1. PICK t \in Tasks : worker[w].task = t
      BY <2>6 DEF WriteLost, TypeOK, Worker, Outcome
    <3>2. worker[w].at # "idle" /\ Release(w) /\ UNCHANGED <<row, contested>>
      BY <2>6 DEF WriteLost, Outcome
    <3>3. UNCHANGED <<BoardJob, BoardTries>>
      BY <3>2
    <3>4. CASE t \in contested
      BY <3>1, <3>2, <3>3, <3>4, ReleaseExecutor
    <3>5. CASE t \notin contested
      <4>1. /\ BoardExecutor[t] # NoTask
            /\ BoardExecutor' = [BoardExecutor EXCEPT ![t] = NoTask]
        BY <3>1, <3>2, <3>5, ReleaseExecutor
      <4>2. BoardExecutor = [u \in Tasks |-> BoardExecutor[u]]
        BY DEF BoardExecutor
      <4>3. Board!Lose({t})
        BY <3>3, <4>1, <4>2 DEF Board!Lose
      <4>4. QED
        BY <4>3 DEF Board!Next
    <3>6. QED
      BY <3>4, <3>5
  <2>7. ASSUME Crash PROVE Steps
    <3> DEFINE S == {u \in Tasks \ contested : Held(u)}
    <3>1. UNCHANGED <<row, contested>> /\ \A v \in Workers : worker'[v] = Idle
      BY <2>7 DEF Crash
    <3>2. \A v \in Workers, u \in Tasks : ~Holds(v, u)'
      BY <3>1, TaskQueueAssumption DEF Holds, Idle
    <3>3. BoardExecutor' = [u \in Tasks |-> NoTask]
      BY <3>2 DEF BoardExecutor, Held
    <3>4. \A u \in Tasks : BoardExecutor[u] # NoTask <=> u \in S
      <4>1. \A u \in Tasks : u \notin S => BoardExecutor[u] = NoTask
        BY DEF BoardExecutor
      <4>2. ASSUME NEW u \in S PROVE BoardExecutor[u] # NoTask
        <5>1. PICK v \in Workers : Holds(v, u)
          BY DEF Held
        <5>2. BoardExecutor[u] = v
          BY <5>1, ExecutorIsHolder DEF Exclusivity
        <5>3. QED
          BY <5>2, TaskQueueAssumption
      <4>3. QED
        BY <4>1, <4>2
    <3>5. PICK L \in SUBSET Tasks : L = S
      OBVIOUS
    <3>6. Board!Lose(L)
      BY <3>1, <3>3, <3>4, <3>5 DEF Board!Lose
    <3>7. QED
      BY <3>6 DEF Board!Next
  <2>8. ASSUME NEW t \in Tasks, Clock(t) \/ OutlivesLease(t) PROVE Steps
    <3>1. UNCHANGED <<worker, contested>>
      BY <2>8 DEF Clock, BackoffElapses, LeaseExpires, OutlivesLease, observers
    <3>2. UNCHANGED BoardExecutor
      BY <3>1 DEF BoardExecutor, Held, Holds
    <3>3. row' = [row EXCEPT ![t].due = TRUE] \/ row' = [row EXCEPT ![t].overdue = TRUE]
      BY <2>8 DEF Clock, BackoffElapses, LeaseExpires, OutlivesLease
    <3>4. \A u \in Tasks : row'[u].status = row[u].status /\ row'[u].retry = row[u].retry
      BY <3>3, SMTT(40) DEF TypeOK, Row
    <3>5. QED
      BY <3>1, <3>2, <3>4
  <2>9. ASSUME Reclaim PROVE Steps
    <3> DEFINE S == {u \in Tasks : Overdue(u)}
    <3>1. /\ worker' = worker
          /\ contested' = contested \cup {u \in S : Held(u)}
          /\ S # {}
      BY <2>9 DEF Reclaim
    <3>2. \A u \in Tasks : /\ row'[u].retry = row[u].retry
                           /\ u \in S => row[u].status = "running" /\ row'[u].status = "pending"
                           /\ u \notin S => row'[u] = row[u]
      BY <2>9 DEF Reclaim, Overdue, TypeOK, Row
    <3>3. \A u \in Tasks : BoardExecutor'[u] =
            IF u \in contested' THEN NoTask ELSE BoardExecutor[u]
      BY <3>1 DEF BoardExecutor, Held, Holds
    <3>4. \A u \in Tasks \ contested : BoardExecutor[u] = NoTask <=> ~Held(u)
      <4>1. ASSUME NEW u \in Tasks \ contested, Held(u) PROVE BoardExecutor[u] # NoTask
        <5>1. PICK v \in Workers : Holds(v, u)
          BY <4>1 DEF Held
        <5>2. BoardExecutor[u] = v
          BY <5>1, ExecutorIsHolder DEF Exclusivity
        <5>3. QED
          BY <5>2, TaskQueueAssumption
      <4>2. QED
        BY <4>1 DEF BoardExecutor
    <3>5. PICK R \in SUBSET Tasks : R = S
      OBVIOUS
    <3>6. R # {} /\ \A u \in R : BoardJob[u] = "taken" \/ BoardJob[u] = "contested"
      BY <3>1, <3>2, <3>5
    <3>7. BoardJob' = [u \in Tasks |->
                 IF u \notin R THEN BoardJob[u]
                 ELSE IF BoardExecutor[u] = NoTask /\ BoardJob[u] = "taken"
                 THEN "open" ELSE "contested"]
      BY <3>1, <3>2, <3>4, <3>5
    <3>8. \A u \in Tasks : BoardJob'[u] = "contested" <=> u \in contested'
      BY <3>1, <3>2 DEF TypeOK, Row, Status
    <3>9. BoardExecutor' = [u \in Tasks |->
                 IF BoardJob'[u] = "contested" THEN NoTask ELSE BoardExecutor[u]]
      BY <3>3, <3>8 DEF BoardExecutor
    <3>10. BoardTries' = [u \in Tasks |->
                 IF BoardJob'[u] = "contested" THEN 0 ELSE BoardTries[u]]
      BY <3>1, <3>2, <3>8
    <3>11. Board!Reopen(R)
      BY <3>6, <3>7, <3>9, <3>10 DEF Board!Reopen
    <3>12. QED
      BY <3>11 DEF Board!Next
  <2>10. ASSUME NEW t \in Tasks, Cleanup(t) PROVE Steps
    <3>1. UNCHANGED <<worker, contested>> /\ row' = [row EXCEPT ![t].status = "deleted"]
      BY <2>10 DEF Cleanup, observers
    <3>2. UNCHANGED BoardExecutor
      BY <3>1 DEF BoardExecutor, Held, Holds
    <3>3. /\ row[t].status \in {"completed", "failed"} /\ row'[t].status = "deleted"
          /\ row'[t].retry = row[t].retry
          /\ \A u \in Tasks : u # t => row'[u] = row[u]
      BY <2>10, <3>1 DEF Cleanup, Finished, TypeOK, Row
    <3>4. UNCHANGED BoardTries
      BY <3>1, <3>3
    <3>5. CASE t \in contested
      BY <3>1, <3>2, <3>3, <3>4, <3>5
    <3>6. CASE t \notin contested
      <4>1. BoardJob[t] \in {"done", "dropped"} /\ BoardJob' = [BoardJob EXCEPT ![t] = "removed"]
        <5>1. BoardJob[t] \in {"done", "dropped"}
          BY <3>3, <3>6
        <5>2. BoardJob'[t] = "removed" /\ \A u \in Tasks : u # t => BoardJob'[u] = BoardJob[u]
          BY <3>1, <3>3, <3>6
        <5>3. QED
          BY <5>1, <5>2
      <4>2. Board!Remove(t)
        BY <3>2, <3>4, <4>1 DEF Board!Remove
      <4>3. QED
        BY <4>2 DEF Board!Next
    <3>7. QED
      BY <3>5, <3>6
  <2>11. CASE UNCHANGED vars
    BY <2>11 DEF vars, observers, BoardExecutor, Held, Holds
  <2>12. QED
    BY <2>1, <2>2, <2>3, <2>5, <2>6, <2>7, <2>8, <2>9, <2>10, <2>11 DEF Next, WorkerStep
<1>3. QED
  BY <1>1, <1>2, TypeCorrect, StrongExclusivity, PTL
     DEF Spec, ImplementsJobBoard, Board!Spec

(***************************************************************************)
(* The WebSocket hub.                                                      *)
(***************************************************************************)

(* Taking from and adding to the broadcast channel.                        *)
LEMMA ChannelOps ==
    ASSUME NEW s \in Seq(Rooms), NEW r \in Rooms
    PROVE  /\ Append(s, r) \in Seq(Rooms) /\ Len(Append(s, r)) = Len(s) + 1
           /\ s # <<>> => /\ Head(s) \in Rooms
                          /\ Tail(s) \in Seq(Rooms) /\ Len(Tail(s)) = Len(s) - 1
  OBVIOUS

(* The states of a reader and of Run.                                      *)
LEMMA ReaderMoves ==
    ASSUME HubTypeOK, NEW c \in Conns, NEW at \in Reader, ReaderTo(c, at)
    PROVE  reader' \in [Conns -> Reader]
  BY DEF HubTypeOK, ReaderTo

LEMMA HubMoves ==
    ASSUME HubTypeOK
    PROVE  /\ hub.at # "select" => hub.client \in Conns
           /\ [at |-> "select", client |-> None] \in HubState
           /\ \A c \in Conns, at \in {"register", "unregister", "stuck", "dead"} :
                HubIs(at, c) => hub' \in HubState
  BY DEF HubTypeOK, HubState, HubIs

(* Delivering to open connections keeps every buffer within its capacity.  *)
LEMMA DeliverTyped ==
    ASSUME HubTypeOK, NEW served \in SUBSET {c \in Conns : Open(c)}, Deliver(served)
    PROVE  buffer' \in [Conns -> 0 .. SendCap]
<1>1. ASSUME NEW c \in Conns
      PROVE  (buffer[c] + IF c \in served THEN 1 ELSE 0) \in 0 .. SendCap
  BY <1>1, HubAssumption DEF HubTypeOK, Open, Full
<1>2. QED
  BY <1>1 DEF Deliver

(* Type correctness: no channel exceeds its capacity, and every map of the *)
(* hub is about connections.                                               *)
THEOREM HubTypeCorrect == HubSpec => []HubTypeOK
<1>1. HubInit => HubTypeOK
  <2> SUFFICES ASSUME HubInit PROVE HubTypeOK
    OBVIOUS
  <2>1. <<>> \in Seq(Rooms) /\ Len(<<>>) = 0
    OBVIOUS
  <2>2. QED
    BY <2>1, HubAssumption DEF HubInit, HubTypeOK, Reader, Writer, HubState
<1>2. HubTypeOK /\ [HubNext]_hubVars => HubTypeOK'
  <2> SUFFICES ASSUME HubTypeOK, [HubNext]_hubVars PROVE HubTypeOK'
    OBVIOUS
  <2> USE HubAssumption DEF HubTypeOK, conn, index, others
  <2>0. /\ \A c \in Conns, at \in Reader : ReaderTo(c, at) => reader' \in [Conns -> Reader]
        /\ hub.at # "select" => hub.client \in Conns
        /\ [at |-> "select", client |-> None] \in HubState
        /\ \A c \in Conns, at \in {"register", "unregister", "stuck", "dead"} :
             HubIs(at, c) => hub' \in HubState
    BY ReaderMoves, HubMoves
  <2>1. ASSUME NEW c \in Conns, TakeRegister(c) PROVE HubTypeOK'
    BY <2>0, <2>1 DEF TakeRegister, Reader
  <2>2. ASSUME Register PROVE HubTypeOK'
    BY <2>0, <2>2 DEF Register, HubIs
  <2>3. ASSUME NEW c \in Conns, TakeUnregister(c) PROVE HubTypeOK'
    BY <2>0, <2>3 DEF TakeUnregister, Reader
  <2>4. ASSUME Unregister PROVE HubTypeOK'
    <3>1. WithoutClient(hub.client) \in [Rooms -> SUBSET Conns]
      BY DEF WithoutClient
    <3>2. QED
      BY <2>0, <2>4, <3>1 DEF Unregister, HubIs
  <2>5. ASSUME TakeBroadcast PROVE HubTypeOK'
    <3>1. Members \subseteq Conns
      BY <2>5, ChannelOps DEF TakeBroadcast, Members
    <3>2. hub' \in HubState
      BY <2>0, <2>5, <3>1 DEF TakeBroadcast
    <3>3. buffer' \in [Conns -> 0 .. SendCap]
      BY <2>5, <3>1, DeliverTyped DEF TakeBroadcast
    <3>4. broadcast' \in Seq(Rooms) /\ Len(broadcast') <= BroadcastCap
      <4>1. broadcast # <<>> /\ broadcast' = Tail(broadcast) /\ Len(broadcast) \in Nat
        BY <2>5 DEF TakeBroadcast
      <4>2. Tail(broadcast) \in Seq(Rooms) /\ Len(Tail(broadcast)) = Len(broadcast) - 1
        BY <4>1
      <4>3. QED
        BY <4>1, <4>2
    <3>5. QED
      BY <2>5, <3>2, <3>3, <3>4 DEF TakeBroadcast
  <2>6. ASSUME NEW c \in Conns, NEW u \in Users, Connect(c, u) PROVE HubTypeOK'
    BY <2>0, <2>6 DEF Connect, Reader
  <2>7. ASSUME NEW c \in Conns, ReadPump(c) PROVE HubTypeOK'
    <3>1. CASE StartPumps(c)
      BY <2>0, <3>1 DEF StartPumps, Reader, Writer
    <3>2. CASE SendPong(c)
      BY <2>0, <3>2 DEF SendPong, Full, Reader
    <3>3. CASE ReadFails(c)
      BY <2>0, <3>3 DEF ReadFails, Reader
    <3>4. QED
      BY <2>7, <3>1, <3>2, <3>3 DEF ReadPump
  <2>8. ASSUME NEW c \in Conns, ReadPing(c) \/ Break(c) PROVE HubTypeOK'
    <3>1. CASE ReadPing(c)
      BY <2>0, <3>1 DEF ReadPing, Reader
    <3>2. CASE Break(c)
      BY <3>2 DEF Break
    <3>3. QED
      BY <2>8, <3>1, <3>2
  <2>9. ASSUME NEW c \in Conns, WritePump(c) PROVE HubTypeOK'
    <3>1. CASE TakeMessages(c)
      <4>1. PICK n \in 1 .. buffer[c] : buffer' = [buffer EXCEPT ![c] = @ - n]
        BY <3>1 DEF TakeMessages
      <4>2. buffer[c] - n \in 0 .. SendCap
        OBVIOUS
      <4>3. QED
        BY <3>1, <4>1, <4>2 DEF TakeMessages, Writer
    <3>2. CASE Written(c)
      BY <3>2 DEF Written, Writer
    <3>3. CASE WriterEnds(c)
      BY <3>3 DEF WriterEnds, Writer
    <3>4. QED
      BY <2>9, <3>1, <3>2, <3>3 DEF WritePump
  <2>10. ASSUME NEW q \in Requests, NEW u \in Users, LookUp(q, u) PROVE HubTypeOK'
    BY <2>10 DEF LookUp
  <2>11. ASSUME NEW q \in Requests, NEW r \in Rooms, JoinRoom(q, r) \/ LeaveRoom(q, r)
         PROVE  HubTypeOK'
    <3>1. CASE JoinRoom(q, r)
      BY <3>1 DEF JoinRoom
    <3>2. CASE LeaveRoom(q, r)
      BY <3>2 DEF LeaveRoom
    <3>3. QED
      BY <2>11, <3>1, <3>2
  <2>12. ASSUME NEW b \in Broadcasters, NEW r \in Rooms, CallBroadcast(b, r) PROVE HubTypeOK'
    BY <2>12 DEF CallBroadcast
  <2>13. ASSUME NEW b \in Broadcasters, Enqueue(b) PROVE HubTypeOK'
    BY <2>13, ChannelOps DEF Enqueue
  <2>14. CASE UNCHANGED hubVars
    BY <2>14 DEF hubVars
  <2>15. QED
    BY <2>1, <2>2, <2>3, <2>4, <2>5, <2>6, <2>7, <2>8, <2>9, <2>10, <2>11, <2>12,
       <2>13, <2>14 DEF HubNext, HubStep
<1>3. QED
  BY <1>1, <1>2, PTL DEF HubSpec

-----------------------------------------------------------------------------
(* The four safety properties are inductive together with the phases of    *)
(* the connections: one that is registered is open and past its            *)
(* registration, one that is closed has left for good, and Run, while it   *)
(* registers a connection, cannot take its farewell.                       *)
HubInv ==
    /\ IndexedIsRegistered
    /\ RoomsAgree
    /\ OpenWhileRead
    /\ PanicNeedsLateJoin
    /\ Phases
    /\ ClosedMembersAreLate

(* A step that moves only one reader, within its phases, keeps HubInv.     *)
LEMMA ReaderStep ==
    ASSUME HubTypeOK, HubInv, NEW c \in Conns,
           reader[c] \notin {"new", "gone"},
           NEW at \in {"reading", "ponging", "leaving"}, ReaderTo(c, at),
           reader[c] # "registering",
           UNCHANGED <<user, closed, index, hub, late>>
    PROVE  HubInv'
<1> USE DEF HubTypeOK, index, ReaderTo
<1>1. \A d \in Conns : reader'[d] = IF d = c THEN at ELSE reader[d]
  OBVIOUS
<1>2. IndexedIsRegistered' /\ RoomsAgree' /\ PanicNeedsLateJoin' /\ ClosedMembersAreLate'
  BY DEF HubInv, IndexedIsRegistered, RoomsAgree, PanicNeedsLateJoin, ClosedMembersAreLate
<1>3. OpenWhileRead'
  BY <1>1 DEF HubInv, OpenWhileRead
<1>4. Phases'
  BY <1>1 DEF HubInv, Phases
<1>5. QED
  BY <1>2, <1>3, <1>4 DEF HubInv

(* A step that moves none of what HubInv is about.                         *)
LEMMA OtherStep ==
    ASSUME HubInv, UNCHANGED <<user, reader, closed, index, hub, late>>
    PROVE  HubInv'
  BY DEF HubInv, IndexedIsRegistered, RoomsAgree, OpenWhileRead, PanicNeedsLateJoin,
         Phases, ClosedMembersAreLate, index

(* HubInv is inductive and holds in every reachable state.                 *)
LEMMA HubInvariant == HubSpec => []HubInv
<1>1. HubInit => HubInv
  BY DEF HubInit, HubInv, IndexedIsRegistered, RoomsAgree, OpenWhileRead, PanicNeedsLateJoin,
         Phases, ClosedMembersAreLate
<1>2. HubTypeOK /\ HubTypeOK' /\ HubInv /\ [HubNext]_hubVars => HubInv'
  <2> SUFFICES ASSUME HubTypeOK, HubTypeOK', HubInv, [HubNext]_hubVars PROVE HubInv'
    OBVIOUS
  <2>1. ASSUME NEW c \in Conns, TakeRegister(c) PROVE HubInv'
    <3>1. \A d \in Conns : reader'[d] = IF d = c THEN "registered" ELSE reader[d]
      BY <2>1 DEF TakeRegister, ReaderTo, HubTypeOK
    <3>2. /\ hub' = [at |-> "register", client |-> c] /\ reader[c] = "registering"
          /\ UNCHANGED <<user, closed, clients, userIndex, roomIndex, rooms, late>>
      BY <2>1 DEF TakeRegister, HubIs, index, others
    <3>3. IndexedIsRegistered' /\ RoomsAgree' /\ ClosedMembersAreLate' /\ PanicNeedsLateJoin'
      BY <3>2 DEF HubInv, IndexedIsRegistered, RoomsAgree, ClosedMembersAreLate,
                  PanicNeedsLateJoin
    <3>4. OpenWhileRead' /\ Phases'
      BY <3>1, <3>2 DEF HubInv, OpenWhileRead, Phases, HubTypeOK
    <3>5. QED
      BY <3>3, <3>4 DEF HubInv
  <2>2. ASSUME Register PROVE HubInv'
    <3> DEFINE c == hub.client
    <3>1. /\ c \in Conns /\ user[c] \in Users /\ c \notin closed
          /\ reader[c] \notin {"new", "registering", "gone"}
      BY <2>2 DEF Register, HubInv, Phases, OpenWhileRead
    <3>2. /\ clients' = clients \cup {c} /\ hub' = [at |-> "select", client |-> None]
          /\ UNCHANGED <<user, reader, closed, roomIndex, rooms, late>>
      BY <2>2 DEF Register, HubIs, conn, others
    <3>3. \A u \in Users : userIndex'[u] = IF u = user[c] THEN c ELSE userIndex[u]
      BY <2>2, <3>1 DEF Register, HubTypeOK
    <3>4. IndexedIsRegistered'
      BY <3>1, <3>2, <3>3 DEF HubInv, IndexedIsRegistered
    <3>5. RoomsAgree' /\ OpenWhileRead' /\ PanicNeedsLateJoin' /\ ClosedMembersAreLate'
      BY <3>2 DEF HubInv, RoomsAgree, OpenWhileRead, PanicNeedsLateJoin, ClosedMembersAreLate
    <3>6. Phases'
      BY <3>1, <3>2 DEF HubInv, Phases
    <3>7. QED
      BY <3>4, <3>5, <3>6 DEF HubInv
  <2>3. ASSUME NEW c \in Conns, TakeUnregister(c) PROVE HubInv'
    <3>1. \A d \in Conns : reader'[d] = IF d = c THEN "gone" ELSE reader[d]
      BY <2>3 DEF TakeUnregister, ReaderTo, HubTypeOK
    <3>2. /\ reader[c] = "leaving" /\ hub.at = "select"
          /\ \/ c \in clients /\ hub' = [at |-> "unregister", client |-> c]
             \/ hub' = hub
          /\ UNCHANGED <<user, closed, clients, userIndex, roomIndex, rooms, late>>
      BY <2>3 DEF TakeUnregister, HubIs, Selecting, index, others
    <3>3. IndexedIsRegistered' /\ RoomsAgree' /\ ClosedMembersAreLate' /\ PanicNeedsLateJoin'
      BY <3>2 DEF HubInv, IndexedIsRegistered, RoomsAgree, ClosedMembersAreLate,
                  PanicNeedsLateJoin
    <3>4. OpenWhileRead' /\ Phases'
      BY <3>1, <3>2 DEF HubInv, OpenWhileRead, Phases, HubTypeOK
    <3>5. QED
      BY <3>3, <3>4 DEF HubInv
  <2>4. ASSUME Unregister PROVE HubInv'
    <3> DEFINE c == hub.client
    <3>1. c \in clients /\ c \in Conns /\ c \notin closed /\ reader[c] = "gone"
          /\ user[c] \in Users
      BY <2>4 DEF Unregister, HubInv, Phases, HubTypeOK
    <3>2. /\ clients' = clients \ {c} /\ hub' = [at |-> "select", client |-> None]
          /\ closed' = closed \cup {c}
          /\ UNCHANGED <<user, reader, rooms, late>>
      BY <2>4 DEF Unregister, HubIs, others
    <3>3. \A u \in Users : userIndex'[u] = IF u = user[c] THEN None ELSE userIndex[u]
      BY <2>4, <3>1 DEF Unregister, HubTypeOK
    <3>4. \A r \in Rooms : roomIndex'[r] = roomIndex[r] \ {c}
      <4>1. \A r \in Rooms : r \notin rooms[c] => c \notin roomIndex[r]
        BY <3>1 DEF HubInv, RoomsAgree
      <4>2. QED
        BY <2>4, <4>1 DEF Unregister, WithoutClient
    <3>5. IndexedIsRegistered'
      BY <3>1, <3>2, <3>3 DEF HubInv, IndexedIsRegistered
    <3>6. RoomsAgree' /\ ClosedMembersAreLate'
      BY <3>2, <3>4 DEF HubInv, RoomsAgree, ClosedMembersAreLate
    <3>7. OpenWhileRead' /\ PanicNeedsLateJoin' /\ Phases'
      BY <3>1, <3>2 DEF HubInv, OpenWhileRead, PanicNeedsLateJoin, Phases
    <3>8. QED
      BY <3>5, <3>6, <3>7 DEF HubInv
  <2>5. ASSUME TakeBroadcast PROVE HubInv'
    <3>1. /\ \/ hub' = hub
             \/ \E c \in Members : hub' = [at |-> "stuck", client |-> c]
             \/ \E c \in Members : c \in closed /\ hub' = [at |-> "dead", client |-> c]
          /\ UNCHANGED <<user, reader, closed, index, late>>
      BY <2>5 DEF TakeBroadcast, HubIs, index
    <3>2. \A c \in Members : c \in closed => c \in late
      <4>1. Head(broadcast) \in Rooms
        BY <2>5, ChannelOps DEF TakeBroadcast, HubTypeOK
      <4>2. QED
        BY <4>1 DEF Members, HubInv, ClosedMembersAreLate
    <3>3. PanicNeedsLateJoin'
      BY <3>1, <3>2 DEF HubInv, PanicNeedsLateJoin
    <3>4. Phases'
      BY <3>1 DEF HubInv, Phases, index
    <3>5. IndexedIsRegistered' /\ RoomsAgree' /\ OpenWhileRead' /\ ClosedMembersAreLate'
      BY <3>1 DEF HubInv, IndexedIsRegistered, RoomsAgree, OpenWhileRead,
                  ClosedMembersAreLate, index
    <3>6. QED
      BY <3>3, <3>4, <3>5 DEF HubInv
  <2>6. ASSUME NEW c \in Conns, NEW u \in Users, Connect(c, u) PROVE HubInv'
    <3>1. /\ reader[c] = "new"
          /\ \A d \in Conns : reader'[d] = IF d = c THEN "registering" ELSE reader[d]
          /\ \A d \in Conns : user'[d] = IF d = c THEN u ELSE user[d]
          /\ UNCHANGED <<closed, clients, userIndex, roomIndex, rooms, hub, late>>
      BY <2>6 DEF Connect, ReaderAt, ReaderTo, HubTypeOK, index, others
    <3>2. c \notin clients /\ c \notin closed
          /\ (hub.at \in {"register", "unregister"} => hub.client # c)
      BY <3>1 DEF HubInv, Phases, OpenWhileRead
    <3>3. IndexedIsRegistered'
      BY <3>1, <3>2 DEF HubInv, IndexedIsRegistered, HubTypeOK
    <3>4. RoomsAgree' /\ PanicNeedsLateJoin' /\ ClosedMembersAreLate'
      BY <3>1 DEF HubInv, RoomsAgree, PanicNeedsLateJoin, ClosedMembersAreLate
    <3>5. OpenWhileRead' /\ Phases'
      BY <3>1, <3>2 DEF HubInv, OpenWhileRead, Phases, HubTypeOK
    <3>6. QED
      BY <3>3, <3>4, <3>5 DEF HubInv
  <2>7. ASSUME NEW c \in Conns, ReadPump(c) \/ ReadPing(c) PROVE HubInv'
    BY <2>7, ReaderStep
    DEF ReadPump, ReadPing, StartPumps, SendPong, ReadFails, ReaderAt, others
  <2>8. ASSUME NEW c \in Conns, Break(c) \/ WritePump(c) PROVE HubInv'
    BY <2>8, OtherStep DEF Break, WritePump, TakeMessages, Written, WriterEnds, others
  <2>9. ASSUME NEW q \in Requests, NEW u \in Users, LookUp(q, u) PROVE HubInv'
    BY <2>9, OtherStep DEF LookUp, conn
  <2>10. ASSUME NEW q \in Requests, NEW r \in Rooms, JoinRoom(q, r) \/ LeaveRoom(q, r)
         PROVE  HubInv'
    <3>0. PICK c \in Conns : c = request[q]
      BY <2>10 DEF JoinRoom, LeaveRoom, HubTypeOK
    <3>1. UNCHANGED <<user, reader, closed, clients, userIndex, hub>>
      BY <2>10 DEF JoinRoom, LeaveRoom, HubTypeOK, conn
    <3>2. IndexedIsRegistered' /\ OpenWhileRead' /\ Phases'
      BY <3>1 DEF HubInv, IndexedIsRegistered, OpenWhileRead, Phases
    <3>3. late \subseteq late' /\ PanicNeedsLateJoin'
      BY <2>10, <3>0, <3>1 DEF JoinRoom, LeaveRoom, HubInv, PanicNeedsLateJoin
    <3>4. RoomsAgree' /\ ClosedMembersAreLate'
      <4>1. CASE JoinRoom(q, r)
        <5>1. /\ \A s \in Rooms : roomIndex'[s] = IF s = r THEN roomIndex[s] \cup {c} ELSE roomIndex[s]
              /\ \A d \in Conns : rooms'[d] = IF d = c THEN rooms[d] \cup {r} ELSE rooms[d]
              /\ c \in closed => c \in late'
          BY <3>0, <4>1 DEF JoinRoom, HubTypeOK
        <5>2. RoomsAgree'
          <6>1. ASSUME NEW d \in Conns \ closed, NEW s \in Rooms
                PROVE  d \in roomIndex'[s] <=> s \in rooms'[d]
            <7>1. d \in roomIndex[s] <=> s \in rooms[d]
              BY DEF HubInv, RoomsAgree
            <7>2. QED
              BY <5>1, <7>1
          <6>2. QED
            BY <3>1, <6>1 DEF RoomsAgree
        <5>3. ClosedMembersAreLate'
          BY <3>1, <3>3, <5>1, ZenonT(60) DEF HubInv, ClosedMembersAreLate, HubTypeOK
        <5>4. QED
          BY <5>2, <5>3
      <4>2. CASE LeaveRoom(q, r)
        <5>1. /\ \A s \in Rooms : roomIndex'[s] = IF s = r THEN roomIndex[s] \ {c} ELSE roomIndex[s]
              /\ \A d \in Conns : rooms'[d] = IF d = c THEN rooms[d] \ {r} ELSE rooms[d]
          BY <3>0, <4>2 DEF LeaveRoom, HubTypeOK
        <5>2. RoomsAgree'
          <6>1. ASSUME NEW d \in Conns \ closed, NEW s \in Rooms
                PROVE  d \in roomIndex'[s] <=> s \in rooms'[d]
            <7>1. d \in roomIndex[s] <=> s \in rooms[d]
              BY DEF HubInv, RoomsAgree
            <7>2. QED
              BY <5>1, <7>1
          <6>2. QED
            BY <3>1, <6>1 DEF RoomsAgree
        <5>3. ClosedMembersAreLate'
          BY <3>1, <3>3, <5>1 DEF HubInv, ClosedMembersAreLate, HubTypeOK
        <5>4. QED
          BY <5>2, <5>3
      <4>3. QED
        BY <2>10, <4>1, <4>2
    <3>5. QED
      BY <3>2, <3>3, <3>4 DEF HubInv
  <2>11. ASSUME NEW b \in Broadcasters, NEW r \in Rooms, CallBroadcast(b, r)
         PROVE  HubInv'
    BY <2>11, OtherStep DEF CallBroadcast, conn
  <2>12. CASE UNCHANGED hubVars
    BY <2>12, OtherStep DEF hubVars, conn, others
  <2>13. ASSUME NEW b \in Broadcasters, Enqueue(b) PROVE HubInv'
    BY <2>13, OtherStep DEF Enqueue, conn
  <2>14. QED
    BY <2>1, <2>2, <2>3, <2>4, <2>5, <2>6, <2>7, <2>8, <2>9, <2>10, <2>11, <2>12, <2>13
    DEF HubNext, HubStep
<1>3. QED
  BY <1>1, <1>2, HubTypeCorrect, PTL DEF HubSpec

(* A request that looks up a user gets a registered connection of that     *)
(* user, however many connections the user has opened and lost; and        *)
(* client.rooms and the hub's room index agree, so that Unregister finds   *)
(* every room of the connection.                                           *)
THEOREM Indexed == HubSpec => []IndexesAgree
<1>1. HubInv => IndexesAgree
  BY DEF HubInv, IndexesAgree
<1>2. QED
  BY <1>1, HubInvariant, PTL

(* sendPong never meets a closed channel, and a request that joins a room  *)
(* with a connection already unregistered is the only way to a panic of    *)
(* Run.                                                                    *)
THEOREM CloseOrder == HubSpec => []ChannelsCloseInOrder
<1>1. HubInv => ChannelsCloseInOrder
  BY DEF HubInv, ChannelsCloseInOrder
<1>2. QED
  BY <1>1, HubInvariant, PTL
=============================================================================
