--------------------------- MODULE ExperimentProofs ---------------------------
(***************************************************************************)
(* Proofs about EnvLifecycle for any numbers of users, experiments,        *)
(* environments, instances, requests and faults, and any quotas; and about *)
(* Grading for any numbers of requests, submissions, grades and faults.    *)
(***************************************************************************)
EXTENDS MCExperiments, TLAPS, FiniteSetTheorems

Operation == [kind: Kind, at: Point, env: Envs \cup {None},
              next: 1 .. NumInstances + 1, copy: Row]

\* A loop over the instances points at one of them, or is over.
InLoop(r) == r.next \in Instances \/ r.at = "provisioning"

LEMMA BoundsTyped ==
    /\ NumEnvs \in Nat /\ NumInstances \in Nat /\ MaxExtendTimes \in Nat
    /\ MaxUserEnvs \in Nat /\ MaxSchoolEnvs \in Nat
    /\ MaxRequests \in Nat /\ MaxFaults \in Nat
    /\ 1 \in Instances /\ Instances \subseteq 1 .. NumInstances + 1
    /\ \A e \in Envs : e # None
  BY EnvAssumption DEF Instances, Envs

(* The rows that an operation writes are rows. *)
LEMMA RowsTyped ==
    /\ Blank \in Row /\ Blank.status = "absent"
    /\ \A u \in Users, x \in Experiments :
          NewRow(u, x) \in Row /\ NewRow(u, x).status = "creating"
    /\ \A r \in Row, s \in Status :
          [r EXCEPT !.status = s] \in Row /\ [r EXCEPT !.status = s].status = s
    /\ \A r \in Row, n \in Nat : [r EXCEPT !.lease = n, !.extends = r.extends + 1] \in Row
<1>1. \A u \in Users \cup {None}, x \in Experiments \cup {None} :
          NewRow(u, x) \in Row /\ NewRow(u, x).status = "creating"
  BY DEF NewRow, Row, Status
<1>2. \A r \in Row, s \in Status :
          [r EXCEPT !.status = s] \in Row /\ [r EXCEPT !.status = s].status = s
  BY DEF Row
<1>3. ASSUME NEW r \in Row, NEW n \in Nat
      PROVE  [r EXCEPT !.lease = n, !.extends = r.extends + 1] \in Row
  <2>1. r.extends + 1 \in Nat
    BY DEF Row
  <2> DEFINE m == r.extends + 1
  <2> HIDE DEF m
  <2>2. [r EXCEPT !.lease = n, !.extends = m] \in Row
    BY <2>1 DEF Row, m
  <2>3. QED
    BY <2>2 DEF m
<1>4. Blank \in Row /\ Blank.status = "absent"
  BY <1>1, <1>2 DEF Blank, Status
<1>5. QED
  BY <1>1, <1>2, <1>3, <1>4

LEMMA FreeTyped ==
    Free \in Operation /\ Free.at = "free" /\ Free.env = None /\ InLoop(Free)
  BY RowsTyped, BoundsTyped DEF Free, Operation, Kind, Point, InLoop, Instances

(* The moves inside an operation. *)
LEMMA MovesTyped ==
    ASSUME NEW r \in Operation, NEW point \in Point
    PROVE  /\ [r EXCEPT !.at = point, !.next = 1] \in Operation
           /\ InLoop([r EXCEPT !.at = point, !.next = 1])
           /\ r.next \in Instances => [r EXCEPT !.next = @ + 1] \in Operation
           /\ \A e \in Envs : [r EXCEPT !.at = point, !.env = e] \in Operation
           /\ \A e \in Envs : InLoop([r EXCEPT !.at = "provisioning", !.env = e])
           /\ \A c \in Row : [r EXCEPT !.at = point, !.next = 1, !.copy = c] \in Operation
           /\ \A c \in Row : InLoop([r EXCEPT !.at = point, !.next = 1, !.copy = c])
<1> USE BoundsTyped DEF Operation, Instances, InLoop
<1>1. [r EXCEPT !.at = point, !.next = 1] \in Operation
  OBVIOUS
<1>2. InLoop([r EXCEPT !.at = point, !.next = 1])
  OBVIOUS
<1>3. r.next \in Instances => [r EXCEPT !.next = @ + 1] \in Operation
  OBVIOUS
<1>4. \A e \in Envs : [r EXCEPT !.at = point, !.env = e] \in Operation
  OBVIOUS
<1>5. \A c \in Row : [r EXCEPT !.at = point, !.next = 1, !.copy = c] \in Operation
  OBVIOUS
<1>6. \A c \in Row : InLoop([r EXCEPT !.at = point, !.next = 1, !.copy = c])
  OBVIOUS
<1>7. \A e \in Envs : InLoop([r EXCEPT !.at = "provisioning", !.env = e])
  OBVIOUS
<1>8. QED
  BY <1>1, <1>2, <1>3, <1>4, <1>5, <1>6, <1>7

LEMMA SyncTyped ==
    ASSUME TypeOK, NEW e \in Envs, NEW r \in Row
    PROVE  /\ SyncedRow(e, r, ListedInstances) = r
           /\ SyncedRow(e, r, Instances) \in Row
           /\ SyncedRow(e, r, Instances).status
                 \in {"failed", "creating", "running", "terminated"}
           /\ SyncedRow(e, r, Instances) = [r EXCEPT !.status = SyncedRow(e, r, Instances).status]
<1> DEFINE phases == {Phase(e, i) : i \in Instances}
<1>1. SyncedRow(e, r, ListedInstances) = r
  BY DEF SyncedRow, ListedInstances
<1>2. \A i \in Instances : Phase(e, i) \in {"failed", "creating", "running", "terminated"}
  BY DEF Phase, TypeOK, PodState
<1>3. MapRuntimeStatuses(phases) \in {"failed", "creating", "running", "terminated"}
  <2>1. phases \subseteq {"failed", "creating", "running", "terminated"} /\ phases # {}
    BY <1>2, BoundsTyped
  <2> HIDE DEF phases
  <2>2. \/ "failed" \in phases
        \/ "creating" \in phases /\ "failed" \notin phases
        \/ phases \subseteq {"running", "terminated"} /\ "running" \in phases
        \/ phases = {"terminated"}
    BY <2>1
  <2>3. QED
    BY <2>2 DEF MapRuntimeStatuses
<1>4. SyncedRow(e, r, Instances) = [r EXCEPT !.status = MapRuntimeStatuses(phases)]
  BY BoundsTyped DEF SyncedRow
<1>5. QED
  <2> DEFINE s == MapRuntimeStatuses(phases)
  <2>1. s \in Status /\ s \in {"failed", "creating", "running", "terminated"}
    BY <1>3 DEF Status
  <2> HIDE DEF s
  <2>2. [r EXCEPT !.status = s] \in Row /\ [r EXCEPT !.status = s].status = s
    BY <2>1, RowsTyped
  <2>3. SyncedRow(e, r, Instances) = [r EXCEPT !.status = s]
    BY <1>4 DEF s
  <2>4. QED
    BY <1>1, <2>1, <2>2, <2>3

-----------------------------------------------------------------------------
OpTyped == op \in [Actors -> Operation] /\ \A o \in Actors : InLoop(op[o])

\* Actor o goes on with r; the others stay where they are.
Moves(o, r) == op'[o] = r /\ \A p \in Actors \ {o} : op'[p] = op[p]

TypeInv ==
    /\ row \in [Envs -> Row]
    /\ elapsed \in [Envs -> Nat]
    /\ pods \in [Envs -> [Instances -> PodState]]
    /\ OpTyped
    /\ listed \subseteq Envs
    /\ requests \in 0 .. MaxRequests
    /\ faults \in 0 .. MaxFaults
    /\ marks \in [Envs -> SUBSET Mark]
    /\ granted \in [Envs -> Nat]
    /\ crowded \in BOOLEAN

LEMMA TypeParts == (TypeOK <=> TypeInv) /\ (TypeOK' <=> TypeInv')
<1>1. TypeOK <=> TypeInv
  BY DEF TypeInv, TypeOK, OpTyped, Operation, InLoop, At
<1>2. TypeOK' <=> TypeInv'
  BY DEF TypeInv, TypeOK, OpTyped, Operation, InLoop, At
<1>3. QED
  BY <1>1, <1>2

LEMMA OpUpdate ==
    ASSUME OpTyped, NEW o \in Actors, NEW r \in Operation, InLoop(r),
           op' = [op EXCEPT ![o] = r]
    PROVE  OpTyped' /\ Moves(o, r)
  BY DEF OpTyped, Moves

LEMMA OpMoves ==
    ASSUME OpTyped, NEW o \in Actors
    PROVE  /\ \A point \in Point : Goto(o, point) =>
                 /\ OpTyped'
                 /\ Moves(o, [op[o] EXCEPT !.at = point, !.next = 1])
           /\ NextInstance(o) /\ op[o].next \in Instances
              /\ (op[o].next # NumInstances \/ op[o].at = "provisioning") =>
                 /\ OpTyped'
                 /\ Moves(o, [op[o] EXCEPT !.next = op[o].next + 1])
           /\ Done(o) => OpTyped' /\ Moves(o, Free)
<1> op[o] \in Operation
  BY DEF OpTyped
<1>1. ASSUME NEW point \in Point, Goto(o, point)
      PROVE  OpTyped' /\ Moves(o, [op[o] EXCEPT !.at = point, !.next = 1])
  <2>1. op' = [op EXCEPT ![o] = [op[o] EXCEPT !.at = point, !.next = 1]]
    BY <1>1 DEF Goto, OpTyped
  <2>2. QED
    BY <2>1, MovesTyped, OpUpdate
<1>2. ASSUME NextInstance(o), op[o].next \in Instances,
             op[o].next # NumInstances \/ op[o].at = "provisioning"
      PROVE  OpTyped' /\ Moves(o, [op[o] EXCEPT !.next = op[o].next + 1])
  <2>1. op' = [op EXCEPT ![o] = [op[o] EXCEPT !.next = op[o].next + 1]]
    BY <1>2 DEF NextInstance, OpTyped
  <2>2. [op[o] EXCEPT !.next = op[o].next + 1] \in Operation
    <3>1. op[o].at \in Point
      BY DEF Operation
    <3>2. QED
      BY <3>1, <1>2, MovesTyped
  <2>3. InLoop([op[o] EXCEPT !.next = op[o].next + 1])
    BY <1>2, BoundsTyped DEF InLoop, Operation, Instances
  <2>4. QED
    BY <2>1, <2>2, <2>3, OpUpdate
<1>3. ASSUME Done(o) PROVE OpTyped' /\ Moves(o, Free)
  BY <1>3, FreeTyped, OpUpdate DEF Done
<1>4. QED
  BY <1>1, <1>2, <1>3

\* The row of e becomes r; the others stay as they are.
Writes(e, r) == row'[e] = r /\ \A d \in Envs \ {e} : row'[d] = row[d]

LEMMA RowWrites ==
    ASSUME row \in [Envs -> Row], NEW e \in Envs
    PROVE  /\ \A r \in Row : Update(e, r) => row' \in [Envs -> Row] /\ Writes(e, r)
           /\ \A s \in Status : UpdateStatus(e, s) =>
                 row' \in [Envs -> Row] /\ Writes(e, [row[e] EXCEPT !.status = s])
<1>1. ASSUME NEW r \in Row, Update(e, r) PROVE row' \in [Envs -> Row] /\ Writes(e, r)
  BY <1>1 DEF Update, Writes
<1>2. ASSUME NEW s \in Status, UpdateStatus(e, s)
      PROVE  row' \in [Envs -> Row] /\ Writes(e, [row[e] EXCEPT !.status = s])
  <2>1. row' = [row EXCEPT ![e] = [row[e] EXCEPT !.status = s]]
    BY <1>2 DEF UpdateStatus
  <2>2. [row[e] EXCEPT !.status = s] \in Row
    BY RowsTyped
  <2>3. QED
    BY <2>1, <2>2 DEF Writes
<1>3. QED
  BY <1>1, <1>2

(* Marks only grow. *)
LEMMA MarkWrites ==
    ASSUME marks \in [Envs -> SUBSET Mark], NEW e \in Envs, NEW m \in Mark, MarkEnv(e, m)
    PROVE  /\ marks' \in [Envs -> SUBSET Mark]
           /\ marks'[e] = marks[e] \cup {m}
           /\ \A d \in Envs \ {e} : marks'[d] = marks[d]
  BY DEF MarkEnv

LEMMA PodWrites ==
    ASSUME pods \in [Envs -> [Instances -> PodState]],
           NEW e \in Envs, NEW i \in Instances, NEW s \in PodState, SetPod(e, i, s)
    PROVE  /\ pods' \in [Envs -> [Instances -> PodState]]
           /\ pods'[e][i] = s
           /\ \A d \in Envs, j \in Instances : d # e \/ j # i => pods'[d][j] = pods[d][j]
<1>1. pods' = [pods EXCEPT ![e] = [pods[e] EXCEPT ![i] = s]]
  BY DEF SetPod
<1>2. pods[e] \in [Instances -> PodState]
  OBVIOUS
<1>3. [pods[e] EXCEPT ![i] = s] \in [Instances -> PodState]
  BY <1>2
<1>4. QED
  BY <1>1, <1>2, <1>3

LEMMA FaultTyped == ASSUME faults \in 0 .. MaxFaults, Fault PROVE faults' \in 0 .. MaxFaults
  BY BoundsTyped DEF Fault

LEMMA BeginTyped ==
    ASSUME TypeInv, NEW o \in Requests, NEW e \in Envs, NEW kind \in Kind, NEW point \in Point,
           Begin(o, kind, e, point)
    PROVE  /\ TypeInv'
           /\ Moves(o, [kind |-> kind, at |-> point, env |-> e, next |-> 1, copy |-> row[e]])
<1> DEFINE r == [kind |-> kind, at |-> point, env |-> e, next |-> 1, copy |-> row[e]]
<1>1. r \in Operation /\ InLoop(r)
  BY BoundsTyped DEF TypeInv, Operation, InLoop
<1>2. OpTyped' /\ Moves(o, r)
  BY <1>1, OpUpdate DEF TypeInv, Begin, Actors
<1>3. requests' \in 0 .. MaxRequests
  BY BoundsTyped DEF TypeInv, Begin
<1>4. marks' \in [Envs -> SUBSET Mark]
  BY DEF TypeInv, Begin, Mark
<1>5. QED
  BY <1>2, <1>3, <1>4 DEF TypeInv, Begin, resources

LEMMA RequestTyped ==
    ASSUME TypeInv, NEW o \in Requests, UserRequest(o)
    PROVE  TypeInv'
<1>1. ASSUME NEW u \in Users, NEW x \in Experiments, Admit(o, u, x) PROVE TypeInv'
  <2> DEFINE r == [kind |-> "create", at |-> "admitted", env |-> None,
                   next |-> 1, copy |-> NewRow(u, x)]
  <2>1. r \in Operation /\ InLoop(r)
    BY BoundsTyped, RowsTyped DEF Operation, InLoop, Kind, Point
  <2>2. OpTyped'
    BY <1>1, <2>1, OpUpdate DEF Admit, Actors, TypeInv
  <2>3. requests' \in 0 .. MaxRequests
    BY <1>1, BoundsTyped DEF Admit, TypeInv
  <2>4. crowded' \in BOOLEAN
    BY <1>1 DEF Admit
  <2>5. QED
    BY <1>1, <2>2, <2>3, <2>4 DEF Admit, TypeInv, resources
<1>2. ASSUME NEW e \in Envs,
             Stop(o, e) \/ Pause(o, e) \/ Resume(o, e)
                \/ Extend(o, e) \/ Snapshot(o, e) \/ Poll(o, e)
      PROVE  TypeInv'
  <2>1. PICK kind \in Kind, point \in Point : Begin(o, kind, e, point)
    BY <1>2 DEF Stop, Pause, Resume, Extend, Snapshot, Poll, Kind, Point
  <2>2. QED
    BY <2>1, BeginTyped
<1>3. QED
  BY <1>1, <1>2 DEF UserRequest

\* An actor in an operation on an environment.
LEMMA OwnerTyped ==
    ASSUME TypeInv, NEW o \in Actors
    PROVE  /\ op[o] \in Operation /\ op[o].at \in Point
           /\ op[o].copy \in Row /\ op[o].copy.lease \in Nat
           /\ Env(o) \in Envs \cup {None} /\ InLoop(op[o])
  BY DEF TypeInv, OpTyped, Operation, Row, Env

-----------------------------------------------------------------------------
\* What an operation knows about its row at each place.
Fits(r) ==
    /\ r.env = None <=> r.at \in {"free", "admitted"}
    /\ r.env # None => r.copy.status # "absent"
    /\ r.at = "admitted" =>
          /\ r.kind = "create"
          /\ r.next = 1
          /\ \E u \in Users, x \in Experiments : r.copy = NewRow(u, x)
    /\ r.at = "provisioning" =>
          \/ r.kind = "create" /\ r.copy.status = "creating"
          \/ r.kind = "resume" /\ r.copy.status = "paused"
    /\ r.at \in {"waiting", "ready", "failing"} => r.copy.status = "creating"
    /\ r.at \in {"snapshotting", "deleting", "closing"} /\ r.kind = "pause"
          => r.copy.status = "running"
    /\ r.at = "extending" => r.copy.extends < MaxExtendTimes

PointsFit ==
    /\ \A o \in Actors : Fits(op[o])
    /\ ~At(Scheduler, "admitted")

LEMMA PointsMove ==
    ASSUME PointsFit, NEW o \in Actors, NEW r, Moves(o, r), Fits(r),
           o = Scheduler => r.at # "admitted"
    PROVE  PointsFit'
  BY EnvAssumption DEF PointsFit, Moves, At, Actors

LEMMA OpStepTyped ==
    ASSUME TypeInv, PointsFit, NEW o \in Actors, OpStep(o)
    PROVE  TypeInv'
<1> USE OwnerTyped, BoundsTyped, RowsTyped
<1> DEFINE r == op[o]
<1>0. ~At(o, "admitted") /\ ~At(o, "free") => Env(o) \in Envs
  BY DEF PointsFit, Fits, At, Env
<1>1. ASSUME Insert(o) PROVE TypeInv'
  <2>1. PICK e \in Envs :
            /\ Update(e, r.copy)
            /\ op' = [op EXCEPT ![o].at = "provisioning", ![o].env = e]
    BY <1>1 DEF Insert
  <2>2. op' = [op EXCEPT ![o] = [r EXCEPT !.at = "provisioning", !.env = e]]
    BY <2>1 DEF TypeInv, OpTyped
  <2>3. [r EXCEPT !.at = "provisioning", !.env = e] \in Operation
    BY MovesTyped DEF Point
  <2>4. InLoop([r EXCEPT !.at = "provisioning", !.env = e])
    BY MovesTyped DEF Point
  <2>5. OpTyped'
    BY <2>2, <2>3, <2>4, OpUpdate DEF TypeInv
  <2>6. row' \in [Envs -> Row]
    BY <2>1, RowWrites DEF TypeInv
  <2>7. QED
    BY <1>1, <2>5, <2>6 DEF Insert, TypeInv, observers
<1>2. ASSUME StartInstance(o) PROVE TypeInv'
  <2>1. Env(o) \in Envs
    BY <1>0, <1>2 DEF StartInstance, At
  <2>2. OpTyped'
    BY <1>2, OpMoves DEF StartInstance, TypeInv, At
  <2>3. pods' \in [Envs -> [Instances -> PodState]]
    BY <1>2, <2>1, PodWrites DEF StartInstance, TypeInv, PodState
  <2>4. QED
    BY <1>2, <2>2, <2>3 DEF StartInstance, TypeInv, observers
<1>3. ASSUME StartFails(o) PROVE TypeInv'
  <2>1. Env(o) \in Envs
    BY <1>0, <1>3 DEF StartFails, At
  <2>2. OpTyped'
    <3>1. Goto(o, "failing") \/ Done(o)
      BY <1>3 DEF StartFails
    <3>2. QED
      BY <3>1, OpMoves DEF TypeInv, Point
  <2>3. marks' \in [Envs -> SUBSET Mark]
    BY <1>3, <2>1, MarkWrites DEF StartFails, TypeInv, Mark
  <2>4. pods' \in [Envs -> [Instances -> PodState]] /\ faults' \in 0 .. MaxFaults
    BY <1>3, <2>1, PodWrites, FaultTyped, ZenonT(60) DEF StartFails, StartRefused, TypeInv, PodState
  <2>5. QED
    BY <1>3, <2>2, <2>3, <2>4 DEF StartFails, TypeInv
<1>4. ASSUME Provisioned(o) PROVE TypeInv'
  <2>1. Env(o) \in Envs
    BY <1>0, <1>4 DEF Provisioned, At
  <2>2. CASE r.kind = "create"
    <3>1. OpTyped'
      BY <1>4, <2>2, OpMoves DEF Provisioned, TypeInv, Point
    <3>2. QED
      BY <1>4, <2>2, <3>1 DEF Provisioned, TypeInv
  <2>3. CASE r.kind # "create"
    <3> DEFINE c == [r.copy EXCEPT !.status = "creating"]
    <3>1. c \in Row
      BY DEF Status
    <3>2. op' = [op EXCEPT ![o] = [r EXCEPT !.at = "waiting", !.next = 1, !.copy = c]]
      BY <1>4, <2>3 DEF Provisioned, TypeInv, OpTyped
    <3>3. OpTyped'
      <4> HIDE DEF c
      <4>1. LET q == [r EXCEPT !.at = "waiting", !.next = 1, !.copy = c]
            IN  q \in Operation /\ InLoop(q)
        BY <3>1, MovesTyped DEF Point
      <4>2. QED
        BY <3>2, <4>1, OpUpdate DEF TypeInv
    <3>4. row' \in [Envs -> Row]
      BY <1>4, <2>1, <2>3, <3>1, RowWrites DEF Provisioned, TypeInv
    <3>5. marks' \in [Envs -> SUBSET Mark]
      BY <1>4, <2>1, <2>3, MarkWrites DEF Provisioned, TypeInv, Mark
    <3>6. QED
      BY <1>4, <2>3, <3>3, <3>4, <3>5 DEF Provisioned, TypeInv
  <2>4. QED
    BY <2>2, <2>3
<1>5. ASSUME InstanceReady(o) PROVE TypeInv'
  <2>1. OpTyped'
    BY <1>5, OpMoves DEF InstanceReady, TypeInv, Point
  <2>2. QED
    BY <1>5, <2>1 DEF InstanceReady, TypeInv, resources, observers
<1>6. ASSUME InstanceNotReady(o) PROVE TypeInv'
  <2>1. OpTyped'
    BY <1>6, OpMoves DEF InstanceNotReady, TypeInv, Point
  <2>2. QED
    BY <1>6, <2>1 DEF InstanceNotReady, TypeInv, resources, observers
<1>7. ASSUME WriteVerdict(o) PROVE TypeInv'
  <2>1. Env(o) \in Envs
    BY <1>0, <1>7 DEF WriteVerdict, At
  <2>2. OpTyped'
    BY <1>7, OpMoves DEF WriteVerdict, TypeInv
  <2>3. PICK s \in Status : Update(Env(o), [r.copy EXCEPT !.status = s])
    BY <1>7 DEF WriteVerdict, Status
  <2>4. row' \in [Envs -> Row]
    BY <2>1, <2>3, RowWrites DEF TypeInv
  <2>5. QED
    BY <1>7, <2>2, <2>4 DEF WriteVerdict, TypeInv, observers
<1>8. ASSUME SnapshotTaken(o) PROVE TypeInv'
  <2>1. Env(o) \in Envs
    BY <1>0, <1>8 DEF SnapshotTaken, At
  <2>2. OpTyped'
    BY <1>8, OpMoves DEF SnapshotTaken, TypeInv, Point
  <2>3. row' \in [Envs -> Row]
    BY <1>8, <2>1, RowWrites DEF SnapshotTaken, TypeInv
  <2>4. QED
    BY <1>8, <2>2, <2>3 DEF SnapshotTaken, TypeInv, observers
<1>9. ASSUME SnapshotRefused(o) PROVE TypeInv'
  <2>1. OpTyped'
    BY <1>9, OpMoves DEF SnapshotRefused, TypeInv
  <2>2. QED
    BY <1>9, <2>1 DEF SnapshotRefused, TypeInv, resources, observers
<1>10. ASSUME DeleteInstance(o) PROVE TypeInv'
  <2>1. Env(o) \in Envs /\ r.next \in Instances
    BY <1>0, <1>10 DEF DeleteInstance, At
  <2>2. OpTyped'
    BY <1>10, OpMoves DEF DeleteInstance, TypeInv, Point
  <2>3. pods' \in [Envs -> [Instances -> PodState]]
    <3>1. \/ UNCHANGED pods
          \/ SetPod(Env(o), r.next, "terminating")
      BY <1>10 DEF DeleteInstance, SetPod
    <3>2. QED
      BY <2>1, <3>1, PodWrites DEF TypeInv, PodState
  <2>4. marks' \in [Envs -> SUBSET Mark] /\ faults' \in 0 .. MaxFaults
    BY <1>10, <2>1, MarkWrites, FaultTyped DEF DeleteInstance, TypeInv, Mark
  <2>5. QED
    BY <1>10, <2>2, <2>3, <2>4 DEF DeleteInstance, TypeInv
<1>11. ASSUME Close(o) PROVE TypeInv'
  <2>1. Env(o) \in Envs
    BY <1>0, <1>11 DEF Close, At
  <2>2. OpTyped'
    BY <1>11, OpMoves DEF Close, TypeInv
  <2>3. row' \in [Envs -> Row]
    BY <1>11, <2>1, RowWrites DEF Close, TypeInv, Status
  <2>4. QED
    BY <1>11, <2>2, <2>3 DEF Close, TypeInv, observers
<1>12. ASSUME GrantExtension(o) PROVE TypeInv'
  <2>1. Env(o) \in Envs
    BY <1>0, <1>12 DEF GrantExtension, At
  <2>2. OpTyped'
    BY <1>12, OpMoves DEF GrantExtension, TypeInv
  <2> DEFINE n == r.copy.lease + 1
             c == [row[Env(o)] EXCEPT !.lease = n, !.extends = row[Env(o)].extends + 1]
  <2>3. row' = [row EXCEPT ![Env(o)] = c]
    BY <1>12, <2>1 DEF GrantExtension, TypeInv
  <2>4. n \in Nat /\ row[Env(o)] \in Row
    <3>1. r.copy.lease \in Nat
      OBVIOUS
    <3>2. row[Env(o)] \in Row
      BY <2>1 DEF TypeInv
    <3> HIDE DEF r
    <3>3. n \in Nat
      BY ONLY <3>1
    <3>4. QED
      BY <3>2, <3>3
  <2>5. c \in Row
    <3> HIDE DEF n
    <3> QED BY <2>4, RowsTyped
  <2>6. row' \in [Envs -> Row]
    <3> HIDE DEF c
    <3> QED BY <2>1, <2>3, <2>5 DEF TypeInv
  <2>7. granted' \in [Envs -> Nat]
    <3>1. granted \in [Envs -> Nat] /\ granted' = [granted EXCEPT ![Env(o)] = @ + 1]
      BY <1>12 DEF GrantExtension, TypeInv
    <3>2. QED
      BY ONLY <2>1, <3>1
  <2>8. QED
    BY <1>12, <2>2, <2>6, <2>7 DEF GrantExtension, TypeInv
<1>13. ASSUME PollAnswered(o) PROVE TypeInv'
  <2>1. Env(o) \in Envs
    BY <1>0, <1>13 DEF PollAnswered, At
  <2>2. OpTyped'
    BY <1>13, OpMoves DEF PollAnswered, TypeInv
  <2>3. SyncedRow(Env(o), r.copy, Instances) \in Row
    BY <2>1, SyncTyped, TypeParts
  <2>4. row' \in [Envs -> Row]
    BY <1>13, <2>1, <2>3, RowWrites DEF PollAnswered, TypeInv
  <2>5. marks' \in [Envs -> SUBSET Mark]
    BY <1>13, <2>1, MarkWrites DEF PollAnswered, TypeInv, Mark
  <2>6. QED
    BY <1>13, <2>2, <2>4, <2>5 DEF PollAnswered, TypeInv
<1>14. QED
  BY <1>1, <1>2, <1>3, <1>4, <1>5, <1>6, <1>7, <1>8, <1>9, <1>10, <1>11, <1>12, <1>13
     DEF OpStep

LEMMA FreeFits == Fits(Free) /\ Free.at = "free"
  BY RowsTyped DEF Free, Fits

LEMMA SchedulerStays == Scheduler \in Actors /\ Scheduler \notin Requests
  BY EnvAssumption DEF Actors

LEMMA RequestFits ==
    ASSUME TypeInv, PointsFit, NEW o \in Requests, UserRequest(o)
    PROVE  PointsFit'
<1>0. o \in Actors /\ o # Scheduler
  BY SchedulerStays DEF Actors
<1>1. ASSUME NEW u \in Users, NEW x \in Experiments, Admit(o, u, x) PROVE PointsFit'
  <2> DEFINE r == [kind |-> "create", at |-> "admitted", env |-> None,
                   next |-> 1, copy |-> NewRow(u, x)]
  <2>1. Moves(o, r)
    BY <1>0, <1>1 DEF Admit, TypeInv, OpTyped, Moves
  <2>2. Fits(r)
    BY RowsTyped DEF Fits
  <2>3. QED
    BY <1>0, <2>1, <2>2, PointsMove
<1>2. ASSUME NEW e \in Envs,
             Stop(o, e) \/ Pause(o, e) \/ Resume(o, e)
                \/ Extend(o, e) \/ Snapshot(o, e) \/ Poll(o, e)
      PROVE  PointsFit'
  <2>1. PICK kind \in Kind, point \in Point :
           /\ Begin(o, kind, e, point)
           /\ point \in {"snapshotting", "deleting", "provisioning", "extending", "polling"}
           /\ point = "provisioning" => kind = "resume" /\ row[e].status = "paused"
           /\ kind = "pause" => row[e].status = "running"
           /\ point = "extending" => row[e].extends < MaxExtendTimes
    BY <1>2 DEF Stop, Pause, Resume, Extend, Snapshot, Poll, Kind, Point
  <2> DEFINE r == [kind |-> kind, at |-> point, env |-> e, next |-> 1, copy |-> row[e]]
  <2>2. Moves(o, r)
    BY <2>1, BeginTyped
  <2>3. Fits(r)
    BY <2>1, BoundsTyped DEF Fits, Begin
  <2>4. QED
    BY <1>0, <2>1, <2>2, <2>3, PointsMove
<1>3. QED
  BY <1>1, <1>2 DEF UserRequest

LEMMA OpStepFits ==
    ASSUME TypeInv, PointsFit, NEW o \in Actors, OpStep(o)
    PROVE  PointsFit'
<1> DEFINE r == op[o]
<1>0. r \in Operation /\ Fits(r) /\ r.copy \in Row /\ OpTyped
  BY OwnerTyped DEF PointsFit, TypeInv
<1>1. ASSUME Insert(o) PROVE PointsFit'
  <2>1. PICK e \in Envs : op' = [op EXCEPT ![o].at = "provisioning", ![o].env = e]
    BY <1>1 DEF Insert
  <2> DEFINE q == [r EXCEPT !.at = "provisioning", !.env = e]
  <2>2. Moves(o, q)
    BY <2>1 DEF TypeInv, OpTyped, Moves
  <2>3. r.copy.status = "creating" /\ r.kind = "create"
    <3>1. /\ r.kind = "create"
          /\ \E u \in Users, x \in Experiments : r.copy = NewRow(u, x)
      BY <1>0, <1>1 DEF Fits, Insert, At
    <3>2. QED
      BY <3>1, RowsTyped
  <2>4. q.at = "provisioning" /\ q.env = e /\ q.kind = r.kind /\ q.copy = r.copy
    BY <1>0 DEF Operation
  <2>5. Fits(q)
    <3> HIDE DEF q, r
    <3> QED BY <2>3, <2>4, BoundsTyped DEF Fits
  <2>6. QED
    <3> HIDE DEF q
    <3> QED BY <2>2, <2>4, <2>5, PointsMove
<1> DEFINE Goes(point) == [r EXCEPT !.at = point, !.next = 1]
<1>2. ASSUME NEW point \in Point, Goto(o, point),
             point \notin {"free", "admitted", "provisioning", "extending"},
             r.env # None,
             point \in {"waiting", "ready", "failing"} => r.copy.status = "creating",
             point \in {"snapshotting", "deleting", "closing"} /\ r.kind = "pause"
                => r.copy.status = "running"
      PROVE  PointsFit'
  <2>1. Moves(o, Goes(point))
    BY <1>0, <1>2, OpMoves
  <2>2. /\ Goes(point).at = point /\ Goes(point).env = r.env
        /\ Goes(point).kind = r.kind /\ Goes(point).copy = r.copy
    BY <1>0 DEF Operation
  <2> DEFINE q == Goes(point)
  <2>3. Fits(q) /\ q.at # "admitted"
    <3> HIDE DEF q
    <3>1. q.at = point /\ q.env = r.env /\ q.kind = r.kind /\ q.copy = r.copy
      BY <2>2 DEF q
    <3> HIDE DEF r
    <3>2. QED
      BY <1>0, <1>2, <3>1 DEF Fits
  <2>4. QED
    <3> HIDE DEF Goes
    <3> QED BY <2>1, <2>3, PointsMove
<1>3. ASSUME NextInstance(o), r.next \in Instances, r.at # "admitted",
             r.next # NumInstances \/ r.at = "provisioning"
      PROVE  PointsFit'
  <2> DEFINE q == [r EXCEPT !.next = r.next + 1]
  <2>1. Moves(o, q)
    BY <1>0, <1>3, OpMoves
  <2>2. q.at = r.at /\ q.env = r.env /\ q.kind = r.kind /\ q.copy = r.copy
    BY <1>0 DEF Operation
  <2>3. Fits(q)
    <3> HIDE DEF q, r
    <3> QED BY <1>0, <1>3, <2>2 DEF Fits
  <2>4. o = Scheduler => q.at # "admitted"
    BY <2>2 DEF PointsFit, At
  <2>5. QED
    <3> HIDE DEF q
    <3> QED BY <2>1, <2>3, <2>4, PointsMove
<1>4. ASSUME Done(o) PROVE PointsFit'
  BY <1>0, <1>4, OpMoves, FreeFits, PointsMove
<1>5. ~At(o, "admitted") /\ ~At(o, "free") => r.env # None
  BY <1>0 DEF Fits, At
<1>6. ASSUME StartInstance(o) PROVE PointsFit'
  BY <1>3, <1>6 DEF StartInstance, At
<1>7. ASSUME StartFails(o) PROVE PointsFit'
  <2>1. CASE Done(o)
    BY <1>4, <2>1
  <2>2. CASE r.kind = "create" /\ Goto(o, "failing")
    <3>1. r.copy.status = "creating" /\ r.env # None
      BY <1>0, <1>5, <1>7, <2>2 DEF StartFails, Fits, At
    <3>2. QED
      BY <1>2, <2>2, <3>1 DEF Point
  <2>3. QED
    BY <1>7, <2>1, <2>2 DEF StartFails
<1>8. ASSUME Provisioned(o) PROVE PointsFit'
  <2>0. r.env # None /\ At(o, "provisioning")
    BY <1>5, <1>8 DEF Provisioned, At
  <2>1. CASE r.kind = "create"
    <3>1. r.copy.status = "creating"
      BY <1>0, <2>0, <2>1 DEF Fits, At
    <3>2. QED
      BY <1>2, <1>8, <2>0, <2>1, <3>1 DEF Point, Provisioned
  <2>2. CASE r.kind # "create"
    <3> DEFINE c == [r.copy EXCEPT !.status = "creating"]
               q == [r EXCEPT !.at = "waiting", !.next = 1, !.copy = c]
    <3>1. op' = [op EXCEPT ![o] = q]
      BY <1>8, <2>2 DEF Provisioned, TypeInv, OpTyped
    <3>2. Moves(o, q)
      <4> HIDE DEF q
      <4> QED BY <3>1 DEF TypeInv, OpTyped, Moves
    <3>3. c \in Row /\ c.status = "creating"
      BY <1>0, RowsTyped DEF Status
    <3>4. q.at = "waiting" /\ q.env = r.env /\ q.copy = c
      <4> HIDE DEF c
      <4> QED BY <1>0, <3>3 DEF Operation
    <3>5. Fits(q)
      <4> HIDE DEF q, c, r
      <4> QED BY <2>0, <3>3, <3>4 DEF Fits
    <3>6. QED
      <4> HIDE DEF q
      <4> QED BY <3>2, <3>4, <3>5, PointsMove
  <2>3. QED
    BY <2>1, <2>2
<1>9. ASSUME InstanceReady(o) PROVE PointsFit'
  <2>1. r.env # None /\ r.copy.status = "creating"
    BY <1>0, <1>5, <1>9 DEF InstanceReady, At, Fits
  <2>2. QED
    BY <1>2, <1>3, <1>9, <2>1 DEF InstanceReady, Point, At
<1>10. ASSUME InstanceNotReady(o) PROVE PointsFit'
  <2>1. r.env # None /\ r.copy.status = "creating"
    BY <1>0, <1>5, <1>10 DEF InstanceNotReady, At, Fits
  <2>2. QED
    BY <1>2, <1>10, <2>1 DEF InstanceNotReady, Point
<1>11. ASSUME SnapshotTaken(o) PROVE PointsFit'
  <2>1. r.env # None /\ (r.kind = "pause" => r.copy.status = "running")
    BY <1>0, <1>5, <1>11 DEF SnapshotTaken, At, Fits
  <2>2. QED
    BY <1>2, <1>4, <1>11, <2>1 DEF SnapshotTaken, Point
<1>12. ASSUME DeleteInstance(o) PROVE PointsFit'
  <2>1. r.env # None /\ (r.kind = "pause" => r.copy.status = "running")
    BY <1>0, <1>5, <1>12 DEF DeleteInstance, At, Fits
  <2>2. QED
    BY <1>2, <1>3, <1>12, <2>1 DEF DeleteInstance, Point, At
<1>13. ASSUME WriteVerdict(o) \/ SnapshotRefused(o) \/ Close(o)
                \/ GrantExtension(o) \/ PollAnswered(o)
       PROVE  PointsFit'
  BY <1>4, <1>13 DEF WriteVerdict, SnapshotRefused, Close, GrantExtension, PollAnswered
<1>14. QED
  BY <1>1, <1>6, <1>7, <1>8, <1>9, <1>10, <1>11, <1>12, <1>13 DEF OpStep

\* A step outside the requests and their operations leaves the operations
\* alone, ends some of them, or starts the one of the clean-up job.
LEMMA AbandonKeeps ==
    ASSUME TypeInv, PointsFit, NEW o \in Actors, Abandon(o)
    PROVE  TypeInv' /\ PointsFit'
<1>1. OpTyped' /\ Moves(o, Free)
  BY OpMoves DEF Abandon, TypeInv
<1>2. PointsFit'
  BY <1>1, FreeFits, PointsMove
<1>3. listed' \subseteq Envs /\ faults' \in 0 .. MaxFaults
  BY FaultTyped DEF Abandon, TypeInv
<1>4. marks' \in [Envs -> SUBSET Mark]
  BY DEF Abandon, TypeInv, Mark
<1>5. QED
  BY <1>1, <1>2, <1>3, <1>4 DEF Abandon, TypeInv, resources

LEMMA CleanupKeeps ==
    ASSUME TypeInv, PointsFit, NEW e \in Envs, CleanupNext(e), row[e].status # "absent"
    PROVE  TypeInv' /\ PointsFit'
<1> DEFINE r == [kind |-> "cleanup", at |-> "deleting", env |-> e, next |-> 1, copy |-> row[e]]
<1>1. r \in Operation /\ InLoop(r)
  BY BoundsTyped DEF TypeInv, Operation, InLoop, Kind, Point
<1>2. OpTyped' /\ Moves(Scheduler, r)
  BY <1>1, SchedulerStays, OpUpdate DEF CleanupNext, TypeInv
<1>3. Fits(r)
  BY BoundsTyped DEF Fits
<1>4. PointsFit'
  BY <1>2, <1>3, SchedulerStays, PointsMove
<1>5. QED
  BY <1>2, <1>4 DEF CleanupNext, TypeInv, resources, observers

LEMMA WorldKeeps ==
    ASSUME TypeInv, PointsFit,
           \/ \E e \in Envs : Expire(e)
           \/ \E e \in Envs, i \in Instances : PodRuns(e, i) \/ PodDies(e, i) \/ PodGone(e, i)
           \/ CleanupExpired \/ SyncAll \/ Crash
    PROVE  TypeInv' /\ PointsFit'
<1>1. ASSUME NEW e \in Envs, Expire(e) PROVE TypeInv' /\ PointsFit'
  <2>1. row[e].lease + 1 \in Nat
    BY DEF TypeInv, Row
  <2>2. elapsed' \in [Envs -> Nat]
    BY <1>1, <2>1 DEF Expire, TypeInv
  <2>3. QED
    BY <1>1, <2>2 DEF Expire, TypeInv, observers, OpTyped, PointsFit, At
<1>2. ASSUME NEW e \in Envs, NEW i \in Instances, PodRuns(e, i) \/ PodDies(e, i) \/ PodGone(e, i)
      PROVE  TypeInv' /\ PointsFit'
  <2>1. PICK s \in PodState : SetPod(e, i, s)
    BY <1>2 DEF PodRuns, PodDies, PodGone, PodState
  <2>2. pods' \in [Envs -> [Instances -> PodState]]
    BY <2>1, PodWrites DEF TypeInv
  <2>3. faults' \in 0 .. MaxFaults
    BY <1>2, FaultTyped DEF PodRuns, PodDies, PodGone, TypeInv
  <2>4. UNCHANGED <<row, elapsed, op, listed, requests, observers>>
    BY <1>2 DEF PodRuns, PodDies, PodGone
  <2>5. QED
    BY <2>2, <2>3, <2>4 DEF TypeInv, observers, OpTyped, PointsFit, At
<1>3. ASSUME CleanupExpired PROVE TypeInv' /\ PointsFit'
  <2>1. listed' \subseteq Envs /\ marks' \in [Envs -> SUBSET Mark]
    BY <1>3 DEF CleanupExpired, TypeInv, Mark
  <2>2. QED
    BY <1>3, <2>1 DEF CleanupExpired, TypeInv, resources, OpTyped, PointsFit, At
<1>4. ASSUME SyncAll PROVE TypeInv' /\ PointsFit'
  <2>1. \A e \in Envs : SyncedRow(e, row[e], ListedInstances) = row[e]
    BY DEF SyncedRow, ListedInstances
  <2>2. row' = row
    BY <1>4, <2>1 DEF SyncAll, TypeInv
  <2>3. QED
    BY <1>4, <2>2 DEF SyncAll, TypeInv, observers, OpTyped, PointsFit, At
<1>5. ASSUME Crash PROVE TypeInv' /\ PointsFit'
  <2>1. OpTyped'
    BY <1>5, FreeTyped DEF Crash, OpTyped
  <2>2. PointsFit'
    BY <1>5, FreeFits, SchedulerStays DEF Crash, PointsFit, At
  <2>3. marks' \in [Envs -> SUBSET Mark] /\ faults' \in 0 .. MaxFaults
    BY <1>5, FaultTyped DEF Crash, TypeInv, Mark
  <2>4. QED
    BY <1>5, <2>1, <2>2, <2>3 DEF Crash, TypeInv, resources
<1>6. QED
  BY <1>1, <1>2, <1>3, <1>4, <1>5

-----------------------------------------------------------------------------
\* A pod that is gone, or on its way.
Settled(e, i) == pods[e][i] \in {"none", "terminating"}

\* The operation on e is the only one, and its copy is the row.
SoleOwner(e) ==
    \A o \in Actors : Env(o) = e =>
        /\ e \notin listed
        /\ op[o].copy = row[e]
        /\ \A p \in Actors : Env(p) = e => p = o

Counted(e) ==
    row[e].extends = granted[e] /\ row[e].lease = granted[e] /\ granted[e] <= MaxExtendTimes

\* What the loops over the instances have done so far.
LoopDone(o, e) ==
    /\ At(o, "provisioning") => \A i \in Instances : i < op[o].next => ~Settled(e, i)
    /\ At(o, "deleting") /\ "undeleted" \notin marks[e] =>
          \A i \in Instances : i < op[o].next => Settled(e, i)
    /\ At(o, "closing") /\ "undeleted" \notin marks[e] =>
          \A i \in Instances : Settled(e, i)

EndedClean(e) ==
    row[e].status = "terminated" /\ Unmarked(e, {"undeleted"}) => LivePods(e) = {}

PausedClean(e) ==
    row[e].status = "paused" /\ Unmarked(e, {"undeleted", "unprovisioned", "lost"})
       => LivePods(e) = {}

Provided(e) ==
    row[e].status \in {"creating", "running"} /\ Unmarked(e, {"lost", "stray poll"})
       => PodsOf(e) = Instances

\* An operation is between its pods and its row.
Midway == {"provisioning", "failing", "deleting", "closing"}
Busy(e) == \E o \in Actors : Env(o) = e /\ op[o].at \in Midway

Calm(e) ==
    /\ SoleOwner(e)
    /\ Counted(e)
    /\ \A o \in Actors : Env(o) = e => LoopDone(o, e)
    /\ EndedClean(e)
    /\ ~Busy(e) => PausedClean(e) /\ Provided(e)

\* No row yet, and nobody who could work on it.
Unused(e) ==
    granted[e] = 0 /\ row[e].extends = 0 /\ row[e].lease = 0 /\ InFlight(e) = {}

EnvInv(e) ==
    /\ row[e].status = "absent" => Unused(e)
    /\ row[e].status # "absent" /\ "overlap" \notin marks[e] => Calm(e)

\* Nothing happens to e, except that pods end, go away or start to run.
PodsKept(e) ==
    \A i \in Instances :
        /\ Settled(e, i)' <=> Settled(e, i)
        /\ pods[e][i] = "succeeded" => pods'[e][i] = "succeeded"

Untouched(e) ==
    /\ row'[e] = row[e] /\ granted'[e] = granted[e] /\ marks[e] \subseteq marks'[e]
    /\ e \in listed' => e \in listed
    /\ PodsKept(e)
    /\ \A o \in Actors : op'[o] = op[o] \/ (Env(o) # e /\ op'[o].env # e)

LEMMA PodSets ==
    ASSUME NEW e \in Envs
    PROVE  /\ LivePods(e) = {i \in Instances : ~Settled(e, i) /\ pods[e][i] # "succeeded"}
           /\ LivePods(e)' = {i \in Instances : ~Settled(e, i)' /\ pods'[e][i] # "succeeded"}
           /\ PodsOf(e) = {i \in Instances : ~Settled(e, i)}
           /\ PodsOf(e)' = {i \in Instances : ~Settled(e, i)'}
  BY DEF LivePods, PodsOf, Settled

\* What is left of the pods when they are kept.
LEMMA PodSetsKept ==
    ASSUME NEW e \in Envs, PodsKept(e)
    PROVE  /\ LivePods(e)' \subseteq LivePods(e)
           /\ PodsOf(e)' = PodsOf(e)
  BY PodSets DEF PodsKept

LEMMA UntouchedKeeps ==
    ASSUME TypeInv, NEW e \in Envs, EnvInv(e), Untouched(e)
    PROVE  EnvInv(e)'
<1>0. \A o \in Actors : op'[o].env = e => op'[o] = op[o] /\ Env(o) = e
  BY DEF Untouched, Env
<1>1. \A o \in Actors : Env(o) = e => op'[o] = op[o] /\ op'[o].env = e
  BY DEF Untouched, Env
<1>2. ASSUME row'[e].status = "absent" PROVE Unused(e)'
  <2>1. Unused(e)
    BY <1>2 DEF EnvInv, Untouched
  <2>2. \A o \in Actors : op'[o].env # e
    BY <1>0, <2>1 DEF InFlight, Unused
  <2>3. e \notin listed'
    BY <2>1 DEF InFlight, Untouched, Unused
  <2>4. QED
    BY <2>1, <2>2, <2>3 DEF InFlight, Untouched, Env, Unused
<1>3. ASSUME row'[e].status # "absent", "overlap" \notin marks'[e] PROVE Calm(e)'
  <2>1. Calm(e)
    BY <1>3 DEF EnvInv, Untouched
  <2>2. SoleOwner(e)'
    BY <1>0, <2>1 DEF Calm, SoleOwner, Untouched, Env
  <2>3. Counted(e)'
    BY <2>1 DEF Calm, Counted, Untouched
  <2>4. ASSUME NEW o \in Actors, op'[o].env = e PROVE LoopDone(o, e)'
    <3>1. LoopDone(o, e) /\ op'[o] = op[o]
      BY <1>0, <2>1, <2>4 DEF Calm
    <3>2. QED
      BY <3>1 DEF LoopDone, Untouched, PodsKept, At
  <2>5. EndedClean(e)'
    BY <2>1, PodSetsKept DEF Calm, EndedClean, Untouched, Unmarked
  <2>6. ASSUME ~Busy(e)' PROVE PausedClean(e)' /\ Provided(e)'
    <3>1. ~Busy(e)
      BY <1>1, <2>6 DEF Busy, Env
    <3>2. QED
      BY <2>1, <3>1, PodSetsKept DEF Calm, PausedClean, Provided, Untouched, Unmarked
  <2>7. QED
    BY <2>2, <2>3, <2>4, <2>5, <2>6 DEF Calm, Env
<1>4. QED
  BY <1>2, <1>3 DEF EnvInv

-----------------------------------------------------------------------------
\* One actor moves, on its environment e or away from it.
LEMMA OwnerStep ==
    ASSUME TypeInv, NEW e \in Envs, NEW o \in Actors, NEW r,
           Calm(e), Env(o) = e,
           Moves(o, r), r.env \in {e, None}, listed' = listed,
           r.env = e => r.copy = row'[e] /\ LoopDone(o, e)',
           Counted(e)', EndedClean(e)',
           r.env = None \/ r.at \notin Midway => PausedClean(e)' /\ Provided(e)'
    PROVE  Calm(e)'
<1>1. \A p \in Actors : op'[p].env = e => p = o /\ r.env = e
  <2>1. SUFFICES ASSUME NEW p \in Actors, op'[p].env = e PROVE p = o /\ r.env = e
    OBVIOUS
  <2>2. CASE p = o
    BY <2>1, <2>2 DEF Moves
  <2>3. CASE p # o
    <3>1. Env(p) = e
      BY <2>1, <2>3 DEF Moves, Env
    <3>2. QED
      BY <2>3, <3>1 DEF Calm, SoleOwner
  <2>4. QED
    BY <2>2, <2>3
<1>2. SoleOwner(e)'
  BY <1>1 DEF Calm, SoleOwner, Moves, Env
<1>3. \A p \in Actors : op'[p].env = e => LoopDone(p, e)'
  BY <1>1
<1>4. ASSUME ~Busy(e)' PROVE PausedClean(e)' /\ Provided(e)'
  <2>1. r.env = None \/ r.at \notin Midway
    BY <1>4 DEF Busy, Moves, Env
  <2>2. QED
    BY <2>1
<1>5. QED
  BY <1>2, <1>3, <1>4 DEF Calm, Env

\* The operation ends.
LEMMA OwnerEnds ==
    ASSUME TypeInv, NEW e \in Envs, NEW o \in Actors, Calm(e), Env(o) = e,
           Done(o), listed' = listed,
           Counted(e)', EndedClean(e)', PausedClean(e)', Provided(e)'
    PROVE  Calm(e)'
<1>1. Moves(o, Free)
  BY OpMoves DEF TypeInv
<1>2. Free.env = None /\ e # None
  BY FreeTyped, BoundsTyped
<1>3. QED
  BY <1>1, <1>2, OwnerStep

\* The facts about e that only depend on its row, its marks and its pods.
LEMMA RowKept ==
    ASSUME NEW e \in Envs, row'[e] = row[e], marks[e] \subseteq marks'[e], PodsKept(e)
    PROVE  /\ EndedClean(e) => EndedClean(e)'
           /\ PausedClean(e) => PausedClean(e)'
           /\ Provided(e) => Provided(e)'
           /\ granted'[e] = granted[e] /\ Counted(e) => Counted(e)'
  BY PodSetsKept DEF EndedClean, PausedClean, Provided, Counted, Unmarked

LEMMA PodsUnchanged == ASSUME NEW e \in Envs, pods'[e] = pods[e] PROVE PodsKept(e)
  BY DEF PodsKept, Settled

LEMMA OwnerFacts ==
    ASSUME TypeInv, PointsFit, NEW e \in Envs, NEW o \in Actors, Calm(e), Env(o) = e
    PROVE  /\ op[o] \in Operation /\ Fits(op[o]) /\ op[o].env = e
           /\ op[o].copy = row[e] /\ row[e] \in Row
           /\ LoopDone(o, e) /\ Counted(e) /\ EndedClean(e)
           /\ op[o].at \notin Midway => PausedClean(e) /\ Provided(e)
           /\ op[o].at \notin {"free", "admitted"}
<1>1. op[o] \in Operation /\ Fits(op[o]) /\ op[o].env = e /\ row[e] \in Row
  BY OwnerTyped DEF PointsFit, Env, TypeInv
<1>2. op[o].copy = row[e] /\ LoopDone(o, e) /\ Counted(e) /\ EndedClean(e)
  BY DEF Calm, SoleOwner
<1>3. op[o].at \notin Midway => ~Busy(e)
  BY DEF Calm, SoleOwner, Busy
<1>4. op[o].at \notin {"free", "admitted"}
  BY <1>1, BoundsTyped DEF Fits
<1>5. QED
  BY <1>1, <1>2, <1>3, <1>4 DEF Calm

(* What a status request finds of an environment without running pods. *)
LEMMA SyncTerminated ==
    ASSUME TypeInv, NEW e \in Envs, NEW r \in Row,
           SyncedRow(e, r, Instances).status = "terminated"
    PROVE  \A i \in Instances : pods[e][i] = "succeeded"
<1> DEFINE phases == {Phase(e, i) : i \in Instances}
<1>1. MapRuntimeStatuses(phases) = "terminated"
  <2> DEFINE s == MapRuntimeStatuses(phases)
  <2>1. SyncedRow(e, r, Instances) = [r EXCEPT !.status = s]
    BY BoundsTyped DEF SyncedRow
  <2>2. [r EXCEPT !.status = s].status = s
    BY DEF Row
  <2> HIDE DEF s
  <2>3. s = "terminated"
    BY <2>1, <2>2
  <2>4. QED
    BY <2>3 DEF s
<1>2. \A i \in Instances : Phase(e, i) \in {"failed", "creating", "running", "terminated"}
  BY DEF Phase, TypeInv, PodState
<1>3. phases = {"terminated"}
  <2>1. phases \subseteq {"failed", "creating", "running", "terminated"} /\ phases # {}
    BY <1>2, BoundsTyped
  <2> HIDE DEF phases
  <2>2. ~("failed" \in phases) /\ ~("creating" \in phases /\ "failed" \notin phases)
        /\ ~(phases \subseteq {"running", "terminated"} /\ "running" \in phases)
    BY <1>1, <2>1 DEF MapRuntimeStatuses
  <2>3. QED
    BY <2>1, <2>2
<1>4. ASSUME NEW i \in Instances PROVE pods[e][i] = "succeeded"
  <2>1. Phase(e, i) = "terminated"
    BY <1>3
  <2>2. QED
    BY <2>1 DEF Phase, TypeInv, PodState
<1>5. QED
  BY <1>4

LEMMA OwnerKeeps ==
    ASSUME TypeInv, PointsFit, NEW e \in Envs, NEW o \in Actors,
           Env(o) = e, Calm(e), OpStep(o)
    PROVE  Calm(e)'
<1> DEFINE r == op[o]
<1>0. /\ r \in Operation /\ Fits(r) /\ r.env = e
      /\ r.copy = row[e] /\ row[e] \in Row
      /\ LoopDone(o, e) /\ Counted(e) /\ EndedClean(e)
      /\ r.at \notin Midway => PausedClean(e) /\ Provided(e)
      /\ r.at \notin {"free", "admitted"}
  BY OwnerFacts
<1>a. OpTyped /\ e # None /\ r.next \in Nat
  BY <1>0, BoundsTyped DEF TypeInv, Operation
<1> HIDE DEF r
<1>1. CASE Insert(o)
  BY <1>0, <1>1 DEF Insert, At, r
<1>2. CASE StartInstance(o)
  <2> DEFINE q == [r EXCEPT !.next = r.next + 1]
             i == r.next
  <2>1. /\ r.at = "provisioning" /\ i \in Instances
        /\ SetPod(e, i, "pending")
        /\ NextInstance(o)
        /\ UNCHANGED <<row, listed, marks, granted>>
    BY <1>2 DEF StartInstance, At, Env, r, observers
  <2>2. Moves(o, q)
    BY <1>a, <2>1, OpMoves DEF r
  <2>3. q.at = r.at /\ q.env = e /\ q.copy = r.copy /\ q.next = i + 1
    BY <1>0 DEF Operation
  <2>4. /\ pods'[e][i] = "pending"
        /\ \A j \in Instances : j # i => pods'[e][j] = pods[e][j]
    BY <2>1, PodWrites DEF TypeInv, PodState
  <2> HIDE DEF q
  <2>5. LoopDone(o, e)'
    <3>1. op'[o] = q
      BY <2>2 DEF Moves
    <3>2. \A j \in Instances : j < i + 1 => j = i \/ j < i
      BY <2>1 DEF Instances
    <3>3. ASSUME NEW j \in Instances, j < i + 1 PROVE ~Settled(e, j)'
      <4>1. CASE j = i
        BY <2>4, <4>1 DEF Settled
      <4>2. CASE j < i
        BY <1>0, <2>1, <2>4, <4>2 DEF LoopDone, Settled, At, r
      <4>3. QED
        BY <3>2, <3>3, <4>1, <4>2
    <3>4. QED
      BY <2>1, <2>3, <3>1, <3>3 DEF LoopDone, At
  <2>6. row[e].status \in {"creating", "paused"}
    BY <1>0, <2>1 DEF Fits
  <2>7. Counted(e)' /\ EndedClean(e)'
    BY <1>0, <2>1, <2>6 DEF Counted, EndedClean
  <2>8. q.at \in Midway /\ q.env # None /\ q.env \in {e, None} /\ q.copy = row'[e]
    BY <1>0, <1>a, <2>1, <2>3 DEF Midway
  <2>9. QED
    BY <2>1, <2>2, <2>5, <2>7, <2>8, OwnerStep
<1>3. CASE StartFails(o)
  <2>1. /\ r.at = "provisioning"
        /\ IF r.kind = "create" THEN Goto(o, "failing") ELSE Done(o)
        /\ MarkEnv(e, "unprovisioned")
        /\ UNCHANGED <<row, listed, granted>>
    BY <1>3 DEF StartFails, At, Env, r
  <2>2. marks'[e] = marks[e] \cup {"unprovisioned"}
    BY <2>1, MarkWrites DEF TypeInv, Mark
  <2>3. \/ r.kind = "create" /\ row[e].status = "creating"
        \/ r.kind = "resume" /\ row[e].status = "paused"
    BY <1>0, <2>1 DEF Fits
  <2>4. Counted(e)' /\ EndedClean(e)'
    BY <1>0, <2>1, <2>3 DEF Counted, EndedClean
  <2>5. CASE r.kind = "create"
    <3> DEFINE q == [r EXCEPT !.at = "failing", !.next = 1]
    <3>1. Moves(o, q)
      BY <1>a, <2>1, <2>5, OpMoves DEF r, Point
    <3>2. q.at = "failing" /\ q.env = e /\ q.copy = r.copy
      BY <1>0 DEF Operation
    <3> HIDE DEF q
    <3>3. LoopDone(o, e)'
      BY <3>1, <3>2 DEF LoopDone, At, Moves
    <3>4. q.at \in Midway /\ q.env # None /\ q.env \in {e, None} /\ q.copy = row'[e]
      BY <1>0, <1>a, <2>1, <3>2 DEF Midway
    <3>5. QED
      BY <2>1, <2>4, <3>1, <3>3, <3>4, OwnerStep
  <2>6. CASE r.kind # "create"
    <3>1. PausedClean(e)' /\ Provided(e)'
      BY <2>1, <2>2, <2>3, <2>6 DEF PausedClean, Provided, Unmarked
    <3>2. QED
      BY <2>1, <2>4, <2>6, <3>1, OwnerEnds
  <2>7. QED
    BY <2>5, <2>6
<1>4. CASE Provisioned(o)
  <2>1. /\ r.at = "provisioning" /\ r.next \notin Instances
        /\ UNCHANGED <<pods, listed, granted>>
    BY <1>4 DEF Provisioned, At, r
  <2>2. PodsOf(e) = Instances /\ PodsOf(e)' = Instances
    <3>1. \A i \in Instances : i < r.next
      BY <1>0, <2>1, BoundsTyped DEF Instances, Operation
    <3>2. \A i \in Instances : ~Settled(e, i)
      BY <1>0, <2>1, <3>1 DEF LoopDone, At, r
    <3>3. QED
      BY <2>1, <3>2, PodSets DEF Settled
  <2>3. \/ r.kind = "create" /\ row[e].status = "creating"
        \/ r.kind = "resume" /\ row[e].status = "paused"
    BY <1>0, <2>1 DEF Fits
  <2>4. CASE r.kind = "create"
    <3> DEFINE q == [r EXCEPT !.at = "waiting", !.next = 1]
    <3>1. Goto(o, "waiting") /\ UNCHANGED <<row, marks>>
      BY <1>4, <2>4 DEF Provisioned, r
    <3>2. Moves(o, q)
      BY <1>a, <3>1, OpMoves DEF r, Point
    <3>3. q.at = "waiting" /\ q.env = e /\ q.copy = r.copy
      BY <1>0 DEF Operation
    <3> HIDE DEF q
    <3>4. LoopDone(o, e)'
      BY <3>2, <3>3 DEF LoopDone, At, Moves
    <3>5. Counted(e)' /\ EndedClean(e)' /\ PausedClean(e)' /\ Provided(e)'
      BY <1>0, <2>1, <2>2, <2>3, <2>4, <3>1 DEF Counted, EndedClean, PausedClean, Provided
    <3>6. QED
      BY <1>0, <2>1, <3>1, <3>2, <3>3, <3>4, <3>5, OwnerStep
  <2>5. CASE r.kind # "create"
    <3> DEFINE c == [r.copy EXCEPT !.status = "creating"]
               q == [r EXCEPT !.at = "waiting", !.next = 1, !.copy = c]
    <3>1. Update(e, c) /\ op' = [op EXCEPT ![o] = q]
      BY <1>4, <2>5 DEF Provisioned, TypeInv, OpTyped, r, Env
    <3>2. c \in Row /\ c.status = "creating"
      BY <1>0, RowsTyped DEF Status
    <3>3. c.extends = row[e].extends /\ c.lease = row[e].lease
      BY <1>0 DEF Row
    <3>4. q.at = "waiting" /\ q.env = e /\ q.copy = c
      <4> HIDE DEF c
      <4> QED BY <1>0, <3>2 DEF Operation
    <3>5. row'[e] = c
      <4> HIDE DEF c
      <4> QED BY <3>1, <3>2, RowWrites DEF TypeInv, Writes
    <3>6. Moves(o, q)
      <4> HIDE DEF q
      <4> QED BY <3>1 DEF TypeInv, OpTyped, Moves
    <3> HIDE DEF q, c
    <3>7. LoopDone(o, e)'
      BY <3>6, <3>4 DEF LoopDone, At, Moves
    <3>8. Counted(e)' /\ EndedClean(e)' /\ PausedClean(e)' /\ Provided(e)'
      BY <1>0, <2>1, <2>2, <3>2, <3>3, <3>5
         DEF Counted, EndedClean, PausedClean, Provided
    <3>9. QED
      BY <2>1, <3>4, <3>5, <3>6, <3>7, <3>8, OwnerStep
  <2>6. QED
    BY <2>4, <2>5
<1>5. CASE InstanceReady(o) \/ InstanceNotReady(o)
  <2>1. /\ r.at = "waiting"
        /\ UNCHANGED <<row, pods, listed, marks, granted>>
    BY <1>5 DEF InstanceReady, InstanceNotReady, At, resources, observers, r
  <2>2. PausedClean(e) /\ Provided(e)
    BY <1>0, <2>1 DEF Midway
  <2>3. Counted(e)' /\ EndedClean(e)' /\ PausedClean(e)' /\ Provided(e)'
    BY <1>0, <2>1, <2>2, RowKept, PodsUnchanged
  <2>4. PICK q : /\ Moves(o, q)
                 /\ q.at \in {"waiting", "ready", "failing"}
                 /\ q.env = e /\ q.copy = r.copy
    <3>1. CASE InstanceReady(o) /\ r.next = NumInstances
      <4> DEFINE q == [r EXCEPT !.at = "ready", !.next = 1]
      <4>1. Moves(o, q)
        BY <1>a, <3>1, OpMoves DEF InstanceReady, r, Point
      <4>2. q.at = "ready" /\ q.env = e /\ q.copy = r.copy
        BY <1>0 DEF Operation
      <4> HIDE DEF q
      <4>3. QED
        BY <4>1, <4>2
    <3>2. CASE InstanceReady(o) /\ r.next # NumInstances
      <4> DEFINE q == [r EXCEPT !.next = r.next + 1]
      <4>1. Moves(o, q)
        BY <1>a, <3>2, OpMoves DEF InstanceReady, r
      <4>2. q.at = r.at /\ q.env = e /\ q.copy = r.copy
        BY <1>0 DEF Operation
      <4> HIDE DEF q
      <4>3. QED
        BY <2>1, <4>1, <4>2
    <3>3. CASE InstanceNotReady(o)
      <4> DEFINE q == [r EXCEPT !.at = "failing", !.next = 1]
      <4>1. Moves(o, q)
        BY <1>a, <3>3, OpMoves DEF InstanceNotReady, r, Point
      <4>2. q.at = "failing" /\ q.env = e /\ q.copy = r.copy
        BY <1>0 DEF Operation
      <4> HIDE DEF q
      <4>3. QED
        BY <4>1, <4>2
    <3>4. QED
      BY <1>5, <3>1, <3>2, <3>3
  <2>5. LoopDone(o, e)'
    BY <2>4 DEF LoopDone, At, Moves
  <2>6. QED
    BY <1>0, <2>1, <2>3, <2>4, <2>5, OwnerStep
<1>6. CASE WriteVerdict(o)
  <2> DEFINE s == IF r.at = "ready" THEN "running" ELSE "failed"
             c == [r.copy EXCEPT !.status = s]
  <2>1. /\ r.at \in {"failing", "ready"}
        /\ Update(e, c) /\ Done(o)
        /\ UNCHANGED <<pods, listed, marks, granted>>
    BY <1>6 DEF WriteVerdict, At, Env, r, observers
  <2>2. c \in Row /\ c.status = s
    <3>1. s \in Status /\ r.copy \in Row
      BY <1>0 DEF Status
    <3> HIDE DEF s
    <3>2. QED
      BY <3>1, RowsTyped
  <2>3. c.extends = row[e].extends /\ c.lease = row[e].lease
    BY <1>0 DEF Row
  <2>4. row'[e] = c
    <3> HIDE DEF c
    <3> QED BY <2>1, <2>2, RowWrites DEF TypeInv, Writes
  <2>5. row[e].status = "creating"
    BY <1>0, <2>1 DEF Fits
  <2> HIDE DEF c
  <2>6. Counted(e)' /\ EndedClean(e)' /\ PausedClean(e)'
    BY <1>0, <2>1, <2>2, <2>3, <2>4 DEF Counted, EndedClean, PausedClean
  <2>7. Provided(e)'
    <3>1. CASE r.at = "ready"
      <4>1. Provided(e)
        BY <1>0, <3>1 DEF Midway
      <4>2. QED
        BY <2>1, <2>5, <4>1, PodSets DEF Provided, Unmarked, Settled
    <3>2. CASE r.at # "ready"
      BY <2>2, <2>4, <3>2 DEF Provided
    <3>3. QED
      BY <3>1, <3>2
  <2>8. QED
    BY <2>1, <2>6, <2>7, OwnerEnds
<1>7. CASE SnapshotTaken(o) \/ SnapshotRefused(o)
  <2>1. /\ r.at = "snapshotting"
        /\ Update(e, r.copy) \/ UNCHANGED row
        /\ Done(o) \/ Goto(o, "deleting")
        /\ UNCHANGED <<pods, listed, marks, granted>>
    BY <1>7 DEF SnapshotTaken, SnapshotRefused, At, Env, r, resources, observers
  <2>2. row'[e] = row[e]
    BY <1>0, <2>1, RowWrites DEF TypeInv, Writes
  <2>3. PausedClean(e) /\ Provided(e)
    BY <1>0, <2>1 DEF Midway
  <2>4. Counted(e)' /\ EndedClean(e)' /\ PausedClean(e)' /\ Provided(e)'
    BY <1>0, <2>1, <2>2, <2>3, RowKept, PodsUnchanged
  <2>5. CASE Done(o)
    BY <2>1, <2>4, <2>5, OwnerEnds
  <2>6. CASE Goto(o, "deleting")
    <3> DEFINE q == [r EXCEPT !.at = "deleting", !.next = 1]
    <3>1. Moves(o, q)
      BY <1>a, <2>6, OpMoves DEF r, Point
    <3>2. q.at = "deleting" /\ q.next = 1 /\ q.env = e /\ q.copy = r.copy
      BY <1>0 DEF Operation
    <3> HIDE DEF q
    <3>3. LoopDone(o, e)'
      BY <3>1, <3>2 DEF LoopDone, At, Moves, Instances
    <3>4. QED
      BY <1>0, <2>1, <2>2, <2>4, <3>1, <3>2, <3>3, OwnerStep
  <2>7. QED
    BY <2>1, <2>5, <2>6
<1>8. CASE DeleteInstance(o)
  <2>0. PICK i \in Instances : i = r.next
    BY <1>8 DEF DeleteInstance, r
  <2>1. /\ r.at = "deleting"
        /\ IF i = NumInstances THEN Goto(o, "closing") ELSE NextInstance(o)
        /\ UNCHANGED <<row, listed, granted>>
    BY <1>8, <2>0 DEF DeleteInstance, At, r
  <2>2. /\ \A j \in Instances : pods'[e][j] # pods[e][j] => j = i /\ pods'[e][j] = "terminating"
        /\ marks[e] \subseteq marks'[e]
        /\ "undeleted" \notin marks'[e] => Settled(e, i)'
    <3>1. CASE /\ pods' = IF pods[e][i] \in {"pending", "running"} \cup Ended
                          THEN [pods EXCEPT ![e][i] = "terminating"] ELSE pods
               /\ UNCHANGED <<faults, marks>>
      <4>1. CASE pods[e][i] \in {"pending", "running"} \cup Ended
        <5>1. SetPod(e, i, "terminating")
          BY <3>1, <4>1 DEF SetPod
        <5>2. /\ pods'[e][i] = "terminating"
              /\ \A j \in Instances : j # i => pods'[e][j] = pods[e][j]
          BY <5>1, PodWrites DEF TypeInv, PodState
        <5>3. QED
          BY <3>1, <5>2 DEF Settled
      <4>2. CASE pods[e][i] \notin {"pending", "running"} \cup Ended
        <5>1. pods[e][i] \in {"none", "terminating"}
          BY <2>1, <4>2 DEF TypeInv, PodState, Ended
        <5>2. QED
          BY <3>1, <4>2, <5>1 DEF Settled
      <4>3. QED
        BY <4>1, <4>2
    <3>2. CASE Fault /\ MarkEnv(e, "undeleted") /\ UNCHANGED pods
      BY <3>2, MarkWrites DEF TypeInv, Mark
    <3>3. QED
      BY <1>0, <1>8, <2>0, <3>1, <3>2 DEF DeleteInstance, Env, r
  <2>3. \A j \in Instances : Settled(e, j) => Settled(e, j)'
    BY <2>2 DEF Settled
  <2>4. Counted(e)' /\ EndedClean(e)'
    <3>1. LivePods(e)' \subseteq LivePods(e)
      BY <2>2, PodSets DEF Settled
    <3>2. QED
      BY <1>0, <2>1, <2>2, <3>1 DEF Counted, EndedClean, Unmarked
  <2>5. ASSUME "undeleted" \notin marks'[e], NEW j \in Instances, j < i + 1
        PROVE  Settled(e, j)'
    <3>1. CASE j = i
      BY <2>2, <2>5, <3>1
    <3>2. CASE j # i
      <4>1. j < i /\ "undeleted" \notin marks[e]
        BY <2>1, <2>2, <2>5, <3>2 DEF Instances
      <4>2. QED
        BY <1>0, <2>0, <2>1, <2>3, <4>1 DEF LoopDone, At, r
    <3>3. QED
      BY <3>1, <3>2
  <2>6. CASE i = NumInstances
    <3> DEFINE q == [r EXCEPT !.at = "closing", !.next = 1]
    <3>1. Moves(o, q)
      BY <1>a, <2>0, <2>1, <2>6, OpMoves DEF r, Point
    <3>2. q.at = "closing" /\ q.env = e /\ q.copy = r.copy
      BY <1>0 DEF Operation
    <3> HIDE DEF q
    <3>3. \A j \in Instances : j < i + 1
      BY <2>6, BoundsTyped DEF Instances
    <3>4. LoopDone(o, e)'
      BY <2>5, <3>1, <3>2, <3>3 DEF LoopDone, At, Moves
    <3>5. q.at \in Midway /\ q.env # None /\ q.env \in {e, None} /\ q.copy = row'[e]
      BY <1>0, <1>a, <2>1, <3>2 DEF Midway
    <3>6. QED
      BY <2>1, <2>4, <3>1, <3>4, <3>5, OwnerStep
  <2>7. CASE i # NumInstances
    <3> DEFINE q == [r EXCEPT !.next = r.next + 1]
    <3>1. Moves(o, q)
      BY <1>a, <2>0, <2>1, <2>7, OpMoves DEF r
    <3>2. q.at = "deleting" /\ q.env = e /\ q.copy = r.copy /\ q.next = i + 1
      BY <1>0, <2>0, <2>1 DEF Operation
    <3> HIDE DEF q
    <3>3. LoopDone(o, e)'
      BY <2>5, <3>1, <3>2 DEF LoopDone, At, Moves
    <3>4. q.at \in Midway /\ q.env # None /\ q.env \in {e, None} /\ q.copy = row'[e]
      BY <1>0, <1>a, <2>1, <3>2 DEF Midway
    <3>5. QED
      BY <2>1, <2>4, <3>1, <3>3, <3>4, OwnerStep
  <2>8. QED
    BY <2>6, <2>7
<1>9. CASE Close(o)
  <2>1. /\ r.at = "closing" /\ Done(o)
        /\ UNCHANGED <<pods, listed, marks, granted>>
    BY <1>9 DEF Close, At, r, observers
  <2>2. PICK s \in {"paused", "terminated"} : row'[e] = [row[e] EXCEPT !.status = s]
    <3>1. CASE Update(e, [r.copy EXCEPT !.status = "paused"])
      <4>1. [row[e] EXCEPT !.status = "paused"] \in Row
        BY <1>0, RowsTyped DEF Status
      <4>2. QED
        BY <1>0, <3>1, <4>1, RowWrites DEF TypeInv, Writes
    <3>2. CASE UpdateStatus(e, "terminated")
      BY <3>2, RowWrites DEF TypeInv, Writes, Status
    <3>3. QED
      BY <1>9, <3>1, <3>2 DEF Close, Env, r
  <2>3. /\ row'[e].status = s /\ row'[e].extends = row[e].extends
        /\ row'[e].lease = row[e].lease
    BY <1>0, <2>2 DEF Row
  <2>4. "undeleted" \notin marks[e] => LivePods(e)' = {}
    BY <1>0, <2>1, PodSets DEF LoopDone, At, r, Settled
  <2>5. Counted(e)' /\ EndedClean(e)' /\ PausedClean(e)' /\ Provided(e)'
    BY <1>0, <2>1, <2>3, <2>4 DEF Counted, EndedClean, PausedClean, Provided, Unmarked
  <2>6. QED
    BY <2>1, <2>5, OwnerEnds
<1>10. CASE GrantExtension(o)
  <2> DEFINE n == r.copy.lease + 1
             c == [row[e] EXCEPT !.lease = n, !.extends = row[e].extends + 1]
  <2>1. /\ r.at = "extending" /\ Done(o)
        /\ row' = [row EXCEPT ![e] = c]
        /\ granted' = [granted EXCEPT ![e] = granted[e] + 1]
        /\ UNCHANGED <<pods, listed, marks>>
    BY <1>10 DEF GrantExtension, At, Env, r, TypeInv
  <2>2. granted'[e] = granted[e] + 1 /\ granted[e] \in Nat
    BY <2>1 DEF TypeInv
  <2>3. row'[e] = c
    <3> HIDE DEF c
    <3> QED BY <2>1 DEF TypeInv
  <2>4. c.lease = n /\ c.extends = row[e].extends + 1 /\ c.status = row[e].status
    <3> HIDE DEF n
    <3> QED BY <1>0 DEF Row
  <2>5. granted[e] < MaxExtendTimes
    BY <1>0, <2>1 DEF Fits, Counted
  <2>6. n = granted[e] + 1
    BY <1>0 DEF Counted
  <2> HIDE DEF c, n
  <2>7. Counted(e)'
    BY <1>0, <2>2, <2>3, <2>4, <2>5, <2>6, BoundsTyped DEF Counted
  <2>8. EndedClean(e)' /\ PausedClean(e)' /\ Provided(e)'
    <3>1. PausedClean(e) /\ Provided(e)
      BY <1>0, <2>1 DEF Midway
    <3>2. QED
      BY <1>0, <2>1, <2>3, <2>4, <3>1, PodSets, ZenonT(60)
         DEF EndedClean, PausedClean, Provided, Unmarked, Settled
  <2>9. QED
    BY <2>1, <2>7, <2>8, OwnerEnds
<1>11. CASE PollAnswered(o)
  <2> DEFINE c == SyncedRow(e, r.copy, Instances)
  <2>1. /\ r.at = "polling" /\ Done(o)
        /\ Update(e, c) \/ (c = r.copy /\ UNCHANGED row)
        /\ IF r.copy.status \in Charged THEN UNCHANGED marks ELSE MarkEnv(e, "stray poll")
        /\ UNCHANGED <<pods, listed, granted>>
    BY <1>11 DEF PollAnswered, At, Env, r
  <2>2. /\ c \in Row
        /\ c.status \in {"failed", "creating", "running", "terminated"}
        /\ c = [row[e] EXCEPT !.status = c.status]
    BY <1>0, SyncTyped, TypeParts
  <2>3. row'[e] = c
    <3> HIDE DEF c
    <3> QED BY <1>0, <2>1, <2>2, RowWrites DEF TypeInv, Writes
  <2>4. c.status = "terminated" => LivePods(e)' = {}
    BY <1>0, <2>1, SyncTerminated, PodSets DEF Settled
  <2>5. c.extends = row[e].extends /\ c.lease = row[e].lease
    <3> DEFINE s == c.status
    <3>1. c = [row[e] EXCEPT !.status = s]
      BY <2>2
    <3> HIDE DEF c, s
    <3>2. QED
      BY <1>0, <3>1 DEF Row
  <2> HIDE DEF c
  <2>6. Counted(e)' /\ EndedClean(e)' /\ PausedClean(e)'
    BY <1>0, <2>1, <2>2, <2>3, <2>4, <2>5 DEF Counted, EndedClean, PausedClean
  <2>7. Provided(e)'
    <3>1. CASE r.copy.status \in Charged
      <4>1. Provided(e)
        BY <1>0, <2>1 DEF Midway
      <4>2. QED
        BY <1>0, <2>1, <3>1, <4>1, PodSets DEF Provided, Unmarked, Settled, Charged
    <3>2. CASE r.copy.status \notin Charged
      <4>0. MarkEnv(e, "stray poll") /\ "stray poll" \in Mark
        BY <2>1, <3>2 DEF Mark
      <4>1. marks'[e] = marks[e] \cup {"stray poll"}
        BY <4>0, MarkWrites DEF TypeInv
      <4>2. QED
        BY <4>1 DEF Provided, Unmarked
    <3>3. QED
      BY <3>1, <3>2
  <2>8. QED
    BY <2>1, <2>6, <2>7, OwnerEnds
<1>12. QED
  BY <1>1, <1>2, <1>3, <1>4, <1>5, <1>6, <1>7, <1>8, <1>9, <1>10, <1>11 DEF OpStep

-----------------------------------------------------------------------------
\* Where an operation goes, it stays with its environment, or ends.
LEMMA OpStays ==
    ASSUME TypeInv, PointsFit, NEW o \in Actors, OpStep(o), ~Insert(o)
    PROVE  \E q : Moves(o, q) /\ q.env \in {Env(o), None} /\ q.at # "admitted"
<1> DEFINE r == op[o]
<1>0. r \in Operation /\ OpTyped /\ r.next \in Nat
  BY OwnerTyped DEF TypeInv, Operation
<1>1. ASSUME NEW point \in Point, Goto(o, point), point # "admitted"
      PROVE  \E q : Moves(o, q) /\ q.env = Env(o) /\ q.at # "admitted"
  <2> DEFINE q == [r EXCEPT !.at = point, !.next = 1]
  <2>1. Moves(o, q)
    BY <1>0, <1>1, OpMoves
  <2>2. q.env = Env(o) /\ q.at # "admitted"
    BY <1>0, <1>1 DEF Operation, Env
  <2> HIDE DEF q
  <2>3. QED
    BY <2>1, <2>2
<1>2. ASSUME NextInstance(o), r.next \in Instances, r.next # NumInstances \/ r.at = "provisioning",
             r.at # "admitted"
      PROVE  \E q : Moves(o, q) /\ q.env = Env(o) /\ q.at # "admitted"
  <2> DEFINE q == [r EXCEPT !.next = r.next + 1]
  <2>1. Moves(o, q)
    BY <1>0, <1>2, OpMoves
  <2>2. q.env = Env(o) /\ q.at # "admitted"
    BY <1>0, <1>2 DEF Operation, Env
  <2> HIDE DEF q
  <2>3. QED
    BY <2>1, <2>2
<1>3. ASSUME Done(o) PROVE \E q : Moves(o, q) /\ q.env = None /\ q.at # "admitted"
  BY <1>0, <1>3, OpMoves, FreeTyped
<1>4. CASE StartInstance(o)
  BY <1>2, <1>4 DEF StartInstance, At
<1>5. CASE StartFails(o)
  BY <1>1, <1>3, <1>5 DEF StartFails, Point
<1>6. CASE Provisioned(o)
  <2>1. CASE r.kind = "create"
    BY <1>1, <1>6, <2>1 DEF Provisioned, Point
  <2>2. CASE r.kind # "create"
    <3> DEFINE c == [r.copy EXCEPT !.status = "creating"]
               q == [r EXCEPT !.at = "waiting", !.next = 1, !.copy = c]
    <3>1. op' = [op EXCEPT ![o] = q]
      BY <1>6, <2>2 DEF Provisioned, TypeInv, OpTyped
    <3>2. q.env = Env(o) /\ q.at # "admitted"
      <4> HIDE DEF c
      <4> QED BY <1>0 DEF Operation, Env
    <3>3. Moves(o, q)
      <4> HIDE DEF q
      <4> QED BY <3>1 DEF TypeInv, OpTyped, Moves
    <3> HIDE DEF q
    <3>4. QED
      BY <3>2, <3>3
  <2>3. QED
    BY <2>1, <2>2
<1>7. CASE InstanceReady(o)
  BY <1>1, <1>2, <1>7 DEF InstanceReady, Point, At
<1>8. CASE InstanceNotReady(o)
  BY <1>1, <1>8 DEF InstanceNotReady, Point
<1>9. CASE SnapshotTaken(o)
  BY <1>1, <1>3, <1>9 DEF SnapshotTaken, Point
<1>10. CASE DeleteInstance(o)
  BY <1>1, <1>2, <1>10 DEF DeleteInstance, Point, At
<1>11. CASE WriteVerdict(o) \/ SnapshotRefused(o) \/ Close(o)
               \/ GrantExtension(o) \/ PollAnswered(o)
  BY <1>3, <1>11 DEF WriteVerdict, SnapshotRefused, Close, GrantExtension, PollAnswered
<1>12. QED
  BY <1>4, <1>5, <1>6, <1>7, <1>8, <1>9, <1>10, <1>11 DEF OpStep

\* An operation leaves the other environments alone.
LEMMA OpLeavesOthers ==
    ASSUME TypeInv, PointsFit, NEW o \in Actors, OpStep(o), ~Insert(o),
           NEW e \in Envs, e # Env(o)
    PROVE  /\ row'[e] = row[e] /\ granted'[e] = granted[e] /\ pods'[e] = pods[e]
           /\ marks[e] \subseteq marks'[e]
           /\ listed' = listed
<1>0. op[o] \in Operation /\ Fits(op[o])
  BY OwnerTyped DEF PointsFit
<1>1. ~At(o, "free") /\ ~At(o, "admitted") => Env(o) \in Envs
  BY <1>0 DEF Fits, At, Env, Operation
<1>2. CASE StartInstance(o)
  BY <1>1, <1>2 DEF StartInstance, At, SetPod, observers, TypeInv
<1>3. CASE StartFails(o)
  <2>1. MarkEnv(Env(o), "unprovisioned") /\ "unprovisioned" \in Mark /\ Env(o) \in Envs
        /\ UNCHANGED <<row, granted, listed>>
    BY <1>1, <1>3 DEF StartFails, At, Mark
  <2>2. marks'[e] = marks[e]
    BY <2>1, MarkWrites DEF TypeInv
  <2>3. pods'[e] = pods[e]
    BY <1>3 DEF StartFails, StartRefused, SetPod, TypeInv
  <2>4. QED
    BY <2>1, <2>2, <2>3
<1>4. CASE Provisioned(o)
  BY <1>1, <1>4 DEF Provisioned, At, Update, MarkEnv, TypeInv
<1>5. CASE InstanceReady(o) \/ InstanceNotReady(o) \/ SnapshotRefused(o)
  BY <1>5 DEF InstanceReady, InstanceNotReady, SnapshotRefused, resources, observers
<1>6. CASE WriteVerdict(o) \/ SnapshotTaken(o)
  BY <1>6 DEF WriteVerdict, SnapshotTaken, Update, observers, TypeInv
<1>7. CASE DeleteInstance(o)
  BY <1>7 DEF DeleteInstance, MarkEnv, TypeInv
<1>8. CASE Close(o)
  BY <1>8 DEF Close, Update, UpdateStatus, observers, TypeInv
<1>9. CASE GrantExtension(o)
  BY <1>9 DEF GrantExtension, TypeInv
<1>10. CASE PollAnswered(o)
  BY <1>10 DEF PollAnswered, Update, MarkEnv, TypeInv
<1>11. QED
  BY <1>2, <1>3, <1>4, <1>5, <1>6, <1>7, <1>8, <1>9, <1>10 DEF OpStep

\* A row that exists stays.
LEMMA OpKeepsRow ==
    ASSUME TypeInv, PointsFit, NEW o \in Actors, OpStep(o), Env(o) \in Envs,
           row[Env(o)].status # "absent"
    PROVE  row'[Env(o)].status # "absent"
<1> DEFINE e == Env(o)
           r == op[o]
<1>0. /\ r \in Operation /\ Fits(r) /\ r.copy \in Row /\ row[e] \in Row
      /\ r.at \notin {"free", "admitted"} /\ r.copy.status # "absent"
  BY OwnerTyped, BoundsTyped DEF PointsFit, Fits, Env, TypeInv
<1>1. \A s \in Status, c \in Row : [c EXCEPT !.status = s] \in Row
                                   /\ [c EXCEPT !.status = s].status = s
  BY RowsTyped
<1>2. \A c \in Row : Update(e, c) => row'[e] = c
  BY RowWrites DEF TypeInv, Writes
<1>3. CASE Insert(o)
  BY <1>0, <1>3 DEF Insert, At
<1>4. CASE UNCHANGED row
  BY <1>4
<1>5. CASE Provisioned(o)
  BY <1>0, <1>1, <1>2, <1>4, <1>5 DEF Provisioned, Status
<1>6. CASE WriteVerdict(o)
  <2>1. PICK s \in {"running", "failed"} : Update(e, [r.copy EXCEPT !.status = s])
    BY <1>6 DEF WriteVerdict
  <2> DEFINE c == [r.copy EXCEPT !.status = s]
  <2>2. c \in Row /\ c.status = s
    BY <1>0, <1>1 DEF Status
  <2> HIDE DEF c
  <2>3. QED
    BY <1>2, <2>1, <2>2 DEF c
<1>7. CASE SnapshotTaken(o)
  BY <1>0, <1>2, <1>7 DEF SnapshotTaken
<1>8. CASE Close(o)
  <2>1. CASE Update(e, [r.copy EXCEPT !.status = "paused"])
    BY <1>0, <1>1, <1>2, <2>1 DEF Status
  <2>2. CASE UpdateStatus(e, "terminated")
    <3>1. row'[e] = [row[e] EXCEPT !.status = "terminated"]
      BY <2>2, RowWrites DEF TypeInv, Writes, Status
    <3>2. QED
      BY <1>0, <1>1, <3>1 DEF Status
  <2>3. QED
    BY <1>8, <2>1, <2>2 DEF Close
<1>9. CASE GrantExtension(o)
  <2> DEFINE n == r.copy.lease + 1
             m == row[e].extends + 1
             c == [row[e] EXCEPT !.lease = n, !.extends = m]
  <2>1. row' = [row EXCEPT ![e] = c]
    BY <1>9 DEF GrantExtension, TypeInv
  <2>2. row'[e] = c
    <3> HIDE DEF c
    <3> QED BY <2>1 DEF TypeInv
  <2>3. c.status = row[e].status
    <3> HIDE DEF n, m
    <3> QED BY <1>0 DEF Row
  <2>4. QED
    <3> HIDE DEF c
    <3> QED BY <2>2, <2>3
<1>10. CASE PollAnswered(o)
  <2>1. SyncedRow(e, r.copy, Instances) \in Row
        /\ SyncedRow(e, r.copy, Instances).status # "absent"
    BY <1>0, SyncTyped, TypeParts
  <2>2. QED
    BY <1>2, <1>4, <1>10, <2>1 DEF PollAnswered
<1>11. QED
  BY <1>3, <1>4, <1>5, <1>6, <1>7, <1>8, <1>9, <1>10
     DEF OpStep, StartInstance, StartFails, InstanceReady, InstanceNotReady,
         SnapshotRefused, DeleteInstance, resources

LEMMA OpMarks ==
    ASSUME TypeInv, NEW o \in Actors, OpStep(o), NEW e \in Envs
    PROVE  marks[e] \subseteq marks'[e]
<1>1. ASSUME NEW d, NEW m, MarkEnv(d, m) PROVE marks[e] \subseteq marks'[e]
  BY <1>1 DEF MarkEnv, TypeInv
<1>2. CASE StartFails(o) \/ Provisioned(o) \/ DeleteInstance(o) \/ PollAnswered(o)
  BY <1>1, <1>2 DEF StartFails, Provisioned, DeleteInstance, PollAnswered
<1>3. CASE UNCHANGED marks
  BY <1>3
<1>4. QED
  BY <1>2, <1>3
     DEF OpStep, Insert, StartInstance, InstanceReady, InstanceNotReady, WriteVerdict,
         SnapshotTaken, SnapshotRefused, Close, GrantExtension, observers

LEMMA InsertKeeps ==
    ASSUME TypeInv, PointsFit, NEW o \in Actors, Insert(o), NEW e \in Envs, EnvInv(e)
    PROVE  EnvInv(e)'
<1> DEFINE r == op[o]
<1>0. /\ r \in Operation /\ r.copy \in Row /\ Fits(r) /\ r.at = "admitted"
      /\ Env(o) = None /\ r.next = 1
      /\ r.copy.status = "creating" /\ r.copy.lease = 0 /\ r.copy.extends = 0
  <2>1. r \in Operation /\ r.copy \in Row /\ Fits(r) /\ r.at = "admitted"
    BY OwnerTyped DEF PointsFit, Insert, At
  <2>2. PICK u \in Users, x \in Experiments : r.copy = NewRow(u, x)
    BY <2>1 DEF Fits
  <2>3. QED
    BY <2>1, <2>2 DEF Fits, NewRow, Env
<1>1. PICK d \in Envs :
         /\ row[d].status = "absent"
         /\ Update(d, r.copy)
         /\ op' = [op EXCEPT ![o].at = "provisioning", ![o].env = d]
  BY DEF Insert
<1>2. UNCHANGED <<pods, listed, marks, granted>>
  BY DEF Insert, observers
<1> DEFINE q == [r EXCEPT !.at = "provisioning", !.env = d]
<1>3. Moves(o, q)
  BY <1>1 DEF TypeInv, OpTyped, Moves
<1>4. q.at = "provisioning" /\ q.env = d /\ q.copy = r.copy /\ q.next = 1
  BY <1>0 DEF Operation
<1>5. Writes(d, r.copy)
  BY <1>0, <1>1, RowWrites DEF TypeInv
<1> HIDE DEF q, r
<1>6. CASE e # d
  <2>1. Untouched(e)
    <3>1. \A p \in Actors : op'[p] = op[p] \/ (Env(p) # e /\ op'[p].env # e)
      BY <1>0, <1>3, <1>4, <1>6, BoundsTyped DEF Moves
    <3>2. row'[e] = row[e]
      BY <1>5, <1>6 DEF Writes
    <3>3. QED
      BY <1>2, <3>1, <3>2, PodsUnchanged DEF Untouched
  <2>2. QED
    BY <2>1, UntouchedKeeps
<1>7. CASE e = d
  <2>1. granted[e] = 0 /\ InFlight(e) = {}
    BY <1>1, <1>7 DEF EnvInv, Unused
  <2>2. row'[e] = r.copy
    BY <1>5, <1>7 DEF Writes
  <2>3. op'[o] = q /\ \A p \in Actors : op'[p].env = e => p = o
    BY <1>3, <2>1 DEF Moves, InFlight, Env
  <2>4. e \notin listed'
    BY <1>2, <2>1 DEF InFlight
  <2>5. SoleOwner(e)'
    BY <1>4, <2>2, <2>3, <2>4 DEF SoleOwner, Env
  <2>6. Counted(e)' /\ EndedClean(e)'
    BY <1>0, <1>2, <2>1, <2>2, BoundsTyped DEF Counted, EndedClean
  <2>7. LoopDone(o, e)'
    BY <1>4, <2>3 DEF LoopDone, At, Instances
  <2>8. Busy(e)'
    BY <1>4, <1>7, <2>3 DEF Busy, Midway, Env
  <2>9. QED
    BY <1>0, <2>2, <2>3, <2>5, <2>6, <2>7, <2>8 DEF EnvInv, Calm, Env
<1>8. QED
  BY <1>6, <1>7

LEMMA OpStepKeeps ==
    ASSUME TypeInv, PointsFit, NEW o \in Actors, OpStep(o), NEW e \in Envs, EnvInv(e)
    PROVE  EnvInv(e)'
<1>1. CASE Insert(o)
  BY <1>1, InsertKeeps
<1>2. CASE ~Insert(o) /\ Env(o) # e
  <2>1. PICK q : Moves(o, q) /\ q.env \in {Env(o), None}
    BY <1>2, OpStays
  <2>2. \A p \in Actors : op'[p] = op[p] \/ (Env(p) # e /\ op'[p].env # e)
    BY <1>2, <2>1, BoundsTyped DEF Moves
  <2>3. Untouched(e)
    BY <1>2, <2>2, OpLeavesOthers, PodsUnchanged DEF Untouched
  <2>4. QED
    BY <2>3, UntouchedKeeps
<1>3. CASE Env(o) = e
  <2>1. row[e].status # "absent"
    BY <1>3 DEF EnvInv, Unused, InFlight
  <2>2. row'[e].status # "absent"
    BY <1>3, <2>1, OpKeepsRow
  <2>3. ASSUME "overlap" \notin marks'[e] PROVE Calm(e)'
    <3>1. Calm(e)
      BY <2>1, <2>3, OpMarks DEF EnvInv
    <3>2. QED
      BY <1>3, <3>1, OwnerKeeps
  <2>4. QED
    BY <2>2, <2>3 DEF EnvInv
<1>4. QED
  BY <1>1, <1>2, <1>3

LEMMA RequestKeeps ==
    ASSUME TypeInv, PointsFit, NEW o \in Requests, UserRequest(o), NEW e \in Envs, EnvInv(e)
    PROVE  EnvInv(e)'
<1>0. o \in Actors
  BY DEF Actors
<1>1. ASSUME NEW u \in Users, NEW x \in Experiments, Admit(o, u, x) PROVE EnvInv(e)'
  <2> DEFINE q == [kind |-> "create", at |-> "admitted", env |-> None,
                   next |-> 1, copy |-> NewRow(u, x)]
  <2>1. Moves(o, q)
    BY <1>0, <1>1 DEF Admit, TypeInv, OpTyped, Moves
  <2>2. op[o].env = None
    BY <1>0, <1>1 DEF Admit, At, PointsFit, Fits
  <2>3. \A p \in Actors : op'[p] = op[p] \/ (Env(p) # e /\ op'[p].env # e)
    BY <2>1, <2>2, BoundsTyped DEF Moves, Env
  <2>4. Untouched(e)
    BY <1>1, <2>3, PodsUnchanged DEF Untouched, Admit, resources
  <2>5. QED
    BY <2>4, UntouchedKeeps
<1>2. ASSUME NEW d \in Envs,
             Stop(o, d) \/ Pause(o, d) \/ Resume(o, d)
                \/ Extend(o, d) \/ Snapshot(o, d) \/ Poll(o, d)
      PROVE  EnvInv(e)'
  <2>1. PICK kind \in Kind, point \in Point :
           /\ Begin(o, kind, d, point)
           /\ point \in {"snapshotting", "deleting", "provisioning", "extending", "polling"}
    BY <1>2 DEF Stop, Pause, Resume, Extend, Snapshot, Poll, Kind, Point
  <2> DEFINE q == [kind |-> kind, at |-> point, env |-> d, next |-> 1, copy |-> row[d]]
  <2>2. Moves(o, q)
    BY <2>1, BeginTyped
  <2>3. /\ UNCHANGED <<row, pods, listed, granted>>
        /\ row[d].status # "absent"
        /\ op[o].env = None
        /\ marks' = IF InFlight(d) = {} THEN marks
                    ELSE [marks EXCEPT ![d] = @ \cup {"overlap"}]
    BY <1>0, <2>1 DEF Begin, resources, At, PointsFit, Fits
  <2>4. marks[e] \subseteq marks'[e]
    BY <2>3 DEF TypeInv
  <2>5. CASE e # d
    <3>1. \A p \in Actors : op'[p] = op[p] \/ (Env(p) # e /\ op'[p].env # e)
      BY <2>2, <2>3, <2>5, BoundsTyped DEF Moves, Env
    <3>2. Untouched(e)
      BY <2>3, <2>4, <3>1, PodsUnchanged DEF Untouched
    <3>3. QED
      BY <3>2, UntouchedKeeps
  <2>6. CASE e = d
    <3>1. SUFFICES ASSUME "overlap" \notin marks'[e] PROVE Calm(e)'
      BY <2>3, <2>6 DEF EnvInv
    <3>2. InFlight(e) = {}
      BY <2>3, <2>6, <3>1 DEF TypeInv
    <3>3. Calm(e)
      BY <2>3, <2>4, <2>6, <3>1 DEF EnvInv
    <3>4. PausedClean(e) /\ Provided(e)
      BY <3>2, <3>3 DEF Calm, Busy, InFlight
    <3>5. Counted(e)' /\ EndedClean(e)' /\ PausedClean(e)' /\ Provided(e)'
      BY <2>3, <2>4, <3>3, <3>4, RowKept, PodsUnchanged DEF Calm
    <3>6. op'[o] = q /\ \A p \in Actors : op'[p].env = e => p = o
      BY <2>2, <3>2 DEF Moves, InFlight, Env
    <3>7. SoleOwner(e)'
      BY <2>3, <2>6, <3>2, <3>6 DEF SoleOwner, Env, InFlight
    <3>8. LoopDone(o, e)'
      BY <2>1, <3>6 DEF LoopDone, At, Instances
    <3>9. QED
      BY <3>5, <3>6, <3>7, <3>8 DEF Calm, Env
  <2>7. QED
    BY <2>5, <2>6
<1>3. QED
  BY <1>1, <1>2 DEF UserRequest

\* Operations on e that are not there any more: the marks say so.
LEMMA LostKeeps ==
    ASSUME TypeInv, NEW e \in Envs, EnvInv(e),
           row'[e] = row[e], pods'[e] = pods[e], granted'[e] = granted[e],
           marks[e] \subseteq marks'[e], "lost" \in marks'[e],
           e \in listed' => e \in listed,
           \A o \in Actors : op'[o] = op[o] \/ op'[o].env = None
    PROVE  EnvInv(e)'
<1>0. \A o \in Actors : op'[o].env = e => op'[o] = op[o] /\ Env(o) = e
  BY BoundsTyped DEF Env
<1>1. ASSUME row'[e].status = "absent" PROVE Unused(e)'
  <2>1. Unused(e)
    BY <1>1 DEF EnvInv
  <2>2. QED
    BY <1>0, <2>1 DEF InFlight, Env, Unused
<1>2. ASSUME row'[e].status # "absent", "overlap" \notin marks'[e] PROVE Calm(e)'
  <2>1. Calm(e)
    BY <1>2 DEF EnvInv
  <2>2. SoleOwner(e)'
    BY <1>0, <2>1 DEF Calm, SoleOwner, Env
  <2>3. Counted(e)' /\ EndedClean(e)'
    BY <2>1, RowKept, PodsUnchanged DEF Calm
  <2>4. PausedClean(e)' /\ Provided(e)'
    BY DEF PausedClean, Provided, Unmarked
  <2>5. ASSUME NEW o \in Actors, op'[o].env = e PROVE LoopDone(o, e)'
    <3>1. LoopDone(o, e) /\ op'[o] = op[o]
      BY <1>0, <2>1, <2>5 DEF Calm
    <3>2. QED
      BY <3>1 DEF LoopDone, Settled, At
  <2>6. QED
    BY <2>2, <2>3, <2>4, <2>5 DEF Calm, Env
<1>3. QED
  BY <1>1, <1>2 DEF EnvInv

LEMMA AbandonEnv ==
    ASSUME TypeInv, PointsFit, NEW o \in Actors, Abandon(o), NEW e \in Envs, EnvInv(e)
    PROVE  EnvInv(e)'
<1>1. Moves(o, Free) /\ Free.env = None
  BY OpMoves, FreeTyped DEF Abandon, TypeInv
<1>2. /\ UNCHANGED <<row, pods, granted>>
      /\ marks'[e] = IF o \in InFlight(e) /\ e \notin listed'
                     THEN marks[e] \cup {"lost"} ELSE marks[e]
      /\ listed' \in IF o = Scheduler THEN {listed, {}} ELSE {listed}
  BY DEF Abandon, resources
<1>3. \A p \in Actors : op'[p] = op[p] \/ op'[p].env = None
  BY <1>1 DEF Moves
<1>4. e \in listed' => e \in listed
  BY <1>2
<1>5. CASE "lost" \in marks'[e]
  BY <1>2, <1>3, <1>4, <1>5, LostKeeps
<1>6. CASE "lost" \notin marks'[e]
  <2>1. o \notin InFlight(e) \/ e \in listed'
    BY <1>2, <1>6
  <2>2. CASE Env(o) # e
    <3>1. \A p \in Actors : op'[p] = op[p] \/ (Env(p) # e /\ op'[p].env # e)
      BY <1>1, <2>2, BoundsTyped DEF Moves
    <3>2. Untouched(e)
      BY <1>2, <1>4, <3>1, PodsUnchanged DEF Untouched
    <3>3. QED
      BY <3>2, UntouchedKeeps
  <2>3. CASE Env(o) = e
    <3>1. e \in listed' /\ e \in listed
      BY <1>4, <2>1, <2>3 DEF InFlight
    <3>2. row[e].status # "absent"
      BY <2>3 DEF EnvInv, Unused, InFlight
    <3>3. "overlap" \in marks[e]
      BY <2>3, <3>1, <3>2 DEF EnvInv, Calm, SoleOwner
    <3>4. "overlap" \in marks'[e]
      BY <1>2, <3>3
    <3>5. QED
      BY <1>2, <3>2, <3>4 DEF EnvInv
  <2>4. QED
    BY <2>2, <2>3
<1>7. QED
  BY <1>5, <1>6

LEMMA CleanupEnv ==
    ASSUME TypeInv, PointsFit, NEW d \in Envs, CleanupNext(d), EnvInv(d),
           NEW e \in Envs, EnvInv(e)
    PROVE  EnvInv(e)'
<1> DEFINE q == [kind |-> "cleanup", at |-> "deleting", env |-> d, next |-> 1, copy |-> row[d]]
<1>0. Scheduler \in Actors
  BY SchedulerStays
<1>1. Moves(Scheduler, q)
  BY <1>0 DEF CleanupNext, TypeInv, OpTyped, Moves
<1>2. /\ UNCHANGED <<row, pods, granted, marks>>
      /\ listed' = listed \ {d} /\ d \in listed
      /\ op[Scheduler].env = None
  BY <1>0 DEF CleanupNext, resources, observers, At, PointsFit, Fits
<1>3. row[d].status # "absent"
  BY <1>2 DEF EnvInv, Unused, InFlight
<1>4. CASE e # d
  <2>1. \A p \in Actors : op'[p] = op[p] \/ (Env(p) # e /\ op'[p].env # e)
    BY <1>1, <1>2, <1>4, BoundsTyped DEF Moves, Env
  <2>2. Untouched(e)
    BY <1>2, <2>1, PodsUnchanged DEF Untouched
  <2>3. QED
    BY <2>2, UntouchedKeeps
<1>5. CASE e = d
  <2>1. SUFFICES ASSUME "overlap" \notin marks'[e] PROVE Calm(e)'
    BY <1>2, <1>3, <1>5 DEF EnvInv
  <2>2. Calm(e)
    BY <1>2, <1>3, <1>5, <2>1 DEF EnvInv
  <2>3. \A p \in Actors : Env(p) # e
    BY <1>2, <1>5, <2>2 DEF Calm, SoleOwner
  <2>4. op'[Scheduler] = q /\ \A p \in Actors : op'[p].env = e => p = Scheduler
    BY <1>1, <2>3 DEF Moves, Env
  <2>5. SoleOwner(e)'
    BY <1>2, <1>5, <2>4 DEF SoleOwner, Env
  <2>6. Counted(e)' /\ EndedClean(e)'
    BY <1>2, <2>2, RowKept, PodsUnchanged DEF Calm
  <2>7. LoopDone(Scheduler, e)'
    BY <2>4 DEF LoopDone, At, Instances
  <2>8. Busy(e)'
    BY <1>0, <1>5, <2>4 DEF Busy, Midway, Env
  <2>9. QED
    BY <2>4, <2>5, <2>6, <2>7, <2>8 DEF Calm, Env
<1>6. QED
  BY <1>4, <1>5

LEMMA WorldEnv ==
    ASSUME TypeInv, PointsFit, NEW e \in Envs, EnvInv(e),
           \/ \E d \in Envs : Expire(d)
           \/ \E d \in Envs, i \in Instances : PodRuns(d, i) \/ PodDies(d, i) \/ PodGone(d, i)
           \/ CleanupExpired \/ SyncAll \/ Crash
    PROVE  EnvInv(e)'
<1>1. ASSUME NEW d \in Envs, Expire(d) PROVE EnvInv(e)'
  <2>1. Untouched(e)
    BY <1>1, PodsUnchanged DEF Untouched, Expire, observers
  <2>2. QED
    BY <2>1, UntouchedKeeps
<1>2. ASSUME NEW d \in Envs, NEW i \in Instances, PodRuns(d, i) \/ PodDies(d, i) \/ PodGone(d, i)
      PROVE  EnvInv(e)'
  <2>1. PICK s \in PodState :
           /\ SetPod(d, i, s)
           /\ \/ pods[d][i] = "pending" /\ s = "running"
              \/ pods[d][i] \in {"pending", "running"} /\ s \in {"failed", "succeeded"}
              \/ pods[d][i] = "terminating" /\ s = "none"
    BY <1>2 DEF PodRuns, PodDies, PodGone, PodState
  <2>2. /\ pods'[d][i] = s
        /\ \A c \in Envs, j \in Instances : c # d \/ j # i => pods'[c][j] = pods[c][j]
    BY <2>1, PodWrites DEF TypeInv
  <2>3. PodsKept(e)
    BY <2>1, <2>2 DEF PodsKept, Settled
  <2>4. UNCHANGED <<row, op, listed, granted, marks>>
    BY <1>2 DEF PodRuns, PodDies, PodGone, observers
  <2>5. Untouched(e)
    BY <2>3, <2>4 DEF Untouched
  <2>6. QED
    BY <2>5, UntouchedKeeps
<1>3. ASSUME CleanupExpired PROVE EnvInv(e)'
  <2>1. /\ UNCHANGED <<row, pods, op, granted>>
        /\ listed = {} /\ listed' = {d \in Envs : ListExpired(d)}
        /\ marks'[e] = IF e \in listed' /\ InFlight(e) # {} THEN marks[e] \cup {"overlap"}
                       ELSE marks[e]
    BY <1>3 DEF CleanupExpired, resources
  <2>2. CASE e \notin listed'
    <3>1. Untouched(e)
      BY <2>1, <2>2, PodsUnchanged DEF Untouched
    <3>2. QED
      BY <3>1, UntouchedKeeps
  <2>3. CASE e \in listed'
    <3>1. row[e].status = "running"
      BY <2>1, <2>3 DEF ListExpired
    <3>2. SUFFICES ASSUME "overlap" \notin marks'[e] PROVE Calm(e)'
      BY <2>1, <3>1 DEF EnvInv
    <3>3. InFlight(e) = {} /\ marks'[e] = marks[e]
      BY <2>1, <2>3, <3>2
    <3>4. Calm(e)
      BY <3>1, <3>2, <3>3 DEF EnvInv
    <3>5. \A o \in Actors : op'[o].env # e /\ Env(o) # e
      BY <2>1, <3>3 DEF InFlight, Env
    <3>6. PausedClean(e) /\ Provided(e)
      BY <3>4, <3>5 DEF Calm, Busy
    <3>7. Counted(e)' /\ EndedClean(e)' /\ PausedClean(e)' /\ Provided(e)'
      BY <2>1, <3>3, <3>4, <3>6, RowKept, PodsUnchanged DEF Calm
    <3>8. QED
      BY <3>5, <3>7 DEF Calm, SoleOwner, Env
  <2>4. QED
    BY <2>2, <2>3
<1>4. ASSUME SyncAll PROVE EnvInv(e)'
  <2>1. row'[e] = row[e]
    BY <1>4 DEF SyncAll, SyncedRow, ListedInstances
  <2>2. Untouched(e)
    BY <1>4, <2>1, PodsUnchanged DEF Untouched, SyncAll, observers
  <2>3. QED
    BY <2>2, UntouchedKeeps
<1>5. ASSUME Crash PROVE EnvInv(e)'
  <2>1. /\ UNCHANGED <<row, pods, granted>> /\ listed' = {}
        /\ \A o \in Actors : op'[o].env = None
        /\ marks'[e] = IF InFlight(e) = {} THEN marks[e] ELSE marks[e] \cup {"lost"}
    BY <1>5, FreeTyped DEF Crash, resources
  <2>2. CASE InFlight(e) # {}
    BY <2>1, <2>2, LostKeeps
  <2>3. CASE InFlight(e) = {}
    <3>1. \A o \in Actors : Env(o) # e /\ op'[o].env # e
      BY <2>1, <2>3, BoundsTyped DEF InFlight
    <3>2. Untouched(e)
      BY <2>1, <2>3, <3>1, PodsUnchanged DEF Untouched
    <3>3. QED
      BY <3>2, UntouchedKeeps
  <2>4. QED
    BY <2>2, <2>3
<1>6. QED
  BY <1>1, <1>2, <1>3, <1>4, <1>5

-----------------------------------------------------------------------------
\* The inductive invariant: shapes, places, and every environment.
IInv == TypeInv /\ PointsFit /\ \A e \in Envs : EnvInv(e)

LEMMA InitInv == Init => IInv
<1> SUFFICES ASSUME Init PROVE IInv
  OBVIOUS
<1>1. OpTyped
  BY FreeTyped DEF Init, OpTyped
<1>2. TypeInv
  <2>1. row \in [Envs -> Row]
    BY RowsTyped DEF Init
  <2>2. pods \in [Envs -> [Instances -> PodState]] /\ marks \in [Envs -> SUBSET Mark]
    BY DEF Init, PodState
  <2>3. elapsed \in [Envs -> Nat] /\ granted \in [Envs -> Nat]
    BY DEF Init
  <2>4. requests \in 0 .. MaxRequests /\ faults \in 0 .. MaxFaults
    BY BoundsTyped DEF Init
  <2>5. QED
    BY <1>1, <2>1, <2>2, <2>3, <2>4 DEF Init, TypeInv
<1>3. PointsFit
  BY FreeFits, SchedulerStays DEF Init, PointsFit, At
<1>4. ASSUME NEW e \in Envs PROVE EnvInv(e)
  BY RowsTyped, FreeTyped, BoundsTyped DEF Init, EnvInv, Unused, InFlight, Env, Blank, NewRow
<1>5. QED
  BY <1>2, <1>3, <1>4 DEF IInv

LEMMA StepInv == IInv /\ [Next]_vars => IInv'
<1> SUFFICES ASSUME IInv, [Next]_vars PROVE IInv'
  OBVIOUS
<1>0. TypeInv /\ PointsFit /\ \A e \in Envs : EnvInv(e)
  BY DEF IInv
<1>1. ASSUME NEW o \in Requests, UserRequest(o) PROVE IInv'
  BY <1>0, <1>1, RequestTyped, RequestFits, RequestKeeps DEF IInv
<1>2. ASSUME NEW o \in Actors, OpStep(o) PROVE IInv'
  BY <1>0, <1>2, OpStepTyped, OpStepFits, OpStepKeeps DEF IInv
<1>3. ASSUME NEW o \in Actors, Abandon(o) PROVE IInv'
  BY <1>0, <1>3, AbandonKeeps, AbandonEnv DEF IInv
<1>4. ASSUME NEW e \in Envs, CleanupNext(e) PROVE IInv'
  <2>1. row[e].status # "absent"
    BY <1>0, <1>4 DEF EnvInv, Unused, InFlight, CleanupNext
  <2>2. QED
    BY <1>0, <1>4, <2>1, CleanupKeeps, CleanupEnv DEF IInv
<1>5. ASSUME \/ \E d \in Envs : Expire(d)
             \/ \E d \in Envs, i \in Instances : PodRuns(d, i) \/ PodDies(d, i) \/ PodGone(d, i)
             \/ CleanupExpired \/ SyncAll \/ Crash
      PROVE  IInv'
  BY <1>0, <1>5, WorldKeeps, WorldEnv DEF IInv
<1>6. ASSUME UNCHANGED vars PROVE IInv'
  <2>1. UNCHANGED <<row, elapsed, pods, op, listed, requests, faults, marks, granted, crowded>>
    BY <1>6 DEF vars, resources, observers
  <2>2. TypeInv' /\ PointsFit'
    BY <1>0, <2>1 DEF TypeInv, OpTyped, PointsFit, At
  <2>3. ASSUME NEW e \in Envs PROVE EnvInv(e)'
    BY <1>0, <2>1, UntouchedKeeps, PodsUnchanged DEF Untouched
  <2>4. QED
    BY <2>2, <2>3 DEF IInv
<1>7. QED
  BY <1>1, <1>2, <1>3, <1>4, <1>5, <1>6 DEF Next

LEMMA Inductive == Spec => []IInv
  BY InitInv, StepInv, PTL DEF Spec

(* Type correctness: rows, pods, operations and observers keep their       *)
(* shapes, whatever is interleaved, lost or crashes                        *)
(* (env_manager_service.go).                                               *)
THEOREM TypeCorrect == Spec => []TypeOK
<1>1. IInv => TypeOK
  BY TypeParts DEF IInv
<1>2. QED
  BY <1>1, Inductive, PTL

(* Between operations the row of an environment tells the truth about its  *)
(* pods, unless its operations were interleaved, or what the marks say     *)
(* went wrong (StopEnv, PauseEnv, ResumeEnv, CleanupExpiredEnvs).          *)
THEOREM RowsTellTruth == Spec => []RowMatchesPods
<1>1. ASSUME IInv PROVE RowMatchesPods
  <2>1. SUFFICES ASSUME NEW e \in Envs, InFlight(e) = {},
                        row[e].status \in {"terminated", "paused", "running"},
                        "overlap" \notin marks[e]
                 PROVE  EndedClean(e) /\ PausedClean(e) /\ Provided(e)
    <3>1. ASSUME NEW e \in Envs, InFlight(e) = {},
                 row[e].status \in {"terminated", "paused", "running"},
                 "overlap" \notin marks[e] => EndedClean(e) /\ PausedClean(e) /\ Provided(e)
          PROVE  /\ row[e].status = "terminated" /\ Unmarked(e, {"overlap", "undeleted"})
                       => LivePods(e) = {}
                 /\ row[e].status = "paused"
                    /\ Unmarked(e, {"overlap", "undeleted", "unprovisioned", "lost"})
                       => LivePods(e) = {}
                 /\ row[e].status = "running"
                    /\ Unmarked(e, {"overlap", "lost", "stray poll"})
                       => PodsOf(e) = Instances
      BY <3>1 DEF EndedClean, PausedClean, Provided, Unmarked
    <3>2. QED
      BY <3>1 DEF RowMatchesPods
  <2>2. Calm(e)
    BY <1>1, <2>1 DEF IInv, EnvInv
  <2>3. ~Busy(e)
    BY <2>1 DEF Busy, InFlight
  <2>4. QED
    BY <2>2, <2>3 DEF Calm
<1>2. QED
  BY <1>1, Inductive, PTL

(* Without interleaving, extensions are counted, limited, and every one    *)
(* adds its time (ExtendEnv, UpdateExpireTime).                            *)
THEOREM ExtensionsCounted == Spec => []ExtensionsHonest
<1>1. ASSUME IInv PROVE ExtensionsHonest
  <2>1. SUFFICES ASSUME NEW e \in Envs, "overlap" \notin marks[e]
                 PROVE  Counted(e)
    BY DEF ExtensionsHonest, Unmarked, Counted
  <2>2. EnvInv(e)
    BY <1>1 DEF IInv
  <2>3. QED
    BY <2>1, <2>2, BoundsTyped DEF EnvInv, Calm, Unused, Counted
<1>2. QED
  BY <1>1, Inductive, PTL

-----------------------------------------------------------------------------
(* The quotas.  As long as no two admissions overlap and nothing revives a *)
(* row, rows only leave the active and the charged statuses.               *)
Steady ==
    /\ ~crowded
    /\ \A e \in Envs : "overlap" \notin marks[e] /\ "stray poll" \notin marks[e]

ChargedEnvs == {e \in Envs : row[e].status \in Charged}
ChargedOf(u) == {e \in EnvsOf(u) : row[e].status \in Charged}

Alike(d, e) == row[d].user = row[e].user /\ row[d].exp = row[e].exp

\* At most one admission is open, and what it read still holds.
AdmissionsApart ==
    ~crowded => \A o, p \in Requests : At(o, "admitted") /\ At(p, "admitted") => o = p

OneActive ==
    \A d, e \in Envs :
        row[d].status \in Active /\ row[e].status \in Active /\ Alike(d, e) => d = e

WithinQuotas ==
    /\ Cardinality(ChargedEnvs) <= MaxSchoolEnvs
    /\ \A u \in Users : Cardinality(ChargedOf(u)) <= MaxUserEnvs

StillFree(r) ==
    \A e \in Envs : row[e].user = r.copy.user /\ row[e].exp = r.copy.exp
                       => row[e].status \notin Active

StillRoom(r) ==
    /\ Cardinality(ChargedEnvs) < MaxSchoolEnvs
    /\ Cardinality(ChargedOf(r.copy.user)) < MaxUserEnvs

QuotaInv ==
    /\ AdmissionsApart
    /\ Steady =>
          /\ OneActive
          /\ \A o \in Requests : At(o, "admitted") => StillFree(op[o])
          /\ (\A e \in Envs : "resumed" \notin marks[e]) =>
                /\ WithinQuotas
                /\ \A o \in Requests : At(o, "admitted") => StillRoom(op[o])

LEMMA FiniteSets ==
    /\ \A S \in SUBSET Envs : IsFiniteSet(S) /\ Cardinality(S) \in Nat
    /\ \A S, T \in SUBSET Envs : S \subseteq T => Cardinality(S) <= Cardinality(T)
    /\ \A S \in SUBSET Envs, e \in Envs : Cardinality(S \cup {e}) <= Cardinality(S) + 1
    /\ \A S \in SUBSET Envs : (\A d, e \in S : d = e) => Cardinality(S) <= 1
<1>0. IsFiniteSet(Envs)
  BY FS_Interval, BoundsTyped DEF Envs
<1>1. \A S \in SUBSET Envs : IsFiniteSet(S) /\ Cardinality(S) \in Nat
  BY <1>0, FS_Subset, FS_CardinalityType
<1>2. \A S, T \in SUBSET Envs : S \subseteq T => Cardinality(S) <= Cardinality(T)
  BY <1>1, FS_Subset
<1>3. ASSUME NEW S \in SUBSET Envs, NEW e \in Envs
      PROVE  Cardinality(S \cup {e}) <= Cardinality(S) + 1
  BY <1>1, FS_AddElement
<1>4. ASSUME NEW S \in SUBSET Envs, \A d, e \in S : d = e PROVE Cardinality(S) <= 1
  <2>1. CASE S = {}
    BY <2>1, FS_EmptySet
  <2>2. CASE S # {}
    <3>1. PICK e : S = {e}
      BY <1>4, <2>2
    <3>2. QED
      BY <3>1, FS_Singleton
  <2>3. QED
    BY <2>1, <2>2
<1>5. QED
  BY <1>1, <1>2, <1>3, <1>4

\* Admissions that were open stay as they are; rows keep their owner and
\* do not come back to a status that counts.
AdmissionsKept == \A p \in Actors : op'[p].at = "admitted" => op'[p] = op[p]

RowsFade ==
    \A e \in Envs :
        /\ row'[e].user = row[e].user /\ row'[e].exp = row[e].exp
        /\ row'[e].status \in Active => row[e].status \in Active
        /\ row'[e].status \in Charged =>
              row[e].status \in Charged \/ "resumed" \in marks'[e]

MarksGrow == (crowded => crowded') /\ \A e \in Envs : marks[e] \subseteq marks'[e]

LEMMA QuotaFades ==
    ASSUME TypeInv, QuotaInv, AdmissionsKept, MarksGrow, Steady' => RowsFade
    PROVE  QuotaInv'
<1>1. AdmissionsApart'
  BY DEF QuotaInv, AdmissionsApart, AdmissionsKept, MarksGrow, At, Actors
<1>2. ASSUME Steady' PROVE OneActive' /\ \A o \in Requests : At(o, "admitted")' => StillFree(op[o])'
  <2>1. Steady
    BY <1>2 DEF Steady, MarksGrow
  <2>2. OneActive'
    BY <1>2, <2>1 DEF QuotaInv, OneActive, RowsFade, Alike
  <2>3. ASSUME NEW o \in Requests, At(o, "admitted")' PROVE StillFree(op[o])'
    <3>1. op'[o] = op[o] /\ StillFree(op[o])
      BY <2>1, <2>3 DEF AdmissionsKept, QuotaInv, At, Actors
    <3>2. QED
      BY <1>2, <3>1 DEF StillFree, RowsFade
  <2>4. QED
    BY <2>2, <2>3
<1>3. ASSUME Steady', \A e \in Envs : "resumed" \notin marks'[e]
      PROVE  WithinQuotas' /\ \A o \in Requests : At(o, "admitted")' => StillRoom(op[o])'
  <2>1. Steady /\ \A e \in Envs : "resumed" \notin marks[e]
    BY <1>3 DEF Steady, MarksGrow
  <2>2. ChargedEnvs' \subseteq ChargedEnvs /\ ChargedEnvs \subseteq Envs
    BY <1>3 DEF ChargedEnvs, RowsFade
  <2>3. \A u : ChargedOf(u)' \subseteq ChargedOf(u) /\ ChargedOf(u) \subseteq Envs
    BY <1>3 DEF ChargedOf, EnvsOf, RowsFade
  <2>4. /\ Cardinality(ChargedEnvs') <= Cardinality(ChargedEnvs)
        /\ Cardinality(ChargedEnvs) \in Nat /\ Cardinality(ChargedEnvs') \in Nat
    BY <2>2, FiniteSets
  <2>5. ASSUME NEW u
        PROVE  /\ Cardinality(ChargedOf(u)') <= Cardinality(ChargedOf(u))
               /\ Cardinality(ChargedOf(u)) \in Nat /\ Cardinality(ChargedOf(u)') \in Nat
    <3>1. ChargedOf(u)' \in SUBSET Envs /\ ChargedOf(u) \in SUBSET Envs
          /\ ChargedOf(u)' \subseteq ChargedOf(u)
      BY <2>3
    <3>2. QED
      BY <3>1, FiniteSets
  <2>6. WithinQuotas'
    <3>1. WithinQuotas
      BY <2>1 DEF QuotaInv
    <3>2. QED
      BY <3>1, <2>4, <2>5, BoundsTyped DEF WithinQuotas
  <2>7. ASSUME NEW o \in Requests, At(o, "admitted")' PROVE StillRoom(op[o])'
    <3>1. op'[o] = op[o] /\ StillRoom(op[o])
      BY <2>1, <2>7 DEF AdmissionsKept, QuotaInv, At, Actors
    <3>2. QED
      BY <3>1, <2>4, <2>5, BoundsTyped DEF StillRoom
  <2>8. QED
    BY <2>6, <2>7
<1>4. QED
  BY <1>1, <1>2, <1>3 DEF QuotaInv

\* What an operation writes into the row of its environment, if it was alone.
LEMMA OwnerFades ==
    ASSUME TypeInv, PointsFit, NEW e \in Envs, NEW o \in Actors,
           Env(o) = e, Calm(e), OpStep(o), "stray poll" \notin marks'[e]
    PROVE  /\ row'[e].user = row[e].user /\ row'[e].exp = row[e].exp
           /\ row'[e].status \in Active => row[e].status \in Active
           /\ row'[e].status \in Charged =>
                 row[e].status \in Charged \/ "resumed" \in marks'[e]
<1> DEFINE r == op[o]
<1>0. /\ r \in Operation /\ Fits(r) /\ r.env = e
      /\ r.copy = row[e] /\ row[e] \in Row
      /\ r.at \notin {"free", "admitted"}
  BY OwnerFacts
<1> HIDE DEF r
<1>1. ASSUME NEW s \in Status, row'[e] = [row[e] EXCEPT !.status = s]
      PROVE  row'[e].user = row[e].user /\ row'[e].exp = row[e].exp /\ row'[e].status = s
  BY <1>0, <1>1 DEF Row
<1>2. \A s \in Status : [row[e] EXCEPT !.status = s] \in Row
  BY <1>0, RowsTyped
<1>3. \A c \in Row : Update(e, c) => row'[e] = c
  BY RowWrites DEF TypeInv, Writes
<1>4. CASE row'[e] = row[e]
  BY <1>4
<1>5. CASE Insert(o)
  BY <1>0, <1>5 DEF Insert, At, r
<1>6. CASE Provisioned(o)
  <2>1. CASE r.kind = "create"
    BY <1>4, <1>6, <2>1 DEF Provisioned, r
  <2>2. CASE r.kind # "create"
    <3>1. r.at = "provisioning" /\ MarkEnv(e, "resumed")
          /\ Update(e, [row[e] EXCEPT !.status = "creating"])
      BY <1>0, <1>6, <2>2 DEF Provisioned, r, At, Env
    <3>2. row[e].status = "paused"
      BY <1>0, <2>2, <3>1 DEF Fits
    <3>3. marks'[e] = marks[e] \cup {"resumed"}
      BY <3>1, MarkWrites DEF TypeInv, Mark
    <3>4. row'[e] = [row[e] EXCEPT !.status = "creating"]
      BY <1>2, <1>3, <3>1 DEF Status
    <3>5. QED
      BY <1>1, <3>2, <3>3, <3>4 DEF Status, Active
  <2>3. QED
    BY <2>1, <2>2
<1>7. CASE WriteVerdict(o)
  <2>1. PICK s \in Status : Update(e, [row[e] EXCEPT !.status = s])
    BY <1>0, <1>7 DEF WriteVerdict, Status, r, Env
  <2>2. row[e].status = "creating"
    BY <1>0, <1>7 DEF WriteVerdict, Fits, At, r
  <2>3. row'[e] = [row[e] EXCEPT !.status = s]
    BY <1>2, <1>3, <2>1
  <2>4. QED
    BY <1>1, <2>2, <2>3 DEF Active, Charged
<1>8. CASE SnapshotTaken(o)
  BY <1>0, <1>3, <1>4, <1>8 DEF SnapshotTaken, r, Env
<1>9. CASE Close(o)
  <2>1. CASE r.kind = "pause"
    <3>1. Update(e, [row[e] EXCEPT !.status = "paused"]) /\ r.at = "closing"
      BY <1>0, <1>9, <2>1 DEF Close, r, At, Env
    <3>2. row[e].status = "running"
      BY <1>0, <2>1, <3>1 DEF Fits
    <3>3. row'[e] = [row[e] EXCEPT !.status = "paused"]
      BY <1>2, <1>3, <3>1 DEF Status
    <3>4. QED
      BY <1>1, <3>2, <3>3 DEF Status, Active, Charged
  <2>2. CASE r.kind # "pause"
    <3>1. UpdateStatus(e, "terminated")
      BY <1>0, <1>9, <2>2 DEF Close, r, Env
    <3>2. row'[e] = [row[e] EXCEPT !.status = "terminated"]
      BY <3>1, RowWrites DEF TypeInv, Writes, Status
    <3>3. QED
      BY <1>1, <3>2 DEF Status, Active, Charged
  <2>3. QED
    BY <2>1, <2>2
<1>10. CASE GrantExtension(o)
  <2> DEFINE n == op[o].copy.lease + 1
             m == row[e].extends + 1
             c == [row[e] EXCEPT !.lease = n, !.extends = m]
  <2>1. row' = [row EXCEPT ![e] = c]
    BY <1>10 DEF GrantExtension, TypeInv, Env
  <2>2. row'[e] = c
    <3> HIDE DEF c
    <3> QED BY <2>1 DEF TypeInv
  <2>3. c.status = row[e].status /\ c.user = row[e].user /\ c.exp = row[e].exp
    <3> HIDE DEF n, m
    <3> QED BY <1>0 DEF Row
  <2> HIDE DEF c
  <2>4. QED
    BY <2>2, <2>3
<1>11. CASE PollAnswered(o)
  <2> DEFINE c == SyncedRow(e, r.copy, Instances)
             s == c.status
  <2>1. /\ Update(e, c) \/ (c = r.copy /\ UNCHANGED row)
        /\ IF r.copy.status \in Charged THEN UNCHANGED marks ELSE MarkEnv(e, "stray poll")
    BY <1>0, <1>11 DEF PollAnswered, r, Env
  <2>2. c \in Row /\ s \in Status /\ c = [row[e] EXCEPT !.status = s]
    BY <1>0, SyncTyped, TypeParts DEF Status
  <2>3. row'[e] = c
    <3> HIDE DEF c
    <3> QED BY <1>0, <1>3, <2>1, <2>2
  <2>4. r.copy.status \in Charged
    <3>1. SUFFICES ASSUME MarkEnv(e, "stray poll") PROVE FALSE
      BY <2>1
    <3>2. marks'[e] = marks[e] \cup {"stray poll"}
      BY <3>1, MarkWrites DEF TypeInv, Mark
    <3>3. QED
      BY <3>2
  <2>5. row'[e].user = row[e].user /\ row'[e].exp = row[e].exp
    <3>1. row'[e] = [row[e] EXCEPT !.status = s]
      BY <2>2, <2>3
    <3> HIDE DEF s
    <3>2. QED
      BY <1>1, <2>2, <3>1
  <2>6. QED
    BY <1>0, <2>4, <2>5 DEF Charged, Active
<1>12. QED
  BY <1>4, <1>5, <1>6, <1>7, <1>8, <1>9, <1>10, <1>11
     DEF OpStep, StartInstance, StartFails, InstanceReady, InstanceNotReady,
         SnapshotRefused, DeleteInstance, resources

LEMMA OpCrowd ==
    ASSUME NEW o \in Actors, OpStep(o)
    PROVE  crowded' = crowded
  BY DEF OpStep, Insert, StartInstance, StartFails, Provisioned, InstanceReady,
         InstanceNotReady, WriteVerdict, SnapshotTaken, SnapshotRefused, DeleteInstance,
         Close, GrantExtension, PollAnswered, observers

LEMMA OpQuota ==
    ASSUME IInv, QuotaInv, NEW o \in Actors, OpStep(o), ~Insert(o)
    PROVE  QuotaInv'
<1>0. TypeInv /\ PointsFit /\ \A e \in Envs : EnvInv(e)
  BY DEF IInv
<1>1. AdmissionsKept
  <2>1. PICK q : Moves(o, q) /\ q.at # "admitted"
    BY <1>0, OpStays
  <2>2. QED
    BY <2>1 DEF AdmissionsKept, Moves
<1>2. MarksGrow
  BY <1>0, OpMarks, OpCrowd DEF MarksGrow
<1>3. ASSUME Steady', NEW e \in Envs
      PROVE  /\ row'[e].user = row[e].user /\ row'[e].exp = row[e].exp
             /\ row'[e].status \in Active => row[e].status \in Active
             /\ row'[e].status \in Charged =>
                   row[e].status \in Charged \/ "resumed" \in marks'[e]
  <2>1. CASE e # Env(o)
    BY <1>0, <2>1, OpLeavesOthers
  <2>2. CASE e = Env(o)
    <3>1. row[e].status # "absent"
      BY <1>0, <2>2 DEF EnvInv, Unused, InFlight
    <3>2. Calm(e)
      BY <1>0, <1>2, <1>3, <3>1 DEF EnvInv, MarksGrow, Steady
    <3>3. QED
      BY <1>0, <1>3, <2>2, <3>2, OwnerFades DEF Steady
  <2>3. QED
    BY <2>1, <2>2
<1>4. Steady' => RowsFade
  BY <1>3 DEF RowsFade
<1>5. QED
  BY <1>0, <1>1, <1>2, <1>4, QuotaFades

LEMMA InsertQuota ==
    ASSUME IInv, QuotaInv, NEW o \in Actors, Insert(o)
    PROVE  QuotaInv'
<1> DEFINE r == op[o]
<1>0. TypeInv /\ PointsFit
  BY DEF IInv
<1>1. PICK u \in Users, x \in Experiments : r.copy = NewRow(u, x)
  BY <1>0 DEF PointsFit, Fits, Insert, At
<1>2. r \in Operation /\ r.copy \in Row /\ r.copy.user = u /\ r.copy.exp = x
      /\ o \in Requests /\ At(o, "admitted")
  <2>1. r \in Operation /\ r.copy \in Row
    BY <1>0, OwnerTyped
  <2>2. r.copy.user = u /\ r.copy.exp = x
    BY <1>1 DEF NewRow
  <2>3. o \in Requests /\ At(o, "admitted")
    BY <1>0 DEF PointsFit, Insert, Actors
  <2>4. QED
    BY <2>1, <2>2, <2>3
<1>3. PICK d \in Envs :
         /\ row[d].status = "absent"
         /\ Update(d, r.copy)
         /\ op' = [op EXCEPT ![o].at = "provisioning", ![o].env = d]
  BY DEF Insert
<1>4. UNCHANGED <<marks, crowded>>
  BY DEF Insert, observers
<1>5. row'[d].user = u /\ row'[d].exp = x /\ \A e \in Envs \ {d} : row'[e] = row[e]
  BY <1>0, <1>2, <1>3, RowWrites DEF TypeInv, Writes
<1>6. op'[o].at = "provisioning" /\ \A p \in Actors \ {o} : op'[p] = op[p]
  <2> DEFINE q == [r EXCEPT !.at = "provisioning", !.env = d]
  <2>1. op'[o] = q /\ \A p \in Actors \ {o} : op'[p] = op[p]
    BY <1>0, <1>3 DEF TypeInv, OpTyped
  <2>2. q.at = "provisioning"
    BY <1>2 DEF Operation
  <2> HIDE DEF q
  <2>3. QED
    BY <2>1, <2>2
<1>7. AdmissionsApart'
  BY <1>4, <1>6 DEF QuotaInv, AdmissionsApart, At, Actors
<1>8. ASSUME Steady'
      PROVE  /\ Steady /\ StillFree(r)
             /\ \A p \in Requests : ~At(p, "admitted")'
  <2>1. Steady
    BY <1>4, <1>8 DEF Steady
  <2>2. StillFree(r)
    BY <1>2, <2>1 DEF QuotaInv
  <2>3. ASSUME NEW p \in Requests, op'[p].at = "admitted" PROVE FALSE
    <3>1. p # o /\ op'[p] = op[p]
      BY <1>6, <2>3 DEF Actors
    <3>2. QED
      BY <1>2, <2>1, <2>3, <3>1 DEF QuotaInv, AdmissionsApart, Steady, At
  <2>4. QED
    BY <2>1, <2>2, <2>3 DEF At
<1>9. ASSUME Steady' PROVE OneActive'
  <2>1. OneActive /\ StillFree(r)
    BY <1>8, <1>9 DEF QuotaInv
  <2>2. SUFFICES ASSUME NEW a \in Envs, NEW b \in Envs,
                        row'[a].status \in Active, row'[b].status \in Active,
                        Alike(a, b)', a # b
                 PROVE  FALSE
    BY DEF OneActive
  <2>3. CASE a # d /\ b # d
    BY <1>5, <2>1, <2>2, <2>3 DEF OneActive, Alike
  <2>4. CASE a = d \/ b = d
    BY <1>2, <1>5, <2>1, <2>2, <2>4 DEF StillFree, Alike
  <2>5. QED
    BY <2>3, <2>4
<1>10. ASSUME Steady', \A e \in Envs : "resumed" \notin marks'[e] PROVE WithinQuotas'
  <2>1. WithinQuotas /\ StillRoom(r)
    BY <1>2, <1>4, <1>8, <1>10 DEF QuotaInv
  <2>2. /\ ChargedEnvs' \subseteq ChargedEnvs \cup {d}
        /\ ChargedEnvs \in SUBSET Envs /\ ChargedEnvs' \in SUBSET Envs
    BY <1>5 DEF ChargedEnvs
  <2>3. Cardinality(ChargedEnvs') <= MaxSchoolEnvs
    <3>1. Cardinality(ChargedEnvs \cup {d}) <= Cardinality(ChargedEnvs) + 1
          /\ Cardinality(ChargedEnvs') <= Cardinality(ChargedEnvs \cup {d})
          /\ Cardinality(ChargedEnvs) \in Nat /\ Cardinality(ChargedEnvs') \in Nat
          /\ Cardinality(ChargedEnvs \cup {d}) \in Nat
      <4>1. ChargedEnvs \cup {d} \in SUBSET Envs
        BY <2>2
      <4>2. QED
        BY <2>2, <4>1, FiniteSets
    <3>2. QED
      BY <2>1, <3>1, BoundsTyped DEF StillRoom
  <2>4. ASSUME NEW v \in Users PROVE Cardinality(ChargedOf(v)') <= MaxUserEnvs
    <3>1. ChargedOf(v) \in SUBSET Envs /\ ChargedOf(v)' \in SUBSET Envs
      BY DEF ChargedOf, EnvsOf
    <3>2. CASE v = u
      <4>1. ChargedOf(v)' \subseteq ChargedOf(v) \cup {d} /\ ChargedOf(v) \cup {d} \in SUBSET Envs
        BY <1>5, <3>1 DEF ChargedOf, EnvsOf
      <4>2. Cardinality(ChargedOf(v) \cup {d}) <= Cardinality(ChargedOf(v)) + 1
            /\ Cardinality(ChargedOf(v)') <= Cardinality(ChargedOf(v) \cup {d})
            /\ Cardinality(ChargedOf(v)) \in Nat /\ Cardinality(ChargedOf(v)') \in Nat
            /\ Cardinality(ChargedOf(v) \cup {d}) \in Nat
        BY <3>1, <4>1, FiniteSets
      <4>3. QED
        BY <1>2, <2>1, <3>2, <4>2, BoundsTyped DEF StillRoom
    <3>3. CASE v # u
      <4>1. ChargedOf(v)' \subseteq ChargedOf(v)
        BY <1>5, <3>3 DEF ChargedOf, EnvsOf
      <4>2. Cardinality(ChargedOf(v)') <= Cardinality(ChargedOf(v))
            /\ Cardinality(ChargedOf(v)) \in Nat /\ Cardinality(ChargedOf(v)') \in Nat
        BY <3>1, <4>1, FiniteSets
      <4>3. QED
        BY <2>1, <4>2, BoundsTyped DEF WithinQuotas
    <3>4. QED
      BY <3>2, <3>3
  <2>5. QED
    BY <2>3, <2>4 DEF WithinQuotas
<1>11. QED
  BY <1>7, <1>8, <1>9, <1>10 DEF QuotaInv

LEMMA AdmitQuota ==
    ASSUME IInv, QuotaInv, NEW o \in Requests, NEW u \in Users, NEW x \in Experiments,
           Admit(o, u, x)
    PROVE  QuotaInv'
<1> DEFINE q == [kind |-> "create", at |-> "admitted", env |-> None,
                 next |-> 1, copy |-> NewRow(u, x)]
<1>0. TypeInv /\ PointsFit
  BY DEF IInv
<1>1. op'[o] = q /\ \A p \in Actors \ {o} : op'[p] = op[p]
  BY <1>0 DEF Admit, TypeInv, OpTyped, Actors
<1>2. /\ UNCHANGED <<row, marks>> /\ Admissible(u, x)
      /\ crowded' = (crowded \/ \E p \in Requests : At(p, "admitted"))
  BY DEF Admit, resources
<1>3. q.copy.user = u /\ q.copy.exp = x
  BY DEF NewRow
<1> HIDE DEF q
<1>4. ~crowded' => ~crowded /\ \A p \in Requests : ~At(p, "admitted")
  BY <1>2
<1>5. ~crowded' => \A p \in Requests : op'[p].at = "admitted" => p = o
  BY <1>1, <1>4 DEF At, Actors
<1>6. AdmissionsApart'
  BY <1>5 DEF AdmissionsApart, At
<1>7. StillFree(op[o])' /\ StillRoom(op[o])'
  BY <1>1, <1>2, <1>3 DEF StillFree, StillRoom, Admissible, EnvsOf, ChargedEnvs, ChargedOf
<1>8. Steady' => Steady
  BY <1>2, <1>4 DEF Steady
<1>9. OneActive' <=> OneActive
  BY <1>2 DEF OneActive, Alike
<1>10. WithinQuotas' <=> WithinQuotas
  BY <1>2 DEF WithinQuotas, ChargedEnvs, ChargedOf, EnvsOf
<1>11. ASSUME Steady' PROVE \A p \in Requests : At(p, "admitted")' => p = o
  BY <1>5, <1>11 DEF At, Steady
<1>12. QED
  BY <1>2, <1>6, <1>7, <1>8, <1>9, <1>10, <1>11 DEF QuotaInv

LEMMA QuotaStep == IInv /\ QuotaInv /\ [Next]_vars => QuotaInv'
<1> SUFFICES ASSUME IInv, QuotaInv, [Next]_vars PROVE QuotaInv'
  OBVIOUS
<1>0. TypeInv /\ PointsFit
  BY DEF IInv
<1>1. ASSUME NEW o \in Actors, OpStep(o) PROVE QuotaInv'
  BY <1>1, OpQuota, InsertQuota
<1>2. ASSUME NEW o \in Requests, NEW u \in Users, NEW x \in Experiments, Admit(o, u, x)
      PROVE  QuotaInv'
  BY <1>2, AdmitQuota
<1> DEFINE RowsSame == \A e \in Envs :
               /\ row'[e].user = row[e].user /\ row'[e].exp = row[e].exp
               /\ row'[e].status = row[e].status
<1>3. ASSUME RowsSame, AdmissionsKept, MarksGrow PROVE QuotaInv'
  <2>1. RowsFade
    BY <1>3 DEF RowsFade
  <2>2. QED
    BY <1>0, <1>3, <2>1, QuotaFades
<1>4. ASSUME NEW o \in Requests, NEW d \in Envs,
             Stop(o, d) \/ Pause(o, d) \/ Resume(o, d)
                \/ Extend(o, d) \/ Snapshot(o, d) \/ Poll(o, d)
      PROVE  QuotaInv'
  <2>1. PICK kind \in Kind, point \in Point :
           Begin(o, kind, d, point) /\ point # "admitted"
    BY <1>4 DEF Stop, Pause, Resume, Extend, Snapshot, Poll, Kind, Point
  <2> DEFINE q == [kind |-> kind, at |-> point, env |-> d, next |-> 1, copy |-> row[d]]
  <2>2. Moves(o, q)
    BY <1>0, <2>1, BeginTyped
  <2>3. AdmissionsKept
    BY <2>1, <2>2 DEF AdmissionsKept, Moves
  <2>4. RowsSame /\ MarksGrow
    BY <1>0, <2>1 DEF Begin, resources, MarksGrow, TypeInv
  <2>5. QED
    BY <1>3, <2>3, <2>4
<1>5. ASSUME NEW o \in Actors, Abandon(o) PROVE QuotaInv'
  <2>1. Moves(o, Free) /\ Free.at = "free"
    BY <1>0, <1>5, OpMoves, FreeTyped DEF Abandon, TypeInv
  <2>2. AdmissionsKept
    BY <2>1 DEF AdmissionsKept, Moves
  <2>3. RowsSame /\ MarksGrow
    BY <1>5 DEF Abandon, resources, MarksGrow
  <2>4. QED
    BY <1>3, <2>2, <2>3
<1>6. ASSUME NEW d \in Envs, CleanupNext(d) PROVE QuotaInv'
  <2> DEFINE q == [kind |-> "cleanup", at |-> "deleting", env |-> d, next |-> 1, copy |-> row[d]]
  <2>1. Moves(Scheduler, q)
    BY <1>0, <1>6, SchedulerStays DEF CleanupNext, TypeInv, OpTyped, Moves
  <2>2. AdmissionsKept
    BY <2>1 DEF AdmissionsKept, Moves
  <2>3. RowsSame /\ MarksGrow
    BY <1>6 DEF CleanupNext, resources, observers, MarksGrow
  <2>4. QED
    BY <1>3, <2>2, <2>3
<1>7. ASSUME NEW d \in Envs, Expire(d) PROVE QuotaInv'
  <2>1. RowsSame /\ MarksGrow /\ AdmissionsKept
    BY <1>7 DEF Expire, observers, MarksGrow, AdmissionsKept
  <2>2. QED
    BY <1>3, <2>1
<1>8. ASSUME NEW d \in Envs, NEW i \in Instances, PodRuns(d, i) \/ PodDies(d, i) \/ PodGone(d, i)
      PROVE  QuotaInv'
  <2>1. RowsSame /\ MarksGrow /\ AdmissionsKept
    BY <1>8 DEF PodRuns, PodDies, PodGone, observers, MarksGrow, AdmissionsKept
  <2>2. QED
    BY <1>3, <2>1
<1>9. ASSUME CleanupExpired PROVE QuotaInv'
  <2>1. RowsSame /\ AdmissionsKept
    BY <1>9 DEF CleanupExpired, resources, AdmissionsKept
  <2>2. MarksGrow
    BY <1>9 DEF CleanupExpired, MarksGrow
  <2>3. QED
    BY <1>3, <2>1, <2>2
<1>10. ASSUME SyncAll PROVE QuotaInv'
  <2>1. RowsSame
    BY <1>10 DEF SyncAll, SyncedRow, ListedInstances
  <2>2. MarksGrow /\ AdmissionsKept
    BY <1>10 DEF SyncAll, observers, MarksGrow, AdmissionsKept
  <2>3. QED
    BY <1>3, <2>1, <2>2
<1>11. ASSUME Crash PROVE QuotaInv'
  <2>1. RowsSame /\ MarksGrow
    BY <1>11 DEF Crash, resources, MarksGrow
  <2>2. AdmissionsKept
    BY <1>11, FreeTyped DEF Crash, AdmissionsKept
  <2>3. QED
    BY <1>3, <2>1, <2>2
<1>12. ASSUME UNCHANGED vars PROVE QuotaInv'
  <2>1. RowsSame /\ MarksGrow /\ AdmissionsKept
    BY <1>12 DEF vars, resources, observers, MarksGrow, AdmissionsKept
  <2>2. QED
    BY <1>3, <2>1
<1>13. QED
  BY <1>1, <1>2, <1>4, <1>5, <1>6, <1>7, <1>8, <1>9, <1>10, <1>11, <1>12
     DEF Next, UserRequest

LEMMA QuotaInit == Init => QuotaInv
<1> SUFFICES ASSUME Init PROVE QuotaInv
  OBVIOUS
<1>1. \A e \in Envs : row[e].status = "absent"
  BY RowsTyped DEF Init
<1>2. \A o \in Requests : ~At(o, "admitted")
  BY FreeTyped DEF Init, At, Actors
<1>3. OneActive
  BY <1>1 DEF OneActive, Active
<1>4. ChargedEnvs = {} /\ \A u : ChargedOf(u) = {}
  BY <1>1 DEF ChargedEnvs, ChargedOf, EnvsOf, Charged
<1>5. WithinQuotas
  BY <1>4, FS_EmptySet, BoundsTyped DEF WithinQuotas
<1>6. QED
  BY <1>2, <1>3, <1>5 DEF QuotaInv, AdmissionsApart

(* The quotas of users and of the school, and one active environment per   *)
(* user and experiment, as long as no two admissions overlap and nothing   *)
(* revives a row (checkQuota and the reads of CreateEnv).                  *)
THEOREM QuotasKept == Spec => []QuotaKept
<1>1. Spec => [](IInv /\ QuotaInv)
  BY InitInv, StepInv, QuotaInit, QuotaStep, PTL DEF Spec
<1>2. ASSUME QuotaInv PROVE QuotaKept
  <2>1. SUFFICES ASSUME ~crowded, \A e \in Envs : Unmarked(e, {"overlap", "stray poll"})
                 PROVE  /\ \A u \in Users, x \in Experiments :
                             Cardinality({e \in EnvsOf(u) :
                                 row[e].exp = x /\ row[e].status \in Active}) <= 1
                        /\ (\A e \in Envs : Unmarked(e, {"resumed"})) => WithinQuotas
    BY DEF QuotaKept, WithinQuotas, ChargedEnvs, ChargedOf
  <2>2. Steady
    BY <2>1 DEF Steady, Unmarked
  <2>3. ASSUME NEW u \in Users, NEW x \in Experiments
        PROVE  Cardinality({e \in EnvsOf(u) :
                               row[e].exp = x /\ row[e].status \in Active}) <= 1
    <3> DEFINE S == {e \in EnvsOf(u) : row[e].exp = x /\ row[e].status \in Active}
    <3>1. S \in SUBSET Envs
      BY DEF EnvsOf
    <3>2. \A d, e \in S : d = e
      BY <1>2, <2>2 DEF QuotaInv, OneActive, Alike, EnvsOf
    <3> HIDE DEF S
    <3>3. Cardinality(S) <= 1
      BY <3>1, <3>2, FiniteSets
    <3>4. QED
      BY <3>3 DEF S
  <2>4. (\A e \in Envs : Unmarked(e, {"resumed"})) => WithinQuotas
    BY <1>2, <2>2 DEF QuotaInv, Unmarked
  <2>5. QED
    BY <2>3, <2>4
<1>3. QED
  BY <1>1, <1>2, PTL

-----------------------------------------------------------------------------
(***************************************************************************)
(* Submissions and their grades.                                           *)
(***************************************************************************)
Subject(r) == request[r].sub

AskerTyped(r) ==
    /\ RequestAt(r, "idle") => request[r] = Idle
    /\ request[r].at \in {"idle", "counted"} <=> Subject(r) = 0
    /\ Subject(r) # 0 => Subject(r) \in DOMAIN rows
    /\ request[r].at \in {"counted", "marking"} => r \in Students
    /\ RequestAt(r, "grading") => r \in Teachers
    /\ request[r].loaded => RequestAt(r, "grading")

GradingTyped ==
    /\ GradingTypeOK
    /\ \A r \in Students \cup Teachers : AskerTyped(r)

\* Nobody counts while another one does.
AttemptsNumbered ==
    /\ \A i \in DOMAIN rows : rows[i].attempt = i
    /\ \A i \in DOMAIN rows : grader[i].at = "evaluating" => grader[i].copy.attempt = i
    /\ \A r \in Students \cup Teachers :
        /\ Subject(r) # 0 => Copy(r).attempt = Subject(r)
        /\ RequestAt(r, "counted") => Copy(r).attempt = Len(rows) + 1
    /\ \A r, q \in Students : RequestAt(r, "counted") /\ RequestAt(q, "counted") => r = q

CheckpointsDone(i) == experiment.checkpoints /\ grader[i].at = "done"

\* A grader starts once, and only it stores check results.
GradedOnce ==
    /\ \A r, q \in Students : Subject(r) = Subject(q) /\ Subject(r) # 0 => r = q
    /\ \A r \in Students : Subject(r) # 0 => grader[Subject(r)].at = "none"
    /\ \A i \in DOMAIN rows : results[i] = "live" => CheckpointsDone(i)
    /\ \A r \in Students \cup Teachers : request[r].loaded => CheckpointsDone(Subject(r))
    /\ \A i \in refused : CheckpointsDone(i)

\* A submission that one party had in hand at a time.
InOneHand(i) ==
    /\ \A r, q \in Students \cup Teachers : Subject(r) = i /\ Subject(q) = i => r = q
    /\ \A r \in Students \cup Teachers : Subject(r) = i => ~Grading(i) /\ Copy(r) = rows[i]
    /\ grader[i].at = "evaluating" => grader[i].copy = rows[i]
    /\ Grading(i) \/ (\E r \in Students : Subject(r) = i) => verdict[i] = Unset
    /\ verdict[i] # Unset =>
         rows[i].status = "graded" /\ rows[i].manual = verdict[i] /\ rows[i].score = verdict[i]
    /\ grader[i].at = "done" /\ i \notin lost => rows[i].auto = AutoScore

HandedOn == \A i \in DOMAIN rows \ mixed : InOneHand(i)

Askers == Students \cup Teachers

LEMMA GradingBounds ==
    /\ MaxSubmissions \in Nat /\ MaxGrades \in Nat /\ MaxGradingFaults \in Nat
    /\ Students \cap Teachers = {}
    /\ AutoScore # Unset /\ AutoScore \notin Scores /\ Unset \notin Scores
BY GradingAssumption

\* A sequence with another entry, and with one more.
Amended(f, g, i, x) ==
    /\ Len(g) = Len(f) /\ DOMAIN g = DOMAIN f
    /\ g[i] = x /\ \A j \in DOMAIN f \ {i} : g[j] = f[j]
Extended(f, g, x) ==
    /\ Len(g) = Len(f) + 1 /\ DOMAIN g = 1 .. Len(f) + 1
    /\ g[Len(f) + 1] = x /\ \A j \in DOMAIN f : g[j] = f[j]

LEMMA Amends ==
    ASSUME NEW S, NEW f \in Seq(S), NEW i \in DOMAIN f, NEW x \in S,
           NEW g, g = [f EXCEPT ![i] = x]
    PROVE  g \in Seq(S) /\ Amended(f, g, i, x)
BY DEF Amended

LEMMA Extends ==
    ASSUME NEW S, NEW f \in Seq(S), NEW x \in S, NEW g, g = Append(f, x)
    PROVE  g \in Seq(S) /\ Extended(f, g, x)
BY DEF Extended

\* The request that a step leaves r with.
Asks(r, new) ==
    /\ request'[r] = new
    /\ \A q \in Askers \ {r} : request'[q] = request[q]

RequestSet(n) ==
    [at : {"idle", "counted", "marking", "grading"}, sub : 0 .. n,
     copy : Submission, loaded : BOOLEAN]
GraderSet == [at : {"none", "due", "evaluating", "done"}, copy : Submission]

LEMMA GradingTypes ==
    ASSUME GradingTypeOK
    PROVE  /\ experiment.autoGrade \in BOOLEAN /\ experiment.checkpoints \in BOOLEAN
           /\ rows \in Seq(Submission) /\ Len(rows) \in Nat /\ DOMAIN rows = 1 .. Len(rows)
           /\ results \in Seq({"none", "live", "deleted"}) /\ DOMAIN results = DOMAIN rows
           /\ grader \in Seq(GraderSet) /\ DOMAIN grader = DOMAIN rows
           /\ verdict \in Seq(Scores \cup {Unset}) /\ DOMAIN verdict = DOMAIN rows
           /\ request \in [Askers -> RequestSet(Len(rows))]
           /\ \A i \in DOMAIN rows : rows[i] \in Submission /\ grader[i] \in GraderSet
           /\ Len(results) = Len(rows) /\ Len(grader) = Len(rows) /\ Len(verdict) = Len(rows)
<1> USE DEF GradingTypeOK
<1>1. /\ rows \in Seq(Submission) /\ results \in Seq({"none", "live", "deleted"})
      /\ verdict \in Seq(Scores \cup {Unset})
      /\ Len(results) = Len(rows) /\ Len(grader) = Len(rows) /\ Len(verdict) = Len(rows)
  OBVIOUS
<1>2. grader \in Seq(GraderSet)
  BY DEF GraderSet
<1>3. request \in [Askers -> RequestSet(Len(rows))]
  BY DEF RequestSet, Askers
<1>4. experiment.autoGrade \in BOOLEAN /\ experiment.checkpoints \in BOOLEAN
  OBVIOUS
<1> HIDE DEF GradingTypeOK
<1>5. /\ Len(rows) \in Nat /\ DOMAIN rows = 1 .. Len(rows)
      /\ DOMAIN results = DOMAIN rows /\ DOMAIN verdict = DOMAIN rows
      /\ \A i \in DOMAIN rows : rows[i] \in Submission
  BY <1>1
<1>6. DOMAIN grader = DOMAIN rows /\ \A i \in DOMAIN rows : grader[i] \in GraderSet
  BY <1>1, <1>2, <1>5
<1>7. QED
  BY <1>1, <1>2, <1>3, <1>4, <1>5, <1>6

LEMMA NewTyped ==
    /\ \A n \in Nat : NewSubmission(n) \in Submission /\ NewSubmission(n).attempt = n
    /\ \A n \in Nat : Idle \in RequestSet(n)
    /\ Idle.at = "idle" /\ Idle.sub = 0 /\ ~Idle.loaded
    /\ \A at \in {"none", "due", "evaluating", "done"}, sheet \in Submission :
           Grader(at, sheet) \in GraderSet /\ Grader(at, sheet).at = at /\ Grader(at, sheet).copy = sheet
BY DEF NewSubmission, Submission, Idle, RequestSet, Grader, GraderSet, Score

LEMMA CopyTyped ==
    ASSUME NEW sheet \in Submission, NEW s \in Scores
    PROVE  /\ [sheet EXCEPT !.status = "grading"] \in Submission
           /\ [Graded(sheet, AutoScore) EXCEPT !.auto = AutoScore] \in Submission
           /\ [Graded(sheet, s) EXCEPT !.manual = s] \in Submission
BY DEF Submission, Score, Graded

\* One request moves.
LEMMA AsksTyped ==
    ASSUME request \in [Askers -> RequestSet(Len(rows))], NEW r \in Askers,
           NEW new \in RequestSet(Len(rows)), request' = [request EXCEPT ![r] = new]
    PROVE  request' \in [Askers -> RequestSet(Len(rows))] /\ Asks(r, new)
BY DEF Asks

LEMMA GradingTypeInit == GradingInit => GradingTyped
<1> SUFFICES ASSUME GradingInit PROVE GradingTyped
  OBVIOUS
<1> USE DEF GradingInit
<1>1. GradingTypeOK
  <2>1. 0 \in Nat /\ Idle \in RequestSet(0)
    BY NewTyped
  <2>2. request \in [Askers -> RequestSet(Len(rows))]
    BY <2>1 DEF Askers
  <2>3. /\ rows \in Seq(Submission) /\ results \in Seq({"none", "live", "deleted"})
        /\ grader \in Seq([at : {"none", "due", "evaluating", "done"}, copy : Submission])
        /\ verdict \in Seq(Scores \cup {Unset})
    OBVIOUS
  <2>4. /\ Len(rows) = 0 /\ Len(results) = 0 /\ Len(grader) = 0 /\ Len(verdict) = 0
        /\ 0 <= MaxSubmissions /\ 0 \in 0 .. MaxGrades /\ 0 \in 0 .. MaxGradingFaults
    BY GradingBounds
  <2>5. request \in [Students \cup Teachers ->
           [at : {"idle", "counted", "marking", "grading"}, sub : 0 .. Len(rows),
            copy : Submission, loaded : BOOLEAN]]
    BY <2>2 DEF Askers, RequestSet
  <2>6. QED
    BY <2>3, <2>4, <2>5 DEF GradingTypeOK
<1>2. \A r \in Students \cup Teachers : AskerTyped(r)
  BY NewTyped DEF AskerTyped, RequestAt, Subject
<1>3. QED
  BY <1>1, <1>2 DEF GradingTyped

LEMMA TypeGiven ==
    ASSUME experiment' = experiment,
           rows' \in Seq(Submission), Len(rows') \in Nat, Len(rows') <= MaxSubmissions,
           results' \in Seq({"none", "live", "deleted"}), Len(results') = Len(rows'),
           grader' \in Seq(GraderSet), Len(grader') = Len(rows'),
           request' \in [Askers -> RequestSet(Len(rows'))],
           grades' \in 0 .. MaxGrades, gradingFaults' \in 0 .. MaxGradingFaults,
           verdict' \in Seq(Scores \cup {Unset}), Len(verdict') = Len(rows'),
           mixed' \subseteq DOMAIN rows', lost' \subseteq DOMAIN rows',
           refused' \subseteq DOMAIN rows', crossed' \in BOOLEAN, GradingTypeOK
    PROVE  GradingTypeOK'
<1>1. experiment' \in [autoGrade : BOOLEAN, checkpoints : BOOLEAN]
  BY DEF GradingTypeOK
<1>2. (mixed \cup lost \cup refused)' \subseteq DOMAIN rows'
  OBVIOUS
<1>3. request' \in [Students \cup Teachers ->
           [at : {"idle", "counted", "marking", "grading"}, sub : 0 .. Len(rows'),
            copy : Submission, loaded : BOOLEAN]]
  BY DEF Askers, RequestSet
<1>4. grader' \in Seq([at : {"none", "due", "evaluating", "done"}, copy : Submission])
  BY DEF GraderSet
<1>5. QED
  BY <1>1, <1>2, <1>3, <1>4 DEF GradingTypeOK

\* What does not concern the shapes.
LEMMA GradingRest ==
    ASSUME GradingTypeOK
    PROVE  /\ mixed \subseteq DOMAIN rows /\ lost \subseteq DOMAIN rows
           /\ refused \subseteq DOMAIN rows /\ crossed \in BOOLEAN
           /\ grades \in 0 .. MaxGrades /\ gradingFaults \in 0 .. MaxGradingFaults
           /\ Len(rows) <= MaxSubmissions
BY DEF GradingTypeOK

LEMMA GradingFaultTyped ==
    ASSUME GradingTypeOK, GradingFault
    PROVE  gradingFaults' \in 0 .. MaxGradingFaults
BY GradingRest, GradingBounds DEF GradingFault

LEMMA AskersAre ==
    /\ \A r \in Students : r \in Askers /\ r \notin Teachers
    /\ \A t \in Teachers : t \in Askers /\ t \notin Students
BY GradingBounds DEF Askers

\* What the handlers do.
LEMMA SubmitDoes ==
    ASSUME GradingTyped, NEW r \in Students, SubmitExperiment(r)
    PROVE  /\ GradingTypeOK'
           /\ RequestAt(r, "idle")
           /\ \E new \in RequestSet(Len(rows)) :
                /\ Asks(r, new)
                /\ new.at = "counted" /\ new.sub = 0 /\ ~new.loaded
                /\ new.copy = NewSubmission(Len(rows) + 1)
           /\ crossed' = (crossed \/ \E q \in Students : RequestAt(q, "counted"))
           /\ UNCHANGED <<experiment, rows, results, grader, verdict, mixed, lost, refused>>
<1> DEFINE new == [Idle EXCEPT !.at = "counted", !.copy = NewSubmission(Len(rows) + 1)]
<1> USE DEF SubmitExperiment
<1>1. GradingTypeOK
  BY DEF GradingTyped
<1>2. Len(rows) + 1 \in Nat
  BY <1>1, GradingTypes
<1>3. /\ new \in RequestSet(Len(rows))
      /\ new.at = "counted" /\ new.sub = 0 /\ ~new.loaded
      /\ new.copy = NewSubmission(Len(rows) + 1)
  BY <1>1, <1>2, GradingTypes, NewTyped DEF Idle, RequestSet
<1>4. request' = [request EXCEPT ![r] = new]
  OBVIOUS
<1> HIDE DEF new
<1>5. request' \in [Askers -> RequestSet(Len(rows))] /\ Asks(r, new)
  BY <1>1, <1>3, <1>4, GradingTypes, AsksTyped, AskersAre
<1>6. GradingTypeOK'
  BY <1>1, <1>5, GradingTypes, GradingRest, TypeGiven
<1>7. QED
  BY <1>3, <1>5, <1>6

LEMMA MarkingTyped ==
    ASSUME NEW n \in Nat, NEW q \in RequestSet(n),
           NEW next, next = [q EXCEPT !.at = "marking", !.sub = n + 1]
    PROVE  /\ next \in RequestSet(n + 1)
           /\ next.at = "marking" /\ next.sub = n + 1
           /\ next.copy = q.copy /\ next.loaded = q.loaded
<1>1. n + 1 \in 0 .. n + 1
  OBVIOUS
<1>2. QED
  BY <1>1 DEF RequestSet

LEMMA InsertDoes ==
    ASSUME GradingTyped, NEW r \in Students, InsertSubmission(r)
    PROVE  /\ GradingTypeOK'
           /\ RequestAt(r, "counted")
           /\ Extended(rows, rows', Copy(r)) /\ Extended(results, results', "none")
           /\ Extended(grader, grader', Grader("none", NewSubmission(0)))
           /\ Extended(verdict, verdict', Unset)
           /\ \E new \in RequestSet(Len(rows) + 1) :
                /\ Asks(r, new)
                /\ \/ new = Idle
                   \/ /\ new.at = "marking" /\ new.sub = Len(rows) + 1
                      /\ new.copy = Copy(r) /\ ~new.loaded
           /\ UNCHANGED <<experiment, mixed, lost, refused, crossed>>
<1> DEFINE next == [request[r] EXCEPT !.at = "marking", !.sub = Len(rows) + 1]
           new == IF experiment.autoGrade THEN next ELSE Idle
<1> USE DEF InsertSubmission
<1>1. GradingTypeOK /\ AskerTyped(r) /\ RequestAt(r, "counted")
  BY DEF GradingTyped
<1>2. r \in Askers /\ request[r] \in RequestSet(Len(rows)) /\ ~request[r].loaded
  BY <1>1, GradingTypes, AskersAre DEF AskerTyped, RequestAt, RequestSet
<1>3. Copy(r) \in Submission
  BY <1>2 DEF Copy, RequestSet
<1>4. /\ rows' \in Seq(Submission) /\ Extended(rows, rows', Copy(r))
      /\ results' \in Seq({"none", "live", "deleted"}) /\ Extended(results, results', "none")
      /\ verdict' \in Seq(Scores \cup {Unset}) /\ Extended(verdict, verdict', Unset)
  BY <1>1, <1>3, GradingTypes, Extends, ZenonT(60)
<1>5. grader' \in Seq(GraderSet) /\ Extended(grader, grader', Grader("none", NewSubmission(0)))
  <2>1. 0 \in Nat /\ "none" \in {"none", "due", "evaluating", "done"}
    OBVIOUS
  <2>2. Grader("none", NewSubmission(0)) \in GraderSet
    BY <2>1, NewTyped
  <2>3. QED
    BY <1>1, <2>2, GradingTypes, Extends
<1>6. Len(rows) \in Nat /\ Len(rows') = Len(rows) + 1
  BY <1>1, <1>4, GradingTypes DEF Extended
<1>7. request \in [Askers -> RequestSet(Len(rows) + 1)]
  BY <1>1, <1>6, GradingTypes DEF RequestSet
<1>8. /\ next \in RequestSet(Len(rows) + 1)
      /\ next.at = "marking" /\ next.sub = Len(rows) + 1
      /\ next.copy = Copy(r) /\ ~next.loaded
  <2>1. PICK q \in RequestSet(Len(rows)) : q = request[r]
    BY <1>2
  <2>2. next = [q EXCEPT !.at = "marking", !.sub = Len(rows) + 1]
    BY <2>1
  <2>3. /\ next \in RequestSet(Len(rows) + 1)
        /\ next.at = "marking" /\ next.sub = Len(rows) + 1
        /\ next.copy = q.copy /\ next.loaded = q.loaded
    <3> HIDE DEF new, next
    <3>1. QED
      BY <1>6, <2>2, MarkingTyped, ZenonT(60)
  <2>4. QED
    BY <1>2, <2>1, <2>3 DEF Copy
<1>9. new \in RequestSet(Len(rows) + 1)
  BY <1>6, <1>8, NewTyped
<1>10. request' = [request EXCEPT ![r] = new]
  BY <1>2, <1>7
<1>11. new = Idle \/ new = next
  OBVIOUS
<1> HIDE DEF new, next
<1>12. request' \in [Askers -> RequestSet(Len(rows) + 1)] /\ Asks(r, new)
  BY <1>2, <1>7, <1>9, <1>10 DEF Asks
<1>13. /\ Len(results') = Len(rows') /\ Len(grader') = Len(rows') /\ Len(verdict') = Len(rows')
       /\ DOMAIN rows' = 1 .. Len(rows) + 1 /\ Len(rows') <= MaxSubmissions
       /\ DOMAIN rows \subseteq DOMAIN rows'
  BY <1>1, <1>4, <1>5, <1>6, GradingTypes, GradingRest, GradingBounds DEF Extended
<1>14. GradingTypeOK'
  BY <1>1, <1>4, <1>5, <1>6, <1>12, <1>13, GradingRest, TypeGiven
<1>15. QED
  BY <1>1, <1>4, <1>5, <1>8, <1>9, <1>11, <1>12, <1>14

\* The check results after an update without them.
Bury(f, g, i) ==
    /\ Len(g) = Len(f) /\ DOMAIN g = DOMAIN f
    /\ g[i] # "live" /\ \A j \in DOMAIN f \ {i} : g[j] = f[j]

\* Submission i with check results x.
LEMMA ResultsTyped ==
    ASSUME GradingTypeOK, NEW i \in DOMAIN rows, NEW x \in {"none", "live", "deleted"},
           results' = [results EXCEPT ![i] = x]
    PROVE  results' \in Seq({"none", "live", "deleted"}) /\ Amended(results, results', i, x)
<1> DEFINE S == {"none", "live", "deleted"}
<1>1. results \in Seq(S) /\ i \in DOMAIN results /\ x \in S
  BY GradingTypes
<1>2. results' \in Seq(S) /\ Amended(results, results', i, x)
  <2> HIDE DEF S
  <2>1. QED
    BY <1>1, Amends
<1>3. QED
  BY <1>2

LEMMA BuriedTyped ==
    ASSUME GradingTypeOK, NEW i \in DOMAIN rows, results' = Buried(i)
    PROVE  results' \in Seq({"none", "live", "deleted"}) /\ Bury(results, results', i)
<1> DEFINE x == IF results[i] = "live" THEN "deleted" ELSE results[i]
<1>1. results \in Seq({"none", "live", "deleted"}) /\ i \in DOMAIN results
  BY GradingTypes
<1>2. results' = [results EXCEPT ![i] = x]
  BY DEF Buried
<1>3. x \in {"none", "live", "deleted"} /\ x # "live"
  BY <1>1
<1> HIDE DEF x
<1>4. results' \in Seq({"none", "live", "deleted"}) /\ Amended(results, results', i, x)
  BY <1>2, <1>3, ResultsTyped
<1>5. QED
  BY <1>3, <1>4 DEF Amended, Bury

LEMMA RequestOf ==
    ASSUME GradingTyped, NEW r \in Askers, ~RequestAt(r, "idle"), ~RequestAt(r, "counted")
    PROVE  /\ Subject(r) \in DOMAIN rows /\ Subject(r) # 0 /\ Copy(r) \in Submission
           /\ AskerTyped(r)
<1>1. GradingTypeOK /\ AskerTyped(r)
  BY DEF GradingTyped, Askers
<1>2. request[r] \in RequestSet(Len(rows))
  BY <1>1, GradingTypes
<1>3. Copy(r) \in Submission
  BY <1>2 DEF Copy, RequestSet
<1>4. Subject(r) # 0
  BY <1>1 DEF AskerTyped, RequestAt
<1>5. QED
  BY <1>1, <1>3, <1>4 DEF AskerTyped

LEMMA FinishTyped ==
    ASSUME GradingTypeOK, NEW r \in Askers, Finish(r)
    PROVE  request' \in [Askers -> RequestSet(Len(rows))] /\ Asks(r, Idle)
BY GradingTypes, NewTyped, AsksTyped DEF Finish

LEMMA MarkDoes ==
    ASSUME GradingTyped, NEW r \in Students, MarkGrading(r), NEW i, i = Subject(r)
    PROVE  /\ GradingTypeOK'
           /\ i \in DOMAIN rows /\ i # 0
           /\ Amended(rows, rows', i, [Copy(r) EXCEPT !.status = "grading"])
           /\ Bury(results, results', i)
           /\ Amended(grader, grader', i, Grader("due", grader[i].copy))
           /\ Asks(r, Idle)
           /\ UNCHANGED <<experiment, verdict, mixed, lost, crossed, refused>>
<1> USE DEF MarkGrading
<1>1. GradingTypeOK /\ r \in Askers /\ RequestAt(r, "marking")
  BY AskersAre DEF GradingTyped
<1>2. i \in DOMAIN rows /\ i # 0 /\ Copy(r) \in Submission
  BY <1>1, RequestOf DEF RequestAt
<1>3. [Copy(r) EXCEPT !.status = "grading"] \in Submission
  BY <1>2 DEF Submission
<1>4. UpdateSubmission(i, [Copy(r) EXCEPT !.status = "grading"])
  BY DEF Subject
<1>5. /\ rows' \in Seq(Submission)
      /\ Amended(rows, rows', i, [Copy(r) EXCEPT !.status = "grading"])
  BY <1>1, <1>2, <1>3, <1>4, GradingTypes, Amends, ZenonT(60) DEF UpdateSubmission
<1>6. results' \in Seq({"none", "live", "deleted"}) /\ Bury(results, results', i)
  BY <1>1, <1>2, <1>4, BuriedTyped DEF UpdateSubmission
<1>7. grader' \in Seq(GraderSet) /\ Amended(grader, grader', i, Grader("due", grader[i].copy))
  <2>1. grader' = [grader EXCEPT ![i].at = "due"]
    BY DEF Subject
  <2>2. PICK g \in GraderSet : g = grader[i]
    BY <1>1, <1>2, GradingTypes
  <2>3. [g EXCEPT !.at = "due"] = Grader("due", g.copy)
    BY DEF GraderSet, Grader
  <2>4. grader' = [grader EXCEPT ![i] = Grader("due", g.copy)]
    BY <2>1, <2>2, <2>3
  <2>5. Grader("due", g.copy) \in GraderSet
    BY DEF GraderSet, Grader
  <2>6. QED
    BY <1>1, <1>2, <2>2, <2>4, <2>5, GradingTypes, Amends
<1>8. request' \in [Askers -> RequestSet(Len(rows))] /\ Asks(r, Idle)
  BY <1>1, FinishTyped
<1>9. GradingTypeOK'
  <2>1. /\ Len(rows') = Len(rows) /\ DOMAIN rows' = DOMAIN rows
        /\ Len(results') = Len(rows) /\ Len(grader') = Len(rows)
    BY <1>1, <1>5, <1>6, <1>7, GradingTypes DEF Amended, Bury
  <2>2. QED
    BY <1>1, <1>5, <1>6, <1>7, <1>8, <2>1, GradingTypes, GradingRest, TypeGiven
       DEF gradingObservers
<1>10. QED
  BY <1>2, <1>5, <1>6, <1>7, <1>8, <1>9 DEF gradingObservers

LEMMA ReadDoes ==
    ASSUME GradingTyped, NEW i \in DOMAIN rows, GraderReads(i)
    PROVE  /\ GradingTypeOK'
           /\ grader[i].at = "due"
           /\ Amended(grader, grader', i, Grader("evaluating", rows[i]))
           /\ UNCHANGED <<experiment, rows, results, request, verdict, mixed, lost, crossed, refused>>
<1> USE DEF GraderReads
<1>1. GradingTypeOK
  BY DEF GradingTyped
<1>2. Grader("evaluating", rows[i]) \in GraderSet
  BY <1>1, GradingTypes, NewTyped
<1>3. grader' \in Seq(GraderSet) /\ Amended(grader, grader', i, Grader("evaluating", rows[i]))
  BY <1>1, <1>2, GradingTypes, Amends, ZenonT(60)
<1>4. GradingTypeOK'
  <2>1. Len(grader') = Len(rows)
    BY <1>1, <1>3, GradingTypes DEF Amended
  <2>2. QED
    BY <1>1, <1>3, <2>1, GradingTypes, GradingRest, TypeGiven DEF gradingObservers
<1>5. QED
  BY <1>3, <1>4 DEF gradingObservers

LEMMA WriteDoes ==
    ASSUME GradingTyped, NEW i \in DOMAIN rows, GraderWrites(i)
    PROVE  /\ GradingTypeOK'
           /\ grader[i].at = "evaluating"
           /\ Amended(rows, rows', i,
                  [Graded(grader[i].copy, AutoScore) EXCEPT !.auto = AutoScore])
           /\ \/ experiment.checkpoints /\ Amended(results, results', i, "live")
              \/ Bury(results, results', i)
           /\ Amended(grader, grader', i, Grader("done", NewSubmission(0)))
           /\ UNCHANGED <<experiment, request, verdict, mixed, lost, crossed, refused>>
<1> USE DEF GraderWrites
<1>1. GradingTypeOK /\ grader[i].copy \in Submission
  <2>1. GradingTypeOK
    BY DEF GradingTyped
  <2>2. grader[i] \in GraderSet
    BY <2>1, GradingTypes
  <2>3. QED
    BY <2>1, <2>2 DEF GraderSet
<1> DEFINE sheet == [Graded(grader[i].copy, AutoScore) EXCEPT !.auto = AutoScore]
<1>2. sheet \in Submission
  BY <1>1 DEF Submission, Graded, Score
<1>3. rows' = [rows EXCEPT ![i] = sheet]
  OBVIOUS
<1> HIDE DEF sheet
<1>4. rows' \in Seq(Submission) /\ Amended(rows, rows', i, sheet)
  BY <1>1, <1>2, <1>3, GradingTypes, Amends
<1>5. /\ results' \in Seq({"none", "live", "deleted"})
      /\ \/ experiment.checkpoints /\ Amended(results, results', i, "live")
         \/ Bury(results, results', i)
  <2>1. CASE experiment.checkpoints
    <3>1. results' = [results EXCEPT ![i] = "live"]
      BY <2>1
    <3>2. QED
      BY <1>1, <2>1, <3>1, ResultsTyped
  <2>2. CASE ~experiment.checkpoints
    BY <1>1, <2>2, BuriedTyped
  <2>3. QED
    BY <2>1, <2>2
<1>6. Grader("done", NewSubmission(0)) \in GraderSet
  <2>1. 0 \in Nat /\ "done" \in {"none", "due", "evaluating", "done"}
    OBVIOUS
  <2>2. QED
    BY <2>1, NewTyped
<1>7. grader' \in Seq(GraderSet) /\ Amended(grader, grader', i, Grader("done", NewSubmission(0)))
  BY <1>1, <1>6, GradingTypes, Amends, ZenonT(60)
<1>8. GradingTypeOK'
  <2>1. /\ Len(rows') = Len(rows) /\ DOMAIN rows' = DOMAIN rows
        /\ Len(results') = Len(rows) /\ Len(grader') = Len(rows)
    BY <1>1, <1>4, <1>5, <1>7, GradingTypes DEF Amended, Bury
  <2>2. QED
    BY <1>1, <1>4, <1>5, <1>7, <2>1, GradingTypes, GradingRest, TypeGiven DEF gradingObservers
<1>9. QED
  BY <1>4, <1>5, <1>7, <1>8 DEF sheet, gradingObservers

LEMMA GradeDoes ==
    ASSUME GradingTyped, NEW t \in Teachers, NEW i \in DOMAIN rows, GradeSubmission(t, i)
    PROVE  /\ GradingTypeOK'
           /\ RequestAt(t, "idle") /\ i # 0
           /\ \E new \in RequestSet(Len(rows)) :
                /\ Asks(t, new)
                /\ new.at = "grading" /\ new.sub = i /\ new.copy = rows[i]
                /\ new.loaded <=> results[i] = "live"
           /\ mixed' = IF Written(i, t) THEN mixed \cup {i} ELSE mixed
           /\ UNCHANGED <<experiment, rows, results, grader, verdict, lost, crossed, refused>>
<1> USE DEF GradeSubmission
<1> DEFINE new == [at |-> "grading", sub |-> i, copy |-> rows[i], loaded |-> results[i] = "live"]
<1>1. GradingTypeOK /\ t \in Askers
  BY AskersAre DEF GradingTyped
<1>2. i \in 1 .. Len(rows) /\ Len(rows) \in Nat /\ rows[i] \in Submission
  BY <1>1, GradingTypes
<1>3. /\ new \in RequestSet(Len(rows))
      /\ new.at = "grading" /\ new.sub = i /\ new.copy = rows[i]
      /\ new.loaded <=> results[i] = "live"
  <2>1. i \in 0 .. Len(rows) /\ (results[i] = "live") \in BOOLEAN
    BY <1>2
  <2>2. QED
    BY <1>2, <2>1 DEF RequestSet
<1>4. request' = [request EXCEPT ![t] = new]
  OBVIOUS
<1> HIDE DEF new
<1>5. request' \in [Askers -> RequestSet(Len(rows))] /\ Asks(t, new)
  BY <1>1, <1>3, <1>4, GradingTypes, AsksTyped
<1>6. grades' \in 0 .. MaxGrades
  BY <1>1, GradingRest, GradingBounds
<1>7. mixed' \subseteq DOMAIN rows
  BY <1>1, GradingRest
<1>8. GradingTypeOK'
  BY <1>1, <1>5, <1>6, <1>7, GradingTypes, GradingRest, TypeGiven
<1>9. QED
  BY <1>2, <1>3, <1>5, <1>8

LEMMA GradedDoes ==
    ASSUME GradingTyped, NEW t \in Teachers, GradeWrites(t), NEW i, i = Subject(t)
    PROVE  /\ GradingTypeOK'
           /\ i \in DOMAIN rows /\ i # 0
           /\ \E s \in Scores :
                /\ Amended(rows, rows', i, [Graded(Copy(t), s) EXCEPT !.manual = s])
                /\ Amended(verdict, verdict', i, s)
           /\ Bury(results, results', i)
           /\ Asks(t, Idle)
           /\ UNCHANGED <<experiment, grader, mixed, lost, crossed, refused>>
<1> USE DEF GradeWrites
<1>1. GradingTypeOK /\ t \in Askers /\ RequestAt(t, "grading")
  BY AskersAre DEF GradingTyped
<1>2. i \in DOMAIN rows /\ i # 0 /\ Copy(t) \in Submission
  BY <1>1, RequestOf DEF RequestAt
<1>3. PICK s \in Scores :
        /\ UpdateSubmission(i, [Graded(Copy(t), s) EXCEPT !.manual = s])
        /\ verdict' = [verdict EXCEPT ![i] = s]
  BY DEF Subject
<1> DEFINE sheet == [Graded(Copy(t), s) EXCEPT !.manual = s]
<1>4. sheet \in Submission
  BY <1>2 DEF Submission, Graded, Score
<1>5. UpdateSubmission(i, sheet)
  BY <1>3
<1> HIDE DEF sheet
<1>6. rows' \in Seq(Submission) /\ Amended(rows, rows', i, sheet)
  BY <1>1, <1>2, <1>4, <1>5, GradingTypes, Amends DEF UpdateSubmission
<1>7. results' \in Seq({"none", "live", "deleted"}) /\ Bury(results, results', i)
  BY <1>1, <1>2, <1>5, BuriedTyped DEF UpdateSubmission
<1>8. verdict' \in Seq(Scores \cup {Unset}) /\ Amended(verdict, verdict', i, s)
  <2> DEFINE S == Scores \cup {Unset}
  <2>1. s \in S /\ verdict \in Seq(S) /\ i \in DOMAIN verdict
    BY <1>1, <1>2, GradingTypes
  <2>2. verdict' \in Seq(S) /\ Amended(verdict, verdict', i, s)
    <3> HIDE DEF S
    <3>1. QED
      BY <1>3, <2>1, Amends
  <2>3. QED
    BY <2>2
<1>9. request' \in [Askers -> RequestSet(Len(rows))] /\ Asks(t, Idle)
  BY <1>1, FinishTyped
<1>10. GradingTypeOK'
  <2>1. /\ Len(rows') = Len(rows) /\ DOMAIN rows' = DOMAIN rows
        /\ Len(results') = Len(rows) /\ Len(verdict') = Len(rows)
    BY <1>1, <1>6, <1>7, <1>8, GradingTypes DEF Amended, Bury
  <2>2. QED
    BY <1>1, <1>6, <1>7, <1>8, <1>9, <2>1, GradingTypes, GradingRest, TypeGiven
<1>11. QED
  BY <1>2, <1>6, <1>7, <1>8, <1>9, <1>10 DEF sheet

LEMMA RefusedDoes ==
    ASSUME GradingTyped, NEW t \in Teachers, GradeRefused(t)
    PROVE  /\ GradingTypeOK'
           /\ Subject(t) \in DOMAIN rows /\ request[t].loaded
           /\ refused' = refused \cup {Subject(t)}
           /\ Asks(t, Idle)
           /\ UNCHANGED <<experiment, rows, results, grader, verdict, mixed, lost, crossed>>
<1> USE DEF GradeRefused
<1>1. GradingTypeOK /\ t \in Askers /\ RequestAt(t, "grading")
  BY AskersAre DEF GradingTyped
<1>2. Subject(t) \in DOMAIN rows
  BY <1>1, RequestOf DEF RequestAt
<1>3. refused' = refused \cup {Subject(t)} /\ refused' \subseteq DOMAIN rows
  BY <1>1, <1>2, GradingRest DEF Subject
<1>4. request' \in [Askers -> RequestSet(Len(rows))] /\ Asks(t, Idle)
  BY <1>1, FinishTyped
<1>5. GradingTypeOK'
  BY <1>1, <1>3, <1>4, GradingTypes, GradingRest, TypeGiven
<1>6. QED
  BY <1>2, <1>3, <1>4, <1>5

\* The graders of S are cut off, and the requests of R end.
Ends(R, S) ==
    /\ \A r \in Askers : request'[r] = IF r \in R THEN Idle ELSE request[r]
    /\ \A i \in DOMAIN rows : grader'[i] = IF i \in S THEN Grader("done", NewSubmission(0)) ELSE grader[i]
    /\ lost' = lost \cup S
    /\ UNCHANGED <<experiment, rows, results, verdict, mixed, crossed, refused>>

LEMMA FailsDoes ==
    ASSUME GradingTyped, NEW r \in Askers, RequestFails(r)
    PROVE  GradingTypeOK' /\ Ends({r}, {})
<1> USE DEF RequestFails
<1>1. GradingTypeOK
  BY DEF GradingTyped
<1>2. request' \in [Askers -> RequestSet(Len(rows))] /\ Asks(r, Idle)
  BY <1>1, FinishTyped
<1>3. GradingTypeOK'
  BY <1>1, <1>2, GradingFaultTyped, GradingTypes, GradingRest, TypeGiven DEF gradingObservers
<1>4. QED
  BY <1>2, <1>3 DEF Ends, Asks, gradingObservers

LEMMA CutOffTyped ==
    ASSUME GradingTypeOK, NEW S \in SUBSET DOMAIN rows, CutOff(S)
    PROVE  /\ grader' \in Seq(GraderSet) /\ Len(grader') = Len(rows)
           /\ lost' \subseteq DOMAIN rows
           /\ \A i \in DOMAIN rows :
                  grader'[i] = IF i \in S THEN Grader("done", NewSubmission(0)) ELSE grader[i]
<1> DEFINE done == Grader("done", NewSubmission(0))
<1>1. done \in GraderSet
  <2>1. 0 \in Nat /\ "done" \in {"none", "due", "evaluating", "done"}
    OBVIOUS
  <2>2. QED
    BY <2>1, NewTyped
<1>2. grader' = [i \in 1 .. Len(rows) |-> IF i \in S THEN done ELSE grader[i]]
  BY GradingTypes DEF CutOff
<1> HIDE DEF done
<1>3. Len(rows) \in Nat /\ \A i \in 1 .. Len(rows) : grader[i] \in GraderSet
  BY GradingTypes
<1>4. \A i \in 1 .. Len(rows) : (IF i \in S THEN done ELSE grader[i]) \in GraderSet
  BY <1>1, <1>3
<1>5. grader' \in Seq(GraderSet) /\ Len(grader') = Len(rows)
  BY <1>2, <1>3, <1>4
<1>6. \A i \in DOMAIN rows : grader'[i] = IF i \in S THEN done ELSE grader[i]
  BY <1>2, GradingTypes
<1>7. QED
  BY <1>5, <1>6, GradingRest DEF CutOff, done

LEMMA GraderFailsDoes ==
    ASSUME GradingTyped, NEW i \in DOMAIN rows, GraderFails(i)
    PROVE  GradingTypeOK' /\ Ends({}, {i})
<1> USE DEF GraderFails
<1>1. GradingTypeOK
  BY DEF GradingTyped
<1>2. /\ grader' \in Seq(GraderSet) /\ Len(grader') = Len(rows)
      /\ lost' \subseteq DOMAIN rows
      /\ \A j \in DOMAIN rows :
             grader'[j] = IF j \in {i} THEN Grader("done", NewSubmission(0)) ELSE grader[j]
  BY <1>1, CutOffTyped
<1>3. GradingTypeOK'
  BY <1>1, <1>2, GradingFaultTyped, GradingTypes, GradingRest, TypeGiven
<1>4. QED
  BY <1>2, <1>3 DEF Ends, CutOff

LEMMA CrashDoes ==
    ASSUME GradingTyped, GradingCrash
    PROVE  GradingTypeOK' /\ \E S \in SUBSET DOMAIN rows :
               Ends(Askers, S) /\ \A i \in DOMAIN rows \ S : ~Grading(i)
<1> USE DEF GradingCrash
<1> DEFINE S == {i \in DOMAIN grader : Grading(i)}
<1>1. GradingTypeOK
  BY DEF GradingTyped
<1>2. S \in SUBSET DOMAIN rows /\ \A i \in DOMAIN rows \ S : ~Grading(i)
  BY <1>1, GradingTypes
<1>3. CutOff(S)
  OBVIOUS
<1> HIDE DEF S
<1>4. /\ grader' \in Seq(GraderSet) /\ Len(grader') = Len(rows)
      /\ lost' \subseteq DOMAIN rows
      /\ \A j \in DOMAIN rows :
             grader'[j] = IF j \in S THEN Grader("done", NewSubmission(0)) ELSE grader[j]
  BY <1>1, <1>2, <1>3, CutOffTyped
<1>5. DOMAIN request = Askers /\ Len(rows) \in Nat
  BY <1>1, GradingTypes
<1>6. \A r \in Askers : request'[r] = Idle
  BY <1>5
<1>7. request' \in [Askers -> RequestSet(Len(rows))]
  BY <1>5, NewTyped
<1>8. GradingTypeOK'
  BY <1>1, <1>4, <1>7, GradingFaultTyped, GradingTypes, GradingRest, TypeGiven
<1>9. Ends(Askers, S)
  BY <1>3, <1>4, <1>6 DEF Ends, CutOff
<1>10. QED
  BY <1>2, <1>8, <1>9

GradingInv == GradingTyped /\ (crossed \/ AttemptsNumbered) /\ GradedOnce /\ HandedOn

\* What the invariant says of a request, for both kinds of them.
LEMMA RequestsAre ==
    ASSUME GradingTyped
    PROVE  \A r \in Askers :
             /\ AskerTyped(r)
             /\ Subject(r) = 0 \/ Subject(r) \in DOMAIN rows
             /\ Subject(r) # 0 <=> request[r].at \in {"marking", "grading"}
             /\ Subject(r) # 0 => ~RequestAt(r, "idle") /\ ~RequestAt(r, "counted")
<1>1. \A r \in Askers : AskerTyped(r) /\ request[r] \in RequestSet(Len(rows))
  BY GradingTypes DEF GradingTyped, Askers
<1>2. QED
  BY <1>1 DEF AskerTyped, RequestSet, RequestAt

LEMMA IdleIs == Idle.at = "idle" /\ Idle.sub = 0 /\ ~Idle.loaded
BY NewTyped

LEMMA SubmitKeeps ==
    ASSUME GradingInv, NEW r \in Students, SubmitExperiment(r)
    PROVE  GradingInv'
<1>1. GradingTyped /\ GradedOnce /\ HandedOn /\ r \in Askers
  BY AskersAre DEF GradingInv
<1>2. PICK new \in RequestSet(Len(rows)) :
        /\ Asks(r, new)
        /\ new.at = "counted" /\ new.sub = 0 /\ ~new.loaded
        /\ new.copy = NewSubmission(Len(rows) + 1)
  BY <1>1, SubmitDoes
<1>3. /\ GradingTypeOK' /\ RequestAt(r, "idle")
      /\ crossed' = (crossed \/ \E q \in Students : RequestAt(q, "counted"))
      /\ UNCHANGED <<experiment, rows, results, grader, verdict, mixed, lost, refused>>
  BY <1>1, SubmitDoes
<1>4. \A q \in Askers \ {r} : request'[q] = request[q]
  BY <1>2 DEF Asks
<1>5. request'[r] = new
  BY <1>2 DEF Asks
<1>6. GradingTyped'
  <2>1. \A q \in Askers : AskerTyped(q)'
    BY <1>2, <1>3, <1>4, <1>5, <1>1, RequestsAre DEF AskerTyped, RequestAt, Subject, Idle
  <2>2. QED
    BY <1>3, <2>1 DEF GradingTyped, Askers
<1>7. crossed' \/ AttemptsNumbered'
  <2> SUFFICES ASSUME ~crossed' PROVE AttemptsNumbered'
    OBVIOUS
  <2>1. AttemptsNumbered /\ \A q \in Students : ~RequestAt(q, "counted")
    BY <1>3 DEF GradingInv
  <2>2. Len(rows) + 1 \in Nat
    BY <1>1, GradingTypes DEF GradingTyped
  <2>3. new.copy.attempt = Len(rows) + 1
    BY <1>2, <2>2, NewTyped
  <2>4. \A q \in Askers : /\ (Subject(q) # 0 => Copy(q).attempt = Subject(q))'
                          /\ (RequestAt(q, "counted") => Copy(q).attempt = Len(rows) + 1)'
    BY <1>2, <1>3, <1>4, <1>5, <2>1, <2>3 DEF AttemptsNumbered, Subject, Copy, RequestAt, Askers
  <2>5. \A p, q \in Students : RequestAt(p, "counted")' /\ RequestAt(q, "counted")' => p = q
    BY <1>4, <2>1, AskersAre DEF RequestAt
  <2>6. QED
    BY <1>3, <2>1, <2>4, <2>5 DEF AttemptsNumbered, Askers
<1>8. GradedOnce'
  BY <1>1, <1>2, <1>3, <1>4, <1>5, AskersAre
     DEF GradedOnce, Subject, CheckpointsDone, Askers
<1>9. HandedOn'
  <2> SUFFICES ASSUME NEW i \in DOMAIN rows \ mixed PROVE InOneHand(i)'
    BY <1>3 DEF HandedOn
  <2>1. InOneHand(i) /\ i # 0
    BY <1>1, GradingTypes DEF HandedOn, GradingTyped
  <2>2. \A q \in Askers : Subject(q)' = i => q # r /\ Subject(q) = i /\ Copy(q)' = Copy(q)
    BY <1>2, <1>4, <1>5, <2>1 DEF Subject, Copy
  <2>3. QED
    BY <1>3, <2>1, <2>2, AskersAre DEF InOneHand, Grading, Askers
<1>10. QED
  BY <1>6, <1>7, <1>8, <1>9 DEF GradingInv

LEMMA SubmissionKeeps ==
    ASSUME GradingInv, NEW r \in Students, InsertSubmission(r)
    PROVE  GradingInv'
<1>1. GradingTyped /\ GradedOnce /\ HandedOn /\ r \in Askers
  BY AskersAre DEF GradingInv
<1>0. PICK n \in Nat : n = Len(rows) + 1
  BY <1>1, GradingTypes DEF GradingTyped
<1>2. PICK new \in RequestSet(n) :
        /\ Asks(r, new)
        /\ \/ new = Idle
           \/ /\ new.at = "marking" /\ new.sub = n
              /\ new.copy = Copy(r) /\ ~new.loaded
  BY <1>0, <1>1, InsertDoes
<1>3. /\ GradingTypeOK' /\ RequestAt(r, "counted")
      /\ UNCHANGED <<experiment, mixed, lost, refused, crossed>>
  BY <1>1, InsertDoes
<1>4. /\ Len(rows) \in Nat /\ n \in Nat /\ n # 0 /\ n \notin DOMAIN rows
      /\ DOMAIN rows' = DOMAIN rows \cup {n} /\ Len(rows') = n
      /\ rows'[n] = Copy(r) /\ results'[n] = "none" /\ verdict'[n] = Unset
      /\ grader'[n] = Grader("none", NewSubmission(0))
      /\ \A i \in DOMAIN rows : /\ rows'[i] = rows[i] /\ results'[i] = results[i]
                                /\ verdict'[i] = verdict[i] /\ grader'[i] = grader[i]
  <2>1. GradingTypeOK
    BY <1>1 DEF GradingTyped
  <2>2. /\ Extended(rows, rows', Copy(r)) /\ Extended(results, results', "none")
        /\ Extended(grader, grader', Grader("none", NewSubmission(0)))
        /\ Extended(verdict, verdict', Unset)
    BY <1>1, InsertDoes
  <2>3. QED
    BY <1>0, <2>1, <2>2, GradingTypes DEF Extended
<1>5. grader'[n].at = "none"
  <2>1. 0 \in Nat /\ "none" \in {"none", "due", "evaluating", "done"}
    OBVIOUS
  <2>2. QED
    BY <1>4, <2>1, NewTyped
<1>6. \A q \in Askers \ {r} : request'[q] = request[q]
  BY <1>2 DEF Asks
<1>7. request'[r] = new /\ (new.sub = 0 \/ new.sub = n) /\ ~new.loaded /\ new.at # "counted"
  BY <1>2, IdleIs DEF Asks
<1>8. \A q \in Askers : Subject(q) = 0 \/ Subject(q) \in DOMAIN rows
  BY <1>1, RequestsAre
<1>9. GradingTyped'
  <2>1. \A q \in Askers \ {r} : AskerTyped(q)'
    BY <1>1, <1>4, <1>6, RequestsAre DEF AskerTyped, RequestAt, Subject
  <2>2. AskerTyped(r)'
    BY <1>2, <1>3, <1>4, <1>7, IdleIs, AskersAre DEF AskerTyped, RequestAt, Subject
  <2>3. QED
    BY <1>3, <2>1, <2>2 DEF GradingTyped, Askers
<1>10. crossed' \/ AttemptsNumbered'
  <2> SUFFICES ASSUME ~crossed' PROVE AttemptsNumbered'
    OBVIOUS
  <2>1. AttemptsNumbered
    BY <1>3 DEF GradingInv
  <2>2. Copy(r).attempt = n
    BY <1>0, <1>1, <1>3, <2>1 DEF AttemptsNumbered, Askers
  <2>3. \A q \in Askers : (Subject(q) # 0 => Copy(q).attempt = Subject(q))'
    <3>1. \A q \in Askers \ {r} : (Subject(q) # 0 => Copy(q).attempt = Subject(q))'
      BY <1>6, <2>1 DEF AttemptsNumbered, Askers, Subject, Copy
    <3>2. (Subject(r) # 0 => Copy(r).attempt = Subject(r))'
      BY <1>2, <1>7, <2>2, IdleIs DEF Subject, Copy
    <3>3. QED
      BY <3>1, <3>2
  <2>4. \A q \in Askers : ~RequestAt(q, "counted")'
    <3>1. \A q \in Askers \ {r} : ~RequestAt(q, "counted")
      <4>1. \A q \in Askers : RequestAt(q, "counted") => q \in Students
        BY <1>1, RequestsAre DEF AskerTyped, RequestAt
      <4>2. QED
        BY <1>3, <2>1, <4>1 DEF AttemptsNumbered
    <3>2. QED
      BY <3>1, <1>6, <1>7 DEF RequestAt
  <2>5. \A i \in DOMAIN rows' : rows'[i].attempt = i
    BY <1>4, <2>1, <2>2 DEF AttemptsNumbered
  <2>6. \A i \in DOMAIN rows' : grader'[i].at = "evaluating" => grader'[i].copy.attempt = i
    BY <1>4, <1>5, <2>1 DEF AttemptsNumbered
  <2>7. QED
    BY <2>3, <2>4, <2>5, <2>6, AskersAre DEF AttemptsNumbered, Askers
<1>11. GradedOnce'
  <2>1. \A p, q \in Students : Subject(p)' = Subject(q)' /\ Subject(p)' # 0 => p = q
    BY <1>1, <1>4, <1>6, <1>7, <1>8, AskersAre DEF GradedOnce, Subject
  <2>2. \A q \in Students : Subject(q)' # 0 => (grader[Subject(q)].at = "none")'
    BY <1>1, <1>4, <1>5, <1>6, <1>7, <1>8, AskersAre DEF GradedOnce, Subject
  <2>3. \A i \in DOMAIN rows' : results'[i] = "live" => CheckpointsDone(i)'
    BY <1>1, <1>3, <1>4 DEF GradedOnce, CheckpointsDone
  <2>4. \A q \in Askers : request'[q].loaded => CheckpointsDone(Subject(q))'
    <3>1. \A q \in Askers \ {r} : request[q].loaded =>
              Subject(q) \in DOMAIN rows /\ CheckpointsDone(Subject(q))
      BY <1>1, RequestsAre DEF AskerTyped, RequestAt, GradedOnce, Askers
    <3>2. QED
      BY <1>3, <1>4, <1>6, <1>7, <3>1 DEF CheckpointsDone, Subject
  <2>5. \A i \in refused' : CheckpointsDone(i)'
    <3>1. refused \subseteq DOMAIN rows
      BY <1>1, GradingRest DEF GradingTyped
    <3>2. QED
      BY <1>1, <1>3, <1>4, <3>1 DEF GradedOnce, CheckpointsDone
  <2>6. QED
    BY <2>1, <2>2, <2>3, <2>4, <2>5 DEF GradedOnce, Askers, Subject
<1>12. HandedOn'
  <2> SUFFICES ASSUME NEW i \in DOMAIN rows' \ mixed PROVE InOneHand(i)'
    BY <1>3 DEF HandedOn
  <2>1. CASE i \in DOMAIN rows
    <3>1. InOneHand(i) /\ i # 0 /\ i # n
      BY <1>1, <1>4, <2>1, GradingTypes DEF HandedOn, GradingTyped
    <3>2. \A q \in Askers : Subject(q)' = i => q # r /\ Subject(q) = i /\ Copy(q)' = Copy(q)
      BY <1>6, <1>7, <3>1 DEF Subject, Copy
    <3>3. QED
      BY <1>3, <1>4, <2>1, <3>1, <3>2, AskersAre DEF InOneHand, Grading, Askers
  <2>2. CASE i = n
    <3>1. \A q \in Askers : Subject(q)' = n => q = r
      BY <1>4, <1>6, <1>8 DEF Subject
    <3>2. Subject(r)' = n => Copy(r)' = rows'[n]
      BY <1>2, <1>4, <1>7, IdleIs DEF Subject, Copy
    <3>3. ~Grading(n)'
      BY <1>5 DEF Grading
    <3>4. QED
      BY <1>4, <1>5, <2>2, <3>1, <3>2, <3>3, AskersAre DEF InOneHand, Askers
  <2>3. QED
    BY <1>4, <2>1, <2>2
<1>13. QED
  BY <1>9, <1>10, <1>11, <1>12 DEF GradingInv

-----------------------------------------------------------------------------
\* A step with which requests end, and none begins.
Released(R) ==
    /\ \A q \in Askers : request'[q] = IF q \in R THEN Idle ELSE request[q]
    /\ Len(rows') = Len(rows) /\ DOMAIN rows' = DOMAIN rows
    /\ experiment' = experiment

LEMMA ReleasedRequests ==
    ASSUME GradingTyped, NEW R, Released(R), GradingTypeOK'
    PROVE  /\ GradingTyped'
           /\ \A q \in Askers : Subject(q)' # 0 =>
                  q \notin R /\ Subject(q)' = Subject(q) /\ Copy(q)' = Copy(q)
           /\ \A q \in Askers : RequestAt(q, "counted")' =>
                  RequestAt(q, "counted") /\ Copy(q)' = Copy(q)
           /\ \A q \in Askers : request'[q].loaded =>
                  request[q].loaded /\ Subject(q)' = Subject(q) /\ Subject(q) \in DOMAIN rows
<1>1. \A q \in Askers : AskerTyped(q)'
  BY RequestsAre, IdleIs DEF Released, AskerTyped, RequestAt, Subject
<1>2. \A q \in Askers : request'[q].loaded => request[q].loaded /\ request'[q] = request[q]
  BY IdleIs DEF Released
<1>3. \A q \in Askers : request[q].loaded => Subject(q) \in DOMAIN rows
  BY RequestsAre DEF AskerTyped, RequestAt
<1>4. \A q \in Askers : Subject(q)' # 0 => q \notin R /\ request'[q] = request[q]
  BY IdleIs DEF Released, Subject
<1>5. \A q \in Askers : RequestAt(q, "counted")' => request'[q] = request[q]
  BY IdleIs DEF Released, RequestAt
<1>6. GradingTyped'
  BY <1>1 DEF GradingTyped, Askers
<1>7. QED
  BY <1>2, <1>3, <1>4, <1>5, <1>6 DEF Subject, Copy, RequestAt

LEMMA AttemptsKept ==
    ASSUME GradingTyped, NEW R, Released(R), GradingTypeOK', AttemptsNumbered,
           \A i \in DOMAIN rows : rows'[i].attempt = i,
           \A i \in DOMAIN rows : grader'[i].at = "evaluating" => grader'[i].copy.attempt = i
    PROVE  AttemptsNumbered'
<1>1. /\ \A q \in Askers : Subject(q)' # 0 => Subject(q)' = Subject(q) /\ Copy(q)' = Copy(q)
      /\ \A q \in Askers : RequestAt(q, "counted")' =>
             RequestAt(q, "counted") /\ Copy(q)' = Copy(q)
  BY ReleasedRequests
<1>2. /\ \A q \in Askers : /\ (Subject(q) # 0 => Copy(q).attempt = Subject(q))'
                           /\ (RequestAt(q, "counted") => Copy(q).attempt = Len(rows) + 1)'
  BY <1>1 DEF AttemptsNumbered, Askers, Released
<1>3. \A p, q \in Students : RequestAt(p, "counted")' /\ RequestAt(q, "counted")' => p = q
  BY <1>1, AskersAre DEF AttemptsNumbered
<1>4. QED
  BY <1>2, <1>3 DEF AttemptsNumbered, Askers, Released

LEMMA OnceKept ==
    ASSUME GradingTyped, NEW R, Released(R), GradingTypeOK', GradedOnce,
           \A i \in DOMAIN rows : grader[i].at = "done" => grader'[i].at = "done",
           \A q \in Students \ R : Subject(q) # 0 => grader'[Subject(q)].at = "none",
           \A i \in DOMAIN rows : results'[i] = "live" => results[i] = "live" \/ CheckpointsDone(i)',
           \A i \in refused' : i \in DOMAIN rows /\ (i \in refused \/ CheckpointsDone(i))
    PROVE  GradedOnce'
<1>1. /\ \A q \in Askers : Subject(q)' # 0 => q \notin R /\ Subject(q)' = Subject(q)
      /\ \A q \in Askers : request'[q].loaded =>
             request[q].loaded /\ Subject(q)' = Subject(q) /\ Subject(q) \in DOMAIN rows
  BY ReleasedRequests
<1>2. \A i \in DOMAIN rows : CheckpointsDone(i) => CheckpointsDone(i)'
  BY DEF CheckpointsDone, Released
<1>3. /\ \A p, q \in Students : Subject(p)' = Subject(q)' /\ Subject(p)' # 0 => p = q
      /\ \A q \in Students : Subject(q)' # 0 => grader'[Subject(q)'].at = "none"
  BY <1>1, AskersAre DEF GradedOnce
<1>4. /\ \A i \in DOMAIN rows' : results'[i] = "live" => CheckpointsDone(i)'
      /\ \A i \in refused' : CheckpointsDone(i)'
  BY <1>2 DEF GradedOnce, Released
<1>5. \A q \in Askers : request'[q].loaded => CheckpointsDone(Subject(q))'
  <2> SUFFICES ASSUME NEW q \in Askers, request'[q].loaded PROVE CheckpointsDone(Subject(q))'
    OBVIOUS
  <2>1. PICK i \in DOMAIN rows : i = Subject(q) /\ i = Subject(q)'
    BY <1>1
  <2>2. CheckpointsDone(i)
    BY <1>1, <2>1 DEF GradedOnce, Askers
  <2>3. CheckpointsDone(i)'
    BY <1>2, <2>2
  <2>4. QED
    BY <2>1, <2>3 DEF CheckpointsDone
<1>6. QED
  BY <1>3, <1>4, <1>5 DEF GradedOnce, Askers

\* A submission that the step leaves alone, but for its grader.
LEMMA HandKept ==
    ASSUME GradingTyped, NEW R, Released(R), GradingTypeOK', NEW i \in DOMAIN rows, InOneHand(i),
           rows'[i] = rows[i], verdict'[i] = verdict[i],
           \/ grader'[i] = grader[i] /\ lost \subseteq lost'
           \/ grader'[i].at = "done" /\ i \in lost'
    PROVE  InOneHand(i)'
<1>1. i # 0
  BY GradingTypes DEF GradingTyped
<1>2. \A q \in Askers : Subject(q)' = i => q \notin R /\ Subject(q) = i /\ Copy(q)' = Copy(q)
  BY <1>1, ReleasedRequests
<1>3. QED
  BY <1>2, AskersAre DEF InOneHand, Grading, Askers

LEMMA MarkKeeps ==
    ASSUME GradingInv, NEW r \in Students, MarkGrading(r)
    PROVE  GradingInv'
<1>1. GradingTyped /\ GradedOnce /\ HandedOn /\ r \in Askers
  BY AskersAre DEF GradingInv
<1>2. PICK i : i = Subject(r)
  OBVIOUS
<1>3. /\ GradingTypeOK'
      /\ i \in DOMAIN rows /\ i # 0
      /\ Amended(rows, rows', i, [Copy(r) EXCEPT !.status = "grading"])
      /\ Bury(results, results', i)
      /\ Amended(grader, grader', i, Grader("due", grader[i].copy))
      /\ Asks(r, Idle)
      /\ UNCHANGED <<experiment, verdict, mixed, lost, crossed, refused>>
  BY <1>1, <1>2, MarkDoes
<1>4. Released({r})
  BY <1>3 DEF Released, Asks, Amended
<1>5. GradingTypeOK /\ Copy(r) \in Submission /\ grader[i].at = "none"
      /\ \A q \in Students \ {r} : Subject(q) # 0 => Subject(q) # i
  <2>1. ~RequestAt(r, "idle") /\ ~RequestAt(r, "counted")
    BY <1>1, <1>2, <1>3, RequestsAre
  <2>2. QED
    BY <1>1, <1>2, <1>3, <2>1, RequestOf DEF GradedOnce, GradingTyped
<1>6. /\ rows'[i].attempt = Copy(r).attempt
      /\ DOMAIN grader = DOMAIN rows /\ DOMAIN results = DOMAIN rows
      /\ \A j \in DOMAIN rows \ {i} : rows'[j] = rows[j] /\ grader'[j] = grader[j]
      /\ grader'[i].at = "due" /\ results'[i] # "live"
      /\ \A j \in DOMAIN rows \ {i} : results'[j] = results[j]
  <2>1. \A c \in Submission : [c EXCEPT !.status = "grading"].attempt = c.attempt
    BY DEF Submission
  <2>2. Grader("due", grader[i].copy).at = "due"
    BY DEF Grader
  <2>3. QED
    BY <1>3, <1>5, <2>1, <2>2, GradingTypes DEF Amended, Bury
<1>7. crossed' \/ AttemptsNumbered'
  <2> SUFFICES ASSUME ~crossed' PROVE AttemptsNumbered'
    OBVIOUS
  <2>1. AttemptsNumbered
    BY <1>3 DEF GradingInv
  <2>2. Copy(r).attempt = i
    BY <1>2, <1>3, <2>1, <1>1 DEF AttemptsNumbered, Askers
  <2>3. \A j \in DOMAIN rows : rows'[j].attempt = j
    BY <1>6, <2>1, <2>2 DEF AttemptsNumbered
  <2>4. \A j \in DOMAIN rows : grader'[j].at = "evaluating" => grader'[j].copy.attempt = j
    BY <1>6, <2>1 DEF AttemptsNumbered
  <2>5. QED
    BY <1>1, <1>3, <1>4, <2>1, <2>3, <2>4, AttemptsKept
<1>8. GradedOnce'
  <2>1. \A q \in Students \ {r} : Subject(q) # 0 => grader'[Subject(q)].at = "none"
    BY <1>1, <1>5, <1>6, RequestsAre, AskersAre DEF GradedOnce
  <2>2. \A j \in DOMAIN rows : grader[j].at = "done" => grader'[j].at = "done"
    BY <1>5, <1>6
  <2>3. \A j \in DOMAIN rows : results'[j] = "live" => results[j] = "live"
    BY <1>6
  <2>4. \A j \in refused' : j \in DOMAIN rows /\ j \in refused
    BY <1>3, <1>5, GradingRest
  <2>5. QED
    BY <1>1, <1>3, <1>4, <2>1, <2>2, <2>3, <2>4, OnceKept
<1>9. HandedOn'
  <2> SUFFICES ASSUME NEW j \in DOMAIN rows \ mixed PROVE InOneHand(j)'
    BY <1>3, <1>4 DEF HandedOn, Released
  <2>1. InOneHand(j)
    BY <1>1 DEF HandedOn
  <2>2. CASE j # i
    BY <1>1, <1>3, <1>4, <1>6, <2>1, <2>2, HandKept
  <2>3. CASE j = i
    <3>1. \A q \in Askers : Subject(q)' # i
      <4>1. \A q \in Askers : Subject(q)' = i => q # r /\ Subject(q) = i
        BY <1>1, <1>3, <1>4, ReleasedRequests
      <4>2. QED
        BY <1>2, <2>1, <2>3, <4>1 DEF InOneHand, Askers
    <3>2. verdict'[i] = Unset
      BY <1>2, <1>3, <2>1, <2>3 DEF InOneHand
    <3>3. QED
      BY <1>6, <2>3, <3>1, <3>2 DEF InOneHand, Askers
  <2>4. QED
    BY <2>2, <2>3
<1>10. GradingTyped'
  BY <1>1, <1>3, <1>4, ReleasedRequests
<1>11. QED
  BY <1>7, <1>8, <1>9, <1>10 DEF GradingInv

LEMMA ReadKeeps ==
    ASSUME GradingInv, NEW i \in DOMAIN rows, GraderReads(i)
    PROVE  GradingInv'
<1>1. GradingTyped /\ GradedOnce /\ HandedOn /\ GradingTypeOK
  BY DEF GradingInv, GradingTyped
<1>2. /\ GradingTypeOK' /\ grader[i].at = "due"
      /\ Amended(grader, grader', i, Grader("evaluating", rows[i]))
      /\ UNCHANGED <<experiment, rows, results, request, verdict, mixed, lost, crossed, refused>>
  BY <1>1, ReadDoes
<1>3. Released({})
  BY <1>2 DEF Released
<1>4. /\ grader'[i].at = "evaluating" /\ grader'[i].copy = rows[i]
      /\ \A j \in DOMAIN rows \ {i} : grader'[j] = grader[j]
  BY <1>1, <1>2, GradingTypes DEF Amended, Grader
<1>5. crossed' \/ AttemptsNumbered'
  <2> SUFFICES ASSUME ~crossed' PROVE AttemptsNumbered'
    OBVIOUS
  <2>1. AttemptsNumbered
    BY <1>2 DEF GradingInv
  <2>2. \A j \in DOMAIN rows : grader'[j].at = "evaluating" => grader'[j].copy.attempt = j
    BY <1>4, <2>1 DEF AttemptsNumbered
  <2>3. QED
    BY <1>1, <1>2, <1>3, <2>1, <2>2, AttemptsKept DEF AttemptsNumbered
<1>6. GradedOnce'
  <2>1. \A q \in Students : Subject(q) # 0 => grader'[Subject(q)].at = "none"
    BY <1>1, <1>2, <1>4, RequestsAre, AskersAre DEF GradedOnce
  <2>2. \A j \in DOMAIN rows : grader[j].at = "done" => grader'[j].at = "done"
    BY <1>2, <1>4
  <2>3. \A j \in refused' : j \in DOMAIN rows /\ j \in refused
    BY <1>1, <1>2, GradingRest
  <2>4. QED
    BY <1>1, <1>2, <1>3, <2>1, <2>2, <2>3, OnceKept
<1>7. HandedOn'
  <2> SUFFICES ASSUME NEW j \in DOMAIN rows \ mixed PROVE InOneHand(j)'
    BY <1>2 DEF HandedOn
  <2>1. InOneHand(j)
    BY <1>1 DEF HandedOn
  <2>2. CASE j # i
    BY <1>1, <1>2, <1>3, <1>4, <2>1, <2>2, HandKept
  <2>3. CASE j = i
    BY <1>2, <1>4, <2>1, <2>3 DEF InOneHand, Grading, Subject, Copy
  <2>4. QED
    BY <2>2, <2>3
<1>8. QED
  BY <1>1, <1>2, <1>3, <1>5, <1>6, <1>7, ReleasedRequests DEF GradingInv

LEMMA WriteKeeps ==
    ASSUME GradingInv, NEW i \in DOMAIN rows, GraderWrites(i)
    PROVE  GradingInv'
<1>1. GradingTyped /\ GradedOnce /\ HandedOn /\ GradingTypeOK
  BY DEF GradingInv, GradingTyped
<1> DEFINE sheet == [Graded(grader[i].copy, AutoScore) EXCEPT !.auto = AutoScore]
<1>2. /\ GradingTypeOK' /\ grader[i].at = "evaluating"
      /\ Amended(rows, rows', i, sheet)
      /\ \/ experiment.checkpoints /\ Amended(results, results', i, "live")
         \/ Bury(results, results', i)
      /\ Amended(grader, grader', i, Grader("done", NewSubmission(0)))
      /\ UNCHANGED <<experiment, request, verdict, mixed, lost, crossed, refused>>
  BY <1>1, WriteDoes
<1>3. Released({})
  BY <1>2 DEF Released, Amended
<1>4. sheet.attempt = grader[i].copy.attempt /\ sheet.auto = AutoScore
  <2>1. PICK c \in Submission : c = grader[i].copy
    BY <1>1, GradingTypes DEF GraderSet
  <2>2. /\ [Graded(c, AutoScore) EXCEPT !.auto = AutoScore].attempt = c.attempt
        /\ [Graded(c, AutoScore) EXCEPT !.auto = AutoScore].auto = AutoScore
    BY DEF Submission, Graded
  <2>3. QED
    BY <2>1, <2>2
<1> HIDE DEF sheet
<1>5. /\ rows'[i] = sheet /\ grader'[i].at = "done"
      /\ \A j \in DOMAIN rows \ {i} :
             rows'[j] = rows[j] /\ grader'[j] = grader[j] /\ results'[j] = results[j]
      /\ results'[i] = "live" => experiment.checkpoints
  BY <1>1, <1>2, GradingTypes DEF Amended, Bury, Grader
<1>6. crossed' \/ AttemptsNumbered'
  <2> SUFFICES ASSUME ~crossed' PROVE AttemptsNumbered'
    OBVIOUS
  <2>1. AttemptsNumbered
    BY <1>2 DEF GradingInv
  <2>2. \A j \in DOMAIN rows : rows'[j].attempt = j
    BY <1>2, <1>4, <1>5, <2>1 DEF AttemptsNumbered
  <2>3. \A j \in DOMAIN rows : grader'[j].at = "evaluating" => grader'[j].copy.attempt = j
    BY <1>5, <2>1 DEF AttemptsNumbered
  <2>4. QED
    BY <1>1, <1>2, <1>3, <2>1, <2>2, <2>3, AttemptsKept
<1>7. GradedOnce'
  <2>1. \A q \in Students : Subject(q) # 0 => grader'[Subject(q)].at = "none"
    BY <1>1, <1>2, <1>5, RequestsAre, AskersAre DEF GradedOnce
  <2>2. \A j \in DOMAIN rows : grader[j].at = "done" => grader'[j].at = "done"
    BY <1>5
  <2>3. \A j \in DOMAIN rows : results'[j] = "live" => results[j] = "live" \/ CheckpointsDone(j)'
    BY <1>2, <1>5 DEF CheckpointsDone
  <2>4. \A j \in refused' : j \in DOMAIN rows /\ j \in refused
    BY <1>1, <1>2, GradingRest
  <2>5. QED
    BY <1>1, <1>2, <1>3, <2>1, <2>2, <2>3, <2>4, OnceKept
<1>8. HandedOn'
  <2> SUFFICES ASSUME NEW j \in DOMAIN rows \ mixed PROVE InOneHand(j)'
    BY <1>2, <1>3 DEF HandedOn, Released
  <2>1. InOneHand(j)
    BY <1>1 DEF HandedOn
  <2>2. CASE j # i
    BY <1>1, <1>2, <1>3, <1>5, <2>1, <2>2, HandKept
  <2>3. CASE j = i
    <3>1. Grading(i) /\ verdict[i] = Unset /\ \A q \in Askers : Subject(q) # i
      BY <1>2, <2>1, <2>3 DEF InOneHand, Grading, Askers
    <3>2. verdict'[i] = Unset /\ \A q \in Askers : Subject(q)' # i
      BY <1>2, <3>1 DEF Subject
    <3>3. QED
      BY <1>4, <1>5, <2>3, <3>2, AskersAre DEF InOneHand, Grading, Askers
  <2>4. QED
    BY <2>2, <2>3
<1>9. QED
  BY <1>1, <1>2, <1>3, <1>6, <1>7, <1>8, ReleasedRequests DEF GradingInv

LEMMA GradeKeeps ==
    ASSUME GradingInv, NEW t \in Teachers, NEW i \in DOMAIN rows, GradeSubmission(t, i)
    PROVE  GradingInv'
<1>1. GradingTyped /\ GradedOnce /\ HandedOn /\ GradingTypeOK /\ t \in Askers /\ t \notin Students
  BY AskersAre DEF GradingInv, GradingTyped
<1>2. PICK new \in RequestSet(Len(rows)) :
        /\ Asks(t, new)
        /\ new.at = "grading" /\ new.sub = i /\ new.copy = rows[i]
        /\ new.loaded <=> results[i] = "live"
  BY <1>1, GradeDoes
<1>3. /\ GradingTypeOK' /\ RequestAt(t, "idle") /\ i # 0
      /\ mixed' = IF Written(i, t) THEN mixed \cup {i} ELSE mixed
      /\ UNCHANGED <<experiment, rows, results, grader, verdict, lost, crossed, refused>>
  BY <1>1, GradeDoes
<1>4. \A q \in Askers \ {t} : request'[q] = request[q]
  BY <1>2 DEF Asks
<1>5. request'[t] = new
  BY <1>2 DEF Asks
<1>6. GradingTyped'
  <2>1. \A q \in Askers : AskerTyped(q)'
    BY <1>1, <1>2, <1>3, <1>4, <1>5, RequestsAre DEF AskerTyped, RequestAt, Subject
  <2>2. QED
    BY <1>3, <2>1 DEF GradingTyped, Askers
<1>7. crossed' \/ AttemptsNumbered'
  <2> SUFFICES ASSUME ~crossed' PROVE AttemptsNumbered'
    OBVIOUS
  <2>1. AttemptsNumbered
    BY <1>3 DEF GradingInv
  <2>2. \A q \in Askers : /\ (Subject(q) # 0 => Copy(q).attempt = Subject(q))'
                          /\ (RequestAt(q, "counted") => Copy(q).attempt = Len(rows) + 1)'
    BY <1>2, <1>3, <1>4, <1>5, <2>1 DEF AttemptsNumbered, Subject, Copy, RequestAt, Askers
  <2>3. \A p, q \in Students : RequestAt(p, "counted")' /\ RequestAt(q, "counted")' => p = q
    BY <1>1, <1>4, <2>1, AskersAre DEF RequestAt, AttemptsNumbered
  <2>4. QED
    BY <1>3, <2>1, <2>2, <2>3 DEF AttemptsNumbered, Askers
<1>8. GradedOnce'
  BY <1>1, <1>2, <1>3, <1>4, <1>5, AskersAre
     DEF GradedOnce, Subject, CheckpointsDone, Askers
<1>9. HandedOn'
  <2> SUFFICES ASSUME NEW j \in DOMAIN rows \ mixed' PROVE InOneHand(j)'
    BY <1>3 DEF HandedOn
  <2>1. InOneHand(j) /\ j # 0 /\ j \notin mixed
    BY <1>1, <1>3, GradingTypes DEF HandedOn
  <2>2. CASE j # i
    <3>1. \A q \in Askers : Subject(q)' = j => q # t /\ Subject(q) = j /\ Copy(q)' = Copy(q)
      BY <1>2, <1>4, <1>5, <2>2 DEF Subject, Copy
    <3>2. QED
      BY <1>3, <2>1, <3>1, AskersAre DEF InOneHand, Grading, Askers
  <2>3. CASE j = i
    <3>1. ~Written(i, t)
      BY <1>3, <2>3
    <3>2. DOMAIN request = Askers
      BY <1>1, GradingTypes
    <3>3. ~Grading(i) /\ \A q \in Askers \ {t} : Subject(q) # i
      BY <3>1, <3>2 DEF Written, Subject
    <3>4. \A q \in Askers : Subject(q)' = i => q = t
      BY <1>4, <3>3 DEF Subject
    <3>5. Copy(t)' = rows'[i]
      BY <1>2, <1>3, <1>5 DEF Copy
    <3>6. QED
      BY <1>1, <1>3, <2>1, <2>3, <3>3, <3>4, <3>5, AskersAre DEF InOneHand, Grading, Askers
  <2>4. QED
    BY <2>2, <2>3
<1>10. QED
  BY <1>6, <1>7, <1>8, <1>9 DEF GradingInv

LEMMA GradedKeeps ==
    ASSUME GradingInv, NEW t \in Teachers, GradeWrites(t)
    PROVE  GradingInv'
<1>1. GradingTyped /\ GradedOnce /\ HandedOn /\ GradingTypeOK /\ t \in Askers /\ t \notin Students
  BY AskersAre DEF GradingInv, GradingTyped
<1>2. PICK i : i = Subject(t)
  OBVIOUS
<1>3. /\ GradingTypeOK' /\ i \in DOMAIN rows /\ i # 0
      /\ Bury(results, results', i) /\ Asks(t, Idle)
      /\ UNCHANGED <<experiment, grader, mixed, lost, crossed, refused>>
  BY <1>1, <1>2, GradedDoes
<1>4. PICK s \in Scores :
        /\ Amended(rows, rows', i, [Graded(Copy(t), s) EXCEPT !.manual = s])
        /\ Amended(verdict, verdict', i, s)
  BY <1>1, <1>2, GradedDoes
<1>5. Released({t})
  BY <1>3, <1>4 DEF Released, Asks, Amended
<1>6. Copy(t) \in Submission
  <2>1. ~RequestAt(t, "idle") /\ ~RequestAt(t, "counted")
    BY <1>1, <1>2, <1>3, RequestsAre
  <2>2. QED
    BY <1>1, <2>1, RequestOf
<1>7. /\ rows'[i].attempt = Copy(t).attempt /\ rows'[i].auto = Copy(t).auto
      /\ rows'[i].status = "graded" /\ rows'[i].score = s /\ rows'[i].manual = s
      /\ verdict'[i] = s /\ results'[i] # "live"
      /\ \A j \in DOMAIN rows \ {i} :
             rows'[j] = rows[j] /\ verdict'[j] = verdict[j] /\ results'[j] = results[j]
  <2>1. PICK c \in Submission : c = Copy(t)
    BY <1>6
  <2>2. PICK sheet : sheet = [Graded(c, s) EXCEPT !.manual = s]
    OBVIOUS
  <2>3. /\ sheet.attempt = c.attempt /\ sheet.auto = c.auto
        /\ sheet.status = "graded" /\ sheet.score = s /\ sheet.manual = s
    BY <2>2 DEF Submission, Graded
  <2>4. Amended(rows, rows', i, sheet)
    BY <1>4, <2>1, <2>2
  <2>5. QED
    BY <1>1, <1>3, <1>4, <2>1, <2>3, <2>4, GradingTypes DEF Amended, Bury
<1>8. crossed' \/ AttemptsNumbered'
  <2> SUFFICES ASSUME ~crossed' PROVE AttemptsNumbered'
    OBVIOUS
  <2>1. AttemptsNumbered
    BY <1>3 DEF GradingInv
  <2>2. Copy(t).attempt = i
    BY <1>1, <1>2, <1>3, <2>1 DEF AttemptsNumbered, Askers
  <2>3. \A j \in DOMAIN rows : rows'[j].attempt = j
    BY <1>7, <2>1, <2>2 DEF AttemptsNumbered
  <2>4. \A j \in DOMAIN rows : grader'[j].at = "evaluating" => grader'[j].copy.attempt = j
    BY <1>3, <2>1 DEF AttemptsNumbered
  <2>5. QED
    BY <1>1, <1>3, <1>5, <2>1, <2>3, <2>4, AttemptsKept
<1>9. GradedOnce'
  <2>1. \A q \in Students : Subject(q) # 0 => grader'[Subject(q)].at = "none"
    BY <1>1, <1>3 DEF GradedOnce
  <2>2. \A j \in DOMAIN rows : results'[j] = "live" => results[j] = "live"
    BY <1>7
  <2>3. \A j \in refused' : j \in DOMAIN rows /\ j \in refused
    BY <1>1, <1>3, GradingRest
  <2>4. QED
    BY <1>1, <1>3, <1>5, <2>1, <2>2, <2>3, OnceKept
<1>10. HandedOn'
  <2> SUFFICES ASSUME NEW j \in DOMAIN rows \ mixed PROVE InOneHand(j)'
    BY <1>3, <1>5 DEF HandedOn, Released
  <2>1. InOneHand(j)
    BY <1>1 DEF HandedOn
  <2>2. CASE j # i
    BY <1>1, <1>3, <1>5, <1>7, <2>1, <2>2, HandKept
  <2>3. CASE j = i
    <3>1. \A q \in Askers : Subject(q)' # i
      <4>1. \A q \in Askers : Subject(q)' = i => q # t /\ Subject(q) = i
        BY <1>1, <1>3, <1>5, ReleasedRequests
      <4>2. QED
        BY <1>1, <1>2, <2>1, <2>3, <4>1 DEF InOneHand, Askers
    <3>2. ~Grading(i) /\ Copy(t) = rows[i]
      BY <1>1, <1>2, <2>1, <2>3 DEF InOneHand, Askers
    <3>3. QED
      BY <1>3, <1>7, <2>1, <2>3, <3>1, <3>2, AskersAre DEF InOneHand, Grading, Askers
  <2>4. QED
    BY <2>2, <2>3
<1>11. QED
  BY <1>1, <1>3, <1>5, <1>8, <1>9, <1>10, ReleasedRequests DEF GradingInv

\* Requests and graders that end without writing.
LEMMA EndsKeep ==
    ASSUME GradingInv, NEW R, NEW S \in SUBSET DOMAIN rows, Ends(R, S), GradingTypeOK',
           \A q \in Students \ R : Subject(q) # 0 => Subject(q) \notin S
    PROVE  GradingInv'
<1>1. GradingTyped /\ GradedOnce /\ HandedOn /\ GradingTypeOK
  BY DEF GradingInv, GradingTyped
<1>2. Released(R)
  BY DEF Ends, Released
<1>3. UNCHANGED <<experiment, rows, results, verdict, mixed, crossed, refused>> /\ lost' = lost \cup S
  BY DEF Ends
<1>4. \A i \in DOMAIN rows : \/ i \notin S /\ grader'[i] = grader[i]
                             \/ i \in S /\ grader'[i].at = "done" /\ i \in lost'
  BY <1>3 DEF Ends, Grader
<1>5. crossed' \/ AttemptsNumbered'
  <2> SUFFICES ASSUME ~crossed' PROVE AttemptsNumbered'
    OBVIOUS
  <2>1. AttemptsNumbered
    BY <1>3 DEF GradingInv
  <2>2. \A j \in DOMAIN rows : grader'[j].at = "evaluating" => grader'[j].copy.attempt = j
    BY <1>4, <2>1 DEF AttemptsNumbered
  <2>3. \A j \in DOMAIN rows : rows'[j].attempt = j
    BY <1>3, <2>1 DEF AttemptsNumbered
  <2>4. QED
    BY <1>1, <1>2, <2>1, <2>2, <2>3, AttemptsKept
<1>6. GradedOnce'
  <2>1. \A q \in Students \ R : Subject(q) # 0 => grader'[Subject(q)].at = "none"
    BY <1>1, <1>4, RequestsAre, AskersAre DEF GradedOnce
  <2>2. \A j \in DOMAIN rows : grader[j].at = "done" => grader'[j].at = "done"
    BY <1>4
  <2>3. \A j \in refused' : j \in DOMAIN rows /\ j \in refused
    BY <1>1, <1>3, GradingRest
  <2>4. QED
    BY <1>1, <1>2, <1>3, <2>1, <2>2, <2>3, OnceKept
<1>7. HandedOn'
  <2> SUFFICES ASSUME NEW j \in DOMAIN rows \ mixed PROVE InOneHand(j)'
    BY <1>3 DEF HandedOn
  <2>1. InOneHand(j)
    BY <1>1 DEF HandedOn
  <2>2. QED
    BY <1>1, <1>2, <1>3, <1>4, <2>1, HandKept
<1>8. QED
  BY <1>1, <1>2, <1>5, <1>6, <1>7, ReleasedRequests DEF GradingInv

LEMMA RefusedKeeps ==
    ASSUME GradingInv, NEW t \in Teachers, GradeRefused(t)
    PROVE  GradingInv'
<1>1. GradingTyped /\ GradedOnce /\ HandedOn /\ GradingTypeOK /\ t \in Askers
  BY AskersAre DEF GradingInv, GradingTyped
<1>2. /\ GradingTypeOK' /\ Subject(t) \in DOMAIN rows /\ request[t].loaded
      /\ refused' = refused \cup {Subject(t)} /\ Asks(t, Idle)
      /\ UNCHANGED <<experiment, rows, results, grader, verdict, mixed, lost, crossed>>
  BY <1>1, RefusedDoes
<1>3. Released({t})
  BY <1>2 DEF Released, Asks
<1>4. crossed' \/ AttemptsNumbered'
  <2> SUFFICES ASSUME ~crossed' PROVE AttemptsNumbered'
    OBVIOUS
  <2>1. AttemptsNumbered
    BY <1>2 DEF GradingInv
  <2>2. /\ \A j \in DOMAIN rows : rows'[j].attempt = j
        /\ \A j \in DOMAIN rows : grader'[j].at = "evaluating" => grader'[j].copy.attempt = j
    BY <1>2, <2>1 DEF AttemptsNumbered
  <2>3. QED
    BY <1>1, <1>2, <1>3, <2>1, <2>2, AttemptsKept
<1>5. GradedOnce'
  <2>1. \A q \in Students : Subject(q) # 0 => grader'[Subject(q)].at = "none"
    BY <1>1, <1>2 DEF GradedOnce
  <2>2. CheckpointsDone(Subject(t))
    BY <1>1, <1>2 DEF GradedOnce, Askers
  <2>3. \A j \in refused' : j \in DOMAIN rows /\ (j \in refused \/ CheckpointsDone(j))
    BY <1>1, <1>2, <2>2, GradingRest
  <2>4. QED
    BY <1>1, <1>2, <1>3, <2>1, <2>3, OnceKept
<1>6. HandedOn'
  <2> SUFFICES ASSUME NEW j \in DOMAIN rows \ mixed PROVE InOneHand(j)'
    BY <1>2 DEF HandedOn
  <2>1. InOneHand(j)
    BY <1>1 DEF HandedOn
  <2>2. QED
    BY <1>1, <1>2, <1>3, <2>1, HandKept
<1>7. QED
  BY <1>1, <1>2, <1>3, <1>4, <1>5, <1>6, ReleasedRequests DEF GradingInv

LEMMA GradingNextKeeps == GradingInv /\ [GradingNext]_gradingVars => GradingInv'
<1> SUFFICES ASSUME GradingInv, [GradingNext]_gradingVars PROVE GradingInv'
  OBVIOUS
<1>0. GradingTyped /\ GradedOnce /\ GradingTypeOK
  BY DEF GradingInv, GradingTyped
<1>1. ASSUME NEW r \in Students, SubmitExperiment(r) \/ InsertSubmission(r) \/ MarkGrading(r)
      PROVE  GradingInv'
  BY <1>1, SubmitKeeps, SubmissionKeeps, MarkKeeps
<1>2. ASSUME NEW i \in DOMAIN rows, GraderStep(i)
      PROVE  GradingInv'
  BY <1>2, ReadKeeps, WriteKeeps DEF GraderStep
<1>3. ASSUME NEW i \in DOMAIN rows, GraderFails(i)
      PROVE  GradingInv'
  <2>1. GradingTypeOK' /\ Ends({}, {i})
    BY <1>0, <1>3, GraderFailsDoes
  <2>2. \A q \in Students \ {} : Subject(q) # 0 => Subject(q) \notin {i}
    BY <1>0, <1>3 DEF GraderFails, Grading, GradedOnce
  <2>3. QED
    BY <2>1, <2>2, EndsKeep
<1>4. ASSUME NEW t \in Teachers, NEW i \in DOMAIN rows, GradeSubmission(t, i)
      PROVE  GradingInv'
  BY <1>4, GradeKeeps
<1>5. ASSUME NEW t \in Teachers, GradeWrites(t) \/ GradeRefused(t)
      PROVE  GradingInv'
  BY <1>5, GradedKeeps, RefusedKeeps
<1>6. ASSUME NEW r \in Askers, RequestFails(r)
      PROVE  GradingInv'
  BY <1>0, <1>6, FailsDoes, EndsKeep
<1>7. ASSUME GradingCrash
      PROVE  GradingInv'
  <2>1. GradingTypeOK'
    BY <1>0, <1>7, CrashDoes
  <2>2. PICK S \in SUBSET DOMAIN rows : Ends(Askers, S)
    BY <1>0, <1>7, CrashDoes
  <2>3. QED
    BY <2>1, <2>2, EndsKeep, AskersAre
<1>8. CASE UNCHANGED gradingVars
  <2>1. GradingTypeOK' /\ Ends({}, {})
    BY <1>0, <1>8 DEF gradingVars, gradingObservers, GradingTypeOK, Ends
  <2>2. QED
    BY <2>1, EndsKeep
<1>9. QED
  BY <1>1, <1>2, <1>3, <1>4, <1>5, <1>6, <1>7, <1>8 DEF GradingNext, Askers

LEMMA GradingInitKeeps == GradingInit => GradingInv
<1> SUFFICES ASSUME GradingInit PROVE GradingInv
  OBVIOUS
<1>1. GradingTyped
  BY GradingTypeInit
<1>2. \A r \in Askers : request[r] = Idle
  BY DEF GradingInit, Askers
<1>3. DOMAIN rows = {} /\ refused = {} /\ Len(rows) = 0
  BY DEF GradingInit
<1>4. AttemptsNumbered
  BY <1>2, <1>3, IdleIs, AskersAre DEF AttemptsNumbered, Subject, RequestAt, Askers
<1>5. GradedOnce
  BY <1>2, <1>3, IdleIs, AskersAre DEF GradedOnce, Subject, Askers
<1>6. HandedOn
  BY <1>3 DEF HandedOn
<1>7. QED
  BY <1>1, <1>4, <1>5, <1>6 DEF GradingInv

(* Submissions, graders, requests and observers keep their types.          *)
THEOREM GradingTypeCorrect == GradingSpec => []GradingTypeOK
<1>1. GradingInv => GradingTypeOK
  BY DEF GradingInv, GradingTyped
<1>2. QED
  BY <1>1, GradingInitKeeps, GradingNextKeeps, PTL DEF GradingSpec

(* Attempts are numbered in their order, a teacher's score stands and the  *)
(* automatic one beside it, unless two had the submission in hand at once, *)
(* and a grade is refused only after graded checkpoints.                   *)
THEOREM SubmissionsAreSound == GradingSpec => []SubmissionsSound
<1>1. GradingInv => SubmissionsSound
  BY DEF GradingInv, SubmissionsSound, AttemptsNumbered, HandedOn, InOneHand, GradedOnce,
         CheckpointsDone
<1>2. QED
  BY <1>1, GradingInitKeeps, GradingNextKeeps, PTL DEF GradingSpec

-----------------------------------------------------------------------------
(* Of whichever of the two moves, environments or submissions.             *)
THEOREM BothTypeCorrect == MCSpec => []PartsTyped
<1>1. MCInit => Init /\ GradingInit
  BY DEF MCInit
<1>2. MCNext => [Next]_vars /\ [GradingNext]_gradingVars
  <2>1. /\ \A o \in Requests, u \in Users, x \in Experiments : Admit(o, u, x) => Next
        /\ \A o \in Requests, e \in Envs : Stop(o, e) \/ Pause(o, e) => Next
    BY DEF Next, UserRequest
  <2>2. \A o \in Requests, e \in Envs : Resume(o, e) \/ Extend(o, e) => Next
    BY DEF Next, UserRequest
  <2>3. \A o \in Requests, e \in Envs : Snapshot(o, e) \/ Poll(o, e) => Next
    BY DEF Next, UserRequest
  <2>4. /\ \A o \in Actors : OpStep(o) \/ Abandon(o) => Next
        /\ \A e \in Envs : CleanupNext(e) \/ Expire(e) => Next
        /\ CleanupExpired \/ SyncAll \/ Crash => Next
    BY DEF Next
  <2>5. \A e \in Envs, i \in Instances : PodRuns(e, i) \/ PodDies(e, i) \/ PodGone(e, i) => Next
    BY DEF Next
  <2>6. /\ \A r \in Students :
              SubmitExperiment(r) \/ InsertSubmission(r) \/ MarkGrading(r) => GradingNext
        /\ \A i \in DOMAIN rows : GraderReads(i) \/ GraderWrites(i) \/ GraderFails(i) => GradingNext
    BY DEF GradingNext, GraderStep
  <2>7. /\ \A t \in Teachers, i \in DOMAIN rows : GradeSubmission(t, i) => GradingNext
        /\ \A t \in Teachers : GradeWrites(t) \/ GradeRefused(t) => GradingNext
        /\ \A r \in Students \cup Teachers : RequestFails(r) => GradingNext
        /\ GradingCrash => GradingNext
    BY DEF GradingNext
  <2>8. MCNext => (Next /\ InEnvironments) \/ (GradingNext /\ InGrading)
    BY <2>1, <2>2, <2>3, <2>4, <2>5, <2>6, <2>7, Zenon DEF MCNext
  <2>9. (InEnvironments => UNCHANGED gradingVars) /\ (InGrading => UNCHANGED vars)
    BY DEF InEnvironments, InGrading
  <2>10. QED
    BY <2>8, <2>9
<1>3. UNCHANGED MCVars => UNCHANGED vars /\ UNCHANGED gradingVars
  BY DEF MCVars
<1>4. TypeOK /\ GradingTypeOK => PartsTyped
  BY DEF PartsTyped
<1>5. QED
  BY <1>1, <1>2, <1>3, <1>4, TypeCorrect, GradingTypeCorrect, PTL DEF MCSpec, Spec, GradingSpec
=============================================================================
