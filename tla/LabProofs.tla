------------------------------ MODULE LabProofs ------------------------------
(***************************************************************************)
(* Proofs about the lab: the sessions in which students share an           *)
(* environment, the engine that runs their simulators, and Raft.           *)
(*                                                                         *)
(* Sessions, for any finite set of users, any actors, any size of a        *)
(* session and any numbers of environments, requests and faults: type      *)
(* correctness, that members do not take the pods from each other, and     *)
(* that a session keeps to its size.  SimEngine, for any number of         *)
(* simulators, loops and requests: type correctness, and how many loops    *)
(* tick.  RaftSim, for any number of nodes, terms and messages and at most *)
(* two commands: type correctness, and no term has two leaders, although   *)
(* followers forget their votes.                                           *)
(***************************************************************************)
EXTENDS Sessions, SimEngine, RaftSim, FiniteSetTheorems, WellFoundedInduction, TLAPS

-----------------------------------------------------------------------------
(***************************************************************************)
(* Lemmas about sequences, numbers and finite sets.                        *)
(***************************************************************************)
LEMMA RowReplaced ==
    ASSUME NEW S, NEW q \in Seq(S), NEW i \in DOMAIN q, NEW x \in S
    PROVE  /\ [q EXCEPT ![i] = x] \in Seq(S)
           /\ Len([q EXCEPT ![i] = x]) = Len(q)
           /\ DOMAIN [q EXCEPT ![i] = x] = DOMAIN q
OBVIOUS

LEMMA RowAdded ==
    ASSUME NEW S, NEW q \in Seq(S), NEW x \in S
    PROVE  /\ Append(q, x) \in Seq(S)
           /\ Len(Append(q, x)) = Len(q) + 1
           /\ DOMAIN Append(q, x) = DOMAIN q \cup {Len(q) + 1}
           /\ Len(q) + 1 \notin DOMAIN q
           /\ Append(q, x)[Len(q) + 1] = x
           /\ \A i \in DOMAIN q : Append(q, x)[i] = q[i]
OBVIOUS

(* The oldest row is one of the rows.                                      *)
LEMMA OldestIsOne ==
    ASSUME NEW S, S \subseteq Nat, S # {}
    PROVE  Min(S) \in S
<1>1. PICK m \in S : \A y \in S : ~(<<y, m>> \in OpToRel(<, Nat))
  BY NatLessThanWellFounded, WFMin
<1>2. \A y \in S : m <= y
  <2> SUFFICES ASSUME NEW y \in S, y < m PROVE FALSE
    OBVIOUS
  <2>1. <<y, m>> \in Nat \X Nat
    BY <1>1
  <2>2. <<y, m>> \in OpToRel(<, Nat)
    BY <2>1 DEF OpToRel
  <2>3. QED
    BY <1>1, <2>2
<1>3. QED
  BY <1>1, <1>2 DEF Min

(* More than one environment is active exactly when another one is.        *)
LEMMA MoreThanOne ==
    ASSUME NEW n \in Nat, NEW S, S \subseteq 1 .. n, NEW i \in S
    PROVE  Cardinality(S) > 1 <=> S \ {i} # {}
<1> DEFINE T == S \ {i}
<1>1. IsFiniteSet(S)
  <2>1. IsFiniteSet(1 .. n)
    BY FS_Interval
  <2>2. QED
    BY <2>1, FS_Subset
<1>2. Cardinality(T) = Cardinality(S) - 1 /\ IsFiniteSet(T)
  BY <1>1, FS_RemoveElement
<1>3. Cardinality(T) \in Nat /\ Cardinality(S) \in Nat
  BY <1>1, <1>2, FS_CardinalityType
<1>4. Cardinality(T) = 0 <=> T = {}
  BY <1>2, FS_EmptySet
<1> HIDE DEF T
<1>5. Cardinality(S) > 1 <=> T # {}
  BY <1>2, <1>3, <1>4
<1>6. QED
  BY <1>5 DEF T

-----------------------------------------------------------------------------
(***************************************************************************)
(* What rows and actors know of each other, whatever happened.             *)
(***************************************************************************)

\* The environments of a session have one runtime, one of theirs, and a session
\* has the runtime of no other.
Rows ==
    \A i \in DOMAIN envs :
        /\ envs[i].session \in DOMAIN sessions
        /\ envs[i].runtime \in DOMAIN envs
        /\ envs[envs[i].runtime].session = envs[i].session
        /\ \A j \in DOMAIN envs :
               envs[i].session = envs[j].session => envs[i].runtime = envs[j].runtime

Primaries ==
    \A s \in DOMAIN sessions :
        sessions[s].primary \in DOMAIN envs /\ envs[sessions[s].primary].session = s

OnEnv == {"joining", "provisioning", "waiting", "reviving"} \cup Ending

Provisions(a) ==
    \/ actor[a].at = "provisioning"
    \/ actor[a].at \in {"joining", "writing"} /\ actor[a].then = "provisioning"

Knows(a) ==
    /\ actor[a].at \in OnEnv \/ (actor[a].at = "writing" /\ actor[a].then # "idle") =>
           /\ actor[a].env \in DOMAIN envs
           /\ envs[actor[a].env].session = actor[a].session
    /\ actor[a].at \in {"attaching", "rejoining", "writing"} =>
           actor[a].session \in DOMAIN sessions
    /\ actor[a].at = "founding" => actor[a].session = 0
    /\ actor[a].at = "attaching" => actor[a].then = "idle"
    /\ actor[a].at \in {"attaching", "founding", "joining", "leaving", "detaching"} =>
           actor[a].user \in Users
    /\ actor[a].at = "writing" =>
           /\ actor[a].primary \in DOMAIN envs
           /\ envs[actor[a].primary].session = actor[a].session
    /\ actor[a].at = "joining" => actor[a].then \in {"idle", "provisioning"}
    /\ Provisions(a) => envs[actor[a].env].runtime = actor[a].env

Base == SessionAssumption /\ SessionTypeOK /\ Rows /\ Primaries /\ \A a \in Actors : Knows(a)

-----------------------------------------------------------------------------
(***************************************************************************)
(* Lemmas about steps in general.                                          *)
(***************************************************************************)
LEMMA ActorTurns ==
    ASSUME NEW a \in Actors, NEW r \in Role, actor \in [Actors -> Role],
           actor' = [actor EXCEPT ![a] = r]
    PROVE  /\ actor' \in [Actors -> Role] /\ actor'[a] = r
           /\ \A b \in Actors : b # a => actor'[b] = actor[b]
OBVIOUS

LEMMA IdleIsRole ==
    ASSUME SessionAssumption
    PROVE  Idle \in Role
<1>1. 0 \in 0 .. MaxEnvs
  BY DEF SessionAssumption
<1>2. QED
  BY <1>1 DEF Idle, Role, Points, Status, ActiveStatuses, Then

LEMMA StatusSet ==
    ASSUME SessionTypeOK, NEW i \in DOMAIN envs, NEW state \in Status, SetStatus(i, state)
    PROVE  /\ envs' \in Seq(Env) /\ Len(envs') = Len(envs) /\ DOMAIN envs' = DOMAIN envs
           /\ envs'[i].status = state
           /\ \A j \in DOMAIN envs :
               /\ envs'[j].session = envs[j].session /\ envs'[j].runtime = envs[j].runtime
               /\ envs'[j].user = envs[j].user
               /\ j # i => envs'[j] = envs[j]
<1> DEFINE e == [envs[i] EXCEPT !.status = state]
<1>1. envs \in Seq(Env) /\ envs[i] \in Env
  BY DEF SessionTypeOK
<1>2. /\ e \in Env /\ e.status = state /\ e.session = envs[i].session
      /\ e.runtime = envs[i].runtime /\ e.user = envs[i].user
  BY <1>1 DEF Env
<1>3. envs' = [envs EXCEPT ![i] = e]
  BY <1>1 DEF SetStatus
<1> HIDE DEF e
<1>4. QED
  BY <1>1, <1>2, <1>3, RowReplaced

\* Rows stay where they are; sessions keep their primary environments.
Steady ==
    /\ DOMAIN envs' = DOMAIN envs /\ DOMAIN sessions' = DOMAIN sessions
    /\ \A i \in DOMAIN envs :
        envs'[i].session = envs[i].session /\ envs'[i].runtime = envs[i].runtime

LEMMA BaseStep ==
    ASSUME Base, Steady, SessionTypeOK', NEW a \in Actors, Knows(a)', Primaries',
           \A b \in Actors : b # a => actor'[b] = actor[b]
    PROVE  Base'
<1>1. Rows'
  BY DEF Base, Rows, Steady
<1>2. ASSUME NEW b \in Actors, b # a PROVE Knows(b)'
  <2>1. Knows(b) /\ actor'[b] = actor[b]
    BY <1>2 DEF Base
  <2>2. QED
    BY <2>1 DEF Knows, Provisions, Steady, OnEnv
<1>3. QED
  BY <1>1, <1>2 DEF Base

LEMMA PrimariesStay ==
    ASSUME Base, Steady, \A s \in DOMAIN sessions : sessions'[s].primary = sessions[s].primary
    PROVE  Primaries'
BY DEF Base, Primaries, Steady

LEMMA BaseInit ==
    ASSUME SessionAssumption, SessionInit
    PROVE  Base
<1>1. SessionTypeOK
  BY IdleIsRole DEF SessionAssumption, SessionInit, SessionTypeOK, Idle
<1>2. Rows /\ Primaries
  BY DEF SessionInit, Rows, Primaries
<1>3. \A a \in Actors : Knows(a)
  BY DEF SessionInit, Knows, Provisions, Idle, OnEnv, Ending
<1>4. QED
  BY <1>1, <1>2, <1>3 DEF Base

-----------------------------------------------------------------------------
(***************************************************************************)
(* What the helpers of the actions do to the actor.                        *)
(***************************************************************************)
LEMMA Writes ==
    ASSUME Base, NEW a \in Actors, NEW count \in Nat, NEW primary \in 0 .. MaxEnvs,
           NEW state \in Status, NEW then \in Then, Writing(a, count, primary, state, then)
    PROVE  /\ actor' \in [Actors -> Role] /\ actor'[a].at = "writing"
           /\ actor'[a].count = count /\ actor'[a].primary = primary
           /\ actor'[a].status = state /\ actor'[a].then = then
           /\ actor'[a].env = actor[a].env /\ actor'[a].session = actor[a].session
           /\ \A b \in Actors : b # a => actor'[b] = actor[b]
<1> DEFINE r == [actor[a] EXCEPT !.at = "writing", !.count = count, !.primary = primary,
                                 !.status = state, !.then = then]
<1>1. actor \in [Actors -> Role]
  BY DEF Base, SessionTypeOK
<1>2. /\ r \in Role /\ r.at = "writing" /\ r.count = count /\ r.primary = primary
      /\ r.status = state /\ r.then = then
      /\ r.env = actor[a].env /\ r.session = actor[a].session
  BY <1>1, ZenonT(60) DEF Role, Points
<1>3. actor' = [actor EXCEPT ![a] = r]
  BY <1>1 DEF Writing
<1> HIDE DEF r
<1>4. QED
  BY <1>1, <1>2, <1>3, ActorTurns

LEMMA Goes ==
    ASSUME Base, NEW a \in Actors, NEW at \in Points, GoTo(a, at)
    PROVE  /\ actor' \in [Actors -> Role] /\ actor'[a].at = at
           /\ actor'[a].env = actor[a].env /\ actor'[a].session = actor[a].session
           /\ actor'[a].user = actor[a].user /\ actor'[a].then = actor[a].then
           /\ actor'[a].primary = actor[a].primary
           /\ \A b \in Actors : b # a => actor'[b] = actor[b]
<1> DEFINE r == [actor[a] EXCEPT !.at = at]
<1>1. actor \in [Actors -> Role]
  BY DEF Base, SessionTypeOK
<1>2. /\ r \in Role /\ r.at = at /\ r.env = actor[a].env /\ r.session = actor[a].session
      /\ r.user = actor[a].user /\ r.then = actor[a].then /\ r.primary = actor[a].primary
  BY <1>1 DEF Role
<1>3. actor' = [actor EXCEPT ![a] = r]
  BY <1>1 DEF GoTo
<1> HIDE DEF r
<1>4. QED
  BY <1>1, <1>2, <1>3, ActorTurns

LEMMA Leaves ==
    ASSUME Base, NEW a \in Actors, Leave(a)
    PROVE  /\ actor' \in [Actors -> Role] /\ actor'[a] = Idle
           /\ \A b \in Actors : b # a => actor'[b] = actor[b]
BY IdleIsRole, ActorTurns DEF Base, SessionTypeOK, Leave

(* Someone sets to work on session s and environment i, or on none of them *)
(* yet.                                                                    *)
LEMMA SetsOut ==
    ASSUME Base, NEW a \in Actors, NEW at \in Points, NEW i \in 0 .. MaxEnvs,
           NEW s \in 0 .. MaxEnvs, NEW u \in Users \cup {Nobody}, NEW r,
           r = [Idle EXCEPT !.at = at, !.env = i, !.session = s, !.user = u],
           actor' = [actor EXCEPT ![a] = r]
    PROVE  /\ actor' \in [Actors -> Role]
           /\ actor'[a].at = at /\ actor'[a].env = i /\ actor'[a].session = s
           /\ actor'[a].user = u /\ actor'[a].then = "idle" /\ actor'[a].primary = 0
           /\ \A b \in Actors : b # a => actor'[b] = actor[b]
<1>1. Idle \in Role
  BY IdleIsRole DEF Base
<1>2. /\ r \in Role /\ r.at = at /\ r.env = i /\ r.session = s /\ r.user = u
      /\ r.then = "idle" /\ r.primary = 0
  BY <1>1 DEF Role, Idle
<1>3. QED
  BY <1>2, ActorTurns DEF Base, SessionTypeOK

LEMMA Begins ==
    ASSUME Base, NEW a \in Actors, NEW i \in DOMAIN envs, NEW at \in Points, Begin(a, i, at)
    PROVE  /\ actor' \in [Actors -> Role]
           /\ actor'[a].at = at /\ actor'[a].env = i /\ actor'[a].session = envs[i].session
           /\ actor'[a].user = envs[i].user /\ actor'[a].then = "idle" /\ actor'[a].primary = 0
           /\ \A b \in Actors : b # a => actor'[b] = actor[b]
<1>1. i \in 0 .. MaxEnvs /\ envs[i].session \in 0 .. MaxEnvs /\ envs[i].user \in Users
  <2>1. MaxEnvs \in Nat
    BY DEF Base, SessionAssumption
  <2>2. envs \in Seq(Env) /\ Len(envs) <= MaxEnvs
    BY DEF Base, SessionTypeOK
  <2>3. envs[i] \in Env /\ i \in 1 .. Len(envs)
    BY <2>2
  <2>4. QED
    BY <2>1, <2>2, <2>3 DEF Env
<1>2. QED
  BY <1>1, SetsOut, ZenonT(60) DEF Begin

\* An observed step concerns a session that exists, or none.
LEMMA ObserverTyped ==
    ASSUME Base, NEW a \in Actors, NEW s \in DOMAIN sessions \cup {0}, NEW at, Observe(a, s, at)
    PROVE  crossed' \cup crowded' \subseteq DOMAIN sessions
<1>1. crossed \cup crowded \subseteq DOMAIN sessions
  BY DEF Base, SessionTypeOK
<1>2. crossed' \subseteq crossed \cup {s} /\ (s = 0 => crossed' = crossed)
  BY DEF Observe
<1>3. crowded' \subseteq crowded \cup {s} /\ (s = 0 => crowded' = crowded)
  BY DEF Observe
<1>4. QED
  BY <1>1, <1>2, <1>3

LEMMA ReusableIsOne ==
    ASSUME Base
    PROVE  Reusable \in DOMAIN sessions \cup {0}
<1> DEFINE those == {s \in DOMAIN sessions : sessions[s].status \in ActiveStatuses}
<1>1. those \subseteq Nat
  BY DEF Base, SessionTypeOK
<1>2. those # {} => Min(those) \in those
  BY <1>1, OldestIsOne
<1>3. Reusable = IF those = {} THEN 0 ELSE Min(those)
  BY DEF Reusable
<1>4. QED
  BY <1>2, <1>3

LEMMA MembersCounted ==
    ASSUME Base, NEW S, S \subseteq Users
    PROVE  Cardinality(S) \in Nat /\ IsFiniteSet(S)
BY FS_Subset, FS_CardinalityType DEF Base, SessionAssumption

LEMMA ActiveCounted ==
    ASSUME Base, NEW s
    PROVE  Cardinality(ActiveOf(s)) \in Nat
<1>1. IsFiniteSet(DOMAIN envs)
  <2>1. Len(envs) \in Nat /\ DOMAIN envs = 1 .. Len(envs)
    BY DEF Base, SessionTypeOK
  <2>2. QED
    BY <2>1, FS_Interval
<1>2. ActiveOf(s) \subseteq DOMAIN envs
  BY DEF ActiveOf
<1>3. QED
  BY <1>1, <1>2, FS_Subset, FS_CardinalityType

-----------------------------------------------------------------------------
(***************************************************************************)
(* Every step keeps it.                                                    *)
(***************************************************************************)

\* The parts of the type that a step of an actor leaves to others.
Counters ==
    /\ calls \in 0 .. MaxCalls /\ faults \in 0 .. MaxFaults
    /\ crossed \cup crowded \cup upset \subseteq DOMAIN sessions

Tables ==
    /\ envs \in Seq(Env) /\ Len(envs) <= MaxEnvs
    /\ sessions \in Seq(Session) /\ Len(sessions) <= Len(envs)
    /\ pods \subseteq DOMAIN envs

\* What a role says of the rows.
Names(r) ==
    /\ r.env \in DOMAIN envs \cup {0} /\ r.primary \in DOMAIN envs \cup {0}
    /\ r.session \in DOMAIN sessions \cup {0}

\* A step of actor a that moves no row.
LEMMA ActorBase ==
    ASSUME Base, Steady, Tables', Counters', NEW a \in Actors, actor' \in [Actors -> Role],
           \A b \in Actors : b # a => actor'[b] = actor[b], Names(actor[a])', Knows(a)',
           Primaries'
    PROVE  Base'
<1>1. ASSUME NEW b \in Actors PROVE Names(actor[b])'
  <2>1. CASE b = a
    BY <2>1
  <2>2. CASE b # a
    <3>1. Names(actor[b]) /\ actor'[b] = actor[b]
      BY <2>2 DEF Base, SessionTypeOK, Names
    <3>2. QED
      BY <3>1 DEF Names, Steady
  <2>3. QED
    BY <2>1, <2>2
<1>2. SessionTypeOK'
  BY <1>1 DEF SessionTypeOK, Tables, Counters, Names
<1>3. QED
  BY <1>2, BaseStep

\* A step of actor a that changes no row but may change pods.
LEMMA QuietBase ==
    ASSUME Base, UNCHANGED <<envs, sessions>>, pods' \subseteq DOMAIN envs, Counters',
           NEW a \in Actors, actor' \in [Actors -> Role],
           \A b \in Actors : b # a => actor'[b] = actor[b], Names(actor[a])', Knows(a)'
    PROVE  Base'
<1>1. Steady /\ Tables'
  BY DEF Base, SessionTypeOK, Tables, Steady
<1>2. Primaries'
  BY <1>1, PrimariesStay
<1>3. QED
  BY <1>1, <1>2, ActorBase

\* A step of actor a that sets the status of environment i.
LEMMA StatusBase ==
    ASSUME Base, NEW i \in DOMAIN envs, NEW state \in Status, SetStatus(i, state),
           UNCHANGED <<sessions, pods>>, Counters',
           NEW a \in Actors, actor' \in [Actors -> Role],
           \A b \in Actors : b # a => actor'[b] = actor[b], Names(actor[a])', Knows(a)'
    PROVE  Base'
<1>1. /\ envs' \in Seq(Env) /\ Len(envs') = Len(envs) /\ DOMAIN envs' = DOMAIN envs
      /\ \A j \in DOMAIN envs :
          envs'[j].session = envs[j].session /\ envs'[j].runtime = envs[j].runtime
  BY StatusSet DEF Base
<1>2. Steady /\ Tables'
  BY <1>1 DEF Base, SessionTypeOK, Tables, Steady
<1>3. Primaries'
  BY <1>2, PrimariesStay
<1>4. QED
  BY <1>2, <1>3, ActorBase

\* Where environment i and its session are.
LEMMA EnvPlaces ==
    ASSUME Base, NEW i \in DOMAIN envs
    PROVE  /\ envs[i].session \in DOMAIN sessions /\ envs[i].user \in Users
           /\ envs[i].runtime \in DOMAIN envs /\ envs[i].status \in Status
           /\ DOMAIN sessions \subseteq 1 .. MaxEnvs /\ DOMAIN envs \subseteq 1 .. MaxEnvs
<1>1. MaxEnvs \in Nat
  BY DEF Base, SessionAssumption
<1>2. envs \in Seq(Env) /\ Len(envs) <= MaxEnvs /\ sessions \in Seq(Session)
      /\ Len(sessions) <= Len(envs)
  BY DEF Base, SessionTypeOK
<1>3. envs[i] \in Env /\ envs[i].session \in DOMAIN sessions /\ envs[i].runtime \in DOMAIN envs
  BY <1>2 DEF Base, Rows
<1>4. QED
  BY <1>1, <1>2, <1>3, SMTT(40) DEF Env

(* A request that only sets the actor to work.                             *)
LEMMA BeginBase ==
    ASSUME Base, NEW a \in Actors, NEW i \in DOMAIN envs,
           NEW at \in {"detaching", "deleting", "pausing", "reviving"},
           Enter(a, envs[i].session, at), Begin(a, i, at),
           upset' \subseteq upset \cup {envs[i].session},
           UNCHANGED <<envs, sessions, faults>>, pods' \subseteq DOMAIN envs
    PROVE  Base'
<1>1. envs[i].session \in DOMAIN sessions /\ envs[i].user \in Users
  BY EnvPlaces
<1>2. at \in Points
  BY DEF Points
<1>3. /\ actor' \in [Actors -> Role]
      /\ actor'[a].at = at /\ actor'[a].env = i /\ actor'[a].session = envs[i].session
      /\ actor'[a].user = envs[i].user /\ actor'[a].then = "idle" /\ actor'[a].primary = 0
      /\ \A b \in Actors : b # a => actor'[b] = actor[b]
  BY <1>2, Begins
<1>4. crossed' \cup crowded' \subseteq DOMAIN sessions
  BY <1>1, ObserverTyped DEF Enter
<1>5. calls' \in 0 .. MaxCalls
  <2>1. MaxCalls \in Nat /\ calls \in 0 .. MaxCalls
    BY DEF Base, SessionAssumption, SessionTypeOK
  <2>2. QED
    BY <2>1 DEF Enter
<1>6. Counters'
  BY <1>1, <1>4, <1>5 DEF Counters, Base, SessionTypeOK
<1>7. Names(actor[a])' /\ Knows(a)'
  BY <1>1, <1>3 DEF Names, Knows, Provisions, OnEnv, Ending
<1>8. QED
  BY <1>3, <1>6, <1>7, QuietBase

LEMMA CreateBase ==
    ASSUME Base, NEW a \in Actors, NEW u \in Users, Create(a, u)
    PROVE  Base'
<1> DEFINE s == IF Reusable # 0 /\ HasRoom(Reusable) THEN Reusable ELSE 0
           at == IF s # 0 THEN "attaching" ELSE "founding"
<1>1. /\ Enter(a, s, at)
      /\ actor' = [actor EXCEPT ![a] = [Idle EXCEPT !.at = at, !.session = s, !.user = u]]
      /\ UNCHANGED <<envs, sessions, pods, faults, upset>>
  BY DEF Create
<1>2. s \in DOMAIN sessions \cup {0}
  BY ReusableIsOne
<1> HIDE DEF s
<1>3. /\ at \in Points /\ (s # 0 => at = "attaching") /\ (s = 0 => at = "founding")
  BY DEF Points
<1> HIDE DEF at
<1>4. s \in 0 .. MaxEnvs /\ 0 \in 0 .. MaxEnvs
  <2>1. MaxEnvs \in Nat
    BY DEF Base, SessionAssumption
  <2>2. sessions \in Seq(Session) /\ Len(sessions) <= Len(envs) /\ Len(envs) <= MaxEnvs
        /\ Len(envs) \in Nat
    BY DEF Base, SessionTypeOK
  <2>3. QED
    BY <1>2, <2>1, <2>2
<1> DEFINE r == [Idle EXCEPT !.at = at, !.session = s, !.user = u]
<1>5. /\ r \in Role /\ r.at = at /\ r.env = 0 /\ r.session = s /\ r.user = u
      /\ r.then = "idle" /\ r.primary = 0
  <2>1. Idle \in Role
    BY IdleIsRole DEF Base
  <2>2. QED
    BY <1>3, <1>4, <2>1 DEF Role, Idle
<1>6. /\ actor' \in [Actors -> Role] /\ actor'[a] = r
      /\ \A b \in Actors : b # a => actor'[b] = actor[b]
  BY <1>1, <1>5, ActorTurns DEF Base, SessionTypeOK
<1> HIDE DEF r
<1>7. crossed' \cup crowded' \subseteq DOMAIN sessions
  BY <1>1, <1>2, ObserverTyped DEF Enter
<1>8. calls' \in 0 .. MaxCalls
  <2>1. MaxCalls \in Nat /\ calls \in 0 .. MaxCalls
    BY DEF Base, SessionAssumption, SessionTypeOK
  <2>2. QED
    BY <1>1, <2>1 DEF Enter
<1>9. Counters'
  BY <1>1, <1>7, <1>8 DEF Counters, Base, SessionTypeOK
<1>10. Names(actor[a])' /\ Knows(a)'
  BY <1>1, <1>2, <1>3, <1>5, <1>6 DEF Names, Knows, Provisions, OnEnv, Ending
<1>11. pods' \subseteq DOMAIN envs
  BY <1>1 DEF Base, SessionTypeOK
<1>12. QED
  BY <1>1, <1>6, <1>9, <1>10, <1>11, QuietBase

(* Two rows are added: what was known of the others stays.                 *)
LEMMA AttachBase ==
    ASSUME Base, NEW a \in Actors, Attach(a)
    PROVE  Base'
<1> DEFINE s == actor[a].session
           p == envs[sessions[s].primary]
           e == [p EXCEPT !.user = actor[a].user, !.session = s]
           i == Len(envs) + 1
           r == [actor[a] EXCEPT !.at = "joining", !.env = i]
<1>1. /\ actor[a].at = "attaching" /\ Len(envs) < MaxEnvs
      /\ envs' = Append(envs, e) /\ UNCHANGED <<sessions, pods, calls, faults, sessionObservers>>
      /\ actor' = [actor EXCEPT ![a].at = "joining", ![a].env = Len(envs) + 1]
  BY DEF Attach
<1>2. s \in DOMAIN sessions /\ actor[a].user \in Users /\ actor[a].then \in Then
      /\ actor[a].primary \in DOMAIN envs \cup {0}
  BY <1>1 DEF Base, Knows, SessionTypeOK, Role
<1>3. sessions[s].primary \in DOMAIN envs /\ p.session = s
  BY <1>2 DEF Base, Primaries
<1>4. envs \in Seq(Env) /\ p \in Env /\ MaxEnvs \in Nat
  BY <1>3 DEF Base, SessionTypeOK, SessionAssumption
<1>5. e \in Env /\ e.user \in Users /\ e.session = s /\ e.runtime = p.runtime
      /\ e.status = p.status
  BY <1>2, <1>3, <1>4 DEF Env
<1>6. actor \in [Actors -> Role]
  BY DEF Base, SessionTypeOK
<1>7. i \in 0 .. MaxEnvs /\ i \in 1 .. MaxEnvs
  BY <1>1, <1>4
<1>8. /\ r \in Role /\ r.at = "joining" /\ r.env = i /\ r.session = s
      /\ r.user = actor[a].user /\ r.then = actor[a].then /\ r.primary = actor[a].primary
  BY <1>6, <1>7 DEF Role, Points
<1>9. actor' = [actor EXCEPT ![a] = r]
  BY <1>1, <1>6
<1> HIDE DEF e, r, i
<1>10. /\ actor' \in [Actors -> Role] /\ actor'[a] = r
       /\ \A b \in Actors : b # a => actor'[b] = actor[b]
  BY <1>6, <1>8, <1>9, ActorTurns
<1>11. /\ envs' \in Seq(Env) /\ Len(envs') = i /\ DOMAIN envs' = DOMAIN envs \cup {i}
       /\ i \notin DOMAIN envs /\ envs'[i] = e /\ \A j \in DOMAIN envs : envs'[j] = envs[j]
  BY <1>1, <1>4, <1>5, RowAdded DEF i
<1>12. p.runtime \in DOMAIN envs /\ envs[p.runtime].session = s
       /\ \A j \in DOMAIN envs : envs[j].session = s => envs[j].runtime = p.runtime
  BY <1>3 DEF Base, Rows
<1> HIDE DEF p
<1>13. Rows'
  <2>1. ASSUME NEW j \in DOMAIN envs'
        PROVE  /\ envs'[j].session \in DOMAIN sessions /\ envs'[j].runtime \in DOMAIN envs
               /\ envs[envs'[j].runtime].session = envs'[j].session
    BY <1>2, <1>5, <1>11, <1>12 DEF Base, Rows
  <2>2. ASSUME NEW j \in DOMAIN envs', NEW k \in DOMAIN envs',
               envs'[j].session = envs'[k].session
        PROVE  envs'[j].runtime = envs'[k].runtime
    BY <1>2, <1>5, <1>11, <1>12, <2>2 DEF Base, Rows
  <2>3. QED
    BY <1>1, <1>11, <2>1, <2>2, ZenonT(60) DEF Rows
<1>14. Primaries'
  BY <1>1, <1>11 DEF Base, Primaries
<1>15. actor[a].then = "idle"
  BY <1>1 DEF Base, Knows
<1>16. ASSUME NEW b \in Actors PROVE Knows(b)'
  <2>1. CASE b = a
    BY <1>2, <1>5, <1>8, <1>10, <1>11, <1>15, <2>1 DEF Knows, Provisions
  <2>2. CASE b # a
    <3>1. Knows(b) /\ actor'[b] = actor[b]
      BY <1>10, <2>2 DEF Base
    <3>2. QED
      BY <1>1, <1>11, <3>1 DEF Knows, Provisions, OnEnv
  <2>3. QED
    BY <2>1, <2>2
<1>17. SessionTypeOK'
  <2>1. Len(envs') <= MaxEnvs /\ Len(sessions') <= Len(envs')
    <3>1. Len(sessions) <= Len(envs) /\ Len(sessions) \in Nat /\ Len(envs) \in Nat
      BY DEF Base, SessionTypeOK
    <3>2. QED
      BY <1>1, <1>4, <1>7, <1>11, <3>1 DEF i
  <2>2. ASSUME NEW b \in Actors PROVE Names(actor[b])'
    <3>1. CASE b = a
      BY <1>1, <1>2, <1>8, <1>10, <1>11, <3>1 DEF Names
    <3>2. CASE b # a
      BY <1>1, <1>10, <1>11, <3>2 DEF Names, Base, SessionTypeOK
    <3>3. QED
      BY <3>1, <3>2
  <2>3. pods' \subseteq DOMAIN envs' /\ calls' \in 0 .. MaxCalls /\ faults' \in 0 .. MaxFaults
        /\ crossed' \cup crowded' \cup upset' \subseteq DOMAIN sessions'
        /\ sessions' \in Seq(Session)
    BY <1>1, <1>11 DEF Base, SessionTypeOK, sessionObservers
  <2>4. QED
    BY <1>10, <1>11, <2>1, <2>2, <2>3 DEF SessionTypeOK, Names
<1>18. QED
  BY <1>13, <1>14, <1>16, <1>17 DEF Base

LEMMA FoundBase ==
    ASSUME Base, NEW a \in Actors, Found(a)
    PROVE  Base'
<1> DEFINE i == Len(envs) + 1
           s == Len(sessions) + 1
           x == [status |-> "creating", primary |-> i, count |-> 0,
                 member |-> [u \in Users |-> "none"]]
           e == [user |-> actor[a].user, session |-> s, runtime |-> i,
                 status |-> "creating"]
           r == [actor[a] EXCEPT !.at = "joining", !.env = i, !.session = s,
                                 !.then = "provisioning"]
<1>1. /\ actor[a].at = "founding" /\ Len(envs) < MaxEnvs
      /\ sessions' = Append(sessions, x) /\ envs' = Append(envs, e)
      /\ actor' = [actor EXCEPT ![a] = r]
      /\ UNCHANGED <<pods, calls, faults, sessionObservers>>
  BY DEF Found
<1>2. /\ envs \in Seq(Env) /\ sessions \in Seq(Session) /\ MaxEnvs \in Nat
      /\ Len(sessions) <= Len(envs) /\ actor \in [Actors -> Role]
  BY DEF Base, SessionTypeOK, SessionAssumption
<1>3. actor[a].user \in Users /\ actor[a].primary \in DOMAIN envs \cup {0}
  BY <1>1 DEF Base, Knows, SessionTypeOK
<1>4. i \in 1 .. MaxEnvs /\ s \in 1 .. MaxEnvs /\ i \in 0 .. MaxEnvs /\ s \in 0 .. MaxEnvs
  BY <1>1, <1>2
<1>5. x \in Session /\ x.primary = i
  BY <1>4 DEF Session, Status, ActiveStatuses
<1>6. e \in Env /\ e.session = s /\ e.runtime = i
  BY <1>3, <1>4 DEF Env, Status, ActiveStatuses
<1>7. /\ r \in Role /\ r.at = "joining" /\ r.env = i /\ r.session = s
      /\ r.user = actor[a].user /\ r.then = "provisioning" /\ r.primary = actor[a].primary
  BY <1>2, <1>4, ZenonT(60) DEF Role, Points, Then
<1> HIDE DEF x, e, r
<1>8. /\ actor' \in [Actors -> Role] /\ actor'[a] = r
      /\ \A b \in Actors : b # a => actor'[b] = actor[b]
  BY <1>1, <1>2, <1>7, ActorTurns
<1>9. /\ envs' \in Seq(Env) /\ Len(envs') = Len(envs) + 1 /\ DOMAIN envs' = DOMAIN envs \cup {i}
      /\ i \notin DOMAIN envs /\ envs'[i] = e /\ \A j \in DOMAIN envs : envs'[j] = envs[j]
  BY <1>1, <1>2, <1>6, RowAdded
<1>10. /\ sessions' \in Seq(Session) /\ Len(sessions') = Len(sessions) + 1
       /\ DOMAIN sessions' = DOMAIN sessions \cup {s} /\ s \notin DOMAIN sessions
       /\ sessions'[s] = x /\ \A t \in DOMAIN sessions : sessions'[t] = sessions[t]
  BY <1>1, <1>2, <1>5, RowAdded
<1>11. Len(envs') <= MaxEnvs /\ Len(sessions') <= Len(envs')
  <2>1. Len(envs) \in Nat /\ Len(sessions) \in Nat
    BY <1>2
  <2>2. QED
    BY <1>1, <1>2, <1>9, <1>10, <2>1
<1> HIDE DEF i, s
<1>12. Rows'
  <2>1. ASSUME NEW j \in DOMAIN envs'
        PROVE  /\ envs'[j].session \in DOMAIN sessions' /\ envs'[j].runtime \in DOMAIN envs'
               /\ envs'[envs'[j].runtime].session = envs'[j].session
    BY <1>6, <1>9, <1>10 DEF Base, Rows
  <2>2. ASSUME NEW j \in DOMAIN envs', NEW k \in DOMAIN envs',
               envs'[j].session = envs'[k].session
        PROVE  envs'[j].runtime = envs'[k].runtime
    BY <1>6, <1>9, <1>10, <2>2 DEF Base, Rows
  <2>3. QED
    BY <2>1, <2>2 DEF Rows
<1>13. Primaries'
  BY <1>5, <1>6, <1>9, <1>10 DEF Base, Primaries
<1>14. ASSUME NEW b \in Actors PROVE Knows(b)'
  <2>1. CASE b = a
    BY <1>3, <1>6, <1>7, <1>8, <1>9, <1>10, <2>1 DEF Knows, Provisions
  <2>2. CASE b # a
    <3>1. Knows(b) /\ actor'[b] = actor[b]
      BY <1>8, <2>2 DEF Base
    <3>2. QED
      BY <1>9, <1>10, <3>1 DEF Knows, Provisions, OnEnv
  <2>3. QED
    BY <2>1, <2>2
<1>15. SessionTypeOK'
  <2>1. ASSUME NEW b \in Actors PROVE Names(actor[b])'
    <3>1. CASE b = a
      BY <1>3, <1>7, <1>8, <1>9, <1>10, <3>1 DEF Names
    <3>2. CASE b # a
      BY <1>8, <1>9, <1>10, <3>2 DEF Names, Base, SessionTypeOK
    <3>3. QED
      BY <3>1, <3>2
  <2>2. pods' \subseteq DOMAIN envs' /\ calls' \in 0 .. MaxCalls /\ faults' \in 0 .. MaxFaults
        /\ crossed' \cup crowded' \cup upset' \subseteq DOMAIN sessions'
    BY <1>1, <1>9, <1>10 DEF Base, SessionTypeOK, sessionObservers
  <2>3. QED
    BY <1>8, <1>9, <1>10, <1>11, <2>1, <2>2 DEF SessionTypeOK, Names
<1>16. QED
  BY <1>12, <1>13, <1>14, <1>15 DEF Base

(* A change to one session row.                                            *)
LEMMA SessionSet ==
    ASSUME Base, NEW s \in DOMAIN sessions, NEW x \in Session,
           sessions' = [sessions EXCEPT ![s] = x]
    PROVE  /\ sessions' \in Seq(Session) /\ Len(sessions') = Len(sessions)
           /\ DOMAIN sessions' = DOMAIN sessions
           /\ \A t \in DOMAIN sessions : sessions'[t] = IF t = s THEN x ELSE sessions[t]
BY RowReplaced DEF Base, SessionTypeOK

LEMMA MemberSet ==
    ASSUME Base, NEW s \in DOMAIN sessions, NEW u \in Users,
           NEW join \in {"none", "joined", "left"},
           sessions' = [sessions EXCEPT ![s].member[u] = join]
    PROVE  /\ sessions' \in Seq(Session) /\ Len(sessions') = Len(sessions)
           /\ DOMAIN sessions' = DOMAIN sessions
           /\ \A t \in DOMAIN sessions :
               /\ sessions'[t].primary = sessions[t].primary
               /\ sessions'[t].status = sessions[t].status
               /\ sessions'[t].count = sessions[t].count
               /\ t # s => sessions'[t] = sessions[t]
           /\ sessions'[s].member = [sessions[s].member EXCEPT ![u] = join]
           /\ sessions[s].member \in [Users -> {"none", "joined", "left"}]
<1> DEFINE x == [sessions[s] EXCEPT !.member = [sessions[s].member EXCEPT ![u] = join]]
<1>1. sessions \in Seq(Session) /\ sessions[s] \in Session
  BY DEF Base, SessionTypeOK
<1>2. /\ x \in Session /\ x.primary = sessions[s].primary /\ x.status = sessions[s].status
      /\ x.count = sessions[s].count /\ x.member = [sessions[s].member EXCEPT ![u] = join]
      /\ sessions[s].member \in [Users -> {"none", "joined", "left"}]
  BY <1>1 DEF Session
<1>3. sessions' = [sessions EXCEPT ![s] = x]
  BY <1>1
<1> HIDE DEF x
<1>4. QED
  BY <1>2, <1>3, SessionSet

(* A step that changes a session row and none of the environments.         *)
LEMMA SessionsBase ==
    ASSUME Base, UNCHANGED <<envs, pods>>, sessions' \in Seq(Session),
           Len(sessions') = Len(sessions), DOMAIN sessions' = DOMAIN sessions,
           Primaries', Counters', NEW a \in Actors, actor' \in [Actors -> Role],
           \A b \in Actors : b # a => actor'[b] = actor[b], Names(actor[a])', Knows(a)'
    PROVE  Base'
<1>1. Steady /\ Tables'
  BY DEF Base, SessionTypeOK, Tables, Steady
<1>2. QED
  BY <1>1, ActorBase

LEMMA SamePrimaries ==
    ASSUME Base, UNCHANGED envs, DOMAIN sessions' = DOMAIN sessions,
           \A t \in DOMAIN sessions : sessions'[t].primary = sessions[t].primary
    PROVE  Primaries'
BY DEF Base, Primaries

\* What syncing a session reads.
LEMMA SyncReads ==
    ASSUME Base, NEW s \in DOMAIN sessions
    PROVE  /\ sessions[s].primary \in DOMAIN envs /\ envs[sessions[s].primary].session = s
           /\ sessions[s].primary \in 0 .. MaxEnvs /\ sessions[s].status \in Status
           /\ Cardinality(Joined(s)) \in Nat
<1>1. sessions[s] \in Session
  BY DEF Base, SessionTypeOK
<1>2. sessions[s].primary \in DOMAIN envs /\ envs[sessions[s].primary].session = s
  BY DEF Base, Primaries
<1>3. sessions[s].primary \in 0 .. MaxEnvs
  <2>1. MaxEnvs \in Nat
    BY DEF Base, SessionAssumption
  <2>2. QED
    BY <1>1, <2>1 DEF Session
<1>4. Cardinality(Joined(s)) \in Nat
  BY MembersCounted DEF Joined
<1>5. QED
  BY <1>1, <1>2, <1>3, <1>4 DEF Session

LEMMA BindBase ==
    ASSUME Base, NEW a \in Actors, Bind(a)
    PROVE  Base'
<1> DEFINE s == actor[a].session
           u == actor[a].user
           count == Cardinality(Joined(s) \cup {u})
           state == envs[actor[a].env].status
<1>1. /\ actor[a].at = "joining"
      /\ sessions' = [sessions EXCEPT ![s].member[u] = "joined"]
      /\ Writing(a, count, sessions[s].primary, state, actor[a].then)
      /\ UNCHANGED <<envs, pods, calls, faults, sessionObservers>>
  BY DEF Bind
<1>2. /\ actor[a].env \in DOMAIN envs /\ envs[actor[a].env].session = s
      /\ u \in Users /\ actor[a].then \in {"idle", "provisioning"}
      /\ Provisions(a) => envs[actor[a].env].runtime = actor[a].env
  BY <1>1 DEF Base, Knows, OnEnv
<1>3. s \in DOMAIN sessions /\ state \in Status
  BY <1>2, EnvPlaces
<1>4. count \in Nat
  BY <1>2, MembersCounted DEF Joined
<1>5. /\ sessions[s].primary \in DOMAIN envs /\ envs[sessions[s].primary].session = s
      /\ sessions[s].primary \in 0 .. MaxEnvs
  BY <1>3, SyncReads
<1>6. actor[a].then \in Then
  BY <1>2 DEF Then
<1> HIDE DEF s, u, count, state
<1>7. /\ actor' \in [Actors -> Role] /\ actor'[a].at = "writing"
      /\ actor'[a].primary = sessions[s].primary /\ actor'[a].then = actor[a].then
      /\ actor'[a].env = actor[a].env /\ actor'[a].session = actor[a].session
      /\ \A b \in Actors : b # a => actor'[b] = actor[b]
  BY <1>1, <1>3, <1>4, <1>5, <1>6, Writes
<1>8. /\ sessions' \in Seq(Session) /\ Len(sessions') = Len(sessions)
      /\ DOMAIN sessions' = DOMAIN sessions
      /\ \A t \in DOMAIN sessions : sessions'[t].primary = sessions[t].primary
  BY <1>1, <1>2, <1>3, MemberSet
<1>9. Primaries'
  BY <1>1, <1>8, SamePrimaries
<1>10. Counters'
  BY <1>1, <1>8 DEF Base, SessionTypeOK, Counters, sessionObservers
<1>11. Names(actor[a])' /\ Knows(a)'
  BY <1>1, <1>2, <1>3, <1>5, <1>7, <1>8 DEF Names, Knows, Provisions, OnEnv, Ending, s
<1>12. QED
  BY <1>1, <1>7, <1>8, <1>9, <1>10, <1>11, SessionsBase

LEMMA WriteSessionBase ==
    ASSUME Base, NEW a \in Actors, WriteSession(a)
    PROVE  Base'
<1> DEFINE s == actor[a].session
           x == [sessions[s] EXCEPT !.count = actor[a].count, !.primary = actor[a].primary,
                                    !.status = actor[a].status]
           r == [Idle EXCEPT !.at = actor[a].then, !.env = actor[a].env,
                             !.session = actor[a].session]
<1>1. /\ actor[a].at = "writing" /\ sessions' = [sessions EXCEPT ![s] = x]
      /\ UNCHANGED <<envs, pods, calls, faults, sessionObservers>>
      /\ (actor[a].then = "idle" => Leave(a))
      /\ (actor[a].then # "idle" => actor' = [actor EXCEPT ![a] = r])
  BY DEF WriteSession
<1>2. /\ s \in DOMAIN sessions /\ actor[a].primary \in DOMAIN envs
      /\ envs[actor[a].primary].session = s /\ actor[a] \in Role /\ sessions[s] \in Session
      /\ actor[a].then # "idle" =>
           actor[a].env \in DOMAIN envs /\ envs[actor[a].env].session = s
      /\ Provisions(a) => envs[actor[a].env].runtime = actor[a].env
  BY <1>1 DEF Base, Knows, SessionTypeOK
<1>3. actor[a].primary \in 1 .. MaxEnvs
  <2>1. DOMAIN envs \subseteq 1 .. MaxEnvs
    BY <1>2, EnvPlaces
  <2>2. QED
    BY <1>2, <2>1
<1>4. x \in Session /\ x.primary = actor[a].primary
  BY <1>2, <1>3 DEF Session, Role
<1>5. Idle \in Role
  BY IdleIsRole DEF Base
<1>6. actor[a].then # "idle" =>
          /\ r \in Role /\ r.at = actor[a].then /\ r.env = actor[a].env
          /\ r.session = s /\ r.then = "idle" /\ r.primary = 0
          /\ actor[a].then \in {"provisioning", "waiting"}
  BY <1>2, <1>5 DEF Role, Idle, Then, Points
<1> HIDE DEF x, r
<1>7. /\ sessions' \in Seq(Session) /\ Len(sessions') = Len(sessions)
      /\ DOMAIN sessions' = DOMAIN sessions
      /\ \A t \in DOMAIN sessions : sessions'[t] = IF t = s THEN x ELSE sessions[t]
  BY <1>1, <1>2, <1>4, SessionSet
<1>8. Primaries'
  BY <1>1, <1>2, <1>4, <1>7 DEF Base, Primaries
<1>9. Counters'
  BY <1>1, <1>7 DEF Base, SessionTypeOK, Counters, sessionObservers
<1>10. CASE actor[a].then = "idle"
  <2>1. /\ actor' \in [Actors -> Role] /\ actor'[a] = Idle
        /\ \A b \in Actors : b # a => actor'[b] = actor[b]
    BY <1>1, <1>10, Leaves
  <2>2. Names(actor[a])' /\ Knows(a)'
    BY <2>1 DEF Names, Knows, Provisions, OnEnv, Ending, Idle
  <2>3. QED
    BY <1>1, <1>7, <1>8, <1>9, <2>1, <2>2, SessionsBase
<1>11. CASE actor[a].then # "idle"
  <2>1. /\ actor' \in [Actors -> Role] /\ actor'[a] = r
        /\ \A b \in Actors : b # a => actor'[b] = actor[b]
    BY <1>1, <1>6, <1>11, ActorTurns DEF Base, SessionTypeOK
  <2>2. Names(actor[a])' /\ Knows(a)'
    BY <1>1, <1>2, <1>6, <1>7, <1>11, <2>1 DEF Names, Knows, Provisions, OnEnv, Ending
  <2>3. QED
    BY <1>1, <1>7, <1>8, <1>9, <2>1, <2>2, SessionsBase
<1>12. QED
  BY <1>10, <1>11

(* A status is set, and the session is about to follow.                    *)
LEMMA SyncBase ==
    ASSUME Base, NEW a \in Actors, actor[a].at \in OnEnv,
           NEW state \in Status, NEW then \in {"idle", "waiting"},
           SetStatus(actor[a].env, state), SyncSession(a, state, then),
           UNCHANGED <<sessions, pods>>, Counters'
    PROVE  Base'
<1> DEFINE s == actor[a].session
           n == Cardinality(Joined(s))
<1>1. Writing(a, n, sessions[s].primary, state, then)
  BY DEF SyncSession
<1>2. actor[a].env \in DOMAIN envs /\ envs[actor[a].env].session = s
  BY DEF Base, Knows
<1>3. s \in DOMAIN sessions
  BY <1>2, EnvPlaces
<1>4. /\ sessions[s].primary \in DOMAIN envs /\ envs[sessions[s].primary].session = s
      /\ sessions[s].primary \in 0 .. MaxEnvs /\ n \in Nat
  BY <1>3, SyncReads
<1>5. then \in Then
  BY DEF Then
<1> HIDE DEF n
<1>6. /\ actor' \in [Actors -> Role] /\ actor'[a].at = "writing"
      /\ actor'[a].primary = sessions[s].primary /\ actor'[a].then = then
      /\ actor'[a].env = actor[a].env /\ actor'[a].session = s
      /\ \A b \in Actors : b # a => actor'[b] = actor[b]
  BY <1>1, <1>4, <1>5, Writes
<1> HIDE DEF s
<1>7. /\ DOMAIN envs' = DOMAIN envs
      /\ \A j \in DOMAIN envs : envs'[j].session = envs[j].session
  BY <1>2, StatusSet DEF Base
<1>8. Names(actor[a])' /\ Knows(a)'
  BY <1>2, <1>3, <1>4, <1>6, <1>7 DEF Names, Knows, Provisions, OnEnv, Ending
<1>9. QED
  BY <1>2, <1>6, <1>8, StatusBase

(* A status is set, and the actor goes on, or is done.                     *)
LEMMA StatusGoes ==
    ASSUME Base, NEW a \in Actors, actor[a].at \in OnEnv, NEW state \in Status,
           SetStatus(actor[a].env, state),
           \/ Leave(a)
           \/ actor[a].at = "detaching" /\ GoTo(a, "leaving"),
           UNCHANGED <<sessions, pods>>, Counters'
    PROVE  Base'
<1>1. /\ actor[a].env \in DOMAIN envs /\ envs[actor[a].env].session = actor[a].session
      /\ actor[a].at = "detaching" => actor[a].user \in Users
      /\ Names(actor[a])
  BY DEF Base, Knows, SessionTypeOK, Names
<1>2. /\ DOMAIN envs' = DOMAIN envs
      /\ \A j \in DOMAIN envs : envs'[j].session = envs[j].session
  BY <1>1, StatusSet DEF Base
<1>3. CASE Leave(a)
  <2>1. /\ actor' \in [Actors -> Role] /\ actor'[a] = Idle
        /\ \A b \in Actors : b # a => actor'[b] = actor[b]
    BY <1>3, Leaves
  <2>2. Names(actor[a])' /\ Knows(a)'
    BY <2>1 DEF Names, Knows, Provisions, OnEnv, Ending, Idle
  <2>3. QED
    BY <1>1, <2>1, <2>2, StatusBase
<1>4. CASE actor[a].at = "detaching" /\ GoTo(a, "leaving")
  <2>1. "leaving" \in Points
    BY DEF Points
  <2>2. /\ actor' \in [Actors -> Role] /\ actor'[a].at = "leaving"
        /\ actor'[a].env = actor[a].env /\ actor'[a].session = actor[a].session
        /\ actor'[a].user = actor[a].user /\ actor'[a].then = actor[a].then
        /\ actor'[a].primary = actor[a].primary
        /\ \A b \in Actors : b # a => actor'[b] = actor[b]
    BY <1>4, <2>1, Goes
  <2>3. Names(actor[a])' /\ Knows(a)'
    BY <1>1, <1>2, <1>4, <2>2 DEF Names, Knows, Provisions, OnEnv, Ending
  <2>4. QED
    BY <1>1, <2>2, <2>3, StatusBase
<1>5. QED
  BY <1>3, <1>4

(* Pods are deleted or created, and the actor goes on.                     *)
LEMMA PodsBase ==
    ASSUME Base, NEW a \in Actors, actor[a].at \in OnEnv,
           NEW at \in {"closing", "parking", "waiting"}, GoTo(a, at),
           UNCHANGED <<envs, sessions>>, pods' \subseteq DOMAIN envs, Counters'
    PROVE  Base'
<1>1. at \in Points
  BY DEF Points
<1>2. /\ actor' \in [Actors -> Role] /\ actor'[a].at = at
      /\ actor'[a].env = actor[a].env /\ actor'[a].session = actor[a].session
      /\ actor'[a].primary = actor[a].primary
      /\ \A b \in Actors : b # a => actor'[b] = actor[b]
  BY <1>1, Goes
<1>3. /\ actor[a].env \in DOMAIN envs /\ envs[actor[a].env].session = actor[a].session
      /\ Names(actor[a])
  BY DEF Base, Knows, SessionTypeOK, Names
<1>4. Names(actor[a])' /\ Knows(a)'
  BY <1>2, <1>3 DEF Names, Knows, Provisions, OnEnv, Ending
<1>5. QED
  BY <1>2, <1>4, QuietBase

\* Counters after a step that is not observed.
LEMMA CountersStay ==
    ASSUME Base, UNCHANGED <<calls, sessionObservers>>, DOMAIN sessions' = DOMAIN sessions,
           faults' = faults \/ (faults < MaxFaults /\ faults' = faults + 1)
    PROVE  Counters'
<1>1. MaxFaults \in Nat /\ faults \in 0 .. MaxFaults
  BY DEF Base, SessionAssumption, SessionTypeOK
<1>2. faults' \in 0 .. MaxFaults
  BY <1>1
<1>3. QED
  BY <1>2 DEF Base, SessionTypeOK, Counters, sessionObservers

LEMMA ProvisionBase ==
    ASSUME Base, NEW a \in Actors, Provision(a)
    PROVE  Base'
<1>1. Counters'
  <2>1. faults' = faults \/ (faults < MaxFaults /\ faults' = faults + 1)
    BY DEF Provision
  <2>2. UNCHANGED <<sessions, calls, sessionObservers>>
    BY DEF Provision
  <2>3. QED
    BY <2>1, <2>2, CountersStay
<1>2. actor[a].at \in OnEnv /\ actor[a].env \in DOMAIN envs /\ pods \subseteq DOMAIN envs
  BY DEF Provision, Base, Knows, OnEnv, SessionTypeOK
<1>3. CASE pods' = pods \cup {actor[a].env} /\ GoTo(a, "waiting") /\ UNCHANGED <<envs, sessions>>
  BY <1>1, <1>2, <1>3, PodsBase
<1>4. CASE SetStatus(actor[a].env, "failed") /\ Leave(a) /\ UNCHANGED <<pods, sessions>>
  <2>1. "failed" \in Status
    BY DEF Status
  <2>2. QED
    BY <1>1, <1>2, <1>4, <2>1, StatusGoes
<1>5. QED
  BY <1>3, <1>4 DEF Provision

LEMMA ReadyBase ==
    ASSUME Base, NEW a \in Actors, Ready(a)
    PROVE  Base'
<1> DEFINE i == actor[a].env
<1>1. /\ actor[a].at \in OnEnv /\ i \in DOMAIN envs /\ envs[i].session = actor[a].session
  BY DEF Ready, Base, Knows, OnEnv
<1>2. actor[a].session \in DOMAIN sessions
  BY <1>1, EnvPlaces
<1>3. crossed' \cup crowded' \subseteq DOMAIN sessions /\ UNCHANGED <<sessions, pods, calls>>
  BY <1>2, ObserverTyped DEF Ready
<1>4. upset' \subseteq DOMAIN sessions /\ faults' \in 0 .. MaxFaults
  <2>1. upset \subseteq DOMAIN sessions /\ faults \in 0 .. MaxFaults /\ MaxFaults \in Nat
    BY DEF Base, SessionTypeOK, SessionAssumption
  <2>2. upset' \subseteq upset \cup {actor[a].session}
    BY DEF Ready, Upset
  <2>3. faults' = faults \/ (faults < MaxFaults /\ faults' = faults + 1)
    BY DEF Ready
  <2>4. QED
    BY <1>2, <2>1, <2>2, <2>3
<1>5. Counters'
  BY <1>3, <1>4 DEF Base, SessionTypeOK, Counters
<1>6. {"running", "failed"} \subseteq Status
  BY DEF Status, ActiveStatuses
<1>7. CASE SetStatus(i, "running") /\ SyncSession(a, "running", "idle")
  BY <1>1, <1>3, <1>5, <1>6, <1>7, SyncBase
<1>8. CASE SetStatus(i, "failed") /\ Leave(a)
  BY <1>1, <1>3, <1>5, <1>6, <1>8, StatusGoes
<1>9. QED
  BY <1>7, <1>8 DEF Ready

LEMMA DeletesBase ==
    ASSUME Base, NEW a \in Actors, Delete(a) \/ PauseDeletes(a)
    PROVE  Base'
<1>1. PICK at \in {"closing", "parking"} : DeletePods(a, at)
  BY DEF Delete, PauseDeletes
<1>2. actor[a].at \in OnEnv
  BY DEF Delete, PauseDeletes, OnEnv, Ending
<1>3. /\ GoTo(a, at) /\ UNCHANGED <<envs, sessions, calls, sessionObservers>>
      /\ pods' \subseteq pods
      /\ faults' = faults \/ (faults < MaxFaults /\ faults' = faults + 1)
  BY <1>1 DEF DeletePods
<1>4. Counters'
  BY <1>3, CountersStay
<1>5. pods' \subseteq DOMAIN envs
  BY <1>3 DEF Base, SessionTypeOK
<1>6. QED
  BY <1>2, <1>3, <1>4, <1>5, PodsBase

LEMMA EndsBase ==
    ASSUME Base, NEW a \in Actors, Detach(a) \/ Close(a) \/ Park(a) \/ Revive(a)
    PROVE  Base'
<1>1. /\ actor[a].at \in OnEnv
      /\ UNCHANGED <<sessions, pods, calls, faults, sessionObservers>>
  BY DEF Detach, Close, Park, Revive, OnEnv, Ending
<1>2. Counters'
  BY <1>1, CountersStay
<1>3. {"terminated", "paused", "creating"} \subseteq Status
  BY DEF Status, ActiveStatuses
<1>4. CASE Detach(a)
  BY <1>1, <1>2, <1>3, <1>4, StatusGoes DEF Detach
<1>5. CASE Close(a)
  BY <1>1, <1>2, <1>3, <1>5, SyncBase DEF Close
<1>6. CASE Park(a)
  BY <1>1, <1>2, <1>3, <1>6, SyncBase DEF Park
<1>7. CASE Revive(a)
  BY <1>1, <1>2, <1>3, <1>7, SyncBase DEF Revive
<1>8. QED
  BY <1>4, <1>5, <1>6, <1>7

(* The next primary environment is one of the session.                     *)
LEMMA SuccessorIsOne ==
    ASSUME Base, NEW s \in DOMAIN sessions, NEW i \in DOMAIN envs
    PROVE  /\ Successor(s, i) \in DOMAIN envs /\ envs[Successor(s, i)].session = s
           /\ Successor(s, i) \in 0 .. MaxEnvs
           /\ sessions[s].primary = i /\ ActiveOf(s) \ {i} # {} =>
                  Successor(s, i) \in ActiveOf(s) \ {i}
           /\ sessions[s].primary # i => Successor(s, i) = sessions[s].primary
<1> DEFINE others == ActiveOf(s) \ {i}
<1>1. others \subseteq DOMAIN envs /\ DOMAIN envs \subseteq 1 .. MaxEnvs
  BY EnvPlaces DEF ActiveOf
<1>2. \A j \in others : envs[j].session = s
  BY DEF ActiveOf
<1>3. others # {} => Min(others) \in others
  <2>1. others \subseteq Nat
    BY <1>1
  <2>2. QED
    BY <2>1, OldestIsOne
<1>4. sessions[s].primary \in DOMAIN envs /\ envs[sessions[s].primary].session = s
  BY SyncReads
<1>5. Successor(s, i) = IF sessions[s].primary = i /\ others # {} THEN Min(others)
                        ELSE sessions[s].primary
  BY DEF Successor
<1> HIDE DEF others
<1>6. /\ Successor(s, i) \in DOMAIN envs /\ envs[Successor(s, i)].session = s
      /\ sessions[s].primary = i /\ others # {} => Successor(s, i) \in others
      /\ sessions[s].primary # i => Successor(s, i) = sessions[s].primary
  BY <1>1, <1>2, <1>3, <1>4, <1>5
<1>7. Successor(s, i) \in 0 .. MaxEnvs
  BY <1>1, <1>6
<1>8. QED
  BY <1>6, <1>7 DEF others

LEMMA DepartBase ==
    ASSUME Base, NEW a \in Actors, Depart(a)
    PROVE  Base'
<1> DEFINE s == actor[a].session
           u == actor[a].user
           members == Joined(s) \ {u}
           count == IF members = {} THEN Cardinality(ActiveOf(s)) ELSE Cardinality(members)
           p == Successor(s, actor[a].env)
           join == IF sessions[s].member[u] = "none" THEN "none" ELSE "left"
<1>1. /\ actor[a].at = "leaving"
      /\ sessions' = [sessions EXCEPT ![s].member[u] = join]
      /\ Writing(a, count, p, "running", "idle")
      /\ UNCHANGED <<envs, pods, calls, faults, sessionObservers>>
  BY DEF Depart
<1>2. /\ actor[a].env \in DOMAIN envs /\ envs[actor[a].env].session = s
      /\ u \in Users
  BY <1>1 DEF Base, Knows, OnEnv, Ending
<1>3. s \in DOMAIN sessions
  BY <1>2, EnvPlaces
<1>4. count \in Nat
  <2>1. Cardinality(members) \in Nat
    BY MembersCounted DEF Joined
  <2>2. QED
    BY <2>1, ActiveCounted
<1>5. p \in DOMAIN envs /\ envs[p].session = s /\ p \in 0 .. MaxEnvs
  BY <1>2, <1>3, SuccessorIsOne
<1>6. "idle" \in Then /\ "running" \in Status /\ join \in {"none", "joined", "left"}
  BY DEF Then, Status, ActiveStatuses
<1> HIDE DEF s, u, count, p, join, members
<1>7. /\ actor' \in [Actors -> Role] /\ actor'[a].at = "writing"
      /\ actor'[a].primary = p /\ actor'[a].then = "idle"
      /\ actor'[a].env = actor[a].env /\ actor'[a].session = actor[a].session
      /\ \A b \in Actors : b # a => actor'[b] = actor[b]
  BY <1>1, <1>4, <1>5, <1>6, Writes
<1>8. /\ sessions' \in Seq(Session) /\ Len(sessions') = Len(sessions)
      /\ DOMAIN sessions' = DOMAIN sessions
      /\ \A t \in DOMAIN sessions : sessions'[t].primary = sessions[t].primary
  BY <1>1, <1>2, <1>3, <1>6, MemberSet
<1>9. Primaries'
  BY <1>1, <1>8, SamePrimaries
<1>10. Counters'
  BY <1>1, <1>8 DEF Base, SessionTypeOK, Counters, sessionObservers
<1>11. Names(actor[a])' /\ Knows(a)'
  BY <1>1, <1>2, <1>3, <1>5, <1>7, <1>8 DEF Names, Knows, Provisions, OnEnv, Ending, s
<1>12. QED
  BY <1>1, <1>7, <1>8, <1>9, <1>10, <1>11, SessionsBase

LEMMA ChangeJoinBase ==
    ASSUME Base, NEW a \in Actors, NEW s \in DOMAIN sessions, NEW u \in Users,
           NEW join \in {"joined", "left"}, ChangeJoin(a, s, u, join)
    PROVE  Base'
<1> DEFINE r == [Idle EXCEPT !.at = "rejoining", !.session = s]
<1>1. /\ actor' = [actor EXCEPT ![a] = r]
      /\ sessions' = [sessions EXCEPT ![s].member[u] = join]
      /\ calls < MaxCalls /\ calls' = calls + 1
      /\ crossed' \subseteq crossed \cup {s} /\ crowded' \subseteq crowded \cup {s}
      /\ UNCHANGED <<envs, pods, faults, upset>>
  BY DEF ChangeJoin
<1>2. s \in 0 .. MaxEnvs
  <2>1. sessions \in Seq(Session) /\ Len(sessions) <= Len(envs) /\ Len(envs) <= MaxEnvs
        /\ Len(envs) \in Nat /\ MaxEnvs \in Nat
    BY DEF Base, SessionTypeOK, SessionAssumption
  <2>2. QED
    BY <2>1
<1>3. /\ r \in Role /\ r.at = "rejoining" /\ r.session = s /\ r.env = 0 /\ r.primary = 0
      /\ r.then = "idle"
  <2>1. Idle \in Role
    BY IdleIsRole DEF Base
  <2>2. QED
    BY <1>2, <2>1 DEF Role, Idle, Points
<1> HIDE DEF r
<1>4. /\ actor' \in [Actors -> Role] /\ actor'[a] = r
      /\ \A b \in Actors : b # a => actor'[b] = actor[b]
  BY <1>1, <1>3, ActorTurns DEF Base, SessionTypeOK
<1>5. /\ sessions' \in Seq(Session) /\ Len(sessions') = Len(sessions)
      /\ DOMAIN sessions' = DOMAIN sessions
      /\ \A t \in DOMAIN sessions : sessions'[t].primary = sessions[t].primary
  BY <1>1, MemberSet
<1>6. Primaries'
  BY <1>1, <1>5, SamePrimaries
<1>7. Counters'
  <2>1. calls \in 0 .. MaxCalls /\ MaxCalls \in Nat
    BY DEF Base, SessionTypeOK, SessionAssumption
  <2>2. calls' \in 0 .. MaxCalls
    BY <1>1, <2>1
  <2>3. QED
    BY <1>1, <1>5, <2>2 DEF Base, SessionTypeOK, Counters
<1>8. Names(actor[a])' /\ Knows(a)'
  BY <1>3, <1>4, <1>5 DEF Names, Knows, Provisions, OnEnv, Ending
<1>9. QED
  BY <1>1, <1>4, <1>5, <1>6, <1>7, <1>8, SessionsBase

LEMMA RecountBase ==
    ASSUME Base, NEW a \in Actors, Recount(a)
    PROVE  Base'
<1> DEFINE s == actor[a].session
           n == Cardinality(Joined(s))
<1>1. /\ actor[a].at = "rejoining"
      /\ Writing(a, n, sessions[s].primary, sessions[s].status, "idle")
      /\ UNCHANGED <<envs, sessions, pods, calls, faults, sessionObservers>>
  BY DEF Recount, SyncSession
<1>2. s \in DOMAIN sessions /\ "idle" \in Then /\ Names(actor[a])
  BY <1>1 DEF Base, Knows, Then, Names, SessionTypeOK
<1>3. /\ sessions[s].primary \in DOMAIN envs /\ envs[sessions[s].primary].session = s
      /\ sessions[s].primary \in 0 .. MaxEnvs /\ sessions[s].status \in Status /\ n \in Nat
  BY <1>2, SyncReads
<1> HIDE DEF n
<1>4. /\ actor' \in [Actors -> Role] /\ actor'[a].at = "writing"
      /\ actor'[a].primary = sessions[s].primary /\ actor'[a].then = "idle"
      /\ actor'[a].env = actor[a].env /\ actor'[a].session = s
      /\ \A b \in Actors : b # a => actor'[b] = actor[b]
  BY <1>1, <1>2, <1>3, Writes
<1> HIDE DEF s
<1>5. Names(actor[a])' /\ Knows(a)'
  BY <1>1, <1>2, <1>3, <1>4 DEF Names, Knows, Provisions, OnEnv, Ending
<1>6. Counters' /\ pods' \subseteq DOMAIN envs
  BY <1>1, CountersStay DEF Base, SessionTypeOK
<1>7. QED
  BY <1>1, <1>4, <1>5, <1>6, QuietBase

LEMMA PollBase ==
    ASSUME Base, NEW i \in DOMAIN envs, Poll(i)
    PROVE  Base'
<1>1. PICK state \in {"creating", "running", "failed"} : SetStatus(i, state)
  BY DEF Poll
<1>2. state \in Status
  BY DEF Status, ActiveStatuses
<1>3. /\ envs' \in Seq(Env) /\ Len(envs') = Len(envs) /\ DOMAIN envs' = DOMAIN envs
      /\ \A j \in DOMAIN envs :
          envs'[j].session = envs[j].session /\ envs'[j].runtime = envs[j].runtime
  BY <1>1, <1>2, StatusSet DEF Base
<1>4. /\ calls < MaxCalls /\ calls' = calls + 1
      /\ upset' \subseteq upset \cup {envs[i].session}
      /\ crossed' \subseteq crossed \cup {envs[i].session}
      /\ UNCHANGED <<sessions, pods, actor, faults, crowded>>
  BY DEF Poll, Upset
<1>5. envs[i].session \in DOMAIN sessions
  BY EnvPlaces
<1>6. calls' \in 0 .. MaxCalls
  <2>1. calls \in 0 .. MaxCalls /\ MaxCalls \in Nat
    BY DEF Base, SessionTypeOK, SessionAssumption
  <2>2. QED
    BY <1>4, <2>1
<1>7. SessionTypeOK'
  <2>1. crossed' \cup crowded' \cup upset' \subseteq DOMAIN sessions'
    BY <1>4, <1>5 DEF Base, SessionTypeOK
  <2>2. QED
    BY <1>3, <1>4, <1>6, <2>1 DEF Base, SessionTypeOK
<1>8. Steady
  BY <1>3, <1>4 DEF Steady
<1>9. Primaries' /\ Rows'
  BY <1>4, <1>8, PrimariesStay DEF Base, Rows, Steady
<1>10. ASSUME NEW b \in Actors PROVE Knows(b)'
  <2>1. Knows(b)
    BY DEF Base
  <2>2. QED
    BY <1>4, <1>8, <2>1 DEF Knows, Provisions, Steady, OnEnv
<1>11. QED
  BY <1>7, <1>9, <1>10 DEF Base

LEMMA RequestBase ==
    ASSUME Base, NEW a \in Actors, SessionRequest(a)
    PROVE  Base'
<1>1. ASSUME NEW u \in Users, Create(a, u) PROVE Base'
  BY <1>1, CreateBase
<1>2. ASSUME NEW i \in DOMAIN envs, StopEnv(a, i) PROVE Base'
  <2>1. PICK at \in {"detaching", "deleting"} : Enter(a, envs[i].session, at) /\ Begin(a, i, at)
    BY <1>2 DEF StopEnv
  <2>2. /\ UNCHANGED <<envs, sessions, pods, faults>>
        /\ upset' \subseteq upset \cup {envs[i].session}
    BY <1>2 DEF StopEnv, Upset
  <2>3. pods' \subseteq DOMAIN envs
    BY <2>2 DEF Base, SessionTypeOK
  <2>4. QED
    BY <2>1, <2>2, <2>3, BeginBase
<1>3. ASSUME NEW i \in DOMAIN envs, Expire(a, i) \/ PauseEnv(a, i) PROVE Base'
  <2>1. PICK at \in {"pausing", "deleting"} : Enter(a, envs[i].session, at) /\ Begin(a, i, at)
    BY <1>3 DEF Expire, PauseEnv
  <2>2. /\ UNCHANGED <<envs, sessions, pods, faults>>
        /\ upset' \subseteq upset \cup {envs[i].session}
    BY <1>3 DEF Expire, PauseEnv, Upset
  <2>3. pods' \subseteq DOMAIN envs
    BY <2>2 DEF Base, SessionTypeOK
  <2>4. QED
    BY <2>1, <2>2, <2>3, BeginBase
<1>4. ASSUME NEW i \in DOMAIN envs, ResumeEnv(a, i) PROVE Base'
  <2>1. /\ Enter(a, envs[i].session, "reviving") /\ Begin(a, i, "reviving")
        /\ pods' = pods \cup {envs[i].runtime} /\ UNCHANGED <<envs, sessions, faults, upset>>
    BY <1>4 DEF ResumeEnv
  <2>2. pods' \subseteq DOMAIN envs
    BY <2>1, EnvPlaces DEF Base, SessionTypeOK
  <2>3. QED
    BY <2>1, <2>2, BeginBase
<1>5. ASSUME NEW s \in DOMAIN sessions, NEW u \in Users, NEW join \in {"joined", "left"},
             ChangeJoin(a, s, u, join)
      PROVE  Base'
  BY <1>5, ChangeJoinBase
<1>6. QED
  BY <1>1, <1>2, <1>3, <1>4, <1>5 DEF SessionRequest

LEMMA BaseNext ==
    ASSUME Base, [SessionNext]_sessionVars
    PROVE  Base'
<1>1. CASE UNCHANGED sessionVars
  <2>1. SessionTypeOK' /\ Rows' /\ Primaries'
    BY <1>1 DEF Base, SessionTypeOK, Rows, Primaries, sessionVars, sessionObservers
  <2>2. \A b \in Actors : Knows(b)'
    BY <1>1 DEF Base, Knows, Provisions, sessionVars
  <2>3. QED
    BY <2>1, <2>2 DEF Base
<1>2. ASSUME NEW a \in Actors, ActorStep(a) PROVE Base'
  BY <1>2, AttachBase, FoundBase, BindBase, ProvisionBase, ReadyBase, EndsBase, DepartBase,
     DeletesBase, RecountBase, WriteSessionBase DEF ActorStep
<1>3. ASSUME NEW a \in Actors, SessionRequest(a) PROVE Base'
  BY <1>3, RequestBase
<1>4. ASSUME NEW i \in DOMAIN envs, Poll(i) PROVE Base'
  BY <1>4, PollBase
<1>5. QED
  BY <1>1, <1>2, <1>3, <1>4 DEF SessionNext

(* Type correctness: every row and every actor of a session names rows that *)
(* exist (env_manager_service.go).                                         *)
THEOREM SessionTypeCorrect == SessionAssumption => (SessionSpec => []SessionTypeOK)
<1> SUFFICES ASSUME SessionAssumption PROVE SessionSpec => []SessionTypeOK
  OBVIOUS
<1>1. SessionInit => Base
  BY BaseInit
<1>2. Base /\ [SessionNext]_sessionVars => Base'
  BY BaseNext
<1>3. Base => SessionTypeOK
  BY DEF Base
<1>4. QED
  BY <1>1, <1>2, <1>3, PTL DEF SessionSpec

-----------------------------------------------------------------------------
(***************************************************************************)
(* The seats of a session that nobody crossed or crowded.                  *)
(***************************************************************************)
AtWork(a, s) == Working(a) /\ actor[a].session = s

\* Whoever may change the members is alone in the session.
SeatsInTurn(s) ==
    \A a, b \in Actors : AtWork(a, s) /\ AtWork(b, s) /\ a # b =>
        actor[a].at \in {"provisioning", "reviving", "writing"}

Counts(s, n) == n = Cardinality(Joined(s)) \/ Joined(s) = {}

\* A newcomer under way still has a seat.
Seated(s) ==
    /\ Cardinality(Joined(s)) <= MaxMembers
    /\ SeatsInTurn(s)
    /\ \A a \in Actors : AtWork(a, s) =>
        /\ actor[a].at = "writing" => Counts(s, actor[a].count)
        /\ actor[a].at \in {"attaching", "joining"} => Cardinality(Joined(s)) < MaxMembers
    /\ \/ Counts(s, sessions[s].count)
       \/ \E a \in Actors : AtWork(a, s) /\ actor[a].at \in {"rejoining", "writing"}

SeatInv == \A s \in DOMAIN sessions \ (crossed \cup crowded) : Seated(s)

\* Nobody but actor a moves.
Only(a) == \A b \in Actors : b # a => actor'[b] = actor[b]

LEMMA Uncrossed ==
    ASSUME NEW a \in Actors, NEW t, NEW at, Observe(a, t, at), NEW s, s # 0, s \notin crossed'
    PROVE  /\ s \notin crossed
           /\ s = t => \A b \in Actors : b # a /\ AtWork(b, s) =>
                  at \notin Ending /\ actor[b].at \notin Ending \cup {"writing"}
<1> DEFINE others == WorkingIn(t) \ {a}
<1>1. s \notin crossed
  BY DEF Observe
<1>2. ASSUME s = t, NEW b \in Actors, b # a, AtWork(b, s)
      PROVE  at \notin Ending /\ actor[b].at \notin Ending \cup {"writing"}
  <2>1. b \in others
    BY <1>2 DEF WorkingIn, AtWork
  <2>2. ~(at \in Ending \/ \E c \in others : actor[c].at \in Ending \cup {"writing"})
    BY <1>2, <2>1 DEF Observe
  <2>3. QED
    BY <2>1, <2>2
<1>3. QED
  BY <1>1, <1>2

LEMMA Uncrowded ==
    ASSUME NEW a \in Actors, NEW t, NEW at, Observe(a, t, at), NEW s, s # 0, s \notin crowded'
    PROVE  /\ s \notin crowded
           /\ s = t => \A b \in Actors : b # a /\ AtWork(b, s) =>
                  at \notin Seating /\ actor[b].at \notin Seating \cup {"writing"}
<1> DEFINE others == WorkingIn(t) \ {a}
<1>1. s \notin crowded
  BY DEF Observe
<1>2. ASSUME s = t, NEW b \in Actors, b # a, AtWork(b, s)
      PROVE  at \notin Seating /\ actor[b].at \notin Seating \cup {"writing"}
  <2>1. b \in others
    BY <1>2 DEF WorkingIn, AtWork
  <2>2. ~(at \in Seating \/ \E c \in others : actor[c].at \in Seating \cup {"writing"})
    BY <1>2, <2>1 DEF Observe
  <2>3. QED
    BY <2>1, <2>2
<1>3. QED
  BY <1>1, <1>2

\* Who works in a session that exists is not founding one.
LEMMA WorkPlaces ==
    ASSUME Base, NEW s \in DOMAIN sessions, NEW b \in Actors, AtWork(b, s)
    PROVE  /\ s # 0
           /\ actor[b].at \in {"attaching", "joining", "provisioning", "reviving", "rejoining",
                               "writing"} \cup Ending
<1>1. s # 0
  BY DEF Base, SessionTypeOK
<1>2. actor[b].at \in Points /\ Knows(b)
  BY DEF Base, SessionTypeOK, Role
<1>3. QED
  BY <1>1, <1>2 DEF AtWork, Working, Points, Knows, Ending

(* What happens elsewhere.                                                 *)
LEMMA SeatedElsewhere ==
    ASSUME NEW s \in DOMAIN sessions, Seated(s), sessions'[s] = sessions[s],
           \A b \in Actors : AtWork(b, s) \/ AtWork(b, s)' => actor'[b] = actor[b]
    PROVE  Seated(s)'
<1>1. Joined(s)' = Joined(s)
  BY DEF Joined
<1>2. \A n : Counts(s, n)' <=> Counts(s, n)
  BY <1>1 DEF Counts
<1>3. \A b \in Actors : AtWork(b, s)' <=> AtWork(b, s)
  BY DEF AtWork, Working
<1>4. QED
  BY <1>1, <1>2, <1>3 DEF Seated, SeatsInTurn

(* An actor goes on, or is done, and no seat changes.                      *)
LEMMA SeatedMove ==
    ASSUME NEW s \in DOMAIN sessions, Seated(s), sessions'[s] = sessions[s],
           NEW a \in Actors, Only(a), AtWork(a, s),
           \/ ~AtWork(a, s)' /\ actor[a].at \notin {"rejoining", "writing"}
           \/ /\ AtWork(a, s)'
              /\ actor'[a].at = "writing" => actor'[a].count = Cardinality(Joined(s))
              /\ actor'[a].at \in {"attaching", "joining"} => actor[a].at \in {"attaching", "joining"}
              /\ actor[a].at = "rejoining" => actor'[a].at \in {"rejoining", "writing"}
              /\ actor[a].at # "writing"
              /\ actor[a].at \in {"provisioning", "reviving"} =>
                     actor'[a].at \in {"provisioning", "reviving", "writing"}
    PROVE  Seated(s)'
<1>1. Joined(s)' = Joined(s)
  BY DEF Joined
<1>2. \A n : Counts(s, n)' <=> Counts(s, n)
  BY <1>1 DEF Counts
<1>3. \A b \in Actors : b # a => (AtWork(b, s)' <=> AtWork(b, s)) /\ actor'[b] = actor[b]
  BY DEF AtWork, Working, Only
<1>4. SeatsInTurn(s)'
  BY <1>3 DEF Seated, SeatsInTurn
<1>5. ASSUME NEW b \in Actors, AtWork(b, s)'
      PROVE  /\ actor'[b].at = "writing" => Counts(s, actor'[b].count)
             /\ actor'[b].at \in {"attaching", "joining"} => Cardinality(Joined(s)) < MaxMembers
  <2>1. CASE b = a
    BY <1>5, <2>1 DEF Seated, Counts
  <2>2. CASE b # a
    BY <1>3, <1>5, <2>2 DEF Seated
  <2>3. QED
    BY <2>1, <2>2
<1>6. \/ Counts(s, sessions[s].count)
      \/ \E b \in Actors : AtWork(b, s)' /\ actor'[b].at \in {"rejoining", "writing"}
  BY <1>3 DEF Seated
<1>7. QED
  BY <1>1, <1>2, <1>4, <1>5, <1>6 DEF Seated

(* Somebody sets to work, or goes on after waiting.                        *)
LEMMA SeatedEntry ==
    ASSUME Base, NEW s \in DOMAIN sessions, Seated(s), sessions'[s] = sessions[s],
           NEW a \in Actors, NEW at, Only(a), ~AtWork(a, s), AtWork(a, s)', actor'[a].at = at,
           Observe(a, s, at), s \notin crossed' \cup crowded',
           at = "writing" => actor'[a].count = Cardinality(Joined(s)),
           at # "joining", at \in Points \ {"founding"},
           at = "attaching" => sessions[s].count < MaxMembers
    PROVE  Seated(s)'
<1>1. Joined(s)' = Joined(s)
  BY DEF Joined
<1>2. \A n : Counts(s, n)' <=> Counts(s, n)
  BY <1>1 DEF Counts
<1>3. \A b \in Actors : b # a => (AtWork(b, s)' <=> AtWork(b, s)) /\ actor'[b] = actor[b]
  BY DEF AtWork, Working, Only
<1>4. s # 0 /\ at \notin {"idle", "waiting"}
  BY DEF Base, SessionTypeOK, AtWork, Working
<1>5. ASSUME NEW b \in Actors, b # a, AtWork(b, s)
      PROVE  /\ at \in {"provisioning", "reviving", "writing"}
             /\ actor[b].at \in {"provisioning", "reviving"}
  <2>1. /\ at \notin Ending \cup Seating
        /\ actor[b].at \notin Ending \cup Seating \cup {"writing"}
    BY <1>4, <1>5, Uncrossed, Uncrowded
  <2>2. QED
    BY <1>4, <1>5, <2>1, WorkPlaces DEF Points, Ending, Seating
<1>6. SeatsInTurn(s)'
  BY <1>3, <1>5 DEF SeatsInTurn
<1>7. at = "attaching" => Cardinality(Joined(s)) < MaxMembers
  <2>1. SUFFICES ASSUME at = "attaching" PROVE Cardinality(Joined(s)) < MaxMembers
    OBVIOUS
  <2>2. \A b \in Actors : ~AtWork(b, s)
    BY <1>5, <2>1
  <2>3. Counts(s, sessions[s].count)
    BY <2>2 DEF Seated
  <2>4. MaxMembers \in Nat /\ MaxMembers > 0
    BY DEF Base, SessionAssumption
  <2>5. Joined(s) = {} => Cardinality(Joined(s)) = 0
    BY FS_EmptySet
  <2>6. QED
    BY <2>1, <2>3, <2>4, <2>5 DEF Counts
<1>8. ASSUME NEW b \in Actors, AtWork(b, s)'
      PROVE  /\ actor'[b].at = "writing" => Counts(s, actor'[b].count)
             /\ actor'[b].at \in {"attaching", "joining"} => Cardinality(Joined(s)) < MaxMembers
  <2>1. CASE b = a
    BY <1>7, <1>8, <2>1 DEF Counts
  <2>2. CASE b # a
    BY <1>3, <1>8, <2>2 DEF Seated
  <2>3. QED
    BY <2>1, <2>2
<1>9. \/ Counts(s, sessions[s].count)
      \/ \E b \in Actors : AtWork(b, s)' /\ actor'[b].at \in {"rejoining", "writing"}
  BY <1>3 DEF Seated
<1>10. QED
  BY <1>1, <1>2, <1>6, <1>8, <1>9 DEF Seated

(* An actor goes on, or is done: SeatedMove in every session.              *)
LEMMA SeatMoves ==
    ASSUME Base, SeatInv, NEW a \in Actors, UNCHANGED <<sessions, sessionObservers>>, Only(a),
           Working(a),
           \/ ~Working(a)' /\ actor[a].at \notin {"rejoining", "writing"}
           \/ /\ Working(a)' /\ actor'[a].session = actor[a].session
              /\ actor'[a].at = "writing" =>
                     actor'[a].count = Cardinality(Joined(actor[a].session))
              /\ actor'[a].at \in {"attaching", "joining"} => actor[a].at \in {"attaching", "joining"}
              /\ actor[a].at = "rejoining" => actor'[a].at \in {"rejoining", "writing"}
              /\ actor[a].at # "writing"
              /\ actor[a].at \in {"provisioning", "reviving"} =>
                     actor'[a].at \in {"provisioning", "reviving", "writing"}
    PROVE  SeatInv'
<1> SUFFICES ASSUME NEW s \in DOMAIN sessions, s \notin crossed \cup crowded
             PROVE  Seated(s)'
  BY DEF SeatInv, sessionObservers
<1>1. Seated(s)
  BY DEF SeatInv
<1>2. CASE s = actor[a].session
  <2>1. AtWork(a, s)
    BY <1>2 DEF AtWork
  <2>2. \/ ~AtWork(a, s)' /\ actor[a].at \notin {"rejoining", "writing"}
        \/ AtWork(a, s)' /\ Working(a)' /\ actor'[a].session = actor[a].session
    BY <1>2 DEF AtWork
  <2>3. QED
    BY <1>1, <1>2, <2>1, <2>2, SeatedMove DEF AtWork
<1>3. CASE s # actor[a].session
  <2>1. ~AtWork(a, s) /\ ~AtWork(a, s)'
    BY <1>3 DEF AtWork
  <2>2. QED
    BY <1>1, <2>1, SeatedElsewhere DEF Only
<1>4. QED
  BY <1>2, <1>3

(* An actor sets to work, or goes on after waiting.                        *)
LEMMA SeatEntries ==
    ASSUME Base, SeatInv, NEW a \in Actors, NEW t \in DOMAIN sessions \cup {0}, NEW at,
           UNCHANGED sessions, Only(a), ~Working(a), Observe(a, t, at),
           \/ actor'[a].at = at /\ actor'[a].session = t
           \/ ~Working(a)',
           at = "writing" /\ Working(a)' => actor'[a].count = Cardinality(Joined(t)),
           at \in Points \ {"joining"}, at = "founding" => t = 0,
           at = "attaching" => t # 0 /\ sessions[t].count < MaxMembers
    PROVE  SeatInv'
<1> SUFFICES ASSUME NEW s \in DOMAIN sessions, s \notin crossed' \cup crowded'
             PROVE  Seated(s)'
  BY DEF SeatInv
<1>1. s # 0
  BY DEF Base, SessionTypeOK
<1>2. Seated(s)
  BY <1>1, Uncrossed, Uncrowded DEF SeatInv
<1>3. ~AtWork(a, s)
  BY DEF AtWork
<1>4. CASE AtWork(a, s)'
  <2>1. actor'[a].at = at /\ s = t /\ Working(a)'
    BY <1>4 DEF AtWork
  <2>2. QED
    BY <1>1, <1>2, <1>3, <1>4, <2>1, SeatedEntry
<1>5. CASE ~AtWork(a, s)'
  BY <1>2, <1>3, <1>5, SeatedElsewhere DEF Only
<1>6. QED
  BY <1>4, <1>5

LEMMA BeginSeats ==
    ASSUME Base, SeatInv, NEW a \in Actors, NEW i \in DOMAIN envs,
           NEW at \in {"detaching", "deleting", "pausing", "reviving"},
           Enter(a, envs[i].session, at), Begin(a, i, at), UNCHANGED sessions
    PROVE  SeatInv'
<1>1. envs[i].session \in DOMAIN sessions /\ at \in Points
  BY EnvPlaces DEF Points
<1>2. actor'[a].at = at /\ actor'[a].session = envs[i].session /\ Only(a)
  BY <1>1, Begins DEF Only
<1>3. ~Working(a) /\ Observe(a, envs[i].session, at)
  BY DEF Enter, Working
<1>4. QED
  BY <1>1, <1>2, <1>3, SeatEntries

LEMMA CreateSeats ==
    ASSUME Base, SeatInv, NEW a \in Actors, NEW u \in Users, Create(a, u)
    PROVE  SeatInv'
<1> DEFINE s == IF Reusable # 0 /\ HasRoom(Reusable) THEN Reusable ELSE 0
           at == IF s # 0 THEN "attaching" ELSE "founding"
           r == [Idle EXCEPT !.at = at, !.session = s, !.user = u]
<1>1. /\ actor[a].at = "idle" /\ Observe(a, s, at) /\ actor' = [actor EXCEPT ![a] = r]
      /\ UNCHANGED <<envs, sessions, pods, faults, upset>>
  BY DEF Create, Enter
<1>2. s \in DOMAIN sessions \cup {0} /\ (s # 0 => sessions[s].count < MaxMembers)
  BY ReusableIsOne DEF HasRoom
<1> HIDE DEF s
<1>3. at \in Points /\ (s # 0 => at = "attaching") /\ (s = 0 => at = "founding")
  BY DEF Points
<1> HIDE DEF at
<1>4. r.at = at /\ r.session = s
  BY DEF Idle
<1> HIDE DEF r
<1>5. actor'[a] = r /\ Only(a)
  BY <1>1 DEF Only, Base, SessionTypeOK
<1>6. ~Working(a)
  BY <1>1 DEF Working
<1>7. QED
  BY <1>1, <1>2, <1>3, <1>4, <1>5, <1>6, SeatEntries

LEMMA ReadySeats ==
    ASSUME Base, SeatInv, NEW a \in Actors, Ready(a)
    PROVE  SeatInv'
<1> DEFINE s == actor[a].session
           n == Cardinality(Joined(s))
<1>1. /\ actor[a].at = "waiting" /\ Observe(a, s, "writing") /\ UNCHANGED sessions
      /\ SyncSession(a, "running", "idle") \/ Leave(a)
  BY DEF Ready
<1>2. actor[a].env \in DOMAIN envs /\ envs[actor[a].env].session = s
  BY <1>1 DEF Base, Knows, OnEnv
<1>3. s \in DOMAIN sessions
  BY <1>2, EnvPlaces
<1>4. sessions[s].primary \in 0 .. MaxEnvs /\ n \in Nat
  BY <1>3, SyncReads
<1>5. "running" \in Status /\ "idle" \in Then /\ "writing" \in Points
  BY DEF Status, ActiveStatuses, Then, Points
<1>6. SyncSession(a, "running", "idle") => Writing(a, n, sessions[s].primary, "running", "idle")
  BY DEF SyncSession
<1> HIDE DEF n
<1>7. /\ Only(a)
      /\ \/ actor'[a].at = "writing" /\ actor'[a].session = s /\ actor'[a].count = n
         \/ actor'[a] = Idle
  BY <1>1, <1>4, <1>5, <1>6, Writes, Leaves DEF Only
<1>8. actor'[a] = Idle => ~Working(a)'
  BY DEF Working, Idle
<1>9. ~Working(a) /\ (actor'[a].at = "writing" => Working(a)')
  BY <1>1 DEF Working
<1> HIDE DEF s
<1>10. QED
  BY <1>1, <1>3, <1>5, <1>7, <1>8, <1>9, SeatEntries DEF n

LEMMA MoveSeats ==
    ASSUME Base, SeatInv, NEW a \in Actors,
           \/ Attach(a) \/ Provision(a) \/ Detach(a) \/ Delete(a) \/ Close(a)
           \/ PauseDeletes(a) \/ Park(a) \/ Revive(a) \/ Recount(a)
    PROVE  SeatInv'
<1> DEFINE s == actor[a].session
           n == Cardinality(Joined(s))
<1>1. UNCHANGED <<sessions, sessionObservers>>
  BY DEF Attach, Provision, Detach, Delete, Close, PauseDeletes, Park, Revive, Recount,
         DeletePods
<1>2. actor \in [Actors -> Role]
  BY DEF Base, SessionTypeOK
<1>3. CASE Attach(a)
  <2>1. /\ actor[a].at = "attaching"
        /\ actor' = [actor EXCEPT ![a].at = "joining", ![a].env = Len(envs) + 1]
    BY <1>3 DEF Attach
  <2>2. /\ Only(a) /\ actor'[a].at = "joining" /\ actor'[a].session = s
    BY <1>2, <2>1 DEF Only, Role
  <2>3. Working(a) /\ Working(a)'
    BY <2>1, <2>2 DEF Working
  <2>4. QED
    BY <1>1, <2>1, <2>2, <2>3, SeatMoves
<1>4. ASSUME NEW at \in {"waiting", "leaving", "closing", "parking"}, GoTo(a, at),
             \/ actor[a].at = "provisioning" /\ at = "waiting"
             \/ actor[a].at \in {"detaching", "deleting", "pausing"} /\ at # "waiting"
      PROVE  SeatInv'
  <2>1. at \in Points
    BY DEF Points
  <2>2. Only(a) /\ actor'[a].at = at /\ actor'[a].session = s
    BY <1>4, <2>1, Goes DEF Only
  <2>3. Working(a) /\ (at # "waiting" => Working(a)') /\ (at = "waiting" => ~Working(a)')
    BY <1>4, <2>2 DEF Working
  <2>4. QED
    BY <1>1, <1>4, <2>2, <2>3, SeatMoves
<1>5. ASSUME Leave(a), actor[a].at = "provisioning"
      PROVE  SeatInv'
  <2>1. Only(a) /\ actor'[a] = Idle
    BY <1>5, Leaves DEF Only
  <2>2. Working(a) /\ ~Working(a)'
    BY <1>5, <2>1 DEF Working, Idle
  <2>3. QED
    BY <1>1, <1>5, <2>1, <2>2, SeatMoves
<1>6. ASSUME NEW state \in Status, NEW then \in Then, SyncSession(a, state, then),
             actor[a].at \in {"closing", "parking", "reviving", "rejoining"}
      PROVE  SeatInv'
  <2>1. s \in DOMAIN sessions
    <3>1. CASE actor[a].at = "rejoining"
      BY <3>1 DEF Base, Knows
    <3>2. CASE actor[a].at # "rejoining"
      <4>1. actor[a].env \in DOMAIN envs /\ envs[actor[a].env].session = s
        BY <1>6, <3>2 DEF Base, Knows, OnEnv, Ending
      <4>2. QED
        BY <4>1, EnvPlaces
    <3>3. QED
      BY <3>1, <3>2
  <2>2. sessions[s].primary \in 0 .. MaxEnvs /\ n \in Nat
    BY <2>1, SyncReads
  <2>3. Writing(a, n, sessions[s].primary, state, then)
    BY <1>6 DEF SyncSession
  <2> HIDE DEF n
  <2>4. Only(a) /\ actor'[a].at = "writing" /\ actor'[a].session = s /\ actor'[a].count = n
    BY <2>2, <2>3, Writes DEF Only
  <2>5. Working(a) /\ Working(a)'
    BY <1>6, <2>4 DEF Working
  <2>6. QED
    BY <1>1, <1>6, <2>4, <2>5, SeatMoves DEF n
<1>7. CASE Provision(a)
  BY <1>4, <1>5, <1>7 DEF Provision
<1>8. CASE Detach(a) \/ Delete(a) \/ PauseDeletes(a)
  BY <1>4, <1>8 DEF Detach, Delete, PauseDeletes, DeletePods
<1>9. CASE Close(a) \/ Park(a) \/ Revive(a)
  <2>1. {"terminated", "paused", "creating"} \subseteq Status /\ {"idle", "waiting"} \subseteq Then
    BY DEF Status, ActiveStatuses, Then
  <2>2. QED
    BY <1>6, <1>9, <2>1 DEF Close, Park, Revive
<1>10. CASE Recount(a)
  <2>1. s \in DOMAIN sessions
    BY <1>10 DEF Base, Knows, Recount
  <2>2. sessions[s].status \in Status /\ "idle" \in Then
    BY <2>1, SyncReads DEF Then
  <2>3. QED
    BY <1>6, <1>10, <2>2 DEF Recount
<1>11. QED
  BY <1>3, <1>7, <1>8, <1>9, <1>10

(* A new session has nobody yet but its founder.                           *)
LEMMA FoundSeats ==
    ASSUME Base, SeatInv, NEW a \in Actors, Found(a)
    PROVE  SeatInv'
<1> DEFINE t == Len(sessions) + 1
           i == Len(envs) + 1
           x == [status |-> "creating", primary |-> i, count |-> 0,
                 member |-> [u \in Users |-> "none"]]
<1>1. /\ actor[a].at = "founding" /\ Len(envs) < MaxEnvs
      /\ sessions' = Append(sessions, x) /\ UNCHANGED sessionObservers
      /\ actor' = [actor EXCEPT ![a] = [@ EXCEPT !.at = "joining", !.env = i, !.session = t,
                                                 !.then = "provisioning"]]
  BY DEF Found
<1>2. /\ actor \in [Actors -> Role] /\ sessions \in Seq(Session) /\ envs \in Seq(Env)
      /\ Len(sessions) <= Len(envs) /\ MaxEnvs \in Nat
  BY DEF Base, SessionTypeOK, SessionAssumption
<1>3. Only(a) /\ actor'[a].at = "joining" /\ actor'[a].session = t
  BY <1>1, <1>2 DEF Only, Role
<1>4. x \in Session /\ x.count = 0 /\ \A u \in Users : x.member[u] = "none"
  BY <1>1, <1>2 DEF Session, Status, ActiveStatuses
<1> HIDE DEF x
<1>5. /\ DOMAIN sessions' = DOMAIN sessions \cup {t} /\ t \notin DOMAIN sessions /\ t # 0
      /\ sessions'[t] = x /\ \A s \in DOMAIN sessions : sessions'[s] = sessions[s]
  BY <1>1, <1>2, <1>4, RowAdded
<1>6. actor[a].session = 0
  BY <1>1 DEF Base, Knows
<1> HIDE DEF t
<1> SUFFICES ASSUME NEW s \in DOMAIN sessions', s \notin crossed \cup crowded
             PROVE  Seated(s)'
  BY <1>1 DEF SeatInv, sessionObservers
<1>7. CASE s \in DOMAIN sessions
  <2>1. Seated(s) /\ s # 0
    BY <1>7 DEF SeatInv, Base, SessionTypeOK
  <2>2. ~AtWork(a, s) /\ ~AtWork(a, s)'
    BY <1>3, <1>5, <1>6, <1>7, <2>1 DEF AtWork
  <2>3. QED
    BY <1>3, <1>5, <1>7, <2>1, <2>2, SeatedElsewhere DEF Only
<1>8. CASE s = t
  <2>1. Joined(s)' = {}
    BY <1>4, <1>5, <1>8 DEF Joined
  <2>2. Cardinality(Joined(s)') = 0
    BY <2>1, FS_EmptySet
  <2>3. \A b \in Actors : b # a => ~AtWork(b, s)'
    BY <1>3, <1>5, <1>8 DEF AtWork, Only, Base, SessionTypeOK
  <2>4. MaxMembers \in Nat /\ MaxMembers > 0
    BY DEF Base, SessionAssumption
  <2>5. Counts(s, sessions[s].count)'
    BY <2>1 DEF Counts
  <2>6. SeatsInTurn(s)'
    BY <2>3 DEF SeatsInTurn
  <2>7. QED
    BY <1>3, <2>2, <2>3, <2>4, <2>5, <2>6 DEF Seated
<1>9. QED
  BY <1>5, <1>7, <1>8

\* Of a member of session s, the others' seats do not change.
LEMMA MemberSeats ==
    ASSUME Base, NEW s \in DOMAIN sessions, NEW u \in Users,
           NEW join \in {"none", "joined", "left"},
           sessions' = [sessions EXCEPT ![s].member[u] = join]
    PROVE  /\ Joined(s)' = IF join = "joined" THEN Joined(s) \cup {u} ELSE Joined(s) \ {u}
           /\ DOMAIN sessions' = DOMAIN sessions
           /\ sessions'[s].count = sessions[s].count
           /\ \A t \in DOMAIN sessions : t # s => sessions'[t] = sessions[t]
<1> DEFINE x == [sessions[s] EXCEPT !.member = [sessions[s].member EXCEPT ![u] = join]]
<1>1. sessions \in Seq(Session) /\ sessions[s] \in Session
  BY DEF Base, SessionTypeOK
<1>2. /\ x \in Session /\ x.count = sessions[s].count
      /\ x.member = [sessions[s].member EXCEPT ![u] = join]
      /\ sessions[s].member \in [Users -> {"none", "joined", "left"}]
  BY <1>1 DEF Session
<1>3. sessions' = [sessions EXCEPT ![s] = x]
  BY <1>1
<1> HIDE DEF x
<1>4. /\ DOMAIN sessions' = DOMAIN sessions
      /\ \A t \in DOMAIN sessions : sessions'[t] = IF t = s THEN x ELSE sessions[t]
  BY <1>2, <1>3, SessionSet
<1>5. \A v \in Users : sessions'[s].member[v] = IF v = u THEN join ELSE sessions[s].member[v]
  BY <1>2, <1>4
<1>6. QED
  BY <1>2, <1>4, <1>5 DEF Joined

(* A member takes a seat or leaves it, with nobody else at work.           *)
LEMMA MemberStep ==
    ASSUME Base, SeatInv, NEW a \in Actors, NEW s \in DOMAIN sessions, NEW u \in Users,
           NEW join \in {"none", "joined", "left"}, NEW at \in {"writing", "rejoining"},
           sessions' = [sessions EXCEPT ![s].member[u] = join], Only(a),
           crossed \subseteq crossed', crowded \subseteq crowded',
           ~Working(a) \/ actor[a].session = s, actor'[a].session = s, actor'[a].at = at,
           s \notin crossed' \cup crowded' =>
               /\ \A b \in Actors : b # a => ~AtWork(b, s)
               /\ join = "joined" => Cardinality(Joined(s)) < MaxMembers
               /\ at = "writing" => Counts(s, actor[a].count)'
    PROVE  SeatInv'
<1>1. /\ Joined(s)' = IF join = "joined" THEN Joined(s) \cup {u} ELSE Joined(s) \ {u}
      /\ DOMAIN sessions' = DOMAIN sessions
      /\ \A t \in DOMAIN sessions : t # s => sessions'[t] = sessions[t]
  BY MemberSeats
<1> SUFFICES ASSUME NEW t \in DOMAIN sessions, t \notin crossed' \cup crowded'
             PROVE  Seated(t)'
  BY <1>1 DEF SeatInv
<1>2. Seated(t)
  BY DEF SeatInv
<1>3. CASE t # s
  <2>1. ~AtWork(a, t) /\ ~AtWork(a, t)'
    BY <1>3 DEF AtWork
  <2>2. QED
    BY <1>1, <1>2, <1>3, <2>1, SeatedElsewhere DEF Only
<1>4. CASE t = s
  <2>1. \A b \in Actors : b # a => ~AtWork(b, s)'
    BY <1>4 DEF Only, AtWork, Working
  <2>2. AtWork(a, s)'
    BY DEF AtWork, Working
  <2>3. Cardinality(Joined(s)') <= MaxMembers
    <3>1. IsFiniteSet(Joined(s)) /\ Cardinality(Joined(s)) \in Nat
      BY MembersCounted DEF Joined
    <3>2. Cardinality(Joined(s)) <= MaxMembers /\ MaxMembers \in Nat
      BY <1>2, <1>4 DEF Seated, Base, SessionAssumption
    <3>3. Cardinality(Joined(s) \cup {u}) <= Cardinality(Joined(s)) + 1
          /\ Cardinality(Joined(s) \cup {u}) \in Nat
      <4>1. /\ IsFiniteSet(Joined(s) \cup {u})
            /\ \/ Cardinality(Joined(s) \cup {u}) = Cardinality(Joined(s))
               \/ Cardinality(Joined(s) \cup {u}) = Cardinality(Joined(s)) + 1
        BY <3>1, FS_AddElement
      <4>2. QED
        BY <3>1, <4>1
    <3>4. Cardinality(Joined(s) \ {u}) <= Cardinality(Joined(s))
      BY <3>1, FS_Subset
    <3>5. CASE join = "joined"
      <4>1. Cardinality(Joined(s)) < MaxMembers
        BY <1>4, <3>5
      <4>2. QED
        BY <1>1, <3>1, <3>2, <3>3, <3>5, <4>1
    <3>6. CASE join # "joined"
      <4>1. Cardinality(Joined(s) \ {u}) \in Nat
        BY MembersCounted DEF Joined
      <4>2. QED
        BY <1>1, <3>1, <3>2, <3>4, <3>6, <4>1
    <3>7. QED
      BY <3>5, <3>6
  <2>4. SeatsInTurn(s)'
    BY <2>1 DEF SeatsInTurn
  <2>5. at = "writing" => Counts(s, actor[a].count)'
    BY <1>4
  <2>6. QED
    BY <1>4, <2>1, <2>2, <2>3, <2>4, <2>5 DEF Seated
<1>5. QED
  BY <1>3, <1>4

LEMMA BindSeats ==
    ASSUME Base, SeatInv, NEW a \in Actors, Bind(a)
    PROVE  SeatInv'
<1>1. /\ actor[a].at = "joining" /\ actor[a].env \in DOMAIN envs
      /\ envs[actor[a].env].session = actor[a].session
      /\ actor[a].user \in Users /\ actor[a].then \in Then
  BY DEF Bind, Base, Knows, OnEnv, Then
<1>2. PICK s \in DOMAIN sessions, u \in Users : s = actor[a].session /\ u = actor[a].user
  BY <1>1, EnvPlaces
<1> DEFINE count == Cardinality(Joined(s) \cup {u})
           state == envs[actor[a].env].status
<1>3. /\ sessions' = [sessions EXCEPT ![s].member[u] = "joined"]
      /\ Writing(a, count, sessions[s].primary, state, actor[a].then)
      /\ UNCHANGED sessionObservers
  BY <1>2 DEF Bind
<1>4. count \in Nat /\ sessions[s].primary \in 0 .. MaxEnvs /\ state \in Status
  BY <1>1, EnvPlaces, MembersCounted, SyncReads DEF Joined
<1> HIDE DEF count, state
<1>5. /\ actor'[a].at = "writing" /\ actor'[a].count = count
      /\ actor'[a].session = s /\ Only(a)
  BY <1>1, <1>2, <1>3, <1>4, Writes DEF Only
<1>6. Joined(s)' = Joined(s) \cup {u}
  BY <1>3, MemberSeats
<1>7. Counts(s, actor[a].count)'
  BY <1>5, <1>6 DEF Counts, count
<1>8. ASSUME s \notin crossed \cup crowded
      PROVE  /\ \A b \in Actors : b # a => ~AtWork(b, s)
             /\ Cardinality(Joined(s)) < MaxMembers
  <2>1. Seated(s) /\ AtWork(a, s)
    BY <1>1, <1>2, <1>8 DEF SeatInv, AtWork, Working
  <2>2. QED
    BY <1>1, <2>1 DEF Seated, SeatsInTurn
<1>9. UNCHANGED <<crossed, crowded>>
  BY <1>3 DEF sessionObservers
<1>10. QED
  BY <1>2, <1>3, <1>5, <1>7, <1>8, <1>9, MemberStep

LEMMA DepartSeats ==
    ASSUME Base, SeatInv, NEW a \in Actors, Depart(a)
    PROVE  SeatInv'
<1>1. /\ actor[a].at = "leaving" /\ actor[a].env \in DOMAIN envs
      /\ envs[actor[a].env].session = actor[a].session /\ actor[a].user \in Users
  BY DEF Depart, Base, Knows, OnEnv, Ending
<1>2. PICK s \in DOMAIN sessions, u \in Users : s = actor[a].session /\ u = actor[a].user
  BY <1>1, EnvPlaces
<1> DEFINE members == Joined(s) \ {u}
           count == IF members = {} THEN Cardinality(ActiveOf(s)) ELSE Cardinality(members)
           p == Successor(s, actor[a].env)
<1>3. PICK join \in {"none", "left"} : sessions' = [sessions EXCEPT ![s].member[u] = join]
  <2>1. sessions' = [sessions EXCEPT ![s].member[u] =
                        IF sessions[s].member[u] = "none" THEN "none" ELSE "left"]
    BY <1>2 DEF Depart
  <2>2. QED
    BY <2>1
<1>4. Writing(a, count, p, "running", "idle") /\ UNCHANGED sessionObservers
  BY <1>2 DEF Depart
<1>5. count \in Nat /\ p \in 0 .. MaxEnvs
  <2>1. Cardinality(members) \in Nat
    BY MembersCounted DEF Joined
  <2>2. QED
    BY <1>1, <2>1, ActiveCounted, SuccessorIsOne
<1>6. "idle" \in Then /\ "running" \in Status
  BY DEF Then, Status, ActiveStatuses
<1> HIDE DEF count, p, members
<1>7. /\ actor'[a].at = "writing" /\ actor'[a].count = count
      /\ actor'[a].session = s /\ Only(a)
  BY <1>2, <1>4, <1>5, <1>6, Writes DEF Only
<1>8. Joined(s)' = Joined(s) \ {u}
  BY <1>3, MemberSeats
<1>9. Counts(s, actor[a].count)'
  BY <1>7, <1>8 DEF Counts, count, members
<1>10. ASSUME s \notin crossed \cup crowded
       PROVE  \A b \in Actors : b # a => ~AtWork(b, s)
  <2>1. Seated(s) /\ AtWork(a, s)
    BY <1>1, <1>2, <1>10 DEF SeatInv, AtWork, Working
  <2>2. QED
    BY <1>1, <2>1 DEF Seated, SeatsInTurn
<1>11. UNCHANGED <<crossed, crowded>>
  BY <1>4 DEF sessionObservers
<1>12. QED
  BY <1>2, <1>3, <1>7, <1>9, <1>10, <1>11, MemberStep

LEMMA ChangeJoinSeats ==
    ASSUME Base, SeatInv, NEW a \in Actors, NEW s \in DOMAIN sessions, NEW u \in Users,
           NEW join \in {"joined", "left"}, ChangeJoin(a, s, u, join)
    PROVE  SeatInv'
<1> DEFINE r == [Idle EXCEPT !.at = "rejoining", !.session = s]
<1>1. /\ actor' = [actor EXCEPT ![a] = r] /\ actor[a].at = "idle"
      /\ sessions' = [sessions EXCEPT ![s].member[u] = join]
  BY DEF ChangeJoin
<1>2. r.at = "rejoining" /\ r.session = s
  BY DEF Idle
<1> HIDE DEF r
<1>3. actor'[a] = r /\ Only(a)
  BY <1>1 DEF Only, Base, SessionTypeOK
<1>4. crossed \subseteq crossed' /\ crowded \subseteq crowded'
  BY DEF ChangeJoin
<1>5. s \notin crossed' \cup crowded' => join = "left" /\ WorkingIn(s) = {}
  BY DEF ChangeJoin
<1>6. s \notin crossed' \cup crowded' => \A b \in Actors : ~AtWork(b, s)
  BY <1>5 DEF WorkingIn, AtWork
<1>7. ~Working(a)
  BY <1>1 DEF Working
<1>8. QED
  BY <1>1, <1>2, <1>3, <1>4, <1>5, <1>6, <1>7, MemberStep

LEMMA WriteSeats ==
    ASSUME Base, SeatInv, NEW a \in Actors, WriteSession(a)
    PROVE  SeatInv'
<1> DEFINE s == actor[a].session
           x == [sessions[s] EXCEPT !.count = actor[a].count, !.primary = actor[a].primary,
                                    !.status = actor[a].status]
           r == IF actor[a].then = "idle" THEN Idle
                ELSE [Idle EXCEPT !.at = actor[a].then, !.env = actor[a].env,
                                  !.session = actor[a].session]
<1>1. /\ actor[a].at = "writing" /\ sessions' = [sessions EXCEPT ![s] = x]
      /\ UNCHANGED <<envs, pods, calls, faults, sessionObservers>>
      /\ actor' = [actor EXCEPT ![a] = r]
  BY DEF WriteSession, Leave
<1>2. /\ s \in DOMAIN sessions /\ sessions \in Seq(Session) /\ actor \in [Actors -> Role]
      /\ actor[a].then \in Then
  BY <1>1 DEF Base, Knows, SessionTypeOK, Role
<1>3. sessions[s] \in Session
  BY <1>2
<1>4. x.count = actor[a].count /\ x.member = sessions[s].member
  BY <1>3 DEF Session
<1>5. /\ r.at = actor[a].then /\ (r.at # "idle" => r.session = s)
      /\ r.at \in {"idle", "waiting", "provisioning"}
  BY <1>2 DEF Idle, Then
<1> HIDE DEF x, r
<1>6. actor'[a] = r /\ Only(a)
  BY <1>1, <1>2 DEF Only
<1>7. /\ DOMAIN sessions' = DOMAIN sessions /\ sessions'[s] = x
      /\ \A t \in DOMAIN sessions : t # s => sessions'[t] = sessions[t]
  BY <1>1, <1>2
<1> SUFFICES ASSUME NEW t \in DOMAIN sessions, t \notin crossed \cup crowded
             PROVE  Seated(t)'
  BY <1>1, <1>7 DEF SeatInv, sessionObservers
<1>8. Seated(t)
  BY DEF SeatInv
<1>9. CASE t # s
  <2>1. ~AtWork(a, t) /\ ~AtWork(a, t)'
    BY <1>5, <1>6, <1>9 DEF AtWork, Working
  <2>2. QED
    BY <1>6, <1>7, <1>8, <1>9, <2>1, SeatedElsewhere DEF Only
<1>10. CASE t = s
  <2>1. Joined(t)' = Joined(t)
    BY <1>4, <1>7, <1>10 DEF Joined
  <2>2. AtWork(a, t)
    BY <1>1, <1>10 DEF AtWork, Working
  <2>3. Counts(t, actor[a].count)
    BY <1>1, <1>8, <2>2 DEF Seated
  <2>4. Counts(t, sessions[t].count)'
    BY <1>4, <1>7, <1>10, <2>1, <2>3 DEF Counts
  <2>5. \A b \in Actors : b # a => (AtWork(b, t)' <=> AtWork(b, t)) /\ actor'[b] = actor[b]
    BY <1>6 DEF AtWork, Working, Only
  <2>6. AtWork(a, t)' => actor'[a].at = "provisioning"
    BY <1>5, <1>6 DEF AtWork, Working
  <2>7. SeatsInTurn(t)'
    BY <1>8, <2>2, <2>5, <2>6 DEF Seated, SeatsInTurn
  <2>8. ASSUME NEW b \in Actors, AtWork(b, t)'
        PROVE  /\ actor'[b].at = "writing" => Counts(t, actor[b].count)'
               /\ actor'[b].at \in {"attaching", "joining"} => Cardinality(Joined(t)') < MaxMembers
    BY <1>8, <2>1, <2>5, <2>6, <2>8 DEF Seated, Counts
  <2>9. QED
    BY <1>8, <2>1, <2>4, <2>7, <2>8 DEF Seated
<1>11. QED
  BY <1>9, <1>10

LEMMA SeatNext ==
    ASSUME Base, SeatInv, [SessionNext]_sessionVars
    PROVE  SeatInv'
<1>1. CASE UNCHANGED sessionVars
  BY <1>1 DEF SeatInv, Seated, SeatsInTurn, Counts, Joined, AtWork, Working, sessionVars,
              sessionObservers
<1>2. ASSUME NEW a \in Actors, ActorStep(a) PROVE SeatInv'
  BY <1>2, MoveSeats, FoundSeats, BindSeats, ReadySeats, DepartSeats, WriteSeats DEF ActorStep
<1>3. ASSUME NEW a \in Actors, SessionRequest(a) PROVE SeatInv'
  <2>1. ASSUME NEW u \in Users, Create(a, u) PROVE SeatInv'
    BY <2>1, CreateSeats
  <2>2. ASSUME NEW i \in DOMAIN envs,
               StopEnv(a, i) \/ Expire(a, i) \/ PauseEnv(a, i) \/ ResumeEnv(a, i)
        PROVE  SeatInv'
    <3>1. PICK at \in {"detaching", "deleting", "pausing", "reviving"} :
              Enter(a, envs[i].session, at) /\ Begin(a, i, at)
      BY <2>2 DEF StopEnv, Expire, PauseEnv, ResumeEnv
    <3>2. UNCHANGED sessions
      BY <2>2 DEF StopEnv, Expire, PauseEnv, ResumeEnv
    <3>3. QED
      BY <3>1, <3>2, BeginSeats
  <2>3. ASSUME NEW s \in DOMAIN sessions, NEW u \in Users, NEW join \in {"joined", "left"},
               ChangeJoin(a, s, u, join)
        PROVE  SeatInv'
    BY <2>3, ChangeJoinSeats
  <2>4. QED
    BY <1>3, <2>1, <2>2, <2>3 DEF SessionRequest
<1>4. ASSUME NEW i \in DOMAIN envs, Poll(i) PROVE SeatInv'
  <2>1. UNCHANGED <<sessions, actor, crowded>> /\ crossed \subseteq crossed'
    BY <1>4 DEF Poll
  <2>2. \A s \in DOMAIN sessions : Seated(s) => Seated(s)'
    BY <2>1 DEF Seated, SeatsInTurn, Counts, Joined, AtWork, Working
  <2>3. QED
    BY <2>1, <2>2 DEF SeatInv
<1>5. QED
  BY <1>1, <1>2, <1>3, <1>4 DEF SessionNext

(* A session takes no more members than its size and counts them right,    *)
(* unless newcomers took a seat at once or a former member came back       *)
(* (attachToSharedSession, bindEnvToSession, syncSessionStatus).           *)
THEOREM SeatsKept == SessionAssumption => (SessionSpec => []SeatsRespected)
<1> SUFFICES ASSUME SessionAssumption PROVE SessionSpec => []SeatsRespected
  OBVIOUS
<1>1. SessionInit => Base /\ SeatInv
  BY BaseInit DEF SessionInit, SeatInv
<1>2. Base /\ SeatInv /\ [SessionNext]_sessionVars => Base' /\ SeatInv'
  BY BaseNext, SeatNext
<1>3. Base /\ SeatInv => SeatsRespected
  <2> SUFFICES ASSUME Base, NEW s \in DOMAIN sessions \ (crossed \cup crowded), Seated(s)
               PROVE  /\ Cardinality(Joined(s)) <= MaxMembers
                      /\ sessions[s].count = Cardinality(Joined(s)) \/ Joined(s) = {} \/ ~Quiet(s)
    BY DEF SeatInv, SeatsRespected
  <2>1. Quiet(s) => \A b \in Actors : ~AtWork(b, s)
    BY DEF Quiet, WorkingIn, AtWork
  <2>2. QED
    BY <2>1 DEF Seated, Counts
<1>4. QED
  BY <1>1, <1>2, <1>3, PTL DEF SessionSpec

-----------------------------------------------------------------------------
(***************************************************************************)
(* The pods of a session that nobody crossed or upset.                     *)
(***************************************************************************)
Alone(a, s) == \A b \in Actors : AtWork(b, s) => b = a

\* An environment that newcomers may attach to.
Sound(i) == envs[i].status # "terminated"

LastSteps == {"deleting", "closing", "pausing", "parking"}

\* Who ends an environment is alone in the session.
EndsAlone(s) ==
    \A a, b \in Actors : AtWork(a, s) /\ AtWork(b, s) /\ a # b => actor[a].at \notin Ending

\* What is about to be written of the primary environment.
Writer(a, s) ==
    /\ actor[a].status \in ActiveStatuses => Sound(actor[a].primary)
    /\ \/ actor[a].primary = sessions[s].primary
       \/ Alone(a, s) /\ Sound(actor[a].primary)

\* What an actor decided still holds.
OnCourse(a, s) ==
    /\ actor[a].at \in LastSteps => ActiveOf(s) = {actor[a].env}
    /\ actor[a].at \in {"detaching", "leaving"} => ActiveOf(s) \ {actor[a].env} # {}
    /\ actor[a].at \in {"closing", "parking"} =>
           faults > 0 \/ envs[actor[a].env].runtime \notin pods
    /\ actor[a].at = "reviving" => Sound(sessions[s].primary)
    /\ Provisions(a) => Sound(actor[a].env)
    /\ actor[a].at = "writing" => Writer(a, s)

HasPods(s) ==
    \A i \in DOMAIN envs : envs[i].session = s /\ envs[i].status = "running" =>
        \/ envs[i].runtime \in pods
        \/ \E a \in Actors : AtWork(a, s) /\ actor[a].at \in {"closing", "parking"}

PodsOwned(s) ==
    \A i \in DOMAIN envs : envs[i].session = s /\ envs[i].runtime \in pods =>
        faults > 0 \/ \E j \in DOMAIN envs : envs[j].session = s /\ Sound(j)

\* A session in use has a primary environment, or is about to be given one.
Led(s) ==
    ActiveOf(s) # {} \/ sessions[s].status \in ActiveStatuses =>
        \/ Sound(sessions[s].primary)
        \/ \E a \in Actors : AtWork(a, s) /\
            \/ actor[a].at = "leaving" /\ actor[a].env = sessions[s].primary
            \/ /\ actor[a].at = "writing" /\ Alone(a, s)
               /\ \/ Sound(actor[a].primary)
                  \/ actor[a].status \notin ActiveStatuses /\ ActiveOf(s) = {}

RuntimeSafe(s) ==
    /\ EndsAlone(s) /\ HasPods(s) /\ PodsOwned(s) /\ Led(s)
    /\ \A a \in Actors : AtWork(a, s) => OnCourse(a, s)

KeptInv == \A s \in DOMAIN sessions \ (crossed \cup upset) : RuntimeSafe(s)

LEMMA AloneAtEnd ==
    ASSUME NEW s, RuntimeSafe(s), NEW a \in Actors, AtWork(a, s), actor[a].at \in Ending
    PROVE  Alone(a, s)
BY DEF RuntimeSafe, EndsAlone, Alone

LEMMA LedNow ==
    ASSUME NEW s, RuntimeSafe(s), NEW a \in Actors, AtWork(a, s), actor[a].at \notin {"leaving", "writing"},
           ActiveOf(s) # {} \/ sessions[s].status \in ActiveStatuses
    PROVE  Sound(sessions[s].primary)
<1> SUFFICES ASSUME NEW b \in Actors, AtWork(b, s), b # a,
                    \/ actor[b].at = "leaving"
                    \/ actor[b].at = "writing" /\ Alone(b, s)
             PROVE  FALSE
  BY DEF RuntimeSafe, Led
<1>1. actor[b].at = "leaving" => Alone(b, s)
  BY AloneAtEnd DEF Ending
<1>2. QED
  BY <1>1 DEF Alone

\* No one ends an environment while somebody else is at work.
LEMMA NoEnding ==
    ASSUME NEW s, RuntimeSafe(s), NEW a \in Actors, AtWork(a, s), actor[a].at \notin Ending,
           NEW b \in Actors, AtWork(b, s)
    PROVE  actor[b].at \notin Ending
BY DEF RuntimeSafe, EndsAlone

(* What happens elsewhere.                                                 *)
LEMMA KeptElsewhere ==
    ASSUME Base, NEW s \in DOMAIN sessions, RuntimeSafe(s),
           sessions'[s].primary = sessions[s].primary, sessions'[s].status = sessions[s].status,
           \A b \in Actors : AtWork(b, s) \/ AtWork(b, s)' => actor'[b] = actor[b],
           \A i \in DOMAIN envs' : envs'[i].session = s => i \in DOMAIN envs,
           \A i \in DOMAIN envs : envs[i].session = s \/ (i \in DOMAIN envs' /\ envs'[i].session = s) =>
               /\ i \in DOMAIN envs' /\ envs'[i] = envs[i]
               /\ envs[i].runtime \in pods' <=> envs[i].runtime \in pods,
           faults' \in Nat, faults' >= faults
    PROVE  RuntimeSafe(s)'
<1>1. \A b \in Actors : AtWork(b, s)' <=> AtWork(b, s)
  BY DEF AtWork, Working
<1>2. \A b \in Actors : Alone(b, s)' <=> Alone(b, s)
  BY <1>1 DEF Alone
<1>3. EndsAlone(s)'
  BY <1>1 DEF RuntimeSafe, EndsAlone
<1>4. ActiveOf(s)' = ActiveOf(s)
  BY DEF ActiveOf, Active
<1>5. \A i \in DOMAIN envs : envs[i].session = s => (Sound(i)' <=> Sound(i))
  BY DEF Sound
<1>6. sessions[s].primary \in DOMAIN envs /\ envs[sessions[s].primary].session = s
  BY DEF Base, Primaries
<1>7. \A b \in Actors : AtWork(b, s) =>
          /\ actor[b].at \in Ending \/ Provisions(b) =>
                 actor[b].env \in DOMAIN envs /\ envs[actor[b].env].session = s
          /\ actor[b].at = "writing" =>
                 actor[b].primary \in DOMAIN envs /\ envs[actor[b].primary].session = s
  BY DEF Base, Knows, Provisions, OnEnv, Ending, AtWork
<1>8. faults > 0 => faults' > 0
  BY DEF Base, SessionTypeOK, SessionAssumption
<1>9. ASSUME NEW b \in Actors, AtWork(b, s)' PROVE OnCourse(b, s)'
  <2>1. AtWork(b, s) /\ OnCourse(b, s) /\ actor'[b] = actor[b]
    BY <1>1, <1>9 DEF RuntimeSafe
  <2>2. Provisions(b)' <=> Provisions(b)
    BY <2>1 DEF Provisions
  <2>3. actor[b].at = "writing" => Writer(b, s)'
    BY <1>2, <1>5, <1>7, <2>1 DEF OnCourse, Writer, Sound
  <2>4. actor[b].at = "reviving" => Sound(sessions[s].primary)'
    BY <1>6, <2>1 DEF OnCourse, Sound
  <2>5. actor[b].at \in {"closing", "parking"} =>
            faults' > 0 \/ envs'[actor[b].env].runtime \notin pods'
    BY <1>7, <1>8, <2>1 DEF OnCourse, Ending
  <2>6. Provisions(b) => Sound(actor[b].env)'
    BY <1>7, <2>1 DEF OnCourse, Sound
  <2>7. QED
    BY <1>4, <2>1, <2>2, <2>3, <2>4, <2>5, <2>6 DEF OnCourse, Sound
<1>10. HasPods(s)'
  BY <1>1 DEF RuntimeSafe, HasPods
<1>11. PodsOwned(s)'
  BY <1>5, <1>8 DEF RuntimeSafe, PodsOwned
<1>12. Led(s)'
  <2>1. SUFFICES ASSUME ActiveOf(s) # {} \/ sessions[s].status \in ActiveStatuses,
                        ~Sound(sessions[s].primary)
                 PROVE  Led(s)'
    BY <1>4, <1>6 DEF Led, Sound
  <2>2. PICK a \in Actors : AtWork(a, s) /\
            \/ actor[a].at = "leaving" /\ actor[a].env = sessions[s].primary
            \/ /\ actor[a].at = "writing" /\ Alone(a, s)
               /\ \/ Sound(actor[a].primary)
                  \/ actor[a].status \notin ActiveStatuses /\ ActiveOf(s) = {}
    BY <2>1 DEF RuntimeSafe, Led
  <2>3. actor'[a] = actor[a] /\ AtWork(a, s)'
    BY <1>1, <2>2
  <2>4. actor[a].at = "writing" => (Sound(actor[a].primary)' <=> Sound(actor[a].primary))
    BY <1>7, <2>2, <2>3 DEF Sound
  <2>5. QED
    BY <1>2, <1>4, <2>2, <2>3, <2>4 DEF Led
<1>13. QED
  BY <1>3, <1>9, <1>10, <1>11, <1>12 DEF RuntimeSafe

LEMMA OthersWork ==
    ASSUME NEW a \in Actors, Only(a), NEW b \in Actors, b # a, NEW s
    PROVE  /\ actor'[b] = actor[b] /\ (AtWork(b, s)' <=> AtWork(b, s))
           /\ Provisions(b)' <=> Provisions(b)
BY DEF Only, AtWork, Working, Provisions

LEMMA AfterStatus ==
    ASSUME Base, NEW i \in DOMAIN envs, NEW state \in Status, SetStatus(i, state), NEW s
    PROVE  /\ DOMAIN envs' = DOMAIN envs
           /\ ActiveOf(s)' = {j \in DOMAIN envs : envs[j].session = s /\
                  IF j = i THEN state \in ActiveStatuses ELSE Active(j)}
           /\ \A j \in DOMAIN envs :
               /\ Sound(j)' <=> IF j = i THEN state # "terminated" ELSE Sound(j)
               /\ envs'[j].session = envs[j].session /\ envs'[j].runtime = envs[j].runtime
               /\ envs'[j].status = IF j = i THEN state ELSE envs[j].status
<1>1. /\ DOMAIN envs' = DOMAIN envs /\ envs'[i].status = state
      /\ \A j \in DOMAIN envs :
          /\ envs'[j].session = envs[j].session /\ envs'[j].runtime = envs[j].runtime
          /\ j # i => envs'[j] = envs[j]
  BY StatusSet DEF Base
<1>2. ActiveOf(s)' = {j \in DOMAIN envs : envs[j].session = s /\
                          IF j = i THEN state \in ActiveStatuses ELSE Active(j)}
  BY <1>1 DEF ActiveOf, Active
<1>3. QED
  BY <1>1, <1>2 DEF Sound

\* The rows an actor at work in s goes by are rows of s.
LEMMA OwnRows ==
    ASSUME Base, NEW s \in DOMAIN sessions, NEW b \in Actors, AtWork(b, s)
    PROVE  /\ sessions[s].primary \in DOMAIN envs /\ envs[sessions[s].primary].session = s
           /\ actor[b].at \in Ending \cup {"joining", "reviving"} \/ Provisions(b) =>
                  actor[b].env \in DOMAIN envs /\ envs[actor[b].env].session = s
           /\ actor[b].at = "writing" =>
                  actor[b].primary \in DOMAIN envs /\ envs[actor[b].primary].session = s
BY DEF Base, Primaries, Knows, Provisions, OnEnv, Ending, AtWork

\* The environments of a session have one runtime, which no other session has.
LEMMA OneRuntime ==
    ASSUME Base, NEW i \in DOMAIN envs, NEW j \in DOMAIN envs
    PROVE  envs[i].runtime = envs[j].runtime <=> envs[i].session = envs[j].session
BY DEF Base, Rows

(* Somebody sets to work.                                                  *)
LEMMA KeptEntry ==
    ASSUME Base, NEW s \in DOMAIN sessions, RuntimeSafe(s), NEW a \in Actors, Only(a),
           ~AtWork(a, s), AtWork(a, s)',
           NEW at \in {"attaching", "rejoining", "detaching", "deleting", "pausing", "reviving"},
           actor'[a].at = at, NEW i, actor'[a].env = i,
           sessions'[s].primary = sessions[s].primary, sessions'[s].status = sessions[s].status,
           UNCHANGED <<envs, faults>>,
           \/ pods' = pods
           \/ at = "reviving" /\ pods \subseteq pods',
           \A b \in Actors : b # a /\ AtWork(b, s) =>
               at \notin Ending /\ actor[b].at \notin Ending \cup {"writing"},
           at \in {"deleting", "pausing"} => ActiveOf(s) = {i},
           at = "detaching" => ActiveOf(s) \ {i} # {},
           at = "reviving" => i \in ActiveOf(s)
    PROVE  RuntimeSafe(s)'
<1>1. \A b \in Actors : b # a =>
          /\ actor'[b] = actor[b] /\ (AtWork(b, s)' <=> AtWork(b, s))
          /\ Provisions(b)' <=> Provisions(b)
  BY OthersWork
<1>2. ActiveOf(s)' = ActiveOf(s) /\ \A j : Sound(j)' <=> Sound(j)
  BY DEF ActiveOf, Active, Sound
<1>3. ActiveOf(s) # {} \/ sessions[s].status \in ActiveStatuses => Sound(sessions[s].primary)
  <2> SUFFICES ASSUME NEW b \in Actors, AtWork(b, s), actor[b].at \in {"leaving", "writing"}
               PROVE  FALSE
    BY DEF RuntimeSafe, Led
  <2>1. b # a
    OBVIOUS
  <2>2. QED
    BY <2>1 DEF Ending
<1>4. EndsAlone(s)'
  BY <1>1 DEF EndsAlone
<1>5. HasPods(s)'
  <2> SUFFICES ASSUME NEW j \in DOMAIN envs, envs[j].session = s, envs[j].status = "running"
               PROVE  envs[j].runtime \in pods
    BY DEF HasPods
  <2>1. \A b \in Actors : AtWork(b, s) => actor[b].at \notin {"closing", "parking"}
    BY DEF Ending
  <2>2. QED
    BY <2>1 DEF RuntimeSafe, HasPods
<1>6. PodsOwned(s)'
  <2>1. CASE pods' = pods
    BY <1>2, <2>1 DEF RuntimeSafe, PodsOwned
  <2>2. CASE at = "reviving"
    <3>1. i \in DOMAIN envs /\ envs[i].session = s /\ Sound(i)
      BY <2>2 DEF ActiveOf, Active, Sound, ActiveStatuses
    <3>2. QED
      BY <1>2, <3>1 DEF PodsOwned
  <2>3. QED
    BY <2>1, <2>2
<1>7. Led(s)'
  BY <1>2, <1>3 DEF Led, Sound
<1>8. ASSUME NEW b \in Actors, AtWork(b, s)' PROVE OnCourse(b, s)'
  <2>1. CASE b = a
    <3>1. at = "reviving" => Sound(sessions[s].primary)'
      BY <1>3 DEF Sound
    <3>2. ~Provisions(a)'
      BY DEF Provisions
    <3>3. QED
      BY <1>2, <2>1, <3>1, <3>2 DEF OnCourse, LastSteps
  <2>2. CASE b # a
    <3>1. /\ AtWork(b, s) /\ OnCourse(b, s) /\ actor'[b] = actor[b]
          /\ actor[b].at \notin Ending \cup {"writing"}
      BY <1>1, <1>8, <2>2 DEF RuntimeSafe
    <3>2. Provisions(b)' => Sound(actor[b].env)'
      BY <1>1, <2>2, <3>1 DEF OnCourse, Sound
    <3>3. actor[b].at = "reviving" => Sound(sessions[s].primary)'
      BY <3>1 DEF OnCourse, Sound
    <3>4. QED
      BY <3>1, <3>2, <3>3 DEF OnCourse, LastSteps, Ending
  <2>3. QED
    BY <2>1, <2>2
<1>9. QED
  BY <1>4, <1>5, <1>6, <1>7, <1>8 DEF RuntimeSafe

(* An environment is given a status other than terminated, while nobody    *)
(* else ends one; the actor goes on to write or is done.                   *)
LEMMA KeptStatus ==
    ASSUME Base, NEW s \in DOMAIN sessions, RuntimeSafe(s), NEW a \in Actors, Only(a),
           NEW i \in DOMAIN envs, envs[i].session = s,
           NEW state \in Status \ {"terminated"}, SetStatus(i, state),
           UNCHANGED <<sessions, pods>>, faults' \in Nat, faults' >= faults,
           \A b \in Actors : AtWork(b, s) => actor[b].at \notin Ending,
           \A b \in Actors : b # a /\ AtWork(b, s) /\ actor[b].at = "writing" =>
               actor[b].primary = sessions[s].primary,
           state = "running" => envs[i].runtime \in pods,
           state \in ActiveStatuses => Sound(sessions[s].primary),
           ActiveOf(s) # {} \/ sessions[s].status \in ActiveStatuses =>
               Sound(sessions[s].primary),
           \/ ~AtWork(a, s)'
           \/ /\ actor'[a].at = "writing" /\ actor'[a].primary = sessions[s].primary
              /\ actor'[a].then # "provisioning"
              /\ actor'[a].status \in ActiveStatuses => Sound(sessions[s].primary)
    PROVE  RuntimeSafe(s)'
<1>1. \A b \in Actors : b # a =>
          /\ actor'[b] = actor[b] /\ (AtWork(b, s)' <=> AtWork(b, s))
          /\ Provisions(b)' <=> Provisions(b)
  BY OthersWork
<1>2. /\ DOMAIN envs' = DOMAIN envs
      /\ ActiveOf(s)' = {j \in DOMAIN envs : envs[j].session = s /\
             IF j = i THEN state \in ActiveStatuses ELSE Active(j)}
      /\ \A j \in DOMAIN envs :
          /\ Sound(j)' <=> IF j = i THEN state # "terminated" ELSE Sound(j)
          /\ envs'[j].session = envs[j].session /\ envs'[j].runtime = envs[j].runtime
          /\ envs'[j].status = IF j = i THEN state ELSE envs[j].status
  BY AfterStatus
<1>3. \A j \in DOMAIN envs : Sound(j) => Sound(j)'
  BY <1>2
<1>4. ActiveOf(s)' # {} => ActiveOf(s) # {} \/ state \in ActiveStatuses
  BY <1>2 DEF ActiveOf
<1>5. sessions[s].primary \in DOMAIN envs
  BY DEF Base, Primaries
<1>6. Led(s)'
  <2>1. ActiveOf(s)' # {} \/ sessions[s].status \in ActiveStatuses => Sound(sessions[s].primary)
    BY <1>4
  <2>2. ActiveOf(s)' # {} \/ sessions'[s].status \in ActiveStatuses => Sound(sessions[s].primary)'
    BY <1>3, <1>5, <2>1 DEF Sound
  <2>3. QED
    BY <2>2 DEF Led
<1>7. EndsAlone(s)'
  BY <1>1 DEF EndsAlone, Ending, AtWork, Working
<1>8. HasPods(s)'
  <2> SUFFICES ASSUME NEW j \in DOMAIN envs, envs[j].session = s, envs'[j].status = "running"
               PROVE  envs[j].runtime \in pods
    BY <1>2 DEF HasPods
  <2>1. CASE j = i
    BY <1>2, <2>1
  <2>2. CASE j # i
    <3>1. envs[j].status = "running"
      BY <1>2, <2>2
    <3>2. QED
      BY <3>1 DEF RuntimeSafe, HasPods, Ending
  <2>3. QED
    BY <2>1, <2>2
<1>9. PodsOwned(s)'
  BY <1>2 DEF PodsOwned
<1>10. ASSUME NEW b \in Actors, AtWork(b, s)' PROVE OnCourse(b, s)'
  <2>1. CASE b = a
    <3>1. ~Provisions(a)'
      BY <1>10, <2>1 DEF Provisions
    <3>2. Writer(a, s)'
      BY <1>3, <1>5, <1>10, <2>1 DEF Writer, Sound
    <3>3. QED
      BY <1>10, <2>1, <3>1, <3>2 DEF OnCourse, LastSteps
  <2>2. CASE b # a
    <3>1. AtWork(b, s) /\ OnCourse(b, s) /\ actor'[b] = actor[b] /\ actor[b].at \notin Ending
      BY <1>1, <1>10, <2>2 DEF RuntimeSafe
    <3>2. /\ Provisions(b) => actor[b].env \in DOMAIN envs
          /\ actor[b].at = "writing" => actor[b].primary \in DOMAIN envs
      BY <3>1, OwnRows
    <3>3. Provisions(b)' => Sound(actor[b].env)'
      BY <1>1, <1>3, <2>2, <3>1, <3>2 DEF OnCourse, Sound
    <3>4. actor[b].at = "reviving" => Sound(sessions[s].primary)'
      BY <1>3, <1>5, <3>1 DEF OnCourse, Sound
    <3>5. actor[b].at = "writing" => Writer(b, s)'
      <4>1. SUFFICES ASSUME actor[b].at = "writing" PROVE Writer(b, s)'
        OBVIOUS
      <4>2. actor[b].primary = sessions[s].primary
        BY <2>2, <3>1, <4>1
      <4>3. actor[b].status \in ActiveStatuses => Sound(actor[b].primary)'
        BY <1>3, <3>1, <3>2, <4>1 DEF OnCourse, Writer, Sound
      <4>4. QED
        BY <3>1, <4>2, <4>3 DEF Writer, Sound
    <3>6. QED
      BY <3>1, <3>3, <3>4, <3>5 DEF OnCourse, LastSteps, Ending, Sound
  <2>3. QED
    BY <2>1, <2>2
<1>11. QED
  BY <1>6, <1>7, <1>8, <1>9, <1>10 DEF RuntimeSafe

\* Who is alone in a session stays so.
LEMMA StaysAlone ==
    ASSUME NEW a \in Actors, Only(a), NEW s, Alone(a, s)
    PROVE  Alone(a, s)'
BY DEF Only, Alone, AtWork, Working

LEMMA AloneStep ==
    ASSUME NEW a \in Actors, Only(a), NEW s, Alone(a, s),
           HasPods(s)', PodsOwned(s)', Led(s)', AtWork(a, s)' => OnCourse(a, s)'
    PROVE  RuntimeSafe(s)'
<1>1. \A b \in Actors : AtWork(b, s)' => b = a
  BY StaysAlone DEF Alone
<1>2. EndsAlone(s)'
  BY <1>1 DEF EndsAlone
<1>3. QED
  BY <1>1, <1>2 DEF RuntimeSafe

\* Alone with its last steps, an actor finds its primary environment sound.
LEMMA KeptDetach ==
    ASSUME Base, NEW s \in DOMAIN sessions, RuntimeSafe(s), NEW a \in Actors, AtWork(a, s), Detach(a)
    PROVE  RuntimeSafe(s)'
<1> DEFINE i == actor[a].env
<1>1. /\ actor[a].at = "detaching" /\ SetStatus(i, "terminated") /\ GoTo(a, "leaving")
      /\ UNCHANGED <<sessions, pods, faults>>
  BY DEF Detach
<1>2. "leaving" \in Points /\ "terminated" \in Status /\ "terminated" \notin ActiveStatuses
  BY DEF Points, Status, ActiveStatuses
<1>3. /\ Only(a) /\ actor'[a].at = "leaving" /\ actor'[a].env = i
      /\ actor'[a].then = actor[a].then
  BY <1>1, <1>2, Goes DEF Only
<1>4. i \in DOMAIN envs /\ envs[i].session = s
  BY <1>1, OwnRows DEF Ending
<1>5. /\ Alone(a, s) /\ OnCourse(a, s) /\ ActiveOf(s) \ {i} # {}
  BY <1>1, AloneAtEnd DEF Ending, RuntimeSafe, OnCourse
<1>6. Sound(sessions[s].primary)
  BY <1>1, <1>5, LedNow
<1>7. sessions[s].primary \in DOMAIN envs
  BY OwnRows
<1> HIDE DEF i
<1>8. /\ DOMAIN envs' = DOMAIN envs
      /\ ActiveOf(s)' = {j \in DOMAIN envs : envs[j].session = s /\
             IF j = i THEN "terminated" \in ActiveStatuses ELSE Active(j)}
      /\ \A j \in DOMAIN envs :
          /\ Sound(j)' <=> IF j = i THEN "terminated" # "terminated" ELSE Sound(j)
          /\ envs'[j].session = envs[j].session /\ envs'[j].runtime = envs[j].runtime
          /\ envs'[j].status = IF j = i THEN "terminated" ELSE envs[j].status
  BY <1>1, <1>2, <1>4, AfterStatus
<1>9. PICK k \in DOMAIN envs : k # i /\ envs[k].session = s /\ Active(k)
  BY <1>5 DEF ActiveOf
<1>10. ActiveOf(s)' \ {i} # {}
  BY <1>8, <1>9
<1>11. HasPods(s)'
  <2> SUFFICES ASSUME NEW j \in DOMAIN envs, envs[j].session = s, envs'[j].status = "running"
               PROVE  envs[j].runtime \in pods
    BY <1>1, <1>8 DEF HasPods
  <2>1. envs[j].status = "running"
    BY <1>8
  <2>2. QED
    BY <1>1, <1>5, <2>1 DEF RuntimeSafe, HasPods, Alone
<1>12. PodsOwned(s)'
  <2>1. Sound(k)' /\ envs'[k].session = s /\ k \in DOMAIN envs'
    BY <1>8, <1>9 DEF Active, ActiveStatuses, Sound
  <2>2. QED
    BY <2>1 DEF PodsOwned
<1>13. Led(s)'
  <2>1. CASE sessions[s].primary = i
    <3>1. AtWork(a, s)'
      BY <1>1, <1>3 DEF AtWork, Working, GoTo, Base, SessionTypeOK, Role
    <3>2. QED
      BY <1>1, <1>3, <2>1, <3>1 DEF Led
  <2>2. CASE sessions[s].primary # i
    <3>1. Sound(sessions[s].primary)'
      BY <1>1, <1>6, <1>7, <1>8, <2>2 DEF Sound
    <3>2. QED
      BY <1>1, <3>1 DEF Led
  <2>3. QED
    BY <2>1, <2>2
<1>14. OnCourse(a, s)'
  <2>1. ~Provisions(a)'
    BY <1>3 DEF Provisions
  <2>2. QED
    BY <1>3, <1>10, <2>1 DEF OnCourse, LastSteps, i
<1>15. QED
  BY <1>3, <1>5, <1>11, <1>12, <1>13, <1>14, AloneStep

LEMMA KeptDepart ==
    ASSUME Base, NEW s \in DOMAIN sessions, RuntimeSafe(s), NEW a \in Actors, AtWork(a, s), Depart(a)
    PROVE  RuntimeSafe(s)'
<1>1. actor[a].at = "leaving" /\ UNCHANGED <<envs, pods, faults>> /\ actor[a].session = s
  BY DEF Depart, AtWork
<1>2. PICK i \in DOMAIN envs : i = actor[a].env /\ envs[i].session = s
  BY <1>1, OwnRows DEF Ending
<1>3. PICK u \in Users : u = actor[a].user
  BY <1>1 DEF Base, Knows
<1> DEFINE members == Joined(s) \ {u}
           count == IF members = {} THEN Cardinality(ActiveOf(s)) ELSE Cardinality(members)
<1>4. PICK join \in {"none", "left"} : sessions' = [sessions EXCEPT ![s].member[u] = join]
  <2>1. sessions' = [sessions EXCEPT ![s].member[u] =
                        IF sessions[s].member[u] = "none" THEN "none" ELSE "left"]
    BY <1>1, <1>3 DEF Depart
  <2>2. QED
    BY <2>1
<1>5. PICK p \in DOMAIN envs :
          /\ p = Successor(s, i) /\ p \in 0 .. MaxEnvs
          /\ sessions[s].primary = i /\ ActiveOf(s) \ {i} # {} => p \in ActiveOf(s) \ {i}
          /\ sessions[s].primary # i => p = sessions[s].primary
  BY <1>2, SuccessorIsOne
<1>6. Writing(a, count, p, "running", "idle")
  BY <1>1, <1>2, <1>3, <1>5 DEF Depart
<1>7. count \in Nat
  <2>1. Cardinality(members) \in Nat
    BY MembersCounted DEF Joined
  <2>2. QED
    BY <2>1, ActiveCounted
<1>8. "idle" \in Then /\ "running" \in Status
  BY DEF Then, Status, ActiveStatuses
<1> HIDE DEF count, members
<1>9. /\ Only(a) /\ actor'[a].at = "writing" /\ actor'[a].primary = p
      /\ actor'[a].then = "idle" /\ actor'[a].status = "running" /\ actor'[a].session = s
  BY <1>1, <1>5, <1>6, <1>7, <1>8, Writes DEF Only
<1>10. /\ sessions'[s].primary = sessions[s].primary
       /\ sessions'[s].status = sessions[s].status
  BY <1>4, MemberSet
<1>11. Alone(a, s) /\ OnCourse(a, s) /\ ActiveOf(s) \ {i} # {}
  BY <1>1, <1>2, AloneAtEnd DEF Ending, RuntimeSafe, OnCourse
<1>12. ActiveOf(s)' = ActiveOf(s) /\ \A j : Sound(j)' <=> Sound(j)
  BY <1>1 DEF ActiveOf, Active, Sound
<1>13. Sound(p)
  <2>1. CASE sessions[s].primary = i
    BY <1>5, <1>11, <2>1 DEF ActiveOf, Active, Sound, ActiveStatuses
  <2>2. CASE sessions[s].primary # i
    <3>1. ActiveOf(s) # {}
      BY <1>11
    <3>2. Sound(sessions[s].primary)
      <4> SUFFICES ASSUME NEW b \in Actors, AtWork(b, s),
                          \/ actor[b].at = "leaving" /\ actor[b].env = sessions[s].primary
                          \/ actor[b].at = "writing"
                   PROVE  FALSE
        BY <3>1 DEF RuntimeSafe, Led
      <4>1. b = a
        BY <1>11 DEF Alone
      <4>2. QED
        BY <1>1, <1>2, <2>2, <4>1
    <3>3. QED
      BY <1>5, <2>2, <3>2
  <2>3. QED
    BY <2>1, <2>2
<1>14. HasPods(s)'
  <2>1. \A j \in DOMAIN envs : envs[j].session = s /\ envs[j].status = "running" =>
            envs[j].runtime \in pods
    BY <1>1, <1>11 DEF RuntimeSafe, HasPods, Alone
  <2>2. QED
    BY <1>1, <2>1 DEF HasPods
<1>15. PodsOwned(s)'
  BY <1>1, <1>12 DEF RuntimeSafe, PodsOwned
<1>16. AtWork(a, s)' /\ Alone(a, s)'
  BY <1>9, <1>11, StaysAlone DEF AtWork, Working
<1>17. Sound(p)'
  BY <1>1, <1>13 DEF Sound
<1>18. Led(s)'
  BY <1>9, <1>16, <1>17 DEF Led, Sound
<1>19. OnCourse(a, s)'
  <2>1. ~Provisions(a)'
    BY <1>9 DEF Provisions
  <2>2. Writer(a, s)'
    BY <1>9, <1>16, <1>17 DEF Writer, Sound
  <2>3. QED
    BY <1>9, <2>1, <2>2 DEF OnCourse, LastSteps
<1>20. QED
  BY <1>9, <1>11, <1>14, <1>15, <1>18, <1>19, AloneStep

LEMMA KeptDeletes ==
    ASSUME Base, NEW s \in DOMAIN sessions, RuntimeSafe(s), NEW a \in Actors, AtWork(a, s),
           Delete(a) \/ PauseDeletes(a)
    PROVE  RuntimeSafe(s)'
<1>1. PICK at \in {"closing", "parking"} : DeletePods(a, at)
  BY DEF Delete, PauseDeletes
<1>2. actor[a].at \in {"deleting", "pausing"}
  BY DEF Delete, PauseDeletes
<1>3. PICK i \in DOMAIN envs : i = actor[a].env /\ envs[i].session = s
  BY <1>2, OwnRows DEF Ending
<1>4. /\ GoTo(a, at) /\ UNCHANGED <<envs, sessions>>
      /\ \/ pods' = pods \ {envs[i].runtime} /\ UNCHANGED faults
         \/ faults' = faults + 1 /\ UNCHANGED pods
  BY <1>1, <1>3 DEF DeletePods
<1>5. at \in Points
  BY DEF Points
<1>6. /\ Only(a) /\ actor'[a].at = at /\ actor'[a].env = i /\ actor'[a].session = s
  BY <1>3, <1>4, <1>5, Goes DEF Only, AtWork
<1>7. /\ Alone(a, s) /\ ActiveOf(s) = {i}
  BY <1>2, <1>3, AloneAtEnd DEF Ending, RuntimeSafe, OnCourse, LastSteps
<1>8. Sound(sessions[s].primary)
  BY <1>2, <1>7, LedNow
<1>9. ActiveOf(s)' = ActiveOf(s) /\ \A j : Sound(j)' <=> Sound(j)
  BY <1>4 DEF ActiveOf, Active, Sound
<1>10. AtWork(a, s)'
  BY <1>6 DEF AtWork, Working
<1>11. faults' > 0 \/ (faults' = faults /\ envs[i].runtime \notin pods' /\ pods' \subseteq pods)
  <2>1. faults \in Nat
    BY DEF Base, SessionTypeOK, SessionAssumption
  <2>2. QED
    BY <1>4, <2>1
<1>12. HasPods(s)'
  BY <1>6, <1>10 DEF HasPods
<1>13. PodsOwned(s)'
  BY <1>4, <1>9, <1>11 DEF RuntimeSafe, PodsOwned
<1>14. Led(s)'
  BY <1>4, <1>8, <1>9 DEF Led, Sound
<1>15. OnCourse(a, s)'
  <2>1. ~Provisions(a)'
    BY <1>6 DEF Provisions
  <2>2. QED
    BY <1>4, <1>6, <1>7, <1>9, <1>11, <2>1 DEF OnCourse, LastSteps
<1>16. QED
  BY <1>6, <1>7, <1>12, <1>13, <1>14, <1>15, AloneStep

LEMMA KeptClose ==
    ASSUME Base, NEW s \in DOMAIN sessions, RuntimeSafe(s), NEW a \in Actors, AtWork(a, s),
           Close(a) \/ Park(a)
    PROVE  RuntimeSafe(s)'
<1>1. PICK state \in {"terminated", "paused"} :
          /\ SetStatus(actor[a].env, state) /\ SyncSession(a, state, "idle")
          /\ state = "paused" => actor[a].at = "parking"
          /\ state = "terminated" => actor[a].at = "closing"
  BY DEF Close, Park
<1>2. UNCHANGED <<sessions, pods, faults>> /\ actor[a].session = s
  BY DEF Close, Park, AtWork
<1>3. PICK i \in DOMAIN envs : i = actor[a].env /\ envs[i].session = s
  BY <1>1, OwnRows DEF Ending
<1> DEFINE n == Cardinality(Joined(s))
<1>4. Writing(a, n, sessions[s].primary, state, "idle")
  BY <1>1, <1>2 DEF SyncSession
<1>5. n \in Nat /\ sessions[s].primary \in 0 .. MaxEnvs /\ sessions[s].primary \in DOMAIN envs
  BY SyncReads
<1>6. "idle" \in Then /\ state \in Status /\ (state \in ActiveStatuses <=> state = "paused")
  BY DEF Then, Status, ActiveStatuses
<1> HIDE DEF n
<1>7. /\ Only(a) /\ actor'[a].at = "writing" /\ actor'[a].primary = sessions[s].primary
      /\ actor'[a].then = "idle" /\ actor'[a].status = state /\ actor'[a].session = s
  BY <1>2, <1>4, <1>5, <1>6, Writes DEF Only
<1>8. /\ Alone(a, s) /\ ActiveOf(s) = {i}
      /\ faults > 0 \/ envs[i].runtime \notin pods
  BY <1>1, <1>3, AloneAtEnd DEF Ending, RuntimeSafe, OnCourse, LastSteps
<1>9. Sound(sessions[s].primary)
  <2>1. actor[a].at \notin {"leaving", "writing"}
    BY <1>1
  <2>2. QED
    BY <1>8, <2>1, LedNow
<1>10. /\ DOMAIN envs' = DOMAIN envs
       /\ ActiveOf(s)' = {j \in DOMAIN envs : envs[j].session = s /\
              IF j = i THEN state \in ActiveStatuses ELSE Active(j)}
       /\ \A j \in DOMAIN envs :
           /\ Sound(j)' <=> IF j = i THEN state # "terminated" ELSE Sound(j)
           /\ envs'[j].session = envs[j].session /\ envs'[j].runtime = envs[j].runtime
           /\ envs'[j].status = IF j = i THEN state ELSE envs[j].status
  BY <1>1, <1>3, <1>6, AfterStatus
<1>11. AtWork(a, s)' /\ Alone(a, s)'
  BY <1>7, <1>8, StaysAlone DEF AtWork, Working
<1>12. HasPods(s)'
  <2> SUFFICES ASSUME NEW j \in DOMAIN envs, envs[j].session = s, envs'[j].status = "running"
               PROVE  FALSE
    BY <1>10 DEF HasPods
  <2>1. j # i /\ envs[j].status = "running"
    BY <1>10
  <2>2. j \in ActiveOf(s)
    BY <2>1 DEF ActiveOf, Active, ActiveStatuses
  <2>3. QED
    BY <1>8, <2>1, <2>2
<1>13. PodsOwned(s)'
  BY <1>2, <1>3, <1>8, <1>10, OneRuntime DEF PodsOwned
<1>14. state = "terminated" => ActiveOf(s)' = {}
  BY <1>6, <1>8, <1>10 DEF ActiveOf
<1>15. state = "paused" => Sound(sessions[s].primary)'
  BY <1>2, <1>5, <1>9, <1>10 DEF Sound
<1>16. Led(s)'
  <2>1. CASE state = "paused"
    BY <1>15, <2>1 DEF Led, Sound
  <2>2. CASE state = "terminated"
    BY <1>6, <1>7, <1>11, <1>14, <2>2 DEF Led
  <2>3. QED
    BY <2>1, <2>2
<1>17. OnCourse(a, s)'
  <2>1. ~Provisions(a)'
    BY <1>7 DEF Provisions
  <2>2. Writer(a, s)'
    BY <1>2, <1>6, <1>7, <1>15 DEF Writer, Sound
  <2>3. QED
    BY <1>7, <2>1, <2>2 DEF OnCourse, LastSteps
<1>18. QED
  BY <1>7, <1>8, <1>12, <1>13, <1>16, <1>17, AloneStep

\* Nobody leaves or writes: the primary environment is the one the row names.
LEMMA LedRow ==
    ASSUME NEW s, RuntimeSafe(s), \A b \in Actors : AtWork(b, s) => actor[b].at \notin {"leaving", "writing"},
           ActiveOf(s) # {} \/ sessions[s].status \in ActiveStatuses
    PROVE  Sound(sessions[s].primary)
BY DEF RuntimeSafe, Led

\* Of two at work, none changes the primary environment.
LEMMA PrimaryShared ==
    ASSUME NEW s, RuntimeSafe(s), NEW a \in Actors, AtWork(a, s), NEW b \in Actors, AtWork(b, s), a # b,
           actor[b].at = "writing"
    PROVE  actor[b].primary = sessions[s].primary
BY DEF RuntimeSafe, OnCourse, Writer, Alone

(* What an actor reads of its session before it writes it.                 *)
LEMMA SyncWrites ==
    ASSUME Base, NEW s \in DOMAIN sessions, NEW a \in Actors, actor[a].session = s,
           NEW state \in Status, NEW then \in Then, SyncSession(a, state, then)
    PROVE  /\ Only(a) /\ actor'[a].at = "writing" /\ actor'[a].primary = sessions[s].primary
           /\ actor'[a].then = then /\ actor'[a].status = state /\ actor'[a].session = s
           /\ actor'[a].env = actor[a].env
<1> DEFINE n == Cardinality(Joined(s))
<1>1. Writing(a, n, sessions[s].primary, state, then)
  BY DEF SyncSession
<1>2. n \in Nat /\ sessions[s].primary \in 0 .. MaxEnvs
  BY SyncReads
<1> HIDE DEF n
<1>3. QED
  BY <1>1, <1>2, Writes DEF Only

LEMMA KeptReady ==
    ASSUME Base, NEW s \in DOMAIN sessions, RuntimeSafe(s), NEW a \in Actors, actor[a].session = s,
           Ready(a), s \notin crossed', s \notin upset'
    PROVE  RuntimeSafe(s)'
<1>1. /\ actor[a].at = "waiting" /\ Observe(a, s, "writing") /\ UNCHANGED <<sessions, pods>>
      /\ ~AtWork(a, s) /\ s # 0
  BY DEF Ready, AtWork, Working, Base, SessionTypeOK
<1>2. PICK i \in DOMAIN envs : i = actor[a].env /\ envs[i].session = s
  BY <1>1 DEF Base, Knows, OnEnv
<1>3. \A b \in Actors : AtWork(b, s) =>
          b # a /\ actor[b].at \notin Ending \cup {"writing"}
  BY <1>1, Uncrossed
<1>4. ActiveOf(s) # {} \/ sessions[s].status \in ActiveStatuses => Sound(sessions[s].primary)
  BY <1>3, LedRow DEF Ending
<1>5. {"running", "failed"} \subseteq Status \ {"terminated"} /\ "idle" \in Then
      /\ "failed" \notin ActiveStatuses
  BY DEF Status, ActiveStatuses, Then
<1>6. faults' \in Nat /\ faults' >= faults
  <2>1. faults \in Nat
    BY DEF Base, SessionTypeOK, SessionAssumption
  <2>2. faults' = faults \/ faults' = faults + 1
    BY DEF Ready
  <2>3. QED
    BY <2>1, <2>2
<1>7. \/ /\ envs[i].runtime \in pods /\ SetStatus(i, "running")
         /\ SyncSession(a, "running", "idle") /\ Upset(s, ~Active(i))
      \/ SetStatus(i, "failed") /\ Leave(a)
  BY <1>2 DEF Ready
<1>8. CASE /\ envs[i].runtime \in pods /\ SetStatus(i, "running")
           /\ SyncSession(a, "running", "idle") /\ Upset(s, ~Active(i))
  <2>1. Active(i)
    BY <1>8 DEF Upset
  <2>2. Sound(sessions[s].primary)
    BY <1>2, <1>4, <2>1 DEF ActiveOf
  <2>3. /\ Only(a) /\ actor'[a].at = "writing" /\ actor'[a].primary = sessions[s].primary
        /\ actor'[a].then = "idle" /\ actor'[a].status = "running" /\ actor'[a].session = s
    BY <1>5, <1>8, SyncWrites
  <2>4. QED
    BY <1>1, <1>2, <1>3, <1>4, <1>5, <1>6, <1>8, <2>2, <2>3, KeptStatus
<1>9. CASE SetStatus(i, "failed") /\ Leave(a)
  <2>1. Only(a) /\ actor'[a] = Idle
    BY <1>9, Leaves DEF Only
  <2>2. ~AtWork(a, s)'
    BY <2>1 DEF AtWork, Working, Idle
  <2>3. QED
    BY <1>1, <1>2, <1>3, <1>4, <1>5, <1>6, <1>9, <2>1, <2>2, KeptStatus
<1>10. QED
  BY <1>7, <1>8, <1>9

LEMMA KeptRevive ==
    ASSUME Base, NEW s \in DOMAIN sessions, RuntimeSafe(s), NEW a \in Actors, AtWork(a, s), Revive(a)
    PROVE  RuntimeSafe(s)'
<1>1. /\ actor[a].at = "reviving" /\ UNCHANGED <<sessions, pods, faults>>
      /\ actor[a].session = s /\ SetStatus(actor[a].env, "creating")
      /\ SyncSession(a, "creating", "waiting")
  BY DEF Revive, AtWork
<1>2. PICK i \in DOMAIN envs : i = actor[a].env /\ envs[i].session = s
  BY <1>1, OwnRows
<1>3. "creating" \in Status \ {"terminated"} /\ "waiting" \in Then
  BY DEF Status, ActiveStatuses, Then
<1>4. /\ Only(a) /\ actor'[a].at = "writing" /\ actor'[a].primary = sessions[s].primary
      /\ actor'[a].then = "waiting" /\ actor'[a].status = "creating" /\ actor'[a].session = s
  BY <1>1, <1>3, SyncWrites
<1>5. Sound(sessions[s].primary)
  BY <1>1 DEF RuntimeSafe, OnCourse
<1>6. \A b \in Actors : AtWork(b, s) => actor[b].at \notin Ending
  BY <1>1, NoEnding DEF Ending
<1>7. \A b \in Actors : b # a /\ AtWork(b, s) /\ actor[b].at = "writing" =>
          actor[b].primary = sessions[s].primary
  BY PrimaryShared
<1>8. faults \in Nat
  BY DEF Base, SessionTypeOK, SessionAssumption
<1>9. QED
  BY <1>1, <1>2, <1>3, <1>4, <1>5, <1>6, <1>7, <1>8, KeptStatus

LEMMA KeptProvision ==
    ASSUME Base, NEW s \in DOMAIN sessions, RuntimeSafe(s), NEW a \in Actors, AtWork(a, s), Provision(a)
    PROVE  RuntimeSafe(s)'
<1>1. /\ actor[a].at = "provisioning" /\ UNCHANGED sessions /\ Provisions(a)
  BY DEF Provision, Provisions
<1>2. PICK i \in DOMAIN envs : i = actor[a].env /\ envs[i].session = s /\ envs[i].runtime = i
  BY <1>1, OwnRows DEF Base, Knows
<1>3. \A b \in Actors : AtWork(b, s) => actor[b].at \notin Ending
  BY <1>1, NoEnding DEF Ending
<1>4. \A b \in Actors : b # a /\ AtWork(b, s) /\ actor[b].at = "writing" =>
          actor[b].primary = sessions[s].primary
  BY PrimaryShared
<1>5. ActiveOf(s) # {} \/ sessions[s].status \in ActiveStatuses => Sound(sessions[s].primary)
  BY <1>1, LedNow
<1>6. \/ pods' = pods \cup {i} /\ GoTo(a, "waiting") /\ UNCHANGED <<envs, faults>>
      \/ faults' = faults + 1 /\ SetStatus(i, "failed") /\ Leave(a) /\ UNCHANGED pods
  BY <1>2 DEF Provision
<1>7. CASE pods' = pods \cup {i} /\ GoTo(a, "waiting") /\ UNCHANGED <<envs, faults>>
  <2>1. Only(a) /\ actor'[a].at = "waiting"
    BY <1>7, Goes DEF Only, Points
  <2>2. ~AtWork(a, s)'
    BY <2>1 DEF AtWork, Working
  <2>3. \A b \in Actors : AtWork(b, s)' =>
            /\ b # a /\ AtWork(b, s) /\ actor'[b] = actor[b] /\ OnCourse(b, s)
            /\ Provisions(b)' <=> Provisions(b)
    BY <2>1, <2>2, OthersWork DEF RuntimeSafe
  <2>4. ActiveOf(s)' = ActiveOf(s) /\ \A j : Sound(j)' <=> Sound(j)
    BY <1>7 DEF ActiveOf, Active, Sound
  <2>5. EndsAlone(s)'
    BY <1>3, <2>3 DEF EndsAlone
  <2>6. HasPods(s)'
    BY <1>3, <1>7 DEF RuntimeSafe, HasPods, Ending
  <2>7. PodsOwned(s)'
    <3>1. Sound(i)
      BY <1>1, <1>2 DEF RuntimeSafe, OnCourse
    <3>2. QED
      BY <1>2, <1>7, <2>4, <3>1 DEF PodsOwned
  <2>8. Led(s)'
    BY <1>1, <1>5, <2>4 DEF Led, Sound
  <2>9. ASSUME NEW b \in Actors, AtWork(b, s)' PROVE OnCourse(b, s)'
    <3>1. /\ actor'[b] = actor[b] /\ OnCourse(b, s) /\ actor[b].at \notin Ending
          /\ Provisions(b)' <=> Provisions(b)
          /\ actor[b].at = "writing" => actor[b].primary = sessions[s].primary
      BY <1>3, <1>4, <2>3, <2>9
    <3>2. Provisions(b)' => Sound(actor[b].env)'
      BY <2>4, <3>1 DEF OnCourse, Sound
    <3>3. actor[b].at = "writing" => Writer(b, s)'
      BY <1>1, <2>4, <3>1 DEF OnCourse, Writer, Sound
    <3>4. actor[b].at = "reviving" => Sound(sessions[s].primary)'
      BY <1>1, <2>4, <3>1 DEF OnCourse, Sound
    <3>5. QED
      BY <3>1, <3>2, <3>3, <3>4 DEF OnCourse, LastSteps, Ending, Sound
  <2>10. QED
    BY <2>5, <2>6, <2>7, <2>8, <2>9 DEF RuntimeSafe
<1>8. CASE faults' = faults + 1 /\ SetStatus(i, "failed") /\ Leave(a) /\ UNCHANGED pods
  <2>1. Only(a) /\ actor'[a] = Idle
    BY <1>8, Leaves DEF Only
  <2>2. ~AtWork(a, s)'
    BY <2>1 DEF AtWork, Working, Idle
  <2>3. faults' \in Nat /\ faults' >= faults
    BY <1>8 DEF Base, SessionTypeOK, SessionAssumption
  <2>4. "failed" \in Status \ {"terminated"} /\ "failed" \notin ActiveStatuses
    BY DEF Status, ActiveStatuses
  <2>5. QED
    BY <1>1, <1>2, <1>3, <1>4, <1>5, <1>8, <2>1, <2>2, <2>3, <2>4, KeptStatus
<1>9. QED
  BY <1>6, <1>7, <1>8

(* The row of a newcomer is like that of the primary environment.          *)
LEMMA KeptAttach ==
    ASSUME Base, NEW s \in DOMAIN sessions, RuntimeSafe(s), NEW a \in Actors, AtWork(a, s), Attach(a)
    PROVE  RuntimeSafe(s)'
<1>1. /\ actor[a].at = "attaching" /\ UNCHANGED <<sessions, pods, faults>> /\ actor[a].session = s
      /\ actor[a].then = "idle" /\ actor[a] \in Role
      /\ actor' = [actor EXCEPT ![a].at = "joining", ![a].env = Len(envs) + 1]
  BY DEF Attach, AtWork, Base, Knows, SessionTypeOK
<1>2. PICK p \in DOMAIN envs : p = sessions[s].primary /\ envs[p].session = s
  BY OwnRows
<1> DEFINE x == [envs[p] EXCEPT !.user = actor[a].user, !.session = s]
<1>3. envs' = Append(envs, x) /\ envs \in Seq(Env) /\ envs[p] \in Env
  BY <1>1, <1>2 DEF Attach, Base, SessionTypeOK
<1>4. /\ x \in Env /\ x.session = s /\ x.runtime = envs[p].runtime
      /\ x.status = envs[p].status
  <2>1. actor[a].user \in Users /\ s \in 1 .. MaxEnvs
    BY <1>1, <1>2, <1>3 DEF Base, Knows, Env
  <2>2. QED
    BY <1>3, <2>1 DEF Env
<1> HIDE DEF x
<1>5. PICK n : n \notin DOMAIN envs /\ DOMAIN envs' = DOMAIN envs \cup {n} /\ envs'[n] = x
               /\ \A j \in DOMAIN envs : envs'[j] = envs[j]
  BY <1>3, <1>4, RowAdded
<1>6. /\ Only(a) /\ actor'[a].at = "joining" /\ actor'[a].then = "idle"
  BY <1>1 DEF Only, Role, Base, SessionTypeOK
<1>7. \A b \in Actors : AtWork(b, s) => actor[b].at \notin Ending
  BY <1>1, NoEnding DEF Ending
<1>8. \A b \in Actors : b # a /\ AtWork(b, s) /\ actor[b].at = "writing" =>
          actor[b].primary = sessions[s].primary
  BY PrimaryShared
<1>9. \A j \in DOMAIN envs : Sound(j)' <=> Sound(j)
  BY <1>5 DEF Sound
<1>10. ActiveOf(s)' # {} => ActiveOf(s) # {}
  BY <1>2, <1>4, <1>5 DEF ActiveOf, Active
<1>11. EndsAlone(s)'
  <2>1. \A b \in Actors : AtWork(b, s)' => actor'[b].at \notin Ending
    BY <1>6, <1>7, OthersWork DEF Ending
  <2>2. QED
    BY <2>1 DEF EndsAlone
<1>12. HasPods(s)'
  <2> SUFFICES ASSUME NEW j \in DOMAIN envs', envs'[j].session = s, envs'[j].status = "running"
               PROVE  envs'[j].runtime \in pods
    BY <1>1 DEF HasPods
  <2>1. PICK k \in DOMAIN envs : envs[k].session = s /\ envs[k].status = "running"
                                 /\ envs[k].runtime = envs'[j].runtime
    BY <1>2, <1>4, <1>5
  <2>2. QED
    BY <1>7, <2>1 DEF RuntimeSafe, HasPods, Ending
<1>13. PodsOwned(s)'
  <2> SUFFICES ASSUME NEW j \in DOMAIN envs', envs'[j].session = s, envs'[j].runtime \in pods,
                      ~(faults > 0)
               PROVE  \E k \in DOMAIN envs' : envs'[k].session = s /\ Sound(k)'
    BY <1>1 DEF PodsOwned
  <2>1. PICK k \in DOMAIN envs : envs[k].session = s /\ envs[k].runtime = envs'[j].runtime
    BY <1>2, <1>4, <1>5
  <2>2. PICK l \in DOMAIN envs : envs[l].session = s /\ Sound(l)
    BY <2>1 DEF RuntimeSafe, PodsOwned
  <2>3. QED
    BY <1>5, <1>9, <2>2
<1>14. Led(s)'
  <2>1. ActiveOf(s) # {} \/ sessions[s].status \in ActiveStatuses => Sound(p)
    BY <1>1, <1>2, LedNow
  <2>2. QED
    BY <1>1, <1>2, <1>9, <1>10, <2>1 DEF Led, Sound
<1>15. ASSUME NEW b \in Actors, AtWork(b, s)' PROVE OnCourse(b, s)'
  <2>1. CASE b = a
    BY <1>6, <2>1 DEF OnCourse, LastSteps, Provisions
  <2>2. CASE b # a
    <3>1. /\ AtWork(b, s) /\ actor'[b] = actor[b] /\ OnCourse(b, s) /\ actor[b].at \notin Ending
          /\ Provisions(b)' <=> Provisions(b)
      BY <1>6, <1>7, <1>15, <2>2, OthersWork DEF RuntimeSafe
    <3>2. Provisions(b)' => Sound(actor[b].env)'
      <4>1. Provisions(b) => actor[b].env \in DOMAIN envs
        BY <3>1, OwnRows
      <4>2. QED
        BY <1>9, <3>1, <4>1 DEF OnCourse, Sound
    <3>3. actor[b].at = "writing" => Writer(b, s)'
      BY <1>1, <1>2, <1>8, <1>9, <2>2, <3>1 DEF OnCourse, Writer, Sound
    <3>4. actor[b].at = "reviving" => Sound(sessions[s].primary)'
      BY <1>1, <1>2, <1>9, <3>1 DEF OnCourse, Sound
    <3>5. QED
      BY <3>1, <3>2, <3>3, <3>4 DEF OnCourse, LastSteps, Ending
  <2>3. QED
    BY <2>1, <2>2
<1>16. QED
  BY <1>11, <1>12, <1>13, <1>14, <1>15 DEF RuntimeSafe

(* What is read of a session that nobody ends may be written back.         *)
LEMMA KeptSync ==
    ASSUME Base, NEW s \in DOMAIN sessions, RuntimeSafe(s), NEW a \in Actors, AtWork(a, s), Only(a),
           actor[a].at \in {"joining", "rejoining"}, UNCHANGED <<envs, pods, faults>>,
           sessions'[s].primary = sessions[s].primary, sessions'[s].status = sessions[s].status,
           actor'[a].at = "writing", actor'[a].session = s,
           actor'[a].primary = sessions[s].primary,
           actor'[a].status \in ActiveStatuses =>
               ActiveOf(s) # {} \/ sessions[s].status \in ActiveStatuses,
           Provisions(a)' => Provisions(a) /\ actor'[a].env = actor[a].env
    PROVE  RuntimeSafe(s)'
<1>1. \A b \in Actors : AtWork(b, s) => actor[b].at \notin Ending
  BY NoEnding DEF Ending
<1>2. ActiveOf(s) # {} \/ sessions[s].status \in ActiveStatuses => Sound(sessions[s].primary)
  BY LedNow
<1>3. ActiveOf(s)' = ActiveOf(s) /\ \A j : Sound(j)' <=> Sound(j)
  BY DEF ActiveOf, Active, Sound
<1>4. EndsAlone(s)'
  <2>1. \A b \in Actors : AtWork(b, s)' => actor'[b].at \notin Ending
    BY <1>1, OthersWork DEF Ending
  <2>2. QED
    BY <2>1 DEF EndsAlone
<1>5. HasPods(s)'
  BY <1>1 DEF RuntimeSafe, HasPods, Ending
<1>6. PodsOwned(s)'
  BY <1>3 DEF RuntimeSafe, PodsOwned
<1>7. Led(s)'
  BY <1>2, <1>3 DEF Led, Sound
<1>8. ASSUME NEW b \in Actors, AtWork(b, s)' PROVE OnCourse(b, s)'
  <2>1. CASE b = a
    <3>1. Provisions(a)' => Sound(actor[a].env)'
      BY <1>3 DEF RuntimeSafe, OnCourse, Sound
    <3>2. Writer(a, s)'
      BY <1>2, <1>3 DEF Writer, Sound
    <3>3. QED
      BY <2>1, <3>1, <3>2 DEF OnCourse, LastSteps
  <2>2. CASE b # a
    <3>1. /\ AtWork(b, s) /\ actor'[b] = actor[b] /\ OnCourse(b, s) /\ actor[b].at \notin Ending
          /\ Provisions(b)' <=> Provisions(b)
          /\ actor[b].at = "writing" => actor[b].primary = sessions[s].primary
      BY <1>1, <1>8, <2>2, OthersWork, PrimaryShared DEF RuntimeSafe
    <3>2. Provisions(b)' => Sound(actor[b].env)'
      BY <1>3, <3>1 DEF OnCourse, Sound
    <3>3. actor[b].at = "writing" => Writer(b, s)'
      BY <1>3, <3>1 DEF OnCourse, Writer, Sound
    <3>4. actor[b].at = "reviving" => Sound(sessions[s].primary)'
      BY <1>3, <3>1 DEF OnCourse, Sound
    <3>5. QED
      BY <3>1, <3>2, <3>3, <3>4 DEF OnCourse, LastSteps, Ending
  <2>3. QED
    BY <2>1, <2>2
<1>9. QED
  BY <1>4, <1>5, <1>6, <1>7, <1>8 DEF RuntimeSafe

LEMMA KeptRecount ==
    ASSUME Base, NEW s \in DOMAIN sessions, RuntimeSafe(s), NEW a \in Actors, AtWork(a, s), Recount(a)
    PROVE  RuntimeSafe(s)'
<1>1. /\ actor[a].at = "rejoining" /\ UNCHANGED <<envs, sessions, pods, faults>>
      /\ actor[a].session = s /\ SyncSession(a, sessions[s].status, "idle")
  BY DEF Recount, AtWork
<1>2. sessions[s].status \in Status /\ "idle" \in Then
  BY SyncReads DEF Then
<1>3. /\ Only(a) /\ actor'[a].at = "writing" /\ actor'[a].primary = sessions[s].primary
      /\ actor'[a].then = "idle" /\ actor'[a].status = sessions[s].status
      /\ actor'[a].session = s
  BY <1>1, <1>2, SyncWrites
<1>4. ~Provisions(a)'
  BY <1>3 DEF Provisions
<1>5. QED
  BY <1>1, <1>3, <1>4, KeptSync

LEMMA KeptBind ==
    ASSUME Base, NEW s \in DOMAIN sessions, RuntimeSafe(s), NEW a \in Actors, AtWork(a, s), Bind(a)
    PROVE  RuntimeSafe(s)'
<1>1. /\ actor[a].at = "joining" /\ UNCHANGED <<envs, pods, faults>> /\ actor[a].session = s
  BY DEF Bind, AtWork
<1>2. PICK i \in DOMAIN envs : i = actor[a].env /\ envs[i].session = s
  BY <1>1, OwnRows
<1>3. PICK u \in Users, then \in {"idle", "provisioning"} :
          u = actor[a].user /\ then = actor[a].then
  BY <1>1 DEF Base, Knows
<1>4. PICK state \in Status : state = envs[i].status
  BY EnvPlaces
<1> DEFINE n == Cardinality(Joined(s) \cup {u})
<1>5. /\ sessions' = [sessions EXCEPT ![s].member[u] = "joined"]
      /\ Writing(a, n, sessions[s].primary, state, then)
  BY <1>1, <1>2, <1>3, <1>4 DEF Bind
<1>6. n \in Nat /\ sessions[s].primary \in 0 .. MaxEnvs /\ then \in Then
  <2>1. Joined(s) \cup {u} \subseteq Users
    BY DEF Joined
  <2>2. QED
    BY <2>1, MembersCounted, SyncReads DEF Then
<1> HIDE DEF n
<1>7. /\ Only(a) /\ actor'[a].at = "writing" /\ actor'[a].primary = sessions[s].primary
      /\ actor'[a].then = then /\ actor'[a].status = state /\ actor'[a].session = s
      /\ actor'[a].env = i
  BY <1>1, <1>2, <1>5, <1>6, Writes DEF Only
<1>8. sessions'[s].primary = sessions[s].primary /\ sessions'[s].status = sessions[s].status
  BY <1>5, MemberSet
<1>9. state \in ActiveStatuses => ActiveOf(s) # {}
  BY <1>2, <1>4 DEF ActiveOf, Active
<1>10. Provisions(a)' => Provisions(a)
  BY <1>1, <1>3, <1>7 DEF Provisions
<1>11. QED
  BY <1>1, <1>2, <1>7, <1>8, <1>9, <1>10, KeptSync

LEMMA KeptWrite ==
    ASSUME Base, NEW s \in DOMAIN sessions, RuntimeSafe(s), NEW a \in Actors, AtWork(a, s),
           WriteSession(a)
    PROVE  RuntimeSafe(s)'
<1> DEFINE x == [sessions[s] EXCEPT !.count = actor[a].count, !.primary = actor[a].primary,
                                    !.status = actor[a].status]
           r == IF actor[a].then = "idle" THEN Idle
                ELSE [Idle EXCEPT !.at = actor[a].then, !.env = actor[a].env, !.session = s]
<1>1. /\ actor[a].at = "writing" /\ sessions' = [sessions EXCEPT ![s] = x]
      /\ UNCHANGED <<envs, pods, faults>> /\ actor' = [actor EXCEPT ![a] = r]
  BY DEF WriteSession, Leave, AtWork
<1>2. /\ sessions \in Seq(Session) /\ actor \in [Actors -> Role] /\ actor[a].then \in Then
      /\ actor[a].session = s
  BY DEF Base, SessionTypeOK, Role, AtWork
<1>3. sessions[s] \in Session
  BY <1>2
<1>4. x.primary = actor[a].primary /\ x.status = actor[a].status
  BY <1>3 DEF Session
<1>5. /\ r.at \in {"idle", "waiting", "provisioning"} /\ r.then = "idle"
      /\ r.at = "provisioning" => actor[a].then = "provisioning" /\ r.env = actor[a].env
  BY <1>2 DEF Idle, Then
<1> HIDE DEF x, r
<1>6. actor'[a] = r /\ Only(a)
  BY <1>1, <1>2 DEF Only
<1>7. sessions'[s].primary = actor[a].primary /\ sessions'[s].status = actor[a].status
  BY <1>1, <1>2, <1>4
<1>8. ActiveOf(s)' = ActiveOf(s) /\ \A j : Sound(j)' <=> Sound(j)
  BY <1>1 DEF ActiveOf, Active, Sound
<1>9. \A b \in Actors : b # a /\ AtWork(b, s) =>
          /\ ~Alone(a, s) /\ actor[b].at \notin Ending
          /\ actor[b].at = "writing" => actor[b].primary = sessions[s].primary
  BY <1>1, NoEnding, PrimaryShared DEF Alone, Ending
<1>10. Writer(a, s)
  BY <1>1 DEF RuntimeSafe, OnCourse
<1>11. ~Alone(a, s) => actor[a].primary = sessions[s].primary
  BY <1>10 DEF Writer
<1>12. AtWork(a, s)' => actor'[a].at = "provisioning"
  BY <1>5, <1>6 DEF AtWork, Working
<1>13. EndsAlone(s)'
  <2>1. \A b \in Actors : b # a /\ AtWork(b, s)' => actor'[b].at \notin Ending
    BY <1>6, <1>9, OthersWork
  <2>2. QED
    BY <1>12, <2>1 DEF EndsAlone, Ending
<1>14. HasPods(s)'
  <2>1. \A b \in Actors : AtWork(b, s) => actor[b].at \notin {"closing", "parking"}
    BY <1>1, <1>9 DEF Ending
  <2>2. QED
    BY <1>1, <2>1 DEF RuntimeSafe, HasPods
<1>15. PodsOwned(s)'
  BY <1>1, <1>8 DEF RuntimeSafe, PodsOwned
<1>16. ActiveOf(s) # {} \/ actor[a].status \in ActiveStatuses => Sound(actor[a].primary)
  <2>1. ActiveOf(s) # {} => Sound(sessions[s].primary) \/ Sound(actor[a].primary)
    <3> SUFFICES ASSUME ActiveOf(s) # {}, ~Sound(sessions[s].primary)
                 PROVE  Sound(actor[a].primary)
      OBVIOUS
    <3>1. PICK b \in Actors : AtWork(b, s) /\
              \/ actor[b].at = "leaving"
              \/ actor[b].at = "writing" /\ Alone(b, s) /\ Sound(actor[b].primary)
      BY DEF RuntimeSafe, Led
    <3>2. b = a
      BY <1>1, <1>9, <3>1 DEF Ending, Alone
    <3>3. QED
      BY <1>1, <3>1, <3>2
  <2>2. QED
    BY <1>10, <2>1 DEF Writer
<1>17. Led(s)'
  BY <1>7, <1>8, <1>16 DEF Led, Sound
<1>18. ASSUME NEW b \in Actors, AtWork(b, s)' PROVE OnCourse(b, s)'
  <2>1. CASE b = a
    <3>1. Provisions(a)' => Provisions(a) /\ actor'[a].env = actor[a].env
      BY <1>1, <1>5, <1>6 DEF Provisions
    <3>2. Provisions(a)' => Sound(actor[a].env)'
      BY <1>8, <3>1 DEF RuntimeSafe, OnCourse, Sound
    <3>3. QED
      BY <1>12, <1>18, <2>1, <3>2 DEF OnCourse, LastSteps, Sound
  <2>2. CASE b # a
    <3>1. /\ AtWork(b, s) /\ actor'[b] = actor[b] /\ OnCourse(b, s) /\ actor[b].at \notin Ending
          /\ Provisions(b)' <=> Provisions(b)
          /\ actor[b].at = "writing" => actor[b].primary = sessions[s].primary
          /\ sessions'[s].primary = sessions[s].primary
      BY <1>6, <1>7, <1>9, <1>11, <1>18, <2>2, OthersWork DEF RuntimeSafe
    <3>2. Provisions(b)' => Sound(actor[b].env)'
      BY <1>8, <3>1 DEF OnCourse, Sound
    <3>3. actor[b].at = "writing" => Writer(b, s)'
      BY <1>8, <3>1 DEF OnCourse, Writer, Sound
    <3>4. actor[b].at = "reviving" => Sound(sessions[s].primary)'
      BY <1>8, <3>1 DEF OnCourse, Sound
    <3>5. QED
      BY <3>1, <3>2, <3>3, <3>4 DEF OnCourse, LastSteps, Ending
  <2>3. QED
    BY <2>1, <2>2
<1>19. QED
  BY <1>13, <1>14, <1>15, <1>17, <1>18 DEF RuntimeSafe

-----------------------------------------------------------------------------
(***************************************************************************)
(* Every step keeps every session that it does not cross or upset.         *)
(***************************************************************************)

\* Nothing of the rows and pods of other sessions than t changes.
RowsElsewhere(t) ==
    /\ \A i \in DOMAIN envs' : envs'[i].session # t => i \in DOMAIN envs
    /\ \A i \in DOMAIN envs : envs[i].session # t =>
        /\ i \in DOMAIN envs' /\ envs'[i] = envs[i]
        /\ envs[i].runtime \in pods' <=> envs[i].runtime \in pods
    /\ \A i \in DOMAIN envs : i \in DOMAIN envs' => envs'[i].session = envs[i].session
    /\ \A s \in DOMAIN sessions : s # t =>
        sessions'[s].primary = sessions[s].primary /\ sessions'[s].status = sessions[s].status

\* Faults are only added.
FaultsStand == faults' \in Nat /\ faults' >= faults

(* A step of actor a that concerns session t.                              *)
LEMMA KeptStep ==
    ASSUME Base, KeptInv, NEW a \in Actors, Only(a), NEW t, RowsElsewhere(t), FaultsStand,
           DOMAIN sessions' = DOMAIN sessions, crossed \subseteq crossed', upset \subseteq upset',
           Working(a) => actor[a].session = t, Working(a)' => actor'[a].session = t,
           t \in DOMAIN sessions /\ t \notin crossed' \cup upset' /\ RuntimeSafe(t) => RuntimeSafe(t)'
    PROVE  KeptInv'
<1> SUFFICES ASSUME NEW s \in DOMAIN sessions, s \notin crossed' \cup upset'
             PROVE  RuntimeSafe(s)'
  BY DEF KeptInv
<1>1. RuntimeSafe(s)
  BY DEF KeptInv
<1>2. CASE s = t
  BY <1>1, <1>2
<1>3. CASE s # t
  <2>1. ~AtWork(a, s) /\ ~AtWork(a, s)'
    BY <1>3 DEF AtWork
  <2>2. \A b \in Actors : AtWork(b, s) \/ AtWork(b, s)' => actor'[b] = actor[b]
    BY <2>1 DEF Only
  <2>3. /\ \A i \in DOMAIN envs' : envs'[i].session = s => i \in DOMAIN envs
        /\ \A i \in DOMAIN envs :
            envs[i].session = s \/ (i \in DOMAIN envs' /\ envs'[i].session = s) =>
                /\ i \in DOMAIN envs' /\ envs'[i] = envs[i]
                /\ envs[i].runtime \in pods' <=> envs[i].runtime \in pods
    BY <1>3 DEF RowsElsewhere
  <2>4. QED
    BY <1>1, <1>3, <2>2, <2>3, KeptElsewhere DEF RowsElsewhere, FaultsStand
<1>4. QED
  BY <1>2, <1>3

LEMMA FaultsAdded ==
    ASSUME Base, faults' = faults \/ faults' = faults + 1
    PROVE  FaultsStand
BY DEF Base, SessionTypeOK, SessionAssumption, FaultsStand

LEMMA StatusElsewhere ==
    ASSUME Base, NEW i \in DOMAIN envs, NEW state \in Status, SetStatus(i, state),
           UNCHANGED <<sessions, pods>>
    PROVE  RowsElsewhere(envs[i].session)
<1>1. /\ DOMAIN envs' = DOMAIN envs
      /\ \A j \in DOMAIN envs :
          envs'[j].session = envs[j].session /\ (j # i => envs'[j] = envs[j])
  BY StatusSet DEF Base
<1>2. QED
  BY <1>1 DEF RowsElsewhere

LEMMA PodsElsewhere ==
    ASSUME Base, NEW i \in DOMAIN envs, UNCHANGED <<envs, sessions>>,
           \/ pods' = pods
           \/ pods' = pods \ {envs[i].runtime}
           \/ pods' = pods \cup {envs[i].runtime}
    PROVE  RowsElsewhere(envs[i].session)
<1>1. \A j \in DOMAIN envs : envs[j].session # envs[i].session =>
          envs[j].runtime # envs[i].runtime
  BY OneRuntime
<1>2. QED
  BY <1>1 DEF RowsElsewhere

LEMMA StillElsewhere ==
    ASSUME UNCHANGED <<envs, pods>>, NEW t,
           \A s \in DOMAIN sessions : s # t =>
               sessions'[s].primary = sessions[s].primary /\ sessions'[s].status = sessions[s].status
    PROVE  RowsElsewhere(t)
BY DEF RowsElsewhere

-----------------------------------------------------------------------------
(* A member sets to end, or to revive, their environment.                  *)
LEMMA BeginKept ==
    ASSUME Base, KeptInv, NEW a \in Actors, NEW i \in DOMAIN envs,
           NEW at \in {"detaching", "deleting", "pausing", "reviving"},
           Enter(a, envs[i].session, at), Begin(a, i, at), UNCHANGED <<envs, sessions, faults>>,
           \/ pods' = pods
           \/ at = "reviving" /\ pods' = pods \cup {envs[i].runtime},
           upset \subseteq upset',
           envs[i].session \notin upset' => Active(i),
           at = "detaching" => OthersActive(i),
           at = "deleting" => envs[i].session \in upset' \/ ~OthersActive(i),
           at = "pausing" => envs[i].session \in upset' \/ ~OthersActive(i)
    PROVE  KeptInv'
<1>1. PICK s \in DOMAIN sessions : s = envs[i].session
  BY EnvPlaces
<1>2. at \in Points /\ s # 0
  BY DEF Points, Base, SessionTypeOK
<1>3. Only(a) /\ actor'[a].at = at /\ actor'[a].env = i /\ actor'[a].session = s
  BY <1>1, <1>2, Begins DEF Only
<1>4. actor[a].at = "idle" /\ Observe(a, s, at)
  BY <1>1 DEF Enter
<1>5. /\ ~Working(a) /\ ~AtWork(a, s) /\ AtWork(a, s)' /\ crossed \subseteq crossed'
  BY <1>3, <1>4 DEF AtWork, Working, Observe
<1>6. FaultsStand
  BY FaultsAdded
<1>7. RowsElsewhere(s)
  BY <1>1, PodsElsewhere
<1>8. ASSUME s \notin crossed' \cup upset', RuntimeSafe(s) PROVE RuntimeSafe(s)'
  <2>1. \A b \in Actors : b # a /\ AtWork(b, s) =>
            at \notin Ending /\ actor[b].at \notin Ending \cup {"writing"}
    BY <1>2, <1>4, <1>8, Uncrossed
  <2>2. i \in ActiveOf(s)
    BY <1>1, <1>8 DEF ActiveOf
  <2>3. OthersActive(i) <=> ActiveOf(s) \ {i} # {}
    <3>1. PICK n \in Nat : DOMAIN envs = 1 .. n
      BY DEF Base, SessionTypeOK
    <3>2. ActiveOf(s) \subseteq 1 .. n
      BY <3>1 DEF ActiveOf
    <3>3. QED
      BY <1>1, <2>2, <3>2, MoreThanOne DEF OthersActive
  <2>4. /\ at \in {"deleting", "pausing"} => ActiveOf(s) = {i}
        /\ at = "detaching" => ActiveOf(s) \ {i} # {}
    BY <1>1, <1>8, <2>2, <2>3
  <2>5. pods' = pods \/ (at = "reviving" /\ pods \subseteq pods')
    OBVIOUS
  <2>6. QED
    BY <1>3, <1>5, <1>8, <2>1, <2>2, <2>4, <2>5, KeptEntry
<1>9. QED
  BY <1>1, <1>3, <1>5, <1>6, <1>7, <1>8, KeptStep

LEMMA RequestKept ==
    ASSUME Base, KeptInv, NEW a \in Actors, NEW i \in DOMAIN envs,
           StopEnv(a, i) \/ Expire(a, i) \/ PauseEnv(a, i) \/ ResumeEnv(a, i)
    PROVE  KeptInv'
<1> DEFINE s == envs[i].session
<1>1. CASE StopEnv(a, i)
  <2> DEFINE at == IF OthersActive(i) THEN "detaching" ELSE "deleting"
  <2>1. /\ Enter(a, s, at) /\ Begin(a, i, at) /\ Upset(s, ~Active(i))
        /\ UNCHANGED <<envs, sessions, pods, faults>>
    BY <1>1 DEF StopEnv
  <2>2. /\ upset \subseteq upset' /\ (s \notin upset' => Active(i))
        /\ at \in {"detaching", "deleting"} /\ (at = "detaching" <=> OthersActive(i))
    BY <2>1 DEF Upset
  <2> HIDE DEF at
  <2>3. QED
    BY <2>1, <2>2, BeginKept
<1>2. ASSUME NEW at \in {"deleting", "pausing"}, envs[i].status = "running",
             Enter(a, s, at), Begin(a, i, at), Upset(s, OthersActive(i)),
             UNCHANGED <<envs, sessions, pods, faults>>
      PROVE  KeptInv'
  <2>1. /\ upset \subseteq upset' /\ Active(i) /\ (s \in upset' \/ ~OthersActive(i))
    BY <1>2 DEF Upset, Active, ActiveStatuses
  <2>2. QED
    BY <1>2, <2>1, BeginKept
<1>3. CASE ResumeEnv(a, i)
  <2>1. /\ envs[i].status = "paused" /\ Enter(a, s, "reviving") /\ Begin(a, i, "reviving")
        /\ pods' = pods \cup {envs[i].runtime} /\ UNCHANGED <<envs, sessions, faults, upset>>
    BY <1>3 DEF ResumeEnv
  <2>2. Active(i)
    BY <2>1 DEF Active, ActiveStatuses
  <2>3. QED
    BY <2>1, <2>2, BeginKept
<1>4. QED
  BY <1>1, <1>2, <1>3 DEF Expire, PauseEnv

(* A newcomer, or a member who comes back or leaves: no row changes yet.   *)
LEMMA SeatEntryKept ==
    ASSUME Base, KeptInv, NEW a \in Actors, NEW t \in DOMAIN sessions \cup {0}, Only(a),
           ~Working(a), NEW at \in {"attaching", "founding", "rejoining"}, actor'[a].at = at,
           actor'[a].session = t, at = "founding" => t = 0,
           UNCHANGED <<envs, pods, faults, upset>>, DOMAIN sessions' = DOMAIN sessions,
           \A s \in DOMAIN sessions :
               sessions'[s].primary = sessions[s].primary /\ sessions'[s].status = sessions[s].status,
           crossed \subseteq crossed',
           t \notin crossed' /\ t # 0 => \A b \in Actors : b # a /\ AtWork(b, t) =>
               actor[b].at \notin Ending \cup {"writing"}
    PROVE  KeptInv'
<1>1. FaultsStand
  BY FaultsAdded
<1>2. RowsElsewhere(t)
  BY StillElsewhere
<1>3. ASSUME t \in DOMAIN sessions, t \notin crossed' \cup upset', RuntimeSafe(t) PROVE RuntimeSafe(t)'
  <2>1. t # 0
    BY <1>3 DEF Base, SessionTypeOK
  <2>2. ~AtWork(a, t) /\ AtWork(a, t)' /\ at \in {"attaching", "rejoining"} /\ at \notin Ending
    BY <2>1 DEF AtWork, Working, Ending
  <2>3. QED
    BY <1>3, <2>1, <2>2, KeptEntry
<1>4. QED
  BY <1>1, <1>2, <1>3, KeptStep

LEMMA CreateKept ==
    ASSUME Base, KeptInv, NEW a \in Actors, NEW u \in Users, Create(a, u)
    PROVE  KeptInv'
<1> DEFINE s == IF Reusable # 0 /\ HasRoom(Reusable) THEN Reusable ELSE 0
           at == IF s # 0 THEN "attaching" ELSE "founding"
           r == [Idle EXCEPT !.at = at, !.session = s, !.user = u]
<1>1. /\ actor[a].at = "idle" /\ Observe(a, s, at) /\ actor' = [actor EXCEPT ![a] = r]
      /\ UNCHANGED <<envs, sessions, pods, faults, upset>>
  BY DEF Create, Enter
<1>2. PICK t \in DOMAIN sessions \cup {0} : t = s
  BY ReusableIsOne
<1> HIDE DEF s
<1>3. PICK point \in {"attaching", "founding"} : point = at /\ (point = "founding" <=> t = 0)
  BY <1>2
<1> HIDE DEF at
<1>4. r.at = point /\ r.session = t
  BY <1>2, <1>3 DEF Idle
<1> HIDE DEF r
<1>5. actor'[a] = r /\ Only(a)
  BY <1>1 DEF Only, Base, SessionTypeOK
<1>6. ~Working(a) /\ Observe(a, t, point) /\ crossed \subseteq crossed'
  BY <1>1, <1>2, <1>3 DEF Working, Observe
<1>7. t \notin crossed' /\ t # 0 => \A b \in Actors : b # a /\ AtWork(b, t) =>
          actor[b].at \notin Ending \cup {"writing"}
  BY <1>6, Uncrossed
<1>8. QED
  BY <1>1, <1>3, <1>4, <1>5, <1>6, <1>7, SeatEntryKept

LEMMA ChangeJoinKept ==
    ASSUME Base, KeptInv, NEW a \in Actors, NEW s \in DOMAIN sessions, NEW u \in Users,
           NEW join \in {"joined", "left"}, ChangeJoin(a, s, u, join)
    PROVE  KeptInv'
<1> DEFINE r == [Idle EXCEPT !.at = "rejoining", !.session = s]
<1>1. /\ sessions' = [sessions EXCEPT ![s].member[u] = join] /\ actor[a].at = "idle"
      /\ actor' = [actor EXCEPT ![a] = r] /\ UNCHANGED <<envs, pods, faults, upset>>
      /\ crossed' = IF WorkingIn(s) = {} THEN crossed ELSE crossed \cup {s}
  BY DEF ChangeJoin
<1>2. r.at = "rejoining" /\ r.session = s
  BY DEF Idle
<1> HIDE DEF r
<1>3. actor'[a] = r /\ Only(a) /\ ~Working(a)
  BY <1>1 DEF Only, Base, SessionTypeOK, Working
<1>4. /\ DOMAIN sessions' = DOMAIN sessions
      /\ \A t \in DOMAIN sessions :
          sessions'[t].primary = sessions[t].primary /\ sessions'[t].status = sessions[t].status
  BY <1>1, MemberSet
<1>5. crossed \subseteq crossed' /\ (s \notin crossed' => \A b \in Actors : ~AtWork(b, s))
  BY <1>1 DEF WorkingIn, AtWork
<1>6. QED
  BY <1>1, <1>2, <1>3, <1>4, <1>5, SeatEntryKept

(* An actor that goes on stays with its session.                           *)
LEMMA StaysWith ==
    ASSUME Base, NEW a \in Actors, ActorStep(a), ~Found(a)
    PROVE  Only(a) /\ (Working(a)' => actor'[a].session = actor[a].session)
<1>1. actor \in [Actors -> Role]
  BY DEF Base, SessionTypeOK
<1>2. ASSUME NEW at, GoTo(a, at) PROVE Only(a) /\ actor'[a].session = actor[a].session
  BY <1>1, <1>2 DEF GoTo, Only, Role
<1>3. ASSUME NEW n, NEW p, NEW state, NEW then, Writing(a, n, p, state, then)
      PROVE  Only(a) /\ actor'[a].session = actor[a].session
  BY <1>1, <1>3 DEF Writing, Only, Role
<1>4. ASSUME Leave(a) PROVE Only(a) /\ ~Working(a)'
  BY <1>1, <1>4 DEF Leave, Only, Working, Idle
<1>5. CASE Attach(a)
  BY <1>1, <1>5 DEF Attach, Only, Role
<1>6. CASE WriteSession(a)
  <2>1. \/ Leave(a)
        \/ actor' = [actor EXCEPT ![a] = [Idle EXCEPT !.at = actor[a].then,
                         !.env = actor[a].env, !.session = actor[a].session]]
    BY <1>6 DEF WriteSession
  <2>2. QED
    BY <1>1, <1>4, <2>1 DEF Only, Idle
<1>7. CASE Bind(a) \/ Depart(a)
  BY <1>3, <1>7 DEF Bind, Depart
<1>8. CASE Close(a) \/ Park(a) \/ Revive(a) \/ Recount(a)
  BY <1>3, <1>8 DEF Close, Park, Revive, Recount, SyncSession
<1>9. CASE Detach(a) \/ Delete(a) \/ PauseDeletes(a)
  BY <1>2, <1>9 DEF Detach, Delete, PauseDeletes, DeletePods
<1>10. CASE Provision(a)
  BY <1>2, <1>4, <1>10 DEF Provision
<1>11. CASE Ready(a)
  BY <1>3, <1>4, <1>11 DEF Ready, SyncSession
<1>12. QED
  BY <1>5, <1>6, <1>7, <1>8, <1>9, <1>10, <1>11 DEF ActorStep

(* What concerns the rows of other sessions, and the counters.             *)
LEMMA StepElsewhere ==
    ASSUME Base, NEW a \in Actors, ActorStep(a), ~Found(a)
    PROVE  /\ RowsElsewhere(actor[a].session) /\ FaultsStand
           /\ actor[a].session \in DOMAIN sessions /\ DOMAIN sessions' = DOMAIN sessions
           /\ crossed \subseteq crossed' /\ upset \subseteq upset'
<1> DEFINE s == actor[a].session
           i == actor[a].env
<1>1. CASE Attach(a)
  <2>1. /\ s \in DOMAIN sessions /\ UNCHANGED <<sessions, pods, faults, sessionObservers>>
        /\ envs' = Append(envs, [envs[sessions[s].primary] EXCEPT
                               !.user = actor[a].user, !.session = s])
        /\ actor[a].user \in Users
    BY <1>1 DEF Attach, Base, Knows
  <2>2. PICK p \in DOMAIN envs : p = sessions[s].primary /\ envs[p].session = s
    BY <2>1, SyncReads
  <2> DEFINE x == [envs[p] EXCEPT !.user = actor[a].user, !.session = s]
  <2>3. envs \in Seq(Env) /\ envs[p] \in Env /\ envs' = Append(envs, x)
    BY <2>1, <2>2 DEF Base, SessionTypeOK
  <2>4. x \in Env /\ x.session = s
    BY <2>1, <2>2, <2>3 DEF Env
  <2> HIDE DEF x
  <2>5. /\ DOMAIN envs' = DOMAIN envs \cup {Len(envs) + 1} /\ envs'[Len(envs) + 1] = x
        /\ \A j \in DOMAIN envs : envs'[j] = envs[j]
    BY <2>3, <2>4, RowAdded
  <2>6. RowsElsewhere(s)
    BY <2>1, <2>4, <2>5 DEF RowsElsewhere
  <2>7. QED
    BY <2>1, <2>6, FaultsAdded DEF sessionObservers
<1>2. CASE Bind(a) \/ Depart(a)
  <2>1. /\ UNCHANGED <<envs, pods, faults, sessionObservers>> /\ actor[a].at \in {"joining", "leaving"}
    BY <1>2 DEF Bind, Depart
  <2>2. s \in DOMAIN sessions /\ actor[a].user \in Users
    <3>1. /\ i \in DOMAIN envs /\ envs[i].session = s /\ actor[a].user \in Users
      BY <2>1 DEF Base, Knows, OnEnv, Ending
    <3>2. QED
      BY <3>1, EnvPlaces
  <2>3. PICK join \in {"none", "joined", "left"} :
            sessions' = [sessions EXCEPT ![s].member[actor[a].user] = join]
    <3>1. CASE Bind(a)
      BY <3>1 DEF Bind
    <3>2. CASE Depart(a)
      <4>1. sessions' = [sessions EXCEPT ![s].member[actor[a].user] =
                IF sessions[s].member[actor[a].user] = "none" THEN "none" ELSE "left"]
        BY <3>2 DEF Depart
      <4>2. QED
        BY <4>1
    <3>3. QED
      BY <1>2, <3>1, <3>2
  <2>4. /\ DOMAIN sessions' = DOMAIN sessions
        /\ \A t \in DOMAIN sessions : sessions'[t].primary = sessions[t].primary
                                      /\ sessions'[t].status = sessions[t].status
    BY <2>2, <2>3, MemberSet
  <2>5. QED
    BY <2>1, <2>2, <2>4, StillElsewhere, FaultsAdded DEF sessionObservers
<1>3. CASE WriteSession(a) \/ Recount(a)
  <2>1. /\ UNCHANGED <<envs, pods, faults, sessionObservers>>
        /\ actor[a].at \in {"writing", "rejoining"}
    BY <1>3 DEF WriteSession, Recount
  <2>2. s \in DOMAIN sessions
    BY <2>1 DEF Base, Knows
  <2>3. /\ DOMAIN sessions' = DOMAIN sessions
        /\ \A t \in DOMAIN sessions : t # s => sessions'[t] = sessions[t]
    BY <1>3, <2>2 DEF WriteSession, Recount, Base, SessionTypeOK
  <2>4. QED
    BY <2>1, <2>2, <2>3, StillElsewhere, FaultsAdded DEF sessionObservers
<1>4. ASSUME actor[a].at \in OnEnv, NEW e, e = i PROVE e \in DOMAIN envs /\ envs[e].session = s
  BY <1>4 DEF Base, Knows
<1>5. CASE Detach(a) \/ Close(a) \/ Park(a) \/ Revive(a)
  <2>1. PICK state \in {"terminated", "paused", "creating"} : SetStatus(i, state)
    BY <1>5 DEF Detach, Close, Park, Revive
  <2>2. /\ UNCHANGED <<sessions, pods, faults, sessionObservers>> /\ state \in Status
        /\ actor[a].at \in OnEnv
    BY <1>5 DEF Detach, Close, Park, Revive, Status, ActiveStatuses, OnEnv, Ending
  <2>3. PICK e \in DOMAIN envs : e = i /\ envs[e].session = s
    BY <1>4, <2>2
  <2>4. RowsElsewhere(envs[e].session)
    BY <2>1, <2>2, <2>3, StatusElsewhere
  <2>5. QED
    BY <2>2, <2>3, <2>4, EnvPlaces, FaultsAdded DEF sessionObservers
<1>6. CASE Delete(a) \/ PauseDeletes(a)
  <2>1. /\ UNCHANGED <<envs, sessions, sessionObservers>> /\ actor[a].at \in OnEnv
        /\ faults' = faults \/ faults' = faults + 1
        /\ pods' = pods \/ pods' = pods \ {envs[i].runtime}
    BY <1>6 DEF Delete, PauseDeletes, DeletePods, OnEnv, Ending
  <2>2. PICK e \in DOMAIN envs : e = i /\ envs[e].session = s
    BY <1>4, <2>1
  <2>3. RowsElsewhere(envs[e].session)
    BY <2>1, <2>2, PodsElsewhere
  <2>4. QED
    BY <2>1, <2>2, <2>3, EnvPlaces, FaultsAdded DEF sessionObservers
<1>7. CASE Provision(a)
  <2>1. /\ UNCHANGED <<sessions, sessionObservers>> /\ actor[a].at = "provisioning"
        /\ faults' = faults \/ faults' = faults + 1
        /\ \/ pods' = pods \cup {i} /\ UNCHANGED envs
           \/ UNCHANGED pods /\ SetStatus(i, "failed")
    BY <1>7 DEF Provision
  <2>2. "failed" \in Status /\ actor[a].at \in OnEnv /\ Provisions(a)
    BY <2>1 DEF Status, OnEnv, Provisions
  <2>3. PICK e \in DOMAIN envs : e = i /\ envs[e].session = s /\ envs[e].runtime = e
    BY <1>4, <2>2 DEF Base, Knows
  <2>4. RowsElsewhere(envs[e].session)
    BY <2>1, <2>2, <2>3, PodsElsewhere, StatusElsewhere
  <2>5. QED
    BY <2>1, <2>3, <2>4, EnvPlaces, FaultsAdded DEF sessionObservers
<1>8. CASE Ready(a)
  <2>1. /\ UNCHANGED <<sessions, pods>> /\ actor[a].at \in OnEnv
        /\ faults' = faults \/ faults' = faults + 1
        /\ SetStatus(i, "running") \/ SetStatus(i, "failed")
        /\ crossed \subseteq crossed' /\ upset \subseteq upset'
    BY <1>8 DEF Ready, OnEnv, Observe, Upset
  <2>2. {"running", "failed"} \subseteq Status
    BY DEF Status, ActiveStatuses
  <2>3. PICK e \in DOMAIN envs : e = i /\ envs[e].session = s
    BY <1>4, <2>1
  <2>4. RowsElsewhere(envs[e].session)
    BY <2>1, <2>2, <2>3, StatusElsewhere
  <2>5. QED
    BY <2>1, <2>3, <2>4, EnvPlaces, FaultsAdded
<1>9. QED
  BY <1>1, <1>2, <1>3, <1>5, <1>6, <1>7, <1>8 DEF ActorStep

LEMMA ActorKept ==
    ASSUME Base, KeptInv, NEW a \in Actors, ActorStep(a), ~Found(a)
    PROVE  KeptInv'
<1>1. PICK s \in DOMAIN sessions : s = actor[a].session
  BY StepElsewhere
<1>2. /\ RowsElsewhere(s) /\ FaultsStand /\ DOMAIN sessions' = DOMAIN sessions
      /\ crossed \subseteq crossed' /\ upset \subseteq upset'
  BY <1>1, StepElsewhere
<1>3. Only(a) /\ (Working(a)' => actor'[a].session = s)
  BY <1>1, StaysWith
<1>4. ASSUME s \notin crossed' \cup upset', RuntimeSafe(s) PROVE RuntimeSafe(s)'
  <2>1. CASE Ready(a)
    BY <1>1, <1>4, <2>1, KeptReady
  <2>2. CASE ~Ready(a)
    <3>1. AtWork(a, s)
      BY <1>1, <2>2 DEF ActorStep, AtWork, Working, Attach, Found, Bind, Provision, Detach,
         Depart, Delete, Close, PauseDeletes, Park, Revive, Recount, WriteSession
    <3>2. QED
      BY <1>4, <2>2, <3>1, KeptAttach, KeptBind, KeptProvision, KeptDetach, KeptDepart,
         KeptDeletes, KeptClose, KeptRevive, KeptRecount, KeptWrite DEF ActorStep
  <2>3. QED
    BY <2>1, <2>2
<1>5. QED
  BY <1>1, <1>2, <1>3, <1>4, KeptStep

(* A new session has nobody and nothing yet but its founder.               *)
LEMMA FoundKept ==
    ASSUME Base, KeptInv, NEW a \in Actors, Found(a)
    PROVE  KeptInv'
<1> DEFINE t == Len(sessions) + 1
           i == Len(envs) + 1
           x == [status |-> "creating", primary |-> i, count |-> 0,
                 member |-> [u \in Users |-> "none"]]
           e == [user |-> actor[a].user, session |-> t, runtime |-> i, status |-> "creating"]
<1>1. /\ actor[a].at = "founding" /\ Len(envs) < MaxEnvs
      /\ sessions' = Append(sessions, x) /\ envs' = Append(envs, e)
      /\ UNCHANGED <<pods, faults, sessionObservers>>
      /\ actor' = [actor EXCEPT ![a] = [@ EXCEPT !.at = "joining", !.env = i, !.session = t,
                                                 !.then = "provisioning"]]
  BY DEF Found
<1>2. /\ actor \in [Actors -> Role] /\ sessions \in Seq(Session) /\ envs \in Seq(Env)
      /\ Len(sessions) <= Len(envs) /\ MaxEnvs \in Nat /\ pods \subseteq DOMAIN envs
      /\ actor[a].user \in Users /\ actor[a].session = 0
  BY <1>1 DEF Base, SessionTypeOK, SessionAssumption, Knows
<1>3. /\ Only(a) /\ actor'[a].at = "joining" /\ actor'[a].session = t /\ actor'[a].env = i
  BY <1>1, <1>2 DEF Only, Role
<1>4. x \in Session /\ x.primary = i /\ x.status = "creating"
  BY <1>1, <1>2 DEF Session, Status, ActiveStatuses
<1>5. e \in Env /\ e.session = t /\ e.runtime = i /\ e.status = "creating"
  BY <1>1, <1>2 DEF Env, Status, ActiveStatuses
<1> HIDE DEF x, e
<1>6. PICK ses : /\ ses \notin DOMAIN sessions /\ ses # 0 /\ ses = t
                 /\ DOMAIN sessions' = DOMAIN sessions \cup {ses} /\ sessions'[ses] = x
                 /\ \A s \in DOMAIN sessions : sessions'[s] = sessions[s]
  BY <1>1, <1>2, <1>4, RowAdded
<1>7. PICK env : /\ env \notin DOMAIN envs /\ env = i
                 /\ DOMAIN envs' = DOMAIN envs \cup {env} /\ envs'[env] = e
                 /\ \A j \in DOMAIN envs : envs'[j] = envs[j]
  BY <1>1, <1>2, <1>5, RowAdded
<1> HIDE DEF t, i
<1>8. /\ sessions'[ses].primary = env /\ envs'[env].session = ses /\ envs'[env].runtime = env
      /\ envs'[env].status = "creating" /\ actor'[a].session = ses /\ actor'[a].env = env
      /\ \A j \in DOMAIN envs : envs'[j].session # ses
  BY <1>3, <1>4, <1>5, <1>6, <1>7 DEF Base, Rows
<1> SUFFICES ASSUME NEW s \in DOMAIN sessions', s \notin crossed \cup upset
             PROVE  RuntimeSafe(s)'
  BY <1>1 DEF KeptInv, sessionObservers
<1>9. CASE s \in DOMAIN sessions
  <2>1. RuntimeSafe(s) /\ s # 0 /\ s # ses
    BY <1>6, <1>9 DEF KeptInv, Base, SessionTypeOK
  <2>2. ~AtWork(a, s) /\ ~AtWork(a, s)'
    BY <1>2, <1>8, <2>1 DEF AtWork
  <2>3. /\ \A j \in DOMAIN envs' : envs'[j].session = s => j \in DOMAIN envs
        /\ \A j \in DOMAIN envs : j \in DOMAIN envs' /\ envs'[j] = envs[j]
        /\ sessions'[s] = sessions[s] /\ pods' = pods /\ faults' = faults /\ faults \in Nat
    BY <1>1, <1>6, <1>7, <1>8, <1>9, <2>1 DEF Base, SessionTypeOK, SessionAssumption
  <2>4. \A b \in Actors : AtWork(b, s) \/ AtWork(b, s)' => actor'[b] = actor[b]
    BY <1>3, <2>2 DEF Only
  <2>5. faults' >= faults
    BY <2>3
  <2>6. QED
    BY <1>9, <2>1, <2>3, <2>4, <2>5, KeptElsewhere
<1>10. CASE s = ses
  <2>1. \A b \in Actors : AtWork(b, s)' => b = a
    BY <1>3, <1>6, <1>10 DEF AtWork, Only, Base, SessionTypeOK
  <2>2. EndsAlone(s)'
    BY <2>1 DEF EndsAlone
  <2>3. HasPods(s)'
    BY <1>7, <1>8, <1>10 DEF HasPods
  <2>4. Sound(env)'
    BY <1>8 DEF Sound
  <2>5. PodsOwned(s)'
    BY <1>7, <1>8, <1>10, <2>4 DEF PodsOwned
  <2>6. Led(s)'
    BY <1>8, <1>10, <2>4 DEF Led, Sound
  <2>7. OnCourse(a, s)'
    BY <1>3, <1>8, <1>10, <2>4 DEF OnCourse, LastSteps, Sound
  <2>8. QED
    BY <2>1, <2>2, <2>3, <2>5, <2>6, <2>7 DEF RuntimeSafe
<1>11. QED
  BY <1>6, <1>9, <1>10

(* A poll writes what the pods say while nobody is at work.                *)
LEMMA PollKept ==
    ASSUME Base, KeptInv, NEW i \in DOMAIN envs, Poll(i)
    PROVE  KeptInv'
<1>1. PICK state \in {"creating", "running", "failed"} :
          SetStatus(i, state) /\ (envs[i].runtime \notin pods => state = "failed")
  BY DEF Poll
<1>2. /\ Upset(envs[i].session, envs[i].status \notin {"creating", "running"})
      /\ crossed' = IF WorkingIn(envs[i].session) = {} THEN crossed
                    ELSE crossed \cup {envs[i].session}
      /\ UNCHANGED <<sessions, pods, actor, faults>>
  BY DEF Poll
<1>3. state \in Status /\ state # "terminated"
  BY DEF Status, ActiveStatuses
<1>4. PICK t \in DOMAIN sessions : t = envs[i].session
  BY EnvPlaces
<1>5. RowsElsewhere(t)
  BY <1>1, <1>2, <1>3, <1>4, StatusElsewhere
<1>6. /\ DOMAIN envs' = DOMAIN envs
      /\ ActiveOf(t)' = {j \in DOMAIN envs : envs[j].session = t /\
             IF j = i THEN state \in ActiveStatuses ELSE Active(j)}
      /\ \A j \in DOMAIN envs :
          /\ Sound(j)' <=> IF j = i THEN state # "terminated" ELSE Sound(j)
          /\ envs'[j].session = envs[j].session /\ envs'[j].runtime = envs[j].runtime
          /\ envs'[j].status = IF j = i THEN state ELSE envs[j].status
  BY <1>1, <1>3, AfterStatus
<1> SUFFICES ASSUME NEW s \in DOMAIN sessions, s \notin crossed' \cup upset'
             PROVE  RuntimeSafe(s)'
  BY <1>2 DEF KeptInv
<1>7. RuntimeSafe(s)
  BY <1>2 DEF KeptInv, Upset
<1>8. CASE s # t
  <2>1. /\ \A b \in Actors : actor'[b] = actor[b]
        /\ faults' \in Nat /\ faults' >= faults
    BY <1>2 DEF Base, SessionTypeOK, SessionAssumption
  <2>2. /\ \A j \in DOMAIN envs' : envs'[j].session = s => j \in DOMAIN envs
        /\ \A j \in DOMAIN envs :
            envs[j].session = s \/ (j \in DOMAIN envs' /\ envs'[j].session = s) =>
                /\ j \in DOMAIN envs' /\ envs'[j] = envs[j]
                /\ envs[j].runtime \in pods' <=> envs[j].runtime \in pods
    BY <1>5, <1>8 DEF RowsElsewhere
  <2>3. QED
    BY <1>2, <1>7, <2>1, <2>2, KeptElsewhere
<1>9. CASE s = t
  <2>1. \A b \in Actors : ~AtWork(b, s) /\ ~AtWork(b, s)'
    BY <1>2, <1>4, <1>9 DEF WorkingIn, AtWork, Working
  <2>2. i \in ActiveOf(s)
    BY <1>2, <1>4, <1>9 DEF Upset, ActiveOf, Active, ActiveStatuses
  <2>3. HasPods(s)'
    <3> SUFFICES ASSUME NEW j \in DOMAIN envs, envs[j].session = s, envs'[j].status = "running"
                 PROVE  envs[j].runtime \in pods
      BY <1>2, <1>6 DEF HasPods
    <3>1. CASE j = i
      BY <1>1, <1>6, <3>1
    <3>2. CASE j # i
      BY <1>6, <1>7, <2>1, <3>2 DEF RuntimeSafe, HasPods
    <3>3. QED
      BY <3>1, <3>2
  <2>4. Sound(i)' /\ \A j \in DOMAIN envs : Sound(j) => Sound(j)'
    BY <1>3, <1>6
  <2>5. PodsOwned(s)'
    BY <1>4, <1>6, <1>9, <2>4 DEF PodsOwned
  <2>6. Led(s)'
    <3>1. Sound(sessions[s].primary) /\ sessions[s].primary \in DOMAIN envs
      BY <1>7, <2>1, <2>2, LedRow, SyncReads
    <3>2. QED
      BY <1>2, <2>4, <3>1 DEF Led, Sound
  <2>7. QED
    BY <2>1, <2>3, <2>5, <2>6 DEF RuntimeSafe, EndsAlone
<1>10. QED
  BY <1>8, <1>9

LEMMA KeptNext ==
    ASSUME Base, KeptInv, [SessionNext]_sessionVars
    PROVE  KeptInv'
<1>1. CASE UNCHANGED sessionVars
  <2>1. UNCHANGED <<envs, sessions, pods, actor, faults, crossed, upset>>
    BY <1>1 DEF sessionVars, sessionObservers
  <2>2. ASSUME NEW s \in DOMAIN sessions, RuntimeSafe(s) PROVE RuntimeSafe(s)'
    <3>1. faults' \in Nat /\ faults' >= faults
      BY <2>1 DEF Base, SessionTypeOK, SessionAssumption
    <3>2. QED
      BY <2>1, <2>2, <3>1, KeptElsewhere
  <2>3. QED
    BY <2>1, <2>2 DEF KeptInv
<1>2. ASSUME NEW a \in Actors, ActorStep(a) PROVE KeptInv'
  BY <1>2, FoundKept, ActorKept
<1>3. ASSUME NEW a \in Actors, SessionRequest(a) PROVE KeptInv'
  BY <1>3, CreateKept, RequestKept, ChangeJoinKept DEF SessionRequest
<1>4. ASSUME NEW i \in DOMAIN envs, Poll(i) PROVE KeptInv'
  BY <1>4, PollKept
<1>5. QED
  BY <1>1, <1>2, <1>3, <1>4 DEF SessionNext

(* Members come and go without taking the pods from each other, and the    *)
(* last one deletes them, unless operations cross or a pause, an expiry or *)
(* a late request disturbs the session (StopEnv, handleSessionDetach,      *)
(* terminateEnv, waitForRuntimeReady).                                     *)
THEOREM RuntimeKept == SessionAssumption => (SessionSpec => []MembersKeepRuntime)
<1> SUFFICES ASSUME SessionAssumption PROVE SessionSpec => []MembersKeepRuntime
  OBVIOUS
<1>1. SessionInit => Base /\ KeptInv
  BY BaseInit DEF SessionInit, KeptInv
<1>2. Base /\ KeptInv /\ [SessionNext]_sessionVars => Base' /\ KeptInv'
  BY BaseNext, KeptNext
<1>3. Base /\ KeptInv => MembersKeepRuntime
  <2> SUFFICES ASSUME Base, KeptInv PROVE MembersKeepRuntime
    OBVIOUS
  <2>1. ASSUME NEW s \in Undisturbed, Quiet(s)
        PROVE  RuntimeSafe(s) /\ \A b \in Actors : ~AtWork(b, s)
    BY <2>1 DEF Undisturbed, KeptInv, Quiet, WorkingIn, AtWork
  <2>2. ASSUME NEW i \in DOMAIN envs, envs[i].session \in Undisturbed, Quiet(envs[i].session)
        PROVE  /\ envs[i].status = "running" => envs[i].runtime \in pods
               /\ envs[i].runtime \in pods =>
                      faults > 0 \/ \E j \in DOMAIN envs :
                          envs[j].runtime = envs[i].runtime /\ envs[j].status # "terminated"
    <3>1. RuntimeSafe(envs[i].session) /\ \A b \in Actors : ~AtWork(b, envs[i].session)
      BY <2>1, <2>2
    <3>2. envs[i].status = "running" => envs[i].runtime \in pods
      BY <3>1 DEF RuntimeSafe, HasPods
    <3>3. envs[i].runtime \in pods =>
              faults > 0 \/ \E j \in DOMAIN envs : envs[j].session = envs[i].session /\ Sound(j)
      BY <3>1 DEF RuntimeSafe, PodsOwned
    <3>4. QED
      BY <3>2, <3>3, OneRuntime DEF Sound
  <2>3. ASSUME NEW s \in Undisturbed, Quiet(s), sessions[s].status \in ActiveStatuses
        PROVE  envs[sessions[s].primary].status # "terminated"
    BY <2>1, <2>3 DEF RuntimeSafe, Led, Sound
  <2>4. QED
    BY <2>2, <2>3 DEF MembersKeepRuntime
<1>4. QED
  BY <1>1, <1>2, <1>3, PTL DEF SessionSpec

-----------------------------------------------------------------------------
(***************************************************************************)
(* SimEngine: simulators and their loops.                                  *)
(***************************************************************************)
Sim == [ctx : Nat, running : BOOLEAN, paused : BOOLEAN]
Loop(S) == [sim : S, at : Place, ctx : Nat]

(* Changing one element of a sequence.                                     *)
LEMMA SeqUpdate ==
    ASSUME NEW S, NEW q \in Seq(S), NEW i \in DOMAIN q, NEW v \in S
    PROVE  /\ [q EXCEPT ![i] = v] \in Seq(S)
           /\ DOMAIN [q EXCEPT ![i] = v] = DOMAIN q
           /\ Len([q EXCEPT ![i] = v]) = Len(q)
           /\ [q EXCEPT ![i] = v][i] = v
           /\ \A j \in DOMAIN q \ {i} : [q EXCEPT ![i] = v][j] = q[j]
  OBVIOUS

(* Adding one element to a sequence.                                       *)
LEMMA SeqAppend ==
    ASSUME NEW S, NEW q \in Seq(S), NEW v \in S
    PROVE  /\ Append(q, v) \in Seq(S)
           /\ Len(Append(q, v)) = Len(q) + 1 /\ Len(q) + 1 \notin DOMAIN q
           /\ DOMAIN Append(q, v) = DOMAIN q \cup {Len(q) + 1}
           /\ Append(q, v)[Len(q) + 1] = v
           /\ \A j \in DOMAIN q : Append(q, v)[j] = q[j]
  OBVIOUS

LEMMA SeqWiden ==
    ASSUME NEW S, NEW T, S \subseteq T, NEW q \in Seq(S)
    PROVE  q \in Seq(T)
  OBVIOUS

(* The active simulator, and one with a change made to it.                 *)
LEMMA ActiveSim ==
    ASSUME TypeOK, active # 0
    PROVE  active \in DOMAIN sims /\ sims[active] \in Sim
<1>1. sims \in Seq(Sim) /\ active \in 0 .. Len(sims)
  BY DEF TypeOK, Sim
<1>2. QED
  BY <1>1

LEMMA StoppedSim ==
    ASSUME NEW sim \in Sim
    PROVE  /\ Stopped(sim) \in Sim /\ ~Stopped(sim).running
           /\ Stopped(sim).ctx = sim.ctx /\ Stopped(sim).paused = sim.paused
  BY DEF Stopped, Sim

LEMMA NewSimTyped == NewSim \in Sim /\ ~NewSim.running /\ ~NewSim.paused
  BY DEF NewSim, Sim

(* Type correctness: every loop belongs to a simulator that exists, and    *)
(* the active simulator is one of them.                                    *)
THEOREM TypeCorrect ==
    ASSUME EngineAssumption
    PROVE  Spec => []TypeOK
<1> DEFINE Typed ==
        /\ sims \in Seq(Sim) /\ loops \in Seq(Loop(DOMAIN sims))
        /\ active \in 0 .. Len(sims)
        /\ status \in {"idle", "running", "paused", "stopped"}
        /\ requests \in 0 .. MaxRequests
        /\ astray \subseteq {"init", "start", "restart", "resume", "switch"}
<1>0. TypeOK <=> Typed
  BY DEF TypeOK, Sim, Loop
<1>1. Init => Typed
  BY DEF Init, EngineAssumption
<1>2. Typed /\ [Next]_vars => Typed'
  <2> SUFFICES ASSUME Typed, [Next]_vars PROVE Typed'
    OBVIOUS
  <2>0. Request => requests' \in 0 .. MaxRequests
    BY DEF Request, EngineAssumption
  <2>1. ASSUME active # 0 PROVE active \in DOMAIN sims /\ sims[active] \in Sim
    BY <2>1
  <2>upd. ASSUME NEW v \in Sim, active # 0, sims' = [sims EXCEPT ![active] = v]
         PROVE  /\ sims' \in Seq(Sim) /\ DOMAIN sims' = DOMAIN sims
                /\ Len(sims') = Len(sims)
    BY <2>1, <2>upd, SeqUpdate
  <2>wid. ASSUME sims' \in Seq(Sim), DOMAIN sims \subseteq DOMAIN sims', UNCHANGED loops
         PROVE  loops' \in Seq(Loop(DOMAIN sims'))
    <3>1. Loop(DOMAIN sims) \subseteq Loop(DOMAIN sims')
      BY <2>wid DEF Loop
    <3>2. QED
      BY <2>wid, <3>1, SeqWiden
  <2>app. ASSUME NEW q \in Seq(Sim), Len(q) = Len(sims), sims' = Append(q, NewSim)
         PROVE  /\ sims' \in Seq(Sim) /\ DOMAIN sims \subseteq DOMAIN sims'
                /\ Len(sims) + 1 \in 0 .. Len(sims')
    <3>1. DOMAIN q = DOMAIN sims
      BY <2>app
    <3>2. QED
      BY <2>app, <3>1, SeqAppend, NewSimTyped
  <2>2. CASE InitModule
    <3>1. /\ sims' = Append(sims, NewSim) /\ active' = Len(sims) + 1
          /\ status' = "idle" /\ UNCHANGED loops
      BY <2>2 DEF InitModule
    <3>2. astray' \subseteq {"init", "start", "restart", "resume", "switch"}
      BY <2>2 DEF InitModule, Astray
    <3>3. Request
      BY <2>2 DEF InitModule
    <3>4. QED
      BY <2>0, <2>wid, <2>app, <3>1, <3>2, <3>3
  <2>3. CASE Start
    <3>1. active # 0 /\ status' = "running" /\ active' = active /\ Request
      BY <2>3 DEF Start
    <3>2. astray' \subseteq {"init", "start", "restart", "resume", "switch"}
      BY <2>3 DEF Start, Astray
    <3>3. CASE sims[active].running
      <4>1. UNCHANGED <<sims, loops>>
        BY <2>3, <3>3 DEF Start
      <4>2. QED
        BY <2>0, <3>1, <3>2, <4>1
    <3>4. CASE ~sims[active].running
      <4>1. PICK v \in Sim : sims' = [sims EXCEPT ![active] = v]
        <5>1. [ctx |-> sims[active].ctx + 1, running |-> TRUE, paused |-> FALSE] \in Sim
          BY <2>1, <3>1 DEF Sim
        <5>2. QED
          BY <2>3, <3>4, <5>1 DEF Start
      <4>2. PICK l \in Loop(DOMAIN sims) : loops' = Append(loops, l)
        BY <2>1, <2>3, <3>1, <3>4 DEF Start, Loop, Place
      <4>3. loops' \in Seq(Loop(DOMAIN sims))
        BY <4>2, SeqAppend
      <4>4. QED
        BY <2>0, <2>upd, <3>1, <3>2, <4>1, <4>3
    <3>5. QED
      BY <3>3, <3>4
  <2>4. CASE Stop
    <3>1. /\ active # 0 /\ Request /\ sims' = [sims EXCEPT ![active] = Stopped(sims[active])]
          /\ status' = "stopped" /\ UNCHANGED <<active, loops, astray>>
      BY <2>4 DEF Stop
    <3>2. QED
      BY <2>0, <2>1, <2>upd, <3>1, StoppedSim
  <2>5. CASE Pause
    <3>1. active # 0 /\ Request /\ status' = "paused" /\ UNCHANGED <<active, loops, astray>>
      BY <2>5 DEF Pause
    <3>2. PICK v \in Sim : sims' = [sims EXCEPT ![active] = v]
      BY <2>1, <2>5, <3>1 DEF Pause, Sim
    <3>3. QED
      BY <2>0, <2>upd, <3>1, <3>2
  <2>6. CASE Resume
    <3>1. active # 0 /\ Request /\ status' = "running" /\ UNCHANGED <<active, loops>>
      BY <2>6 DEF Resume
    <3>2. PICK v \in Sim : sims' = [sims EXCEPT ![active] = v]
      BY <2>1, <2>6, <3>1 DEF Resume, Sim
    <3>3. astray' \subseteq {"init", "start", "restart", "resume", "switch"}
      BY <2>6 DEF Resume, Astray
    <3>4. QED
      BY <2>0, <2>upd, <3>1, <3>2, <3>3
  <2>7. CASE Reset
    BY <2>0, <2>7 DEF Reset
  <2>8. CASE Switch
    <3> DEFINE old == IF active = 0 THEN sims ELSE [sims EXCEPT ![active] = Stopped(@)]
    <3>1. old \in Seq(Sim) /\ DOMAIN old = DOMAIN sims /\ Len(old) = Len(sims)
      BY <2>1, StoppedSim, SeqUpdate
    <3>2. astray' \subseteq {"init", "start", "restart", "resume", "switch"}
      BY <2>8 DEF Switch, Astray
    <3>3. Request /\ UNCHANGED loops
      BY <2>8 DEF Switch
    <3>4. CASE sims' = Append(old, NewSim) /\ active' = Len(sims) + 1 /\ status' = "idle"
      <4> HIDE DEF old
      <4>1. QED
        BY <2>0, <2>wid, <2>app, <3>1, <3>2, <3>3, <3>4
    <3>5. CASE sims' = old /\ UNCHANGED <<active, status>>
      <4> HIDE DEF old
      <4>1. QED
        BY <2>0, <3>1, <3>2, <3>3, <3>5
    <3>6. QED
      BY <2>8, <3>4, <3>5 DEF Switch
  <2>9. ASSUME NEW l \in DOMAIN loops,
               AwaitTick(l) \/ Tick(l) \/ TickDone(l) \/ LoopEnds(l)
        PROVE  Typed'
    <3>1. UNCHANGED <<sims, active, status, observers>>
      BY <2>9 DEF AwaitTick, Tick, TickDone, LoopEnds
    <3>2. loops[l] \in Loop(DOMAIN sims) /\ loops[l].sim \in DOMAIN sims
      <4>1. loops[l] \in Loop(DOMAIN sims)
        OBVIOUS
      <4>2. QED
        BY <4>1 DEF Loop
    <3>3. sims[loops[l].sim] \in Sim /\ sims[loops[l].sim].ctx \in Nat
      <4>1. sims[loops[l].sim] \in Sim
        BY <3>2
      <4>2. QED
        BY <4>1 DEF Sim
    <3>4. PICK m \in Loop(DOMAIN sims) : loops' = [loops EXCEPT ![l] = m]
      <4>1. CASE AwaitTick(l)
        BY <3>2, <3>3, <4>1 DEF AwaitTick, Loop, Place
      <4>2. CASE Tick(l)
        BY <3>2, <4>2 DEF Tick, Loop, Place
      <4>3. CASE TickDone(l)
        BY <3>2, <4>3 DEF TickDone, Loop, Place
      <4>4. CASE LoopEnds(l)
        BY <3>2, <4>4 DEF LoopEnds, Loop, Place
      <4>5. QED
        BY <2>9, <4>1, <4>2, <4>3, <4>4
    <3>5. loops' \in Seq(Loop(DOMAIN sims))
      BY <3>4, SeqUpdate
    <3>6. QED
      BY <3>1, <3>5 DEF observers
  <2>10. CASE UNCHANGED vars
    BY <2>10 DEF vars, observers
  <2> QED
    BY <2>2, <2>3, <2>4, <2>5, <2>6, <2>7, <2>8, <2>9, <2>10 DEF Next
<1>3. QED
  BY <1>0, <1>1, <1>2, PTL DEF Spec

-----------------------------------------------------------------------------
(***************************************************************************)
(* The invariant behind LoopsAccounted.                                    *)
(***************************************************************************)
OneLoopEach ==
    "restart" \notin astray => \A s \in DOMAIN sims : \A k, l \in LoopsOf(s) : k = l

Driven ==
    "restart" \notin astray => \A s \in DOMAIN sims : sims[s].running => Live(s) # {}

ReplacedStopped ==
    "init" \notin astray => \A s \in DOMAIN sims \ {active} : ~sims[s].running

Claimed ==
    astray = {} /\ status = "running" =>
        active # 0 /\ sims[active].running /\ ~sims[active].paused

LoopInv == OneLoopEach /\ Driven /\ ReplacedStopped /\ Claimed

LEMMA LoopTyped ==
    ASSUME TypeOK, NEW l \in DOMAIN loops
    PROVE  loops[l] \in Loop(DOMAIN sims) /\ loops[l].sim \in DOMAIN sims
<1>1. loops \in Seq(Loop(DOMAIN sims))
  BY DEF TypeOK, Loop
<1>2. loops[l] \in Loop(DOMAIN sims)
  BY <1>1
<1>3. QED
  BY <1>2 DEF Loop

(* A request that starts nothing leaves every loop as it is: a simulator   *)
(* keeps its context and does not begin to run.                            *)
LEMMA NothingStarted ==
    ASSUME TypeOK, OneLoopEach, Driven, UNCHANGED loops, astray \subseteq astray',
           DOMAIN sims \subseteq DOMAIN sims',
           \A s \in DOMAIN sims :
               sims'[s].ctx = sims[s].ctx /\ (sims'[s].running => sims[s].running),
           \A s \in DOMAIN sims' \ DOMAIN sims : ~sims'[s].running
    PROVE  OneLoopEach' /\ Driven'
<1>1. \A l \in DOMAIN loops : loops[l].sim \in DOMAIN sims
  BY LoopTyped
<1>2. OneLoopEach'
  BY <1>1 DEF OneLoopEach, LoopsOf
<1>3. Driven'
  BY DEF Driven, Live, LoopsOf
<1>4. QED
  BY <1>2, <1>3

(* A step of a loop: it stays the loop of its simulator, and ends only if  *)
(* that does not run or has another context.                               *)
LEMMA LoopMoves ==
    ASSUME TypeOK, OneLoopEach, Driven, NEW l \in DOMAIN loops,
           AwaitTick(l) \/ Tick(l) \/ TickDone(l) \/ LoopEnds(l)
    PROVE  OneLoopEach' /\ Driven'
<1>0. UNCHANGED <<sims, astray>>
  BY DEF AwaitTick, Tick, TickDone, LoopEnds, observers
<1>1. loops \in Seq(Loop(DOMAIN sims))
  BY DEF TypeOK, Loop
<1>2. loops[l] \in Loop(DOMAIN sims) /\ loops[l].sim \in DOMAIN sims
  BY LoopTyped
<1>3. /\ DOMAIN loops' = DOMAIN loops
      /\ \A k \in DOMAIN loops \ {l} : loops'[k] = loops[k]
  BY <1>1 DEF AwaitTick, Tick, TickDone, LoopEnds
<1>4. /\ loops'[l].sim = loops[l].sim /\ loops[l].at # "gone"
      /\ \/ /\ loops'[l].at # "gone"
            /\ loops'[l].at = "waiting" => loops'[l].ctx = sims[loops[l].sim].ctx
         \/ /\ loops[l].at = "waiting"
            /\ loops[l].ctx # sims[loops[l].sim].ctx \/ ~sims[loops[l].sim].running
  <2>1. CASE AwaitTick(l)
    BY <1>1, <1>2, <2>1 DEF AwaitTick, Loop
  <2>2. CASE Tick(l)
    BY <1>1, <1>2, <2>2 DEF Tick, Loop
  <2>3. CASE TickDone(l)
    BY <1>1, <1>2, <2>3 DEF TickDone, Loop
  <2>4. CASE LoopEnds(l)
    BY <1>1, <1>2, <2>4 DEF LoopEnds, Loop
  <2>5. QED
    BY <2>1, <2>2, <2>3, <2>4
<1>5. OneLoopEach'
  BY <1>0, <1>3, <1>4 DEF OneLoopEach, LoopsOf
<1>6. Driven'
  <2> SUFFICES ASSUME "restart" \notin astray, NEW s \in DOMAIN sims, sims[s].running
               PROVE  Live(s)' # {}
    BY <1>0 DEF Driven
  <2>1. PICK k \in LoopsOf(s) : loops[k].at = "waiting" => loops[k].ctx = sims[s].ctx
    BY DEF Driven, Live
  <2>2. k \in Live(s)'
    <3>1. CASE k = l
      BY <1>0, <1>3, <1>4, <2>1, <3>1 DEF Live, LoopsOf
    <3>2. CASE k # l
      BY <1>0, <1>3, <2>1, <3>2 DEF Live, LoopsOf
    <3>3. QED
      BY <3>1, <3>2
  <2>3. QED
    BY <2>2
<1>7. QED
  BY <1>5, <1>6

(* Starting a simulator that does not run: if no loop of its last run is   *)
(* left, the new one is its only one.                                      *)
LEMMA LoopStarted ==
    ASSUME TypeOK, OneLoopEach, Driven, Start, ~sims[active].running
    PROVE  OneLoopEach' /\ Driven'
<1> DEFINE n == Len(loops) + 1
           v == [ctx |-> sims[active].ctx + 1, running |-> TRUE, paused |-> FALSE]
           new == [sim |-> active, at |-> "under way", ctx |-> 0]
<1>1. /\ active # 0 /\ active \in DOMAIN sims
      /\ sims \in Seq(Sim) /\ sims[active] \in Sim
      /\ loops \in Seq(Loop(DOMAIN sims))
  BY ActiveSim DEF Start, TypeOK, Sim, Loop
<1>2. v \in Sim /\ new \in Loop(DOMAIN sims)
  <2>1. sims[active].ctx \in Nat
    BY <1>1 DEF Sim
  <2>2. v \in Sim
    BY <2>1 DEF Sim
  <2>3. new \in Loop(DOMAIN sims)
    BY <1>1 DEF Loop, Place
  <2>4. QED
    BY <2>2, <2>3
<1>3. /\ sims' = [sims EXCEPT ![active] = v] /\ loops' = Append(loops, new)
      /\ "restart" \notin astray' => "restart" \notin astray /\ LoopsOf(active) = {}
  BY DEF Start, Astray
<1>4. /\ DOMAIN sims' = DOMAIN sims
      /\ \A s \in DOMAIN sims \ {active} : sims'[s] = sims[s]
  BY <1>1, <1>2, <1>3, SeqUpdate
<1>5. /\ n \notin DOMAIN loops /\ DOMAIN loops' = DOMAIN loops \cup {n}
      /\ loops'[n].sim = active /\ loops'[n].at = "under way"
      /\ \A l \in DOMAIN loops : loops'[l] = loops[l]
  <2>1. new.sim = active /\ new.at = "under way"
    OBVIOUS
  <2> HIDE DEF v, new
  <2>2. /\ n \notin DOMAIN loops /\ DOMAIN loops' = DOMAIN loops \cup {n}
        /\ loops'[n] = new /\ \A l \in DOMAIN loops : loops'[l] = loops[l]
    BY <1>1, <1>2, <1>3, SeqAppend
  <2>3. QED
    BY <2>1, <2>2
<1> HIDE DEF n, v, new
<1>6. SUFFICES ASSUME "restart" \notin astray', NEW s \in DOMAIN sims
      PROVE  /\ \A k, l \in LoopsOf(s)' : k = l
             /\ sims'[s].running => Live(s)' # {}
  BY <1>4, Zenon DEF OneLoopEach, Driven
<1>7. "restart" \notin astray /\ LoopsOf(active) = {}
  BY <1>3, <1>6
<1>8. CASE s = active
  <2>1. LoopsOf(s)' = {n}
    BY <1>5, <1>7, <1>8 DEF LoopsOf
  <2>2. sims'[s].running => n \in Live(s)'
    BY <1>5, <2>1 DEF Live
  <2>3. QED
    BY <2>1, <2>2
<1>9. CASE s # active
  <2>1. LoopsOf(s)' = LoopsOf(s)
    BY <1>5, <1>9 DEF LoopsOf
  <2>2. sims'[s] = sims[s]
    BY <1>4, <1>9
  <2>3. Live(s)' = Live(s)
    BY <1>5, <2>1, <2>2 DEF Live, LoopsOf
  <2>4. QED
    BY <1>7, <2>1, <2>2, <2>3 DEF OneLoopEach, Driven
<1>10. QED
  BY <1>8, <1>9

LEMMA LoopInvStep ==
    ASSUME TypeOK, LoopInv, Next
    PROVE  LoopInv'
<1> USE DEF LoopInv
<1>typ. sims \in Seq(Sim) /\ active \in 0 .. Len(sims) /\ NewSim \in Sim
  BY NewSimTyped DEF TypeOK, Sim
<1>dom. DOMAIN sims = 1 .. Len(sims) /\ Len(sims) \in Nat
  BY <1>typ
<1>act. active # 0 => active \in DOMAIN sims /\ sims[active] \in Sim
  BY ActiveSim
<1>upd. ASSUME NEW v \in Sim, active # 0, sims' = [sims EXCEPT ![active] = v]
       PROVE  /\ DOMAIN sims' = DOMAIN sims /\ sims'[active] = v
              /\ \A s \in DOMAIN sims \ {active} : sims'[s] = sims[s]
  BY <1>typ, <1>act, <1>upd, SeqUpdate
<1>1. CASE InitModule
  <2>1. /\ sims' = Append(sims, NewSim) /\ active' = Len(sims) + 1
        /\ status' = "idle" /\ UNCHANGED loops
        /\ astray \subseteq astray'
        /\ "init" \notin astray' => active = 0 \/ ~sims[active].running
    BY <1>1 DEF InitModule, Astray
  <2>2. /\ DOMAIN sims' = DOMAIN sims \cup {active'} /\ active' \notin DOMAIN sims
        /\ ~sims'[active'].running /\ \A s \in DOMAIN sims : sims'[s] = sims[s]
    BY <1>typ, <2>1, NewSimTyped, SeqAppend
  <2>3. OneLoopEach' /\ Driven'
    BY <2>1, <2>2, NothingStarted
  <2>4. ReplacedStopped' /\ Claimed'
    BY <2>1, <2>2 DEF ReplacedStopped, Claimed
  <2>5. QED
    BY <2>3, <2>4
<1>2. CASE Start
  <2>1. active # 0 /\ UNCHANGED active /\ astray \subseteq astray'
    BY <1>2 DEF Start, Astray
  <2>2. CASE sims[active].running
    <3>1. /\ UNCHANGED <<sims, loops>>
          /\ astray' = {} => astray = {} /\ ~sims[active].paused
      BY <1>2, <2>2 DEF Start, Astray
    <3>2. OneLoopEach' /\ Driven'
      BY <2>1, <3>1, NothingStarted
    <3>3. ReplacedStopped' /\ Claimed'
      BY <2>1, <2>2, <3>1 DEF ReplacedStopped, Claimed
    <3>4. QED
      BY <3>2, <3>3
  <2>3. CASE ~sims[active].running
    <3>1. PICK v \in Sim : /\ sims' = [sims EXCEPT ![active] = v]
                           /\ v.running /\ ~v.paused
      <4>1. sims[active].ctx \in Nat
        BY <1>act, <2>1 DEF Sim
      <4>2. [ctx |-> sims[active].ctx + 1, running |-> TRUE, paused |-> FALSE] \in Sim
        BY <4>1 DEF Sim
      <4>3. QED
        BY <1>2, <2>3, <4>2 DEF Start
    <3>2. /\ DOMAIN sims' = DOMAIN sims /\ sims'[active] = v
          /\ \A s \in DOMAIN sims \ {active} : sims'[s] = sims[s]
      BY <1>upd, <2>1, <3>1
    <3>3. OneLoopEach' /\ Driven'
      BY <1>2, <2>3, LoopStarted
    <3>4. ReplacedStopped' /\ Claimed'
      BY <2>1, <3>1, <3>2 DEF ReplacedStopped, Claimed
    <3>5. QED
      BY <3>3, <3>4
  <2>4. QED
    BY <2>2, <2>3
<1>3. CASE Stop
  <2>1. /\ active # 0 /\ sims' = [sims EXCEPT ![active] = Stopped(sims[active])]
        /\ status' = "stopped" /\ UNCHANGED <<active, loops, astray>>
    BY <1>3 DEF Stop
  <2>2. /\ Stopped(sims[active]) \in Sim /\ ~Stopped(sims[active]).running
        /\ Stopped(sims[active]).ctx = sims[active].ctx
    BY <1>act, <2>1, StoppedSim
  <2>3. /\ DOMAIN sims' = DOMAIN sims /\ sims'[active] = Stopped(sims[active])
        /\ \A s \in DOMAIN sims \ {active} : sims'[s] = sims[s]
    BY <1>upd, <2>1, <2>2
  <2>4. OneLoopEach' /\ Driven'
    BY <2>1, <2>2, <2>3, NothingStarted
  <2>5. ReplacedStopped' /\ Claimed'
    BY <2>1, <2>3 DEF ReplacedStopped, Claimed
  <2>6. QED
    BY <2>4, <2>5
<1>4. ASSUME Pause \/ Resume PROVE LoopInv'
  <2>1. /\ active # 0 /\ UNCHANGED <<active, loops>> /\ astray \subseteq astray'
        /\ Pause => status' = "paused"
        /\ Resume /\ astray' = {} => astray = {} /\ sims[active].running
    BY <1>4 DEF Pause, Resume, Astray
  <2>2. PICK v \in Sim : /\ sims' = [sims EXCEPT ![active] = v]
                         /\ v.running = sims[active].running /\ v.ctx = sims[active].ctx
                         /\ Resume => ~v.paused
    <3>1. sims[active] \in Sim
      BY <1>act, <2>1
    <3>2. CASE Pause /\ ~Resume
      <4>1. [sims[active] EXCEPT !.paused = TRUE] \in Sim
        BY <3>1 DEF Sim
      <4>2. QED
        BY <3>1, <3>2, <4>1 DEF Pause, Sim
    <3>3. CASE Resume
      <4>1. [sims[active] EXCEPT !.paused = FALSE] \in Sim
        BY <3>1 DEF Sim
      <4>2. QED
        BY <3>1, <3>3, <4>1 DEF Resume, Sim
    <3>4. QED
      BY <1>4, <3>2, <3>3
  <2>3. /\ DOMAIN sims' = DOMAIN sims /\ sims'[active] = v
        /\ \A s \in DOMAIN sims \ {active} : sims'[s] = sims[s]
    BY <1>upd, <2>1, <2>2
  <2>4. OneLoopEach' /\ Driven'
    BY <2>1, <2>2, <2>3, NothingStarted
  <2>5. ReplacedStopped'
    BY <2>1, <2>3 DEF ReplacedStopped
  <2>6. Claimed'
    BY <1>4, <2>1, <2>2, <2>3 DEF Claimed
  <2>7. QED
    BY <2>4, <2>5, <2>6
<1>5. CASE Reset
  <2>1. status' = "idle" /\ UNCHANGED <<sims, active, loops, astray>>
    BY <1>5 DEF Reset
  <2>2. OneLoopEach' /\ Driven'
    BY <2>1, NothingStarted
  <2>3. QED
    BY <2>1, <2>2 DEF ReplacedStopped, Claimed
<1>6. CASE Switch
  <2> DEFINE old == IF active = 0 THEN sims ELSE [sims EXCEPT ![active] = Stopped(@)]
  <2>1. UNCHANGED loops /\ astray \subseteq astray'
    BY <1>6 DEF Switch, Astray
  <2>2. /\ old \in Seq(Sim) /\ DOMAIN old = DOMAIN sims /\ Len(old) = Len(sims)
        /\ \A s \in DOMAIN sims : old[s].ctx = sims[s].ctx
                                  /\ (old[s].running => sims[s].running /\ s # active)
    <3>1. CASE active = 0
      BY <1>typ, <1>dom, <3>1
    <3>2. CASE active # 0
      BY <1>typ, <1>act, <3>2, StoppedSim, SeqUpdate
    <3>3. QED
      BY <3>1, <3>2
  <2>3. CASE sims' = Append(old, NewSim) /\ active' = Len(sims) + 1 /\ status' = "idle"
             /\ UNCHANGED astray
    <3> HIDE DEF old
    <3>1. /\ DOMAIN sims' = DOMAIN sims \cup {active'} /\ active' \notin DOMAIN sims
          /\ ~sims'[active'].running /\ \A s \in DOMAIN sims : sims'[s] = old[s]
      BY <1>typ, <2>2, <2>3, NewSimTyped, SeqAppend
    <3>2. OneLoopEach' /\ Driven'
      BY <2>1, <2>2, <3>1, NothingStarted
    <3>3. ReplacedStopped' /\ Claimed'
      BY <2>2, <2>3, <3>1 DEF ReplacedStopped, Claimed
    <3>4. QED
      BY <3>2, <3>3
  <2>4. CASE sims' = old /\ UNCHANGED active /\ "switch" \in astray'
    <3> HIDE DEF old
    <3>1. OneLoopEach' /\ Driven'
      BY <2>1, <2>2, <2>4, NothingStarted
    <3>2. ReplacedStopped' /\ Claimed'
      BY <2>1, <2>2, <2>4 DEF ReplacedStopped, Claimed
    <3>3. QED
      BY <3>1, <3>2
  <2>5. QED
    BY <1>6, <2>3, <2>4 DEF Switch, Astray
<1>7. ASSUME NEW l \in DOMAIN loops,
             AwaitTick(l) \/ Tick(l) \/ TickDone(l) \/ LoopEnds(l)
      PROVE  LoopInv'
  <2>1. UNCHANGED <<sims, active, status, astray>>
    BY <1>7 DEF AwaitTick, Tick, TickDone, LoopEnds, observers
  <2>2. OneLoopEach' /\ Driven'
    BY <1>7, LoopMoves
  <2>3. QED
    BY <2>1, <2>2 DEF ReplacedStopped, Claimed
<1>8. QED
  BY <1>1, <1>2, <1>3, <1>4, <1>5, <1>6, <1>7 DEF Next

(* One loop ticks for a simulator that runs, and none for one that was     *)
(* replaced; an engine that calls itself running ticks.                    *)
THEOREM Accounted ==
    ASSUME EngineAssumption
    PROVE  Spec => []LoopsAccounted
<1>1. Init => LoopInv
  BY DEF Init, LoopInv, OneLoopEach, Driven, ReplacedStopped, Claimed
<1>2. TypeOK /\ LoopInv /\ [Next]_vars => LoopInv'
  <2>1. CASE Next
    BY <2>1, LoopInvStep
  <2>2. CASE UNCHANGED vars
    BY <2>2 DEF vars, observers, LoopInv, OneLoopEach, Driven, ReplacedStopped,
                Claimed, Live, LoopsOf
  <2>3. QED
    BY <2>1, <2>2
<1>3. TypeOK /\ LoopInv => LoopsAccounted
  <2> SUFFICES ASSUME TypeOK, LoopInv PROVE LoopsAccounted
    OBVIOUS
  <2>1. ASSUME "restart" \notin astray, NEW s \in DOMAIN sims, sims[s].running
        PROVE  Cardinality(Live(s)) = 1
    <3>1. PICK l : l \in Live(s)
      BY <2>1 DEF LoopInv, Driven
    <3>2. Live(s) = {l}
      BY <2>1, <3>1 DEF LoopInv, OneLoopEach, Live
    <3>3. QED
      BY <3>2, FS_Singleton
  <2>2. ASSUME "init" \notin astray, NEW s \in DOMAIN sims \ {active} PROVE Live(s) = {}
    BY <2>2 DEF LoopInv, ReplacedStopped, Live
  <2>3. ASSUME astray = {}, status = "running"
        PROVE  Live(active) # {} /\ ~sims[active].paused
    BY <2>3, ActiveSim DEF LoopInv, Claimed, Driven
  <2>4. QED
    BY <2>1, <2>2, <2>3 DEF LoopsAccounted
<1>4. QED
  BY TypeCorrect, <1>1, <1>2, <1>3, PTL DEF Spec

-----------------------------------------------------------------------------
(* RaftSim: what the queue says of the votes of a term.                    *)

Fields == {"role", "term", "votedFor", "votes", "log", "commit", "next", "match", "online"}

\* The parts of a node that every message relies on; all nodes are online.
Upright(nd) ==
    /\ DOMAIN nd = Nodes
    /\ \A n \in Nodes :
        /\ Fields \subseteq DOMAIN nd[n]
        /\ nd[n].term \in Nat /\ nd[n].votes \in Nat /\ nd[n].online

IsQueue(q) ==
    /\ \E S : q \in Seq(S)
    /\ \A k \in DOMAIN q : q[k].from \in Nodes /\ q[k].to \in Nodes /\ q[k].term \in Nat

Asks(m, c, n, t) == m.type = "RequestVote" /\ m.from = c /\ m.to = n /\ m.term = t

Grants(m, n, c, t) ==
    m.type = "RequestVoteReply" /\ m.granted /\ m.from = n /\ m.to = c /\ m.term = t

\* A ballot <<t, n, c>>: node n gave its vote of term t to c.
Voted(B, c, t) == {n \in Nodes : <<t, n, c>> \in B}
Counted(B, q, c, t) ==
    {n \in Voted(B, c, t) : \A k \in DOMAIN q : ~Grants(q[k], n, c, t)}

\* Nobody asks for a vote of term t any more.
Closed(nd, q, t) ==
    /\ \A n \in Nodes : nd[n].term >= t
    /\ \A k \in DOMAIN q : q[k].type = "RequestVote" => q[k].term # t

Requests(B, q) ==
    \A k \in DOMAIN q : \A c, n \in Nodes, t \in Nat : Asks(q[k], c, n, t) =>
        /\ c # n /\ <<t, c, c>> \in B /\ <<t, n, c>> \notin B
        /\ \A j \in DOMAIN q : Asks(q[j], c, n, t) => j = k

Appends(q, el) ==
    \A k \in DOMAIN q : q[k].type = "AppendEntries" =>
        /\ <<q[k].term, q[k].from>> \in el
        /\ \A j \in DOMAIN q : j > k /\ q[j].type = "RequestVote" => q[j].term # q[k].term

Replies(B, nd, q) ==
    \A k \in DOMAIN q : \A c, n \in Nodes, t \in Nat : Grants(q[k], n, c, t) =>
        /\ c # n /\ <<t, n, c>> \in B
        /\ \A j \in DOMAIN q : Grants(q[j], n, c, t) => j = k
        /\ \A x \in Nodes \ {c} :
               nd[x].term >= t \/ \E j \in DOMAIN q : j < k /\ Asks(q[j], c, x, t)

Ballots(B, nd, q) ==
    \A t \in Nat, n, c \in Nodes : <<t, n, c>> \in B =>
        /\ nd[n].term >= t /\ nd[c].term >= t
        /\ nd[n].term = t => nd[n].votedFor = c \/ Closed(nd, q, t)
        /\ \A d \in Nodes : <<t, n, d>> \in B => d = c

Campaigns(B, nd, q) ==
    \A t \in Nat, c \in Nodes : <<t, c, c>> \in B =>
        \A x \in Nodes \ {c} :
            nd[x].term >= t \/ \E j \in DOMAIN q : Asks(q[j], c, x, t)

Elections(B, nd, el) ==
    \A t \in Nat, c \in Nodes : <<t, c>> \in el =>
        /\ \A n \in Nodes : nd[n].term >= t
        /\ Majority(Cardinality(Voted(B, c, t)))

Roles(B, nd, q, el) ==
    \A c \in Nodes :
        /\ nd[c].role = "candidate" =>
               nd[c].votes <= Cardinality(Counted(B, q, c, nd[c].term))
        /\ nd[c].role = "leader" => <<nd[c].term, c>> \in el

Fair(B, nd, q, el) ==
    /\ B \subseteq Nat \X Nodes \X Nodes /\ el \subseteq Nat \X Nodes
    /\ Upright(nd) /\ IsQueue(q)
    /\ Requests(B, q) /\ Appends(q, el) /\ Replies(B, nd, q)
    /\ Ballots(B, nd, q) /\ Campaigns(B, nd, q)
    /\ Elections(B, nd, el) /\ Roles(B, nd, q, el)

(* Sets of nodes are finite.                                               *)
LEMMA VotersFinite ==
    ASSUME RaftAssumption, NEW S, S \subseteq Nodes
    PROVE  IsFiniteSet(S) /\ Cardinality(S) \in Nat /\ Cardinality(S) <= NodeCount
<1>1. IsFiniteSet(Nodes) /\ Cardinality(Nodes) = NodeCount
  <2>1. NodeCount \in Int /\ 1 \in Int /\ NodeCount >= 1
    BY DEF RaftAssumption
  <2> QED
    BY <2>1, FS_Interval DEF Nodes
<1>2. QED
  BY <1>1, FS_Subset, FS_CardinalityType

LEMMA FewerVoters ==
    ASSUME RaftAssumption, NEW S, NEW T, S \subseteq T, T \subseteq Nodes
    PROVE  Cardinality(S) <= Cardinality(T)
<1>1. IsFiniteSet(T) /\ S \in SUBSET T
  BY VotersFinite
<1>2. QED
  BY <1>1, FS_Subset

(* Two majorities share a node.                                            *)
LEMMA MajoritiesMeet ==
    ASSUME RaftAssumption, NEW S, NEW T, S \subseteq Nodes, T \subseteq Nodes,
           Majority(Cardinality(S)), Majority(Cardinality(T))
    PROVE  \E n \in Nodes : n \in S /\ n \in T
<1>1. IsFiniteSet(S) /\ IsFiniteSet(T) /\ Cardinality(S) \in Nat /\ Cardinality(T) \in Nat
  BY VotersFinite
<1>2. Cardinality(S \cup T) <= NodeCount
  BY VotersFinite
<1>3. Cardinality(S \cup T) = Cardinality(S) + Cardinality(T) - Cardinality(S \cap T)
  BY <1>1, FS_Union
<1>4. SUFFICES ASSUME S \cap T = {} PROVE FALSE
  OBVIOUS
<1>5. Cardinality(S \cap T) = 0
  BY <1>4, FS_EmptySet
<1>6. 2 * (NodeCount \div 2) + 1 >= NodeCount
  BY DEF RaftAssumption
<1>7. QED
  BY <1>1, <1>2, <1>3, <1>5, <1>6 DEF Majority, RaftAssumption

(* What the invariant says of elections.                                   *)
LEMMA OneWinner ==
    ASSUME RaftAssumption, NEW B, NEW nd, NEW q, NEW el, Fair(B, nd, q, el),
           NEW a \in el, NEW b \in el, a[1] = b[1]
    PROVE  a = b
<1>1. PICK t \in Nat, c \in Nodes, d \in Nodes : a = <<t, c>> /\ b = <<t, d>>
  BY DEF Fair
<1>2. Majority(Cardinality(Voted(B, c, t))) /\ Majority(Cardinality(Voted(B, d, t)))
  BY <1>1 DEF Fair, Elections
<1>3. PICK n \in Nodes : n \in Voted(B, c, t) /\ n \in Voted(B, d, t)
  BY <1>2, MajoritiesMeet DEF Voted
<1>4. QED
  BY <1>1, <1>3 DEF Fair, Ballots, Voted

-----------------------------------------------------------------------------
(* Queues.                                                                 *)
LEMMA QueueDomain ==
    ASSUME NEW q, IsQueue(q)
    PROVE  Len(q) \in Nat /\ DOMAIN q = 1 .. Len(q) /\ DOMAIN q \subseteq Nat
  BY DEF IsQueue

\* r is q followed by what is in new.
Longer(q, r, new) ==
    /\ IsQueue(r)
    /\ \A k \in DOMAIN q : k \in DOMAIN r /\ r[k] = q[k]
    /\ \A k \in DOMAIN r :
           k \in DOMAIN q \/ \E i \in DOMAIN new : k = Len(q) + i /\ r[k] = new[i]
    /\ \A i \in DOMAIN new : Len(q) + i \in DOMAIN r /\ r[Len(q) + i] = new[i]

(* A queue with others at its end.                                         *)
LEMMA QueueLonger ==
    ASSUME NEW q, NEW new, IsQueue(q), IsQueue(new)
    PROVE  Longer(q, q \o new, new)
<1>1. PICK S, T : q \in Seq(S) /\ new \in Seq(T)
  BY DEF IsQueue
<1> DEFINE U == S \cup T
<1>2. q \in Seq(U) /\ new \in Seq(U)
  BY <1>1
<1> HIDE DEF U
<1>3. /\ q \o new \in Seq(U) /\ DOMAIN (q \o new) = 1 .. Len(q) + Len(new)
      /\ Len(q) \in Nat /\ DOMAIN q = 1 .. Len(q)
      /\ Len(new) \in Nat /\ DOMAIN new = 1 .. Len(new)
      /\ \A k \in DOMAIN q : (q \o new)[k] = q[k]
      /\ \A i \in DOMAIN new : (q \o new)[Len(q) + i] = new[i]
  BY <1>2
<1>4. \A k \in DOMAIN (q \o new) : k \in DOMAIN q \/ \E i \in DOMAIN new : k = Len(q) + i
  <2> TAKE k \in DOMAIN (q \o new)
  <2>1. CASE k <= Len(q)
    BY <1>3, <2>1
  <2>2. CASE k > Len(q)
    BY <1>3, <2>2, k - Len(q) \in DOMAIN new
  <2> QED
    BY <1>3, <2>1, <2>2
<1>5. IsQueue(q \o new)
  BY <1>3, <1>4 DEF IsQueue
<1> QED
  BY <1>3, <1>4, <1>5 DEF Longer

-----------------------------------------------------------------------------
(* Taking messages out of the queue: all may go but a request whose target *)
(* is behind its term.                                                     *)
Thinner(nd, q, r, f) ==
    /\ IsQueue(r)
    /\ \A i \in DOMAIN r : /\ f[i] \in DOMAIN q
                           /\ r[i].type = q[f[i]].type /\ r[i].from = q[f[i]].from
                           /\ r[i].to = q[f[i]].to /\ r[i].term = q[f[i]].term
                           /\ r[i].type = "RequestVoteReply" => (r[i].granted <=> q[f[i]].granted)
    /\ \A i, j \in DOMAIN r : i < j => f[i] < f[j]
    /\ \A k \in DOMAIN q : q[k].type = "RequestVote" /\ nd[q[k].to].term < q[k].term =>
           \E i \in DOMAIN r : f[i] = k

(* The invariant outlives messages taken out in this way.                  *)
LEMMA ThinFair ==
    ASSUME RaftAssumption, NEW B, NEW nd, NEW q, NEW el, NEW r, NEW f,
           Fair(B, nd, q, el), Thinner(nd, q, r, f)
    PROVE  Fair(B, nd, r, el)
<1>1. IsQueue(q) /\ IsQueue(r) /\ DOMAIN q \subseteq Nat /\ DOMAIN r \subseteq Nat
  BY QueueDomain DEF Fair, Thinner
<1>2. \A i, j \in DOMAIN r : f[i] < f[j] => i < j
  BY <1>1 DEF Thinner
<1>11. \A i, j \in DOMAIN r : f[i] = f[j] => i = j
  BY <1>1 DEF Thinner
<1>3. \A i \in DOMAIN r : \A c, n, t :
          /\ f[i] \in DOMAIN q
          /\ Asks(r[i], c, n, t) <=> Asks(q[f[i]], c, n, t)
          /\ Grants(r[i], n, c, t) <=> Grants(q[f[i]], n, c, t)
  BY DEF Thinner, Asks, Grants
<1>4. \A k \in DOMAIN q : \A c, n \in Nodes, t \in Nat :
          Asks(q[k], c, n, t) /\ ~(nd[n].term >= t) => \E i \in DOMAIN r : f[i] = k
  BY DEF Thinner, Asks, Fair, Upright
<1>5. Requests(B, r)
  <2> SUFFICES ASSUME NEW k \in DOMAIN r, NEW c \in Nodes, NEW n \in Nodes, NEW t \in Nat,
                      Asks(r[k], c, n, t)
               PROVE  /\ c # n /\ <<t, c, c>> \in B /\ <<t, n, c>> \notin B
                      /\ \A j \in DOMAIN r : Asks(r[j], c, n, t) => j = k
    BY DEF Requests
  <2>1. Asks(q[f[k]], c, n, t) /\ f[k] \in DOMAIN q
    BY <1>3
  <2>2. /\ c # n /\ <<t, c, c>> \in B /\ <<t, n, c>> \notin B
        /\ \A j \in DOMAIN q : Asks(q[j], c, n, t) => j = f[k]
    BY <2>1 DEF Fair, Requests
  <2>3. ASSUME NEW j \in DOMAIN r, Asks(r[j], c, n, t) PROVE j = k
    <3>1. f[j] \in DOMAIN q /\ Asks(q[f[j]], c, n, t)
      BY <1>3, <2>3
    <3>2. f[j] = f[k]
      BY <3>1, <2>2
    <3> QED
      BY <3>2, <1>11
  <2> QED
    BY <2>2, <2>3
<1>6. Appends(r, el)
  BY <1>1 DEF Appends, Fair, Thinner
<1>7. Replies(B, nd, r)
  <2> SUFFICES ASSUME NEW k \in DOMAIN r, NEW c \in Nodes, NEW n \in Nodes, NEW t \in Nat,
                      Grants(r[k], n, c, t)
               PROVE  /\ c # n /\ <<t, n, c>> \in B
                      /\ \A j \in DOMAIN r : Grants(r[j], n, c, t) => j = k
                      /\ \A x \in Nodes \ {c} : nd[x].term >= t
                             \/ \E j \in DOMAIN r : j < k /\ Asks(r[j], c, x, t)
    BY DEF Replies
  <2>1. Grants(q[f[k]], n, c, t) /\ f[k] \in DOMAIN q
    BY <1>3
  <2>2. /\ c # n /\ <<t, n, c>> \in B
        /\ \A j \in DOMAIN q : Grants(q[j], n, c, t) => j = f[k]
        /\ \A x \in Nodes \ {c} : nd[x].term >= t
               \/ \E j \in DOMAIN q : j < f[k] /\ Asks(q[j], c, x, t)
    BY <2>1 DEF Fair, Replies
  <2>3. \A j \in DOMAIN r : Grants(r[j], n, c, t) => j = k
    <3> TAKE j \in DOMAIN r
    <3> HAVE Grants(r[j], n, c, t)
    <3>1. f[j] \in DOMAIN q /\ Grants(q[f[j]], n, c, t)
      BY <1>3
    <3>2. f[j] = f[k]
      BY <3>1, <2>2
    <3> QED
      BY <3>2, <1>11
  <2>4. ASSUME NEW x \in Nodes \ {c}, ~(nd[x].term >= t)
        PROVE  \E j \in DOMAIN r : j < k /\ Asks(r[j], c, x, t)
    BY <2>2, <2>4, <1>2, <1>3, <1>4
  <2> QED
    BY <2>2, <2>3, <2>4
<1>8. Ballots(B, nd, r)
  <2>1. \A t \in Nat : Closed(nd, q, t) => Closed(nd, r, t)
    BY DEF Closed, Thinner
  <2> QED
    BY <2>1 DEF Ballots, Fair
<1>9. Campaigns(B, nd, r)
  BY <1>3, <1>4 DEF Campaigns, Fair
<1>10. Roles(B, nd, r, el)
  <2> SUFFICES ASSUME NEW c \in Nodes, nd[c].role = "candidate"
               PROVE  nd[c].votes <= Cardinality(Counted(B, r, c, nd[c].term))
    BY DEF Roles, Fair
  <2>1. /\ Counted(B, q, c, nd[c].term) \subseteq Counted(B, r, c, nd[c].term)
        /\ Counted(B, r, c, nd[c].term) \subseteq Nodes
    BY <1>3 DEF Counted, Voted
  <2>2. Cardinality(Counted(B, q, c, nd[c].term)) <= Cardinality(Counted(B, r, c, nd[c].term))
    BY <2>1, FewerVoters
  <2>3. /\ Cardinality(Counted(B, q, c, nd[c].term)) \in Nat
        /\ Cardinality(Counted(B, r, c, nd[c].term)) \in Nat /\ nd[c].votes \in Nat
    BY <2>1, VotersFinite DEF Fair, Upright, Counted, Voted
  <2>4. nd[c].votes <= Cardinality(Counted(B, q, c, nd[c].term))
    BY DEF Fair, Roles
  <2> QED
    BY <2>2, <2>3, <2>4
<1> QED
  BY <1>1, <1>5, <1>6, <1>7, <1>8, <1>9, <1>10 DEF Fair

(* Messages that ask for nothing and grant nothing; AppendEntries only     *)
(* from who was elected.                                                   *)
Harmless(m, el) ==
    \/ m.type = "AppendEntries" /\ <<m.term, m.from>> \in el
    \/ m.type = "AppendEntriesReply"
    \/ m.type = "RequestVoteReply" /\ ~m.granted

(* The invariant outlives such messages.                                   *)
LEMMA LongerFair ==
    ASSUME RaftAssumption, NEW B, NEW nd, NEW q, NEW el, NEW r, NEW new,
           Fair(B, nd, q, el), Longer(q, r, new),
           \A i \in DOMAIN new : Harmless(new[i], el) /\ i \in Nat \ {0}
    PROVE  Fair(B, nd, r, el)
<1>1. /\ IsQueue(q) /\ IsQueue(r) /\ DOMAIN q \subseteq Nat /\ DOMAIN r \subseteq Nat
      /\ Len(q) \in Nat /\ DOMAIN q = 1 .. Len(q)
  BY QueueDomain DEF Fair, Longer
<1>2. \A k \in DOMAIN q : k \in DOMAIN r /\ r[k] = q[k]
  BY DEF Longer
<1>3. ASSUME NEW k \in DOMAIN r
      PROVE  k \in DOMAIN q \/ ((\A j \in DOMAIN q : j < k) /\ Harmless(r[k], el))
  <2> SUFFICES ASSUME k \notin DOMAIN q PROVE (\A j \in DOMAIN q : j < k) /\ Harmless(r[k], el)
    OBVIOUS
  <2>1. PICK i \in DOMAIN new : k = Len(q) + i /\ r[k] = new[i]
    BY DEF Longer
  <2>2. Harmless(new[i], el) /\ i \in Nat \ {0}
    OBVIOUS
  <2> QED
    BY <1>1, <2>1, <2>2
<1>4. \A m : Harmless(m, el) => /\ m.type # "RequestVote"
                                /\ \A c, n, t : ~Asks(m, c, n, t) /\ ~Grants(m, n, c, t)
                                /\ m.type = "AppendEntries" => <<m.term, m.from>> \in el
  BY DEF Harmless, Asks, Grants
<1>5. Requests(B, r)
  BY <1>2, <1>3, <1>4, ZenonT(60) DEF Requests, Fair
<1>6. Appends(r, el)
  <2> SUFFICES ASSUME NEW k \in DOMAIN r, r[k].type = "AppendEntries"
               PROVE  /\ <<r[k].term, r[k].from>> \in el
                      /\ \A j \in DOMAIN r : j > k /\ r[j].type = "RequestVote"
                             => r[j].term # r[k].term
    BY DEF Appends
  <2>1. \A j \in DOMAIN r : r[j].type = "RequestVote" => j \in DOMAIN q /\ r[j] = q[j]
    BY <1>2, <1>3, <1>4
  <2>2. CASE k \in DOMAIN q
    BY <1>2, <2>1, <2>2 DEF Fair, Appends
  <2>3. CASE k \notin DOMAIN q
    <3>1. Harmless(r[k], el) /\ \A j \in DOMAIN q : j < k
      BY <1>3, <2>3
    <3>2. \A j \in DOMAIN r : j > k => r[j].type # "RequestVote"
      BY <3>1, <2>1, <1>1
    <3> QED
      BY <3>1, <3>2, <1>4
  <2> QED
    BY <2>2, <2>3
<1>7. Replies(B, nd, r)
  <2> SUFFICES ASSUME NEW k \in DOMAIN r, NEW c \in Nodes, NEW n \in Nodes, NEW t \in Nat,
                      Grants(r[k], n, c, t)
               PROVE  /\ c # n /\ <<t, n, c>> \in B
                      /\ \A j \in DOMAIN r : Grants(r[j], n, c, t) => j = k
                      /\ \A x \in Nodes \ {c} : nd[x].term >= t
                             \/ \E j \in DOMAIN r : j < k /\ Asks(r[j], c, x, t)
    BY DEF Replies
  <2>1. \A j \in DOMAIN r : Grants(r[j], n, c, t) => j \in DOMAIN q /\ r[j] = q[j]
    BY <1>2, <1>3, <1>4
  <2>2. /\ c # n /\ <<t, n, c>> \in B
        /\ \A j \in DOMAIN q : Grants(q[j], n, c, t) => j = k
        /\ \A x \in Nodes \ {c} : nd[x].term >= t
               \/ \E j \in DOMAIN q : j < k /\ Asks(q[j], c, x, t)
    BY <2>1 DEF Replies, Fair
  <2>3. \A j \in DOMAIN r : Grants(r[j], n, c, t) => j = k
    BY <2>1, <2>2
  <2>4. ASSUME NEW x \in Nodes \ {c}, ~(nd[x].term >= t)
        PROVE  \E j \in DOMAIN r : j < k /\ Asks(r[j], c, x, t)
    BY <2>2, <2>4, <1>2
  <2> QED
    BY <2>2, <2>3, <2>4
<1>8. Ballots(B, nd, r)
  <2>1. \A t \in Nat : Closed(nd, q, t) => Closed(nd, r, t)
    BY <1>2, <1>3, <1>4 DEF Closed
  <2> QED
    BY <2>1 DEF Ballots, Fair
<1>9. Campaigns(B, nd, r)
  BY <1>2 DEF Campaigns, Fair
<1>10. Roles(B, nd, r, el)
  <2>1. ASSUME NEW c \in Nodes PROVE Counted(B, q, c, nd[c].term) = Counted(B, r, c, nd[c].term)
    BY <1>2, <1>3, <1>4 DEF Counted
  <2> QED
    BY <2>1 DEF Roles, Fair
<1> QED
  BY <1>1, <1>5, <1>6, <1>7, <1>8, <1>9, <1>10 DEF Fair

(* A node that changes: its term only grows, and in the same term its vote *)
(* is only taken back when nobody asks for it any more.                    *)
LEMMA NodeFair ==
    ASSUME RaftAssumption, NEW B, NEW nd, NEW q, NEW el, NEW d \in Nodes, NEW st,
           Fair(B, nd, q, el),
           Fields \subseteq DOMAIN st, st.term \in Nat, st.votes \in Nat, st.online,
           st.term >= nd[d].term,
           st.term = nd[d].term => st.votedFor = nd[d].votedFor \/ Closed(nd, q, st.term),
           st.role = "candidate" => st.votes <= Cardinality(Counted(B, q, d, st.term)),
           st.role = "leader" => <<st.term, d>> \in el
    PROVE  Fair(B, [nd EXCEPT ![d] = st], q, el)
<1> DEFINE md == [nd EXCEPT ![d] = st]
<1>1. DOMAIN md = Nodes /\ md[d] = st /\ \A n \in Nodes \ {d} : md[n] = nd[n]
  BY DEF Fair, Upright
<1>2. Upright(nd) /\ \A n \in Nodes : nd[n].term \in Nat
  BY DEF Fair, Upright
<1> HIDE DEF md
<1>3. Upright(md)
  BY <1>1, <1>2 DEF Upright
<1>4. \A n \in Nodes : md[n].term \in Nat /\ \A t \in Nat : nd[n].term >= t => md[n].term >= t
  BY <1>1, <1>2
<1>5. Replies(B, md, q)
  BY <1>4 DEF Fair, Replies
<1>6. Ballots(B, md, q)
  <2>1. \A t \in Nat : Closed(nd, q, t) => Closed(md, q, t)
    BY <1>4 DEF Closed
  <2> SUFFICES ASSUME NEW t \in Nat, NEW n \in Nodes, NEW c \in Nodes, <<t, n, c>> \in B
               PROVE  /\ md[n].term >= t /\ md[c].term >= t
                      /\ md[n].term = t => md[n].votedFor = c \/ Closed(md, q, t)
                      /\ \A x \in Nodes : <<t, n, x>> \in B => x = c
    BY DEF Ballots
  <2>2. /\ nd[n].term >= t /\ nd[c].term >= t
        /\ nd[n].term = t => nd[n].votedFor = c \/ Closed(nd, q, t)
        /\ \A x \in Nodes : <<t, n, x>> \in B => x = c
    BY DEF Fair, Ballots
  <2>3. md[n].term = t => md[n].votedFor = c \/ Closed(md, q, t)
    <3>1. CASE n = d
      BY <1>1, <1>2, <2>1, <2>2, <3>1
    <3>2. CASE n # d
      BY <1>1, <2>1, <2>2, <3>2
    <3> QED
      BY <3>1, <3>2
  <2> QED
    BY <2>2, <2>3, <1>4
<1>7. Campaigns(B, md, q)
  BY <1>4 DEF Fair, Campaigns
<1>8. Elections(B, md, el)
  BY <1>4 DEF Fair, Elections
<1>9. Roles(B, md, q, el)
  BY <1>1 DEF Fair, Roles
<1>10. Fair(B, md, q, el)
  BY <1>3, <1>5, <1>6, <1>7, <1>8, <1>9 DEF Fair
<1> QED
  BY <1>10 DEF md

(* A node that wins an election.                                           *)
LEMMA ElectFair ==
    ASSUME RaftAssumption, NEW B, NEW nd, NEW q, NEW el, NEW c \in Nodes, NEW t \in Nat,
           Fair(B, nd, q, el), \A n \in Nodes : nd[n].term >= t,
           Majority(Cardinality(Voted(B, c, t)))
    PROVE  Fair(B, nd, q, el \cup {<<t, c>>})
<1> DEFINE el2 == el \cup {<<t, c>>}
<1>1. el \subseteq el2 /\ el2 \subseteq Nat \X Nodes
  BY DEF Fair
<1>2. \A u \in Nat, d \in Nodes : <<u, d>> \in el2 => <<u, d>> \in el \/ (u = t /\ d = c)
  OBVIOUS
<1> HIDE DEF el2
<1>3. Elections(B, nd, el2)
  BY <1>2 DEF Elections, Fair
<1>4. Appends(q, el2) /\ Roles(B, nd, q, el2)
  BY <1>1 DEF Appends, Roles, Fair
<1>5. Fair(B, nd, q, el2)
  BY <1>1, <1>3, <1>4 DEF Fair
<1> QED
  BY <1>5 DEF el2

(* A node that has not voted in its term gives its vote to c, who asked.   *)
LEMMA GrantFair ==
    ASSUME RaftAssumption, NEW B, NEW nd, NEW q, NEW el, NEW n \in Nodes, NEW c \in Nodes,
           NEW t \in Nat, NEW st, NEW r, NEW new,
           Fair(B, nd, q, el),
           Fields \subseteq DOMAIN st, st.online,
           nd[n].term = t, st.term = t, st.votedFor = c,
           st.role = nd[n].role, st.votes = nd[n].votes,
           c # n, <<t, c, c>> \in B, \A x \in Nodes : <<t, n, x>> \notin B,
           \A k \in DOMAIN q : ~Asks(q[k], c, n, t),
           Longer(q, r, new), DOMAIN new = {1}, Grants(new[1], n, c, t)
    PROVE  Fair(B \cup {<<t, n, c>>}, [nd EXCEPT ![n] = st], r, el)
<1> DEFINE md == [nd EXCEPT ![n] = st]
           C == B \cup {<<t, n, c>>}
<1>1. /\ DOMAIN md = Nodes /\ md[n] = st /\ \A x \in Nodes \ {n} : md[x] = nd[x]
      /\ Upright(nd) /\ \A x \in Nodes : nd[x].term \in Nat
  BY DEF Fair, Upright
<1>2. /\ \A u \in Nat, x, y \in Nodes :
             <<u, x, y>> \in C <=> <<u, x, y>> \in B \/ (u = t /\ x = n /\ y = c)
      /\ C \subseteq Nat \X Nodes \X Nodes /\ B \subseteq C
  BY DEF Fair
<1> HIDE DEF md, C
<1>3. /\ \A x \in Nodes : /\ md[x].term = nd[x].term /\ md[x].role = nd[x].role
                          /\ md[x].votes = nd[x].votes
                          /\ x # n => md[x].votedFor = nd[x].votedFor
      /\ md[n].votedFor = c
  BY <1>1
<1>4. Upright(md)
  BY <1>1 DEF Upright
<1>5. /\ IsQueue(q) /\ IsQueue(r) /\ DOMAIN q \subseteq Nat /\ DOMAIN r \subseteq Nat
      /\ Len(q) \in Nat /\ DOMAIN q = 1 .. Len(q)
  BY QueueDomain DEF Fair, Longer
<1>6. \A k \in DOMAIN q : k \in DOMAIN r /\ r[k] = q[k]
  BY DEF Longer
<1>7. \A k \in DOMAIN r : k \in DOMAIN q \/ (k = Len(q) + 1 /\ r[k] = new[1])
  BY DEF Longer
<1>8. new[1].type = "RequestVoteReply" /\ \A x, y, u : ~Asks(new[1], x, y, u)
  BY DEF Grants, Asks
<1>9. \A x, y, u : Grants(new[1], x, y, u) => x = n /\ y = c /\ u = t
  BY DEF Grants
<1>10. Requests(C, r)
  <2> SUFFICES ASSUME NEW k \in DOMAIN r, NEW d \in Nodes, NEW x \in Nodes, NEW u \in Nat,
                      Asks(r[k], d, x, u)
               PROVE  /\ d # x /\ <<u, d, d>> \in C /\ <<u, x, d>> \notin C
                      /\ \A j \in DOMAIN r : Asks(r[j], d, x, u) => j = k
    BY DEF Requests
  <2>1. \A j \in DOMAIN r : Asks(r[j], d, x, u) => j \in DOMAIN q /\ r[j] = q[j]
    BY <1>6, <1>7, <1>8
  <2>2. /\ d # x /\ <<u, d, d>> \in B /\ <<u, x, d>> \notin B
        /\ \A j \in DOMAIN q : Asks(q[j], d, x, u) => j = k
    BY <2>1 DEF Fair, Requests
  <2>3. ~(u = t /\ x = n /\ d = c)
    BY <2>1
  <2> QED
    BY <2>1, <2>2, <2>3, <1>2
<1>11. Appends(r, el)
  BY <1>6, <1>7, <1>8 DEF Fair, Appends
<1>12. Replies(C, md, r)
  <2> SUFFICES ASSUME NEW k \in DOMAIN r, NEW d \in Nodes, NEW x \in Nodes, NEW u \in Nat,
                      Grants(r[k], x, d, u)
               PROVE  /\ d # x /\ <<u, x, d>> \in C
                      /\ \A j \in DOMAIN r : Grants(r[j], x, d, u) => j = k
                      /\ \A y \in Nodes \ {d} : md[y].term >= u
                             \/ \E j \in DOMAIN r : j < k /\ Asks(r[j], d, y, u)
    BY DEF Replies
  <2>1. CASE k \in DOMAIN q
    <3>1. Grants(q[k], x, d, u)
      BY <2>1, <1>6
    <3>2. /\ d # x /\ <<u, x, d>> \in B
          /\ \A j \in DOMAIN q : Grants(q[j], x, d, u) => j = k
          /\ \A y \in Nodes \ {d} : nd[y].term >= u
                 \/ \E j \in DOMAIN q : j < k /\ Asks(q[j], d, y, u)
      BY <2>1, <3>1 DEF Fair, Replies
    <3>3. \A j \in DOMAIN r : Grants(r[j], x, d, u) => j \in DOMAIN q /\ r[j] = q[j]
      BY <3>2, <1>6, <1>7, <1>9
    <3>4. \A j \in DOMAIN r : Grants(r[j], x, d, u) => j = k
      BY <3>2, <3>3
    <3>5. \A y \in Nodes \ {d} : md[y].term >= u
                 \/ \E j \in DOMAIN r : j < k /\ Asks(r[j], d, y, u)
      BY <3>2, <1>3, <1>6
    <3> QED
      BY <3>2, <3>4, <3>5, <1>2
  <2>2. CASE k \notin DOMAIN q
    <3>1. k = Len(q) + 1 /\ x = n /\ d = c /\ u = t
      BY <2>2, <1>7, <1>9
    <3>2. \A j \in DOMAIN q : ~Grants(q[j], n, c, t)
      BY DEF Fair, Replies
    <3>3. \A j \in DOMAIN r : Grants(r[j], x, d, u) => j = k
      BY <3>1, <3>2, <1>6, <1>7
    <3>4. \A y \in Nodes \ {c} : nd[y].term >= t \/ \E j \in DOMAIN q : Asks(q[j], c, y, t)
      BY DEF Fair, Campaigns
    <3>5. \A j \in DOMAIN q : j < k
      BY <3>1, <1>5
    <3>6. \A y \in Nodes \ {d} : md[y].term >= u
                 \/ \E j \in DOMAIN r : j < k /\ Asks(r[j], d, y, u)
      BY <3>1, <3>4, <3>5, <1>3, <1>6
    <3> QED
      BY <3>1, <3>3, <3>6, <1>2
  <2> QED
    BY <2>1, <2>2
<1>13. Ballots(C, md, r)
  <2>1. \A u \in Nat : Closed(nd, q, u) => Closed(md, r, u)
    BY <1>3, <1>6, <1>7, <1>8 DEF Closed
  <2> SUFFICES ASSUME NEW u \in Nat, NEW x \in Nodes, NEW d \in Nodes, <<u, x, d>> \in C
               PROVE  /\ md[x].term >= u /\ md[d].term >= u
                      /\ md[x].term = u => md[x].votedFor = d \/ Closed(md, r, u)
                      /\ \A y \in Nodes : <<u, x, y>> \in C => y = d
    BY DEF Ballots
  <2>2. CASE u = t /\ x = n
    <3>1. d = c /\ nd[c].term >= t
      BY <2>2, <1>2 DEF Fair, Ballots
    <3> QED
      BY <3>1, <2>2, <1>1, <1>2, <1>3
  <2>3. CASE ~(u = t /\ x = n)
    <3>1. <<u, x, d>> \in B
      BY <2>3, <1>2
    <3>2. /\ nd[x].term >= u /\ nd[d].term >= u
          /\ nd[x].term = u => nd[x].votedFor = d \/ Closed(nd, q, u)
          /\ \A y \in Nodes : <<u, x, y>> \in B => y = d
      BY <3>1 DEF Fair, Ballots
    <3>3. md[x].term = u => md[x].votedFor = d \/ Closed(md, r, u)
      BY <3>2, <2>1, <2>3, <1>3
    <3> QED
      BY <3>2, <3>3, <2>3, <1>2, <1>3
  <2> QED
    BY <2>2, <2>3
<1>14. Campaigns(C, md, r)
  <2> SUFFICES ASSUME NEW u \in Nat, NEW d \in Nodes, <<u, d, d>> \in C,
                      NEW x \in Nodes \ {d}
               PROVE  md[x].term >= u \/ \E j \in DOMAIN r : Asks(r[j], d, x, u)
    BY DEF Campaigns
  <2>1. <<u, d, d>> \in B
    BY <1>2
  <2> QED
    BY <2>1, <1>3, <1>6 DEF Fair, Campaigns
<1>15. \A u \in Nat, d \in Nodes : Voted(B, d, u) \subseteq Voted(C, d, u)
  BY <1>2 DEF Voted
<1>16. Elections(C, md, el)
  <2> SUFFICES ASSUME NEW u \in Nat, NEW d \in Nodes, <<u, d>> \in el
               PROVE  Majority(Cardinality(Voted(C, d, u)))
    BY <1>3 DEF Fair, Elections
  <2>1. /\ Majority(Cardinality(Voted(B, d, u)))
        /\ Cardinality(Voted(B, d, u)) <= Cardinality(Voted(C, d, u))
        /\ Cardinality(Voted(B, d, u)) \in Nat /\ Cardinality(Voted(C, d, u)) \in Nat
    BY <1>15, FewerVoters, VotersFinite DEF Fair, Elections, Voted
  <2> QED
    BY <2>1 DEF Majority, RaftAssumption
<1>17. Roles(C, md, r, el)
  <2> SUFFICES ASSUME NEW x \in Nodes, nd[x].role = "candidate"
               PROVE  nd[x].votes <= Cardinality(Counted(C, r, x, nd[x].term))
    BY <1>3 DEF Fair, Roles
  <2>1. Counted(B, q, x, nd[x].term) \subseteq Counted(C, r, x, nd[x].term)
    <3> SUFFICES ASSUME NEW y \in Nodes, <<nd[x].term, y, x>> \in B,
                        \A k \in DOMAIN q : ~Grants(q[k], y, x, nd[x].term),
                        NEW k \in DOMAIN r, Grants(r[k], y, x, nd[x].term)
                 PROVE  FALSE
      BY <1>2 DEF Counted, Voted
    <3>1. k \notin DOMAIN q
      BY <1>6
    <3>2. y = n /\ x = c /\ nd[x].term = t
      BY <3>1, <1>7, <1>9
    <3> QED
      BY <3>2
  <2>2. /\ nd[x].votes <= Cardinality(Counted(B, q, x, nd[x].term)) /\ nd[x].votes \in Nat
        /\ Cardinality(Counted(B, q, x, nd[x].term)) <= Cardinality(Counted(C, r, x, nd[x].term))
        /\ Cardinality(Counted(B, q, x, nd[x].term)) \in Nat
        /\ Cardinality(Counted(C, r, x, nd[x].term)) \in Nat
    BY <2>1, FewerVoters, VotersFinite DEF Fair, Upright, Roles, Counted, Voted
  <2> QED
    BY <2>2
<1>18. Fair(C, md, r, el)
  BY <1>2, <1>4, <1>5, <1>10, <1>11, <1>12, <1>13, <1>14, <1>16, <1>17 DEF Fair
<1> QED
  BY <1>18 DEF C, md

(* The other nodes, each of them once.                                     *)
LEMMA OthersAreAll ==
    ASSUME RaftAssumption, NEW n \in Nodes
    PROVE  /\ DOMAIN Others(n) = 1 .. NodeCount - 1
           /\ \A i \in 1 .. NodeCount - 1 : Others(n)[i] \in Nodes /\ Others(n)[i] # n
           /\ \A i, j \in 1 .. NodeCount - 1 : Others(n)[i] = Others(n)[j] => i = j
           /\ \A x \in Nodes \ {n} : \E i \in 1 .. NodeCount - 1 : Others(n)[i] = x
<1>1. /\ DOMAIN Others(n) = 1 .. NodeCount - 1 /\ n \in Int /\ NodeCount \in Int
      /\ \A i \in 1 .. NodeCount - 1 : Others(n)[i] = IF i < n THEN i ELSE i + 1
  BY DEF Others, Nodes, RaftAssumption
<1>2. ASSUME NEW x \in Nodes \ {n} PROVE \E i \in 1 .. NodeCount - 1 : Others(n)[i] = x
  <2>1. CASE x < n
    BY <1>1, <2>1, x \in 1 .. NodeCount - 1 DEF Nodes
  <2>2. CASE x > n
    <3>1. x - 1 \in 1 .. NodeCount - 1 /\ ~(x - 1 < n) /\ (x - 1) + 1 = x
      BY <1>1, <2>2 DEF Nodes
    <3> QED
      BY <1>1, <3>1
  <2> QED
    BY <1>1, <2>1, <2>2 DEF Nodes
<1>3. \A i \in 1 .. NodeCount - 1 : Others(n)[i] \in Nodes /\ Others(n)[i] # n
  BY <1>1 DEF Nodes
<1>4. \A i, j \in 1 .. NodeCount - 1 : Others(n)[i] = Others(n)[j] => i = j
  <2> TAKE i, j \in 1 .. NodeCount - 1
  <2>1. i \in Int /\ j \in Int
    OBVIOUS
  <2> QED
    BY <1>1, <2>1
<1> QED
  BY <1>1, <1>2, <1>3, <1>4

(* A node that stands for election asks all others.                        *)
LEMMA CampaignFair ==
    ASSUME RaftAssumption, NEW B, NEW nd, NEW q, NEW el, NEW n \in Nodes, NEW t \in Nat,
           NEW st, NEW r, NEW new,
           Fair(B, nd, q, el),
           Fields \subseteq DOMAIN st, st.online,
           t > nd[n].term, st.term = t, st.votedFor = n, st.role = "candidate", st.votes = 1,
           Longer(q, r, new), DOMAIN new = 1 .. NodeCount - 1,
           \A i \in DOMAIN new : Asks(new[i], n, Others(n)[i], t)
    PROVE  Fair(B \cup {<<t, n, n>>}, [nd EXCEPT ![n] = st], r, el)
<1> DEFINE md == [nd EXCEPT ![n] = st]
           C == B \cup {<<t, n, n>>}
<1>1. /\ DOMAIN md = Nodes /\ md[n] = st /\ \A x \in Nodes \ {n} : md[x] = nd[x]
      /\ Upright(nd) /\ \A x \in Nodes : nd[x].term \in Nat
  BY DEF Fair, Upright
<1>2. /\ \A u \in Nat, x, y \in Nodes :
             <<u, x, y>> \in C <=> <<u, x, y>> \in B \/ (u = t /\ x = n /\ y = n)
      /\ C \subseteq Nat \X Nodes \X Nodes /\ B \subseteq C
  BY DEF Fair
<1> HIDE DEF md, C
<1>3. /\ \A x \in Nodes : /\ md[x].term \in Nat
                          /\ \A u \in Nat : nd[x].term >= u => md[x].term >= u
      /\ md[n].term = t /\ md[n].votedFor = n /\ ~(nd[n].term >= t)
  BY <1>1
<1>4. Upright(md)
  BY <1>1 DEF Upright
<1>5. /\ IsQueue(q) /\ IsQueue(r) /\ DOMAIN q \subseteq Nat /\ DOMAIN r \subseteq Nat
      /\ Len(q) \in Nat /\ DOMAIN q = 1 .. Len(q)
  BY QueueDomain DEF Fair, Longer
<1>6. \A k \in DOMAIN q : k \in DOMAIN r /\ r[k] = q[k]
  BY DEF Longer
<1>7. \A k \in DOMAIN r : k \notin DOMAIN q =>
          \E i \in 1 .. NodeCount - 1 : k = Len(q) + i /\ Asks(r[k], n, Others(n)[i], t)
  BY DEF Longer
<1>8. \A m, x, y, u : Asks(m, x, y, u) => /\ m.type = "RequestVote" /\ m.term = u
                                          /\ m.from = x /\ m.to = y
                                          /\ \A a, b, v : ~Grants(m, a, b, v)
  BY DEF Asks, Grants
\* Nobody knows of the term yet.
<1>9. /\ \A x, y \in Nodes : <<t, x, y>> \in B => x # n /\ y # n
      /\ \A y \in Nodes : <<t, y>> \notin el
  BY <1>3 DEF Fair, Ballots, Elections
<1>10. Requests(C, r)
  <2> SUFFICES ASSUME NEW k \in DOMAIN r, NEW d \in Nodes, NEW x \in Nodes, NEW u \in Nat,
                      Asks(r[k], d, x, u)
               PROVE  /\ d # x /\ <<u, d, d>> \in C /\ <<u, x, d>> \notin C
                      /\ \A j \in DOMAIN r : Asks(r[j], d, x, u) => j = k
    BY DEF Requests
  <2>1. CASE k \in DOMAIN q
    <3>1. Asks(q[k], d, x, u)
      BY <2>1, <1>6
    <3>2. /\ d # x /\ <<u, d, d>> \in B /\ <<u, x, d>> \notin B
          /\ \A j \in DOMAIN q : Asks(q[j], d, x, u) => j = k
      BY <2>1, <3>1 DEF Fair, Requests
    <3>3. ~(u = t /\ d = n)
      BY <3>2, <1>9
    <3>4. \A j \in DOMAIN r : Asks(r[j], d, x, u) => j \in DOMAIN q /\ r[j] = q[j]
      BY <3>3, <1>6, <1>7, <1>8
    <3> QED
      BY <3>2, <3>4, <1>2
  <2>2. CASE k \notin DOMAIN q
    <3>1. PICK i \in 1 .. NodeCount - 1 : k = Len(q) + i /\ Asks(r[k], n, Others(n)[i], t)
      BY <2>2, <1>7
    <3>2. d = n /\ u = t /\ x = Others(n)[i]
      BY <3>1, <1>8
    <3>3. x # n
      BY <3>2, OthersAreAll
    <3>4. <<t, n, n>> \in C /\ <<t, x, n>> \notin C
      BY <3>3, <1>2, <1>9
    <3>5. ASSUME NEW j \in DOMAIN r, Asks(r[j], n, x, t) PROVE j = k
      <4>1. j \notin DOMAIN q
        BY <3>5, <1>6, <1>9 DEF Fair, Requests
      <4>2. PICK h \in 1 .. NodeCount - 1 : j = Len(q) + h /\ Asks(r[j], n, Others(n)[h], t)
        BY <4>1, <1>7
      <4>3. Others(n)[h] = Others(n)[i]
        BY <4>2, <3>2, <3>5, <1>8
      <4> QED
        BY <4>2, <4>3, <3>1, OthersAreAll, ZenonT(60)
    <3> QED
      BY <3>2, <3>3, <3>4, <3>5
  <2> QED
    BY <2>1, <2>2
<1>11. Appends(r, el)
  <2> SUFFICES ASSUME NEW k \in DOMAIN r, r[k].type = "AppendEntries"
               PROVE  /\ <<r[k].term, r[k].from>> \in el
                      /\ \A j \in DOMAIN r : j > k /\ r[j].type = "RequestVote"
                             => r[j].term # r[k].term
    BY DEF Appends
  <2>1. k \in DOMAIN q /\ r[k] = q[k]
    BY <1>6, <1>7, <1>8
  <2>2. /\ <<q[k].term, q[k].from>> \in el /\ q[k].from \in Nodes
        /\ \A j \in DOMAIN q : j > k /\ q[j].type = "RequestVote" => q[j].term # q[k].term
    BY <2>1 DEF Fair, Appends, IsQueue
  <2>3. q[k].term # t
    BY <2>2, <1>9
  <2>4. \A j \in DOMAIN r : j \in DOMAIN q \/ r[j].term = t
    BY <1>7, <1>8
  <2> QED
    BY <2>1, <2>2, <2>3, <2>4, <1>6
<1>12. Replies(C, md, r)
  <2> SUFFICES ASSUME NEW k \in DOMAIN r, NEW d \in Nodes, NEW x \in Nodes, NEW u \in Nat,
                      Grants(r[k], x, d, u)
               PROVE  /\ d # x /\ <<u, x, d>> \in C
                      /\ \A j \in DOMAIN r : Grants(r[j], x, d, u) => j = k
                      /\ \A y \in Nodes \ {d} : md[y].term >= u
                             \/ \E j \in DOMAIN r : j < k /\ Asks(r[j], d, y, u)
    BY DEF Replies
  <2>1. \A j \in DOMAIN r : Grants(r[j], x, d, u) => j \in DOMAIN q /\ r[j] = q[j]
    BY <1>6, <1>7, <1>8
  <2>2. /\ d # x /\ <<u, x, d>> \in B
        /\ \A j \in DOMAIN q : Grants(q[j], x, d, u) => j = k
        /\ \A y \in Nodes \ {d} : nd[y].term >= u
               \/ \E j \in DOMAIN q : j < k /\ Asks(q[j], d, y, u)
    BY <2>1 DEF Fair, Replies
  <2>3. \A j \in DOMAIN r : Grants(r[j], x, d, u) => j = k
    BY <2>1, <2>2
  <2>4. \A y \in Nodes \ {d} : md[y].term >= u
               \/ \E j \in DOMAIN r : j < k /\ Asks(r[j], d, y, u)
    BY <2>2, <1>3, <1>6
  <2> QED
    BY <2>2, <2>3, <2>4, <1>2
<1>13. Ballots(C, md, r)
  <2>1. ASSUME NEW u \in Nat, Closed(nd, q, u) PROVE Closed(md, r, u)
    <3>1. u # t
      BY <2>1, <1>3 DEF Closed
    <3>2. \A k \in DOMAIN r : k \in DOMAIN q \/ r[k].term = t
      BY <1>7, <1>8
    <3> QED
      BY <2>1, <3>1, <3>2, <1>3, <1>6 DEF Closed
  <2> SUFFICES ASSUME NEW u \in Nat, NEW x \in Nodes, NEW d \in Nodes, <<u, x, d>> \in C
               PROVE  /\ md[x].term >= u /\ md[d].term >= u
                      /\ md[x].term = u => md[x].votedFor = d \/ Closed(md, r, u)
                      /\ \A y \in Nodes : <<u, x, y>> \in C => y = d
    BY DEF Ballots
  <2>2. CASE u = t /\ x = n
    <3>1. d = n
      BY <2>2, <1>2, <1>9
    <3> QED
      BY <3>1, <2>2, <1>2, <1>3, <1>9
  <2>3. CASE ~(u = t /\ x = n)
    <3>1. <<u, x, d>> \in B
      BY <2>3, <1>2
    <3>2. /\ nd[x].term >= u /\ nd[d].term >= u
          /\ nd[x].term = u => nd[x].votedFor = d \/ Closed(nd, q, u)
          /\ \A y \in Nodes : <<u, x, y>> \in B => y = d
      BY <3>1 DEF Fair, Ballots
    <3>3. md[x].term = u => md[x].votedFor = d \/ Closed(md, r, u)
      BY <3>2, <2>1, <2>3, <1>1, <1>3
    <3> QED
      BY <3>2, <3>3, <2>3, <1>2, <1>3
  <2> QED
    BY <2>2, <2>3
<1>14. Campaigns(C, md, r)
  <2> SUFFICES ASSUME NEW u \in Nat, NEW d \in Nodes, <<u, d, d>> \in C,
                      NEW x \in Nodes \ {d}
               PROVE  md[x].term >= u \/ \E j \in DOMAIN r : Asks(r[j], d, x, u)
    BY DEF Campaigns
  <2>1. CASE <<u, d, d>> \in B
    BY <2>1, <1>3, <1>6 DEF Fair, Campaigns
  <2>2. CASE <<u, d, d>> \notin B
    <3>1. u = t /\ d = n
      BY <2>2, <1>2
    <3>2. PICK i \in 1 .. NodeCount - 1 : Others(n)[i] = x
      BY <3>1, OthersAreAll
    <3>3. Len(q) + i \in DOMAIN r /\ r[Len(q) + i] = new[i] /\ Asks(new[i], n, Others(n)[i], t)
      BY DEF Longer
    <3> QED
      BY <3>1, <3>2, <3>3
  <2> QED
    BY <2>1, <2>2
<1>15. \A u \in Nat, d \in Nodes : Voted(B, d, u) \subseteq Voted(C, d, u)
  BY <1>2 DEF Voted
<1>16. Elections(C, md, el)
  <2> SUFFICES ASSUME NEW u \in Nat, NEW d \in Nodes, <<u, d>> \in el
               PROVE  Majority(Cardinality(Voted(C, d, u)))
    BY <1>3 DEF Fair, Elections
  <2>1. /\ Majority(Cardinality(Voted(B, d, u)))
        /\ Cardinality(Voted(B, d, u)) <= Cardinality(Voted(C, d, u))
        /\ Cardinality(Voted(B, d, u)) \in Nat /\ Cardinality(Voted(C, d, u)) \in Nat
    BY <1>15, FewerVoters, VotersFinite DEF Fair, Elections, Voted
  <2> QED
    BY <2>1 DEF Majority, RaftAssumption
<1>17. \A k \in DOMAIN r : \A x, y, u : Grants(r[k], x, y, u) => k \in DOMAIN q /\ r[k] = q[k]
  BY <1>6, <1>7, <1>8
<1>18. Roles(C, md, r, el)
  <2>1. ASSUME NEW x \in Nodes \ {n}, nd[x].role = "candidate"
        PROVE  nd[x].votes <= Cardinality(Counted(C, r, x, nd[x].term))
    <3>1. Counted(B, q, x, nd[x].term) \subseteq Counted(C, r, x, nd[x].term)
      BY <1>2, <1>17 DEF Counted, Voted
    <3>2. /\ nd[x].votes <= Cardinality(Counted(B, q, x, nd[x].term)) /\ nd[x].votes \in Nat
          /\ Cardinality(Counted(B, q, x, nd[x].term)) <= Cardinality(Counted(C, r, x, nd[x].term))
          /\ Cardinality(Counted(B, q, x, nd[x].term)) \in Nat
          /\ Cardinality(Counted(C, r, x, nd[x].term)) \in Nat
      BY <2>1, <3>1, FewerVoters, VotersFinite DEF Fair, Upright, Roles, Counted, Voted
    <3> QED
      BY <3>2
  <2>2. 1 <= Cardinality(Counted(C, r, n, t))
    <3>1. \A k \in DOMAIN q : ~Grants(q[k], n, n, t)
      BY DEF Fair, Replies
    <3>2. {n} \subseteq Counted(C, r, n, t) /\ Counted(C, r, n, t) \subseteq Nodes
      BY <3>1, <1>2, <1>17 DEF Counted, Voted
    <3>3. Cardinality({n}) = 1
      BY FS_Singleton
    <3> QED
      BY <3>2, <3>3, FewerVoters
  <2>3. md[n].role = "candidate" /\ md[n].votes = 1 /\ md[n].term = t
    BY <1>1
  <2> QED
    BY <2>1, <2>2, <2>3, <1>1 DEF Fair, Roles
<1>19. Fair(C, md, r, el)
  BY <1>2, <1>4, <1>5, <1>10, <1>11, <1>12, <1>13, <1>14, <1>16, <1>18 DEF Fair
<1> QED
  BY <1>19 DEF C, md

-----------------------------------------------------------------------------
(* The operators on the queue.                                             *)
LEMMA EmptyOrHead ==
    ASSUME NEW q, IsQueue(q), q # <<>>
    PROVE  /\ Len(q) \in Nat \ {0} /\ DOMAIN q = 1 .. Len(q) /\ 1 \in DOMAIN q
           /\ Head(q) = q[1]
           /\ Head(q).from \in Nodes /\ Head(q).to \in Nodes /\ Head(q).term \in Nat
           /\ IsQueue(Tail(q)) /\ DOMAIN Tail(q) = 1 .. Len(q) - 1
           /\ \A i \in DOMAIN Tail(q) : i + 1 \in DOMAIN q /\ Tail(q)[i] = q[i + 1]
<1>1. PICK S : q \in Seq(S)
  BY DEF IsQueue
<1>2. /\ Len(q) \in Nat \ {0} /\ DOMAIN q = 1 .. Len(q) /\ 1 \in DOMAIN q
      /\ Head(q) = q[1]
  BY <1>1
<1>3. /\ Tail(q) \in Seq(S) /\ DOMAIN Tail(q) = 1 .. Len(q) - 1
      /\ \A i \in DOMAIN Tail(q) : i + 1 \in DOMAIN q /\ Tail(q)[i] = q[i + 1]
  BY <1>1, <1>2
<1>4. IsQueue(Tail(q))
  BY <1>3 DEF IsQueue
<1> QED
  BY <1>2, <1>3, <1>4 DEF IsQueue

(* The first message is gone, when its target has heard of its term.       *)
LEMMA TailFair ==
    ASSUME RaftAssumption, NEW B, NEW nd, NEW q, NEW el, Fair(B, nd, q, el), q # <<>>,
           Head(q).type = "RequestVote" => nd[Head(q).to].term >= Head(q).term
    PROVE  Fair(B, nd, Tail(q), el)
<1> DEFINE f == [i \in DOMAIN Tail(q) |-> i + 1]
<1>1. IsQueue(q) /\ Upright(nd)
  BY DEF Fair
<1>2. /\ \A i \in DOMAIN Tail(q) : f[i] = i + 1 /\ i + 1 \in DOMAIN q /\ Tail(q)[i] = q[i + 1]
      /\ DOMAIN Tail(q) = 1 .. Len(q) - 1 /\ Len(q) \in Nat \ {0} /\ DOMAIN q = 1 .. Len(q)
      /\ IsQueue(Tail(q)) /\ Head(q) = q[1]
  BY <1>1, EmptyOrHead
<1> HIDE DEF f
<1>3. \A i, j \in DOMAIN Tail(q) : i < j => f[i] < f[j]
  BY <1>2
<1>4. ASSUME NEW k \in DOMAIN q, q[k].type = "RequestVote", nd[q[k].to].term < q[k].term
      PROVE  \E i \in DOMAIN Tail(q) : f[i] = k
  <2>1. k # 1
    BY <1>1, <1>2, <1>4 DEF Upright, IsQueue
  <2>2. k - 1 \in DOMAIN Tail(q) /\ (k - 1) + 1 = k
    BY <1>2, <2>1
  <2> QED
    BY <1>2, <2>2
<1>5. Thinner(nd, q, Tail(q), f)
  BY <1>2, <1>3, <1>4 DEF Thinner
<1> QED
  BY <1>5, ThinFair

(* The invariant does not look at the entries.                             *)
LEMMA OverwriteFair ==
    ASSUME RaftAssumption, NEW B, NEW nd, NEW q, NEW el, NEW n, NEW old, NEW log,
           Fair(B, nd, q, el)
    PROVE  Fair(B, nd, Overwrite(q, n, old, log), el)
<1> DEFINE r == Overwrite(q, n, old, log)
<1>1. CASE Len(old) # Len(log)
  BY <1>1 DEF Overwrite
<1>2. CASE Len(old) = Len(log)
  <2> DEFINE Other(k) == [q[k] EXCEPT !.entries =
                  [i \in DOMAIN @ |-> IF q[k].prev + i \in DOMAIN log
                                      THEN log[q[k].prev + i] ELSE @[i]]]
             R(k) == IF q[k].type = "AppendEntries" /\ q[k].from = n THEN Other(k) ELSE q[k]
             f == [i \in DOMAIN q |-> i]
  <2>1. r = [k \in DOMAIN q |-> R(k)]
    BY <1>2 DEF Overwrite
  <2>2. \A k \in DOMAIN q : /\ R(k).type = q[k].type /\ R(k).from = q[k].from
                            /\ R(k).to = q[k].to /\ R(k).term = q[k].term
                            /\ R(k).type = "RequestVoteReply" => R(k).granted = q[k].granted
    OBVIOUS
  <2> HIDE DEF R
  <2>3. IsQueue(q) /\ DOMAIN q = 1 .. Len(q) /\ Len(q) \in Nat /\ DOMAIN r = DOMAIN q
    BY <2>1, QueueDomain DEF Fair
  <2>4. \A k \in DOMAIN q : r[k] = R(k) /\ f[k] = k
    BY <2>1
  <2>5. r \in Seq({R(k) : k \in DOMAIN q})
    BY <2>1, <2>3
  <2> HIDE DEF f, r
  <2>6. IsQueue(r)
    BY <2>2, <2>3, <2>4, <2>5 DEF IsQueue
  <2>7. Thinner(nd, q, r, f)
    BY <2>2, <2>3, <2>4, <2>6 DEF Thinner
  <2>8. Fair(B, nd, r, el)
    BY <2>7, ThinFair
  <2> QED
    BY <2>8 DEF r
<1> QED
  BY <1>1, <1>2

(* Functions from 1 .. m are sequences.                                    *)
LEMMA FunctionIsSequence ==
    ASSUME NEW S, NEW m \in Nat, NEW f \in [1 .. m -> S]
    PROVE  f \in Seq(S)
  OBVIOUS

(* Numbering the members of a set of positions in their order.             *)
LEMMA Places ==
    ASSUME NEW L \in Nat, NEW kept, kept \subseteq 1 .. L,
           NEW p, p = [k \in kept |-> Cardinality({j \in kept : j <= k})]
    PROVE  /\ Cardinality(kept) \in Nat
           /\ \A k \in kept : p[k] \in 1 .. Cardinality(kept)
           /\ \A k, l \in kept : k < l => p[k] < p[l]
           /\ \A i \in 1 .. Cardinality(kept) : \E k \in kept : p[k] = i
<1> DEFINE Upto(k) == {j \in kept : j <= k}
<1>1. IsFiniteSet(kept) /\ Cardinality(kept) \in Nat
  <2>1. IsFiniteSet(1 .. L)
    BY FS_Interval
  <2> QED
    BY <2>1, FS_Subset, FS_CardinalityType
<1>2. ASSUME NEW k \in kept
      PROVE  /\ p[k] = Cardinality(Upto(k)) /\ IsFiniteSet(Upto(k))
             /\ p[k] \in 1 .. Cardinality(kept)
  <2>1. Upto(k) \in SUBSET kept /\ {k} \in SUBSET Upto(k)
    BY k \in Int
  <2> HIDE DEF Upto
  <2>2. IsFiniteSet(Upto(k)) /\ Cardinality(Upto(k)) <= Cardinality(kept)
    BY <1>1, <2>1, FS_Subset
  <2>3. Cardinality(Upto(k)) \in Nat /\ Cardinality({k}) <= Cardinality(Upto(k))
    BY <2>1, <2>2, FS_Subset, FS_CardinalityType
  <2>4. Cardinality({k}) = 1
    BY FS_Singleton
  <2>5. p[k] = Cardinality(Upto(k))
    BY DEF Upto
  <2> QED
    BY <1>1, <2>2, <2>3, <2>4, <2>5
<1>3. ASSUME NEW k \in kept, NEW l \in kept, k < l PROVE p[k] < p[l]
  <2>1. k \in Int /\ l \in Int /\ \A j \in kept : j \in Int
    OBVIOUS
  <2>2. /\ \A j \in kept : j <= k => j <= l
        /\ l <= l /\ ~(l <= k)
    BY <1>3, <2>1
  <2>3. Upto(k) \in SUBSET Upto(l) /\ l \in Upto(l) /\ l \notin Upto(k)
    BY <2>2
  <2> HIDE DEF Upto
  <2>4. Cardinality(Upto(k)) <= Cardinality(Upto(l)) /\ Cardinality(Upto(k)) # Cardinality(Upto(l))
    BY <1>2, <2>3, FS_Subset
  <2>5. p[k] = Cardinality(Upto(k)) /\ p[l] = Cardinality(Upto(l)) /\ p[k] \in Int /\ p[l] \in Int
    BY <1>1, <1>2
  <2> QED
    BY <2>4, <2>5
<1>4. \A i \in 1 .. Cardinality(kept) : \E k \in kept : p[k] = i
  <2> DEFINE T == 1 .. Cardinality(kept)
  <2>1. \A k, l \in kept : p[k] = p[l] => k = l
    <3> TAKE k, l \in kept
    <3>1. k \in Int /\ l \in Int /\ p[k] \in Int /\ p[l] \in Int
      BY <1>2
    <3>2. CASE k < l
      BY <1>3, <3>1, <3>2
    <3>3. CASE l < k
      BY <1>3, <3>1, <3>3
    <3> QED
      BY <3>1, <3>2, <3>3
  <2>2. p \in [kept -> T]
    BY <1>2
  <2>3. IsFiniteSet(T) /\ Cardinality(T) = Cardinality(kept)
    BY <1>1, FS_Interval
  <2> HIDE DEF T
  <2>4. p \in Injection(kept, T)
    BY <2>1, <2>2 DEF Injection, IsInjective
  <2>5. p \in Surjection(kept, T)
    BY <2>3, <2>4, FS_Injection
  <2> QED
    BY <2>5 DEF Surjection, T
<1> QED
  BY <1>1, <1>2, <1>3, <1>4

(* What is kept of the queue.                                              *)
LEMMA AppendsDropped ==
    ASSUME NEW q, IsQueue(q), NEW n
    PROVE  \E f :
               /\ IsQueue(WithoutAppends(q, n))
               /\ \A i \in DOMAIN WithoutAppends(q, n) :
                      f[i] \in DOMAIN q /\ WithoutAppends(q, n)[i] = q[f[i]]
               /\ \A i, j \in DOMAIN WithoutAppends(q, n) : i < j => f[i] < f[j]
               /\ \A k \in DOMAIN q : q[k].type = "RequestVote" =>
                      \E i \in DOMAIN WithoutAppends(q, n) : f[i] = k
<1> DEFINE kept == {k \in DOMAIN q : q[k].type # "AppendEntries" \/ q[k].from # n}
           p == [k \in kept |-> Cardinality({j \in kept : j <= k})]
           r == WithoutAppends(q, n)
           Nth(i) == CHOOSE k \in kept : Cardinality({j \in kept : j <= k}) = i
           f == [i \in 1 .. Cardinality(kept) |-> Nth(i)]
<1>1. IsQueue(q) /\ DOMAIN q = 1 .. Len(q) /\ Len(q) \in Nat /\ kept \subseteq DOMAIN q
  BY QueueDomain
<1>2. /\ Cardinality(kept) \in Nat
      /\ \A k \in kept : p[k] \in 1 .. Cardinality(kept)
      /\ \A k, l \in kept : k < l => p[k] < p[l]
      /\ \A i \in 1 .. Cardinality(kept) : \E k \in kept : p[k] = i
  <2> DEFINE L == Len(q)
  <2>1. L \in Nat /\ kept \subseteq 1 .. L
    BY <1>1
  <2> HIDE DEF L, kept
  <2> QED
    BY <2>1, Places
<1>3. \A k \in kept : Cardinality({j \in kept : j <= k}) = p[k]
  BY DEF p
<1>4. r = [i \in 1 .. Cardinality(kept) |-> q[Nth(i)]]
  BY DEF WithoutAppends
<1>12. \A i \in 1 .. Cardinality(kept) : Nth(i) \in kept /\ p[Nth(i)] = i
  <2> TAKE i \in 1 .. Cardinality(kept)
  <2>1. \E k \in kept : Cardinality({j \in kept : j <= k}) = i
    BY <1>2, <1>3
  <2>2. Nth(i) \in kept /\ Cardinality({j \in kept : j <= Nth(i)}) = i
    BY <2>1
  <2> QED
    BY <2>2, <1>3
<1>5. \A k \in DOMAIN q : k \notin kept => q[k].type = "AppendEntries"
  OBVIOUS
<1> HIDE DEF kept, p, Nth
<1>6. /\ DOMAIN r = 1 .. Cardinality(kept)
      /\ \A i \in 1 .. Cardinality(kept) : f[i] \in kept /\ p[f[i]] = i /\ r[i] = q[f[i]]
  BY <1>4, <1>12
<1> HIDE DEF f, r
<1>7. IsQueue(r)
  <2> DEFINE S == {q[k] : k \in DOMAIN q}
  <2>1. \A i \in 1 .. Cardinality(kept) : q[Nth(i)] \in S
    BY <1>1, <1>12
  <2> HIDE DEF S
  <2>2. r \in Seq(S)
    <3>2. r = [i \in 1 .. Cardinality(kept) |-> q[Nth(i)]]
      BY <1>4 DEF r
    <3>3. r \in [1 .. Cardinality(kept) -> S]
      BY <2>1, <3>2
    <3> QED
      BY <1>2, <3>3, FunctionIsSequence
  <2> QED
    BY <2>2, <1>1, <1>6 DEF IsQueue
<1>8. ASSUME NEW i \in DOMAIN r, NEW j \in DOMAIN r, i < j PROVE f[i] < f[j]
  <2>1. f[i] \in Int /\ f[j] \in Int /\ i \in Int /\ j \in Int
    BY <1>1, <1>6
  <2>2. ~(f[j] < f[i]) /\ f[i] # f[j]
    BY <1>2, <1>6, <1>8, <2>1
  <2> QED
    BY <2>1, <2>2
<1>9. ASSUME NEW k \in DOMAIN q, q[k].type = "RequestVote" PROVE \E i \in DOMAIN r : f[i] = k
  <2>1. k \in kept
    BY <1>5, <1>9
  <2>2. p[k] \in DOMAIN r /\ f[p[k]] \in kept /\ p[f[p[k]]] = p[k]
    BY <2>1, <1>2, <1>6
  <2>3. \A a, b \in kept : p[a] = p[b] => a = b
    <3> TAKE a, b \in kept
    <3>1. a \in Int /\ b \in Int /\ p[a] \in Int /\ p[b] \in Int
      BY <1>1, <1>2
    <3> QED
      BY <1>2, <3>1
  <2> QED
    BY <2>1, <2>2, <2>3
<1>10. /\ IsQueue(r)
       /\ \A i \in DOMAIN r : f[i] \in DOMAIN q /\ r[i] = q[f[i]]
       /\ \A i, j \in DOMAIN r : i < j => f[i] < f[j]
       /\ \A k \in DOMAIN q : q[k].type = "RequestVote" => \E i \in DOMAIN r : f[i] = k
  BY <1>1, <1>6, <1>7, <1>8, <1>9
<1>11. \E g : /\ IsQueue(r)
              /\ \A i \in DOMAIN r : g[i] \in DOMAIN q /\ r[i] = q[g[i]]
              /\ \A i, j \in DOMAIN r : i < j => g[i] < g[j]
              /\ \A k \in DOMAIN q : q[k].type = "RequestVote" => \E i \in DOMAIN r : g[i] = k
  BY <1>10
<1> QED
  BY <1>11 DEF r

(* Nor does it need the AppendEntries that are dropped.                    *)
LEMMA WithoutAppendsFair ==
    ASSUME RaftAssumption, NEW B, NEW nd, NEW q, NEW el, NEW n, Fair(B, nd, q, el)
    PROVE  Fair(B, nd, WithoutAppends(q, n), el)
<1>1. IsQueue(q)
  BY DEF Fair
<1>2. PICK f : /\ IsQueue(WithoutAppends(q, n))
               /\ \A i \in DOMAIN WithoutAppends(q, n) :
                      f[i] \in DOMAIN q /\ WithoutAppends(q, n)[i] = q[f[i]]
               /\ \A i, j \in DOMAIN WithoutAppends(q, n) : i < j => f[i] < f[j]
               /\ \A k \in DOMAIN q : q[k].type = "RequestVote" =>
                      \E i \in DOMAIN WithoutAppends(q, n) : f[i] = k
  BY <1>1, AppendsDropped
<1>3. Thinner(nd, q, WithoutAppends(q, n), f)
  BY <1>2 DEF Thinner
<1> QED
  BY <1>3, ThinFair

(* Heartbeats of who was elected.                                          *)
LEMMA HeartbeatsFair ==
    ASSUME RaftAssumption, NEW B, NEW nd, NEW q, NEW el, NEW n \in Nodes, NEW st,
           Fair(B, nd, q, el), st.term \in Nat, st.role = "leader" => <<st.term, n>> \in el
    PROVE  Fair(B, nd, q \o Heartbeats(n, st), el)
<1> DEFINE new == Heartbeats(n, st)
<1>1. /\ IsQueue(new)
      /\ \A i \in DOMAIN new : Harmless(new[i], el) /\ i \in Nat \ {0}
  <2>1. CASE st.role # "leader"
    <3>1. new = <<>> /\ new \in Seq({}) /\ DOMAIN new = {}
      BY <2>1 DEF Heartbeats
    <3> QED
      BY <3>1 DEF IsQueue
  <2>2. CASE st.role = "leader"
    <3> DEFINE M(i) == [type |-> "AppendEntries", from |-> n, to |-> Others(n)[i],
                        term |-> st.term, prev |-> st.next[Others(n)[i]] - 1,
                        prevTerm |-> IF st.next[Others(n)[i]] - 1 \in DOMAIN st.log
                                     THEN st.log[st.next[Others(n)[i]] - 1].term ELSE 0,
                        entries |-> SubSeq(st.log, (st.next[Others(n)[i]] - 1) + 1, Len(st.log)),
                        commit |-> st.commit]
               S == {M(i) : i \in 1 .. NodeCount - 1}
    <3>1. new = [i \in 1 .. NodeCount - 1 |-> M(i)]
      BY <2>2 DEF Heartbeats
    <3>2. \A i \in 1 .. NodeCount - 1 : /\ M(i).type = "AppendEntries" /\ M(i).from = n
                                        /\ M(i).to = Others(n)[i] /\ M(i).term = st.term
      OBVIOUS
    <3>3. \A i \in 1 .. NodeCount - 1 : M(i) \in S
      OBVIOUS
    <3> HIDE DEF M, S
    <3>4. new \in [1 .. NodeCount - 1 -> S] /\ NodeCount - 1 \in Nat
      BY <3>1, <3>3 DEF RaftAssumption
    <3>5. new \in Seq(S)
      BY <3>4, FunctionIsSequence
    <3>6. DOMAIN new = 1 .. NodeCount - 1 /\ \A i \in 1 .. NodeCount - 1 : new[i] = M(i)
      BY <3>1
    <3> HIDE DEF new
    <3>7. IsQueue(new)
      BY <3>2, <3>5, <3>6, OthersAreAll DEF IsQueue
    <3>8. \A i \in DOMAIN new : Harmless(new[i], el) /\ i \in Nat \ {0}
      BY <2>2, <3>2, <3>6 DEF Harmless
    <3> QED
      BY <3>7, <3>8
  <2> QED
    BY <2>1, <2>2
<1> HIDE DEF new
<1>2. Longer(q, q \o new, new)
  BY <1>1, QueueLonger DEF Fair
<1>3. Fair(B, nd, q \o new, el)
  BY <1>1, <1>2, LongerFair
<1> QED
  BY <1>3 DEF new

(* One message more.                                                       *)
LEMMA OneLonger ==
    ASSUME NEW q, NEW m, IsQueue(q), m.from \in Nodes, m.to \in Nodes, m.term \in Nat
    PROVE  /\ Longer(q, Append(q, m), <<m>>)
           /\ DOMAIN <<m>> = {1} /\ <<m>>[1] = m
<1>1. PICK S : q \in Seq(S)
  BY DEF IsQueue
<1> DEFINE U == S \cup {m}
           r == Append(q, m)
<1>2. q \in Seq(U) /\ m \in U
  BY <1>1
<1> HIDE DEF U
<1>3. /\ r \in Seq(U) /\ DOMAIN r = 1 .. Len(q) + 1 /\ Len(q) \in Nat
      /\ DOMAIN q = 1 .. Len(q) /\ r[Len(q) + 1] = m
      /\ \A k \in DOMAIN q : k \in DOMAIN r /\ r[k] = q[k]
  BY <1>2
<1> HIDE DEF r
<1>4. \A k \in DOMAIN r : k \in DOMAIN q \/ k = Len(q) + 1
  BY <1>3
<1>5. IsQueue(r)
  BY <1>3, <1>4 DEF IsQueue
<1>6. DOMAIN <<m>> = {1} /\ <<m>>[1] = m
  OBVIOUS
<1>7. Longer(q, r, <<m>>)
  BY <1>3, <1>4, <1>5, <1>6 DEF Longer
<1> QED
  BY <1>6, <1>7 DEF r

LEMMA AppendFair ==
    ASSUME RaftAssumption, NEW B, NEW nd, NEW q, NEW el, NEW m, Fair(B, nd, q, el),
           m.from \in Nodes, m.to \in Nodes, m.term \in Nat, Harmless(m, el)
    PROVE  Fair(B, nd, Append(q, m), el)
<1>1. /\ Longer(q, Append(q, m), <<m>>)
      /\ DOMAIN <<m>> = {1} /\ <<m>>[1] = m
  BY OneLonger DEF Fair
<1>2. \A i \in DOMAIN <<m>> : Harmless(<<m>>[i], el) /\ i \in Nat \ {0}
  BY <1>1
<1> QED
  BY <1>1, <1>2, LongerFair

(* What the invariant says of one node.                                    *)
LEMMA StateParts ==
    ASSUME NEW B, NEW nd, NEW q, NEW el, Fair(B, nd, q, el), NEW n \in Nodes
    PROVE  /\ Fields \subseteq DOMAIN nd[n] /\ nd[n].term \in Nat /\ nd[n].votes \in Nat
           /\ nd[n].online
           /\ nd[n].role = "candidate" =>
                  nd[n].votes <= Cardinality(Counted(B, q, n, nd[n].term))
           /\ nd[n].role = "leader" => <<nd[n].term, n>> \in el
  BY DEF Fair, Upright, Roles

(* A follower of a new term.                                               *)
LEMMA FollowParts ==
    ASSUME NEW st, NEW t, Fields \subseteq DOMAIN st
    PROVE  /\ Fields \subseteq DOMAIN Follow(st, t) /\ Follow(st, t).term = t
           /\ Follow(st, t).role = "follower" /\ Follow(st, t).votedFor = None
           /\ Follow(st, t).votes = st.votes /\ Follow(st, t).online = st.online
  BY DEF Follow, Fields

(* A node that hears of a newer term.                                      *)
LEMMA FollowFair ==
    ASSUME RaftAssumption, NEW B, NEW nd, NEW q, NEW el, NEW n \in Nodes, NEW t \in Nat,
           Fair(B, nd, q, el), t > nd[n].term
    PROVE  Fair(B, [nd EXCEPT ![n] = Follow(nd[n], t)], q, el)
<1> DEFINE st == Follow(nd[n], t)
<1>0. Fields \subseteq DOMAIN nd[n] /\ nd[n].term \in Nat /\ nd[n].votes \in Nat /\ nd[n].online
  BY StateParts
<1>1. /\ Fields \subseteq DOMAIN st /\ st.term = t /\ st.role = "follower"
      /\ st.votes = nd[n].votes /\ st.online = nd[n].online
  BY <1>0, FollowParts, ZenonT(60)
<1> HIDE DEF st
<1>2. st.term >= nd[n].term /\ st.term # nd[n].term /\ st.role # "candidate" /\ st.role # "leader"
  BY <1>0, <1>1
<1>3. Fair(B, [nd EXCEPT ![n] = st], q, el)
  BY <1>0, <1>1, <1>2, NodeFair
<1> QED
  BY <1>3 DEF st

(* A node of which only the log and what is known of others changes.       *)
LEMMA SameFair ==
    ASSUME RaftAssumption, NEW B, NEW nd, NEW q, NEW el, NEW n \in Nodes, NEW st,
           Fair(B, nd, q, el), Fields \subseteq DOMAIN st,
           st.role = nd[n].role, st.term = nd[n].term, st.votedFor = nd[n].votedFor,
           st.votes = nd[n].votes, st.online = nd[n].online
    PROVE  Fair(B, [nd EXCEPT ![n] = st], q, el)
<1>1. /\ st.term \in Nat /\ st.votes \in Nat /\ st.online
      /\ st.role = "candidate" => st.votes <= Cardinality(Counted(B, q, n, st.term))
      /\ st.role = "leader" => <<st.term, n>> \in el
      /\ st.term >= nd[n].term
  BY StateParts
<1> QED
  BY <1>1, NodeFair

-----------------------------------------------------------------------------
(* The handlers.                                                           *)
LEMMA CampaignStep ==
    ASSUME RaftAssumption, NEW B, NEW nd, NEW q, NEW el, NEW n \in Nodes, NEW st,
           Fair(B, nd, q, el),
           st = [nd[n] EXCEPT !.term = @ + 1, !.role = "candidate", !.votedFor = n, !.votes = 1]
    PROVE  \E C : Fair(C, [nd EXCEPT ![n] = st], q \o VoteRequests(n, st), el)
<1> DEFINE new == VoteRequests(n, st)
           M(i) == [type |-> "RequestVote", from |-> n, to |-> Others(n)[i], term |-> st.term,
                    lastIndex |-> Len(st.log), lastTerm |-> LastTerm(st.log)]
           S == {M(i) : i \in 1 .. NodeCount - 1}
<1>1. Fields \subseteq DOMAIN nd[n] /\ nd[n].term \in Nat /\ nd[n].online
  BY StateParts
<1>2. /\ Fields \subseteq DOMAIN st /\ st.online /\ st.term = nd[n].term + 1
      /\ st.role = "candidate" /\ st.votedFor = n /\ st.votes = 1
  BY <1>1 DEF Fields
<1>3. new = [i \in 1 .. NodeCount - 1 |-> M(i)]
  BY DEF VoteRequests
<1>4. \A i \in 1 .. NodeCount - 1 : /\ M(i) \in S /\ M(i).from = n /\ M(i).to = Others(n)[i]
                                    /\ M(i).term = st.term /\ M(i).type = "RequestVote"
  OBVIOUS
<1> HIDE DEF M, S
<1>5. new \in [1 .. NodeCount - 1 -> S] /\ NodeCount - 1 \in Nat
  BY <1>3, <1>4 DEF RaftAssumption
<1>6. new \in Seq(S)
  BY <1>5, FunctionIsSequence
<1>7. DOMAIN new = 1 .. NodeCount - 1 /\ \A i \in 1 .. NodeCount - 1 : new[i] = M(i)
  BY <1>3
<1> HIDE DEF new
<1>8. IsQueue(new)
  BY <1>1, <1>2, <1>4, <1>6, <1>7, OthersAreAll DEF IsQueue
<1>9. Longer(q, q \o new, new)
  BY <1>8, QueueLonger DEF Fair
<1>10. \A i \in DOMAIN new : Asks(new[i], n, Others(n)[i], st.term)
  BY <1>4, <1>7 DEF Asks
<1>11. st.term \in Nat /\ st.term > nd[n].term
  BY <1>1, <1>2
<1>12. Fair(B \cup {<<st.term, n, n>>}, [nd EXCEPT ![n] = st], q \o new, el)
  BY <1>2, <1>7, <1>9, <1>10, <1>11, CampaignFair
<1> QED
  BY <1>12 DEF new

(* A request for a vote is answered, granted or not.                       *)
LEMMA RequestVoteStep ==
    ASSUME RaftAssumption, NEW B, NEW nd, NEW q, NEW el, Fair(B, nd, q, el), q # <<>>,
           NEW m, m = Head(q), m.type = "RequestVote",
           NEW st, st = IF m.term > nd[m.to].term THEN Follow(nd[m.to], m.term) ELSE nd[m.to],
           NEW granted \in BOOLEAN, granted <=> MayVote(m, st),
           NEW st2, st2 = IF granted THEN [st EXCEPT !.votedFor = m.from] ELSE st,
           NEW reply, reply = [type |-> "RequestVoteReply", from |-> m.to, to |-> m.from,
                               term |-> st.term, granted |-> granted]
    PROVE  \E C : Fair(C, [nd EXCEPT ![m.to] = st2], Append(Tail(q), reply), el)
<1> DEFINE n == m.to
           md == [nd EXCEPT ![m.to] = st]
<1>1. /\ m.from \in Nodes /\ n \in Nodes /\ m.term \in Nat /\ m = q[1] /\ 1 \in DOMAIN q
      /\ \A i \in DOMAIN Tail(q) : i + 1 \in DOMAIN q /\ Tail(q)[i] = q[i + 1]
      /\ DOMAIN Tail(q) = 1 .. Len(q) - 1
  BY EmptyOrHead DEF Fair
<1>2. Fields \subseteq DOMAIN nd[n] /\ nd[n].term \in Nat /\ nd[n].votes \in Nat /\ nd[n].online
  BY <1>1, StateParts
<1>3. Fair(B, md, q, el)
  <2>1. CASE m.term > nd[n].term
    BY <1>1, <2>1, FollowFair
  <2>2. CASE ~(m.term > nd[n].term)
    BY <1>1, <1>2, <2>2, SameFair
  <2> QED
    BY <2>1, <2>2
<1>4. /\ Fields \subseteq DOMAIN st /\ st.term \in Nat /\ st.term >= m.term /\ st.online
      /\ st.votes \in Nat
  <2>1. CASE m.term > nd[n].term
    BY <1>1, <1>2, <2>1, FollowParts
  <2>2. CASE ~(m.term > nd[n].term)
    BY <1>1, <1>2, <2>2
  <2> QED
    BY <2>1, <2>2
<1>5. md[n] = st /\ [md EXCEPT ![n] = st2] = [nd EXCEPT ![n] = st2] /\ DOMAIN nd = Nodes
  BY <1>1 DEF Fair, Upright
<1> HIDE DEF md
<1>6. Fair(B, md, Tail(q), el)
  BY <1>3, <1>4, <1>5, TailFair
<1>7. /\ reply.type = "RequestVoteReply" /\ reply.from = n /\ reply.to = m.from
      /\ reply.term = st.term /\ (reply.granted <=> granted)
  OBVIOUS
<1>8. CASE ~granted
  <2>1. Harmless(reply, el)
    BY <1>7, <1>8 DEF Harmless
  <2>2. Fair(B, md, Append(Tail(q), reply), el)
    BY <1>1, <1>4, <1>6, <1>7, <2>1, AppendFair
  <2>3. md = [nd EXCEPT ![m.to] = st2]
    BY <1>8 DEF md
  <2> QED
    BY <2>2, <2>3
<1>9. CASE granted
  <2> DEFINE c == m.from
             t == m.term
  <2>1. st.votedFor \in {None, c} /\ st.term = t
    BY <1>1, <1>4, <1>9 DEF MayVote
  <2>2. Asks(q[1], c, n, t)
    BY <1>1 DEF Asks
  <2>3. /\ c # n /\ <<t, c, c>> \in B /\ <<t, n, c>> \notin B
        /\ \A j \in DOMAIN q : Asks(q[j], c, n, t) => j = 1
    BY <1>1, <2>2 DEF Fair, Requests
  <2>4. \A i \in DOMAIN Tail(q) : ~Asks(Tail(q)[i], c, n, t)
    <3> SUFFICES ASSUME NEW i \in DOMAIN Tail(q), Asks(Tail(q)[i], c, n, t) PROVE FALSE
      OBVIOUS
    <3>1. i + 1 = 1 /\ i \in Nat \ {0}
      BY <1>1, <2>3
    <3> QED
      BY <3>1
  <2>5. \A x \in Nodes : <<t, n, x>> \notin B
    <3> SUFFICES ASSUME NEW x \in Nodes, <<t, n, x>> \in B PROVE FALSE
      OBVIOUS
    <3>1. md[n].votedFor = x \/ Closed(md, q, t)
      BY <1>1, <1>3, <1>5, <2>1 DEF Fair, Ballots
    <3>2. ~Closed(md, q, t)
      BY <1>1, <2>2 DEF Closed, Asks
    <3>3. st.votedFor = x
      BY <3>1, <3>2, <1>5
    <3>4. x # None
      BY DEF None, Nodes
    <3> QED
      BY <3>3, <3>4, <2>1, <2>3
  <2>6. /\ Fields \subseteq DOMAIN st2 /\ st2.online /\ st2.term = t /\ st2.votedFor = c
        /\ st2.role = st.role /\ st2.votes = st.votes
    BY <1>4, <1>9, <2>1 DEF Fields
  <2>7. IsQueue(Tail(q))
    BY EmptyOrHead DEF Fair
  <2>8. /\ Longer(Tail(q), Append(Tail(q), reply), <<reply>>)
        /\ DOMAIN <<reply>> = {1} /\ <<reply>>[1] = reply
    BY <1>1, <1>4, <1>7, <2>7, OneLonger
  <2>9. Grants(<<reply>>[1], n, c, t)
    BY <1>7, <1>9, <2>1, <2>8 DEF Grants
  <2> DEFINE r == Append(Tail(q), reply)
             new == <<reply>>
  <2> HIDE DEF r, new, n, c, t
  <2>10. Fair(B \cup {<<t, n, c>>}, [md EXCEPT ![n] = st2], r, el)
    <3>1. n \in Nodes /\ c \in Nodes /\ t \in Nat
      BY <1>1 DEF c, t
    <3>2. md[n].term = t /\ st2.role = md[n].role /\ st2.votes = md[n].votes
      BY <1>5, <2>1, <2>6
    <3>3. Longer(Tail(q), r, new) /\ DOMAIN new = {1} /\ Grants(new[1], n, c, t)
      BY <2>8, <2>9 DEF r, new
    <3> QED
      BY <3>1, <3>2, <3>3, <1>6, <2>3, <2>4, <2>5, <2>6, GrantFair
  <2> QED
    BY <2>10, <1>5 DEF r, n
<1> QED
  BY <1>8, <1>9

(* A candidate that counts a vote, and one that becomes the leader.        *)
LEMMA CountFair ==
    ASSUME RaftAssumption, NEW B, NEW nd, NEW q, NEW el, NEW n \in Nodes, NEW st,
           Fair(B, nd, q, el), Fields \subseteq DOMAIN st, st.votes \in Nat, st.online,
           st.term = nd[n].term, st.votedFor = nd[n].votedFor, st.role = "candidate",
           st.votes <= Cardinality(Counted(B, q, n, nd[n].term))
    PROVE  Fair(B, [nd EXCEPT ![n] = st], q, el)
<1>0. nd[n].term \in Nat
  BY StateParts
<1>1. st.term \in Nat /\ st.term >= nd[n].term
  BY <1>0
<1>3. st.role # "leader"
  OBVIOUS
<1>2. st.votes <= Cardinality(Counted(B, q, n, st.term))
  OBVIOUS
<1> QED
  BY <1>1, <1>2, <1>3, NodeFair

(* A candidate becomes the leader when it is among the elected.            *)
LEMMA LeadFair ==
    ASSUME RaftAssumption, NEW B, NEW nd, NEW q, NEW el, NEW n \in Nodes, NEW st,
           Fair(B, nd, q, el), Fields \subseteq DOMAIN st, st.votes \in Nat, st.online,
           st.term = nd[n].term, st.votedFor = nd[n].votedFor, st.role = "leader",
           <<nd[n].term, n>> \in el
    PROVE  Fair(B, [nd EXCEPT ![n] = st], q, el)
<1>1. st.term \in Nat /\ st.term >= nd[n].term /\ st.role # "candidate"
  BY StateParts
<1>2. <<st.term, n>> \in el
  OBVIOUS
<1> QED
  BY <1>1, <1>2, NodeFair

(* A vote that counts was not counted before; who is granted it in term t  *)
(* has been heard of by all others.                                        *)
LEMMA VoteCounts ==
    ASSUME RaftAssumption, NEW B, NEW nd, NEW q, NEW el, Fair(B, nd, q, el), q # <<>>,
           NEW m, m = Head(q), m.type = "RequestVoteReply", m.granted,
           nd[m.to].role = "candidate", m.term = nd[m.to].term
    PROVE  /\ nd[m.to].votes + 1 <= Cardinality(Counted(B, Tail(q), m.to, m.term))
           /\ \A x \in Nodes : nd[x].term >= m.term
<1> DEFINE n == m.to
           t == m.term
           old == Counted(B, q, n, t)
           new == Counted(B, Tail(q), n, t)
<1>1. /\ m.from \in Nodes /\ n \in Nodes /\ t \in Nat /\ m = q[1] /\ 1 \in DOMAIN q
      /\ \A i \in DOMAIN Tail(q) : i + 1 \in DOMAIN q /\ Tail(q)[i] = q[i + 1]
      /\ DOMAIN Tail(q) = 1 .. Len(q) - 1 /\ DOMAIN q = 1 .. Len(q)
  BY EmptyOrHead DEF Fair
<1>2. Grants(q[1], m.from, n, t)
  BY <1>1 DEF Grants
<1>3. /\ <<t, m.from, n>> \in B
      /\ \A j \in DOMAIN q : Grants(q[j], m.from, n, t) => j = 1
      /\ \A x \in Nodes \ {n} :
             nd[x].term >= t \/ \E j \in DOMAIN q : j < 1 /\ Asks(q[j], n, x, t)
  BY <1>1, <1>2 DEF Fair, Replies
<1>4. \A x \in Nodes : nd[x].term >= t
  <2> TAKE x \in Nodes
  <2>1. CASE x = n
    BY <1>1, <2>1, StateParts
  <2>2. CASE x # n
    <3>1. \A j \in DOMAIN q : ~(j < 1)
      BY <1>1
    <3> QED
      BY <1>3, <2>2, <3>1
  <2> QED
    BY <2>1, <2>2
<1>5. m.from \notin old
  BY <1>1, <1>2 DEF Counted
<1>6. old \cup {m.from} \subseteq new /\ new \subseteq Nodes /\ old \subseteq Nodes
  <2>1. ASSUME NEW i \in DOMAIN Tail(q) PROVE ~Grants(Tail(q)[i], m.from, n, t)
    <3>1. i + 1 # 1 /\ i + 1 \in DOMAIN q /\ Tail(q)[i] = q[i + 1]
      BY <1>1
    <3> QED
      BY <3>1, <1>3
  <2>2. m.from \in new
    BY <1>1, <1>3, <2>1 DEF Counted, Voted
  <2>3. old \subseteq new
    BY <1>1 DEF Counted
  <2> QED
    BY <2>2, <2>3 DEF Counted, Voted
<1>7. nd[n].votes <= Cardinality(old) /\ nd[n].votes \in Nat
  <2>1. /\ nd[n].votes \in Nat
        /\ nd[n].role = "candidate" => nd[n].votes <= Cardinality(Counted(B, q, n, nd[n].term))
    BY <1>1, StateParts
  <2> QED
    BY <2>1
<1> HIDE DEF old, new
<1>8. /\ IsFiniteSet(old) /\ Cardinality(old) \in Nat /\ Cardinality(new) \in Nat
      /\ Cardinality(old \cup {m.from}) <= Cardinality(new)
  BY <1>6, VotersFinite, FewerVoters
<1>9. Cardinality(old \cup {m.from}) = Cardinality(old) + 1
  BY <1>5, <1>8, FS_AddElement
<1>10. nd[n].votes + 1 <= Cardinality(new)
  BY <1>7, <1>8, <1>9
<1> QED
  BY <1>4, <1>10 DEF new

(* One vote more, and the leader this makes.                               *)
LEMMA OneMore ==
    ASSUME NEW st, NEW more, more = [st EXCEPT !.votes = @ + 1], Fields \subseteq DOMAIN st,
           st.votes \in Nat
    PROVE  /\ Fields \subseteq DOMAIN more /\ more.term = st.term /\ more.votes = st.votes + 1
           /\ more.online = st.online /\ more.role = st.role /\ more.votedFor = st.votedFor
           /\ Fields \subseteq DOMAIN Lead(more) /\ Lead(more).term = st.term
           /\ Lead(more).role = "leader" /\ Lead(more).votes = st.votes + 1
           /\ Lead(more).online = st.online /\ Lead(more).votedFor = st.votedFor
<1>1. /\ Fields \subseteq DOMAIN more /\ more.term = st.term /\ more.votes = st.votes + 1
      /\ more.online = st.online /\ more.role = st.role /\ more.votedFor = st.votedFor
  BY DEF Fields
<1>2. /\ Fields \subseteq DOMAIN Lead(more) /\ Lead(more).term = more.term
      /\ Lead(more).role = "leader" /\ Lead(more).votes = more.votes
      /\ Lead(more).online = more.online /\ Lead(more).votedFor = more.votedFor
  BY <1>1 DEF Lead, Fields
<1> QED
  BY <1>1, <1>2

(* A vote in the queue moves to the count of its candidate.                *)
LEMMA VoteCounted ==
    ASSUME RaftAssumption, NEW B, NEW nd, NEW q, NEW el, Fair(B, nd, q, el), q # <<>>,
           NEW m, m = Head(q), m.type = "RequestVoteReply", m.granted,
           nd[m.to].role = "candidate", m.term = nd[m.to].term,
           NEW more, more = [nd[m.to] EXCEPT !.votes = @ + 1]
    PROVE  /\ Fair(B, [nd EXCEPT ![m.to] = more], Tail(q), el)
           /\ Majority(more.votes) =>
                  Fair(B, [nd EXCEPT ![m.to] = Lead(more)],
                       Tail(q) \o Heartbeats(m.to, Lead(more)),
                       el \cup {<<nd[m.to].term, m.to>>})
<1> DEFINE n == m.to
           t == m.term
           new == Counted(B, Tail(q), n, t)
<1>1. n \in Nodes
  BY EmptyOrHead DEF Fair
<1>2. /\ Fields \subseteq DOMAIN nd[n] /\ nd[n].term \in Nat /\ nd[n].votes \in Nat
      /\ nd[n].online /\ t \in Nat
  BY <1>1, StateParts
<1>3. Fair(B, nd, Tail(q), el)
  BY TailFair
<1>4. nd[n].votes + 1 <= Cardinality(new) /\ \A x \in Nodes : nd[x].term >= t
  BY VoteCounts
<1>5. /\ Fields \subseteq DOMAIN more /\ more.term = nd[n].term /\ more.votes = nd[n].votes + 1
      /\ more.online = nd[n].online /\ more.role = nd[n].role
      /\ more.votedFor = nd[n].votedFor
      /\ Fields \subseteq DOMAIN Lead(more) /\ Lead(more).term = nd[n].term
      /\ Lead(more).role = "leader" /\ Lead(more).votes = nd[n].votes + 1
      /\ Lead(more).online = nd[n].online /\ Lead(more).votedFor = nd[n].votedFor
  <2> DEFINE s == nd[n]
  <2>1. /\ more = [s EXCEPT !.votes = @ + 1] /\ Fields \subseteq DOMAIN s
        /\ s.votes \in Nat
    BY <1>2
  <2> HIDE DEF s
  <2>2. /\ Fields \subseteq DOMAIN more /\ more.term = s.term /\ more.votes = s.votes + 1
        /\ more.online = s.online /\ more.role = s.role /\ more.votedFor = s.votedFor
        /\ Fields \subseteq DOMAIN Lead(more) /\ Lead(more).term = s.term
        /\ Lead(more).role = "leader" /\ Lead(more).votes = s.votes + 1
        /\ Lead(more).online = s.online /\ Lead(more).votedFor = s.votedFor
    BY <2>1, OneMore
  <2> QED
    BY <2>2 DEF s
<1>6. more.votes \in Nat /\ Lead(more).votes \in Nat /\ more.votes <= Cardinality(new)
  BY <1>2, <1>4, <1>5
<1>7. Fair(B, [nd EXCEPT ![n] = more], Tail(q), el)
  <2>1. more.votes <= Cardinality(Counted(B, Tail(q), n, nd[n].term)) /\ more.role = "candidate"
    BY <1>5, <1>6
  <2>2. more.online
    BY <1>2, <1>5
  <2> QED
    BY <1>1, <1>3, <1>5, <1>6, <2>1, <2>2, CountFair
<1>8. ASSUME Majority(more.votes)
      PROVE  Fair(B, [nd EXCEPT ![n] = Lead(more)], Tail(q) \o Heartbeats(n, Lead(more)),
                  el \cup {<<nd[n].term, n>>})
  <2> DEFINE el2 == el \cup {<<t, n>>}
             led == Lead(more)
  <2>1. Majority(Cardinality(Voted(B, n, t)))
    <3>1. new \subseteq Voted(B, n, t) /\ Voted(B, n, t) \subseteq Nodes
      BY DEF Counted, Voted
    <3> HIDE DEF new
    <3>2. /\ Cardinality(new) <= Cardinality(Voted(B, n, t))
          /\ Cardinality(new) \in Nat /\ Cardinality(Voted(B, n, t)) \in Nat
      BY <3>1, VotersFinite, FewerVoters
    <3>3. more.votes > NodeCount \div 2 /\ NodeCount \div 2 \in Int
      BY <1>8 DEF Majority, RaftAssumption
    <3> QED
      BY <1>6, <3>2, <3>3 DEF Majority
  <2>2. Fair(B, nd, Tail(q), el2)
    BY <1>1, <1>2, <1>3, <1>4, <2>1, ElectFair
  <2>3. <<nd[n].term, n>> \in el2 /\ <<led.term, n>> \in el2
    BY <1>5
  <2>4. /\ led.online /\ led.votes \in Nat /\ Fields \subseteq DOMAIN led
        /\ led.term = nd[n].term /\ led.votedFor = nd[n].votedFor /\ led.role = "leader"
        /\ led.term \in Nat
    BY <1>2, <1>5, <1>6
  <2> HIDE DEF el2, led
  <2>5. Fair(B, [nd EXCEPT ![n] = led], Tail(q), el2)
    BY <1>1, <2>2, <2>3, <2>4, LeadFair
  <2>6. Fair(B, [nd EXCEPT ![n] = led], Tail(q) \o Heartbeats(n, led), el2)
    BY <1>1, <2>3, <2>4, <2>5, HeartbeatsFair
  <2> QED
    BY <2>6 DEF led, el2
<1> QED
  BY <1>7, <1>8

(* Nothing sent.                                                           *)
LEMMA NothingAppended ==
    ASSUME RaftAssumption, NEW B, NEW nd, NEW q, NEW el, Fair(B, nd, q, el)
    PROVE  Fair(B, nd, q \o <<>>, el)
<1>1. IsQueue(<<>>) /\ IsQueue(q) /\ DOMAIN <<>> = {}
  BY <<>> \in Seq({}) DEF IsQueue, Fair
<1>2. Longer(q, q \o <<>>, <<>>)
  BY <1>1, QueueLonger
<1> QED
  BY <1>1, <1>2, LongerFair

(* All the outcomes of a vote that arrives.                                *)
LEMMA RequestVoteReplyStep ==
    ASSUME RaftAssumption, NEW B, NEW nd, NEW q, NEW el, Fair(B, nd, q, el), q # <<>>,
           NEW m, m = Head(q), m.type = "RequestVoteReply",
           NEW n, n = m.to, NEW st, st = nd[n],
           NEW more, more = [st EXCEPT !.votes = @ + 1],
           NEW counted \in BOOLEAN,
           counted <=> (st.role = "candidate" /\ m.granted /\ m.term = st.term),
           NEW wins \in BOOLEAN, wins <=> (counted /\ Majority(more.votes))
    PROVE  /\ n \in Nodes
           /\ Fair(B, [nd EXCEPT ![n] =
                           IF st.role = "candidate" /\ m.term > st.term THEN Follow(st, m.term)
                           ELSE IF wins THEN Lead(more)
                           ELSE IF counted THEN more ELSE st],
                   Tail(q) \o (IF wins THEN Heartbeats(n, Lead(more)) ELSE <<>>),
                   IF wins THEN el \cup {<<st.term, n>>} ELSE el)
<1>1. n \in Nodes /\ m.term \in Nat
  BY EmptyOrHead DEF Fair
<1>2. Fields \subseteq DOMAIN st /\ st.term \in Nat
  BY <1>1, StateParts
<1>3. Fair(B, nd, Tail(q), el)
  BY TailFair
<1>4. CASE ~counted /\ st.role = "candidate" /\ m.term > st.term
  <2>1. Fair(B, [nd EXCEPT ![n] = Follow(st, m.term)], Tail(q), el)
    BY <1>1, <1>3, <1>4, FollowFair
  <2>2. Fair(B, [nd EXCEPT ![n] = Follow(st, m.term)], Tail(q) \o <<>>, el)
    BY <2>1, NothingAppended
  <2> QED
    BY <1>1, <1>4, <2>2
<1>5. CASE ~counted /\ ~(st.role = "candidate" /\ m.term > st.term)
  <2>1. Fair(B, [nd EXCEPT ![n] = st], Tail(q), el)
    BY <1>1, <1>2, <1>3, SameFair
  <2>2. Fair(B, [nd EXCEPT ![n] = st], Tail(q) \o <<>>, el)
    BY <2>1, NothingAppended
  <2> QED
    BY <1>1, <1>5, <2>2
<1>6. CASE counted
  <2>1. ~(m.term > st.term) /\ m.term = nd[m.to].term /\ nd[m.to].role = "candidate" /\ m.granted
    BY <1>2, <1>6
  <2>2. /\ Fair(B, [nd EXCEPT ![n] = more], Tail(q), el)
        /\ Majority(more.votes) =>
               Fair(B, [nd EXCEPT ![n] = Lead(more)], Tail(q) \o Heartbeats(n, Lead(more)),
                    el \cup {<<st.term, n>>})
    BY <2>1, VoteCounted
  <2>3. Fair(B, [nd EXCEPT ![n] = more], Tail(q) \o <<>>, el)
    BY <2>2, NothingAppended
  <2> QED
    BY <1>1, <1>6, <2>1, <2>2, <2>3
<1> QED
  BY <1>4, <1>5, <1>6

(* A follower forgets its vote, which nobody asks for any more.            *)
LEMMA AppendEntriesStep ==
    ASSUME RaftAssumption, NEW B, NEW nd, NEW q, NEW el, Fair(B, nd, q, el), q # <<>>,
           NEW m, m = Head(q), m.type = "AppendEntries",
           NEW st, st = nd[m.to], NEW accepted \in BOOLEAN, NEW log, NEW commit, NEW reply,
           accepted => m.term >= st.term,
           reply.type = "AppendEntriesReply", reply.from = m.to, reply.to = m.from,
           reply.term = IF m.term < st.term THEN st.term ELSE m.term
    PROVE  Fair(B, [nd EXCEPT ![m.to] =
                       IF m.term < st.term THEN st
                       ELSE IF ~accepted THEN Follow(st, m.term)
                       ELSE [Follow(st, m.term) EXCEPT !.log = log, !.commit = commit]],
                Append(Overwrite(Tail(q), m.to, st.log, log), reply), el)
<1> DEFINE n == m.to
           t == m.term
           follower == Follow(st, t)
           r == Append(Overwrite(Tail(q), n, st.log, log), reply)
<1>1. /\ m.from \in Nodes /\ n \in Nodes /\ t \in Nat /\ m = q[1] /\ 1 \in DOMAIN q
      /\ \A i \in DOMAIN Tail(q) : i + 1 \in DOMAIN q /\ Tail(q)[i] = q[i + 1]
      /\ DOMAIN Tail(q) = 1 .. Len(q) - 1
  BY EmptyOrHead DEF Fair
<1>2. Fields \subseteq DOMAIN st /\ st.term \in Nat /\ st.votes \in Nat /\ st.online
  BY <1>1, StateParts
<1>3. Fair(B, nd, Tail(q), el)
  BY TailFair
<1>4. \A md : Fair(B, md, Tail(q), el) => Fair(B, md, r, el)
  <2> SUFFICES ASSUME NEW md, Fair(B, md, Tail(q), el) PROVE Fair(B, md, r, el)
    OBVIOUS
  <2>1. Fair(B, md, Overwrite(Tail(q), n, st.log, log), el)
    BY OverwriteFair
  <2>2. reply.from \in Nodes /\ reply.to \in Nodes /\ reply.term \in Nat
    BY <1>1, <1>2
  <2>3. Harmless(reply, el)
    BY DEF Harmless
  <2> QED
    BY <2>1, <2>2, <2>3, AppendFair
<1> HIDE DEF r
<1>5. CASE t < st.term
  <2>1. Fair(B, [nd EXCEPT ![n] = st], Tail(q), el)
    BY <1>1, <1>2, <1>3, SameFair
  <2>2. Fair(B, [nd EXCEPT ![n] = st], r, el)
    BY <1>4, <2>1
  <2> QED
    BY <1>5, <2>2 DEF r
<1>6. CASE ~(t < st.term)
  <2>1. /\ <<t, m.from>> \in el
        /\ \A j \in DOMAIN q : j > 1 /\ q[j].type = "RequestVote" => q[j].term # t
    BY <1>1 DEF Fair, Appends
  <2>2. \A x \in Nodes : nd[x].term >= t
    BY <1>1, <2>1 DEF Fair, Elections
  <2>3. Closed(nd, Tail(q), t)
    <3>1. ASSUME NEW i \in DOMAIN Tail(q), Tail(q)[i].type = "RequestVote"
          PROVE  Tail(q)[i].term # t
      <4>1. i + 1 \in DOMAIN q /\ Tail(q)[i] = q[i + 1] /\ i + 1 > 1
        BY <1>1
      <4> QED
        BY <3>1, <4>1, <2>1
    <3> QED
      BY <2>2, <3>1 DEF Closed
  <2>4. st.term = t
    BY <1>1, <1>2, <1>6, <2>2
  <2>5. /\ Fields \subseteq DOMAIN follower /\ follower.term = t /\ follower.role = "follower"
        /\ follower.votes = st.votes /\ follower.online = st.online
    <3> DEFINE s == st
               u == t
    <3>1. Fields \subseteq DOMAIN s
      BY <1>2
    <3> HIDE DEF s, u
    <3>2. /\ Fields \subseteq DOMAIN Follow(s, u) /\ Follow(s, u).term = u
          /\ Follow(s, u).role = "follower" /\ Follow(s, u).votes = s.votes
          /\ Follow(s, u).online = s.online
      BY <3>1, FollowParts
    <3> QED
      BY <3>2 DEF s, u
  <2> HIDE DEF follower
  <2>6. ASSUME NEW st2, Fields \subseteq DOMAIN st2, st2.term = t, st2.role = "follower",
               st2.votes = st.votes, st2.online = st.online
        PROVE  Fair(B, [nd EXCEPT ![n] = st2], r, el)
    <3>1. /\ st2.term \in Nat /\ st2.votes \in Nat /\ st2.online /\ st2.term >= nd[n].term
          /\ Closed(nd, Tail(q), st2.term)
      BY <1>1, <1>2, <2>3, <2>4, <2>6
    <3>2. st2.role # "candidate" /\ st2.role # "leader"
      BY <2>6
    <3>3. Fair(B, [nd EXCEPT ![n] = st2], Tail(q), el)
      BY <1>1, <1>3, <2>6, <3>1, <3>2, NodeFair
    <3> QED
      BY <1>4, <3>3
  <2> DEFINE logged == [follower EXCEPT !.log = log, !.commit = commit]
  <2>7. /\ Fields \subseteq DOMAIN logged /\ logged.term = t /\ logged.role = "follower"
        /\ logged.votes = st.votes /\ logged.online = st.online
    BY <2>5 DEF Fields
  <2> HIDE DEF logged
  <2>8. Fair(B, [nd EXCEPT ![n] = follower], r, el) /\ Fair(B, [nd EXCEPT ![n] = logged], r, el)
    BY <2>5, <2>6, <2>7
  <2>9. /\ accepted => Fair(B, [nd EXCEPT ![n] = logged], r, el)
        /\ ~accepted => Fair(B, [nd EXCEPT ![n] = follower], r, el)
    BY <2>8
  <2> QED
    BY <1>6, <2>9 DEF r, logged, follower
<1> QED
  BY <1>5, <1>6

(* The leader that changes what it knows, and tells it in place of what    *)
(* waits.                                                                  *)
LEMMA RenewFair ==
    ASSUME RaftAssumption, NEW B, NEW nd, NEW q, NEW el, Fair(B, nd, q, el), NEW n \in Nodes,
           NEW st, Fields \subseteq DOMAIN st,
           st.role = nd[n].role, st.term = nd[n].term, st.votedFor = nd[n].votedFor,
           st.votes = nd[n].votes, st.online = nd[n].online
    PROVE  Fair(B, [nd EXCEPT ![n] = st], WithoutAppends(q, n) \o Heartbeats(n, st), el)
<1>1. Fair(B, [nd EXCEPT ![n] = st], q, el)
  BY SameFair
<1>2. Fair(B, [nd EXCEPT ![n] = st], WithoutAppends(q, n), el)
  BY <1>1, WithoutAppendsFair
<1>3. st.term \in Nat /\ (st.role = "leader" => <<st.term, n>> \in el)
  BY StateParts
<1> QED
  BY <1>2, <1>3, HeartbeatsFair

(* A reply to a heartbeat changes the indices, or makes a follower.        *)
LEMMA AppendEntriesReplyStep ==
    ASSUME RaftAssumption, NEW B, NEW nd, NEW q, NEW el, Fair(B, nd, q, el), q # <<>>,
           NEW m, m = Head(q), m.type = "AppendEntriesReply"
    PROVE  /\ nd[m.to].term < m.term =>
                  Fair(B, [nd EXCEPT ![m.to] = Follow(nd[m.to], m.term)], Tail(q), el)
           /\ \A st :
                  /\ Fields \subseteq DOMAIN st
                  /\ st.role = nd[m.to].role /\ st.term = nd[m.to].term
                  /\ st.votedFor = nd[m.to].votedFor
                  /\ st.votes = nd[m.to].votes /\ st.online = nd[m.to].online
                  => /\ Fair(B, [nd EXCEPT ![m.to] = st], Tail(q), el)
                     /\ Fair(B, [nd EXCEPT ![m.to] = st],
                             WithoutAppends(Tail(q), m.to) \o Heartbeats(m.to, st), el)
<1>1. m.to \in Nodes /\ m.term \in Nat /\ nd[m.to].term \in Nat
  BY EmptyOrHead, StateParts DEF Fair
<1>2. Fair(B, nd, Tail(q), el)
  BY TailFair
<1>3. nd[m.to].term < m.term =>
          Fair(B, [nd EXCEPT ![m.to] = Follow(nd[m.to], m.term)], Tail(q), el)
  BY <1>1, <1>2, FollowFair
<1>4. ASSUME NEW st, Fields \subseteq DOMAIN st,
             st.role = nd[m.to].role, st.term = nd[m.to].term,
             st.votedFor = nd[m.to].votedFor, st.votes = nd[m.to].votes,
             st.online = nd[m.to].online
      PROVE  /\ Fair(B, [nd EXCEPT ![m.to] = st], Tail(q), el)
             /\ Fair(B, [nd EXCEPT ![m.to] = st],
                     WithoutAppends(Tail(q), m.to) \o Heartbeats(m.to, st), el)
  <2>1. Fair(B, [nd EXCEPT ![m.to] = st], Tail(q), el)
    BY <1>1, <1>2, <1>4, SameFair
  <2>2. Fair(B, [nd EXCEPT ![m.to] = st],
             WithoutAppends(Tail(q), m.to) \o Heartbeats(m.to, st), el)
    BY <1>1, <1>2, <1>4, RenewFair
  <2> QED
    BY <2>1, <2>2
<1> QED
  BY <1>3, <1>4

-----------------------------------------------------------------------------
Held == leaderID \in Nodes \cup {None}
Kept(B) == Held /\ Fair(B, raftNode, raftQueue, elected)

(* The actions, one by one.                                                *)
LEMMA StartElectionKept ==
    ASSUME RaftAssumption, NEW B, Kept(B), NEW n \in Nodes, StartElection(n)
    PROVE  \E C : Kept(C)'
<1> DEFINE st == [raftNode[n] EXCEPT !.term = @ + 1, !.role = "candidate",
                                     !.votedFor = n, !.votes = 1]
<1>1. /\ raftNode' = [raftNode EXCEPT ![n] = st]
      /\ raftQueue' = raftQueue \o VoteRequests(n, st)
      /\ leaderID' = leaderID /\ elected' = elected
  BY DEF StartElection, raftObservers
<1>2. \E C : Fair(C, [raftNode EXCEPT ![n] = st], raftQueue \o VoteRequests(n, st), elected)
  BY CampaignStep DEF Kept
<1> HIDE DEF st
<1> QED
  BY <1>1, <1>2 DEF Kept, Held

LEMMA HeartbeatTimeoutKept ==
    ASSUME RaftAssumption, NEW B, Kept(B), NEW n \in Nodes, HeartbeatTimeout(n)
    PROVE  Kept(B)'
<1>1. /\ raftNode[n].term \in Nat
      /\ raftNode[n].role = "leader" => <<raftNode[n].term, n>> \in elected
  BY StateParts DEF Kept
<1>2. Fair(B, raftNode, raftQueue \o Heartbeats(n, raftNode[n]), elected)
  BY <1>1, HeartbeatsFair DEF Kept
<1> QED
  BY <1>2 DEF HeartbeatTimeout, raftObservers, Kept, Held

LEMMA RequestVoteKept ==
    ASSUME RaftAssumption, NEW B, Kept(B), HandleRequestVote
    PROVE  \E C : Kept(C)'
<1> DEFINE m == Head(raftQueue)
           old == raftNode[m.to]
           st == IF m.term > old.term THEN Follow(old, m.term) ELSE old
           granted == MayVote(m, st)
           st2 == IF granted THEN [st EXCEPT !.votedFor = m.from] ELSE st
           reply == [type |-> "RequestVoteReply", from |-> m.to,
                     to |-> m.from, term |-> st.term, granted |-> granted]
<1>1. /\ raftQueue # <<>> /\ m.type = "RequestVote"
      /\ raftNode' = [raftNode EXCEPT ![m.to] = st2]
      /\ raftQueue' = Append(Tail(raftQueue), reply)
      /\ leaderID' = leaderID /\ elected' = elected
  BY DEF HandleRequestVote, Handle, raftObservers
<1>2. granted \in BOOLEAN
  BY DEF MayVote
<1>3. \E C : Fair(C, [raftNode EXCEPT ![m.to] = st2], Append(Tail(raftQueue), reply), elected)
  BY <1>1, <1>2, RequestVoteStep DEF Kept
<1> HIDE DEF reply, st2, m
<1> QED
  BY <1>1, <1>3 DEF Kept, Held

LEMMA RequestVoteReplyKept ==
    ASSUME RaftAssumption, NEW B, Kept(B), HandleRequestVoteReply
    PROVE  Kept(B)'
<1> DEFINE m == Head(raftQueue)
           n == m.to
           st == raftNode[n]
           more == [st EXCEPT !.votes = @ + 1]
           counted == st.role = "candidate" /\ m.granted /\ m.term = st.term
           wins == counted /\ Majority(more.votes)
           st2 == IF st.role = "candidate" /\ m.term > st.term THEN Follow(st, m.term)
                  ELSE IF wins THEN Lead(more)
                  ELSE IF counted THEN more ELSE st
           q2 == Tail(raftQueue) \o (IF wins THEN Heartbeats(n, Lead(more)) ELSE <<>>)
           el2 == IF wins THEN elected \cup {<<st.term, n>>} ELSE elected
<1>1. /\ raftQueue # <<>> /\ m.type = "RequestVoteReply"
      /\ raftNode' = [raftNode EXCEPT ![n] = st2]
      /\ raftQueue' = q2 /\ elected' = el2
      /\ leaderID' \in {n, leaderID}
  BY DEF HandleRequestVoteReply, Handle
<1>2. counted \in BOOLEAN /\ wins \in BOOLEAN
  BY DEF Majority
<1>3. n \in Nodes /\ Fair(B, [raftNode EXCEPT ![n] = st2], q2, el2)
  BY <1>1, <1>2, RequestVoteReplyStep, ZenonT(60) DEF Kept
<1> HIDE DEF n, st2, q2, el2
<1> QED
  BY <1>1, <1>3 DEF Kept, Held

LEMMA AppendEntriesKept ==
    ASSUME RaftAssumption, NEW B, Kept(B), HandleAppendEntries
    PROVE  Kept(B)'
<1> DEFINE m == Head(raftQueue)
           st == raftNode[m.to]
           follower == Follow(st, m.term)
           accepted ==
               /\ m.term >= st.term
               /\ m.prev > 0 =>
                      m.prev \in DOMAIN st.log /\ st.log[m.prev].term = m.prevTerm
           log == IF accepted /\ m.entries # <<>>
                  THEN SubSeq(st.log, 1, m.prev) \o m.entries ELSE st.log
           known == IF m.commit < Len(log) THEN m.commit ELSE Len(log)
           commit == IF m.commit > follower.commit THEN known ELSE follower.commit
           logged == [follower EXCEPT !.log = log, !.commit = commit]
           st2 == IF m.term < st.term THEN st
                  ELSE IF ~accepted THEN follower ELSE logged
           reply == [type |-> "AppendEntriesReply", from |-> m.to, to |-> m.from,
                     term |-> IF m.term < st.term THEN st.term ELSE m.term,
                     success |-> accepted]
           q2 == Append(Overwrite(Tail(raftQueue), m.to, st.log, log), reply)
<1>1. /\ raftQueue # <<>> /\ m.type = "AppendEntries"
      /\ raftNode' = [raftNode EXCEPT ![m.to] = st2]
      /\ raftQueue' = q2 /\ leaderID' = leaderID /\ elected' = elected
  <2> HIDE DEF known, log
  <2>1. [follower EXCEPT !.log = log, !.commit = IF m.commit > @ THEN known ELSE @] = logged
    BY DEF Follow
  <2> USE DEF known, log
  <2> HIDE DEF logged
  <2> QED
    BY <2>1 DEF HandleAppendEntries, Handle, raftObservers
<1>2. accepted \in BOOLEAN /\ (accepted => m.term >= st.term)
  OBVIOUS
<1>3. /\ reply.type = "AppendEntriesReply" /\ reply.from = m.to /\ reply.to = m.from
      /\ reply.term = IF m.term < st.term THEN st.term ELSE m.term
  OBVIOUS
<1> HIDE DEF m, st, accepted, log, commit, reply
<1>4. Fair(B, [raftNode EXCEPT ![m.to] = st2], q2, elected)
  BY <1>1, <1>2, <1>3, AppendEntriesStep DEF Kept, m, st
<1> HIDE DEF st2, q2
<1> QED
  BY <1>1, <1>4 DEF Kept, Held

\* What a reply to AppendEntries leaves of a node that elections depend on.
Alike(st, old) ==
    /\ Fields \subseteq DOMAIN st
    /\ st.role = old.role /\ st.term = old.term /\ st.votedFor = old.votedFor
    /\ st.votes = old.votes /\ st.online = old.online

(* The indices of a leader are no part of the invariant.                   *)
LEMMA StillAlike ==
    ASSUME NEW st, Fields \subseteq DOMAIN st, NEW n, NEW next, NEW match, NEW commit
    PROVE  /\ Alike(st, st)
           /\ Alike([st EXCEPT !.next[n] = next, !.match[n] = match], st)
           /\ Alike([st EXCEPT !.next[n] = next], st)
           /\ Alike([[st EXCEPT !.next[n] = next, !.match[n] = match]
                        EXCEPT !.commit = commit], st)
  BY DEF Alike, Fields

LEMMA AppendEntriesReplyKept ==
    ASSUME RaftAssumption, NEW B, Kept(B), HandleAppendEntriesReply
    PROVE  Kept(B)'
<1> DEFINE m == Head(raftQueue)
           n == m.to
           old == raftNode[n]
           Tells(st) == /\ raftNode' = [raftNode EXCEPT ![n] = st]
                        /\ raftQueue' \in {Tail(raftQueue),
                               WithoutAppends(Tail(raftQueue), n) \o Heartbeats(n, st)}
<1>1. raftQueue # <<>> /\ m.type = "AppendEntriesReply"
  BY DEF HandleAppendEntriesReply, Handle
<1>2. n \in Nodes /\ Fields \subseteq DOMAIN old /\ m.term \in Nat /\ old.term \in Nat
  BY <1>1, EmptyOrHead, StateParts DEF Kept, Fair
<1>3. \/ /\ old.term < m.term /\ raftQueue' = Tail(raftQueue)
         /\ raftNode' = [raftNode EXCEPT ![n] = Follow(old, m.term)]
      \/ \E st : Alike(st, old) /\ Tells(st)
  <2> DEFINE leads == old.role = "leader"
             last == Len(old.log)
             acked == [old EXCEPT !.next[m.from] = last + 1, !.match[m.from] = last]
             copies == 1 + Cardinality({i \in Nodes \ {n} : acked.match[i] >= last})
             commits == leads /\ m.term <= old.term /\ m.success /\ last > 0
                        /\ Majority(copies) /\ old.commit < last
             done == [acked EXCEPT !.commit = last]
             new == IF commits THEN done ELSE acked
             back == [old EXCEPT !.next[m.from] = @ - 1]
             st2 == IF ~leads THEN old
                    ELSE IF m.term > old.term THEN Follow(old, m.term)
                    ELSE IF m.success THEN new
                    ELSE IF old.next[m.from] > 1 THEN back
                    ELSE old
             q2 == IF commits THEN WithoutAppends(Tail(raftQueue), n) \o Heartbeats(n, new)
                   ELSE Tail(raftQueue)
  <2>1. raftNode' = [raftNode EXCEPT ![n] = st2] /\ raftQueue' = q2
    BY DEF HandleAppendEntriesReply
  <2>2. Alike(old, old) /\ Alike(acked, old) /\ Alike(back, old) /\ Alike(done, old)
    <3> HIDE DEF old, last
    <3> QED
      BY <1>2, StillAlike
  <2>3. commits => leads /\ ~(m.term > old.term) /\ m.success
    BY <1>2
  <2> HIDE DEF n, m, old, leads, commits, acked, done, back
  <2>4. Alike(new, old)
    BY <2>2
  <2>5. CASE commits
    <3>1. st2 = new /\ q2 = WithoutAppends(Tail(raftQueue), n) \o Heartbeats(n, new)
      BY <2>3, <2>5
    <3> HIDE DEF new, st2, q2
    <3>2. Tells(new)
      BY <2>1, <3>1
    <3> QED
      BY <2>4, <3>2
  <2>6. CASE ~commits /\ leads /\ m.term > old.term
    BY <1>2, <2>1, <2>6
  <2>7. CASE ~commits /\ ~(leads /\ m.term > old.term)
    <3>1. st2 \in {old, new, back} /\ q2 = Tail(raftQueue)
      BY <2>7
    <3>2. Alike(st2, old)
      BY <2>2, <2>4, <3>1
    <3> HIDE DEF st2, q2
    <3>3. Tells(st2)
      BY <2>1, <3>1
    <3> QED
      BY <3>2, <3>3
  <2> QED
    BY <2>5, <2>6, <2>7
<1>4. /\ old.term < m.term =>
             Fair(B, [raftNode EXCEPT ![n] = Follow(old, m.term)], Tail(raftQueue), elected)
      /\ \A st : Alike(st, old) =>
             /\ Fair(B, [raftNode EXCEPT ![n] = st], Tail(raftQueue), elected)
             /\ Fair(B, [raftNode EXCEPT ![n] = st],
                     WithoutAppends(Tail(raftQueue), n) \o Heartbeats(n, st), elected)
  BY <1>1, AppendEntriesReplyStep DEF Kept, Alike
<1>5. leaderID' \in {None, leaderID} /\ elected' = elected
  BY DEF HandleAppendEntriesReply, raftObservers
<1>6. Fair(B, raftNode', raftQueue', elected)
  BY <1>3, <1>4
<1> QED
  BY <1>5, <1>6 DEF Kept, Held

LEMMA SubmitCommandKept ==
    ASSUME RaftAssumption, NEW B, Kept(B), SubmitCommand
    PROVE  Kept(B)'
<1> DEFINE n == leaderID
           st == [raftNode[n] EXCEPT !.log =
                      Append(@, [term |-> raftNode[n].term, cmd |-> commands + 1])]
<1>1. /\ n \in Nodes /\ raftNode' = [raftNode EXCEPT ![n] = st]
      /\ raftQueue' = WithoutAppends(raftQueue, n) \o Heartbeats(n, st)
      /\ leaderID' = leaderID /\ elected' = elected
  BY DEF SubmitCommand, Kept, Held
<1>2. Fields \subseteq DOMAIN raftNode[n]
  BY <1>1, StateParts DEF Kept
<1>3. /\ Fields \subseteq DOMAIN st /\ st.role = raftNode[n].role /\ st.term = raftNode[n].term
      /\ st.votedFor = raftNode[n].votedFor /\ st.votes = raftNode[n].votes
      /\ st.online = raftNode[n].online
  BY <1>2 DEF Fields
<1> HIDE DEF st
<1>4. Fair(B, [raftNode EXCEPT ![n] = st],
           WithoutAppends(raftQueue, n) \o Heartbeats(n, st), elected)
  BY <1>1, <1>3, RenewFair DEF Kept
<1> QED
  BY <1>1, <1>4 DEF Kept, Held

(* No message is lost as long as no node is offline.                       *)
LEMMA Unheard ==
    ASSUME RaftAssumption, NEW B, Kept(B), LoseMessage \/ \E n \in Nodes : RestoreNode(n)
    PROVE  FALSE
<1>1. \A n \in Nodes : raftNode[n].online
  BY DEF Kept, Fair, Upright
<1>2. raftQueue # <<>> => Head(raftQueue).to \in Nodes
  BY EmptyOrHead DEF Kept, Fair
<1> QED
  BY <1>1, <1>2 DEF LoseMessage, RestoreNode

(* The first state.                                                        *)
LEMMA NobodyVoted ==
    ASSUME RaftAssumption, RaftInit
    PROVE  Kept({}) /\ failures = 0
<1>1. /\ DOMAIN raftNode = Nodes /\ raftQueue = <<>> /\ DOMAIN raftQueue = {}
      /\ raftQueue \in Seq({})
      /\ leaderID = None /\ elected = {} /\ failures = 0
      /\ \A n \in Nodes : raftNode[n] = NewNode
  BY DEF RaftInit
<1>2. /\ Fields \subseteq DOMAIN NewNode /\ NewNode.term \in Nat /\ NewNode.votes \in Nat
      /\ NewNode.online /\ NewNode.role = "follower"
  BY DEF NewNode, Fields
<1>3. Upright(raftNode) /\ IsQueue(raftQueue)
  BY <1>1, <1>2 DEF Upright, IsQueue
<1>4. /\ Requests({}, raftQueue) /\ Appends(raftQueue, elected)
      /\ Replies({}, raftNode, raftQueue)
  BY <1>1 DEF Requests, Appends, Replies
<1>5. /\ Ballots({}, raftNode, raftQueue) /\ Campaigns({}, raftNode, raftQueue)
      /\ Elections({}, raftNode, elected)
  BY <1>1 DEF Ballots, Campaigns, Elections
<1>6. Roles({}, raftNode, raftQueue, elected)
  BY <1>1, <1>2 DEF Roles
<1> QED
  BY <1>1, <1>3, <1>4, <1>5, <1>6 DEF Kept, Held, Fair

\* As long as no leader has failed.
RaftInv == failures \in Nat /\ (failures = 0 => \E B : Kept(B))

(* Every step keeps the invariant.                                         *)
LEMMA RaftInvKept ==
    ASSUME RaftAssumption, RaftInv, [RaftNext]_raftVars
    PROVE  RaftInv'
<1>1. CASE FailLeader
  BY <1>1 DEF FailLeader, RaftInv
<1>2. CASE ~FailLeader
  <2>1. failures' = failures
    BY <1>2 DEF RaftNext, raftVars, raftObservers, ElectionTimeout, TriggerElection,
                StartElection, HeartbeatTimeout, RestoreNode, LoseMessage, HandleRequestVote,
                HandleRequestVoteReply, HandleAppendEntries, HandleAppendEntriesReply,
                SubmitCommand
  <2> SUFFICES ASSUME failures = 0 PROVE \E C : Kept(C)'
    BY <2>1 DEF RaftInv
  <2>2. PICK B : Kept(B)
    BY DEF RaftInv
  <2>3. CASE UNCHANGED raftVars
    <3>1. Kept(B)'
      BY <2>2, <2>3 DEF raftVars, raftObservers, Kept, Held
    <3> QED
      BY <3>1
  <2>4. CASE \E n \in Nodes : StartElection(n)
    BY <2>2, <2>4, StartElectionKept
  <2>5. CASE \E n \in Nodes : HeartbeatTimeout(n)
    BY <2>2, <2>5, HeartbeatTimeoutKept
  <2>6. CASE HandleRequestVote
    BY <2>2, <2>6, RequestVoteKept
  <2>7. CASE HandleRequestVoteReply
    BY <2>2, <2>7, RequestVoteReplyKept
  <2>8. CASE HandleAppendEntries
    BY <2>2, <2>8, AppendEntriesKept
  <2>9. CASE HandleAppendEntriesReply
    BY <2>2, <2>9, AppendEntriesReplyKept
  <2>10. CASE SubmitCommand
    BY <2>2, <2>10, SubmitCommandKept
  <2>11. CASE LoseMessage \/ \E n \in Nodes : RestoreNode(n)
    BY <2>2, <2>11, Unheard
  <2> QED
    BY <1>2, <2>3, <2>4, <2>5, <2>6, <2>7, <2>8, <2>9, <2>10, <2>11
       DEF RaftNext, ElectionTimeout, TriggerElection
<1> QED
  BY <1>1, <1>2

(* Without a failed leader no term has two leaders, although followers     *)
(* forget their vote whenever a leader writes to them: by then all the     *)
(* requests of its term are answered (raft.go, handleRequestVote and       *)
(* handleAppendEntries).                                                   *)
THEOREM OneLeader ==
    ASSUME RaftAssumption
    PROVE  RaftSpec => []OneLeaderPerTerm
<1>1. RaftInit => RaftInv
  BY NobodyVoted DEF RaftInv
<1>2. RaftInv /\ [RaftNext]_raftVars => RaftInv'
  BY RaftInvKept
<1>3. RaftInv => OneLeaderPerTerm
  BY OneWinner DEF RaftInv, Kept, OneLeaderPerTerm
<1> QED
  BY <1>1, <1>2, <1>3, PTL DEF RaftSpec

-----------------------------------------------------------------------------
(***************************************************************************)
(* RaftSim: type correctness.  A candidate's votes are those of nodes that *)
(* no request or grant of its term waits for or comes from; what a message *)
(* carries is no longer than the number of commands.                       *)
(***************************************************************************)
RaftNodeType ==
    [role : {"follower", "candidate", "leader"}, term : 0 .. MaxTerm,
     votedFor : Nodes \cup {None}, votes : 0 .. NodeCount, log : Seq(Entry),
     commit : 0 .. MaxCommands, next : [Nodes -> 0 .. MaxCommands + 1],
     match : [Nodes -> 0 .. MaxCommands], online : BOOLEAN]

NodeSteady(st, cm) ==
    /\ st \in RaftNodeType /\ Len(st.log) <= cm
    /\ st.role = "leader" => \A i \in Nodes : st.next[i] \in 1 .. cm + 1
    /\ st.role # "follower" => st.term >= 1

\* A vote of n for c in term t is asked for, or on its way.
Pending(m, c, n, t) == Asks(m, c, n, t) \/ Grants(m, n, c, t)

Uncast(q, c, t) == {n \in Nodes : \E k \in DOMAIN q : Pending(q[k], c, n, t)}

Wellformed(m, nd, cm) ==
    /\ m.from \in Nodes /\ m.to \in Nodes /\ m.term \in 0 .. MaxTerm
    /\ m.type = "RequestVote" => m.from # m.to /\ m.term <= nd[m.from].term
    /\ m.type = "RequestVoteReply" =>
           m.granted \in BOOLEAN /\ (m.granted => m.from # m.to /\ m.term <= nd[m.to].term)
    /\ m.type = "AppendEntries" =>
           /\ "entries" \in DOMAIN m
           /\ m.entries \in Seq(Entry) /\ m.prev \in Nat /\ m.commit \in Nat
           /\ m.prev + Len(m.entries) <= cm

Orderly(nd, q, cm) ==
    /\ IsQueue(q)
    /\ \A k \in DOMAIN q : Wellformed(q[k], nd, cm)
    /\ \A c, n, t : \A j, k \in DOMAIN q :
           Pending(q[j], c, n, t) /\ Pending(q[k], c, n, t) => j = k

Tallied(nd, q, c) ==
    nd[c].role = "candidate" =>
        nd[c].votes <= Cardinality(Nodes \ Uncast(q, c, nd[c].term))

RaftTyped ==
    /\ DOMAIN raftNode = Nodes /\ raftNode \in [Nodes -> RaftNodeType]
    /\ \A n \in Nodes : NodeSteady(raftNode[n], commands) /\ Tallied(raftNode, raftQueue, n)
    /\ Orderly(raftNode, raftQueue, commands)
    /\ leaderID \in Nodes \cup {None} /\ elected \subseteq (1 .. MaxTerm) \X Nodes
    /\ commands \in 0 .. MaxCommands /\ failures \in 0 .. MaxFailures

LEMMA OrderlyLater ==
    ASSUME NEW nd, NEW md, NEW q, NEW cm \in Nat, NEW dm \in Nat, Orderly(nd, q, cm), cm <= dm,
           \A n \in Nodes : /\ nd[n].term \in Nat /\ md[n].term \in Nat
                            /\ nd[n].term <= md[n].term
    PROVE  Orderly(md, q, dm)
<1> SUFFICES ASSUME NEW k \in DOMAIN q PROVE Wellformed(q[k], md, dm)
  BY DEF Orderly
<1>1. Wellformed(q[k], nd, cm)
  BY DEF Orderly
<1>2. q[k].from \in Nodes /\ q[k].to \in Nodes /\ q[k].term \in Int
  BY <1>1 DEF Wellformed
<1>3. q[k].type = "AppendEntries" => q[k].prev + Len(q[k].entries) <= dm
  <2>1. q[k].type = "AppendEntries" =>
            /\ q[k].entries \in Seq(Entry) /\ q[k].prev \in Nat
            /\ q[k].prev + Len(q[k].entries) <= cm
    BY <1>1 DEF Wellformed
  <2>2. q[k].entries \in Seq(Entry) => Len(q[k].entries) \in Nat
    OBVIOUS
  <2> QED
    BY <2>1, <2>2
<1>4. /\ q[k].term <= nd[q[k].from].term => q[k].term <= md[q[k].from].term
      /\ q[k].term <= nd[q[k].to].term => q[k].term <= md[q[k].to].term
  BY <1>2
<1> QED
  BY <1>1, <1>3, <1>4 DEF Wellformed

(* Messages are taken out, or change in what nobody counts.                *)
LEMMA OrderlyThin ==
    ASSUME NEW nd, NEW q, NEW cm, Orderly(nd, q, cm), NEW r, IsQueue(r), NEW f,
           \A i \in DOMAIN r :
               /\ f[i] \in DOMAIN q /\ Wellformed(r[i], nd, cm)
               /\ \A c, n, t : Pending(r[i], c, n, t) => Pending(q[f[i]], c, n, t),
           \A i, j \in DOMAIN r : f[i] = f[j] => i = j
    PROVE  /\ Orderly(nd, r, cm)
           /\ \A c, t : Uncast(r, c, t) \subseteq Uncast(q, c, t)
<1>1. \A c, n, t : \A j, k \in DOMAIN r :
          Pending(r[j], c, n, t) /\ Pending(r[k], c, n, t) => j = k
  BY DEF Orderly
<1>2. \A c, t : Uncast(r, c, t) \subseteq Uncast(q, c, t)
  BY DEF Uncast
<1> QED
  BY <1>1, <1>2 DEF Orderly

(* Messages are added.                                                     *)
LEMMA OrderlyMore ==
    ASSUME NEW nd, NEW q, NEW cm, Orderly(nd, q, cm), NEW r, NEW new, Longer(q, r, new),
           \A i \in DOMAIN new : i \in Nat \ {0} /\ Wellformed(new[i], nd, cm),
           \A c, n, t : \A i, j \in DOMAIN new :
               Pending(new[i], c, n, t) /\ Pending(new[j], c, n, t) => i = j,
           \A c, n, t : \A i \in DOMAIN new, k \in DOMAIN q :
               ~(Pending(new[i], c, n, t) /\ Pending(q[k], c, n, t))
    PROVE  /\ Orderly(nd, r, cm)
           /\ \A c, t : Uncast(r, c, t) = Uncast(q, c, t) \cup Uncast(new, c, t)
<1>1. IsQueue(r) /\ \A k \in DOMAIN r : Wellformed(r[k], nd, cm)
  BY DEF Longer, Orderly
<1>2. \A c, n, t : \A j, k \in DOMAIN r :
          Pending(r[j], c, n, t) /\ Pending(r[k], c, n, t) => j = k
  <2> SUFFICES ASSUME NEW c, NEW n, NEW t, NEW j \in DOMAIN r, NEW k \in DOMAIN r,
                      Pending(r[j], c, n, t), Pending(r[k], c, n, t)
               PROVE  j = k
    OBVIOUS
  <2>1. CASE j \in DOMAIN q /\ k \in DOMAIN q
    BY <2>1 DEF Longer, Orderly
  <2>2. CASE j \in DOMAIN q /\ k \notin DOMAIN q
    BY <2>2 DEF Longer
  <2>3. CASE j \notin DOMAIN q /\ k \in DOMAIN q
    BY <2>3 DEF Longer
  <2>4. CASE j \notin DOMAIN q /\ k \notin DOMAIN q
    <3>1. PICK a \in DOMAIN new : j = Len(q) + a /\ r[j] = new[a]
      BY <2>4 DEF Longer
    <3>2. PICK b \in DOMAIN new : k = Len(q) + b /\ r[k] = new[b]
      BY <2>4 DEF Longer
    <3>3. a = b
      BY <3>1, <3>2
    <3> QED
      BY <3>1, <3>2, <3>3
  <2> QED
    BY <2>1, <2>2, <2>3, <2>4
<1>3. ASSUME NEW c, NEW t PROVE Uncast(r, c, t) = Uncast(q, c, t) \cup Uncast(new, c, t)
  <2>1. ASSUME NEW n \in Nodes, NEW k \in DOMAIN r, Pending(r[k], c, n, t)
        PROVE  n \in Uncast(q, c, t) \cup Uncast(new, c, t)
    BY <2>1 DEF Longer, Uncast
  <2>2. ASSUME NEW n \in Nodes, NEW k \in DOMAIN q, Pending(q[k], c, n, t)
        PROVE  n \in Uncast(r, c, t)
    BY <2>2 DEF Longer, Uncast
  <2>3. ASSUME NEW n \in Nodes, NEW k \in DOMAIN new, Pending(new[k], c, n, t)
        PROVE  n \in Uncast(r, c, t)
    BY <2>3 DEF Longer, Uncast
  <2> QED
    BY <2>1, <2>2, <2>3 DEF Uncast
<1> QED
  BY <1>1, <1>2, <1>3 DEF Orderly

(* The first message is gone.                                              *)
LEMMA OrderlyTail ==
    ASSUME NEW nd, NEW q, NEW cm, Orderly(nd, q, cm), q # <<>>
    PROVE  /\ Wellformed(Head(q), nd, cm)
           /\ Orderly(nd, Tail(q), cm)
           /\ \A c, t : Uncast(Tail(q), c, t) \subseteq Uncast(q, c, t)
           /\ \A c, n, t : Pending(Head(q), c, n, t) =>
                  \A k \in DOMAIN Tail(q) : ~Pending(Tail(q)[k], c, n, t)
<1> DEFINE f == [i \in DOMAIN Tail(q) |-> i + 1]  r == Tail(q)
<1>1. /\ IsQueue(r) /\ Head(q) = q[1] /\ 1 \in DOMAIN q /\ DOMAIN r \subseteq Nat \ {0}
      /\ \A i \in DOMAIN r : f[i] = i + 1 /\ i + 1 \in DOMAIN q /\ r[i] = q[i + 1]
  BY EmptyOrHead DEF Orderly
<1> HIDE DEF f, r
<1>2. \A i, j \in DOMAIN r : f[i] = f[j] => i = j
  BY <1>1
<1>3. \A i \in DOMAIN r :
          /\ f[i] \in DOMAIN q /\ Wellformed(r[i], nd, cm)
          /\ \A c, n, t : Pending(r[i], c, n, t) => Pending(q[f[i]], c, n, t)
  BY <1>1 DEF Orderly
<1>4. Orderly(nd, r, cm) /\ \A c, t : Uncast(r, c, t) \subseteq Uncast(q, c, t)
  BY <1>1, <1>2, <1>3, OrderlyThin
<1>5. Wellformed(Head(q), nd, cm)
  BY <1>1 DEF Orderly
<1>6. ASSUME NEW c, NEW n, NEW t, Pending(Head(q), c, n, t), NEW k \in DOMAIN r
      PROVE  ~Pending(r[k], c, n, t)
  <2>1. k + 1 # 1 /\ k + 1 \in DOMAIN q /\ r[k] = q[k + 1]
    BY <1>1
  <2> QED
    BY <1>1, <1>6, <2>1 DEF Orderly
<1> QED
  BY <1>4, <1>5, <1>6 DEF r

LEMMA OrderlyOverwrite ==
    ASSUME NEW nd, NEW q, NEW cm, Orderly(nd, q, cm), NEW n, NEW old, NEW log \in Seq(Entry)
    PROVE  /\ Orderly(nd, Overwrite(q, n, old, log), cm)
           /\ \A c, t : Uncast(Overwrite(q, n, old, log), c, t) \subseteq Uncast(q, c, t)
<1> DEFINE r == Overwrite(q, n, old, log)
<1>1. CASE Len(old) # Len(log)
  BY <1>1 DEF Overwrite
<1>2. CASE Len(old) = Len(log)
  <2> DEFINE E(k) == [i \in DOMAIN q[k].entries |-> IF q[k].prev + i \in DOMAIN log
                          THEN log[q[k].prev + i] ELSE q[k].entries[i]]
             Other(k) == [q[k] EXCEPT !.entries = E(k)]
             R(k) == IF q[k].type = "AppendEntries" /\ q[k].from = n THEN Other(k) ELSE q[k]
             f == [i \in DOMAIN q |-> i]
  <2>1. r = [k \in DOMAIN q |-> R(k)]
    BY <1>2 DEF Overwrite
  <2>2. \A k \in DOMAIN q : /\ R(k).type = q[k].type /\ R(k).from = q[k].from
                            /\ R(k).to = q[k].to /\ R(k).term = q[k].term
                            /\ R(k).type # "AppendEntries" => R(k) = q[k]
    OBVIOUS
  <2>3. ASSUME NEW k \in DOMAIN q PROVE Wellformed(R(k), nd, cm)
    <3>1. CASE R(k) = q[k]
      BY <3>1 DEF Orderly
    <3>2. CASE q[k].type = "AppendEntries" /\ R(k) = Other(k)
      <4>1. Wellformed(q[k], nd, cm)
        BY DEF Orderly
      <4>2. /\ q[k].entries \in Seq(Entry) /\ q[k].prev \in Nat /\ q[k].commit \in Nat
            /\ q[k].prev + Len(q[k].entries) <= cm
        BY <3>2, <4>1 DEF Wellformed
      <4>3. E(k) \in Seq(Entry) /\ Len(E(k)) = Len(q[k].entries)
        <5> DEFINE m == Len(q[k].entries)  e == E(k)
        <5>1. m \in Nat /\ DOMAIN q[k].entries = 1 .. m
          BY <4>2
        <5>2. \A i \in 1 .. m : q[k].entries[i] \in Entry
          BY <4>2
        <5>3. \A i \in DOMAIN log : log[i] \in Entry
          OBVIOUS
        <5>4. e = [i \in 1 .. m |-> IF q[k].prev + i \in DOMAIN log
                                   THEN log[q[k].prev + i] ELSE q[k].entries[i]]
          BY <5>1
        <5>5. e \in [1 .. m -> Entry]
          BY <5>2, <5>3, <5>4
        <5> HIDE DEF m, e
        <5>6. e \in Seq(Entry) /\ Len(e) = m
          BY <5>1, <5>5
        <5> QED
          BY <5>6 DEF m, e
      <4> HIDE DEF E
      <4>4. /\ Other(k).prev = q[k].prev /\ Other(k).commit = q[k].commit
            /\ "entries" \in DOMAIN q[k] => Other(k).entries = E(k)
            /\ DOMAIN Other(k) = DOMAIN q[k]
        OBVIOUS
      <4>5. "entries" \in DOMAIN q[k]
        BY <3>2, <4>1 DEF Wellformed
      <4>6. /\ R(k).prev = q[k].prev /\ R(k).commit = q[k].commit /\ R(k).entries = E(k)
            /\ "entries" \in DOMAIN R(k)
        BY <3>2, <4>4, <4>5
      <4> QED
        BY <2>2, <3>2, <4>1, <4>2, <4>3, <4>6 DEF Wellformed
    <3> QED
      BY <3>1, <3>2
  <2> HIDE DEF R
  <2>4. IsQueue(q) /\ DOMAIN q = 1 .. Len(q) /\ Len(q) \in Nat /\ DOMAIN r = DOMAIN q
    BY <2>1, QueueDomain DEF Orderly
  <2>5. \A k \in DOMAIN q : r[k] = R(k) /\ f[k] = k
    BY <2>1
  <2>6. r \in Seq({R(k) : k \in DOMAIN q})
    BY <2>1, <2>4
  <2> HIDE DEF f, r
  <2>7. IsQueue(r)
    BY <2>2, <2>4, <2>5, <2>6 DEF IsQueue
  <2>8. \A k \in DOMAIN r : \A c, x, t : Pending(r[k], c, x, t) => Pending(q[f[k]], c, x, t)
    BY <2>2, <2>4, <2>5 DEF Pending, Asks, Grants
  <2>9. Orderly(nd, r, cm) /\ \A c, t : Uncast(r, c, t) \subseteq Uncast(q, c, t)
    BY <2>3, <2>4, <2>5, <2>7, <2>8, OrderlyThin, SMTT(40)
  <2> QED
    BY <2>9 DEF r
<1> QED
  BY <1>1, <1>2

LEMMA OrderlyWithout ==
    ASSUME NEW nd, NEW q, NEW cm, Orderly(nd, q, cm), NEW n
    PROVE  /\ Orderly(nd, WithoutAppends(q, n), cm)
           /\ \A c, t : Uncast(WithoutAppends(q, n), c, t) \subseteq Uncast(q, c, t)
<1> DEFINE r == WithoutAppends(q, n)
<1>1. IsQueue(q)
  BY DEF Orderly
<1>2. PICK f : /\ IsQueue(r)
               /\ \A i \in DOMAIN r : f[i] \in DOMAIN q /\ r[i] = q[f[i]]
               /\ \A i, j \in DOMAIN r : i < j => f[i] < f[j]
  BY <1>1, AppendsDropped
<1> HIDE DEF r
<1>3. DOMAIN r \subseteq Nat /\ DOMAIN q \subseteq Nat
  BY <1>1, <1>2, QueueDomain
<1>4. \A i, j \in DOMAIN r : f[i] = f[j] => i = j
  BY <1>2, <1>3
<1>5. \A i \in DOMAIN r : Wellformed(r[i], nd, cm)
  BY <1>2 DEF Orderly
<1>6. Orderly(nd, r, cm) /\ \A c, t : Uncast(r, c, t) \subseteq Uncast(q, c, t)
  BY <1>2, <1>4, <1>5, OrderlyThin
<1> QED
  BY <1>6 DEF r

LEMMA OrderlyHeartbeats ==
    ASSUME RaftAssumption, NEW nd, NEW q, NEW cm \in 0 .. MaxCommands, Orderly(nd, q, cm),
           NEW n \in Nodes, NEW st, NodeSteady(st, cm)
    PROVE  /\ Orderly(nd, q \o Heartbeats(n, st), cm)
           /\ \A c, t : Uncast(q \o Heartbeats(n, st), c, t) \subseteq Uncast(q, c, t)
<1> DEFINE new == Heartbeats(n, st)
<1>1. /\ IsQueue(new)
      /\ \A i \in DOMAIN new : /\ new[i].type = "AppendEntries" /\ i \in Nat \ {0}
                               /\ Wellformed(new[i], nd, cm)
  <2>1. CASE st.role # "leader"
    <3>1. new = <<>> /\ new \in Seq({}) /\ DOMAIN new = {}
      BY <2>1 DEF Heartbeats
    <3> QED
      BY <3>1 DEF IsQueue
  <2>2. CASE st.role = "leader"
    <3> DEFINE M(i) == [type |-> "AppendEntries", from |-> n, to |-> Others(n)[i],
                        term |-> st.term, prev |-> st.next[Others(n)[i]] - 1,
                        prevTerm |-> IF st.next[Others(n)[i]] - 1 \in DOMAIN st.log
                                     THEN st.log[st.next[Others(n)[i]] - 1].term ELSE 0,
                        entries |-> SubSeq(st.log, (st.next[Others(n)[i]] - 1) + 1, Len(st.log)),
                        commit |-> st.commit]
               S == {M(i) : i \in 1 .. NodeCount - 1}
    <3>1. new = [i \in 1 .. NodeCount - 1 |-> M(i)]
      BY <2>2 DEF Heartbeats
    <3>2. ASSUME NEW i \in 1 .. NodeCount - 1
          PROVE  /\ M(i).type = "AppendEntries" /\ M(i).from = n /\ M(i).to \in Nodes
                 /\ M(i).term \in Nat /\ Wellformed(M(i), nd, cm)
      <4>1. Others(n)[i] \in Nodes
        BY OthersAreAll
      <4>2. PICK p : p = st.next[Others(n)[i]]
        OBVIOUS
      <4>3. /\ st.log \in Seq(Entry) /\ Len(st.log) <= cm /\ Len(st.log) \in Nat
            /\ st.commit \in Nat /\ st.term \in 0 .. MaxTerm /\ MaxTerm \in Nat
        BY DEF NodeSteady, RaftNodeType, RaftAssumption
      <4>4. p \in 1 .. cm + 1
        BY <2>2, <4>1, <4>2 DEF NodeSteady
      <4> DEFINE e == SubSeq(st.log, p, Len(st.log))
      <4>5. e \in Seq(Entry) /\ (p - 1) + Len(e) <= cm /\ p - 1 \in Nat
        <5>1. cm \in Nat /\ p \in Nat \ {0}
          BY <4>4 DEF RaftAssumption
        <5> DEFINE L == Len(st.log)
        <5>2. L \in Nat /\ L <= cm
          BY <4>3
        <5>3. e \in Seq(Entry) /\ Len(e) = IF p <= L THEN L - p + 1 ELSE 0
          BY <4>3, <5>1
        <5> HIDE DEF e, L
        <5> QED
          BY <4>4, <5>1, <5>2, <5>3
      <4>6. (p - 1) + 1 = p
        BY <4>4
      <4>7. M(i).entries = e /\ M(i).prev = p - 1
        BY <4>2, <4>6
      <4> HIDE DEF e
      <4>8. /\ M(i).type = "AppendEntries" /\ M(i).from = n /\ M(i).to = Others(n)[i]
            /\ M(i).term = st.term /\ M(i).commit = st.commit /\ "entries" \in DOMAIN M(i)
        OBVIOUS
      <4> HIDE DEF M
      <4> QED
        BY <4>1, <4>3, <4>5, <4>7, <4>8 DEF Wellformed
    <3>3. \A i \in 1 .. NodeCount - 1 : M(i) \in S
      OBVIOUS
    <3> HIDE DEF M, S
    <3>4. new \in [1 .. NodeCount - 1 -> S] /\ NodeCount - 1 \in Nat
      BY <3>1, <3>3 DEF RaftAssumption
    <3>5. new \in Seq(S)
      BY <3>4, FunctionIsSequence
    <3>6. DOMAIN new = 1 .. NodeCount - 1 /\ \A i \in 1 .. NodeCount - 1 : new[i] = M(i)
      BY <3>1
    <3> HIDE DEF new
    <3>7. IsQueue(new)
      BY <3>2, <3>5, <3>6 DEF IsQueue
    <3> QED
      BY <3>2, <3>6, <3>7
  <2> QED
    BY <2>1, <2>2
<1> HIDE DEF new
<1>2. Longer(q, q \o new, new)
  BY <1>1, QueueLonger DEF Orderly
<1>3. \A i \in DOMAIN new : \A c, x, t : ~Pending(new[i], c, x, t)
  BY <1>1 DEF Pending, Asks, Grants
<1>4. /\ Orderly(nd, q \o new, cm)
      /\ \A c, t : Uncast(q \o new, c, t) = Uncast(q, c, t) \cup Uncast(new, c, t)
  BY <1>1, <1>2, <1>3, OrderlyMore
<1>5. \A c, t : Uncast(new, c, t) = {}
  BY <1>3 DEF Uncast
<1> QED
  BY <1>4, <1>5 DEF new

(* A node of a log that may be longer than it was.                         *)
LEMMA SteadyLater ==
    ASSUME NEW st, NEW cm \in Nat, NEW dm \in Nat, NodeSteady(st, cm), cm <= dm
    PROVE  NodeSteady(st, dm)
<1>1. Len(st.log) \in Nat
  BY DEF NodeSteady, RaftNodeType
<1>2. 1 .. cm + 1 \subseteq 1 .. dm + 1
  OBVIOUS
<1> QED
  BY <1>1, <1>2 DEF NodeSteady

(* The fields of a node, one by one.                                       *)
LEMMA SteadyParts ==
    ASSUME NEW st, NEW cm, NodeSteady(st, cm)
    PROVE  /\ st \in RaftNodeType
           /\ st.role \in {"follower", "candidate", "leader"} /\ st.term \in 0 .. MaxTerm
           /\ st.votedFor \in Nodes \cup {None} /\ st.votes \in 0 .. NodeCount
           /\ st.log \in Seq(Entry) /\ Len(st.log) \in Nat /\ Len(st.log) <= cm
           /\ st.commit \in 0 .. MaxCommands /\ st.online \in BOOLEAN
           /\ st.next \in [Nodes -> 0 .. MaxCommands + 1]
           /\ st.match \in [Nodes -> 0 .. MaxCommands]
           /\ st.role = "leader" => \A i \in Nodes : st.next[i] \in 1 .. cm + 1
           /\ st.role # "follower" => st.term >= 1
  BY DEF NodeSteady, RaftNodeType

\* What one node may do to the rest: n becomes st, of a term not older.
Moves(n, st) ==
    /\ n \in Nodes /\ raftNode' = [raftNode EXCEPT ![n] = st]
    /\ commands' \in commands .. MaxCommands /\ NodeSteady(st, commands')
    /\ raftNode[n].term <= st.term
    /\ Orderly(raftNode', raftQueue', commands')
    /\ st.role = "candidate" => st.votes <= Cardinality(Nodes \ Uncast(raftQueue', n, st.term))
    /\ \A c \in Nodes \ {n} : \A t : Uncast(raftQueue', c, t) \subseteq Uncast(raftQueue, c, t)

LEMMA UncastFewer ==
    ASSUME RaftAssumption, NEW q, NEW r, NEW c, NEW t, Uncast(r, c, t) \subseteq Uncast(q, c, t)
    PROVE  /\ Cardinality(Nodes \ Uncast(q, c, t)) <= Cardinality(Nodes \ Uncast(r, c, t))
           /\ Cardinality(Nodes \ Uncast(q, c, t)) \in Nat
           /\ Cardinality(Nodes \ Uncast(r, c, t)) \in Nat
           /\ Cardinality(Nodes \ Uncast(r, c, t)) <= NodeCount
<1> DEFINE S == Nodes \ Uncast(q, c, t)  T == Nodes \ Uncast(r, c, t)
<1>1. S \subseteq T /\ T \subseteq Nodes /\ S \subseteq Nodes
  OBVIOUS
<1> HIDE DEF S, T
<1>2. /\ Cardinality(S) \in Nat /\ Cardinality(T) \in Nat /\ Cardinality(T) <= NodeCount
      /\ Cardinality(S) <= Cardinality(T)
  BY <1>1, VotersFinite, FewerVoters
<1> QED
  BY <1>2 DEF S, T

LEMMA RaftMoves ==
    ASSUME RaftAssumption, RaftTyped, NEW n, NEW st, Moves(n, st),
           leaderID' \in Nodes \cup {None}, elected' \subseteq (1 .. MaxTerm) \X Nodes,
           failures' \in 0 .. MaxFailures
    PROVE  RaftTyped'
<1>1. /\ DOMAIN raftNode = Nodes /\ n \in Nodes /\ commands \in Nat /\ commands' \in Nat
      /\ commands <= commands' /\ commands' \in 0 .. MaxCommands
  BY DEF RaftTyped, Moves, RaftAssumption
<1>2. /\ DOMAIN raftNode' = Nodes /\ raftNode'[n] = st
      /\ \A x \in Nodes \ {n} : raftNode'[x] = raftNode[x]
  BY <1>1 DEF Moves
<1>3. ASSUME NEW x \in Nodes
      PROVE  /\ NodeSteady(raftNode'[x], commands') /\ Tallied(raftNode', raftQueue', x)
             /\ raftNode'[x] \in RaftNodeType
  <2>1. CASE x = n
    BY <1>2, <2>1 DEF Moves, Tallied, NodeSteady
  <2>2. CASE x # n
    <3>1. NodeSteady(raftNode[x], commands) /\ Tallied(raftNode, raftQueue, x)
      BY DEF RaftTyped
    <3>2. NodeSteady(raftNode[x], commands')
      BY <1>1, <3>1, SteadyLater
    <3> DEFINE t == raftNode[x].term
    <3>3. Uncast(raftQueue', x, t) \subseteq Uncast(raftQueue, x, t)
      BY <2>2 DEF Moves
    <3> HIDE DEF t
    <3>4. /\ Cardinality(Nodes \ Uncast(raftQueue, x, t))
                 <= Cardinality(Nodes \ Uncast(raftQueue', x, t))
          /\ Cardinality(Nodes \ Uncast(raftQueue, x, t)) \in Nat
          /\ Cardinality(Nodes \ Uncast(raftQueue', x, t)) \in Nat
      BY <3>3, UncastFewer
    <3>5. raftNode[x].votes \in Nat
      BY <3>1, SteadyParts DEF RaftAssumption
    <3>6. Tallied(raftNode', raftQueue', x)
      BY <1>2, <2>2, <3>1, <3>4, <3>5, SMTT(40) DEF Tallied, t
    <3> QED
      BY <1>2, <2>2, <3>2, <3>6 DEF NodeSteady
  <2> QED
    BY <2>1, <2>2
<1>4. raftNode' \in [Nodes -> RaftNodeType]
  <2>1. raftNode' = [x \in Nodes |-> raftNode'[x]]
    BY <1>1 DEF Moves
  <2> QED
    BY <1>3, <2>1
<1> QED
  BY <1>1, <1>2, <1>3, <1>4 DEF RaftTyped, Moves

(* What a step may use of the node it is about, and of the first message.  *)
LEMMA RaftNow ==
    ASSUME RaftAssumption, RaftTyped
    PROVE  /\ DOMAIN raftNode = Nodes /\ commands \in 0 .. MaxCommands /\ commands \in Nat
           /\ Orderly(raftNode, raftQueue, commands) /\ IsQueue(raftQueue)
           /\ MaxTerm \in Nat /\ NodeCount \in Nat \ {0}
           /\ \A n \in Nodes : /\ NodeSteady(raftNode[n], commands)
                               /\ Tallied(raftNode, raftQueue, n)
                               /\ raftNode[n].term \in Nat
                               /\ raftNode = [raftNode EXCEPT ![n] = raftNode[n]]
<1>1. \A n \in Nodes : NodeSteady(raftNode[n], commands)
  BY DEF RaftTyped
<1>2. \A n \in Nodes : raftNode[n].term \in Nat
  BY <1>1, SteadyParts DEF RaftAssumption
<1>3. \A n \in Nodes : raftNode = [raftNode EXCEPT ![n] = raftNode[n]]
  BY DEF RaftTyped
<1> QED
  BY <1>1, <1>2, <1>3 DEF RaftTyped, Orderly, RaftAssumption

LEMMA OrderlyMoved ==
    ASSUME RaftAssumption, RaftTyped, NEW n \in Nodes, NEW st, st.term \in Nat,
           raftNode[n].term <= st.term, NEW q, NEW dm \in Nat, commands <= dm,
           Orderly(raftNode, q, commands)
    PROVE  Orderly([raftNode EXCEPT ![n] = st], q, dm)
<1> DEFINE md == [raftNode EXCEPT ![n] = st]
<1>1. \A x \in Nodes : raftNode[x].term \in Nat /\ DOMAIN raftNode = Nodes
  BY RaftNow
<1>2. \A x \in Nodes : /\ raftNode[x].term \in Nat /\ md[x].term \in Nat
                       /\ raftNode[x].term <= md[x].term
  BY <1>1
<1>3. commands \in Nat
  BY RaftNow
<1> HIDE DEF md
<1>4. Orderly(md, q, dm)
  BY <1>2, <1>3, OrderlyLater
<1> QED
  BY <1>4 DEF md

(* A message that is no request and no grant.                              *)
LEMMA OrderlyAppend ==
    ASSUME NEW nd, NEW q, NEW cm, Orderly(nd, q, cm), NEW m, Wellformed(m, nd, cm),
           m.term \in Nat,
           \A c, n, t : Pending(m, c, n, t) => \A k \in DOMAIN q : ~Pending(q[k], c, n, t)
    PROVE  /\ Orderly(nd, Append(q, m), cm)
           /\ \A c, t : Uncast(Append(q, m), c, t) \subseteq
                            Uncast(q, c, t) \cup {n \in Nodes : Pending(m, c, n, t)}
<1>1. /\ Longer(q, Append(q, m), <<m>>) /\ DOMAIN <<m>> = {1} /\ <<m>>[1] = m
  BY OneLonger DEF Orderly, Wellformed
<1> DEFINE r == Append(q, m)  new == <<m>>
<1> HIDE DEF r, new
<1>2. Longer(q, r, new) /\ DOMAIN new = {1} /\ new[1] = m
  BY <1>1 DEF r, new
<1>3. /\ \A i \in DOMAIN new : i \in Nat \ {0} /\ Wellformed(new[i], nd, cm)
      /\ \A c, n, t : \A i, j \in DOMAIN new :
             Pending(new[i], c, n, t) /\ Pending(new[j], c, n, t) => i = j
      /\ \A c, n, t : \A i \in DOMAIN new, k \in DOMAIN q :
             ~(Pending(new[i], c, n, t) /\ Pending(q[k], c, n, t))
  BY <1>2
<1>4. /\ Orderly(nd, r, cm)
      /\ \A c, t : Uncast(r, c, t) = Uncast(q, c, t) \cup Uncast(new, c, t)
  BY <1>2, <1>3, OrderlyMore
<1>5. \A c, t : Uncast(new, c, t) = {n \in Nodes : Pending(m, c, n, t)}
  BY <1>2 DEF Uncast
<1> QED
  BY <1>4, <1>5 DEF r

LEMMA StartElectionTyped ==
    ASSUME RaftAssumption, RaftTyped, NEW n \in Nodes, StartElection(n)
    PROVE  RaftTyped'
<1> DEFINE st == [raftNode[n] EXCEPT !.term = @ + 1, !.role = "candidate",
                                 !.votedFor = n, !.votes = 1]
           new == VoteRequests(n, st)
           M(i) == [type |-> "RequestVote", from |-> n, to |-> Others(n)[i], term |-> st.term,
                    lastIndex |-> Len(st.log), lastTerm |-> LastTerm(st.log)]
           S == {M(i) : i \in 1 .. NodeCount - 1}
           md == [raftNode EXCEPT ![n] = st]
<1>1. /\ st.term <= MaxTerm /\ raftNode' = md /\ raftQueue' = raftQueue \o new
      /\ leaderID' = leaderID /\ elected' = elected /\ commands' = commands
      /\ failures' = failures
  BY DEF StartElection, raftObservers
<1>2. NodeSteady(raftNode[n], commands) /\ raftNode[n].term \in Nat
  BY RaftNow
<1>3. /\ st.term = raftNode[n].term + 1 /\ st.role = "candidate" /\ st.votedFor = n
      /\ st.votes = 1 /\ st.log = raftNode[n].log /\ st.commit = raftNode[n].commit
      /\ st.next = raftNode[n].next /\ st.match = raftNode[n].match
      /\ st.online = raftNode[n].online
  BY <1>2 DEF NodeSteady, RaftNodeType
<1>4. NodeSteady(st, commands)
  <2>1. st.term \in 0 .. MaxTerm /\ st.votes \in 0 .. NodeCount /\ st.votedFor \in Nodes \cup {None}
    BY <1>1, <1>2, <1>3, RaftNow
  <2>2. st \in RaftNodeType
    BY <1>2, <2>1 DEF NodeSteady, RaftNodeType
  <2> QED
    BY <1>2, <1>3, <2>2 DEF NodeSteady
<1>5. new = [i \in 1 .. NodeCount - 1 |-> M(i)]
  BY DEF VoteRequests
<1>6. \A i \in 1 .. NodeCount - 1 : /\ M(i) \in S /\ M(i).from = n /\ M(i).to = Others(n)[i]
                                    /\ M(i).term = st.term /\ M(i).type = "RequestVote"
  OBVIOUS
<1> HIDE DEF st, M, S
<1>7. new \in [1 .. NodeCount - 1 -> S] /\ NodeCount - 1 \in Nat
  BY <1>5, <1>6 DEF RaftAssumption
<1>8. new \in Seq(S)
  BY <1>7, FunctionIsSequence
<1>9. DOMAIN new = 1 .. NodeCount - 1 /\ \A i \in 1 .. NodeCount - 1 : new[i] = M(i)
  BY <1>5
<1> HIDE DEF new
<1>10. IsQueue(new)
  <2>1. \A k \in DOMAIN new : new[k].from \in Nodes /\ new[k].to \in Nodes /\ new[k].term \in Nat
    BY <1>2, <1>3, <1>6, <1>9, OthersAreAll
  <2> QED
    BY <1>8, <2>1 DEF IsQueue
<1>11. Longer(raftQueue, raftQueue', new)
  BY <1>1, <1>10, RaftNow, QueueLonger
<1>12. \A i \in DOMAIN new : /\ i \in Nat \ {0} /\ new[i].type = "RequestVote"
                             /\ new[i].from = n /\ new[i].to = Others(n)[i]
                             /\ new[i].term = st.term
  BY <1>6, <1>9
<1>13. \A i \in DOMAIN new : \A c, x, t :
           Pending(new[i], c, x, t) <=> c = n /\ x = Others(n)[i] /\ t = st.term
  BY <1>12 DEF Pending, Asks, Grants
<1>14. md[n] = st /\ DOMAIN md = Nodes
  BY RaftNow
<1>15. Orderly(md, raftQueue, commands)
  <2>1. st.term \in Nat /\ raftNode[n].term <= st.term /\ commands \in Nat
    BY <1>2, <1>3, RaftNow
  <2>2. commands <= commands
    BY <2>1
  <2> QED
    BY <2>1, <2>2, RaftNow, OrderlyMoved
<1> HIDE DEF md
\* Nobody has heard of the term.
<1>16. \A k \in DOMAIN raftQueue : \A x : ~Pending(raftQueue[k], n, x, st.term)
  <2> SUFFICES ASSUME NEW k \in DOMAIN raftQueue, NEW x, Pending(raftQueue[k], n, x, st.term)
               PROVE  FALSE
    OBVIOUS
  <2>1. Wellformed(raftQueue[k], raftNode, commands)
    BY RaftNow DEF Orderly
  <2>2. st.term <= raftNode[n].term
    BY <2>1 DEF Pending, Asks, Grants, Wellformed
  <2> QED
    BY <1>2, <1>3, <2>2
<1>17. /\ \A i \in DOMAIN new : Wellformed(new[i], md, commands)
       /\ \A c, x, t : \A i, j \in DOMAIN new :
              Pending(new[i], c, x, t) /\ Pending(new[j], c, x, t) => i = j
       /\ \A c, x, t : \A i \in DOMAIN new, k \in DOMAIN raftQueue :
              ~(Pending(new[i], c, x, t) /\ Pending(raftQueue[k], c, x, t))
  <2>1. ASSUME NEW i \in DOMAIN new PROVE Wellformed(new[i], md, commands)
    <3>1. Others(n)[i] \in Nodes /\ Others(n)[i] # n
      BY <1>9, OthersAreAll
    <3>2. st.term \in 0 .. MaxTerm /\ st.term <= st.term
      BY <1>1, <1>2, <1>3, RaftNow
    <3> QED
      BY <1>12, <1>14, <3>1, <3>2 DEF Wellformed
  <2>2. \A c, x, t : \A i, j \in DOMAIN new :
            Pending(new[i], c, x, t) /\ Pending(new[j], c, x, t) => i = j
    BY <1>9, <1>13, OthersAreAll
  <2>3. \A c, x, t : \A i \in DOMAIN new, k \in DOMAIN raftQueue :
            ~(Pending(new[i], c, x, t) /\ Pending(raftQueue[k], c, x, t))
    BY <1>13, <1>16
  <2> QED
    BY <2>1, <2>2, <2>3
<1>18. /\ Orderly(md, raftQueue', commands)
       /\ \A c, t : Uncast(raftQueue', c, t) = Uncast(raftQueue, c, t) \cup Uncast(new, c, t)
  BY <1>11, <1>12, <1>15, <1>17, OrderlyMore
<1>19. 1 <= Cardinality(Nodes \ Uncast(raftQueue', n, st.term))
  <2>1. n \notin Uncast(raftQueue', n, st.term)
    <3>1. n \notin Uncast(raftQueue, n, st.term)
      BY <1>16 DEF Uncast
    <3>2. n \notin Uncast(new, n, st.term)
      BY <1>9, <1>13, OthersAreAll DEF Uncast
    <3> QED
      BY <1>18, <3>1, <3>2
  <2> DEFINE T == Nodes \ Uncast(raftQueue', n, st.term)
  <2>2. {n} \subseteq T /\ T \subseteq Nodes
    BY <2>1
  <2> HIDE DEF T
  <2>3. Cardinality({n}) <= Cardinality(T)
    BY <2>2, FewerVoters
  <2>4. Cardinality({n}) = 1
    BY FS_Singleton
  <2> QED
    BY <2>3, <2>4 DEF T
<1>20. \A c \in Nodes \ {n} : \A t : Uncast(raftQueue', c, t) \subseteq Uncast(raftQueue, c, t)
  <2>1. \A c \in Nodes \ {n} : \A t : Uncast(new, c, t) = {}
    BY <1>13 DEF Uncast
  <2> QED
    BY <1>18, <2>1
<1>21. /\ raftNode[n].term <= st.term /\ commands' \in commands .. MaxCommands
       /\ commands' = commands
  BY <1>1, <1>2, <1>3, RaftNow
<1>22. Moves(n, st)
  BY <1>1, <1>3, <1>4, <1>18, <1>19, <1>20, <1>21 DEF Moves, md
<1>23. /\ leaderID' \in Nodes \cup {None} /\ elected' \subseteq (1 .. MaxTerm) \X Nodes
       /\ failures' \in 0 .. MaxFailures
  BY <1>1 DEF RaftTyped
<1> QED
  BY <1>22, <1>23, RaftMoves

(* The node stays as it is, and what is asked and granted does not grow.   *)
LEMMA RaftStays ==
    ASSUME RaftAssumption, RaftTyped, NEW n \in Nodes, raftNode' = raftNode,
           commands' = commands, leaderID' = leaderID, elected' = elected, failures' = failures,
           Orderly(raftNode, raftQueue', commands),
           \A c, t : Uncast(raftQueue', c, t) \subseteq Uncast(raftQueue, c, t)
    PROVE  RaftTyped'
<1> DEFINE st == raftNode[n]
<1>1. /\ NodeSteady(st, commands) /\ Tallied(raftNode, raftQueue, n) /\ st.term \in Nat
      /\ raftNode = [raftNode EXCEPT ![n] = st] /\ commands \in 0 .. MaxCommands
      /\ st.votes \in 0 .. NodeCount /\ NodeCount \in Nat /\ MaxCommands \in Nat
  BY RaftNow, SteadyParts DEF RaftAssumption
<1>2. st.role = "candidate" => st.votes <= Cardinality(Nodes \ Uncast(raftQueue', n, st.term))
  <2> DEFINE t == st.term
             a == Cardinality(Nodes \ Uncast(raftQueue, n, t))
             b == Cardinality(Nodes \ Uncast(raftQueue', n, t))
  <2>1. a <= b /\ a \in Nat /\ b \in Nat
    BY UncastFewer
  <2>2. st.role = "candidate" => st.votes <= a
    BY <1>1 DEF Tallied
  <2> HIDE DEF a, b
  <2>3. st.role = "candidate" => st.votes <= b
    BY <1>1, <2>1, <2>2
  <2> QED
    BY <2>3 DEF b
<1>3. commands' \in commands .. MaxCommands /\ st.term <= st.term
  BY <1>1
<1>4. Moves(n, st)
  BY <1>1, <1>2, <1>3 DEF Moves
<1> QED
  BY <1>4, RaftMoves DEF RaftTyped

LEMMA HeartbeatTimeoutTyped ==
    ASSUME RaftAssumption, RaftTyped, NEW n \in Nodes, HeartbeatTimeout(n)
    PROVE  RaftTyped'
<1>1. /\ raftQueue' = raftQueue \o Heartbeats(n, raftNode[n]) /\ raftNode' = raftNode
      /\ leaderID' = leaderID /\ elected' = elected /\ commands' = commands
      /\ failures' = failures
  BY DEF HeartbeatTimeout, raftObservers
<1>2. /\ Orderly(raftNode, raftQueue', commands)
      /\ \A c, t : Uncast(raftQueue', c, t) \subseteq Uncast(raftQueue, c, t)
  BY <1>1, RaftNow, OrderlyHeartbeats
<1> QED
  BY <1>1, <1>2, RaftStays

LEMMA LoseMessageTyped ==
    ASSUME RaftAssumption, RaftTyped, LoseMessage
    PROVE  RaftTyped'
<1>1. /\ raftQueue # <<>> /\ raftQueue' = Tail(raftQueue) /\ raftNode' = raftNode
      /\ leaderID' = leaderID /\ elected' = elected /\ commands' = commands
      /\ failures' = failures
  BY DEF LoseMessage, raftObservers
<1>2. /\ Orderly(raftNode, raftQueue', commands)
      /\ \A c, t : Uncast(raftQueue', c, t) \subseteq Uncast(raftQueue, c, t)
      /\ Head(raftQueue).to \in Nodes
  BY <1>1, RaftNow, OrderlyTail DEF Wellformed
<1> QED
  BY <1>1, <1>2, RaftStays

\* The first message m is taken, of a node n that stays or moves on.
LEMMA RaftHead ==
    ASSUME RaftAssumption, RaftTyped, raftQueue # <<>>, NEW m, m = Head(raftQueue)
    PROVE  /\ m.from \in Nodes /\ m.to \in Nodes /\ m.term \in 0 .. MaxTerm /\ m.term \in Nat
           /\ Wellformed(m, raftNode, commands) /\ Orderly(raftNode, Tail(raftQueue), commands)
           /\ \A c, t : Uncast(Tail(raftQueue), c, t) \subseteq Uncast(raftQueue, c, t)
           /\ \A c, n, t : n \in Nodes /\ Pending(m, c, n, t) =>
                  n \in Uncast(raftQueue, c, t) /\ n \notin Uncast(Tail(raftQueue), c, t)
           /\ \A c, n, t : Pending(m, c, n, t) =>
                  \A k \in DOMAIN Tail(raftQueue) : ~Pending(Tail(raftQueue)[k], c, n, t)
<1>1. Orderly(raftNode, raftQueue, commands) /\ IsQueue(raftQueue)
  BY RaftNow
<1>2. /\ Wellformed(m, raftNode, commands) /\ Orderly(raftNode, Tail(raftQueue), commands)
      /\ \A c, t : Uncast(Tail(raftQueue), c, t) \subseteq Uncast(raftQueue, c, t)
      /\ \A c, n, t : Pending(m, c, n, t) =>
             \A k \in DOMAIN Tail(raftQueue) : ~Pending(Tail(raftQueue)[k], c, n, t)
  BY <1>1, OrderlyTail
<1>3. m = raftQueue[1] /\ 1 \in DOMAIN raftQueue
  BY <1>1, EmptyOrHead
<1>4. \A c, n, t : n \in Nodes /\ Pending(m, c, n, t) =>
          n \in Uncast(raftQueue, c, t) /\ n \notin Uncast(Tail(raftQueue), c, t)
  BY <1>2, <1>3 DEF Uncast
<1>5. m.term \in 0 .. MaxTerm /\ m.from \in Nodes /\ m.to \in Nodes
  BY <1>2 DEF Wellformed
<1>6. m.term \in Nat
  BY <1>5, RaftNow
<1> QED
  BY <1>2, <1>4, <1>5, <1>6

LEMMA FollowTyped ==
    ASSUME NEW st, NEW cm, NodeSteady(st, cm), NEW t \in 0 .. MaxTerm
    PROVE  /\ NodeSteady(Follow(st, t), cm) /\ Follow(st, t).role = "follower"
           /\ Follow(st, t).term = t /\ Follow(st, t).log = st.log
           /\ Follow(st, t).commit = st.commit
<1> DEFINE f == Follow(st, t)
<1>1. st \in RaftNodeType /\ Len(st.log) <= cm
  BY DEF NodeSteady
<1>2. /\ f \in RaftNodeType /\ f.role = "follower" /\ f.term = t /\ f.log = st.log
      /\ f.commit = st.commit
  BY <1>1 DEF Follow, RaftNodeType
<1> QED
  BY <1>1, <1>2 DEF NodeSteady

(* A candidate keeps the votes it has.                                     *)
LEMMA VotesStay ==
    ASSUME RaftAssumption, RaftTyped, NEW n \in Nodes, NEW st, NEW r,
           st.role = "candidate" =>
               raftNode[n].role = "candidate" /\ st.votes = raftNode[n].votes
                   /\ st.term = raftNode[n].term,
           \A c, t : Uncast(r, c, t) \subseteq Uncast(raftQueue, c, t)
    PROVE  st.role = "candidate" => st.votes <= Cardinality(Nodes \ Uncast(r, n, st.term))
<1> SUFFICES ASSUME st.role = "candidate"
             PROVE  st.votes <= Cardinality(Nodes \ Uncast(r, n, st.term))
  OBVIOUS
<1> DEFINE t == st.term
           a == Cardinality(Nodes \ Uncast(raftQueue, n, t))
           b == Cardinality(Nodes \ Uncast(r, n, t))
<1>1. /\ raftNode[n].role = "candidate" /\ st.votes = raftNode[n].votes
      /\ raftNode[n].votes \in 0 .. NodeCount /\ NodeCount \in Nat
      /\ Tallied(raftNode, raftQueue, n) /\ st.term = raftNode[n].term
  BY RaftNow, SteadyParts
<1>2. a <= b /\ a \in Nat /\ b \in Nat
  BY UncastFewer
<1>3. st.votes <= a /\ st.votes \in Nat
  BY <1>1 DEF Tallied
<1> HIDE DEF a, b
<1>4. st.votes <= b
  BY <1>2, <1>3
<1> QED
  BY <1>4 DEF b

LEMMA RequestVoteTyped ==
    ASSUME RaftAssumption, RaftTyped, HandleRequestVote
    PROVE  RaftTyped'
<1> DEFINE m == Head(raftQueue)
           n == m.to
           old == raftNode[n]
           st == IF m.term > old.term THEN Follow(old, m.term) ELSE old
           granted == MayVote(m, st)
           st2 == IF granted THEN [st EXCEPT !.votedFor = m.from] ELSE st
           reply == [type |-> "RequestVoteReply", from |-> n, to |-> m.from,
                     term |-> st.term, granted |-> granted]
           md == [raftNode EXCEPT ![n] = st2]
           q == Tail(raftQueue)
<1>1. /\ raftQueue # <<>> /\ m.type = "RequestVote" /\ raftNode' = md
      /\ raftQueue' = Append(q, reply)
      /\ leaderID' = leaderID /\ elected' = elected /\ commands' = commands
      /\ failures' = failures
  BY DEF HandleRequestVote, Handle, raftObservers
<1>2. /\ m.from \in Nodes /\ n \in Nodes /\ m.term \in 0 .. MaxTerm /\ m.term \in Nat
      /\ Wellformed(m, raftNode, commands) /\ Orderly(raftNode, q, commands)
      /\ \A c, t : Uncast(q, c, t) \subseteq Uncast(raftQueue, c, t)
      /\ \A c, x, t : x \in Nodes /\ Pending(m, c, x, t) => x \in Uncast(raftQueue, c, t)
      /\ \A c, x, t : Pending(m, c, x, t) => \A k \in DOMAIN q : ~Pending(q[k], c, x, t)
  BY <1>1, RaftHead
<1>3. m.from # n /\ m.term <= raftNode[m.from].term
  BY <1>1, <1>2 DEF Wellformed
<1>4. NodeSteady(old, commands) /\ old.term \in Nat /\ commands \in Nat /\ DOMAIN raftNode = Nodes
  BY <1>2, RaftNow
<1>5. /\ NodeSteady(st, commands) /\ st.term >= m.term /\ st.term >= old.term
      /\ st.role = "candidate" => st = old
  <2>1. CASE m.term > old.term
    BY <1>2, <1>4, <2>1, FollowTyped
  <2>2. CASE ~(m.term > old.term)
    BY <1>2, <1>4, <2>2
  <2> QED
    BY <2>1, <2>2
<1> HIDE DEF st
<1>6. st.term \in 0 .. MaxTerm /\ st.term \in Nat
  BY <1>5, SteadyParts, RaftNow
<1> HIDE DEF granted
<1>7. /\ NodeSteady(st2, commands) /\ st2.term = st.term /\ st2.role = st.role
      /\ st2.votes = st.votes
  <2>1. CASE granted
    <3>1. /\ st2 \in RaftNodeType /\ st2.term = st.term /\ st2.role = st.role
          /\ st2.votes = st.votes /\ st2.log = st.log /\ st2.next = st.next
      BY <1>2, <1>5, <2>1 DEF NodeSteady, RaftNodeType
    <3> QED
      BY <1>5, <3>1 DEF NodeSteady
  <2>2. CASE ~granted
    BY <1>5, <2>2
  <2> QED
    BY <2>1, <2>2
<1> HIDE DEF st2
<1>8. md[n] = st2 /\ md[m.from] = raftNode[m.from]
  BY <1>2, <1>3, <1>4
<1>9. Orderly(md, q, commands)
  <2>1. /\ st2.term \in Nat /\ raftNode[n].term <= st2.term /\ commands <= commands
    BY <1>4, <1>5, <1>6, <1>7
  <2> QED
    BY <1>2, <1>4, <2>1, OrderlyMoved
<1>10. granted => st.term = m.term
  BY <1>2, <1>5, <1>6 DEF granted, MayVote
<1>11. /\ reply.type = "RequestVoteReply" /\ reply.from = n /\ reply.to = m.from
       /\ reply.term = st.term /\ reply.granted = granted
  OBVIOUS
<1>12. granted \in BOOLEAN
  BY DEF granted, MayVote
<1> HIDE DEF reply
<1>13. Wellformed(reply, md, commands)
  <2>1. granted => st.term <= md[m.from].term
    BY <1>3, <1>8, <1>10
  <2> QED
    BY <1>2, <1>3, <1>6, <1>11, <1>12, <2>1 DEF Wellformed
<1>14. \A c, x, t : Pending(reply, c, x, t) => x \in Nodes /\ Pending(m, c, x, t)
  BY <1>1, <1>2, <1>10, <1>11 DEF Pending, Asks, Grants
<1> HIDE DEF md, q
<1>15. /\ Orderly(md, raftQueue', commands)
       /\ \A c, t : Uncast(raftQueue', c, t) \subseteq
                        Uncast(q, c, t) \cup {x \in Nodes : Pending(reply, c, x, t)}
  <2>1. reply.term \in Nat
    BY <1>6, <1>11
  <2>2. \A c, x, t : Pending(reply, c, x, t) => \A k \in DOMAIN q : ~Pending(q[k], c, x, t)
    BY <1>2, <1>14
  <2> QED
    BY <1>1, <1>9, <1>13, <2>1, <2>2, OrderlyAppend
<1>16. \A c, t : Uncast(raftQueue', c, t) \subseteq Uncast(raftQueue, c, t)
  BY <1>2, <1>14, <1>15
<1>17. st2.role = "candidate" => st2.votes <= Cardinality(Nodes \ Uncast(raftQueue', n, st2.term))
  <2>1. st2.role = "candidate" =>
            old.role = "candidate" /\ st2.votes = old.votes /\ st2.term = old.term
    BY <1>5, <1>7
  <2> QED
    BY <1>2, <1>16, <2>1, VotesStay
<1>18. raftNode[n].term <= st2.term /\ commands' \in commands .. MaxCommands
  BY <1>1, <1>4, <1>5, <1>6, <1>7, RaftNow
<1>19. Moves(n, st2)
  BY <1>1, <1>2, <1>7, <1>15, <1>16, <1>17, <1>18 DEF Moves, md
<1> QED
  BY <1>1, <1>19, RaftMoves DEF RaftTyped

(* One vote more, of a node whose vote waited at the head of the queue.    *)
LEMMA VoteTyped ==
    ASSUME RaftAssumption, RaftTyped, raftQueue # <<>>, NEW m, m = Head(raftQueue),
           m.type = "RequestVoteReply", m.granted, raftNode[m.to].role = "candidate",
           m.term = raftNode[m.to].term
    PROVE  raftNode[m.to].votes + 1
               <= Cardinality(Nodes \ Uncast(Tail(raftQueue), m.to, m.term))
<1> DEFINE n == m.to
           t == m.term
           old == Nodes \ Uncast(raftQueue, n, t)
           new == Nodes \ Uncast(Tail(raftQueue), n, t)
<1>1. Pending(m, n, m.from, t) /\ m.from \in Nodes /\ n \in Nodes
  BY RaftHead DEF Pending, Grants
<1>2. /\ m.from \notin old /\ m.from \in new
      /\ Uncast(Tail(raftQueue), n, t) \subseteq Uncast(raftQueue, n, t)
  BY <1>1, RaftHead
<1>3. old \cup {m.from} \subseteq new /\ new \subseteq Nodes /\ old \subseteq Nodes
  BY <1>2
<1>4. raftNode[n].votes <= Cardinality(old) /\ raftNode[n].votes \in 0 .. NodeCount
  BY <1>1, RaftNow, SteadyParts DEF Tallied
<1> HIDE DEF old, new
<1>5. /\ IsFiniteSet(old) /\ Cardinality(old) \in Nat /\ Cardinality(new) \in Nat
      /\ Cardinality(old \cup {m.from}) <= Cardinality(new)
  BY <1>3, VotersFinite, FewerVoters
<1>6. Cardinality(old \cup {m.from}) = Cardinality(old) + 1
  BY <1>2, <1>5, FS_AddElement
<1>7. raftNode[n].votes + 1 <= Cardinality(new)
  BY <1>4, <1>5, <1>6, RaftNow
<1> QED
  BY <1>7 DEF new

LEMMA LeadTyped ==
    ASSUME RaftAssumption, NEW cm \in 0 .. MaxCommands, NEW st, NodeSteady(st, cm), st.term >= 1
    PROVE  NodeSteady(Lead(st), cm) /\ Lead(st).role = "leader" /\ Lead(st).term = st.term
<1> DEFINE l == Lead(st)
           next == [i \in Nodes |-> Len(st.log) + 1]
           match == [i \in Nodes |-> 0]
<1>1. /\ st \in RaftNodeType /\ Len(st.log) <= cm /\ Len(st.log) \in Nat /\ cm \in Nat
      /\ MaxCommands \in Nat
  BY SteadyParts DEF RaftAssumption
<1>2. \A i \in Nodes : next[i] \in 1 .. cm + 1 /\ next[i] \in 0 .. MaxCommands + 1
  BY <1>1
<1>3. next \in [Nodes -> 0 .. MaxCommands + 1] /\ match \in [Nodes -> 0 .. MaxCommands]
  BY <1>1, <1>2
<1>4. l = [st EXCEPT !.role = "leader", !.next = next, !.match = match]
  BY DEF Lead
<1> HIDE DEF next, match, l
<1>5. /\ l \in RaftNodeType /\ l.role = "leader" /\ l.term = st.term /\ l.next = next
      /\ l.log = st.log
  BY <1>1, <1>3, <1>4 DEF RaftNodeType
<1>6. NodeSteady(l, cm)
  BY <1>1, <1>2, <1>5 DEF NodeSteady
<1> QED
  BY <1>5, <1>6 DEF l

LEMMA RequestVoteReplyTyped ==
    ASSUME RaftAssumption, RaftTyped, HandleRequestVoteReply
    PROVE  RaftTyped'
<1> DEFINE m == Head(raftQueue)
           n == m.to
           st == raftNode[n]
           more == [st EXCEPT !.votes = @ + 1]
           counted == st.role = "candidate" /\ m.granted /\ m.term = st.term
           wins == counted /\ Majority(more.votes)
           st2 == IF st.role = "candidate" /\ m.term > st.term THEN Follow(st, m.term)
                  ELSE IF wins THEN Lead(more)
                  ELSE IF counted THEN more ELSE st
           q == Tail(raftQueue)
<1>1. /\ raftQueue # <<>> /\ m.type = "RequestVoteReply"
      /\ raftNode' = [raftNode EXCEPT ![n] = st2]
      /\ raftQueue' = q \o (IF wins THEN Heartbeats(n, Lead(more)) ELSE <<>>)
      /\ leaderID' = IF wins THEN n ELSE leaderID
      /\ elected' = IF wins THEN elected \cup {<<st.term, n>>} ELSE elected
      /\ commands' = commands /\ failures' = failures
  BY DEF HandleRequestVoteReply, Handle
<1>2. /\ m.from \in Nodes /\ n \in Nodes /\ m.term \in 0 .. MaxTerm /\ m.term \in Nat
      /\ Orderly(raftNode, q, commands)
      /\ \A c, t : Uncast(q, c, t) \subseteq Uncast(raftQueue, c, t)
  BY <1>1, RaftHead
<1>3. /\ NodeSteady(st, commands) /\ st.term \in Nat /\ st.term \in 0 .. MaxTerm
      /\ commands \in Nat /\ commands \in 0 .. MaxCommands /\ st.votes \in 0 .. NodeCount
      /\ st.role # "follower" => st.term >= 1
  BY <1>2, RaftNow, SteadyParts
<1>4. counted =>
          /\ st.votes + 1 <= Cardinality(Nodes \ Uncast(q, n, st.term))
          /\ st.votes + 1 \in 0 .. NodeCount
  <2> SUFFICES ASSUME counted
               PROVE  /\ st.votes + 1 <= Cardinality(Nodes \ Uncast(q, n, st.term))
                      /\ st.votes + 1 \in 0 .. NodeCount
    OBVIOUS
  <2>1. st.votes + 1 <= Cardinality(Nodes \ Uncast(q, n, st.term))
    BY <1>1, VoteTyped
  <2>2. /\ Cardinality(Nodes \ Uncast(q, n, st.term)) \in Nat
        /\ Cardinality(Nodes \ Uncast(q, n, st.term)) <= NodeCount
    BY UncastFewer
  <2> QED
    BY <1>3, <2>1, <2>2, RaftNow
<1>5. /\ more.role = st.role /\ more.term = st.term /\ more.votes = st.votes + 1
      /\ counted => NodeSteady(more, commands)
  <2>1. /\ more.role = st.role /\ more.term = st.term /\ more.votes = st.votes + 1
        /\ more.log = st.log /\ more.next = st.next
    BY <1>3 DEF NodeSteady, RaftNodeType
  <2>2. counted => more \in RaftNodeType
    BY <1>3, <1>4 DEF NodeSteady, RaftNodeType
  <2> QED
    BY <1>3, <2>1, <2>2 DEF NodeSteady
<1> HIDE DEF more
<1>6. wins => /\ NodeSteady(Lead(more), commands) /\ Lead(more).role = "leader"
              /\ Lead(more).term = st.term
  BY <1>3, <1>5, LeadTyped
<1>7. /\ NodeSteady(st2, commands) /\ st.term <= st2.term
      /\ st2.role = "candidate" =>
             \/ counted /\ st2 = more /\ st2.term = st.term
             \/ st2 = st
  <2>1. CASE st.role = "candidate" /\ m.term > st.term
    BY <1>2, <1>3, <2>1, FollowTyped
  <2>2. CASE ~(st.role = "candidate" /\ m.term > st.term) /\ wins
    BY <1>3, <1>6, <2>2
  <2>3. CASE ~(st.role = "candidate" /\ m.term > st.term) /\ ~wins /\ counted
    BY <1>3, <1>5, <2>3
  <2>4. CASE ~(st.role = "candidate" /\ m.term > st.term) /\ ~wins /\ ~counted
    BY <1>3, <2>4
  <2> QED
    BY <2>1, <2>2, <2>3, <2>4
<1> HIDE DEF st2
<1>8. /\ Orderly(raftNode, raftQueue', commands)
      /\ \A c, t : Uncast(raftQueue', c, t) \subseteq Uncast(q, c, t)
  <2>1. CASE wins
    BY <1>1, <1>2, <1>3, <1>6, <2>1, OrderlyHeartbeats
  <2>2. CASE ~wins
    <3>1. q \o <<>> = q
      <4>1. IsQueue(q)
        BY <1>2 DEF Orderly
      <4>2. PICK S : q \in Seq(S)
        BY <4>1 DEF IsQueue
      <4> HIDE DEF q
      <4> QED
        BY <4>2
    <3> QED
      BY <1>1, <1>2, <2>2, <3>1
  <2> QED
    BY <2>1, <2>2
<1>9. Orderly(raftNode', raftQueue', commands)
  <2>1. st2.term \in Nat /\ raftNode[n].term <= st2.term /\ commands <= commands
    BY <1>3, <1>7, SteadyParts, RaftNow
  <2> QED
    BY <1>1, <1>2, <1>3, <1>8, <2>1, OrderlyMoved
<1>10. \A c, t : Uncast(raftQueue', c, t) \subseteq Uncast(raftQueue, c, t)
  BY <1>2, <1>8
<1>11. st2.role = "candidate" => st2.votes <= Cardinality(Nodes \ Uncast(raftQueue', n, st2.term))
  <2> SUFFICES ASSUME st2.role = "candidate"
               PROVE  st2.votes <= Cardinality(Nodes \ Uncast(raftQueue', n, st2.term))
    OBVIOUS
  <2>1. CASE counted /\ st2 = more
    <3> DEFINE a == Cardinality(Nodes \ Uncast(q, n, st.term))
               b == Cardinality(Nodes \ Uncast(raftQueue', n, st.term))
    <3>1. a <= b /\ a \in Nat /\ b \in Nat
      BY <1>8, UncastFewer
    <3>2. st2.votes <= a /\ st2.votes \in Nat /\ st2.term = st.term
      BY <1>3, <1>4, <1>5, <2>1
    <3> HIDE DEF a, b
    <3>3. st2.votes <= b
      BY <3>1, <3>2
    <3> QED
      BY <3>2, <3>3 DEF b
  <2>2. CASE st2 = st
    BY <1>2, <1>10, <2>2, VotesStay
  <2> QED
    BY <1>7, <2>1, <2>2
<1>12. commands' \in commands .. MaxCommands
  <2>1. commands' = commands
    BY <1>1
  <2>2. commands \in 0 .. MaxCommands /\ commands \in Nat /\ MaxCommands \in Nat
    BY <1>3 DEF RaftAssumption
  <2> QED
    BY <2>1, <2>2
<1>13. Moves(n, st2)
  BY <1>1, <1>2, <1>7, <1>9, <1>10, <1>11, <1>12 DEF Moves
<1>14. /\ leaderID' \in Nodes \cup {None} /\ elected' \subseteq (1 .. MaxTerm) \X Nodes
       /\ failures' \in 0 .. MaxFailures
  <2>1. wins => st.term \in 1 .. MaxTerm
    BY <1>3, RaftNow
  <2> HIDE DEF wins, st
  <2> QED
    BY <1>1, <1>2, <2>1 DEF RaftTyped
<1> QED
  BY <1>13, <1>14, RaftMoves

LEMMA AppendEntriesTyped ==
    ASSUME RaftAssumption, RaftTyped, HandleAppendEntries
    PROVE  RaftTyped'
<1> DEFINE m == Head(raftQueue)
           n == m.to
           st == raftNode[n]
           follower == Follow(st, m.term)
           accepted ==
               /\ m.term >= st.term
               /\ m.prev > 0 =>
                      m.prev \in DOMAIN st.log /\ st.log[m.prev].term = m.prevTerm
           log == IF accepted /\ m.entries # <<>>
                  THEN SubSeq(st.log, 1, m.prev) \o m.entries ELSE st.log
           known == IF m.commit < Len(log) THEN m.commit ELSE Len(log)
           commit == IF m.commit > follower.commit THEN known ELSE follower.commit
           taken == [follower EXCEPT !.log = log, !.commit = commit]
           st2 == IF m.term < st.term THEN st ELSE IF ~accepted THEN follower ELSE taken
           over == Overwrite(Tail(raftQueue), n, st.log, log)
           reply == [type |-> "AppendEntriesReply", from |-> n, to |-> m.from,
                     term |-> IF m.term < st.term THEN st.term ELSE m.term,
                     success |-> accepted]
           q == Tail(raftQueue)
<1>1. /\ raftQueue # <<>> /\ m.type = "AppendEntries"
      /\ raftQueue' = Append(over, reply) /\ leaderID' = leaderID /\ elected' = elected
      /\ commands' = commands /\ failures' = failures
  BY DEF HandleAppendEntries, Handle, raftObservers
<1>2. raftNode' = [raftNode EXCEPT ![n] = st2]
  BY DEF HandleAppendEntries
<1>3. /\ m.from \in Nodes /\ n \in Nodes /\ m.term \in 0 .. MaxTerm /\ m.term \in Nat
      /\ Orderly(raftNode, q, commands) /\ Wellformed(m, raftNode, commands)
      /\ \A c, t : Uncast(q, c, t) \subseteq Uncast(raftQueue, c, t)
  BY <1>1, RaftHead
<1>4. /\ m.entries \in Seq(Entry) /\ m.prev \in Nat /\ m.commit \in Nat
      /\ m.prev + Len(m.entries) <= commands
  BY <1>1, <1>3 DEF Wellformed
<1>5. /\ NodeSteady(st, commands) /\ st.term \in Nat /\ commands \in Nat
      /\ commands \in 0 .. MaxCommands /\ MaxCommands \in Nat
      /\ st.log \in Seq(Entry) /\ Len(st.log) <= commands /\ Len(st.log) \in Nat
      /\ st.commit \in 0 .. MaxCommands
  BY <1>3, RaftNow, SteadyParts DEF RaftAssumption
<1>6. log \in Seq(Entry) /\ Len(log) \in Nat /\ Len(log) <= commands
  <2>1. CASE accepted /\ m.entries # <<>>
    <3> DEFINE L == Len(st.log)  E == Len(m.entries)  front == SubSeq(st.log, 1, m.prev)
    <3>1. m.prev \in 0 .. L
      BY <1>4, <1>5, <2>1
    <3>2. front \in Seq(Entry) /\ Len(front) = m.prev
      BY <1>5, <3>1
    <3> HIDE DEF front
    <3>3. front \o m.entries \in Seq(Entry) /\ Len(front \o m.entries) = m.prev + E
      BY <1>4, <3>2
    <3>4. E \in Nat
      BY <1>4
    <3>5. log = front \o m.entries
      BY <2>1 DEF front
    <3> HIDE DEF log
    <3> QED
      BY <1>4, <3>3, <3>4, <3>5
  <2>2. CASE ~(accepted /\ m.entries # <<>>)
    BY <1>5, <2>2
  <2> QED
    BY <2>1, <2>2
<1> HIDE DEF log
<1>7. /\ NodeSteady(follower, commands) /\ follower.role = "follower" /\ follower.term = m.term
      /\ follower.commit = st.commit
  BY <1>3, <1>5, FollowTyped
<1> HIDE DEF follower
<1>8. commit \in 0 .. MaxCommands
  BY <1>4, <1>5, <1>6, <1>7
<1> HIDE DEF commit, accepted
<1>9. NodeSteady(taken, commands) /\ taken.role = "follower" /\ taken.term = m.term
  <2>1. /\ taken \in RaftNodeType /\ taken.role = "follower" /\ taken.term = m.term
        /\ taken.log = log
    BY <1>6, <1>7, <1>8 DEF NodeSteady, RaftNodeType
  <2> QED
    BY <1>6, <2>1 DEF NodeSteady
<1> HIDE DEF taken
<1>10. /\ NodeSteady(st2, commands) /\ st.term <= st2.term /\ st2.term \in Nat
       /\ st2.role = "candidate" => st2 = st
  <2>1. CASE m.term < st.term
    BY <1>3, <1>5, <2>1
  <2>2. CASE ~(m.term < st.term) /\ ~accepted
    BY <1>3, <1>5, <1>7, <2>2
  <2>3. CASE ~(m.term < st.term) /\ accepted
    BY <1>3, <1>5, <1>9, <2>3
  <2> QED
    BY <2>1, <2>2, <2>3
<1> HIDE DEF st2
<1>11. /\ Orderly(raftNode, over, commands)
       /\ \A c, t : Uncast(over, c, t) \subseteq Uncast(q, c, t)
  BY <1>3, <1>6, OrderlyOverwrite
<1> HIDE DEF over
<1>12. /\ reply.type = "AppendEntriesReply" /\ reply.from = n /\ reply.to = m.from
       /\ reply.term = IF m.term < st.term THEN st.term ELSE m.term
  OBVIOUS
<1> HIDE DEF reply
<1>13. \A c, x, t : ~Pending(reply, c, x, t)
  BY <1>12 DEF Pending, Asks, Grants
<1>14. reply.term \in 0 .. MaxTerm /\ reply.term \in Nat
  BY <1>3, <1>5, <1>12, SteadyParts
<1>15. Wellformed(reply, raftNode, commands)
  BY <1>3, <1>12, <1>14 DEF Wellformed
<1>16. /\ Orderly(raftNode, raftQueue', commands)
       /\ \A c, t : Uncast(raftQueue', c, t) \subseteq
                        Uncast(over, c, t) \cup {x \in Nodes : Pending(reply, c, x, t)}
  <2>1. \A c, x, t : Pending(reply, c, x, t) => \A k \in DOMAIN over : ~Pending(over[k], c, x, t)
    BY <1>13
  <2> QED
    BY <1>1, <1>11, <1>14, <1>15, <2>1, OrderlyAppend
<1>17. \A c, t : Uncast(raftQueue', c, t) \subseteq Uncast(raftQueue, c, t)
  BY <1>3, <1>11, <1>13, <1>16
<1>18. Orderly(raftNode', raftQueue', commands)
  <2>1. commands <= commands
    BY <1>5
  <2> QED
    BY <1>2, <1>3, <1>5, <1>10, <1>16, <2>1, OrderlyMoved
<1>19. st2.role = "candidate" => st2.votes <= Cardinality(Nodes \ Uncast(raftQueue', n, st2.term))
  <2>1. st2.role = "candidate" =>
            st.role = "candidate" /\ st2.votes = st.votes /\ st2.term = st.term
    BY <1>10
  <2> QED
    BY <1>3, <1>17, <2>1, VotesStay
<1>20. commands' \in commands .. MaxCommands
  BY <1>1, <1>5
<1>21. Moves(n, st2)
  BY <1>1, <1>2, <1>3, <1>10, <1>17, <1>18, <1>19, <1>20 DEF Moves
<1> QED
  BY <1>1, <1>21, RaftMoves DEF RaftTyped

(* One index of a leader changes.                                          *)
LEMMA IndexSet ==
    ASSUME NEW cm \in Nat, NEW mc \in Nat, cm <= mc, NEW f \in [Nodes -> 0 .. mc + 1],
           \A i \in Nodes : f[i] \in 1 .. cm + 1, NEW x \in Nodes, NEW v \in 1 .. cm + 1
    PROVE  /\ [f EXCEPT ![x] = v] \in [Nodes -> 0 .. mc + 1]
           /\ \A i \in Nodes : [f EXCEPT ![x] = v][i] \in 1 .. cm + 1
<1>1. v \in 0 .. mc + 1
  OBVIOUS
<1> QED
  BY <1>1

LEMMA AppendEntriesReplyTyped ==
    ASSUME RaftAssumption, RaftTyped, HandleAppendEntriesReply
    PROVE  RaftTyped'
<1> DEFINE m == Head(raftQueue)
           n == m.to
           st == raftNode[n]
           leads == st.role = "leader"
           last == Len(st.log)
           acked == [st EXCEPT !.next[m.from] = last + 1, !.match[m.from] = last]
           copies == 1 + Cardinality({i \in Nodes \ {n} : acked.match[i] >= last})
           commits == leads /\ m.term <= st.term /\ m.success /\ last > 0
                      /\ Majority(copies) /\ st.commit < last
           new == IF commits THEN [acked EXCEPT !.commit = last] ELSE acked
           less == [st EXCEPT !.next[m.from] = @ - 1]
           st2 == IF ~leads THEN st
                  ELSE IF m.term > st.term THEN Follow(st, m.term)
                  ELSE IF m.success THEN new
                  ELSE IF st.next[m.from] > 1 THEN less
                  ELSE st
           q == Tail(raftQueue)
<1>1. /\ raftQueue # <<>> /\ m.type = "AppendEntriesReply"
      /\ raftNode' = [raftNode EXCEPT ![n] = st2]
      /\ leaderID' = IF leads /\ m.term > st.term THEN None ELSE leaderID
      /\ raftQueue' = IF commits THEN WithoutAppends(q, n) \o Heartbeats(n, new) ELSE q
      /\ elected' = elected /\ commands' = commands /\ failures' = failures
  BY DEF HandleAppendEntriesReply, Handle, raftObservers
<1>2. /\ m.from \in Nodes /\ n \in Nodes /\ m.term \in 0 .. MaxTerm /\ m.term \in Nat
      /\ Orderly(raftNode, q, commands)
      /\ \A c, t : Uncast(q, c, t) \subseteq Uncast(raftQueue, c, t)
  BY <1>1, RaftHead
<1>3. /\ NodeSteady(st, commands) /\ st.term \in Nat /\ commands \in Nat
      /\ commands \in 0 .. MaxCommands /\ MaxCommands \in Nat
      /\ st.log \in Seq(Entry) /\ last <= commands /\ last \in Nat
      /\ st.next \in [Nodes -> 0 .. MaxCommands + 1]
      /\ st.match \in [Nodes -> 0 .. MaxCommands]
      /\ leads => \A i \in Nodes : st.next[i] \in 1 .. commands + 1
  BY <1>2, RaftNow, SteadyParts, SMTT(40) DEF RaftAssumption
<1> HIDE DEF copies
<1>4. leads => NodeSteady(acked, commands) /\ acked.role = "leader" /\ acked.term = st.term
  <2> SUFFICES ASSUME leads
               PROVE  NodeSteady(acked, commands) /\ acked.role = "leader" /\ acked.term = st.term
    OBVIOUS
  <2> DEFINE nx == [st.next EXCEPT ![m.from] = last + 1]
             mt == [st.match EXCEPT ![m.from] = last]
  <2>5. last + 1 \in 1 .. commands + 1 /\ last \in 0 .. MaxCommands /\ commands <= MaxCommands
    <3> HIDE DEF last
    <3> QED
      BY <1>3
  <2>6. \A i \in Nodes : st.next[i] \in 1 .. commands + 1
    BY <1>3
  <2>1. /\ \A i \in Nodes : nx[i] \in 1 .. commands + 1
        /\ nx \in [Nodes -> 0 .. MaxCommands + 1]
    <3> HIDE DEF last, st, leads
    <3> QED
      BY <1>2, <1>3, <2>5, <2>6, IndexSet
  <2>2. nx \in [Nodes -> 0 .. MaxCommands + 1] /\ mt \in [Nodes -> 0 .. MaxCommands]
    BY <1>2, <1>3, <2>1, <2>5
  <2>3. acked = [st EXCEPT !.next = nx, !.match = mt]
    BY <1>3 DEF NodeSteady, RaftNodeType
  <2> HIDE DEF nx, mt, acked
  <2>4. /\ acked \in RaftNodeType /\ acked.role = "leader" /\ acked.term = st.term
        /\ acked.next = nx /\ acked.log = st.log
    BY <1>3, <2>2, <2>3 DEF NodeSteady, RaftNodeType
  <2> QED
    BY <1>3, <2>1, <2>4 DEF NodeSteady
<1> HIDE DEF acked
<1>5. leads => NodeSteady(new, commands) /\ new.role = "leader" /\ new.term = st.term
  <2> SUFFICES ASSUME leads
               PROVE  NodeSteady(new, commands) /\ new.role = "leader" /\ new.term = st.term
    OBVIOUS
  <2>1. CASE commits
    <3>1. last \in 0 .. MaxCommands
      BY <1>3
    <3>2. /\ new \in RaftNodeType /\ new.role = acked.role /\ new.term = acked.term
          /\ new.next = acked.next /\ new.log = acked.log
      BY <1>4, <2>1, <3>1 DEF NodeSteady, RaftNodeType
    <3> QED
      BY <1>4, <3>2 DEF NodeSteady
  <2>2. CASE ~commits
    BY <1>4, <2>2
  <2> QED
    BY <2>1, <2>2
<1> HIDE DEF new
<1>6. leads /\ st.next[m.from] > 1 =>
          NodeSteady(less, commands) /\ less.role = "leader" /\ less.term = st.term
  <2> SUFFICES ASSUME leads, st.next[m.from] > 1
               PROVE  NodeSteady(less, commands) /\ less.role = "leader" /\ less.term = st.term
    OBVIOUS
  <2> DEFINE nx == [st.next EXCEPT ![m.from] = @ - 1]
  <2>6. \A i \in Nodes : st.next[i] \in 1 .. commands + 1
    BY <1>3
  <2> DEFINE p == st.next[m.from]
  <2>7. p \in 1 .. commands + 1
    BY <1>2, <2>6
  <2>5. p - 1 \in 1 .. commands + 1 /\ commands <= MaxCommands
    <3>1. p > 1
      OBVIOUS
    <3> HIDE DEF p
    <3> QED
      BY <1>3, <2>7, <3>1
  <2>1. /\ \A i \in Nodes : nx[i] \in 1 .. commands + 1
        /\ nx \in [Nodes -> 0 .. MaxCommands + 1]
    <3> DEFINE f == st.next  v == p - 1
    <3>1. f \in [Nodes -> 0 .. MaxCommands + 1] /\ v \in 1 .. commands + 1
      BY <1>3, <2>5
    <3>2. \A i \in Nodes : f[i] \in 1 .. commands + 1
      BY <2>6
    <3> HIDE DEF f, v
    <3>3. /\ \A i \in Nodes : [f EXCEPT ![m.from] = v][i] \in 1 .. commands + 1
          /\ [f EXCEPT ![m.from] = v] \in [Nodes -> 0 .. MaxCommands + 1]
      BY <1>2, <1>3, <2>5, <3>1, <3>2, IndexSet
    <3>4. nx = [f EXCEPT ![m.from] = v]
      BY DEF f, v
    <3> QED
      BY <3>3, <3>4
  <2>2. nx \in [Nodes -> 0 .. MaxCommands + 1]
    BY <2>1
  <2>3. less = [st EXCEPT !.next = nx]
    BY <1>3 DEF NodeSteady, RaftNodeType
  <2> HIDE DEF nx, less
  <2>4. /\ less \in RaftNodeType /\ less.role = "leader" /\ less.term = st.term
        /\ less.next = nx /\ less.log = st.log
    BY <1>3, <2>2, <2>3 DEF NodeSteady, RaftNodeType
  <2> QED
    BY <1>3, <2>1, <2>4 DEF NodeSteady
<1> HIDE DEF less
<1>7. /\ NodeSteady(st2, commands) /\ st.term <= st2.term /\ st2.term \in Nat
      /\ st2.role = "candidate" => st2 = st
  <2>1. CASE ~leads
    BY <1>3, <2>1
  <2>2. CASE leads /\ m.term > st.term
    BY <1>2, <1>3, <2>2, FollowTyped, SMTT(40)
  <2>3. CASE leads /\ ~(m.term > st.term) /\ m.success
    BY <1>3, <1>5, <2>3
  <2>4. CASE leads /\ ~(m.term > st.term) /\ ~m.success /\ st.next[m.from] > 1
    BY <1>3, <1>6, <2>4
  <2>5. CASE leads /\ ~(m.term > st.term) /\ ~m.success /\ ~(st.next[m.from] > 1)
    BY <1>3, <2>5
  <2> QED
    BY <2>1, <2>2, <2>3, <2>4, <2>5
<1> HIDE DEF st2
<1>8. /\ Orderly(raftNode, raftQueue', commands)
      /\ \A c, t : Uncast(raftQueue', c, t) \subseteq Uncast(q, c, t)
  <2>1. CASE commits
    <3> DEFINE w == WithoutAppends(q, n)
    <3>1. /\ Orderly(raftNode, w, commands)
          /\ \A c, t : Uncast(w, c, t) \subseteq Uncast(q, c, t)
      BY <1>2, OrderlyWithout
    <3> HIDE DEF w, q
    <3>2. NodeSteady(new, commands)
      BY <1>5, <2>1
    <3>3. /\ Orderly(raftNode, w \o Heartbeats(n, new), commands)
          /\ \A c, t : Uncast(w \o Heartbeats(n, new), c, t) \subseteq Uncast(w, c, t)
      BY <1>2, <1>3, <3>1, <3>2, OrderlyHeartbeats
    <3> QED
      BY <1>1, <2>1, <3>1, <3>3 DEF w
  <2>2. CASE ~commits
    BY <1>1, <1>2, <2>2
  <2> QED
    BY <2>1, <2>2
<1>9. Orderly(raftNode', raftQueue', commands)
  <2>1. commands <= commands
    BY <1>3
  <2> QED
    BY <1>1, <1>2, <1>3, <1>7, <1>8, <2>1, OrderlyMoved
<1>10. \A c, t : Uncast(raftQueue', c, t) \subseteq Uncast(raftQueue, c, t)
  BY <1>2, <1>8
<1>11. st2.role = "candidate" => st2.votes <= Cardinality(Nodes \ Uncast(raftQueue', n, st2.term))
  <2>1. st2.role = "candidate" =>
            st.role = "candidate" /\ st2.votes = st.votes /\ st2.term = st.term
    BY <1>7
  <2> QED
    BY <1>2, <1>10, <2>1, VotesStay
<1>12. commands' \in commands .. MaxCommands
  BY <1>1, <1>3
<1>13. Moves(n, st2)
  BY <1>1, <1>2, <1>7, <1>9, <1>10, <1>11, <1>12 DEF Moves
<1>14. /\ leaderID' \in Nodes \cup {None} /\ elected' \subseteq (1 .. MaxTerm) \X Nodes
       /\ failures' \in 0 .. MaxFailures
  BY <1>1 DEF RaftTyped
<1> QED
  BY <1>13, <1>14, RaftMoves

LEMMA SubmitCommandTyped ==
    ASSUME RaftAssumption, RaftTyped, SubmitCommand
    PROVE  RaftTyped'
<1> DEFINE n == leaderID
           old == raftNode[n]
           e == [term |-> old.term, cmd |-> commands + 1]
           log == Append(old.log, e)
           st == [old EXCEPT !.log = log]
           q == WithoutAppends(raftQueue, n)
<1>1. /\ n \in Nodes /\ commands < MaxCommands /\ commands' = commands + 1
      /\ raftNode' = [raftNode EXCEPT ![n] = st]
      /\ raftQueue' = q \o Heartbeats(n, st)
      /\ leaderID' = leaderID /\ elected' = elected /\ failures' = failures
  BY DEF SubmitCommand, RaftTyped
<1>2. /\ NodeSteady(old, commands) /\ old.term \in Nat /\ old.term \in 0 .. MaxTerm
      /\ commands \in Nat /\ old.log \in Seq(Entry) /\ Len(old.log) <= commands
      /\ Len(old.log) \in Nat /\ Orderly(raftNode, raftQueue, commands)
      /\ MaxCommands \in Nat /\ commands' \in Nat /\ commands <= commands'
  BY <1>1, RaftNow, SteadyParts DEF RaftAssumption
<1>3. e \in Entry
  <2>1. commands + 1 \in 1 .. MaxCommands
    BY <1>1, <1>2
  <2> QED
    BY <1>2, <2>1 DEF Entry
<1> HIDE DEF e
<1>4. log \in Seq(Entry) /\ Len(log) = Len(old.log) + 1
  BY <1>2, <1>3
<1> HIDE DEF log
<1>5. /\ NodeSteady(st, commands') /\ st.role = old.role /\ st.term = old.term
      /\ st.votes = old.votes
  <2>1. NodeSteady(old, commands')
    BY <1>2, SteadyLater
  <2>2. /\ st \in RaftNodeType /\ st.role = old.role /\ st.term = old.term
        /\ st.votes = old.votes /\ st.next = old.next /\ st.log = log
    BY <1>4, <2>1 DEF NodeSteady, RaftNodeType
  <2>3. Len(log) <= commands'
    BY <1>1, <1>2, <1>4
  <2> QED
    BY <2>1, <2>2, <2>3 DEF NodeSteady
<1> HIDE DEF st
<1>6. /\ Orderly(raftNode, q, commands)
      /\ \A c, t : Uncast(q, c, t) \subseteq Uncast(raftQueue, c, t)
  BY <1>2, OrderlyWithout
<1> HIDE DEF q
<1>7. Orderly(raftNode', q, commands')
  <2>1. st.term \in Nat /\ raftNode[n].term <= st.term
    BY <1>2, <1>5
  <2> QED
    BY <1>1, <1>2, <1>6, <2>1, OrderlyMoved
<1>8. /\ Orderly(raftNode', raftQueue', commands')
      /\ \A c, t : Uncast(raftQueue', c, t) \subseteq Uncast(q, c, t)
  <2>1. commands' \in 0 .. MaxCommands
    BY <1>1, <1>2
  <2> QED
    BY <1>1, <1>5, <1>7, <2>1, OrderlyHeartbeats
<1>9. \A c, t : Uncast(raftQueue', c, t) \subseteq Uncast(raftQueue, c, t)
  BY <1>6, <1>8
<1>10. st.role = "candidate" => st.votes <= Cardinality(Nodes \ Uncast(raftQueue', n, st.term))
  BY <1>1, <1>5, <1>9, VotesStay
<1>11. commands' \in commands .. MaxCommands /\ raftNode[n].term <= st.term
  BY <1>1, <1>2, <1>5
<1>12. Moves(n, st)
  BY <1>1, <1>5, <1>8, <1>9, <1>10, <1>11 DEF Moves
<1> QED
  BY <1>1, <1>12, RaftMoves DEF RaftTyped

(* A node goes offline, or comes back.                                     *)
LEMMA OnlineTyped ==
    ASSUME RaftAssumption, RaftTyped, NEW n \in Nodes, NEW on \in BOOLEAN,
           raftNode' = [raftNode EXCEPT ![n].online = on], raftQueue' = raftQueue,
           commands' = commands, elected' = elected,
           leaderID' \in Nodes \cup {None}, failures' \in 0 .. MaxFailures
    PROVE  RaftTyped'
<1> DEFINE old == raftNode[n]  st == [old EXCEPT !.online = on]
<1>1. /\ NodeSteady(old, commands) /\ old.term \in Nat /\ commands \in 0 .. MaxCommands
      /\ commands \in Nat /\ MaxCommands \in Nat /\ DOMAIN raftNode = Nodes
      /\ Orderly(raftNode, raftQueue, commands)
  BY RaftNow DEF RaftAssumption
<1>2. raftNode' = [raftNode EXCEPT ![n] = st]
  OBVIOUS
<1>3. /\ NodeSteady(st, commands) /\ st.role = old.role /\ st.term = old.term
      /\ st.votes = old.votes
  <2>1. /\ st \in RaftNodeType /\ st.role = old.role /\ st.term = old.term
        /\ st.votes = old.votes /\ st.next = old.next /\ st.log = old.log
    BY <1>1 DEF NodeSteady, RaftNodeType
  <2> QED
    BY <1>1, <2>1 DEF NodeSteady
<1> HIDE DEF st
<1>4. Orderly(raftNode', raftQueue', commands')
  <2>1. commands <= commands /\ raftNode[n].term <= st.term /\ st.term \in Nat
    BY <1>1, <1>3
  <2>2. Orderly([raftNode EXCEPT ![n] = st], raftQueue, commands)
    BY <1>1, <2>1, OrderlyMoved
  <2> QED
    BY <1>2, <2>2
<1>5. st.role = "candidate" => st.votes <= Cardinality(Nodes \ Uncast(raftQueue', n, st.term))
  <2>1. \A c, t : Uncast(raftQueue', c, t) \subseteq Uncast(raftQueue, c, t)
    OBVIOUS
  <2> QED
    BY <1>3, <2>1, VotesStay
<1>6. commands' \in commands .. MaxCommands /\ raftNode[n].term <= st.term
  BY <1>1, <1>3
<1>7. Moves(n, st)
  BY <1>2, <1>3, <1>4, <1>5, <1>6 DEF Moves
<1> QED
  BY <1>7, RaftMoves DEF RaftTyped

LEMMA RaftTypedStep ==
    ASSUME RaftAssumption, RaftTyped, [RaftNext]_raftVars
    PROVE  RaftTyped'
<1>1. CASE UNCHANGED raftVars
  <2>1. /\ raftNode' = raftNode /\ raftQueue' = raftQueue /\ leaderID' = leaderID
        /\ elected' = elected /\ commands' = commands /\ failures' = failures
    BY <1>1 DEF raftVars, raftObservers
  <2> QED
    BY <2>1 DEF RaftTyped
<1>2. ASSUME NEW n \in Nodes, ElectionTimeout(n) \/ TriggerElection(n) PROVE RaftTyped'
  BY <1>2, StartElectionTyped DEF ElectionTimeout, TriggerElection
<1>3. ASSUME NEW n \in Nodes, RestoreNode(n) PROVE RaftTyped'
  <2>1. /\ raftNode' = [raftNode EXCEPT ![n].online = TRUE] /\ raftQueue' = raftQueue
        /\ leaderID' = leaderID /\ elected' = elected /\ commands' = commands
        /\ failures' = failures
    BY <1>3 DEF RestoreNode, raftObservers
  <2> QED
    BY <2>1, OnlineTyped DEF RaftTyped
<1>4. CASE FailLeader
  <2>1. /\ leaderID \in Nodes /\ raftNode' = [raftNode EXCEPT ![leaderID].online = FALSE]
        /\ raftQueue' = raftQueue /\ leaderID' = None /\ elected' = elected
        /\ commands' = commands /\ failures < MaxFailures /\ failures' = failures + 1
    BY <1>4 DEF FailLeader, RaftTyped
  <2>2. failures' \in 0 .. MaxFailures
    BY <2>1 DEF RaftTyped, RaftAssumption
  <2> QED
    BY <2>1, <2>2, OnlineTyped
<1> QED
  BY <1>1, <1>2, <1>3, <1>4, HeartbeatTimeoutTyped, LoseMessageTyped, RequestVoteTyped,
     RequestVoteReplyTyped, AppendEntriesTyped, AppendEntriesReplyTyped, SubmitCommandTyped
  DEF RaftNext

LEMMA RaftTypedFirst ==
    ASSUME RaftAssumption, RaftInit
    PROVE  RaftTyped
<1> DEFINE next == [i \in Nodes |-> 0]  nn == NewNode
<1>1. /\ raftNode = [n \in Nodes |-> nn] /\ raftQueue = <<>> /\ leaderID = None
      /\ elected = {} /\ commands = 0 /\ failures = 0
  BY DEF RaftInit
<1>2. /\ NodeCount \in Nat /\ MaxTerm \in Nat /\ MaxCommands \in Nat /\ MaxFailures \in Nat
  BY DEF RaftAssumption
<1>3. next \in [Nodes -> 0 .. MaxCommands + 1] /\ next \in [Nodes -> 0 .. MaxCommands]
  BY <1>2
<1>4. nn = [role |-> "follower", term |-> 0, votedFor |-> None, votes |-> 0, log |-> <<>>,
            commit |-> 0, next |-> next, match |-> next, online |-> TRUE]
  BY DEF NewNode
<1> HIDE DEF next, nn
<1>5. nn \in RaftNodeType /\ nn.role = "follower" /\ nn.log = <<>>
  BY <1>2, <1>3, <1>4 DEF RaftNodeType
<1>6. NodeSteady(nn, 0)
  BY <1>5 DEF NodeSteady
<1>7. IsQueue(raftQueue) /\ DOMAIN raftQueue = {}
  <2>1. raftQueue \in Seq({}) /\ DOMAIN raftQueue = {}
    BY <1>1
  <2> QED
    BY <2>1 DEF IsQueue
<1>8. Orderly(raftNode, raftQueue, commands)
  BY <1>7 DEF Orderly
<1>9. \A n \in Nodes : NodeSteady(raftNode[n], commands) /\ Tallied(raftNode, raftQueue, n)
  BY <1>1, <1>5, <1>6 DEF Tallied
<1> QED
  BY <1>1, <1>2, <1>5, <1>8, <1>9 DEF RaftTyped

(* Type correctness: the votes of a candidate never exceed the nodes, nor  *)
(* the indices of a leader or of a message the log there can be.           *)
THEOREM RaftTypeCorrect ==
    ASSUME RaftAssumption
    PROVE  RaftSpec => []RaftTypeOK
<1>1. RaftInit => RaftTyped
  BY RaftTypedFirst
<1>2. RaftTyped /\ [RaftNext]_raftVars => RaftTyped'
  BY RaftTypedStep
<1>3. RaftTyped => RaftTypeOK
  <2> SUFFICES ASSUME RaftTyped PROVE RaftTypeOK
    OBVIOUS
  <2>1. \A k \in DOMAIN raftQueue : raftQueue[k].from \in Nodes /\ raftQueue[k].to \in Nodes
    BY DEF RaftTyped, Orderly, Wellformed
  <2> QED
    BY <2>1 DEF RaftTyped, RaftTypeOK, RaftNodeType
<1> QED
  BY <1>1, <1>2, <1>3, PTL DEF RaftSpec
=============================================================================
