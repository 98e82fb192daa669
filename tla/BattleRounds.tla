---------------------------- MODULE BattleRounds ----------------------------
(***************************************************************************)
(* The rounds of an agent battle.  Nothing drives them: every read of a    *)
(* battle page runs SyncContestRoundLifecycle                              *)
(* (internal/service/agent_battle_service.go), which creates the planned   *)
(* rounds, ends the running one when its time is over, and starts the      *)
(* first due one together with its shared chain                            *)
(* (battle_chain_runtime_service.go, runtime_provision_service.go).  No    *)
(* lock and no transaction protects it, and it runs under the context of   *)
(* the request that called it.                                             *)
(*                                                                         *)
(* A round is a row of agent_battle_rounds; its id is its place in rounds. *)
(* Scores, block heights and the RPC address (stored exactly when a round  *)
(* starts to run) are left out.                                            *)
(***************************************************************************)
EXTENDS Naturals, Sequences, FiniteSets, FiniteSetsExt

CONSTANTS
    Readers,      \* requests that may be in SyncContestRoundLifecycle at once
    Planned,      \* BattleOrchestration.Lifecycle.TotalRounds
    MaxAdmin,     \* bound: rounds an administrator creates
    MaxRoundFaults \* bound: abandoned requests plus failed chain deletions

BattleAssumption ==
    /\ IsFiniteSet(Readers)
    /\ Planned \in Nat \ {0}
    /\ MaxAdmin \in Nat
    /\ MaxRoundFaults \in Nat

VARIABLES
    isBattle,     \* Contest.Type is "agent_battle"
    rounds,       \* the table of rounds
    begun,        \* how many of the planned start times have passed
    chain,        \* the rounds whose chain has a pod in the cluster
    reader,       \* per request: where it is and what it has decided
    seen,         \* per request: the rounds it loaded and those it created
    admins,       \* rounds created by an administrator
    roundFaults,  \* what is used of MaxRoundFaults
    raced         \* observer: two requests were in the synchronisation at once,
                  \* or a round was created while one of them creates rounds

battleVars == <<isBattle, rounds, begun, chain, reader, seen, admins, roundFaults, raced>>

MaxRows == Planned * Cardinality(Readers) + MaxAdmin
MaxNumber == Planned + MaxAdmin

\* start: no time, the planned time of the number, or a time that has passed;
\* over: the end of the running round has passed.
Round == [number : 1 .. MaxNumber, status : {"pending", "running", "finished"},
          start : {"zero", "plan", "past"}, over : BOOLEAN]

NewRow(n, start) == [number |-> n, status |-> "pending", start |-> start, over |-> FALSE]

Reader == [at : {"idle", "creating", "stopping", "finishing", "starting",
                 "booting", "saving", "aborting"},
           run : 0 .. MaxRows, due : 0 .. MaxRows]

IdleReader == [at |-> "idle", run |-> 0, due |-> 0]
Nothing == [i \in {} |-> 0]

BattleInit ==
    /\ isBattle \in BOOLEAN
    /\ rounds = <<>>
    /\ begun = 0
    /\ chain = {}
    /\ reader = [p \in Readers |-> IdleReader]
    /\ seen = [p \in Readers |-> Nothing]
    /\ admins = 0
    /\ roundFaults = 0
    /\ raced = FALSE

-----------------------------------------------------------------------------
(* Time.                                                                   *)
RoundDue ==
    /\ isBattle
    /\ begun < MaxNumber
    /\ begun' = begun + 1
    /\ UNCHANGED <<isBattle, rounds, chain, reader, seen, admins, roundFaults, raced>>

RoundEnds(i) ==
    /\ rounds[i].status = "running" /\ ~rounds[i].over
    /\ rounds' = [rounds EXCEPT ![i].over = TRUE]
    /\ UNCHANGED <<isBattle, begun, chain, reader, seen, admins, roundFaults, raced>>

-----------------------------------------------------------------------------
\* The numbers of the rounds GetCurrentRound, GetLatestRound choose from.
Numbers(status) == {rounds[i].number : i \in {j \in DOMAIN rounds : rounds[j].status \in status}}

(* CreateRound: an administrator's round follows the highest pending or    *)
(* running one, or the highest of all; its start time may be left out.  A  *)
(* given one is taken to keep the order of the plan.                       *)
CreateRound ==
    /\ isBattle /\ admins < MaxAdmin
    /\ LET open == Numbers({"pending", "running"})
           all == Numbers({"pending", "running", "finished"})
           n == IF open # {} THEN Max(open) + 1 ELSE IF all # {} THEN Max(all) + 1 ELSE 1
       IN  \E start \in {"zero", "plan"} : rounds' = Append(rounds, NewRow(n, start))
    /\ admins' = admins + 1
    /\ raced' = (raced \/ \E p \in Readers : reader[p].at = "creating")
    /\ UNCHANGED <<isBattle, begun, chain, reader, seen, roundFaults>>

-----------------------------------------------------------------------------
Due(row) ==
    /\ row.status = "pending"
    /\ row.start = "past" \/ (row.start = "plan" /\ row.number <= begun)

\* The rows of s that satisfy T and have the lowest number; 0 stands for none.
Lowest(s, chosen) ==
    IF chosen = {} THEN {0}
    ELSE {i \in chosen : \A j \in chosen : s[i].number <= s[j].number}

\* Mutant: a due round is started beside the running one.
DecideBoth(p, s) ==
    \E run \in Lowest(s, {i \in DOMAIN s : s[i].status = "running"}),
       due \in Lowest(s, {i \in DOMAIN s : Due(s[i])}) :
        reader' = [reader EXCEPT ![p] =
            IF run # 0 /\ s[run].over THEN [at |-> "stopping", run |-> run, due |-> due]
            ELSE IF due # 0 THEN [at |-> "starting", run |-> 0, due |-> due]
            ELSE IdleReader]

\* Mutant: an expired round is left to the administrator.
DecideNeverFinishes(p, s) ==
    \E run \in Lowest(s, {i \in DOMAIN s : s[i].status = "running"}),
       due \in Lowest(s, {i \in DOMAIN s : Due(s[i])}) :
        reader' = [reader EXCEPT ![p] =
            IF run = 0 /\ due # 0 THEN [at |-> "starting", run |-> 0, due |-> due]
            ELSE IdleReader]

(* What the request does about the rows s it has: end the running round if *)
(* its time is over, then start the first due one if none runs.            *)
Decide(p, s) ==
    \E run \in Lowest(s, {i \in DOMAIN s : s[i].status = "running"}),
       due \in Lowest(s, {i \in DOMAIN s : Due(s[i])}) :
        reader' = [reader EXCEPT ![p] =
            IF run # 0 /\ s[run].over THEN [at |-> "stopping", run |-> run, due |-> due]
            ELSE IF run = 0 /\ due # 0 THEN [at |-> "starting", run |-> 0, due |-> due]
            ELSE IdleReader]

Missing(s) == (1 .. Planned) \ {s[i].number : i \in DOMAIN s}

(* The rows are read; the planned ones are only looked for when there are  *)
(* fewer rows than planned rounds.                                         *)
Load(p) ==
    /\ isBattle
    /\ reader[p].at = "idle"
    /\ IF Len(rounds) < Planned /\ Missing(rounds) # {}
       THEN /\ reader' = [reader EXCEPT ![p].at = "creating"]
            /\ seen' = [seen EXCEPT ![p] = rounds]
       ELSE /\ Decide(p, rounds)
            /\ UNCHANGED seen
    /\ raced' = (raced \/ \E q \in Readers \ {p} : reader[q].at # "idle")
    /\ UNCHANGED <<isBattle, rounds, begun, chain, admins, roundFaults>>

(* One planned round after the other is created: no constraint of the      *)
(* table keeps another request from creating the same number.              *)
CreateNext(p) ==
    /\ reader[p].at = "creating"
    /\ LET row == NewRow(Min(Missing(seen[p])), "plan")
           new == Len(rounds) + 1
           s == [i \in DOMAIN seen[p] \cup {new} |-> IF i = new THEN row ELSE seen[p][i]]
       IN  /\ rounds' = Append(rounds, row)
           /\ IF Missing(s) # {}
              THEN seen' = [seen EXCEPT ![p] = s] /\ UNCHANGED reader
              ELSE seen' = [seen EXCEPT ![p] = Nothing] /\ Decide(p, s)
    /\ UNCHANGED <<isBattle, begun, chain, admins, roundFaults, raced>>

-----------------------------------------------------------------------------
(* The chain of the round that is over is deleted; a failure is logged.    *)
StopChain(p) ==
    /\ reader[p].at = "stopping"
    /\ \/ chain' = chain \ {reader[p].run} /\ UNCHANGED roundFaults
       \/ roundFaults < MaxRoundFaults /\ roundFaults' = roundFaults + 1 /\ UNCHANGED chain
    /\ reader' = [reader EXCEPT ![p].at = "finishing"]
    /\ UNCHANGED <<isBattle, rounds, begun, seen, admins, raced>>

Save(i, status, start, over) ==
    rounds' = [rounds EXCEPT ![i].status = status, ![i].start = start, ![i].over = over]

SaveFinished(p) ==
    /\ reader[p].at = "finishing"
    /\ Save(reader[p].run, "finished", "past", TRUE)
    /\ reader' = [reader EXCEPT ![p] =
           IF reader[p].due = 0 THEN IdleReader
           ELSE [at |-> "starting", run |-> 0, due |-> reader[p].due]]
    /\ UNCHANGED <<isBattle, begun, chain, seen, admins, roundFaults, raced>>

-----------------------------------------------------------------------------
(* StartInstance: a pod of the same name is an error; else the request     *)
(* waits up to two minutes for the new pod.                                *)
CreateChain(p) ==
    /\ reader[p].at = "starting"
    /\ chain' = chain \cup {reader[p].due}
    /\ reader' = [reader EXCEPT ![p].at =
           IF reader[p].due \in chain THEN "aborting" ELSE "booting"]
    /\ UNCHANGED <<isBattle, rounds, begun, seen, admins, roundFaults, raced>>

ChainReady(p) ==
    /\ reader[p].at = "booting"
    /\ reader' = [reader EXCEPT ![p].at = "saving"]
    /\ UNCHANGED <<isBattle, rounds, begun, chain, seen, admins, roundFaults, raced>>

ChainFails(p) ==
    /\ reader[p].at = "booting"
    /\ chain' = chain \ {reader[p].due}
    /\ reader' = [reader EXCEPT ![p].at = "aborting"]
    /\ UNCHANGED <<isBattle, rounds, begun, seen, admins, roundFaults, raced>>

SaveStarted(p) ==
    /\ reader[p].at = "saving"
    /\ Save(reader[p].due, "running", "past", FALSE)
    /\ reader' = [reader EXCEPT ![p] = IdleReader]
    /\ UNCHANGED <<isBattle, begun, chain, seen, admins, roundFaults, raced>>

(* The round goes back to pending without a start time: it is never due    *)
(* again, and nothing in the service gives it one.                         *)
SaveAborted(p) ==
    /\ reader[p].at = "aborting"
    /\ Save(reader[p].due, "pending", "zero", FALSE)
    /\ reader' = [reader EXCEPT ![p] = IdleReader]
    /\ UNCHANGED <<isBattle, begun, chain, seen, admins, roundFaults, raced>>

(* The client goes away, or the database fails: the request ends where it  *)
(* is.  With its context cancelled it cannot even delete the pod.          *)
Abandon(p) ==
    /\ reader[p].at # "idle"
    /\ roundFaults < MaxRoundFaults
    /\ roundFaults' = roundFaults + 1
    /\ reader' = [reader EXCEPT ![p] = IdleReader]
    /\ seen' = [seen EXCEPT ![p] = Nothing]
    /\ UNCHANGED <<isBattle, rounds, begun, chain, admins, raced>>

-----------------------------------------------------------------------------
ReaderStep(p) ==
    \/ Load(p)
    \/ CreateNext(p)
    \/ StopChain(p)
    \/ SaveFinished(p)
    \/ CreateChain(p)
    \/ ChainReady(p)
    \/ ChainFails(p)
    \/ SaveStarted(p)
    \/ SaveAborted(p)

BattleNext ==
    \/ RoundDue
    \/ \E i \in DOMAIN rounds : RoundEnds(i)
    \/ CreateRound
    \/ \E p \in Readers : ReaderStep(p) \/ Abandon(p)

BattleSpec == BattleInit /\ [][BattleNext]_battleVars

(***************************************************************************)
(* Time passes, and somebody keeps reading the battle: without a reader    *)
(* the code ends and starts nothing.                                       *)
(***************************************************************************)
BattleFairness ==
    /\ \A p \in Readers : WF_battleVars(ReaderStep(p))
    /\ \A i \in 1 .. MaxRows : WF_battleVars(i \in DOMAIN rounds /\ RoundEnds(i))

BattleFairSpec == BattleSpec /\ BattleFairness

-----------------------------------------------------------------------------
(* Type correctness.                                                       *)
BattleTypeOK ==
    /\ isBattle \in BOOLEAN
    /\ rounds \in Seq(Round) /\ Len(rounds) <= MaxRows
    /\ begun \in 0 .. MaxNumber
    /\ chain \subseteq DOMAIN rounds
    /\ reader \in [Readers -> Reader]
    /\ \A p \in Readers :
        /\ DOMAIN seen[p] \subseteq DOMAIN rounds
        /\ \A i \in DOMAIN seen[p] : seen[p][i] \in Round
    /\ admins \in 0 .. MaxAdmin
    /\ roundFaults \in 0 .. MaxRoundFaults
    /\ raced \in BOOLEAN

Running == {i \in DOMAIN rounds : rounds[i].status = "running"}
DuePending == {i \in DOMAIN rounds : Due(rounds[i])}

(* As long as no two requests are in the synchronisation at once, the      *)
(* battle is what its plan says, whatever is abandoned or fails: one round *)
(* runs at most, with its chain up until it is over, and after every round *)
(* with a lower number; and each number exists once, unless a round was    *)
(* left without a start time: such a round is the current one for          *)
(* CreateRound once the later ones are finished, and their numbers are     *)
(* given again.  And without a fault a pod belongs to a running round or   *)
(* to a request at work on one.                                            *)
SingleFileBattle ==
    ~raced =>
        /\ \A i, j \in DOMAIN rounds : rounds[i].number = rounds[j].number =>
               i = j \/ \E k \in DOMAIN rounds : rounds[k].start = "zero"
        /\ Cardinality(Running) <= 1
        /\ \A i \in Running :
            /\ rounds[i].over \/ i \in chain
            /\ \A j \in DOMAIN rounds : rounds[j].number < rounds[i].number =>
                   rounds[j].status = "finished" \/ rounds[j].start = "zero"
        /\ roundFaults = 0 => \A i \in chain : i \in Running \/ \E p \in Readers : reader[p].due = i

(* While somebody reads, no round runs for ever and no due round waits for *)
(* ever: it runs and is finished, or it loses its start time.  There are   *)
(* finitely many rounds, so the battle comes to rest.                      *)
RoundsProgress == <>[](Running \cup DuePending = {})
=============================================================================
