----------------------------- MODULE FlagScoring -----------------------------
(***************************************************************************)
(* Scoring of a jeopardy contest, internal/service/contest_score_service.go*)
(* and the score tables of internal/repository/contest_repository.go.      *)
(* A correct flag is scored by a sequence of database statements without a *)
(* transaction: the checks, the dynamic points of the challenge, the score *)
(* row of the team, the ranks, and at last the submission itself, which is *)
(* what all the checks of other requests look at.  The scoreboard is read  *)
(* through a cache that every scored request deletes.                      *)
(*                                                                         *)
(* Only correct flags are modelled: a wrong one stores a submission that   *)
(* nothing here reads.                                                     *)
(***************************************************************************)
EXTENDS Integers, FiniteSets, FiniteSetsExt

CONSTANTS
    Requests,      \* bound: submissions of correct flags; each is made once
    Teams, Challenges,
    None,
    Points, MinPoints, DecayPercent,  \* of every challenge
    FirstBloodBonus, DynamicScore,    \* of the contest
    MaxFaults      \* bound: crashes and failed statements

ASSUME ScoringAssumption ==
    /\ {Points, MinPoints, DecayPercent, FirstBloodBonus, MaxFaults} \subseteq Nat
    /\ DynamicScore \in BOOLEAN
    /\ None \notin Teams \cup Challenges

VARIABLES
    request,  \* the state of each request
    stored,   \* contest_submissions: the requests whose submission is there
    current,  \* contest_challenges.current_points
    score,    \* contest_scores: the row of each team
    ranked,   \* the totals the stored ranks were computed from
    cache,    \* the cached scoreboard, or None
    reader,   \* a scoreboard that was loaded and not yet cached, or None
    faults,
    \* observers, read by no guard
    mixed,    \* teams and challenges with two requests in flight at once
    lost,     \* teams and challenges with a lost request or statement
    crossed   \* a scoreboard was loaded while a request was in flight

tables == <<stored, current, score, ranked>>
board == <<cache, reader>>
observers == <<mixed, lost, crossed>>
vars == <<request, tables, board, faults, observers>>

-----------------------------------------------------------------------------
Step == {"new", "checked", "priced", "counted", "scoring", "first", "added",
         "ranked", "storing", "stored", "done"}
Request == [at: Step, team: Teams \cup {None}, challenge: Challenges \cup {None},
            points: Nat, bonus: BOOLEAN, solves: Nat]
Score == [exists: BOOLEAN, total: Nat, solves: Nat]
Board == [total: [Teams -> Nat], rank: [Teams -> Nat]]

New == [at |-> "new", team |-> None, challenge |-> None, points |-> 0,
        bonus |-> FALSE, solves |-> 0]
NoScore == [exists |-> FALSE, total |-> 0, solves |-> 0]

Init ==
    /\ request = [r \in Requests |-> New]
    /\ stored = {}
    /\ current = [c \in Challenges |-> Points]
    /\ score = [t \in Teams |-> NoScore]
    /\ ranked = [t \in Teams |-> 0]
    /\ cache = None /\ reader = None
    /\ faults = 0
    /\ mixed = {} /\ lost = {} /\ crossed = FALSE

At(r, step) == request[r].at = step
InFlight(r) == request[r].at \notin {"new", "done"}
Goto(r, step) == request' = [request EXCEPT ![r].at = step]

Solves(c) == {r \in stored : request[r].challenge = c}

\* A statement fails, or the process dies: nobody looks at the error.
Loss(lostOnes) ==
    /\ faults < MaxFaults
    /\ faults' = faults + 1
    /\ lost' = lost \cup lostOnes
NoLoss == UNCHANGED <<faults, lost>>
Of(r) == {request[r].team, request[r].challenge}

-----------------------------------------------------------------------------
\* Mutant: the check is missing.
NeverSolved(t, c) == FALSE

HasSolved(t, c) == \E r \in Solves(c) : request[r].team = t

(* SubmitFlag: the team did not solve the challenge yet, or the query      *)
(* fails; the points the challenge is worth now are read along with it.    *)
Check(r, t, c) ==
    /\ At(r, "new")
    /\ \/ ~HasSolved(t, c) /\ NoLoss
       \/ Loss({t, c})
    /\ request' = [request EXCEPT ![r] = [New EXCEPT
           !.at = "checked", !.team = t, !.challenge = c, !.points = current[c]]]
    /\ LET others == {q \in Requests : InFlight(q)} IN
       mixed' = mixed \cup (IF \E q \in others : request[q].team = t THEN {t} ELSE {})
                      \cup (IF \E q \in others : request[q].challenge = c THEN {c} ELSE {})
    /\ crossed' = (crossed \/ reader # None)
    /\ UNCHANGED <<tables, board>>

(* The flag is validated, GetFirstBlood finds nothing, or fails: the bonus.*)
Price(r) ==
    /\ At(r, "checked")
    /\ \E none \in BOOLEAN :
        /\ \/ none = (Solves(request[r].challenge) = {}) /\ NoLoss
           \/ none /\ Loss(Of(r))
        /\ request' = [request EXCEPT
               ![r].at = IF DynamicScore THEN "priced" ELSE "scoring",
               ![r].bonus = none /\ FirstBloodBonus > 0,
               ![r].points = @ + (IF none THEN FirstBloodBonus ELSE 0)]
    /\ UNCHANGED <<tables, board, mixed, crossed>>

\* Mutant: this request's own solve is counted, too.
CountOwnSolve(r) ==
    /\ At(r, "priced")
    /\ NoLoss
    /\ request' = [request EXCEPT ![r].at = "counted",
           ![r].solves = Cardinality(Solves(request[r].challenge)) + 1]
    /\ UNCHANGED <<tables, board, mixed, crossed>>

(* updateDynamicScore: points - decay * solves * points, not below the     *)
(* minimum; this request's own submission is not stored yet, and a failed  *)
(* count is zero.                                                          *)
CountSolves(r) ==
    /\ At(r, "priced")
    /\ \E n \in 0 .. Cardinality(stored) :
        /\ \/ n = Cardinality(Solves(request[r].challenge)) /\ NoLoss
           \/ n = 0 /\ Loss(Of(r))
        /\ request' = [request EXCEPT ![r].at = "counted", ![r].solves = n]
    /\ UNCHANGED <<tables, board, mixed, crossed>>

LeastPoints == IF MinPoints > 0 THEN Min({MinPoints, Points}) ELSE Points
Decayed(n) == (Points * (100 - DecayPercent * n)) \div 100

\* Mutant: the minimum is forgotten.
WorthUnbounded(n) == Decayed(n)

Worth(n) == Max({LeastPoints, Decayed(n)})

UpdateCurrentPoints(r) ==
    /\ At(r, "counted")
    /\ current' = [current EXCEPT ![request[r].challenge] = Worth(request[r].solves)]
    /\ Goto(r, "scoring")
    /\ UNCHANGED <<stored, score, ranked, board, faults, observers>>

(* AddScore: the UPDATE, or -- when it matched no row -- the INSERT, which *)
(* fails on UNIQUE(contest_id, team_id) when another one came first.  The  *)
(* error is ignored.                                                       *)
AddToRow(r) ==
    /\ At(r, "scoring")
    /\ LET t == request[r].team IN
       IF score[t].exists
       THEN /\ score' = [score EXCEPT ![t].total = @ + request[r].points,
                                      ![t].solves = @ + 1]
            /\ Goto(r, "added")
       ELSE Goto(r, "first") /\ UNCHANGED score
    /\ UNCHANGED <<stored, current, ranked, board, faults, observers>>

\* Mutant: a new row starts at zero.
InsertEmptyRow(r) ==
    /\ At(r, "first")
    /\ LET t == request[r].team IN
       score' = IF score[t].exists THEN score
                ELSE [score EXCEPT ![t] = [NoScore EXCEPT !.exists = TRUE]]
    /\ Goto(r, "added")
    /\ UNCHANGED <<stored, current, ranked, board, faults, observers>>

InsertRow(r) ==
    /\ At(r, "first")
    /\ LET t == request[r].team IN
       score' = IF score[t].exists THEN score
                ELSE [score EXCEPT ![t] = [exists |-> TRUE, solves |-> 1,
                                           total |-> request[r].points]]
    /\ Goto(r, "added")
    /\ UNCHANGED <<stored, current, ranked, board, faults, observers>>

(* UpdateRanks recomputes the rank of every row in one statement.          *)
Totals == [t \in Teams |-> score[t].total]

UpdateRanks(r) ==
    /\ At(r, "added")
    /\ ranked' = Totals
    /\ Goto(r, "ranked")
    /\ UNCHANGED <<stored, current, score, board, faults, observers>>

StoreSubmission(r) ==
    /\ At(r, "ranked")
    /\ stored' = stored \cup {r}
    /\ Goto(r, "stored")
    /\ UNCHANGED <<current, score, ranked, board, faults, observers>>

\* Mutant: the cache is left alone.
InvalidateNothing(r) ==
    /\ At(r, "stored")
    /\ Goto(r, "done")
    /\ UNCHANGED <<tables, board, faults, observers>>

Invalidate(r) ==
    /\ At(r, "stored")
    /\ cache' = None
    /\ Goto(r, "done")
    /\ UNCHANGED <<tables, reader, faults, observers>>

-----------------------------------------------------------------------------
(* A write fails: the request goes on.                                     *)
After(step) ==
    CASE step = "counted" -> "scoring"
      [] step \in {"scoring", "first"} -> "added"
      [] step = "added" -> "ranked"
      [] step = "ranked" -> "stored"
      [] step = "stored" -> "done"

StatementFails(r) ==
    /\ request[r].at \in {"counted", "scoring", "first", "added", "ranked", "stored"}
    /\ Loss(Of(r))
    /\ Goto(r, After(request[r].at))
    /\ UNCHANGED <<tables, board, mixed, crossed>>

Crash ==
    /\ Loss(UNION {Of(r) : r \in {q \in Requests : InFlight(q)}})
    /\ request' = [r \in Requests |->
                      IF InFlight(r) THEN [request[r] EXCEPT !.at = "done"] ELSE request[r]]
    /\ reader' = None
    /\ UNCHANGED <<tables, cache, mixed, crossed>>

-----------------------------------------------------------------------------
(* GetScoreboard on a cache miss: the rows are loaded, then cached.        *)
Load ==
    /\ cache = None /\ reader = None
    /\ reader' = [total |-> Totals, rank |-> ranked]
    /\ crossed' = (crossed \/ \E r \in Requests : InFlight(r))
    /\ UNCHANGED <<request, tables, cache, faults, mixed, lost>>

StoreInCache ==
    /\ reader # None
    /\ cache' = reader /\ reader' = None
    /\ UNCHANGED <<request, tables, faults, observers>>

CacheExpires ==
    /\ cache # None
    /\ cache' = None
    /\ UNCHANGED <<request, tables, reader, faults, observers>>

-----------------------------------------------------------------------------
Submit(r) == \E t \in Teams, c \in Challenges : Check(r, t, c)

Progress(r) ==
    \/ Price(r) \/ CountSolves(r) \/ UpdateCurrentPoints(r)
    \/ AddToRow(r) \/ InsertRow(r) \/ UpdateRanks(r)
    \/ StoreSubmission(r) \/ Invalidate(r)

Next ==
    \/ \E r \in Requests : Submit(r) \/ Progress(r) \/ StatementFails(r)
    \/ Crash
    \/ Load \/ StoreInCache \/ CacheExpires

Spec == Init /\ [][Next]_vars
-----------------------------------------------------------------------------
(* Type correctness, and the points of a challenge stay between the        *)
(* minimum and the base.                                                   *)
TypeOK ==
    /\ request \in [Requests -> Request]
    /\ stored \subseteq Requests
    /\ current \in [Challenges -> LeastPoints .. Points]
    /\ score \in [Teams -> Score]
    /\ ranked \in [Teams -> Nat]
    /\ cache \in Board \cup {None}
    /\ reader \in Board \cup {None}
    /\ faults \in 0 .. MaxFaults
    /\ mixed \subseteq Teams \cup Challenges
    /\ lost \subseteq Teams \cup Challenges
    /\ crossed \in BOOLEAN

Quiet(x) == \A r \in Requests :
    InFlight(r) => request[r].team # x /\ request[r].challenge # x
Serial(x) == x \notin mixed \cup lost
SolvedBy(t) == {r \in stored : request[r].team = t}

(* The score row of a team whose members never had two requests in flight  *)
(* is the sum of its submissions.                                          *)
ScoreIsSum ==
    \A t \in Teams : Quiet(t) /\ Serial(t) =>
        /\ score[t].total = MapThenSumSet(LAMBDA r : request[r].points, SolvedBy(t))
        /\ score[t].solves = Cardinality(SolvedBy(t))

(* A challenge gives one first-blood bonus, and a team scores it once, as  *)
(* long as requests for it, or of the team, do not overlap.                *)
AwardedOnce ==
    \A c \in Challenges :
        /\ Serial(c) => Cardinality({r \in Solves(c) : request[r].bonus}) <= 1
        /\ \A t \in Teams : Serial(t) \/ Serial(c) =>
              Cardinality({r \in Solves(c) : request[r].team = t}) <= 1

(* The points of a challenge follow its solves, one solve behind: the      *)
(* second team to solve it earns as much as the first.                     *)
PriceOneBehind ==
    DynamicScore => \A c \in Challenges : Quiet(c) /\ Serial(c) =>
        LET n == Cardinality(Solves(c)) IN
        current[c] = IF n = 0 THEN Points ELSE Worth(n - 1)

(* Once the requests are through, the stored ranks and a cached scoreboard *)
(* show the scores, unless a statement was lost or the board was loaded    *)
(* while a request was in flight.                                          *)
BoardFresh ==
    (\A r \in Requests : ~InFlight(r)) /\ lost = {} =>
        /\ ranked = Totals
        /\ crossed \/ cache = None \/ cache = [total |-> Totals, rank |-> ranked]
=============================================================================
