---------------------------- MODULE ContestProofs ----------------------------
(***************************************************************************)
(* Proofs about FlagScoring for any number of requests, teams, challenges  *)
(* and faults, and for every pricing of the challenges; and about          *)
(* ContestTeams for any number of users, teams and admissions, and every   *)
(* size of a team and of a contest.                                        *)
(***************************************************************************)
EXTENDS MCContest, FiniteSetTheorems, WellFoundedInduction, TLAPS

-----------------------------------------------------------------------------
(* What a challenge is worth is a price between the least and the base.    *)
LEMMA LeastTyped ==
    /\ Points \in Nat /\ MinPoints \in Nat /\ DecayPercent \in Nat
    /\ FirstBloodBonus \in Nat /\ MaxFaults \in Nat
    /\ LeastPoints \in Nat /\ LeastPoints <= Points
<1>1. /\ Points \in Nat /\ MinPoints \in Nat /\ DecayPercent \in Nat
      /\ FirstBloodBonus \in Nat /\ MaxFaults \in Nat
  BY ScoringAssumption
<1>2. Min({MinPoints, Points}) \in {MinPoints, Points} /\ Min({MinPoints, Points}) <= Points
  <2>1. \E x \in {MinPoints, Points} : \A y \in {MinPoints, Points} : x =< y
    BY <1>1
  <2>2. QED
    BY <2>1 DEF Min
<1>3. QED
  BY <1>1, <1>2 DEF LeastPoints

LEMMA WorthTyped ==
    ASSUME NEW n \in Nat
    PROVE  Worth(n) \in LeastPoints .. Points
<1> USE LeastTyped
<1> DEFINE m == Points * (100 - DecayPercent * n)
<1>1. DecayPercent * n \in Nat
  OBVIOUS
<1>2. m \in Int /\ m <= 100 * Points
  <2> DEFINE k == DecayPercent * n
  <2>1. k \in Nat
    BY <1>1
  <2> HIDE DEF k
  <2>2. Points * k \in Nat /\ Points * (100 - k) = 100 * Points - Points * k
    BY <2>1
  <2>3. Points * (100 - k) \in Int /\ Points * (100 - k) <= 100 * Points
    BY <2>2
  <2>4. QED
    BY <2>3 DEF k
<1> HIDE DEF m
<1>3. m \div 100 \in Int /\ m \div 100 <= Points
  BY <1>2
<1>4. Decayed(n) = m \div 100
  BY DEF Decayed, m
<1>5. \E x \in {LeastPoints, Decayed(n)} : \A y \in {LeastPoints, Decayed(n)} : x >= y
  BY <1>3, <1>4
<1>6. /\ Worth(n) \in {LeastPoints, Decayed(n)}
      /\ Worth(n) >= LeastPoints
  BY <1>5 DEF Worth, Max
<1>7. QED
  BY <1>3, <1>4, <1>6

-----------------------------------------------------------------------------
(* Moving a request.                                                       *)
LEMMA NewTyped == New \in Request /\ New.at = "new" /\ ~New.bonus
  BY DEF New, Request, Step

RequestsTyped == request \in [Requests -> Request]

\* Request r goes on to step s, for its own team and challenge.
Onward(r, s) ==
    /\ InFlight(r)
    /\ request' \in [Requests -> Request]
    /\ \A q \in Requests \ {r} : request'[q] = request[q]
    /\ request'[r].at = s
    /\ request'[r].team = request[r].team
    /\ request'[r].challenge = request[r].challenge
    /\ lost \subseteq lost' /\ mixed' = mixed

\* What it was given stays its own.
Keeps(r) ==
    /\ request'[r].points = request[r].points
    /\ request'[r].bonus = request[r].bonus
    /\ request'[r].solves = request[r].solves

LEMMA GotoMoves ==
    ASSUME RequestsTyped, NEW r \in Requests, NEW s \in Step, Goto(r, s)
    PROVE  /\ request' \in [Requests -> Request]
           /\ \A q \in Requests \ {r} : request'[q] = request[q]
           /\ request'[r].at = s
           /\ request'[r].team = request[r].team
           /\ request'[r].challenge = request[r].challenge
           /\ Keeps(r)
<1> DEFINE q == [request[r] EXCEPT !.at = s]
<1>1. request[r] \in Request
  BY DEF RequestsTyped
<1>2. /\ q \in Request /\ q.at = s
      /\ q.team = request[r].team /\ q.challenge = request[r].challenge
      /\ q.points = request[r].points /\ q.bonus = request[r].bonus
      /\ q.solves = request[r].solves
  BY <1>1 DEF Request
<1>3. request' = [request EXCEPT ![r] = q]
  BY DEF Goto
<1> HIDE DEF q
<1>4. request'[r] = q
  BY <1>3 DEF RequestsTyped
<1>5. QED
  BY <1>2, <1>3, <1>4 DEF RequestsTyped, Keeps

LEMMA LossTyped ==
    ASSUME NEW S, faults \in 0 .. MaxFaults
    PROVE  /\ Loss(S) => faults' \in 0 .. MaxFaults /\ lost' = lost \cup S
           /\ NoLoss => faults' = faults /\ lost' = lost
  BY LeastTyped DEF Loss, NoLoss

LEMMA CheckDoes ==
    ASSUME TypeOK, NEW r \in Requests, NEW t \in Teams, NEW c \in Challenges,
           Check(r, t, c)
    PROVE  /\ At(r, "new") /\ request' \in [Requests -> Request]
           /\ \A q \in Requests \ {r} : request'[q] = request[q]
           /\ request'[r].at = "checked" /\ ~request'[r].bonus
           /\ request'[r].team = t /\ request'[r].challenge = c
           /\ faults' \in 0 .. MaxFaults
           /\ lost \subseteq lost' /\ lost' \subseteq lost \cup {t, c}
           /\ ~HasSolved(t, c) \/ {t, c} \subseteq lost'
           /\ mixed \subseteq mixed' /\ mixed' \subseteq mixed \cup {t, c}
           /\ \A q \in Requests : InFlight(q) =>
                 /\ request[q].team = t => t \in mixed'
                 /\ request[q].challenge = c => c \in mixed'
           /\ UNCHANGED <<stored, current, score, ranked, cache, reader>>
           /\ crossed' = (crossed \/ reader # None)
<1>1. request \in [Requests -> Request] /\ faults \in 0 .. MaxFaults
      /\ current[c] \in Nat
  BY LeastTyped DEF TypeOK
<1> DEFINE p == current[c]
           n == [New EXCEPT !.at = "checked", !.team = t, !.challenge = c, !.points = p]
<1> HIDE DEF p
<1>2. /\ n \in Request /\ n.at = "checked" /\ ~n.bonus
      /\ n.team = t /\ n.challenge = c
  BY <1>1, NewTyped DEF Request, Step, p
<1>3. At(r, "new") /\ request' = [request EXCEPT ![r] = n]
  BY DEF Check, p
<1> HIDE DEF n
<1>4. request' \in [Requests -> Request] /\ request'[r] = n
  BY <1>1, <1>2, <1>3
<1>5. \A q \in Requests \ {r} : request'[q] = request[q]
  BY <1>3
<1>6. /\ faults' \in 0 .. MaxFaults
      /\ lost \subseteq lost' /\ lost' \subseteq lost \cup {t, c}
      /\ ~HasSolved(t, c) \/ {t, c} \subseteq lost'
  BY <1>1, LossTyped DEF Check
<1>7. /\ mixed \subseteq mixed' /\ mixed' \subseteq mixed \cup {t, c}
      /\ \A q \in Requests : InFlight(q) =>
            /\ request[q].team = t => t \in mixed'
            /\ request[q].challenge = c => c \in mixed'
  BY DEF Check
<1>8. /\ UNCHANGED <<stored, current, score, ranked, cache, reader>>
      /\ crossed' = (crossed \/ reader # None)
  BY DEF Check, tables, board
<1>9. QED
  BY <1>2, <1>3, <1>4, <1>5, <1>6, <1>7, <1>8

\* The tables and the scoreboard stay.
Elsewhere == UNCHANGED <<stored, current, score, ranked, cache, reader, mixed, crossed>>

LEMMA PriceDoes ==
    ASSUME TypeOK, NEW r \in Requests, Price(r)
    PROVE  \E s \in {"priced", "scoring"} :
           /\ At(r, "checked") /\ Onward(r, s) /\ (s = "priced" <=> DynamicScore)
           /\ request'[r].bonus =>
                 \/ Solves(request[r].challenge) = {}
                 \/ Of(r) \subseteq lost'
           /\ lost' \subseteq lost \cup Of(r)
           /\ faults' \in 0 .. MaxFaults /\ Elsewhere
<1>1. request \in [Requests -> Request] /\ faults \in 0 .. MaxFaults
  BY DEF TypeOK
<1>2. PICK none \in BOOLEAN :
        /\ \/ none = (Solves(request[r].challenge) = {}) /\ NoLoss
           \/ none /\ Loss(Of(r))
        /\ request' = [request EXCEPT
               ![r].at = IF DynamicScore THEN "priced" ELSE "scoring",
               ![r].bonus = none /\ FirstBloodBonus > 0,
               ![r].points = @ + (IF none THEN FirstBloodBonus ELSE 0)]
  BY DEF Price
<1> DEFINE s == IF DynamicScore THEN "priced" ELSE "scoring"
           b == none /\ FirstBloodBonus > 0
           p == request[r].points + (IF none THEN FirstBloodBonus ELSE 0)
           q == [request[r] EXCEPT !.at = s, !.bonus = b, !.points = p]
<1>3. s \in Step /\ s \in {"priced", "scoring"} /\ (s = "priced" <=> DynamicScore)
  BY ScoringAssumption DEF Step
<1>4. b \in BOOLEAN /\ (b => none)
  OBVIOUS
<1>5. p \in Nat /\ request[r] \in Request
  BY <1>1, LeastTyped DEF Request
<1>6. request' = [request EXCEPT ![r] = q]
  BY <1>2
<1> HIDE DEF s, b, p
<1>7. /\ q \in Request /\ q.at = s /\ (q.bonus <=> b)
      /\ q.team = request[r].team /\ q.challenge = request[r].challenge
  BY <1>3, <1>4, <1>5 DEF Request
<1> HIDE DEF q
<1>8. /\ request' \in [Requests -> Request] /\ request'[r] = q
      /\ \A x \in Requests \ {r} : request'[x] = request[x]
  BY <1>1, <1>6, <1>7
<1>9. /\ faults' \in 0 .. MaxFaults
      /\ lost \subseteq lost' /\ lost' \subseteq lost \cup Of(r)
      /\ b => Solves(request[r].challenge) = {} \/ Of(r) \subseteq lost'
  BY <1>1, <1>2, <1>4, LossTyped
<1>10. At(r, "checked") /\ InFlight(r) /\ Elsewhere
  BY DEF Price, At, InFlight, Elsewhere, tables, board
<1>11. Onward(r, s)
  BY <1>7, <1>8, <1>9, <1>10 DEF Onward, Elsewhere
<1>12. QED
  BY <1>3, <1>7, <1>8, <1>9, <1>10, <1>11

LEMMA CountDoes ==
    ASSUME TypeOK, IsFiniteSet(stored), NEW r \in Requests, CountSolves(r)
    PROVE  /\ At(r, "priced") /\ Onward(r, "counted")
           /\ request'[r].bonus = request[r].bonus
           /\ request'[r].points = request[r].points
           /\ \/ request'[r].solves = Cardinality(Solves(request[r].challenge))
              \/ Of(r) \subseteq lost'
           /\ lost' \subseteq lost \cup Of(r)
           /\ faults' \in 0 .. MaxFaults /\ Elsewhere
<1>1. request \in [Requests -> Request] /\ faults \in 0 .. MaxFaults
  BY DEF TypeOK
<1>2. PICK n \in 0 .. Cardinality(stored) :
        /\ \/ n = Cardinality(Solves(request[r].challenge)) /\ NoLoss
           \/ n = 0 /\ Loss(Of(r))
        /\ request' = [request EXCEPT ![r].at = "counted", ![r].solves = n]
  BY DEF CountSolves
<1>3. n \in Nat
  BY FS_CardinalityType
<1> DEFINE q == [request[r] EXCEPT !.at = "counted", !.solves = n]
<1>4. /\ q \in Request /\ q.at = "counted" /\ q.solves = n
      /\ q.bonus = request[r].bonus /\ q.points = request[r].points
      /\ q.team = request[r].team /\ q.challenge = request[r].challenge
  BY <1>1, <1>3 DEF Request, Step
<1>5. request' = [request EXCEPT ![r] = q]
  BY <1>2
<1> HIDE DEF q
<1>6. /\ request' \in [Requests -> Request] /\ request'[r] = q
      /\ \A x \in Requests \ {r} : request'[x] = request[x]
  BY <1>1, <1>4, <1>5
<1>7. /\ faults' \in 0 .. MaxFaults
      /\ lost \subseteq lost' /\ lost' \subseteq lost \cup Of(r)
      /\ n = Cardinality(Solves(request[r].challenge)) \/ Of(r) \subseteq lost'
  BY <1>1, <1>2, LossTyped
<1>8. At(r, "priced") /\ InFlight(r) /\ Elsewhere
  BY DEF CountSolves, At, InFlight, Elsewhere, tables, board
<1>9. QED
  BY <1>4, <1>6, <1>7, <1>8 DEF Onward, Elsewhere

LEMMA FailDoes ==
    ASSUME TypeOK, NEW r \in Requests, StatementFails(r)
    PROVE  \E s \in {"scoring", "added", "ranked", "stored", "done"} :
           /\ s = After(request[r].at) /\ Onward(r, s) /\ Keeps(r)
           /\ request[r].at \in {"counted", "scoring", "first", "added", "ranked", "stored"}
           /\ lost' = lost \cup Of(r) /\ Of(r) # {}
           /\ faults' \in 0 .. MaxFaults /\ Elsewhere
<1>1. /\ request[r].at \in {"counted", "scoring", "first", "added", "ranked", "stored"}
      /\ Goto(r, After(request[r].at)) /\ Loss(Of(r)) /\ Elsewhere
  BY DEF StatementFails, Elsewhere, tables, board
<1>2. PICK s \in {"scoring", "added", "ranked", "stored", "done"} : s = After(request[r].at)
  BY <1>1 DEF After
<1>3. s \in Step /\ RequestsTyped
  BY DEF Step, TypeOK, RequestsTyped
<1>4. /\ request' \in [Requests -> Request]
      /\ \A q \in Requests \ {r} : request'[q] = request[q]
      /\ request'[r].at = s
      /\ request'[r].team = request[r].team
      /\ request'[r].challenge = request[r].challenge
      /\ Keeps(r)
  BY <1>1, <1>2, <1>3, GotoMoves
<1>5. faults' \in 0 .. MaxFaults /\ lost' = lost \cup Of(r) /\ Of(r) # {}
  BY <1>1, LossTyped DEF TypeOK, Of
<1>6. InFlight(r)
  BY <1>1 DEF InFlight
<1>7. QED
  BY <1>1, <1>2, <1>4, <1>5, <1>6 DEF Onward, Elsewhere

LEMMA CrashDoes ==
    ASSUME TypeOK, Crash
    PROVE  /\ request' \in [Requests -> Request]
           /\ \A q \in Requests :
                 /\ InFlight(q) => request'[q].at = "done" /\ Of(q) \subseteq lost'
                 /\ ~InFlight(q) => request'[q] = request[q]
                 /\ request'[q].team = request[q].team
                 /\ request'[q].challenge = request[q].challenge
                 /\ Keeps(q)
           /\ lost \subseteq lost'
           /\ \A x \in lost' \ lost : \E q \in Requests : InFlight(q) /\ x \in Of(q)
           /\ faults' \in 0 .. MaxFaults
           /\ reader' = None
           /\ UNCHANGED <<stored, current, score, ranked, cache, mixed, crossed>>
<1>1. request \in [Requests -> Request] /\ faults \in 0 .. MaxFaults
  BY DEF TypeOK
<1>2. /\ request' = [r \in Requests |->
             IF InFlight(r) THEN [request[r] EXCEPT !.at = "done"] ELSE request[r]]
      /\ reader' = None
      /\ UNCHANGED <<stored, current, score, ranked, cache, mixed, crossed>>
  BY DEF Crash, tables
<1>3. \A r \in Requests :
        /\ [request[r] EXCEPT !.at = "done"] \in Request
        /\ [request[r] EXCEPT !.at = "done"].at = "done"
        /\ [request[r] EXCEPT !.at = "done"].team = request[r].team
        /\ [request[r] EXCEPT !.at = "done"].challenge = request[r].challenge
        /\ [request[r] EXCEPT !.at = "done"].points = request[r].points
        /\ [request[r] EXCEPT !.at = "done"].bonus = request[r].bonus
        /\ [request[r] EXCEPT !.at = "done"].solves = request[r].solves
  BY <1>1 DEF Request, Step
<1>4. \A q \in Requests : request'[q] =
          IF InFlight(q) THEN [request[q] EXCEPT !.at = "done"] ELSE request[q]
  BY <1>2
<1>5. request' \in [Requests -> Request]
  <2>1. \A q \in Requests : request'[q] \in Request
    BY <1>1, <1>3, <1>4
  <2>2. QED
    BY <1>2, <2>1
<1>6. \A q \in Requests :
        /\ InFlight(q) => request'[q].at = "done"
        /\ ~InFlight(q) => request'[q] = request[q]
        /\ request'[q].team = request[q].team
        /\ request'[q].challenge = request[q].challenge
        /\ Keeps(q)
  BY <1>3, <1>4 DEF Keeps
<1>7. Loss(UNION {Of(r) : r \in {q \in Requests : InFlight(q)}})
  BY DEF Crash
<1>8. /\ faults' \in 0 .. MaxFaults
      /\ lost' = lost \cup UNION {Of(r) : r \in {q \in Requests : InFlight(q)}}
  BY <1>1, <1>7, LossTyped
<1>9. QED
  BY <1>2, <1>5, <1>6, <1>8

-----------------------------------------------------------------------------
\* A request names its team and its challenge from the moment it is made.
Known ==
    \A r \in Requests :
        IF At(r, "new") THEN request[r] = New
        ELSE request[r].team \in Teams /\ request[r].challenge \in Challenges

TypeInv == TypeOK /\ Known /\ IsFiniteSet(stored)

LEMMA KnownOnward ==
    ASSUME Known, NEW r \in Requests, NEW s \in Step \ {"new"}, Onward(r, s)
    PROVE  /\ Known' /\ Of(r) \subseteq Teams \cup Challenges
           /\ request[r].team \in Teams /\ request[r].challenge \in Challenges
<1>1. request[r].team \in Teams /\ request[r].challenge \in Challenges
  BY DEF Known, Onward, InFlight, At
<1>2. QED
  BY <1>1 DEF Known, Onward, At, Of

LEMMA BoardTyped ==
    ASSUME score \in [Teams -> Score]
    PROVE  Totals \in [Teams -> Nat]
  BY DEF Totals, Score

LEMMA TypeInit == Init => TypeInv
<1> SUFFICES ASSUME Init PROVE TypeInv
  OBVIOUS
<1>1. IsFiniteSet(stored)
  BY FS_EmptySet DEF Init
<1>2. Known
  BY NewTyped DEF Known, Init, At
<1>3. TypeOK
  <2>1. request \in [Requests -> Request] /\ score \in [Teams -> Score]
    BY NewTyped DEF Init, Score, NoScore
  <2>2. current \in [Challenges -> LeastPoints .. Points] /\ faults \in 0 .. MaxFaults
    BY LeastTyped DEF Init
  <2>3. QED
    BY <2>1, <2>2 DEF Init, TypeOK
<1>4. QED
  BY <1>1, <1>2, <1>3 DEF TypeInv

LEMMA TypeNext == TypeInv /\ [Next]_vars => TypeInv'
<1> SUFFICES ASSUME TypeInv, [Next]_vars PROVE TypeInv'
  OBVIOUS
<1>0. /\ TypeOK /\ Known /\ IsFiniteSet(stored)
      /\ RequestsTyped /\ LeastPoints \in Nat /\ LeastPoints <= Points /\ Points \in Nat
  BY LeastTyped DEF TypeInv, TypeOK, RequestsTyped
\* The tables stay and the request goes on.
<1>on. ASSUME NEW r \in Requests, NEW s \in Step \ {"new"}, Onward(r, s), Elsewhere,
              lost' \subseteq lost \cup Of(r), faults' \in 0 .. MaxFaults
       PROVE  TypeInv'
  <2>1. Known' /\ Of(r) \subseteq Teams \cup Challenges
    BY <1>0, <1>on, KnownOnward
  <2>2. QED
    BY <1>0, <1>on, <2>1 DEF TypeInv, TypeOK, Onward, Elsewhere
\* One write, and the request goes on.
<1>go. ASSUME NEW r \in Requests, NEW s \in Step \ {"new"}, Goto(r, s), InFlight(r),
              stored' \in {stored, stored \cup {r}},
              current' \in [Challenges -> LeastPoints .. Points],
              score' \in [Teams -> Score], ranked' \in [Teams -> Nat],
              cache' \in {cache, None}, UNCHANGED <<reader, faults, observers>>
       PROVE  TypeInv'
  <2>1. Onward(r, s)
    BY <1>0, <1>go, GotoMoves DEF Onward, observers
  <2>2. Known'
    BY <1>0, <1>go, <2>1, KnownOnward
  <2>3. IsFiniteSet(stored')
    BY <1>0, <1>go, FS_AddElement
  <2>4. QED
    BY <1>0, <1>go, <2>1, <2>2, <2>3 DEF TypeInv, TypeOK, Onward, observers
<1>1. ASSUME NEW r \in Requests, Submit(r) PROVE TypeInv'
  <2>1. PICK t \in Teams, c \in Challenges : Check(r, t, c)
    BY <1>1 DEF Submit
  <2>2. Known'
    BY <1>0, <2>1, CheckDoes DEF Known, At
  <2>3. TypeOK'
    <3>1. /\ request' \in [Requests -> Request] /\ faults' \in 0 .. MaxFaults
          /\ lost' \subseteq lost \cup {t, c} /\ mixed' \subseteq mixed \cup {t, c}
          /\ UNCHANGED <<stored, current, score, ranked, cache, reader>>
          /\ crossed' \in BOOLEAN
      BY <1>0, <2>1, CheckDoes DEF TypeOK
    <3>2. QED
      BY <1>0, <3>1 DEF TypeOK
  <2>4. QED
    BY <1>0, <2>1, <2>2, <2>3, CheckDoes DEF TypeInv
<1>2. ASSUME NEW r \in Requests, Price(r) PROVE TypeInv'
  BY <1>0, <1>2, <1>on, PriceDoes DEF Step
<1>3. ASSUME NEW r \in Requests, CountSolves(r) PROVE TypeInv'
  BY <1>0, <1>3, <1>on, CountDoes DEF Step
<1>4. ASSUME NEW r \in Requests, UpdateCurrentPoints(r) PROVE TypeInv'
  <2>1. Worth(request[r].solves) \in LeastPoints .. Points
    BY <1>0, WorthTyped DEF RequestsTyped, Request
  <2>2. current' \in [Challenges -> LeastPoints .. Points]
    BY <1>0, <1>4, <2>1 DEF UpdateCurrentPoints, TypeOK
  <2>3. QED
    BY <1>0, <1>4, <1>go, <2>2
       DEF UpdateCurrentPoints, TypeOK, Step, At, InFlight, board
<1>5. ASSUME NEW r \in Requests, AddToRow(r) PROVE TypeInv'
  <2>1. request[r].points \in Nat /\ request[r].team \in Teams
    BY <1>0, <1>5 DEF RequestsTyped, Request, Known, AddToRow, At
  <2>2. score' \in [Teams -> Score]
    <3>1. PICK t \in Teams, p \in Nat : t = request[r].team /\ p = request[r].points
      BY <2>1
    <3>2. score[t] \in Score
      BY <1>0 DEF TypeOK
    <3>3. [score[t] EXCEPT !.total = score[t].total + p, !.solves = score[t].solves + 1] \in Score
      <4> DEFINE a == score[t].total + p
                 b == score[t].solves + 1
      <4>1. a \in Nat /\ b \in Nat
        BY <3>1, <3>2 DEF Score
      <4> HIDE DEF a, b
      <4>2. [score[t] EXCEPT !.total = a, !.solves = b] \in Score
        BY <3>2, <4>1 DEF Score
      <4>3. QED
        BY <4>2 DEF a, b
    <3>4. \/ UNCHANGED score
          \/ score' = [score EXCEPT ![t] =
                [score[t] EXCEPT !.total = score[t].total + p, !.solves = score[t].solves + 1]]
      BY <1>5, <3>1 DEF AddToRow
    <3>5. QED
      BY <1>0, <3>3, <3>4 DEF TypeOK
  <2>3. PICK s \in {"added", "first"} : Goto(r, s)
    BY <1>5 DEF AddToRow
  <2>4. QED
    BY <1>0, <1>5, <1>go, <2>2, <2>3 DEF AddToRow, TypeOK, Step, At, InFlight, board
<1>6. ASSUME NEW r \in Requests, InsertRow(r) PROVE TypeInv'
  <2>1. request[r].points \in Nat /\ request[r].team \in Teams
    BY <1>0, <1>6 DEF RequestsTyped, Request, Known, InsertRow, At
  <2>2. score' \in [Teams -> Score]
    BY <1>0, <1>6, <2>1 DEF InsertRow, TypeOK, Score
  <2>3. QED
    BY <1>0, <1>6, <1>go, <2>2 DEF InsertRow, TypeOK, Step, At, InFlight, board
<1>7. ASSUME NEW r \in Requests, UpdateRanks(r) PROVE TypeInv'
  BY <1>0, <1>7, <1>go, BoardTyped DEF UpdateRanks, TypeOK, Step, At, InFlight, board
<1>8. ASSUME NEW r \in Requests, StoreSubmission(r) PROVE TypeInv'
  BY <1>0, <1>8, <1>go DEF StoreSubmission, TypeOK, Step, At, InFlight, board
<1>9. ASSUME NEW r \in Requests, Invalidate(r) PROVE TypeInv'
  BY <1>0, <1>9, <1>go DEF Invalidate, TypeOK, Step, At, InFlight, tables
<1>10. ASSUME NEW r \in Requests, StatementFails(r) PROVE TypeInv'
  BY <1>0, <1>10, <1>on, FailDoes DEF Step
<1>11. ASSUME Crash PROVE TypeInv'
  <2>1. \A q \in Requests : InFlight(q) => Of(q) \subseteq Teams \cup Challenges
    BY <1>0 DEF Known, InFlight, At, Of
  <2>2. Known'
    BY <1>0, <1>11, CrashDoes DEF Known, At, InFlight
  <2>3. TypeOK'
    BY <1>0, <1>11, <2>1, CrashDoes DEF TypeOK
  <2>4. QED
    BY <1>0, <1>11, <2>2, <2>3, CrashDoes DEF TypeInv
<1>12. CASE Load
  BY <1>0, <1>12, BoardTyped DEF Load, TypeInv, TypeOK, Known, At, Board, tables
<1>13. CASE StoreInCache
  BY <1>0, <1>13 DEF StoreInCache, TypeInv, TypeOK, Known, At, tables, observers
<1>14. CASE CacheExpires
  BY <1>0, <1>14 DEF CacheExpires, TypeInv, TypeOK, Known, At, tables, observers
<1>15. CASE UNCHANGED vars
  BY <1>0, <1>15 DEF vars, TypeInv, TypeOK, Known, At, tables, board, observers
<1>16. QED
  BY <1>1, <1>2, <1>3, <1>4, <1>5, <1>6, <1>7, <1>8, <1>9, <1>10, <1>11, <1>12,
     <1>13, <1>14, <1>15 DEF Next, Progress

(* Type correctness: requests, tables and scoreboard keep their shapes, a  *)
(* request knows its team and its challenge, and however many solves a     *)
(* statement counts, the points of a challenge stay between the minimum    *)
(* and the base.                                                           *)
THEOREM TypeCorrect == Spec => []TypeOK
<1>1. TypeInv => TypeOK
  BY DEF TypeInv
<1>2. QED
  BY <1>1, TypeInit, TypeNext, PTL DEF Spec

-----------------------------------------------------------------------------
(***************************************************************************)
(* The requests: what they left behind, and what two of them can share.    *)
(***************************************************************************)
\* Only a request whose submission was lost ends without one.
Kept ==
    \A r \in Requests :
        /\ r \in stored => request[r].at \in {"stored", "done"}
        /\ request[r].at \in {"stored", "done"} => r \in stored \/ Of(r) \subseteq lost

\* Two requests in flight share a team or a challenge only if it is mixed.
Apart ==
    \A r, q \in Requests : r # q /\ InFlight(r) /\ InFlight(q) =>
        /\ request[r].team = request[q].team => request[r].team \in mixed
        /\ request[r].challenge = request[q].challenge => request[r].challenge \in mixed

OneBonus ==
    \A r, q \in Requests :
        /\ request[r].bonus => request[r].at \notin {"new", "checked"}
        /\ /\ request[r].bonus /\ request[q].bonus
           /\ request[r].challenge = request[q].challenge
           /\ Serial(request[r].challenge)
           => r = q

OneAward ==
    \A r, q \in Requests :
        /\ ~At(r, "new") /\ ~At(q, "new")
        /\ request[r].team = request[q].team
        /\ request[r].challenge = request[q].challenge
        /\ Serial(request[r].team) \/ Serial(request[r].challenge)
        => r = q

RequestInv == Kept /\ Apart /\ OneBonus /\ OneAward

LEMMA RequestsInit == Init => RequestInv
  BY NewTyped DEF Init, RequestInv, Kept, Apart, OneBonus, OneAward, InFlight, At

\* What holds of any step of one request in flight.
LEMMA RequestsOnward ==
    ASSUME RequestInv, NEW r \in Requests, NEW s \in Step \ {"new"}, Onward(r, s)
    PROVE  /\ Apart' /\ OneAward'
           /\ s # "checked" /\ request'[r].bonus = request[r].bonus => OneBonus'
           /\ /\ request[r].at # "stored" /\ s \notin {"stored", "done"}
              /\ UNCHANGED stored
              => Kept'
<1>1. Apart'
  BY DEF RequestInv, Apart, InFlight, Onward
<1>2. OneAward'
  BY DEF RequestInv, OneAward, At, InFlight, Onward, Serial
<1>3. s # "checked" /\ request'[r].bonus = request[r].bonus => OneBonus'
  BY DEF RequestInv, OneBonus, Onward, Serial
<1>4. /\ request[r].at # "stored" /\ s \notin {"stored", "done"} /\ UNCHANGED stored
      => Kept'
  BY DEF RequestInv, Kept, InFlight, Onward, Of
<1>5. QED
  BY <1>1, <1>2, <1>3, <1>4

LEMMA RequestsNext == TypeInv /\ RequestInv /\ [Next]_vars => RequestInv'
<1> SUFFICES ASSUME TypeInv, RequestInv, [Next]_vars PROVE RequestInv'
  OBVIOUS
<1>0. TypeOK /\ Known /\ IsFiniteSet(stored) /\ RequestsTyped
  BY DEF TypeInv, TypeOK, RequestsTyped
\* A step that writes none of the submissions.
<1>on. ASSUME NEW r \in Requests, NEW s \in Step \ {"new", "checked", "stored", "done"},
              Onward(r, s), request[r].at # "stored", UNCHANGED stored,
              request'[r].bonus = request[r].bonus
       PROVE  RequestInv'
  BY <1>on, RequestsOnward DEF RequestInv
<1>go. ASSUME NEW r \in Requests, NEW s \in Step \ {"new", "checked"}, Goto(r, s),
              InFlight(r), UNCHANGED observers
       PROVE  Onward(r, s) /\ request'[r].bonus = request[r].bonus
  BY <1>0, <1>go, GotoMoves DEF Onward, Keeps, observers
<1>1. ASSUME NEW r \in Requests, Submit(r) PROVE RequestInv'
  <2>1. PICK t \in Teams, c \in Challenges : Check(r, t, c)
    BY <1>1 DEF Submit
  <2>2. Kept'
    BY <1>0, <2>1, CheckDoes DEF RequestInv, Kept, Of, At
  <2>3. Apart'
    BY <1>0, <2>1, CheckDoes DEF RequestInv, Apart, InFlight, At
  <2>4. OneBonus'
    BY <1>0, <2>1, CheckDoes DEF RequestInv, OneBonus, Serial
  <2>5. OneAward'
    <3>1. ASSUME NEW q \in Requests \ {r}, ~At(q, "new"), request[q].team = t,
                 request[q].challenge = c
          PROVE  ~Serial(t)' /\ ~Serial(c)'
      <4>1. CASE InFlight(q)
        BY <1>0, <2>1, <3>1, <4>1, CheckDoes DEF Serial
      <4>2. CASE q \in stored
        BY <1>0, <2>1, <3>1, <4>2, CheckDoes DEF HasSolved, Solves, Serial
      <4>3. CASE q \notin stored /\ request[q].at = "done"
        BY <1>0, <2>1, <3>1, <4>3, CheckDoes DEF RequestInv, Kept, Of, Serial
      <4>4. QED
        BY <3>1, <4>1, <4>2, <4>3 DEF InFlight, At
    <3>2. QED
      BY <1>0, <2>1, <3>1, CheckDoes DEF RequestInv, OneAward, Serial, At
  <2>6. QED
    BY <2>2, <2>3, <2>4, <2>5 DEF RequestInv
<1>2. ASSUME NEW r \in Requests, Price(r) PROVE RequestInv'
  <2>1. PICK s \in {"priced", "scoring"} :
           /\ At(r, "checked") /\ Onward(r, s)
           /\ request'[r].bonus =>
                 \/ Solves(request[r].challenge) = {}
                 \/ Of(r) \subseteq lost'
           /\ Elsewhere
    BY <1>0, <1>2, PriceDoes
  <2>2. Apart' /\ OneAward' /\ Kept'
    BY <2>1, RequestsOnward DEF Step, At, Elsewhere
  <2>3. OneBonus'
    <3>1. ASSUME NEW q \in Requests \ {r}, request[q].bonus, request'[r].bonus,
                 request[q].challenge = request[r].challenge
          PROVE  ~Serial(request[r].challenge)'
      <4>1. CASE InFlight(q)
        BY <2>1, <3>1, <4>1 DEF RequestInv, Apart, Onward, Serial
      <4>2. CASE q \in stored
        BY <2>1, <3>1, <4>2 DEF Solves, Serial, Of, Onward
      <4>3. CASE q \notin stored /\ request[q].at = "done"
        BY <2>1, <3>1, <4>3 DEF RequestInv, Kept, Of, Serial, Onward
      <4>4. request[q].at # "new"
        BY <3>1 DEF RequestInv, OneBonus
      <4>5. QED
        BY <4>1, <4>2, <4>3, <4>4 DEF InFlight
    <3>2. QED
      BY <2>1, <3>1 DEF RequestInv, OneBonus, Serial, Onward
  <2>4. QED
    BY <2>2, <2>3 DEF RequestInv
<1>3. ASSUME NEW r \in Requests, CountSolves(r) PROVE RequestInv'
  BY <1>0, <1>3, <1>on, CountDoes DEF Step, Elsewhere, At
<1>4. ASSUME NEW r \in Requests, UpdateCurrentPoints(r) PROVE RequestInv'
  BY <1>4, <1>go, <1>on DEF UpdateCurrentPoints, Step, At, InFlight
<1>5. ASSUME NEW r \in Requests, AddToRow(r) PROVE RequestInv'
  <2>1. PICK s \in {"added", "first"} : Goto(r, s)
    BY <1>5 DEF AddToRow
  <2>2. QED
    BY <1>5, <1>go, <1>on, <2>1 DEF AddToRow, Step, At, InFlight
<1>6. ASSUME NEW r \in Requests, InsertRow(r) PROVE RequestInv'
  BY <1>6, <1>go, <1>on DEF InsertRow, Step, At, InFlight
<1>7. ASSUME NEW r \in Requests, UpdateRanks(r) PROVE RequestInv'
  BY <1>7, <1>go, <1>on DEF UpdateRanks, Step, At, InFlight
<1>8. ASSUME NEW r \in Requests, StoreSubmission(r) PROVE RequestInv'
  <2>1. /\ Onward(r, "stored") /\ request'[r].bonus = request[r].bonus
        /\ stored' = stored \cup {r} /\ UNCHANGED observers
    BY <1>8, <1>go DEF StoreSubmission, Step, At, InFlight
  <2>2. Apart' /\ OneAward' /\ OneBonus'
    BY <2>1, RequestsOnward DEF Step
  <2>3. Kept'
    BY <2>1 DEF RequestInv, Kept, Onward, Of, observers
  <2>4. QED
    BY <2>2, <2>3 DEF RequestInv
<1>9. ASSUME NEW r \in Requests, Invalidate(r) PROVE RequestInv'
  <2>1. /\ Onward(r, "done") /\ request'[r].bonus = request[r].bonus
        /\ UNCHANGED <<stored, observers>> /\ request[r].at = "stored"
    BY <1>9, <1>go DEF Invalidate, Step, At, InFlight, tables
  <2>2. Apart' /\ OneAward' /\ OneBonus'
    BY <2>1, RequestsOnward DEF Step
  <2>3. Kept'
    BY <2>1 DEF RequestInv, Kept, Onward, Of, observers
  <2>4. QED
    BY <2>2, <2>3 DEF RequestInv
<1>10. ASSUME NEW r \in Requests, StatementFails(r) PROVE RequestInv'
  <2>1. PICK s \in {"scoring", "added", "ranked", "stored", "done"} :
           /\ s = After(request[r].at) /\ Onward(r, s) /\ Keeps(r)
           /\ request[r].at \in {"counted", "scoring", "first", "added", "ranked", "stored"}
           /\ lost' = lost \cup Of(r) /\ UNCHANGED stored
    BY <1>0, <1>10, FailDoes DEF Elsewhere
  <2>2. Apart' /\ OneAward' /\ OneBonus'
    BY <2>1, RequestsOnward DEF Step, Keeps
  <2>3. Kept'
    <3>1. request[r].at = "stored" => s = "done"
      BY <2>1 DEF After
    <3>2. QED
      BY <2>1, <3>1 DEF RequestInv, Kept, Onward, Of
  <2>4. QED
    BY <2>2, <2>3 DEF RequestInv
<1>11. ASSUME Crash PROVE RequestInv'
  <2>1. Kept'
    BY <1>0, <1>11, CrashDoes DEF RequestInv, Kept, InFlight, Of
  <2>2. Apart'
    BY <1>0, <1>11, CrashDoes DEF RequestInv, Apart, InFlight
  <2>3. OneBonus'
    BY <1>0, <1>11, CrashDoes DEF RequestInv, OneBonus, InFlight, Keeps, Serial
  <2>4. OneAward'
    BY <1>0, <1>11, CrashDoes DEF RequestInv, OneAward, InFlight, At, Serial
  <2>5. QED
    BY <2>1, <2>2, <2>3, <2>4 DEF RequestInv
<1>12. ASSUME UNCHANGED <<request, stored, mixed, lost>> PROVE RequestInv'
  BY <1>12 DEF RequestInv, Kept, Apart, OneBonus, OneAward, InFlight, At, Of, Serial
<1>13. CASE Load \/ StoreInCache \/ CacheExpires \/ UNCHANGED vars
  BY <1>12, <1>13 DEF Load, StoreInCache, CacheExpires, vars, tables, observers
<1>14. QED
  BY <1>1, <1>2, <1>3, <1>4, <1>5, <1>6, <1>7, <1>8, <1>9, <1>10, <1>11, <1>13
     DEF Next, Progress

(* Without overlapping requests for a challenge it gives one first-blood   *)
(* bonus, and without those and those of a team the team is scored for it  *)
(* once: each check of contest_score_service.go is done with by the time   *)
(* the next request reads what it left.                                    *)
THEOREM Awards == Spec => []AwardedOnce
<1>1. TypeInv /\ RequestInv => AwardedOnce
  <2> SUFFICES ASSUME TypeInv, RequestInv, NEW c \in Challenges
               PROVE  /\ Serial(c) => Cardinality({r \in Solves(c) : request[r].bonus}) <= 1
                      /\ \A t \in Teams : Serial(t) \/ Serial(c) =>
                            Cardinality({r \in Solves(c) : request[r].team = t}) <= 1
    BY DEF AwardedOnce
  <2>1. stored \subseteq Requests /\ \A r \in stored : ~At(r, "new")
    BY DEF TypeInv, TypeOK, RequestInv, Kept, At
  <2>2. ASSUME NEW S, \A x, y \in S : x = y PROVE Cardinality(S) <= 1
    <3>1. S = {} \/ \E x : S = {x}
      BY <2>2
    <3>2. Cardinality({}) = 0 /\ \A x : Cardinality({x}) = 1
      BY FS_EmptySet, FS_Singleton
    <3>3. CASE S = {}
      BY <3>2, <3>3
    <3>4. CASE \E x : S = {x}
      <4>1. Cardinality(S) = 1
        BY <3>2, <3>4
      <4>2. QED
        BY <4>1
    <3>5. QED
      BY <3>1, <3>3, <3>4
  <2>3. Serial(c) => \A x, y \in {r \in Solves(c) : request[r].bonus} : x = y
    BY <2>1 DEF RequestInv, OneBonus, Solves
  <2>4. ASSUME NEW t \in Teams, Serial(t) \/ Serial(c)
        PROVE  \A x, y \in {r \in Solves(c) : request[r].team = t} : x = y
    BY <2>1, <2>4 DEF RequestInv, OneAward, Solves
  <2>5. QED
    BY <2>2, <2>3, <2>4
<1>2. Spec => [](TypeInv /\ RequestInv)
  BY TypeInit, TypeNext, RequestsInit, RequestsNext, PTL DEF Spec
<1>3. QED
  BY <1>1, <1>2, PTL

-----------------------------------------------------------------------------
(***************************************************************************)
(* The price of a challenge.                                               *)
(***************************************************************************)
\* The price is written, the submission is not.
Ahead == {"scoring", "first", "added", "ranked"}

PriceAfter(n) == IF n = 0 THEN Points ELSE Worth(n - 1)

PricedAt(c, n) ==
    /\ \A r \in Requests : request[r].challenge = c =>
          /\ request[r].at = "counted" => request[r].solves = n
          /\ request[r].at \in Ahead => current[c] = Worth(n)
    /\ \/ current[c] = PriceAfter(n)
       \/ \E r \in Requests : request[r].challenge = c /\ request[r].at \in Ahead

Priced ==
    DynamicScore =>
        \A c \in Challenges : Serial(c) => PricedAt(c, Cardinality(Solves(c)))

LEMMA Alone ==
    ASSUME RequestInv, NEW r \in Requests, NEW q \in Requests,
           InFlight(r), InFlight(q), Serial(request[r].challenge),
           request[q].challenge = request[r].challenge
    PROVE  q = r
  BY DEF RequestInv, Apart, Serial

LEMMA PriceInit == Init => Priced
<1> SUFFICES ASSUME Init, NEW c \in Challenges
             PROVE  PricedAt(c, Cardinality(Solves(c)))
  BY DEF Priced
<1>1. Solves(c) = {} /\ current[c] = Points /\ \A r \in Requests : request[r].at = "new"
  BY NewTyped DEF Init, Solves
<1>2. Cardinality(Solves(c)) = 0
  BY <1>1, FS_EmptySet
<1>3. QED
  BY <1>1, <1>2 DEF PricedAt, PriceAfter, Ahead

\* A request has no say in the price of another challenge, and for its own
\* it is the only one.
LEMMA PriceOnward ==
    ASSUME TypeInv, RequestInv, Priced, DynamicScore,
           NEW r \in Requests, NEW s \in Step, Onward(r, s),
           NEW d \in Challenges, d = request[r].challenge,
           stored' \in {stored, stored \cup {r}},
           \A c \in Challenges \ {d} : current'[c] = current[c],
           Serial(d)' => PricedAt(d, Cardinality(Solves(d)))'
    PROVE  Priced'
<1> SUFFICES ASSUME NEW c \in Challenges, Serial(c)', c # d
             PROVE  PricedAt(c, Cardinality(Solves(c)))'
  BY DEF Priced
<1>1. Serial(c) /\ PricedAt(c, Cardinality(Solves(c)))
  BY DEF Priced, Serial, Onward
<1>2. Solves(c)' = Solves(c)
  BY DEF Solves, Onward, TypeInv, TypeOK
<1>3. QED
  BY <1>1, <1>2 DEF PricedAt, Onward

LEMMA PriceNext == TypeInv /\ RequestInv /\ Priced /\ [Next]_vars => Priced'
<1> SUFFICES ASSUME TypeInv, RequestInv, Priced, DynamicScore, [Next]_vars
             PROVE  Priced'
  BY DEF Priced
<1>0. TypeOK /\ Known /\ IsFiniteSet(stored) /\ stored \subseteq Requests /\ RequestsTyped
  BY DEF TypeInv, TypeOK, RequestsTyped
<1>n. \A c : IsFiniteSet(Solves(c)) /\ Cardinality(Solves(c)) \in Nat
  BY <1>0, FS_Subset, FS_CardinalityType DEF Solves
<1>go. ASSUME NEW r \in Requests, NEW s \in Step \ {"new"}, Goto(r, s),
              InFlight(r), UNCHANGED observers
       PROVE  Onward(r, s) /\ Keeps(r)
  BY <1>0, <1>go, GotoMoves DEF Onward, observers
\* The state of affairs before a request's step, for its own challenge.
<1>own. ASSUME NEW r \in Requests, NEW s \in Step \ {"new"}, Onward(r, s),
               NEW d, d = request[r].challenge
        PROVE  /\ d \in Challenges
               /\ Serial(d)' =>
                     /\ PricedAt(d, Cardinality(Solves(d)))
                     /\ \A q \in Requests \ {r} :
                           request[q].challenge = d => request[q].at \in {"new", "done"}
  <2>1. d \in Challenges
    BY <1>0, <1>own, KnownOnward
  <2>2. Serial(d)' => Serial(d)
    BY <1>own DEF Onward, Serial
  <2>3. QED
    BY <1>own, <2>1, <2>2, Alone DEF Priced, InFlight, Onward
\* Steps that write neither the points nor the submission.
<1>far. ASSUME NEW r \in Requests, NEW s \in Step \ {"new"}, Onward(r, s),
               UNCHANGED <<stored, current>>,
               \/ request[r].at \in Ahead /\ s \in Ahead
               \/ /\ request[r].at \notin Ahead /\ s \notin Ahead
                  /\ s = "counted" =>
                        \/ request'[r].solves = Cardinality(Solves(request[r].challenge))
                        \/ Of(r) \subseteq lost'
               \/ Of(r) \subseteq lost'
        PROVE  Priced'
  <2>1. PICK d \in Challenges : d = request[r].challenge
    BY <1>far, <1>own
  <2>2. Solves(d)' = Solves(d)
    BY <1>0, <1>far DEF Solves, Onward
  <2>3. ASSUME Serial(d)' PROVE PricedAt(d, Cardinality(Solves(d)))'
    <3>1. Of(r) \subseteq lost' => FALSE
      BY <2>1, <2>3 DEF Of, Serial
    <3>2. /\ PricedAt(d, Cardinality(Solves(d)))
          /\ \A q \in Requests \ {r} :
                request[q].challenge = d => request[q].at \in {"new", "done"}
      BY <1>far, <1>own, <2>1, <2>3
    <3> DEFINE n == Cardinality(Solves(d))
    <3> HIDE DEF n
    <3>3. PricedAt(d, n)'
      BY <1>far, <2>1, <3>1, <3>2, <2>2 DEF PricedAt, Onward, Ahead, n
    <3>4. QED
      BY <2>2, <3>3 DEF n
  <2>4. QED
    BY <1>far, <2>1, <2>3, PriceOnward
<1>1. ASSUME NEW r \in Requests, Submit(r) PROVE Priced'
  <2>1. PICK t \in Teams, d \in Challenges : Check(r, t, d)
    BY <1>1 DEF Submit
  <2>2. \A c \in Challenges : Solves(c)' = Solves(c)
    BY <1>0, <2>1, CheckDoes DEF RequestInv, Kept, Solves, At
  <2>3. ASSUME NEW c \in Challenges, Serial(c)'
        PROVE  PricedAt(c, Cardinality(Solves(c)))'
    <3> DEFINE n == Cardinality(Solves(c))
    <3>1. PricedAt(c, n)
      BY <1>0, <2>1, <2>3, CheckDoes DEF Priced, Serial
    <3> HIDE DEF n
    <3>2. PricedAt(c, n)'
      <4>1. /\ \A q \in Requests \ {r} : request'[q] = request[q]
            /\ request'[r].at = "checked" /\ request[r].at = "new"
            /\ current' = current /\ n' = n
        BY <1>0, <2>1, <2>2, CheckDoes DEF At, n
      <4>2. QED
        BY <3>1, <4>1 DEF PricedAt, Ahead
    <3>3. QED
      BY <3>2 DEF n
  <2>4. QED
    BY <2>3 DEF Priced
<1>2. ASSUME NEW r \in Requests, Price(r) PROVE Priced'
  BY <1>0, <1>2, <1>far, PriceDoes DEF Step, Elsewhere, Ahead, At
<1>3. ASSUME NEW r \in Requests, CountSolves(r) PROVE Priced'
  BY <1>0, <1>3, <1>far, CountDoes DEF Step, Elsewhere, Ahead, At
<1>4. ASSUME NEW r \in Requests, UpdateCurrentPoints(r) PROVE Priced'
  <2>1. /\ Onward(r, "scoring") /\ request[r].at = "counted"
        /\ current' = [current EXCEPT ![request[r].challenge] = Worth(request[r].solves)]
        /\ UNCHANGED stored
    BY <1>4, <1>go DEF UpdateCurrentPoints, At, InFlight, Step
  <2>2. PICK d \in Challenges : d = request[r].challenge
    BY <1>own, <2>1 DEF Step
  <2>3. Solves(d)' = Solves(d)
    BY <1>0, <2>1 DEF Solves, Onward
  <2>4. ASSUME Serial(d)' PROVE PricedAt(d, Cardinality(Solves(d)))'
    <3> DEFINE n == Cardinality(Solves(d))
    <3>1. /\ PricedAt(d, n)
          /\ \A q \in Requests \ {r} :
                request[q].challenge = d => request[q].at \in {"new", "done"}
      BY <1>own, <2>1, <2>2, <2>4 DEF Step
    <3> HIDE DEF n
    <3>2. current'[d] = Worth(n)
      BY <1>0, <2>1, <2>2, <3>1 DEF PricedAt, TypeOK
    <3>3. PricedAt(d, n)'
      BY <2>1, <2>2, <2>3, <3>1, <3>2 DEF PricedAt, Onward, Ahead, n
    <3>4. QED
      BY <3>3 DEF n
  <2>5. \A c \in Challenges \ {d} : current'[c] = current[c]
    BY <1>0, <2>1, <2>2 DEF TypeOK
  <2>6. QED
    BY <2>1, <2>2, <2>4, <2>5, PriceOnward DEF Step
<1>5. ASSUME NEW r \in Requests, AddToRow(r) PROVE Priced'
  <2>1. PICK s \in {"added", "first"} : Goto(r, s)
    BY <1>5 DEF AddToRow
  <2>2. QED
    BY <1>5, <1>go, <1>far, <2>1 DEF AddToRow, Step, Ahead, At, InFlight
<1>6. ASSUME NEW r \in Requests, InsertRow(r) PROVE Priced'
  BY <1>6, <1>go, <1>far DEF InsertRow, Step, Ahead, At, InFlight
<1>7. ASSUME NEW r \in Requests, UpdateRanks(r) PROVE Priced'
  BY <1>7, <1>go, <1>far DEF UpdateRanks, Step, Ahead, At, InFlight
<1>8. ASSUME NEW r \in Requests, StoreSubmission(r) PROVE Priced'
  <2>1. /\ Onward(r, "stored") /\ request[r].at = "ranked"
        /\ stored' = stored \cup {r} /\ UNCHANGED current
    BY <1>8, <1>go DEF StoreSubmission, At, InFlight, Step
  <2>2. PICK d \in Challenges : d = request[r].challenge
    BY <1>own, <2>1 DEF Step
  <2>3. Solves(d)' = Solves(d) \cup {r} /\ r \notin Solves(d)
    BY <1>0, <2>1, <2>2 DEF Solves, Onward, RequestInv, Kept
  <2>4. ASSUME Serial(d)' PROVE PricedAt(d, Cardinality(Solves(d)))'
    <3> DEFINE n == Cardinality(Solves(d))
    <3>1. /\ PricedAt(d, n)
          /\ \A q \in Requests \ {r} :
                request[q].challenge = d => request[q].at \in {"new", "done"}
      BY <1>own, <2>1, <2>2, <2>4 DEF Step
    <3>2. n \in Nat /\ n' = n + 1
      BY <1>n, <2>3, FS_AddElement
    <3> HIDE DEF n
    <3>3. current'[d] = Worth(n)
      BY <2>1, <2>2, <3>1 DEF PricedAt, Ahead
    <3>4. n' # 0 /\ n' - 1 = n
      BY <3>2
    <3>5. PriceAfter(n)' = Worth(n)
      BY <3>4 DEF PriceAfter
    <3>6. PricedAt(d, n)'
      BY <2>1, <2>2, <3>1, <3>3, <3>5 DEF PricedAt, Onward, Ahead
    <3>7. QED
      BY <3>6 DEF n
  <2>5. QED
    BY <2>1, <2>2, <2>4, PriceOnward DEF Step
<1>9. ASSUME NEW r \in Requests, Invalidate(r) PROVE Priced'
  BY <1>9, <1>go, <1>far DEF Invalidate, Step, Ahead, At, InFlight, tables
<1>10. ASSUME NEW r \in Requests, StatementFails(r) PROVE Priced'
  BY <1>0, <1>10, <1>far, FailDoes DEF Step, Elsewhere
<1>11. ASSUME Crash PROVE Priced'
  <2> SUFFICES ASSUME NEW c \in Challenges, Serial(c)'
               PROVE  PricedAt(c, Cardinality(Solves(c)))'
    BY DEF Priced
  <2>1. Solves(c)' = Solves(c)
    BY <1>0, <1>11, CrashDoes DEF Solves
  <2>2. \A q \in Requests : request[q].challenge = c => ~InFlight(q)
    BY <1>0, <1>11, CrashDoes DEF Serial, Of
  <2>3. /\ \A q \in Requests : request[q].challenge = c => request'[q] = request[q]
        /\ \A q \in Requests : request'[q].challenge = request[q].challenge
        /\ Serial(c) /\ current' = current
    BY <1>0, <1>11, <2>2, CrashDoes DEF Serial
  <2> DEFINE n == Cardinality(Solves(c))
  <2>4. PricedAt(c, n) /\ n' = n
    BY <2>1, <2>3 DEF Priced
  <2> HIDE DEF n
  <2>5. PricedAt(c, n)'
    BY <2>3, <2>4 DEF PricedAt
  <2>6. QED
    BY <2>5 DEF n
<1>12. ASSUME UNCHANGED <<request, stored, current, mixed, lost>> PROVE Priced'
  BY <1>12 DEF Priced, PricedAt, Solves, Serial
<1>13. CASE Load \/ StoreInCache \/ CacheExpires \/ UNCHANGED vars
  BY <1>12, <1>13 DEF Load, StoreInCache, CacheExpires, vars, tables, observers
<1>14. QED
  BY <1>1, <1>2, <1>3, <1>4, <1>5, <1>6, <1>7, <1>8, <1>9, <1>10, <1>11, <1>13
     DEF Next, Progress

(* The points of a challenge are those of its solves but the last: with a  *)
(* dynamic price updateDynamicScore counts before the submission that      *)
(* triggers it is stored, for any decay, minimum and number of solves.     *)
THEOREM Prices == Spec => []PriceOneBehind
<1>1. TypeInv /\ Priced => PriceOneBehind
  <2> SUFFICES ASSUME TypeInv, Priced, DynamicScore, NEW c \in Challenges,
                      Quiet(c), Serial(c)
               PROVE  current[c] = IF Cardinality(Solves(c)) = 0 THEN Points
                                   ELSE Worth(Cardinality(Solves(c)) - 1)
    BY DEF PriceOneBehind
  <2>1. \A r \in Requests : request[r].challenge = c => request[r].at \notin Ahead
    BY DEF Quiet, InFlight, Ahead
  <2>2. PricedAt(c, Cardinality(Solves(c)))
    BY DEF Priced
  <2>3. current[c] = PriceAfter(Cardinality(Solves(c)))
    BY <2>1, <2>2 DEF PricedAt
  <2>4. QED
    BY <2>3 DEF PriceAfter
<1>2. Spec => [](TypeInv /\ RequestInv /\ Priced)
  BY TypeInit, TypeNext, RequestsInit, RequestsNext, PriceInit, PriceNext, PTL DEF Spec
<1>3. QED
  BY <1>1, <1>2, PTL

-----------------------------------------------------------------------------
(***************************************************************************)
(* The ranks and the scoreboard.                                           *)
(***************************************************************************)
BoardNow == [total |-> Totals, rank |-> ranked]

\* What is not up to date will be: by a request that is still at work.
Shown ==
    lost = {} =>
        /\ ranked = Totals \/ \E r \in Requests : At(r, "added")
        /\ ~crossed /\ cache # None =>
              cache = BoardNow \/ \E r \in Requests : InFlight(r)
        /\ ~crossed /\ reader # None =>
              reader = BoardNow /\ \A r \in Requests : ~InFlight(r)

LEMMA ShownInit == Init => Shown
  BY DEF Init, Shown, Totals, NoScore

LEMMA ShownNext == TypeInv /\ Shown /\ [Next]_vars => Shown'
<1> SUFFICES ASSUME TypeInv, Shown, [Next]_vars, lost' = {} PROVE Shown'
  BY DEF Shown
<1>0. TypeOK /\ RequestsTyped /\ IsFiniteSet(stored)
  BY DEF TypeInv, TypeOK, RequestsTyped
<1>go. ASSUME NEW r \in Requests, NEW s \in Step \ {"new"}, Goto(r, s),
              InFlight(r), UNCHANGED observers
       PROVE  Onward(r, s) /\ lost = {} /\ crossed' = crossed
  BY <1>0, <1>go, GotoMoves DEF Onward, observers
\* A request that is not through writes what the scoreboard shows, or not.
<1>on. ASSUME NEW r \in Requests, NEW s \in Step \ {"new", "done"}, Onward(r, s),
              UNCHANGED <<cache, reader, crossed>>,
              \/ s = "added"
              \/ ranked' = Totals'
              \/ UNCHANGED <<score, ranked>> /\ request[r].at # "added"
       PROVE  Shown'
  <2>1. lost = {} /\ InFlight(r) /\ InFlight(r)'
    BY <1>on DEF Onward, InFlight, Step
  <2>2. ~crossed => reader = None
    BY <2>1 DEF Shown
  <2>3. ranked' = Totals' \/ \E q \in Requests : At(q, "added")'
    <3>1. CASE s = "added"
      BY <1>on, <3>1 DEF Onward, At
    <3>2. CASE ranked' = Totals'
      BY <3>2
    <3>3. CASE UNCHANGED <<score, ranked>> /\ request[r].at # "added"
      <4>1. Totals' = Totals
        BY <3>3 DEF Totals
      <4>2. \A q \in Requests : At(q, "added") => At(q, "added")'
        BY <1>on, <3>3 DEF Onward, At
      <4>3. QED
        BY <2>1, <3>3, <4>1, <4>2 DEF Shown
    <3>4. QED
      BY <1>on, <3>1, <3>2, <3>3
  <2>4. QED
    BY <1>on, <2>1, <2>2, <2>3 DEF Shown
<1>1. ASSUME NEW r \in Requests, Submit(r) PROVE Shown'
  <2>1. PICK t \in Teams, c \in Challenges : Check(r, t, c)
    BY <1>1 DEF Submit
  <2>2. lost = {} /\ InFlight(r)' /\ crossed' = (crossed \/ reader # None)
    BY <1>0, <2>1, CheckDoes DEF InFlight
  <2>3. ranked' = Totals' \/ \E q \in Requests : At(q, "added")'
    <3>1. Totals' = Totals /\ ranked' = ranked
      BY <1>0, <2>1, CheckDoes DEF Totals
    <3>2. \A q \in Requests : At(q, "added") => At(q, "added")'
      BY <1>0, <2>1, CheckDoes DEF At
    <3>3. QED
      BY <2>2, <3>1, <3>2 DEF Shown
  <2>4. reader' = reader
    BY <1>0, <2>1, CheckDoes
  <2>5. QED
    BY <2>2, <2>3, <2>4 DEF Shown
<1>2. ASSUME NEW r \in Requests, Price(r) PROVE Shown'
  BY <1>0, <1>2, <1>on, PriceDoes DEF Step, Elsewhere, At
<1>3. ASSUME NEW r \in Requests, CountSolves(r) PROVE Shown'
  BY <1>0, <1>3, <1>on, CountDoes DEF Step, Elsewhere, At
<1>4. ASSUME NEW r \in Requests, UpdateCurrentPoints(r) PROVE Shown'
  BY <1>4, <1>go, <1>on DEF UpdateCurrentPoints, Step, At, InFlight, board
<1>5. ASSUME NEW r \in Requests, AddToRow(r) PROVE Shown'
  <2>1. PICK s \in {"added", "first"} :
            Goto(r, s) /\ (s = "first" => UNCHANGED <<score, ranked>>)
    BY <1>5 DEF AddToRow
  <2>2. QED
    BY <1>5, <1>go, <1>on, <2>1 DEF AddToRow, Step, At, InFlight, board
<1>6. ASSUME NEW r \in Requests, InsertRow(r) PROVE Shown'
  BY <1>6, <1>go, <1>on DEF InsertRow, Step, At, InFlight, board
<1>7. ASSUME NEW r \in Requests, UpdateRanks(r) PROVE Shown'
  <2>1. Totals' = Totals
    BY <1>7 DEF UpdateRanks, Totals
  <2>2. QED
    BY <1>7, <1>go, <1>on, <2>1 DEF UpdateRanks, Step, At, InFlight, board
<1>8. ASSUME NEW r \in Requests, StoreSubmission(r) PROVE Shown'
  BY <1>8, <1>go, <1>on DEF StoreSubmission, Step, At, InFlight, board
<1>9. ASSUME NEW r \in Requests, Invalidate(r) PROVE Shown'
  <2>1. /\ Onward(r, "done") /\ lost = {} /\ crossed' = crossed /\ cache' = None
        /\ UNCHANGED <<reader, score, ranked>> /\ request[r].at = "stored"
    BY <1>9, <1>go DEF Invalidate, Step, At, InFlight, tables
  <2>2. Totals' = Totals
    BY <2>1 DEF Totals
  <2>3. \A q \in Requests : At(q, "added") => At(q, "added")'
    BY <2>1 DEF Onward, At
  <2>4. ~crossed => reader = None
    BY <2>1 DEF Shown, Onward
  <2>5. QED
    BY <2>1, <2>2, <2>3, <2>4 DEF Shown
<1>10. ASSUME NEW r \in Requests, StatementFails(r) PROVE Shown'
  <2>1. lost' # {}
    BY <1>0, <1>10, FailDoes
  <2>2. QED
    BY <2>1
<1>11. ASSUME Crash PROVE Shown'
  <2>1. \A q \in Requests : ~InFlight(q)
    BY <1>0, <1>11, CrashDoes DEF Of
  <2>2. lost = {} /\ \A q \in Requests : request'[q] = request[q]
    BY <1>0, <1>11, <2>1, CrashDoes
  <2>3. Totals' = Totals /\ UNCHANGED <<ranked, cache, crossed>> /\ reader' = None
    BY <1>0, <1>11, CrashDoes DEF Totals
  <2>4. BoardNow' = BoardNow
    BY <2>3 DEF BoardNow
  <2>5. QED
    BY <2>1, <2>2, <2>3, <2>4 DEF Shown, At, InFlight
<1>12. CASE Load
  <2>1. BoardNow' = BoardNow /\ Totals' = Totals
    BY <1>12 DEF Load, BoardNow, Totals, tables
  <2>2. lost = {} /\ reader' = BoardNow
    BY <1>12 DEF Load, BoardNow
  <2>3. QED
    BY <1>12, <2>1, <2>2 DEF Load, Shown, tables, At, InFlight
<1>13. CASE StoreInCache
  <2>1. BoardNow' = BoardNow /\ Totals' = Totals
    BY <1>13 DEF StoreInCache, BoardNow, Totals, tables
  <2>2. QED
    BY <1>13, <2>1 DEF StoreInCache, Shown, tables, observers, At, InFlight
<1>14. CASE CacheExpires \/ UNCHANGED vars
  <2>1. BoardNow' = BoardNow /\ Totals' = Totals
    BY <1>14 DEF CacheExpires, BoardNow, Totals, tables, vars
  <2>2. cache' \in {cache, None} /\ UNCHANGED <<request, ranked, reader, lost, crossed>>
    BY <1>14 DEF CacheExpires, tables, vars, board, observers
  <2>3. QED
    BY <2>1, <2>2 DEF Shown, At, InFlight
<1>15. QED
  BY <1>1, <1>2, <1>3, <1>4, <1>5, <1>6, <1>7, <1>8, <1>9, <1>10, <1>11, <1>12,
     <1>13, <1>14 DEF Next, Progress

(* Once all requests are through and no statement was lost, the stored     *)
(* ranks are those of the scores, and so is a cached scoreboard that was   *)
(* not loaded while a request was in flight: each request recomputes the   *)
(* ranks after its own score and empties the cache after everything.       *)
THEOREM BoardShows == Spec => []BoardFresh
<1>1. Shown => BoardFresh
  BY DEF Shown, BoardFresh, BoardNow, At, InFlight
<1>2. QED
  BY <1>1, TypeInit, TypeNext, ShownInit, ShownNext, PTL DEF Spec
-----------------------------------------------------------------------------
(***************************************************************************)
(* Sums over finite sets.  MapThenSumSet is a recursive function over the  *)
(* subsets of its argument; every fact about it is shown of a smallest     *)
(* subset for which it could fail.                                         *)
(***************************************************************************)
\* The points that a set of requests earned, g being the requests.
Sum(g, S) == MapThenSumSet(LAMBDA r : g[r].points, S)

Pick(S) == CHOOSE x \in S : TRUE

SumsUp(h, S, g) ==
    h = [s \in SUBSET S |->
            IF s = {} THEN 0 ELSE g[Pick(s)].points + h[s \ {Pick(s)}]]

LEMMA SumDef ==
    ASSUME NEW g, NEW S
    PROVE  Sum(g, S) = (CHOOSE h : SumsUp(h, S, g))[S]
  BY DEF Sum, MapThenSumSet, MapThenFoldSet, SumsUp, Pick

LEMMA PickIn ==
    ASSUME NEW S, S # {}
    PROVE  Pick(S) \in S /\ S \ {Pick(S)} # S /\ S \ {Pick(S)} \subseteq S
  BY DEF Pick

LEMMA Smallest ==
    ASSUME NEW S, IsFiniteSet(S), NEW T, T \subseteq SUBSET S, T # {}
    PROVE  \E m \in T : \A s \in T : s \subseteq m => s = m
<1>1. IsWellFoundedOn(StrictSubsetOrdering(S), SUBSET S)
  BY FS_StrictSubsetOrderingWellFounded, FS_FiniteSubsetsOfFinite
<1>2. PICK m \in T : \A s \in T : ~(<<s, m>> \in StrictSubsetOrdering(S))
  BY <1>1, WFMin
<1>3. QED
  BY <1>2 DEF StrictSubsetOrdering

LEMMA SumUnique ==
    ASSUME NEW S, IsFiniteSet(S), NEW g, NEW h, NEW k,
           SumsUp(h, S, g), SumsUp(k, S, g)
    PROVE  h = k
<1> DEFINE T == {s \in SUBSET S : h[s] # k[s]}
<1>1. ASSUME T # {} PROVE FALSE
  <2> HIDE DEF T
  <2>1. PICK m \in T : \A s \in T : s \subseteq m => s = m
    <3>1. T \subseteq SUBSET S
      BY DEF T
    <3>2. QED
      BY <1>1, <3>1, Smallest
  <2>2. m \in SUBSET S /\ h[m] # k[m]
    BY DEF T
  <2>3. m # {}
    BY <2>2 DEF SumsUp
  <2>4. h[m \ {Pick(m)}] = k[m \ {Pick(m)}]
    BY <2>1, <2>2, <2>3, PickIn DEF T
  <2>5. QED
    BY <2>2, <2>3, <2>4 DEF SumsUp
<1>2. QED
  BY <1>1 DEF SumsUp

LEMMA SumRestricts ==
    ASSUME NEW S, NEW g, NEW h, SumsUp(h, S, g), NEW s \in SUBSET S
    PROVE  SumsUp([u \in SUBSET s |-> h[u]], s, g)
<1> DEFINE k == [u \in SUBSET s |-> h[u]]
<1>1. \A u \in SUBSET s :
        h[u] = IF u = {} THEN 0 ELSE g[Pick(u)].points + h[u \ {Pick(u)}]
  BY DEF SumsUp
<1>2. \A u \in SUBSET s :
        k[u] = IF u = {} THEN 0 ELSE g[Pick(u)].points + k[u \ {Pick(u)}]
  BY <1>1
<1>3. QED
  BY <1>2 DEF SumsUp

LEMMA SumExists ==
    ASSUME NEW S, IsFiniteSet(S), NEW g
    PROVE  \E h : SumsUp(h, S, g)
<1> DEFINE T == {s \in SUBSET S : ~ \E h : SumsUp(h, s, g)}
<1>1. ASSUME T # {} PROVE FALSE
  <2> HIDE DEF T
  <2>1. PICK m \in T : \A s \in T : s \subseteq m => s = m
    <3>1. T \subseteq SUBSET S
      BY DEF T
    <3>2. QED
      BY <1>1, <3>1, Smallest
  <2>2. m \in SUBSET S /\ ~ \E h : SumsUp(h, m, g)
    BY DEF T
  <2> DEFINE H(v) == CHOOSE h : SumsUp(h, v, g)
             k == [u \in SUBSET m |->
                      IF u = {} THEN 0
                      ELSE g[Pick(u)].points + H(u \ {Pick(u)})[u \ {Pick(u)}]]
  <2>3. ASSUME NEW v \in SUBSET m, v # m PROVE SumsUp(H(v), v, g)
    BY <2>1, <2>2, <2>3 DEF T
  <2> HIDE DEF H
  <2>4. ASSUME NEW v \in SUBSET m, v # m PROVE k[v] = H(v)[v]
    <3>1. SumsUp(H(v), v, g) /\ IsFiniteSet(v)
      BY <2>2, <2>3, <2>4, FS_Subset
    <3>2. CASE v = {}
      BY <3>1, <3>2 DEF SumsUp
    <3>3. CASE v # {}
      <4> DEFINE w == v \ {Pick(v)}
      <4>1. w \in SUBSET v /\ w # m /\ w \in SUBSET m /\ IsFiniteSet(w)
        BY <2>4, <3>1, <3>3, PickIn, FS_Subset
      <4>2. SumsUp(H(w), w, g)
        BY <2>3, <4>1
      <4>3. SumsUp([u \in SUBSET w |-> H(v)[u]], w, g)
        BY <3>1, <4>1, SumRestricts
      <4>4. H(w) = [u \in SUBSET w |-> H(v)[u]]
        BY <4>1, <4>2, <4>3, SumUnique
      <4>5. H(w)[w] = H(v)[w]
        BY <4>4
      <4>6. H(v)[v] = g[Pick(v)].points + H(v)[w]
        BY <3>1, <3>3 DEF SumsUp
      <4>7. k[v] = g[Pick(v)].points + H(w)[w]
        BY <3>3
      <4>8. QED
        BY <4>5, <4>6, <4>7
    <3>4. QED
      BY <3>2, <3>3
  <2>5. \A u \in SUBSET m : u # {} =>
           k[u \ {Pick(u)}] = H(u \ {Pick(u)})[u \ {Pick(u)}]
    <3> SUFFICES ASSUME NEW u \in SUBSET m, u # {}
                 PROVE  k[u \ {Pick(u)}] = H(u \ {Pick(u)})[u \ {Pick(u)}]
      OBVIOUS
    <3>1. u \ {Pick(u)} \in SUBSET m /\ u \ {Pick(u)} # m
      BY PickIn
    <3> HIDE DEF k
    <3>2. QED
      BY <2>4, <3>1
  <2>6. SumsUp(k, m, g)
    BY <2>5 DEF SumsUp
  <2>7. QED
    BY <2>2, <2>6
<1>2. QED
  BY <1>1

(* The sum over no requests, and over some of them.                        *)
LEMMA SumStep ==
    ASSUME NEW S, IsFiniteSet(S), NEW g
    PROVE  /\ S = {} => Sum(g, S) = 0
           /\ S # {} => Sum(g, S) = g[Pick(S)].points + Sum(g, S \ {Pick(S)})
<1>1. PICK h : h = CHOOSE k : SumsUp(k, S, g)
  OBVIOUS
<1>2. SumsUp(h, S, g) /\ Sum(g, S) = h[S]
  BY <1>1, SumExists, SumDef
<1>3. ASSUME S # {} PROVE Sum(g, S) = g[Pick(S)].points + Sum(g, S \ {Pick(S)})
  <2> DEFINE v == S \ {Pick(S)}
  <2>1. v \in SUBSET S /\ IsFiniteSet(v)
    BY FS_Subset
  <2> HIDE DEF v
  <2>2. PICK k : k = CHOOSE j : SumsUp(j, v, g)
    OBVIOUS
  <2>3. SumsUp(k, v, g) /\ Sum(g, v) = k[v]
    BY <2>1, <2>2, SumExists, SumDef
  <2>4. SumsUp([u \in SUBSET v |-> h[u]], v, g)
    BY <1>2, <2>1, SumRestricts
  <2>5. k = [u \in SUBSET v |-> h[u]]
    BY <2>1, <2>3, <2>4, SumUnique
  <2>6. Sum(g, v) = h[v]
    BY <2>3, <2>5
  <2>7. h[S] = g[Pick(S)].points + h[v]
    BY <1>2, <1>3 DEF SumsUp, v
  <2>8. QED
    BY <1>2, <2>6, <2>7 DEF v
<1>4. QED
  BY <1>2, <1>3 DEF SumsUp

LEMMA SumTyped ==
    ASSUME NEW S, IsFiniteSet(S), NEW g, \A r \in S : g[r].points \in Nat
    PROVE  Sum(g, S) \in Nat
<1> DEFINE T == {s \in SUBSET S : Sum(g, s) \notin Nat}
<1>1. ASSUME T # {} PROVE FALSE
  <2> HIDE DEF T
  <2>1. PICK m \in T : \A s \in T : s \subseteq m => s = m
    <3>1. T \subseteq SUBSET S
      BY DEF T
    <3>2. QED
      BY <1>1, <3>1, Smallest
  <2>2. m \in SUBSET S /\ Sum(g, m) \notin Nat /\ IsFiniteSet(m)
    BY FS_Subset DEF T
  <2>3. m # {}
    BY <2>2, SumStep
  <2>4. Sum(g, m \ {Pick(m)}) \in Nat /\ Pick(m) \in S
    BY <2>1, <2>2, <2>3, PickIn DEF T
  <2>5. Sum(g, m) = g[Pick(m)].points + Sum(g, m \ {Pick(m)})
    BY <2>2, <2>3, SumStep
  <2>6. QED
    BY <2>2, <2>4, <2>5
<1>2. QED
  BY <1>1

LEMMA SumCongruent ==
    ASSUME NEW S, IsFiniteSet(S), NEW g, NEW f, \A r \in S : g[r].points = f[r].points
    PROVE  Sum(g, S) = Sum(f, S)
<1> DEFINE T == {s \in SUBSET S : Sum(g, s) # Sum(f, s)}
<1>1. ASSUME T # {} PROVE FALSE
  <2> HIDE DEF T
  <2>1. PICK m \in T : \A s \in T : s \subseteq m => s = m
    <3>1. T \subseteq SUBSET S
      BY DEF T
    <3>2. QED
      BY <1>1, <3>1, Smallest
  <2>2. m \in SUBSET S /\ Sum(g, m) # Sum(f, m) /\ IsFiniteSet(m)
    BY FS_Subset DEF T
  <2>3. m # {}
    BY <2>2, SumStep
  <2>4. Sum(g, m \ {Pick(m)}) = Sum(f, m \ {Pick(m)}) /\ Pick(m) \in S
    BY <2>1, <2>2, <2>3, PickIn DEF T
  <2>5. /\ Sum(g, m) = g[Pick(m)].points + Sum(g, m \ {Pick(m)})
        /\ Sum(f, m) = f[Pick(m)].points + Sum(f, m \ {Pick(m)})
    BY <2>2, <2>3, SumStep
  <2>6. QED
    BY <2>2, <2>4, <2>5
<1>2. QED
  BY <1>1

(* One request more, whichever the sum begins with.                        *)
LEMMA SumAdds ==
    ASSUME NEW S, IsFiniteSet(S), NEW g, NEW x, x \notin S,
           \A r \in S \cup {x} : g[r].points \in Nat
    PROVE  Sum(g, S \cup {x}) = Sum(g, S) + g[x].points
<1> DEFINE T == {s \in SUBSET S : \E y \in S \cup {x} : y \notin s
                                  /\ Sum(g, s \cup {y}) # Sum(g, s) + g[y].points}
<1>1. ASSUME T # {} PROVE FALSE
  <2> HIDE DEF T
  <2>1. PICK m \in T : \A s \in T : s \subseteq m => s = m
    <3>1. T \subseteq SUBSET S
      BY DEF T
    <3>2. QED
      BY <1>1, <3>1, Smallest
  <2>2. PICK y \in S \cup {x} : /\ m \in SUBSET S /\ y \notin m
                                /\ Sum(g, m \cup {y}) # Sum(g, m) + g[y].points
    BY DEF T
  <2>3. /\ IsFiniteSet(m) /\ IsFiniteSet(m \cup {y})
        /\ Sum(g, m) \in Nat /\ g[y].points \in Nat
    BY <2>2, FS_Subset, FS_AddElement, SumTyped
  <2> DEFINE z == Pick(m \cup {y})
  <2>4. Sum(g, m \cup {y}) = g[z].points + Sum(g, (m \cup {y}) \ {z})
    BY <2>3, SumStep
  <2>5. z \in m \cup {y}
    BY PickIn
  <2> HIDE DEF z
  <2>6. CASE z = y
    <3>1. (m \cup {y}) \ {z} = m
      BY <2>2, <2>6
    <3>2. QED
      BY <2>2, <2>3, <2>4, <2>6, <3>1
  <2>7. CASE z # y
    <3> DEFINE n == m \ {z}
    <3>1. /\ z \in m /\ n \in SUBSET S /\ n \notin T
          /\ (m \cup {y}) \ {z} = n \cup {y} /\ n \cup {z} = m
          /\ y \notin n /\ z \notin n /\ z \in S
      BY <2>1, <2>2, <2>5, <2>7
    <3>2. IsFiniteSet(n) /\ Sum(g, n) \in Nat /\ g[z].points \in Nat
      <4>1. IsFiniteSet(n)
        BY <2>3, FS_Subset
      <4>2. QED
        BY <3>1, <4>1, SumTyped
    <3> HIDE DEF n
    <3>3. Sum(g, n \cup {y}) = Sum(g, n) + g[y].points
      BY <3>1 DEF T
    <3>4. Sum(g, n \cup {z}) = Sum(g, n) + g[z].points
      BY <3>1 DEF T
    <3>5. Sum(g, m \cup {y}) = g[z].points + (Sum(g, n) + g[y].points)
      BY <2>4, <3>1, <3>3
    <3>6. Sum(g, m) = Sum(g, n) + g[z].points
      BY <3>1, <3>4
    <3>7. Sum(g, m \cup {y}) = Sum(g, m) + g[y].points
      BY <2>3, <3>2, <3>5, <3>6
    <3>8. QED
      BY <2>2, <3>7
  <2>8. QED
    BY <2>6, <2>7
<1>2. QED
  BY <1>1

-----------------------------------------------------------------------------
(***************************************************************************)
(* The score of a team.                                                    *)
(***************************************************************************)
\* The score has the points, the submission is not stored.
Booked == {"added", "ranked"}

SummedAt(t, sum, n) ==
    /\ ~score[t].exists => score[t].total = 0 /\ score[t].solves = 0
    /\ \A r \in Requests : request[r].team = t =>
          /\ request[r].at = "first" => ~score[t].exists
          /\ request[r].at \in Booked =>
                 score[t].total = sum + request[r].points /\ score[t].solves = n + 1
    /\ \/ score[t].total = sum /\ score[t].solves = n
       \/ \E r \in Requests : request[r].team = t /\ request[r].at \in Booked

Summed ==
    \A t \in Teams : Serial(t) =>
        SummedAt(t, Sum(request, SolvedBy(t)), Cardinality(SolvedBy(t)))

LEMMA SummedInit == Init => Summed
<1> SUFFICES ASSUME Init, NEW t \in Teams
             PROVE  SummedAt(t, Sum(request, SolvedBy(t)), Cardinality(SolvedBy(t)))
  BY DEF Summed
<1>1. /\ SolvedBy(t) = {} /\ \A r \in Requests : request[r].at = "new"
      /\ score[t].total = 0 /\ score[t].solves = 0 /\ ~score[t].exists
  BY NewTyped DEF Init, SolvedBy, NoScore
<1>2. Cardinality(SolvedBy(t)) = 0 /\ Sum(request, SolvedBy(t)) = 0
  BY <1>1, FS_EmptySet, SumStep
<1>3. QED
  BY <1>1, <1>2 DEF SummedAt, Booked

LEMMA AloneInTeam ==
    ASSUME RequestInv, NEW r \in Requests, NEW q \in Requests,
           InFlight(r), InFlight(q), Serial(request[r].team),
           request[q].team = request[r].team
    PROVE  q = r
  BY DEF RequestInv, Apart, Serial

\* The submissions that make up a score are finitely many, and priced.
LEMMA SolvesTyped ==
    ASSUME TypeInv, NEW t
    PROVE  /\ SolvedBy(t) \subseteq Requests /\ IsFiniteSet(SolvedBy(t))
           /\ Cardinality(SolvedBy(t)) \in Nat /\ Sum(request, SolvedBy(t)) \in Nat
           /\ \A r \in Requests : request[r].points \in Nat
<1>1. SolvedBy(t) \subseteq Requests /\ IsFiniteSet(SolvedBy(t))
  BY FS_Subset DEF TypeInv, TypeOK, SolvedBy
<1>2. \A r \in Requests : request[r].points \in Nat
  BY DEF TypeInv, TypeOK, Request
<1>3. QED
  BY <1>1, <1>2, FS_CardinalityType, SumTyped

\* A request has no say in the score of another team, and in its own one it
\* is the only one.
LEMMA SumOnward ==
    ASSUME TypeInv, RequestInv, Summed,
           NEW r \in Requests, NEW s \in Step, Onward(r, s),
           NEW d \in Teams, d = request[r].team,
           stored' \in {stored, stored \cup {r}},
           \A t \in Teams \ {d} : score'[t] = score[t],
           Serial(d)' => SummedAt(d, Sum(request, SolvedBy(d)), Cardinality(SolvedBy(d)))'
    PROVE  Summed'
<1> SUFFICES ASSUME NEW t \in Teams, Serial(t)', t # d
             PROVE  SummedAt(t, Sum(request, SolvedBy(t)), Cardinality(SolvedBy(t)))'
  BY DEF Summed
<1>1. Serial(t)
  BY DEF Serial, Onward
<1>2. SolvedBy(t)' = SolvedBy(t) /\ \A q \in SolvedBy(t) : request'[q] = request[q]
  BY DEF SolvedBy, Onward, TypeInv, TypeOK
<1> DEFINE sum == Sum(request, SolvedBy(t))
           n == Cardinality(SolvedBy(t))
<1>3. n' = n
  BY <1>2
<1>4. sum' = sum
  <2>1. Sum(request', SolvedBy(t)) = sum
    BY <1>2, SolvesTyped, SumCongruent
  <2>2. QED
    BY <1>2, <2>1
<1>5. SummedAt(t, sum, n)
  BY <1>1 DEF Summed
<1> HIDE DEF sum, n
<1>6. SummedAt(t, sum, n)'
  BY <1>3, <1>4, <1>5 DEF SummedAt, Onward
<1>7. QED
  BY <1>6 DEF sum, n

LEMMA SummedNext == TypeInv /\ RequestInv /\ Summed /\ [Next]_vars => Summed'
<1> SUFFICES ASSUME TypeInv, RequestInv, Summed, [Next]_vars PROVE Summed'
  OBVIOUS
<1>0. /\ TypeOK /\ Known /\ IsFiniteSet(stored) /\ stored \subseteq Requests
      /\ RequestsTyped /\ score \in [Teams -> Score]
  BY DEF TypeInv, TypeOK, RequestsTyped
<1>go. ASSUME NEW r \in Requests, NEW s \in Step \ {"new"}, Goto(r, s),
              InFlight(r), UNCHANGED observers
       PROVE  Onward(r, s) /\ Keeps(r)
  BY <1>0, <1>go, GotoMoves DEF Onward, observers
\* The state of affairs before a request's step, for its own team.
<1>own. ASSUME NEW r \in Requests, NEW s \in Step \ {"new"}, Onward(r, s),
               NEW d, d = request[r].team
        PROVE  /\ d \in Teams
               /\ Serial(d)' =>
                     /\ SummedAt(d, Sum(request, SolvedBy(d)), Cardinality(SolvedBy(d)))
                     /\ \A q \in Requests \ {r} :
                           request[q].team = d => request[q].at \in {"new", "done"}
  <2>1. d \in Teams
    BY <1>0, <1>own, KnownOnward
  <2>2. Serial(d)' => Serial(d)
    BY <1>own DEF Onward, Serial
  <2>3. QED
    BY <1>own, <2>1, <2>2, AloneInTeam DEF Summed, InFlight, Onward
\* The same submissions, with the same points.
<1>sum. ASSUME NEW d, SolvedBy(d)' = SolvedBy(d),
               \A q \in SolvedBy(d) : request'[q].points = request[q].points
        PROVE  /\ Sum(request, SolvedBy(d))' = Sum(request, SolvedBy(d))
               /\ Cardinality(SolvedBy(d))' = Cardinality(SolvedBy(d))
  <2>1. Sum(request', SolvedBy(d)) = Sum(request, SolvedBy(d))
    BY <1>sum, SolvesTyped, SumCongruent
  <2>2. QED
    BY <1>sum, <2>1
\* A step that stores no submission: the score of the team stays, or the
\* request books its points.
<1>far. ASSUME NEW r \in Requests, NEW s \in Step \ {"new"}, Onward(r, s),
               UNCHANGED stored,
               request'[r].points = request[r].points \/ request[r].at = "checked",
               NEW d, d = request[r].team,
               \A t \in Teams \ {d} : score'[t] = score[t],
               \/ /\ UNCHANGED score
                  /\ \/ request[r].at \in Booked /\ s \in Booked
                        /\ request'[r].points = request[r].points
                     \/ /\ request[r].at \notin Booked /\ s \notin Booked
                        /\ s = "first" => ~score[d].exists
               \/ Of(r) \subseteq lost'
               \/ /\ request[r].at \notin Booked /\ s = "added"
                  /\ request'[r].points = request[r].points
                  /\ score'[d].total = score[d].total + request[r].points
                  /\ score'[d].solves = score[d].solves + 1
                  /\ score'[d].exists
        PROVE  Summed'
  <2>1. d \in Teams
    BY <1>far, <1>own
  <2>2. /\ SolvedBy(d)' = SolvedBy(d)
        /\ \A q \in SolvedBy(d) : request'[q].points = request[q].points
    BY <1>0, <1>far DEF SolvedBy, Onward, RequestInv, Kept
  <2>3. ASSUME Serial(d)'
        PROVE  SummedAt(d, Sum(request, SolvedBy(d)), Cardinality(SolvedBy(d)))'
    <3> DEFINE sum == Sum(request, SolvedBy(d))
               n == Cardinality(SolvedBy(d))
    <3>1. ~(Of(r) \subseteq lost')
      BY <1>far, <2>3 DEF Of, Serial
    <3>2. /\ SummedAt(d, sum, n)
          /\ \A q \in Requests \ {r} :
                request[q].team = d => request[q].at \in {"new", "done"}
      BY <1>far, <1>own, <2>3
    <3>3. sum' = sum /\ n' = n
      BY <1>sum, <2>2
    <3> HIDE DEF sum, n
    <3>4. SummedAt(d, sum, n)'
      BY <1>far, <3>1, <3>2, <3>3 DEF SummedAt, Onward, Booked
    <3>5. QED
      BY <3>4 DEF sum, n
  <2>4. QED
    BY <1>far, <2>1, <2>3, SumOnward
<1>1. ASSUME NEW r \in Requests, Submit(r) PROVE Summed'
  <2>1. PICK t \in Teams, c \in Challenges : Check(r, t, c)
    BY <1>1 DEF Submit
  <2>2. /\ \A q \in Requests \ {r} : request'[q] = request[q]
        /\ request'[r].at = "checked" /\ request[r].at = "new" /\ score' = score
        /\ stored' = stored /\ r \notin stored
    BY <1>0, <2>1, CheckDoes DEF At, RequestInv, Kept
  <2>3. ASSUME NEW d \in Teams, Serial(d)'
        PROVE  SummedAt(d, Sum(request, SolvedBy(d)), Cardinality(SolvedBy(d)))'
    <3> DEFINE sum == Sum(request, SolvedBy(d))
               n == Cardinality(SolvedBy(d))
    <3>1. SummedAt(d, sum, n)
      BY <1>0, <2>1, <2>3, CheckDoes DEF Summed, Serial
    <3>2. /\ SolvedBy(d)' = SolvedBy(d)
          /\ \A q \in SolvedBy(d) : request'[q].points = request[q].points
      BY <1>0, <2>2 DEF SolvedBy
    <3>3. sum' = sum /\ n' = n
      BY <1>sum, <3>2
    <3> HIDE DEF sum, n
    <3>4. SummedAt(d, sum, n)'
      BY <2>2, <3>1, <3>3 DEF SummedAt, Booked
    <3>5. QED
      BY <3>4 DEF sum, n
  <2>4. QED
    BY <2>3 DEF Summed
<1>2. ASSUME NEW r \in Requests, Price(r) PROVE Summed'
  BY <1>0, <1>2, <1>far, PriceDoes DEF Step, Elsewhere, Booked, At
<1>3. ASSUME NEW r \in Requests, CountSolves(r) PROVE Summed'
  BY <1>0, <1>3, <1>far, CountDoes DEF Step, Elsewhere, Booked, At
<1>4. ASSUME NEW r \in Requests, UpdateCurrentPoints(r) PROVE Summed'
  BY <1>4, <1>go, <1>far DEF UpdateCurrentPoints, Step, Booked, At, InFlight, Keeps
<1>5. ASSUME NEW r \in Requests, AddToRow(r) PROVE Summed'
  <2>1. PICK d \in Teams : d = request[r].team
    BY <1>0, <1>5 DEF Known, AddToRow, At
  <2>2. PICK s \in {"added", "first"} : Goto(r, s) /\ (s = "added" <=> score[d].exists)
    BY <1>5, <2>1 DEF AddToRow
  <2>3. Onward(r, s) /\ Keeps(r) /\ request[r].at = "scoring" /\ UNCHANGED stored
    BY <1>5, <1>go, <2>2 DEF AddToRow, At, InFlight, Step
  <2>4. CASE s = "first"
    <3>1. UNCHANGED score
      BY <1>5, <2>1, <2>2, <2>4 DEF AddToRow
    <3>2. QED
      BY <1>far, <2>1, <2>2, <2>3, <2>4, <3>1 DEF Step, Booked, Keeps
  <2>5. CASE s = "added"
    <3> DEFINE p == request[r].points
               b == score[d]
               a == b.total + p
               k == b.solves + 1
    <3>1. score' = [score EXCEPT ![d] = [b EXCEPT !.total = a, !.solves = k]]
      BY <1>5, <2>1, <2>2, <2>5 DEF AddToRow
    <3>2. b \in Score /\ a \in Nat /\ k \in Nat
      BY <1>0 DEF Score, RequestsTyped, Request
    <3> HIDE DEF a, b, k
    <3> DEFINE v == [b EXCEPT !.total = a, !.solves = k]
    <3>3. v.total = a /\ v.solves = k /\ v.exists = b.exists
      BY <3>2 DEF Score
    <3> HIDE DEF v
    <3>4. score'[d] = v /\ \A t \in Teams \ {d} : score'[t] = score[t]
      BY <1>0, <3>1 DEF v
    <3>5. /\ score'[d].total = score[d].total + request[r].points
          /\ score'[d].solves = score[d].solves + 1 /\ score'[d].exists
      BY <2>2, <2>5, <3>3, <3>4 DEF a, b, k
    <3>6. QED
      BY <1>far, <2>1, <2>3, <2>5, <3>4, <3>5 DEF Step, Booked, Keeps
  <2>6. QED
    BY <2>4, <2>5
<1>6. ASSUME NEW r \in Requests, InsertRow(r) PROVE Summed'
  <2>1. PICK d \in Teams : d = request[r].team
    BY <1>0, <1>6 DEF Known, InsertRow, At
  <2>2. Onward(r, "added") /\ Keeps(r) /\ request[r].at = "first" /\ UNCHANGED stored
    BY <1>6, <1>go DEF InsertRow, At, InFlight, Step
  <2>3. \A t \in Teams \ {d} : score'[t] = score[t]
    BY <1>0, <1>6, <2>1 DEF InsertRow
  <2>4. /\ SolvedBy(d)' = SolvedBy(d)
        /\ \A q \in SolvedBy(d) : request'[q].points = request[q].points
    BY <1>0, <2>2 DEF SolvedBy, Onward, Keeps
  <2>5. ASSUME Serial(d)'
        PROVE  SummedAt(d, Sum(request, SolvedBy(d)), Cardinality(SolvedBy(d)))'
    <3> DEFINE sum == Sum(request, SolvedBy(d))
               n == Cardinality(SolvedBy(d))
    <3>1. /\ SummedAt(d, sum, n)
          /\ \A q \in Requests \ {r} :
                request[q].team = d => request[q].at \in {"new", "done"}
      BY <1>own, <2>1, <2>2, <2>5 DEF Step
    <3>2. sum' = sum /\ n' = n
      BY <1>sum, <2>4
    <3>3. request[r].points \in Nat
      BY SolvesTyped
    <3> HIDE DEF sum, n
    <3>4. ~score[d].exists /\ sum = 0 /\ n = 0
      BY <2>1, <2>2, <3>1 DEF SummedAt, Booked
    <3>5. /\ score'[d].exists /\ score'[d].solves = 1
          /\ score'[d].total = request[r].points
      BY <1>0, <1>6, <2>1, <3>4 DEF InsertRow
    <3>6. SummedAt(d, sum, n)'
      BY <2>1, <2>2, <3>1, <3>2, <3>3, <3>4, <3>5 DEF SummedAt, Onward, Keeps, Booked
    <3>7. QED
      BY <3>6 DEF sum, n
  <2>6. QED
    BY <2>1, <2>2, <2>3, <2>5, SumOnward DEF Step
<1>7. ASSUME NEW r \in Requests, UpdateRanks(r) PROVE Summed'
  BY <1>7, <1>go, <1>far DEF UpdateRanks, Step, Booked, At, InFlight, Keeps
<1>8. ASSUME NEW r \in Requests, StoreSubmission(r) PROVE Summed'
  <2>1. /\ Onward(r, "stored") /\ Keeps(r) /\ request[r].at = "ranked"
        /\ stored' = stored \cup {r} /\ UNCHANGED score
    BY <1>8, <1>go DEF StoreSubmission, At, InFlight, Step
  <2>2. PICK d \in Teams : d = request[r].team
    BY <1>own, <2>1 DEF Step
  <2>3. SolvedBy(d)' = SolvedBy(d) \cup {r} /\ r \notin SolvedBy(d)
    BY <1>0, <2>1, <2>2 DEF SolvedBy, Onward, RequestInv, Kept
  <2>4. ASSUME Serial(d)'
        PROVE  SummedAt(d, Sum(request, SolvedBy(d)), Cardinality(SolvedBy(d)))'
    <3> DEFINE sum == Sum(request, SolvedBy(d))
               n == Cardinality(SolvedBy(d))
               p == request[r].points
    <3>1. /\ SummedAt(d, sum, n)
          /\ \A q \in Requests \ {r} :
                request[q].team = d => request[q].at \in {"new", "done"}
      BY <1>own, <2>1, <2>2, <2>4 DEF Step
    <3>2. n \in Nat /\ n' = n + 1
      BY <2>3, SolvesTyped, FS_AddElement
    <3>3. sum \in Nat /\ p \in Nat /\ sum' = sum + p
      <4>1. /\ IsFiniteSet(SolvedBy(d)) /\ SolvedBy(d) \subseteq Requests
            /\ \A q \in Requests : request[q].points \in Nat /\ sum \in Nat
        BY SolvesTyped
      <4>2. Sum(request, SolvedBy(d) \cup {r}) = sum + p
        BY <2>3, <4>1, SumAdds
      <4>3. Sum(request', SolvedBy(d) \cup {r}) = Sum(request, SolvedBy(d) \cup {r})
        <5>1. IsFiniteSet(SolvedBy(d) \cup {r})
          BY <4>1, FS_AddElement
        <5>2. \A q \in SolvedBy(d) \cup {r} : request'[q].points = request[q].points
          BY <2>1, <4>1 DEF Onward, Keeps
        <5>3. QED
          BY <5>1, <5>2, SumCongruent
      <4>4. sum' = Sum(request', SolvedBy(d) \cup {r})
        BY <2>3
      <4>5. QED
        BY <4>1, <4>2, <4>3, <4>4
    <3>4. score[d].total = sum + p /\ score[d].solves = n + 1
      BY <2>1, <2>2, <3>1 DEF SummedAt, Booked
    <3> HIDE DEF sum, n
    <3>5. score'[d] = score[d] /\ p' = p
      BY <2>1 DEF Keeps
    <3>6. SummedAt(d, sum, n)'
      BY <2>1, <2>2, <3>1, <3>2, <3>3, <3>4, <3>5 DEF SummedAt, Onward, Booked
    <3>7. QED
      BY <3>6 DEF sum, n
  <2>5. QED
    BY <2>1, <2>2, <2>4, SumOnward DEF Step
<1>9. ASSUME NEW r \in Requests, Invalidate(r) PROVE Summed'
  BY <1>9, <1>go, <1>far DEF Invalidate, Step, Booked, At, InFlight, Keeps, tables
<1>10. ASSUME NEW r \in Requests, StatementFails(r) PROVE Summed'
  BY <1>0, <1>10, <1>far, FailDoes DEF Step, Elsewhere, Keeps
<1>11. ASSUME Crash PROVE Summed'
  <2> SUFFICES ASSUME NEW d \in Teams, Serial(d)'
               PROVE  SummedAt(d, Sum(request, SolvedBy(d)), Cardinality(SolvedBy(d)))'
    BY DEF Summed
  <2>1. \A q \in Requests : request[q].team = d => ~InFlight(q)
    BY <1>0, <1>11, CrashDoes DEF Serial, Of
  <2>2. /\ \A q \in Requests : request[q].team = d => request'[q] = request[q]
        /\ \A q \in Requests : request'[q].team = request[q].team
        /\ Serial(d) /\ score' = score /\ stored' = stored
    BY <1>0, <1>11, <2>1, CrashDoes DEF Serial
  <2> DEFINE sum == Sum(request, SolvedBy(d))
             n == Cardinality(SolvedBy(d))
  <2>3. SummedAt(d, sum, n)
    BY <2>2 DEF Summed
  <2>4. /\ SolvedBy(d)' = SolvedBy(d)
        /\ \A q \in SolvedBy(d) : request'[q].points = request[q].points
    BY <1>0, <2>2 DEF SolvedBy
  <2>5. sum' = sum /\ n' = n
    BY <1>sum, <2>4
  <2> HIDE DEF sum, n
  <2>6. SummedAt(d, sum, n)'
    BY <2>2, <2>3, <2>5 DEF SummedAt
  <2>7. QED
    BY <2>6 DEF sum, n
<1>12. ASSUME UNCHANGED <<request, stored, score, mixed, lost>> PROVE Summed'
  <2>1. \A d : Sum(request, SolvedBy(d))' = Sum(request, SolvedBy(d)) /\ SolvedBy(d)' = SolvedBy(d)
    BY <1>12 DEF SolvedBy
  <2>2. QED
    BY <1>12, <2>1 DEF Summed, SummedAt, Serial
<1>13. CASE Load \/ StoreInCache \/ CacheExpires \/ UNCHANGED vars
  BY <1>12, <1>13 DEF Load, StoreInCache, CacheExpires, vars, tables, observers
<1>14. QED
  BY <1>1, <1>2, <1>3, <1>4, <1>5, <1>6, <1>7, <1>8, <1>9, <1>10, <1>11, <1>13
     DEF Next, Progress

(* The score row of a team is the sum of its submissions, and counts them, *)
(* whenever none of its requests is in flight, as long as they never       *)
(* overlapped and no statement of one was lost: AddScore is a relative     *)
(* update, or an insert of a team's first points.                          *)
THEOREM Scores == Spec => []ScoreIsSum
<1>1. TypeInv /\ Summed => ScoreIsSum
  <2> SUFFICES ASSUME TypeInv, Summed, NEW t \in Teams, Quiet(t), Serial(t)
               PROVE  /\ score[t].total = Sum(request, SolvedBy(t))
                      /\ score[t].solves = Cardinality(SolvedBy(t))
    BY DEF ScoreIsSum, Sum
  <2>1. \A r \in Requests : request[r].team = t => request[r].at \notin Booked
    BY DEF Quiet, InFlight, Booked
  <2>2. SummedAt(t, Sum(request, SolvedBy(t)), Cardinality(SolvedBy(t)))
    BY DEF Summed
  <2>3. QED
    BY <2>1, <2>2 DEF SummedAt
<1>2. Spec => [](TypeInv /\ RequestInv /\ Summed)
  BY TypeInit, TypeNext, RequestsInit, RequestsNext, SummedInit, SummedNext, PTL DEF Spec
<1>3. QED
  BY <1>1, <1>2, PTL

-----------------------------------------------------------------------------
(***************************************************************************)
(* The teams of a contest.                                                 *)
(***************************************************************************)
\* The user is past the check for another team.
AdmittedFor(a, u) ==
    Busy(a) /\ ~Stands(a, {"register"}, "counted") /\ admission[a].user = u
Enters(a, i) == Busy(a) /\ admission[a].team = i
Registers(a) == admission[a].kind = "register"

Founders == {"create", "register"}
Joiners == {"join", "invite"}

AdmissionTyped(a) ==
    /\ admission[a].at = "idle" => admission[a] = Idle
    /\ admission[a].kind = "none" <=> admission[a].at = "idle"
    /\ Busy(a) => admission[a].user \in Users
    /\ admission[a].kind \in Joiners =>
           admission[a].at \in {"checked", "counted"} /\ admission[a].team \in DOMAIN teams
    /\ admission[a].kind \in Founders =>
           IF admission[a].at = "founded" THEN admission[a].team \in DOMAIN teams
           ELSE admission[a].team = 0
    /\ admission[a].kind = "create" => admission[a].at # "counted"
    /\ admission[a].kind \in {"create", "join"} => ~solo
    /\ admission[a].kind = "register" => solo

TeamsTyped ==
    /\ TeamsTypeOK
    /\ \A a \in Admissions : AdmissionTyped(a)
    /\ \A i \in DOMAIN teams : IsFiniteSet(Members(i))

\* Of a user whose admissions come one after the other.
UserKept(u) ==
    /\ \A a, b \in Admissions : AdmittedFor(a, u) /\ AdmittedFor(b, u) => a = b
    /\ \A a \in Admissions : AdmittedFor(a, u) => TeamsOf(u) = {}
    /\ \A i, j \in TeamsOf(u) : i = j

\* Of a team whose admissions come one after the other.
TeamKept(i) ==
    /\ \A a, b \in Admissions : Enters(a, i) /\ Enters(b, i) => a = b
    /\ \A a \in Admissions : Enters(a, i) =>
        /\ admission[a].at = "counted" => HasSeat(CountMembers(i))
        /\ admission[a].at = "founded" =>
               teams[i] = admission[a].user /\ \A u \in Users : member[i][u] = "none"
    /\ CountMembers(i) <= Size
    /\ Founding(i) \/ teams[i] \in Members(i)

PlacesKept ==
    /\ \A a, b \in Admissions : Registers(a) /\ Registers(b) => a = b
    /\ \A a \in Admissions : Registers(a) => CountParticipants < MaxParticipants
    /\ CountParticipants <= MaxParticipants

UsersKept == \A u \in Users \ raced : UserKept(u)
SeatsKept == \A i \in DOMAIN teams \ packed : TeamKept(i)
ContestKept == solo /\ packed = {} /\ ~thronged /\ MaxParticipants > 0 => PlacesKept

\* The row that a step leaves the admission a with.
Turned(a, new) ==
    /\ admission'[a] = new
    /\ admission' \in [Admissions -> {new} \cup {admission[b] : b \in Admissions}]
    /\ \A b \in Admissions \ {a} : admission'[b] = admission[b]

LEMMA Bounds ==
    /\ TeamMaxSize \in Nat /\ MaxParticipants \in Nat /\ MaxTeams \in Nat
    /\ MaxEntries \in Nat /\ MaxTeamFaults \in Nat /\ TeamMaxSize > 1
    /\ Nobody \notin Users
BY TeamsAssumption

LEMMA MembersIn == \A i : Members(i) = {u \in Users : member[i][u] = "active"}
BY DEF Members

\* What the handlers do to the request itself.
LEMMA EnterDoes ==
    ASSUME TeamsTyped, NEW a \in Admissions, NEW kind, NEW place, NEW u, NEW i,
           Enter(a, kind, place, u, i)
    PROVE  /\ admission[a] = Idle
           /\ Turned(a, [kind |-> kind, at |-> place, user |-> u, team |-> i])
           /\ entries' \in 0 .. MaxEntries
<1>1. admission[a] = Idle
  BY DEF Enter, Busy, TeamsTyped, AdmissionTyped
<1>2. entries' \in 0 .. MaxEntries
  BY Bounds DEF Enter, TeamsTyped, TeamsTypeOK
<1>3. Turned(a, [kind |-> kind, at |-> place, user |-> u, team |-> i])
  BY DEF Enter, Turned, TeamsTyped, TeamsTypeOK
<1>4. QED
  BY <1>1, <1>2, <1>3

LEMMA ProceedDoes ==
    ASSUME TeamsTyped, NEW a \in Admissions, NEW place, Proceed(a, place)
    PROVE  Turned(a, [admission[a] EXCEPT !.at = place])
BY DEF Proceed, Turned, TeamsTyped, TeamsTypeOK

LEMMA FinishDoes ==
    ASSUME TeamsTyped, NEW a \in Admissions, Finish(a)
    PROVE  Turned(a, Idle)
BY DEF Finish, Turned, TeamsTyped, TeamsTypeOK

LEMMA AnswerDoes ==
    ASSUME TeamsTyped, NEW fails, Answer(fails)
    PROVE  teamFaults' \in 0 .. MaxTeamFaults
BY Bounds DEF Answer, TeamsTyped, TeamsTypeOK

LEMMA RacedDoes ==
    ASSUME TeamsTyped, NEW a \in Admissions, NEW u \in Users, NEW fails, Raced(a, u, fails)
    PROVE  /\ raced \subseteq raced' /\ raced' \subseteq raced \cup {u} /\ raced' \subseteq Users
           /\ u \notin raced' =>
                ~fails /\ \A b \in Admissions \ {a} : Busy(b) => admission[b].user # u
BY DEF Raced, TeamsTyped, TeamsTypeOK

LEMMA PackedDoes ==
    ASSUME TeamsTyped, NEW a \in Admissions, NEW i \in DOMAIN teams, Packed(a, i)
    PROVE  /\ packed \subseteq packed' /\ packed' \subseteq packed \cup {i}
           /\ i \notin packed' =>
                \A b \in Admissions \ {a} : Busy(b) => admission[b].team # i
BY DEF Packed

LEMMA NotInTeamDoes ==
    ASSUME TeamsTyped, NEW a \in Admissions, NEW u \in Users, NotInTeam(a, u)
    PROVE  /\ raced \subseteq raced' /\ raced' \subseteq raced \cup {u} /\ raced' \subseteq Users
           /\ teamFaults' \in 0 .. MaxTeamFaults
           /\ u \notin raced' =>
                TeamsOf(u) = {} /\ \A b \in Admissions \ {a} : Busy(b) => admission[b].user # u
<1>1. PICK fails \in BOOLEAN : /\ fails \/ ~IsInAnyTeam(u)
                               /\ Answer(fails)
                               /\ Raced(a, u, fails)
  BY DEF NotInTeam
<1>2. teamFaults' \in 0 .. MaxTeamFaults
  BY <1>1, AnswerDoes
<1>3. QED
  BY <1>1, <1>2, RacedDoes DEF IsInAnyTeam

-----------------------------------------------------------------------------
(* Type correctness.                                                       *)
LEMMA TeamsTypedInit == TeamsInit => TeamsTyped
<1> SUFFICES ASSUME TeamsInit PROVE TeamsTyped
  OBVIOUS
<1>1. TeamsTypeOK
  <2>1. /\ solo \in BOOLEAN /\ open \in BOOLEAN /\ thronged \in BOOLEAN
        /\ raced \subseteq Users /\ packed \subseteq 1 .. Len(teams)
    BY DEF TeamsInit
  <2>2. /\ teams \in Seq(Users) /\ member \in Seq([Users -> Row])
        /\ Len(teams) = 0 /\ Len(member) = 0
    BY DEF TeamsInit
  <2>3. admission = [a \in Admissions |-> Idle]
    BY DEF TeamsInit
  <2>4. entries \in 0 .. MaxEntries /\ teamFaults \in 0 .. MaxTeamFaults
    BY Bounds DEF TeamsInit
  <2>5. QED
    BY <2>1, <2>2, <2>3, <2>4, Bounds DEF TeamsTypeOK, Idle
<1>2. \A a \in Admissions : AdmissionTyped(a)
  BY DEF TeamsInit, AdmissionTyped, Idle, Busy, Founders, Joiners
<1>3. DOMAIN teams = {}
  BY DEF TeamsInit
<1>4. QED
  BY <1>1, <1>2, <1>3 DEF TeamsTyped

\* The rows are untouched.
LEMMA TypedTurn ==
    ASSUME TeamsTyped, NEW a \in Admissions, NEW new, Turned(a, new),
           new \in [kind : {"none", "create", "join", "invite", "register"},
                    at : {"idle", "checked", "counted", "founded"},
                    user : Users \cup {Nobody}, team : 0 .. Len(teams)],
           AdmissionTyped(a)', UNCHANGED <<teams, member, solo>>,
           open' \in BOOLEAN, entries' \in 0 .. MaxEntries,
           teamFaults' \in 0 .. MaxTeamFaults,
           raced' \subseteq Users, packed' \subseteq 1 .. Len(teams), thronged' \in BOOLEAN
    PROVE  TeamsTyped'
<1>1. TeamsTypeOK'
  <2>1. admission' \in [Admissions ->
           [kind : {"none", "create", "join", "invite", "register"},
            at : {"idle", "checked", "counted", "founded"},
            user : Users \cup {Nobody}, team : 0 .. Len(teams)]]
    BY DEF Turned, TeamsTyped, TeamsTypeOK
  <2>2. QED
    BY <2>1 DEF TeamsTyped, TeamsTypeOK
<1>2. \A b \in Admissions : AdmissionTyped(b)'
  <2>1. ASSUME NEW b \in Admissions, b # a PROVE AdmissionTyped(b)'
    BY <2>1 DEF Turned, TeamsTyped, AdmissionTyped, Busy
  <2>2. QED
    BY <2>1
<1>3. \A i \in DOMAIN teams : IsFiniteSet(Members(i)')
  BY DEF TeamsTyped, Members
<1>4. QED
  BY <1>1, <1>2, <1>3 DEF TeamsTyped

\* A row is inserted, unless there is one; and a row is marked as deleted.
Seated(i, u) == member' = IF HasRow(i, u) THEN member ELSE [member EXCEPT ![i][u] = "active"]

LEMMA WriteRow ==
    ASSUME TeamsTyped, NEW i \in DOMAIN teams, NEW u \in Users, NEW row \in Row,
           member' = [member EXCEPT ![i][u] = row]
    PROVE  /\ member' \in Seq([Users -> Row]) /\ Len(member') = Len(teams)
           /\ \A j \in DOMAIN teams \ {i} : member'[j] = member[j]
           /\ member'[i][u] = row
           /\ \A v \in Users \ {u} : member'[i][v] = member[i][v]
<1>1. /\ member \in Seq([Users -> Row]) /\ i \in 1 .. Len(member) /\ Len(member) = Len(teams)
      /\ DOMAIN teams = 1 .. Len(teams)
  BY DEF TeamsTyped, TeamsTypeOK
<1> DEFINE new == [member[i] EXCEPT ![u] = row]
<1>2. /\ new \in [Users -> Row] /\ new[u] = row
      /\ \A v \in Users \ {u} : new[v] = member[i][v]
  BY <1>1
<1>3. member' = [member EXCEPT ![i] = new]
  OBVIOUS
<1> HIDE DEF new
<1>4. QED
  BY <1>1, <1>2, <1>3

LEMMA SeatedDoes ==
    ASSUME TeamsTyped, NEW i \in DOMAIN teams, NEW u \in Users, Seated(i, u)
    PROVE  /\ member' \in Seq([Users -> Row]) /\ Len(member') = Len(teams)
           /\ \A j \in DOMAIN teams \ {i} : member'[j] = member[j]
           /\ \A v \in Users \ {u} : member'[i][v] = member[i][v]
           /\ member[i][u] # "none" => member'[i][u] = member[i][u]
           /\ member[i][u] = "none" => member'[i][u] = "active"
<1>1. CASE HasRow(i, u)
  BY <1>1 DEF Seated, HasRow, TeamsTyped, TeamsTypeOK
<1>2. CASE ~HasRow(i, u)
  BY <1>2, WriteRow DEF Seated, HasRow, Row
<1>3. QED
  BY <1>1, <1>2

\* The members of a team of which one row changes.
LEMMA OneRow ==
    ASSUME TeamsTyped, NEW i \in DOMAIN teams, NEW u \in Users,
           \A j \in DOMAIN teams \ {i} : member'[j] = member[j],
           \A v \in Users \ {u} : member'[i][v] = member[i][v]
    PROVE  /\ \A j \in DOMAIN teams \ {i} : Members(j)' = Members(j)
           /\ Members(i) \ {u} \subseteq Members(i)'
           /\ Members(i)' \subseteq Members(i) \cup {u}
           /\ \A j \in DOMAIN teams : IsFiniteSet(Members(j)')
<1>1. /\ \A j \in DOMAIN teams \ {i} : Members(j)' = Members(j)
      /\ Members(i) \ {u} \subseteq Members(i)'
      /\ Members(i)' \subseteq Members(i) \cup {u}
  BY DEF Members
<1>2. IsFiniteSet(Members(i)')
  BY <1>1, FS_AddElement, FS_Subset DEF TeamsTyped
<1>3. QED
  BY <1>1, <1>2 DEF TeamsTyped

\* A request ends with at most one row changed.
LEMMA TypedIdle ==
    ASSUME TeamsTyped, NEW a \in Admissions, Turned(a, Idle),
           UNCHANGED <<solo, open, teams, entries, teamFaults>>,
           UNCHANGED <<raced, packed, thronged>>,
           member' \in Seq([Users -> Row]), Len(member') = Len(teams),
           \A j \in DOMAIN teams : IsFiniteSet(Members(j)')
    PROVE  TeamsTyped'
<1>1. TeamsTypeOK'
  <2>1. admission' \in [Admissions ->
           [kind : {"none", "create", "join", "invite", "register"},
            at : {"idle", "checked", "counted", "founded"},
            user : Users \cup {Nobody}, team : 0 .. Len(teams)]]
    <3>1. Len(teams) \in Nat
      BY DEF TeamsTyped, TeamsTypeOK
    <3>2. QED
      BY <3>1 DEF Turned, TeamsTyped, TeamsTypeOK, Idle
  <2>2. QED
    BY <2>1 DEF TeamsTyped, TeamsTypeOK
<1>2. \A b \in Admissions : AdmissionTyped(b)'
  <2>1. ASSUME NEW b \in Admissions, b # a PROVE AdmissionTyped(b)'
    BY <2>1 DEF Turned, TeamsTyped, AdmissionTyped, Busy
  <2>2. AdmissionTyped(a)'
    BY DEF Turned, Idle, AdmissionTyped, Busy, Founders, Joiners
  <2>3. QED
    BY <2>1, <2>2
<1>3. QED
  BY <1>1, <1>2 DEF TeamsTyped

LEMMA TeamsTypedNext == TeamsTyped /\ [TeamsNext]_teamVars => TeamsTyped'
<1> SUFFICES ASSUME TeamsTyped, [TeamsNext]_teamVars PROVE TeamsTyped'
  OBVIOUS
<1> USE DEF Founders, Joiners
<1>0. /\ TeamsTypeOK
      /\ \A a \in Admissions : AdmissionTyped(a)
      /\ \A i \in DOMAIN teams : IsFiniteSet(Members(i))
      /\ DOMAIN teams = 1 .. Len(teams) /\ Len(teams) \in Nat
  BY DEF TeamsTyped, TeamsTypeOK
<1>1. ASSUME NEW a \in Admissions, NEW u \in Users, CreateTeam(a, u) PROVE TeamsTyped'
  <2> DEFINE new == [kind |-> "create", at |-> "checked", user |-> u, team |-> 0]
  <2>1. Turned(a, new) /\ entries' \in 0 .. MaxEntries
    BY <1>1, EnterDoes DEF CreateTeam
  <2>2. raced' \subseteq Users /\ teamFaults' \in 0 .. MaxTeamFaults
    BY <1>1, NotInTeamDoes DEF CreateTeam
  <2>3. AdmissionTyped(a)'
    BY <1>1, <2>1 DEF CreateTeam, Turned, AdmissionTyped, Busy
  <2>4. QED
    BY <1>0, <1>1, <2>1, <2>2, <2>3, TypedTurn DEF CreateTeam, TeamsTypeOK
<1>2. ASSUME NEW a \in Admissions, NEW u \in Users, NEW i \in DOMAIN teams, JoinTeam(a, u, i)
      PROVE  TeamsTyped'
  <2> DEFINE new == [kind |-> "join", at |-> "checked", user |-> u, team |-> i]
  <2>1. Turned(a, new) /\ entries' \in 0 .. MaxEntries
    BY <1>2, EnterDoes DEF JoinTeam
  <2>2. raced' \subseteq Users /\ teamFaults' \in 0 .. MaxTeamFaults
    BY <1>2, NotInTeamDoes DEF JoinTeam
  <2>3. AdmissionTyped(a)'
    BY <1>2, <2>1 DEF JoinTeam, Turned, AdmissionTyped, Busy
  <2>4. packed' \subseteq 1 .. Len(teams)
    BY <1>0, <1>2, PackedDoes DEF JoinTeam, TeamsTypeOK
  <2>5. QED
    BY <1>0, <1>2, <2>1, <2>2, <2>3, <2>4, TypedTurn DEF JoinTeam, TeamsTypeOK
<1>3. ASSUME NEW a \in Admissions, NEW u \in Users, NEW i \in DOMAIN teams,
             InviteTeamMember(a, i, u)
      PROVE  TeamsTyped'
  <2> DEFINE new == [kind |-> "invite", at |-> "checked", user |-> u, team |-> i]
  <2>1. Turned(a, new) /\ entries' \in 0 .. MaxEntries
    BY <1>3, EnterDoes DEF InviteTeamMember
  <2>2. raced' \subseteq Users /\ teamFaults' \in 0 .. MaxTeamFaults
    BY <1>3, NotInTeamDoes DEF InviteTeamMember
  <2>3. AdmissionTyped(a)'
    BY <1>3, <2>1 DEF InviteTeamMember, Turned, AdmissionTyped, Busy
  <2>4. packed' \subseteq 1 .. Len(teams)
    BY <1>0, <1>3, PackedDoes DEF InviteTeamMember, TeamsTypeOK
  <2>5. QED
    BY <1>0, <1>3, <2>1, <2>2, <2>3, <2>4, TypedTurn DEF InviteTeamMember, TeamsTypeOK
<1>4. ASSUME NEW a \in Admissions, NEW u \in Users, RegisterContest(a, u) PROVE TeamsTyped'
  <2> DEFINE new == [kind |-> "register", at |-> "counted", user |-> u, team |-> 0]
  <2>1. Turned(a, new) /\ entries' \in 0 .. MaxEntries
    BY <1>4, EnterDoes DEF RegisterContest
  <2>2. thronged' \in BOOLEAN /\ teamFaults' \in 0 .. MaxTeamFaults
    <3>1. PICK fails \in BOOLEAN :
            /\ Answer(fails)
            /\ thronged' = (thronged \/ fails
                  \/ \E b \in Admissions : Busy(b) /\ admission[b].kind = "register")
      BY <1>4 DEF RegisterContest
    <3>2. QED
      BY <3>1, AnswerDoes
  <2>3. AdmissionTyped(a)'
    BY <1>4, <2>1 DEF RegisterContest, Turned, AdmissionTyped, Busy
  <2>4. QED
    BY <1>0, <1>4, <2>1, <2>2, <2>3, TypedTurn DEF RegisterContest, TeamsTypeOK
<1>5. ASSUME NEW a \in Admissions, RegisterChecks(a) PROVE TeamsTyped'
  <2> DEFINE new == [admission[a] EXCEPT !.at = "checked"]
  <2>1. Turned(a, new) /\ admission[a].user \in Users
    BY <1>0, <1>5, ProceedDoes DEF RegisterChecks, Stands, AdmissionTyped, Busy
  <2>2. raced' \subseteq Users /\ teamFaults' \in 0 .. MaxTeamFaults
    BY <1>5, <2>1, NotInTeamDoes DEF RegisterChecks
  <2>3. AdmissionTyped(a)'
    BY <1>0, <1>5, <2>1 DEF RegisterChecks, Stands, Turned, AdmissionTyped, Busy, TeamsTypeOK
  <2>4. QED
    BY <1>0, <1>5, <2>1, <2>2, <2>3, TypedTurn DEF RegisterChecks, TeamsTypeOK
<1>6. ASSUME NEW a \in Admissions, InsertTeam(a) PROVE TeamsTyped'
  <2>0. admission[a].kind \in Founders /\ admission[a].at = "checked"
        /\ admission[a].user \in Users
    BY <1>0, <1>6 DEF InsertTeam, Stands, AdmissionTyped, Busy
  <2> DEFINE n == Len(teams) + 1
             none == [u \in Users |-> "none"]
  <2>1. /\ teams' \in Seq(Users) /\ Len(teams') = n /\ DOMAIN teams' = 1 .. n
        /\ n <= MaxTeams /\ n \in Nat
    BY <1>0, <1>6, <2>0, Bounds DEF InsertTeam, TeamsTypeOK
  <2>2. /\ member' \in Seq([Users -> Row]) /\ Len(member') = n
        /\ \A i \in 1 .. Len(teams) : member'[i] = member[i]
        /\ member'[n] = none
    <3>1. none \in [Users -> Row]
      BY DEF Row
    <3> HIDE DEF none
    <3>2. QED
      BY <1>0, <1>6, <3>1 DEF InsertTeam, TeamsTypeOK, none
  <2>3. /\ admission'[a].kind = admission[a].kind /\ admission'[a].at = "founded"
        /\ admission'[a].user = admission[a].user /\ admission'[a].team = n
        /\ \A b \in Admissions \ {a} : admission'[b] = admission[b]
    BY <1>0, <1>6 DEF InsertTeam, TeamsTypeOK
  <2>4. admission' \in [Admissions ->
           [kind : {"none", "create", "join", "invite", "register"},
            at : {"idle", "checked", "counted", "founded"},
            user : Users \cup {Nobody}, team : 0 .. n]]
    BY <1>0, <1>6, <2>1 DEF InsertTeam, TeamsTypeOK
  <2>5. TeamsTypeOK'
    BY <1>0, <1>6, <2>1, <2>2, <2>4 DEF InsertTeam, teamObservers, TeamsTypeOK
  <2>6. \A b \in Admissions : AdmissionTyped(b)'
    <3>0. DOMAIN teams \subseteq DOMAIN teams' /\ n \in DOMAIN teams' /\ solo' = solo
      BY <1>0, <1>6, <2>1 DEF InsertTeam
    <3>1. AdmissionTyped(a)'
      <4>1. AdmissionTyped(a)
        BY <1>0
      <4>2. QED
        BY <2>0, <2>3, <3>0, <4>1 DEF AdmissionTyped, Busy
    <3>2. ASSUME NEW b \in Admissions, b # a PROVE AdmissionTyped(b)'
      <4>1. AdmissionTyped(b) /\ admission'[b] = admission[b]
        BY <1>0, <2>3, <3>2
      <4>2. QED
        BY <3>0, <4>1 DEF AdmissionTyped, Busy
    <3>3. QED
      BY <3>1, <3>2
  <2>7. ASSUME NEW i \in DOMAIN teams' PROVE IsFiniteSet(Members(i)')
    <3>1. CASE i = n
      <4>1. Members(i)' = {}
        BY <2>2, <3>1 DEF Members
      <4>2. QED
        BY <4>1, FS_EmptySet
    <3>2. CASE i \in 1 .. Len(teams)
      <4>1. Members(i)' = Members(i)
        BY <2>2, <3>2 DEF Members
      <4>2. QED
        BY <1>0, <3>2, <4>1
    <3>3. QED
      BY <1>0, <2>1, <3>1, <3>2
  <2>8. QED
    BY <2>5, <2>6, <2>7 DEF TeamsTyped
<1>7. ASSUME NEW a \in Admissions, InsertLeader(a) \/ InsertMember(a) PROVE TeamsTyped'
  <2> DEFINE i == admission[a].team
             u == admission[a].user
  <2>1. i \in DOMAIN teams /\ u \in Users
    BY <1>0, <1>7 DEF InsertLeader, InsertMember, Stands, AdmissionTyped, Busy
  <2>2. Seated(i, u) /\ Finish(a) /\ UNCHANGED <<solo, open, teams, entries, teamFaults>>
        /\ UNCHANGED <<raced, packed, thronged>>
    BY <1>7 DEF InsertLeader, InsertMember, Seated, teamObservers
  <2> HIDE DEF i, u
  <2>3. Turned(a, Idle)
    BY <2>2, FinishDoes
  <2>4. /\ member' \in Seq([Users -> Row]) /\ Len(member') = Len(teams)
        /\ \A j \in DOMAIN teams : IsFiniteSet(Members(j)')
    BY <2>1, <2>2, SeatedDoes, OneRow
  <2>5. QED
    BY <2>2, <2>3, <2>4, TypedIdle
<1>8. ASSUME NEW a \in Admissions, CountSeats(a) PROVE TeamsTyped'
  <2> DEFINE new == [admission[a] EXCEPT !.at = "counted"]
  <2>1. PICK fails \in BOOLEAN :
          /\ Answer(fails)
          /\ packed' = IF fails THEN packed \cup {admission[a].team} ELSE packed
    BY <1>8 DEF CountSeats
  <2>2. Turned(a, new) /\ admission[a].team \in DOMAIN teams
    BY <1>0, <1>8, ProceedDoes DEF CountSeats, Stands, AdmissionTyped, Busy
  <2>3. packed' \subseteq 1 .. Len(teams) /\ teamFaults' \in 0 .. MaxTeamFaults
    BY <1>0, <2>1, <2>2, AnswerDoes DEF TeamsTypeOK
  <2>4. AdmissionTyped(a)'
    BY <1>0, <1>8, <2>2 DEF CountSeats, Stands, Turned, AdmissionTyped, Busy, TeamsTypeOK
  <2>5. QED
    BY <1>0, <1>8, <2>2, <2>3, <2>4, TypedTurn DEF CountSeats, TeamsTypeOK
<1>9. ASSUME NEW a \in Admissions, Refuse(a) PROVE TeamsTyped'
  <2>1. Turned(a, Idle) /\ Busy(a)
    BY <1>9, FinishDoes DEF Refuse
  <2>2. packed' \subseteq 1 .. Len(teams) /\ teamFaults' \in 0 .. MaxTeamFaults
    <3>1. CASE UNCHANGED <<teamFaults, packed>>
      BY <1>0, <3>1 DEF TeamsTypeOK
    <3>2. CASE /\ teamFaults < MaxTeamFaults /\ teamFaults' = teamFaults + 1
               /\ packed' = IF admission[a].team = 0 THEN packed
                            ELSE packed \cup {admission[a].team}
      <4>1. admission[a].team \in 0 .. Len(teams)
        BY <1>0 DEF TeamsTypeOK
      <4>2. teamFaults' \in 0 .. MaxTeamFaults
        BY <1>0, <3>2, Bounds DEF TeamsTypeOK
      <4>3. packed' \subseteq 1 .. Len(teams)
        <5>1. packed \subseteq 1 .. Len(teams) /\ Len(teams) \in Nat
          BY <1>0 DEF TeamsTypeOK
        <5>2. admission[a].team # 0 => admission[a].team \in 1 .. Len(teams)
          BY <4>1, <5>1
        <5>3. QED
          BY <3>2, <5>1, <5>2
      <4>4. QED
        BY <4>2, <4>3
    <3>3. QED
      BY <1>9, <3>1, <3>2 DEF Refuse
  <2>3. AdmissionTyped(a)'
    BY <2>1 DEF Turned, Idle, AdmissionTyped, Busy
  <2>4. QED
    BY <1>0, <1>9, <2>1, <2>2, <2>3, TypedTurn DEF Refuse, TeamsTypeOK, Idle
<1>10. ASSUME NEW i \in DOMAIN teams, NEW u \in Users, LeaveTeam(i, u) PROVE TeamsTyped'
  <2>1. /\ member' \in Seq([Users -> Row]) /\ Len(member') = Len(teams)
        /\ \A j \in DOMAIN teams : IsFiniteSet(Members(j)')
    <3>1. member' = [member EXCEPT ![i][u] = "deleted"] /\ "deleted" \in Row
      BY <1>10 DEF LeaveTeam, Row
    <3>2. /\ member' \in Seq([Users -> Row]) /\ Len(member') = Len(teams)
          /\ \A j \in DOMAIN teams \ {i} : member'[j] = member[j]
          /\ \A v \in Users \ {u} : member'[i][v] = member[i][v]
      BY <3>1, WriteRow
    <3>3. QED
      BY <3>2, OneRow
  <2>2. TeamsTypeOK'
    BY <1>0, <1>10, <2>1 DEF LeaveTeam, teamObservers, TeamsTypeOK
  <2>3. \A b \in Admissions : AdmissionTyped(b)'
    BY <1>0, <1>10 DEF LeaveTeam, AdmissionTyped, Busy
  <2>4. QED
    BY <1>10, <2>1, <2>2, <2>3 DEF TeamsTyped, LeaveTeam
<1>11. CASE RegistrationEnds \/ UNCHANGED teamVars
  <2>1. UNCHANGED <<solo, teams, member, admission, entries, teamFaults, raced, packed, thronged>>
        /\ open' \in BOOLEAN
    BY <1>0, <1>11 DEF RegistrationEnds, teamVars, teamObservers, TeamsTypeOK
  <2>2. TeamsTypeOK'
    BY <1>0, <2>1 DEF TeamsTypeOK
  <2>3. \A b \in Admissions : AdmissionTyped(b)'
    BY <1>0, <2>1 DEF AdmissionTyped, Busy
  <2>4. \A i \in DOMAIN teams : IsFiniteSet(Members(i)')
    BY <1>0, <2>1 DEF Members
  <2>5. QED
    BY <2>1, <2>2, <2>3, <2>4 DEF TeamsTyped
<1>12. QED
  BY <1>1, <1>2, <1>3, <1>4, <1>5, <1>6, <1>7, <1>8, <1>9, <1>10, <1>11 DEF TeamsNext

(* Type correctness of every state.                                        *)
THEOREM TeamsTypeCorrect == TeamsSpec => []TeamsTypeOK
<1>1. TeamsTyped => TeamsTypeOK
  BY DEF TeamsTyped
<1>2. QED
  BY <1>1, TeamsTypedInit, TeamsTypedNext, PTL DEF TeamsSpec
-----------------------------------------------------------------------------
(* A user is in one team.                                                  *)
LEMMA TeamsOfKept ==
    ASSUME UNCHANGED <<teams, member>>
    PROVE  /\ \A u : TeamsOf(u)' = TeamsOf(u)
           /\ \A i : Members(i)' = Members(i) /\ CountMembers(i)' = CountMembers(i)
BY DEF TeamsOf, Members, CountMembers

LEMMA UserOnward ==
    ASSUME NEW u \in Users, UserKept(u), TeamsOf(u)' \subseteq TeamsOf(u),
           \A b \in Admissions : AdmittedFor(b, u)' => AdmittedFor(b, u)
    PROVE  UserKept(u)'
<1>1. /\ \A a, b \in Admissions : AdmittedFor(a, u) /\ AdmittedFor(b, u) => a = b
      /\ \A a \in Admissions : AdmittedFor(a, u) => TeamsOf(u) = {}
      /\ \A i, j \in TeamsOf(u) : i = j
  BY DEF UserKept
<1>2. /\ \A a, b \in Admissions : AdmittedFor(a, u)' /\ AdmittedFor(b, u)' => a = b
      /\ \A a \in Admissions : AdmittedFor(a, u)' => TeamsOf(u)' = {}
      /\ \A i, j \in TeamsOf(u)' : i = j
  BY <1>1
<1>3. QED
  BY <1>2 DEF UserKept

LEMMA UserEnters ==
    ASSUME NEW u \in Users, NEW a \in Admissions, TeamsOf(u)' = {},
           \A b \in Admissions \ {a} : ~AdmittedFor(b, u)'
    PROVE  UserKept(u)'
BY DEF UserKept

LEMMA UserSits ==
    ASSUME NEW u \in Users, NEW i, TeamsOf(u)' \subseteq {i},
           \A b \in Admissions : ~AdmittedFor(b, u)'
    PROVE  UserKept(u)'
BY DEF UserKept

\* Who is admitted in the next state, by what the step does to one request.
LEMMA TurnedFor ==
    ASSUME TeamsTyped, NEW a \in Admissions, NEW new, Turned(a, new), NEW u \in Users
    PROVE  /\ \A b \in Admissions \ {a} : AdmittedFor(b, u)' <=> AdmittedFor(b, u)
           /\ AdmittedFor(a, u)' <=>
                 new.at # "idle" /\ ~(new.kind = "register" /\ new.at = "counted") /\ new.user = u
BY DEF Turned, AdmittedFor, Busy, Stands

\* A request enters, or is past the check, of a user v.
LEMMA UsersAdmit ==
    ASSUME TeamsTyped, UsersKept, NEW a \in Admissions, NEW new, Turned(a, new),
           NEW v \in Users, new.user = v, UNCHANGED <<teams, member>>,
           raced \subseteq raced',
           v \notin raced' => TeamsOf(v) = {} /\ \A b \in Admissions \ {a} :
                                                    Busy(b) => admission[b].user # v
    PROVE  UsersKept'
<1> SUFFICES ASSUME NEW u \in Users \ raced' PROVE UserKept(u)'
  BY DEF UsersKept
<1>1. UserKept(u) /\ TeamsOf(u)' = TeamsOf(u)
  BY TeamsOfKept DEF UsersKept
<1>2. CASE u = v
  <2>1. TeamsOf(u)' = {}
    BY <1>1, <1>2
  <2>2. \A b \in Admissions \ {a} : ~AdmittedFor(b, u)'
    BY <1>2, TurnedFor DEF AdmittedFor
  <2>3. QED
    BY <2>1, <2>2, UserEnters
<1>3. CASE u # v
  <2>1. \A b \in Admissions : AdmittedFor(b, u)' => AdmittedFor(b, u)
    BY <1>3, TurnedFor
  <2>2. QED
    BY <1>1, <2>1, UserOnward
<1>4. QED
  BY <1>2, <1>3

\* Nobody is admitted.
LEMMA UsersOnward ==
    ASSUME UsersKept, raced \subseteq raced',
           \A u \in Users : /\ TeamsOf(u)' \subseteq TeamsOf(u)
                            /\ \A b \in Admissions : AdmittedFor(b, u)' => AdmittedFor(b, u)
    PROVE  UsersKept'
BY UserOnward DEF UsersKept

LEMMA UsersInit == TeamsInit => UsersKept
BY DEF TeamsInit, UsersKept, UserKept, AdmittedFor, Busy, Idle, TeamsOf

LEMMA UsersNext == TeamsTyped /\ UsersKept /\ [TeamsNext]_teamVars => UsersKept'
<1> SUFFICES ASSUME TeamsTyped, UsersKept, [TeamsNext]_teamVars PROVE UsersKept'
  OBVIOUS
<1>0. /\ \A a \in Admissions : AdmissionTyped(a)
      /\ DOMAIN teams = 1 .. Len(teams) /\ Len(teams) \in Nat
  BY DEF TeamsTyped, TeamsTypeOK
<1>1. ASSUME NEW a \in Admissions, NEW u \in Users,
             \/ CreateTeam(a, u)
             \/ \E i \in DOMAIN teams : JoinTeam(a, u, i) \/ InviteTeamMember(a, i, u)
      PROVE  UsersKept'
  <2>1. PICK kind \in {"create", "join", "invite"}, i \in 0 .. Len(teams) :
          Enter(a, kind, "checked", u, i)
    BY <1>0, <1>1 DEF CreateTeam, JoinTeam, InviteTeamMember
  <2>2. NotInTeam(a, u) /\ UNCHANGED <<teams, member>>
    BY <1>1 DEF CreateTeam, JoinTeam, InviteTeamMember
  <2> DEFINE new == [kind |-> kind, at |-> "checked", user |-> u, team |-> i]
  <2>3. Turned(a, new)
    BY <2>1, EnterDoes
  <2>4. new.user = u
    OBVIOUS
  <2> HIDE DEF new
  <2>5. QED
    BY <2>2, <2>3, <2>4, NotInTeamDoes, UsersAdmit
<1>2. ASSUME NEW a \in Admissions, NEW u \in Users, RegisterContest(a, u) PROVE UsersKept'
  <2> DEFINE new == [kind |-> "register", at |-> "counted", user |-> u, team |-> 0]
  <2>1. Turned(a, new)
    BY <1>2, EnterDoes DEF RegisterContest
  <2>2. \A v \in Users, b \in Admissions : AdmittedFor(b, v)' => AdmittedFor(b, v)
    BY <2>1, TurnedFor
  <2>3. QED
    BY <1>2, <2>2, TeamsOfKept, UsersOnward DEF RegisterContest
<1>3. ASSUME NEW a \in Admissions, RegisterChecks(a) PROVE UsersKept'
  <2> DEFINE new == [admission[a] EXCEPT !.at = "checked"]
  <2>1. Turned(a, new) /\ admission[a].user \in Users
    BY <1>0, <1>3, ProceedDoes DEF RegisterChecks, Stands, AdmissionTyped, Busy
  <2>2. new.user = admission[a].user
    BY DEF TeamsTyped, TeamsTypeOK
  <2> HIDE DEF new
  <2>3. NotInTeam(a, admission[a].user) /\ UNCHANGED <<teams, member>>
    BY <1>3 DEF RegisterChecks
  <2>4. QED
    BY <2>1, <2>2, <2>3, NotInTeamDoes, UsersAdmit
<1>4. ASSUME NEW a \in Admissions, InsertTeam(a) PROVE UsersKept'
  <2>1. \A u \in Users, b \in Admissions : AdmittedFor(b, u)' => AdmittedFor(b, u)
    BY <1>0, <1>4 DEF InsertTeam, Stands, AdmittedFor, Busy, TeamsTyped, TeamsTypeOK
  <2>2. ASSUME NEW u \in Users PROVE TeamsOf(u)' \subseteq TeamsOf(u)
    <3>1. /\ DOMAIN teams' = 1 .. Len(teams) + 1
          /\ \A i \in 1 .. Len(teams) : member'[i] = member[i]
          /\ member'[Len(teams) + 1][u] = "none"
      BY <1>0, <1>4 DEF InsertTeam, TeamsTyped, TeamsTypeOK
    <3>2. QED
      BY <1>0, <3>1 DEF TeamsOf, Members
  <2>3. QED
    BY <1>4, <2>1, <2>2, UsersOnward DEF InsertTeam, teamObservers
<1>5. ASSUME NEW a \in Admissions, InsertLeader(a) \/ InsertMember(a) PROVE UsersKept'
  <2> DEFINE i == admission[a].team
             v == admission[a].user
  <2>1. i \in DOMAIN teams /\ v \in Users /\ AdmittedFor(a, v)
    BY <1>0, <1>5
    DEF InsertLeader, InsertMember, Stands, AdmissionTyped, AdmittedFor, Busy, Founders, Joiners
  <2>2. Seated(i, v) /\ Finish(a) /\ UNCHANGED <<teams, raced>>
    BY <1>5 DEF InsertLeader, InsertMember, Seated, teamObservers
  <2> HIDE DEF i, v
  <2>3. Turned(a, Idle)
    BY <2>2, FinishDoes
  <2>4. /\ \A j \in DOMAIN teams \ {i} : member'[j] = member[j]
        /\ \A w \in Users \ {v} : member'[i][w] = member[i][w]
    BY <2>1, <2>2, SeatedDoes
  <2> SUFFICES ASSUME NEW u \in Users \ raced PROVE UserKept(u)'
    BY <2>2 DEF UsersKept
  <2>5. UserKept(u)
    BY DEF UsersKept
  <2>6. /\ \A b \in Admissions \ {a} : AdmittedFor(b, u)' <=> AdmittedFor(b, u)
        /\ ~AdmittedFor(a, u)'
    BY <2>3, TurnedFor DEF Idle
  <2>7. CASE u = v
    <3>1. TeamsOf(u) = {} /\ \A b \in Admissions \ {a} : ~AdmittedFor(b, u)
      BY <2>1, <2>5, <2>7 DEF UserKept
    <3>2. TeamsOf(u)' \subseteq {i}
      BY <2>2, <2>4, <3>1 DEF TeamsOf, Members
    <3>3. QED
      BY <2>6, <3>1, <3>2, UserSits
  <2>8. CASE u # v
    <3>1. TeamsOf(u)' \subseteq TeamsOf(u)
      BY <2>1, <2>2, <2>4, <2>8 DEF TeamsOf, Members
    <3>2. QED
      BY <2>5, <2>6, <3>1, UserOnward
  <2>9. QED
    BY <2>7, <2>8
<1>6. ASSUME NEW a \in Admissions, CountSeats(a) PROVE UsersKept'
  <2> DEFINE new == [admission[a] EXCEPT !.at = "counted"]
  <2>1. Turned(a, new) /\ admission[a].kind \in Joiners /\ Busy(a)
    BY <1>6, ProceedDoes DEF CountSeats, Stands, Joiners, Busy
  <2>2. new.user = admission[a].user
    BY DEF TeamsTyped, TeamsTypeOK
  <2> HIDE DEF new
  <2>3. \A u \in Users, b \in Admissions : AdmittedFor(b, u)' => AdmittedFor(b, u)
    BY <2>1, <2>2, TurnedFor DEF AdmittedFor, Joiners, Stands
  <2>4. QED
    BY <1>6, <2>3, TeamsOfKept, UsersOnward DEF CountSeats
<1>7. ASSUME NEW a \in Admissions, Refuse(a) PROVE UsersKept'
  <2>1. Turned(a, Idle)
    BY <1>7, FinishDoes DEF Refuse
  <2>2. \A u \in Users, b \in Admissions : AdmittedFor(b, u)' => AdmittedFor(b, u)
    BY <2>1, TurnedFor DEF Idle
  <2>3. QED
    BY <1>7, <2>2, TeamsOfKept, UsersOnward DEF Refuse
<1>8. ASSUME NEW i \in DOMAIN teams, NEW u \in Users, LeaveTeam(i, u) PROVE UsersKept'
  <2>1. \A v \in Users, b \in Admissions : AdmittedFor(b, v)' <=> AdmittedFor(b, v)
    BY <1>8 DEF LeaveTeam, AdmittedFor, Busy, Stands
  <2>2. PICK row \in Row : row # "active" /\ member' = [member EXCEPT ![i][u] = row]
    BY <1>8 DEF LeaveTeam, Row
  <2>3. /\ \A j \in DOMAIN teams \ {i} : member'[j] = member[j]
        /\ \A v \in Users \ {u} : member'[i][v] = member[i][v]
        /\ member'[i][u] # "active"
    BY <2>2, WriteRow, ZenonT(60)
  <2>4. \A v \in Users : TeamsOf(v)' \subseteq TeamsOf(v)
    BY <1>8, <2>3 DEF LeaveTeam, TeamsOf, Members
  <2>5. QED
    BY <1>8, <2>1, <2>4, UsersOnward DEF LeaveTeam, teamObservers
<1>9. CASE RegistrationEnds \/ UNCHANGED teamVars
  <2>1. UNCHANGED <<teams, member, admission, raced>>
    BY <1>9 DEF RegistrationEnds, teamVars, teamObservers
  <2>2. \A u \in Users, b \in Admissions : AdmittedFor(b, u)' <=> AdmittedFor(b, u)
    BY <2>1 DEF AdmittedFor, Busy, Stands
  <2>3. QED
    BY <2>1, <2>2, TeamsOfKept, UsersOnward
<1>10. QED
  BY <1>1, <1>2, <1>3, <1>4, <1>5, <1>6, <1>7, <1>8, <1>9 DEF TeamsNext
-----------------------------------------------------------------------------
(* A team keeps to its size and has its leader.                            *)
LEMMA SizeNat == Size \in Nat /\ Size >= 1
BY Bounds DEF Size

LEMMA CountNat ==
    ASSUME TeamsTyped, NEW i \in DOMAIN teams
    PROVE  CountMembers(i) \in Nat
BY FS_CardinalityType DEF TeamsTyped, CountMembers

\* The team is as it was, and who enters it, too.
LEMMA TeamOnward ==
    ASSUME NEW i \in DOMAIN teams, TeamKept(i), UNCHANGED solo,
           member'[i] = member[i], teams'[i] = teams[i],
           \A b \in Admissions : Enters(b, i)' => Enters(b, i) /\ admission'[b] = admission[b],
           Founding(i) => Founding(i)'
    PROVE  TeamKept(i)'
<1>1. Members(i)' = Members(i) /\ CountMembers(i)' = CountMembers(i) /\ Size' = Size
  BY DEF Members, CountMembers, Size
<1>2. \A a, b \in Admissions : Enters(a, i)' /\ Enters(b, i)' => a = b
  BY DEF TeamKept
<1>3. \A a \in Admissions : Enters(a, i)' =>
        /\ admission'[a].at = "counted" => HasSeat(CountMembers(i))'
        /\ admission'[a].at = "founded" =>
               teams'[i] = admission'[a].user /\ \A u \in Users : member'[i][u] = "none"
  BY <1>1 DEF TeamKept, HasSeat
<1>4. QED
  BY <1>1, <1>2, <1>3 DEF TeamKept

\* Nobody enters team i in this step, and nobody who founds it gives up.
LEMMA TurnedElsewhere ==
    ASSUME TeamsTyped, NEW a \in Admissions, NEW new, Turned(a, new), NEW i \in DOMAIN teams,
           new.at = "idle" \/ new.team # i,
           ~(Stands(a, {"create", "register"}, "founded") /\ admission[a].team = i)
    PROVE  /\ \A b \in Admissions : Enters(b, i)' => Enters(b, i) /\ admission'[b] = admission[b]
           /\ Founding(i) => Founding(i)'
BY DEF Turned, Enters, Busy, Founding, Stands

LEMMA SeatsInit == TeamsInit => SeatsKept
BY DEF TeamsInit, SeatsKept

\* A request a enters team i.
LEMMA SeatsEntered ==
    ASSUME TeamsTyped, SeatsKept, NEW a \in Admissions, NEW new, Turned(a, new),
           NEW j \in DOMAIN teams, new.team = j, new.at = "checked", admission[a] = Idle,
           UNCHANGED <<solo, teams, member>>, packed \subseteq packed',
           j \notin packed' => \A b \in Admissions \ {a} : Busy(b) => admission[b].team # j
    PROVE  SeatsKept'
<1> SUFFICES ASSUME NEW i \in DOMAIN teams \ packed' PROVE TeamKept(i)'
  BY DEF SeatsKept
<1>1. TeamKept(i)
  BY DEF SeatsKept
<1>2. CASE i = j
  <2>1. \A b \in Admissions : ~Enters(b, i)
    BY <1>2 DEF Enters, Busy, Idle
  <2>2. ~Founding(i)
    BY <2>1 DEF Founding, Enters, Busy, Stands
  <2>3. \A b \in Admissions : Enters(b, i)' => b = a
    BY <2>1 DEF Turned, Enters, Busy
  <2>4. admission'[a].at = "checked"
    BY DEF Turned
  <2>5. CountMembers(i)' <= Size' /\ teams'[i] \in Members(i)'
    BY <1>1, <2>2, TeamsOfKept DEF TeamKept, Size
  <2>6. QED
    BY <2>3, <2>4, <2>5 DEF TeamKept
<1>3. CASE i # j
  <2>1. /\ \A b \in Admissions : Enters(b, i)' => Enters(b, i) /\ admission'[b] = admission[b]
        /\ Founding(i) => Founding(i)'
    BY <1>3, TurnedElsewhere DEF Stands, Idle
  <2>2. QED
    BY <1>1, <2>1, TeamOnward
<1>4. QED
  BY <1>2, <1>3

\* A request that is in no team stays there, or one ends that founded none.
LEMMA SeatsElsewhere ==
    ASSUME TeamsTyped, SeatsKept, NEW a \in Admissions, NEW new, Turned(a, new),
           new.at = "idle" \/ new.team \notin DOMAIN teams, UNCHANGED <<solo, teams, member>>,
           packed \subseteq packed',
           Stands(a, {"create", "register"}, "founded") => admission[a].team \in packed'
    PROVE  SeatsKept'
<1> SUFFICES ASSUME NEW i \in DOMAIN teams \ packed' PROVE TeamKept(i)'
  BY DEF SeatsKept
<1>1. TeamKept(i)
  BY DEF SeatsKept
<1>2. /\ \A b \in Admissions : Enters(b, i)' => Enters(b, i) /\ admission'[b] = admission[b]
      /\ Founding(i) => Founding(i)'
  BY TurnedElsewhere
<1>3. QED
  BY <1>1, <1>2, TeamOnward

LEMMA SeatsNext == TeamsTyped /\ SeatsKept /\ [TeamsNext]_teamVars => SeatsKept'
<1> SUFFICES ASSUME TeamsTyped, SeatsKept, [TeamsNext]_teamVars PROVE SeatsKept'
  OBVIOUS
<1>0. /\ \A a \in Admissions : AdmissionTyped(a)
      /\ DOMAIN teams = 1 .. Len(teams) /\ Len(teams) \in Nat /\ 0 \notin DOMAIN teams
  BY DEF TeamsTyped, TeamsTypeOK
<1>1. ASSUME NEW a \in Admissions, NEW u \in Users, CreateTeam(a, u) \/ RegisterContest(a, u)
      PROVE  SeatsKept'
  <2>1. PICK kind \in {"create", "register"}, at \in {"checked", "counted"} :
          Enter(a, kind, at, u, 0)
    BY <1>1 DEF CreateTeam, RegisterContest
  <2> DEFINE new == [kind |-> kind, at |-> at, user |-> u, team |-> 0]
  <2>2. Turned(a, new) /\ admission[a] = Idle /\ new.team \notin DOMAIN teams
    BY <1>0, <2>1, EnterDoes
  <2>3. UNCHANGED <<solo, teams, member, packed>>
    BY <1>1 DEF CreateTeam, RegisterContest
  <2> HIDE DEF new
  <2>4. QED
    BY <2>2, <2>3, SeatsElsewhere DEF Stands, Idle
<1>2. ASSUME NEW a \in Admissions, NEW u \in Users, NEW i \in DOMAIN teams,
             JoinTeam(a, u, i) \/ InviteTeamMember(a, i, u)
      PROVE  SeatsKept'
  <2>1. PICK kind \in {"join", "invite"} : Enter(a, kind, "checked", u, i)
    BY <1>2 DEF JoinTeam, InviteTeamMember
  <2> DEFINE new == [kind |-> kind, at |-> "checked", user |-> u, team |-> i]
  <2>2. Turned(a, new) /\ admission[a] = Idle /\ new.team = i /\ new.at = "checked"
    BY <2>1, EnterDoes
  <2>3. Packed(a, i) /\ UNCHANGED <<solo, teams, member>>
    BY <1>2 DEF JoinTeam, InviteTeamMember
  <2> HIDE DEF new
  <2>4. QED
    BY <2>2, <2>3, PackedDoes, SeatsEntered
<1>3. ASSUME NEW a \in Admissions, RegisterChecks(a) PROVE SeatsKept'
  <2> DEFINE new == [admission[a] EXCEPT !.at = "checked"]
  <2>1. Turned(a, new) /\ new.team = 0 /\ UNCHANGED <<solo, teams, member, packed>>
        /\ ~Stands(a, {"create", "register"}, "founded")
    BY <1>0, <1>3, ProceedDoes
    DEF RegisterChecks, Stands, AdmissionTyped, Founders, TeamsTyped, TeamsTypeOK
  <2> HIDE DEF new
  <2>2. QED
    BY <1>0, <2>1, SeatsElsewhere
<1>4. ASSUME NEW a \in Admissions, InsertTeam(a) PROVE SeatsKept'
  <2> DEFINE n == Len(teams) + 1
  <2>1. /\ admission[a].kind \in {"create", "register"} /\ admission[a].at = "checked"
        /\ admission[a].team = 0 /\ UNCHANGED <<solo, packed>>
    BY <1>0, <1>4 DEF InsertTeam, Stands, AdmissionTyped, Founders, teamObservers
  <2>2. /\ DOMAIN teams' = 1 .. n /\ n \in Nat /\ teams'[n] = admission[a].user
        /\ \A i \in DOMAIN teams : teams'[i] = teams[i] /\ member'[i] = member[i]
        /\ \A u \in Users : member'[n][u] = "none"
    BY <1>0, <1>4 DEF InsertTeam, TeamsTyped, TeamsTypeOK
  <2>3. /\ admission'[a].kind = admission[a].kind /\ admission'[a].at = "founded"
        /\ admission'[a].user = admission[a].user /\ admission'[a].team = n
        /\ \A b \in Admissions \ {a} : admission'[b] = admission[b]
    BY <1>0, <1>4 DEF InsertTeam, TeamsTyped, TeamsTypeOK
  <2>4. \A b \in Admissions : admission[b].team \in 0 .. Len(teams)
    BY <1>0 DEF TeamsTyped, TeamsTypeOK
  <2> SUFFICES ASSUME NEW i \in DOMAIN teams' \ packed' PROVE TeamKept(i)'
    BY DEF SeatsKept
  <2>5. CASE i = n
    <3>1. \A b \in Admissions : Enters(b, i)' => b = a
      BY <1>0, <2>3, <2>4, <2>5 DEF Enters
    <3>2. Founding(i)'
      BY <2>1, <2>3, <2>5 DEF Founding, Stands
    <3>3. CountMembers(i)' <= Size'
      <4>1. Members(i)' = {}
        BY <2>2, <2>5 DEF Members
      <4>2. Size' = Size
        BY <2>1 DEF Size
      <4>3. QED
        BY <4>1, <4>2, FS_EmptySet, SizeNat DEF CountMembers
    <3>4. QED
      BY <2>2, <2>3, <2>5, <3>1, <3>2, <3>3 DEF TeamKept
  <2>6. CASE i \in DOMAIN teams
    <3>1. TeamKept(i) /\ i # n
      BY <1>0, <2>1, <2>6 DEF SeatsKept
    <3>2. \A b \in Admissions : Enters(b, i)' => Enters(b, i) /\ admission'[b] = admission[b]
      BY <2>3, <3>1 DEF Enters, Busy
    <3>3. Founding(i) => Founding(i)'
      BY <2>1, <2>3 DEF Founding, Stands
    <3>4. QED
      BY <2>1, <2>2, <2>6, <3>1, <3>2, <3>3, TeamOnward
  <2>7. QED
    BY <1>0, <2>2, <2>5, <2>6
<1>5. ASSUME NEW a \in Admissions, InsertLeader(a) \/ InsertMember(a) PROVE SeatsKept'
  <2> DEFINE j == admission[a].team
             v == admission[a].user
  <2>1. /\ j \in DOMAIN teams /\ v \in Users /\ Enters(a, j)
        /\ \/ Stands(a, {"create", "register"}, "founded")
           \/ Stands(a, {"join", "invite"}, "counted")
    BY <1>0, <1>5
    DEF InsertLeader, InsertMember, Stands, AdmissionTyped, Enters, Busy, Founders, Joiners
  <2>2. Seated(j, v) /\ Finish(a) /\ UNCHANGED <<solo, teams, packed>>
    BY <1>5 DEF InsertLeader, InsertMember, Seated, teamObservers
  <2>3. Turned(a, Idle)
    BY <2>2, FinishDoes
  <2>4. /\ \A k \in DOMAIN teams \ {j} : member'[k] = member[k]
        /\ \A w \in Users \ {v} : member'[j][w] = member[j][w]
        /\ member[j][v] # "none" => member'[j][v] = member[j][v]
        /\ member[j][v] = "none" => member'[j][v] = "active"
    BY <2>1, <2>2, SeatedDoes
  <2> SUFFICES ASSUME NEW i \in DOMAIN teams \ packed PROVE TeamKept(i)'
    BY <2>2 DEF SeatsKept
  <2>5. TeamKept(i)
    BY DEF SeatsKept
  <2>6. CASE i # j
    <3>1. /\ \A b \in Admissions : Enters(b, i)' => Enters(b, i) /\ admission'[b] = admission[b]
          /\ Founding(i) => Founding(i)'
      BY <2>3, <2>6, TurnedElsewhere DEF Idle
    <3>2. QED
      BY <2>2, <2>4, <2>5, <2>6, <3>1, TeamOnward
  <2>7. CASE i = j
    <3>1. \A b \in Admissions : ~Enters(b, i)'
      BY <2>1, <2>3, <2>5, <2>7 DEF TeamKept, Turned, Enters, Busy, Idle
    <3>2. CountMembers(i)' <= Size' /\ teams'[i] \in Members(i)'
      <4>0. Size' = Size /\ teams'[i] = teams[i] /\ teams[i] \in Users
        BY <2>2 DEF Size, TeamsTyped, TeamsTypeOK
      <4>1. CASE Stands(a, {"create", "register"}, "founded")
        <5>1. teams[i] = v /\ \A u \in Users : member[i][u] = "none"
          BY <2>1, <2>5, <2>7, <4>1 DEF TeamKept, Stands
        <5>2. Members(i)' = {v}
          BY <2>1, <2>4, <2>7, <5>1 DEF Members
        <5>3. CountMembers(i)' = 1
          BY <5>2, FS_Singleton DEF CountMembers
        <5>4. QED
          BY <4>0, <5>1, <5>2, <5>3, SizeNat
      <4>2. CASE Stands(a, {"join", "invite"}, "counted")
        <5>1. CountMembers(i) < Size
          BY <2>1, <2>5, <2>7, <4>2 DEF TeamKept, Stands, HasSeat
        <5>2. ~Founding(i)
          BY <2>1, <2>5, <2>7, <4>2 DEF TeamKept, Founding, Stands, Enters, Busy
        <5>3. /\ Members(i)' \subseteq Members(i) \cup {v} /\ teams[i] \in Members(i)
              /\ Members(i) \subseteq Members(i)'
          BY <2>4, <2>5, <2>7, <5>2 DEF TeamKept, Members
        <5>4. IsFiniteSet(Members(i))
          BY DEF TeamsTyped
        <5>5. Cardinality(Members(i)') <= Cardinality(Members(i) \cup {v})
              /\ Cardinality(Members(i)') \in Nat
          BY <5>3, <5>4, FS_AddElement, FS_Subset, FS_CardinalityType
        <5>6. Cardinality(Members(i) \cup {v}) <= Cardinality(Members(i)) + 1
              /\ Cardinality(Members(i)) \in Nat /\ Cardinality(Members(i) \cup {v}) \in Nat
          <6>1. IsFiniteSet(Members(i) \cup {v})
            BY <5>4, FS_AddElement
          <6>2. /\ Cardinality(Members(i)) \in Nat /\ Cardinality(Members(i) \cup {v}) \in Nat
            BY <5>4, <6>1, FS_CardinalityType
          <6>3. Cardinality(Members(i) \cup {v}) <= Cardinality(Members(i)) + 1
            <7>1. CASE v \in Members(i)
              <8>1. Members(i) \cup {v} = Members(i)
                BY <7>1
              <8>2. QED
                BY <6>2, <8>1
            <7>2. CASE v \notin Members(i)
              <8>1. Cardinality(Members(i) \cup {v}) = Cardinality(Members(i)) + 1
                BY <5>4, <7>2, FS_AddElement
              <8>2. QED
                BY <6>2, <8>1
            <7>3. QED
              BY <7>1, <7>2
          <6>4. QED
            BY <6>2, <6>3
        <5>7. CountMembers(i)' <= Size
          BY <5>1, <5>5, <5>6, SizeNat DEF CountMembers
        <5>8. QED
          BY <4>0, <5>3, <5>7
      <4>3. QED
        BY <2>1, <4>1, <4>2
    <3>3. QED
      BY <3>1, <3>2 DEF TeamKept
  <2>8. QED
    BY <2>6, <2>7
<1>6. ASSUME NEW a \in Admissions, CountSeats(a) PROVE SeatsKept'
  <2> DEFINE j == admission[a].team
  <2>1. PICK fails \in BOOLEAN :
          /\ IF fails THEN admission[a].kind = "invite" ELSE HasSeat(CountMembers(j))
          /\ packed' = IF fails THEN packed \cup {j} ELSE packed
    BY <1>6 DEF CountSeats
  <2>2. /\ admission[a].kind \in {"join", "invite"} /\ Enters(a, j)
        /\ UNCHANGED <<solo, teams, member>>
    BY <1>6 DEF CountSeats, Stands, Enters, Busy
  <2>3. /\ admission'[a].kind = admission[a].kind /\ admission'[a].at = "counted"
        /\ admission'[a].user = admission[a].user /\ admission'[a].team = admission[a].team
        /\ \A b \in Admissions \ {a} : admission'[b] = admission[b]
    BY <1>6 DEF CountSeats, Proceed, TeamsTyped, TeamsTypeOK
  <2> SUFFICES ASSUME NEW i \in DOMAIN teams \ packed' PROVE TeamKept(i)'
    BY <2>2 DEF SeatsKept
  <2>4. TeamKept(i)
    BY <2>1 DEF SeatsKept
  <2>5. Founding(i) => Founding(i)'
    BY <2>2, <2>3 DEF Founding, Stands
  <2>6. CASE i # j
    <3>1. \A b \in Admissions : Enters(b, i)' => Enters(b, i) /\ admission'[b] = admission[b]
      BY <2>3, <2>6 DEF Enters, Busy
    <3>2. QED
      BY <2>2, <2>4, <2>5, <3>1, TeamOnward
  <2>7. CASE i = j
    <3>1. HasSeat(CountMembers(i))'
      BY <2>1, <2>2, <2>7, TeamsOfKept DEF HasSeat, Size
    <3>2. \A b \in Admissions : Enters(b, i)' => b = a
      BY <2>2, <2>3, <2>4, <2>7 DEF TeamKept, Enters, Busy
    <3>3. CountMembers(i)' <= Size' /\ (Founding(i)' \/ teams'[i] \in Members(i)')
      BY <2>2, <2>4, <2>5, TeamsOfKept DEF TeamKept, Size
    <3>4. QED
      BY <2>3, <3>1, <3>2, <3>3 DEF TeamKept
  <2>8. QED
    BY <2>6, <2>7
<1>7. ASSUME NEW a \in Admissions, Refuse(a) PROVE SeatsKept'
  <2>1. Turned(a, Idle) /\ UNCHANGED <<solo, teams, member>> /\ packed \subseteq packed'
    BY <1>7, FinishDoes DEF Refuse
  <2>2. Stands(a, {"create", "register"}, "founded") => admission[a].team \in packed'
    <3>1. ASSUME Stands(a, {"create", "register"}, "founded")
          PROVE  admission[a].team \in packed'
      <4>1. admission[a].team # 0
        BY <1>0, <3>1 DEF Stands, AdmissionTyped, Founders
      <4>2. packed' = IF admission[a].team = 0 THEN packed ELSE packed \cup {admission[a].team}
        BY <1>7, <3>1 DEF Refuse, Stands
      <4>3. QED
        BY <4>1, <4>2
    <3>2. QED
      BY <3>1
  <2>3. QED
    BY <2>1, <2>2, SeatsElsewhere DEF Idle
<1>8. ASSUME NEW j \in DOMAIN teams, NEW u \in Users, LeaveTeam(j, u) PROVE SeatsKept'
  <2>1. PICK row \in Row : row # "active" /\ member' = [member EXCEPT ![j][u] = row]
    BY <1>8 DEF LeaveTeam, Row
  <2>2. /\ \A k \in DOMAIN teams \ {j} : member'[k] = member[k]
        /\ \A v \in Users \ {u} : member'[j][v] = member[j][v]
    BY <2>1, WriteRow
  <2>3. /\ u # teams[j] /\ u \in Members(j)
        /\ UNCHANGED <<solo, teams, admission, packed>>
    BY <1>8 DEF LeaveTeam, teamObservers
  <2>4. \A i, b : (Enters(b, i)' <=> Enters(b, i)) /\ (Founding(i)' <=> Founding(i))
    BY <2>3 DEF Enters, Founding, Busy, Stands
  <2> SUFFICES ASSUME NEW i \in DOMAIN teams \ packed PROVE TeamKept(i)'
    BY <2>3 DEF SeatsKept
  <2>5. TeamKept(i)
    BY DEF SeatsKept
  <2>6. CASE i # j
    BY <2>2, <2>3, <2>4, <2>5, <2>6, TeamOnward
  <2>7. CASE i = j
    <3>1. /\ teams[i] \in Users /\ IsFiniteSet(Members(i)) /\ Size' = Size
          /\ Members(i)' \subseteq Members(i) /\ Members(i) \ {u} \subseteq Members(i)'
      BY <2>2, <2>3, <2>7, OneRow DEF TeamsTyped, TeamsTypeOK, Size
    <3>2. /\ CountMembers(i)' <= CountMembers(i)
          /\ CountMembers(i)' \in Nat /\ CountMembers(i) \in Nat
      BY <3>1, FS_Subset, FS_CardinalityType DEF CountMembers
    <3>3. \A b \in Admissions : Enters(b, i) => admission[b].at # "founded"
      BY <2>3, <2>5, <2>7 DEF TeamKept, Members
    <3>4. HasSeat(CountMembers(i)) => HasSeat(CountMembers(i))'
      BY <3>1, <3>2, SizeNat DEF HasSeat
    <3>5. CountMembers(i)' <= Size'
      BY <2>5, <3>1, <3>2, SizeNat DEF TeamKept
    <3>6. Founding(i)' \/ teams'[i] \in Members(i)'
      BY <2>3, <2>4, <2>5, <2>7, <3>1 DEF TeamKept
    <3>7. \A b \in Admissions : admission'[b] = admission[b]
      BY <2>3
    <3>8. QED
      BY <2>4, <2>5, <3>3, <3>4, <3>5, <3>6, <3>7 DEF TeamKept
  <2>8. QED
    BY <2>6, <2>7
<1>9. CASE RegistrationEnds \/ UNCHANGED teamVars
  <2>1. UNCHANGED <<solo, teams, member, admission, packed>>
    BY <1>9 DEF RegistrationEnds, teamVars, teamObservers
  <2>2. \A i, b : (Enters(b, i)' <=> Enters(b, i)) /\ (Founding(i)' <=> Founding(i))
    BY <2>1 DEF Enters, Founding, Busy, Stands
  <2>3. ASSUME NEW i \in DOMAIN teams \ packed PROVE TeamKept(i)'
    BY <2>1, <2>2, <2>3, TeamOnward DEF SeatsKept
  <2>4. QED
    BY <2>1, <2>3 DEF SeatsKept
<1>10. QED
  BY <1>1, <1>2, <1>3, <1>4, <1>5, <1>6, <1>7, <1>8, <1>9 DEF TeamsNext
-----------------------------------------------------------------------------
(* A contest of single players keeps to its places.                        *)
Active(m, i) == {u \in Users : m[i][u] = "active"}

\* The members of teams, as Sum takes them.
Crowd(m, S) == [i \in S |-> [points |-> Cardinality(Active(m, i))]]

CountsUp(h, S, m) ==
    h = [s \in SUBSET S |->
            IF s = {} THEN 0
            ELSE Cardinality(Active(m, Pick(s))) + h[s \ {Pick(s)}]]

Heads(m, S) == MapThenSumSet(LAMBDA i : Cardinality(Active(m, i)), S)

LEMMA CountsAsSum ==
    ASSUME NEW S, IsFiniteSet(S), NEW m
    PROVE  Heads(m, S) = Sum(Crowd(m, S), S)
<1> DEFINE g == Crowd(m, S)
<1>1. ASSUME NEW h PROVE CountsUp(h, S, m) <=> SumsUp(h, S, g)
  <2>1. ASSUME NEW s \in SUBSET S, s # {}
        PROVE  g[Pick(s)].points = Cardinality(Active(m, Pick(s)))
    <3>1. Pick(s) \in S
      BY <2>1, PickIn
    <3>2. QED
      BY <3>1 DEF Crowd
  <2> HIDE DEF g
  <2>2. [s \in SUBSET S |->
            IF s = {} THEN 0
            ELSE Cardinality(Active(m, Pick(s))) + h[s \ {Pick(s)}]]
        = [s \in SUBSET S |-> IF s = {} THEN 0 ELSE g[Pick(s)].points + h[s \ {Pick(s)}]]
    BY <2>1
  <2>3. QED
    BY <2>2 DEF CountsUp, SumsUp
<1> HIDE DEF g
<1>2. PICK k : SumsUp(k, S, g)
  BY SumExists
<1>3. PICK h : h = CHOOSE j : CountsUp(j, S, m)
  OBVIOUS
<1>4. SumsUp(h, S, g)
  BY <1>1, <1>2, <1>3
<1>5. PICK l : l = CHOOSE j : SumsUp(j, S, g)
  OBVIOUS
<1>6. SumsUp(l, S, g)
  BY <1>2, <1>5
<1>7. h = l
  BY <1>4, <1>6, SumUnique
<1>8. Heads(m, S) = (CHOOSE j : CountsUp(j, S, m))[S]
  BY DEF Heads, MapThenSumSet, MapThenFoldSet, CountsUp, Pick
<1>9. QED
  BY <1>3, <1>5, <1>7, <1>8, SumDef DEF g

\* CountParticipants, now and after a step.
Crowded(m, n) == Sum(Crowd(m, 1 .. n), 1 .. n)

LEMMA Participants ==
    /\ TeamsTyped => CountParticipants = Crowded(member, Len(teams))
    /\ TeamsTyped' => CountParticipants' = Crowded(member', Len(teams'))
<1>1. ASSUME NEW m, NEW n \in Nat, NEW D, D = 1 .. n
      PROVE  Heads(m, D) = Crowded(m, n)
  BY <1>1, FS_Interval, CountsAsSum DEF Crowded
<1>2. ASSUME TeamsTyped PROVE CountParticipants = Crowded(member, Len(teams))
  <2>1. Len(teams) \in Nat /\ DOMAIN teams = 1 .. Len(teams)
    BY <1>2 DEF TeamsTyped, TeamsTypeOK
  <2>2. CountParticipants = Heads(member, DOMAIN teams)
    BY DEF CountParticipants, CountMembers, Members, Active, Heads
  <2>3. QED
    BY <1>1, <2>1, <2>2
<1>3. ASSUME TeamsTyped' PROVE CountParticipants' = Crowded(member', Len(teams'))
  <2>1. Len(teams') \in Nat /\ DOMAIN teams' = 1 .. Len(teams')
    BY <1>3 DEF TeamsTyped, TeamsTypeOK
  <2>2. CountParticipants' = Heads(member', DOMAIN teams')
    BY DEF CountParticipants, CountMembers, Members, Active, Heads, MapThenSumSet, MapThenFoldSet
  <2>3. QED
    BY <1>1, <2>1, <2>2
<1>4. QED
  BY <1>2, <1>3

LEMMA CrowdedTyped ==
    ASSUME NEW n \in Nat, NEW m, \A i \in 1 .. n : IsFiniteSet(Active(m, i))
    PROVE  Crowded(m, n) \in Nat
<1>1. \A i \in 1 .. n : Crowd(m, 1 .. n)[i].points \in Nat
  BY FS_CardinalityType DEF Crowd
<1>2. IsFiniteSet(1 .. n)
  BY FS_Interval
<1> DEFINE g == Crowd(m, 1 .. n)
<1> HIDE DEF g
<1>3. Sum(g, 1 .. n) \in Nat
  BY <1>1, <1>2, SumTyped DEF g
<1>4. QED
  BY <1>3 DEF Crowded, g

\* A sum over some teams, taken from either of two lists of rows.
LEMMA CrowdSame ==
    ASSUME NEW S, IsFiniteSet(S), NEW A, NEW B, S \subseteq A, S \subseteq B, NEW m, NEW k,
           \A i \in S : Active(m, i) = Active(k, i)
    PROVE  Sum(Crowd(m, A), S) = Sum(Crowd(k, B), S)
<1>1. \A i \in S : Crowd(m, A)[i].points = Crowd(k, B)[i].points
  BY DEF Crowd
<1>2. QED
  BY <1>1, SumCongruent

\* Teams that keep their members, and one that nobody is in yet.
LEMMA CrowdedSame ==
    ASSUME NEW n \in Nat, NEW m, NEW k, \A i \in 1 .. n : Active(m, i) = Active(k, i)
    PROVE  Crowded(k, n) = Crowded(m, n)
BY FS_Interval, CrowdSame DEF Crowded

LEMMA CrowdedMore ==
    ASSUME NEW n \in Nat, NEW m, NEW k, \A i \in 1 .. n : Active(m, i) = Active(k, i),
           \A i \in 1 .. n : IsFiniteSet(Active(m, i)), Active(k, n + 1) = {}
    PROVE  Crowded(k, n + 1) = Crowded(m, n)
<1> DEFINE g == Crowd(k, 1 .. n + 1)
           S == 1 .. n
<1>1. /\ IsFiniteSet(S) /\ n + 1 \notin S /\ 1 .. n + 1 = S \cup {n + 1}
      /\ S \subseteq 1 .. n + 1
  <2>1. IsFiniteSet(S)
    BY FS_Interval
  <2>2. n + 1 \notin S /\ 1 .. n + 1 = S \cup {n + 1} /\ S \subseteq 1 .. n + 1
    OBVIOUS
  <2>3. QED
    BY <2>1, <2>2
<1>2. g[n + 1].points = 0
  BY <1>1, FS_EmptySet DEF Crowd
<1>3. \A i \in S : g[i].points \in Nat
  BY FS_CardinalityType DEF Crowd
<1>4. Sum(g, S) = Crowded(m, n)
  BY <1>1, CrowdSame DEF Crowded
<1>5. Crowded(k, n + 1) = Sum(g, S \cup {n + 1})
  BY <1>1 DEF Crowded
<1>6. Crowded(m, n) \in Nat
  BY CrowdedTyped
<1> HIDE DEF g, S
<1>7. Sum(g, S \cup {n + 1}) = Sum(g, S) + g[n + 1].points
  BY <1>1, <1>2, <1>3, SumAdds
<1>8. QED
  BY <1>2, <1>4, <1>5, <1>6, <1>7

\* One team may have one member more.
LEMMA CrowdedOne ==
    ASSUME NEW n \in Nat, NEW m, NEW k, NEW j \in 1 .. n, NEW v,
           \A i \in 1 .. n : IsFiniteSet(Active(m, i)),
           \A i \in (1 .. n) \ {j} : Active(m, i) = Active(k, i),
           Active(k, j) \subseteq Active(m, j) \cup {v}
    PROVE  Crowded(k, n) <= Crowded(m, n) + 1
<1> DEFINE g == Crowd(k, 1 .. n)
           f == Crowd(m, 1 .. n)
           S == (1 .. n) \ {j}
<1>1. IsFiniteSet(S) /\ j \notin S /\ 1 .. n = S \cup {j} /\ S \subseteq 1 .. n
  <2>1. IsFiniteSet(1 .. n)
    BY FS_Interval
  <2>2. S \subseteq 1 .. n /\ j \notin S /\ 1 .. n = S \cup {j}
    OBVIOUS
  <2>3. QED
    BY <2>1, <2>2, FS_Subset
<1>2. IsFiniteSet(Active(m, j)) /\ IsFiniteSet(Active(m, j) \cup {v})
  BY FS_AddElement
<1>3. IsFiniteSet(Active(k, j))
  BY <1>2, FS_Subset
<1>4. /\ g[j].points = Cardinality(Active(k, j)) /\ f[j].points = Cardinality(Active(m, j))
      /\ \A i \in S : g[i].points = Cardinality(Active(k, i))
      /\ \A i \in S : f[i].points = Cardinality(Active(m, i))
  BY <1>1 DEF Crowd
<1>5. g[j].points \in Nat /\ f[j].points \in Nat
  BY <1>2, <1>3, <1>4, FS_CardinalityType
<1>6. g[j].points <= f[j].points + 1
  <2>1. Cardinality(Active(k, j)) <= Cardinality(Active(m, j) \cup {v})
    BY <1>2, FS_Subset
  <2>2. Cardinality(Active(m, j) \cup {v})
          = IF v \in Active(m, j) THEN Cardinality(Active(m, j)) ELSE Cardinality(Active(m, j)) + 1
    BY <1>2, FS_AddElement
  <2>3. QED
    BY <1>4, <1>5, <2>1, <2>2
<1>7. \A i \in S : g[i].points \in Nat /\ f[i].points \in Nat
  BY <1>1, <1>4, FS_CardinalityType
<1>8. Sum(g, S) = Sum(f, S)
  BY <1>1, CrowdSame
<1> HIDE DEF g, f, S
<1>9. Sum(f, S) \in Nat
  BY <1>1, <1>7, SumTyped
<1>10. /\ Sum(g, S \cup {j}) = Sum(g, S) + g[j].points
       /\ Sum(f, S \cup {j}) = Sum(f, S) + f[j].points
  BY <1>1, <1>5, <1>7, SumAdds
<1>11. Crowded(k, n) = Sum(g, S \cup {j}) /\ Crowded(m, n) = Sum(f, S \cup {j})
  BY <1>1 DEF Crowded, g, f
<1>12. QED
  BY <1>5, <1>6, <1>8, <1>9, <1>10, <1>11

\* Nobody enters the contest in this step.
LEMMA PlacesOnward ==
    ASSUME ContestKept, UNCHANGED solo, packed \subseteq packed', thronged => thronged',
           solo => \A b \in Admissions : Registers(b)' => Registers(b),
           CountParticipants' = CountParticipants
    PROVE  ContestKept'
BY DEF ContestKept, PlacesKept

LEMMA PlacesInit == TeamsInit => ContestKept
<1> SUFFICES ASSUME TeamsInit, MaxParticipants > 0 PROVE PlacesKept
  BY DEF ContestKept
<1>1. TeamsTyped /\ \A a \in Admissions : ~Registers(a)
  BY TeamsTypedInit DEF TeamsInit, Registers, Idle
<1>2. CountParticipants = Crowded(member, 0)
  BY <1>1, Participants DEF TeamsInit
<1>3. Crowded(member, 0) = 0
  <2>1. 1 .. 0 = {}
    OBVIOUS
  <2>2. QED
    BY <2>1, FS_EmptySet, SumStep DEF Crowded
<1>4. QED
  BY <1>1, <1>2, <1>3, Bounds DEF PlacesKept

\* The rows are as they were.
LEMMA CountKept ==
    ASSUME TeamsTyped, TeamsTyped', UNCHANGED <<teams, member>>
    PROVE  CountParticipants' = CountParticipants
BY Participants

LEMMA PlacesNext ==
    TeamsTyped /\ TeamsTyped' /\ SeatsKept /\ ContestKept /\ [TeamsNext]_teamVars => ContestKept'
<1> SUFFICES ASSUME TeamsTyped, TeamsTyped', SeatsKept, ContestKept, [TeamsNext]_teamVars
             PROVE  ContestKept'
  OBVIOUS
<1>0. /\ \A a \in Admissions : AdmissionTyped(a)
      /\ DOMAIN teams = 1 .. Len(teams) /\ Len(teams) \in Nat
      /\ \A i \in 1 .. Len(teams) : IsFiniteSet(Active(member, i)) /\ Active(member, i) = Members(i)
      /\ CountParticipants = Crowded(member, Len(teams))
      /\ CountParticipants' = Crowded(member', Len(teams'))
      /\ CountParticipants \in Nat
  <2>1. /\ \A a \in Admissions : AdmissionTyped(a)
        /\ DOMAIN teams = 1 .. Len(teams) /\ Len(teams) \in Nat
        /\ \A i \in 1 .. Len(teams) : Active(member, i) = Members(i)
    BY DEF TeamsTyped, TeamsTypeOK, Active, Members
  <2>2. \A i \in 1 .. Len(teams) : IsFiniteSet(Active(member, i))
    BY <2>1 DEF TeamsTyped
  <2>3. QED
    BY <2>1, <2>2, Participants, CrowdedTyped
<1>1. ASSUME NEW a \in Admissions, NEW u \in Users,
             \/ CreateTeam(a, u)
             \/ \E i \in DOMAIN teams : JoinTeam(a, u, i) \/ InviteTeamMember(a, i, u)
      PROVE  ContestKept'
  <2>1. PICK kind \in {"create", "join", "invite"}, i \in 0 .. Len(teams) :
          Enter(a, kind, "checked", u, i)
    BY <1>0, <1>1 DEF CreateTeam, JoinTeam, InviteTeamMember
  <2> DEFINE new == [kind |-> kind, at |-> "checked", user |-> u, team |-> i]
  <2>2. Turned(a, new) /\ new.kind # "register"
    BY <2>1, EnterDoes
  <2> HIDE DEF new
  <2>3. UNCHANGED <<solo, teams, member, thronged>> /\ packed \subseteq packed'
    BY <1>1, PackedDoes DEF CreateTeam, JoinTeam, InviteTeamMember
  <2>4. \A b \in Admissions : Registers(b)' => Registers(b)
    BY <2>2 DEF Registers, Turned
  <2>5. QED
    BY <2>3, <2>4, CountKept, PlacesOnward
<1>2. ASSUME NEW a \in Admissions, NEW u \in Users, RegisterContest(a, u) PROVE ContestKept'
  <2> DEFINE new == [kind |-> "register", at |-> "counted", user |-> u, team |-> 0]
  <2>1. Turned(a, new)
    BY <1>2, EnterDoes DEF RegisterContest
  <2> HIDE DEF new
  <2>2. PICK fails \in BOOLEAN :
          /\ (fails /\ MaxParticipants > 0) \/ HasPlace(CountParticipants)
          /\ thronged' = (thronged \/ fails
                \/ \E b \in Admissions : Busy(b) /\ admission[b].kind = "register")
    BY <1>2 DEF RegisterContest
  <2>3. UNCHANGED <<solo, teams, member, packed>>
    BY <1>2 DEF RegisterContest
  <2>4. CountParticipants' = CountParticipants
    BY <2>3, CountKept
  <2>5. ASSUME solo', packed' = {}, ~thronged', MaxParticipants > 0 PROVE PlacesKept'
    <3>1. \A b \in Admissions : ~Registers(b)
      BY <1>0, <2>2, <2>5 DEF Registers, AdmissionTyped, Busy
    <3>2. CountParticipants < MaxParticipants
      BY <2>2, <2>5 DEF HasPlace
    <3>3. \A b \in Admissions : Registers(b)' => b = a
      BY <2>1, <3>1 DEF Registers, Turned
    <3>4. QED
      BY <1>0, <2>4, <3>2, <3>3, Bounds DEF PlacesKept
  <2>6. QED
    BY <2>5 DEF ContestKept
<1>3. ASSUME NEW a \in Admissions, RegisterChecks(a) PROVE ContestKept'
  <2>1. \A b \in Admissions : Registers(b)' => Registers(b)
    BY <1>3 DEF RegisterChecks, Stands, Proceed, Registers, TeamsTyped, TeamsTypeOK
  <2>2. QED
    BY <1>3, <2>1, CountKept, PlacesOnward DEF RegisterChecks
<1>4. ASSUME NEW a \in Admissions, InsertTeam(a) PROVE ContestKept'
  <2> DEFINE n == Len(teams)
  <2>1. /\ Len(teams') = n + 1
        /\ \A i \in 1 .. n : member'[i] = member[i]
        /\ \A u \in Users : member'[n + 1][u] = "none"
    BY <1>0, <1>4 DEF InsertTeam, TeamsTyped, TeamsTypeOK
  <2>2. (\A i \in 1 .. n : Active(member, i) = Active(member', i)) /\ Active(member', n + 1) = {}
    BY <2>1 DEF Active
  <2>3. CountParticipants' = CountParticipants
    <3>1. PICK m, k : m = member /\ k = member'
      OBVIOUS
    <3>2. Crowded(k, n + 1) = Crowded(m, n)
      <4> HIDE DEF n
      <4>1. n \in Nat /\ \A i \in 1 .. n : IsFiniteSet(Active(m, i))
        BY <1>0, <3>1 DEF n
      <4>2. (\A i \in 1 .. n : Active(m, i) = Active(k, i)) /\ Active(k, n + 1) = {}
        BY <2>2, <3>1
      <4>3. QED
        BY <4>1, <4>2, CrowdedMore
    <3>3. QED
      BY <1>0, <2>1, <3>1, <3>2
  <2>4. \A b \in Admissions : Registers(b)' => Registers(b)
    BY <1>4 DEF InsertTeam, Registers, TeamsTyped, TeamsTypeOK
  <2>5. QED
    BY <1>4, <2>3, <2>4, PlacesOnward DEF InsertTeam, teamObservers
<1>5. ASSUME NEW a \in Admissions, InsertLeader(a) PROVE ContestKept'
  <2> DEFINE i == admission[a].team
             v == admission[a].user
             n == Len(teams)
  <2>1. solo => Registers(a)
    BY <1>0, <1>5 DEF InsertLeader, Stands, AdmissionTyped, Busy, Founders, Registers
  <2>2. Seated(i, v) /\ Finish(a) /\ UNCHANGED <<solo, teams, packed, thronged>>
    BY <1>5 DEF InsertLeader, Seated, teamObservers
  <2>3. Turned(a, Idle)
    BY <2>2, FinishDoes
  <2>4. i \in DOMAIN teams /\ v \in Users
    BY <1>0, <1>5 DEF InsertLeader, Stands, AdmissionTyped, Busy, Founders
  <2>5. CountParticipants' <= CountParticipants + 1
    <3>1. /\ \A j \in DOMAIN teams \ {i} : member'[j] = member[j]
          /\ \A w \in Users \ {v} : member'[i][w] = member[i][w]
      BY <2>2, <2>4, SeatedDoes
    <3>2. PICK m, k : m = member /\ k = member'
      OBVIOUS
    <3> HIDE DEF i, v, n
    <3>3. /\ \A j \in (1 .. n) \ {i} : Active(m, j) = Active(k, j)
          /\ Active(k, i) \subseteq Active(m, i) \cup {v}
          /\ \A j \in 1 .. n : IsFiniteSet(Active(m, j))
          /\ n \in Nat /\ i \in 1 .. n
      BY <1>0, <2>4, <3>1, <3>2 DEF Active, n
    <3>4. Crowded(k, n) <= Crowded(m, n) + 1
      BY <3>3, CrowdedOne
    <3>5. QED
      BY <1>0, <2>2, <3>2, <3>4 DEF n
  <2>6. CountParticipants' \in Nat
    <3>1. /\ \A j \in 1 .. Len(teams') : IsFiniteSet(Active(member', j)) 
          /\ Len(teams') \in Nat
      <4>1. Len(teams') \in Nat /\ DOMAIN teams' = 1 .. Len(teams')
        BY DEF TeamsTyped, TeamsTypeOK
      <4>2. \A j \in 1 .. Len(teams') : Active(member', j) = Members(j)'
        BY DEF Active, Members
      <4>3. QED
        BY <4>1, <4>2 DEF TeamsTyped
    <3>2. PICK k, l : k = member' /\ l = Len(teams')
      OBVIOUS
    <3>3. Crowded(k, l) \in Nat
      BY <3>1, <3>2, CrowdedTyped
    <3>4. QED
      BY <1>0, <3>2, <3>3
  <2>7. ASSUME solo', packed' = {}, ~thronged', MaxParticipants > 0 PROVE PlacesKept'
    <3>1. PlacesKept /\ Registers(a)
      BY <2>1, <2>2, <2>7 DEF ContestKept
    <3>2. \A b \in Admissions : ~Registers(b)'
      BY <2>3, <3>1 DEF PlacesKept, Registers, Turned, Idle
    <3>3. CountParticipants' <= MaxParticipants
      BY <1>0, <2>5, <2>6, <3>1, Bounds DEF PlacesKept
    <3>4. QED
      BY <3>2, <3>3 DEF PlacesKept
  <2>8. QED
    BY <2>7 DEF ContestKept
<1>6. ASSUME NEW a \in Admissions, InsertMember(a) PROVE ContestKept'
  <2> DEFINE i == admission[a].team
  <2>1. /\ i \in DOMAIN teams /\ Enters(a, i) /\ Stands(a, {"join", "invite"}, "counted")
        /\ UNCHANGED <<solo, packed, thronged>>
    BY <1>0, <1>6
    DEF InsertMember, Stands, AdmissionTyped, Enters, Busy, Joiners, teamObservers
  <2>2. ASSUME solo, packed = {} PROVE FALSE
    <3>1. TeamKept(i) /\ Size = 1
      BY <2>1, <2>2 DEF SeatsKept, Size
    <3>2. CountMembers(i) < 1
      BY <2>1, <3>1 DEF TeamKept, Stands, HasSeat
    <3>3. teams[i] \in Members(i)
      BY <2>1, <3>1 DEF TeamKept, Founding, Stands, Enters, Busy
    <3>4. IsFiniteSet(Members(i))
      BY <2>1 DEF TeamsTyped
    <3>5. CountMembers(i) \in Nat /\ CountMembers(i) # 0
      BY <3>3, <3>4, FS_EmptySet, FS_CardinalityType DEF CountMembers
    <3>6. QED
      BY <3>2, <3>5
  <2>3. QED
    BY <2>1, <2>2 DEF ContestKept
<1>7. ASSUME NEW a \in Admissions, CountSeats(a) PROVE ContestKept'
  <2>1. \A b \in Admissions : Registers(b)' => Registers(b)
    BY <1>7 DEF CountSeats, Proceed, Registers, TeamsTyped, TeamsTypeOK
  <2>2. packed \subseteq packed'
    BY <1>7 DEF CountSeats
  <2>3. QED
    BY <1>7, <2>1, <2>2, CountKept, PlacesOnward DEF CountSeats
<1>8. ASSUME NEW a \in Admissions, Refuse(a) PROVE ContestKept'
  <2>1. Turned(a, Idle) /\ packed \subseteq packed'
    BY <1>8, FinishDoes DEF Refuse
  <2>2. \A b \in Admissions : Registers(b)' => Registers(b)
    BY <2>1 DEF Registers, Turned, Idle
  <2>3. QED
    BY <1>8, <2>1, <2>2, CountKept, PlacesOnward DEF Refuse
<1>9. ASSUME NEW i \in DOMAIN teams, NEW u \in Users, LeaveTeam(i, u) PROVE ContestKept'
  <2>1. u # teams[i] /\ u \in Members(i) /\ UNCHANGED <<solo, packed, thronged>>
    BY <1>9 DEF LeaveTeam, teamObservers
  <2>2. ASSUME solo, packed = {} PROVE FALSE
    <3>1. TeamKept(i) /\ Size = 1
      BY <2>2 DEF SeatsKept, Size
    <3>2. ~Founding(i)
      <4>1. ASSUME NEW b \in Admissions, Stands(b, {"create", "register"}, "founded"),
                   admission[b].team = i
            PROVE  FALSE
        BY <2>1, <3>1, <4>1 DEF TeamKept, Stands, Enters, Busy, Members
      <4>2. QED
        BY <4>1 DEF Founding
    <3>3. {u, teams[i]} \subseteq Members(i) /\ IsFiniteSet(Members(i))
      BY <2>1, <3>1, <3>2 DEF TeamKept, TeamsTyped
    <3>4. Cardinality({u, teams[i]}) = 2
      <4>1. IsFiniteSet({u}) /\ Cardinality({u}) = 1
        BY FS_Singleton
      <4>2. {u, teams[i]} = {u} \cup {teams[i]} /\ teams[i] \notin {u}
        BY <2>1
      <4>3. Cardinality({u} \cup {teams[i]}) = 2
        BY <4>1, <4>2, FS_AddElement
      <4>4. QED
        BY <4>2, <4>3
    <3>5. 2 <= CountMembers(i) /\ CountMembers(i) \in Nat
      BY <3>3, <3>4, FS_Subset, FS_CardinalityType DEF CountMembers
    <3>6. QED
      BY <3>1, <3>5 DEF TeamKept
  <2>3. QED
    BY <2>1, <2>2 DEF ContestKept
<1>10. CASE RegistrationEnds \/ UNCHANGED teamVars
  <2>1. UNCHANGED <<solo, teams, member, admission, packed, thronged>>
    BY <1>10 DEF RegistrationEnds, teamVars, teamObservers
  <2>2. QED
    BY <2>1, CountKept, PlacesOnward DEF Registers
<1>11. QED
  BY <1>1, <1>2, <1>3, <1>4, <1>5, <1>6, <1>7, <1>8, <1>9, <1>10 DEF TeamsNext

-----------------------------------------------------------------------------
(* A user is in one team of the contest, which is the one that is found    *)
(* for the user; teams keep to their sizes and have their leaders, and     *)
(* contests of single players keep to their places.                        *)
LEMMA AtMostOne ==
    ASSUME NEW S, \A i, j \in S : i = j
    PROVE  Cardinality(S) <= 1
<1>1. CASE S = {}
  BY <1>1, FS_EmptySet
<1>2. CASE S # {}
  <2>1. PICK i \in S : S = {i}
    BY <1>2
  <2>2. QED
    <3>1. Cardinality({i}) = 1
      BY FS_Singleton
    <3>2. QED
      BY <2>1, <3>1
<1>3. QED
  BY <1>1, <1>2

LEMMA Found ==
    ASSUME TeamsTyped, NEW u \in Users, UserKept(u), NEW i \in TeamsOf(u),
           \A j \in DOMAIN teams : member[j][u] # "deleted"
    PROVE  GetUserTeam(u) = i
<1> DEFINE mine == {j \in DOMAIN teams : HasRow(j, u)}
<1>1. \A j \in DOMAIN teams : member[j][u] \in Row
  BY DEF TeamsTyped, TeamsTypeOK
<1>2. mine = TeamsOf(u)
  BY <1>1 DEF HasRow, TeamsOf, Members, Row
<1>3. mine = {i}
  BY <1>2 DEF UserKept
<1>4. i \in Nat
  BY DEF TeamsOf, TeamsTyped, TeamsTypeOK
<1>5. Min({i}) = i
  BY <1>4 DEF Min
<1>6. QED
  BY <1>3, <1>5 DEF GetUserTeam

(* A user whose admissions and founding never overlapped is in one team,   *)
(* and the team of a user is found; a team whose admissions never          *)
(* overlapped keeps to its size, and has its leader once founding it is    *)
(* over; a contest of single players takes no more than its places.        *)
THEOREM TeamsAreKept == TeamsSpec => []TeamsKept
<1> DEFINE Inv == TeamsTyped /\ UsersKept /\ SeatsKept /\ ContestKept
<1>1. Inv => TeamsKept
  <2> SUFFICES ASSUME Inv PROVE TeamsKept
    OBVIOUS
  <2>1. ASSUME NEW u \in Users \ raced
        PROVE  /\ Cardinality(TeamsOf(u)) <= 1
               /\ \A i \in TeamsOf(u) :
                     (\A j \in DOMAIN teams : member[j][u] # "deleted") => GetUserTeam(u) = i
    <3>1. UserKept(u)
      BY DEF UsersKept
    <3>2. QED
      BY <3>1, AtMostOne, Found DEF UserKept
  <2>2. \A i \in DOMAIN teams \ packed :
          CountMembers(i) <= Size /\ (Founding(i) \/ teams[i] \in Members(i))
    BY DEF SeatsKept, TeamKept
  <2>3. solo /\ packed = {} /\ ~thronged /\ MaxParticipants > 0 =>
          CountParticipants <= MaxParticipants
    BY DEF ContestKept, PlacesKept
  <2>4. QED
    BY <2>1, <2>2, <2>3 DEF TeamsKept
<1>2. TeamsInit => Inv
  BY TeamsTypedInit, UsersInit, SeatsInit, PlacesInit
<1>3. Inv /\ [TeamsNext]_teamVars => Inv'
  BY TeamsTypedNext, UsersNext, SeatsNext, PlacesNext
<1>4. QED
  BY <1>1, <1>2, <1>3, PTL DEF TeamsSpec

-----------------------------------------------------------------------------
(* Of whichever of the two moves, scoring or teams.                        *)
THEOREM BothTypeCorrect == MCSpec => []PartsTyped
<1>1. MCInit => Init /\ TeamsInit
  BY DEF MCInit
<1>2. MCNext => [Next]_vars /\ [TeamsNext]_teamVars
  <2>1. \A r \in Requests : Submit(r) \/ Progress(r) \/ StatementFails(r) => Next
    BY DEF Next
  <2>2. Crash \/ Load \/ StoreInCache \/ CacheExpires => Next
    BY DEF Next
  <2>3. \A a \in Admissions, u \in Users : CreateTeam(a, u) \/ RegisterContest(a, u) => TeamsNext
    BY DEF TeamsNext
  <2>4. \A a \in Admissions, u \in Users, i \in DOMAIN teams :
            JoinTeam(a, u, i) \/ InviteTeamMember(a, i, u) => TeamsNext
    BY DEF TeamsNext
  <2>5. \A a \in Admissions : RegisterChecks(a) \/ InsertTeam(a) \/ InsertLeader(a) => TeamsNext
    BY DEF TeamsNext
  <2>6. \A a \in Admissions : CountSeats(a) \/ InsertMember(a) \/ Refuse(a) => TeamsNext
    BY DEF TeamsNext
  <2>7. \A i \in DOMAIN teams, u \in Users : LeaveTeam(i, u) => TeamsNext
    BY DEF TeamsNext
  <2>8. RegistrationEnds => TeamsNext
    BY DEF TeamsNext
  <2>9. MCNext => (Next /\ InScoring) \/ (TeamsNext /\ InTeams)
    BY <2>1, <2>2, <2>3, <2>4, <2>5, <2>6, <2>7, <2>8, Zenon DEF MCNext, Progress
  <2>10. (InScoring => UNCHANGED teamVars) /\ (InTeams => UNCHANGED vars)
    BY DEF InScoring, InTeams
  <2>11. QED
    BY <2>9, <2>10
<1>5. UNCHANGED MCVars => UNCHANGED vars /\ UNCHANGED teamVars
  BY DEF MCVars
<1>3. TypeOK /\ TeamsTypeOK => PartsTyped
  BY DEF PartsTyped
<1>4. QED
  BY <1>1, <1>2, <1>3, <1>5, TypeCorrect, TeamsTypeCorrect, PTL DEF MCSpec, Spec, TeamsSpec
=============================================================================
