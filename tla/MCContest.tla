------------------------------ MODULE MCContest -------------------------------
(***************************************************************************)
(* Scoring of a contest and its teams, which share nothing but the number  *)
(* of teams: `scene` says which of the two moves in a behaviour.  The      *)
(* definitions of both are used under their own names.                     *)
(*                                                                         *)
(* Requests, teams and challenges are interchangeable, and so are users    *)
(* and admissions: these carry the names of teams and challenges, so that  *)
(* one group of permutations serves both scenes.                           *)
(***************************************************************************)
EXTENDS FlagScoring, ContestTeams, TLC

VARIABLE scene

MCSymmetry == Permutations(Requests) \cup Permutations(Teams) \cup Permutations(Challenges)

MCVars == <<scene, vars, teamVars>>

MCInit ==
    /\ scene \in {"scoring", "teams"}
    /\ Init /\ TeamsInit
    /\ scene = "scoring" => ~solo

InScoring == scene = "scoring" /\ UNCHANGED <<scene, teamVars>>
InTeams == scene = "teams" /\ UNCHANGED <<scene, vars>>

MCNext ==
    \/ \E r \in Requests : Submit(r) /\ InScoring
    \/ \E r \in Requests : Price(r) /\ InScoring
    \/ \E r \in Requests : CountSolves(r) /\ InScoring
    \/ \E r \in Requests : UpdateCurrentPoints(r) /\ InScoring
    \/ \E r \in Requests : AddToRow(r) /\ InScoring
    \/ \E r \in Requests : InsertRow(r) /\ InScoring
    \/ \E r \in Requests : UpdateRanks(r) /\ InScoring
    \/ \E r \in Requests : StoreSubmission(r) /\ InScoring
    \/ \E r \in Requests : Invalidate(r) /\ InScoring
    \/ \E r \in Requests : StatementFails(r) /\ InScoring
    \/ Crash /\ InScoring
    \/ Load /\ InScoring
    \/ StoreInCache /\ InScoring
    \/ CacheExpires /\ InScoring
    \/ \E a \in Admissions, u \in Users : CreateTeam(a, u) /\ InTeams
    \/ \E a \in Admissions, u \in Users : RegisterContest(a, u) /\ InTeams
    \/ \E a \in Admissions, u \in Users, i \in DOMAIN teams : JoinTeam(a, u, i) /\ InTeams
    \/ \E a \in Admissions, u \in Users, i \in DOMAIN teams : InviteTeamMember(a, i, u) /\ InTeams
    \/ \E a \in Admissions : RegisterChecks(a) /\ InTeams
    \/ \E a \in Admissions : InsertTeam(a) /\ InTeams
    \/ \E a \in Admissions : InsertLeader(a) /\ InTeams
    \/ \E a \in Admissions : CountSeats(a) /\ InTeams
    \/ \E a \in Admissions : InsertMember(a) /\ InTeams
    \/ \E a \in Admissions : Refuse(a) /\ InTeams
    \/ \E i \in DOMAIN teams, u \in Users : LeaveTeam(i, u) /\ InTeams
    \/ RegistrationEnds /\ InTeams

MCSpec == MCInit /\ [][MCNext]_MCVars

-----------------------------------------------------------------------------
(* Type correctness of the two.                                            *)
PartsTyped == IF scene = "teams" THEN TeamsTypeOK ELSE TypeOK
=============================================================================
