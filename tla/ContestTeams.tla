---------------------------- MODULE ContestTeams -----------------------------
(***************************************************************************)
(* Teams and registration of one contest                                   *)
(* (backend/internal/service/contest_team_service.go with the team tables  *)
(* of backend/internal/repository/contest_repository.go).                  *)
(*                                                                         *)
(* A user enters a team by founding it, by its invite code, by its         *)
(* leader's invitation, or by registering for a contest of single players. *)
(* Every way looks first and inserts later, and leaving marks the row of   *)
(* the member as deleted.  The mark hides the row from the queries on      *)
(* team_members, neither from the unique index nor from GetUserTeam, which *)
(* joins the table by hand.                                                *)
(***************************************************************************)
EXTENDS Naturals, Sequences, FiniteSets, FiniteSetsExt

CONSTANTS
    Users, Admissions, Nobody,
    TeamMaxSize, MaxParticipants,   \* of the contest; 0 participants: no limit
    MaxTeams,      \* bound: teams founded
    MaxEntries,    \* bound: requests to enter a team
    MaxTeamFaults  \* bound: failed statements

ASSUME TeamsAssumption ==
    /\ {TeamMaxSize, MaxParticipants, MaxTeams, MaxEntries, MaxTeamFaults} \subseteq Nat
    /\ TeamMaxSize > 1
    /\ Nobody \notin Users

VARIABLES
    solo,      \* TeamMaxSize = 1: a contest of single players
    open,      \* ensureContestRegistrationOpen
    teams,     \* the leader of each team, by id
    member,    \* the row of each user in each team
    admission, \* the requests to enter a team
    entries, teamFaults,
    \* observers, read by no guard
    raced,     \* users with two admissions at once, or with a failed statement
    packed,    \* teams with two admissions at once, or with a failed statement
    thronged   \* two registrations at once, or a failed count

teamObservers == <<raced, packed, thronged>>
teamVars == <<solo, open, teams, member, admission, entries, teamFaults, teamObservers>>

\* No row, a row, or a row with deleted_at.
Row == {"none", "active", "deleted"}
Idle == [kind |-> "none", at |-> "idle", user |-> Nobody, team |-> 0]

TeamsInit ==
    /\ solo \in BOOLEAN
    /\ open = TRUE
    /\ teams = <<>>
    /\ member = <<>>
    /\ admission = [a \in Admissions |-> Idle]
    /\ entries = 0 /\ teamFaults = 0
    /\ raced = {} /\ packed = {} /\ thronged = FALSE

-----------------------------------------------------------------------------
Members(i) == {u \in Users : member[i][u] = "active"}
TeamsOf(u) == {i \in DOMAIN teams : u \in Members(i)}

\* IsInAnyTeam; CountMembers; CountParticipants.
IsInAnyTeam(u) == TeamsOf(u) # {}
CountMembers(i) == Cardinality(Members(i))
CountParticipants == MapThenSumSet(CountMembers, DOMAIN teams)

(* GetUserTeam: the team with the least id among those the user has a row  *)
(* in; the join does not look at deleted_at.                               *)
HasRow(i, u) == member[i][u] # "none"
GetUserTeam(u) ==
    LET mine == {i \in DOMAIN teams : HasRow(i, u)}
    IN  IF mine = {} THEN 0 ELSE Min(mine)

Stands(a, kinds, place) == admission[a].kind \in kinds /\ admission[a].at = place
Busy(a) == admission[a].at # "idle"
Proceed(a, place) == admission' = [admission EXCEPT ![a].at = place]
Finish(a) == admission' = [admission EXCEPT ![a] = Idle]

\* The query answers `truth`; or it fails, which counts as `zero`.
Answer(fails) == IF fails THEN teamFaults < MaxTeamFaults /\ teamFaults' = teamFaults + 1
                 ELSE UNCHANGED teamFaults

Enter(a, kind, place, u, i) ==
    /\ ~Busy(a)
    /\ entries < MaxEntries /\ entries' = entries + 1
    /\ admission' = [admission EXCEPT ![a] =
           [kind |-> kind, at |-> place, user |-> u, team |-> i]]

\* Who shares the user, or the team, with a request that goes on.
Raced(a, u, fails) ==
    raced' = IF fails \/ \E b \in Admissions \ {a} : Busy(b) /\ admission[b].user = u
             THEN raced \cup {u} ELSE raced
Packed(a, i) ==
    packed' = IF \E b \in Admissions \ {a} : Busy(b) /\ admission[b].team = i
              THEN packed \cup {i} ELSE packed

-----------------------------------------------------------------------------
\* Mutant: nobody asks whether the user is in a team.
NeverChecked(a, u) == Raced(a, u, FALSE) /\ UNCHANGED teamFaults

\* The user is in no team of the contest, or the query fails.
NotInTeam(a, u) ==
    \E fails \in BOOLEAN :
        /\ fails \/ ~IsInAnyTeam(u)
        /\ Answer(fails)
        /\ Raced(a, u, fails)

(* CreateTeam, until the team is inserted.                                 *)
CreateTeam(a, u) ==
    /\ open /\ ~solo
    /\ Enter(a, "create", "checked", u, 0)
    /\ NotInTeam(a, u)
    /\ UNCHANGED <<solo, open, teams, member, packed, thronged>>

(* JoinTeam, until the members are counted.                                *)
JoinTeam(a, u, i) ==
    /\ open /\ ~solo
    /\ Enter(a, "join", "checked", u, i)
    /\ NotInTeam(a, u)
    /\ Packed(a, i)
    /\ UNCHANGED <<solo, open, teams, member, thronged>>

(* InviteTeamMember by the leader; it does not ask whether registration is *)
(* open.                                                                   *)
InviteTeamMember(a, i, u) ==
    /\ Enter(a, "invite", "checked", u, i)
    /\ NotInTeam(a, u)
    /\ Packed(a, i)
    /\ UNCHANGED <<solo, open, teams, member, thronged>>

\* Mutant: one participant too many.
OneTooMany(n) == MaxParticipants > 0 => n <= MaxParticipants

HasPlace(n) == MaxParticipants > 0 => n < MaxParticipants

(* RegisterContest of a contest of single players, until the check for     *)
(* another team; for other contests it changes nothing.                    *)
RegisterContest(a, u) ==
    /\ open /\ solo
    /\ Enter(a, "register", "counted", u, 0)
    /\ \E fails \in BOOLEAN :
        /\ (fails /\ MaxParticipants > 0) \/ HasPlace(CountParticipants)
        /\ Answer(fails)
        /\ thronged' = (thronged \/ fails
                            \/ \E b \in Admissions : Busy(b) /\ admission[b].kind = "register")
    /\ UNCHANGED <<solo, open, teams, member, raced, packed>>

RegisterChecks(a) ==
    /\ Stands(a, {"register"}, "counted")
    /\ NotInTeam(a, admission[a].user)
    /\ Proceed(a, "checked")
    /\ UNCHANGED <<solo, open, teams, member, entries, packed, thronged>>

(* The team row; the leader is a member only with the next statement.      *)
InsertTeam(a) ==
    /\ Stands(a, {"create", "register"}, "checked")
    /\ Len(teams) < MaxTeams
    /\ teams' = Append(teams, admission[a].user)
    /\ member' = Append(member, [u \in Users |-> "none"])
    /\ admission' = [admission EXCEPT ![a].at = "founded", ![a].team = Len(teams) + 1]
    /\ UNCHANGED <<solo, open, entries, teamFaults, teamObservers>>

(* The leader's row, whose error is dropped.                               *)
InsertLeader(a) ==
    /\ Stands(a, {"create", "register"}, "founded")
    /\ LET i == admission[a].team
           u == admission[a].user
       IN  member' = IF HasRow(i, u) THEN member ELSE [member EXCEPT ![i][u] = "active"]
    /\ Finish(a)
    /\ UNCHANGED <<solo, open, teams, entries, teamFaults, teamObservers>>

Size == IF solo THEN 1 ELSE TeamMaxSize

\* Mutant: the comparison lets one more in.
OneMore(n) == n <= Size

HasSeat(n) == n < Size

(* CountMembers; an invitation takes a failed count for an empty team.     *)
CountSeats(a) ==
    /\ Stands(a, {"join", "invite"}, "checked")
    /\ \E fails \in BOOLEAN :
        /\ IF fails THEN admission[a].kind = "invite" ELSE HasSeat(CountMembers(admission[a].team))
        /\ Answer(fails)
        /\ packed' = IF fails THEN packed \cup {admission[a].team} ELSE packed
    /\ Proceed(a, "counted")
    /\ UNCHANGED <<solo, open, teams, member, entries, raced, thronged>>

(* The member's row; UNIQUE(team_id, user_id) also refuses a former member.*)
InsertMember(a) ==
    /\ Stands(a, {"join", "invite"}, "counted")
    /\ LET i == admission[a].team
           u == admission[a].user
       IN  member' = IF HasRow(i, u) THEN member ELSE [member EXCEPT ![i][u] = "active"]
    /\ Finish(a)
    /\ UNCHANGED <<solo, open, teams, entries, teamFaults, teamObservers>>

(* A check refuses, or an insert fails: a team may be left without its     *)
(* leader.                                                                 *)
Refuse(a) ==
    /\ Busy(a)
    /\ \/ /\ Stands(a, {"join", "invite"}, "checked")
          /\ ~HasSeat(CountMembers(admission[a].team))
          /\ UNCHANGED <<teamFaults, packed>>
       \/ /\ Stands(a, {"register"}, "counted")
          /\ IsInAnyTeam(admission[a].user)
          /\ UNCHANGED <<teamFaults, packed>>
       \/ /\ teamFaults < MaxTeamFaults /\ teamFaults' = teamFaults + 1
          /\ packed' = IF admission[a].team = 0 THEN packed ELSE packed \cup {admission[a].team}
    /\ Finish(a)
    /\ UNCHANGED <<solo, open, teams, member, entries, raced, thronged>>

-----------------------------------------------------------------------------
\* Mutant: a leader may leave.
AnyLeaves(i, u) ==
    /\ u \in Members(i)
    /\ member' = [member EXCEPT ![i][u] = "deleted"]
    /\ UNCHANGED <<solo, open, teams, admission, entries, teamFaults, teamObservers>>

(* LeaveTeam, and RemoveTeamMember by the leader: nobody but the leader.   *)
LeaveTeam(i, u) ==
    /\ u # teams[i]
    /\ u \in Members(i)
    /\ member' = [member EXCEPT ![i][u] = "deleted"]
    /\ UNCHANGED <<solo, open, teams, admission, entries, teamFaults, teamObservers>>

(* The contest begins, or registration ends.                               *)
RegistrationEnds ==
    /\ open
    /\ open' = FALSE
    /\ UNCHANGED <<solo, teams, member, admission, entries, teamFaults, teamObservers>>

TeamsNext ==
    \/ \E a \in Admissions :
        \/ \E u \in Users :
            \/ CreateTeam(a, u) \/ RegisterContest(a, u)
            \/ \E i \in DOMAIN teams : JoinTeam(a, u, i) \/ InviteTeamMember(a, i, u)
        \/ RegisterChecks(a) \/ InsertTeam(a) \/ InsertLeader(a)
        \/ CountSeats(a) \/ InsertMember(a) \/ Refuse(a)
    \/ \E i \in DOMAIN teams, u \in Users : LeaveTeam(i, u)
    \/ RegistrationEnds

TeamsSpec == TeamsInit /\ [][TeamsNext]_teamVars

-----------------------------------------------------------------------------
(* Type correctness.                                                       *)
TeamsTypeOK ==
    /\ solo \in BOOLEAN /\ open \in BOOLEAN
    /\ teams \in Seq(Users) /\ Len(teams) <= MaxTeams
    /\ member \in Seq([Users -> Row]) /\ Len(member) = Len(teams)
    /\ admission \in [Admissions ->
           [kind : {"none", "create", "join", "invite", "register"},
            at : {"idle", "checked", "counted", "founded"},
            user : Users \cup {Nobody}, team : 0 .. Len(teams)]]
    /\ entries \in 0 .. MaxEntries
    /\ teamFaults \in 0 .. MaxTeamFaults
    /\ raced \subseteq Users
    /\ packed \subseteq 1 .. Len(teams)
    /\ thronged \in BOOLEAN

\* Somebody is about to make the leader of team i its member.
Founding(i) == \E a \in Admissions : Stands(a, {"create", "register"}, "founded")
                                     /\ admission[a].team = i

(* A user is in one team of the contest, a team keeps to its size and has  *)
(* its leader, and a contest of single players to its places, as long as   *)
(* the admissions of a user, to a team and to the contest come one after   *)
(* the other and no statement fails.  Such a user's team is the one that   *)
(* GetUserTeam finds, unless the user has left an older one.               *)
TeamsKept ==
    /\ \A u \in Users \ raced :
        /\ Cardinality(TeamsOf(u)) <= 1
        /\ \A i \in TeamsOf(u) :
               (\A j \in DOMAIN teams : member[j][u] # "deleted") => GetUserTeam(u) = i
    /\ \A i \in DOMAIN teams \ packed :
        /\ CountMembers(i) <= Size
        /\ Founding(i) \/ teams[i] \in Members(i)
    /\ solo /\ packed = {} /\ ~thronged /\ MaxParticipants > 0 =>
           CountParticipants <= MaxParticipants
=============================================================================
