------------------------------- MODULE Teams --------------------------------
(***************************************************************************)
(* Registrations, teams, submissions and judging seats of one published    *)
(* hackathon, from the opening of registration to the opening of judging:  *)
(* lib/teams/actions.ts, lib/events/registration-actions.ts,               *)
(* lib/events/submission-actions.ts and the seat operations of             *)
(* services/judging/service.ts.                                            *)
(*                                                                         *)
(* A request that reads rows another request may change before it writes   *)
(* is two steps: the checks, on one reading of the database, and the       *)
(* write.  A request whose only write repeats its checks in the WHERE      *)
(* clause is one step.  Each person has at most one request under way, and *)
(* a crowd says who takes part, who of them founds teams, and how many     *)
(* requests may overlap.                                                   *)
(***************************************************************************)
EXTENDS Integers, FiniteSets

CONSTANTS
    Users,          \* developers with an account
    Newcomers,      \* those not registered yet; the others registered earlier
    Candidates,     \* those an organizer may invite to judge
    Host,           \* an organization admin
    TeamIds,        \* team rows that can be created
    Nobody,         \* no user, no team
    MaxTeamMembers, \* MAX_TEAM_MEMBERS (5 in the code)
    MaxTeams,       \* Event.maxTeams
    Crowds          \* who takes part and founds, how many requests may overlap

ASSUME TeamsAssumption ==
    /\ IsFiniteSet(Users)
    /\ Candidates \subseteq Users /\ Newcomers \subseteq Users
    /\ Host \notin Users
    /\ Nobody \notin Users \cup TeamIds \cup {Host}
    /\ MaxTeamMembers \in Nat \ {0}
    /\ MaxTeams \in Nat \ {0}
    /\ Crowds \subseteq [who : SUBSET Users, founders : SUBSET Users, width : Nat \ {0}]

VARIABLES
    phase,       \* the event: its deadlines passed and its status
    registered,  \* users with a REGISTERED registration
    team,        \* Team rows: status and leader
    member,      \* TeamMember.status of a user in a team
    submitted,   \* teams with a Submission row
    seat,        \* JudgeAssignment.status of a candidate
    request,     \* the request of each person that has checked, not written
    crowd        \* who takes part in this behaviour

teamsVars == <<phase, registered, team, member, submitted, seat, request, crowd>>

-----------------------------------------------------------------------------
(* Types *)

Actors       == Users \cup {Host}
Phases       == {"registration", "running", "over", "JUDGING"}
TeamStatus   == {"none", "OPEN", "LOCKED", "DISBANDED"}
MemberStatus == {"none", "INVITED", "JOINED", "LEFT", "DECLINED"}
SeatStatus   == {"none", "INVITED", "ACTIVE", "DECLINED"}
TeamOps      == {"invite", "join", "accept", "disband", "submit"}
OtherOps     == {"cancelRegistration", "create", "inviteJudge", "acceptSeat",
                 "openJudging"}

NoRequest == [op |-> "none", team |-> Nobody, about |-> {}, since |-> "registration"]
Requests  == [op : TeamOps, team : TeamIds, about : SUBSET Users, since : Phases]
             \cup [op : OtherOps \cup {"none"}, team : {Nobody},
                   about : SUBSET Users, since : Phases]

TeamsInit ==
    /\ phase = "registration"
    /\ registered = Users \ Newcomers
    /\ team = [t \in TeamIds |-> [status |-> "none", leader |-> Nobody]]
    /\ member = [t \in TeamIds |-> [u \in Users |-> "none"]]
    /\ submitted = {}
    /\ seat = [c \in Candidates |-> "none"]
    /\ request = [u \in Actors |-> NoRequest]
    /\ crowd \in Crowds

-----------------------------------------------------------------------------
(* What the requests read *)

Joined(t)   == {u \in Users : member[t][u] = "JOINED"}
OnATeam(u)  == \E t \in TeamIds : member[t][u] = "JOINED"
Judging(u)  == u \in Candidates /\ seat[u] \in {"INVITED", "ACTIVE"}
Standing    == {t \in TeamIds : team[t].status \in {"OPEN", "LOCKED"}}
Leads(u, t) == team[t].status # "none" /\ team[t].leader = u

\* Registration closes before the hackathon starts, submissions when it ends.
RegistrationOpen     == phase = "registration"
SubmissionWindowOpen == phase \in {"registration", "running"}

MutantCanJoinTeam(t) == RegistrationOpen /\ team[t].status = "OPEN"

CanJoinTeam(t) ==
    /\ RegistrationOpen
    /\ team[t].status = "OPEN"
    /\ Cardinality(Joined(t)) < MaxTeamMembers

-----------------------------------------------------------------------------
(* Requests *)

Busy == {u \in Actors : request[u].op # "none"}

\* The checks of a request have passed; its write is still to come.
Checked(u, op, t, about) ==
    /\ request[u].op = "none"
    /\ Cardinality(Busy) < crowd.width
    /\ request' = [request EXCEPT ![u] =
                     [op |-> op, team |-> t, about |-> about, since |-> phase]]
    /\ UNCHANGED <<phase, registered, team, member, submitted, seat, crowd>>

Holds(u, op) == request[u].op = op
Done(u)      == request' = [request EXCEPT ![u] = NoRequest] /\ UNCHANGED crowd

\* A request that is a single conditional write.
AtOnce(u) ==
    /\ request[u].op = "none"
    /\ Cardinality(Busy) < crowd.width
    /\ UNCHANGED <<request, crowd>>

SetMember(t, u, s) == member' = [member EXCEPT ![t][u] = s]

-----------------------------------------------------------------------------
(* Registration *)

RegisterForEvent(u) ==
    /\ RegistrationOpen
    /\ u \in Newcomers \ registered
    /\ AtOnce(u)
    /\ registered' = registered \cup {u}
    /\ UNCHANGED <<phase, team, member, submitted, seat>>

CancelRegistration(u) ==
    /\ u \in Newcomers \cap registered
    /\ ~OnATeam(u)
    /\ Checked(u, "cancelRegistration", Nobody, {})

CancelRegistrationWrite(u) ==
    /\ Holds(u, "cancelRegistration")
    /\ registered' = registered \ {u}
    /\ Done(u)
    /\ UNCHANGED <<phase, team, member, submitted, seat>>

-----------------------------------------------------------------------------
(* Teams *)

CreateTeam(u) ==
    /\ u \in crowd.founders
    /\ u \in registered /\ RegistrationOpen
    /\ ~OnATeam(u)
    /\ ~Judging(u)
    /\ Cardinality(Standing) < MaxTeams
    /\ Checked(u, "create", Nobody, {})

CreateTeamWrite(u) ==
    /\ Holds(u, "create")
    /\ \E t \in TeamIds :
         /\ team[t].status = "none"
         /\ team' = [team EXCEPT ![t] = [status |-> "OPEN", leader |-> u]]
         /\ SetMember(t, u, "JOINED")
    /\ Done(u)
    /\ UNCHANGED <<phase, registered, submitted, seat>>

\* canJoinTeam is called with registration taken as open.
InviteMember(u, t, v) ==
    /\ Leads(u, t)
    /\ ~OnATeam(v)
    /\ team[t].status = "OPEN"
    /\ Cardinality(Joined(t)) < MaxTeamMembers
    /\ Checked(u, "invite", t, {v})

\* The upsert does not look at the status the row has by now.
InviteMemberWrite(u) ==
    /\ Holds(u, "invite")
    /\ \E v \in request[u].about : SetMember(request[u].team, v, "INVITED")
    /\ Done(u)
    /\ UNCHANGED <<phase, registered, team, submitted, seat>>

\* A row of any status makes canJoinTeam answer "already on this team".
JoinTeamByCode(u, t) ==
    /\ u \in registered
    /\ ~OnATeam(u)
    /\ ~Judging(u)
    /\ member[t][u] = "none"
    /\ CanJoinTeam(t)
    /\ Checked(u, "join", t, {})

\* The row is created: an invitation written meanwhile makes the create fail.
JoinTeamWrite(u) ==
    /\ Holds(u, "join")
    /\ LET t == request[u].team
       IN  IF member[t][u] = "none" THEN SetMember(t, u, "JOINED") ELSE UNCHANGED member
    /\ Done(u)
    /\ UNCHANGED <<phase, registered, team, submitted, seat>>

AcceptTeamInvite(u, t) ==
    /\ member[t][u] = "INVITED"
    /\ ~Judging(u)
    /\ CanJoinTeam(t)
    /\ Checked(u, "accept", t, {})

AcceptTeamInviteWrite(u) ==
    /\ Holds(u, "accept")
    /\ SetMember(request[u].team, u, "JOINED")
    /\ Done(u)
    /\ UNCHANGED <<phase, registered, team, submitted, seat>>

DeclineTeamInvite(u, t) ==
    /\ member[t][u] = "INVITED"
    /\ AtOnce(u)
    /\ SetMember(t, u, "DECLINED")
    /\ UNCHANGED <<phase, registered, team, submitted, seat>>

LeaveTeam(u, t) ==
    /\ member[t][u] = "JOINED"
    /\ ~Leads(u, t)
    /\ AtOnce(u)
    /\ SetMember(t, u, "LEFT")
    /\ UNCHANGED <<phase, registered, team, submitted, seat>>

\* Anything but OPEN is toggled to OPEN, a disbanded team too.
ToggleTeamLock(u, t) ==
    /\ Leads(u, t)
    /\ AtOnce(u)
    /\ team' = [team EXCEPT ![t].status = IF @ = "OPEN" THEN "LOCKED" ELSE "OPEN"]
    /\ UNCHANGED <<phase, registered, member, submitted, seat>>

DisbandTeam(u, t) ==
    /\ Leads(u, t)
    /\ t \notin submitted
    /\ Checked(u, "disband", t, {})

DisbandTeamWrite(u) ==
    /\ Holds(u, "disband")
    /\ LET t == request[u].team
       IN  /\ team' = [team EXCEPT ![t].status = "DISBANDED"]
           /\ member' = [member EXCEPT ![t] =
                [v \in Users |-> IF @[v] = "JOINED" THEN "LEFT" ELSE @[v]]]
    /\ Done(u)
    /\ UNCHANGED <<phase, registered, submitted, seat>>

\* The prize split was valid for the members read here.
SaveSubmission(u, t) ==
    /\ member[t][u] = "JOINED"
    /\ SubmissionWindowOpen
    /\ Checked(u, "submit", t, {})

SaveSubmissionWrite(u) ==
    /\ Holds(u, "submit")
    /\ submitted' = submitted \cup {request[u].team}
    /\ Done(u)
    /\ UNCHANGED <<phase, registered, team, member, seat>>

-----------------------------------------------------------------------------
(* Judging seats *)

InviteJudge(c) ==
    /\ ~OnATeam(c)
    /\ Checked(Host, "inviteJudge", Nobody, {c})

\* The upsert turns an ACTIVE seat back into an invitation.
InviteJudgeWrite ==
    /\ Holds(Host, "inviteJudge")
    /\ seat' = [c \in Candidates |->
                 IF c \in request[Host].about THEN "INVITED" ELSE seat[c]]
    /\ Done(Host)
    /\ UNCHANGED <<phase, registered, team, member, submitted>>

MutantAcceptSeat(c) == seat[c] # "none" /\ Checked(c, "acceptSeat", Nobody, {})

\* The status of the seat is not looked at: a removed judge can come back.
AcceptSeat(c) ==
    /\ seat[c] # "none"
    /\ ~OnATeam(c)
    /\ Checked(c, "acceptSeat", Nobody, {})

AcceptSeatWrite(c) ==
    /\ Holds(c, "acceptSeat")
    /\ seat' = [seat EXCEPT ![c] = "ACTIVE"]
    /\ Done(c)
    /\ UNCHANGED <<phase, registered, team, member, submitted>>

\* A judge declines, or the organizer removes the judge.
VacateSeat(u, c) ==
    /\ u \in {c, Host}
    /\ seat[c] # "none"
    /\ AtOnce(u)
    /\ seat' = [seat EXCEPT ![c] = "DECLINED"]
    /\ UNCHANGED <<phase, registered, team, member, submitted>>

Conflicts == {c \in Candidates : seat[c] = "ACTIVE" /\ OnATeam(c)}

OpenJudging ==
    /\ phase = "over"
    /\ Conflicts = {}
    /\ Checked(Host, "openJudging", Nobody, {})

OpenJudgingWrite ==
    /\ Holds(Host, "openJudging")
    /\ phase' = "JUDGING"
    /\ Done(Host)
    /\ UNCHANGED <<registered, team, member, submitted, seat>>

-----------------------------------------------------------------------------
(* Time: a request outlives at most one deadline. *)

Deadline ==
    /\ \A u \in Busy : request[u].since = phase
    /\ \/ phase = "registration" /\ phase' = "running"
       \/ phase = "running" /\ phase' = "over"
    /\ UNCHANGED <<registered, team, member, submitted, seat, request, crowd>>

Registration(u) == RegisterForEvent(u) \/ CancelRegistration(u) \/ CancelRegistrationWrite(u)

TeamAction(u) ==
    \/ CreateTeam(u) \/ CreateTeamWrite(u)
    \/ \E t \in TeamIds :
         \/ \E v \in crowd.who : InviteMember(u, t, v)
         \/ JoinTeamByCode(u, t) \/ AcceptTeamInvite(u, t)
         \/ DeclineTeamInvite(u, t) \/ LeaveTeam(u, t)
         \/ ToggleTeamLock(u, t) \/ DisbandTeam(u, t) \/ SaveSubmission(u, t)
    \/ InviteMemberWrite(u) \/ JoinTeamWrite(u) \/ AcceptTeamInviteWrite(u)
    \/ DisbandTeamWrite(u) \/ SaveSubmissionWrite(u)

Seats ==
    \/ \E c \in Candidates \cap crowd.who :
         \/ InviteJudge(c) \/ AcceptSeat(c) \/ AcceptSeatWrite(c)
         \/ \E u \in crowd.who \cup {Host} : VacateSeat(u, c)
    \/ InviteJudgeWrite \/ OpenJudging \/ OpenJudgingWrite

TeamsNext == (\E u \in crowd.who : Registration(u) \/ TeamAction(u)) \/ Seats \/ Deadline

TeamsSpec == TeamsInit /\ [][TeamsNext]_teamsVars

-----------------------------------------------------------------------------
(* Properties *)

\* Every variable has its type.
TeamsTypeOK ==
    /\ phase \in Phases
    /\ registered \subseteq Users
    /\ team \in [TeamIds -> [status : TeamStatus, leader : Users \cup {Nobody}]]
    /\ member \in [TeamIds -> [Users -> MemberStatus]]
    /\ submitted \subseteq TeamIds
    /\ seat \in [Candidates -> SeatStatus]
    /\ request \in [Actors -> Requests]
    /\ crowd \in Crowds

\* While judging is open no active judge is on a team of the hackathon, however
\* joining a team, answering a judge invitation and opening judging interleave.
JudgesDoNotCompete == phase = "JUDGING" => Conflicts = {}

\* Joins check the team's size before they write: with n requests under way at
\* once a team exceeds its cap by at most n - 1, and never when they are served
\* one at a time.
TeamSizeBounded ==
    \A t \in TeamIds : Cardinality(Joined(t)) < MaxTeamMembers + crowd.width
=============================================================================
