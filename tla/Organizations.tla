--------------------------- MODULE Organizations ----------------------------
(***************************************************************************)
(* Organizations: onboarding and creation (lib/onboarding/actions.ts),     *)
(* invitations (lib/organizations), the business verification and the      *)
(* profile lock that follows from it (lib/orgs).                           *)
(*                                                                         *)
(* A request that reads before it writes is its checks, on one reading of  *)
(* the database, and its write; `pace' bounds the requests under way.  An  *)
(* organization is known by its address, the slug candidate it got.        *)
(***************************************************************************)
EXTENDS Integers, FiniteSets, FiniteSetsExt

CONSTANTS
    People,        \* users, each with one e-mail address
    Staff,         \* administrators
    Unclaimed,     \* no user
    Addresses,     \* slug candidates of one name, in order: 1 .. n
    MaxAttempts,   \* candidates that one creation tries (5 in the code)
    Invites,       \* invitation rows that can be created
    Names,         \* names of an organization
    Paces,         \* how many requests may be under way at once
    Builders,      \* model bound: users that choose a role or the developer's form
    Verifiable     \* model bound: addresses whose organization is verified or renamed

ASSUME OrganizationsAssumption ==
    /\ People \cap Staff = {} /\ Unclaimed \notin People \cup Staff
    /\ Addresses \subseteq Nat \ {0} /\ MaxAttempts \in Nat \ {0}
    /\ Paces \subseteq Nat \ {0} /\ Builders \subseteq People /\ Verifiable \subseteq Addresses

VARIABLES
    grants,     \* RoleGrant rows of each user
    onboarded,  \* users with onboardingCompletedAt
    owner,      \* Organization.ownerId by address; Unclaimed without a row
    members,    \* users with an ACTIVE OrgMember row (none is ever revoked)
    orgName,    \* Organization.name
    kyc,        \* Organization.kycStatus
    invite,     \* OrgInvitation rows
    usedBy,     \* history: who became a member through an invitation
    reviewed,   \* history: the name an administrator approved or gave last
    pending,    \* the request of each person that has checked, not written
    pace        \* bound on the requests under way

orgVars == <<grants, onboarded, owner, members, orgName, kyc, invite, usedBy, reviewed,
             pending, pace>>

KycStatus    == {"NONE", "PENDING", "VERIFIED", "FAILED"}
InviteStatus == {"none", "open", "accepted", "expired"}
NoPending    == [op |-> "none"]

OrgInit ==
    /\ grants = [u \in People |-> {}]
    /\ onboarded = {}
    /\ owner = [a \in Addresses |-> Unclaimed]
    /\ members = [a \in Addresses |-> {}]
    /\ orgName \in {[a \in Addresses |-> n] : n \in Names}
    /\ kyc = [a \in Addresses |-> "NONE"]
    /\ invite = [i \in Invites |-> [status |-> "none", org |-> 0, email |-> Unclaimed, by |-> Unclaimed]]
    /\ usedBy = [i \in Invites |-> {}]
    /\ reviewed = orgName
    /\ pending = [u \in People \cup Staff |-> NoPending]
    /\ pace \in Paces

-----------------------------------------------------------------------------
UnderWay == {u \in People \cup Staff : pending[u] # NoPending}

Begin(u, r) ==
    /\ pending[u] = NoPending
    /\ Cardinality(UnderWay) < pace
    /\ pending' = [pending EXCEPT ![u] = r]
    /\ UNCHANGED <<grants, onboarded, owner, members, orgName, kyc, invite, usedBy, reviewed, pace>>

Is(u, op) == pending[u].op = op
End(u)    == pending' = [pending EXCEPT ![u] = NoPending] /\ UNCHANGED pace

Free        == {a \in Addresses : owner[a] = Unclaimed}
Existing    == Addresses \ Free
Memberships(u) == {a \in Existing : u \in members[a]}

\* OWNER and ADMIN; no code in the application makes anyone an ADMIN member.
CanEditOrgProfile(u, a) == owner[a] = u

Grant(u, role) ==
    /\ grants' = [grants EXCEPT ![u] = @ \cup {role}]
    /\ onboarded' = onboarded \cup {u}

-----------------------------------------------------------------------------
(* Onboarding *)

ChooseRole(u, role) ==
    /\ u \in Builders /\ pending[u] = NoPending
    /\ role \notin grants[u]
    /\ grants' = [grants EXCEPT ![u] = @ \cup {role}]
    /\ UNCHANGED <<onboarded, owner, members, orgName, kyc, invite, usedBy, reviewed, pending, pace>>

CompleteDeveloperOnboarding(u) ==
    /\ u \in Builders /\ pending[u] = NoPending
    /\ Grant(u, "DEVELOPER")
    /\ UNCHANGED <<owner, members, orgName, kyc, invite, usedBy, reviewed, pending, pace>>

CreateOrganization(u) ==
    /\ Memberships(u) = {}
    /\ Free # {}
    /\ Begin(u, [op |-> "create", free |-> Free])

\* createWithOrgSlugRetry: the first few candidates that were free.
Attempted(free) == {a \in free : Cardinality({b \in free : b <= a}) <= MaxAttempts}

CreateOrganizationWrite(u) ==
    /\ Is(u, "create")
    /\ LET left == Attempted(pending[u].free) \cap Free
       IN  IF left = {}
           THEN UNCHANGED <<grants, onboarded, owner, members>>
           ELSE /\ \E a \in left :
                     /\ \A b \in left : a <= b
                     /\ owner' = [owner EXCEPT ![a] = u]
                     /\ members' = [members EXCEPT ![a] = {u}]
                /\ Grant(u, "ORGANIZER")
    /\ End(u)
    /\ UNCHANGED <<orgName, kyc, invite, usedBy, reviewed>>

-----------------------------------------------------------------------------
(* Invitations *)

\* With the invitee's address, or with the creator's own to share by hand.
CreateOrgInvite(u, a, i, email) ==
    /\ pending[u] = NoPending
    /\ "ORGANIZER" \in grants[u]
    /\ a \in Memberships(u) /\ CanEditOrgProfile(u, a)
    /\ invite[i].status = "none"
    /\ invite' = [invite EXCEPT ![i] = [status |-> "open", org |-> a, email |-> email, by |-> u]]
    /\ UNCHANGED <<grants, onboarded, owner, members, orgName, kyc, usedBy, reviewed, pending, pace>>

InviteExpires(i) ==
    /\ invite[i].status = "open"
    /\ invite' = [invite EXCEPT ![i].status = "expired"]
    /\ UNCHANGED <<grants, onboarded, owner, members, orgName, kyc, usedBy, reviewed, pending, pace>>

\* An invitation whose address is a member's is taken for one shared by hand.
Targeted(i) == invite[i].email \notin members[invite[i].org]

AcceptInvite(u, i) ==
    /\ invite[i].status = "open"
    /\ Targeted(i) => invite[i].email = u
    /\ Begin(u, [op |-> "accept", invite |-> i])

MutantClaim(i) == invite[i].status \in {"open", "accepted"}

\* The claim: a conditional update in the transaction that adds the member.
ClaimInvite(i) == invite[i].status = "open"

AcceptInviteWrite(u) ==
    /\ Is(u, "accept")
    /\ LET i == pending[u].invite
           a == invite[i].org
       IN  IF ~ClaimInvite(i)
           THEN UNCHANGED <<grants, onboarded, members, invite, usedBy>>
           ELSE /\ invite' = [invite EXCEPT ![i].status = "accepted"]
                /\ members' = [members EXCEPT ![a] = @ \cup {u}]
                /\ usedBy' = [usedBy EXCEPT ![i] = @ \cup ({u} \ members[a])]
                /\ Grant(u, "ORGANIZER")
    /\ End(u)
    /\ UNCHANGED <<owner, orgName, kyc, reviewed>>

-----------------------------------------------------------------------------
(* Verification *)

CanSubmitKyb(status) == status \in {"NONE", "FAILED"}

SubmitKyb(u, a) ==
    /\ a \in Existing /\ CanEditOrgProfile(u, a)
    /\ CanSubmitKyb(kyc[a])
    /\ Begin(u, [op |-> "submit", org |-> a])

SubmitKybWrite(u) ==
    /\ Is(u, "submit")
    /\ kyc' = [kyc EXCEPT ![pending[u].org] = "PENDING"]
    /\ End(u)
    /\ UNCHANGED <<grants, onboarded, owner, members, orgName, invite, usedBy, reviewed>>

Decidable(a)       == kyc[a] = "PENDING"

DecideKyb(s, a, status) ==
    /\ a \in Existing
    /\ Decidable(a)
    /\ Begin(s, [op |-> "decide", org |-> a, status |-> status])

DecideKybWrite(s) ==
    /\ Is(s, "decide")
    /\ LET a == pending[s].org
       IN  /\ kyc' = [kyc EXCEPT ![a] = pending[s].status]
           /\ reviewed' = [reviewed EXCEPT ![a] = orgName[a]]
    /\ End(s)
    /\ UNCHANGED <<grants, onboarded, owner, members, orgName, invite, usedBy>>

-----------------------------------------------------------------------------
(* The public profile *)

\* Once verified the name is the one that was checked.
NameUnlocked(a) == kyc[a] # "VERIFIED"

UpdateOrgProfile(u, a, n) ==
    /\ a \in Existing /\ CanEditOrgProfile(u, a)
    /\ NameUnlocked(a)
    /\ orgName[a] # n
    /\ Begin(u, [op |-> "rename", org |-> a, name |-> n])

AdminUpdateOrgProfile(s, a, n) ==
    /\ a \in Existing
    /\ orgName[a] # n
    /\ Begin(s, [op |-> "rename", org |-> a, name |-> n])

UpdateOrgProfileWrite(u) ==
    /\ Is(u, "rename")
    /\ orgName' = [orgName EXCEPT ![pending[u].org] = pending[u].name]
    /\ reviewed' = IF u \in Staff
                   THEN [reviewed EXCEPT ![pending[u].org] = pending[u].name] ELSE reviewed
    /\ End(u)
    /\ UNCHANGED <<grants, onboarded, owner, members, kyc, invite, usedBy>>

-----------------------------------------------------------------------------
Onboarding(u) ==
    \/ \E role \in {"DEVELOPER", "ORGANIZER"} : ChooseRole(u, role)
    \/ CompleteDeveloperOnboarding(u) \/ CreateOrganization(u) \/ CreateOrganizationWrite(u)

Inviting(u) ==
    \/ \E i \in Invites :
         \/ AcceptInvite(u, i)
         \/ \E a \in Addresses, e \in People : CreateOrgInvite(u, a, i, e)
    \/ AcceptInviteWrite(u)

Profile(u) ==
    \/ \E a \in Verifiable : SubmitKyb(u, a) \/ \E n \in Names : UpdateOrgProfile(u, a, n)
    \/ SubmitKybWrite(u)

KybReview(s) ==
    \/ \E a \in Verifiable :
         \/ \E status \in {"VERIFIED", "FAILED"} : DecideKyb(s, a, status)
         \/ \E n \in Names : AdminUpdateOrgProfile(s, a, n)
    \/ DecideKybWrite(s)

OrgNext ==
    \/ \E u \in People : Onboarding(u) \/ Inviting(u) \/ Profile(u)
    \/ \E s \in Staff : KybReview(s)
    \/ \E u \in People \cup Staff : UpdateOrgProfileWrite(u)
    \/ \E i \in Invites : InviteExpires(i)

OrgSpec == OrgInit /\ [][OrgNext]_orgVars

-----------------------------------------------------------------------------
(* Properties *)

\* Every variable has its type.
OrgTypeOK ==
    /\ grants \in [People -> SUBSET {"DEVELOPER", "ORGANIZER"}]
    /\ onboarded \subseteq People
    /\ owner \in [Addresses -> People \cup {Unclaimed}]
    /\ members \in [Addresses -> SUBSET People]
    /\ orgName \in [Addresses -> Names] /\ reviewed \in [Addresses -> Names]
    /\ kyc \in [Addresses -> KycStatus]
    /\ usedBy \in [Invites -> SUBSET People]
    /\ pace \in Paces

\* However many people open one invitation at once, it makes one member at most,
\* and everyone it made a member may use the organizer's pages.
OneMemberPerInvite ==
    \A i \in Invites :
        /\ Cardinality(usedBy[i]) <= 1
        /\ usedBy[i] \subseteq {u \in onboarded : "ORGANIZER" \in grants[u]}

\* An invitation makes nobody a member but the one it was e-mailed to, unless its
\* address is a member's: the creator's own, or of one who joined in another way.
InviteIsPersonal ==
    \A i \in Invites : \/ usedBy[i] \subseteq {invite[i].email}
                       \/ invite[i].email \in members[invite[i].org]

\* When requests are served one at a time, a verified organization bears the name
\* that an administrator checked or gave it.
VerifiedNameStands ==
    pace = 1 => \A a \in Existing : kyc[a] = "VERIFIED" => orgName[a] = reviewed[a]
=============================================================================
