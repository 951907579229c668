----------------------------- MODULE PeopleProofs -----------------------------
(***************************************************************************)
(* What the parts around one person promise, for any number of people,     *)
(* requests and machines: organizations and their invitations, accounts    *)
(* and their sessions, mail and consent, and the rate limiter.             *)
(***************************************************************************)
EXTENDS Organizations, Accounts, Outreach, RateLimit, FiniteSetTheorems, TLAPS

-----------------------------------------------------------------------------
(* Organizations: an invitation makes one member at most, for any number of    *)
(* people, organizations and invitations, and however many requests overlap    *)

\* Whom an invitation made a member may use the organizer's pages; there is one
\* such person at most, and none while the invitation has not been claimed.
Welcomed(i) ==
    /\ usedBy[i] \subseteq {u \in onboarded : "ORGANIZER" \in grants[u]}
    /\ \E u : usedBy[i] \subseteq {u}
    /\ invite[i].status # "accepted" => usedBy[i] = {}

InviteInv ==
    /\ DOMAIN grants = People
    /\ onboarded \subseteq People
    /\ DOMAIN invite = Invites /\ DOMAIN usedBy = Invites
    /\ \A i \in Invites : DOMAIN invite[i] = {"status", "org", "email", "by"}
    /\ \A i \in Invites : Welcomed(i)

\* Roles and onboarding are only ever added to.
LEMMA GrantsGrow ==
    ASSUME DOMAIN grants = People, NEW u \in People, NEW role,
           grants' = [grants EXCEPT ![u] = @ \cup {role}]
    PROVE  DOMAIN grants' = People /\ (\A v \in People : grants[v] \subseteq grants'[v]) /\ role \in grants'[u]
OBVIOUS

\* Where the invitations do not move and nobody loses a role, nothing is lost.
LEMMA GrowingKeeps ==
    ASSUME InviteInv, UNCHANGED <<invite, usedBy>>, DOMAIN grants' = People,
           \A v \in People : grants[v] \subseteq grants'[v],
           onboarded \subseteq onboarded', onboarded' \subseteq People
    PROVE  InviteInv'
<1>1. \A i \in Invites : Welcomed(i)'
  BY DEF InviteInv, Welcomed
<1> QED BY <1>1 DEF InviteInv

\* Every step preserves the invariant.
LEMMA InvitesKeep ==
    ASSUME InviteInv, [OrgNext]_orgVars
    PROVE  InviteInv'
<1>1. CASE UNCHANGED <<grants, onboarded, invite, usedBy>>
  BY <1>1, GrowingKeeps DEF InviteInv
<1>2. ASSUME NEW u \in People, NEW role, Grant(u, role), UNCHANGED <<invite, usedBy>>
      PROVE  InviteInv'
  BY <1>2, GrantsGrow, GrowingKeeps DEF Grant, InviteInv
<1>3. ASSUME NEW u \in People, Onboarding(u)
      PROVE  InviteInv'
  <2>1. ASSUME NEW role, ChooseRole(u, role)
        PROVE  InviteInv'
    BY <2>1, GrantsGrow, GrowingKeeps DEF ChooseRole, InviteInv
  <2>2. CASE CompleteDeveloperOnboarding(u)
    BY <1>2, <2>2 DEF CompleteDeveloperOnboarding
  <2>3. CASE CreateOrganization(u)
    BY <1>1, <2>3 DEF CreateOrganization, Begin
  <2>4. CASE CreateOrganizationWrite(u)
    BY <1>1, <1>2, <2>4 DEF CreateOrganizationWrite
  <2> QED BY <1>3, <2>1, <2>2, <2>3, <2>4 DEF Onboarding
<1>4. ASSUME NEW u \in People, NEW i \in Invites, NEW a, NEW e, CreateOrgInvite(u, a, i, e)
      PROVE  InviteInv'
  <2>1. /\ UNCHANGED <<grants, onboarded, usedBy>> /\ invite[i].status = "none"
        /\ invite' = [invite EXCEPT ![i] = [status |-> "open", org |-> a, email |-> e, by |-> u]]
    BY <1>4 DEF CreateOrgInvite
  <2>2. \A k \in Invites : k # i => invite'[k] = invite[k]
    BY <2>1 DEF InviteInv
  <2>3. usedBy[i] = {}
    BY <2>1 DEF InviteInv, Welcomed
  <2>4. \A k \in Invites : Welcomed(k)'
    BY <2>1, <2>2, <2>3 DEF InviteInv, Welcomed
  <2> QED BY <2>1, <2>2, <2>4 DEF InviteInv
<1>5. ASSUME NEW u \in People, AcceptInviteWrite(u)
      PROVE  InviteInv'
  <2> DEFINE i == pending[u].invite
  <2>1. CASE ~ClaimInvite(i)
    BY <1>1, <1>5, <2>1 DEF AcceptInviteWrite
  <2>2. CASE ClaimInvite(i) /\ i \notin Invites
    <3>1. Grant(u, "ORGANIZER") /\ invite' = [invite EXCEPT ![i].status = "accepted"]
          /\ usedBy' = [usedBy EXCEPT ![i] = @ \cup ({u} \ members[invite[i].org])]
      BY <1>5, <2>2 DEF AcceptInviteWrite
    <3>2. \A k \in Invites : invite'[k] = invite[k] /\ usedBy'[k] = usedBy[k]
      BY <2>2, <3>1 DEF InviteInv
    <3> QED BY <3>1, <3>2, GrantsGrow DEF InviteInv, Welcomed, Grant
  <2>3. CASE ClaimInvite(i) /\ i \in Invites
    <3>1. PICK k \in Invites : k = i
      BY <2>3
    <3>2. Grant(u, "ORGANIZER") /\ invite' = [invite EXCEPT ![k].status = "accepted"]
          /\ usedBy' = [usedBy EXCEPT ![k] = @ \cup ({u} \ members[invite[k].org])]
      BY <1>5, <2>3, <3>1 DEF AcceptInviteWrite
    <3>3. DOMAIN grants' = People /\ (\A v \in People : grants[v] \subseteq grants'[v])
          /\ "ORGANIZER" \in grants'[u] /\ onboarded' = onboarded \cup {u}
      BY <3>2, GrantsGrow DEF Grant, InviteInv
    <3>4. usedBy[k] = {}
      BY <2>3, <3>1 DEF ClaimInvite, InviteInv, Welcomed
    <3>5. /\ DOMAIN invite' = Invites /\ DOMAIN usedBy' = Invites
          /\ \A x \in Invites : DOMAIN invite'[x] = {"status", "org", "email", "by"}
          /\ \A x \in Invites : x # k => invite'[x] = invite[x] /\ usedBy'[x] = usedBy[x]
          /\ usedBy'[k] \subseteq {u} /\ invite'[k].status = "accepted"
      BY <3>2, <3>4 DEF InviteInv
    <3>6. \A x \in Invites : Welcomed(x)'
      BY <3>3, <3>5 DEF InviteInv, Welcomed
    <3> QED BY <3>3, <3>5, <3>6 DEF InviteInv
  <2> QED BY <2>1, <2>2, <2>3
<1>6. ASSUME NEW i \in Invites, InviteExpires(i)
      PROVE  InviteInv'
  <2>1. /\ UNCHANGED <<grants, onboarded, usedBy>> /\ invite[i].status = "open"
        /\ invite' = [invite EXCEPT ![i].status = "expired"]
    BY <1>6 DEF InviteExpires
  <2>2. /\ DOMAIN invite' = Invites
        /\ \A k \in Invites : DOMAIN invite'[k] = {"status", "org", "email", "by"}
        /\ \A k \in Invites : k # i => invite'[k] = invite[k]
    BY <2>1 DEF InviteInv
  <2>3. usedBy[i] = {}
    BY <2>1 DEF InviteInv, Welcomed
  <2>4. \A k \in Invites : Welcomed(k)'
    BY <2>1, <2>2, <2>3 DEF InviteInv, Welcomed
  <2> QED BY <2>1, <2>2, <2>4 DEF InviteInv
<1>7. ASSUME NEW u \in People, Inviting(u)
      PROVE  InviteInv'
  <2>1. ASSUME NEW i \in Invites, AcceptInvite(u, i)
        PROVE  InviteInv'
    BY <1>1, <2>1 DEF AcceptInvite, Begin
  <2> QED BY <1>4, <1>5, <1>7, <2>1 DEF Inviting
<1>8. ASSUME NEW u, Profile(u) \/ KybReview(u) \/ UpdateOrgProfileWrite(u)
      PROVE  InviteInv'
  BY <1>1, <1>8 DEF Profile, KybReview, SubmitKyb, UpdateOrgProfile, SubmitKybWrite, DecideKyb,
     AdminUpdateOrgProfile, DecideKybWrite, UpdateOrgProfileWrite, Begin
<1>9. CASE UNCHANGED orgVars
  BY <1>1, <1>9 DEF orgVars
<1> QED
  BY <1>3, <1>6, <1>7, <1>8, <1>9 DEF OrgNext

\* The invariant holds whatever people do.
LEMMA InvitesInvariant == OrgSpec => []InviteInv
<1>1. OrgInit => InviteInv
  BY DEF OrgInit, InviteInv, Welcomed
<1>2. InviteInv /\ [OrgNext]_orgVars => InviteInv'
  BY InvitesKeep
<1> QED BY <1>1, <1>2, PTL DEF OrgSpec

\* However many people open one invitation at once, it makes one member at most
\* (the conditional update of acceptOrgInvite), and one who may organize.
THEOREM InvitesAdmitOne == OrgSpec => []OneMemberPerInvite
<1>1. InviteInv => OneMemberPerInvite
  <2> SUFFICES ASSUME InviteInv, NEW i \in Invites
               PROVE  Cardinality(usedBy[i]) <= 1
    BY DEF OneMemberPerInvite, InviteInv, Welcomed
  <2>1. PICK u : usedBy[i] \subseteq {u}
    BY DEF InviteInv, Welcomed
  <2>2. IsFiniteSet({u}) /\ Cardinality({u}) = 1
    BY FS_Singleton
  <2> QED BY <2>1, <2>2, FS_Subset
<1> QED BY <1>1, InvitesInvariant, PTL

-----------------------------------------------------------------------------
(* Organizations: an invitation keeps to the one it was e-mailed to            *)

\* An accepted request found its invitation open to that person.
Entitled(u, i) ==
    \/ invite[i].email = u
    \/ invite[i].email \in members[invite[i].org]

Backed(u, r) ==
    \E i \in Invites : r.invite = i /\ invite[i].status # "none" /\ Entitled(u, i)

PersonalInv ==
    /\ DOMAIN owner = Addresses /\ DOMAIN members = Addresses
    /\ DOMAIN pending = People \cup Staff
    /\ \A i \in Invites : invite[i].status # "none" => invite[i].org \in Existing
    /\ \A i \in Invites : \A u \in usedBy[i] : Entitled(u, i)
    /\ \A u \in People \cup Staff : pending[u].op = "accept" => Backed(u, pending[u])

\* Requests that touch neither invitations nor memberships.
LEMMA OthersKeepPersonal ==
    ASSUME PersonalInv, UNCHANGED <<owner, members, invite, usedBy>>,
           DOMAIN pending' = DOMAIN pending,
           \A u \in People \cup Staff : pending'[u].op = "accept" => pending'[u] = pending[u]
    PROVE  PersonalInv'
<1>1. Existing' = Existing /\ \A u, i : Entitled(u, i)' <=> Entitled(u, i)
  BY DEF Existing, Free, Entitled
<1>2. \A u \in People \cup Staff : pending[u].op = "accept" =>
         \E i \in Invites : pending[u].invite = i /\ invite'[i].status # "none" /\ Entitled(u, i)'
  BY <1>1 DEF PersonalInv, Backed
<1>3. \A u \in People \cup Staff : pending'[u].op = "accept" =>
         \E i \in Invites : pending'[u].invite = i /\ invite'[i].status # "none" /\ Entitled(u, i)'
  BY <1>2
<1> QED BY <1>1, <1>3 DEF PersonalInv, Backed

\* A request that begins.
LEMMA BeginsOne ==
    ASSUME PersonalInv, NEW u \in People \cup Staff, NEW r,
           Begin(u, r), r.op # "accept"
    PROVE  PersonalInv'
<1>1. \A v \in People \cup Staff : pending'[v].op = "accept" => pending'[v] = pending[v]
  BY DEF PersonalInv, Begin
<1> QED BY <1>1, OthersKeepPersonal DEF PersonalInv, Begin

\* The end of a request begins no other.
LEMMA EndsOne ==
    ASSUME PersonalInv, NEW u \in People \cup Staff, End(u)
    PROVE  /\ DOMAIN pending' = DOMAIN pending
           /\ \A v \in People \cup Staff : pending'[v].op = "accept" => pending'[v] = pending[v]
BY DEF PersonalInv, End, NoPending

\* A new organization stands at an address that no invitation names.
LEMMA NewOrganization ==
    ASSUME InviteInv, PersonalInv, NEW u \in People, NEW a \in Free,
           owner' = [owner EXCEPT ![a] = u], members' = [members EXCEPT ![a] = {u}],
           UNCHANGED <<invite, usedBy>>, End(u)
    PROVE  PersonalInv'
<1>1. u # Unclaimed
  BY OrganizationsAssumption
<1>2. /\ DOMAIN owner' = Addresses /\ DOMAIN members' = Addresses
      /\ \A b \in Existing : b \in Existing' /\ members'[b] = members[b]
  BY <1>1 DEF PersonalInv, Existing, Free
<1>3. \A v : \A i \in Invites : invite[i].status # "none" /\ Entitled(v, i) => Entitled(v, i)'
  BY <1>2 DEF PersonalInv, Entitled
<1>4. \A i \in Invites : usedBy[i] # {} => invite[i].status # "none"
  BY DEF InviteInv, Welcomed
<1>5. DOMAIN pending' = DOMAIN pending
      /\ \A v \in People \cup Staff : pending'[v].op = "accept" => pending'[v] = pending[v]
  BY EndsOne
<1>6. \A v \in People \cup Staff : pending[v].op = "accept" =>
         \E i \in Invites : pending[v].invite = i /\ invite'[i].status # "none" /\ Entitled(v, i)'
  BY <1>3 DEF PersonalInv, Backed
<1>7. \A v \in People \cup Staff : pending'[v].op = "accept" =>
         \E i \in Invites : pending'[v].invite = i /\ invite'[i].status # "none" /\ Entitled(v, i)'
  BY <1>5, <1>6
<1> QED BY <1>2, <1>3, <1>4, <1>5, <1>7 DEF PersonalInv, Backed

\* Where memberships only grow and invitations only move on, an entitlement stands.
LEMMA AcceptedKeeps ==
    ASSUME InviteInv, PersonalInv, NEW u \in People, AcceptInviteWrite(u)
    PROVE  PersonalInv'
<1> DEFINE i == pending[u].invite
           a == invite[i].org
<1>1. i \in Invites /\ invite[i].status # "none" /\ Entitled(u, i) /\ a \in Addresses
  BY DEF AcceptInviteWrite, Is, PersonalInv, Backed, Existing
<1>2. owner' = owner /\ End(u)
  BY DEF AcceptInviteWrite
<1>3. DOMAIN pending' = DOMAIN pending
      /\ \A v \in People \cup Staff : pending'[v].op = "accept" => pending'[v] = pending[v]
  BY <1>2, EndsOne
<1>4. CASE ~ClaimInvite(i)
  BY <1>2, <1>3, <1>4, OthersKeepPersonal DEF AcceptInviteWrite
<1>5. CASE ClaimInvite(i)
  <2>1. /\ invite' = [invite EXCEPT ![i].status = "accepted"]
        /\ members' = [members EXCEPT ![a] = @ \cup {u}]
        /\ usedBy' = [usedBy EXCEPT ![i] = @ \cup ({u} \ members[a])]
    BY <1>5 DEF AcceptInviteWrite
  <2> HIDE DEF i, a
  <2>2. /\ DOMAIN members' = Addresses
        /\ \A b \in Addresses : members[b] \subseteq members'[b]
        /\ \A k \in Invites : invite'[k].email = invite[k].email /\ invite'[k].org = invite[k].org
        /\ \A k \in Invites : invite'[k].status = "none" <=> invite[k].status = "none"
    BY <1>1, <2>1 DEF PersonalInv, InviteInv
  <2>3. \A k \in Invites : usedBy'[k] \subseteq usedBy[k] \cup (IF k = i THEN {u} ELSE {})
    BY <2>1 DEF InviteInv
  <2>4. Existing' = Existing
    BY <1>2 DEF Existing, Free
  <2>5. \A v : \A k \in Invites : invite[k].status # "none" /\ Entitled(v, k) => Entitled(v, k)'
    BY <2>2 DEF PersonalInv, Entitled, Existing
  <2>6. \A k \in Invites : usedBy[k] # {} => invite[k].status # "none"
    BY DEF InviteInv, Welcomed
  <2>7. \A k \in Invites : \A v \in usedBy'[k] : Entitled(v, k)'
    BY <1>1, <2>3, <2>5, <2>6 DEF PersonalInv
  <2>8. \A v \in People \cup Staff : pending[v].op = "accept" =>
           \E k \in Invites : pending[v].invite = k /\ invite'[k].status # "none" /\ Entitled(v, k)'
    BY <2>2, <2>5 DEF PersonalInv, Backed
  <2>9. \A v \in People \cup Staff : pending'[v].op = "accept" =>
           \E k \in Invites : pending'[v].invite = k /\ invite'[k].status # "none" /\ Entitled(v, k)'
    BY <1>3, <2>8
  <2> QED BY <1>2, <1>3, <2>2, <2>4, <2>7, <2>9 DEF PersonalInv, Backed
<1> QED BY <1>4, <1>5

\* Every step preserves the invariant.
LEMMA PersonalKeeps ==
    ASSUME InviteInv, PersonalInv, [OrgNext]_orgVars
    PROVE  PersonalInv'
<1>1. CASE UNCHANGED <<owner, members, invite, usedBy, pending>>
  BY <1>1, OthersKeepPersonal
<1>2. ASSUME NEW u \in People, Onboarding(u)
      PROVE  PersonalInv'
  <2>1. CASE (\E role \in {"DEVELOPER", "ORGANIZER"} : ChooseRole(u, role)) \/ CompleteDeveloperOnboarding(u)
    BY <1>1, <2>1 DEF ChooseRole, CompleteDeveloperOnboarding
  <2>2. CASE CreateOrganization(u)
    BY <2>2, BeginsOne DEF CreateOrganization
  <2>3. CASE CreateOrganizationWrite(u)
    <3> DEFINE left == Attempted(pending[u].free) \cap Free
    <3>1. End(u) /\ UNCHANGED <<invite, usedBy>>
      BY <2>3 DEF CreateOrganizationWrite
    <3>2. CASE left = {}
      <4>1. UNCHANGED <<owner, members>>
        BY <2>3, <3>2 DEF CreateOrganizationWrite
      <4> QED BY <3>1, <4>1, EndsOne, OthersKeepPersonal
    <3>3. CASE left # {}
      <4>1. PICK a \in left : owner' = [owner EXCEPT ![a] = u] /\ members' = [members EXCEPT ![a] = {u}]
        BY <2>3, <3>3 DEF CreateOrganizationWrite
      <4> QED BY <3>1, <4>1, NewOrganization
    <3> QED BY <3>2, <3>3
  <2> QED BY <1>2, <2>1, <2>2, <2>3 DEF Onboarding
<1>3. ASSUME NEW u \in People, NEW i \in Invites, AcceptInvite(u, i)
      PROVE  PersonalInv'
  <2>1. /\ UNCHANGED <<owner, members, invite, usedBy>>
        /\ pending' = [pending EXCEPT ![u] = [op |-> "accept", invite |-> i]]
        /\ invite[i].status # "none" /\ Entitled(u, i)
    BY <1>3 DEF AcceptInvite, Begin, Targeted, Entitled
  <2>2. Existing' = Existing /\ \A v, k : Entitled(v, k)' <=> Entitled(v, k)
    BY <2>1 DEF Existing, Free, Entitled
  <2>3. \A v \in People \cup Staff : pending'[v].op = "accept" => Backed(v, pending'[v])
    BY <2>1 DEF PersonalInv, Backed
  <2>4. \A v, r : Backed(v, r) => \E k \in Invites : r.invite = k /\ invite'[k].status # "none" /\ Entitled(v, k)'
    BY <2>1, <2>2 DEF Backed
  <2>5. \A v \in People \cup Staff : pending'[v].op = "accept" =>
           \E k \in Invites : pending'[v].invite = k /\ invite'[k].status # "none" /\ Entitled(v, k)'
    BY <2>3, <2>4
  <2>6. DOMAIN pending' = People \cup Staff
    BY <2>1 DEF PersonalInv
  <2> QED BY <2>1, <2>2, <2>5, <2>6 DEF PersonalInv, Backed
<1>4. ASSUME NEW u \in People, NEW i \in Invites, NEW a, NEW e, CreateOrgInvite(u, a, i, e)
      PROVE  PersonalInv'
  <2>1. /\ UNCHANGED <<owner, members, usedBy, pending>> /\ invite[i].status = "none" /\ a \in Existing
        /\ invite' = [invite EXCEPT ![i] = [status |-> "open", org |-> a, email |-> e, by |-> u]]
    BY <1>4 DEF CreateOrgInvite, Memberships
  <2>2. usedBy[i] = {}
    BY <2>1 DEF InviteInv, Welcomed
  <2>3. /\ \A k \in Invites : k # i => invite'[k] = invite[k]
        /\ invite'[i].org = a /\ invite'[i].status = "open"
    BY <2>1 DEF InviteInv
  <2>4. Existing' = Existing /\ \A v : \A k \in Invites : k # i /\ Entitled(v, k) => Entitled(v, k)'
    BY <2>1, <2>3 DEF Existing, Free, Entitled
  <2>5. \A v \in People \cup Staff : pending[v].op = "accept" =>
           \E k \in Invites : pending[v].invite = k /\ invite'[k].status # "none" /\ Entitled(v, k)'
    BY <2>1, <2>3, <2>4 DEF PersonalInv, Backed
  <2>6. \A k \in Invites : \A v \in usedBy[k] : Entitled(v, k)'
    BY <2>2, <2>4 DEF PersonalInv
  <2>7. \A k \in Invites : invite'[k].status # "none" => invite'[k].org \in Existing
    BY <2>1, <2>3 DEF PersonalInv
  <2> QED BY <2>1, <2>4, <2>5, <2>6, <2>7 DEF PersonalInv, Backed
<1>5. ASSUME NEW i \in Invites, InviteExpires(i)
      PROVE  PersonalInv'
  <2>1. /\ UNCHANGED <<owner, members, usedBy, pending>> /\ invite[i].status = "open"
        /\ invite' = [invite EXCEPT ![i].status = "expired"]
    BY <1>5 DEF InviteExpires
  <2>2. \A k \in Invites : /\ invite'[k].org = invite[k].org /\ invite'[k].email = invite[k].email
                           /\ invite'[k].status = "none" <=> invite[k].status = "none"
    BY <2>1 DEF InviteInv
  <2>3. Existing' = Existing /\ \A v : \A k \in Invites : Entitled(v, k)' <=> Entitled(v, k)
    BY <2>1, <2>2 DEF Existing, Free, Entitled
  <2>4. \A v \in People \cup Staff : pending[v].op = "accept" =>
           \E k \in Invites : pending[v].invite = k /\ invite'[k].status # "none" /\ Entitled(v, k)'
    BY <2>2, <2>3 DEF PersonalInv, Backed
  <2> QED BY <2>1, <2>2, <2>3, <2>4 DEF PersonalInv, Backed
<1>6. ASSUME NEW u \in People, Inviting(u)
      PROVE  PersonalInv'
  BY <1>3, <1>4, <1>6, AcceptedKeeps DEF Inviting
<1>7. ASSUME NEW u \in People \cup Staff, Profile(u) \/ KybReview(u) \/ UpdateOrgProfileWrite(u)
      PROVE  PersonalInv'
  <2>1. CASE \E r : Begin(u, r) /\ r.op # "accept"
    BY <2>1, BeginsOne
  <2>2. CASE End(u) /\ UNCHANGED <<owner, members, invite, usedBy>>
    BY <2>2, EndsOne, OthersKeepPersonal
  <2>3. ASSUME NEW a, SubmitKyb(u, a) PROVE PersonalInv'
    BY <2>1, <2>3 DEF SubmitKyb
  <2>4. ASSUME NEW a, NEW n, UpdateOrgProfile(u, a, n) \/ AdminUpdateOrgProfile(u, a, n) PROVE PersonalInv'
    BY <2>1, <2>4 DEF UpdateOrgProfile, AdminUpdateOrgProfile
  <2>5. ASSUME NEW a, NEW status, DecideKyb(u, a, status) PROVE PersonalInv'
    BY <2>1, <2>5 DEF DecideKyb
  <2>6. CASE SubmitKybWrite(u) \/ DecideKybWrite(u) \/ UpdateOrgProfileWrite(u)
    BY <2>2, <2>6 DEF SubmitKybWrite, DecideKybWrite, UpdateOrgProfileWrite
  <2> QED BY <1>7, <2>3, <2>4, <2>5, <2>6 DEF Profile, KybReview
<1>8. CASE UNCHANGED orgVars
  BY <1>1, <1>8 DEF orgVars
<1> QED BY <1>2, <1>5, <1>6, <1>7, <1>8 DEF OrgNext

\* An invitation makes a member only of the one it was e-mailed to, unless its address
\* is a member's by then (acceptOrgInvitation), however requests overlap.
THEOREM InvitesArePersonal == OrgSpec => []InviteIsPersonal
<1>1. OrgInit => PersonalInv
  BY DEF OrgInit, PersonalInv, NoPending
<1>2. PersonalInv => InviteIsPersonal
  BY DEF PersonalInv, InviteIsPersonal, Entitled
<1>3. InviteInv /\ PersonalInv /\ [OrgNext]_orgVars => PersonalInv'
  BY PersonalKeeps
<1> QED BY <1>1, <1>2, <1>3, InvitesInvariant, PTL DEF OrgSpec

-----------------------------------------------------------------------------
(* Organizations: a verified name stands when requests are served one at a time *)

\* One request is under way at most, and a rename of an owner found the name unlocked.
NameInv ==
    /\ DOMAIN orgName = Addresses /\ DOMAIN kyc = Addresses /\ DOMAIN reviewed = Addresses
    /\ DOMAIN pending = People \cup Staff
    /\ pace = 1 =>
         /\ \A u, v \in People \cup Staff :
              pending[u] # NoPending /\ pending[v] # NoPending => u = v
         /\ \A a \in Addresses : kyc[a] = "VERIFIED" => orgName[a] = reviewed[a]
         /\ \A u \in People : pending[u].op = "rename" => kyc[pending[u].org] # "VERIFIED"

\* Names, statuses and requests as they are.
LEMMA NamesStay ==
    ASSUME NameInv, UNCHANGED <<orgName, kyc, reviewed, pending, pace>>
    PROVE  NameInv'
BY DEF NameInv

\* A request begins while no other is under way.
LEMMA NamesBegin ==
    ASSUME NameInv, NEW u \in People \cup Staff, NEW r, Begin(u, r),
           u \in People /\ r.op = "rename" => kyc[r.org] # "VERIFIED"
    PROVE  NameInv'
<1>1. /\ UNCHANGED <<orgName, kyc, reviewed, pace>> /\ DOMAIN pending' = People \cup Staff
      /\ pending'[u] = r /\ \A v \in People \cup Staff : v # u => pending'[v] = pending[v]
  BY DEF NameInv, Begin
<1>2. ASSUME pace = 1 PROVE \A v \in People \cup Staff : pending[v] = NoPending
  <2> SUFFICES ASSUME NEW v \in People \cup Staff, pending[v] # NoPending PROVE FALSE
    OBVIOUS
  <2>1. UnderWay = {v}
    BY <1>2 DEF UnderWay, NameInv
  <2>2. Cardinality(UnderWay) = 1
    BY <2>1, FS_Singleton
  <2> QED BY <1>2, <2>2 DEF Begin
<1>3. NoPending.op # "rename"
  BY DEF NoPending
<1> QED BY <1>1, <1>2, <1>3 DEF NameInv

\* A request ends, and with it whatever was under way.
LEMMA NamesEnd ==
    ASSUME NameInv, NEW u \in People \cup Staff, pending[u] # NoPending, End(u),
           DOMAIN orgName' = Addresses, DOMAIN kyc' = Addresses, DOMAIN reviewed' = Addresses,
           pace = 1 => \A a \in Addresses : kyc'[a] = "VERIFIED" => orgName'[a] = reviewed'[a]
    PROVE  NameInv'
<1>1. /\ DOMAIN pending' = People \cup Staff /\ pace' = pace
      /\ pending'[u] = NoPending /\ \A v \in People \cup Staff : v # u => pending'[v] = pending[v]
  BY DEF NameInv, End
<1>2. ASSUME pace = 1 PROVE \A v \in People \cup Staff : pending'[v] = NoPending
  BY <1>1, <1>2 DEF NameInv
<1>3. NoPending.op # "rename"
  BY DEF NoPending
<1> QED BY <1>1, <1>2, <1>3 DEF NameInv

\* Every step preserves the invariant.
LEMMA NamesKeep ==
    ASSUME NameInv, [OrgNext]_orgVars
    PROVE  NameInv'
<1> USE DEF NoPending
<1>1. ASSUME NEW u \in People, Onboarding(u)
      PROVE  NameInv'
  <2>1. CASE (\E role \in {"DEVELOPER", "ORGANIZER"} : ChooseRole(u, role)) \/ CompleteDeveloperOnboarding(u)
    BY <2>1, NamesStay DEF ChooseRole, CompleteDeveloperOnboarding
  <2>2. CASE CreateOrganization(u)
    BY <2>2, NamesBegin DEF CreateOrganization
  <2>3. CASE CreateOrganizationWrite(u)
    <3>1. End(u) /\ UNCHANGED <<orgName, kyc, reviewed>> /\ pending[u].op = "create"
      BY <2>3 DEF CreateOrganizationWrite, Is
    <3> QED BY <3>1, NamesEnd DEF NameInv
  <2> QED BY <1>1, <2>1, <2>2, <2>3 DEF Onboarding
<1>2. ASSUME NEW u \in People, Inviting(u)
      PROVE  NameInv'
  <2>1. ASSUME NEW i, AcceptInvite(u, i) PROVE NameInv'
    BY <2>1, NamesBegin DEF AcceptInvite
  <2>2. ASSUME NEW i, NEW a, NEW e, CreateOrgInvite(u, a, i, e) PROVE NameInv'
    BY <2>2, NamesStay DEF CreateOrgInvite
  <2>3. CASE AcceptInviteWrite(u)
    <3>1. End(u) /\ UNCHANGED <<orgName, kyc, reviewed>> /\ pending[u].op = "accept"
      BY <2>3 DEF AcceptInviteWrite, Is
    <3> QED BY <3>1, NamesEnd DEF NameInv
  <2> QED BY <1>2, <2>1, <2>2, <2>3 DEF Inviting
<1>3. ASSUME NEW u \in People, Profile(u)
      PROVE  NameInv'
  <2>1. ASSUME NEW a, SubmitKyb(u, a) PROVE NameInv'
    BY <2>1, NamesBegin DEF SubmitKyb
  <2>2. ASSUME NEW a, NEW n, UpdateOrgProfile(u, a, n) PROVE NameInv'
    <3>1. Begin(u, [op |-> "rename", org |-> a, name |-> n]) /\ kyc[a] # "VERIFIED"
      BY <2>2 DEF UpdateOrgProfile, NameUnlocked
    <3> QED BY <3>1, NamesBegin
  <2>3. CASE SubmitKybWrite(u)
    <3>1. /\ End(u) /\ UNCHANGED <<orgName, reviewed>> /\ pending[u].op = "submit"
          /\ kyc' = [kyc EXCEPT ![pending[u].org] = "PENDING"]
      BY <2>3 DEF SubmitKybWrite, Is
    <3>2. DOMAIN kyc' = Addresses /\ \A a \in Addresses : kyc'[a] = "VERIFIED" => kyc[a] = "VERIFIED"
      BY <3>1 DEF NameInv
    <3>3. pace = 1 => \A a \in Addresses : kyc'[a] = "VERIFIED" => orgName'[a] = reviewed'[a]
      BY <3>1, <3>2 DEF NameInv
    <3> QED BY <3>1, <3>2, <3>3, NamesEnd DEF NameInv
  <2> QED BY <1>3, <2>1, <2>2, <2>3 DEF Profile
<1>4. ASSUME NEW s \in Staff, KybReview(s)
      PROVE  NameInv'
  <2>1. ASSUME NEW a, NEW status, DecideKyb(s, a, status) PROVE NameInv'
    BY <2>1, NamesBegin DEF DecideKyb
  <2>2. ASSUME NEW a, NEW n, AdminUpdateOrgProfile(s, a, n) PROVE NameInv'
    BY <2>2, NamesBegin, OrganizationsAssumption DEF AdminUpdateOrgProfile
  <2>3. CASE DecideKybWrite(s)
    <3>1. PICK a : a = pending[s].org
      OBVIOUS
    <3>2. /\ End(s) /\ UNCHANGED orgName /\ pending[s].op = "decide"
          /\ kyc' = [kyc EXCEPT ![a] = pending[s].status]
          /\ reviewed' = [reviewed EXCEPT ![a] = orgName[a]]
      BY <2>3, <3>1 DEF DecideKybWrite, Is
    <3>3. /\ DOMAIN kyc' = Addresses /\ DOMAIN reviewed' = Addresses
          /\ \A b \in Addresses : b # a => kyc'[b] = kyc[b] /\ reviewed'[b] = reviewed[b]
          /\ a \in Addresses => reviewed'[a] = orgName[a]
      BY <3>2 DEF NameInv
    <3>4. pace = 1 => \A b \in Addresses : kyc'[b] = "VERIFIED" => orgName'[b] = reviewed'[b]
      BY <3>2, <3>3 DEF NameInv
    <3> QED BY <3>2, <3>3, <3>4, NamesEnd DEF NameInv
  <2> QED BY <1>4, <2>1, <2>2, <2>3 DEF KybReview
<1>5. ASSUME NEW u \in People \cup Staff, UpdateOrgProfileWrite(u)
      PROVE  NameInv'
  <2>1. PICK a, n : a = pending[u].org /\ n = pending[u].name
    OBVIOUS
  <2>2. /\ End(u) /\ UNCHANGED kyc /\ pending[u].op = "rename"
        /\ orgName' = [orgName EXCEPT ![a] = n]
        /\ reviewed' = IF u \in Staff THEN [reviewed EXCEPT ![a] = n] ELSE reviewed
    BY <1>5, <2>1 DEF UpdateOrgProfileWrite, Is
  <2>3. DOMAIN orgName' = Addresses /\ DOMAIN reviewed' = Addresses
    BY <2>2 DEF NameInv
  <2>4. pace = 1 => \A b \in Addresses : kyc[b] = "VERIFIED" => orgName'[b] = reviewed'[b]
    <3>1. CASE u \in Staff
      BY <2>2, <3>1 DEF NameInv
    <3>2. CASE u \notin Staff
      <4>1. pace = 1 => kyc[a] # "VERIFIED"
        BY <2>1, <2>2, <3>2 DEF NameInv
      <4> QED BY <2>2, <3>2, <4>1 DEF NameInv
    <3> QED BY <3>1, <3>2
  <2> QED BY <2>2, <2>3, <2>4, NamesEnd DEF NameInv
<1>6. ASSUME NEW i \in Invites, InviteExpires(i)
      PROVE  NameInv'
  BY <1>6, NamesStay DEF InviteExpires
<1>7. CASE UNCHANGED orgVars
  BY <1>7, NamesStay DEF orgVars
<1> QED BY <1>1, <1>2, <1>3, <1>4, <1>5, <1>6, <1>7 DEF OrgNext

\* When requests are served one at a time, a verified organization bears the name that
\* an administrator checked or gave it (decideKyb, updateOrgProfile).
THEOREM VerifiedNamesStand == OrgSpec => []VerifiedNameStands
<1>1. OrgInit => NameInv
  <2> SUFFICES ASSUME OrgInit PROVE NameInv
    OBVIOUS
  <2>1. DOMAIN orgName = Addresses
    BY DEF OrgInit
  <2> QED BY <2>1 DEF OrgInit, NameInv, NoPending
<1>2. NameInv => VerifiedNameStands
  BY DEF NameInv, VerifiedNameStands, Existing
<1>3. NameInv /\ [OrgNext]_orgVars => NameInv'
  BY NamesKeep
<1> QED BY <1>1, <1>2, <1>3, PTL DEF OrgSpec

-----------------------------------------------------------------------------
(* Accounts: sessions that were ended stay ended, for any number of devices,   *)
(* links, sign-ins and changes of the password                                 *)

\* A revocation leaves every session it ended on an older version than the
\* account's, and no session is ever on a newer one.
SessionInv ==
    /\ AccountsTypeOK
    /\ \A d \in Devices : session[d].sv <= version
    /\ \A d \in revoked : session[d].sv < version

\* The initial states satisfy the invariant.
LEMMA AccountsStart == AccountsInit => SessionInv
BY DEF AccountsInit, SessionInv, AccountsTypeOK, NoSession, NoVisit, Sessions, Visits

\* A device that starts a request, and nothing else.
LEMMA BeginKeeps ==
    ASSUME SessionInv, NEW d \in Devices, NEW r \in Visits, Begins(d, r)
    PROVE  SessionInv'
BY DEF Begins, SessionInv, AccountsTypeOK

\* Every step preserves the invariant.
LEMMA AccountsKeep ==
    ASSUME SessionInv, [AccountsNext]_accountVars
    PROVE  SessionInv'
<1> USE DEF SessionInv, AccountsTypeOK
<1>1. NoSession \in Sessions /\ NoVisit \in Visits
  BY DEF NoSession, NoVisit, Sessions, Visits
<1>2. CASE UNCHANGED accountVars
  BY <1>2 DEF accountVars
<1>3. ASSUME Issue PROVE live' \subseteq mailed' /\ mailed' \subseteq Links
  <2>1. PICK t \in Links : live' = {t} /\ mailed' = mailed \cup {t}
    BY <1>3 DEF Issue
  <2> QED BY <2>1
<1>4. ASSUME NEW d \in Devices, Entering(d)
      PROVE  SessionInv'
  <2>1. CASE SignUp(d)
    BY <1>3, <2>1 DEF SignUp
  <2>2. CASE OAuthSignIn(d)
    <3>1. [sv |-> version, by |-> 0, auth |-> ticks, active |-> ticks] \in Sessions
      BY DEF Sessions
    <3> QED BY <2>2, <3>1 DEF OAuthSignIn
  <2>3. CASE SignIn(d)
    <3>1. [op |-> "signIn", by |-> password] \in Visits
      BY DEF Visits
    <3> QED BY <2>3, <3>1, BeginKeeps DEF SignIn
  <2>4. CASE SignInWrite(d)
    <3>1. visit[d].by \in Nat
      BY <2>4 DEF SignInWrite, Doing, Visits
    <3>2. [sv |-> version, by |-> visit[d].by, auth |-> ticks, active |-> ticks] \in Sessions
      BY <3>1 DEF Sessions
    <3>3. CASE IsLive
      BY <1>1, <2>4, <3>2, <3>3 DEF SignInWrite, Ends
    <3>4. CASE ~IsLive
      BY <1>1, <2>4, <3>4 DEF SignInWrite, Ends
    <3> QED BY <3>3, <3>4
  <2>5. CASE SignOut(d)
    BY <1>1, <2>5 DEF SignOut, NoSession
  <2>6. CASE Refresh(d)
    <3>1. [session[d] EXCEPT !.active = ticks] \in Sessions
          /\ [session[d] EXCEPT !.active = ticks].sv = session[d].sv
      BY DEF Sessions
    <3>2. CASE SignedIn(d)
      BY <2>6, <3>1, <3>2 DEF Refresh
    <3>3. CASE ~SignedIn(d)
      BY <1>1, <2>6, <3>3 DEF Refresh, NoSession
    <3> QED BY <3>2, <3>3
  <2> QED BY <1>4, <2>1, <2>2, <2>3, <2>4, <2>5, <2>6 DEF Entering
<1>5. ASSUME NEW d \in Devices, Mailing(d)
      PROVE  SessionInv'
  <2>1. CASE ResendVerification(d) \/ RequestPasswordReset(d)
    BY <1>3, <2>1 DEF ResendVerification, RequestPasswordReset
  <2>2. ASSUME NEW t \in Links, VerifyEmail(d, t) \/ ResetPassword(d, t)
        PROVE  SessionInv'
    <3>1. [op |-> "verify", link |-> t] \in Visits /\ [op |-> "reset", link |-> t] \in Visits
      BY DEF Visits
    <3> QED BY <2>2, <3>1, BeginKeeps DEF VerifyEmail, ResetPassword
  <2>3. CASE VerifyEmailWrite(d)
    BY <1>1, <2>3 DEF VerifyEmailWrite, Ends
  <2>4. CASE ResetPasswordWrite(d)
    BY <1>1, <2>4 DEF ResetPasswordWrite, Ends, Revoke, Holders, Sessions
  <2> QED BY <1>5, <2>1, <2>2, <2>3, <2>4 DEF Mailing
<1>6. ASSUME NEW d \in Devices, Settings(d)
      PROVE  SessionInv'
  <2>1. CASE ChangePassword(d)
    <3>1. [op |-> "change"] \in Visits
      BY DEF Visits
    <3> QED BY <2>1, <3>1, BeginKeeps DEF ChangePassword
  <2>2. CASE ChangePasswordWrite(d)
    BY <1>1, <2>2 DEF ChangePasswordWrite, Ends, Holders, Sessions, NoSession
  <2>3. CASE SignOutEverywhere(d) \/ DeactivateAccount(d)
    <3>1. /\ version' = version + 1 /\ visit' = visit /\ ticks' = ticks
          /\ revoked' = (revoked \cup Holders) \ {d}
          /\ session' = [session EXCEPT ![d] = NoSession]
      BY <2>3 DEF SignOutEverywhere, DeactivateAccount
    <3>2. AccountsTypeOK'
      <4>1. session' \in [Devices -> Sessions] /\ revoked' \subseteq Devices
        BY <1>1, <3>1 DEF Holders
      <4>2. /\ account' \in {"none", "unverified", "verified", "deleted"} /\ admin' \in BOOLEAN
            /\ UNCHANGED <<password, live, mailed>>
        BY <2>3 DEF SignOutEverywhere, DeactivateAccount
      <4> QED BY <3>1, <4>1, <4>2
    <3>3. \A e \in Devices : session'[e].sv <= version
      BY <3>1 DEF Sessions, NoSession
    <3> QED BY <3>1, <3>2, <3>3 DEF Sessions
  <2> QED BY <1>6, <2>1, <2>2, <2>3 DEF Settings
<1>7. ASSUME NEW t \in Links, LinkExpires(t)
      PROVE  SessionInv'
  BY <1>7 DEF LinkExpires
<1>8. CASE Tick
  BY <1>8 DEF Tick
<1> QED
  BY <1>2, <1>4, <1>5, <1>6, <1>7, <1>8 DEF AccountsNext

\* The invariant holds whatever the devices do.
LEMMA SessionsInvariant == AccountsSpec => []SessionInv
<1>1. SessionInv /\ [AccountsNext]_accountVars => SessionInv'
  BY AccountsKeep
<1> QED
  BY <1>1, AccountsStart, PTL DEF AccountsSpec

\* A session ended by a reset or a change of the password, a sign-out everywhere
\* or a deactivation is accepted by no later request (isSessionCurrent), although
\* signing in and issuing the token are two steps.
THEOREM RevokedSessionsStayOut == AccountsSpec => []RevokedStaysOut
<1>1. SessionInv => RevokedStaysOut
  <2> SUFFICES ASSUME SessionInv, NEW d \in revoked
               PROVE  session[d].sv # version
    BY DEF RevokedStaysOut, SignedIn, IsSessionCurrent
  <2>1. d \in Devices /\ session[d].sv < version
    BY DEF SessionInv, AccountsTypeOK
  <2>2. session[d].sv \in Int /\ version \in Int
    BY <2>1 DEF SessionInv, AccountsTypeOK, Sessions
  <2> QED BY <2>1, <2>2
<1> QED BY <1>1, SessionsInvariant, PTL

\* Every variable of an account has its type.
THEOREM AccountsTypes == AccountsSpec => []AccountsTypeOK
<1>1. SessionInv => AccountsTypeOK
  BY DEF SessionInv
<1> QED BY <1>1, SessionsInvariant, PTL

-----------------------------------------------------------------------------
(* Outreach: mail that is sent once and consent that stands, for any number of *)
(* builders and workers, any page and batch size, and any failures             *)

RunFields == {"at", "after", "page", "send", "count"}

\* Nobody is mailed before the row that tells of it, and a lone worker holds
\* nobody for mailing who has been mailed.
MailingInv ==
    /\ mails \in [Audience -> Nat]
    /\ DOMAIN runner = Runners /\ \A r \in Runners : DOMAIN runner[r] = RunFields
    /\ \A b \in Audience : mails[b] > 0 => b \in told
    /\ \A r \in Runners : runner[r].at = "send" => runner[r].send \subseteq told
    /\ Cardinality(Runners) = 1 =>
         /\ \A b \in Audience : mails[b] <= 1
         /\ \A r \in Runners : runner[r].at \in {"record", "send"} =>
              \A b \in runner[r].send \cap Audience : mails[b] = 0
         /\ \A r \in Runners : runner[r].at = "record" => runner[r].send \cap told = {}

\* A worker takes a step: only its own run changes.
LEMMA OneRunMoves ==
    ASSUME MailingInv, NEW r \in Runners, NEW f, DOMAIN f = RunFields,
           runner' = [runner EXCEPT ![r] = f]
    PROVE  /\ DOMAIN runner' = Runners /\ runner'[r] = f
           /\ \A q \in Runners : q # r => runner'[q] = runner[q]
           /\ \A q \in Runners : DOMAIN runner'[q] = RunFields
BY DEF MailingInv

\* With one worker there is one.
LEMMA LoneRunner ==
    ASSUME Cardinality(Runners) = 1, IsFiniteSet(Runners), NEW r \in Runners, NEW q \in Runners
    PROVE  r = q
BY FS_Singleton

\* A run that begins, ends, or takes or leaves a page mails nobody.
LEMMA RunMovesQuietly ==
    ASSUME MailingInv, NEW r \in Runners, NEW f, DOMAIN f = RunFields,
           f.at \notin {"record", "send"},
           runner' = [runner EXCEPT ![r] = f], UNCHANGED <<mails, told>>
    PROVE  MailingInv'
BY OneRunMoves DEF MailingInv

\* Every step of the announcement preserves the invariant.
LEMMA MailingKeeps ==
    ASSUME IsFiniteSet(Runners), MailingInv, Announcing
    PROVE  MailingInv'
<1>1. DOMAIN NoRun = RunFields /\ NoRun.at = "idle"
  BY DEF NoRun, RunFields
<1>2. ASSUME UNCHANGED <<told, mails, runner>> PROVE MailingInv'
  BY <1>2 DEF MailingInv
<1>3. ASSUME NEW r \in Runners, StartRun(r) \/ RunDies(r)
      PROVE  MailingInv'
  <2>1. DOMAIN [NoRun EXCEPT !.at = "page"] = RunFields /\ [NoRun EXCEPT !.at = "page"].at = "page"
    BY <1>1 DEF RunFields
  <2> QED BY <1>1, <1>3, <2>1, RunMovesQuietly DEF StartRun, RunDies
<1>4. ASSUME NEW r \in Runners, ReadPage(r)
      PROVE  MailingInv'
  <2> DEFINE page == PageAfter(runner[r].after)
             f == [runner[r] EXCEPT !.at = "filter", !.page = page, !.after = Max(page)]
  <2>1. DOMAIN f = RunFields /\ f.at = "filter"
    BY DEF MailingInv, RunFields
  <2>2. runner' = [runner EXCEPT ![r] = NoRun] \/ runner' = [runner EXCEPT ![r] = f]
    BY <1>4 DEF ReadPage, MailingInv
  <2>3. UNCHANGED <<told, mails>>
    BY <1>4 DEF ReadPage
  <2> HIDE DEF f
  <2> QED BY <1>1, <2>1, <2>2, <2>3, RunMovesQuietly
<1>5. ASSUME NEW r \in Runners, FilterPage(r)
      PROVE  MailingInv'
  <2> DEFINE f == [runner[r] EXCEPT !.at = "record",
                                    !.send = runner[r].page \ (Placeholders \cup optedOut \cup told)]
  <2>1. DOMAIN f = RunFields /\ f.at = "record" /\ f.send \cap told = {}
    BY DEF MailingInv, RunFields
  <2>2. runner' = [runner EXCEPT ![r] = f] /\ UNCHANGED <<told, mails>>
    BY <1>5 DEF FilterPage, MailingInv
  <2> HIDE DEF f
  <2>3. \A b \in f.send \cap Audience : mails[b] = 0
    BY <2>1 DEF MailingInv
  <2> QED BY <2>1, <2>2, <2>3, OneRunMoves DEF MailingInv
<1>6. ASSUME NEW r \in Runners, RecordPage(r)
      PROVE  MailingInv'
  <2> DEFINE f == [runner[r] EXCEPT !.at = "send"]
  <2>1. DOMAIN f = RunFields /\ f.at = "send" /\ f.send = runner[r].send
    BY DEF MailingInv, RunFields
  <2>2. /\ runner[r].at = "record" /\ runner' = [runner EXCEPT ![r] = f]
        /\ told' = told \cup runner[r].send /\ mails' = mails
    BY <1>6 DEF RecordPage, Notified, MailingInv
  <2> HIDE DEF f
  <2>3. /\ DOMAIN runner' = Runners /\ runner'[r] = f
        /\ \A q \in Runners : q # r => runner'[q] = runner[q]
        /\ \A q \in Runners : DOMAIN runner'[q] = RunFields
    BY <2>1, <2>2, OneRunMoves
  <2>4. \A q \in Runners : runner'[q].at = "send" => runner'[q].send \subseteq told'
    BY <2>1, <2>2, <2>3 DEF MailingInv
  <2>5. ASSUME Cardinality(Runners) = 1
        PROVE  /\ \A q \in Runners : q = r
               /\ \A b \in f.send \cap Audience : mails[b] = 0
    BY <2>1, <2>2, <2>5, LoneRunner DEF MailingInv
  <2> QED BY <2>1, <2>2, <2>3, <2>4, <2>5 DEF MailingInv
<1>7. ASSUME NEW r \in Runners, SendBatchOf(r)
      PROVE  MailingInv'
  <2> DEFINE batch == Least(runner[r].send, SendBatch)
  <2>1. PICK sent \in SUBSET batch :
          /\ mails' = [b \in Audience |-> mails[b] + IF b \in sent THEN 1 ELSE 0]
          /\ runner' = [runner EXCEPT ![r].send = @ \ batch, ![r].count = @ + Cardinality(sent)]
    BY <1>7 DEF SendBatchOf
  <2>2. runner[r].at = "send" /\ told' = told /\ batch \subseteq runner[r].send
    BY <1>7 DEF SendBatchOf, Least
  <2> DEFINE f == [runner[r] EXCEPT !.send = @ \ batch, !.count = @ + Cardinality(sent)]
  <2>3. DOMAIN f = RunFields /\ f.at = "send" /\ f.send = runner[r].send \ batch
    BY <2>2 DEF MailingInv, RunFields
  <2>4. runner' = [runner EXCEPT ![r] = f]
    BY <2>1 DEF MailingInv
  <2> HIDE DEF f, batch
  <2>5. /\ DOMAIN runner' = Runners /\ runner'[r] = f
        /\ \A q \in Runners : q # r => runner'[q] = runner[q]
        /\ \A q \in Runners : DOMAIN runner'[q] = RunFields
    BY <2>3, <2>4, OneRunMoves
  <2>6. /\ mails' \in [Audience -> Nat]
        /\ \A b \in Audience : b \notin sent => mails'[b] = mails[b]
        /\ \A b \in Audience : b \in sent => mails'[b] = mails[b] + 1
    BY <2>1 DEF MailingInv
  <2>7. \A b \in Audience : mails'[b] > 0 => b \in told'
    BY <2>2, <2>6 DEF MailingInv
  <2>8. \A q \in Runners : runner'[q].at = "send" => runner'[q].send \subseteq told'
    BY <2>2, <2>3, <2>5 DEF MailingInv
  <2>9. ASSUME Cardinality(Runners) = 1
        PROVE  /\ \A q \in Runners : q = r
               /\ \A b \in Audience : mails'[b] <= 1
               /\ \A b \in f.send \cap Audience : mails'[b] = 0
    <3>1. \A b \in runner[r].send \cap Audience : mails[b] = 0
      BY <2>2, <2>9 DEF MailingInv
    <3>2. \A b \in Audience : mails[b] <= 1
      BY <2>9 DEF MailingInv
    <3>3. \A b \in Audience : mails'[b] <= 1
      BY <2>2, <2>6, <3>1, <3>2
    <3>4. \A b \in f.send \cap Audience : mails'[b] = 0
      BY <2>3, <2>6, <3>1
    <3> QED BY <2>9, <3>3, <3>4, LoneRunner
  <2> QED BY <2>3, <2>5, <2>6, <2>7, <2>8, <2>9 DEF MailingInv
<1>8. ASSUME NEW r \in Runners, NextPage(r)
      PROVE  MailingInv'
  <2> DEFINE f == [runner[r] EXCEPT !.at = "page", !.page = {}]
  <2>1. DOMAIN f = RunFields /\ f.at = "page"
    BY DEF MailingInv, RunFields
  <2>2. runner' = [runner EXCEPT ![r] = NoRun] \/ runner' = [runner EXCEPT ![r] = f]
    BY <1>8 DEF NextPage, MailingInv
  <2>3. UNCHANGED <<told, mails>>
    BY <1>8 DEF NextPage
  <2> HIDE DEF f
  <2> QED BY <1>1, <2>1, <2>2, <2>3, RunMovesQuietly
<1>9. ASSUME NEW b \in Audience, UpdateNotificationPreferences(b) \/ Unsubscribe(b)
      PROVE  MailingInv'
  BY <1>2, <1>9 DEF UpdateNotificationPreferences, Unsubscribe
<1> QED
  BY <1>3, <1>4, <1>5, <1>6, <1>7, <1>8, <1>9 DEF Announcing

\* The owner of the address asked for the subscription under way.
ConsentInv ==
    /\ listed \in {"never", "in", "out"}
    /\ listed = "in" => consents
    /\ listed = "never" /\ form = "subscribing" => consents

\* Every step of the newsletter preserves it.
LEMMA ConsentKeeps ==
    ASSUME ConsentInv, [OutreachNext]_outreachVars
    PROVE  ConsentInv'
<1>1. CASE UNCHANGED newsletterVars
  BY <1>1 DEF newsletterVars, ConsentInv
<1>2. CASE Subscribe
  BY <1>2 DEF Subscribe, ConsentInv
<1>3. CASE SubscribeWrite
  BY <1>3 DEF SubscribeWrite, Upserted, ConsentInv
<1>4. CASE NewsletterUnsubscribe \/ ConfirmNewsletterResubscribe \/ DayPasses
  BY <1>4 DEF NewsletterUnsubscribe, ConfirmNewsletterResubscribe, DayPasses, ConsentInv
<1> QED
  BY <1>1, <1>2, <1>3, <1>4 DEF OutreachNext, Announcing, Newsletter, outreachVars, newsletterVars

\* With one worker at a time nobody is mailed twice about one hackathon, and
\* nobody without the row a later run goes by (announceHackathon), wherever runs
\* die and however often the queue delivers the job.
THEOREM EveryoneIsToldOnce == IsFiniteSet(Runners) => (OutreachSpec => []ToldAtMostOnce)
<1> SUFFICES ASSUME IsFiniteSet(Runners) PROVE OutreachSpec => []ToldAtMostOnce
  OBVIOUS
<1>1. OutreachInit => MailingInv
  BY DEF OutreachInit, MailingInv, NoRun, RunFields
<1>2. ASSUME MailingInv, [OutreachNext]_outreachVars PROVE MailingInv'
  <2>1. CASE UNCHANGED <<told, mails, runner>>
    BY <1>2, <2>1 DEF MailingInv
  <2>2. CASE Announcing
    BY <1>2, <2>2, MailingKeeps
  <2> QED BY <1>2, <2>1, <2>2 DEF OutreachNext, Newsletter, announceVars, outreachVars
<1>3. MailingInv => ToldAtMostOnce
  BY DEF MailingInv, ToldAtMostOnce
<1> QED BY <1>1, <1>2, <1>3, PTL DEF OutreachSpec

\* An address that left the newsletter is put back by its owner alone
\* (subscribeNewsletter, resubscribe links).
THEOREM ConsentStands == OutreachSpec => []OptOutStands
<1>1. OutreachInit => ConsentInv
  BY DEF OutreachInit, ConsentInv
<1>2. ConsentInv /\ [OutreachNext]_outreachVars => ConsentInv'
  BY ConsentKeeps
<1>3. ConsentInv => OptOutStands
  BY DEF ConsentInv, OptOutStands
<1> QED BY <1>1, <1>2, <1>3, PTL DEF OutreachSpec

-----------------------------------------------------------------------------
(* RateLimit: the allowance of a stretch, for any limit, window and number of  *)
(* processes                                                                   *)

Counters    == Processes \cup {Database}
WindowOf(c) == IF c = Database THEN bucket ELSE memory[c]
Windows     == [count : Nat, resetAt : Nat]
Calls       == [counter : Counters, until : Nat, count : 1 .. Limit, at : Nat]

\* A call was counted while its window lasted, the first one at its very start;
\* at time now its counter w still has that window, or it has ended and what w
\* has is a later one.
IsCounted(e, w, now) ==
    /\ e.at < e.until /\ e.until <= e.at + Window
    /\ e.count = 1 => e.until = e.at + Window
    /\ \/ e.until <= now /\ (w.count > 0 => e.until + Window <= w.resetAt)
       \/ w.count > 0 /\ w.resetAt = e.until /\ e.count <= w.count

\* No two calls have the same number in one window, and windows do not overlap.
AreTwo(e, f) ==
    e.counter = f.counter =>
        \/ e.until = f.until /\ e.count # f.count
        \/ e.until + Window <= f.until
        \/ f.until + Window <= e.until

RateInv ==
    /\ hour \in Nat
    /\ bucket \in Windows /\ memory \in [Processes -> Windows]
    /\ \A c \in Counters : WindowOf(c).resetAt <= hour + Window
    /\ allowed \in Seq(Calls)
    /\ \A c \in Counters : \A i \in 1 .. Len(allowed) :
          allowed[i].counter = c => IsCounted(allowed[i], WindowOf(c), hour)
    /\ \A i, j \in 1 .. Len(allowed) : i # j => AreTwo(allowed[i], allowed[j])

\* The calls on record, and the windows they were counted in, are well typed.
LEMMA CallTypes ==
    ASSUME allowed \in Seq(Calls)
    PROVE  /\ Len(allowed) \in Nat
           /\ \A i \in 1 .. Len(allowed) :
                 allowed[i] \in Calls /\ allowed[i].counter \in Counters
<1>1. \A i \in 1 .. Len(allowed) : allowed[i] \in Calls
  OBVIOUS
<1>2. \A e \in Calls : e.counter \in Counters
  BY DEF Calls
<1> QED BY <1>1, <1>2

\* What one more call makes of a window.
LEMMA HitWindows ==
    ASSUME NEW w \in Windows, hour \in Nat
    PROVE  /\ Hit(w) \in Windows /\ Hit(w).count > 0
           /\ w.resetAt <= hour + Window => Hit(w).resetAt <= hour + Window
           /\ hour < Hit(w).resetAt
           /\ Hit(w).count = 1 => Hit(w).resetAt = hour + Window
           /\ \A e \in Calls : IsCounted(e, w, hour) =>
                /\ IsCounted(e, Hit(w), hour)
                /\ \/ e.until = Hit(w).resetAt /\ e.count # Hit(w).count
                   \/ e.until + Window <= Hit(w).resetAt
BY RateLimitAssumption DEF Windows, Hit, Fresh, Calls, IsCounted

\* A counter counts one more call, and allows it when it is within the limit.
LEMMA AllowedKeeps ==
    ASSUME RateInv, NEW c \in Counters, UNCHANGED hour,
           WindowOf(c)' = Hit(WindowOf(c)),
           bucket' \in Windows, memory' \in [Processes -> Windows],
           \A d \in Counters \ {c} : WindowOf(d)' = WindowOf(d),
           IF WithinLimit(Hit(WindowOf(c))) THEN Allow(c, Hit(WindowOf(c)))
                                            ELSE UNCHANGED allowed
    PROVE  RateInv'
<1> DEFINE w == WindowOf(c)
           e == [counter |-> c, until |-> Hit(w).resetAt, count |-> Hit(w).count, at |-> hour]
<1>1. w \in Windows /\ w.resetAt <= hour + Window /\ hour \in Nat
  BY DEF RateInv, WindowOf, Counters
<1>2. \A d \in Counters : WindowOf(d)'.resetAt <= hour' + Window
  BY <1>1, HitWindows DEF RateInv
<1>3. \A i \in 1 .. Len(allowed) :
        /\ \A d \in Counters : allowed[i].counter = d =>
              IsCounted(allowed[i], WindowOf(d)', hour')
        /\ allowed[i].counter = c => \/ allowed[i].until = Hit(w).resetAt
                                        /\ allowed[i].count # Hit(w).count
                                     \/ allowed[i].until + Window <= Hit(w).resetAt
  <2> TAKE i \in 1 .. Len(allowed)
  <2>1. allowed[i] \in Calls
    BY CallTypes DEF RateInv
  <2>2. \A d \in Counters : allowed[i].counter = d => IsCounted(allowed[i], WindowOf(d), hour)
    BY DEF RateInv
  <2>3. \A x \in Calls : IsCounted(x, w, hour) =>
                /\ IsCounted(x, Hit(w), hour)
                /\ \/ x.until = Hit(w).resetAt /\ x.count # Hit(w).count
                   \/ x.until + Window <= Hit(w).resetAt
    BY <1>1, HitWindows
  <2>4. IsCounted(allowed[i], WindowOf(c)', hour') \/ allowed[i].counter # c
    BY <2>1, <2>2, <2>3
  <2>5. \A d \in Counters \ {c} : allowed[i].counter = d =>
          IsCounted(allowed[i], WindowOf(d)', hour')
    BY <2>2
  <2> QED BY <2>1, <2>2, <2>3, <2>4, <2>5
<1>4. CASE UNCHANGED allowed
  BY <1>2, <1>3, <1>4 DEF RateInv
<1>5. CASE WithinLimit(Hit(w)) /\ Allow(c, Hit(w))
  <2>1. allowed' = Append(allowed, e)
    BY <1>5 DEF Allow
  <2>2. e \in Calls /\ IsCounted(e, WindowOf(c)', hour')
    BY <1>1, <1>5, HitWindows, RateLimitAssumption DEF Calls, Windows, WithinLimit, IsCounted
  <2>3. /\ allowed' \in Seq(Calls) /\ Len(allowed') = Len(allowed) + 1
        /\ allowed'[Len(allowed) + 1] = e
        /\ \A i \in 1 .. Len(allowed) : allowed'[i] = allowed[i]
    BY <2>1, <2>2 DEF RateInv
  <2>4. \A d \in Counters : \A i \in 1 .. Len(allowed') :
          allowed'[i].counter = d => IsCounted(allowed'[i], WindowOf(d)', hour')
    <3> TAKE d \in Counters
    <3> TAKE i \in 1 .. Len(allowed')
    <3>1. e.counter = c
      OBVIOUS
    <3>2. i \in 1 .. Len(allowed) \/ i = Len(allowed) + 1
      BY <2>3, CallTypes DEF RateInv
    <3> HIDE DEF e
    <3>3. CASE i \in 1 .. Len(allowed)
      BY <1>3, <2>3, <3>3
    <3>4. CASE i = Len(allowed) + 1
      BY <2>2, <2>3, <3>1, <3>4
    <3> QED BY <3>2, <3>3, <3>4
  <2>5. \A i \in 1 .. Len(allowed) : AreTwo(allowed[i], e) /\ AreTwo(e, allowed[i])
    <3> TAKE i \in 1 .. Len(allowed)
    <3>1. e.counter = c /\ e.until = Hit(w).resetAt /\ e.count = Hit(w).count
      OBVIOUS
    <3> HIDE DEF e
    <3> QED BY <1>3, <3>1 DEF AreTwo
  <2>6. \A i, j \in 1 .. Len(allowed') : i # j => AreTwo(allowed'[i], allowed'[j])
    <3> TAKE i, j \in 1 .. Len(allowed')
    <3>1. /\ i \in 1 .. Len(allowed) \/ i = Len(allowed) + 1
          /\ j \in 1 .. Len(allowed) \/ j = Len(allowed) + 1
      BY <2>3, CallTypes DEF RateInv
    <3> HIDE DEF e
    <3> QED BY <2>3, <2>5, <3>1 DEF RateInv
  <2> HIDE DEF e
  <2> QED BY <1>2, <2>3, <2>4, <2>6 DEF RateInv
<1> QED BY <1>4, <1>5

\* Every step preserves the invariant.
LEMMA RateKeeps ==
    ASSUME RateInv, [RateNext]_rateVars
    PROVE  RateInv'
<1>1. CASE InDatabase
  <2>1. Database \in Counters /\ WindowOf(Database) = bucket
        /\ WindowOf(Database)' = Hit(bucket) /\ Hit(bucket) \in Windows
    BY <1>1, HitWindows DEF InDatabase, RateInv, Counters, WindowOf
  <2>2. \A d \in Counters \ {Database} : WindowOf(d)' = WindowOf(d)
    BY <1>1 DEF InDatabase, WindowOf
  <2> QED BY <1>1, <2>1, <2>2, AllowedKeeps DEF InDatabase, RateInv
<1>2. ASSUME NEW p \in Processes, InMemory(p) PROVE RateInv'
  <2>1. /\ p \in Counters /\ WindowOf(p) = memory[p] /\ Hit(memory[p]) \in Windows
        /\ WindowOf(p)' = Hit(memory[p]) /\ memory' \in [Processes -> Windows]
    BY <1>2, HitWindows, RateLimitAssumption DEF InMemory, RateInv, Counters, WindowOf
  <2>2. \A d \in Counters \ {p} : WindowOf(d)' = WindowOf(d)
    BY <1>2 DEF InMemory, WindowOf, RateInv, Counters
  <2>3. WithinLimit(Hit(memory[p]))
    BY <1>2, RateLimitAssumption DEF InMemory, WithinLimit, Hit, Fresh, RateInv, Windows
  <2> QED BY <1>2, <2>1, <2>2, <2>3, AllowedKeeps DEF InMemory, RateInv
<1>3. CASE PurgeExpired
  <2>1. /\ \A c \in Counters : WindowOf(c)'.resetAt <= hour' + Window
        /\ bucket' \in Windows
    BY <1>3, RateLimitAssumption
    DEF PurgeExpired, RateInv, WindowOf, NoWindow, Windows, Counters
  <2>2. \A c \in Counters : \A i \in 1 .. Len(allowed) :
          allowed[i].counter = c => IsCounted(allowed[i], WindowOf(c)', hour')
    <3> TAKE c \in Counters
    <3> TAKE i \in 1 .. Len(allowed)
    <3>1. allowed[i] \in Calls
      BY CallTypes DEF RateInv
    <3>2. allowed[i].counter = c => IsCounted(allowed[i], WindowOf(c), hour)
      BY DEF RateInv
    <3>3. /\ bucket' = NoWindow /\ bucket.resetAt < hour /\ hour' = hour
          /\ bucket \in Windows /\ hour \in Nat /\ memory' = memory
      BY <1>3 DEF PurgeExpired, RateInv
    <3>4. CASE c = Database
      BY <3>1, <3>2, <3>3, <3>4 DEF WindowOf, NoWindow, IsCounted, Calls, Windows
    <3>5. CASE c # Database
      BY <3>2, <3>3, <3>5 DEF WindowOf
    <3> QED BY <3>4, <3>5
  <2> QED BY <1>3, <2>1, <2>2 DEF PurgeExpired, RateInv
<1>4. CASE Passes
  <2>1. \A c \in Counters : /\ WindowOf(c)' = WindowOf(c)
                            /\ WindowOf(c).resetAt <= hour + 1 + Window
    BY <1>4, RateLimitAssumption DEF Passes, RateInv, WindowOf, Windows, Counters
  <2>2. \A c \in Counters : \A i \in 1 .. Len(allowed) :
          allowed[i].counter = c => IsCounted(allowed[i], WindowOf(c)', hour')
    <3> TAKE c \in Counters
    <3> TAKE i \in 1 .. Len(allowed)
    <3>1. allowed[i] \in Calls
      BY CallTypes DEF RateInv
    <3>2. allowed[i].counter = c => IsCounted(allowed[i], WindowOf(c), hour)
      BY DEF RateInv
    <3>3. hour \in Nat /\ hour' = hour + 1
      BY <1>4 DEF Passes, RateInv
    <3> QED BY <2>1, <3>1, <3>2, <3>3 DEF IsCounted, Calls
  <2> QED BY <1>4, <2>1, <2>2 DEF Passes, RateInv
<1>5. CASE UNCHANGED rateVars
  BY <1>5 DEF rateVars, RateInv, WindowOf
<1> QED BY <1>1, <1>2, <1>3, <1>4, <1>5 DEF RateNext

\* The place of a call in a stretch from hour h on, among the calls of its
\* counter: those of the older window, whose first call came before h, and then
\* those of the newer one.
Place(until, count, h) == IF until >= h + Window THEN Limit - 1 + count ELSE count - 1

\* There are twice the limit less one places, and a place tells the window's age
\* and the number in it.
LEMMA PlacesAreEnough ==
    ASSUME NEW h \in Nat, NEW u \in Nat, NEW n \in 1 .. Limit, NEW at \in Nat,
           h <= at, at <= h + Window - 1, at < u, u <= at + Window, n = 1 => u = at + Window
    PROVE  /\ Place(u, n, h) \in 1 .. 2 * Limit - 1
           /\ u >= h + Window <=> Place(u, n, h) >= Limit
           /\ n = IF u >= h + Window THEN Place(u, n, h) - Limit + 1 ELSE Place(u, n, h) + 1
           /\ u > h /\ u < h + 2 * Window
<1> USE RateLimitAssumption DEF Place
<1>1. CASE u >= h + Window
  BY <1>1
<1>2. CASE u < h + Window
  BY <1>2
<1> QED BY <1>1, <1>2

\* A stretch of one window's length meets two windows of a counter at most, and
\* the first call of the older one lies before it: every call in it has a place
\* of its own among twice the limit less one of each counter.
THEOREM AllowanceIsBounded == IsFiniteSet(Processes) => (RateSpec => []AllowanceBounded)
<1> SUFFICES ASSUME IsFiniteSet(Processes) PROVE RateSpec => []AllowanceBounded
  OBVIOUS
<1> USE RateLimitAssumption
<1>1. RateInit => RateInv
  BY DEF RateInit, RateInv, NoWindow, Windows, WindowOf, Counters
<1>2. RateInv => AllowanceBounded
  <2> SUFFICES ASSUME RateInv, NEW h \in 0 .. HourBound
               PROVE  Cardinality(CallsIn(h .. h + Window - 1))
                        <= (2 * Limit - 1) * (1 + Cardinality(Processes))
    BY DEF AllowanceBounded
  <2> DEFINE S == CallsIn(h .. h + Window - 1)
             T == Counters \X (1 .. 2 * Limit - 1)
             place(i) == Place(allowed[i].until, allowed[i].count, h)
             f == [i \in S |-> <<allowed[i].counter, place(i)>>]
  <2>1. \A i \in S : /\ i \in 1 .. Len(allowed) /\ allowed[i].counter \in Counters
                     /\ {allowed[i].at, allowed[i].until} \subseteq Nat
                     /\ allowed[i].count \in 1 .. Limit
                     /\ h <= allowed[i].at /\ allowed[i].at <= h + Window - 1
                     /\ allowed[i].at < allowed[i].until
                     /\ allowed[i].until <= allowed[i].at + Window
                     /\ allowed[i].count = 1 => allowed[i].until = allowed[i].at + Window
    <3> TAKE i \in S
    <3>1. i \in 1 .. Len(allowed) /\ allowed[i].at \in h .. h + Window - 1
      BY DEF CallsIn, RateInv
    <3>2. allowed[i] \in Calls /\ allowed[i].counter \in Counters
      BY <3>1, CallTypes DEF RateInv
    <3>3. IsCounted(allowed[i], WindowOf(allowed[i].counter), hour)
      BY <3>1, <3>2 DEF RateInv
    <3> QED BY <3>1, <3>2, <3>3 DEF IsCounted, Calls
  <2> HIDE DEF S
  <2>2. \A i \in S :
          /\ place(i) \in 1 .. 2 * Limit - 1
          /\ allowed[i].until >= h + Window <=> place(i) >= Limit
          /\ allowed[i].count = IF allowed[i].until >= h + Window
                                THEN place(i) - Limit + 1 ELSE place(i) + 1
          /\ allowed[i].until > h /\ allowed[i].until < h + 2 * Window
    <3> TAKE i \in S
    <3>1. PICK u \in Nat, at \in Nat, n \in 1 .. Limit :
             u = allowed[i].until /\ at = allowed[i].at /\ n = allowed[i].count
      BY <2>1
    <3>2. /\ h \in Nat /\ h <= at /\ at <= h + Window - 1 /\ at < u /\ u <= at + Window
          /\ n = 1 => u = at + Window
      BY <2>1, <3>1
    <3>3. /\ Place(u, n, h) \in 1 .. 2 * Limit - 1
          /\ u >= h + Window <=> Place(u, n, h) >= Limit
          /\ n = IF u >= h + Window THEN Place(u, n, h) - Limit + 1 ELSE Place(u, n, h) + 1
          /\ u > h /\ u < h + 2 * Window
      BY <3>2, PlacesAreEnough
    <3> QED BY <3>1, <3>3
  <2>3. \A i, j \in S : i # j => f[i] # f[j]
    <3> SUFFICES ASSUME NEW i \in S, NEW j \in S, i # j, f[i] = f[j] PROVE FALSE
      OBVIOUS
    <3>1. allowed[i].counter = allowed[j].counter /\ place(i) = place(j)
      OBVIOUS
    <3>2. AreTwo(allowed[i], allowed[j])
      BY <2>1 DEF RateInv
    <3>3. PICK u \in Nat, v \in Nat : u = allowed[i].until /\ v = allowed[j].until
      BY <2>1
    <3>4. /\ u >= h + Window <=> v >= h + Window
          /\ u > h /\ u < h + 2 * Window /\ v > h /\ v < h + 2 * Window
      BY <2>2, <3>1, <3>3
    <3>5. allowed[i].count = allowed[j].count
      BY <2>2, <3>1, <3>3, <3>4
    <3>6. u + Window <= v \/ v + Window <= u
      BY <3>1, <3>2, <3>3, <3>5 DEF AreTwo
    <3> QED BY <3>4, <3>6
  <2>4. f \in Injection(S, T)
    BY <2>1, <2>2, <2>3 DEF Injection, IsInjective
  <2>5. IsFiniteSet(T) /\ Cardinality(T) = Cardinality(Counters) * (2 * Limit - 1)
    <3>1. IsFiniteSet(1 .. 2 * Limit - 1) /\ Cardinality(1 .. 2 * Limit - 1) = 2 * Limit - 1
      BY FS_Interval
    <3>2. IsFiniteSet(Counters)
      BY FS_AddElement DEF Counters
    <3> QED BY <3>1, <3>2, FS_Product
  <2>6. Cardinality(Counters) = 1 + Cardinality(Processes)
    <3>1. Cardinality(Processes \cup {Database}) = Cardinality(Processes) + 1
      BY FS_AddElement, Zenon
    <3>2. Cardinality(Processes) \in Nat
      BY FS_CardinalityType
    <3> QED BY <3>1, <3>2 DEF Counters
  <2>7. Cardinality(S) <= Cardinality(T)
    BY <2>4, <2>5, FS_Injection
  <2> QED BY <2>5, <2>6, <2>7, FS_CardinalityType DEF S
<1>3. RateInv /\ [RateNext]_rateVars => RateInv'
  BY RateKeeps
<1> QED BY <1>1, <1>2, <1>3, PTL DEF RateSpec
=============================================================================
