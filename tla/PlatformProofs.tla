--------------------------- MODULE PlatformProofs ---------------------------
(***************************************************************************)
(* The application implements each of its parts: a behaviour of Platform   *)
(* is, seen through the variables of one part, a behaviour of that part,   *)
(* so what was proved of the parts holds of the whole.                     *)
(***************************************************************************)
EXTENDS Platform, CompetitionProofs, PeopleProofs, PublishingProofs

\* The application takes a step of the competition or leaves it alone.
LEMMA FollowsCompetition == PlatformSpec => Spec
<1>1. PlatformInit => Init
  BY DEF PlatformInit
<1>2. [PlatformNext]_platformVars => [Next]_vars
  BY DEF PlatformNext, platformVars, competitionVars, vars
<1> QED BY <1>1, <1>2, PTL DEF PlatformSpec, Spec

\* The same of organizations and invitations.
LEMMA FollowsOrganizations == PlatformSpec => OrgSpec
<1>1. PlatformInit => OrgInit
  BY DEF PlatformInit
<1>2. [PlatformNext]_platformVars => [OrgNext]_orgVars
  BY DEF PlatformNext, platformVars
<1> QED BY <1>1, <1>2, PTL DEF PlatformSpec, OrgSpec

\* The same of accounts and sessions.
LEMMA FollowsAccounts == PlatformSpec => AccountsSpec
<1>1. PlatformInit => AccountsInit
  BY DEF PlatformInit
<1>2. [PlatformNext]_platformVars => [AccountsNext]_accountVars
  BY DEF PlatformNext, platformVars
<1> QED BY <1>1, <1>2, PTL DEF PlatformSpec, AccountsSpec

\* The same of the rate limiter.
LEMMA FollowsRates == PlatformSpec => RateSpec
<1>1. PlatformInit => RateInit
  BY DEF PlatformInit
<1>2. [PlatformNext]_platformVars => [RateNext]_rateVars
  BY DEF PlatformNext, platformVars
<1> QED BY <1>1, <1>2, PTL DEF PlatformSpec, RateSpec

\* The same of announcements and the newsletter.
LEMMA FollowsOutreach == PlatformSpec => OutreachSpec
<1>1. PlatformInit => OutreachInit
  BY DEF PlatformInit
<1>2. [PlatformNext]_platformVars => [OutreachNext]_outreachVars
  BY DEF PlatformNext, platformVars, OutreachNext
<1> QED BY <1>1, <1>2, PTL DEF PlatformSpec, OutreachSpec

\* The same of drafts.
LEMMA FollowsDrafts == PlatformSpec => DraftsSpec
<1>1. PlatformInit => DraftsInit
  BY DEF PlatformInit
<1>2. [PlatformNext]_platformVars => [DraftsNext]_draftsVars
  BY DEF PlatformNext, platformVars
<1> QED BY <1>1, <1>2, PTL DEF PlatformSpec, DraftsSpec

\* The same of the public directory.
LEMMA FollowsDirectory == PlatformSpec => DirectorySpec
<1>1. PlatformInit => DirectoryInit
  BY DEF PlatformInit
<1>2. [PlatformNext]_platformVars => [DirectoryNext]_directoryVars
  BY DEF PlatformNext, platformVars
<1> QED BY <1>1, <1>2, PTL DEF PlatformSpec, DirectorySpec

\* The same of the wizard.
LEMMA FollowsWizard == PlatformSpec => WizardSpec
<1>1. PlatformInit => WizardInit
  BY DEF PlatformInit
<1>2. [PlatformNext]_platformVars => [WizardNext]_wizardVars
  BY DEF PlatformNext, platformVars
<1> QED BY <1>1, <1>2, PTL DEF PlatformSpec, WizardSpec

\* The same of the pages and their handlers.
LEMMA FollowsDesks == PlatformSpec => DesksSpec
<1>1. PlatformInit => DesksInit
  BY DEF PlatformInit
<1>2. [PlatformNext]_platformVars => [DesksNext]_deskVars
  BY DEF PlatformNext, platformVars
<1> QED BY <1>1, <1>2, PTL DEF PlatformSpec, DesksSpec

(***************************************************************************)
(* The pages lead on                                                       *)
(***************************************************************************)

\* What the organizer and the administrator do before the event runs.
LEMMA FundingAgrees ==
    ASSUME RowsAgree, NEW c \in Controls, desk' \in DecideFunding(c)
    PROVE  RowsAgree'
<1> DOMAIN desk = Columns
  BY DEF RowsAgree
<1> USE DEF Columns, DecideFunding, When
<1>1. DOMAIN desk' = Columns
  OBVIOUS
<1>2. desk'.places = desk.places /\ desk'.judge = desk.judge
  OBVIOUS
<1>3. desk'.submitted = desk.submitted /\ desk'.team = desk.team
  OBVIOUS
<1>4. desk'.instant = desk.instant
  OBVIOUS
<1>5. desk'.milestone = desk.milestone /\ desk'.confirmed = desk.confirmed
  OBVIOUS
<1>6. desk'.kyb \in {desk.kyb, "PENDING", "VERIFIED", "FAILED"}
  OBVIOUS
<1>7. \/ desk'.status \in {"PENDING_DEPOSIT", "CANCELLED"}
      \/ desk'.status = desk.status /\ desk'.checkout = desk.checkout
  OBVIOUS
<1>8. desk.status \in Announced => desk'.status = desk.status
  BY DEF Announced, AdminCancellable, Running
<1> HIDE DEF Columns, DecideFunding, When
<1> QED BY <1>1, <1>2, <1>3, <1>4, <1>5, <1>6, <1>7, <1>8 DEF RowsAgree

\* What a team leader does.
LEMMA TeamAgrees ==
    ASSUME RowsAgree, NEW c \in Controls, desk' \in DecideTeam(c)
    PROVE  RowsAgree'
<1> DOMAIN desk = Columns
  BY DEF RowsAgree
<1> USE DEF Columns, DecideTeam, When
<1>1. DOMAIN desk' = Columns
  OBVIOUS
<1>2. desk'.places = desk.places /\ desk'.judge = desk.judge
  OBVIOUS
<1>3. desk'.kyb = desk.kyb /\ desk'.status = desk.status
  OBVIOUS
<1>4. desk'.checkout = desk.checkout /\ desk'.instant = desk.instant
  OBVIOUS
<1>5. desk'.milestone = desk.milestone /\ desk'.confirmed = desk.confirmed
  OBVIOUS
<1>6. \/ desk'.team # "none"
      \/ ~desk'.submitted
      \/ desk'.team = desk.team /\ desk'.submitted = desk.submitted
  OBVIOUS
<1> HIDE DEF Columns, DecideTeam, When
<1> QED BY <1>1, <1>2, <1>3, <1>4, <1>5, <1>6 DEF RowsAgree

\* What judges do, and the organizer with them.
LEMMA ReviewAgrees ==
    ASSUME RowsAgree, NEW c \in Controls, desk' \in DecideReview(c)
    PROVE  RowsAgree'
<1> DOMAIN desk = Columns
  BY DEF RowsAgree
<1> USE DEF Columns, DecideReview, When
<1>1. DOMAIN desk' = Columns
  OBVIOUS
<1>2. desk'.places = desk.places /\ desk'.kyb = desk.kyb
  OBVIOUS
<1>3. desk'.submitted = desk.submitted /\ desk'.team = desk.team
  OBVIOUS
<1>4. desk'.checkout = desk.checkout /\ desk'.instant = desk.instant
  OBVIOUS
<1>5. desk'.milestone = desk.milestone /\ desk'.confirmed = desk.confirmed
  OBVIOUS
<1>6. desk'.judge \in {desk.judge, "INVITED", "ACTIVE", "DECLINED"}
  OBVIOUS
<1>7. \/ desk'.status = desk.status
      \/ desk.status \in Running
  OBVIOUS
<1> HIDE DEF Columns, DecideReview, When
<1> QED
  BY <1>1, <1>2, <1>3, <1>4, <1>5, <1>6, <1>7 DEF RowsAgree, Running, Announced

\* What follows the judging, without a tranche that is written anew.
LEMMA PayoutAgrees ==
    ASSUME RowsAgree, NEW c \in Controls,
           desk' \in DecidePayout(c), c \notin {"retry", "markPaid"}
    PROVE  RowsAgree'
<1> DOMAIN desk = Columns
  BY DEF RowsAgree
<1> USE DEF Columns, DecidePayout, When
<1>1. DOMAIN desk' = Columns
  OBVIOUS
<1>2. desk'.places = desk.places /\ desk'.kyb = desk.kyb
  OBVIOUS
<1>3. desk'.submitted = desk.submitted /\ desk'.team = desk.team
  OBVIOUS
<1>4. desk'.checkout = desk.checkout /\ desk'.judge = desk.judge
  OBVIOUS
<1>5. \/ desk'.status = desk.status /\ desk'.instant = desk.instant
      \/ desk.status = "JUDGING" /\ desk'.status = "WINNERS_ANNOUNCED"
  OBVIOUS
<1>6. \/ desk'.confirmed
      \/ desk'.milestone = desk.milestone /\ desk'.confirmed = desk.confirmed
  OBVIOUS
<1> HIDE DEF Columns, DecidePayout, When
<1> QED BY <1>1, <1>2, <1>3, <1>4, <1>5, <1>6 DEF RowsAgree, Announced

\* Writing a tranche of which there is one keeps the rows in agreement.
LEMMA PayingAgrees ==
    ASSUME RowsAgree, NEW t \in Tranches, TrancheOf(t) # "none", NEW o, o # "none",
           desk' = Paying(t, o)
    PROVE  RowsAgree'
<1> USE DEF RowsAgree, Columns
<1>1. CASE t = "INSTANT"
  <2>1. \/ desk' = [desk EXCEPT !.instant = o]
        \/ desk' = [desk EXCEPT !.instant = o, !.status = "SETTLED"]
    BY <1>1 DEF Paying, Settled
  <2>2. desk.instant # "none"
    BY <1>1 DEF TrancheOf
  <2> QED BY <2>1, <2>2 DEF Announced
<1>2. CASE t = "MILESTONE"
  <2>1. \/ desk' = [desk EXCEPT !.milestone = o]
        \/ /\ desk.status = "WINNERS_ANNOUNCED"
           /\ desk' = [desk EXCEPT !.milestone = o, !.status = "SETTLED"]
    BY <1>2 DEF Paying, Settled
  <2>2. desk.milestone # "none"
    BY <1>2 DEF TrancheOf
  <2> QED BY <2>1, <2>2 DEF Announced
<1> QED BY <1>1, <1>2 DEF Tranches

\* No request, cron, charge or transfer takes the rows out of agreement.
LEMMA DesksStep ==
    ASSUME RowsAgree, [DesksNext]_deskVars
    PROVE  RowsAgree'
<1>1. CASE UNCHANGED deskVars
  BY <1>1 DEF deskVars, RowsAgree
<1>2. ASSUME NEW o \in {"QUEUED", "SUCCEEDED"}, desk' \in SomeUnpaid(o)
      PROVE  RowsAgree'
  <2>1. PICK t \in Tranches : TrancheOf(t) \in Unpaid /\ desk' = Paying(t, o)
    BY <1>2 DEF SomeUnpaid
  <2> QED BY <2>1, PayingAgrees DEF Unpaid
<1>3. ASSUME NEW c \in Controls, Handler(c) PROVE RowsAgree'
  <2>1. CASE desk' \in DecidePayout(c)
    <3>1. CASE c \in {"retry", "markPaid"}
      BY <1>2, <2>1, <3>1 DEF DecidePayout
    <3> QED BY <2>1, <3>1, PayoutAgrees
  <2> QED BY <1>3, <2>1, FundingAgrees, TeamAgrees, ReviewAgrees DEF Handler, Outcomes
<1>4. CASE Hours \/ StartsByCron \/ Charged \/ CheckoutExpires
  BY <1>4 DEF Hours, StartsByCron, Charged, CheckoutExpires, RowsAgree, Columns, Announced
<1>5. CASE Transferred
  <2>1. PICK t \in Tranches, o \in {"SUCCEEDED", "MANUAL_REVIEW", "REVERSED"} :
          TrancheOf(t) # "none" /\ desk' = Paying(t, o)
    BY <1>5 DEF Transferred
  <2> QED BY <2>1, PayingAgrees
<1> QED BY <1>1, <1>3, <1>4, <1>5 DEF DesksNext

\* When the handlers accept.
LEMMA FundingAccepts ==
    /\ desk.status = "DRAFT" => Accepts("publish") /\ Accepts("editDraft")
    /\ Accepts("saveProfile") /\ Accepts("inviteMember") /\ Accepts("uploadCover")
    /\ desk.covered => Accepts("removeCover")
    /\ desk.kyb \in Submittable /\ desk.profiled => Accepts("submitKyb")
    /\ desk.kyb = "PENDING" => Accepts("approveKyb")
    /\ desk.status = "PENDING_DEPOSIT" /\ desk.kyb = "VERIFIED" => Accepts("fund")
    /\ desk.status \in AdminCancellable => Accepts("adminCancel")
<1> USE DEF Accepts, Outcomes, DecideFunding, When
<1>1. desk.status = "DRAFT" => Accepts("publish") /\ Accepts("editDraft")
  OBVIOUS
<1>2. Accepts("saveProfile") /\ Accepts("inviteMember") /\ Accepts("uploadCover")
  OBVIOUS
<1>3. desk.covered => Accepts("removeCover")
  OBVIOUS
<1>4. desk.kyb \in Submittable /\ desk.profiled => Accepts("submitKyb")
  OBVIOUS
<1>5. desk.kyb = "PENDING" => Accepts("approveKyb")
  OBVIOUS
<1>6. desk.status = "PENDING_DEPOSIT" /\ desk.kyb = "VERIFIED" => Accepts("fund")
  OBVIOUS
<1>7. desk.status \in AdminCancellable => Accepts("adminCancel")
  OBVIOUS
<1> HIDE DEF Accepts, Outcomes, DecideFunding, When
<1> QED BY <1>1, <1>2, <1>3, <1>4, <1>5, <1>6, <1>7

\* The same of teams.
LEMMA TeamAccepts ==
    /\ RegistrationIsOpen => Accepts("register")
    /\ desk.registered /\ RegistrationIsOpen /\ desk.team = "none" => Accepts("createTeam")
    /\ desk.team # "none" => Accepts("toggleLock")
    /\ desk.team # "none" /\ WindowIsOpen => Accepts("submit")
    /\ Accepts("saveRecipient")
BY DEF Accepts, Outcomes, DecideTeam, When

\* The same of the judging.
LEMMA ReviewAccepts ==
    /\ Accepts("inviteJudge")
    /\ desk.judge # "none" =>
         Accepts("removeJudge") /\ Accepts("acceptSeat") /\ Accepts("declineSeat")
    /\ desk.status \notin {"JUDGING"} \cup Announced => Accepts("saveRubric")
    /\ desk.status \in Running /\ Ended => Accepts("openJudging")
    /\ ReviewIsOpen => Accepts("score") /\ Accepts("addPoint")
    /\ desk.points /\ ~desk.final => Accepts("removePoint")
    /\ ReviewIsOpen /\ desk.scored /\ desk.points => Accepts("finalize")
BY DEF Accepts, Outcomes, DecideReview, When

\* The same of what follows it.
LEMMA PayoutAccepts ==
    /\ /\ desk.status = "JUDGING" /\ desk.judge = "ACTIVE" /\ desk.final
       /\ desk.submitted /\ desk.places = 1 /\ desk.recipient
       => Accepts("announce")
    /\ desk.instant = "SUCCEEDED" /\ ~desk.confirmed /\ desk.milestone = "none" =>
         Accepts("confirmMilestone")
    /\ {desk.instant, desk.milestone} \cap Unpaid # {} => Accepts("retry") /\ Accepts("markPaid")
    /\ desk.dispute = "OPEN" => Accepts("release") /\ Accepts("reject")
    /\ desk.judge = "ACTIVE" /\ desk.instant # "none" /\ ~desk.endorsed => Accepts("endorse")
<1>1. {desk.instant, desk.milestone} \cap Unpaid # {} =>
        \E t \in Tranches : TrancheOf(t) \in Unpaid
  BY DEF Tranches, TrancheOf
<1> QED BY <1>1 DEF Accepts, Outcomes, DecidePayout, SomeUnpaid, When

\* The rows agree, so what is wanted is offered and accepted.
LEMMA WantedIsOffered ==
    ASSUME RowsAgree, NEW c \in Wanted
    PROVE  c \in Offered /\ Accepts(c)
<1> USE DEF RowsAgree, When
<1>1. CASE desk.status = "DRAFT"
  <2>1. c = "publish"
    BY <1>1 DEF Wanted, Running
  <2> QED BY <1>1, <2>1, FundingAccepts DEF Offered, EventPage
<1>2. CASE desk.status = "PENDING_DEPOSIT"
  <2>1. \/ c = "fund" /\ desk.kyb = "VERIFIED"
        \/ c = "approveKyb" /\ desk.kyb = "PENDING"
        \/ c = "submitKyb" /\ desk.profiled /\ desk.kyb \in Submittable
        \/ c = "saveProfile"
    BY <1>2 DEF Wanted, Running, WantedToFund, Submittable
  <2>2. Accepts(c)
    BY <1>2, <2>1, FundingAccepts
  <2>3. c \in VaultPage \cup AdminKyb \cup VerificationPage \cup OrganizerPage
    BY <1>2, <2>1 DEF VaultPage, AdminKyb, VerificationPage, OrganizerPage
  <2> QED BY <2>2, <2>3 DEF Offered
<1>3. CASE desk.status \in Running
  <2>1. c = "openJudging" /\ Ended
    BY <1>3 DEF Wanted, Running
  <2>2. c \in EventPage
    BY <1>3, <2>1 DEF EventPage, JudgingSection
  <2> QED BY <1>3, <2>1, <2>2, ReviewAccepts DEF Offered
<1>4. CASE desk.status = "JUDGING"
  <2>1. CASE ~desk.submitted \/ desk.places > 1
    <3>1. c = "adminCancel"
      BY <1>4, <2>1 DEF Wanted, Running, WantedToAnnounce
    <3>2. desk.status \in AdminCancellable
      BY <1>4 DEF AdminCancellable
    <3> QED BY <3>1, <3>2, FundingAccepts DEF Offered, AdminHackathons
  <2>2. CASE desk.submitted /\ ~(desk.places > 1) /\ desk.judge # "ACTIVE"
    <3>1. \/ c = "inviteJudge"
          \/ c = "acceptSeat" /\ desk.judge = "INVITED"
      BY <1>4, <2>2 DEF Wanted, Running, WantedToAnnounce
    <3>2. c \in JudgesPage \cup JudgePage
      BY <3>1 DEF JudgesPage, JudgesManager, JudgePage
    <3> QED BY <3>1, <3>2, ReviewAccepts DEF Offered
  <2>3. CASE /\ desk.submitted /\ ~(desk.places > 1) /\ desk.judge = "ACTIVE"
             /\ ~desk.final
    <3>1. \/ c \in {"score", "addPoint"}
          \/ c = "finalize" /\ desk.scored /\ desk.points
      BY <1>4, <2>3 DEF Wanted, Running, WantedToAnnounce, WantedOfJudge
    <3>2. ReviewIsOpen
      BY <1>4, <2>3 DEF ReviewIsOpen
    <3>3. c \in JudgeHackathonPage
      BY <1>4, <2>3, <3>1 DEF JudgeHackathonPage, TeamPage, ScoringScreen
    <3> QED BY <3>1, <3>2, <3>3, ReviewAccepts DEF Offered
  <2>4. CASE /\ desk.submitted /\ ~(desk.places > 1) /\ desk.judge = "ACTIVE"
             /\ desk.final
    <3>1. desk.places = 1
      <4>1. \A n \in Places : ~(n > 1) => n = 1
        BY DesksAssumption
      <4> QED BY <2>4, <4>1
    <3>2. desk.instant = "none"
      BY <1>4 DEF Announced
    <3>3. \/ c = "saveRecipient"
          \/ c = "announce" /\ desk.recipient
      BY <1>4, <2>4 DEF Wanted, Running, WantedToAnnounce
    <3>4. Accepts(c)
      BY <1>4, <2>4, <3>1, <3>3, TeamAccepts, PayoutAccepts
    <3>5. c \in SettingsPage \cup WinnersPage
      BY <1>4, <2>4, <3>1, <3>2, <3>3
      DEF SettingsPage, PayoutMethodForm, WinnersPage, WinnersAnnouncer
    <3> QED BY <3>4, <3>5 DEF Offered
  <2> QED BY <2>1, <2>2, <2>3, <2>4
<1>5. CASE desk.status = "WINNERS_ANNOUNCED"
  <2>1. \/ c = "confirmMilestone" /\ desk.instant = "SUCCEEDED" /\ ~desk.confirmed
        \/ c = "markPaid" /\ {desk.instant, desk.milestone} \cap Unpaid # {}
    BY <1>5 DEF Wanted, Running, WantedToSettle, Unpaid
  <2>2. Accepts(c)
    BY <2>1, PayoutAccepts
  <2>3. c \in WinnersPage \cup AdminPayments
    BY <2>1 DEF WinnersPage, AdminPayments, PayoutOpsActions
  <2> QED BY <2>2, <2>3 DEF Offered
<1> QED
  BY <1>1, <1>2, <1>3, <1>4, <1>5 DEF Wanted, Running

\* Of what is offered, handlers refuse only what is left to them.
LEMMA OfferedIsAccepted ==
    ASSUME RowsAgree, NEW c \in Offered \ LeftToTheServer
    PROVE  Accepts(c)
<1> USE FundingAccepts, TeamAccepts, ReviewAccepts, PayoutAccepts DEF When, LeftToTheServer
<1>1. c \in EventPage => Accepts(c)
  BY DEF EventPage, EditPage, CoverUploader, JudgingSection
<1>2. c \in VerificationPage \cup OrganizerPage \cup OrganizationPage \cup VaultPage => Accepts(c)
  BY DEF VerificationPage, OrganizerPage, OrganizationPage, InviteCodeManager, VaultPage
<1>3. c \in JudgesPage \cup RubricPage \cup WinnersPage => Accepts(c)
  BY DEF JudgesPage, JudgesManager, RubricPage, RubricEditor, WinnersPage, WinnersAnnouncer
<1>4. c \in HackathonPage \cup DashboardPage \cup WorkspacePage => Accepts(c)
  BY DEF HackathonPage, RegistrationAction, DashboardPage, WorkspacePage, TeamForms, TeamPanel,
         SubmissionForm
<1>5. c \in SettingsPage \cup WinningsPage => Accepts(c)
  BY DEF SettingsPage, PayoutMethodForm, WinningsPage, DisputeForm
<1>6. c \in JudgePage \cup JudgeHackathonPage \cup EndorsePage => Accepts(c)
  BY DEF JudgePage, JudgeHackathonPage, TeamPage, ScoringScreen, EndorsePage,
         EndorseWinnersForm, ReviewIsOpen, RowsAgree
<1>7. c \in AdminKyb \cup AdminHackathons \cup AdminPayments \cup AdminDisputes => Accepts(c)
  BY DEF AdminKyb, AdminHackathons, AdminPayments, PayoutOpsActions, AdminDisputes,
         DisputeResolutionForm
<1> QED BY <1>1, <1>2, <1>3, <1>4, <1>5, <1>6, <1>7 DEF Offered

\* Wherever a hackathon stands, whatever number of prizes it has, the step that takes
\* it on is on a page of the person whose step it is and is accepted, and pages and
\* handlers disagree only where the pages leave the refusal to the server.
THEOREM NobodyIsStranded == PlatformSpec => []PagesLeadOn
<1>1. DesksInit => RowsAgree
  BY DEF DesksInit, RowsAgree, Columns
<1>2. RowsAgree /\ [DesksNext]_deskVars => RowsAgree'
  BY DesksStep
<1>3. RowsAgree => PagesLeadOn
  BY WantedIsOffered, OfferedIsAccepted DEF PagesLeadOn, LeadsOn
<1> QED BY <1>1, <1>2, <1>3, FollowsDesks, PTL DEF DesksSpec

\* For any number of users, judges, organizations, devices, server instances, mail
\* workers, editors and hackathons, the application keeps what it promises those who
\* compete, judge, join an organization, sign in, call, are mailed, publish, browse,
\* fill in the wizard and find their way from page to page: every property that the
\* platform run checks but the demo database's.
THEOREM PlatformKeepsItsPromises ==
    ASSUME IsFiniteSet(Runners), IsFiniteSet(Processes)
    PROVE  PlatformSpec =>
              /\ [](JudgesDoNotCompete /\ TeamSizeBounded /\ AnnouncedIsJudged)
              /\ [](OneMemberPerInvite /\ RevokedStaysOut /\ AllowanceBounded)
              /\ [](ToldAtMostOnce /\ OptOutStands)
              /\ [](PublishedIsSound /\ CountsAreKept /\ NothingIsDropped)
              /\ []PagesLeadOn
              /\ FinalIsFrozen
<1>1. PlatformSpec => [](JudgesDoNotCompete /\ TeamSizeBounded /\ AnnouncedIsJudged)
  BY FollowsCompetition, JudgesStayOut, TeamsStaySmall, WinnersAreJudged, PTL
<1>2. PlatformSpec => [](OneMemberPerInvite /\ RevokedStaysOut)
  BY FollowsOrganizations, FollowsAccounts, InvitesAdmitOne, RevokedSessionsStayOut, PTL
<1>3. RateSpec => []AllowanceBounded
  BY AllowanceIsBounded
<1>4. OutreachSpec => []ToldAtMostOnce
  BY EveryoneIsToldOnce
<1>5. PlatformSpec => [](AllowanceBounded /\ ToldAtMostOnce /\ OptOutStands)
  BY FollowsRates, FollowsOutreach, ConsentStands, <1>3, <1>4, PTL
<1>6. PlatformSpec => [](PublishedIsSound /\ CountsAreKept /\ NothingIsDropped)
  BY FollowsDrafts, FollowsDirectory, FollowsWizard, PublishedStaysSound, EveryCountIsKept,
     NoRowIsDropped, PTL
<1>7. PlatformSpec => FinalIsFrozen
  BY FollowsCompetition, ReviewsAreFrozen
<1> QED BY <1>1, <1>2, <1>5, <1>6, <1>7, NobodyIsStranded, PTL
=============================================================================
