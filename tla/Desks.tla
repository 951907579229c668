------------------------------- MODULE Desks --------------------------------
(***************************************************************************)
(* The pages from which the people of one hackathon work: its organizer, a *)
(* team leader, a judge and an administrator.  A page decides which        *)
(* controls it shows from the rows it reads; the handler behind a control  *)
(* decides for itself, on the rows of that moment, because the page may be *)
(* old.  So a request needs the consent of its handler only, and the pages *)
(* matter to what people can find their way to.                            *)
(*                                                                         *)
(* The handlers are told in one step each; what interleaves inside them is *)
(* in the modules of their components.  The team is the one that its       *)
(* leader is in: a disbanded team is left to the module Teams.             *)
(***************************************************************************)
EXTENDS Integers, FiniteSets

CONSTANT Places      \* how many prizes a hackathon may have

ASSUME DesksAssumption == Places \subseteq Nat \ {0}

VARIABLE desk           \* the rows of the hackathon and of those who work on it

deskVars == <<desk>>

Controls ==
    {"publish", "cancel", "editDraft", "uploadCover", "removeCover", "inviteMember",
     "saveProfile", "submitKyb", "fund", "inviteJudge", "removeJudge",
     "saveRubric", "openJudging", "announce", "confirmMilestone",
     "register", "unregister", "createTeam", "toggleLock", "disband", "submit", "saveRecipient",
     "openDispute", "acceptSeat", "declineSeat", "score", "addPoint", "removePoint", "finalize",
     "endorse", "approveKyb", "rejectKyb", "adminCancel", "retry", "markPaid", "release", "reject"}

Running == {"LIVE", "IN_PROGRESS"}
AdminCancellable == {"DRAFT", "PENDING_DEPOSIT", "JUDGING"} \cup Running
Announced == {"WINNERS_ANNOUNCED", "SETTLED"}
Unpaid == {"QUEUED", "MANUAL_REVIEW", "REVERSED"}

\* The hours: 0 until registration closes, 1 the hackathon, 2 afterwards, 3
\* when a dispute may be opened.
RegistrationIsOpen == desk.status \notin {"DRAFT", "CANCELLED"} /\ desk.hour < 1
WindowIsOpen == desk.status \in Running /\ desk.hour < 2
Ended == desk.hour >= 2
MayDispute == desk.hour >= 3

When(shown, controls) == IF shown THEN controls ELSE {}

-----------------------------------------------------------------------------
(* The organizer's pages; a MEMBER of the organization does not get them *)

\* The judging section of the event page.
JudgingSection ==
    When(desk.status \in Running /\ Ended, {"openJudging"})

\* In every status.
CoverUploader == {"uploadCover"} \cup When(desk.covered, {"removeCover"})

\* Reached from the event page of a draft.
EditPage == When(desk.status = "DRAFT", {"editDraft"})

EventPage ==
    When(desk.status = "DRAFT", {"publish"}) \cup EditPage \cup CoverUploader
    \cup When(desk.status \in {"DRAFT", "PENDING_DEPOSIT"}, {"cancel"})
    \cup When(desk.status \in Running \cup {"JUDGING"}, JudgingSection)

MutantSubmittable == {"NONE"}
Submittable == {"NONE", "FAILED"}

VerificationPage == When(desk.kyb \in Submittable /\ desk.profiled, {"submitKyb"})

InviteCodeManager == {"inviteMember"}

OrganizerPage    == {"saveProfile"} \cup InviteCodeManager
OrganizationPage == InviteCodeManager

VaultPage == When(desk.status = "PENDING_DEPOSIT" /\ desk.kyb = "VERIFIED", {"fund"})

JudgesManager == {"inviteJudge"} \cup When(desk.judge \in {"INVITED", "ACTIVE"}, {"removeJudge"})
JudgesPage    == JudgesManager

RubricEditor(locked) == When(~locked, {"saveRubric"})
RubricPage           == RubricEditor(desk.status \in {"JUDGING"} \cup Announced)

\* The announcer waits for a team on every place and for their recipients.
WinnersAnnouncer ==
    When((IF desk.submitted THEN 1 ELSE 0) >= desk.places /\ desk.recipient, {"announce"})

WinnersPage ==
    When(desk.instant = "none" /\ desk.status = "JUDGING", WinnersAnnouncer)
    \cup When(desk.instant # "none" /\ ~desk.confirmed, {"confirmMilestone"})

-----------------------------------------------------------------------------
(* The team leader's pages *)

RegistrationAction == When(~desk.registered /\ RegistrationIsOpen, {"register"})

\* Only what is funded and not cancelled is public.
HackathonPage ==
    When(desk.vault \notin {"none", "AWAITING"} /\ desk.status # "CANCELLED", RegistrationAction)

DashboardPage == When(desk.registered /\ RegistrationIsOpen, {"unregister"})

TeamPanel == When(RegistrationIsOpen, {"toggleLock", "disband"})
TeamForms == When(RegistrationIsOpen, {"createTeam"})
SubmissionForm == When(WindowIsOpen, {"submit"})

WorkspacePage ==
    When(desk.registered,
         IF desk.team = "none" THEN TeamForms ELSE TeamPanel \cup SubmissionForm)

PayoutMethodForm == {"saveRecipient"}
SettingsPage     == PayoutMethodForm

DisputeForm == {"openDispute"}

WinningsPage ==
    When(desk.instant # "none" /\ desk.milestone = "none" /\ MayDispute, DisputeForm)

-----------------------------------------------------------------------------
(* The judge's pages *)

JudgePage == When(desk.judge = "INVITED", {"acceptSeat", "declineSeat"})

ScoringScreen ==
    When(~desk.final /\ desk.status = "JUDGING",
         {"score", "addPoint", "finalize"} \cup When(desk.points, {"removePoint"}))

\* The queue lists the teams that have submitted, in every status.
TeamPage           == When(desk.judge = "ACTIVE" /\ desk.submitted, ScoringScreen)
JudgeHackathonPage == When(desk.judge = "ACTIVE" /\ desk.submitted, TeamPage)

EndorseWinnersForm == When(~desk.endorsed, {"endorse"})
EndorsePage == When(desk.judge = "ACTIVE" /\ desk.instant # "none", EndorseWinnersForm)

-----------------------------------------------------------------------------
(* The administrator's pages *)

AdminKyb == When(desk.kyb \in {"PENDING", "FAILED"}, {"approveKyb", "rejectKyb"})
AdminHackathons == When(desk.status \in AdminCancellable, {"adminCancel"})
PayoutOpsActions == {"retry", "markPaid"}
AdminPayments == When({desk.instant, desk.milestone} \cap Unpaid # {}, PayoutOpsActions)

\* There is no button for the refund that resolveDispute knows.
DisputeResolutionForm == {"release", "reject"}
AdminDisputes == When(desk.dispute = "OPEN", DisputeResolutionForm)

Offered ==
    EventPage \cup VerificationPage \cup OrganizerPage \cup OrganizationPage \cup VaultPage
    \cup JudgesPage \cup RubricPage \cup WinnersPage \cup HackathonPage \cup DashboardPage
    \cup WorkspacePage \cup SettingsPage \cup WinningsPage \cup JudgePage
    \cup JudgeHackathonPage \cup EndorsePage
    \cup AdminKyb \cup AdminHackathons \cup AdminPayments \cup AdminDisputes

-----------------------------------------------------------------------------
(* What the handlers accept, and what they do: the rows that a request may *)
(* leave, none when it is refused                                          *)

\* Once the last tranche is paid, the hackathon is settled.
Settled(row) ==
    IF row.status = "WINNERS_ANNOUNCED" /\ {row.instant, row.milestone} = {"SUCCEEDED"}
    THEN [row EXCEPT !.status = "SETTLED"] ELSE row

Tranches == {"INSTANT", "MILESTONE"}
TrancheOf(t) == IF t = "INSTANT" THEN desk.instant ELSE desk.milestone
Paying(t, outcome) ==
    Settled(IF t = "INSTANT" THEN [desk EXCEPT !.instant = outcome]
            ELSE [desk EXCEPT !.milestone = outcome])
SomeUnpaid(outcome) == {Paying(t, outcome) : t \in {u \in Tranches : TrancheOf(u) \in Unpaid}}

DecideFunding(c) ==
    CASE c = "publish" -> When(desk.status = "DRAFT", {[desk EXCEPT !.status = "PENDING_DEPOSIT"]})
      [] c = "cancel" ->
           When(desk.status \in {"DRAFT", "PENDING_DEPOSIT"} /\ desk.vault = "none",
                {[desk EXCEPT !.status = "CANCELLED", !.registered = FALSE]})
      [] c = "saveProfile" -> {[desk EXCEPT !.profiled = TRUE]}
      [] c = "submitKyb" ->
           When(desk.kyb \in Submittable /\ desk.profiled, {[desk EXCEPT !.kyb = "PENDING"]})
      [] c = "approveKyb" -> When(desk.kyb = "PENDING", {[desk EXCEPT !.kyb = "VERIFIED"]})
      [] c = "rejectKyb" -> When(desk.kyb = "PENDING", {[desk EXCEPT !.kyb = "FAILED"]})
      [] c = "fund" ->
           When(desk.status = "PENDING_DEPOSIT" /\ desk.kyb = "VERIFIED",
                {[desk EXCEPT !.checkout = TRUE, !.vault = "AWAITING"]})
      [] c = "editDraft" -> When(desk.status = "DRAFT", {desk})
      [] c = "uploadCover" -> {[desk EXCEPT !.covered = TRUE]}
      [] c = "removeCover" -> When(desk.covered, {[desk EXCEPT !.covered = FALSE]})
      [] c = "inviteMember" -> {desk}
      [] c = "adminCancel" ->
           When(desk.status \in AdminCancellable,
                {[desk EXCEPT !.status = "CANCELLED",
                              !.vault = IF @ = "LOCKED" THEN "REFUNDED" ELSE @]})
      [] OTHER -> {}

DecideTeam(c) ==
    CASE c = "register" -> When(RegistrationIsOpen, {[desk EXCEPT !.registered = TRUE]})
      [] c = "unregister" ->
           When(desk.registered /\ RegistrationIsOpen /\ desk.team = "none",
                {[desk EXCEPT !.registered = FALSE]})
      [] c = "createTeam" ->
           When(desk.registered /\ RegistrationIsOpen /\ desk.team = "none",
                {[desk EXCEPT !.team = "OPEN"]})
      [] c = "toggleLock" ->
           When(desk.team # "none",
                {[desk EXCEPT !.team = IF @ = "OPEN" THEN "LOCKED" ELSE "OPEN"]})
      [] c = "disband" ->
           When(desk.team # "none" /\ ~desk.submitted, {[desk EXCEPT !.team = "none"]})
      [] c = "submit" ->
           When(desk.team # "none" /\ WindowIsOpen, {[desk EXCEPT !.submitted = TRUE]})
      [] c = "saveRecipient" -> {[desk EXCEPT !.recipient = TRUE]}
      [] OTHER -> {}

\* No handler of the review asks whether the team has submitted.
ReviewIsOpen ==
    desk.team # "none" /\ desk.status = "JUDGING" /\ desk.judge = "ACTIVE" /\ ~desk.final

DecideReview(c) ==
    CASE c = "inviteJudge" -> {[desk EXCEPT !.judge = "INVITED"]}
      [] c = "removeJudge" -> When(desk.judge # "none", {[desk EXCEPT !.judge = "DECLINED"]})
      [] c = "acceptSeat" -> When(desk.judge # "none", {[desk EXCEPT !.judge = "ACTIVE"]})
      [] c = "declineSeat" -> When(desk.judge # "none", {[desk EXCEPT !.judge = "DECLINED"]})
      [] c = "saveRubric" -> When(desk.status \notin {"JUDGING"} \cup Announced, {desk})
      [] c = "openJudging" ->
           When(desk.status \in Running /\ Ended, {[desk EXCEPT !.status = "JUDGING"]})
      [] c = "score" -> When(ReviewIsOpen, {[desk EXCEPT !.scored = TRUE]})
      [] c = "addPoint" -> When(ReviewIsOpen, {[desk EXCEPT !.points = TRUE]})
      [] c = "removePoint" -> When(desk.points /\ ~desk.final, {[desk EXCEPT !.points = FALSE]})
      [] c = "finalize" ->
           When(ReviewIsOpen /\ desk.scored /\ desk.points, {[desk EXCEPT !.final = TRUE]})
      [] OTHER -> {}

DecidePayout(c) ==
    CASE c = "announce" ->
           When(/\ desk.status = "JUDGING" /\ desk.judge = "ACTIVE" /\ desk.final
                /\ desk.submitted /\ desk.places = 1 /\ desk.recipient,
                {[desk EXCEPT !.status = "WINNERS_ANNOUNCED", !.instant = "QUEUED"]})
      [] c = "confirmMilestone" ->
           When(desk.instant = "SUCCEEDED" /\ ~desk.confirmed /\ desk.milestone = "none",
                {[desk EXCEPT !.confirmed = TRUE, !.milestone = "QUEUED"]})
      [] c = "retry" -> SomeUnpaid("QUEUED")
      [] c = "markPaid" -> SomeUnpaid("SUCCEEDED")
      [] c = "openDispute" ->
           When(/\ desk.instant # "none" /\ ~desk.confirmed /\ MayDispute
                /\ desk.dispute # "OPEN",
                {[desk EXCEPT !.dispute = "OPEN"]})
      [] c = "release" ->
           When(desk.dispute = "OPEN",
                {[desk EXCEPT !.dispute = "RESOLVED_RELEASE", !.confirmed = TRUE,
                              !.milestone = IF @ = "none" THEN "QUEUED" ELSE @]})
      [] c = "reject" -> When(desk.dispute = "OPEN", {[desk EXCEPT !.dispute = "REJECTED"]})
      [] c = "endorse" ->
           When(desk.judge = "ACTIVE" /\ desk.instant # "none" /\ ~desk.endorsed,
                {[desk EXCEPT !.endorsed = TRUE]})
      [] OTHER -> {}

Outcomes(c) == DecideFunding(c) \cup DecideTeam(c) \cup DecideReview(c) \cup DecidePayout(c)
Accepts(c)  == Outcomes(c) # {}
Handler(c)  == desk' \in Outcomes(c)

-----------------------------------------------------------------------------
DesksInit ==
    \E n \in Places :
        desk = [status |-> "DRAFT", kyb |-> "NONE", profiled |-> FALSE,
                covered |-> FALSE, hour |-> 0, places |-> n,
             vault |-> "none", checkout |-> FALSE, registered |-> FALSE, team |-> "none",
             submitted |-> FALSE, judge |-> "none", scored |-> FALSE, points |-> FALSE,
             final |-> FALSE, recipient |-> FALSE, instant |-> "none", milestone |-> "none",
             confirmed |-> FALSE, dispute |-> "none", endorsed |-> FALSE]

Hours == desk.hour < 3 /\ desk' = [desk EXCEPT !.hour = @ + 1]

StartsByCron ==
    desk.status = "LIVE" /\ desk.hour >= 1 /\ desk' = [desk EXCEPT !.status = "IN_PROGRESS"]

\* The charge of an open checkout locks the vault, whatever the event became.
Charged ==
    /\ desk.checkout
    /\ desk' = [desk EXCEPT !.checkout = FALSE, !.vault = "LOCKED", !.status = "LIVE"]

CheckoutExpires == desk.checkout /\ desk' = [desk EXCEPT !.checkout = FALSE]

\* The worker and the provider: a queued payout is paid, or parked after its
\* last attempt; a paid one may be clawed back.
Transferred == \E t \in Tranches :
    \/ TrancheOf(t) = "QUEUED" /\ \E o \in {"SUCCEEDED", "MANUAL_REVIEW"} : desk' = Paying(t, o)
    \/ TrancheOf(t) = "SUCCEEDED" /\ desk.status # "SETTLED" /\ desk' = Paying(t, "REVERSED")

DesksNext ==
    \/ \E c \in Controls : Handler(c)
    \/ Hours \/ StartsByCron \/ Charged \/ CheckoutExpires \/ Transferred

DesksSpec == DesksInit /\ [][DesksNext]_deskVars

-----------------------------------------------------------------------------
Columns ==
    {"status", "kyb", "profiled", "covered", "hour", "places", "vault", "checkout", "registered",
     "team", "submitted", "judge", "scored", "points", "final", "recipient", "instant",
     "milestone", "confirmed", "dispute", "endorsed"}

\* What the pages and the handlers, which read different rows, rely on to agree: an
\* entry is a team's, a checkout is open before the event runs or after it was
\* cancelled, payouts are made by the announcement, and the milestone's with its
\* confirmation.
RowsAgree ==
    /\ DOMAIN desk = Columns
    /\ desk.places \in Places
    /\ desk.kyb \in {"NONE", "PENDING", "VERIFIED", "FAILED"}
    /\ desk.judge \in {"none", "INVITED", "ACTIVE", "DECLINED"}
    /\ desk.submitted => desk.team # "none"
    /\ desk.checkout => desk.status \in {"PENDING_DEPOSIT", "CANCELLED"}
    /\ desk.instant # "none" => desk.status \in Announced
    /\ desk.milestone # "none" => desk.confirmed

\* What has to be done next, when it is not time, a cron or the provider that
\* the hackathon waits for.
WantedToFund ==
    CASE desk.kyb = "VERIFIED" -> {"fund"}
      [] desk.kyb = "PENDING"  -> {"approveKyb"}
      [] OTHER                 -> {IF desk.profiled THEN "submitKyb" ELSE "saveProfile"}

WantedOfJudge == {IF ~desk.scored THEN "score" ELSE IF ~desk.points THEN "addPoint" ELSE "finalize"}

WantedToAnnounce ==
    IF ~desk.submitted \/ desk.places > 1 THEN {"adminCancel"}
    ELSE CASE desk.judge \in {"none", "DECLINED"} -> {"inviteJudge"}
           [] desk.judge = "INVITED" -> {"acceptSeat"}
           [] desk.judge = "ACTIVE" /\ ~desk.final -> WantedOfJudge
           [] OTHER -> {IF desk.recipient THEN "announce" ELSE "saveRecipient"}

WantedToSettle ==
    When(desk.instant = "SUCCEEDED" /\ ~desk.confirmed, {"confirmMilestone"})
    \cup When({desk.instant, desk.milestone} \cap {"MANUAL_REVIEW", "REVERSED"} # {}, {"markPaid"})

Wanted ==
    When(desk.status = "DRAFT", {"publish"})
    \cup When(desk.status = "PENDING_DEPOSIT", WantedToFund)
    \cup When(desk.status \in Running /\ Ended, {"openJudging"})
    \cup When(desk.status = "JUDGING", WantedToAnnounce)
    \cup When(desk.status = "WINNERS_ANNOUNCED", WantedToSettle)

\* The refusals that the pages leave to the server: a cancellation beside a
\* vault, a team with an entry or a registration with a team, the gates of the
\* review and of the announcement, a milestone before its first half, a
\* dispute that is open or settled, a decision on an organization whose
\* details are not in review.
LeftToTheServer ==
    {"cancel", "disband", "unregister", "finalize", "announce", "confirmMilestone",
     "openDispute", "approveKyb", "rejectKyb"}

LeadsOn ==
    /\ \A c \in Wanted : c \in Offered /\ Accepts(c)
    /\ \A c \in Offered \ LeftToTheServer : Accepts(c)
=============================================================================
