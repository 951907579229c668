---------------------------- MODULE ProofOfWork -----------------------------
(***************************************************************************)
(* What happens to the winners after the announcement's transaction: the   *)
(* jobs, the portfolio and the check-ins that the same request still has   *)
(* to write (announceWinners, services/payout/service.ts), the judges'     *)
(* endorsements, the hiring partners' introductions and the numbers of the *)
(* public profile (services/pow/service.ts).                               *)
(*                                                                         *)
(* Every check is a read of its own before the write; what a second writer *)
(* cannot do is what a unique key of the database refuses.                 *)
(***************************************************************************)
EXTENDS Integers, FiniteSets

CONSTANTS
    Winners,        \* winners of one event; each leads a team
    Profiles,       \* model bound: winners whose profile is followed
    Jury,           \* judges of the event
    Partners        \* people who may become hiring partners

ASSUME PowAssumption == Profiles \subseteq Winners

VARIABLES
    announcing,   \* where the announcing request is
    toDrive,      \* winners whose payout it has still to enqueue
    driving,      \* the winner whose portfolio item it writes next
    submitted,    \* winners whose team has a submission
    portfolio,    \* winners with a portfolio item
    scheduled,    \* the check-ins of the event exist
    juror,        \* judges whose assignment is ACTIVE
    endorsing,    \* endorsements checked and not yet written
    endorsed,     \* Endorsement.visibility of each judge and winner, or "none"
    hiring,       \* users with the HIRING grant
    intro,        \* Introduction.status of each partner and winner, or "none"
    asking,       \* introductions checked and not yet written
    answering,    \* answers of a winner checked and not yet written
    exchanged     \* introductions whose contacts were mailed

powVars == <<announcing, toDrive, driving, submitted, portfolio, scheduled, juror, endorsing,
             endorsed, hiring, intro, asking, answering, exchanged>>
announceVars == <<announcing, toDrive, driving, submitted, portfolio, scheduled>>
endorseVars  == <<juror, endorsing, endorsed>>
introVars    == <<hiring, intro, asking, answering, exchanged>>

Nobody == {}

PowInit ==
    /\ announcing = "idle" /\ toDrive = {} /\ driving = Nobody
    /\ submitted \in SUBSET Winners /\ portfolio = {} /\ scheduled = FALSE
    /\ juror = Jury
    /\ endorsing = {}
    /\ endorsed = [p \in Jury \X Profiles |-> "none"]
    /\ hiring = {}
    /\ intro = [p \in Partners \X Profiles |-> "none"]
    /\ asking = {} /\ answering = {} /\ exchanged = {}

Announced == announcing # "idle"

-----------------------------------------------------------------------------
(* announceWinners after its transaction *)

Announce ==
    /\ announcing = "idle"
    /\ announcing' = "driving" /\ toDrive' = Winners
    /\ UNCHANGED <<driving, submitted, portfolio, scheduled, endorseVars, introVars>>

\* A failing enqueue is swallowed: the sweep finds the payout.
DrivePayout(w) ==
    /\ announcing = "driving" /\ driving = Nobody
    /\ w \in toDrive
    /\ toDrive' = toDrive \ {w} /\ driving' = {w}
    /\ UNCHANGED <<announcing, submitted, portfolio, scheduled, endorseVars, introVars>>

MutantMaterializePortfolio(w) ==
    /\ announcing = "driving" /\ driving = {w}
    /\ portfolio' = IF portfolio = {} THEN {w} \cap submitted ELSE portfolio
    /\ driving' = Nobody
    /\ UNCHANGED <<announcing, toDrive, submitted, scheduled, endorseVars, introVars>>

MaterializePortfolio(w) ==
    /\ announcing = "driving" /\ driving = {w}
    /\ portfolio' = portfolio \cup ({w} \cap submitted)
    /\ driving' = Nobody
    /\ UNCHANGED <<announcing, toDrive, submitted, scheduled, endorseVars, introVars>>

ScheduleLegacy ==
    /\ announcing = "driving" /\ driving = Nobody /\ toDrive = {}
    /\ scheduled' = TRUE
    /\ announcing' = "done"
    /\ UNCHANGED <<toDrive, driving, submitted, portfolio, endorseVars, introVars>>

\* A crash, or a read or write that fails: the event is announced and nothing comes back here.
AnnounceDies ==
    /\ announcing = "driving"
    /\ announcing' = "dead" /\ toDrive' = {} /\ driving' = Nobody
    /\ UNCHANGED <<submitted, portfolio, scheduled, endorseVars, introVars>>

-----------------------------------------------------------------------------
(* createEndorsement, setEndorsementVisibility *)

Endorsable(j, w) == Announced /\ j \in juror /\ endorsed[<<j, w>>] = "none"

Endorse(j, w) ==
    /\ Endorsable(j, w)
    /\ <<j, w>> \notin endorsing
    /\ endorsing' = endorsing \cup {<<j, w>>}
    /\ UNCHANGED <<announceVars, introVars, juror, endorsed>>

\* Published; the key <judge, developer, event> is unique.
WriteEndorsement(p) ==
    /\ p \in endorsing
    /\ endorsing' = endorsing \ {p}
    /\ endorsed' = IF endorsed[p] = "none" THEN [endorsed EXCEPT ![p] = "PUBLISHED"] ELSE endorsed
    /\ UNCHANGED <<announceVars, introVars, juror>>

SetEndorsementVisibility(p, visible) ==
    /\ endorsed[p] # "none"
    /\ endorsed' = [endorsed EXCEPT ![p] = IF visible THEN "PUBLISHED" ELSE "HIDDEN"]
    /\ UNCHANGED <<announceVars, introVars, juror, endorsing>>

\* removeJudge, from the judging module.
RemoveJuror(j) ==
    /\ j \in juror
    /\ juror' = juror \ {j}
    /\ UNCHANGED <<announceVars, introVars, endorsing, endorsed>>

-----------------------------------------------------------------------------
(* becomeHiringPartner, requestIntroduction, respondToIntroduction *)

BecomeHiringPartner(u) ==
    /\ u \notin hiring
    /\ hiring' = hiring \cup {u}
    /\ UNCHANGED <<announceVars, endorseVars, intro, asking, answering, exchanged>>

Introducible(u, w) == u \in hiring /\ Announced /\ intro[<<u, w>>] = "none"

RequestIntroduction(u, w) ==
    /\ Introducible(u, w)
    /\ <<u, w>> \notin asking
    /\ asking' = asking \cup {<<u, w>>}
    /\ UNCHANGED <<announceVars, endorseVars, hiring, intro, answering, exchanged>>

WriteIntroduction(p) ==
    /\ p \in asking
    /\ asking' = asking \ {p}
    /\ intro' = IF intro[p] = "none" THEN [intro EXCEPT ![p] = "REQUESTED"] ELSE intro
    /\ UNCHANGED <<announceVars, endorseVars, hiring, answering, exchanged>>

Answerable(p) == intro[p] = "REQUESTED"

\* Two windows of one winner may hold the two answers at once.
Respond(p, accept) ==
    /\ Answerable(p)
    /\ <<p, accept>> \notin answering
    /\ answering' = answering \cup {<<p, accept>>}
    /\ UNCHANGED <<announceVars, endorseVars, hiring, intro, asking, exchanged>>

\* Written by id, and the contacts mailed to both on acceptance.
WriteResponse(p, accept) ==
    /\ <<p, accept>> \in answering
    /\ answering' = answering \ {<<p, accept>>}
    /\ intro' = [intro EXCEPT ![p] = IF accept THEN "ACCEPTED" ELSE "DECLINED"]
    /\ exchanged' = IF accept THEN exchanged \cup {p} ELSE exchanged
    /\ UNCHANGED <<announceVars, endorseVars, hiring, asking>>

\* The contacts a winner's page lists.
AcceptedContacts(w) == {u \in Partners : intro[<<u, w>>] = "ACCEPTED"}

\* The numbers of the public profile that come from these rows.
PowMetrics(w) ==
    [wins |-> IF Announced THEN 1 ELSE 0,
     endorsementCount |-> Cardinality({j \in Jury : endorsed[<<j, w>>] = "PUBLISHED"}),
     portfolioCount |-> Cardinality({w} \cap portfolio)]

-----------------------------------------------------------------------------
AnnounceSteps == ScheduleLegacy \/ \E w \in Winners : DrivePayout(w) \/ MaterializePortfolio(w)

PowNext ==
    \/ Announce \/ AnnounceSteps \/ AnnounceDies
    \/ \E j \in Jury : RemoveJuror(j) \/ \E w \in Profiles : Endorse(j, w)
    \/ \E p \in Jury \X Profiles :
         WriteEndorsement(p) \/ \E visible \in BOOLEAN : SetEndorsementVisibility(p, visible)
    \/ \E u \in Partners : BecomeHiringPartner(u) \/ \E w \in Profiles : RequestIntroduction(u, w)
    \/ \E p \in Partners \X Profiles :
         \/ WriteIntroduction(p)
         \/ \E accept \in BOOLEAN : Respond(p, accept) \/ WriteResponse(p, accept)

\* The request goes on unless it dies.
PowFairness == WF_powVars(AnnounceSteps)

PowSpec == PowInit /\ [][PowNext]_powVars /\ PowFairness

-----------------------------------------------------------------------------
(* Properties *)

\* Every variable has its type.
PowTypeOK ==
    /\ announcing \in {"idle", "driving", "done", "dead"}
    /\ toDrive \subseteq Winners /\ driving \in SUBSET Winners /\ Cardinality(driving) <= 1
    /\ submitted \subseteq Winners /\ portfolio \subseteq submitted /\ scheduled \in BOOLEAN
    /\ juror \subseteq Jury /\ endorsing \subseteq Jury \X Profiles
    /\ endorsed \in [Jury \X Profiles -> {"none", "PUBLISHED", "HIDDEN"}]
    /\ hiring \subseteq Partners /\ asking \subseteq Partners \X Profiles
    /\ intro \in [Partners \X Profiles -> {"none", "REQUESTED", "ACCEPTED", "DECLINED"}]
    /\ answering \subseteq (Partners \X Profiles) \X BOOLEAN
    /\ exchanged \subseteq Partners \X Profiles

\* The request that announced the winners ends with a portfolio item for every
\* winning submission and the check-ins scheduled, unless it died on the way.
WinnersAreCredited ==
    announcing = "driving" ~> announcing = "dead" \/ (portfolio = submitted /\ scheduled)

\* Nobody's contacts are handed out without an acceptance, an acceptance hands
\* them out, and it stays one until the winner's other window answers too.
ContactsFollowAcceptance ==
    \A p \in Partners \X Profiles :
        /\ intro[p] = "ACCEPTED" => p \in exchanged
        /\ p \in exchanged => intro[p] \in {"ACCEPTED", "DECLINED"}

\* Contacts are mailed only for introductions that end up accepted.
ExchangedIsAccepted ==
    \A p \in exchanged : intro[p] = "ACCEPTED"
=============================================================================
