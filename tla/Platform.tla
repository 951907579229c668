------------------------------ MODULE Platform ------------------------------
(***************************************************************************)
(* The parts of the application around the money, side by side: the        *)
(* competition itself, organizations, accounts, the rate limiter, mail,    *)
(* the event wizard, the public directory and the demo database.  They     *)
(* meet in the person who makes the requests and in memberships that only  *)
(* ever grow, so a behaviour follows one of them while the others stand    *)
(* still.                                                                  *)
(***************************************************************************)
EXTENDS Competition, Organizations, Accounts, RateLimit, Outreach, Drafts,
        Directory, Seeds, Desks, Wizard

VARIABLE part    \* the part that the behaviour follows

competitionVars == <<teamsVars, judgingVars, half>>

platformVars ==
    <<competitionVars, orgVars, accountVars, rateVars, outreachVars, draftsVars, directoryVars,
      seedVars, deskVars, wizardVars, part>>

Parts == {"competition", "organizations", "accounts", "rates", "announcements",
          "newsletter", "drafts", "directory", "seeds", "desks", "wizard"}

\* A part that stands still has one initial state.
PlatformInit ==
    /\ part \in Parts
    /\ OrgInit /\ (part # "organizations" => \A n \in Paces : pace <= n)
    /\ (part # "organizations" => orgName = [a \in Addresses |-> CHOOSE n \in Names : TRUE])
    /\ AccountsInit /\ (part # "accounts" => ~admin)
    /\ RateInit /\ OutreachInit
    /\ DraftsInit /\ (part # "drafts" => canEdit = {} /\ \A n \in Editings : editing <= n)
    /\ DirectoryInit /\ (part # "directory" => cached = {})
    /\ SeedsInit /\ (part # "seeds" => worked = "blue") /\ WizardInit
    /\ DesksInit /\ (part # "desks" => \A n \in Places : desk.places <= n)
    /\ Init /\ (part # "competition" =>
                  half = "forming" /\ \A c \in Crowds : crowd.width <= c.width)

PlatformNext ==
    /\ part' = part
    /\ \/ /\ part = "competition" /\ Next
          /\ UNCHANGED <<orgVars, accountVars, rateVars, outreachVars,
                         draftsVars, directoryVars, seedVars, deskVars,
                         wizardVars>>
       \/ /\ part = "organizations" /\ OrgNext
          /\ UNCHANGED <<competitionVars, accountVars, rateVars, outreachVars,
                         draftsVars, directoryVars, seedVars, deskVars,
                         wizardVars>>
       \/ /\ part = "accounts" /\ AccountsNext
          /\ UNCHANGED <<competitionVars, orgVars, rateVars, outreachVars,
                         draftsVars, directoryVars, seedVars, deskVars,
                         wizardVars>>
       \/ /\ part = "rates" /\ RateNext
          /\ UNCHANGED <<competitionVars, orgVars, accountVars, outreachVars,
                         draftsVars, directoryVars, seedVars, deskVars,
                         wizardVars>>
       \/ /\ \/ part = "announcements" /\ Announcing
             \/ part = "newsletter" /\ Newsletter
          /\ UNCHANGED <<competitionVars, orgVars, accountVars, rateVars,
                         draftsVars, directoryVars, seedVars, deskVars,
                         wizardVars>>
       \/ /\ part = "drafts" /\ DraftsNext
          /\ UNCHANGED <<competitionVars, orgVars, accountVars, rateVars,
                         outreachVars, directoryVars, seedVars, deskVars,
                         wizardVars>>
       \/ /\ part = "directory" /\ DirectoryNext
          /\ UNCHANGED <<competitionVars, orgVars, accountVars, rateVars,
                         outreachVars, draftsVars, seedVars, deskVars, wizardVars>>
       \/ /\ part = "seeds" /\ SeedsNext
          /\ UNCHANGED <<competitionVars, orgVars, accountVars, rateVars,
                         outreachVars, draftsVars, directoryVars, deskVars, wizardVars>>
       \/ /\ part = "desks" /\ DesksNext
          /\ UNCHANGED <<competitionVars, orgVars, accountVars, rateVars, outreachVars,
                         draftsVars, directoryVars, seedVars, wizardVars>>
       \/ /\ part = "wizard" /\ WizardNext
          /\ UNCHANGED <<competitionVars, orgVars, accountVars, rateVars, outreachVars,
                         draftsVars, directoryVars, seedVars, deskVars>>

PlatformSpec == PlatformInit /\ [][PlatformNext]_platformVars

-----------------------------------------------------------------------------
\* Wherever a hackathon stands, the step that takes it on is on a page of the
\* person whose step it is and the handler accepts it, so no hackathon is
\* stranded with nobody able to move it; and what a page offers beyond
\* LeftToTheServer, a handler that decides anew accepts.
PagesLeadOn == part = "desks" => LeadsOn
=============================================================================
