------------------------------- MODULE Drafts -------------------------------
(***************************************************************************)
(* The hackathons of one organization until they are funded: the wizard,   *)
(* publishing, and the cover image (lib/events).  A request is its checks, *)
(* on one reading of the database, and its write.                          *)
(*                                                                         *)
(* What a wizard submits is a plan: the prize of each place, and the three *)
(* dates.  An event is known by its slug, a candidate made from its title. *)
(***************************************************************************)
EXTENDS Integers, FiniteSets, FiniteSetsExt, Folds

CONSTANTS
    Editors,       \* users, of whom some administer the organization
    Plans,         \* what a wizard may send
    Slugs,         \* slug candidates of one title, in order
    MinPool,       \* MIN_PRIZE_POOL_KES
    MinPrize,      \* the least amount of one prize
    MaxPrizes,     \* prizes of one hackathon (10 in the code)
    MediaHours,    \* hours after the end that media are due
    Uploads,       \* storage keys that can be issued
    Editings       \* how many requests may be under way at once

ASSUME DraftsAssumption ==
    /\ Slugs \subseteq Nat \ {0} /\ {MinPool, MinPrize, MaxPrizes, MediaHours} \subseteq Nat
    /\ Editings \subseteq Nat \ {0}

VARIABLES
    canEdit,     \* editors with an ACTIVE OWNER or ADMIN membership
    draft,       \* Event and PrizeBreakdown rows by slug
    uploads,     \* storage keys: the event each was issued for, and if it landed
    edit,        \* the request each editor has under way
    editing      \* bound on the requests under way

draftsVars == <<canEdit, draft, uploads, edit, editing>>

NoEdit  == [op |-> "none"]
NoPlan  == [prizes |-> {}, deadline |-> 0, starts |-> 0, ends |-> 0]
NoEvent == [status |-> "none", plan |-> NoPlan, mediaDue |-> 0, cover |-> 0, promised |-> 0]
NoKey   == [event |-> 0, landed |-> FALSE]

DraftsInit ==
    /\ canEdit \in SUBSET Editors
    /\ draft = [s \in Slugs |-> NoEvent]
    /\ uploads = [k \in Uploads |-> NoKey]
    /\ edit = [u \in Editors |-> NoEdit]
    /\ editing \in Editings

-----------------------------------------------------------------------------
(* The rules of lib/events/validation.ts and lifecycle.ts *)

\* A prize is <<place, amount, copy>>: the form may send the same place twice.
PlacesAreUnique(prizes) == \A p, q \in prizes : p[1] = q[1] => p = q

Pool(prizes) == MapThenFoldSet(+, 0, LAMBDA p : p[2], LAMBDA S : CHOOSE p \in S : TRUE, prizes)

\* Registration closes before the start, and the start lies before the end.
InOrder(plan) == plan.deadline < plan.starts /\ plan.starts < plan.ends

WizardAccepts(plan) ==
    /\ Cardinality(plan.prizes) \in 1 .. MaxPrizes
    /\ \A p \in plan.prizes : p[1] >= 1 /\ p[2] >= MinPrize
    /\ InOrder(plan)
    /\ PlacesAreUnique(plan.prizes)

CanPublishDraft(plan) == plan.prizes # {} /\ Pool(plan.prizes) >= MinPool /\ InOrder(plan)

MediaDeadlineFor(ends) == ends + MediaHours

-----------------------------------------------------------------------------
Exists(s) == draft[s].status # "none"

Opens(u, r) ==
    /\ u \in canEdit
    /\ edit[u] = NoEdit
    /\ Cardinality({v \in Editors : edit[v] # NoEdit}) < editing
    /\ edit' = [edit EXCEPT ![u] = r]
    /\ UNCHANGED <<canEdit, draft, uploads, editing>>

Editing(u, op) == edit[u].op = op

Closes(u) == edit' = [edit EXCEPT ![u] = NoEdit] /\ UNCHANGED <<canEdit, uploads, editing>>

CreateDraft(u, plan) ==
    /\ WizardAccepts(plan)
    /\ \E s \in Slugs : ~Exists(s)
    /\ Opens(u, [op |-> "create", plan |-> plan, slug |-> Min({s \in Slugs : ~Exists(s)})])

\* The unique slug: a second creation of the same title throws.
CreateDraftWrite(u) ==
    /\ Editing(u, "create")
    /\ draft' = IF Exists(edit[u].slug) THEN draft
                ELSE [draft EXCEPT ![edit[u].slug] =
                        [NoEvent EXCEPT !.status = "DRAFT", !.plan = edit[u].plan]]
    /\ Closes(u)

MutantEditable(s) == draft[s].status \in {"DRAFT", "PENDING_DEPOSIT"}
Editable(s)       == draft[s].status = "DRAFT"

EditDraft(u, s, plan) ==
    /\ WizardAccepts(plan)
    /\ Editable(s)
    /\ Opens(u, [op |-> "edit", plan |-> plan, slug |-> s])

\* The transaction that replaces the prizes does not look at the status again.
EditDraftWrite(u) ==
    /\ Editing(u, "edit")
    /\ draft' = [draft EXCEPT ![edit[u].slug].plan = edit[u].plan]
    /\ Closes(u)

PublishEvent(u, s) ==
    /\ Editable(s)
    /\ CanPublishDraft(draft[s].plan)
    /\ Opens(u, [op |-> "publish", slug |-> s, due |-> MediaDeadlineFor(draft[s].plan.ends)])

PublishEventWrite(u) ==
    /\ Editing(u, "publish")
    /\ draft' = [draft EXCEPT ![edit[u].slug].status = "PENDING_DEPOSIT",
                              ![edit[u].slug].mediaDue = edit[u].due]
    /\ Closes(u)

\* The cancellation by the organizer, whose update is on the status and
\* without a vault.
CancelEvent(u, s) ==
    /\ u \in canEdit /\ edit[u] = NoEdit
    /\ draft[s].status \in {"DRAFT", "PENDING_DEPOSIT"} /\ draft[s].promised = 0
    /\ draft' = [draft EXCEPT ![s].status = "CANCELLED"]
    /\ UNCHANGED <<canEdit, uploads, edit, editing>>

\* initiateDeposit of a verified organization: the vault's amount is the pool of
\* that moment, and the vault is created once.
PromisePool(u, s) ==
    /\ draft[s].status = "PENDING_DEPOSIT"
    /\ Opens(u, [op |-> "promise", slug |-> s,
                 pool |-> IF draft[s].promised = 0 THEN Pool(draft[s].plan.prizes) ELSE 0])

PromisePoolWrite(u) ==
    /\ Editing(u, "promise")
    /\ draft' = [draft EXCEPT ![edit[u].slug].promised = IF @ = 0 THEN edit[u].pool ELSE @]
    /\ Closes(u)

-----------------------------------------------------------------------------
(* The cover *)

\* A fresh key that carries the event, and the browser's upload to it.
IssueCoverUpload(u, s, k) ==
    /\ u \in canEdit /\ Exists(s) /\ edit[u] = NoEdit
    /\ uploads[k] = NoKey
    /\ uploads' = [uploads EXCEPT ![k].event = s]
    /\ UNCHANGED <<canEdit, draft, edit, editing>>

CoverLands(k) ==
    /\ uploads[k].event # 0 /\ ~uploads[k].landed
    /\ uploads' = [uploads EXCEPT ![k].landed = TRUE]
    /\ UNCHANGED <<canEdit, draft, edit, editing>>

SetCover(u, s, k) ==
    /\ u \in canEdit /\ Exists(s) /\ edit[u] = NoEdit
    /\ uploads[k].event = s /\ uploads[k].landed
    /\ draft' = [draft EXCEPT ![s].cover = k]
    /\ UNCHANGED <<canEdit, uploads, edit, editing>>

RemoveCover(u, s) ==
    /\ u \in canEdit /\ Exists(s) /\ edit[u] = NoEdit
    /\ draft[s].cover # 0
    /\ draft' = [draft EXCEPT ![s].cover = 0]
    /\ UNCHANGED <<canEdit, uploads, edit, editing>>

-----------------------------------------------------------------------------
Wizard(u) ==
    \/ \E plan \in Plans : CreateDraft(u, plan) \/ \E s \in Slugs : EditDraft(u, s, plan)
    \/ CreateDraftWrite(u) \/ EditDraftWrite(u)

Lifecycle(u, s) == PublishEvent(u, s) \/ CancelEvent(u, s) \/ PromisePool(u, s)

Cover(u, s) ==
    \/ \E k \in Uploads : IssueCoverUpload(u, s, k) \/ SetCover(u, s, k)
    \/ RemoveCover(u, s)

DraftsNext ==
    \/ \E u \in Editors :
         \/ Wizard(u) \/ PublishEventWrite(u) \/ PromisePoolWrite(u)
         \/ \E s \in Slugs : Lifecycle(u, s) \/ Cover(u, s)
    \/ \E k \in Uploads : CoverLands(k)

DraftsSpec == DraftsInit /\ [][DraftsNext]_draftsVars

-----------------------------------------------------------------------------
(* Properties *)

\* Every variable has its type.
DraftsTypeOK ==
    /\ canEdit \subseteq Editors
    /\ \A s \in Slugs :
         /\ draft[s].status \in {"none", "DRAFT", "PENDING_DEPOSIT", "CANCELLED"}
         /\ draft[s].plan \in Plans \cup {NoPlan} /\ draft[s].cover \in Uploads \cup {0}
         /\ draft[s].promised \in Nat
    /\ \A k \in Uploads : uploads[k].event \in Slugs \cup {0} /\ uploads[k].landed \in BOOLEAN

Published(s) == draft[s].status = "PENDING_DEPOSIT"

\* Once a hackathon is published its prizes are those that were published: the
\* vault is promised their sum, and the media are due as many hours after its end.
PublishedIsLocked ==
    \A s \in Slugs : Published(s) =>
        /\ draft[s].promised \in {0, Pool(draft[s].plan.prizes)}
        /\ draft[s].mediaDue = MediaDeadlineFor(draft[s].plan.ends)

\* When requests are served one at a time that is so, and what was published met
\* the rules for publishing.
PublishedIsSound ==
    editing = 1 => PublishedIsLocked /\ \A s \in Slugs : Published(s) =>
        /\ Pool(draft[s].plan.prizes) >= MinPool
        /\ InOrder(draft[s].plan) /\ PlacesAreUnique(draft[s].plan.prizes)
=============================================================================
