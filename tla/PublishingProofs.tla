--------------------------- MODULE PublishingProofs ---------------------------
(***************************************************************************)
(* What a hackathon's way to the public keeps, for any number of           *)
(* organizers, hackathons and plans.                                       *)
(***************************************************************************)
EXTENDS Drafts, Wizard, Directory, FiniteSetTheorems, TLAPS

-----------------------------------------------------------------------------
(* Drafts: what is published is sound when requests are served one at a time   *)

RowFields == {"status", "plan", "mediaDue", "cover", "promised"}

\* Every saved plan met the wizard's rules, a draft is promised nothing, and a
\* published row meets the rules for publishing.
RowIsSound(row) ==
    /\ row.status # "none" => InOrder(row.plan) /\ PlacesAreUnique(row.plan.prizes)
    /\ row.status = "DRAFT" => row.promised = 0
    /\ row.status = "PENDING_DEPOSIT" =>
         /\ row.promised \in {0, Pool(row.plan.prizes)}
         /\ row.mediaDue = MediaDeadlineFor(row.plan.ends)
         /\ Pool(row.plan.prizes) >= MinPool

\* What a request has checked still holds when it writes: nothing but a
\* cancellation can come in between.
EditIsSound(r, rows) ==
    /\ r.op \in {"create", "edit"} => InOrder(r.plan) /\ PlacesAreUnique(r.plan.prizes)
    /\ r.op \in {"edit", "publish"} =>
         /\ r.slug \in Slugs /\ rows[r.slug].status \in {"DRAFT", "CANCELLED"}
         /\ rows[r.slug].promised = 0
    /\ r.op = "publish" =>
         /\ Pool(rows[r.slug].plan.prizes) >= MinPool
         /\ r.due = MediaDeadlineFor(rows[r.slug].plan.ends)
    /\ r.op = "promise" =>
         /\ r.slug \in Slugs /\ rows[r.slug].status # "DRAFT"
         /\ r.pool \in {0, Pool(rows[r.slug].plan.prizes)}

UnderEdit == {v \in Editors : edit[v] # NoEdit}

DraftInv ==
    /\ DOMAIN draft = Slugs /\ DOMAIN edit = Editors
    /\ \A s \in Slugs : DOMAIN draft[s] = RowFields
    /\ editing = 1 =>
         /\ \A u, v \in UnderEdit : u = v
         /\ \A s \in Slugs : RowIsSound(draft[s])
         /\ \A u \in Editors : EditIsSound(edit[u], draft)

\* A request that opens finds nobody else at work.
LEMMA OpensKeeps ==
    ASSUME DraftInv, NEW u \in Editors, NEW r, Opens(u, r),
           editing = 1 => EditIsSound(r, draft)
    PROVE  DraftInv'
<1>1. /\ UNCHANGED <<draft, editing>> /\ DOMAIN edit' = Editors
      /\ \A v \in Editors : edit'[v] = IF v = u THEN r ELSE edit[v]
  BY DEF Opens, DraftInv
<1>2. ASSUME editing = 1 PROVE \A v, x \in UnderEdit' : v = x
  <2>1. UnderEdit = {}
    <3> SUFFICES ASSUME NEW v \in UnderEdit PROVE FALSE
      OBVIOUS
    <3>1. UnderEdit = {v}
      BY <1>2 DEF DraftInv
    <3>2. Cardinality(UnderEdit) = 1
      BY <3>1, FS_Singleton
    <3> QED BY <1>2, <3>2 DEF Opens, UnderEdit
  <2>2. \A v \in UnderEdit' : v = u
    BY <1>1, <2>1 DEF UnderEdit
  <2> QED BY <2>2
<1>3. ASSUME editing = 1, NEW v \in Editors PROVE EditIsSound(edit'[v], draft')
  BY <1>1, <1>3 DEF DraftInv
<1> QED BY <1>1, <1>2, <1>3 DEF DraftInv

\* A request that writes one row and closes leaves nobody at work.
LEMMA ClosesKeeps ==
    ASSUME DraftInv, NEW u \in Editors, edit[u] # NoEdit, Closes(u),
           NEW s, NEW row, draft' = [draft EXCEPT ![s] = row],
           s \in Slugs => DOMAIN row = RowFields,
           editing = 1 /\ s \in Slugs => RowIsSound(row)
    PROVE  DraftInv'
<1>1. /\ editing' = editing /\ DOMAIN edit' = Editors
      /\ \A v \in Editors : edit'[v] = IF v = u THEN NoEdit ELSE edit[v]
  BY DEF Closes, DraftInv
<1>2. /\ DOMAIN draft' = Slugs
      /\ \A x \in Slugs : draft'[x] = IF x = s THEN row ELSE draft[x]
  BY DEF DraftInv
<1>3. ASSUME editing = 1 PROVE \A v \in Editors : edit'[v] = NoEdit
  BY <1>1, <1>3 DEF DraftInv, UnderEdit
<1>4. \A rows : EditIsSound(NoEdit, rows)
  BY DEF EditIsSound, NoEdit
<1> QED BY <1>1, <1>2, <1>3, <1>4 DEF DraftInv, UnderEdit

\* A row moves beside the requests: its plan and what it is promised stay, and
\* at most it is cancelled.
LEMMA AsideKeeps ==
    ASSUME DraftInv, UNCHANGED <<edit, editing>>,
           NEW s \in Slugs, NEW row, draft' = [draft EXCEPT ![s] = row],
           DOMAIN row = RowFields, row.plan = draft[s].plan,
           row.promised = draft[s].promised, row.mediaDue = draft[s].mediaDue,
           row.status = draft[s].status \/ (row.status = "CANCELLED" /\ draft[s].status # "none")
    PROVE  DraftInv'
<1>1. /\ DOMAIN draft' = Slugs
      /\ \A x \in Slugs : draft'[x] = IF x = s THEN row ELSE draft[x]
  BY DEF DraftInv
<1>2. editing = 1 => RowIsSound(row)
  BY DEF DraftInv, RowIsSound
<1>3. ASSUME NEW r, EditIsSound(r, draft) PROVE EditIsSound(r, draft')
  BY <1>1, <1>3 DEF EditIsSound
<1> QED BY <1>1, <1>2, <1>3 DEF DraftInv, UnderEdit

\* Every step preserves the invariant.
LEMMA DraftsKeep ==
    ASSUME DraftInv, [DraftsNext]_draftsVars
    PROVE  DraftInv'
<1>1. CASE UNCHANGED <<draft, edit, editing>>
  BY <1>1 DEF DraftInv, UnderEdit
<1>2. ASSUME NEW u \in Editors, NEW plan, WizardAccepts(plan) PROVE
        /\ CreateDraft(u, plan) => DraftInv'
        /\ \A s \in Slugs : EditDraft(u, s, plan) => DraftInv'
  <2>1. InOrder(plan) /\ PlacesAreUnique(plan.prizes)
    BY <1>2 DEF WizardAccepts
  <2>2. \A x : EditIsSound([op |-> "create", plan |-> plan, slug |-> x], draft)
    BY <2>1 DEF EditIsSound
  <2>3. \A s \in Slugs : Editable(s) /\ editing = 1 =>
          EditIsSound([op |-> "edit", plan |-> plan, slug |-> s], draft)
    BY <2>1 DEF EditIsSound, Editable, DraftInv, RowIsSound
  <2> QED BY <2>2, <2>3, OpensKeeps DEF CreateDraft, EditDraft
<1>3. ASSUME NEW u \in Editors, CreateDraftWrite(u) PROVE DraftInv'
  <2> DEFINE s == edit[u].slug
             row == [NoEvent EXCEPT !.status = "DRAFT", !.plan = edit[u].plan]
  <2>1. edit[u] # NoEdit /\ Closes(u)
    BY <1>3 DEF CreateDraftWrite, Editing, NoEdit
  <2>2. DOMAIN row = RowFields /\ row.status = "DRAFT" /\ row.plan = edit[u].plan
        /\ row.promised = 0
    BY DEF NoEvent, RowFields
  <2>3. editing = 1 => RowIsSound(row)
    BY <1>3, <2>2 DEF CreateDraftWrite, Editing, DraftInv, EditIsSound, RowIsSound
  <2>4. CASE Exists(s)
    <3>1. UNCHANGED <<draft, editing>> /\ edit' = [edit EXCEPT ![u] = NoEdit]
      BY <1>3, <2>4 DEF CreateDraftWrite, Closes
    <3>2. \A v \in Editors : EditIsSound(edit[v], draft) => EditIsSound(edit'[v], draft)
      BY <3>1 DEF EditIsSound, NoEdit, DraftInv
    <3> QED BY <3>1, <3>2 DEF DraftInv, UnderEdit
  <2>5. CASE ~Exists(s)
    <3>1. draft' = [draft EXCEPT ![s] = row]
      BY <1>3, <2>5 DEF CreateDraftWrite
    <3> HIDE DEF row
    <3> QED BY <2>1, <2>2, <2>3, <3>1, ClosesKeeps
  <2> QED BY <2>4, <2>5
<1>4. ASSUME NEW u \in Editors, EditDraftWrite(u) PROVE DraftInv'
  <2> DEFINE s == edit[u].slug
             row == [draft[s] EXCEPT !.plan = edit[u].plan]
  <2>1. edit[u] # NoEdit /\ Closes(u)
    BY <1>4 DEF EditDraftWrite, Editing, NoEdit
  <2>2. draft' = [draft EXCEPT ![s] = row]
    BY <1>4 DEF EditDraftWrite
  <2>3. s \in Slugs => /\ DOMAIN row = RowFields /\ row.plan = edit[u].plan
                       /\ row.status = draft[s].status /\ row.promised = draft[s].promised
    BY DEF DraftInv, RowFields
  <2>4. editing = 1 /\ s \in Slugs => RowIsSound(row)
    BY <1>4, <2>3 DEF EditDraftWrite, Editing, DraftInv, EditIsSound, RowIsSound
  <2> HIDE DEF row
  <2> QED BY <2>1, <2>2, <2>3, <2>4, ClosesKeeps
<1>5. ASSUME NEW u \in Editors, NEW s \in Slugs, PublishEvent(u, s) PROVE DraftInv'
  <2> DEFINE r == [op |-> "publish", slug |-> s, due |-> MediaDeadlineFor(draft[s].plan.ends)]
  <2>1. Opens(u, r)
    BY <1>5 DEF PublishEvent
  <2>2. editing = 1 => EditIsSound(r, draft)
    BY <1>5 DEF PublishEvent, CanPublishDraft, Editable, EditIsSound, DraftInv, RowIsSound
  <2> HIDE DEF r
  <2> QED BY <2>1, <2>2, OpensKeeps
<1>6. ASSUME NEW u \in Editors, PublishEventWrite(u) PROVE DraftInv'
  <2> DEFINE s == edit[u].slug
             row == [draft[s] EXCEPT !.status = "PENDING_DEPOSIT", !.mediaDue = edit[u].due]
  <2>1. edit[u] # NoEdit /\ Closes(u)
    BY <1>6 DEF PublishEventWrite, Editing, NoEdit
  <2>2. draft' = [draft EXCEPT ![s] = row]
    BY <1>6 DEF PublishEventWrite, DraftInv
  <2>3. s \in Slugs =>
          /\ DOMAIN row = RowFields /\ row.plan = draft[s].plan
          /\ row.status = "PENDING_DEPOSIT" /\ row.promised = draft[s].promised
          /\ row.mediaDue = edit[u].due
    BY DEF DraftInv, RowFields
  <2>4. editing = 1 /\ s \in Slugs => RowIsSound(row)
    BY <1>6, <2>3 DEF PublishEventWrite, Editing, DraftInv, EditIsSound, RowIsSound
  <2> HIDE DEF row
  <2> QED BY <2>1, <2>2, <2>3, <2>4, ClosesKeeps
<1>7. ASSUME NEW u \in Editors, NEW s \in Slugs, CancelEvent(u, s) PROVE DraftInv'
  <2> DEFINE row == [draft[s] EXCEPT !.status = "CANCELLED"]
  <2>1. draft' = [draft EXCEPT ![s] = row] /\ UNCHANGED <<edit, editing>>
        /\ draft[s].status # "none"
    BY <1>7 DEF CancelEvent
  <2>2. /\ DOMAIN row = RowFields /\ row.plan = draft[s].plan /\ row.status = "CANCELLED"
        /\ row.promised = draft[s].promised /\ row.mediaDue = draft[s].mediaDue
    BY DEF DraftInv, RowFields
  <2> HIDE DEF row
  <2> QED BY <2>1, <2>2, AsideKeeps
<1>8. ASSUME NEW u \in Editors, NEW s \in Slugs, PromisePool(u, s) PROVE DraftInv'
  <2> DEFINE r == [op |-> "promise", slug |-> s,
                   pool |-> IF draft[s].promised = 0 THEN Pool(draft[s].plan.prizes) ELSE 0]
  <2>1. Opens(u, r)
    BY <1>8 DEF PromisePool
  <2>2. EditIsSound(r, draft)
    BY <1>8 DEF EditIsSound, PromisePool
  <2> HIDE DEF r
  <2> QED BY <2>1, <2>2, OpensKeeps
<1>9. ASSUME NEW u \in Editors, PromisePoolWrite(u) PROVE DraftInv'
  <2> DEFINE s == edit[u].slug
             row == [draft[s] EXCEPT !.promised = IF @ = 0 THEN edit[u].pool ELSE @]
  <2>1. edit[u] # NoEdit /\ Closes(u)
    BY <1>9 DEF PromisePoolWrite, Editing, NoEdit
  <2>2. draft' = [draft EXCEPT ![s] = row]
    BY <1>9 DEF PromisePoolWrite, DraftInv
  <2>3. s \in Slugs =>
          /\ DOMAIN row = RowFields /\ row.plan = draft[s].plan
          /\ row.status = draft[s].status /\ row.mediaDue = draft[s].mediaDue
          /\ row.promised = IF draft[s].promised = 0 THEN edit[u].pool ELSE draft[s].promised
    BY DEF DraftInv, RowFields
  <2> HIDE DEF row
  <2>4. editing = 1 /\ s \in Slugs => RowIsSound(row)
    BY <1>9, <2>3 DEF PromisePoolWrite, Editing, DraftInv, EditIsSound, RowIsSound
  <2> QED BY <2>1, <2>2, <2>3, <2>4, ClosesKeeps
<1>10. ASSUME NEW u \in Editors, NEW s \in Slugs, Cover(u, s) PROVE DraftInv'
  <2>1. ASSUME NEW k, draft' = [draft EXCEPT ![s].cover = k], UNCHANGED <<edit, editing>>
        PROVE  DraftInv'
    <3> DEFINE row == [draft[s] EXCEPT !.cover = k]
    <3>1. draft' = [draft EXCEPT ![s] = row]
      BY <2>1
    <3>2. /\ DOMAIN row = RowFields /\ row.plan = draft[s].plan /\ row.status = draft[s].status
          /\ row.promised = draft[s].promised /\ row.mediaDue = draft[s].mediaDue
      BY DEF DraftInv, RowFields
    <3> HIDE DEF row
    <3> QED BY <2>1, <3>1, <3>2, AsideKeeps
  <2> QED BY <1>1, <1>10, <2>1 DEF Cover, IssueCoverUpload, SetCover, RemoveCover
<1>11. ASSUME NEW k \in Uploads, CoverLands(k) PROVE DraftInv'
  BY <1>1, <1>11 DEF CoverLands
<1>12. CASE UNCHANGED draftsVars
  BY <1>1, <1>12 DEF draftsVars
<1>13. ASSUME NEW u \in Editors, Wizard(u) PROVE DraftInv'
  BY <1>2, <1>3, <1>4, <1>13 DEF Wizard, CreateDraft, EditDraft
<1> QED
  BY <1>5, <1>6, <1>7, <1>8, <1>9, <1>10, <1>11, <1>12, <1>13 DEF DraftsNext, Lifecycle

\* When requests are served one at a time, a published hackathon meets the rules
\* for publishing, its vault is promised the sum of its prizes and its media are
\* due when its own dates say, whatever is edited, cancelled or promised.
THEOREM PublishedStaysSound == DraftsSpec => []PublishedIsSound
<1>1. DraftsInit => DraftInv
  <2> SUFFICES ASSUME DraftsInit PROVE DraftInv
    OBVIOUS
  <2>1. DOMAIN NoEvent = RowFields /\ RowIsSound(NoEvent)
    BY DEF NoEvent, RowFields, RowIsSound
  <2>2. EditIsSound(NoEdit, draft)
    BY DEF EditIsSound, NoEdit
  <2> QED BY <2>1, <2>2 DEF DraftsInit, DraftInv, UnderEdit
<1>2. DraftInv => PublishedIsSound
  BY DEF DraftInv, PublishedIsSound, PublishedIsLocked, Published, RowIsSound
<1>3. DraftInv /\ [DraftsNext]_draftsVars => DraftInv'
  BY DraftsKeep
<1> QED BY <1>1, <1>2, <1>3, PTL DEF DraftsSpec

-----------------------------------------------------------------------------
(* Wizard: a submission drops no row and names each place once                 *)

\* The rows stay as they were checked even when a refusal puts the texts back, and
\* the only text that fails in that way is one the merged schema finds.
WizardInv ==
    /\ DOMAIN answers = {"basics", "problem", "teams", "rows"}
    /\ shown \in 0 .. LastStep
    /\ 2 < shown => StepPasses(2)
    /\ 0 < shown => answers.basics \in {"good", "undated"}
    /\ reverted \/ \A n \in 0 .. 3 : n < shown => StepPasses(n)
    /\ \A i, j \in DOMAIN sent :
         /\ sent[i].label <=> sent[i].amount # "none"
         /\ sent[i].label /\ sent[i].place = sent[j].place /\ sent[j].label => i = j

\* The first step at fault, and that the ones before it are not.
LEMMA FirstFault ==
    ASSUME NEW S \in SUBSET (0 .. 3), S # {}
    PROVE  Min(S) \in S /\ \A n \in 0 .. 3 : n < Min(S) => n \notin S
<1>0. \A x \in S : x \in {0, 1, 2, 3}
  OBVIOUS
<1>1. \E x \in S : \A y \in S : x <= y
  <2>1. CASE 0 \in S
    BY <1>0, <2>1
  <2>2. CASE 0 \notin S /\ 1 \in S
    BY <1>0, <2>2
  <2>3. CASE 0 \notin S /\ 1 \notin S /\ 2 \in S
    BY <1>0, <2>3
  <2>4. CASE 0 \notin S /\ 1 \notin S /\ 2 \notin S
    <3>1. PICK x \in S : TRUE
      OBVIOUS
    <3>2. \A y \in S : y = 3
      BY <1>0, <2>4
    <3>3. x \in S /\ \A y \in S : x <= y
      BY <3>1, <3>2
    <3> QED BY <3>3
  <2> QED BY <2>1, <2>2, <2>3, <2>4
<1>2. Min(S) \in S /\ \A y \in S : Min(S) <= y
  BY <1>1 DEF Min
<1>3. \A n \in 0 .. 3 : n < Min(S) => n \notin S
  <2> SUFFICES ASSUME NEW n \in S, n < Min(S) PROVE FALSE
    OBVIOUS
  <2>1. Min(S) <= n /\ n \in {0, 1, 2, 3} /\ Min(S) \in {0, 1, 2, 3}
    BY <1>0, <1>2
  <2> QED BY <2>1
<1> QED BY <1>2, <1>3

\* What each step checks, now and after a step.
LEMMA StepChecks ==
    /\ StepPasses(0) <=> answers.basics = "good"
    /\ StepPasses(1) <=> answers.problem
    /\ StepPasses(2) <=> /\ \A i \in DOMAIN answers.rows : ~HalfFilled(answers.rows[i])
                         /\ PrizesFit(answers.rows)
                         /\ RowPlacesUnique(answers.rows)
    /\ StepPasses(3) <=> answers.teams
BY DEF StepPasses

\* A step passes as before when what it looks at is as before.
LEMMA SameChecks ==
    /\ answers'.basics = answers.basics => (StepPasses(0)' <=> StepPasses(0))
    /\ answers'.problem = answers.problem => (StepPasses(1)' <=> StepPasses(1))
    /\ answers'.rows = answers.rows => (StepPasses(2)' <=> StepPasses(2))
    /\ answers'.teams = answers.teams => (StepPasses(3)' <=> StepPasses(3))
<1>1. answers'.basics = answers.basics => (StepPasses(0)' <=> StepPasses(0))
  BY DEF StepPasses
<1>2. answers'.problem = answers.problem => (StepPasses(1)' <=> StepPasses(1))
  BY DEF StepPasses
<1>3. answers'.rows = answers.rows => (StepPasses(2)' <=> StepPasses(2))
  BY DEF StepPasses
<1>4. answers'.teams = answers.teams => (StepPasses(3)' <=> StepPasses(3))
  BY DEF StepPasses
<1> QED BY <1>1, <1>2, <1>3, <1>4

\* What is filled in on the shown step leaves the steps behind it as they are.
LEMMA FillingKeeps ==
    ASSUME WizardInv, UNCHANGED <<shown, sent, basis, reverted>>,
           DOMAIN answers' = DOMAIN answers,
           shown # 0 => answers'.basics = answers.basics,
           shown # 1 => answers'.problem = answers.problem,
           shown # 2 => answers'.rows = answers.rows,
           shown # 3 => answers'.teams = answers.teams
    PROVE  WizardInv'
<1>1. \A n \in 0 .. 3 : n < shown /\ StepPasses(n) => StepPasses(n)'
  <2> SUFFICES ASSUME NEW n \in 0 .. 3, n < shown, StepPasses(n) PROVE StepPasses(n)'
    OBVIOUS
  <2>1. shown \in 0 .. 4 /\ n \in {0, 1, 2, 3}
    BY DEF WizardInv, LastStep
  <2>2. CASE n = 0
    BY <2>1, <2>2, SameChecks
  <2>3. CASE n = 1
    BY <2>1, <2>3, SameChecks
  <2>4. CASE n = 2
    BY <2>1, <2>4, SameChecks
  <2>5. CASE n = 3
    BY <2>1, <2>5, SameChecks
  <2> QED BY <2>1, <2>2, <2>3, <2>4, <2>5
<1> QED BY <1>1 DEF WizardInv

\* Every step preserves the invariant.
LEMMA WizardKeeps ==
    ASSUME WizardInv, [WizardNext]_wizardVars
    PROVE  WizardInv'
<1>1. CASE FillTexts
  BY <1>1, FillingKeeps DEF FillTexts, Fills, WizardInv
<1>2. ASSUME NEW i, NEW row, SetPrize(i, row) PROVE WizardInv'
  BY <1>2, FillingKeeps DEF SetPrize, Fills, WizardInv
<1>3. CASE AddPlace
  BY <1>3, FillingKeeps DEF AddPlace, Fills, WizardInv
<1>4. ASSUME NEW i, RemovePlace(i) PROVE WizardInv'
  BY <1>4, FillingKeeps DEF RemovePlace, Fills, WizardInv
<1>5. ASSUME UNCHANGED <<answers, sent, reverted>>, shown' \in 0 .. LastStep,
             \/ shown' < shown
             \/ shown' = shown + 1 /\ StepPasses(shown)
      PROVE  WizardInv'
  <2>1. \A n \in 0 .. 3 : StepPasses(n)' <=> StepPasses(n)
    <3>1. \A n \in 0 .. 3 : n \in {0, 1, 2, 3}
      OBVIOUS
    <3> QED BY <1>5, <3>1, SameChecks
  <2>2. shown = 0 /\ StepPasses(shown) => answers.basics = "good"
    BY DEF StepPasses
  <2>3. 2 < shown' => StepPasses(2)
    BY <1>5 DEF WizardInv, LastStep
  <2>4. 0 < shown' => answers.basics \in {"good", "undated"}
    BY <1>5, <2>2 DEF WizardInv, LastStep
  <2>5. reverted \/ \A n \in 0 .. 3 : n < shown' => StepPasses(n)
    BY <1>5 DEF WizardInv, LastStep
  <2> QED BY <1>5, <2>1, <2>3, <2>4, <2>5 DEF WizardInv
<1>6. CASE ContinueStep
  BY <1>5, <1>6 DEF ContinueStep, WizardInv, LastStep
<1>7. CASE BackStep
  BY <1>5, <1>7 DEF BackStep, WizardInv, LastStep
<1>8. CASE SubmitForm
  <2>1. UNCHANGED answers /\ shown = 4 /\ StepPasses(2) /\ answers.basics \in {"good", "undated"}
    BY <1>8 DEF SubmitForm, WizardInv, LastStep
  <2>2. \A n \in 0 .. 3 : StepPasses(n)' <=> StepPasses(n)
    <3>1. \A n \in 0 .. 3 : n \in {0, 1, 2, 3}
      OBVIOUS
    <3> QED BY <2>1, <3>1, SameChecks
  <2>3. CASE AtFault # {}
    <3>1. AtFault \subseteq 0 .. 3
      <4>1. Misfits \subseteq 0 .. 3
        BY DEF Misfits
      <4>2. \A n \in Clashes : n \in {0, 2}
        BY DEF Clashes
      <4> QED BY <4>1, <4>2 DEF AtFault
    <3>2. shown' = Min(AtFault) /\ reverted' = FALSE /\ sent' = sent
      BY <1>8, <2>3 DEF SubmitForm
    <3>3. shown' \in 0 .. 3 /\ \A n \in 0 .. 3 : n < shown' => n \notin AtFault
      BY <2>3, <3>1, <3>2, FirstFault
    <3>4. \A n \in 0 .. 3 : n \notin Misfits => StepPasses(n)
      <4> SUFFICES ASSUME NEW n \in 0 .. 3, n \notin Misfits PROVE StepPasses(n)
        OBVIOUS
      <4>1. CASE n = 0
        BY <2>1, <4>1, StepChecks DEF Misfits
      <4>2. CASE n = 1
        BY <4>2, StepChecks DEF Misfits
      <4>3. CASE n = 2
        BY <2>1, <4>3
      <4>4. CASE n = 3
        BY <4>4, StepChecks DEF Misfits
      <4> QED BY <4>1, <4>2, <4>3, <4>4
    <3>5. \A n \in 0 .. 3 : n < shown' => StepPasses(n)
      BY <3>3, <3>4 DEF AtFault
    <3> QED BY <2>1, <2>2, <3>2, <3>3, <3>5 DEF WizardInv, LastStep
  <2>4. CASE AtFault = {}
    <3>1. sent' = answers.rows /\ UNCHANGED <<shown, reverted>>
      BY <1>8, <2>4 DEF SubmitForm
    <3>2. RowPlacesUnique(answers.rows)
      BY <2>4 DEF AtFault, Clashes
    <3>3. \A i \in DOMAIN answers.rows :
            answers.rows[i].label <=> answers.rows[i].amount # "none"
      BY <2>1, StepChecks DEF HalfFilled
    <3>4. \A i, j \in DOMAIN answers.rows :
            answers.rows[i].label /\ answers.rows[i].place = answers.rows[j].place
              /\ answers.rows[j].label => i = j
      BY <3>2, <3>3 DEF RowPlacesUnique, Completes, Complete
    <3> QED BY <2>1, <2>2, <3>1, <3>3, <3>4 DEF WizardInv
  <2> QED BY <2>3, <2>4
<1>9. CASE FormSaved
  BY <1>9 DEF FormSaved, WizardInv, LastStep
<1>10. CASE FormRefused
  <2>1. /\ DOMAIN answers' = DOMAIN answers /\ answers'.rows = answers.rows
        /\ answers'.basics \in {"undated", "good"}
        /\ sent' = <<>> /\ reverted' = TRUE /\ shown' = shown
    BY <1>10 DEF FormRefused, DefaultTexts, WizardInv
  <2>2. StepPasses(2)' <=> StepPasses(2)
    BY <2>1, SameChecks
  <2> QED BY <2>1, <2>2 DEF WizardInv
<1>11. CASE UNCHANGED wizardVars
  BY <1>11 DEF wizardVars, WizardInv, StepPasses
<1> QED
  BY <1>1, <1>2, <1>3, <1>4, <1>6, <1>7, <1>8, <1>9, <1>10, <1>11 DEF WizardNext

\* However the organizer goes back and forth, submits and is refused, a submission
\* leaves out no row that has anything in it and names each place once, for any
\* number of rows and places.
THEOREM NoRowIsDropped == WizardSpec => []NothingIsDropped
<1>1. WizardInit => WizardInv
  BY DEF WizardInit, WizardInv, LastStep
<1>2. WizardInv => NothingIsDropped
  BY DEF WizardInv, NothingIsDropped
<1>3. WizardInv /\ [WizardNext]_wizardVars => WizardInv'
  BY WizardKeeps
<1> QED BY <1>1, <1>2, <1>3, PTL DEF WizardSpec

-----------------------------------------------------------------------------
(* Directory: every number is kept by the page its link leads to               *)

\* What the page works with: one of the values it knows for each parameter.
IsQuery(query) ==
    /\ query = [phase |-> query.phase, category |-> query.category, venue |-> query.venue,
                prize |-> query.prize, q |-> query.q, sort |-> query.sort]
    /\ query.phase \in Tabs \cup {Null}
    /\ query.category \in Categories \cup {Null}
    /\ query.venue \in Venues \cup {Null}
    /\ query.prize \in DOMAIN PrizeRanges \cup {Null}
    /\ query.sort \in Sorts

\* Whatever the URL carries, the page makes a query of it.
LEMMA ParsedIsQuery ==
    ASSUME NEW params
    PROVE  IsQuery(ParseListingQuery(params))
<1>1. \A name, keys : OneOf(params, name, keys) \in keys \cup {Null}
  BY DEF OneOf
<1>2. OneOf(params, "sort", Sorts) # Null => params["sort"] \in Sorts
  BY DEF OneOf
<1>3. "recommended" \in Sorts
  BY DEF Sorts
<1> QED BY <1>1, <1>2, <1>3 DEF IsQuery, ParseListingQuery

\* The link to a query leads to that query.
LEMMA HrefLeadsBack ==
    ASSUME NEW query, IsQuery(query)
    PROVE  ParseListingQuery(ListingHref(query)) = query
<1> DEFINE href == ListingHref(query)
<1>1. /\ "filter" \in DOMAIN href <=> query.phase # Null
      /\ "category" \in DOMAIN href <=> query.category # Null
      /\ "venue" \in DOMAIN href <=> query.venue # Null
      /\ "prize" \in DOMAIN href <=> query.prize # Null
      /\ "q" \in DOMAIN href <=> query.q # {}
      /\ "sort" \in DOMAIN href <=> query.sort # "recommended"
  BY DEF ListingHref, Named, Empty
<1>2. /\ "filter" \in DOMAIN href => href["filter"] = query.phase
      /\ "category" \in DOMAIN href => href["category"] = query.category
      /\ "venue" \in DOMAIN href => href["venue"] = query.venue
      /\ "prize" \in DOMAIN href => href["prize"] = query.prize
      /\ "q" \in DOMAIN href => href["q"] = query.q
      /\ "sort" \in DOMAIN href => href["sort"] = query.sort
  BY DEF ListingHref, Named
<1> HIDE DEF href
<1>3. /\ OneOf(href, "filter", Tabs) = query.phase
      /\ OneOf(href, "category", Categories) = query.category
      /\ OneOf(href, "venue", Venues) = query.venue
      /\ OneOf(href, "prize", DOMAIN PrizeRanges) = query.prize
  BY <1>1, <1>2 DEF OneOf, IsQuery
<1>4. (IF "q" \in DOMAIN href THEN href["q"] ELSE {}) = query.q
  BY <1>1, <1>2
<1>5. (IF OneOf(href, "sort", Sorts) = Null THEN "recommended" ELSE href["sort"]) = query.sort
  <2>1. Null \notin Sorts
    BY DEF Null, Sorts
  <2> QED BY <1>1, <1>2, <2>1 DEF OneOf, IsQuery
<1>6. ParseListingQuery(href) = [phase |-> query.phase, category |-> query.category,
                                 venue |-> query.venue, prize |-> query.prize,
                                 q |-> query.q, sort |-> query.sort]
  BY <1>3, <1>4, <1>5 DEF ParseListingQuery
<1> QED BY <1>6 DEF IsQuery, href

\* Every option leads to a query.
LEMMA FacetIsQuery ==
    ASSUME NEW query, IsQuery(query), NEW next \in Facets(query)
    PROVE  IsQuery(next)
<1>1. CASE next \in {[query EXCEPT !.phase = p] : p \in Tabs}
  BY <1>1 DEF IsQuery
<1>2. CASE next \in {[query EXCEPT !.category = c] : c \in {Null} \cup
                        {d \in Categories : \E h \in cached : d \in Hackathons[h].categories}}
  BY <1>2 DEF IsQuery
<1>3. CASE next \in {[query EXCEPT !.venue = v] : v \in {Null} \cup Venues}
  BY <1>3 DEF IsQuery
<1>4. CASE next \in {[query EXCEPT !.prize = p] : p \in {Null} \cup DOMAIN PrizeRanges}
  BY <1>4 DEF IsQuery
<1> QED BY <1>1, <1>2, <1>3, <1>4 DEF Facets

\* The tab that opens by itself has results if any has.
LEMMA OpensOnResults ==
    ASSUME cached \subseteq DOMAIN Hackathons, NEW query, query.phase = Null,
           FilterCards(cached, query, Null, "phase") # {}
    PROVE  Shown(query) # {}
<1> DEFINE All == FilterCards(cached, query, Null, "phase")
           On(p) == {h \in All : HackathonPhase(h) = p}
           counts == [p \in Tabs |-> Cardinality(On(p))]
           some == {i \in DOMAIN HackathonPhases : counts[HackathonPhases[i]] > 0}
<1>1. \A h \in All : h \in cached
  BY DEF FilterCards
<1>2. \A p \in Tabs : counts[p] > 0 <=> On(p) # {}
  <2> SUFFICES ASSUME NEW p \in Tabs PROVE counts[p] > 0 <=> On(p) # {}
    OBVIOUS
  <2>1. On(p) \in SUBSET DOMAIN Hackathons
    BY <1>1
  <2>2. IsFiniteSet(On(p))
    BY <2>1, DirectoryAssumption, FS_Subset
  <2>3. Cardinality(On(p)) \in Nat /\ (Cardinality(On(p)) = 0 <=> On(p) = {})
    BY <2>2, FS_CardinalityType, FS_EmptySet
  <2> QED BY <2>3
<1>3. DOMAIN HackathonPhases = {1, 2, 3} /\ \A i \in {1, 2, 3} : HackathonPhases[i] \in Tabs
  BY DEF HackathonPhases, Tabs
<1>4. \A p \in Tabs : \E i \in {1, 2, 3} : HackathonPhases[i] = p
  <2>1. HackathonPhases[1] = "ongoing" /\ HackathonPhases[2] = "upcoming"
          /\ HackathonPhases[3] = "past"
    BY DEF HackathonPhases
  <2> QED BY <2>1 DEF Tabs
<1>5. PICK h \in All : TRUE
  OBVIOUS
<1>6. HackathonPhase(h) \in Tabs /\ h \in On(HackathonPhase(h))
  BY DEF HackathonPhase, Tabs
<1>7. some # {}
  <2>1. counts[HackathonPhase(h)] > 0
    BY <1>2, <1>6
  <2>2. PICK i \in {1, 2, 3} : HackathonPhases[i] = HackathonPhase(h)
    BY <1>4, <1>6
  <2>3. i \in some
    BY <1>3, <2>1, <2>2
  <2> QED BY <2>3
<1>8. ResolvePhase(query) = HackathonPhases[Min(some)]
  BY <1>7 DEF ResolvePhase
<1>9. Min(some) \in some
  <2>1. some \in SUBSET (0 .. 3)
    BY <1>3
  <2> HIDE DEF some
  <2> QED BY <1>7, <2>1, FirstFault
<1>10. ResolvePhase(query) \in Tabs /\ On(ResolvePhase(query)) # {}
  BY <1>2, <1>3, <1>8, <1>9
<1>11. PICK g \in On(ResolvePhase(query)) : TRUE
  BY <1>10
<1>12. g \in Shown(query)
  BY <1>11 DEF Shown, FilterCards
<1> QED BY <1>12

\* The number beside a link is what its page shows once a tab is chosen: the page
\* counts under the tab that the link leads to.
LEMMA CountIsShown ==
    ASSUME NEW query, NEW next, next.phase # Null
    PROVE  Count(query, next) = Cardinality(Shown(next))
BY DEF Count, Shown, ResolvePhase

\* Between the click and the next event the page stands as it was counted.
DirectoryInv ==
    /\ cached \subseteq DOMAIN Hackathons
    /\ Query.phase # Null /\ promised >= 0 => Cardinality(Shown(Query)) = promised

\* A followed link leads to as many cards as were counted beside it.
LEMMA FacetKept ==
    ASSUME cached \subseteq DOMAIN Hackathons, FollowFacet, Query'.phase # Null
    PROVE  Cardinality(Shown(Query)') = promised'
<1>1. PICK next \in Facets(Query) : url' = ListingHref(next) /\ promised' = Count(Query, next)
  BY DEF FollowFacet
<1>2. UNCHANGED <<cached, clock>>
  BY DEF FollowFacet
<1>3. IsQuery(next)
  BY ParsedIsQuery, FacetIsQuery DEF Query
<1>4. Query' = next
  BY <1>1, <1>3, HrefLeadsBack DEF Query
<1>5. Shown(Query)' = Shown(next)
  BY <1>2, <1>4 DEF Shown, FilterCards, ResolvePhase, HackathonPhase
<1> QED BY <1>1, <1>4, <1>5, CountIsShown

\* A visitor who has chosen a tab finds behind every filter as many hackathons as
\* the number beside it said, and without one the page opens on a tab with results,
\* for any hackathons and any URL.
THEOREM EveryCountIsKept == DirectorySpec => []CountsAreKept
<1>1. DirectoryInit => DirectoryInv
  BY DEF DirectoryInit, DirectoryInv
<1>2. DirectoryInv => CountsAreKept
  BY OpensOnResults DEF DirectoryInv, CountsAreKept
<1>3. DirectoryInv /\ [DirectoryNext]_directoryVars => DirectoryInv'
  <2> SUFFICES ASSUME DirectoryInv, [DirectoryNext]_directoryVars PROVE DirectoryInv'
    OBVIOUS
  <2>1. CASE FollowFacet
    BY <2>1, FacetKept DEF DirectoryInv, FollowFacet
  <2>2. CASE Arrive \/ SearchAndSort \/ ClearFilters \/ Revalidate \/ HourPasses
    <3>1. promised' = -1 /\ cached' \in {cached} \cup SUBSET DOMAIN Hackathons
      BY <2>2 DEF Arrive, SearchAndSort, ClearFilters, Revalidate, HourPasses
    <3>2. cached' \subseteq DOMAIN Hackathons /\ ~(promised' >= 0)
      BY <3>1 DEF DirectoryInv
    <3> QED BY <3>2 DEF DirectoryInv
  <2>3. CASE UNCHANGED directoryVars
    <3>1. Query' = Query /\ Shown(Query)' = Shown(Query)
      BY <2>3 DEF directoryVars, Query, Shown, FilterCards, ResolvePhase, HackathonPhase
    <3> QED BY <2>3, <3>1 DEF DirectoryInv, directoryVars
  <2> QED BY <2>1, <2>2, <2>3 DEF DirectoryNext
<1> QED BY <1>1, <1>2, <1>3, PTL DEF DirectorySpec
=============================================================================
