# HackVillage: a verification of the platform

HackVillage runs hackathons whose prize pool is paid in before the event goes live and paid out
through Paystack after the winners are announced. A public ledger mirrors the money facts onto a
`PrizeVault` contract. Around the money stand teams, judging, organizations, accounts, mail and the
pages. This directory holds TLA+ models of these parts, TLC configurations that check them on small
instances, and TLAPS proofs that hold for every instance.

Paths below are relative to the repository (`services/payout/service.ts` and so on). `PROJECT.json`
lists the components, the runs, the hazards with the properties that cover them, and for every
definition the source lines it stands for.

## 1. The system and its parts

| part | state it keeps | operations | talks to |
|---|---|---|---|
| Escrow: `services/escrow/deposits.ts`, `webhook.ts`, `refund.ts` | `Deposit.status`, `VaultState.chainState`, `WebhookEvent.processedAt` | initiate a deposit, record a charge, expire stale deposits, refund, replay unprocessed webhooks | Paystack (checkout, webhooks), `Event.status`, queue |
| Event lifecycle: `lib/events/*`, `openJudging`, `announceWinners` | `Event.status`, drafts, prizes, slugs, covers | create, edit, publish, cancel (organizer, admin), start, open judging, announce | vault, refund, payouts |
| Payout engine: `services/payout/service.ts`, `tranches.ts` | `Payout.status/attemptCount/paystackReference`, `VaultState.chainState`, `Event.status` | announce, execute, confirm, fail and retry, sweep, heal, admin retry, manual payment, milestone | Paystack (transfers, webhooks), queue |
| Ledger attestation: `services/*/attestations.ts`, `lib/ports/chain.ts`, `contracts/*.sol` | `LedgerEntry` rows, contract `state` and `releasedKes` | attest creation, lock, payout, refund; recover from reverts | queue, chain |
| Reconciliation: `services/escrow/reconcile.ts` | none | compare database, ledger and chain; re-enqueue what the chain lacks | all of the above |
| Queue and crons: `lib/queue.ts`, `lib/jobs/handlers.ts` | pg-boss tables | enqueue, deliver, schedule | every handler |
| Legacy, milestones, disputes: `services/legacy/service.ts` | `LegacyCheckin`, `Milestone`, `Dispute` | schedule, remind, close and record check-ins; open and resolve disputes | payouts, refund, portfolio |
| Judging: `services/judging`, `lib/judging/compute.ts` | `JudgeAssignment`, `Rubric`, `Score`, `Feedback`, `JudgingProgress` | seats, rubric, score, feedback, finalize, standings | event, teams |
| Teams: `lib/teams`, `registration-actions.ts`, `submission-actions.ts` | `Registration`, `Team`, `TeamMember`, `Submission` | register, create, join, invite, answer, leave, lock, disband, submit | judging seats, event |
| Media and trust: `services/media` | `MediaAsset`, `TrustEvent`, `Organization.trustScore` | upload, review, deadline cron, appeals, adjustments | event |
| Proof of work: `services/pow` | `PortfolioItem`, `Endorsement`, `Introduction` | portfolio, endorse, introduce, public numbers | announcement, check-ins |
| Organizations: `lib/onboarding`, `lib/organizations`, `lib/orgs` | `Organization`, `OrgMember`, `OrgInvite`, role grants | onboard, create, invite, accept, submit and decide verification, rename | accounts |
| Accounts: `lib/auth`, `lib/account` | `User`, `VerificationToken`, the signed session | sign up, verify, reset, sign in and out, change password, deactivate | mail |
| Rate limit: `lib/rate-limit.ts` | one row per key, one map per process | count a call, fall back, purge | every action |
| Mail: `lib/events/announce.ts`, `lib/notifications`, `lib/newsletter` | `Notification`, preferences, newsletter address | announce page by page, unsubscribe, confirm, return | queue |
| Public directory: `lib/events/listing.ts`, `hackathon-directory.tsx` | a cached read, the URL | filter, sort, count, feature | events |
| Work pages: `app/(app)/**/page.tsx` and their forms | none | decide which controls to show | every handler |
| Event wizard: `components/events/event-wizard.tsx` | the form in the browser | fill in, add and remove places, continue, back, submit | event actions |
| Demo seed: `db/seeds/seed.ts` | the demo rows | upsert | everything that works on the same database |
| Marketing pages, blog, SEO | none | render | |

All of it is Next.js server code and pg-boss workers on one Postgres database. Handlers interleave
at every `await`; there are no row locks and no serializable transactions, only transactions of
blind writes and conditional `updateMany`s. The handlers share state through the database and
message each other through `enqueue`, which swallows its own failures. What makes that hard: checks
and writes separated by an await, ambiguous provider answers, webhooks that come late, twice or
never, crashes between two writes, lost jobs, crons that act on rows a worker is busy with, pages that
show a control on rows that have changed since.

What makes each part correct:

- **Escrow**: a vault is locked once, by one captured charge; every captured charge is credited or paged.
- **Event lifecycle**: a running event has its pool locked; winners are announced on a locked pool; what
  is published met the rules and stays as it was published.
- **Payouts**: no tranche is paid twice; SUCCEEDED means money moved; the vault releases and settles on
  real payments only and never moves backwards; no payout is stranded.
- **Attestation**: contract and ledger never show money that did not move; the contract catches up.
- **Judging, teams**: a judge does not compete; a team outgrows its cap by no more than the requests that overlap; a
  final review is complete and frozen; an announced event is judged.
- **Aftermath**: one milestone payout whoever confirms it; a release is paid; check-ins close; one fine
  per missed media deadline; every winner gets a portfolio item.
- **Organizations, accounts**: an invitation admits one; a revoked session stays out.
- **Rate limit, mail**: an allowance is bounded by the number of counters; nobody is told twice or
  put back on a list against their will.
- **Directory, pages, wizard, seed**: a count is what its link shows; the next step is always offered to
  somebody and accepted; no prize row is silently dropped; a seeded pool stands on its rows.

## 2. Modules

| module | models | where it comes together |
|---|---|---|
| `Payments` | the abstract promise of the payout engine | refined by `PayoutEngine` |
| `Money` | what may happen to the money of a hackathon, without handlers and stale reads | refined by `EventFunding` and `PayoutBooks`, assumed by `Attestation` |
| `PayoutEngine` | the payouts of one announced event, its vault from LOCKED on | starts where `announceWinners` has committed |
| `PayoutBooks` | `PayoutEngine` with a history variable of what the rows have ever shown | refines `Money` |
| `EventFunding` | one event from DRAFT to its announcement or cancellation, its vault and deposits | hands over to `PayoutEngine` at the announcement |
| `Attestation` | the money facts of one event on their way to contract and ledger | takes the facts from `Money`, which the other two implement |
| `Teams`, `Judging`, `Results` | teams and judging seats until judging opens; reviews and the announcement; the standings as functions | `Competition` |
| `Legacy`, `Disputes`, `Media`, `ProofOfWork` | check-ins; one milestone and its dispute; media and trust score; portfolio, endorsements, introductions | `Aftermath` |
| `Organizations`, `Accounts`, `RateLimit`, `Outreach`, `Drafts`, `Directory`, `Seeds`, `Desks`, `Wizard` | one part of section 1 each; `Desks` is the work pages against the handlers behind them | `Platform`, with `Competition` |
| `MC*` | instances for TLC | |
| `PayoutEngineProofs`, `EventFundingProofs`, `AttestationProofs`, `CompetitionProofs`, `AftermathProofs` | theorems and their TLAPS proofs | extend the module they are about |
| `PeopleProofs`, `PublishingProofs` | theorems about `Organizations`, `Accounts`, `Outreach`, `RateLimit`; about `Drafts`, `Wizard`, `Directory` | `PlatformProofs`, with `CompetitionProofs`: the composition keeps what its parts keep |

`Competition`, `Aftermath` and `Platform` put parts side by side that share no row another one guards on
(memberships that one part reads from another only grow). A variable (`half`, `strand`, `part`) says which part a
behaviour follows, so that the state spaces add up instead of multiplying; the parts keep their own
next-state relation, and the theorems about `Teams` and `Judging` are stated for `Competition`. Where parts do share rows they are in one
module: seats and teams, announcement and payouts' vault, milestone and dispute, fine and appeal.

### How handlers become actions

Two styles, by how much an interleaving inside a handler matters:

- *One action per await* (`PayoutEngine`, `EventFunding`, `Attestation`, and the crons, jobs and the
  announcing request of `Legacy`, `Media`, `Outreach`, `ProofOfWork`). A handler is a process with a frame: a
  control point and the local variables that survive an await. A value the code reads and uses later is a
  field of the frame, so stale reads are stale in the model. A crash empties the frame anywhere.
- *Checks, then write* (the server actions: `Teams`, `Judging`, `Organizations`, `Accounts`, `Drafts`,
  `Disputes`, the newsletter). A server action reads, decides on early returns, and then commits one
  transaction or one sequence of writes: `X` is its checks on one reading of the database, `XWrite` its write
  from what was read, and anything may happen in between. An action whose only write repeats its checks in the
  WHERE clause is one step. Mails, audit rows and logs are left out unless a property reads them.

`PayoutEngine`, by code: `executePayout` is `DeliverJob`/`ExecuteRead`, `Claim` (the conditional update),
`InitiateAccepted`/`InitiateRefused`, `RecordTransfer`, and for its catch block `Catch` and `Lookup` with
`AfterAmbiguousTransferError`; `confirmTransferSuccess` is `ConfirmRead`, `ConfirmWrite`, then
`advanceVaultAfter` as `AdvanceReadVault`, `AdvanceReadFacts`, `AdvanceHalf`, `AdvanceSettle`, `SettleEvent`,
and `Attest`; `handleTransferFailure` is `FailRead` and `FailWrite` or `ParkWrite`; `routeVerifiedEvent` is
`HookSuccess`, `HookDead`, `HookWrite`; `sweepStuckPayouts`, `healVaultStates`, `adminRetryPayout`,
`adminMarkManuallyPaid` and `confirmMilestone` bear their names; `resolveDispute` is `ReleaseDispute`, which creates a
milestone payout whatever became of the instant tranche and the vault, and `DisputeRefund`. A reference is
`transferReference(id, attempt)`, so the model keeps the attempt; the provider accepts a reference once.

`EventFunding`, by code: `publishEventAction` (`PublishRead`, `PublishWrite`), `initiateDeposit`
(`InitiateRead`, `CreateVault`, `CreateDeposit`), `processPaystackWebhook` and the outbox cron
(`ReceiveCharge` ... `MarkProcessed`), `recordChargeSuccess` (`ChargeRead`, `ChargeTx`, `Overpaid`),
`verifyAndAlertOrphanedCharge` (`Orphan`), `expireStaleDeposits`, the two cancellations, `refundLockedVault`,
`advanceStartedEvents`, `openJudging`, `announceWinners`. Amounts are left out, but for what they decide: a checkout
is for the whole pool that remains, so its charge covers the pool unless a late draft save has raised the prizes since
(`RaisePrizes`; `short` holds the deposits opened before). Such a charge alone is not `covered` (`deposits.ts:165`); with
others it may be.

`Attestation`, by code: a job (`TakeJob`) reads the contract, writes it (`WriteAccepted`, `WriteReverted` at
a state gate) or retries, recovers from a revert and writes its row with the transaction's hash (`Record`) or
the unique mirror hash (`Mirror`). A handler that fails at its write (`Interrupt`) may have sent the
transaction, which is mined later or reverts (`Mine`). `ReconcileRead` and `ReconcileRepair` are the chain leg of
`reconcileLedger`.

The other modules name each action after the function it models; the comment over each section names the
file. `Results` computes the weighted mean in hundredths and the dense rank with folds; `Judging` uses it at
the announcement. `Seeds` is a list of upserts consumed one at a time, with the prize amounts in units of
10,000 KES; the payout worker is a frame beside it, whose writes (payout, vault, event, ledger row) fall between any two of
the script and come from what it read before. `Directory` is the page as a function of cached rows, URL and clock. `Desks` pairs, for every
control, what the page shows (`Offered`) with what the handler does: `Outcomes` is the set of rows a request may
leave, and the handler accepts (`Accepts`) when that set is not empty.

## 3. What the runs check

Passing runs:

| run | instance | properties |
|---|---|---|
| `payout_money` | 1 winner with both tranches, 2 handlers of every kind but the admin queue's, disputes released and refunded, 1 attempt, 1 crash, lost responses | `PaidIsReal`: nothing is SUCCEEDED or attested without money having moved; `VaultFailsClosed`: released on a real instant payment, settled on all; `MoneyMoves`: the engine implements `Money`, so the rows show a milestone as paid before its instant tranche only after its dispute was released |
| `payout_workers` | 1 winner with both tranches, 2 handlers: job workers, webhooks, manual payments and refunds; cap 2, 2 attempts, 1 crash, all faults but lookup errors and lost jobs | `NoSecondLiveTransfer`; `OneOwner`; `PromiseKept`: the engine implements `Payments` |
| `payout_sequential` | 1 winner with both tranches, 1 handler of every kind but the dispute's refund and the manual payment, cap 1, 2 attempts, lost responses, clawbacks, redelivery; that a crash changes nothing is in the theorems (`ReportsAreKept`, `VaultStaysOnCourse`) | `ReportsAreFinal`: SUCCEEDED is never rewritten and a clawed-back payout never flips back; `VaultFollowsContract` |
| `payout_liveness` | 1 winner, 2 handlers, cap 1, 2 attempts, 1 crash, lost jobs and responses | `PayoutsClose`, `VaultUnlocks` |
| `funding_concurrent` | 2 deposits, 2 handlers of every kind, 1 crash, failing lookups, prizes that rise | `PrizeVerified`: a running event has its pool locked; `VaultIsBacked`: by one captured charge; `MoneyMoves`: the funding implements `Money`: opened once, locked once, refunded only when locked |
| `funding_recovery` | 2 deposits, 1 handler, 2 crashes, prizes that rise | `AnnouncedIsFunded`, `ChargeIsPaged`, `NoChargeLost` |
| `attest_recovery` | 2 winners, 1 milestone, pool 3, 1 worker, 1 fault: a lost job, a crash or error, a late transaction | `ChainIsBacked`, `LedgerIsHonest`, `OneInstantRecorded`, `ChainCatchesUp` |
| `platform` | see below | 14 properties, one or two for each part |
| `aftermath` | see below | `StandingsAreFair`, `ConfirmedOnce`, `FinedOnce`, `CheckinsClose`, `ReleaseIsPaid`, `WinnersAreCredited` |

`platform`, by part:

| part | instance | property |
|---|---|---|
| teams | 1 team of 2 seats; 3 people one request at a time, 2 with overlapping requests of whom one is invited to judge, or 4 with overlapping requests | `JudgesDoNotCompete`: while judging is open no active judge is on a team; `TeamSizeBounded`: with *n* requests at once a team exceeds its cap by at most *n* - 1 (the four do exceed it by one), and not at all one at a time |
| judging | 2 judges, 1 team, 2 criteria, 2 scores, 1 kind of feedback | `AnnouncedIsJudged`: winners only when every team has a final review, and every final review passed the gate; `FinalIsFrozen` |
| organizations | 3 people, 1 administrator, 1 invitation, 1 or 2 requests at once | `OneMemberPerInvite` |
| accounts | 2 devices, 2 links, 1 password change, 1 tick | `RevokedStaysOut` |
| rate limit | limit 2 in a window of 2 hours, database and 1 process, 3 hours | `AllowanceBounded`: within any window every counter lets through at most twice the limit less one |
| announcement | 3 builders, pages of 2, batches of 1, cap 2, 2 deliveries | `ToldAtMostOnce` |
| newsletter | 1 address, links that live 1 day | `OptOutStands`: only its owner puts an address back |
| drafts | 2 editors, 2 slugs, plans of which some break each rule | `PublishedIsSound`: served one at a time, what is published met the rules and is what the vault is promised |
| directory | 3 hackathons, 2 searches, 3 hours | `CountsAreKept`: a number beside a filter is what its link shows, once a tab is chosen |
| seeds | 2 runs, deaths anywhere; the start cron and the payout worker at any time, a cancellation, its refund and a milestone's confirmation beside them | `SeedIsBacked`: after a run that ended, a running event has its pool, a pending, draft or cancelled one gets none, the ledger has the instant tranches |
| desks | 1 or 2 prizes, the hackathon's whole life | `PagesLeadOn`: the next step is on somebody's page and accepted; what a page offers beyond the listed exceptions is accepted |
| wizard | 2 rows, any order of editing | `NothingIsDropped`: no row with anything in it is left out |

`aftermath`, by strand: standings with 2 judges and 2 teams or 1 judge and 3 teams, 3 criteria, sheets that are
half filled in and sheets that tie, 2 writes of judges while a page is read (`StandingsAreFair`: the ranks
agree with the points added up by hand, ties share, no rank is skipped, unfinished reviews do not count,
if the scores are the last to be read or nobody wrote meanwhile); 2 check-ins, a batch of 1, 1 dying sweep
(`CheckinsClose`); 2 administrators and 1 organizer over one milestone (`ConfirmedOnce`, `ReleaseIsPaid`); 2 events, a
cron that dies once and 1 adjustment (`FinedOnce`); 2 winners, 1 judge and 1 partner, a request that may die
(`WinnersAreCredited`).

Why these bounds are enough to be interesting: two handlers, or two overlapping requests, are what a race
needs; the caps, the second attempt, the second winner, the second deposit, the second page, the tie and the
already-released contract are each within the bounds. Where a run has crashes, one can fall anywhere. In the crowd of four one person founds
the team and two are interchangeable, so that the state space stays small. In `payout_money` nobody works the admin's queue:
what that run checks is proved for every caller. In `seeds` a behaviour follows the application on one event, climate
or blue, because no two share a row. Bounds that the code does
not have are constants named `...Bound` (`AttemptBound`, `CrashBound`, `FaultBound`, `DeathBound`,
`AdjustBound`, `PasswordBound`, `ClockBound`, `RunBound`, `DayBound`, `HourBound`, `HackBound`, `RowBound`, `ChangeBound`) or say
"model bound" where they are declared. Competitors, workers and deposits are interchangeable, and the runs
with safety properties only use that symmetry. Deadlock is not checked: an event whose work is done stops.

Runs that violate what the repository says of itself:

| run | what is said | what happens |
|---|---|---|
| `sweep_double_pay` | "the sweep can never double-pay" (`services/payout/service.ts:829`) | the sweep asks about a request that is still on its way, hears `not_found`, retries; both transfers live |
| `refund_then_settle` | refunds and milestone payouts exclude each other (`services/legacy/service.ts:363`) | the milestone is confirmed after the refund |
| `published_edit` | "Published hackathons are locked" (`lib/events/actions.ts:92`) | an edit that checked DRAFT is written after the publication and the deposit: the vault holds another sum than the prizes |

### Disagreements that no run shows

Some are properties that are defined in the modules, do not hold, and stand in no run: their names are given.

Money:

- Healing "can never wedge a vault mid-lifecycle" (`service.ts:918`), but it selects LOCKED only: a death
  between HALF_RELEASED and SETTLED stays (`VaultSettles`).
- `docs/BUILD_PLAN.md:644` has no way out of CANCELLED, but a charge on a cancelled event locks the vault and
  sets it LIVE (`deposits.ts:186`), and `openJudging` writes JUDGING over CANCELLED (`CancelledIsFinal`).
- "Σ attested payout amounts must equal on-chain releasedKes" (`reconcile.ts:213`), but the contract records one
  instant tranche: with two winners the sums differ for ever (`ReleasedMatchesLedger`), and the contract reaches
  SETTLED only if what it recorded covers the pool.
- Two handlers at once break what `payout_sequential` checks: a confirmation that read before a reversal
  writes SUCCEEDED over REVERSED (`service.ts:462`, `493`), a failure that read before a success writes FAILED over it
  (`531`), a stale vault read moves SETTLED or REFUNDED elsewhere (`557-606`).
- `adminRetryPayout` requeues after an `unknown` lookup under a new reference (`732`); `adminMarkManuallyPaid` has
  no status guard, and the page offers both for QUEUED and PROCESSING payouts too.
- `expireStaleDeposits` overwrites a charge recorded between its read and write with FAILED (`deposits.ts:309`).
- An admin's cancellation decides on the refund from the vault it read first (`cancel.ts:154`): a charge in
  between leaves a LOCKED vault on a cancelled event.
- A crash between a charge's transaction and the overpayment mail loses the page, because the replay is a
  "duplicate"; if the provider cannot verify an orphaned charge only a log line remains (`webhook.ts:271`).
- With two attestation workers one fact can have two rows (`OneEntry`); refunded vaults are not reconciled.
- A dispute's RELEASE looks at neither the instant tranche nor the vault (`legacy/service.ts:446-511`): a milestone may
  be paid before its instant tranche, and out of a refunded pool.
- The seed, run again, re-queues a milestone payout that was paid, writes HALF_RELEASED over SETTLED, and leaves two
  SETTLED demo events without a vault. A worker in between may write SETTLED over that HALF_RELEASED again, from what it
  read before, and may die before the milestone's ledger row.

Competition:

- `acceptInvite` looks neither at the user's other teams of the event nor at the registration. Toggling the lock
  reopens a DISBANDED team. Saving a submission and disbanding can pass each other. A person who left, declined or was only
  invited cannot join by code. A stale prize split misstates a portfolio; no money is divided by it.
- Inviting an ACTIVE judge again makes them INVITED. A removed judge can accept again, because `respondToInvite` has
  no status check; one who finalized keeps counting in the standings. A former participant may judge the old team.
- "A half-entered review must never leak into results" (`results.ts:12`): it does when the scores are read before
  and the finalized reviews after the judge's last two requests (`StandingsAreAlwaysFair`). Nothing ties the
  announced placements to the standings; the organizer chooses. The mean is in floating point, so an exact half
  hundredth may round either way; the model rounds it up.
- One judge with two tabs can finalize past the gate; the model gives each person one request at a time.

Aftermath:

- Reminders go out on days 14 and 28 where the comment has 0 and 14; milestone nudges go out daily, not "one nudge
  per window" (`legacy/service.ts:223`).
- RELEASE without a payout recipient, or with a crash after it, leaves the dispute resolved and nothing paid; a
  milestone has one dispute row for ever.
- Two adjustments of one trust score can lose one (`TrustAddsUp`), two late events lose one penalty.
- A dispute form stays on the page after confirmation or while a dispute is open. REFUND has no button.
- The announcing request does its aftermath once: if it dies, payouts are swept but portfolio items and check-ins
  are never made.
- An introduction accepted and declined at once can mail contacts and end declined (`ExchangedIsAccepted`).
- A sweep can overwrite an outcome recorded since its read.

Organizations and accounts:

- `createOrganization` checks, then creates: one user can own two. A targeted invitation loses its e-mail
  binding when the invitee is or becomes a member (`accept-invitation.ts:12-16`). No code revokes a membership.
- Two administrators can decide one verification (`verification-service.ts:13-16`); a stale submission demotes
  VERIFIED to PENDING; a rename can pass the name lock. The page lists FAILED organizations with buttons the handler refuses.
- Issuing a token deletes and creates in two steps, so two links may work; verification and reset tokens share a
  table; one reset link opened twice at once works twice. A sign-in with the old password that is under way survives the
  reset: it gets the new version (`lib/account/actions.ts:47`; `SessionsFollowPassword` does not hold).
- The account of a first Google or GitHub sign-in is stored with its e-mail unverified (`lib/auth/adapter.ts:28`).

Mail, pages, seed:

- An announcement that dies between the row and the mail never mails that builder; the page cursor can skip one (`ScanIsStable`
  does not hold);
  two runs at once may mail twice, because nothing makes a notification unique.
- The returning-subscriber mail links to `/newsletter/resubscribe`, a page that does not exist;
  `confirmNewsletterResubscribeAction` is called by tests only.
- Without a chosen tab the directory counts in the tab in effect and may open another (`CountsAreKeptAnywhere`).
- The team panel offers its controls to members who do not lead, the invite code manager to MEMBERs; the vault page says
  "Awaiting deposit" for every status but LIVE; the winners page shows the milestone's confirmation before the
  instant tranche is paid. Publishing does not compare the dates with now.
- "Add place" repeats a place number after a row was removed (the uniqueness check catches it). React's form reset
  after a refusal puts texts back to their defaults while the prize rows stay.

## 4. Fairness

- A handler, sweep, cron or request under way goes on (`WF`): Node runs every promise to its end or dies.
- `payout.cron` sweeps and heals every ten minutes (`lib/jobs/handlers.ts:119`): `SF` of `Sweep` for each payout and
  of `HealVault`. `SF` because with few workers a cron is enabled only whenever one is free.
- Paystack settles what it accepted: `WF` of `ProviderSettles`.
- The hourly outbox cron (`handlers.ts:89`) takes up unprocessed webhooks: `SF` of `ReceiveCharge`.
- pg-boss delivers a job that was accepted: `SF` of `TakeJob` for the vault's creation, its lock and the instant
  tranches; milestone and refund jobs may starve. The reconciliation runs every night (`handlers.ts:175`): `WF`
  of its two steps.
- The legacy cron runs daily and days pass (`LegacyFairness`), the media cron every quarter of an hour
  (`MediaFairness`). In `Disputes` and `ProofOfWork` only requests under way are fair (`DisputesFairness`, `PowFairness`).

No fairness is assumed of payers, organizers, judges or admins, nor of the initial delivery of a job or
webhook: in `payout_liveness` the jobs may all be lost, and the sweep alone does the work. The parts of `platform` have
safety properties only and no fairness.

## 5. Refinement

`Payments` says what the payout engine promises without its workers: money for a payout is under way or
with the winner at most once at a time, the books show it as paid only if it arrived, and it leaves the books only
when none is left with the winner. `PayoutEngine!Promise` instantiates it: `moving` and `arrived` are the provider's pending and
successful transfers, `was` the payouts that were ever paid, `books` the rows in SUCCEEDED. `payout_workers` checks
`PromiseKept`, `ImplementsPayments` proves it when neither the sweep nor the admin retry runs, or when handlers run
one at a time without the admin retry. `Payments` allows
a new transfer for a payout that the books still show as paid when the earlier one was clawed back: a late success
webhook may have put it there.

`Money` is the seam between funding, payouts and ledger. It knows facts only: the vault was created, locked,
refunded, a tranche was paid, a dispute was released; a milestone's payment follows its instant one or such a release. A fact stays a fact when a stale write takes it off the
row. `EventFunding!Facts` reads it off the vault column; `PayoutBooks` needs a history variable, because a
reversal takes a SUCCEEDED away and a stale vault write may take a refund away. Both are checked (`MoneyMoves`) and proved (`FundingMovesMoney`,
`EngineMovesMoney`) to implement it, the engine from the point where funding leaves it. `Attestation` takes its facts from actions
of `Money` (`Happens`) and from nowhere else, so that what it shows of ledger and contract rests on what the other two have been shown to do.
A release is not attested; there every milestone counts as released, so that the instant tranche may come before or after it.

## 6. What is proved

50 theorems in eight modules, for every value of the constants: any number of winners, deposits, handlers, judges,
users, invitations, devices, builders, prize rows, hackathons and crashes, any set of callers and faults. They rest on the
assumptions named `...Assumption` in each module, which the runs evaluate, and on the premises named here.

| module | theorems | inductive invariant, and why it is needed |
|---|---|---|
| `PayoutEngineProofs` | `PaidCorrect`, `VaultCorrect`, `TypeCorrect` | `MoneyIsReal`: a handler that confirms or advances has a real payment behind it, facts read stay true, a success webhook is honest |
| | `OwnerCorrect`, `NeverPaidTwice`, `ImplementsPayments` | `OneOwner`: one handler owns a payout from its claim until it is closed or known dead. Under `Unattended \/ Alone`: neither the sweep nor the admin retry runs, or one handler at a time and no admin retry |
| | `ReportsAreKept`, `VaultStaysOnCourse` | `ReportsAreFresh`, `VaultsAreFresh`: what a lone handler has read of the row or the vault still stands when it writes. Under `OneHandler` and without the manual payment and database errors (reports) or the refund (vault) |
| | `EngineMovesMoney` | `BooksAgree`: whatever a row or a handler in hand could pay is in order, that is, a milestone that exists has an instant tranche that was once shown as paid, or its dispute was released. Without premises |
| | `AttemptsStayCapped` | `CountsAreCapped`: a FAILED row whose cap was checked is still under it when it is claimed. Under `Unattended` |
| `EventFundingProofs` | `PrizeIsVerified`, `LockedVaultIsBacked`, `VaultContract`, `FundingCorrect`, `TypeCorrect` | `FundingIsBacked`: what each frame has learned is good enough when it writes |
| | `FundingMovesMoney` | the vault's edges (`VaultContract`) map to the actions of `Money` |
| | `AnnouncementIsFunded` | `OrderlyInv`, under `Orderly` (one handler at a time, the provider answers): a lone frame's reading is fresh. Or, for any number of handlers of which none is the admin's cancellation, `KeptInv`: nothing else takes a locked pool away |
| | `ProcessedIsPaged` | `OrderlyInv` again. Or, for any number of handlers of which none is the expiry, `OpenInv`: a deposit whose charge is being processed is still creditable |
| | `CreditIsKept`, `OrganizerLeavesVaults` | `LoneInv`, under `Alone` (one handler at a time): the same for the expiry and the organizer's cancellation. `CreditIsKept` also holds of any number of handlers without the expiry, the only one that writes over a credit |
| `AttestationProofs` | `ChainBacked`, `LedgerHonest`, `InstantRecordedOnce`, `TypeCorrect` | `LedgerIsBacked`: jobs and workers carry facts only, the contract's rank falls by a refund only, recorded payouts imply a state past LOCKED |
| | `OneRowEach` | `RowsInv`, with one worker: a job in hand has no row yet |
| `CompetitionProofs` | `WinnersAreJudged`, `ReviewsAreFrozen`, `JudgesStayOut`, `TeamsStaySmall`, `CompetitionTypes` | `JudgingInv`: a final review was complete, and a request that passed its checks still finds them true. `TeamsInv`: a person with a seat has no join under way that the opening would miss (`SeatInv`); members and joins under way of a team together stay under cap plus width (`SizeInv`, with lemmas that count) |
| `AftermathProofs` | `MilestoneConfirmedOnce`, `ObligationFinedOnce`, `TeamsAreRemindedTwice`, `ContactsNeedAcceptance` | what the cron, the sweep and an answer under way have read is still true when they write |
| | `StandingsAreOfOneMoment` | the page's reviews are finalized, so the scores it reads last are the scores they were finalized with |
| `PeopleProofs` | `InvitesAdmitOne`, `InvitesArePersonal`, `VerifiedNamesStand` | `InviteInv`: whoever an invitation admitted has claimed it, and grants only grow. `PersonalInv`: a claim under way is of a person entitled to it. `NameInv`: the one request under way has read the name and the status as they are |
| | `RevokedSessionsStayOut`, `AccountsTypes` | `SessionInv`: a revoked session carries an older version |
| | `EveryoneIsToldOnce`, `ConsentStands` | `MailingInv`: the run under way has told nobody it is about to tell (one runner; `IsFiniteSet(Runners)` is a premise). `ConsentInv`: a write under way that would put an address back has its owner's consent |
| | `AllowanceIsBounded` | `RateInv`: every call on record was counted in its counter's window, so no two have the same counter, window and count. A stretch of one window's length meets two windows of a counter, which gives each call in it a number of its own below twice the limit (`IsFiniteSet(Processes)` is a premise) |
| `PublishingProofs` | `PublishedStaysSound` | `DraftInv`: a write under way was checked against the row it will be written to, when requests are served one at a time |
| | `NoRowIsDropped` | `WizardInv`: past the prizes' step, and after a refusal, the rows pass that step's check |
| | `EveryCountIsKept` | `DirectoryInv`: the promised number is the number of rows that the followed link shows now. The lemma `HrefLeadsBack` says that the link of a filter reads back as the query it was made from |
| `PlatformProofs` | `NobodyIsStranded` | `RowsAgree`: the rows that pages read and the rows that handlers read agree where it matters: an entry is a team's, an open checkout belongs to an event that waits or was cancelled, payouts exist from the announcement on, the milestone's from its confirmation on |
| | `PlatformKeepsItsPromises` | none: each behaviour of the composition is one of each part (`Follows...`), so that the parts' theorems carry over |

Each proof splits a step into the actions of `Next`, with lemmas for starting a handler, moving it on, and the
faults. The premises are needed: with the sweep among several handlers a payout is paid twice (section 3), with two handlers a
cancelled event can be opened for judging and announced, a confirmation overwrites a reversal and an expiry a
credit; with two workers one fact has two rows.

Two statements did not survive the attempt. That an invitation makes a member of nobody but its addressee is false
with two invitations: the addressee joins by another one, and then anybody may use the first
(`accept-invitation.ts:12-16`); `InviteIsPersonal` says what is true. And the calls let through were counted per
hour at first, too coarse to tell two calls of a window apart: `RateLimit` keeps a record of each, with its counter, window and
number.

Only model-checked, and why:

- liveness (the prover here has no `ENABLED`): `PayoutsClose`, `VaultUnlocks`, `NoChargeLost`, `ChainCatchesUp`, `CheckinsClose`,
  `ReleaseIsPaid`, `WinnersAreCredited`;
- `StandingsAreFair`: a sort and a fold over a sequence, which need induction over data. What concurrency can do to the standings is
  proved (`StandingsAreOfOneMoment`): they are the function `ComputeResults` of one moment's reviews. That the function
  ranks fairly is checked on sheets that include ties; with other weights and scores the rounding to hundredths can make
  different means tie, in the code as in the model;
- `SeedIsBacked`: the demo rows are one fixed list, which the run goes through whole; the only parameter is how often
  it is run. The sums over that list are folds, which a proof could only unroll number by number.

Defined and true of the model on small instances, but in no run, because another property of the same part says more:
the type invariants (those of the payout engine, funding, attestation, competition and accounts are proved), `LateIsFined` (liveness), and, proved, `AttemptsCapped`, `OneEntry` with one worker,
`SucceededStaysSucceeded` and `OrganizerCancelsWithoutVault` with one handler, `InviteIsPersonal`, `VerifiedNameStands`,
`StandingsAreCurrent`, `RemindersAreFew` and `ContactsFollowAcceptance`.

## 7. What is not modelled

- A transfer request that reaches the provider after the client has given up on it and asked: acceptance is one step
  with the request or with its loss.
- The zero-KES milestone (the minimum prize makes it unreachable), backoff delays and ages of rows (a delay is "any time
  later"), batch limits of the money crons, amounts and fees.
- The simulated payment and chain ports, roles and views of the contracts, signature checks, pg-boss's own polling.
- The legs of the reconciliation that only report.
- Linking an OAuth account to an existing one (the auth library does it), the sign-in alert, contact fields, documents and
  profile texts, the texts of submissions and feedback.
- Notifications that nothing reads back, layout and wording of pages, settings pages, marketing pages, blog and SEO.
- Inside `Desks` each handler is one step; its interleavings are in the module of its component.

## 8. What a next step would add

1. `EventFunding` composed with `PayoutEngine` in one state space, for a charge or cancellation that crosses the
   announcement; today they meet at `Money`.
2. The remaining type invariants as theorems, and the payout engine's premises (no sweep, or one handler at a time) weakened to a bound on how
   late an accepted transfer may show up at the provider.
3. The reconciliation's reporting legs, against the disagreements above.
