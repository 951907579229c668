---------------------------- MODULE EventFunding ----------------------------
(***************************************************************************)
(* How one hackathon gets funded, goes live, is judged or is cancelled:    *)
(* services/escrow/deposits.ts, the charge branch of                       *)
(* services/escrow/webhook.ts, services/escrow/refund.ts and the event     *)
(* status writes of lib/events and services/judging, run concurrently.     *)
(*                                                                         *)
(* A handler is a process whose frame holds its local variables; each      *)
(* awaited statement or transaction is one step.  The payer and the        *)
(* payment provider are the environment.                                   *)
(*                                                                         *)
(* The amounts are left out.  A checkout is opened for the whole pool that *)
(* remains, so a deposit covers it, alone or with what came before, unless *)
(* the prizes have risen since: a late draft save (Drafts) can do that.    *)
(***************************************************************************)
EXTENDS Naturals

CONSTANTS
    Deposits,     \* the checkouts that may be opened
    Procs,        \* handler instances
    None,         \* "no deposit" in a frame
    CrashBound,   \* model bound: deaths of handlers
    Callers,      \* which handlers run: a subset of AllCallers
    Faults        \* which faults happen: a subset of AllFaults

AllCallers == {"publish", "deposit", "webhook", "expire", "organizerCancel",
               "adminCancel", "start", "judging", "announce"}
AllFaults  == {"crash", "lookupError", "raisedPrizes"}

EventStatus     == {"DRAFT", "PENDING_DEPOSIT", "LIVE", "IN_PROGRESS", "JUDGING",
                    "WINNERS_ANNOUNCED", "CANCELLED"}
\* "none" is a row that does not exist yet.
VaultChainState == {"none", "AWAITING", "LOCKED", "REFUNDED"}
DepositStatus   == {"none", "INITIATED", "SUCCEEDED", "FAILED"}
HookStatus      == {"none", "recorded", "processed"}

ControlPoints == {"idle", "publish", "createVault", "createDeposit", "chargeRead",
                  "chargeTx", "overpaid", "orphan", "markProcessed", "expire",
                  "organizerCancel", "adminCancel", "refundRead", "refundWrite",
                  "judging"}

\* Where a handler works on a deposit.
DepositPoints == {"createVault", "createDeposit", "chargeRead", "chargeTx",
                  "overpaid", "orphan", "markProcessed"}

\* A handler's locals: the deposit it works on, whether that was seen to cover the
\* pool, the vault state it has read, and the stale deposits of the expiry cron.
Frames ==
    {f \in [pc : ControlPoints, deposit : Deposits \cup {None},
            covered : BOOLEAN, vault : VaultChainState, stale : SUBSET Deposits] :
       f.pc \in DepositPoints => f.deposit \in Deposits}

Idle == [pc |-> "idle", deposit |-> None, covered |-> FALSE, vault |-> "none",
         stale |-> {}]

ASSUME ConstantsAssumption ==
    /\ None \notin Deposits
    /\ CrashBound \in Nat
    /\ Callers \subseteq AllCallers
    /\ Faults \subseteq AllFaults

-----------------------------------------------------------------------------
VARIABLES
    event,     \* Event.status
    vault,     \* VaultState.chainState
    deposit,   \* Deposit.status by deposit
    hook,      \* the WebhookEvent row of each deposit's charge.success
    short,     \* deposits opened before the prizes were raised
    charged,   \* deposits the provider has captured money for
    paged,     \* deposits for which the admins were alerted
    lockedBy,  \* history: the deposits whose charge locked the vault
    proc,      \* the frames of the handlers
    crashes    \* deaths so far

db   == <<event, vault, deposit, short>>
out  == <<hook, paged, lockedBy>>
vars == <<event, vault, deposit, short, hook, charged, paged, lockedBy, proc, crashes>>

Init ==
    /\ event = "DRAFT"
    /\ vault = "none"
    /\ deposit = [d \in Deposits |-> "none"]
    /\ short = {}
    /\ hook = [d \in Deposits |-> "none"]
    /\ charged = {}
    /\ paged = {}
    /\ lockedBy = {}
    /\ proc = [w \in Procs |-> Idle]
    /\ crashes = 0

-----------------------------------------------------------------------------
(* Helpers *)

Go(w, f)    == proc' = [proc EXCEPT ![w] = f]
Step(w, pc) == Go(w, [proc[w] EXCEPT !.pc = pc])
Done(w)     == Go(w, Idle)
At(w, pc)   == proc[w].pc = pc

\* A free handler that takes call c starts at pc.
Free(w, c) == c \in Callers /\ At(w, "idle")
Start(pc)  == [Idle EXCEPT !.pc = pc]

\* Only an AWAITING vault is locked, and only once.
MutantLockable == vault # "none"
Lockable       == vault = "AWAITING"

\* A webhook event is routed until it is marked processed.
MutantRoutable(d) == hook[d] = "none"
Routable(d)       == hook[d] # "processed"

\* Where a charge goes, by the status its deposit is read in.
MutantChargeRoute(s) == IF s = "INITIATED" THEN "chargeTx" ELSE "markProcessed"
ChargeRoute(s) ==
    CASE s = "SUCCEEDED" -> "markProcessed"
      [] s = "INITIATED" -> "chargeTx"
      [] OTHER           -> "orphan"

\* What is left of the pool once a deposit that was opened for it has succeeded.
Succeeded == {d \in Deposits : deposit[d] = "SUCCEEDED"}
Remaining == Succeeded \subseteq short

\* Whether deposit d covers the pool, with those that have succeeded: of those that
\* were opened for a smaller pool, several may or may not be enough.
Covers(d) == IF d \notin short \/ ~Remaining THEN {TRUE}
             ELSE IF Succeeded # {} THEN BOOLEAN ELSE {FALSE}

\* What the expiry cron selects, and what it makes of it.
Expirable(d)        == deposit[d] = "INITIATED"
ExpiredStatus       == "FAILED"

\* Which vaults refundLockedVault accepts, and the organizer may cancel with.
Refundable             == vault = "LOCKED"
OrganizerMayDrop       == vault = "none"

AdminCancellable       == {"DRAFT", "PENDING_DEPOSIT", "LIVE", "IN_PROGRESS", "JUDGING"}
OrganizerCancellable   == {"DRAFT", "PENDING_DEPOSIT"}

\* From where an event starts, and from where its winners are announced.
MutantStartable    == event \in {"PENDING_DEPOSIT", "LIVE"}
Startable          == event = "LIVE"
MutantAnnounceable == event \notin {"DRAFT", "WINNERS_ANNOUNCED"}
Announceable       == event = "JUDGING"

-----------------------------------------------------------------------------
(* publishEventAction *)

PublishRead(w) ==
    /\ Free(w, "publish")
    /\ event = "DRAFT"
    /\ Go(w, Start("publish"))
    /\ UNCHANGED <<db, out, charged, crashes>>

\* Written without looking at the status again.
PublishWrite(w) ==
    /\ At(w, "publish")
    /\ event' = "PENDING_DEPOSIT"
    /\ Done(w)
    /\ UNCHANGED <<vault, deposit, short, out, charged, crashes>>

\* A draft save that was checked before the publication replaces the prizes after
\* it, by more: what has been opened so far is for a smaller pool.
RaisePrizes ==
    /\ "raisedPrizes" \in Faults
    /\ event # "DRAFT"
    /\ short' = {d \in Deposits :
                   \/ deposit[d] # "none"
                   \/ \E w \in Procs : proc[w].deposit = d}
    /\ UNCHANGED <<event, vault, deposit, out, charged, proc, crashes>>

-----------------------------------------------------------------------------
(* initiateDeposit *)

\* Published, and something of the pool is left to fund.
InitiateRead(w, d) ==
    /\ Free(w, "deposit")
    /\ deposit[d] = "none"
    /\ event = "PENDING_DEPOSIT"
    /\ Remaining
    /\ Go(w, [Start(IF vault = "none" THEN "createVault" ELSE "createDeposit")
                EXCEPT !.deposit = d])
    /\ short' = short \ {d}
    /\ UNCHANGED <<event, vault, deposit, out, charged, crashes>>

\* One vault per event: the second creation violates the unique key and throws.
CreateVault(w) ==
    /\ At(w, "createVault")
    /\ IF vault = "none"
       THEN vault' = "AWAITING" /\ Step(w, "createDeposit")
       ELSE Done(w) /\ UNCHANGED vault
    /\ UNCHANGED <<event, deposit, short, out, charged, crashes>>

\* The checkout is opened and the deposit row created; the payer gets the URL
\* only then.  A reference is random, so no two rows share one.
CreateDeposit(w) ==
    LET d == proc[w].deposit IN
    /\ At(w, "createDeposit")
    /\ deposit' = IF deposit[d] = "none" THEN [deposit EXCEPT ![d] = "INITIATED"]
                  ELSE deposit
    /\ Done(w)
    /\ UNCHANGED <<event, vault, short, out, charged, crashes>>

\* The payer completes a checkout, even one whose deposit has expired.
PayerPays(d) ==
    /\ deposit[d] # "none"
    /\ d \notin charged
    /\ charged' = charged \cup {d}
    /\ UNCHANGED <<db, out, proc, crashes>>

-----------------------------------------------------------------------------
(* processPaystackWebhook, charge.success, and recordChargeSuccess *)

\* A delivery records the event; a replay, or the outbox cron, takes up one that
\* was recorded and not processed.
ReceiveCharge(w, d) ==
    /\ Free(w, "webhook")
    /\ d \in charged
    /\ Routable(d)
    /\ hook' = [hook EXCEPT ![d] = "recorded"]
    /\ Go(w, [Start("chargeRead") EXCEPT !.deposit = d])
    /\ UNCHANGED <<db, paged, lockedBy, charged, crashes>>

ChargeRead(w) ==
    LET d == proc[w].deposit IN
    /\ At(w, "chargeRead")
    /\ \E c \in Covers(d) :
         Go(w, [proc[w] EXCEPT !.pc = ChargeRoute(deposit[d]), !.covered = c])
    /\ UNCHANGED <<db, out, charged, crashes>>

\* One transaction: the deposit succeeds.  Of those that were seen to cover the pool
\* the first to find the vault AWAITING locks it and takes the event live, any other
\* is an overpayment.
ChargeTx(w) ==
    LET d == proc[w].deposit IN
    /\ At(w, "chargeTx")
    /\ deposit' = [deposit EXCEPT ![d] = "SUCCEEDED"]
    /\ IF proc[w].covered /\ Lockable
       THEN /\ vault' = "LOCKED"
            /\ event' = "LIVE"
            /\ lockedBy' = lockedBy \cup {d}
            /\ Step(w, "markProcessed")
       ELSE /\ Step(w, IF proc[w].covered THEN "overpaid" ELSE "markProcessed")
            /\ UNCHANGED <<vault, event, lockedBy>>
    /\ UNCHANGED <<short, hook, paged, charged, crashes>>

\* Ops is paged about the overpayment.
Overpaid(w) ==
    /\ At(w, "overpaid")
    /\ paged' = paged \cup {proc[w].deposit}
    /\ Step(w, "markProcessed")
    /\ UNCHANGED <<db, hook, lockedBy, charged, crashes>>

\* A charge on a lapsed deposit is verified at the provider, and paged only when
\* the verification answers; a failed lookup leaves a log line.
Orphan(w) ==
    /\ At(w, "orphan")
    /\ paged' \in {paged \cup {proc[w].deposit}}
                    \cup (IF "lookupError" \in Faults THEN {paged} ELSE {})
    /\ Step(w, "markProcessed")
    /\ UNCHANGED <<db, hook, lockedBy, charged, crashes>>

MarkProcessed(w) ==
    /\ At(w, "markProcessed")
    /\ hook' = [hook EXCEPT ![proc[w].deposit] = "processed"]
    /\ Done(w)
    /\ UNCHANGED <<db, paged, lockedBy, charged, crashes>>

-----------------------------------------------------------------------------
(* expireStaleDeposits *)

\* Which of the INITIATED deposits are 24 hours old is left open.
ExpireRead(w) ==
    /\ Free(w, "expire")
    /\ \E old \in (SUBSET {d \in Deposits : Expirable(d)}) \ {{}} :
         Go(w, [Start("expire") EXCEPT !.stale = old])
    /\ UNCHANGED <<db, out, charged, crashes>>

\* The update selects by id alone.
ExpireWrite(w) ==
    /\ At(w, "expire")
    /\ deposit' = [d \in Deposits |->
                     IF d \in proc[w].stale THEN ExpiredStatus ELSE deposit[d]]
    /\ Done(w)
    /\ UNCHANGED <<event, vault, short, out, charged, crashes>>

-----------------------------------------------------------------------------
(* Cancellation and refund *)

OrganizerCancelRead(w) ==
    /\ Free(w, "organizerCancel")
    /\ event \in OrganizerCancellable
    /\ OrganizerMayDrop
    /\ Go(w, Start("organizerCancel"))
    /\ UNCHANGED <<db, out, charged, crashes>>

\* Conditional on the status, not on the vault.
OrganizerCancelTx(w) ==
    /\ At(w, "organizerCancel")
    /\ event' = IF event \in OrganizerCancellable THEN "CANCELLED" ELSE event
    /\ Done(w)
    /\ UNCHANGED <<vault, deposit, short, out, charged, crashes>>

AdminCancelRead(w) ==
    /\ Free(w, "adminCancel")
    /\ event \in AdminCancellable
    /\ Go(w, [Start("adminCancel") EXCEPT !.vault = vault])
    /\ UNCHANGED <<db, out, charged, crashes>>

\* Conditional on the status; a refund follows if the vault was read LOCKED.
AdminCancelTx(w) ==
    /\ At(w, "adminCancel")
    /\ IF event \in AdminCancellable
       THEN /\ event' = "CANCELLED"
            /\ IF proc[w].vault = "LOCKED" THEN Step(w, "refundRead") ELSE Done(w)
       ELSE Done(w) /\ UNCHANGED event
    /\ UNCHANGED <<vault, deposit, short, out, charged, crashes>>

\* refundLockedVault accepts a LOCKED vault (or a HALF_RELEASED one: that is
\* after the announcement, where this module ends).
RefundRead(w) ==
    /\ At(w, "refundRead")
    /\ IF Refundable THEN Step(w, "refundWrite") ELSE Done(w)
    /\ UNCHANGED <<db, out, charged, crashes>>

RefundWrite(w) ==
    /\ At(w, "refundWrite")
    /\ vault' = "REFUNDED"
    /\ Done(w)
    /\ UNCHANGED <<event, deposit, short, out, charged, crashes>>

-----------------------------------------------------------------------------
(* The event's way to judging and to the winners *)

\* advanceStartedEvents: one conditional update.
AdvanceStarted(w) ==
    /\ Free(w, "start")
    /\ Startable
    /\ event' = "IN_PROGRESS"
    /\ UNCHANGED <<vault, deposit, short, out, charged, proc, crashes>>

OpenJudgingRead(w) ==
    /\ Free(w, "judging")
    /\ event \in {"LIVE", "IN_PROGRESS"}
    /\ Go(w, Start("judging"))
    /\ UNCHANGED <<db, out, charged, crashes>>

\* Written without looking at the status again.
OpenJudgingTx(w) ==
    /\ At(w, "judging")
    /\ event' = "JUDGING"
    /\ Done(w)
    /\ UNCHANGED <<vault, deposit, short, out, charged, crashes>>

\* announceWinners commits under a condition on the status; no check of the
\* vault is made.
AnnounceWinners(w) ==
    /\ Free(w, "announce")
    /\ Announceable
    /\ event' = "WINNERS_ANNOUNCED"
    /\ UNCHANGED <<vault, deposit, short, out, charged, proc, crashes>>

Crash(w) ==
    /\ "crash" \in Faults
    /\ crashes < CrashBound
    /\ ~At(w, "idle")
    /\ Done(w)
    /\ crashes' = crashes + 1
    /\ UNCHANGED <<db, out, charged>>

-----------------------------------------------------------------------------
Begin(w) ==
    \/ PublishRead(w)
    \/ \E d \in Deposits : InitiateRead(w, d) \/ ReceiveCharge(w, d)
    \/ ExpireRead(w)
    \/ OrganizerCancelRead(w) \/ AdminCancelRead(w)
    \/ AdvanceStarted(w) \/ OpenJudgingRead(w) \/ AnnounceWinners(w)

Continue(w) ==
    \/ PublishWrite(w) \/ CreateVault(w) \/ CreateDeposit(w)
    \/ ChargeRead(w) \/ ChargeTx(w) \/ Overpaid(w) \/ Orphan(w) \/ MarkProcessed(w)
    \/ ExpireWrite(w)
    \/ OrganizerCancelTx(w) \/ AdminCancelTx(w) \/ RefundRead(w) \/ RefundWrite(w)
    \/ OpenJudgingTx(w)

Next ==
    \/ \E w \in Procs : Begin(w) \/ Continue(w) \/ Crash(w)
    \/ \E d \in Deposits : PayerPays(d)
    \/ RaisePrizes

Spec == Init /\ [][Next]_vars

\* Fairness.  A handler goes on until it ends or dies; the provider repeats a
\* webhook and the hourly outbox cron retries a recorded one, whenever a handler
\* is free.
Fairness ==
    /\ \A w \in Procs : WF_vars(Continue(w))
    /\ \A d \in Deposits : SF_vars(\E w \in Procs : ReceiveCharge(w, d))

FairSpec == Spec /\ Fairness

-----------------------------------------------------------------------------
(* Properties *)

\* The variables keep their types.
TypeOK ==
    /\ event \in EventStatus
    /\ vault \in VaultChainState
    /\ deposit \in [Deposits -> DepositStatus]
    /\ short \subseteq Deposits
    /\ hook \in [Deposits -> HookStatus]
    /\ charged \subseteq Deposits
    /\ paged \subseteq Deposits
    /\ lockedBy \subseteq Deposits
    /\ proc \in [Procs -> Frames]
    /\ crashes \in Nat

\* "Prize Verified": a hackathon that is live or in progress has its pool locked,
\* whatever is being cancelled, refunded, paid or expired at the same time.
PrizeVerified == event \in {"LIVE", "IN_PROGRESS"} => vault = "LOCKED"

\* A vault is locked by the charge of exactly one deposit, and that money was
\* really captured; no deposit succeeds without a charge.
VaultIsBacked ==
    /\ \A d, e \in lockedBy : d = e
    /\ vault \in {"LOCKED", "REFUNDED"} => lockedBy # {}
    /\ lockedBy \subseteq charged
    /\ \A d \in Deposits : deposit[d] = "SUCCEEDED" => d \in charged

\* The vault column only moves along the edges of the on-chain state machine.
VaultEdges == [none     |-> {"AWAITING"},
               AWAITING |-> {"LOCKED"},
               LOCKED   |-> {"REFUNDED"},
               REFUNDED |-> {}]
VaultFollowsContract == [][vault' \in VaultEdges[vault]]_vault

\* What the rows say has happened to the money, and the account of it that the
\* ledger builds on.  Nothing is paid out before the announcement.
Facts == (IF vault = "none" THEN {} ELSE {"VAULT_CREATED"})
           \cup (IF vault \in {"LOCKED", "REFUNDED"} THEN {"DEPOSIT_LOCKED"} ELSE {})
           \cup (IF vault = "REFUNDED" THEN {"VAULT_REFUNDED"} ELSE {})

Bank == INSTANCE Money WITH
    Created    <- "VAULT_CREATED",
    Locked     <- "DEPOSIT_LOCKED",
    Refunded   <- "VAULT_REFUNDED",
    Instants   <- {},
    Milestones <- {},
    Before     <- [p \in {} |-> p],
    Released   <- [p \in {} |-> p],
    facts      <- Facts

\* However deposits, charges, cancellations and refunds overlap, the money moves as
\* Money says: a vault is opened once, locked once, and refunded only when locked.
MoneyMoves == Bank!Spec

\* The strengthening of the three: what a handler has read about the deposit,
\* the vault and the event is still good enough when it writes.
FrameIsBacked(f) ==
    /\ f.pc \in {"chargeRead", "chargeTx"} => f.deposit \in charged
    /\ f.vault = "LOCKED" => vault \in {"LOCKED", "REFUNDED"}
    /\ f.pc \in {"refundRead", "refundWrite"} =>
          f.vault = "LOCKED" /\ event \notin {"LIVE", "IN_PROGRESS"}

FundingIsBacked ==
    /\ PrizeVerified
    /\ VaultIsBacked
    /\ vault \in {"none", "AWAITING"} => lockedBy = {}
    /\ \A w \in Procs : FrameIsBacked(proc[w])

\* A successful deposit is never expired.
SucceededStaysSucceeded ==
    [][\A d \in Deposits : deposit[d] = "SUCCEEDED" => deposit'[d] = "SUCCEEDED"]_vars

\* The organizer never cancels a hackathon that has a vault.
OrganizerCancelsWithoutVault ==
    [][\A w \in Procs :
         /\ proc[w].pc = "organizerCancel"
         /\ event # "CANCELLED" /\ event' = "CANCELLED"
         => vault = "none"]_vars

\* Winners are never announced on a pool that was given back.
AnnouncedIsFunded == event = "WINNERS_ANNOUNCED" => vault = "LOCKED"

\* A cancelled hackathon stays cancelled.
CancelledIsFinal == [][event = "CANCELLED" => event' = "CANCELLED"]_vars

\* A processed charge is either credited to its deposit or paged.
ChargeIsPaged ==
    \A d \in Deposits : hook[d] = "processed" => deposit[d] = "SUCCEEDED" \/ d \in paged

\* No captured money is lost: it is credited, or the admins are paged, even if
\* the handler dies on the way.
NoChargeLost ==
    \A d \in Deposits : d \in charged ~> deposit[d] = "SUCCEEDED" \/ d \in paged
=============================================================================
