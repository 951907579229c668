------------------------------ MODULE Disputes ------------------------------
(***************************************************************************)
(* The milestone of one winner: the organizer's confirmation               *)
(* (services/payout/service.ts), and the dispute a winner opens and an     *)
(* administrator releases, rejects or refunds (services/legacy/service.ts).*)
(* Both sides create the MILESTONE payout; what is tracked is who did.     *)
(***************************************************************************)
EXTENDS Integers, FiniteSets

CONSTANTS
    Admins,       \* administrators with a role grant
    OrgAdmins,    \* organization admins that confirm milestones
    NoOne

ASSUME DisputesAssumption ==
    /\ NoOne \notin Admins \cup OrgAdmins
    /\ Admins \cap OrgAdmins = {}

VARIABLES
    windowOpen,   \* 14 days have passed since the announcement
    instantPaid,  \* the instant tranche is SUCCEEDED
    recipient,    \* the winner's profile has a payout recipient
    dispute,      \* Dispute.status; "none" without a row
    filing,       \* the winner's dispute form has been checked
    confirmedBy,  \* Milestone.confirmedBy
    payoutBy,     \* who created the MILESTONE payout
    queued,       \* its payout.execute job was enqueued
    funds,        \* VaultState.chainState, as far as a refund changes it
    desk          \* what each administrator and organizer is in the middle of

disputesVars == <<windowOpen, instantPaid, recipient, dispute, filing, confirmedBy,
                  payoutBy, queued, funds, desk>>

DisputeStatus == {"none", "OPEN", "RESOLVED_RELEASE", "RESOLVED_REFUND", "REJECTED"}
Tasks == {"idle", "refundCheck", "refundWrite", "vaultRefund", "reject", "release",
          "releaseRead", "confirmTx", "enqueue"}

DisputesInit ==
    /\ windowOpen = FALSE
    /\ instantPaid = FALSE
    /\ recipient \in BOOLEAN
    /\ dispute = "none"
    /\ filing = FALSE
    /\ confirmedBy = NoOne
    /\ payoutBy = {}
    /\ queued = FALSE
    /\ funds = "LOCKED"
    /\ desk = [u \in Admins \cup OrgAdmins |-> "idle"]

-----------------------------------------------------------------------------
At(u, task)   == desk[u] = task
Turn(u, task) == desk' = [desk EXCEPT ![u] = task]

MutantConfirmable == confirmedBy = NoOne /\ payoutBy = {} /\ recipient /\ instantPaid

\* What both confirming paths require of the winner's rows.
Confirmable == confirmedBy = NoOne /\ payoutBy = {} /\ recipient

MutantPayoutUnique(u) == u \notin payoutBy

\* The idempotency key <winner>:MILESTONE is unique: a second create throws.
PayoutUnique(u) == payoutBy = {}

-----------------------------------------------------------------------------
(* openMilestoneDispute *)

CanOpenDispute == windowOpen

OpenDispute ==
    /\ ~filing
    /\ confirmedBy = NoOne
    /\ CanOpenDispute
    /\ dispute # "OPEN"
    /\ filing' = TRUE
    /\ UNCHANGED <<windowOpen, instantPaid, recipient, dispute, confirmedBy, payoutBy, queued, funds, desk>>

\* One dispute row per winner: after a resolved one the create throws.
OpenDisputeWrite ==
    /\ filing
    /\ dispute' = IF dispute = "none" THEN "OPEN" ELSE dispute
    /\ filing' = FALSE
    /\ UNCHANGED <<windowOpen, instantPaid, recipient, confirmedBy, payoutBy, queued, funds, desk>>

-----------------------------------------------------------------------------
(* resolveDispute: each resolution reads OPEN first, and writes by id later *)

Resolve(a) ==
    /\ At(a, "idle")
    /\ dispute = "OPEN"
    /\ \/ Turn(a, "reject")
       \/ Turn(a, "release")
       \/ Cardinality(Admins) > 1 /\ Turn(a, "refundCheck")
    /\ UNCHANGED <<windowOpen, instantPaid, recipient, dispute, filing, confirmedBy, payoutBy, queued, funds>>

\* A milestone payout of any status rules the refund out.
RefundCheck(a) ==
    /\ At(a, "refundCheck")
    /\ Turn(a, IF payoutBy = {} THEN "refundWrite" ELSE "idle")
    /\ UNCHANGED <<windowOpen, instantPaid, recipient, dispute, filing, confirmedBy, payoutBy, queued, funds>>

RefundWrite(a) ==
    /\ At(a, "refundWrite")
    /\ dispute' = "RESOLVED_REFUND"
    /\ Turn(a, "vaultRefund")
    /\ UNCHANGED <<windowOpen, instantPaid, recipient, filing, confirmedBy, payoutBy, queued, funds>>

RefundVault(a) ==
    /\ At(a, "vaultRefund")
    /\ funds' = IF funds \in {"LOCKED", "HALF_RELEASED"} THEN "REFUNDED" ELSE funds
    /\ Turn(a, "idle")
    /\ UNCHANGED <<windowOpen, instantPaid, recipient, dispute, filing, confirmedBy, payoutBy, queued>>

Reject(a) ==
    /\ At(a, "reject")
    /\ dispute' = "REJECTED"
    /\ Turn(a, "idle")
    /\ UNCHANGED <<windowOpen, instantPaid, recipient, filing, confirmedBy, payoutBy, queued, funds>>

Release(a) ==
    /\ At(a, "release")
    /\ dispute' = "RESOLVED_RELEASE"
    /\ Turn(a, "releaseRead")
    /\ UNCHANGED <<windowOpen, instantPaid, recipient, filing, confirmedBy, payoutBy, queued, funds>>

\* The instant tranche and the vault are not looked at.
ReleaseRead(a) ==
    /\ At(a, "releaseRead")
    /\ Turn(a, IF Confirmable THEN "confirmTx" ELSE "idle")
    /\ UNCHANGED <<windowOpen, instantPaid, recipient, dispute, filing, confirmedBy, payoutBy, queued, funds>>

-----------------------------------------------------------------------------
(* confirmMilestone, and the transaction and job of both paths *)

ConfirmMilestone(o) ==
    /\ At(o, "idle")
    /\ instantPaid
    /\ Confirmable
    /\ Turn(o, "confirmTx")
    /\ UNCHANGED <<windowOpen, instantPaid, recipient, dispute, filing, confirmedBy, payoutBy, queued, funds>>

\* The milestone is confirmed and the payout created, or neither.
ConfirmTx(u) ==
    /\ At(u, "confirmTx")
    /\ IF PayoutUnique(u)
       THEN /\ confirmedBy' = u
            /\ payoutBy' = payoutBy \cup {u}
            /\ Turn(u, "enqueue")
       ELSE Turn(u, "idle") /\ UNCHANGED <<confirmedBy, payoutBy>>
    /\ UNCHANGED <<windowOpen, instantPaid, recipient, dispute, filing, queued, funds>>

EnqueuePayout(u) ==
    /\ At(u, "enqueue")
    /\ queued' = TRUE
    /\ Turn(u, "idle")
    /\ UNCHANGED <<windowOpen, instantPaid, recipient, dispute, filing, confirmedBy, payoutBy, funds>>

-----------------------------------------------------------------------------
(* The payout engine and the calendar *)

InstantSucceeds ==
    /\ ~instantPaid
    /\ instantPaid' = TRUE
    /\ funds' = IF funds = "LOCKED" THEN "HALF_RELEASED" ELSE funds
    /\ UNCHANGED <<windowOpen, recipient, dispute, filing, confirmedBy, payoutBy, queued, desk>>

FourteenDays ==
    /\ ~windowOpen
    /\ windowOpen' = TRUE
    /\ UNCHANGED <<instantPaid, recipient, dispute, filing, confirmedBy, payoutBy, queued, funds, desk>>

AdminSteps(a) ==
    \/ RefundCheck(a) \/ RefundWrite(a) \/ RefundVault(a) \/ Reject(a) \/ Release(a) \/ ReleaseRead(a)
    \/ ConfirmTx(a) \/ EnqueuePayout(a)

DisputesNext ==
    \/ OpenDispute \/ OpenDisputeWrite \/ InstantSucceeds \/ FourteenDays
    \/ \E a \in Admins : Resolve(a) \/ AdminSteps(a)
    \/ \E o \in OrgAdmins : ConfirmMilestone(o) \/ ConfirmTx(o) \/ EnqueuePayout(o)

\* A request that has begun goes on.
DisputesFairness ==
    /\ \A a \in Admins : WF_disputesVars(AdminSteps(a))
    /\ \A o \in OrgAdmins : WF_disputesVars(ConfirmTx(o) \/ EnqueuePayout(o))

DisputesSpec == DisputesInit /\ [][DisputesNext]_disputesVars /\ DisputesFairness

-----------------------------------------------------------------------------
(* Properties *)

\* Every variable has its type.
DisputesTypeOK ==
    /\ windowOpen \in BOOLEAN /\ instantPaid \in BOOLEAN /\ recipient \in BOOLEAN
    /\ filing \in BOOLEAN /\ queued \in BOOLEAN
    /\ dispute \in DisputeStatus
    /\ confirmedBy \in Admins \cup OrgAdmins \cup {NoOne}
    /\ payoutBy \subseteq Admins \cup OrgAdmins
    /\ funds \in {"LOCKED", "HALF_RELEASED", "REFUNDED"}
    /\ desk \in [Admins \cup OrgAdmins -> Tasks]

\* The milestone has one payout, created by whoever the milestone says confirmed
\* it, whichever of the organizer and the administrators get there together.
ConfirmedOnce == payoutBy = IF confirmedBy = NoOne THEN {} ELSE {confirmedBy}

\* A dispute resolved by release gets the winner the milestone payout, unless
\* the winner has no payout recipient.
ReleaseIsPaid == dispute = "RESOLVED_RELEASE" ~> ~recipient \/ (payoutBy # {} /\ queued)
=============================================================================
