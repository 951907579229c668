---------------------------- MODULE PayoutEngine ----------------------------
(***************************************************************************)
(* The payout engine of services/payout/service.ts, for one event whose    *)
(* winners have just been announced: the payout.execute worker, the two    *)
(* confirmation paths, the provider webhooks, the stuck-payout sweep, the  *)
(* vault healing cron, the admin queue, the milestone confirmation, and    *)
(* the dispute desk of services/legacy/service.ts, which releases a        *)
(* milestone or refunds the pool: all of them run concurrently against one *)
(* database and one transfer provider.                                     *)
(*                                                                         *)
(* A handler is a process: a frame holds its local variables, and every    *)
(* database statement and every provider request is one atomic step, since *)
(* the code awaits each of them.  Mails, audit rows and log lines are left *)
(* out; nothing reads them back.                                           *)
(***************************************************************************)
EXTENDS Integers, FiniteSets

CONSTANTS
    Winners,            \* the winners of the event
    MilestoneWinners,   \* those whose prize has a milestone tranche
    Procs,              \* handler instances: workers, crons, requests
    None,               \* "no payout" in a frame
    MaxPayoutAttempts,  \* MAX_PAYOUT_ATTEMPTS (5 in the code)
    AttemptBound,       \* model bound: attempts a payout can be claimed for
    CrashBound,         \* model bound: process deaths and database errors
    Callers,            \* which handlers run: a subset of AllCallers
    Faults              \* which faults happen: a subset of AllFaults

-----------------------------------------------------------------------------
(* Type definitions *)

AllCallers == {"job", "webhook", "sweep", "heal", "adminRetry", "markPaid",
               "milestone", "release", "refund"}

\* lostResponse: the transfer request fails before or after the provider acts.
\* lookupError:  a transferStatus lookup answers "unknown".
\* clawback:     the provider reverses a transfer that had succeeded.
\* lostEnqueue:  enqueue swallows a pg-boss failure.
\* redeliver:    a job or a webhook is delivered again.
\* dbError:      a database statement throws inside a handler.
AllFaults == {"lostResponse", "lookupError", "clawback", "lostEnqueue",
              "redeliver", "crash", "dbError"}

Instant(w)   == <<w, "INSTANT">>
Milestone(w) == <<w, "MILESTONE">>
Instants     == {Instant(w) : w \in Winners}
Milestones   == {Milestone(w) : w \in MilestoneWinners}
Payouts      == Instants \cup Milestones

Attempts == 1 .. AttemptBound
NoRef    == 0
Receipt  == AttemptBound + 1       \* an admin's receipt instead of a reference
Refs     == 0 .. AttemptBound + 1

\* "none" is a payout row that does not exist yet.
PayoutStatus    == {"none", "QUEUED", "PROCESSING", "SUCCEEDED", "FAILED",
                    "REVERSED", "MANUAL_REVIEW"}
TransferStatus  == {"absent", "pending", "success", "failed", "reversed"}
Answers         == TransferStatus \cup {"unknown"}
VaultChainState == {"LOCKED", "HALF_RELEASED", "SETTLED", "REFUNDED"}
EventStatus     == {"WINNERS_ANNOUNCED", "SETTLED"}
Facts           == {"open", "instants", "all"}
HookKinds       == {"success", "failed", "reversed"}
Hooks           == [kind : HookKinds, payout : Payouts, ref : Attempts]

ControlPoints ==
    {"idle", "execRead", "claim", "initiate", "record", "lookup",
     "confirmRead", "confirmWrite", "advanceRead", "advanceHalf",
     "advanceSettle", "settleEvent", "attest", "failRead", "failWrite", "parkWrite",
     "hookWrite", "healCount", "retryLookup", "requeue", "milestoneTx",
     "releaseTx", "refundWrite"}

\* Which control points advance the vault, and which work on one payout.
Advancing == {"advanceRead", "advanceHalf", "advanceSettle", "settleEvent", "attest"}
OnPayout  == ControlPoints \ ({"idle", "healCount", "refundWrite"} \cup Advancing)

\* The local variables of a handler: the payout it works on, the reference it
\* was called with, whether it runs inside executePayout's try block, the last
\* provider answer, and what advanceVaultAfter has read.
Locals == [pc : ControlPoints, payout : Payouts \cup {None}, ref : Refs,
           try : BOOLEAN, answer : Answers, vault : VaultChainState \cup {"unread"},
           facts : Facts \cup {"unread"}]

\* What a handler has in hand at each point.
Frames ==
    {f \in Locals :
       /\ f.pc \in OnPayout \/ f.try => f.payout \in Payouts
       /\ f.pc \in {"claim", "initiate", "record"} => f.ref \in Attempts
       /\ f.pc \in {"advanceHalf", "advanceSettle"} => f.facts # "unread"}

Idle == [pc |-> "idle", payout |-> None, ref |-> NoRef, try |-> FALSE,
         answer |-> "unknown", vault |-> "unread", facts |-> "unread"]

ASSUME ConstantsAssumption ==
    /\ Winners # {}
    /\ MilestoneWinners \subseteq Winners
    /\ None \notin Payouts
    /\ MaxPayoutAttempts \in Nat
    /\ AttemptBound \in Nat \ {0}
    /\ CrashBound \in Nat
    /\ Callers \subseteq AllCallers
    /\ Faults \subseteq AllFaults

-----------------------------------------------------------------------------
VARIABLES
    status,        \* Payout.status
    attemptCount,  \* Payout.attemptCount
    reference,     \* Payout.paystackReference: attempt number, NoRef or Receipt
    vault,         \* VaultState.chainState
    event,         \* Event.status
    jobs,          \* payout.execute jobs waiting in pg-boss, by payout
    attests,       \* payouts for which payout.attest was enqueued
    transfer,      \* the provider's transfers, by payout and attempt
    hooks,         \* provider webhooks not yet processed
    proc,          \* the frames of the handlers
    crashes,       \* deaths and database errors so far
    paid,          \* history: <<payout, attempt>> that were ever successful
    manual         \* history: payouts an admin paid by hand

db    == <<status, attemptCount, reference, vault, event>>
queue == <<jobs, attests>>
world == <<transfer, hooks, paid, manual>>
vars  == <<status, attemptCount, reference, vault, event, jobs, attests,
           transfer, hooks, proc, crashes, paid, manual>>

\* announceWinners has committed: INSTANT payouts are QUEUED, milestone rows
\* do not exist, and the payout.execute jobs are enqueued, or some are lost.
Init ==
    /\ status = [p \in Payouts |-> IF p \in Instants THEN "QUEUED" ELSE "none"]
    /\ attemptCount = [p \in Payouts |-> 0]
    /\ reference = [p \in Payouts |-> NoRef]
    /\ vault = "LOCKED"
    /\ event = "WINNERS_ANNOUNCED"
    /\ jobs \in IF "lostEnqueue" \in Faults THEN SUBSET Instants ELSE {Instants}
    /\ attests = {}
    /\ transfer = [p \in Payouts |-> [k \in Attempts |-> "absent"]]
    /\ hooks = {}
    /\ proc = [w \in Procs |-> Idle]
    /\ crashes = 0
    /\ paid = {}
    /\ manual = {}

-----------------------------------------------------------------------------
(* Helpers *)

\* Handler w moves on to frame f.
Go(w, f) == proc' = [proc EXCEPT ![w] = f]

\* Handler w moves on to control point pc; a provider answer is used only once.
Step(w, pc) == Go(w, [proc[w] EXCEPT !.pc = pc, !.answer = "unknown"])

Done(w) == Go(w, Idle)

\* executePayout's catch block: ask the provider about this attempt.
Catch(w) == Go(w, [Idle EXCEPT !.pc = "lookup", !.payout = proc[w].payout,
                               !.ref = proc[w].ref])

At(w, pc) == proc[w].pc = pc

\* A fresh frame for a handler that starts at pc on payout p with reference k.
Start(pc, p, k) == [Idle EXCEPT !.pc = pc, !.payout = p, !.ref = k]

\* enqueue(): best effort, a queue failure is swallowed.
Enqueue(q, p) ==
    {q \cup {p}} \cup (IF "lostEnqueue" \in Faults THEN {q} ELSE {})

\* What is left of a set of messages once m is delivered.
Deliver(q, m) ==
    {q \ {m}} \cup (IF "redeliver" \in Faults THEN {q} ELSE {})

\* Provider truth for a reference; a receipt or a missing one is unknown to it.
Truth(p, k) == IF k \in Attempts THEN transfer[p][k] ELSE "absent"

LookupAnswers(p, k) ==
    {Truth(p, k)} \cup (IF "lookupError" \in Faults THEN {"unknown"} ELSE {})

\* What to do once the transfer request has thrown.
MutantConfirmPending(a) == IF a \in {"success", "pending"} THEN "confirm" ELSE "retry"
MutantRetryPending(a)   == IF a = "success" THEN "confirm" ELSE "retry"
AfterAmbiguousTransferError(a) ==
    CASE a = "success"                         -> "confirm"
      [] a \in {"failed", "reversed", "absent"} -> "retry"
      [] OTHER                                 -> "hold"

\* The statuses from which an attempt can be claimed.
MutantClaimable(p) == status[p] # "SUCCEEDED"
Claimable(p)       == status[p] \in {"QUEUED", "FAILED"}

\* retryDecision: the attempt cap.
CapReached(n)       == n >= MaxPayoutAttempts

\* The statuses that confirmTransferSuccess leaves alone.
MutantDecided == {"SUCCEEDED"}
Decided       == {"SUCCEEDED", "REVERSED"}

\* What a transfer.failed or transfer.reversed webhook writes.
HookStatus(kind) == IF kind = "reversed" THEN "REVERSED" ELSE "MANUAL_REVIEW"

\* What sweepStuckPayouts, healVaultStates and adminRetryPayout pick up.
MutantSweepable(p) == status[p] \in {"QUEUED", "FAILED"}
Sweepable(p)       == status[p] \in {"QUEUED", "FAILED", "PROCESSING"}
MutantHealable     == vault = "HALF_RELEASED" /\ event = "WINNERS_ANNOUNCED"
Healable           == vault = "LOCKED" /\ event = "WINNERS_ANNOUNCED"
Retryable(p)       == status[p] \notin {"none", "SUCCEEDED"}

\* advanceVaultAfter's two facts about the winners, computed from payout rows.
MutantInstantComplete ==
    \A p \in Instants : status[p] \in {"SUCCEEDED", "MANUAL_REVIEW", "REVERSED"}
InstantComplete ==
    /\ \A p \in Instants : status[p] \in {"SUCCEEDED", "MANUAL_REVIEW", "REVERSED"}
    /\ \E p \in Instants : status[p] = "SUCCEEDED"

AllSettled       == \A p \in Payouts : status[p] = "SUCCEEDED"

FactsNow == IF AllSettled THEN "all"
            ELSE IF InstantComplete THEN "instants" ELSE "open"

-----------------------------------------------------------------------------
(* executePayout *)

\* What executePayout decides from its first read of the row.
ExecuteFrom(w, p) ==
    IF status[p] \in {"none", "SUCCEEDED", "PROCESSING"}
       \/ attemptCount[p] = AttemptBound
    THEN Done(w)
    ELSE Go(w, Start("claim", p, attemptCount[p] + 1))

\* pg-boss delivers a payout.execute job.
DeliverJob(w, p) ==
    /\ "job" \in Callers
    /\ At(w, "idle")
    /\ p \in jobs
    /\ jobs' \in Deliver(jobs, p)
    /\ ExecuteFrom(w, p)
    /\ UNCHANGED <<db, attests, world, crashes>>

\* executePayout called directly, after adminRetryPayout requeued the row.
ExecuteRead(w) ==
    /\ At(w, "execRead")
    /\ ExecuteFrom(w, proc[w].payout)
    /\ UNCHANGED <<db, queue, world, crashes>>

\* The conditional update that claims the attempt read earlier.
Claim(w) ==
    LET p == proc[w].payout IN
    /\ At(w, "claim")
    /\ IF Claimable(p)
       THEN /\ status' = [status EXCEPT ![p] = "PROCESSING"]
            /\ attemptCount' = [attemptCount EXCEPT ![p] = proc[w].ref]
            /\ reference' = [reference EXCEPT ![p] = proc[w].ref]
            /\ Go(w, [proc[w] EXCEPT !.pc = "initiate", !.try = TRUE])
       ELSE Done(w) /\ UNCHANGED <<status, attemptCount, reference>>
    /\ UNCHANGED <<vault, event, queue, world, crashes>>

\* The provider accepts a reference once and answers at once or later.
InitiateAccepted(w) ==
    LET p == proc[w].payout
        k == proc[w].ref
    IN
    /\ At(w, "initiate")
    /\ transfer[p][k] = "absent"
    /\ \E s \in {"pending", "success", "failed"} :
         /\ transfer' = [transfer EXCEPT ![p][k] = s]
         /\ paid' = IF s = "success" THEN paid \cup {<<p, k>>} ELSE paid
         /\ hooks' = IF s = "pending" THEN hooks
                     ELSE hooks \cup {[kind |-> s, payout |-> p, ref |-> k]}
         /\ \/ Go(w, [proc[w] EXCEPT !.pc = "record", !.answer = s])
            \/ "lostResponse" \in Faults /\ Catch(w)
    /\ UNCHANGED <<db, queue, manual, crashes>>

\* The request throws and the provider has done nothing: it was never reached,
\* or it refuses a reference it has already seen.
InitiateRefused(w) ==
    LET p == proc[w].payout
        k == proc[w].ref
    IN
    /\ At(w, "initiate")
    /\ transfer[p][k] # "absent" \/ "lostResponse" \in Faults
    /\ Catch(w)
    /\ UNCHANGED <<db, queue, world, crashes>>

\* The transfer's code and reference are stored, whatever the row's status is.
RecordTransfer(w) ==
    LET p == proc[w].payout IN
    /\ At(w, "record")
    /\ reference' = [reference EXCEPT ![p] = proc[w].ref]
    /\ CASE proc[w].answer = "success" -> Step(w, "confirmRead")
         [] proc[w].answer = "failed"  -> Step(w, "failRead")
         [] OTHER                      -> Done(w)
    /\ UNCHANGED <<status, attemptCount, vault, event, queue, world, crashes>>

\* Provider truth after an ambiguous error, or in the sweep: confirm, retry, or
\* hold (afterAmbiguousTransferError).
Lookup(w) ==
    /\ At(w, "lookup")
    /\ \E a \in LookupAnswers(proc[w].payout, proc[w].ref) :
         CASE AfterAmbiguousTransferError(a) = "confirm" ->
                Step(w, "confirmRead")
           [] AfterAmbiguousTransferError(a) = "retry" ->
                Step(w, "failRead")
           [] OTHER -> Done(w)
    /\ UNCHANGED <<db, queue, world, crashes>>

-----------------------------------------------------------------------------
(* confirmTransferSuccess and advanceVaultAfter *)

ConfirmRead(w) ==
    /\ At(w, "confirmRead")
    /\ IF status[proc[w].payout] \in Decided
       THEN Done(w)
       ELSE Step(w, "confirmWrite")
    /\ UNCHANGED <<db, queue, world, crashes>>

ConfirmWrite(w) ==
    LET p == proc[w].payout IN
    /\ At(w, "confirmWrite")
    /\ status' = [status EXCEPT ![p] = "SUCCEEDED"]
    /\ reference' = [reference EXCEPT ![p] = proc[w].ref]
    /\ Step(w, "advanceRead")
    /\ UNCHANGED <<attemptCount, vault, event, queue, world, crashes>>

\* The two reads of advanceVaultAfter run in parallel, in either order.
AdvanceReadVault(w) ==
    /\ At(w, "advanceRead")
    /\ proc[w].vault = "unread"
    /\ IF proc[w].facts = "unread"
       THEN Go(w, [proc[w] EXCEPT !.vault = vault])
       ELSE Go(w, [proc[w] EXCEPT !.vault = vault, !.pc = "advanceHalf"])
    /\ UNCHANGED <<db, queue, world, crashes>>

AdvanceReadFacts(w) ==
    /\ At(w, "advanceRead")
    /\ proc[w].facts = "unread"
    /\ IF proc[w].vault = "unread"
       THEN Go(w, [proc[w] EXCEPT !.facts = FactsNow])
       ELSE Go(w, [proc[w] EXCEPT !.facts = FactsNow, !.pc = "advanceHalf"])
    /\ UNCHANGED <<db, queue, world, crashes>>

\* advanceVaultAfter returns to its caller.
Advanced(w) == Go(w, [proc[w] EXCEPT !.pc = "attest", !.vault = "unread",
                                     !.facts = "unread"])

MutantHalfReleases(f) == f.vault = "LOCKED" /\ f.facts = "instants"
HalfReleases(f)       == f.vault = "LOCKED" /\ f.facts # "open"

\* LOCKED -> HALF_RELEASED, decided from the reads, written unconditionally.
AdvanceHalf(w) ==
    /\ At(w, "advanceHalf")
    /\ vault' = IF HalfReleases(proc[w])
                THEN "HALF_RELEASED" ELSE vault
    /\ IF proc[w].facts = "all" THEN Step(w, "advanceSettle") ELSE Advanced(w)
    /\ UNCHANGED <<status, attemptCount, reference, event, queue, world, crashes>>

\* The vault settles, decided from the earlier read, and then the event.
AdvanceSettle(w) ==
    /\ At(w, "advanceSettle")
    /\ vault' = IF proc[w].vault # "SETTLED" THEN "SETTLED" ELSE vault
    /\ Step(w, "settleEvent")
    /\ UNCHANGED <<status, attemptCount, reference, event, queue, world, crashes>>

SettleEvent(w) ==
    /\ At(w, "settleEvent")
    /\ event' = "SETTLED"
    /\ Advanced(w)
    /\ UNCHANGED <<status, attemptCount, reference, vault, queue, world, crashes>>

\* payout.attest is enqueued after the vault is advanced; healing attests none.
Attest(w) ==
    /\ At(w, "attest")
    /\ attests' \in IF proc[w].payout = None THEN {attests}
                    ELSE Enqueue(attests, proc[w].payout)
    /\ Done(w)
    /\ UNCHANGED <<db, jobs, world, crashes>>

-----------------------------------------------------------------------------
(* handleTransferFailure *)

\* retryDecision on the attempt count just read.
FailRead(w) ==
    /\ At(w, "failRead")
    /\ Step(w, IF CapReached(attemptCount[proc[w].payout])
               THEN "parkWrite" ELSE "failWrite")
    /\ UNCHANGED <<db, queue, world, crashes>>

\* FAILED with the reference, and a delayed retry job.
FailWrite(w) ==
    LET p == proc[w].payout IN
    /\ At(w, "failWrite")
    /\ status' = [status EXCEPT ![p] = "FAILED"]
    /\ reference' = [reference EXCEPT ![p] = proc[w].ref]
    /\ jobs' \in Enqueue(jobs, p)
    /\ Done(w)
    /\ UNCHANGED <<attemptCount, vault, event, attests, world, crashes>>

\* The cap is reached: MANUAL_REVIEW.
ParkWrite(w) ==
    /\ At(w, "parkWrite")
    /\ status' = [status EXCEPT ![proc[w].payout] = "MANUAL_REVIEW"]
    /\ Done(w)
    /\ UNCHANGED <<attemptCount, reference, vault, event, queue, world, crashes>>

-----------------------------------------------------------------------------
(* routeVerifiedEvent, the transfer branches *)

\* transfer.success: the payout is found by its current reference.  An unknown
\* reference is logged and the event is processed all the same.
HookSuccess(w, h) ==
    /\ "webhook" \in Callers
    /\ At(w, "idle")
    /\ h \in hooks /\ h.kind = "success"
    /\ hooks' \in Deliver(hooks, h)
    /\ IF reference[h.payout] = h.ref
       THEN Go(w, Start("confirmRead", h.payout, h.ref))
       ELSE Done(w)
    /\ UNCHANGED <<db, queue, transfer, paid, manual, crashes>>

\* transfer.failed and transfer.reversed: a reversal read on a SUCCEEDED payout
\* only pages the admins; the rest goes on to a conditional update.
HookDead(w, h) ==
    /\ "webhook" \in Callers
    /\ At(w, "idle")
    /\ h \in hooks /\ h.kind \in {"failed", "reversed"}
    /\ hooks' \in Deliver(hooks, h)
    /\ IF /\ reference[h.payout] = h.ref
          /\ ~(h.kind = "reversed" /\ status[h.payout] = "SUCCEEDED")
       THEN Go(w, [Start("hookWrite", h.payout, h.ref) EXCEPT !.answer = h.kind])
       ELSE Done(w)
    /\ UNCHANGED <<db, queue, transfer, paid, manual, crashes>>

\* The conditional update spares a payout that has SUCCEEDED meanwhile.
HookWrite(w) ==
    LET p == proc[w].payout IN
    /\ At(w, "hookWrite")
    /\ status' = IF status[p] = "SUCCEEDED" THEN status
                 ELSE [status EXCEPT ![p] = HookStatus(proc[w].answer)]
    /\ Done(w)
    /\ UNCHANGED <<attemptCount, reference, vault, event, queue, world, crashes>>

-----------------------------------------------------------------------------
(* The crons: sweepStuckPayouts and healVaultStates *)

\* The age filter of the sweep is on queuedAt, which no retry refreshes, so any
\* open payout may be swept.  PROCESSING asks the provider about the stored
\* reference, the others run executePayout.
Sweep(w, p) ==
    /\ "sweep" \in Callers
    /\ At(w, "idle")
    /\ Sweepable(p)
    /\ IF status[p] = "PROCESSING"
       THEN Go(w, Start("lookup", p, reference[p]))
       ELSE ExecuteFrom(w, p)
    /\ UNCHANGED <<db, queue, world, crashes>>

\* The LOCKED vault of an announced event is a candidate.
HealVault(w) ==
    /\ "heal" \in Callers
    /\ At(w, "idle")
    /\ Healable
    /\ Go(w, Start("healCount", None, NoRef))
    /\ UNCHANGED <<db, queue, world, crashes>>

\* Without open payouts the candidate is advanced anew.
HealCount(w) ==
    /\ At(w, "healCount")
    /\ IF \A p \in Payouts : status[p] \notin {"QUEUED", "PROCESSING", "FAILED"}
       THEN Go(w, Start("advanceRead", None, NoRef))
       ELSE Done(w)
    /\ UNCHANGED <<db, queue, world, crashes>>

-----------------------------------------------------------------------------
(* The admin queue, the organizer and the dispute desk *)

\* adminRetryPayout on any payout that has not succeeded.
AdminRetry(w, p) ==
    /\ "adminRetry" \in Callers
    /\ At(w, "idle")
    /\ Retryable(p)
    /\ Go(w, Start(IF reference[p] = NoRef THEN "requeue" ELSE "retryLookup",
                   p, reference[p]))
    /\ UNCHANGED <<db, queue, world, crashes>>

\* The provider-truth gate refuses on success and pending only.
RetryLookup(w) ==
    /\ At(w, "retryLookup")
    /\ \E a \in LookupAnswers(proc[w].payout, proc[w].ref) :
         IF a \in {"success", "pending"} THEN Done(w) ELSE Step(w, "requeue")
    /\ UNCHANGED <<db, queue, world, crashes>>

Requeue(w) ==
    /\ At(w, "requeue")
    /\ status' = [status EXCEPT ![proc[w].payout] = "QUEUED"]
    /\ Step(w, "execRead")
    /\ UNCHANGED <<attemptCount, reference, vault, event, queue, world, crashes>>

\* adminMarkManuallyPaid: the admin has paid outside the system.
MarkManuallyPaid(w, p) ==
    /\ "markPaid" \in Callers
    /\ At(w, "idle")
    /\ status[p] # "none"
    /\ p \notin manual              \* model bound: once per payout
    /\ status' = [status EXCEPT ![p] = "SUCCEEDED"]
    /\ reference' = [reference EXCEPT ![p] = Receipt]
    /\ manual' = manual \cup {p}
    /\ Go(w, Start("advanceRead", p, Receipt))
    /\ UNCHANGED <<attemptCount, vault, event, queue, transfer, hooks, paid, crashes>>

\* confirmMilestone's guards: the instant tranche is paid, no milestone row.
MutantMilestoneDue(x) == status[Milestone(x)] = "none"
MilestoneDue(x)       == status[Instant(x)] = "SUCCEEDED" /\ status[Milestone(x)] = "none"

ConfirmMilestone(w, x) ==
    /\ "milestone" \in Callers
    /\ At(w, "idle")
    /\ MilestoneDue(x)
    /\ Go(w, Start("milestoneTx", Milestone(x), NoRef))
    /\ UNCHANGED <<db, queue, world, crashes>>

\* resolveDispute(RELEASE): the admin stands in for the organizer.  Only a
\* milestone row is looked at, neither the instant tranche nor the vault.  Which
\* disputes are open is the matter of Disputes; here any may be resolved.
ReleaseDispute(w, x) ==
    /\ "release" \in Callers
    /\ At(w, "idle")
    /\ status[Milestone(x)] = "none"
    /\ Go(w, Start("releaseTx", Milestone(x), NoRef))
    /\ UNCHANGED <<db, queue, world, crashes>>

\* Both callers confirm the milestone and create its payout in one transaction;
\* the unique idempotency key refuses a second row.
MilestoneTx(w) ==
    LET p == proc[w].payout IN
    /\ proc[w].pc \in {"milestoneTx", "releaseTx"}
    /\ IF status[p] = "none"
       THEN /\ status' = [status EXCEPT ![p] = "QUEUED"]
            /\ jobs' \in Enqueue(jobs, p)
       ELSE UNCHANGED <<status, jobs>>
    /\ Done(w)
    /\ UNCHANGED <<attemptCount, reference, vault, event, attests, world, crashes>>

\* resolveDispute(REFUND) of a milestone winner: no milestone row, and a vault
\* that refundLockedVault accepts.
DisputeRefund(w, x) ==
    /\ "refund" \in Callers
    /\ At(w, "idle")
    /\ status[Milestone(x)] = "none"
    /\ vault \in {"LOCKED", "HALF_RELEASED"}
    /\ Go(w, Start("refundWrite", None, NoRef))
    /\ UNCHANGED <<db, queue, world, crashes>>

\* The refund is written without looking at the vault again.
RefundWrite(w) ==
    /\ At(w, "refundWrite")
    /\ vault' = "REFUNDED"
    /\ Done(w)
    /\ UNCHANGED <<status, attemptCount, reference, event, queue, world, crashes>>

-----------------------------------------------------------------------------
(* The provider and the faults *)

\* A pending transfer reaches its end and the provider sends a webhook.
ProviderSettles(p, k) ==
    /\ transfer[p][k] = "pending"
    /\ \E s \in {"success", "failed"} :
         /\ transfer' = [transfer EXCEPT ![p][k] = s]
         /\ hooks' = hooks \cup {[kind |-> s, payout |-> p, ref |-> k]}
         /\ paid' = IF s = "success" THEN paid \cup {<<p, k>>} ELSE paid
    /\ UNCHANGED <<db, queue, proc, crashes, manual>>

\* The provider takes the money of a successful transfer back.
ProviderReverses(p, k) ==
    /\ "clawback" \in Faults
    /\ transfer[p][k] = "success"
    /\ transfer' = [transfer EXCEPT ![p][k] = "reversed"]
    /\ hooks' = hooks \cup {[kind |-> "reversed", payout |-> p, ref |-> k]}
    /\ UNCHANGED <<db, queue, proc, crashes, paid, manual>>

\* A handler's process dies.
Crash(w) ==
    /\ "crash" \in Faults
    /\ crashes < CrashBound
    /\ ~At(w, "idle")
    /\ Done(w)
    /\ crashes' = crashes + 1
    /\ UNCHANGED <<db, queue, world>>

\* A statement inside executePayout's try block throws: the catch block asks
\* the provider.
Caught(w) ==
    /\ "dbError" \in Faults
    /\ crashes < CrashBound
    /\ proc[w].try
    /\ ~At(w, "initiate")
    /\ Catch(w)
    /\ crashes' = crashes + 1
    /\ UNCHANGED <<db, queue, world>>

-----------------------------------------------------------------------------
(* The specification *)

\* The steps that start a handler.
Begin(w) ==
    \/ \E p \in Payouts : DeliverJob(w, p)
    \/ \E h \in hooks : HookSuccess(w, h) \/ HookDead(w, h)
    \/ \E p \in Payouts : Sweep(w, p)
    \/ HealVault(w)
    \/ \E p \in Payouts : AdminRetry(w, p)
    \/ \E p \in Payouts : MarkManuallyPaid(w, p)
    \/ \E x \in MilestoneWinners : ConfirmMilestone(w, x) \/ ReleaseDispute(w, x)
                                 \/ DisputeRefund(w, x)

\* The steps of a handler that is under way.
Continue(w) ==
    \/ ExecuteRead(w) \/ Claim(w) \/ InitiateAccepted(w) \/ InitiateRefused(w)
    \/ RecordTransfer(w) \/ Lookup(w)
    \/ ConfirmRead(w) \/ ConfirmWrite(w)
    \/ AdvanceReadVault(w) \/ AdvanceReadFacts(w)
    \/ AdvanceHalf(w) \/ AdvanceSettle(w) \/ SettleEvent(w) \/ Attest(w)
    \/ FailRead(w) \/ FailWrite(w) \/ ParkWrite(w)
    \/ HookWrite(w) \/ HealCount(w) \/ RetryLookup(w) \/ Requeue(w)
    \/ MilestoneTx(w) \/ RefundWrite(w)

Provider ==
    \E p \in Payouts, k \in Attempts : ProviderSettles(p, k) \/ ProviderReverses(p, k)

Next ==
    \/ \E w \in Procs : Begin(w) \/ Continue(w) \/ Crash(w) \/ Caught(w)
    \/ Provider

Spec == Init /\ [][Next]_vars

\* Fairness.  A handler that is under way goes on until it ends or dies.  The
\* payout.cron job runs for ever: whenever a worker is free it can sweep any
\* open payout and heal the vault.  The provider settles what it has accepted
\* and redelivers a webhook until it is processed.
Fairness ==
    /\ \A w \in Procs : WF_vars(Continue(w))
    /\ \A p \in Payouts : SF_vars(\E w \in Procs : Sweep(w, p))
    /\ SF_vars(\E w \in Procs : HealVault(w))
    /\ \A p \in Payouts, k \in Attempts : WF_vars(ProviderSettles(p, k))

FairSpec == Spec /\ Fairness

-----------------------------------------------------------------------------
(* Properties *)

EverPaid(p) == p \in manual \/ \E k \in Attempts : <<p, k>> \in paid

\* The variables keep their types.
TypeOK ==
    /\ status \in [Payouts -> PayoutStatus]
    /\ attemptCount \in [Payouts -> 0 .. AttemptBound]
    /\ reference \in [Payouts -> Refs]
    /\ vault \in VaultChainState
    /\ event \in EventStatus
    /\ jobs \subseteq Payouts
    /\ attests \subseteq Payouts
    /\ transfer \in [Payouts -> [Attempts -> TransferStatus]]
    /\ hooks \subseteq Hooks
    /\ proc \in [Procs -> Frames]
    /\ crashes \in Nat
    /\ paid \subseteq Payouts \X Attempts
    /\ manual \subseteq Payouts

\* A payout is SUCCEEDED, and attested on the public ledger, only if money
\* really moved: one of its transfers succeeded at the provider, or an admin
\* recorded a manual payment.  It must survive every interleaving, stale read,
\* lost response and retry.
PaidIsReal ==
    \A p \in Payouts : status[p] = "SUCCEEDED" \/ p \in attests => EverPaid(p)

\* The vault fails closed: it is HALF_RELEASED only after some instant tranche
\* was paid, and vault or event are SETTLED only after every tranche was.
VaultFailsClosed ==
    /\ vault = "HALF_RELEASED" => \E p \in Instants : EverPaid(p)
    /\ vault = "SETTLED" \/ event = "SETTLED" => \A p \in Payouts : EverPaid(p)

\* No payout ever has two transfers that are paid or still may be: the
\* conditional claim, the per-attempt reference and the provider-truth gate
\* together keep a retry from paying twice.
NoSecondLiveTransfer ==
    \A p \in Payouts : \A j, k \in Attempts :
        {transfer[p][j], transfer[p][k]} \subseteq {"pending", "success"} => j = k

\* The strengthening of PaidIsReal and VaultFailsClosed: what each handler has
\* learned stays true however long it waits before it writes.
Confirming == {"confirmRead", "confirmWrite"}

FrameIsReal(f) ==
    /\ f.pc = "record" /\ f.answer = "success" => EverPaid(f.payout)
    /\ f.pc \in Confirming => EverPaid(f.payout)
    /\ f.pc \in Advancing => f.payout = None \/ EverPaid(f.payout)
    /\ f.facts \in {"instants", "all"} => \E p \in Instants : EverPaid(p)
    /\ f.facts = "all" \/ f.pc \in {"advanceSettle", "settleEvent"} =>
          \A p \in Payouts : EverPaid(p)

MoneyIsReal ==
    /\ PaidIsReal
    /\ VaultFailsClosed
    /\ \A w \in Procs : FrameIsReal(proc[w])
    /\ \A p \in Payouts, k \in Attempts :
          transfer[p][k] \in {"success", "reversed"} => <<p, k>> \in paid
    /\ \A h \in hooks : h.kind = "success" => <<h.payout, h.ref>> \in paid

\* The strengthening of NoSecondLiveTransfer: a payout that can be claimed has
\* no live transfer and no handler that may still retry it, at most one handler
\* at a time owns a payout, and it alone can bring one transfer to life.
Dead(p, k) == transfer[p][k] \in {"absent", "failed", "reversed"}
AllDead(p) == \A k \in Attempts : Dead(p, k)
Failing    == {"failRead", "failWrite", "parkWrite"}

Owner(f, p) == f.payout = p /\ (f.try \/ f.pc \in {"lookup"} \cup Failing)
Owns(w, p)  == Owner(proc[w], p)

FrameIsSole(f) ==
    /\ \A p \in Payouts : Owner(f, p) =>
          /\ \A k \in Attempts : k # f.ref => Dead(p, k)
          /\ f.pc \in Failing \cup {"initiate"} => AllDead(p)
          /\ f.pc = "record" /\ f.answer = "failed" => AllDead(p)
    /\ f.pc \in {"initiate", "record"} => f.try
    /\ f.pc \notin {"execRead", "retryLookup", "requeue"}

OneOwner ==
    /\ NoSecondLiveTransfer
    /\ \A p \in Payouts : status[p] \in {"none", "QUEUED", "FAILED"} =>
          AllDead(p) /\ \A w \in Procs : ~Owns(w, p)
    /\ \A p \in Payouts : \A v, w \in Procs : Owns(v, p) /\ Owns(w, p) => v = w
    /\ \A w \in Procs : FrameIsSole(proc[w])

\* Without an admin no payout is attempted more often than the cap allows.
AttemptsCapped == \A p \in Payouts : attemptCount[p] <= MaxPayoutAttempts

\* What was reported to the winner stays: a payout row that reached SUCCEEDED is
\* never rewritten, and one that the provider clawed back never flips back to
\* success on a late or repeated webhook.
ReportsAreFinal ==
    [][\A p \in Payouts :
          /\ status[p] = "SUCCEEDED" => status'[p] = "SUCCEEDED"
          /\ status[p] = "REVERSED" => status'[p] # "SUCCEEDED"]_vars

VaultEdges == [LOCKED        |-> {"HALF_RELEASED", "REFUNDED"},
               HALF_RELEASED |-> {"SETTLED", "REFUNDED"},
               SETTLED       |-> {},
               REFUNDED      |-> {}]

\* The vault column only moves along the edges of the on-chain state machine.
VaultFollowsContract ==
    [][vault' \in VaultEdges[vault]]_vault

\* A refunded pool and a paid milestone tranche exclude each other: refunds
\* are only available while no milestone payout exists.
RefundExcludesMilestone ==
    vault = "REFUNDED" => \A p \in Milestones : status[p] = "none"

\* No payout is stranded: whatever job, webhook or worker is lost, it comes to
\* rest in a closed status.
PayoutsClose ==
    \A p \in Payouts :
        status[p] \in {"QUEUED", "PROCESSING", "FAILED"}
            ~> status[p] \in {"SUCCEEDED", "REVERSED", "MANUAL_REVIEW"}

\* Once every tranche is paid the vault gets to SETTLED.
VaultSettles == AllSettled ~> vault = "SETTLED"

\* Once no instant tranche is open and one is paid, the vault leaves LOCKED, or
\* the payout facts change again.
VaultUnlocks == InstantComplete ~> vault # "LOCKED" \/ ~InstantComplete

\* The abstract specification and what the engine's state means to it: a
\* transfer is live by the provider's account, the books are the status column.
TransfersIn(s) == {t \in Payouts \X Attempts : transfer[t[1]][t[2]] = s}
Promise == INSTANCE Payments WITH
    moving  <- TransfersIn("pending"),
    arrived <- TransfersIn("success"),
    was     <- {p \in Payouts : EverPaid(p)},
    books   <- {p \in Payouts : status[p] = "SUCCEEDED"}

\* The engine implements it: no retry, lost response or redelivery sends money
\* while money is under way or with the winner, and no handler takes a payout
\* off the books while the winner has its money.
PromiseKept == Promise!Spec
=============================================================================
