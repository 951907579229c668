----------------------------- MODULE Attestation -----------------------------
(***************************************************************************)
(* The public ledger of one hackathon: the attestation jobs of             *)
(* services/escrow/attestations.ts and services/payout/attestations.ts     *)
(* carry the money facts of the database to the PrizeVault contract and to *)
(* the LedgerEntry table, and services/escrow/reconcile.ts re-enqueues     *)
(* what the contract has missed.                                           *)
(*                                                                         *)
(* The database's money moves as Money says, which EventFunding and        *)
(* PayoutBooks implement.  The chain is the real one, the simulation of    *)
(* lib/ports/chain.ts keeps nothing across a restart.                      *)
(***************************************************************************)
EXTENDS Integers, FiniteSetsExt

CONSTANTS
    Winners,            \* the winners of the event
    MilestoneWinners,   \* those whose prize has a milestone tranche
    Workers,            \* job workers
    None,               \* "no attestation" in a frame
    Amount,             \* KES by payout
    Pool,               \* amountKes of the vault
    FaultBound          \* model bound: faults that happen

-----------------------------------------------------------------------------
(* Type definitions *)

\* What is attested, by the type of its ledger entry: the vault, its lock, its
\* refund, and each paid tranche of a winner.
Created  == <<None, "VAULT_CREATED">>
Locked   == <<None, "DEPOSIT_LOCKED">>
Refunded == <<None, "VAULT_REFUNDED">>

Instant(w) == <<w, "INSTANT_PAYOUT">>
Instants   == {Instant(w) : w \in Winners}
Milestones == {<<w, "MILESTONE_PAYOUT">> : w \in MilestoneWinners}
Payouts    == Instants \cup Milestones
Attestable == {Created, Locked, Refunded} \cup Payouts

ChainStateName  == {"missing", "AWAITING", "LOCKED", "HALF_RELEASED", "SETTLED",
                    "REFUNDED"}

Steps == {"idle", "read", "write", "recover", "record", "mirror"}
Frames == {f \in [pc : Steps, key : Attestable \cup {None}] :
             f.pc # "idle" => f.key \in Attestable}
Idle == [pc |-> "idle", key |-> None]

ASSUME ConstantsAssumption ==
    /\ MilestoneWinners \subseteq Winners
    /\ None \notin Winners \cup Attestable
    /\ Amount \in [Payouts -> Nat]
    /\ Pool \in Nat
    /\ FaultBound \in Nat

-----------------------------------------------------------------------------
VARIABLES
    facts,      \* what has happened to the money, by the database
    jobs,       \* attestation jobs waiting in pg-boss
    chain,      \* the PrizeVault contract's state
    recorded,   \* its payout records: how often it took each tranche
    released,   \* its releasedKes
    sent,       \* transactions whose sender gave up waiting, not yet mined
    recordedBy, \* LedgerEntry rows written with a transaction hash
    mirrored,   \* those with a mirror hash, of which there is one
    proc,       \* the workers' frames
    cron,       \* the reconciliation under way: SUCCEEDED payouts it has read
    faults      \* faults so far

contract == <<chain, recorded, released, sent>>
ledger   == <<recordedBy, mirrored>>
vars     == <<facts, jobs, chain, recorded, released, sent, recordedBy,
              mirrored, proc, cron, faults>>

Sleeping == [on |-> FALSE, paid |-> {}]

Init ==
    /\ facts = {}
    /\ jobs = {}
    /\ chain = "missing"
    /\ recorded = [p \in Payouts |-> 0]
    /\ released = 0
    /\ sent = {}
    /\ recordedBy = [k \in Attestable |-> 0]
    /\ mirrored = {}
    /\ proc = [w \in Workers |-> Idle]
    /\ cron = Sleeping
    /\ faults = 0

-----------------------------------------------------------------------------
(* Helpers *)

Go(w, f)    == proc' = [proc EXCEPT ![w] = f]
Step(w, pc) == Go(w, [proc[w] EXCEPT !.pc = pc])
Done(w)     == Go(w, Idle)
At(w, pc)   == proc[w].pc = pc

Fault == faults < FaultBound /\ faults' = faults + 1

\* enqueue() swallows a queue failure.
Enqueue(ks) ==
    \/ jobs' = jobs \cup ks /\ UNCHANGED faults
    \/ jobs' = jobs /\ Fault

\* A handler that throws is retried by pg-boss, until its retries run out.
Fail(w) == Done(w) /\ Enqueue({proc[w].key})

\* The state the contract is to have when k is attested.
Intended(k) == CASE k = Created      -> "AWAITING"
                 [] k = Locked       -> "LOCKED"
                 [] k = Refunded     -> "REFUNDED"
                 [] k \in Instants   -> "HALF_RELEASED"
                 [] k \in Milestones -> "SETTLED"

Rank(s) == CASE s \in {"missing", "REFUNDED"} -> 0
             [] s = "AWAITING"               -> 1
             [] s = "LOCKED"                 -> 2
             [] s = "HALF_RELEASED"          -> 3
             [] s = "SETTLED"                -> 4

\* chainStateReflects: the contract is in state s or past it; a refund stands in
\* for the lock before it and for no payout.
MutantReflects(have, want) == have = want \/ Rank(have) >= Rank(want)
Reflects(have, want) ==
    IF want = "REFUNDED" \/ have = "REFUNDED"
    THEN have = "REFUNDED" /\ want \in {"REFUNDED", "LOCKED", "AWAITING"}
    ELSE Rank(have) >= Rank(want)

\* Where the handlers let a write through.
Writable(k, s) == CASE k = Refunded          -> s \in {"LOCKED", "HALF_RELEASED"}
                    [] k \in Instants      -> s = "LOCKED"
                    [] k \in Milestones    -> s = "HALF_RELEASED"
                    [] k \in {Created, Locked} -> TRUE

\* The state gates of the contract and of its factory.
Accepts(k, s) == CASE k = Created      -> s = "missing"
                   [] k = Locked       -> s = "AWAITING"
                   [] k = Refunded     -> s \in {"LOCKED", "HALF_RELEASED"}
                   [] k \in Instants   -> s = "LOCKED"
                   [] k \in Milestones -> s = "HALF_RELEASED"

Rows(k) == recordedBy[k] + (IF k \in mirrored THEN 1 ELSE 0)

HasEntry(k)       == recordedBy[k] > 0 \/ k \in mirrored

-----------------------------------------------------------------------------
(* The database: money facts, each with its attestation job *)

\* A dispute's release is not attested: every milestone of a locked pool is taken
\* for released, so it may be paid before or after its instant tranche.
Bank == INSTANCE Money WITH
    Before   <- [p \in Milestones |-> Instant(p[1])],
    Released <- [p \in Milestones |-> Locked]

\* Where the money moves for the first time, the ledger's side only gets a job.
Happens(move, k) ==
    /\ k \notin facts
    /\ move
    /\ Enqueue({k})
    /\ UNCHANGED <<contract, ledger, proc, cron>>

OpenVault         == Happens(Bank!Open, Created)
LockVault         == Happens(Bank!Lock, Locked)
PayoutSucceeds(p) == Happens(Bank!Pay(p), p)
RefundVault       == Happens(Bank!Refund, Refunded)

-----------------------------------------------------------------------------
(* The attestation handlers *)

\* A job is taken up; an entry that exists, or a lock that the database does
\* not show, ends it.
TakeJob(w, k) ==
    /\ At(w, "idle")
    /\ k \in jobs
    /\ jobs' = jobs \ {k}
    /\ IF HasEntry(k) \/ (k = Locked /\ Locked \notin facts)
       THEN Done(w)
       ELSE Go(w, [pc |-> "read", key |-> k])
    /\ UNCHANGED <<facts, contract, ledger, cron, faults>>

\* The state-aware read: mirror what the contract reflects already, write what
\* it is ready for, and retry the rest later.
ReadChain(w) ==
    LET k == proc[w].key IN
    /\ At(w, "read")
    /\ \/ /\ Reflects(chain, Intended(k))
          /\ Step(w, "mirror")
          /\ UNCHANGED <<jobs, faults>>
       \/ /\ ~Reflects(chain, Intended(k)) /\ Writable(k, chain)
          /\ Step(w, "write")
          /\ UNCHANGED <<jobs, faults>>
       \/ /\ ~Reflects(chain, Intended(k)) /\ ~Writable(k, chain)
          /\ Fail(w)
    /\ UNCHANGED <<facts, contract, ledger, cron>>

\* The state a payout record leads to: the contract settles once its records
\* cover the pool.
MutantAfterPayout(k, kes) == IF kes >= Pool THEN "SETTLED" ELSE chain
AfterPayout(k, kes) ==
    IF k \in Instants THEN "HALF_RELEASED"
    ELSE IF kes >= Pool THEN "SETTLED" ELSE chain

\* What the contract does with an attestation it accepts.
Apply(k) ==
    IF k \in Payouts
    THEN /\ recorded' = [recorded EXCEPT ![k] = @ + 1]
         /\ released' = released + Amount[k]
         /\ chain' = AfterPayout(k, released + Amount[k])
    ELSE chain' = Intended(k) /\ UNCHANGED <<recorded, released>>

WriteAccepted(w) ==
    /\ At(w, "write")
    /\ Accepts(proc[w].key, chain)
    /\ Apply(proc[w].key)
    /\ Step(w, "record")
    /\ UNCHANGED <<facts, jobs, sent, ledger, cron, faults>>

\* A transaction that nobody waits for any more is mined, and may revert.
Mine(k) ==
    /\ k \in sent
    /\ sent' = sent \ {k}
    /\ \/ Accepts(k, chain) /\ Apply(k)
       \/ ~Accepts(k, chain) /\ UNCHANGED <<chain, recorded, released>>
    /\ UNCHANGED <<facts, jobs, ledger, proc, cron, faults>>

\* A revert: a state gate goes on to the recovery, a missing or an existing
\* vault is thrown.
WriteReverted(w) ==
    /\ At(w, "write")
    /\ ~Accepts(proc[w].key, chain)
    /\ IF proc[w].key = Created \/ chain = "missing"
       THEN Fail(w)
       ELSE Step(w, "recover") /\ UNCHANGED <<jobs, faults>>
    /\ UNCHANGED <<facts, contract, ledger, cron>>

\* recoverFromStateRevert: already applied, or not ready yet.
Recover(w) ==
    /\ At(w, "recover")
    /\ IF Reflects(chain, Intended(proc[w].key))
       THEN Step(w, "mirror") /\ UNCHANGED <<jobs, faults>>
       ELSE Fail(w)
    /\ UNCHANGED <<facts, contract, ledger, cron>>

\* The row with the transaction's own hash.
Record(w) ==
    LET k == proc[w].key IN
    /\ At(w, "record")
    /\ recordedBy' = [recordedBy EXCEPT ![k] = @ + 1]
    /\ Done(w)
    /\ UNCHANGED <<facts, jobs, contract, mirrored, cron, faults>>

\* The row with the mirror hash, which is unique; only the vault's creation
\* throws on a second one.
Mirror(w) ==
    LET k == proc[w].key IN
    /\ At(w, "mirror")
    /\ IF k = Created /\ k \in mirrored
       THEN Fail(w) /\ UNCHANGED mirrored
       ELSE /\ mirrored' = mirrored \cup {k}
            /\ Done(w)
            /\ UNCHANGED <<jobs, faults>>
    /\ UNCHANGED <<facts, contract, recordedBy, cron>>

\* A handler dies or throws on the way: an RPC or a database error.  A write may
\* have been sent by then.
Interrupt(w) ==
    /\ ~At(w, "idle")
    /\ Fault
    /\ Done(w)
    /\ jobs' \in {jobs, jobs \cup {proc[w].key}}
    /\ \/ UNCHANGED sent
       \/ At(w, "write") /\ sent' = sent \cup {proc[w].key}
    /\ UNCHANGED <<facts, chain, recorded, released, ledger, cron>>

-----------------------------------------------------------------------------
(* reconcileLedger, the chain leg *)

Succeeded       == facts \cap Payouts

\* The nightly job reads the locked vaults and the succeeded payouts; after a refund
\* the vault's column may or may not show it, where handlers overlap.
ReconcileRead ==
    /\ ~cron.on
    /\ Locked \in facts
    /\ cron' = [on |-> TRUE, paid |-> Succeeded]
    /\ UNCHANGED <<facts, jobs, contract, ledger, proc, faults>>

\* What it re-enqueues once it has read the contract.
MutantUnread  == {Locked} \cup Payouts
MutantCreated == {}
Due           == {Locked} \cup cron.paid
Missing ==
    IF chain = "missing" THEN {Created}
    ELSE {k \in Due : ~Reflects(chain, Intended(k))}

ReconcileRepair ==
    /\ cron.on
    /\ Enqueue(Missing)
    /\ cron' = Sleeping
    /\ UNCHANGED <<facts, contract, ledger, proc>>

-----------------------------------------------------------------------------
Continue(w) ==
    \/ ReadChain(w) \/ WriteAccepted(w) \/ WriteReverted(w) \/ Recover(w)
    \/ Record(w) \/ Mirror(w)

Next ==
    \/ OpenVault \/ LockVault \/ RefundVault
    \/ \E p \in Payouts : PayoutSucceeds(p)
    \/ \E w \in Workers : \E k \in Attestable : TakeJob(w, k)
    \/ \E w \in Workers : Continue(w) \/ Interrupt(w)
    \/ \E k \in Attestable : Mine(k)
    \/ ReconcileRead \/ ReconcileRepair

Spec == Init /\ [][Next]_vars

\* Fairness.  Workers go on, a job that waits again and again is taken up, and the
\* reconciliation runs every night.  Milestone and refund jobs may starve.
Fairness ==
    /\ \A w \in Workers : WF_vars(Continue(w))
    /\ \A k \in {Created, Locked} \cup Instants : SF_vars(\E w \in Workers : TakeJob(w, k))
    /\ WF_vars(ReconcileRead)
    /\ WF_vars(ReconcileRepair)

FairSpec == Spec /\ Fairness

-----------------------------------------------------------------------------
(* Properties *)

\* The variables keep their types.
TypeOK ==
    /\ facts \subseteq Attestable
    /\ jobs \subseteq Attestable
    /\ chain \in ChainStateName
    /\ recorded \in [Payouts -> Nat]
    /\ released \in Nat
    /\ sent \subseteq Attestable
    /\ recordedBy \in [Attestable -> Nat]
    /\ mirrored \subseteq Attestable
    /\ proc \in [Workers -> Frames]
    /\ cron \in [on : BOOLEAN, paid : SUBSET Payouts]
    /\ faults \in Nat

Reached(s) == Rank(chain) >= Rank(s) \/ chain = "REFUNDED"

\* The contract never runs ahead of the money: whatever it shows as locked, paid
\* out, settled or refunded has happened in the database.
ChainIsBacked ==
    /\ chain # "missing" => Created \in facts
    /\ Reached("LOCKED") => Locked \in facts
    /\ chain \in {"HALF_RELEASED", "SETTLED"} => facts \cap Instants # {}
    /\ chain = "SETTLED" => facts \cap Milestones # {}
    /\ chain = "REFUNDED" => Refunded \in facts
    /\ \A p \in Payouts : recorded[p] > 0 => p \in facts

\* A ledger row is shown to the public only for money that moved, and only once
\* the contract was in the state the row stands for.
Stands(k) ==
    IF k = Refunded THEN chain = "REFUNDED"
    ELSE Reached(IF k \in Milestones THEN "HALF_RELEASED" ELSE Intended(k))

LedgerIsHonest == \A k \in Attestable : HasEntry(k) => k \in facts /\ Stands(k)

\* However often the jobs run, and however many workers run them, the contract
\* records one instant tranche, and that one once.
OneInstantRecorded ==
    \A p, q \in Instants : recorded[p] > 0 /\ recorded[q] > 0 => p = q /\ recorded[p] = 1

\* The strengthening of the three: jobs, transactions and handlers carry facts only,
\* and what a handler has seen the contract reflect still stands when it writes its row.
FrameIsBacked(f) ==
    f.pc # "idle" =>
        /\ f.key \in facts
        /\ f.pc \in {"record", "mirror"} => Stands(f.key)

LedgerIsBacked ==
    /\ ChainIsBacked
    /\ LedgerIsHonest
    /\ OneInstantRecorded
    /\ jobs \cup cron.paid \cup sent \subseteq facts
    /\ Locked \in facts \/ cron.on => {Created, Locked} \subseteq facts
    /\ \A p \in Payouts :
          recorded[p] > 0 => chain \in {"HALF_RELEASED", "SETTLED", "REFUNDED"}
    /\ \A w \in Workers : FrameIsBacked(proc[w])

\* A single worker never writes two ledger rows for one fact, even if it dies
\* between the contract write and the row, or a write it gave up on is mined late.
OneEntry == \A k \in Attestable : Rows(k) <= 1

\* The check reconcileLedger makes of the amounts: with no job left and no fault
\* on the way, the contract has released what the ledger rows add up to.
Quiet == jobs = {} /\ sent = {} /\ faults = 0 /\ \A w \in Workers : At(w, "idle")
ReleasedMatchesLedger ==
    Quiet => released = MapThenSumSet(LAMBDA p : Rows(p) * Amount[p], Payouts)

\* The contract catches up: lost jobs and dead workers notwithstanding, a paid
\* instant tranche is in the end reflected by the contract, unless the vault was
\* refunded meanwhile.
ChainCatchesUp ==
    facts \cap Instants # {} ~>
        chain \in {"HALF_RELEASED", "SETTLED", "REFUNDED"} \/ Refunded \in facts
=============================================================================
