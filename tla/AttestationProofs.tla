-------------------------- MODULE AttestationProofs --------------------------
(***************************************************************************)
(* Proofs about Attestation, for any winners and amounts, any number of    *)
(* workers and any number of faults.                                       *)
(***************************************************************************)
EXTENDS Attestation, TLAPS

-----------------------------------------------------------------------------
(* The kinds of attestation *)

\* The five kinds are disjoint and make up Attestable.
LEMMA Kinds ==
    /\ {Created, Locked, Refunded} \subseteq Attestable
    /\ Payouts \subseteq Attestable
    /\ Created # Locked /\ Created # Refunded /\ Locked # Refunded
    /\ {Created, Locked, Refunded} \cap Payouts = {}
    /\ Instants \cap Milestones = {}
    /\ \A k \in Attestable : k \in {Created, Locked, Refunded} \cup Instants \cup Milestones
  <1>1. {Created, Locked, Refunded} \cap Payouts = {}
    BY ConstantsAssumption
    DEF Created, Locked, Refunded, Payouts, Instants, Instant, Milestones
  <1>2. Instants \cap Milestones = {}
    BY DEF Instants, Instant, Milestones
  <1>3. Created # Locked /\ Created # Refunded /\ Locked # Refunded
    BY DEF Created, Locked, Refunded
  <1>. QED
    BY <1>1, <1>2, <1>3 DEF Attestable, Payouts

\* What the contract is to show for each kind.
LEMMA IntendedStates ==
    /\ Intended(Created) = "AWAITING"
    /\ Intended(Locked) = "LOCKED"
    /\ Intended(Refunded) = "REFUNDED"
    /\ \A p \in Instants : Intended(p) = "HALF_RELEASED"
    /\ \A p \in Milestones : Intended(p) = "SETTLED"
  BY Kinds DEF Intended, Payouts

\* The order of the contract's states.
LEMMA Ranks ==
    /\ Rank("missing") = 0 /\ Rank("REFUNDED") = 0
    /\ Rank("AWAITING") = 1 /\ Rank("LOCKED") = 2
    /\ Rank("HALF_RELEASED") = 3 /\ Rank("SETTLED") = 4
  BY DEF Rank

\* A contract that reflects an attestation is in the state its row stands for.
LEMMA ReflectsStands ==
    ASSUME NEW k \in Attestable, chain \in ChainStateName,
           Reflects(chain, Intended(k))
    PROVE  Stands(k)
  <1>1. CASE k = Created
    BY <1>1, IntendedStates, Ranks, Kinds DEF Reflects, Stands, Reached
  <1>2. CASE k = Locked
    BY <1>2, IntendedStates, Ranks, Kinds DEF Reflects, Stands, Reached
  <1>3. CASE k = Refunded
    BY <1>3, IntendedStates, Ranks, Kinds DEF Reflects, Stands, Reached
  <1>4. CASE k \in Instants
    BY <1>4, IntendedStates, Ranks, Kinds DEF Reflects, Stands, Reached, Payouts
  <1>5. CASE k \in Milestones
    BY <1>5, IntendedStates, Ranks, Kinds
    DEF Reflects, Stands, Reached, Payouts, ChainStateName
  <1>. QED
    BY <1>1, <1>2, <1>3, <1>4, <1>5, Kinds

-----------------------------------------------------------------------------
(* Type correctness *)

\* The initial state is well typed.
LEMMA TypeInit == Init => TypeOK
  BY ConstantsAssumption
  DEF Init, TypeOK, ChainStateName, Frames, Steps, Idle, Sleeping

\* A worker's moves, and what enqueue and the retry do, keep the types.
LEMMA MoveTypes ==
    ASSUME TypeOK, NEW w \in Workers
    PROVE  /\ Done(w) => proc' \in [Workers -> Frames]
           /\ \A k \in Attestable :
                Go(w, [pc |-> "read", key |-> k]) => proc' \in [Workers -> Frames]
           /\ \A pc \in Steps : proc[w].pc # "idle" /\ Step(w, pc)
                => proc' \in [Workers -> Frames]
           /\ proc[w].pc # "idle" => proc[w].key \in Attestable
           /\ \A ks \in SUBSET Attestable : Enqueue(ks) =>
                jobs' \subseteq Attestable /\ faults' \in Nat
           /\ proc[w].pc # "idle" /\ Fail(w) =>
                /\ proc' \in [Workers -> Frames]
                /\ jobs' \subseteq Attestable
                /\ faults' \in Nat
  <1>1. Idle \in Frames
    BY DEF Idle, Frames, Steps
  <1>2. proc[w].pc # "idle" => proc[w].key \in Attestable
    BY DEF TypeOK, Frames
  <1>3. Done(w) => proc' \in [Workers -> Frames]
    BY <1>1 DEF TypeOK, Done, Go
  <1>4. \A k \in Attestable :
          Go(w, [pc |-> "read", key |-> k]) => proc' \in [Workers -> Frames]
    BY DEF TypeOK, Go, Frames, Steps
  <1>5. \A pc \in Steps : proc[w].pc # "idle" /\ Step(w, pc)
          => proc' \in [Workers -> Frames]
    BY DEF TypeOK, Step, Go, Frames
  <1>6. \A ks \in SUBSET Attestable : Enqueue(ks) =>
          jobs' \subseteq Attestable /\ faults' \in Nat
    BY DEF TypeOK, Enqueue, Fault
  <1>. QED
    BY <1>2, <1>3, <1>4, <1>5, <1>6 DEF Fail

\* A move of the money adds a fact, and nothing to the ledger's side but its job.
LEMMA MoneyHappens ==
    ASSUME OpenVault \/ LockVault \/ RefundVault \/ \E p \in Payouts : PayoutSucceeds(p)
    PROVE  \E k \in Attestable : facts' = facts \cup {k} /\ Happens(TRUE, k)
  <1>1. \A p \in Payouts : Bank!Pay(p) => facts' = facts \cup {p}
    BY DEF Bank!Pay
  <1>2. /\ Bank!Open => facts' = facts \cup {Created}
        /\ Bank!Lock => facts' = facts \cup {Locked}
        /\ Bank!Refund => facts' = facts \cup {Refunded}
    BY DEF Bank!Open, Bank!Lock, Bank!Refund
  <1>. QED
    BY <1>1, <1>2, Kinds DEF OpenVault, LockVault, RefundVault, PayoutSucceeds, Happens

\* The money facts of the database keep the types.
LEMMA TypeMoney ==
    ASSUME TypeOK,
           OpenVault \/ LockVault \/ RefundVault \/ \E p \in Payouts : PayoutSucceeds(p)
    PROVE  TypeOK'
  <1>. USE Kinds DEF TypeOK, contract, ledger
  <1>1. PICK k \in Attestable : facts' = facts \cup {k} /\ Happens(TRUE, k)
    BY MoneyHappens
  <1>. QED
    BY <1>1 DEF Happens, Enqueue, Fault

\* What the contract does with an attestation keeps the types.
LEMMA ApplyTypes ==
    ASSUME TypeOK, NEW k \in Attestable, Apply(k)
    PROVE  chain' \in ChainStateName /\ recorded' \in [Payouts -> Nat] /\ released' \in Nat
  <1>. USE DEF TypeOK
  <1>1. CASE k \in Payouts
    <2>1. Amount[k] \in Nat /\ recorded[k] \in Nat
      BY <1>1, ConstantsAssumption
    <2>2. released' \in Nat
      BY <1>1, <2>1 DEF Apply
    <2>3. recorded' \in [Payouts -> Nat]
      BY <1>1, <2>1 DEF Apply
    <2>. QED
      BY <1>1, <2>2, <2>3 DEF Apply, AfterPayout, ChainStateName
  <1>2. CASE k \notin Payouts
    BY <1>2, Kinds, IntendedStates DEF Apply, ChainStateName, Payouts
  <1>. QED
    BY <1>1, <1>2

\* A worker's steps keep the types.
LEMMA TypeWorker ==
    ASSUME TypeOK, NEW w \in Workers,
           \/ \E k \in Attestable : TakeJob(w, k)
           \/ Continue(w)
           \/ Interrupt(w)
    PROVE  TypeOK'
  <1>. USE Kinds, MoveTypes DEF TypeOK, contract, ledger, At, Steps
  <1>1. ASSUME NEW k \in Attestable, TakeJob(w, k) PROVE TypeOK'
    BY <1>1 DEF TakeJob
  <1>2. CASE ReadChain(w)
    BY <1>2 DEF ReadChain
  <1>3. CASE WriteAccepted(w)
    BY <1>3, ApplyTypes DEF WriteAccepted
  <1>4. CASE WriteReverted(w)
    BY <1>4 DEF WriteReverted
  <1>5. CASE Recover(w)
    BY <1>5 DEF Recover
  <1>6. CASE Record(w)
    BY <1>6 DEF Record
  <1>7. CASE Mirror(w)
    BY <1>7 DEF Mirror
  <1>8. CASE Interrupt(w)
    BY <1>8 DEF Interrupt, Fault
  <1>. QED
    BY <1>1, <1>2, <1>3, <1>4, <1>5, <1>6, <1>7, <1>8 DEF Continue

\* A transaction that is mined late keeps the types.
LEMMA TypeMine ==
    ASSUME TypeOK, NEW k \in Attestable, Mine(k)
    PROVE  TypeOK'
  <1>1. chain' \in ChainStateName /\ recorded' \in [Payouts -> Nat] /\ released' \in Nat
    BY ApplyTypes DEF Mine, TypeOK
  <1>. QED
    BY <1>1 DEF Mine, TypeOK, ledger

\* The reconciliation keeps the types.
LEMMA TypeCron ==
    ASSUME TypeOK, ReconcileRead \/ ReconcileRepair
    PROVE  TypeOK'
  <1>. USE Kinds DEF TypeOK, contract, ledger
  <1>1. CASE ReconcileRead
    BY <1>1 DEF ReconcileRead, Succeeded
  <1>2. CASE ReconcileRepair
    <2>1. Missing \in SUBSET Attestable
      BY DEF Missing, Due
    <2>. QED
      BY <1>2, <2>1 DEF ReconcileRepair, Enqueue, Fault, Sleeping
  <1>. QED
    BY <1>1, <1>2

\* Every step keeps the types.
LEMMA TypeNext == TypeOK /\ [Next]_vars => TypeOK'
  <1>1. TypeOK /\ UNCHANGED vars => TypeOK'
    BY DEF TypeOK, vars
  <1>. QED
    BY <1>1, TypeMoney, TypeWorker, TypeMine, TypeCron DEF Next

\* The variables keep their types.
THEOREM TypeCorrect == Spec => []TypeOK
  BY TypeInit, TypeNext, PTL DEF Spec

-----------------------------------------------------------------------------
(* The ledger is backed *)

\* Nothing has happened, and nothing is attested.
LEMMA BackedInit == Init => LedgerIsBacked
  <1>. SUFFICES ASSUME Init PROVE LedgerIsBacked
    OBVIOUS
  <1>1. ChainIsBacked
    BY Ranks DEF Init, ChainIsBacked, Reached
  <1>2. LedgerIsHonest
    BY DEF Init, LedgerIsHonest, HasEntry
  <1>3. OneInstantRecorded
    BY DEF Init, OneInstantRecorded, Payouts
  <1>. QED
    BY <1>1, <1>2, <1>3
    DEF Init, LedgerIsBacked, FrameIsBacked, Idle, Sleeping, Payouts

\* What the contract says does not depend on a step that leaves it alone.
LEMMA SameContract ==
    ASSUME chain' = chain
    PROVE  /\ \A k \in Attestable : Stands(k)' <=> Stands(k)
           /\ \A s \in ChainStateName : Reached(s)' <=> Reached(s)
  BY DEF Stands, Reached, Intended

\* A new money fact: everything that was backed stays so, and the job it
\* enqueues carries that fact.
LEMMA BackedMoney ==
    ASSUME TypeOK, LedgerIsBacked,
           OpenVault \/ LockVault \/ RefundVault \/ \E p \in Payouts : PayoutSucceeds(p)
    PROVE  LedgerIsBacked'
  <1>. USE DEF contract, ledger
  <1>0. PICK k \in Attestable : facts' = facts \cup {k} /\ Happens(TRUE, k)
    BY MoneyHappens
  <1>1. /\ UNCHANGED <<chain, recorded, sent, recordedBy, mirrored, proc, cron>>
        /\ facts \subseteq facts'
    BY <1>0 DEF Happens
  <1>2. jobs' \subseteq facts'
    BY <1>0, <1>1 DEF Happens, Enqueue, LedgerIsBacked
  <1>3. Locked \in facts' => Created \in facts'
    BY Kinds DEF OpenVault, LockVault, RefundVault, PayoutSucceeds, Happens, Bank!Open,
           Bank!Lock, Bank!Refund, Bank!Pay, LedgerIsBacked
  <1>4. ChainIsBacked'
    BY <1>1, SameContract DEF LedgerIsBacked, ChainIsBacked, ChainStateName
  <1>5. LedgerIsHonest'
    BY <1>1, SameContract DEF LedgerIsBacked, LedgerIsHonest, HasEntry
  <1>6. \A w \in Workers : FrameIsBacked(proc[w])'
    BY <1>1, SameContract DEF TypeOK, LedgerIsBacked, FrameIsBacked, Frames
  <1>. QED
    BY <1>1, <1>2, <1>3, <1>4, <1>5, <1>6 DEF LedgerIsBacked, OneInstantRecorded

\* A worker that moves on without touching the contract.
LEMMA BackedMove ==
    ASSUME TypeOK, LedgerIsBacked, NEW w \in Workers,
           NEW f, Go(w, f),
           f.pc # "idle" =>
              f.key \in facts /\ (f.pc \in {"record", "mirror"} => Stands(f.key)),
           UNCHANGED <<facts, chain, recorded, cron>>,
           jobs' \cup sent' \subseteq facts,
           \A k \in Attestable : HasEntry(k)' => HasEntry(k) \/ (k \in facts /\ Stands(k))
    PROVE  LedgerIsBacked'
  <1>1. ChainIsBacked'
    BY SameContract DEF LedgerIsBacked, ChainIsBacked, ChainStateName
  <1>2. LedgerIsHonest'
    BY SameContract DEF LedgerIsBacked, LedgerIsHonest
  <1>3. OneInstantRecorded'
    BY DEF LedgerIsBacked, OneInstantRecorded
  <1>4. \A v \in Workers : FrameIsBacked(proc[v])'
    <2>1. \A g : g.pc # "idle" =>
            (g.key \in facts' /\ (g.pc \in {"record", "mirror"} => Stands(g.key)'))
            <=> (g.key \in facts /\ (g.pc \in {"record", "mirror"} => Stands(g.key)))
      BY DEF Stands, Reached, Intended
    <2>2. proc'[w] = f /\ \A v \in Workers \ {w} : proc'[v] = proc[v]
      BY DEF Go, TypeOK
    <2>. QED
      BY <2>1, <2>2 DEF LedgerIsBacked, FrameIsBacked
  <1>. QED
    BY <1>1, <1>2, <1>3, <1>4 DEF LedgerIsBacked

\* A worker that gives up, or throws and leaves its job to pg-boss.
LEMMA BackedEnd ==
    ASSUME TypeOK, LedgerIsBacked, NEW w \in Workers, Done(w),
           UNCHANGED <<facts, chain, recorded, cron>>,
           jobs' \subseteq jobs \cup {proc[w].key},
           sent' \subseteq sent \cup {proc[w].key},
           ~At(w, "idle") \/ (jobs' \subseteq jobs /\ sent' \subseteq sent),
           \A k \in Attestable : HasEntry(k)' => HasEntry(k) \/ (k \in facts /\ Stands(k))
    PROVE  LedgerIsBacked'
  <1>1. jobs' \cup sent' \subseteq facts
    BY DEF LedgerIsBacked, FrameIsBacked, At
  <1>2. Idle.pc = "idle" /\ Go(w, Idle)
    BY DEF Idle, Done
  <1>. QED
    BY <1>1, <1>2, BackedMove

\* A step of a worker to another point, with its job still in hand.
LEMMA BackedStep ==
    ASSUME TypeOK, LedgerIsBacked, NEW w \in Workers, ~At(w, "idle"),
           NEW pc \in Steps, Step(w, pc),
           pc \in {"record", "mirror"} => Stands(proc[w].key),
           UNCHANGED <<facts, contract, cron, ledger>>,
           jobs' = jobs
    PROVE  LedgerIsBacked'
  <1>. DEFINE f == [proc[w] EXCEPT !.pc = pc]
  <1>1. f.pc = pc /\ f.key = proc[w].key /\ Go(w, f)
    BY DEF TypeOK, Frames, Step
  <1>2. proc[w].key \in facts
    BY DEF LedgerIsBacked, FrameIsBacked, At
  <1>3. jobs' \cup sent' \subseteq facts
    BY DEF LedgerIsBacked, contract
  <1>4. \A k \in Attestable : HasEntry(k)' => HasEntry(k)
    BY DEF HasEntry, ledger
  <1>. HIDE DEF f
  <1>. QED
    BY <1>1, <1>2, <1>3, <1>4, BackedMove DEF contract

\* The steps of a worker that leave the contract alone.
LEMMA BackedWorker ==
    ASSUME TypeOK, LedgerIsBacked, NEW w \in Workers,
           \/ \E k \in Attestable : TakeJob(w, k)
           \/ ReadChain(w) \/ WriteReverted(w) \/ Recover(w) \/ Record(w) \/ Mirror(w)
           \/ Interrupt(w)
    PROVE  LedgerIsBacked'
  <1>. USE DEF contract
  <1>. DEFINE key == proc[w].key
  <1>0. ~At(w, "idle") => key \in Attestable /\ key \in facts
    BY MoveTypes DEF LedgerIsBacked, FrameIsBacked, At
  <1>00. UNCHANGED ledger => \A k \in Attestable : HasEntry(k)' => HasEntry(k)
    BY DEF HasEntry, ledger
  <1>000. ~At(w, "idle") /\ Fail(w) =>
            Done(w) /\ jobs' \subseteq jobs \cup {key}
    BY DEF Fail, Enqueue
  <1>1. ASSUME NEW k \in Attestable, TakeJob(w, k) PROVE LedgerIsBacked'
    <2>1. k \in facts /\ jobs' \cup sent' \subseteq facts /\ jobs' \subseteq jobs
      BY <1>1 DEF TakeJob, LedgerIsBacked
    <2>2. CASE Done(w)
      BY <1>1, <1>00, <2>1, <2>2, BackedEnd DEF TakeJob
    <2>3. CASE Go(w, [pc |-> "read", key |-> k])
      BY <1>1, <1>00, <2>1, <2>3, BackedMove DEF TakeJob
    <2>. QED
      BY <1>1, <2>2, <2>3 DEF TakeJob
  <1>2. CASE ReadChain(w)
    <2>1. ~At(w, "idle") /\ UNCHANGED <<facts, contract, cron, ledger>>
      BY <1>2 DEF ReadChain, At
    <2>2. CASE Fail(w)
      BY <2>1, <2>2, <1>00, <1>000, BackedEnd
    <2>3. CASE Step(w, "mirror") /\ jobs' = jobs /\ Reflects(chain, Intended(key))
      <3>1. Stands(key)
        BY <1>0, <2>1, <2>3, ReflectsStands DEF TypeOK
      <3>. QED
        BY <2>1, <2>3, <3>1, BackedStep DEF Steps
    <2>4. CASE Step(w, "write") /\ jobs' = jobs
      BY <2>1, <2>4, BackedStep DEF Steps
    <2>. QED
      BY <1>2, <2>2, <2>3, <2>4 DEF ReadChain
  <1>3. CASE WriteReverted(w)
    <2>1. ~At(w, "idle") /\ UNCHANGED <<facts, contract, cron, ledger>>
      BY <1>3 DEF WriteReverted, At
    <2>2. CASE Fail(w)
      BY <2>1, <2>2, <1>00, <1>000, BackedEnd
    <2>3. CASE Step(w, "recover") /\ jobs' = jobs
      BY <2>1, <2>3, BackedStep DEF Steps
    <2>. QED
      BY <1>3, <2>2, <2>3 DEF WriteReverted
  <1>4. CASE Recover(w)
    <2>1. ~At(w, "idle") /\ UNCHANGED <<facts, contract, cron, ledger>>
      BY <1>4 DEF Recover, At
    <2>2. CASE Fail(w)
      BY <2>1, <2>2, <1>00, <1>000, BackedEnd
    <2>3. CASE Step(w, "mirror") /\ jobs' = jobs /\ Reflects(chain, Intended(key))
      <3>1. Stands(key)
        BY <1>0, <2>1, <2>3, ReflectsStands DEF TypeOK
      <3>. QED
        BY <2>1, <2>3, <3>1, BackedStep DEF Steps
    <2>. QED
      BY <1>4, <2>2, <2>3 DEF Recover
  <1>5. CASE Record(w)
    <2>1. ~At(w, "idle") /\ UNCHANGED <<facts, contract, cron, jobs>> /\ Done(w)
      BY <1>5 DEF Record, At
    <2>2. key \in facts /\ Stands(key)
      BY <1>5 DEF Record, At, LedgerIsBacked, FrameIsBacked
    <2>3. \A k \in Attestable : HasEntry(k)' => HasEntry(k) \/ k = key
      BY <1>5 DEF Record, HasEntry, TypeOK
    <2>. QED
      BY <2>1, <2>2, <2>3, BackedEnd
  <1>6. CASE Mirror(w)
    <2>1. ~At(w, "idle") /\ UNCHANGED <<facts, contract, cron>>
      BY <1>6 DEF Mirror, At
    <2>2. key \in facts /\ Stands(key)
      BY <1>6 DEF Mirror, At, LedgerIsBacked, FrameIsBacked
    <2>3. \A k \in Attestable : HasEntry(k)' => HasEntry(k) \/ k = key
      BY <1>6 DEF Mirror, HasEntry
    <2>4. Done(w) /\ jobs' \subseteq jobs \cup {key}
      BY <1>6, <2>1, <1>000 DEF Mirror
    <2>. QED
      BY <2>1, <2>2, <2>3, <2>4, BackedEnd
  <1>7. CASE Interrupt(w)
    <2>1. ~At(w, "idle") /\ UNCHANGED <<facts, chain, recorded, cron, ledger>> /\ Done(w)
      BY <1>7 DEF Interrupt
    <2>2. jobs' \subseteq jobs \cup {key} /\ sent' \subseteq sent \cup {key}
      BY <1>7 DEF Interrupt
    <2>. QED
      BY <1>00, <2>1, <2>2, BackedEnd
  <1>. QED
    BY <1>1, <1>2, <1>3, <1>4, <1>5, <1>6, <1>7

\* The contract accepts a write only in the state before it, so it forgets
\* nothing that it stood for, and it takes a first instant tranche only.
LEMMA ApplyBacked ==
    ASSUME TypeOK, LedgerIsBacked, NEW key \in Attestable, key \in facts,
           Accepts(key, chain), Apply(key),
           UNCHANGED <<facts, jobs, recordedBy, mirrored, cron>>, sent' \subseteq sent
    PROVE  /\ Stands(key)'
           /\ \A f \in Frames : FrameIsBacked(f) => FrameIsBacked(f)'
           /\ (\A v \in Workers : FrameIsBacked(proc[v])') => LedgerIsBacked'
  <1>2. \/ key = Created /\ chain = "missing" /\ chain' = "AWAITING"
        \/ key = Locked /\ chain = "AWAITING" /\ chain' = "LOCKED"
        \/ key = Refunded /\ chain \in {"LOCKED", "HALF_RELEASED"} /\ chain' = "REFUNDED"
        \/ key \in Instants /\ chain = "LOCKED" /\ chain' = "HALF_RELEASED"
        \/ key \in Milestones /\ chain = "HALF_RELEASED"
           /\ chain' \in {"HALF_RELEASED", "SETTLED"}
    BY Kinds, IntendedStates DEF Accepts, Apply, AfterPayout, Payouts
  <1>3. \A p \in Payouts : recorded'[p] = IF p = key THEN recorded[p] + 1 ELSE recorded[p]
    BY DEF Apply, TypeOK
  <1>4. \A s \in ChainStateName : Reached(s) => Reached(s)'
    BY <1>2, Ranks DEF Reached, ChainStateName
  <1>5. \A k \in Attestable : Stands(k) => Stands(k)'
    BY <1>2, <1>4, IntendedStates, Kinds DEF Stands, ChainStateName, Payouts
  <1>6. Stands(key)'
    <2>1. CASE key = Refunded
      BY <1>2, <2>1, Kinds DEF Stands, Payouts
    <2>2. CASE key \in {Created, Locked}
      BY <1>2, <2>2, Ranks, IntendedStates, Kinds DEF Stands, Reached, Payouts
    <2>3. CASE key \in Instants
      BY <1>2, <2>3, Ranks, IntendedStates, Kinds DEF Stands, Reached, Payouts
    <2>4. CASE key \in Milestones
      BY <1>2, <2>4, Ranks, Kinds DEF Stands, Reached, Payouts
    <2>. QED
      BY <2>1, <2>2, <2>3, <2>4, Kinds
  <1>7. ChainIsBacked'
    <2>1. Reached("LOCKED")' => Locked \in facts
      <3>1. Reached("LOCKED")' /\ key # Locked => Reached("LOCKED")
        BY <1>2, Ranks, Kinds DEF Reached
      <3>. QED
        BY <3>1 DEF LedgerIsBacked, ChainIsBacked
    <2>2. \A p \in Payouts : recorded'[p] > 0 => p \in facts
      BY <1>3 DEF LedgerIsBacked, ChainIsBacked
    <2>. QED
      BY <1>2, <2>1, <2>2, Kinds DEF LedgerIsBacked, ChainIsBacked
  <1>8. LedgerIsHonest'
    BY <1>5 DEF LedgerIsBacked, LedgerIsHonest, HasEntry
  <1>9. \A p \in Payouts :
          recorded'[p] > 0 => chain' \in {"HALF_RELEASED", "SETTLED", "REFUNDED"}
    BY <1>2, <1>3, Kinds DEF LedgerIsBacked, Payouts
  <1>10. OneInstantRecorded'
    <2>1. CASE key \in Instants
      <3>1. \A p \in Instants : recorded[p] = 0
        BY <1>2, <2>1, Kinds DEF LedgerIsBacked, TypeOK, Payouts
      <3>. QED
        BY <1>3, <2>1, <3>1 DEF OneInstantRecorded, Payouts
    <2>2. CASE key \notin Instants
      BY <1>3, <2>2 DEF LedgerIsBacked, OneInstantRecorded, Payouts
    <2>. QED
      BY <2>1, <2>2
  <1>11. \A f \in Frames : FrameIsBacked(f) => FrameIsBacked(f)'
    BY <1>5 DEF FrameIsBacked, Frames
  <1>. QED
    BY <1>6, <1>7, <1>8, <1>9, <1>10, <1>11 DEF LedgerIsBacked

\* The worker whose write is accepted goes on to its row.
LEMMA BackedWrite ==
    ASSUME TypeOK, LedgerIsBacked, NEW w \in Workers, WriteAccepted(w)
    PROVE  LedgerIsBacked'
  <1>. DEFINE key == proc[w].key
  <1>1. /\ key \in Attestable /\ key \in facts /\ Accepts(key, chain) /\ Apply(key)
        /\ UNCHANGED <<facts, jobs, sent, recordedBy, mirrored, cron>>
        /\ Step(w, "record")
    BY MoveTypes DEF WriteAccepted, ledger, At, LedgerIsBacked, FrameIsBacked
  <1>2. /\ proc'[w].key = key
        /\ \A v \in Workers \ {w} : proc'[v] = proc[v]
    BY <1>1 DEF Step, Go, TypeOK, Frames
  <1>3. FrameIsBacked(proc[w])'
    BY <1>1, <1>2, ApplyBacked DEF FrameIsBacked
  <1>4. ASSUME NEW v \in Workers \ {w} PROVE FrameIsBacked(proc[v])'
    <2>1. proc[v] \in Frames /\ FrameIsBacked(proc[v])
      BY DEF LedgerIsBacked, TypeOK
    <2>2. \A f \in Frames : FrameIsBacked(f) => FrameIsBacked(f)'
      BY <1>1, ApplyBacked
    <2>. QED
      BY <1>2, <2>1, <2>2 DEF FrameIsBacked
  <1>. QED
    BY <1>1, <1>3, <1>4, ApplyBacked

\* A transaction that is mined late carries a fact like any other.
LEMMA BackedMine ==
    ASSUME TypeOK, LedgerIsBacked, NEW k \in Attestable, Mine(k)
    PROVE  LedgerIsBacked'
  <1>. USE DEF Mine, ledger
  <1>1. CASE Accepts(k, chain) /\ Apply(k)
    <2>1. k \in facts /\ sent' \subseteq sent /\ proc' = proc
      BY DEF LedgerIsBacked
    <2>2. \A f \in Frames : FrameIsBacked(f) => FrameIsBacked(f)'
      BY <1>1, <2>1, ApplyBacked
    <2>3. \A v \in Workers : FrameIsBacked(proc[v])'
      BY <2>1, <2>2 DEF LedgerIsBacked, TypeOK, FrameIsBacked
    <2>. QED
      BY <1>1, <2>1, <2>3, ApplyBacked
  <1>2. CASE UNCHANGED <<chain, recorded, released>>
    <2>1. ChainIsBacked' /\ LedgerIsHonest' /\ \A w \in Workers : FrameIsBacked(proc[w])'
      BY <1>2, SameContract
      DEF LedgerIsBacked, ChainIsBacked, ChainStateName, LedgerIsHonest, HasEntry,
          FrameIsBacked, TypeOK, Frames
    <2>. QED
      BY <1>2, <2>1 DEF LedgerIsBacked, OneInstantRecorded
  <1>. QED
    BY <1>1, <1>2

\* The reconciliation enqueues facts only.
LEMMA BackedCron ==
    ASSUME TypeOK, LedgerIsBacked, ReconcileRead \/ ReconcileRepair
    PROVE  LedgerIsBacked'
  <1>. USE DEF contract, ledger
  <1>1. UNCHANGED <<facts, chain, recorded, sent, recordedBy, mirrored, proc>>
    BY DEF ReconcileRead, ReconcileRepair
  <1>2. cron'.paid \subseteq facts /\ (cron'.on => {Created, Locked} \subseteq facts)
    BY DEF ReconcileRead, ReconcileRepair, Succeeded, Sleeping, LedgerIsBacked
  <1>3. jobs' \subseteq facts
    BY DEF ReconcileRead, ReconcileRepair, Enqueue, Missing, Due, LedgerIsBacked
  <1>4. ChainIsBacked'
    BY <1>1, SameContract DEF LedgerIsBacked, ChainIsBacked, ChainStateName
  <1>5. LedgerIsHonest'
    BY <1>1, SameContract DEF LedgerIsBacked, LedgerIsHonest, HasEntry
  <1>6. \A w \in Workers : FrameIsBacked(proc[w])'
    BY <1>1, SameContract DEF TypeOK, LedgerIsBacked, FrameIsBacked, Frames
  <1>. QED
    BY <1>1, <1>2, <1>3, <1>4, <1>5, <1>6 DEF LedgerIsBacked, OneInstantRecorded

\* Every step keeps contract, rows, jobs and workers backed by facts.
LEMMA BackedNext == TypeOK /\ LedgerIsBacked /\ [Next]_vars => LedgerIsBacked'
  <1>1. ASSUME TypeOK, LedgerIsBacked, UNCHANGED vars PROVE LedgerIsBacked'
    <2>. USE <1>1 DEF vars
    <2>1. ChainIsBacked' /\ LedgerIsHonest' /\ \A w \in Workers : FrameIsBacked(proc[w])'
      BY SameContract
      DEF LedgerIsBacked, ChainIsBacked, ChainStateName, LedgerIsHonest, HasEntry,
          FrameIsBacked, TypeOK, Frames
    <2>. QED
      BY <2>1 DEF LedgerIsBacked, OneInstantRecorded
  <1>2. ASSUME TypeOK, LedgerIsBacked, NEW w \in Workers, Continue(w)
        PROVE  LedgerIsBacked'
    BY <1>2, BackedWorker, BackedWrite DEF Continue
  <1>. QED
    BY <1>1, <1>2, BackedMoney, BackedWorker, BackedMine, BackedCron DEF Next

\* The inductive invariant: contract, ledger rows, jobs and handlers carry
\* nothing but money facts, and what stands on the contract keeps standing.
THEOREM LedgerBacked == Spec => []LedgerIsBacked
  <1>1. Init => TypeOK /\ LedgerIsBacked
    BY TypeInit, BackedInit
  <1>2. TypeOK /\ LedgerIsBacked /\ [Next]_vars => (TypeOK /\ LedgerIsBacked)'
    BY TypeNext, BackedNext
  <1>. QED
    BY <1>1, <1>2, PTL DEF Spec

\* The contract never runs ahead of the money, with any number of workers,
\* deaths, lost jobs and reconciliations.
THEOREM ChainBacked == Spec => []ChainIsBacked
  <1>1. LedgerIsBacked => ChainIsBacked
    BY DEF LedgerIsBacked
  <1>. QED
    BY <1>1, LedgerBacked, PTL

\* A ledger row never stands for money that did not move.
THEOREM LedgerHonest == Spec => []LedgerIsHonest
  <1>1. LedgerIsBacked => LedgerIsHonest
    BY DEF LedgerIsBacked
  <1>. QED
    BY <1>1, LedgerBacked, PTL

\* The contract records one instant tranche, once.
THEOREM InstantRecordedOnce == Spec => []OneInstantRecorded
  <1>1. LedgerIsBacked => OneInstantRecorded
    BY DEF LedgerIsBacked
  <1>. QED
    BY <1>1, LedgerBacked, PTL

-----------------------------------------------------------------------------
(* One row for one fact *)

\* A job in a worker's hands has no row yet.
RowsInv ==
    /\ OneEntry
    /\ \A w \in Workers : ~At(w, "idle") => Rows(proc[w].key) = 0

\* With no new row, the rows stay single.
LEMMA RowsStay ==
    ASSUME RowsInv, UNCHANGED ledger,
           \A w \in Workers : ~At(w, "idle")' => /\ ~At(w, "idle")
                                                 /\ proc'[w].key = proc[w].key
    PROVE  RowsInv'
  BY DEF RowsInv, OneEntry, Rows, ledger

\* A lone worker takes up what has no row, and ends with writing one.
LEMMA RowsWorker ==
    ASSUME TypeOK, \A v, w \in Workers : v = w, RowsInv, NEW w \in Workers,
           Continue(w) \/ Interrupt(w) \/ \E k \in Attestable : TakeJob(w, k)
    PROVE  RowsInv'
  <1>0. /\ ~At(w, "idle") => proc[w].key \in Attestable
        /\ \A f : Go(w, f) => \A v \in Workers : proc'[v] = f
        /\ Idle.pc = "idle"
    BY MoveTypes DEF TypeOK, Go, At, Frames, Idle
  <1>1. \A k \in Attestable : Rows(k) = 0 <=> ~HasEntry(k)
    BY DEF Rows, HasEntry, TypeOK
  <1>2. ASSUME UNCHANGED ledger, Done(w) PROVE RowsInv'
    BY <1>0, <1>2, RowsStay DEF Done, At
  <1>3. ASSUME UNCHANGED ledger, ~At(w, "idle"), NEW pc \in Steps, Step(w, pc) PROVE RowsInv'
    <2>1. [proc[w] EXCEPT !.pc = pc].key = proc[w].key
      BY DEF TypeOK, Frames
    <2>2. \A v \in Workers : v = w /\ proc'[v].key = proc[v].key
      BY <1>0, <1>3, <2>1 DEF Step
    <2>. QED
      BY <1>3, <2>2, RowsStay
  <1>4. ASSUME NEW k \in Attestable, TakeJob(w, k) PROVE RowsInv'
    <2>1. CASE Done(w)
      BY <1>2, <1>4, <2>1 DEF TakeJob
    <2>2. CASE ~HasEntry(k) /\ Go(w, [pc |-> "read", key |-> k])
      <3>1. \A v \in Workers : proc'[v].key = k
        BY <1>0, <2>2
      <3>2. Rows(k) = 0
        BY <1>1, <2>2
      <3>3. recordedBy' = recordedBy /\ mirrored' = mirrored
        BY <1>4 DEF TakeJob, ledger
      <3>. QED
        BY <3>1, <3>2, <3>3 DEF RowsInv, OneEntry, Rows
    <2>. QED
      BY <1>4, <2>1, <2>2 DEF TakeJob
  <1>5. ASSUME ~At(w, "idle"), Fail(w), UNCHANGED ledger PROVE RowsInv'
    BY <1>2, <1>5 DEF Fail
  <1>6. CASE ReadChain(w)
    BY <1>3, <1>5, <1>6 DEF ReadChain, At, Steps
  <1>7. CASE WriteAccepted(w) \/ WriteReverted(w) \/ Recover(w)
    BY <1>3, <1>5, <1>7 DEF WriteAccepted, WriteReverted, Recover, At, Steps
  <1>8. CASE Record(w) \/ (Mirror(w) /\ UNCHANGED recordedBy /\ Done(w)
                             /\ mirrored' = mirrored \cup {proc[w].key})
    <2>1. proc[w].key \in Attestable /\ Rows(proc[w].key) = 0 /\ ~HasEntry(proc[w].key)
      BY <1>0, <1>1, <1>8 DEF RowsInv, Record, Mirror, At
    <2>2. \A k \in Attestable : Rows(k)' = IF k = proc[w].key THEN 1 ELSE Rows(k)
      BY <1>8, <2>1 DEF Record, Rows, HasEntry, TypeOK
    <2>3. \A v \in Workers : At(v, "idle")'
      BY <1>0, <1>8 DEF Record, Done, At
    <2>. QED
      BY <2>2, <2>3 DEF RowsInv, OneEntry
  <1>9. CASE Mirror(w)
    BY <1>5, <1>8, <1>9 DEF Mirror, At, ledger
  <1>10. CASE Interrupt(w)
    BY <1>2, <1>10 DEF Interrupt
  <1>. QED
    BY <1>4, <1>6, <1>7, <1>8, <1>9, <1>10 DEF Continue

\* One worker writes one row for one fact, whatever dies between the contract's
\* write and the row, and however late a transaction is mined.
THEOREM OneRowEach == (\A v, w \in Workers : v = w) => (Spec => []OneEntry)
  <1>. SUFFICES ASSUME \A v, w \in Workers : v = w PROVE Spec => []OneEntry
    OBVIOUS
  <1>1. Init => RowsInv
    BY DEF Init, RowsInv, OneEntry, Rows, At, Idle
  <1>2. RowsInv /\ UNCHANGED <<ledger, proc>> => RowsInv'
    BY RowsStay DEF At
  <1>3. OpenVault \/ LockVault \/ RefundVault \/ ReconcileRead \/ ReconcileRepair
           \/ (\E p \in Payouts : PayoutSucceeds(p)) \/ (\E k \in Attestable : Mine(k))
           => UNCHANGED <<ledger, proc>>
    BY DEF OpenVault, LockVault, RefundVault, PayoutSucceeds, Happens, Mine, ReconcileRead,
           ReconcileRepair
  <1>4. UNCHANGED vars => UNCHANGED <<ledger, proc>>
    BY DEF vars, ledger
  <1>5. TypeOK /\ RowsInv /\ [Next]_vars => RowsInv'
    BY <1>2, <1>3, <1>4, RowsWorker DEF Next
  <1>6. RowsInv => OneEntry
    BY DEF RowsInv
  <1>. QED
    BY <1>1, <1>5, <1>6, TypeCorrect, PTL DEF Spec
=============================================================================
