------------------------- MODULE PayoutEngineProofs -------------------------
(***************************************************************************)
(* Proofs about PayoutEngine and its PayoutBooks, for any number of        *)
(* winners, handlers and attempts, any set of callers and any faults.      *)
(***************************************************************************)
EXTENDS PayoutBooks, TLAPS

-----------------------------------------------------------------------------
(* Type correctness *)

\* Every winner has an instant payout, and there is one.
LEMMA PayoutTypes ==
    /\ \A x \in Winners : Instant(x) \in Instants
    /\ \A x \in MilestoneWinners : Milestone(x) \in Payouts /\ Instant(x) \in Payouts
    /\ Instants \subseteq Payouts
    /\ Instants # {}
  BY ConstantsAssumption DEF Instants, Milestones, Payouts

\* An idle frame, and one that has only taken up a call, are well typed.
LEMMA StartTypes ==
    /\ Idle \in Frames
    /\ \A pc \in OnPayout \ {"claim", "initiate", "record"} :
         \A p \in Payouts : \A k \in Refs : Start(pc, p, k) \in Frames
    /\ \A p \in Payouts : \A k \in Attempts : Start("claim", p, k) \in Frames
    /\ \A p \in Payouts \cup {None} : \A k \in Refs : Start("advanceRead", p, k) \in Frames
    /\ \A pc \in {"healCount", "refundWrite"} : Start(pc, None, NoRef) \in Frames
  <1>1. Idle \in Locals
    BY ConstantsAssumption DEF Idle, Locals, ControlPoints, Refs, NoRef, Answers
  <1>2. Attempts \subseteq Refs /\ NoRef \in Refs /\ Receipt \in Refs
    BY ConstantsAssumption DEF Attempts, Refs, NoRef, Receipt
  <1>3. \A pc \in ControlPoints : \A p \in Payouts \cup {None} : \A k \in Refs :
          Start(pc, p, k) \in Locals
    BY <1>1 DEF Start, Locals
  <1>4. Idle \in Frames
    BY <1>1 DEF Frames, Idle, OnPayout
  <1>5. \A pc \in OnPayout \ {"claim", "initiate", "record"} :
          \A p \in Payouts : \A k \in Refs : Start(pc, p, k) \in Frames
    BY <1>3 DEF Frames, Start, Idle, OnPayout, Advancing
  <1>6. \A p \in Payouts : \A k \in Attempts : Start("claim", p, k) \in Frames
    BY <1>2, <1>3 DEF Frames, Start, Idle, OnPayout, Advancing, ControlPoints
  <1>7. \A p \in Payouts \cup {None} : \A k \in Refs : Start("advanceRead", p, k) \in Frames
    BY <1>3 DEF Frames, Start, Idle, OnPayout, Advancing, ControlPoints
  <1>8. \A pc \in {"healCount", "refundWrite"} : Start(pc, None, NoRef) \in Frames
    BY <1>2, <1>3 DEF Frames, Start, Idle, OnPayout, Advancing, ControlPoints
  <1>. QED
    BY <1>4, <1>5, <1>6, <1>7, <1>8

\* The edits the handlers make to their own frames keep them well typed.
LEMMA EditTypes ==
    ASSUME NEW f \in Frames
    PROVE  /\ f.pc = "hookWrite" =>
                \A a \in Answers : [f EXCEPT !.answer = a] \in Frames
           /\ f.pc = "claim" => [f EXCEPT !.pc = "initiate", !.try = TRUE] \in Frames
           /\ f.pc = "initiate" =>
                \A a \in Answers : [f EXCEPT !.pc = "record", !.answer = a] \in Frames
           /\ f.pc = "advanceRead" =>
                /\ \A v \in VaultChainState : [f EXCEPT !.vault = v] \in Frames
                /\ \A x \in Facts : [f EXCEPT !.facts = x] \in Frames
           /\ f.pc = "advanceRead" =>
                /\ f.facts # "unread" => \A v \in VaultChainState :
                     [f EXCEPT !.vault = v, !.pc = "advanceHalf"] \in Frames
                /\ \A x \in Facts : [f EXCEPT !.facts = x, !.pc = "advanceHalf"] \in Frames
           /\ f.pc = "advanceHalf" =>
                [f EXCEPT !.pc = "advanceSettle", !.answer = "unknown"] \in Frames
           /\ f.pc \in Advancing =>
                [f EXCEPT !.pc = "attest", !.vault = "unread", !.facts = "unread"] \in Frames
  <1>. USE DEF Frames, Locals, OnPayout, Advancing, ControlPoints
  <1>1. f.pc = "hookWrite" => \A a \in Answers : [f EXCEPT !.answer = a] \in Frames
    OBVIOUS
  <1>2. f.pc = "claim" => [f EXCEPT !.pc = "initiate", !.try = TRUE] \in Frames
    OBVIOUS
  <1>3. f.pc = "initiate" =>
          \A a \in Answers : [f EXCEPT !.pc = "record", !.answer = a] \in Frames
    OBVIOUS
  <1>4. f.pc = "advanceRead" =>
          /\ \A v \in VaultChainState : [f EXCEPT !.vault = v] \in Frames
          /\ \A x \in Facts : [f EXCEPT !.facts = x] \in Frames
    BY DEF Facts
  <1>5. f.pc = "advanceRead" =>
          /\ f.facts # "unread" => \A v \in VaultChainState :
               [f EXCEPT !.vault = v, !.pc = "advanceHalf"] \in Frames
          /\ \A x \in Facts : [f EXCEPT !.facts = x, !.pc = "advanceHalf"] \in Frames
    BY DEF Facts
  <1>6. f.pc = "advanceHalf" =>
          [f EXCEPT !.pc = "advanceSettle", !.answer = "unknown"] \in Frames
    BY DEF Answers
  <1>7. f.pc \in Advancing =>
          [f EXCEPT !.pc = "attest", !.vault = "unread", !.facts = "unread"] \in Frames
    OBVIOUS
  <1>. QED
    BY <1>1, <1>2, <1>3, <1>4, <1>5, <1>6, <1>7

\* What a webhook names exists.
LEMMA HookTypes ==
    ASSUME TypeOK, NEW h \in hooks
    PROVE  h.payout \in Payouts /\ h.ref \in Attempts /\ h.ref \in Refs /\ h.kind \in Answers
  BY ConstantsAssumption
  DEF TypeOK, Hooks, HookKinds, Attempts, Refs, Answers, TransferStatus

\* Moving a handler to a well-typed frame keeps the frames well typed.
LEMMA GoType ==
    ASSUME TypeOK, NEW w \in Procs
    PROVE  /\ \A f \in Frames : Go(w, f) => proc' \in [Procs -> Frames]
           /\ Done(w) => proc' \in [Procs -> Frames]
           /\ \A pc \in ControlPoints \ {"claim", "initiate", "record", "advanceHalf", "advanceSettle"} :
                (pc \in OnPayout => proc[w].payout \in Payouts) /\ Step(w, pc)
                => proc' \in [Procs -> Frames]
           /\ proc[w].payout \in Payouts /\ Catch(w) => proc' \in [Procs -> Frames]
  <1>1. \A f \in Frames : Go(w, f) => proc' \in [Procs -> Frames]
    BY DEF TypeOK, Go
  <1>2. proc[w] \in Frames
    BY DEF TypeOK
  <1>3. \A pc \in ControlPoints \ {"claim", "initiate", "record", "advanceHalf", "advanceSettle"} :
          (pc \in OnPayout => proc[w].payout \in Payouts)
          => [proc[w] EXCEPT !.pc = pc, !.answer = "unknown"] \in Frames
    BY <1>2 DEF Frames, Locals, Answers
  <1>4. proc[w].payout \in Payouts
        => [Idle EXCEPT !.pc = "lookup", !.payout = proc[w].payout, !.ref = proc[w].ref] \in Frames
    <2>1. "lookup" \in OnPayout \ {"claim", "initiate", "record"}
      BY DEF OnPayout, ControlPoints, Advancing
    <2>2. proc[w].ref \in Refs
      BY <1>2 DEF Frames, Locals
    <2>. QED
      BY <2>1, <2>2, StartTypes DEF Start
  <1>. QED
    BY <1>1, <1>3, <1>4, StartTypes DEF Step, Done, Catch

\* What a handler has in hand.
LEMMA InHand ==
    ASSUME TypeOK, NEW w \in Procs
    PROVE  /\ proc[w] \in Frames
           /\ proc[w].ref \in Refs
           /\ proc[w].pc \in OnPayout \/ proc[w].try => proc[w].payout \in Payouts
           /\ proc[w].pc \in {"claim", "initiate", "record"} => proc[w].ref \in Attempts
  BY DEF TypeOK, Frames, Locals

\* The initial state is well typed.
LEMMA TypeInit == Init => TypeOK
  BY StartTypes, ConstantsAssumption
  DEF Init, TypeOK, PayoutStatus, Attempts, Refs, NoRef, VaultChainState, EventStatus,
      TransferStatus, Hooks, Payouts

\* executePayout's first read ends the handler or takes it to the claim.
LEMMA ExecuteFromType ==
    ASSUME TypeOK, NEW w \in Procs, NEW p \in Payouts, ExecuteFrom(w, p)
    PROVE  proc' \in [Procs -> Frames]
  <1>1. attemptCount[p] # AttemptBound => attemptCount[p] + 1 \in Attempts
    BY ConstantsAssumption DEF TypeOK, Attempts
  <1>. QED
    BY <1>1, StartTypes, GoType DEF ExecuteFrom

\* The start of a handler keeps the types.
LEMMA TypeBegin ==
    ASSUME TypeOK, NEW w \in Procs, Begin(w)
    PROVE  TypeOK'
  <1>. USE StartTypes, GoType, PayoutTypes, ConstantsAssumption
       DEF TypeOK, db, queue, world, At, OnPayout, ControlPoints, Advancing
  <1>1. ASSUME NEW p \in Payouts, DeliverJob(w, p) PROVE TypeOK'
    <2>1. proc' \in [Procs -> Frames]
      BY <1>1, ExecuteFromType DEF DeliverJob
    <2>. QED
      BY <1>1, <2>1 DEF DeliverJob, Deliver
  <1>2. ASSUME NEW h \in hooks, HookSuccess(w, h) PROVE TypeOK'
    BY <1>2 DEF HookSuccess, Deliver, Hooks, Attempts, Refs
  <1>3. ASSUME NEW h \in hooks, HookDead(w, h) PROVE TypeOK'
    <2>1. [Start("hookWrite", h.payout, h.ref) EXCEPT !.answer = h.kind] \in Frames
      <3>1. h.payout \in Payouts /\ h.ref \in Refs /\ h.kind \in Answers
        BY HookTypes
      <3>2. Start("hookWrite", h.payout, h.ref) \in Frames
        BY <3>1
      <3>. QED
        BY <3>1, <3>2, EditTypes DEF Start, Idle
    <2>. QED
      BY <1>3, <2>1 DEF HookDead, Deliver
  <1>4. ASSUME NEW p \in Payouts, Sweep(w, p) PROVE TypeOK'
    <2>1. proc' \in [Procs -> Frames]
      BY <1>4, ExecuteFromType DEF Sweep
    <2>. QED
      BY <1>4, <2>1 DEF Sweep
  <1>5. CASE HealVault(w)
    <2>1. NoRef \in Refs
      BY DEF NoRef, Refs
    <2>. QED
      BY <1>5, <2>1 DEF HealVault
  <1>6. ASSUME NEW p \in Payouts, AdminRetry(w, p) PROVE TypeOK'
    BY <1>6 DEF AdminRetry
  <1>7. ASSUME NEW p \in Payouts, MarkManuallyPaid(w, p) PROVE TypeOK'
    <2>1. Receipt \in Refs
      BY DEF Receipt, Refs
    <2>. QED
      BY <1>7, <2>1 DEF MarkManuallyPaid, PayoutStatus
  <1>8. ASSUME NEW x \in MilestoneWinners, ConfirmMilestone(w, x) PROVE TypeOK'
    <2>1. NoRef \in Refs
      BY DEF NoRef, Refs
    <2>. QED
      BY <1>8, <2>1 DEF ConfirmMilestone, MilestoneDue
  <1>9. ASSUME NEW x \in MilestoneWinners, DisputeRefund(w, x) PROVE TypeOK'
    BY <1>9 DEF DisputeRefund
  <1>10. ASSUME NEW x \in MilestoneWinners, ReleaseDispute(w, x) PROVE TypeOK'
    <2>1. NoRef \in Refs
      BY DEF NoRef, Refs
    <2>. QED
      BY <1>10, <2>1 DEF ReleaseDispute
  <1>. QED
    BY <1>1, <1>2, <1>3, <1>4, <1>5, <1>6, <1>7, <1>8, <1>9, <1>10 DEF Begin

\* A handler's next step keeps the types.
LEMMA TypeContinue ==
    ASSUME TypeOK, NEW w \in Procs, Continue(w)
    PROVE  TypeOK'
  <1>. USE StartTypes, GoType, InHand
       DEF TypeOK, db, queue, world, At, OnPayout, ControlPoints, Advancing, PayoutStatus
  <1>0. Attempts \subseteq Refs /\ Attempts \subseteq 0 .. AttemptBound
    BY ConstantsAssumption DEF Attempts, Refs
  <1>1. CASE ExecuteRead(w)
    BY <1>1, ExecuteFromType DEF ExecuteRead
  <1>2. CASE Claim(w)
    <2>1. [proc[w] EXCEPT !.pc = "initiate", !.try = TRUE] \in Frames
      BY <1>2, EditTypes DEF Claim
    <2>. QED
      BY <1>0, <1>2, <2>1 DEF Claim
  <1>3. CASE InitiateAccepted(w)
    <2>. DEFINE p == proc[w].payout
                k == proc[w].ref
    <2>1. p \in Payouts /\ k \in Attempts
      BY <1>3 DEF InitiateAccepted
    <2>2. PICK s \in {"pending", "success", "failed"} :
            /\ transfer' = [transfer EXCEPT ![p][k] = s]
            /\ paid' = IF s = "success" THEN paid \cup {<<p, k>>} ELSE paid
            /\ hooks' = IF s = "pending" THEN hooks
                        ELSE hooks \cup {[kind |-> s, payout |-> p, ref |-> k]}
            /\ \/ Go(w, [proc[w] EXCEPT !.pc = "record", !.answer = s])
               \/ "lostResponse" \in Faults /\ Catch(w)
      BY <1>3 DEF InitiateAccepted
    <2>3. transfer' \in [Payouts -> [Attempts -> TransferStatus]]
      BY <2>1, <2>2 DEF TransferStatus
    <2>4. hooks' \subseteq Hooks
      BY <2>1, <2>2 DEF Hooks, HookKinds
    <2>5. [proc[w] EXCEPT !.pc = "record", !.answer = s] \in Frames
      BY <1>3, EditTypes DEF InitiateAccepted, Answers, TransferStatus
    <2>6. paid' \subseteq Payouts \X Attempts
      BY <2>1, <2>2
    <2>7. proc' \in [Procs -> Frames]
      BY <2>1, <2>2, <2>5
    <2>. QED
      BY <1>3, <2>3, <2>4, <2>6, <2>7 DEF InitiateAccepted
  <1>4. CASE InitiateRefused(w)
    BY <1>4 DEF InitiateRefused
  <1>5. CASE RecordTransfer(w)
    BY <1>5 DEF RecordTransfer
  <1>6. CASE Lookup(w)
    BY <1>6 DEF Lookup
  <1>7. CASE ConfirmRead(w)
    BY <1>7 DEF ConfirmRead
  <1>8. CASE ConfirmWrite(w)
    BY <1>8 DEF ConfirmWrite
  <1>9. CASE AdvanceReadVault(w)
    <2>1. proc' \in [Procs -> Frames]
      BY <1>9, EditTypes DEF AdvanceReadVault
    <2>. QED
      BY <1>9, <2>1 DEF AdvanceReadVault
  <1>10. CASE AdvanceReadFacts(w)
    <2>1. FactsNow \in Facts
      BY DEF FactsNow, Facts
    <2>2. proc' \in [Procs -> Frames]
      BY <1>10, <2>1, EditTypes DEF AdvanceReadFacts
    <2>. QED
      BY <1>10, <2>2 DEF AdvanceReadFacts
  <1>11. CASE AdvanceHalf(w)
    <2>1. [proc[w] EXCEPT !.pc = "advanceSettle", !.answer = "unknown"] \in Frames
      BY <1>11, EditTypes DEF AdvanceHalf
    <2>2. [proc[w] EXCEPT !.pc = "attest", !.vault = "unread", !.facts = "unread"] \in Frames
      BY <1>11, EditTypes DEF AdvanceHalf
    <2>. QED
      BY <1>11, <2>1, <2>2 DEF AdvanceHalf, Advanced, Step, VaultChainState
  <1>12. CASE AdvanceSettle(w)
    BY <1>12 DEF AdvanceSettle, VaultChainState
  <1>23. CASE SettleEvent(w)
    <2>1. [proc[w] EXCEPT !.pc = "attest", !.vault = "unread", !.facts = "unread"] \in Frames
      BY <1>23, EditTypes DEF SettleEvent
    <2>. QED
      BY <1>23, <2>1 DEF SettleEvent, Advanced, EventStatus
  <1>13. CASE Attest(w)
    <2>1. proc[w].payout \in Payouts \cup {None}
      BY DEF Frames, Locals
    <2>. QED
      BY <1>13, <2>1 DEF Attest, Enqueue
  <1>14. CASE FailRead(w)
    BY <1>14 DEF FailRead
  <1>15. CASE FailWrite(w)
    BY <1>15 DEF FailWrite, Enqueue
  <1>16. CASE ParkWrite(w)
    BY <1>16 DEF ParkWrite
  <1>17. CASE HookWrite(w)
    BY <1>17 DEF HookWrite, HookStatus
  <1>18. CASE RetryLookup(w)
    BY <1>18 DEF RetryLookup
  <1>19. CASE Requeue(w)
    BY <1>19 DEF Requeue
  <1>20. CASE MilestoneTx(w)
    <2>1. proc[w].payout \in Payouts
      BY <1>20 DEF MilestoneTx
    <2>2. status' \in [Payouts -> PayoutStatus] /\ jobs' \subseteq Payouts
      BY <1>20, <2>1 DEF MilestoneTx, Enqueue
    <2>3. proc' \in [Procs -> Frames]
      BY <1>20 DEF MilestoneTx
    <2>. QED
      BY <1>20, <2>2, <2>3 DEF MilestoneTx
  <1>21. CASE RefundWrite(w)
    BY <1>21 DEF RefundWrite, VaultChainState
  <1>22. CASE HealCount(w)
    <2>1. NoRef \in Refs
      BY ConstantsAssumption DEF NoRef, Refs
    <2>2. Start("advanceRead", None, NoRef) \in Frames
      BY <2>1, StartTypes
    <2>3. proc' \in [Procs -> Frames]
      BY <1>22, <2>2, GoType DEF HealCount
    <2>. QED
      BY <1>22, <2>3 DEF HealCount
  <1>. QED
    BY <1>1, <1>2, <1>3, <1>4, <1>5, <1>6, <1>7, <1>8, <1>9, <1>10, <1>11, <1>12,
       <1>13, <1>14, <1>15, <1>16, <1>17, <1>18, <1>19, <1>20, <1>21, <1>22, <1>23
    DEF Continue

\* The steps of the provider, the faults and stuttering keep the types.
LEMMA TypeOthers ==
    ASSUME TypeOK
    PROVE  /\ Provider => TypeOK'
           /\ \A w \in Procs : Crash(w) \/ Caught(w) => TypeOK'
           /\ UNCHANGED vars => TypeOK'
  <1>1. ASSUME NEW p \in Payouts, NEW k \in Attempts, ProviderSettles(p, k)
        PROVE  TypeOK'
    BY <1>1
    DEF ProviderSettles, TypeOK, db, queue, TransferStatus, Hooks, HookKinds
  <1>2. ASSUME NEW p \in Payouts, NEW k \in Attempts, ProviderReverses(p, k)
        PROVE  TypeOK'
    BY <1>2
    DEF ProviderReverses, TypeOK, db, queue, TransferStatus, Hooks, HookKinds
  <1>3. ASSUME NEW w \in Procs, Crash(w) PROVE TypeOK'
    BY <1>3, GoType DEF Crash, TypeOK, db, queue, world
  <1>4. ASSUME NEW w \in Procs, Caught(w) PROVE TypeOK'
    BY <1>4, GoType, InHand DEF Caught, TypeOK, db, queue, world
  <1>5. UNCHANGED vars => TypeOK'
    BY DEF vars, TypeOK
  <1>. QED
    BY <1>1, <1>2, <1>3, <1>4, <1>5 DEF Provider

\* Every variable keeps its type.
THEOREM TypeCorrect == Spec => []TypeOK
  <1>1. TypeOK /\ [Next]_vars => TypeOK'
    BY TypeBegin, TypeContinue, TypeOthers DEF Next
  <1>. QED
    BY TypeInit, <1>1, PTL DEF Spec

-----------------------------------------------------------------------------
(* The money is real *)

\* Payments are never forgotten, so what a handler has learned stays true.
LEMMA EverPaidGrows ==
    ASSUME paid \subseteq paid', manual \subseteq manual'
    PROVE  /\ \A p \in Payouts : EverPaid(p) => EverPaid(p)'
           /\ \A f : FrameIsReal(f) => FrameIsReal(f)'
  <1>1. \A p : EverPaid(p) => EverPaid(p)'
    BY DEF EverPaid
  <1>. QED
    BY <1>1 DEF FrameIsReal

\* The other handlers' frames are untouched, and this one's new frame is shown
\* good apart.
LEMMA FramesStayReal ==
    ASSUME TypeOK, MoneyIsReal, NEW w \in Procs, NEW f, Go(w, f),
           paid \subseteq paid', manual \subseteq manual', FrameIsReal(f)'
    PROVE  \A v \in Procs : FrameIsReal(proc[v])'
  <1>. SUFFICES ASSUME NEW v \in Procs
                PROVE  FrameIsReal(proc[v])'
    OBVIOUS
  <1>1. proc'[v] = IF v = w THEN f ELSE proc[v]
    BY DEF TypeOK, Go
  <1>2. FrameIsReal(proc[v]) /\ proc[v] \in Frames
    BY DEF MoneyIsReal, TypeOK
  <1>3. CASE v = w
    BY <1>1, <1>3 DEF FrameIsReal, EverPaid
  <1>4. CASE v # w
    <2>1. \A g : FrameIsReal(g) => FrameIsReal(g)'
      BY EverPaidGrows
    <2>2. \A g : g = proc[v] => FrameIsReal(g)'
      BY <1>2, <2>1
    <2>. QED
      BY <1>1, <1>4, <2>2 DEF FrameIsReal, EverPaid
  <1>. QED
    BY <1>3, <1>4

\* A step that marks no payout paid without money, and touches neither the vault
\* nor the provider, keeps the money real.
LEMMA KeepsReal ==
    ASSUME TypeOK, MoneyIsReal, NEW w \in Procs, NEW f, Go(w, f), FrameIsReal(f),
           \A p \in Payouts :
              status'[p] = "SUCCEEDED" => status[p] = "SUCCEEDED" \/ EverPaid(p),
           \A p \in attests' : p \in attests \/ EverPaid(p),
           UNCHANGED <<vault, event, transfer, paid, manual>>,
           hooks' \subseteq hooks
    PROVE  MoneyIsReal'
  <1>1. \A p : EverPaid(p)' <=> EverPaid(p)
    BY DEF EverPaid
  <1>2. FrameIsReal(f)'
    BY EverPaidGrows
  <1>3. \A v \in Procs : FrameIsReal(proc[v])'
    BY <1>2, FramesStayReal
  <1>4. PaidIsReal'
    BY <1>1 DEF MoneyIsReal, PaidIsReal
  <1>5. VaultFailsClosed'
    BY <1>1 DEF MoneyIsReal, VaultFailsClosed
  <1>. QED
    BY <1>3, <1>4, <1>5 DEF MoneyIsReal

\* So does a step that moves the vault or the event as far as the money allows.
LEMMA VaultKeepsReal ==
    ASSUME TypeOK, MoneyIsReal, NEW w \in Procs, NEW f, Go(w, f), FrameIsReal(f),
           UNCHANGED <<status, attests, transfer, hooks, paid, manual>>,
           VaultFailsClosed'
    PROVE  MoneyIsReal'
  <1>1. \A p : EverPaid(p)' <=> EverPaid(p)
    BY DEF EverPaid
  <1>2. FrameIsReal(f)'
    BY EverPaidGrows
  <1>3. \A v \in Procs : FrameIsReal(proc[v])'
    BY <1>2, FramesStayReal
  <1>4. PaidIsReal'
    BY <1>1 DEF MoneyIsReal, PaidIsReal
  <1>. QED
    BY <1>3, <1>4 DEF MoneyIsReal

\* Frames that claim nothing about money.
LEMMA ModestFrames ==
    /\ FrameIsReal(Idle)
    /\ \A pc \in OnPayout \ Confirming : \A p, k : FrameIsReal(Start(pc, p, k))
    /\ \A k : FrameIsReal(Start("advanceRead", None, k))
    /\ \A pc \in {"healCount", "refundWrite"} : FrameIsReal(Start(pc, None, NoRef))
    /\ \A f \in Frames : \A pc \in OnPayout \ Confirming :
          FrameIsReal(f) => FrameIsReal([f EXCEPT !.pc = pc, !.answer = "unknown"])
  <1>. USE DEF FrameIsReal, OnPayout, Confirming, Advancing, ControlPoints
  <1>1. FrameIsReal(Idle)
    BY DEF Idle
  <1>2. \A pc \in OnPayout \ Confirming : \A p, k : FrameIsReal(Start(pc, p, k))
    BY DEF Start, Idle
  <1>3. \A k : FrameIsReal(Start("advanceRead", None, k))
    BY DEF Start, Idle
  <1>4. \A pc \in {"healCount", "refundWrite"} : FrameIsReal(Start(pc, None, NoRef))
    BY DEF Start, Idle
  <1>5. \A f \in Frames : \A pc \in OnPayout \ Confirming :
          FrameIsReal(f) => FrameIsReal([f EXCEPT !.pc = pc, !.answer = "unknown"])
    BY DEF Frames, Locals
  <1>. QED
    BY <1>1, <1>2, <1>3, <1>4, <1>5

\* The initial state has paid nothing.
LEMMA RealInit == Init => MoneyIsReal
  <1>. SUFFICES ASSUME Init
                PROVE  MoneyIsReal
    OBVIOUS
  <1>1. PaidIsReal /\ VaultFailsClosed
    BY DEF Init, PaidIsReal, VaultFailsClosed
  <1>2. \A w \in Procs : proc[w] = Idle
    BY DEF Init
  <1>3. \A w \in Procs : FrameIsReal(proc[w])
    BY <1>2, ModestFrames
  <1>4. \A p \in Payouts, k \in Attempts : transfer[p][k] = "absent"
    BY DEF Init
  <1>. QED
    BY <1>1, <1>3, <1>4 DEF Init, MoneyIsReal

\* executePayout's first read learns nothing about money.
LEMMA ExecuteFromReal ==
    ASSUME TypeOK, MoneyIsReal, NEW w \in Procs, NEW p \in Payouts, ExecuteFrom(w, p),
           UNCHANGED <<db, attests, world>>
    PROVE  MoneyIsReal'
  <1>1. "claim" \in OnPayout \ Confirming
    BY DEF OnPayout, Confirming, ControlPoints, Advancing
  <1>. QED
    BY <1>1, KeepsReal, ModestFrames DEF ExecuteFrom, Done, db, world

\* The start of a handler keeps the money real.
LEMMA RealBegin ==
    ASSUME TypeOK, MoneyIsReal, NEW w \in Procs, Begin(w)
    PROVE  MoneyIsReal'
  <1>0. {"hookWrite", "requeue", "retryLookup", "milestoneTx", "releaseTx", "lookup"}
           \subseteq OnPayout \ Confirming
    BY DEF OnPayout, Confirming, ControlPoints, Advancing
  <1>. USE <1>0, KeepsReal, ModestFrames DEF db, queue, world, Done
  <1>1. ASSUME NEW p \in Payouts, DeliverJob(w, p) PROVE MoneyIsReal'
    BY <1>1, ExecuteFromReal DEF DeliverJob
  <1>2. ASSUME NEW h \in hooks, HookSuccess(w, h) PROVE MoneyIsReal'
    <2>1. FrameIsReal(Start("confirmRead", h.payout, h.ref))
      BY <1>2, HookTypes
      DEF HookSuccess, MoneyIsReal, FrameIsReal, EverPaid, Start, Idle, Advancing
    <2>. QED
      BY <1>2, <2>1 DEF HookSuccess, Deliver
  <1>3. ASSUME NEW h \in hooks, HookDead(w, h) PROVE MoneyIsReal'
    <2>1. FrameIsReal([Start("hookWrite", h.payout, h.ref) EXCEPT !.answer = h.kind])
      BY DEF FrameIsReal, Start, Idle, Confirming, Advancing
    <2>. QED
      BY <1>3, <2>1 DEF HookDead, Deliver
  <1>4. ASSUME NEW p \in Payouts, Sweep(w, p) PROVE MoneyIsReal'
    <2>1. CASE status[p] = "PROCESSING"
      BY <1>4, <2>1 DEF Sweep
    <2>2. CASE status[p] # "PROCESSING"
      BY <1>4, <2>2, ExecuteFromReal DEF Sweep
    <2>. QED
      BY <2>1, <2>2
  <1>5. CASE HealVault(w)
    BY <1>5 DEF HealVault
  <1>6. ASSUME NEW p \in Payouts, AdminRetry(w, p) PROVE MoneyIsReal'
    BY <1>6 DEF AdminRetry
  <1>7. ASSUME NEW p \in Payouts, MarkManuallyPaid(w, p) PROVE MoneyIsReal'
    <2>1. /\ manual' = manual \cup {p}
          /\ UNCHANGED <<paid, attests, vault, event, transfer, hooks>>
          /\ \A q \in Payouts : status'[q] = "SUCCEEDED" => status[q] = "SUCCEEDED" \/ q = p
          /\ Go(w, Start("advanceRead", p, Receipt))
      BY <1>7 DEF MarkManuallyPaid, TypeOK
    <2>2. EverPaid(p)' /\ \A q \in Payouts : EverPaid(q) => EverPaid(q)'
      BY <2>1, EverPaidGrows DEF EverPaid
    <2>3. FrameIsReal(Start("advanceRead", p, Receipt))'
      BY <2>2 DEF FrameIsReal, Start, Idle, Confirming
    <2>4. \A v \in Procs : FrameIsReal(proc[v])'
      BY <2>1, <2>3, FramesStayReal
    <2>5. PaidIsReal' /\ VaultFailsClosed'
      BY <2>1, <2>2, PayoutTypes DEF MoneyIsReal, PaidIsReal, VaultFailsClosed
    <2>. QED
      BY <2>1, <2>4, <2>5 DEF MoneyIsReal
  <1>8. ASSUME NEW x \in MilestoneWinners, ConfirmMilestone(w, x) \/ ReleaseDispute(w, x)
        PROVE  MoneyIsReal'
    BY <1>8 DEF ConfirmMilestone, MilestoneDue, ReleaseDispute
  <1>9. ASSUME NEW x \in MilestoneWinners, DisputeRefund(w, x) PROVE MoneyIsReal'
    BY <1>9 DEF DisputeRefund
  <1>. QED
    BY <1>1, <1>2, <1>3, <1>4, <1>5, <1>6, <1>7, <1>8, <1>9 DEF Begin

\* A handler's next step keeps the money real.
LEMMA RealContinue ==
    ASSUME TypeOK, MoneyIsReal, NEW w \in Procs, Continue(w)
    PROVE  MoneyIsReal'
  <1>. DEFINE p == proc[w].payout
              k == proc[w].ref
  <1>0. /\ FrameIsReal(proc[w])
        /\ proc[w] \in Frames
        /\ {"requeue", "execRead", "failRead", "failWrite", "parkWrite"} \subseteq OnPayout \ Confirming
    BY DEF MoneyIsReal, TypeOK, OnPayout, Confirming, ControlPoints, Advancing
  <1>0a. FrameIsReal([Idle EXCEPT !.pc = "lookup", !.payout = p, !.ref = k])
    BY DEF FrameIsReal, Idle, Confirming, Advancing
  <1>. USE <1>0, <1>0a, KeepsReal, ModestFrames
       DEF db, queue, world, Done, Step, Catch, At
  <1>1. CASE ExecuteRead(w)
    <2>1. p \in Payouts
      BY <1>1, InHand DEF ExecuteRead, OnPayout, ControlPoints, Advancing
    <2>. QED
      BY <1>1, <2>1, ExecuteFromReal DEF ExecuteRead
  <1>2. CASE Claim(w)
    <2>1. FrameIsReal([proc[w] EXCEPT !.pc = "initiate", !.try = TRUE])
      BY <1>2 DEF Claim, FrameIsReal, Frames, Locals, Confirming, Advancing
    <2>. QED
      BY <1>2, <2>1 DEF Claim, TypeOK
  <1>3. CASE InitiateAccepted(w)
    <2>1. p \in Payouts /\ k \in Attempts
      BY <1>3, InHand DEF InitiateAccepted, OnPayout, ControlPoints, Advancing
    <2>2. PICK s \in {"pending", "success", "failed"} :
            /\ transfer' = [transfer EXCEPT ![p][k] = s]
            /\ paid' = IF s = "success" THEN paid \cup {<<p, k>>} ELSE paid
            /\ hooks' = IF s = "pending" THEN hooks
                        ELSE hooks \cup {[kind |-> s, payout |-> p, ref |-> k]}
            /\ \/ Go(w, [proc[w] EXCEPT !.pc = "record", !.answer = s])
               \/ "lostResponse" \in Faults /\ Catch(w)
      BY <1>3 DEF InitiateAccepted
    <2>3. UNCHANGED <<status, attests, vault, event, manual>>
      BY <1>3 DEF InitiateAccepted
    <2>4. /\ \A q \in Payouts : EverPaid(q) => EverPaid(q)'
          /\ \A f : FrameIsReal(f) => FrameIsReal(f)'
      BY <2>2, <2>3, EverPaidGrows
    <2>5. \A f : f = [proc[w] EXCEPT !.pc = "record", !.answer = s] => FrameIsReal(f)'
      <3>. SUFFICES ASSUME NEW f, f = [proc[w] EXCEPT !.pc = "record", !.answer = s]
                    PROVE  FrameIsReal(f)'
        OBVIOUS
      <3>1. /\ f.pc = "record" /\ f.answer = s
            /\ f.payout = p /\ f.facts = proc[w].facts
        BY <1>0 DEF Frames, Locals
      <3>2. s = "success" => EverPaid(f.payout)'
        <4>1. s = "success" => <<p, k>> \in paid'
          BY <2>2
        <4>2. s = "success" => <<f.payout, k>> \in paid'
          BY <3>1, <4>1
        <4>. QED
          BY <2>1, <4>2 DEF EverPaid
      <3>3. f.facts \in {"instants", "all"} => \E q \in Instants : EverPaid(q)'
        BY <2>4, <3>1, PayoutTypes DEF FrameIsReal
      <3>4. f.facts = "all" => \A q \in Payouts : EverPaid(q)'
        BY <2>4, <3>1 DEF FrameIsReal
      <3>. QED
        BY <3>1, <3>2, <3>3, <3>4 DEF FrameIsReal, Confirming, Advancing
    <2>6. \A v \in Procs : FrameIsReal(proc[v])'
      <3>1. \A f : f = [Idle EXCEPT !.pc = "lookup", !.payout = p, !.ref = k] => FrameIsReal(f)'
        BY <2>4
      <3>2. \E f : Go(w, f) /\ FrameIsReal(f)'
        BY <2>2, <2>5, <3>1
      <3>3. paid \subseteq paid' /\ manual \subseteq manual'
        BY <2>2, <2>3
      <3>. QED
        BY <3>2, <3>3, FramesStayReal
    <2>7. \A q \in Payouts, j \in Attempts :
            transfer'[q][j] \in {"success", "reversed"} => <<q, j>> \in paid'
      BY <2>1, <2>2 DEF MoneyIsReal, TypeOK
    <2>8. \A h \in hooks' : h.kind = "success" => <<h.payout, h.ref>> \in paid'
      <3>1. TAKE h \in hooks'
      <3>2. CASE h \in hooks
        BY <2>2, <3>2 DEF MoneyIsReal
      <3>3. CASE h = [kind |-> s, payout |-> p, ref |-> k]
        BY <2>2, <3>3
      <3>. QED
        BY <2>2, <3>1, <3>2, <3>3
    <2>9. PaidIsReal' /\ VaultFailsClosed'
      BY <2>3, <2>4, PayoutTypes DEF MoneyIsReal, PaidIsReal, VaultFailsClosed
    <2>. QED
      BY <2>6, <2>7, <2>8, <2>9 DEF MoneyIsReal
  <1>4. CASE InitiateRefused(w)
    BY <1>4 DEF InitiateRefused
  <1>5. CASE RecordTransfer(w)
    <2>1. proc[w].answer = "success" =>
            FrameIsReal([proc[w] EXCEPT !.pc = "confirmRead", !.answer = "unknown"])
      BY <1>5 DEF RecordTransfer, FrameIsReal, Frames, Locals, Confirming, Advancing
    <2>. QED
      BY <1>5, <2>1 DEF RecordTransfer
  <1>6. CASE Lookup(w)
    <2>1. PICK a \in LookupAnswers(p, k) :
            CASE AfterAmbiguousTransferError(a) = "confirm" -> Step(w, "confirmRead")
              [] AfterAmbiguousTransferError(a) = "retry"   -> Step(w, "failRead")
              [] OTHER                                      -> Done(w)
      BY <1>6 DEF Lookup
    <2>2. p \in Payouts
      BY <1>6, InHand DEF Lookup, OnPayout, ControlPoints, Advancing
    <2>3. AfterAmbiguousTransferError(a) = "confirm" => EverPaid(p)
      BY <2>1, <2>2
      DEF AfterAmbiguousTransferError, LookupAnswers, Truth, MoneyIsReal, EverPaid
    <2>4. EverPaid(p) => FrameIsReal([proc[w] EXCEPT !.pc = "confirmRead", !.answer = "unknown"])
      BY DEF FrameIsReal, Frames, Locals, Confirming, Advancing
    <2>. QED
      BY <1>6, <2>1, <2>3, <2>4 DEF Lookup
  <1>7. CASE ConfirmRead(w)
    <2>1. FrameIsReal([proc[w] EXCEPT !.pc = "confirmWrite", !.answer = "unknown"])
      BY <1>7 DEF ConfirmRead, FrameIsReal, Frames, Locals, Confirming, Advancing
    <2>. QED
      BY <1>7, <2>1 DEF ConfirmRead
  <1>8. CASE ConfirmWrite(w)
    <2>1. EverPaid(p)
      BY <1>8 DEF ConfirmWrite, FrameIsReal, Confirming
    <2>2. FrameIsReal([proc[w] EXCEPT !.pc = "advanceRead", !.answer = "unknown"])
      BY <2>1 DEF FrameIsReal, Frames, Locals, Confirming, Advancing
    <2>3. \A q \in Payouts : status'[q] = "SUCCEEDED" => status[q] = "SUCCEEDED" \/ EverPaid(q)
      BY <1>8, <2>1 DEF ConfirmWrite, TypeOK
    <2>. QED
      BY <1>8, <2>2, <2>3 DEF ConfirmWrite
  <1>9. CASE AdvanceReadVault(w)
    <2>1. FrameIsReal([proc[w] EXCEPT !.vault = vault])
      BY DEF FrameIsReal, Frames, Locals
    <2>2. FrameIsReal([proc[w] EXCEPT !.vault = vault, !.pc = "advanceHalf"])
      BY <1>9 DEF AdvanceReadVault, FrameIsReal, Frames, Locals, Confirming, Advancing
    <2>. QED
      BY <1>9, <2>1, <2>2 DEF AdvanceReadVault
  <1>10. CASE AdvanceReadFacts(w)
    <2>1. FactsNow \in {"instants", "all"} => \E q \in Instants : EverPaid(q)
      BY PayoutTypes
      DEF FactsNow, AllSettled, InstantComplete, MoneyIsReal, PaidIsReal
    <2>2. FactsNow = "all" => \A q \in Payouts : EverPaid(q)
      BY DEF FactsNow, AllSettled, MoneyIsReal, PaidIsReal
    <2>3. FrameIsReal([proc[w] EXCEPT !.facts = FactsNow])
      BY <1>10, <2>1, <2>2 DEF AdvanceReadFacts, FrameIsReal, Frames, Locals, Confirming, Advancing
    <2>4. FrameIsReal([proc[w] EXCEPT !.facts = FactsNow, !.pc = "advanceHalf"])
      BY <1>10, <2>1, <2>2 DEF AdvanceReadFacts, FrameIsReal, Frames, Locals, Confirming, Advancing
    <2>. QED
      BY <1>10, <2>3, <2>4 DEF AdvanceReadFacts
  <1>11. CASE AdvanceHalf(w)
    <2>1. HalfReleases(proc[w]) => \E q \in Instants : EverPaid(q)
      BY <1>11 DEF AdvanceHalf, HalfReleases, FrameIsReal, Frames, Locals, Facts
    <2>2. \A q : EverPaid(q)' <=> EverPaid(q)
      BY <1>11 DEF AdvanceHalf, EverPaid
    <2>3. VaultFailsClosed'
      BY <1>11, <2>1, <2>2 DEF AdvanceHalf, VaultFailsClosed, MoneyIsReal
    <2>4. proc[w].facts = "all" =>
            FrameIsReal([proc[w] EXCEPT !.pc = "advanceSettle", !.answer = "unknown"])
      BY <1>11 DEF AdvanceHalf, FrameIsReal, Frames, Locals, Confirming, Advancing
    <2>5. FrameIsReal([proc[w] EXCEPT !.pc = "attest", !.vault = "unread", !.facts = "unread"])
      BY <1>11 DEF AdvanceHalf, FrameIsReal, Frames, Locals, Confirming, Advancing
    <2>. QED
      BY <1>11, <2>3, <2>4, <2>5, VaultKeepsReal DEF AdvanceHalf, Advanced
  <1>12. CASE AdvanceSettle(w)
    <2>1. \A q \in Payouts : EverPaid(q)
      BY <1>12 DEF AdvanceSettle, FrameIsReal
    <2>2. \A q : EverPaid(q)' <=> EverPaid(q)
      BY <1>12 DEF AdvanceSettle, EverPaid
    <2>3. VaultFailsClosed'
      BY <1>12, <2>1, <2>2, PayoutTypes DEF AdvanceSettle, VaultFailsClosed
    <2>4. FrameIsReal([proc[w] EXCEPT !.pc = "settleEvent", !.answer = "unknown"])
      BY <1>12 DEF AdvanceSettle, FrameIsReal, Frames, Locals, Confirming, Advancing
    <2>. QED
      BY <1>12, <2>3, <2>4, VaultKeepsReal DEF AdvanceSettle
  <1>23. CASE SettleEvent(w)
    <2>1. \A q \in Payouts : EverPaid(q)
      BY <1>23 DEF SettleEvent, FrameIsReal
    <2>2. \A q : EverPaid(q)' <=> EverPaid(q)
      BY <1>23 DEF SettleEvent, EverPaid
    <2>3. VaultFailsClosed'
      BY <1>23, <2>1, <2>2 DEF SettleEvent, VaultFailsClosed, MoneyIsReal
    <2>4. FrameIsReal([proc[w] EXCEPT !.pc = "attest", !.vault = "unread", !.facts = "unread"])
      BY <1>23 DEF SettleEvent, FrameIsReal, Frames, Locals, Confirming, Advancing
    <2>. QED
      BY <1>23, <2>3, <2>4, VaultKeepsReal DEF SettleEvent, Advanced
  <1>13. CASE Attest(w)
    <2>1. p # None => EverPaid(p)
      BY <1>13 DEF Attest, FrameIsReal, Advancing
    <2>. QED
      BY <1>13, <2>1 DEF Attest, Enqueue
  <1>14. CASE FailRead(w)
    BY <1>14 DEF FailRead
  <1>15. CASE FailWrite(w)
    BY <1>15 DEF FailWrite, TypeOK
  <1>16. CASE ParkWrite(w)
    BY <1>16 DEF ParkWrite, TypeOK
  <1>17. CASE HookWrite(w)
    BY <1>17 DEF HookWrite, HookStatus, TypeOK
  <1>18. CASE RetryLookup(w)
    BY <1>18 DEF RetryLookup
  <1>19. CASE Requeue(w)
    BY <1>19 DEF Requeue, TypeOK
  <1>20. CASE MilestoneTx(w)
    BY <1>20 DEF MilestoneTx, TypeOK
  <1>21. CASE RefundWrite(w)
    <2>1. VaultFailsClosed'
      BY <1>21 DEF RefundWrite, VaultFailsClosed, MoneyIsReal, EverPaid
    <2>. QED
      BY <1>21, <2>1, VaultKeepsReal DEF RefundWrite
  <1>22. CASE HealCount(w)
    BY <1>22 DEF HealCount
  <1>. QED
    BY <1>1, <1>2, <1>3, <1>4, <1>5, <1>6, <1>7, <1>8, <1>9, <1>10, <1>11, <1>12,
       <1>13, <1>14, <1>15, <1>16, <1>17, <1>18, <1>19, <1>20, <1>21, <1>22, <1>23
    DEF Continue

\* The steps of the provider, the faults and stuttering keep the money real.
LEMMA RealOthers ==
    ASSUME TypeOK, MoneyIsReal
    PROVE  /\ Provider => MoneyIsReal'
           /\ \A w \in Procs : Crash(w) \/ Caught(w) => MoneyIsReal'
           /\ UNCHANGED vars => MoneyIsReal'
  <1>1. ASSUME paid \subseteq paid', UNCHANGED <<db, queue, proc, manual>>,
               \A q \in Payouts, j \in Attempts :
                  transfer'[q][j] \in {"success", "reversed"} => <<q, j>> \in paid',
               \A h \in hooks' : h.kind = "success" => <<h.payout, h.ref>> \in paid'
        PROVE  MoneyIsReal'
    <2>1. /\ \A q \in Payouts : EverPaid(q) => EverPaid(q)'
          /\ \A f : FrameIsReal(f) => FrameIsReal(f)'
      BY <1>1, EverPaidGrows
    <2>2. PaidIsReal' /\ VaultFailsClosed'
      BY <1>1, <2>1, PayoutTypes DEF MoneyIsReal, PaidIsReal, VaultFailsClosed, db, queue
    <2>3. \A v \in Procs : FrameIsReal(proc[v])'
      BY <1>1, <2>1 DEF MoneyIsReal, FrameIsReal, EverPaid
    <2>. QED
      BY <1>1, <2>2, <2>3 DEF MoneyIsReal
  <1>2. ASSUME NEW p \in Payouts, NEW k \in Attempts, ProviderSettles(p, k)
        PROVE  MoneyIsReal'
    <2>1. paid \subseteq paid' /\ UNCHANGED <<db, queue, proc, manual>>
      BY <1>2 DEF ProviderSettles
    <2>2. \A q \in Payouts, j \in Attempts :
            transfer'[q][j] \in {"success", "reversed"} => <<q, j>> \in paid'
      BY <1>2 DEF ProviderSettles, MoneyIsReal, TypeOK
    <2>3. \A h \in hooks' : h.kind = "success" => <<h.payout, h.ref>> \in paid'
      BY <1>2 DEF ProviderSettles, MoneyIsReal
    <2>. QED
      BY <1>1, <2>1, <2>2, <2>3
  <1>3. ASSUME NEW p \in Payouts, NEW k \in Attempts, ProviderReverses(p, k)
        PROVE  MoneyIsReal'
    <2>1. \A q \in Payouts, j \in Attempts :
            transfer'[q][j] \in {"success", "reversed"} => <<q, j>> \in paid'
      BY <1>3 DEF ProviderReverses, MoneyIsReal, TypeOK
    <2>2. \A h \in hooks' : h.kind = "success" => <<h.payout, h.ref>> \in paid'
      BY <1>3 DEF ProviderReverses, MoneyIsReal
    <2>. QED
      BY <1>1, <1>3, <2>1, <2>2 DEF ProviderReverses
  <1>4. ASSUME NEW w \in Procs, Crash(w) PROVE MoneyIsReal'
    BY <1>4, KeepsReal, ModestFrames DEF Crash, Done, db, queue, world
  <1>5. ASSUME NEW w \in Procs, Caught(w) PROVE MoneyIsReal'
    <2>1. FrameIsReal([Idle EXCEPT !.pc = "lookup", !.payout = proc[w].payout,
                                   !.ref = proc[w].ref])
      BY DEF FrameIsReal, Idle, Confirming, Advancing
    <2>. QED
      BY <1>5, <2>1, KeepsReal DEF Caught, Catch, db, queue, world
  <1>6. UNCHANGED vars => MoneyIsReal'
    BY <1>1 DEF vars, db, queue, MoneyIsReal
  <1>. QED
    BY <1>2, <1>3, <1>4, <1>5, <1>6 DEF Provider

\* The inductive invariant of PayoutEngine about money.
THEOREM MoneyCorrect == Spec => []MoneyIsReal
  <1>1. TypeOK /\ MoneyIsReal /\ [Next]_vars => MoneyIsReal'
    BY RealBegin, RealContinue, RealOthers DEF Next
  <1>. QED
    BY RealInit, <1>1, TypeCorrect, PTL DEF Spec

\* A payout is SUCCEEDED, or attested, only if money really moved.
THEOREM PaidCorrect == Spec => []PaidIsReal
  BY MoneyCorrect, PTL DEF MoneyIsReal

\* Vault and event never run ahead of the money.
THEOREM VaultCorrect == Spec => []VaultFailsClosed
  BY MoneyCorrect, PTL DEF MoneyIsReal

-----------------------------------------------------------------------------
(* No second live transfer, in two situations.  Without the sweep and the      *)
(* admin queue the job workers and the webhooks never pay a payout twice,      *)
(* whatever else is running and whatever is lost.  And the sweep pays none     *)
(* twice either as long as only one handler runs at a time: its stale lookup   *)
(* is dangerous only beside another handler.                                   *)

Unattended == Callers \cap {"sweep", "adminRetry"} = {}
OneHandler == \A v, w \in Procs : v = w
Alone      == OneHandler /\ "adminRetry" \notin Callers

\* A payout left in PROCESSING has no live transfer but the one its row names,
\* and its owner works on that one.
SentIsTracked ==
    \A p \in Payouts : status[p] = "PROCESSING" =>
        /\ \A k \in Attempts : k # reference[p] => Dead(p, k)
        /\ \A w \in Procs : Owns(w, p) => proc[w].ref = reference[p]

\* What is dead stays dead, so what a handler owns stays its own.
LEMMA DeadGrows ==
    ASSUME TypeOK, OneOwner,
           \A p \in Payouts : \A k \in Attempts : Dead(p, k) => Dead(p, k)'
    PROVE  /\ NoSecondLiveTransfer'
           /\ \A p \in Payouts : AllDead(p) => AllDead(p)'
           /\ \A f : FrameIsSole(f) => FrameIsSole(f)'
  <1>1. \A p \in Payouts : AllDead(p) => AllDead(p)'
    BY DEF AllDead
  <1>2. \A f : FrameIsSole(f) => FrameIsSole(f)'
    BY <1>1 DEF FrameIsSole, Owner
  <1>3. NoSecondLiveTransfer'
    <2>. SUFFICES ASSUME NEW p \in Payouts, NEW j \in Attempts, NEW k \in Attempts,
                         {transfer'[p][j], transfer'[p][k]} \subseteq {"pending", "success"}
                  PROVE  j = k
      BY DEF NoSecondLiveTransfer
    <2>1. ~Dead(p, j)' /\ ~Dead(p, k)'
      BY DEF Dead
    <2>2. ~Dead(p, j) /\ ~Dead(p, k)
      BY <2>1
    <2>3. {transfer[p][j], transfer[p][k]} \subseteq {"pending", "success"}
      BY <2>2 DEF Dead, TypeOK, TransferStatus
    <2>. QED
      BY <2>3 DEF OneOwner, NoSecondLiveTransfer
  <1>. QED
    BY <1>1, <1>2, <1>3

\* A step by which a handler takes no payout, opens none for claiming, and
\* starts no transfer keeps one owner.
LEMMA KeepsOwner ==
    ASSUME TypeOK, OneOwner, NEW w \in Procs, NEW f, Go(w, f), FrameIsSole(f),
           \A p \in Payouts : Owner(f, p) => Owns(w, p),
           \A p \in Payouts : status'[p] \in {"none", "QUEUED", "FAILED"} =>
               status[p] \in {"none", "QUEUED", "FAILED"},
           UNCHANGED transfer
    PROVE  OneOwner'
  <1>1. \A p \in Payouts : \A k \in Attempts : Dead(p, k) => Dead(p, k)'
    BY DEF Dead
  <1>2. /\ NoSecondLiveTransfer'
        /\ \A p \in Payouts : AllDead(p) => AllDead(p)'
        /\ \A g : FrameIsSole(g) => FrameIsSole(g)'
    BY <1>1, DeadGrows
  <1>3. \A v \in Procs : proc'[v] = IF v = w THEN f ELSE proc[v]
    BY DEF TypeOK, Go
  <1>4. \A v \in Procs : \A p \in Payouts : Owns(v, p)' => Owns(v, p)
    BY <1>3 DEF Owns, Owner
  <1>5. \A v \in Procs : FrameIsSole(proc[v])'
    <2>1. TAKE v \in Procs
    <2>2. \A g : g = proc'[v] => FrameIsSole(g)'
      BY <1>2, <1>3 DEF OneOwner
    <2>. QED
      BY <2>2 DEF FrameIsSole, Owner, Dead, AllDead
  <1>. QED
    BY <1>2, <1>4, <1>5 DEF OneOwner

\* Frames that own nothing.
LEMMA ModestOwners ==
    /\ FrameIsSole(Idle) /\ \A p \in Payouts : ~Owner(Idle, p)
    /\ \A pc \in {"claim", "confirmRead", "hookWrite", "milestoneTx", "releaseTx", "advanceRead",
                   "healCount", "refundWrite"} :
         \A q, k : LET f == Start(pc, q, k) IN
                      FrameIsSole(f) /\ \A p \in Payouts : ~Owner(f, p)
  <1>1. \A p \in Payouts : ~Owner(Idle, p)
    BY DEF Owner, Idle, Failing
  <1>2. FrameIsSole(Idle)
    BY <1>1 DEF FrameIsSole, Idle
  <1>3. \A pc \in {"claim", "confirmRead", "hookWrite", "milestoneTx", "releaseTx", "advanceRead",
                   "healCount", "refundWrite"} :
          \A q, k : LET f == Start(pc, q, k) IN
                       FrameIsSole(f) /\ \A p \in Payouts : ~Owner(f, p)
    BY DEF Owner, FrameIsSole, Start, Idle, Failing
  <1>. QED
    BY <1>1, <1>2, <1>3

\* At first every payout is unclaimed and nothing is sent.
LEMMA SoleInit == Init => OneOwner
  <1>. SUFFICES ASSUME Init
                PROVE  OneOwner
    OBVIOUS
  <1>1. \A p \in Payouts : \A k \in Attempts : transfer[p][k] = "absent"
    BY DEF Init
  <1>2. \A w \in Procs : proc[w] = Idle
    BY DEF Init
  <1>3. \A w \in Procs : FrameIsSole(proc[w]) /\ \A p \in Payouts : ~Owns(w, p)
    BY <1>2, ModestOwners DEF Owns
  <1>4. NoSecondLiveTransfer /\ \A p \in Payouts : AllDead(p)
    BY <1>1 DEF NoSecondLiveTransfer, AllDead, Dead
  <1>. QED
    BY <1>3, <1>4 DEF OneOwner

\* The start of a handler keeps one owner.
LEMMA SoleBegin ==
    ASSUME Unattended \/ (Alone /\ SentIsTracked), TypeOK, OneOwner,
           NEW w \in Procs, Begin(w)
    PROVE  OneOwner'
  <1>. USE KeepsOwner, ModestOwners DEF db, queue, world, Done
  <1>1. ASSUME NEW p \in Payouts, DeliverJob(w, p) PROVE OneOwner'
    BY <1>1 DEF DeliverJob, ExecuteFrom
  <1>2. ASSUME NEW h \in hooks, HookSuccess(w, h) PROVE OneOwner'
    BY <1>2 DEF HookSuccess
  <1>3. ASSUME NEW h \in hooks, HookDead(w, h) PROVE OneOwner'
    <2>. DEFINE f == [Start("hookWrite", h.payout, h.ref) EXCEPT !.answer = h.kind]
    <2>1. FrameIsSole(f) /\ \A p \in Payouts : ~Owner(f, p)
      BY DEF FrameIsSole, Owner, Start, Idle, Failing
    <2>. QED
      BY <1>3, <2>1 DEF HookDead
  <1>4. ASSUME NEW p \in Payouts, Sweep(w, p) PROVE OneOwner'
    <2>. DEFINE f == Start("lookup", p, reference[p])
    <2>1. Alone /\ SentIsTracked
      BY <1>4 DEF Unattended, Sweep
    <2>2. CASE status[p] = "PROCESSING"
      <3>1. \A v \in Procs : proc'[v] = f
        BY <1>4, <2>1, <2>2 DEF Alone, OneHandler, Sweep, Go, TypeOK
      <3>2. f.payout = p /\ f.ref = reference[p] /\ f.pc = "lookup"
        BY DEF Start, Idle
      <3>3. \A q \in Payouts : \A k \in Attempts : Dead(q, k)' <=> Dead(q, k)
        BY <1>4 DEF Sweep, Dead
      <3>4. NoSecondLiveTransfer' /\ \A q \in Payouts : AllDead(q) => AllDead(q)'
        BY <3>3, DeadGrows
      <3>5. \A v \in Procs : FrameIsSole(proc[v])'
        BY <2>1, <2>2, <3>1, <3>2, <3>3 DEF FrameIsSole, Owner, Failing, SentIsTracked
      <3>6. \A q \in Payouts : status'[q] \in {"none", "QUEUED", "FAILED"} =>
              AllDead(q)' /\ \A v \in Procs : ~Owns(v, q)'
        BY <1>4, <2>2, <3>1, <3>2, <3>4 DEF Sweep, OneOwner, Owns, Owner
      <3>. QED
        BY <2>1, <3>4, <3>5, <3>6 DEF OneOwner, Alone, OneHandler
    <2>3. CASE status[p] # "PROCESSING"
      BY <1>4, <2>3 DEF Sweep, ExecuteFrom
    <2>. QED
      BY <2>2, <2>3
  <1>5. CASE HealVault(w)
    BY <1>5 DEF HealVault
  <1>5a. \A p \in Payouts : ~AdminRetry(w, p)
    BY DEF Unattended, Alone, AdminRetry
  <1>6. ASSUME NEW p \in Payouts, MarkManuallyPaid(w, p) PROVE OneOwner'
    BY <1>6 DEF MarkManuallyPaid, TypeOK
  <1>7. ASSUME NEW x \in MilestoneWinners, ConfirmMilestone(w, x) \/ ReleaseDispute(w, x)
        PROVE  OneOwner'
    BY <1>7 DEF ConfirmMilestone, MilestoneDue, ReleaseDispute
  <1>8. ASSUME NEW x \in MilestoneWinners, DisputeRefund(w, x) PROVE OneOwner'
    BY <1>8 DEF DisputeRefund
  <1>. QED
    BY <1>1, <1>2, <1>3, <1>4, <1>5, <1>5a, <1>6, <1>7, <1>8 DEF Begin

\* A handler's next step keeps one owner.
LEMMA SoleContinue ==
    ASSUME TypeOK, OneOwner, NEW w \in Procs, Continue(w)
    PROVE  OneOwner'
  <1>. SUFFICES ASSUME NEW p, NEW k, p = proc[w].payout, k = proc[w].ref
                PROVE  OneOwner'
    OBVIOUS
  <1>0. /\ FrameIsSole(proc[w])
        /\ proc[w] \in Frames
    BY DEF OneOwner, TypeOK
  <1>. USE <1>0, KeepsOwner, ModestOwners
       DEF db, queue, world, Done, Step, Catch, At, Failing
  \* A handler that neither fails nor sends may go on as it is.
  <1>0a. ASSUME NEW pc \in {"confirmRead", "confirmWrite", "advanceRead", "advanceSettle",
                             "settleEvent"}
         PROVE  LET f == [proc[w] EXCEPT !.pc = pc, !.answer = "unknown"] IN
                  FrameIsSole(f) /\ \A q \in Payouts : Owner(f, q) => Owns(w, q)
    BY DEF FrameIsSole, Owns, Owner, Frames, Locals
  \* The catch block goes on asking about the same attempt.
  <1>0b. ASSUME proc[w].try
         PROVE  LET f == [Idle EXCEPT !.pc = "lookup", !.payout = p, !.ref = k] IN
                  FrameIsSole(f) /\ \A q \in Payouts : Owner(f, q) => Owns(w, q)
    BY <1>0b DEF FrameIsSole, Owns, Owner, Idle
  <1>1. CASE ExecuteRead(w) \/ RetryLookup(w) \/ Requeue(w)
    BY <1>1 DEF ExecuteRead, RetryLookup, Requeue, FrameIsSole
  <1>2. CASE Claim(w)
    <2>1. CASE Claimable(p)
      <3>. DEFINE f == [proc[w] EXCEPT !.pc = "initiate", !.try = TRUE]
      <3>1. p \in Payouts /\ AllDead(p) /\ \A v \in Procs : ~Owns(v, p)
        BY <1>2, <2>1, InHand
        DEF Claim, Claimable, OneOwner, OnPayout, ControlPoints, Advancing
      <3>2. \A q \in Payouts : status'[q] \in {"none", "QUEUED", "FAILED"} =>
              q # p /\ status[q] \in {"none", "QUEUED", "FAILED"}
        BY <1>2, <2>1, <3>1 DEF Claim, TypeOK
      <3>3. \A v \in Procs : proc'[v] = IF v = w THEN f ELSE proc[v]
        BY <1>2, <2>1 DEF Claim, Go, TypeOK
      <3>4. UNCHANGED transfer
        BY <1>2 DEF Claim
      <3>5. \A v \in Procs : \A q \in Payouts : Owns(v, q)' => Owns(v, q) \/ (v = w /\ q = p)
        <4>1. proc'[w].payout = p
          <5>1. f.payout = p
            BY DEF Frames, Locals
          <5>. QED
            BY <3>3, <5>1
        <4>2. TAKE v \in Procs
        <4>3. CASE v = w
          BY <4>1, <4>3 DEF Owns, Owner
        <4>4. CASE v # w
          BY <3>3, <4>4 DEF Owns, Owner
        <4>. QED
          BY <4>3, <4>4
      <3>6. /\ \A q \in Payouts : AllDead(q) => AllDead(q)'
            /\ \A g : FrameIsSole(g) => FrameIsSole(g)'
            /\ NoSecondLiveTransfer'
        BY <3>4, DeadGrows DEF Dead
      <3>7. FrameIsSole(f)
        BY <1>2, <3>1 DEF FrameIsSole, Owner, AllDead, Frames, Locals
      <3>8. \A v \in Procs : FrameIsSole(proc[v])'
        <4>1. TAKE v \in Procs
        <4>2. \A g : g = proc'[v] => FrameIsSole(g)'
          BY <3>3, <3>6, <3>7 DEF OneOwner
        <4>. QED
          BY <4>2 DEF FrameIsSole, Owner, Dead, AllDead
      <3>. QED
        BY <3>1, <3>2, <3>5, <3>6, <3>8 DEF OneOwner
    <2>2. CASE ~Claimable(p)
      BY <1>2, <2>2 DEF Claim
    <2>. QED
      BY <2>1, <2>2
  <1>3. CASE InitiateAccepted(w)
    <2>1. p \in Payouts /\ k \in Attempts /\ proc[w].try
      BY <1>3, InHand
      DEF InitiateAccepted, FrameIsSole, OnPayout, ControlPoints, Advancing
    <2>2. PICK s \in {"pending", "success", "failed"} :
            /\ transfer' = [transfer EXCEPT ![p][k] = s]
            /\ \/ Go(w, [proc[w] EXCEPT !.pc = "record", !.answer = s])
               \/ "lostResponse" \in Faults /\ Catch(w)
      BY <1>3 DEF InitiateAccepted
    <2>3. UNCHANGED status
      BY <1>3 DEF InitiateAccepted
    <2>4. AllDead(p) /\ Owns(w, p)
      BY <1>3, <2>1 DEF InitiateAccepted, FrameIsSole, Owns, Owner
    <2>5. \A q \in Payouts : \A j \in Attempts :
            (q # p \/ j # k) => (Dead(q, j)' <=> Dead(q, j))
      BY <2>1, <2>2 DEF Dead, TypeOK
    <2>6. \A v \in Procs : v # w => proc'[v] = proc[v] /\ ~Owns(v, p)
      BY <2>1, <2>2, <2>4 DEF Go, TypeOK, OneOwner
    <2>7. \/ proc'[w] = [proc[w] EXCEPT !.pc = "record", !.answer = s]
          \/ proc'[w] = [Idle EXCEPT !.pc = "lookup", !.payout = p, !.ref = k]
      BY <2>2 DEF Go, TypeOK
    <2>8. /\ proc'[w].payout = p /\ proc'[w].ref = k
          /\ proc'[w].pc \in {"record", "lookup"}
          /\ proc'[w].pc = "record" => proc'[w].try /\ proc'[w].answer = s
      <3>1. CASE proc'[w] = [proc[w] EXCEPT !.pc = "record", !.answer = s]
        BY <2>1, <3>1 DEF Frames, Locals
      <3>2. CASE proc'[w] = [Idle EXCEPT !.pc = "lookup", !.payout = p, !.ref = k]
        BY <3>2 DEF Idle
      <3>. QED
        BY <2>7, <3>1, <3>2
    <2>9. FrameIsSole(proc[w])'
      <3>1. \A j \in Attempts : j # k => Dead(p, j)'
        BY <2>1, <2>4, <2>5 DEF AllDead
      <3>2. s = "failed" => AllDead(p)'
        <4>1. s = "failed" => Dead(p, k)'
          BY <2>1, <2>2 DEF Dead, TypeOK
        <4>. QED
          BY <3>1, <4>1 DEF AllDead
      <3>. QED
        BY <2>8, <3>1, <3>2 DEF FrameIsSole, Owner
    <2>10. \A v \in Procs : v # w => FrameIsSole(proc[v])'
      <3>1. TAKE v \in Procs
      <3>2. CASE v = w
        BY <3>2
      <3>3. CASE v # w
        <4>1. FrameIsSole(proc[v])
          BY DEF OneOwner
        <4>2. \A q \in Payouts : Owner(proc[v], q) => q # p
          BY <2>6, <3>3 DEF Owns
        <4>3. \A q \in Payouts : q # p => (AllDead(q) => AllDead(q)')
          BY <2>5 DEF AllDead
        <4>. QED
          BY <2>5, <2>6, <3>3, <4>1, <4>2, <4>3 DEF FrameIsSole, Owner
      <3>. QED
        BY <3>2, <3>3
    <2>11. NoSecondLiveTransfer'
      <3>. SUFFICES ASSUME NEW q \in Payouts, NEW i \in Attempts, NEW j \in Attempts,
                           {transfer'[q][i], transfer'[q][j]} \subseteq {"pending", "success"}
                    PROVE  i = j
        BY DEF NoSecondLiveTransfer
      <3>1. ~Dead(q, i)' /\ ~Dead(q, j)'
        BY DEF Dead
      <3>2. CASE q = p
        BY <2>4, <2>5, <3>1, <3>2 DEF AllDead
      <3>3. CASE q # p
        <4>1. {transfer[q][i], transfer[q][j]} \subseteq {"pending", "success"}
          BY <2>5, <3>1, <3>3 DEF Dead, TypeOK, TransferStatus
        <4>. QED
          BY <4>1 DEF OneOwner, NoSecondLiveTransfer
      <3>. QED
        BY <3>2, <3>3
    <2>12. \A v \in Procs : \A q \in Payouts : Owns(v, q)' => Owns(v, q)
      BY <2>4, <2>6, <2>8 DEF Owns, Owner
    <2>13. \A q \in Payouts : status[q] \in {"none", "QUEUED", "FAILED"} => AllDead(q)'
      BY <2>1, <2>4, <2>5 DEF AllDead, OneOwner
    <2>. QED
      BY <2>3, <2>9, <2>10, <2>11, <2>12, <2>13 DEF OneOwner
  <1>4. CASE InitiateRefused(w)
    BY <1>4, <1>0b DEF InitiateRefused, FrameIsSole
  <1>5. CASE RecordTransfer(w)
    <2>. DEFINE f == [proc[w] EXCEPT !.pc = "failRead", !.answer = "unknown"]
    <2>1. proc[w].answer = "failed" =>
            FrameIsSole(f) /\ \A q \in Payouts : Owner(f, q) => Owns(w, q)
      BY <1>5 DEF RecordTransfer, FrameIsSole, Owns, Owner, AllDead, Frames, Locals
    <2>. QED
      BY <1>5, <1>0a, <2>1 DEF RecordTransfer
  <1>6. CASE Lookup(w)
    <2>. DEFINE f == [proc[w] EXCEPT !.pc = "failRead", !.answer = "unknown"]
    <2>1. PICK a \in LookupAnswers(p, k) :
            CASE AfterAmbiguousTransferError(a) = "confirm" -> Step(w, "confirmRead")
              [] AfterAmbiguousTransferError(a) = "retry"   -> Step(w, "failRead")
              [] OTHER                                      -> Done(w)
      BY <1>6 DEF Lookup
    <2>2. p \in Payouts /\ Owns(w, p)
      BY <1>6, InHand DEF Lookup, OnPayout, ControlPoints, Advancing, Owns, Owner
    <2>3. AfterAmbiguousTransferError(a) = "retry" => AllDead(p)
      <3>1. AfterAmbiguousTransferError(a) = "retry" => a \in {"failed", "reversed", "absent"}
        BY DEF AfterAmbiguousTransferError
      <3>2. a \in {"failed", "reversed", "absent"} /\ k \in Attempts => Dead(p, k)
        BY DEF LookupAnswers, Truth, Dead
      <3>. QED
        BY <2>2, <3>1, <3>2 DEF FrameIsSole, Owns, AllDead
    <2>4. AllDead(p) => FrameIsSole(f) /\ \A q \in Payouts : Owner(f, q) => Owns(w, q)
      BY <2>2 DEF FrameIsSole, Owns, Owner, AllDead, Frames, Locals
    <2>. QED
      BY <1>6, <1>0a, <2>1, <2>3, <2>4 DEF Lookup
  <1>7. CASE ConfirmRead(w) \/ ConfirmWrite(w)
    BY <1>7, <1>0a DEF ConfirmRead, ConfirmWrite, TypeOK
  <1>8. CASE AdvanceReadVault(w) \/ AdvanceReadFacts(w)
    <2>1. \A x : LET f == [proc[w] EXCEPT !.vault = x] IN
            FrameIsSole(f) /\ \A q \in Payouts : Owner(f, q) => Owns(w, q)
      BY DEF FrameIsSole, Owns, Owner, Frames, Locals
    <2>2. \A x : LET f == [proc[w] EXCEPT !.vault = x, !.pc = "advanceHalf"] IN
            FrameIsSole(f) /\ \A q \in Payouts : Owner(f, q) => Owns(w, q)
      BY DEF FrameIsSole, Owns, Owner, Frames, Locals
    <2>3. \A x : LET f == [proc[w] EXCEPT !.facts = x] IN
            FrameIsSole(f) /\ \A q \in Payouts : Owner(f, q) => Owns(w, q)
      BY DEF FrameIsSole, Owns, Owner, Frames, Locals
    <2>4. \A x : LET f == [proc[w] EXCEPT !.facts = x, !.pc = "advanceHalf"] IN
            FrameIsSole(f) /\ \A q \in Payouts : Owner(f, q) => Owns(w, q)
      BY DEF FrameIsSole, Owns, Owner, Frames, Locals
    <2>5. CASE AdvanceReadVault(w)
      BY <2>1, <2>2, <2>5 DEF AdvanceReadVault
    <2>6. CASE AdvanceReadFacts(w)
      BY <2>3, <2>4, <2>6 DEF AdvanceReadFacts
    <2>. QED
      BY <1>8, <2>5, <2>6
  <1>9. CASE AdvanceHalf(w) \/ AdvanceSettle(w) \/ SettleEvent(w)
    <2>. DEFINE f == [proc[w] EXCEPT !.pc = "attest", !.vault = "unread", !.facts = "unread"]
    <2>1. FrameIsSole(f) /\ \A q \in Payouts : Owner(f, q) => Owns(w, q)
      BY DEF FrameIsSole, Owns, Owner, Frames, Locals
    <2>. QED
      BY <1>9, <1>0a, <2>1 DEF AdvanceHalf, AdvanceSettle, SettleEvent, Advanced
  <1>10. CASE Attest(w) \/ RefundWrite(w)
    BY <1>10 DEF Attest, RefundWrite
  <1>11. CASE FailRead(w)
    <2>1. \A pc \in {"parkWrite", "failWrite"} :
            LET f == [proc[w] EXCEPT !.pc = pc, !.answer = "unknown"] IN
              FrameIsSole(f) /\ \A q \in Payouts : Owner(f, q) => Owns(w, q)
      BY <1>11 DEF FailRead, FrameIsSole, Owns, Owner, Frames, Locals
    <2>. QED
      BY <1>11, <2>1 DEF FailRead
  <1>12. CASE FailWrite(w)
    <2>1. p \in Payouts /\ Owns(w, p) /\ AllDead(p)
      BY <1>12, InHand
      DEF FailWrite, FrameIsSole, Owns, Owner, OnPayout, ControlPoints, Advancing
    <2>2. \A v \in Procs : proc'[v] = IF v = w THEN Idle ELSE proc[v]
      BY <1>12 DEF FailWrite, Go, TypeOK
    <2>3. \A v \in Procs : \A q \in Payouts : Owns(v, q)' => Owns(v, q) /\ v # w
      BY <2>2 DEF Owns, Owner, Idle
    <2>4. \A q \in Payouts : q # p => status'[q] = status[q]
      BY <1>12, <2>1 DEF FailWrite, TypeOK
    <2>5. UNCHANGED transfer
      BY <1>12 DEF FailWrite
    <2>6. /\ \A q \in Payouts : AllDead(q) => AllDead(q)'
          /\ \A g : FrameIsSole(g) => FrameIsSole(g)'
          /\ NoSecondLiveTransfer'
      BY <2>5, DeadGrows DEF Dead
    <2>7. \A v \in Procs : FrameIsSole(proc[v])'
      <3>1. TAKE v \in Procs
      <3>2. \A g : g = proc'[v] => FrameIsSole(g)'
        BY <2>2, <2>6 DEF OneOwner
      <3>. QED
        BY <3>2 DEF FrameIsSole, Owner, Dead, AllDead
    <2>8. \A v \in Procs : ~Owns(v, p)'
      BY <2>1, <2>3 DEF OneOwner
    <2>9. \A q \in Payouts : status'[q] \in {"none", "QUEUED", "FAILED"} =>
            AllDead(q)' /\ \A v \in Procs : ~Owns(v, q)'
      BY <2>1, <2>3, <2>4, <2>6, <2>8 DEF OneOwner
    <2>10. \A q \in Payouts : \A u, v \in Procs : Owns(u, q)' /\ Owns(v, q)' => u = v
      BY <2>3 DEF OneOwner
    <2>. QED
      BY <2>6, <2>7, <2>9, <2>10 DEF OneOwner
  <1>13. CASE ParkWrite(w)
    BY <1>13 DEF ParkWrite, TypeOK
  <1>14. CASE HookWrite(w)
    BY <1>14 DEF HookWrite, HookStatus, TypeOK
  <1>15. CASE MilestoneTx(w)
    BY <1>15 DEF MilestoneTx, TypeOK
  <1>16. CASE HealCount(w)
    BY <1>16 DEF HealCount
  <1>. QED
    BY <1>1, <1>2, <1>3, <1>4, <1>5, <1>6, <1>7, <1>8, <1>9, <1>10, <1>11, <1>12,
       <1>13, <1>14, <1>15, <1>16
    DEF Continue

\* The steps of the provider, the faults and stuttering keep one owner.
LEMMA SoleOthers ==
    ASSUME TypeOK, OneOwner
    PROVE  /\ Provider => OneOwner'
           /\ \A w \in Procs : Crash(w) \/ Caught(w) => OneOwner'
           /\ UNCHANGED vars => OneOwner'
  <1>1. ASSUME UNCHANGED <<status, proc>>,
               \A p \in Payouts : \A k \in Attempts : Dead(p, k) => Dead(p, k)'
        PROVE  OneOwner'
    <2>1. /\ NoSecondLiveTransfer'
          /\ \A p \in Payouts : AllDead(p) => AllDead(p)'
          /\ \A f : FrameIsSole(f) => FrameIsSole(f)'
      BY <1>1, DeadGrows
    <2>2. \A w \in Procs : FrameIsSole(proc[w])'
      <3>1. TAKE w \in Procs
      <3>2. \A g : g = proc[w] => FrameIsSole(g)'
        BY <2>1 DEF OneOwner
      <3>. QED
        BY <1>1, <3>2 DEF FrameIsSole, Owner, Dead, AllDead
    <2>3. \A w \in Procs : \A p \in Payouts : Owns(w, p)' <=> Owns(w, p)
      BY <1>1 DEF Owns
    <2>. QED
      BY <1>1, <2>1, <2>2, <2>3 DEF OneOwner
  <1>2. ASSUME NEW p \in Payouts, NEW k \in Attempts,
               ProviderSettles(p, k) \/ ProviderReverses(p, k)
        PROVE  OneOwner'
    <2>1. \A q \in Payouts : \A j \in Attempts : Dead(q, j) => Dead(q, j)'
      BY <1>2 DEF ProviderSettles, ProviderReverses, Dead, TypeOK
    <2>. QED
      BY <1>1, <1>2, <2>1 DEF ProviderSettles, ProviderReverses, db
  <1>3. ASSUME NEW w \in Procs, Crash(w) PROVE OneOwner'
    BY <1>3, KeepsOwner, ModestOwners DEF Crash, Done, db, world
  <1>4. ASSUME NEW w \in Procs, Caught(w) PROVE OneOwner'
    <2>. DEFINE f == [Idle EXCEPT !.pc = "lookup", !.payout = proc[w].payout,
                                  !.ref = proc[w].ref]
    <2>1. FrameIsSole(f) /\ \A q \in Payouts : Owner(f, q) => Owns(w, q)
      BY <1>4 DEF Caught, OneOwner, FrameIsSole, Owns, Owner, Idle, Failing
    <2>. QED
      BY <1>4, <2>1, KeepsOwner DEF Caught, Catch, db, world
  <1>5. UNCHANGED vars => OneOwner'
    BY <1>1 DEF vars, Dead
  <1>. QED
    BY <1>2, <1>3, <1>4, <1>5 DEF Provider

\* A handler's step that leaves a payout in PROCESSING, and its reference, keeps
\* track of what was sent.
LEMMA KeepsTrack ==
    ASSUME TypeOK, SentIsTracked, OneHandler, NEW w \in Procs, NEW f, Go(w, f),
           \A p \in Payouts : status'[p] = "PROCESSING" =>
               /\ status[p] = "PROCESSING"
               /\ reference'[p] = reference[p]
               /\ Owner(f, p) => f.ref = reference[p],
           UNCHANGED transfer
    PROVE  SentIsTracked'
  <1>1. \A v \in Procs : proc'[v] = f
    BY DEF OneHandler, Go, TypeOK
  <1>2. \A v \in Procs : \A p \in Payouts : Owns(v, p)' <=> Owner(f, p)
    BY <1>1 DEF Owns, Owner
  <1>. QED
    BY <1>1, <1>2 DEF SentIsTracked, Dead

\* The start of a handler keeps track of what was sent.
LEMMA TrackBegin ==
    ASSUME Alone, TypeOK, SentIsTracked, NEW w \in Procs, Begin(w)
    PROVE  SentIsTracked'
  <1>. USE KeepsTrack, ModestOwners DEF Alone, db, queue, world, Done
  <1>1. ASSUME NEW p \in Payouts, DeliverJob(w, p) PROVE SentIsTracked'
    BY <1>1 DEF DeliverJob, ExecuteFrom
  <1>2. ASSUME NEW h \in hooks, HookSuccess(w, h) PROVE SentIsTracked'
    BY <1>2 DEF HookSuccess
  <1>3. ASSUME NEW h \in hooks, HookDead(w, h) PROVE SentIsTracked'
    <2>. DEFINE f == [Start("hookWrite", h.payout, h.ref) EXCEPT !.answer = h.kind]
    <2>1. \A p \in Payouts : ~Owner(f, p)
      BY DEF Owner, Start, Idle, Failing
    <2>. QED
      BY <1>3, <2>1 DEF HookDead
  <1>4. ASSUME NEW p \in Payouts, Sweep(w, p) PROVE SentIsTracked'
    <2>1. \A q : Owner(Start("lookup", p, reference[p]), q) => q = p
      BY DEF Owner, Start, Idle
    <2>2. Start("lookup", p, reference[p]).ref = reference[p]
      BY DEF Start, Idle
    <2>. QED
      BY <1>4, <2>1, <2>2 DEF Sweep, ExecuteFrom
  <1>5. CASE HealVault(w)
    BY <1>5 DEF HealVault
  <1>6. ASSUME NEW p \in Payouts, MarkManuallyPaid(w, p) PROVE SentIsTracked'
    BY <1>6 DEF MarkManuallyPaid, TypeOK
  <1>7. ASSUME NEW x \in MilestoneWinners, ConfirmMilestone(w, x) \/ ReleaseDispute(w, x)
        PROVE  SentIsTracked'
    BY <1>7 DEF ConfirmMilestone, MilestoneDue, ReleaseDispute
  <1>8. ASSUME NEW x \in MilestoneWinners, DisputeRefund(w, x) PROVE SentIsTracked'
    BY <1>8 DEF DisputeRefund
  <1>9. \A p \in Payouts : ~AdminRetry(w, p)
    BY DEF AdminRetry
  <1>. QED
    BY <1>1, <1>2, <1>3, <1>4, <1>5, <1>6, <1>7, <1>8, <1>9 DEF Begin

\* A handler's next step keeps track of what was sent.
LEMMA TrackContinue ==
    ASSUME OneHandler, TypeOK, OneOwner, SentIsTracked, NEW w \in Procs, Continue(w)
    PROVE  SentIsTracked'
  <1>. SUFFICES ASSUME NEW p, NEW k, p = proc[w].payout, k = proc[w].ref
                PROVE  SentIsTracked'
    OBVIOUS
  <1>. DEFINE KeepsPace == UNCHANGED transfer /\ \A q \in Payouts :
                             status'[q] = "PROCESSING" =>
                                 status[q] = "PROCESSING" /\ reference'[q] = reference[q]
              Follows(f)  == f.ref = k /\ \A q \in Payouts : Owner(f, q) => Owns(w, q)
  <1>0. /\ FrameIsSole(proc[w])
        /\ proc[w] \in Frames
    BY DEF OneOwner, TypeOK
  \* A handler that goes on with the same attempt of a payout it owned.
  <1>1. ASSUME NEW f, Go(w, f), Follows(f), KeepsPace PROVE SentIsTracked'
    <2>1. \A q \in Payouts : status[q] = "PROCESSING" /\ Owner(f, q) =>
            f.ref = reference[q]
      BY <1>1 DEF SentIsTracked
    <2>. QED
      BY <1>1, <2>1, KeepsTrack
  \* A handler that owns nothing any more.
  <1>2. ASSUME NEW f, Go(w, f), \A q \in Payouts : ~Owner(f, q), KeepsPace
        PROVE  SentIsTracked'
    BY <1>2, KeepsTrack
  <1>3. \A pc \in {"record", "confirmRead", "confirmWrite", "advanceRead", "advanceSettle",
                   "settleEvent"} :
          Follows([proc[w] EXCEPT !.pc = pc, !.answer = "unknown"])
    BY <1>0 DEF Owns, Owner, Failing, Frames, Locals
  <1>4. proc[w].try \/ At(w, "lookup") \/ proc[w].pc \in Failing =>
          /\ \A pc : Follows([proc[w] EXCEPT !.pc = pc, !.answer = "unknown"])
          /\ Follows([Idle EXCEPT !.pc = "lookup", !.payout = p, !.ref = k])
    BY <1>0 DEF Owns, Owner, At, Idle, Frames, Locals
  <1>. USE <1>0, ModestOwners DEF db, queue, world, Done, Step, Catch, At
  <1>5. CASE ExecuteRead(w) \/ RetryLookup(w) \/ Requeue(w)
    BY <1>5 DEF ExecuteRead, RetryLookup, Requeue, FrameIsSole
  <1>6. CASE Claim(w)
    <2>1. CASE Claimable(p)
      <3>. DEFINE f == [proc[w] EXCEPT !.pc = "initiate", !.try = TRUE]
      <3>1. p \in Payouts /\ AllDead(p)
        BY <1>6, <2>1, InHand
        DEF Claim, Claimable, OneOwner, OnPayout, ControlPoints, Advancing
      <3>2. \A v \in Procs : proc'[v] = f
        BY <1>6, <2>1 DEF Claim, Go, TypeOK, OneHandler
      <3>3. f.payout = p /\ f.ref = k
        BY DEF Frames, Locals
      <3>4. \A q \in Payouts : \A j \in Attempts : Dead(q, j)' <=> Dead(q, j)
        BY <1>6 DEF Claim, Dead
      <3>5. reference'[p] = k /\ \A q \in Payouts \ {p} : /\ status'[q] = status[q]
                                                      /\ reference'[q] = reference[q]
        BY <1>6, <2>1, <3>1 DEF Claim, TypeOK
      <3>6. \A v \in Procs : \A q \in Payouts \ {p} : ~Owns(v, q)'
        BY <3>2, <3>3 DEF Owns, Owner
      <3>7. \A q \in Payouts : \A j \in Attempts :
              status'[q] = "PROCESSING" /\ j # reference'[q] => Dead(q, j)'
        BY <3>1, <3>4, <3>5 DEF SentIsTracked, AllDead
      <3>8. \A v \in Procs : \A q \in Payouts :
              Owns(v, q)' /\ status'[q] = "PROCESSING" => proc'[v].ref = reference'[q]
        BY <3>2, <3>3, <3>5, <3>6
      <3>. QED
        BY <3>7, <3>8 DEF SentIsTracked
    <2>2. CASE ~Claimable(p)
      BY <1>2, <1>6, <2>2 DEF Claim
    <2>. QED
      BY <2>1, <2>2
  <1>7. CASE InitiateAccepted(w)
    <2>1. p \in Payouts /\ k \in Attempts /\ Owns(w, p)
      BY <1>7, InHand
      DEF InitiateAccepted, FrameIsSole, OnPayout, ControlPoints, Advancing, Owns, Owner
    <2>2. \A q \in Payouts : \A j \in Attempts :
            (q # p \/ j # k) => (Dead(q, j)' <=> Dead(q, j))
      BY <1>7, <2>1 DEF InitiateAccepted, Dead, TypeOK
    <2>3. proc'[w].payout = p /\ proc'[w].ref = k
      <3>1. PICK s : \/ Go(w, [proc[w] EXCEPT !.pc = "record", !.answer = s])
                     \/ Go(w, [Idle EXCEPT !.pc = "lookup", !.payout = p, !.ref = k])
        BY <1>7 DEF InitiateAccepted
      <3>2. \/ proc'[w] = [proc[w] EXCEPT !.pc = "record", !.answer = s]
            \/ proc'[w] = [Idle EXCEPT !.pc = "lookup", !.payout = p, !.ref = k]
        BY <3>1 DEF Go, TypeOK
      <3>3. LET f == [proc[w] EXCEPT !.pc = "record", !.answer = s] IN
              f.payout = p /\ f.ref = k
        BY DEF Frames, Locals
      <3>4. LET f == [Idle EXCEPT !.pc = "lookup", !.payout = p, !.ref = k] IN
              f.payout = p /\ f.ref = k
        BY DEF Idle
      <3>. QED
        BY <3>2, <3>3, <3>4
    <2>4. UNCHANGED <<status, reference>>
      BY <1>7 DEF InitiateAccepted
    <2>5. \A v \in Procs : \A q \in Payouts : Owns(v, q)' => q = p /\ v = w
      BY <2>3 DEF Owns, Owner, OneHandler
    <2>6. \A q \in Payouts : status'[q] = "PROCESSING" =>
            \A j \in Attempts : j # reference'[q] => Dead(q, j)'
      BY <2>1, <2>2, <2>4 DEF SentIsTracked
    <2>. QED
      BY <2>1, <2>3, <2>4, <2>5, <2>6 DEF SentIsTracked
  <1>8. CASE InitiateRefused(w)
    BY <1>1, <1>4, <1>8 DEF InitiateRefused, FrameIsSole
  <1>9. CASE RecordTransfer(w)
    <2>1. p \in Payouts /\ proc[w].try
      BY <1>9, InHand DEF RecordTransfer, FrameIsSole, OnPayout, ControlPoints, Advancing
    <2>2. KeepsPace
      BY <1>9, <2>1 DEF RecordTransfer, SentIsTracked, Owns, Owner, TypeOK
    <2>. QED
      BY <1>1, <1>2, <1>4, <1>9, <2>1, <2>2 DEF RecordTransfer
  <1>10. CASE Lookup(w)
    BY <1>1, <1>2, <1>4, <1>10 DEF Lookup
  <1>11. CASE ConfirmRead(w)
    BY <1>1, <1>2, <1>3, <1>11 DEF ConfirmRead
  <1>12. CASE ConfirmWrite(w)
    <2>1. p \in Payouts
      BY <1>12, InHand DEF ConfirmWrite, OnPayout, ControlPoints, Advancing
    <2>2. KeepsPace
      BY <1>12, <2>1 DEF ConfirmWrite, TypeOK
    <2>. QED
      BY <1>1, <1>3, <1>12, <2>2 DEF ConfirmWrite
  <1>13. CASE AdvanceReadVault(w) \/ AdvanceReadFacts(w)
    <2>1. \A x : /\ Follows([proc[w] EXCEPT !.vault = x])
                 /\ Follows([proc[w] EXCEPT !.vault = x, !.pc = "advanceHalf"])
                 /\ Follows([proc[w] EXCEPT !.facts = x])
                 /\ Follows([proc[w] EXCEPT !.facts = x, !.pc = "advanceHalf"])
      BY DEF Owns, Owner, Failing, Frames, Locals
    <2>2. CASE AdvanceReadVault(w)
      BY <1>1, <2>1, <2>2 DEF AdvanceReadVault
    <2>3. CASE AdvanceReadFacts(w)
      BY <1>1, <2>1, <2>3 DEF AdvanceReadFacts
    <2>. QED
      BY <1>13, <2>2, <2>3
  <1>14. CASE AdvanceHalf(w) \/ AdvanceSettle(w) \/ SettleEvent(w)
    <2>1. Follows([proc[w] EXCEPT !.pc = "attest", !.vault = "unread", !.facts = "unread"])
      BY DEF Owns, Owner, Failing, Frames, Locals
    <2>. QED
      BY <1>1, <1>3, <1>14, <2>1 DEF AdvanceHalf, AdvanceSettle, SettleEvent, Advanced
  <1>15. CASE Attest(w) \/ RefundWrite(w)
    BY <1>2, <1>15 DEF Attest, RefundWrite
  <1>16. CASE FailRead(w)
    BY <1>1, <1>4, <1>16 DEF FailRead, Failing
  <1>17. CASE FailWrite(w)
    <2>1. p \in Payouts
      BY <1>17, InHand DEF FailWrite, OnPayout, ControlPoints, Advancing
    <2>2. KeepsPace
      BY <1>17, <2>1 DEF FailWrite, TypeOK
    <2>. QED
      BY <1>2, <1>17, <2>2 DEF FailWrite
  <1>18. CASE ParkWrite(w)
    BY <1>2, <1>18 DEF ParkWrite, TypeOK
  <1>19. CASE HookWrite(w)
    BY <1>2, <1>19 DEF HookWrite, HookStatus, TypeOK
  <1>20. CASE MilestoneTx(w)
    BY <1>2, <1>20 DEF MilestoneTx, TypeOK
  <1>21. CASE HealCount(w)
    BY <1>2, <1>21 DEF HealCount
  <1>. QED
    BY <1>5, <1>6, <1>7, <1>8, <1>9, <1>10, <1>11, <1>12, <1>13, <1>14, <1>15, <1>16,
       <1>17, <1>18, <1>19, <1>20, <1>21 DEF Continue

\* The provider, a crash and a failing statement keep track of what was sent.
LEMMA TrackOthers ==
    ASSUME OneHandler, TypeOK, SentIsTracked
    PROVE  /\ Provider => SentIsTracked'
           /\ \A w \in Procs : Crash(w) \/ Caught(w) => SentIsTracked'
           /\ UNCHANGED vars => SentIsTracked'
  <1>1. ASSUME NEW p \in Payouts, NEW k \in Attempts,
               ProviderSettles(p, k) \/ ProviderReverses(p, k)
        PROVE  SentIsTracked'
    <2>1. \A q \in Payouts : \A j \in Attempts : Dead(q, j) => Dead(q, j)'
      BY <1>1 DEF ProviderSettles, ProviderReverses, Dead, TypeOK
    <2>. QED
      BY <1>1, <2>1 DEF ProviderSettles, ProviderReverses, db, SentIsTracked, Owns
  <1>2. ASSUME NEW w \in Procs, Crash(w) PROVE SentIsTracked'
    BY <1>2, KeepsTrack, ModestOwners DEF Crash, Done, db, world
  <1>3. ASSUME NEW w \in Procs, Caught(w) PROVE SentIsTracked'
    <2>. DEFINE f == [Idle EXCEPT !.pc = "lookup", !.payout = proc[w].payout,
                                  !.ref = proc[w].ref]
    <2>1. f.ref = proc[w].ref /\ \A q \in Payouts : Owner(f, q) => Owns(w, q)
      BY <1>3 DEF Caught, Owns, Owner, Idle
    <2>2. \A q \in Payouts : status[q] = "PROCESSING" /\ Owner(f, q) => f.ref = reference[q]
      BY <2>1 DEF SentIsTracked
    <2>. QED
      BY <1>3, <2>2, KeepsTrack DEF Caught, Catch, db, world
  <1>4. UNCHANGED vars => SentIsTracked'
    BY DEF vars, SentIsTracked, Owns, Dead
  <1>. QED
    BY <1>1, <1>2, <1>3, <1>4 DEF Provider

\* One owner at a time, for ever: when only workers, webhooks and people act, and
\* when the sweep does too but nothing runs beside it.
THEOREM OwnerCorrect == ASSUME Unattended \/ Alone PROVE Spec => []OneOwner
  <1>1. CASE Unattended
    <2>1. TypeOK /\ OneOwner /\ [Next]_vars => OneOwner'
      BY <1>1, SoleBegin, SoleContinue, SoleOthers DEF Next
    <2>. QED
      BY SoleInit, <2>1, TypeCorrect, PTL DEF Spec
  <1>2. CASE Alone
    <2>1. Init => SentIsTracked
      BY DEF Init, SentIsTracked
    <2>2. TypeOK /\ (OneOwner /\ SentIsTracked) /\ [Next]_vars => (OneOwner /\ SentIsTracked)'
      BY <1>2, SoleBegin, SoleContinue, SoleOthers, TrackBegin, TrackContinue, TrackOthers
      DEF Next, Alone
    <2>. QED
      BY SoleInit, <2>1, <2>2, TypeCorrect, PTL DEF Spec
  <1>. QED
    BY <1>1, <1>2

\* No payout ever has two transfers that are paid or still may be.  Without the
\* sweep and the admin queue no job, webhook, crash, lost response, redelivery or
\* database error makes executePayout pay twice; nor does the sweep, as long as it
\* never runs beside another handler.
THEOREM NeverPaidTwice == ASSUME Unattended \/ Alone PROVE Spec => []NoSecondLiveTransfer
  BY OwnerCorrect, PTL DEF OneOwner

-----------------------------------------------------------------------------
(* The engine implements Payments *)

Books   == {p \in Payouts : status[p] = "SUCCEEDED"}
EverOf  == {p \in Payouts : EverPaid(p)}
Account == <<TransfersIn("pending"), TransfersIn("success"), EverOf, Books>>
Moves   == Promise!Next \/ UNCHANGED Account

\* A payout without a live transfer is idle in the account.
LEMMA DeadIsIdle ==
    ASSUME NEW p \in Payouts, AllDead(p)
    PROVE  Promise!Idle(p)
  BY DEF AllDead, Dead, TransfersIn, Promise!Idle

\* A step that only closes, reopens or confirms one payout.
LEMMA StatusMoves ==
    ASSUME TypeOK, UNCHANGED <<transfer, paid, manual>>, NEW p \in Payouts, NEW s,
           status' = [status EXCEPT ![p] = s],
           \/ s = "SUCCEEDED" /\ EverPaid(p)
           \/ s # "SUCCEEDED" /\ (status[p] # "SUCCEEDED" \/ AllDead(p))
    PROVE  Moves
  <1>1. /\ TransfersIn("pending")' = TransfersIn("pending")
        /\ TransfersIn("success")' = TransfersIn("success")
        /\ EverOf' = EverOf
    BY DEF TransfersIn, EverOf, EverPaid
  <1>2. CASE s = "SUCCEEDED" /\ EverPaid(p)
    <2>1. p \in EverOf /\ Books' = Books \cup {p}
      BY <1>2 DEF EverOf, Books, TypeOK
    <2>2. Promise!Book(p)
      BY <1>1, <2>1 DEF Promise!Book, EverOf, Books
    <2>. QED
      BY <2>2 DEF Moves, Promise!Next
  <1>3. CASE s # "SUCCEEDED" /\ status[p] # "SUCCEEDED"
    <2>1. Books' = Books
      BY <1>3 DEF Books, TypeOK
    <2>. QED
      BY <1>1, <2>1 DEF Moves, Account
  <1>4. CASE s # "SUCCEEDED" /\ AllDead(p)
    <2>1. Books' = Books \ {p}
      BY <1>4 DEF Books, TypeOK
    <2>2. Promise!Reopen(p)
      BY <1>1, <1>4, <2>1, DeadIsIdle DEF Promise!Reopen, EverOf, Books
    <2>. QED
      BY <2>2 DEF Moves, Promise!Next
  <1>. QED
    BY <1>2, <1>3, <1>4

\* A step that touches neither the payout rows nor the provider.
LEMMA AsideMoves ==
    ASSUME UNCHANGED <<status, transfer, paid, manual>>
    PROVE  Moves
  BY DEF Moves, Account, TransfersIn, EverOf, EverPaid, Books

\* The start of a handler.
LEMMA BeginMoves ==
    ASSUME TypeOK, NEW w \in Procs, Begin(w)
    PROVE  Moves
  <1>. USE AsideMoves DEF db, world
  <1>1. ASSUME NEW p \in Payouts, MarkManuallyPaid(w, p) PROVE Moves
    <2>1. /\ TransfersIn("pending")' = TransfersIn("pending")
          /\ TransfersIn("success")' = TransfersIn("success")
      BY <1>1 DEF MarkManuallyPaid, TransfersIn
    <2>2. EverOf' = EverOf \cup {p} /\ Books' = Books \cup {p}
      BY <1>1 DEF MarkManuallyPaid, EverOf, EverPaid, Books, TypeOK
    <2>3. Promise!PayByHand(p)
      BY <2>1, <2>2 DEF Promise!PayByHand, EverOf, Books
    <2>. QED
      BY <2>3 DEF Moves, Promise!Next
  <1>2. ASSUME NEW h \in hooks, HookSuccess(w, h) \/ HookDead(w, h) PROVE Moves
    BY <1>2 DEF HookSuccess, HookDead
  <1>3. ASSUME NEW p \in Payouts, DeliverJob(w, p) \/ Sweep(w, p) \/ AdminRetry(w, p)
        PROVE  Moves
    BY <1>3 DEF DeliverJob, Sweep, AdminRetry
  <1>4. CASE HealVault(w)
    BY <1>4 DEF HealVault
  <1>5. ASSUME NEW x \in MilestoneWinners,
               ConfirmMilestone(w, x) \/ ReleaseDispute(w, x) \/ DisputeRefund(w, x)
        PROVE  Moves
    BY <1>5 DEF ConfirmMilestone, MilestoneDue, ReleaseDispute, DisputeRefund
  <1>. QED
    BY <1>1, <1>2, <1>3, <1>4, <1>5 DEF Begin

\* A handler's next step.
LEMMA ContinueMoves ==
    ASSUME TypeOK, MoneyIsReal, OneOwner, NEW w \in Procs, Continue(w)
    PROVE  Moves
  <1>. SUFFICES ASSUME NEW p, NEW k, p = proc[w].payout, k = proc[w].ref
                PROVE  Moves
    OBVIOUS
  <1>0. FrameIsSole(proc[w]) /\ FrameIsReal(proc[w]) /\ proc[w] \in Frames
    BY DEF OneOwner, MoneyIsReal, TypeOK
  <1>a. At(w, "claim") \/ At(w, "initiate") \/ At(w, "confirmWrite") \/ At(w, "failWrite")
        \/ At(w, "parkWrite") \/ At(w, "hookWrite") \/ At(w, "milestoneTx")
        \/ At(w, "releaseTx") => p \in Payouts
    BY InHand DEF At, OnPayout, ControlPoints, Advancing
  <1>. USE AsideMoves DEF db, queue, world
  <1>1. CASE InitiateAccepted(w)
    <2>1. p \in Payouts /\ k \in Attempts /\ AllDead(p)
      BY <1>0, <1>1, <1>a, InHand
      DEF InitiateAccepted, At, FrameIsSole, Owner, OnPayout, ControlPoints, Advancing, Failing
    <2>2. PICK s \in {"pending", "success", "failed"} :
            /\ transfer' = [transfer EXCEPT ![p][k] = s]
            /\ paid' = IF s = "success" THEN paid \cup {<<p, k>>} ELSE paid
      BY <1>1 DEF InitiateAccepted
    <2>3. UNCHANGED <<status, manual>> /\ transfer[p][k] = "absent"
      BY <1>1 DEF InitiateAccepted
    <2>4. Books' = Books
      BY <2>3 DEF Books
    <2>5. \A q \in Payouts : \A j \in Attempts :
            transfer'[q][j] = IF q = p /\ j = k THEN s ELSE transfer[q][j]
      BY <2>1, <2>2 DEF TypeOK
    <2>6. CASE s = "failed"
      <3>1. \A x \in {"pending", "success"} : TransfersIn(x)' = TransfersIn(x)
        BY <2>3, <2>5, <2>6 DEF TransfersIn
      <3>2. EverOf' = EverOf
        BY <2>2, <2>3, <2>6 DEF EverOf, EverPaid
      <3>. QED
        BY <2>4, <3>1, <3>2 DEF Moves, Account
    <2>7. CASE s = "pending"
      <3>1. /\ TransfersIn("pending")' = TransfersIn("pending") \cup {<<p, k>>}
            /\ TransfersIn("success")' = TransfersIn("success")
        BY <2>1, <2>3, <2>5, <2>7 DEF TransfersIn
      <3>2. EverOf' = EverOf
        BY <2>2, <2>3, <2>7 DEF EverOf, EverPaid
      <3>3. Promise!Send(p, k)
        BY <2>1, <2>4, <3>1, <3>2, DeadIsIdle DEF Promise!Send, EverOf, Books
      <3>. QED
        BY <2>1, <3>3 DEF Moves, Promise!Next
    <2>8. CASE s = "success"
      <3>1. /\ TransfersIn("success")' = TransfersIn("success") \cup {<<p, k>>}
            /\ TransfersIn("pending")' = TransfersIn("pending")
        BY <2>1, <2>3, <2>5, <2>8 DEF TransfersIn
      <3>2. EverOf' = EverOf \cup {p}
        BY <2>1, <2>2, <2>3, <2>8 DEF EverOf, EverPaid
      <3>3. Promise!Send(p, k)
        BY <2>1, <2>4, <3>1, <3>2, DeadIsIdle DEF Promise!Send, EverOf, Books
      <3>. QED
        BY <2>1, <3>3 DEF Moves, Promise!Next
    <2>. QED
      BY <2>6, <2>7, <2>8
  <1>2. CASE Claim(w)
    <2>1. CASE Claimable(p)
      BY <1>2, <1>a, <2>1, StatusMoves DEF Claim, Claimable
    <2>2. CASE ~Claimable(p)
      BY <1>2, <2>2 DEF Claim
    <2>. QED
      BY <2>1, <2>2
  <1>3. CASE ConfirmWrite(w)
    <2>1. EverPaid(p)
      BY <1>0, <1>3 DEF ConfirmWrite, At, FrameIsReal, Confirming
    <2>. QED
      BY <1>3, <1>a, <2>1, StatusMoves DEF ConfirmWrite
  <1>4. CASE FailWrite(w) \/ ParkWrite(w)
    <2>1. AllDead(p)
      BY <1>0, <1>4, <1>a DEF FailWrite, ParkWrite, At, FrameIsSole, Owner, Failing
    <2>. QED
      BY <1>4, <1>a, <2>1, StatusMoves DEF FailWrite, ParkWrite
  <1>5. CASE HookWrite(w)
    <2>1. CASE status[p] = "SUCCEEDED"
      BY <1>5, <2>1 DEF HookWrite
    <2>2. CASE status[p] # "SUCCEEDED"
      BY <1>5, <1>a, <2>2, StatusMoves DEF HookWrite, HookStatus
    <2>. QED
      BY <2>1, <2>2
  <1>6. CASE MilestoneTx(w)
    <2>1. CASE status[p] = "none"
      BY <1>6, <1>a, <2>1, StatusMoves DEF MilestoneTx, At
    <2>2. CASE status[p] # "none"
      BY <1>6, <2>2 DEF MilestoneTx
    <2>. QED
      BY <2>1, <2>2
  <1>7. CASE ExecuteRead(w) \/ InitiateRefused(w) \/ RecordTransfer(w) \/ Lookup(w)
    BY <1>7 DEF ExecuteRead, InitiateRefused, RecordTransfer, Lookup
  <1>8. CASE ConfirmRead(w) \/ AdvanceReadVault(w) \/ AdvanceReadFacts(w) \/ AdvanceHalf(w)
             \/ AdvanceSettle(w) \/ SettleEvent(w)
    BY <1>8 DEF ConfirmRead, AdvanceReadVault, AdvanceReadFacts, AdvanceHalf, AdvanceSettle,
                SettleEvent
  <1>9. CASE Attest(w) \/ FailRead(w) \/ HealCount(w) \/ RetryLookup(w) \/ RefundWrite(w)
    BY <1>9 DEF Attest, FailRead, HealCount, RetryLookup, RefundWrite
  <1>10. ~Requeue(w)
    BY <1>0 DEF Requeue, At, FrameIsSole
  <1>. QED
    BY <1>1, <1>2, <1>3, <1>4, <1>5, <1>6, <1>7, <1>8, <1>9, <1>10 DEF Continue

\* The provider settles a transfer or takes its money back.
LEMMA ProviderMoves ==
    ASSUME TypeOK, Provider
    PROVE  Moves
  <1>1. ASSUME NEW p \in Payouts, NEW k \in Attempts, ProviderSettles(p, k) PROVE Moves
    <2>1. PICK s \in {"success", "failed"} :
            /\ transfer' = [transfer EXCEPT ![p][k] = s]
            /\ paid' = IF s = "success" THEN paid \cup {<<p, k>>} ELSE paid
      BY <1>1 DEF ProviderSettles
    <2>2. transfer[p][k] = "pending" /\ UNCHANGED <<status, manual>>
      BY <1>1 DEF ProviderSettles, db
    <2>3. \A q \in Payouts : \A j \in Attempts :
            transfer'[q][j] = IF q = p /\ j = k THEN s ELSE transfer[q][j]
      BY <2>1 DEF TypeOK
    <2>4. /\ <<p, k>> \in TransfersIn("pending")
          /\ TransfersIn("pending")' = TransfersIn("pending") \ {<<p, k>>}
          /\ Books' = Books
      BY <2>2, <2>3 DEF TransfersIn, Books
    <2>5. CASE s = "success"
      <3>1. /\ TransfersIn("success")' = TransfersIn("success") \cup {<<p, k>>}
            /\ EverOf' = EverOf \cup {p}
        BY <2>1, <2>2, <2>3, <2>5 DEF TransfersIn, EverOf, EverPaid
      <3>. QED
        BY <2>4, <3>1 DEF Promise!Settle, EverOf, Books, Moves, Promise!Next
    <2>6. CASE s = "failed"
      <3>1. TransfersIn("success")' = TransfersIn("success") /\ EverOf' = EverOf
        BY <2>1, <2>2, <2>3, <2>6 DEF TransfersIn, EverOf, EverPaid
      <3>. QED
        BY <2>4, <3>1 DEF Promise!Settle, EverOf, Books, Moves, Promise!Next
    <2>. QED
      BY <2>5, <2>6
  <1>2. ASSUME NEW p \in Payouts, NEW k \in Attempts, ProviderReverses(p, k) PROVE Moves
    <2>1. /\ transfer' = [transfer EXCEPT ![p][k] = "reversed"] /\ transfer[p][k] = "success"
          /\ UNCHANGED <<status, paid, manual>>
      BY <1>2 DEF ProviderReverses, db
    <2>2. \A q \in Payouts : \A j \in Attempts :
            transfer'[q][j] = IF q = p /\ j = k THEN "reversed" ELSE transfer[q][j]
      BY <2>1 DEF TypeOK
    <2>3. /\ <<p, k>> \in TransfersIn("success")
          /\ TransfersIn("success")' = TransfersIn("success") \ {<<p, k>>}
          /\ TransfersIn("pending")' = TransfersIn("pending")
      BY <2>1, <2>2 DEF TransfersIn
    <2>4. EverOf' = EverOf /\ Books' = Books
      BY <2>1 DEF EverOf, EverPaid, Books
    <2>. QED
      BY <2>3, <2>4 DEF Promise!Return, EverOf, Books, Moves, Promise!Next
  <1>. QED
    BY <1>1, <1>2 DEF Provider

\* Workers, webhooks, the milestone, the refund and the manual payment together
\* implement the abstract specification: every step of theirs is a step of
\* Payments or leaves its account alone.
THEOREM ImplementsPayments == ASSUME Unattended \/ Alone PROVE Spec => PromiseKept
  <1>1. Init => Promise!Init
    BY DEF Init, Promise!Init, TransfersIn, EverPaid
  <1>2. TypeOK /\ MoneyIsReal /\ OneOwner /\ [Next]_vars => Moves
    <2>. SUFFICES ASSUME TypeOK, MoneyIsReal, OneOwner, [Next]_vars
                  PROVE  Moves
      OBVIOUS
    <2>1. ASSUME NEW w \in Procs, Crash(w) \/ Caught(w) PROVE Moves
      BY <2>1, AsideMoves DEF Crash, Caught, db, world
    <2>2. CASE UNCHANGED vars
      BY <2>2, AsideMoves DEF vars
    <2>. QED
      BY <2>1, <2>2, BeginMoves, ContinueMoves, ProviderMoves DEF Next
  <1>3. Moves => [Promise!Next]_<<TransfersIn("pending"), TransfersIn("success"),
                                  {p \in Payouts : EverPaid(p)},
                                  {p \in Payouts : status[p] = "SUCCEEDED"}>>
    BY DEF Moves, Account, EverOf, Books
  <1>. QED
    BY <1>1, <1>2, <1>3, TypeCorrect, MoneyCorrect, OwnerCorrect, PTL
    DEF Spec, PromiseKept, Promise!Spec

-----------------------------------------------------------------------------
(* One handler at a time: what was reported stays, and the vault column moves *)
(* along the contract's edges                                                 *)

\* What a lone handler has read of the payout's row is still so when it writes.
ReportIsFresh(f, rows) ==
    /\ f.pc \in {"initiate", "record", "lookup"} \cup Failing => rows[f.payout] = "PROCESSING"
    /\ f.pc = "confirmWrite" => rows[f.payout] \notin Decided
    /\ f.pc \in {"retryLookup", "requeue"} => rows[f.payout] # "SUCCEEDED"

ReportsAreFresh == \A w \in Procs : ReportIsFresh(proc[w], status)

ReportsStay ==
    \A p \in Payouts :
        /\ status[p] = "SUCCEEDED" => status'[p] = "SUCCEEDED"
        /\ status[p] = "REVERSED" => status'[p] # "SUCCEEDED"

\* A lone handler that moves to a fresh frame keeps the frames fresh.
LEMMA KeepsFresh ==
    ASSUME TypeOK, OneHandler, NEW w \in Procs, NEW f, Go(w, f), ReportIsFresh(f, status')
    PROVE  ReportsAreFresh'
  <1>1. \A v \in Procs : proc'[v] = f
    BY DEF OneHandler, Go, TypeOK
  <1>. QED
    BY <1>1 DEF ReportsAreFresh, ReportIsFresh

\* Frames that promise nothing about a row.
LEMMA CarefreeFrames ==
    /\ \A rows : ReportIsFresh(Idle, rows)
    /\ \A pc \in ControlPoints
             \ ({"initiate", "record", "lookup", "confirmWrite", "retryLookup", "requeue"} \cup Failing) :
         /\ \A f \in Locals : \A rows : ReportIsFresh([f EXCEPT !.pc = pc, !.answer = "unknown"], rows)
         /\ \A p, k, rows : ReportIsFresh(Start(pc, p, k), rows)
  BY DEF ReportIsFresh, Idle, Start, Locals, Failing

\* The start of a handler.
LEMMA FreshBegin ==
    ASSUME TypeOK, OneHandler, "markPaid" \notin Callers, NEW w \in Procs, Begin(w)
    PROVE  ReportsAreFresh' /\ ReportsStay
  <1>. USE CarefreeFrames, KeepsFresh DEF db, ControlPoints, Failing
  <1>1. ASSUME NEW p \in Payouts, ExecuteFrom(w, p)
        PROVE  ReportsAreFresh'
    BY <1>1 DEF ExecuteFrom, Done
  <1>2. ASSUME NEW p \in Payouts, DeliverJob(w, p)
        PROVE  ReportsAreFresh' /\ ReportsStay
    BY <1>1, <1>2 DEF DeliverJob, ReportsStay
  <1>3. ASSUME NEW h \in hooks, HookSuccess(w, h) \/ HookDead(w, h)
        PROVE  ReportsAreFresh' /\ ReportsStay
    <2>1. ReportIsFresh([Start("hookWrite", h.payout, h.ref) EXCEPT !.answer = h.kind], status')
      BY DEF ReportIsFresh, Start, Idle
    <2>. QED
      BY <1>3, <2>1 DEF HookSuccess, HookDead, Done, ReportsStay
  <1>4. ASSUME NEW p \in Payouts, Sweep(w, p)
        PROVE  ReportsAreFresh' /\ ReportsStay
    <2>1. UNCHANGED status
      BY <1>4 DEF Sweep
    <2>2. status[p] = "PROCESSING" => ReportIsFresh(Start("lookup", p, reference[p]), status')
      BY <2>1 DEF ReportIsFresh, Start, Idle
    <2>. QED
      BY <1>1, <1>4, <2>1, <2>2 DEF Sweep, ReportsStay
  <1>5. ASSUME NEW p \in Payouts, AdminRetry(w, p)
        PROVE  ReportsAreFresh' /\ ReportsStay
    <2>1. UNCHANGED status /\ status[p] # "SUCCEEDED"
      BY <1>5 DEF AdminRetry, Retryable
    <2>2. \A pc \in {"requeue", "retryLookup"} : ReportIsFresh(Start(pc, p, reference[p]), status')
      BY <2>1 DEF ReportIsFresh, Start, Idle
    <2>. QED
      BY <1>5, <2>1, <2>2 DEF AdminRetry, ReportsStay
  <1>6. CASE HealVault(w)
    BY <1>6 DEF HealVault, ReportsStay
  <1>7. ASSUME NEW x \in MilestoneWinners,
               ConfirmMilestone(w, x) \/ ReleaseDispute(w, x) \/ DisputeRefund(w, x)
        PROVE  ReportsAreFresh' /\ ReportsStay
    BY <1>7 DEF ConfirmMilestone, MilestoneDue, ReleaseDispute, DisputeRefund, ReportsStay
  <1>. QED
    BY <1>2, <1>3, <1>4, <1>5, <1>6, <1>7 DEF Begin, MarkManuallyPaid

\* A handler's next step.
LEMMA FreshContinue ==
    ASSUME TypeOK, OneHandler, ReportsAreFresh, NEW w \in Procs, Continue(w)
    PROVE  ReportsAreFresh' /\ ReportsStay
  <1>. SUFFICES ASSUME NEW p, p = proc[w].payout
                PROVE  ReportsAreFresh' /\ ReportsStay
    OBVIOUS
  <1>0. ReportIsFresh(proc[w], status) /\ proc[w] \in Locals
    BY DEF ReportsAreFresh, TypeOK, Frames
  <1>a. At(w, "claim") \/ At(w, "initiate") \/ At(w, "record") \/ At(w, "lookup")
        \/ At(w, "confirmRead") \/ At(w, "confirmWrite") \/ At(w, "failRead")
        \/ At(w, "failWrite") \/ At(w, "parkWrite") \/ At(w, "hookWrite")
        \/ At(w, "retryLookup") \/ At(w, "requeue") \/ At(w, "milestoneTx")
        \/ At(w, "releaseTx") => p \in Payouts
    BY InHand DEF At, OnPayout, ControlPoints, Advancing
  <1>. USE CarefreeFrames, KeepsFresh, <1>0, <1>a DEF db, ControlPoints, Failing, At
  <1>1. CASE ExecuteRead(w) \/ Claim(w)
    <2>1. CASE ExecuteRead(w)
      BY <2>1 DEF ExecuteRead, ExecuteFrom, Done, ReportsStay
    <2>2. CASE Claim(w) /\ Claimable(p)
      <3>1. ReportIsFresh([proc[w] EXCEPT !.pc = "initiate", !.try = TRUE], status')
        BY <2>2 DEF Claim, ReportIsFresh, Locals, TypeOK
      <3>. QED
        BY <2>2, <3>1 DEF Claim, Claimable, ReportsStay, TypeOK
    <2>3. CASE Claim(w) /\ ~Claimable(p)
      BY <2>3 DEF Claim, Done, ReportsStay
    <2>. QED
      BY <1>1, <2>1, <2>2, <2>3
  <1>2. CASE InitiateAccepted(w) \/ InitiateRefused(w)
    <2>1. UNCHANGED status /\ status[p] = "PROCESSING"
      BY <1>2 DEF InitiateAccepted, InitiateRefused, ReportIsFresh
    <2>2. \A s : ReportIsFresh([proc[w] EXCEPT !.pc = "record", !.answer = s], status')
      BY <2>1 DEF ReportIsFresh, Locals
    <2>3. ReportIsFresh([Idle EXCEPT !.pc = "lookup", !.payout = p, !.ref = proc[w].ref], status')
      BY <2>1 DEF ReportIsFresh, Idle
    <2>. QED
      BY <1>2, <2>1, <2>2, <2>3 DEF InitiateAccepted, InitiateRefused, Catch, ReportsStay
  <1>3. CASE RecordTransfer(w) \/ Lookup(w) \/ FailRead(w)
    <2>1. UNCHANGED status /\ status[p] = "PROCESSING"
      BY <1>3 DEF RecordTransfer, Lookup, FailRead, ReportIsFresh
    <2>2. \A pc \in Failing :
            ReportIsFresh([proc[w] EXCEPT !.pc = pc, !.answer = "unknown"], status')
      BY <2>1 DEF ReportIsFresh, Locals
    <2>. QED
      BY <1>3, <2>1, <2>2 DEF RecordTransfer, Lookup, FailRead, Step, Done, ReportsStay
  <1>4. CASE ConfirmRead(w) \/ ConfirmWrite(w)
    <2>1. CASE ConfirmRead(w) /\ status[p] \in Decided
      BY <2>1 DEF ConfirmRead, Done, ReportsStay
    <2>2. CASE ConfirmRead(w) /\ status[p] \notin Decided
      <3>1. ReportIsFresh([proc[w] EXCEPT !.pc = "confirmWrite", !.answer = "unknown"], status')
        BY <2>2 DEF ConfirmRead, ReportIsFresh, Locals
      <3>. QED
        BY <2>2, <3>1 DEF ConfirmRead, Step, ReportsStay
    <2>3. CASE ConfirmWrite(w)
      BY <2>3 DEF ConfirmWrite, Step, ReportIsFresh, Decided, ReportsStay, TypeOK
    <2>. QED
      BY <1>4, <2>1, <2>2, <2>3
  <1>5. CASE AdvanceReadVault(w) \/ AdvanceReadFacts(w)
    <2>1. \A v : /\ ReportIsFresh([proc[w] EXCEPT !.vault = v], status')
                 /\ ReportIsFresh([proc[w] EXCEPT !.facts = v], status')
                 /\ ReportIsFresh([proc[w] EXCEPT !.vault = v, !.pc = "advanceHalf"], status')
                 /\ ReportIsFresh([proc[w] EXCEPT !.facts = v, !.pc = "advanceHalf"], status')
      BY <1>5 DEF AdvanceReadVault, AdvanceReadFacts, ReportIsFresh, Locals
    <2>. QED
      BY <1>5, <2>1 DEF AdvanceReadVault, AdvanceReadFacts, ReportsStay
  <1>6. CASE AdvanceHalf(w) \/ AdvanceSettle(w) \/ SettleEvent(w)
    <2>1. ReportIsFresh([proc[w] EXCEPT !.pc = "attest", !.vault = "unread",
                                        !.facts = "unread"], status')
      BY DEF ReportIsFresh, Locals
    <2>. QED
      BY <1>6, <2>1 DEF AdvanceHalf, AdvanceSettle, SettleEvent, Advanced, Step, ReportsStay
  <1>7. CASE Attest(w) \/ HealCount(w) \/ RefundWrite(w)
    BY <1>7 DEF Attest, HealCount, RefundWrite, Done, ReportsStay
  <1>8. CASE FailWrite(w) \/ ParkWrite(w)
    <2>1. status[p] = "PROCESSING"
      BY <1>8 DEF FailWrite, ParkWrite, ReportIsFresh
    <2>. QED
      BY <1>8, <2>1 DEF FailWrite, ParkWrite, Done, ReportsStay, TypeOK
  <1>9. CASE HookWrite(w)
    BY <1>9 DEF HookWrite, HookStatus, Done, ReportsStay, TypeOK
  <1>10. CASE RetryLookup(w)
    <2>1. ReportIsFresh([proc[w] EXCEPT !.pc = "requeue", !.answer = "unknown"], status')
      BY <1>10 DEF RetryLookup, ReportIsFresh, Locals
    <2>. QED
      BY <1>10, <2>1 DEF RetryLookup, Step, Done, ReportsStay
  <1>11. CASE Requeue(w)
    BY <1>11 DEF Requeue, Step, ReportIsFresh, ReportsStay, TypeOK
  <1>12. CASE MilestoneTx(w)
    BY <1>12 DEF MilestoneTx, Done, ReportsStay, TypeOK
  <1>. QED
    BY <1>1, <1>2, <1>3, <1>4, <1>5, <1>6, <1>7, <1>8, <1>9, <1>10, <1>11, <1>12
    DEF Continue

\* One handler at a time, with database statements that do not throw and no manual
\* payment: a SUCCEEDED row is never rewritten and a clawed-back payout never flips
\* back, whatever jobs, webhooks, sweeps, retries, crashes and lost responses follow
\* one another.
THEOREM ReportsAreKept ==
    ASSUME OneHandler, "markPaid" \notin Callers, "dbError" \notin Faults
    PROVE  Spec => ReportsAreFinal
  <1>1. Init => ReportsAreFresh
    BY CarefreeFrames DEF Init, ReportsAreFresh, ReportIsFresh, Idle, Failing
  <1>2. TypeOK /\ ReportsAreFresh /\ [Next]_vars => ReportsAreFresh' /\ ReportsStay
    <2>. SUFFICES ASSUME TypeOK, ReportsAreFresh, [Next]_vars
                  PROVE  ReportsAreFresh' /\ ReportsStay
      OBVIOUS
    <2>1. ASSUME NEW w \in Procs, Crash(w) PROVE ReportsAreFresh' /\ ReportsStay
      BY <2>1, CarefreeFrames, KeepsFresh DEF Crash, Done, db, ReportsStay
    <2>2. ASSUME NEW w \in Procs PROVE ~Caught(w)
      BY DEF Caught
    <2>3. CASE Provider \/ UNCHANGED vars
      <3>1. UNCHANGED <<status, proc>>
        BY <2>3 DEF Provider, ProviderSettles, ProviderReverses, db, vars
      <3>. QED
        BY <3>1 DEF ReportsAreFresh, ReportIsFresh, ReportsStay
    <2>. QED
      BY <2>1, <2>2, <2>3, FreshBegin, FreshContinue DEF Next
  <1>3. ReportsStay => [\A p \in Payouts :
                          /\ status[p] = "SUCCEEDED" => status'[p] = "SUCCEEDED"
                          /\ status[p] = "REVERSED" => status'[p] # "SUCCEEDED"]_vars
    BY DEF ReportsStay
  <1>. QED
    BY <1>1, <1>2, <1>3, TypeCorrect, PTL DEF Spec, ReportsAreFinal

\* The vault that a lone handler has read is the vault it writes over.
VaultIsFresh(f, now) ==
    /\ f.pc \notin {"advanceRead", "advanceHalf", "advanceSettle", "settleEvent"} => f.vault = "unread"
    /\ f.pc = "advanceRead" => f.vault \in {"unread", now}
    /\ f.pc = "advanceHalf" => f.vault = now
    /\ f.pc = "advanceSettle" =>
          \/ f.vault = now /\ now # "LOCKED"
          \/ f.vault = "LOCKED" /\ now = "HALF_RELEASED"
    /\ f.pc # "refundWrite"

VaultsAreFresh ==
    /\ vault # "REFUNDED"
    /\ \A w \in Procs : VaultIsFresh(proc[w], vault)

VaultMoves == vault' = vault \/ vault' \in VaultEdges[vault]

\* A lone handler that moves to a fresh frame keeps the readings of the vault fresh.
LEMMA KeepsVaultFresh ==
    ASSUME TypeOK, OneHandler, NEW w \in Procs, NEW f, Go(w, f), VaultIsFresh(f, vault')
    PROVE  \A v \in Procs : VaultIsFresh(proc'[v], vault')
  <1>1. \A v \in Procs : proc'[v] = f
    BY DEF OneHandler, Go, TypeOK
  <1>. QED
    BY <1>1

\* Frames that have not read the vault.
LEMMA UnreadFrames ==
    /\ \A now : VaultIsFresh(Idle, now)
    /\ \A pc \in ControlPoints \ {"advanceHalf", "advanceSettle", "settleEvent", "refundWrite"} :
         /\ \A f \in Locals : \A now :
              f.vault = "unread" => VaultIsFresh([f EXCEPT !.pc = pc, !.answer = "unknown"], now)
         /\ \A p, k, now : VaultIsFresh(Start(pc, p, k), now)
  BY DEF VaultIsFresh, Idle, Start, Locals, ControlPoints

\* The two edges that the payouts take.
LEMMA EdgesTaken ==
    "HALF_RELEASED" \in VaultEdges["LOCKED"] /\ "SETTLED" \in VaultEdges["HALF_RELEASED"]
  BY DEF VaultEdges

\* The start of a handler.
LEMMA VaultBegin ==
    ASSUME TypeOK, OneHandler, "refund" \notin Callers, VaultsAreFresh, NEW w \in Procs, Begin(w)
    PROVE  VaultsAreFresh' /\ VaultMoves
  <1>. USE UnreadFrames, KeepsVaultFresh DEF db, ControlPoints, VaultsAreFresh, VaultMoves
  <1>1. ASSUME NEW p \in Payouts, ExecuteFrom(w, p), UNCHANGED vault
        PROVE  VaultsAreFresh'
    BY <1>1 DEF ExecuteFrom, Done
  <1>2. ASSUME NEW p \in Payouts, DeliverJob(w, p) \/ Sweep(w, p) \/ AdminRetry(w, p)
        PROVE  VaultsAreFresh' /\ VaultMoves
    BY <1>1, <1>2 DEF DeliverJob, Sweep, AdminRetry
  <1>3. ASSUME NEW h \in hooks, HookSuccess(w, h) \/ HookDead(w, h)
        PROVE  VaultsAreFresh' /\ VaultMoves
    <2>1. VaultIsFresh([Start("hookWrite", h.payout, h.ref) EXCEPT !.answer = h.kind], vault')
      BY DEF VaultIsFresh, Start, Idle
    <2>. QED
      BY <1>3, <2>1 DEF HookSuccess, HookDead, Done
  <1>4. CASE HealVault(w)
    BY <1>4 DEF HealVault
  <1>5. ASSUME NEW p \in Payouts, MarkManuallyPaid(w, p)
        PROVE  VaultsAreFresh' /\ VaultMoves
    BY <1>5 DEF MarkManuallyPaid
  <1>6. ASSUME NEW x \in MilestoneWinners, ConfirmMilestone(w, x) \/ ReleaseDispute(w, x)
        PROVE  VaultsAreFresh' /\ VaultMoves
    BY <1>6 DEF ConfirmMilestone, MilestoneDue, ReleaseDispute
  <1>. QED
    BY <1>2, <1>3, <1>4, <1>5, <1>6 DEF Begin, DisputeRefund

\* A handler's next step.
LEMMA VaultContinue ==
    ASSUME TypeOK, OneHandler, VaultsAreFresh, NEW w \in Procs, Continue(w)
    PROVE  VaultsAreFresh' /\ VaultMoves
  <1>0. VaultIsFresh(proc[w], vault) /\ proc[w] \in Locals /\ vault \in VaultChainState \ {"REFUNDED"}
    BY DEF VaultsAreFresh, TypeOK, Frames
  <1>. USE UnreadFrames, KeepsVaultFresh, <1>0 DEF db, ControlPoints, At
  <1>1. ASSUME UNCHANGED vault,
               \/ \E pc \in ControlPoints \ {"advanceHalf", "advanceSettle", "settleEvent", "refundWrite"} :
                     proc[w].vault = "unread" /\ Step(w, pc)
               \/ Done(w) \/ Catch(w)
        PROVE  VaultsAreFresh' /\ VaultMoves
    <2>1. VaultIsFresh([Idle EXCEPT !.pc = "lookup", !.payout = proc[w].payout,
                                    !.ref = proc[w].ref], vault')
      BY DEF VaultIsFresh, Idle
    <2>. QED
      BY <1>1, <2>1 DEF Step, Done, Catch, VaultsAreFresh, VaultMoves
  <1>2. CASE ExecuteRead(w)
    BY <1>2 DEF ExecuteRead, ExecuteFrom, Done, VaultsAreFresh, VaultMoves
  <1>3. CASE Claim(w) \/ InitiateAccepted(w)
    <2>1. UNCHANGED vault
      BY <1>3 DEF Claim, InitiateAccepted
    <2>2. /\ VaultIsFresh([proc[w] EXCEPT !.pc = "initiate", !.try = TRUE], vault')
          /\ \A s : VaultIsFresh([proc[w] EXCEPT !.pc = "record", !.answer = s], vault')
      BY <1>3 DEF Claim, InitiateAccepted, VaultIsFresh, Locals
    <2>3. CASE Done(w) \/ Catch(w)
      BY <1>1, <2>1, <2>3
    <2>4. CASE \/ Go(w, [proc[w] EXCEPT !.pc = "initiate", !.try = TRUE])
               \/ \E s : Go(w, [proc[w] EXCEPT !.pc = "record", !.answer = s])
      BY <2>1, <2>2, <2>4 DEF VaultsAreFresh, VaultMoves
    <2>. QED
      BY <1>3, <2>3, <2>4 DEF Claim, InitiateAccepted
  <1>4. CASE InitiateRefused(w) \/ RecordTransfer(w) \/ Lookup(w) \/ FailRead(w) \/ RetryLookup(w)
             \/ Requeue(w) \/ ConfirmRead(w) \/ ConfirmWrite(w)
    <2>1. UNCHANGED vault /\ proc[w].vault = "unread"
      BY <1>4 DEF InitiateRefused, RecordTransfer, Lookup, FailRead, RetryLookup, Requeue,
                  ConfirmRead, ConfirmWrite, VaultIsFresh
    <2>. QED
      BY <1>1, <1>4, <2>1
      DEF InitiateRefused, RecordTransfer, Lookup, FailRead, RetryLookup, Requeue, ConfirmRead,
          ConfirmWrite
  <1>5. CASE HealCount(w)
    BY <1>5 DEF HealCount, Done, VaultsAreFresh, VaultMoves
  <1>6. CASE Attest(w) \/ FailWrite(w) \/ ParkWrite(w) \/ HookWrite(w) \/ MilestoneTx(w)
    BY <1>1, <1>6 DEF Attest, FailWrite, ParkWrite, HookWrite, MilestoneTx
  <1>7. CASE AdvanceReadVault(w)
    <2>1. /\ VaultIsFresh([proc[w] EXCEPT !.vault = vault], vault)
          /\ VaultIsFresh([proc[w] EXCEPT !.vault = vault, !.pc = "advanceHalf"], vault)
      BY <1>7 DEF AdvanceReadVault, VaultIsFresh, Locals
    <2>. QED
      BY <1>7, <2>1 DEF AdvanceReadVault, VaultsAreFresh, VaultMoves
  <1>8. CASE AdvanceReadFacts(w)
    <2>1. /\ \A x : VaultIsFresh([proc[w] EXCEPT !.facts = x], vault)
          /\ proc[w].vault # "unread" =>
               \A x : VaultIsFresh([proc[w] EXCEPT !.facts = x, !.pc = "advanceHalf"], vault)
      BY <1>8 DEF AdvanceReadFacts, VaultIsFresh, Locals
    <2>. QED
      BY <1>8, <2>1 DEF AdvanceReadFacts, VaultsAreFresh, VaultMoves
  <1>9. VaultIsFresh([proc[w] EXCEPT !.pc = "attest", !.vault = "unread", !.facts = "unread"], vault')
    BY DEF VaultIsFresh, Locals
  <1>10. CASE AdvanceHalf(w)
    <2>1. proc[w].vault = vault
      BY <1>10 DEF AdvanceHalf, VaultIsFresh
    <2>2. vault' = IF vault = "LOCKED" /\ proc[w].facts # "open" THEN "HALF_RELEASED" ELSE vault
      BY <1>10, <2>1 DEF AdvanceHalf, HalfReleases
    <2>3. proc[w].facts = "all" =>
            VaultIsFresh([proc[w] EXCEPT !.pc = "advanceSettle", !.answer = "unknown"], vault')
      BY <2>1, <2>2 DEF VaultIsFresh, Locals
    <2>4. vault' # "REFUNDED" /\ VaultMoves
      BY <2>2, EdgesTaken DEF VaultMoves
    <2>. QED
      BY <1>9, <1>10, <2>3, <2>4 DEF AdvanceHalf, Step, Advanced, VaultsAreFresh
  <1>11. CASE AdvanceSettle(w)
    <2>1. vault # "LOCKED" /\ vault' = "SETTLED"
      BY <1>11 DEF AdvanceSettle, VaultIsFresh
    <2>2. VaultIsFresh([proc[w] EXCEPT !.pc = "settleEvent", !.answer = "unknown"], vault')
      BY DEF VaultIsFresh, Locals
    <2>3. vault \in {"HALF_RELEASED", "SETTLED"}
      BY <2>1 DEF VaultChainState
    <2>. QED
      BY <1>11, <2>1, <2>2, <2>3, EdgesTaken DEF AdvanceSettle, Step, VaultsAreFresh, VaultMoves
  <1>12. CASE SettleEvent(w)
    BY <1>9, <1>12 DEF SettleEvent, Advanced, VaultsAreFresh, VaultMoves
  <1>13. ~RefundWrite(w)
    BY DEF RefundWrite, VaultIsFresh
  <1>. QED
    BY <1>2, <1>3, <1>4, <1>5, <1>6, <1>7, <1>8, <1>10, <1>11, <1>12, <1>13 DEF Continue

\* One handler at a time and no refund: the vault column moves from LOCKED to
\* HALF_RELEASED to SETTLED only, although every write of it is decided on an earlier
\* read, and although crashes and errors fall between the two.
THEOREM VaultStaysOnCourse ==
    ASSUME OneHandler, "refund" \notin Callers
    PROVE  Spec => VaultFollowsContract
  <1>1. Init => VaultsAreFresh
    <2>1. Init => vault = "LOCKED" /\ \A w \in Procs : proc[w] = Idle
      BY DEF Init
    <2>. QED
      BY <2>1 DEF VaultsAreFresh, VaultIsFresh, Idle
  <1>2. TypeOK /\ VaultsAreFresh /\ [Next]_vars => VaultsAreFresh' /\ VaultMoves
    <2>. SUFFICES ASSUME TypeOK, VaultsAreFresh, [Next]_vars
                  PROVE  VaultsAreFresh' /\ VaultMoves
      OBVIOUS
    <2>1. ASSUME NEW w \in Procs, Crash(w) \/ Caught(w) PROVE VaultsAreFresh' /\ VaultMoves
      <3>1. VaultIsFresh([Idle EXCEPT !.pc = "lookup", !.payout = proc[w].payout,
                                      !.ref = proc[w].ref], vault')
        BY DEF VaultIsFresh, Idle
      <3>. QED
        BY <2>1, <3>1, UnreadFrames, KeepsVaultFresh
        DEF Crash, Caught, Done, Catch, db, VaultsAreFresh, VaultMoves
    <2>2. CASE Provider \/ UNCHANGED vars
      <3>1. UNCHANGED <<vault, proc>>
        BY <2>2 DEF Provider, ProviderSettles, ProviderReverses, db, vars
      <3>. QED
        BY <3>1 DEF VaultsAreFresh, VaultMoves
    <2>. QED
      BY <2>1, <2>2, VaultBegin, VaultContinue DEF Next
  <1>3. VaultMoves => [vault' \in VaultEdges[vault]]_vault
    BY DEF VaultMoves
  <1>. QED
    BY <1>1, <1>2, <1>3, TypeCorrect, PTL DEF Spec, VaultFollowsContract

-----------------------------------------------------------------------------
(* The attempt cap *)

\* Every handler still keeps the count below the cap when it writes.
FrameIsCapped(f) ==
    /\ f.pc = "claim" =>
          f.ref <= MaxPayoutAttempts \/ attemptCount[f.payout] >= MaxPayoutAttempts
    /\ f.pc = "failWrite" => attemptCount[f.payout] < MaxPayoutAttempts

CountsAreCapped ==
    /\ AttemptsCapped
    /\ \A p \in Payouts :
          status[p] \in {"none", "QUEUED", "FAILED"} => attemptCount[p] < MaxPayoutAttempts
    /\ \A w \in Procs : FrameIsCapped(proc[w])

\* A step that leaves the counts alone and moves handler w to frame f.
LEMMA KeepsCapped ==
    ASSUME TypeOK, CountsAreCapped, UNCHANGED attemptCount, NEW w \in Procs, NEW f, Go(w, f),
           FrameIsCapped(f),
           \A p \in Payouts : status'[p] \in {"none", "QUEUED", "FAILED"} =>
                status[p] \in {"none", "QUEUED", "FAILED"} \/ attemptCount[p] < MaxPayoutAttempts
    PROVE  CountsAreCapped'
  <1>1. \A v \in Procs : proc'[v] = IF v = w THEN f ELSE proc[v]
    BY DEF Go, TypeOK
  <1>2. \A v \in Procs : FrameIsCapped(proc[v])'
    BY <1>1 DEF CountsAreCapped, FrameIsCapped
  <1>. QED
    BY <1>2 DEF CountsAreCapped, AttemptsCapped

\* Frames that rely on no count.
LEMMA UncappedFrames ==
    /\ FrameIsCapped(Idle)
    /\ \A pc \in ControlPoints \ {"claim", "failWrite"} :
         /\ \A f \in Locals : FrameIsCapped([f EXCEPT !.pc = pc, !.answer = "unknown"])
         /\ \A p, k : FrameIsCapped(Start(pc, p, k))
    /\ \A f \in Locals : f.pc \notin {"claim", "failWrite"} =>
         \A a, v, x : /\ FrameIsCapped([f EXCEPT !.answer = a])
                      /\ FrameIsCapped([f EXCEPT !.vault = v])
                      /\ FrameIsCapped([f EXCEPT !.facts = x])
    /\ \A f \in Locals : \A a, v, x :
         /\ FrameIsCapped([f EXCEPT !.pc = "initiate", !.try = a])
         /\ FrameIsCapped([f EXCEPT !.pc = "record", !.answer = a])
         /\ FrameIsCapped([f EXCEPT !.pc = "advanceHalf", !.vault = v])
         /\ FrameIsCapped([f EXCEPT !.vault = v, !.pc = "advanceHalf"])
         /\ FrameIsCapped([f EXCEPT !.facts = x, !.pc = "advanceHalf"])
         /\ FrameIsCapped([f EXCEPT !.pc = "attest", !.vault = v, !.facts = x])
    /\ \A p, k : FrameIsCapped([Idle EXCEPT !.pc = "lookup", !.payout = p, !.ref = k])
  BY DEF FrameIsCapped, Idle, Start, Locals

\* The start of a handler.
LEMMA CappedBegin ==
    ASSUME TypeOK, CountsAreCapped, Unattended, NEW w \in Procs, Begin(w)
    PROVE  CountsAreCapped'
  <1>. USE UncappedFrames, KeepsCapped DEF db, ControlPoints
  <1>1. ASSUME NEW p \in Payouts, DeliverJob(w, p)
        PROVE  CountsAreCapped'
    <2>1. FrameIsCapped(Start("claim", p, attemptCount[p] + 1))
      BY ConstantsAssumption DEF FrameIsCapped, Start, Idle, TypeOK
    <2>. QED
      BY <1>1, <2>1 DEF DeliverJob, ExecuteFrom, Done
  <1>2. ASSUME NEW h \in hooks, HookSuccess(w, h) \/ HookDead(w, h)
        PROVE  CountsAreCapped'
    <2>1. FrameIsCapped([Start("hookWrite", h.payout, h.ref) EXCEPT !.answer = h.kind])
      BY DEF FrameIsCapped, Start, Idle
    <2>. QED
      BY <1>2, <2>1 DEF HookSuccess, HookDead, Done
  <1>3. CASE HealVault(w)
    BY <1>3 DEF HealVault
  <1>4. ASSUME NEW p \in Payouts, MarkManuallyPaid(w, p)
        PROVE  CountsAreCapped'
    BY <1>4 DEF MarkManuallyPaid, TypeOK
  <1>5. ASSUME NEW x \in MilestoneWinners,
               ConfirmMilestone(w, x) \/ ReleaseDispute(w, x) \/ DisputeRefund(w, x)
        PROVE  CountsAreCapped'
    BY <1>5 DEF ConfirmMilestone, MilestoneDue, ReleaseDispute, DisputeRefund
  <1>6. \A p \in Payouts : ~Sweep(w, p) /\ ~AdminRetry(w, p)
    BY DEF Unattended, Sweep, AdminRetry
  <1>. QED
    BY <1>1, <1>2, <1>3, <1>4, <1>5, <1>6 DEF Begin

\* A handler's next step.  A payout that can be claimed has no owner, so no claim
\* raises the count under a handler that is about to write FAILED.
LEMMA CappedContinue ==
    ASSUME TypeOK, OneOwner, CountsAreCapped, NEW w \in Procs, Continue(w)
    PROVE  CountsAreCapped'
  <1>. SUFFICES ASSUME NEW p, p = proc[w].payout
                PROVE  CountsAreCapped'
    OBVIOUS
  <1>0. FrameIsCapped(proc[w]) /\ FrameIsSole(proc[w]) /\ proc[w] \in Frames /\ proc[w] \in Locals
    BY DEF CountsAreCapped, OneOwner, TypeOK, Frames
  <1>a. At(w, "claim") \/ At(w, "failRead") \/ At(w, "failWrite") \/ At(w, "parkWrite")
        \/ At(w, "confirmWrite") \/ At(w, "hookWrite") \/ At(w, "milestoneTx")
        \/ At(w, "releaseTx") => p \in Payouts
    BY InHand DEF At, OnPayout, ControlPoints, Advancing
  <1>. USE UncappedFrames, KeepsCapped, <1>0 DEF db, ControlPoints, At
  <1>1. ~ExecuteRead(w) /\ ~RetryLookup(w) /\ ~Requeue(w)
    BY DEF ExecuteRead, RetryLookup, Requeue, FrameIsSole
  <1>2. CASE Claim(w) /\ Claimable(p)
    <2>1. /\ p \in Payouts /\ proc[w].ref <= MaxPayoutAttempts
          /\ \A v \in Procs : ~Owns(v, p)
      BY <1>2, <1>a, ConstantsAssumption
      DEF Claim, Claimable, OneOwner, CountsAreCapped, FrameIsCapped, TypeOK, Frames, Attempts
    <2>2. /\ attemptCount' = [attemptCount EXCEPT ![p] = proc[w].ref]
          /\ status' = [status EXCEPT ![p] = "PROCESSING"]
          /\ \A v \in Procs : proc'[v] =
               IF v = w THEN [proc[w] EXCEPT !.pc = "initiate", !.try = TRUE] ELSE proc[v]
      BY <1>2 DEF Claim, Go, TypeOK
    <2>3. \A q \in Payouts : attemptCount'[q] = IF q = p THEN proc[w].ref ELSE attemptCount[q]
      BY <2>1, <2>2 DEF TypeOK
    <2>4. ASSUME NEW v \in Procs, v # w
          PROVE  FrameIsCapped(proc[v])'
      <3>1. FrameIsCapped(proc[v]) /\ proc'[v] = proc[v] /\ proc[v] \in Frames
        BY <2>2, <2>4 DEF CountsAreCapped, TypeOK
      <3>2. proc[v].pc \in {"claim", "failWrite"} => proc[v].payout \in Payouts
        BY <3>1 DEF Frames, OnPayout, ControlPoints, Advancing
      <3>3. CASE proc[v].payout = p
        <4>1. proc[v].pc # "failWrite"
          BY <2>1, <3>3 DEF Owns, Owner, Failing
        <4>2. proc[v].pc = "claim" => proc[v].ref <= MaxPayoutAttempts
          BY <1>2, <2>1, <3>1, <3>3, ConstantsAssumption
          DEF FrameIsCapped, CountsAreCapped, Claimable, TypeOK, Frames, Attempts
        <4>. QED
          BY <3>1, <4>1, <4>2 DEF FrameIsCapped
      <3>4. CASE proc[v].payout # p
        BY <2>3, <3>1, <3>2, <3>4 DEF FrameIsCapped
      <3>. QED
        BY <3>3, <3>4
    <2>5. FrameIsCapped(proc[w])'
      <3>1. proc'[w].pc = "initiate"
        BY <2>2 DEF Locals
      <3>. QED
        BY <3>1 DEF FrameIsCapped
    <2>6. AttemptsCapped'
      BY <2>1, <2>3 DEF AttemptsCapped, CountsAreCapped
    <2>7. \A q \in Payouts : status'[q] \in {"none", "QUEUED", "FAILED"} =>
             q # p /\ status[q] \in {"none", "QUEUED", "FAILED"}
      BY <2>1, <2>2 DEF TypeOK
    <2>. QED
      BY <2>3, <2>4, <2>5, <2>6, <2>7 DEF CountsAreCapped
  <1>3. CASE Claim(w) /\ ~Claimable(p)
    BY <1>3 DEF Claim, Done
  <1>b. ASSUME UNCHANGED <<status, attemptCount>>,
               \/ \E pc \in ControlPoints \ {"claim", "failWrite"} : Step(w, pc)
               \/ \E a : Go(w, [proc[w] EXCEPT !.pc = "record", !.answer = a])
               \/ Done(w) \/ Catch(w)
        PROVE  CountsAreCapped'
    BY <1>b DEF Step, Done, Catch
  <1>4. CASE InitiateAccepted(w) \/ InitiateRefused(w)
    BY <1>b, <1>4 DEF InitiateAccepted, InitiateRefused
  <1>5. CASE RecordTransfer(w) \/ Lookup(w) \/ ConfirmRead(w)
    BY <1>b, <1>5 DEF RecordTransfer, Lookup, ConfirmRead
  <1>13. CASE ConfirmWrite(w)
    BY <1>13, <1>a DEF ConfirmWrite, Step, TypeOK
  <1>6. CASE AdvanceReadVault(w) \/ AdvanceReadFacts(w)
    BY <1>6 DEF AdvanceReadVault, AdvanceReadFacts
  <1>7. CASE AdvanceHalf(w) \/ AdvanceSettle(w) \/ SettleEvent(w)
    BY <1>7 DEF AdvanceHalf, AdvanceSettle, SettleEvent, Advanced, Step
  <1>8. CASE Attest(w) \/ RefundWrite(w) \/ HealCount(w)
    BY <1>8 DEF Attest, RefundWrite, HealCount, Done
  <1>9. CASE FailRead(w)
    <2>1. ~CapReached(attemptCount[p]) =>
            FrameIsCapped([proc[w] EXCEPT !.pc = "failWrite", !.answer = "unknown"])
      BY <1>9, <1>a, ConstantsAssumption DEF FailRead, CapReached, FrameIsCapped, Locals, TypeOK
    <2>. QED
      BY <1>9, <2>1 DEF FailRead, Step
  <1>10. CASE FailWrite(w)
    <2>1. attemptCount[p] < MaxPayoutAttempts
      BY <1>10 DEF FailWrite, FrameIsCapped
    <2>. QED
      BY <1>10, <1>a, <2>1 DEF FailWrite, Done, TypeOK
  <1>11. CASE ParkWrite(w) \/ HookWrite(w)
    BY <1>11, <1>a DEF ParkWrite, HookWrite, HookStatus, Done, TypeOK
  <1>12. CASE MilestoneTx(w)
    BY <1>12, <1>a DEF MilestoneTx, Done, TypeOK
  <1>. QED
    BY <1>1, <1>2, <1>3, <1>4, <1>5, <1>6, <1>7, <1>8, <1>9, <1>10, <1>11, <1>12,
       <1>13
    DEF Continue

\* Without the sweep and the admin queue no payout is attempted more often than
\* MAX_PAYOUT_ATTEMPTS, although the cap is read before FAILED is written and a
\* claim writes the count that was read before it.
THEOREM AttemptsStayCapped ==
    ASSUME Unattended, MaxPayoutAttempts # 0
    PROVE  Spec => []AttemptsCapped
  <1>1. Init => CountsAreCapped
    <2>. SUFFICES ASSUME Init PROVE CountsAreCapped
      OBVIOUS
    <2>1. \A p \in Payouts : attemptCount[p] = 0
      BY DEF Init
    <2>2. \A w \in Procs : proc[w].pc = "idle"
      BY DEF Init, Idle
    <2>3. MaxPayoutAttempts \in Nat \ {0}
      BY ConstantsAssumption
    <2>. QED
      BY <2>1, <2>2, <2>3 DEF CountsAreCapped, AttemptsCapped, FrameIsCapped
  <1>2. TypeOK /\ OneOwner /\ CountsAreCapped /\ [Next]_vars => CountsAreCapped'
    <2>. SUFFICES ASSUME TypeOK, OneOwner, CountsAreCapped, [Next]_vars
                  PROVE  CountsAreCapped'
      OBVIOUS
    <2>1. ASSUME NEW w \in Procs, Crash(w) \/ Caught(w) PROVE CountsAreCapped'
      BY <2>1, UncappedFrames, KeepsCapped DEF Crash, Caught, Done, Catch, db
    <2>2. CASE Provider \/ UNCHANGED vars
      <3>1. UNCHANGED <<status, attemptCount, proc>>
        BY <2>2 DEF Provider, ProviderSettles, ProviderReverses, db, vars
      <3>. QED
        BY <3>1 DEF CountsAreCapped, AttemptsCapped, FrameIsCapped
    <2>. QED
      BY <2>1, <2>2, CappedBegin, CappedContinue DEF Next
  <1>. QED
    BY <1>1, <1>2, TypeCorrect, OwnerCorrect, PTL DEF Spec, CountsAreCapped

-----------------------------------------------------------------------------
(* The engine moves the money as Money says *)

\* A handler that moves on with the payout it has, or with one that is in order,
\* leaves every handler with one in order.
LEMMA GoInOrder ==
    ASSUME TypeOK, BooksAgree, NEW w \in Procs
    PROVE  /\ \A f : Go(w, f) /\ (f.payout \in Payouts => InOrder(f.payout)) =>
                \A v \in Procs : proc'[v].payout \in Payouts => InOrder(proc'[v].payout)
           /\ \A f : Go(w, f) /\ f.payout = proc[w].payout =>
                \A v \in Procs : proc'[v].payout \in Payouts => InOrder(proc'[v].payout)
           /\ Done(w) \/ Catch(w) \/ Advanced(w) \/ (\E pc : Step(w, pc)) =>
                \A v \in Procs : proc'[v].payout \in Payouts => InOrder(proc'[v].payout)
  <1>1. \A f : Go(w, f) => \A v \in Procs : proc'[v] = IF v = w THEN f ELSE proc[v]
    BY DEF Go, TypeOK
  <1>2. \A f : Go(w, f) /\ (f.payout \in Payouts => InOrder(f.payout)) =>
           \A v \in Procs : proc'[v].payout \in Payouts => InOrder(proc'[v].payout)
    BY <1>1 DEF BooksAgree
  <1>3. \A f : Go(w, f) /\ f.payout = proc[w].payout =>
           \A v \in Procs : proc'[v].payout \in Payouts => InOrder(proc'[v].payout)
    BY <1>2 DEF BooksAgree
  <1>4. Idle.payout \notin Payouts
    BY ConstantsAssumption DEF Idle
  <1>5. /\ \A pc : [proc[w] EXCEPT !.pc = pc, !.answer = "unknown"].payout = proc[w].payout
        /\ [proc[w] EXCEPT !.pc = "attest", !.vault = "unread", !.facts = "unread"].payout
             = proc[w].payout
        /\ [Idle EXCEPT !.pc = "lookup", !.payout = proc[w].payout, !.ref = proc[w].ref].payout
             = proc[w].payout
    BY DEF TypeOK, Frames, Locals, Idle
  <1>6. Done(w) =>
           \A v \in Procs : proc'[v].payout \in Payouts => InOrder(proc'[v].payout)
    BY <1>2, <1>4 DEF Done
  <1>7. Catch(w) \/ Advanced(w) \/ (\E pc : Step(w, pc)) =>
           \A v \in Procs : proc'[v].payout \in Payouts => InOrder(proc'[v].payout)
    BY <1>3, <1>5 DEF Catch, Advanced, Step
  <1>. QED
    BY <1>2, <1>3, <1>6, <1>7

\* What a step may do to the rows: nothing, or something to one payout in order
\* while the vault is not given back.
OneRowMoves ==
    \/ UNCHANGED <<status, reference>>
    \/ /\ vault' = vault \/ vault' # "REFUNDED"
       /\ \E p \in Payouts :
            /\ InOrder(p)
            /\ \A q \in Payouts \ {p} : status'[q] = status[q] /\ reference'[q] = reference[q]

HandsInOrder == \A v \in Procs : proc'[v].payout \in Payouts => InOrder(proc'[v].payout)

\* A handler starts on a payout that is in order, but for the administrator who
\* releases a dispute.
LEMMA OrderBegin ==
    ASSUME TypeOK, BooksAgree, NEW w \in Procs, Begin(w),
           \A x \in MilestoneWinners : ~ReleaseDispute(w, x)
    PROVE  OneRowMoves /\ HandsInOrder
  <1>1. /\ \A pc, p, k : Start(pc, p, k).payout = p
        /\ \A pc, p, k, a : [Start(pc, p, k) EXCEPT !.answer = a].payout = p
        /\ None \notin Payouts
    BY ConstantsAssumption DEF Start, Idle
  <1>2. \A p \in Payouts : status[p] # "none" \/ reference[p] # NoRef => InOrder(p)
    BY DEF BooksAgree
  <1>3. \A x \in MilestoneWinners : status[Instant(x)] = "SUCCEEDED" => InOrder(Milestone(x))
    BY PayoutTypes DEF BooksAgree, Shown, InOrder, Milestone
  <1>4. \A p \in Payouts : ExecuteFrom(w, p) => HandsInOrder
    BY <1>1, <1>2, GoInOrder DEF ExecuteFrom, HandsInOrder
  <1>. USE <1>1, <1>2, GoInOrder DEF OneRowMoves, HandsInOrder, db
  <1>5. ASSUME NEW p \in Payouts, DeliverJob(w, p) PROVE OneRowMoves /\ HandsInOrder
    BY <1>4, <1>5 DEF DeliverJob
  <1>6. ASSUME NEW h \in hooks, HookSuccess(w, h) \/ HookDead(w, h)
        PROVE  OneRowMoves /\ HandsInOrder
    <2>1. /\ h.payout \in Payouts
          /\ reference[h.payout] = h.ref => InOrder(h.payout)
      BY HookTypes DEF Attempts, NoRef
    <2>2. \A f : Go(w, f) /\ f.payout = h.payout /\ reference[h.payout] = h.ref => HandsInOrder
      BY <2>1
    <2>3. UNCHANGED <<status, reference>>
      BY <1>6 DEF HookSuccess, HookDead
    <2>4. CASE HookSuccess(w, h)
      BY <2>2, <2>3, <2>4 DEF HookSuccess
    <2>5. CASE HookDead(w, h)
      <3>1. [Start("hookWrite", h.payout, h.ref) EXCEPT !.answer = h.kind].payout = h.payout
        OBVIOUS
      <3>2. \/ /\ reference[h.payout] = h.ref
               /\ Go(w, [Start("hookWrite", h.payout, h.ref) EXCEPT !.answer = h.kind])
            \/ Done(w)
        BY <2>5 DEF HookDead
      <3>. QED
        BY <2>2, <2>3, <3>1, <3>2
    <2>. QED
      BY <1>6, <2>4, <2>5
  <1>7. ASSUME NEW p \in Payouts, Sweep(w, p) PROVE OneRowMoves /\ HandsInOrder
    BY <1>4, <1>7 DEF Sweep, Sweepable
  <1>8. CASE HealVault(w)
    BY <1>8 DEF HealVault
  <1>9. ASSUME NEW p \in Payouts, AdminRetry(w, p) PROVE OneRowMoves /\ HandsInOrder
    BY <1>9 DEF AdminRetry, Retryable
  <1>10. ASSUME NEW p \in Payouts, MarkManuallyPaid(w, p) PROVE OneRowMoves /\ HandsInOrder
    <2>1. \A q \in Payouts \ {p} : status'[q] = status[q] /\ reference'[q] = reference[q]
      BY <1>10 DEF MarkManuallyPaid, TypeOK
    <2>. QED
      BY <1>10, <2>1 DEF MarkManuallyPaid
  <1>11. ASSUME NEW x \in MilestoneWinners, ConfirmMilestone(w, x) \/ DisputeRefund(w, x)
         PROVE  OneRowMoves /\ HandsInOrder
    BY <1>3, <1>11 DEF ConfirmMilestone, MilestoneDue, DisputeRefund
  <1>. QED
    BY <1>5, <1>6, <1>7, <1>8, <1>9, <1>10, <1>11 DEF Begin

\* A handler writes the row of the payout it has in hand.
LEMMA OrderContinue ==
    ASSUME TypeOK, BooksAgree, NEW w \in Procs, Continue(w)
    PROVE  OneRowMoves /\ HandsInOrder
  <1>. DEFINE p == proc[w].payout
  <1>1. /\ proc[w] \in Frames
        /\ p \in Payouts => InOrder(p)
        /\ proc[w].pc \in OnPayout => p \in Payouts
    BY InHand DEF BooksAgree
  <1>2. \A f \in {[proc[w] EXCEPT !.pc = "initiate", !.try = TRUE]}
               \cup {[proc[w] EXCEPT !.pc = "record", !.answer = a] : a \in Answers}
               \cup {[proc[w] EXCEPT !.vault = vault], [proc[w] EXCEPT !.facts = FactsNow],
                     [proc[w] EXCEPT !.vault = vault, !.pc = "advanceHalf"],
                     [proc[w] EXCEPT !.facts = FactsNow, !.pc = "advanceHalf"]} :
          f.payout = p
    BY <1>1 DEF Frames, Locals
  <1>3. \A q \in Payouts : ExecuteFrom(w, q) /\ InOrder(q) => HandsInOrder
    <2>1. \A pc, q, k : Start(pc, q, k).payout = q
      BY DEF Start, Idle
    <2>. QED
      BY <2>1, GoInOrder DEF ExecuteFrom, HandsInOrder
  <1>4. ASSUME p \in Payouts, vault' = vault,
               \A q \in Payouts \ {p} : status'[q] = status[q] /\ reference'[q] = reference[q]
        PROVE  OneRowMoves
    BY <1>1, <1>4 DEF OneRowMoves
  <1>5. UNCHANGED <<status, reference>> => OneRowMoves
    BY DEF OneRowMoves
  <1>6. Done(w) \/ Catch(w) \/ Advanced(w) \/ (\E pc : Step(w, pc)) => HandsInOrder
    BY GoInOrder DEF HandsInOrder
  <1>7. \A f : Go(w, f) /\ f.payout = p => HandsInOrder
    BY GoInOrder DEF HandsInOrder
  <1>. USE <1>1, <1>5, <1>6 DEF db, At, OnPayout, ControlPoints, Advancing
  <1>8. CASE ExecuteRead(w)
    BY <1>3, <1>8 DEF ExecuteRead
  <1>9. CASE Claim(w)
    <2>1. HandsInOrder
      BY <1>2, <1>7, <1>9 DEF Claim
    <2>2. \A q \in Payouts \ {p} : status'[q] = status[q] /\ reference'[q] = reference[q]
      BY <1>9 DEF Claim, TypeOK
    <2>. QED
      BY <1>4, <1>9, <2>1, <2>2 DEF Claim
  <1>10. CASE InitiateAccepted(w)
    BY <1>2, <1>7, <1>10 DEF InitiateAccepted, Answers, TransferStatus
  <1>11. CASE InitiateRefused(w) \/ Lookup(w) \/ ConfirmRead(w) \/ FailRead(w) \/ RetryLookup(w)
    BY <1>11 DEF InitiateRefused, Lookup, ConfirmRead, FailRead, RetryLookup
  <1>12. CASE AdvanceReadVault(w) \/ AdvanceReadFacts(w)
    BY <1>2, <1>7, <1>12 DEF AdvanceReadVault, AdvanceReadFacts
  <1>13. CASE AdvanceHalf(w) \/ AdvanceSettle(w) \/ SettleEvent(w) \/ Attest(w) \/ RefundWrite(w)
    BY <1>13 DEF AdvanceHalf, AdvanceSettle, SettleEvent, Attest, RefundWrite
  <1>14. CASE \/ RecordTransfer(w) \/ ConfirmWrite(w) \/ FailWrite(w) \/ ParkWrite(w)
              \/ HookWrite(w) \/ Requeue(w) \/ MilestoneTx(w)
    <2>1. \A q \in Payouts \ {p} : status'[q] = status[q] /\ reference'[q] = reference[q]
      BY <1>14
      DEF RecordTransfer, ConfirmWrite, FailWrite, ParkWrite, HookWrite, Requeue,
          MilestoneTx, TypeOK
    <2>2. HandsInOrder /\ vault' = vault /\ p \in Payouts
      BY <1>14
      DEF RecordTransfer, ConfirmWrite, FailWrite, ParkWrite, HookWrite, Requeue, MilestoneTx
    <2>. QED
      BY <1>4, <2>1, <2>2
  <1>15. CASE HealCount(w)
    <2>1. Start("advanceRead", None, NoRef).payout \notin Payouts
      BY ConstantsAssumption DEF Start, Idle
    <2>. QED
      BY <1>15, <2>1, GoInOrder DEF HealCount, HandsInOrder
  <1>. QED
    BY <1>8, <1>9, <1>10, <1>11, <1>12, <1>13, <1>14, <1>15 DEF Continue

\* So it is with every other step.
LEMMA OrderNext ==
    ASSUME TypeOK, BooksAgree, [Next]_vars,
           \A w \in Procs, x \in MilestoneWinners : ~ReleaseDispute(w, x)
    PROVE  OneRowMoves /\ HandsInOrder
  <1>1. ASSUME NEW w \in Procs, Crash(w) \/ Caught(w) PROVE OneRowMoves /\ HandsInOrder
    BY <1>1, GoInOrder DEF Crash, Caught, OneRowMoves, HandsInOrder, db
  <1>2. CASE Provider
    BY <1>2 DEF Provider, ProviderSettles, ProviderReverses, OneRowMoves, HandsInOrder,
                BooksAgree, db
  <1>3. CASE UNCHANGED vars
    BY <1>3 DEF vars, OneRowMoves, HandsInOrder, BooksAgree
  <1>. QED
    BY <1>1, <1>2, <1>3, OrderBegin, OrderContinue DEF Next

\* Only the resolution of a dispute brings a handler to its transaction.
LEMMA OnlyReleaseStarts ==
    ASSUME TypeOK, [Next]_vars, NEW v \in Procs, proc'[v].pc = "releaseTx"
    PROVE  proc'[v] = proc[v] \/ \E x \in MilestoneWinners : ReleaseDispute(v, x)
  <1>. SUFFICES ASSUME \A x \in MilestoneWinners : ~ReleaseDispute(v, x)
                PROVE  proc'[v] = proc[v]
    OBVIOUS
  <1>1. \A w \in Procs : \A f : Go(w, f) /\ (w # v \/ f.pc # "releaseTx") => proc'[v] = proc[v]
    BY DEF Go, TypeOK
  <1>2. /\ \A pc, p, k : Start(pc, p, k).pc = pc
        /\ \A pc, p, k, a : [Start(pc, p, k) EXCEPT !.answer = a].pc = pc
        /\ Idle.pc = "idle"
        /\ \A p, k : [Idle EXCEPT !.pc = "lookup", !.payout = p, !.ref = k].pc = "lookup"
    BY DEF Start, Idle
  <1>3. \A w \in Procs : \A pc :
           /\ [proc[w] EXCEPT !.pc = pc, !.answer = "unknown"].pc = pc
           /\ [proc[w] EXCEPT !.pc = pc, !.vault = "unread", !.facts = "unread"].pc = pc
    BY DEF TypeOK, Frames, Locals
  <1>4. ASSUME NEW w \in Procs,
               \/ Done(w) \/ Catch(w) \/ Advanced(w)
               \/ \E pc : pc # "releaseTx" /\ Step(w, pc)
               \/ \E pc, p, k : pc # "releaseTx" /\ Go(w, Start(pc, p, k))
               \/ \E p : ExecuteFrom(w, p)
        PROVE  proc'[v] = proc[v]
    <2>1. Done(w) \/ Catch(w) => proc'[v] = proc[v]
      BY <1>1, <1>2 DEF Done, Catch
    <2>2. Advanced(w) => proc'[v] = proc[v]
      <3>1. [proc[w] EXCEPT !.pc = "attest", !.vault = "unread", !.facts = "unread"].pc = "attest"
        BY <1>3
      <3>. QED
        BY <1>1, <3>1 DEF Advanced
    <2>2a. (\E pc : pc # "releaseTx" /\ Step(w, pc)) => proc'[v] = proc[v]
      <3>1. ASSUME NEW pc, pc # "releaseTx", Step(w, pc) PROVE proc'[v] = proc[v]
        <4>1. [proc[w] EXCEPT !.pc = pc, !.answer = "unknown"].pc = pc
          BY <1>3
        <4>. QED
          BY <1>1, <3>1, <4>1 DEF Step
      <3>. QED
        BY <3>1
    <2>3. (\E pc, p, k : pc # "releaseTx" /\ Go(w, Start(pc, p, k))) => proc'[v] = proc[v]
      BY <1>1, <1>2
    <2>4. (\E p : ExecuteFrom(w, p)) => proc'[v] = proc[v]
      BY <2>1, <2>3 DEF ExecuteFrom
    <2>. QED
      BY <1>4, <2>1, <2>2, <2>2a, <2>3, <2>4
  <1>5. ASSUME NEW w \in Procs, Begin(w) PROVE proc'[v] = proc[v]
    <2>1. ASSUME NEW p \in Payouts,
                 \/ DeliverJob(w, p) \/ Sweep(w, p) \/ AdminRetry(w, p)
                 \/ MarkManuallyPaid(w, p)
          PROVE  proc'[v] = proc[v]
      BY <1>4, <2>1 DEF DeliverJob, Sweep, AdminRetry, MarkManuallyPaid
    <2>2. ASSUME NEW h \in hooks, HookSuccess(w, h) \/ HookDead(w, h)
          PROVE  proc'[v] = proc[v]
      <3>1. CASE HookSuccess(w, h)
        BY <1>4, <3>1 DEF HookSuccess
      <3>2. CASE HookDead(w, h)
        <4>1. \/ Go(w, [Start("hookWrite", h.payout, h.ref) EXCEPT !.answer = h.kind])
              \/ Done(w)
          BY <3>2 DEF HookDead
        <4>2. [Start("hookWrite", h.payout, h.ref) EXCEPT !.answer = h.kind].pc = "hookWrite"
          BY <1>2
        <4>. QED
          BY <1>1, <1>4, <4>1, <4>2
      <3>. QED
        BY <2>2, <3>1, <3>2
    <2>3. ASSUME NEW x \in MilestoneWinners, ConfirmMilestone(w, x) \/ DisputeRefund(w, x)
          PROVE  proc'[v] = proc[v]
      BY <1>4, <2>3 DEF ConfirmMilestone, DisputeRefund
    <2>4. ASSUME NEW x \in MilestoneWinners, ReleaseDispute(w, x) PROVE proc'[v] = proc[v]
      BY <1>1, <2>4 DEF ReleaseDispute
    <2>5. HealVault(w) => proc'[v] = proc[v]
      BY <1>4 DEF HealVault
    <2>. QED
      BY <1>5, <2>1, <2>2, <2>3, <2>4, <2>5 DEF Begin
  <1>6. ASSUME NEW w \in Procs, Continue(w) PROVE proc'[v] = proc[v]
    <2>1. CASE \/ ExecuteRead(w) \/ InitiateRefused(w) \/ RecordTransfer(w) \/ Lookup(w)
               \/ ConfirmRead(w) \/ ConfirmWrite(w) \/ AdvanceHalf(w) \/ AdvanceSettle(w)
               \/ SettleEvent(w) \/ Attest(w)
      BY <1>4, <2>1
      DEF ExecuteRead, InitiateRefused, RecordTransfer, Lookup, ConfirmRead, ConfirmWrite,
          AdvanceHalf, AdvanceSettle, SettleEvent, Attest
    <2>2. CASE \/ FailRead(w) \/ FailWrite(w) \/ ParkWrite(w) \/ HookWrite(w)
               \/ HealCount(w) \/ RetryLookup(w) \/ Requeue(w) \/ MilestoneTx(w)
               \/ RefundWrite(w)
      BY <1>4, <2>2
      DEF FailRead, FailWrite, ParkWrite, HookWrite, HealCount, RetryLookup, Requeue,
          MilestoneTx, RefundWrite
    <2>3. /\ [proc[w] EXCEPT !.pc = "initiate", !.try = TRUE].pc = "initiate"
          /\ \A s : [proc[w] EXCEPT !.pc = "record", !.answer = s].pc = "record"
          /\ \A a : /\ [proc[w] EXCEPT !.vault = a].pc = proc[w].pc
                    /\ [proc[w] EXCEPT !.facts = a].pc = proc[w].pc
                    /\ [proc[w] EXCEPT !.vault = a, !.pc = "advanceHalf"].pc = "advanceHalf"
                    /\ [proc[w] EXCEPT !.facts = a, !.pc = "advanceHalf"].pc = "advanceHalf"
      BY DEF TypeOK, Frames, Locals
    <2>4. CASE Claim(w)
      BY <1>1, <1>4, <2>3, <2>4 DEF Claim
    <2>5. CASE InitiateAccepted(w)
      BY <1>1, <1>4, <2>3, <2>5 DEF InitiateAccepted
    <2>6. CASE AdvanceReadVault(w) \/ AdvanceReadFacts(w)
      BY <1>1, <2>3, <2>6 DEF AdvanceReadVault, AdvanceReadFacts, At
    <2>. QED
      BY <1>6, <2>1, <2>2, <2>4, <2>5, <2>6 DEF Continue
  <1>7. ASSUME NEW w \in Procs, Crash(w) \/ Caught(w) PROVE proc'[v] = proc[v]
    BY <1>4, <1>7 DEF Crash, Caught
  <1>8. Provider \/ UNCHANGED vars => proc'[v] = proc[v]
    BY DEF Provider, ProviderSettles, ProviderReverses, vars
  <1>. QED
    BY <1>5, <1>6, <1>7, <1>8 DEF Next

\* Without such a resolution no milestone more is being released.
LEMMA NoneReleased ==
    ASSUME TypeOK, [Next]_vars,
           \A w \in Procs, x \in MilestoneWinners : ~ReleaseDispute(w, x)
    PROVE  Releasing' \subseteq Releasing
  BY OnlyReleaseStarts DEF Releasing, At

\* The administrator's step shows the release, which puts the milestone in order.
LEMMA ReleaseShown ==
    ASSUME TypeOK, BooksAgree, NEW w \in Procs, NEW x \in MilestoneWinners,
           ReleaseDispute(w, x)
    PROVE  /\ UNCHANGED <<status, reference>>
           /\ Override(x) \in Shown'
           /\ Shown' \subseteq account \cup {Override(x)}
           /\ \A v \in Procs : \/ proc'[v] = proc[v]
                                \/ proc'[v].payout = Milestone(x)
  <1>1. /\ UNCHANGED <<status, reference, vault>>
        /\ \A v \in Procs \ {w} : proc'[v] = proc[v]
        /\ proc'[w] = Start("releaseTx", Milestone(x), NoRef)
    BY DEF ReleaseDispute, Go, TypeOK, db
  <1>2. proc'[w].pc = "releaseTx" /\ proc'[w].payout = Milestone(x)
    BY <1>1 DEF Start, Idle
  <1>3. x \in Releasing'
    BY <1>2 DEF Releasing, At
  <1>4. \A y : Milestone(y) = Milestone(x) => y = x
    BY DEF Milestone
  <1>5. Releasing' \subseteq Releasing \cup {x}
    BY <1>1, <1>2, <1>4 DEF Releasing, At
  <1>6. Shown \subseteq account
    BY DEF BooksAgree
  <1>. QED
    BY <1>1, <1>2, <1>3, <1>5, <1>6 DEF Shown

\* Any other step shows one thing more at most: a payout in order, or the refund.
LEMMA OneThingShown ==
    ASSUME TypeOK, BooksAgree, OneRowMoves, Releasing' \subseteq Releasing
    PROVE  \/ Shown' \subseteq account \cup {Refunded}
           \/ \E p \in Payouts : InOrder(p) /\ Shown' \subseteq account \cup {p}
  <1>1. Shown \subseteq account
    BY DEF BooksAgree
  <1>2. CASE UNCHANGED <<status, reference>>
    BY <1>1, <1>2 DEF Shown
  <1>3. ASSUME vault' = vault \/ vault' # "REFUNDED",
               NEW p \in Payouts, InOrder(p),
               \A q \in Payouts \ {p} : status'[q] = status[q]
        PROVE  Shown' \subseteq account \cup {p}
    BY <1>1, <1>3 DEF Shown
  <1>. QED
    BY <1>2, <1>3 DEF OneRowMoves

\* The engine with its record is the engine.
LEMMA BooksRefine == BooksSpec => Spec
  <1>1. BooksInit => Init
    BY DEF BooksInit
  <1>2. [BooksNext]_<<vars, account>> => [Next]_vars
    BY DEF BooksNext
  <1>. QED
    BY <1>1, <1>2, PTL DEF BooksSpec, Spec

\* The inductive invariant of the account.
LEMMA BooksCorrect == BooksSpec => [](TypeOK /\ BooksAgree)
  <1>1. BooksInit => BooksAgree
    <2>1. ASSUME BooksInit, NEW p \in Payouts, status[p] # "none" \/ reference[p] # NoRef
          PROVE  InOrder(p)
      <3>1. p \in Instants
        BY <2>1 DEF BooksInit, Init
      <3>2. Instants \cap Milestones = {}
        BY DEF Instants, Milestones, Instant, Milestone
      <3>. QED
        BY <3>1, <3>2 DEF InOrder
    <2>2. BooksInit => Shown = {}
      BY DEF BooksInit, Init, Shown, Releasing, At, Idle
    <2>3. BooksInit => \A w \in Procs : proc[w].payout \notin Payouts
      BY ConstantsAssumption DEF BooksInit, Init, Idle
    <2>. QED
      BY <2>1, <2>2, <2>3 DEF BooksAgree, BooksInit
  <1>2. ASSUME TypeOK, BooksAgree, [BooksNext]_<<vars, account>> PROVE BooksAgree'
    <2>1. account \subseteq account' /\ Shown' \subseteq account' /\ [Next]_vars
      BY <1>2 DEF BooksNext, Recorded, BooksAgree, Shown, Releasing, At, vars
    <2>2. \A p : InOrder(p) => InOrder(p)'
      BY <2>1 DEF InOrder
    <2>3. CASE \A w \in Procs, x \in MilestoneWinners : ~ReleaseDispute(w, x)
      <3>1. OneRowMoves /\ HandsInOrder
        BY <1>2, <2>1, <2>3, OrderNext
      <3>2. \A p \in Payouts : status'[p] # "none" \/ reference'[p] # NoRef => InOrder(p)
        BY <1>2, <3>1 DEF OneRowMoves, BooksAgree
      <3>3. \A v \in Procs : proc'[v].payout \in Payouts => InOrder(proc'[v].payout)
        BY <3>1 DEF HandsInOrder
      <3>. QED
        BY <1>2, <2>1, <2>2, <3>2, <3>3 DEF BooksAgree
    <2>4. ASSUME NEW w \in Procs, NEW x \in MilestoneWinners, ReleaseDispute(w, x)
          PROVE  BooksAgree'
      <3>1. /\ UNCHANGED <<status, reference>>
            /\ Override(x) \in account'
            /\ \A v \in Procs : proc'[v] = proc[v] \/ proc'[v].payout = Milestone(x)
        BY <1>2, <2>1, <2>4, ReleaseShown
      <3>2. InOrder(Milestone(x))'
        BY <3>1 DEF InOrder, Milestone
      <3>3. \A v \in Procs : (proc[v].payout \in Payouts => InOrder(proc[v].payout))'
        BY <1>2, <2>2, <3>1, <3>2 DEF BooksAgree
      <3>. QED
        BY <1>2, <2>1, <2>2, <3>1, <3>3 DEF BooksAgree
    <2>. QED
      BY <2>3, <2>4
  <1>3. BooksSpec => []TypeOK
    BY BooksRefine, TypeCorrect, PTL
  <1>. QED
    BY <1>1, <1>2, <1>3, PTL DEF BooksSpec

\* Whatever the handlers do to each other, the engine's rows show the money moving
\* as Money says: one tranche after the other, a milestone's after its instant one
\* or after an administrator has released its dispute.
THEOREM EngineMovesMoney == BooksSpec => MoneyMoves
  <1>1. BooksInit => account = {Created, Locked}
    BY DEF BooksInit
  <1>2. ASSUME TypeOK, BooksAgree, BooksNext
        PROVE  [Bank!Next]_account
    <2>1. account' = account \cup Shown' /\ Locked \in account /\ [Next]_vars
      BY <1>2 DEF BooksNext, Recorded, BooksAgree
    <2>2. ASSUME NEW w \in Procs, NEW x \in MilestoneWinners, ReleaseDispute(w, x)
          PROVE  [Bank!Next]_account
      <3>1. account' = account \cup {Override(x)}
        BY <1>2, <2>1, <2>2, ReleaseShown
      <3>2. Milestone(x) \in Milestones /\ Milestone(x)[1] = x
        BY DEF Milestones, Milestone
      <3>3. Bank!Release(Milestone(x))
        BY <2>1, <3>1, <3>2 DEF Bank!Release
      <3>. QED
        BY <3>2, <3>3 DEF Bank!Next
    <2>3. CASE \A w \in Procs, x \in MilestoneWinners : ~ReleaseDispute(w, x)
      <3>1. OneRowMoves /\ Releasing' \subseteq Releasing
        BY <1>2, <2>1, <2>3, OrderNext, NoneReleased
      <3>2. CASE Shown' \subseteq account \cup {Refunded}
        <4>1. account' = account \/ account' = account \cup {Refunded}
          BY <2>1, <3>2
        <4>. QED
          BY <2>1, <4>1 DEF Bank!Next, Bank!Refund
      <3>3. ASSUME NEW p \in Payouts, InOrder(p), Shown' \subseteq account \cup {p}
            PROVE  [Bank!Next]_account
        <4>1. account' = account \/ account' = account \cup {p}
          BY <2>1, <3>3
        <4>2. Bank!Pay(p) \/ account' = account
          BY <2>1, <3>3, <4>1 DEF Bank!Pay, InOrder
        <4>. QED
          BY <3>3, <4>2 DEF Bank!Next, Payouts
      <3>. QED
        BY <1>2, <3>1, <3>2, <3>3, OneThingShown
    <2>. QED
      BY <2>2, <2>3
  <1>3. UNCHANGED <<vars, account>> => [Bank!Next]_account
    OBVIOUS
  <1>4. TypeOK /\ BooksAgree /\ [BooksNext]_<<vars, account>> => [Bank!Next]_account
    BY <1>2, <1>3
  <1>. QED
    BY <1>1, <1>4, BooksCorrect, PTL DEF BooksSpec, MoneyMoves, Bank!LockedSpec, Bank!Moves
=============================================================================
