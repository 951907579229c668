------------------------- MODULE EventFundingProofs -------------------------
(***************************************************************************)
(* Proofs about EventFunding, for any number of deposits and handlers, any *)
(* set of callers and any faults.                                          *)
(***************************************************************************)
EXTENDS EventFunding, TLAPS

-----------------------------------------------------------------------------
(* Type correctness *)

\* The frames a handler starts with are well typed.
LEMMA StartTypes ==
    /\ Idle \in Frames
    /\ \A pc \in ControlPoints \ DepositPoints :
         /\ Start(pc) \in Frames
         /\ \A v \in VaultChainState : [Start(pc) EXCEPT !.vault = v] \in Frames
         /\ \A s \in SUBSET Deposits : [Start(pc) EXCEPT !.stale = s] \in Frames
    /\ \A pc \in ControlPoints : \A d \in Deposits :
         [Start(pc) EXCEPT !.deposit = d] \in Frames
  <1>1. Idle \in Frames
    BY DEF Idle, Frames, ControlPoints, DepositPoints, VaultChainState
  <1>2. \A pc \in ControlPoints \ DepositPoints : Start(pc) \in Frames
    BY <1>1 DEF Start, Frames
  <1>3. \A g \in Frames :
          /\ \A v \in VaultChainState : [g EXCEPT !.vault = v] \in Frames
          /\ \A s \in SUBSET Deposits : [g EXCEPT !.stale = s] \in Frames
    BY DEF Frames
  <1>4. \A pc \in ControlPoints : \A d \in Deposits :
          [Start(pc) EXCEPT !.deposit = d] \in Frames
    BY <1>1 DEF Start, Frames
  <1>. QED
    BY <1>1, <1>2, <1>3, <1>4

\* Moving a handler to a well-typed frame keeps the frames well typed; so does
\* a step to a point that needs no deposit, or of a handler that has one.
LEMMA GoType ==
    ASSUME TypeOK, NEW w \in Procs
    PROVE  /\ \A f \in Frames : Go(w, f) => proc' \in [Procs -> Frames]
           /\ \A pc \in ControlPoints :
                /\ pc \in DepositPoints => proc[w].pc \in DepositPoints
                /\ Step(w, pc)
                => proc' \in [Procs -> Frames]
           /\ Done(w) => proc' \in [Procs -> Frames]
           /\ proc[w].pc \in DepositPoints => proc[w].deposit \in Deposits
  <1>1. \A f \in Frames : Go(w, f) => proc' \in [Procs -> Frames]
    BY DEF TypeOK, Go
  <1>2. \A pc \in ControlPoints :
          (pc \in DepositPoints => proc[w].pc \in DepositPoints)
          => [proc[w] EXCEPT !.pc = pc] \in Frames
    BY DEF TypeOK, Frames
  <1>. QED
    BY <1>1, <1>2, StartTypes DEF Step, Done, TypeOK, Frames

\* What recordCharge reads of the deposit decides where its handler goes on; the rest
\* of the frame stays, but for whether the deposit covers the pool.
LEMMA ChargeReads ==
    ASSUME TypeOK, NEW w \in Procs, ChargeRead(w)
    PROVE  \E f \in Frames : /\ Go(w, f)
                             /\ f.pc = ChargeRoute(deposit[proc[w].deposit])
                             /\ f.deposit = proc[w].deposit
                             /\ f.vault = proc[w].vault
  <1>. DEFINE pc == ChargeRoute(deposit[proc[w].deposit])
              f(c) == [proc[w] EXCEPT !.pc = pc, !.covered = c]
  <1>1. PICK c \in BOOLEAN : Go(w, f(c))
    BY DEF ChargeRead, Covers
  <1>2. proc[w] \in Frames /\ proc[w].deposit \in Deposits
    BY GoType DEF TypeOK, ChargeRead, At, DepositPoints
  <1>3. pc \in {"markProcessed", "chargeTx", "orphan"}
    BY DEF ChargeRoute
  <1>. HIDE DEF pc
  <1>4. /\ f(c) \in Frames
        /\ f(c).pc = pc /\ f(c).deposit = proc[w].deposit /\ f(c).vault = proc[w].vault
    BY <1>2, <1>3 DEF Frames, ControlPoints
  <1>. QED
    BY <1>1, <1>4 DEF pc

\* A late draft save touches nothing of the funding but what the pool is.
LEMMA RaiseLeaves ==
    ASSUME RaisePrizes
    PROVE  /\ short' \subseteq Deposits
           /\ UNCHANGED <<event, vault, deposit, hook, charged, paged, lockedBy, proc, crashes>>
  BY DEF RaisePrizes, out

\* The initial state is well typed.
LEMMA TypeInit == Init => TypeOK
  BY StartTypes
  DEF Init, TypeOK, EventStatus, VaultChainState, DepositStatus, HookStatus

\* A handler's start keeps the types.
LEMMA TypeBegin ==
    ASSUME TypeOK, NEW w \in Procs, Begin(w)
    PROVE  TypeOK'
  <1>. USE StartTypes, GoType DEF TypeOK, db, out, ControlPoints, DepositPoints, At
  <1>1. CASE PublishRead(w)
    BY <1>1 DEF PublishRead
  <1>2. ASSUME NEW d \in Deposits, InitiateRead(w, d) PROVE TypeOK'
    BY <1>2 DEF InitiateRead
  <1>3. ASSUME NEW d \in Deposits, ReceiveCharge(w, d) PROVE TypeOK'
    BY <1>3 DEF ReceiveCharge, HookStatus
  <1>4. CASE ExpireRead(w)
    BY <1>4 DEF ExpireRead
  <1>5. CASE OrganizerCancelRead(w)
    BY <1>5 DEF OrganizerCancelRead
  <1>6. CASE AdminCancelRead(w)
    BY <1>6 DEF AdminCancelRead
  <1>7. CASE AdvanceStarted(w)
    BY <1>7 DEF AdvanceStarted, EventStatus
  <1>8. CASE OpenJudgingRead(w)
    BY <1>8 DEF OpenJudgingRead
  <1>9. CASE AnnounceWinners(w)
    BY <1>9 DEF AnnounceWinners, EventStatus
  <1>. QED
    BY <1>1, <1>2, <1>3, <1>4, <1>5, <1>6, <1>7, <1>8, <1>9 DEF Begin

\* A handler's next step keeps the types.
LEMMA TypeContinue ==
    ASSUME TypeOK, NEW w \in Procs, Continue(w)
    PROVE  TypeOK'
  <1>. USE StartTypes, GoType DEF TypeOK, db, out, ControlPoints, DepositPoints, At
  <1>1. CASE PublishWrite(w)
    BY <1>1 DEF PublishWrite, EventStatus
  <1>2. CASE CreateVault(w)
    BY <1>2 DEF CreateVault, VaultChainState
  <1>3. CASE CreateDeposit(w)
    BY <1>3 DEF CreateDeposit, DepositStatus
  <1>4. CASE ChargeRead(w)
    BY <1>4, ChargeReads DEF ChargeRead
  <1>5. CASE ChargeTx(w)
    <2>1. deposit' \in [Deposits -> DepositStatus]
      BY <1>5 DEF ChargeTx, DepositStatus
    <2>2. lockedBy' \subseteq Deposits
      BY <1>5 DEF ChargeTx
    <2>. QED
      BY <1>5, <2>1, <2>2 DEF ChargeTx, VaultChainState, EventStatus
  <1>6. CASE Overpaid(w)
    BY <1>6 DEF Overpaid
  <1>7. CASE Orphan(w)
    BY <1>7 DEF Orphan
  <1>8. CASE MarkProcessed(w)
    BY <1>8 DEF MarkProcessed, HookStatus
  <1>9. CASE ExpireWrite(w)
    BY <1>9 DEF ExpireWrite, ExpiredStatus, DepositStatus
  <1>10. CASE OrganizerCancelTx(w)
    BY <1>10 DEF OrganizerCancelTx, EventStatus
  <1>11. CASE AdminCancelTx(w)
    BY <1>11 DEF AdminCancelTx, EventStatus
  <1>12. CASE RefundRead(w)
    BY <1>12 DEF RefundRead
  <1>13. CASE RefundWrite(w)
    BY <1>13 DEF RefundWrite, VaultChainState
  <1>14. CASE OpenJudgingTx(w)
    BY <1>14 DEF OpenJudgingTx, EventStatus
  <1>. QED
    BY <1>1, <1>2, <1>3, <1>4, <1>5, <1>6, <1>7, <1>8, <1>9, <1>10, <1>11, <1>12,
       <1>13, <1>14
    DEF Continue

\* The steps of Next that are not a handler's own.
LEMMA TypeOthers ==
    ASSUME TypeOK
    PROVE  /\ \A w \in Procs : Crash(w) => TypeOK'
           /\ \A d \in Deposits : PayerPays(d) => TypeOK'
           /\ RaisePrizes => TypeOK'
           /\ UNCHANGED vars => TypeOK'
  <1>1. ASSUME NEW w \in Procs, Crash(w) PROVE TypeOK'
    BY <1>1, GoType, ConstantsAssumption DEF TypeOK, Crash, db, out
  <1>2. ASSUME NEW d \in Deposits, PayerPays(d) PROVE TypeOK'
    BY <1>2 DEF TypeOK, PayerPays, db, out
  <1>3. RaisePrizes => TypeOK'
    BY RaiseLeaves DEF TypeOK
  <1>4. UNCHANGED vars => TypeOK'
    BY DEF TypeOK, vars
  <1>. QED
    BY <1>1, <1>2, <1>3, <1>4

\* Every variable keeps its type.
THEOREM TypeCorrect == Spec => []TypeOK
  <1>1. TypeOK /\ [Next]_vars => TypeOK'
    BY TypeBegin, TypeContinue, TypeOthers DEF Next
  <1>. QED
    BY TypeInit, <1>1, PTL DEF Spec

-----------------------------------------------------------------------------
(* Funding is backed *)

\* What a handler has read stays good when the handlers around it move on: the
\* others' frames are untouched, and this one's new frame is shown good apart.
LEMMA FramesStayBacked ==
    ASSUME TypeOK, FundingIsBacked, NEW w \in Procs, NEW f, Go(w, f),
           \A g \in Frames : FrameIsBacked(g) => FrameIsBacked(g)',
           FrameIsBacked(f)'
    PROVE  \A v \in Procs : FrameIsBacked(proc[v])'
  <1>. SUFFICES ASSUME NEW v \in Procs
                PROVE  FrameIsBacked(proc[v])'
    OBVIOUS
  <1>1. proc'[v] = IF v = w THEN f ELSE proc[v]
    BY DEF TypeOK, Go
  <1>2. FrameIsBacked(proc[v]) /\ proc[v] \in Frames
    BY DEF FundingIsBacked, TypeOK
  <1>3. CASE v = w
    BY <1>1, <1>3 DEF FrameIsBacked
  <1>4. CASE v # w
    BY <1>1, <1>2, <1>4 DEF FrameIsBacked
  <1>. QED
    BY <1>3, <1>4

\* The initial state is backed: there is nothing to back.
LEMMA BackedInit == Init => FundingIsBacked
  BY DEF Init, FundingIsBacked, PrizeVerified, VaultIsBacked, FrameIsBacked, Idle

\* A step that writes nothing the invariant reads, and leaves its handler with a
\* good frame, keeps the funding backed.
LEMMA ReadKeepsBacked ==
    ASSUME TypeOK, FundingIsBacked, NEW w \in Procs, NEW f, Go(w, f),
           FrameIsBacked(f), UNCHANGED <<event, vault, deposit, lockedBy, charged>>
    PROVE  FundingIsBacked'
  <1>1. /\ \A g \in Frames : FrameIsBacked(g) => FrameIsBacked(g)'
        /\ FrameIsBacked(f)'
    BY DEF FrameIsBacked
  <1>2. \A v \in Procs : FrameIsBacked(proc[v])'
    BY <1>1, FramesStayBacked
  <1>. QED
    BY <1>2 DEF FundingIsBacked, PrizeVerified, VaultIsBacked

\* An idle handler, and one that has only taken up a call, has read nothing yet.
LEMMA FreshFrames ==
    /\ FrameIsBacked(Idle)
    /\ \A pc \in ControlPoints \ {"chargeRead", "chargeTx", "refundRead", "refundWrite"} :
         /\ FrameIsBacked(Start(pc))
         /\ \A d : FrameIsBacked([Start(pc) EXCEPT !.deposit = d])
         /\ \A s : FrameIsBacked([Start(pc) EXCEPT !.stale = s])
  BY DEF FrameIsBacked, Start, Idle

\* A handler's start keeps the funding backed.
LEMMA BackedBegin ==
    ASSUME TypeOK, FundingIsBacked, NEW w \in Procs, Begin(w)
    PROVE  FundingIsBacked'
  <1>. USE FreshFrames, ReadKeepsBacked DEF db, out, ControlPoints
  <1>1. CASE PublishRead(w)
    BY <1>1 DEF PublishRead
  <1>2. ASSUME NEW d \in Deposits, InitiateRead(w, d) PROVE FundingIsBacked'
    BY <1>2 DEF InitiateRead
  <1>3. ASSUME NEW d \in Deposits, ReceiveCharge(w, d) PROVE FundingIsBacked'
    <2>1. FrameIsBacked([Start("chargeRead") EXCEPT !.deposit = d])
      BY <1>3 DEF ReceiveCharge, FrameIsBacked, Start, Idle
    <2>. QED
      BY <1>3, <2>1 DEF ReceiveCharge
  <1>4. CASE ExpireRead(w)
    BY <1>4 DEF ExpireRead
  <1>5. CASE OrganizerCancelRead(w)
    BY <1>5 DEF OrganizerCancelRead
  <1>6. CASE AdminCancelRead(w)
    <2>1. FrameIsBacked([Start("adminCancel") EXCEPT !.vault = vault])
      BY DEF FrameIsBacked, Start, Idle
    <2>. QED
      BY <1>6, <2>1 DEF AdminCancelRead
  <1>7. CASE AdvanceStarted(w)
    BY <1>7
    DEF AdvanceStarted, Startable, FundingIsBacked, PrizeVerified, VaultIsBacked, FrameIsBacked
  <1>8. CASE OpenJudgingRead(w)
    BY <1>8 DEF OpenJudgingRead
  <1>9. CASE AnnounceWinners(w)
    BY <1>9 DEF AnnounceWinners, FundingIsBacked, PrizeVerified, VaultIsBacked, FrameIsBacked
  <1>. QED
    BY <1>1, <1>2, <1>3, <1>4, <1>5, <1>6, <1>7, <1>8, <1>9 DEF Begin

\* Ending a call that set the status to one that needs no locked pool.
LEMMA UnfundedStatus ==
    ASSUME TypeOK, FundingIsBacked, NEW w \in Procs, NEW f, Go(w, f),
           event' \notin {"LIVE", "IN_PROGRESS"}, FrameIsBacked(f)',
           UNCHANGED <<vault, deposit, lockedBy, charged>>
    PROVE  FundingIsBacked'
  <1>1. \A g \in Frames : FrameIsBacked(g) => FrameIsBacked(g)'
    BY DEF FrameIsBacked
  <1>2. \A v \in Procs : FrameIsBacked(proc[v])'
    BY <1>1, FramesStayBacked
  <1>. QED
    BY <1>2 DEF FundingIsBacked, PrizeVerified, VaultIsBacked

\* A handler's next step keeps the funding backed.
LEMMA BackedContinue ==
    ASSUME TypeOK, FundingIsBacked, NEW w \in Procs, Continue(w)
    PROVE  FundingIsBacked'
  <1>. DEFINE At2(pc) == [proc[w] EXCEPT !.pc = pc]
  <1>0. /\ proc[w] \in Frames
        /\ FrameIsBacked(proc[w])
        /\ FrameIsBacked(Idle)'
        /\ \A pc \in ControlPoints \ {"chargeRead", "chargeTx", "refundRead", "refundWrite"} :
             FrameIsBacked(At2(pc))
    BY DEF TypeOK, FundingIsBacked, FrameIsBacked, Idle, Frames
  <1>. USE <1>0, FreshFrames DEF db, out, ControlPoints, Step, Done, At
  <1>1. CASE PublishWrite(w)
    BY <1>1, UnfundedStatus DEF PublishWrite
  <1>2. CASE CreateVault(w)
    <2>1. CASE vault = "none"
      <3>1. /\ \A g \in Frames : FrameIsBacked(g) => FrameIsBacked(g)'
            /\ \A f : f = At2("createDeposit") => FrameIsBacked(f)'
        BY <1>2, <2>1 DEF CreateVault, FrameIsBacked, Frames
      <3>2. \A v \in Procs : FrameIsBacked(proc[v])'
        BY <1>2, <2>1, <3>1, FramesStayBacked DEF CreateVault
      <3>. QED
        BY <1>2, <2>1, <3>2 DEF CreateVault, FundingIsBacked, PrizeVerified, VaultIsBacked
    <2>2. CASE vault # "none"
      BY <1>2, <2>2, ReadKeepsBacked DEF CreateVault
    <2>. QED
      BY <2>1, <2>2
  <1>3. CASE CreateDeposit(w)
    <2>1. \A g \in Frames : FrameIsBacked(g) => FrameIsBacked(g)'
      BY <1>3 DEF CreateDeposit, FrameIsBacked
    <2>2. \A v \in Procs : FrameIsBacked(proc[v])'
      BY <1>3, <2>1, FramesStayBacked DEF CreateDeposit
    <2>3. \A d \in Deposits : deposit'[d] = "SUCCEEDED" => deposit[d] = "SUCCEEDED"
      BY <1>3 DEF CreateDeposit, TypeOK
    <2>. QED
      BY <1>3, <2>2, <2>3
      DEF CreateDeposit, FundingIsBacked, PrizeVerified, VaultIsBacked
  <1>4. CASE ChargeRead(w)
    <2>1. PICK f \in Frames : /\ Go(w, f)
                              /\ f.pc = ChargeRoute(deposit[proc[w].deposit])
                              /\ f.deposit = proc[w].deposit
                              /\ f.vault = proc[w].vault
      BY <1>4, ChargeReads
    <2>2. FrameIsBacked(f)
      BY <1>4, <2>1 DEF ChargeRead, ChargeRoute, FrameIsBacked
    <2>. QED
      BY <1>4, <2>1, <2>2, ReadKeepsBacked DEF ChargeRead
  <1>5. CASE ChargeTx(w)
    <2>. DEFINE d == proc[w].deposit
    <2>1. d \in Deposits /\ d \in charged
      BY <1>5, GoType DEF ChargeTx, FrameIsBacked, DepositPoints
    <2>2. \A e \in Deposits : deposit'[e] = "SUCCEEDED" => e \in charged'
      BY <1>5, <2>1 DEF ChargeTx, TypeOK, FundingIsBacked, VaultIsBacked
    <2>3. CASE proc[w].covered /\ Lockable
      <3>1. \A v \in Procs : proc[v].vault # "LOCKED"
        BY <2>3 DEF Lockable, FundingIsBacked, FrameIsBacked
      <3>2. \A g \in Frames : FrameIsBacked(g) /\ g.vault # "LOCKED" => FrameIsBacked(g)'
        BY <1>5 DEF ChargeTx, FrameIsBacked
      <3>3. \A v \in Procs : proc'[v] = IF v = w THEN At2("markProcessed") ELSE proc[v]
        BY <1>5, <2>3 DEF ChargeTx, TypeOK, Go
      <3>4. \A f : f = At2("markProcessed") => FrameIsBacked(f)'
        BY <3>1 DEF FrameIsBacked, Frames
      <3>5. \A v \in Procs : FrameIsBacked(proc[v])'
        <4>1. TAKE v \in Procs
        <4>2. FrameIsBacked(proc[v]) /\ proc[v] \in Frames
          BY DEF FundingIsBacked, TypeOK
        <4>3. CASE v = w
          BY <3>3, <3>4, <4>3 DEF FrameIsBacked
        <4>4. CASE v # w
          BY <3>1, <3>2, <3>3, <4>2, <4>4 DEF FrameIsBacked
        <4>. QED
          BY <4>3, <4>4
      <3>6. lockedBy' = {d}
        BY <1>5, <2>3 DEF ChargeTx, Lockable, FundingIsBacked
      <3>. QED
        BY <1>5, <2>1, <2>2, <2>3, <3>5, <3>6
        DEF ChargeTx, FundingIsBacked, PrizeVerified, VaultIsBacked
    <2>4. CASE ~(proc[w].covered /\ Lockable)
      <3>1. /\ \A g \in Frames : FrameIsBacked(g) => FrameIsBacked(g)'
            /\ \A f : f = At2("overpaid") \/ f = At2("markProcessed") => FrameIsBacked(f)'
        BY <1>5, <2>4 DEF ChargeTx, FrameIsBacked, Frames
      <3>2. \A v \in Procs : FrameIsBacked(proc[v])'
        BY <1>5, <2>4, <3>1, FramesStayBacked DEF ChargeTx
      <3>. QED
        BY <1>5, <2>2, <2>4, <3>2
        DEF ChargeTx, FundingIsBacked, PrizeVerified, VaultIsBacked
    <2>. QED
      BY <2>3, <2>4
  <1>6. CASE Overpaid(w)
    BY <1>6, ReadKeepsBacked DEF Overpaid
  <1>7. CASE Orphan(w)
    BY <1>7, ReadKeepsBacked DEF Orphan
  <1>8. CASE MarkProcessed(w)
    BY <1>8, ReadKeepsBacked DEF MarkProcessed
  <1>9. CASE ExpireWrite(w)
    <2>1. \A g \in Frames : FrameIsBacked(g) => FrameIsBacked(g)'
      BY <1>9 DEF ExpireWrite, FrameIsBacked
    <2>2. \A v \in Procs : FrameIsBacked(proc[v])'
      BY <1>9, <2>1, FramesStayBacked DEF ExpireWrite
    <2>3. \A d \in Deposits : deposit'[d] = "SUCCEEDED" => deposit[d] = "SUCCEEDED"
      BY <1>9 DEF ExpireWrite, ExpiredStatus, TypeOK
    <2>. QED
      BY <1>9, <2>2, <2>3 DEF ExpireWrite, FundingIsBacked, PrizeVerified, VaultIsBacked
  <1>10. CASE OrganizerCancelTx(w)
    <2>1. CASE event \in OrganizerCancellable
      BY <1>10, <2>1, UnfundedStatus DEF OrganizerCancelTx
    <2>2. CASE event \notin OrganizerCancellable
      BY <1>10, <2>2, ReadKeepsBacked DEF OrganizerCancelTx
    <2>. QED
      BY <2>1, <2>2
  <1>11. CASE AdminCancelTx(w)
    <2>1. CASE event \in AdminCancellable /\ proc[w].vault = "LOCKED"
      <3>1. \A f : f = At2("refundRead") => FrameIsBacked(f)'
        BY <1>11, <2>1 DEF AdminCancelTx, FrameIsBacked, Frames
      <3>. QED
        BY <1>11, <2>1, <3>1, UnfundedStatus DEF AdminCancelTx
    <2>2. CASE event \in AdminCancellable /\ proc[w].vault # "LOCKED"
      BY <1>11, <2>2, UnfundedStatus DEF AdminCancelTx
    <2>3. CASE event \notin AdminCancellable
      BY <1>11, <2>3, ReadKeepsBacked DEF AdminCancelTx
    <2>. QED
      BY <2>1, <2>2, <2>3
  <1>12. CASE RefundRead(w)
    <2>1. FrameIsBacked(At2("refundWrite"))
      BY <1>12 DEF RefundRead, FrameIsBacked, Frames
    <2>. QED
      BY <1>12, <2>1, ReadKeepsBacked DEF RefundRead
  <1>13. CASE RefundWrite(w)
    <2>1. vault \in {"LOCKED", "REFUNDED"} /\ event \notin {"LIVE", "IN_PROGRESS"}
      BY <1>13 DEF RefundWrite, FrameIsBacked
    <2>2. \A g \in Frames : FrameIsBacked(g) => FrameIsBacked(g)'
      BY <1>13, <2>1 DEF RefundWrite, FrameIsBacked
    <2>3. \A v \in Procs : FrameIsBacked(proc[v])'
      BY <1>13, <2>2, FramesStayBacked DEF RefundWrite
    <2>. QED
      BY <1>13, <2>1, <2>3 DEF RefundWrite, FundingIsBacked, PrizeVerified, VaultIsBacked
  <1>14. CASE OpenJudgingTx(w)
    BY <1>14, UnfundedStatus DEF OpenJudgingTx
  <1>. QED
    BY <1>1, <1>2, <1>3, <1>4, <1>5, <1>6, <1>7, <1>8, <1>9, <1>10, <1>11, <1>12,
       <1>13, <1>14
    DEF Continue

\* The steps of Next that are not a handler's own.
LEMMA BackedOthers ==
    ASSUME TypeOK, FundingIsBacked
    PROVE  /\ \A w \in Procs : Crash(w) => FundingIsBacked'
           /\ \A d \in Deposits : PayerPays(d) => FundingIsBacked'
           /\ RaisePrizes => FundingIsBacked'
           /\ UNCHANGED vars => FundingIsBacked'
  <1>1. ASSUME NEW w \in Procs, Crash(w) PROVE FundingIsBacked'
    BY <1>1, FreshFrames, ReadKeepsBacked DEF Crash, Done, db, out
  <1>2. ASSUME NEW d \in Deposits, PayerPays(d) PROVE FundingIsBacked'
    BY <1>2
    DEF PayerPays, FundingIsBacked, PrizeVerified, VaultIsBacked, FrameIsBacked, db, out
  <1>3. RaisePrizes => FundingIsBacked'
    BY RaiseLeaves DEF FundingIsBacked, PrizeVerified, VaultIsBacked, FrameIsBacked
  <1>4. UNCHANGED vars => FundingIsBacked'
    BY DEF vars, FundingIsBacked, PrizeVerified, VaultIsBacked, FrameIsBacked
  <1>. QED
    BY <1>1, <1>2, <1>3, <1>4

\* The inductive invariant of EventFunding.
THEOREM FundingCorrect == Spec => []FundingIsBacked
  <1>1. TypeOK /\ FundingIsBacked /\ [Next]_vars => FundingIsBacked'
    BY BackedBegin, BackedContinue, BackedOthers DEF Next
  <1>. QED
    BY BackedInit, <1>1, TypeCorrect, PTL DEF Spec

\* "Prize Verified" is never shown on a hackathon without a locked pool.
THEOREM PrizeIsVerified == Spec => []PrizeVerified
  BY FundingCorrect, PTL DEF FundingIsBacked

\* The pool was locked by the captured charge of exactly one deposit.
THEOREM LockedVaultIsBacked == Spec => []VaultIsBacked
  BY FundingCorrect, PTL DEF FundingIsBacked

\* The vault column only moves along the edges of the contract's machine: a vault
\* is never locked again after its refund, nor refunded before it was locked.
THEOREM VaultContract == Spec => VaultFollowsContract
  <1>1. ASSUME TypeOK, FundingIsBacked, [Next]_vars
        PROVE  [vault' \in VaultEdges[vault]]_vault
    <2>1. ASSUME NEW w \in Procs, RefundWrite(w), vault' # vault PROVE vault = "LOCKED"
      BY <1>1, <2>1 DEF RefundWrite, FundingIsBacked, FrameIsBacked, At
    <2>2. ASSUME NEW w \in Procs, Begin(w) PROVE vault' = vault
      BY <2>2
      DEF Begin, PublishRead, InitiateRead, ReceiveCharge, ExpireRead,
          OrganizerCancelRead, AdminCancelRead, AdvanceStarted, OpenJudgingRead,
          AnnounceWinners, db
    <2>3. ASSUME NEW w \in Procs, Continue(w), vault' # vault
          PROVE  \/ vault = "none" /\ vault' = "AWAITING"
                 \/ vault = "AWAITING" /\ vault' = "LOCKED"
                 \/ vault = "LOCKED" /\ vault' = "REFUNDED"
      BY <2>1, <2>3
      DEF Continue, PublishWrite, CreateVault, CreateDeposit, ChargeRead, ChargeTx,
          Lockable, Overpaid, Orphan, MarkProcessed, ExpireWrite, OrganizerCancelTx,
          AdminCancelTx, RefundRead, RefundWrite, OpenJudgingTx, db
    <2>4. ASSUME NEW w \in Procs, Crash(w) PROVE vault' = vault
      BY <2>4 DEF Crash, db
    <2>5. ASSUME NEW d \in Deposits, PayerPays(d) PROVE vault' = vault
      BY <2>5 DEF PayerPays, db
    <2>6. RaisePrizes \/ UNCHANGED vars => vault' = vault
      BY RaiseLeaves DEF vars
    <2>. QED
      BY <1>1, <2>2, <2>3, <2>4, <2>5, <2>6 DEF Next, VaultEdges
  <1>. QED
    BY <1>1, TypeCorrect, FundingCorrect, PTL DEF Spec, VaultFollowsContract

\* What happens to the money before the announcement is what Money allows: a vault is
\* opened, locked and refunded once each and in this order.
THEOREM FundingMovesMoney == Spec => MoneyMoves
  <1>1. Init => Bank!Init
    BY DEF Init, Bank!Init, Facts
  <1>2. ASSUME TypeOK, [vault' \in VaultEdges[vault]]_vault
        PROVE  [Bank!Next]_Facts
    <2>1. CASE vault' = vault
      BY <2>1 DEF Facts
    <2>2. CASE vault = "none" /\ vault' = "AWAITING"
      BY <2>2 DEF Facts, Bank!Next, Bank!Open
    <2>3. CASE vault = "AWAITING" /\ vault' = "LOCKED"
      BY <2>3 DEF Facts, Bank!Next, Bank!Lock
    <2>4. CASE vault = "LOCKED" /\ vault' = "REFUNDED"
      BY <2>4 DEF Facts, Bank!Next, Bank!Refund
    <2>. QED
      BY <1>2, <2>1, <2>2, <2>3, <2>4 DEF TypeOK, VaultChainState, VaultEdges
  <1>. QED
    BY <1>1, <1>2, TypeCorrect, VaultContract, PTL
    DEF MoneyMoves, Bank!Spec, Bank!Moves, Spec, VaultFollowsContract

-----------------------------------------------------------------------------
(* One handler at a time *)

\* A single handler runs, and the provider answers when it is asked about a
\* charge: where two handlers overlap, judging opened on a stale status and an
\* expiry of a deposit that just succeeded break what follows.
Orderly == (\A v, w \in Procs : v = w) /\ "lookupError" \notin Faults

\* What the handler has read is still so.
FrameIsFresh(f) ==
    /\ f.pc = "overpaid" => deposit[f.deposit] = "SUCCEEDED"
    /\ f.pc = "markProcessed" => deposit[f.deposit] = "SUCCEEDED" \/ f.deposit \in paged
    /\ f.pc = "expire" => \A d \in f.stale : deposit[d] = "INITIATED"
    /\ f.pc = "judging" => vault = "LOCKED"
    /\ f.pc \in {"refundRead", "refundWrite"} => event = "CANCELLED"

OrderlyInv ==
    /\ event \in {"LIVE", "IN_PROGRESS", "JUDGING", "WINNERS_ANNOUNCED"} => vault = "LOCKED"
    /\ ChargeIsPaged
    /\ \A w \in Procs : FrameIsFresh(proc[w])

\* A lone handler's new frame is the only one to look at.
LEMMA LoneFrame ==
    ASSUME TypeOK, Orderly, NEW w \in Procs, NEW f, Go(w, f), FrameIsFresh(f)'
    PROVE  \A v \in Procs : FrameIsFresh(proc[v])'
  <1>1. \A v \in Procs : v = w /\ proc'[v] = f
    BY DEF Orderly, Go, TypeOK
  <1>. QED
    BY <1>1 DEF FrameIsFresh

\* An idle handler has read nothing.
LEMMA IdleIsFresh == FrameIsFresh(Idle) /\ FrameIsFresh(Idle)'
  BY DEF FrameIsFresh, Idle

\* A handler's start keeps the order.
LEMMA OrderlyBegin ==
    ASSUME TypeOK, Orderly, OrderlyInv, NEW w \in Procs, Begin(w)
    PROVE  OrderlyInv'
  <1>. USE DEF db, out, OrderlyInv
  <1>1. ASSUME NEW f, Go(w, f), FrameIsFresh(f), UNCHANGED <<event, vault, deposit, paged>>,
               \A d \in Deposits : hook'[d] = "processed" => hook[d] = "processed"
        PROVE  OrderlyInv'
    <2>1. FrameIsFresh(f)'
      BY <1>1 DEF FrameIsFresh
    <2>. QED
      BY <1>1, <2>1, LoneFrame DEF ChargeIsPaged
  <1>2. \A pc \in {"publish", "createVault", "createDeposit", "chargeRead", "organizerCancel", "adminCancel"} :
          /\ FrameIsFresh(Start(pc))
          /\ \A d : FrameIsFresh([Start(pc) EXCEPT !.deposit = d])
          /\ \A v : FrameIsFresh([Start(pc) EXCEPT !.vault = v])
    BY DEF FrameIsFresh, Start, Idle
  <1>3. CASE PublishRead(w)
    BY <1>1, <1>2, <1>3 DEF PublishRead
  <1>4. ASSUME NEW d \in Deposits, InitiateRead(w, d) PROVE OrderlyInv'
    BY <1>1, <1>2, <1>4 DEF InitiateRead
  <1>5. ASSUME NEW d \in Deposits, ReceiveCharge(w, d) PROVE OrderlyInv'
    <2>1. \A e \in Deposits : hook'[e] = "processed" => hook[e] = "processed"
      BY <1>5 DEF ReceiveCharge, TypeOK
    <2>. QED
      BY <1>1, <1>2, <1>5, <2>1 DEF ReceiveCharge
  <1>6. CASE ExpireRead(w)
    <2>1. PICK old \in SUBSET {d \in Deposits : Expirable(d)} :
            Go(w, [Start("expire") EXCEPT !.stale = old])
      BY <1>6 DEF ExpireRead
    <2>2. FrameIsFresh([Start("expire") EXCEPT !.stale = old])
      BY <2>1 DEF FrameIsFresh, Start, Idle, Expirable
    <2>. QED
      BY <1>1, <1>6, <2>1, <2>2 DEF ExpireRead
  <1>7. CASE OrganizerCancelRead(w) \/ AdminCancelRead(w)
    BY <1>1, <1>2, <1>7 DEF OrganizerCancelRead, AdminCancelRead
  <1>8. CASE AdvanceStarted(w)
    BY <1>8 DEF AdvanceStarted, Startable, ChargeIsPaged, FrameIsFresh, Free, At, Orderly
  <1>9. CASE OpenJudgingRead(w)
    <2>1. FrameIsFresh(Start("judging"))
      BY <1>9 DEF OpenJudgingRead, FrameIsFresh, Start, Idle
    <2>. QED
      BY <1>1, <1>9, <2>1 DEF OpenJudgingRead
  <1>10. CASE AnnounceWinners(w)
    BY <1>10 DEF AnnounceWinners, Announceable, ChargeIsPaged, FrameIsFresh, Free, At, Orderly
  <1>. QED
    BY <1>3, <1>4, <1>5, <1>6, <1>7, <1>8, <1>9, <1>10 DEF Begin

\* A handler's next step keeps the order.
LEMMA OrderlyContinue ==
    ASSUME TypeOK, Orderly, OrderlyInv, NEW w \in Procs, Continue(w)
    PROVE  OrderlyInv'
  <1>. DEFINE Next2(pc) == [proc[w] EXCEPT !.pc = pc]
  <1>0. /\ proc[w] \in Frames /\ FrameIsFresh(proc[w])
        /\ \A pc : Next2(pc).pc = pc /\ Next2(pc).deposit = proc[w].deposit
    BY DEF OrderlyInv, TypeOK, Frames
  <1>. USE <1>0, IdleIsFresh, LoneFrame DEF OrderlyInv, db, out, Step, Done, At
  <1>1. CASE PublishWrite(w)
    BY <1>1 DEF PublishWrite, ChargeIsPaged
  <1>2. CASE CreateVault(w)
    <2>1. \A f : f = Next2("createDeposit") => FrameIsFresh(f)'
      BY DEF FrameIsFresh
    <2>. QED
      BY <1>2, <2>1 DEF CreateVault, ChargeIsPaged
  <1>3. CASE CreateDeposit(w)
    <2>1. \A d \in Deposits : deposit[d] = "SUCCEEDED" => deposit'[d] = "SUCCEEDED"
      BY <1>3 DEF CreateDeposit, TypeOK
    <2>. QED
      BY <1>3, <2>1 DEF CreateDeposit, ChargeIsPaged
  <1>4. CASE ChargeRead(w)
    <2>1. PICK f \in Frames : /\ Go(w, f)
                              /\ f.pc = ChargeRoute(deposit[proc[w].deposit])
                              /\ f.deposit = proc[w].deposit
      BY <1>4, ChargeReads
    <2>2. FrameIsFresh(f)'
      BY <1>4, <2>1 DEF ChargeRead, ChargeRoute, FrameIsFresh
    <2>. QED
      BY <1>4, <2>1, <2>2 DEF ChargeRead, ChargeIsPaged
  <1>5. CASE ChargeTx(w)
    <2>1. proc[w].deposit \in Deposits
      BY <1>5, GoType DEF ChargeTx, DepositPoints
    <2>2. /\ deposit'[proc[w].deposit] = "SUCCEEDED"
          /\ \A d \in Deposits : deposit[d] = "SUCCEEDED" => deposit'[d] = "SUCCEEDED"
      BY <1>5, <2>1 DEF ChargeTx, TypeOK
    <2>3. /\ \A f : f = Next2("markProcessed") => FrameIsFresh(f)'
          /\ \A f : f = Next2("overpaid") => FrameIsFresh(f)'
      <3>1. \A f : f.pc \in {"markProcessed", "overpaid"} /\ f.deposit = proc[w].deposit
                  => FrameIsFresh(f)'
        BY <2>2 DEF FrameIsFresh
      <3>2. \A pc \in {"markProcessed", "overpaid"} :
              Next2(pc).pc \in {"markProcessed", "overpaid"} /\ Next2(pc).deposit = proc[w].deposit
        BY <1>0
      <3> HIDE DEF Next2
      <3>. QED
        BY <3>1, <3>2
    <2>4. CASE proc[w].covered /\ Lockable
      BY <1>5, <2>2, <2>3, <2>4 DEF ChargeTx, ChargeIsPaged
    <2>5. CASE ~(proc[w].covered /\ Lockable)
      BY <1>5, <2>2, <2>3, <2>5 DEF ChargeTx, ChargeIsPaged
    <2>. QED
      BY <2>4, <2>5
  <1>6. CASE Overpaid(w) \/ Orphan(w)
    <2>1. paged' = paged \cup {proc[w].deposit}
      BY <1>6 DEF Overpaid, Orphan, Orderly
    <2>2. \A f : f = Next2("markProcessed") => FrameIsFresh(f)'
      BY <2>1 DEF FrameIsFresh
    <2>. QED
      BY <1>6, <2>1, <2>2 DEF Overpaid, Orphan, ChargeIsPaged
  <1>8. CASE MarkProcessed(w)
    <2>1. \A d \in Deposits : hook'[d] = "processed" => hook[d] = "processed" \/ d = proc[w].deposit
      BY <1>8 DEF MarkProcessed, TypeOK
    <2>. QED
      BY <1>8, <2>1 DEF MarkProcessed, ChargeIsPaged, FrameIsFresh
  <1>9. CASE ExpireWrite(w)
    <2>1. \A d \in Deposits : deposit[d] = "SUCCEEDED" => deposit'[d] = "SUCCEEDED"
      BY <1>9 DEF ExpireWrite, FrameIsFresh
    <2>. QED
      BY <1>9, <2>1 DEF ExpireWrite, ChargeIsPaged
  <1>10. CASE OrganizerCancelTx(w)
    BY <1>10 DEF OrganizerCancelTx, ChargeIsPaged
  <1>11. CASE AdminCancelTx(w)
    <2>1. \A f : f = Next2("refundRead") /\ event' = "CANCELLED" => FrameIsFresh(f)'
      BY DEF FrameIsFresh
    <2>. QED
      BY <1>11, <2>1 DEF AdminCancelTx, ChargeIsPaged
  <1>12. CASE RefundRead(w)
    <2>1. \A f : f = Next2("refundWrite") => FrameIsFresh(f)'
      BY <1>12 DEF RefundRead, FrameIsFresh
    <2>. QED
      BY <1>12, <2>1 DEF RefundRead, ChargeIsPaged
  <1>13. CASE RefundWrite(w)
    BY <1>13 DEF RefundWrite, ChargeIsPaged, FrameIsFresh
  <1>14. CASE OpenJudgingTx(w)
    BY <1>14 DEF OpenJudgingTx, ChargeIsPaged, FrameIsFresh
  <1>. QED
    BY <1>1, <1>2, <1>3, <1>4, <1>5, <1>6, <1>8, <1>9, <1>10, <1>11, <1>12, <1>13, <1>14
    DEF Continue

\* When handlers run one at a time, what they read is still so when they write.
LEMMA OrderlyCorrect == Orderly => (Spec => []OrderlyInv)
  <1>. SUFFICES ASSUME Orderly PROVE Spec => []OrderlyInv
    OBVIOUS
  <1>1. Init => OrderlyInv
    BY DEF Init, OrderlyInv, ChargeIsPaged, FrameIsFresh, Idle
  <1>2. ASSUME TypeOK, OrderlyInv, NEW w \in Procs, Crash(w) PROVE OrderlyInv'
    BY <1>2, IdleIsFresh, LoneFrame DEF Crash, Done, OrderlyInv, ChargeIsPaged, db, out
  <1>3. ASSUME TypeOK, OrderlyInv, UNCHANGED <<event, vault, deposit, out, proc>>
        PROVE  OrderlyInv'
    BY <1>3 DEF OrderlyInv, ChargeIsPaged, FrameIsFresh, out
  <1>4. TypeOK /\ OrderlyInv /\ [Next]_vars => OrderlyInv'
    BY <1>2, <1>3, RaiseLeaves, OrderlyBegin, OrderlyContinue DEF Next, PayerPays, vars, db, out
  <1>. QED
    BY <1>1, <1>4, TypeCorrect, PTL DEF Spec

-----------------------------------------------------------------------------
(* Any number of handlers, without the admin's cancellation *)

\* No refund is under way, and judging is opened on a locked pool.
PoolIsKept(f) ==
    /\ f.pc \notin {"adminCancel", "refundRead", "refundWrite"}
    /\ f.pc = "judging" => vault = "LOCKED"

KeptInv ==
    /\ event \in {"LIVE", "IN_PROGRESS", "JUDGING", "WINNERS_ANNOUNCED"} => vault = "LOCKED"
    /\ \A w \in Procs : PoolIsKept(proc[w])

\* Where the other handlers' frames are untouched and the vault stays locked, only
\* the moving handler's new frame is to be looked at.
LEMMA KeptFrames ==
    ASSUME TypeOK, KeptInv, NEW w \in Procs, NEW f, Go(w, f), PoolIsKept(f)',
           vault = "LOCKED" => vault' = "LOCKED"
    PROVE  \A v \in Procs : PoolIsKept(proc[v])'
  <1>1. \A v \in Procs : proc'[v] = IF v = w THEN f ELSE proc[v]
    BY DEF Go, TypeOK
  <1>. QED
    BY <1>1 DEF KeptInv, PoolIsKept

\* A handler's start keeps the pool.
LEMMA KeptBegin ==
    ASSUME TypeOK, KeptInv, "adminCancel" \notin Callers, NEW w \in Procs, Begin(w)
    PROVE  KeptInv'
  <1>. USE DEF db
  <1>1. \A pc \in ControlPoints :
          /\ Start(pc).pc = pc
          /\ \A d : [Start(pc) EXCEPT !.deposit = d].pc = pc
          /\ \A s : [Start(pc) EXCEPT !.stale = s].pc = pc
    BY DEF Start, Idle
  <1>2. ASSUME NEW f, Go(w, f), UNCHANGED <<event, vault>>,
               f.pc \notin {"adminCancel", "refundRead", "refundWrite"},
               f.pc = "judging" => event \in {"LIVE", "IN_PROGRESS"}
        PROVE  KeptInv'
    <2>1. PoolIsKept(f)'
      BY <1>2 DEF PoolIsKept, KeptInv
    <2>. QED
      BY <1>2, <2>1, KeptFrames DEF KeptInv
  <1>. USE <1>1 DEF ControlPoints
  <1>3. CASE PublishRead(w)
    BY <1>2, <1>3 DEF PublishRead
  <1>4. ASSUME NEW d \in Deposits, InitiateRead(w, d) PROVE KeptInv'
    BY <1>2, <1>4 DEF InitiateRead
  <1>5. ASSUME NEW d \in Deposits, ReceiveCharge(w, d) PROVE KeptInv'
    BY <1>2, <1>5 DEF ReceiveCharge
  <1>6. CASE ExpireRead(w)
    BY <1>2, <1>6 DEF ExpireRead
  <1>7. CASE OrganizerCancelRead(w)
    BY <1>2, <1>7 DEF OrganizerCancelRead
  <1>8. CASE AdminCancelRead(w)
    BY <1>8 DEF AdminCancelRead, Free
  <1>9. CASE OpenJudgingRead(w)
    BY <1>2, <1>9 DEF OpenJudgingRead
  <1>10. CASE AdvanceStarted(w) \/ AnnounceWinners(w)
    BY <1>10 DEF AdvanceStarted, AnnounceWinners, Startable, Announceable, KeptInv, PoolIsKept
  <1>. QED
    BY <1>3, <1>4, <1>5, <1>6, <1>7, <1>8, <1>9, <1>10 DEF Begin

\* A handler's next step, and its death, keep the pool.
LEMMA KeptContinue ==
    ASSUME TypeOK, KeptInv, NEW w \in Procs, Continue(w) \/ Crash(w)
    PROVE  KeptInv'
  <1>. DEFINE Next2(pc) == [proc[w] EXCEPT !.pc = pc]
  <1>0. /\ \A pc : Next2(pc).pc = pc
        /\ PoolIsKept(proc[w])
        /\ Idle.pc = "idle"
    BY DEF TypeOK, Frames, KeptInv, Idle
  <1>1. ASSUME NEW f, Go(w, f), vault = "LOCKED" => vault' = "LOCKED",
               f.pc \notin {"adminCancel", "refundRead", "refundWrite", "judging"},
               event' \in {"LIVE", "IN_PROGRESS", "JUDGING", "WINNERS_ANNOUNCED"}
                 => vault' = "LOCKED"
        PROVE  KeptInv'
    <2>1. PoolIsKept(f)'
      BY <1>1 DEF PoolIsKept
    <2>. QED
      BY <1>1, <2>1, KeptFrames DEF KeptInv
  <1>2. /\ ~(AdminCancelTx(w) \/ RefundRead(w) \/ RefundWrite(w))
        /\ OpenJudgingTx(w) => vault = "LOCKED"
    BY <1>0 DEF PoolIsKept, AdminCancelTx, RefundRead, RefundWrite, OpenJudgingTx, At
  <1>3. event \in {"LIVE", "IN_PROGRESS", "JUDGING", "WINNERS_ANNOUNCED"} => vault = "LOCKED"
    BY DEF KeptInv
  <1>. USE <1>0, <1>1, <1>2, <1>3 DEF db, out, Step, Done
  <1>. HIDE DEF Next2
  <1>4. CASE PublishWrite(w) \/ OrganizerCancelTx(w) \/ OpenJudgingTx(w) \/ Crash(w)
    BY <1>4 DEF PublishWrite, OrganizerCancelTx, OpenJudgingTx, Crash
  <1>5. CASE CreateVault(w) \/ CreateDeposit(w) \/ ExpireWrite(w) \/ MarkProcessed(w)
    BY <1>5 DEF CreateVault, CreateDeposit, ExpireWrite, MarkProcessed, Next2
  <1>6. CASE Overpaid(w) \/ Orphan(w)
    BY <1>6 DEF Overpaid, Orphan, Next2
  <1>8. CASE ChargeRead(w)
    BY <1>8, ChargeReads DEF ChargeRead, ChargeRoute
  <1>7. CASE ChargeTx(w)
    BY <1>7 DEF ChargeTx, Next2
  <1>. QED
    BY <1>4, <1>5, <1>6, <1>7, <1>8 DEF Continue

\* Where no admin cancels, nothing takes the pool away again.
LEMMA KeptCorrect == "adminCancel" \notin Callers => (Spec => []KeptInv)
  <1>. SUFFICES ASSUME "adminCancel" \notin Callers PROVE Spec => []KeptInv
    OBVIOUS
  <1>1. Init => KeptInv
    BY DEF Init, KeptInv, PoolIsKept, Idle
  <1>2. ASSUME KeptInv, UNCHANGED <<event, vault, proc>> PROVE KeptInv'
    BY <1>2 DEF KeptInv, PoolIsKept
  <1>3. TypeOK /\ KeptInv /\ [Next]_vars => KeptInv'
    BY <1>2, RaiseLeaves, KeptBegin, KeptContinue DEF Next, PayerPays, vars, db
  <1>. QED
    BY <1>1, <1>3, TypeCorrect, PTL DEF Spec

\* Winners are never announced on a pool that was given back, when no two handlers
\* overlap, or when no admin cancels (announceWinners makes no check of the vault).
THEOREM AnnouncementIsFunded ==
    Orderly \/ "adminCancel" \notin Callers => (Spec => []AnnouncedIsFunded)
  <1>1. OrderlyInv => AnnouncedIsFunded
    BY DEF OrderlyInv, AnnouncedIsFunded
  <1>2. KeptInv => AnnouncedIsFunded
    BY DEF KeptInv, AnnouncedIsFunded
  <1>3. CASE Orderly
    BY <1>1, <1>3, OrderlyCorrect, PTL
  <1>4. CASE "adminCancel" \notin Callers
    BY <1>2, <1>4, KeptCorrect, PTL
  <1>. QED
    BY <1>3, <1>4

-----------------------------------------------------------------------------
(* Any number of handlers, without the expiry cron *)

\* A charge under way finds its deposit open, or credited already.
CreditIsOpen(f) ==
    /\ f.pc \notin {"expire", "orphan"}
    /\ f.pc \in {"chargeRead", "chargeTx"} => deposit[f.deposit] \in {"INITIATED", "SUCCEEDED"}
    /\ f.pc \in {"overpaid", "markProcessed"} => deposit[f.deposit] = "SUCCEEDED"

OpenInv ==
    /\ \A d \in Deposits : deposit[d] # "FAILED"
    /\ \A d \in charged : deposit[d] # "none"
    /\ \A d \in Deposits : hook[d] = "processed" => deposit[d] = "SUCCEEDED"
    /\ \A w \in Procs : CreditIsOpen(proc[w])

\* What a step without the expiry may do to the deposits.
DepositsGrow ==
    \A d \in Deposits :
       /\ deposit[d] = "SUCCEEDED" => deposit'[d] = "SUCCEEDED"
       /\ deposit[d] = "INITIATED" => deposit'[d] \in {"INITIATED", "SUCCEEDED"}
       /\ deposit[d] = "none" => deposit'[d] \in {"none", "INITIATED", "SUCCEEDED"}

\* Where deposits only grow, the frames of the handlers that do not move stay good.
LEMMA OpenFrames ==
    ASSUME TypeOK, OpenInv, NEW w \in Procs, NEW f, Go(w, f), CreditIsOpen(f)', DepositsGrow
    PROVE  \A v \in Procs : CreditIsOpen(proc[v])'
  <1>1. \A v \in Procs : proc'[v] = IF v = w THEN f ELSE proc[v]
    BY DEF Go, TypeOK
  <1>2. \A v \in Procs : CreditIsOpen(proc[v]) /\ proc[v] \in Frames
    BY DEF OpenInv, TypeOK
  <1>3. \A g \in Frames : CreditIsOpen(g) => CreditIsOpen(g)'
    <2>1. TAKE g \in Frames
    <2>2. g.pc \in {"chargeRead", "chargeTx", "overpaid", "markProcessed"} => g.deposit \in Deposits
      BY DEF Frames, DepositPoints
    <2>. QED
      BY <2>2 DEF CreditIsOpen, DepositsGrow
  <1>. QED
    BY <1>1, <1>2, <1>3 DEF CreditIsOpen

\* A handler's start keeps the charges creditable.
LEMMA OpenBegin ==
    ASSUME TypeOK, OpenInv, "expire" \notin Callers, NEW w \in Procs, Begin(w)
    PROVE  OpenInv'
  <1>. USE DEF db, out
  <1>1. \A pc \in ControlPoints :
          /\ Start(pc).pc = pc
          /\ \A d : /\ [Start(pc) EXCEPT !.deposit = d].pc = pc
                    /\ [Start(pc) EXCEPT !.deposit = d].deposit = d
          /\ \A v : [Start(pc) EXCEPT !.vault = v].pc = pc
    BY DEF Start, Idle
  <1>2. ASSUME NEW f, Go(w, f), UNCHANGED <<deposit, charged>>,
               \A d \in Deposits : hook'[d] = "processed" => hook[d] = "processed",
               CreditIsOpen(f)
        PROVE  OpenInv'
    <2>1. CreditIsOpen(f)' /\ DepositsGrow
      BY <1>2 DEF CreditIsOpen, DepositsGrow, TypeOK, DepositStatus
    <2>. QED
      BY <1>2, <2>1, OpenFrames DEF OpenInv
  <1>. USE <1>1, <1>2 DEF ControlPoints, CreditIsOpen
  <1>3. CASE PublishRead(w)
    BY <1>3 DEF PublishRead
  <1>4. ASSUME NEW d \in Deposits, InitiateRead(w, d) PROVE OpenInv'
    BY <1>4 DEF InitiateRead
  <1>5. ASSUME NEW d \in Deposits, ReceiveCharge(w, d) PROVE OpenInv'
    <2>1. \A e \in Deposits : hook'[e] = "processed" => hook[e] = "processed"
      BY <1>5 DEF ReceiveCharge, TypeOK
    <2>2. deposit[d] \in {"INITIATED", "SUCCEEDED"}
      BY <1>5 DEF ReceiveCharge, OpenInv, TypeOK, DepositStatus
    <2>3. CreditIsOpen([Start("chargeRead") EXCEPT !.deposit = d])
      BY <2>2
    <2>. HIDE DEF CreditIsOpen
    <2>. QED
      BY <1>5, <2>1, <2>3 DEF ReceiveCharge
  <1>6. CASE ExpireRead(w)
    BY <1>6 DEF ExpireRead, Free
  <1>7. CASE OrganizerCancelRead(w)
    BY <1>7 DEF OrganizerCancelRead
  <1>8. CASE AdminCancelRead(w)
    BY <1>8 DEF AdminCancelRead
  <1>9. CASE OpenJudgingRead(w)
    BY <1>9 DEF OpenJudgingRead
  <1>10. CASE AdvanceStarted(w) \/ AnnounceWinners(w)
    BY <1>10 DEF AdvanceStarted, AnnounceWinners, OpenInv
  <1>. QED
    BY <1>3, <1>4, <1>5, <1>6, <1>7, <1>8, <1>9, <1>10 DEF Begin

\* A handler's next step, and its death, keep the charges creditable, and a credit.
LEMMA OpenContinue ==
    ASSUME TypeOK, OpenInv, NEW w \in Procs, Continue(w) \/ Crash(w)
    PROVE  OpenInv' /\ DepositsGrow
  <1>. DEFINE Next2(pc) == [proc[w] EXCEPT !.pc = pc]
  <1>0. /\ \A pc : Next2(pc).pc = pc /\ Next2(pc).deposit = proc[w].deposit
        /\ CreditIsOpen(proc[w]) /\ proc[w] \in Frames
        /\ Idle.pc = "idle"
    BY DEF TypeOK, Frames, OpenInv, Idle
  <1>1. ASSUME DepositsGrow, UNCHANGED charged, NEW f, Go(w, f), CreditIsOpen(f)',
               \A d \in Deposits : hook'[d] = "processed" =>
                  hook[d] = "processed" \/ deposit'[d] = "SUCCEEDED"
        PROVE  OpenInv' /\ DepositsGrow
    <2>1. \A v \in Procs : CreditIsOpen(proc[v])'
      BY <1>1, OpenFrames
    <2>2. \A d \in Deposits : deposit'[d] # "FAILED" /\ (d \in charged => deposit'[d] # "none")
      BY <1>1 DEF OpenInv, DepositsGrow, TypeOK, DepositStatus
    <2>3. \A d \in Deposits : hook'[d] = "processed" => deposit'[d] = "SUCCEEDED"
      BY <1>1 DEF OpenInv, DepositsGrow
    <2>. QED
      BY <1>1, <2>1, <2>2, <2>3 DEF OpenInv, TypeOK
  <1>2. UNCHANGED deposit => DepositsGrow
    BY DEF DepositsGrow, TypeOK, DepositStatus
  <1>3. ~(ExpireWrite(w) \/ Orphan(w))
    BY <1>0 DEF CreditIsOpen, ExpireWrite, Orphan, At
  <1>4. \A f : f.pc \notin {"expire", "orphan", "chargeRead", "chargeTx", "overpaid", "markProcessed"}
               => CreditIsOpen(f)'
    BY DEF CreditIsOpen
  <1>. USE <1>0, <1>1, <1>2, <1>4 DEF db, out, Step, Done
  <1>. HIDE DEF Next2
  <1>5. CASE PublishWrite(w) \/ OrganizerCancelTx(w) \/ OpenJudgingTx(w) \/ Crash(w) \/ CreateVault(w)
    BY <1>5 DEF PublishWrite, OrganizerCancelTx, OpenJudgingTx, Crash, CreateVault, Next2
  <1>6. CASE AdminCancelTx(w) \/ RefundRead(w) \/ RefundWrite(w)
    BY <1>6 DEF AdminCancelTx, RefundRead, RefundWrite, Next2
  <1>7. CASE CreateDeposit(w)
    <2>1. DepositsGrow
      BY <1>7 DEF CreateDeposit, DepositsGrow, TypeOK, DepositStatus
    <2>. QED
      BY <1>7, <2>1 DEF CreateDeposit
  <1>8. CASE ChargeRead(w)
    <2>1. \A f : /\ f.pc = ChargeRoute(deposit[proc[w].deposit])
                 /\ f.deposit = proc[w].deposit
                 => CreditIsOpen(f)'
      BY <1>8 DEF ChargeRead, ChargeRoute, CreditIsOpen, At
    <2>. QED
      BY <1>8, <2>1, ChargeReads DEF ChargeRead
  <1>9. CASE ChargeTx(w)
    <2>1. proc[w].deposit \in Deposits
      BY <1>9 DEF ChargeTx, Frames, DepositPoints, At
    <2>2. deposit'[proc[w].deposit] = "SUCCEEDED" /\ DepositsGrow
      BY <1>9, <2>1 DEF ChargeTx, TypeOK, DepositsGrow, DepositStatus
    <2>3. \A f : f.pc \in {"overpaid", "markProcessed"} /\ f.deposit = proc[w].deposit
                 => CreditIsOpen(f)'
      BY <2>2 DEF CreditIsOpen
    <2>. QED
      BY <1>9, <2>2, <2>3 DEF ChargeTx, Next2
  <1>10. CASE Overpaid(w)
    <2>1. \A f : f.pc = "markProcessed" /\ f.deposit = proc[w].deposit => CreditIsOpen(f)'
      BY <1>10 DEF Overpaid, CreditIsOpen, At
    <2>. QED
      BY <1>10, <2>1 DEF Overpaid, Next2
  <1>11. CASE MarkProcessed(w)
    <2>1. \A d \in Deposits : hook'[d] = "processed" => hook[d] = "processed" \/ deposit'[d] = "SUCCEEDED"
      BY <1>11 DEF MarkProcessed, TypeOK, CreditIsOpen, At
    <2>. QED
      BY <1>11, <2>1 DEF MarkProcessed
  <1>. QED
    BY <1>3, <1>5, <1>6, <1>7, <1>8, <1>9, <1>10, <1>11 DEF Continue

\* What a step does to the invariant and to the deposits, the payer's included.
LEMMA OpenNext ==
    ASSUME TypeOK, OpenInv, "expire" \notin Callers, [Next]_vars
    PROVE  OpenInv' /\ DepositsGrow
  <1>1. UNCHANGED deposit => DepositsGrow
    BY DEF DepositsGrow, TypeOK, DepositStatus
  <1>2. ASSUME NEW w \in Procs, Begin(w) PROVE OpenInv' /\ DepositsGrow
    <2>1. UNCHANGED deposit
      BY <1>2
      DEF Begin, PublishRead, InitiateRead, ReceiveCharge, ExpireRead, OrganizerCancelRead,
          AdminCancelRead, AdvanceStarted, OpenJudgingRead, AnnounceWinners, db
    <2>. QED
      BY <1>1, <1>2, <2>1, OpenBegin
  <1>3. ASSUME NEW d \in Deposits, PayerPays(d) PROVE OpenInv' /\ DepositsGrow
    BY <1>1, <1>3 DEF PayerPays, OpenInv, CreditIsOpen, db, out
  <1>4. CASE RaisePrizes \/ UNCHANGED vars
    BY <1>1, <1>4, RaiseLeaves DEF vars, OpenInv, CreditIsOpen
  <1>. QED
    BY <1>2, <1>3, <1>4, OpenContinue DEF Next

\* Where no deposit expires, a captured charge is credited when it is processed.
LEMMA OpenCorrect == "expire" \notin Callers => (Spec => []OpenInv)
  <1>. SUFFICES ASSUME "expire" \notin Callers PROVE Spec => []OpenInv
    OBVIOUS
  <1>1. Init => OpenInv
    BY DEF Init, OpenInv, CreditIsOpen, Idle
  <1>2. TypeOK /\ OpenInv /\ [Next]_vars => OpenInv'
    BY OpenNext
  <1>. QED
    BY <1>1, <1>2, TypeCorrect, PTL DEF Spec

\* A processed charge is credited to its deposit or paged, whatever dies on the way:
\* when no two handlers overlap and the provider answers, or when no deposit expires.
THEOREM ProcessedIsPaged ==
    Orderly \/ "expire" \notin Callers => (Spec => []ChargeIsPaged)
  <1>1. OrderlyInv => ChargeIsPaged
    BY DEF OrderlyInv
  <1>2. OpenInv => ChargeIsPaged
    BY DEF OpenInv, ChargeIsPaged
  <1>3. CASE Orderly
    BY <1>1, <1>3, OrderlyCorrect, PTL
  <1>4. CASE "expire" \notin Callers
    BY <1>2, <1>4, OpenCorrect, PTL
  <1>. QED
    BY <1>3, <1>4

-----------------------------------------------------------------------------
(* The action properties of a lone handler *)

\* One handler at a time; what the provider answers does not matter here.
Alone == \A v, w \in Procs : v = w

\* What the expiry cron and the organizer's cancellation have read is still so.
ReadIsFresh(f) ==
    /\ f.pc = "expire" => \A d \in f.stale : deposit[d] = "INITIATED"
    /\ f.pc = "organizerCancel" => vault = "none"

LoneInv == \A w \in Procs : ReadIsFresh(proc[w])

\* A lone handler's frame is the only one to look at.
LEMMA LoneRead ==
    ASSUME TypeOK, Alone, NEW w \in Procs, NEW f, Go(w, f),
           f.pc \notin {"expire", "organizerCancel"}
    PROVE  LoneInv'
  <1>1. \A v \in Procs : proc'[v] = f
    BY DEF Alone, Go, TypeOK
  <1>. QED
    BY <1>1 DEF LoneInv, ReadIsFresh

\* A handler's start keeps readings fresh.
LEMMA LoneBegin ==
    ASSUME TypeOK, Alone, LoneInv, NEW w \in Procs, Begin(w)
    PROVE  LoneInv'
  <1>. USE DEF db
  <1>1. \A pc \in ControlPoints :
          /\ Start(pc).pc = pc
          /\ \A d : [Start(pc) EXCEPT !.deposit = d].pc = pc
          /\ \A v : [Start(pc) EXCEPT !.vault = v].pc = pc
    BY DEF Start, Idle
  <1>. USE <1>1 DEF ControlPoints
  <1>2. CASE PublishRead(w)
    BY <1>2, LoneRead DEF PublishRead
  <1>3. ASSUME NEW d \in Deposits, InitiateRead(w, d) PROVE LoneInv'
    BY <1>3, LoneRead DEF InitiateRead
  <1>4. ASSUME NEW d \in Deposits, ReceiveCharge(w, d) PROVE LoneInv'
    BY <1>4, LoneRead DEF ReceiveCharge
  <1>5. CASE ExpireRead(w)
    <2>1. PICK old \in SUBSET {d \in Deposits : Expirable(d)} :
            Go(w, [Start("expire") EXCEPT !.stale = old])
      BY <1>5 DEF ExpireRead
    <2>2. \A v \in Procs : proc'[v].pc = "expire" /\ proc'[v].stale = old
      BY <2>1 DEF Alone, Go, TypeOK, Start, Idle
    <2>3. deposit' = deposit
      BY <1>5 DEF ExpireRead
    <2>. QED
      BY <2>1, <2>2, <2>3 DEF LoneInv, ReadIsFresh, Expirable
  <1>6. CASE OrganizerCancelRead(w)
    <2>1. \A v \in Procs : proc'[v].pc = "organizerCancel"
      BY <1>6 DEF OrganizerCancelRead, Alone, Go, TypeOK, Start, Idle
    <2>2. vault' = "none"
      BY <1>6 DEF OrganizerCancelRead, OrganizerMayDrop
    <2>. QED
      BY <2>1, <2>2 DEF LoneInv, ReadIsFresh
  <1>7. CASE AdminCancelRead(w)
    BY <1>7, LoneRead DEF AdminCancelRead
  <1>8. CASE OpenJudgingRead(w)
    BY <1>8, LoneRead DEF OpenJudgingRead
  <1>9. CASE AdvanceStarted(w) \/ AnnounceWinners(w)
    BY <1>9 DEF AdvanceStarted, AnnounceWinners, LoneInv, ReadIsFresh
  <1>. QED
    BY <1>2, <1>3, <1>4, <1>5, <1>6, <1>7, <1>8, <1>9 DEF Begin

\* A handler's next step leads to its end or to a point that reads nothing anew.
LEMMA LoneContinue ==
    ASSUME TypeOK, Alone, NEW w \in Procs, Continue(w) \/ Crash(w)
    PROVE  LoneInv'
  <1>1. Idle.pc = "idle" /\ (Done(w) => LoneInv')
    BY LoneRead DEF Done, Idle
  <1>2. ASSUME NEW pc \in ControlPoints, pc \notin {"expire", "organizerCancel"}, Step(w, pc)
        PROVE  LoneInv'
    <2>1. [proc[w] EXCEPT !.pc = pc].pc = pc
      BY DEF TypeOK, Frames
    <2>. QED
      BY <1>2, <2>1, LoneRead DEF Step
  <1>3. ChargeRead(w) => LoneInv'
    BY LoneRead, ChargeReads DEF ChargeRoute
  <1>. QED
    BY <1>1, <1>2, <1>3
    DEF Continue, Crash, PublishWrite, CreateVault, CreateDeposit, ChargeTx, Overpaid,
        Orphan, MarkProcessed, ExpireWrite, OrganizerCancelTx, AdminCancelTx, RefundRead,
        RefundWrite, OpenJudgingTx, ControlPoints

\* When handlers run one at a time, the cron and the cancellation write on what
\* still is.
LEMMA LoneCorrect == Alone => (Spec => []LoneInv)
  <1>. SUFFICES ASSUME Alone PROVE Spec => []LoneInv
    OBVIOUS
  <1>1. Init => LoneInv
    BY DEF Init, LoneInv, ReadIsFresh, Idle
  <1>2. ASSUME LoneInv, UNCHANGED <<vault, deposit, proc>> PROVE LoneInv'
    BY <1>2 DEF LoneInv, ReadIsFresh
  <1>3. TypeOK /\ LoneInv /\ [Next]_vars => LoneInv'
    BY <1>2, RaiseLeaves, LoneBegin, LoneContinue DEF Next, PayerPays, vars, db
  <1>. QED
    BY <1>1, <1>3, TypeCorrect, PTL DEF Spec

\* The expiry cron never overwrites a credited deposit, and nothing else does, when
\* no two handlers overlap, or when the cron does not run (expireStaleDeposits selects
\* by status and updates by id alone).
THEOREM CreditIsKept ==
    Alone \/ "expire" \notin Callers => (Spec => SucceededStaysSucceeded)
  <1>. DEFINE Kept == \A d \in Deposits : deposit[d] = "SUCCEEDED" => deposit'[d] = "SUCCEEDED"
  <1>1. ASSUME TypeOK, LoneInv, NEW w \in Procs, Begin(w) \/ Continue(w) \/ Crash(w) PROVE Kept
    <2>1. CASE ExpireWrite(w)
      BY <1>1, <2>1 DEF ExpireWrite, LoneInv, ReadIsFresh, At
    <2>2. CASE ChargeTx(w) \/ CreateDeposit(w)
      BY <1>1, <2>2 DEF ChargeTx, CreateDeposit, TypeOK
    <2>3. CASE ~(ExpireWrite(w) \/ ChargeTx(w) \/ CreateDeposit(w))
      BY <1>1, <2>3
      DEF Begin, Continue, Crash, PublishRead, InitiateRead, ReceiveCharge, ExpireRead,
          OrganizerCancelRead, AdminCancelRead, AdvanceStarted, OpenJudgingRead,
          AnnounceWinners, PublishWrite, CreateVault, ChargeRead, Overpaid, Orphan,
          MarkProcessed, OrganizerCancelTx, AdminCancelTx, RefundRead, RefundWrite,
          OpenJudgingTx, db
    <2>. QED
      BY <2>1, <2>2, <2>3
  <1>2. ASSUME UNCHANGED deposit PROVE Kept
    BY <1>2
  <1>3. TypeOK /\ LoneInv /\ [Next]_vars => [Kept]_vars
    BY <1>1, <1>2, RaiseLeaves DEF Next, PayerPays, vars, db
  <1>4. CASE Alone
    BY <1>3, <1>4, TypeCorrect, LoneCorrect, PTL DEF Spec, SucceededStaysSucceeded
  <1>5. CASE "expire" \notin Callers
    <2>1. TypeOK /\ OpenInv /\ [Next]_vars => [Kept]_vars
      BY <1>5, OpenNext DEF DepositsGrow
    <2>. QED
      BY <1>5, <2>1, TypeCorrect, OpenCorrect, PTL DEF Spec, SucceededStaysSucceeded
  <1>. QED
    BY <1>4, <1>5

\* The organizer cancels no hackathon that has a vault, when no two handlers
\* overlap (the transaction's condition is on the status alone).
THEOREM OrganizerLeavesVaults == Alone => (Spec => OrganizerCancelsWithoutVault)
  <1>. SUFFICES ASSUME Alone PROVE Spec => OrganizerCancelsWithoutVault
    OBVIOUS
  <1>. DEFINE Bare == \A w \in Procs : /\ proc[w].pc = "organizerCancel"
                                       /\ event # "CANCELLED" /\ event' = "CANCELLED"
                                       => vault = "none"
  <1>1. LoneInv => Bare
    BY DEF LoneInv, ReadIsFresh
  <1>2. LoneInv /\ [Next]_vars => [Bare]_vars
    BY <1>1
  <1>. QED
    BY <1>2, LoneCorrect, PTL DEF Spec, OrganizerCancelsWithoutVault
=============================================================================
