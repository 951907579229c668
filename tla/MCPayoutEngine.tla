--------------------------- MODULE MCPayoutEngine ---------------------------
(* Instances of PayoutEngine for TLC: the winners of a small event, and which *)
(* handlers and faults each run lets loose.                                   *)
EXTENDS PayoutEngine, TLC

CONSTANTS w1, p1, p2

OneWinner == {w1}
NoWinners == {}
OneProc   == {p1}
TwoProcs  == {p1, p2}

\* Workers are interchangeable.
WorkerSymmetry == Permutations(TwoProcs)

\* Which handlers run.
Workers    == {"job", "webhook", "markPaid", "refund"}
Automatic  == {"job", "webhook", "sweep", "heal", "milestone"}
Sweeping   == {"job", "webhook", "sweep"}
Disputed   == {"job", "webhook", "milestone", "refund"}
NoOverride == AllCallers \ {"refund", "markPaid"}

\* Which faults happen.
NoFaults         == {}
WorkerFaults     == AllFaults \ {"lookupError", "lostEnqueue"}
LossFaults       == {"lostResponse", "lostEnqueue", "crash"}
SequentialFaults == {"lostResponse", "clawback", "redeliver"}
=============================================================================
