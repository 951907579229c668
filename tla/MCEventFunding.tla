--------------------------- MODULE MCEventFunding ---------------------------
(* Instances of EventFunding for TLC.                                         *)
EXTENDS EventFunding, TLC

CONSTANTS d1, d2, p1, p2

TwoDeposits == {d1, d2}
OneProc     == {p1}
TwoProcs    == {p1, p2}

Symmetry == Permutations(TwoDeposits) \cup Permutations(TwoProcs)

Everything   == AllCallers

CrashAndRise == {"crash", "raisedPrizes"}
=============================================================================
