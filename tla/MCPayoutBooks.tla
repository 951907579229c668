---------------------------- MODULE MCPayoutBooks ----------------------------
(* An instance of PayoutBooks for TLC: one winner with both tranches, and two *)
(* handlers of every kind but the admin queue's, one of which may die.        *)
EXTENDS PayoutBooks, TLC

CONSTANTS w1, p1, p2

OneWinner == {w1}
TwoProcs  == {p1, p2}

\* Handlers are interchangeable.
WorkerSymmetry == Permutations(TwoProcs)

Unassisted == AllCallers \ {"adminRetry", "markPaid"}
Losses     == {"lostResponse", "crash"}
=============================================================================
