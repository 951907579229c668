---------------------------- MODULE MCAttestation ----------------------------
(* Instances of Attestation for TLC.                                          *)
EXTENDS Attestation, TLC

CONSTANTS w1, w2, p1, p2

OneWinner  == {w1}
TwoWinners == {w1, w2}
OneProc    == {p1}
TwoProcs   == {p1, p2}
NoWinners  == {}

\* Every tranche is one unit of money, and the pool is all of them.
UnitAmount == [p \in Payouts |-> 1]
TwoUnits   == 2
ThreeUnits == 3
=============================================================================
