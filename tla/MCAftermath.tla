---------------------------- MODULE MCAftermath -----------------------------
(* Small instances of the standings and of what follows an announcement.     *)
EXTENDS Aftermath, TLC

\* Three teams with one judge; two teams with two.
MCPanels  == {[judges |-> {1}, teams |-> {1, 2, 3}], [judges |-> {1, 2}, teams |-> {1, 2}]}
MCWeights == [idea |-> 50, build |-> 30, pitch |-> 20]

\* One that is half filled in, and two different ones of equal weight.
MCSheets ==
    {[idea |-> 5, build |-> NoScore, pitch |-> 5],
     [idea |-> 5, build |-> 5, pitch |-> 0], [idea |-> 4, build |-> 6, pitch |-> 1]}
=============================================================================
