----------------------------- MODULE Aftermath ------------------------------
(***************************************************************************)
(* The standings that winners are chosen by, and what follows their        *)
(* announcement, side by side: the check-ins, the disputes about a         *)
(* milestone, the media deadline with the trust score, and the proof of    *)
(* work.  They share no row that another one of them guards on, so one     *)
(* strand runs in a behaviour while the others stand still.                *)
(***************************************************************************)
EXTENDS Standings, Legacy, Disputes, Media, ProofOfWork

VARIABLE strand

aftermathVars == <<standingsVars, legacyVars, disputesVars, mediaVars, powVars, strand>>

Strands == {"standings", "legacy", "disputes", "media", "pow"}

Init ==
    /\ strand \in Strands
    /\ StandingsInit /\ LegacyInit /\ DisputesInit /\ MediaInit /\ PowInit
    /\ strand # "standings" => panel = CHOOSE p \in Panels : TRUE
    /\ strand # "disputes" => recipient
    /\ strand # "pow" => submitted = Winners

Next ==
    /\ strand' = strand
    /\ \/ /\ strand = "standings" /\ StandingsNext
          /\ UNCHANGED <<legacyVars, disputesVars, mediaVars, powVars>>
       \/ /\ strand = "legacy" /\ LegacyNext
          /\ UNCHANGED <<standingsVars, disputesVars, mediaVars, powVars>>
       \/ /\ strand = "disputes" /\ DisputesNext
          /\ UNCHANGED <<standingsVars, legacyVars, mediaVars, powVars>>
       \/ /\ strand = "media" /\ MediaNext
          /\ UNCHANGED <<standingsVars, legacyVars, disputesVars, powVars>>
       \/ /\ strand = "pow" /\ PowNext
          /\ UNCHANGED <<standingsVars, legacyVars, disputesVars, mediaVars>>

\* A strand that stands still has nothing enabled to be fair about.
Fairness == LegacyFairness /\ DisputesFairness /\ MediaFairness /\ PowFairness

Spec == Init /\ [][Next]_aftermathVars

FairSpec == Spec /\ Fairness

\* Every variable has its type.
TypeOK ==
    /\ StandingsTypeOK /\ LegacyTypeOK /\ DisputesTypeOK /\ MediaTypeOK /\ PowTypeOK
    /\ strand \in Strands
=============================================================================
