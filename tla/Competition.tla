---------------------------- MODULE Competition -----------------------------
(***************************************************************************)
(* Teams and Judging side by side: the forming of teams and seats until    *)
(* judging opens, and the judging of the teams that submitted.  A          *)
(* behaviour follows one of the two, so that their states add up.          *)
(***************************************************************************)
EXTENDS Teams, Judging

VARIABLE half    \* which half of the competition the behaviour follows

vars == <<teamsVars, judgingVars, half>>

Init ==
    /\ half \in {"forming", "judging"}
    /\ TeamsInit /\ JudgingInit
    /\ half = "judging" => \A c \in Crowds : crowd.width <= c.width

Forming == half = "forming" /\ TeamsNext /\ UNCHANGED <<judgingVars, half>>
Scoring == half = "judging" /\ JudgingNext /\ UNCHANGED <<teamsVars, half>>

Next == Forming \/ Scoring

Spec == Init /\ [][Next]_vars

\* Every variable has its type.
TypeOK == TeamsTypeOK /\ JudgingTypeOK
=============================================================================
