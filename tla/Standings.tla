----------------------------- MODULE Standings ------------------------------
(***************************************************************************)
(* The standings that the organizer's pages show while judging is open     *)
(* (computeEventResults in services/judging/results.ts).  A page reads the *)
(* scores and the finalized reviews in parallel, so judges may write       *)
(* between the two reads; what it then shows is Results.                   *)
(*                                                                         *)
(* The gates of a judge's requests are in Judging; here a review is saved, *)
(* completed and finalized.  The rubric is locked, and a judge who was     *)
(* removed after finalizing counts all the same.                           *)
(***************************************************************************)
EXTENDS Results

CONSTANTS
    Panels,        \* the judges and the submitted teams of a hackathon
    Weights,       \* the weight of each criterion
    Sheets,        \* what a judge may give for each criterion, or not yet
    ChangeBound    \* model bound: writes of judges while one page is read

ASSUME StandingsAssumption ==
    /\ RubricValid(Weights)
    /\ Sheets \subseteq [DOMAIN Weights -> 0 .. NoScore]
    /\ ChangeBound \in Nat

VARIABLES
    panel,      \* the hackathon's judges and teams
    sheet,      \* Score rows by judge and team
    closed,     \* judge and team pairs with JudgingProgress.finalizedAt
    taken,      \* what the page under way has read
    board       \* the standings that a page just showed, and the reviews it counted

standingsVars == <<panel, sheet, closed, taken, board>>

Pairs(p) == p.judges \X p.teams
Unscored == [c \in DOMAIN Weights |-> NoScore]
NotRead  == [scores |-> <<>>, progress |-> {}, order |-> <<>>, changes |-> 0]
NoBoard  == [ranks |-> <<>>, counted |-> {}, steady |-> FALSE]

StandingsInit ==
    /\ panel \in Panels
    /\ sheet = [p \in Pairs(panel) |-> Unscored]
    /\ closed = {}
    /\ taken = NotRead
    /\ board = NoBoard

-----------------------------------------------------------------------------
(* The judges *)

Rendering == taken.order # <<>>

\* A write of a judge, seen from the page that is being read.
Meanwhile ==
    /\ Rendering => taken.changes < ChangeBound
    /\ taken' = IF Rendering THEN [taken EXCEPT !.changes = @ + 1] ELSE taken
    /\ board' = NoBoard

\* saveScores: criteria left out keep their score.
SaveSheet(p) ==
    /\ p \notin closed
    /\ \E s \in Sheets :
         /\ s # sheet[p]
         /\ \A c \in DOMAIN Weights : s[c] = NoScore => sheet[p][c] = NoScore
         /\ sheet' = [sheet EXCEPT ![p] = s]
    /\ Meanwhile
    /\ UNCHANGED <<panel, closed>>

\* finalizeReview
CloseReview(p) ==
    /\ p \notin closed
    /\ \A c \in DOMAIN Weights : sheet[p][c] # NoScore
    /\ closed' = closed \cup {p}
    /\ Meanwhile
    /\ UNCHANGED <<panel, sheet>>

-----------------------------------------------------------------------------
(* The page *)

ReadScores ==
    /\ ~Contains(taken.order, "scores")
    /\ taken' = [taken EXCEPT !.scores = sheet, !.order = Append(@, "scores")]
    /\ board' = NoBoard
    /\ UNCHANGED <<panel, sheet, closed>>

ReadProgress ==
    /\ ~Contains(taken.order, "progress")
    /\ taken' = [taken EXCEPT !.progress = closed, !.order = Append(@, "progress")]
    /\ board' = NoBoard
    /\ UNCHANGED <<panel, sheet, closed>>

ShowStandings ==
    /\ Len(taken.order) = 2
    /\ board' = [ranks   |-> ComputeResults(panel.teams, Weights, taken.scores, taken.progress),
                 counted |-> taken.progress,
                 steady  |-> taken.changes = 0 \/ Last(taken.order) = "scores"]
    /\ taken' = NotRead
    /\ UNCHANGED <<panel, sheet, closed>>

StandingsNext ==
    \/ \E p \in Pairs(panel) : SaveSheet(p) \/ CloseReview(p)
    \/ ReadScores \/ ReadProgress \/ ShowStandings

-----------------------------------------------------------------------------
(* Properties *)

\* Every variable has its type.
StandingsTypeOK ==
    /\ panel \in Panels
    /\ sheet \in [Pairs(panel) -> Sheets \cup {Unscored}]
    /\ closed \subseteq Pairs(panel)
    /\ taken.order \in {<<>>, <<"scores">>, <<"progress">>,
                        <<"scores", "progress">>, <<"progress", "scores">>}
    /\ taken.changes \in 0 .. ChangeBound
    /\ DOMAIN board.ranks \subseteq panel.teams /\ board.counted \subseteq closed

\* By hand: the points that the counted reviews give a team, and how many they are.
Points(t)  == Total([p \in board.counted |-> IF p[2] = t THEN Earned(sheet[p], Weights) ELSE 0],
                    board.counted)
Reviews(t) == Cardinality({p \in board.counted : p[2] = t})

Fair(rank) ==
    /\ DOMAIN rank = {t \in panel.teams : Reviews(t) > 0}
    /\ \A t, v \in DOMAIN rank :
         rank[t] < rank[v] <=> Points(t) * Reviews(v) > Points(v) * Reviews(t)
    /\ \E n \in 0 .. Cardinality(DOMAIN rank) : {rank[t] : t \in DOMAIN rank} = 1 .. n

\* The standings rank the teams with a finalized review and no others; of two
\* teams the one with the greater mean comes first, equal ones share their rank,
\* and no rank is left out.  So it is although judges write while a page is read,
\* because a finalized review changes no more, if the scores are read last.
StandingsAreFair == board.steady => Fair(board.ranks)

\* The results are those of the reviews as they stand, each of them complete, and
\* not of scores that a judge has since written over.
StandingsAreCurrent ==
    board.steady =>
        /\ board.ranks = ComputeResults(panel.teams, Weights, sheet, board.counted)
        /\ \A p \in board.counted, c \in DOMAIN Weights : sheet[p][c] # NoScore

\* "A half-entered review must never leak into results" (results.ts:12), in
\* whichever order the reads are answered.  It does not hold: scores read before
\* the last criterion is saved count as finalized if progress is read after.
StandingsAreAlwaysFair == board # NoBoard => Fair(board.ranks)
=============================================================================
