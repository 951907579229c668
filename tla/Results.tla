------------------------------ MODULE Results -------------------------------
(***************************************************************************)
(* The standings of a hackathon, lib/judging/compute.ts and                *)
(* services/judging/results.ts, as functions of the rows they read: the    *)
(* rubric (criteria with weights), the scores by judge, team and           *)
(* criterion, and the finalized reviews.                                   *)
(***************************************************************************)
EXTENDS Integers, FiniteSets, Folds, SequencesExt

NoScore == 11      \* no Score row; values are 0 .. 10

\* validateRubric: between 3 and 8 criteria whose whole weights total 100.
RubricValid(weight) ==
    /\ Cardinality(DOMAIN weight) \in 3 .. 8
    /\ \A c \in DOMAIN weight : weight[c] \in 1 .. 100
    /\ MapThenFoldSet(+, 0, LAMBDA c : weight[c], LAMBDA S : CHOOSE x \in S : TRUE,
                      DOMAIN weight) = 100

\* At least one point of each kind.
FeedbackGateSatisfied(points, kinds) == kinds \subseteq points

Total(f, S) == MapThenFoldSet(+, 0, LAMBDA x : f[x], LAMBDA T : CHOOSE x \in T : TRUE, S)

MutantCounting(t, score, final) ==
    {j \in {p[1] : p \in DOMAIN score} :
       \E c \in DOMAIN score[<<j, t>>] : score[<<j, t>>][c] # NoScore}

\* The judges that count for a team: those with a finalized review and a score.
Counting(t, score, final) ==
    {j \in {p[1] : p \in DOMAIN score} :
       /\ <<j, t>> \in final
       /\ \E c \in DOMAIN score[<<j, t>>] : score[<<j, t>>][c] # NoScore}

\* A judge's score times the total weight; a criterion without a score is 0.
Earned(card, weight) ==
    Total([c \in DOMAIN weight |-> IF card[c] = NoScore THEN 0 ELSE card[c] * weight[c]],
          DOMAIN weight)

\* weightedScore in hundredths: the mean over the judges, rounded half up.
Mean(earned, weight) ==
    LET unit == Total(weight, DOMAIN weight) * Cardinality(DOMAIN earned)
    IN  (2000 * Total(earned, DOMAIN earned) + unit) \div (2 * unit)

WeightedScore(t, weight, score, final) ==
    Mean([j \in Counting(t, score, final) |-> Earned(score[<<j, t>>], weight)], weight)

\* Dense ranking: ties share a rank, the next score takes the next rank.
RankAfter(last, same, i) == IF same THEN last ELSE last + 1

\* The rank of every team that has a mean.
DenseRanks(mean) ==
    LET sorted == SetToSortSeq(DOMAIN mean, LAMBDA t, v : mean[t] >= mean[v])
        rank[i \in 1 .. Len(sorted)] ==
            IF i = 1 THEN 1
            ELSE RankAfter(rank[i - 1], mean[sorted[i]] = mean[sorted[i - 1]], i)
    IN  [t \in DOMAIN mean |-> rank[CHOOSE i \in 1 .. Len(sorted) : sorted[i] = t]]

\* Teams that no counting judge has scored are left out.
ComputeResults(teams, weight, score, final) ==
    DenseRanks([t \in {u \in teams : Counting(u, score, final) # {}} |->
                   WeightedScore(t, weight, score, final)])
=============================================================================
