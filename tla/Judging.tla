------------------------------ MODULE Judging -------------------------------
(***************************************************************************)
(* The judging of one hackathon: services/judging/service.ts, from the     *)
(* rubric to the announcement.  The teams that submitted are fixed         *)
(* (submissions close before judging), and no judge is on one (see Teams). *)
(*                                                                         *)
(* As in Teams, a request is its checks and its write, and each person     *)
(* has one request under way at a time.                                    *)
(***************************************************************************)
EXTENDS Results

CONSTANTS
    Judges,         \* users the organizer may invite
    Organizer,      \* the organization admin
    Entries,      \* the teams that submitted
    Criteria,       \* criterion ids
    DefaultRubric,  \* DEFAULT_RUBRIC: a subset of Criteria
    Rubrics,        \* the rubrics an organizer saves, as sets of criteria
    Values,         \* the scores judges give, of 0 .. 10
    Kinds           \* FEEDBACK_KINDS

ASSUME JudgingAssumption ==
    /\ Organizer \notin Judges
    /\ DefaultRubric \in (SUBSET Criteria) \ {{}}
    /\ Rubrics \subseteq (SUBSET Criteria) \ {{}}
    /\ Values \subseteq 0 .. 10

VARIABLES
    stage,     \* Event.status: "running" until judging opens
    rubric,    \* the criteria of the Rubric row; {} when there is no row
    bench,     \* JudgeAssignment.status of each judge
    score,     \* Score.value by judge, team and criterion
    feedback,  \* the kinds of Feedback a judge has left for a team
    final,     \* judge and team pairs with JudgingProgress.finalizedAt
    asked      \* the request of each person that has checked, not written

judgingVars == <<stage, rubric, bench, score, feedback, final, asked>>

-----------------------------------------------------------------------------
(* Types *)

BenchState == {"none", "INVITED", "ACTIVE", "DECLINED"}
Stages     == {"running", "JUDGING", "WINNERS_ANNOUNCED"}
Pairs      == Judges \X Entries
Cards      == [Criteria -> Values \cup {NoScore}]

Blank    == [c \in Criteria |-> NoScore]
Reviews  == {"score", "addFeedback", "removeFeedback", "finalize"}
Asking   == [op : {"score", "finalize"}, team : Entries, card : Cards, kind : {"none"}]
            \cup [op : {"addFeedback", "removeFeedback"}, team : Entries,
                  card : {Blank}, kind : Kinds]
            \cup [op : {"none", "acceptBench", "announce"}]
NotAsked == [op |-> "none"]

JudgingInit ==
    /\ stage = "running"
    /\ rubric = {}
    /\ bench = [j \in Judges |-> "none"]
    /\ score = [p \in Pairs |-> Blank]
    /\ feedback = [p \in Pairs |-> {}]
    /\ final = {}
    /\ asked = [u \in Judges \cup {Organizer} |-> NotAsked]

-----------------------------------------------------------------------------
(* What the requests read *)

ScoredIn(p) == {c \in Criteria : score[p][c] # NoScore}

ActiveJudges == {j \in Judges : bench[j] = "ACTIVE"}

\* Every active judge has finalized every submitted team, and there is one.
FullyJudged ==
    /\ ActiveJudges # {}
    /\ \A j \in ActiveJudges, t \in Entries : <<j, t>> \in final

-----------------------------------------------------------------------------
(* Requests *)

Unasked(u)    == asked[u].op = "none"
Asks(u, r) == Unasked(u) /\ asked' = [asked EXCEPT ![u] = r]
Served(u)  == asked' = [asked EXCEPT ![u] = NotAsked]

Review(op, t, card, kind) == [op |-> op, team |-> t, card |-> card, kind |-> kind]

-----------------------------------------------------------------------------
(* The organizer *)

\* requireOrgAdmin; the upsert makes an ACTIVE judge INVITED again.
InviteToBench(j) ==
    /\ Unasked(Organizer)
    /\ bench' = [bench EXCEPT ![j] = "INVITED"]
    /\ UNCHANGED <<stage, rubric, score, feedback, final, asked>>

RemoveJudge(j) ==
    /\ Unasked(Organizer)
    /\ bench[j] # "none"
    /\ bench' = [bench EXCEPT ![j] = "DECLINED"]
    /\ UNCHANGED <<stage, rubric, score, feedback, final, asked>>

\* The rubric locks when judging opens.
SaveRubric(r) ==
    /\ Unasked(Organizer)
    /\ stage = "running"
    /\ rubric' = r
    /\ UNCHANGED <<stage, bench, score, feedback, final, asked>>

OpenReviews ==
    /\ Unasked(Organizer)
    /\ stage = "running"
    /\ rubric' = IF rubric = {} THEN DefaultRubric ELSE rubric
    /\ stage' = "JUDGING"
    /\ UNCHANGED <<bench, score, feedback, final, asked>>

MutantAnnounceWinners ==
    /\ stage = "JUDGING"
    /\ Asks(Organizer, [op |-> "announce"])
    /\ UNCHANGED <<stage, rubric, bench, score, feedback, final>>

AnnounceWinners ==
    /\ stage = "JUDGING"
    /\ FullyJudged
    /\ Asks(Organizer, [op |-> "announce"])
    /\ UNCHANGED <<stage, rubric, bench, score, feedback, final>>

AnnounceWrite ==
    /\ asked[Organizer].op = "announce"
    /\ stage' = IF stage = "JUDGING" THEN "WINNERS_ANNOUNCED" ELSE stage
    /\ Served(Organizer)
    /\ UNCHANGED <<rubric, bench, score, feedback, final>>

-----------------------------------------------------------------------------
(* The judges *)

\* Updated by id: an invitation withdrawn meanwhile is accepted all the same.
AcceptBench(j) ==
    /\ bench[j] # "none"
    /\ Asks(j, [op |-> "acceptBench"])
    /\ UNCHANGED <<stage, rubric, bench, score, feedback, final>>

AcceptBenchWrite(j) ==
    /\ asked[j].op = "acceptBench"
    /\ bench' = [bench EXCEPT ![j] = "ACTIVE"]
    /\ Served(j)
    /\ UNCHANGED <<stage, rubric, score, feedback, final>>

DeclineBench(j) ==
    /\ Unasked(j)
    /\ bench[j] # "none"
    /\ bench' = [bench EXCEPT ![j] = "DECLINED"]
    /\ UNCHANGED <<stage, rubric, score, feedback, final, asked>>

MutantScoreable(j, t) == stage = "JUDGING" /\ bench[j] = "ACTIVE"

\* requireScoreable: judging is open, the judge active, the review not final.
Scoreable(j, t) ==
    /\ stage = "JUDGING"
    /\ bench[j] = "ACTIVE"
    /\ <<j, t>> \notin final

\* Criteria left untouched in the form keep the value they have.
SaveScores(j, t) ==
    /\ Scoreable(j, t)
    /\ \E c \in rubric, v \in Values :
         Asks(j, Review("score", t, [score[<<j, t>>] EXCEPT ![c] = v], "none"))
    /\ UNCHANGED <<stage, rubric, bench, score, feedback, final>>

SaveScoresWrite(j) ==
    /\ asked[j].op = "score"
    /\ score' = [score EXCEPT ![<<j, asked[j].team>>] = asked[j].card]
    /\ Served(j)
    /\ UNCHANGED <<stage, rubric, bench, feedback, final>>

AddFeedback(j, t) ==
    /\ Scoreable(j, t)
    /\ \E k \in Kinds : Asks(j, Review("addFeedback", t, Blank, k))
    /\ UNCHANGED <<stage, rubric, bench, score, feedback, final>>

AddFeedbackWrite(j) ==
    /\ asked[j].op = "addFeedback"
    /\ feedback' = [feedback EXCEPT ![<<j, asked[j].team>>] = @ \cup {asked[j].kind}]
    /\ Served(j)
    /\ UNCHANGED <<stage, rubric, bench, score, final>>

\* Neither the status of the event nor the judge's seat is looked at.
RemoveFeedback(j, t) ==
    /\ <<j, t>> \notin final
    /\ \E k \in feedback[<<j, t>>] : Asks(j, Review("removeFeedback", t, Blank, k))
    /\ UNCHANGED <<stage, rubric, bench, score, feedback, final>>

RemoveFeedbackWrite(j) ==
    /\ asked[j].op = "removeFeedback"
    /\ feedback' = [feedback EXCEPT ![<<j, asked[j].team>>] = @ \ {asked[j].kind}]
    /\ Served(j)
    /\ UNCHANGED <<stage, rubric, bench, score, final>>

\* The gate: every criterion scored, and feedback of every kind.
ReviewComplete(p) ==
    /\ rubric \subseteq ScoredIn(p)
    /\ FeedbackGateSatisfied(feedback[p], Kinds)

FinalizeReview(j, t) ==
    /\ Scoreable(j, t)
    /\ ReviewComplete(<<j, t>>)
    /\ Asks(j, Review("finalize", t, Blank, "none"))
    /\ UNCHANGED <<stage, rubric, bench, score, feedback, final>>

FinalizeWrite(j) ==
    /\ asked[j].op = "finalize"
    /\ final' = final \cup {<<j, asked[j].team>>}
    /\ Served(j)
    /\ UNCHANGED <<stage, rubric, bench, score, feedback>>

-----------------------------------------------------------------------------
Organizing ==
    \/ \E j \in Judges : InviteToBench(j) \/ RemoveJudge(j)
    \/ \E r \in Rubrics : SaveRubric(r)
    \/ OpenReviews \/ AnnounceWinners \/ AnnounceWrite

Reviewing(j) ==
    \/ AcceptBench(j) \/ AcceptBenchWrite(j) \/ DeclineBench(j)
    \/ \E t \in Entries :
         SaveScores(j, t) \/ AddFeedback(j, t) \/ RemoveFeedback(j, t) \/ FinalizeReview(j, t)
    \/ SaveScoresWrite(j) \/ AddFeedbackWrite(j) \/ RemoveFeedbackWrite(j) \/ FinalizeWrite(j)

JudgingNext == Organizing \/ \E j \in Judges : Reviewing(j)

JudgingSpec == JudgingInit /\ [][JudgingNext]_judgingVars

-----------------------------------------------------------------------------
(* Properties *)

\* Every variable has its type.
JudgingTypeOK ==
    /\ stage \in Stages
    /\ rubric \in SUBSET Criteria
    /\ bench \in [Judges -> BenchState]
    /\ score \in [Pairs -> Cards]
    /\ feedback \in [Pairs -> SUBSET Kinds]
    /\ final \subseteq Pairs
    /\ asked \in [Judges \cup {Organizer} -> Asking]

\* A finalized review is locked: neither its scores nor its feedback change,
\* and it stays finalized, whatever the organizer and other judges do.
FinalIsFrozen ==
    [][\A p \in final : p \in final' /\ score'[p] = score[p] /\ feedback'[p] = feedback[p]]_judgingVars

\* When winners are announced every submitted team has a finalized review, and
\* every finalized review scores the whole rubric and has feedback of each kind.
AnnouncedIsJudged ==
    /\ \A p \in final : ReviewComplete(p)
    /\ stage = "WINNERS_ANNOUNCED" => \A t \in Entries : \E j \in Judges : <<j, t>> \in final
=============================================================================
