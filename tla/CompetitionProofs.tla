-------------------------- MODULE CompetitionProofs --------------------------
(***************************************************************************)
(* What holds of a competition for any number of competitors, teams and    *)
(* judges, and however many requests are under way between their checks    *)
(* and their writes.                                                       *)
(***************************************************************************)
EXTENDS Competition, FiniteSetTheorems, TLAPS

(***************************************************************************)
(* Judging                                                                 *)
(***************************************************************************)

\* The kinds of a request are told apart by their names.
LEMMA JudgingTypes ==
    ASSUME JudgingTypeOK, [JudgingNext]_judgingVars
    PROVE  JudgingTypeOK'
<1> USE DEF JudgingTypeOK
<1>1. NotAsked \in Asking
  BY DEF NotAsked, Asking
<1>2. Blank \in Cards
  BY DEF Blank, Cards
<1>3. ASSUME NEW t \in Entries
      PROVE  /\ \A card \in Cards : Review("score", t, card, "none") \in Asking
             /\ Review("finalize", t, Blank, "none") \in Asking
             /\ \A k \in Kinds : /\ Review("addFeedback", t, Blank, k) \in Asking
                                /\ Review("removeFeedback", t, Blank, k) \in Asking
  BY <1>2, <1>3 DEF Review, Asking
<1>4. CASE UNCHANGED judgingVars
  BY <1>4 DEF judgingVars
<1>5. ASSUME NEW j \in Judges, InviteToBench(j) \/ RemoveJudge(j) \/ DeclineBench(j)
      PROVE  JudgingTypeOK'
  BY <1>5 DEF InviteToBench, RemoveJudge, DeclineBench, BenchState
<1>6. CASE OpenReviews \/ \E r \in Rubrics : SaveRubric(r)
  BY <1>6, JudgingAssumption DEF OpenReviews, SaveRubric, Stages
<1>7. CASE AnnounceWinners
  BY <1>7 DEF AnnounceWinners, Asks, Asking
<1>8. CASE AnnounceWrite
  BY <1>8, <1>1 DEF AnnounceWrite, Served, Stages
<1>9. ASSUME NEW j \in Judges, AcceptBench(j)
      PROVE  JudgingTypeOK'
  BY <1>9 DEF AcceptBench, Asks, Asking
<1>10. ASSUME NEW j \in Judges, AcceptBenchWrite(j)
       PROVE  JudgingTypeOK'
  BY <1>10, <1>1 DEF AcceptBenchWrite, Served, BenchState
<1>11. ASSUME NEW j \in Judges, NEW t \in Entries, SaveScores(j, t)
       PROVE  JudgingTypeOK'
  <2>1. PICK c \in rubric, v \in Values :
          Asks(j, Review("score", t, [score[<<j, t>>] EXCEPT ![c] = v], "none"))
    BY <1>11 DEF SaveScores
  <2>2. [score[<<j, t>>] EXCEPT ![c] = v] \in Cards
    BY DEF Cards, Pairs
  <2>3. Review("score", t, [score[<<j, t>>] EXCEPT ![c] = v], "none") \in Asking
    BY <2>2, <1>3
  <2> QED BY <1>11, <2>1, <2>3 DEF SaveScores, Asks
<1>12. ASSUME NEW j \in Judges, NEW t \in Entries, AddFeedback(j, t)
       PROVE  JudgingTypeOK'
  <2>1. PICK k \in Kinds : Asks(j, Review("addFeedback", t, Blank, k))
    BY <1>12 DEF AddFeedback
  <2>2. Review("addFeedback", t, Blank, k) \in Asking
    BY <1>3
  <2> QED BY <1>12, <2>1, <2>2 DEF AddFeedback, Asks
<1>13. ASSUME NEW j \in Judges, NEW t \in Entries, RemoveFeedback(j, t)
       PROVE  JudgingTypeOK'
  <2>1. PICK k \in feedback[<<j, t>>] : Asks(j, Review("removeFeedback", t, Blank, k))
    BY <1>13 DEF RemoveFeedback
  <2>2. Review("removeFeedback", t, Blank, k) \in Asking
    BY <1>3 DEF Pairs
  <2> QED BY <1>13, <2>1, <2>2 DEF RemoveFeedback, Asks
<1>14. ASSUME NEW j \in Judges, NEW t \in Entries, FinalizeReview(j, t)
       PROVE  JudgingTypeOK'
  <2>1. Review("finalize", t, Blank, "none") \in Asking
    BY <1>3
  <2> QED BY <1>14, <2>1 DEF FinalizeReview, Asks
<1>15. ASSUME NEW j \in Judges, SaveScoresWrite(j)
       PROVE  JudgingTypeOK'
  <2>1. asked[j].team \in Entries /\ asked[j].card \in Cards
    BY <1>15 DEF SaveScoresWrite, Asking
  <2> QED BY <1>15, <1>1, <2>1 DEF SaveScoresWrite, Served, Pairs
<1>16. ASSUME NEW j \in Judges, AddFeedbackWrite(j) \/ RemoveFeedbackWrite(j)
       PROVE  JudgingTypeOK'
  <2>1. asked[j].team \in Entries
    BY <1>16 DEF AddFeedbackWrite, RemoveFeedbackWrite, Asking
  <2>2. CASE RemoveFeedbackWrite(j)
    BY <2>1, <2>2, <1>1 DEF RemoveFeedbackWrite, Served, Pairs
  <2>3. CASE AddFeedbackWrite(j)
    <3>1. asked[j].kind \in Kinds
      BY <2>3 DEF AddFeedbackWrite, Asking
    <3> QED BY <2>1, <2>3, <3>1, <1>1 DEF AddFeedbackWrite, Served, Pairs
  <2> QED BY <1>16, <2>2, <2>3
<1>17. ASSUME NEW j \in Judges, FinalizeWrite(j)
       PROVE  JudgingTypeOK'
  <2>1. asked[j].team \in Entries
    BY <1>17 DEF FinalizeWrite, Asking
  <2> QED BY <1>17, <1>1, <2>1 DEF FinalizeWrite, Served, Pairs
<1> QED
  BY <1>4, <1>5, <1>6, <1>7, <1>8, <1>9, <1>10, <1>11, <1>12, <1>13, <1>14, <1>15, <1>16, <1>17
  DEF JudgingNext, Organizing, Reviewing

\* What a review rests on: nothing is finalized before judging opens, a pending
\* review is of a team its judge has not finalized, and a review being
\* finalized passes the gate until it is.
Reviewed(p) == ReviewComplete(p) /\ stage # "running"

JudgingInv ==
    /\ JudgingTypeOK
    /\ \A p \in final : Reviewed(p)
    /\ \A j \in Judges : asked[j].op \in Reviews => <<j, asked[j].team>> \notin final
    /\ \A j \in Judges, t \in Entries :
         asked[j].op = "finalize" /\ asked[j].team = t => Reviewed(<<j, t>>)
    /\ asked[Organizer].op = "announce" \/ stage = "WINNERS_ANNOUNCED"
          => \A t \in Entries : \E j \in Judges : <<j, t>> \in final

\* The initial states satisfy the invariant.
LEMMA JudgingStarts == JudgingInit => JudgingInv
<1> SUFFICES ASSUME JudgingInit PROVE JudgingInv
  OBVIOUS
<1>1. JudgingTypeOK
  BY DEF JudgingInit, JudgingTypeOK, Stages, BenchState, Cards, Blank, Asking, NotAsked
<1>2. \A j \in Judges \cup {Organizer} : asked[j].op = "none"
  BY DEF JudgingInit, NotAsked
<1> QED
  BY <1>1, <1>2 DEF JudgingInit, JudgingInv, Reviews

\* Steps that touch no score, no feedback and no rubric leave what is complete
\* complete.
LEMMA StaysReviewed ==
    ASSUME NEW p, Reviewed(p), stage' # "running",
           rubric' = rubric, score'[p] = score[p], feedback'[p] = feedback[p]
    PROVE  Reviewed(p)'
BY DEF Reviewed, ReviewComplete, ScoredIn

\* A write of judge j leaves the reviews that are final as they are.
LEMMA FinalStays ==
    ASSUME JudgingInv, [JudgingNext]_judgingVars
    PROVE  \A p \in final : p \in final' /\ score'[p] = score[p] /\ feedback'[p] = feedback[p]
<1> SUFFICES ASSUME NEW p \in final
             PROVE  p \in final' /\ score'[p] = score[p] /\ feedback'[p] = feedback[p]
  OBVIOUS
<1>1. CASE UNCHANGED <<score, feedback, final>>
  BY <1>1
<1>2. ASSUME NEW j \in Judges, SaveScoresWrite(j)
      PROVE  p \in final' /\ score'[p] = score[p] /\ feedback'[p] = feedback[p]
  <2>1. p # <<j, asked[j].team>>
    BY <1>2 DEF SaveScoresWrite, JudgingInv, Reviews
  <2> QED BY <1>2, <2>1 DEF SaveScoresWrite, JudgingInv, JudgingTypeOK
<1>3. ASSUME NEW j \in Judges, AddFeedbackWrite(j) \/ RemoveFeedbackWrite(j)
      PROVE  p \in final' /\ score'[p] = score[p] /\ feedback'[p] = feedback[p]
  <2>1. p # <<j, asked[j].team>>
    BY <1>3 DEF AddFeedbackWrite, RemoveFeedbackWrite, JudgingInv, Reviews
  <2> QED BY <1>3, <2>1 DEF AddFeedbackWrite, RemoveFeedbackWrite, JudgingInv, JudgingTypeOK
<1>4. ASSUME NEW j \in Judges, FinalizeWrite(j)
      PROVE  p \in final' /\ score'[p] = score[p] /\ feedback'[p] = feedback[p]
  BY <1>4 DEF FinalizeWrite
<1> QED
  BY <1>1, <1>2, <1>3, <1>4 DEF JudgingNext, Organizing, Reviewing, judgingVars, InviteToBench,
     RemoveJudge, SaveRubric, OpenReviews, AnnounceWinners, AnnounceWrite, AcceptBench,
     AcceptBenchWrite, DeclineBench, SaveScores, AddFeedback, RemoveFeedback, FinalizeReview

\* A request that was just checked or answered, when nothing else moves.
LEMMA AskingKeeps ==
    ASSUME JudgingInv, JudgingTypeOK',
           UNCHANGED <<stage, rubric, score, feedback, final>>,
           NEW u \in Judges \cup {Organizer}, NEW r, asked' = [asked EXCEPT ![u] = r],
           r.op \in Reviews => <<u, r.team>> \notin final,
           r.op = "finalize" => stage # "running" /\ ReviewComplete(<<u, r.team>>),
           r.op = "announce" => \A t \in Entries : \E j \in Judges : <<j, t>> \in final
    PROVE  JudgingInv'
<1>1. asked'[u] = r /\ \A v \in Judges \cup {Organizer} : v # u => asked'[v] = asked[v]
  BY DEF JudgingInv, JudgingTypeOK
<1>2. \A p : Reviewed(p)' <=> Reviewed(p)
  BY DEF Reviewed, ReviewComplete, ScoredIn
<1>3. \A p \in final' : Reviewed(p)'
  BY <1>2 DEF JudgingInv
<1>4. \A j \in Judges : asked'[j].op \in Reviews => <<j, asked'[j].team>> \notin final'
  BY <1>1 DEF JudgingInv
<1>5. ASSUME NEW j \in Judges, NEW t \in Entries, asked'[j].op = "finalize", asked'[j].team = t
      PROVE  Reviewed(<<j, t>>)
  <2>1. CASE j = u
    BY <1>1, <1>5, <2>1 DEF Reviewed
  <2>2. CASE j # u
    BY <1>1, <1>5, <2>2 DEF JudgingInv
  <2> QED BY <2>1, <2>2
<1>6. asked'[Organizer].op = "announce" \/ stage' = "WINNERS_ANNOUNCED"
        => \A t \in Entries : \E j \in Judges : <<j, t>> \in final'
  BY <1>1 DEF JudgingInv
<1>7. \A j \in Judges, t \in Entries :
         asked'[j].op = "finalize" /\ asked'[j].team = t => Reviewed(<<j, t>>)'
  BY <1>2, <1>5
<1> QED
  BY <1>3, <1>4, <1>6, <1>7 DEF JudgingInv

\* Every step preserves the invariant.
LEMMA JudgingKeeps ==
    ASSUME JudgingInv, [JudgingNext]_judgingVars
    PROVE  JudgingInv'
<1>1. JudgingTypeOK'
  BY JudgingTypes DEF JudgingInv
<1>2. \A u \in Judges \cup {Organizer} : asked[u].op = "none" => asked[u].op \notin Reviews \cup {"announce"}
  BY DEF Reviews
<1>3. CASE UNCHANGED judgingVars
  BY <1>3, <1>1 DEF judgingVars, JudgingInv, Reviewed, ReviewComplete, ScoredIn
<1>4. ASSUME NEW j \in Judges, InviteToBench(j) \/ RemoveJudge(j) \/ DeclineBench(j)
      PROVE  JudgingInv'
  <2>1. UNCHANGED <<stage, rubric, score, feedback, final, asked>>
    BY <1>4 DEF InviteToBench, RemoveJudge, DeclineBench
  <2>2. \A p : Reviewed(p)' <=> Reviewed(p)
    BY <2>1 DEF Reviewed, ReviewComplete, ScoredIn
  <2> QED BY <1>1, <2>1, <2>2 DEF JudgingInv
<1>5. CASE OpenReviews \/ \E r \in Rubrics : SaveRubric(r)
  <2>1. final = {} /\ \A j \in Judges : asked[j].op # "finalize"
    <3>1. stage = "running"
      BY <1>5 DEF OpenReviews, SaveRubric
    <3>2. \A j \in Judges : asked[j].op = "finalize" => asked[j].team \in Entries
      BY DEF JudgingInv, JudgingTypeOK, Asking
    <3> QED BY <3>1, <3>2 DEF JudgingInv, Reviewed
  <2> QED
    BY <1>5, <1>1, <2>1 DEF OpenReviews, SaveRubric, JudgingInv, Unasked
<1>6. CASE AnnounceWinners
  <2>1. \A t \in Entries : \E j \in Judges : <<j, t>> \in final
    BY <1>6 DEF AnnounceWinners, FullyJudged, ActiveJudges
  <2>2. /\ UNCHANGED <<stage, rubric, score, feedback, final>>
        /\ asked' = [asked EXCEPT ![Organizer] = [op |-> "announce"]]
    BY <1>6 DEF AnnounceWinners, Asks
  <2> DEFINE r == [op |-> "announce"]
  <2>3. r.op \notin Reviews /\ r.op # "finalize"
    BY DEF Reviews
  <2> HIDE DEF r
  <2> QED
    BY <1>1, <2>1, <2>2, <2>3, AskingKeeps DEF r
<1>7. CASE AnnounceWrite
  <2>1. /\ asked'[Organizer].op = "none"
        /\ \A j \in Judges : asked'[j] = asked[j]
    BY <1>7, JudgingAssumption DEF AnnounceWrite, Served, NotAsked, JudgingInv, JudgingTypeOK
  <2>2. \A p : Reviewed(p) => Reviewed(p)'
    BY <1>7 DEF AnnounceWrite, Reviewed, ReviewComplete, ScoredIn
  <2> QED
    BY <1>7, <1>1, <2>1, <2>2 DEF AnnounceWrite, JudgingInv
<1>8. ASSUME NEW j \in Judges, AcceptBench(j) \/ AcceptBenchWrite(j)
      PROVE  JudgingInv'
  <2>1. PICK r \in {[op |-> "acceptBench"], NotAsked} :
          /\ UNCHANGED <<stage, rubric, score, feedback, final>>
          /\ asked' = [asked EXCEPT ![j] = r]
    BY <1>8 DEF AcceptBench, AcceptBenchWrite, Asks, Served
  <2>2. r.op \notin Reviews /\ r.op # "finalize" /\ r.op # "announce"
    BY DEF Reviews, NotAsked
  <2> QED BY <1>1, <2>1, <2>2, AskingKeeps
<1>9. ASSUME NEW j \in Judges, NEW t \in Entries,
             SaveScores(j, t) \/ AddFeedback(j, t) \/ RemoveFeedback(j, t) \/ FinalizeReview(j, t)
      PROVE  JudgingInv'
  <2>1. <<j, t>> \notin final /\ UNCHANGED <<stage, rubric, score, feedback, final>>
    BY <1>9 DEF SaveScores, AddFeedback, RemoveFeedback, FinalizeReview, Scoreable
  <2>2. ASSUME NEW op \in Reviews, NEW card, NEW k, Asks(j, Review(op, t, card, k)),
               op = "finalize" => stage # "running" /\ ReviewComplete(<<j, t>>)
        PROVE  JudgingInv'
    <3> DEFINE r == Review(op, t, card, k)
    <3>1. r.op = op /\ r.team = t /\ asked' = [asked EXCEPT ![j] = r]
      BY <2>2 DEF Review, Asks
    <3>2. op # "announce"
      BY DEF Reviews
    <3> HIDE DEF r
    <3> QED BY <1>1, <2>1, <2>2, <3>1, <3>2, AskingKeeps
  <2>3. CASE SaveScores(j, t)
    BY <2>2, <2>3 DEF SaveScores, Reviews
  <2>4. CASE AddFeedback(j, t)
    BY <2>2, <2>4 DEF AddFeedback, Reviews
  <2>5. CASE RemoveFeedback(j, t)
    BY <2>2, <2>5 DEF RemoveFeedback, Reviews
  <2>6. CASE FinalizeReview(j, t)
    BY <2>2, <2>6 DEF FinalizeReview, Scoreable, Reviews
  <2> QED BY <1>9, <2>3, <2>4, <2>5, <2>6
<1>10. ASSUME NEW j \in Judges,
              SaveScoresWrite(j) \/ AddFeedbackWrite(j) \/ RemoveFeedbackWrite(j)
       PROVE  JudgingInv'
  <2>1. UNCHANGED <<stage, rubric, final>> /\ asked[j].op # "finalize"
    BY <1>10 DEF SaveScoresWrite, AddFeedbackWrite, RemoveFeedbackWrite
  <2>2. /\ asked'[j].op = "none"
        /\ \A u \in Judges \cup {Organizer} : u # j => asked'[u] = asked[u]
    BY <1>10 DEF SaveScoresWrite, AddFeedbackWrite, RemoveFeedbackWrite, Served, NotAsked,
       JudgingInv, JudgingTypeOK
  <2>3. \A p \in final : Reviewed(p)'
    BY <2>1, FinalStays, StaysReviewed DEF JudgingInv, Reviewed
  <2>4. ASSUME NEW i \in Judges, NEW t \in Entries, asked'[i].op = "finalize", asked'[i].team = t
        PROVE  Reviewed(<<i, t>>)'
    <3>1. i # j /\ asked'[i] = asked[i]
      BY <2>2, <2>4
    <3>2. <<i, t>> # <<j, asked[j].team>> /\ Reviewed(<<i, t>>)
      BY <2>4, <3>1 DEF JudgingInv
    <3>3. score'[<<i, t>>] = score[<<i, t>>] /\ feedback'[<<i, t>>] = feedback[<<i, t>>]
      BY <1>10, <3>2 DEF SaveScoresWrite, AddFeedbackWrite, RemoveFeedbackWrite, JudgingInv,
         JudgingTypeOK, Pairs
    <3>4. stage' # "running"
      BY <2>1, <3>2 DEF Reviewed
    <3> QED BY <2>1, <3>1, <3>2, <3>3, <3>4, StaysReviewed
  <2>5. asked'[Organizer].op = "announce" => asked[Organizer].op = "announce"
    BY <2>2, JudgingAssumption
  <2> QED
    BY <1>1, <2>1, <2>2, <2>3, <2>4, <2>5 DEF JudgingInv, Reviews
<1>11. ASSUME NEW j \in Judges, FinalizeWrite(j)
       PROVE  JudgingInv'
  <2>1. /\ UNCHANGED <<stage, rubric, bench, score, feedback>>
        /\ final' = final \cup {<<j, asked[j].team>>}
        /\ asked[j].op = "finalize"
    BY <1>11 DEF FinalizeWrite
  <2>2. /\ asked'[j].op = "none"
        /\ \A u \in Judges \cup {Organizer} : u # j => asked'[u] = asked[u]
    BY <1>11 DEF FinalizeWrite, Served, NotAsked, JudgingInv, JudgingTypeOK
  <2>3. \A p : Reviewed(p)' <=> Reviewed(p)
    BY <2>1 DEF Reviewed, ReviewComplete, ScoredIn
  <2>4. \A i \in Judges : asked'[i].op \in Reviews => i # j /\ <<i, asked'[i].team>> \notin final'
    BY <2>1, <2>2 DEF JudgingInv, Reviews
  <2>5. ASSUME NEW p \in final' PROVE Reviewed(p)'
    <3>1. asked[j].team \in Entries
      BY <2>1 DEF JudgingInv, JudgingTypeOK, Asking
    <3> QED BY <2>1, <2>3, <3>1 DEF JudgingInv
  <2>6. \A i \in Judges, t \in Entries :
          asked'[i].op = "finalize" /\ asked'[i].team = t => Reviewed(<<i, t>>)'
    BY <2>2, <2>3 DEF JudgingInv
  <2>7. asked'[Organizer].op = "announce" => asked[Organizer].op = "announce"
    BY <2>2, JudgingAssumption
  <2> QED
    BY <1>1, <2>1, <2>4, <2>5, <2>6, <2>7 DEF JudgingInv
<1> QED
  BY <1>3, <1>4, <1>5, <1>6, <1>7, <1>8, <1>9, <1>10, <1>11 DEF JudgingNext, Organizing, Reviewing

\* The invariant holds throughout every competition.
LEMMA JudgingInvariant == Spec => []JudgingInv
<1>1. Init => JudgingInv
  BY JudgingStarts DEF Init
<1>2. ASSUME JudgingInv, [Next]_vars PROVE JudgingInv'
  <2>1. [JudgingNext]_judgingVars
    BY <1>2 DEF Next, Forming, Scoring, vars, judgingVars
  <2> QED BY <1>2, <2>1, JudgingKeeps
<1> QED
  BY <1>1, <1>2, PTL DEF Spec

\* Winners are announced only when every submitted team has a finalized review,
\* and a finalized review has passed the gate (announceWinners, finalizeReview).
THEOREM WinnersAreJudged == Spec => []AnnouncedIsJudged
<1>1. JudgingInv => AnnouncedIsJudged
  BY DEF JudgingInv, AnnouncedIsJudged, Reviewed
<1> QED
  BY <1>1, JudgingInvariant, PTL

\* A finalized review is locked (requireScoreable, assertNotFinalized), although
\* every write follows its checks in a step of its own.
THEOREM ReviewsAreFrozen == Spec => FinalIsFrozen
<1>1. ASSUME JudgingInv, [Next]_vars
      PROVE  [\A p \in final : p \in final' /\ score'[p] = score[p] /\ feedback'[p] = feedback[p]]_judgingVars
  <2>1. [JudgingNext]_judgingVars
    BY <1>1 DEF Next, Forming, Scoring, vars, judgingVars
  <2> QED BY <1>1, <2>1, FinalStays
<1> QED
  BY <1>1, JudgingInvariant, PTL DEF Spec, FinalIsFrozen

(***************************************************************************)
(* Teams and seats                                                         *)
(***************************************************************************)

JoinOps == {"create", "join", "accept"}

\* The requests to join team t that have been checked and not written.
Joiners(t) == {u \in Users : request[u].op \in {"join", "accept"} /\ request[u].team = t}

\* What the checks of a request have established when they pass.
Permitted(u, op, t) ==
    /\ op \in JoinOps => u \in Users /\ phase = "registration"
    /\ op \in {"join", "accept"} => Cardinality(Joined(t)) < MaxTeamMembers
    /\ t \in TeamIds => team[t].status # "none"
    /\ op = "acceptSeat" => ~OnATeam(u)
    /\ op = "openJudging" => phase = "over" /\ Conflicts = {}

Asked(u, op, t, about) == Checked(u, op, t, about) /\ Permitted(u, op, t)

Check ==
    \E u \in Actors, about \in SUBSET Users :
       \/ \E op \in OtherOps : Asked(u, op, Nobody, about)
       \/ \E op \in TeamOps, t \in TeamIds : Asked(u, op, t, about)

\* A team exists from its creation on.
TeamsStay == \A t \in TeamIds : team'[t].status = "none" => team[t].status = "none"

\* A write ends a request, and only the write of a request to join or create a
\* team puts someone on one, only the write of an answer seats a judge.
Effect(u) ==
    /\ request[u].op # "none"
    /\ Done(u)
    /\ TeamsStay
    /\ \A t \in TeamIds :
         \/ Joined(t)' \subseteq Joined(t)
         \/ /\ u \in Users /\ Joined(t)' \subseteq Joined(t) \cup {u}
            /\ \/ u \in Joiners(t)
               \/ request[u].op = "create" /\ team[t].status = "none" /\ team'[t].status # "none"
    /\ \A c \in Candidates :
         seat'[c] = "ACTIVE" => seat[c] = "ACTIVE" \/ request[c].op = "acceptSeat"
    /\ \/ phase' = phase
       \/ u = Host /\ request[u].op = "openJudging" /\ phase' = "JUDGING"

\* Every other step ends and starts no request, and makes neither a member nor
\* an active judge.
Quiet ==
    /\ UNCHANGED <<request, crowd>>
    /\ TeamsStay
    /\ \A t \in TeamIds : Joined(t)' \subseteq Joined(t)
    /\ \A c \in Candidates : seat'[c] = "ACTIVE" => seat[c] = "ACTIVE"
    /\ phase' = phase \/ Deadline

\* A team that does not exist has no members, and no request is about it.
NoGhosts ==
    \A t \in TeamIds : team[t].status = "none" =>
        Joined(t) = {} /\ \A u \in Actors : request[u].team # t

\* A change of one membership changes who is on one team, by one user.
LEMMA SetMemberJoins ==
    ASSUME TeamsTypeOK, NEW t \in TeamIds, NEW u \in Users, NEW s \in MemberStatus,
           SetMember(t, u, s)
    PROVE  /\ member' \in [TeamIds -> [Users -> MemberStatus]]
           /\ \A x \in TeamIds : x # t => Joined(x)' = Joined(x)
           /\ Joined(t)' \subseteq Joined(t) \cup {u}
           /\ s # "JOINED" => Joined(t)' \subseteq Joined(t)
<1>1. member' = [member EXCEPT ![t] = [member[t] EXCEPT ![u] = s]]
  BY DEF SetMember
<1>2. [member[t] EXCEPT ![u] = s] \in [Users -> MemberStatus]
  BY DEF TeamsTypeOK
<1>3. member' \in [TeamIds -> [Users -> MemberStatus]]
  BY <1>1, <1>2 DEF TeamsTypeOK
<1>4. \A x \in TeamIds : x # t => member'[x] = member[x]
  BY <1>1 DEF TeamsTypeOK
<1>5. \A v \in Users : member'[t][v] = IF v = u THEN s ELSE member[t][v]
  BY <1>1, <1>2 DEF TeamsTypeOK
<1> QED
  BY <1>3, <1>4, <1>5 DEF Joined

\* A step of the teams is a check, a write or a quiet step.
LEMMA TeamsSteps ==
    ASSUME TeamsTypeOK, NoGhosts, [TeamsNext]_teamsVars
    PROVE  TeamsTypeOK' /\ (Check \/ (\E u \in Actors : Effect(u)) \/ Quiet)
<1> USE DEF TeamsTypeOK, Actors
<1>1. crowd.who \subseteq Users
  BY TeamsAssumption
<1>2. NoRequest \in Requests
  BY DEF NoRequest, Requests, Phases
<1>3. ASSUME NEW u \in Actors, NEW about \in SUBSET Users, NEW op \in OtherOps,
             Asked(u, op, Nobody, about)
      PROVE  TeamsTypeOK' /\ Check
  BY <1>3 DEF Asked, Checked, Requests, Check
<1>4. ASSUME NEW u \in Actors, NEW about \in SUBSET Users, NEW op \in TeamOps,
             NEW t \in TeamIds, Asked(u, op, t, about)
      PROVE  TeamsTypeOK' /\ Check
  BY <1>4 DEF Asked, Checked, Requests, Check
<1>5. CASE UNCHANGED teamsVars
  BY <1>5 DEF teamsVars, Quiet, TeamsStay, Joined
<1>6. CASE Deadline
  BY <1>6 DEF Deadline, Quiet, TeamsStay, Joined, Phases
<1>7. ASSUME NEW u \in Users, RegisterForEvent(u) \/ CancelRegistration(u) \/ CancelRegistrationWrite(u)
      PROVE  TeamsTypeOK' /\ (Check \/ (\E v \in Actors : Effect(v)) \/ Quiet)
  <2>1. CASE RegisterForEvent(u)
    BY <1>7, <2>1 DEF RegisterForEvent, AtOnce, Quiet, TeamsStay, Joined
  <2>2. CASE CancelRegistration(u)
    <3>1. Asked(u, "cancelRegistration", Nobody, {})
      BY <2>2, TeamsAssumption DEF CancelRegistration, Asked, Permitted, JoinOps
    <3> QED BY <1>3, <3>1 DEF Actors, OtherOps
  <2>3. CASE CancelRegistrationWrite(u)
    BY <1>2, <2>3 DEF CancelRegistrationWrite, Holds, Done, Effect, TeamsStay, Joined, Actors
  <2> QED BY <1>7, <2>1, <2>2, <2>3
<1>8. ASSUME NEW u \in Users, CreateTeam(u) \/ CreateTeamWrite(u)
      PROVE  TeamsTypeOK' /\ (Check \/ (\E v \in Actors : Effect(v)) \/ Quiet)
  <2>1. CASE CreateTeam(u)
    <3>1. Asked(u, "create", Nobody, {})
      BY <2>1, TeamsAssumption DEF CreateTeam, RegistrationOpen, Asked, Permitted, JoinOps
    <3> QED BY <1>3, <3>1 DEF Actors, OtherOps
  <2>2. CASE CreateTeamWrite(u)
    <3>1. PICK t \in TeamIds :
            /\ team[t].status = "none"
            /\ team' = [team EXCEPT ![t] = [status |-> "OPEN", leader |-> u]]
            /\ SetMember(t, u, "JOINED")
      BY <2>2 DEF CreateTeamWrite
    <3>2. /\ member' \in [TeamIds -> [Users -> MemberStatus]]
          /\ \A x \in TeamIds : x # t => Joined(x)' = Joined(x)
          /\ Joined(t)' \subseteq Joined(t) \cup {u}
      BY <3>1, SetMemberJoins DEF MemberStatus
    <3>3. TeamsTypeOK' /\ Done(u) /\ UNCHANGED <<phase, seat>> /\ request[u].op = "create"
      BY <1>2, <2>2, <3>1, <3>2 DEF CreateTeamWrite, Holds, Done, TeamStatus
    <3>4. TeamsStay /\ team'[t].status # "none"
      BY <3>1 DEF TeamsStay
    <3> QED BY <3>1, <3>2, <3>3, <3>4 DEF Effect
  <2> QED BY <1>8, <2>1, <2>2
<1>9. ASSUME NEW u \in Users, NEW t \in TeamIds,
             \/ \E v \in crowd.who : InviteMember(u, t, v)
             \/ JoinTeamByCode(u, t) \/ AcceptTeamInvite(u, t)
             \/ DisbandTeam(u, t) \/ SaveSubmission(u, t)
      PROVE  TeamsTypeOK' /\ Check
  <2>1. ASSUME NEW v \in crowd.who, InviteMember(u, t, v)
        PROVE  TeamsTypeOK' /\ Check
    <3>1. Asked(u, "invite", t, {v})
      BY <2>1 DEF InviteMember, Leads, Asked, Permitted, JoinOps
    <3> QED BY <1>1, <1>4, <3>1 DEF Actors, TeamOps
  <2>2. CASE JoinTeamByCode(u, t)
    <3>1. Asked(u, "join", t, {})
      BY <2>2 DEF JoinTeamByCode, CanJoinTeam, RegistrationOpen, Asked, Permitted, JoinOps
    <3> QED BY <1>4, <3>1 DEF Actors, TeamOps
  <2>3. CASE AcceptTeamInvite(u, t)
    <3>1. Asked(u, "accept", t, {})
      BY <2>3 DEF AcceptTeamInvite, CanJoinTeam, RegistrationOpen, Asked, Permitted, JoinOps
    <3> QED BY <1>4, <3>1 DEF Actors, TeamOps
  <2>4. CASE DisbandTeam(u, t)
    <3>1. Asked(u, "disband", t, {})
      BY <2>4 DEF DisbandTeam, Leads, Asked, Permitted, JoinOps
    <3> QED BY <1>4, <3>1 DEF Actors, TeamOps
  <2>5. CASE SaveSubmission(u, t)
    <3>1. Asked(u, "submit", t, {})
      BY <2>5 DEF SaveSubmission, Asked, Permitted, JoinOps, NoGhosts, Joined
    <3> QED BY <1>4, <3>1 DEF Actors, TeamOps
  <2> QED BY <1>9, <2>1, <2>2, <2>3, <2>4, <2>5
<1>12. ASSUME NEW u \in Users, NEW t \in TeamIds, DeclineTeamInvite(u, t) \/ LeaveTeam(u, t)
       PROVE  TeamsTypeOK' /\ Quiet
  <2>1. PICK s \in {"DECLINED", "LEFT"} : SetMember(t, u, s)
    BY <1>12 DEF DeclineTeamInvite, LeaveTeam
  <2>2. /\ member' \in [TeamIds -> [Users -> MemberStatus]]
        /\ \A x \in TeamIds : Joined(x)' \subseteq Joined(x)
    <3>1. s \in MemberStatus /\ s # "JOINED"
      BY DEF MemberStatus
    <3>2. \A x \in TeamIds : x # t => Joined(x)' = Joined(x)
      BY <2>1, <3>1, SetMemberJoins
    <3>3. member' \in [TeamIds -> [Users -> MemberStatus]] /\ Joined(t)' \subseteq Joined(t)
      BY <2>1, <3>1, SetMemberJoins
    <3> QED BY <3>2, <3>3
  <2> QED BY <1>12, <2>2 DEF DeclineTeamInvite, LeaveTeam, AtOnce, Quiet, TeamsStay
<1>13. ASSUME NEW u \in Users, NEW t \in TeamIds, ToggleTeamLock(u, t)
       PROVE  TeamsTypeOK' /\ Quiet
  BY <1>13 DEF ToggleTeamLock, Leads, AtOnce, Quiet, TeamsStay, Joined, TeamStatus
<1>14. ASSUME NEW u \in Users, InviteMemberWrite(u) \/ JoinTeamWrite(u) \/ AcceptTeamInviteWrite(u)
       PROVE  TeamsTypeOK' /\ Effect(u)
  <2>1. request[u].team \in TeamIds
    BY <1>14 DEF InviteMemberWrite, JoinTeamWrite, AcceptTeamInviteWrite, Holds, Requests, OtherOps, Actors
  <2>2. CASE InviteMemberWrite(u)
    <3>1. PICK v \in request[u].about : SetMember(request[u].team, v, "INVITED")
      BY <2>2 DEF InviteMemberWrite
    <3>2. v \in Users
      BY <3>1 DEF Requests, Actors
    <3>3. /\ member' \in [TeamIds -> [Users -> MemberStatus]]
          /\ \A x \in TeamIds : Joined(x)' \subseteq Joined(x)
      BY <2>1, <3>1, <3>2, SetMemberJoins DEF MemberStatus
    <3>4. TeamsTypeOK' /\ Done(u) /\ TeamsStay /\ UNCHANGED <<phase, seat>> /\ request[u].op # "none"
      BY <1>2, <2>2, <3>3 DEF InviteMemberWrite, Holds, Done, TeamsStay
    <3> QED BY <3>3, <3>4 DEF Effect
  <2>3. CASE JoinTeamWrite(u) \/ AcceptTeamInviteWrite(u)
    <3>1. PICK t \in TeamIds :
            t = request[u].team /\ (SetMember(t, u, "JOINED") \/ UNCHANGED member)
      BY <2>1, <2>3 DEF JoinTeamWrite, AcceptTeamInviteWrite
    <3>2. /\ member' \in [TeamIds -> [Users -> MemberStatus]]
          /\ \A x \in TeamIds : x # t => Joined(x)' = Joined(x)
          /\ Joined(t)' \subseteq Joined(t) \cup {u}
      <4>1. CASE SetMember(t, u, "JOINED")
        BY <4>1, SetMemberJoins DEF MemberStatus
      <4>2. CASE UNCHANGED member
        BY <4>2 DEF Joined
      <4> QED BY <3>1, <4>1, <4>2
    <3>3. u \in Joiners(t)
      BY <2>3, <3>1 DEF JoinTeamWrite, AcceptTeamInviteWrite, Holds, Joiners
    <3>4. TeamsTypeOK' /\ Done(u) /\ TeamsStay /\ UNCHANGED <<phase, seat>> /\ request[u].op # "none"
      BY <1>2, <2>3, <3>2 DEF JoinTeamWrite, AcceptTeamInviteWrite, Holds, Done, TeamsStay
    <3> QED BY <3>2, <3>3, <3>4 DEF Effect
  <2> QED BY <1>14, <2>2, <2>3
<1>15. ASSUME NEW u \in Users, DisbandTeamWrite(u) \/ SaveSubmissionWrite(u)
       PROVE  TeamsTypeOK' /\ Effect(u)
  <2>1. request[u].team \in TeamIds
    BY <1>15 DEF DisbandTeamWrite, SaveSubmissionWrite, Holds, Requests, OtherOps, Actors
  <2>2. CASE DisbandTeamWrite(u)
    BY <1>2, <2>1, <2>2 DEF DisbandTeamWrite, Holds, Done, Effect, TeamsStay, Joined, MemberStatus, TeamStatus
  <2>3. CASE SaveSubmissionWrite(u)
    BY <1>2, <2>1, <2>3 DEF SaveSubmissionWrite, Holds, Done, Effect, TeamsStay, Joined
  <2> QED BY <1>15, <2>2, <2>3
<1>16. ASSUME NEW c \in Candidates, InviteJudge(c) \/ AcceptSeat(c)
       PROVE  TeamsTypeOK' /\ Check
  <2>1. c \in Users
    BY TeamsAssumption
  <2>2. CASE InviteJudge(c)
    <3>1. Asked(Host, "inviteJudge", Nobody, {c})
      BY <2>2, TeamsAssumption DEF InviteJudge, Asked, Permitted, JoinOps
    <3> QED BY <1>3, <2>1, <3>1 DEF Actors, OtherOps
  <2>3. CASE AcceptSeat(c)
    <3>1. Asked(c, "acceptSeat", Nobody, {})
      BY <2>3, TeamsAssumption DEF AcceptSeat, Asked, Permitted, JoinOps
    <3> QED BY <1>3, <2>1, <3>1 DEF Actors, OtherOps
  <2> QED BY <1>16, <2>2, <2>3
<1>17. CASE OpenJudging
  <2>1. Asked(Host, "openJudging", Nobody, {})
    BY <1>17, TeamsAssumption DEF OpenJudging, Asked, Permitted, JoinOps
  <2> QED BY <1>3, <2>1 DEF Actors, OtherOps
<1>18. ASSUME NEW c \in Candidates, AcceptSeatWrite(c)
       PROVE  TeamsTypeOK' /\ Effect(c) /\ c \in Actors
  BY <1>2, <1>18, TeamsAssumption DEF AcceptSeatWrite, Holds, Done, Effect, TeamsStay, Joined, SeatStatus, Actors
<1>19. ASSUME NEW c \in Candidates, NEW u, VacateSeat(u, c)
       PROVE  TeamsTypeOK' /\ Quiet
  BY <1>19 DEF VacateSeat, AtOnce, Quiet, TeamsStay, Joined, SeatStatus
<1>20. CASE InviteJudgeWrite
  <2>1. TeamsTypeOK'
    BY <1>2, <1>20 DEF InviteJudgeWrite, Done, SeatStatus
  <2>2. Effect(Host)
    BY <1>20 DEF InviteJudgeWrite, Holds, Done, Effect, TeamsStay, Joined
  <2> QED BY <2>1, <2>2 DEF Actors
<1>21. CASE OpenJudgingWrite
  BY <1>2, <1>21 DEF OpenJudgingWrite, Holds, Done, Effect, TeamsStay, Joined, Actors, Phases
<1> QED
  BY <1>1, <1>5, <1>6, <1>7, <1>8, <1>9, <1>12, <1>13, <1>14, <1>15, <1>16, <1>17, <1>18, <1>19,
     <1>20, <1>21 DEF TeamsNext, Registration, TeamAction, Seats, Actors

\* A request to become a member was checked while registration was open and is
\* written before the hackathon is over; who answers a judge invitation is on no
\* team until the answer is written; and judging is opened, and stays, clean.
SeatInv ==
    /\ \A u \in Actors : request[u].op \in JoinOps =>
         request[u].since = "registration" /\ phase \in {"registration", "running"}
    /\ \A c \in Candidates : request[c].op = "acceptSeat" => ~OnATeam(c)
    /\ request[Host].op = "openJudging" \/ phase = "JUDGING" =>
         phase \in {"over", "JUDGING"} /\ Conflicts = {}

\* A check starts the request of one person and changes nothing else.
LEMMA CheckStarts ==
    ASSUME TeamsTypeOK, NEW u \in Actors, NEW op, NEW t, NEW about, Asked(u, op, t, about)
    PROVE  /\ request[u].op = "none"
           /\ request'[u].op = op /\ request'[u].team = t /\ request'[u].since = phase
           /\ \A v \in Actors : v # u => request'[v] = request[v]
           /\ UNCHANGED <<phase, team, member, seat, crowd>>
           /\ Cardinality(Busy) < crowd.width
BY DEF Asked, Checked, TeamsTypeOK

\* The write of a request ends it, and only it.
LEMMA WriteEnds ==
    ASSUME TeamsTypeOK, NEW u \in Actors, Effect(u)
    PROVE  /\ request[u].op # "none"
           /\ request'[u].op = "none" /\ request'[u].team = Nobody
           /\ \A v \in Actors : v # u => request'[v] = request[v]
           /\ UNCHANGED crowd
BY DEF Effect, Done, NoRequest, TeamsTypeOK

\* Whoever a step puts on a team had asked for it.
LEMMA JoinsWereAsked ==
    ASSUME (\E u \in Actors : Effect(u)) \/ Quiet, NEW v \in Users, OnATeam(v)'
    PROVE  OnATeam(v) \/ request[v].op \in JoinOps
<1>1. PICK t \in TeamIds : v \in Joined(t)'
  BY DEF OnATeam, Joined
<1>2. CASE v \in Joined(t)
  BY <1>2 DEF OnATeam, Joined
<1>3. CASE v \notin Joined(t)
  BY <1>1, <1>3 DEF Effect, Quiet, Joiners, JoinOps
<1> QED BY <1>2, <1>3

\* Every step preserves the seat invariant.
LEMMA SeatsKeep ==
    ASSUME TeamsTypeOK, NoGhosts, SeatInv, [TeamsNext]_teamsVars
    PROVE  SeatInv'
<1>1. ASSUME NEW u \in Actors, NEW op, NEW t, NEW about, Asked(u, op, t, about)
      PROVE  SeatInv'
  <2>1. /\ request'[u].op = op /\ request'[u].since = phase
        /\ \A v \in Actors : v # u => request'[v] = request[v]
        /\ UNCHANGED <<phase, team, member, seat>>
    BY <1>1, CheckStarts
  <2>2. Conflicts' = Conflicts /\ \A c : OnATeam(c)' <=> OnATeam(c)
    BY <2>1 DEF Conflicts, OnATeam
  <2>3. \A v \in Actors : request'[v].op \in JoinOps =>
           request'[v].since = "registration" /\ phase' \in {"registration", "running"}
    BY <1>1, <2>1 DEF Asked, Permitted, SeatInv
  <2>4. \A c \in Candidates : request'[c].op = "acceptSeat" => ~OnATeam(c)'
    BY <1>1, <2>1, <2>2, TeamsAssumption DEF Asked, Permitted, SeatInv, Actors
  <2>5. request'[Host].op = "openJudging" \/ phase' = "JUDGING" =>
           phase' \in {"over", "JUDGING"} /\ Conflicts' = {}
    BY <1>1, <2>1, <2>2 DEF Asked, Permitted, SeatInv, Actors
  <2> QED BY <2>3, <2>4, <2>5 DEF SeatInv
<1>2. ASSUME (\E u \in Actors : Effect(u)) \/ Quiet
      PROVE  SeatInv'
  <2>1. \A v \in Actors : request'[v] = request[v] \/ request'[v].op = "none"
    BY <1>2, WriteEnds DEF Quiet
  <2>2. \/ phase' = phase
        \/ request[Host].op = "openJudging" /\ phase' = "JUDGING"
        \/ Deadline
    BY <1>2 DEF Effect, Quiet
  <2>3. \A c \in Candidates :
           seat'[c] = "ACTIVE" => seat[c] = "ACTIVE" \/ request[c].op = "acceptSeat"
    BY <1>2 DEF Effect, Quiet
  <2>4. ASSUME NEW v \in Actors, request'[v].op \in JoinOps
        PROVE  request'[v].since = "registration" /\ phase' \in {"registration", "running"}
    <3>1. request'[v] = request[v] /\ v \in Busy
      BY <2>1, <2>4 DEF JoinOps, Busy
    <3>2. request[v].since = "registration" /\ phase \in {"registration", "running"}
      BY <2>4, <3>1 DEF SeatInv
    <3>3. CASE Deadline
      BY <3>1, <3>2, <3>3 DEF Deadline
    <3>4. CASE request[Host].op = "openJudging"
      BY <3>2, <3>4 DEF SeatInv
    <3> QED BY <2>2, <3>1, <3>2, <3>3, <3>4
  <2>5. ASSUME NEW c \in Candidates, request'[c].op = "acceptSeat"
        PROVE  ~OnATeam(c)'
    <3>1. c \in Users /\ request'[c] = request[c]
      BY <2>1, <2>5, TeamsAssumption DEF Actors
    <3>2. ~OnATeam(c) /\ request[c].op \notin JoinOps
      BY <2>5, <3>1 DEF SeatInv, JoinOps
    <3> QED BY <1>2, <3>1, <3>2, JoinsWereAsked
  <2>6. ASSUME request'[Host].op = "openJudging" \/ phase' = "JUDGING"
        PROVE  phase' \in {"over", "JUDGING"} /\ Conflicts' = {}
    <3>1. request[Host].op = "openJudging" \/ phase = "JUDGING"
      BY <2>1, <2>2, <2>6 DEF Deadline, Actors
    <3>2. phase \in {"over", "JUDGING"} /\ Conflicts = {}
      BY <3>1 DEF SeatInv
    <3>3. phase' \in {"over", "JUDGING"}
      BY <2>2, <3>2 DEF Deadline
    <3>4. ASSUME NEW c \in Candidates, seat'[c] = "ACTIVE", OnATeam(c)'
          PROVE  FALSE
      <4>1. c \in Users /\ c \in Actors
        BY TeamsAssumption DEF Actors
      <4>2. OnATeam(c)
        BY <1>2, <3>2, <3>4, <4>1, JoinsWereAsked DEF SeatInv
      <4>3. seat[c] = "ACTIVE"
        BY <2>3, <3>4, <4>2 DEF SeatInv
      <4> QED BY <3>2, <4>2, <4>3 DEF Conflicts
    <3> QED BY <3>3, <3>4 DEF Conflicts
  <2> QED BY <2>4, <2>5, <2>6 DEF SeatInv
<1> QED
  BY <1>1, <1>2, TeamsSteps DEF Check

\* Members and requests belong to teams that exist.
LEMMA GhostsKeep ==
    ASSUME TeamsTypeOK, NoGhosts, [TeamsNext]_teamsVars
    PROVE  NoGhosts'
<1> SUFFICES ASSUME NEW t \in TeamIds, team'[t].status = "none"
             PROVE  Joined(t)' = {} /\ \A u \in Actors : request'[u].team # t
  BY DEF NoGhosts
<1>1. ASSUME NEW u \in Actors, NEW op, NEW x \in TeamIds \cup {Nobody}, NEW about, Asked(u, op, x, about)
      PROVE  Joined(t)' = {} /\ \A v \in Actors : request'[v].team # t
  <2>1. /\ request'[u].team = x
        /\ \A v \in Actors : v # u => request'[v] = request[v]
        /\ UNCHANGED <<team, member>>
    BY <1>1, CheckStarts
  <2>2. team[t].status = "none" /\ x # t
    BY <1>1, <2>1, TeamsAssumption DEF Asked, Permitted
  <2> QED BY <2>1, <2>2 DEF NoGhosts, Joined
<1>2. ASSUME NEW u \in Actors, Effect(u)
      PROVE  Joined(t)' = {} /\ \A v \in Actors : request'[v].team # t
  <2>1. team[t].status = "none"
    BY <1>2 DEF Effect, TeamsStay
  <2>2. Joined(t) = {} /\ \A v \in Actors : request[v].team # t
    BY <2>1 DEF NoGhosts
  <2>3. Joined(t)' \subseteq Joined(t)
    BY <1>2, <2>2 DEF Effect, Joiners, Actors
  <2> QED BY <1>2, <2>2, <2>3, WriteEnds, TeamsAssumption
<1>3. CASE Quiet
  BY <1>3 DEF Quiet, TeamsStay, NoGhosts
<1> QED
  BY <1>1, <1>2, <1>3, TeamsSteps DEF Check

\* As many requests are under way as the crowd is wide, and members of a team
\* and requests to join it together stay below the bound.
SizeInv ==
    /\ Cardinality(Busy) <= crowd.width
    /\ \A t \in TeamIds :
         Cardinality(Joined(t)) + Cardinality(Joiners(t)) < MaxTeamMembers + crowd.width

\* The sets that are counted are finite.
LEMMA Counts ==
    /\ IsFiniteSet(Busy) /\ Cardinality(Busy) \in Nat
    /\ \A t : IsFiniteSet(Joined(t)) /\ Cardinality(Joined(t)) \in Nat
    /\ \A t : IsFiniteSet(Joiners(t)) /\ Cardinality(Joiners(t)) \in Nat
<1>1. IsFiniteSet(Users) /\ IsFiniteSet(Actors)
  BY TeamsAssumption, FS_AddElement DEF Actors
<1> QED
  BY <1>1, FS_Subset, FS_CardinalityType DEF Busy, Joined, Joiners

\* They are as well after a step.
LEMMA CountsThen ==
    /\ IsFiniteSet(Busy') /\ Cardinality(Busy') \in Nat
    /\ \A t : IsFiniteSet(Joined(t)') /\ Cardinality(Joined(t)') \in Nat
    /\ \A t : IsFiniteSet(Joiners(t)') /\ Cardinality(Joiners(t)') \in Nat
<1>1. IsFiniteSet(Users) /\ IsFiniteSet(Actors)
  BY TeamsAssumption, FS_AddElement DEF Actors
<1> QED
  BY <1>1, FS_Subset, FS_CardinalityType DEF Busy, Joined, Joiners

\* Every step preserves the bound.
LEMMA SizesKeep ==
    ASSUME TeamsTypeOK, NoGhosts, SizeInv, [TeamsNext]_teamsVars
    PROVE  SizeInv'
<1>0. crowd.width \in Nat \ {0} /\ MaxTeamMembers \in Nat \ {0}
  BY TeamsAssumption DEF TeamsTypeOK
<1>1. ASSUME NEW u \in Actors, NEW op \in OtherOps \cup TeamOps, NEW x, NEW about, Asked(u, op, x, about)
      PROVE  SizeInv'
  <2>1. /\ request[u].op = "none" /\ request'[u].op = op /\ request'[u].team = x
        /\ \A v \in Actors : v # u => request'[v] = request[v]
        /\ UNCHANGED <<phase, team, member, seat, crowd>>
        /\ Cardinality(Busy) < crowd.width
    BY <1>1, CheckStarts
  <2>2. Busy' = Busy \cup {u} /\ u \notin Busy
    BY <2>1 DEF Busy, OtherOps, TeamOps
  <2>3. Cardinality(Busy') <= crowd.width
    <3>1. Cardinality(Busy \cup {u}) = Cardinality(Busy) + 1
      BY <2>2, Counts, FS_AddElement
    <3>2. Cardinality(Busy') = Cardinality(Busy) + 1
      BY <2>2, <3>1
    <3> QED BY <1>0, <2>1, <3>2, Counts
  <2>4. ASSUME NEW t \in TeamIds
        PROVE  Cardinality(Joined(t)') + Cardinality(Joiners(t)') < MaxTeamMembers + crowd.width
    <3>1. Joined(t)' = Joined(t)
      BY <2>1 DEF Joined
    <3>2. CASE op \in {"join", "accept"} /\ x = t
      <4>1. Joiners(t)' \subseteq Busy'
        BY DEF Joiners, Busy, Actors
      <4>2. Cardinality(Joiners(t)') <= Cardinality(Busy')
        BY <4>1, CountsThen, FS_Subset
      <4>3. Cardinality(Joined(t)) < MaxTeamMembers
        BY <1>1, <3>2 DEF Asked, Permitted
      <4> QED BY <1>0, <2>3, <3>1, <4>2, <4>3, Counts, CountsThen
    <3>3. CASE ~(op \in {"join", "accept"} /\ x = t)
      <4>1. Joiners(t)' = Joiners(t)
        BY <2>1, <3>3 DEF Joiners, Actors
      <4> QED BY <3>1, <4>1 DEF SizeInv
    <3> QED BY <3>2, <3>3
  <2> QED BY <2>1, <2>3, <2>4 DEF SizeInv
<1>2. ASSUME NEW u \in Actors, Effect(u)
      PROVE  SizeInv'
  <2>1. /\ request[u].op # "none" /\ request'[u].op = "none"
        /\ \A v \in Actors : v # u => request'[v] = request[v]
        /\ UNCHANGED crowd
    BY <1>2, WriteEnds
  <2>2. Busy' = Busy \ {u} /\ u \in Busy
    BY <2>1 DEF Busy
  <2>3. Cardinality(Busy') <= crowd.width
    <3>1. Cardinality(Busy \ {u}) = Cardinality(Busy) - 1
      BY <2>2, Counts, FS_RemoveElement
    <3>2. Cardinality(Busy') = Cardinality(Busy) - 1
      BY <2>2, <3>1
    <3> QED BY <1>0, <3>2, Counts DEF SizeInv
  <2>4. ASSUME NEW t \in TeamIds
        PROVE  Cardinality(Joined(t)') + Cardinality(Joiners(t)') < MaxTeamMembers + crowd.width
    <3>1. Joiners(t)' = Joiners(t) \ {u}
      BY <2>1 DEF Joiners, Actors
    <3>2. Cardinality(Joiners(t)') <= Cardinality(Joiners(t))
      BY <3>1, Counts, FS_Subset
    <3>3. CASE Joined(t)' \subseteq Joined(t)
      <4>1. Cardinality(Joined(t)') <= Cardinality(Joined(t))
        BY <3>3, Counts, FS_Subset
      <4> QED BY <1>0, <3>2, <4>1, Counts, CountsThen DEF SizeInv
    <3>4. CASE Joined(t)' \subseteq Joined(t) \cup {u} /\ u \in Joiners(t)
      <4>1. Cardinality(Joined(t)') <= Cardinality(Joined(t) \cup {u})
        BY <3>4, Counts, FS_AddElement, FS_Subset
      <4>2. Cardinality(Joined(t) \cup {u}) <= Cardinality(Joined(t)) + 1
        BY Counts, FS_AddElement
      <4>3. Cardinality(Joiners(t)') = Cardinality(Joiners(t)) - 1
        BY <3>1, <3>4, Counts, FS_RemoveElement
      <4>4. Cardinality(Joined(t) \cup {u}) \in Nat
        BY Counts, FS_AddElement, FS_CardinalityType
      <4> QED BY <1>0, <4>1, <4>2, <4>3, <4>4, Counts, CountsThen DEF SizeInv
    <3>5. CASE Joined(t)' \subseteq Joined(t) \cup {u} /\ team[t].status = "none"
      <4>1. Joined(t) = {} /\ Joiners(t) = {}
        BY <3>5 DEF NoGhosts, Joiners, Actors
      <4>2. Joined(t)' \subseteq {u} /\ Joiners(t)' = {}
        BY <3>1, <3>5, <4>1
      <4>3. IsFiniteSet({u}) /\ Cardinality({u}) = 1
        BY FS_Singleton
      <4>4. Cardinality(Joined(t)') <= 1
        BY <4>2, <4>3, FS_Subset
      <4>5. Cardinality(Joiners(t)') = 0
        BY <4>2, FS_EmptySet
      <4> QED BY <1>0, <4>4, <4>5, CountsThen
    <3> QED BY <1>2, <3>3, <3>4, <3>5 DEF Effect
  <2> QED BY <2>1, <2>3, <2>4 DEF SizeInv
<1>3. CASE Quiet
  <2>1. Busy' = Busy /\ UNCHANGED crowd
    BY <1>3 DEF Quiet, Busy
  <2>2. ASSUME NEW t \in TeamIds
        PROVE  Cardinality(Joined(t)') + Cardinality(Joiners(t)') < MaxTeamMembers + crowd.width
    <3>1. Joiners(t)' = Joiners(t) /\ Joined(t)' \subseteq Joined(t)
      BY <1>3 DEF Quiet, Joiners
    <3>2. Cardinality(Joined(t)') <= Cardinality(Joined(t))
      BY <3>1, Counts, FS_Subset
    <3> QED BY <1>0, <3>1, <3>2, Counts, CountsThen DEF SizeInv
  <2> QED BY <2>1, <2>2 DEF SizeInv
<1> QED
  BY <1>1, <1>2, <1>3, TeamsSteps DEF Check

TeamsInv == TeamsTypeOK /\ NoGhosts /\ SeatInv /\ SizeInv

\* The initial states satisfy the invariant.
LEMMA TeamsStart == TeamsInit => TeamsInv
<1> SUFFICES ASSUME TeamsInit PROVE TeamsInv
  OBVIOUS
<1>1. TeamsTypeOK
  BY TeamsAssumption DEF TeamsInit, TeamsTypeOK, Phases, TeamStatus, MemberStatus, SeatStatus,
     NoRequest, Requests
<1>2. \A u \in Actors : request[u] = NoRequest
  BY DEF TeamsInit
<1>3. /\ Busy = {} /\ \A t \in TeamIds : Joined(t) = {} /\ Joiners(t) = {}
  BY <1>2 DEF TeamsInit, Busy, Joined, Joiners, NoRequest, Actors
<1>4. NoGhosts
  BY <1>2, <1>3, TeamsAssumption DEF NoGhosts, NoRequest
<1>5. SeatInv
  BY <1>2, TeamsAssumption DEF TeamsInit, SeatInv, NoRequest, JoinOps, Actors
<1>6. crowd.width \in Nat \ {0} /\ MaxTeamMembers \in Nat \ {0}
  BY TeamsAssumption DEF TeamsInit
<1>7. SizeInv
  BY <1>3, <1>6, FS_EmptySet DEF SizeInv
<1> QED BY <1>1, <1>4, <1>5, <1>7 DEF TeamsInv

\* The invariant holds throughout every competition.
LEMMA TeamsInvariant == Spec => []TeamsInv
<1>1. Init => TeamsInv
  BY TeamsStart DEF Init
<1>2. ASSUME TeamsInv, [Next]_vars PROVE TeamsInv'
  <2>1. [TeamsNext]_teamsVars
    BY <1>2 DEF Next, Forming, Scoring, vars, teamsVars
  <2> QED BY <1>2, <2>1, TeamsSteps, GhostsKeep, SeatsKeep, SizesKeep DEF TeamsInv
<1> QED
  BY <1>1, <1>2, PTL DEF Spec

\* While judging is open no active judge is on a team of the hackathon, although
\* joining, answering an invitation to judge and opening judging each check
\* first and write later.
THEOREM JudgesStayOut == Spec => []JudgesDoNotCompete
<1>1. TeamsInv => JudgesDoNotCompete
  BY DEF TeamsInv, SeatInv, JudgesDoNotCompete
<1> QED BY <1>1, TeamsInvariant, PTL

\* A team outgrows its cap by less than the number of requests that overlap.
THEOREM TeamsStaySmall == Spec => []TeamSizeBounded
<1>1. TeamsInv => TeamSizeBounded
  <2> SUFFICES ASSUME TeamsInv, NEW t \in TeamIds
               PROVE  Cardinality(Joined(t)) < MaxTeamMembers + crowd.width
    BY DEF TeamSizeBounded
  <2>1. crowd.width \in Nat \ {0} /\ MaxTeamMembers \in Nat \ {0}
    BY TeamsAssumption DEF TeamsInv, TeamsTypeOK
  <2> QED BY <2>1, Counts DEF TeamsInv, SizeInv
<1> QED BY <1>1, TeamsInvariant, PTL

\* Every variable of the competition has its type.
THEOREM CompetitionTypes == Spec => []TypeOK
<1>1. TeamsInv /\ JudgingInv => TypeOK
  BY DEF TeamsInv, JudgingInv, TypeOK
<1> QED BY <1>1, TeamsInvariant, JudgingInvariant, PTL
=============================================================================
