--------------------------- MODULE AftermathProofs ---------------------------
(***************************************************************************)
(* What holds after an announcement for any number of administrators,      *)
(* events, check-ins and partners, and whatever dies.  Each strand has an  *)
(* invariant of its own; a step of Next is a step of one strand, and       *)
(* leaves the variables of the others alone.                               *)
(***************************************************************************)
EXTENDS Aftermath, SequenceTheorems, TLAPS

(***************************************************************************)
(* Disputes                                                                *)
(***************************************************************************)

\* The confirmation, the payout and its unique key move together, so the milestone's
\* payout is there exactly when it is confirmed, by the one who confirmed it.
LEMMA ConfirmedOnceStep ==
    ASSUME ConfirmedOnce, [DisputesNext]_disputesVars
    PROVE  ConfirmedOnce'
<1>1. CASE UNCHANGED disputesVars
  BY <1>1 DEF ConfirmedOnce, disputesVars
<1>2. ASSUME NEW u \in Admins \cup OrgAdmins, ConfirmTx(u)
      PROVE  ConfirmedOnce'
  <2>1. u # NoOne
    BY DisputesAssumption
  <2>2. CASE PayoutUnique(u)
    BY <1>2, <2>1, <2>2 DEF ConfirmTx, PayoutUnique, ConfirmedOnce
  <2>3. CASE ~PayoutUnique(u)
    BY <1>2, <2>3 DEF ConfirmTx, ConfirmedOnce
  <2> QED BY <2>2, <2>3
<1>3. CASE OpenDispute \/ OpenDisputeWrite \/ InstantSucceeds \/ FourteenDays
  BY <1>3 DEF OpenDispute, OpenDisputeWrite, InstantSucceeds, FourteenDays, ConfirmedOnce
<1>4. ASSUME NEW a \in Admins,
             Resolve(a) \/ RefundCheck(a) \/ RefundWrite(a) \/ RefundVault(a) \/ Reject(a)
               \/ Release(a) \/ ReleaseRead(a)
      PROVE  ConfirmedOnce'
  BY <1>4 DEF Resolve, RefundCheck, RefundWrite, RefundVault, Reject, Release, ReleaseRead,
              ConfirmedOnce
<1>5. ASSUME NEW u \in Admins \cup OrgAdmins, ConfirmMilestone(u) \/ EnqueuePayout(u)
      PROVE  ConfirmedOnce'
  BY <1>5 DEF ConfirmMilestone, EnqueuePayout, ConfirmedOnce
<1> QED BY <1>1, <1>2, <1>3, <1>4, <1>5 DEF DisputesNext, AdminSteps

\* A milestone is paid at most once, created by whoever confirmed it, for any number
\* of administrators and organizers (confirmMilestone, resolveDispute).
THEOREM MilestoneConfirmedOnce == Spec => []ConfirmedOnce
<1>1. Init => ConfirmedOnce
  BY DEF Init, DisputesInit, ConfirmedOnce
<1>2. [Next]_aftermathVars => [DisputesNext]_disputesVars
  BY DEF Next, aftermathVars
<1>3. ConfirmedOnce /\ [Next]_aftermathVars => ConfirmedOnce'
  BY <1>2, ConfirmedOnceStep
<1> QED BY <1>1, <1>3, PTL DEF Spec

(***************************************************************************)
(* Media                                                                   *)
(***************************************************************************)

\* What the cron has read of an event is still true when it fines it: the event is
\* late, and nobody but this run fines.
CronIsHonest ==
    /\ fines \in [Events -> Nat] /\ late \in [Events -> BOOLEAN]
    /\ cron.todo \subseteq {e \in Events : late[e]}
    /\ cron.checked \subseteq {e \in Events : late[e] /\ fines[e] = 0}

MediaInv == CronIsHonest /\ FinedOnce

\* No step fines an obligation again that the cron or an admin has settled.
LEMMA MediaInvStep ==
    ASSUME MediaInv, [MediaNext]_mediaVars
    PROVE  MediaInv'
<1> USE DEF MediaInv, CronIsHonest, FinedOnce
<1>1. CASE UNCHANGED mediaVars
  BY <1>1 DEF mediaVars
<1>2. CASE CronReads
  BY <1>2 DEF CronReads, vaultVars, Running
<1>3. ASSUME NEW e \in Events, CronChecks(e)
      PROVE  MediaInv'
  <2>1. cron' = [cron EXCEPT !.todo = @ \ {e}, !.checked = IF Finable(e) THEN {e} ELSE {}]
    BY <1>3 DEF CronChecks
  <2> QED BY <1>3, <2>1 DEF CronChecks, Finable
<1>4. ASSUME NEW e \in Events, CronFines(e)
      PROVE  MediaInv'
  BY <1>4 DEF CronFines, vaultVars
<1>5. CASE CronDies
  BY <1>5 DEF CronDies, vaultVars
<1>6. ASSUME NEW e \in Events, DeadlinePasses(e)
      PROVE  MediaInv'
  BY <1>6 DEF DeadlinePasses, trustVars, vaultVars
<1>7. ASSUME NEW e \in Events, RequestUpload(e) \/ PutObject(e)
      PROVE  MediaInv'
  BY <1>7 DEF RequestUpload, PutObject, trustVars
<1>8. ASSUME NEW e \in Events, NEW r \in Rows, NEW status \in {"APPROVED", "HIDDEN"},
             ConfirmUpload(e, r) \/ SetMediaStatus(e, r, status)
      PROVE  MediaInv'
  BY <1>8 DEF ConfirmUpload, SetMediaStatus, trustVars
<1>9. ASSUME NEW a \in TrustAdmins, NEW delta \in Deltas \cup {10},
             AdminWrites(a) \/ AdminReads(a, delta)
      PROVE  MediaInv'
  BY <1>9 DEF AdminWrites, AdminReads, vaultVars
<1> QED
  BY <1>1, <1>2, <1>3, <1>4, <1>5, <1>6, <1>7, <1>8, <1>9 DEF MediaNext, CronSteps

\* One obligation costs one penalty, over all the runs of the cron, for any number of
\* events, administrators and deaths (enforceMediaDeadlines).
THEOREM ObligationFinedOnce == Spec => []FinedOnce
<1>1. Init => MediaInv
  BY DEF Init, MediaInit, MediaInv, CronIsHonest, FinedOnce, NoRun
<1>2. [Next]_aftermathVars => [MediaNext]_mediaVars
  BY DEF Next, aftermathVars
<1>3. MediaInv /\ [Next]_aftermathVars => MediaInv'
  BY <1>2, MediaInvStep
<1>4. MediaInv => FinedOnce
  BY DEF MediaInv
<1> QED BY <1>1, <1>3, <1>4, PTL DEF Spec

(***************************************************************************)
(* Legacy                                                                  *)
(***************************************************************************)

\* The sweep works on the reminder counts it has read, which nobody else writes;
\* a reminder that is sent and not yet counted is one too many at most.
RemindersAreCounted ==
    /\ overdue \in [Projects -> Overdue]
    /\ reminders \in [Projects -> 0 .. 2] /\ reminded \in [Projects -> Nat]
    /\ batch \in [Projects -> [late : Overdue, count : 0 .. 2]]
    /\ deaths \in Nat
    /\ mailed \subseteq Taken
    /\ \A s \in Taken : batch[s].count = reminders[s]
    /\ \A s \in mailed : batch[s].count < RemindersDue(batch[s].late)
    /\ \A s \in Projects : reminded[s] <= reminders[s] + deaths + IF s \in mailed THEN 1 ELSE 0

\* Every step keeps the reminders within what the rows and the deaths account for.
LEMMA RemindersStep ==
    ASSUME RemindersAreCounted, [LegacyNext]_legacyVars
    PROVE  RemindersAreCounted'
<1> USE DEF RemindersAreCounted, Taken, RemindersDue, Overdue
<1>1. CASE UNCHANGED legacyVars
  BY <1>1 DEF legacyVars
<1>2. CASE ScheduleCheckins
  BY <1>2 DEF ScheduleCheckins
<1>3. CASE SweepTakes
  <2>1. mailed = {}
    BY <1>3 DEF SweepTakes, Sweeping
  <2>2. PICK some \in SUBSET Due :
          batch' = [s \in Projects |-> IF s \in some THEN [late |-> overdue[s], count |-> reminders[s]]
                                       ELSE NotTaken]
    BY <1>3 DEF SweepTakes
  <2>3. batch' \in [Projects -> [late : Overdue, count : 0 .. 2]]
    BY <2>2 DEF NotTaken
  <2>4. \A s \in Projects : batch'[s].late > 0 => batch'[s].count = reminders[s]
    BY <2>2 DEF NotTaken
  <2> QED BY <1>3, <2>1, <2>3, <2>4 DEF SweepTakes
<1>4. ASSUME NEW s \in Projects, SendReminder(s)
      PROVE  RemindersAreCounted'
  BY <1>4 DEF SendReminder
<1>5. ASSUME NEW s \in Projects, CountReminder(s)
      PROVE  RemindersAreCounted'
  <2> DEFINE n == RemindersDue(batch[s].late)
  <2>1. n \in 1 .. 2 /\ reminders[s] + 1 <= n
    BY <1>5 DEF CountReminder
  <2>2. /\ batch' = [batch EXCEPT ![s].count = n]
        /\ reminders' = [reminders EXCEPT ![s] = n]
        /\ mailed' = mailed \ {s} /\ UNCHANGED <<overdue, reminded, deaths>>
    BY <1>5 DEF CountReminder
  <2>3. /\ batch' \in [Projects -> [late : Overdue, count : 0 .. 2]]
        /\ batch'[s].late = batch[s].late /\ batch'[s].count = n
        /\ \A q \in Projects \ {s} : batch'[q] = batch[q]
    BY <2>1, <2>2
  <2> HIDE DEF n
  <2>4. /\ reminders' \in [Projects -> 0 .. 2] /\ reminders'[s] = n
        /\ \A q \in Projects \ {s} : reminders'[q] = reminders[q]
    BY <2>1, <2>2
  <2> QED BY <2>1, <2>2, <2>3, <2>4
<1>6. ASSUME NEW s \in Projects, FinishCheckin(s)
      PROVE  RemindersAreCounted'
  <2>1. s \notin mailed
    BY <1>6 DEF FinishCheckin
  <2>2. /\ batch' = [batch EXCEPT ![s] = NotTaken]
        /\ UNCHANGED <<overdue, reminders, reminded, mailed, deaths>>
    BY <1>6 DEF FinishCheckin
  <2> QED BY <2>1, <2>2 DEF NotTaken
<1>7. CASE SweepDies
  <2>1. /\ batch' = [s \in Projects |-> NotTaken] /\ mailed' = {} /\ deaths' = deaths + 1
        /\ UNCHANGED <<overdue, reminders, reminded>>
    BY <1>7 DEF SweepDies
  <2>2. \A s \in Projects : reminded[s] <= reminders[s] + deaths + 1
    OBVIOUS
  <2> QED BY <2>1, <2>2 DEF NotTaken
<1>8. ASSUME NEW s \in Projects, DaysPass(s)
      PROVE  RemindersAreCounted'
  BY <1>8 DEF DaysPass
<1>9. ASSUME NEW m \in Members, NEW s \in Projects, NEW o \in Outcomes,
             RecordOutcome(m, s, o)
      PROVE  RemindersAreCounted'
  BY <1>9 DEF RecordOutcome
<1>10. ASSUME NEW m \in Members, MirrorOutcome(m)
       PROVE  RemindersAreCounted'
  BY <1>10 DEF MirrorOutcome
<1> QED
  BY <1>1, <1>2, <1>3, <1>4, <1>5, <1>6, <1>7, <1>8, <1>9, <1>10 DEF LegacyNext, SweepSteps

\* A team gets two reminders, and one more for each sweep that died between sending
\* and counting, for any number of check-ins and deaths (runLegacySweep).
THEOREM TeamsAreRemindedTwice == Spec => []RemindersAreFew
<1>1. Init => RemindersAreCounted
  BY DEF Init, LegacyInit, RemindersAreCounted, Overdue, NotTaken, Taken
<1>2. [Next]_aftermathVars => [LegacyNext]_legacyVars
  BY DEF Next, aftermathVars
<1>3. RemindersAreCounted /\ [Next]_aftermathVars => RemindersAreCounted'
  BY <1>2, RemindersStep
<1>4. RemindersAreCounted => RemindersAreFew
  <2> SUFFICES ASSUME RemindersAreCounted, NEW s \in Projects
               PROVE  reminded[s] <= 2 + deaths
    BY DEF RemindersAreFew
  <2>1. CASE s \in mailed
    BY <2>1 DEF RemindersAreCounted, Taken, RemindersDue, Overdue
  <2>2. CASE s \notin mailed
    BY <2>2 DEF RemindersAreCounted
  <2> QED BY <2>1, <2>2
<1> QED BY <1>1, <1>3, <1>4, PTL DEF Spec

(***************************************************************************)
(* Proof of work                                                           *)
(***************************************************************************)

\* An answer is only under way for an introduction that was asked for.
AnswersAreAsked ==
    /\ intro \in [Partners \X Profiles -> {"none", "REQUESTED", "ACCEPTED", "DECLINED"}]
    /\ \A p \in Partners \X Profiles, accept \in BOOLEAN :
         <<p, accept>> \in answering => intro[p] # "none"

IntroInv == AnswersAreAsked /\ ContactsFollowAcceptance

\* No step shares a contact before the builder has accepted.
LEMMA IntroInvStep ==
    ASSUME IntroInv, [PowNext]_powVars
    PROVE  IntroInv'
<1> USE DEF IntroInv, AnswersAreAsked, ContactsFollowAcceptance
<1>1. CASE UNCHANGED <<intro, answering, exchanged>>
  BY <1>1
<1>2. ASSUME NEW p \in Partners \X Profiles, WriteIntroduction(p)
      PROVE  IntroInv'
  BY <1>2 DEF WriteIntroduction
<1>3. ASSUME NEW p \in Partners \X Profiles, NEW accept \in BOOLEAN, Respond(p, accept)
      PROVE  IntroInv'
  BY <1>3 DEF Respond, Answerable
<1>4. ASSUME NEW p \in Partners \X Profiles, NEW accept \in BOOLEAN, WriteResponse(p, accept)
      PROVE  IntroInv'
  BY <1>4 DEF WriteResponse
<1>5. \/ UNCHANGED <<intro, answering, exchanged>>
      \/ \E p \in Partners \X Profiles :
           \/ WriteIntroduction(p)
           \/ \E accept \in BOOLEAN : Respond(p, accept) \/ WriteResponse(p, accept)
  BY DEF PowNext, powVars, introVars, AnnounceSteps, Announce, DrivePayout, MaterializePortfolio,
         ScheduleLegacy, AnnounceDies, RemoveJuror, Endorse, WriteEndorsement,
         SetEndorsementVisibility, BecomeHiringPartner, RequestIntroduction
<1> QED BY <1>1, <1>2, <1>3, <1>4, <1>5

\* Contacts change hands only on an acceptance, for any number of partners, winners
\* and windows that answer at once (respondToIntroduction).
THEOREM ContactsNeedAcceptance == Spec => []ContactsFollowAcceptance
<1>1. Init => IntroInv
  BY DEF Init, PowInit, IntroInv, AnswersAreAsked, ContactsFollowAcceptance
<1>2. [Next]_aftermathVars => [PowNext]_powVars
  BY DEF Next, aftermathVars
<1>3. IntroInv /\ [Next]_aftermathVars => IntroInv'
  BY <1>2, IntroInvStep
<1>4. IntroInv => ContactsFollowAcceptance
  BY DEF IntroInv
<1> QED BY <1>1, <1>3, <1>4, PTL DEF Spec

(***************************************************************************)
(* Standings                                                               *)
(***************************************************************************)

\* The results read no scores but those of the finalized reviews.
LEMMA ResultsOfFinal ==
    ASSUME NEW judges, NEW teams, NEW weight, NEW final, NEW old, NEW new,
           DOMAIN old = judges \X teams, DOMAIN new = judges \X teams,
           \A p \in final : p \in judges \X teams => old[p] = new[p]
    PROVE  ComputeResults(teams, weight, old, final) = ComputeResults(teams, weight, new, final)
<1>1. ASSUME NEW t \in teams PROVE Counting(t, old, final) = Counting(t, new, final)
  <2> DEFINE all == {p[1] : p \in judges \X teams}
  <2>1. \A j \in all : j \in judges
    OBVIOUS
  <2>2. \A j \in all : <<j, t>> \in final => old[<<j, t>>] = new[<<j, t>>]
    BY <2>1
  <2>3. /\ Counting(t, old, final) =
             {j \in all : /\ <<j, t>> \in final
                          /\ \E c \in DOMAIN old[<<j, t>>] : old[<<j, t>>][c] # NoScore}
        /\ Counting(t, new, final) =
             {j \in all : /\ <<j, t>> \in final
                          /\ \E c \in DOMAIN new[<<j, t>>] : new[<<j, t>>][c] # NoScore}
    BY DEF Counting
  <2> HIDE DEF all
  <2> QED BY <2>2, <2>3
<1>2. ASSUME NEW t \in teams
      PROVE  WeightedScore(t, weight, old, final) = WeightedScore(t, weight, new, final)
  <2> DEFINE js == Counting(t, new, final)
  <2>1. \A j \in js : j \in judges /\ <<j, t>> \in final
    BY DEF Counting
  <2>2. \A j \in js : old[<<j, t>>] = new[<<j, t>>]
    BY <2>1
  <2>3. Counting(t, old, final) = js
    BY <1>1
  <2>4. [j \in Counting(t, old, final) |-> Earned(old[<<j, t>>], weight)]
          = [j \in js |-> Earned(new[<<j, t>>], weight)]
    BY <2>2, <2>3
  <2> QED BY <2>4 DEF WeightedScore
<1>3. {u \in teams : Counting(u, old, final) # {}} = {u \in teams : Counting(u, new, final) # {}}
  BY <1>1
<1>4. [t \in {u \in teams : Counting(u, old, final) # {}} |-> WeightedScore(t, weight, old, final)]
        = [t \in {u \in teams : Counting(u, new, final) # {}} |-> WeightedScore(t, weight, new, final)]
  BY <1>2, <1>3
<1> QED BY <1>4 DEF ComputeResults

\* What is appended to one read is the second.
LEMMA AppendToOne ==
    ASSUME NEW a, NEW b
    PROVE  Append(<<a>>, b) = <<a, b>>
<1> DEFINE S == {a, b}
<1>1. <<a>> \in Seq(S) /\ <<a, b>> \in Seq(S) /\ b \in S /\ Len(<<a, b>>) = 2
  OBVIOUS
<1> HIDE DEF S
<1>2. Append(<<a>>, b) \in Seq(S) /\ Len(Append(<<a>>, b)) = 2
  BY <1>1, AppendProperties
<1>3. Append(<<a>>, b)[1] = a /\ Append(<<a>>, b)[2] = b
  BY <1>1, AppendProperties
<1>4. \A i \in 1 .. 2 : Append(<<a>>, b)[i] = <<a, b>>[i]
  BY <1>3
<1> QED BY <1>1, <1>2, <1>4, SeqEqual

\* The orders in which the two reads are answered.
LEMMA OrdersOfReads ==
    /\ Append(<<>>, "scores") = <<"scores">>
    /\ Append(<<>>, "progress") = <<"progress">>
    /\ Append(<<"progress">>, "scores") = <<"progress", "scores">>
    /\ Append(<<"scores">>, "progress") = <<"scores", "progress">>
    /\ Len(<<>>) = 0 /\ Len(<<"scores">>) = 1 /\ Len(<<"progress">>) = 1
    /\ <<>> # <<"scores">> /\ <<>> # <<"scores", "progress">> /\ <<>> # <<"progress", "scores">>
<1>1. Append(<<>>, "scores") = <<"scores">> /\ Append(<<>>, "progress") = <<"progress">>
  OBVIOUS
<1>2. /\ Len(<<>>) = 0 /\ Len(<<"scores">>) = 1 /\ Len(<<"progress">>) = 1
      /\ <<>> # <<"scores">> /\ <<>> # <<"scores", "progress">> /\ <<>> # <<"progress", "scores">>
  OBVIOUS
<1> QED BY <1>1, <1>2, AppendToOne

ReadOrders == {<<>>, <<"scores">>, <<"progress">>, <<"scores", "progress">>, <<"progress", "scores">>}

\* What the page has read: reviews that are finalized for good, and scores that no
\* judge has written since, or else, read last, those of the reviews it has read.
ReadsAgree ==
    /\ taken.order \in ReadOrders
    /\ taken.progress \subseteq closed
    /\ taken.order \in {<<"scores">>, <<"scores", "progress">>, <<"progress", "scores">>} =>
          DOMAIN taken.scores = Pairs(panel)
    /\ taken.order \in {<<"scores">>, <<"scores", "progress">>} /\ taken.changes = 0 =>
          taken.scores = sheet
    /\ taken.order = <<"progress", "scores">> =>
          \A p \in taken.progress : taken.scores[p] = sheet[p]

StandingsInv ==
    /\ DOMAIN taken = {"scores", "progress", "order", "changes"}
    /\ taken.changes \in Nat
    /\ DOMAIN sheet = Pairs(panel) /\ closed \subseteq Pairs(panel)
    /\ \A p \in closed, c \in DOMAIN Weights : sheet[p][c] # NoScore
    /\ ReadsAgree
    /\ board.steady => board.counted \subseteq closed
    /\ StandingsAreCurrent

\* A judge's write leaves what is finalized alone and takes the board down.
LEMMA JudgesWrite ==
    ASSUME StandingsInv, Meanwhile, UNCHANGED panel,
           DOMAIN sheet' = DOMAIN sheet, closed \subseteq closed', closed' \subseteq Pairs(panel),
           \A p \in closed : sheet'[p] = sheet[p],
           \A p \in closed', c \in DOMAIN Weights : sheet'[p][c] # NoScore
    PROVE  StandingsInv'
<1>1. board'.steady = FALSE
  BY DEF Meanwhile, NoBoard
<1>2. /\ DOMAIN taken' = DOMAIN taken /\ taken'.order = taken.order
      /\ taken'.scores = taken.scores /\ taken'.progress = taken.progress
      /\ taken'.changes = IF Rendering THEN taken.changes + 1 ELSE taken.changes
  BY DEF Meanwhile, StandingsInv
<1>3. Pairs(panel)' = Pairs(panel)
  BY DEF Pairs
<1>4. Rendering => taken'.changes # 0 /\ taken'.changes \in Nat
  BY <1>2 DEF StandingsInv
<1>5. ~Rendering => taken'.order = <<>>
  BY <1>2 DEF Rendering
<1>6. <<>> \notin {<<"scores">>, <<"scores", "progress">>, <<"progress", "scores">>}
  OBVIOUS
<1>7. ReadsAgree'
  BY <1>2, <1>3, <1>4, <1>5, <1>6 DEF ReadsAgree, StandingsInv
<1> QED BY <1>1, <1>2, <1>3, <1>4, <1>7 DEF StandingsInv, StandingsAreCurrent

\* A page that has read both reads has scores that count as they stand.
LEMMA BothReadsAgree ==
    ASSUME StandingsInv, Len(taken.order) = 2,
           taken.changes = 0 \/ Last(taken.order) = "scores"
    PROVE  DOMAIN taken.scores = Pairs(panel) /\ \A p \in taken.progress : taken.scores[p] = sheet[p]
<1>1. taken.order \in {<<"scores", "progress">>, <<"progress", "scores">>}
  <2>1. taken.order \in ReadOrders
    BY DEF StandingsInv, ReadsAgree
  <2>2. taken.order # <<>> /\ taken.order # <<"scores">> /\ taken.order # <<"progress">>
    BY OrdersOfReads
  <2> QED BY <2>1, <2>2 DEF ReadOrders
<1>2. DOMAIN taken.scores = Pairs(panel)
  BY <1>1 DEF StandingsInv, ReadsAgree
<1>3. CASE taken.order = <<"scores", "progress">>
  BY <1>2, <1>3 DEF StandingsInv, ReadsAgree, Last
<1>4. CASE taken.order = <<"progress", "scores">>
  BY <1>2, <1>4 DEF StandingsInv, ReadsAgree
<1> QED BY <1>1, <1>3, <1>4

\* Every step of the judges and of the page preserves the invariant.
LEMMA StandingsStep ==
    ASSUME StandingsInv, [StandingsNext]_standingsVars
    PROVE  StandingsInv'
<1>1. ASSUME NEW p \in Pairs(panel), SaveSheet(p) PROVE StandingsInv'
  <2>1. Meanwhile /\ UNCHANGED <<panel, closed>> /\ p \notin closed
    BY <1>1 DEF SaveSheet
  <2>2. DOMAIN sheet' = DOMAIN sheet /\ \A q \in closed : sheet'[q] = sheet[q]
    BY <1>1, <2>1 DEF SaveSheet, StandingsInv
  <2>3. \A q \in closed, c \in DOMAIN Weights : sheet'[q][c] # NoScore
    BY <2>2 DEF StandingsInv
  <2> QED BY <2>1, <2>2, <2>3, JudgesWrite DEF StandingsInv
<1>2. ASSUME NEW p \in Pairs(panel), CloseReview(p) PROVE StandingsInv'
  <2>1. Meanwhile /\ UNCHANGED <<panel, sheet>> /\ closed' = closed \cup {p}
    BY <1>2 DEF CloseReview
  <2>2. \A q \in closed', c \in DOMAIN Weights : sheet[q][c] # NoScore
    BY <1>2, <2>1 DEF CloseReview, StandingsInv
  <2> QED BY <2>1, <2>2, JudgesWrite DEF StandingsInv
<1>3. CASE ReadScores
  <2>1. /\ UNCHANGED <<panel, sheet, closed>> /\ board' = NoBoard
        /\ DOMAIN taken' = DOMAIN taken /\ taken'.scores = sheet
        /\ taken'.progress = taken.progress /\ taken'.changes = taken.changes
        /\ taken'.order = Append(taken.order, "scores")
    BY <1>3 DEF ReadScores, StandingsInv
  <2>2. taken.order \in {<<>>, <<"progress">>}
    <3>1. ~Contains(<<"scores">>, "scores") => FALSE
      BY DEF Contains
    <3>2. ~Contains(<<"scores", "progress">>, "scores") => FALSE
      BY DEF Contains
    <3>3. ~Contains(<<"progress", "scores">>, "scores") => FALSE
      BY DEF Contains
    <3> QED BY <1>3, <3>1, <3>2, <3>3 DEF ReadScores, StandingsInv, ReadsAgree, ReadOrders
  <2>3. taken'.order \in {<<"scores">>, <<"progress", "scores">>}
    BY <2>1, <2>2, OrdersOfReads
  <2>4. Pairs(panel)' = Pairs(panel)
    BY <2>1 DEF Pairs
  <2>5. ReadsAgree'
    BY <2>1, <2>3, <2>4 DEF StandingsInv, ReadsAgree, ReadOrders
  <2> QED BY <2>1, <2>4, <2>5 DEF StandingsInv, StandingsAreCurrent, NoBoard
<1>4. CASE ReadProgress
  <2>1. /\ UNCHANGED <<panel, sheet, closed>> /\ board' = NoBoard
        /\ DOMAIN taken' = DOMAIN taken /\ taken'.scores = taken.scores
        /\ taken'.progress = closed /\ taken'.changes = taken.changes
        /\ taken'.order = Append(taken.order, "progress")
    BY <1>4 DEF ReadProgress, StandingsInv
  <2>2. taken.order \in {<<>>, <<"scores">>}
    <3>1. ~Contains(<<"progress">>, "progress") => FALSE
      BY DEF Contains
    <3>2. ~Contains(<<"scores", "progress">>, "progress") => FALSE
      BY DEF Contains
    <3>3. ~Contains(<<"progress", "scores">>, "progress") => FALSE
      BY DEF Contains
    <3> QED BY <1>4, <3>1, <3>2, <3>3 DEF ReadProgress, StandingsInv, ReadsAgree, ReadOrders
  <2>3. \/ taken.order = <<>> /\ taken'.order = <<"progress">>
        \/ taken.order = <<"scores">> /\ taken'.order = <<"scores", "progress">>
    BY <2>1, <2>2, OrdersOfReads
  <2>4. Pairs(panel)' = Pairs(panel)
    BY <2>1 DEF Pairs
  <2>5. ReadsAgree'
    BY <2>1, <2>3, <2>4 DEF StandingsInv, ReadsAgree, ReadOrders
  <2> QED BY <2>1, <2>4, <2>5 DEF StandingsInv, StandingsAreCurrent, NoBoard
<1>5. CASE ShowStandings
  <2>1. /\ UNCHANGED <<panel, sheet, closed>> /\ taken' = NotRead
        /\ board'.counted = taken.progress /\ Len(taken.order) = 2
        /\ board'.ranks = ComputeResults(panel.teams, Weights, taken.scores, taken.progress)
        /\ board'.steady <=> taken.changes = 0 \/ Last(taken.order) = "scores"
    BY <1>5 DEF ShowStandings
  <2>2. board'.steady => board'.ranks = ComputeResults(panel.teams, Weights, sheet, taken.progress)
    <3> SUFFICES ASSUME board'.steady
                 PROVE  ComputeResults(panel.teams, Weights, taken.scores, taken.progress)
                          = ComputeResults(panel.teams, Weights, sheet, taken.progress)
      BY <2>1
    <3>1. DOMAIN taken.scores = Pairs(panel) /\ \A p \in taken.progress : taken.scores[p] = sheet[p]
      BY <2>1, BothReadsAgree
    <3>2. DOMAIN taken.scores = panel.judges \X panel.teams /\ DOMAIN sheet = panel.judges \X panel.teams
      BY <3>1 DEF StandingsInv, Pairs
    <3>3. \A p \in taken.progress : p \in panel.judges \X panel.teams => taken.scores[p] = sheet[p]
      BY <3>1
    <3>4. PICK judges, teams, final, old, new :
            /\ judges = panel.judges /\ teams = panel.teams /\ final = taken.progress
            /\ old = taken.scores /\ new = sheet
      OBVIOUS
    <3>5. /\ DOMAIN old = judges \X teams /\ DOMAIN new = judges \X teams
          /\ \A p \in final : p \in judges \X teams => old[p] = new[p]
      BY <3>2, <3>3, <3>4
    <3>6. ComputeResults(teams, Weights, old, final) = ComputeResults(teams, Weights, new, final)
      BY <3>5, ResultsOfFinal
    <3> QED BY <3>4, <3>6
  <2>3. Pairs(panel)' = Pairs(panel)
    BY <2>1 DEF Pairs
  <2>4. ReadsAgree'
    <3>1. taken'.order = <<>> /\ taken'.progress = {}
      BY <2>1 DEF NotRead
    <3>2. taken'.order \in ReadOrders
      BY <3>1 DEF ReadOrders
    <3>3. /\ taken'.order # <<"scores">> /\ taken'.order # <<"scores", "progress">>
          /\ taken'.order # <<"progress", "scores">>
      BY <3>1, OrdersOfReads
    <3> QED BY <3>1, <3>2, <3>3 DEF ReadsAgree
  <2>5. taken.progress \subseteq closed
    BY DEF StandingsInv, ReadsAgree
  <2>6. StandingsAreCurrent'
    BY <2>1, <2>2, <2>5 DEF StandingsInv, StandingsAreCurrent
  <2> QED BY <2>1, <2>3, <2>4, <2>5, <2>6 DEF StandingsInv, NotRead
<1>6. CASE UNCHANGED standingsVars
  BY <1>6 DEF standingsVars, StandingsInv, ReadsAgree, Pairs, StandingsAreCurrent
<1> QED BY <1>1, <1>2, <1>3, <1>4, <1>5, <1>6 DEF StandingsNext

\* The standings that a page shows are those of the reviews it counted as they stand,
\* each complete, although the two reads of the page are answered in any order and
\* judges write in between; all but those read in the order that the runs refute.
THEOREM StandingsAreOfOneMoment == Spec => []StandingsAreCurrent
<1>1. Init => StandingsInv
  <2> SUFFICES ASSUME StandingsInit PROVE StandingsInv
    BY DEF Init
  <2>1. ReadsAgree
    BY DEF StandingsInit, ReadsAgree, ReadOrders, NotRead
  <2> QED BY <2>1 DEF StandingsInit, StandingsInv, NotRead, NoBoard, StandingsAreCurrent
<1>2. StandingsInv => StandingsAreCurrent
  BY DEF StandingsInv
<1>3. [Next]_aftermathVars => [StandingsNext]_standingsVars
  BY DEF Next, aftermathVars
<1>4. StandingsInv /\ [Next]_aftermathVars => StandingsInv'
  BY <1>3, StandingsStep
<1> QED BY <1>1, <1>2, <1>4, PTL DEF Spec
=============================================================================
