------------------------------- MODULE Legacy -------------------------------
(***************************************************************************)
(* The three-month check-ins of services/legacy/service.ts: the rows that  *)
(* an announcement schedules, the daily sweep that reminds the team and    *)
(* closes what stays unanswered, the outcome a member records with its     *)
(* portfolio mirror, and the milestone nudges of the same cron.            *)
(*                                                                         *)
(* The days a check-in is overdue are told apart only as far as the sweep  *)
(* does: before it is due, from day 0, from day 14 and from day 28.  One   *)
(* sweep runs at a time (the cron is a singleton job); it may die anywhere.*)
(***************************************************************************)
EXTENDS Integers, FiniteSets

CONSTANTS
    Projects,      \* submissions of the event
    Members,       \* members of a submission's team who answer
    Outcomes,      \* the outcomes a member records
    BatchSize,     \* check-ins one sweep takes (100 in the code)
    DeathBound     \* model bound: sweeps that die

ASSUME LegacyAssumption ==
    /\ BatchSize \in Nat \ {0}
    /\ DeathBound \in Nat
    /\ Outcomes \subseteq {"STILL_DEMO", "IN_PRODUCTION", "PIVOTED", "ABANDONED"}

VARIABLES
    overdue,    \* how overdue each project's check-in is by now
    checkin,    \* LegacyCheckin.outcome; "none" without a row, "due" while open
    reminders,  \* LegacyCheckin.reminderCount
    reminded,   \* history: reminders the team was really sent
    lifecycle,  \* PortfolioItem.lifecycle
    batch,      \* what the running sweep read of the check-ins left to process
    mailed,     \* the check-in whose reminder is sent and not yet counted
    mirroring,  \* the outcome each member has recorded and not yet mirrored
    deaths      \* sweeps that died so far

legacyVars == <<overdue, checkin, reminders, reminded, lifecycle, batch, mailed,
                mirroring, deaths>>

Overdue   == 0 .. 3                   \* not due, day 0, day 14, day 28
NotTaken  == [late |-> 0, count |-> 0]
Closings  == Outcomes \cup {"UNRESPONSIVE"}
Lifecycle == {"DEMO", "IN_PRODUCTION", "PIVOTED", "ARCHIVED"}
NoMirror  == <<>>

LegacyInit ==
    /\ overdue = [s \in Projects |-> 0]
    /\ checkin = [s \in Projects |-> "none"]
    /\ reminders = [s \in Projects |-> 0]
    /\ reminded = [s \in Projects |-> 0]
    /\ lifecycle = [s \in Projects |-> "DEMO"]
    /\ batch = [s \in Projects |-> NotTaken]
    /\ mailed = {}
    /\ mirroring = [m \in Members |-> NoMirror]
    /\ deaths = 0

-----------------------------------------------------------------------------
(* Decisions *)

Taken      == {s \in Projects : batch[s].late > 0}
Sweeping   == Taken # {}

MutantDue == {s \in Projects : checkin[s] # "none" /\ overdue[s] > 0}
Due == {s \in Projects : checkin[s] = "due" /\ overdue[s] > 0}

\* From day 14 one reminder is due, from day 28 two.
RemindersDue(late) == late - 1

LifecycleOf(outcome) ==
    CASE outcome = "STILL_DEMO"    -> "DEMO"
      [] outcome = "IN_PRODUCTION" -> "IN_PRODUCTION"
      [] outcome = "PIVOTED"       -> "PIVOTED"
      [] outcome = "ABANDONED"     -> "ARCHIVED"

-----------------------------------------------------------------------------
(* scheduleLegacyCheckins, and the days passing *)

ScheduleCheckins ==
    /\ \E s \in Projects : checkin[s] = "none"
    /\ checkin' = [s \in Projects |-> IF checkin[s] = "none" THEN "due" ELSE checkin[s]]
    /\ UNCHANGED <<overdue, reminders, reminded, lifecycle, batch, mailed, mirroring, deaths>>

\* Two weeks pass between two stages.
DaysPass(s) ==
    /\ checkin[s] # "none" /\ overdue[s] < 3
    /\ overdue' = [overdue EXCEPT ![s] = @ + 1]
    /\ UNCHANGED <<checkin, reminders, reminded, lifecycle, batch, mailed, mirroring, deaths>>

-----------------------------------------------------------------------------
(* runLegacySweep *)

\* The first BatchSize open check-ins, in whatever order the database has them.
SweepTakes ==
    /\ ~Sweeping
    /\ \E some \in SUBSET Due :
         /\ some # {}
         /\ \/ Cardinality(some) = BatchSize
            \/ some = Due /\ Cardinality(Due) < BatchSize
         /\ batch' = [s \in Projects |->
                       IF s \in some THEN [late |-> overdue[s], count |-> reminders[s]]
                       ELSE NotTaken]
    /\ UNCHANGED <<overdue, checkin, reminders, reminded, lifecycle, mailed, mirroring, deaths>>

SendReminder(s) ==
    /\ s \in Taken /\ s \notin mailed
    /\ batch[s].count < RemindersDue(batch[s].late)
    /\ mailed' = mailed \cup {s}
    /\ reminded' = [reminded EXCEPT ![s] = @ + 1]
    /\ UNCHANGED <<overdue, checkin, reminders, lifecycle, batch, mirroring, deaths>>

CountReminder(s) ==
    /\ s \in mailed
    /\ reminders' = [reminders EXCEPT ![s] = RemindersDue(batch[s].late)]
    /\ batch' = [batch EXCEPT ![s].count = RemindersDue(batch[s].late)]
    /\ mailed' = mailed \ {s}
    /\ UNCHANGED <<overdue, checkin, reminded, lifecycle, mirroring, deaths>>

\* Closed by id: an outcome the team recorded since the sweep began is overwritten.
FinishCheckin(s) ==
    /\ s \in Taken
    /\ batch[s].count >= RemindersDue(batch[s].late)
    /\ checkin' = IF batch[s].late = 3 THEN [checkin EXCEPT ![s] = "UNRESPONSIVE"] ELSE checkin
    /\ batch' = [batch EXCEPT ![s] = NotTaken]
    /\ UNCHANGED <<overdue, reminders, reminded, lifecycle, mailed, mirroring, deaths>>

SweepDies ==
    /\ Sweeping
    /\ deaths < DeathBound
    /\ batch' = [s \in Projects |-> NotTaken]
    /\ mailed' = {}
    /\ deaths' = deaths + 1
    /\ UNCHANGED <<overdue, checkin, reminders, reminded, lifecycle, mirroring>>

-----------------------------------------------------------------------------
(* recordLegacyOutcome: the check-in, then the portfolio item *)

\* A member may record at any time, even before the row exists, and again.
RecordOutcome(m, s, o) ==
    /\ mirroring[m] = NoMirror
    /\ checkin' = [checkin EXCEPT ![s] = o]
    /\ mirroring' = [mirroring EXCEPT ![m] = <<s, o>>]
    /\ UNCHANGED <<overdue, reminders, reminded, lifecycle, batch, mailed, deaths>>

MirrorOutcome(m) ==
    /\ mirroring[m] # NoMirror
    /\ lifecycle' = [lifecycle EXCEPT ![mirroring[m][1]] = LifecycleOf(mirroring[m][2])]
    /\ mirroring' = [mirroring EXCEPT ![m] = NoMirror]
    /\ UNCHANGED <<overdue, checkin, reminders, reminded, batch, mailed, deaths>>

-----------------------------------------------------------------------------
(* runMilestoneReminders *)

\* A milestone is nudged again on a day unless the 30-day window it is in,
\* counted without bound, exceeds the one counted up to four.
Nudged(days) ==
    LET window == IF days >= 90 THEN 4 ELSE IF days >= 60 THEN 3 ELSE IF days >= 30 THEN 2 ELSE 1
    IN  days \div 30 + 1 <= window

-----------------------------------------------------------------------------
SweepSteps == \E s \in Projects : SendReminder(s) \/ CountReminder(s) \/ FinishCheckin(s)

LegacyNext ==
    \/ ScheduleCheckins \/ SweepTakes \/ SweepSteps \/ SweepDies
    \/ \E s \in Projects :
         \/ DaysPass(s)
         \/ \E m \in Members, o \in Outcomes : RecordOutcome(m, s, o)
    \/ \E m \in Members : MirrorOutcome(m)

\* The cron runs every day, a started sweep goes on, and time passes.
LegacyFairness ==
    /\ WF_legacyVars(SweepTakes)
    /\ WF_legacyVars(SweepSteps)
    /\ \A s \in Projects : WF_legacyVars(DaysPass(s))

LegacySpec == LegacyInit /\ [][LegacyNext]_legacyVars /\ LegacyFairness

-----------------------------------------------------------------------------
(* Properties *)

\* Every variable has its type.
LegacyTypeOK ==
    /\ overdue \in [Projects -> Overdue]
    /\ checkin \in [Projects -> Closings \cup {"none", "due"}]
    /\ reminders \in [Projects -> 0 .. 2]
    /\ reminded \in [Projects -> 0 .. 2 + DeathBound]
    /\ lifecycle \in [Projects -> Lifecycle]
    /\ batch \in [Projects -> [late : Overdue, count : 0 .. 2]]
    /\ mailed \subseteq Taken
    /\ mirroring \in [Members -> {NoMirror} \cup (Projects \X Outcomes)]
    /\ deaths \in 0 .. DeathBound

\* A team is reminded at most twice, and once more for each sweep that died
\* between sending a reminder and counting it.
RemindersAreFew == \A s \in Projects : reminded[s] <= 2 + deaths

\* Every scheduled check-in is closed in the end, although one sweep takes only
\* BatchSize of the open ones, in no particular order, and may die.
CheckinsClose == \A s \in Projects : checkin[s] = "due" ~> checkin[s] \in Closings
=============================================================================
