------------------------------- MODULE Wizard -------------------------------
(***************************************************************************)
(* The event wizard in the browser (components/events/event-wizard.tsx):   *)
(* one form in five steps, of which only the shown one can be filled in.   *)
(* Continue checks the shown step, submitting checks the whole form and    *)
(* jumps to the step at fault.                                             *)
(*                                                                         *)
(* A text is known by what the schema says of it, a prize row by what of   *)
(* it is filled in.  Messages, the venue and the categories, which always  *)
(* pass, are left out.                                                     *)
(***************************************************************************)
EXTENDS Integers, SequencesExt

CONSTANTS
    RowBound,     \* rows of the prize table
    RowPlaces     \* places that an organizer may type

ASSUME WizardAssumption == RowBound \in Nat \ {0, 1} /\ RowPlaces \subseteq Nat

VARIABLES
    answers,       \* the answers
    shown,      \* the step on the screen
    sent,       \* the rows of the submission under way, or none
    basis,      \* "new", or "saved": what the form was opened with
    reverted    \* the server refused, and the texts are back at their defaults

wizardVars == <<answers, shown, sent, basis, reverted>>

LastStep    == 4
RowTypes  == [place : RowPlaces \cup 1 .. RowBound, label : BOOLEAN, amount : {"none", "small", "enough"}]
NewRow(n) == [place |-> n, label |-> TRUE, amount |-> "none"]

\* The texts that the inputs were rendered with.
DefaultTexts == IF basis = "new" THEN [basics |-> "undated", problem |-> FALSE, teams |-> TRUE]
                                 ELSE [basics |-> "good", problem |-> TRUE, teams |-> TRUE]

WizardInit ==
    /\ answers = [basics |-> "undated", problem |-> FALSE, teams |-> TRUE, rows |-> <<NewRow(1), NewRow(2)>>]
    /\ shown = 0 /\ sent = <<>> /\ basis = "new" /\ reverted = FALSE

-----------------------------------------------------------------------------
Complete(row) == row.label /\ row.amount # "none"
CompletePrizes(rows) == SelectSeq(rows, Complete)

MutantHalfFilled(row) == row.label /\ row.amount = "none"
HalfFilled(row)       == ~(row.label <=> row.amount # "none")

\* eventPrizesSchema and placesAreUnique, of the complete rows.
Completes(rows) == {i \in DOMAIN rows : Complete(rows[i])}
PrizesFit(rows) ==
    /\ Completes(rows) # {}
    /\ \A i \in Completes(rows) : rows[i].place >= 1 /\ rows[i].amount = "enough"
RowPlacesUnique(rows) ==
    \A i, j \in Completes(rows) : rows[i].place = rows[j].place => i = j

\* validateStep
StepPasses(n) ==
    CASE n = 0 -> answers.basics = "good"
      [] n = 1 -> answers.problem
      [] n = 2 -> /\ \A i \in DOMAIN answers.rows : ~HalfFilled(answers.rows[i])
                  /\ PrizesFit(answers.rows)
                  /\ RowPlacesUnique(answers.rows)
      [] n = 3 -> answers.teams

\* validateAll: the merged schema first, field by field, then what relates two
\* answers to one another.
Misfits ==
    {n \in 0 .. 3 : CASE n = 0 -> answers.basics \in {"undated", "untitled"}
                      [] n = 1 -> ~answers.problem
                      [] n = 2 -> ~PrizesFit(answers.rows)
                      [] n = 3 -> ~answers.teams}
Clashes == {n \in {0, 2} : IF n = 0 THEN answers.basics = "swapped"
                                    ELSE ~RowPlacesUnique(answers.rows)}
AtFault == IF Misfits # {} THEN Misfits ELSE Clashes

-----------------------------------------------------------------------------
Fills(f) == answers' = f /\ UNCHANGED <<shown, sent, basis, reverted>>

FillTexts ==
    \/ \E v \in {"undated", "untitled", "swapped", "good"} :
         shown = 0 /\ Fills([answers EXCEPT !.basics = v])
    \/ \E v \in BOOLEAN : shown = 1 /\ Fills([answers EXCEPT !.problem = v])
    \/ \E v \in BOOLEAN : shown = 3 /\ Fills([answers EXCEPT !.teams = v])

SetPrize(i, row) == shown = 2 /\ Fills([answers EXCEPT !.rows[i] = row])

\* The new row takes the number of rows as its place, which a remaining row may
\* have after a removal.
AddPlace ==
    /\ shown = 2 /\ Len(answers.rows) < RowBound
    /\ Fills([answers EXCEPT !.rows = Append(@, NewRow(Len(@) + 1))])

RemovePlace(i) ==
    /\ shown = 2 /\ Len(answers.rows) > 1
    /\ Fills([answers EXCEPT !.rows = RemoveAt(@, i)])

ContinueStep ==
    /\ shown < LastStep
    /\ StepPasses(shown)
    /\ shown' = shown + 1
    /\ UNCHANGED <<answers, sent, basis, reverted>>

BackStep == shown > 0 /\ shown' = shown - 1 /\ UNCHANGED <<answers, sent, basis, reverted>>

\* The submit button is on the last step, and inert while an answer is awaited.
SubmitForm ==
    /\ shown = LastStep /\ sent = <<>>
    /\ IF AtFault # {}
       THEN /\ shown' = Min(AtFault)
            /\ reverted' = FALSE /\ UNCHANGED sent
       ELSE /\ sent' = answers.rows
            /\ UNCHANGED <<shown, reverted>>
    /\ UNCHANGED <<answers, basis>>

\* saveEventAction redirects; the wizard is later opened on what was saved.
FormSaved ==
    /\ sent # <<>>
    /\ basis' = "saved"
    /\ answers' = [basics |-> "good", problem |-> TRUE, teams |-> TRUE, rows |-> CompletePrizes(sent)]
    /\ shown' = 0 /\ sent' = <<>> /\ reverted' = FALSE

\* saveEventAction returns an error: the form action resets the inputs that the
\* browser keeps, while the rows are state of the component.
FormRefused ==
    /\ sent # <<>>
    /\ answers' = [answers EXCEPT !.basics = DefaultTexts.basics,
                                  !.problem = DefaultTexts.problem, !.teams = DefaultTexts.teams]
    /\ sent' = <<>> /\ reverted' = TRUE
    /\ UNCHANGED <<shown, basis>>

WizardNext ==
    \/ FillTexts \/ AddPlace
    \/ \E i \in DOMAIN answers.rows : RemovePlace(i) \/ \E row \in RowTypes : SetPrize(i, row)
    \/ ContinueStep \/ BackStep \/ SubmitForm
    \/ FormSaved \/ FormRefused

WizardSpec == WizardInit /\ [][WizardNext]_wizardVars

-----------------------------------------------------------------------------
(* Properties *)

\* Every variable has its type.
WizardTypeOK ==
    /\ shown \in 0 .. LastStep /\ basis \in {"new", "saved"} /\ reverted \in BOOLEAN
    /\ answers.basics \in {"undated", "untitled", "swapped", "good"}
    /\ {answers.problem, answers.teams} \subseteq BOOLEAN
    /\ \A rows \in {answers.rows, sent} : Len(rows) <= RowBound /\ \A i \in DOMAIN rows : rows[i] \in RowTypes

\* However the organizer went back and forth, a submission leaves out no row that
\* has anything in it and names each place once, and the steps behind the shown one
\* hold answers that pass, unless a refusal has put them back.
NothingIsDropped ==
    /\ \A i, j \in DOMAIN sent :
         /\ sent[i].label <=> sent[i].amount # "none"
         /\ sent[i].label /\ sent[i].place = sent[j].place /\ sent[j].label => i = j
    /\ reverted \/ \A n \in 0 .. 3 : n < shown => StepPasses(n)
=============================================================================
