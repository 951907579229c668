------------------------------- MODULE Media --------------------------------
(***************************************************************************)
(* The media vault and the trust score of one organization                 *)
(* (services/media/service.ts): uploads in two steps, the organizer's      *)
(* approvals, the deadline cron that fines an event without an approved    *)
(* asset, and the administrator's adjustments and appeals.                 *)
(*                                                                         *)
(* Everyone computes the new score from the one read earlier.  The cron    *)
(* reads the late events and the score once and then fines one event       *)
(* after another.  An organization keeps its owner: no code revokes one.   *)
(***************************************************************************)
EXTENDS Integers, FiniteSets, Functions

CONSTANTS
    Events,        \* hackathons of the organization
    Rows,          \* media rows an event may get (1 .. n)
    TrustAdmins,   \* administrators
    Deltas,        \* manual adjustments tried
    AdjustBound,   \* model bound: adjustments and appeals
    CronDeaths     \* model bound: cron runs that die

ASSUME MediaAssumption ==
    /\ Rows \subseteq Nat \ {0} /\ IsFiniteSet(Rows)
    /\ Deltas \subseteq -50 .. 50      \* larger ones are refused
    /\ AdjustBound \in Nat /\ CronDeaths \in Nat

VARIABLES
    late,       \* the event is in a fined status and past its media deadline
    file,       \* the object under the key issued for the event
    media,      \* MediaAsset.status by row; "none" without the row
    fines,      \* MEDIA_PENALTY TrustEvents of each event
    score,      \* Organization.trustScore
    ledger,     \* history: the sum of all TrustEvents
    cron,       \* the running cron: events left, score read, event checked
    adminAt,    \* an administrator's reading of the score and chosen delta
    adjusted,   \* adjustments and appeals so far
    cronDied    \* cron runs that died

mediaVars == <<late, file, media, fines, score, ledger, cron, adminAt, adjusted, cronDied>>
vaultVars == <<file, media>>
trustVars == <<fines, score, ledger, cron, adminAt, adjusted, cronDied>>

TRUST_BASE == 100
MAX_TRUST_SCORE == 150
MEDIA_PENALTY_DELTA == -10

Bounded(n) == IF n < 0 THEN 0 ELSE IF n > MAX_TRUST_SCORE THEN MAX_TRUST_SCORE ELSE n

\* Apply a delta with floor and cap.
trustScoreFrom(current, delta) == Bounded(current + delta)

NoRun    == [todo |-> {}, base |-> TRUST_BASE, checked |-> {}]
NoChange == <<>>

MediaInit ==
    /\ late = [e \in Events |-> FALSE]
    /\ file = [e \in Events |-> "none"]
    /\ media = [e \in Events |-> [r \in Rows |-> "none"]]
    /\ fines = [e \in Events |-> 0]
    /\ score = TRUST_BASE
    /\ ledger = 0
    /\ cron = NoRun
    /\ adminAt = [a \in TrustAdmins |-> NoChange]
    /\ adjusted = 0
    /\ cronDied = 0

Approved(e) == "APPROVED" \in Range(media[e])

-----------------------------------------------------------------------------
(* Uploads: a row exists only for an object that landed in storage *)

RequestUpload(e) ==
    /\ file[e] = "none"
    /\ file' = [file EXCEPT ![e] = "issued"]
    /\ UNCHANGED <<late, media, trustVars>>

\* The browser PUTs the file, or never does.
PutObject(e) ==
    /\ file[e] = "issued"
    /\ file' = [file EXCEPT ![e] = "stored"]
    /\ UNCHANGED <<late, media, trustVars>>

\* A confirmation sent twice makes two rows for one object.
ConfirmUpload(e, r) ==
    /\ file[e] = "stored"
    /\ media[e][r] = "none"
    /\ \A q \in Rows : q < r => media[e][q] # "none"
    /\ media' = [media EXCEPT ![e][r] = "PENDING"]
    /\ UNCHANGED <<late, file, trustVars>>

SetMediaStatus(e, r, status) ==
    /\ media[e][r] # "none"
    /\ media' = [media EXCEPT ![e][r] = status]
    /\ UNCHANGED <<late, file, trustVars>>

DeadlinePasses(e) ==
    /\ ~late[e]
    /\ late' = [late EXCEPT ![e] = TRUE]
    /\ UNCHANGED <<vaultVars, trustVars>>

-----------------------------------------------------------------------------
(* enforceMediaDeadlines *)

Running == cron.todo \cup cron.checked # {}

\* Fined before, or with an approved asset when the run began: skipped.
CronReads ==
    /\ ~Running
    /\ LET lateOnes == {e \in Events : late[e] /\ ~Approved(e)}
       IN  /\ lateOnes # {}
           /\ cron' = [todo |-> lateOnes, base |-> score, checked |-> {}]
    /\ UNCHANGED <<late, vaultVars, fines, score, ledger, adminAt, adjusted, cronDied>>

MutantFinable(e) == TRUE
Finable(e) == fines[e] = 0

CronChecks(e) ==
    /\ e \in cron.todo /\ cron.checked = {}
    /\ cron' = [cron EXCEPT !.todo = @ \ {e}, !.checked = IF Finable(e) THEN {e} ELSE {}]
    /\ UNCHANGED <<late, vaultVars, fines, score, ledger, adminAt, adjusted, cronDied>>

CronFines(e) ==
    /\ e \in cron.checked
    /\ fines' = [fines EXCEPT ![e] = @ + 1]
    /\ score' = trustScoreFrom(cron.base, MEDIA_PENALTY_DELTA)
    /\ ledger' = ledger + MEDIA_PENALTY_DELTA
    /\ cron' = [cron EXCEPT !.checked = {}]
    /\ UNCHANGED <<late, vaultVars, adminAt, adjusted, cronDied>>

CronDies ==
    /\ Running
    /\ cronDied < CronDeaths
    /\ cron' = [cron EXCEPT !.todo = {}, !.checked = {}]
    /\ cronDied' = cronDied + 1
    /\ UNCHANGED <<late, vaultVars, fines, score, ledger, adminAt, adjusted>>

-----------------------------------------------------------------------------
(* applyManualTrustAdjustment and grantMediaAppeal: read, then one transaction *)

\* An appeal is +10 whatever was fined, and as often as it is granted.
AdminReads(a, delta) ==
    /\ adminAt[a] = NoChange
    /\ adjusted < AdjustBound
    /\ delta \in Deltas \cup {-MEDIA_PENALTY_DELTA}
    /\ adminAt' = [adminAt EXCEPT ![a] = <<score, delta>>]
    /\ adjusted' = adjusted + 1
    /\ UNCHANGED <<late, vaultVars, fines, score, ledger, cron, cronDied>>

AdminWrites(a) ==
    /\ adminAt[a] # NoChange
    /\ score' = trustScoreFrom(adminAt[a][1], adminAt[a][2])
    /\ ledger' = ledger + adminAt[a][2]
    /\ adminAt' = [adminAt EXCEPT ![a] = NoChange]
    /\ UNCHANGED <<late, vaultVars, fines, cron, adjusted, cronDied>>

-----------------------------------------------------------------------------
CronSteps == CronReads \/ \E e \in Events : CronChecks(e) \/ CronFines(e)

MediaNext ==
    \/ CronSteps \/ CronDies
    \/ \E e \in Events :
         \/ RequestUpload(e) \/ PutObject(e) \/ DeadlinePasses(e)
         \/ \E r \in Rows : \/ ConfirmUpload(e, r)
                            \/ \E status \in {"APPROVED", "HIDDEN"} : SetMediaStatus(e, r, status)
    \/ \E a \in TrustAdmins : AdminWrites(a) \/ \E delta \in Deltas \cup {10} : AdminReads(a, delta)

\* The cron runs every quarter of an hour and a run goes on.
MediaFairness == WF_mediaVars(CronSteps)

MediaSpec == MediaInit /\ [][MediaNext]_mediaVars /\ MediaFairness

-----------------------------------------------------------------------------
(* Properties *)

\* Every variable has its type.
MediaTypeOK ==
    /\ late \in [Events -> BOOLEAN]
    /\ file \in [Events -> {"none", "issued", "stored"}]
    /\ media \in [Events -> [Rows -> {"none", "PENDING", "APPROVED", "HIDDEN"}]]
    /\ fines \in [Events -> Nat]
    /\ score \in 0 .. MAX_TRUST_SCORE
    /\ ledger \in Int
    /\ cron \in [todo : SUBSET Events, base : 0 .. MAX_TRUST_SCORE, checked : SUBSET Events]
    /\ adminAt \in [TrustAdmins -> {NoChange} \cup ((0 .. MAX_TRUST_SCORE) \X (-50 .. 50))]
    /\ adjusted \in 0 .. AdjustBound
    /\ cronDied \in 0 .. CronDeaths

\* An event is fined at most once, over all the runs of the cron, the ones that
\* died included, and only an event that was late.
FinedOnce == \A e \in Events : fines[e] <= IF late[e] THEN 1 ELSE 0

\* An event that is late is fined, or has had an approved asset.
LateIsFined == \A e \in Events : late[e] ~> fines[e] > 0 \/ Approved(e)

\* The trust score is the base and the sum of all its events, within its bounds.
TrustAddsUp == adminAt = [a \in TrustAdmins |-> NoChange] => score = Bounded(TRUST_BASE + ledger)
=============================================================================
