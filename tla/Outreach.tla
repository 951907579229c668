------------------------------ MODULE Outreach ------------------------------
(***************************************************************************)
(* Mail that nobody asked for at that moment: the announcement of a new    *)
(* hackathon to every builder (lib/events/announce.ts), the preferences    *)
(* and one-click links that stop it (lib/notifications), and one address   *)
(* of the public newsletter (lib/newsletter).                              *)
(*                                                                         *)
(* A builder is the number its id sorts by.  A run of the announcement job *)
(* may die between any two of its steps; the queue then delivers the job   *)
(* again.  Only the categories' switch for hackathon updates is kept.      *)
(***************************************************************************)
EXTENDS Integers, FiniteSets, FiniteSetsExt

CONSTANTS
    Audience,      \* builders 1 .. n: verified developers outside the host's team
    Placeholders,  \* of them, those whose address is no real mailbox
    PageSize,      \* builders read at once
    SendBatch,     \* mails sent at once
    RunCap,        \* mails after which a run reads no further page
    Runners,       \* workers that may hold the job at the same time
    RunBound,      \* model bound: deliveries of the job
    LinkLife,      \* ticks a newsletter link works
    DayBound       \* model bound: ticks

ASSUME OutreachAssumption ==
    /\ Audience \subseteq Nat \ {0} /\ IsFiniteSet(Audience) /\ Placeholders \subseteq Audience
    /\ {PageSize, SendBatch, RunCap} \subseteq Nat \ {0}
    /\ {RunBound, LinkLife, DayBound} \subseteq Nat

VARIABLES
    optedOut,    \* NotificationPreference.eventUpdates is off
    told,        \* builders with a hackathon.live Notification of the event
    mails,       \* history: mails that reached the provider, by builder
    runner,      \* the announcement run of each worker
    runs,        \* deliveries of the job so far
    listed,      \* the address on the newsletter: "never", "in" or "out"
    inbox,       \* newsletter links in its mailbox
    form,        \* the newsletter form between its read and its upsert
    consents,    \* history: the address asked, last, to be on the list
    today        \* the clock

outreachVars == <<optedOut, told, mails, runner, runs, listed, inbox, form, consents, today>>

announceVars   == <<optedOut, told, mails, runner, runs>>
newsletterVars == <<listed, inbox, form, consents, today>>

NoRun == [at |-> "idle", after |-> 0, page |-> {}, send |-> {}, count |-> 0]

OutreachInit ==
    /\ optedOut = {} /\ told = {}
    /\ mails = [b \in Audience |-> 0]
    /\ runner = [r \in Runners |-> NoRun] /\ runs = 0
    /\ listed = "never" /\ inbox = {} /\ form = "idle" /\ consents = FALSE /\ today = 0

-----------------------------------------------------------------------------
(* The announcement *)

\* The k smallest ids of a set.
Least(S, k) == {b \in S : Cardinality({c \in S : c <= b}) <= k}

\* announcementRecipientsWhere.
Recipients == Audience \ (optedOut \cup told)

\* Prisma's cursor: from the cursor's id on, skipping the first match -- which
\* is the next builder when the cursor's own row has ceased to match.
PageAfter(c) ==
    LET from == {b \in Recipients : b >= c}
    IN  Least(IF c = 0 THEN from ELSE from \ Least(from, 1), PageSize)

StartRun(r) ==
    /\ runner[r].at = "idle" /\ runs < RunBound
    /\ runs' = runs + 1
    /\ runner' = [runner EXCEPT ![r] = [NoRun EXCEPT !.at = "page"]]
    /\ UNCHANGED <<optedOut, told, mails>>

ReadPage(r) ==
    /\ runner[r].at = "page"
    /\ LET page == PageAfter(runner[r].after)
       IN  runner' = [runner EXCEPT ![r] =
             IF runner[r].count >= RunCap \/ page = {} THEN NoRun
             ELSE [@ EXCEPT !.at = "filter", !.page = page, !.after = Max(page)]]
    /\ UNCHANGED <<optedOut, told, mails, runs>>

\* filterAnnouncementTargets, on preferences and notifications read again.
FilterPage(r) ==
    /\ runner[r].at = "filter"
    /\ runner' = [runner EXCEPT ![r].at = "record",
                                ![r].send = runner[r].page \ (Placeholders \cup optedOut \cup told)]
    /\ UNCHANGED <<optedOut, told, mails, runs>>

MutantNotified(targets) == {}

\* createMany: one row for each target, written before its mail is sent.
Notified(targets) == targets

RecordPage(r) ==
    /\ runner[r].at = "record"
    /\ told' = told \cup Notified(runner[r].send)
    /\ runner' = [runner EXCEPT ![r].at = "send"]
    /\ UNCHANGED <<optedOut, mails, runs>>

\* One batch, some of whose mails fail; a short page is the last one.
SendBatchOf(r) ==
    /\ runner[r].at = "send" /\ runner[r].send # {}
    /\ LET batch == Least(runner[r].send, SendBatch)
       IN  \E sent \in SUBSET batch :
             /\ mails' = [b \in Audience |-> mails[b] + IF b \in sent THEN 1 ELSE 0]
             /\ runner' = [runner EXCEPT ![r].send = @ \ batch,
                                         ![r].count = @ + Cardinality(sent)]
    /\ UNCHANGED <<optedOut, told, runs>>

NextPage(r) ==
    /\ runner[r].at = "send" /\ runner[r].send = {}
    /\ runner' = [runner EXCEPT ![r] =
         IF Cardinality(@.page) < PageSize THEN NoRun ELSE [@ EXCEPT !.at = "page", !.page = {}]]
    /\ UNCHANGED <<optedOut, told, mails, runs>>

RunDies(r) ==
    /\ runner[r].at # "idle"
    /\ runner' = [runner EXCEPT ![r] = NoRun]
    /\ UNCHANGED <<optedOut, told, mails, runs>>

\* The settings form, which writes every category at once.
UpdateNotificationPreferences(b) ==
    /\ optedOut' \in {optedOut \cup {b}, optedOut \ {b}}
    /\ UNCHANGED <<told, mails, runner, runs>>

\* The signed link, on the page or posted by the mail client.
Unsubscribe(b) ==
    /\ mails[b] > 0
    /\ optedOut' = optedOut \cup {b}
    /\ UNCHANGED <<told, mails, runner, runs>>

Announcing ==
    /\ \/ \E r \in Runners : \/ StartRun(r) \/ ReadPage(r) \/ FilterPage(r) \/ RecordPage(r)
                             \/ SendBatchOf(r) \/ NextPage(r) \/ RunDies(r)
       \/ \E b \in Audience : UpdateNotificationPreferences(b) \/ Unsubscribe(b)
    /\ UNCHANGED newsletterVars

-----------------------------------------------------------------------------
(* The newsletter *)

Purposes == {"unsubscribe", "resubscribe"}

\* createToken and verifyToken: bound to a purpose, good for LinkLife.
Works(purpose) == \E l \in inbox : l.purpose = purpose /\ today - l.issued <= LinkLife

Mail(purposes) == inbox' = inbox \cup {[purpose |-> p, issued |-> today] : p \in purposes}

\* Every newsletter mail has an unsubscribe link; this one has both.
Subscribe ==
    /\ form = "idle"
    /\ IF listed = "out"
       THEN /\ Mail(Purposes) \/ UNCHANGED inbox
            /\ UNCHANGED <<form, consents>>
       ELSE /\ form' = "subscribing"
            /\ consents' = (consents \/ listed = "never")
            /\ UNCHANGED inbox
    /\ UNCHANGED <<listed, today>>

MutantUpserted == "in"

\* The upsert changes nothing of a row that is there.
Upserted == IF listed = "never" THEN "in" ELSE listed

SubscribeWrite ==
    /\ form = "subscribing"
    /\ form' = "idle"
    /\ listed' = Upserted
    /\ Mail({"unsubscribe"}) \/ UNCHANGED inbox
    /\ UNCHANGED <<consents, today>>

\* The action of the page, and the route that mail clients post to.
NewsletterUnsubscribe ==
    /\ Works("unsubscribe") /\ listed # "never"
    /\ listed' = "out" /\ consents' = FALSE
    /\ UNCHANGED <<inbox, form, today>>

ConfirmNewsletterResubscribe ==
    /\ Works("resubscribe") /\ listed # "never"
    /\ listed' = "in" /\ consents' = TRUE
    /\ UNCHANGED <<inbox, form, today>>

DayPasses ==
    /\ today < DayBound
    /\ today' = today + 1
    /\ UNCHANGED <<listed, inbox, form, consents>>

Newsletter ==
    /\ \/ Subscribe \/ SubscribeWrite \/ NewsletterUnsubscribe \/ ConfirmNewsletterResubscribe
       \/ DayPasses
    /\ UNCHANGED announceVars

OutreachNext == Announcing \/ Newsletter

OutreachSpec == OutreachInit /\ [][OutreachNext]_outreachVars

-----------------------------------------------------------------------------
(* Properties *)

\* Every variable has its type.
OutreachTypeOK ==
    /\ optedOut \subseteq Audience /\ told \subseteq Audience
    /\ \A b \in Audience : mails[b] \in Nat
    /\ \A r \in Runners : runner[r].at \in {"idle", "page", "filter", "record", "send"}
    /\ listed \in {"never", "in", "out"} /\ form \in {"idle", "subscribing"}
    /\ \A l \in inbox : l.purpose \in Purposes /\ l.issued \in 0 .. today

\* With one worker at a time nobody is mailed twice about one hackathon, wherever
\* the runs die and however often the job is delivered; and nobody is mailed
\* without the row that a later run goes by.
ToldAtMostOnce ==
    /\ Cardinality(Runners) = 1 => \A b \in Audience : mails[b] <= 1
    /\ \A b \in Audience : mails[b] > 0 => b \in told

\* Nobody but the owner of the mailbox puts an address back that has left the
\* list, not even a subscription that was under way when it left.
OptOutStands == listed = "in" => consents

\* The next page begins with the first builder behind the cursor who has not been
\* told, although those before it were told since, as announce.ts:105-108 has it.
\* It does not hold: the builder at the cursor was told and matches no more, so the
\* row that skip: 1 passes over is the next builder, who waits for another run.
ScanIsStable ==
    \A r \in Runners :
        runner[r].at = "page" /\ runner[r].after > 0 =>
            PageAfter(runner[r].after)
                = Least({b \in Recipients : b > runner[r].after}, PageSize)
=============================================================================
