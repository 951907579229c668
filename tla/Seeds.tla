------------------------------- MODULE Seeds -------------------------------
(***************************************************************************)
(* The demo database (db/seeds/seed.ts).  A seed is a list of upserts.  It *)
(* may die between any two of them and is run again, on rows that the      *)
(* application has changed since; the development server and the tests     *)
(* work on the same database meanwhile, a step of theirs between any two   *)
(* writes of the script.                                                   *)
(*                                                                         *)
(* Of the sixteen events there is one of every status and story, of their  *)
(* winners two and one; amounts are in units of 10,000 KES.  A row is      *)
(* known by its unique key, and rows that no property reads (people,       *)
(* submissions, scores) stand in groups.                                   *)
(***************************************************************************)
EXTENDS Integers, Sequences, FiniteSets, FiniteSetsExt, SequencesExt

CONSTANT SeedRuns      \* bound on the runs of the script

VARIABLES rows,        \* the database: unique keys to rows
          todo,        \* what the run under way has still to write
          seeded,      \* the last run reached its end
          seedRuns,    \* runs begun
          worked,      \* the event that the application works on
          payer,       \* the frame of the payout worker, then of the job it queues
          owed         \* pools of cancelled events that are to be given back

appVars  == <<worked, payer, owed>>
seedVars == <<rows, todo, seeded, seedRuns, appVars>>

Stays == <<>>                                    \* update: {}
Upsert(key, create, update) == [op |-> "upsert", key |-> key, create |-> create, update |-> update]
Create(key) == Upsert(key, [here |-> TRUE], Stays)
Update(key, row) == Upsert(key, row, row)
Each(S, Writes(_)) == FlattenSeq([i \in 1 .. Cardinality(S) |-> Writes(SetToSeq(S)[i])])

-----------------------------------------------------------------------------
(* The helpers of the script *)

\* An event and its prizes; the prizes follow the script, the event does not.
SeedEvent(slug, status, prizes) ==
    <<Upsert(<<"event", slug>>, [status |-> status], Stays),
      Update(<<"prizes", slug>>, [amounts |-> prizes])>>

SeedEscrow(slug, pool) ==
    <<Upsert(<<"deposit", slug>>, [amount |-> pool], Stays),
      Upsert(<<"vault", slug>>, [amount |-> pool, state |-> "LOCKED"], Stays),
      Create(<<"ledger", slug, "VAULT_CREATED">>),
      Create(<<"ledger", slug, "DEPOSIT_LOCKED">>)>>

SeedTeam(slug) == <<Create(<<"teams", slug>>)>>

Tranche(place, tranche) == <<tranche, place>>

\* A winner, the milestone, and the instant payout with its ledger row.
SeedWinner(slug, place) ==
    <<Create(<<"winner", slug, place>>),
      Upsert(<<"milestone", slug, place>>, [confirmed |-> FALSE], Stays),
      Upsert(<<"payout", slug, Tranche(place, "INSTANT")>>, [status |-> "SUCCEEDED"], Stays),
      Create(<<"paid", slug, Tranche(place, "INSTANT")>>)>>

-----------------------------------------------------------------------------
(* main(), in its order *)

DemoPeople == <<Create(<<"accounts", "developers">>), Create(<<"recipients", "winners">>)>>

LiveEvent == SeedEvent("matatu", "LIVE", <<25, 15, 10>>) \o SeedTeam("matatu")

PendingEvent == SeedEvent("health", "PENDING_DEPOSIT", <<6, 4>>)

CatalogRunning ==
    SeedEvent("climate", "LIVE", <<20, 10>>) \o SeedEvent("civic", "IN_PROGRESS", <<15, 7>>)

CatalogPending == SeedEvent("edtech", "PENDING_DEPOSIT", <<8, 4>>)

CatalogPast == SeedEvent("swahili", "SETTLED", <<25, 12, 6>>)

Catalog == CatalogRunning \o CatalogPending \o CatalogPast

Judge == <<Create(<<"judge", "matatu">>)>>

\* The escrow of the running events is made from what a query finds now.
Escrows == <<[op |-> "escrows"]>>

DraftEvent == SeedEvent("sacco", "DRAFT", <<10>>)

\* The feedback is deleted and made anew, so that the review stays open.
JudgingEvent ==
    SeedEvent("shamba", "JUDGING", <<15, 7>>) \o SeedEscrow("shamba", 22) \o SeedTeam("shamba")
    \o <<[op |-> "delete", key |-> <<"feedback", "shamba">>], Create(<<"feedback", "shamba">>)>>

\* The milestone of the first place waits for the payout worker, in every
\* run again; the second place has a dispute.
AnnouncedEvent ==
    SeedEvent("blue", "WINNERS_ANNOUNCED", <<20, 10, 5>>) \o SeedEscrow("blue", 35) \o SeedTeam("blue")
    \o SeedWinner("blue", 1)
    \o <<Update(<<"milestone", "blue", 1>>, [confirmed |-> TRUE]),
         Update(<<"payout", "blue", Tranche(1, "MILESTONE")>>, [status |-> "QUEUED"])>>
    \o SeedWinner("blue", 2) \o <<Create(<<"dispute", "blue">>)>>
    \o <<Update(<<"vault", "blue">>, [state |-> "HALF_RELEASED"])>>

SettledEvent ==
    SeedEscrow("swahili", 43) \o SeedTeam("swahili")
    \o SeedWinner("swahili", 1)
    \o <<Update(<<"milestone", "swahili", 1>>, [confirmed |-> TRUE]),
         Upsert(<<"payout", "swahili", Tranche(1, "MILESTONE")>>, [status |-> "SUCCEEDED"], Stays),
         Create(<<"paid", "swahili", Tranche(1, "MILESTONE")>>),
         Update(<<"vault", "swahili">>, [state |-> "SETTLED"])>>

AdminAndHiring == <<Create(<<"accounts", "admin">>), Create(<<"trust", "swahili">>)>>

Main == DemoPeople \o LiveEvent \o PendingEvent \o Catalog \o Judge \o Escrows \o DraftEvent
        \o JudgingEvent \o AnnouncedEvent \o SettledEvent \o AdminAndHiring

-----------------------------------------------------------------------------
NoPayer == [at |-> "idle", place |-> 1, half |-> FALSE, settle |-> FALSE, close |-> FALSE]

SeedsInit ==
    /\ rows = <<>> /\ todo = <<>> /\ seeded = FALSE /\ seedRuns = 0
    /\ worked \in {"climate", "blue"} /\ payer = NoPayer /\ owed = {}

Has(key) == key \in DOMAIN rows
Put(key, row) == [k \in DOMAIN rows \cup {key} |-> IF k = key THEN row ELSE rows[k]]
Changed(old, new) ==
    [f \in DOMAIN old \cup DOMAIN new |-> IF f \in DOMAIN new THEN new[f] ELSE old[f]]

Events == {k[2] : k \in {j \in DOMAIN rows : j[1] = "event"}}
PrizeSum(slug) == FoldLeft(+, 0, rows[<<"prizes", slug>>].amounts)
WinnersOf(slug) == {k[3] : k \in {j \in DOMAIN rows : j[1] = "winner" /\ j[2] = slug}}

MutantRunning == {"LIVE"}
RunningStatuses == {"LIVE", "IN_PROGRESS"}

RunSeed == \* npm run db:seed
    /\ todo = <<>> /\ seedRuns < SeedRuns
    /\ todo' = Main /\ seeded' = FALSE /\ seedRuns' = seedRuns + 1
    /\ UNCHANGED <<rows, appVars>>

Write == LET w == Head(todo) IN
    /\ todo # <<>> /\ w.op # "escrows"
    /\ rows' = CASE w.op = "delete" -> [k \in DOMAIN rows \ {w.key} |-> rows[k]]
                 [] w.op = "upsert" /\ Has(w.key) -> Put(w.key, Changed(rows[w.key], w.update))
                 [] OTHER -> Put(w.key, w.create)
    /\ todo' = Tail(todo) /\ seeded' = (Tail(todo) = <<>>)
    /\ UNCHANGED <<seedRuns, appVars>>

FindRunning ==
    /\ todo # <<>> /\ Head(todo).op = "escrows"
    /\ LET found == {s \in {"matatu", "climate", "civic"} \cap Events :
                        rows[<<"event", s>>].status \in RunningStatuses}
       IN  todo' = Each(found, LAMBDA s : SeedEscrow(s, PrizeSum(s))) \o Tail(todo)
    /\ UNCHANGED <<rows, seeded, seedRuns, appVars>>

SeedDies ==
    /\ todo # <<>>
    /\ todo' = <<>>
    /\ UNCHANGED <<rows, seeded, seedRuns, appVars>>

-----------------------------------------------------------------------------
(* What the application does to these rows meanwhile *)

\* A behaviour follows it on one event: no two events share a row.  For the same reason
\* its steps need not fall between two writes of the script to other events.  The cron
\* and the payout worker run meanwhile; people act between the runs, and confirm a
\* milestone once the event is there whole.
App(slug) ==
    /\ worked = slug
    /\ todo # <<>> => (Head(todo).op = "upsert" => Head(todo).key[2] = slug)
    /\ UNCHANGED <<todo, seeded, seedRuns, worked>>

Status(slug) == rows[<<"event", slug>>].status
VaultState(slug) == rows[<<"vault", slug>>].state
SetStatus(slug, s) == Put(<<"event", slug>>, [status |-> s])
SetVault(slug, s) == Put(<<"vault", slug>>, [rows[<<"vault", slug>>] EXCEPT !.state = s])

\* The start cron: startsAt of climate lies in the past by the time of a later run.
StartCron ==
    /\ \E s \in {"climate"} \cap Events :
          Status(s) = "LIVE" /\ rows' = SetStatus(s, "IN_PROGRESS")
    /\ App("climate") /\ UNCHANGED <<payer, owed>>

\* An administrator cancels a running event.  In the middle of a run, the escrow might
\* follow that the run has found due.
AdminCancel(s) ==
    /\ todo = <<>>
    /\ s \in Events /\ Status(s) \in {"LIVE", "IN_PROGRESS"}
    /\ rows' = SetStatus(s, "CANCELLED")
    /\ owed' = IF Has(<<"vault", s>>) THEN owed \cup {s} ELSE owed
    /\ App("climate") /\ UNCHANGED payer

Refund(s) ==
    /\ s \in owed
    /\ rows' = SetVault(s, "REFUNDED") /\ owed' = owed \ {s}
    /\ App("climate") /\ UNCHANGED payer

Instant(p)   == <<"payout", "blue", Tranche(p, "INSTANT")>>
Milestone(p) == <<"payout", "blue", Tranche(p, "MILESTONE")>>
Succeeded(key) == Has(key) /\ rows[key].status = "SUCCEEDED"
Confirmed(p) == LET m == <<"milestone", "blue", p>> IN Has(m) /\ rows[m].confirmed

ConfirmMilestone(p) ==
    /\ seeded
    /\ Has(<<"milestone", "blue", p>>) /\ ~Confirmed(p)
    /\ Succeeded(Instant(p)) /\ ~Has(Milestone(p))
    /\ rows' = [k \in DOMAIN rows \cup {Milestone(p)} |->
                   IF k = Milestone(p) THEN [status |-> "QUEUED"]
                   ELSE IF k = <<"milestone", "blue", p>> THEN [confirmed |-> TRUE] ELSE rows[k]]
    /\ App("blue") /\ UNCHANGED <<payer, owed>>

\* The worker pays a queued milestone (PayoutEngine has the claim and the transfer), and
\* then reads the vault and the winners and makes one write at a time.
PayMilestone(p) ==
    /\ payer.at = "idle" /\ Has(Milestone(p)) /\ rows[Milestone(p)].status = "QUEUED"
    /\ rows' = Put(Milestone(p), [status |-> "SUCCEEDED"])
    /\ payer' = [NoPayer EXCEPT !.at = "advance", !.place = p]
    /\ App("blue") /\ UNCHANGED owed

InstantComplete ==
    /\ \A w \in WinnersOf("blue") : Has(Instant(w)) => Succeeded(Instant(w))
    /\ \E w \in WinnersOf("blue") : Succeeded(Instant(w))

AllSettled ==
    \A w \in WinnersOf("blue") :
       /\ Succeeded(Instant(w))
       /\ IF Has(Milestone(w)) THEN Succeeded(Milestone(w)) ELSE Confirmed(w)

AdvanceRead ==
    /\ payer.at = "advance"
    /\ payer' = [payer EXCEPT !.at = "write",
                   !.half   = VaultState("blue") = "LOCKED" /\ InstantComplete,
                   !.settle = VaultState("blue") # "SETTLED" /\ AllSettled,
                   !.close  = AllSettled]
    /\ App("blue") /\ UNCHANGED <<rows, owed>>

AdvanceWrite ==
    /\ payer.at = "write"
    /\ \/ /\ payer.half
          /\ rows' = SetVault("blue", "HALF_RELEASED")
          /\ payer' = [payer EXCEPT !.half = FALSE]
       \/ /\ ~payer.half /\ payer.settle
          /\ rows' = SetVault("blue", "SETTLED")
          /\ payer' = [payer EXCEPT !.settle = FALSE]
       \/ /\ ~payer.half /\ ~payer.settle /\ payer.close
          /\ rows' = IF Status("blue") = "WINNERS_ANNOUNCED" THEN SetStatus("blue", "SETTLED")
                     ELSE rows
          /\ payer' = [payer EXCEPT !.close = FALSE]
    /\ App("blue") /\ UNCHANGED owed

\* The job payout.attest writes the ledger row.  It may never be queued, or fail.
AttestPaid ==
    /\ payer.at = "write" /\ ~payer.half /\ ~payer.settle /\ ~payer.close
    /\ rows' = Put(<<"paid", "blue", Tranche(payer.place, "MILESTONE")>>, [here |-> TRUE])
    /\ payer' = NoPayer
    /\ App("blue") /\ UNCHANGED owed

PayerDies ==
    /\ payer.at # "idle" /\ payer' = NoPayer
    /\ App("blue") /\ UNCHANGED <<rows, owed>>

SeedsNext ==
    \/ RunSeed \/ Write \/ FindRunning \/ SeedDies
    \/ StartCron \/ AdminCancel("climate") \/ Refund("climate")
    \/ \E p \in WinnersOf("blue") : ConfirmMilestone(p) \/ PayMilestone(p)
    \/ AdvanceRead \/ AdvanceWrite \/ AttestPaid \/ PayerDies

-----------------------------------------------------------------------------
Attested(slug, tranche) ==
    \A p \in WinnersOf(slug) : /\ Succeeded(<<"payout", slug, Tranche(p, tranche)>>)
                             /\ Has(<<"paid", slug, Tranche(p, tranche)>>)

Funded(slug) ==
    /\ Has(<<"vault", slug>>) /\ Has(<<"deposit", slug>>)
    /\ rows[<<"vault", slug>>].amount = PrizeSum(slug)
    /\ Has(<<"ledger", slug, "VAULT_CREATED">>) /\ Has(<<"ledger", slug, "DEPOSIT_LOCKED">>)

\* After a run that reached its end, whatever runs died before it and whatever the
\* start cron, a cancellation between the runs and the payout worker did meanwhile: a
\* running event has a locked pool of its prizes' sum (the "LIVE-requires-LOCKED
\* invariant" of seed.ts:741), one that waits for its deposit or is a draft has none,
\* and none is locked for a cancelled event but one that it had when it was cancelled;
\* the judged events are funded, the instant tranches paid and in the ledger, and the
\* settled event wholly.  The announced event's pool is released at least by half, but
\* a SETTLED there stands for nothing: the worker writes it on what it read before the
\* run, which queues the milestone again, or before the second winner was written.
SeedIsBacked ==
    seeded =>
      /\ \A s \in Events :
            /\ Status(s) \in {"LIVE", "IN_PROGRESS"} => Funded(s) /\ VaultState(s) = "LOCKED"
            /\ Status(s) \in {"PENDING_DEPOSIT", "DRAFT"} =>
                  ~Has(<<"vault", s>>) /\ ~Has(<<"deposit", s>>)
            /\ Status(s) = "CANCELLED" =>
                  ~Has(<<"vault", s>>) \/ VaultState(s) = "REFUNDED" \/ s \in owed
      /\ \A s \in {"shamba", "blue", "swahili"} : Funded(s)
      /\ Attested("blue", "INSTANT") /\ Attested("swahili", "INSTANT")
      /\ VaultState("blue") \in {"HALF_RELEASED", "SETTLED"}
      /\ VaultState("swahili") = "SETTLED" /\ Attested("swahili", "MILESTONE")
=============================================================================
