---------------------------- MODULE PayoutBooks ----------------------------
(***************************************************************************)
(* The payout engine with a record of what its database has ever shown: a  *)
(* history variable, which no handler reads, keeps the tranches that were  *)
(* SUCCEEDED, the released disputes and the refund, also when a later      *)
(* write takes them off the rows.  With it the engine implements Money.    *)
(***************************************************************************)
EXTENDS PayoutEngine

VARIABLE account   \* history: what the database has shown of the money

Created  == <<None, "VAULT_CREATED">>
Locked   == <<None, "DEPOSIT_LOCKED">>
Refunded == <<None, "VAULT_REFUNDED">>

\* The dispute of x is RESOLVED_RELEASE: the admin overrides the order of payment.
Override(x) == <<x, "RELEASED">>

\* Those whose milestone an administrator is about to confirm: the dispute's row
\* has been written by then.
Releasing == {x \in MilestoneWinners :
                \E w \in Procs : At(w, "releaseTx") /\ proc[w].payout = Milestone(x)}

\* What the rows show now.
Shown == {p \in Payouts : status[p] = "SUCCEEDED"}
           \cup {Override(x) : x \in Releasing}
           \cup (IF vault = "REFUNDED" THEN {Refunded} ELSE {})

Recorded == account' = account \cup Shown'

BooksInit == Init /\ account = {Created, Locked}
BooksNext == Next /\ Recorded
BooksSpec == BooksInit /\ [][BooksNext]_<<vars, account>>

Bank == INSTANCE Money WITH
    Before   <- [p \in Milestones |-> Instant(p[1])],
    Released <- [p \in Milestones |-> Override(p[1])],
    facts    <- account

\* Whatever workers, webhooks, crons, admins and refunds do to each other, the
\* money moves as Money says: the rows never show a milestone tranche as paid
\* before its instant one, unless an administrator has released its dispute, and
\* nothing but a payout, a release or a refund happens to the pool.
MoneyMoves == Bank!LockedSpec

\* The strengthening: whatever a row or a handler is about to pay is in order.
InOrder(p) == p \in Milestones => {Instant(p[1]), Override(p[1])} \cap account # {}

BooksAgree ==
    /\ {Created, Locked} \cup Shown \subseteq account
    /\ \A p \in Payouts : status[p] # "none" \/ reference[p] # NoRef => InOrder(p)
    /\ \A w \in Procs : proc[w].payout \in Payouts => InOrder(proc[w].payout)
=============================================================================
