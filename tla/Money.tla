-------------------------------- MODULE Money --------------------------------
(***************************************************************************)
(* What may happen to the money of one hackathon, without handlers, jobs   *)
(* or stale reads: the vault is opened, locked by a charge, paid out       *)
(* tranche by tranche, refunded; a disputed milestone is released.  A fact *)
(* is what the database has shown at some time, and a fact it stays: where *)
(* handlers overlap, a later write may take it off the row                 *)
(* (services/payout/service.ts writes a vault that it read before the      *)
(* refund), but not out of the world.                                      *)
(*                                                                         *)
(* EventFunding and PayoutBooks implement this specification; the public   *)
(* ledger of Attestation builds on nothing else.                           *)
(***************************************************************************)
CONSTANTS
    Created, Locked, Refunded,   \* what happens to the vault
    Instants, Milestones,        \* the tranches that are paid out of it
    Before,                      \* the instant tranche that a milestone follows
    Released                     \* the fact that its dispute was released

VARIABLE facts                   \* what has happened to the money

Init == facts = {}

\* The first deposit opens the vault.
Open ==
    /\ Created \notin facts
    /\ facts' = facts \cup {Created}

\* A charge that covers the pool locks it.
Lock ==
    /\ Created \in facts /\ Locked \notin facts
    /\ facts' = facts \cup {Locked}

\* An administrator releases a disputed milestone, whatever else was paid.
Release(p) ==
    /\ Locked \in facts
    /\ facts' = facts \cup {Released[p]}

\* A tranche is confirmed as paid: a milestone's after its instant one, unless
\* its dispute was released.  Whether the pool was given back is not looked at.
Pay(p) ==
    /\ Locked \in facts
    /\ p \in Milestones => Before[p] \in facts \/ Released[p] \in facts
    /\ facts' = facts \cup {p}

\* The locked pool is given back, whatever was paid meanwhile.
Refund ==
    /\ Locked \in facts
    /\ facts' = facts \cup {Refunded}

Next ==
    \/ Open \/ Lock \/ Refund
    \/ \E p \in Milestones : Release(p)
    \/ \E p \in Instants \cup Milestones : Pay(p)

Moves == [][Next]_facts
Spec  == Init /\ Moves

\* The account as the announcement leaves it to the payout engine.
LockedSpec == facts = {Created, Locked} /\ Moves
=============================================================================
