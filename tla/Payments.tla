------------------------------ MODULE Payments ------------------------------
(***************************************************************************)
(* What the payout engine promises, without its workers, jobs, webhooks,   *)
(* retries and crashes: money for a payout is under way or has arrived at  *)
(* most once at a time, the books show a payout as paid only if money did  *)
(* arrive, and take it back only when none is left with the winner.        *)
(***************************************************************************)
CONSTANTS Payouts, Attempts

VARIABLES moving,    \* transfers the provider has accepted and not settled
          arrived,   \* transfers that the winner has the money of
          was,       \* payouts whose money arrived at some time
          books      \* payouts that the database shows as paid

Transfers == Payouts \X Attempts

Init == moving = {} /\ arrived = {} /\ was = {} /\ books = {}

Idle(p) == \A k \in Attempts : <<p, k>> \notin moving \cup arrived

\* A transfer is asked for; it may be answered at once.
Send(p, k) ==
    /\ Idle(p)
    /\ \/ moving' = moving \cup {<<p, k>>} /\ UNCHANGED <<arrived, was>>
       \/ /\ arrived' = arrived \cup {<<p, k>>} /\ was' = was \cup {p}
          /\ UNCHANGED moving
    /\ UNCHANGED books

\* One that is under way arrives or bounces.
Settle(p, k) ==
    /\ <<p, k>> \in moving
    /\ moving' = moving \ {<<p, k>>}
    /\ \/ arrived' = arrived \cup {<<p, k>>} /\ was' = was \cup {p}
       \/ UNCHANGED <<arrived, was>>
    /\ UNCHANGED books

\* The provider takes the money back.
Return(p, k) ==
    /\ <<p, k>> \in arrived
    /\ arrived' = arrived \ {<<p, k>>}
    /\ UNCHANGED <<moving, was, books>>

\* The administrator has paid outside the provider.
PayByHand(p) ==
    /\ was' = was \cup {p} /\ books' = books \cup {p}
    /\ UNCHANGED <<moving, arrived>>

Book(p) ==
    /\ p \in was
    /\ books' = books \cup {p}
    /\ UNCHANGED <<moving, arrived, was>>

Reopen(p) ==
    /\ Idle(p)
    /\ books' = books \ {p}
    /\ UNCHANGED <<moving, arrived, was>>

Next == \E p \in Payouts :
    \/ \E k \in Attempts : Send(p, k) \/ Settle(p, k) \/ Return(p, k)
    \/ PayByHand(p) \/ Book(p) \/ Reopen(p)

Spec == Init /\ [][Next]_<<moving, arrived, was, books>>
=============================================================================
