------------------------------ MODULE Accounts ------------------------------
(***************************************************************************)
(* One account, its mailed links and its sessions (lib/auth, lib/account), *)
(* on several devices.  A session is a signed token that carries the       *)
(* User.sessionVersion it was issued under; every request checks it again. *)
(*                                                                         *)
(* A sign-in is two steps: `authorize' compares the password, and the jwt  *)
(* callback issues the token under whatever version the account has then.  *)
(* The other requests are their checks and their write.                    *)
(***************************************************************************)
EXTENDS Integers, FiniteSets

CONSTANTS
    Devices,        \* browsers of the account's owner, and of others
    Links,          \* token rows that can be issued
    IdleLimit, AgeLimit,           \* STANDARD_SESSION_LIMITS, in ticks
    AdminIdleLimit, AdminAgeLimit, \* ADMIN_SESSION_LIMITS
    PasswordBound,  \* model bound: changes of the password
    ClockBound      \* model bound: ticks

ASSUME AccountsAssumption ==
    /\ IdleLimit \in Nat /\ AgeLimit \in Nat /\ AdminIdleLimit \in Nat /\ AdminAgeLimit \in Nat
    /\ PasswordBound \in Nat /\ ClockBound \in Nat

VARIABLES
    account,      \* "none", "unverified", "verified" or "deleted"
    admin,        \* the account has the ADMIN grant
    password,     \* how often the password was set; 0: a Google or GitHub account
    version,      \* User.sessionVersion
    live,         \* VerificationToken rows: the links that still work
    mailed,       \* links that were mailed
    session,      \* the token in each device's cookie
    visit,        \* the request a device has under way
    revoked,      \* history: the devices' sessions that a revocation ended
    ticks         \* the clock

accountVars == <<account, admin, password, version, live, mailed, session, visit, revoked, ticks>>

NoSession == [sv |-> -1, by |-> 0, auth |-> 0, active |-> 0]
NoVisit   == [op |-> "none"]
Sessions  == [sv : Nat \cup {-1}, by : Nat, auth : Nat, active : Nat]
Visits    == [op : {"none", "change"}] \cup [op : {"signIn"}, by : Nat]
             \cup [op : {"verify", "reset"}, link : Links]

AccountsInit ==
    /\ account = "none" /\ admin \in BOOLEAN /\ password = 0 /\ version = 0
    /\ live = {} /\ mailed = {}
    /\ session = [d \in Devices |-> NoSession]
    /\ visit = [d \in Devices |-> NoVisit]
    /\ revoked = {}
    /\ ticks = 0

-----------------------------------------------------------------------------
(* Sessions *)

IsLive == account \in {"unverified", "verified"}

\* isSessionCurrent: a live account, on the version the token was issued under.
IsSessionCurrent(s) == IsLive /\ s.sv = version

\* sessionAge, with the limits of sessionLimitsFor.
SessionActive(s) ==
    /\ ticks - s.auth <= IF admin THEN AdminAgeLimit ELSE AgeLimit
    /\ ticks - s.active <= IF admin THEN AdminIdleLimit ELSE IdleLimit

\* What requireUser accepts.
SignedIn(d) == session[d] # NoSession /\ IsSessionCurrent(session[d]) /\ SessionActive(session[d])

\* Every request from a signed-in visitor slides the cookie, or clears it.
Refresh(d) ==
    /\ visit[d] = NoVisit /\ session[d] # NoSession
    /\ session' = [session EXCEPT ![d] =
                     IF SignedIn(d) THEN [@ EXCEPT !.active = ticks] ELSE NoSession]
    /\ revoked' = IF SignedIn(d) THEN revoked ELSE revoked \ {d}
    /\ UNCHANGED <<account, admin, password, version, live, mailed, visit, ticks>>

Holders == {d \in Devices : session[d] # NoSession}

Begins(d, r) ==
    /\ visit[d] = NoVisit
    /\ visit' = [visit EXCEPT ![d] = r]
    /\ UNCHANGED <<account, admin, password, version, live, mailed, session, revoked, ticks>>

Doing(d, op) == visit[d].op = op
Ends(d)      == visit' = [visit EXCEPT ![d] = NoVisit]

MutantRevoke == version' = version /\ revoked' = revoked \cup Holders

\* Ends every session the user has; `revoked' remembers which those were.
Revoke == version' = version + 1 /\ revoked' = revoked \cup Holders

-----------------------------------------------------------------------------
(* Signing up and in *)

\* issueToken: the rows of the address are deleted and one is created, with a
\* fresh random token, whichever that is.
Issue ==
    /\ Links # mailed
    /\ LET t == CHOOSE k \in Links \ mailed : TRUE
       IN  live' = {t} /\ mailed' = mailed \cup {t}

SignUp(d) ==
    /\ account = "none" /\ visit[d] = NoVisit
    /\ account' = "unverified" /\ password' = 1
    /\ Issue
    /\ UNCHANGED <<admin, version, session, visit, revoked, ticks>>

\* The account of a first Google or GitHub sign-in.  The adapter stores its e-mail as
\* unverified; only a password asks for that.
OAuthSignIn(d) ==
    /\ visit[d] = NoVisit /\ account # "deleted"
    /\ account' = IF account = "none" THEN "unverified" ELSE account
    /\ session' = [session EXCEPT ![d] = [sv |-> version, by |-> 0, auth |-> ticks, active |-> ticks]]
    /\ revoked' = revoked \ {d}
    /\ UNCHANGED <<admin, password, version, live, mailed, visit, ticks>>

\* signInAction's checks and authorize: the e-mail is verified, the password right.
SignIn(d) ==
    /\ account = "verified" /\ password > 0
    /\ Begins(d, [op |-> "signIn", by |-> password])

\* The jwt callback: a fresh sign-in adopts the account's current version.
SignInWrite(d) ==
    /\ Doing(d, "signIn")
    /\ IF IsLive
       THEN /\ session' = [session EXCEPT ![d] =
                             [sv |-> version, by |-> visit[d].by, auth |-> ticks, active |-> ticks]]
            /\ revoked' = revoked \ {d}
       ELSE UNCHANGED <<session, revoked>>
    /\ Ends(d)
    /\ UNCHANGED <<account, admin, password, version, live, mailed, ticks>>

SignOut(d) ==
    /\ visit[d] = NoVisit /\ session[d] # NoSession
    /\ session' = [session EXCEPT ![d] = NoSession]
    /\ revoked' = revoked \ {d}
    /\ UNCHANGED <<account, admin, password, version, live, mailed, visit, ticks>>

-----------------------------------------------------------------------------
(* Links: one table and one format for both kinds *)

ResendVerification(d) ==
    /\ visit[d] = NoVisit /\ account = "unverified"
    /\ Issue
    /\ UNCHANGED <<account, admin, password, version, session, visit, revoked, ticks>>

RequestPasswordReset(d) ==
    /\ visit[d] = NoVisit /\ IsLive /\ password > 0
    /\ Issue
    /\ UNCHANGED <<account, admin, password, version, session, visit, revoked, ticks>>

LinkExpires(t) ==
    /\ t \in live
    /\ live' = live \ {t}
    /\ UNCHANGED <<account, admin, password, version, mailed, session, visit, revoked, ticks>>

VerifyEmail(d, t)   == t \in live /\ Begins(d, [op |-> "verify", link |-> t])
ResetPassword(d, t) == t \in live /\ password <= PasswordBound /\ Begins(d, [op |-> "reset", link |-> t])

\* The delete throws, and nothing is written, when the row or the address is gone.
VerifyEmailWrite(d) ==
    /\ Doing(d, "verify")
    /\ IF visit[d].link \in live /\ IsLive
       THEN account' = "verified" /\ live' = live \ {visit[d].link}
       ELSE UNCHANGED <<account, live>>
    /\ Ends(d)
    /\ UNCHANGED <<admin, password, version, mailed, session, revoked, ticks>>

\* The link's own row is not looked at again: two windows may both reset.
ResetPasswordWrite(d) ==
    /\ Doing(d, "reset")
    /\ IF IsLive
       THEN password' = password + 1 /\ live' = {} /\ Revoke
       ELSE UNCHANGED <<password, live, version, revoked>>
    /\ Ends(d)
    /\ UNCHANGED <<account, admin, mailed, session, ticks>>

-----------------------------------------------------------------------------
(* Account settings *)

ChangePassword(d) ==
    /\ SignedIn(d) /\ password \in 1 .. PasswordBound
    /\ Begins(d, [op |-> "change"])

\* The password and the revocation land together; this device signs out.
ChangePasswordWrite(d) ==
    /\ Doing(d, "change")
    /\ password' = password + 1
    /\ version' = version + 1
    /\ revoked' = (revoked \cup Holders) \ {d}
    /\ session' = [session EXCEPT ![d] = NoSession]
    /\ Ends(d)
    /\ UNCHANGED <<account, admin, live, mailed, ticks>>

SignOutEverywhere(d) ==
    /\ visit[d] = NoVisit /\ SignedIn(d) /\ version <= PasswordBound
    /\ version' = version + 1
    /\ revoked' = (revoked \cup Holders) \ {d}
    /\ session' = [session EXCEPT ![d] = NoSession]
    /\ UNCHANGED <<account, admin, password, live, mailed, visit, ticks>>

DeactivateAccount(d) ==
    /\ visit[d] = NoVisit /\ SignedIn(d)
    /\ account' = "deleted" /\ admin' = FALSE
    /\ version' = version + 1
    /\ revoked' = (revoked \cup Holders) \ {d}
    /\ session' = [session EXCEPT ![d] = NoSession]
    /\ UNCHANGED <<password, live, mailed, visit, ticks>>

Tick ==
    /\ ticks < ClockBound
    /\ ticks' = ticks + 1
    /\ UNCHANGED <<account, admin, password, version, live, mailed, session, visit, revoked>>

-----------------------------------------------------------------------------
Entering(d) ==
    \/ SignUp(d) \/ OAuthSignIn(d) \/ SignIn(d) \/ SignInWrite(d) \/ SignOut(d) \/ Refresh(d)

Mailing(d) ==
    \/ ResendVerification(d) \/ RequestPasswordReset(d)
    \/ \E t \in Links : VerifyEmail(d, t) \/ ResetPassword(d, t)
    \/ VerifyEmailWrite(d) \/ ResetPasswordWrite(d)

Settings(d) ==
    \/ ChangePassword(d) \/ ChangePasswordWrite(d) \/ SignOutEverywhere(d) \/ DeactivateAccount(d)

AccountsNext ==
    \/ \E d \in Devices : Entering(d) \/ Mailing(d) \/ Settings(d)
    \/ \E t \in Links : LinkExpires(t)
    \/ Tick

AccountsSpec == AccountsInit /\ [][AccountsNext]_accountVars

-----------------------------------------------------------------------------
(* Properties *)

\* Every variable has its type.
AccountsTypeOK ==
    /\ account \in {"none", "unverified", "verified", "deleted"}
    /\ admin \in BOOLEAN /\ password \in Nat /\ version \in Nat
    /\ live \subseteq mailed /\ mailed \subseteq Links
    /\ session \in [Devices -> Sessions] /\ visit \in [Devices -> Visits]
    /\ revoked \subseteq Devices /\ ticks \in Nat

\* A session that a password reset, a password change, a sign-out everywhere or a
\* deactivation ended is accepted by no later request, whatever sign-ins, resets
\* and changes were under way on the other devices.
RevokedStaysOut == \A d \in revoked : ~SignedIn(d)

\* A session that began with a password began with the password of now. It does not
\* hold: a sign-in that compared the old password before a reset, and ends after it,
\* takes the version that the reset has raised.
SessionsFollowPassword ==
    \A d \in Devices : SignedIn(d) => session[d].by \in {0, password}
=============================================================================
