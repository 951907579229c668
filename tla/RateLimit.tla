----------------------------- MODULE RateLimit ------------------------------
(***************************************************************************)
(* The fixed-window rate limiter of one key (lib/rate-limit.ts): a row of  *)
(* the database, and a counter in the memory of each process that takes    *)
(* over whenever the database fails.  The hourly cron purges the rows      *)
(* whose window has ended.                                                 *)
(***************************************************************************)
EXTENDS Integers, FiniteSets, Sequences

CONSTANTS
    Processes,     \* server instances
    Database,      \* the counter that they share
    Limit,         \* calls a window allows
    Window,        \* ticks a window lasts
    HourBound      \* model bound: ticks

ASSUME RateLimitAssumption ==
    Database \notin Processes /\ Limit \in Nat \ {0} /\ Window \in Nat \ {0} /\ HourBound \in Nat

VARIABLES
    hour,       \* the clock
    bucket,     \* the RateLimitBucket row; count 0 without a row
    memory,     \* fallbackWindows of each process; count 0 without an entry
    allowed     \* history: the calls allowed, and what was counted of each

rateVars == <<hour, bucket, memory, allowed>>

NoWindow == [count |-> 0, resetAt |-> 0]

RateInit ==
    /\ hour = 0
    /\ bucket = NoWindow
    /\ memory = [p \in Processes |-> NoWindow]
    /\ allowed = <<>>

Fresh == [count |-> 1, resetAt |-> hour + Window]

\* A call is allowed as the w.count-th of counter c's window.
Allow(c, w) ==
    allowed' = Append(allowed, [counter |-> c, until |-> w.resetAt, count |-> w.count,
                                at |-> hour])

\* The atomic upsert: a fresh row, a new window, or one more in this window.
Hit(w) == IF w.count = 0 \/ w.resetAt <= hour THEN Fresh ELSE [w EXCEPT !.count = @ + 1]

MutantWithinLimit(w) == w.count <= Limit + 1
WithinLimit(w) == w.count <= Limit

\* rateLimitInDb: counted first, judged on the count that the statement returned.
\* Past the limit only that it was passed matters: the model counts no further.
InDatabase ==
    /\ bucket.count <= Limit \/ bucket.resetAt <= hour
    /\ bucket' = Hit(bucket)
    /\ IF WithinLimit(Hit(bucket)) THEN Allow(Database, Hit(bucket)) ELSE UNCHANGED allowed
    /\ UNCHANGED <<hour, memory>>

\* rateLimitInMemory, when the database throws: judged first, then counted.
InMemory(p) ==
    /\ memory[p].count < Limit \/ memory[p].resetAt <= hour
    /\ memory' = [memory EXCEPT ![p] = Hit(@)]
    /\ Allow(p, Hit(memory[p]))
    /\ UNCHANGED <<hour, bucket>>

PurgeExpired ==
    /\ bucket # NoWindow /\ bucket.resetAt < hour
    /\ bucket' = NoWindow
    /\ UNCHANGED <<hour, memory, allowed>>

Passes ==
    /\ hour < HourBound
    /\ hour' = hour + 1
    /\ UNCHANGED <<bucket, memory, allowed>>

RateNext ==
    \/ InDatabase \/ PurgeExpired \/ Passes
    \/ \E p \in Processes : InMemory(p)

RateSpec == RateInit /\ [][RateNext]_rateVars

-----------------------------------------------------------------------------
(* Properties *)

\* Every variable has its type.
RateTypeOK ==
    /\ hour \in 0 .. HourBound
    /\ bucket.count \in 0 .. Limit + 1 /\ bucket.resetAt \in 0 .. HourBound + Window
    /\ \A p \in Processes : memory[p].count \in 0 .. Limit /\ memory[p].resetAt \in Nat
    /\ \A i \in DOMAIN allowed : allowed[i].at \in 0 .. hour

CallsIn(hours) == {i \in DOMAIN allowed : allowed[i].at \in hours}

\* The limit is multiplied by the number of processes, and no worse.  Wherever the
\* windows of the database and of the processes fall, a stretch of one window's
\* length meets two windows of a counter, and the first call of the older one lies
\* before it: every counter allows twice the limit less one call.
AllowanceBounded ==
    \A h \in 0 .. HourBound :
        Cardinality(CallsIn(h .. h + Window - 1))
            <= (2 * Limit - 1) * (1 + Cardinality(Processes))
=============================================================================
