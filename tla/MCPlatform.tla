----------------------------- MODULE MCPlatform -----------------------------
(* A small instance of every part; the competitors d1 and d2 are             *)
(* interchangeable, and d3 may be asked to judge.                            *)
EXTENDS Platform, TLC
CONSTANTS d1, d2, d3, d4, d5, t1, nobody, host, j1, j2, o, u1, u2, u3, s1, i1

MCUsers == {d1, d2, d3, d4, d5}
\* Three competitors one request at a time; two whose requests overlap, one of them
\* asked to judge; and four whose requests overlap, twice as many as a team takes.
MCCrowds ==
    {[who |-> {d1, d2, d4}, founders |-> {d1, d2, d4}, width |-> 1],
     [who |-> {d3, d4}, founders |-> {d3, d4}, width |-> 2],
     [who |-> {d1, d2, d4, d5}, founders |-> {d4}, width |-> 2]}
MCPlans ==
    {[prizes |-> p, deadline |-> 1, starts |-> 2, ends |-> 3] :
        p \in {{<<1, 1, 1>>}, {<<1, 1, 1>>, <<1, 2, 2>>}, {<<1, 2, 1>>, <<2, 1, 2>>}}}
    \cup {[prizes |-> {<<1, 2, 1>>}, deadline |-> 1, starts |-> s, ends |-> 4] : s \in {1, 2}}

\* One that has ended, one that is open, one to come; the hours are 0, 1 and 2.
MCHackathons ==
    [past |-> [starts |-> 0, ends |-> 0, deadline |-> 0, pool |-> 5,
               categories |-> {"ai", "web3"}, venue |-> "online", words |-> {"nairobi"}],
     soon |-> [starts |-> 1, ends |-> 2, deadline |-> 0, pool |-> 2,
               categories |-> {"ai"}, venue |-> "online", words |-> {"nairobi"}],
     late |-> [starts |-> 2, ends |-> 3, deadline |-> 1, pool |-> 3,
               categories |-> {"web3"}, venue |-> "hybrid", words |-> {"kisumu"}]]

Symmetry == Permutations({d1, d2})
=============================================================================
