------------------------------ MODULE LimitPolicy ------------------------------
(***************************************************************************)
(* What the configuration of a category promises, as the descriptions of   *)
(* 'limit', 'reportEvery' and 'timespan' word it (ELdestination.cc:57-89,  *)
(* the texts a user sees): which occurrences of one message are logged,    *)
(* in terms of the occurrences themselves.  There is no counter, no        *)
(* prescale state and no halving loop here: Limiter has those, and is      *)
(* shown to implement this.                                                *)
(***************************************************************************)
EXTENDS Integers

VARIABLES
    policy,   \* the parameters in force for the message
    issued,   \* how many occurrences there were since the count last started
    shown,    \* which of them, by number, were logged
    quiet     \* seconds since the last occurrence

vars == <<policy, issued, shown, quiet>>

\* 2^k.
TwoTo[k \in Nat] == IF k = 0 THEN 1 ELSE 2 * TwoTo[k - 1]

\* A category without a limit: everything passes.  Zero: nothing does.
\* Otherwise the first limit occurrences, then limit + limit * 2^k.
WithinLimit(n) ==
    \/ policy.limit < 0
    \/ policy.limit > 0 /\ n <= policy.limit
    \/ \E k \in 0 .. n : n = policy.limit * (1 + TwoTo[k])

\* Logged occurrences are at least reportEvery apart.
Due(n, logged) == \A m \in logged : n - m >= policy.reportEvery

\* There was no occurrence for the configured timespan.
LongQuiet == policy.timespan > 0 /\ quiet >= policy.timespan

Init ==
    /\ policy \in [limit : Int, reportEvery : Int, timespan : Int]
    /\ issued = 0
    /\ shown = {}
    /\ quiet = 0

Occurrence ==
    LET n      == IF LongQuiet THEN 1 ELSE issued + 1
        logged == IF LongQuiet THEN {} ELSE shown
    IN  /\ issued' = n
        /\ shown' = IF WithinLimit(n) /\ Due(n, logged) THEN logged \cup {n}
                                                        ELSE logged
        /\ quiet' = 0
        /\ UNCHANGED policy

Second == quiet' = quiet + 1 /\ UNCHANGED <<policy, issued, shown>>

\* The statistics of the destination were reset: everything starts again.
StartOver ==
    issued' = 0 /\ shown' = {} /\ quiet' = 0 /\ UNCHANGED policy

Next == Occurrence \/ Second \/ StartOver

Spec == Init /\ [][Next]_vars
===============================================================================
