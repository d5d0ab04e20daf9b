------------------------------ MODULE XidLimiter ------------------------------
(***************************************************************************)
(* The limiter a destination keeps for every message type (XidLimiter of   *)
(* ELdestination.h) and the decision ELdestination::skipMsg takes with it: *)
(* shall this occurrence of the message be logged?                         *)
(*                                                                         *)
(* The operators are pure: a limiter is a record, and the modules that     *)
(* keep limiters in their state (Limiter, Destination) apply them.         *)
(***************************************************************************)
EXTENDS Integers

CONSTANTS
    IntMax,   \* numeric_limits<int>::max(), which the code stores for "no limit"
    Absent    \* a field the user's configuration does not give

ASSUME IntMaxAssumption == IntMax \in Nat \ {0}
ASSUME AbsentAssumption == Absent \notin Int

(***************************************************************************)
(* Configuration.  A category is configured by three integers; -1 is the   *)
(* default of each.  A category other than "default" takes the fields it   *)
(* does not give from the "default" category.                              *)
(***************************************************************************)
Settings == [limit : Int, reportEvery : Int, timespan : Int]

NoSettings == [limit |-> -1, reportEvery |-> -1, timespan |-> -1]

Given(raw, default) == IF raw = Absent THEN default ELSE raw

\* The values the configuration table of a category yields, given what the
\* user wrote for it and for the category it inherits from.
Configured(written, inherited) ==
    [limit       |-> Given(written.limit, inherited.limit),
     reportEvery |-> Given(written.reportEvery, inherited.reportEvery),
     timespan    |-> Given(written.timespan, inherited.timespan)]

OrIntMax(n) == IF n < 0 THEN IntMax ELSE n

\* What the constructor keeps of a category's configuration.
CategoryParams(s) ==
    [limit       |-> OrIntMax(s.limit),
     reportEvery |-> s.reportEvery,
     timespan    |-> OrIntMax(s.timespan)]

OrDefault(n, default) == IF n < 0 THEN default ELSE n

\* The parameters skipMsg gives to the limiter of a message whose category
\* is configured with params, at a destination whose default is default.
Effective(params, default) ==
    [limit       |-> OrDefault(params.limit, default.limit),
     reportEvery |-> OrDefault(params.reportEvery, default.reportEvery),
     timespan    |-> OrDefault(params.timespan, default.timespan)]

(***************************************************************************)
(* The limiter.                                                            *)
(***************************************************************************)
LimiterType ==
    [previousTimestamp : Int, msgCount : Nat, skippedMsgCount : Int,
     limit : Int, reportEvery : Int, timespan : Int]

\* A slip: the prescale state starts from zero.
SlipNewLimiter(params, now) ==
    [previousTimestamp |-> now, msgCount |-> 0, skippedMsgCount |-> 0,
     limit |-> params.limit, reportEvery |-> params.reportEvery,
     timespan |-> params.timespan]

NewLimiter(params, now) ==
    [previousTimestamp |-> now,
     msgCount          |-> 0,
     skippedMsgCount   |-> params.reportEvery - 1,
     limit             |-> params.limit,
     reportEvery       |-> params.reportEvery,
     timespan          |-> params.timespan]

\* A slip: the timespan must be exceeded.
SlipExpired(l, now) ==
    l.timespan >= 0 /\ now - l.previousTimestamp > l.timespan

\* It has been so long that counting toward the limit starts again.
Expired(l, now) ==
    l.timespan >= 0 /\ now - l.previousTimestamp >= l.timespan

\* The prescale state after a restart: "so this message will be reacted to".
RestartSkipped(l) == IF l.reportEvery > 0 THEN l.reportEvery - 1 ELSE 0

\* A slip: the occurrence that restarts the count is not counted.
SlipCount(l, now) ==
    LET restart == Expired(l, now)
    IN  [l EXCEPT !.previousTimestamp = now,
                  !.msgCount = IF restart THEN 0 ELSE @ + 1,
                  !.skippedMsgCount = IF restart THEN RestartSkipped(l) ELSE @ + 1]

\* The limiter once it has counted an occurrence at time now.
Count(l, now) ==
    LET restart == Expired(l, now)
    IN  [l EXCEPT !.previousTimestamp = now,
                  !.msgCount = (IF restart THEN 0 ELSE @) + 1,
                  !.skippedMsgCount = (IF restart THEN RestartSkipped(l) ELSE @) + 1]

\* The loop that shifts r right until an odd number shows up: TRUE iff that
\* number is one.
HalvesToOne[r \in Nat] ==
    IF r <= 1 THEN TRUE ELSE r % 2 = 0 /\ HalvesToOne[r \div 2]

\* A slip: no test for a multiple of the limit.
SlipAnyQuotient(l) == HalvesToOne[(l.msgCount - l.limit) \div l.limit]

\* Past the limit, only the occurrences limit + limit * 2^k are reacted to.
OnFallOff(l) ==
    LET diff == l.msgCount - l.limit
        r    == diff \div l.limit
    IN  r * l.limit = diff /\ HalvesToOne[r]

\* The decision on the occurrence that l has just counted.
Accepts(l) ==
    /\ l.skippedMsgCount >= l.reportEvery
    /\ l.limit # 0
    /\ \/ l.limit < 0
       \/ l.msgCount <= l.limit
       \/ OnFallOff(l)

\* A slip: an accepted occurrence does not restart the prescaling.
SlipDecide(l) == l

\* What is left in the limiter after the decision.
Decide(l) == IF Accepts(l) THEN [l EXCEPT !.skippedMsgCount = 0] ELSE l
===============================================================================
