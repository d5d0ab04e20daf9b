-------------------------------- MODULE Limiter --------------------------------
(***************************************************************************)
(* One message type at one destination: a clock, the limiter the           *)
(* destination keeps for the message, and the occurrences offered to       *)
(* ELdestination::skipMsg.  issued and shown are history variables: they   *)
(* count the way the descriptions of the parameters do, so the properties  *)
(* compare the code with them and not with itself.                         *)
(***************************************************************************)
EXTENDS XidLimiter

CONSTANTS
    Configs,     \* the configurations considered, see Config
    MaxTime,     \* bound: the last second of the clock
    MaxMsgs,     \* bound: occurrences between two restarts of the count
    NoLimiter    \* xidLimiters_ has no entry for the message

\* default: what the user wrote for category "default"; own: for the
\* category of the message; listed: the category is in the configuration.
Written == {Absent} \cup Int
Config == [default : [limit : Written, reportEvery : Written, timespan : Written],
           own     : [limit : Written, reportEvery : Written, timespan : Written],
           listed  : BOOLEAN]

ASSUME ConfigsAssumption == \A c \in Configs : c \in Config
\* The count of a limiter and the clock fit an int, so ++ never overflows.
ASSUME BoundsAssumption == /\ MaxTime \in Nat /\ MaxTime < IntMax
                           /\ MaxMsgs \in Nat /\ MaxMsgs <= IntMax
ASSUME NoLimiterAssumption == NoLimiter \notin LimiterType

VARIABLES config, now, limiter, issued, shown
vars == <<config, now, limiter, issued, shown>>

\* The settings of the two categories as the configuration tables read them.
DefaultSettings(c) == Configured(c.default, NoSettings)
OwnSettings(c)     == Configured(c.own, DefaultSettings(c))

\* The documented parameters of the message.
Documented(c) == IF c.listed THEN OwnSettings(c) ELSE DefaultSettings(c)

\* The parameters skipMsg finds for it.
Found(c) ==
    LET default == CategoryParams(DefaultSettings(c))
    IN  IF c.listed THEN Effective(CategoryParams(OwnSettings(c)), default)
                    ELSE default

QuietFor == IF limiter = NoLimiter THEN 0 ELSE now - limiter.previousTimestamp

Init ==
    /\ config \in Configs
    /\ now = 0
    /\ limiter = NoLimiter
    /\ issued = 0
    /\ shown = {}

\* One occurrence: find or create the limiter, count, decide.
SkipMsg ==
    /\ issued < MaxMsgs
    /\ LET counted == Count(IF limiter = NoLimiter
                            THEN NewLimiter(Found(config), now)
                            ELSE limiter, now)
           restart == /\ Documented(config).timespan > 0
                      /\ QuietFor >= Documented(config).timespan
           n       == IF restart THEN 1 ELSE issued + 1
           earlier == IF restart THEN {} ELSE shown
       IN  /\ limiter' = Decide(counted)
           /\ issued' = n
           /\ shown' = earlier \cup (IF Accepts(counted) THEN {n} ELSE {})
    /\ UNCHANGED <<config, now>>

\* A summary of a destination that resets its statistics clears the limiters.
ResetLimiters ==
    /\ limiter # NoLimiter
    /\ limiter' = NoLimiter
    /\ issued' = 0
    /\ shown' = {}
    /\ UNCHANGED <<config, now>>

Tick == now < MaxTime /\ now' = now + 1 /\ UNCHANGED <<config, limiter, issued, shown>>

Next == SkipMsg \/ ResetLimiters \/ Tick

Spec == Init /\ [][Next]_vars
--------------------------------------------------------------------------------
(***************************************************************************)
(* Properties.                                                             *)
(***************************************************************************)

\* A stored limiter has counted what was issued, and at least one occurrence.
TypeOK ==
    /\ config \in Configs
    /\ now \in 0 .. MaxTime
    /\ limiter \in LimiterType \cup {NoLimiter}
    /\ limiter # NoLimiter => limiter.msgCount > 0 /\ limiter.previousTimestamp \in 0 .. now
    /\ issued \in 0 .. MaxMsgs
    /\ shown \subseteq 1 .. issued

\* Prescaling: two occurrences that skipMsg lets through in one count are at
\* least reportEvery apart, whatever the limit does in between.
Spaced ==
    \A m, n \in shown : m < n => n - m >= Documented(config).reportEvery

\* The first occurrence of a count is always logged unless the limit is zero,
\* prescaled or not: "so that the FIRST of the prescaled messages emerges".
FirstShown == issued > 0 /\ Documented(config).limit # 0 => 1 \in shown

\* Past the limit only multiples of it are logged, and with limit zero
\* nothing is: skipMsg's fall-off never lets a stray occurrence through.
FallOff ==
    LET limit == Documented(config).limit
    IN  limit >= 0 =>
          \A n \in shown : limit > 0 /\ (n <= limit \/ \E j \in 1 .. n : n = limit * j)

\* The counters, the prescale state and the halving loop of skipMsg implement
\* the documented policy, restarts after a quiet timespan and resets included.
Policy == INSTANCE LimitPolicy WITH
    policy <- Documented(config),
    quiet  <- QuietFor
ImplementsPolicy == Policy!Spec

\* "A value of zero or less disables the timespan functionality"
\* (ELdestination.cc:87): the limit then holds for as long as the limiter does.
TimespanDisabled == Documented(config).timespan <= 0 => FallOff

\* "If the value [of reportEvery] is zero or less, then the report-every
\* feature is disabled" (ELdestination.cc:73): with no limit in force every
\* occurrence of the category is then logged.
ReportEveryDisabled ==
    Documented(config).reportEvery <= 0 /\ Documented(config).limit < 0
        => shown = 1 .. issued
===============================================================================
