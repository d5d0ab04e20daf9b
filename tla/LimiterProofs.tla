----------------------------- MODULE LimiterProofs -----------------------------
(***************************************************************************)
(* What Limiter promises for every configuration and every bound.          *)
(***************************************************************************)
EXTENDS Limiter, FoldProofs

\* The two documented corners where the code does something else are left
\* out: a timespan of zero, and a category that disables a prescaling it
\* would inherit.
Regular(c) ==
    /\ Documented(c).timespan # 0
    /\ Documented(c).reportEvery < 0 => DefaultSettings(c).reportEvery <= 0

\* How long ago the last of the logged occurrences was; the first one of a
\* count comes prescaled out.
Since(l, n, logged) ==
    /\ logged = {} => l.skippedMsgCount >= l.reportEvery - 1 + n
    /\ logged # {} => \E m \in logged : n - m = l.skippedMsgCount

\* How the record in the map stands to the history of its occurrences.
Tracks ==
    /\ limiter = NoLimiter => issued = 0 /\ shown = {}
    /\ limiter # NoLimiter =>
         /\ limiter.msgCount = issued
         /\ limiter.limit = Found(config).limit
         /\ limiter.reportEvery = Found(config).reportEvery
         /\ limiter.timespan = Found(config).timespan
         /\ \A m \in shown : issued - m >= limiter.skippedMsgCount
         /\ Since(limiter, issued, shown)

IInv == TypeOK /\ Tracks /\ Spaced /\ FirstShown /\ FallOff

\* The tables of the configuration yield integers.
LEMMA SettingsType ==
    ASSUME NEW c \in Configs
    PROVE  DefaultSettings(c) \in Settings /\ OwnSettings(c) \in Settings
<1>1. c \in Config
  BY ConfigsAssumption
<1>2. DefaultSettings(c) \in Settings
  BY <1>1 DEF Config, Written, DefaultSettings, Configured, Given, NoSettings, Settings
<1>3. OwnSettings(c) \in Settings
  BY <1>1, <1>2 DEF Config, Written, OwnSettings, Configured, Given, Settings
<1> QED
  BY <1>2, <1>3

\* The parameters skipMsg finds are the documented ones, "none" being IntMax.
LEMMA FoundIsDocumented ==
    ASSUME NEW c \in Configs, Regular(c)
    PROVE  /\ Documented(c) \in Settings
           /\ Found(c) \in Settings
           /\ Found(c).limit = OrIntMax(Documented(c).limit)
           /\ Found(c).timespan = OrIntMax(Documented(c).timespan)
           /\ Found(c).limit >= 0 /\ Found(c).timespan > 0
           /\ Documented(c).reportEvery > 0
                => Found(c).reportEvery = Documented(c).reportEvery
           /\ Documented(c).reportEvery <= 0 => Found(c).reportEvery <= 0
<1>1. Documented(c) \in Settings /\ Found(c) \in Settings
  BY SettingsType, IntMaxAssumption
     DEF Documented, Found, Effective, CategoryParams, OrDefault, OrIntMax, Settings
<1>2. DefaultSettings(c) \in Settings /\ OwnSettings(c) \in Settings
  BY SettingsType
<1>3. /\ Found(c).limit = OrIntMax(Documented(c).limit)
      /\ Found(c).timespan = OrIntMax(Documented(c).timespan)
      /\ Documented(c).reportEvery > 0
           => Found(c).reportEvery = Documented(c).reportEvery
      /\ Documented(c).reportEvery <= 0 => Found(c).reportEvery <= 0
  BY <1>2, IntMaxAssumption
     DEF Documented, Found, Effective, CategoryParams, OrDefault, OrIntMax, Settings, Regular
<1>4. Found(c).limit >= 0 /\ Found(c).timespan > 0
  BY <1>1, <1>3, IntMaxAssumption DEF OrIntMax, Settings, Regular
<1> QED
  BY <1>1, <1>3, <1>4

\* An occurrence past the limit that is accepted is a multiple of the limit.
LEMMA FallOffMultiple ==
    ASSUME NEW l \in LimiterType, l.limit > 0, l.msgCount > l.limit, OnFallOff(l)
    PROVE  \E j \in 1 .. l.msgCount : l.msgCount = l.limit * j
<1> DEFINE diff == l.msgCount - l.limit
           r    == diff \div l.limit
<1>1. r \in Int /\ r * l.limit = diff
  BY DEF OnFallOff, LimiterType
<1>2. l.msgCount = l.limit * (r + 1)
  BY <1>1 DEF LimiterType
<1>3. r + 1 >= 1 /\ r + 1 <= l.msgCount
  BY <1>1, <1>2 DEF LimiterType
<1> QED
  BY <1>1, <1>2, <1>3 DEF LimiterType

LEMMA InitIInv == Init => IInv
BY BoundsAssumption DEF Init, IInv, TypeOK, Tracks, Spaced, FirstShown, FallOff

\* Counting and deciding, from a limiter that tracks the count.  start is the
\* number of occurrences of the count before this one, earlier those logged.
LEMMA DecideTracks ==
    ASSUME NEW l \in LimiterType, NEW t \in Nat, NEW start \in Nat,
           NEW earlier \in SUBSET (1 .. start),
           ~Expired(l, t) => l.msgCount = start,
           ~Expired(l, t) => \A m \in earlier : start - m >= l.skippedMsgCount,
           ~Expired(l, t) => Since(l, start, earlier),
           Expired(l, t) => start = 0,
           NEW counted, counted = Count(l, t)
    PROVE  /\ counted \in LimiterType /\ Decide(counted) \in LimiterType
           /\ counted.msgCount = start + 1
           /\ counted.limit = l.limit /\ counted.reportEvery = l.reportEvery
           /\ counted.timespan = l.timespan /\ counted.previousTimestamp = t
           /\ \A m \in earlier : start + 1 - m >= counted.skippedMsgCount
           /\ Since(counted, start + 1, earlier)
           /\ Decide(counted).msgCount = start + 1
           /\ Decide(counted).limit = l.limit
           /\ Decide(counted).reportEvery = l.reportEvery
           /\ Decide(counted).timespan = l.timespan
           /\ Decide(counted).previousTimestamp = t
           /\ Accepts(counted) => Decide(counted).skippedMsgCount = 0
           /\ ~Accepts(counted) => Decide(counted) = counted
           /\ Expired(l, t) => counted.skippedMsgCount >= l.reportEvery
           /\ ~Expired(l, t) => counted.skippedMsgCount = l.skippedMsgCount + 1
<1>1. CASE Expired(l, t)
  <2>1. earlier = {}
    BY <1>1
  <2>2. RestartSkipped(l) \in Int
    BY DEF RestartSkipped, LimiterType
  <2>3. counted = [previousTimestamp |-> t, msgCount |-> 0 + 1,
                   skippedMsgCount |-> RestartSkipped(l) + 1,
                   limit |-> l.limit, reportEvery |-> l.reportEvery,
                   timespan |-> l.timespan]
    BY <1>1, <2>2 DEF Count, LimiterType
  <2> QED
    <3>1. counted.skippedMsgCount >= l.reportEvery
      BY <2>2, <2>3 DEF RestartSkipped, LimiterType
    <3> QED
      BY <1>1, <2>1, <2>2, <2>3, <3>1 DEF Decide, LimiterType, Since
<1>2. CASE ~Expired(l, t)
  <2>1. counted = [previousTimestamp |-> t, msgCount |-> start + 1,
                   skippedMsgCount |-> l.skippedMsgCount + 1,
                   limit |-> l.limit, reportEvery |-> l.reportEvery,
                   timespan |-> l.timespan]
    BY <1>2 DEF Count, LimiterType
  <2> QED
    BY <1>2, <2>1 DEF Decide, LimiterType, Since
<1> QED
  BY <1>1, <1>2

\* What skipMsg works on: the limiter it finds or makes, that limiter when it
\* has counted, and the number of the occurrence in a count that the
\* description says to restart.
Current    == IF limiter = NoLimiter THEN NewLimiter(Found(config), now) ELSE limiter
Counted    == Count(Current, now)
Restart    == Documented(config).timespan > 0 /\ QuietFor >= Documented(config).timespan
Before     == IF Restart THEN 0 ELSE issued
Number     == IF Restart THEN 1 ELSE issued + 1
Earlier    == IF Restart THEN {} ELSE shown

\* The code restarts the count exactly when the description says so, and its
\* limiter tracks the count before and after the decision.
LEMMA SkipMsgCounts ==
    ASSUME \A c \in Configs : Regular(c), IInv, SkipMsg
    PROVE  /\ limiter' = Decide(Counted) /\ issued' = Number
           /\ shown' = Earlier \cup (IF Accepts(Counted) THEN {Number} ELSE {})
           /\ config' = config /\ now' = now
           /\ Restart <=> Expired(Current, now)
           /\ Before \in Nat /\ Number = Before + 1 /\ Number \in 1 .. MaxMsgs
           /\ Before <= issued /\ Earlier \in SUBSET (1 .. Before)
           /\ Current.limit = Found(config).limit
           /\ Current.reportEvery = Found(config).reportEvery
           /\ Current.timespan = Found(config).timespan
           /\ Counted \in LimiterType /\ Decide(Counted) \in LimiterType
           /\ Counted.msgCount = Number
           /\ Counted.limit = Current.limit /\ Counted.reportEvery = Current.reportEvery
           /\ Counted.timespan = Current.timespan
           /\ \A m \in Earlier : Number - m >= Counted.skippedMsgCount
           /\ Since(Counted, Number, Earlier)
           /\ Decide(Counted).msgCount = Number /\ Decide(Counted).limit = Current.limit
           /\ Decide(Counted).reportEvery = Current.reportEvery
           /\ Decide(Counted).timespan = Current.timespan
           /\ Decide(Counted).previousTimestamp = now
           /\ Accepts(Counted) => Decide(Counted).skippedMsgCount = 0
           /\ ~Accepts(Counted) => Decide(Counted) = Counted
           /\ Expired(Current, now) => Counted.skippedMsgCount >= Current.reportEvery
           /\ ~Expired(Current, now) => Counted.skippedMsgCount = Current.skippedMsgCount + 1
           /\ limiter' \in LimiterType /\ limiter' # NoLimiter
<1> DEFINE doc == Documented(config)
           found == Found(config)
<1>0. /\ config \in Configs /\ Regular(config) /\ now \in Nat /\ now < IntMax
      /\ issued \in Nat /\ issued < MaxMsgs
      /\ shown \subseteq 1 .. issued
      /\ IntMax \in Nat /\ MaxMsgs \in Nat
  BY BoundsAssumption, IntMaxAssumption DEF IInv, TypeOK, SkipMsg
<1>1. /\ limiter' = Decide(Counted) /\ issued' = Number
      /\ shown' = Earlier \cup (IF Accepts(Counted) THEN {Number} ELSE {})
      /\ config' = config /\ now' = now
  BY DEF SkipMsg, Counted, Current, Restart, Number, Earlier
<1>2. /\ doc \in Settings /\ found \in Settings
      /\ found.limit = OrIntMax(doc.limit) /\ found.limit >= 0
      /\ found.timespan = OrIntMax(doc.timespan) /\ found.timespan > 0
  BY <1>0, FoundIsDocumented
<1>3. /\ Current \in LimiterType /\ Current.limit = found.limit
      /\ Current.reportEvery = found.reportEvery /\ Current.timespan = found.timespan
      /\ now - Current.previousTimestamp = QuietFor /\ QuietFor \in 0 .. now
  BY <1>0, <1>2
     DEF IInv, TypeOK, Tracks, NewLimiter, LimiterType, Settings, QuietFor, Current
<1>4. Restart <=> Expired(Current, now)
  BY <1>0, <1>2, <1>3 DEF Expired, OrIntMax, Settings, Regular, Restart
<1>5. /\ Before \in Nat /\ Number = Before + 1 /\ Number \in 1 .. MaxMsgs
      /\ Before <= issued /\ Earlier \in SUBSET (1 .. Before)
  BY <1>0 DEF Before, Number, Earlier
<1>6. ~Expired(Current, now) => /\ Current.msgCount = Before
                                /\ \A m \in Earlier : Before - m >= Current.skippedMsgCount
                                /\ Since(Current, Before, Earlier)
  <2> SUFFICES ASSUME ~Expired(Current, now)
               PROVE  /\ Current.msgCount = Before
                      /\ \A m \in Earlier : Before - m >= Current.skippedMsgCount
                      /\ Since(Current, Before, Earlier)
    OBVIOUS
  <2>1. Before = issued /\ Earlier = shown
    BY <1>4 DEF Before, Earlier
  <2>2. CASE limiter = NoLimiter
    <3>1. /\ issued = 0 /\ shown = {} /\ Current.msgCount = 0
          /\ Current.skippedMsgCount = Current.reportEvery - 1
      BY <2>2 DEF IInv, Tracks, NewLimiter, Current
    <3>2. Current.reportEvery - 1 \in Int
      BY <1>2, <1>3 DEF Settings
    <3> QED
      BY <2>1, <3>1, <3>2 DEF Since
  <2>3. CASE limiter # NoLimiter
    BY <2>1, <2>3 DEF IInv, Tracks, Current
  <2> QED
    BY <2>2, <2>3
<1>7. Expired(Current, now) => Before = 0
  BY <1>4 DEF Before
<1>8. /\ Counted \in LimiterType /\ Decide(Counted) \in LimiterType
      /\ Counted.msgCount = Number
      /\ Counted.limit = Current.limit /\ Counted.reportEvery = Current.reportEvery
      /\ Counted.timespan = Current.timespan
      /\ \A m \in Earlier : Number - m >= Counted.skippedMsgCount
      /\ Since(Counted, Number, Earlier)
      /\ Decide(Counted).msgCount = Number /\ Decide(Counted).limit = Current.limit
      /\ Decide(Counted).reportEvery = Current.reportEvery
      /\ Decide(Counted).timespan = Current.timespan
      /\ Decide(Counted).previousTimestamp = now
      /\ Accepts(Counted) => Decide(Counted).skippedMsgCount = 0
      /\ ~Accepts(Counted) => Decide(Counted) = Counted
      /\ Expired(Current, now) => Counted.skippedMsgCount >= Current.reportEvery
      /\ ~Expired(Current, now) => Counted.skippedMsgCount = Current.skippedMsgCount + 1
  <2>1. Counted = Count(Current, now)
    BY DEF Counted
  <2>2. /\ Current \in LimiterType /\ now \in Nat /\ Before \in Nat
        /\ Earlier \in SUBSET (1 .. Before)
        /\ ~Expired(Current, now) => Current.msgCount = Before
        /\ ~Expired(Current, now) => \A m \in Earlier : Before - m >= Current.skippedMsgCount
        /\ ~Expired(Current, now) => Since(Current, Before, Earlier)
        /\ Expired(Current, now) => Before = 0
    BY <1>0, <1>3, <1>5, <1>6, <1>7
  <2>3. Number = Before + 1
    BY <1>5
  <2> HIDE DEF doc, found
  <2> QED
    BY ONLY <2>1, <2>2, <2>3, DecideTracks
<1>9. limiter' \in LimiterType /\ limiter' # NoLimiter
  BY <1>1, <1>8, NoLimiterAssumption
<1> QED
  BY <1>1, <1>3, <1>4, <1>5, <1>8, <1>9

\* skipMsg keeps the invariant.
LEMMA SkipMsgIInv ==
    ASSUME \A c \in Configs : Regular(c), IInv, SkipMsg
    PROVE  IInv'
<1> DEFINE doc == Documented(config)
           found == Found(config)
<1>0. /\ config \in Configs /\ now \in 0 .. MaxTime /\ now \in Nat
      /\ issued \in Nat /\ shown \subseteq 1 .. issued
  BY BoundsAssumption DEF IInv, TypeOK
<1>1. /\ limiter' = Decide(Counted) /\ issued' = Number
      /\ shown' = Earlier \cup (IF Accepts(Counted) THEN {Number} ELSE {})
      /\ config' = config /\ now' = now
  BY SkipMsgCounts
<1>2. /\ doc \in Settings /\ found \in Settings
      /\ found.limit = OrIntMax(doc.limit) /\ found.limit >= 0
      /\ doc.reportEvery > 0 => found.reportEvery = doc.reportEvery
  BY <1>0, FoundIsDocumented
<1>3. /\ Before \in Nat /\ Number = Before + 1 /\ Number \in 1 .. MaxMsgs
      /\ Before <= issued /\ Earlier \in SUBSET (1 .. Before)
      /\ Restart <=> Expired(Current, now)
  BY SkipMsgCounts
<1>4. /\ Counted \in LimiterType /\ Decide(Counted) \in LimiterType
      /\ Counted.msgCount = Number /\ Counted.limit = found.limit
      /\ Counted.reportEvery = found.reportEvery
      /\ \A m \in Earlier : Number - m >= Counted.skippedMsgCount
      /\ Since(Counted, Number, Earlier)
      /\ Accepts(Counted) => Decide(Counted).skippedMsgCount = 0
      /\ ~Accepts(Counted) => Decide(Counted) = Counted
  BY SkipMsgCounts
<1>5. /\ Decide(Counted).msgCount = Number /\ Decide(Counted).limit = found.limit
      /\ Decide(Counted).reportEvery = found.reportEvery
      /\ Decide(Counted).timespan = found.timespan
      /\ Decide(Counted).previousTimestamp = now
      /\ limiter' \in LimiterType /\ limiter' # NoLimiter
  BY SkipMsgCounts
<1> HIDE DEF doc, found
<1>t. TypeOK'
  BY <1>0, <1>1, <1>3, <1>5 DEF TypeOK
<1>k. Tracks'
  <2>1. \A m \in shown' : Number - m >= Decide(Counted).skippedMsgCount
    BY <1>1, <1>3, <1>4 DEF LimiterType
  <2>2. Since(Decide(Counted), Number, shown')
    BY <1>1, <1>3, <1>4 DEF Since, LimiterType
  <2> QED
    BY <1>1, <1>5, <2>1, <2>2 DEF Tracks, found
<1>s. Spaced'
  <2> SUFFICES ASSUME NEW m \in shown', NEW k \in shown', m < k
               PROVE  k - m >= doc.reportEvery
    BY <1>1 DEF Spaced, doc
  <2>1. CASE k \in Earlier
    BY <1>1, <1>3, <2>1 DEF IInv, Spaced, Earlier, doc
  <2>2. CASE k \notin Earlier
    <3>1. k = Number /\ Accepts(Counted) /\ m \in Earlier
      BY <1>1, <1>3, <2>2
    <3>2. Number - m >= found.reportEvery
      BY <1>2, <1>3, <1>4, <3>1 DEF Accepts, LimiterType, Settings
    <3> QED
      BY <1>2, <1>3, <3>1, <3>2 DEF Settings
  <2> QED
    BY <2>1, <2>2
<1>f. FirstShown'
  <2> SUFFICES ASSUME doc.limit # 0 PROVE 1 \in shown'
    BY <1>1 DEF FirstShown, doc
  <2>1. CASE Before = 0
    <3>1. Earlier = {} /\ Number = 1 /\ found.limit >= 1
      BY <1>2, <1>3, <2>1, IntMaxAssumption DEF OrIntMax, Settings
    <3>2. Counted.skippedMsgCount >= Counted.reportEvery
      BY <1>2, <1>4, <3>1 DEF Since, LimiterType, Settings
    <3>3. Accepts(Counted)
      BY <1>2, <1>4, <3>1, <3>2 DEF Accepts, LimiterType, Settings
    <3> QED
      BY <1>1, <3>1, <3>3
  <2>2. CASE Before # 0
    BY <1>0, <1>1, <2>2 DEF IInv, FirstShown, Before, Earlier, doc
  <2> QED
    BY <2>1, <2>2
<1>o. FallOff'
  <2> SUFFICES ASSUME doc.limit >= 0, NEW k \in shown'
               PROVE  doc.limit > 0 /\ (k <= doc.limit \/ \E j \in 1 .. k : k = doc.limit * j)
    BY <1>1 DEF FallOff, doc
  <2>1. CASE k \in Earlier
    BY <2>1 DEF IInv, FallOff, Earlier, doc
  <2>2. CASE k \notin Earlier
    <3>1. k = Number /\ Accepts(Counted)
      BY <1>1, <2>2
    <3>2. Counted.limit = doc.limit /\ doc.limit \in Int
      BY <1>2, <1>4 DEF OrIntMax, Settings
    <3>3. doc.limit > 0 /\ (k <= doc.limit \/ OnFallOff(Counted))
      BY <1>3, <1>4, <3>1, <3>2 DEF Accepts, LimiterType
    <3>4. CASE k > doc.limit
      BY <1>3, <1>4, <3>1, <3>2, <3>3, <3>4, FallOffMultiple
    <3> QED
      BY <1>3, <3>1, <3>2, <3>3, <3>4
  <2> QED
    BY <2>1, <2>2
<1> QED
  BY <1>t, <1>k, <1>s, <1>f, <1>o DEF IInv

\* Every step keeps the invariant.
LEMMA NextIInv ==
    ASSUME \A c \in Configs : Regular(c), IInv, [Next]_vars
    PROVE  IInv'
<1>1. CASE SkipMsg
  BY <1>1, SkipMsgIInv
<1>2. CASE ResetLimiters
  BY <1>2, BoundsAssumption DEF ResetLimiters, IInv, TypeOK, Tracks, Spaced, FirstShown, FallOff
<1>3. CASE Tick
  <2>1. TypeOK'
    <3>1. now' \in 0 .. MaxTime /\ now \in 0 .. now'
      BY <1>3, BoundsAssumption DEF Tick, IInv, TypeOK
    <3>2. limiter # NoLimiter => limiter.previousTimestamp \in 0 .. now'
      BY <1>3, <3>1, BoundsAssumption DEF IInv, TypeOK
    <3> QED
      BY <1>3, <3>1, <3>2 DEF Tick, IInv, TypeOK
  <2>2. Tracks' /\ Spaced' /\ FirstShown' /\ FallOff'
    BY <1>3 DEF Tick, IInv, Tracks, Spaced, FirstShown, FallOff
  <2> QED
    BY <2>1, <2>2 DEF IInv
<1>4. CASE UNCHANGED vars
  BY <1>4 DEF vars, IInv, TypeOK, Tracks, Spaced, FirstShown, FallOff
<1> QED
  BY <1>1, <1>2, <1>3, <1>4 DEF Next

\* Whatever the configuration, outside the two documented corners where the
\* code differs: the limiter keeps its counters consistent with the history.
THEOREM LimiterInvariant ==
    ASSUME \A c \in Configs : Regular(c)
    PROVE  Spec => []IInv
<1>1. Init => IInv
  BY InitIInv
<1>2. IInv /\ [Next]_vars => IInv'
  BY NextIInv
<1> QED
  BY <1>1, <1>2, PTL DEF Spec

\* The limiter of ELdestination.h only ever holds values of its type.
THEOREM LimiterTypeCorrect ==
    ASSUME \A c \in Configs : Regular(c)
    PROVE  Spec => []TypeOK
<1>1. IInv => TypeOK
  BY DEF IInv
<1> QED
  BY <1>1, LimiterInvariant, PTL

\* skipMsg never logs two occurrences closer than reportEvery in one count.
THEOREM PrescaleKept ==
    ASSUME \A c \in Configs : Regular(c)
    PROVE  Spec => []Spaced
<1>1. IInv => Spaced
  BY DEF IInv
<1> QED
  BY <1>1, LimiterInvariant, PTL

\* skipMsg logs the first occurrence of every count unless the limit is zero.
THEOREM FirstOccurrenceLogged ==
    ASSUME \A c \in Configs : Regular(c)
    PROVE  Spec => []FirstShown
<1>1. IInv => FirstShown
  BY DEF IInv
<1> QED
  BY <1>1, LimiterInvariant, PTL

\* Past the limit skipMsg logs multiples of it only, and nothing at limit zero.
THEOREM LimitKept ==
    ASSUME \A c \in Configs : Regular(c)
    PROVE  Spec => []FallOff
<1>1. IInv => FallOff
  BY DEF IInv
<1> QED
  BY <1>1, LimiterInvariant, PTL
--------------------------------------------------------------------------------
(***************************************************************************)
(* Powers of two and the halving loop.                                     *)
(***************************************************************************)
\* A function that doubles, up to n or everywhere.
Doubles(D, f) == f = [k \in D |-> IF k = 0 THEN 1 ELSE 2 * f[k - 1]]

LEMMA DoublesUpTo ==
    ASSUME NEW n \in Nat
    PROVE  \E f \in [0 .. n -> Nat] : Doubles(0 .. n, f)
<1> DEFINE Q == {m \in Nat : \E f \in [0 .. m -> Nat] : Doubles(0 .. m, f)}
<1>1. 0 \in Q
  <2> DEFINE f == [k \in 0 .. 0 |-> 1]
  <2>1. f \in [0 .. 0 -> Nat] /\ \A k \in 0 .. 0 : f[k] = IF k = 0 THEN 1 ELSE 2 * f[k - 1]
    OBVIOUS
  <2> HIDE DEF f
  <2>2. Doubles(0 .. 0, f)
    BY <2>1 DEF Doubles
  <2> QED
    BY <2>1, <2>2
<1>2. ASSUME NEW m \in Nat, m \in Q PROVE m + 1 \in Q
  <2>1. PICK f \in [0 .. m -> Nat] : Doubles(0 .. m, f)
    BY <1>2
  <2>2. \A k \in 0 .. m : f[k] \in Nat /\ f[k] = IF k = 0 THEN 1 ELSE 2 * f[k - 1]
    BY <2>1 DEF Doubles
  <2> DEFINE g == [k \in 0 .. m + 1 |-> IF k = m + 1 THEN 2 * f[m] ELSE f[k]]
  <2>3. /\ \A k \in 0 .. m : g[k] = f[k]
        /\ g[m + 1] = 2 * f[m]
        /\ DOMAIN g = 0 .. m + 1
    OBVIOUS
  <2>4. g \in [0 .. m + 1 -> Nat]
    BY <2>2
  <2> HIDE DEF g
  <2>5. \A k \in 0 .. m + 1 : g[k] = IF k = 0 THEN 1 ELSE 2 * g[k - 1]
    <3> SUFFICES ASSUME NEW k \in 0 .. m + 1 PROVE g[k] = IF k = 0 THEN 1 ELSE 2 * g[k - 1]
      OBVIOUS
    <3>1. CASE k = m + 1
      BY <2>3, <3>1
    <3>2. CASE k \in 0 .. m
      BY <2>2, <2>3, <3>2
    <3> QED
      BY <3>1, <3>2
  <2>6. Doubles(0 .. m + 1, g)
    BY <2>3, <2>4, <2>5 DEF Doubles
  <2> QED
    BY <2>4, <2>6
<1> HIDE DEF Q
<1>3. n \in Q
  BY <1>1, <1>2, NumberInduction
<1> QED
  BY <1>3 DEF Q

\* The recursion of 2^k.
LEMMA TwoToIs ==
    /\ Policy!TwoTo[0] = 1
    /\ \A k \in Nat : Policy!TwoTo[k] \in Nat /\ Policy!TwoTo[k + 1] = 2 * Policy!TwoTo[k]
<1> DEFINE up(n) == CHOOSE f \in [0 .. n -> Nat] : Doubles(0 .. n, f)
<1>1. ASSUME NEW n \in Nat
      PROVE  /\ up(n) \in [0 .. n -> Nat]
             /\ \A k \in 0 .. n : up(n)[k] = IF k = 0 THEN 1 ELSE 2 * up(n)[k - 1]
  <2>1. up(n) \in [0 .. n -> Nat] /\ Doubles(0 .. n, up(n))
    BY DoublesUpTo
  <2> HIDE DEF up
  <2> QED
    BY <2>1 DEF Doubles
<1> HIDE DEF up
<1>2. ASSUME NEW n \in Nat PROVE \A k \in 0 .. n : up(n + 1)[k] = up(n)[k]
  <2> DEFINE Q == {k \in Nat : k \in 0 .. n => up(n + 1)[k] = up(n)[k]}
  <2>1. 0 \in Q
    BY <1>1
  <2>2. ASSUME NEW k \in Nat, k \in Q PROVE k + 1 \in Q
    <3> SUFFICES ASSUME k + 1 \in 0 .. n PROVE up(n + 1)[k + 1] = up(n)[k + 1]
      OBVIOUS
    <3>1. k \in 0 .. n /\ k + 1 \in 0 .. n + 1 /\ n + 1 \in Nat /\ (k + 1) - 1 = k
      OBVIOUS
    <3>2. up(n + 1)[k + 1] = 2 * up(n + 1)[k] /\ up(n)[k + 1] = 2 * up(n)[k]
      BY <1>1, <3>1
    <3> QED
      BY <2>2, <3>1, <3>2
  <2> HIDE DEF Q
  <2>3. \A k \in Nat : k \in Q
    BY <2>1, <2>2, NumberInduction
  <2> QED
    BY <2>3 DEF Q
<1> DEFINE p == [k \in Nat |-> up(k)[k]]
<1>3. \A k \in Nat : p[k] = up(k)[k] /\ p[k] \in Nat
  BY <1>1
<1>4. DOMAIN p = Nat /\ p = [k \in Nat |-> p[k]]
  OBVIOUS
<1> HIDE DEF p
<1>5. \A k \in Nat : p[k] = IF k = 0 THEN 1 ELSE 2 * p[k - 1]
  <2> SUFFICES ASSUME NEW k \in Nat, k # 0 PROVE p[k] = 2 * p[k - 1]
    BY <1>1, <1>3
  <2>1. k - 1 \in Nat /\ (k - 1) + 1 = k /\ k \in 0 .. k /\ k - 1 \in 0 .. k - 1
    OBVIOUS
  <2>2. up(k)[k] = 2 * up(k)[k - 1]
    BY <1>1, <2>1
  <2>3. up(k)[k - 1] = up(k - 1)[k - 1]
    BY <1>2, <2>1
  <2> QED
    BY <1>3, <2>1, <2>2, <2>3
<1>6. Doubles(Nat, p)
  BY <1>4, <1>5 DEF Doubles
<1>7. PICK q : q = Policy!TwoTo
  OBVIOUS
<1>8. Policy!TwoTo = CHOOSE f : Doubles(Nat, f)
  BY Zenon DEF Policy!TwoTo, Doubles
<1>9. Doubles(Nat, q)
  <2>1. Doubles(Nat, CHOOSE f : Doubles(Nat, f))
    BY <1>6
  <2> QED
    BY <1>7, <1>8, <2>1
<1>10. \A k \in Nat : q[k] = IF k = 0 THEN 1 ELSE 2 * q[k - 1]
  BY <1>9 DEF Doubles
<1>11. \A k \in Nat : q[k + 1] = 2 * q[k]
  BY <1>10
<1>12. \A k \in Nat : q[k] \in Nat
  <2> DEFINE Q == {k \in Nat : q[k] \in Nat}
  <2>1. 0 \in Q
    BY <1>10
  <2>2. ASSUME NEW k \in Nat, k \in Q PROVE k + 1 \in Q
    BY <1>11, <2>2
  <2> HIDE DEF Q
  <2>3. \A k \in Nat : k \in Q
    BY <2>1, <2>2, NumberInduction
  <2> QED
    BY <2>3 DEF Q
<1> QED
  BY <1>7, <1>10, <1>11, <1>12

\* 2^k is larger than k.
LEMMA TwoToLarge == \A k \in Nat : Policy!TwoTo[k] > k
<1> DEFINE Q == {k \in Nat : Policy!TwoTo[k] > k}
<1>1. 0 \in Q
  BY TwoToIs
<1>2. ASSUME NEW k \in Nat, k \in Q PROVE k + 1 \in Q
  BY <1>2, TwoToIs
<1> HIDE DEF Q
<1>3. \A k \in Nat : k \in Q
  BY <1>1, <1>2, NumberInduction
<1> QED
  BY <1>3 DEF Q

PowerOfTwo(r) == \E k \in Nat : r = Policy!TwoTo[k]

\* One is a power of two, and a larger number is one iff it is even and its half is.
LEMMA PowerHalves ==
    ASSUME NEW r \in Nat, r > 0
    PROVE  PowerOfTwo(r) <=> r = 1 \/ (r % 2 = 0 /\ PowerOfTwo(r \div 2))
<1>1. r = 1 => PowerOfTwo(r)
  BY TwoToIs DEF PowerOfTwo
<1>2. ASSUME r % 2 = 0, PowerOfTwo(r \div 2) PROVE PowerOfTwo(r)
  <2>1. PICK k \in Nat : r \div 2 = Policy!TwoTo[k]
    BY <1>2 DEF PowerOfTwo
  <2>2. r = Policy!TwoTo[k + 1] /\ k + 1 \in Nat
    BY <1>2, <2>1, TwoToIs
  <2> QED
    BY <2>2 DEF PowerOfTwo
<1>3. ASSUME PowerOfTwo(r), r # 1 PROVE r % 2 = 0 /\ PowerOfTwo(r \div 2)
  <2>1. PICK k \in Nat : r = Policy!TwoTo[k]
    BY <1>3 DEF PowerOfTwo
  <2>2. k - 1 \in Nat /\ (k - 1) + 1 = k
    BY <1>3, <2>1, TwoToIs
  <2>3. r = 2 * Policy!TwoTo[k - 1] /\ Policy!TwoTo[k - 1] \in Nat
    BY <2>1, <2>2, TwoToIs
  <2>4. r % 2 = 0 /\ r \div 2 = Policy!TwoTo[k - 1]
    BY <2>3
  <2> QED
    BY <2>2, <2>4 DEF PowerOfTwo
<1> QED
  BY <1>1, <1>2, <1>3

\* What the loop of skipMsg's fall-off does to a function that knows the outcome.
Halves(f) == f = [r \in Nat |-> IF r <= 1 THEN TRUE ELSE r % 2 = 0 /\ f[r \div 2]]

\* The loop of skipMsg that shifts right while the number is even ends at one
\* exactly if the number is a power of two.
THEOREM HalvingLoop ==
    ASSUME NEW r \in Nat, r > 0
    PROVE  HalvesToOne[r] <=> PowerOfTwo(r)
<1> DEFINE g == [n \in Nat |-> n = 0 \/ PowerOfTwo(n)]
<1>1. /\ DOMAIN g = Nat /\ g = [n \in Nat |-> g[n]]
      /\ \A n \in Nat : g[n] = (n = 0 \/ PowerOfTwo(n))
  BY Zenon
<1> HIDE DEF g
<1>2. ASSUME NEW n \in Nat
      PROVE  g[n] = IF n <= 1 THEN TRUE ELSE n % 2 = 0 /\ g[n \div 2]
  <2>1. CASE n <= 1
    <3>1. n = 0 \/ PowerOfTwo(n)
      BY <2>1, PowerHalves
    <3>2. g[n] = TRUE
      BY <1>1, <3>1, Zenon
    <3> QED
      BY <2>1, <3>2, Zenon
  <2>2. CASE ~(n <= 1)
    <3>1. n \div 2 \in Nat /\ n \div 2 # 0 /\ n # 0
      BY <2>2
    <3>2. PowerOfTwo(n) <=> n % 2 = 0 /\ PowerOfTwo(n \div 2)
      BY <2>2, PowerHalves
    <3>3. g[n] = (n = 0 \/ PowerOfTwo(n))
          /\ g[n \div 2] = (n \div 2 = 0 \/ PowerOfTwo(n \div 2))
      BY <1>1, <3>1, Zenon
    <3>4. g[n] = (n % 2 = 0 /\ g[n \div 2])
      BY <3>1, <3>2, <3>3, Zenon
    <3> QED
      BY <2>2, <3>4, Zenon
  <2> QED
    BY <2>1, <2>2
<1>3. Halves(g)
  BY <1>1, <1>2, Zenon DEF Halves
<1>4. HalvesToOne = CHOOSE f : Halves(f)
  BY Zenon DEF HalvesToOne, Halves
<1>5. PICK h : h = HalvesToOne
  OBVIOUS
<1>6. Halves(h)
  <2>1. Halves(CHOOSE f : Halves(f))
    BY <1>3
  <2> QED
    BY <1>4, <1>5, <2>1
<1>7. ASSUME NEW n \in Nat
      PROVE  h[n] = IF n <= 1 THEN TRUE ELSE n % 2 = 0 /\ h[n \div 2]
  BY <1>6, Zenon DEF Halves
<1>8. ASSUME NEW n \in Nat, ~(n <= 1)
      PROVE  h[n] <=> n % 2 = 0 /\ h[n \div 2]
  BY <1>7, <1>8, Zenon
<1> DEFINE Q == {n \in Nat : \A m \in 0 .. n : m > 0 => (h[m] <=> PowerOfTwo(m))}
<1>9. 0 \in Q
  OBVIOUS
<1>10. ASSUME NEW n \in Nat, n \in Q PROVE n + 1 \in Q
  <2>1. h[n + 1] <=> PowerOfTwo(n + 1)
    <3>1. CASE n + 1 <= 1
      <4>1. n + 1 = 1 /\ PowerOfTwo(1) /\ n + 1 \in Nat
        BY <3>1, PowerHalves
      <4>2. h[n + 1]
        BY <1>7, <3>1, <4>1, Zenon
      <4> QED
        BY <4>1, <4>2, Zenon
    <3>2. CASE ~(n + 1 <= 1)
      <4> DEFINE k == n + 1
                 m == k \div 2
      <4>1. k \in Nat /\ k > 0 /\ k # 1 /\ m \in 0 .. n /\ m > 0
        BY <3>2
      <4>2. h[m] <=> PowerOfTwo(m)
        BY <1>10, <4>1
      <4>3. PowerOfTwo(k) <=> k % 2 = 0 /\ PowerOfTwo(m)
        <5> HIDE DEF k
        <5> QED
          BY <4>1, PowerHalves
      <4>4. h[k] <=> k % 2 = 0 /\ h[m]
        BY <1>8, <3>2, <4>1, Zenon
      <4> QED
        BY <4>2, <4>3, <4>4, Zenon
    <3> QED
      BY <3>1, <3>2
  <2>2. ASSUME NEW m \in 0 .. n + 1, m > 0 PROVE h[m] <=> PowerOfTwo(m)
    <3>1. CASE m = n + 1
      BY <2>1, <3>1
    <3>2. CASE m \in 0 .. n
      BY <1>10, <2>2, <3>2
    <3> QED
      BY <3>1, <3>2
  <2> QED
    BY <2>2
<1> HIDE DEF Q
<1>11. r \in Q
  BY <1>9, <1>10, NumberInduction
<1>12. h[r] <=> PowerOfTwo(r)
  BY <1>11 DEF Q
<1> QED
  BY <1>5, <1>12, Zenon
--------------------------------------------------------------------------------
(***************************************************************************)
(* The counters implement the documented policy.                           *)
(***************************************************************************)
\* Past the limit, the arithmetic of skipMsg (a multiple of the limit, and a
\* halving loop) accepts exactly the occurrences limit * (1 + 2^k).
THEOREM FallOffPowers ==
    ASSUME NEW l \in LimiterType, l.limit > 0, l.msgCount > l.limit
    PROVE  OnFallOff(l) <=> \E k \in 0 .. l.msgCount :
                              l.msgCount = l.limit * (1 + Policy!TwoTo[k])
<1> PICK n \in Nat : n = l.msgCount
  BY DEF LimiterType
<1> PICK m \in Nat : m = l.limit
  BY DEF LimiterType
<1> DEFINE r == (n - m) \div m
<1>1. n > m /\ m > 0 /\ n - m \in Nat /\ r \in Nat
  OBVIOUS
<1>2. OnFallOff(l) <=> r * m = n - m /\ HalvesToOne[r]
  BY DEF OnFallOff
<1> HIDE DEF r
<1>3. ASSUME r * m = n - m PROVE r > 0
  BY <1>1, <1>3
<1>4. ASSUME NEW k \in 0 .. n, n = m * (1 + Policy!TwoTo[k])
      PROVE  r * m = n - m /\ PowerOfTwo(r)
  <2>1. PICK p \in Nat : p = Policy!TwoTo[k]
    BY TwoToIs
  <2>2. n = m * (1 + p) /\ m * (1 + p) = m + m * p /\ m * p \in Nat
    BY <1>4, <2>1
  <2>3. (m * p) \div m = p /\ n - m = m * p
    BY <1>1, <2>2
  <2>4. r = p
    BY <2>3 DEF r
  <2> QED
    BY <2>1, <2>3, <2>4 DEF PowerOfTwo
<1>5. ASSUME r * m = n - m, PowerOfTwo(r)
      PROVE  \E k \in 0 .. n : n = m * (1 + Policy!TwoTo[k])
  <2>1. PICK k \in Nat : r = Policy!TwoTo[k]
    BY <1>5 DEF PowerOfTwo
  <2>2. n = m * (1 + r) /\ n >= r
    BY <1>1, <1>5
  <2>3. r > k
    BY <2>1, TwoToLarge
  <2> QED
    BY <1>1, <2>1, <2>2, <2>3
<1>6. r * m = n - m => (HalvesToOne[r] <=> PowerOfTwo(r))
  BY <1>1, <1>3, HalvingLoop
<1> QED
  BY <1>2, <1>4, <1>5, <1>6

\* skipMsg, from its counters, lets the occurrence through exactly if the texts of
\* limit and reportEvery do, from the numbers of the occurrences alone.
THEOREM AcceptsDocumented ==
    ASSUME \A c \in Configs : Regular(c), IInv, SkipMsg
    PROVE  Accepts(Counted) <=> Policy!WithinLimit(Number) /\ Policy!Due(Number, Earlier)
<1> PICK doc \in Settings : doc = Documented(config)
  BY FoundIsDocumented DEF IInv, TypeOK
<1> PICK n \in Nat : n = Number
  BY SkipMsgCounts
<1> PICK l \in LimiterType : l = Counted
  BY SkipMsgCounts
<1>1. /\ l.limit = OrIntMax(doc.limit)
      /\ doc.reportEvery > 0 => l.reportEvery = doc.reportEvery
      /\ doc.reportEvery <= 0 => l.reportEvery <= 0
      /\ doc.limit \in Int /\ doc.reportEvery \in Int
  BY FoundIsDocumented, SkipMsgCounts DEF IInv, TypeOK, Settings
<1>2. /\ l.msgCount = n /\ n > 0 /\ n <= IntMax /\ Earlier \in SUBSET (1 .. n - 1)
      /\ \A m \in Earlier : n - m >= l.skippedMsgCount
      /\ Since(l, n, Earlier)
  <2>1. /\ Number \in 1 .. MaxMsgs /\ Before \in Nat /\ Number = Before + 1
        /\ Earlier \in SUBSET (1 .. Before)
        /\ Counted.msgCount = Number
        /\ \A m \in Earlier : Number - m >= Counted.skippedMsgCount
        /\ Since(Counted, Number, Earlier)
    BY SkipMsgCounts
  <2> QED
    BY <2>1, BoundsAssumption, IntMaxAssumption
<1>3. Policy!Due(n, Earlier) <=> l.skippedMsgCount >= l.reportEvery
  <2>1. Policy!Due(n, Earlier) <=> \A m \in Earlier : n - m >= doc.reportEvery
    BY DEF Policy!Due
  <2>2. l.skippedMsgCount \in Int /\ l.reportEvery \in Int
    BY DEF LimiterType
  <2>3. CASE Earlier = {}
    BY <1>2, <2>1, <2>2, <2>3 DEF Since
  <2>4. CASE Earlier # {}
    <3>1. PICK m \in Earlier : n - m = l.skippedMsgCount
      BY <1>2, <2>4 DEF Since
    <3>2. m \in Nat /\ m < n /\ \A k \in Earlier : k \in Nat /\ k < n
      BY <1>2
    <3> QED
      BY <1>1, <1>2, <2>1, <2>2, <3>1, <3>2
  <2> QED
    BY <2>3, <2>4
<1>4. Policy!WithinLimit(n) <=>
        l.limit # 0 /\ (l.limit < 0 \/ l.msgCount <= l.limit \/ OnFallOff(l))
  <2>1. Policy!WithinLimit(n) <=> \/ doc.limit < 0
                                  \/ doc.limit > 0 /\ n <= doc.limit
                                  \/ \E k \in 0 .. n : n = doc.limit * (1 + Policy!TwoTo[k])
    BY DEF Policy!WithinLimit
  <2>2. CASE doc.limit < 0
    <3>1. l.limit = IntMax /\ IntMax > 0
      BY <1>1, <2>2, IntMaxAssumption DEF OrIntMax
    <3> QED
      BY <1>2, <2>1, <2>2, <3>1, IntMaxAssumption
  <2>3. CASE doc.limit = 0
    <3>1. l.limit = 0
      BY <1>1, <2>3 DEF OrIntMax
    <3>2. \A k \in 0 .. n : Policy!TwoTo[k] \in Nat
      BY TwoToIs
    <3> QED
      BY <1>2, <2>1, <2>3, <3>1, <3>2
  <2>4. CASE doc.limit > 0
    <3>1. l.limit = doc.limit
      BY <1>1, <2>4 DEF OrIntMax
    <3>2. CASE n <= doc.limit
      BY <1>2, <2>1, <2>4, <3>1, <3>2
    <3>3. CASE n > doc.limit
      <4>1. OnFallOff(l) <=> \E k \in 0 .. n : n = doc.limit * (1 + Policy!TwoTo[k])
        BY <1>2, <2>4, <3>1, <3>3, FallOffPowers
      <4> QED
        BY <1>1, <1>2, <2>1, <2>4, <3>1, <3>3, <4>1
    <3> QED
      BY <1>1, <3>2, <3>3
  <2> QED
    BY <1>1, <2>2, <2>3, <2>4
<1>5. Accepts(l) <=> Policy!WithinLimit(n) /\ Policy!Due(n, Earlier)
  BY <1>3, <1>4 DEF Accepts
<1> QED
  BY <1>5

\* Each step of the limiter is one of the policy, or none.
LEMMA StepImplements ==
    ASSUME \A c \in Configs : Regular(c), IInv, [Next]_vars
    PROVE  [Policy!Next]_Policy!vars
<1>1. CASE SkipMsg
  <2>1. /\ issued' = Number
        /\ shown' = Earlier \cup (IF Accepts(Counted) THEN {Number} ELSE {})
        /\ config' = config /\ now' = now /\ limiter' = Decide(Counted)
        /\ Decide(Counted).previousTimestamp = now /\ limiter' # NoLimiter
    BY <1>1, SkipMsgCounts
  <2>2. QuietFor' = 0
    <3>1. now \in Int
      BY BoundsAssumption DEF IInv, TypeOK
    <3> QED
      BY <2>1, <3>1 DEF QuietFor
  <2>3. Accepts(Counted) <=> Policy!WithinLimit(Number) /\ Policy!Due(Number, Earlier)
    BY <1>1, AcceptsDocumented
  <2>4. /\ Number = IF Policy!LongQuiet THEN 1 ELSE issued + 1
        /\ Earlier = IF Policy!LongQuiet THEN {} ELSE shown
    BY DEF Number, Earlier, Restart, Policy!LongQuiet
  <2>5. Policy!Occurrence
    BY <2>1, <2>2, <2>3, <2>4 DEF Policy!Occurrence
  <2> QED
    BY <2>5 DEF Policy!Next
<1>2. CASE ResetLimiters
  <2>1. Policy!StartOver
    BY <1>2 DEF ResetLimiters, Policy!StartOver, QuietFor
  <2> QED
    BY <2>1 DEF Policy!Next
<1>3. CASE Tick
  <2>1. /\ config' = config /\ limiter' = limiter /\ now' = now + 1
        /\ issued' = issued /\ shown' = shown
    BY <1>3 DEF Tick
  <2>2. CASE limiter = NoLimiter
    BY <2>1, <2>2 DEF Policy!vars, QuietFor
  <2>3. CASE limiter # NoLimiter
    <3>1. limiter.previousTimestamp \in Int /\ now \in Int
      BY <2>3, BoundsAssumption DEF IInv, TypeOK
    <3>2. QuietFor' = QuietFor + 1
      BY <2>1, <2>3, <3>1 DEF QuietFor
    <3>3. Policy!Second
      BY <2>1, <3>2 DEF Policy!Second
    <3> QED
      BY <3>3 DEF Policy!Next
  <2> QED
    BY <2>2, <2>3
<1>4. CASE UNCHANGED vars
  BY <1>4 DEF vars, Policy!vars, QuietFor
<1> QED
  BY <1>1, <1>2, <1>3, <1>4 DEF Next

LEMMA InitImplements == Init => Policy!Init
<1> SUFFICES ASSUME Init PROVE Policy!Init
  OBVIOUS
<1>1. Documented(config) \in [limit : Int, reportEvery : Int, timespan : Int]
  BY SettingsType DEF Init, Documented, Settings
<1> QED
  BY <1>1 DEF Init, Policy!Init, QuietFor

\* The counters, the prescale state and the halving loop of skipMsg log
\* exactly the occurrences that the descriptions of the parameters promise.
THEOREM PolicyImplemented ==
    ASSUME \A c \in Configs : Regular(c)
    PROVE  Spec => ImplementsPolicy
<1>1. Init => Policy!Init
  BY InitImplements
<1>2. IInv /\ [Next]_vars => [Policy!Next]_Policy!vars
  BY StepImplements
<1> QED
  BY <1>1, <1>2, LimiterInvariant, PTL DEF Spec, ImplementsPolicy, Policy!Spec
===============================================================================
