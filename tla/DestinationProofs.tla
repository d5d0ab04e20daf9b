--------------------------- MODULE DestinationProofs ---------------------------
(***************************************************************************)
(* What Destination promises for every configuration, all message types    *)
(* and every bound.                                                        *)
(***************************************************************************)
EXTENDS Destination, FoldProofs, TLAPS

\* The maps from some elements of A to B.
Partial(A, B) == UNION {[X -> B] : X \in SUBSET A}

DestinationType ==
    [kind : {"ordinary", "statistics"}, threshold : Levels, default : Settings,
     categoryParams : Partial(Strings, Settings), outputStatistics : BOOLEAN,
     reset : BOOLEAN, updatedStats : BOOLEAN,
     xidLimiters : Partial(Xids, LimiterType), statsMap : Partial(Xids, StatsType)]

Known == [n : Nat, aggregateN : Nat]

HistoryType ==
    /\ offered \in [Xids -> Nat] /\ logged \in [Xids -> Nat] /\ failed \in [Xids -> Nat]
    /\ reported \in [Xids -> Known]

\* Of the rows: what was reacted to is part of what was offered.
RowsRight(stats) ==
    \A x \in DOMAIN stats :
      /\ stats[x].n <= stats[x].aggregateN /\ stats[x].aggregateN > 0
      /\ stats[x].ignoredFlag <=> stats[x].n < stats[x].aggregateN

LimitersRight(limiters) == \A x \in DOMAIN limiters : limiters[x].msgCount > 0

\* What ties the summaries told to the rows the destination holds: a reset
\* leaves no row behind that nobody was told of, and without resets nobody was
\* told of a type that has no row.
Told ==
    d.outputStatistics =>
      /\ d.reset /\ ~d.updatedStats => DOMAIN d.statsMap = {}
      /\ ~d.reset => \A x \in Xids \ DOMAIN d.statsMap : reported[x] = NoCounts

IInv ==
    /\ d \in DestinationType /\ now \in 0 .. MaxTime /\ HistoryType
    /\ RowsRight(d.statsMap) /\ LimitersRight(d.xidLimiters)
    /\ Conservation /\ UpToDate /\ Told /\ LimitersFollowStatistics

--------------------------------------------------------------------------------
\* A map that holds some elements of A is a function on these.
LEMMA PartialMap ==
    ASSUME NEW A, NEW B, NEW m \in Partial(A, B)
    PROVE  /\ DOMAIN m \subseteq A /\ m = [x \in DOMAIN m |-> m[x]]
           /\ \A x \in DOMAIN m : m[x] \in B
BY DEF Partial

\* The empty map holds nothing, so it is a map of any kind.
LEMMA EmptyMapType ==
    ASSUME NEW A, NEW B
    PROVE  EmptyMap \in Partial(A, B) /\ DOMAIN EmptyMap = {}
<1>1. DOMAIN EmptyMap = {} /\ EmptyMap = [x \in {} |-> EmptyMap[x]]
  BY DEF EmptyMap
<1>2. EmptyMap \in [{} -> B]
  BY <1>1
<1> QED
  BY <1>1, <1>2 DEF Partial

\* ELextendedID's operator< is a strict order on whatever ids there may be, whose
\* equivalence is to agree in severity, category, module and subroutine.
THEOREM TypesSorted ==
    ASSUME NEW S \in SUBSET Types
    PROVE  Sorts(S)
<1>1. ASSUME NEW a \in S, NEW b \in S, Less(a, b)
      PROVE  ~ Less(b, a)
  BY <1>1, StringOrderAssumption
     DEF Types, Less, ELsev_success, ELsev_severe
<1>2. ASSUME NEW a \in S, NEW b \in S
      PROVE  Equivalent(a, b) <=> Type(a) = Type(b)
  BY StringOrderAssumption DEF Equivalent, Types, Type, Less, ELsev_success, ELsev_severe
<1>3. ASSUME NEW a \in S, NEW b \in S, NEW c \in S, Less(a, b), Less(b, c)
      PROVE  Less(a, c)
  BY <1>3, StringOrderAssumption DEF Types, Less, ELsev_success, ELsev_severe
<1> QED
  BY <1>1, <1>2, <1>3 DEF Sorts

\* So an id leads to the row and the limiter of its own type, and to no other.
LEMMA KeyIs ==
    ASSUME NEW m, DOMAIN m \subseteq Xids, NEW k \in Xids
    PROVE  KeyOf(m, k) = k
<1>1. DOMAIN m \subseteq Types /\ k \in Types
  BY XidsAssumption
<1>2. ASSUME NEW x \in DOMAIN m, Equivalent(x, k)
      PROVE  x = k
  <2>1. Sorts({x, k})
    BY <1>1, TypesSorted
  <2>2. Type(x) = Type(k)
    BY <1>2, <2>1 DEF Sorts
  <2> QED
    BY <1>1, <2>2 DEF Type, Types
<1> QED
  BY <1>2, Zenon DEF KeyOf

\* m[k] = v, and what operator[] gives.
LEMMA PutIs ==
    ASSUME NEW m, DOMAIN m \subseteq Xids, NEW k \in Xids, NEW v
    PROVE  /\ DOMAIN Put(m, k, v) = DOMAIN m \cup {k} /\ Put(m, k, v)[k] = v
           /\ \A x \in DOMAIN m \ {k} : Put(m, k, v)[x] = m[x]
<1>1. KeyOf(m, k) = k
  BY KeyIs
<1>2. Put(m, k, v) = [x \in DOMAIN m \cup {k} |-> IF x = k THEN v ELSE m[x]]
  BY <1>1, Zenon DEF Put
<1> QED
  BY <1>2

LEMMA GetIs ==
    ASSUME NEW m, DOMAIN m \subseteq Xids, NEW k \in Xids, NEW default
    PROVE  Get(m, k, default) = IF k \in DOMAIN m THEN m[k] ELSE default
<1>1. KeyOf(m, k) = k
  BY KeyIs
<1> QED
  BY <1>1, Zenon DEF Get

\* m[k] = v keeps a map's type.
LEMMA PutType ==
    ASSUME NEW B, NEW m \in Partial(Xids, B), NEW k \in Xids, NEW v \in B
    PROVE  Put(m, k, v) \in Partial(Xids, B)
<1>1. DOMAIN m \subseteq Xids /\ \A x \in DOMAIN m : m[x] \in B
  BY PartialMap
<1> DEFINE put == Put(m, k, v)
<1>2. KeyOf(m, k) = k
  BY <1>1, KeyIs
<1>3. put = [x \in DOMAIN m \cup {k} |-> IF x = k THEN v ELSE m[x]]
  BY <1>2, Zenon DEF Put
<1> HIDE DEF put
<1>4. put \in [DOMAIN m \cup {k} -> B]
  BY <1>1, <1>3
<1>5. put \in Partial(Xids, B)
  BY <1>1, <1>4 DEF Partial
<1> QED
  BY <1>5 DEF put

\* A new destination is of the type of destinations, with empty maps.
LEMMA ConstructType ==
    ASSUME NEW cfg \in Configs
    PROVE  /\ Construct(cfg) \in DestinationType
           /\ Construct(cfg).xidLimiters = EmptyMap /\ Construct(cfg).statsMap = EmptyMap
           /\ Construct(cfg).updatedStats = FALSE
<1>1. IsConfiguration(cfg)
  BY ConfigsAssumption
<1> DEFINE inherited == Configured(cfg.default, NoSettings)
           params == [c \in DOMAIN cfg.categories |->
                        CategoryParams(Configured(cfg.categories[c], inherited))]
<1>2. ASSUME NEW s \in WrittenCategory, NEW i \in Settings
      PROVE  Configured(s, i) \in Settings
  BY DEF WrittenCategory, Configured, Given, Settings
<1>3. ASSUME NEW s \in Settings
      PROVE  CategoryParams(s) \in Settings
  BY IntMaxAssumption DEF CategoryParams, OrIntMax, Settings
<1>4. inherited \in Settings
  <2>1. NoSettings \in Settings
    BY DEF NoSettings, Settings
  <2> QED
    BY <1>1, <1>2, <2>1 DEF IsConfiguration
<1>5. params \in Partial(Strings, Settings)
  <2>1. \A c \in DOMAIN cfg.categories :
          CategoryParams(Configured(cfg.categories[c], inherited)) \in Settings
    BY <1>1, <1>2, <1>3, <1>4 DEF IsConfiguration
  <2>2. params \in [DOMAIN cfg.categories -> Settings]
    BY <2>1
  <2> QED
    BY <1>1, <2>2 DEF IsConfiguration, Partial
<1>6. EmptyMap \in Partial(Xids, LimiterType) /\ EmptyMap \in Partial(Xids, StatsType)
  BY EmptyMapType
<1>7. CategoryParams(inherited) \in Settings
  BY <1>3, <1>4
<1> HIDE DEF inherited, params
<1>8. Construct(cfg) =
        [kind |-> cfg.kind, threshold |-> cfg.threshold,
         default |-> CategoryParams(inherited), categoryParams |-> params,
         outputStatistics |-> cfg.outputStatistics,
         reset |-> cfg.reset \/ cfg.resetStatistics, updatedStats |-> FALSE,
         xidLimiters |-> EmptyMap, statsMap |-> EmptyMap]
  BY DEF Construct, inherited, params
<1> QED
  BY <1>1, <1>5, <1>6, <1>7, <1>8 DEF DestinationType, IsConfiguration
--------------------------------------------------------------------------------
\* What the operations make of a destination, part by part.
LEMMA AddRight ==
    ASSUME NEW s \in StatsType, NEW c, Cut(c) \in ShownContexts, NEW reacted \in BOOLEAN,
           s.n <= s.aggregateN, s.ignoredFlag <=> s.n < s.aggregateN
    PROVE  /\ Add(s, c, reacted) \in StatsType
           /\ Add(s, c, reacted).n = s.n + (IF reacted THEN 1 ELSE 0)
           /\ Add(s, c, reacted).aggregateN = s.aggregateN + 1
           /\ Add(s, c, reacted).n <= Add(s, c, reacted).aggregateN
           /\ Add(s, c, reacted).ignoredFlag
                <=> Add(s, c, reacted).n < Add(s, c, reacted).aggregateN
<1> DEFINE k == s.n + (IF reacted THEN 1 ELSE 0)
           slot == IF k = 1 THEN "context1" ELSE IF k = 2 THEN "context2" ELSE "contextLast"
           flag == s.ignoredFlag \/ ~reacted
<1>1. k \in Nat /\ s.aggregateN + 1 \in Nat
  BY DEF StatsType
<1>2. Add(s, c, reacted) = [s EXCEPT !.n = k, !.aggregateN = s.aggregateN + 1, ![slot] = Cut(c),
                                     !.ignoredFlag = flag]
  BY DEF Add
<1>3. slot \in {"context1", "context2", "contextLast"}
  OBVIOUS
<1>4. flag \in BOOLEAN
  BY DEF StatsType
<1>5. /\ Add(s, c, reacted) \in StatsType
      /\ Add(s, c, reacted).n = k
      /\ Add(s, c, reacted).aggregateN = s.aggregateN + 1
      /\ Add(s, c, reacted).ignoredFlag = flag
  <2> HIDE DEF k, slot, flag
  <2>1. CASE slot = "context1"
    <3>1. Add(s, c, reacted) = [s EXCEPT !.n = k, !.aggregateN = s.aggregateN + 1,
                                         !.context1 = Cut(c), !.ignoredFlag = flag]
      BY <1>2, <2>1
    <3> QED
      BY <1>1, <1>4, <3>1 DEF StatsType
  <2>2. CASE slot = "context2"
    <3>1. Add(s, c, reacted) = [s EXCEPT !.n = k, !.aggregateN = s.aggregateN + 1,
                                         !.context2 = Cut(c), !.ignoredFlag = flag]
      BY <1>2, <2>2
    <3> QED
      BY <1>1, <1>4, <3>1 DEF StatsType
  <2>3. CASE slot = "contextLast"
    <3>1. Add(s, c, reacted) = [s EXCEPT !.n = k, !.aggregateN = s.aggregateN + 1,
                                         !.contextLast = Cut(c), !.ignoredFlag = flag]
      BY <1>2, <2>3
    <3> QED
      BY <1>1, <1>4, <3>1 DEF StatsType
  <2> QED
    BY <1>3, <2>1, <2>2, <2>3
<1>6. s.n \in Nat /\ s.aggregateN \in Nat /\ s.ignoredFlag \in BOOLEAN
  BY DEF StatsType
<1>7. flag <=> k < s.aggregateN + 1
  <2>1. CASE reacted
    BY <1>6, <2>1
  <2>2. CASE ~reacted
    BY <1>6, <2>2
  <2> QED
    BY <2>1, <2>2
<1>8. k <= s.aggregateN + 1
  BY <1>6
<1> HIDE DEF flag
<1> QED
  BY <1>5, <1>7, <1>8

\* What is kept of a text is a beginning of it, that fits the column.
LEMMA CutIs ==
    ASSUME NEW A, NEW text \in Seq(A)
    PROVE  /\ Len(Cut(text)) <= ContextWidth /\ Len(Cut(text)) <= Len(text)
           /\ \A k \in 1 .. Len(Cut(text)) : Cut(text)[k] = text[k]
           /\ Len(Cut(text)) < Len(text) => Len(Cut(text)) = ContextWidth
<1> DEFINE n == IF Len(text) > ContextWidth THEN ContextWidth ELSE Len(text)
<1>1. n \in Nat /\ n <= ContextWidth /\ n <= Len(text) /\ (n < Len(text) => n = ContextWidth)
  BY ContextWidthAssumption
<1>2. Cut(text) = SubSeq(text, 1, n)
  BY DEF Cut
<1>3. \A i \in 1 .. n : text[i] \in A
  BY <1>1
<1> HIDE DEF n
<1>4. Len(Cut(text)) = n /\ \A i \in 1 .. n : Cut(text)[i] = text[i]
  BY <1>1, <1>2, <1>3, SubSeqProperties
<1> QED
  BY <1>1, <1>4

\* What is kept of a context is what a row may show.
LEMMA ContextShown ==
    ASSUME NEW c \in Contexts \cup {NoContext}
    PROVE  Cut(SummarizeContext(c)) \in ShownContexts
<1>1. CASE c = NoContext
  <2>1. SummarizeContext(c) = <<>>
    BY <1>1 DEF SummarizeContext, NoContext
  <2>2. Cut(<<>>) = <<>>
    <3>1. Len(Cut(<<>>)) = 0 /\ Cut(<<>>) = SubSeq(<<>>, 1, 0)
      BY CutIs, ContextWidthAssumption DEF Cut
    <3> QED
      BY <3>1, SubSeqEmpty
  <2> QED
    BY <2>1, <2>2 DEF ShownContexts
<1>2. CASE c \in Contexts
  BY <1>2 DEF ShownContexts
<1> QED
  BY <1>1, <1>2

\* skipMsg leaves a limiter that has counted.
LEMMA LimiterCounts ==
    ASSUME NEW e \in DestinationType, LimitersRight(e.xidLimiters),
           NEW x \in Xids, NEW t \in Nat
    PROVE  /\ Decide(CountedLimiter(e, x, t)) \in LimiterType
           /\ Decide(CountedLimiter(e, x, t)).msgCount > 0
<1>1. e.default \in Settings /\ e.categoryParams \in Partial(Strings, Settings)
  BY DEF DestinationType
<1>2. ParamsOf(e, x) \in Settings
  <2>1. ASSUME NEW p \in Settings
        PROVE  Effective(p, e.default) \in Settings
    BY <1>1 DEF Effective, OrDefault, Settings
  <2>2. \A c \in DOMAIN e.categoryParams : e.categoryParams[c] \in Settings
    BY <1>1, PartialMap
  <2> QED
    BY <1>1, <2>1, <2>2 DEF ParamsOf
<1>3. NewLimiter(ParamsOf(e, x), t) \in LimiterType
  BY <1>2 DEF NewLimiter, LimiterType, Settings
<1> DEFINE l == Get(e.xidLimiters, x, NewLimiter(ParamsOf(e, x), t))
<1>4. l \in LimiterType
  <2>1. e.xidLimiters \in Partial(Xids, LimiterType)
    BY DEF DestinationType
  <2>2. DOMAIN e.xidLimiters \subseteq Xids
    BY <2>1, PartialMap
  <2>3. l = IF x \in DOMAIN e.xidLimiters THEN e.xidLimiters[x]
            ELSE NewLimiter(ParamsOf(e, x), t)
    BY <2>2, GetIs
  <2> QED
    BY <1>3, <2>1, <2>3, PartialMap
<1>5. ASSUME NEW m \in LimiterType
      PROVE  Count(m, t) \in LimiterType /\ Count(m, t).msgCount > 0
  <2> DEFINE count == (IF Expired(m, t) THEN 0 ELSE m.msgCount) + 1
             skipped == (IF Expired(m, t) THEN RestartSkipped(m) ELSE m.skippedMsgCount) + 1
  <2>1. count \in Nat /\ count > 0 /\ skipped \in Int
    BY DEF RestartSkipped, LimiterType
  <2>2. Count(m, t) = [m EXCEPT !.previousTimestamp = t, !.msgCount = count,
                                !.skippedMsgCount = skipped]
    BY DEF Count
  <2> HIDE DEF count, skipped
  <2>3. /\ Count(m, t) = [previousTimestamp |-> t, msgCount |-> count,
                          skippedMsgCount |-> skipped, limit |-> m.limit,
                          reportEvery |-> m.reportEvery, timespan |-> m.timespan]
        /\ m.limit \in Int /\ m.reportEvery \in Int /\ m.timespan \in Int
    BY <2>2 DEF LimiterType
  <2> QED
    BY <2>1, <2>3 DEF LimiterType
<1>6. \A m \in LimiterType : Decide(m) \in LimiterType /\ Decide(m).msgCount = m.msgCount
  BY DEF Decide, LimiterType
<1> QED
  BY <1>4, <1>5, <1>6 DEF CountedLimiter

WithLimiter(e, x, l) == [e EXCEPT !.xidLimiters = Put(@, x, l)]

\* Storing a limiter that has counted disturbs neither types nor other limiters.
LEMMA WithLimiterType ==
    ASSUME NEW e \in DestinationType, LimitersRight(e.xidLimiters), NEW x \in Xids,
           NEW l \in LimiterType, l.msgCount > 0
    PROVE  LET f == WithLimiter(e, x, l)
           IN  /\ f \in DestinationType /\ LimitersRight(f.xidLimiters)
               /\ f.statsMap = e.statsMap /\ f.updatedStats = e.updatedStats
               /\ f.outputStatistics = e.outputStatistics /\ f.reset = e.reset
               /\ DOMAIN f.xidLimiters = DOMAIN e.xidLimiters \cup {x}
<1> DEFINE f == WithLimiter(e, x, l)
<1>1. e.xidLimiters \in Partial(Xids, LimiterType) /\ DOMAIN e.xidLimiters \subseteq Xids
  BY PartialMap DEF DestinationType
<1> DEFINE limiters == Put(e.xidLimiters, x, l)
<1>2. /\ limiters \in Partial(Xids, LimiterType)
      /\ DOMAIN limiters = DOMAIN e.xidLimiters \cup {x}
      /\ limiters[x] = l
      /\ \A y \in DOMAIN e.xidLimiters \ {x} : limiters[y] = e.xidLimiters[y]
  <2>1. limiters \in Partial(Xids, LimiterType)
    BY <1>1, PutType
  <2>2. KeyOf(e.xidLimiters, x) = x
    BY <1>1, KeyIs
  <2>3. limiters = [y \in DOMAIN e.xidLimiters \cup {x} |->
                      IF y = x THEN l ELSE e.xidLimiters[y]]
    BY <2>2, Zenon DEF Put
  <2> HIDE DEF limiters
  <2> QED
    BY <2>1, <2>3
<1>3. f = [e EXCEPT !.xidLimiters = limiters]
  BY DEF WithLimiter
<1>4. LimitersRight(limiters)
  BY <1>2 DEF LimitersRight
<1> HIDE DEF limiters, f
<1>5. f \in DestinationType /\ f.xidLimiters = limiters /\ f.statsMap = e.statsMap
  BY <1>2, <1>3 DEF DestinationType
<1>6. /\ f.updatedStats = e.updatedStats /\ f.outputStatistics = e.outputStatistics
      /\ f.reset = e.reset
  BY <1>3 DEF DestinationType
<1> QED
  BY <1>2, <1>4, <1>5, <1>6 DEF f

\* The row that an occurrence leaves.
RowOf(e, x) == Get(e.statsMap, x, NewStats)

\* ... is the one that its type has, or a new one.
LEMMA RowIs ==
    ASSUME NEW e \in DestinationType, NEW x \in Xids
    PROVE  RowOf(e, x) = IF x \in DOMAIN e.statsMap THEN e.statsMap[x] ELSE NewStats
<1>1. DOMAIN e.statsMap \subseteq Xids
  BY PartialMap DEF DestinationType
<1> QED
  BY <1>1, GetIs DEF RowOf

\* How the row of x changes when an occurrence is recorded.
RowAdded(e, f, x, reacted) ==
    /\ f.updatedStats = TRUE
    /\ DOMAIN f.statsMap = DOMAIN e.statsMap \cup {x}
    /\ \A y \in DOMAIN e.statsMap \ {x} : f.statsMap[y] = e.statsMap[y]
    /\ f.statsMap[x].n = RowOf(e, x).n + (IF reacted THEN 1 ELSE 0)
    /\ f.statsMap[x].aggregateN = RowOf(e, x).aggregateN + 1

\* The settings that no operation but SetThreshold touches.
SettingsKept(e, f) ==
    /\ f \in DestinationType /\ RowsRight(f.statsMap) /\ LimitersRight(f.xidLimiters)
    /\ f.outputStatistics = e.outputStatistics /\ f.reset = e.reset

Records(e, f, x, reacted) ==
    SettingsKept(e, f) /\ f.xidLimiters = e.xidLimiters /\ RowAdded(e, f, x, reacted)

\* Recording adds to one row, or changes nothing when no statistics are kept.
LEMMA RecordedType ==
    ASSUME NEW e \in DestinationType, RowsRight(e.statsMap), LimitersRight(e.xidLimiters),
           e.outputStatistics, NEW x \in Xids, NEW c \in Contexts \cup {NoContext},
           NEW reacted \in BOOLEAN
    PROVE  Records(e, Recorded(e, x, c, reacted), x, reacted)
<1> DEFINE f == Recorded(e, x, c, reacted)
<1>1. e.statsMap \in Partial(Xids, StatsType) /\ DOMAIN e.statsMap \subseteq Xids
  BY PartialMap DEF DestinationType
<1>2. NewStats \in StatsType
  BY DEF NewStats, StatsType, ShownContexts
<1> DEFINE s == RowOf(e, x)
<1>3. s \in StatsType /\ s.n <= s.aggregateN /\ (s.ignoredFlag <=> s.n < s.aggregateN)
  <2>1. CASE x \in DOMAIN e.statsMap
    BY <1>1, <2>1, RowIs, PartialMap DEF RowsRight
  <2>2. CASE x \notin DOMAIN e.statsMap
    <3>1. s = NewStats
      BY <2>2, RowIs
    <3>2. NewStats.n = 0 /\ NewStats.aggregateN = 0 /\ NewStats.ignoredFlag = FALSE
      BY DEF NewStats
    <3> HIDE DEF s
    <3> QED
      BY <1>2, <3>1, <3>2
  <2> QED
    BY <2>1, <2>2
<1> DEFINE row == Add(s, SummarizeContext(c), reacted)
<1> HIDE DEF s
<1>4. /\ row \in StatsType
      /\ row.n = s.n + (IF reacted THEN 1 ELSE 0)
      /\ row.aggregateN = s.aggregateN + 1
      /\ row.n <= row.aggregateN
      /\ row.ignoredFlag <=> row.n < row.aggregateN
  BY <1>3, ContextShown, AddRight
<1>5. row.aggregateN > 0
  BY <1>3, <1>4 DEF StatsType
<1> DEFINE stats == Put(e.statsMap, x, row)
<1>6. f = [e EXCEPT !.statsMap = stats, !.updatedStats = TRUE]
  BY DEF Recorded, s, RowOf
<1> HIDE DEF row
<1>7. stats \in Partial(Xids, StatsType)
  BY <1>1, <1>4, PutType
<1>8. KeyOf(e.statsMap, x) = x
  BY <1>1, KeyIs
<1>9. stats = [y \in DOMAIN e.statsMap \cup {x} |-> IF y = x THEN row ELSE e.statsMap[y]]
  BY <1>8, Zenon DEF Put
<1> HIDE DEF stats, f
<1>10. RowsRight(stats)
  BY <1>4, <1>5, <1>8, <1>9 DEF RowsRight
<1>11. /\ f \in DestinationType /\ f.statsMap = stats /\ f.updatedStats = TRUE
       /\ f.xidLimiters = e.xidLimiters /\ f.reset = e.reset
       /\ f.outputStatistics = e.outputStatistics
  BY <1>6, <1>7 DEF DestinationType
<1> QED
  BY <1>4, <1>8, <1>9, <1>10, <1>11 DEF s, f, Records, RowAdded, SettingsKept

\* What log() does, reacting or not.
Logs(e, f, x, reacts) ==
    /\ SettingsKept(e, f)
    /\ DOMAIN f.xidLimiters \in {DOMAIN e.xidLimiters, DOMAIN e.xidLimiters \cup {x}}
    /\ reacts => x \in DOMAIN f.xidLimiters
    /\ e.outputStatistics => RowAdded(e, f, x, reacts)

\* log() leaves a destination with its row added and its limiter counted.
LEMMA LogType ==
    ASSUME NEW e \in DestinationType, RowsRight(e.statsMap), LimitersRight(e.xidLimiters),
           NEW x \in Xids, NEW c \in Contexts \cup {NoContext}, NEW t \in Nat
    PROVE  Logs(e, Log(e, x, c, t), x, ReactsTo(e, x, t))
<1> DEFINE g == IF BelowThreshold(e, x) THEN e ELSE SkippedOrNot(e, x, t)
           reacted == ReactsTo(e, x, t)
           f == Log(e, x, c, t)
<1>1. reacted \in BOOLEAN
  BY DEF ReactsTo, BelowThreshold, PassesLimiter, Accepts
<1>2. f = Recorded(g, x, c, reacted)
  <2>1. CASE BelowThreshold(e, x)
    <3>1. reacted = FALSE
      BY <2>1 DEF ReactsTo
    <3> QED
      BY <2>1, <3>1 DEF Log
  <2>2. CASE ~BelowThreshold(e, x)
    <3>1. reacted = PassesLimiter(e, x, t)
      BY <2>2 DEF ReactsTo, PassesLimiter, Accepts
    <3> QED
      BY <2>2, <3>1 DEF Log
  <2> QED
    BY <2>1, <2>2
<1>3. /\ SettingsKept(e, g) /\ g.statsMap = e.statsMap
      /\ DOMAIN g.xidLimiters \in {DOMAIN e.xidLimiters, DOMAIN e.xidLimiters \cup {x}}
      /\ reacted => x \in DOMAIN g.xidLimiters
  <2>1. CASE BelowThreshold(e, x)
    BY <2>1 DEF ReactsTo, SettingsKept
  <2>2. CASE ~BelowThreshold(e, x)
    <3> DEFINE l == Decide(CountedLimiter(e, x, t))
    <3>1. l \in LimiterType /\ l.msgCount > 0
      BY LimiterCounts
    <3>2. g = WithLimiter(e, x, l)
      BY <2>2 DEF SkippedOrNot, WithLimiter
    <3> HIDE DEF g, l
    <3>3. /\ g \in DestinationType /\ LimitersRight(g.xidLimiters)
          /\ g.statsMap = e.statsMap
          /\ g.outputStatistics = e.outputStatistics /\ g.reset = e.reset
          /\ DOMAIN g.xidLimiters = DOMAIN e.xidLimiters \cup {x}
      BY <3>1, <3>2, WithLimiterType
    <3> QED
      BY <3>3 DEF SettingsKept
  <2> QED
    BY <2>1, <2>2
<1> HIDE DEF f, g, reacted
<1>4. CASE ~e.outputStatistics
  <2>1. f = g
    BY <1>2, <1>3, <1>4 DEF Recorded, SettingsKept
  <2> QED
    BY <1>3, <1>4, <2>1 DEF f, reacted, Logs
<1>5. CASE e.outputStatistics
  <2>1. Records(g, f, x, reacted)
    <3>1. /\ g \in DestinationType /\ RowsRight(g.statsMap) /\ LimitersRight(g.xidLimiters)
          /\ g.outputStatistics
      BY <1>3, <1>5 DEF SettingsKept
    <3> QED
      BY <1>1, <1>2, <3>1, RecordedType
  <2>2. RowAdded(e, f, x, reacted)
    BY <1>3, <2>1 DEF Records, RowAdded, RowOf
  <2>3. SettingsKept(e, f) /\ f.xidLimiters = g.xidLimiters
    BY <1>3, <2>1 DEF Records, SettingsKept
  <2> QED
    BY <1>3, <2>2, <2>3 DEF f, reacted, Logs
<1> QED
  BY <1>4, <1>5 DEF DestinationType

\* What summary() does, printing or not.
Summarizes(e, f) ==
    /\ SettingsKept(e, f) /\ f.updatedStats = FALSE
    /\ e.reset => DOMAIN f.statsMap = {} /\ DOMAIN f.xidLimiters = {}
    /\ ~e.reset => f.statsMap = e.statsMap /\ f.xidLimiters = e.xidLimiters

\* summary() empties both maps if it resets, else none, and clears the flag.
LEMMA SummarizedType ==
    ASSUME NEW e \in DestinationType, RowsRight(e.statsMap), LimitersRight(e.xidLimiters)
    PROVE  Summarizes(e, Summarized(e))
<1> DEFINE f == Summarized(e)
           stats == IF e.reset THEN EmptyMap ELSE e.statsMap
           limiters == IF e.reset THEN EmptyMap ELSE e.xidLimiters
<1>1. stats \in Partial(Xids, StatsType) /\ limiters \in Partial(Xids, LimiterType)
  BY EmptyMapType DEF DestinationType
<1>2. e.reset => DOMAIN stats = {} /\ DOMAIN limiters = {}
  BY EmptyMapType
<1>3. ~e.reset => stats = e.statsMap /\ limiters = e.xidLimiters
  OBVIOUS
<1>4. f = [e EXCEPT !.updatedStats = FALSE, !.statsMap = stats, !.xidLimiters = limiters]
  BY DEF Summarized
<1> HIDE DEF stats, limiters, f
<1>5. RowsRight(stats) /\ LimitersRight(limiters)
  BY <1>2, <1>3 DEF RowsRight, LimitersRight
<1>6. /\ f \in DestinationType /\ f.statsMap = stats /\ f.xidLimiters = limiters
      /\ f.outputStatistics = e.outputStatistics /\ f.reset = e.reset /\ f.updatedStats = FALSE
  BY <1>1, <1>4 DEF DestinationType
<1> QED
  BY <1>2, <1>3, <1>5, <1>6 DEF f, Summarizes, SettingsKept

--------------------------------------------------------------------------------
\* The counts a destination holds of a message type.
HeldBy(e, x) == IF x \in DOMAIN e.statsMap THEN Counts(e.statsMap[x]) ELSE NoCounts

\* The counts held for a type are numbers, zero if it has no row.
LEMMA HeldType ==
    ASSUME NEW e \in DestinationType, NEW x \in Xids
    PROVE  /\ HeldBy(e, x) \in Known
           /\ RowOf(e, x).n = HeldBy(e, x).n
           /\ RowOf(e, x).aggregateN = HeldBy(e, x).aggregateN
<1>1. \A y \in DOMAIN e.statsMap : e.statsMap[y] \in StatsType
  BY PartialMap DEF DestinationType
<1>2. CASE x \in DOMAIN e.statsMap
  BY <1>1, <1>2, RowIs DEF HeldBy, Counts, Known, StatsType
<1>3. CASE x \notin DOMAIN e.statsMap
  BY <1>3, RowIs DEF HeldBy, NoCounts, Known, NewStats
<1> QED
  BY <1>2, <1>3

OneMore(k, reacted) ==
    [n |-> k.n + (IF reacted THEN 1 ELSE 0), aggregateN |-> k.aggregateN + 1]

\* The counts held for a type are those of its row.
LEMMA HeldAfter ==
    ASSUME NEW e \in DestinationType, NEW f, NEW x \in Xids, NEW reacted \in BOOLEAN,
           RowAdded(e, f, x, reacted), NEW y \in Xids
    PROVE  HeldBy(f, y) = IF y = x THEN OneMore(HeldBy(e, x), reacted) ELSE HeldBy(e, y)
<1>1. CASE y = x
  BY <1>1, HeldType DEF RowAdded, HeldBy, Counts, OneMore
<1>2. CASE y # x
  BY <1>2 DEF RowAdded, HeldBy
<1> QED
  BY <1>1, <1>2

\* A new destination satisfies the inductive invariant.
LEMMA InitIInv == Init => IInv
<1> SUFFICES ASSUME Init PROVE IInv
  OBVIOUS
<1>1. PICK cfg \in Configs : d = Construct(cfg)
  BY DEF Init
<1>2. d \in DestinationType /\ d.updatedStats = FALSE
  BY <1>1, ConstructType
<1>3. DOMAIN d.xidLimiters = {} /\ DOMAIN d.statsMap = {}
  BY <1>1, ConstructType, EmptyMapType
<1>4. HistoryType
  BY DEF Init, HistoryType, Zero, NoCounts, Known
<1>5. RowsRight(d.statsMap) /\ LimitersRight(d.xidLimiters)
  BY <1>3 DEF RowsRight, LimitersRight
<1>6. \A x \in Xids : CountsOf(x) = NoCounts /\ Offered(x) = NoCounts /\ reported[x] = NoCounts
  BY <1>3 DEF Init, CountsOf, Offered, NoCounts, Zero
<1>7. Plus(NoCounts, NoCounts) = NoCounts
  BY DEF Plus, NoCounts
<1>8. Conservation /\ UpToDate /\ Told
  BY <1>3, <1>6, <1>7 DEF Conservation, UpToDate, Told
<1>9. LimitersFollowStatistics
  BY <1>3 DEF LimitersFollowStatistics
<1> QED
  BY <1>2, <1>4, <1>5, <1>8, <1>9, BoundsAssumption DEF IInv, Init

\* log() returns: the row and the occurrences that log() was given grow alike.
LEMMA LogStep ==
    ASSUME IInv, NEW x \in Xids, NEW c \in Contexts \cup {NoContext}, LogReturns(x, c)
    PROVE  IInv'
<1> DEFINE r == ReactsTo(d, x, now)
<1>1. now \in Nat /\ r \in BOOLEAN
  BY BoundsAssumption DEF IInv, ReactsTo, BelowThreshold, PassesLimiter, Accepts
<1>2. Logs(d, d', x, r)
  BY <1>1, LogType DEF IInv, LogReturns
<1>3. /\ SettingsKept(d, d')
      /\ d.outputStatistics => RowAdded(d, d', x, r)
  BY <1>2 DEF Logs
<1>4. /\ d' \in DestinationType /\ RowsRight(d'.statsMap) /\ LimitersRight(d'.xidLimiters)
      /\ d'.outputStatistics = d.outputStatistics /\ d'.reset = d.reset
  BY <1>3 DEF SettingsKept
<1>5. /\ offered' = [offered EXCEPT ![x] = @ + 1]
      /\ logged' = [logged EXCEPT ![x] = @ + (IF r THEN 1 ELSE 0)]
      /\ now' = now /\ failed' = failed /\ reported' = reported
  BY DEF LogReturns
<1>6. /\ offered \in [Xids -> Nat] /\ logged \in [Xids -> Nat]
      /\ failed \in [Xids -> Nat] /\ reported \in [Xids -> Known]
  BY DEF IInv, HistoryType
<1> HIDE DEF r
<1>7. HistoryType'
  BY <1>5, <1>6 DEF HistoryType
<1>8. Conservation'
  <2> SUFFICES ASSUME d.outputStatistics, NEW y \in Xids
               PROVE  Plus(IF d.reset THEN reported[y] ELSE NoCounts, CountsOf(y)') = Offered(y)'
    BY <1>4, <1>5 DEF Conservation
  <2>1. Plus(IF d.reset THEN reported[y] ELSE NoCounts, HeldBy(d, y)) = Offered(y)
    BY DEF IInv, Conservation, CountsOf, HeldBy
  <2>2. CountsOf(y)' = HeldBy(d', y)
    BY DEF CountsOf, HeldBy
  <2>3. HeldBy(d', y) = IF y = x THEN OneMore(HeldBy(d, x), r) ELSE HeldBy(d, y)
    BY <1>1, <1>3, HeldAfter DEF IInv
  <2>4. HeldBy(d, y) \in Known
    BY HeldType DEF IInv
  <2>5. Offered(y)' = IF y = x THEN OneMore(Offered(x), r) ELSE Offered(y)
    BY <1>5, <1>6 DEF Offered, OneMore
  <2> DEFINE base == IF d.reset THEN reported[y] ELSE NoCounts
  <2>6. base \in Known
    BY <1>6 DEF NoCounts, Known
  <2> HIDE DEF base
  <2>7. Plus(base, OneMore(HeldBy(d, y), r)) = OneMore(Plus(base, HeldBy(d, y)), r)
    BY <2>4, <2>6 DEF Plus, OneMore, Known
  <2> QED
    BY <2>1, <2>2, <2>3, <2>5, <2>7 DEF base
<1>9. UpToDate'
  BY <1>3, <1>4 DEF UpToDate, RowAdded
<1>10. Told'
  <2> SUFFICES ASSUME d.outputStatistics PROVE Told'
    BY <1>4 DEF Told
  <2>1. d'.updatedStats = TRUE /\ DOMAIN d'.statsMap = DOMAIN d.statsMap \cup {x}
    BY <1>3 DEF RowAdded
  <2> QED
    BY <1>4, <1>5, <2>1 DEF IInv, Told
<1>11. LimitersFollowStatistics'
  <2> SUFFICES ASSUME d.outputStatistics PROVE LimitersFollowStatistics'
    BY <1>4 DEF LimitersFollowStatistics
  <2>1. RowAdded(d, d', x, r)
    BY <1>3
  <2>2. /\ DOMAIN d'.xidLimiters \in {DOMAIN d.xidLimiters, DOMAIN d.xidLimiters \cup {x}}
        /\ r => x \in DOMAIN d'.xidLimiters
    BY <1>2 DEF Logs
  <2>3. ASSUME NEW y \in DOMAIN d'.statsMap, d'.statsMap[y].n > 0
        PROVE  y \in DOMAIN d'.xidLimiters
    <3>1. CASE y # x
      BY <2>1, <2>2, <2>3, <3>1 DEF RowAdded, IInv, LimitersFollowStatistics
    <3>2. CASE y = x /\ ~r
      <4>1. RowOf(d, x).n > 0
        <5>1. RowOf(d, x).n \in Nat
          BY HeldType DEF IInv, Known
        <5> QED
          BY <2>1, <2>3, <3>2, <5>1 DEF RowAdded
      <4>2. x \in DOMAIN d.statsMap /\ d.statsMap[x].n > 0
        BY <4>1, RowIs DEF NewStats, IInv
      <4> QED
        BY <2>2, <3>2, <4>2 DEF IInv, LimitersFollowStatistics
    <3> QED
      BY <2>2, <3>1, <3>2
  <2>4. ASSUME NEW y \in DOMAIN d'.xidLimiters
        PROVE  y \in DOMAIN d'.statsMap \/ failed'[y] > 0
    BY <1>5, <2>1, <2>2 DEF RowAdded, IInv, LimitersFollowStatistics
  <2> QED
    BY <2>3, <2>4 DEF LimitersFollowStatistics
<1> QED
  BY <1>4, <1>5, <1>7, <1>8, <1>9, <1>10, <1>11 DEF IInv

\* An exception out of log() leaves a limiter without statistics.
LEMMA ThrowStep ==
    ASSUME IInv, NEW x \in Xids, LogThrows(x)
    PROVE  IInv'
<1>1. now \in Nat
  BY BoundsAssumption DEF IInv
<1> DEFINE l == Decide(CountedLimiter(d, x, now))
<1>2. l \in LimiterType /\ l.msgCount > 0
  BY <1>1, LimiterCounts DEF IInv
<1>3. d' = WithLimiter(d, x, l)
  BY DEF LogThrows, LogThrew, SkippedOrNot, WithLimiter
<1> HIDE DEF l
<1>4. /\ d' \in DestinationType /\ LimitersRight(d'.xidLimiters)
      /\ d'.statsMap = d.statsMap /\ d'.updatedStats = d.updatedStats
      /\ d'.outputStatistics = d.outputStatistics /\ d'.reset = d.reset
      /\ DOMAIN d'.xidLimiters = DOMAIN d.xidLimiters \cup {x}
  BY <1>2, <1>3, WithLimiterType DEF IInv
<1>5. /\ failed' = [failed EXCEPT ![x] = @ + 1] /\ failed \in [Xids -> Nat]
      /\ UNCHANGED <<now, offered, logged, reported>>
  BY DEF LogThrows, IInv, HistoryType
<1>6. HistoryType'
  BY <1>5 DEF IInv, HistoryType
<1>7. Conservation' /\ UpToDate' /\ Told'
  BY <1>4, <1>5 DEF IInv, Conservation, CountsOf, Offered, UpToDate, Told
<1>8. LimitersFollowStatistics'
  BY <1>4, <1>5 DEF IInv, LimitersFollowStatistics
<1> QED
  BY <1>4, <1>5, <1>6, <1>7, <1>8 DEF IInv

\* What readers know after a summary that returns.
LEMMA LearnedRight ==
    ASSUME IInv, d.outputStatistics, SummaryReturns, NEW x \in Xids
    PROVE  reported'[x] = Offered(x)
<1> DEFINE held == HeldBy(d, x)
<1>1. reported[x] \in Known /\ held \in Known
  BY HeldType DEF IInv, HistoryType
<1>2. Plus(IF d.reset THEN reported[x] ELSE NoCounts, held) = Offered(x)
  BY DEF IInv, Conservation, CountsOf, HeldBy
<1>3. Plus(NoCounts, held) = held /\ Plus(reported[x], NoCounts) = reported[x]
  BY <1>1 DEF Plus, NoCounts, Known
<1>4. CASE ~d.updatedStats
  <2>1. reported' = reported
    BY <1>4 DEF SummaryReturns, PrintsSummary
  <2> QED
    BY <1>4, <2>1 DEF IInv, UpToDate
<1>5. CASE d.updatedStats
  <2>1. FormSummary(d).rows = d.statsMap
    BY DEF FormSummary
  <2>2. reported' = Learned(d.statsMap)
    BY <1>5, <2>1 DEF SummaryReturns, PrintsSummary
  <2>3. CASE x \notin DOMAIN d.statsMap
    <3>1. reported'[x] = reported[x] /\ held = NoCounts
      BY <2>2, <2>3 DEF Learned, HeldBy
    <3>2. CASE d.reset
      BY <1>2, <1>3, <3>1, <3>2
    <3>3. CASE ~d.reset
      <4>1. reported[x] = NoCounts
        BY <2>3, <3>3 DEF IInv, Told
      <4> QED
        BY <1>2, <1>3, <3>1, <3>3, <4>1
    <3> QED
      BY <3>2, <3>3
  <2>4. CASE x \in DOMAIN d.statsMap
    <3>1. held = Counts(d.statsMap[x])
      BY <2>4 DEF HeldBy
    <3>2. CASE d.reset
      <4>1. reported'[x] = Plus(reported[x], d.statsMap[x])
        BY <2>2, <2>4, <3>2 DEF Learned
      <4>2. Plus(reported[x], d.statsMap[x]) = Plus(reported[x], held)
        BY <3>1 DEF Plus, Counts
      <4> QED
        BY <1>2, <3>2, <4>1, <4>2
    <3>3. CASE ~d.reset
      <4>1. reported'[x] = held
        BY <2>2, <2>4, <3>1, <3>3 DEF Learned
      <4> QED
        BY <1>2, <1>3, <3>3, <4>1
    <3> QED
      BY <3>2, <3>3
  <2> QED
    BY <2>3, <2>4
<1> QED
  BY <1>4, <1>5

\* summary() returns: what is forgotten was told before.
LEMMA SummaryStep ==
    ASSUME IInv, SummaryReturns
    PROVE  IInv'
<1>1. Summarizes(d, d')
  BY SummarizedType DEF IInv, SummaryReturns
<1>2. /\ d' \in DestinationType /\ RowsRight(d'.statsMap) /\ LimitersRight(d'.xidLimiters)
      /\ d'.outputStatistics = d.outputStatistics /\ d'.reset = d.reset
      /\ d'.updatedStats = FALSE
      /\ d.reset => DOMAIN d'.statsMap = {} /\ DOMAIN d'.xidLimiters = {}
      /\ ~d.reset => d'.statsMap = d.statsMap /\ d'.xidLimiters = d.xidLimiters
  BY <1>1 DEF Summarizes, SettingsKept
<1>3. /\ UNCHANGED <<now, offered, logged>>
      /\ failed' = IF d.reset THEN Zero ELSE failed
  BY DEF SummaryReturns
<1>4. ASSUME NEW x \in Xids
      PROVE  /\ Offered(x)' = Offered(x) /\ Offered(x) \in Known
             /\ d.reset => CountsOf(x)' = NoCounts
             /\ ~d.reset => CountsOf(x)' = CountsOf(x)
  BY <1>2, <1>3 DEF Offered, CountsOf, IInv, HistoryType, Known
<1>5. reported' \in [Xids -> Known]
  <2>1. CASE ~PrintsSummary(d)
    BY <2>1 DEF SummaryReturns, IInv, HistoryType
  <2>2. CASE PrintsSummary(d)
    <3>1. d.outputStatistics
      BY <2>2 DEF PrintsSummary
    <3>2. reported' = Learned(FormSummary(d).rows)
      BY <2>2 DEF SummaryReturns
    <3>3. reported' = [x \in Xids |-> reported'[x]]
      BY <3>2 DEF Learned
    <3>4. \A x \in Xids : reported'[x] \in Known
      BY <1>4, <3>1, LearnedRight
    <3> QED
      BY <3>3, <3>4
  <2> QED
    BY <2>1, <2>2
<1>6. HistoryType'
  BY <1>3, <1>5 DEF IInv, HistoryType, Zero
<1>7. Conservation' /\ UpToDate' /\ Told'
  <2> SUFFICES ASSUME d.outputStatistics PROVE Conservation' /\ UpToDate' /\ Told'
    BY <1>2 DEF Conservation, UpToDate, Told
  <2>1. \A x \in Xids : reported'[x] = Offered(x)
    BY LearnedRight
  <2>2. UpToDate'
    BY <1>4, <2>1 DEF UpToDate
  <2>3. CASE d.reset
    <3>1. ASSUME NEW x \in Xids
          PROVE  Plus(reported'[x], CountsOf(x)') = Offered(x)'
      <4>1. Plus(Offered(x), NoCounts) = Offered(x)
        BY <1>4 DEF Plus, NoCounts, Known
      <4> QED
        BY <1>4, <2>1, <2>3, <4>1
    <3>2. Conservation'
      BY <1>2, <2>3, <3>1 DEF Conservation
    <3>3. Told'
      BY <1>2, <2>3 DEF Told
    <3> QED
      BY <2>2, <3>2, <3>3
  <2>4. CASE ~d.reset
    <3>1. Conservation'
      BY <1>2, <1>4, <2>4 DEF IInv, Conservation, NoCounts
    <3>2. ASSUME NEW x \in Xids \ DOMAIN d'.statsMap
          PROVE  reported'[x] = NoCounts
      <4>1. x \notin DOMAIN d.statsMap /\ reported[x] = NoCounts
        BY <1>2, <2>4, <3>2 DEF IInv, Told
      <4>2. CountsOf(x) = NoCounts /\ Plus(NoCounts, CountsOf(x)) = Offered(x)
        BY <2>4, <4>1 DEF IInv, Conservation, CountsOf
      <4>3. Plus(NoCounts, NoCounts) = NoCounts
        BY DEF Plus, NoCounts
      <4> QED
        BY <2>1, <4>2, <4>3
    <3>3. Told'
      BY <1>2, <2>4, <3>2 DEF Told
    <3> QED
      BY <2>2, <3>1, <3>3
  <2> QED
    BY <2>3, <2>4
<1>8. LimitersFollowStatistics'
  BY <1>2, <1>3 DEF IInv, LimitersFollowStatistics
<1> QED
  BY <1>2, <1>3, <1>6, <1>7, <1>8 DEF IInv

\* A threshold that is set touches no count.
LEMMA ThresholdStep ==
    ASSUME IInv, NEW level \in Thresholds, SetsThreshold(level)
    PROVE  IInv'
<1>1. d' = [d EXCEPT !.threshold = level] /\ level \in Levels
  BY ThresholdsAssumption DEF SetsThreshold, SetThreshold
<1>2. /\ d' \in DestinationType /\ d'.statsMap = d.statsMap /\ d'.xidLimiters = d.xidLimiters
      /\ d'.outputStatistics = d.outputStatistics /\ d'.reset = d.reset
      /\ d'.updatedStats = d.updatedStats
  BY <1>1 DEF IInv, DestinationType
<1>3. UNCHANGED <<now, offered, logged, failed, reported>>
  BY DEF SetsThreshold
<1> QED
  BY <1>2, <1>3 DEF IInv, HistoryType, Conservation, CountsOf, Offered, UpToDate, Told,
                    LimitersFollowStatistics

\* Of the other steps none touches more than the clock.
LEMMA OtherStep ==
    ASSUME IInv, Tick \/ SummaryThrows \/ UNCHANGED vars
    PROVE  IInv'
<1>1. UNCHANGED <<d, offered, logged, failed, reported>>
  BY DEF Tick, SummaryThrows, vars
<1>2. now' \in 0 .. MaxTime
  <2>1. now' = now \/ (now < MaxTime /\ now' = now + 1)
    BY DEF Tick, SummaryThrows, vars
  <2> QED
    BY <2>1, BoundsAssumption DEF IInv
<1> QED
  BY <1>1, <1>2 DEF IInv, HistoryType, Conservation, CountsOf, Offered, UpToDate, Told,
                    LimitersFollowStatistics

\* Every step keeps the inductive invariant.
LEMMA NextIInv == IInv /\ [Next]_vars => IInv'
<1> SUFFICES ASSUME IInv, [Next]_vars PROVE IInv'
  OBVIOUS
<1>1. ASSUME NEW x \in Xids, NEW c \in Contexts, LogReturns(x, c) PROVE IInv'
  BY <1>1, LogStep
<1>2. ASSUME NEW x \in Xids, LogThrows(x) PROVE IInv'
  BY <1>2, ThrowStep
<1>3. ASSUME Flush PROVE IInv'
  BY <1>3, LogStep, XidsAssumption DEF Flush
<1>4. ASSUME SummaryReturns PROVE IInv'
  BY <1>4, SummaryStep
<1>5. ASSUME NEW level \in Thresholds, SetsThreshold(level) PROVE IInv'
  BY <1>5, ThresholdStep
<1>6. ASSUME Tick \/ SummaryThrows \/ UNCHANGED vars PROVE IInv'
  BY <1>6, OtherStep
<1> QED
  BY <1>1, <1>2, <1>3, <1>4, <1>5, <1>6 DEF Next

\* The inductive invariant holds at all times.
LEMMA Invariant == Spec => []IInv
BY InitIInv, NextIInv, PTL DEF Spec

--------------------------------------------------------------------------------
\* It implies the type invariant as the runs state it.
LEMMA IInvTypeOK == IInv => TypeOK
<1> SUFFICES ASSUME IInv PROVE TypeOK
  OBVIOUS
<1>1. /\ d.xidLimiters \in Partial(Xids, LimiterType) /\ d.statsMap \in Partial(Xids, StatsType)
      /\ d.updatedStats \in BOOLEAN
  BY DEF IInv, DestinationType
<1>2. /\ DOMAIN d.xidLimiters \subseteq Xids /\ DOMAIN d.statsMap \subseteq Xids
      /\ \A x \in DOMAIN d.xidLimiters : d.xidLimiters[x] \in LimiterType
      /\ \A x \in DOMAIN d.statsMap : d.statsMap[x] \in StatsType
  BY <1>1, PartialMap
<1> QED
  BY <1>1, <1>2 DEF IInv, TypeOK, RowsRight, LimitersRight

\* The type invariant: among the rest, a row has a star exactly if an occurrence
\* was ignored (StatsCount::add).
THEOREM DestinationTypeCorrect == Spec => []TypeOK
BY Invariant, IInvTypeOK, PTL

\* Whatever is configured and however messages, exceptions, summaries, resets
\* and thresholds follow each other, what the summaries told and what is held
\* add up to what log() was given.
THEOREM NothingLost == Spec => []Conservation
<1>1. IInv => Conservation
  BY DEF IInv
<1> QED
  BY <1>1, Invariant, PTL

\* When updatedStats_ is false there is nothing that summary() has not told.
THEOREM FlagUpToDate == Spec => []UpToDate
<1>1. IInv => UpToDate
  BY DEF IInv
<1> QED
  BY <1>1, Invariant, PTL

\* Limiters and statistics appear and are reset together, but for the limiters
\* of messages at which routePayload threw.
THEOREM LimitersAndStatistics == Spec => []LimitersFollowStatistics
<1>1. IInv => LimitersFollowStatistics
  BY DEF IInv
<1> QED
  BY <1>1, Invariant, PTL

--------------------------------------------------------------------------------
(***************************************************************************)
(* The example contexts: the rows hold as many contexts as were reacted    *)
(* to, in the slots that StatsCount::add chose for them.                   *)
(***************************************************************************)
MessageContexts == Contexts \cup {NoContext}

\* The columns of a row without a star, and the contexts that were reacted to.
ColumnsRight(s, e) ==
    ~s.ignoredFlag =>
      /\ Names(s.context1, e[1])
      /\ Names(s.context2, IF Len(e) > 1 THEN e[2] ELSE NoContext)
      /\ Names(s.contextLast, IF Len(e) > 2 THEN e[Len(e)] ELSE NoContext)

RowOfExamples(stats, x, e) ==
    IF x \in DOMAIN stats THEN Len(e) = stats[x].n /\ ColumnsRight(stats[x], e) ELSE e = <<>>

ExampleInv ==
    /\ examples \in [Xids -> Seq(MessageContexts)]
    /\ ~d.outputStatistics => DOMAIN d.statsMap = {}
    /\ d.outputStatistics => \A x \in Xids : RowOfExamples(d.statsMap, x, examples[x])

\* The short form of a context names the event that the context names.
LEMMA ShortName ==
    /\ \A c \in MessageContexts : Names(Cut(SummarizeContext(c)), c)
    /\ Names(<<>>, NoContext)
<1> DEFINE A == STRING \cup {"/"}
<1>1. \A c \in MessageContexts : c.run \in Seq(A) /\ c.event \in Seq(A) /\ c.rest \in Seq(A)
  <2>1. <<>> \in Seq(A)
    OBVIOUS
  <2>2. \A c \in Contexts :
          c.run \in Seq(STRING) /\ c.event \in Seq(STRING) /\ c.rest \in Seq(STRING)
    BY ContextsAssumption
  <2>3. \A text \in Seq(STRING) : text \in Seq(A)
    <3>1. STRING \subseteq A
      OBVIOUS
    <3> HIDE DEF A
    <3> QED
      BY <3>1, Wider
  <2>4. NoContext.run = <<>> /\ NoContext.event = <<>> /\ NoContext.rest = <<>>
    BY DEF NoContext
  <2> HIDE DEF A
  <2> QED
    BY <2>1, <2>2, <2>3, <2>4, Zenon DEF MessageContexts
<1>2. ASSUME NEW c \in MessageContexts PROVE Names(Cut(SummarizeContext(c)), c)
  <2> DEFINE whole == IF c.run = <<>> THEN c.rest ELSE c.run \o <<"/">> \o c.event
  <2>1. SummarizeContext(c) = whole
    BY DEF SummarizeContext
  <2>2. whole \in Seq(A)
    <3>1. PICK run \in Seq(A), event \in Seq(A), rest \in Seq(A) :
            run = c.run /\ event = c.event /\ rest = c.rest
      BY <1>1
    <3>2. PICK slash \in Seq(A) : slash = <<"/">>
      <4>1. "/" \in A
        OBVIOUS
      <4>2. \A B : \A b \in B : <<b>> \in Seq(B)
        OBVIOUS
      <4> HIDE DEF A
      <4> QED
        BY <4>1, <4>2, Zenon
    <3> HIDE DEF A
    <3>3. run \o slash \o event \in Seq(A)
      BY ConcatProperties
    <3> QED
      BY <3>1, <3>2, <3>3, Zenon
  <2> HIDE DEF A
  <2> QED
    BY <2>1, <2>2, CutIs DEF Names
<1>3. Names(<<>>, NoContext)
  BY ContextWidthAssumption DEF Names, NoContext
<1> QED
  BY <1>2, <1>3

\* The slot that an occurrence's context goes to is the one its number asks for.
LEMMA AddColumn ==
    ASSUME NEW s \in StatsType, NEW c \in MessageContexts, NEW e \in Seq(MessageContexts),
           NEW reacted \in BOOLEAN,
           s.n <= s.aggregateN, s.ignoredFlag <=> s.n < s.aggregateN,
           Len(e) = s.n,
           s = NewStats \/ (s.aggregateN > 0 /\ ColumnsRight(s, e))
    PROVE  LET r == Add(s, SummarizeContext(c), reacted)
               f == IF reacted THEN Append(e, c) ELSE e
           IN  Len(f) = r.n /\ ColumnsRight(r, f)
<1> DEFINE shown == Cut(SummarizeContext(c))
           r == Add(s, SummarizeContext(c), reacted)
<1>1. /\ r.n = s.n + (IF reacted THEN 1 ELSE 0)
      /\ r.n <= r.aggregateN /\ r.aggregateN = s.aggregateN + 1
      /\ r.ignoredFlag <=> r.n < r.aggregateN
  BY ContextShown, AddRight DEF MessageContexts
<1>2. s.n \in Nat /\ s.aggregateN \in Nat /\ Len(e) \in Nat
  BY DEF StatsType
<1>3. CASE ~reacted
  <2>1. r.ignoredFlag
    BY <1>1, <1>2, <1>3
  <2> QED
    BY <1>1, <1>2, <1>3, <2>1 DEF ColumnsRight
<1>4. CASE reacted
  <2> DEFINE f == Append(e, c)
  <2>1. /\ Len(f) = s.n + 1 /\ f[s.n + 1] = c
        /\ \A k \in 1 .. s.n : f[k] = e[k]
    BY <1>2
  <2>2. r.n = s.n + 1 /\ (r.ignoredFlag <=> s.n < s.aggregateN)
    <3> HIDE DEF r
    <3>1. r.n = s.n + 1
      BY <1>1, <1>4
    <3>2. s.n + 1 < s.aggregateN + 1 <=> s.n < s.aggregateN
      BY <1>2
    <3>3. r.ignoredFlag <=> s.n + 1 < s.aggregateN + 1
      BY <1>1, <3>1, Zenon
    <3> QED
      BY <3>1, <3>2, <3>3, Zenon
  <2>3. Names(shown, c) /\ Names(<<>>, NoContext)
    BY ShortName
  <2>4. /\ r.context1 = IF s.n = 0 THEN shown ELSE s.context1
        /\ r.context2 = IF s.n = 1 THEN shown ELSE s.context2
        /\ r.contextLast = IF s.n > 1 THEN shown ELSE s.contextLast
    <3> DEFINE k == s.n + 1
               slot == IF k = 1 THEN "context1" ELSE IF k = 2 THEN "context2" ELSE "contextLast"
               flag == s.ignoredFlag \/ ~reacted
    <3>1. r = [s EXCEPT !.n = k, !.aggregateN = s.aggregateN + 1, ![slot] = shown,
                        !.ignoredFlag = flag]
      BY <1>4 DEF Add
    <3>2. /\ s.n = 0 => slot = "context1"
          /\ s.n = 1 => slot = "context2"
          /\ s.n > 1 => slot = "contextLast"
      BY <1>2
    <3> HIDE DEF shown, r, k, slot, flag
    <3>3. CASE s.n = 0
      <4>1. r = [s EXCEPT !.n = k, !.aggregateN = s.aggregateN + 1, !.context1 = shown,
                          !.ignoredFlag = flag]
        BY <3>1, <3>2, <3>3
      <4> QED
        BY <3>3, <4>1 DEF StatsType
    <3>4. CASE s.n = 1
      <4>1. r = [s EXCEPT !.n = k, !.aggregateN = s.aggregateN + 1, !.context2 = shown,
                          !.ignoredFlag = flag]
        BY <3>1, <3>2, <3>4
      <4> QED
        BY <3>4, <4>1 DEF StatsType
    <3>5. CASE s.n > 1
      <4>1. r = [s EXCEPT !.n = k, !.aggregateN = s.aggregateN + 1, !.contextLast = shown,
                          !.ignoredFlag = flag]
        BY <3>1, <3>2, <3>5
      <4> QED
        BY <1>2, <3>5, <4>1 DEF StatsType
    <3> QED
      BY <1>2, <3>3, <3>4, <3>5
  <2> HIDE DEF r, f, shown
  <2>5. ASSUME ~r.ignoredFlag PROVE ColumnsRight(r, f)
    <3>1. s.n = s.aggregateN
      BY <1>2, <2>2, <2>5
    <3>2. CASE s = NewStats
      <4>1. s.n = 0 /\ s.context2 = <<>> /\ s.contextLast = <<>>
        BY <3>2 DEF NewStats
      <4> QED
        BY <2>1, <2>3, <2>4, <4>1 DEF ColumnsRight
    <3>3. CASE s.aggregateN > 0 /\ ColumnsRight(s, e)
      <4>1. /\ s.n > 0 /\ Names(s.context1, e[1])
            /\ Names(s.context2, IF s.n > 1 THEN e[2] ELSE NoContext)
            /\ Names(s.contextLast, IF s.n > 2 THEN e[s.n] ELSE NoContext)
        BY <1>2, <3>1, <3>3 DEF ColumnsRight
      <4>2. Names(r.context1, f[1])
        BY <1>2, <2>1, <2>4, <4>1
      <4>3. Names(r.context2, f[2]) /\ Len(f) > 1
        <5>1. CASE s.n = 1
          BY <2>1, <2>3, <2>4, <5>1
        <5>2. CASE s.n > 1
          BY <1>2, <2>1, <2>4, <4>1, <5>2
        <5> QED
          BY <1>2, <4>1, <5>1, <5>2
      <4>4. Names(r.contextLast, IF Len(f) > 2 THEN f[Len(f)] ELSE NoContext)
        <5>1. CASE s.n = 1
          BY <2>1, <2>4, <4>1, <5>1
        <5>2. CASE s.n > 1
          BY <1>2, <2>1, <2>3, <2>4, <5>2
        <5> QED
          BY <1>2, <4>1, <5>1, <5>2
      <4> QED
        BY <4>2, <4>3, <4>4 DEF ColumnsRight
    <3> QED
      BY <3>2, <3>3
  <2>6. ColumnsRight(r, f)
    BY <2>5 DEF ColumnsRight
  <2> QED
    BY <1>4, <2>1, <2>2, <2>6 DEF r, f, shown
<1> QED
  BY <1>3, <1>4

\* What log() leaves of the rows.
LEMMA LogRows ==
    ASSUME NEW e \in DestinationType, NEW x \in Xids, NEW c, NEW t \in Nat
    PROVE  /\ Log(e, x, c, t).outputStatistics = e.outputStatistics
           /\ Log(e, x, c, t).statsMap =
                IF e.outputStatistics
                THEN Put(e.statsMap, x, Add(RowOf(e, x), SummarizeContext(c), ReactsTo(e, x, t)))
                ELSE e.statsMap
<1>1. ASSUME NEW g, NEW reacted,
             g = e \/ g = SkippedOrNot(e, x, t)
      PROVE  /\ Recorded(g, x, c, reacted).outputStatistics = e.outputStatistics
             /\ Recorded(g, x, c, reacted).statsMap =
                  IF e.outputStatistics
                  THEN Put(e.statsMap, x, Add(RowOf(e, x), SummarizeContext(c), reacted))
                  ELSE e.statsMap
  <2>1. /\ g.statsMap = e.statsMap /\ g.outputStatistics = e.outputStatistics
        /\ {"statsMap", "updatedStats", "outputStatistics"} \subseteq DOMAIN g
        /\ g = [k \in DOMAIN g |-> g[k]]
    BY <1>1 DEF SkippedOrNot, DestinationType
  <2> DEFINE stats == Put(g.statsMap, x, Add(Get(g.statsMap, x, NewStats), SummarizeContext(c), reacted))
  <2>2. Recorded(g, x, c, reacted) =
          IF g.outputStatistics THEN [g EXCEPT !.statsMap = stats, !.updatedStats = TRUE] ELSE g
    BY DEF Recorded
  <2> HIDE DEF stats
  <2>3. CASE g.outputStatistics
    BY <2>1, <2>2, <2>3 DEF RowOf, stats
  <2>4. CASE ~g.outputStatistics
    BY <2>1, <2>2, <2>4
  <2> QED
    BY <2>3, <2>4
<1>2. CASE BelowThreshold(e, x)
  <2>1. ReactsTo(e, x, t) = FALSE
    BY <1>2 DEF ReactsTo
  <2> QED
    BY <1>1, <1>2, <2>1 DEF Log
<1>3. CASE ~BelowThreshold(e, x)
  <2>1. ReactsTo(e, x, t) = PassesLimiter(e, x, t)
    BY <1>3 DEF ReactsTo, PassesLimiter, Accepts
  <2> QED
    BY <1>1, <1>3, <2>1 DEF Log
<1> QED
  BY <1>2, <1>3

\* An occurrence adds to its row and to no other.
LEMMA LogExamples ==
    ASSUME IInv, ExampleInv, NEW x \in Xids, NEW c \in MessageContexts, LogReturns(x, c)
    PROVE  ExampleInv'
<1> DEFINE r == ReactsTo(d, x, now)
           row == Add(RowOf(d, x), SummarizeContext(c), r)
           seen == IF r THEN Append(examples[x], c) ELSE examples[x]
<1>1. d \in DestinationType /\ now \in Nat /\ r \in BOOLEAN
  BY BoundsAssumption DEF IInv, ReactsTo, BelowThreshold, PassesLimiter, Accepts
<1>2. /\ d'.outputStatistics = d.outputStatistics
      /\ d'.statsMap = IF d.outputStatistics THEN Put(d.statsMap, x, row) ELSE d.statsMap
  BY <1>1, LogRows DEF LogReturns
<1>3. examples' = [examples EXCEPT ![x] = seen]
  BY DEF LogReturns
<1>4. examples \in [Xids -> Seq(MessageContexts)] /\ examples[x] \in Seq(MessageContexts)
  BY DEF ExampleInv
<1> HIDE DEF r
<1>5. seen \in Seq(MessageContexts)
  BY <1>1, <1>4
<1>6. ASSUME d.outputStatistics PROVE Len(seen) = row.n /\ ColumnsRight(row, seen)
  <2> DEFINE s == RowOf(d, x)
  <2>1. /\ s \in StatsType /\ s.n <= s.aggregateN /\ (s.ignoredFlag <=> s.n < s.aggregateN)
        /\ Len(examples[x]) = s.n
        /\ s = NewStats \/ (s.aggregateN > 0 /\ ColumnsRight(s, examples[x]))
    <3>1. RowOfExamples(d.statsMap, x, examples[x])
      BY <1>6 DEF ExampleInv
    <3>2. CASE x \in DOMAIN d.statsMap
      <4>1. d.statsMap \in Partial(Xids, StatsType) /\ s = d.statsMap[x]
        BY <1>1, <3>2, RowIs DEF DestinationType
      <4>2. s \in StatsType
        BY <3>2, <4>1, PartialMap
      <4> QED
        BY <3>1, <3>2, <4>1, <4>2 DEF IInv, RowsRight, RowOfExamples
    <3>3. CASE x \notin DOMAIN d.statsMap
      <4>1. s = NewStats /\ examples[x] = <<>>
        BY <1>1, <3>1, <3>3, RowIs DEF RowOfExamples
      <4>2. NewStats \in StatsType
        BY DEF NewStats, StatsType, ShownContexts
      <4>3. NewStats.n = 0 /\ NewStats.aggregateN = 0 /\ NewStats.ignoredFlag = FALSE
        BY DEF NewStats
      <4> HIDE DEF s
      <4> QED
        BY <4>1, <4>2, <4>3
    <3> QED
      BY <3>2, <3>3
  <2> HIDE DEF s
  <2> QED
    BY <1>1, <1>4, <2>1, AddColumn DEF s
<1> HIDE DEF row, seen
<1>7. examples' \in [Xids -> Seq(MessageContexts)]
  BY <1>3, <1>4, <1>5
<1>8. ASSUME d.outputStatistics, NEW y \in Xids
      PROVE  RowOfExamples(d'.statsMap, y, examples'[y])
  <2>1. /\ DOMAIN d'.statsMap = DOMAIN d.statsMap \cup {x} /\ d'.statsMap[x] = row
        /\ \A z \in DOMAIN d.statsMap \ {x} : d'.statsMap[z] = d.statsMap[z]
    <3>1. DOMAIN d.statsMap \subseteq Xids
      BY <1>1, PartialMap DEF DestinationType
    <3> QED
      BY <1>2, <1>8, <3>1, PutIs
  <2>2. CASE y = x
    <3>1. examples'[y] = seen
      BY <1>3, <1>4, <2>2
    <3> QED
      BY <1>6, <1>8, <2>1, <2>2, <3>1 DEF RowOfExamples
  <2>3. CASE y # x
    <3>1. examples'[y] = examples[y] /\ RowOfExamples(d.statsMap, y, examples[y])
      BY <1>3, <1>4, <1>8, <2>3 DEF ExampleInv
    <3> QED
      BY <2>1, <2>3, <3>1 DEF RowOfExamples
  <2> QED
    BY <2>2, <2>3
<1>9. ~d'.outputStatistics => DOMAIN d'.statsMap = {}
  BY <1>2 DEF ExampleInv
<1> QED
  BY <1>2, <1>7, <1>8, <1>9 DEF ExampleInv

\* A summary forgets the examples with the rows, or neither.
LEMMA SummaryExamples ==
    ASSUME IInv, ExampleInv, SummaryReturns
    PROVE  ExampleInv'
<1>1. Summarizes(d, d')
  BY SummarizedType DEF IInv, SummaryReturns
<1>2. /\ d'.outputStatistics = d.outputStatistics
      /\ d.reset => DOMAIN d'.statsMap = {}
      /\ ~d.reset => d'.statsMap = d.statsMap
  BY <1>1 DEF Summarizes, SettingsKept
<1>3. examples' = IF d.reset THEN [x \in Xids |-> <<>>] ELSE examples
  BY DEF SummaryReturns
<1>4. CASE d.reset
  BY <1>2, <1>3, <1>4 DEF ExampleInv, RowOfExamples
<1>5. CASE ~d.reset
  BY <1>2, <1>3, <1>5 DEF ExampleInv, RowOfExamples, ColumnsRight
<1> QED
  BY <1>4, <1>5

\* The other steps touch neither rows nor examples.
LEMMA OtherExamples ==
    ASSUME IInv, ExampleInv,
           \/ \E x \in Xids : LogThrows(x)
           \/ \E level \in Thresholds : SetsThreshold(level)
           \/ Tick \/ SummaryThrows \/ UNCHANGED vars
    PROVE  ExampleInv'
<1>1. d \in DestinationType
  BY DEF IInv
<1>2. /\ d'.statsMap = d.statsMap /\ d'.outputStatistics = d.outputStatistics
      /\ examples' = examples
  <2>1. CASE \E x \in Xids : LogThrows(x)
    BY <1>1, <2>1 DEF LogThrows, LogThrew, SkippedOrNot, DestinationType
  <2>2. CASE \E level \in Thresholds : SetsThreshold(level)
    BY <1>1, <2>2 DEF SetsThreshold, SetThreshold, DestinationType
  <2>3. CASE Tick \/ SummaryThrows \/ UNCHANGED vars
    BY <2>3 DEF Tick, SummaryThrows, vars
  <2> QED
    BY <2>1, <2>2, <2>3
<1> QED
  BY <1>2 DEF ExampleInv, RowOfExamples, ColumnsRight

\* The examples and the rows agree at all times.
LEMMA ExamplesInvariant == Spec => []ExampleInv
<1>1. Init => ExampleInv
  <2> SUFFICES ASSUME Init PROVE ExampleInv
    OBVIOUS
  <2>1. PICK cfg \in Configs : d = Construct(cfg)
    BY DEF Init
  <2>2. DOMAIN d.statsMap = {}
    BY <2>1, ConstructType, EmptyMapType
  <2> QED
    BY <2>2 DEF Init, ExampleInv, RowOfExamples
<1>2. ASSUME IInv, ExampleInv, [Next]_vars PROVE ExampleInv'
  <2>1. ASSUME NEW x \in Xids, NEW c \in Contexts, LogReturns(x, c) PROVE ExampleInv'
    BY <1>2, <2>1, LogExamples DEF MessageContexts
  <2>2. ASSUME Flush PROVE ExampleInv'
    BY <1>2, <2>2, LogExamples, XidsAssumption DEF Flush, MessageContexts
  <2>3. ASSUME SummaryReturns PROVE ExampleInv'
    BY <1>2, <2>3, SummaryExamples
  <2> QED
    BY <1>2, <2>1, <2>2, <2>3, OtherExamples DEF Next
<1> QED
  BY <1>1, <1>2, Invariant, PTL DEF Spec

\* The example columns that formSummary prints for a message type of which
\* nothing was ignored name the events of its first, second and, from the
\* third on, most recent occurrence, over resets, failures and flushes.
THEOREM ExamplesNamed == Spec => []ExampleContexts
<1>1. IInv /\ ExampleInv => ExampleContexts
  <2> SUFFICES ASSUME IInv, ExampleInv, NEW x \in DOMAIN FormSummary(d).rows,
                      ~FormSummary(d).rows[x].ignoredFlag
               PROVE  LET s == FormSummary(d).rows[x]
                          e == examples[x]
                      IN  /\ Names(s.context1, e[1])
                          /\ Names(s.context2, IF Len(e) > 1 THEN e[2] ELSE NoContext)
                          /\ Names(s.contextLast, IF Len(e) > 2 THEN e[Len(e)] ELSE NoContext)
    BY DEF ExampleContexts
  <2>1. FormSummary(d).rows = d.statsMap
    BY DEF FormSummary
  <2>2. x \in Xids /\ d.outputStatistics
    <3>1. DOMAIN d.statsMap \subseteq Xids
      BY IInvTypeOK DEF TypeOK
    <3> QED
      BY <2>1, <3>1 DEF ExampleInv
  <2>3. ColumnsRight(d.statsMap[x], examples[x])
    BY <2>1, <2>2 DEF ExampleInv, RowOfExamples
  <2> QED
    BY <2>1, <2>3 DEF ColumnsRight
<1> QED
  BY <1>1, Invariant, ExamplesInvariant, PTL
--------------------------------------------------------------------------------
(***************************************************************************)
(* What a summary says besides its rows.                                   *)
(***************************************************************************)
\* What counting began with is what is held: the statistics are reset when and
\* only when their readers are told.
LEMMA SinceIsHeld ==
    ASSUME IInv, d.outputStatistics, NEW x \in Xids
    PROVE  /\ Since(x) = CountsOf(x) /\ Since(x) \in Known
           /\ x \in DOMAIN d.statsMap =>
                /\ Since(x).n = d.statsMap[x].n
                /\ Since(x).aggregateN = d.statsMap[x].aggregateN
           /\ x \notin DOMAIN d.statsMap => Since(x).n = 0 /\ Since(x).aggregateN = 0
<1>1. d.statsMap \in Partial(Xids, StatsType) /\ reported[x] \in Known
  BY DEF IInv, DestinationType, HistoryType
<1>2. /\ CountsOf(x) \in Known
      /\ x \in DOMAIN d.statsMap =>
           CountsOf(x).n = d.statsMap[x].n /\ CountsOf(x).aggregateN = d.statsMap[x].aggregateN
      /\ x \notin DOMAIN d.statsMap => CountsOf(x).n = 0 /\ CountsOf(x).aggregateN = 0
  <2>1. CASE x \in DOMAIN d.statsMap
    <3>1. d.statsMap[x] \in StatsType
      BY <1>1, <2>1, PartialMap
    <3> QED
      BY <2>1, <3>1 DEF CountsOf, Counts, Known, StatsType
  <2>2. CASE x \notin DOMAIN d.statsMap
    BY <2>2 DEF CountsOf, NoCounts, Known
  <2> QED
    BY <2>1, <2>2
<1>3. PICK h : h = CountsOf(x)
  OBVIOUS
<1>4. h \in Known
  BY <1>2, <1>3
<1>5. Plus(IF d.reset THEN reported[x] ELSE NoCounts, h) = Offered(x)
  BY <1>3 DEF IInv, Conservation
<1>6. Since(x) = h
  <2>1. CASE d.reset
    <3>1. /\ Offered(x).n = reported[x].n + h.n
          /\ Offered(x).aggregateN = reported[x].aggregateN + h.aggregateN
      BY <1>5, <2>1 DEF Plus
    <3>2. Since(x) = [n |-> h.n, aggregateN |-> h.aggregateN]
      BY <1>1, <1>4, <2>1, <3>1 DEF Since, Known
    <3> QED
      BY <1>4, <3>2 DEF Known
  <2>2. CASE ~d.reset
    <3>1. Offered(x) = [n |-> h.n, aggregateN |-> h.aggregateN]
      BY <1>4, <1>5, <2>2 DEF Plus, NoCounts, Known
    <3> QED
      BY <1>4, <2>2, <3>1 DEF Since, Known
  <2> QED
    BY <2>1, <2>2
<1> QED
  BY <1>2, <1>3, <1>6

\* The maps of limiters and of statistics are sorted and hold a type once.
THEOREM MapsSorted == Spec => []RowsSorted
<1>1. IInv => RowsSorted
  <2> SUFFICES ASSUME IInv PROVE RowsSorted
    OBVIOUS
  <2>1. DOMAIN d.statsMap \cup DOMAIN d.xidLimiters \in SUBSET Types
    BY IInvTypeOK, XidsAssumption DEF TypeOK
  <2>2. Sorts(DOMAIN d.statsMap \cup DOMAIN d.xidLimiters)
    BY <2>1, TypesSorted
  <2>3. ASSUME d.outputStatistics
        PROVE  DOMAIN d.statsMap = {x \in Xids : Since(x).aggregateN > 0}
    <3>1. DOMAIN d.statsMap \subseteq Xids
      BY IInvTypeOK DEF TypeOK
    <3>2. \A x \in DOMAIN d.statsMap : Since(x).aggregateN > 0
      BY <2>3, <3>1, SinceIsHeld DEF IInv, RowsRight
    <3>3. \A x \in Xids \ DOMAIN d.statsMap : ~(Since(x).aggregateN > 0)
      BY <2>3, SinceIsHeld
    <3> QED
      BY <3>1, <3>2, <3>3
  <2> QED
    BY <2>2, <2>3 DEF RowsSorted
<1> QED
  BY <1>1, Invariant, PTL

\* The footnote, and the sums by severity, are those of all occurrences since
\* counting began: a type without a row has had none.
LEMMA TellsRight ==
    ASSUME IInv, IsFiniteSet(Xids)
    PROVE  SummaryTells
<1> SUFFICES ASSUME d.outputStatistics
             PROVE  /\ FormSummary(d).footnote <=> \E x \in Xids : Since(x).n < Since(x).aggregateN
                    /\ \A level \in ELsev_success .. ELsev_severe :
                         LET types == {x \in Xids : x.severity = level}
                         IN  FormSummary(d).severities[level] =
                               [n          |-> MapThenSumSet(LAMBDA x : Since(x).n, types),
                                aggregateN |-> MapThenSumSet(LAMBDA x : Since(x).aggregateN, types)]
  BY Zenon DEF SummaryTells
<1>1. DOMAIN d.statsMap \subseteq Xids
  BY IInvTypeOK DEF TypeOK
<1>2. FormSummary(d).footnote <=> \E x \in Xids : Since(x).n < Since(x).aggregateN
  <2>1. FormSummary(d).footnote <=> \E x \in DOMAIN d.statsMap : d.statsMap[x].ignoredFlag
    BY DEF FormSummary
  <2>2. ASSUME NEW x \in Xids
        PROVE  Since(x).n < Since(x).aggregateN
                 <=> x \in DOMAIN d.statsMap /\ d.statsMap[x].ignoredFlag
    <3>1. CASE x \in DOMAIN d.statsMap
      <4>1. d.statsMap[x].ignoredFlag <=> d.statsMap[x].n < d.statsMap[x].aggregateN
        BY <3>1 DEF IInv, RowsRight
      <4>2. Since(x).n = d.statsMap[x].n /\ Since(x).aggregateN = d.statsMap[x].aggregateN
        BY <3>1, SinceIsHeld
      <4> QED
        BY <3>1, <4>1, <4>2, Zenon
    <3>2. CASE x \notin DOMAIN d.statsMap
      <4>1. Since(x).n = 0 /\ Since(x).aggregateN = 0
        BY <3>2, SinceIsHeld
      <4>2. ~(Since(x).n < Since(x).aggregateN)
        BY <4>1
      <4> QED
        BY <3>2, <4>2
    <3> QED
      BY <3>1, <3>2
  <2> QED
    BY <1>1, <2>1, <2>2, Zenon
<1>3. ASSUME NEW level \in ELsev_success .. ELsev_severe
      PROVE  FormSummary(d).severities[level] =
               [n          |-> MapThenSumSet(LAMBDA x : Since(x).n, {x \in Xids : x.severity = level}),
                aggregateN |-> MapThenSumSet(LAMBDA x : Since(x).aggregateN,
                                             {x \in Xids : x.severity = level})]
  <2> DEFINE rows == {x \in DOMAIN d.statsMap : x.severity = level}
             types == {x \in Xids : x.severity = level}
             ns == [x \in types |-> Since(x).n]
             as == [x \in types |-> Since(x).aggregateN]
  <2>1. FormSummary(d).severities[level] =
          [n          |-> MapThenSumSet(LAMBDA x : d.statsMap[x].n, rows),
           aggregateN |-> MapThenSumSet(LAMBDA x : d.statsMap[x].aggregateN, rows)]
    <3>1. FormSummary(d).severities = SeveritiesOf(d.statsMap)
      BY DEF FormSummary
    <3> QED
      BY <3>1, Zenon DEF SeveritiesOf
  <2>2. IsFiniteSet(types) /\ rows \in SUBSET types /\ types \subseteq Xids
    <3>1. types \subseteq Xids
      OBVIOUS
    <3> QED
      BY <1>1, <3>1, FS_Subset
  <2>3. \A x \in types : ns[x] = Since(x).n /\ as[x] = Since(x).aggregateN
    OBVIOUS
  <2>4. \A x \in rows : x \in DOMAIN d.statsMap
    OBVIOUS
  <2>5. \A x \in types \ rows : x \notin DOMAIN d.statsMap
    OBVIOUS
  <2> DEFINE rn == [x \in rows |-> d.statsMap[x].n]
             ra == [x \in rows |-> d.statsMap[x].aggregateN]
  <2>6. \A x \in rows : rn[x] = d.statsMap[x].n /\ ra[x] = d.statsMap[x].aggregateN
    OBVIOUS
  <2> HIDE DEF rows, types
  <2>7. /\ MapThenSumSet(LAMBDA x : d.statsMap[x].n, rows) = SumOf(rn, rows)
        /\ MapThenSumSet(LAMBDA x : d.statsMap[x].aggregateN, rows) = SumOf(ra, rows)
    BY Zenon DEF SumOf, MapThenSumSet, MapThenFoldSet
  <2>8. /\ MapThenSumSet(LAMBDA x : Since(x).n, types) = SumOf(ns, types)
        /\ MapThenSumSet(LAMBDA x : Since(x).aggregateN, types) = SumOf(as, types)
    BY Zenon DEF SumOf, MapThenSumSet, MapThenFoldSet
  <2> HIDE DEF ns, as, rn, ra
  <2>9. Numeric(ns, types) /\ Numeric(as, types)
    <3>1. ASSUME NEW x \in types PROVE Since(x).n \in Int /\ Since(x).aggregateN \in Int
      <4>1. Since(x) \in Known
        BY <2>2, SinceIsHeld
      <4>2. PICK h \in Known : h = Since(x)
        BY <4>1
      <4> QED
        BY <4>2 DEF Known
    <3> QED
      BY <2>3, <3>1 DEF Numeric
  <2>10. \A x \in rows : rn[x] = ns[x] /\ ra[x] = as[x]
    BY <2>2, <2>3, <2>4, <2>6, SinceIsHeld
  <2>11. \A x \in types \ rows : ns[x] = 0 /\ as[x] = 0
    BY <2>2, <2>3, <2>5, SinceIsHeld
  <2>12. SumOf(rn, rows) = SumOf(ns, types) /\ SumOf(ra, rows) = SumOf(as, types)
    BY <2>2, <2>9, <2>10, <2>11, TotalSame, ZenonT(60)
  <2> QED
    BY <2>1, <2>7, <2>8, <2>12, Zenon DEF types
<1> QED
  BY <1>2, <1>3, Zenon

\* The third table of formSummary and its footnote say of all occurrences since
\* counting began what there is to say, however many message types there are.
THEOREM SummaryIsRight == ASSUME IsFiniteSet(Xids) PROVE Spec => []SummaryTells
<1>1. IInv => SummaryTells
  BY TellsRight
<1> QED
  BY <1>1, Invariant, PTL
===============================================================================
