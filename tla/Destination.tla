------------------------------ MODULE Destination ------------------------------
(***************************************************************************)
(* One destination over its life: messages logged to it, summaries asked   *)
(* for by LogStatistics(), thresholds set, the clock passing.  MessageLog- *)
(* ger calls a destination from one thread at a time (its mutex, and the   *)
(* single-threaded contract of LogStatistics), so operations are atomic    *)
(* here; how calls interleave is the subject of MessageLogger.             *)
(***************************************************************************)
EXTENDS ELdestination, Functions

CONSTANTS
    Configs,       \* the configurations considered, see Construct
    Xids,          \* the message types offered
    FlushXid,      \* the message type of flush()
    Contexts,      \* the contexts (iterations) messages carry
    Thresholds,    \* the levels setThreshold is called with
    MaxMsgs,       \* bound: occurrences of one message type
    MaxFailures,   \* bound: exceptions of routePayload
    MaxTime        \* bound: the last second of the clock

ASSUME ConfigsAssumption == \A cfg \in Configs : IsConfiguration(cfg)
ASSUME ThresholdsAssumption == Thresholds \subseteq Levels
ASSUME XidsAssumption == Xids \subseteq Types /\ FlushXid \in Xids
ASSUME ContextsAssumption ==
    Contexts \subseteq [run : Seq(STRING), event : Seq(STRING), rest : Seq(STRING)]
ASSUME BoundsAssumption == /\ MaxMsgs \in Nat /\ MaxFailures \in Nat
                           /\ MaxMsgs + MaxFailures <= IntMax
                           /\ MaxTime \in Nat /\ MaxTime < IntMax

VARIABLES
    d,          \* the destination
    now,        \* the clock
    \* History.
    offered,    \* by message type: log() calls that returned
    logged,     \* by message type: those the destination reacted to
    failed,     \* by message type: log() calls left by an exception
    reported,   \* by message type: the counts readers of the summaries have
    examples    \* by message type: contexts reacted to since counting began

vars == <<d, now, offered, logged, failed, reported, examples>>

Zero == [x \in Xids |-> 0]
Counts(row) == [n |-> row.n, aggregateN |-> row.aggregateN]
NoCounts == [n |-> 0, aggregateN |-> 0]
Plus(a, b) == [n |-> a.n + b.n, aggregateN |-> a.aggregateN + b.aggregateN]

Init ==
    /\ \E cfg \in Configs : d = Construct(cfg)
    /\ now = 0
    /\ offered = Zero
    /\ logged = Zero
    /\ failed = Zero
    /\ reported = [x \in Xids |-> NoCounts]
    /\ examples = [x \in Xids |-> <<>>]

\* log() returns.
LogReturns(x, context) ==
    LET reacts == ReactsTo(d, x, now)
    IN  /\ offered[x] < MaxMsgs
        /\ d' = Log(d, x, context, now)
        /\ offered' = [offered EXCEPT ![x] = @ + 1]
        /\ logged' = [logged EXCEPT ![x] = @ + (IF reacts THEN 1 ELSE 0)]
        /\ examples' = [examples EXCEPT ![x] = IF reacts THEN Append(@, context) ELSE @]
        /\ UNCHANGED <<now, failed, reported>>

\* routePayload throws out of log().
LogThrows(x) ==
    /\ failed[x] < MaxFailures
    /\ CanThrow(d, x, now)
    /\ d' = LogThrew(d, x, now)
    /\ failed' = [failed EXCEPT ![x] = @ + 1]
    /\ UNCHANGED <<now, offered, logged, reported, examples>>

\* flush() of a destination that does not override it logs a warning.
Flush == LogReturns(FlushXid, NoContext)

\* What readers of the summaries know once they have another table.  They add
\* it to what they know when counting starts again after each summary, and
\* replace what they know when it does not.
Learned(table) ==
    [x \in Xids |->
       IF x \notin DOMAIN table THEN reported[x]
       ELSE IF d.reset THEN Plus(reported[x], table[x]) ELSE Counts(table[x])]

\* summary() returns.
SummaryReturns ==
    /\ reported' = IF PrintsSummary(d) THEN Learned(FormSummary(d).rows) ELSE reported
    /\ d' = Summarized(d)
    /\ examples' = IF d.reset THEN [x \in Xids |-> <<>>] ELSE examples
    /\ failed' = IF d.reset THEN Zero ELSE failed
    /\ UNCHANGED <<now, offered, logged>>

\* routePayload throws out of summary(): the state is as before.
SummaryThrows ==
    /\ d.kind = "ordinary" /\ PrintsSummary(d)
    /\ UNCHANGED <<d, now, offered, logged, failed, reported, examples>>

SetsThreshold(level) ==
    /\ d' = SetThreshold(d, level)
    /\ UNCHANGED <<now, offered, logged, failed, reported, examples>>

Tick ==
    /\ now < MaxTime
    /\ now' = now + 1
    /\ UNCHANGED <<d, offered, logged, failed, reported, examples>>

Next ==
    \/ \E x \in Xids, c \in Contexts : LogReturns(x, c)
    \/ \E x \in Xids : LogThrows(x)
    \/ Flush
    \/ SummaryReturns
    \/ SummaryThrows
    \/ \E level \in Thresholds : SetsThreshold(level)
    \/ Tick

Spec == Init /\ [][Next]_vars
--------------------------------------------------------------------------------
(***************************************************************************)
(* Properties.                                                             *)
(***************************************************************************)
ShownContexts == {Cut(SummarizeContext(c)) : c \in Contexts} \cup {<<>>}
StatsType ==
    [n : Nat, aggregateN : Nat, ignoredFlag : BOOLEAN,
     context1 : ShownContexts, context2 : ShownContexts, contextLast : ShownContexts]

TypeOK ==
    /\ now \in 0 .. MaxTime
    /\ DOMAIN d.xidLimiters \subseteq Xids
    /\ \A x \in DOMAIN d.xidLimiters :
          d.xidLimiters[x] \in LimiterType /\ d.xidLimiters[x].msgCount > 0
    /\ DOMAIN d.statsMap \subseteq Xids
    /\ \A x \in DOMAIN d.statsMap :
          /\ d.statsMap[x] \in StatsType
          /\ d.statsMap[x].aggregateN > 0
          /\ d.statsMap[x].ignoredFlag <=> d.statsMap[x].n < d.statsMap[x].aggregateN
    /\ d.updatedStats \in BOOLEAN

CountsOf(x) == IF x \in DOMAIN d.statsMap THEN Counts(d.statsMap[x]) ELSE NoCounts
Offered(x) == [n |-> logged[x], aggregateN |-> offered[x]]

\* Nothing is lost and nothing counted twice over summaries, resets, failed
\* summaries and failed messages: what the printed summaries add up to, plus
\* what the destination still holds, is everything that log() was given.
Conservation ==
    d.outputStatistics =>
      \A x \in Xids :
         Plus(IF d.reset THEN reported[x] ELSE NoCounts, CountsOf(x)) = Offered(x)

\* With nothing new since the last summary, readers of the summaries know the
\* counts of every message type, including those a reset has forgotten.
UpToDate ==
    d.outputStatistics /\ ~d.updatedStats =>
      \A x \in Xids : reported[x] = Offered(x)

\* The occurrences since counting last began.
Since(x) == IF d.reset THEN [n          |-> Offered(x).n - reported[x].n,
                             aggregateN |-> Offered(x).aggregateN - reported[x].aggregateN]
            ELSE Offered(x)

\* What a summary says besides the rows is right as well: for each severity it
\* gives all occurrences since counting began, and it has the footnote about
\* suppressed occurrences if and only if there were some since.
SummaryTells ==
    d.outputStatistics =>
      LET s == FormSummary(d)
      IN  /\ s.footnote <=> \E x \in Xids : Since(x).n < Since(x).aggregateN
          /\ \A level \in ELsev_success .. ELsev_severe :
               LET types == {x \in Xids : x.severity = level}
               IN  s.severities[level] =
                     [n          |-> MapThenSumSet(LAMBDA x : Since(x).n, types),
                      aggregateN |-> MapThenSumSet(LAMBDA x : Since(x).aggregateN, types)]

\* A summary shows run and event of a context, or a context that names no event
\* as it is: all of it if it fits the column, else what fits.
Names(shown, c) ==
    LET whole == IF c.run = <<>> THEN c.rest ELSE c.run \o <<"/">> \o c.event
    IN  /\ Len(shown) <= ContextWidth /\ Len(shown) <= Len(whole)
        /\ \A k \in 1 .. Len(shown) : shown[k] = whole[k]
        /\ Len(shown) < Len(whole) => Len(shown) = ContextWidth

\* The example columns of the summary name the events of the first, the second
\* and, from the third on, the most recent logged occurrence, each as far as
\* the column shows it - for message types of which no occurrence was ignored.
ExampleContexts ==
    \A x \in DOMAIN FormSummary(d).rows :
      LET s == FormSummary(d).rows[x]
          e == examples[x]
      IN  ~s.ignoredFlag =>
            /\ Names(s.context1, e[1])
            /\ Names(s.context2, IF Len(e) > 1 THEN e[2] ELSE NoContext)
            /\ Names(s.contextLast, IF Len(e) > 2 THEN e[Len(e)] ELSE NoContext)

\* Message types that differ in any of severity, category, module and subroutine
\* never share a row of the summary, however the maps' operator< leads to it:
\* the types with rows are just those that occurred since counting began, and
\* operator< sorts whatever is in the maps.
RowsSorted ==
    /\ Sorts(DOMAIN d.statsMap \cup DOMAIN d.xidLimiters)
    /\ d.outputStatistics => DOMAIN d.statsMap = {x \in Xids : Since(x).aggregateN > 0}

\* Limiters and statistics live and die together: a type that was logged has
\* a limiter, and a limiter without statistics is left by a failed message.
LimitersFollowStatistics ==
    d.outputStatistics =>
      /\ \A x \in DOMAIN d.statsMap : d.statsMap[x].n > 0 => x \in DOMAIN d.xidLimiters
      /\ \A x \in DOMAIN d.xidLimiters : x \in DOMAIN d.statsMap \/ failed[x] > 0
===============================================================================
