----------------------------- MODULE ELdestination -----------------------------
(***************************************************************************)
(* The state of one destination and what each of its operations makes of   *)
(* it, as operators on a record d whose fields are the members of class    *)
(* ELdestination.  ELstatistics is the kind "statistics": it inherits the  *)
(* state and overrides log() and summary() so that no payload is routed.   *)
(*                                                                         *)
(* A message is its type here (see ELextendedID), and a context: the       *)
(* digits of the run and event that it names, none if it does not, and the *)
(* rest of its text.  Texts are sequences of characters.                   *)
(***************************************************************************)
EXTENDS XidLimiter, ELextendedID, FiniteSetsExt, Sequences

CONSTANT ContextWidth   \* characters of a context that statistics keep (16 in the code)

ASSUME ContextWidthAssumption == ContextWidth \in Nat

EmptyMap == <<>>

\* The empty context, which messages outside of events may have.
NoContext == [run |-> <<>>, event |-> <<>>, rest |-> <<>>]

\* "Run: 1 Event: 2" becomes "1/2", and what follows it is left out.
SummarizeContext(c) == IF c.run = <<>> THEN c.rest ELSE c.run \o <<"/">> \o c.event

\* The key of a map to which k leads: the one that operator< takes for k.
KeyOf(m, k) ==
    IF \E x \in DOMAIN m : Equivalent(x, k)
    THEN CHOOSE x \in DOMAIN m : Equivalent(x, k) ELSE k

\* std::map: m[k] = v.
Put(m, k, v) ==
    [x \in DOMAIN m \cup {KeyOf(m, k)} |-> IF x = KeyOf(m, k) THEN v ELSE m[x]]

\* What operator[] of a map finds or default-constructs.
Get(m, k, default) == IF KeyOf(m, k) \in DOMAIN m THEN m[KeyOf(m, k)] ELSE default

(***************************************************************************)
(* Construction from a destination's configuration.                        *)
(***************************************************************************)
\* What validation makes sure of.
WrittenCategory == [limit : {Absent} \cup Int, reportEvery : {Absent} \cup Int,
                    timespan : {Absent} \cup Int]
Levels == ELsev_zeroSeverity .. ELsev_highestSeverity
IsConfiguration(cfg) ==
    /\ cfg.kind \in {"ordinary", "statistics"} /\ cfg.threshold \in Levels
    /\ cfg.default \in WrittenCategory
    /\ DOMAIN cfg.categories \subseteq Strings
    /\ \A c \in DOMAIN cfg.categories : cfg.categories[c] \in WrittenCategory
    /\ {cfg.outputStatistics, cfg.reset, cfg.resetStatistics} \subseteq BOOLEAN

\* The constructor throws when categories do not validate, however many.
Constructs(cfg) == cfg.misconfigured = {}

Construct(cfg) ==
    LET inherited == Configured(cfg.default, NoSettings)
    IN  [kind             |-> cfg.kind,
         threshold        |-> cfg.threshold,
         default          |-> CategoryParams(inherited),
         categoryParams   |-> [c \in DOMAIN cfg.categories |->
                                 CategoryParams(Configured(cfg.categories[c], inherited))],
         outputStatistics |-> cfg.outputStatistics,
         reset            |-> cfg.reset \/ cfg.resetStatistics,
         updatedStats     |-> FALSE,
         xidLimiters      |-> EmptyMap,
         statsMap         |-> EmptyMap]

(***************************************************************************)
(* Statistics of one message type.                                         *)
(***************************************************************************)
NewStats == [n |-> 0, aggregateN |-> 0, ignoredFlag |-> FALSE,
             context1 |-> <<>>, context2 |-> <<>>, contextLast |-> <<>>]

\* string(context, 0, 16).
Cut(context) ==
    SubSeq(context, 1, IF Len(context) > ContextWidth THEN ContextWidth ELSE Len(context))

\* Slips: the slot is chosen before n is counted up, or the flag remembers
\* the last occurrence only.
SlipAddSlot(s, context, reactedTo) ==
    LET slot == IF s.n = 1 THEN "context1" ELSE IF s.n = 2 THEN "context2" ELSE "contextLast"
    IN  [s EXCEPT !.n = IF reactedTo THEN @ + 1 ELSE @,
                  !.aggregateN = @ + 1,
                  ![slot] = Cut(context),
                  !.ignoredFlag = @ \/ ~reactedTo]
SlipAddFlag(s, context, reactedTo) ==
    [s EXCEPT !.n = IF reactedTo THEN @ + 1 ELSE @,
              !.aggregateN = @ + 1,
              !.contextLast = Cut(context),
              !.ignoredFlag = ~reactedTo]

\* StatsCount::add: the context, cut, lands in the slot the count n points at.
Add(s, context, reactedTo) ==
    LET n    == s.n + (IF reactedTo THEN 1 ELSE 0)
        slot == IF n = 1 THEN "context1" ELSE IF n = 2 THEN "context2" ELSE "contextLast"
    IN  [s EXCEPT !.n = n,
                  !.aggregateN = @ + 1,
                  ![slot] = Cut(context),
                  !.ignoredFlag = @ \/ ~reactedTo]

\* A slip: an ignored message does not count as an update.
SlipRecorded(d, xid, context, reactedTo) ==
    IF d.outputStatistics
    THEN [d EXCEPT
            !.statsMap = Put(@, xid, Add(Get(@, xid, NewStats), SummarizeContext(context), reactedTo)),
            !.updatedStats = @ \/ reactedTo]
    ELSE d

Recorded(d, xid, context, reactedTo) ==
    IF d.outputStatistics
    THEN [d EXCEPT
            !.statsMap = Put(@, xid, Add(Get(@, xid, NewStats), SummarizeContext(context), reactedTo)),
            !.updatedStats = TRUE]
    ELSE d

(***************************************************************************)
(* log().                                                                  *)
(***************************************************************************)
BelowThreshold(d, xid) == xid.severity < d.threshold

ParamsOf(d, xid) ==
    IF xid.id \in DOMAIN d.categoryParams
    THEN Effective(d.categoryParams[xid.id], d.default)
    ELSE d.default

\* The limiter of the message once it has counted an occurrence.
CountedLimiter(d, xid, now) ==
    Count(Get(d.xidLimiters, xid, NewLimiter(ParamsOf(d, xid), now)), now)

\* skipMsg's answer is no: the message is to be reacted to.
PassesLimiter(d, xid, now) == Accepts(CountedLimiter(d, xid, now))

\* skipMsg's effect, whatever the answer.
SkippedOrNot(d, xid, now) ==
    [d EXCEPT !.xidLimiters = Put(@, xid, Decide(CountedLimiter(d, xid, now)))]

\* The destination reacts to the message.
ReactsTo(d, xid, now) == ~BelowThreshold(d, xid) /\ PassesLimiter(d, xid, now)

\* The state after log() returns.
Log(d, xid, context, now) ==
    IF BelowThreshold(d, xid)
    THEN Recorded(d, xid, context, FALSE)
    ELSE Recorded(SkippedOrNot(d, xid, now), xid, context, PassesLimiter(d, xid, now))

\* The state after log() left by an exception of routePayload: the limiter
\* has moved on, the statistics have not.  ELstatistics routes nothing.
CanThrow(d, xid, now) == d.kind = "ordinary" /\ ReactsTo(d, xid, now)
LogThrew(d, xid, now) == SkippedOrNot(d, xid, now)

(***************************************************************************)
(* summary().                                                              *)
(***************************************************************************)
PrintsSummary(d) == d.outputStatistics /\ d.updatedStats

\* A slip: the severity table counts message types.
SlipSeverities(rows) ==
    [level \in ELsev_success .. ELsev_severe |->
       [n          |-> MapThenSumSet(LAMBDA x : IF rows[x].n > 0 THEN 1 ELSE 0,
                                     {x \in DOMAIN rows : x.severity = level}),
        aggregateN |-> MapThenSumSet(LAMBDA x : rows[x].aggregateN,
                                     {x \in DOMAIN rows : x.severity = level})]]

\* The third table of a summary: the sums of the first by severity.
SeveritiesOf(rows) ==
    [level \in ELsev_success .. ELsev_severe |->
       [n          |-> MapThenSumSet(LAMBDA x : rows[x].n,
                                     {x \in DOMAIN rows : x.severity = level}),
        aggregateN |-> MapThenSumSet(LAMBDA x : rows[x].aggregateN,
                                     {x \in DOMAIN rows : x.severity = level})]]

\* What formSummary prints: a row for each message type, with its counts and
\* example contexts; a footnote if any row has a star; the sums by severity.
FormSummary(d) ==
    [rows       |-> d.statsMap,
     footnote   |-> \E x \in DOMAIN d.statsMap : d.statsMap[x].ignoredFlag,
     severities |-> SeveritiesOf(d.statsMap)]

\* Slips: the counters are reset whether or not that is configured, or the
\* limiters are not reset with them.
SlipResetAlways(d) ==
    [d EXCEPT !.updatedStats = FALSE, !.statsMap = EmptyMap, !.xidLimiters = EmptyMap]
SlipKeepLimiters(d) ==
    [d EXCEPT !.updatedStats = FALSE, !.statsMap = IF d.reset THEN EmptyMap ELSE @]

Summarized(d) ==
    [d EXCEPT !.updatedStats = FALSE,
              !.statsMap     = IF d.reset THEN EmptyMap ELSE @,
              !.xidLimiters  = IF d.reset THEN EmptyMap ELSE @]

SetThreshold(d, level) == [d EXCEPT !.threshold = level]
===============================================================================
