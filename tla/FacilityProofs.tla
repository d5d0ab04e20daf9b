----------------------------- MODULE FacilityProofs -----------------------------
(***************************************************************************)
(* What the loops over the destinations do to each of them, whichever      *)
(* destinations there are and wherever an exception ends a loop.           *)
(***************************************************************************)
EXTENDS Facility, FoldProofs, TLAPS

(***************************************************************************)
(* The operators of ELdestination, as Dest(i) has them, are those of       *)
(* Facility.                                                               *)
(***************************************************************************)
\* The assumptions of Destination hold of the instance.
LEMMA InstanceAssumptions ==
    ASSUME NEW i \in Ids
    PROVE  /\ \A cfg \in Setups[i] : IsConfiguration(cfg)
           /\ {} \subseteq Levels
           /\ Xids \subseteq Types /\ (CHOOSE x \in Xids : TRUE) \in Xids
           /\ MaxMsgs \in Nat /\ MaxMsgs + MaxMsgs <= IntMax /\ 0 < IntMax
<1>1. MaxMsgs \in Nat /\ MaxMsgs + MaxMsgs <= IntMax /\ 0 < IntMax
  BY BoundsAssumption, IntMaxAssumption
<1> QED
  BY <1>1, SetupsAssumption, TypesAssumption, Zenon

\* A destination is constructed alike.
LEMMA SameConstruct ==
    ASSUME NEW i \in Ids, NEW cfg
    PROVE  Dest(i)!Construct(cfg) = Construct(cfg)
BY Zenon
   DEF Dest!Construct, Dest!Configured, Dest!NoSettings, Dest!Given, Dest!CategoryParams,
       Dest!OrIntMax, Dest!EmptyMap,
       Construct, Configured, NoSettings, Given, CategoryParams, OrIntMax, EmptyMap

\* log() is alike.
LEMMA SameLog ==
    ASSUME NEW i \in Ids, NEW e, NEW x, NEW c, NEW t
    PROVE  /\ Dest(i)!Log(e, x, c, t) = Log(e, x, c, t)
           /\ Dest(i)!LogThrew(e, x, t) = LogThrew(e, x, t)
           /\ Dest(i)!ReactsTo(e, x, t) = ReactsTo(e, x, t)
           /\ Dest(i)!CanThrow(e, x, t) = CanThrow(e, x, t)
<1>1. \A p : Dest(i)!NewLimiter(p, t) = NewLimiter(p, t)
  BY Zenon DEF Dest!NewLimiter, NewLimiter
<1>2. \A l : Dest(i)!Count(l, t) = Count(l, t)
  BY Zenon DEF Dest!Count, Dest!Expired, Dest!RestartSkipped, Count, Expired, RestartSkipped
<1>3. \A l : Dest(i)!Accepts(l) = Accepts(l)
  BY Zenon DEF Dest!Accepts, Dest!OnFallOff, Dest!HalvesToOne, Accepts, OnFallOff, HalvesToOne
<1>4. \A l : Dest(i)!Decide(l) = Decide(l)
  BY <1>3, Zenon DEF Dest!Decide, Decide
<1>5. Dest(i)!ParamsOf(e, x) = ParamsOf(e, x)
  BY Zenon DEF Dest!ParamsOf, Dest!Effective, Dest!OrDefault, ParamsOf, Effective, OrDefault
<1>6. \A m, k, v : Dest(i)!Get(m, k, v) = Get(m, k, v) /\ Dest(i)!Put(m, k, v) = Put(m, k, v)
  <2>1. \A a, b : Dest(i)!Equivalent(a, b) = Equivalent(a, b)
    BY Zenon DEF Dest!Equivalent, Dest!Less, Equivalent, Less
  <2>2. \A m, k : Dest(i)!KeyOf(m, k) = KeyOf(m, k)
    BY <2>1, Zenon DEF Dest!KeyOf, KeyOf
  <2> QED
    BY <2>2, Zenon DEF Dest!Get, Get, Dest!Put, Put
<1>7. Dest(i)!CountedLimiter(e, x, t) = CountedLimiter(e, x, t)
  BY <1>1, <1>2, <1>5, <1>6, Zenon DEF Dest!CountedLimiter, CountedLimiter
<1>8. Dest(i)!PassesLimiter(e, x, t) = PassesLimiter(e, x, t)
  BY <1>3, <1>7, Zenon DEF Dest!PassesLimiter, PassesLimiter
<1>9. Dest(i)!SkippedOrNot(e, x, t) = SkippedOrNot(e, x, t)
  BY <1>4, <1>6, <1>7, Zenon DEF Dest!SkippedOrNot, SkippedOrNot
<1>10. Dest(i)!BelowThreshold(e, x) = BelowThreshold(e, x)
  BY Zenon DEF Dest!BelowThreshold, BelowThreshold
<1>11. \A f, r : Dest(i)!Recorded(f, x, c, r) = Recorded(f, x, c, r)
  <2>1. \A stats, text, r : Dest(i)!Add(stats, text, r) = Add(stats, text, r)
    BY Zenon DEF Dest!Add, Dest!Cut, Add, Cut
  <2>2. Dest(i)!NewStats = NewStats /\ Dest(i)!SummarizeContext(c) = SummarizeContext(c)
    BY Zenon DEF Dest!NewStats, NewStats, Dest!SummarizeContext, SummarizeContext
  <2>3. ASSUME NEW f, NEW r
        PROVE  Dest(i)!Put(f.statsMap, x, Dest(i)!Add(Dest(i)!Get(f.statsMap, x, Dest(i)!NewStats),
                                            Dest(i)!SummarizeContext(c), r))
                 = Put(f.statsMap, x, Add(Get(f.statsMap, x, NewStats), SummarizeContext(c), r))
    <3>1. Dest(i)!Get(f.statsMap, x, Dest(i)!NewStats) = Get(f.statsMap, x, NewStats)
      BY <1>6, <2>2, Zenon
    <3>2. Dest(i)!Add(Dest(i)!Get(f.statsMap, x, Dest(i)!NewStats), Dest(i)!SummarizeContext(c), r)
            = Add(Get(f.statsMap, x, NewStats), SummarizeContext(c), r)
      BY <2>1, <2>2, <3>1, Zenon
    <3> QED
      BY <1>6, <3>2, Zenon
  <2> QED
    BY <2>3, Zenon DEF Dest!Recorded, Recorded
<1>12. Dest(i)!Log(e, x, c, t) = Log(e, x, c, t)
  BY <1>8, <1>9, <1>10, <1>11, Zenon DEF Dest!Log, Log
<1>13. Dest(i)!LogThrew(e, x, t) = LogThrew(e, x, t)
  BY <1>9, Zenon DEF Dest!LogThrew, LogThrew
<1>14. Dest(i)!ReactsTo(e, x, t) = ReactsTo(e, x, t)
  BY <1>8, <1>10, Zenon DEF Dest!ReactsTo, ReactsTo
<1>15. Dest(i)!CanThrow(e, x, t) = CanThrow(e, x, t)
  BY <1>14, Zenon DEF Dest!CanThrow, CanThrow
<1> QED
  BY <1>12, <1>13, <1>14, <1>15, Zenon

\* summary() is alike.
LEMMA SameSummary ==
    ASSUME NEW i \in Ids, NEW e
    PROVE  /\ Dest(i)!Summarized(e) = Summarized(e)
           /\ Dest(i)!PrintsSummary(e) <=> PrintsSummary(e)
           /\ Dest(i)!FormSummary(e).rows = e.statsMap /\ FormSummary(e).rows = e.statsMap
<1>1. Dest(i)!Summarized(e) = Summarized(e)
  BY Zenon DEF Dest!Summarized, Summarized, Dest!EmptyMap, EmptyMap
<1>2. Dest(i)!PrintsSummary(e) <=> PrintsSummary(e)
  BY Zenon DEF Dest!PrintsSummary, PrintsSummary
<1>3. Dest(i)!FormSummary(e).rows = e.statsMap
  BY DEF Dest!FormSummary
<1>4. FormSummary(e).rows = e.statsMap
  BY DEF FormSummary
<1> QED
  BY <1>1, <1>2, <1>3, <1>4, Zenon

--------------------------------------------------------------------------------
(***************************************************************************)
(* The counts of each destination are bounded by what was sent.            *)
(***************************************************************************)
CountsInv ==
    /\ destinations \subseteq Ids
    /\ sent \in [Xids -> Nat]
    /\ offered \in [Ids -> [Xids -> Nat]] /\ logged \in [Ids -> [Xids -> Nat]]
    /\ failed \in [Ids -> [Xids -> Nat]]
    /\ \A i \in Ids : /\ reported[i] = [x \in Xids |-> reported[i][x]]
                      /\ examples[i] = [x \in Xids |-> examples[i][x]]
    /\ \A i \in Ids, x \in Xids : offered[i][x] <= sent[x] /\ failed[i][x] <= sent[x]

\* Nothing was sent yet.
LEMMA InitCounts == Init => CountsInv
<1> SUFFICES ASSUME Init PROVE CountsInv
  OBVIOUS
<1>1. /\ destinations = {} /\ sent = None
      /\ offered = [i \in Ids |-> None] /\ logged = [i \in Ids |-> None]
      /\ failed = [i \in Ids |-> None]
      /\ reported = [i \in Ids |-> [x \in Xids |-> [n |-> 0, aggregateN |-> 0]]]
      /\ examples = [i \in Ids |-> [x \in Xids |-> <<>>]]
  BY DEF Init
<1>2. None \in [Xids -> Nat] /\ \A x \in Xids : None[x] = 0
  BY DEF None
<1> QED
  BY <1>1, <1>2 DEF CountsInv

\* What is reached by a loop, and what throws, are destinations there are.
LEMMA ReachedThere ==
    ASSUME CountsInv, NEW stop \in Stops
    PROVE  /\ Reached(stop) \subseteq Ids /\ stop \subseteq Ids
           /\ \A i \in stop : i \notin Reached(stop)
<1>1. stop \subseteq destinations /\ destinations \subseteq Ids /\ Ids \subseteq Nat
  BY IdsAssumption DEF Stops, CountsInv
<1>2. \A i \in Ids : ~(i < i)
  BY <1>1
<1> QED
  BY <1>1, <1>2 DEF Reached

\* A message adds one to what was sent, and at most one to any other count.
LEMMA MessageCounts ==
    ASSUME CountsInv, NEW x \in Xids, NEW c \in Contexts, NEW stop \in Stops,
           LogMessage(x, c, stop)
    PROVE  CountsInv'
<1> DEFINE reached == Reached(stop)
           reacts == {i \in reached : ReactsTo(d[i], x, 0)}
<1>1. /\ sent' = [sent EXCEPT ![x] = @ + 1]
      /\ offered' = [i \in Ids |-> IF i \in reached THEN [offered[i] EXCEPT ![x] = @ + 1]
                                                    ELSE offered[i]]
      /\ logged' = [i \in Ids |-> IF i \in reacts THEN [logged[i] EXCEPT ![x] = @ + 1]
                                                  ELSE logged[i]]
      /\ examples' = [i \in Ids |-> IF i \in reacts
                                    THEN [examples[i] EXCEPT ![x] = Append(@, c)]
                                    ELSE examples[i]]
      /\ failed' = [i \in Ids |-> IF i \in stop THEN [failed[i] EXCEPT ![x] = @ + 1]
                                                ELSE failed[i]]
      /\ destinations' = destinations /\ reported' = reported
  BY DEF LogMessage
<1> HIDE DEF reached, reacts
<1>2. /\ destinations \subseteq Ids
      /\ sent \in [Xids -> Nat]
      /\ offered \in [Ids -> [Xids -> Nat]] /\ logged \in [Ids -> [Xids -> Nat]]
      /\ failed \in [Ids -> [Xids -> Nat]]
      /\ \A i \in Ids : /\ reported[i] = [y \in Xids |-> reported[i][y]]
                        /\ examples[i] = [y \in Xids |-> examples[i][y]]
      /\ \A i \in Ids, y \in Xids : offered[i][y] <= sent[y] /\ failed[i][y] <= sent[y]
  BY DEF CountsInv
<1>3. sent' \in [Xids -> Nat] /\ \A y \in Xids : sent'[y] = sent[y] + (IF y = x THEN 1 ELSE 0)
  BY <1>1, <1>2
<1>4. ASSUME NEW f \in [Ids -> [Xids -> Nat]], NEW S,
             NEW g, g = [i \in Ids |-> IF i \in S THEN [f[i] EXCEPT ![x] = @ + 1] ELSE f[i]]
      PROVE  /\ g \in [Ids -> [Xids -> Nat]]
             /\ \A i \in Ids, y \in Xids : g[i][y] = f[i][y] \/ (y = x /\ g[i][y] = f[i][y] + 1)
  <2>1. ASSUME NEW i \in Ids
        PROVE  /\ g[i] \in [Xids -> Nat]
               /\ \A y \in Xids : g[i][y] = f[i][y] \/ (y = x /\ g[i][y] = f[i][y] + 1)
    <3>1. f[i] \in [Xids -> Nat]
      BY <1>4
    <3>2. CASE i \in S
      BY <1>4, <3>1, <3>2
    <3>3. CASE i \notin S
      BY <1>4, <3>1, <3>3
    <3> QED
      BY <3>2, <3>3
  <2> QED
    BY <1>4, <2>1
<1>5. /\ offered' \in [Ids -> [Xids -> Nat]]
      /\ \A i \in Ids, y \in Xids :
            offered'[i][y] = offered[i][y] \/ (y = x /\ offered'[i][y] = offered[i][y] + 1)
  BY <1>1, <1>2, <1>4
<1>6. /\ failed' \in [Ids -> [Xids -> Nat]]
      /\ \A i \in Ids, y \in Xids :
            failed'[i][y] = failed[i][y] \/ (y = x /\ failed'[i][y] = failed[i][y] + 1)
  BY <1>1, <1>2, <1>4
<1>7. logged' \in [Ids -> [Xids -> Nat]]
  <2>1. PICK g : g = logged'
    OBVIOUS
  <2>2. g = [i \in Ids |-> IF i \in reacts THEN [logged[i] EXCEPT ![x] = @ + 1]
                           ELSE logged[i]]
    BY <1>1, <2>1
  <2>3. g \in [Ids -> [Xids -> Nat]]
    BY <1>2, <1>4, <2>2
  <2> QED
    BY <2>1, <2>3
<1>8. ASSUME NEW i \in Ids, NEW y \in Xids
      PROVE  offered'[i][y] <= sent'[y] /\ failed'[i][y] <= sent'[y]
  <2>1. /\ offered[i][y] \in Nat /\ failed[i][y] \in Nat /\ sent[y] \in Nat
        /\ offered[i][y] <= sent[y] /\ failed[i][y] <= sent[y]
    BY <1>2
  <2>2. sent'[y] = sent[y] + (IF y = x THEN 1 ELSE 0)
    BY <1>3
  <2>3. /\ offered'[i][y] = offered[i][y] \/ (y = x /\ offered'[i][y] = offered[i][y] + 1)
        /\ failed'[i][y] = failed[i][y] \/ (y = x /\ failed'[i][y] = failed[i][y] + 1)
    BY <1>5, <1>6
  <2> QED
    BY <2>1, <2>2, <2>3
<1>9. ASSUME NEW i \in Ids
      PROVE  /\ reported'[i] = [y \in Xids |-> reported'[i][y]]
             /\ examples'[i] = [y \in Xids |-> examples'[i][y]]
  <2>1. reported'[i] = [y \in Xids |-> reported'[i][y]]
    BY <1>1, <1>2
  <2>2. examples[i] = [y \in Xids |-> examples[i][y]]
    BY <1>2
  <2>3. DOMAIN [examples[i] EXCEPT ![x] = Append(@, c)] = Xids
    BY <2>2
  <2>4. [examples[i] EXCEPT ![x] = Append(@, c)]
          = [y \in Xids |-> [examples[i] EXCEPT ![x] = Append(@, c)][y]]
    BY <2>2, <2>3
  <2>5. \/ examples'[i] = [examples[i] EXCEPT ![x] = Append(@, c)]
        \/ examples'[i] = examples[i]
    BY <1>1
  <2>6. examples'[i] = [y \in Xids |-> examples'[i][y]]
    BY <2>2, <2>4, <2>5, Zenon
  <2> QED
    BY <2>1, <2>6
<1> QED
  BY <1>1, <1>2, <1>3, <1>5, <1>6, <1>7, <1>8, <1>9 DEF CountsInv

\* Summaries send nothing, and only forget failures.
LEMMA SummaryCounts ==
    ASSUME CountsInv, NEW stop \in Stops, LogStatistics(stop)
    PROVE  CountsInv'
<1> DEFINE again == {i \in Reached(stop) : d[i].reset}
<1>1. /\ reported' = [i \in Ids |-> IF i \in Reached(stop) THEN Learned(i) ELSE reported[i]]
      /\ examples' = [i \in Ids |-> IF i \in again THEN [x \in Xids |-> <<>>] ELSE examples[i]]
      /\ failed' = [i \in Ids |-> IF i \in again THEN None ELSE failed[i]]
      /\ destinations' = destinations /\ sent' = sent /\ offered' = offered /\ logged' = logged
  BY DEF LogStatistics
<1> HIDE DEF again
<1>2. None \in [Xids -> Nat] /\ \A x \in Xids : None[x] = 0
  BY DEF None
<1>3. failed' \in [Ids -> [Xids -> Nat]] /\ \A i \in Ids : failed'[i] \in {None, failed[i]}
  BY <1>1, <1>2 DEF CountsInv
<1>4. ASSUME NEW i \in Ids, NEW x \in Xids PROVE failed'[i][x] <= sent[x]
  <2>1. sent[x] \in Nat /\ failed[i][x] <= sent[x]
    BY DEF CountsInv
  <2>2. failed'[i][x] = 0 \/ failed'[i][x] = failed[i][x]
    BY <1>2, <1>3
  <2> QED
    BY <2>1, <2>2
<1>5. ASSUME NEW i \in Ids
      PROVE  /\ reported'[i] = [x \in Xids |-> reported'[i][x]]
             /\ examples'[i] = [x \in Xids |-> examples'[i][x]]
  <2>1. /\ reported[i] = [x \in Xids |-> reported[i][x]]
        /\ examples[i] = [x \in Xids |-> examples[i][x]]
    BY DEF CountsInv
  <2>2. Learned(i) = [x \in Xids |-> Learned(i)[x]]
    BY DEF Learned
  <2>3. reported'[i] = [x \in Xids |-> reported'[i][x]]
    BY <1>1, <2>1, <2>2
  <2>4. examples'[i] = [x \in Xids |-> examples'[i][x]]
    <3>1. CASE i \in again
      BY <1>1, <3>1
    <3>2. CASE i \notin again
      BY <1>1, <2>1, <3>2
    <3> QED
      BY <3>1, <3>2
  <2> QED
    BY <2>3, <2>4
<1> QED
  BY <1>1, <1>3, <1>4, <1>5 DEF CountsInv

\* A Start adds destinations of the configuration; Start and End count nothing.
LEMMA NextCounts == ASSUME CountsInv, [Next]_vars PROVE CountsInv'
<1>1. CASE \E new \in SUBSET Ids : StartMessageFacility(new)
  <2> PICK new \in SUBSET Ids : StartMessageFacility(new)
    BY <1>1
  <2>1. /\ destinations' = destinations \cup Made(new)
        /\ UNCHANGED <<sent, offered, logged, failed, reported, examples>>
    BY DEF StartMessageFacility
  <2>2. Made(new) \subseteq Ids
    BY DEF Made, Makes, AllMade, Ordinary
  <2> QED
    BY <2>1, <2>2 DEF CountsInv
<1>2. CASE EndMessageFacility \/ UNCHANGED vars
  BY <1>2 DEF EndMessageFacility, vars, CountsInv
<1>3. CASE \E x \in Xids, c \in Contexts, stop \in Stops : LogMessage(x, c, stop)
  BY <1>3, MessageCounts
<1>4. CASE \E stop \in Stops : LogStatistics(stop)
  BY <1>4, SummaryCounts
<1> QED
  BY <1>1, <1>2, <1>3, <1>4 DEF Next

LEMMA Counts == Spec => []CountsInv
BY InitCounts, NextCounts, PTL DEF Spec

--------------------------------------------------------------------------------
(***************************************************************************)
(* Each destination takes a step of Destination, or none.                  *)
(***************************************************************************)
\* One destination is not touched.
LEMMA Untouched ==
    ASSUME NEW i \in Ids,
           d'[i] = d[i], offered'[i] = offered[i], logged'[i] = logged[i],
           failed'[i] = failed[i], reported'[i] = reported[i], examples'[i] = examples[i]
    PROVE  UNCHANGED Dest(i)!vars
BY DEF Dest!vars

\* A message that the loop of sendMsgToDests comes to and gets past.
LEMMA ReachedLogs ==
    ASSUME CountsInv, NEW x \in Xids, NEW c \in Contexts, NEW stop \in Stops,
           LogMessage(x, c, stop), NEW i \in Reached(stop)
    PROVE  Dest(i)!LogReturns(x, c)
<1> DEFINE r == ReactsTo(d[i], x, 0)
<1>1. i \in Ids /\ i \notin stop
  BY ReachedThere
<1>2. /\ sent[x] < MaxMsgs
      /\ d'[i] = Log(d[i], x, c, 0)
      /\ offered'[i] = [offered[i] EXCEPT ![x] = @ + 1]
      /\ failed'[i] = failed[i] /\ reported'[i] = reported[i]
      /\ logged'[i] = IF r THEN [logged[i] EXCEPT ![x] = @ + 1] ELSE logged[i]
      /\ examples'[i] = IF r THEN [examples[i] EXCEPT ![x] = Append(@, c)] ELSE examples[i]
  BY <1>1 DEF LogMessage
<1>3. offered[i][x] < MaxMsgs
  <2>1. offered[i][x] \in Nat /\ sent[x] \in Nat /\ offered[i][x] <= sent[x]
    BY <1>1 DEF CountsInv
  <2> QED
    BY <1>2, <2>1, BoundsAssumption
<1>4. Dest(i)!Log(d[i], x, c, 0) = Log(d[i], x, c, 0) /\ Dest(i)!ReactsTo(d[i], x, 0) = r
  BY <1>1, SameLog
<1> HIDE DEF r
<1>5. logged'[i] = [logged[i] EXCEPT ![x] = @ + (IF r THEN 1 ELSE 0)]
  <2>1. logged[i] \in [Xids -> Nat]
    BY <1>1 DEF CountsInv
  <2>2. CASE r
    BY <1>2, <2>2
  <2>3. CASE ~r
    BY <1>2, <2>1, <2>3
  <2> QED
    BY <2>2, <2>3
<1>6. examples'[i] = [examples[i] EXCEPT ![x] = IF r THEN Append(@, c) ELSE @]
  <2>1. examples[i] = [y \in Xids |-> examples[i][y]]
    BY <1>1 DEF CountsInv
  <2>2. CASE r
    BY <1>2, <2>2
  <2>3. CASE ~r
    <3>1. PICK f : f = examples[i]
      OBVIOUS
    <3>2. [f EXCEPT ![x] = f[x]] = f
      BY <2>1, <3>1
    <3> QED
      BY <1>2, <2>3, <3>1, <3>2
  <2> QED
    BY <2>2, <2>3
<1> QED
  BY <1>2, <1>3, <1>4, <1>5, <1>6 DEF Dest!LogReturns

\* The message that a destination throws at.
LEMMA StopThrows ==
    ASSUME CountsInv, NEW x \in Xids, NEW c \in Contexts, NEW stop \in Stops,
           LogMessage(x, c, stop), NEW i \in stop
    PROVE  Dest(i)!LogThrows(x)
<1>1. i \in Ids /\ i \notin Reached(stop)
  BY ReachedThere
<1>2. /\ sent[x] < MaxMsgs /\ CanThrow(d[i], x, 0)
      /\ d'[i] = LogThrew(d[i], x, 0)
      /\ failed'[i] = [failed[i] EXCEPT ![x] = @ + 1]
      /\ offered'[i] = offered[i] /\ logged'[i] = logged[i]
      /\ reported'[i] = reported[i] /\ examples'[i] = examples[i]
  BY <1>1 DEF LogMessage
<1>3. failed[i][x] < MaxMsgs
  <2>1. failed[i][x] \in Nat /\ sent[x] \in Nat /\ failed[i][x] <= sent[x]
    BY <1>1 DEF CountsInv
  <2> QED
    BY <1>2, <2>1, BoundsAssumption
<1>4. /\ Dest(i)!LogThrew(d[i], x, 0) = LogThrew(d[i], x, 0)
      /\ Dest(i)!CanThrow(d[i], x, 0) = CanThrow(d[i], x, 0)
  BY <1>1, SameLog
<1> QED
  BY <1>2, <1>3, <1>4 DEF Dest!LogThrows

\* A summary that returns.
LEMMA ReachedSummarizes ==
    ASSUME CountsInv, NEW stop \in Stops, LogStatistics(stop), NEW i \in Reached(stop)
    PROVE  Dest(i)!SummaryReturns
<1>1. i \in Ids
  BY ReachedThere
<1>2. /\ d'[i] = Summarized(d[i])
      /\ reported'[i] = Learned(i)
      /\ examples'[i] = IF d[i].reset THEN [x \in Xids |-> <<>>] ELSE examples[i]
      /\ failed'[i] = IF d[i].reset THEN None ELSE failed[i]
      /\ offered'[i] = offered[i] /\ logged'[i] = logged[i]
  BY <1>1 DEF LogStatistics, Summaries
<1>3. /\ Dest(i)!Summarized(d[i]) = Summarized(d[i])
      /\ Dest(i)!PrintsSummary(d[i]) <=> PrintsSummary(d[i])
      /\ Dest(i)!FormSummary(d[i]).rows = d[i].statsMap
      /\ FormSummary(d[i]).rows = d[i].statsMap
  BY <1>1, SameSummary
<1>4. Dest(i)!Zero = None
  BY DEF Dest!Zero, None
<1>5. reported[i] = [x \in Xids |-> reported[i][x]]
  BY <1>1 DEF CountsInv
<1>6. Learned(i) = IF PrintsSummary(d[i]) THEN Dest(i)!Learned(d[i].statsMap) ELSE reported[i]
  <2>1. CASE PrintsSummary(d[i])
    BY <1>3, <2>1 DEF Learned, Dest!Learned, Dest!Plus, Dest!Counts
  <2>2. CASE ~PrintsSummary(d[i])
    BY <1>5, <2>2 DEF Learned
  <2> QED
    BY <2>1, <2>2
<1> QED
  BY <1>2, <1>3, <1>4, <1>6 DEF Dest!SummaryReturns

\* Each destination is in an initial state of Destination.
LEMMA EachInit == ASSUME Init, NEW i \in Ids PROVE Dest(i)!Init
<1>1. setup[i] \in Setups[i]
  BY DEF Init
<1>2. d[i] = Dest(i)!Construct(setup[i])
  BY SameConstruct DEF Init
<1>3. /\ offered[i] = Dest(i)!Zero /\ logged[i] = Dest(i)!Zero /\ failed[i] = Dest(i)!Zero
      /\ reported[i] = [x \in Xids |-> Dest(i)!NoCounts]
      /\ examples[i] = [x \in Xids |-> <<>>]
  BY DEF Init, Dest!Zero, Dest!NoCounts, None
<1> QED
  BY <1>1, <1>2, <1>3 DEF Dest!Init

\* ... and takes a step of it, or none.
LEMMA EachStep ==
    ASSUME CountsInv, [Next]_vars, NEW i \in Ids
    PROVE  [Dest(i)!Next]_(Dest(i)!vars)
<1>1. CASE \/ \E new \in SUBSET Ids : StartMessageFacility(new)
           \/ EndMessageFacility \/ UNCHANGED vars
  <2>1. UNCHANGED <<d, offered, logged, failed, reported, examples>>
    BY <1>1 DEF StartMessageFacility, EndMessageFacility, vars
  <2> QED
    BY <2>1, Untouched
<1>2. CASE \E x \in Xids, c \in Contexts, stop \in Stops : LogMessage(x, c, stop)
  <2> PICK x \in Xids, c \in Contexts, stop \in Stops : LogMessage(x, c, stop)
    BY <1>2
  <2>1. CASE i \in Reached(stop)
    <3>1. Dest(i)!LogReturns(x, c)
      BY <2>1, ReachedLogs
    <3> QED
      BY <3>1 DEF Dest!Next
  <2>2. CASE i \in stop
    <3>1. Dest(i)!LogThrows(x)
      BY <2>2, StopThrows
    <3> QED
      BY <3>1 DEF Dest!Next
  <2>3. CASE i \notin Reached(stop) /\ i \notin stop
    <3>1. /\ d'[i] = d[i] /\ offered'[i] = offered[i] /\ logged'[i] = logged[i]
          /\ failed'[i] = failed[i] /\ reported'[i] = reported[i] /\ examples'[i] = examples[i]
      BY <2>3 DEF LogMessage
    <3> QED
      BY <3>1, Untouched
  <2> QED
    BY <2>1, <2>2, <2>3
<1>3. CASE \E stop \in Stops : LogStatistics(stop)
  <2> PICK stop \in Stops : LogStatistics(stop)
    BY <1>3
  <2>1. CASE i \in Reached(stop)
    <3>1. Dest(i)!SummaryReturns
      BY <2>1, ReachedSummarizes
    <3> QED
      BY <3>1 DEF Dest!Next
  <2>2. CASE i \notin Reached(stop)
    <3>1. /\ d'[i] = d[i] /\ offered'[i] = offered[i] /\ logged'[i] = logged[i]
          /\ failed'[i] = failed[i] /\ reported'[i] = reported[i] /\ examples'[i] = examples[i]
      BY <2>2 DEF LogStatistics, Summaries
    <3> QED
      BY <3>1, Untouched
  <2> QED
    BY <2>1, <2>2
<1> QED
  BY <1>1, <1>2, <1>3, Zenon DEF Next

\* Whatever the other destinations throw or are asked for, each destination
\* behaves as Destination says: the loops of sendMsgToDests and of
\* LogStatistics never leave one half done.
THEOREM EachIsADestination == Spec => EachDestination
<1>1. Init => \A i \in Ids : Dest(i)!Init
  BY EachInit
<1>2. CountsInv /\ [Next]_vars => [\A i \in Ids : [Dest(i)!Next]_(Dest(i)!vars)]_vars
  BY EachStep
<1> QED
  BY <1>1, <1>2, Counts, PTL DEF Spec, EachDestination

\* The same, as the refinement of one specification by another.
THEOREM DestinationRefined == ASSUME NEW i \in Ids PROVE Spec => Dest(i)!Spec
<1>1. Init => Dest(i)!Init
  BY EachInit
<1>2. CountsInv /\ [Next]_vars => [Dest(i)!Next]_(Dest(i)!vars)
  BY EachStep
<1> QED
  BY <1>1, <1>2, Counts, PTL DEF Spec, Dest!Spec

--------------------------------------------------------------------------------
(***************************************************************************)
(* What holds of one destination by itself holds of each of them, here of  *)
(* any one that is picked: the theorems of DestinationProofs carry over to *)
(* an instance of theirs, if it is one without a parameter.                *)
(***************************************************************************)
CONSTANT Picked   \* an output id, any

Alone == INSTANCE DestinationProofs WITH
    Configs <- Setups[Picked], FlushXid <- CHOOSE x \in Xids : TRUE, Thresholds <- {},
    MaxFailures <- MaxMsgs, MaxTime <- 0, now <- 0, d <- d[Picked],
    offered <- offered[Picked], logged <- logged[Picked], failed <- failed[Picked],
    reported <- reported[Picked], examples <- examples[Picked]

\* The operators of ELdestination, as Alone has them, are those of Facility.
LEMMA AloneLog ==
    ASSUME NEW e, NEW x, NEW c, NEW t
    PROVE  /\ Alone!Log(e, x, c, t) = Log(e, x, c, t)
           /\ Alone!LogThrew(e, x, t) = LogThrew(e, x, t)
           /\ Alone!ReactsTo(e, x, t) = ReactsTo(e, x, t)
           /\ Alone!CanThrow(e, x, t) = CanThrow(e, x, t)
<1>1. \A p : Alone!NewLimiter(p, t) = NewLimiter(p, t)
  BY Zenon DEF Alone!NewLimiter, NewLimiter
<1>2. \A l : Alone!Count(l, t) = Count(l, t)
  BY Zenon DEF Alone!Count, Alone!Expired, Alone!RestartSkipped, Count, Expired, RestartSkipped
<1>3. \A l : Alone!Accepts(l) = Accepts(l)
  BY Zenon DEF Alone!Accepts, Alone!OnFallOff, Alone!HalvesToOne, Accepts, OnFallOff, HalvesToOne
<1>4. \A l : Alone!Decide(l) = Decide(l)
  BY <1>3, Zenon DEF Alone!Decide, Decide
<1>5. Alone!ParamsOf(e, x) = ParamsOf(e, x)
  BY Zenon DEF Alone!ParamsOf, Alone!Effective, Alone!OrDefault, ParamsOf, Effective, OrDefault
<1>6. \A m, k, v : Alone!Get(m, k, v) = Get(m, k, v) /\ Alone!Put(m, k, v) = Put(m, k, v)
  <2>1. \A a, b : Alone!Equivalent(a, b) = Equivalent(a, b)
    BY Zenon DEF Alone!Equivalent, Alone!Less, Equivalent, Less
  <2>2. \A m, k : Alone!KeyOf(m, k) = KeyOf(m, k)
    BY <2>1, Zenon DEF Alone!KeyOf, KeyOf
  <2> QED
    BY <2>2, Zenon DEF Alone!Get, Get, Alone!Put, Put
<1>7. Alone!CountedLimiter(e, x, t) = CountedLimiter(e, x, t)
  BY <1>1, <1>2, <1>5, <1>6, Zenon DEF Alone!CountedLimiter, CountedLimiter
<1>8. Alone!PassesLimiter(e, x, t) = PassesLimiter(e, x, t)
  BY <1>3, <1>7, Zenon DEF Alone!PassesLimiter, PassesLimiter
<1>9. Alone!SkippedOrNot(e, x, t) = SkippedOrNot(e, x, t)
  BY <1>4, <1>6, <1>7, Zenon DEF Alone!SkippedOrNot, SkippedOrNot
<1>10. Alone!BelowThreshold(e, x) = BelowThreshold(e, x)
  BY Zenon DEF Alone!BelowThreshold, BelowThreshold
<1>11. \A f, r : Alone!Recorded(f, x, c, r) = Recorded(f, x, c, r)
  <2>1. \A stats, text, r : Alone!Add(stats, text, r) = Add(stats, text, r)
    BY Zenon DEF Alone!Add, Alone!Cut, Add, Cut
  <2>2. Alone!NewStats = NewStats /\ Alone!SummarizeContext(c) = SummarizeContext(c)
    BY Zenon DEF Alone!NewStats, NewStats, Alone!SummarizeContext, SummarizeContext
  <2>3. ASSUME NEW f, NEW r
        PROVE  Alone!Put(f.statsMap, x, Alone!Add(Alone!Get(f.statsMap, x, Alone!NewStats),
                                            Alone!SummarizeContext(c), r))
                 = Put(f.statsMap, x, Add(Get(f.statsMap, x, NewStats), SummarizeContext(c), r))
    <3>1. Alone!Get(f.statsMap, x, Alone!NewStats) = Get(f.statsMap, x, NewStats)
      BY <1>6, <2>2, Zenon
    <3>2. Alone!Add(Alone!Get(f.statsMap, x, Alone!NewStats), Alone!SummarizeContext(c), r)
            = Add(Get(f.statsMap, x, NewStats), SummarizeContext(c), r)
      BY <2>1, <2>2, <3>1, Zenon
    <3> QED
      BY <1>6, <3>2, Zenon
  <2> QED
    BY <2>3, Zenon DEF Alone!Recorded, Recorded
<1>12. Alone!Log(e, x, c, t) = Log(e, x, c, t)
  BY <1>8, <1>9, <1>10, <1>11, Zenon DEF Alone!Log, Log
<1>13. Alone!LogThrew(e, x, t) = LogThrew(e, x, t)
  BY <1>9, Zenon DEF Alone!LogThrew, LogThrew
<1>14. Alone!ReactsTo(e, x, t) = ReactsTo(e, x, t)
  BY <1>8, <1>10, Zenon DEF Alone!ReactsTo, ReactsTo
<1>15. Alone!CanThrow(e, x, t) = CanThrow(e, x, t)
  BY <1>14, Zenon DEF Alone!CanThrow, CanThrow
<1> QED
  BY <1>12, <1>13, <1>14, <1>15, Zenon

\* Alone is the instance of Destination for the one that is picked.
LEMMA AloneInit == ASSUME Picked \in Ids, Dest(Picked)!Init PROVE Alone!Init
<1>1. \A cfg : Dest(Picked)!Construct(cfg) = Alone!Construct(cfg)
  BY Zenon
     DEF Dest!Construct, Dest!Configured, Dest!NoSettings, Dest!Given, Dest!CategoryParams,
         Dest!OrIntMax, Dest!EmptyMap, Alone!Construct, Alone!Configured, Alone!NoSettings,
         Alone!Given, Alone!CategoryParams, Alone!OrIntMax, Alone!EmptyMap
<1> QED
  BY <1>1, Zenon
     DEF Dest!Init, Dest!Zero, Dest!NoCounts, Alone!Init, Alone!Zero, Alone!NoCounts

LEMMA AloneStep ==
    ASSUME Picked \in Ids, [Dest(Picked)!Next]_(Dest(Picked)!vars)
    PROVE  [Alone!Next]_(Alone!vars)
<1>1. ASSUME NEW x, NEW c PROVE Dest(Picked)!LogReturns(x, c) => Alone!LogReturns(x, c)
  <2>1. /\ Dest(Picked)!Log(d[Picked], x, c, 0) = Log(d[Picked], x, c, 0)
        /\ Dest(Picked)!ReactsTo(d[Picked], x, 0) = ReactsTo(d[Picked], x, 0)
    BY SameLog
  <2>2. /\ Alone!Log(d[Picked], x, c, 0) = Log(d[Picked], x, c, 0)
        /\ Alone!ReactsTo(d[Picked], x, 0) = ReactsTo(d[Picked], x, 0)
    BY AloneLog
  <2> QED
    BY <2>1, <2>2, Zenon DEF Dest!LogReturns, Alone!LogReturns
<1>2. ASSUME NEW x PROVE Dest(Picked)!LogThrows(x) => Alone!LogThrows(x)
  <2>1. /\ Dest(Picked)!LogThrew(d[Picked], x, 0) = LogThrew(d[Picked], x, 0)
        /\ Dest(Picked)!CanThrow(d[Picked], x, 0) = CanThrow(d[Picked], x, 0)
    BY SameLog
  <2>2. /\ Alone!LogThrew(d[Picked], x, 0) = LogThrew(d[Picked], x, 0)
        /\ Alone!CanThrow(d[Picked], x, 0) = CanThrow(d[Picked], x, 0)
    BY AloneLog
  <2> QED
    BY <2>1, <2>2, Zenon DEF Dest!LogThrows, Alone!LogThrows
<1>3. Dest(Picked)!Flush => Alone!Flush
  BY <1>1, Zenon DEF Dest!Flush, Alone!Flush, Dest!NoContext, Alone!NoContext
<1>4. Dest(Picked)!SummaryReturns => Alone!SummaryReturns
  <2>1. /\ Dest(Picked)!Summarized(d[Picked]) = Alone!Summarized(d[Picked])
        /\ Dest(Picked)!PrintsSummary(d[Picked]) = Alone!PrintsSummary(d[Picked])
    BY Zenon
       DEF Dest!Summarized, Dest!PrintsSummary, Dest!EmptyMap,
           Alone!Summarized, Alone!PrintsSummary, Alone!EmptyMap
  <2>2. /\ Dest(Picked)!FormSummary(d[Picked]).rows = d[Picked].statsMap
        /\ Alone!FormSummary(d[Picked]).rows = d[Picked].statsMap
    BY DEF Dest!FormSummary, Alone!FormSummary
  <2>3. \A table : Dest(Picked)!Learned(table) = Alone!Learned(table)
    BY Zenon
       DEF Dest!Learned, Dest!Plus, Dest!Counts, Alone!Learned, Alone!Plus, Alone!Counts
  <2> QED
    BY <2>1, <2>2, <2>3, Zenon
       DEF Dest!SummaryReturns, Dest!Zero, Alone!SummaryReturns, Alone!Zero
<1>5. Dest(Picked)!SummaryThrows => Alone!SummaryThrows
  BY Zenon DEF Dest!SummaryThrows, Alone!SummaryThrows, Dest!PrintsSummary, Alone!PrintsSummary
<1>6. ~Dest(Picked)!Tick
  BY DEF Dest!Tick
<1>7. UNCHANGED Dest(Picked)!vars => UNCHANGED Alone!vars
  BY DEF Dest!vars, Alone!vars
<1> QED
  BY <1>1, <1>2, <1>3, <1>4, <1>5, <1>6, <1>7, Zenon DEF Dest!Next, Alone!Next

LEMMA AloneSpec == ASSUME Picked \in Ids PROVE Spec => Alone!Spec
<1>1. Init => Alone!Init
  BY EachInit, AloneInit
<1>2. CountsInv /\ [Next]_vars => [Alone!Next]_(Alone!vars)
  BY EachStep, AloneStep
<1> QED
  BY <1>1, <1>2, Counts, PTL DEF Spec, Alone!Spec

\* The assumptions of Destination hold of it.
LEMMA AloneAssumptions ==
    ASSUME Picked \in Ids
    PROVE  /\ \A cfg \in Setups[Picked] : Alone!IsConfiguration(cfg)
           /\ {} \subseteq Alone!Levels
           /\ Xids \subseteq Alone!Types /\ (CHOOSE x \in Xids : TRUE) \in Xids
           /\ MaxMsgs \in Nat /\ MaxMsgs + MaxMsgs <= IntMax /\ 0 \in Nat /\ 0 < IntMax
<1>1. \A cfg : Alone!IsConfiguration(cfg) <=> IsConfiguration(cfg)
  <2>1. Alone!Levels = Levels
    BY DEF Alone!Levels, Alone!ELsev_zeroSeverity, Alone!ELsev_highestSeverity,
           Levels, ELsev_zeroSeverity, ELsev_highestSeverity
  <2>2. Alone!WrittenCategory = WrittenCategory
    BY Zenon DEF Alone!WrittenCategory, WrittenCategory
  <2> QED
    BY <2>1, <2>2, Zenon DEF Alone!IsConfiguration, IsConfiguration
<1>2. {} \subseteq Alone!Levels
  OBVIOUS
<1>3. Alone!Types = Types
  BY Zenon DEF Alone!Types, Alone!ELsev_success, Alone!ELsev_severe,
               Types, ELsev_success, ELsev_severe
<1> QED
  BY <1>1, <1>2, <1>3, InstanceAssumptions

\* So each destination of the facility, whatever the others throw and wherever
\* loops end, loses nothing it was given (Conservation), has told what it knows
\* when its flag says so (UpToDate), and has its limiters, its rows and the
\* examples in them in order.
THEOREM EachKeepsItsPromises ==
    ASSUME Picked \in Ids
    PROVE  Spec => [](/\ Alone!TypeOK /\ Alone!Conservation /\ Alone!UpToDate
                      /\ Alone!LimitersFollowStatistics /\ Alone!RowsSorted
                      /\ Alone!ExampleContexts)
BY AloneAssumptions, AloneSpec, Alone!DestinationTypeCorrect, Alone!NothingLost,
   Alone!FlagUpToDate, Alone!LimitersAndStatistics, Alone!MapsSorted, Alone!ExamplesNamed,
   ContextsAssumption, ContextWidthAssumption, IntMaxAssumption, AbsentAssumption,
   StringOrderAssumption, PTL

\* ... and its summaries have the right totals and footnote, as long as there are
\* finitely many message types to add up.
THEOREM EachSummaryTells ==
    ASSUME Picked \in Ids, IsFiniteSet(Xids)
    PROVE  Spec => []Alone!SummaryTells
<1>1. Alone!IsFiniteSet(Xids)
  BY Zenon DEF Alone!IsFiniteSet, IsFiniteSet
<1> QED
  BY <1>1, AloneAssumptions, AloneSpec, Alone!SummaryIsRight,
     ContextsAssumption, ContextWidthAssumption, IntMaxAssumption, AbsentAssumption,
     StringOrderAssumption, PTL

--------------------------------------------------------------------------------
(***************************************************************************)
(* Which summaries have been told.                                         *)
(***************************************************************************)
\* A destination has its members, and nothing else.
Members == {"kind", "threshold", "default", "categoryParams", "outputStatistics", "reset",
            "updatedStats", "xidLimiters", "statsMap"}
Shaped(e) == DOMAIN e = Members /\ e = [k \in Members |-> e[k]]
ShapeInv == destinations \subseteq Ids /\ \A i \in Ids : Shaped(d[i])

\* A message that is logged, or that throws, is no summary: news stay news.
LEMMA NewsStay ==
    ASSUME NEW e, Shaped(e), NEW x, NEW c, NEW t
    PROVE  /\ Shaped(Log(e, x, c, t)) /\ Shaped(LogThrew(e, x, t))
           /\ e.updatedStats => Log(e, x, c, t).updatedStats /\ LogThrew(e, x, t).updatedStats
<1>1. DOMAIN e = Members /\ e = [k \in Members |-> e[k]]
  BY DEF Shaped
<1>2. Shaped(SkippedOrNot(e, x, t)) /\ SkippedOrNot(e, x, t).updatedStats = e.updatedStats
  <2> DEFINE limiters == Put(e.xidLimiters, x, Decide(CountedLimiter(e, x, t)))
  <2>1. SkippedOrNot(e, x, t) = [e EXCEPT !.xidLimiters = limiters]
    BY DEF SkippedOrNot
  <2> HIDE DEF limiters
  <2> QED
    BY <1>1, <2>1 DEF Shaped, Members
<1>3. ASSUME NEW g, Shaped(g), g.updatedStats = e.updatedStats, NEW r
      PROVE  /\ Shaped(Recorded(g, x, c, r))
             /\ e.updatedStats => Recorded(g, x, c, r).updatedStats
  <2> DEFINE stats == Put(g.statsMap, x, Add(Get(g.statsMap, x, NewStats), SummarizeContext(c), r))
  <2>1. Recorded(g, x, c, r) =
          IF g.outputStatistics THEN [g EXCEPT !.statsMap = stats, !.updatedStats = TRUE] ELSE g
    BY DEF Recorded
  <2> HIDE DEF stats
  <2>2. DOMAIN g = Members /\ g = [k \in Members |-> g[k]]
    BY <1>3 DEF Shaped
  <2>3. CASE g.outputStatistics
    BY <2>1, <2>2, <2>3 DEF Shaped, Members
  <2>4. CASE ~g.outputStatistics
    <3>1. Recorded(g, x, c, r) = g
      BY <2>1, <2>4
    <3> QED
      BY <1>3, <3>1, Zenon
  <2> QED
    BY <2>3, <2>4
<1>4. Shaped(LogThrew(e, x, t)) /\ LogThrew(e, x, t).updatedStats = e.updatedStats
  BY <1>2, Zenon DEF LogThrew
<1>5. /\ Shaped(Log(e, x, c, t))
      /\ e.updatedStats => Log(e, x, c, t).updatedStats
  <2>1. CASE BelowThreshold(e, x)
    <3>1. Log(e, x, c, t) = Recorded(e, x, c, FALSE)
      BY <2>1 DEF Log
    <3> QED
      BY <1>3, <3>1, Zenon
  <2>2. CASE ~BelowThreshold(e, x)
    <3>1. Log(e, x, c, t) = Recorded(SkippedOrNot(e, x, t), x, c, PassesLimiter(e, x, t))
      BY <2>2 DEF Log
    <3> QED
      BY <1>2, <1>3, <3>1, Zenon
  <2> QED
    BY <2>1, <2>2
<1> QED
  BY <1>4, <1>5, Zenon

\* After its summary a destination has no news.
LEMMA SummarizedShape ==
    ASSUME NEW e, Shaped(e)
    PROVE  Shaped(Summarized(e)) /\ Summarized(e).updatedStats = FALSE
<1> DEFINE stats == IF e.reset THEN EmptyMap ELSE e.statsMap
           limiters == IF e.reset THEN EmptyMap ELSE e.xidLimiters
<1>1. Summarized(e) = [e EXCEPT !.updatedStats = FALSE, !.statsMap = stats,
                                !.xidLimiters = limiters]
  BY DEF Summarized
<1> HIDE DEF stats, limiters
<1> QED
  BY <1>1 DEF Shaped, Members

\* Destinations keep their members.
LEMMA Shapes == Spec => []ShapeInv
<1>1. Init => ShapeInv
  <2> SUFFICES ASSUME Init, NEW i \in Ids PROVE Shaped(d[i])
    BY DEF Init, ShapeInv
  <2>1. d[i] = Construct(setup[i])
    BY DEF Init
  <2> QED
    BY <2>1 DEF Construct, Shaped, Members
<1>2. ASSUME ShapeInv, [Next]_vars PROVE ShapeInv'
  <2>1. CASE \E new \in SUBSET Ids : StartMessageFacility(new)
    <3> PICK new \in SUBSET Ids : StartMessageFacility(new)
      BY <2>1
    <3>1. destinations' = destinations \cup Made(new) /\ d' = d /\ Made(new) \subseteq Ids
      BY DEF StartMessageFacility, Made, Makes, AllMade, Ordinary
    <3> QED
      BY <1>2, <3>1 DEF ShapeInv
  <2>2. CASE EndMessageFacility \/ UNCHANGED vars
    BY <1>2, <2>2 DEF EndMessageFacility, vars, ShapeInv
  <2>3. CASE \E x \in Xids, c \in Contexts, stop \in Stops : LogMessage(x, c, stop)
    <3> PICK x \in Xids, c \in Contexts, stop \in Stops : LogMessage(x, c, stop)
      BY <2>3
    <3>1. /\ destinations' = destinations
          /\ \A i \in Ids : d'[i] \in {Log(d[i], x, c, 0), LogThrew(d[i], x, 0), d[i]}
      BY DEF LogMessage
    <3>2. ASSUME NEW i \in Ids PROVE Shaped(d'[i])
      <4>1. Shaped(d[i])
        BY <1>2 DEF ShapeInv
      <4>2. Shaped(Log(d[i], x, c, 0)) /\ Shaped(LogThrew(d[i], x, 0))
        BY <4>1, NewsStay, Zenon
      <4>3. d'[i] = Log(d[i], x, c, 0) \/ d'[i] = LogThrew(d[i], x, 0) \/ d'[i] = d[i]
        BY <3>1
      <4> QED
        BY <4>1, <4>2, <4>3, Zenon
    <3> QED
      BY <1>2, <3>1, <3>2 DEF ShapeInv, Shaped
  <2>4. CASE \E stop \in Stops : LogStatistics(stop)
    <3> PICK stop \in Stops : LogStatistics(stop)
      BY <2>4
    <3>1. /\ destinations' = destinations
          /\ \A i \in Ids : d'[i] \in {Summarized(d[i]), d[i]}
      BY DEF LogStatistics, Summaries
    <3>2. \A i \in Ids : Shaped(d'[i])
      BY <1>2, <3>1, SummarizedShape, Zenon DEF ShapeInv
    <3> QED
      BY <1>2, <3>1, <3>2 DEF ShapeInv, Shaped
  <2> QED
    BY <1>2, <2>1, <2>2, <2>3, <2>4, Zenon DEF Next
<1> QED
  BY <1>1, <1>2, PTL DEF Spec

\* The news of a destination are told by a LogStatistics() only after those of
\* all destinations before it in map order, wherever an exception ends it.
THEOREM ToldInOrder == Spec => SummariesInOrder
<1>1. ASSUME ShapeInv, Next, NEW i \in destinations, NEW j \in destinations,
             i < j, d[j].updatedStats, ~d'[j].updatedStats
      PROVE  ~d'[i].updatedStats
  <2>0. i \in Ids /\ j \in Ids /\ Ids \subseteq Nat /\ \A k \in Ids : Shaped(d[k])
    BY <1>1, IdsAssumption DEF ShapeInv
  <2>1. CASE \E new \in SUBSET Ids : StartMessageFacility(new)
    BY <1>1, <2>1 DEF StartMessageFacility
  <2>2. CASE EndMessageFacility
    BY <1>1, <2>2 DEF EndMessageFacility
  <2>3. CASE \E x \in Xids, c \in Contexts, stop \in Stops : LogMessage(x, c, stop)
    <3> PICK x \in Xids, c \in Contexts, stop \in Stops : LogMessage(x, c, stop)
      BY <2>3
    <3>1. d'[j] \in {Log(d[j], x, c, 0), LogThrew(d[j], x, 0), d[j]}
      BY <2>0 DEF LogMessage
    <3>2. d'[j].updatedStats
      BY <1>1, <2>0, <3>1, NewsStay, Zenon
    <3> QED
      BY <1>1, <3>2
  <2>4. CASE \E stop \in Stops : LogStatistics(stop)
    <3> PICK stop \in Stops : LogStatistics(stop)
      BY <2>4
    <3>1. \A k \in Ids : d'[k] = IF k \in Reached(stop) THEN Summarized(d[k]) ELSE d[k]
      BY DEF LogStatistics, Summaries
    <3>2. j \in Reached(stop)
      BY <1>1, <2>0, <3>1
    <3>3. stop \subseteq Nat
      BY <1>1, <2>0 DEF Stops, ShapeInv
    <3>4. i \in Reached(stop)
      BY <1>1, <2>0, <3>2, <3>3 DEF Reached
    <3>5. d'[i] = Summarized(d[i]) /\ Shaped(d[i])
      BY <2>0, <3>1, <3>4
    <3> QED
      BY <3>5, SummarizedShape
  <2> QED
    BY <1>1, <2>1, <2>2, <2>3, <2>4, Zenon DEF Next
<1>2. ShapeInv /\ [Next]_vars =>
        [\A i, j \in destinations :
            i < j /\ d[j].updatedStats /\ ~d'[j].updatedStats => ~d'[i].updatedStats]_vars
  BY <1>1
<1> QED
  BY <1>2, Shapes, PTL DEF Spec, SummariesInOrder
--------------------------------------------------------------------------------
(***************************************************************************)
(* Where every message went.                                               *)
(***************************************************************************)
Upto(i) == {k \in Ids : k <= i}

\* How often the destinations up to i threw at messages of type x.
Thrown(t, i, x) == SumOf([k \in Upto(i) |-> t[k][x]], Upto(i))

\* Besides the account itself: a destination not made yet was given nothing.
AccountInv ==
    /\ threw \in [Ids -> [Xids -> Nat]] /\ missed \in [Ids -> [Xids -> Int]]
    /\ \A i \in Ids \ destinations, x \in Xids : offered[i][x] = 0
    /\ Accounted

\* There are finitely many destinations up to one of them.
LEMMA UptoFinite == ASSUME NEW i \in Ids PROVE IsFiniteSet(Upto(i)) /\ i \in Upto(i)
<1>1. Ids \subseteq Nat
  BY IdsAssumption
<1>2. Upto(i) \subseteq 0 .. i
  <2>1. ASSUME NEW k \in Ids, k <= i PROVE k \in 0 .. i
    <3>1. k \in Nat /\ i \in Nat
      BY <1>1
    <3> QED
      BY <2>1, <3>1
  <2> QED
    BY <2>1 DEF Upto
<1>3. IsFiniteSet(0 .. i)
  BY <1>1, FS_Interval
<1> QED
  BY <1>1, <1>2, <1>3, FS_Subset DEF Upto

\* What PastThrows subtracts is such a number.
LEMMA ThrownIs ==
    ASSUME NEW t, NEW i \in Ids, NEW x
    PROVE  MapThenSumSet(LAMBDA k : t[k][x], {k \in Ids : k <= i}) = Thrown(t, i, x)
<1>1. Upto(i) = {k \in Ids : k <= i}
  BY DEF Upto
<1>2. MapThenSumSet(LAMBDA k : t[k][x], Upto(i)) = SumOf([k \in Upto(i) |-> t[k][x]], Upto(i))
  <2> HIDE DEF Upto
  <2> QED
    BY Zenon DEF SumOf, MapThenSumSet, MapThenFoldSet
<1> QED
  BY <1>1, <1>2, Zenon DEF Thrown

\* It is a number, and counts one more throw of one that is up to i.
LEMMA ThrownMore ==
    ASSUME NEW t \in [Ids -> [Xids -> Nat]], NEW i \in Ids, NEW x \in Xids
    PROVE  /\ Thrown(t, i, x) \in Int
           /\ \A k \in Ids, y \in Xids : \A u :
                u = [j \in Ids |-> IF j = k THEN [t[j] EXCEPT ![y] = @ + 1] ELSE t[j]] =>
                  Thrown(u, i, x) = Thrown(t, i, x) + (IF k <= i /\ x = y THEN 1 ELSE 0)
<1> DEFINE f == [j \in Upto(i) |-> t[j][x]]
<1>1. IsFiniteSet(Upto(i)) /\ Upto(i) \subseteq Ids
  BY UptoFinite DEF Upto
<1>2. \A j \in Upto(i) : f[j] \in Int /\ f[j] = t[j][x]
  BY <1>1
<1> HIDE DEF f
<1>3. Numeric(f, Upto(i)) /\ Upto(i) \in SUBSET Upto(i) /\ i \in Upto(i)
  BY <1>2, UptoFinite DEF Numeric
<1>4. Thrown(t, i, x) = SumOf(f, Upto(i)) /\ SumOf(f, Upto(i)) \in Int
  BY <1>1, <1>3, TotalAny DEF Thrown, f
<1>5. ASSUME NEW k \in Ids, NEW y \in Xids, NEW u,
             u = [j \in Ids |-> IF j = k THEN [t[j] EXCEPT ![y] = @ + 1] ELSE t[j]]
      PROVE  Thrown(u, i, x) = Thrown(t, i, x) + (IF k <= i /\ x = y THEN 1 ELSE 0)
  <2> DEFINE g == [j \in Upto(i) |-> u[j][x]]
  <2>1. \A j \in Upto(i) : g[j] = t[j][x] + (IF j = k /\ x = y THEN 1 ELSE 0)
    BY <1>1, <1>5
  <2> HIDE DEF g
  <2>2. Thrown(u, i, x) = SumOf(g, Upto(i))
    BY DEF Thrown, g
  <2>3. CASE k <= i /\ x = y
    <3>1. k \in Upto(i)
      BY <2>3 DEF Upto
    <3>2. g[k] = f[k] + 1 /\ \A j \in Upto(i) \ {k} : g[j] = f[j]
      BY <1>2, <2>1, <2>3, <3>1
    <3>3. SumOf(g, Upto(i)) = SumOf(f, Upto(i)) + 1
      BY <1>1, <1>3, <3>1, <3>2, TotalMore
    <3> QED
      BY <1>4, <2>2, <2>3, <3>3
  <2>4. CASE ~(k <= i /\ x = y)
    <3>1. k \notin Upto(i) \/ x # y
      BY <2>4 DEF Upto
    <3>2. \A j \in Upto(i) : g[j] = f[j]
      BY <1>2, <2>1, <3>1
    <3>3. SumOf(g, Upto(i)) = SumOf(f, Upto(i))
      BY <1>1, <1>3, <3>2, TotalSame
    <3> QED
      BY <1>4, <2>2, <2>4, <3>3
  <2> QED
    BY <2>3, <2>4
<1> QED
  BY <1>4, <1>5

\* PastThrows, with its sum by name.
PastIs == \A i \in Ids, x \in Xids : PastThrows(i, x) = sent[x] - Thrown(threw, i, x)

LEMMA PastHolds == PastIs
BY ThrownIs, Zenon DEF PastThrows, PastIs

\* A message is given to the destinations before the one that throws, and is
\* past throws for no other.
LEMMA MessageAccount ==
    ASSUME CountsInv, AccountInv, PastIs', NEW y \in Xids, NEW c \in Contexts, NEW stop \in Stops,
           LogMessage(y, c, stop)
    PROVE  AccountInv'
<1>1. /\ sent' = [sent EXCEPT ![y] = @ + 1]
      /\ offered' = [i \in Ids |-> IF i \in Reached(stop) THEN [offered[i] EXCEPT ![y] = @ + 1]
                                                          ELSE offered[i]]
      /\ threw' = [i \in Ids |-> IF i \in stop THEN [threw[i] EXCEPT ![y] = @ + 1] ELSE threw[i]]
      /\ destinations' = destinations /\ missed' = missed
  BY DEF LogMessage
<1>2. /\ destinations \subseteq Ids /\ Ids \subseteq Nat
      /\ sent \in [Xids -> Nat] /\ offered \in [Ids -> [Xids -> Nat]]
      /\ threw \in [Ids -> [Xids -> Nat]] /\ missed \in [Ids -> [Xids -> Int]]
  BY IdsAssumption DEF CountsInv, AccountInv
<1>3. threw' \in [Ids -> [Xids -> Nat]]
  <2>1. ASSUME NEW i \in Ids
        PROVE  (IF i \in stop THEN [threw[i] EXCEPT ![y] = @ + 1] ELSE threw[i]) \in [Xids -> Nat]
    <3>1. threw[i] \in [Xids -> Nat]
      BY <1>2
    <3>2. [threw[i] EXCEPT ![y] = @ + 1] \in [Xids -> Nat]
      BY <3>1
    <3> QED
      BY <3>1, <3>2
  <2> QED
    BY <1>1, <2>1
<1>4. \A i \in Ids, x \in Xids :
        offered'[i][x] = offered[i][x] + (IF i \in Reached(stop) /\ x = y THEN 1 ELSE 0)
  <2> SUFFICES ASSUME NEW i \in Ids, NEW x \in Xids
               PROVE  offered'[i][x]
                        = offered[i][x] + (IF i \in Reached(stop) /\ x = y THEN 1 ELSE 0)
    OBVIOUS
  <2>1. offered[i] \in [Xids -> Nat]
    BY <1>2
  <2>2. CASE i \in Reached(stop)
    BY <1>1, <2>1, <2>2
  <2>3. CASE i \notin Reached(stop)
    BY <1>1, <2>1, <2>3
  <2> QED
    BY <2>2, <2>3
<1>5. \A i \in Ids \ destinations', x \in Xids : offered'[i][x] = 0
  <2>1. \A i \in Ids \ destinations : i \notin Reached(stop)
    BY DEF Reached
  <2> QED
    BY <1>1, <1>4, <2>1 DEF AccountInv
<1>6. ASSUME NEW i \in destinations, NEW x \in Xids
      PROVE  offered'[i][x] = PastThrows(i, x)' - missed'[i][x]
  <2>1. i \in Ids /\ offered[i][x] \in Nat /\ missed[i][x] \in Int /\ sent[x] \in Nat
    BY <1>2, <1>6
  <2>2. /\ offered[i][x] = sent[x] - Thrown(threw, i, x) - missed[i][x]
        /\ Thrown(threw, i, x) \in Int
    BY <1>2, <1>6, <2>1, PastHolds, ThrownMore DEF AccountInv, Accounted, PastIs
  <2>3. sent'[x] = sent[x] + (IF x = y THEN 1 ELSE 0)
    BY <1>1, <1>2
  <2>4. Thrown(threw', i, x)
          = Thrown(threw, i, x) + (IF i \notin Reached(stop) /\ x = y THEN 1 ELSE 0)
    <3>1. CASE stop = {}
      <4>1. threw' = threw /\ i \in Reached(stop)
        BY <1>1, <1>2, <1>6, <3>1 DEF Reached
      <4> QED
        BY <2>2, <4>1
    <3>2. CASE stop # {}
      <4>1. PICK k \in destinations : stop = {k}
        BY <3>2 DEF Stops
      <4>2. k \in Ids /\ (k <= i <=> i \notin Reached(stop))
        BY <1>2, <1>6, <4>1 DEF Reached
      <4>3. threw' = [j \in Ids |-> IF j = k THEN [threw[j] EXCEPT ![y] = @ + 1] ELSE threw[j]]
        BY <1>1, <4>1
      <4>4. PICK u : u = threw'
        OBVIOUS
      <4>5. PICK t \in [Ids -> [Xids -> Nat]] : t = threw
        BY <1>2
      <4>6. u = [j \in Ids |-> IF j = k THEN [t[j] EXCEPT ![y] = @ + 1] ELSE t[j]]
        BY <4>3, <4>4, <4>5, Zenon
      <4>7. Thrown(u, i, x) = Thrown(t, i, x) + (IF k <= i /\ x = y THEN 1 ELSE 0)
        <5>1. \A j \in Ids, z \in Xids : \A v :
                v = [l \in Ids |-> IF l = j THEN [t[l] EXCEPT ![z] = @ + 1] ELSE t[l]] =>
                  Thrown(v, i, x) = Thrown(t, i, x) + (IF j <= i /\ x = z THEN 1 ELSE 0)
          BY <2>1, ThrownMore
        <5> QED
          BY <4>2, <4>6, <5>1, Zenon
      <4> QED
        BY <4>2, <4>4, <4>5, <4>7
    <3> QED
      BY <3>1, <3>2
  <2>5. offered'[i][x] = sent'[x] - Thrown(threw', i, x) - missed'[i][x]
    <3>1. offered'[i][x] = offered[i][x] + (IF i \in Reached(stop) /\ x = y THEN 1 ELSE 0)
      BY <1>4, <2>1
    <3> QED
      BY <1>1, <2>1, <2>2, <2>3, <2>4, <3>1
  <2> QED
    BY <1>1, <2>1, <2>5 DEF PastIs
<1>7. Accounted'
  BY <1>1, <1>6 DEF Accounted
<1> QED
  BY <1>1, <1>2, <1>3, <1>5, <1>7 DEF AccountInv

\* A destination that is made has missed all that is past throws by then.
LEMMA StartAccount ==
    ASSUME CountsInv, AccountInv, PastIs', NEW new \in SUBSET Ids, StartMessageFacility(new)
    PROVE  AccountInv'
<1>1. /\ destinations' = destinations \cup Made(new)
      /\ missed' = [i \in Ids |-> IF i \in Made(new) THEN [x \in Xids |-> PastThrows(i, x)]
                                  ELSE missed[i]]
      /\ sent' = sent /\ threw' = threw /\ offered' = offered
  BY DEF StartMessageFacility
<1>2. Made(new) \subseteq Ids \ destinations
  BY DEF Made, Makes, Ordinary
<1>3. /\ destinations \subseteq Ids
      /\ sent \in [Xids -> Nat] /\ offered \in [Ids -> [Xids -> Nat]]
      /\ threw \in [Ids -> [Xids -> Nat]] /\ missed \in [Ids -> [Xids -> Int]]
  BY DEF CountsInv, AccountInv
<1>4. \A i \in Ids, x \in Xids : PastThrows(i, x) \in Int /\ PastThrows(i, x)' = PastThrows(i, x)
  <2> SUFFICES ASSUME NEW i \in Ids, NEW x \in Xids
               PROVE  PastThrows(i, x) \in Int /\ PastThrows(i, x)' = PastThrows(i, x)
    OBVIOUS
  <2>1. Thrown(threw, i, x) \in Int /\ sent[x] \in Int
    BY <1>3, ThrownMore
  <2>2. PastThrows(i, x) = sent[x] - Thrown(threw, i, x)
    BY PastHolds DEF PastIs
  <2>3. PastThrows(i, x)' = sent[x] - Thrown(threw, i, x)
    BY <1>1 DEF PastIs
  <2> QED
    BY <2>1, <2>2, <2>3
<1>5. missed' \in [Ids -> [Xids -> Int]]
  BY <1>1, <1>3, <1>4
<1>6. ASSUME NEW i \in destinations', NEW x \in Xids
      PROVE  offered'[i][x] = PastThrows(i, x)' - missed'[i][x]
  <2>1. i \in Ids
    BY <1>1, <1>2, <1>3, <1>6
  <2>2. CASE i \in Made(new)
    <3>1. missed'[i][x] = PastThrows(i, x) /\ offered'[i][x] = 0
      BY <1>1, <1>2, <2>1, <2>2 DEF AccountInv
    <3>2. PastThrows(i, x)' = PastThrows(i, x) /\ PastThrows(i, x) \in Int
      BY <1>4, <2>1
    <3> QED
      BY <3>1, <3>2
  <2>3. CASE i \notin Made(new)
    <3>1. i \in destinations /\ missed'[i] = missed[i]
      BY <1>1, <1>6, <2>1, <2>3
    <3>2. offered[i][x] = PastThrows(i, x) - missed[i][x]
      BY <3>1 DEF AccountInv, Accounted
    <3> QED
      BY <1>1, <1>4, <2>1, <3>1, <3>2
  <2> QED
    BY <2>2, <2>3
<1>7. Accounted'
  BY <1>6 DEF Accounted
<1> QED
  BY <1>1, <1>3, <1>5, <1>7 DEF AccountInv

\* Over all Starts, Ends, resets and failed summaries, sendMsgToDests gives a
\* destination every message sent since it was made but those that it, or one
\* before it in map order, threw at.
THEOREM AccountsBalance == Spec => []Accounted
<1>1. Init => AccountInv
  <2> SUFFICES ASSUME Init PROVE AccountInv
    OBVIOUS
  <2>1. /\ destinations = {} /\ threw = [i \in Ids |-> None]
        /\ missed = [i \in Ids |-> None] /\ offered = [i \in Ids |-> None]
    BY DEF Init
  <2>2. None \in [Xids -> Nat] /\ None \in [Xids -> Int] /\ \A x \in Xids : None[x] = 0
    BY DEF None
  <2> QED
    BY <2>1, <2>2 DEF AccountInv, Accounted
<1>2. ASSUME CountsInv, AccountInv, PastIs', [Next]_vars PROVE AccountInv'
  <2>1. CASE \E new \in SUBSET Ids : StartMessageFacility(new)
    BY <1>2, <2>1, StartAccount
  <2>2. CASE \E x \in Xids, c \in Contexts, stop \in Stops : LogMessage(x, c, stop)
    BY <1>2, <2>2, MessageAccount
  <2>3. CASE EndMessageFacility \/ UNCHANGED vars \/ \E stop \in Stops : LogStatistics(stop)
    <3>1. UNCHANGED <<destinations, sent, threw, missed, offered>>
      BY <2>3 DEF EndMessageFacility, LogStatistics, vars
    <3>2. \A i \in Ids, x \in Xids : PastThrows(i, x)' = PastThrows(i, x)
      BY <1>2, <3>1, PastHolds DEF PastIs
    <3>3. destinations \subseteq Ids
      BY <1>2 DEF CountsInv
    <3>4. Accounted'
      BY <1>2, <3>1, <3>2, <3>3 DEF AccountInv, Accounted
    <3> QED
      BY <1>2, <3>1, <3>4 DEF AccountInv
  <2> QED
    BY <1>2, <2>1, <2>2, <2>3, Zenon DEF Next
<1>3. AccountInv => Accounted
  BY DEF AccountInv
<1> QED
  BY <1>1, <1>2, <1>3, Counts, PastHolds, PTL DEF Spec
===============================================================================
