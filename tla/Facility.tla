------------------------------- MODULE Facility -------------------------------
(***************************************************************************)
(* All destinations together: each message goes through every destination  *)
(* in map order, LogStatistics() asks every one for its summary, and the   *)
(* first exception ends either loop.  Exceptions of messages are counted   *)
(* toward purge mode; those of summaries are only reported.                *)
(*                                                                         *)
(* One thread is enough here: messages are sent one at a time (see         *)
(* MessageLogger), and LogStatistics, Start and End are for single-        *)
(* threaded mode.  cerr_early, which keeps no statistics and logs nothing  *)
(* once a Start has come to the other destinations, is left out; how a     *)
(* Start finds out what to make is the subject of Startup.                 *)
(***************************************************************************)
EXTENDS ELdestination, Functions

CONSTANTS
    Ids,             \* output ids: integers that sort as the keys of the map do
    Setups,          \* by output id: the configurations it may have
    Xids,            \* the message types released
    Contexts,        \* the contexts they carry
    MaxExceptions,   \* exceptions tolerated before purge mode (25 in the code)
    MaxMsgs          \* bound: messages of one type

ASSUME IdsAssumption == Ids \subseteq Nat /\ DOMAIN Setups = Ids
ASSUME TypesAssumption == Xids \subseteq Types /\ Xids # {}
ASSUME SetupsAssumption == \A i \in Ids : \A cfg \in Setups[i] : IsConfiguration(cfg)
ASSUME ContextsAssumption ==
    Contexts \subseteq [run : Seq(STRING), event : Seq(STRING), rest : Seq(STRING)]
ASSUME BoundsAssumption ==
    MaxExceptions \in Nat /\ MaxMsgs \in Nat /\ 2 * MaxMsgs <= IntMax

VARIABLES
    isStarted, purgeMode, count,
    setup,          \* by output id: its configuration
    destinations,   \* the output ids in the map destinations_
    d,              \* by output id: the destination; one not made yet is as it will be made
    \* History.
    sent,           \* by message type: how many were sent to the destinations
    threw,          \* by output id and message type: how often it threw
    missed,         \* by output id and message type: how many messages that no earlier
                    \* destination in map order threw at were sent before it was made
    offered, logged, failed, reported, examples   \* by output id: see Destination

vars == <<isStarted, purgeMode, count, setup, destinations, d, sent, threw, missed,
          offered, logged, failed, reported, examples>>

None == [x \in Xids |-> 0]

Init ==
    /\ isStarted = FALSE /\ purgeMode = FALSE /\ count = 0
    /\ setup \in {s \in [Ids -> UNION Range(Setups)] : \A i \in Ids : s[i] \in Setups[i]}
    /\ destinations = {}
    /\ d = [i \in Ids |-> Construct(setup[i])]
    /\ sent = None
    /\ threw = [i \in Ids |-> None]
    /\ missed = [i \in Ids |-> None]
    /\ offered = [i \in Ids |-> None]
    /\ logged = [i \in Ids |-> None]
    /\ failed = [i \in Ids |-> None]
    /\ reported = [i \in Ids |-> [x \in Xids |-> [n |-> 0, aggregateN |-> 0]]]
    /\ examples = [i \in Ids |-> [x \in Xids |-> <<>>]]

\* How many messages of type x were sent that nothing up to i threw at.
PastThrows(i, x) == sent[x] - MapThenSumSet(LAMBDA k : threw[k][x], {k \in Ids : k <= i})

\* The destinations made by a Start whose configuration has the entries new:
\* those that are not there yet and can be constructed, those of the statistics
\* table only if all of the ordinary table can.
Ordinary(new) == {i \in new : setup[i].kind = "ordinary"}
Makes(table) == {i \in table \ destinations : Constructs(setup[i])}
AllMade(table) == table \subseteq destinations \cup Makes(table)
Made(new) == Makes(IF AllMade(Ordinary(new)) THEN new ELSE Ordinary(new))

\* A Start with a misconfigured destination throws once the table is done.
StartMessageFacility(new) ==
    /\ ~isStarted
    /\ destinations' = destinations \cup Made(new)
    /\ isStarted' = AllMade(new)
    /\ missed' = [i \in Ids |-> IF i \in Made(new) THEN [x \in Xids |-> PastThrows(i, x)]
                                 ELSE missed[i]]
    /\ UNCHANGED <<purgeMode, count, setup, d, sent, threw,
                   offered, logged, failed, reported, examples>>

\* The destinations keep their statistics for the next Start.
EndMessageFacility ==
    /\ isStarted /\ isStarted' = FALSE
    /\ UNCHANGED <<purgeMode, count, setup, destinations, d, sent, threw, missed,
                   offered, logged, failed, reported, examples>>

\* A slip: the loop goes on after an exception.
SlipReached(stop) == destinations \ stop

\* The destinations that a loop gets through when it ends at stop, which is
\* empty or holds the one that throws.
Reached(stop) == {i \in destinations : \A k \in stop : i < k}

(***************************************************************************)
(* A message is sent.  stop: the destination that throws, if any.          *)
(***************************************************************************)
LogMessage(x, context, stop) ==
    /\ isStarted /\ ~purgeMode /\ sent[x] < MaxMsgs
    /\ \A k \in stop : CanThrow(d[k], x, 0)
    /\ sent' = [sent EXCEPT ![x] = @ + 1]
    /\ d' = [i \in Ids |-> IF i \in Reached(stop) THEN Log(d[i], x, context, 0)
                           ELSE IF i \in stop THEN LogThrew(d[i], x, 0) ELSE d[i]]
    /\ offered' = [i \in Ids |-> IF i \in Reached(stop)
                                 THEN [offered[i] EXCEPT ![x] = @ + 1] ELSE offered[i]]
    /\ LET reacts == {i \in Reached(stop) : ReactsTo(d[i], x, 0)}
       IN  /\ logged' = [i \in Ids |-> IF i \in reacts
                                       THEN [logged[i] EXCEPT ![x] = @ + 1] ELSE logged[i]]
           /\ examples' = [i \in Ids |-> IF i \in reacts
                                         THEN [examples[i] EXCEPT ![x] = Append(@, context)]
                                         ELSE examples[i]]
    /\ failed' = [i \in Ids |-> IF i \in stop THEN [failed[i] EXCEPT ![x] = @ + 1]
                                              ELSE failed[i]]
    /\ threw' = [i \in Ids |-> IF i \in stop THEN [threw[i] EXCEPT ![x] = @ + 1]
                                             ELSE threw[i]]
    /\ \/ stop = {} /\ UNCHANGED <<count, purgeMode>>
       \/ stop # {} /\ count' = count + 1 /\ purgeMode' = (count' > MaxExceptions)
       \/ stop # {} /\ purgeMode' = TRUE /\ UNCHANGED count    \* no cet::exception
    /\ UNCHANGED <<isStarted, setup, destinations, missed, reported>>

(***************************************************************************)
(* LogStatistics().                                                        *)
(***************************************************************************)
CanThrowSummary(i) == d[i].kind = "ordinary" /\ PrintsSummary(d[i])

\* What readers of destination i's summaries know after another one.
Learned(i) ==
    [x \in Xids |->
       IF ~PrintsSummary(d[i]) \/ x \notin DOMAIN FormSummary(d[i]).rows THEN reported[i][x]
       ELSE LET row == FormSummary(d[i]).rows[x]
            IN  IF d[i].reset
                THEN [n          |-> reported[i][x].n + row.n,
                      aggregateN |-> reported[i][x].aggregateN + row.aggregateN]
                ELSE [n |-> row.n, aggregateN |-> row.aggregateN]]

\* A slip: the counters of all destinations are reset, whoever got to report.
SlipSummaries(stop) == [i \in Ids |-> Summarized(d[i])]

Summaries(stop) == [i \in Ids |-> IF i \in Reached(stop) THEN Summarized(d[i]) ELSE d[i]]

LogStatistics(stop) ==
    /\ isStarted
    /\ \A k \in stop : CanThrowSummary(k)
    /\ d' = Summaries(stop)
    /\ reported' = [i \in Ids |-> IF i \in Reached(stop) THEN Learned(i) ELSE reported[i]]
    /\ LET again == {i \in Reached(stop) : d[i].reset}
       IN  /\ examples' = [i \in Ids |-> IF i \in again THEN [x \in Xids |-> <<>>]
                                         ELSE examples[i]]
           /\ failed' = [i \in Ids |-> IF i \in again THEN None ELSE failed[i]]
    /\ UNCHANGED <<isStarted, purgeMode, count, setup, destinations, sent, threw, missed,
                   offered, logged>>

Stops == {{}} \cup {{k} : k \in destinations}

Next ==
    \/ \E new \in SUBSET Ids : StartMessageFacility(new)
    \/ EndMessageFacility
    \/ \E x \in Xids, c \in Contexts, stop \in Stops : LogMessage(x, c, stop)
    \/ \E stop \in Stops : LogStatistics(stop)

Spec == Init /\ [][Next]_vars
--------------------------------------------------------------------------------
(***************************************************************************)
(* Properties.                                                             *)
(***************************************************************************)
\* Two destinations of one configuration disagree about the messages of a type
\* by the exceptions in between and nothing else: over all Starts, Ends, resets
\* and failed summaries a destination was given every message sent since it was
\* made, but those that it, or one before it in map order, threw at.
Accounted ==
    \A i \in destinations, x \in Xids : offered[i][x] = PastThrows(i, x) - missed[i][x]

\* A LogStatistics() that an exception ends has told the news of the earlier
\* destinations in map order, and no later one takes its own as told.
SummariesInOrder ==
    [][\A i, j \in destinations :
         i < j /\ d[j].updatedStats /\ ~d'[j].updatedStats => ~d'[i].updatedStats]_vars

(***************************************************************************)
(* One of the destinations by itself: flush() is never called, thresholds  *)
(* are not set, and the clock stands still.                                *)
(***************************************************************************)
Dest(i) == INSTANCE Destination WITH
    Configs <- Setups[i], FlushXid <- CHOOSE x \in Xids : TRUE, Thresholds <- {},
    MaxFailures <- MaxMsgs, MaxTime <- 0, now <- 0, d <- d[i], offered <- offered[i],
    logged <- logged[i], failed <- failed[i], reported <- reported[i], examples <- examples[i]

\* Whatever Starts, Ends, messages and LogStatistics() do to all of them, and
\* wherever an exception ends a loop, each destination takes a step of
\* Destination or none: what holds of one alone holds of each of them.
EachDestination ==
    /\ \A i \in Ids : Dest(i)!Init
    /\ [][\A i \in Ids : [Dest(i)!Next]_(Dest(i)!vars)]_vars
===============================================================================
