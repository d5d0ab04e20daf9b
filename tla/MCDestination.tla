----------------------------- MODULE MCDestination -----------------------------
(***************************************************************************)
(* Instances of Destination for TLC.                                       *)
(***************************************************************************)
EXTENDS Destination

Row(l, r, t) == [limit |-> l, reportEvery |-> r, timespan |-> t]
NothingWritten == Row(Absent, Absent, Absent)

WarnA == [severity |-> ELsev_warning, id |-> "A", module |-> "A", subroutine |-> "A"]

MCStrings == {"A", "B"}
MCStringLess(s, t) == s = "A" /\ t = "B"

Config(kind, categories, outputStatistics, reset) ==
    [kind |-> kind, threshold |-> ELsev_info, default |-> NothingWritten,
     categories |-> categories, misconfigured |-> {}, outputStatistics |-> outputStatistics,
     reset |-> reset, resetStatistics |-> FALSE]

Limited == [c \in {"B"} |-> Row(Absent, 2, 1)]

\* Destinations that keep statistics: an ordinary one for each way of resetting
\* them, and a statistics destination; and one that keeps none.
StatsConfigs ==
    {Config("ordinary", Limited, TRUE, FALSE), Config("ordinary", Limited, TRUE, TRUE),
     Config("statistics", Limited, TRUE, TRUE), Config("ordinary", Limited, FALSE, TRUE)}

\* Message types that each of the members of their ids decides about, against
\* what those after it say.
FiveXids ==
    {WarnA} \cup
    {[severity |-> ELsev_info, id |-> p[1], module |-> p[2], subroutine |-> p[3]] :
       p \in {<<"A", "B", "B">>, <<"B", "A", "A">>, <<"B", "A", "B">>, <<"B", "B", "A">>}}
FlushType == WarnA
RaisedThresholds == {ELsev_error}

\* The context of an event, with more after it; that of a flush is empty.
Event(digits) == [run |-> <<"1">>, event |-> digits, rest |-> <<"t", "e", "x", "t">>]
LongContext == {Event(<<"2", "3">>)}

\* A context is shown by its short form, as far as that fits: it fits a column of
\* three characters or not, and is one of an event or of none.
Rest(text) == [run |-> <<>>, event |-> <<>>, rest |-> text]
ShortAndLong ==
    {NoContext, Event(<<"2">>), Event(<<"2", "3">>),
     Rest(<<"p", "r", "e">>), Rest(<<"t", "e", "x", "t">>)}
ASSUME ContextsShown == \A c \in ShortAndLong : Names(Cut(SummarizeContext(c)), c)

\* Bound: occurrences in all, of whatever types, so enough for each type alone.
MaxOccurrences == 4
VARIABLE left

MCInit == Init /\ left = MaxOccurrences
MCNext ==
    /\ Next
    /\ left' = IF offered' = offered /\ failed' = failed THEN left ELSE left - 1
    /\ left' >= 0
MCSpec == MCInit /\ [][MCNext]_<<vars, left>>
===============================================================================
