------------------------------ MODULE MCFacility ------------------------------
(***************************************************************************)
(* Instances of Facility for TLC.                                          *)
(***************************************************************************)
EXTENDS Facility

NothingWritten == [limit |-> Absent, reportEvery |-> Absent, timespan |-> Absent]

\* Messages at and below the threshold.
Info == [severity |-> ELsev_info, id |-> "A", module |-> "A", subroutine |-> "A"]
Debug == [Info EXCEPT !.severity = ELsev_success]
MCXids == {Info, Debug}
MCStrings == {"A"}
MCStringLess(s, t) == FALSE
MCContexts == {[run |-> <<>>, event |-> <<>>, rest |-> <<"pre", "-", "events">>]}

Config(kind, categories, misconfigured, reset) ==
    [kind |-> kind, threshold |-> ELsev_info, default |-> NothingWritten,
     categories |-> categories, misconfigured |-> misconfigured, outputStatistics |-> TRUE,
     reset |-> reset, resetStatistics |-> FALSE]

EveryOther == [c \in {"A"} |-> [NothingWritten EXCEPT !.reportEvery = 2]]

\* In map order: an ordinary destination, one that prescales and may be
\* misconfigured, and a statistics destination.
MCIds == 1 .. 3
MCSetups ==
    <<{Config("ordinary", EmptyMap, {}, FALSE)},
      {Config("ordinary", EveryOther, m, TRUE) : m \in {{}, {"A"}}},
      {Config("statistics", EmptyMap, {}, TRUE)}>>
===============================================================================
