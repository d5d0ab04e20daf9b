------------------------------- MODULE MCLimiter -------------------------------
(***************************************************************************)
(* Instances of Limiter for TLC.                                           *)
(***************************************************************************)
EXTENDS Limiter

NothingWritten == [limit |-> Absent, reportEvery |-> Absent, timespan |-> Absent]
Row(l, r, t) == [limit |-> l, reportEvery |-> r, timespan |-> t]

\* Every combination of the parameters of a listed category and of the
\* default category that the descriptions cover without contradiction: no
\* timespan of zero and no category that disables an inherited reportEvery.
Rows(T) == {Row(l, r, t) : l \in {Absent, -1, 0, 1, 3}, r \in {Absent, -1, 0, 2, 3}, t \in T}
Agreeing(c) ==
    Documented(c).reportEvery < 0 => DefaultSettings(c).reportEvery <= 0
PolicyConfigs ==
    {c \in {[default |-> d, own |-> o, listed |-> b] :
               d \in {NothingWritten, Row(2, 2, 2)}, o \in Rows({Absent, -1, 2}),
               b \in BOOLEAN} : Agreeing(c)}

\* A limit with timespan written as zero.
TimespanZeroConfigs ==
    {[default |-> Row(2, Absent, 0), own |-> NothingWritten, listed |-> FALSE]}

\* A category that disables the prescaling of the default category.
ReportEveryConfigs ==
    {[default |-> Row(Absent, 3, Absent), own |-> Row(Absent, -1, Absent), listed |-> TRUE]}
===============================================================================
