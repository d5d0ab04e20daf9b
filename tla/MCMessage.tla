------------------------------- MODULE MCMessage -------------------------------
(***************************************************************************)
(* Instances of Message for TLC.                                           *)
(***************************************************************************)
EXTENDS Message

\* A category longer than maxCategoryLength, in two words.
LongCategory == <<"category1", "category2">>

MCWidth(symbol) ==
    CASE symbol \in {NL, SP, ":", "]", "/", "1", "2"} -> 1
      [] symbol \in {"()", "-i", "-w", "-e"} -> 2
      [] symbol = "%MSG" -> 4
      [] OTHER -> 7

\* MF_LOG_INFO, with the path that __FILE__ is; LogWarning; LogProblem.
MCStatements ==
    {[severity |-> ELsev_info, verbatim |-> FALSE, category |-> <<"cat">>,
      file |-> <<"dir", "/", "file">>],
     [severity |-> ELsev_warning, verbatim |-> FALSE, category |-> LongCategory, file |-> <<>>],
     [severity |-> ELsev_error, verbatim |-> TRUE, category |-> LongCategory, file |-> <<>>]}
MCModules == {<<>>}
MCIterations == {<<"event1">>}

Text(t) == [kind |-> "text", text |-> t]
MCInsertions ==
    {Text(<<"word", NL>>), Text(<<>>), Text(<<"@SUB=", SP, "sub">>),
     [kind |-> "number", text |-> [base \in {"dec", "hex"} |-> <<base>>]],
     [kind |-> "ios_base manipulator", base |-> "hex"],
     [kind |-> "ostream manipulator"]}

\* The default format, and ones that leave out or set apart some of it, with
\* lines that hold a header and lines that do not.
Format(off, on, length) ==
    [flag \in {"noLineBreaks", "timestamp", "module", "subroutine", "text", "context",
               "serial", "timeSeparate", "epilogueSeparate"} |->
       flag \in ({"timestamp", "module", "subroutine", "text", "context"} \ off) \cup on]
      @@ [lineLength |-> length]
Destination(kind, threshold, format) ==
    [kind |-> kind, threshold |-> threshold, format |-> format]
MCDestinations ==
    {Destination("ostream", "INFO", Format({}, {}, 12)),
     Destination("ostream", "DEBUG", Format({}, {"noLineBreaks"}, 32000)),
     Destination("ostream", "WARNING", Format({"module", "text"}, {"serial", "timeSeparate"}, 20)),
     Destination("ostream", "INFO", Format({"subroutine", "timestamp"}, {"epilogueSeparate"}, 80)),
     Destination("syslog", "ERROR", Format({}, {}, 80)),
     Destination("sqlite", "ERROR", Format({}, {"noLineBreaks"}, 80))}

MCProcessNames == [hostname |-> <<"host">>, hostaddr |-> <<"address">>,
                   application |-> <<"application">>, pid |-> 1]

\* The examples of ELseverityLevel.h:50-53 as names of a threshold.
ErrorNameDestinations ==
    {Destination("ostream", name, Format({}, {}, 80)) : name \in {"-e", "Error", "ERROR", "ELerror"}}

\* What the proofs that texts and headers read back, and that fields are set
\* apart, ask of the names.
ASSUME NamesAssumption == NamesAreWords /\ FieldsTold

Symmetry == Permutations(Threads) \cup Permutations(Loggers)
===============================================================================
