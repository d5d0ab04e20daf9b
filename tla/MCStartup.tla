------------------------------- MODULE MCStartup -------------------------------
(***************************************************************************)
(* Instances of Startup for TLC.                                           *)
(***************************************************************************)
EXTENDS Startup

Dest(name, type, filename) ==
    [name |-> name, empty |-> FALSE, type |-> type, filename |-> filename,
     plugin |-> TRUE, valid |-> TRUE]
Invalid(e) == [e EXCEPT !.valid = FALSE]

Cout    == Dest("d1", "cout", Absent)
FileA   == Dest("d2", "file", "a")
FileA2  == Dest("d3", "file", "a")
FileB   == Dest("d4", "file", "b")
Empty   == [Dest("d5", Absent, Absent) EXCEPT !.empty = TRUE]
NoType  == Dest("d6", Absent, Absent)
Unknown == [Dest("d7", "carrier-pigeon", Absent) EXCEPT !.plugin = FALSE]
Syslog  == Dest("d8", "syslog", Absent)

Config(ordinary, statistics) ==
    [given |-> TRUE, ordinary |-> ordinary, statistics |-> statistics]

\* The configurations of the tests (empty, no_destinations, destination_default,
\* _file_duplicateDest, _wStatistics2, statistics, statistics_duplicateDest),
\* and one for every way in which a Start fails.
TestConfigurations ==
    {[given |-> FALSE, ordinary |-> {}, statistics |-> Absent],
     Config({}, Absent),
     Config({Empty}, Absent),
     Config({FileA, FileA2}, Absent),
     Config({FileA}, {FileA2, Cout}),
     Config({}, {Cout, FileB}),
     Config({}, {FileA, FileA2}),
     Config({Cout, Invalid(FileB)}, {FileA}),
     Config({FileB, NoType}, Absent),
     Config({FileA, Unknown}, Absent),
     Config({FileB}, {Syslog, FileA})}

\* The output ids in the order of the map, but for any others.
MCNumber(id) ==
    CASE id = <<"cerr">> -> 1
      [] id = Early      -> 2
      [] id = <<"cout">> -> 3
      [] id = <<"file", "a">> -> 4
      [] id = <<"file", "b">> -> 5
      [] id = <<"file", "err.log">> -> 6
      [] OTHER -> 7
===============================================================================
