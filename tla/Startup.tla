-------------------------------- MODULE Startup --------------------------------
(***************************************************************************)
(* How StartMessageFacility makes the destinations: first "cerr_early",    *)
(* then, one by one, those of the ordinary and of the statistics table of  *)
(* the configuration.  An exception may end a Start anywhere, and what it  *)
(* made until then stays in the map for the next Start to find, as it does *)
(* over EndMessageFacility.                                                *)
(*                                                                         *)
(* Everything here runs in one thread ("single-threaded mode only").       *)
(* MessageLogger has Start as one action; MCStartup shows that this module *)
(* implements it.                                                          *)
(***************************************************************************)
EXTENDS Integers, FiniteSets

CONSTANTS
    Configurations,   \* the configurations Start is called with
    Absent,           \* a parameter that a configuration does not give
    Number(_)         \* the output ids as MessageLogger has them: numbers

(***************************************************************************)
(* An entry of a table configures one destination; its names are distinct. *)
(* plugin: a plugin of its type exists and can be made.  valid: the table  *)
(* passes the validation by the plugin.                                    *)
(***************************************************************************)
Entries == UNION {c.ordinary \cup (IF c.statistics = Absent THEN {} ELSE c.statistics) :
                    c \in Configurations}

ASSUME EntriesAssumption ==
    \A e \in Entries : /\ DOMAIN e = {"name", "empty", "type", "filename", "plugin", "valid"}
                       /\ e.empty \in BOOLEAN /\ e.plugin \in BOOLEAN /\ e.valid \in BOOLEAN
ASSUME NamesAssumption ==
    \A c \in Configurations :
      \A table \in {c.ordinary} \cup (IF c.statistics = Absent THEN {} ELSE {c.statistics}) :
        \A e, f \in table : e.name = f.name => e = f

VARIABLES
    isStarted,
    destinations,   \* destinations_: the destinations by output id
    cleanSlate,     \* cleanSlateConfiguration_
    call,           \* how far the call of Start under way is
    config,         \* the configuration of the last call of Start
    made,           \* history: the outputs it made
    reported        \* history: the entries it reported as duplicates

vars == <<isStarted, destinations, cleanSlate, call, config, made, reported>>

Early == <<"cerr_early">>

\* A destination type that has no file is its own output id; of the others
\* there is one for each file, which the name of the entry stands in for.
OutputId(e) ==
    IF e.type \in {"cout", "cerr", "syslog"} THEN <<e.type>>
    ELSE <<e.type, IF e.filename = Absent THEN e.name ELSE e.filename>>

\* default_destination_config(), which an entry without any parameter takes.
DefaultDestination(name) ==
    [name |-> name, empty |-> FALSE, type |-> "cerr", filename |-> Absent,
     plugin |-> TRUE, valid |-> TRUE]
Completed(e) == IF e.empty THEN DefaultDestination(e.name) ELSE e

\* What is configured without a table of destinations, and for the statistics
\* when there are no ordinary destinations.
DefaultDestinationSet == {DefaultDestination("cerr")}
DefaultStatistics ==
    {[name |-> "file_stats", empty |-> FALSE, type |-> "file", filename |-> "err.log",
      plugin |-> TRUE, valid |-> TRUE]}

OrdinaryDests(c) == IF c.given THEN c.ordinary ELSE DefaultDestinationSet
StatDests(c) ==
    IF c.given /\ c.statistics # Absent THEN c.statistics
    ELSE IF OrdinaryDests(c) = {} THEN DefaultStatistics ELSE {}

\* makeDestinations is at a table, with the entries todo still to make; ids
\* and errors are its local variables.
At(phase, todo) == [phase |-> phase, todo |-> todo, ids |-> {}, errors |-> {}]
Idle == At("none", {})
InTable == call.phase \in {"ordinary", "statistics"}

Init ==
    /\ isStarted = FALSE
    /\ destinations = [id \in {} |-> Absent]
    /\ cleanSlate = TRUE
    /\ call = Idle
    /\ config = Absent
    /\ made = {}
    /\ reported = {}

Store(id, kind, entry) ==
    /\ destinations' = [x \in DOMAIN destinations \cup {id} |->
                          IF x = id THEN [kind |-> kind, entry |-> entry, loud |-> TRUE]
                                    ELSE destinations[x]]
    /\ made' = made \cup {id}

\* An exception leaves StartMessageFacility.
Throw == call' = Idle /\ UNCHANGED <<isStarted, destinations, cleanSlate, config, made, reported>>

\* Start returns at once when the facility is started.
Start(c) ==
    /\ call = Idle /\ ~isStarted
    /\ call' = At("early", {})
    /\ config' = c
    /\ made' = {}
    /\ reported' = {}
    /\ UNCHANGED <<isStarted, destinations, cleanSlate>>

\* cerr_early is made, again if need be; it logs everything for now.
MakeEarly ==
    /\ call.phase = "early"
    /\ Store(Early, "ordinary", DefaultDestination("cerr_early"))
    /\ call' = At("configure", {})
    /\ UNCHANGED <<isStarted, cleanSlate, config, reported>>

\* The plugin of cerr_early is missing, or the configuration has parameters
\* that there are none of.
EarlyThrows == call.phase \in {"early", "configure"} /\ Throw

\* Slips: cerr_early alone counts as an earlier configuration; cerr_early is
\* not dialed down.
SlipNeverClean ==
    /\ call.phase = "configure"
    /\ cleanSlate' = (cleanSlate /\ Cardinality(DOMAIN destinations) < 1)
    /\ destinations' = [destinations EXCEPT ![Early].loud = FALSE]
    /\ call' = At("ordinary", OrdinaryDests(config))
    /\ UNCHANGED <<isStarted, config, made, reported>>
SlipStillLoud ==
    /\ call.phase = "configure"
    /\ cleanSlate' = (cleanSlate /\ Cardinality(DOMAIN destinations) <= 1)
    /\ call' = At("ordinary", OrdinaryDests(config))
    /\ UNCHANGED <<isStarted, destinations, config, made, reported>>

\* configure(): cerr_early is dialed down, the ordinary table begins.
Configure ==
    /\ call.phase = "configure"
    /\ cleanSlate' = (cleanSlate /\ Cardinality(DOMAIN destinations) <= 1)
    /\ destinations' = [destinations EXCEPT ![Early].loud = FALSE]
    /\ call' = At("ordinary", OrdinaryDests(config))
    /\ UNCHANGED <<isStarted, config, made, reported>>

(***************************************************************************)
(* One turn of makeDestinations's loop, for entry e, in the order in which *)
(* the code looks at things.  The order of the entries is that of          *)
(* get_pset_names(), which is not the program's to choose.                 *)
(***************************************************************************)
StatisticsTypes == {"cout", "cerr", "file"}

\* A slip: any type will do for statistics.
SlipUnsupported(e) == FALSE

Unsupported(e) == call.phase = "statistics" /\ e.type \notin StatisticsTypes

\* A slip: the ids of a table are not remembered.
SlipRepeated(e) == FALSE

Repeated(e) == call.phase = "statistics" /\ OutputId(e) \in call.ids

\* The entry is refused at once.
Rejected(e) == \/ e.type = Absent
               \/ Unsupported(e)
               \/ Repeated(e)
               \/ OutputId(e) \notin DOMAIN destinations /\ ~e.plugin

\* Slips: what is in the map is made again; a duplicate is passed over.
SlipTaken(e) == FALSE
SlipReport(e) == IF call.phase = "statistics" THEN reported ELSE reported \cup {e}

Taken(e) == OutputId(e) \in DOMAIN destinations
Report(e) == reported \cup {e}

Make(original) ==
    LET e == Completed(original)
    IN  /\ InTable /\ original \in call.todo
        /\ ~Rejected(e)
        /\ \/ /\ Taken(e)
              /\ reported' = Report(e)
              /\ call' = [call EXCEPT !.todo = @ \ {original}, !.ids = @ \cup {OutputId(e)}]
              /\ UNCHANGED <<destinations, made>>
           \/ /\ ~Taken(e) /\ e.valid
              /\ Store(OutputId(e), call.phase, e)
              /\ call' = [call EXCEPT !.todo = @ \ {original}, !.ids = @ \cup {OutputId(e)}]
              /\ UNCHANGED reported
           \/ /\ ~Taken(e) /\ ~e.valid
              /\ call' = [call EXCEPT !.todo = @ \ {original}, !.ids = @ \cup {OutputId(e)},
                                      !.errors = @ \cup {e}]
              /\ UNCHANGED <<destinations, made, reported>>
        /\ UNCHANGED <<isStarted, cleanSlate, config>>

MakeThrows == InTable /\ (\E e \in call.todo : Rejected(Completed(e))) /\ Throw

\* The ordinary table is done: on to the statistics table.
EndOfOrdinary ==
    /\ call.phase = "ordinary" /\ call.todo = {} /\ call.errors = {}
    /\ call' = At("statistics", StatDests(config))
    /\ UNCHANGED <<isStarted, destinations, cleanSlate, config, made, reported>>

\* The statistics table is done: the facility is started.
EndOfStatistics ==
    /\ call.phase = "statistics" /\ call.todo = {} /\ call.errors = {}
    /\ isStarted' = TRUE
    /\ call' = Idle
    /\ UNCHANGED <<destinations, cleanSlate, config, made, reported>>

\* A table is done that had entries with errors.
TableThrows == InTable /\ call.todo = {} /\ call.errors # {} /\ Throw

\* A slip: the destinations go with the facility.
SlipEnd ==
    /\ call = Idle /\ isStarted
    /\ isStarted' = FALSE
    /\ destinations' = [id \in {} |-> Absent]
    /\ UNCHANGED <<cleanSlate, call, config, made, reported>>

\* finish() of the destinations does nothing: they stay.
EndMessageFacility ==
    /\ call = Idle /\ isStarted
    /\ isStarted' = FALSE
    /\ UNCHANGED <<destinations, cleanSlate, call, config, made, reported>>

Next ==
    \/ \E c \in Configurations : Start(c)
    \/ MakeEarly
    \/ EarlyThrows
    \/ Configure
    \/ InTable /\ \E e \in call.todo : Make(e)
    \/ MakeThrows
    \/ EndOfOrdinary
    \/ EndOfStatistics
    \/ TableThrows
    \/ EndMessageFacility

Spec == Init /\ [][Next]_vars
--------------------------------------------------------------------------------
(***************************************************************************)
(* Properties.                                                             *)
(***************************************************************************)
Phases == {"none", "early", "configure", "ordinary", "statistics"}

\* Whatever Starts failed, the map holds only destinations that could be made:
\* valid ones, of a known plugin, statistics of a type that supports them.
TypeOK ==
    /\ isStarted \in BOOLEAN /\ cleanSlate \in BOOLEAN
    /\ call.phase \in Phases /\ (isStarted => call = Idle)
    /\ config \in Configurations \cup {Absent}
    /\ made \subseteq DOMAIN destinations
    /\ \A id \in DOMAIN destinations :
         LET d == destinations[id]
         IN  /\ d.entry.plugin /\ d.entry.valid
             /\ d.kind = "statistics" => d.entry.type \in StatisticsTypes

\* Every entry of the configuration of a started facility is in effect, or
\* was reported as a duplicate: no instruction is ignored silently, however
\* many Starts failed or ended before.
NothingIgnoredSilently ==
    isStarted =>
      \A e \in OrdinaryDests(config) \cup StatDests(config) :
         LET f == Completed(e)
         IN  \/ OutputId(f) \in made /\ destinations[OutputId(f)].entry = f
             \/ f \in reported

\* "Only original configuration instructions are used" (makeDestinations's
\* report): no step changes or removes a destination once it was made, but for
\* cerr_early, over all Starts, failures and Ends.
OriginalInstructions ==
    [][\A id \in DOMAIN destinations \ {Early} :
          id \in DOMAIN destinations' /\ destinations'[id] = destinations[id]]_vars

\* cerr_early is remade loud by every Start, but silent again before the Start
\* makes any other destination and whenever the facility is started: cerr does
\* not show the messages that other destinations are meant to filter.
EarlySilent ==
    isStarted \/ made \ {Early} # {} => Early \in DOMAIN destinations /\ ~destinations[Early].loud

\* Once a Start has come to its tables, it knows whether it is the first to
\* make destinations: that decides if duplicates are errors or warnings.
CleanSlate ==
    InTable => (cleanSlate <=> DOMAIN destinations = made)

\* No two entries of the statistics table of a started facility share an
\* output, so no two statistics destinations write to one file.
StatisticsDistinct ==
    isStarted => \A e, f \in StatDests(config) :
                    OutputId(Completed(e)) = OutputId(Completed(f)) => e = f

(***************************************************************************)
(* The life of the facility in MessageLogger: one thread, in no call, and  *)
(* no message.                                                             *)
(***************************************************************************)
Possible == Entries \cup DefaultDestinationSet \cup DefaultStatistics
Outputs == {Early, <<"cerr">>} \cup {OutputId(Completed(e)) : e \in Possible}
ASSUME NumberAssumption == \A id \in Outputs : Number(id) \in Nat \ {0}

Dispatcher == INSTANCE MessageLogger WITH
    Threads <- {"main"}, NoThread <- Absent,
    Ids <- {Number(id) : id \in Outputs}, EarlyId <- Number(Early), CerrId <- Number(<<"cerr">>),
    MaxExceptions <- 25, Throwing <- {}, Crashing <- {}, Reentrant <- {},
    MaxMsgs <- 0, MaxDepth <- 1,
    isStarted <- isStarted,
    destinations <- {Number(id) : id \in DOMAIN destinations},
    purgeMode <- FALSE, count <- 0, exiting <- FALSE, mutex <- [owner |-> Absent, depth |-> 0],
    depth <- [t \in {"main"} |-> 0],
    frame <- [t \in {"main"} |-> [k \in 1 .. 1 |->
                [pc |-> "none", msg |-> 0, last |-> 0, nested |-> FALSE]]],
    created <- 0, parent <- [m \in 1 .. 0 |-> 0], freed <- [m \in 1 .. 0 |-> 0],
    offered <- [i \in {Number(id) : id \in Outputs} |-> <<>>],
    audience <- [m \in 1 .. 0 |-> {}], failedAt <- [m \in 1 .. 0 |-> 0],
    elsewhere <- {}, late <- 0, crashed <- FALSE

\* Each step of a Start, an exception included, is a Start of MessageLogger
\* that adds some destinations, or no step; only the last one starts it.
ImplementsDispatcher == Dispatcher!Spec
===============================================================================
