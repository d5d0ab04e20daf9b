# TLA+ models and proofs of the message facility

The message facility is a logging library. User code writes messages with
`LogInfo("category") << ...`; a message is handed to every *destination* (cerr,
cout, a file, syslog, ...), each of which decides by threshold and limits
whether to print it, counts it, and reports the counts in a summary. The
modules here model that path from the constructor of a message to the text in a
log file, with the threads, the exceptions and the life of the facility around
it. TLC checks them on small instances; the modules whose names end in `Proofs`
prove every safety and action property it checks, refinements included, for
every value of the constants (section 6).

Paths below are relative to `src/messagefacility/`.

## 1. Inventory

### Limiter of a message type: `ELdestination::skipMsg` (`MessageService/ELdestination.cc:745-831`)
*State*: one `XidLimiter` per message type (severity, category, module,
subroutine) in the map `xidLimiters_`: count, time of the last occurrence,
prescale counter, and the three parameters `limit`, `reportEvery`, `timespan`,
taken from the category's configuration or the "default" category's.
*Operations*: find or create, count, restart after a quiet timespan, prescale,
compare with the limit, fall off exponentially; forget (reset).
*Hard*: long sequences in which the prescale counter, the count toward the limit
and the restart interact; inheritance by sign; boundaries of the arithmetic.
*Correct when*: exactly the occurrences are logged that the texts of the three
parameters, which the program shows its users, name.

### Destination (`MessageService/ELdestination.cc`, `.h`) and statistics (`ELstatistics.cc`)
*State*: threshold, parameters of categories, limiters, `statsMap_` (counts and
example contexts per message type), `updatedStats_`, two flags.
*Operations*: construction, which rejects misconfigured categories; `log`,
`summary` (`formSummary`, `summarizeContext`), `setThreshold`, `flush`,
`resetLimiters`; `ELstatistics` overrides `log` and `summary`.
*Hard*: `routePayload` may throw, after the limiter has moved and before the
statistics have; summaries, resets and failures in any order; the footnote and
the table by severity are put together while the rows are printed.
*Correct when*: nothing is lost or counted twice between what was logged, what
is held and what summaries have said; a summary is printed iff there is news,
and its parts agree.

### Extended ids (`Utilities/ELextendedID.cc`)
The keys of both maps, compared by a nest of conditionals over four of their
members. *Correct when*: the comparison is the strict order that `std::map`
needs, and two messages share a limiter and a row exactly when severity,
category, module and subroutine agree.

### All destinations: `LogStatistics`, `summarize`, `sendMsgToDests` (`MessageLogger/MessageLogger.cc`)
Loops over the map of destinations; the first exception ends one.
*Hard*: the destinations before the one that throws have changed, those after
it have not, and this happens again and again between Starts and Ends.
*Correct when*: the destinations' counts differ by the exceptions and nothing
else, and none takes for told what it did not tell.

### Dispatcher: `LogErrorObj`, `logMessage`, `sendMsgToDests` (`MessageLogger/MessageLogger.cc`)
*State*: `isStarted`, `destinations_`, `purgeMode_`, `count_`, the recursive
mutex `msgMutex_`, and each thread's nested calls (a destination may log).
*Operations*: one call is several steps: test `isStarted`, test `purgeMode_`,
lock, send to each destination in map order, delete, unlock.
*Hard*: interleavings of threads; the tests before the lock are stale after it;
re-entrant destinations; an exception in the middle of the map; five ways out of
a call, each responsible for a raw pointer.
*Correct when*: mutual exclusion, one deletion per message, delivery to every
destination up to the one that throws, in one order; every message ends.

### Life of the facility: `StartMessageFacility`, `configure`, `makeDestinations`, `EndMessageFacility` (same file)
*State*: `isStarted`, `destinations_`, `cleanSlateConfiguration_`, and the local
variables of a Start under way.
*Hard*: a Start that throws leaves the destinations made so far in the map, and
End leaves all of them; the next Start meets them.
*Correct when*: no instruction of a configuration is silently ignored; what was
made first stays; `cerr_early` is silent once others exist.

### Message under construction: `MaybeLogger_` (`MessageLogger/MessageLogger.h`), `ErrorObj` (`Utilities/ErrorObj.cc`)
*State*: loggers that own a message one after the other, the message's header,
items, and its string stream with format flags; the thread-local module name and
iteration.
*Hard*: loggers move within and between threads; one stream serves all
insertions; the category is cut for limits but not in the text.
*Correct when*: one owner, one release; the text that comes out reads back as
what was put in, in every format.

### Layout: `emitToken`, `fillPrefix`, `fillUsrMsg`, `fillSuffix` (`ELdestination.cc:407-558`), `plugins/syslog_mfPlugin.cc`
No state but the column counter `charsOnLine_` of the line being written, and
`needAspace`. *Correct when*: fields stay apart and in place for each of the
combinations of format flags, line lengths and empty fields.

### Severity levels (`Utilities/ELseverityLevel.cc`)
A map of names filled level by level, names colliding on the way, and a lookup
that never fails. *Correct when*: a threshold's name means its level.

### Names in messages: `initGlobalVars`, `SetHostName` ... (`MessageLogger/MessageLogger.cc:105-167,233-246`)
*State*: `hostname_`, `hostaddr_`, `application_`, `pid_`, which keep what an
earlier Start found. *Operations*: Start looks them up, four setters, and
`sendMsgToDests` gives them to a message that has none.
*Hard*: the search of the interfaces reads what was found before; `pid_` is used
before it is assigned. *Correct when*: a Start finds an address of this host
whatever the system answers.

### Received messages (`Utilities/MessageFacilityMsg.cc`)
A message with setters and getters for its parts, by which processes outside
this repository hand messages on to each other. The parts of the text are found
by their position among the items. *Correct when*: what was set is what the
getters say, over any number of processes, and what is logged in the end.

### The rest
Configuration descriptions, exception classes, what plugins do with libraries,
build files: see section 7.

### How they interact
A `MaybeLogger_`'s destructor calls `LogErrorObj`; that calls `log()` of each
destination under `msgMutex_`; `log()` asks the destination's limiter and makes
the text (Layout). A received message is copied out of its
`MessageFacilityMsg` and takes the same way, with the names it brought.
`LogStatistics` calls `summary()` of each destination without
the mutex, "from single-threaded mode only", as are Start and End. Shutdown (the
static `FinalShutdown`) is the one part of the facility's life that runs
whatever other threads do.

## 2. Modules

| module | models | extends / instantiates |
|---|---|---|
| `XidLimiter` | the limiter as a record, `skipMsg` as operators on it, a category's parameters | |
| `LimitPolicy` | *abstract*: what the texts of the three parameters promise, in terms of occurrences only | |
| `Limiter` | one message type at one destination, a clock, resets | `XidLimiter`; implements `LimitPolicy` |
| `Severity` | levels, names, lookup of a name | |
| `ELextendedID` | ids and their comparison | `Severity` |
| `ELdestination` | a destination as a record, its constructor, `log`, `summary`, ... as operators on it | `XidLimiter`, `ELextendedID` |
| `Destination` | one destination over its life, exceptions included | `ELdestination` |
| `Facility` | several destinations, the loops over them, Starts that fail to construct one | `ELdestination`; implements `Destination` for each |
| `MessageLogger` | dispatcher, threads, mutex, purge mode, Start/End/shutdown | |
| `Startup` | how a Start makes destinations, entry by entry, and fails | implements `MessageLogger` (its life of the facility) |
| `Layout` | the text of a message, in words, spaces and line breaks; the columns of syslog and sqlite | `Severity` |
| `ErrorObj` | a message as a record, and its operations | `Layout` |
| `Message` | loggers, insertions, release, what is printed | `ErrorObj` |
| `MessageFacilityMsg` | a received message, its setters and getters | `ErrorObj` |
| `Names` | what this process calls itself, messages received, passed on, copied, forwarded | `MessageFacilityMsg` |
| `LimiterProofs`, `DestinationProofs`, `FacilityProofs`, `MessageLoggerProofs`, `StartupProofs`, `MessageProofs`, `NamesProofs` | theorems | the module each is named for; all but the fourth and fifth also `FoldProofs`, the third `DestinationProofs` |
| `FoldProofs` | lemmas: induction over finite sets and numbers, sums, greatest members, `FlattenSeq`, names of levels | `Severity` |
| `MC*` | instances for TLC | |

Three refinements tie the levels together: `Limiter!ImplementsPolicy` (counters,
prescale state and halving loop implement the documented policy),
`Startup!ImplementsDispatcher` (every step of a Start, its exceptions
included, is the one atomic Start of `MessageLogger`, or no step of it) and
`Facility!EachDestination` (whatever a loop over the destinations does, and
wherever an exception ends it, each destination takes a step of `Destination`
or none, so what is proved of one alone holds of each, which `FacilityProofs`
states as theorems).

State corresponds to members and globals of the same name without the trailing
underscore. Variables named "History" in the modules are not in the code: they
record what the environment did (occurrences offered, messages released, what
the user inserted), so the properties compare the program with that and not with
itself. Definitions that begin with `Slip` are plausible mistakes; nothing uses
them, they exist so that each property can be seen to notice one.

### How actions correspond to code
* *Limiter*: `SkipMsg` is one call of `skipMsg`: `NewLimiter` (first occurrence),
  `Count` (lines 775-790), `Accepts` and `Decide` (791-831).
* *Destination*: `LogReturns`/`LogThrows` are the two ends of `log()`,
  `SummaryReturns`/`SummaryThrows` those of `summary()`. They are atomic since
  the mutex, or the single-threaded contract, excludes everything else.
  `FormSummary` is what a summary says: rows, footnote, sums by severity.
* *Facility*: `LogMessage(x, context, stop)` is one turn of `sendMsgToDests`'s loop
  that ends at the destination in `stop`, `LogStatistics(stop)` that of
  `summarize()`. Exceptions of the first count toward purge mode. `Made(new)` is
  what a Start adds when some of its destinations cannot be constructed.
* *MessageLogger*: a call is at one of five places (`PCs`): before the read of
  `isStarted`, before that of `purgeMode_`, before the lock, in the loop over the
  destinations, before the unlock. Each action goes from one to the next, so
  every other thread may act in between. A nested call is a further frame of the
  same thread. `LogReturns`, `LogReenters`, `LogThrows` are what `log()` of the
  next destination in map order may do. A `cet::exception` counts toward purge
  mode; anything else turns it on at once.
* *Startup*: `Make(e)` is one turn of the loop in `makeDestinations`, in the order
  of its tests; `EarlyThrows`, `MakeThrows` and `TableThrows` are the places an
  exception leaves from. A plugin that throws leaves nothing behind: the
  project is built as C++17 (qualifiers e17/e19), which evaluates `makePlugin_`
  before `destinations_[outputId]`.
* *Message*: `Construct`, `Insert`, `Move`, `Release` and `DestroyEmpty` are what a
  logger's constructor, `operator<<`, move and destructor do. `Release` signs the
  message with the releasing thread's module and iteration and prints it with
  any of the destinations, or to cerr while the facility is not started.
* *Names*: `StartMessageFacility` is `initGlobalVars`, `Rename` one of the four
  setters. `Set`, `PassOn` and `Copy` are what other programs do with a
  `MessageFacilityMsg`: which setters they call and that they set what they read
  (`PassedOn`) is outside this repository and marked external. `Forward` and
  `LogLocal` send a message through `sendMsgToDests` to syslog or sqlite, the two
  destinations that write names.

## 3. Runs

| run | question | bounds |
|---|---|---|
| `policy` | Do the logged occurrences follow the documented policy? | 9 occurrences between restarts, clock to 5; limits -1, 0, 1, 3, prescales -1, 0, 2, 3, timespans -1, 2 or not given, for a category and for the default. Limit 1 reaches 1+2^3 and limit 3 reaches 3+3*2, past non-multiples and non-powers; timespan 2 gives gaps below, at and above it |
| `statistics` | Are occurrences conserved over summaries, resets, failures, threshold changes, each in the row of its own type, and does a summary say what is so? | 5 types: for each of severity, category, module and subroutine a pair that it tells apart, with the members after it the other way round. 4 occurrences in all, of whatever types, so the fourth of one type overwrites its last example; one failure of each type; thresholds raised. Destinations of both kinds, with and without reset, with and without statistics; a prescaling category restarted after its timespan. The context of an event, which does not fit its column of 3 characters, and the empty one of flushes; `ContextsShown` evaluates `Names` and `Cut` for contexts that do fit and for those of no event |
| `facility` | What do destinations have in common when loops over them are cut short? | 3 destinations (ordinary, prescaling and possibly misconfigured, statistics), 2 types above and below the threshold, 2 messages of each, columns of 2 characters, purge after 2 exceptions, Starts with any subset |
| `dispatch` | Is dispatching safe in every interleaving, and does every message end? | 3 threads, 4 messages, nesting of 2, a destination that throws, crashes and re-enters and one that does not, purge after 2 exceptions; Starts with any set of destinations, End and shutdown anywhere they are allowed |
| `startup` | What do sequences of Starts and Ends make? | 11 configurations: those of the tests, and one for each way to fail; sequences of any length (the state is finite) |
| `message` | Does the text read back? | 2 threads, 2 messages, 2 insertions of 6 kinds, formats with lines too short and long enough for a header, and the columns of syslog and sqlite |
| `forwarded` | Does a received message keep what it says, and does this process know its address? | 2 Starts in 7 environments (name looked up or not, interfaces in all orders that matter), 3 calls for the message out of every setter with good and bad values, passing on and copying |

The bounds are counters in guards (`MaxMsgs`, `MaxTime`, `MaxFailures`,
`MaxInsertions`, `MaxDepth`, `MaxStarts`, `MaxCalls`, and `MaxOccurrences`, which
`MCDestination` counts down over all types). `MaxExceptions` is 25 in
the code and 0 or 1 in the runs: only the comparison with it matters. The same
goes for `ContextWidth`, 16 in the code, and `lineLength`: contexts and headers
on both sides of it occur. The
symmetry set of `message` permutes threads and loggers, which no property tells
apart; `dispatch`, which checks liveness, uses none.

What they show, by hazard: `ImplementsPolicy`, `Spaced`, `FirstShown`
(limits); `Conservation`, `UpToDate`, `LimitersFollowStatistics`, `SummaryTells`,
`ExampleContexts` (statistics under partial failure); `RowsSorted` (ids);
`Accounted`, `SummariesInOrder`, `EachDestination` (loops that an exception
ends); `MutualExclusion`, `DeletedOnce`, `Delivered`, `SameOrder`, `PurgeJustified`, `PurgeDrains`,
`HasDestinations`, `NobodyStuck`, `EveryMessageEnds` (dispatching); `NothingIgnoredSilently`,
`OriginalInstructions`, `EarlySilent`, `CleanSlate`, `StatisticsDistinct`
(configuration); `OneOwner`, `ThresholdKept`, `TextReadsBack`,
`HeaderReadsBack`, `FieldsApart` (messages); `ReadsBack`, `ForwardedWhole`,
`AddressFound` (names and received messages).

## 4. Where code and text disagree

Five runs end in a counterexample to a sentence of the repository:

| run | sentence | what the code does |
|---|---|---|
| `timespan_zero` | "A value of zero or less disables the timespan functionality" (`ELdestination.cc:87`) | zero restarts the count at every occurrence, so the limit never applies |
| `report_every` | "If the value is zero or less, then the report-every feature is disabled" (`:73`) | a negative value of a category inherits the default category's |
| `after_purge` | "MessageLogger will no longer be processing messages" (`MessageLogger.cc:451`) | a thread that was already past the test still sends its message; `PurgeDrains` shows that it is at most one for each other thread |
| `names` | "str may match ... getVarName", "example: ELerror" (`ELseverityLevel.h:43,53`) | the stored name is padded with blanks; "ELerror" is *unspecified*, above error |
| `application` | "get process name from '/proc/pid/cmdline'" (`MessageLogger.cc:152`) | `pid_` is read before it is assigned, so the first Start looks for process 0 and finds no name |

Three reference outputs do not fit this code either; no run is about them:
* The one of the test `statistics.fcl` has a summary although `outputStatistics` is
  off unless configured and that file does not configure it.
* `destination_file_categories/file_categories.log` shows, from line 25 on, both
  `TimeReport` messages, which are of one type, under a default category with
  `reportEvery: 10`. By `skipMsg`, by `Spaced` and by the text of the parameter only
  the first of them is printed.
* `test/MessageService/fcl/destination_file_noLineBreaks.fcl` sets
  `format.noLineBreaks: true`, and lines 1-3 of its `noLineBreaks.log` (under
  `test/MessageService/output-references/ELdestinationTester/destination_file_noLineBreaks/`)
  have header, text and `%MSG` on lines of their own. `fillUsrMsg` writes " ==> " for
  the line break (`ELdestination.cc:539-540`) and `fillSuffix` leaves out the trailer
  (`:554`). Which of the two is meant is open, so `TextReadsBack` admits either
  separator and either ending for this format and claims only that header and
  text are whole, in order, and set apart; `Layout` follows the code.

The outputs seem to be of older versions: nothing compares with them but
`test/MessageService/compare-to-references.sh`, which no test runs.

Of the runs, the first two are about cases left out of `policy` (`Agreeing` in `MCLimiter`) and of the
theorems (`Regular`): elsewhere the code and the descriptions of the parameters
agree.

## 5. Fairness

`FairSpec` of `MessageLogger`, under which `dispatch` checks `EveryMessageEnds`,
has weak fairness of `Step(t)` for each thread: a thread inside a call is scheduled until the call ends. Nothing is assumed of
releasing messages, or of Start, End and shutdown. `log()` of a destination
returns or throws: the code has no loop in it that could run for ever. Weak
fairness suffices for the mutex only because there are finitely many messages:
a waiting thread cannot be overtaken for ever. For unboundedly many messages the
code has no such guarantee, as `std::recursive_mutex` is not fair.

## 6. Proofs

All properties that the passing runs check are also theorems, but for the one
liveness property ("Only model-checked", at the end of this section). Each run's
invariants hold for any number of threads, destinations, message types,
configurations, loggers and so on; the assumptions are named where they matter.

### `FoldProofs`: what the proofs need of sets, numbers and sequences
The induction theorems of the library take an operator, which the provers cannot
be given; but an induction hypothesis can be a *set*. `SetInduction` (a set of
finite sets that has the empty one and grows by single elements) follows from
well-foundedness of the proper subsets of a finite set, `NumberInduction` from
that for intervals. With these a recursively defined function is shown to exist
by induction over its length and unfolded one step at a time: so for `SumOf` (the
sums of `Destination` and `Facility`), for `FlattenSeq`, for `Max`, and in
`MessageProofs` and `NamesProofs` for the folds of the code's own loops.
`FlattenMore` says what one more item does to a flattened text, `LastFitting` that
`SelectLastInSubSeq` finds the last place that fits. What both proofs about messages
need of the names of levels is here too: `FromNameIs` and `InputStrsApart` go
through the 36 stores of `loadMap`, of which a later one replaces an earlier, and
`LevelOfName` and `MessageLevelOfName` say which level a name then stands for.

### `LimiterProofs`: for every limit, prescale, timespan, bound
`LimiterTypeCorrect` (TypeOK), `PrescaleKept` (Spaced), `FirstOccurrenceLogged`
(FirstShown), `LimitKept` (FallOff, what TimespanDisabled builds on; the runs check
ImplementsPolicy, which implies it) and the refinement `PolicyImplemented`
(ImplementsPolicy): the code logs exactly what `LimitPolicy` promises. Assumption:
each configuration is `Regular`, i.e. outside the first two corners of section 4.
The properties speak of `issued` and `shown`, which no field of the limiter
determines, so they are not inductive. `Tracks` relates them: the count in the
limiter is `issued`, its parameters are those found for the message, and every
logged occurrence lies at least `skippedMsgCount` before the last one. With that,
an occurrence that passes `skippedMsgCount >= reportEvery` is that far from all
logged ones. `FoundIsDocumented` shows that inheritance by sign and by table come
to the same, `FallOffMultiple` that past the limit only multiples are accepted.
For the refinement `Tracks` also says, by `Since`, that the last logged occurrence
is exactly `skippedMsgCount` ago, or that the count still carries the head start
with which its first occurrence is let through; then the prescaling of the code
lets an occurrence through exactly if it is due (`AcceptsDocumented`). `HalvingLoop`
shows that the loop that shifts right until a number is odd recognises the powers
of two, `FallOffPowers` that the fall-off is therefore limit + limit * 2^k.

### `DestinationProofs`: for every configuration, all message types, any bounds
`DestinationTypeCorrect` (TypeOK), `NothingLost` (Conservation), `FlagUpToDate`
(UpToDate), `LimitersAndStatistics` (LimitersFollowStatistics), `MapsSorted`
(RowsSorted), `ExamplesNamed` (ExampleContexts) and, if the message types are
finitely many, `SummaryIsRight` (SummaryTells). Assumptions: `ConfigsAssumption` and `ThresholdsAssumption` (what
validation and the lookup of levels make sure of), `StringOrderAssumption` (a
total order of strings), `ContextsAssumption` (texts are texts),
`ContextWidthAssumption` (the width is a number) and the bounds. `IInv` joins the type of the whole
record with what Conservation and UpToDate need of each other:
* `Told`: after a summary that resets, no row is left, and without resets no type
  was told of that has no row. Conservation adds up two numbers, and a step that
  moves a count from one to the other keeps the sum only if what is replaced or
  forgotten was zero or told.
* `RowsRight` and `LimitersRight`: a row has more occurrences than reactions
  exactly if it has a star, and rows and limiters exist only once they have
  counted; the type invariant says so and the step from `NewStats` needs it.
* One lemma per operation (`LogType`, `WithLimiterType`, `RecordedType`,
  `SummarizedType`) says what it makes of the record, so the steps of the
  invariant are about counts only.
* The maps find a key by `Less` (`KeyOf`), as `std::map` does, so every step needs that
  they find the right one. `TypesSorted` shows for any total order of strings that
  `Less` is a strict order whose equivalence is equality of types, `KeyIs` that an id
  therefore leads to its own row and limiter and to no other.
* For ExampleContexts the invariant counts: a row without a star has as many
  reactions as contexts were reacted to, so the next slot is the one its number asks
  for (`AddColumn`). What is kept of a context is its short form's first
  `ContextWidth` characters, for any width (`CutIs`, `ShortName`).
* `SummaryTells` compares sums: of the table by severity, of its rows, and of the
  occurrences by severity since the last reset. `SumOf` splits by single types,
  so what a step adds to one type it adds to the one sum that type is in.

### `FacilityProofs`: for any destinations, configurations, types, bounds
`EachIsADestination` (EachDestination), `DestinationRefined` (the same as
`Spec => Dest(i)!Spec`), `ToldInOrder` (SummariesInOrder), `AccountsBalance`
(Accounted). Assumptions: `SetupsAssumption` (each output id's configurations
pass validation), `ContextsAssumption`, `ContextWidthAssumption`, and `BoundsAssumption`, by which no
destination's `int` counters overflow.
* A loop that an exception ends at `stop` takes each destination before it through
  a whole `LogReturns` or `SummaryReturns`, `stop` through the throwing one, and
  leaves the others: one lemma for each of these and each of `Destination`'s
  steps, with the instance `Dest(i)` spelled out.
* So the theorems of `DestinationProofs` hold of each destination of the facility:
  `EachKeepsItsPromises` (Conservation, UpToDate, LimitersFollowStatistics,
  RowsSorted, ExampleContexts) and `EachSummaryTells`. The prover does not carry
  theorems over to an instance with a parameter; they are stated of `Alone`, which
  instantiates `DestinationProofs` for a constant `Picked`, any of the ids.
  `AloneAssumptions` derives what `Destination` assumes of its constants from what
  `Facility` assumes of its own, and `AloneSpec` its specification from that of
  the facility, as `DestinationRefined` does for `Dest(i)`.
* `AccountInv`, for Accounted, adds to it that a destination not made yet was given
  nothing: a Start adds destinations at any place of the order. The exceptions that
  kept a message from a destination are a sum over those before it, so one at
  `stop` is added to the sum of each destination from `stop` on (`TotalMore`).

### `MessageLoggerProofs`: for any threads, destinations, depth, messages
`DispatcherTypeCorrect` (TypeOK), `SectionExclusive` (MutualExclusion),
`DeletedExactlyOnce` (DeletedOnce), `NeverWithoutDestinations`
(HasDestinations), `PurgeOnlyIfJustified` (PurgeJustified), `FewAfterPurge`
(PurgeDrains), `EveryMessageDelivered` (Delivered), `SameOrderEverywhere`
(SameOrder), `NoDeadlock` (NobodyStuck). No assumptions beyond
those on the constants, of which `ThreadsAssumption` (finitely many threads) is
for PurgeDrains only.
* `LockInv`: all calls of a thread but the innermost are sending, and the calls in
  the critical section are exactly the outermost `mutex.depth` calls of the
  owner. So a thread that locks again holds the mutex for each call above the
  innermost (`LockDepth`), and an unlock gives it up just when the outermost call
  leaves. TypeOK needs this too: else the lock depth is not bounded by nesting.
* `StartInv`: once the facility was started, or a call got past `isStarted`, the
  map is not empty; nothing removes from it.
* `OwnInv`: no two calls under way have the same message; a message is deleted
  iff no call uses it. `KeepOwn`, `DeleteOwn` and `CreateOwn` are the three things
  a step can do to it.
* PurgeDrains counts the messages that got in after the announcement against the
  threads that still may: those past the test of `purgeMode_` and not yet in the
  section. Each that enters leaves that set, and none joins it.
* Delivered: what a message under way has been offered to is the part of the map
  before its `next` destination; the call under way knows its message, so the
  invariant is about calls, and becomes one about messages when a call ends.
* SameOrder: a message that is not above another (its ancestors by `parent`, the
  least closed set `Above`) was finished before the other entered the section
  or entered after it, so every destination saw them in that order.
* NobodyStuck is what safety says of waiting; that threads which can go on do so is
  fairness. By `LockInv` the owner of the mutex has it for a call that sends, leaves
  or locks once more for a nested call, none of which waits; and since ids are
  numbers, the destinations a loop has not come to have a least one.

### `StartupProofs`: for any set of configurations
`TypeCorrect` (TypeOK), `EarlyIsSilent` (EarlySilent), `SlateIsTrue` (CleanSlate),
`NoneIgnoredSilently` (NothingIgnoredSilently), `StatisticsAreDistinct`
(StatisticsDistinct), `OriginalsStay` (OriginalInstructions) and
`StartImplementsDispatcher` (ImplementsDispatcher). Assumptions:
`EntriesAssumption` and `NamesAssumption` (what an fhicl table is) and
`NumberAssumption`: output ids stand for numbers other than 0, the mark of "no
destination" in the dispatcher. The invariant follows one Start through its
tables: of the entries no longer to do each is in effect or was reported,
the statistics already looked at have distinct outputs, and the slate is clean
exactly as long as all that is in the map was made in this Start.

### `MessageProofs`: for any threads, loggers, statements, insertions, formats
`TypeCorrect` (TypeOK), `ReleasedOnce` (OneOwner), `ThresholdsKept`
(ThresholdKept), `TextsReadBack` (TextReadsBack), `HeadersReadBack`
(HeaderReadsBack), `FieldsAreApart` (FieldsApart). Assumptions: what statements, insertions, contexts and process
names are; destinations are of one of the three kinds; `NumbersAssumption`, that
`Decimal` writes a number as a string (the prover knows nothing of `ToString`);
`DeletedAssumption`, that the mark of a deleted message is no message; and that
the two names in `ContextsAssumption` are texts, which TLC can see and the prover
cannot.
* OneOwner is not inductive as it counts owners: `OwnersRight` says who they are,
  that a message with an owner was not released and one without was, once.
  `Move` is the step to prove it for: the message has another owner afterwards,
  and the logger moved from none of it.
* ThresholdKept joins three things. The threshold's name stands for its level
  (`LevelOfName`). The message has its statement's severity from
  `ObjectRight`. And what is not below the threshold is not printed as nothing,
  whatever the format: `FillPrefixText` and the lemmas around it show for each
  part of a line that it is text, and `PayloadNotEmpty` and `ColumnsNotEmpty`
  that the whole has some.
* Both properties of reading back rest on `TextsRight`: flattened, the items of a
  message are the text its user is to find again, its stream has the base last
  set, and its subroutine is the one last given. `ExpectedMore` says what one more
  insertion does to what is expected, `InsertionTold` what `operator<<` does to
  the message. `Given`, the name as stored, still has spaces in it that no reader
  sees.
* TextsReadBack assumes, in its statement, `NamesUnbroken`: no category, file,
  module, iteration or subroutine has a line break or " ==> " in it. The code does
  not see to that, and a reader could not tell such a header from the text; what the
  user inserts is free. `FillPrefixText` then carries `Unbroken` through the tokens,
  so the first break of a line is the one after the header (`HeaderIs`), and
  `PayloadReads` puts header, text and trailer together again, with what the code
  writes between and after them; the theorem claims less of noLineBreaks (section 4). In the columns of
  syslog and sqlite `LastColumnReads` finds the text at the end.
* HeadersReadBack assumes `NamesAreWords`: names have no spaces either, that of a
  subroutine not only spaces, and statements have severities that messages may
  have. `Seen` is what a reader sees of a token; `EmitSeen` shows that emitToken,
  whatever it makes of the line, adds that and spaces, `FillPrefixSeen` by
  induction that a prefix is seen as its tokens (`Mapped`), `PrefixSeen` which words
  those are. That module name and iteration are those of the thread itself is
  the invariant `OwnNames`.
* FieldsAreApart is about the places of words, not the words. A line is open if it
  is empty or ends with a space; each token but the last leaves the line open
  (`EmitApart`), whether emitToken breaks the line or not, as its lead and its
  indentation are spaces, and the word that begins a field begins the token it is in.
  `RunsJoin` cuts fillPrefix's sequence of tokens in pieces, `FieldsOpen` shows
  that those of a field leave the line open for the next one, and `JoinApart` puts
  prefix, place and text together. A reader finds a field by its first word, so the
  theorem assumes `FieldsTold`, that such a word is nothing else in a header and is
  not found again within a name; else it might be found where no field begins.
* `MCMessage` assumes `NamesAreWords` and `FieldsTold`, so TLC evaluates what the
  three theorems ask for.

### `NamesProofs`: for any interfaces, addresses, texts and settings
`AddressIsFound` (AddressFound), from `EnvironmentAssumption`: an interface has an
address that is not empty, or none. `hostaddr_` after i turns of the loop is the
last address among the first i interfaces, or the old one (`FoundAddress`); the
loop ends at the first usable one, so an end without one means that there was
none.

`GettersTellWhatWasSaid` (ReadsBack) and `ForwardedAsTold` (ForwardedWhole), for any
sequence of setters, passing on and copying. Assumptions: `SettingsAssumption`
and `IterationAssumption` (texts are texts), `NothingAssumption` (the mark for "no
message" is none), `NumbersAssumption` (a number is no blank, line break or
"@SUB="), and, in the theorems' statements, that each word has a length, which is
what makes the cut of a category a prefix (`CategoryCut`). The invariant is `Held`:
* `Kept`: severity, category and plain fields are those last said. A category that
  was cut is cut again when it is passed on: a prefix of a prefix.
* `Pieces`: the items are the six pieces of each message said, one after the
  other, or, once passed on, those of the one message, with the number that its line
  begins with instead of the line (`Standing`). `MessageIsSet` shows that a setter adds
  exactly these, `EntriesRead` that the getters, which count items, find them
  again; that needs a file and a line, and no piece that is taken for a
  subroutine, which is what `Findable` says.
* For ForwardedWhole `EntriesFlat` flattens them to the text that is logged, and
  `RowTells` goes through the columns that sqlite is given.

### Only model-checked
* Liveness (`EveryMessageEnds`): TLAPS has no fairness or ENABLED. `NoDeadlock` is
  the part of it that is proved.
* The violations of section 4 are what they are on one instance.

## 7. Not modelled
* Overflow of the `int` counters: bounded away by assumption (2^31 occurrences of
  one type).
* The destruction of the globals after `FinalShutdown`, with threads still
  running, and `LogStatistics` outside its contract: undefined behaviour.
* The wording, columns and line lengths of summaries: `FormSummary` is the content
  of their tables. That content is cut where the code cuts it: an example context
  has at most 16 characters (`Cut`; so line 36 of the reference `statistics.log` shows
  `postEventProcess` for the iteration `postEventProcessing`), and two events whose
  run and event begin with the same 16 cannot be told apart in it. Categories, modules
  and subroutines, which `formSummary` cuts when it prints them, are whole in `rows`. The footnote speaks of limits also when a threshold was the
  reason; `SummaryTells` is about when it is there.
* The time stamp of a message, which is stored and read as it is.
* An interface without an address (`ifa_addr` null), at which `initGlobalVars` would
  dereference null: the environments of `Names` have none.
* Stream destinations: opening files, the library behind sqlite and its unsigned
  column for the process id, syslog's own limits; the stringstream plugin's map
  of streams by name, which nothing in the facility reads back.
* Setters of `ErrorObj` nobody calls.
* `MFConfig` (declarations and texts for validation, no state), `exception.cc`,
  `catch_main.cc` (a wrapper of `main`), scripts, build files, tests.

## 8. Plan
Done, in this order: limits, destination, dispatcher, startup, messages and
layout, severity; ids, summaries, all destinations together, rejection of
misconfigured categories, names and received messages; proofs of limiter,
dispatcher and destination; of delivery, order and draining; of Startup and its
refinement, of Facility and its; of the limiter's refinement of the documented policy;
of owners, thresholds and addresses; of received messages and what is written
of them; of texts and headers that read back, and fields that stay apart; of the
absence of deadlock; of what each destination of a facility inherits from one
alone. To do:
1. The stringstream plugin's map, if `Startup` is extended by what plugins keep.
