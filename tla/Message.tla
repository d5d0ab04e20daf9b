-------------------------------- MODULE Message --------------------------------
(***************************************************************************)
(* A message from its construction to its text: the loggers                *)
(* (MaybeLogger_: LogInfo, LogProblem...) that own it one after the other, *)
(* the ErrorObj that what the user inserts is made into, the module name   *)
(* and iteration of the thread that releases it, and the text a            *)
(* destination makes of it.                                                *)
(*                                                                         *)
(* A logger is a C++ variable or temporary of a thread.  Limits and        *)
(* thresholds are in Destination, the way to the destinations and their    *)
(* mutex in MessageLogger: here a released message is printed at once.     *)
(***************************************************************************)
EXTENDS ErrorObj

CONSTANTS
    Threads, Loggers,   \* the threads, and the loggers of each
    Statements,         \* what messages are constructed from: severity and verbatim of
                        \* the kind of logger, category and file
    Insertions,         \* what the user may insert into a logger
    Modules, Iterations,\* what threads may set, texts
    Destinations,       \* kind, name of the threshold, and format
    MaxMsgs,            \* bound on messages
    MaxInsertions,      \* bound on what is inserted into messages at hand
    ProcessNames,       \* the names of host, address, application and process
    Nothing,            \* nothing is printed
    Deleted             \* a message that is no more

ASSUME StatementsAssumption ==
    Statements \subseteq [severity : ELsev_zeroSeverity .. ELsev_highestSeverity,
                          verbatim : BOOLEAN, category : Texts, file : Texts]

\* The bases that numbers may be written in.
Bases == {"dec"} \cup {i.base : i \in {j \in Insertions : j.kind = "ios_base manipulator"}}
ASSUME InsertionsAssumption ==
    /\ Bases \subseteq STRING
    /\ \A i \in Insertions :
         \/ i.kind = "text" /\ i.text \in Texts
         \/ i.kind = "number" /\ \A base \in Bases : i.text[base] \in Seq(STRING \ {"@SUB="})
         \/ i.kind \in {"ios_base manipulator", "ostream manipulator"}

\* What a thread's module name and iteration are before it sets any.
Early == <<"Early">>
PreEvents == <<"pre-events">>
ASSUME ContextsAssumption == Modules \cup Iterations \cup {Early, PreEvents} \subseteq Texts
ASSUME DestinationsAssumption ==
    /\ Nothing \notin Destinations
    /\ \A dest \in Destinations : dest.kind \in {"ostream", "syslog", "sqlite"}
ASSUME ProcessNamesAssumption ==
    ProcessNames \in [hostname : Texts, hostaddr : Texts, application : Texts, pid : Int]
ASSUME NumbersAssumption ==
    MaxMsgs \in Nat /\ \A n \in (1 .. MaxMsgs) \cup {0, ProcessNames.pid} : Decimal(n) \in STRING

Sayings == [statement : Statements, insertions : Seq(Insertions)]
ASSUME DeletedAssumption == Deleted \notin ErrorObjs \cup Sayings

VARIABLES
    isStarted,
    module, iteration,  \* thread_local module_ and iteration_
    logger,             \* logger[t][n]: its message, 0 when it has none, or out of scope
    object,             \* the messages constructed so far, by ourSerial
    said,               \* history: how each message was constructed, and what was inserted
    own,                \* history: the module name and iteration each thread gave itself
    released,           \* history: how often each message was released
    printed             \* the text printed by this step, with what is known of its message

vars == <<isStarted, module, iteration, logger, object, said, own, released, printed>>

OutOfScope == -1
Messages == {m \in DOMAIN object : object[m] # Deleted}

--------------------------------------------------------------------------------
Init ==
    /\ isStarted = FALSE
    /\ module = [t \in Threads |-> Early]
    /\ iteration = [t \in Threads |-> PreEvents]
    /\ logger = [t \in Threads |-> [n \in Loggers |-> OutOfScope]]
    /\ object = <<>>
    /\ said = <<>>
    /\ own = [t \in Threads |-> [module |-> Early, iteration |-> PreEvents]]
    /\ released = <<>>
    /\ printed = Nothing

Total ==
    LET upTo[m \in 0 .. Len(said)] ==
          IF m = 0 THEN 0
          ELSE upTo[m - 1] + (IF said[m] = Deleted THEN 0 ELSE Len(said[m].insertions))
    IN  upTo[Len(said)]

\* A logger with a message; the message's serial is the next of ourSerial.
Construct(t, n, st) ==
    /\ logger[t][n] = OutOfScope
    /\ Len(object) < MaxMsgs
    /\ logger' = [logger EXCEPT ![t][n] = Len(object) + 1]
    /\ object' = Append(object, NewErrorObj(st, Len(object) + 1))
    /\ said' = Append(said, [statement |-> st, insertions |-> <<>>])
    /\ released' = Append(released, 0)
    /\ printed' = Nothing
    /\ UNCHANGED <<isStarted, module, iteration, own>>

\* operator<<.  A logger without a message ignores what is inserted.
Insert(t, n, insertion) ==
    /\ logger[t][n] \in Messages
    /\ Total < MaxInsertions
    /\ LET m == logger[t][n]
       IN  /\ object' = [object EXCEPT ![m] = Inserted(@, insertion)]
           /\ said' = [said EXCEPT ![m].insertions = Append(@, insertion)]
    /\ printed' = Nothing
    /\ UNCHANGED <<isStarted, module, iteration, logger, own, released>>

\* A slip: the logger moved from keeps the message.
SlipMove(t, n, u, k) ==
    /\ logger[t][n] # OutOfScope /\ logger[u][k] = OutOfScope
    /\ logger' = [logger EXCEPT ![u][k] = logger[t][n]]
    /\ printed' = Nothing
    /\ UNCHANGED <<isStarted, module, iteration, object, said, own, released>>

\* Logger k of u is made from logger n of t, or from what an insertion into it
\* returns, which is an rvalue; n is left without a message.
Move(t, n, u, k) ==
    /\ logger[t][n] # OutOfScope /\ logger[u][k] = OutOfScope
    /\ logger' = [logger EXCEPT ![u][k] = logger[t][n], ![t][n] = 0]
    /\ printed' = Nothing
    /\ UNCHANGED <<isStarted, module, iteration, object, said, own, released>>

DestroyEmpty(t, n) ==
    /\ logger[t][n] = 0
    /\ logger' = [logger EXCEPT ![t][n] = OutOfScope]
    /\ printed' = Nothing
    /\ UNCHANGED <<isStarted, module, iteration, object, said, own, released>>

\* What a destination prints: nothing below its threshold.  The iteration of the
\* thread, which syslog and sqlite ask for, is the message's: the same thread
\* releases the message and sends it to the destinations.
Logged(dest, msg) ==
    IF msg.severity < FromName(dest.threshold) THEN <<>>
    ELSE CASE dest.kind = "ostream" -> Payload(dest.format, msg)
           [] dest.kind = "syslog"  -> SyslogPayload(dest.format, msg, msg.iteration)
           [] dest.kind = "sqlite"  -> FlattenSeq(SqliteRow(dest.format, msg, msg.iteration))

\* Message m, of thread t, is printed by a destination, or to cerr.
Prints(t, m, to, text) ==
    printed' = [serial |-> m, by |-> own[t], statement |-> said[m].statement,
                insertions |-> said[m].insertions, to |-> to, text |-> text]

\* The destructor signs the message and releases it, to the destinations or,
\* before the start and after the end of the facility, to cerr; it is deleted.
Release(t, n) ==
    /\ logger[t][n] \in Messages
    /\ LET m      == logger[t][n]
           signed == [object[m] EXCEPT !.module = module[t], !.iteration = iteration[t]]
       IN  /\ object' = [object EXCEPT ![m] = Deleted]
           /\ said' = [said EXCEPT ![m] = Deleted]
           /\ released' = [released EXCEPT ![m] = @ + 1]
           /\ IF isStarted
              THEN \E dest \in Destinations :
                     Prints(t, m, dest, Logged(dest, FillNames(signed, ProcessNames)))
              ELSE Prints(t, m, Nothing, EarlyText(signed))
    /\ logger' = [logger EXCEPT ![t][n] = OutOfScope]
    /\ UNCHANGED <<isStarted, module, iteration, own>>

\* A slip: module_ is not thread_local.
SlipSetModuleName(t, name) ==
    /\ module' = [u \in Threads |-> name]
    /\ UNCHANGED iteration

SetModuleName(t, name) ==
    /\ module' = [module EXCEPT ![t] = name]
    /\ UNCHANGED iteration

SetIteration(t, name) ==
    /\ iteration' = [iteration EXCEPT ![t] = name]
    /\ UNCHANGED module

SetContext(t) ==
    /\ \/ \E name \in Modules :
            SetModuleName(t, name) /\ own' = [own EXCEPT ![t].module = name]
       \/ \E name \in Iterations :
            SetIteration(t, name) /\ own' = [own EXCEPT ![t].iteration = name]
    /\ printed' = Nothing
    /\ UNCHANGED <<isStarted, logger, object, said, released>>

\* StartMessageFacility and EndMessageFacility, of which only the flag matters.
StartOrEnd ==
    /\ isStarted' = ~isStarted
    /\ printed' = Nothing
    /\ UNCHANGED <<module, iteration, logger, object, said, own, released>>

Next ==
    \/ \E t \in Threads, n \in Loggers :
         \/ \E st \in Statements : Construct(t, n, st)
         \/ \E insertion \in Insertions : Insert(t, n, insertion)
         \/ \E u \in Threads, k \in Loggers : Move(t, n, u, k)
         \/ DestroyEmpty(t, n)
         \/ Release(t, n)
    \/ \E t \in Threads : SetContext(t)
    \/ StartOrEnd

Spec == Init /\ [][Next]_vars
--------------------------------------------------------------------------------
(***************************************************************************)
(* What a reader may expect of a text, from what the user said.            *)
(***************************************************************************)
Words(s) == FlattenSeq([i \in DOMAIN s |-> IF s[i] = SP THEN <<>> ELSE <<s[i]>>])

IsSubroutine(insertion) ==
    insertion.kind = "text" /\ insertion.text # <<>> /\ insertion.text[1] = "@SUB="

\* The base in which the i-th insertion is written, if a number.
BaseAt(insertions, i) ==
    LET j == SelectLastInSubSeq(insertions, 1, i,
               LAMBDA insertion : insertion.kind = "ios_base manipulator")
    IN  IF j = 0 THEN "dec" ELSE insertions[j].base

\* What the i-th insertion is in the text.
ExpectedPiece(insertions, i) ==
    LET insertion == insertions[i]
    IN  CASE insertion.kind = "number" -> insertion.text[BaseAt(insertions, i)]
          [] insertion.kind = "text" /\ ~IsSubroutine(insertion) -> insertion.text
          [] OTHER -> <<>>

ExpectedText(insertions) ==
    FlattenSeq([i \in DOMAIN insertions |-> ExpectedPiece(insertions, i)])

ExpectedSubroutine(insertions) ==
    LET j == SelectLastInSeq(insertions, IsSubroutine)
    IN  IF j = 0 THEN <<>> ELSE Words(Tail(insertions[j].text))

\* The words of the header of a message p, in order.
ExpectedHeader(p) ==
    LET early      == p.to = Nothing
        f          == p.to.format
        subroutine == ExpectedSubroutine(p.insertions)
        file       == BaseName(p.statement.file, FALSE)
    IN  <<"%MSG", Symbol(p.statement.severity)>> \o p.statement.category \o <<":">>
          \o When(~early,
               When(f.serial, <<"[serial #", Decimal(p.serial), "]">>)
                 \o When(f.module, p.by.module)
                 \o When(f.subroutine /\ subroutine # <<>>, subroutine \o <<"()">>)
                 \o When(f.timestamp, <<"time">>)
                 \o When(f.context, p.by.iteration)
                 \o When(f.text /\ file # <<>>, file \o <<":", "line">>))

\* The names of thresholds in the configurations (ELseverityLevel::getInputStr)
\* and what they stand for, least severe first.
Thresholds == <<"DEBUG", "INFO", "WARNING", "ERROR", "SYSTEM">>
Severities == <<ELsev_success, ELsev_info, ELsev_warning, ELsev_error, ELsev_severe>>

\* The text up to the first line break or " ==> ".
Breaks == {NL, " ==> "}
Header(text) ==
    SubSeq(text, 1, SelectInSeq(text, LAMBDA symbol : symbol \in Breaks) - 1)

\* What is not text of the user's has none of these symbols in it.
NamesWithout(symbols) ==
    /\ \A st \in Statements : {st.category, st.file} \subseteq Seq(STRING \ symbols)
    /\ Modules \cup Iterations \cup {Early, PreEvents} \subseteq Seq(STRING \ symbols)
    /\ \A n \in 1 .. MaxMsgs : Decimal(n) \notin symbols

NamesUnbroken ==
    /\ NamesWithout(Breaks)
    /\ \A i \in Insertions : IsSubroutine(i) => i.text \in Seq(STRING \ Breaks)

\* There may be spaces in the name of a subroutine, but not only spaces.
NamesAreWords ==
    /\ NamesUnbroken /\ NamesWithout(Breaks \cup {SP})
    /\ \A i \in Insertions :
         IsSubroutine(i) => Len(i.text) <= 2 \/ Words(Tail(i.text)) # <<>>
    /\ \A st \in Statements : ForMessage(st.severity) = st.severity

\* The names that may be fields of a header, and the words that begin a field.
FieldNames ==
    Modules \cup Iterations \cup {Early, PreEvents}
      \cup {Words(Tail(i.text)) : i \in {j \in Insertions : IsSubroutine(j)}}
FirstWords == {"time"} \cup {name[1] : name \in FieldNames \ {<<>>}}

\* A word that begins a field is nothing else in a header, and within a category,
\* the name of a file or of a field it is not found again.
FieldsTold ==
    /\ FirstWords \cap ({SP, "%MSG", ":", "[serial #", "]", "()", "line"}
         \cup {Symbol(level) : level \in ELsev_success .. ELsev_severe}
         \cup {Decimal(n) : n \in 1 .. MaxMsgs}) = {}
    /\ \A name \in FieldNames \cup UNION {{st.category, BaseName(st.file, FALSE)} : st \in Statements} :
         \A i \in 2 .. Len(name) : name[i] \notin FirstWords
--------------------------------------------------------------------------------
(***************************************************************************)
(* Properties.                                                             *)
(***************************************************************************)
TypeOK ==
    /\ isStarted \in BOOLEAN
    /\ \A t \in Threads : /\ module[t] \in Modules \cup {Early}
                          /\ iteration[t] \in Iterations \cup {PreEvents}
                          /\ \A n \in Loggers : logger[t][n] \in {OutOfScope, 0} \cup Messages
    /\ \A m \in Messages : /\ Length(object[m].id) <= MaxCategoryLength
                           /\ \A i \in DOMAIN object[m].items : object[m].items[i] # <<>>

\* However loggers are moved within and between threads, a message belongs to
\* one logger until it is released, and is released once.
OneOwner ==
    \A m \in DOMAIN object :
      Cardinality({l \in Threads \X Loggers : logger[l[1]][l[2]] = m}) + released[m] = 1

\* A destination prints a message iff it is at least as severe as the name of
\* the threshold in its configuration says.
ThresholdKept ==
    printed # Nothing /\ printed.to # Nothing =>
      \A i, j \in DOMAIN Thresholds :
        printed.to.threshold = Thresholds[i] /\ printed.statement.severity = Severities[j]
          => (printed.text # <<>> <=> j >= i)

\* A text that an ostream destination or, early, LogErrorObj printed.
OnStream ==
    printed # Nothing /\ printed.text # <<>> /\ (printed.to # Nothing => printed.to.kind = "ostream")

Trailer == <<NL, "%MSG", NL>>

\* The text of a message reads back as exactly what was inserted, in order,
\* numbers in the base last set, without the "@SUB=" part, whatever the format;
\* all else is before the first line break and in the trailer, so a header is
\* never broken.  With noLineBreaks " ==> " may stand for the line break and the
\* trailer be left out; that they do is not claimed, as the reference output of
\* that format's test differs from the code in it.  In the syslog and the database
\* the text ends the entry, if need be without its first line break.
TextReadsBack ==
    /\ OnStream =>
         LET early   == printed.to = Nothing
             oneLine == ~early /\ printed.to.format.noLineBreaks
             wanted  == early \/ printed.to.format.text \* wantText
             text    == When(wanted, ExpectedText(printed.insertions))
             seps    == IF oneLine THEN {<<NL>>, <<" ==> ">>} ELSE {<<NL>>}
             ends    == IF oneLine THEN {Trailer, <<NL>>} ELSE {Trailer}
         IN  IF printed.statement.verbatim THEN printed.text = text \o <<NL>>
             ELSE \E sep \in seps, end \in ends :
                    printed.text = Header(printed.text) \o When(wanted, sep) \o text \o end
    /\ printed # Nothing /\ printed.text # <<>> /\ ~OnStream /\ printed.to.format.text =>
         LET text == ExpectedText(printed.insertions)
         IN  \/ IsSuffix(text, printed.text)
             \/ text # <<>> /\ text[1] = NL /\ IsSuffix(Tail(text), printed.text)

\* The header reads back as the message's: its category in full, though it is
\* cut for the limits, and the module name and iteration of the very thread
\* that released it, as it set them itself.
HeaderReadsBack ==
    OnStream /\ ~printed.statement.verbatim =>
      Words(Header(printed.text)) = ExpectedHeader(printed)

\* The fields of a header are set apart from what precedes them, wherever the
\* line is broken, so a log file can be taken apart again.
FieldsApart ==
    OnStream /\ ~printed.statement.verbatim =>
      LET header == Header(printed.text)
          names  == {printed.by.module, ExpectedSubroutine(printed.insertions),
                     printed.by.iteration}
          starts == {"time"} \cup {name[1] : name \in names \ {<<>>}}
      IN  \A i \in 2 .. Len(header) : header[i] \in starts => header[i - 1] = SP

\* "str may match getSymbol, getName, getInputStr, or getVarName", of which
\* "-e", "Error", "ERROR" and "ELerror" are the examples (ELseverityLevel.h:43,50):
\* a destination with one of these as threshold prints an error.
NamesMatch ==
    printed # Nothing /\ printed.to # Nothing
      /\ printed.to.threshold \in {"-e", "Error", "ERROR", "ELerror"}
      /\ printed.statement.severity = ELsev_error => printed.text # <<>>
===============================================================================
