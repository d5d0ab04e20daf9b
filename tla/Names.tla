--------------------------------- MODULE Names ---------------------------------
(***************************************************************************)
(* Who a message is from: the names of host, address, application and      *)
(* process that this process finds for itself when the facility starts or  *)
(* is told by SetHostName() and the like, and those that a message         *)
(* received from another process brings along.  sendMsgToDests gives a     *)
(* message the names that it has not, and the destinations that have a     *)
(* column for each (syslog, sqlite) write them down.                       *)
(*                                                                         *)
(* A received message may have come over several processes, each of which  *)
(* read it with the getters and put it together again with the setters.    *)
(***************************************************************************)
EXTENDS MessageFacilityMsg

CONSTANTS
    Environments,      \* what the system may answer a Start, see Environment
    ApplicationNames,  \* names Start is given, the empty text among them
    Renamings,         \* names given by Set...: records of field and value
    Settings,          \* setters of received messages called: records of field and value
    Iteration,         \* what the thread that logs gave to SetIteration
    MaxStarts,         \* bound on Starts
    MaxCalls,          \* bound on calls for the received message
    Nothing            \* nothing is written, or received

\* pid: of this process.  host: its name, or Nothing.  lookup: the address
\* found for the name, or Nothing.  interfaces: in order, each with an address
\* or, not being one of the internet, Nothing; or Nothing, if they cannot be
\* listed.  program: by process id, the name of its program, for all processes.
Environment == {"pid", "host", "lookup", "interfaces", "program"}
Addresses == Texts \ {<<>>}
ASSUME EnvironmentAssumption ==
    \A e \in Environments :
      /\ DOMAIN e = Environment /\ e.pid \in DOMAIN e.program
      /\ e.interfaces # Nothing => e.interfaces \in Seq(Addresses \cup {Nothing})

Sayings == [file : Texts, line : Texts, message : Texts]
ASSUME SettingsAssumption ==
    \A s \in Settings :
      \/ s.field = "message" /\ s.value \in Sayings
      \/ s.field = "severity" /\ s.value \in STRING
      \/ s.field = "pid" /\ s.value \in Int
      \/ s.field \in {"category"} \cup (PlainFields \ {"pid"}) /\ s.value \in Texts

Received == [msg : ErrorObjs, empty : BOOLEAN]
ASSUME IterationAssumption == Iteration \in Texts
ASSUME NothingAssumption == Nothing \notin Received

\* These words of the code are texts.
ASSUME WordsAssumption ==
    {NL, SP, ":", "INFO", "dec", Decimal(1)} \cup Numbers \subseteq STRING

VARIABLES
    isStarted,
    names,      \* hostname_, hostaddr_, application_ and pid_
    starts,     \* how many Starts there were
    received,   \* a received message, or Nothing
    said,       \* history: what its senders said
    calls,      \* how many calls were made for it
    written     \* what this step wrote to a syslog or database, with what was said of it

vars == <<isStarted, names, starts, received, said, calls, written>>

(***************************************************************************)
(* initGlobalVars.                                                         *)
(***************************************************************************)
Loopbacks == {<<"127.0.0.1">>, <<"::1">>}

\* A slip: the first address will do.
SlipUsable(address) == address # <<>>

Usable(address) == address # <<>> /\ address \notin Loopbacks

\* The loop over the interfaces ends at the first after which hostaddr_ is
\* usable; an interface without an address leaves it as it was.
InterfaceAddress(old, interfaces) ==
    LET after[i \in 0 .. Len(interfaces)] ==
          IF i = 0 THEN old
          ELSE IF interfaces[i] = Nothing THEN after[i - 1] ELSE interfaces[i]
        ends == {i \in DOMAIN interfaces : Usable(after[i])}
        last == IF ends = {} THEN Len(interfaces)
                ELSE CHOOSE i \in ends : \A j \in ends : i <= j
    IN  OrElse(after[last], <<"127.0.0.1">>)

HostAddress(old, e) ==
    IF e.lookup # Nothing THEN e.lookup
    ELSE IF e.interfaces = Nothing THEN <<"127.0.0.1">>
    ELSE InterfaceAddress(old, e.interfaces)

\* The name in /proc/<pid>/cmdline; there is no file for a process there is not.
ProcessName(e, pid) == IF pid \in DOMAIN e.program THEN e.program[pid] ELSE <<>>

\* The process name is looked up by the process id there was before.
InitGlobalVars(old, e, applicationName) ==
    [hostname    |-> IF e.host = Nothing THEN <<"Unknown Host">> ELSE e.host,
     hostaddr    |-> HostAddress(old.hostaddr, e),
     application |-> OrElse(applicationName, ProcessName(e, old.pid)),
     pid         |-> e.pid]
--------------------------------------------------------------------------------
SaidNothing ==
    [severity |-> "INFO", category |-> <<>>, hostname |-> <<>>, hostaddr |-> <<>>,
     application |-> <<>>, pid |-> 0, module |-> <<>>, iteration |-> <<>>,
     messages |-> <<>>, passedOn |-> FALSE]

Init ==
    /\ isStarted = FALSE
    /\ names = [hostname |-> <<>>, hostaddr |-> <<>>, application |-> <<>>, pid |-> 0]
    /\ starts = 0
    /\ received = Nothing /\ said = SaidNothing /\ calls = 0
    /\ written = Nothing

\* A Start may fail once the names are set.
StartMessageFacility(e, applicationName) ==
    /\ ~isStarted /\ starts < MaxStarts
    /\ names' = InitGlobalVars(names, e, applicationName)
    /\ isStarted' \in BOOLEAN
    /\ starts' = starts + 1
    /\ written' = Nothing
    /\ UNCHANGED <<received, said, calls>>

EndMessageFacility ==
    /\ isStarted /\ isStarted' = FALSE
    /\ written' = Nothing
    /\ UNCHANGED <<names, starts, received, said, calls>>

\* SetApplicationName, SetHostName, SetHostAddr, SetPid.
Rename(renaming) ==
    /\ names' = [names EXCEPT ![renaming.field] = renaming.value]
    /\ written' = Nothing
    /\ UNCHANGED <<isStarted, starts, received, said, calls>>

Receive ==
    /\ received = Nothing
    /\ received' = NewReceived(1)
    /\ written' = Nothing
    /\ UNCHANGED <<isStarted, names, starts, said, calls>>

Call(r) ==
    /\ received # Nothing /\ calls < MaxCalls
    /\ received' = r /\ calls' = calls + 1
    /\ written' = Nothing
    /\ UNCHANGED <<isStarted, names, starts>>

Set(setting) ==
    LET field == setting.field
        value == setting.value
    IN  CASE field = "message" ->
               /\ Call(SetMessage(received, value.file, value.line, value.message))
               /\ said' = [said EXCEPT !.messages = Append(@, value)]
          [] field = "severity" ->
               Call(SetSeverity(received, value)) /\ said' = [said EXCEPT !.severity = value]
          [] field = "category" ->
               Call(SetCategory(received, value)) /\ said' = [said EXCEPT !.category = value]
          [] field \in PlainFields ->
               Call(SetField(received, field, value)) /\ said' = [said EXCEPT ![field] = value]

\* What the next process makes of a message it gets field by field.
PassedOn(r) ==
    LET named == SetCategory(SetSeverity(NewReceived(1), SeverityOf(r)), r.msg.id).msg
        plain == Changed([f \in DOMAIN named |-> IF f \in PlainFields THEN r.msg[f] ELSE named[f]])
    IN  SetMessage(plain, FileOf(r), LineOf(r), MessageOf(r))

\* If nothing was said, it says what the getters find, "0" for the line.
PassOn ==
    LET m == [file |-> FileOf(received), line |-> LineOf(received),
              message |-> MessageOf(received)]
    IN  /\ Call(PassedOn(received))
        /\ said' = [said EXCEPT !.passedOn = TRUE,
                               !.messages = IF @ = <<>> THEN <<m>> ELSE @]

\* The message is taken out as an ErrorObj and in again: no iteration is left.
Copy == Call(FromErrorObj(ErrorObject(received))) /\ said' = [said EXCEPT !.iteration = <<>>]

(***************************************************************************)
(* A message is logged by a thread of this process and written by a syslog *)
(* or sqlite destination; syslog throws at the level that stands for none. *)
(***************************************************************************)
SyslogLevels == {ELsev_success, ELsev_info, ELsev_warning, ELsev_error, ELsev_severe}
Takes(kind, o) == kind = "syslog" => o.severity \in SyslogLevels

Format == [noLineBreaks |-> FALSE, text |-> TRUE]

Log(kind, o, saying) ==
    /\ written' = IF isStarted /\ Takes(kind, o)
                  THEN [said |-> saying, row |-> SqliteRow(Format, FillNames(o, names), Iteration)]
                  ELSE Nothing
    /\ UNCHANGED <<isStarted, names, starts, received, said, calls>>

\* A received message is handed on to the facility.
Forward(kind) ==
    /\ received # Nothing
    /\ Log(kind, CopyErrorObj(ErrorObject(received)), said)

\* A message of this process.
LogLocal(kind) ==
    LET o == NewErrorObj([severity |-> ELsev_info, verbatim |-> FALSE,
                          category |-> <<>>, file |-> <<>>], 1)
    IN  Log(kind, [o EXCEPT !.iteration = Iteration], SaidNothing)

Next ==
    \/ \E e \in Environments, name \in ApplicationNames : StartMessageFacility(e, name)
    \/ EndMessageFacility
    \/ \E renaming \in Renamings : Rename(renaming)
    \/ Receive
    \/ \E setting \in Settings : Set(setting)
    \/ PassOn
    \/ Copy
    \/ \E kind \in {"syslog", "sqlite"} : Forward(kind) \/ LogLocal(kind)

Spec == Init /\ [][Next]_vars
--------------------------------------------------------------------------------
(***************************************************************************)
(* Properties.                                                             *)
(***************************************************************************)
\* Pieces are found by position, so there must be a file and a line, and none
\* that is taken for a subroutine.
Findable(m) == /\ m.file # <<>> /\ m.line # <<>>
               /\ \A piece \in {m.file, m.line, m.message} :
                    piece # <<>> => piece[1] # "@SUB="

CutCategory(category, cut) ==
    /\ IsPrefix(cut, category) /\ Length(cut) <= MaxCategoryLength
    /\ Length(category) <= MaxCategoryLength => cut = category

\* However many processes a message passes through, field by field, the getters
\* of the last one say what the first was told: a misspelt severity counts as
\* the level unspecified, one for thresholds only as the nearest of messages;
\* the category is cut, the text whole, and of the line the number it begins
\* with is left.
ReadsBack ==
    received # Nothing =>
      /\ SeverityOf(received) = InputStr(ForMessage(FromName(said.severity)))
      /\ CutCategory(said.category, received.msg.id)
      /\ \A field \in PlainFields : received.msg[field] = said[field]
      /\ Len(said.messages) = 1 /\ Findable(said.messages[1]) =>
           LET m == said.messages[1]
           IN  /\ FileOf(received) = m.file
               /\ m.line[1] \in Numbers => LineOf(received) = <<m.line[1]>>
               /\ MessageOf(received) = m.message

\* A forwarded message is written with the names that it brought, and those of
\* this process where it brought none, with its own severity, module and text;
\* but with the iteration of the thread that logs it.
ForwardedWhole ==
    written # Nothing =>
      LET row == written.row
          s   == written.said
          own(brought, name) == IF brought = <<>> THEN name ELSE brought
          text(m) == <<SP>> \o m.file \o <<":">> \o m.line \o <<NL>> \o m.message
      IN  /\ row[2] = own(s.hostname, names.hostname)
          /\ row[3] = own(s.hostaddr, names.hostaddr)
          /\ row[4] = <<Name(ForMessage(FromName(s.severity)))>>
          /\ CutCategory(s.category, row[5])
          /\ row[6] = own(s.application, names.application)
          /\ row[7] = <<Decimal(IF s.pid = 0 THEN names.pid ELSE s.pid)>>
          /\ row[8] = Iteration /\ row[9] = s.module
          /\ (\A i \in DOMAIN s.messages : Findable(s.messages[i]))
               /\ (s.passedOn => /\ Len(s.messages) = 1
                                 /\ \E n \in Numbers : s.messages[1].line = <<n>>)
             => row[10] = FlattenSeq([i \in DOMAIN s.messages |-> text(s.messages[i])])

\* A Start finds an address in any case: the one of the host's name; else one
\* of an interface, a loopback only if there is no other; the one there was
\* before only if the first interface has none.
AddressFound ==
    [][\A e \in Environments, name \in ApplicationNames :
         StartMessageFacility(e, name) /\ e.lookup = Nothing /\ e.interfaces # Nothing =>
           LET found == Range(e.interfaces) \ {Nothing}
           IN  /\ names'.hostaddr \in found \cup {names.hostaddr} \cup Loopbacks
               /\ names'.hostaddr \in Loopbacks => found \subseteq Loopbacks
               /\ names'.hostaddr \notin found \cup Loopbacks =>
                    e.interfaces = <<>> \/ e.interfaces[1] = Nothing]_vars

\* "get process name from '/proc/pid/cmdline'" (MessageLogger.cc:152): a Start
\* that is given no name finds that of this process.
ApplicationFound ==
    [][\A e \in Environments :
         StartMessageFacility(e, <<>>) => names'.application = e.program[e.pid]]_vars
===============================================================================
