-------------------------------- MODULE Layout --------------------------------
(***************************************************************************)
(* The text that a destination makes of a message: header, user's text and *)
(* trailer (fillPrefix, fillUsrMsg, fillSuffix of ELdestination), and what *)
(* LogErrorObj prints while there are no destinations yet.                 *)
(*                                                                         *)
(* A text is a sequence of symbols: NL, SP, or a symbol for a whole word,  *)
(* which Width(word) characters long text stands for.  A token is a text.  *)
(***************************************************************************)
EXTENDS Integers, SequencesExt, Severity

CONSTANT Width(_)   \* the length of a word; that of NL and SP is 1

NL == "newline"
SP == "space"

ASSUME WidthAssumption == Width(NL) = 1 /\ Width(SP) = 1

\* What is written of a number.
Decimal(n) == ToString(n)

Length(s) ==
    LET upTo[i \in 0 .. Len(s)] == IF i = 0 THEN 0 ELSE upTo[i - 1] + Width(s[i])
    IN  upTo[Len(s)]

\* What of the text's line emitToken and its callers have written, and the
\* member charsOnLine_.
NewLine == [text |-> <<>>, charsOnLine |-> 0]

\* s[1] is ' ', and s.length() - 1 or - 2 the place of a '\n'; in a token of
\* one character, or of two, there is no such place.
SecondIsSpace(s) == Width(s[1]) = 1 /\ Len(s) > 1 /\ s[2] = SP
EndsLine(s) ==
    \/ Length(s) > 1 /\ s[Len(s)] = NL
    \/ Length(s) > 2 /\ Len(s) > 1 /\ Width(s[Len(s)]) = 1 /\ s[Len(s) - 1] = NL

Spaces(n) == [i \in 1 .. n |-> SP]

\* emitToken.  In preamble mode a token that does not fit the line starts
\* over on "a new line", of which only a space is written; so does a token
\* that begins with a newline, which is not written either.
EmitToken(lineLength, line, s, nl, preambleMode) ==
    LET breaks == s[1] = NL \/ line.charsOnLine + Length(s) > lineLength
        lead   == IF breaks /\ ~SecondIsSpace(s) THEN <<SP>> ELSE <<>>
        body   == IF s[1] = NL THEN Tail(s) ELSE s
        indent == IF EndsLine(s) THEN Spaces(IF s[Len(s)] = SP THEN 6 ELSE 7) ELSE <<>>
        start  == IF EndsLine(s) THEN 7
                  ELSE IF breaks THEN Len(lead) ELSE line.charsOnLine
        end    == IF nl THEN <<NL>> ELSE <<>>
    IN  IF s = <<>> THEN IF nl THEN [text |-> Append(line.text, NL), charsOnLine |-> 0] ELSE line
        ELSE IF ~preambleMode THEN [line EXCEPT !.text = @ \o s]
        ELSE [text        |-> line.text \o lead \o body \o indent \o end,
              charsOnLine |-> IF nl THEN 0 ELSE start + Length(s)]

(***************************************************************************)
(* The tokens of a header.  After the category come some of the fields     *)
(* module, subroutine, time and context; a space or a "\n" goes before the *)
(* first of them (needAspace), and a "\n" before the time if asked for.    *)
(* A format is a record of MsgFormatSettings's flags and lineLength.       *)
(***************************************************************************)
When(condition, tokens) == IF condition THEN tokens ELSE <<>>

EpilogueBreak(format, msg) ==
    format.epilogueSeparate /\ \/ msg.module # <<>> \/ msg.subroutine # <<>>
                               \/ format.timestamp /\ ~format.timeSeparate

\* A slip: fields are not set apart.
SlipField(name) == <<name>>

Field(name) == <<name \o <<SP>>>>

Fields(format, msg) ==
    When(format.module /\ msg.module # <<>>, Field(msg.module))
      \o When(format.subroutine /\ msg.subroutine # <<>>, Field(msg.subroutine \o <<"()">>))
      \o When(format.timestamp, When(format.timeSeparate, <<<<NL>>>>) \o Field(<<"time">>))
      \o When(format.context, <<msg.iteration>>)

PrefixTokens(format, msg) ==
    LET fields == Fields(format, msg)
        apart  == IF EpilogueBreak(format, msg) THEN <<<<NL>>>>
                  ELSE When(fields # <<>> /\ fields[1] # <<NL>>, <<<<SP>>>>)
    IN  <<<<"%MSG">>, <<Symbol(msg.severity)>>, <<SP>>, msg.id, msg.idOverflow, <<":", SP>>>>
          \o When(format.serial, <<<<"[serial #", msg.serial, "]", SP>>>>)
          \o apart \o fields

FillPrefix(format, msg) ==
    LET tokens == PrefixTokens(format, msg)
        after[i \in 0 .. Len(tokens)] ==
          IF i = 0 THEN NewLine
          ELSE EmitToken(format.lineLength, after[i - 1], tokens[i], FALSE, TRUE)
    IN  IF msg.verbatim THEN <<>> ELSE after[Len(tokens)].text

\* None of these tokens is in preamble mode, so they are written as they are.
FillUsrMsg(format, msg) ==
    LET place == When(msg.filename # <<>>, <<SP>> \o msg.filename \o <<":", msg.lineNumber>>)
        sep   == IF format.noLineBreaks THEN <<" ==> ">> ELSE <<NL>>
    IN  When(format.text, When(~msg.verbatim, place \o sep) \o FlattenSeq(msg.items))

FillSuffix(format, msg) ==
    When(~msg.verbatim /\ ~format.noLineBreaks, <<NL, "%MSG">>) \o <<NL>>

Payload(format, msg) ==
    FillPrefix(format, msg) \o FillUsrMsg(format, msg) \o FillSuffix(format, msg)

(***************************************************************************)
(* The syslog and sqlite plugins write a column for each of these, the     *)
(* iteration being that of the thread.  The user's text is last; a line    *)
(* break that begins it is left out, be it the one that follows a header   *)
(* or the user's own.                                                      *)
(***************************************************************************)
Columns(msg, iteration) ==
    <<<<"time">>, msg.hostname, msg.hostaddr, <<Name(msg.severity)>>, msg.id,
      msg.application, <<Decimal(msg.pid)>>, iteration, msg.module>>

LastColumn(format, msg) ==
    LET text == FillUsrMsg(format, msg)
    IN  IF text # <<>> /\ text[1] = NL THEN Tail(text) ELSE text

SyslogPayload(format, msg, iteration) ==
    LET columns == Columns(msg, iteration)
    IN  FlattenSeq([i \in DOMAIN columns |-> columns[i] \o <<"|">>]) \o LastColumn(format, msg)

SqliteRow(format, msg, iteration) == Append(Columns(msg, iteration), LastColumn(format, msg))

\* What LogErrorObj writes to cerr while the facility is not started.
EarlyText(msg) ==
    IF msg.verbatim THEN FlattenSeq(msg.items) \o <<NL>>
    ELSE <<"%MSG", Symbol(msg.severity), SP>> \o msg.id \o msg.idOverflow \o <<":", SP, NL>>
           \o FlattenSeq(msg.items) \o <<NL, "%MSG", NL>>
===============================================================================
