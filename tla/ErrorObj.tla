------------------------------- MODULE ErrorObj -------------------------------
(***************************************************************************)
(* Class ErrorObj, a message: a record of its members, and what each of    *)
(* its operations makes of it.  A name not given is the empty text, a      *)
(* process id not given is 0.                                              *)
(***************************************************************************)
EXTENDS Layout

CONSTANT MaxCategoryLength   \* 200 in the code

ASSUME LengthAssumption == MaxCategoryLength \in Nat

Texts == Seq(STRING)

\* The members.  oss: the text in the stream oss_.  base: its format flags.
ErrorObjs ==
    [serial : STRING, severity : ELsev_success .. ELsev_severe, verbatim : BOOLEAN,
     id : Texts, idOverflow : Texts, module : Texts, subroutine : Texts,
     hostname : Texts, hostaddr : Texts, application : Texts, pid : Int,
     iteration : Texts, items : Seq(Texts), filename : Texts, lineNumber : {"line"},
     oss : Texts, base : STRING]

\* A slip: the category is not cut.
SlipSetID(o, category) ==
    [o EXCEPT !.id = category]

\* The category is cut after maxCategoryLength characters, here at a word.  An
\* overflow stays until another category overflows.
SetID(o, category) ==
    LET fits(n) == Length(SubSeq(category, 1, n)) <= MaxCategoryLength
        cut     == CHOOSE n \in 0 .. Len(category) :
                     fits(n) /\ (n < Len(category) => ~fits(n + 1))
    IN  [o EXCEPT !.id = SubSeq(category, 1, cut),
                  !.idOverflow = IF cut < Len(category)
                                 THEN SubSeq(category, cut + 1, Len(category)) ELSE @]

\* The name of the file without its directories, for all but verbatim messages.
BaseName(file, verbatim) ==
    LET slash == SelectLastInSeq(file, LAMBDA symbol : symbol = "/")
    IN  IF verbatim \/ slash \in {0, Len(file)} THEN file
        ELSE SubSeq(file, slash + 1, Len(file))

NewErrorObj(st, serial) ==
    SetID([serial |-> Decimal(serial), severity |-> ForMessage(st.severity), verbatim |-> st.verbatim,
           id |-> <<>>, idOverflow |-> <<>>, module |-> <<>>, subroutine |-> <<>>,
           hostname |-> <<>>, hostaddr |-> <<>>, application |-> <<>>, pid |-> 0,
           iteration |-> <<>>, items |-> <<>>, filename |-> BaseName(st.file, st.verbatim),
           lineNumber |-> "line", oss |-> <<>>, base |-> "dec"], st.category)

SetSubroutine(o, s) ==
    [o EXCEPT !.subroutine = IF s # <<>> /\ s[1] = SP THEN Tail(s) ELSE s]

EoEmit(o, s) ==
    IF s[1] = "@SUB=" THEN SetSubroutine(o, Tail(s)) ELSE [o EXCEPT !.items = Append(@, s)]

\* oss_ << t: a number is written as the stream's flags say.
Written(o, insertion) ==
    IF insertion.kind = "number" THEN insertion.text[o.base] ELSE insertion.text

\* A slip: oss_ is not emptied before.
SlipOpltlt(o, insertion) ==
    LET p == [o EXCEPT !.oss = @ \o Written(o, insertion)]
    IN  IF p.oss # <<>> THEN EoEmit(p, p.oss) ELSE p

Opltlt(o, insertion) ==
    LET p == [o EXCEPT !.oss = Written(o, insertion)]
    IN  IF p.oss # <<>> THEN EoEmit(p, p.oss) ELSE p

\* operator<<: a manipulator of ostream (endl) has its text thrown away, one of
\* ios_base (hex, dec) sets flags, everything else is text.
Inserted(o, insertion) ==
    CASE insertion.kind = "ostream manipulator"  -> [o EXCEPT !.oss = <<>>]
      [] insertion.kind = "ios_base manipulator" -> [o EXCEPT !.base = insertion.base]
      [] OTHER -> Opltlt(o, insertion)

\* A slip: what a message says for itself does not count.
SlipFillNames(o, names) ==
    [o EXCEPT !.hostname = names.hostname, !.hostaddr = names.hostaddr,
              !.application = names.application, !.pid = names.pid]

OrElse(name, default) == IF name = <<>> THEN default ELSE name

\* sendMsgToDests gives a message the names of the process that it has not.
FillNames(o, names) ==
    [o EXCEPT !.hostname    = OrElse(@, names.hostname),
              !.hostaddr    = OrElse(@, names.hostaddr),
              !.application = OrElse(@, names.application),
              !.pid         = IF @ = 0 THEN names.pid ELSE @]

\* The copy constructor leaves out iteration_ and oss_.
CopyErrorObj(o) == [o EXCEPT !.iteration = <<>>, !.oss = <<>>, !.base = "dec"]
===============================================================================
