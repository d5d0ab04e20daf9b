-------------------------- MODULE MessageFacilityMsg --------------------------
(***************************************************************************)
(* Class MessageFacilityMsg: a message received from another process,      *)
(* which the receiver puts together with setters or copies, reads with     *)
(* getters, and may hand on as an ErrorObj.  A received message is a       *)
(* record of the members msg_ and empty_.                                  *)
(***************************************************************************)
EXTENDS ErrorObj

CONSTANT Numbers   \* the words that are numbers; "0" is one

ASSUME NumbersAssumption == "0" \in Numbers /\ {NL, SP, "@SUB="} \cap Numbers = {}

FromErrorObj(o) == [msg |-> CopyErrorObj(o), empty |-> FALSE]

NewReceived(serial) ==
    [msg   |-> NewErrorObj([severity |-> FromName("INFO"), verbatim |-> FALSE,
                            category |-> <<>>, file |-> <<>>], serial),
     empty |-> TRUE]

ErrorObject(r) == CopyErrorObj(r.msg)

(***************************************************************************)
(* Setters.                                                                *)
(***************************************************************************)
Changed(o) == [msg |-> o, empty |-> FALSE]

SetSeverity(r, name) == Changed([r.msg EXCEPT !.severity = ForMessage(FromName(name))])

SetCategory(r, category) == Changed(SetID(r.msg, category))

\* setHostname, setHostaddr, setPid, setApplication, setModule, setIteration.
PlainFields == {"hostname", "hostaddr", "pid", "application", "module", "iteration"}
SetField(r, field, value) == Changed([r.msg EXCEPT ![field] = value])

\* Each piece is inserted by itself, and is an item unless it is empty.
Piece(o, text) == Opltlt(o, [kind |-> "text", text |-> text])

SetMessage(r, file, line, message) ==
    LET place == Piece(Piece(Piece(Piece(r.msg, <<SP>>), file), <<":">>), line)
    IN  Changed(Piece(Piece(place, <<NL>>), message))

(***************************************************************************)
(* Getters.  Those of the message look for its pieces by position.         *)
(***************************************************************************)
Item(r, n) == IF n <= Len(r.msg.items) THEN r.msg.items[n] ELSE <<>>

SeverityOf(r) == InputStr(r.msg.severity)
FileOf(r) == Item(r, 2)

\* The number that the fourth item begins with, after blanks; else zero.
LineOf(r) ==
    LET item  == Item(r, 4)
        first == SelectInSeq(item, LAMBDA symbol : symbol \notin {SP, NL})
    IN  IF first # 0 /\ item[first] \in Numbers THEN <<item[first]>> ELSE <<"0">>

\* A slip: the text starts one item early.
SlipMessageOf(r) == FlattenSeq(SubSeq(r.msg.items, 5, Len(r.msg.items)))

MessageOf(r) == FlattenSeq(SubSeq(r.msg.items, 6, Len(r.msg.items)))
===============================================================================
