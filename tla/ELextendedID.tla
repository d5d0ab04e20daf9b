----------------------------- MODULE ELextendedID -----------------------------
(***************************************************************************)
(* The extended id of a message: a record of class ELextendedID's members, *)
(* and the comparison by which a destination's maps of limiters and of     *)
(* statistics tell message types apart and sort them.  hostname stands for *)
(* the four members that are not compared.                                 *)
(***************************************************************************)
EXTENDS Severity

CONSTANTS
    Strings,            \* the texts of its members
    StringLess(_, _)    \* operator< of std::string, a total order

Xid == [severity : ELsev_success .. ELsev_severe, id : Strings,
        module : Strings, subroutine : Strings, hostname : Strings]
Types == [severity : ELsev_success .. ELsev_severe, id : Strings,
          module : Strings, subroutine : Strings]

ASSUME StringOrderAssumption ==
    \A s, t \in Strings :
      /\ StringLess(s, t) => ~ StringLess(t, s)
      /\ s = t \/ StringLess(s, t) \/ StringLess(t, s)
      /\ \A u \in Strings : StringLess(s, t) /\ StringLess(t, u) => StringLess(s, u)

(***************************************************************************)
(* operator<: severity, category, module and subroutine, in this order.    *)
(***************************************************************************)
\* Slips: the category decides although the severities differ, or the
\* subroutines are not compared.
SlipLess(a, b) ==
    \/ a.severity < b.severity
    \/ StringLess(a.id, b.id)
    \/ /\ ~ StringLess(b.id, a.id)
       /\ \/ StringLess(a.module, b.module)
          \/ /\ ~ StringLess(b.module, a.module)
             /\ StringLess(a.subroutine, b.subroutine)
SlipLessSubroutine(a, b) ==
    \/ a.severity < b.severity
    \/ /\ a.severity = b.severity
       /\ \/ StringLess(a.id, b.id)
          \/ a.id = b.id /\ StringLess(a.module, b.module)

Less(a, b) ==
    \/ a.severity < b.severity
    \/ /\ ~ (a.severity > b.severity)
       /\ \/ StringLess(a.id, b.id)
          \/ /\ ~ StringLess(b.id, a.id)
             /\ \/ StringLess(a.module, b.module)
                \/ /\ ~ StringLess(b.module, a.module)
                   /\ StringLess(a.subroutine, b.subroutine)

\* The message type: the part of an id that a std::map sees.  Messages that
\* differ in the others only, like those of two processes, are of one type.
Type(xid) == [severity |-> xid.severity, id |-> xid.id,
              module |-> xid.module, subroutine |-> xid.subroutine]

\* What std::map takes for the same key.
Equivalent(a, b) == ~ Less(a, b) /\ ~ Less(b, a)

\* What std::map asks of the comparison of the keys it holds: it is a strict
\* order, and two keys are equivalent exactly when they are of one type.
Sorts(S) ==
    \A a, b \in S :
      /\ Less(a, b) => ~ Less(b, a)
      /\ Equivalent(a, b) <=> Type(a) = Type(b)
      /\ \A c \in S : Less(a, b) /\ Less(b, c) => Less(a, c)
===============================================================================
