----------------------------- MODULE MessageProofs -----------------------------
(***************************************************************************)
(* Who owns a message, and who gets to see it, for all threads, loggers,   *)
(* statements, insertions and destinations.                                *)
(***************************************************************************)
EXTENDS Message, FoldProofs

VarsType ==
    /\ isStarted \in BOOLEAN
    /\ module \in [Threads -> Modules \cup {Early}]
    /\ iteration \in [Threads -> Iterations \cup {PreEvents}]
    /\ logger \in [Threads -> [Loggers -> {OutOfScope, 0} \cup Messages]]
    /\ object \in Seq(ErrorObjs \cup {Deleted}) /\ Len(object) <= MaxMsgs
    /\ said \in Seq(Sayings \cup {Deleted}) /\ Len(said) = Len(object)
    /\ released \in Seq(Nat) /\ Len(released) = Len(object)

\* What a message is, compared with what it was constructed from.
ObjectRight(o, saying) ==
    /\ saying \in Sayings
    /\ o.severity = ForMessage(saying.statement.severity)
    /\ o.pid = 0 /\ o.base \in Bases
    /\ Length(o.id) <= MaxCategoryLength
    /\ \A i \in 1 .. Len(o.items) : o.items[i] # <<>>

ObjectsRight == \A m \in Messages : ObjectRight(object[m], said[m])

Owns(t, n, m) == logger[t][n] = m

\* A message has one owner and was not released; or none, and was once.
OwnersRight ==
    \A m \in DOMAIN object :
      IF object[m] = Deleted THEN released[m] = 1
      ELSE /\ released[m] = 0
           /\ \E t \in Threads, n \in Loggers : Owns(t, n, m)
           /\ \A t, u \in Threads, n, k \in Loggers : Owns(t, n, m) /\ Owns(u, k, m) => t = u /\ n = k

IInv == VarsType /\ ObjectsRight /\ OwnersRight

--------------------------------------------------------------------------------
(***************************************************************************)
(* ErrorObj's operations.                                                  *)
(***************************************************************************)
LEMMA Joined ==
    ASSUME NEW S, NEW a \in Seq(S), NEW b \in Seq(S)
    PROVE  a \o b \in Seq(S) /\ Len(a \o b) = Len(a) + Len(b)
OBVIOUS

LEMMA CutInTwo ==
    ASSUME NEW A, NEW s \in Seq(A), NEW k \in 0 .. Len(s)
    PROVE  SubSeq(s, 1, k) \o SubSeq(s, k + 1, Len(s)) = s
<1>1. PICK n \in Nat : n = Len(s)
  OBVIOUS
<1>2. SubSeq(s, 1, k) \in Seq(A) /\ SubSeq(s, k + 1, n) \in Seq(A)
  BY <1>1, SubSeqProperties
<1>3. PICK a \in Seq(A) : a = SubSeq(s, 1, k)
  BY <1>2
<1>4. PICK b \in Seq(A) : b = SubSeq(s, k + 1, n)
  BY <1>2
<1>5. Len(a) = k /\ \A i \in 1 .. k : a[i] = s[i]
  BY <1>1, <1>3
<1>6. Len(b) = n - k /\ \A i \in 1 .. n - k : b[i] = s[k + i]
  BY <1>1, <1>4
<1>7. PICK c \in Seq(A) : c = a \o b
  BY Joined
<1>8. Len(c) = n /\ \A i \in 1 .. n : c[i] = s[i]
  <2>1. Len(c) = n
    BY <1>1, <1>5, <1>6, <1>7, Joined
  <2>2. ASSUME NEW i \in 1 .. n, i <= k PROVE c[i] = s[i]
    <3>1. c[i] = a[i]
      BY <1>5, <1>7, <2>2
    <3> QED
      BY <1>5, <2>2, <3>1
  <2>3. ASSUME NEW i \in 1 .. n, ~(i <= k) PROVE c[i] = s[i]
    <3>1. i - k \in 1 .. n - k /\ k + (i - k) = i
      BY <1>1, <2>3
    <3>2. c[i] = b[i - k]
      BY <1>5, <1>6, <1>7, <2>3
    <3> QED
      BY <1>6, <3>1, <3>2
  <2> QED
    BY <2>1, <2>2, <2>3
<1>9. c = [i \in 1 .. n |-> c[i]] /\ s = [i \in 1 .. n |-> s[i]]
  BY <1>1, <1>8
<1> QED
  BY <1>1, <1>3, <1>4, <1>7, <1>8, <1>9

\* The empty text has no length.
LEMMA LengthEmpty == Length(<<>>) = 0
<1> DEFINE Goes(u) == u = [i \in 0 .. Len(<<>>) |->
                             IF i = 0 THEN 0 ELSE u[i - 1] + Width(<<>>[i])]
<1>1. Length(<<>>) = (CHOOSE u : Goes(u))[Len(<<>>)]
  BY Zenon DEF Length
<1>2. Len(<<>>) = 0 /\ 0 .. 0 = {0}
  OBVIOUS
<1>3. \E u : Goes(u)
  <2> DEFINE z == [i \in 0 .. 0 |-> 0]
  <2>1. z = [i \in 0 .. 0 |-> IF i = 0 THEN 0 ELSE z[i - 1] + Width(<<>>[i])]
    BY <1>2
  <2>2. Goes(z)
    BY <1>2, <2>1, Zenon
  <2> HIDE DEF z, Goes
  <2> QED
    BY <2>2
<1>4. PICK v : v = CHOOSE u : Goes(u)
  OBVIOUS
<1>5. Goes(v)
  <2>1. Goes(CHOOSE u : Goes(u))
    <3> HIDE DEF Goes
    <3> QED
      BY <1>3, Zenon
  <2> HIDE DEF Goes
  <2> QED
    BY <1>4, <2>1, Zenon
<1>6. v[0] = 0
  BY <1>2, <1>5
<1> HIDE DEF Goes
<1> QED
  BY <1>1, <1>2, <1>4, <1>6, Zenon

\* ErrorObj's setID cuts a category so that it fits, and keeps what is cut off for
\* the text that is logged.
THEOREM CategoryCut ==
    ASSUME NEW o \in ErrorObjs, NEW category \in Texts
    PROVE  /\ SetID(o, category) \in ErrorObjs
           /\ Length(SetID(o, category).id) <= MaxCategoryLength
           /\ SetID(o, category) = [o EXCEPT !.id = SetID(o, category).id,
                                             !.idOverflow = SetID(o, category).idOverflow]
           /\ o.idOverflow = <<>> =>
                SetID(o, category).id \o SetID(o, category).idOverflow = category
<1> DEFINE fits(n) == Length(SubSeq(category, 1, n)) <= MaxCategoryLength
           Cuts(n) == fits(n) /\ (n < Len(category) => ~fits(n + 1))
           cut == CHOOSE n \in 0 .. Len(category) : Cuts(n)
<1>1. Len(category) \in Nat /\ category \in Seq(STRING)
  BY DEF Texts
<1>2. fits(0)
  <2>1. SubSeq(category, 1, 0) = <<>>
    BY <1>1
  <2>2. 0 <= MaxCategoryLength
    BY LengthAssumption
  <2> QED
    BY <2>1, <2>2, LengthEmpty, Zenon
<1>3. \E n \in 0 .. Len(category) : Cuts(n)
  <2> DEFINE F == {n \in Nat : fits(n)}
  <2>1. 0 \in F
    BY <1>2
  <2>2. \A n \in 0 .. Len(category) : n \in Nat /\ n + 1 \in Nat
    BY <1>1
  <2>3. \A n \in Nat : n \in F <=> fits(n)
    BY Zenon
  <2> HIDE DEF F, fits
  <2>4. PICK k \in 0 .. Len(category) : k \in F /\ (k < Len(category) => k + 1 \notin F)
    BY <1>1, <2>1, LastFitting
  <2> QED
    BY <2>2, <2>3, <2>4
<1>4. cut \in 0 .. Len(category) /\ Cuts(cut)
  <2> HIDE DEF Cuts
  <2> QED
    BY <1>3, Zenon
<1> DEFINE id == SubSeq(category, 1, cut)
           rest == IF cut < Len(category) THEN SubSeq(category, cut + 1, Len(category))
                   ELSE o.idOverflow
<1>5. SetID(o, category) = [o EXCEPT !.id = id, !.idOverflow = rest]
  BY Zenon DEF SetID
<1>6. Length(id) <= MaxCategoryLength
  BY <1>4
<1>9. o.idOverflow = <<>> => id \o rest = category
  <2> HIDE DEF cut
  <2>1. CASE cut < Len(category)
    <3>2. id \o SubSeq(category, cut + 1, Len(category)) = category
      BY <1>1, <1>4, CutInTwo
    <3> QED
      BY <2>1, <3>2, Zenon
  <2>2. CASE ~(cut < Len(category)) /\ o.idOverflow = <<>>
    <3>1. cut = Len(category) /\ rest = <<>>
      BY <1>1, <1>4, <2>2
    <3>2. id = category
      BY <1>1, <3>1
    <3>3. category \o <<>> = category
      BY <1>1
    <3> HIDE DEF id, rest
    <3> QED
      BY <3>1, <3>2, <3>3, Zenon
  <2> QED
    BY <2>1, <2>2
<1> HIDE DEF cut
<1>7. id \in Texts /\ rest \in Texts
  <2>1. o.idOverflow \in Texts
    BY DEF ErrorObjs
  <2>2. cut \in Int /\ Len(category) \in Int /\ \A i \in 1 .. cut : category[i] \in STRING
    BY <1>1, <1>4
  <2>3. \A i \in cut + 1 .. Len(category) : category[i] \in STRING
    BY <1>1, <1>4
  <2>4. id \in Seq(STRING) /\ SubSeq(category, cut + 1, Len(category)) \in Seq(STRING)
    BY <2>2, <2>3, SubSeqProperties
  <2> QED
    BY <2>1, <2>4 DEF Texts
<1> HIDE DEF id, rest
<1>8. /\ SetID(o, category) \in ErrorObjs
      /\ SetID(o, category).id = id /\ SetID(o, category).idOverflow = rest
  BY <1>5, <1>7 DEF ErrorObjs
<1> QED
  BY <1>5, <1>6, <1>8, <1>9

\* The name of a file is part of its path.
LEMMA BaseNameIsText ==
    ASSUME NEW A, NEW file \in Seq(A), NEW verbatim
    PROVE  BaseName(file, verbatim) \in Seq(A)
<1> DEFINE I == {i \in 1 .. Len(file) : file[i] = "/"}
           slash == IF I # {} THEN Max(I) ELSE 0
<1>1. BaseName(file, verbatim) = IF verbatim \/ slash \in {0, Len(file)} THEN file
                                 ELSE SubSeq(file, slash + 1, Len(file))
  BY Zenon DEF BaseName, SelectLastInSeq
<1>2. Len(file) \in Nat /\ file \in Seq(A)
  OBVIOUS
<1>3. slash \in 0 .. Len(file)
  <2>1. CASE I = {}
    BY <1>2, <2>1
  <2>2. CASE I # {}
    <3>1. I \in SUBSET (1 .. Len(file))
      OBVIOUS
    <3>2. Max(I) \in I
      <4> HIDE DEF I
      <4> QED
        BY <1>2, <2>2, <3>1, Greatest
    <3> QED
      BY <1>2, <2>2, <3>2
  <2> QED
    BY <2>1, <2>2
<1> HIDE DEF slash
<1>4. SubSeq(file, slash + 1, Len(file)) \in Seq(A)
  <2>1. slash + 1 \in Int /\ Len(file) \in Int /\ \A i \in slash + 1 .. Len(file) : file[i] \in A
    BY <1>2, <1>3
  <2> QED
    BY <2>1, SubSeqProperties
<1> QED
  BY <1>1, <1>4

\* A message starts out empty, of its statement's severity.
LEMMA NewMessage ==
    ASSUME NEW st \in Statements, NEW n \in 1 .. MaxMsgs
    PROVE  /\ NewErrorObj(st, n) \in ErrorObjs
           /\ ObjectRight(NewErrorObj(st, n), [statement |-> st, insertions |-> <<>>])
           /\ NewErrorObj(st, n).id \o NewErrorObj(st, n).idOverflow = st.category
           /\ LET o == NewErrorObj(st, n)
              IN  /\ o.serial = Decimal(n) /\ o.verbatim = st.verbatim /\ o.base = "dec"
                  /\ o.filename = BaseName(st.file, st.verbatim)
                  /\ o.subroutine = <<>> /\ o.items = <<>>
<1>1. /\ st.severity \in ELsev_zeroSeverity .. ELsev_highestSeverity /\ st.verbatim \in BOOLEAN
      /\ st.category \in Texts /\ st.file \in Texts
  BY StatementsAssumption
<1> DEFINE serial == Decimal(n)
           level == ForMessage(st.severity)
           file == BaseName(st.file, st.verbatim)
           o == [serial |-> serial, severity |-> level, verbatim |-> st.verbatim,
                 id |-> <<>>, idOverflow |-> <<>>, module |-> <<>>, subroutine |-> <<>>,
                 hostname |-> <<>>, hostaddr |-> <<>>, application |-> <<>>, pid |-> 0,
                 iteration |-> <<>>, items |-> <<>>, filename |-> file,
                 lineNumber |-> "line", oss |-> <<>>, base |-> "dec"]
<1>2. NewErrorObj(st, n) = SetID(o, st.category)
  BY Zenon DEF NewErrorObj
<1>3. serial \in STRING
  BY NumbersAssumption
<1>4. level \in ELsev_success .. ELsev_severe
  BY <1>1 DEF ForMessage, ELsev_zeroSeverity, ELsev_highestSeverity, ELsev_success, ELsev_severe
<1>5. file \in Texts
  BY <1>1, BaseNameIsText DEF Texts
<1>6. <<>> \in Texts /\ <<>> \in Seq(Texts)
  BY DEF Texts
<1> HIDE DEF serial, level, file
<1>7. o \in ErrorObjs
  <2>1. ELsev_success .. ELsev_severe \subseteq Int /\ 0 \in Int
    BY DEF ELsev_success, ELsev_severe
  <2>2. ASSUME NEW empty \in Texts, NEW items \in Seq(Texts), NEW str \in {"line"}, NEW dec \in STRING
        PROVE  [serial |-> serial, severity |-> level, verbatim |-> st.verbatim,
                id |-> empty, idOverflow |-> empty, module |-> empty, subroutine |-> empty,
                hostname |-> empty, hostaddr |-> empty, application |-> empty, pid |-> 0,
                iteration |-> empty, items |-> items, filename |-> file,
                lineNumber |-> str, oss |-> empty, base |-> dec] \in ErrorObjs
    BY <1>1, <1>3, <1>4, <1>5, <2>1, Zenon DEF ErrorObjs
  <2>3. "line" \in {"line"} /\ "dec" \in STRING
    BY InsertionsAssumption DEF Bases
  <2> QED
    BY <1>6, <2>2, <2>3, Zenon
<1>8. /\ o.severity = level /\ o.pid = 0 /\ o.base = "dec" /\ o.items = <<>>
      /\ o.serial = serial /\ o.verbatim = st.verbatim /\ o.filename = file
      /\ o.subroutine = <<>> /\ o.idOverflow = <<>>
  OBVIOUS
<1> HIDE DEF o
<1>9. PICK p \in ErrorObjs : p = SetID(o, st.category)
  BY <1>1, <1>7, CategoryCut
<1>10. /\ Length(p.id) <= MaxCategoryLength
       /\ p = [o EXCEPT !.id = p.id, !.idOverflow = p.idOverflow]
       /\ p.id \o p.idOverflow = st.category
  BY <1>1, <1>7, <1>8, <1>9, CategoryCut
<1>11. /\ p.severity = level /\ p.pid = 0 /\ p.base = "dec" /\ p.items = <<>>
       /\ p.serial = serial /\ p.verbatim = st.verbatim /\ p.filename = file
       /\ p.subroutine = <<>>
  BY <1>7, <1>8, <1>10 DEF ErrorObjs
<1>12. [statement |-> st, insertions |-> <<>>] \in Sayings
  BY DEF Sayings
<1>13. ObjectRight(p, [statement |-> st, insertions |-> <<>>])
  BY <1>10, <1>11, <1>12 DEF ObjectRight, level, Bases
<1> QED
  BY <1>2, <1>9, <1>10, <1>11, <1>13, Zenon DEF serial, file

\* What is inserted keeps it right: items are not empty.
LEMMA InsertionRight ==
    ASSUME NEW o \in ErrorObjs, NEW s \in Sayings, ObjectRight(o, s), NEW i \in Insertions
    PROVE  /\ Inserted(o, i) \in ErrorObjs
           /\ ObjectRight(Inserted(o, i), [s EXCEPT !.insertions = Append(@, i)])
<1>1. [s EXCEPT !.insertions = Append(@, i)] \in Sayings
  <2>1. s.insertions \in Seq(Insertions)
    BY DEF Sayings
  <2>2. Append(s.insertions, i) \in Seq(Insertions)
    BY <2>1
  <2> QED
    BY <2>2 DEF Sayings
<1>2. [s EXCEPT !.insertions = Append(@, i)].statement = s.statement
  BY DEF Sayings
<1>3. ASSUME NEW p, p.severity = o.severity, p.pid = 0, p.base \in Bases, p.id = o.id,
             \A k \in 1 .. Len(p.items) : p.items[k] # <<>>
      PROVE  ObjectRight(p, [s EXCEPT !.insertions = Append(@, i)])
  BY <1>1, <1>2, <1>3 DEF ObjectRight
<1>4. /\ o.pid = 0 /\ o.base \in Bases /\ o.base \in STRING
      /\ o.items \in Seq(Texts) /\ \A k \in 1 .. Len(o.items) : o.items[k] # <<>>
  BY DEF ObjectRight, ErrorObjs
<1>5. <<>> \in Texts
  BY DEF Texts
<1>6. CASE i.kind = "ostream manipulator"
  <2>1. Inserted(o, i) = [o EXCEPT !.oss = <<>>]
    BY <1>6 DEF Inserted
  <2> QED
    BY <1>3, <1>4, <1>5, <2>1 DEF ErrorObjs
<1>7. CASE i.kind = "ios_base manipulator"
  <2>1. Inserted(o, i) = [o EXCEPT !.base = i.base]
    BY <1>7 DEF Inserted
  <2>2. i.base \in Bases /\ i.base \in STRING
    BY <1>7, InsertionsAssumption DEF Bases
  <2> QED
    BY <1>3, <1>4, <2>1, <2>2 DEF ErrorObjs
<1>8. CASE i.kind \in {"text", "number"}
  <2> DEFINE w == Written(o, i)
             p == [o EXCEPT !.oss = w]
  <2>1. Inserted(o, i) = IF p.oss # <<>> THEN EoEmit(p, p.oss) ELSE p
    BY <1>8 DEF Inserted, Opltlt
  <2>2. w \in Texts
    <3>1. CASE i.kind = "number"
      <4>1. w \in Seq(STRING \ {"@SUB="})
        BY <1>4, <3>1, InsertionsAssumption DEF Written
      <4>2. STRING \ {"@SUB="} \subseteq STRING
        OBVIOUS
      <4> QED
        BY <4>1, <4>2, Wider DEF Texts
    <3>2. CASE i.kind = "text"
      BY <3>2, InsertionsAssumption DEF Written
    <3> QED
      BY <1>8, <3>1, <3>2
  <2> HIDE DEF w
  <2>3. p \in ErrorObjs /\ p.oss = w /\ p.items = o.items
        /\ p.severity = o.severity /\ p.pid = o.pid /\ p.base = o.base /\ p.id = o.id
    BY <2>2 DEF ErrorObjs
  <2> HIDE DEF p
  <2>4. CASE w = <<>>
    BY <1>3, <1>4, <2>1, <2>3, <2>4
  <2>5. CASE w # <<>> /\ w[1] = "@SUB="
    <3>1. Tail(w) \in Texts
      BY <2>2, <2>5 DEF Texts
    <3> DEFINE t == IF Tail(w) # <<>> /\ Tail(w)[1] = SP THEN Tail(Tail(w)) ELSE Tail(w)
    <3>2. t \in Texts
      <4>1. ASSUME Tail(w) # <<>> PROVE Tail(Tail(w)) \in Texts
        <5>1. PICK v \in Seq(STRING) : v = Tail(w)
          BY <3>1 DEF Texts
        <5>2. Tail(v) \in Seq(STRING)
          BY <4>1, <5>1
        <5> QED
          BY <5>1, <5>2 DEF Texts
      <4> QED
        BY <3>1, <4>1
    <3>3. Inserted(o, i) = [p EXCEPT !.subroutine = t]
      BY <2>1, <2>3, <2>5 DEF EoEmit, SetSubroutine
    <3> HIDE DEF t
    <3>4. PICK r : r = Inserted(o, i)
      OBVIOUS
    <3>5. r \in ErrorObjs
      BY <2>3, <3>2, <3>3, <3>4 DEF ErrorObjs
    <3>6. /\ r.severity = p.severity /\ r.pid = p.pid /\ r.base = p.base /\ r.id = p.id
          /\ r.items = p.items
      BY <2>3, <3>2, <3>3, <3>4 DEF ErrorObjs
    <3> QED
      <4>1. \A k \in 1 .. Len(r.items) : r.items[k] # <<>>
        BY <1>4, <2>3, <3>6, Zenon
      <4>2. r.severity = o.severity /\ r.pid = 0 /\ r.base \in Bases /\ r.id = o.id
        BY <1>4, <2>3, <3>6, Zenon
      <4>3. ObjectRight(r, [s EXCEPT !.insertions = Append(@, i)])
        BY <1>3, <4>1, <4>2, Zenon
      <4> QED
        BY <3>4, <3>5, <4>3, Zenon
  <2>6. CASE w # <<>> /\ w[1] # "@SUB="
    <3> DEFINE q == Append(o.items, w)
    <3>1. Inserted(o, i) = [p EXCEPT !.items = q]
      BY <2>1, <2>3, <2>6 DEF EoEmit
    <3>2. q \in Seq(Texts)
      BY <1>4, <2>2
    <3>3. \A k \in 1 .. Len(q) : q[k] # <<>>
      BY <1>4, <2>6
    <3> HIDE DEF q
    <3> QED
      <4>1. [p EXCEPT !.items = q] \in ErrorObjs
        BY <2>3, <3>2 DEF ErrorObjs
      <4>2. PICK r : r = [p EXCEPT !.items = q]
        OBVIOUS
      <4>3. /\ r.items = q /\ r.severity = p.severity /\ r.pid = p.pid /\ r.base = p.base
            /\ r.id = p.id
        BY <2>3, <4>2 DEF ErrorObjs
      <4>4. r.severity = o.severity /\ r.pid = 0 /\ r.base \in Bases /\ r.id = o.id
        BY <1>4, <2>3, <4>3, Zenon
      <4>5. \A k \in 1 .. Len(r.items) : r.items[k] # <<>>
        BY <3>3, <4>3, Zenon
      <4>6. ObjectRight(r, [s EXCEPT !.insertions = Append(@, i)])
        BY <1>3, <4>4, <4>5, Zenon
      <4> QED
        BY <3>1, <4>1, <4>2, <4>6, Zenon
  <2> QED
    BY <2>4, <2>5, <2>6
<1> QED
  BY <1>6, <1>7, <1>8, InsertionsAssumption

--------------------------------------------------------------------------------
(***************************************************************************)
(* The steps.                                                              *)
(***************************************************************************)
\* What the type says of the messages, and of what the loggers hold.
LEMMA WhatMessagesAre ==
    ASSUME VarsType
    PROVE  /\ DOMAIN object = 1 .. Len(object) /\ Len(object) \in Nat
           /\ \A m \in Messages : m \in 1 .. Len(object) /\ m # 0 /\ m # OutOfScope
           /\ \A m \in Messages : object[m] \in ErrorObjs
           /\ \A m \in DOMAIN object : object[m] # Deleted => m \in Messages
BY DEF VarsType, Messages, OutOfScope

LEMMA Initially == Init => IInv
<1> SUFFICES ASSUME Init PROVE IInv
  OBVIOUS
<1>1. object = <<>> /\ said = <<>> /\ released = <<>> /\ isStarted = FALSE
  BY DEF Init
<1>2. /\ object \in Seq(ErrorObjs \cup {Deleted}) /\ said \in Seq(Sayings \cup {Deleted})
      /\ released \in Seq(Nat) /\ Len(object) = 0 /\ Len(said) = 0 /\ Len(released) = 0
      /\ DOMAIN object = {}
  BY <1>1
<1>3. VarsType
  <2>1. /\ module \in [Threads -> Modules \cup {Early}]
        /\ iteration \in [Threads -> Iterations \cup {PreEvents}]
        /\ logger \in [Threads -> [Loggers -> {OutOfScope, 0} \cup Messages]]
    BY Zenon DEF Init
  <2>2. Len(object) <= MaxMsgs
    BY <1>2, NumbersAssumption
  <2>3. isStarted \in BOOLEAN
    BY <1>1
  <2> QED
    BY <1>2, <2>1, <2>2, <2>3, Zenon DEF VarsType
<1>4. ObjectsRight /\ OwnersRight
  BY <1>2, Zenon DEF ObjectsRight, OwnersRight, Messages
<1> QED
  BY <1>3, <1>4 DEF IInv

LEMMA ConstructStep ==
    ASSUME IInv, NEW t \in Threads, NEW n \in Loggers, NEW st \in Statements, Construct(t, n, st)
    PROVE  IInv'
<1> USE WhatMessagesAre DEF IInv
<1> DEFINE p == Len(object) + 1
<1>1. /\ p \in 1 .. MaxMsgs /\ Len(object) \in Nat /\ Len(said) = Len(object)
      /\ Len(released) = Len(object)
  BY NumbersAssumption DEF VarsType, Construct
<1>2. PICK new \in ErrorObjs : new = NewErrorObj(st, p)
  BY <1>1, NewMessage
<1>3. PICK saying \in Sayings : saying = [statement |-> st, insertions |-> <<>>]
  <2>1. <<>> \in Seq(Insertions)
    OBVIOUS
  <2> QED
    BY <2>1, Zenon DEF Sayings
<1>4. ObjectRight(new, saying)
  BY <1>1, <1>2, <1>3, NewMessage
<1>5. new # Deleted /\ saying # Deleted
  BY DeletedAssumption
<1>6. /\ object' = Append(object, new) /\ said' = Append(said, saying)
      /\ released' = Append(released, 0)
  BY <1>2, <1>3 DEF Construct
<1>7. /\ object' \in Seq(ErrorObjs \cup {Deleted}) /\ Len(object') = p
      /\ object'[p] = new /\ \A m \in 1 .. Len(object) : object'[m] = object[m]
      /\ DOMAIN object' = 1 .. p
  BY <1>6 DEF VarsType
<1>8. /\ said' \in Seq(Sayings \cup {Deleted}) /\ Len(said') = p
      /\ said'[p] = saying /\ \A m \in 1 .. Len(object) : said'[m] = said[m]
  BY <1>1, <1>6 DEF VarsType
<1>9. /\ released' \in Seq(Nat) /\ Len(released') = p
      /\ released'[p] = 0 /\ \A m \in 1 .. Len(object) : released'[m] = released[m]
  BY <1>1, <1>6 DEF VarsType
<1>10. Messages' = Messages \cup {p}
  BY <1>1, <1>5, <1>7 DEF Messages
<1>11. \A w \in Threads, l \in Loggers :
         logger'[w][l] = IF w = t /\ l = n THEN p ELSE logger[w][l]
  <2>1. PICK x : x = p
    OBVIOUS
  <2>2. logger' = [logger EXCEPT ![t][n] = x]
    BY <2>1 DEF Construct
  <2> QED
    BY <2>1, <2>2 DEF VarsType
<1>12. VarsType'
  <2>1. logger' \in [Threads -> [Loggers -> {OutOfScope, 0} \cup Messages']]
    <3>1. logger \in [Threads -> [Loggers -> {OutOfScope, 0} \cup Messages']]
      BY <1>10 DEF VarsType
    <3>2. p \in Messages'
      BY <1>10
    <3> HIDE DEF p
    <3>3. logger' = [logger EXCEPT ![t][n] = p]
      BY DEF Construct, p
    <3> QED
      BY <3>1, <3>2, <3>3
  <2>2. UNCHANGED <<isStarted, module, iteration>>
    BY DEF Construct
  <2> QED
    BY <1>1, <1>7, <1>8, <1>9, <2>1, <2>2 DEF VarsType
<1>13. ObjectsRight'
  BY <1>4, <1>7, <1>8, <1>10 DEF ObjectsRight
<1>14. OwnersRight'
  <2>1. \A w \in Threads, l \in Loggers : logger[w][l] # p
    BY <1>1 DEF VarsType, OutOfScope
  <2>2. logger[t][n] \notin 1 .. Len(object)
    BY DEF Construct, OutOfScope
  <2> SUFFICES ASSUME NEW m \in 1 .. p
               PROVE  IF object'[m] = Deleted THEN released'[m] = 1
                      ELSE /\ released'[m] = 0
                           /\ \E w \in Threads, l \in Loggers : logger'[w][l] = m
                           /\ \A w, u \in Threads, l, k \in Loggers :
                                logger'[w][l] = m /\ logger'[u][k] = m => w = u /\ l = k
    BY <1>7 DEF OwnersRight, Owns
  <2>3. CASE m = p
    BY <1>5, <1>7, <1>9, <1>11, <2>1, <2>3
  <2>4. CASE m \in 1 .. Len(object)
    <3>1. m # p
      BY <1>1, <2>4
    <3>2. object'[m] = object[m] /\ released'[m] = released[m]
      BY <1>7, <1>9, <2>4
    <3>3. \A w \in Threads, l \in Loggers : logger'[w][l] = m <=> logger[w][l] = m
      BY <1>11, <2>2, <2>4, <3>1
    <3> QED
      BY <2>4, <3>2, <3>3 DEF OwnersRight, Owns
  <2> QED
    BY <1>1, <2>3, <2>4
<1> QED
  BY <1>12, <1>13, <1>14

LEMMA InsertStep ==
    ASSUME IInv, NEW t \in Threads, NEW n \in Loggers, NEW i \in Insertions, Insert(t, n, i)
    PROVE  IInv'
<1> USE WhatMessagesAre DEF IInv
<1>1. PICK m \in Messages : m = logger[t][n]
  BY DEF Insert
<1>2. PICK o \in ErrorObjs : o = object[m]
  OBVIOUS
<1>3. PICK s \in Sayings : s = said[m]
  BY DEF ObjectsRight, ObjectRight
<1>4. ObjectRight(o, s)
  BY <1>2, <1>3 DEF ObjectsRight
<1>5. PICK q \in ErrorObjs : q = Inserted(o, i)
  BY <1>4, InsertionRight
<1>6. PICK r : r = [s EXCEPT !.insertions = Append(@, i)]
  OBVIOUS
<1>7. ObjectRight(q, r)
  BY <1>4, <1>5, <1>6, InsertionRight
<1>8. q # Deleted /\ r \in Sayings /\ m \in 1 .. Len(object) /\ Len(said) = Len(object)
  BY <1>7, DeletedAssumption DEF VarsType, ObjectRight
<1>9. /\ object' = [object EXCEPT ![m] = q] /\ said' = [said EXCEPT ![m] = r]
      /\ UNCHANGED <<isStarted, module, iteration, logger, released>>
  BY <1>1, <1>2, <1>3, <1>5, <1>6 DEF Insert
<1>10. /\ object' \in Seq(ErrorObjs \cup {Deleted}) /\ Len(object') = Len(object)
       /\ DOMAIN object' = DOMAIN object
       /\ \A k \in 1 .. Len(object) : object'[k] = IF k = m THEN q ELSE object[k]
  BY <1>8, <1>9 DEF VarsType
<1>11. /\ said' \in Seq(Sayings \cup {Deleted}) /\ Len(said') = Len(said)
       /\ \A k \in 1 .. Len(object) : said'[k] = IF k = m THEN r ELSE said[k]
  BY <1>8, <1>9 DEF VarsType
<1>12. Messages' = Messages
  BY <1>8, <1>10 DEF Messages
<1>13. VarsType'
  BY <1>9, <1>10, <1>11, <1>12 DEF VarsType
<1>14. ObjectsRight'
  BY <1>7, <1>10, <1>11, <1>12 DEF ObjectsRight
<1>15. OwnersRight'
  <2>1. \A k \in 1 .. Len(object) : object'[k] = Deleted <=> object[k] = Deleted
    BY <1>8, <1>10 DEF Messages
  <2> QED
    BY <1>9, <1>10, <2>1 DEF OwnersRight, Owns
<1> QED
  BY <1>13, <1>14, <1>15


LEMMA MoveStep ==
    ASSUME IInv, NEW t \in Threads, NEW n \in Loggers, NEW u \in Threads, NEW k \in Loggers,
           Move(t, n, u, k)
    PROVE  IInv'
<1> USE WhatMessagesAre DEF IInv
<1>1. PICK x : x = logger[t][n]
  OBVIOUS
<1>2. x \in {0} \cup Messages /\ logger[u][k] = OutOfScope /\ ~(t = u /\ n = k)
  BY <1>1 DEF Move, VarsType
<1>3. /\ logger' = [logger EXCEPT ![u][k] = x, ![t][n] = 0]
      /\ UNCHANGED <<isStarted, module, iteration, object, said, released>>
  BY <1>1 DEF Move
<1>4. \A w \in Threads, l \in Loggers :
        logger'[w][l] = IF w = t /\ l = n THEN 0
                        ELSE IF w = u /\ l = k THEN x ELSE logger[w][l]
  <2>1. PICK g : g = [logger EXCEPT ![u][k] = x]
    OBVIOUS
  <2>2. g \in [Threads -> [Loggers -> {OutOfScope, 0} \cup Messages]]
    BY <1>2, <2>1 DEF VarsType
  <2>3. \A w \in Threads, l \in Loggers :
          g[w][l] = IF w = u /\ l = k THEN x ELSE logger[w][l]
    BY <2>1 DEF VarsType
  <2>4. logger' = [g EXCEPT ![t][n] = 0]
    BY <1>3, <2>1, Zenon
  <2>5. \A w \in Threads, l \in Loggers :
          logger'[w][l] = IF w = t /\ l = n THEN 0 ELSE g[w][l]
    BY <2>2, <2>4
  <2> QED
    BY <2>3, <2>5
<1>5. Messages' = Messages
  BY <1>3 DEF Messages
<1>6. VarsType'
  <2>1. logger' \in [Threads -> [Loggers -> {OutOfScope, 0} \cup Messages]]
    BY <1>2, <1>3 DEF VarsType
  <2> QED
    BY <1>3, <1>5, <2>1 DEF VarsType
<1>7. ObjectsRight'
  BY <1>3, <1>5 DEF ObjectsRight
<1>8. OwnersRight'
  <2> SUFFICES ASSUME NEW m \in DOMAIN object, object[m] # Deleted
               PROVE  /\ \E w \in Threads, l \in Loggers : logger'[w][l] = m
                      /\ \A w, v \in Threads, l, j \in Loggers :
                           logger'[w][l] = m /\ logger'[v][j] = m => w = v /\ l = j
    BY <1>3 DEF OwnersRight, Owns
  <2>1. m # 0 /\ m # OutOfScope
    BY DEF OutOfScope
  <2>2. PICK w \in Threads, l \in Loggers : logger[w][l] = m
    BY DEF OwnersRight, Owns
  <2>3. \A v \in Threads, j \in Loggers : logger[v][j] = m => v = w /\ j = l
    BY <2>2 DEF OwnersRight, Owns
  <2>4. CASE w = t /\ l = n
    <3>1. x = m
      BY <1>1, <2>2, <2>4
    <3>2. logger'[u][k] = m
      BY <1>2, <1>4, <3>1
    <3>3. \A v \in Threads, j \in Loggers : logger'[v][j] = m => v = u /\ j = k
      BY <1>4, <2>1, <2>3, <2>4
    <3> QED
      BY <3>2, <3>3
  <2>5. CASE ~(w = t /\ l = n)
    <3>1. x # m
      BY <1>1, <2>3, <2>5
    <3>2. ~(w = u /\ l = k)
      BY <1>2, <2>1, <2>2
    <3>3. logger'[w][l] = m
      BY <1>4, <2>2, <2>5, <3>2
    <3>4. \A v \in Threads, j \in Loggers : logger'[v][j] = m => v = w /\ j = l
      BY <1>4, <2>1, <2>3, <3>1
    <3> QED
      BY <3>3, <3>4
  <2> QED
    BY <2>4, <2>5
<1> QED
  BY <1>6, <1>7, <1>8

LEMMA DestroyEmptyStep ==
    ASSUME IInv, NEW t \in Threads, NEW n \in Loggers, DestroyEmpty(t, n)
    PROVE  IInv'
<1> USE WhatMessagesAre DEF IInv
<1>1. /\ logger[t][n] = 0 /\ logger' = [logger EXCEPT ![t][n] = OutOfScope]
      /\ UNCHANGED <<isStarted, module, iteration, object, said, released>>
  BY DEF DestroyEmpty
<1>2. \A w \in Threads, l \in Loggers :
        logger'[w][l] = IF w = t /\ l = n THEN OutOfScope ELSE logger[w][l]
  BY <1>1 DEF VarsType
<1>3. Messages' = Messages
  BY <1>1 DEF Messages
<1>4. VarsType'
  <2>1. logger' \in [Threads -> [Loggers -> {OutOfScope, 0} \cup Messages]]
    BY <1>1 DEF VarsType
  <2> QED
    BY <1>1, <1>3, <2>1 DEF VarsType
<1>5. ObjectsRight'
  BY <1>1, <1>3 DEF ObjectsRight
<1>6. OwnersRight'
  <2>1. \A m \in DOMAIN object, w \in Threads, l \in Loggers :
          logger'[w][l] = m <=> logger[w][l] = m
    BY <1>1, <1>2 DEF OutOfScope
  <2> QED
    BY <1>1, <2>1 DEF OwnersRight, Owns
<1> QED
  BY <1>4, <1>5, <1>6

LEMMA ReleaseStep ==
    ASSUME IInv, NEW t \in Threads, NEW n \in Loggers, Release(t, n)
    PROVE  IInv'
<1> USE WhatMessagesAre DEF IInv
<1>1. PICK m \in Messages : m = logger[t][n]
  BY DEF Release
<1>2. /\ object' = [object EXCEPT ![m] = Deleted] /\ said' = [said EXCEPT ![m] = Deleted]
      /\ released' = [released EXCEPT ![m] = released[m] + 1]
      /\ logger' = [logger EXCEPT ![t][n] = OutOfScope]
      /\ UNCHANGED <<isStarted, module, iteration>>
  BY <1>1, Zenon DEF Release
<1>3. m \in 1 .. Len(object) /\ released[m] = 0 /\ Len(said) = Len(object) /\ Len(released) = Len(object)
  BY DEF OwnersRight, VarsType, Messages
<1>4. \A w \in Threads, l \in Loggers :
        /\ logger[w][l] = m => w = t /\ l = n
        /\ logger'[w][l] = IF w = t /\ l = n THEN OutOfScope ELSE logger[w][l]
  <2>1. \A w \in Threads, l \in Loggers : logger[w][l] = m => w = t /\ l = n
    BY <1>1 DEF OwnersRight, Owns, Messages
  <2>2. \A w \in Threads, l \in Loggers :
          logger'[w][l] = IF w = t /\ l = n THEN OutOfScope ELSE logger[w][l]
    BY <1>2 DEF VarsType
  <2> QED
    BY <2>1, <2>2
<1>5. /\ object' \in Seq(ErrorObjs \cup {Deleted}) /\ Len(object') = Len(object)
      /\ DOMAIN object' = DOMAIN object
      /\ \A k \in 1 .. Len(object) : object'[k] = IF k = m THEN Deleted ELSE object[k]
  BY <1>2 DEF VarsType
<1>6. /\ said' \in Seq(Sayings \cup {Deleted}) /\ Len(said') = Len(said)
      /\ \A k \in 1 .. Len(object) : said'[k] = IF k = m THEN Deleted ELSE said[k]
  BY <1>2 DEF VarsType
<1>7. /\ released' \in Seq(Nat) /\ Len(released') = Len(released)
      /\ \A k \in 1 .. Len(object) : released'[k] = IF k = m THEN 1 ELSE released[k]
  BY <1>2, <1>3 DEF VarsType
<1>8. Messages' = Messages \ {m}
  BY <1>5 DEF Messages
<1>9. VarsType'
  <2>1. logger' \in [Threads -> [Loggers -> {OutOfScope, 0} \cup Messages']]
    <3>1. logger' \in [Threads -> [Loggers -> {OutOfScope, 0} \cup Messages]]
      BY <1>2 DEF VarsType
    <3>2. \A w \in Threads, l \in Loggers : logger'[w][l] # m
      BY <1>4
    <3> QED
      BY <1>8, <3>1, <3>2
  <2> QED
    BY <1>2, <1>5, <1>6, <1>7, <2>1 DEF VarsType
<1>10. ObjectsRight'
  BY <1>5, <1>6, <1>8 DEF ObjectsRight
<1>11. OwnersRight'
  <2>1. \A j \in DOMAIN object, w \in Threads, l \in Loggers :
          j # m => (logger'[w][l] = j <=> logger[w][l] = j)
    BY <1>1, <1>4 DEF OutOfScope
  <2> QED
    BY <1>5, <1>7, <2>1 DEF OwnersRight, Owns
<1> QED
  BY <1>9, <1>10, <1>11

\* Every step keeps the invariant.
LEMMA Step == IInv /\ [Next]_vars => IInv'
<1> SUFFICES ASSUME IInv, [Next]_vars PROVE IInv'
  OBVIOUS
<1>1. ASSUME NEW t \in Threads, NEW n \in Loggers, NEW st \in Statements, Construct(t, n, st)
      PROVE  IInv'
  BY <1>1, ConstructStep
<1>2. ASSUME NEW t \in Threads, NEW n \in Loggers, NEW i \in Insertions, Insert(t, n, i)
      PROVE  IInv'
  BY <1>2, InsertStep
<1>3. ASSUME NEW t \in Threads, NEW n \in Loggers, NEW u \in Threads, NEW k \in Loggers,
             Move(t, n, u, k)
      PROVE  IInv'
  BY <1>3, MoveStep
<1>4. ASSUME NEW t \in Threads, NEW n \in Loggers, DestroyEmpty(t, n)
      PROVE  IInv'
  BY <1>4, DestroyEmptyStep
<1>5. ASSUME NEW t \in Threads, NEW n \in Loggers, Release(t, n)
      PROVE  IInv'
  BY <1>5, ReleaseStep
<1>6. ASSUME NEW t \in Threads, SetContext(t) PROVE IInv'
  <2>1. UNCHANGED <<isStarted, logger, object, said, released>>
    BY <1>6 DEF SetContext
  <2>2. Messages' = Messages
    BY <2>1 DEF Messages
  <2>3. /\ module' \in [Threads -> Modules \cup {Early}]
        /\ iteration' \in [Threads -> Iterations \cup {PreEvents}]
    BY <1>6 DEF SetContext, SetModuleName, SetIteration, IInv, VarsType
  <2> QED
    BY <2>1, <2>2, <2>3 DEF IInv, VarsType, ObjectsRight, OwnersRight, Owns
<1>7. CASE StartOrEnd
  <2>1. isStarted' \in BOOLEAN /\ UNCHANGED <<module, iteration, logger, object, said, released>>
    BY <1>7 DEF StartOrEnd
  <2>2. Messages' = Messages
    BY <2>1 DEF Messages
  <2> QED
    BY <2>1, <2>2 DEF IInv, VarsType, ObjectsRight, OwnersRight, Owns
<1>8. CASE UNCHANGED vars
  BY <1>8 DEF vars, IInv, VarsType, ObjectsRight, OwnersRight, Owns, Messages
<1> QED
  BY <1>1, <1>2, <1>3, <1>4, <1>5, <1>6, <1>7, <1>8, Zenon DEF Next

\* The invariant of which all theorems below are consequences.
LEMMA Invariant == Spec => []IInv
BY Initially, Step, PTL DEF Spec

--------------------------------------------------------------------------------
(***************************************************************************)
(* What a reader of the code may rely on.                                  *)
(***************************************************************************)
\* Threads have the module names and iterations they set, loggers have messages
\* that are still there, categories fit and no item of a text is empty.
THEOREM TypeCorrect == Spec => []TypeOK
<1>1. IInv => TypeOK
  <2> SUFFICES ASSUME IInv PROVE TypeOK
    OBVIOUS
  <2>1. \A m \in Messages : DOMAIN object[m].items = 1 .. Len(object[m].items)
    BY WhatMessagesAre DEF IInv, ErrorObjs
  <2> QED
    BY <2>1, Zenon DEF IInv, VarsType, ObjectsRight, ObjectRight, TypeOK
<1> QED
  BY <1>1, Invariant, PTL

\* However loggers are moved, a message belongs to one of them until it is
\* released, and is released once (MaybeLogger_'s unique_ptr ap and destructor).
THEOREM ReleasedOnce == Spec => []OneOwner
<1>1. IInv => OneOwner
  <2> SUFFICES ASSUME IInv, NEW m \in DOMAIN object
               PROVE  Cardinality({l \in Threads \X Loggers : logger[l[1]][l[2]] = m})
                        + released[m] = 1
    BY DEF OneOwner
  <2> DEFINE owners == {l \in Threads \X Loggers : logger[l[1]][l[2]] = m}
  <2> USE DEF IInv
  <2>1. CASE object[m] = Deleted
    <3>1. released[m] = 1 /\ m \notin Messages /\ m # 0 /\ m # OutOfScope
      BY <2>1, WhatMessagesAre DEF OwnersRight, Messages, OutOfScope
    <3>2. owners = {}
      BY <3>1 DEF VarsType
    <3> QED
      BY <3>1, <3>2, FS_EmptySet
  <2>2. CASE object[m] # Deleted
    <3>1. PICK t \in Threads, n \in Loggers : logger[t][n] = m
      BY <2>2 DEF OwnersRight, Owns
    <3>2. \A u \in Threads, k \in Loggers : logger[u][k] = m => u = t /\ k = n
      BY <2>2, <3>1 DEF OwnersRight, Owns
    <3>3. owners = {<<t, n>>}
      BY <3>1, <3>2
    <3>4. Cardinality(owners) = 1
      BY <3>3, FS_Singleton
    <3> QED
      BY <2>2, <3>4 DEF OwnersRight
  <2> QED
    BY <2>1, <2>2
<1> QED
  BY <1>1, Invariant, PTL

--------------------------------------------------------------------------------
(***************************************************************************)
(* The names of thresholds.                                                *)
(***************************************************************************)
\* The names of thresholds stand for the levels they should stand for.
LEMMA ThresholdIs ==
    ASSUME NEW i \in 1 .. 5
    PROVE  FromName(Thresholds[i]) = Severities[i]
<1>1. Severities[i] \in 1 .. 8
  BY DEF Severities, ELsev_success, ELsev_info, ELsev_warning, ELsev_error, ELsev_severe
<1>2. Thresholds[i] = InputStr(Severities[i])
  <2>1. i = 1 \/ i = 2 \/ i = 3 \/ i = 4 \/ i = 5
    OBVIOUS
  <2> QED
    BY <2>1 DEF Thresholds, Severities, InputStr, ELsev_success, ELsev_info,
                ELsev_warning, ELsev_error, ELsev_severe
<1> QED
  BY <1>1, <1>2, LevelOfName

--------------------------------------------------------------------------------
(***************************************************************************)
(* What a destination that prints a message prints is not empty.           *)
(***************************************************************************)
Levels == ELsev_success .. ELsev_severe

\* What texts consist of: the user's words, and those of the layout.
Symbols ==
    STRING \cup {NL, SP, "%MSG", ":", "[serial #", "]", "()", "time", "line", " ==> ", "|"}
      \cup {Symbol(level) : level \in Levels} \cup {Name(level) : level \in Levels}

LEMMA Tuples ==
    ASSUME NEW S, NEW a \in S, NEW b \in S, NEW c \in S, NEW d \in S
    PROVE  /\ <<>> \in Seq(S) /\ <<a>> \in Seq(S) /\ <<a, b>> \in Seq(S)
           /\ <<a, b, c, d>> \in Seq(S)
OBVIOUS

LEMMA Pieces ==
    ASSUME NEW S
    PROVE  /\ <<>> \in Seq(S)
           /\ \A s \in Seq(S) : \A i \in 1 .. Len(s) : s[i] \in S
           /\ \A n \in Nat : \A s \in [1 .. n -> S] : s \in Seq(S) /\ Len(s) = n
<1>1. ASSUME NEW n \in Nat, NEW s \in [1 .. n -> S] PROVE s \in Seq(S) /\ Len(s) = n
  OBVIOUS
<1> QED
  BY <1>1

LEMMA LastPiece ==
    ASSUME NEW S, NEW s \in Seq(S), NEW x \in S, Len(s) # 0
    PROVE  /\ Append(s, x) \in Seq(S) /\ Len(Append(s, x)) = Len(s) + 1
           /\ Append(s, x)[1] = s[1]
OBVIOUS

LEMMA TextIsPrintable == Texts \subseteq Seq(Symbols)
<1> SUFFICES ASSUME NEW text \in Seq(STRING) PROVE text \in Seq(Symbols)
  BY DEF Texts
<1>1. STRING \subseteq Symbols
  BY Zenon DEF Symbols
<1> QED
  BY <1>1, Wider

LEMMA WhenIs ==
    ASSUME NEW condition, NEW S, NEW tokens \in Seq(S)
    PROVE  When(condition, tokens) \in Seq(S)
BY DEF When

\* What two sequences consist of.
LEMMA PartsAre ==
    ASSUME NEW A, NEW B, NEW a \in Seq(B), NEW b \in Seq(B), a \o b \in Seq(A)
    PROVE  a \in Seq(A) /\ b \in Seq(A)
<1>1. /\ \A i \in 1 .. Len(a) : i \in 1 .. Len(a \o b) /\ (a \o b)[i] = a[i]
      /\ \A i \in 1 .. Len(b) : Len(a) + i \in 1 .. Len(a \o b) /\ (a \o b)[Len(a) + i] = b[i]
  OBVIOUS
<1>2. PICK c \in Seq(A) : c = a \o b
  OBVIOUS
<1>3. /\ \A i \in 1 .. Len(a) : a[i] \in A
      /\ \A i \in 1 .. Len(b) : b[i] \in A
  BY <1>1, <1>2
<1>4. a \in Seq(A)
  <2>1. a = [i \in 1 .. Len(a) |-> a[i]] /\ Len(a) \in Nat
    OBVIOUS
  <2> QED
    BY <1>3, <2>1
<1>5. b \in Seq(A)
  <2>1. b = [i \in 1 .. Len(b) |-> b[i]] /\ Len(b) \in Nat
    OBVIOUS
  <2> QED
    BY <1>3, <2>1
<1> QED
  BY <1>4, <1>5

\* Sequences put together end with the last of them.
LEMMA EndsWith ==
    ASSUME NEW A, NEW a \in Seq(A), NEW b \in Seq(A)
    PROVE  IsSuffix(b, a \o b)
<1>1. PICK c \in Seq(A) : c = a \o b
  BY Joined
<1>2. PICK m \in Nat, n \in Nat : m = Len(a) /\ n = Len(b) /\ Len(c) = m + n
  BY <1>1
<1>3. \A i \in 1 .. n : c[m + i] = b[i]
  BY <1>1, <1>2
<1>4. PICK r : r = Reverse(b)
  OBVIOUS
<1>5. PICK t : t = Reverse(c)
  OBVIOUS
<1>6. /\ r \in Seq(A) /\ Len(r) = n /\ \A i \in 1 .. n : r[i] = b[(n - i) + 1]
  BY <1>2, <1>4 DEF Reverse
<1>7. /\ t \in Seq(A) /\ Len(t) = m + n /\ \A i \in 1 .. m + n : t[i] = c[((m + n) - i) + 1]
  BY <1>2, <1>5 DEF Reverse
<1>8. \A i \in 1 .. n : r[i] = t[i]
  <2> SUFFICES ASSUME NEW i \in 1 .. n PROVE b[(n - i) + 1] = c[((m + n) - i) + 1]
    BY <1>6, <1>7
  <2>1. (n - i) + 1 \in 1 .. n /\ m + ((n - i) + 1) = ((m + n) - i) + 1
    OBVIOUS
  <2> QED
    BY <1>3, <2>1
<1>9. Len(r) <= Len(t) /\ SubSeq(r, 1, Len(r)) = SubSeq(t, 1, Len(r))
  BY <1>6, <1>7, <1>8
<1> QED
  BY <1>1, <1>4, <1>5, <1>9 DEF IsSuffix, IsPrefix

\* A header ends at the first break.
LEMMA HeaderIs ==
    ASSUME NEW S, NEW a \in Seq(S), NEW b \in Seq(S), \A i \in 1 .. Len(a) : a[i] \notin Breaks,
           b # <<>>, b[1] \in Breaks
    PROVE  Header(a \o b) = a
<1>1. PICK c \in Seq(S) : c = a \o b
  BY Joined
<1> DEFINE n == Len(a)
           I == {i \in 1 .. Len(c) : c[i] \in Breaks}
<1>2. n \in Nat /\ n + 1 \in 1 .. Len(c) /\ c[n + 1] = b[1] /\ \A i \in 1 .. n : c[i] = a[i]
  BY <1>1
<1>3. n + 1 \in I /\ \A i \in I : n + 1 <= i
  BY <1>2
<1>4. Min(I) = n + 1
  <2>1. Min(I) \in I /\ \A i \in I : Min(I) <= i
    <3> HIDE DEF I
    <3> QED
      BY <1>3, Zenon DEF Min
  <2>2. Min(I) \in Int
    BY <2>1
  <2> HIDE DEF I
  <2> QED
    BY <1>2, <1>3, <2>1, <2>2
<1>5. SelectInSeq(c, LAMBDA symbol : symbol \in Breaks) = n + 1
  <2>1. SelectInSeq(c, LAMBDA symbol : symbol \in Breaks) = IF I # {} THEN Min(I) ELSE 0
    BY Zenon DEF SelectInSeq
  <2> HIDE DEF I
  <2> QED
    BY <1>3, <1>4, <2>1
<1>6. Header(c) = SubSeq(c, 1, (n + 1) - 1)
  BY <1>5, Zenon DEF Header
<1>7. SubSeq(c, 1, n) = a
  BY <1>1, <1>2
<1> QED
  BY <1>1, <1>2, <1>6, <1>7

\* What emitToken writes of a token.
Body(s) == IF s # <<>> /\ s[1] = NL THEN Tail(s) ELSE s

LEMMA BodyIs == ASSUME NEW B, NEW s \in Seq(B) PROVE Body(s) \in Seq(B)
BY DEF Body

\* The token is written with spaces around it.
Writes(before, s, after) ==
    \E lead, indent \in Seq({SP}) :
      after = IF s = <<>> THEN before ELSE before \o lead \o Body(s) \o indent \o <<>>

LEMMA EmitTokenWrites ==
    ASSUME NEW lineLength, NEW line, NEW B, NEW s \in Seq(B)
    PROVE  Writes(line.text, s, EmitToken(lineLength, line, s, FALSE, TRUE).text)
<1>1. CASE s = <<>>
  <2>1. EmitToken(lineLength, line, s, FALSE, TRUE) = line
    BY <1>1, Zenon DEF EmitToken
  <2>2. <<>> \in Seq({SP})
    OBVIOUS
  <2> QED
    BY <1>1, <2>1, <2>2, Zenon DEF Writes
<1>2. CASE s # <<>>
  <2> DEFINE breaks == s[1] = NL \/ line.charsOnLine + Length(s) > lineLength
             lead   == IF breaks /\ ~SecondIsSpace(s) THEN <<SP>> ELSE <<>>
             body   == IF s[1] = NL THEN Tail(s) ELSE s
             indent == IF EndsLine(s) THEN Spaces(IF s[Len(s)] = SP THEN 6 ELSE 7) ELSE <<>>
             end    == IF FALSE THEN <<NL>> ELSE <<>>
             start  == IF EndsLine(s) THEN 7
                       ELSE IF breaks THEN Len(lead) ELSE line.charsOnLine
             count  == IF FALSE THEN 0 ELSE start + Length(s)
             text   == line.text \o lead \o body \o indent \o end
  <2>1. EmitToken(lineLength, line, s, FALSE, TRUE) = [text |-> text, charsOnLine |-> count]
    BY <1>2, Zenon DEF EmitToken
  <2>2. lead \in Seq({SP})
    <3>1. <<SP>> \in Seq({SP}) /\ <<>> \in Seq({SP})
      OBVIOUS
    <3> QED
      BY <3>1, Zenon
  <2>3. indent \in Seq({SP})
    <3>1. Spaces(6) \in Seq({SP}) /\ Spaces(7) \in Seq({SP}) /\ <<>> \in Seq({SP})
      BY DEF Spaces
    <3> QED
      BY <3>1, Zenon
  <2>4. body = Body(s) /\ end = <<>>
    BY <1>2, Zenon DEF Body
  <2> HIDE DEF lead, indent, end, body, count, breaks
  <2>5. [text |-> text, charsOnLine |-> count].text = text
    OBVIOUS
  <2>6. text = line.text \o lead \o Body(s) \o indent \o <<>>
    BY <2>4, Zenon
  <2> HIDE DEF text
  <2>7. EmitToken(lineLength, line, s, FALSE, TRUE).text = line.text \o lead \o Body(s) \o indent \o <<>>
    BY <2>1, <2>5, <2>6, Zenon
  <2> QED
    BY <1>2, <2>2, <2>3, <2>7, Zenon DEF Writes
<1> QED
  BY <1>1, <1>2

LEMMA EmitTokenText ==
    ASSUME NEW A, SP \in A, NEW lineLength, NEW line, line.text \in Seq(A),
           NEW B, NEW s \in Seq(B), Body(s) \in Seq(A)
    PROVE  EmitToken(lineLength, line, s, FALSE, TRUE).text \in Seq(A)
<1> DEFINE text == EmitToken(lineLength, line, s, FALSE, TRUE).text
<1>0. Writes(line.text, s, text)
  BY EmitTokenWrites
<1> HIDE DEF text
<1>1. PICK lead, indent \in Seq({SP}) :
        text = IF s = <<>> THEN line.text ELSE line.text \o lead \o Body(s) \o indent \o <<>>
  BY <1>0, Zenon DEF Writes
<1>2. lead \in Seq(A) /\ indent \in Seq(A) /\ <<>> \in Seq(A)
  <2>1. {SP} \subseteq A
    OBVIOUS
  <2> QED
    BY <2>1, Wider
<1>3. PICK x \in Seq(A) : x = line.text \o lead
  BY <1>2, Joined
<1>4. PICK y \in Seq(A) : y = x \o Body(s)
  BY <1>3, Joined
<1>5. PICK z \in Seq(A) : z = y \o indent
  BY <1>2, Joined
<1>6. z \o <<>> \in Seq(A)
  BY <1>2, Joined
<1>7. text \in Seq(A)
  BY <1>1, <1>3, <1>4, <1>5, <1>6, Zenon
<1> QED
  BY <1>7, Zenon DEF text

LEMMA FieldIs ==
    ASSUME NEW A, SP \in A, NEW name \in Seq(A)
    PROVE  Field(name) \in Seq(Seq(A) \cup {<<NL>>})
<1>1. <<SP>> \in Seq(A)
  BY Tuples
<1>2. PICK x \in Seq(A) : x = name \o <<SP>>
  BY <1>1, Joined
<1>3. <<x>> \in Seq(Seq(A) \cup {<<NL>>})
  BY Tuples
<1> QED
  BY <1>2, <1>3, Zenon DEF Field

\* What a header consists of is in A.
HeaderIn(A, msg) ==
    /\ {SP, "%MSG", ":", "[serial #", "]", "()", "time", msg.serial, Symbol(msg.severity)} \subseteq A
    /\ {msg.id, msg.idOverflow, msg.module, msg.subroutine, msg.iteration} \subseteq Seq(A)

LEMMA PrefixTokensAre ==
    ASSUME NEW A, NEW format, NEW msg, HeaderIn(A, msg)
    PROVE  PrefixTokens(format, msg) \in Seq(Seq(A) \cup {<<NL>>})
<1> DEFINE T == Seq(A) \cup {<<NL>>}
           fields == Fields(format, msg)
           apart == IF EpilogueBreak(format, msg) THEN <<<<NL>>>>
                    ELSE When(fields # <<>> /\ fields[1] # <<NL>>, <<<<SP>>>>)
           head == <<<<"%MSG">>, <<Symbol(msg.severity)>>, <<SP>>, msg.id, msg.idOverflow, <<":", SP>>>>
           serial == When(format.serial, <<<<"[serial #", msg.serial, "]", SP>>>>)
<1>1. /\ msg.module \in Seq(A) /\ msg.subroutine \in Seq(A) /\ msg.iteration \in T
      /\ msg.id \in T /\ msg.idOverflow \in T /\ msg.serial \in A /\ Symbol(msg.severity) \in A
      /\ SP \in A /\ "[serial #" \in A /\ "]" \in A
  BY DEF HeaderIn
<1>2. /\ <<NL>> \in T /\ <<SP>> \in T /\ <<"%MSG">> \in T /\ <<":", SP>> \in T
      /\ <<"()">> \in Seq(A) /\ <<"time">> \in Seq(A)
  <2>1. "%MSG" \in A /\ ":" \in A /\ "()" \in A /\ "time" \in A
    BY DEF HeaderIn
  <2> QED
    BY <1>1, <2>1, Tuples
<1>3. fields \in Seq(T)
  <2> DEFINE a == When(format.module /\ msg.module # <<>>, Field(msg.module))
             b == When(format.subroutine /\ msg.subroutine # <<>>, Field(msg.subroutine \o <<"()">>))
             c1 == When(format.timeSeparate, <<<<NL>>>>)
             c2 == Field(<<"time">>)
             c == When(format.timestamp, c1 \o c2)
             d == When(format.context, <<msg.iteration>>)
  <2>1. a \in Seq(T)
    BY <1>1, FieldIs, WhenIs
  <2>2. b \in Seq(T)
    <3>1. PICK x \in Seq(A) : x = msg.subroutine \o <<"()">>
      BY <1>1, <1>2, Joined
    <3>2. Field(x) \in Seq(T)
      BY <1>1, FieldIs
    <3> HIDE DEF T
    <3> QED
      BY <3>1, <3>2, WhenIs, Zenon
  <2>3. c \in Seq(T)
    <3>1. c1 \in Seq(T) /\ c2 \in Seq(T)
      <4>1. <<<<NL>>>> \in Seq(T)
        BY <1>2
      <4>2. c2 \in Seq(T)
        BY <1>1, <1>2, FieldIs
      <4> HIDE DEF T, c2
      <4> QED
        BY <4>1, <4>2, WhenIs
    <3>2. PICK x \in Seq(T) : x = c1 \o c2
      BY <3>1, Joined
    <3> QED
      BY <3>2, WhenIs
  <2>4. d \in Seq(T)
    <3>1. <<msg.iteration>> \in Seq(T)
      BY <1>1, Tuples
    <3> QED
      BY <3>1, WhenIs
  <2>5. fields = a \o b \o c \o d
    BY Zenon DEF Fields
  <2> HIDE DEF a, b, c, d, T, fields
  <2> QED
    BY <2>1, <2>2, <2>3, <2>4, <2>5
<1>4. apart \in Seq(T)
  <2>1. <<<<NL>>>> \in Seq(T) /\ <<<<SP>>>> \in Seq(T)
    BY <1>2
  <2> HIDE DEF fields, T
  <2> QED
    BY <2>1, WhenIs, Zenon
<1>5. serial \in Seq(T)
  <2>1. <<"[serial #", msg.serial, "]", SP>> \in T
    BY <1>1, Tuples
  <2>2. <<<<"[serial #", msg.serial, "]", SP>>>> \in Seq(T)
    BY <2>1, Tuples
  <2> QED
    BY <2>2, WhenIs
<1>6. head \in Seq(T)
  <2>1. <<Symbol(msg.severity)>> \in T
    BY <1>1, Tuples
  <2>2. ASSUME NEW S, NEW a \in S, NEW b \in S, NEW c \in S, NEW d \in S, NEW e \in S, NEW f \in S
        PROVE  <<a, b, c, d, e, f>> \in Seq(S)
    OBVIOUS
  <2> HIDE DEF T
  <2> QED
    BY <1>1, <1>2, <2>1, <2>2, Zenon
<1>7. PrefixTokens(format, msg) = head \o serial \o apart \o fields
  BY Zenon DEF PrefixTokens
<1> HIDE DEF head, serial, apart, fields, T
<1>8. PrefixTokens(format, msg) \in Seq(T)
  BY <1>3, <1>4, <1>5, <1>6, <1>7
<1> QED
  BY <1>8 DEF T

\* The tokens of the header are written one after the other.
LEMMA FillPrefixIs ==
    ASSUME NEW format, NEW msg, Len(PrefixTokens(format, msg)) \in Nat
    PROVE  \E f : /\ f[0] = NewLine
                  /\ \A i \in 1 .. Len(PrefixTokens(format, msg)) :
                       f[i] = EmitToken(format.lineLength, f[i - 1], PrefixTokens(format, msg)[i],
                                        FALSE, TRUE)
                  /\ FillPrefix(format, msg) =
                       IF msg.verbatim THEN <<>> ELSE f[Len(PrefixTokens(format, msg))].text
<1> DEFINE tokens == PrefixTokens(format, msg)
           Emit(line, s) == EmitToken(format.lineLength, line, s, FALSE, TRUE)
           Next1(f, i) == IF i = 0 THEN NewLine ELSE Emit(f[i - 1], tokens[i])
           Goes(n, f) == f = [i \in 0 .. n |-> Next1(f, i)]
           Q == {n \in Nat : \E f : Goes(n, f)}
<1>1. Len(tokens) \in Nat
  OBVIOUS
<1> HIDE DEF tokens
<1>2. 0 \in Q
  <2> DEFINE f == [i \in 0 .. 0 |-> NewLine]
  <2>1. DOMAIN f = 0 .. 0 /\ 0 .. 0 = {0}
    OBVIOUS
  <2>2. \A i \in 0 .. 0 : i = 0 /\ f[i] = Next1(f, i)
    <3> HIDE DEF Emit
    <3> QED
      OBVIOUS
  <2>3. Goes(0, f)
    <3>1. [i \in 0 .. 0 |-> NewLine] = [i \in 0 .. 0 |-> Next1(f, i)]
      <4> HIDE DEF Emit
      <4> QED
        BY <2>1
    <3> QED
      BY <3>1, Zenon
  <2> HIDE DEF Goes, f
  <2> QED
    BY <2>3
<1>3. ASSUME NEW n \in Nat, n \in Q PROVE n + 1 \in Q
  <2>1. PICK f : Goes(n, f)
    BY <1>3
  <2> HIDE DEF Emit
  <2> DEFINE g == [i \in 0 .. n + 1 |-> Next1(f, i)]
  <2>2. \A i \in 0 .. n + 1 : g[i] = Next1(f, i)
    OBVIOUS
  <2>3. \A i \in 0 .. n : f[i] = Next1(f, i)
    BY <2>1
  <2>4. DOMAIN g = 0 .. n + 1 /\ g = [i \in 0 .. n + 1 |-> g[i]]
    OBVIOUS
  <2> HIDE DEF g
  <2>5. \A i \in 0 .. n : f[i] = g[i]
    BY <2>2, <2>3
  <2>6. \A i \in 0 .. n + 1 : g[i] = Next1(g, i)
    <3> SUFFICES ASSUME NEW i \in 0 .. n + 1, i # 0 PROVE g[i] = Emit(g[i - 1], tokens[i])
      BY <2>2
    <3>1. i - 1 \in 0 .. n
      OBVIOUS
    <3> QED
      BY <2>2, <2>5, <3>1
  <2>7. Goes(n + 1, g)
    BY <2>4, <2>6
  <2> HIDE DEF Goes
  <2> QED
    BY <2>7
<1>4. \E f : Goes(Len(tokens), f)
  <2>1. Len(tokens) \in Q
    <3> HIDE DEF Q
    <3> QED
      BY <1>1, <1>2, <1>3, NumberInduction
  <2> HIDE DEF Goes
  <2> QED
    BY <2>1
<1>5. PICK f : f = CHOOSE g : Goes(Len(tokens), g)
  OBVIOUS
<1>6. Goes(Len(tokens), f)
  <2> HIDE DEF Goes
  <2>1. Goes(Len(tokens), CHOOSE g : Goes(Len(tokens), g))
    BY <1>4, Zenon
  <2> QED
    BY <1>5, <2>1, Zenon
<1>7. FillPrefix(format, msg) = IF msg.verbatim THEN <<>> ELSE f[Len(tokens)].text
  <2>1. FillPrefix(format, msg) =
          IF msg.verbatim THEN <<>> ELSE (CHOOSE g : Goes(Len(tokens), g))[Len(tokens)].text
    BY Zenon DEF FillPrefix, tokens
  <2> HIDE DEF Goes
  <2> QED
    BY <1>5, <2>1, Zenon
<1>8. \A i \in 0 .. Len(tokens) : f[i] = Next1(f, i)
  <2> HIDE DEF Emit
  <2> QED
    BY <1>6
<1>9. f[0] = NewLine
  <2>1. 0 \in 0 .. Len(tokens)
    BY <1>1
  <2> QED
    BY <1>8, <2>1, Zenon
<1>10. \A i \in 1 .. Len(tokens) : f[i] = Emit(f[i - 1], tokens[i])
  <2> HIDE DEF Emit
  <2>1. \A i \in 1 .. Len(tokens) : i \in 0 .. Len(tokens) /\ i # 0
    BY <1>1
  <2> QED
    BY <1>8, <2>1, Zenon
<1> QED
  BY <1>7, <1>9, <1>10, Zenon DEF tokens

LEMMA FillPrefixText ==
    ASSUME NEW A, NEW format, NEW msg, HeaderIn(A, msg)
    PROVE  FillPrefix(format, msg) \in Seq(A)
<1> DEFINE Emit(line, s) == EmitToken(format.lineLength, line, s, FALSE, TRUE)
<1>1. PICK tokens \in Seq(Seq(A) \cup {<<NL>>}) : tokens = PrefixTokens(format, msg)
  BY PrefixTokensAre
<1>2. Len(tokens) \in Nat
  OBVIOUS
<1>3. PICK f : /\ f[0] = NewLine
               /\ \A i \in 1 .. Len(tokens) : f[i] = Emit(f[i - 1], tokens[i])
               /\ FillPrefix(format, msg) = IF msg.verbatim THEN <<>> ELSE f[Len(tokens)].text
  BY <1>1, <1>2, FillPrefixIs, Zenon
<1>4. SP \in A
  BY DEF HeaderIn
<1> DEFINE R == {n \in Nat : n <= Len(tokens) => f[n].text \in Seq(A)}
<1>5. 0 \in R
  <2>1. NewLine.text = <<>> /\ <<>> \in Seq(A)
    BY DEF NewLine
  <2> QED
    BY <1>3, <2>1
<1>6. ASSUME NEW n \in Nat, n \in R PROVE n + 1 \in R
  <2> SUFFICES ASSUME n + 1 <= Len(tokens) PROVE f[n + 1].text \in Seq(A)
    OBVIOUS
  <2>1. n + 1 \in 1 .. Len(tokens) /\ n + 1 - 1 = n /\ n <= Len(tokens)
    BY <1>2
  <2>2. f[n + 1] = Emit(f[n], tokens[n + 1])
    <3> HIDE DEF Emit
    <3> QED
      BY <1>3, <2>1
  <2>3. f[n].text \in Seq(A)
    BY <1>6, <2>1
  <2>4. PICK s : s = tokens[n + 1]
    OBVIOUS
  <2>5. s \in Seq(A \cup {NL}) /\ Body(s) \in Seq(A)
    <3>1. s \in Seq(A) \cup {<<NL>>}
      BY <2>1, <2>4
    <3>2. CASE s \in Seq(A)
      BY <3>2, Wider, BodyIs
    <3>3. CASE s = <<NL>>
      BY <3>3 DEF Body
    <3> QED
      BY <3>1, <3>2, <3>3
  <2>6. Emit(f[n], s).text \in Seq(A)
    BY <1>4, <2>3, <2>5, EmitTokenText, Zenon
  <2> QED
    BY <2>2, <2>4, <2>6, Zenon
<1>7. f[Len(tokens)].text \in Seq(A)
  <2>1. Len(tokens) \in R
    <3> HIDE DEF R
    <3> QED
      BY <1>2, <1>5, <1>6, NumberInduction
  <2> QED
    BY <1>2, <2>1
<1>8. <<>> \in Seq(A)
  OBVIOUS
<1> QED
  BY <1>3, <1>7, <1>8, Zenon

LEMMA ItemsText ==
    ASSUME NEW msg \in ErrorObjs
    PROVE  FlattenSeq(msg.items) \in Seq(Symbols)
<1>1. msg.items \in Seq(Seq(STRING))
  BY DEF ErrorObjs, Texts
<1>2. FlattenSeq(msg.items) \in Seq(STRING)
  BY <1>1, FlattenIs
<1> QED
  BY <1>2, TextIsPrintable DEF Texts

LEMMA FillUsrMsgText ==
    ASSUME NEW format, NEW msg \in ErrorObjs
    PROVE  FillUsrMsg(format, msg) \in Seq(Symbols)
<1> DEFINE T == Seq(Symbols)
           line == <<SP>> \o msg.filename \o <<":", msg.lineNumber>>
           place == When(msg.filename # <<>>, line)
           sep == IF format.noLineBreaks THEN <<" ==> ">> ELSE <<NL>>
           front == When(~msg.verbatim, place \o sep)
           items == FlattenSeq(msg.items)
<1>1. /\ SP \in Symbols /\ NL \in Symbols /\ " ==> " \in Symbols /\ ":" \in Symbols
      /\ "line" \in Symbols /\ msg.lineNumber = "line" /\ msg.filename \in T
  BY TextIsPrintable DEF Symbols, ErrorObjs
<1>2. <<SP>> \in T /\ <<":", msg.lineNumber>> \in T /\ sep \in T
  BY <1>1, Tuples
<1>3. line \in T
  <2>1. PICK x \in T : x = <<SP>> \o msg.filename
    BY <1>1, <1>2, Joined
  <2> QED
    BY <1>2, <2>1, Joined
<1> HIDE DEF line, sep
<1>4. place \in T
  BY <1>3, WhenIs
<1> HIDE DEF place
<1>5. PICK x \in T : x = place \o sep
  BY <1>2, <1>4, Joined
<1>6. front \in T
  BY <1>5, WhenIs
<1> HIDE DEF front
<1>7. items \in T
  BY ItemsText
<1> HIDE DEF items
<1>8. PICK y \in T : y = front \o items
  BY <1>6, <1>7, Joined
<1>9. FillUsrMsg(format, msg) = When(format.text, y)
  BY <1>8, Zenon DEF FillUsrMsg, front, place, line, sep, items
<1> QED
  BY <1>9, WhenIs

LEMMA AllIsPrintable == ASSUME NEW msg \in ErrorObjs PROVE HeaderIn(Symbols, msg)
<1>1. /\ {msg.id, msg.idOverflow, msg.module, msg.subroutine, msg.iteration} \subseteq Seq(Symbols)
      /\ msg.serial \in STRING /\ msg.severity \in Levels
  BY TextIsPrintable DEF ErrorObjs, Levels
<1> QED
  BY <1>1, Zenon DEF HeaderIn, Symbols

\* Every line of a log file ends with a line break.
LEMMA PayloadNotEmpty ==
    ASSUME NEW format, NEW msg \in ErrorObjs
    PROVE  Payload(format, msg) # <<>>
<1>1. PICK a \in Seq(Symbols) : a = FillPrefix(format, msg) \o FillUsrMsg(format, msg)
  BY AllIsPrintable, FillPrefixText, FillUsrMsgText, Joined
<1> DEFINE end == When(~msg.verbatim /\ ~format.noLineBreaks, <<NL, "%MSG">>)
<1>2. <<NL, "%MSG">> \in Seq(Symbols) /\ <<NL>> \in Seq(Symbols)
  <2>1. NL \in Symbols /\ "%MSG" \in Symbols
    BY Zenon DEF Symbols
  <2> QED
    BY <2>1, Tuples
<1>3. end \in Seq(Symbols)
  BY <1>2, WhenIs
<1> HIDE DEF end
<1>4. PICK b \in Seq(Symbols) : b = end \o <<NL>> /\ Len(b) = Len(end) + 1
  <2>1. Len(<<NL>>) = 1
    OBVIOUS
  <2> QED
    BY <1>2, <1>3, <2>1, Joined
<1>5. Payload(format, msg) = a \o b
  BY <1>1, <1>4, Zenon DEF Payload, FillSuffix, end
<1>6. Len(a \o b) = Len(a) + Len(b) /\ Len(a) \in Nat /\ Len(end) \in Nat /\ Len(b) # 0
  BY <1>3, <1>4
<1> QED
  BY <1>5, <1>6

LEMMA ColumnsAre ==
    ASSUME NEW msg \in ErrorObjs, NEW iter \in Texts, Decimal(msg.pid) \in STRING
    PROVE  /\ Columns(msg, iter) \in Seq(Seq(Symbols))
           /\ Len(Columns(msg, iter)) = 9 /\ Columns(msg, iter)[1] = <<"time">>
<1>1. /\ msg.hostname \in Seq(Symbols) /\ msg.hostaddr \in Seq(Symbols) /\ msg.id \in Seq(Symbols)
      /\ msg.application \in Seq(Symbols) /\ msg.module \in Seq(Symbols) /\ iter \in Seq(Symbols)
      /\ msg.severity \in Levels
  BY TextIsPrintable DEF ErrorObjs, Levels
<1>2. "time" \in Symbols /\ Name(msg.severity) \in Symbols /\ Decimal(msg.pid) \in Symbols
  BY <1>1, Zenon DEF Symbols
<1>3. <<"time">> \in Seq(Symbols) /\ <<Name(msg.severity)>> \in Seq(Symbols)
      /\ <<Decimal(msg.pid)>> \in Seq(Symbols)
  BY <1>2, Tuples
<1>4. ASSUME NEW S, NEW a \in S, NEW b \in S, NEW c \in S, NEW d \in S, NEW e \in S,
             NEW f \in S, NEW g \in S, NEW h \in S, NEW i \in S
      PROVE  /\ <<a, b, c, d, e, f, g, h, i>> \in Seq(S)
             /\ Len(<<a, b, c, d, e, f, g, h, i>>) = 9
             /\ <<a, b, c, d, e, f, g, h, i>>[1] = a
  OBVIOUS
<1> QED
  BY <1>1, <1>3, <1>4, Zenon DEF Columns

LEMMA LastColumnText ==
    ASSUME NEW format, NEW msg \in ErrorObjs
    PROVE  LastColumn(format, msg) \in Seq(Symbols)
<1>1. PICK text \in Seq(Symbols) : text = FillUsrMsg(format, msg)
  BY FillUsrMsgText
<1>2. text # <<>> => Tail(text) \in Seq(Symbols)
  OBVIOUS
<1> QED
  BY <1>1, <1>2, Zenon DEF LastColumn

LEMMA ColumnsNotEmpty ==
    ASSUME NEW format, NEW msg \in ErrorObjs, NEW iter \in Texts, Decimal(msg.pid) \in STRING
    PROVE  /\ SyslogPayload(format, msg, iter) # <<>>
           /\ FlattenSeq(SqliteRow(format, msg, iter)) # <<>>
<1> DEFINE T == Seq(Symbols)
<1>1. PICK columns \in Seq(T) : /\ columns = Columns(msg, iter)
                                /\ Len(columns) = 9 /\ columns[1] = <<"time">>
  BY ColumnsAre
<1>2. PICK last \in T : last = LastColumn(format, msg)
  BY LastColumnText
<1>3. SyslogPayload(format, msg, iter) # <<>>
  <2> DEFINE ss == [i \in DOMAIN columns |-> columns[i] \o <<"|">>]
  <2>1. DOMAIN columns = 1 .. 9
    BY <1>1
  <2>2. <<"|">> \in T
    BY Tuples DEF Symbols
  <2>3. \A i \in 1 .. 9 : columns[i] \o <<"|">> \in T
    <3>1. ASSUME NEW i \in 1 .. 9 PROVE columns[i] \in T
      BY <1>1, Pieces, Zenon
    <3> QED
      BY <2>2, <3>1, Joined, Zenon
  <2>4. ss \in Seq(T) /\ Len(ss) = 9
    <3>1. ss \in [1 .. 9 -> T]
      <4> HIDE DEF T
      <4> QED
        BY <2>1, <2>3
    <3>2. \A u \in [1 .. 9 -> T] : u \in Seq(T) /\ Len(u) = 9
      <4> HIDE DEF T
      <4> QED
        BY Pieces
    <3> HIDE DEF ss, T
    <3> QED
      BY <3>1, <3>2, Zenon
  <2>5. ss[1] = <<"time">> \o <<"|">>
    <3>1. 1 \in DOMAIN columns
      BY <2>1
    <3> QED
      BY <1>1, <3>1, Zenon
  <2>6. Len(ss[1]) = 2
    <3>1. Len(<<"|">>) = 1 /\ Len(<<"time">>) = 1
      OBVIOUS
    <3>2. <<"time">> \in T
      BY Tuples DEF Symbols
    <3>3. Len(<<"time">> \o <<"|">>) = Len(<<"time">>) + Len(<<"|">>)
      BY <2>2, <3>2, Joined
    <3> HIDE DEF ss
    <3> QED
      BY <2>5, <3>1, <3>3
  <2> HIDE DEF ss
  <2>7. PICK all \in T : all = FlattenSeq(ss) /\ 2 <= Len(all)
    <3>1. FlattenSeq(ss) \in T /\ \A i \in 1 .. Len(ss) : Len(ss[i]) <= Len(FlattenSeq(ss))
      BY <2>4, FlattenIs
    <3>2. 1 \in 1 .. Len(ss)
      BY <2>4
    <3> QED
      BY <2>6, <3>1, <3>2
  <2>8. Len(all \o last) = Len(all) + Len(last) /\ Len(all) \in Nat /\ Len(last) \in Nat
    OBVIOUS
  <2>9. SyslogPayload(format, msg, iter) = all \o last
    BY <1>1, <1>2, <2>7, Zenon DEF SyslogPayload, ss
  <2> QED
    BY <2>7, <2>8, <2>9
<1>4. FlattenSeq(SqliteRow(format, msg, iter)) # <<>>
  <2>1. PICK row \in Seq(T) : row = Append(columns, last) /\ Len(row) = 10 /\ row[1] = <<"time">>
    <3>1. Len(columns) # 0 /\ Len(columns) + 1 = 10
      BY <1>1
    <3> HIDE DEF T
    <3> QED
      BY <1>1, <3>1, LastPiece
  <2>2. Len(row[1]) = 1
    BY <2>1
  <2>3. FlattenSeq(row) \in T /\ 1 <= Len(FlattenSeq(row))
    <3>1. FlattenSeq(row) \in T /\ \A i \in 1 .. Len(row) : Len(row[i]) <= Len(FlattenSeq(row))
      BY FlattenIs
    <3>2. 1 \in 1 .. Len(row)
      BY <2>1
    <3> QED
      BY <2>2, <3>1, <3>2
  <2>4. SqliteRow(format, msg, iter) = row
    BY <1>1, <1>2, <2>1, Zenon DEF SqliteRow
  <2> QED
    BY <2>3, <2>4
<1> QED
  BY <1>3, <1>4

\* A destination prints a message iff the message is severe enough.
LEMMA LoggedIs ==
    ASSUME NEW dest \in Destinations, NEW msg \in ErrorObjs, Decimal(msg.pid) \in STRING
    PROVE  Logged(dest, msg) # <<>> <=> ~(msg.severity < FromName(dest.threshold))
<1>1. dest.kind \in {"ostream", "syslog", "sqlite"}
  BY DestinationsAssumption
<1>2. PICK iter \in Texts : iter = msg.iteration
  BY DEF ErrorObjs
<1> DEFINE row == FlattenSeq(SqliteRow(dest.format, msg, iter))
<1>3. /\ Payload(dest.format, msg) # <<>> /\ SyslogPayload(dest.format, msg, iter) # <<>>
      /\ row # <<>>
  BY PayloadNotEmpty, ColumnsNotEmpty
<1>4. CASE msg.severity < FromName(dest.threshold)
  <2>1. Logged(dest, msg) = <<>>
    BY <1>4, Zenon DEF Logged
  <2> QED
    BY <1>4, <2>1
<1>5. CASE ~(msg.severity < FromName(dest.threshold))
  <2> DEFINE printing == CASE dest.kind = "ostream" -> Payload(dest.format, msg)
                           [] dest.kind = "syslog"  -> SyslogPayload(dest.format, msg, msg.iteration)
                           [] dest.kind = "sqlite"  ->
                                FlattenSeq(SqliteRow(dest.format, msg, msg.iteration))
  <2>1. Logged(dest, msg) = printing
    BY <1>5, Zenon DEF Logged
  <2>2. printing # <<>>
    BY <1>1, <1>2, <1>3
  <2> QED
    BY <1>5, <2>1, <2>2, Zenon
<1> QED
  BY <1>4, <1>5

\* The names of the process are filled in, and nothing else changes.
LEMMA FillNamesIs ==
    ASSUME NEW o \in ErrorObjs
    PROVE  /\ FillNames(o, ProcessNames) \in ErrorObjs
           /\ FillNames(o, ProcessNames).severity = o.severity
           /\ FillNames(o, ProcessNames).pid = IF o.pid = 0 THEN ProcessNames.pid ELSE o.pid
BY ProcessNamesAssumption DEF FillNames, OrElse, ErrorObjs

\* A destination prints a message iff it is at least as severe as the name of the
\* threshold in its configuration says (ELdestination's threshold, skipMsg's
\* first test, ELseverityLevel's constructor from a string).
THEOREM ThresholdsKept == Spec => []ThresholdKept
<1>1. Init => ThresholdKept
  BY DEF Init, ThresholdKept
<1>2. ASSUME IInv, NEW t \in Threads, NEW n \in Loggers, Release(t, n) PROVE ThresholdKept'
  <2> USE DEF IInv
  <2>1. PICK m \in Messages : m = logger[t][n]
    BY <1>2 DEF Release
  <2>2. PICK o \in ErrorObjs : o = object[m]
    BY <1>2, WhatMessagesAre
  <2>3. PICK s \in Sayings : s = said[m] /\ ObjectRight(o, s)
    BY <1>2, <2>2 DEF ObjectsRight, ObjectRight
  <2>4. PICK signed : signed = [o EXCEPT !.module = module[t], !.iteration = iteration[t]]
    OBVIOUS
  <2>5. signed \in ErrorObjs /\ signed.severity = o.severity /\ signed.pid = 0
    <3>1. module[t] \in Texts /\ iteration[t] \in Texts
      BY <1>2, ContextsAssumption DEF VarsType
    <3> QED
      BY <2>3, <2>4, <3>1 DEF ObjectRight, ErrorObjs
  <2>6. CASE isStarted
    <3>1. PICK dest \in Destinations :
            Prints(t, m, dest, Logged(dest, FillNames(signed, ProcessNames)))
      BY <1>2, <2>1, <2>2, <2>4, <2>6, Zenon DEF Release
    <3>2. PICK msg \in ErrorObjs : msg = FillNames(signed, ProcessNames)
      BY <2>5, FillNamesIs
    <3>3. msg.severity = ForMessage(s.statement.severity) /\ msg.pid = ProcessNames.pid
      BY <2>3, <2>5, <3>2, FillNamesIs DEF ObjectRight
    <3>4. Decimal(msg.pid) \in STRING
      BY <3>3, NumbersAssumption
    <3>5. Logged(dest, msg) # <<>> <=> ~(msg.severity < FromName(dest.threshold))
      BY <3>4, LoggedIs
    <3>6. PICK text : text = Logged(dest, msg)
      OBVIOUS
    <3>7. /\ printed'.to = dest /\ printed'.statement = s.statement /\ printed'.text = text
      BY <2>3, <3>1, <3>2, <3>6 DEF Prints
    <3> SUFFICES ASSUME NEW i \in 1 .. 5, NEW j \in 1 .. 5, dest.threshold = Thresholds[i],
                        s.statement.severity = Severities[j]
                 PROVE  text # <<>> <=> j >= i
      BY <3>7 DEF ThresholdKept, Thresholds
    <3>8. FromName(dest.threshold) = Severities[i]
      BY ThresholdIs
    <3>9. msg.severity = Severities[j]
      BY <3>3 DEF ForMessage, Severities, ELsev_zeroSeverity, ELsev_success, ELsev_info,
                  ELsev_warning, ELsev_error, ELsev_severe, ELsev_highestSeverity
    <3>10. ~(Severities[j] < Severities[i]) <=> j >= i
      BY DEF Severities, ELsev_success, ELsev_info, ELsev_warning, ELsev_error, ELsev_severe
    <3> QED
      BY <3>5, <3>6, <3>8, <3>9, <3>10
  <2>7. CASE ~isStarted
    <3>1. printed'.to = Nothing
      BY <1>2, <2>7 DEF Release, Prints
    <3> QED
      BY <3>1 DEF ThresholdKept
  <2> QED
    BY <2>6, <2>7
<1>3. ThresholdKept /\ IInv /\ [Next]_vars => ThresholdKept'
  <2> SUFFICES ASSUME ThresholdKept, IInv, [Next]_vars PROVE ThresholdKept'
    OBVIOUS
  <2>1. ASSUME printed' = Nothing PROVE ThresholdKept'
    BY <2>1 DEF ThresholdKept
  <2>2. CASE UNCHANGED vars
    BY <2>2 DEF vars, ThresholdKept
  <2>3. ASSUME NEW t \in Threads, NEW n \in Loggers,
               \/ \E st \in Statements : Construct(t, n, st)
               \/ \E insertion \in Insertions : Insert(t, n, insertion)
               \/ \E u \in Threads, k \in Loggers : Move(t, n, u, k)
               \/ DestroyEmpty(t, n)
        PROVE  ThresholdKept'
    BY <2>1, <2>3, Zenon DEF Construct, Insert, Move, DestroyEmpty
  <2>4. ASSUME NEW t \in Threads, SetContext(t) PROVE ThresholdKept'
    BY <2>1, <2>4, Zenon DEF SetContext
  <2>5. CASE StartOrEnd
    BY <2>1, <2>5, Zenon DEF StartOrEnd
  <2> QED
    BY <1>2, <2>2, <2>3, <2>4, <2>5, Zenon DEF Next
<1> QED
  BY <1>1, <1>3, Invariant, PTL DEF Spec

--------------------------------------------------------------------------------
(***************************************************************************)
(* What the user inserted is in the text: what is expected of the text and *)
(* of the subroutine's name, and how one insertion more changes both.      *)
(***************************************************************************)
\* The last of the places in I, if there are any.
Last1(I) == IF I # {} THEN Max(I) ELSE 0

LEMMA LastOfMore ==
    ASSUME NEW n \in Nat, NEW I \in SUBSET (1 .. n)
    PROVE  /\ Last1(I) \in 0 .. n /\ (Last1(I) # 0 => Last1(I) \in I)
           /\ Last1(I \cup {n + 1}) = n + 1
<1>1. I # {} => Max(I) \in I
  BY Greatest
<1>0. Last1(I) \in 0 .. n /\ (Last1(I) # 0 => Last1(I) \in I)
  <2>1. CASE I = {}
    BY <2>1 DEF Last1
  <2>2. CASE I # {}
    <3>1. Last1(I) = Max(I)
      BY <2>2, Zenon DEF Last1
    <3>2. \A i \in I : i \in 0 .. n
      OBVIOUS
    <3> QED
      BY <1>1, <2>2, <3>1, <3>2, Zenon
  <2> QED
    BY <2>1, <2>2
<1>2. Max(I \cup {n + 1}) = n + 1
  <2> DEFINE J == I \cup {n + 1}
  <2>1. J \in SUBSET (1 .. n + 1) /\ J # {} /\ n + 1 \in J /\ n + 1 \in Nat
    OBVIOUS
  <2> HIDE DEF J
  <2>2. Max(J) \in J /\ \A i \in J : i <= Max(J)
    BY <2>1, Greatest
  <2>3. Max(J) \in 1 .. n + 1 /\ n + 1 <= Max(J)
    BY <2>1, <2>2
  <2>4. Max(J) = n + 1
    BY <2>3
  <2> QED
    BY <2>4 DEF J
<1>3. I \cup {n + 1} # {}
  OBVIOUS
<1> QED
  BY <1>0, <1>2, <1>3, Zenon DEF Last1

IsBase(insertion) == insertion.kind = "ios_base manipulator"
BasesUpTo(insertions, i) == {k \in 1 .. i : IsBase(insertions[k])}

LEMMA BaseAtIs ==
    ASSUME NEW s, NEW i
    PROVE  BaseAt(s, i) = IF Last1(BasesUpTo(s, i)) = 0 THEN "dec" ELSE s[Last1(BasesUpTo(s, i))].base
<1>1. SelectLastInSubSeq(s, 1, i, LAMBDA insertion : insertion.kind = "ios_base manipulator") =
        Last1(BasesUpTo(s, i))
  BY Zenon DEF SelectLastInSubSeq, Last1, BasesUpTo, IsBase
<1> QED
  BY <1>1, Zenon DEF BaseAt

\* One insertion more changes the base from there on only.
LEMMA BaseAtMore ==
    ASSUME NEW s \in Seq(Insertions), NEW x \in Insertions
    PROVE  /\ \A i \in 0 .. Len(s) : BaseAt(s, i) \in Bases /\ BaseAt(Append(s, x), i) = BaseAt(s, i)
           /\ BaseAt(Append(s, x), Len(s) + 1) = IF IsBase(x) THEN x.base ELSE BaseAt(s, Len(s))
<1>1. PICK t \in Seq(Insertions) : t = Append(s, x)
  BY Appended
<1>2. PICK n \in Nat : n = Len(s)
  OBVIOUS
<1>3. Len(t) = n + 1 /\ t[n + 1] = x /\ \A i \in 1 .. n : t[i] = s[i] /\ s[i] \in Insertions
  BY <1>1, <1>2, Appended
<1>4. ASSUME NEW i \in 0 .. n PROVE BaseAt(s, i) \in Bases /\ BaseAt(t, i) = BaseAt(s, i)
  <2>1. PICK I : I = BasesUpTo(s, i)
    OBVIOUS
  <2>2. I \in SUBSET (1 .. i) /\ BasesUpTo(t, i) = I /\ \A k \in I : IsBase(s[k])
    BY <1>3, <2>1 DEF BasesUpTo
  <2>3. PICK j : j = Last1(I)
    OBVIOUS
  <2>4. j \in 0 .. i /\ (j # 0 => j \in I)
    <3>1. i \in Nat
      OBVIOUS
    <3> QED
      BY <2>2, <2>3, <3>1, LastOfMore, Zenon
  <2>5. BaseAt(s, i) = (IF j = 0 THEN "dec" ELSE s[j].base)
    BY <2>1, <2>3, BaseAtIs, Zenon
  <2>6. BaseAt(t, i) = (IF j = 0 THEN "dec" ELSE t[j].base)
    BY <2>2, <2>3, BaseAtIs, Zenon
  <2>7. CASE j = 0
    BY <2>5, <2>6, <2>7 DEF Bases
  <2>8. CASE j # 0
    <3>1. j \in 1 .. n /\ t[j] = s[j] /\ s[j] \in Insertions /\ IsBase(s[j])
      BY <1>3, <2>2, <2>4, <2>8
    <3>2. s[j].base \in Bases
      BY <3>1 DEF Bases, IsBase
    <3> QED
      BY <2>5, <2>6, <2>8, <3>1, <3>2
  <2> QED
    BY <2>7, <2>8
<1>5. BaseAt(t, n + 1) = IF IsBase(x) THEN x.base ELSE BaseAt(s, n)
  <2>1. PICK I : I = BasesUpTo(s, n)
    OBVIOUS
  <2>2. I \in SUBSET (1 .. n) /\ BasesUpTo(t, n + 1) = IF IsBase(x) THEN I \cup {n + 1} ELSE I
    BY <1>3, <2>1 DEF BasesUpTo
  <2>3. PICK j : j = Last1(I)
    OBVIOUS
  <2>4. /\ j \in 0 .. n /\ (j # 0 => t[j] = s[j]) /\ Last1(I \cup {n + 1}) = n + 1
        /\ n + 1 # 0
    <3>1. j \in 0 .. n /\ Last1(I \cup {n + 1}) = n + 1
      BY <2>2, <2>3, LastOfMore, Zenon
    <3> QED
      BY <1>3, <3>1
  <2>5. CASE IsBase(x)
    <3>1. Last1(BasesUpTo(t, n + 1)) = n + 1
      BY <2>2, <2>4, <2>5
    <3> QED
      BY <1>3, <2>4, <2>5, <3>1, BaseAtIs, Zenon
  <2>6. CASE ~IsBase(x)
    <3>1. Last1(BasesUpTo(t, n + 1)) = j
      BY <2>2, <2>3, <2>6
    <3>2. BaseAt(t, n + 1) = IF j = 0 THEN "dec" ELSE t[j].base
      BY <3>1, BaseAtIs, Zenon
    <3>3. BaseAt(s, n) = IF j = 0 THEN "dec" ELSE s[j].base
      BY <2>1, <2>3, BaseAtIs, Zenon
    <3> QED
      BY <2>4, <2>6, <3>2, <3>3, Zenon
  <2> QED
    BY <2>5, <2>6
<1> QED
  BY <1>1, <1>2, <1>4, <1>5

\* What an insertion is in the text, base being the one set.
PieceIn(x, base) ==
    IF x.kind = "number" THEN x.text[base]
    ELSE IF x.kind = "text" /\ ~IsSubroutine(x) THEN x.text ELSE <<>>

LEMMA ExpectedPieceIs ==
    ASSUME NEW s, NEW i
    PROVE  ExpectedPiece(s, i) = PieceIn(s[i], BaseAt(s, i))
BY DEF ExpectedPiece, PieceIn

LEMMA PieceIsText ==
    ASSUME NEW x \in Insertions, NEW base \in Bases
    PROVE  PieceIn(x, base) \in Texts
<1>1. CASE x.kind = "number"
  <2>1. x.text[base] \in Seq(STRING \ {"@SUB="})
    BY <1>1, InsertionsAssumption
  <2>2. STRING \ {"@SUB="} \subseteq STRING
    OBVIOUS
  <2>3. x.text[base] \in Texts
    BY <2>1, <2>2, Wider DEF Texts
  <2> QED
    BY <1>1, <2>3 DEF PieceIn
<1>2. CASE x.kind # "number"
  <2>1. x.kind = "text" => x.text \in Texts
    BY InsertionsAssumption
  <2>2. <<>> \in Texts
    BY DEF Texts
  <2> QED
    BY <1>2, <2>1, <2>2, Zenon DEF PieceIn
<1> QED
  BY <1>1, <1>2

\* One insertion more is one piece of text more.
LEMMA ExpectedMore ==
    ASSUME NEW s \in Seq(Insertions), NEW x \in Insertions
    PROVE  /\ ExpectedText(s) \in Texts
           /\ ExpectedText(Append(s, x)) =
                ExpectedText(s) \o PieceIn(x, BaseAt(Append(s, x), Len(s) + 1))
<1>1. PICK t \in Seq(Insertions) : t = Append(s, x)
  BY Appended
<1>2. PICK n \in Nat : n = Len(s)
  OBVIOUS
<1>3. Len(t) = n + 1 /\ t[n + 1] = x /\ \A i \in 1 .. n : t[i] = s[i] /\ s[i] \in Insertions
  BY <1>1, <1>2, Appended
<1>4. PICK ps : ps = [i \in DOMAIN s |-> ExpectedPiece(s, i)]
  OBVIOUS
<1>5. PICK qs : qs = [i \in DOMAIN t |-> ExpectedPiece(t, i)]
  OBVIOUS
<1>6. ASSUME NEW i \in 1 .. n
      PROVE  ExpectedPiece(s, i) \in Texts /\ ExpectedPiece(t, i) = ExpectedPiece(s, i)
  <2>1. BaseAt(s, i) \in Bases /\ BaseAt(t, i) = BaseAt(s, i)
    BY <1>1, <1>2, BaseAtMore
  <2> QED
    BY <1>3, <2>1, ExpectedPieceIs, PieceIsText
<1>7. PICK p \in Texts : p = ExpectedPiece(t, n + 1) /\ p = PieceIn(x, BaseAt(t, n + 1))
  <2>1. BaseAt(t, n + 1) \in Bases
    <3>1. BaseAt(s, n) \in Bases /\ BaseAt(t, n + 1) = IF IsBase(x) THEN x.base ELSE BaseAt(s, n)
      BY <1>1, <1>2, BaseAtMore
    <3> QED
      BY <3>1 DEF Bases, IsBase
  <2>2. ExpectedPiece(t, n + 1) = PieceIn(x, BaseAt(t, n + 1))
    BY <1>3, ExpectedPieceIs
  <2> QED
    BY <2>1, <2>2, PieceIsText
<1>8. ps \in Seq(Texts) /\ Len(ps) = n /\ \A i \in 1 .. n : ps[i] = ExpectedPiece(s, i)
  BY <1>2, <1>4, <1>6
<1>9. /\ Len(qs) = n + 1 /\ DOMAIN qs = 1 .. n + 1
      /\ \A i \in 1 .. n + 1 : qs[i] = ExpectedPiece(t, i)
  BY <1>3, <1>5
<1>10. qs = Append(ps, p)
  <2>1. PICK rs \in Seq(Texts) : rs = Append(ps, p)
    BY <1>8, Appended
  <2>2. /\ DOMAIN rs = 1 .. n + 1 /\ rs[n + 1] = p /\ \A i \in 1 .. n : rs[i] = ps[i]
    BY <1>8, <2>1, Appended
  <2>3. \A i \in 1 .. n + 1 : rs[i] = qs[i]
    BY <1>6, <1>7, <1>8, <1>9, <2>2
  <2>4. rs = [i \in 1 .. n + 1 |-> rs[i]] /\ qs = [i \in 1 .. n + 1 |-> qs[i]]
    <3>1. rs = [i \in 1 .. Len(rs) |-> rs[i]]
      OBVIOUS
    <3>2. Len(rs) = n + 1
      BY <1>8, <2>1, Appended
    <3>3. DOMAIN t = 1 .. n + 1
      BY <1>3
    <3>4. qs = [i \in 1 .. n + 1 |-> ExpectedPiece(t, i)]
      BY <1>5, <3>3, Zenon
    <3>5. qs = [i \in 1 .. n + 1 |-> qs[i]]
      BY <3>4
    <3> QED
      BY <3>1, <3>2, <3>5, Zenon
  <2> QED
    BY <2>1, <2>3, <2>4
<1>11. FlattenSeq(ps) \in Texts /\ FlattenSeq(qs) = FlattenSeq(ps) \o p
  BY <1>8, <1>10, FlattenIs, FlattenMore DEF Texts
<1> QED
  BY <1>1, <1>2, <1>4, <1>5, <1>7, <1>11, Zenon DEF ExpectedText

\* The subroutine last given, with the blank before it left out.
Stripped(t) == IF t # <<>> /\ t[1] = SP THEN Tail(t) ELSE t
Given(insertions) ==
    LET j == SelectLastInSeq(insertions, IsSubroutine)
    IN  IF j = 0 THEN <<>> ELSE Stripped(Tail(insertions[j].text))
SubroutinesIn(insertions) == {k \in 1 .. Len(insertions) : IsSubroutine(insertions[k])}

LEMMA LastSubroutineIs ==
    ASSUME NEW s
    PROVE  SelectLastInSeq(s, IsSubroutine) = Last1(SubroutinesIn(s))
BY Zenon DEF SelectLastInSeq, Last1, SubroutinesIn

LEMMA GivenMore ==
    ASSUME NEW s \in Seq(Insertions), NEW x \in Insertions
    PROVE  Given(Append(s, x)) = IF IsSubroutine(x) THEN Stripped(Tail(x.text)) ELSE Given(s)
<1>1. PICK t \in Seq(Insertions) : t = Append(s, x)
  BY Appended
<1>2. PICK n \in Nat : n = Len(s)
  OBVIOUS
<1>3. Len(t) = n + 1 /\ t[n + 1] = x /\ \A i \in 1 .. n : t[i] = s[i] /\ s[i] \in Insertions
  BY <1>1, <1>2, Appended
<1>4. PICK I : I = SubroutinesIn(s)
  OBVIOUS
<1>5. I \in SUBSET (1 .. n) /\ SubroutinesIn(t) = IF IsSubroutine(x) THEN I \cup {n + 1} ELSE I
  BY <1>2, <1>3, <1>4 DEF SubroutinesIn
<1>6. PICK j : j = Last1(I)
  OBVIOUS
<1>7. /\ j \in 0 .. n /\ (j # 0 => t[j] = s[j]) /\ Last1(I \cup {n + 1}) = n + 1
      /\ n + 1 # 0
  <2>1. j \in 0 .. n /\ Last1(I \cup {n + 1}) = n + 1
    BY <1>5, <1>6, LastOfMore, Zenon
  <2> QED
    BY <1>3, <2>1
<1>8. CASE IsSubroutine(x)
  <2>1. SelectLastInSeq(t, IsSubroutine) = n + 1
    BY <1>5, <1>7, <1>8, LastSubroutineIs
  <2>2. Given(t) = IF n + 1 = 0 THEN <<>> ELSE Stripped(Tail(t[n + 1].text))
    BY <2>1, Zenon DEF Given
  <2> QED
    BY <1>1, <1>3, <1>7, <1>8, <2>2, Zenon
<1>9. CASE ~IsSubroutine(x)
  <2>1. SelectLastInSeq(t, IsSubroutine) = j /\ SelectLastInSeq(s, IsSubroutine) = j
    BY <1>4, <1>5, <1>6, <1>9, LastSubroutineIs
  <2>2. Given(t) = (IF j = 0 THEN <<>> ELSE Stripped(Tail(t[j].text)))
        /\ Given(s) = (IF j = 0 THEN <<>> ELSE Stripped(Tail(s[j].text)))
    BY <2>1, Zenon DEF Given
  <2> QED
    BY <1>1, <1>7, <1>9, <2>2, Zenon
<1> QED
  BY <1>8, <1>9

\* What no insertion changes.
SameHead(q, o) ==
    /\ q.serial = o.serial /\ q.severity = o.severity /\ q.verbatim = o.verbatim
    /\ q.id = o.id /\ q.idOverflow = o.idOverflow /\ q.filename = o.filename

LEMMA InsertedIs ==
    ASSUME NEW o \in ErrorObjs, o.base \in Bases, NEW i \in Insertions
    PROVE  /\ SameHead(Inserted(o, i), o)
           /\ Inserted(o, i).base = IF IsBase(i) THEN i.base ELSE o.base
           /\ FlattenSeq(Inserted(o, i).items) = FlattenSeq(o.items) \o PieceIn(i, o.base)
           /\ Inserted(o, i).subroutine =
                IF IsSubroutine(i) THEN Stripped(Tail(i.text)) ELSE o.subroutine
<1>1. /\ o.base \in Bases /\ o.base \in STRING /\ o.items \in Seq(Texts)
      /\ FlattenSeq(o.items) \in Texts /\ <<>> \in Texts
  <2>1. o.items \in Seq(Texts) /\ o.base \in STRING /\ <<>> \in Texts
    BY DEF ErrorObjs, Texts
  <2> QED
    BY <2>1, FlattenIs DEF Texts
<1>2. FlattenSeq(o.items) \o <<>> = FlattenSeq(o.items)
  BY <1>1 DEF Texts
<1>3. CASE i.kind = "ostream manipulator"
  <2>1. Inserted(o, i) = [o EXCEPT !.oss = <<>>]
    BY <1>3 DEF Inserted
  <2>2. PieceIn(i, o.base) = <<>> /\ ~IsSubroutine(i) /\ ~IsBase(i)
    BY <1>3 DEF PieceIn, IsSubroutine, IsBase
  <2>3. PICK q : q = Inserted(o, i)
    OBVIOUS
  <2>4. SameHead(q, o) /\ q.base = o.base /\ q.items = o.items /\ q.subroutine = o.subroutine
    BY <2>1, <2>3 DEF ErrorObjs, SameHead
  <2> QED
    BY <1>2, <2>2, <2>3, <2>4
<1>4. CASE i.kind = "ios_base manipulator"
  <2>1. Inserted(o, i) = [o EXCEPT !.base = i.base]
    BY <1>4 DEF Inserted
  <2>2. PieceIn(i, o.base) = <<>> /\ ~IsSubroutine(i) /\ IsBase(i)
    BY <1>4 DEF PieceIn, IsSubroutine, IsBase
  <2>3. PICK q : q = Inserted(o, i)
    OBVIOUS
  <2>4. SameHead(q, o) /\ q.base = i.base /\ q.items = o.items /\ q.subroutine = o.subroutine
    BY <2>1, <2>3 DEF ErrorObjs, SameHead
  <2> QED
    BY <1>2, <2>2, <2>3, <2>4
<1>5. CASE i.kind \in {"text", "number"}
  <2>1. PICK w : w = Written(o, i)
    OBVIOUS
  <2>2. PICK p : p = [o EXCEPT !.oss = w]
    OBVIOUS
  <2>3. /\ p.oss = w /\ p.items = o.items /\ p.base = o.base /\ p.subroutine = o.subroutine
        /\ SameHead(p, o)
    BY <2>2 DEF ErrorObjs, SameHead
  <2>4. Inserted(o, i) = IF w # <<>> THEN EoEmit(p, w) ELSE p
    <3>1. Inserted(o, i) = Opltlt(o, i)
      BY <1>5 DEF Inserted
    <3>2. Opltlt(o, i) = IF p.oss # <<>> THEN EoEmit(p, p.oss) ELSE p
      BY <2>1, <2>2 DEF Opltlt
    <3> QED
      BY <2>3, <3>1, <3>2, Zenon
  <2>5. ~IsBase(i)
    BY <1>5 DEF IsBase
  <2>6. /\ w \in Texts
        /\ IsSubroutine(i) => w = i.text
        /\ IsSubroutine(i) <=> w # <<>> /\ w[1] = "@SUB="
        /\ PieceIn(i, o.base) = IF IsSubroutine(i) THEN <<>> ELSE w
    <3>1. CASE i.kind = "number"
      <4>1. w = i.text[o.base]
        BY <2>1, <3>1 DEF Written
      <4>2. w \in Seq(STRING \ {"@SUB="})
        BY <1>1, <3>1, <4>1, InsertionsAssumption
      <4>3. STRING \ {"@SUB="} \subseteq STRING
        OBVIOUS
      <4>4. w \in Texts
        BY <4>2, <4>3, Wider DEF Texts
      <4>5. ~IsSubroutine(i)
        BY <3>1 DEF IsSubroutine
      <4>6. w # <<>> => w[1] # "@SUB="
        BY <4>2
      <4> QED
        BY <3>1, <4>1, <4>4, <4>5, <4>6 DEF PieceIn
    <3>2. CASE i.kind = "text"
      <4>1. w = i.text /\ w \in Texts
        BY <2>1, <3>2, InsertionsAssumption DEF Written
      <4> QED
        BY <3>2, <4>1 DEF PieceIn, IsSubroutine
    <3> QED
      BY <1>5, <3>1, <3>2
  <2>7. CASE w = <<>>
    <3>1. Inserted(o, i) = p /\ ~IsSubroutine(i) /\ PieceIn(i, o.base) = <<>>
      BY <2>4, <2>6, <2>7
    <3> QED
      BY <1>2, <2>3, <2>5, <3>1
  <2>8. CASE IsSubroutine(i)
    <3>1. PICK v : v = Stripped(Tail(w))
      OBVIOUS
    <3>2. Inserted(o, i) = [p EXCEPT !.subroutine = v] /\ w = i.text
      BY <2>4, <2>6, <2>8, <3>1 DEF EoEmit, SetSubroutine, Stripped
    <3>3. PICK q : q = Inserted(o, i)
      OBVIOUS
    <3>4. SameHead(q, o) /\ q.base = o.base /\ q.items = o.items /\ q.subroutine = v
      <4>1. q = [[o EXCEPT !.oss = w] EXCEPT !.subroutine = v]
        BY <2>2, <3>2, <3>3
      <4> QED
        BY <4>1 DEF ErrorObjs, SameHead
    <3> QED
      BY <1>2, <2>5, <2>6, <2>8, <3>1, <3>2, <3>3, <3>4
  <2>9. CASE w # <<>> /\ ~IsSubroutine(i)
    <3>1. PICK items : items = Append(o.items, w)
      OBVIOUS
    <3>2. Inserted(o, i) = [p EXCEPT !.items = items]
      BY <2>3, <2>4, <2>6, <2>9, <3>1 DEF EoEmit
    <3>3. PICK q : q = Inserted(o, i)
      OBVIOUS
    <3>4. SameHead(q, o) /\ q.base = o.base /\ q.items = items /\ q.subroutine = o.subroutine
      <4>1. q = [[o EXCEPT !.oss = w] EXCEPT !.items = items]
        BY <2>2, <3>2, <3>3
      <4> QED
        BY <4>1 DEF ErrorObjs, SameHead
    <3>5. FlattenSeq(items) = FlattenSeq(o.items) \o w
      BY <1>1, <2>6, <3>1, FlattenMore DEF Texts
    <3> QED
      BY <2>5, <2>6, <2>9, <3>3, <3>4, <3>5
  <2> QED
    BY <2>6, <2>7, <2>8, <2>9
<1> QED
  BY <1>3, <1>4, <1>5, InsertionsAssumption

\* What the message says, compared with what was said.
TextRight(o, saying, m) ==
    /\ o.serial = Decimal(m)
    /\ o.verbatim = saying.statement.verbatim
    /\ o.id \o o.idOverflow = saying.statement.category
    /\ o.filename = BaseName(saying.statement.file, saying.statement.verbatim)
    /\ o.base = BaseAt(saying.insertions, Len(saying.insertions))
    /\ o.subroutine = Given(saying.insertions)
    /\ FlattenSeq(o.items) = ExpectedText(saying.insertions)

LEMMA InsertionTold ==
    ASSUME NEW o \in ErrorObjs, NEW s \in Sayings, o.base \in Bases, NEW m, TextRight(o, s, m),
           NEW i \in Insertions
    PROVE  TextRight(Inserted(o, i), [s EXCEPT !.insertions = Append(@, i)], m)
<1>1. PICK ins \in Seq(Insertions) : ins = s.insertions
  BY DEF Sayings
<1>2. PICK more \in Seq(Insertions) : more = Append(ins, i)
  BY Appended
<1>3. PICK r : r = [s EXCEPT !.insertions = Append(@, i)]
  OBVIOUS
<1>4. r.statement = s.statement /\ r.insertions = more
  BY <1>1, <1>2, <1>3 DEF Sayings
<1>5. PICK q : q = Inserted(o, i)
  OBVIOUS
<1>6. /\ SameHead(q, o)
      /\ q.base = IF IsBase(i) THEN i.base ELSE o.base
      /\ FlattenSeq(q.items) = FlattenSeq(o.items) \o PieceIn(i, o.base)
      /\ q.subroutine = IF IsSubroutine(i) THEN Stripped(Tail(i.text)) ELSE o.subroutine
  BY <1>5, InsertedIs, Zenon
<1>7. PICK n \in Nat : n = Len(ins) /\ Len(more) = n + 1
  BY <1>2, Appended
<1>8. BaseAt(more, n + 1) = IF IsBase(i) THEN i.base ELSE BaseAt(ins, n)
  BY <1>2, <1>7, BaseAtMore
<1>9. o.base = BaseAt(ins, n)
  BY <1>1, <1>7 DEF TextRight
<1>10. q.base = BaseAt(more, n + 1)
  BY <1>6, <1>8, <1>9
<1>11. PieceIn(i, o.base) = PieceIn(i, BaseAt(more, n + 1))
  BY <1>8, <1>9 DEF PieceIn, IsBase
<1>12. ExpectedText(more) = ExpectedText(ins) \o PieceIn(i, BaseAt(more, n + 1))
  BY <1>2, <1>7, ExpectedMore
<1>13. FlattenSeq(q.items) = ExpectedText(more)
  BY <1>1, <1>6, <1>11, <1>12, Zenon DEF TextRight
<1>14. q.subroutine = Given(more)
  BY <1>1, <1>2, <1>6, GivenMore, Zenon DEF TextRight
<1>15. TextRight(q, r, m)
  BY <1>4, <1>6, <1>7, <1>10, <1>13, <1>14 DEF TextRight, SameHead
<1> QED
  BY <1>3, <1>5, <1>15

--------------------------------------------------------------------------------
(***************************************************************************)
(* Every message is what its user said, and each thread's names are those  *)
(* it set: two invariants besides IInv.                                    *)
(***************************************************************************)
LEMMA NothingInserted ==
    BaseAt(<<>>, Len(<<>>)) = "dec" /\ Given(<<>>) = <<>> /\ ExpectedText(<<>>) = <<>>
<1>1. Len(<<>>) = 0 /\ 1 .. 0 = {} /\ 1 .. Len(<<>>) = {} /\ DOMAIN <<>> = {}
  OBVIOUS
<1>2. BasesUpTo(<<>>, Len(<<>>)) = {} /\ SubroutinesIn(<<>>) = {}
  BY <1>1 DEF BasesUpTo, SubroutinesIn
<1>3. Last1({}) = 0
  BY Zenon DEF Last1
<1>4. BaseAt(<<>>, Len(<<>>)) = "dec"
  BY <1>2, <1>3, BaseAtIs
<1>5. Given(<<>>) = <<>>
  BY <1>2, <1>3, LastSubroutineIs, Zenon DEF Given
<1>6. ExpectedText(<<>>) = <<>>
  <2>1. [i \in DOMAIN <<>> |-> ExpectedPiece(<<>>, i)] = <<>>
    BY <1>1
  <2>2. FlattenSeq(<<>>) = <<>>
    BY DEF FlattenSeq
  <2> QED
    BY <2>1, <2>2, Zenon DEF ExpectedText
<1> QED
  BY <1>4, <1>5, <1>6

LEMMA NewTold ==
    ASSUME NEW st \in Statements, NEW n \in 1 .. MaxMsgs
    PROVE  TextRight(NewErrorObj(st, n), [statement |-> st, insertions |-> <<>>], n)
<1>1. PICK o : o = NewErrorObj(st, n)
  OBVIOUS
<1>2. /\ o.id \o o.idOverflow = st.category
      /\ o.serial = Decimal(n) /\ o.verbatim = st.verbatim /\ o.base = "dec"
      /\ o.filename = BaseName(st.file, st.verbatim)
      /\ o.subroutine = <<>> /\ o.items = <<>>
  BY <1>1, NewMessage, Zenon
<1>3. FlattenSeq(<<>>) = <<>>
  BY DEF FlattenSeq
<1>4. PICK s : s = [statement |-> st, insertions |-> <<>>]
  OBVIOUS
<1>5. s.statement = st /\ s.insertions = <<>>
  BY <1>4
<1>6. TextRight(o, s, n)
  BY <1>2, <1>3, <1>5, NothingInserted, Zenon DEF TextRight
<1> QED
  BY <1>1, <1>4, <1>6

TextsRight == \A m \in Messages : TextRight(object[m], said[m], m)

LEMMA TextsConstructed ==
    ASSUME IInv, TextsRight, NEW t \in Threads, NEW n \in Loggers, NEW st \in Statements,
           Construct(t, n, st)
    PROVE  TextsRight'
<1> USE WhatMessagesAre DEF IInv
<1>1. PICK p \in 1 .. MaxMsgs : p = Len(object) + 1
  BY NumbersAssumption DEF Construct
<1>2. PICK o : o = NewErrorObj(st, p)
  OBVIOUS
<1>3. PICK s : s = [statement |-> st, insertions |-> <<>>]
  OBVIOUS
<1>4. TextRight(o, s, p)
  BY <1>2, <1>3, NewTold
<1>5. object' = Append(object, o) /\ said' = Append(said, s)
  BY <1>1, <1>2, <1>3 DEF Construct
<1>6. /\ DOMAIN object' = 1 .. p /\ object'[p] = o /\ said'[p] = s
      /\ \A m \in 1 .. Len(object) : object'[m] = object[m] /\ said'[m] = said[m]
  BY <1>1, <1>5 DEF VarsType
<1>7. \A m \in Messages' : m = p \/ m \in Messages
  BY <1>1, <1>6 DEF Messages
<1> QED
  BY <1>4, <1>6, <1>7 DEF TextsRight

LEMMA TextsInserted ==
    ASSUME IInv, TextsRight, NEW t \in Threads, NEW n \in Loggers, NEW i \in Insertions,
           Insert(t, n, i)
    PROVE  TextsRight'
<1> USE WhatMessagesAre DEF IInv
<1>1. PICK m \in Messages : m = logger[t][n]
  BY DEF Insert
<1>2. PICK o \in ErrorObjs : o = object[m]
  OBVIOUS
<1>3. PICK s \in Sayings : s = said[m]
  BY DEF ObjectsRight, ObjectRight
<1>4. o.base \in Bases /\ TextRight(o, s, m)
  BY <1>2, <1>3 DEF ObjectsRight, ObjectRight, TextsRight
<1>5. PICK q : q = Inserted(o, i)
  OBVIOUS
<1>6. PICK r : r = [s EXCEPT !.insertions = Append(@, i)]
  OBVIOUS
<1>7. TextRight(q, r, m)
  BY <1>4, <1>5, <1>6, InsertionTold, Zenon
<1>8. object' = [object EXCEPT ![m] = q] /\ said' = [said EXCEPT ![m] = r]
  BY <1>1, <1>2, <1>3, <1>5, <1>6 DEF Insert
<1>9. m \in 1 .. Len(object) /\ Len(said) = Len(object)
  BY DEF VarsType
<1>10. /\ DOMAIN object' = DOMAIN object
       /\ \A k \in 1 .. Len(object) : /\ object'[k] = IF k = m THEN q ELSE object[k]
                                      /\ said'[k] = IF k = m THEN r ELSE said[k]
  BY <1>8, <1>9 DEF VarsType
<1>11. \A k \in Messages' : k = m \/ k \in Messages
  BY <1>10 DEF Messages
<1> QED
  BY <1>7, <1>10, <1>11 DEF TextsRight

LEMMA TextsStep == ASSUME IInv, TextsRight, [Next]_vars PROVE TextsRight'
<1> USE WhatMessagesAre DEF IInv
<1>1. ASSUME UNCHANGED <<object, said>> PROVE TextsRight'
  BY <1>1, Zenon DEF TextsRight, Messages
<1>2. ASSUME NEW t \in Threads, NEW n \in Loggers, Release(t, n) PROVE TextsRight'
  <2>1. PICK m \in Messages : m = logger[t][n]
    BY <1>2 DEF Release
  <2>2. object' = [object EXCEPT ![m] = Deleted] /\ said' = [said EXCEPT ![m] = Deleted]
    BY <1>2, <2>1, Zenon DEF Release
  <2>3. /\ DOMAIN object' = DOMAIN object
        /\ \A k \in 1 .. Len(object) : /\ object'[k] = IF k = m THEN Deleted ELSE object[k]
                                       /\ k # m => said'[k] = said[k]
    BY <2>2 DEF VarsType
  <2>4. \A k \in Messages' : k # m /\ k \in Messages
    BY <2>3 DEF Messages
  <2> QED
    BY <2>3, <2>4 DEF TextsRight
<1>3. ASSUME NEW t \in Threads, NEW n \in Loggers, NEW st \in Statements, Construct(t, n, st)
      PROVE  TextsRight'
  BY <1>3, TextsConstructed
<1>4. ASSUME NEW t \in Threads, NEW n \in Loggers, NEW i \in Insertions, Insert(t, n, i)
      PROVE  TextsRight'
  BY <1>4, TextsInserted
<1>5. CASE UNCHANGED vars
  BY <1>1, <1>5 DEF vars
<1>6. ASSUME NEW t \in Threads, NEW n \in Loggers,
             \/ \E u \in Threads, k \in Loggers : Move(t, n, u, k)
             \/ DestroyEmpty(t, n)
      PROVE  TextsRight'
  BY <1>1, <1>6, Zenon DEF Move, DestroyEmpty
<1>7. ASSUME NEW t \in Threads, SetContext(t) PROVE TextsRight'
  BY <1>1, <1>7, Zenon DEF SetContext
<1>8. CASE StartOrEnd
  BY <1>1, <1>8, Zenon DEF StartOrEnd
<1> QED
  BY <1>2, <1>3, <1>4, <1>5, <1>6, <1>7, <1>8, Zenon DEF Next

LEMMA TextsFirst == Init => TextsRight
<1> SUFFICES ASSUME Init PROVE TextsRight
  OBVIOUS
<1>1. object = <<>> /\ DOMAIN object = {}
  BY DEF Init
<1> QED
  BY <1>1, Zenon DEF TextsRight, Messages

\* Each thread's names are those it gave itself: module_ and iteration_ are thread-local.
OwnNames == own = [t \in Threads |-> [module |-> module[t], iteration |-> iteration[t]]]

LEMMA OwnStep == ASSUME IInv, OwnNames, [Next]_vars PROVE OwnNames'
<1>1. ASSUME UNCHANGED <<module, iteration, own>> PROVE OwnNames'
  BY <1>1, Zenon DEF OwnNames
<1>2. ASSUME NEW t \in Threads, NEW name \in Modules, SetModuleName(t, name),
             own' = [own EXCEPT ![t].module = name]
      PROVE  OwnNames'
  <2>1. module \in [Threads -> Modules \cup {Early}]
    BY DEF IInv, VarsType
  <2>2. module' = [module EXCEPT ![t] = name] /\ iteration' = iteration
    BY <1>2 DEF SetModuleName
  <2>3. own' = [own EXCEPT ![t] = [own[t] EXCEPT !.module = name]]
    BY <1>2
  <2>4. [own[t] EXCEPT !.module = name] = [module |-> name, iteration |-> iteration[t]]
    BY DEF OwnNames
  <2>5. \A u \in Threads : module'[u] = IF u = t THEN name ELSE module[u]
    BY <2>1, <2>2
  <2> QED
    BY <2>2, <2>3, <2>4, <2>5 DEF OwnNames
<1>3. ASSUME NEW t \in Threads, NEW name \in Iterations, SetIteration(t, name),
             own' = [own EXCEPT ![t].iteration = name]
      PROVE  OwnNames'
  <2>1. iteration \in [Threads -> Iterations \cup {PreEvents}]
    BY DEF IInv, VarsType
  <2>2. iteration' = [iteration EXCEPT ![t] = name] /\ module' = module
    BY <1>3 DEF SetIteration
  <2>3. own' = [own EXCEPT ![t] = [own[t] EXCEPT !.iteration = name]]
    BY <1>3
  <2>4. [own[t] EXCEPT !.iteration = name] = [module |-> module[t], iteration |-> name]
    BY DEF OwnNames
  <2>5. \A u \in Threads : iteration'[u] = IF u = t THEN name ELSE iteration[u]
    BY <2>1, <2>2
  <2> QED
    BY <2>2, <2>3, <2>4, <2>5 DEF OwnNames
<1>4. ASSUME NEW t \in Threads, SetContext(t) PROVE OwnNames'
  BY <1>2, <1>3, <1>4, Zenon DEF SetContext
<1>5. ASSUME NEW t \in Threads, NEW n \in Loggers,
             \/ \E st \in Statements : Construct(t, n, st)
             \/ \E insertion \in Insertions : Insert(t, n, insertion)
             \/ \E u \in Threads, k \in Loggers : Move(t, n, u, k)
             \/ DestroyEmpty(t, n)
             \/ Release(t, n)
      PROVE  OwnNames'
  BY <1>1, <1>5, Zenon DEF Construct, Insert, Move, DestroyEmpty, Release
<1>6. CASE StartOrEnd
  BY <1>1, <1>6, Zenon DEF StartOrEnd
<1>7. CASE UNCHANGED vars
  BY <1>1, <1>7 DEF vars
<1> QED
  BY <1>4, <1>5, <1>6, <1>7, Zenon DEF Next

LEMMA OwnFirst == Init => OwnNames
BY DEF Init, OwnNames

--------------------------------------------------------------------------------
(***************************************************************************)
(* The text is header, user's text and trailer again.                      *)
(***************************************************************************)
\* All symbols that do not break a line, and the words that do not.
Unbroken == Symbols \ Breaks
Plain == STRING \ Breaks

LEMMA PlainIsUnbroken == ASSUME NEW s \in Seq(Plain) PROVE s \in Seq(Unbroken)
<1>1. Plain \subseteq Unbroken
  BY Zenon DEF Plain, Unbroken, Symbols
<1> QED
  BY <1>1, Wider

\* The words of the layout do not break a line.
LEMMA WordsUnbroken ==
    /\ {SP, "%MSG", ":", "[serial #", "]", "()", "time", "line", "|"} \subseteq Unbroken
    /\ \A level \in Levels : Symbol(level) \in Unbroken
<1>1. {SP, "%MSG", ":", "[serial #", "]", "()", "time", "line", "|"} \subseteq Symbols
  BY Zenon DEF Symbols
<1>2. {SP, "%MSG", ":", "[serial #", "]", "()", "time", "line", "|"} \cap Breaks = {}
  BY DEF Breaks, NL, SP
<1>3. ASSUME NEW level \in Levels PROVE Symbol(level) \in Unbroken
  <2>1. Symbol(level) \in Symbols
    BY Zenon DEF Symbols
  <2>2. level \in 1 .. 8
    BY DEF Levels, ELsev_success, ELsev_severe
  <2>3. Symbol(level) \notin Breaks
    <3>1. Symbol(level) # "newline" /\ Symbol(level) # " ==> "
      <4>1. CASE level = 1
        BY <4>1 DEF Symbol
      <4>2. CASE level = 2
        BY <4>2 DEF Symbol
      <4>3. CASE level = 3
        BY <4>3 DEF Symbol
      <4>4. CASE level = 4
        BY <4>4 DEF Symbol
      <4>5. CASE level = 5
        BY <4>5 DEF Symbol
      <4>6. CASE level = 6
        BY <4>6 DEF Symbol
      <4>7. CASE level = 7
        BY <4>7 DEF Symbol
      <4>8. CASE level = 8
        BY <4>8 DEF Symbol
      <4>9. \/ level = 1 \/ level = 2 \/ level = 3 \/ level = 4
            \/ level = 5 \/ level = 6 \/ level = 7 \/ level = 8
        BY <2>2
      <4> QED
        BY Zenon, <4>1, <4>2, <4>3, <4>4, <4>5, <4>6, <4>7, <4>8, <4>9
    <3> QED
      BY <3>1, Zenon DEF Breaks, NL
  <2> QED
    BY <2>1, <2>3, Zenon DEF Unbroken
<1> QED
  BY <1>1, <1>2, <1>3 DEF Unbroken

LEMMA GivenPlain ==
    ASSUME NEW A, NEW s \in Seq(Insertions),
           \A i \in Insertions : IsSubroutine(i) => i.text \in Seq(A)
    PROVE  Given(s) \in Seq(A)
<1>1. PICK j : j = Last1(SubroutinesIn(s))
  OBVIOUS
<1>2. j \in 0 .. Len(s) /\ (j # 0 => j \in SubroutinesIn(s))
  <2>1. SubroutinesIn(s) \in SUBSET (1 .. Len(s)) /\ Len(s) \in Nat
    BY DEF SubroutinesIn
  <2> QED
    BY <1>1, <2>1, LastOfMore
<1>3. Given(s) = IF j = 0 THEN <<>> ELSE Stripped(Tail(s[j].text))
  <2>1. SelectLastInSeq(s, IsSubroutine) = j
    BY <1>1, LastSubroutineIs
  <2> QED
    BY <2>1, Zenon DEF Given
<1>4. ASSUME j # 0 PROVE Stripped(Tail(s[j].text)) \in Seq(A)
  <2>1. j \in 1 .. Len(s) /\ IsSubroutine(s[j])
    BY <1>2, <1>4 DEF SubroutinesIn
  <2>2. PICK i \in Insertions : i = s[j]
    BY <2>1
  <2>3. PICK t \in Seq(A) : t = i.text /\ t # <<>>
    BY <2>1, <2>2 DEF IsSubroutine
  <2>4. PICK u \in Seq(A) : u = Tail(t)
    <3>1. Tail(t) \in Seq(A)
      BY <2>3
    <3> QED
      BY <3>1
  <2>5. Stripped(u) \in Seq(A)
    BY DEF Stripped
  <2> QED
    BY <2>2, <2>3, <2>4, <2>5
<1>5. <<>> \in Seq(A)
  OBVIOUS
<1> QED
  BY <1>3, <1>4, <1>5, Zenon

\* What is released: signed, with the names of the process.
Signed(o, names) == [o EXCEPT !.module = names.module, !.iteration = names.iteration]

LEMMA SignedIs ==
    ASSUME NEW o \in ErrorObjs, NEW names, names.module \in Texts, names.iteration \in Texts
    PROVE  \A msg \in {Signed(o, names), FillNames(Signed(o, names), ProcessNames)} :
             /\ msg \in ErrorObjs /\ SameHead(msg, o) /\ msg.items = o.items
             /\ msg.subroutine = o.subroutine
             /\ msg.module = names.module /\ msg.iteration = names.iteration
             /\ o.pid = 0 => msg.pid \in {0, ProcessNames.pid}
<1>1. PICK p : p = Signed(o, names)
  OBVIOUS
<1>2. /\ p \in ErrorObjs /\ SameHead(p, o) /\ p.items = o.items /\ p.subroutine = o.subroutine
      /\ p.module = names.module /\ p.iteration = names.iteration /\ p.pid = o.pid
  BY <1>1 DEF Signed, SameHead, ErrorObjs
<1>3. PICK q : q = FillNames(p, ProcessNames)
  OBVIOUS
<1>4. /\ q \in ErrorObjs /\ SameHead(q, p) /\ q.items = p.items /\ q.subroutine = p.subroutine
      /\ q.module = p.module /\ q.iteration = p.iteration
      /\ q.pid = IF p.pid = 0 THEN ProcessNames.pid ELSE p.pid
  <2>1. q \in ErrorObjs /\ q.pid = IF p.pid = 0 THEN ProcessNames.pid ELSE p.pid
    BY <1>2, <1>3, FillNamesIs
  <2>2. /\ SameHead(q, p) /\ q.items = p.items /\ q.subroutine = p.subroutine
        /\ q.module = p.module /\ q.iteration = p.iteration
    BY <1>2, <1>3 DEF FillNames, SameHead, ErrorObjs
  <2> QED
    BY <2>1, <2>2
<1>5. SameHead(q, o)
  BY <1>2, <1>4 DEF SameHead
<1> QED
  BY <1>1, <1>2, <1>3, <1>4, <1>5

\* With names that have no breaks in them, a header has none.
LEMMA HeaderUnbroken ==
    ASSUME NamesUnbroken, NEW m \in 1 .. MaxMsgs, NEW o \in ErrorObjs, NEW s \in Sayings,
           TextRight(o, s, m), NEW msg \in ErrorObjs, SameHead(msg, o),
           msg.subroutine = o.subroutine, msg.module \in Modules \cup {Early},
           msg.iteration \in Iterations \cup {PreEvents}
    PROVE  HeaderIn(Unbroken, msg) /\ msg.filename \in Seq(Unbroken)
<1>1. s.statement \in Statements /\ s.insertions \in Seq(Insertions)
  BY DEF Sayings
<1>2. /\ s.statement.category \in Seq(Plain) /\ s.statement.file \in Seq(Plain)
      /\ msg.module \in Seq(Plain) /\ msg.iteration \in Seq(Plain)
      /\ \A i \in Insertions : IsSubroutine(i) => i.text \in Seq(Plain)
      /\ Decimal(m) \in Plain
  <2>1. Decimal(m) \in STRING
    BY NumbersAssumption
  <2> QED
    BY <1>1, <2>1 DEF NamesUnbroken, NamesWithout, Plain
<1>3. msg.id \in Seq(Plain) /\ msg.idOverflow \in Seq(Plain)
  <2>1. msg.id \in Seq(STRING) /\ msg.idOverflow \in Seq(STRING)
    BY DEF ErrorObjs, Texts
  <2>2. msg.id \o msg.idOverflow \in Seq(Plain)
    BY <1>2 DEF SameHead, TextRight
  <2> QED
    BY <2>1, <2>2, PartsAre
<1>4. msg.subroutine \in Seq(Plain)
  BY <1>1, <1>2, GivenPlain DEF TextRight
<1>5. msg.filename \in Seq(Plain)
  BY <1>2, BaseNameIsText DEF SameHead, TextRight
<1>6. msg.serial \in Unbroken
  <2>1. msg.serial \in Plain
    BY <1>2 DEF SameHead, TextRight
  <2> QED
    BY <2>1, Zenon DEF Plain, Unbroken, Symbols
<1>7. Symbol(msg.severity) \in Unbroken
  <2>1. msg.severity \in Levels
    BY DEF ErrorObjs, Levels
  <2> QED
    BY <2>1, WordsUnbroken
<1>8. /\ msg.id \in Seq(Unbroken) /\ msg.idOverflow \in Seq(Unbroken) /\ msg.module \in Seq(Unbroken)
      /\ msg.subroutine \in Seq(Unbroken) /\ msg.iteration \in Seq(Unbroken)
      /\ msg.filename \in Seq(Unbroken)
  BY <1>2, <1>3, <1>4, <1>5, PlainIsUnbroken
<1> QED
  BY <1>6, <1>7, <1>8, WordsUnbroken DEF HeaderIn

LEMMA Associates ==
    ASSUME NEW A, NEW a \in Seq(A), NEW b \in Seq(A), NEW c \in Seq(A),
           NEW ab, ab = a \o b, NEW bc, bc = b \o c
    PROVE  ab \o c = a \o bc
BY ConcatAssociative

\* Two ways to join three texts.
Chain(a, b, c, ab, bc) ==
    /\ a \in Seq(Symbols) /\ b \in Seq(Symbols) /\ c \in Seq(Symbols)
    /\ ab = a \o b /\ bc = b \o c

Rejoined(a, c, ab, bc) == ab \o c = a \o bc

LEMMA Chained ==
    ASSUME NEW a, NEW b, NEW c, NEW ab, NEW bc, Chain(a, b, c, ab, bc)
    PROVE  Rejoined(a, c, ab, bc)
BY Associates DEF Chain, Rejoined

LEMMA Lengthened == ASSUME NEW A, NEW a \in A, NEW b \in A PROVE <<a, b>> \o <<a>> = <<a, b, a>>
<1>1. <<a, b>> \in Seq(A) /\ <<a>> \in Seq(A) /\ <<a, b, a>> \in Seq(A)
  OBVIOUS
<1>2. PICK x \in Seq(A) : x = <<a, b>> \o <<a>>
  BY <1>1, Joined
<1>3. Len(x) = 3 /\ x[1] = a /\ x[2] = b /\ x[3] = a
  BY <1>2
<1>4. PICK y \in Seq(A) : y = <<a, b, a>>
  BY <1>1
<1>5. Len(y) = 3 /\ y[1] = a /\ y[2] = b /\ y[3] = a
  BY <1>4
<1>6. \A i \in 1 .. 3 : x[i] = y[i]
  BY <1>3, <1>5
<1>7. x = [i \in 1 .. 3 |-> x[i]] /\ y = [i \in 1 .. 3 |-> y[i]]
  BY <1>3, <1>5
<1> QED
  BY <1>2, <1>4, <1>6, <1>7

LEMMA Regrouped ==
    ASSUME NEW A, NEW a \in Seq(A), NEW b \in Seq(A), NEW c \in Seq(A)
    PROVE  (a \o b) \o c = a \o (b \o c) /\ a \o <<>> = a /\ <<>> \o a = a
BY ConcatAssociative, ConcatEmptySeq

LEMMA FirstIs ==
    ASSUME NEW A, NEW a \in Seq(A), NEW b \in Seq(A), a # <<>>
    PROVE  a \o b # <<>> /\ (a \o b)[1] = a[1]
OBVIOUS

\* The text up to the first break is the header.
LEMMA HeaderOf ==
    ASSUME NEW h \in Seq(Unbroken), NEW sep \in Seq(Symbols), NEW text \in Seq(Symbols),
           NEW end \in Seq(Symbols), end # <<>>, end[1] \in Breaks,
           sep = <<>> => text = <<>>, sep # <<>> => sep[1] \in Breaks
    PROVE  Header(((h \o sep) \o text) \o end) = h
<1>1. /\ h \in Seq(Symbols) /\ \A i \in 1 .. Len(h) : h[i] \notin Breaks
  <2>1. Unbroken \subseteq Symbols
    BY Zenon DEF Unbroken
  <2>2. \A i \in 1 .. Len(h) : h[i] \in Unbroken
    OBVIOUS
  <2> QED
    BY <2>1, <2>2, Wider DEF Unbroken
<1>2. PICK x \in Seq(Symbols) : x = text \o end
  BY Joined
<1>3. PICK y \in Seq(Symbols) : y = sep \o x
  BY Joined
<1>4. ((h \o sep) \o text) \o end = h \o y
  <2>1. PICK z \in Seq(Symbols) : z = h \o sep
    BY <1>1, Joined
  <2>2. (z \o text) \o end = z \o x
    <3>1. PICK zt \in Seq(Symbols) : zt = z \o text
      BY Joined
    <3>2. zt \o end = z \o x
      <4>1. Chain(z, text, end, zt, x)
        BY <1>2, <3>1, Zenon DEF Chain
      <4>2. Rejoined(z, end, zt, x)
        BY <4>1, Chained, Zenon
      <4> QED
        BY <4>2, Zenon DEF Rejoined
    <3> QED
      BY <3>1, <3>2
  <2>3. z \o x = h \o y
    <3>1. Chain(h, sep, x, z, y)
      BY <1>1, <1>3, <2>1, Zenon DEF Chain
    <3>2. Rejoined(h, x, z, y)
      BY <3>1, Chained, Zenon
    <3> QED
      BY <3>2, Zenon DEF Rejoined
  <2> QED
    BY <2>1, <2>2, <2>3
<1>5. y # <<>> /\ y[1] \in Breaks
  <2>1. CASE sep = <<>>
    <3>1. x = end
      BY <1>2, <2>1, Regrouped
    <3>2. y = x
      BY <1>3, <2>1, Regrouped
    <3> QED
      BY <3>1, <3>2
  <2>2. CASE sep # <<>>
    BY <1>3, <2>2, FirstIs
  <2> QED
    BY <2>1, <2>2
<1> QED
  BY <1>1, <1>4, <1>5, HeaderIs

\* A text is what the user said, between header and trailer if not verbatim.
Told(text, verbatim, sep, said1, end) ==
    text = IF verbatim THEN said1 \o <<NL>> ELSE Header(text) \o sep \o said1 \o end

LEMMA SymbolsToo == /\ \A b \in Breaks : <<b>> \in Seq(Symbols)
                    /\ <<NL>> \in Seq(Symbols) /\ <<NL, "%MSG", NL>> \in Seq(Symbols)
                    /\ <<NL, "%MSG">> \in Seq(Symbols)
                    /\ <<NL, "%MSG">> \o <<NL>> = <<NL, "%MSG", NL>> /\ <<>> \o <<NL>> = <<NL>>
<1>1. NL \in Symbols /\ " ==> " \in Symbols /\ "%MSG" \in Symbols
  BY Zenon DEF Symbols
<1>2. \A b \in Breaks : b \in Symbols
  BY <1>1, Zenon DEF Breaks
<1>3. ASSUME NEW a \in Symbols, NEW b \in Symbols
      PROVE <<a, b, a>> \in Seq(Symbols) /\ <<a, b>> \o <<a>> = <<a, b, a>> /\ <<>> \o <<a>> = <<a>>
  <2>1. /\ <<a, b, a>> \in Seq(Symbols) /\ <<a>> \in Seq(Symbols) /\ <<a, b>> \in Seq(Symbols)
    OBVIOUS
  <2>2. <<a, b>> \o <<a>> = <<a, b, a>>
    BY Lengthened
  <2> QED
    BY <2>1, <2>2, Regrouped
<1> QED
  BY <1>1, <1>2, <1>3, Tuples, Zenon

\* Where in the code the message comes from.
Whereabouts(msg) == When(msg.filename # <<>>, <<SP>> \o msg.filename \o <<":", msg.lineNumber>>)

LEMMA PlaceUnbroken ==
    ASSUME NEW msg \in ErrorObjs, msg.filename \in Seq(Unbroken)
    PROVE  Whereabouts(msg) \in Seq(Unbroken)
<1>1. <<SP>> \in Seq(Unbroken) /\ <<":", msg.lineNumber>> \in Seq(Unbroken)
  <2>1. msg.lineNumber = "line"
    BY DEF ErrorObjs
  <2>2. SP \in Unbroken /\ ":" \in Unbroken /\ "line" \in Unbroken
    BY WordsUnbroken
  <2> QED
    BY <2>1, <2>2, Tuples
<1>2. PICK x \in Seq(Unbroken) : x = <<SP>> \o msg.filename
  BY <1>1, Joined
<1>3. PICK y \in Seq(Unbroken) : y = x \o <<":", msg.lineNumber>>
  BY <1>1, <1>2, Joined
<1> QED
  BY <1>2, <1>3, WhenIs DEF Whereabouts

LEMMA PayloadReads ==
    ASSUME NEW format, NEW msg \in ErrorObjs,
           HeaderIn(Unbroken, msg) /\ msg.filename \in Seq(Unbroken)
    PROVE  /\ Told(Payload(format, msg), msg.verbatim,
                   When(format.text, IF format.noLineBreaks THEN <<" ==> ">> ELSE <<NL>>),
                   When(format.text, FlattenSeq(msg.items)),
                   IF format.noLineBreaks THEN <<NL>> ELSE <<NL, "%MSG", NL>>)
           /\ ~msg.verbatim =>
                Header(Payload(format, msg)) =
                  IF format.text THEN FillPrefix(format, msg) \o Whereabouts(msg) ELSE FillPrefix(format, msg)
<1> DEFINE T == Seq(Symbols)
           place == Whereabouts(msg)
           sep == IF format.noLineBreaks THEN <<" ==> ">> ELSE <<NL>>
           front == When(~msg.verbatim, place \o sep)
           tail == When(~msg.verbatim /\ ~format.noLineBreaks, <<NL, "%MSG">>)
           end == IF format.noLineBreaks THEN <<NL>> ELSE <<NL, "%MSG", NL>>
<1>1. PICK p \in Seq(Unbroken) : p = FillPrefix(format, msg)
  BY FillPrefixText
<1>2. PICK l \in Seq(Unbroken) : l = place
  BY PlaceUnbroken
<1> HIDE DEF place
<1>3. PICK i \in T : i = FlattenSeq(msg.items)
  BY ItemsText
<1>4. PICK s \in T : s = sep /\ s # <<>> /\ s[1] \in Breaks
  <2>1. CASE format.noLineBreaks
    <3>1. <<" ==> ">> \in T /\ <<" ==> ">> # <<>> /\ <<" ==> ">>[1] \in Breaks
      BY SymbolsToo DEF Breaks
    <3> QED
      BY <2>1, <3>1, Zenon
  <2>2. CASE ~format.noLineBreaks
    <3>1. <<NL>> \in T /\ <<NL>> # <<>> /\ <<NL>>[1] \in Breaks
      BY SymbolsToo DEF Breaks
    <3> QED
      BY <2>2, <3>1, Zenon
  <2> QED
    BY <2>1, <2>2
<1>5. PICK e \in T : e = end /\ e # <<>> /\ e[1] \in Breaks
  <2>1. /\ <<NL>> \in T /\ <<NL>> # <<>> /\ <<NL>>[1] \in Breaks
        /\ <<NL, "%MSG", NL>> \in T /\ <<NL, "%MSG", NL>> # <<>> /\ <<NL, "%MSG", NL>>[1] \in Breaks
    BY SymbolsToo DEF Breaks
  <2> QED
    BY <2>1, Zenon
<1>6. Unbroken \subseteq Symbols /\ p \in T /\ l \in T
  <2>1. Unbroken \subseteq Symbols
    BY Zenon DEF Unbroken
  <2> QED
    BY <2>1, Wider
<1>7. Payload(format, msg) = (p \o When(format.text, front \o i)) \o (tail \o <<NL>>)
  BY <1>1, <1>3, Zenon DEF Payload, FillUsrMsg, FillSuffix, place, Whereabouts
<1>8. CASE msg.verbatim
  <2>1. p = <<>>
    BY <1>1, <1>8, Zenon DEF FillPrefix
  <2>2. front = <<>> /\ tail = <<>>
    BY <1>8, Zenon DEF When
  <2>3. PICK w \in T : w = When(format.text, i)
    BY WhenIs
  <2>4. <<>> \o i = i /\ <<>> \o w = w /\ <<>> \o <<NL>> = <<NL>>
    BY Regrouped, SymbolsToo
  <2> HIDE DEF front, tail, sep, end, place
  <2>5. Payload(format, msg) = w \o <<NL>>
    BY <1>7, <2>1, <2>2, <2>3, <2>4
  <2> QED
    BY <1>3, <1>8, <2>3, <2>5, Zenon DEF Told
<1>9. CASE ~msg.verbatim
  <2>1. front = place \o sep
    BY <1>9, Zenon DEF When
  <2>2. tail \o <<NL>> = e
    <3>1. CASE format.noLineBreaks
      <4>1. tail = <<>> /\ e = <<NL>>
        BY <1>5, <3>1, Zenon DEF When
      <4> HIDE DEF tail
      <4> QED
        BY <4>1, SymbolsToo
    <3>2. CASE ~format.noLineBreaks
      <4>1. tail = <<NL, "%MSG">> /\ e = <<NL, "%MSG", NL>>
        BY <1>5, <1>9, <3>2, Zenon DEF When
      <4> HIDE DEF tail
      <4> QED
        BY <4>1, SymbolsToo
    <3> QED
      BY <3>1, <3>2
  <2> HIDE DEF tail, end, place, sep, front
  <2>3. Payload(format, msg) = (p \o When(format.text, (l \o s) \o i)) \o e
    BY <1>2, <1>4, <1>7, <2>1, <2>2
  <2>4. PICK h \in Seq(Unbroken), s2 \in T, t2 \in T :
          /\ h = (IF format.text THEN p \o l ELSE p)
          /\ s2 = When(format.text, s) /\ t2 = When(format.text, i)
    BY WhenIs, Joined, Zenon
  <2>5. Payload(format, msg) = ((h \o s2) \o t2) \o e
    <3>1. CASE format.text
      <4>1. h = p \o l /\ s2 = s /\ t2 = i /\ When(format.text, (l \o s) \o i) = (l \o s) \o i
        BY <2>4, <3>1, Zenon DEF When
      <4>2. PICK ls \in T : ls = l \o s
        BY <1>6, Joined
      <4>3. PICK lsi \in T, pls \in T : lsi = ls \o i /\ pls = p \o ls
        BY <1>6, Joined
      <4>5. pls \o i = p \o lsi
        <5>1. Chain(p, ls, i, pls, lsi)
          BY <1>6, <4>3, Zenon DEF Chain
        <5>2. Rejoined(p, i, pls, lsi)
          BY <5>1, Chained, Zenon
        <5> QED
          BY <5>2, Zenon DEF Rejoined
      <4>4. (p \o l) \o s = p \o ls
        <5>1. PICK pl \in T : pl = p \o l
          BY <1>6, Joined
        <5>2. PICK p2 \in T, l2 \in T : p2 = p /\ l2 = l
          BY <1>6
        <5>3. pl = p2 \o l2 /\ ls = l2 \o s
          BY <4>2, <5>1, <5>2
        <5>4. pl \o s = p2 \o ls
          <6>1. Chain(p2, l2, s, pl, ls)
            BY <5>3, Zenon DEF Chain
          <6>2. Rejoined(p2, s, pl, ls)
            BY <6>1, Chained, Zenon
          <6> QED
            BY <6>2, Zenon DEF Rejoined
        <5> QED
          BY <5>1, <5>2, <5>4
      <4> QED
        BY <2>3, <4>1, <4>2, <4>3, <4>4, <4>5
    <3>2. CASE ~format.text
      <4>1. h = p /\ s2 = <<>> /\ t2 = <<>> /\ When(format.text, (l \o s) \o i) = <<>>
        BY <2>4, <3>2, Zenon DEF When
      <4>2. p \o <<>> = p
        BY <1>6, Regrouped
      <4> QED
        BY <2>3, <4>1, <4>2
    <3> QED
      BY <3>1, <3>2
  <2>6. Header(Payload(format, msg)) = h
    <3>1. (s2 = <<>> => t2 = <<>>) /\ (s2 # <<>> => s2[1] \in Breaks)
      BY <1>4, <2>4, Zenon DEF When
    <3> QED
      BY <1>5, <2>5, <3>1, HeaderOf
  <2>7. Payload(format, msg) = Header(Payload(format, msg)) \o s2 \o t2 \o e
    BY <2>5, <2>6
  <2>8. Header(Payload(format, msg)) =
          IF format.text THEN FillPrefix(format, msg) \o Whereabouts(msg) ELSE FillPrefix(format, msg)
    BY <1>1, <1>2, <2>4, <2>6, Zenon DEF place
  <2> QED
    BY <1>3, <1>4, <1>5, <1>9, <2>4, <2>7, <2>8, Zenon DEF Told, sep, end
<1> QED
  BY <1>8, <1>9

LEMMA EarlyReads ==
    ASSUME NEW msg \in ErrorObjs, HeaderIn(Unbroken, msg)
    PROVE  /\ Told(EarlyText(msg), msg.verbatim, <<NL>>, FlattenSeq(msg.items), <<NL, "%MSG", NL>>)
           /\ ~msg.verbatim =>
                Header(EarlyText(msg)) =
                  <<"%MSG", Symbol(msg.severity), SP>> \o msg.id \o msg.idOverflow \o <<":", SP>>
<1> DEFINE T == Seq(Symbols)
           U == Seq(Unbroken)
           head == <<"%MSG", Symbol(msg.severity), SP>>
           end == <<NL, "%MSG", NL>>
<1>1. PICK i \in T : i = FlattenSeq(msg.items)
  BY ItemsText
<1>2. CASE msg.verbatim
  BY <1>1, <1>2, Zenon DEF EarlyText, Told
<1>3. CASE ~msg.verbatim
  <2>1. /\ "%MSG" \in Unbroken /\ Symbol(msg.severity) \in Unbroken /\ SP \in Unbroken
        /\ ":" \in Unbroken /\ msg.id \in U /\ msg.idOverflow \in U
    BY DEF HeaderIn
  <2>2. head \in U /\ <<":", SP>> \in U
    <3>1. \A a, b, c \in Unbroken : <<a, b, c>> \in U
      OBVIOUS
    <3> QED
      BY <2>1, <3>1, Tuples
  <2>3. PICK x \in U : x = head \o msg.id
    BY <2>1, <2>2, Joined
  <2>4. PICK y \in U : y = x \o msg.idOverflow
    BY <2>1, Joined
  <2>5. PICK h \in U : h = y \o <<":", SP>>
    BY <2>2, Joined
  <2>6. PICK e \in T : e = end /\ e # <<>> /\ e[1] \in Breaks
    BY SymbolsToo DEF Breaks
  <2>7. PICK s \in T : s = <<NL>> /\ s # <<>> /\ s[1] \in Breaks
    BY SymbolsToo DEF Breaks
  <2>8. y \o <<":", SP, NL>> = h \o s
    <3>1. PICK z \in T : z = <<":", SP, NL>>
      <4>1. ":" \in Symbols /\ SP \in Symbols /\ NL \in Symbols
        BY Zenon DEF Symbols
      <4>2. \A a, b, c \in Symbols : <<a, b, c>> \in T
        OBVIOUS
      <4> QED
        BY <4>1, <4>2
    <3>2. Unbroken \subseteq Symbols
      BY Zenon DEF Unbroken
    <3>3. PICK y2 \in T, c \in T : y2 = y /\ c = <<":", SP>>
      BY <2>2, <3>2, Wider
    <3>4. z = c \o s
      BY <2>7, <3>1, <3>3
    <3>5. h = y2 \o c
      BY <2>5, <3>3
    <3> HIDE DEF T
    <3>6. h \o s = y2 \o z
      BY <3>4, <3>5, Associates
    <3> QED
      BY <3>1, <3>3, <3>6
  <2> HIDE DEF head, end
  <2>9. EarlyText(msg) = (((y \o <<":", SP, NL>>) \o i) \o e)
    BY <1>1, <1>3, <2>3, <2>4, <2>6, Zenon DEF EarlyText, head, end
  <2>10. EarlyText(msg) = ((h \o s) \o i) \o e
    BY <2>8, <2>9
  <2>11. Header(EarlyText(msg)) = h
    <3>1. Header(((h \o s) \o i) \o e) = h
      <4>1. (s = <<>> => i = <<>>) /\ (s # <<>> => s[1] \in Breaks)
        BY <2>7
      <4> QED
        BY <2>6, <4>1, HeaderOf
    <3> QED
      BY <2>10, <3>1
  <2>12. EarlyText(msg) = Header(EarlyText(msg)) \o s \o i \o e
    BY <2>10, <2>11
  <2>13. Header(EarlyText(msg)) = head \o msg.id \o msg.idOverflow \o <<":", SP>>
    BY <2>3, <2>4, <2>5, <2>11, Zenon
  <2> QED
    BY <1>1, <1>3, <2>6, <2>7, <2>12, <2>13, Zenon DEF Told, end, head
<1> QED
  BY <1>2, <1>3

LEMMA RestOf ==
    ASSUME NEW A, NEW a \in Seq(A), NEW b \in Seq(A), a # <<>>
    PROVE  Tail(a) \in Seq(A) /\ Tail(a \o b) = Tail(a) \o b
<1>1. Tail(a) \in Seq(A) /\ Len(Tail(a)) = Len(a) - 1 /\ \A i \in 1 .. Len(a) - 1 : Tail(a)[i] = a[i + 1]
  OBVIOUS
<1>2. PICK c \in Seq(A) : c = a \o b
  BY Joined
<1>3. PICK m \in Nat, n \in Nat : m = Len(a) - 1 /\ n = Len(b)
  <2>1. Len(a) \in Nat /\ Len(b) \in Nat /\ Len(a) # 0
    OBVIOUS
  <2>2. Len(a) - 1 \in Nat
    BY <2>1
  <2> QED
    BY <2>1, <2>2
<1>4. Len(c) = m + n + 1 /\ c # <<>>
  BY <1>2, <1>3
<1>5. PICK t \in Seq(A) : t = Tail(c)
  <2>1. Tail(c) \in Seq(A)
    BY <1>4
  <2> QED
    BY <2>1
<1>6. PICK r \in Seq(A) : r = Tail(a)
  BY <1>1
<1>7. PICK d \in Seq(A) : d = r \o b
  BY Joined
<1>8. Len(t) = m + n /\ Len(d) = m + n
  BY <1>1, <1>3, <1>4, <1>5, <1>6, <1>7
<1>9. ASSUME NEW i \in 1 .. m + n PROVE t[i] = d[i]
  <2>1. t[i] = c[i + 1]
    BY <1>4, <1>5
  <2>2. CASE i <= m
    <3>1. c[i + 1] = a[i + 1]
      BY <1>2, <1>3, <2>2
    <3>2. d[i] = r[i] /\ r[i] = a[i + 1]
      BY <1>1, <1>3, <1>6, <1>7, <2>2
    <3> QED
      BY <2>1, <3>1, <3>2
  <2>3. CASE ~(i <= m)
    <3>1. c[i + 1] = b[i - m]
      BY <1>2, <1>3, <2>3
    <3>2. d[i] = b[i - m]
      BY <1>1, <1>3, <1>6, <1>7, <2>3
    <3> QED
      BY <2>1, <3>1, <3>2
  <2> QED
    BY <2>2, <2>3
<1>10. t = [i \in 1 .. m + n |-> t[i]] /\ d = [i \in 1 .. m + n |-> d[i]]
  BY <1>8
<1>11. t = d
  BY <1>9, <1>10
<1> QED
  BY <1>1, <1>2, <1>5, <1>6, <1>7, <1>11

\* A text ends with what the user said, if need be without its line break.
Ends(text, said1) ==
    \/ IsSuffix(said1, text)
    \/ said1 # <<>> /\ said1[1] = NL /\ IsSuffix(Tail(said1), text)

LEMMA LastColumnReads ==
    ASSUME NEW format, NEW msg \in ErrorObjs, format.text, NEW x \in Seq(Symbols)
    PROVE  Ends(x \o LastColumn(format, msg), FlattenSeq(msg.items))
<1> DEFINE T == Seq(Symbols)
           place == When(msg.filename # <<>>, <<SP>> \o msg.filename \o <<":", msg.lineNumber>>)
           sep == IF format.noLineBreaks THEN <<" ==> ">> ELSE <<NL>>
           front == When(~msg.verbatim, place \o sep)
<1>1. PICK i \in T : i = FlattenSeq(msg.items)
  BY ItemsText
<1>2. PICK f \in T : f = front
  <2>1. SP \in Symbols /\ ":" \in Symbols /\ msg.lineNumber \in Symbols /\ msg.filename \in T
    BY TextIsPrintable DEF Symbols, ErrorObjs
  <2>2. <<SP>> \in T /\ <<":", msg.lineNumber>> \in T /\ sep \in T
    BY <2>1, SymbolsToo, Tuples DEF Breaks
  <2>3. PICK a \in T : a = <<SP>> \o msg.filename
    BY <2>1, <2>2, Joined
  <2>4. PICK b \in T : b = a \o <<":", msg.lineNumber>>
    BY <2>2, Joined
  <2>5. place \in T
    BY <2>3, <2>4, WhenIs
  <2> HIDE DEF place, sep
  <2>6. place \o sep \in T
    BY <2>2, <2>5, Joined
  <2> QED
    BY <2>6, WhenIs
<1> HIDE DEF front
<1>3. PICK u \in T : u = f \o i
  BY Joined
<1>4. FillUsrMsg(format, msg) = u
  BY <1>1, <1>2, <1>3, Zenon DEF FillUsrMsg, When, front
<1>5. LastColumn(format, msg) = IF u # <<>> /\ u[1] = NL THEN Tail(u) ELSE u
  BY <1>4, Zenon DEF LastColumn
<1>6. ASSUME NEW y \in T, NEW k \in T PROVE IsSuffix(k, x \o (y \o k))
  <2>1. PICK yk \in T, xy \in T : yk = y \o k /\ xy = x \o y
    BY Joined
  <2> HIDE DEF T
  <2>2. xy \o k = x \o yk
    BY <2>1, Associates, SMTT(30) DEF T
  <2>3. IsSuffix(k, xy \o k)
    BY EndsWith DEF T
  <2> QED
    BY <2>1, <2>2, <2>3
<1>7. CASE ~(u # <<>> /\ u[1] = NL)
  BY <1>1, <1>3, <1>5, <1>6, <1>7 DEF Ends
<1>8. CASE u # <<>> /\ u[1] = NL /\ f # <<>>
  <2>1. PICK g \in T : Tail(u) = g \o i
    BY <1>3, <1>8, RestOf
  <2> QED
    BY <1>1, <1>5, <1>6, <1>8, <2>1 DEF Ends
<1>9. CASE u # <<>> /\ u[1] = NL /\ f = <<>>
  <2>1. u = i
    BY <1>3, <1>9, Regrouped
  <2>2. PICK t \in T : t = Tail(i)
    <3>1. Tail(i) \in T
      BY <1>9, <2>1
    <3> QED
      BY <3>1
  <2>3. IsSuffix(t, x \o t)
    BY EndsWith
  <2> QED
    BY <1>1, <1>5, <1>9, <2>1, <2>2, <2>3 DEF Ends
<1> QED
  BY <1>7, <1>8, <1>9

LEMMA LoggedReads ==
    ASSUME NEW dest \in Destinations, NEW msg \in ErrorObjs, Decimal(msg.pid) \in STRING,
           Logged(dest, msg) # <<>>
    PROVE  IF dest.kind = "ostream" THEN Logged(dest, msg) = Payload(dest.format, msg)
           ELSE dest.format.text => Ends(Logged(dest, msg), FlattenSeq(msg.items))
<1>1. dest.kind \in {"ostream", "syslog", "sqlite"}
  BY DestinationsAssumption
<1>2. PICK iter \in Texts : iter = msg.iteration
  BY DEF ErrorObjs
<1> DEFINE format == dest.format
           printing == CASE dest.kind = "ostream" -> Payload(format, msg)
                         [] dest.kind = "syslog"  -> SyslogPayload(format, msg, iter)
                         [] dest.kind = "sqlite"  -> FlattenSeq(SqliteRow(format, msg, iter))
<1>3. Logged(dest, msg) = printing
  BY <1>2, Zenon DEF Logged
<1>4. CASE dest.kind = "ostream"
  BY <1>3, <1>4
<1>5. PICK columns \in Seq(Seq(Symbols)) : columns = Columns(msg, iter) /\ Len(columns) = 9
  BY ColumnsAre
<1>6. PICK last \in Seq(Symbols) : last = LastColumn(format, msg)
  BY LastColumnText
<1>7. CASE dest.kind = "syslog"
  <2> DEFINE T == Seq(Symbols)
             ss == [i \in DOMAIN columns |-> columns[i] \o <<"|">>]
  <2>1. DOMAIN columns = 1 .. 9 /\ 9 \in Nat
    BY <1>5
  <2>2. <<"|">> \in T
    BY Tuples DEF Symbols
  <2>3. \A i \in 1 .. 9 : columns[i] \o <<"|">> \in T
    <3>1. ASSUME NEW i \in 1 .. 9 PROVE columns[i] \in T
      BY <1>5, Pieces, Zenon
    <3> QED
      BY <2>2, <3>1, Joined, Zenon
  <2> HIDE DEF T
  <2>4. ss \in [1 .. 9 -> T]
    BY <2>1, <2>3
  <2> HIDE DEF ss
  <2>5. ss \in Seq(T)
    BY <2>1, <2>4, Pieces, Zenon
  <2>6. PICK x \in T : x = FlattenSeq(ss)
    BY <2>5, FlattenIs DEF T
  <2>7. SyslogPayload(format, msg, iter) = x \o LastColumn(format, msg)
    BY <1>5, <2>6, Zenon DEF SyslogPayload, ss
  <2>8. printing = SyslogPayload(format, msg, iter)
    BY <1>7
  <2>9. format.text => Ends(x \o LastColumn(format, msg), FlattenSeq(msg.items))
    BY <2>6, LastColumnReads DEF T
  <2> HIDE DEF printing
  <2> QED
    BY <1>3, <1>7, <2>7, <2>8, <2>9
<1>8. CASE dest.kind = "sqlite"
  <2>1. PICK x \in Seq(Symbols) : x = FlattenSeq(columns)
    BY FlattenIs
  <2>2. FlattenSeq(Append(columns, last)) = x \o last
    BY <2>1, FlattenMore
  <2>3. FlattenSeq(SqliteRow(format, msg, iter)) = x \o LastColumn(format, msg)
    BY <1>5, <1>6, <2>2, Zenon DEF SqliteRow
  <2>4. printing = FlattenSeq(SqliteRow(format, msg, iter))
    BY <1>8
  <2>5. format.text => Ends(x \o LastColumn(format, msg), FlattenSeq(msg.items))
    BY LastColumnReads
  <2> HIDE DEF printing
  <2> QED
    BY <1>3, <1>8, <2>3, <2>4, <2>5
<1> QED
  BY <1>1, <1>4, <1>7, <1>8

LEMMA ReleaseReads ==
    ASSUME NamesUnbroken, IInv, TextsRight,
           NEW t \in Threads, NEW n \in Loggers, Release(t, n)
    PROVE  TextReadsBack'
<1> USE DEF IInv
<1>1. PICK m \in Messages : m = logger[t][n]
  BY DEF Release
<1>2. PICK o \in ErrorObjs : o = object[m]
  BY WhatMessagesAre
<1>3. PICK s \in Sayings : s = said[m] /\ ObjectRight(o, s)
  BY <1>2 DEF ObjectsRight, ObjectRight
<1>4. TextRight(o, s, m) /\ m \in 1 .. MaxMsgs
  <2>1. m \in 1 .. Len(object) /\ Len(object) \in Nat /\ Len(object) <= MaxMsgs
    BY WhatMessagesAre DEF VarsType
  <2> QED
    BY <1>2, <1>3, <2>1, NumbersAssumption DEF TextsRight
<1>5. PICK names : names = [module |-> module[t], iteration |-> iteration[t]]
  OBVIOUS
<1>6. /\ names.module \in Modules \cup {Early} /\ names.iteration \in Iterations \cup {PreEvents}
      /\ names.module \in Texts /\ names.iteration \in Texts
  BY <1>5, ContextsAssumption DEF VarsType
<1>7. [o EXCEPT !.module = module[t], !.iteration = iteration[t]] = Signed(o, names)
  BY <1>5 DEF Signed
<1>8. o.pid = 0 /\ Decimal(0) \in STRING /\ Decimal(ProcessNames.pid) \in STRING
  BY <1>3, NumbersAssumption DEF ObjectRight
<1>9. \A msg \in {Signed(o, names), FillNames(Signed(o, names), ProcessNames)} :
        /\ msg \in ErrorObjs /\ HeaderIn(Unbroken, msg) /\ msg.filename \in Seq(Unbroken)
        /\ msg.verbatim = s.statement.verbatim
        /\ FlattenSeq(msg.items) = ExpectedText(s.insertions)
        /\ Decimal(msg.pid) \in STRING
  <2> SUFFICES ASSUME NEW msg \in {Signed(o, names), FillNames(Signed(o, names), ProcessNames)}
               PROVE  /\ msg \in ErrorObjs /\ HeaderIn(Unbroken, msg)
                      /\ msg.filename \in Seq(Unbroken)
                      /\ msg.verbatim = s.statement.verbatim
                      /\ FlattenSeq(msg.items) = ExpectedText(s.insertions)
                      /\ Decimal(msg.pid) \in STRING
    OBVIOUS
  <2>1. /\ msg \in ErrorObjs /\ SameHead(msg, o) /\ msg.items = o.items
        /\ msg.subroutine = o.subroutine
        /\ msg.module = names.module /\ msg.iteration = names.iteration
        /\ msg.pid \in {0, ProcessNames.pid}
    BY <1>6, <1>8, SignedIs
  <2>2. msg.module \in Modules \cup {Early} /\ msg.iteration \in Iterations \cup {PreEvents}
    BY <1>6, <2>1
  <2>3. HeaderIn(Unbroken, msg) /\ msg.filename \in Seq(Unbroken)
    BY <1>4, <2>1, <2>2, HeaderUnbroken
  <2>4. Decimal(msg.pid) \in STRING
    BY <1>8, <2>1
  <2>5. msg.verbatim = s.statement.verbatim /\ FlattenSeq(msg.items) = ExpectedText(s.insertions)
    BY <1>4, <2>1, Zenon DEF TextRight, SameHead
  <2> QED
    BY <2>1, <2>3, <2>4, <2>5
<1>10. CASE isStarted
  <2>1. PICK dest \in Destinations :
          Prints(t, m, dest, Logged(dest, FillNames(Signed(o, names), ProcessNames)))
    BY <1>1, <1>2, <1>7, <1>10, Zenon DEF Release
  <2>2. PICK msg \in ErrorObjs : msg = FillNames(Signed(o, names), ProcessNames)
    BY <1>9
  <2>3. PICK text : text = Logged(dest, msg)
    OBVIOUS
  <2>4. /\ printed'.to = dest /\ printed'.statement = s.statement /\ printed'.text = text
        /\ printed'.insertions = s.insertions
    BY <1>3, <2>1, <2>2, <2>3 DEF Prints
  <2>5. dest # Nothing
    BY DestinationsAssumption
  <2>6. ASSUME text # <<>>
        PROVE  IF dest.kind = "ostream" THEN text = Payload(dest.format, msg)
               ELSE dest.format.text => Ends(text, FlattenSeq(msg.items))
    BY <1>9, <2>2, <2>3, <2>6, LoggedReads
  <2>7. ASSUME dest.kind = "ostream", text # <<>>
        PROVE  Told(text, s.statement.verbatim,
                    When(dest.format.text, IF dest.format.noLineBreaks THEN <<" ==> ">> ELSE <<NL>>),
                    When(dest.format.text, ExpectedText(s.insertions)),
                    IF dest.format.noLineBreaks THEN <<NL>> ELSE <<NL, "%MSG", NL>>)
    <3>1. text = Payload(dest.format, msg)
      BY <2>6, <2>7
    <3>2. /\ HeaderIn(Unbroken, msg) /\ msg.filename \in Seq(Unbroken)
          /\ msg.verbatim = s.statement.verbatim
          /\ FlattenSeq(msg.items) = ExpectedText(s.insertions)
      BY <1>9, <2>2
    <3>3. Told(Payload(dest.format, msg), msg.verbatim,
                When(dest.format.text, IF dest.format.noLineBreaks THEN <<" ==> ">> ELSE <<NL>>),
                When(dest.format.text, FlattenSeq(msg.items)),
                IF dest.format.noLineBreaks THEN <<NL>> ELSE <<NL, "%MSG", NL>>)
      BY <3>2, PayloadReads
    <3> QED
      BY <3>1, <3>2, <3>3, Zenon
  <2>8. ASSUME dest.kind # "ostream", text # <<>>, dest.format.text
        PROVE  Ends(text, ExpectedText(s.insertions))
    BY <1>9, <2>2, <2>6, <2>8
  <2> DEFINE p == printed'
             early == p.to = Nothing
             oneLine == ~early /\ p.to.format.noLineBreaks
             wanted == early \/ p.to.format.text
             said1 == When(wanted, ExpectedText(p.insertions))
             sep == When(wanted, IF oneLine THEN <<" ==> ">> ELSE <<NL>>)
             end == IF oneLine THEN <<NL>> ELSE <<NL, "%MSG", NL>>
  <2>9. /\ said1 = When(dest.format.text, ExpectedText(s.insertions))
        /\ sep = When(dest.format.text, IF dest.format.noLineBreaks THEN <<" ==> ">> ELSE <<NL>>)
        /\ end = IF dest.format.noLineBreaks THEN <<NL>> ELSE <<NL, "%MSG", NL>>
    <3>1. /\ ~early /\ p.to.format = dest.format /\ p.insertions = s.insertions
          /\ oneLine <=> dest.format.noLineBreaks
          /\ wanted <=> dest.format.text
      BY <2>4, <2>5
    <3> HIDE DEF early, oneLine, wanted, p
    <3> QED
      BY <3>1, Zenon DEF When
  <2>10. ASSUME dest.kind = "ostream", text # <<>> PROVE Told(p.text, p.statement.verbatim, sep, said1, end)
    <3> HIDE DEF sep, said1, end, p
    <3> QED
      BY <2>4, <2>7, <2>9, <2>10, Zenon DEF p
  <2> HIDE DEF sep, said1, end, wanted, oneLine, early
  <2> DEFINE seps == IF oneLine THEN {<<NL>>, <<" ==> ">>} ELSE {<<NL>>}
             ends == IF oneLine THEN {Trailer, <<NL>>} ELSE {Trailer}
  <2>11. OnStream' => IF p.statement.verbatim THEN p.text = said1 \o <<NL>>
                      ELSE \E between \in seps, trailer \in ends :
                             p.text = Header(p.text) \o When(wanted, between) \o said1 \o trailer
    <3>1. OnStream' => dest.kind = "ostream" /\ text # <<>>
      BY <2>4, <2>5 DEF OnStream
    <3>2. OnStream' => p.text = IF p.statement.verbatim THEN said1 \o <<NL>>
                                ELSE Header(p.text) \o sep \o said1 \o end
      BY <2>10, <3>1, Zenon DEF Told
    <3>3. PICK between \in seps : sep = When(wanted, between)
      BY Zenon DEF sep
    <3>4. end \in ends
      BY Zenon DEF end, Trailer
    <3> HIDE DEF seps, ends
    <3> QED
      BY <3>2, <3>3, <3>4, Zenon
  <2>12. printed' # Nothing /\ printed'.text # <<>> /\ ~OnStream' /\ printed'.to.format.text =>
           Ends(printed'.text, ExpectedText(printed'.insertions))
    <3> SUFFICES ASSUME printed' # Nothing, printed'.text # <<>>, ~OnStream', printed'.to.format.text
                 PROVE  Ends(printed'.text, ExpectedText(printed'.insertions))
      OBVIOUS
    <3>1. dest.kind # "ostream" /\ text # <<>> /\ dest.format.text
      BY <2>4 DEF OnStream
    <3> QED
      BY <2>4, <2>8, <3>1
  <2> QED
    BY <2>11, <2>12, Zenon DEF TextReadsBack, Ends, said1, seps, ends, wanted, oneLine, early
<1>11. CASE ~isStarted
  <2>1. Prints(t, m, Nothing, EarlyText(Signed(o, names)))
    BY <1>1, <1>2, <1>7, <1>11, Zenon DEF Release
  <2>2. PICK msg \in ErrorObjs : msg = Signed(o, names)
    BY <1>9
  <2>3. PICK text : text = EarlyText(msg)
    OBVIOUS
  <2>4. /\ printed'.to = Nothing /\ printed'.statement = s.statement /\ printed'.text = text
        /\ printed'.insertions = s.insertions
    BY <1>3, <2>1, <2>2, <2>3 DEF Prints
  <2>5. Told(text, s.statement.verbatim, <<NL>>, ExpectedText(s.insertions), <<NL, "%MSG", NL>>)
    <3>1. /\ HeaderIn(Unbroken, msg) /\ msg.verbatim = s.statement.verbatim
          /\ FlattenSeq(msg.items) = ExpectedText(s.insertions)
      BY <1>9, <2>2
    <3>2. Told(EarlyText(msg), msg.verbatim, <<NL>>, FlattenSeq(msg.items), <<NL, "%MSG", NL>>)
      BY <3>1, EarlyReads
    <3> QED
      BY <2>3, <3>1, <3>2, Zenon
  <2> QED
    BY <2>4, <2>5, Zenon DEF TextReadsBack, OnStream, Told, When, Trailer
<1> QED
  BY <1>10, <1>11

\* Whatever is inserted and whatever the format, a text is the header, what the user
\* said, in order and in the base set last, and the trailer (ErrorObj::operator<<,
\* fillPrefix, fillUsrMsg, fillSuffix, LogErrorObj), as long as no category, file,
\* module, iteration or subroutine has a line break, or " ==> ", in its name.
THEOREM TextsReadBack == ASSUME NamesUnbroken PROVE Spec => []TextReadsBack
<1>1. Init => TextReadsBack
  BY DEF Init, TextReadsBack, OnStream
<1>2. TextReadsBack /\ TextsRight /\ IInv /\ [Next]_vars => TextReadsBack'
  <2> SUFFICES ASSUME TextReadsBack, TextsRight, IInv, [Next]_vars PROVE TextReadsBack'
    OBVIOUS
  <2>1. ASSUME printed' = Nothing PROVE TextReadsBack'
    BY <2>1 DEF TextReadsBack, OnStream
  <2>2. CASE UNCHANGED vars
    BY <2>2 DEF vars, TextReadsBack, OnStream
  <2>3. ASSUME NEW t \in Threads, NEW n \in Loggers,
               \/ \E st \in Statements : Construct(t, n, st)
               \/ \E insertion \in Insertions : Insert(t, n, insertion)
               \/ \E u \in Threads, k \in Loggers : Move(t, n, u, k)
               \/ DestroyEmpty(t, n)
        PROVE  TextReadsBack'
    BY <2>1, <2>3, Zenon DEF Construct, Insert, Move, DestroyEmpty
  <2>4. ASSUME NEW t \in Threads, SetContext(t) PROVE TextReadsBack'
    BY <2>1, <2>4, Zenon DEF SetContext
  <2>5. CASE StartOrEnd
    BY <2>1, <2>5, Zenon DEF StartOrEnd
  <2>6. ASSUME NEW t \in Threads, NEW n \in Loggers, Release(t, n) PROVE TextReadsBack'
    BY <2>6, ReleaseReads
  <2> QED
    BY <2>2, <2>3, <2>4, <2>5, <2>6, Zenon DEF Next
<1>3. TextsRight /\ IInv /\ [Next]_vars => TextsRight'
  BY TextsStep
<1> QED
  BY <1>1, <1>2, <1>3, TextsFirst, Invariant, PTL DEF Spec

--------------------------------------------------------------------------------
(***************************************************************************)
(* The words of a text.  Words replaces every symbol of a text by none or  *)
(* one, a header every token by its words: what such replacements do to    *)
(* texts that are put together.                                            *)
(***************************************************************************)
LEMMA SplitLast ==
    ASSUME NEW X, NEW n \in Nat, NEW s \in Seq(X), Len(s) = n + 1
    PROVE  \E r \in Seq(X), x \in X : s = Append(r, x) /\ Len(r) = n
<1>1. PICK r \in Seq(X) : Len(r) = n /\ \A i \in 1 .. n : r[i] = s[i]
  <2>1. SubSeq(s, 1, n) \in Seq(X) /\ Len(SubSeq(s, 1, n)) = n
    OBVIOUS
  <2>2. \A i \in 1 .. n : SubSeq(s, 1, n)[i] = s[i]
    OBVIOUS
  <2> QED
    BY <2>1, <2>2
<1>2. PICK x \in X : x = s[n + 1]
  OBVIOUS
<1>3. PICK t \in Seq(X) : t = Append(r, x)
  BY Appended
<1>4. Len(t) = n + 1 /\ t[n + 1] = x /\ \A i \in 1 .. n : t[i] = r[i]
  BY <1>1, <1>3, Appended
<1>5. \A i \in 1 .. n + 1 : t[i] = s[i]
  BY <1>1, <1>2, <1>4
<1>6. t = [i \in 1 .. n + 1 |-> t[i]] /\ s = [i \in 1 .. n + 1 |-> s[i]]
  BY <1>4
<1>7. s = t
  BY <1>5, <1>6
<1> QED
  BY <1>1, <1>3, <1>7

LEMMA SameSeq ==
    ASSUME NEW A, NEW s \in Seq(A), NEW t \in Seq(A), NEW n \in Nat, Len(s) = n, Len(t) = n,
           \A i \in 1 .. n : s[i] = t[i]
    PROVE  s = t
<1>1. s = [i \in 1 .. n |-> s[i]] /\ t = [i \in 1 .. n |-> t[i]]
  OBVIOUS
<1> QED
  BY <1>1

LEMMA NoPieces == FlattenSeq(<<>>) = <<>>
BY DEF FlattenSeq

LEMMA AppendIs == ASSUME NEW X, NEW r \in Seq(X), NEW x \in X
                  PROVE  Append(r, x) = r \o <<x>> /\ <<x>> \in Seq(X)
OBVIOUS

\* Every member of a sequence is replaced by a sequence.
Maps(f, X, Y) == f \in [X -> Seq(Y)]
Mapped(f, s) == FlattenSeq([i \in DOMAIN s |-> f[s[i]]])

LEMMA MappedMore ==
    ASSUME NEW X, NEW Y, NEW f, Maps(f, X, Y), NEW s \in Seq(X), NEW x \in X
    PROVE  /\ Mapped(f, <<>>) = <<>>
           /\ Mapped(f, s) \in Seq(Y)
           /\ Mapped(f, Append(s, x)) = Mapped(f, s) \o f[x]
<1>1. PICK u \in Seq(X) : /\ u = Append(s, x) /\ Len(u) = Len(s) + 1 /\ u[Len(s) + 1] = x
                          /\ \A i \in 1 .. Len(s) : u[i] = s[i]
  <2>1. /\ Append(s, x) \in Seq(X) /\ Len(Append(s, x)) = Len(s) + 1
        /\ Append(s, x)[Len(s) + 1] = x /\ \A i \in 1 .. Len(s) : Append(s, x)[i] = s[i]
    BY Appended
  <2> QED
    BY <2>1
<1>2. PICK n \in Nat : n = Len(s)
  OBVIOUS
<1> DEFINE p == [i \in DOMAIN s |-> f[s[i]]]
           q == [i \in DOMAIN u |-> f[u[i]]]
<1>3. p \in Seq(Seq(Y)) /\ Len(p) = n /\ \A i \in 1 .. n : p[i] = f[s[i]]
  <2>1. DOMAIN s = 1 .. n /\ \A i \in 1 .. n : f[s[i]] \in Seq(Y)
    BY <1>2 DEF Maps
  <2>2. p \in [1 .. n -> Seq(Y)]
    BY <2>1
  <2>3. \A i \in 1 .. n : p[i] = f[s[i]]
    BY <2>1
  <2> HIDE DEF p
  <2> QED
    BY <2>2, <2>3, Pieces, Zenon
<1>4. q \in Seq(Seq(Y)) /\ Len(q) = n + 1 /\ \A i \in 1 .. n + 1 : q[i] = f[u[i]]
  <2>1. DOMAIN u = 1 .. n + 1 /\ n + 1 \in Nat /\ \A i \in 1 .. n + 1 : f[u[i]] \in Seq(Y)
    BY <1>1, <1>2 DEF Maps
  <2>2. q \in [1 .. n + 1 -> Seq(Y)]
    BY <2>1
  <2>3. \A i \in 1 .. n + 1 : q[i] = f[u[i]]
    BY <2>1
  <2> HIDE DEF q
  <2> QED
    BY <2>1, <2>2, <2>3, Pieces, Zenon
<1>5. PICK fx \in Seq(Y) : fx = f[x]
  BY DEF Maps
<1> HIDE DEF p, q
<1>6. q = Append(p, fx)
  <2>1. PICK z \in Seq(Seq(Y)) : /\ z = Append(p, fx) /\ Len(z) = Len(p) + 1 /\ z[Len(p) + 1] = fx
                                 /\ \A i \in 1 .. Len(p) : z[i] = p[i]
    <3>1. /\ Append(p, fx) \in Seq(Seq(Y)) /\ Len(Append(p, fx)) = Len(p) + 1
          /\ Append(p, fx)[Len(p) + 1] = fx /\ \A i \in 1 .. Len(p) : Append(p, fx)[i] = p[i]
      BY <1>3, Appended
    <3> QED
      BY <3>1
  <2>2. \A i \in 1 .. n + 1 : z[i] = q[i]
    <3>1. ASSUME NEW i \in 1 .. n PROVE z[i] = q[i]
      <4>1. i \in 1 .. n + 1 /\ z[i] = p[i]
        BY <1>3, <2>1
      <4>2. p[i] = f[s[i]]
        BY <1>3
      <4>3. q[i] = f[u[i]]
        BY <1>4, <4>1
      <4>4. u[i] = s[i]
        BY <1>1, <1>2
      <4> QED
        BY <4>1, <4>2, <4>3, <4>4, Zenon
    <3>2. z[n + 1] = q[n + 1]
      <4>1. z[n + 1] = fx /\ n + 1 \in 1 .. n + 1
        BY <1>3, <2>1
      <4>2. q[n + 1] = f[u[n + 1]]
        BY <1>4, <4>1
      <4>3. u[n + 1] = x
        BY <1>1, <1>2
      <4> QED
        BY <1>5, <4>1, <4>2, <4>3, Zenon
    <3> QED
      BY <3>1, <3>2
  <2>3. Len(z) = n + 1
    BY <1>3, <2>1
  <2>4. n + 1 \in Nat
    OBVIOUS
  <2>5. z = q
    BY <1>4, <2>2, <2>3, <2>4, SameSeq, Zenon
  <2> QED
    BY <2>1, <2>5
<1>7. FlattenSeq(q) = FlattenSeq(p) \o fx /\ FlattenSeq(p) \in Seq(Y)
  BY <1>3, <1>6, FlattenMore, FlattenIs
<1>8. Mapped(f, <<>>) = <<>>
  <2>1. [i \in DOMAIN <<>> |-> f[<<>>[i]]] = <<>>
    OBVIOUS
  <2> QED
    BY <2>1, NoPieces, Zenon DEF Mapped
<1> QED
  BY <1>1, <1>5, <1>7, <1>8, Zenon DEF Mapped, p, q

LEMMA MappedJoin ==
    ASSUME NEW X, NEW Y, NEW f, Maps(f, X, Y), NEW a \in Seq(X)
    PROVE  \A b \in Seq(X) : Mapped(f, a \o b) = Mapped(f, a) \o Mapped(f, b)
<1> DEFINE Q == {n \in Nat : \A b \in Seq(X) :
                   Len(b) = n => Mapped(f, a \o b) = Mapped(f, a) \o Mapped(f, b)}
<1>0. \A s \in Seq(X) : Mapped(f, s) \in Seq(Y)
  <2> TAKE s \in Seq(X)
  <2>1. CASE X = {}
    <3>1. s = <<>>
      BY <2>1
    <3>2. [i \in DOMAIN s |-> f[s[i]]] = <<>>
      BY <3>1
    <3>3. Mapped(f, s) = <<>>
      BY <3>2, NoPieces, Zenon DEF Mapped
    <3> QED
      BY <3>3
  <2>2. CASE X # {}
    BY <2>2, MappedMore
  <2> QED
    BY <2>1, <2>2
<1> HIDE DEF Q
<1>1. 0 \in Q
  <2> USE DEF Q
  <2> SUFFICES ASSUME NEW b \in Seq(X), Len(b) = 0
               PROVE  Mapped(f, a \o b) = Mapped(f, a) \o Mapped(f, b)
    OBVIOUS
  <2>1. b = <<>>
    OBVIOUS
  <2>2. [i \in DOMAIN b |-> f[b[i]]] = <<>>
    BY <2>1
  <2>3. Mapped(f, b) = <<>>
    BY <2>2, NoPieces, Zenon DEF Mapped
  <2>4. a \o b = a
    BY <2>1, Regrouped
  <2>5. PICK m \in Seq(Y) : m = Mapped(f, a)
    BY <1>0
  <2> QED
    BY <2>3, <2>4, <2>5, Regrouped
<1>2. ASSUME NEW n \in Nat, n \in Q PROVE n + 1 \in Q
  <2> SUFFICES ASSUME NEW b \in Seq(X), Len(b) = n + 1
               PROVE  Mapped(f, a \o b) = Mapped(f, a) \o Mapped(f, b)
    BY DEF Q
  <2>1. PICK r \in Seq(X), x \in X : b = Append(r, x) /\ Len(r) = n
    BY SplitLast
  <2>2. PICK ar \in Seq(X) : ar = a \o r
    BY Joined
  <2>3. a \o b = Append(ar, x)
    <3>1. b = r \o <<x>> /\ Append(ar, x) = ar \o <<x>> /\ <<x>> \in Seq(X)
      BY <2>1, AppendIs
    <3>2. PICK one \in Seq(X) : one = <<x>>
      BY <3>1
    <3>3. ar \o one = a \o b
      BY <2>2, <3>1, <3>2, Associates
    <3> QED
      BY <3>1, <3>2, <3>3
  <2>4. Mapped(f, ar) = Mapped(f, a) \o Mapped(f, r)
    BY <1>2, <2>1, <2>2 DEF Q
  <2>5. PICK ma \in Seq(Y), mr \in Seq(Y), fx \in Seq(Y) :
          ma = Mapped(f, a) /\ mr = Mapped(f, r) /\ fx = f[x]
    BY <1>0 DEF Maps
  <2>6. Mapped(f, Append(ar, x)) = Mapped(f, ar) \o fx /\ Mapped(f, b) = mr \o fx
    <3>1. Mapped(f, Append(ar, x)) = Mapped(f, ar) \o f[x]
      BY MappedMore
    <3>2. Mapped(f, Append(r, x)) = Mapped(f, r) \o f[x]
      BY MappedMore
    <3> QED
      BY <2>1, <2>5, <3>1, <3>2
  <2>7. PICK mar \in Seq(Y), mb \in Seq(Y) : mar = ma \o mr /\ mb = mr \o fx
    BY Joined
  <2>8. mar \o fx = ma \o mb
    BY ONLY <2>7, Associates, ma \in Seq(Y), mr \in Seq(Y), fx \in Seq(Y)
  <2> QED
    BY <2>3, <2>4, <2>5, <2>6, <2>7, <2>8
<1>3. \A n \in Nat : n \in Q
  BY <1>1, <1>2, NumberInduction
<1> QED
  <2> TAKE b \in Seq(X)
  <2>1. Len(b) \in Q
    BY <1>3
  <2> QED
    BY <2>1 DEF Q


\* The word a symbol is.
Word == [x \in Symbols |-> IF x = SP THEN <<>> ELSE <<x>>]

LEMMA WordMaps == Maps(Word, Symbols, Symbols)
<1>1. \A x \in Symbols : (IF x = SP THEN <<>> ELSE <<x>>) \in Seq(Symbols)
  OBVIOUS
<1> QED
  BY <1>1 DEF Maps, Word

LEMMA WordsIs == ASSUME NEW s \in Seq(Symbols) PROVE Words(s) = Mapped(Word, s)
<1>1. [i \in DOMAIN s |-> IF s[i] = SP THEN <<>> ELSE <<s[i]>>] = [i \in DOMAIN s |-> Word[s[i]]]
  <2>1. \A i \in DOMAIN s : Word[s[i]] = IF s[i] = SP THEN <<>> ELSE <<s[i]>>
    <3>1. \A i \in DOMAIN s : s[i] \in Symbols
      OBVIOUS
    <3> QED
      BY <3>1, Zenon DEF Word
  <2> QED
    BY <2>1, Zenon
<1> QED
  BY <1>1, Zenon DEF Words, Mapped

LEMMA WordsJoin ==
    ASSUME NEW a \in Seq(Symbols)
    PROVE  /\ Words(a) \in Seq(Symbols)
           /\ Words(<<>>) = <<>>
           /\ \A x \in Symbols : /\ Words(Append(a, x)) = Words(a) \o Word[x]
                                 /\ Word[x] \in Seq(Symbols) /\ Append(a, x) \in Seq(Symbols)
           /\ \A b \in Seq(Symbols) : Words(a \o b) = Words(a) \o Words(b)
<1>1. SP \in Symbols
  BY Zenon DEF Symbols
<1>2. Mapped(Word, a) \in Seq(Symbols) /\ Mapped(Word, <<>>) = <<>>
  BY <1>1, WordMaps, MappedMore
<1>3. \A x \in Symbols : Mapped(Word, Append(a, x)) = Mapped(Word, a) \o Word[x]
  BY WordMaps, MappedMore
<1>4. \A b \in Seq(Symbols) : Mapped(Word, a \o b) = Mapped(Word, a) \o Mapped(Word, b)
  BY WordMaps, MappedJoin
<1>5. Words(<<>>) = Mapped(Word, <<>>)
  <2>1. <<>> \in Seq(Symbols)
    BY Tuples, <1>1
  <2> QED
    BY <2>1, WordsIs
<1>6. \A x \in Symbols : Append(a, x) \in Seq(Symbols) /\ Words(Append(a, x)) = Mapped(Word, Append(a, x))
  BY WordsIs, Appended
<1>7. \A b \in Seq(Symbols) : Words(b) = Mapped(Word, b) /\ Words(a \o b) = Mapped(Word, a \o b)
  BY WordsIs, Joined
<1>8. \A x \in Symbols : Word[x] \in Seq(Symbols)
  BY WordMaps DEF Maps
<1>9. Words(a) = Mapped(Word, a)
  BY WordsIs
<1> QED
  BY <1>2, <1>3, <1>4, <1>5, <1>6, <1>7, <1>8, <1>9, Zenon

LEMMA WordsOne == ASSUME NEW x \in Symbols PROVE Words(<<x>>) = IF x = SP THEN <<>> ELSE <<x>>
<1>1. PICK e \in Seq(Symbols) : e = <<>>
  BY Tuples
<1>2. Append(e, x) = <<x>> /\ Words(Append(e, x)) = Words(e) \o Word[x] /\ Words(e) = <<>>
  <2>1. Words(Append(e, x)) = Words(e) \o Word[x]
    BY WordsJoin
  <2>2. Words(e) = <<>>
    BY <1>1, WordsJoin
  <2>3. Append(e, x) = <<x>>
    BY <1>1
  <2> QED
    BY <2>1, <2>2, <2>3
<1>3. <<>> \o Word[x] = Word[x]
  BY WordsJoin, Regrouped, <1>1
<1>4. Word[x] = IF x = SP THEN <<>> ELSE <<x>>
  BY Zenon DEF Word
<1> QED
  BY <1>2, <1>3, <1>4

\* A text without spaces is its words, a text of spaces has none.
LEMMA WordsOnly ==
    ASSUME NEW A \in SUBSET Symbols, SP \notin A
    PROVE  \A s \in Seq(A) : Words(s) = s
<1> DEFINE Q == {n \in Nat : \A s \in Seq(A) : Len(s) = n => Words(s) = s}
<1>1. 0 \in Q
  <2> SUFFICES ASSUME NEW s \in Seq(A), Len(s) = 0 PROVE Words(s) = s
    OBVIOUS
  <2>1. s = <<>>
    OBVIOUS
  <2>2. <<>> \in Seq(Symbols)
    OBVIOUS
  <2> QED
    BY <2>1, <2>2, WordsJoin
<1> HIDE DEF Q
<1>2. ASSUME NEW n \in Nat, n \in Q PROVE n + 1 \in Q
  <2> SUFFICES ASSUME NEW s \in Seq(A), Len(s) = n + 1 PROVE Words(s) = s
    BY DEF Q
  <2>1. PICK r \in Seq(A), x \in A : s = Append(r, x) /\ Len(r) = n
    BY SplitLast
  <2>2. Words(r) = r
    BY <1>2, <2>1 DEF Q
  <2>3. PICK q \in Seq(Symbols) : q = r
    BY Wider
  <2>4. x \in Symbols /\ x # SP
    OBVIOUS
  <2>5. Words(Append(q, x)) = Words(q) \o Word[x]
    BY <2>4, WordsJoin
  <2>6. Word[x] = <<x>>
    BY <2>4, Zenon DEF Word
  <2>7. Append(q, x) = q \o <<x>>
    BY <2>4, AppendIs
  <2> QED
    BY <2>1, <2>2, <2>3, <2>5, <2>6, <2>7
<1>3. \A n \in Nat : n \in Q
  BY <1>1, <1>2, NumberInduction
<1> QED
  <2> TAKE s \in Seq(A)
  <2>1. Len(s) \in Q
    BY <1>3
  <2> QED
    BY <2>1 DEF Q

LEMMA WordsBlank == \A s \in Seq({SP}) : Words(s) = <<>>
<1> DEFINE Q == {n \in Nat : \A s \in Seq({SP}) : Len(s) = n => Words(s) = <<>>}
<1>0. SP \in Symbols
  BY Zenon DEF Symbols
<1>1. 0 \in Q
  <2> SUFFICES ASSUME NEW s \in Seq({SP}), Len(s) = 0 PROVE Words(s) = <<>>
    OBVIOUS
  <2>1. s = <<>>
    OBVIOUS
  <2>2. <<>> \in Seq(Symbols)
    OBVIOUS
  <2> QED
    BY <2>1, <2>2, WordsJoin
<1> HIDE DEF Q
<1>2. ASSUME NEW n \in Nat, n \in Q PROVE n + 1 \in Q
  <2> SUFFICES ASSUME NEW s \in Seq({SP}), Len(s) = n + 1 PROVE Words(s) = <<>>
    BY DEF Q
  <2>1. PICK r \in Seq({SP}), x \in {SP} : s = Append(r, x) /\ Len(r) = n
    BY SplitLast
  <2>2. Words(r) = <<>>
    BY <1>2, <2>1 DEF Q
  <2>3. PICK q \in Seq(Symbols) : q = r
    <3>1. {SP} \subseteq Symbols
      BY <1>0
    <3>2. r \in Seq(Symbols)
      BY <3>1, Wider
    <3> QED
      BY <3>2
  <2>4. Words(Append(q, SP)) = Words(q) \o Word[SP]
    BY <1>0, WordsJoin
  <2>5. Word[SP] = <<>>
    BY <1>0, Zenon DEF Word
  <2>6. <<>> \o <<>> = <<>>
    OBVIOUS
  <2> QED
    BY <2>1, <2>2, <2>3, <2>4, <2>5, <2>6
<1>3. \A n \in Nat : n \in Q
  BY <1>1, <1>2, NumberInduction
<1> QED
  <2> TAKE s \in Seq({SP})
  <2>1. Len(s) \in Q
    BY <1>3
  <2> QED
    BY <2>1 DEF Q

\* What of a token a reader gets to see, as words.
Seen == [s \in Seq(Symbols) |-> IF s = <<>> THEN <<>> ELSE Words(Body(s))]

LEMMA SeenMaps ==
    /\ Maps(Seen, Seq(Symbols), Symbols)
    /\ Seen[<<NL>>] = <<>> /\ <<NL>> \in Seq(Symbols)
    /\ \A s \in Seq(Unbroken) : s \in Seq(Symbols) /\ Seen[s] = Words(s)
<1>1. ASSUME NEW s \in Seq(Symbols) PROVE (IF s = <<>> THEN <<>> ELSE Words(Body(s))) \in Seq(Symbols)
  <2>1. PICK b \in Seq(Symbols) : b = Body(s)
    BY BodyIs
  <2>2. Words(b) \in Seq(Symbols) /\ <<>> \in Seq(Symbols)
    BY WordsJoin, Tuples
  <2> QED
    BY <2>1, <2>2
<1>2. Maps(Seen, Seq(Symbols), Symbols)
  BY <1>1, Zenon DEF Maps, Seen
<1>3. Seen[<<NL>>] = <<>> /\ <<NL>> \in Seq(Symbols)
  <2>1. <<NL>> \in Seq(Symbols)
    BY SymbolsToo
  <2>2. Body(<<NL>>) = <<>>
    BY DEF Body
  <2>3. Words(<<>>) = <<>>
    BY <2>1, WordsJoin
  <2> QED
    BY <2>1, <2>2, <2>3, Zenon DEF Seen
<1>4. ASSUME NEW s \in Seq(Unbroken) PROVE s \in Seq(Symbols) /\ Seen[s] = Words(s)
  <2>1. Unbroken \subseteq Symbols /\ NL \notin Unbroken
    BY Zenon DEF Unbroken, Breaks
  <2>2. s \in Seq(Symbols)
    BY <2>1, Wider
  <2>3. Body(s) = s
    <3>1. s # <<>> => s[1] \in Unbroken
      OBVIOUS
    <3> QED
      BY <2>1, <3>1, Zenon DEF Body
  <2>4. Words(<<>>) = <<>>
    BY <2>2, WordsJoin
  <2> QED
    BY <2>2, <2>3, <2>4, Zenon DEF Seen
<1> QED
  BY <1>2, <1>3, <1>4

--------------------------------------------------------------------------------
(***************************************************************************)
(* The words of a header are those of its tokens, one after the other,     *)
(* whatever line emitToken begins for them.                                *)
(***************************************************************************)
\* A token is seen in full, between spaces.
LEMMA EmitSeen ==
    ASSUME NEW lineLength, NEW line, line.text \in Seq(Symbols), NEW s \in Seq(Symbols)
    PROVE  LET after == EmitToken(lineLength, line, s, FALSE, TRUE).text
           IN  after \in Seq(Symbols) /\ Words(after) = Words(line.text) \o Seen[s]
<1> DEFINE after == EmitToken(lineLength, line, s, FALSE, TRUE).text
<1>1. Writes(line.text, s, after)
  BY EmitTokenWrites
<1> HIDE DEF after
<1>2. PICK before \in Seq(Symbols) : before = line.text
  OBVIOUS
<1>3. PICK lead \in Seq({SP}), indent \in Seq({SP}) :
        after = IF s = <<>> THEN before ELSE before \o lead \o Body(s) \o indent \o <<>>
  BY <1>1, <1>2 DEF Writes
<1>4. PICK b \in Seq(Symbols) : b = Body(s)
  BY BodyIs
<1>5. PICK l \in Seq(Symbols), i \in Seq(Symbols) : l = lead /\ i = indent
  <2>1. {SP} \subseteq Symbols
    BY Zenon DEF Symbols
  <2>2. lead \in Seq(Symbols) /\ indent \in Seq(Symbols)
    BY <2>1, Wider
  <2> QED
    BY <2>2
<1>6. Words(l) = <<>> /\ Words(i) = <<>>
  BY <1>5, WordsBlank
<1>7. CASE s = <<>>
  <2>1. Seen[s] = <<>>
    BY <1>7, Zenon DEF Seen
  <2>2. Words(before) \o <<>> = Words(before)
    BY WordsJoin, Regrouped
  <2> QED
    BY <1>2, <1>3, <1>7, <2>1, <2>2 DEF after
<1>8. CASE s # <<>>
  <2>1. PICK p \in Seq(Symbols) : p = before \o l
    BY Joined
  <2>2. PICK q \in Seq(Symbols) : q = p \o b
    BY Joined
  <2>3. PICK r \in Seq(Symbols) : r = q \o i
    BY Joined
  <2>4. after = r
    <3>1. after = r \o <<>>
      BY <1>3, <1>4, <1>5, <1>8, <2>1, <2>2, <2>3
    <3>2. r \o <<>> = r
      BY Regrouped
    <3> QED
      BY <3>1, <3>2
  <2>5. Words(p) = Words(before) \o Words(l)
    BY <2>1, WordsJoin
  <2>6. Words(q) = Words(p) \o Words(b)
    BY <2>2, WordsJoin
  <2>7. Words(r) = Words(q) \o Words(i)
    BY <2>3, WordsJoin
  <2>8. Words(before) \o <<>> = Words(before) /\ Words(q) \o <<>> = Words(q)
    BY WordsJoin, Regrouped
  <2>9. Words(b) = Seen[s]
    BY <1>4, <1>8, Zenon DEF Seen
  <2> QED
    BY <1>2, <1>6, <2>4, <2>5, <2>6, <2>7, <2>8, <2>9 DEF after
<1> QED
  BY <1>7, <1>8 DEF after

LEMMA FillPrefixSeen ==
    ASSUME NEW format, NEW msg, HeaderIn(Unbroken, msg), ~msg.verbatim
    PROVE  /\ PrefixTokens(format, msg) \in Seq(Seq(Symbols))
           /\ Words(FillPrefix(format, msg)) = Mapped(Seen, PrefixTokens(format, msg))
<1> DEFINE T == Seq(Symbols)
           Emit(line, s) == EmitToken(format.lineLength, line, s, FALSE, TRUE)
<1>1. PICK tokens \in Seq(T) : tokens = PrefixTokens(format, msg)
  <2>1. PrefixTokens(format, msg) \in Seq(Seq(Unbroken) \cup {<<NL>>})
    BY PrefixTokensAre
  <2>2. Seq(Unbroken) \cup {<<NL>>} \subseteq T
    BY SeenMaps
  <2>3. PrefixTokens(format, msg) \in Seq(T)
    BY <2>1, <2>2, Wider
  <2> QED
    BY <2>3
<1>2. Len(tokens) \in Nat
  OBVIOUS
<1>3. PICK f : /\ f[0] = NewLine
               /\ \A i \in 1 .. Len(tokens) : f[i] = Emit(f[i - 1], tokens[i])
               /\ FillPrefix(format, msg) = f[Len(tokens)].text
  BY <1>1, <1>2, FillPrefixIs
<1> DEFINE first(n) == SubSeq(tokens, 1, n)
           Q == {n \in Nat : n <= Len(tokens) =>
                   f[n].text \in T /\ Words(f[n].text) = Mapped(Seen, first(n))}
<1> HIDE DEF Q, T, Emit
<1>4. 0 \in Q
  <2>1. NewLine.text = <<>> /\ <<>> \in T
    BY DEF NewLine, T
  <2>2. first(0) = <<>>
    OBVIOUS
  <2>3. Words(<<>>) = <<>> /\ Mapped(Seen, <<>>) = <<>>
    BY <2>1, WordsJoin, MappedMore, SeenMaps DEF T
  <2> QED
    BY <1>3, <2>1, <2>2, <2>3 DEF Q
<1>5. ASSUME NEW n \in Nat, n \in Q PROVE n + 1 \in Q
  <2> SUFFICES ASSUME n + 1 <= Len(tokens)
               PROVE  f[n + 1].text \in T /\ Words(f[n + 1].text) = Mapped(Seen, first(n + 1))
    BY DEF Q
  <2>1. n + 1 \in 1 .. Len(tokens) /\ n <= Len(tokens) /\ (n + 1) - 1 = n
    BY <1>2
  <2>2. PICK s \in T : s = tokens[n + 1]
    BY <2>1
  <2>3. PICK line : line = f[n]
    OBVIOUS
  <2>4. line.text \in T /\ Words(line.text) = Mapped(Seen, first(n))
    BY <1>5, <2>1, <2>3 DEF Q
  <2>5. f[n + 1] = Emit(line, s)
    BY <1>3, <2>1, <2>2, <2>3
  <2>6. Emit(line, s).text \in T /\ Words(Emit(line, s).text) = Words(line.text) \o Seen[s]
    BY <2>4, EmitSeen DEF T, Emit
  <2>7. PICK r \in Seq(T) : r = first(n)
    <3>1. SubSeq(tokens, 1, n) \in Seq(T)
      BY <2>1
    <3> QED
      BY <3>1
  <2>8. first(n + 1) = Append(r, s)
    <3>1. PICK u \in Seq(T) : u = SubSeq(tokens, 1, n + 1) /\ Len(u) = n + 1
                              /\ \A i \in 1 .. n + 1 : u[i] = tokens[i]
      <4>1. SubSeq(tokens, 1, n + 1) \in Seq(T) /\ Len(SubSeq(tokens, 1, n + 1)) = n + 1
        BY <2>1
      <4>2. \A i \in 1 .. n + 1 : SubSeq(tokens, 1, n + 1)[i] = tokens[i]
        BY <2>1
      <4> QED
        BY <4>1, <4>2
    <3>2. Len(r) = n /\ \A i \in 1 .. n : r[i] = tokens[i]
      BY <2>1, <2>7
    <3>3. PICK v \in Seq(T) : v = Append(r, s) /\ Len(v) = n + 1 /\ v[n + 1] = s
                              /\ \A i \in 1 .. n : v[i] = r[i]
      <4>1. /\ Append(r, s) \in Seq(T) /\ Len(Append(r, s)) = n + 1 /\ Append(r, s)[n + 1] = s
            /\ \A i \in 1 .. n : Append(r, s)[i] = r[i]
        BY <3>2, Appended
      <4> QED
        BY <4>1
    <3>4. \A i \in 1 .. n + 1 : u[i] = v[i]
      BY <2>2, <3>1, <3>2, <3>3
    <3>5. n + 1 \in Nat
      OBVIOUS
    <3>6. u = v
      BY <3>1, <3>3, <3>4, <3>5, SameSeq, Zenon
    <3> QED
      BY <3>1, <3>3, <3>6
  <2>9. Mapped(Seen, Append(r, s)) = Mapped(Seen, r) \o Seen[s]
    BY SeenMaps, MappedMore DEF T
  <2> QED
    BY <2>4, <2>5, <2>6, <2>7, <2>8, <2>9
<1>6. Len(tokens) \in Q
  BY <1>2, <1>4, <1>5, NumberInduction
<1>7. first(Len(tokens)) = tokens
  OBVIOUS
<1>8. Words(f[Len(tokens)].text) = Mapped(Seen, first(Len(tokens)))
  BY <1>2, <1>6 DEF Q
<1> HIDE DEF first
<1> QED
  BY <1>1, <1>3, <1>7, <1>8 DEF T

--------------------------------------------------------------------------------
(***************************************************************************)
(* The words of the tokens: name, serial number, fields.                   *)
(***************************************************************************)
\* Symbols that neither break a line nor a word.
Bare == Unbroken \ {SP}

LEMMA BareIs ==
    /\ Bare \subseteq Symbols /\ Bare \subseteq Unbroken /\ SP \notin Bare
    /\ \A s \in Seq(Bare) : s \in Seq(Symbols) /\ s \in Seq(Unbroken) /\ Words(s) = s
<1>1. Bare \subseteq Symbols /\ Bare \subseteq Unbroken /\ SP \notin Bare
  BY Zenon DEF Bare, Unbroken
<1> QED
  BY <1>1, Wider, WordsOnly

\* The tokens of a header, without the spaces between them.
SeenName(msg) == <<"%MSG", Symbol(msg.severity)>> \o msg.id \o msg.idOverflow \o <<":">>
SeenSerial(format, msg) == When(format.serial, <<"[serial #", msg.serial, "]">>)
SeenModule(format, msg) == When(format.module, msg.module)
SeenSubroutine(format, msg) ==
    When(format.subroutine /\ msg.subroutine # <<>>, Words(msg.subroutine) \o <<"()">>)
SeenTime(format) == When(format.timestamp, <<"time">>)
SeenContext(format, msg) == When(format.context, msg.iteration)
SeenFields(format, msg) ==
    SeenModule(format, msg) \o SeenSubroutine(format, msg) \o SeenTime(format)
      \o SeenContext(format, msg)

\* What a message's header is made of.
Worded(msg) ==
    /\ {SP} \cup Bare \subseteq Symbols
    /\ {"%MSG", ":", "[serial #", "]", "()", "time", msg.serial, Symbol(msg.severity)} \subseteq Bare
    /\ {msg.id, msg.idOverflow, msg.module, msg.iteration} \subseteq Seq(Bare)
    /\ msg.subroutine \in Seq(Unbroken)

LEMMA SeenJoin ==
    ASSUME NEW a \in Seq(Seq(Symbols))
    PROVE  /\ Mapped(Seen, a) \in Seq(Symbols)
           /\ \A b \in Seq(Seq(Symbols)) : Mapped(Seen, a \o b) = Mapped(Seen, a) \o Mapped(Seen, b)
           /\ \A s \in Seq(Symbols) : Mapped(Seen, Append(a, s)) = Mapped(Seen, a) \o Seen[s]
<1>1. <<>> \in Seq(Symbols)
  OBVIOUS
<1>2. Mapped(Seen, a) \in Seq(Symbols)
  BY <1>1, SeenMaps, MappedMore
<1>3. \A b \in Seq(Seq(Symbols)) : Mapped(Seen, a \o b) = Mapped(Seen, a) \o Mapped(Seen, b)
  BY SeenMaps, MappedJoin
<1>4. \A s \in Seq(Symbols) : Mapped(Seen, Append(a, s)) = Mapped(Seen, a) \o Seen[s]
  BY SeenMaps, MappedMore
<1> QED
  BY <1>2, <1>3, <1>4

LEMMA SeenOne ==
    /\ Mapped(Seen, <<>>) = <<>> /\ <<>> \in Seq(Seq(Symbols))
    /\ \A s \in Seq(Symbols) : <<s>> \in Seq(Seq(Symbols)) /\ Mapped(Seen, <<s>>) = Seen[s]
                               /\ Seen[s] \in Seq(Symbols)
<1>1. <<>> \in Seq(Symbols) /\ <<>> \in Seq(Seq(Symbols))
  OBVIOUS
<1>2. Mapped(Seen, <<>>) = <<>>
  BY <1>1, SeenMaps, MappedMore
<1>3. ASSUME NEW s \in Seq(Symbols) PROVE <<s>> \in Seq(Seq(Symbols)) /\ Mapped(Seen, <<s>>) = Seen[s]
                               /\ Seen[s] \in Seq(Symbols)
  <2>1. Seen[s] \in Seq(Symbols)
    BY SeenMaps DEF Maps
  <2>2. PICK e \in Seq(Seq(Symbols)) : e = <<>>
    BY <1>1
  <2>3. Append(e, s) = <<s>>
    BY <2>2
  <2>4. Mapped(Seen, Append(e, s)) = Mapped(Seen, e) \o Seen[s]
    BY SeenJoin
  <2>5. <<>> \o Seen[s] = Seen[s]
    BY <2>1, Regrouped
  <2> QED
    <3>1. <<s>> \in Seq(Seq(Symbols))
      BY Tuples
    <3>2. Mapped(Seen, <<s>>) = <<>> \o Seen[s]
      BY <1>2, <2>2, <2>3, <2>4, Zenon
    <3> QED
      BY <2>1, <2>5, <3>1, <3>2, Zenon
<1> QED
  BY <1>1, <1>2, <1>3

\* A field is seen as its name.
LEMMA FieldSeen ==
    ASSUME NEW name \in Seq(Unbroken)
    PROVE  Field(name) \in Seq(Seq(Symbols)) /\ Mapped(Seen, Field(name)) = Words(name)
<1>1. SP \in Unbroken /\ SP \in Symbols
  BY WordsUnbroken, Zenon DEF Symbols
<1>2. PICK x \in Seq(Unbroken) : x = name \o <<SP>>
  <2>1. <<SP>> \in Seq(Unbroken)
    BY <1>1, Tuples
  <2> QED
    BY <2>1, Joined
<1>3. x \in Seq(Symbols) /\ name \in Seq(Symbols) /\ Seen[x] = Words(x)
  BY SeenMaps
<1>4. Words(x) = Words(name)
  <2>1. <<SP>> \in Seq(Symbols) /\ Words(<<SP>>) = <<>>
    BY <1>1, WordsOne, Tuples
  <2>2. PICK blank \in Seq(Symbols) : blank = <<SP>> /\ Words(blank) = <<>>
    BY <2>1, Zenon
  <2>3. Words(name \o blank) = Words(name) \o Words(blank)
    BY <1>3, WordsJoin, Zenon
  <2>4. Words(name) \o <<>> = Words(name)
    BY <1>3, WordsJoin, Regrouped
  <2> QED
    BY <1>2, <2>2, <2>3, <2>4, Zenon
<1>5. Field(name) = <<x>>
  BY <1>2 DEF Field
<1> QED
  BY <1>3, <1>4, <1>5, SeenOne

LEMMA WhenSeen ==
    ASSUME NEW condition, NEW tokens \in Seq(Seq(Symbols)), NEW seen, condition => Mapped(Seen, tokens) = seen
    PROVE  /\ When(condition, tokens) \in Seq(Seq(Symbols))
           /\ Mapped(Seen, When(condition, tokens)) = When(condition, seen)
<1>1. CASE condition
  <2>1. When(condition, tokens) = tokens /\ When(condition, seen) = seen
    BY <1>1, Zenon DEF When
  <2> QED
    BY <1>1, <2>1
<1>2. CASE ~condition
  <2>1. When(condition, tokens) = <<>> /\ When(condition, seen) = <<>>
    BY <1>2, Zenon DEF When
  <2> QED
    BY <2>1, SeenOne
<1> QED
  BY <1>1, <1>2

LEMMA FieldsSeen ==
    ASSUME NEW format, NEW msg, Worded(msg)
    PROVE  /\ Fields(format, msg) \in Seq(Seq(Symbols))
           /\ Mapped(Seen, Fields(format, msg)) = SeenFields(format, msg)
           /\ {SeenModule(format, msg), SeenSubroutine(format, msg), SeenTime(format),
               SeenContext(format, msg)} \subseteq Seq(Symbols)
<1> DEFINE T == Seq(Symbols)
           TT == Seq(Seq(Symbols))
           fm == When(format.module /\ msg.module # <<>>, Field(msg.module))
           fs == When(format.subroutine /\ msg.subroutine # <<>>, Field(msg.subroutine \o <<"()">>))
           nl == When(format.timeSeparate, <<<<NL>>>>)
           ft == When(format.timestamp, nl \o Field(<<"time">>))
           fc == When(format.context, <<msg.iteration>>)
<1>1. /\ msg.module \in Seq(Bare) /\ msg.iteration \in Seq(Bare) /\ msg.subroutine \in Seq(Unbroken)
      /\ "()" \in Bare /\ "time" \in Bare
  BY DEF Worded
<1>2. <<>> \in T
  OBVIOUS
<1>3. fm \in TT /\ Mapped(Seen, fm) = SeenModule(format, msg) /\ SeenModule(format, msg) \in T
  <2>1. msg.module \in Seq(Unbroken) /\ Words(msg.module) = msg.module /\ msg.module \in T
    BY <1>1, BareIs
  <2>2. Field(msg.module) \in TT /\ Mapped(Seen, Field(msg.module)) = msg.module
    BY <2>1, FieldSeen
  <2>3. fm \in TT /\ Mapped(Seen, fm) = When(format.module /\ msg.module # <<>>, msg.module)
    BY <2>2, WhenSeen
  <2>4. When(format.module /\ msg.module # <<>>, msg.module) = SeenModule(format, msg)
    BY Zenon DEF When, SeenModule
  <2>5. SeenModule(format, msg) \in T
    BY <2>1, WhenIs DEF SeenModule
  <2> QED
    BY <2>3, <2>4, <2>5
<1>4. fs \in TT /\ Mapped(Seen, fs) = SeenSubroutine(format, msg) /\ SeenSubroutine(format, msg) \in T
  <2>1. PICK x \in Seq(Unbroken) : x = msg.subroutine \o <<"()">>
    <3>1. <<"()">> \in Seq(Unbroken)
      BY <1>1, BareIs, Tuples
    <3> QED
      BY <1>1, <3>1, Joined
  <2>2. PICK s \in T, p \in T : s = msg.subroutine /\ p = <<"()">>
    <3>1. msg.subroutine \in T /\ <<"()">> \in T
      BY <1>1, BareIs, SeenMaps, Tuples
    <3> QED
      BY <3>1
  <2>3. Words(x) = Words(s) \o Words(p)
    BY <2>1, <2>2, WordsJoin
  <2>4. Words(p) = <<"()">>
    <3>1. "()" \in Symbols /\ "()" # SP
      BY <1>1, BareIs
    <3> QED
      BY <2>2, <3>1, WordsOne
  <2>5. Field(x) \in TT /\ Mapped(Seen, Field(x)) = Words(msg.subroutine) \o <<"()">>
    BY <2>2, <2>3, <2>4, FieldSeen
  <2>6. /\ When(format.subroutine /\ msg.subroutine # <<>>, Field(x)) \in TT
        /\ Mapped(Seen, When(format.subroutine /\ msg.subroutine # <<>>, Field(x))) =
             When(format.subroutine /\ msg.subroutine # <<>>, Words(msg.subroutine) \o <<"()">>)
    BY <2>5, WhenSeen
  <2>7. Words(msg.subroutine) \o <<"()">> \in T
    BY <2>2, WordsJoin, Joined
  <2>8. SeenSubroutine(format, msg) \in T
    BY <2>7, WhenIs DEF SeenSubroutine
  <2> QED
    BY <2>1, <2>6, <2>8, Zenon DEF SeenSubroutine
<1>5. ft \in TT /\ Mapped(Seen, ft) = SeenTime(format) /\ SeenTime(format) \in T
  <2>1. nl \in TT /\ Mapped(Seen, nl) = <<>>
    <3>1. <<<<NL>>>> \in TT /\ Mapped(Seen, <<<<NL>>>>) = <<>>
      BY SeenMaps, SeenOne
    <3>2. nl \in TT /\ Mapped(Seen, nl) = When(format.timeSeparate, <<>>)
      BY <3>1, WhenSeen
    <3>3. When(format.timeSeparate, <<>>) = <<>>
      BY Zenon DEF When
    <3> QED
      BY <3>2, <3>3
  <2>2. <<"time">> \in Seq(Unbroken) /\ <<"time">> \in T /\ Words(<<"time">>) = <<"time">>
    <3>1. <<"time">> \in Seq(Bare)
      BY <1>1, Tuples
    <3> QED
      BY <3>1, BareIs
  <2>3. Field(<<"time">>) \in TT /\ Mapped(Seen, Field(<<"time">>)) = <<"time">>
    BY <2>2, FieldSeen
  <2> HIDE DEF nl
  <2>4. nl \o Field(<<"time">>) \in TT /\ Mapped(Seen, nl \o Field(<<"time">>)) = <<"time">>
    <3>1. Mapped(Seen, nl \o Field(<<"time">>)) = <<>> \o <<"time">>
      BY <2>1, <2>3, SeenJoin
    <3>2. <<>> \o <<"time">> = <<"time">>
      BY <2>2, Regrouped
    <3> QED
      BY <2>1, <2>3, <3>1, <3>2, Joined
  <2>5. ft \in TT /\ Mapped(Seen, ft) = When(format.timestamp, <<"time">>)
    BY <2>4, WhenSeen
  <2>6. SeenTime(format) \in T
    BY <2>2, WhenIs DEF SeenTime
  <2> QED
    BY <2>5, <2>6 DEF SeenTime
<1>6. fc \in TT /\ Mapped(Seen, fc) = SeenContext(format, msg) /\ SeenContext(format, msg) \in T
  <2>1. msg.iteration \in T /\ Seen[msg.iteration] = msg.iteration
    BY <1>1, BareIs, SeenMaps
  <2>2. <<msg.iteration>> \in TT /\ Mapped(Seen, <<msg.iteration>>) = msg.iteration
    BY <2>1, SeenOne
  <2>3. fc \in TT /\ Mapped(Seen, fc) = When(format.context, msg.iteration)
    BY <2>2, WhenSeen
  <2>4. SeenContext(format, msg) \in T
    BY <2>1, WhenIs DEF SeenContext
  <2> QED
    BY <2>3, <2>4 DEF SeenContext
<1> HIDE DEF fm, fs, ft, fc
<1>7. PICK a \in TT : a = fm \o fs
  BY <1>3, <1>4, Joined
<1>8. PICK b \in TT : b = a \o ft
  BY <1>5, Joined
<1>9. PICK c \in TT : c = b \o fc
  BY <1>6, Joined
<1>10. /\ Mapped(Seen, a) = SeenModule(format, msg) \o SeenSubroutine(format, msg)
       /\ Mapped(Seen, b) = Mapped(Seen, a) \o SeenTime(format)
       /\ Mapped(Seen, c) = Mapped(Seen, b) \o SeenContext(format, msg)
  <2>1. Mapped(Seen, a) = Mapped(Seen, fm) \o Mapped(Seen, fs)
    BY <1>3, <1>4, <1>7, SeenJoin
  <2>2. Mapped(Seen, b) = Mapped(Seen, a) \o Mapped(Seen, ft)
    BY <1>5, <1>8, SeenJoin
  <2>3. Mapped(Seen, c) = Mapped(Seen, b) \o Mapped(Seen, fc)
    BY <1>6, <1>9, SeenJoin
  <2> QED
    BY <1>3, <1>4, <1>5, <1>6, <2>1, <2>2, <2>3
<1>11. Fields(format, msg) = c
  BY <1>7, <1>8, <1>9, Zenon DEF Fields, fm, fs, ft, fc, nl
<1> QED
  BY <1>3, <1>4, <1>5, <1>6, <1>10, <1>11 DEF SeenFields


LEMMA AppendSame ==
    ASSUME NEW S, NEW s \in Seq(S), NEW t \in Seq(S), NEW x \in S,
           Len(t) = Len(s) + 1, \A i \in 1 .. Len(s) : t[i] = s[i], t[Len(s) + 1] = x
    PROVE  Append(s, x) = t
<1>1. PICK n \in Nat : n = Len(s)
  OBVIOUS
<1>2. /\ Append(s, x) \in Seq(S) /\ Len(Append(s, x)) = n + 1 /\ Append(s, x)[n + 1] = x
      /\ \A i \in 1 .. n : Append(s, x)[i] = s[i]
  BY <1>1, Appended
<1>3. PICK u \in Seq(S) : u = Append(s, x)
  BY <1>2
<1>4. \A i \in 1 .. n + 1 : u[i] = t[i]
  BY <1>1, <1>2, <1>3
<1>5. n + 1 \in Nat /\ Len(u) = n + 1 /\ Len(t) = n + 1
  BY <1>1, <1>2, <1>3
<1>6. u = t
  BY <1>4, <1>5, SameSeq, Zenon
<1> QED
  BY <1>3, <1>6

LEMMA LongTuples ==
    ASSUME NEW S, NEW a \in S, NEW b \in S, NEW c \in S, NEW d \in S, NEW e \in S, NEW f \in S
    PROVE  /\ <<a>> \in Seq(S) /\ <<a, b>> \in Seq(S) /\ <<a, b, c>> \in Seq(S)
           /\ <<a, b, c, d>> \in Seq(S) /\ <<a, b, c, d, e>> \in Seq(S)
           /\ <<a, b, c, d, e, f>> \in Seq(S)
OBVIOUS

LEMMA Longer1 ==
    ASSUME NEW S, NEW a \in S, NEW b \in S
    PROVE  Append(<<a>>, b) = <<a, b>>
<1>1. PICK s \in Seq(S), t \in Seq(S) : s = <<a>> /\ t = <<a, b>>
  <2>1. <<a>> \in Seq(S) /\ <<a, b>> \in Seq(S)
    OBVIOUS
  <2> QED
    BY <2>1
<1>2. Len(s) = 1 /\ Len(t) = 1 + 1 /\ 1 \in Nat
  BY <1>1
<1>3. /\ s[1] = a
      /\ t[1] = a /\ t[2] = b
  BY <1>1
<1>4. Len(t) = Len(s) + 1 /\ (\A i \in 1 .. Len(s) : t[i] = s[i]) /\ t[Len(s) + 1] = b
  BY <1>2, <1>3
<1>6. Append(s, b) = t
  BY <1>4, AppendSame
<1> QED
  BY <1>1, <1>6

LEMMA Longer2 ==
    ASSUME NEW S, NEW a \in S, NEW b \in S, NEW c \in S
    PROVE  Append(<<a, b>>, c) = <<a, b, c>>
<1>1. PICK s \in Seq(S), t \in Seq(S) : s = <<a, b>> /\ t = <<a, b, c>>
  <2>1. <<a, b>> \in Seq(S) /\ <<a, b, c>> \in Seq(S)
    OBVIOUS
  <2> QED
    BY <2>1
<1>2. Len(s) = 2 /\ Len(t) = 2 + 1 /\ 2 \in Nat
  BY <1>1
<1>3. /\ s[1] = a /\ s[2] = b
      /\ t[1] = a /\ t[2] = b /\ t[3] = c
  BY <1>1
<1>4. Len(t) = Len(s) + 1 /\ (\A i \in 1 .. Len(s) : t[i] = s[i]) /\ t[Len(s) + 1] = c
  BY <1>2, <1>3
<1>6. Append(s, c) = t
  BY <1>4, AppendSame
<1> QED
  BY <1>1, <1>6

LEMMA Longer3 ==
    ASSUME NEW S, NEW a \in S, NEW b \in S, NEW c \in S, NEW d \in S
    PROVE  Append(<<a, b, c>>, d) = <<a, b, c, d>>
<1>1. PICK s \in Seq(S), t \in Seq(S) : s = <<a, b, c>> /\ t = <<a, b, c, d>>
  <2>1. <<a, b, c>> \in Seq(S) /\ <<a, b, c, d>> \in Seq(S)
    OBVIOUS
  <2> QED
    BY <2>1
<1>2. Len(s) = 3 /\ Len(t) = 3 + 1 /\ 3 \in Nat
  BY <1>1
<1>3. /\ s[1] = a /\ s[2] = b /\ s[3] = c
      /\ t[1] = a /\ t[2] = b /\ t[3] = c /\ t[4] = d
  BY <1>1
<1>4. Len(t) = Len(s) + 1 /\ (\A i \in 1 .. Len(s) : t[i] = s[i]) /\ t[Len(s) + 1] = d
  BY <1>2, <1>3
<1>6. Append(s, d) = t
  BY <1>4, AppendSame
<1> QED
  BY <1>1, <1>6

LEMMA Longer4 ==
    ASSUME NEW S, NEW a \in S, NEW b \in S, NEW c \in S, NEW d \in S, NEW e \in S
    PROVE  Append(<<a, b, c, d>>, e) = <<a, b, c, d, e>>
<1>1. PICK s \in Seq(S), t \in Seq(S) : s = <<a, b, c, d>> /\ t = <<a, b, c, d, e>>
  <2>1. <<a, b, c, d>> \in Seq(S) /\ <<a, b, c, d, e>> \in Seq(S)
    OBVIOUS
  <2> QED
    BY <2>1
<1>2. Len(s) = 4 /\ Len(t) = 4 + 1 /\ 4 \in Nat
  BY <1>1
<1>3. /\ s[1] = a /\ s[2] = b /\ s[3] = c /\ s[4] = d
      /\ t[1] = a /\ t[2] = b /\ t[3] = c /\ t[4] = d /\ t[5] = e
  BY <1>1
<1>4. Len(t) = Len(s) + 1 /\ (\A i \in 1 .. Len(s) : t[i] = s[i]) /\ t[Len(s) + 1] = e
  BY <1>2, <1>3
<1>6. Append(s, e) = t
  BY <1>4, AppendSame
<1> QED
  BY <1>1, <1>6

LEMMA Longer5 ==
    ASSUME NEW S, NEW a \in S, NEW b \in S, NEW c \in S, NEW d \in S, NEW e \in S, NEW f \in S
    PROVE  Append(<<a, b, c, d, e>>, f) = <<a, b, c, d, e, f>>
<1>1. PICK s \in Seq(S), t \in Seq(S) : s = <<a, b, c, d, e>> /\ t = <<a, b, c, d, e, f>>
  <2>1. <<a, b, c, d, e>> \in Seq(S) /\ <<a, b, c, d, e, f>> \in Seq(S)
    OBVIOUS
  <2> QED
    BY <2>1
<1>2. Len(s) = 5 /\ Len(t) = 5 + 1 /\ 5 \in Nat
  BY <1>1
<1>3. /\ s[1] = a /\ s[2] = b /\ s[3] = c /\ s[4] = d /\ s[5] = e
      /\ t[1] = a /\ t[2] = b /\ t[3] = c /\ t[4] = d /\ t[5] = e /\ t[6] = f
  BY <1>1
<1>4. Len(t) = Len(s) + 1 /\ (\A i \in 1 .. Len(s) : t[i] = s[i]) /\ t[Len(s) + 1] = f
  BY <1>2, <1>3
<1>6. Append(s, f) = t
  BY <1>4, AppendSame
<1> QED
  BY <1>1, <1>6

LEMMA NameSeen ==
    ASSUME NEW msg, Worded(msg)
    PROVE  LET head == <<<<"%MSG">>, <<Symbol(msg.severity)>>, <<SP>>, msg.id, msg.idOverflow, <<":", SP>>>>
           IN  /\ head \in Seq(Seq(Symbols)) /\ Mapped(Seen, head) = SeenName(msg)
               /\ SeenName(msg) \in Seq(Symbols)
<1> DEFINE T == Seq(Symbols)
           TT == Seq(Seq(Symbols))
           sym == Symbol(msg.severity)
<1>1. PICK a \in T, b \in T, c \in T, d \in T, e \in T, f \in T :
        /\ a = <<"%MSG">> /\ b = <<sym>> /\ c = <<SP>> /\ d = msg.id /\ e = msg.idOverflow
        /\ f = <<":", SP>>
  <2>1. "%MSG" \in Symbols /\ sym \in Symbols /\ SP \in Symbols /\ ":" \in Symbols
    BY BareIs DEF Worded
  <2>2. msg.id \in T /\ msg.idOverflow \in T
    BY BareIs DEF Worded
  <2>3. <<"%MSG">> \in T /\ <<sym>> \in T /\ <<SP>> \in T /\ <<":", SP>> \in T
    BY <2>1, Tuples
  <2> QED
    BY <2>2, <2>3
<1>2. /\ Seen[a] = a /\ Seen[b] = b /\ Seen[c] = <<>> /\ Seen[d] = d /\ Seen[e] = e
      /\ Seen[f] = <<":">>
  <2>1. a \in Seq(Bare) /\ b \in Seq(Bare) /\ d \in Seq(Bare) /\ e \in Seq(Bare)
    BY <1>1, Tuples DEF Worded
  <2>2. Seen[a] = a /\ Seen[b] = b /\ Seen[d] = d /\ Seen[e] = e
    BY <2>1, BareIs, SeenMaps
  <2>3. SP \in Unbroken /\ ":" \in Unbroken /\ SP \in Symbols /\ ":" \in Symbols /\ ":" # SP
    BY WordsUnbroken, BareIs DEF Worded
  <2>4. c \in Seq(Unbroken) /\ f \in Seq(Unbroken)
    BY <1>1, <2>3, Tuples
  <2>5. Seen[c] = Words(c) /\ Seen[f] = Words(f)
    BY <2>4, SeenMaps
  <2>6. Words(c) = <<>>
    BY <1>1, <2>3, WordsOne
  <2>7. Words(f) = <<":">>
    <3>1. PICK g \in T : g = <<":">>
      BY <2>3, Tuples
    <3>2. f = Append(g, SP)
      BY <1>1, <3>1
    <3>3. Words(Append(g, SP)) = Words(g) \o Word[SP]
      BY <2>3, WordsJoin
    <3>4. Word[SP] = <<>> /\ Words(g) = g
      BY <2>3, <3>1, WordsOne, Zenon DEF Word
    <3>5. g \o <<>> = g
      BY Regrouped
    <3> QED
      BY <3>1, <3>2, <3>3, <3>4, <3>5
  <2> QED
    BY <2>2, <2>5, <2>6, <2>7
<1> HIDE DEF sym
<1>3. PICK h1 \in TT, h2 \in TT, h3 \in TT, h4 \in TT, h5 \in TT, h6 \in TT :
        /\ h1 = <<a>> /\ h2 = <<a, b>> /\ h3 = <<a, b, c>> /\ h4 = <<a, b, c, d>>
        /\ h5 = <<a, b, c, d, e>> /\ h6 = <<a, b, c, d, e, f>>
        /\ h2 = Append(h1, b) /\ h3 = Append(h2, c) /\ h4 = Append(h3, d) /\ h5 = Append(h4, e)
        /\ h6 = Append(h5, f)
  <2> HIDE DEF T
  <2>1. /\ <<a>> \in TT /\ <<a, b>> \in TT /\ <<a, b, c>> \in TT
        /\ <<a, b, c, d>> \in TT /\ <<a, b, c, d, e>> \in TT
        /\ <<a, b, c, d, e, f>> \in TT
        /\ Append(<<a>>, b) = <<a, b>> /\ Append(<<a, b>>, c) = <<a, b, c>>
        /\ Append(<<a, b, c>>, d) = <<a, b, c, d>>
        /\ Append(<<a, b, c, d>>, e) = <<a, b, c, d, e>>
        /\ Append(<<a, b, c, d, e>>, f) = <<a, b, c, d, e, f>>
    BY LongTuples, Longer1, Longer2, Longer3, Longer4, Longer5 DEF T
  <2> HIDE DEF TT
  <2> QED
    BY <2>1, Zenon
<1>4. PICK ab \in T : ab = a \o b /\ ab = <<"%MSG", sym>>
  <2>1. a \o b = <<"%MSG", sym>>
    <3>1. Append(a, sym) = a \o <<sym>> /\ Append(a, sym) = <<"%MSG", sym>>
      <4>1. "%MSG" \in Symbols /\ sym \in Symbols
        BY BareIs DEF Worded, sym
      <4>2. Append(a, sym) = a \o <<sym>>
        BY <4>1, AppendIs
      <4>3. Append(<<"%MSG">>, sym) = <<"%MSG", sym>>
        BY <4>1, Longer1
      <4> QED
        BY <1>1, <4>2, <4>3
    <3> QED
      BY <1>1, <3>1
  <2> QED
    BY <2>1, Joined
<1>5. PICK abd \in T : abd = ab \o d
  BY Joined
<1>6. PICK abde \in T : abde = abd \o e
  BY Joined
<1>7. PICK colon \in T : colon = <<":">>
  <2>1. ":" \in Symbols
    BY BareIs DEF Worded
  <2> QED
    BY <2>1, Tuples
<1>8. Mapped(Seen, h6) = abde \o colon
  <2>0. /\ Mapped(Seen, h2) = Mapped(Seen, h1) \o Seen[b]
        /\ Mapped(Seen, h3) = Mapped(Seen, h2) \o Seen[c]
        /\ Mapped(Seen, h4) = Mapped(Seen, h3) \o Seen[d]
        /\ Mapped(Seen, h5) = Mapped(Seen, h4) \o Seen[e]
        /\ Mapped(Seen, h6) = Mapped(Seen, h5) \o Seen[f]
    <3>1. ASSUME NEW g \in TT, NEW k \in TT, NEW x \in T, k = Append(g, x)
          PROVE  Mapped(Seen, k) = Mapped(Seen, g) \o Seen[x]
      BY <3>1, SeenJoin
    <3> QED
      BY <1>3, <3>1, Zenon
  <2>1. Mapped(Seen, h1) = a
    BY <1>2, <1>3, SeenOne
  <2>2. Mapped(Seen, h2) = ab
    BY <1>2, <1>4, <2>0, <2>1
  <2>3. Mapped(Seen, h3) = ab
    <3>1. Mapped(Seen, h3) = ab \o <<>>
      BY <1>2, <2>0, <2>2
    <3> QED
      BY <3>1, Regrouped
  <2>4. Mapped(Seen, h4) = abd
    BY <1>2, <1>5, <2>0, <2>3
  <2>5. Mapped(Seen, h5) = abde
    BY <1>2, <1>6, <2>0, <2>4
  <2> QED
    BY <1>2, <1>7, <2>0, <2>5
<1>9. SeenName(msg) = abde \o colon
  BY <1>1, <1>4, <1>5, <1>6, <1>7, Zenon DEF SeenName, sym
<1>10. h6 = <<<<"%MSG">>, <<Symbol(msg.severity)>>, <<SP>>, msg.id, msg.idOverflow, <<":", SP>>>>
  BY <1>1, <1>3, Zenon DEF sym
<1>11. abde \o colon \in T
  BY Joined
<1> QED
  BY <1>3, <1>8, <1>9, <1>10, <1>11

\* The words of a header, whatever the lines it is broken into.
LEMMA PrefixSeen ==
    ASSUME NEW format, NEW msg, Worded(msg)
    PROVE  /\ Mapped(Seen, PrefixTokens(format, msg)) =
                SeenName(msg) \o SeenSerial(format, msg) \o SeenFields(format, msg)
           /\ {SeenName(msg), SeenSerial(format, msg), SeenFields(format, msg)} \subseteq Seq(Symbols)
<1> DEFINE T == Seq(Symbols)
           TT == Seq(Seq(Symbols))
           fields == Fields(format, msg)
           blank == When(fields # <<>> /\ fields[1] # <<NL>>, <<<<SP>>>>)
           apart == IF EpilogueBreak(format, msg) THEN <<<<NL>>>> ELSE blank
           head == <<<<"%MSG">>, <<Symbol(msg.severity)>>, <<SP>>, msg.id, msg.idOverflow, <<":", SP>>>>
           serial == When(format.serial, <<<<"[serial #", msg.serial, "]", SP>>>>)
<1>1. head \in TT /\ Mapped(Seen, head) = SeenName(msg) /\ SeenName(msg) \in T
  BY NameSeen
<1>2. fields \in TT /\ Mapped(Seen, fields) = SeenFields(format, msg)
  BY FieldsSeen
<1>3. serial \in TT /\ Mapped(Seen, serial) = SeenSerial(format, msg) /\ SeenSerial(format, msg) \in T
  <2> DEFINE three == <<"[serial #", msg.serial, "]">>
             four == <<"[serial #", msg.serial, "]", SP>>
  <2>1. {"[serial #", msg.serial, "]"} \subseteq Bare
    BY DEF Worded
  <2>2. three \in Seq(Bare)
    BY <2>1, LongTuples
  <2>3. PICK x \in T : x = three /\ Words(x) = three
    BY <2>2, BareIs
  <2>4. SP \in Unbroken /\ SP \in Symbols
    BY WordsUnbroken, Zenon DEF Symbols
  <2>5. four \in Seq(Unbroken) /\ four = Append(x, SP)
    <3>1. {"[serial #", msg.serial, "]", SP} \subseteq Unbroken
      BY <2>1, <2>4, BareIs
    <3>2. four \in Seq(Unbroken)
      BY <3>1, Tuples
    <3>3. four = Append(three, SP)
      BY <3>1, Longer3
    <3> QED
      BY <2>3, <3>2, <3>3
  <2>6. Words(four) = x
    <3>1. Words(Append(x, SP)) = Words(x) \o Word[SP]
      BY <2>4, WordsJoin
    <3>2. Word[SP] = <<>>
      BY <2>4, Zenon DEF Word
    <3>3. x \o <<>> = x
      BY Regrouped
    <3> QED
      BY <2>3, <2>5, <3>1, <3>2, <3>3
  <2> HIDE DEF three, four
  <2>7. four \in T /\ Seen[four] = x
    BY <2>5, <2>6, SeenMaps
  <2>8. <<four>> \in TT /\ Mapped(Seen, <<four>>) = x
    BY <2>7, SeenOne
  <2>9. When(format.serial, <<four>>) \in TT /\ Mapped(Seen, When(format.serial, <<four>>)) = When(format.serial, x)
    BY <2>8, WhenSeen
  <2>10. When(format.serial, x) \in T
    BY WhenIs
  <2> QED
    BY <2>3, <2>9, <2>10, Zenon DEF SeenSerial, three, four
<1> HIDE DEF fields, head, serial
<1>4. apart \in TT /\ Mapped(Seen, apart) = <<>>
  <2>1. <<<<NL>>>> \in TT /\ Mapped(Seen, <<<<NL>>>>) = <<>>
    BY SeenMaps, SeenOne
  <2>2. <<<<SP>>>> \in TT /\ Mapped(Seen, <<<<SP>>>>) = <<>>
    <3>1. SP \in Unbroken /\ SP \in Symbols
      BY WordsUnbroken, Zenon DEF Symbols
    <3>2. <<SP>> \in Seq(Unbroken)
      BY <3>1, Tuples
    <3>3. Seen[<<SP>>] = <<>> /\ <<SP>> \in T
      BY <3>1, <3>2, SeenMaps, WordsOne
    <3> QED
      BY <3>3, SeenOne
  <2>3. blank \in TT /\ Mapped(Seen, blank) = <<>>
    <3>1. /\ blank \in TT
          /\ Mapped(Seen, blank) = When(fields # <<>> /\ fields[1] # <<NL>>, <<>>)
      BY <2>2, WhenSeen
    <3>2. When(fields # <<>> /\ fields[1] # <<NL>>, <<>>) = <<>>
      BY Zenon DEF When
    <3> QED
      BY <3>1, <3>2
  <2> HIDE DEF blank
  <2> QED
    BY <2>1, <2>3
<1> HIDE DEF apart
<1>5. PICK x \in TT : x = head \o serial
  BY <1>1, <1>3, Joined
<1>6. PICK y \in TT : y = x \o apart
  BY <1>4, Joined
<1>7. Mapped(Seen, x) = SeenName(msg) \o SeenSerial(format, msg)
  BY <1>1, <1>3, <1>5, SeenJoin
<1>8. Mapped(Seen, y) = Mapped(Seen, x)
  <2>1. Mapped(Seen, y) = Mapped(Seen, x) \o <<>>
    BY <1>4, <1>6, SeenJoin
  <2>2. Mapped(Seen, x) \in T
    BY SeenJoin
  <2> QED
    BY <2>1, <2>2, Regrouped
<1>9. Mapped(Seen, y \o fields) = Mapped(Seen, y) \o SeenFields(format, msg)
  BY <1>2, SeenJoin
<1>10. PrefixTokens(format, msg) = y \o fields
  BY <1>5, <1>6, Zenon DEF PrefixTokens, fields, head, serial, apart, blank
<1>11. SeenFields(format, msg) \in T
  BY <1>2, SeenJoin
<1> QED
  BY <1>1, <1>3, <1>7, <1>8, <1>9, <1>10, <1>11

--------------------------------------------------------------------------------
(***************************************************************************)
(* The words of a header are what a reader expects.                        *)
(***************************************************************************)
\* The words of the layout are words.
LEMMA WordsBare ==
    /\ {"%MSG", ":", "[serial #", "]", "()", "time", "line"} \subseteq Bare
    /\ \A level \in Levels : Symbol(level) \in Bare
    /\ {SP} \cup Bare \subseteq Symbols
    /\ \A s \in Seq(STRING \ (Breaks \cup {SP})) : s \in Seq(Bare)
<1>1. {"%MSG", ":", "[serial #", "]", "()", "time", "line"} \subseteq Bare
  <2>1. {"%MSG", ":", "[serial #", "]", "()", "time", "line"} \cap {SP} = {}
    BY DEF SP
  <2> QED
    BY <2>1, WordsUnbroken, Zenon DEF Bare
<1>2. ASSUME NEW level \in Levels PROVE Symbol(level) \in Bare
  <2>1. level \in 1 .. 8
    BY DEF Levels, ELsev_success, ELsev_severe
  <2>2. Symbol(level) # "space"
    <3>1. CASE level = 1
      BY <3>1 DEF Symbol
    <3>2. CASE level = 2
      BY <3>2 DEF Symbol
    <3>3. CASE level = 3
      BY <3>3 DEF Symbol
    <3>4. CASE level = 4
      BY <3>4 DEF Symbol
    <3>5. CASE level = 5
      BY <3>5 DEF Symbol
    <3>6. CASE level = 6
      BY <3>6 DEF Symbol
    <3>7. CASE level = 7
      BY <3>7 DEF Symbol
    <3>8. CASE level = 8
      BY <3>8 DEF Symbol
    <3>9. \/ level = 1 \/ level = 2 \/ level = 3 \/ level = 4
          \/ level = 5 \/ level = 6 \/ level = 7 \/ level = 8
      BY <2>1
    <3> QED
      BY Zenon, <3>1, <3>2, <3>3, <3>4, <3>5, <3>6, <3>7, <3>8, <3>9
  <2> QED
    BY <2>2, WordsUnbroken, Zenon DEF Bare, SP
<1>3. {SP} \cup Bare \subseteq Symbols
  <2>1. SP \in Symbols
    BY Zenon DEF Symbols
  <2> QED
    BY <2>1, BareIs
<1>4. STRING \ (Breaks \cup {SP}) \subseteq Bare
  BY Zenon DEF Bare, Unbroken, Symbols
<1>5. \A s \in Seq(STRING \ (Breaks \cup {SP})) : s \in Seq(Bare)
  BY <1>4, Wider
<1> QED
  BY <1>1, <1>2, <1>3, <1>5

\* A text without the blank before it has the same words.
LEMMA StrippedSeen ==
    ASSUME NEW t \in Seq(Symbols)
    PROVE  Words(Stripped(t)) = Words(t)
<1>1. CASE t # <<>> /\ t[1] = SP
  <2>1. PICK r \in Seq(Symbols), b \in Seq(Symbols) : r = Tail(t) /\ b = <<SP>> /\ t = b \o r
    <3>1. Tail(t) \in Seq(Symbols) /\ Len(Tail(t)) = Len(t) - 1 /\ Len(t) \in Nat /\ Len(t) # 0
      BY <1>1
    <3>2. <<SP>> \in Seq(Symbols) /\ <<SP>> \o Tail(t) \in Seq(Symbols)
      BY <3>1, WordsBare, Tuples, Joined
    <3>3. PICK u \in Seq(Symbols) : u = <<SP>> \o Tail(t)
      BY <3>2
    <3>4. Len(u) = Len(t) /\ \A i \in 1 .. Len(t) : u[i] = t[i]
      <4>1. u = <<SP>> \o Tail(t)
        BY <3>3
      <4>2. Len(<<SP>>) = 1 /\ <<SP>>[1] = SP /\ <<SP>> \in Seq(Symbols)
        BY <3>2
      <4>3. Len(u) = Len(t) /\ u[1] = SP /\ \A i \in 2 .. Len(t) : u[i] = Tail(t)[i - 1]
        BY <3>1, <4>1, <4>2
      <4>4. \A i \in 2 .. Len(t) : Tail(t)[i - 1] = t[i]
        BY <1>1, <3>1
      <4> QED
        BY <1>1, <3>1, <4>3, <4>4
    <3>5. u = t
      BY <3>1, <3>4, SameSeq
    <3> QED
      BY <3>1, <3>2, <3>3, <3>5
  <2>2. Words(b \o r) = Words(b) \o Words(r) /\ Words(r) \in Seq(Symbols)
    BY WordsJoin
  <2>3. Words(b) = <<>>
    BY <2>1, WordsBare, WordsOne
  <2>4. <<>> \o Words(r) = Words(r)
    BY <2>2, Regrouped
  <2>5. Stripped(t) = r
    BY <1>1, <2>1, Zenon DEF Stripped
  <2> QED
    BY <2>1, <2>2, <2>3, <2>4, <2>5
<1>2. CASE ~(t # <<>> /\ t[1] = SP)
  BY <1>2, Zenon DEF Stripped
<1> QED
  BY <1>1, <1>2

\* The subroutine a message was given is the one a reader expects.
LEMMA SubroutineSeen ==
    ASSUME NamesAreWords, NEW s \in Seq(Insertions)
    PROVE  /\ Words(Given(s)) = ExpectedSubroutine(s)
           /\ Given(s) = <<>> <=> ExpectedSubroutine(s) = <<>>
<1>1. PICK j : j = Last1(SubroutinesIn(s))
  OBVIOUS
<1>2. j \in 0 .. Len(s) /\ (j # 0 => j \in SubroutinesIn(s))
  <2>1. SubroutinesIn(s) \in SUBSET (1 .. Len(s)) /\ Len(s) \in Nat
    BY DEF SubroutinesIn
  <2> QED
    BY <1>1, <2>1, LastOfMore
<1>3. /\ Given(s) = IF j = 0 THEN <<>> ELSE Stripped(Tail(s[j].text))
      /\ ExpectedSubroutine(s) = IF j = 0 THEN <<>> ELSE Words(Tail(s[j].text))
  <2>1. SelectLastInSeq(s, IsSubroutine) = j
    BY <1>1, LastSubroutineIs
  <2> QED
    BY <2>1, Zenon DEF Given, ExpectedSubroutine
<1>4. <<>> \in Seq(Symbols) /\ Words(<<>>) = <<>>
  <2>1. <<>> \in Seq(Symbols)
    OBVIOUS
  <2> QED
    BY <2>1, WordsJoin
<1>5. CASE j = 0
  BY <1>3, <1>4, <1>5
<1>6. CASE j # 0
  <2>1. j \in 1 .. Len(s) /\ IsSubroutine(s[j])
    BY <1>2, <1>6 DEF SubroutinesIn
  <2>2. PICK i \in Insertions : i = s[j]
    BY <2>1
  <2>3. /\ i.text \in Seq(STRING \ Breaks) /\ i.text # <<>>
        /\ Len(i.text) <= 2 \/ Words(Tail(i.text)) # <<>>
    BY <2>1, <2>2 DEF NamesAreWords, NamesUnbroken, IsSubroutine
  <2>4. PICK x \in Seq(STRING \ Breaks) : x = i.text
    BY <2>3
  <2>5. Tail(x) \in Seq(STRING \ Breaks) /\ (Len(x) <= 2 => Len(Tail(x)) <= 1)
    BY <2>3, <2>4
  <2>6. PICK t \in Seq(Symbols) : t = Tail(x)
    <3>1. STRING \ Breaks \subseteq Symbols
      BY Zenon DEF Symbols
    <3>2. Tail(x) \in Seq(Symbols)
      BY <2>5, <3>1, Wider
    <3> QED
      BY <3>2
  <2>7. Given(s) = Stripped(t) /\ ExpectedSubroutine(s) = Words(t)
    BY <1>3, <1>6, <2>2, <2>4, <2>6
  <2>8. Words(Stripped(t)) = Words(t)
    BY StrippedSeen
  <2>9. ASSUME Words(t) = <<>> PROVE Stripped(t) = <<>>
    <3>1. Len(t) <= 1
      BY <2>3, <2>4, <2>5, <2>6, <2>9
    <3>2. CASE t = <<>>
      BY <3>2 DEF Stripped
    <3>3. CASE t # <<>>
      <4>1. PICK y \in Symbols : t = <<y>> /\ y = t[1]
        <5>1. Len(t) = 1 /\ t[1] \in Symbols
          <6>1. PICK n \in Nat : n = Len(t) /\ n # 0
            BY <3>3
          <6>2. Len(t) = 1
            BY <3>1, <6>1
          <6> QED
            BY <6>2
        <5>2. PICK r \in Seq(Symbols) : r = <<t[1]>>
          BY <5>1, Tuples
        <5>3. Len(r) = 1 /\ r[1] = t[1] /\ 1 \in Nat
          BY <5>2
        <5>4. \A k \in 1 .. 1 : t[k] = r[k]
          BY <5>3
        <5>5. t = r
          BY <5>1, <5>3, <5>4, SameSeq, Zenon
        <5> QED
          BY <5>1, <5>2, <5>5
      <4>2. Words(<<y>>) = IF y = SP THEN <<>> ELSE <<y>>
        BY WordsOne
      <4>3. y = SP
        <5>1. <<y>> # <<>>
          OBVIOUS
        <5> QED
          BY <2>9, <4>1, <4>2, <5>1
      <4>4. Stripped(t) = Tail(t)
        BY <3>3, <4>1, <4>3 DEF Stripped
      <4>5. Tail(t) = <<>>
        BY <4>1
      <4> QED
        BY <4>4, <4>5
    <3> QED
      BY <3>2, <3>3
  <2> QED
    BY <1>4, <2>7, <2>8, <2>9
<1> QED
  BY <1>5, <1>6

\* The words a header of the message has are those of its parts.
LEMMA HeaderWorded ==
    ASSUME NamesAreWords, NEW m \in 1 .. MaxMsgs, NEW o \in ErrorObjs, NEW s \in Sayings,
           TextRight(o, s, m), NEW msg \in ErrorObjs, SameHead(msg, o),
           msg.subroutine = o.subroutine, msg.module \in Modules \cup {Early},
           msg.iteration \in Iterations \cup {PreEvents}, ~msg.verbatim
    PROVE  /\ Worded(msg) /\ msg.filename \in Seq(Bare)
           /\ HeaderIn(Unbroken, msg) /\ msg.filename \in Seq(Unbroken)
<1> DEFINE Plainer == STRING \ (Breaks \cup {SP})
<1>0. NamesUnbroken
  BY DEF NamesAreWords
<1>1. s.statement \in Statements /\ s.insertions \in Seq(Insertions)
  BY DEF Sayings
<1>2. HeaderIn(Unbroken, msg) /\ msg.filename \in Seq(Unbroken)
  BY <1>0, HeaderUnbroken
<1>3. /\ s.statement.category \in Seq(Plainer) /\ s.statement.file \in Seq(Plainer)
      /\ msg.module \in Seq(Plainer) /\ msg.iteration \in Seq(Plainer)
      /\ Decimal(m) \in Plainer
  <2>1. Decimal(m) \in STRING
    BY NumbersAssumption
  <2> QED
    BY <1>1, <2>1 DEF NamesAreWords, NamesWithout
<1>4. msg.id \in Seq(Plainer) /\ msg.idOverflow \in Seq(Plainer)
  <2>1. msg.id \in Seq(STRING) /\ msg.idOverflow \in Seq(STRING)
    BY DEF ErrorObjs, Texts
  <2>2. msg.id \o msg.idOverflow \in Seq(Plainer)
    BY <1>3 DEF SameHead, TextRight
  <2> QED
    BY <2>1, <2>2, PartsAre
<1>5. msg.filename \in Seq(Plainer)
  BY <1>3, BaseNameIsText DEF SameHead, TextRight
<1>6. msg.serial \in Bare
  <2>1. msg.serial \in Plainer
    BY <1>3 DEF SameHead, TextRight
  <2> QED
    BY <2>1, Zenon DEF Bare, Unbroken, Symbols
<1>7. Symbol(msg.severity) \in Bare
  <2>1. msg.severity \in Levels
    BY DEF ErrorObjs, Levels
  <2> QED
    BY <2>1, WordsBare
<1>8. {msg.id, msg.idOverflow, msg.module, msg.iteration, msg.filename} \subseteq Seq(Bare)
  BY <1>3, <1>4, <1>5, WordsBare
<1>9. msg.subroutine \in Seq(Unbroken)
  BY <1>2 DEF HeaderIn
<1> QED
  BY <1>2, <1>6, <1>7, <1>8, <1>9, WordsBare DEF Worded

\* Texts put together.  That they are texts is said by an operator, for the
\* provers put together whatever they see to be sequences.
Are3(a, b, c) == {a, b, c} \subseteq Seq(Symbols)
Are4(a, b, c, d) == {a, b, c, d} \subseteq Seq(Symbols)
Are5(a, b, c, d, e) == {a, b, c, d, e} \subseteq Seq(Symbols)
Are7(a, b, c, d, e, f, g) == {a, b, c, d, e, f, g} \subseteq Seq(Symbols)

LEMMA ThreeTogether ==
    ASSUME NEW a, NEW b, NEW c, Are3(a, b, c)
    PROVE  (a \o b) \o c = a \o (b \o c)
<1>1. a \in Seq(Symbols) /\ b \in Seq(Symbols) /\ c \in Seq(Symbols)
  BY DEF Are3
<1> QED
  BY <1>1, Regrouped

LEMMA FourTogether ==
    ASSUME NEW a, NEW b, NEW c, NEW d, Are4(a, b, c, d)
    PROVE  ((a \o b) \o c) \o d = a \o ((b \o c) \o d)
<1>1. Are3(a, b, c) /\ Are3(a, b \o c, d)
  BY Joined DEF Are3, Are4
<1>2. (a \o b) \o c = a \o (b \o c)
  BY <1>1, ThreeTogether
<1>3. (a \o (b \o c)) \o d = a \o ((b \o c) \o d)
  BY <1>1, ThreeTogether
<1> QED
  BY <1>2, <1>3, Zenon

LEMMA FiveTogether ==
    ASSUME NEW a, NEW b, NEW c, NEW d, NEW e, Are5(a, b, c, d, e)
    PROVE  (((a \o b) \o c) \o d) \o e = a \o (((b \o c) \o d) \o e)
<1>1. Are3(a, b, c) /\ Are4(a, b \o c, d, e)
  BY Joined DEF Are3, Are4, Are5
<1>2. (a \o b) \o c = a \o (b \o c)
  BY <1>1, ThreeTogether
<1>3. ((a \o (b \o c)) \o d) \o e = a \o (((b \o c) \o d) \o e)
  BY <1>1, FourTogether, SMTT(30)
<1> QED
  BY <1>2, <1>3, Zenon

Regroups(h, s, m, u, t, x, p) ==
    ((h \o s) \o (((m \o u) \o t) \o x)) \o p = h \o (((((s \o m) \o u) \o t) \o x) \o p)

LEMMA SevenTogether ==
    ASSUME NEW h, NEW s, NEW m, NEW u, NEW t, NEW x, NEW p, Are7(h, s, m, u, t, x, p)
    PROVE  Regroups(h, s, m, u, t, x, p)
<1>1. Are5(s, m, u, t, x)
  BY DEF Are5, Are7
<1>2. (((s \o m) \o u) \o t) \o x = s \o (((m \o u) \o t) \o x)
  BY <1>1, FiveTogether
<1>3. PICK mutx : mutx = ((m \o u) \o t) \o x
  OBVIOUS
<1>4. mutx \in Seq(Symbols)
  BY <1>3, Joined DEF Are7
<1>5. Are4(h, s, mutx, p)
  BY <1>4 DEF Are4, Are7
<1>6. ((h \o s) \o mutx) \o p = h \o ((s \o mutx) \o p)
  BY <1>5, FourTogether
<1> QED
  BY <1>2, <1>3, <1>6, Zenon DEF Regroups

\* The words of what a message is said to come from.
SeenPlace(format, msg) ==
    When(format.text /\ msg.filename # <<>>, msg.filename \o <<":", "line">>)

\* What follows the name in a header.
SeenRest(format, msg) ==
    SeenSerial(format, msg) \o SeenModule(format, msg) \o SeenSubroutine(format, msg)
      \o SeenTime(format) \o SeenContext(format, msg) \o SeenPlace(format, msg)

LEMMA PlaceSeen ==
    ASSUME NEW msg \in ErrorObjs, msg.filename \in Seq(Bare)
    PROVE  /\ Whereabouts(msg) \in Seq(Symbols)
           /\ Words(Whereabouts(msg)) = When(msg.filename # <<>>, msg.filename \o <<":", "line">>)
<1> DEFINE T == Seq(Symbols)
<1>1. msg.lineNumber = "line"
  BY DEF ErrorObjs
<1>2. PICK f \in T : f = msg.filename /\ Words(f) = f
  BY BareIs
<1>3. PICK b \in T : b = <<SP>> /\ Words(b) = <<>>
  <2>1. SP \in Symbols
    BY WordsBare
  <2> QED
    BY <2>1, Tuples, WordsOne
<1>4. PICK l \in T : l = <<":", "line">> /\ Words(l) = l
  <2>1. ":" \in Bare /\ "line" \in Bare
    BY WordsBare
  <2>2. <<":", "line">> \in Seq(Bare)
    BY <2>1, Tuples
  <2> QED
    BY <2>2, BareIs
<1>5. PICK x \in T : x = b \o f
  BY Joined
<1>6. PICK y \in T : y = x \o l
  BY Joined
<1>7. Words(x) = f
  <2>1. Words(x) = Words(b) \o Words(f)
    BY <1>5, WordsJoin
  <2>2. <<>> \o f = f
    BY Regrouped
  <2> QED
    BY <1>2, <1>3, <2>1, <2>2
<1>8. Words(y) = f \o l
  <2>1. Words(y) = Words(x) \o Words(l)
    BY <1>6, WordsJoin
  <2> QED
    BY <1>4, <1>7, <2>1
<1>9. Whereabouts(msg) = When(msg.filename # <<>>, y)
  BY <1>1, <1>2, <1>3, <1>4, <1>5, <1>6, Zenon DEF Whereabouts
<1>10. <<>> \in T /\ Words(<<>>) = <<>>
  BY <1>2, WordsJoin, Tuples, WordsBare
<1>11. CASE msg.filename # <<>>
  BY <1>2, <1>4, <1>8, <1>9, <1>11, Zenon DEF When
<1>12. CASE ~(msg.filename # <<>>)
  BY <1>9, <1>10, <1>12, Zenon DEF When
<1> QED
  BY <1>11, <1>12

LEMMA RestTogether ==
    ASSUME NEW format, NEW msg,
           Are7(SeenName(msg), SeenSerial(format, msg), SeenModule(format, msg),
                SeenSubroutine(format, msg), SeenTime(format), SeenContext(format, msg),
                SeenPlace(format, msg))
    PROVE  (SeenName(msg) \o SeenSerial(format, msg) \o SeenFields(format, msg)) \o SeenPlace(format, msg)
              = SeenName(msg) \o SeenRest(format, msg)
<1>1. Regroups(SeenName(msg), SeenSerial(format, msg), SeenModule(format, msg),
               SeenSubroutine(format, msg), SeenTime(format), SeenContext(format, msg),
               SeenPlace(format, msg))
  BY SevenTogether
<1> QED
  BY <1>1, Zenon DEF Regroups, SeenRest, SeenFields

\* The words of a header are those of the message's parts.
LEMMA HeaderSeen ==
    ASSUME NEW format, NEW msg \in ErrorObjs, ~msg.verbatim,
           Worded(msg) /\ msg.filename \in Seq(Bare)
             /\ HeaderIn(Unbroken, msg) /\ msg.filename \in Seq(Unbroken)
    PROVE  Words(Header(Payload(format, msg))) = SeenName(msg) \o SeenRest(format, msg)
<1> DEFINE T == Seq(Symbols)
<1>1. PICK p \in T : p = FillPrefix(format, msg)
  <2>1. FillPrefix(format, msg) \in Seq(Unbroken)
    BY FillPrefixText, WordsUnbroken
  <2> QED
    BY <2>1, SeenMaps
<1>2. PICK l \in T : l = Whereabouts(msg)
                     /\ Words(l) = When(msg.filename # <<>>, msg.filename \o <<":", "line">>)
  BY PlaceSeen
<1>3. /\ {SeenName(msg), SeenSerial(format, msg)} \subseteq Seq(Symbols)
      /\ {SeenModule(format, msg), SeenSubroutine(format, msg), SeenTime(format),
          SeenContext(format, msg)} \subseteq Seq(Symbols)
  BY PrefixSeen, FieldsSeen
<1>4. Words(p) = SeenName(msg) \o SeenSerial(format, msg) \o SeenFields(format, msg)
  <2>1. Words(p) = Mapped(Seen, PrefixTokens(format, msg))
    BY <1>1, FillPrefixSeen
  <2> QED
    BY <2>1, PrefixSeen
<1>5. PICK place \in T : place = SeenPlace(format, msg)
  <2>1. When(msg.filename # <<>>, msg.filename \o <<":", "line">>) \in T
    BY <1>2, WordsJoin
  <2>2. SeenPlace(format, msg) = When(format.text, When(msg.filename # <<>>, msg.filename \o <<":", "line">>))
    BY Zenon DEF SeenPlace, When
  <2> QED
    BY <2>1, <2>2, WhenIs
<1>6. Words(Header(Payload(format, msg))) = Words(p) \o place
  <2>1. Header(Payload(format, msg)) = IF format.text THEN p \o l ELSE p
    BY <1>1, <1>2, PayloadReads
  <2>2. CASE format.text
    <3>1. Header(Payload(format, msg)) = p \o l
      BY <2>1, <2>2
    <3>2. Words(p \o l) = Words(p) \o Words(l)
      BY WordsJoin
    <3>3. place = Words(l)
      BY <1>2, <1>5, <2>2, Zenon DEF SeenPlace, When
    <3> QED
      BY <3>1, <3>2, <3>3
  <2>3. CASE ~format.text
    <3>1. Header(Payload(format, msg)) = p
      BY <2>1, <2>3
    <3>2. place = <<>>
      BY <1>5, <2>3, Zenon DEF SeenPlace, When
    <3>3. Words(p) \o <<>> = Words(p)
      BY WordsJoin, Regrouped
    <3> QED
      BY <3>1, <3>2, <3>3
  <2> QED
    BY <2>2, <2>3
<1>7. Are7(SeenName(msg), SeenSerial(format, msg), SeenModule(format, msg),
           SeenSubroutine(format, msg), SeenTime(format), SeenContext(format, msg),
           SeenPlace(format, msg))
  BY <1>3, <1>5 DEF Are7
<1> QED
  BY <1>4, <1>5, <1>6, <1>7, RestTogether, Zenon

LEMMA EarlySeen ==
    ASSUME NEW msg \in ErrorObjs, ~msg.verbatim, Worded(msg) /\ HeaderIn(Unbroken, msg)
    PROVE  Words(Header(EarlyText(msg))) = SeenName(msg)
<1> DEFINE T == Seq(Symbols)
           sym == Symbol(msg.severity)
<1>1. "%MSG" \in Bare /\ ":" \in Bare /\ sym \in Bare /\ SP \in Symbols /\ Bare \subseteq Symbols
  BY WordsBare, BareIs DEF Worded
<1> HIDE DEF sym
<1>2. PICK a \in T, b \in T : a = <<"%MSG", sym>> /\ b = <<"%MSG", sym, SP>> /\ b = Append(a, SP)
  <2>1. <<"%MSG", sym>> \in T /\ <<"%MSG", sym, SP>> \in T
    BY <1>1, LongTuples
  <2>2. Append(<<"%MSG", sym>>, SP) = <<"%MSG", sym, SP>>
    BY <1>1, Longer2
  <2> QED
    BY <2>1, <2>2
<1>3. PICK c \in T, d \in T : c = <<":">> /\ d = <<":", SP>> /\ d = Append(c, SP)
  <2>1. <<":">> \in T /\ <<":", SP>> \in T
    BY <1>1, LongTuples
  <2>2. Append(<<":">>, SP) = <<":", SP>>
    BY <1>1, Longer1
  <2> QED
    BY <2>1, <2>2
<1>4. \A s \in T : Words(Append(s, SP)) = Words(s)
  <2> TAKE s \in T
  <2>1. Words(Append(s, SP)) = Words(s) \o Word[SP]
    BY <1>1, WordsJoin
  <2>2. Word[SP] = <<>>
    BY <1>1, Zenon DEF Word
  <2>3. Words(s) \o <<>> = Words(s)
    BY WordsJoin, Regrouped
  <2> QED
    BY <2>1, <2>2, <2>3
<1>5. Words(b) = a /\ Words(d) = c
  <2>1. a \in Seq(Bare) /\ c \in Seq(Bare)
    BY <1>1, <1>2, <1>3, Tuples
  <2>2. Words(a) = a /\ Words(c) = c
    BY <2>1, BareIs
  <2> QED
    BY <1>2, <1>3, <1>4, <2>2
<1>6. PICK i \in T, v \in T : i = msg.id /\ v = msg.idOverflow /\ Words(i) = i /\ Words(v) = v
  <2>1. msg.id \in Seq(Bare) /\ msg.idOverflow \in Seq(Bare)
    BY DEF Worded
  <2> QED
    BY <2>1, BareIs
<1>7. PICK bi \in T : bi = b \o i /\ Words(bi) = a \o i
  <2>1. Words(b \o i) = Words(b) \o Words(i)
    BY WordsJoin
  <2> QED
    BY <1>5, <1>6, <2>1, Joined
<1>8. PICK biv \in T : biv = bi \o v /\ Words(biv) = (a \o i) \o v
  <2>1. Words(bi \o v) = Words(bi) \o Words(v)
    BY WordsJoin
  <2> QED
    BY <1>6, <1>7, <2>1, Joined
<1>9. Words(biv \o d) = ((a \o i) \o v) \o c
  <2>1. Words(biv \o d) = Words(biv) \o Words(d)
    BY WordsJoin
  <2> QED
    BY <1>5, <1>8, <2>1, Zenon
<1>10. Header(EarlyText(msg)) = biv \o d
  BY <1>2, <1>3, <1>6, <1>7, <1>8, EarlyReads, Zenon DEF sym
<1>11. SeenName(msg) = ((a \o i) \o v) \o c
  BY <1>2, <1>3, <1>6, Zenon DEF SeenName, sym
<1> QED
  BY <1>9, <1>10, <1>11

\* A message says what is printed of it.
Says(msg, p) ==
    /\ msg.serial = Decimal(p.serial)
    /\ msg.severity = p.statement.severity
    /\ msg.id \o msg.idOverflow = p.statement.category
    /\ msg.filename = BaseName(p.statement.file, FALSE)
    /\ msg.module = p.by.module
    /\ msg.iteration = p.by.iteration
    /\ msg.subroutine = Given(p.insertions)

LEMMA ExpectedSeen ==
    ASSUME NamesAreWords, NEW msg, Worded(msg), NEW p, p.insertions \in Seq(Insertions), Says(msg, p)
    PROVE  ExpectedHeader(p) =
             IF p.to = Nothing THEN SeenName(msg) ELSE SeenName(msg) \o SeenRest(p.to.format, msg)
<1> DEFINE f == p.to.format
           subroutine == ExpectedSubroutine(p.insertions)
           file == BaseName(p.statement.file, FALSE)
           rest == When(f.serial, <<"[serial #", Decimal(p.serial), "]">>)
                     \o When(f.module, p.by.module)
                     \o When(f.subroutine /\ subroutine # <<>>, subroutine \o <<"()">>)
                     \o When(f.timestamp, <<"time">>)
                     \o When(f.context, p.by.iteration)
                     \o When(f.text /\ file # <<>>, file \o <<":", "line">>)
           name == <<"%MSG", Symbol(p.statement.severity)>> \o p.statement.category \o <<":">>
<1>1. ExpectedHeader(p) = name \o When(~(p.to = Nothing), rest)
  BY Zenon DEF ExpectedHeader
<1>2. name = SeenName(msg)
  <2>1. PICK a, i, v : a = <<"%MSG", Symbol(msg.severity)>> /\ i = msg.id /\ v = msg.idOverflow
    OBVIOUS
  <2>2. Are3(a, i, v)
    <3>1. i \in Seq(Symbols) /\ v \in Seq(Symbols)
      BY <2>1, BareIs DEF Worded
    <3>2. "%MSG" \in Symbols /\ Symbol(msg.severity) \in Symbols
      BY BareIs DEF Worded
    <3>3. a \in Seq(Symbols)
      BY <2>1, <3>2, Tuples
    <3> QED
      BY <3>1, <3>3 DEF Are3
  <2>3. (a \o i) \o v = a \o (i \o v)
    BY <2>2, ThreeTogether
  <2>4. i \o v = p.statement.category /\ msg.severity = p.statement.severity
    BY <2>1 DEF Says
  <2> QED
    BY <2>1, <2>3, <2>4, Zenon DEF SeenName
<1>3. rest = SeenRest(f, msg)
  <2>1. /\ subroutine = Words(msg.subroutine)
        /\ (subroutine # <<>>) <=> (msg.subroutine # <<>>)
    BY SubroutineSeen DEF Says
  <2>2. /\ When(f.serial, <<"[serial #", Decimal(p.serial), "]">>) = SeenSerial(f, msg)
        /\ When(f.module, p.by.module) = SeenModule(f, msg)
        /\ When(f.timestamp, <<"time">>) = SeenTime(f)
        /\ When(f.context, p.by.iteration) = SeenContext(f, msg)
        /\ When(f.text /\ file # <<>>, file \o <<":", "line">>) = SeenPlace(f, msg)
    BY Zenon DEF Says, SeenSerial, SeenModule, SeenTime, SeenContext, SeenPlace
  <2>3. When(f.subroutine /\ subroutine # <<>>, subroutine \o <<"()">>) = SeenSubroutine(f, msg)
    <3> HIDE DEF subroutine
    <3> QED
      BY <2>1, Zenon DEF SeenSubroutine, When
  <2> HIDE DEF subroutine, file, f
  <2> QED
    BY <2>2, <2>3, Zenon DEF SeenRest
<1>4. SeenName(msg) \in Seq(Symbols)
  BY NameSeen
<1>5. SeenName(msg) \o <<>> = SeenName(msg)
  BY <1>4, Regrouped
<1> HIDE DEF name, rest, f
<1>6. CASE p.to = Nothing
  BY <1>1, <1>2, <1>5, <1>6, Zenon DEF When
<1>7. CASE p.to # Nothing
  BY <1>1, <1>2, <1>3, <1>7, Zenon DEF When, f
<1> QED
  BY <1>6, <1>7

LEMMA ReleaseShows ==
    ASSUME NamesAreWords, IInv, TextsRight, OwnNames,
           NEW t \in Threads, NEW n \in Loggers, Release(t, n)
    PROVE  HeaderReadsBack'
<1> USE DEF IInv
<1>1. PICK m \in Messages : m = logger[t][n]
  BY DEF Release
<1>2. PICK o \in ErrorObjs : o = object[m]
  BY WhatMessagesAre
<1>3. PICK s \in Sayings : s = said[m] /\ ObjectRight(o, s)
  BY <1>2 DEF ObjectsRight, ObjectRight
<1>4. TextRight(o, s, m) /\ m \in 1 .. MaxMsgs
  <2>1. m \in 1 .. Len(object) /\ Len(object) \in Nat /\ Len(object) <= MaxMsgs
    BY WhatMessagesAre DEF VarsType
  <2> QED
    BY <1>2, <1>3, <2>1, NumbersAssumption DEF TextsRight
<1>5. PICK names : names = [module |-> module[t], iteration |-> iteration[t]]
  OBVIOUS
<1>6. /\ names.module \in Modules \cup {Early} /\ names.iteration \in Iterations \cup {PreEvents}
      /\ names.module \in Texts /\ names.iteration \in Texts
      /\ own[t].module = names.module /\ own[t].iteration = names.iteration
  BY <1>5, ContextsAssumption DEF VarsType, OwnNames
<1>7. [o EXCEPT !.module = module[t], !.iteration = iteration[t]] = Signed(o, names)
  BY <1>5 DEF Signed
<1>8. s.statement \in Statements /\ s.insertions \in Seq(Insertions)
  BY DEF Sayings
<1>9. ASSUME ~s.statement.verbatim, NEW p, p.serial = m, p.by = own[t], p.statement = s.statement,
             p.insertions = s.insertions,
             NEW msg \in {Signed(o, names), FillNames(Signed(o, names), ProcessNames)}
      PROVE  /\ msg \in ErrorObjs /\ ~msg.verbatim /\ Says(msg, p)
             /\ Worded(msg) /\ msg.filename \in Seq(Bare)
             /\ HeaderIn(Unbroken, msg) /\ msg.filename \in Seq(Unbroken)
  <2>1. /\ msg \in ErrorObjs /\ SameHead(msg, o) /\ msg.subroutine = o.subroutine
        /\ msg.module = names.module /\ msg.iteration = names.iteration
    BY <1>6, SignedIs
  <2>2. ~msg.verbatim
    BY <1>4, <1>9, <2>1 DEF TextRight, SameHead
  <2>3. /\ Worded(msg) /\ msg.filename \in Seq(Bare)
        /\ HeaderIn(Unbroken, msg) /\ msg.filename \in Seq(Unbroken)
    <3>1. msg.module \in Modules \cup {Early} /\ msg.iteration \in Iterations \cup {PreEvents}
      BY <1>6, <2>1
    <3> QED
      BY <1>4, <2>1, <2>2, <3>1, HeaderWorded
  <2>4. msg.severity = s.statement.severity
    <3>1. ForMessage(s.statement.severity) = s.statement.severity
      BY <1>8 DEF NamesAreWords
    <3> QED
      BY <1>3, <2>1, <3>1 DEF ObjectRight, SameHead
  <2>5. s.statement.verbatim = FALSE
    BY <1>8, <1>9, StatementsAssumption
  <2>6. msg.filename = BaseName(s.statement.file, FALSE)
    BY <1>4, <2>1, <2>5, Zenon DEF TextRight, SameHead
  <2>7. Says(msg, p)
    BY <1>4, <1>6, <1>9, <2>1, <2>4, <2>6, Zenon DEF Says, TextRight, SameHead
  <2> QED
    BY <2>1, <2>2, <2>3, <2>7
<1> DEFINE p == printed'
<1>10. CASE isStarted
  <2>1. PICK dest \in Destinations :
          Prints(t, m, dest, Logged(dest, FillNames(Signed(o, names), ProcessNames)))
    BY <1>1, <1>2, <1>7, <1>10, Zenon DEF Release
  <2>2. PICK msg : msg = FillNames(Signed(o, names), ProcessNames)
    OBVIOUS
  <2>3. /\ p.to = dest /\ p.statement = s.statement /\ p.text = Logged(dest, msg)
        /\ p.insertions = s.insertions /\ p.serial = m /\ p.by = own[t]
    BY <1>3, <2>1, <2>2 DEF Prints
  <2> SUFFICES ASSUME OnStream', ~p.statement.verbatim
               PROVE  Words(Header(p.text)) = ExpectedHeader(p)
    BY Zenon DEF HeaderReadsBack
  <2>4. dest.kind = "ostream" /\ p.text # <<>> /\ dest # Nothing
    BY <2>3, DestinationsAssumption DEF OnStream
  <2>5. /\ msg \in ErrorObjs /\ ~msg.verbatim /\ Says(msg, p)
        /\ Worded(msg) /\ msg.filename \in Seq(Bare)
        /\ HeaderIn(Unbroken, msg) /\ msg.filename \in Seq(Unbroken)
    <3> HIDE DEF p
    <3> QED
      BY <1>9, <2>2, <2>3
  <2> HIDE DEF p
  <2>6. p.text = Payload(dest.format, msg)
    <3>1. Decimal(msg.pid) \in STRING
      <4>1. msg.pid \in {0, ProcessNames.pid}
        BY <1>3, <1>6, <2>2, SignedIs DEF ObjectRight
      <4> QED
        BY <4>1, NumbersAssumption
    <3> QED
      BY <2>3, <2>4, <2>5, <3>1, LoggedReads
  <2>7. Words(Header(Payload(dest.format, msg))) = SeenName(msg) \o SeenRest(dest.format, msg)
    BY <2>5, HeaderSeen
  <2>8. ExpectedHeader(p) =
          IF p.to = Nothing THEN SeenName(msg) ELSE SeenName(msg) \o SeenRest(p.to.format, msg)
    BY <1>8, <2>3, <2>5, ExpectedSeen
  <2> QED
    BY <2>3, <2>4, <2>6, <2>7, <2>8, Zenon
<1>11. CASE ~isStarted
  <2>1. Prints(t, m, Nothing, EarlyText(Signed(o, names)))
    BY <1>1, <1>2, <1>7, <1>11, Zenon DEF Release
  <2>2. PICK msg : msg = Signed(o, names)
    OBVIOUS
  <2>3. /\ p.to = Nothing /\ p.statement = s.statement /\ p.text = EarlyText(msg)
        /\ p.insertions = s.insertions /\ p.serial = m /\ p.by = own[t]
    BY <1>3, <2>1, <2>2 DEF Prints
  <2> SUFFICES ASSUME ~p.statement.verbatim
               PROVE  Words(Header(p.text)) = ExpectedHeader(p)
    BY Zenon DEF HeaderReadsBack
  <2> HIDE DEF p
  <2>4. /\ msg \in ErrorObjs /\ ~msg.verbatim /\ Says(msg, p)
        /\ Worded(msg) /\ HeaderIn(Unbroken, msg)
    BY <1>9, <2>2, <2>3
  <2>5. Words(Header(EarlyText(msg))) = SeenName(msg)
    BY <2>4, EarlySeen
  <2>6. ExpectedHeader(p) =
          IF p.to = Nothing THEN SeenName(msg) ELSE SeenName(msg) \o SeenRest(p.to.format, msg)
    BY <1>8, <2>3, <2>4, ExpectedSeen
  <2> QED
    BY <2>3, <2>5, <2>6, Zenon
<1> QED
  BY <1>10, <1>11

\* The header of a message, however its line is broken and whatever the format
\* leaves out, reads back as the message's: severity, category in full, the
\* module name and iteration of the thread that released it, as that thread
\* set them, subroutine and file (MaybeLogger_'s destructor, fillPrefix,
\* emitToken, LogErrorObj), if the names are words.
THEOREM HeadersReadBack == ASSUME NamesAreWords PROVE Spec => []HeaderReadsBack
<1>1. Init => HeaderReadsBack
  BY DEF Init, HeaderReadsBack, OnStream
<1>2. HeaderReadsBack /\ TextsRight /\ OwnNames /\ IInv /\ [Next]_vars => HeaderReadsBack'
  <2> SUFFICES ASSUME HeaderReadsBack, TextsRight, OwnNames, IInv, [Next]_vars PROVE HeaderReadsBack'
    OBVIOUS
  <2>1. ASSUME printed' = Nothing PROVE HeaderReadsBack'
    BY <2>1 DEF HeaderReadsBack, OnStream
  <2>2. CASE UNCHANGED vars
    BY <2>2 DEF vars, HeaderReadsBack, OnStream
  <2>3. ASSUME NEW t \in Threads, NEW n \in Loggers,
               \/ \E st \in Statements : Construct(t, n, st)
               \/ \E insertion \in Insertions : Insert(t, n, insertion)
               \/ \E u \in Threads, k \in Loggers : Move(t, n, u, k)
               \/ DestroyEmpty(t, n)
        PROVE  HeaderReadsBack'
    BY <2>1, <2>3, Zenon DEF Construct, Insert, Move, DestroyEmpty
  <2>4. ASSUME NEW t \in Threads, SetContext(t) PROVE HeaderReadsBack'
    BY <2>1, <2>4, Zenon DEF SetContext
  <2>5. CASE StartOrEnd
    BY <2>1, <2>5, Zenon DEF StartOrEnd
  <2>6. ASSUME NEW t \in Threads, NEW n \in Loggers, Release(t, n) PROVE HeaderReadsBack'
    BY <2>6, ReleaseShows
  <2> QED
    BY <2>2, <2>3, <2>4, <2>5, <2>6, Zenon DEF Next
<1>3. TextsRight /\ IInv /\ [Next]_vars => TextsRight'
  BY TextsStep
<1>4. OwnNames /\ IInv /\ [Next]_vars => OwnNames'
  BY OwnStep
<1> QED
  BY <1>1, <1>2, <1>3, <1>4, TextsFirst, OwnFirst, Invariant, PTL DEF Spec

--------------------------------------------------------------------------------
(***************************************************************************)
(* Where the fields of a header begin.  A line is open when what is        *)
(* written next is set apart from it: it is empty or ends with a space.    *)
(***************************************************************************)
SetApart(s) == \A i \in 2 .. Len(s) : s[i] \in FirstWords => s[i - 1] = SP
EndsOpen(s) == s = <<>> \/ s[Len(s)] = SP
Loose(s) == s = <<>> \/ s[1] \notin FirstWords
Once(s) == \A i \in 2 .. Len(s) : s[i] \notin FirstWords

LEMMA OnceApart == ASSUME NEW s, Once(s) PROVE SetApart(s)
BY DEF Once, SetApart

LEMMA JoinApart ==
    ASSUME NEW a \in Seq(Symbols), NEW b \in Seq(Symbols), SetApart(a), SetApart(b),
           Loose(b) \/ EndsOpen(a)
    PROVE  /\ a \o b \in Seq(Symbols) /\ SetApart(a \o b)
           /\ (b # <<>> \/ EndsOpen(a)) /\ EndsOpen(b) => EndsOpen(a \o b)
           /\ a # <<>> /\ Loose(a) => Loose(a \o b)
<1>1. PICK m \in Nat, n \in Nat : m = Len(a) /\ n = Len(b)
  OBVIOUS
<1>2. PICK c \in Seq(Symbols) : c = a \o b
  BY Joined
<1>3. /\ Len(c) = m + n
      /\ \A i \in 1 .. m : c[i] = a[i]
      /\ \A i \in 1 .. n : c[m + i] = b[i]
  BY <1>1, <1>2
<1>4. SetApart(c)
  <2> SUFFICES ASSUME NEW i \in 2 .. m + n, c[i] \in FirstWords PROVE c[i - 1] = SP
    BY <1>3 DEF SetApart
  <2>1. CASE i <= m
    BY <1>1, <1>3, <2>1 DEF SetApart
  <2>2. CASE i = m + 1
    <3>1. 1 \in 1 .. n /\ c[i] = b[1] /\ b # <<>> /\ m # 0 /\ a # <<>>
      <4>1. 1 \in 1 .. n /\ m # 0
        BY <2>2
      <4> QED
        BY <1>1, <1>3, <2>2, <4>1
    <3>2. EndsOpen(a)
      BY <3>1 DEF Loose
    <3>3. a[m] = SP /\ m \in 1 .. m /\ i - 1 = m
      BY <1>1, <2>2, <3>1, <3>2 DEF EndsOpen
    <3> QED
      BY <1>3, <3>3
  <2>3. CASE i > m + 1
    <3>1. PICK j \in 2 .. n : i = m + j
      <4>1. i - m \in 2 .. n /\ i = m + (i - m)
        BY <2>3
      <4> QED
        BY <4>1
    <3>2. c[i] = b[j] /\ j - 1 \in 1 .. n /\ i - 1 = m + (j - 1)
      BY <1>3, <3>1
    <3>3. b[j - 1] = SP
      BY <1>1, <3>1, <3>2 DEF SetApart
    <3> QED
      BY <1>3, <3>2, <3>3
  <2> QED
    BY <2>1, <2>2, <2>3
<1>5. ASSUME b # <<>> \/ EndsOpen(a), EndsOpen(b) PROVE EndsOpen(c)
  <2>1. CASE b = <<>>
    <3>1. c = a
      BY <1>2, <2>1, Regrouped
    <3> QED
      BY <1>5, <2>1, <3>1
  <2>2. CASE b # <<>>
    <3>1. n # 0 /\ b[n] = SP
      BY <1>1, <1>5, <2>2 DEF EndsOpen
    <3>2. n \in 1 .. n
      BY <3>1
    <3>3. c[Len(c)] = SP
      BY <1>3, <3>1, <3>2
    <3> QED
      BY <3>3 DEF EndsOpen
  <2> QED
    BY <2>1, <2>2
<1>6. ASSUME a # <<>>, Loose(a) PROVE Loose(c)
  BY <1>2, <1>6, FirstIs DEF Loose
<1> QED
  BY <1>2, <1>4, <1>5, <1>6

\* Spaces may be written anywhere, words of the layout too.
LEMMA BlankApart ==
    ASSUME FieldsTold, NEW s \in Seq({SP})
    PROVE  s \in Seq(Symbols) /\ SetApart(s) /\ EndsOpen(s) /\ Loose(s)
<1>1. SP \in Symbols /\ SP \notin FirstWords
  BY Zenon DEF Symbols, FieldsTold
<1>2. \A i \in 1 .. Len(s) : s[i] = SP
  OBVIOUS
<1>3. s \in Seq(Symbols)
  BY <1>1, Wider
<1>4. SetApart(s)
  BY <1>1, <1>2 DEF SetApart
<1>5. s # <<>> => 1 \in 1 .. Len(s) /\ Len(s) \in 1 .. Len(s)
  OBVIOUS
<1> QED
  BY <1>1, <1>2, <1>3, <1>4, <1>5 DEF EndsOpen, Loose

\* A line on which all fields are set apart.
ApartLine(line) == line.text \in Seq(Symbols) /\ SetApart(line.text)
OpenLine(line) == ApartLine(line) /\ EndsOpen(line.text)

Emitted(lineLength, line, s) == EmitToken(lineLength, line, s, FALSE, TRUE)

LEMMA EmitApart ==
    ASSUME FieldsTold, NEW lineLength, NEW line, ApartLine(line),
           NEW s \in Seq(Unbroken), SetApart(s), Loose(s) \/ OpenLine(line)
    PROVE  LET after == Emitted(lineLength, line, s)
           IN  /\ ApartLine(after)
               /\ (s # <<>> \/ OpenLine(line)) /\ EndsOpen(s) => OpenLine(after)
<1> DEFINE after == Emitted(lineLength, line, s)
<1>1. Writes(line.text, s, after.text)
  BY EmitTokenWrites DEF Emitted
<1> HIDE DEF after
<1>2. PICK before \in Seq(Symbols) : before = line.text /\ SetApart(before)
  BY DEF ApartLine
<1>3. PICK lead \in Seq({SP}), indent \in Seq({SP}) :
        after.text = IF s = <<>> THEN before ELSE before \o lead \o Body(s) \o indent \o <<>>
  BY <1>1, <1>2 DEF Writes
<1>4. s \in Seq(Symbols) /\ Body(s) = s
  <2>1. Unbroken \subseteq Symbols /\ NL \notin Unbroken
    BY Zenon DEF Unbroken, Breaks
  <2>2. s # <<>> => s[1] \in Unbroken
    OBVIOUS
  <2> QED
    BY <2>1, <2>2, Wider DEF Body
<1>5. CASE s = <<>>
  <2>1. after.text = line.text
    BY <1>2, <1>3, <1>5, Zenon
  <2>2. ApartLine(after) /\ (OpenLine(line) => OpenLine(after))
    BY <2>1, Zenon DEF ApartLine, OpenLine
  <2> QED
    BY <1>5, <2>2, Zenon DEF after
<1>6. CASE s # <<>>
  <2>1. /\ lead \in Seq(Symbols) /\ SetApart(lead) /\ EndsOpen(lead) /\ Loose(lead)
        /\ indent \in Seq(Symbols) /\ SetApart(indent) /\ EndsOpen(indent) /\ Loose(indent)
    BY BlankApart
  <2>2. PICK x \in Seq(Symbols) : x = before \o lead /\ SetApart(x) /\ (EndsOpen(before) => EndsOpen(x))
    BY <1>2, <2>1, JoinApart
  <2>3. Loose(s) \/ EndsOpen(x)
    BY <1>2, <2>2 DEF OpenLine
  <2>4. PICK y \in Seq(Symbols) : y = x \o s /\ SetApart(y) /\ (EndsOpen(s) => EndsOpen(y))
    BY <1>4, <1>6, <2>2, <2>3, JoinApart
  <2>5. PICK z \in Seq(Symbols) : z = y \o indent /\ SetApart(z) /\ (EndsOpen(y) => EndsOpen(z))
    BY <2>1, <2>4, JoinApart
  <2>6. z \o <<>> = z
    BY Regrouped
  <2>7. after.text = z
    BY <1>3, <1>4, <1>6, <2>2, <2>4, <2>5, <2>6, Zenon
  <2>8. ApartLine(after) /\ (EndsOpen(s) => OpenLine(after))
    BY <2>4, <2>5, <2>7, Zenon DEF ApartLine, OpenLine
  <2> QED
    BY <2>8, Zenon DEF after
<1> QED
  BY <1>5, <1>6

\* What is written of a line break leaves the line open.
LEMMA BreakOpen ==
    ASSUME FieldsTold, NEW lineLength, NEW line, OpenLine(line)
    PROVE  OpenLine(Emitted(lineLength, line, <<NL>>))
<1> DEFINE after == Emitted(lineLength, line, <<NL>>)
<1>1. <<NL>> \in Seq({NL}) /\ Body(<<NL>>) = <<>> /\ <<NL>> # <<>>
  BY DEF Body
<1>2. Writes(line.text, <<NL>>, after.text)
  BY <1>1, EmitTokenWrites DEF Emitted
<1> HIDE DEF after
<1>3. PICK lead \in Seq({SP}), indent \in Seq({SP}) :
        after.text = line.text \o lead \o <<>> \o indent \o <<>>
  BY <1>1, <1>2, Zenon DEF Writes
<1>4. /\ lead \in Seq(Symbols) /\ SetApart(lead) /\ EndsOpen(lead) /\ Loose(lead)
      /\ indent \in Seq(Symbols) /\ SetApart(indent) /\ EndsOpen(indent) /\ Loose(indent)
  BY BlankApart
<1>5. PICK x \in Seq(Symbols) : x = line.text \o lead /\ SetApart(x) /\ EndsOpen(x)
  BY <1>4, JoinApart DEF OpenLine, ApartLine
<1>6. PICK y \in Seq(Symbols) : y = x \o indent /\ SetApart(y) /\ EndsOpen(y)
  BY <1>4, <1>5, JoinApart
<1>7. x \o <<>> = x /\ y \o <<>> = y
  BY Regrouped
<1>8. after.text = y
  BY <1>3, <1>5, <1>6, <1>7
<1> QED
  BY <1>6, <1>8 DEF after, OpenLine, ApartLine

\* Tokens written one after the other take a line to the next.
Runs(lineLength, tokens, line, last) ==
    \E f : /\ f[0] = line
           /\ \A i \in 1 .. Len(tokens) : f[i] = Emitted(lineLength, f[i - 1], tokens[i])
           /\ f[Len(tokens)] = last

Tokens == Seq(Seq(Symbols))

LEMMA RunsJoin ==
    ASSUME NEW lineLength, NEW a \in Tokens, NEW b \in Tokens, NEW line, NEW last,
           Runs(lineLength, a \o b, line, last)
    PROVE  \E middle : Runs(lineLength, a, line, middle) /\ Runs(lineLength, b, middle, last)
<1>1. PICK m \in Nat, n \in Nat : m = Len(a) /\ n = Len(b)
  BY DEF Tokens
<1>2. PICK c \in Tokens : c = a \o b
  BY Joined DEF Tokens
<1>3. /\ Len(c) = m + n
      /\ \A i \in 1 .. m : c[i] = a[i]
      /\ \A i \in 1 .. n : c[m + i] = b[i]
  BY <1>1, <1>2 DEF Tokens
<1>4. PICK f : /\ f[0] = line
               /\ \A i \in 1 .. m + n : f[i] = Emitted(lineLength, f[i - 1], c[i])
               /\ f[m + n] = last
  BY <1>2, <1>3, Zenon DEF Runs
<1>5. \A i \in 1 .. m : f[i] = Emitted(lineLength, f[i - 1], a[i])
  <2> SUFFICES ASSUME NEW i \in 1 .. m PROVE f[i] = Emitted(lineLength, f[i - 1], a[i])
    OBVIOUS
  <2>1. i \in 1 .. m + n /\ c[i] = a[i]
    BY <1>3
  <2> QED
    BY <1>4, <2>1
<1>6. Runs(lineLength, a, line, f[m])
  BY <1>1, <1>4, <1>5, Zenon DEF Runs
<1> DEFINE g == [i \in 0 .. n |-> f[m + i]]
<1>7. g[0] = f[m] /\ g[n] = f[m + n]
  OBVIOUS
<1>8. \A i \in 1 .. n : g[i] = Emitted(lineLength, g[i - 1], b[i])
  <2> SUFFICES ASSUME NEW i \in 1 .. n PROVE g[i] = Emitted(lineLength, g[i - 1], b[i])
    OBVIOUS
  <2>1. m + i \in 1 .. m + n /\ (m + i) - 1 = m + (i - 1) /\ i - 1 \in 0 .. n /\ i \in 0 .. n
    OBVIOUS
  <2>2. f[m + i] = Emitted(lineLength, f[(m + i) - 1], c[m + i])
    BY <1>4, <2>1
  <2>3. c[m + i] = b[i]
    BY <1>3
  <2>4. g[i] = f[m + i] /\ g[i - 1] = f[m + (i - 1)]
    BY <2>1
  <2> QED
    BY <2>1, <2>2, <2>3, <2>4
<1> HIDE DEF g
<1>9. Runs(lineLength, b, f[m], last)
  BY <1>1, <1>4, <1>7, <1>8, Zenon DEF Runs
<1> QED
  BY <1>6, <1>9

LEMMA RunsFew ==
    ASSUME NEW lineLength, NEW line, NEW last
    PROVE  /\ Runs(lineLength, <<>>, line, last) => last = line
           /\ \A s : Runs(lineLength, <<s>>, line, last) => last = Emitted(lineLength, line, s)
<1>1. Len(<<>>) = 0
  OBVIOUS
<1>2. Runs(lineLength, <<>>, line, last) => last = line
  BY <1>1, Zenon DEF Runs
<1>3. ASSUME NEW s, Runs(lineLength, <<s>>, line, last) PROVE last = Emitted(lineLength, line, s)
  <2>1. Len(<<s>>) = 1 /\ <<s>>[1] = s /\ 1 \in 1 .. 1 /\ 1 - 1 = 0
    OBVIOUS
  <2>2. PICK f : /\ f[0] = line
                 /\ \A i \in 1 .. 1 : f[i] = Emitted(lineLength, f[i - 1], <<s>>[i])
                 /\ f[1] = last
    BY <1>3, <2>1 DEF Runs
  <2>3. f[1] = Emitted(lineLength, f[1 - 1], <<s>>[1])
    BY <2>1, <2>2, Zenon
  <2> QED
    BY <2>1, <2>2, <2>3
<1> QED
  BY <1>2, <1>3

\* Tokens after which an open line is open again.
Opens(lineLength, tokens) ==
    /\ tokens \in Tokens
    /\ \A line, last : OpenLine(line) /\ Runs(lineLength, tokens, line, last) => OpenLine(last)

LEMMA OpensJoin ==
    ASSUME NEW lineLength, NEW a, NEW b, Opens(lineLength, a), Opens(lineLength, b)
    PROVE  Opens(lineLength, a \o b)
<1>1. a \in Tokens /\ b \in Tokens
  BY DEF Opens
<1>2. a \o b \in Tokens
  BY <1>1, Joined DEF Tokens
<1>3. ASSUME NEW line, NEW last, OpenLine(line), Runs(lineLength, a \o b, line, last)
      PROVE  OpenLine(last)
  <2>1. PICK middle : Runs(lineLength, a, line, middle) /\ Runs(lineLength, b, middle, last)
    BY <1>1, <1>3, RunsJoin
  <2>2. OpenLine(middle)
    BY <1>3, <2>1 DEF Opens
  <2> QED
    BY <2>1, <2>2 DEF Opens
<1> QED
  BY <1>2, <1>3 DEF Opens

LEMMA OpensWhen ==
    ASSUME NEW lineLength, NEW condition, NEW tokens, condition => Opens(lineLength, tokens)
    PROVE  Opens(lineLength, When(condition, tokens))
<1>1. <<>> \in Tokens
  BY DEF Tokens
<1>2. \A line, last : Runs(lineLength, <<>>, line, last) => last = line
  BY RunsFew
<1>3. Opens(lineLength, <<>>)
  BY <1>1, <1>2, Zenon DEF Opens
<1> QED
  BY <1>3, Zenon DEF When

\* A token that ends with a space, a line break.
LEMMA OpensOne ==
    ASSUME FieldsTold, NEW lineLength
    PROVE  /\ \A s \in Seq(Unbroken) : SetApart(s) /\ EndsOpen(s) => Opens(lineLength, <<s>>)
           /\ Opens(lineLength, <<<<NL>>>>)
<1>1. ASSUME NEW s \in Seq(Unbroken), SetApart(s), EndsOpen(s) PROVE Opens(lineLength, <<s>>)
  <2>1. <<s>> \in Tokens
    BY SeenMaps, Tuples DEF Tokens
  <2>2. ASSUME NEW line, NEW last, OpenLine(line), Runs(lineLength, <<s>>, line, last)
        PROVE  OpenLine(last)
    <3>1. last = Emitted(lineLength, line, s)
      BY <2>2, RunsFew
    <3>2. ApartLine(line)
      BY <2>2 DEF OpenLine
    <3> QED
      BY <1>1, <2>2, <3>1, <3>2, EmitApart
  <2> QED
    BY <2>1, <2>2 DEF Opens
<1>2. Opens(lineLength, <<<<NL>>>>)
  <2>1. <<<<NL>>>> \in Tokens
    BY SeenMaps, Tuples DEF Tokens
  <2>2. ASSUME NEW line, NEW last, OpenLine(line), Runs(lineLength, <<<<NL>>>>, line, last)
        PROVE  OpenLine(last)
    <3>1. last = Emitted(lineLength, line, <<NL>>)
      BY <2>2, RunsFew, Zenon
    <3>2. OpenLine(Emitted(lineLength, line, <<NL>>))
      BY <2>2, BreakOpen
    <3> QED
      BY <3>1, <3>2
  <2> QED
    BY <2>1, <2>2 DEF Opens
<1> QED
  BY <1>1, <1>2

\* What a header is made of, told apart from the words that begin a field.
Tellable(msg) ==
    /\ HeaderIn(Unbroken, msg)
    /\ FirstWords \cap {SP, "%MSG", ":", "[serial #", msg.serial, "]", "()", "line",
                        Symbol(msg.severity)} = {}
    /\ SetApart(msg.id) /\ SetApart(msg.idOverflow) /\ (Loose(msg.idOverflow) \/ msg.id = <<>>)
    /\ SetApart(msg.module) /\ SetApart(msg.subroutine) /\ SetApart(msg.iteration)

\* A token of the layout.
LEMMA LayoutApart ==
    ASSUME NEW x \in Unbroken, x \notin FirstWords
    PROVE  /\ <<x>> \in Seq(Unbroken) /\ SetApart(<<x>>) /\ Loose(<<x>>) /\ <<x>> # <<>>
           /\ x = SP => EndsOpen(<<x>>)
           /\ \A y \in Unbroken \ FirstWords :
                /\ <<x, y>> \in Seq(Unbroken) /\ SetApart(<<x, y>>) /\ Loose(<<x, y>>)
                /\ <<x, y>> # <<>> /\ (y = SP => EndsOpen(<<x, y>>))
<1>1. PICK a \in Seq(Unbroken) : a = <<x>> /\ Len(a) = 1 /\ a[1] = x
  <2>1. <<x>> \in Seq(Unbroken)
    BY Tuples
  <2>2. Len(<<x>>) = 1 /\ <<x>>[1] = x
    OBVIOUS
  <2> QED
    BY <2>1, <2>2, Zenon
<1>2. SetApart(a) /\ Loose(a) /\ a # <<>> /\ (x = SP => EndsOpen(a))
  BY <1>1 DEF SetApart, Loose, EndsOpen
<1>3. ASSUME NEW y \in Unbroken, y \notin FirstWords
      PROVE  /\ <<x, y>> \in Seq(Unbroken) /\ SetApart(<<x, y>>) /\ Loose(<<x, y>>)
             /\ <<x, y>> # <<>> /\ (y = SP => EndsOpen(<<x, y>>))
  <2>1. PICK b \in Seq(Unbroken) : b = <<x, y>> /\ Len(b) = 2 /\ b[1] = x /\ b[2] = y
    <3>1. <<x, y>> \in Seq(Unbroken)
      BY Tuples
    <3>2. Len(<<x, y>>) = 2 /\ <<x, y>>[1] = x /\ <<x, y>>[2] = y
      OBVIOUS
    <3> QED
      BY <3>1, <3>2, Zenon
  <2>2. SetApart(b) /\ Loose(b) /\ b # <<>> /\ (y = SP => EndsOpen(b))
    BY <1>3, <2>1 DEF SetApart, Loose, EndsOpen
  <2> QED
    BY <2>1, <2>2
<1> QED
  BY <1>1, <1>2, <1>3

\* "%MSG", severity, category and ": ".
NameTokens(msg) ==
    <<<<"%MSG">>, <<Symbol(msg.severity)>>, <<SP>>, msg.id, msg.idOverflow, <<":", SP>>>>

LEMMA NameOpens ==
    ASSUME FieldsTold, NEW lineLength, NEW msg, Tellable(msg)
    PROVE  Opens(lineLength, NameTokens(msg))
<1>1. PICK sym \in Unbroken : sym = Symbol(msg.severity) /\ sym \notin FirstWords
  BY Zenon DEF Tellable, HeaderIn
<1>2. /\ "%MSG" \in Unbroken \ FirstWords /\ ":" \in Unbroken \ FirstWords
      /\ SP \in Unbroken \ FirstWords
  BY Zenon DEF Tellable, HeaderIn
<1>3. PICK s1, s2, s3, s4, s5, s6 \in Seq(Unbroken) :
        /\ s1 = <<"%MSG">> /\ s2 = <<sym>> /\ s3 = <<SP>> /\ s4 = msg.id
        /\ s5 = msg.idOverflow /\ s6 = <<":", SP>>
  <2>1. /\ <<"%MSG">> \in Seq(Unbroken) /\ <<sym>> \in Seq(Unbroken) /\ <<SP>> \in Seq(Unbroken)
        /\ <<":", SP>> \in Seq(Unbroken)
    BY <1>1, <1>2, Tuples
  <2>2. msg.id \in Seq(Unbroken) /\ msg.idOverflow \in Seq(Unbroken)
    BY Zenon DEF Tellable, HeaderIn
  <2> QED
    BY <2>1, <2>2, Zenon
<1>4. /\ SetApart(s1) /\ Loose(s1) /\ SetApart(s2) /\ Loose(s2) /\ SetApart(s3) /\ Loose(s3)
      /\ SetApart(s4) /\ SetApart(s5) /\ (Loose(s5) \/ s4 = <<>>)
      /\ SetApart(s6) /\ Loose(s6)
  <2>1. SetApart(s1) /\ Loose(s1) /\ SetApart(s2) /\ Loose(s2) /\ SetApart(s3) /\ Loose(s3)
    BY <1>1, <1>2, <1>3, LayoutApart
  <2>2. SetApart(s6) /\ Loose(s6)
    BY <1>2, <1>3, LayoutApart
  <2>3. SetApart(s4) /\ SetApart(s5) /\ (Loose(s5) \/ s4 = <<>>)
    BY <1>3, Zenon DEF Tellable
  <2> QED
    BY <2>1, <2>2, <2>3
<1>5. EndsOpen(s3) /\ s3 # <<>> /\ EndsOpen(s6) /\ s6 # <<>>
  <2>1. EndsOpen(s3) /\ s3 # <<>>
    BY <1>2, <1>3, LayoutApart
  <2>2. EndsOpen(s6) /\ s6 # <<>>
    BY <1>2, <1>3, LayoutApart
  <2> QED
    BY <2>1, <2>2
<1> DEFINE tokens == <<s1, s2, s3, s4, s5, s6>>
<1>6. NameTokens(msg) = tokens
  BY <1>1, <1>3, Zenon DEF NameTokens
<1>7. tokens \in Tokens
  <2>1. /\ s1 \in Seq(Symbols) /\ s2 \in Seq(Symbols) /\ s3 \in Seq(Symbols)
        /\ s4 \in Seq(Symbols) /\ s5 \in Seq(Symbols) /\ s6 \in Seq(Symbols)
    BY SeenMaps
  <2>2. ASSUME NEW S, NEW a \in S, NEW b \in S, NEW c \in S, NEW d \in S, NEW e \in S, NEW f \in S
        PROVE  <<a, b, c, d, e, f>> \in Seq(S)
    OBVIOUS
  <2> QED
    BY <2>1, <2>2, Zenon DEF Tokens
<1>8. ASSUME NEW line, NEW last, OpenLine(line), Runs(lineLength, tokens, line, last)
      PROVE  OpenLine(last)
  <2>1. /\ Len(tokens) = 6 /\ tokens[1] = s1 /\ tokens[2] = s2 /\ tokens[3] = s3
        /\ tokens[4] = s4 /\ tokens[5] = s5 /\ tokens[6] = s6
    OBVIOUS
  <2> HIDE DEF tokens
  <2>2. PICK f : /\ f[0] = line
                 /\ \A i \in 1 .. 6 : f[i] = Emitted(lineLength, f[i - 1], tokens[i])
                 /\ f[6] = last
    BY <1>8, <2>1, Zenon DEF Runs
  <2>3. /\ f[1] = Emitted(lineLength, f[0], s1) /\ f[2] = Emitted(lineLength, f[1], s2)
        /\ f[3] = Emitted(lineLength, f[2], s3) /\ f[4] = Emitted(lineLength, f[3], s4)
        /\ f[5] = Emitted(lineLength, f[4], s5) /\ f[6] = Emitted(lineLength, f[5], s6)
    BY <2>1, <2>2
  <2>4. ApartLine(f[0])
    BY <1>8, <2>2 DEF OpenLine
  <2>5. ApartLine(f[1])
    BY <1>4, <2>3, <2>4, EmitApart
  <2>6. ApartLine(f[2])
    BY <1>4, <2>3, <2>5, EmitApart
  <2>7. ApartLine(f[3]) /\ OpenLine(f[3])
    BY <1>4, <1>5, <2>3, <2>6, EmitApart
  <2>8. ApartLine(f[4]) /\ (s4 = <<>> => OpenLine(f[4]))
    <3>1. s4 = <<>> => EndsOpen(s4)
      BY DEF EndsOpen
    <3> QED
      BY <1>4, <2>3, <2>7, <3>1, EmitApart
  <2>9. ApartLine(f[5])
    BY <1>4, <2>3, <2>8, EmitApart
  <2>10. OpenLine(f[6])
    BY <1>4, <1>5, <2>3, <2>9, EmitApart
  <2> QED
    BY <2>2, <2>10
<1> HIDE DEF tokens
<1> QED
  BY <1>6, <1>7, <1>8 DEF Opens

LEMMA FieldOpens ==
    ASSUME FieldsTold, NEW lineLength, SP \in Unbroken, SP \notin FirstWords,
           NEW name \in Seq(Unbroken), SetApart(name)
    PROVE  Opens(lineLength, Field(name))
<1>1. /\ <<SP>> \in Seq(Unbroken) /\ <<SP>> \in Seq(Symbols) /\ name \in Seq(Symbols)
      /\ SetApart(<<SP>>) /\ Loose(<<SP>>) /\ EndsOpen(<<SP>>) /\ <<SP>> # <<>>
  BY LayoutApart, SeenMaps
<1>2. PICK x \in Seq(Unbroken) : x = name \o <<SP>>
  BY <1>1, Joined
<1>3. SetApart(x) /\ EndsOpen(x)
  BY <1>1, <1>2, JoinApart
<1>4. Opens(lineLength, <<x>>)
  BY <1>3, OpensOne
<1> QED
  BY <1>2, <1>4, Zenon DEF Field

\* The fields but for the iteration, which ends the header's prefix.
OpenFields(format, msg) ==
    When(format.module /\ msg.module # <<>>, Field(msg.module))
      \o When(format.subroutine /\ msg.subroutine # <<>>, Field(msg.subroutine \o <<"()">>))
      \o When(format.timestamp, When(format.timeSeparate, <<<<NL>>>>) \o Field(<<"time">>))

LEMMA FieldsOpen ==
    ASSUME FieldsTold, NEW format, NEW msg, Tellable(msg)
    PROVE  Opens(format.lineLength, OpenFields(format, msg))
<1> DEFINE a == When(format.module /\ msg.module # <<>>, Field(msg.module))
           b == When(format.subroutine /\ msg.subroutine # <<>>, Field(msg.subroutine \o <<"()">>))
           c1 == When(format.timeSeparate, <<<<NL>>>>)
           c2 == Field(<<"time">>)
           c == When(format.timestamp, c1 \o c2)
<1>1. PICK n : n = format.lineLength
  OBVIOUS
<1>2. /\ SP \in Unbroken /\ SP \notin FirstWords /\ "()" \in Unbroken /\ "()" \notin FirstWords
      /\ "time" \in Unbroken
  BY Zenon DEF Tellable, HeaderIn
<1>3. /\ msg.module \in Seq(Unbroken) /\ SetApart(msg.module)
      /\ msg.subroutine \in Seq(Unbroken) /\ SetApart(msg.subroutine)
  BY Zenon DEF Tellable, HeaderIn
<1>4. Opens(n, a)
  BY <1>2, <1>3, FieldOpens, OpensWhen
<1>5. Opens(n, b)
  <2>1. /\ <<"()">> \in Seq(Unbroken) /\ SetApart(<<"()">>) /\ Loose(<<"()">>)
    BY <1>2, LayoutApart
  <2>2. PICK x \in Seq(Unbroken) : x = msg.subroutine \o <<"()">>
    BY <1>3, <2>1, Joined
  <2>3. SetApart(x)
    <3>1. msg.subroutine \in Seq(Symbols) /\ <<"()">> \in Seq(Symbols)
      BY <1>3, <2>1, SeenMaps
    <3> QED
      BY <1>3, <2>1, <2>2, <3>1, JoinApart
  <2>4. Opens(n, Field(x))
    BY <1>2, <2>3, FieldOpens
  <2> QED
    BY <2>2, <2>4, OpensWhen
<1>6. Opens(n, c)
  <2>1. <<"time">> \in Seq(Unbroken)
    BY <1>2, Tuples
  <2>2. SetApart(<<"time">>)
    <3>1. Len(<<"time">>) = 1
      OBVIOUS
    <3>2. 2 .. 1 = {}
      OBVIOUS
    <3> QED
      BY <3>1, <3>2, Zenon DEF SetApart
  <2>3. Opens(n, c2)
    BY <1>2, <2>1, <2>2, FieldOpens
  <2>4. Opens(n, c1)
    BY OpensOne, OpensWhen
  <2> HIDE DEF c1, c2
  <2>5. Opens(n, c1 \o c2)
    BY <2>3, <2>4, OpensJoin
  <2> QED
    BY <2>5, OpensWhen
<1> HIDE DEF a, b, c
<1>7. Opens(n, a \o b)
  BY <1>4, <1>5, OpensJoin
<1>8. Opens(n, (a \o b) \o c)
  BY <1>6, <1>7, OpensJoin
<1> QED
  BY <1>1, <1>8, Zenon DEF OpenFields, a, b, c

\* All of a header that fillPrefix writes.
LEMMA PrefixApart ==
    ASSUME FieldsTold, NEW format, NEW msg, Tellable(msg), ~msg.verbatim
    PROVE  FillPrefix(format, msg) \in Seq(Symbols) /\ SetApart(FillPrefix(format, msg))
<1> DEFINE fields == Fields(format, msg)
           apart == IF EpilogueBreak(format, msg) THEN <<<<NL>>>>
                    ELSE When(fields # <<>> /\ fields[1] # <<NL>>, <<<<SP>>>>)
           serial == When(format.serial, <<<<"[serial #", msg.serial, "]", SP>>>>)
           opening == OpenFields(format, msg)
           context == When(format.context, <<msg.iteration>>)
<1>1. PICK n : n = format.lineLength
  OBVIOUS
<1>2. /\ "[serial #" \in Unbroken /\ "[serial #" \notin FirstWords
      /\ msg.serial \in Unbroken /\ msg.serial \notin FirstWords
      /\ "]" \in Unbroken /\ "]" \notin FirstWords /\ SP \in Unbroken /\ SP \notin FirstWords
      /\ msg.iteration \in Seq(Unbroken) /\ SetApart(msg.iteration)
  BY Zenon DEF Tellable, HeaderIn
<1>3. Opens(n, serial)
  <2>1. ASSUME NEW a \in Unbroken, NEW b \in Unbroken \ FirstWords, NEW c \in Unbroken \ FirstWords,
               SP \in Unbroken \ FirstWords
        PROVE  Opens(n, <<<<a, b, c, SP>>>>)
    <3>1. PICK z \in Seq(Unbroken) : z = <<a, b, c, SP>>
      BY <2>1, Tuples
    <3>2. Len(z) = 4 /\ z[2] = b /\ z[3] = c /\ z[4] = SP
      BY <3>1
    <3>3. \A i \in 2 .. 4 : i = 2 \/ i = 3 \/ i = 4
      OBVIOUS
    <3>4. \A i \in 2 .. 4 : z[i] \notin FirstWords
      BY <2>1, <3>2, <3>3
    <3>5. SetApart(z) /\ EndsOpen(z)
      BY <3>2, <3>4, Zenon DEF SetApart, EndsOpen
    <3> QED
      BY <3>1, <3>5, OpensOne, Zenon
  <2> QED
    BY <1>2, <2>1, OpensWhen, Zenon
<1>4. Opens(n, apart)
  <2>1. Opens(n, <<<<NL>>>>)
    BY OpensOne
  <2>2. Opens(n, <<<<SP>>>>)
    BY <1>2, OpensOne, LayoutApart
  <2> HIDE DEF fields
  <2>3. Opens(n, When(fields # <<>> /\ fields[1] # <<NL>>, <<<<SP>>>>))
    BY <2>2, OpensWhen
  <2> QED
    BY <2>1, <2>3, Zenon
<1>5. Opens(n, opening)
  BY <1>1, FieldsOpen
<1>6. PICK front : front = NameTokens(msg) \o serial \o apart /\ Opens(n, front)
  <2>1. Opens(n, NameTokens(msg))
    BY NameOpens
  <2> HIDE DEF serial, apart
  <2>2. Opens(n, NameTokens(msg) \o serial)
    BY <1>3, <2>1, OpensJoin
  <2>3. Opens(n, (NameTokens(msg) \o serial) \o apart)
    BY <1>4, <2>2, OpensJoin
  <2> QED
    BY <2>3
<1>7. context \in Tokens
  <2>1. <<msg.iteration>> \in Tokens
    BY <1>2, SeenMaps, Tuples DEF Tokens
  <2> QED
    BY <2>1, WhenIs DEF Tokens
<1>8. fields = opening \o context
  BY Zenon DEF Fields, OpenFields
<1>9. PrefixTokens(format, msg) = front \o fields
  BY <1>6, Zenon DEF PrefixTokens, NameTokens
<1> HIDE DEF fields, apart, serial, opening, context
<1>10. front \in Tokens /\ opening \in Tokens /\ fields \in Tokens
  BY <1>5, <1>6, <1>7, <1>8, Joined DEF Opens, Tokens
<1>11. PICK tokens \in Tokens : tokens = PrefixTokens(format, msg) /\ Len(tokens) \in Nat
  <2>1. front \o fields \in Tokens
    BY <1>10, Joined DEF Tokens
  <2>2. \A s \in Tokens : Len(s) \in Nat
    BY DEF Tokens
  <2> QED
    BY <1>9, <2>1, <2>2, Zenon
<1>12. PICK last : Runs(n, tokens, NewLine, last) /\ FillPrefix(format, msg) = last.text
  <2>1. PICK f : /\ f[0] = NewLine
                 /\ \A i \in 1 .. Len(tokens) :
                      f[i] = EmitToken(format.lineLength, f[i - 1], tokens[i], FALSE, TRUE)
                 /\ FillPrefix(format, msg) = IF msg.verbatim THEN <<>> ELSE f[Len(tokens)].text
    BY <1>11, FillPrefixIs, Zenon
  <2>2. Runs(n, tokens, NewLine, f[Len(tokens)])
    BY <1>1, <2>1, Zenon DEF Runs, Emitted
  <2> QED
    BY <2>1, <2>2
<1>13. PICK middle : Runs(n, front, NewLine, middle) /\ Runs(n, fields, middle, last)
  BY <1>9, <1>10, <1>11, <1>12, RunsJoin
<1>14. PICK open : Runs(n, opening, middle, open) /\ Runs(n, context, open, last)
  BY <1>7, <1>8, <1>10, <1>13, RunsJoin
<1>15. OpenLine(NewLine)
  <2>1. NewLine.text = <<>> /\ <<>> \in Seq(Symbols)
    BY DEF NewLine
  <2>2. SetApart(<<>>)
    BY DEF SetApart
  <2> QED
    BY <2>1, <2>2 DEF OpenLine, ApartLine, EndsOpen
<1>16. OpenLine(open)
  BY <1>5, <1>6, <1>13, <1>14, <1>15, Zenon DEF Opens
<1>17. ApartLine(last)
  <2>1. CASE format.context
    <3>1. Runs(n, <<msg.iteration>>, open, last)
      BY <1>14, <2>1, Zenon DEF context, When
    <3>2. last = Emitted(n, open, msg.iteration)
      BY <3>1, RunsFew, Zenon
    <3>3. ApartLine(open)
      BY <1>16 DEF OpenLine
    <3> QED
      BY <1>2, <1>16, <3>2, <3>3, EmitApart
  <2>2. CASE ~format.context
    <3>1. Runs(n, <<>>, open, last)
      BY <1>14, <2>2, Zenon DEF context, When
    <3>2. last = open
      BY <3>1, RunsFew, Zenon
    <3> QED
      BY <1>16, <3>2 DEF OpenLine
  <2> QED
    BY <2>1, <2>2
<1> QED
  BY <1>12, <1>17 DEF ApartLine

\* What of the header fillUsrMsg writes.
LEMMA PlaceApart ==
    ASSUME NEW msg \in ErrorObjs, Tellable(msg), msg.filename \in Seq(Unbroken), SetApart(msg.filename)
    PROVE  /\ Whereabouts(msg) \in Seq(Symbols) /\ SetApart(Whereabouts(msg))
           /\ Loose(Whereabouts(msg))
<1>1. /\ SP \in Unbroken /\ SP \notin FirstWords /\ ":" \in Unbroken /\ ":" \notin FirstWords
      /\ "line" \in Unbroken /\ "line" \notin FirstWords
  BY WordsUnbroken, Zenon DEF Tellable, HeaderIn
<1>2. msg.lineNumber = "line"
  BY DEF ErrorObjs
<1>3. PICK a \in Seq(Symbols), b \in Seq(Symbols), c \in Seq(Symbols) :
        /\ a = <<SP>> /\ b = msg.filename /\ c = <<":", "line">>
        /\ SetApart(a) /\ Loose(a) /\ EndsOpen(a) /\ a # <<>> /\ SetApart(b) /\ SetApart(c) /\ Loose(c)
  <2>1. /\ <<SP>> \in Seq(Unbroken) /\ SetApart(<<SP>>) /\ Loose(<<SP>>) /\ EndsOpen(<<SP>>) /\ <<SP>> # <<>>
    BY <1>1, LayoutApart
  <2>2. /\ <<":", "line">> \in Seq(Unbroken) /\ SetApart(<<":", "line">>) /\ Loose(<<":", "line">>)
    BY <1>1, LayoutApart
  <2>3. /\ <<SP>> \in Seq(Symbols) /\ msg.filename \in Seq(Symbols) /\ <<":", "line">> \in Seq(Symbols)
    BY <2>1, <2>2, SeenMaps
  <2> QED
    BY <2>1, <2>2, <2>3, Zenon
<1>4. PICK x \in Seq(Symbols) : x = a \o b /\ SetApart(x) /\ Loose(x)
  BY <1>3, JoinApart
<1>5. x # <<>>
  BY <1>3, <1>4, FirstIs
<1>6. PICK y \in Seq(Symbols) : y = x \o c /\ SetApart(y) /\ Loose(y)
  BY <1>3, <1>4, <1>5, JoinApart
<1>7. Whereabouts(msg) = IF msg.filename # <<>> THEN y ELSE <<>>
  BY <1>2, <1>3, <1>4, <1>6, Zenon DEF Whereabouts, When
<1>8. <<>> \in Seq(Symbols) /\ SetApart(<<>>) /\ Loose(<<>>)
  BY DEF SetApart, Loose
<1> QED
  BY <1>6, <1>7, <1>8, Zenon

\* The header that LogErrorObj writes.
LEMMA EarlyApart ==
    ASSUME NEW msg, Tellable(msg)
    PROVE  SetApart(<<"%MSG", Symbol(msg.severity), SP>> \o msg.id \o msg.idOverflow \o <<":", SP>>)
<1>1. PICK sym \in Unbroken : sym = Symbol(msg.severity) /\ sym \notin FirstWords
  BY Zenon DEF Tellable, HeaderIn
<1>2. /\ "%MSG" \in Unbroken /\ ":" \in Unbroken /\ ":" \notin FirstWords
      /\ SP \in Unbroken /\ SP \notin FirstWords
  BY Zenon DEF Tellable, HeaderIn
<1>3. PICK a \in Seq(Unbroken) : a = <<"%MSG", sym, SP>> /\ SetApart(a) /\ EndsOpen(a)
  <2>1. ASSUME NEW c \in Unbroken PROVE <<c, sym, SP>> \in Seq(Unbroken)
    BY <1>2
  <2>2. PICK a \in Seq(Unbroken) : a = <<"%MSG", sym, SP>>
    BY <1>2, <2>1
  <2>3. Len(a) = 3 /\ a[2] = sym /\ a[3] = SP
    BY <2>2
  <2>4. \A i \in 2 .. 3 : i = 2 \/ i = 3
    OBVIOUS
  <2>5. \A i \in 2 .. 3 : a[i] \notin FirstWords
    BY <1>1, <1>2, <2>3, <2>4
  <2>6. SetApart(a) /\ EndsOpen(a)
    BY <2>3, <2>5, Zenon DEF SetApart, EndsOpen
  <2> QED
    BY <2>2, <2>6
<1>4. PICK i \in Seq(Unbroken), v \in Seq(Unbroken) :
        /\ i = msg.id /\ v = msg.idOverflow /\ SetApart(i) /\ SetApart(v)
        /\ Loose(v) \/ i = <<>>
  BY Zenon DEF Tellable, HeaderIn
<1>5. PICK c \in Seq(Unbroken) : c = <<":", SP>> /\ SetApart(c) /\ Loose(c)
  BY <1>2, LayoutApart
<1>6. a \in Seq(Symbols) /\ i \in Seq(Symbols) /\ v \in Seq(Symbols) /\ c \in Seq(Symbols)
  BY SeenMaps
<1>7. PICK x \in Seq(Symbols) : x = a \o i /\ SetApart(x) /\ (i = <<>> => EndsOpen(x))
  <2>1. i = <<>> => a \o i = a
    BY <1>6, Regrouped
  <2>2. a \o i \in Seq(Symbols) /\ SetApart(a \o i)
    BY <1>3, <1>4, <1>6, JoinApart
  <2> QED
    BY <1>3, <2>1, <2>2
<1>8. PICK y \in Seq(Symbols) : y = x \o v /\ SetApart(y)
  BY <1>4, <1>6, <1>7, JoinApart
<1>9. SetApart(y \o c)
  BY <1>5, <1>6, <1>8, JoinApart
<1> QED
  BY <1>1, <1>3, <1>4, <1>5, <1>7, <1>8, <1>9, Zenon

\* A category is cut between two words.
LEMMA CutApart ==
    ASSUME NEW a \in Seq(Symbols), NEW b \in Seq(Symbols), Once(a \o b)
    PROVE  SetApart(a) /\ SetApart(b) /\ (Loose(b) \/ a = <<>>)
<1>1. PICK m \in Nat, n \in Nat : m = Len(a) /\ n = Len(b)
  OBVIOUS
<1>2. PICK c \in Seq(Symbols) : c = a \o b
  BY Joined
<1>3. /\ Len(c) = m + n
      /\ \A i \in 1 .. m : c[i] = a[i]
      /\ \A i \in 1 .. n : c[m + i] = b[i]
  BY <1>1, <1>2
<1>4. \A i \in 2 .. m + n : c[i] \notin FirstWords
  BY <1>2, <1>3 DEF Once
<1>5. SetApart(a)
  <2>1. \A i \in 2 .. m : i \in 2 .. m + n /\ i \in 1 .. m
    OBVIOUS
  <2>2. Once(a)
    BY <1>1, <1>3, <1>4, <2>1 DEF Once
  <2> QED
    BY <2>2, OnceApart
<1>6. SetApart(b)
  <2>1. \A i \in 2 .. n : m + i \in 2 .. m + n /\ i \in 1 .. n
    OBVIOUS
  <2>2. Once(b)
    BY <1>1, <1>3, <1>4, <2>1 DEF Once
  <2> QED
    BY <2>2, OnceApart
<1>7. ASSUME a # <<>> PROVE Loose(b)
  <2> SUFFICES ASSUME b # <<>> PROVE b[1] \notin FirstWords
    BY DEF Loose
  <2>1. m # 0 /\ n # 0
    BY <1>1, <1>7
  <2>2. 1 \in 1 .. n /\ m + 1 \in 2 .. m + n
    BY <2>1
  <2> QED
    BY <1>3, <1>4, <2>2
<1> QED
  BY <1>5, <1>6, <1>7

LEMMA MoreWords ==
    ASSUME NEW s \in Seq(Symbols), NEW x \in Symbols, x # SP
    PROVE  /\ Append(s, x) \in Seq(Symbols) /\ Words(s) \in Seq(Symbols)
           /\ Words(Append(s, x)) = Append(Words(s), x)
<1>1. PICK w \in Seq(Symbols) : w = Words(s)
  BY WordsJoin
<1>2. Words(Append(s, x)) = w \o Word[x] /\ Append(s, x) \in Seq(Symbols)
  BY <1>1, WordsJoin
<1>3. Word[x] = <<x>>
  BY Zenon DEF Word
<1>4. w \o <<x>> = Append(w, x)
  BY AppendIs
<1> QED
  BY <1>1, <1>2, <1>3, <1>4, Zenon

\* Of a name in several words, only the first begins a field: so does then only
\* what a space precedes.
LEMMA WordsApart ==
    ASSUME FieldsTold, NEW s \in Seq(Symbols), Once(Words(s))
    PROVE  SetApart(s)
<1> SUFFICES ASSUME NEW i \in 2 .. Len(s), s[i] \in FirstWords, s[i - 1] # SP PROVE FALSE
  BY DEF SetApart
<1>1. SP \notin FirstWords
  BY Zenon DEF FieldsTold
<1>2. PICK n \in Nat, k \in Nat : i = k + 2 /\ n = Len(s) /\ k + 2 <= n
  <2>1. Len(s) \in Nat /\ i - 2 \in Nat /\ i = (i - 2) + 2
    OBVIOUS
  <2> QED
    BY <2>1
<1>3. PICK p \in Seq(Symbols), q \in Seq(Symbols) :
        /\ Len(p) = k /\ Len(q) = n - (k + 2)
        /\ \A j \in 1 .. k : p[j] = s[j]
        /\ \A j \in 1 .. n - (k + 2) : q[j] = s[(k + 2) + j]
  <2> DEFINE p == [j \in 1 .. k |-> s[j]]
             q == [j \in 1 .. n - (k + 2) |-> s[(k + 2) + j]]
  <2>1. n - (k + 2) \in Nat
    BY <1>2
  <2>2. \A j \in 1 .. k : s[j] \in Symbols
    BY <1>2
  <2>3. \A j \in 1 .. n - (k + 2) : s[(k + 2) + j] \in Symbols
    BY <1>2
  <2>4. p \in Seq(Symbols) /\ Len(p) = k
    BY <2>2
  <2>5. q \in Seq(Symbols) /\ Len(q) = n - (k + 2)
    BY <2>1, <2>3
  <2>6. \A j \in 1 .. k : p[j] = s[j]
    OBVIOUS
  <2>7. \A j \in 1 .. n - (k + 2) : q[j] = s[(k + 2) + j]
    OBVIOUS
  <2> HIDE DEF p, q
  <2> QED
    BY <2>4, <2>5, <2>6, <2>7
<1>4. PICK x \in Symbols, y \in Symbols : x = s[k + 1] /\ y = s[k + 2] /\ x # SP /\ y # SP /\ y \in FirstWords
  <2>1. k + 1 \in 1 .. Len(s) /\ k + 2 \in 1 .. Len(s) /\ i - 1 = k + 1
    BY <1>2
  <2> QED
    BY <1>1, <1>2, <2>1
<1>5. PICK u \in Seq(Symbols), v \in Seq(Symbols) : u = Append(Append(p, x), y) /\ v = u \o q
  BY Appended, Joined
<1>6. s = v
  <2>1. /\ Len(u) = k + 2 /\ u[k + 1] = x /\ u[k + 2] = y
        /\ \A j \in 1 .. k : u[j] = p[j]
    <3>1. PICK px \in Seq(Symbols) : px = Append(p, x)
      BY Appended
    <3>2. Len(px) = k + 1 /\ px[k + 1] = x /\ \A j \in 1 .. k : px[j] = p[j]
      BY <1>3, <3>1, Appended
    <3>3. u = Append(px, y)
      BY <1>5, <3>1, Zenon
    <3> QED
      BY <3>2, <3>3
  <2>2. Len(v) = n
    <3>1. Len(v) = Len(u) + Len(q)
      BY <1>5
    <3> QED
      BY <1>2, <1>3, <2>1, <3>1
  <2>3. \A j \in 1 .. k + 2 : v[j] = u[j]
    BY <1>5, <2>1
  <2>4. \A j \in 1 .. n - (k + 2) : v[(k + 2) + j] = q[j]
    BY <1>3, <1>5, <2>1
  <2>5. ASSUME NEW j \in 1 .. n PROVE s[j] = v[j]
    <3>1. CASE j <= k
      BY <1>3, <2>1, <2>3, <3>1
    <3>2. CASE j = k + 1
      BY <1>4, <2>1, <2>3, <3>2
    <3>3. CASE j = k + 2
      BY <1>4, <2>1, <2>3, <3>3
    <3>4. CASE j > k + 2
      <4>1. PICK l \in 1 .. n - (k + 2) : j = (k + 2) + l
        <5>1. j - (k + 2) \in 1 .. n - (k + 2) /\ j = (k + 2) + (j - (k + 2))
          BY <1>2, <3>4
        <5> QED
          BY <5>1
      <4> QED
        BY <1>3, <2>4, <4>1
    <3>5. j <= k \/ j = k + 1 \/ j = k + 2 \/ j > k + 2
      OBVIOUS
    <3> QED
      BY <3>1, <3>2, <3>3, <3>4, <3>5, Zenon
  <2> QED
    BY <1>2, <2>2, <2>5, SameSeq
<1>7. PICK a \in Seq(Symbols), b \in Seq(Symbols) : a = Words(p) /\ b = Words(q)
  BY WordsJoin
<1>8. PICK px \in Seq(Symbols), ax \in Seq(Symbols) :
        px = Append(p, x) /\ ax = Append(a, x) /\ Words(px) = ax
  <2>1. Append(p, x) \in Seq(Symbols) /\ Words(Append(p, x)) = Append(a, x)
    BY <1>4, <1>7, MoreWords, Zenon
  <2>2. Append(a, x) \in Seq(Symbols)
    BY Appended
  <2> QED
    BY <2>1, <2>2, Zenon
<1>9. PICK ay \in Seq(Symbols) : u = Append(px, y) /\ ay = Append(ax, y) /\ Words(u) = ay
  <2>1. Append(px, y) \in Seq(Symbols) /\ Words(Append(px, y)) = Append(ax, y)
    BY <1>4, <1>8, MoreWords, Zenon
  <2>2. Append(ax, y) \in Seq(Symbols)
    BY Appended
  <2>3. u = Append(px, y)
    BY <1>5, <1>8, Zenon
  <2> QED
    BY <2>1, <2>2, <2>3, Zenon
<1>10. PICK w \in Seq(Symbols) : w = Words(s) /\ w = ay \o b
  <2>1. Words(u \o q) = Words(u) \o Words(q)
    BY WordsJoin
  <2> QED
    BY <1>5, <1>6, <1>7, <1>9, <2>1, Joined
<1>11. PICK m \in Nat : m = Len(a)
  OBVIOUS
<1>12. Len(ax) = m + 1
  BY <1>8, <1>11
<1>13. Len(ay) = m + 2 /\ ay[m + 2] = y
  BY <1>9, <1>12
<1>14. m + 2 \in 2 .. Len(w) /\ w[m + 2] = y
  BY <1>10, <1>13
<1> QED
  BY <1>4, <1>10, <1>14 DEF Once

LEMMA SubroutineApart ==
    ASSUME NamesUnbroken, FieldsTold, NEW s \in Seq(Insertions)
    PROVE  /\ SetApart(Given(s))
           /\ ExpectedSubroutine(s) = <<>> \/ ExpectedSubroutine(s) \in FieldNames
<1>1. PICK j : j = Last1(SubroutinesIn(s))
  OBVIOUS
<1>2. j \in 0 .. Len(s) /\ (j # 0 => j \in SubroutinesIn(s))
  <2>1. SubroutinesIn(s) \in SUBSET (1 .. Len(s)) /\ Len(s) \in Nat
    BY DEF SubroutinesIn
  <2> QED
    BY <1>1, <2>1, LastOfMore
<1>3. /\ Given(s) = IF j = 0 THEN <<>> ELSE Stripped(Tail(s[j].text))
      /\ ExpectedSubroutine(s) = IF j = 0 THEN <<>> ELSE Words(Tail(s[j].text))
  <2>1. SelectLastInSeq(s, IsSubroutine) = j
    BY <1>1, LastSubroutineIs
  <2> QED
    BY <2>1, Zenon DEF Given, ExpectedSubroutine
<1>4. CASE j = 0
  <2>1. SetApart(<<>>)
    BY DEF SetApart
  <2> QED
    BY <1>3, <1>4, <2>1, Zenon
<1>5. CASE j # 0
  <2>1. j \in 1 .. Len(s) /\ IsSubroutine(s[j])
    BY <1>2, <1>5 DEF SubroutinesIn
  <2>2. PICK i \in Insertions : i = s[j] /\ IsSubroutine(i)
    BY <2>1
  <2>3. PICK x \in Seq(Symbols) : x = i.text /\ x # <<>>
    <3>1. i.text \in Seq(STRING \ Breaks) /\ i.text # <<>>
      BY <2>2 DEF NamesUnbroken, IsSubroutine
    <3>2. STRING \ Breaks \subseteq Symbols
      BY Zenon DEF Symbols
    <3>3. i.text \in Seq(Symbols)
      BY <3>1, <3>2, Wider
    <3> QED
      BY <3>1, <3>3
  <2>4. PICK t \in Seq(Symbols) : t = Tail(x)
    <3>1. Tail(x) \in Seq(Symbols)
      BY <2>3
    <3> QED
      BY <3>1
  <2>5. PICK u \in Seq(Symbols) : u = Stripped(t)
    <3>1. t # <<>> => Tail(t) \in Seq(Symbols)
      OBVIOUS
    <3>2. Stripped(t) \in Seq(Symbols)
      BY <3>1, Zenon DEF Stripped
    <3> QED
      BY <3>2
  <2>6. Words(u) = Words(t)
    BY <2>5, StrippedSeen
  <2>7. Words(t) \in FieldNames
    BY <2>2, <2>3, <2>4, Zenon DEF FieldNames
  <2>8. Once(Words(t))
    BY <2>7, Zenon DEF FieldsTold, Once
  <2>9. SetApart(u)
    BY <2>6, <2>8, WordsApart
  <2>10. Given(s) = u /\ ExpectedSubroutine(s) = Words(t)
    BY <1>3, <1>5, <2>2, <2>3, <2>4, <2>5, Zenon
  <2> QED
    BY <2>7, <2>9, <2>10
<1> QED
  BY <1>4, <1>5

LEMMA MessageTellable ==
    ASSUME NamesUnbroken, FieldsTold, NEW m \in 1 .. MaxMsgs, NEW o \in ErrorObjs, NEW s \in Sayings,
           TextRight(o, s, m), NEW msg \in ErrorObjs, SameHead(msg, o),
           msg.subroutine = o.subroutine, msg.module \in Modules \cup {Early},
           msg.iteration \in Iterations \cup {PreEvents}, ~msg.verbatim
    PROVE  Tellable(msg) /\ msg.filename \in Seq(Unbroken) /\ SetApart(msg.filename)
<1>1. s.statement \in Statements /\ s.insertions \in Seq(Insertions)
  BY DEF Sayings
<1>2. HeaderIn(Unbroken, msg) /\ msg.filename \in Seq(Unbroken)
  BY HeaderUnbroken
<1>3. FirstWords \cap {SP, "%MSG", ":", "[serial #", msg.serial, "]", "()", "line",
                       Symbol(msg.severity)} = {}
  <2>1. msg.serial = Decimal(m)
    BY DEF TextRight, SameHead
  <2>2. msg.severity \in ELsev_success .. ELsev_severe
    BY DEF ErrorObjs
  <2>3. Symbol(msg.severity) \notin FirstWords /\ msg.serial \notin FirstWords
    <3>1. Symbol(msg.severity) \in {Symbol(level) : level \in ELsev_success .. ELsev_severe}
      BY <2>2, Zenon
    <3>2. msg.serial \in {Decimal(k) : k \in 1 .. MaxMsgs}
      BY <2>1, Zenon
    <3>3. \A x \in FirstWords : /\ x \notin {Symbol(level) : level \in ELsev_success .. ELsev_severe}
                                /\ x \notin {Decimal(k) : k \in 1 .. MaxMsgs}
      BY Zenon DEF FieldsTold
    <3> QED
      BY <3>1, <3>2, <3>3, Zenon
  <2>4. \A x \in {SP, "%MSG", ":", "[serial #", "]", "()", "line"} : x \notin FirstWords
    BY Zenon DEF FieldsTold
  <2> QED
    BY <2>3, <2>4, Zenon
<1>4. \A name \in FieldNames \cup {s.statement.category, BaseName(s.statement.file, FALSE)} : Once(name)
  <2>1. \A name \in FieldNames : Once(name)
    BY Zenon DEF FieldsTold, Once
  <2> DEFINE Stated == {{st.category, BaseName(st.file, FALSE)} : st \in Statements}
  <2>2. \A name \in UNION Stated : Once(name)
    BY Zenon DEF FieldsTold, Once
  <2>3. {s.statement.category, BaseName(s.statement.file, FALSE)} \in Stated
    BY <1>1, Zenon
  <2> HIDE DEF Stated
  <2>4. /\ s.statement.category \in UNION Stated
        /\ BaseName(s.statement.file, FALSE) \in UNION Stated
    BY <2>3
  <2> QED
    BY <2>1, <2>2, <2>4, Zenon
<1>5. SetApart(msg.module) /\ SetApart(msg.iteration)
  <2>1. msg.module \in FieldNames /\ msg.iteration \in FieldNames
    BY Zenon DEF FieldNames
  <2> QED
    BY <1>4, <2>1, OnceApart
<1>6. SetApart(msg.subroutine)
  BY <1>1, SubroutineApart DEF TextRight
<1>7. SetApart(msg.id) /\ SetApart(msg.idOverflow) /\ (Loose(msg.idOverflow) \/ msg.id = <<>>)
  <2>1. msg.id \o msg.idOverflow = s.statement.category
    BY DEF TextRight, SameHead
  <2>2. Once(msg.id \o msg.idOverflow)
    BY <1>4, <2>1
  <2>3. msg.id \in Seq(Symbols) /\ msg.idOverflow \in Seq(Symbols)
    BY <1>2, SeenMaps, Zenon DEF HeaderIn
  <2> QED
    BY <2>2, <2>3, CutApart
<1>8. SetApart(msg.filename)
  <2>1. s.statement.verbatim = FALSE
    BY <1>1, StatementsAssumption DEF TextRight, SameHead
  <2>2. msg.filename = BaseName(s.statement.file, FALSE)
    BY <2>1, Zenon DEF TextRight, SameHead
  <2> QED
    BY <1>4, <2>2, OnceApart, Zenon
<1> QED
  BY <1>2, <1>3, <1>5, <1>6, <1>7, <1>8, Zenon DEF Tellable

\* Only what begins a field of this header is asked to be set apart.
LEMMA StartsAre ==
    ASSUME NamesUnbroken, FieldsTold, NEW p, p.insertions \in Seq(Insertions),
           p.by.module \in Modules \cup {Early}, p.by.iteration \in Iterations \cup {PreEvents}
    PROVE  LET names == {p.by.module, ExpectedSubroutine(p.insertions), p.by.iteration}
           IN  {"time"} \cup {name[1] : name \in names \ {<<>>}} \subseteq FirstWords
<1>1. p.by.module \in FieldNames /\ p.by.iteration \in FieldNames
  BY Zenon DEF FieldNames
<1>2. ExpectedSubroutine(p.insertions) = <<>> \/ ExpectedSubroutine(p.insertions) \in FieldNames
  BY SubroutineApart
<1> QED
  BY <1>1, <1>2, Zenon DEF FirstWords

LEMMA ReleaseApart ==
    ASSUME NamesUnbroken, FieldsTold, IInv, TextsRight, OwnNames,
           NEW t \in Threads, NEW n \in Loggers, Release(t, n)
    PROVE  FieldsApart'
<1> USE DEF IInv
<1>1. PICK m \in Messages : m = logger[t][n]
  BY DEF Release
<1>2. PICK o \in ErrorObjs : o = object[m]
  BY WhatMessagesAre
<1>3. PICK s \in Sayings : s = said[m] /\ ObjectRight(o, s)
  BY <1>2 DEF ObjectsRight, ObjectRight
<1>4. TextRight(o, s, m) /\ m \in 1 .. MaxMsgs
  <2>1. m \in 1 .. Len(object) /\ Len(object) \in Nat /\ Len(object) <= MaxMsgs
    BY WhatMessagesAre DEF VarsType
  <2> QED
    BY <1>2, <1>3, <2>1, NumbersAssumption DEF TextsRight
<1>5. PICK names : names = [module |-> module[t], iteration |-> iteration[t]]
  OBVIOUS
<1>6. /\ names.module \in Modules \cup {Early} /\ names.iteration \in Iterations \cup {PreEvents}
      /\ names.module \in Texts /\ names.iteration \in Texts
      /\ own[t].module = names.module /\ own[t].iteration = names.iteration
  BY <1>5, ContextsAssumption DEF VarsType, OwnNames
<1>7. [o EXCEPT !.module = module[t], !.iteration = iteration[t]] = Signed(o, names)
  BY <1>5 DEF Signed
<1>8. s.insertions \in Seq(Insertions)
  BY DEF Sayings
<1>9. ASSUME ~s.statement.verbatim,
             NEW msg \in {Signed(o, names), FillNames(Signed(o, names), ProcessNames)}
      PROVE  /\ msg \in ErrorObjs /\ ~msg.verbatim /\ Tellable(msg)
             /\ msg.filename \in Seq(Unbroken) /\ SetApart(msg.filename)
  <2>1. /\ msg \in ErrorObjs /\ SameHead(msg, o) /\ msg.subroutine = o.subroutine
        /\ msg.module = names.module /\ msg.iteration = names.iteration
    BY <1>6, SignedIs
  <2>2. ~msg.verbatim
    BY <1>4, <1>9, <2>1 DEF TextRight, SameHead
  <2>3. msg.module \in Modules \cup {Early} /\ msg.iteration \in Iterations \cup {PreEvents}
    BY <1>6, <2>1
  <2> QED
    BY <1>4, <2>1, <2>2, <2>3, MessageTellable
<1> DEFINE p == printed'
<1>10. ASSUME p.insertions = s.insertions, p.by = own[t], SetApart(Header(p.text))
       PROVE  FieldsApart'
  <2> DEFINE header == Header(p.text)
             starts == {"time"} \cup {name[1] : name \in {p.by.module, ExpectedSubroutine(p.insertions),
                                                          p.by.iteration} \ {<<>>}}
  <2>1. starts \subseteq FirstWords
    <3> HIDE DEF p
    <3> QED
      BY <1>6, <1>8, <1>10, StartsAre
  <2>2. \A i \in 2 .. Len(header) : header[i] \in starts => header[i - 1] = SP
    <3> HIDE DEF starts
    <3> QED
      BY <1>10, <2>1, Zenon DEF SetApart
  <2> QED
    BY <2>2, Zenon DEF FieldsApart
<1>11. CASE isStarted
  <2>1. PICK dest \in Destinations :
          Prints(t, m, dest, Logged(dest, FillNames(Signed(o, names), ProcessNames)))
    BY <1>1, <1>2, <1>7, <1>11, Zenon DEF Release
  <2>2. PICK msg : msg = FillNames(Signed(o, names), ProcessNames)
    OBVIOUS
  <2>3. /\ p.to = dest /\ p.statement = s.statement /\ p.text = Logged(dest, msg)
        /\ p.insertions = s.insertions /\ p.by = own[t]
    BY <1>3, <2>1, <2>2 DEF Prints
  <2> SUFFICES ASSUME OnStream', ~p.statement.verbatim PROVE FieldsApart'
    BY Zenon DEF FieldsApart
  <2>4. dest.kind = "ostream" /\ p.text # <<>> /\ dest # Nothing
    BY <2>3, DestinationsAssumption DEF OnStream
  <2>5. /\ msg \in ErrorObjs /\ ~msg.verbatim /\ Tellable(msg)
        /\ msg.filename \in Seq(Unbroken) /\ SetApart(msg.filename)
    <3> HIDE DEF p
    <3> QED
      BY <1>9, <2>2, <2>3
  <2> HIDE DEF p
  <2>6. p.text = Payload(dest.format, msg)
    <3>1. Decimal(msg.pid) \in STRING
      <4>1. msg.pid \in {0, ProcessNames.pid}
        BY <1>3, <1>6, <2>2, SignedIs DEF ObjectRight
      <4> QED
        BY <4>1, NumbersAssumption
    <3> QED
      BY <2>3, <2>4, <2>5, <3>1, LoggedReads
  <2>7. PICK prefix \in Seq(Symbols) : prefix = FillPrefix(dest.format, msg) /\ SetApart(prefix)
    BY <2>5, PrefixApart
  <2>8. PICK place \in Seq(Symbols) : place = Whereabouts(msg) /\ SetApart(place) /\ Loose(place)
    BY <2>5, PlaceApart
  <2>9. SetApart(prefix \o place)
    BY <2>7, <2>8, JoinApart
  <2>10. Header(p.text) = prefix \o place \/ Header(p.text) = prefix
    <3>1. HeaderIn(Unbroken, msg)
      BY <2>5, Zenon DEF Tellable
    <3>2. Header(Payload(dest.format, msg)) =
            IF dest.format.text THEN FillPrefix(dest.format, msg) \o Whereabouts(msg)
            ELSE FillPrefix(dest.format, msg)
      BY <2>5, <3>1, PayloadReads
    <3> QED
      BY <2>6, <2>7, <2>8, <3>2, Zenon
  <2>11. SetApart(Header(p.text))
    BY <2>7, <2>9, <2>10, Zenon
  <2> QED
    BY <1>10, <2>3, <2>11
<1>12. CASE ~isStarted
  <2>1. Prints(t, m, Nothing, EarlyText(Signed(o, names)))
    BY <1>1, <1>2, <1>7, <1>12, Zenon DEF Release
  <2>2. PICK msg : msg = Signed(o, names)
    OBVIOUS
  <2>3. /\ p.statement = s.statement /\ p.text = EarlyText(msg)
        /\ p.insertions = s.insertions /\ p.by = own[t]
    BY <1>3, <2>1, <2>2 DEF Prints
  <2> SUFFICES ASSUME ~p.statement.verbatim PROVE FieldsApart'
    BY Zenon DEF FieldsApart
  <2> HIDE DEF p
  <2>4. msg \in ErrorObjs /\ ~msg.verbatim /\ Tellable(msg)
    BY <1>9, <2>2, <2>3
  <2>5. HeaderIn(Unbroken, msg)
    BY <2>4, Zenon DEF Tellable
  <2>6. Header(EarlyText(msg)) =
          <<"%MSG", Symbol(msg.severity), SP>> \o msg.id \o msg.idOverflow \o <<":", SP>>
    BY <2>4, <2>5, EarlyReads
  <2>7. SetApart(Header(p.text))
    BY <2>3, <2>4, <2>6, EarlyApart
  <2> QED
    BY <1>10, <2>3, <2>7
<1> QED
  BY <1>11, <1>12

\* In the header of a message, wherever emitToken breaks the line and whatever
\* the format leaves out, each of the module name, subroutine, time and
\* iteration comes after a space (fillPrefix, emitToken, LogErrorObj), if the
\* words they begin with are not elsewhere in the header.
THEOREM FieldsAreApart == ASSUME NamesUnbroken, FieldsTold PROVE Spec => []FieldsApart
<1>1. Init => FieldsApart
  BY DEF Init, FieldsApart, OnStream
<1>2. FieldsApart /\ TextsRight /\ OwnNames /\ IInv /\ [Next]_vars => FieldsApart'
  <2> SUFFICES ASSUME FieldsApart, TextsRight, OwnNames, IInv, [Next]_vars PROVE FieldsApart'
    OBVIOUS
  <2>1. ASSUME printed' = Nothing PROVE FieldsApart'
    BY <2>1 DEF FieldsApart, OnStream
  <2>2. CASE UNCHANGED vars
    BY <2>2 DEF vars, FieldsApart, OnStream
  <2>3. ASSUME NEW t \in Threads, NEW n \in Loggers,
               \/ \E st \in Statements : Construct(t, n, st)
               \/ \E insertion \in Insertions : Insert(t, n, insertion)
               \/ \E u \in Threads, k \in Loggers : Move(t, n, u, k)
               \/ DestroyEmpty(t, n)
        PROVE  FieldsApart'
    BY <2>1, <2>3, Zenon DEF Construct, Insert, Move, DestroyEmpty
  <2>4. ASSUME NEW t \in Threads, SetContext(t) PROVE FieldsApart'
    BY <2>1, <2>4, Zenon DEF SetContext
  <2>5. CASE StartOrEnd
    BY <2>1, <2>5, Zenon DEF StartOrEnd
  <2>6. ASSUME NEW t \in Threads, NEW n \in Loggers, Release(t, n) PROVE FieldsApart'
    BY <2>6, ReleaseApart
  <2> QED
    BY <2>2, <2>3, <2>4, <2>5, <2>6, Zenon DEF Next
<1>3. TextsRight /\ IInv /\ [Next]_vars => TextsRight'
  BY TextsStep
<1>4. OwnNames /\ IInv /\ [Next]_vars => OwnNames'
  BY OwnStep
<1> QED
  BY <1>1, <1>2, <1>3, <1>4, TextsFirst, OwnFirst, Invariant, PTL DEF Spec
===============================================================================
