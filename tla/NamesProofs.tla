------------------------------ MODULE NamesProofs ------------------------------
(***************************************************************************)
(* The address that a Start finds for this process, however many           *)
(* interfaces there are and whatever addresses they have; and that what a  *)
(* received message was told is what it tells, by its getters and in the   *)
(* row that is written of it, however often it was passed on.              *)
(***************************************************************************)
EXTENDS Names, FoldProofs

\* A set of numbers up to n has a least one.
LEMMA Least ==
    ASSUME NEW n \in Nat, NEW I \in SUBSET (1 .. n), I # {}
    PROVE  \E i \in I : \A j \in I : i <= j
<1> DEFINE J == {i \in 1 .. n : n + 1 - i \in I}
<1>1. J # {}
  <2>1. PICK i \in I : i \in 1 .. n
    OBVIOUS
  <2>2. n + 1 - i \in 1 .. n /\ n + 1 - (n + 1 - i) = i
    BY <2>1
  <2> QED
    BY <2>2
<1>2. Max(J) \in J /\ \A j \in J : j <= Max(J)
  <2>1. J \in SUBSET (1 .. n)
    OBVIOUS
  <2> HIDE DEF J
  <2> QED
    BY <1>1, <2>1, Greatest
<1>3. PICK m \in 1 .. n : m \in J /\ \A j \in J : j <= m
  <2> HIDE DEF J
  <2>1. J \in SUBSET (1 .. n)
    BY DEF J
  <2> QED
    BY <1>2, <2>1
<1>4. \A j \in I : n + 1 - m <= j
  <2> SUFFICES ASSUME NEW j \in I PROVE n + 1 - m <= j
    OBVIOUS
  <2>1. j \in 1 .. n /\ n + 1 - j \in 1 .. n /\ n + 1 - (n + 1 - j) = j
    OBVIOUS
  <2>2. n + 1 - j \in J
    BY <2>1
  <2>3. n + 1 - j <= m
    BY <1>3, <2>2
  <2> QED
    BY <2>1, <2>3
<1> QED
  BY <1>3, <1>4

\* hostaddr_ after each turn of the loop, were it not to end before.
Latest(old, interfaces, f) ==
    \A i \in 0 .. Len(interfaces) :
      f[i] = IF i = 0 THEN old
             ELSE IF interfaces[i] = Nothing THEN f[i - 1] ELSE interfaces[i]

\* The loop computes a function, and ends where its value is usable.
LEMMA LoopAddress ==
    ASSUME NEW interfaces \in Seq(Addresses \cup {Nothing}), NEW old
    PROVE  \E f : /\ Latest(old, interfaces, f)
                  /\ LET ends == {i \in 1 .. Len(interfaces) : Usable(f[i])}
                         last == IF ends = {} THEN Len(interfaces)
                                 ELSE CHOOSE i \in ends : \A j \in ends : i <= j
                     IN  InterfaceAddress(old, interfaces) = OrElse(f[last], <<"127.0.0.1">>)
<1> DEFINE Turn(f, i) == IF i = 0 THEN old
                         ELSE IF interfaces[i] = Nothing THEN f[i - 1] ELSE interfaces[i]
           Goes(n, f) == f = [i \in 0 .. n |-> Turn(f, i)]
           Q == {n \in Nat : \E f : Goes(n, f)}
<1>1. 0 \in Q
  <2> DEFINE f == [i \in 0 .. 0 |-> old]
  <2>1. DOMAIN f = 0 .. 0 /\ 0 .. 0 = {0}
    OBVIOUS
  <2>2. Goes(0, f)
    <3>1. [i \in 0 .. 0 |-> old] = [i \in 0 .. 0 |-> Turn(f, i)]
      BY <2>1
    <3> QED
      BY <3>1, Zenon
  <2> HIDE DEF Goes, f
  <2> QED
    BY <2>2
<1>2. ASSUME NEW n \in Nat, n \in Q PROVE n + 1 \in Q
  <2>1. PICK f : Goes(n, f)
    BY <1>2
  <2> DEFINE g == [i \in 0 .. n + 1 |-> Turn(f, i)]
  <2>2. \A i \in 0 .. n + 1 : g[i] = Turn(f, i)
    OBVIOUS
  <2>3. \A i \in 0 .. n : f[i] = Turn(f, i)
    BY <2>1
  <2>4. DOMAIN g = 0 .. n + 1 /\ g = [i \in 0 .. n + 1 |-> g[i]]
    OBVIOUS
  <2> HIDE DEF g
  <2>5. \A i \in 0 .. n : f[i] = g[i]
    BY <2>2, <2>3
  <2>6. \A i \in 0 .. n + 1 : g[i] = Turn(g, i)
    <3> SUFFICES ASSUME NEW i \in 0 .. n + 1, i # 0 PROVE g[i] = Turn(g, i)
      BY <2>2
    <3>1. i - 1 \in 0 .. n
      OBVIOUS
    <3> QED
      BY <2>2, <2>5, <3>1
  <2>7. Goes(n + 1, g)
    BY <2>4, <2>6
  <2> HIDE DEF Goes
  <2> QED
    BY <2>7
<1>3. \E f : Goes(Len(interfaces), f)
  <2>1. Len(interfaces) \in Nat
    OBVIOUS
  <2>2. Len(interfaces) \in Q
    <3> HIDE DEF Q
    <3> QED
      BY <1>1, <1>2, <2>1, NumberInduction
  <2> HIDE DEF Goes
  <2> QED
    BY <2>2
<1>4. PICK f : f = CHOOSE g : Goes(Len(interfaces), g)
  OBVIOUS
<1>5. Goes(Len(interfaces), f)
  <2> HIDE DEF Goes
  <2>1. Goes(Len(interfaces), CHOOSE g : Goes(Len(interfaces), g))
    BY <1>3, Zenon
  <2> QED
    BY <1>4, <2>1, Zenon
<1>6. Latest(old, interfaces, f)
  BY <1>5 DEF Latest
<1> DEFINE ends == {i \in 1 .. Len(interfaces) : Usable(f[i])}
           last == IF ends = {} THEN Len(interfaces)
                   ELSE CHOOSE i \in ends : \A j \in ends : i <= j
<1>7. InterfaceAddress(old, interfaces) = OrElse(f[last], <<"127.0.0.1">>)
  <2> DEFINE e(g) == {i \in DOMAIN interfaces : Usable(g[i])}
             first(E) == IF E = {} THEN Len(interfaces)
                         ELSE CHOOSE i \in E : \A j \in E : i <= j
             chosen == CHOOSE g : Goes(Len(interfaces), g)
  <2>1. InterfaceAddress(old, interfaces) = OrElse(chosen[first(e(chosen))], <<"127.0.0.1">>)
    BY Zenon DEF InterfaceAddress
  <2>2. chosen = f
    BY <1>4, Zenon
  <2>3. DOMAIN interfaces = 1 .. Len(interfaces)
    OBVIOUS
  <2> HIDE DEF chosen
  <2>4. e(chosen) = ends
    BY <2>2, <2>3, Zenon
  <2>5. last = first(ends)
    BY Zenon
  <2> HIDE DEF e, first, last, ends
  <2> QED
    BY <2>1, <2>2, <2>4, <2>5, Zenon
<1> QED
  BY <1>6, <1>7, Zenon

\* The address of an interface, of the loopback, or the one there was before.
LEMMA FoundAddress ==
    ASSUME NEW interfaces \in Seq(Addresses \cup {Nothing}), NEW old,
           NEW found, found = Range(interfaces) \ {Nothing},
           NEW a, a = InterfaceAddress(old, interfaces)
    PROVE  /\ a \in found \cup {old} \cup Loopbacks
           /\ a \in Loopbacks => found \subseteq Loopbacks
           /\ a \notin found \cup Loopbacks => interfaces = <<>> \/ interfaces[1] = Nothing
<1>1. PICK f : /\ Latest(old, interfaces, f)
               /\ LET ends == {i \in 1 .. Len(interfaces) : Usable(f[i])}
                      last == IF ends = {} THEN Len(interfaces)
                              ELSE CHOOSE i \in ends : \A j \in ends : i <= j
                  IN  InterfaceAddress(old, interfaces) = OrElse(f[last], <<"127.0.0.1">>)
  BY LoopAddress
<1> DEFINE ends == {i \in 1 .. Len(interfaces) : Usable(f[i])}
           last == IF ends = {} THEN Len(interfaces)
                   ELSE CHOOSE i \in ends : \A j \in ends : i <= j
<1>2. a = OrElse(f[last], <<"127.0.0.1">>)
  BY <1>1, Zenon
<1>3. PICK n \in Nat : n = Len(interfaces) /\ DOMAIN interfaces = 1 .. n
  OBVIOUS
<1>4. \A i \in 1 .. n : interfaces[i] # Nothing =>
        interfaces[i] \in found /\ interfaces[i] \in Addresses /\ f[i] = interfaces[i]
  <2> SUFFICES ASSUME NEW i \in 1 .. n, interfaces[i] # Nothing
               PROVE  /\ interfaces[i] \in found /\ interfaces[i] \in Addresses
                      /\ f[i] = interfaces[i]
    OBVIOUS
  <2>1. interfaces[i] \in found
    BY <1>3, Zenon DEF Range
  <2>2. interfaces[i] \in Addresses
    BY <1>3
  <2>3. i \in 0 .. Len(interfaces) /\ i # 0
    BY <1>3
  <2> QED
    BY <1>1, <2>1, <2>2, <2>3 DEF Latest
<1>5. \A i \in 0 .. n : /\ f[i] \in found \cup {old}
                        /\ i # 0 /\ interfaces[1] # Nothing => f[i] \in found
  <2> DEFINE P(i) == /\ f[i] \in found \cup {old}
                     /\ i # 0 /\ interfaces[1] # Nothing => f[i] \in found
             Q == {i \in Nat : i <= n => P(i)}
  <2>1. 0 \in Q
    <3>1. f[0] = old
      BY <1>1, <1>3 DEF Latest
    <3> QED
      BY <3>1
  <2>2. ASSUME NEW i \in Nat, i \in Q PROVE i + 1 \in Q
    <3> SUFFICES ASSUME i + 1 <= n PROVE P(i + 1)
      OBVIOUS
    <3>1. i + 1 \in 1 .. n /\ i + 1 \in 0 .. Len(interfaces) /\ i + 1 # 0 /\ i + 1 - 1 = i /\ i <= n
      BY <1>3
    <3>2. P(i)
      BY <2>2, <3>1
    <3>3. CASE interfaces[i + 1] # Nothing
      BY <1>4, <3>1, <3>3
    <3>4. CASE interfaces[i + 1] = Nothing
      <4>1. f[i + 1] = f[i]
        BY <1>1, <3>1, <3>4 DEF Latest
      <4>2. i = 0 => interfaces[1] = Nothing
        BY <3>4
      <4> QED
        BY <3>2, <4>1, <4>2
    <3> QED
      BY <3>3, <3>4
  <2>3. \A i \in Nat : i \in Q
    <3> HIDE DEF Q
    <3> QED
      BY <2>1, <2>2, NumberInduction
  <2>4. \A i \in 0 .. n : i \in Nat /\ i <= n
    OBVIOUS
  <2> HIDE DEF P
  <2>5. \A i \in 0 .. n : P(i)
    BY <2>3, <2>4
  <2> QED
    BY <2>5 DEF P
<1>6. CASE ends # {}
  <2>1. last \in ends
    <3>1. \E i \in ends : \A j \in ends : i <= j
      <4>1. ends \in SUBSET (1 .. n)
        BY <1>3
      <4> HIDE DEF ends
      <4> QED
        BY <1>6, <4>1, Least
    <3> HIDE DEF ends
    <3> QED
      BY <1>6, <3>1, Zenon
  <2> HIDE DEF last
  <2>2. last \in 1 .. n /\ last \in 0 .. n /\ last # 0 /\ Usable(f[last])
    BY <1>3, <2>1
  <2>3. a = f[last] /\ a \notin Loopbacks
    BY <1>2, <2>2 DEF Usable, OrElse
  <2> QED
    BY <1>5, <2>2, <2>3
<1>7. CASE ends = {}
  <2>1. last = n
    BY <1>3, <1>7, Zenon
  <2> HIDE DEF last
  <2>2. \A i \in 1 .. n : ~Usable(f[i])
    BY <1>3, <1>7
  <2>3. found \subseteq Loopbacks
    <3> SUFFICES ASSUME NEW x \in found PROVE x \in Loopbacks
      OBVIOUS
    <3>1. PICK i \in 1 .. n : interfaces[i] = x /\ x # Nothing
      BY <1>3, Zenon DEF Range
    <3>2. x \in Addresses /\ f[i] = x /\ ~Usable(x)
      BY <1>4, <2>2, <3>1
    <3> QED
      BY <3>2 DEF Addresses, Usable
  <2>4. <<"127.0.0.1">> \in Loopbacks
    BY Zenon DEF Loopbacks
  <2>5. f[n] \in found \cup {old}
    BY <1>5
  <2>6. a = IF f[n] = <<>> THEN <<"127.0.0.1">> ELSE f[n]
    BY <1>2, <2>1, Zenon DEF OrElse
  <2>7. n # 0 => f[n] = <<>> \/ f[n] \in Loopbacks
    <3>1. n # 0 => n \in 1 .. n
      OBVIOUS
    <3> QED
      BY <2>2, <3>1 DEF Usable
  <2>8. n = 0 => interfaces = <<>>
    BY <1>3
  <2> QED
    BY <2>3, <2>4, <2>5, <2>6, <2>7, <2>8, Zenon
<1> QED
  BY <1>6, <1>7

\* Whatever the system answers, a Start finds an address: one of an interface,
\* and a loopback only if there is no other (initGlobalVars).
THEOREM AddressIsFound == Spec => AddressFound
<1> DEFINE P == \A e \in Environments, name \in ApplicationNames :
         StartMessageFacility(e, name) /\ e.lookup = Nothing /\ e.interfaces # Nothing =>
           LET found == Range(e.interfaces) \ {Nothing}
           IN  /\ names'.hostaddr \in found \cup {names.hostaddr} \cup Loopbacks
               /\ names'.hostaddr \in Loopbacks => found \subseteq Loopbacks
               /\ names'.hostaddr \notin found \cup Loopbacks =>
                    e.interfaces = <<>> \/ e.interfaces[1] = Nothing
<1>1. P
  <2> SUFFICES ASSUME NEW e \in Environments, NEW name \in ApplicationNames,
                      StartMessageFacility(e, name), e.lookup = Nothing, e.interfaces # Nothing
               PROVE  LET found == Range(e.interfaces) \ {Nothing}
                      IN  /\ names'.hostaddr \in found \cup {names.hostaddr} \cup Loopbacks
                          /\ names'.hostaddr \in Loopbacks => found \subseteq Loopbacks
                          /\ names'.hostaddr \notin found \cup Loopbacks =>
                               e.interfaces = <<>> \/ e.interfaces[1] = Nothing
    BY Zenon
  <2>1. PICK interfaces \in Seq(Addresses \cup {Nothing}) : interfaces = e.interfaces
    BY EnvironmentAssumption
  <2>2. PICK found : found = Range(interfaces) \ {Nothing}
    OBVIOUS
  <2>3. PICK old : old = names.hostaddr
    OBVIOUS
  <2>4. PICK a : a = InterfaceAddress(old, interfaces)
    OBVIOUS
  <2>5. names'.hostaddr = HostAddress(old, e)
    BY <2>3 DEF StartMessageFacility, InitGlobalVars
  <2>6. HostAddress(old, e) = a
    BY <2>1, <2>4, Zenon DEF HostAddress
  <2>7. /\ a \in found \cup {old} \cup Loopbacks
        /\ a \in Loopbacks => found \subseteq Loopbacks
        /\ a \notin found \cup Loopbacks => interfaces = <<>> \/ interfaces[1] = Nothing
    BY <2>2, <2>4, FoundAddress, SMTT(30)
  <2> QED
    BY <2>1, <2>2, <2>3, <2>5, <2>6, <2>7, Zenon
<1>2. [P]_vars
  BY <1>1, Zenon
<1> QED
  BY <1>2, PTL DEF Spec, AddressFound
--------------------------------------------------------------------------------
\* Every word has a length.
WidthsAre == \A word \in STRING : Width(word) \in Nat

\* Texts of one word, and the words of a text.
LEMMA OneWord ==
    ASSUME NEW A, NEW w \in A
    PROVE  <<w>> \in Seq(A) /\ Len(<<w>>) = 1 /\ <<w>>[1] = w
OBVIOUS

LEMMA WordOf == ASSUME NEW A, NEW s \in Seq(A), NEW i \in 1 .. Len(s) PROVE s[i] \in A
OBVIOUS

\* What the code puts into texts.
LEMMA Words ==
    /\ <<>> \in Texts /\ <<SP>> \in Texts /\ <<":">> \in Texts /\ <<NL>> \in Texts
    /\ \A n \in Numbers : n \in STRING /\ <<n>> \in Texts /\ n # SP /\ n # NL /\ n # "@SUB="
    /\ "0" \in Numbers /\ "INFO" \in STRING /\ "dec" \in STRING /\ Decimal(1) \in STRING
<1>1. /\ NL \in STRING /\ SP \in STRING /\ ":" \in STRING /\ "INFO" \in STRING
      /\ "dec" \in STRING /\ Decimal(1) \in STRING /\ \A n \in Numbers : n \in STRING
  BY WordsAssumption, Zenon
<1>2. "0" \in Numbers /\ \A n \in Numbers : n # SP /\ n # NL /\ n # "@SUB="
  BY NumbersAssumption, Zenon
<1>3. \A w \in STRING : <<w>> \in Texts
  BY OneWord, Zenon DEF Texts
<1>4. <<>> \in Texts
  BY DEF Texts
<1> QED
  BY <1>1, <1>2, <1>3, <1>4, Zenon

(***************************************************************************)
(* The length of a text.                                                   *)
(***************************************************************************)
\* The lengths of the beginnings of a text.
Lengths(s, u) ==
    /\ u[0] = 0
    /\ \A i \in 1 .. Len(s) : u[i] = u[i - 1] + Width(s[i])

\* Length sums up the widths of a text's words.
LEMMA LengthIs ==
    ASSUME NEW s \in Texts
    PROVE  \E u : Lengths(s, u) /\ Length(s) = u[Len(s)]
<1> DEFINE Turn(u, i) == IF i = 0 THEN 0 ELSE u[i - 1] + Width(s[i])
           Goes(n, u) == u = [i \in 0 .. n |-> Turn(u, i)]
           Q == {n \in Nat : \E u : Goes(n, u)}
<1>1. 0 \in Q
  <2> DEFINE f == [i \in 0 .. 0 |-> 0]
  <2>1. DOMAIN f = 0 .. 0 /\ 0 .. 0 = {0}
    OBVIOUS
  <2>2. Goes(0, f)
    <3>1. [i \in 0 .. 0 |-> 0] = [i \in 0 .. 0 |-> Turn(f, i)]
      BY <2>1
    <3> QED
      BY <3>1, Zenon
  <2> HIDE DEF Goes, f
  <2> QED
    BY <2>2
<1>2. ASSUME NEW n \in Nat, n \in Q PROVE n + 1 \in Q
  <2>1. PICK f : Goes(n, f)
    BY <1>2
  <2> DEFINE g == [i \in 0 .. n + 1 |-> Turn(f, i)]
  <2>2. \A i \in 0 .. n + 1 : g[i] = Turn(f, i)
    OBVIOUS
  <2>3. \A i \in 0 .. n : f[i] = Turn(f, i)
    BY <2>1
  <2>4. DOMAIN g = 0 .. n + 1 /\ g = [i \in 0 .. n + 1 |-> g[i]]
    OBVIOUS
  <2> HIDE DEF g
  <2>5. \A i \in 0 .. n : f[i] = g[i]
    BY <2>2, <2>3
  <2>6. \A i \in 0 .. n + 1 : g[i] = Turn(g, i)
    <3> SUFFICES ASSUME NEW i \in 0 .. n + 1, i # 0 PROVE g[i] = Turn(g, i)
      BY <2>2
    <3>1. i - 1 \in 0 .. n
      OBVIOUS
    <3> QED
      BY <2>2, <2>5, <3>1
  <2>7. Goes(n + 1, g)
    BY <2>4, <2>6
  <2> HIDE DEF Goes
  <2> QED
    BY <2>7
<1>3. \E u : Goes(Len(s), u)
  <2>1. Len(s) \in Nat
    BY DEF Texts
  <2>2. Len(s) \in Q
    <3> HIDE DEF Q
    <3> QED
      BY <1>1, <1>2, <2>1, NumberInduction
  <2> HIDE DEF Goes
  <2> QED
    BY <2>2
<1>4. PICK u : u = CHOOSE g : Goes(Len(s), g)
  OBVIOUS
<1>5. Goes(Len(s), u)
  <2> HIDE DEF Goes
  <2>1. Goes(Len(s), CHOOSE g : Goes(Len(s), g))
    BY <1>3, Zenon
  <2> QED
    BY <1>4, <2>1, Zenon
<1>6. Lengths(s, u)
  <2>1. Len(s) \in Nat
    BY DEF Texts
  <2> QED
    BY <1>5, <2>1 DEF Lengths
<1>7. Length(s) = u[Len(s)]
  BY <1>4, Zenon DEF Length
<1> QED
  BY <1>6, <1>7, Zenon

\* A longer beginning of a text is as long or longer.
LEMMA LengthGrows ==
    ASSUME WidthsAre, NEW s \in Texts, NEW n \in 0 .. Len(s)
    PROVE  /\ Length(SubSeq(s, 1, n)) \in Nat
           /\ n < Len(s) => Length(SubSeq(s, 1, n)) <= Length(SubSeq(s, 1, n + 1))
           /\ Length(SubSeq(s, 1, n)) <= Length(s)
           /\ n = 0 => Length(SubSeq(s, 1, n)) = 0
<1>1. s \in Seq(STRING) /\ Len(s) \in Nat /\ \A i \in 1 .. Len(s) : Width(s[i]) \in Nat
  <2>1. s \in Seq(STRING) /\ Len(s) \in Nat
    BY DEF Texts
  <2>2. \A i \in 1 .. Len(s) : s[i] \in STRING
    BY <2>1, WordOf, Zenon
  <2> QED
    BY <2>1, <2>2, Zenon DEF WidthsAre
<1>2. PICK u : Lengths(s, u) /\ Length(s) = u[Len(s)]
  BY LengthIs
<1>3. \A k \in 0 .. Len(s) : Length(SubSeq(s, 1, k)) = u[k]
  <2> SUFFICES ASSUME NEW k \in 0 .. Len(s) PROVE Length(SubSeq(s, 1, k)) = u[k]
    OBVIOUS
  <2>1. /\ SubSeq(s, 1, k) \in Texts /\ Len(SubSeq(s, 1, k)) = k
        /\ \A i \in 1 .. k : SubSeq(s, 1, k)[i] = s[i]
    <3>1. k \in Int /\ \A i \in 1 .. k : s[i] \in STRING
      BY <1>1
    <3> QED
      BY <3>1, <1>1, SubSeqProperties DEF Texts
  <2>2. PICK t : t = SubSeq(s, 1, k)
    OBVIOUS
  <2>3. PICK v : Lengths(t, v) /\ Length(t) = v[k]
    BY <2>1, <2>2, LengthIs
  <2> DEFINE Q == {i \in Nat : i <= k => v[i] = u[i]}
  <2>4. 0 \in Q
    BY <1>2, <2>3 DEF Lengths
  <2>5. ASSUME NEW i \in Nat, i \in Q PROVE i + 1 \in Q
    <3> SUFFICES ASSUME i + 1 <= k PROVE v[i + 1] = u[i + 1]
      OBVIOUS
    <3>1. i + 1 \in 1 .. k /\ i + 1 \in 1 .. Len(s) /\ i + 1 - 1 = i /\ v[i] = u[i]
      BY <2>5, <1>1
    <3>2. v[i + 1] = v[i] + Width(t[i + 1])
      BY <2>1, <2>2, <2>3, <3>1 DEF Lengths
    <3>3. u[i + 1] = u[i] + Width(s[i + 1])
      BY <1>2, <3>1 DEF Lengths
    <3> QED
      BY <2>1, <2>2, <3>1, <3>2, <3>3
  <2>6. k \in Q
    <3> HIDE DEF Q
    <3>1. k \in Nat
      OBVIOUS
    <3> QED
      BY <2>4, <2>5, <3>1, NumberInduction
  <2> QED
    BY <2>2, <2>3, <2>6
<1>4. \A k \in 0 .. Len(s) : u[k] \in Nat /\ (k < Len(s) => u[k + 1] \in Nat /\ u[k] <= u[k + 1])
  <2> DEFINE Q == {k \in Nat : k <= Len(s) => u[k] \in Nat}
  <2>1. 0 \in Q
    BY <1>2 DEF Lengths
  <2>2. ASSUME NEW k \in Nat, k + 1 <= Len(s), u[k] \in Nat
        PROVE  u[k + 1] \in Nat /\ u[k] <= u[k + 1]
    <3>1. k + 1 \in 1 .. Len(s) /\ k + 1 - 1 = k
      BY <2>2, <1>1
    <3>2. u[k + 1] = u[k] + Width(s[k + 1])
      BY <1>2, <3>1 DEF Lengths
    <3> QED
      BY <1>1, <2>2, <3>1, <3>2
  <2>3. ASSUME NEW k \in Nat, k \in Q PROVE k + 1 \in Q
    BY <2>2, <2>3, <1>1
  <2>4. \A k \in Nat : k \in Q
    <3> HIDE DEF Q
    <3> QED
      BY <2>1, <2>3, NumberInduction
  <2> QED
    BY <1>1, <2>2, <2>4
<1>5. \A k \in 0 .. Len(s) : u[k] <= u[Len(s)]
  <2> DEFINE Q == {d \in Nat : d <= Len(s) => u[Len(s) - d] <= u[Len(s)]}
  <2>1. 0 \in Q
    BY <1>1, <1>4
  <2>2. ASSUME NEW d \in Nat, d \in Q PROVE d + 1 \in Q
    <3> SUFFICES ASSUME d + 1 <= Len(s) PROVE u[Len(s) - (d + 1)] <= u[Len(s)]
      OBVIOUS
    <3>1. PICK k : k = Len(s) - (d + 1)
      OBVIOUS
    <3>2. k \in 0 .. Len(s) /\ k < Len(s) /\ k + 1 = Len(s) - d /\ Len(s) \in 0 .. Len(s)
      BY <1>1, <3>1
    <3>3. u[k + 1] <= u[Len(s)]
      BY <1>1, <2>2, <3>2, SMTT(30)
    <3>4. u[k] \in Nat /\ u[k + 1] \in Nat /\ u[k] <= u[k + 1] /\ u[Len(s)] \in Nat
      BY <1>4, <3>2
    <3> QED
      BY <3>1, <3>3, <3>4
  <2>3. \A d \in Nat : d \in Q
    <3> HIDE DEF Q
    <3> QED
      BY <2>1, <2>2, NumberInduction
  <2>4. \A k \in 0 .. Len(s) : Len(s) - k \in Nat /\ Len(s) - k <= Len(s)
                               /\ Len(s) - (Len(s) - k) = k
    BY <1>1
  <2> QED
    BY <2>3, <2>4
<1>6. n < Len(s) => n + 1 \in 0 .. Len(s)
  BY <1>1
<1>7. u[0] = 0
  BY <1>2 DEF Lengths
<1> QED
  BY <1>1, <1>2, <1>3, <1>4, <1>5, <1>6, <1>7

\* A category is cut so that it fits, and left as it is if it fits already.
LEMMA CategoryCut ==
    ASSUME WidthsAre, NEW o \in ErrorObjs, NEW category \in Texts
    PROVE  /\ SetID(o, category) \in ErrorObjs
           /\ CutCategory(category, SetID(o, category).id)
           /\ SetID(o, category) = [o EXCEPT !.id = SetID(o, category).id,
                                             !.idOverflow = SetID(o, category).idOverflow]
<1> DEFINE fits(n) == Length(SubSeq(category, 1, n)) <= MaxCategoryLength
           Cuts(n) == fits(n) /\ (n < Len(category) => ~fits(n + 1))
           cut == CHOOSE n \in 0 .. Len(category) : Cuts(n)
<1>1. Len(category) \in Nat /\ category \in Seq(STRING)
  BY DEF Texts
<1>2. fits(0)
  <2>1. 0 \in 0 .. Len(category)
    BY <1>1
  <2> QED
    BY <2>1, LengthGrows, LengthAssumption
<1>3. \E n \in 0 .. Len(category) : Cuts(n)
  <2> DEFINE F == {n \in Nat : fits(n)}
  <2>1. 0 \in F
    BY <1>2
  <2>2. \A n \in 0 .. Len(category) : n \in Nat /\ n + 1 \in Nat
    BY <1>1
  <2>3. \A n \in Nat : n \in F <=> fits(n)
    BY Zenon
  <2> HIDE DEF F, fits
  <2>4. PICK k \in 0 .. Len(category) : k \in F /\ (k < Len(category) => k + 1 \notin F)
    BY <1>1, <2>1, LastFitting
  <2> QED
    BY <2>2, <2>3, <2>4
<1>4. cut \in 0 .. Len(category) /\ Cuts(cut)
  <2> HIDE DEF Cuts
  <2> QED
    BY <1>3, Zenon
<1> DEFINE id == SubSeq(category, 1, cut)
           rest == IF cut < Len(category) THEN SubSeq(category, cut + 1, Len(category))
                   ELSE o.idOverflow
<1>5. SetID(o, category) = [o EXCEPT !.id = id, !.idOverflow = rest]
  BY Zenon DEF SetID
<1>6. Length(id) <= MaxCategoryLength
  BY <1>4
<1>7. Length(category) <= MaxCategoryLength => cut = Len(category)
  <2> SUFFICES ASSUME Length(category) <= MaxCategoryLength, cut < Len(category) PROVE FALSE
    BY <1>1, <1>4
  <2>1. cut + 1 \in 0 .. Len(category)
    BY <1>1, <1>4
  <2>2. PICK k \in 0 .. Len(category) : k = cut + 1
    BY <2>1
  <2>3. Length(SubSeq(category, 1, k)) <= Length(category) /\ Length(SubSeq(category, 1, k)) \in Nat
    BY LengthGrows
  <2>4. Len(category) \in 0 .. Len(category) /\ SubSeq(category, 1, Len(category)) = category
    BY <1>1
  <2>5. Length(category) \in Nat
    BY <2>4, LengthGrows
  <2>6. ~fits(k)
    BY <1>4, <2>2
  <2> QED
    BY <2>3, <2>5, <2>6, LengthAssumption
<1> HIDE DEF cut
<1>8. id \in Texts /\ rest \in Texts /\ Len(id) = cut
  <2>1. o.idOverflow \in Texts
    BY DEF ErrorObjs
  <2>2. cut \in Int /\ Len(category) \in Int /\ \A i \in 1 .. cut : category[i] \in STRING
    BY <1>1, <1>4
  <2>3. \A i \in cut + 1 .. Len(category) : category[i] \in STRING
    BY <1>1, <1>4
  <2>4. id \in Seq(STRING) /\ SubSeq(category, cut + 1, Len(category)) \in Seq(STRING)
    BY <2>2, <2>3, SubSeqProperties
  <2>5. Len(id) = cut
    BY <1>1, <1>4
  <2> QED
    BY <2>1, <2>4, <2>5 DEF Texts
<1>9. CutCategory(category, id)
  <2>1. SubSeq(id, 1, Len(id)) = id
    <3>1. id \in Seq(STRING)
      BY <1>8 DEF Texts
    <3> HIDE DEF id
    <3> QED
      BY <3>1
  <2>2. IsPrefix(id, category)
    <3>1. SubSeq(id, 1, cut) = SubSeq(category, 1, cut)
      BY <1>8, <2>1
    <3>2. cut <= Len(category)
      BY <1>4, <1>1
    <3> QED
      BY <1>8, <3>1, <3>2 DEF IsPrefix
  <2>3. cut = Len(category) => id = category
    BY <1>1
  <2> QED
    BY <1>6, <1>7, <2>2, <2>3 DEF CutCategory
<1> HIDE DEF id, rest
<1>10. /\ SetID(o, category) \in ErrorObjs
       /\ SetID(o, category).id = id /\ SetID(o, category).idOverflow = rest
  BY <1>5, <1>8 DEF ErrorObjs
<1> QED
  BY <1>5, <1>9, <1>10

(***************************************************************************)
(* The pieces of a received message.                                       *)
(***************************************************************************)
\* All but the items, the subroutine and the stream.
Same(o, p) ==
    /\ p.severity = o.severity /\ p.id = o.id
    /\ p.filename = o.filename /\ p.verbatim = o.verbatim
    /\ p.hostname = o.hostname /\ p.hostaddr = o.hostaddr /\ p.application = o.application
    /\ p.pid = o.pid /\ p.module = o.module /\ p.iteration = o.iteration

\* What leaves the rest alone twice does so.
LEMMA SameAsSame ==
    ASSUME NEW o, NEW p, NEW q, Same(o, p), Same(p, q)
    PROVE  Same(o, q)
BY Zenon DEF Same

LEMMA Single == ASSUME NEW A, NEW s \in Seq(A), Len(s) = 1 PROVE s = Append(<<>>, s[1])
OBVIOUS

LEMMA Tails == ASSUME NEW s \in Texts, s # <<>> PROVE Tail(s) \in Texts
BY DEF Texts

\* A piece is one item more, unless it is empty or names a subroutine.
LEMMA PieceIs ==
    ASSUME NEW o \in ErrorObjs, NEW text \in Texts
    PROVE  /\ Piece(o, text) \in ErrorObjs /\ Same(o, Piece(o, text))
           /\ text # <<>> /\ text[1] # "@SUB=" =>
                Piece(o, text).items = Append(o.items, text)
           /\ text = <<>> => Piece(o, text).items = o.items
<1>1. PICK p : p = [o EXCEPT !.oss = text]
  OBVIOUS
<1>2. p \in ErrorObjs /\ Same(o, p) /\ p.items = o.items /\ p.oss = text
  BY <1>1 DEF ErrorObjs, Same
<1>3. Piece(o, text) = IF p.oss # <<>> THEN EoEmit(p, p.oss) ELSE p
  <2>1. PICK i : i = [kind |-> "text", text |-> text]
    OBVIOUS
  <2>2. Written(o, i) = text
    BY <2>1 DEF Written
  <2>3. Opltlt(o, i) = IF p.oss # <<>> THEN EoEmit(p, p.oss) ELSE p
    <3>1. PICK w : w = Written(o, i)
      OBVIOUS
    <3>2. p = [o EXCEPT !.oss = w]
      BY <1>1, <2>2, <3>1
    <3> QED
      BY <3>1, <3>2 DEF Opltlt
  <2> QED
    BY <2>1, <2>3, Zenon DEF Piece
<1>4. CASE text = <<>>
  BY <1>2, <1>3, <1>4
<1>5. CASE text # <<>> /\ text[1] = "@SUB="
  <2>1. Tail(text) \in Texts
    BY <1>5, Tails
  <2>2. PICK t \in Texts : t = Tail(text)
    BY <2>1
  <2>3. (IF t # <<>> /\ t[1] = SP THEN Tail(t) ELSE t) \in Texts
    BY Tails, Zenon
  <2>4. PICK u \in Texts : u = IF t # <<>> /\ t[1] = SP THEN Tail(t) ELSE t
    BY <2>3
  <2>5. Piece(o, text) = [p EXCEPT !.subroutine = u]
    BY <1>2, <1>3, <1>5, <2>2, <2>4, Zenon DEF EoEmit, SetSubroutine
  <2>6. [p EXCEPT !.subroutine = u] \in ErrorObjs /\ Same(p, [p EXCEPT !.subroutine = u])
    BY <1>2 DEF ErrorObjs, Same
  <2> QED
    BY <1>2, <1>5, <2>5, <2>6 DEF Same
<1>6. CASE text # <<>> /\ text[1] # "@SUB="
  <2>1. Piece(o, text) = [p EXCEPT !.items = Append(p.items, text)]
    BY <1>2, <1>3, <1>6, Zenon DEF EoEmit
  <2>2. p.items \in Seq(Texts)
    BY <1>2 DEF ErrorObjs
  <2>3. Append(p.items, text) \in Seq(Texts)
    BY <2>2, Appended
  <2>4. PICK items \in Seq(Texts) : items = Append(p.items, text)
    BY <2>3
  <2>5. /\ [p EXCEPT !.items = items] \in ErrorObjs /\ Same(p, [p EXCEPT !.items = items])
        /\ [p EXCEPT !.items = items].items = items
    BY <1>2 DEF ErrorObjs, Same
  <2> QED
    BY <1>2, <1>6, <2>1, <2>4, <2>5 DEF Same
<1> QED
  BY <1>4, <1>5, <1>6

\* The items with those of one message more.
Entries(items, m) ==
    LET place == Append(Append(Append(Append(items, <<SP>>), m.file), <<":">>), m.line)
    IN  IF m.message = <<>> THEN Append(place, <<NL>>)
        ELSE Append(Append(place, <<NL>>), m.message)

\* SetMessage leaves everything else alone.
LEMMA MessageIsSet ==
    ASSUME NEW r \in Received, NEW m \in Sayings
    PROVE  LET new == SetMessage(r, m.file, m.line, m.message)
           IN  /\ new \in Received /\ Same(r.msg, new.msg)
               /\ Findable(m) => new.msg.items = Entries(r.msg.items, m)
<1>1. r.msg \in ErrorObjs
  BY DEF Received
<1>2. m.file \in Texts /\ m.line \in Texts /\ m.message \in Texts
  BY DEF Sayings
<1>3. PICK file \in Texts, line \in Texts, message \in Texts :
        file = m.file /\ line = m.line /\ message = m.message
  BY <1>2
<1>4. /\ <<SP>> \in Texts /\ <<":">> \in Texts /\ <<NL>> \in Texts
      /\ <<SP>> # <<>> /\ <<":">> # <<>> /\ <<NL>> # <<>>
      /\ <<SP>>[1] # "@SUB=" /\ <<":">>[1] # "@SUB=" /\ <<NL>>[1] # "@SUB="
  BY Words DEF SP, NL
<1>5. PICK p1 \in ErrorObjs : /\ p1 = Piece(r.msg, <<SP>>) /\ Same(r.msg, p1)
                              /\ p1.items = Append(r.msg.items, <<SP>>)
  <2>1. /\ Piece(r.msg, <<SP>>) \in ErrorObjs /\ Same(r.msg, Piece(r.msg, <<SP>>))
        /\ Piece(r.msg, <<SP>>).items = Append(r.msg.items, <<SP>>)
    BY <1>1, <1>4, PieceIs, Zenon
  <2> QED
    BY <2>1
<1>6. PICK p2 \in ErrorObjs : /\ p2 = Piece(p1, file) /\ Same(p1, p2)
                              /\ Findable(m) => p2.items = Append(p1.items, file)
  <2>1. Findable(m) => file # <<>> /\ file[1] # "@SUB="
    BY <1>3, Zenon DEF Findable
  <2>2. /\ Piece(p1, file) \in ErrorObjs /\ Same(p1, Piece(p1, file))
        /\ Findable(m) => Piece(p1, file).items = Append(p1.items, file)
    BY <2>1, PieceIs, Zenon
  <2> QED
    BY <2>2
<1>7. PICK p3 \in ErrorObjs : /\ p3 = Piece(p2, <<":">>) /\ Same(p2, p3)
                              /\ p3.items = Append(p2.items, <<":">>)
  <2>1. /\ Piece(p2, <<":">>) \in ErrorObjs /\ Same(p2, Piece(p2, <<":">>))
        /\ Piece(p2, <<":">>).items = Append(p2.items, <<":">>)
    BY <1>4, PieceIs, Zenon
  <2> QED
    BY <2>1
<1>8. PICK p4 \in ErrorObjs : /\ p4 = Piece(p3, line) /\ Same(p3, p4)
                              /\ Findable(m) => p4.items = Append(p3.items, line)
  <2>1. Findable(m) => line # <<>> /\ line[1] # "@SUB="
    BY <1>3, Zenon DEF Findable
  <2>2. /\ Piece(p3, line) \in ErrorObjs /\ Same(p3, Piece(p3, line))
        /\ Findable(m) => Piece(p3, line).items = Append(p3.items, line)
    BY <2>1, PieceIs, Zenon
  <2> QED
    BY <2>2
<1>9. PICK p5 \in ErrorObjs : /\ p5 = Piece(p4, <<NL>>) /\ Same(p4, p5)
                              /\ p5.items = Append(p4.items, <<NL>>)
  <2>1. /\ Piece(p4, <<NL>>) \in ErrorObjs /\ Same(p4, Piece(p4, <<NL>>))
        /\ Piece(p4, <<NL>>).items = Append(p4.items, <<NL>>)
    BY <1>4, PieceIs, Zenon
  <2> QED
    BY <2>1
<1>10. PICK p6 \in ErrorObjs : /\ p6 = Piece(p5, message) /\ Same(p5, p6)
                               /\ message = <<>> => p6.items = p5.items
                               /\ message # <<>> /\ Findable(m) =>
                                    p6.items = Append(p5.items, message)
  <2>1. Findable(m) /\ message # <<>> => message[1] # "@SUB="
    BY <1>3, Zenon DEF Findable
  <2>2. /\ Piece(p5, message) \in ErrorObjs /\ Same(p5, Piece(p5, message))
        /\ message = <<>> => Piece(p5, message).items = p5.items
        /\ message # <<>> /\ Findable(m) => Piece(p5, message).items = Append(p5.items, message)
    BY <2>1, PieceIs, Zenon
  <2> QED
    BY <2>2
<1>11. SetMessage(r, m.file, m.line, m.message) = [msg |-> p6, empty |-> FALSE]
  BY <1>3, <1>5, <1>6, <1>7, <1>8, <1>9, <1>10, Zenon DEF SetMessage, Changed
<1>12. [msg |-> p6, empty |-> FALSE] \in Received
  BY DEF Received
<1>13. Same(r.msg, p6)
  <2>1. Same(r.msg, p3)
    BY <1>5, <1>6, <1>7, SameAsSame, Zenon
  <2>2. Same(p3, p6)
    BY <1>8, <1>9, <1>10, SameAsSame, Zenon
  <2> QED
    BY <2>1, <2>2, SameAsSame, Zenon
<1>14. Findable(m) => p6.items = Entries(r.msg.items, m)
  BY <1>3, <1>5, <1>6, <1>7, <1>8, <1>9, <1>10, ZenonT(60) DEF Entries
<1> QED
  BY <1>11, <1>12, <1>13, <1>14

\* Texts put together are texts, in whatever order they are put together.
LEMMA JoinOf == ASSUME NEW s \in Texts, NEW t \in Texts PROVE s \o t \in Texts
BY DEF Texts

LEMMA JoinNone == ASSUME NEW s \in Texts PROVE s \o <<>> = s /\ <<>> \o s = s
BY DEF Texts

LEMMA JoinJoin ==
    ASSUME NEW s \in Texts, NEW t \in Texts, NEW u \in Texts
    PROVE  (s \o t) \o u = s \o (t \o u)
BY ConcatAssociative DEF Texts

LEMMA FlattenNone == FlattenSeq(<<>>) = <<>>
<1>1. <<>> \in Seq(Seq(STRING)) /\ <<>> \in Seq(STRING)
  OBVIOUS
<1> QED
  BY <1>1, FlattenMore, Zenon

\* The text of a message, as its items put it together.
TextOf(m) == <<SP>> \o m.file \o <<":">> \o m.line \o <<NL>> \o m.message

\* The items of a message more are its text more.
LEMMA EntriesFlat ==
    ASSUME NEW items \in Seq(Texts), NEW m \in Sayings
    PROVE  /\ Entries(items, m) \in Seq(Texts) /\ TextOf(m) \in Texts
           /\ FlattenSeq(Entries(items, m)) = FlattenSeq(items) \o TextOf(m)
<1>1. PICK sp \in Texts, file \in Texts, colon \in Texts, line \in Texts, nl \in Texts,
           message \in Texts :
        /\ sp = <<SP>> /\ file = m.file /\ colon = <<":">> /\ line = m.line /\ nl = <<NL>>
        /\ message = m.message
  <2>1. m.file \in Texts /\ m.line \in Texts /\ m.message \in Texts
    BY DEF Sayings
  <2>2. <<SP>> \in Texts /\ <<":">> \in Texts /\ <<NL>> \in Texts
    BY Words, Zenon
  <2> QED
    BY <2>1, <2>2, Zenon
<1>2. PICK S : S = STRING /\ Texts = Seq(S) /\ Seq(Texts) = Seq(Seq(S))
  BY DEF Texts
<1>3. PICK i1 \in Seq(Texts) : i1 = Append(items, sp)
  BY Appended
<1>4. PICK i2 \in Seq(Texts) : i2 = Append(i1, file)
  BY Appended
<1>5. PICK i3 \in Seq(Texts) : i3 = Append(i2, colon)
  BY Appended
<1>6. PICK i4 \in Seq(Texts) : i4 = Append(i3, line)
  BY Appended
<1>7. PICK i5 \in Seq(Texts) : i5 = Append(i4, nl)
  BY Appended
<1>8. PICK i6 \in Seq(Texts) : i6 = Append(i5, message)
  BY Appended
<1>9. Entries(items, m) = IF message = <<>> THEN i5 ELSE i6
  BY <1>1, <1>3, <1>4, <1>5, <1>6, <1>7, <1>8, Zenon DEF Entries
<1>10. /\ FlattenSeq(i1) = FlattenSeq(items) \o sp
       /\ FlattenSeq(i2) = FlattenSeq(i1) \o file
       /\ FlattenSeq(i3) = FlattenSeq(i2) \o colon
       /\ FlattenSeq(i4) = FlattenSeq(i3) \o line
       /\ FlattenSeq(i5) = FlattenSeq(i4) \o nl
       /\ FlattenSeq(i6) = FlattenSeq(i5) \o message
  BY <1>2, <1>3, <1>4, <1>5, <1>6, <1>7, <1>8, FlattenMore, ZenonT(60)
<1>11. PICK f : f \in Texts /\ f = FlattenSeq(items)
  BY <1>2, FlattenIs
<1>12. PICK t2 : t2 \in Texts /\ t2 = sp \o file /\ (f \o sp) \o file = f \o t2
  <2>1. sp \o file \in Texts
    BY <1>11, JoinOf
  <2>2. (f \o sp) \o file = f \o (sp \o file)
    BY <1>11, <1>11, JoinJoin
  <2> QED
    BY <2>1, <2>2, Zenon
<1>13. PICK t3 : t3 \in Texts /\ t3 = t2 \o colon /\ (f \o t2) \o colon = f \o t3
  <2>1. t2 \o colon \in Texts
    BY <1>12, JoinOf
  <2>2. (f \o t2) \o colon = f \o (t2 \o colon)
    BY <1>12, <1>11, JoinJoin
  <2> QED
    BY <2>1, <2>2, Zenon
<1>14. PICK t4 : t4 \in Texts /\ t4 = t3 \o line /\ (f \o t3) \o line = f \o t4
  <2>1. t3 \o line \in Texts
    BY <1>13, JoinOf
  <2>2. (f \o t3) \o line = f \o (t3 \o line)
    BY <1>13, <1>11, JoinJoin
  <2> QED
    BY <2>1, <2>2, Zenon
<1>15. PICK t5 : t5 \in Texts /\ t5 = t4 \o nl /\ (f \o t4) \o nl = f \o t5
  <2>1. t4 \o nl \in Texts
    BY <1>14, JoinOf
  <2>2. (f \o t4) \o nl = f \o (t4 \o nl)
    BY <1>14, <1>11, JoinJoin
  <2> QED
    BY <2>1, <2>2, Zenon
<1>16. PICK t6 : t6 \in Texts /\ t6 = t5 \o message /\ (f \o t5) \o message = f \o t6
  <2>1. t5 \o message \in Texts
    BY <1>15, JoinOf
  <2>2. (f \o t5) \o message = f \o (t5 \o message)
    BY <1>15, <1>11, JoinJoin
  <2> QED
    BY <2>1, <2>2, Zenon
<1>17. TextOf(m) = t6
  BY <1>1, <1>12, <1>13, <1>14, <1>15, <1>16, Zenon DEF TextOf
<1>18. FlattenSeq(i5) = f \o t5 /\ FlattenSeq(i6) = f \o t6
  <2>1. FlattenSeq(i1) = f \o sp
    BY <1>10, <1>11, Zenon
  <2>2. FlattenSeq(i2) = f \o t2
    BY <1>10, <1>12, <2>1, Zenon
  <2>3. FlattenSeq(i3) = f \o t3
    BY <1>10, <1>13, <2>2, Zenon
  <2>4. FlattenSeq(i4) = f \o t4
    BY <1>10, <1>14, <2>3, Zenon
  <2>5. FlattenSeq(i5) = f \o t5
    BY <1>10, <1>15, <2>4, Zenon
  <2> QED
    BY <1>10, <1>16, <2>5, Zenon
<1>19. message = <<>> => t6 = t5
  BY <1>15, <1>16, JoinNone, Zenon
<1> QED
  BY <1>9, <1>11, <1>16, <1>17, <1>18, <1>19, Zenon

\* What the getters find in a message that was put together once.
LEMMA EntriesRead ==
    ASSUME NEW r \in Received, NEW m \in Sayings, r.msg.items = Entries(<<>>, m)
    PROVE  /\ FileOf(r) = m.file /\ MessageOf(r) = m.message
           /\ m.line # <<>> /\ m.line[1] \in Numbers => LineOf(r) = <<m.line[1]>>
<1>1. PICK sp \in Texts, file \in Texts, colon \in Texts, line \in Texts, nl \in Texts,
           message \in Texts :
        /\ sp = <<SP>> /\ file = m.file /\ colon = <<":">> /\ line = m.line /\ nl = <<NL>>
        /\ message = m.message
  <2>1. m.file \in Texts /\ m.line \in Texts /\ m.message \in Texts
    BY DEF Sayings
  <2>2. <<SP>> \in Texts /\ <<":">> \in Texts /\ <<NL>> \in Texts
    BY Words, Zenon
  <2> QED
    BY <2>1, <2>2, Zenon
<1>2. <<>> \in Seq(Texts)
  OBVIOUS
<1>3. PICK i1 \in Seq(Texts) : i1 = Append(<<>>, sp) /\ Len(i1) = 1
  <2>1. Append(<<>>, sp) \in Seq(Texts)
    BY <1>2, Appended
  <2>2. PICK i \in Seq(Texts) : i = Append(<<>>, sp)
    BY <2>1
  <2>3. /\ Len(i) = Len(<<>>) + 1 /\ i[Len(<<>>) + 1] = sp
        /\ \A j \in 1 .. Len(<<>>) : i[j] = <<>>[j]
    BY <1>2, <2>2, Appended
  <2>4. Len(i) = 1
    BY <1>2, <2>3
  <2> QED
    BY <2>2, <2>4, Zenon
<1>4. PICK i2 \in Seq(Texts) : i2 = Append(i1, file) /\ Len(i2) = 2 /\ i2[2] = file
  <2>1. Append(i1, file) \in Seq(Texts)
    BY <1>3, Appended
  <2>2. PICK i \in Seq(Texts) : i = Append(i1, file)
    BY <2>1
  <2>3. /\ Len(i) = Len(i1) + 1 /\ i[Len(i1) + 1] = file
        /\ \A j \in 1 .. Len(i1) : i[j] = i1[j]
    BY <1>3, <2>2, Appended
  <2>4. Len(i) = 2 /\ i[2] = file
    BY <1>3, <2>3
  <2> QED
    BY <2>2, <2>4, Zenon
<1>5. PICK i3 \in Seq(Texts) : i3 = Append(i2, colon) /\ Len(i3) = 3 /\ i3[2] = file
  <2>1. Append(i2, colon) \in Seq(Texts)
    BY <1>4, Appended
  <2>2. PICK i \in Seq(Texts) : i = Append(i2, colon)
    BY <2>1
  <2>3. /\ Len(i) = Len(i2) + 1 /\ i[Len(i2) + 1] = colon
        /\ \A j \in 1 .. Len(i2) : i[j] = i2[j]
    BY <1>4, <2>2, Appended
  <2>4. Len(i) = 3 /\ i[2] = file
    BY <1>4, <2>3
  <2> QED
    BY <2>2, <2>4, Zenon
<1>6. PICK i4 \in Seq(Texts) : i4 = Append(i3, line) /\ Len(i4) = 4 /\ i4[2] = file /\ i4[4] = line
  <2>1. Append(i3, line) \in Seq(Texts)
    BY <1>5, Appended
  <2>2. PICK i \in Seq(Texts) : i = Append(i3, line)
    BY <2>1
  <2>3. /\ Len(i) = Len(i3) + 1 /\ i[Len(i3) + 1] = line
        /\ \A j \in 1 .. Len(i3) : i[j] = i3[j]
    BY <1>5, <2>2, Appended
  <2>4. Len(i) = 4 /\ i[2] = file /\ i[4] = line
    BY <1>5, <2>3
  <2> QED
    BY <2>2, <2>4, Zenon
<1>7. PICK i5 \in Seq(Texts) : i5 = Append(i4, nl) /\ Len(i5) = 5 /\ i5[2] = file /\ i5[4] = line
  <2>1. Append(i4, nl) \in Seq(Texts)
    BY <1>6, Appended
  <2>2. PICK i \in Seq(Texts) : i = Append(i4, nl)
    BY <2>1
  <2>3. /\ Len(i) = Len(i4) + 1 /\ i[Len(i4) + 1] = nl
        /\ \A j \in 1 .. Len(i4) : i[j] = i4[j]
    BY <1>6, <2>2, Appended
  <2>4. Len(i) = 5 /\ i[2] = file /\ i[4] = line
    BY <1>6, <2>3
  <2> QED
    BY <2>2, <2>4, Zenon
<1>8. PICK i6 \in Seq(Texts) : /\ i6 = Append(i5, message) /\ Len(i6) = 6
                               /\ i6[2] = file /\ i6[4] = line /\ i6[6] = message
  <2>1. Append(i5, message) \in Seq(Texts)
    BY <1>7, Appended
  <2>2. PICK i \in Seq(Texts) : i = Append(i5, message)
    BY <2>1
  <2>3. /\ Len(i) = Len(i5) + 1 /\ i[Len(i5) + 1] = message
        /\ \A j \in 1 .. Len(i5) : i[j] = i5[j]
    BY <1>7, <2>2, Appended
  <2>4. Len(i) = 6 /\ i[2] = file /\ i[4] = line /\ i[6] = message
    BY <1>7, <2>3
  <2> QED
    BY <2>2, <2>4, Zenon
<1>9. r.msg.items = IF message = <<>> THEN i5 ELSE i6
  BY <1>1, <1>3, <1>4, <1>5, <1>6, <1>7, <1>8, Zenon DEF Entries
<1>10. FileOf(r) = file /\ Item(r, 4) = line
  <2>1. PICK items : items = r.msg.items
    OBVIOUS
  <2>2. Len(items) \in {5, 6} /\ items[2] = file /\ items[4] = line
    BY <1>7, <1>8, <1>9, <2>1
  <2> QED
    BY <2>1, <2>2 DEF FileOf, Item
<1>11. MessageOf(r) = message
  <2>1. FlattenSeq(<<>>) = <<>> /\ FlattenSeq(Append(<<>>, message)) = <<>> \o message
    <3>1. <<>> \in Seq(Seq(STRING)) /\ message \in Seq(STRING)
      BY DEF Texts
    <3> QED
      BY <3>1, FlattenMore, Zenon
  <2>2. <<>> \o message = message
    BY DEF Texts
  <2>3. SubSeq(i5, 6, 5) = <<>>
    OBVIOUS
  <2>4. SubSeq(i6, 6, 6) = Append(<<>>, message)
    <3>1. SubSeq(i6, 6, 6) \in Seq(Texts) /\ Len(SubSeq(i6, 6, 6)) = 1
          /\ SubSeq(i6, 6, 6)[1] = message
      BY <1>8
    <3>2. PICK s \in Seq(Texts) : s = SubSeq(i6, 6, 6) /\ Len(s) = 1 /\ s[1] = message
      BY <3>1
    <3>3. s = Append(<<>>, message)
      BY <3>2, Single
    <3> QED
      BY <3>2, <3>3
  <2>5. CASE message = <<>>
    BY <1>7, <1>9, <2>1, <2>3, <2>5 DEF MessageOf
  <2>6. CASE message # <<>>
    BY <1>8, <1>9, <2>1, <2>2, <2>4, <2>6, Zenon DEF MessageOf
  <2> QED
    BY <2>5, <2>6
<1>12. ASSUME line # <<>>, line[1] \in Numbers PROVE LineOf(r) = <<line[1]>>
  <2> DEFINE I == {i \in 1 .. Len(line) : line[i] \notin {SP, NL}}
  <2>1. Len(line) \in Nat /\ Len(line) # 0
    BY <1>12 DEF Texts
  <2>2. 1 \in I
    BY <1>12, <2>1, Words
  <2>3. \A i \in I : i \in Nat /\ 1 <= i
    BY <2>1
  <2> HIDE DEF I
  <2>4. Min(I) = 1
    <3> DEFINE least(x) == x \in I /\ \A y \in I : x <= y
    <3>1. \E x \in I : \A y \in I : x <= y
      BY <2>2, <2>3
    <3>2. Min(I) \in I /\ \A y \in I : Min(I) <= y
      BY <3>1, Zenon DEF Min
    <3> QED
      BY <2>2, <2>3, <3>2
  <2>5. SelectInSeq(line, LAMBDA symbol : symbol \notin {SP, NL}) = 1
    BY <2>2, <2>4 DEF SelectInSeq, I
  <2> QED
    BY <1>10, <1>12, <2>5 DEF LineOf
<1> QED
  BY <1>1, <1>10, <1>11, <1>12

(***************************************************************************)
(* What was said of a received message, and what it holds.                 *)
(***************************************************************************)
SaidType ==
    [severity : STRING, category : Texts, hostname : Texts, hostaddr : Texts,
     application : Texts, pid : Int, module : Texts, iteration : Texts,
     messages : Seq(Sayings), passedOn : BOOLEAN]

\* The items of one message, of whose line the number it begins with is left.
Standing(items, m) ==
    \E n \in Sayings :
      /\ n.file = m.file /\ n.message = m.message
      /\ n.line # <<>> /\ n.line[1] # "@SUB="
      /\ m.line[1] \in Numbers => n.line[1] = m.line[1]
      /\ (\E x \in Numbers : m.line = <<x>>) => n.line = m.line
      /\ items = Entries(<<>>, n)

Told(messages) == FlattenSeq([i \in DOMAIN messages |-> TextOf(messages[i])])

Kept(o, s) ==
    /\ o.severity = ForMessage(FromName(s.severity))
    /\ CutCategory(s.category, o.id)
    /\ o.hostname = s.hostname /\ o.hostaddr = s.hostaddr /\ o.application = s.application
    /\ o.pid = s.pid /\ o.module = s.module /\ o.iteration = s.iteration
    /\ o.filename = <<>> /\ o.verbatim = FALSE

Pieces(o, s) ==
    /\ s.messages = <<>> => o.items = <<>>
    /\ Len(s.messages) = 1 /\ Findable(s.messages[1]) => Standing(o.items, s.messages[1])
    /\ ~s.passedOn /\ (\A i \in DOMAIN s.messages : Findable(s.messages[i])) =>
         FlattenSeq(o.items) = Told(s.messages)

Held ==
    /\ said \in SaidType
    /\ received = Nothing => said = SaidNothing
    /\ received # Nothing => /\ received \in Received
                             /\ Kept(received.msg, said)
                             /\ Pieces(received.msg, said)

\* Said at first is nothing, and that is of its type.
LEMMA NothingSaid == SaidNothing \in SaidType
<1>1. "INFO" \in STRING /\ <<>> \in Texts
  BY Words
<1>2. <<>> \in Seq(Sayings)
  OBVIOUS
<1>3. PICK info : info \in STRING /\ info = "INFO"
  BY <1>1
<1>4. SaidNothing =
        [severity |-> info, category |-> <<>>, hostname |-> <<>>, hostaddr |-> <<>>,
         application |-> <<>>, pid |-> 0, module |-> <<>>, iteration |-> <<>>,
         messages |-> <<>>, passedOn |-> FALSE]
  BY <1>3, Zenon DEF SaidNothing
<1> QED
  BY <1>1, <1>2, <1>3, <1>4 DEF SaidType

\* A message as it is made, for nothing was said yet.
LEMMA NewIs ==
    ASSUME WidthsAre, NEW severity, severity \in 1 .. 8,
           NEW o, o = NewErrorObj([severity |-> severity, verbatim |-> FALSE,
                                   category |-> <<>>, file |-> <<>>], 1)
    PROVE  /\ o \in ErrorObjs /\ o.severity = ForMessage(severity)
           /\ CutCategory(<<>>, o.id) /\ o.items = <<>>
           /\ o.hostname = <<>> /\ o.hostaddr = <<>> /\ o.application = <<>>
           /\ o.pid = 0 /\ o.module = <<>> /\ o.iteration = <<>>
           /\ o.filename = <<>> /\ o.verbatim = FALSE
<1>1. PICK st : st = [severity |-> severity, verbatim |-> FALSE, category |-> <<>>, file |-> <<>>]
  OBVIOUS
<1>2. BaseName(<<>>, FALSE) = <<>>
  <2>1. {i \in 1 .. Len(<<>>) : <<>>[i] = "/"} = {}
    OBVIOUS
  <2>2. SelectLastInSeq(<<>>, LAMBDA symbol : symbol = "/") = 0
    BY <2>1 DEF SelectLastInSeq
  <2> QED
    BY <2>2 DEF BaseName
<1>3. ForMessage(severity) \in ELsev_success .. ELsev_severe
  BY DEF ForMessage, ELsev_zeroSeverity, ELsev_success, ELsev_highestSeverity, ELsev_severe
<1>4. PICK number : number \in STRING /\ number = Decimal(1)
  BY Words
<1>5. PICK dec : dec \in STRING /\ dec = "dec"
  BY Words
<1>6. <<>> \in Texts /\ <<>> \in Seq(Texts)
  BY Words
<1>7. PICK level : level = ForMessage(severity)
  OBVIOUS
<1> DEFINE p == [serial |-> number, severity |-> level, verbatim |-> FALSE,
                 id |-> <<>>, idOverflow |-> <<>>, module |-> <<>>, subroutine |-> <<>>,
                 hostname |-> <<>>, hostaddr |-> <<>>, application |-> <<>>, pid |-> 0,
                 iteration |-> <<>>, items |-> <<>>, filename |-> <<>>,
                 lineNumber |-> "line", oss |-> <<>>, base |-> dec]
<1>8. NewErrorObj(st, 1) = SetID(p, <<>>)
  <2>1. st.severity = severity /\ st.verbatim = FALSE /\ st.category = <<>> /\ st.file = <<>>
    BY <1>1
  <2> QED
    BY <1>2, <1>4, <1>5, <1>7, <2>1, Zenon DEF NewErrorObj
<1>9. /\ p \in ErrorObjs /\ p.severity = level /\ p.items = <<>>
      /\ p.hostname = <<>> /\ p.hostaddr = <<>> /\ p.application = <<>>
      /\ p.pid = 0 /\ p.module = <<>> /\ p.iteration = <<>>
      /\ p.filename = <<>> /\ p.verbatim = FALSE
  BY <1>3, <1>4, <1>5, <1>6, <1>7 DEF ErrorObjs
<1> HIDE DEF p
<1>10. /\ SetID(p, <<>>) \in ErrorObjs /\ CutCategory(<<>>, SetID(p, <<>>).id)
       /\ SetID(p, <<>>) = [p EXCEPT !.id = SetID(p, <<>>).id,
                                     !.idOverflow = SetID(p, <<>>).idOverflow]
  BY <1>6, <1>9, CategoryCut
<1>11. o = SetID(p, <<>>)
  BY <1>1, <1>8
<1>12. /\ o \in ErrorObjs /\ CutCategory(<<>>, o.id)
       /\ o = [p EXCEPT !.id = o.id, !.idOverflow = o.idOverflow]
  BY <1>10, <1>11
<1> QED
  BY <1>7, <1>9, <1>12 DEF ErrorObjs

\* A new received message holds nothing that was said.
LEMMA NewReceivedIs ==
    ASSUME WidthsAre, NEW r, r = NewReceived(1)
    PROVE  r \in Received /\ Kept(r.msg, SaidNothing) /\ Pieces(r.msg, SaidNothing)
<1>1. PICK level : level = FromName("INFO") /\ level \in 1 .. 8
  BY NameIsLevel
<1>2. PICK o : o = NewErrorObj([severity |-> level, verbatim |-> FALSE,
                                category |-> <<>>, file |-> <<>>], 1)
  OBVIOUS
<1>3. /\ o \in ErrorObjs /\ o.severity = ForMessage(level)
      /\ CutCategory(<<>>, o.id) /\ o.items = <<>>
      /\ o.hostname = <<>> /\ o.hostaddr = <<>> /\ o.application = <<>>
      /\ o.pid = 0 /\ o.module = <<>> /\ o.iteration = <<>>
      /\ o.filename = <<>> /\ o.verbatim = FALSE
  BY <1>1, <1>2, NewIs
<1>4. r = [msg |-> o, empty |-> TRUE]
  BY <1>1, <1>2, Zenon DEF NewReceived
<1>5. r.msg = o /\ r \in Received
  <2>1. [msg |-> o, empty |-> TRUE] \in Received
    BY <1>3 DEF Received
  <2>2. [msg |-> o, empty |-> TRUE].msg = o
    OBVIOUS
  <2> QED
    BY <1>4, <2>1, <2>2, Zenon
<1>6. Kept(o, SaidNothing)
  BY <1>1, <1>3 DEF Kept, SaidNothing
<1>7. Pieces(o, SaidNothing)
  <2>1. SaidNothing.messages = <<>> /\ Len(<<>>) # 1
    BY DEF SaidNothing
  <2>2. Told(<<>>) = <<>>
    <3>1. [i \in DOMAIN <<>> |-> TextOf(<<>>[i])] = <<>>
      OBVIOUS
    <3>2. FlattenSeq(<<>>) = <<>>
      BY FlattenNone
    <3> QED
      BY <3>1, <3>2, Zenon DEF Told
  <2>3. FlattenSeq(<<>>) = <<>>
    BY FlattenNone
  <2> QED
    BY <1>3, <2>1, <2>2, <2>3 DEF Pieces
<1> QED
  BY <1>5, <1>6, <1>7

\* What was told with one message more.
LEMMA ToldMore ==
    ASSUME NEW messages \in Seq(Sayings), NEW m \in Sayings
    PROVE  Told(Append(messages, m)) = Told(messages) \o TextOf(m)
<1> DEFINE texts == [i \in DOMAIN messages |-> TextOf(messages[i])]
           more == [i \in DOMAIN Append(messages, m) |-> TextOf(Append(messages, m)[i])]
<1>1. /\ DOMAIN messages = 1 .. Len(messages) /\ Len(messages) \in Nat
      /\ DOMAIN Append(messages, m) = 1 .. Len(messages) + 1
  OBVIOUS
<1>2. \A n \in Sayings : TextOf(n) \in Texts
  <2>1. <<>> \in Seq(Texts)
    OBVIOUS
  <2> QED
    BY <2>1, EntriesFlat
<1>3. /\ Append(messages, m)[Len(messages) + 1] = m
      /\ \A i \in 1 .. Len(messages) : Append(messages, m)[i] = messages[i]
  BY Appended
<1>4. \A i \in 1 .. Len(messages) : messages[i] \in Sayings
  OBVIOUS
<1>5. texts \in Seq(Texts) /\ Len(texts) = Len(messages)
  <2>1. texts = [i \in 1 .. Len(messages) |-> TextOf(messages[i])]
    BY <1>1
  <2>2. \A i \in 1 .. Len(messages) : TextOf(messages[i]) \in Texts
    BY <1>2, <1>4
  <2> QED
    BY <1>1, <2>1, <2>2
<1>6. PICK x \in Texts : x = TextOf(m)
  BY <1>2
<1>7. PICK s \in Seq(Texts) : s = texts
  BY <1>5
<1>8. /\ Append(s, x) \in Seq(Texts) /\ Len(Append(s, x)) = Len(messages) + 1
      /\ Append(s, x)[Len(messages) + 1] = x
      /\ \A i \in 1 .. Len(messages) : Append(s, x)[i] = s[i]
  BY <1>5, <1>7, Appended
<1>9. PICK a \in Seq(Texts) : a = Append(s, x)
  BY <1>8
<1>10. a = [i \in 1 .. Len(messages) + 1 |-> a[i]]
  <2>1. a = [i \in 1 .. Len(a) |-> a[i]]
    OBVIOUS
  <2> QED
    BY <1>8, <1>9, <2>1
<1>11. \A i \in 1 .. Len(messages) + 1 : TextOf(Append(messages, m)[i]) = a[i]
  <2> SUFFICES ASSUME NEW i \in 1 .. Len(messages) + 1
               PROVE  TextOf(Append(messages, m)[i]) = a[i]
    OBVIOUS
  <2>1. CASE i = Len(messages) + 1
    BY <1>3, <1>6, <1>8, <1>9, <2>1
  <2>2. CASE i \in 1 .. Len(messages)
    <3>1. s[i] = TextOf(messages[i])
      BY <1>1, <1>7, <2>2
    <3> QED
      BY <1>3, <1>8, <1>9, <2>2, <3>1
  <2> QED
    BY <1>1, <2>1, <2>2
<1>12. more = [i \in 1 .. Len(messages) + 1 |-> TextOf(Append(messages, m)[i])]
  BY <1>1, Zenon
<1>13. more = a
  BY <1>10, <1>11, <1>12, Zenon
<1>14. FlattenSeq(Append(s, x)) = FlattenSeq(s) \o x
  <2>1. s \in Seq(Seq(STRING)) /\ x \in Seq(STRING)
    BY DEF Texts
  <2> QED
    BY <2>1, FlattenMore
<1>15. Told(Append(messages, m)) = FlattenSeq(more) /\ Told(messages) = FlattenSeq(texts)
  BY Zenon DEF Told
<1> QED
  BY <1>6, <1>7, <1>9, <1>13, <1>14, <1>15, Zenon

\* What was kept still is if neither side changes what it is about.
LEMMA KeptSame ==
    ASSUME NEW o, NEW p, NEW s, NEW t, Kept(o, s), Same(o, p),
           t = s \/ \E u : t = [s EXCEPT !.messages = u], s \in SaidType
    PROVE  Kept(p, t)
<1>1. /\ t.severity = s.severity /\ t.category = s.category
      /\ t.hostname = s.hostname /\ t.hostaddr = s.hostaddr /\ t.application = s.application
      /\ t.pid = s.pid /\ t.module = s.module /\ t.iteration = s.iteration
  BY DEF SaidType
<1> QED
  BY <1>1, Zenon DEF Kept, Same

\* So are the pieces.
LEMMA PiecesSame ==
    ASSUME NEW o, NEW p, NEW s, NEW t, Pieces(o, s), p.items = o.items,
           t.messages = s.messages, t.passedOn = s.passedOn
    PROVE  Pieces(p, t)
BY Zenon DEF Pieces

\* One message more.
LEMMA MessageKept ==
    ASSUME NEW r \in Received, NEW s \in SaidType, NEW m \in Sayings,
           Kept(r.msg, s), Pieces(r.msg, s),
           NEW q, q = SetMessage(r, m.file, m.line, m.message),
           NEW t, t = [s EXCEPT !.messages = Append(@, m)]
    PROVE  q \in Received /\ t \in SaidType /\ Kept(q.msg, t) /\ Pieces(q.msg, t)
<1>1. /\ q \in Received /\ Same(r.msg, q.msg)
      /\ Findable(m) => q.msg.items = Entries(r.msg.items, m)
  BY MessageIsSet
<1>2. PICK messages \in Seq(Sayings) : messages = s.messages
  BY DEF SaidType
<1>3. PICK more \in Seq(Sayings) :
        /\ more = Append(messages, m) /\ Len(more) = Len(messages) + 1
        /\ more[Len(messages) + 1] = m
        /\ \A i \in 1 .. Len(messages) : more[i] = messages[i]
        /\ Len(messages) = 0 => messages = <<>>
  <2>1. Append(messages, m) \in Seq(Sayings)
    BY Appended
  <2>2. PICK n \in Seq(Sayings) : n = Append(messages, m)
    BY <2>1
  <2>3. /\ Len(n) = Len(messages) + 1 /\ n[Len(messages) + 1] = m
        /\ \A i \in 1 .. Len(messages) : n[i] = messages[i]
        /\ Len(messages) = 0 => messages = <<>>
    BY <2>2, Appended
  <2> QED
    BY <2>2, <2>3, Zenon
<1>4. t = [s EXCEPT !.messages = more]
  BY <1>2, <1>3
<1>5. t \in SaidType /\ t.messages = more /\ t.passedOn = s.passedOn
  BY <1>4 DEF SaidType
<1>6. Kept(q.msg, t)
  BY <1>1, <1>4, KeptSame, Zenon
<1>7. Len(messages) \in Nat /\ DOMAIN messages = 1 .. Len(messages)
      /\ DOMAIN more = 1 .. Len(messages) + 1
  BY <1>3
<1>8. more # <<>>
  BY <1>3, <1>7
<1>9. ASSUME Len(more) = 1, Findable(more[1]) PROVE Standing(q.msg.items, more[1])
  <2>1. messages = <<>> /\ more[1] = m
    BY <1>3, <1>7, <1>9
  <2>2. r.msg.items = <<>>
    BY <1>2, <2>1, Zenon DEF Pieces
  <2>3. q.msg.items = Entries(<<>>, m)
    BY <1>1, <1>9, <2>1, <2>2
  <2>4. m.line # <<>> /\ m.line[1] # "@SUB="
    BY <1>9, <2>1, Zenon DEF Findable
  <2> QED
    BY <2>1, <2>3, <2>4, Zenon DEF Standing
<1>10. ASSUME ~s.passedOn, \A i \in DOMAIN more : Findable(more[i])
       PROVE  FlattenSeq(q.msg.items) = Told(more)
  <2>1. \A i \in DOMAIN messages : Findable(messages[i])
    <3> SUFFICES ASSUME NEW i \in DOMAIN messages PROVE Findable(messages[i])
      OBVIOUS
    <3>1. i \in DOMAIN more /\ more[i] = messages[i]
      BY <1>3, <1>7
    <3> QED
      BY <1>10, <3>1
  <2>2. Findable(m)
    <3>1. Len(messages) + 1 \in DOMAIN more
      BY <1>7
    <3> QED
      BY <1>3, <1>10, <3>1
  <2>3. FlattenSeq(r.msg.items) = Told(messages)
    BY <1>2, <1>10, <2>1, Zenon DEF Pieces
  <2>4. r.msg.items \in Seq(Texts)
    <3>1. r.msg \in ErrorObjs
      BY DEF Received
    <3> QED
      BY <3>1 DEF ErrorObjs
  <2>5. FlattenSeq(Entries(r.msg.items, m)) = FlattenSeq(r.msg.items) \o TextOf(m)
    BY <2>4, EntriesFlat
  <2>6. Told(more) = Told(messages) \o TextOf(m)
    BY <1>3, ToldMore
  <2> QED
    BY <1>1, <2>2, <2>3, <2>5, <2>6, Zenon
<1>11. Pieces(q.msg, t)
  BY <1>5, <1>8, <1>9, <1>10, Zenon DEF Pieces
<1> QED
  BY <1>1, <1>5, <1>6, <1>11

\* What the getters give is what SetMessage takes; the line is a number.
LEMMA Read ==
    ASSUME NEW r \in Received
    PROVE  /\ FileOf(r) \in Texts /\ MessageOf(r) \in Texts
           /\ \E n \in Numbers : LineOf(r) = <<n>>
           /\ r.msg.items = <<>> => FileOf(r) = <<>>
<1>1. PICK items \in Seq(Texts) : items = r.msg.items
  BY DEF Received, ErrorObjs
<1>2. \A n \in Nat \ {0} : Item(r, n) \in Texts /\ (items = <<>> => Item(r, n) = <<>>)
  <2>1. <<>> \in Texts
    BY Words
  <2>2. \A n \in 1 .. Len(items) : items[n] \in Texts
    OBVIOUS
  <2> QED
    BY <1>1, <2>1, <2>2 DEF Item
<1>3. FileOf(r) \in Texts /\ (items = <<>> => FileOf(r) = <<>>)
  BY <1>2 DEF FileOf
<1>4. \E n \in Numbers : LineOf(r) = <<n>>
  <2> DEFINE first == SelectInSeq(Item(r, 4), LAMBDA symbol : symbol \notin {SP, NL})
  <2>1. LineOf(r) = IF first # 0 /\ Item(r, 4)[first] \in Numbers
                    THEN <<Item(r, 4)[first]>> ELSE <<"0">>
    BY DEF LineOf
  <2>2. "0" \in Numbers
    BY Words
  <2> HIDE DEF first
  <2> QED
    BY <2>1, <2>2
<1>5. MessageOf(r) \in Texts
  <2>1. SubSeq(items, 6, Len(items)) \in Seq(Texts)
    OBVIOUS
  <2>2. PICK rest \in Seq(Texts) : rest = SubSeq(items, 6, Len(items))
    BY <2>1
  <2>3. rest \in Seq(Seq(STRING))
    BY DEF Texts
  <2>4. FlattenSeq(rest) \in Seq(STRING)
    BY <2>3, FlattenIs
  <2> QED
    BY <1>1, <2>2, <2>4, Zenon DEF MessageOf, Texts
<1> QED
  BY <1>1, <1>3, <1>4, <1>5

\* The members that are passed on as they are.
LEMMA Plain ==
    ASSUME NEW o \in ErrorObjs, NEW p \in ErrorObjs,
           NEW f, f = [x \in DOMAIN p |-> IF x \in PlainFields THEN o[x] ELSE p[x]]
    PROVE  /\ f \in ErrorObjs
           /\ f.severity = p.severity /\ f.id = p.id /\ f.items = p.items
           /\ f.filename = p.filename /\ f.verbatim = p.verbatim
           /\ f.hostname = o.hostname /\ f.hostaddr = o.hostaddr
           /\ f.application = o.application /\ f.pid = o.pid /\ f.module = o.module
           /\ f.iteration = o.iteration
<1> DEFINE Names == {"serial", "severity", "verbatim", "id", "idOverflow", "module",
                     "subroutine", "hostname", "hostaddr", "application", "pid", "iteration",
                     "items", "filename", "lineNumber", "oss", "base"}
<1>1. DOMAIN p = Names
  BY DEF ErrorObjs
<1>2. /\ f.serial = p.serial /\ f.severity = p.severity /\ f.verbatim = p.verbatim
      /\ f.id = p.id /\ f.idOverflow = p.idOverflow /\ f.subroutine = p.subroutine
      /\ f.items = p.items /\ f.filename = p.filename /\ f.lineNumber = p.lineNumber
      /\ f.oss = p.oss /\ f.base = p.base
  BY <1>1 DEF PlainFields
<1>3. /\ f.hostname = o.hostname /\ f.hostaddr = o.hostaddr /\ f.application = o.application
      /\ f.pid = o.pid /\ f.module = o.module /\ f.iteration = o.iteration
  BY <1>1 DEF PlainFields
<1> DEFINE g == [p EXCEPT !.hostname = o.hostname, !.hostaddr = o.hostaddr,
                          !.application = o.application, !.pid = o.pid,
                          !.module = o.module, !.iteration = o.iteration]
<1>4. g \in ErrorObjs
  BY DEF ErrorObjs
<1>5. DOMAIN g = Names /\ DOMAIN f = Names
  BY <1>1
<1>6. /\ g.serial = p.serial /\ g.severity = p.severity /\ g.verbatim = p.verbatim
      /\ g.id = p.id /\ g.idOverflow = p.idOverflow /\ g.subroutine = p.subroutine
      /\ g.items = p.items /\ g.filename = p.filename /\ g.lineNumber = p.lineNumber
      /\ g.oss = p.oss /\ g.base = p.base
  BY DEF ErrorObjs
<1>7. /\ g.hostname = o.hostname /\ g.hostaddr = o.hostaddr /\ g.application = o.application
      /\ g.pid = o.pid /\ g.module = o.module /\ g.iteration = o.iteration
  BY DEF ErrorObjs
<1>8. \A x \in Names : f[x] = g[x]
  <2> HIDE DEF g
  <2> QED
    BY <1>2, <1>3, <1>6, <1>7
<1>9. f = [x \in Names |-> f[x]] /\ g = [x \in Names |-> g[x]]
  BY <1>1, <1>5
<1> HIDE DEF g, Names
<1>10. f = g
  BY <1>8, <1>9, Zenon
<1> QED
  BY <1>2, <1>3, <1>4, <1>10

\* What the next process makes of it.
LEMMA PassedOnKept ==
    ASSUME WidthsAre, NEW r \in Received, NEW s \in SaidType,
           Kept(r.msg, s), Pieces(r.msg, s),
           NEW m, m = [file |-> FileOf(r), line |-> LineOf(r), message |-> MessageOf(r)],
           NEW t, t = [s EXCEPT !.passedOn = TRUE,
                                !.messages = IF @ = <<>> THEN <<m>> ELSE @]
    PROVE  /\ PassedOn(r) \in Received /\ t \in SaidType
           /\ Kept(PassedOn(r).msg, t) /\ Pieces(PassedOn(r).msg, t)
<1>1. m \in Sayings
  <2>1. LineOf(r) \in Texts
    BY Read, Words
  <2> QED
    BY <2>1, Read DEF Sayings
<1>2. PICK o \in ErrorObjs : o = r.msg
  BY DEF Received
<1>3. PICK n : n = NewReceived(1) /\ n \in Received /\ n.msg.items = <<>>
               /\ n.msg.filename = <<>> /\ n.msg.verbatim = FALSE
  <2>1. PICK n : n = NewReceived(1)
    OBVIOUS
  <2>2. n \in Received /\ Kept(n.msg, SaidNothing) /\ Pieces(n.msg, SaidNothing)
    BY <2>1, NewReceivedIs
  <2>3. SaidNothing.messages = <<>>
    BY DEF SaidNothing
  <2> QED
    BY <2>1, <2>2, <2>3, Zenon DEF Kept, Pieces
<1>4. PICK q : q = n.msg /\ q \in ErrorObjs
  BY <1>3 DEF Received
<1>5. o.severity \in ELsev_success .. ELsev_severe
  BY DEF ErrorObjs
<1>6. ForMessage(FromName(SeverityOf(r))) = o.severity
  BY <1>2, <1>5, MessageLevelOfName DEF SeverityOf
<1>7. PICK q1 : /\ q1 = [q EXCEPT !.severity = o.severity]
                /\ q1 \in ErrorObjs /\ q1.severity = o.severity /\ q1.items = <<>>
                /\ q1.filename = <<>> /\ q1.verbatim = FALSE
  <2>1. PICK q1 : q1 = [q EXCEPT !.severity = o.severity]
    OBVIOUS
  <2> QED
    BY <1>3, <1>4, <1>5, <2>1 DEF ErrorObjs
<1>8. o.id \in Texts
  BY DEF ErrorObjs
<1>9. PICK named : /\ named = SetID(q1, o.id) /\ named \in ErrorObjs
                   /\ CutCategory(o.id, named.id)
                   /\ named = [q1 EXCEPT !.id = named.id, !.idOverflow = named.idOverflow]
  <2>1. PICK named : named = SetID(q1, o.id)
    OBVIOUS
  <2> QED
    BY <1>7, <1>8, <2>1, CategoryCut, ZenonT(60)
<1>10. /\ named.severity = o.severity /\ named.items = <<>>
       /\ named.filename = <<>> /\ named.verbatim = FALSE
  BY <1>7, <1>9 DEF ErrorObjs
<1>11. named.id = o.id
  <2>1. Length(o.id) <= MaxCategoryLength
    BY <1>2, Zenon DEF Kept, CutCategory
  <2> QED
    BY <1>9, <2>1, Zenon DEF CutCategory
<1>12. PICK f : f = [x \in DOMAIN named |-> IF x \in PlainFields THEN o[x] ELSE named[x]]
  OBVIOUS
<1>13. /\ f \in ErrorObjs
       /\ f.severity = named.severity /\ f.id = named.id /\ f.items = named.items
       /\ f.filename = named.filename /\ f.verbatim = named.verbatim
       /\ f.hostname = o.hostname /\ f.hostaddr = o.hostaddr
       /\ f.application = o.application /\ f.pid = o.pid /\ f.module = o.module
       /\ f.iteration = o.iteration
  BY <1>9, <1>12, Plain
<1>14. PICK plain \in Received : plain = Changed(f) /\ plain.msg = f
  <2>1. [msg |-> f, empty |-> FALSE] \in Received
    BY <1>13 DEF Received
  <2>2. [msg |-> f, empty |-> FALSE].msg = f
    OBVIOUS
  <2> QED
    BY <2>1, <2>2, Zenon DEF Changed
<1>15. PassedOn(r) = SetMessage(plain, m.file, m.line, m.message)
  <2>1. SetSeverity(n, SeverityOf(r)) = Changed(q1)
    BY <1>4, <1>6, <1>7, Zenon DEF SetSeverity
  <2>2. Changed(q1).msg = q1
    BY DEF Changed
  <2>3. SetCategory(SetSeverity(n, SeverityOf(r)), o.id) = Changed(named)
    BY <1>9, <2>1, <2>2, Zenon DEF SetCategory
  <2>4. Changed(named).msg = named
    BY DEF Changed
  <2>5. PICK p : p = SetCategory(SetSeverity(NewReceived(1), SeverityOf(r)), r.msg.id).msg
                 /\ p = named
    BY <1>2, <1>3, <2>3, <2>4, Zenon
  <2>6. PICK g : g = [x \in DOMAIN p |-> IF x \in PlainFields THEN r.msg[x] ELSE p[x]] /\ g = f
    BY <1>2, <1>12, <2>5
  <2>7. PassedOn(r) = SetMessage(Changed(g), FileOf(r), LineOf(r), MessageOf(r))
    BY <2>5, <2>6, Zenon DEF PassedOn
  <2>8. m.file = FileOf(r) /\ m.line = LineOf(r) /\ m.message = MessageOf(r)
    OBVIOUS
  <2> QED
    BY <1>14, <2>6, <2>7, <2>8, Zenon
<1>16. PICK next : next = SetMessage(plain, m.file, m.line, m.message)
  OBVIOUS
<1>17. /\ next \in Received /\ Same(f, next.msg)
       /\ Findable(m) => next.msg.items = Entries(<<>>, m)
  BY <1>1, <1>10, <1>13, <1>14, <1>16, MessageIsSet
<1>18. PICK messages \in Seq(Sayings) : messages = s.messages
  BY DEF SaidType
<1>19. PICK after : after = IF messages = <<>> THEN <<m>> ELSE messages
  OBVIOUS
<1>20. /\ after \in Seq(Sayings) /\ after # <<>>
       /\ messages = <<>> => after[1] = m
  <2>1. <<m>> \in Seq(Sayings) /\ <<m>>[1] = m /\ <<m>> # <<>>
    BY <1>1, OneWord
  <2> QED
    BY <1>19, <2>1
<1>21. t = [s EXCEPT !.passedOn = TRUE, !.messages = after]
  BY <1>18, <1>19, Zenon
<1>22. /\ t \in SaidType /\ t.messages = after /\ t.passedOn = TRUE
       /\ t.severity = s.severity /\ t.category = s.category
       /\ t.hostname = s.hostname /\ t.hostaddr = s.hostaddr /\ t.application = s.application
       /\ t.pid = s.pid /\ t.module = s.module /\ t.iteration = s.iteration
  BY <1>20, <1>21 DEF SaidType
<1>23. Kept(next.msg, t)
  <2>1. Kept(f, t)
    BY <1>2, <1>10, <1>11, <1>13, <1>22, Zenon DEF Kept
  <2> QED
    BY <1>17, <1>22, <2>1, Zenon DEF Kept, Same
<1>24. ASSUME Len(after) = 1, Findable(after[1]) PROVE Standing(next.msg.items, after[1])
  <2>1. messages # <<>>
    <3> SUFFICES ASSUME messages = <<>> PROVE FALSE
      OBVIOUS
    <3>1. r.msg.items = <<>>
      BY <1>18, Zenon DEF Pieces
    <3>2. m.file = <<>>
      BY <3>1, Read
    <3> QED
      BY <1>20, <1>24, <3>2, Zenon DEF Findable
  <2>2. PICK first \in Sayings : first = messages[1] /\ first = after[1] /\ Findable(first)
    BY <1>19, <1>24, <2>1
  <2>3. Standing(r.msg.items, first)
    BY <1>18, <1>19, <1>24, <2>1, <2>2, Zenon DEF Pieces
  <2>4. PICK e \in Sayings :
          /\ e.file = first.file /\ e.message = first.message
          /\ e.line # <<>> /\ e.line[1] # "@SUB="
          /\ first.line[1] \in Numbers => e.line[1] = first.line[1]
          /\ (\E x \in Numbers : first.line = <<x>>) => e.line = first.line
          /\ r.msg.items = Entries(<<>>, e)
    BY <2>3, Zenon DEF Standing
  <2>5. /\ FileOf(r) = e.file /\ MessageOf(r) = e.message
        /\ e.line[1] \in Numbers => LineOf(r) = <<e.line[1]>>
    BY <2>4, EntriesRead
  <2>6. m.file = first.file /\ m.message = first.message /\ m.line = LineOf(r)
    BY <2>4, <2>5
  <2>7. PICK number \in Numbers : LineOf(r) = <<number>>
    BY Read
  <2>8. m.line # <<>> /\ m.line[1] = number /\ number # "@SUB="
    BY <2>6, <2>7, Words
  <2>9. Findable(m)
    BY <2>2, <2>6, <2>8, Zenon DEF Findable
  <2>10. first.line[1] \in Numbers => m.line[1] = first.line[1]
    BY <2>4, <2>5, <2>6
  <2>11. (\E x \in Numbers : first.line = <<x>>) => m.line = first.line
    <3> SUFFICES ASSUME NEW x \in Numbers, first.line = <<x>> PROVE m.line = first.line
      OBVIOUS
    <3>1. e.line = <<x>> /\ <<x>>[1] = x
      BY <2>4
    <3> QED
      BY <2>5, <2>6, <3>1
  <2>12. next.msg.items = Entries(<<>>, m)
    BY <1>17, <2>9
  <2>13. m.line # <<>> /\ m.line[1] # "@SUB="
    BY <2>8
  <2>14. Standing(next.msg.items, first)
    BY <1>1, <2>6, <2>10, <2>11, <2>12, <2>13, Zenon DEF Standing
  <2> QED
    BY <2>2, <2>14
<1>25. Pieces(next.msg, t)
  BY <1>20, <1>22, <1>24, Zenon DEF Pieces
<1> QED
  BY <1>15, <1>16, <1>17, <1>22, <1>23, <1>25

\* A received message is not Nothing.
LEMMA NothingElse == ASSUME NEW r \in Received PROVE r # Nothing
BY NothingAssumption

\* A setter but that of the message.
LEMMA SetterKept ==
    ASSUME WidthsAre, received \in Received, said \in SaidType,
           Kept(received.msg, said), Pieces(received.msg, said),
           NEW setting \in Settings, setting.field # "message", Set(setting)
    PROVE  /\ received' \in Received /\ said' \in SaidType
           /\ Kept(received'.msg, said') /\ Pieces(received'.msg, said')
<1>1. PICK o \in ErrorObjs : o = received.msg
  BY DEF Received
<1>2. ASSUME NEW p \in ErrorObjs, received' = Changed(p), p.items = o.items, said' \in SaidType,
             Kept(p, said'), said'.messages = said.messages, said'.passedOn = said.passedOn
      PROVE  /\ received' \in Received /\ said' \in SaidType
             /\ Kept(received'.msg, said') /\ Pieces(received'.msg, said')
  <2>1. Pieces(p, said')
    BY <1>1, <1>2, PiecesSame, Zenon
  <2>2. [msg |-> p, empty |-> FALSE] \in Received /\ [msg |-> p, empty |-> FALSE].msg = p
    BY DEF Received
  <2> QED
    BY <1>2, <2>1, <2>2, Zenon DEF Changed
<1>3. PICK field, value : field = setting.field /\ value = setting.value
  OBVIOUS
<1>4. CASE setting.field = "severity"
  <2>1. value \in STRING
    BY <1>3, <1>4, SettingsAssumption DEF PlainFields
  <2>2. received' = SetSeverity(received, value) /\ said' = [said EXCEPT !.severity = value]
    BY <1>3, <1>4 DEF Set, Call, PlainFields
  <2>3. PICK level \in ELsev_success .. ELsev_severe : level = ForMessage(FromName(value))
    BY NameIsLevel
  <2>4. PICK p : p = [o EXCEPT !.severity = level]
    OBVIOUS
  <2>5. received' = Changed(p)
    BY <1>1, <2>2, <2>3, <2>4, Zenon DEF SetSeverity
  <2>6. /\ p \in ErrorObjs /\ p.items = o.items /\ p.severity = level /\ p.id = o.id
        /\ p.filename = o.filename /\ p.verbatim = o.verbatim
        /\ p.hostname = o.hostname /\ p.hostaddr = o.hostaddr /\ p.application = o.application
        /\ p.pid = o.pid /\ p.module = o.module /\ p.iteration = o.iteration
    BY <2>4 DEF ErrorObjs
  <2>7. PICK t : t = said'
    OBVIOUS
  <2>8. /\ t \in SaidType /\ t.messages = said.messages /\ t.passedOn = said.passedOn
        /\ t.severity = value /\ t.category = said.category
        /\ t.hostname = said.hostname /\ t.hostaddr = said.hostaddr
        /\ t.application = said.application
        /\ t.pid = said.pid /\ t.module = said.module /\ t.iteration = said.iteration
    BY <2>1, <2>2, <2>7 DEF SaidType
  <2>9. Kept(p, t)
    BY <1>1, <2>3, <2>6, <2>8, Zenon DEF Kept
  <2> QED
    BY <1>2, <2>5, <2>6, <2>7, <2>8, <2>9
<1>5. CASE setting.field = "category"
  <2>1. value \in Texts
    BY <1>3, <1>5, SettingsAssumption DEF PlainFields
  <2>2. received' = SetCategory(received, value) /\ said' = [said EXCEPT !.category = value]
    BY <1>3, <1>5 DEF Set, Call, PlainFields
  <2>3. PICK p : p = SetID(o, value) /\ p \in ErrorObjs /\ CutCategory(value, p.id)
                 /\ p = [o EXCEPT !.id = p.id, !.idOverflow = p.idOverflow]
    <3>1. PICK p : p = SetID(o, value)
      OBVIOUS
    <3> QED
      BY <2>1, <3>1, CategoryCut
  <2>4. received' = Changed(p)
    BY <1>1, <2>2, <2>3, Zenon DEF SetCategory
  <2>5. /\ p.items = o.items /\ p.severity = o.severity
        /\ p.filename = o.filename /\ p.verbatim = o.verbatim
        /\ p.hostname = o.hostname /\ p.hostaddr = o.hostaddr /\ p.application = o.application
        /\ p.pid = o.pid /\ p.module = o.module /\ p.iteration = o.iteration
    BY <2>3 DEF ErrorObjs
  <2>6. PICK t : t = said'
    OBVIOUS
  <2>7. /\ t \in SaidType /\ t.messages = said.messages /\ t.passedOn = said.passedOn
        /\ t.severity = said.severity /\ t.category = value
        /\ t.hostname = said.hostname /\ t.hostaddr = said.hostaddr
        /\ t.application = said.application
        /\ t.pid = said.pid /\ t.module = said.module /\ t.iteration = said.iteration
    BY <2>1, <2>2, <2>6 DEF SaidType
  <2>8. Kept(p, t)
    BY <1>1, <2>3, <2>5, <2>7, Zenon DEF Kept
  <2> QED
    BY <1>2, <2>3, <2>4, <2>5, <2>6, <2>7, <2>8
<1>6. CASE setting.field \in PlainFields
  <2>1. IF field = "pid" THEN value \in Int ELSE value \in Texts
    BY <1>3, <1>6, SettingsAssumption DEF PlainFields
  <2>2. received' = SetField(received, field, value) /\ said' = [said EXCEPT ![field] = value]
    BY <1>3, <1>6 DEF Set, Call, PlainFields
  <2>3. PICK p : p = [o EXCEPT ![field] = value]
    OBVIOUS
  <2>4. received' = Changed(p)
    BY <1>1, <2>2, <2>3, Zenon DEF SetField
  <2>5. field \in PlainFields
    BY <1>3, <1>6
  <2>6. /\ p \in ErrorObjs /\ p.items = o.items /\ p.severity = o.severity /\ p.id = o.id
        /\ p.filename = o.filename /\ p.verbatim = o.verbatim
        /\ \A x \in PlainFields : p[x] = IF x = field THEN value ELSE o[x]
    BY <2>1, <2>3, <2>5 DEF ErrorObjs, PlainFields
  <2>7. PICK t : t = said'
    OBVIOUS
  <2>8. /\ t \in SaidType /\ t.messages = said.messages /\ t.passedOn = said.passedOn
        /\ t.severity = said.severity /\ t.category = said.category
        /\ \A x \in PlainFields : t[x] = IF x = field THEN value ELSE said[x]
    BY <2>1, <2>2, <2>5, <2>7 DEF SaidType, PlainFields
  <2>9. \A x \in PlainFields : o[x] = said[x] => p[x] = t[x]
    BY <2>6, <2>8
  <2>10. Kept(p, t)
    BY <1>1, <2>6, <2>8, <2>9 DEF Kept, PlainFields
  <2> QED
    BY <1>2, <2>4, <2>6, <2>7, <2>8, <2>10
<1>7. setting.field \in {"message", "severity", "category"} \cup PlainFields
  BY SettingsAssumption DEF PlainFields
<1> QED
  BY <1>4, <1>5, <1>6, <1>7

\* Everything that is said of a received message is in it.
LEMMA HeldStep == ASSUME WidthsAre, Held, [Next]_vars PROVE Held'
<1>1. CASE UNCHANGED <<received, said>>
  BY <1>1 DEF Held
<1>2. ASSUME received # Nothing,
             received' \in Received /\ said' \in SaidType
               /\ Kept(received'.msg, said') /\ Pieces(received'.msg, said')
      PROVE  Held'
  <2>1. received' # Nothing
    BY <1>2, NothingElse
  <2> QED
    BY <1>2, <2>1, Zenon DEF Held
<1>3. ASSUME Receive PROVE Held'
  <2>1. PICK r : r = NewReceived(1)
    OBVIOUS
  <2>2. r \in Received /\ Kept(r.msg, SaidNothing) /\ Pieces(r.msg, SaidNothing)
    BY <2>1, NewReceivedIs
  <2>3. received' = r /\ said' = SaidNothing /\ said' \in SaidType
    BY <1>3, <2>1, NothingSaid DEF Receive, Held
  <2>4. received' # Nothing
    BY <2>2, <2>3, NothingElse
  <2> QED
    BY <2>2, <2>3, <2>4, Zenon DEF Held
<1>4. ASSUME NEW setting \in Settings, Set(setting) PROVE Held'
  <2>1. received # Nothing
    BY <1>4, SettingsAssumption DEF Set, Call, PlainFields
  <2>2. /\ received \in Received /\ said \in SaidType
        /\ Kept(received.msg, said) /\ Pieces(received.msg, said)
    BY <2>1, Zenon DEF Held
  <2>3. CASE setting.field = "message"
    <3>1. PICK m \in Sayings : m = setting.value
      BY <2>3, SettingsAssumption DEF PlainFields
    <3>2. /\ received' = SetMessage(received, m.file, m.line, m.message)
          /\ said' = [said EXCEPT !.messages = Append(@, m)]
      <4>1. PICK value : value = setting.value
        OBVIOUS
      <4>2. PICK q : q = SetMessage(received, value.file, value.line, value.message)
        OBVIOUS
      <4>3. PICK t : t = [said EXCEPT !.messages = Append(@, value)]
        OBVIOUS
      <4>4. received' = q /\ said' = t
        BY <1>4, <2>3, <4>1, <4>2, <4>3 DEF Set, Call, PlainFields
      <4> QED
        BY <3>1, <4>1, <4>2, <4>3, <4>4
    <3> QED
      BY <1>2, <2>1, <2>2, <3>2, MessageKept
  <2>4. CASE setting.field # "message"
    BY <1>2, <1>4, <2>1, <2>2, <2>4, SetterKept
  <2> QED
    BY <2>3, <2>4
<1>5. ASSUME PassOn PROVE Held'
  <2>1. received # Nothing
    BY <1>5 DEF PassOn, Call
  <2>2. /\ received \in Received /\ said \in SaidType
        /\ Kept(received.msg, said) /\ Pieces(received.msg, said)
    BY <2>1, Zenon DEF Held
  <2>3. PICK m : m = [file |-> FileOf(received), line |-> LineOf(received),
                      message |-> MessageOf(received)]
    OBVIOUS
  <2>4. /\ received' = PassedOn(received)
        /\ said' = [said EXCEPT !.passedOn = TRUE, !.messages = IF @ = <<>> THEN <<m>> ELSE @]
    BY <1>5, <2>3, Zenon DEF PassOn, Call
  <2> QED
    BY <1>2, <2>1, <2>2, <2>3, <2>4, PassedOnKept
<1>6. ASSUME Copy PROVE Held'
  <2>1. received # Nothing
    BY <1>6 DEF Copy, Call
  <2>2. /\ received \in Received /\ said \in SaidType
        /\ Kept(received.msg, said) /\ Pieces(received.msg, said)
    BY <2>1, Zenon DEF Held
  <2>3. PICK o \in ErrorObjs : o = received.msg
    BY <2>2 DEF Received
  <2>4. PICK p : p = CopyErrorObj(CopyErrorObj(o))
    OBVIOUS
  <2>5. "dec" \in STRING /\ <<>> \in Texts
    BY Words
  <2>6. /\ p \in ErrorObjs /\ p.items = o.items /\ p.severity = o.severity /\ p.id = o.id
        /\ p.filename = o.filename /\ p.verbatim = o.verbatim
        /\ p.hostname = o.hostname /\ p.hostaddr = o.hostaddr /\ p.application = o.application
        /\ p.pid = o.pid /\ p.module = o.module /\ p.iteration = <<>>
    BY <2>4, <2>5 DEF CopyErrorObj, ErrorObjs
  <2>7. received' = [msg |-> p, empty |-> FALSE] /\ said' = [said EXCEPT !.iteration = <<>>]
    BY <1>6, <2>3, <2>4, Zenon DEF Copy, Call, FromErrorObj, ErrorObject
  <2>8. PICK t : t = said'
    OBVIOUS
  <2>9. /\ t \in SaidType /\ t.messages = said.messages /\ t.passedOn = said.passedOn
        /\ t.severity = said.severity /\ t.category = said.category
        /\ t.hostname = said.hostname /\ t.hostaddr = said.hostaddr
        /\ t.application = said.application
        /\ t.pid = said.pid /\ t.module = said.module /\ t.iteration = <<>>
    BY <2>2, <2>5, <2>7, <2>8 DEF SaidType
  <2>10. Kept(p, t)
    BY <2>2, <2>3, <2>6, <2>9, Zenon DEF Kept
  <2>11. Pieces(p, t)
    BY <2>2, <2>3, <2>6, <2>9, PiecesSame, Zenon
  <2>12. [msg |-> p, empty |-> FALSE] \in Received /\ [msg |-> p, empty |-> FALSE].msg = p
    BY <2>6 DEF Received
  <2> QED
    BY <1>2, <2>1, <2>7, <2>8, <2>9, <2>10, <2>11, <2>12, Zenon
<1>7. ASSUME NEW kind, Forward(kind) \/ LogLocal(kind) PROVE Held'
  BY <1>1, <1>7 DEF Forward, LogLocal, Log
<1>8. ASSUME NEW e, NEW name, StartMessageFacility(e, name) PROVE Held'
  BY <1>1, <1>8 DEF StartMessageFacility
<1>9. ASSUME NEW renaming, Rename(renaming) PROVE Held'
  BY <1>1, <1>9 DEF Rename
<1>10. ASSUME EndMessageFacility PROVE Held'
  BY <1>1, <1>10 DEF EndMessageFacility
<1>11. CASE UNCHANGED vars
  BY <1>1, <1>11 DEF vars
<1> QED
  BY <1>3, <1>4, <1>5, <1>6, <1>7, <1>8, <1>9, <1>10, <1>11, Zenon DEF Next

\* At first nothing is held, and nothing was said.
LEMMA HeldFirst == ASSUME Init PROVE Held
BY NothingSaid DEF Init, Held

\* The getters read what is held.
LEMMA HeldReads == ASSUME Held PROVE ReadsBack
<1> SUFFICES ASSUME received # Nothing
             PROVE  /\ SeverityOf(received) = InputStr(ForMessage(FromName(said.severity)))
                    /\ CutCategory(said.category, received.msg.id)
                    /\ \A field \in PlainFields : received.msg[field] = said[field]
                    /\ Len(said.messages) = 1 /\ Findable(said.messages[1]) =>
                         LET m == said.messages[1]
                         IN  /\ FileOf(received) = m.file
                             /\ m.line[1] \in Numbers => LineOf(received) = <<m.line[1]>>
                             /\ MessageOf(received) = m.message
  BY Zenon DEF ReadsBack
<1>1. received \in Received /\ Kept(received.msg, said) /\ Pieces(received.msg, said)
  BY Zenon DEF Held
<1>2. SeverityOf(received) = InputStr(ForMessage(FromName(said.severity)))
  BY <1>1, Zenon DEF Kept, SeverityOf
<1>3. CutCategory(said.category, received.msg.id)
  BY <1>1, Zenon DEF Kept
<1>4. \A field \in PlainFields : received.msg[field] = said[field]
  BY <1>1 DEF Kept, PlainFields
<1>5. ASSUME NEW m, m = said.messages[1], Len(said.messages) = 1, Findable(m)
      PROVE  /\ FileOf(received) = m.file
             /\ m.line[1] \in Numbers => LineOf(received) = <<m.line[1]>>
             /\ MessageOf(received) = m.message
  <2>1. Standing(received.msg.items, m)
    BY <1>1, <1>5, Zenon DEF Pieces
  <2>2. PICK e \in Sayings :
          /\ e.file = m.file /\ e.message = m.message
          /\ e.line # <<>>
          /\ m.line[1] \in Numbers => e.line[1] = m.line[1]
          /\ received.msg.items = Entries(<<>>, e)
    BY <2>1, Zenon DEF Standing
  <2> QED
    BY <1>1, <2>2, EntriesRead
<1> QED
  BY <1>2, <1>3, <1>4, <1>5, Zenon

\* Through however many processes a message came, and however often it was
\* copied, the getters of MessageFacilityMsg give what its first sender set.
THEOREM GettersTellWhatWasSaid ==
    ASSUME \A word \in STRING : Width(word) \in Nat
    PROVE  Spec => []ReadsBack
<1>1. WidthsAre
  BY Zenon DEF WidthsAre
<1>2. Init => Held
  BY HeldFirst
<1>3. Held /\ [Next]_vars => Held'
  BY <1>1, HeldStep
<1>4. Held => ReadsBack
  BY HeldReads
<1> QED
  BY <1>2, <1>3, <1>4, PTL DEF Spec

LEMMA OneAndMore ==
    ASSUME NEW A, NEW x \in A, NEW s \in Seq(A)
    PROVE  /\ <<x>> \o s # <<>> /\ (<<x>> \o s)[1] = x
           /\ Tail(<<x>> \o s) = s
<1>1. /\ <<x>> \o s \in Seq(A) /\ Len(<<x>> \o s) = Len(s) + 1 /\ (<<x>> \o s)[1] = x
      /\ \A i \in 1 .. Len(s) : (<<x>> \o s)[i + 1] = s[i]
  OBVIOUS
<1>2. PICK t \in Seq(A) : t = <<x>> \o s
  BY <1>1
<1>3. Tail(t) = s
  BY <1>1, <1>2
<1> QED
  BY <1>1, <1>2, <1>3

\* The line break before the user's text is left out.
LEMMA Broken ==
    ASSUME NEW text \in Texts, NEW all, all = (<<>> \o <<NL>>) \o text
    PROVE  all # <<>> /\ all[1] = NL /\ Tail(all) = text
<1>1. PICK nl : nl \in STRING /\ nl = NL
  BY WordsAssumption, Zenon
<1>2. text \in Seq(STRING)
  BY DEF Texts
<1>3. <<>> \o <<nl>> = <<nl>>
  BY <1>1, OneWord
<1>4. <<nl>> \o text # <<>> /\ (<<nl>> \o text)[1] = nl /\ Tail(<<nl>> \o text) = text
  BY <1>1, <1>2, OneAndMore
<1> QED
  BY <1>1, <1>3, <1>4, Zenon

\* The columns of a row.
LEMMA Tenth ==
    ASSUME NEW c1, NEW c2, NEW c3, NEW c4, NEW c5, NEW c6, NEW c7, NEW c8, NEW c9, NEW c10
    PROVE  LET row == Append(<<c1, c2, c3, c4, c5, c6, c7, c8, c9>>, c10)
           IN  /\ row[2] = c2 /\ row[3] = c3 /\ row[4] = c4 /\ row[5] = c5 /\ row[6] = c6
               /\ row[7] = c7 /\ row[8] = c8 /\ row[9] = c9 /\ row[10] = c10
<1> DEFINE C == {c1, c2, c3, c4, c5, c6, c7, c8, c9, c10}
<1>1. PICK s : s = <<c1, c2, c3, c4, c5, c6, c7, c8, c9>>
  OBVIOUS
<1>2. /\ s \in Seq(C) /\ Len(s) = 9
      /\ s[2] = c2 /\ s[3] = c3 /\ s[4] = c4 /\ s[5] = c5 /\ s[6] = c6
      /\ s[7] = c7 /\ s[8] = c8 /\ s[9] = c9
  BY <1>1
<1>3. c10 \in C
  OBVIOUS
<1> HIDE DEF C
<1>4. Append(s, c10)[10] = c10 /\ \A i \in 1 .. 9 : Append(s, c10)[i] = s[i]
  <2>1. s \in Seq(C)
    BY <1>2
  <2>2. PICK a, n : a = Append(s, c10) /\ n = Len(s)
    OBVIOUS
  <2>3. a[n + 1] = c10 /\ \A i \in 1 .. n : a[i] = s[i]
    BY <1>3, <2>1, <2>2, Appended
  <2>4. n = 9 /\ n + 1 = 10
    BY <1>2, <2>2
  <2>5. a[10] = c10 /\ \A i \in 1 .. 9 : a[i] = s[i]
    BY <2>3, <2>4
  <2> QED
    BY <2>2, <2>5, Zenon
<1> QED
  BY <1>1, <1>2, <1>4

\* What a row says of a message of which s was said.
Own(brought, name) == IF brought = <<>> THEN name ELSE brought

Tells(row, s, own) ==
    /\ row[2] = Own(s.hostname, own.hostname)
    /\ row[3] = Own(s.hostaddr, own.hostaddr)
    /\ row[4] = <<Name(ForMessage(FromName(s.severity)))>>
    /\ CutCategory(s.category, row[5])
    /\ row[6] = Own(s.application, own.application)
    /\ row[7] = <<Decimal(IF s.pid = 0 THEN own.pid ELSE s.pid)>>
    /\ row[8] = Iteration /\ row[9] = s.module
    /\ (\A i \in DOMAIN s.messages : Findable(s.messages[i]))
         /\ (s.passedOn => /\ Len(s.messages) = 1
                           /\ \E n \in Numbers : s.messages[1].line = <<n>>)
       => row[10] = Told(s.messages)

\* The same but for the iteration, which is that of the thread.
KeptButIteration(o, s) ==
    /\ o.severity = ForMessage(FromName(s.severity))
    /\ CutCategory(s.category, o.id)
    /\ o.hostname = s.hostname /\ o.hostaddr = s.hostaddr /\ o.application = s.application
    /\ o.pid = s.pid /\ o.module = s.module
    /\ o.filename = <<>> /\ o.verbatim = FALSE

\* The row of a message tells what was said of it.
LEMMA RowTells ==
    ASSUME NEW o \in ErrorObjs, NEW s \in SaidType, KeptButIteration(o, s), Pieces(o, s),
           NEW row, row = SqliteRow(Format, FillNames(o, names), Iteration)
    PROVE  Tells(row, s, names)
<1>1. PICK p : p = FillNames(o, names)
  OBVIOUS
<1>2. /\ p.hostname = Own(s.hostname, names.hostname)
      /\ p.hostaddr = Own(s.hostaddr, names.hostaddr)
      /\ p.application = Own(s.application, names.application)
      /\ p.pid = IF s.pid = 0 THEN names.pid ELSE s.pid
      /\ p.severity = o.severity /\ p.id = o.id /\ p.module = s.module
      /\ p.items = o.items /\ p.filename = <<>> /\ p.verbatim = FALSE
  <2>1. p = [o EXCEPT !.hostname = OrElse(o.hostname, names.hostname),
                      !.hostaddr = OrElse(o.hostaddr, names.hostaddr),
                      !.application = OrElse(o.application, names.application),
                      !.pid = IF o.pid = 0 THEN names.pid ELSE o.pid]
    BY <1>1, Zenon DEF FillNames
  <2>2. /\ p.hostname = OrElse(o.hostname, names.hostname)
        /\ p.hostaddr = OrElse(o.hostaddr, names.hostaddr)
        /\ p.application = OrElse(o.application, names.application)
        /\ p.pid = IF o.pid = 0 THEN names.pid ELSE o.pid
        /\ p.severity = o.severity /\ p.id = o.id /\ p.module = o.module
        /\ p.items = o.items /\ p.filename = o.filename /\ p.verbatim = o.verbatim
    BY <2>1 DEF ErrorObjs
  <2> QED
    BY <2>2 DEF KeptButIteration, Own, OrElse
<1>3. PICK text \in Texts : text = FlattenSeq(o.items)
  <2>1. o.items \in Seq(Seq(STRING))
    BY DEF ErrorObjs, Texts
  <2>2. FlattenSeq(o.items) \in Seq(STRING)
    BY <2>1, FlattenIs
  <2> QED
    BY <2>2 DEF Texts
<1>4. LastColumn(Format, p) = text
  <2>1. Format.noLineBreaks = FALSE /\ Format.text = TRUE
    BY DEF Format
  <2>2. PICK all : all = (<<>> \o <<NL>>) \o text
    OBVIOUS
  <2>3. FillUsrMsg(Format, p) = all
    BY <1>2, <1>3, <2>1, <2>2 DEF FillUsrMsg, When
  <2> QED
    BY <2>2, <2>3, Broken, Zenon DEF LastColumn
<1>5. PICK decimal : decimal = Decimal(p.pid)
  OBVIOUS
<1>6. row = Append(<<<<"time">>, p.hostname, p.hostaddr, <<Name(p.severity)>>, p.id,
                     p.application, <<decimal>>, Iteration, p.module>>, text)
  BY <1>1, <1>4, <1>5, Zenon DEF SqliteRow, Columns
<1>7. /\ row[2] = p.hostname /\ row[3] = p.hostaddr /\ row[4] = <<Name(p.severity)>>
      /\ row[5] = p.id /\ row[6] = p.application /\ row[7] = <<decimal>>
      /\ row[8] = Iteration /\ row[9] = p.module /\ row[10] = text
  BY <1>6, Tenth
<1>8. ASSUME \A i \in DOMAIN s.messages : Findable(s.messages[i]),
             s.passedOn => /\ Len(s.messages) = 1
                           /\ \E n \in Numbers : s.messages[1].line = <<n>>
      PROVE  text = Told(s.messages)
  <2>1. CASE ~s.passedOn
    BY <1>3, <1>8, <2>1, Zenon DEF Pieces
  <2>2. CASE s.passedOn
    <3>1. PICK messages \in Seq(Sayings) :
            messages = s.messages /\ Len(messages) = 1 /\ DOMAIN messages = 1 .. Len(messages)
      BY <1>8, <2>2 DEF SaidType
    <3>2. PICK m \in Sayings : m = messages[1] /\ Findable(m) /\ \E n \in Numbers : m.line = <<n>>
      <4>1. 1 \in DOMAIN messages /\ messages[1] \in Sayings
        BY <3>1
      <4> QED
        BY <1>8, <2>2, <3>1, <4>1
    <3>3. Standing(o.items, m)
      BY <3>1, <3>2, Zenon DEF Pieces
    <3>4. PICK e \in Sayings : /\ e.file = m.file /\ e.message = m.message /\ e.line = m.line
                               /\ o.items = Entries(<<>>, e)
      BY <3>2, <3>3, Zenon DEF Standing
    <3>5. TextOf(e) = TextOf(m)
      BY <3>4, Zenon DEF TextOf
    <3>6. <<>> \in Seq(Texts) /\ <<>> \in Seq(Sayings)
      OBVIOUS
    <3>7. text = FlattenSeq(<<>>) \o TextOf(m)
      BY <1>3, <3>4, <3>5, <3>6, EntriesFlat
    <3>8. Told(<<>>) = FlattenSeq(<<>>)
      <4>1. [i \in DOMAIN <<>> |-> TextOf(<<>>[i])] = <<>>
        OBVIOUS
      <4> QED
        BY <4>1, Zenon DEF Told
    <3>9. Told(Append(<<>>, m)) = Told(<<>>) \o TextOf(m)
      BY <3>6, ToldMore
    <3>10. messages = Append(<<>>, m)
      BY <3>1, <3>2, Single
    <3> QED
      BY <3>1, <3>7, <3>8, <3>9, <3>10, Zenon
  <2> QED
    BY <2>1, <2>2
<1>9. /\ row[2] = Own(s.hostname, names.hostname)
      /\ row[3] = Own(s.hostaddr, names.hostaddr)
      /\ row[4] = <<Name(ForMessage(FromName(s.severity)))>>
      /\ CutCategory(s.category, row[5])
      /\ row[6] = Own(s.application, names.application)
      /\ row[7] = <<Decimal(IF s.pid = 0 THEN names.pid ELSE s.pid)>>
      /\ row[8] = Iteration /\ row[9] = s.module
  BY <1>2, <1>5, <1>7, Zenon DEF KeptButIteration
<1> QED
  BY <1>7, <1>8, <1>9, Zenon DEF Tells

\* A step that writes anything writes the message that it is given.
LEMMA LogTells ==
    ASSUME NEW kind, NEW o \in ErrorObjs, NEW s \in SaidType, KeptButIteration(o, s), Pieces(o, s),
           Log(kind, o, s)
    PROVE  ForwardedWhole'
<1>1. PICK row : row = SqliteRow(Format, FillNames(o, names), Iteration)
  OBVIOUS
<1>2. Tells(row, s, names)
  BY <1>1, RowTells
<1>3. written' # Nothing => written' = [said |-> s, row |-> row]
  BY <1>1, Zenon DEF Log
<1>4. PICK w : w = [said |-> s, row |-> row]
  OBVIOUS
<1>5. w.said = s /\ w.row = row
  BY <1>4
<1>6. names' = names
  BY DEF Log
<1>7. ForwardedWhole' <=>  (written' # Nothing => Tells(written'.row, written'.said, names'))
  BY Zenon DEF ForwardedWhole, Tells, Own, Told, TextOf
<1> QED
  BY <1>2, <1>3, <1>4, <1>5, <1>6, <1>7, Zenon
\* Only the steps that log write anything; both give what was said.
LEMMA WholeStep == ASSUME WidthsAre, Held, ForwardedWhole, [Next]_vars PROVE ForwardedWhole'
<1>1. CASE written' = Nothing
  BY <1>1 DEF ForwardedWhole
<1>2. "dec" \in STRING /\ <<>> \in Texts
  BY Words
<1>3. ASSUME NEW kind, Forward(kind) PROVE ForwardedWhole'
  <2>1. received # Nothing
    BY <1>3 DEF Forward
  <2>2. /\ received \in Received /\ said \in SaidType
        /\ Kept(received.msg, said) /\ Pieces(received.msg, said)
    BY <2>1, Zenon DEF Held
  <2>3. PICK o \in ErrorObjs : o = received.msg
    BY <2>2 DEF Received
  <2>4. PICK p : p = CopyErrorObj(CopyErrorObj(o))
    OBVIOUS
  <2>5. /\ p \in ErrorObjs /\ p.items = o.items /\ p.severity = o.severity /\ p.id = o.id
        /\ p.filename = o.filename /\ p.verbatim = o.verbatim
        /\ p.hostname = o.hostname /\ p.hostaddr = o.hostaddr /\ p.application = o.application
        /\ p.pid = o.pid /\ p.module = o.module
    BY <1>2, <2>4 DEF CopyErrorObj, ErrorObjs
  <2>6. PICK s \in SaidType : s = said
    BY <2>2
  <2>7. KeptButIteration(p, s)
    BY <2>2, <2>3, <2>5, <2>6, Zenon DEF Kept, KeptButIteration
  <2>8. Pieces(p, s)
    BY <2>2, <2>3, <2>5, <2>6, PiecesSame, Zenon
  <2>9. Log(kind, p, s)
    BY <1>3, <2>3, <2>4, <2>6, Zenon DEF Forward, ErrorObject
  <2> QED
    BY <2>5, <2>7, <2>8, <2>9, LogTells
<1>4. ASSUME NEW kind, LogLocal(kind) PROVE ForwardedWhole'
  <2>1. PICK s \in SaidType : s = SaidNothing
    BY NothingSaid
  <2>2. PICK o : o = NewErrorObj([severity |-> ELsev_info, verbatim |-> FALSE,
                                  category |-> <<>>, file |-> <<>>], 1)
    OBVIOUS
  <2>3. ELsev_info \in 1 .. 8
    BY DEF ELsev_info
  <2>4. /\ o \in ErrorObjs /\ o.severity = ForMessage(ELsev_info)
        /\ CutCategory(<<>>, o.id) /\ o.items = <<>>
        /\ o.hostname = <<>> /\ o.hostaddr = <<>> /\ o.application = <<>>
        /\ o.pid = 0 /\ o.module = <<>> /\ o.filename = <<>> /\ o.verbatim = FALSE
    BY <2>2, <2>3, NewIs
  <2>5. PICK p : p = [o EXCEPT !.iteration = Iteration]
    OBVIOUS
  <2>6. /\ p \in ErrorObjs /\ p.items = o.items /\ p.severity = o.severity /\ p.id = o.id
        /\ p.filename = o.filename /\ p.verbatim = o.verbatim
        /\ p.hostname = o.hostname /\ p.hostaddr = o.hostaddr /\ p.application = o.application
        /\ p.pid = o.pid /\ p.module = o.module
    BY <2>4, <2>5, IterationAssumption DEF ErrorObjs
  <2>7. ForMessage(FromName(s.severity)) = ForMessage(ELsev_info)
    <3>1. InputStr(ELsev_info) = "INFO" /\ s.severity = "INFO"
      BY <2>1 DEF InputStr, ELsev_info, SaidNothing
    <3> QED
      BY <2>3, <3>1, LevelOfName
  <2>8. /\ s.category = <<>> /\ s.hostname = <<>> /\ s.hostaddr = <<>> /\ s.application = <<>>
        /\ s.pid = 0 /\ s.module = <<>> /\ s.messages = <<>>
    BY <2>1 DEF SaidNothing
  <2>9. KeptButIteration(p, s)
    BY <2>4, <2>6, <2>7, <2>8, Zenon DEF KeptButIteration
  <2>10. Pieces(p, s)
    <3>1. [i \in DOMAIN <<>> |-> TextOf(<<>>[i])] = <<>> /\ Len(<<>>) # 1
      OBVIOUS
    <3>2. FlattenSeq(p.items) = Told(s.messages)
      BY <2>4, <2>6, <2>8, <3>1, Zenon DEF Told
    <3> QED
      BY <2>4, <2>6, <2>8, <3>1, <3>2, Zenon DEF Pieces
  <2>11. Log(kind, p, s)
    BY <1>4, <2>1, <2>2, <2>5, Zenon DEF LogLocal
  <2> QED
    BY <2>6, <2>9, <2>10, <2>11, LogTells
<1>5. ASSUME NEW e, NEW name, StartMessageFacility(e, name) PROVE ForwardedWhole'
  BY <1>1, <1>5 DEF StartMessageFacility
<1>6. ASSUME NEW renaming, Rename(renaming) PROVE ForwardedWhole'
  BY <1>1, <1>6 DEF Rename
<1>7. ASSUME EndMessageFacility \/ Receive PROVE ForwardedWhole'
  BY <1>1, <1>7 DEF EndMessageFacility, Receive
<1>8. ASSUME PassOn \/ Copy PROVE ForwardedWhole'
  BY <1>1, <1>8 DEF PassOn, Copy, Call
<1>9. ASSUME NEW setting \in Settings, Set(setting) PROVE ForwardedWhole'
  BY <1>1, <1>9, SettingsAssumption DEF Set, Call, PlainFields
<1>10. CASE UNCHANGED vars
  BY <1>10, Zenon DEF vars, ForwardedWhole
<1> QED
  BY <1>3, <1>4, <1>5, <1>6, <1>7, <1>8, <1>9, <1>10, Zenon DEF Next

\* The row that sqlite or syslog writes of it is made of what was set too, and of
\* names of this process where none was set (sendMsgToDests, fillUsrMsg).
THEOREM ForwardedAsTold ==
    ASSUME \A word \in STRING : Width(word) \in Nat
    PROVE  Spec => []ForwardedWhole
<1>1. WidthsAre
  BY Zenon DEF WidthsAre
<1>2. Init => Held /\ ForwardedWhole
  <2>1. Init => ForwardedWhole
    BY DEF Init, ForwardedWhole
  <2> QED
    BY <2>1, HeldFirst
<1>3. Held /\ ForwardedWhole /\ [Next]_vars => Held' /\ ForwardedWhole'
  BY <1>1, HeldStep, WholeStep
<1> QED
  BY <1>2, <1>3, PTL DEF Spec
===============================================================================
