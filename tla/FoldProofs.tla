------------------------------- MODULE FoldProofs -------------------------------
(***************************************************************************)
(* Sums over finite sets, as FiniteSetsExt's MapThenSumSet computes them,  *)
(* and texts put together, as SequencesExt's FlattenSeq does.  The first   *)
(* takes the elements in an order of its own; that any order gives the     *)
(* same sum is proved by induction over the subsets.                       *)
(***************************************************************************)
EXTENDS Integers, Severity, SequencesExt, SequenceTheorems, FiniteSetTheorems, WellFoundedInduction, TLAPS

\* A text over A is a text over any set that holds A.
LEMMA Wider ==
    ASSUME NEW A, NEW B, A \subseteq B, NEW s \in Seq(A)
    PROVE  s \in Seq(B)
<1>1. Len(s) \in Nat /\ \A i \in 1 .. Len(s) : s[i] \in B
  OBVIOUS
<1>2. s = [i \in 1 .. Len(s) |-> s[i]]
  OBVIOUS
<1> QED
  BY <1>1, <1>2

SumOf(f, S) == MapThenSumSet(LAMBDA x : f[x], S)

\* The element that comes first, and the sums over all subsets at once.
First(s) == CHOOSE x \in s : TRUE
Sums(f, S, g) == g = [s \in SUBSET S |-> IF s = {} THEN 0 ELSE f[First(s)] + g[s \ {First(s)}]]

\* What holds of a finite set when it holds of its smaller subsets.
LEMMA SetInduction ==
    ASSUME NEW S, IsFiniteSet(S), NEW Q,
           \A T \in SUBSET S : (\A U \in (SUBSET T) \ {T} : U \in Q) => T \in Q
    PROVE  \A T \in SUBSET S : T \in Q
<1> DEFINE bad == {T \in SUBSET S : T \notin Q}
<1> SUFFICES ASSUME bad # {} PROVE FALSE
  OBVIOUS
<1>1. FiniteSubsetsOf(S) = SUBSET S
  BY FS_FiniteSubsetsOfFinite
<1>2. IsWellFoundedOn(StrictSubsetOrdering(S), SUBSET S)
  <2>1. IsWellFoundedOn(StrictSubsetOrdering(S), FiniteSubsetsOf(S))
    BY Zenon, FS_StrictSubsetOrderingWellFounded
  <2> QED
    BY <1>1, <2>1
<1>3. bad \subseteq SUBSET S
  OBVIOUS
<1>4. \E T \in bad : \A U \in bad : ~(<<U, T>> \in StrictSubsetOrdering(S))
  <2> HIDE DEF bad
  <2> QED
    BY <1>2, <1>3, WFMin
<1>5. PICK T \in bad : \A U \in bad : ~(<<U, T>> \in StrictSubsetOrdering(S))
  BY <1>4
<1>6. \A U \in (SUBSET T) \ {T} : U \in Q
  BY <1>5 DEF StrictSubsetOrdering
<1> QED
  BY <1>5, <1>6

\* The first element of a set is one of it.
LEMMA FirstIn == ASSUME NEW s, s # {} PROVE First(s) \in s
BY DEF First

\* MapThenSumSet takes any function that sums up.
LEMMA TotalChooses == ASSUME NEW f, NEW S PROVE SumOf(f, S) = (CHOOSE g : Sums(f, S, g))[S]
BY Zenon DEF SumOf, MapThenSumSet, MapThenFoldSet, Sums, First

\* Two functions that sum up agree where both are defined.
LEMMA SumsUnique ==
    ASSUME NEW S, IsFiniteSet(S), NEW f, NEW V \in SUBSET S,
           NEW g, Sums(f, S, g), NEW h, Sums(f, V, h)
    PROVE  \A s \in SUBSET V : g[s] = h[s]
<1> DEFINE Q == {s \in SUBSET V : g[s] = h[s]}
<1>1. IsFiniteSet(V)
  BY FS_Subset
<1>2. ASSUME NEW T \in SUBSET V, \A U \in (SUBSET T) \ {T} : U \in Q
      PROVE  T \in Q
  <2>1. /\ g[T] = IF T = {} THEN 0 ELSE f[First(T)] + g[T \ {First(T)}]
        /\ h[T] = IF T = {} THEN 0 ELSE f[First(T)] + h[T \ {First(T)}]
    BY DEF Sums
  <2>2. CASE T = {}
    BY <2>1, <2>2
  <2>3. CASE T # {}
    <3>1. T \ {First(T)} \in (SUBSET T) \ {T}
      BY <2>3, FirstIn
    <3>2. g[T \ {First(T)}] = h[T \ {First(T)}]
      BY <1>2, <3>1
    <3> QED
      BY <2>1, <2>3, <3>2
  <2> QED
    BY <2>2, <2>3
<1>3. \A s \in SUBSET V : s \in Q
  <2> HIDE DEF Q
  <2> QED
    BY <1>1, <1>2, SetInduction
<1> QED
  BY <1>3

\* A function that sums up says what MapThenSumSet computes.
LEMMA TotalIs ==
    ASSUME NEW S, IsFiniteSet(S), NEW f, NEW g, Sums(f, S, g), NEW s \in SUBSET S
    PROVE  SumOf(f, s) = g[s]
<1> DEFINE r == [u \in SUBSET s |-> g[u]]
<1>1. Sums(f, s, r)
  <2>1. ASSUME NEW u \in SUBSET s
        PROVE  r[u] = IF u = {} THEN 0 ELSE f[First(u)] + r[u \ {First(u)}]
    <3>1. g[u] = IF u = {} THEN 0 ELSE f[First(u)] + g[u \ {First(u)}]
      BY DEF Sums
    <3>2. u \ {First(u)} \in SUBSET s
      OBVIOUS
    <3> QED
      BY <3>1, <3>2
  <2>2. r = [u \in SUBSET s |-> IF u = {} THEN 0 ELSE f[First(u)] + r[u \ {First(u)}]]
    BY <2>1
  <2> HIDE DEF r
  <2> QED
    BY <2>2 DEF Sums
<1> HIDE DEF r
<1>2. Sums(f, s, CHOOSE k : Sums(f, s, k))
  BY <1>1
<1>3. PICK h : h = (CHOOSE k : Sums(f, s, k))
  OBVIOUS
<1>4. Sums(f, s, h) /\ SumOf(f, s) = h[s]
  BY <1>2, <1>3, TotalChooses
<1>5. s \in SUBSET s
  OBVIOUS
<1>6. g[s] = h[s]
  BY <1>4, <1>5, SumsUnique
<1> QED
  BY <1>4, <1>6

Numeric(f, S) == \A x \in S : f[x] \in Int

\* There is a function that sums up.
LEMMA SumsExist ==
    ASSUME NEW S, IsFiniteSet(S), NEW f, Numeric(f, S)
    PROVE  \E g \in [SUBSET S -> Int] : Sums(f, S, g)
<1> DEFINE Q == {T \in SUBSET S : \E g \in [SUBSET T -> Int] : Sums(f, T, g)}
<1>1. ASSUME NEW T \in SUBSET S, \A U \in (SUBSET T) \ {T} : U \in Q
      PROVE  T \in Q
  <2> DEFINE g == [s \in SUBSET T |-> IF s = {} THEN 0
                                      ELSE f[First(s)] + SumOf(f, s \ {First(s)})]
  <2>1. ASSUME NEW U \in (SUBSET T) \ {T}
        PROVE  /\ SumOf(f, U) \in Int
               /\ SumOf(f, U) = IF U = {} THEN 0 ELSE f[First(U)] + SumOf(f, U \ {First(U)})
    <3>1. PICK h \in [SUBSET U -> Int] : Sums(f, U, h)
      BY <1>1
    <3>2. IsFiniteSet(U)
      BY FS_Subset
    <3>3. U \in SUBSET U /\ U \ {First(U)} \in SUBSET U
      OBVIOUS
    <3>4. SumOf(f, U) = h[U] /\ SumOf(f, U \ {First(U)}) = h[U \ {First(U)}]
      BY <3>1, <3>2, <3>3, TotalIs
    <3>5. h[U] = IF U = {} THEN 0 ELSE f[First(U)] + h[U \ {First(U)}]
      BY <3>1, <3>3 DEF Sums
    <3> QED
      BY <3>1, <3>3, <3>4, <3>5
  <2>2. ASSUME NEW s \in SUBSET T, s # {}
        PROVE  /\ f[First(s)] \in Int /\ SumOf(f, s \ {First(s)}) \in Int
               /\ g[s \ {First(s)}] = SumOf(f, s \ {First(s)})
    <3>1. First(s) \in s /\ First(s) \in S
      BY <2>2, FirstIn
    <3>2. s \ {First(s)} \in (SUBSET T) \ {T}
      BY <3>1
    <3> DEFINE u == s \ {First(s)}
    <3>3. g[u] = IF u = {} THEN 0 ELSE f[First(u)] + SumOf(f, u \ {First(u)})
      BY <3>2
    <3>4. SumOf(f, u) \in Int /\ SumOf(f, u) = g[u]
      <4> HIDE DEF g, u
      <4>1. u \in (SUBSET T) \ {T}
        BY <3>2 DEF u
      <4> QED
        BY <2>1, <3>3, <4>1
    <3> QED
      BY <3>1, <3>4 DEF Numeric
  <2>3. g \in [SUBSET T -> Int]
    <3>1. ASSUME NEW s \in SUBSET T
          PROVE  (IF s = {} THEN 0 ELSE f[First(s)] + SumOf(f, s \ {First(s)})) \in Int
      <4>1. CASE s = {}
        BY <4>1
      <4>2. CASE s # {}
        <5>1. f[First(s)] \in Int /\ SumOf(f, s \ {First(s)}) \in Int
          BY <2>2, <4>2
        <5> QED
          BY <4>2, <5>1
      <4> QED
        BY <4>1, <4>2
    <3> QED
      BY <3>1
  <2>4. g = [s \in SUBSET T |-> IF s = {} THEN 0 ELSE f[First(s)] + g[s \ {First(s)}]]
    <3>1. ASSUME NEW s \in SUBSET T
          PROVE  g[s] = IF s = {} THEN 0 ELSE f[First(s)] + g[s \ {First(s)}]
      <4>1. g[s] = IF s = {} THEN 0 ELSE f[First(s)] + SumOf(f, s \ {First(s)})
        OBVIOUS
      <4> HIDE DEF g
      <4> QED
        BY <2>2, <4>1
    <3>2. DOMAIN g = SUBSET T /\ g = [s \in SUBSET T |-> g[s]]
      OBVIOUS
    <3> HIDE DEF g
    <3> QED
      BY <3>1, <3>2
  <2>5. Sums(f, T, g)
    <3> HIDE DEF g
    <3> QED
      BY <2>4 DEF Sums
  <2> HIDE DEF g
  <2> QED
    BY <2>3, <2>5
<1>2. \A T \in SUBSET S : T \in Q
  <2> HIDE DEF Q
  <2> QED
    BY <1>1, SetInduction
<1> QED
  BY <1>2
--------------------------------------------------------------------------------
\* How sums over the subsets of S are built up.
LEMMA TotalStep ==
    ASSUME NEW S, IsFiniteSet(S), NEW f, Numeric(f, S), NEW T \in SUBSET S
    PROVE  /\ SumOf(f, T) \in Int
           /\ T = {} => SumOf(f, T) = 0
           /\ T # {} => SumOf(f, T) = f[First(T)] + SumOf(f, T \ {First(T)})
<1>1. PICK g \in [SUBSET S -> Int] : Sums(f, S, g)
  BY SumsExist
<1>2. \A s \in SUBSET S : SumOf(f, s) = g[s]
  BY <1>1, TotalIs
<1>3. g[T] = IF T = {} THEN 0 ELSE f[First(T)] + g[T \ {First(T)}]
  BY <1>1 DEF Sums
<1>4. T \ {First(T)} \in SUBSET S
  OBVIOUS
<1> QED
  BY <1>1, <1>2, <1>3, <1>4

\* Any element may be taken first.
LEMMA TotalAny ==
    ASSUME NEW S, IsFiniteSet(S), NEW f, Numeric(f, S), NEW x \in S
    PROVE  /\ SumOf(f, S) = f[x] + SumOf(f, S \ {x})
           /\ SumOf(f, S) \in Int /\ SumOf(f, S \ {x}) \in Int
<1> DEFINE Q == {T \in SUBSET S : \A y \in T : SumOf(f, T) = f[y] + SumOf(f, T \ {y})}
<1>1. ASSUME NEW T \in SUBSET S, \A U \in (SUBSET T) \ {T} : U \in Q
      PROVE  T \in Q
  <2>1. ASSUME NEW y \in T
        PROVE  SumOf(f, T) = f[y] + SumOf(f, T \ {y})
    <3> DEFINE z == First(T)
               U == T \ {y}
               V == T \ {z}
               W == T \ {y, z}
    <3>1. z \in T /\ z \in S /\ y \in S
      BY FirstIn
    <3>2. SumOf(f, T) = f[z] + SumOf(f, V)
      BY TotalStep
    <3>3. CASE y = z
      BY <3>2, <3>3
    <3>4. CASE y # z
      <4>1. /\ U \in (SUBSET T) \ {T} /\ z \in U /\ U \ {z} = W
            /\ V \in (SUBSET T) \ {T} /\ y \in V /\ V \ {y} = W
        BY <3>1, <3>4
      <4>2. SumOf(f, U) = f[z] + SumOf(f, W) /\ SumOf(f, V) = f[y] + SumOf(f, W)
        BY <1>1, <4>1
      <4>3. SumOf(f, W) \in Int /\ f[z] \in Int /\ f[y] \in Int
        <5>1. W \in SUBSET S
          OBVIOUS
        <5> QED
          BY <3>1, <5>1, TotalStep DEF Numeric
      <4> HIDE DEF z, U, V, W
      <4>4. SumOf(f, T) = f[y] + SumOf(f, U)
        BY <3>2, <4>2, <4>3
      <4> QED
        BY <4>4 DEF U
    <3> QED
      BY <3>3, <3>4
  <2> QED
    BY <2>1
<1>2. S \in Q
  <2> HIDE DEF Q
  <2> QED
    BY <1>1, SetInduction
<1>3. S \in SUBSET S /\ S \ {x} \in SUBSET S
  OBVIOUS
<1> QED
  BY <1>2, <1>3, TotalStep

\* A sum does not depend on what the function is outside, nor on zeros.
LEMMA TotalSame ==
    ASSUME NEW S, IsFiniteSet(S), NEW T \in SUBSET S, NEW f, NEW g, Numeric(f, S),
           \A x \in T : g[x] = f[x],
           \A x \in S \ T : f[x] = 0
    PROVE  SumOf(g, T) = SumOf(f, S)
<1> DEFINE Q == {U \in SUBSET S : SumOf(g, U \cap T) = SumOf(f, U)}
<1>1. ASSUME NEW U \in SUBSET S, \A V \in (SUBSET U) \ {U} : V \in Q
      PROVE  U \in Q
  <2>1. IsFiniteSet(U) /\ IsFiniteSet(U \cap T)
    BY FS_Subset
  <2>2. Numeric(f, U) /\ Numeric(g, U \cap T)
    BY DEF Numeric
  <2>3. CASE U = {}
    <3>1. U \in SUBSET U /\ U \cap T = {}
      BY <2>3
    <3>2. SumOf(f, U) = 0
      BY <2>1, <2>2, <2>3, <3>1, TotalStep
    <3>3. SumOf(g, U \cap T) = 0
      BY <2>1, <2>2, <3>1, TotalStep
    <3> QED
      BY <3>2, <3>3
  <2>4. CASE U # {}
    <3>1. PICK x \in U : TRUE
      BY <2>4
    <3>2. U \ {x} \in (SUBSET U) \ {U}
      BY <3>1
    <3>3. SumOf(g, (U \ {x}) \cap T) = SumOf(f, U \ {x})
      BY <1>1, <3>2
    <3>4. /\ SumOf(f, U) = f[x] + SumOf(f, U \ {x}) /\ SumOf(f, U \ {x}) \in Int
      BY <2>1, <2>2, TotalAny
    <3>5. CASE x \in T
      <4>1. x \in U \cap T /\ (U \cap T) \ {x} = (U \ {x}) \cap T /\ g[x] = f[x]
        BY <3>5
      <4>2. SumOf(g, U \cap T) = g[x] + SumOf(g, (U \cap T) \ {x})
        BY <2>1, <2>2, <4>1, TotalAny
      <4> QED
        BY <3>3, <3>4, <4>1, <4>2
    <3>6. CASE x \notin T
      <4>1. U \cap T = (U \ {x}) \cap T /\ f[x] = 0
        BY <3>6
      <4>2. SumOf(f, U) = SumOf(f, U \ {x})
        BY <3>4, <4>1
      <4> QED
        BY <3>3, <4>1, <4>2
    <3> QED
      BY <3>5, <3>6
  <2> QED
    BY <2>3, <2>4
<1>2. S \in Q
  <2>1. S \in SUBSET S
    OBVIOUS
  <2> HIDE DEF Q
  <2> QED
    BY <1>1, <2>1, SetInduction, SMTT(30)
<1>3. S \cap T = T
  OBVIOUS
<1> QED
  BY <1>2, <1>3

\* A sum of zeros is zero.
LEMMA TotalZero ==
    ASSUME NEW S, IsFiniteSet(S), NEW f, \A x \in S : f[x] = 0
    PROVE  SumOf(f, S) = 0
<1>1. Numeric(f, S) /\ {} \in SUBSET S
  BY DEF Numeric
<1>2. SumOf(f, {}) = SumOf(f, S)
  BY <1>1, TotalSame
<1> QED
  BY <1>1, <1>2, TotalStep

\* What is added at one element is added to the sum.
LEMMA TotalMore ==
    ASSUME NEW S, IsFiniteSet(S), NEW f, Numeric(f, S), NEW k \in S, NEW n \in Int,
           NEW g, g[k] = f[k] + n, \A x \in S \ {k} : g[x] = f[x]
    PROVE  SumOf(g, S) = SumOf(f, S) + n
<1>1. Numeric(g, S) /\ f[k] \in Int
  BY DEF Numeric
<1>2. /\ SumOf(f, S) = f[k] + SumOf(f, S \ {k}) /\ SumOf(f, S \ {k}) \in Int
      /\ SumOf(g, S) = g[k] + SumOf(g, S \ {k}) /\ SumOf(g, S \ {k}) \in Int
  BY <1>1, TotalAny
<1>3. SumOf(g, S \ {k}) = SumOf(f, S \ {k})
  <2>1. IsFiniteSet(S \ {k}) /\ S \ {k} \in SUBSET (S \ {k}) /\ Numeric(f, S \ {k})
    BY FS_Subset DEF Numeric
  <2> QED
    BY <2>1, TotalSame
<1> QED
  BY <1>1, <1>2, <1>3
--------------------------------------------------------------------------------
(***************************************************************************)
(* Induction over numbers, and what FlattenSeq computes: the recursive     *)
(* function in it exists, and each piece is part of the whole.             *)
(***************************************************************************)
LEMMA NumberInduction ==
    ASSUME NEW Q, 0 \in Q, \A n \in Nat : n \in Q => n + 1 \in Q
    PROVE  \A n \in Nat : n \in Q
<1> SUFFICES ASSUME NEW m \in Nat, m \notin Q PROVE FALSE
  OBVIOUS
<1> DEFINE S == 1 .. m
           R == {T \in SUBSET S : \A n \in Nat : T = 1 .. n => n \in Q}
<1>1. IsFiniteSet(S)
  BY FS_Interval
<1>2. ASSUME NEW T \in SUBSET S, \A U \in (SUBSET T) \ {T} : U \in R
      PROVE  T \in R
  <2>1. ASSUME NEW n \in Nat, T = 1 .. n PROVE n \in Q
    <3>1. CASE n = 0
      BY <3>1
    <3>2. CASE n # 0
      <4>1. n - 1 \in Nat /\ (n - 1) + 1 = n
        BY <3>2
      <4>2. 1 .. (n - 1) \in (SUBSET T) \ {T}
        BY <2>1, <3>2, <4>1
      <4>3. n - 1 \in Q
        BY <1>2, <4>1, <4>2
      <4> QED
        BY <4>1, <4>3
    <3> QED
      BY <3>1, <3>2
  <2> QED
    BY <2>1
<1>3. S \in R
  <2>1. S \in SUBSET S
    OBVIOUS
  <2> HIDE DEF R, S
  <2> QED
    BY <1>1, <1>2, <2>1, SetInduction
<1> QED
  BY <1>3

\* A set of numbers up to n has a greatest one.
LEMMA Greatest ==
    ASSUME NEW n \in Nat, NEW I \in SUBSET (1 .. n), I # {}
    PROVE  Max(I) \in I /\ \A i \in I : i <= Max(I)
<1> DEFINE Q == {m \in Nat : \A J \in SUBSET (1 .. m) :
                               J # {} => \E j \in J : \A i \in J : j >= i}
<1>1. 0 \in Q
  <2>1. 1 .. 0 = {}
    OBVIOUS
  <2> QED
    BY <2>1
<1>2. ASSUME NEW m \in Nat, m \in Q PROVE m + 1 \in Q
  <2>1. ASSUME NEW J \in SUBSET (1 .. m + 1), J # {} PROVE \E j \in J : \A i \in J : j >= i
    <3>1. CASE m + 1 \in J
      BY <3>1
    <3>2. CASE m + 1 \notin J
      <4>1. J \in SUBSET (1 .. m)
        BY <3>2
      <4> QED
        BY <1>2, <2>1, <4>1
    <3> QED
      BY <3>1, <3>2
  <2> QED
    BY <2>1
<1>3. n \in Q
  <2> HIDE DEF Q
  <2> QED
    BY <1>1, <1>2, NumberInduction
<1>4. \E j \in I : \A i \in I : j >= i
  BY <1>3
<1>5. Max(I) \in I /\ \A i \in I : Max(I) >= i
  BY <1>4, Zenon DEF Max
<1> QED
  BY <1>5

\* The function that FlattenSeq takes the last value of.
Flattens(ss, f) == f = [i \in 1 .. Len(ss) |-> IF i = 1 THEN ss[i] ELSE f[i - 1] \o ss[i]]

LEMMA FlattenChooses ==
    ASSUME NEW ss, Len(ss) # 0
    PROVE  FlattenSeq(ss) = (CHOOSE f : Flattens(ss, f))[Len(ss)]
BY Zenon DEF FlattenSeq, Flattens

\* There is one, and it yields sequences.
LEMMA FlattensExist ==
    ASSUME NEW S, NEW ss \in Seq(Seq(S))
    PROVE  \E f : Flattens(ss, f)
<1> DEFINE Goes(n, f) == f = [i \in 1 .. n |-> IF i = 1 THEN ss[i] ELSE f[i - 1] \o ss[i]]
           Q == {n \in Nat : \E f : Goes(n, f)}
<1>1. 0 \in Q
  <2> DEFINE f == [i \in 1 .. 0 |-> ss[i]]
  <2>1. DOMAIN f = 1 .. 0 /\ 1 .. 0 = {}
    OBVIOUS
  <2>2. Goes(0, f)
    BY <2>1
  <2> HIDE DEF Goes, f
  <2> QED
    BY <2>2
<1>2. ASSUME NEW n \in Nat, n \in Q PROVE n + 1 \in Q
  <2>1. PICK f : Goes(n, f)
    BY <1>2
  <2> DEFINE g == [i \in 1 .. n + 1 |-> IF i = 1 THEN ss[i] ELSE f[i - 1] \o ss[i]]
  <2>2. \A i \in 1 .. n + 1 : g[i] = IF i = 1 THEN ss[i] ELSE f[i - 1] \o ss[i]
    OBVIOUS
  <2>3. \A i \in 1 .. n : f[i] = IF i = 1 THEN ss[i] ELSE f[i - 1] \o ss[i]
    BY <2>1
  <2>4. DOMAIN g = 1 .. n + 1 /\ g = [i \in 1 .. n + 1 |-> g[i]]
    OBVIOUS
  <2> HIDE DEF g
  <2>5. \A i \in 1 .. n : f[i] = g[i]
    BY <2>2, <2>3
  <2>6. \A i \in 1 .. n + 1 : g[i] = IF i = 1 THEN ss[i] ELSE g[i - 1] \o ss[i]
    <3> SUFFICES ASSUME NEW i \in 1 .. n + 1, i # 1 PROVE g[i] = g[i - 1] \o ss[i]
      BY <2>2
    <3>1. i - 1 \in 1 .. n
      OBVIOUS
    <3> QED
      BY <2>2, <2>5, <3>1
  <2>7. Goes(n + 1, g)
    BY <2>4, <2>6
  <2> HIDE DEF Goes
  <2> QED
    BY <2>7
<1>3. Len(ss) \in Q
  <2>1. Len(ss) \in Nat
    OBVIOUS
  <2> HIDE DEF Q
  <2> QED
    BY <1>1, <1>2, <2>1, NumberInduction
<1> QED
  BY <1>3 DEF Flattens

\* FlattenSeq by its recursion: a sequence, no shorter than any of its pieces.
LEMMA FlattenIs ==
    ASSUME NEW S, NEW ss \in Seq(Seq(S))
    PROVE  /\ FlattenSeq(ss) \in Seq(S)
           /\ \A i \in 1 .. Len(ss) : Len(ss[i]) <= Len(FlattenSeq(ss))
<1>1. CASE Len(ss) = 0
  <2>1. FlattenSeq(ss) = ss
    BY <1>1 DEF FlattenSeq
  <2>2. ss = <<>>
    BY <1>1
  <2> QED
    BY <1>1, <2>1, <2>2
<1>2. CASE Len(ss) # 0
  <2>1. PICK f : f = CHOOSE g : Flattens(ss, g)
    OBVIOUS
  <2>2. Flattens(ss, f)
    <3>1. \E g : Flattens(ss, g)
      BY FlattensExist
    <3>2. Flattens(ss, CHOOSE g : Flattens(ss, g))
      BY <3>1, Zenon
    <3> QED
      BY <2>1, <3>2, Zenon
  <2>3. \A i \in 1 .. Len(ss) : f[i] = IF i = 1 THEN ss[i] ELSE f[i - 1] \o ss[i]
    BY <2>2 DEF Flattens
  <2> DEFINE Q == {n \in Nat : n \in 1 .. Len(ss) =>
                     f[n] \in Seq(S) /\ \A i \in 1 .. n : Len(ss[i]) <= Len(f[n])}
  <2>4. 0 \in Q
    OBVIOUS
  <2>5. ASSUME NEW n \in Nat, n \in Q PROVE n + 1 \in Q
    <3> SUFFICES ASSUME n + 1 \in 1 .. Len(ss)
                 PROVE  /\ f[n + 1] \in Seq(S)
                        /\ \A i \in 1 .. n + 1 : Len(ss[i]) <= Len(f[n + 1])
      OBVIOUS
    <3>1. ss[n + 1] \in Seq(S)
      OBVIOUS
    <3>2. CASE n = 0
      <4>1. f[n + 1] = ss[n + 1] /\ \A i \in 1 .. n + 1 : i = n + 1
        BY <2>3, <3>2
      <4>2. PICK k \in Nat : k = Len(ss[n + 1])
        BY <3>1
      <4>3. ASSUME NEW i \in 1 .. n + 1 PROVE Len(ss[i]) <= Len(f[n + 1])
        <5>1. Len(ss[i]) = k /\ Len(f[n + 1]) = k
          BY <4>1, <4>2
        <5>2. k <= k
          OBVIOUS
        <5> QED
          BY <5>1, <5>2, Zenon
      <4> QED
        BY <3>1, <4>1, <4>3
    <3>3. CASE n # 0
      <4>1. n \in 1 .. Len(ss) /\ n + 1 # 1 /\ (n + 1) - 1 = n
        BY <3>3
      <4>2. f[n + 1] = f[n] \o ss[n + 1]
        BY <2>3, <4>1
      <4>3. f[n] \in Seq(S) /\ \A i \in 1 .. n : Len(ss[i]) <= Len(f[n])
        BY <2>5, <4>1
      <4>4. /\ f[n + 1] \in Seq(S) /\ Len(f[n + 1]) = Len(f[n]) + Len(ss[n + 1])
            /\ Len(f[n]) \in Nat /\ Len(ss[n + 1]) \in Nat
        BY <3>1, <4>2, <4>3
      <4>5. ASSUME NEW i \in 1 .. n + 1 PROVE Len(ss[i]) <= Len(f[n + 1])
        <5>1. PICK a \in Nat, b \in Nat : a = Len(f[n]) /\ b = Len(ss[n + 1])
          BY <4>4
        <5>2. Len(f[n + 1]) = a + b
          BY <4>4, <5>1
        <5>3. CASE i = n + 1
          <6>1. Len(ss[i]) = b
            BY <5>1, <5>3, Zenon
          <6>2. b <= a + b
            OBVIOUS
          <6> QED
            BY <5>2, <6>1, <6>2, Zenon
        <5>4. CASE i # n + 1
          <6>1. i \in 1 .. n /\ ss[i] \in Seq(S)
            BY <4>1, <5>4
          <6>2. PICK c \in Nat : c = Len(ss[i])
            BY <6>1
          <6>3. c <= a
            BY <4>3, <5>1, <6>1, <6>2, Zenon
          <6>4. c <= a + b
            BY <6>3
          <6> QED
            BY <5>2, <6>2, <6>4, Zenon
        <5> QED
          BY <5>3, <5>4
      <4> QED
        BY <4>4, <4>5
    <3> QED
      BY <3>2, <3>3
  <2>6. Len(ss) \in Q
    <3>1. Len(ss) \in Nat
      OBVIOUS
    <3> HIDE DEF Q
    <3> QED
      BY <2>4, <2>5, <3>1, NumberInduction
  <2>7. FlattenSeq(ss) = f[Len(ss)]
    BY <1>2, <2>1, FlattenChooses, Zenon
  <2>8. Len(ss) \in 1 .. Len(ss)
    BY <1>2
  <2> QED
    BY <2>6, <2>7, <2>8
<1> QED
  BY <1>1, <1>2

\* A sequence with one more at its end.
LEMMA Appended ==
    ASSUME NEW A, NEW a \in Seq(A), NEW y \in A
    PROVE  /\ Append(a, y) \in Seq(A) /\ Len(Append(a, y)) = Len(a) + 1
           /\ Append(a, y)[Len(a) + 1] = y
           /\ \A i \in 1 .. Len(a) : Append(a, y)[i] = a[i]
           /\ Len(a) = 0 => a = <<>>
OBVIOUS

\* FlattenSeq of none, and of one more.
LEMMA FlattenMore ==
    ASSUME NEW S, NEW ss \in Seq(Seq(S)), NEW x \in Seq(S)
    PROVE  /\ FlattenSeq(<<>>) = <<>>
           /\ FlattenSeq(Append(ss, x)) = FlattenSeq(ss) \o x
<1>1. FlattenSeq(<<>>) = <<>>
  BY DEF FlattenSeq
<1>2. PICK n \in Nat : n = Len(ss)
  OBVIOUS
<1>3. PICK tt \in Seq(Seq(S)) : tt = Append(ss, x)
  BY Appended
<1>4. Len(tt) = n + 1 /\ tt[n + 1] = x /\ \A i \in 1 .. n : tt[i] = ss[i]
  BY <1>2, <1>3, Appended
<1>5. PICK g : g = CHOOSE f : Flattens(tt, f)
  OBVIOUS
<1>6. Flattens(tt, g)
  <2>1. \E f : Flattens(tt, f)
    BY FlattensExist
  <2>2. Flattens(tt, CHOOSE f : Flattens(tt, f))
    BY <2>1, Zenon
  <2> QED
    BY <1>5, <2>2, Zenon
<1>7. FlattenSeq(tt) = g[n + 1]
  <2>1. Len(tt) # 0
    BY <1>4
  <2>2. FlattenSeq(tt) = (CHOOSE f : Flattens(tt, f))[Len(tt)]
    BY <2>1, FlattenChooses
  <2> QED
    BY <1>4, <1>5, <2>2, Zenon
<1>8. \A i \in 1 .. n + 1 : g[i] = IF i = 1 THEN tt[i] ELSE g[i - 1] \o tt[i]
  BY <1>4, <1>6 DEF Flattens
<1>9. CASE n = 0
  <2>1. ss = <<>>
    BY <1>2, <1>9, Appended
  <2>2. g[1] = tt[1] /\ tt[1] = x /\ n + 1 = 1
    BY <1>4, <1>8, <1>9
  <2>3. <<>> \o x = x
    OBVIOUS
  <2> QED
    BY <1>1, <1>3, <1>7, <2>1, <2>2, <2>3, Zenon
<1>10. CASE n # 0
  <2>1. PICK h : h = CHOOSE f : Flattens(ss, f)
    OBVIOUS
  <2>2. Flattens(ss, h)
    <3>1. \E f : Flattens(ss, f)
      BY FlattensExist
    <3>2. Flattens(ss, CHOOSE f : Flattens(ss, f))
      BY <3>1, Zenon
    <3> QED
      BY <2>1, <3>2, Zenon
  <2>3. FlattenSeq(ss) = h[n]
    <3>1. Len(ss) # 0
      BY <1>2, <1>10
    <3>2. FlattenSeq(ss) = (CHOOSE f : Flattens(ss, f))[Len(ss)]
      BY <3>1, FlattenChooses
    <3> QED
      BY <1>2, <2>1, <3>2, Zenon
  <2>4. \A i \in 1 .. n : h[i] = IF i = 1 THEN ss[i] ELSE h[i - 1] \o ss[i]
    BY <1>2, <2>2 DEF Flattens
  <2> DEFINE Q == {k \in Nat : k + 1 \in 1 .. n => g[k + 1] = h[k + 1]}
  <2>5. 0 \in Q
    BY <1>4, <1>8, <2>4
  <2>6. ASSUME NEW k \in Nat, k \in Q PROVE k + 1 \in Q
    <3> SUFFICES ASSUME k + 2 \in 1 .. n PROVE g[k + 2] = h[k + 2]
      OBVIOUS
    <3>1. /\ k + 1 \in 1 .. n /\ k + 2 \in 1 .. n + 1 /\ k + 2 # 1 /\ (k + 2) - 1 = k + 1
      BY <1>2
    <3>2. g[k + 1] = h[k + 1] /\ tt[k + 2] = ss[k + 2]
      BY <1>4, <2>6, <3>1
    <3>3. g[k + 2] = g[k + 1] \o tt[k + 2] /\ h[k + 2] = h[k + 1] \o ss[k + 2]
      BY <1>8, <2>4, <3>1
    <3> QED
      BY <3>2, <3>3
  <2>7. n - 1 \in Q /\ n - 1 \in Nat /\ (n - 1) + 1 = n
    <3>1. n - 1 \in Nat /\ (n - 1) + 1 = n
      BY <1>10
    <3> HIDE DEF Q
    <3> QED
      BY <2>5, <2>6, <3>1, NumberInduction
  <2>8. g[n] = h[n]
    BY <1>10, <2>7
  <2>9. g[n + 1] = g[n] \o x
    <3>1. n + 1 \in 1 .. n + 1 /\ n + 1 # 1 /\ (n + 1) - 1 = n
      BY <1>10
    <3> QED
      BY <1>4, <1>8, <3>1
  <2> QED
    BY <1>1, <1>3, <1>7, <2>3, <2>8, <2>9, Zenon
<1> QED
  BY <1>1, <1>9, <1>10

\* Of what fits there is a last one: the next does not fit, or there is none.
LEMMA LastFitting ==
    ASSUME NEW n \in Nat, NEW F, 0 \in F
    PROVE  \E k \in 0 .. n : k \in F /\ (k < n => k + 1 \notin F)
<1> SUFFICES ASSUME \A k \in 0 .. n : k \in F => k < n /\ k + 1 \in F PROVE FALSE
  OBVIOUS
<1> DEFINE Q == {k \in Nat : k <= n => k \in F}
<1>1. 0 \in Q
  OBVIOUS
<1>2. ASSUME NEW k \in Nat, k \in Q PROVE k + 1 \in Q
  BY <1>2
<1>3. n \in Q
  <2> HIDE DEF Q
  <2> QED
    BY <1>1, <1>2, NumberInduction
<1> QED
  BY <1>3
--------------------------------------------------------------------------------
(***************************************************************************)
(* The names of levels: what loadMap stores, store by store.               *)
(***************************************************************************)
LEMMA StoredAre ==
    /\ \A i \in 1 .. 36 : \E k \in 1 .. 9, r \in 1 .. 4 :
         Stored(i) = [name |-> NamesOf(Loaded[k])[r], level |-> Loaded[k]]
    /\ \A k \in 1 .. 9, r \in 1 .. 4 : \E i \in 1 .. 36 :
         Stored(i) = [name |-> NamesOf(Loaded[k])[r], level |-> Loaded[k]]
<1>1. ASSUME NEW i \in 1 .. 36
      PROVE  \E k \in 1 .. 9, r \in 1 .. 4 :
               Stored(i) = [name |-> NamesOf(Loaded[k])[r], level |-> Loaded[k]]
  <2> DEFINE k == (i + 3) \div 4
             r == 1 + ((i - 1) % 4)
  <2>1. k \in 1 .. 9 /\ r \in 1 .. 4
    OBVIOUS
  <2>2. Stored(i) = [name |-> NamesOf(Loaded[k])[r], level |-> Loaded[k]]
    BY DEF Stored
  <2> QED
    BY <2>1, <2>2, Zenon
<1>2. ASSUME NEW k \in 1 .. 9, NEW r \in 1 .. 4
      PROVE  \E i \in 1 .. 36 :
               Stored(i) = [name |-> NamesOf(Loaded[k])[r], level |-> Loaded[k]]
  <2> DEFINE i == 4 * (k - 1) + r
  <2>1. i \in 1 .. 36 /\ (i + 3) \div 4 = k /\ 1 + ((i - 1) % 4) = r
    OBVIOUS
  <2>2. Stored(i) = [name |-> NamesOf(Loaded[k])[r], level |-> Loaded[k]]
    BY <2>1 DEF Stored
  <2> QED
    BY <2>1, <2>2, Zenon
<1> QED
  BY <1>1, <1>2, Zenon

\* A name that only one level has stands for that level.
LEMMA FromNameIs ==
    ASSUME NEW name, NEW k \in 1 .. 9, NEW r \in 1 .. 4, NamesOf(Loaded[k])[r] = name,
           \A j \in 1 .. 9, q \in 1 .. 4 : NamesOf(Loaded[j])[q] = name => Loaded[j] = Loaded[k]
    PROVE  FromName(name) = Loaded[k]
<1> DEFINE stores == {i \in 1 .. 4 * Len(Loaded) : Stored(i).name = name}
           last == CHOOSE i \in stores : \A j \in stores : j <= i
<1>1. 4 * Len(Loaded) = 36
  BY DEF Loaded
<1>2. stores # {}
  <2>1. PICK i \in 1 .. 36 : Stored(i) = [name |-> NamesOf(Loaded[k])[r], level |-> Loaded[k]]
    BY StoredAre
  <2>2. Stored(i).name = name
    BY <2>1
  <2>3. i \in stores
    BY <1>1, <2>2, Zenon
  <2> QED
    BY <2>3, ZenonT(60)
<1>3. last \in stores
  <2>1. Max(stores) \in stores /\ \A j \in stores : j <= Max(stores)
    <3>1. stores \in SUBSET (1 .. 36) /\ 36 \in Nat
      BY <1>1
    <3> HIDE DEF stores
    <3> QED
      BY <1>2, <3>1, Greatest
  <2> HIDE DEF stores
  <2> QED
    BY <2>1, Zenon
<1>4. FromName(name) = Stored(last).level
  <2>1. FromName(name) = IF stores = {} THEN ELsev_unspecified ELSE Stored(last).level
    BY Zenon DEF FromName
  <2> HIDE DEF stores, last
  <2> QED
    BY <1>2, <2>1, Zenon
<1>5. last \in 1 .. 36 /\ Stored(last).name = name
  BY <1>1, <1>3, Zenon
<1>6. PICK j \in 1 .. 9, q \in 1 .. 4 :
        Stored(last) = [name |-> NamesOf(Loaded[j])[q], level |-> Loaded[j]]
  <2> HIDE DEF last
  <2> QED
    BY <1>5, StoredAre, Zenon
<1>7. NamesOf(Loaded[j])[q] = name /\ Stored(last).level = Loaded[j]
  <2> HIDE DEF last
  <2> QED
    BY <1>5, <1>6
<1>8. Loaded[j] = Loaded[k]
  BY <1>7
<1> HIDE DEF last
<1> QED
  BY <1>4, <1>7, <1>8, Zenon

\* The input string of a level is no other name, and of no other level.
LEMMA InputStrsApart ==
    ASSUME NEW level \in 1 .. 8, NEW other \in 1 .. 8
    PROVE  /\ InputStr(level) # Symbol(other) /\ InputStr(level) # Name(other)
           /\ InputStr(level) # VarName(other)
           /\ InputStr(level) = InputStr(other) => level = other
<1> DEFINE inputs == {"ZERO", "DEBUG", "INFO", "WARNING", "ERROR", "UNSPECIFIED", "SYSTEM", "HIGHEST"}
<1>1. \A l \in 1 .. 8 : \/ l = 1 \/ l = 2 \/ l = 3 \/ l = 4 \/ l = 5 \/ l = 6 \/ l = 7 \/ l = 8
  OBVIOUS
<1>2. \A l \in 1 .. 8 : InputStr(l) \in inputs
  <2>1. /\ InputStr(1) = "ZERO" /\ InputStr(2) = "DEBUG" /\ InputStr(3) = "INFO"
        /\ InputStr(4) = "WARNING" /\ InputStr(5) = "ERROR" /\ InputStr(6) = "UNSPECIFIED"
        /\ InputStr(7) = "SYSTEM" /\ InputStr(8) = "HIGHEST"
    BY DEF InputStr
  <2> QED
    BY <1>1, <2>1, Zenon
<1>3. \A l \in 1 .. 8 : Symbol(l) \notin inputs
  <2>1. /\ Symbol(1) \notin inputs /\ Symbol(2) \notin inputs /\ Symbol(3) \notin inputs
        /\ Symbol(4) \notin inputs /\ Symbol(5) \notin inputs /\ Symbol(6) \notin inputs
        /\ Symbol(7) \notin inputs /\ Symbol(8) \notin inputs
    BY DEF Symbol
  <2> QED
    BY <1>1, <2>1, Zenon
<1>4. \A l \in 1 .. 8 : Name(l) \notin inputs
  <2>1. /\ Name(1) \notin inputs /\ Name(2) \notin inputs /\ Name(3) \notin inputs
        /\ Name(4) \notin inputs /\ Name(5) \notin inputs /\ Name(6) \notin inputs
        /\ Name(7) \notin inputs /\ Name(8) \notin inputs
    BY DEF Name
  <2> QED
    BY <1>1, <2>1, Zenon
<1>5. \A l \in 1 .. 8 : VarName(l) \notin inputs
  <2>1. /\ VarName(1) \notin inputs /\ VarName(2) \notin inputs /\ VarName(3) \notin inputs
        /\ VarName(4) \notin inputs /\ VarName(5) \notin inputs /\ VarName(6) \notin inputs
        /\ VarName(7) \notin inputs /\ VarName(8) \notin inputs
    BY DEF VarName
  <2> QED
    BY <1>1, <2>1, Zenon
<1>6. InputStr(level) = InputStr(other) => level = other
  <2> DEFINE strs == <<"ZERO", "DEBUG", "INFO", "WARNING", "ERROR", "UNSPECIFIED", "SYSTEM", "HIGHEST">>
  <2>1. \A l, m \in 1 .. 8 : strs[l] = strs[m] => l = m
    OBVIOUS
  <2>2. \A l \in 1 .. 8 : InputStr(l) = strs[l]
    BY Zenon DEF InputStr
  <2> QED
    BY <2>1, <2>2, Zenon
<1> HIDE DEF inputs
<1> QED
  BY <1>2, <1>3, <1>4, <1>5, <1>6, Zenon

\* Every level is loaded; ELdebug is at the place of ELsuccess.
Place(level) == IF level < 3 THEN level ELSE level + 1

\* The constructor of ELseverityLevel from a string finds, in the map that loadMap
\* filled, each level by its input string, though names collide on the way.
THEOREM LevelOfName ==
    ASSUME NEW level \in 1 .. 8
    PROVE  FromName(InputStr(level)) = level
<1> DEFINE k == Place(level)
           name == InputStr(level)
<1>1. /\ k \in 1 .. 9 /\ Loaded[k] = level
      /\ \A j \in 1 .. 9 : Loaded[j] \in 1 .. 8
  BY DEF Loaded, Place, ELsev_zeroSeverity, ELsev_success, ELsev_info, ELsev_warning,
         ELsev_error, ELsev_unspecified, ELsev_severe, ELsev_highestSeverity
<1>2. \A l : /\ NamesOf(l)[1] = Symbol(l) /\ NamesOf(l)[2] = Name(l)
             /\ NamesOf(l)[3] = InputStr(l) /\ NamesOf(l)[4] = VarName(l)
  BY Zenon DEF NamesOf
<1> HIDE DEF k
<1>3. NamesOf(Loaded[k])[3] = name
  BY <1>1, <1>2, Zenon
<1>4. ASSUME NEW j \in 1 .. 9, NEW q \in 1 .. 4, NamesOf(Loaded[j])[q] = name
      PROVE  Loaded[j] = Loaded[k]
  <2>1. q = 1 \/ q = 2 \/ q = 3 \/ q = 4
    OBVIOUS
  <2>2. PICK l \in 1 .. 8 : l = Loaded[j]
    BY <1>1
  <2>3. /\ name # Symbol(l) /\ name # Name(l) /\ name # VarName(l)
        /\ name = InputStr(l) => level = l
    BY InputStrsApart
  <2> HIDE DEF name
  <2>4. InputStr(l) = name
    BY <1>2, <1>4, <2>1, <2>2, <2>3, Zenon
  <2> QED
    BY <1>1, <2>2, <2>3, <2>4, Zenon
<1> HIDE DEF name
<1>5. FromName(name) = Loaded[k]
  BY <1>1, <1>3, <1>4, FromNameIs
<1> QED
  BY <1>1, <1>5 DEF name

\* Whatever the name is, it stands for a level.
LEMMA NameIsLevel ==
    ASSUME NEW name
    PROVE  /\ FromName(name) \in 1 .. 8
           /\ ForMessage(FromName(name)) \in ELsev_success .. ELsev_severe
<1> DEFINE stores == {i \in 1 .. 4 * Len(Loaded) : Stored(i).name = name}
           last == CHOOSE i \in stores : \A j \in stores : j <= i
<1>1. 4 * Len(Loaded) = 36 /\ \A j \in 1 .. 9 : Loaded[j] \in 1 .. 8
  BY DEF Loaded, ELsev_zeroSeverity, ELsev_success, ELsev_info, ELsev_warning,
         ELsev_error, ELsev_unspecified, ELsev_severe, ELsev_highestSeverity
<1>2. FromName(name) = IF stores = {} THEN ELsev_unspecified ELSE Stored(last).level
  BY Zenon DEF FromName
<1>3. ASSUME stores = {} PROVE FromName(name) \in 1 .. 8
  <2>1. FromName(name) = ELsev_unspecified
    BY <1>2, <1>3, Zenon
  <2> QED
    BY <2>1 DEF ELsev_unspecified
<1>4. ASSUME stores # {} PROVE FromName(name) \in 1 .. 8
  <2>1. last \in stores
    <3>1. Max(stores) \in stores /\ \A j \in stores : j <= Max(stores)
      <4>1. stores \in SUBSET (1 .. 36) /\ 36 \in Nat
        BY <1>1
      <4> HIDE DEF stores
      <4> QED
        BY <1>4, <4>1, Greatest
    <3> HIDE DEF stores
    <3> QED
      BY <3>1, Zenon
  <2>2. last \in 1 .. 36
    BY <1>1, <2>1, Zenon
  <2>3. FromName(name) = Stored(last).level
    BY <1>2, <1>4, Zenon
  <2> HIDE DEF last, stores
  <2>4. PICK j \in 1 .. 9, q \in 1 .. 4 :
          Stored(last) = [name |-> NamesOf(Loaded[j])[q], level |-> Loaded[j]]
    BY <2>2, StoredAre, Zenon
  <2>5. Stored(last).level = Loaded[j]
    BY <2>4
  <2> QED
    BY <1>1, <2>3, <2>5
<1>5. FromName(name) \in 1 .. 8
  BY <1>3, <1>4
<1> QED
  BY <1>5 DEF ForMessage, ELsev_zeroSeverity, ELsev_success, ELsev_severe, ELsev_highestSeverity

\* The levels of messages are found by their input strings as they are.
LEMMA MessageLevelOfName ==
    ASSUME NEW level \in ELsev_success .. ELsev_severe
    PROVE  ForMessage(FromName(InputStr(level))) = level
<1>1. level \in 1 .. 8 /\ level > 1 /\ level < 8
  BY DEF ELsev_success, ELsev_severe
<1>2. FromName(InputStr(level)) = level
  BY <1>1, LevelOfName
<1> QED
  BY <1>1, <1>2 DEF ForMessage, ELsev_zeroSeverity, ELsev_highestSeverity
===============================================================================
