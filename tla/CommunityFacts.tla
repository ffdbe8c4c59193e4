--------------------------- MODULE CommunityFacts --------------------------
(***************************************************************************)
(* What the proofs need of operators of the community modules that are     *)
(* defined by recursion or by a choice: which elements the concatenation   *)
(* of a sequence of sequences has and in which order, that a sum does not  *)
(* depend on the order of its terms, what SetToSeq returns.  Sets of       *)
(* numbers take the place of predicates in the induction.                  *)
(***************************************************************************)
EXTENDS Integers, Sequences, SequencesExt, FiniteSetsExt, FiniteSetTheorems,
        WellFoundedInduction, TLAPS

LEMMA LeastOf ==
    ASSUME NEW T, T \subseteq Nat, T # {}
    PROVE  \E n \in T : \A m \in T : n <= m
<1>1. \A x, y \in Nat : <<y, x>> \in OpToRel(<, Nat) <=> y < x
  BY DEF OpToRel
<1>2. PICK R : IsWellFoundedOn(R, Nat) /\ \A x, y \in Nat : <<y, x>> \in R <=> y < x
  BY <1>1, NatLessThanWellFounded, Zenon
<1>3. PICK x \in T : \A y \in T : ~(<<y, x>> \in R)
  BY <1>2, WFMin
<1>4. \A y \in T : ~(y < x)
  BY <1>2, <1>3, Zenon
<1> QED
  BY <1>4

LEMMA SetInduction ==
    ASSUME NEW T, 0 \in T, \A n \in Nat : n \in T => n + 1 \in T
    PROVE  Nat \subseteq T
<1> SUFFICES ASSUME Nat \ T # {} PROVE FALSE
  OBVIOUS
<1>1. PICK n \in Nat \ T : \A m \in Nat \ T : n <= m
  BY LeastOf
<1>2. n # 0 /\ n - 1 \in Nat /\ n - 1 \in T
  BY <1>1
<1> QED
  BY <1>1, <1>2

\* The concatenations of the first sequences of ss, as FlattenSeq has them.
Flat(ss, n, f) ==
    f = [i \in 1 .. n |-> IF i = 1 THEN ss[i] ELSE f[i - 1] \o ss[i]]

LEMMA FlatExists ==
    ASSUME NEW ss, NEW n \in Nat
    PROVE  \E f : Flat(ss, n, f)
<1> DEFINE T == {m \in Nat : \E f : Flat(ss, m, f)}
<1>1. 0 \in T
  <2>1. Flat(ss, 0, [i \in 1 .. 0 |-> ss[i]])
    BY DEF Flat
  <2> QED
    BY <2>1
<1>2. ASSUME NEW m \in Nat, m \in T PROVE m + 1 \in T
  <2>1. PICK f : Flat(ss, m, f)
    BY <1>2
  <2> DEFINE g == [i \in 1 .. m + 1 |->
                     IF i <= m THEN f[i] ELSE IF i = 1 THEN ss[i] ELSE f[i - 1] \o ss[i]]
  <2>2. ASSUME NEW i \in 1 .. m + 1
        PROVE  g[i] = IF i = 1 THEN ss[i] ELSE g[i - 1] \o ss[i]
    <3>1. CASE i <= m
      <4>1. i \in 1 .. m /\ (i # 1 => i - 1 \in 1 .. m)
        BY <3>1
      <4>2. f[i] = IF i = 1 THEN ss[i] ELSE f[i - 1] \o ss[i]
        BY <2>1, <4>1 DEF Flat
      <4>3. g[i] = f[i] /\ (i # 1 => g[i - 1] = f[i - 1])
        BY <3>1, <4>1
      <4> HIDE DEF g
      <4> QED
        BY <4>2, <4>3
    <3>2. CASE i = m + 1
      <4>1. i # 1 => i - 1 \in 1 .. m + 1 /\ i - 1 <= m
        BY <3>2
      <4> QED
        BY <3>2, <4>1
    <3> QED
      BY <3>1, <3>2
  <2>3. g = [i \in 1 .. m + 1 |-> g[i]]
    OBVIOUS
  <2> HIDE DEF g
  <2>4. Flat(ss, m + 1, g)
    BY <2>2, <2>3 DEF Flat
  <2> QED
    BY <2>4
<1> HIDE DEF T
<1>3. Nat \subseteq T
  BY <1>1, <1>2, SetInduction
<1> QED
  BY <1>3 DEF T

\* The elements of f are those of the first n sequences of ss.
Gathers(ss, n, f) ==
    /\ \A i \in 1 .. Len(f) : \E a \in 1 .. n : \E p \in 1 .. Len(ss[a]) : f[i] = ss[a][p]
    /\ \A a \in 1 .. n : \A p \in 1 .. Len(ss[a]) : \E i \in 1 .. Len(f) : f[i] = ss[a][p]

\* They are in the order of the sequences, and in their order within one.
KeepsOrder(ss, n, f) ==
    \A i, j \in 1 .. Len(f) : i < j =>
        \E a, b \in 1 .. n : \E p \in 1 .. Len(ss[a]), q \in 1 .. Len(ss[b]) :
            f[i] = ss[a][p] /\ f[j] = ss[b][q] /\ (a < b \/ (a = b /\ p < q))

\* One more sequence.
LEMMA OneMore ==
    ASSUME NEW S, NEW ss \in Seq(Seq(S)), NEW n \in Nat, n + 1 \in 1 .. Len(ss),
           NEW f \in Seq(S), Gathers(ss, n, f), KeepsOrder(ss, n, f)
    PROVE  /\ f \o ss[n + 1] \in Seq(S)
           /\ Gathers(ss, n + 1, f \o ss[n + 1])
           /\ KeepsOrder(ss, n + 1, f \o ss[n + 1])
<1> DEFINE s == ss[n + 1]
           g == f \o s
<1>1. s \in Seq(S) /\ Len(f) \in Nat /\ Len(s) \in Nat
  OBVIOUS
<1>2. /\ g \in Seq(S) /\ Len(g) = Len(f) + Len(s)
      /\ \A i \in 1 .. Len(f) : g[i] = f[i]
      /\ \A i \in 1 .. Len(g) : i > Len(f) => i - Len(f) \in 1 .. Len(s) /\ g[i] = s[i - Len(f)]
  BY <1>1
<1>3. \A p \in 1 .. Len(s) : p + Len(f) \in 1 .. Len(g) /\ g[p + Len(f)] = s[p]
  <2> TAKE p \in 1 .. Len(s)
  <2>1. p + Len(f) \in 1 .. Len(g) /\ p + Len(f) > Len(f) /\ p + Len(f) - Len(f) = p
    BY <1>1, <1>2
  <2> DEFINE i == p + Len(f)
  <2>2. i \in 1 .. Len(g) /\ i > Len(f) /\ i - Len(f) = p
    BY <2>1
  <2> HIDE DEF g, s, i
  <2>3. g[i] = s[i - Len(f)]
    BY <2>2, <1>2, Zenon
  <2>4. i \in 1 .. Len(g) /\ g[i] = s[p]
    BY <2>2, <2>3, Zenon
  <2> QED
    BY <2>4 DEF i
<1> HIDE DEF g
<1>4. Gathers(ss, n + 1, g)
  <2>1. ASSUME NEW i \in 1 .. Len(g)
        PROVE  \E a \in 1 .. n + 1 : \E p \in 1 .. Len(ss[a]) : g[i] = ss[a][p]
    <3>1. CASE i <= Len(f)
      <4>0. i \in 1 .. Len(f)
        BY <1>1, <3>1
      <4>1. PICK a \in 1 .. n : \E p \in 1 .. Len(ss[a]) : f[i] = ss[a][p]
        BY <4>0 DEF Gathers
      <4>2. a \in 1 .. n + 1
        OBVIOUS
      <4>3. g[i] = f[i]
        BY <1>1, <1>2, <3>1
      <4> QED
        BY <4>1, <4>2, <4>3, Zenon
    <3>2. CASE i > Len(f)
      <4>1. n + 1 \in 1 .. n + 1
        OBVIOUS
      <4> QED
        BY <1>2, <3>2, <4>1
    <3> QED
      BY <1>1, <3>1, <3>2
  <2>2. ASSUME NEW a \in 1 .. n + 1, NEW p \in 1 .. Len(ss[a])
        PROVE  \E i \in 1 .. Len(g) : g[i] = ss[a][p]
    <3>1. CASE a = n + 1
      BY <1>3, <3>1
    <3>2. CASE a # n + 1
      <4>1. a \in 1 .. n
        BY <3>2
      <4>2. PICK i \in 1 .. Len(f) : f[i] = ss[a][p]
        BY <4>1 DEF Gathers
      <4>3. i \in 1 .. Len(g) /\ g[i] = f[i]
        BY <1>1, <1>2
      <4> QED
        BY <4>2, <4>3
    <3> QED
      BY <3>1, <3>2
  <2> QED
    BY <2>1, <2>2 DEF Gathers
<1>5. KeepsOrder(ss, n + 1, g)
  <2> SUFFICES ASSUME NEW i \in 1 .. Len(g), NEW j \in 1 .. Len(g), i < j
               PROVE  \E a, b \in 1 .. n + 1 : \E p \in 1 .. Len(ss[a]), q \in 1 .. Len(ss[b]) :
                        g[i] = ss[a][p] /\ g[j] = ss[b][q] /\ (a < b \/ (a = b /\ p < q))
    BY DEF KeepsOrder
  <2>0. n + 1 \in 1 .. n + 1 /\ \A a \in 1 .. n : a \in 1 .. n + 1 /\ a < n + 1
    OBVIOUS
  <2>1. CASE j <= Len(f)
    <3>1. i \in 1 .. Len(f) /\ j \in 1 .. Len(f) /\ g[i] = f[i] /\ g[j] = f[j]
      BY <1>1, <1>2, <2>1
    <3>2. PICK a, b \in 1 .. n : \E p \in 1 .. Len(ss[a]), q \in 1 .. Len(ss[b]) :
                        f[i] = ss[a][p] /\ f[j] = ss[b][q] /\ (a < b \/ (a = b /\ p < q))
      BY <3>1 DEF KeepsOrder
    <3>3. a \in 1 .. n + 1 /\ b \in 1 .. n + 1
      OBVIOUS
    <3> QED
      BY <3>1, <3>2, <3>3, Zenon
  <2>2. CASE i <= Len(f) /\ j > Len(f)
    <3>0. i \in 1 .. Len(f)
      BY <1>1, <2>2
    <3>1. g[i] = f[i] /\ j - Len(f) \in 1 .. Len(s) /\ g[j] = s[j - Len(f)]
      BY <1>2, <2>2, <3>0
    <3>2. PICK a \in 1 .. n : \E p \in 1 .. Len(ss[a]) : f[i] = ss[a][p]
      BY <3>0 DEF Gathers
    <3> QED
      BY <2>0, <3>1, <3>2
  <2>3. CASE i > Len(f)
    <3>1. /\ i - Len(f) \in 1 .. Len(s) /\ g[i] = s[i - Len(f)]
          /\ j - Len(f) \in 1 .. Len(s) /\ g[j] = s[j - Len(f)]
          /\ i - Len(f) < j - Len(f)
      BY <1>1, <1>2, <2>3
    <3> QED
      BY <2>0, <3>1
  <2> QED
    BY <1>1, <2>1, <2>2, <2>3
<1> QED
  BY <1>2, <1>4, <1>5 DEF g

\* FlattenSeq gathers the elements of all its sequences, in their order.
LEMMA FlattenFacts ==
    ASSUME NEW S, NEW ss \in Seq(Seq(S))
    PROVE  /\ FlattenSeq(ss) \in Seq(S)
           /\ Gathers(ss, Len(ss), FlattenSeq(ss))
           /\ KeepsOrder(ss, Len(ss), FlattenSeq(ss))
<1>1. Len(ss) \in Nat
  OBVIOUS
<1>2. CASE Len(ss) = 0
  <2>1. FlattenSeq(ss) = ss /\ ss = <<>>
    BY <1>2 DEF FlattenSeq
  <2>2. <<>> \in Seq(S) /\ Len(<<>>) = 0
    OBVIOUS
  <2> QED
    BY <1>2, <2>1, <2>2 DEF Gathers, KeepsOrder
<1>3. CASE Len(ss) # 0
  <2> DEFINE F == CHOOSE f : Flat(ss, Len(ss), f)
  <2>1. FlattenSeq(ss) = F[Len(ss)]
    BY <1>3, Zenon DEF FlattenSeq, Flat
  <2>2. Flat(ss, Len(ss), F)
    BY <1>1, FlatExists, Zenon
  <2> HIDE DEF F
  <2> DEFINE Good(n) == F[n] \in Seq(S) /\ Gathers(ss, n, F[n]) /\ KeepsOrder(ss, n, F[n])
             T == {n \in Nat : n \in 1 .. Len(ss) => Good(n)}
  <2>3. 0 \in T
    OBVIOUS
  <2>4. ASSUME NEW n \in Nat, n \in T PROVE n + 1 \in T
    <3> SUFFICES ASSUME n + 1 \in 1 .. Len(ss) PROVE Good(n + 1)
      OBVIOUS
    <3>1. CASE n = 0
      <4>1. F[1] = ss[1] /\ ss[1] \in Seq(S)
        BY <2>2, <3>1 DEF Flat
      <4>2. Gathers(ss, 1, ss[1])
        BY <4>1 DEF Gathers
      <4>3. KeepsOrder(ss, 1, ss[1])
        BY <4>1 DEF KeepsOrder
      <4> QED
        BY <3>1, <4>1, <4>2, <4>3
    <3>2. CASE n # 0
      <4>1. n \in 1 .. Len(ss) /\ n + 1 # 1 /\ n + 1 - 1 = n
        BY <1>1, <3>2
      <4>2. F[n + 1] = F[n] \o ss[n + 1]
        <5>1. \A i \in 1 .. Len(ss) : F[i] = IF i = 1 THEN ss[i] ELSE F[i - 1] \o ss[i]
          BY <2>2 DEF Flat
        <5>2. PICK k \in 1 .. Len(ss) : k = n + 1 /\ k # 1 /\ k - 1 = n
          BY <4>1
        <5>3. F[k] = F[k - 1] \o ss[k]
          BY <5>1, <5>2, Zenon
        <5> QED
          BY <5>2, <5>3
      <4>3. Good(n)
        BY <2>4, <4>1
      <4> DEFINE g == F[n] \o ss[n + 1]
      <4>4. g \in Seq(S) /\ Gathers(ss, n + 1, g) /\ KeepsOrder(ss, n + 1, g)
        BY <4>3, OneMore
      <4> QED
        BY <4>2, <4>4
    <3> QED
      BY <3>1, <3>2
  <2>5. Nat \subseteq T
    <3> HIDE DEF T
    <3> QED
      BY <2>3, <2>4, SetInduction
  <2>6. Len(ss) \in 1 .. Len(ss)
    BY <1>1, <1>3
  <2> QED
    BY <1>1, <2>1, <2>5, <2>6
<1> QED
  BY <1>2, <1>3

\* The sum of a function over a set, as MapThenSumSet has it.
SumOf(f, S) == MapThenSumSet(LAMBDA x : f[x], S)

Chosen(s) == CHOOSE x \in s : TRUE

Summing(f, D, it) ==
    it = [s \in D |-> IF s = {} THEN 0 ELSE f[Chosen(s)] + it[s \ {Chosen(s)}]]

LEMMA SumDef ==
    ASSUME NEW f, NEW S
    PROVE  SumOf(f, S) = (CHOOSE it : Summing(f, SUBSET S, it))[S]
BY Zenon DEF SumOf, MapThenSumSet, MapThenFoldSet, Summing, Chosen

LEMMA ChosenIn ==
    ASSUME NEW s, s # {}
    PROVE  Chosen(s) \in s
BY DEF Chosen

LEMMA SummingExists ==
    ASSUME NEW f, NEW S, IsFiniteSet(S)
    PROVE  \E it : Summing(f, SUBSET S, it)
<1> DEFINE D(n) == {s \in SUBSET S : Cardinality(s) <= n}
           T == {n \in Nat : \E it : Summing(f, D(n), it)}
<1>0. \A s \in SUBSET S : IsFiniteSet(s) /\ Cardinality(s) \in Nat /\ Cardinality(s) <= Cardinality(S)
  BY FS_Subset, FS_CardinalityType
<1>1. 0 \in T
  <2> DEFINE it == [s \in D(0) |-> 0]
  <2>1. \A s \in D(0) : s = {}
    BY <1>0, FS_EmptySet
  <2>2. Summing(f, D(0), it)
    <3>1. it = [s \in D(0) |-> IF s = {} THEN 0 ELSE f[Chosen(s)] + it[s \ {Chosen(s)}]]
      BY <2>1
    <3> QED
      BY <3>1, Zenon DEF Summing
  <2> QED
    BY <2>2
<1>2. ASSUME NEW n \in Nat, n \in T PROVE n + 1 \in T
  <2>1. PICK it : Summing(f, D(n), it)
    BY <1>2
  <2> DEFINE Of(g, s) == IF s = {} THEN 0 ELSE f[Chosen(s)] + g[s \ {Chosen(s)}]
             jt == [s \in D(n + 1) |-> Of(it, s)]
  <2>2. ASSUME NEW s \in D(n)
        PROVE  s \in D(n + 1) /\ it[s] = Of(it, s)
    <3>1. s \in D(n + 1)
      BY <1>0
    <3> QED
      BY <2>1, <3>1 DEF Summing
  <2>3. ASSUME NEW s \in D(n + 1), s # {}
        PROVE  s \ {Chosen(s)} \in D(n)
    <3>1. Cardinality(s \ {Chosen(s)}) = Cardinality(s) - 1
      BY <1>0, <2>3, ChosenIn, FS_RemoveElement
    <3> QED
      BY <1>0, <3>1
  <2> HIDE DEF D
  <2>4. ASSUME NEW s \in D(n + 1)
        PROVE  Of(it, s) = Of(jt, s)
    <3>1. CASE s = {}
      BY <3>1
    <3>2. CASE s # {}
      <4>1. jt[s \ {Chosen(s)}] = Of(it, s \ {Chosen(s)})
        BY <2>2, <2>3, <3>2, Zenon
      <4>2. it[s \ {Chosen(s)}] = Of(it, s \ {Chosen(s)})
        BY <2>2, <2>3, <3>2, Zenon
      <4> HIDE DEF jt
      <4> QED
        BY <3>2, <4>1, <4>2, Zenon
    <3> QED
      BY <3>1, <3>2
  <2>5. jt = [s \in D(n + 1) |-> Of(jt, s)]
    BY <2>4, Zenon
  <2>6. Summing(f, D(n + 1), jt)
    <3> HIDE DEF jt
    <3> QED
      BY <2>5, Zenon DEF Summing
  <2> HIDE DEF jt
  <2> QED
    BY <2>6 DEF D
<1>3. Nat \subseteq T
  <2> HIDE DEF T
  <2> QED
    BY <1>1, <1>2, SetInduction
<1>4. D(Cardinality(S)) = SUBSET S
  BY <1>0
<1>5. Cardinality(S) \in T
  <2> HIDE DEF T
  <2> QED
    BY <1>3, FS_CardinalityType
<1> QED
  BY <1>4, <1>5

\* Two sums of functions that agree are equal.
LEMMA SummingAgrees ==
    ASSUME NEW S, NEW U, NEW f, NEW g, NEW it, NEW jt, NEW A, IsFiniteSet(A),
           A \subseteq S, A \subseteq U,
           Summing(f, SUBSET S, it), Summing(g, SUBSET U, jt), \A x \in A : f[x] = g[x]
    PROVE  it[A] = jt[A]
<1> DEFINE T == {n \in Nat : \A s \in SUBSET A : Cardinality(s) <= n => it[s] = jt[s]}
<1>0. \A s \in SUBSET A : IsFiniteSet(s) /\ Cardinality(s) \in Nat
  BY FS_Subset, FS_CardinalityType
<1>a. ASSUME NEW s \in SUBSET A
      PROVE  /\ it[s] = IF s = {} THEN 0 ELSE f[Chosen(s)] + it[s \ {Chosen(s)}]
             /\ jt[s] = IF s = {} THEN 0 ELSE g[Chosen(s)] + jt[s \ {Chosen(s)}]
  <2>1. s \in SUBSET S /\ s \in SUBSET U
    OBVIOUS
  <2> QED
    BY <2>1 DEF Summing
<1>1. 0 \in T
  <2> SUFFICES ASSUME NEW s \in SUBSET A, Cardinality(s) <= 0 PROVE it[s] = jt[s]
    OBVIOUS
  <2>1. s = {}
    BY <1>0, FS_EmptySet
  <2> QED
    BY <1>a, <2>1
<1>2. ASSUME NEW n \in Nat, n \in T PROVE n + 1 \in T
  <2> SUFFICES ASSUME NEW s \in SUBSET A, Cardinality(s) <= n + 1 PROVE it[s] = jt[s]
    OBVIOUS
  <2>1. CASE s = {}
    BY <1>a, <2>1
  <2>2. CASE s # {}
    <3>1. Chosen(s) \in s /\ Cardinality(s \ {Chosen(s)}) = Cardinality(s) - 1
      BY <1>0, <2>2, ChosenIn, FS_RemoveElement
    <3>2. s \ {Chosen(s)} \in SUBSET A /\ Cardinality(s \ {Chosen(s)}) <= n
      BY <1>0, <3>1
    <3>3. it[s \ {Chosen(s)}] = jt[s \ {Chosen(s)}]
      BY <1>2, <3>2
    <3>4. f[Chosen(s)] = g[Chosen(s)]
      BY <3>1
    <3> QED
      BY <1>a, <2>2, <3>3, <3>4, Zenon
  <2> QED
    BY <2>1, <2>2
<1>3. Nat \subseteq T
  <2> HIDE DEF T
  <2> QED
    BY <1>1, <1>2, SetInduction
<1>4. Cardinality(A) \in T
  <2> HIDE DEF T
  <2> QED
    BY <1>0, <1>3
<1> QED
  BY <1>0, <1>4

LEMMA SumsAgree ==
    ASSUME NEW S, IsFiniteSet(S), NEW f, NEW g, \A x \in S : f[x] = g[x]
    PROVE  SumOf(f, S) = SumOf(g, S)
<1> DEFINE it == CHOOSE it : Summing(f, SUBSET S, it)
           jt == CHOOSE jt : Summing(g, SUBSET S, jt)
<1>1. Summing(f, SUBSET S, it) /\ Summing(g, SUBSET S, jt)
  BY SummingExists
<1>2. SumOf(f, S) = it[S] /\ SumOf(g, S) = jt[S]
  BY SumDef
<1> HIDE DEF it, jt
<1>3. it[S] = jt[S]
  BY <1>1, SummingAgrees
<1> QED
  BY <1>2, <1>3

\* A sum is the sum of what it has, in any order.
LEMMA SumEmpty ==
    ASSUME NEW f
    PROVE  SumOf(f, {}) = 0
<1> DEFINE it == CHOOSE it : Summing(f, SUBSET {}, it)
<1>1. Summing(f, SUBSET {}, it)
  BY SummingExists, FS_EmptySet
<1>2. SumOf(f, {}) = it[{}]
  BY SumDef
<1> HIDE DEF it
<1>3. it[{}] = 0
  BY <1>1 DEF Summing
<1> QED
  BY <1>2, <1>3

LEMMA SummingStep ==
    ASSUME NEW S, IsFiniteSet(S), NEW f, \A x \in S : f[x] \in Int, NEW it,
           Summing(f, SUBSET S, it), NEW r \in SUBSET S
    PROVE  it[r] \in Int /\ \A x \in r : it[r] = f[x] + it[r \ {x}]
<1> DEFINE Good(s) == it[s] \in Int /\ \A x \in s : it[s] = f[x] + it[s \ {x}]
           T == {n \in Nat : \A s \in SUBSET S : Cardinality(s) <= n => Good(s)}
<1>0. \A s \in SUBSET S : IsFiniteSet(s) /\ Cardinality(s) \in Nat
  BY FS_Subset, FS_CardinalityType
<1>a. \A s \in SUBSET S : it[s] = IF s = {} THEN 0 ELSE f[Chosen(s)] + it[s \ {Chosen(s)}]
  BY DEF Summing
<1>1. 0 \in T
  <2> SUFFICES ASSUME NEW s \in SUBSET S, Cardinality(s) <= 0 PROVE Good(s)
    OBVIOUS
  <2>1. s = {}
    BY <1>0, FS_EmptySet
  <2>2. it[s] = 0
    BY <1>a, <2>1, Zenon
  <2> QED
    BY <2>1, <2>2
<1>2. ASSUME NEW n \in Nat, n \in T PROVE n + 1 \in T
  <2> SUFFICES ASSUME NEW s \in SUBSET S, Cardinality(s) <= n + 1 PROVE Good(s)
    OBVIOUS
  <2>1. CASE s = {}
    <3>1. it[s] = 0
      BY <1>a, <2>1, Zenon
    <3> QED
      BY <2>1, <3>1
  <2>2. CASE s # {}
    <3> DEFINE y == Chosen(s)
    <3>1. y \in s /\ it[s] = f[y] + it[s \ {y}]
      BY <1>a, <2>2, ChosenIn
    <3> HIDE DEF y
    <3>2. ASSUME NEW x \in s
          PROVE  s \ {x} \in SUBSET S /\ Good(s \ {x})
      <4>1. s \ {x} \in SUBSET S /\ Cardinality(s \ {x}) <= n
        <5>1. Cardinality(s \ {x}) = Cardinality(s) - 1
          BY <1>0, FS_RemoveElement
        <5> QED
          BY <1>0, <5>1
      <4> QED
        BY <1>2, <4>1
    <3>3. it[s] \in Int
      <4>1. f[y] \in Int /\ it[s \ {y}] \in Int
        BY <3>1, <3>2
      <4> QED
        BY <3>1, <4>1
    <3>4. ASSUME NEW x \in s, x # y
          PROVE  it[s] = f[x] + it[s \ {x}]
      <4> DEFINE q == (s \ {x}) \ {y}
      <4>1. it[s \ {y}] = f[x] + it[q]
        <5>1. x \in s \ {y} /\ (s \ {y}) \ {x} = q
          BY <3>1, <3>4
        <5> HIDE DEF q
        <5> QED
          BY <3>1, <3>2, <5>1
      <4>2. it[s \ {x}] = f[y] + it[q]
        BY <3>1, <3>2, <3>4
      <4>3. q \in SUBSET S /\ it[q] \in Int
        <5>1. q \in SUBSET S /\ Cardinality(q) <= n
          <6>1. Cardinality(s \ {x}) = Cardinality(s) - 1 /\ y \in s \ {x} /\ IsFiniteSet(s \ {x})
            BY <1>0, <3>1, <3>4, FS_RemoveElement
          <6>2. Cardinality(q) = Cardinality(s \ {x}) - 1
            BY <6>1, FS_RemoveElement
          <6> QED
            BY <1>0, <6>1, <6>2
        <5> HIDE DEF q
        <5> QED
          BY <1>2, <5>1
      <4>4. f[x] \in Int /\ f[y] \in Int
        BY <3>1
      <4> HIDE DEF q
      <4> QED
        BY <3>1, <4>1, <4>2, <4>3, <4>4
    <3> QED
      BY <3>1, <3>3, <3>4
  <2> QED
    BY <2>1, <2>2
<1>3. Nat \subseteq T
  <2> HIDE DEF T
  <2> QED
    BY <1>1, <1>2, SetInduction
<1> QED
  <2>1. Cardinality(r) \in T
    <3> HIDE DEF T
    <3> QED
      BY <1>0, <1>3
  <2>2. \A s \in SUBSET S : Cardinality(s) <= Cardinality(r) => Good(s)
    BY <2>1
  <2>3. Cardinality(r) <= Cardinality(r)
    BY <1>0
  <2>4. Good(r)
    <3> HIDE DEF Good
    <3> QED
      BY <2>2, <2>3
  <2> QED
    BY <2>4

LEMMA SumAdd ==
    ASSUME NEW S, IsFiniteSet(S), NEW x, x \notin S, NEW f, \A y \in S \cup {x} : f[y] \in Int
    PROVE  SumOf(f, S \cup {x}) = SumOf(f, S) + f[x] /\ SumOf(f, S) \in Int
<1> DEFINE U == S \cup {x}
           it == CHOOSE it : Summing(f, SUBSET U, it)
           jt == CHOOSE jt : Summing(f, SUBSET S, jt)
<1>0. IsFiniteSet(U) /\ U \ {x} = S /\ x \in U /\ S \subseteq U
  BY FS_AddElement
<1>1. Summing(f, SUBSET U, it) /\ Summing(f, SUBSET S, jt)
  BY <1>0, SummingExists
<1>2. SumOf(f, U) = it[U] /\ SumOf(f, S) = jt[S]
  BY SumDef
<1> HIDE DEF it, jt
<1>3. \A y \in U : f[y] \in Int
  OBVIOUS
<1> HIDE DEF U
<1>4. it[U] = f[x] + it[S] /\ it[S] \in Int
  <2>0. IsFiniteSet(U) /\ U \in SUBSET U /\ S \in SUBSET U
    BY <1>0
  <2>1. it[U] = f[x] + it[U \ {x}]
    BY <1>0,  <2>0, <1>1, <1>3, SummingStep
  <2>2. it[S] \in Int
    BY <2>0, <1>1, <1>3, SummingStep
  <2> QED
    BY <1>0, <2>1, <2>2
<1>5. it[S] = jt[S]
  BY <1>0, <1>1, SummingAgrees
<1>6. f[x] \in Int
  BY <1>0, <1>3
<1>7. SumOf(f, U) = SumOf(f, S) + f[x] /\ SumOf(f, S) \in Int
  BY <1>2, <1>4, <1>5, <1>6
<1> QED
  BY <1>7 DEF U

LEMMA FirstNumbers ==
    ASSUME NEW n \in Nat
    PROVE  IsFiniteSet(1 .. n) /\ Cardinality(1 .. n) = n
<1>1. Cardinality(1 .. n) = IF 1 > n THEN 0 ELSE n - 1 + 1
  BY FS_Interval
<1>2. (IF 1 > n THEN 0 ELSE n - 1 + 1) = n
  OBVIOUS
<1>3. IsFiniteSet(1 .. n)
  BY FS_Interval
<1> QED
  BY <1>1, <1>2, <1>3

\* Sums over the first numbers.
LEMMA SumUpTo ==
    ASSUME NEW n \in Nat, NEW f, \A i \in 1 .. n + 1 : f[i] \in Int
    PROVE  SumOf(f, 1 .. n + 1) = SumOf(f, 1 .. n) + f[n + 1] /\ SumOf(f, 1 .. n) \in Int
<1> DEFINE D == 1 .. n
           m == n + 1
<1>1. IsFiniteSet(D) /\ m \notin D /\ D \cup {m} = 1 .. n + 1
  BY FS_Interval
<1>2. \A i \in D \cup {m} : f[i] \in Int
  BY <1>1, Zenon
<1> HIDE DEF D, m
<1>3. SumOf(f, D \cup {m}) = SumOf(f, D) + f[m] /\ SumOf(f, D) \in Int
  BY <1>1, <1>2, SumAdd
<1>4. SumOf(f, 1 .. n + 1) = SumOf(f, D) + f[m] /\ SumOf(f, D) \in Int
  BY <1>1, <1>3, Zenon
<1> QED
  BY <1>4 DEF D, m

LEMMA SumOfZeros ==
    ASSUME NEW n \in Nat, NEW f, \A i \in 1 .. n : f[i] = 0
    PROVE  SumOf(f, 1 .. n) = 0
<1> DEFINE T == {m \in Nat : m <= n => SumOf(f, 1 .. m) = 0}
<1>1. 0 \in T
  <2>1. 1 .. 0 = {}
    OBVIOUS
  <2> QED
    BY <2>1, SumEmpty
<1>2. ASSUME NEW m \in Nat, m \in T PROVE m + 1 \in T
  <2> SUFFICES ASSUME m + 1 <= n PROVE SumOf(f, 1 .. m + 1) = 0
    OBVIOUS
  <2>1. SumOf(f, 1 .. m) = 0 /\ m + 1 \in 1 .. n
    BY <1>2
  <2>2. f[m + 1] = 0
    BY <2>1
  <2>3. \A i \in 1 .. m + 1 : i \in 1 .. n
    OBVIOUS
  <2>4. \A i \in 1 .. m + 1 : f[i] \in Int
    BY <2>3
  <2>5. SumOf(f, 1 .. m + 1) = SumOf(f, 1 .. m) + f[m + 1]
    BY <2>4, SumUpTo
  <2> QED
    BY <2>1, <2>2, <2>5
<1>3. Nat \subseteq T
  <2> HIDE DEF T
  <2> QED
    BY <1>1, <1>2, SetInduction
<1> QED
  BY <1>3

LEMMA SumsGrow ==
    ASSUME NEW n \in Nat, NEW f, \A i \in 1 .. n : f[i] \in Nat,
           NEW i \in 0 .. n, NEW j \in 0 .. n, i <= j
    PROVE  /\ SumOf(f, 1 .. i) \in Nat
           /\ SumOf(f, 1 .. i) <= SumOf(f, 1 .. j)
<1> DEFINE Grows(m) == /\ SumOf(f, 1 .. m) \in Nat
                       /\ \A k \in 0 .. m : SumOf(f, 1 .. k) <= SumOf(f, 1 .. m)
           T == {m \in Nat : m <= n => Grows(m)}
<1>1. 0 \in T
  <2>1. 1 .. 0 = {}
    OBVIOUS
  <2>2. SumOf(f, 1 .. 0) = 0
    BY <2>1, SumEmpty
  <2>3. \A k \in 0 .. 0 : k = 0
    OBVIOUS
  <2> QED
    BY <2>2, <2>3
<1>2. ASSUME NEW m \in Nat, m \in T PROVE m + 1 \in T
  <2> SUFFICES ASSUME m + 1 <= n PROVE Grows(m + 1)
    OBVIOUS
  <2>1. Grows(m) /\ m + 1 \in 1 .. n
    BY <1>2
  <2>2. f[m + 1] \in Nat
    BY <2>1
  <2>3. \A k \in 1 .. m + 1 : k \in 1 .. n
    OBVIOUS
  <2>4. \A k \in 1 .. m + 1 : f[k] \in Int
    BY <2>3
  <2>5. SumOf(f, 1 .. m + 1) = SumOf(f, 1 .. m) + f[m + 1]
    BY <2>4, SumUpTo
  <2>6. SumOf(f, 1 .. m + 1) \in Nat /\ SumOf(f, 1 .. m) <= SumOf(f, 1 .. m + 1)
    BY <2>1, <2>2, <2>5
  <2>7. ASSUME NEW k \in 0 .. m + 1
        PROVE  SumOf(f, 1 .. k) <= SumOf(f, 1 .. m + 1)
    <3>1. CASE k = m + 1
      BY <2>6, <3>1
    <3>2. CASE k # m + 1
      <4>1. k \in 0 .. m
        BY <3>2
      <4>2. k <= n /\ SumOf(f, 1 .. k) <= SumOf(f, 1 .. m)
        BY <2>1, <4>1
      <4>3. \A l \in 1 .. k + 1 : l \in 1 .. n
        BY <4>1
      <4>4. \A l \in 1 .. k + 1 : f[l] \in Int
        BY <4>3
      <4>5. SumOf(f, 1 .. k) \in Int
        BY <4>4, SumUpTo
      <4> QED
        BY <2>1, <2>6, <4>2, <4>5
    <3> QED
      BY <3>1, <3>2
  <2> QED
    BY <2>6, <2>7
<1>3. Nat \subseteq T
  <2> HIDE DEF T
  <2> QED
    BY <1>1, <1>2, SetInduction
<1>4. i \in Nat /\ j \in Nat /\ i <= n /\ j <= n
  OBVIOUS
<1>5. Grows(i) /\ Grows(j)
  <2> HIDE DEF Grows
  <2> QED
    BY <1>3, <1>4
<1> QED
  BY <1>5

\* A finite set as a sequence has exactly the elements of the set.
LEMMA SetToSeqFacts ==
    ASSUME NEW S, IsFiniteSet(S)
    PROVE  /\ SetToSeq(S) \in Seq(S)
           /\ \A x \in S : \E i \in 1 .. Len(SetToSeq(S)) : SetToSeq(S)[i] = x
<1> DEFINE n == Cardinality(S)
           q == SetToSeq(S)
<1>1. n \in Nat /\ ExistsBijection(1 .. n, S)
  BY FS_CardinalityType
<1>2. \E f \in [1 .. n -> S] : IsInjective(f)
  BY <1>1 DEF ExistsBijection, Bijection, Injection
<1>3. q \in [1 .. n -> S] /\ IsInjective(q)
  BY <1>2 DEF SetToSeq
<1> HIDE DEF q
<1>4. q \in Injection(1 .. n, S) /\ IsFiniteSet(1 .. n) /\ Cardinality(1 .. n) = n
  <2>1. q \in Injection(1 .. n, S)
    BY <1>3, Zenon DEF Injection
  <2> QED
    BY <1>1, <2>1, FirstNumbers
<1>5. q \in Surjection(1 .. n, S)
  <2> DEFINE D == 1 .. n
  <2>1. q \in Injection(D, S) /\ Cardinality(D) = Cardinality(S)
    BY <1>4
  <2> HIDE DEF D, n
  <2>2. q \in Surjection(D, S)
    BY <2>1, FS_Injection
  <2> QED
    BY <2>2 DEF D
<1>6. q \in Seq(S) /\ Len(q) = n
  BY <1>1, <1>3
<1>7. \A x \in S : \E i \in 1 .. n : q[i] = x
  BY <1>5 DEF Surjection
<1> QED
  BY <1>6, <1>7 DEF q

\* Finite sets are built by adding one element at a time.
LEMMA SubsetInduction ==
    ASSUME NEW S, IsFiniteSet(S), NEW T, {} \in T,
           \A A \in SUBSET S : \A x \in S \ A : A \in T => A \cup {x} \in T
    PROVE  S \in T
<1> DEFINE N == {n \in Nat : \A A \in SUBSET S : Cardinality(A) = n => A \in T}
<1>0. \A A \in SUBSET S : IsFiniteSet(A) /\ Cardinality(A) \in Nat
  BY FS_Subset, FS_CardinalityType
<1>1. 0 \in N
  <2>1. \A A \in SUBSET S : Cardinality(A) = 0 => A = {}
    BY <1>0, FS_EmptySet
  <2> QED
    BY <2>1
<1>2. ASSUME NEW n \in Nat, n \in N PROVE n + 1 \in N
  <2> SUFFICES ASSUME NEW A \in SUBSET S, Cardinality(A) = n + 1 PROVE A \in T
    OBVIOUS
  <2>1. IsFiniteSet(A) /\ A # {}
    BY <1>0, FS_EmptySet
  <2>2. PICK x \in A : TRUE
    BY <2>1
  <2>3. Cardinality(A \ {x}) = n
    <3>1. Cardinality(A \ {x}) = Cardinality(A) - 1
      BY <2>1, <2>2, FS_RemoveElement
    <3> QED
      BY <3>1
  <2>4. A \ {x} \in T /\ A \ {x} \in SUBSET S /\ x \in S \ (A \ {x})
    BY <1>2, <2>2, <2>3
  <2>5. (A \ {x}) \cup {x} = A
    BY <2>2
  <2>6. (A \ {x}) \cup {x} \in T
    BY <2>4
  <2> QED
    BY <2>5, <2>6
<1>3. Nat \subseteq N
  <2> HIDE DEF N
  <2> QED
    BY <1>1, <1>2, SetInduction
<1>4. Cardinality(S) \in N
  BY <1>0, <1>3
<1> QED
  BY <1>4

\* Numbers of a finite set have a greatest one.
LEMMA GreatestIn ==
    ASSUME NEW S, IsFiniteSet(S), S # {}, NEW f, \A x \in S : f[x] \in Int
    PROVE  \E x \in S : \A y \in S : f[y] <= f[x]
<1> DEFINE T == {A \in SUBSET S : A = {} \/ \E x \in A : \A y \in A : f[y] <= f[x]}
<1>1. {} \in T
  OBVIOUS
<1>2. ASSUME NEW A \in SUBSET S, NEW z \in S \ A, A \in T
      PROVE  A \cup {z} \in T
  <2>1. CASE A = {}
    BY <1>2, <2>1
  <2>2. CASE A # {}
    <3>1. PICK x \in A : \A y \in A : f[y] <= f[x]
      BY <1>2, <2>2
    <3>2. CASE f[z] <= f[x]
      BY <3>1, <3>2
    <3>3. CASE f[x] <= f[z]
      <4>1. \A y \in A \cup {z} : f[y] <= f[z]
        BY <3>1, <3>3
      <4> QED
        BY <4>1
    <3>4. f[x] \in Int /\ f[z] \in Int
      BY <3>1
    <3> QED
      BY <3>2, <3>3, <3>4
  <2> QED
    BY <2>1, <2>2
<1> HIDE DEF T
<1>3. S \in T
  BY <1>1, <1>2, SubsetInduction
<1> QED
  BY <1>3 DEF T

LEMMA MaxIs ==
    ASSUME NEW S, IsFiniteSet(S), S # {}, S \subseteq Int
    PROVE  Max(S) \in S /\ \A y \in S : y <= Max(S)
<1> DEFINE f == [x \in S |-> x]
<1>1. \A x \in S : f[x] \in Int
  OBVIOUS
<1> HIDE DEF f
<1>2. PICK x \in S : \A y \in S : f[y] <= f[x]
  BY <1>1, GreatestIn
<1>3. \A y \in S : x >= y
  BY <1>2 DEF f
<1> QED
  BY <1>3 DEF Max

\* A sum over a function is the sum over its domain.
LEMMA SumFunctionIs ==
    ASSUME NEW f, NEW S
    PROVE  /\ SumFunction(f) = SumOf(f, DOMAIN f)
           /\ SumFunctionOnSet(f, S) = SumOf(f, S)
BY Zenon DEF SumFunction, SumFunctionOnSet, FoldFunctionOnSet, SumOf, MapThenSumSet

\* A sum of integers is one, and any of its terms can be taken first.
LEMMA SumTake ==
    ASSUME NEW S, IsFiniteSet(S), NEW f, \A x \in S : f[x] \in Int
    PROVE  /\ SumOf(f, S) \in Int
           /\ \A x \in S : /\ SumOf(f, S \ {x}) \in Int
                           /\ SumOf(f, S) = SumOf(f, S \ {x}) + f[x]
<1>1. \A x \in S : SumOf(f, S) = SumOf(f, S \ {x}) + f[x] /\ SumOf(f, S \ {x}) \in Int
  <2> SUFFICES ASSUME NEW x \in S
               PROVE  SumOf(f, S) = SumOf(f, S \ {x}) + f[x] /\ SumOf(f, S \ {x}) \in Int
    OBVIOUS
  <2> DEFINE R == S \ {x}
  <2>1. IsFiniteSet(R) /\ x \notin R /\ R \cup {x} = S
    BY FS_RemoveElement
  <2>2. \A y \in R \cup {x} : f[y] \in Int
    BY <2>1
  <2> HIDE DEF R
  <2>3. SumOf(f, R \cup {x}) = SumOf(f, R) + f[x] /\ SumOf(f, R) \in Int
    BY <2>1, <2>2, SumAdd
  <2> QED
    BY <2>1, <2>3 DEF R
<1>2. CASE S = {}
  BY <1>2, SumEmpty
<1>3. CASE S # {}
  <2>1. PICK x \in S : TRUE
    BY <1>3
  <2>2. SumOf(f, S) = SumOf(f, S \ {x}) + f[x] /\ SumOf(f, S \ {x}) \in Int /\ f[x] \in Int
    BY <1>1, <2>1
  <2> QED
    BY <1>1, <2>2
<1> QED
  BY <1>1, <1>2, <1>3

\* Terms that are no greater make a sum that is no greater.
LEMMA SumsOrdered ==
    ASSUME NEW S, IsFiniteSet(S), NEW f, NEW g,
           \A x \in S : f[x] \in Int /\ g[x] \in Int /\ f[x] <= g[x]
    PROVE  SumOf(f, S) <= SumOf(g, S)
<1> DEFINE T == {A \in SUBSET S : SumOf(f, A) <= SumOf(g, A)}
<1>1. {} \in T
  <2>1. SumOf(f, {}) = 0 /\ SumOf(g, {}) = 0
    BY SumEmpty
  <2> QED
    BY <2>1
<1>2. ASSUME NEW A \in SUBSET S, NEW x \in S \ A, A \in T PROVE A \cup {x} \in T
  <2>1. IsFiniteSet(A) /\ x \notin A /\ \A y \in A \cup {x} : f[y] \in Int /\ g[y] \in Int
    BY FS_Subset
  <2>2. SumOf(f, A \cup {x}) = SumOf(f, A) + f[x] /\ SumOf(f, A) \in Int
    BY <2>1, SumAdd
  <2>3. SumOf(g, A \cup {x}) = SumOf(g, A) + g[x] /\ SumOf(g, A) \in Int
    BY <2>1, SumAdd
  <2>4. SumOf(f, A) <= SumOf(g, A) /\ f[x] \in Int /\ g[x] \in Int /\ f[x] <= g[x]
    BY <1>2
  <2>5. SumOf(f, A \cup {x}) <= SumOf(g, A \cup {x})
    BY <2>2, <2>3, <2>4
  <2> QED
    BY <2>5
<1>3. S \in T
  <2> HIDE DEF T
  <2> QED
    BY <1>1, <1>2, SubsetInduction
<1> QED
  BY <1>3

\* What adds nothing makes a sum of nothing.
LEMMA SumOfNothing ==
    ASSUME NEW S, IsFiniteSet(S), NEW f, \A x \in S : f[x] = 0
    PROVE  SumOf(f, S) = 0
<1> DEFINE T == {A \in SUBSET S : SumOf(f, A) = 0}
<1>1. {} \in T
  BY SumEmpty
<1>2. ASSUME NEW A \in SUBSET S, NEW x \in S \ A, A \in T PROVE A \cup {x} \in T
  <2>1. IsFiniteSet(A) /\ x \notin A /\ \A y \in A \cup {x} : f[y] \in Int
    BY FS_Subset
  <2>2. SumOf(f, A \cup {x}) = SumOf(f, A) + f[x]
    BY <2>1, SumAdd
  <2>3. SumOf(f, A) = 0 /\ f[x] = 0
    BY <1>2
  <2>4. SumOf(f, A \cup {x}) = 0
    BY <2>2, <2>3
  <2> QED
    BY <2>4
<1>3. S \in T
  <2> HIDE DEF T
  <2> QED
    BY <1>1, <1>2, SubsetInduction
<1> QED
  BY <1>3

\* A sum of ones counts them.
LEMMA SumOfOnes ==
    ASSUME NEW S, IsFiniteSet(S), NEW f, \A x \in S : f[x] = 1
    PROVE  SumOf(f, S) = Cardinality(S)
<1> DEFINE T == {A \in SUBSET S : SumOf(f, A) = Cardinality(A)}
<1>1. {} \in T
  BY SumEmpty, FS_EmptySet
<1>2. ASSUME NEW A \in SUBSET S, NEW x \in S \ A, A \in T PROVE A \cup {x} \in T
  <2>1. IsFiniteSet(A) /\ x \notin A /\ \A y \in A \cup {x} : f[y] \in Int
    BY FS_Subset
  <2>2. SumOf(f, A \cup {x}) = SumOf(f, A) + f[x]
    BY <2>1, SumAdd
  <2>3. SumOf(f, A) = Cardinality(A) /\ f[x] = 1
    BY <1>2
  <2>4. Cardinality(A \cup {x}) = Cardinality(A) + 1
    BY <2>1, FS_AddElement
  <2>5. SumOf(f, A \cup {x}) = Cardinality(A \cup {x})
    BY <2>2, <2>3, <2>4
  <2> QED
    BY <2>5
<1>3. S \in T
  <2> HIDE DEF T
  <2> QED
    BY <1>1, <1>2, SubsetInduction
<1> QED
  BY <1>3

\* A sum over two parts is the sum of their sums.
LEMMA SumOfParts ==
    ASSUME NEW S, IsFiniteSet(S), NEW U, IsFiniteSet(U), S \cap U = {},
           NEW f, \A x \in S \cup U : f[x] \in Int
    PROVE  SumOf(f, S \cup U) = SumOf(f, S) + SumOf(f, U)
<1> DEFINE T == {A \in SUBSET U : SumOf(f, S \cup A) = SumOf(f, S) + SumOf(f, A)}
<1>0. SumOf(f, S) \in Int
  BY SumTake
<1>1. {} \in T
  <2>1. SumOf(f, {}) = 0 /\ S \cup {} = S
    BY SumEmpty
  <2>2. SumOf(f, S \cup {}) = SumOf(f, S) + SumOf(f, {})
    BY <1>0, <2>1
  <2> QED
    BY <2>2
<1>2. ASSUME NEW A \in SUBSET U, NEW x \in U \ A, A \in T PROVE A \cup {x} \in T
  <2> DEFINE B == S \cup A
  <2>1. IsFiniteSet(A) /\ x \notin A /\ \A y \in A \cup {x} : f[y] \in Int
    BY FS_Subset
  <2>2. IsFiniteSet(B) /\ x \notin B /\ (\A y \in B \cup {x} : f[y] \in Int)
        /\ S \cup (A \cup {x}) = B \cup {x}
    BY <2>1, FS_Union
  <2>3. SumOf(f, A \cup {x}) = SumOf(f, A) + f[x] /\ SumOf(f, A) \in Int
    BY <2>1, SumAdd
  <2>4. SumOf(f, B) = SumOf(f, S) + SumOf(f, A)
    BY <1>2
  <2> HIDE DEF B
  <2>5. SumOf(f, B \cup {x}) = SumOf(f, B) + f[x]
    BY <2>2, SumAdd
  <2>6. f[x] \in Int
    BY <2>1
  <2>7. SumOf(f, B \cup {x}) = SumOf(f, S) + SumOf(f, A \cup {x})
    BY <1>0, <2>3, <2>4, <2>5, <2>6
  <2>8. SumOf(f, S \cup (A \cup {x})) = SumOf(f, S) + SumOf(f, A \cup {x})
    BY <2>2, <2>7
  <2> QED
    BY <2>8
<1>3. U \in T
  <2> HIDE DEF T
  <2> QED
    BY <1>1, <1>2, SubsetInduction
<1> QED
  BY <1>3

\* A part of a sum of natural numbers is no more than the whole.
LEMMA SumOfPart ==
    ASSUME NEW S, IsFiniteSet(S), NEW A \in SUBSET S, NEW f, \A x \in S : f[x] \in Nat
    PROVE  SumOf(f, A) \in Nat /\ SumOf(f, S) \in Nat /\ SumOf(f, A) <= SumOf(f, S)
<1> DEFINE zero == [x \in S |-> 0]
           B == S \ A
<1>1. IsFiniteSet(A) /\ IsFiniteSet(B) /\ A \cap B = {} /\ A \cup B = S
  BY FS_Subset
<1>2. SumOf(zero, A) = 0 /\ SumOf(zero, B) = 0
  BY <1>1, SumOfNothing
<1>3. SumOf(zero, A) <= SumOf(f, A)
  <2>1. \A x \in A : zero[x] \in Int /\ f[x] \in Int /\ zero[x] <= f[x]
    OBVIOUS
  <2> HIDE DEF zero
  <2> QED
    BY <1>1, <2>1, SumsOrdered
<1>4. SumOf(zero, B) <= SumOf(f, B)
  <2>1. \A x \in B : zero[x] \in Int /\ f[x] \in Int /\ zero[x] <= f[x]
    OBVIOUS
  <2> HIDE DEF zero, B
  <2> QED
    BY <1>1, <2>1, SumsOrdered
<1>5. SumOf(f, A) \in Int /\ SumOf(f, B) \in Int
  <2>1. \A x \in B : f[x] \in Int
    OBVIOUS
  <2> HIDE DEF B
  <2> QED
    BY <1>1, <2>1, SumTake
<1>6. SumOf(f, S) = SumOf(f, A) + SumOf(f, B)
  <2>1. \A x \in A \cup B : f[x] \in Int
    OBVIOUS
  <2>2. SumOf(f, A \cup B) = SumOf(f, A) + SumOf(f, B)
    <3> HIDE DEF B
    <3> QED
      BY <1>1, <2>1, SumOfParts
  <2> QED
    BY <1>1, <2>2
<1> QED
  BY <1>2, <1>3, <1>4, <1>5, <1>6

\* What a function makes of a finite set is finite.
ImageOf(h, A) == {h[x] : x \in A}

LEMMA ImageFinite ==
    ASSUME NEW h, NEW A, IsFiniteSet(A)
    PROVE  IsFiniteSet(ImageOf(h, A))
<1> DEFINE B == {h[x] : x \in A}
           k == [x \in A |-> h[x]]
<1>1. k \in Surjection(A, B)
  BY DEF Surjection
<1> HIDE DEF B, k
<1>2. IsFiniteSet(B)
  BY <1>1, FS_Surjection
<1> QED
  BY <1>2 DEF B, ImageOf

\* Sums of the same terms under other names are the same.
LEMMA SumRenamed ==
    ASSUME NEW S, IsFiniteSet(S), NEW U, NEW h \in Bijection(S, U), NEW f, NEW g,
           \A x \in S : f[x] \in Int /\ f[x] = g[h[x]]
    PROVE  SumOf(f, S) = SumOf(g, U) /\ IsFiniteSet(U)
<1> DEFINE Im(A) == {h[x] : x \in A}
           T == {A \in SUBSET S : SumOf(f, A) = SumOf(g, Im(A))}
<1>0. /\ h \in [S -> U]
      /\ \A x, y \in S : h[x] = h[y] => x = y
      /\ \A u \in U : \E x \in S : h[x] = u
  BY DEF Bijection, Injection, Surjection, IsInjective
<1>1. {} \in T
  <2>1. Im({}) = {}
    OBVIOUS
  <2>2. SumOf(f, {}) = 0 /\ SumOf(g, {}) = 0
    BY SumEmpty
  <2>3. SumOf(f, {}) = SumOf(g, Im({}))
    BY <2>1, <2>2
  <2> QED
    BY <2>3
<1>2. ASSUME NEW A \in SUBSET S, NEW x \in S \ A, A \in T PROVE A \cup {x} \in T
  <2> DEFINE B == Im(A)
  <2>1. IsFiniteSet(A) /\ x \notin A /\ \A y \in A \cup {x} : f[y] \in Int
    BY FS_Subset
  <2>2. IsFiniteSet(B)
    BY <2>1, ImageFinite DEF ImageOf
  <2>3. h[x] \notin B /\ Im(A \cup {x}) = B \cup {h[x]}
    BY <1>0
  <2>4. \A u \in B \cup {h[x]} : g[u] \in Int
    BY <2>1
  <2>5. SumOf(f, A) = SumOf(g, B)
    BY <1>2
  <2> DEFINE u == h[x]
  <2>6. SumOf(f, A \cup {x}) = SumOf(f, A) + f[x]
    BY <2>1, SumAdd
  <2>7. SumOf(g, B \cup {u}) = SumOf(g, B) + g[u]
    <3>1. u \notin B /\ \A v \in B \cup {u} : g[v] \in Int
      BY <2>3, <2>4
    <3> HIDE DEF B, u
    <3> QED
      BY <2>2, <3>1, SumAdd
  <2>8. SumOf(f, A \cup {x}) = SumOf(g, Im(A \cup {x}))
    <3>1. f[x] = g[h[x]]
      OBVIOUS
    <3>2. SumOf(g, Im(A \cup {x})) = SumOf(g, B \cup {u})
      BY <2>3
    <3> HIDE DEF Im
    <3> QED
      BY <2>5, <2>6, <2>7, <3>1, <3>2
  <2> QED
    BY <2>8
<1>3. S \in T
  <2> HIDE DEF T
  <2> QED
    BY <1>1, <1>2, SubsetInduction
<1>4. Im(S) = U
  BY <1>0
<1>5. IsFiniteSet(Im(S))
  BY ImageFinite DEF ImageOf
<1> QED
  BY <1>3, <1>4, <1>5

\* Two sums that differ in one term differ by it.
LEMMA SumsDiffer ==
    ASSUME NEW S, IsFiniteSet(S), NEW x \in S, NEW f, NEW g,
           \A y \in S : f[y] \in Int /\ g[y] \in Int, \A y \in S \ {x} : f[y] = g[y]
    PROVE  /\ SumOf(f, S) \in Int /\ SumOf(g, S) \in Int
           /\ SumOf(g, S) = SumOf(f, S) + (g[x] - f[x])
<1> DEFINE R == S \ {x}
<1>1. IsFiniteSet(R) /\ \A y \in R : f[y] = g[y]
  BY FS_RemoveElement
<1>2. SumOf(f, S) \in Int /\ SumOf(f, R) \in Int /\ SumOf(f, S) = SumOf(f, R) + f[x]
  BY SumTake
<1>3. SumOf(g, S) \in Int /\ SumOf(g, R) \in Int /\ SumOf(g, S) = SumOf(g, R) + g[x]
  BY SumTake
<1>4. SumOf(f, R) = SumOf(g, R)
  <2> HIDE DEF R
  <2> QED
    BY <1>1, SumsAgree
<1>5. f[x] \in Int /\ g[x] \in Int
  OBVIOUS
<1> QED
  BY <1>2, <1>3, <1>4, <1>5

\* Sums of sums, term by term.
LEMMA SumOfSums ==
    ASSUME NEW S, IsFiniteSet(S), NEW f, NEW g, NEW h,
           \A x \in S : f[x] \in Int /\ g[x] \in Int /\ h[x] = f[x] + g[x]
    PROVE  SumOf(h, S) = SumOf(f, S) + SumOf(g, S)
<1> DEFINE T == {A \in SUBSET S : SumOf(h, A) = SumOf(f, A) + SumOf(g, A)}
<1>1. {} \in T
  <2>1. SumOf(f, {}) = 0 /\ SumOf(g, {}) = 0 /\ SumOf(h, {}) = 0
    BY SumEmpty
  <2> QED
    BY <2>1
<1>2. ASSUME NEW A \in SUBSET S, NEW x \in S \ A, A \in T PROVE A \cup {x} \in T
  <2>1. IsFiniteSet(A) /\ x \notin A
        /\ \A y \in A \cup {x} : f[y] \in Int /\ g[y] \in Int /\ h[y] \in Int
    BY FS_Subset
  <2>2. SumOf(f, A \cup {x}) = SumOf(f, A) + f[x] /\ SumOf(f, A) \in Int
    BY <2>1, SumAdd
  <2>3. SumOf(g, A \cup {x}) = SumOf(g, A) + g[x] /\ SumOf(g, A) \in Int
    BY <2>1, SumAdd
  <2>4. SumOf(h, A \cup {x}) = SumOf(h, A) + h[x] /\ SumOf(h, A) \in Int
    BY <2>1, SumAdd
  <2>5. SumOf(h, A) = SumOf(f, A) + SumOf(g, A)
        /\ f[x] \in Int /\ g[x] \in Int /\ h[x] = f[x] + g[x]
    BY <1>2
  <2>6. SumOf(h, A \cup {x}) = SumOf(f, A \cup {x}) + SumOf(g, A \cup {x})
    BY <2>2, <2>3, <2>4, <2>5
  <2> QED
    BY <2>6
<1>3. S \in T
  <2> HIDE DEF T
  <2> QED
    BY <1>1, <1>2, SubsetInduction
<1> QED
  BY <1>3

\* What comes before an element of a strict total order.
Earlier(D, R, e) == {d \in D : <<d, e>> \in R}

StrictOrder(D, R) ==
    /\ \A d, e, f \in D : <<d, e>> \in R /\ <<e, f>> \in R => <<d, f>> \in R
    /\ \A d \in D : <<d, d>> \notin R
    /\ \A d, e \in D : d = e \/ <<d, e>> \in R \/ <<e, d>> \in R

\* The numbers of elements that come before those of a finite set are a
\* numbering of the set.
LEMMA RanksNumber ==
    ASSUME NEW D, IsFiniteSet(D), NEW R, StrictOrder(D, R),
           NEW rank, \A e \in D : rank[e] = 1 + Cardinality(Earlier(D, R, e))
    PROVE  /\ \A e \in D : rank[e] \in 1 .. Cardinality(D)
           /\ \A d, e \in D : <<d, e>> \in R <=> rank[d] < rank[e]
           /\ \A d, e \in D : rank[d] = rank[e] => d = e
           /\ \A n \in 1 .. Cardinality(D) : \E e \in D : rank[e] = n
<1>1. \A e \in D : /\ IsFiniteSet(Earlier(D, R, e))
                   /\ Cardinality(Earlier(D, R, e)) \in Nat
                   /\ Cardinality(Earlier(D, R, e)) <= Cardinality(D)
                   /\ Cardinality(Earlier(D, R, e)) # Cardinality(D)
  <2> SUFFICES ASSUME NEW e \in D
               PROVE  /\ IsFiniteSet(Earlier(D, R, e))
                      /\ Cardinality(Earlier(D, R, e)) \in Nat
                      /\ Cardinality(Earlier(D, R, e)) <= Cardinality(D)
                      /\ Cardinality(Earlier(D, R, e)) # Cardinality(D)
    OBVIOUS
  <2> DEFINE B == Earlier(D, R, e)
  <2>1. B \in SUBSET D /\ B # D
    BY DEF Earlier, StrictOrder
  <2> HIDE DEF B
  <2>2. IsFiniteSet(B) /\ Cardinality(B) <= Cardinality(D) /\ Cardinality(B) # Cardinality(D)
    BY <2>1, FS_Subset
  <2>3. Cardinality(B) \in Nat
    BY <2>2, FS_CardinalityType
  <2> QED
    BY <2>2, <2>3 DEF B
<1>2. Cardinality(D) \in Nat
  BY FS_CardinalityType
<1>3. \A e \in D : rank[e] \in 1 .. Cardinality(D)
  BY <1>1, <1>2
<1>4. ASSUME NEW d \in D, NEW e \in D, <<d, e>> \in R
      PROVE  rank[d] < rank[e]
  <2> DEFINE A == Earlier(D, R, d)
             B == Earlier(D, R, e)
  <2>1. A \in SUBSET B /\ A # B
    BY <1>4 DEF Earlier, StrictOrder
  <2>2. IsFiniteSet(B) /\ Cardinality(A) \in Nat /\ Cardinality(B) \in Nat
    BY <1>1
  <2>3. rank[d] = 1 + Cardinality(A) /\ rank[e] = 1 + Cardinality(B)
    OBVIOUS
  <2> HIDE DEF A, B
  <2>4. Cardinality(A) <= Cardinality(B) /\ Cardinality(A) # Cardinality(B)
    BY <2>1, <2>2, FS_Subset
  <2> QED
    BY <2>2, <2>3, <2>4
<1>5. \A d, e \in D : rank[d] \in Int /\ (rank[d] < rank[e] => ~(rank[e] < rank[d]))
  BY <1>3
<1>6. \A d, e \in D : <<d, e>> \in R <=> rank[d] < rank[e]
  BY <1>3, <1>4, <1>5 DEF StrictOrder
<1>7. \A d, e \in D : rank[d] = rank[e] => d = e
  <2>1. \A d, e \in D : rank[d] = rank[e] => ~(rank[d] < rank[e]) /\ ~(rank[e] < rank[d])
    BY <1>3
  <2> QED
    BY <1>6, <2>1 DEF StrictOrder
<1>8. \A n \in 1 .. Cardinality(D) : \E e \in D : rank[e] = n
  <2> DEFINE N == 1 .. Cardinality(D)
             h == [e \in D |-> rank[e]]
  <2>1. IsFiniteSet(N) /\ Cardinality(N) = Cardinality(D)
    BY <1>2, FirstNumbers
  <2>2. h \in Injection(D, N)
    BY <1>3, <1>7 DEF Injection, IsInjective
  <2> HIDE DEF N, h
  <2>3. h \in Surjection(D, N)
    BY <2>1, <2>2, FS_Injection
  <2>4. \A n \in N : \E e \in D : h[e] = n
    BY <2>3 DEF Surjection
  <2> QED
    BY <2>4 DEF N, h
<1> QED
  BY <1>3, <1>6, <1>7, <1>8
=============================================================================
