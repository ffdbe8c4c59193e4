-------------------------- MODULE ExpositionProofs --------------------------
(***************************************************************************)
(* Proofs about Exposition: what a scrape returns is an exposition that    *)
(* shows everything, with any number of sources and updates.               *)
(***************************************************************************)
EXTENDS Exposition, CommunityFacts, SequenceTheorems

-----------------------------------------------------------------------------
(* The inductive invariant                                                 *)

Point == {p \in [by : Sources, attrs : Attrs, value : Int \cup HistogramValue] : IsPoint(p)}
Family == [id : Range(Id), kind : {"Counter", "Gauge", "Histogram"}, points : Seq(Point)]

Typed ==
    /\ TypeOK
    /\ IsFiniteSet(DOMAIN value)
    /\ \A n \in DOMAIN families : families[n] \in Family
    /\ \A n \in DOMAIN result.text : result.text[n] \in Family

\* The buckets of a histogram add up to its count, and a number is one up to
\* the bound on the updates: it does not wrap and is an f64.
Right(s, v) ==
    IF Kind[s] = "Histogram"
    THEN SumOf(v.bucket_counts, 1 .. Len(Boundaries) + 1) = v.count
    ELSE v \in 0 .. MaxValue

ValuesRight == \A x \in DOMAIN value : Right(x[1], value[x])

\* w has everything v has.
Below(s, v, w) ==
    IF Kind[s] = "Histogram"
    THEN /\ v.count <= w.count
         /\ \A i \in 1 .. Len(Boundaries) + 1 : v.bucket_counts[i] <= w.bucket_counts[i]
    ELSE v <= w

\* A point is as old as the scrape, and under the family of its source.
Fits(p) ==
    LET x == <<p.by, p.attrs>>
    IN  /\ Right(p.by, p.value)
        /\ x \in DOMAIN value
        /\ Below(p.by, p.value, value[x])
        /\ x \in DOMAIN begun => Below(p.by, begun[x], p.value)

PointRight(f, n, i) ==
    LET p == f[n].points[i]
    IN  /\ Id[p.by] = f[n].id
        /\ Kind[p.by] = f[n].kind
        /\ family_name(p.by) = n
        /\ Fits(p)

PointsRight(f) == \A n \in DOMAIN f : \A i \in DOMAIN f[n].points : PointRight(f, n, i)

\* What the sources held when the scrape began is still there.
BegunBelow ==
    \A x \in DOMAIN begun : x \in DOMAIN value /\ Below(x[1], begun[x], value[x])

\* A family was opened by one of the sources read.
Opened ==
    \A n \in DOMAIN families : \E t \in read :
        family_name(t) = n /\ Id[t] = families[n].id /\ Kind[t] = families[n].kind

\* Nothing is returned before the end.
Unreturned == pc # "returned" => result = [error |-> None, text |-> Nothing]

Held(f, x) ==
    \E n \in DOMAIN f : \E i \in DOMAIN f[n].points :
        <<f[n].points[i].by, f[n].points[i].attrs>> = x

\* What there was is in a family, or its source is still to be read.
Kept ==
    \A x \in DOMAIN begun :
        /\ pc = "scrape" =>
              Held(families, x) \/ \E k \in next .. Len(sources) : sources[k] = x[1]
        /\ pc = "render" => Held(families, x)
        /\ pc = "returned" /\ result.error = None => Held(result.text, x)

\* A text was checked.
Collides(f) ==
    \E m, n \in DOMAIN f : m # n /\
        \E x \in suffixes(f[m].kind), y \in suffixes(f[n].kind) : m \o x = n \o y

Clean(f) == ~Collides(f) /\ \A n \in DOMAIN f : RenderErrors(f[n]) = {}

Checked == Clean(result.text)

ExpositionInv ==
    /\ Typed
    /\ ValuesRight
    /\ PointsRight(families)
    /\ PointsRight(result.text)
    /\ BegunBelow
    /\ Opened
    /\ Unreturned
    /\ Kept
    /\ Checked
    /\ CollisionsAreReal

-----------------------------------------------------------------------------
(* Values                                                                  *)

Indices == 1 .. Len(Boundaries) + 1

LEMMA Constants ==
    /\ Len(Boundaries) \in Nat
    /\ DOMAIN Boundaries = 1 .. Len(Boundaries)
    /\ IsFiniteSet(Indices)
    /\ \A i \in 1 .. Len(Boundaries) : i \in Indices /\ i + 1 \in Indices
    /\ Modulus \in Nat \ {0}
<1>1. Len(Boundaries) \in Nat /\ DOMAIN Boundaries = 1 .. Len(Boundaries)
  BY ExpositionAssumption
<1>2. IsFiniteSet(1 .. Len(Boundaries) + 1)
  BY <1>1, FS_Interval
<1>3. Modulus \in Nat \ {0}
  BY ExpositionAssumption
<1> QED
  BY <1>1, <1>2, <1>3 DEF Indices

LEMMA IndexOfBucket ==
    ASSUME NEW x
    PROVE  bucket_index(x) \in Indices
<1> DEFINE S == {i \in DOMAIN Boundaries : Boundaries[i] < x}
<1>1. IsFiniteSet(1 .. Len(Boundaries)) /\ Cardinality(1 .. Len(Boundaries)) = Len(Boundaries)
  BY Constants, FirstNumbers
<1>2. S \in SUBSET (1 .. Len(Boundaries))
  BY Constants
<1>3. Cardinality(S) \in Nat /\ Cardinality(S) <= Len(Boundaries)
  <2> HIDE DEF S
  <2> QED
    BY <1>1, <1>2, FS_Subset, FS_CardinalityType
<1>4. 1 + Cardinality(S) \in 1 .. Len(Boundaries) + 1
  <2> HIDE DEF S
  <2> QED
    BY <1>3, Constants
<1> QED
  BY <1>4, Zenon DEF bucket_index, Indices

\* One more in one of the terms is one more in the sum.
LEMMA SumOfOneMore ==
    ASSUME NEW f \in [Indices -> Nat], NEW k \in Indices
    PROVE  /\ SumOf([i \in Indices |-> f[i] + IF i = k THEN 1 ELSE 0], Indices)
                = SumOf(f, Indices) + 1
           /\ SumOf(f, Indices) \in Int
<1> DEFINE g == [i \in Indices |-> f[i] + IF i = k THEN 1 ELSE 0]
           R == Indices \ {k}
<1>1. IsFiniteSet(R) /\ k \notin R /\ R \cup {k} = Indices /\ R \subseteq Indices
  BY Constants, FS_RemoveElement
<1>2. g \in [Indices -> Nat] /\ g[k] = f[k] + 1 /\ \A i \in R : g[i] = f[i]
  OBVIOUS
<1> HIDE DEF g, R
<1>3. SumOf(f, Indices) = SumOf(f, R) + f[k] /\ SumOf(f, R) \in Int
  <2>1. \A i \in R \cup {k} : f[i] \in Int
    BY <1>1
  <2>2. SumOf(f, R \cup {k}) = SumOf(f, R) + f[k] /\ SumOf(f, R) \in Int
    BY <1>1, <2>1, SumAdd
  <2> QED
    BY <1>1, <2>2
<1>4. SumOf(g, Indices) = SumOf(g, R) + g[k]
  <2>1. \A i \in R \cup {k} : g[i] \in Int
    BY <1>1, <1>2
  <2>2. SumOf(g, R \cup {k}) = SumOf(g, R) + g[k]
    BY <1>1, <2>1, SumAdd
  <2> QED
    BY <1>1, <2>2
<1>5. SumOf(g, R) = SumOf(f, R)
  BY <1>1, <1>2, SumsAgree
<1>6. f[k] \in Nat
  OBVIOUS
<1> QED
  BY <1>2, <1>3, <1>4, <1>5, <1>6 DEF g

LEMMA InitialRight ==
    ASSUME NEW s \in Sources
    PROVE  /\ IsValue(Cell(s), Initial(Cell(s)))
           /\ Right(s, Initial(Cell(s)))
           /\ Kind[s] # "Histogram" => Initial(Cell(s)) < MaxValue
<1>1. Kind[s] \in {"Counter", "Gauge", "Histogram"}
  BY ExpositionAssumption
<1>2. CASE Kind[s] = "Histogram"
  <2> DEFINE zero == [i \in Indices |-> 0]
  <2>1. Cell(s) = "Bucket"
    BY <1>2 DEF Cell
  <2>2. Initial(Cell(s)) = [bucket_counts |-> zero, count |-> 0, sum |-> 0,
                            min |-> None, max |-> None]
    BY <2>1 DEF Initial, Indices
  <2>3. SumOf(zero, Indices) = 0
    <3>1. \A i \in 1 .. Len(Boundaries) + 1 : zero[i] = 0
      BY DEF Indices
    <3> HIDE DEF zero
    <3>2. Len(Boundaries) + 1 \in Nat
      BY Constants
    <3> QED
      BY <3>1, <3>2, SumOfZeros DEF Indices
  <2>4. zero \in [Indices -> Nat]
    OBVIOUS
  <2> HIDE DEF zero
  <2>5. Right(s, Initial(Cell(s)))
    BY <1>2, <2>2, <2>3 DEF Right, Indices
  <2>6. Initial(Cell(s)) \in Histograms
    BY <2>2, <2>4 DEF Histograms, Indices
  <2> QED
    BY <1>2, <2>1, <2>5, <2>6 DEF IsValue
<1>3. CASE Kind[s] # "Histogram"
  <2>1. Cell(s) \in {"AtomicU64", "AtomicI64"} /\ Initial(Cell(s)) = 0
    BY <1>1, <1>3 DEF Cell, Initial
  <2>2. MaxValue \in Nat \ {0}
    BY ExpositionAssumption
  <2> QED
    BY <1>3, <2>1, <2>2 DEF IsValue, Right
<1> QED
  BY <1>2, <1>3

\* An update leaves a value right, and takes nothing from it.
LEMMA PlusRight ==
    ASSUME NEW s \in Sources, NEW v, IsValue(Cell(s), v), Right(s, v),
           NEW x \in (IF Kind[s] = "Histogram" THEN Amounts ELSE {1}),
           Kind[s] # "Histogram" => v < MaxValue
    PROVE  /\ IsValue(Cell(s), Plus(Cell(s), v, x))
           /\ Right(s, Plus(Cell(s), v, x))
           /\ Below(s, v, Plus(Cell(s), v, x))
<1> DEFINE w == Plus(Cell(s), v, x)
<1>1. CASE Kind[s] = "Histogram"
  <2> DEFINE k == bucket_index(x)
             counts == v.bucket_counts
             more == [i \in Indices |-> counts[i] + IF i = k THEN 1 ELSE 0]
  <2>1. Cell(s) = "Bucket" /\ x \in Nat
    BY <1>1, ExpositionAssumption DEF Cell
  <2>2. v \in Histograms
    BY <2>1 DEF IsValue
  <2>3. counts \in [Indices -> Nat] /\ v.count \in Nat /\ v.sum \in Nat
        /\ v.min \in Nat \cup {None} /\ v.max \in Nat \cup {None}
    BY <2>2 DEF Histograms, Indices
  <2>4. k \in Indices
    BY IndexOfBucket
  <2> HIDE DEF k, counts
  <2>5. SumOf(more, Indices) = SumOf(counts, Indices) + 1
    BY <2>3, <2>4, SumOfOneMore
  <2>6. /\ more \in [Indices -> Nat]
        /\ \A i \in Indices : counts[i] <= more[i]
    BY <2>3
  <2>7. w = [bucket_counts |-> more, count |-> v.count + 1, sum |-> (v.sum + x) % Modulus,
             min |-> IF v.min = None \/ x < v.min THEN x ELSE v.min,
             max |-> IF v.max = None \/ x > v.max THEN x ELSE v.max]
    <3>1. DOMAIN counts = Indices
      BY <2>3
    <3> QED
      BY <2>1, <3>1 DEF Plus, k, counts
  <2> HIDE DEF more
  <2>8. (v.sum + x) % Modulus \in Nat
    BY <2>1, <2>3, Constants
  <2>9. w \in Histograms
    BY <2>1, <2>3, <2>6, <2>7, <2>8 DEF Histograms, Indices
  <2>10. Right(s, w)
    <3>1. w.bucket_counts = more /\ w.count = v.count + 1
      BY <2>7
    <3>2. SumOf(counts, Indices) = v.count
      BY <1>1 DEF Right, counts, Indices
    <3> HIDE DEF w
    <3>3. SumOf(w.bucket_counts, Indices) = w.count
      BY <2>5, <3>1, <3>2
    <3> QED
      BY <1>1, <3>3 DEF Right, Indices
  <2>11. Below(s, v, w)
    <3>1. w.bucket_counts = more /\ w.count = v.count + 1
      BY <2>7
    <3> HIDE DEF w
    <3>2. v.count <= w.count
      BY <2>3, <3>1
    <3>3. \A i \in Indices : v.bucket_counts[i] <= w.bucket_counts[i]
      BY <2>6, <3>1 DEF counts
    <3> QED
      BY <1>1, <3>2, <3>3 DEF Below, Indices
  <2>12. IsValue(Cell(s), w)
    <3> HIDE DEF w
    <3> QED
      BY <2>1, <2>9, Zenon DEF IsValue
  <2> QED
    BY <2>10, <2>11, <2>12
<1>2. CASE Kind[s] = "Counter"
  <2>1. Cell(s) = "AtomicU64" /\ x = 1
    BY <1>2 DEF Cell
  <2>2. v \in 0 .. MaxValue /\ v < MaxValue
    BY <1>2 DEF Right
  <2>3. v \in Nat /\ v + 1 \in 0 .. MaxValue /\ v + 1 < Modulus
    BY <2>2, ExpositionAssumption
  <2>4. (v + 1) % Modulus = v + 1
    <3> DEFINE m == Modulus
    <3>1. m \in Nat \ {0} /\ v + 1 \in 0 .. m - 1
      BY <2>3, Constants
    <3> HIDE DEF m
    <3>2. (v + 1) % m = v + 1
      BY <3>1
    <3> QED
      BY <3>2 DEF m
  <2>5. w = v + 1
    BY <2>1, <2>4 DEF Plus
  <2> HIDE DEF w
  <2>6. w \in 0 .. MaxValue /\ v <= w /\ w \in Int
    BY <2>3, <2>5
  <2>7. IsValue(Cell(s), w) /\ Right(s, w) /\ Below(s, v, w)
    BY <1>2, <2>1, <2>6 DEF IsValue, Right, Below
  <2> QED
    BY <2>7 DEF w
<1>3. CASE Kind[s] = "Gauge"
  <2>1. Cell(s) = "AtomicI64" /\ x = 1
    BY <1>3 DEF Cell
  <2>2. v \in 0 .. MaxValue /\ v < MaxValue /\ w = v + 1
    BY <1>3, <2>1 DEF Right, Plus
  <2> HIDE DEF w
  <2>3. w \in 0 .. MaxValue /\ w \in Int /\ v <= w
    BY <2>2, ExpositionAssumption
  <2>4. IsValue(Cell(s), w) /\ Right(s, w) /\ Below(s, v, w)
    BY <1>3, <2>1, <2>3 DEF IsValue, Right, Below
  <2> QED
    BY <2>4 DEF w
<1> QED
  BY <1>1, <1>2, <1>3, ExpositionAssumption

\* What there is to compare in a value.
Numbers(s, v) ==
    IF Kind[s] = "Histogram" THEN v.count \in Nat /\ v.bucket_counts \in [Indices -> Nat]
    ELSE v \in Int

LEMMA BelowOrders ==
    ASSUME NEW s \in Sources, NEW u, NEW v, NEW w, Numbers(s, u), Numbers(s, v), Numbers(s, w)
    PROVE  Below(s, u, u) /\ (Below(s, u, v) /\ Below(s, v, w) => Below(s, u, w))
<1>1. CASE Kind[s] = "Histogram"
  <2>1. u.count \in Nat /\ v.count \in Nat /\ w.count \in Nat
    BY <1>1 DEF Numbers
  <2>2. \A i \in Indices : /\ u.bucket_counts[i] \in Nat /\ v.bucket_counts[i] \in Nat
                           /\ w.bucket_counts[i] \in Nat
    BY <1>1 DEF Numbers
  <2>3. Below(s, u, u)
    BY <1>1, <2>1, <2>2 DEF Below, Indices
  <2>4. ASSUME Below(s, u, v), Below(s, v, w) PROVE Below(s, u, w)
    <3>1. u.count <= v.count /\ v.count <= w.count
      BY <1>1, <2>4 DEF Below
    <3>2. \A i \in Indices : /\ u.bucket_counts[i] <= v.bucket_counts[i]
                             /\ v.bucket_counts[i] <= w.bucket_counts[i]
      BY <1>1, <2>4 DEF Below, Indices
    <3>3. \A i \in Indices : u.bucket_counts[i] <= w.bucket_counts[i]
      BY <2>2, <3>2
    <3>4. u.count <= w.count
      BY <2>1, <3>1
    <3> QED
      BY <1>1, <3>3, <3>4 DEF Below, Indices
  <2> QED
    BY <2>3, <2>4
<1>2. CASE Kind[s] # "Histogram"
  BY <1>2 DEF Below, Numbers
<1> QED
  BY <1>1, <1>2

LEMMA ValuesHaveNumbers ==
    ASSUME NEW s \in Sources, NEW v, IsValue(Cell(s), v)
    PROVE  /\ Numbers(s, v)
           /\ Kind[s] # "Histogram" => v \in Int
           /\ Kind[s] = "Histogram" => v \in Histograms
<1>1. CASE Kind[s] = "Histogram"
  BY <1>1 DEF IsValue, Cell, Histograms, Numbers, Indices
<1>2. CASE Kind[s] # "Histogram"
  <2>1. Cell(s) \in {"AtomicU64", "AtomicI64"}
    BY <1>2, ExpositionAssumption DEF Cell
  <2> QED
    BY <1>2, <2>1 DEF IsValue, Numbers
<1> QED
  BY <1>1, <1>2

\* A conversion to f64 keeps the order, and the numbers to Precision.
LEMMA Rounding ==
    /\ \A x \in Int : to_f64(x) \in Int /\ (x >= 0 => to_f64(x) >= 0)
    /\ \A x \in Int : x \in -Precision .. Precision => to_f64(x) = x
    /\ \A x, y \in Int : x <= y => to_f64(x) <= to_f64(y)
<1>1. Precision \in Nat /\ Precision % 4 = 0
  BY ExpositionAssumption
<1>2. \A x \in Int : to_f64(x) \in Int /\ (x >= 0 => to_f64(x) >= 0)
  BY <1>1 DEF to_f64
<1>3. \A x \in Int : x \in -Precision .. Precision => to_f64(x) = x
  BY DEF to_f64
<1>4. ASSUME NEW x \in Int, NEW y \in Int, x <= y
      PROVE  to_f64(x) <= to_f64(y)
  BY <1>1, <1>4 DEF to_f64
<1> QED
  BY <1>2, <1>3, <1>4

\* A conversion keeps the numbers.
LEMMA Converted ==
    ASSUME NEW s \in Sources, NEW v, IsValue(Cell(s), v), Right(s, v)
    PROVE  LET w == into_data_point_value(s, v)
           IN  /\ IF Kind[s] = "Histogram" THEN w \in HistogramValue ELSE w \in Int
               /\ Right(s, w)
               /\ \A u : Below(s, u, v) => Below(s, u, w)
               /\ Below(s, w, v)
<1> DEFINE w == into_data_point_value(s, v)
<1>1. CASE Kind[s] = "Histogram"
  <2>1. v \in Histograms
    BY <1>1, ValuesHaveNumbers
  <2>2. w = [boundaries |-> Bounds, bucket_counts |-> v.bucket_counts,
             count |-> v.count, sum |-> to_f64(v.sum)]
    BY <1>1 DEF into_data_point_value
  <2>3. w \in HistogramValue /\ w.bucket_counts = v.bucket_counts /\ w.count = v.count
    <3>1. v.sum \in Nat
      BY <2>1 DEF Histograms
    <3>2. to_f64(v.sum) \in Nat
      BY <3>1, Rounding
    <3> QED
      BY <2>1, <2>2, <3>2 DEF Histograms, HistogramValue
  <2> HIDE DEF w
  <2>4. Right(s, w)
    BY <1>1, <2>3 DEF Right
  <2>5. \A u : Below(s, u, v) => Below(s, u, w)
    BY <1>1, <2>3 DEF Below
  <2>6. Below(s, w, v)
    <3>1. Numbers(s, v) /\ Below(s, v, v)
      BY ValuesHaveNumbers, BelowOrders
    <3> QED
      BY <1>1, <2>3, <3>1 DEF Below
  <2> QED
    BY <1>1, <2>3, <2>4, <2>5, <2>6 DEF w
<1>2. CASE Kind[s] # "Histogram"
  <2>1. w = v /\ v \in Int
    <3>1. v \in Int /\ v \in 0 .. MaxValue
      BY <1>2, ValuesHaveNumbers, ExpositionAssumption DEF Right
    <3>2. v \in -Precision .. Precision
      BY <3>1, ExpositionAssumption
    <3> QED
      BY <1>2, <3>1, <3>2, Rounding DEF into_data_point_value
  <2>2. Below(s, v, v)
    BY <1>2, <2>1 DEF Below
  <2> QED
    BY <1>2, <2>1, <2>2
<1> QED
  BY <1>1, <1>2

-----------------------------------------------------------------------------
(* Points and families                                                     *)

\* The words of names.
Word == STRING \cup {"_", "total", "bucket", "sum", "count"}

LEMMA Words ==
    ASSUME NEW S, NEW a \in S, NEW b \in S
    PROVE  <<>> \in Seq(S) /\ <<a>> \in Seq(S) /\ <<a, b>> \in Seq(S)
OBVIOUS

LEMMA MoreWords ==
    ASSUME NEW S, NEW T, S \subseteq T, NEW q \in Seq(S)
    PROVE  q \in Seq(T)
OBVIOUS

LEMMA NamesAreNames ==
    /\ \A s \in Sources : family_name(s) \in Seq(Word)
    /\ \A kind : Lines(kind) \subseteq suffixes(kind) /\ <<>> \in suffixes(kind)
                 /\ suffixes(kind) \subseteq Seq(Word)
<1> DEFINE W == Word
<1>0. STRING \subseteq W /\ "_" \in W /\ "total" \in W /\ "bucket" \in W /\ "sum" \in W
      /\ "count" \in W
  BY DEF Word
<1> HIDE DEF W
<1>1. ASSUME NEW name \in Seq(W), NEW allowed
      PROVE  Sanitized(name, allowed) \in Seq(W)
  <2> DEFINE out == [i \in DOMAIN name |->
                        IF name[i] \in Separators \ allowed THEN "_" ELSE name[i]]
  <2>1. out \in Seq(W)
    <3>1. Len(name) \in Nat /\ DOMAIN name = 1 .. Len(name)
      OBVIOUS
    <3>2. \A i \in DOMAIN name : name[i] \in W
      OBVIOUS
    <3>3. out \in [1 .. Len(name) -> W]
      BY <1>0, <3>1, <3>2
    <3> HIDE DEF out
    <3> QED
      BY <3>1, <3>3
  <2> HIDE DEF out
  <2>2. <<"_">> \o out \in Seq(W)
    <3>1. <<"_">> \in Seq(W)
      BY <1>0, Words
    <3> QED
      BY <2>1, <3>1, ConcatProperties
  <2> QED
    BY <2>1, <2>2 DEF Sanitized, out
<1>2. ASSUME NEW s \in Sources PROVE family_name(s) \in Seq(W)
  <2>0. Id[s].name \in Seq(W)
    <3>1. Id[s].name \in Seq(STRING)
      BY ExpositionAssumption
    <3> QED
      BY <1>0, <3>1, MoreWords
  <2>1. sanitize_metric_name(Id[s].name) \in Seq(W)
    BY <1>1, <2>0 DEF sanitize_metric_name
  <2>2. Total \in Seq(W)
    BY <1>0, Words DEF Total
  <2>3. sanitize_metric_name(Id[s].name) \o Total \in Seq(W)
    BY <2>1, <2>2, ConcatProperties
  <2> QED
    BY <2>1, <2>3, Zenon DEF family_name
<1>3. ASSUME NEW kind
      PROVE  Lines(kind) \subseteq suffixes(kind) /\ <<>> \in suffixes(kind)
             /\ suffixes(kind) \subseteq Seq(W)
  <2>1. /\ <<>> \in Seq(W) /\ <<"_", "bucket">> \in Seq(W)
        /\ <<"_", "sum">> \in Seq(W) /\ <<"_", "count">> \in Seq(W)
    BY <1>0, Words
  <2>2. Lines(kind) \subseteq Seq(W)
    BY <2>1, Zenon DEF Lines
  <2> QED
    BY <2>1, <2>2 DEF suffixes
<1> QED
  BY <1>2, <1>3 DEF W

\* What visit_bucket hands over: the points of the source, all of them.
LEMMA SourcePoints ==
    ASSUME NEW s \in Sources, Typed, ValuesRight, BegunBelow
    PROVE  LET q == SetToSeq(PointsOf(s))
           IN  /\ q \in Seq(Point)
               /\ \A i \in DOMAIN q : q[i].by = s /\ Fits(q[i])
               /\ \A x \in DOMAIN value : x[1] = s =>
                     \E i \in DOMAIN q : <<q[i].by, q[i].attrs>> = x
<1> DEFINE Of(x) == [by |-> s, attrs |-> x[2], value |-> into_data_point_value(s, value[x])]
           X == {x \in DOMAIN value : x[1] = s}
           q == SetToSeq(PointsOf(s))
<1>1. PointsOf(s) = {Of(x) : x \in X}
  BY DEF PointsOf
<1>2. ASSUME NEW x \in X
      PROVE  /\ Of(x) \in Point
             /\ Fits(Of(x))
             /\ <<Of(x).by, Of(x).attrs>> = x
  <2> DEFINE w == into_data_point_value(s, value[x])
  <2>1. x \in Sources \X Attrs /\ x[1] = s /\ IsValue(Cell(x[1]), value[x])
    BY DEF Typed, TypeOK, IsValues
  <2>2. x = <<s, x[2]>> /\ x[2] \in Attrs
    BY <2>1
  <2>3. Right(s, value[x])
    BY <2>1 DEF ValuesRight
  <2>4. /\ IF Kind[s] = "Histogram" THEN w \in HistogramValue ELSE w \in Int
        /\ Right(s, w)
        /\ \A u : Below(s, u, value[x]) => Below(s, u, w)
        /\ Below(s, w, value[x])
    BY <2>1, <2>3, Converted
  <2>5. x \in DOMAIN begun => Below(s, begun[x], value[x])
    BY <2>1 DEF BegunBelow
  <2> HIDE DEF w
  <2>6. Of(x) = [by |-> s, attrs |-> x[2], value |-> w]
    BY DEF w
  <2>7. Of(x).by = s /\ Of(x).attrs = x[2] /\ Of(x).value = w
    BY <2>6
  <2>8. Of(x) \in [by : Sources, attrs : Attrs, value : Int \cup HistogramValue]
    BY <2>2, <2>4, <2>6
  <2> HIDE DEF Of
  <2>9. IsPoint(Of(x))
    BY <2>2, <2>4, <2>7 DEF IsPoint
  <2>10. Of(x) \in Point
    BY <2>8, <2>9 DEF Point
  <2>11. <<Of(x).by, Of(x).attrs>> = x
    BY <2>2, <2>7
  <2>12. Fits(Of(x))
    BY <2>4, <2>5, <2>7, <2>11 DEF Fits
  <2> QED
    BY <2>10, <2>11, <2>12
<1>3. IsFiniteSet(PointsOf(s))
  <2>1. IsFiniteSet(X)
    BY FS_Subset DEF Typed
  <2> HIDE DEF X
  <2>2. [x \in X |-> Of(x)] \in Surjection(X, PointsOf(s))
    <3> HIDE DEF Of
    <3> QED
      BY <1>1 DEF Surjection
  <2> QED
    BY <2>1, <2>2, FS_Surjection
<1>4. q \in Seq(PointsOf(s)) /\ \A y \in PointsOf(s) : \E i \in 1 .. Len(q) : q[i] = y
  BY <1>3, SetToSeqFacts
<1> HIDE DEF q, X, Of
<1>5. DOMAIN q = 1 .. Len(q) /\ \A i \in DOMAIN q : q[i] \in PointsOf(s)
  BY <1>4
<1>6. \A i \in DOMAIN q : \E x \in X : q[i] = Of(x)
  BY <1>1, <1>5
<1>7. q \in Seq(Point)
  <2>1. PointsOf(s) \subseteq Point
    BY <1>1, <1>2
  <2> QED
    BY <1>4, <2>1
<1>8. \A i \in DOMAIN q : q[i].by = s /\ Fits(q[i])
  <2>1. \A x \in X : Of(x).by = s
    BY DEF Of
  <2> QED
    BY <1>2, <1>6, <2>1
<1>9. ASSUME NEW x \in DOMAIN value, x[1] = s
      PROVE  \E i \in DOMAIN q : <<q[i].by, q[i].attrs>> = x
  <2>1. x \in X
    BY <1>9 DEF X
  <2>2. PICK i \in DOMAIN q : q[i] = Of(x)
    BY <1>1, <1>4, <1>5, <2>1
  <2> QED
    BY <1>2, <2>1, <2>2
<1> QED
  BY <1>7, <1>8, <1>9 DEF q

\* g is f with the points q of s in the family n.
Joined(f, g, n, s, q) ==
    /\ DOMAIN g = DOMAIN f \cup {n}
    /\ \A m \in DOMAIN f : m # n => g[m] = f[m]
    /\ g[n] \in Family
    /\ g[n].id = Id[s] /\ g[n].kind = Kind[s]
    /\ n \in DOMAIN f =>
          /\ f[n].id = Id[s] /\ f[n].kind = Kind[s]
          /\ \A j \in DOMAIN f[n].points :
                \E i \in DOMAIN g[n].points : g[n].points[i] = f[n].points[j]
    /\ \A j \in DOMAIN q : \E i \in DOMAIN g[n].points : g[n].points[i] = q[j]
    /\ \A i \in DOMAIN g[n].points :
          \/ \E j \in DOMAIN q : g[n].points[i] = q[j]
          \/ n \in DOMAIN f /\ \E j \in DOMAIN f[n].points : g[n].points[i] = f[n].points[j]

LEMMA Opening ==
    ASSUME NEW f, NEW n, n \notin DOMAIN f, NEW s \in Sources, NEW q \in Seq(Point)
    PROVE  Joined(f, [m \in DOMAIN f \cup {n} |->
                         IF m = n THEN [id |-> Id[s], kind |-> Kind[s], points |-> q] ELSE f[m]],
                  n, s, q)
<1> DEFINE g == [m \in DOMAIN f \cup {n} |->
                    IF m = n THEN [id |-> Id[s], kind |-> Kind[s], points |-> q] ELSE f[m]]
<1>1. g[n] = [id |-> Id[s], kind |-> Kind[s], points |-> q]
  OBVIOUS
<1>2. g[n] \in Family
  BY <1>1, ExpositionAssumption DEF Family, Range
<1>3. DOMAIN g = DOMAIN f \cup {n} /\ \A m \in DOMAIN f : m # n => g[m] = f[m]
  OBVIOUS
<1>4. g[n].id = Id[s] /\ g[n].kind = Kind[s] /\ g[n].points = q
  BY <1>1
<1> HIDE DEF g
<1>5. Joined(f, g, n, s, q)
  BY <1>2, <1>3, <1>4 DEF Joined
<1> QED
  BY <1>5 DEF g

LEMMA Joining ==
    ASSUME NEW f, NEW n \in DOMAIN f, f[n] \in Family, NEW s \in Sources, Joins(f[n], s),
           NEW q \in Seq(Point)
    PROVE  Joined(f, [f EXCEPT ![n].points = @ \o q], n, s, q)
<1> DEFINE g == [f EXCEPT ![n].points = @ \o q]
           p == f[n].points
<1>1. g[n] = [f[n] EXCEPT !.points = f[n].points \o q]
  OBVIOUS
<1>2. DOMAIN g = DOMAIN f \cup {n} /\ \A m \in DOMAIN f : m # n => g[m] = f[m]
  OBVIOUS
<1> HIDE DEF g
<1>3. p \in Seq(Point) /\ p \o q \in Seq(Point)
  BY DEF Family
<1>4. g[n].id = Id[s] /\ g[n].kind = Kind[s] /\ g[n].points = p \o q /\ g[n] \in Family
  BY <1>1, <1>3 DEF Family, Joins
<1>5. f[n].id = Id[s] /\ f[n].kind = Kind[s]
  BY DEF Joins
<1> HIDE DEF p
<1> DEFINE r == p \o q
<1>6. /\ \A j \in DOMAIN p : \E i \in DOMAIN r : r[i] = p[j]
      /\ \A j \in DOMAIN q : \E i \in DOMAIN r : r[i] = q[j]
      /\ \A i \in DOMAIN r : \/ \E j \in DOMAIN q : r[i] = q[j]
                            \/ \E j \in DOMAIN p : r[i] = p[j]
  <2>1. /\ r \in Seq(Point) /\ Len(r) = Len(p) + Len(q) /\ Len(p) \in Nat /\ Len(q) \in Nat
        /\ DOMAIN r = 1 .. Len(r) /\ DOMAIN p = 1 .. Len(p) /\ DOMAIN q = 1 .. Len(q)
        /\ \A i \in 1 .. Len(r) : r[i] = IF i <= Len(p) THEN p[i] ELSE q[i - Len(p)]
    BY <1>3
  <2> HIDE DEF r
  <2>2. ASSUME NEW j \in DOMAIN p PROVE \E i \in DOMAIN r : r[i] = p[j]
    <3>1. j \in 1 .. Len(r) /\ j <= Len(p)
      BY <2>1
    <3> QED
      BY <2>1, <3>1
  <2>3. ASSUME NEW j \in DOMAIN q PROVE \E i \in DOMAIN r : r[i] = q[j]
    <3>1. PICK i \in 1 .. Len(r) : i = j + Len(p)
      BY <2>1
    <3>2. ~(i <= Len(p)) /\ i - Len(p) = j
      BY <2>1, <3>1
    <3> QED
      BY <2>1, <3>2
  <2>4. ASSUME NEW i \in DOMAIN r
        PROVE  \/ \E j \in DOMAIN q : r[i] = q[j]
               \/ \E j \in DOMAIN p : r[i] = p[j]
    <3>1. CASE i <= Len(p)
      <4>1. i \in DOMAIN p /\ r[i] = p[i]
        BY <2>1, <3>1
      <4> QED
        BY <4>1
    <3>2. CASE ~(i <= Len(p))
      <4>1. i - Len(p) \in DOMAIN q /\ r[i] = q[i - Len(p)]
        BY <2>1, <3>2
      <4> QED
        BY <4>1
    <3> QED
      BY <3>1, <3>2
  <2> QED
    BY <2>2, <2>3, <2>4
<1>7. g[n].points = r /\ f[n].points = p
  BY <1>4 DEF p
<1> HIDE DEF r
<1>8. Joined(f, g, n, s, q)
  BY <1>2, <1>4, <1>5, <1>6, <1>7 DEF Joined
<1> QED
  BY <1>8 DEF g

-----------------------------------------------------------------------------
(* Every step preserves the invariant                                      *)

LEMMA PointHasNumbers ==
    ASSUME NEW p \in Point
    PROVE  p.by \in Sources /\ Numbers(p.by, p.value)
BY DEF Point, IsPoint, HistogramValue, Numbers, Indices

\* The value of a point that fits grows, and the point still fits.
LEMMA FitsStays ==
    ASSUME UNCHANGED <<value, begun>>, NEW p
    PROVE  Fits(p)' <=> Fits(p)
BY DEF Fits

LEMMA FitsGrown ==
    ASSUME NEW p \in Point, Fits(p), Typed, BegunBelow, UNCHANGED begun,
           DOMAIN value \subseteq DOMAIN value',
           \A x \in DOMAIN value : IsValue(Cell(x[1]), value'[x])
                                   /\ Below(x[1], value[x], value'[x])
    PROVE  Fits(p)'
<1> DEFINE x == <<p.by, p.attrs>>
<1>1. x \in DOMAIN value /\ x[1] = p.by /\ p.by \in Sources
  BY PointHasNumbers DEF Fits
<1>2. IsValue(Cell(p.by), value[x]) /\ IsValue(Cell(p.by), value'[x])
  BY <1>1 DEF Typed, TypeOK, IsValues
<1>3. /\ Right(p.by, p.value)
      /\ Below(p.by, p.value, value[x])
      /\ x \in DOMAIN begun => Below(p.by, begun[x], p.value)
  BY DEF Fits
<1>4. Below(p.by, value[x], value'[x])
  BY <1>1
<1>5. Numbers(p.by, p.value) /\ Numbers(p.by, value[x]) /\ Numbers(p.by, value'[x])
  BY <1>1, <1>2, PointHasNumbers, ValuesHaveNumbers
<1>6. Below(p.by, p.value, value'[x])
  BY <1>1, <1>3, <1>4, <1>5, BelowOrders
<1> HIDE DEF x
<1> QED
  BY <1>1, <1>3, <1>6 DEF Fits, x

\* What an update makes of the values.
LEMMA RecordGrows ==
    ASSUME Typed, ValuesRight, NEW s \in Sources, NEW a \in Attrs,
           NEW x \in (IF Kind[s] = "Histogram" THEN Amounts ELSE {1}), Record(s, a, x)
    PROVE  /\ DOMAIN value \subseteq DOMAIN value'
           /\ IsFiniteSet(DOMAIN value')
           /\ IsValues(value)'
           /\ ValuesRight'
           /\ \A y \in DOMAIN value : IsValue(Cell(y[1]), value'[y])
                                      /\ Below(y[1], value[y], value'[y])
<1> DEFINE c == <<s, a>>
<1>0. /\ \A y \in DOMAIN value : y \in Sources \X Attrs /\ IsValue(Cell(y[1]), value[y])
                                 /\ Right(y[1], value[y])
      /\ IsFiniteSet(DOMAIN value)
  BY DEF Typed, TypeOK, IsValues, ValuesRight
<1>1. \A y \in DOMAIN value : Below(y[1], value[y], value[y])
  BY <1>0, ValuesHaveNumbers, BelowOrders
<1>2. c \in Sources \X Attrs /\ c[1] = s
  OBVIOUS
<1>3. CASE c \notin DOMAIN value
  <2>1. value' = [y \in DOMAIN value \cup {c} |->
                    IF y = c THEN Plus(Cell(s), Initial(Cell(s)), x) ELSE value[y]]
    BY <1>3 DEF Record
  <2>2. /\ IsValue(Cell(s), Plus(Cell(s), Initial(Cell(s)), x))
        /\ Right(s, Plus(Cell(s), Initial(Cell(s)), x))
    BY InitialRight, PlusRight
  <2>3. DOMAIN value' = DOMAIN value \cup {c} /\ IsFiniteSet(DOMAIN value')
    BY <1>0, <2>1, FS_AddElement
  <2>4. \A y \in DOMAIN value : value'[y] = value[y]
    BY <1>3, <2>1
  <2>5. IsValue(Cell(s), value'[c]) /\ Right(s, value'[c])
    BY <2>1, <2>2
  <2> HIDE DEF c
  <2>6. \A y \in DOMAIN value' : y \in Sources \X Attrs /\ IsValue(Cell(y[1]), value'[y])
                                 /\ Right(y[1], value'[y])
    BY <1>0, <1>2, <2>3, <2>4, <2>5
  <2>7. IsValues(value)' /\ ValuesRight'
    BY <2>6 DEF IsValues, ValuesRight
  <2> QED
    BY <1>0, <1>1, <2>3, <2>4, <2>7
<1>4. CASE c \in DOMAIN value
  <2>1. /\ Updates(s, value[c]) < MaxValue
        /\ value' = [y \in DOMAIN value |->
                        IF y = c THEN Plus(Cell(s), value[y], x) ELSE value[y]]
    BY <1>4 DEF Record
  <2>2. IsValue(Cell(s), value[c]) /\ Right(s, value[c])
    BY <1>0, <1>2, <1>4
  <2>3. Kind[s] # "Histogram" => value[c] < MaxValue
    <3> HAVE Kind[s] # "Histogram"
    <3>1. Cell(s) \in {"AtomicU64", "AtomicI64"}
      BY ExpositionAssumption DEF Cell
    <3>2. Counts(Cell(s), value[c]) = <<value[c]>>
      BY <3>1 DEF Counts
    <3> QED
      BY <2>1, <3>2 DEF Updates
  <2>4. /\ IsValue(Cell(s), Plus(Cell(s), value[c], x))
        /\ Right(s, Plus(Cell(s), value[c], x))
        /\ Below(s, value[c], Plus(Cell(s), value[c], x))
    BY <2>2, <2>3, PlusRight
  <2>5. /\ DOMAIN value' = DOMAIN value /\ value'[c] = Plus(Cell(s), value[c], x)
        /\ \A y \in DOMAIN value : y # c => value'[y] = value[y]
    BY <1>4, <2>1
  <2> HIDE DEF c
  <2>6. \A y \in DOMAIN value : /\ y \in Sources \X Attrs
                                /\ IsValue(Cell(y[1]), value'[y])
                                /\ Right(y[1], value'[y])
                                /\ Below(y[1], value[y], value'[y])
    BY <1>0, <1>1, <1>2, <2>4, <2>5
  <2>7. IsValues(value)' /\ ValuesRight'
    BY <2>5, <2>6 DEF IsValues, ValuesRight
  <2> QED
    BY <1>0, <2>5, <2>6, <2>7
<1> QED
  BY <1>3, <1>4

LEMMA RecordStep ==
    ASSUME ExpositionInv, NEW s \in Sources, NEW a \in Attrs,
           NEW x \in (IF Kind[s] = "Histogram" THEN Amounts ELSE {1}), Record(s, a, x)
    PROVE  ExpositionInv'
<1>0. /\ UNCHANGED <<sources, pc, next, families, result, begun, read>>
      /\ Typed /\ ValuesRight /\ BegunBelow
  BY DEF Record, ExpositionInv
<1>1. /\ DOMAIN value \subseteq DOMAIN value'
      /\ IsFiniteSet(DOMAIN value')
      /\ IsValues(value)'
      /\ ValuesRight'
      /\ \A y \in DOMAIN value : IsValue(Cell(y[1]), value'[y])
                                 /\ Below(y[1], value[y], value'[y])
  BY <1>0, RecordGrows
<1>2. Typed'
  BY <1>0, <1>1 DEF Typed, TypeOK, IsValues, IsFamilies
<1>3. ASSUME NEW f, PointsRight(f), \A n \in DOMAIN f : f[n] \in Family
      PROVE  \A n \in DOMAIN f : \A i \in DOMAIN f[n].points : f[n].points[i] \in Point
                                                               /\ Fits(f[n].points[i])'
  <2> TAKE n \in DOMAIN f
  <2> TAKE i \in DOMAIN f[n].points
  <2>1. f[n].points[i] \in Point
    BY <1>3 DEF Family
  <2>2. Fits(f[n].points[i])
    BY <1>3 DEF PointsRight, PointRight
  <2>3. Fits(f[n].points[i])'
    BY <1>0, <1>1, <2>1, <2>2, FitsGrown
  <2> QED
    BY <2>1, <2>3
<1>4. PointsRight(families)'
  <2>1. PointsRight(families) /\ \A n \in DOMAIN families : families[n] \in Family
    BY <1>0 DEF ExpositionInv, Typed
  <2> QED
    BY <1>0, <1>3, <2>1 DEF PointsRight, PointRight
<1>5. PointsRight(result.text)'
  <2>1. PointsRight(result.text) /\ \A n \in DOMAIN result.text : result.text[n] \in Family
    BY <1>0 DEF ExpositionInv, Typed
  <2> QED
    BY <1>0, <1>3, <2>1 DEF PointsRight, PointRight
<1>6. BegunBelow'
  <2> SUFFICES ASSUME NEW y \in DOMAIN begun
               PROVE  y \in DOMAIN value' /\ Below(y[1], begun[y], value'[y])
    BY <1>0 DEF BegunBelow
  <2>1. y \in DOMAIN value /\ Below(y[1], begun[y], value[y])
    BY <1>0 DEF BegunBelow
  <2>2. /\ y \in Sources \X Attrs /\ y[1] \in Sources /\ IsValue(Cell(y[1]), begun[y])
        /\ IsValue(Cell(y[1]), value[y])
    BY <1>0, <2>1 DEF Typed, TypeOK, IsValues
  <2>3. IsValue(Cell(y[1]), value'[y]) /\ Below(y[1], value[y], value'[y])
    BY <1>1, <2>1
  <2> QED
    BY <1>1, <2>1, <2>2, <2>3, ValuesHaveNumbers, BelowOrders
<1>7. /\ Opened' /\ Unreturned' /\ Kept' /\ Checked' /\ CollisionsAreReal'
  <2>0. Opened /\ Unreturned /\ Kept /\ Checked /\ CollisionsAreReal
    BY DEF ExpositionInv
  <2>1. Opened'
    BY <1>0, <2>0 DEF Opened
  <2>2. Unreturned'
    BY <1>0, <2>0 DEF Unreturned
  <2>3. Kept'
    BY <1>0, <2>0 DEF Kept, Held
  <2>4. Checked'
    BY <1>0, <2>0 DEF Checked
  <2>5. CollisionsAreReal'
    BY <1>0, <2>0 DEF CollisionsAreReal
  <2> QED
    BY <2>1, <2>2, <2>3, <2>4, <2>5
<1> QED
  BY <1>1, <1>2, <1>4, <1>5, <1>6, <1>7 DEF ExpositionInv

LEMMA FamiliesTyped ==
    ASSUME NEW f, \A n \in DOMAIN f : f[n] \in Family
    PROVE  IsFamilies(f)
<1> SUFFICES ASSUME NEW n \in DOMAIN f
             PROVE  /\ f[n].id \in Range(Id)
                    /\ f[n].kind \in {"Counter", "Gauge", "Histogram"}
                    /\ \A i \in DOMAIN f[n].points : IsPoint(f[n].points[i])
  BY DEF IsFamilies
<1>1. f[n] \in Family
  OBVIOUS
<1>2. \A i \in DOMAIN f[n].points : f[n].points[i] \in Point
  BY <1>1 DEF Family
<1> QED
  BY <1>1, <1>2 DEF Family, Point

LEMMA NothingIsRight ==
    /\ DOMAIN Nothing = {}
    /\ \A n \in DOMAIN Nothing : Nothing[n] \in Family
    /\ IsFamilies(Nothing) /\ IsValues(Nothing)
    /\ PointsRight(Nothing)
    /\ Clean(Nothing)
BY DEF Nothing, IsFamilies, IsValues, PointsRight, Clean, Collides

LEMMA NoneIsNoError ==
    None \notin Errors
BY ExpositionAssumption

LEMMA InitRight ==
    Init => ExpositionInv
<1> SUFFICES ASSUME Init PROVE ExpositionInv
  OBVIOUS
<1>1. /\ sources = <<>> /\ value = Nothing /\ pc = "idle" /\ next = 1 /\ families = Nothing
      /\ result = [error |-> None, text |-> Nothing] /\ begun = Nothing /\ read = {}
  BY DEF Init
<1>2. result.error = None /\ result.text = Nothing
  BY <1>1
<1>3. Typed
  <2>1. sources \in Seq(Sources) /\ next \in 1 .. Len(sources) + 1
    BY <1>1
  <2>2. IsFiniteSet(DOMAIN value)
    BY <1>1, NothingIsRight, FS_EmptySet
  <2> QED
    BY <1>1, <1>2, <2>1, <2>2, NothingIsRight DEF Typed, TypeOK
<1>4. ValuesRight /\ BegunBelow /\ Opened /\ Unreturned /\ Kept
  BY <1>1, <1>2, NothingIsRight DEF ValuesRight, BegunBelow, Opened, Unreturned, Kept
<1>5. PointsRight(families) /\ PointsRight(result.text) /\ Checked
  BY <1>1, <1>2, NothingIsRight DEF Checked
<1>6. CollisionsAreReal
  BY <1>1 DEF CollisionsAreReal
<1> QED
  BY <1>3, <1>4, <1>5, <1>6 DEF ExpositionInv

LEMMA AddStep ==
    ASSUME ExpositionInv, NEW s \in Sources, Add(s)
    PROVE  ExpositionInv'
<1>1. /\ pc # "scrape" /\ sources' = Append(sources, s)
      /\ UNCHANGED <<value, pc, next, families, result, begun, read>>
  BY DEF Add
<1>2. Typed'
  <2>1. sources' \in Seq(Sources) /\ next' \in 1 .. Len(sources') + 1
    BY <1>1 DEF ExpositionInv, Typed, TypeOK
  <2>2. TypeOK'
    BY <1>1, <2>1 DEF ExpositionInv, Typed, TypeOK
  <2> QED
    BY <1>1, <2>2 DEF ExpositionInv, Typed
<1>3. ValuesRight' /\ BegunBelow' /\ Opened' /\ Unreturned'
  BY <1>1 DEF ExpositionInv, ValuesRight, BegunBelow, Opened, Unreturned
<1>4. PointsRight(families)' /\ PointsRight(result.text)'
  BY <1>1, FitsStays DEF ExpositionInv, PointsRight, PointRight
<1>5. Kept'
  BY <1>1 DEF ExpositionInv, Kept, Held
<1>6. Checked' /\ CollisionsAreReal'
  BY <1>1 DEF ExpositionInv, Checked, CollisionsAreReal
<1> QED
  BY <1>2, <1>3, <1>4, <1>5, <1>6 DEF ExpositionInv

LEMMA BeginStep ==
    ASSUME ExpositionInv, Begin
    PROVE  ExpositionInv'
<1> DEFINE B == {x \in DOMAIN value : x[1] \in Range(sources)}
<1>1. /\ pc = "idle" /\ pc' = "scrape" /\ next' = 1 /\ families' = Nothing /\ read' = {}
      /\ begun' = Restrict(value, B)
      /\ UNCHANGED <<sources, value, result>>
  BY DEF Begin
<1>2. DOMAIN begun' = B /\ B \subseteq DOMAIN value /\ \A x \in B : begun'[x] = value[x]
  BY <1>1 DEF Restrict
<1>3. result.text = Nothing /\ result.error = None
  BY <1>1 DEF ExpositionInv, Unreturned
<1>4. ASSUME NEW x \in B PROVE \E k \in 1 .. Len(sources) : sources[k] = x[1]
  <2>1. DOMAIN sources = 1 .. Len(sources)
    BY DEF ExpositionInv, Typed, TypeOK
  <2> QED
    BY <2>1 DEF Range
<1> HIDE DEF B
<1>5. \A x \in DOMAIN value : x \in Sources \X Attrs /\ IsValue(Cell(x[1]), value[x])
  BY DEF ExpositionInv, Typed, TypeOK, IsValues
<1>6. Typed'
  <2>1. IsValues(begun)' /\ IsValues(value)'
    BY <1>1, <1>2, <1>5 DEF IsValues
  <2>2. IsFamilies(families)' /\ IsFamilies(result.text)'
    BY <1>1, <1>3, NothingIsRight
  <2>3. next' \in 1 .. Len(sources') + 1 /\ sources' \in Seq(Sources)
    BY <1>1 DEF ExpositionInv, Typed, TypeOK
  <2>4. TypeOK'
    BY <1>1, <1>3, <2>1, <2>2, <2>3 DEF TypeOK
  <2> QED
    BY <1>1, <1>3, <2>4, NothingIsRight DEF ExpositionInv, Typed
<1>7. ValuesRight'
  BY <1>1 DEF ExpositionInv, ValuesRight
<1>8. BegunBelow'
  BY <1>1, <1>2, <1>5, ValuesHaveNumbers, BelowOrders DEF BegunBelow
<1>9. PointsRight(families)' /\ PointsRight(result.text)'
  BY <1>1, <1>3, NothingIsRight DEF PointsRight
<1>10. Opened' /\ Unreturned' /\ Checked' /\ CollisionsAreReal'
  BY <1>1, NothingIsRight DEF ExpositionInv, Opened, Unreturned, Checked, CollisionsAreReal
<1>11. Kept'
  BY <1>1, <1>2, <1>4 DEF Kept
<1> QED
  BY <1>6, <1>7, <1>8, <1>9, <1>10, <1>11 DEF ExpositionInv

LEMMA UnlockStep ==
    ASSUME ExpositionInv, Unlock
    PROVE  ExpositionInv'
<1>1. /\ pc = "scrape" /\ next > Len(sources) /\ pc' = "render"
      /\ UNCHANGED <<sources, value, next, families, result, begun, read>>
  BY DEF Unlock
<1>2. Typed' /\ ValuesRight' /\ BegunBelow' /\ Opened'
  <2>1. TypeOK'
    BY <1>1 DEF ExpositionInv, Typed, TypeOK
  <2>2. Typed'
    BY <1>1, <2>1 DEF ExpositionInv, Typed
  <2>3. ValuesRight' /\ BegunBelow' /\ Opened'
    BY <1>1 DEF ExpositionInv, ValuesRight, BegunBelow, Opened
  <2> QED
    BY <2>2, <2>3
<1>3. PointsRight(families)' /\ PointsRight(result.text)'
  BY <1>1, FitsStays DEF ExpositionInv, PointsRight, PointRight
<1>4. Unreturned' /\ Checked' /\ CollisionsAreReal'
  BY <1>1 DEF ExpositionInv, Unreturned, Checked, CollisionsAreReal
<1>5. Kept'
  <2>1. ~\E k \in next .. Len(sources) : TRUE
    BY <1>1 DEF ExpositionInv, Typed, TypeOK
  <2>2. \A x \in DOMAIN begun : Held(families, x)
    BY <1>1, <2>1 DEF ExpositionInv, Kept
  <2> QED
    BY <1>1, <2>2 DEF Kept, Held
<1> QED
  BY <1>2, <1>3, <1>4, <1>5 DEF ExpositionInv

LEMMA RenderErrorsAre ==
    ASSUME NEW f
    PROVE  RenderErrors(f) \subseteq {"EmptyLabelName", "LabelCollision", "DuplicateSeries"}
<1> DEFINE labels == {LabelErrors(f.points[i].attrs, f.kind) : i \in DOMAIN f.points}
           E == {"EmptyLabelName", "LabelCollision"}
<1>1. \A a, kind : LabelErrors(a, kind) \subseteq E
  BY DEF LabelErrors
<1> HIDE DEF E
<1>2. (UNION labels) \subseteq E
  BY <1>1
<1> HIDE DEF labels
<1>3. RenderErrors(f) \subseteq (UNION labels) \cup {"DuplicateSeries"}
  BY DEF RenderErrors, labels
<1> QED
  BY <1>2, <1>3 DEF E

LEMMA RenderStep ==
    ASSUME ExpositionInv, Render
    PROVE  ExpositionInv'
<1> DEFINE errors == UNION {RenderErrors(families[n]) : n \in DOMAIN families}
<1>1. /\ pc = "render" /\ pc' = "returned"
      /\ UNCHANGED <<sources, value, next, families, begun, read>>
  BY DEF Render, Fail, Return
<1>2. \/ SampleCollision /\ Fail("FamilyCollision")
      \/ \E e \in errors : Fail(e)
      \/ ~SampleCollision /\ errors = {} /\ Return(None, families)
  BY DEF Render
<1>3. errors \subseteq {"EmptyLabelName", "LabelCollision", "DuplicateSeries"}
  BY RenderErrorsAre
<1>4. ASSUME NEW error \in Errors, Fail(error)
      PROVE  result'.error = error /\ result'.text = Nothing
  BY <1>4 DEF Fail, Return
<1>5. ASSUME Return(None, families)
      PROVE  result'.error = None /\ result'.text = families
  BY <1>5 DEF Return
<1>6. \/ /\ SampleCollision
         /\ result'.error = "FamilyCollision" /\ result'.text = Nothing
      \/ /\ result'.error \in {"EmptyLabelName", "LabelCollision", "DuplicateSeries"}
         /\ result'.text = Nothing
      \/ /\ ~SampleCollision /\ errors = {}
         /\ result'.error = None /\ result'.text = families
  <2>1. CASE SampleCollision /\ Fail("FamilyCollision")
    BY <1>4, <2>1 DEF Errors
  <2>2. CASE \E e \in errors : Fail(e)
    <3> HIDE DEF errors
    <3>1. PICK e \in errors : Fail(e)
      BY <2>2
    <3>2. e \in Errors /\ e \in {"EmptyLabelName", "LabelCollision", "DuplicateSeries"}
      BY <1>3 DEF Errors
    <3> QED
      BY <1>4, <3>1, <3>2
  <2>3. CASE ~SampleCollision /\ errors = {} /\ Return(None, families)
    BY <1>5, <2>3
  <2> QED
    BY <1>2, <2>1, <2>2, <2>3
<1> HIDE DEF errors
<1>7. /\ result'.error \in Errors \cup {None}
      /\ result'.text = Nothing \/ result'.text = families
      /\ result'.error = None => result'.text = families
  <2>1. {"FamilyCollision", "EmptyLabelName", "LabelCollision", "DuplicateSeries"} \subseteq Errors
    BY DEF Errors
  <2> QED
    BY <1>6, <2>1, NoneIsNoError
<1>8. Typed'
  <2>1. IsFamilies(families)' /\ IsFamilies(result.text)'
    BY <1>1, <1>7, NothingIsRight DEF ExpositionInv, Typed, TypeOK, IsFamilies
  <2>2. IsValues(value)' /\ IsValues(begun)'
    BY <1>1 DEF ExpositionInv, Typed, TypeOK, IsValues
  <2>3. TypeOK'
    <3>1. /\ sources' \in Seq(Sources) /\ next' \in 1 .. Len(sources') + 1
          /\ read' \subseteq Sources
      BY <1>1 DEF ExpositionInv, Typed, TypeOK
    <3>2. result'.error \in Errors \cup {None} /\ pc' \in {"idle", "scrape", "render", "returned"}
      BY <1>1, <1>7
    <3> QED
      BY <2>1, <2>2, <3>1, <3>2 DEF TypeOK
  <2>4. \A n \in DOMAIN families' : families'[n] \in Family
    BY <1>1 DEF ExpositionInv, Typed
  <2>5. \A n \in DOMAIN result'.text : result'.text[n] \in Family
    BY <1>1, <1>7, <2>4, NothingIsRight
  <2> QED
    BY <1>1, <2>3, <2>4, <2>5 DEF ExpositionInv, Typed
<1>9. ValuesRight' /\ BegunBelow' /\ Opened' /\ Unreturned'
  BY <1>1 DEF ExpositionInv, ValuesRight, BegunBelow, Opened, Unreturned
<1>10. PointsRight(families)'
  BY <1>1, FitsStays DEF ExpositionInv, PointsRight, PointRight
<1>11. PointsRight(result.text)'
  <2>1. CASE result'.text = Nothing
    BY <2>1, NothingIsRight DEF PointsRight
  <2>2. CASE result'.text = families
    BY <1>1, <1>10, <2>2 DEF PointsRight, PointRight, Fits
  <2> QED
    BY <1>7, <2>1, <2>2
<1>12. Kept'
  <2>1. \A x \in DOMAIN begun : Held(families, x)
    BY <1>1 DEF ExpositionInv, Kept
  <2>2. \A x \in DOMAIN begun' : result'.error = None => Held(result'.text, x)
    BY <1>1, <1>7, <2>1
  <2> QED
    BY <1>1, <2>2 DEF Kept, Held
<1>13. Checked'
  <2>1. CASE result'.text = Nothing
    BY <2>1, NothingIsRight DEF Checked
  <2>2. CASE result'.error = None /\ ~SampleCollision /\ errors = {} /\ result'.text = families
    <3>1. ~Collides(families)
      BY <2>2, Zenon DEF SampleCollision, Collides
    <3>2. \A n \in DOMAIN families : RenderErrors(families[n]) = {}
      BY <2>2 DEF errors
    <3>3. Clean(families)
      BY <3>1, <3>2 DEF Clean
    <3> QED
      BY <2>2, <3>3 DEF Checked
  <2> QED
    BY <1>6, <2>1, <2>2
<1>14. CollisionsAreReal'
  <2> SUFFICES ASSUME result'.error = "FamilyCollision"
               PROVE  \E s, t \in read : /\ <<Id[s], Kind[s]>> # <<Id[t], Kind[t]>>
                                         /\ Claims(s) \cap Claims(t) # {}
    BY <1>1 DEF CollisionsAreReal
  <2>1. SampleCollision
    <3>1. None # "FamilyCollision"
      BY NoneIsNoError DEF Errors
    <3> QED
      BY <1>6, <3>1
  <2>2. PICK m \in DOMAIN families, n \in DOMAIN families : m # n /\
            \E x \in suffixes(families[m].kind), y \in suffixes(families[n].kind) :
                m \o x = n \o y
    BY <2>1, Zenon DEF SampleCollision
  <2>3. PICK x \in suffixes(families[m].kind), y \in suffixes(families[n].kind) :
                m \o x = n \o y
    BY <2>2, Zenon
  <2>4. PICK s \in read : /\ family_name(s) = m /\ Id[s] = families[m].id
                          /\ Kind[s] = families[m].kind
    BY DEF ExpositionInv, Opened
  <2>5. PICK t \in read : /\ family_name(t) = n /\ Id[t] = families[n].id
                          /\ Kind[t] = families[n].kind
    BY DEF ExpositionInv, Opened
  <2>6. m \o x \in Claims(s) /\ n \o y \in Claims(t)
    <3>1. x \in Lines(Kind[s]) \cup {<<>>} /\ y \in Lines(Kind[t]) \cup {<<>>}
      BY <2>4, <2>5 DEF suffixes
    <3> QED
      BY <2>4, <2>5, <3>1 DEF Claims
  <2>7. Claims(s) \cap Claims(t) # {}
    BY <2>3, <2>6
  <2>8. <<Id[s], Kind[s]>> # <<Id[t], Kind[t]>>
    <3> SUFFICES ASSUME Id[s] = Id[t], Kind[s] = Kind[t] PROVE FALSE
      OBVIOUS
    <3>1. family_name(s) = family_name(t)
      BY Zenon DEF family_name
    <3> QED
      BY <2>2, <2>4, <2>5, <3>1
  <2> QED
    BY <2>7, <2>8
<1> QED
  BY <1>8, <1>9, <1>10, <1>11, <1>12, <1>13, <1>14 DEF ExpositionInv

\* Points that join a family are as right as those it had.
LEMMA MergedRight ==
    ASSUME ExpositionInv, NEW s \in Sources, NEW g,
           Joined(families, g, family_name(s), s, SetToSeq(PointsOf(s)))
    PROVE  /\ \A n \in DOMAIN g : g[n] \in Family
           /\ PointsRight(g)
           /\ \A x : Held(families, x) => Held(g, x)
           /\ \A x \in DOMAIN value : x[1] = s => Held(g, x)
           /\ \A n \in DOMAIN g : \E t \in read \cup {s} :
                 family_name(t) = n /\ Id[t] = g[n].id /\ Kind[t] = g[n].kind
<1> DEFINE q == SetToSeq(PointsOf(s))
           n == family_name(s)
           f == families
<1>0. Typed /\ ValuesRight /\ PointsRight(f) /\ BegunBelow /\ Opened
  BY DEF ExpositionInv
<1>1. /\ q \in Seq(Point)
      /\ \A i \in DOMAIN q : q[i].by = s /\ Fits(q[i])
      /\ \A x \in DOMAIN value : x[1] = s => \E i \in DOMAIN q : <<q[i].by, q[i].attrs>> = x
  BY <1>0, SourcePoints
<1>2. Joined(f, g, n, s, q)
  OBVIOUS
<1> HIDE DEF q
<1>3. /\ DOMAIN g = DOMAIN f \cup {n}
      /\ \A m \in DOMAIN f : m # n => g[m] = f[m]
      /\ g[n] \in Family /\ g[n].id = Id[s] /\ g[n].kind = Kind[s]
      /\ \A j \in DOMAIN q : \E i \in DOMAIN g[n].points : g[n].points[i] = q[j]
      /\ n \in DOMAIN f =>
            /\ f[n].id = Id[s] /\ f[n].kind = Kind[s]
            /\ \A j \in DOMAIN f[n].points :
                  \E i \in DOMAIN g[n].points : g[n].points[i] = f[n].points[j]
      /\ \A i \in DOMAIN g[n].points :
            \/ \E j \in DOMAIN q : g[n].points[i] = q[j]
            \/ n \in DOMAIN f /\ \E j \in DOMAIN f[n].points : g[n].points[i] = f[n].points[j]
  BY <1>2 DEF Joined
<1>4. \A m \in DOMAIN g : m = n \/ (m # n /\ m \in DOMAIN f /\ g[m] = f[m])
  BY <1>3
<1>5. \A m \in DOMAIN g : g[m] \in Family
  BY <1>0, <1>3, <1>4 DEF Typed
<1>6. PointsRight(g)
  <2> SUFFICES ASSUME NEW m \in DOMAIN g, NEW i \in DOMAIN g[m].points
               PROVE  PointRight(g, m, i)
    BY DEF PointsRight
  <2> DEFINE p == g[m].points[i]
  <2>1. CASE m # n
    BY <1>0, <1>4, <2>1 DEF PointsRight, PointRight
  <2>2. CASE m = n /\ \E j \in DOMAIN q : p = q[j]
    <3>1. p.by = s /\ Fits(p)
      BY <1>1, <2>2
    <3> QED
      BY <1>3, <2>2, <3>1 DEF PointRight
  <2>3. CASE m = n /\ n \in DOMAIN f /\ \E j \in DOMAIN f[n].points : p = f[n].points[j]
    <3>1. PICK j \in DOMAIN f[n].points : p = f[n].points[j]
      BY <2>3
    <3>2. PointRight(f, n, j)
      BY <1>0, <2>3 DEF PointsRight
    <3>3. Id[p.by] = f[n].id /\ Kind[p.by] = f[n].kind /\ family_name(p.by) = n /\ Fits(p)
      BY <3>1, <3>2 DEF PointRight
    <3> QED
      BY <1>3, <2>3, <3>3 DEF PointRight
  <2> QED
    BY <1>3, <2>1, <2>2, <2>3
<1>7. ASSUME NEW x, Held(f, x) PROVE Held(g, x)
  <2>1. PICK m \in DOMAIN f : \E i \in DOMAIN f[m].points :
                <<f[m].points[i].by, f[m].points[i].attrs>> = x
    BY <1>7 DEF Held
  <2>2. PICK i \in DOMAIN f[m].points : <<f[m].points[i].by, f[m].points[i].attrs>> = x
    BY <2>1
  <2>3. m \in DOMAIN g
    BY <1>3
  <2>4. \E j \in DOMAIN g[m].points : g[m].points[j] = f[m].points[i]
    BY <1>3
  <2> QED
    BY <2>2, <2>3, <2>4 DEF Held
<1>8. ASSUME NEW x \in DOMAIN value, x[1] = s PROVE Held(g, x)
  <2>1. PICK j \in DOMAIN q : <<q[j].by, q[j].attrs>> = x
    BY <1>1, <1>8
  <2>2. PICK i \in DOMAIN g[n].points : g[n].points[i] = q[j]
    BY <1>3
  <2>3. n \in DOMAIN g
    BY <1>3
  <2> QED
    BY <2>1, <2>2, <2>3 DEF Held
<1>9. ASSUME NEW m \in DOMAIN g
      PROVE  \E t \in read \cup {s} :
                 family_name(t) = m /\ Id[t] = g[m].id /\ Kind[t] = g[m].kind
  <2>1. CASE m = n
    BY <1>3, <2>1
  <2>2. CASE m # n
    BY <1>0, <1>4, <2>2 DEF Opened
  <2> QED
    BY <2>1, <2>2
<1> QED
  BY <1>5, <1>6, <1>7, <1>8, <1>9

\* The scrape goes on, with families g.
ScrapesOn(s, g) ==
    /\ families' = g
    /\ UNCHANGED <<pc, result>>
    /\ \A n \in DOMAIN g : g[n] \in Family
    /\ PointsRight(g)
    /\ \A x : Held(families, x) => Held(g, x)
    /\ \A x \in DOMAIN value : x[1] = s => Held(g, x)
    /\ \A n \in DOMAIN g : \E t \in read' :
          family_name(t) = n /\ Id[t] = g[n].id /\ Kind[t] = g[n].kind

\* The scrape ends with an error.
ScrapeFails(error) ==
    /\ error \in Errors
    /\ Fail(error)
    /\ UNCHANGED families
    /\ error = "FamilyCollision" =>
          \E s, t \in read' : /\ <<Id[s], Kind[s]>> # <<Id[t], Kind[t]>>
                              /\ Claims(s) \cap Claims(t) # {}

LEMMA MergeOutcome ==
    ASSUME ExpositionInv, NEW s \in Sources, Merge(s), read' = read \cup {s}
    PROVE  ScrapesOn(s, families') \/ ScrapeFails("FamilyCollision")
<1> DEFINE n == family_name(s)
           q == SetToSeq(PointsOf(s))
<1>0. q \in Seq(Point) /\ \A m \in DOMAIN families : families[m] \in Family
  BY SourcePoints DEF ExpositionInv, Typed
<1>1. ASSUME Joined(families, families', n, s, q), UNCHANGED <<pc, result>>
      PROVE  ScrapesOn(s, families')
  BY <1>1, MergedRight DEF ScrapesOn
<1>2. CASE /\ n \notin DOMAIN families
           /\ families' = [m \in DOMAIN families \cup {n} |->
                  IF m = n THEN [id |-> Id[s], kind |-> Kind[s], points |-> q]
                  ELSE families[m]]
           /\ UNCHANGED <<pc, result>>
  <2> DEFINE g == [m \in DOMAIN families \cup {n} |->
                     IF m = n THEN [id |-> Id[s], kind |-> Kind[s], points |-> q]
                     ELSE families[m]]
  <2> HIDE DEF n, q
  <2>0. Joined(families, g, n, s, q)
    BY <1>0, <1>2, Opening
  <2>1. Joined(families, families', n, s, q)
    BY <1>2, <2>0, Zenon
  <2> QED
    BY <1>1, <1>2, <2>1
<1>3. CASE /\ n \in DOMAIN families
           /\ Joins(families[n], s)
           /\ families' = [families EXCEPT ![n].points = @ \o q]
           /\ UNCHANGED <<pc, result>>
  <2> HIDE DEF n, q
  <2>1. Joined(families, families', n, s, q)
    BY <1>0, <1>3, Joining
  <2> QED
    BY <1>1, <1>3, <2>1
<1>4. CASE /\ n \in DOMAIN families
           /\ ~Joins(families[n], s)
           /\ Fail("FamilyCollision")
           /\ UNCHANGED families
  <2>1. PICK t \in read : family_name(t) = n /\ Id[t] = families[n].id
                          /\ Kind[t] = families[n].kind
    BY <1>4 DEF ExpositionInv, Opened
  <2>2. <<Id[s], Kind[s]>> # <<Id[t], Kind[t]>>
    BY <1>4, <2>1 DEF Joins
  <2>3. n \o <<>> \in Claims(s) /\ n \o <<>> \in Claims(t)
    BY <2>1 DEF Claims
  <2>4. Claims(s) \cap Claims(t) # {}
    BY <2>3
  <2>5. s \in read' /\ t \in read'
    OBVIOUS
  <2> QED
    BY <1>4, <2>2, <2>4, <2>5 DEF ScrapeFails, Errors
<1> QED
  BY <1>2, <1>3, <1>4, Zenon DEF Merge

LEMMA ScrapeOutcome ==
    ASSUME ExpositionInv, Scrape, NEW s \in Sources, s = sources[next]
    PROVE  ScrapesOn(s, families') \/ \E error : ScrapeFails(error)
<1>1. CASE PointsOf(s) = {} /\ UNCHANGED <<pc, families, result>>
  <2>1. read' = read
    BY <1>1 DEF Scrape
  <2>2. \A x \in DOMAIN value : x[1] # s
    BY <1>1 DEF PointsOf
  <2> QED
    BY <1>1, <2>1, <2>2 DEF ScrapesOn, ExpositionInv, Typed, Opened
<1>2. CASE s \in NonFinite /\ Fail("NonFiniteBoundary") /\ UNCHANGED families
  BY <1>2 DEF ScrapeFails, Errors
<1>3. CASE Fail("EmptyMetricName") /\ UNCHANGED families
  BY <1>3 DEF ScrapeFails, Errors
<1>4. CASE PointsOf(s) # {} /\ Merge(s)
  <2>1. read' = read \cup {s}
    BY <1>4 DEF Scrape
  <2> QED
    BY <1>4, <2>1, MergeOutcome
<1> QED
  BY <1>1, <1>2, <1>3, <1>4, Zenon DEF Scrape

LEMMA ScrapeStep ==
    ASSUME ExpositionInv, Scrape
    PROVE  ExpositionInv'
<1> DEFINE s == sources[next]
<1>1. /\ pc = "scrape" /\ next <= Len(sources) /\ next' = next + 1
      /\ UNCHANGED <<sources, value, begun>>
      /\ read' = read \/ read' = read \cup {s}
  BY DEF Scrape
<1>2. /\ next \in 1 .. Len(sources) /\ next' \in 1 .. Len(sources) + 1 /\ s \in Sources
  BY <1>1 DEF ExpositionInv, Typed, TypeOK
<1>3. result.error = None /\ result.text = Nothing
  BY <1>1 DEF ExpositionInv, Unreturned
<1>4. read' \subseteq Sources
  BY <1>1, <1>2 DEF ExpositionInv, Typed, TypeOK
<1>5. \A x \in DOMAIN begun : x \in DOMAIN value
  BY DEF ExpositionInv, BegunBelow
<1>6. IsValues(value)' /\ IsValues(begun)' /\ IsFiniteSet(DOMAIN value')
  BY <1>1 DEF ExpositionInv, Typed, TypeOK, IsValues
<1>7. ValuesRight' /\ BegunBelow'
  BY <1>1 DEF ExpositionInv, ValuesRight, BegunBelow
<1>8. CASE ScrapesOn(s, families')
  <2>1. /\ \A n \in DOMAIN families' : families'[n] \in Family
        /\ PointsRight(families')
        /\ \A x : Held(families, x) => Held(families', x)
        /\ \A x \in DOMAIN value : x[1] = s => Held(families', x)
        /\ \A n \in DOMAIN families' : \E t \in read' :
              family_name(t) = n /\ Id[t] = families'[n].id /\ Kind[t] = families'[n].kind
        /\ pc' = "scrape" /\ result' = result
    BY <1>1, <1>8 DEF ScrapesOn
  <2>2. Typed'
    <3>1. IsFamilies(families)' /\ IsFamilies(result.text)'
      BY <1>3, <2>1, FamiliesTyped, NothingIsRight
    <3>2. TypeOK'
      <4>1. sources' \in Seq(Sources) /\ next' \in 1 .. Len(sources') + 1
        BY <1>1, <1>2 DEF ExpositionInv, Typed, TypeOK
      <4>2. result'.error \in Errors \cup {None} /\ pc' \in {"idle", "scrape", "render", "returned"}
        BY <1>3, <2>1
      <4> QED
        BY <1>4, <1>6, <3>1, <4>1, <4>2 DEF TypeOK
    <3> QED
      BY <1>3, <1>6, <2>1, <3>2, NothingIsRight DEF Typed
  <2>3. PointsRight(families)'
    BY <1>1, <2>1, FitsStays DEF PointsRight, PointRight
  <2>4. PointsRight(result.text)'
    BY <1>3, <2>1, NothingIsRight DEF PointsRight
  <2>5. Opened'
    BY <2>1 DEF Opened
  <2>6. Unreturned' /\ Checked' /\ CollisionsAreReal'
    BY <2>1, <1>1 DEF ExpositionInv, Unreturned, Checked, CollisionsAreReal
  <2>7. ASSUME NEW x \in DOMAIN begun
        PROVE  Held(families', x) \/ \E k \in next' .. Len(sources) : sources[k] = x[1]
    <3>1. CASE Held(families, x)
      BY <2>1, <3>1
    <3>2. CASE \E k \in next .. Len(sources) : sources[k] = x[1]
      <4>1. PICK k \in next .. Len(sources) : sources[k] = x[1]
        BY <3>2
      <4>2. CASE k = next
        BY <1>5, <2>1, <4>1, <4>2
      <4>3. CASE k # next
        <5>1. k \in next' .. Len(sources)
          BY <1>1, <1>2, <4>3
        <5> QED
          BY <4>1, <5>1
      <4> QED
        BY <4>2, <4>3
    <3> QED
      BY <1>1, <3>1, <3>2 DEF ExpositionInv, Kept
  <2>8. Kept'
    <3>1. DOMAIN begun' = DOMAIN begun /\ sources' = sources
      BY <1>1
    <3> QED
      BY <2>1, <2>7, <3>1 DEF Kept, Held
  <2> QED
    BY <1>7, <2>2, <2>3, <2>4, <2>5, <2>6, <2>8 DEF ExpositionInv
<1>9. CASE \E error : ScrapeFails(error)
  <2>1. PICK error : ScrapeFails(error)
    BY <1>9
  <2>2. /\ pc' = "returned" /\ result'.error = error /\ result'.text = Nothing
        /\ error \in Errors /\ families' = families
    BY <2>1 DEF ScrapeFails, Fail, Return
  <2>3. Typed'
    <3>0. \A n \in DOMAIN families : families[n] \in Family
      BY DEF ExpositionInv, Typed
    <3>1. IsFamilies(families)' /\ IsFamilies(result.text)'
      BY <2>2, <3>0, FamiliesTyped, NothingIsRight
    <3>2. TypeOK'
      <4>1. sources' \in Seq(Sources) /\ next' \in 1 .. Len(sources') + 1
        BY <1>1, <1>2 DEF ExpositionInv, Typed, TypeOK
      <4>2. result'.error \in Errors \cup {None} /\ pc' \in {"idle", "scrape", "render", "returned"}
        BY <2>2
      <4> QED
        BY <1>4, <1>6, <3>1, <4>1, <4>2 DEF TypeOK
    <3> QED
      BY <1>6, <2>2, <3>0, <3>2, NothingIsRight DEF Typed
  <2>4. PointsRight(families)'
    BY <1>1, <2>2, FitsStays DEF ExpositionInv, PointsRight, PointRight
  <2>5. PointsRight(result.text)'
    BY <2>2, NothingIsRight DEF PointsRight
  <2>6. Opened'
    <3>1. \A t \in read : t \in read'
      BY <1>1
    <3> QED
      BY <2>2, <3>1 DEF ExpositionInv, Opened
  <2>7. Unreturned' /\ Checked'
    BY <2>2, NothingIsRight DEF Unreturned, Checked
  <2>8. Kept'
    BY <2>2, NoneIsNoError DEF Kept
  <2>9. CollisionsAreReal'
    BY <2>1, <2>2 DEF ScrapeFails, CollisionsAreReal
  <2> QED
    BY <1>7, <2>3, <2>4, <2>5, <2>6, <2>7, <2>8, <2>9 DEF ExpositionInv
<1> QED
  BY <1>2, <1>8, <1>9, ScrapeOutcome

\* Families hold the points of the sources read, as old as the scrape and as
\* well formed as what it read them from, and what was returned was checked
\* (add_handle, the updates, render).
THEOREM Invariance ==
    Safety => []ExpositionInv
<1>1. ExpositionInv /\ [Next]_vars => ExpositionInv'
  <2> SUFFICES ASSUME ExpositionInv, [Next]_vars PROVE ExpositionInv'
    OBVIOUS
  <2>1. ASSUME NEW s \in Sources, Add(s) PROVE ExpositionInv'
    BY <2>1, AddStep
  <2>2. ASSUME NEW s \in Sources, NEW a \in Attrs,
               NEW x \in (IF Kind[s] = "Histogram" THEN Amounts ELSE {1}), Record(s, a, x)
        PROVE  ExpositionInv'
    BY <2>2, RecordStep
  <2>3. CASE Begin
    BY <2>3, BeginStep
  <2>4. CASE Scrape
    BY <2>4, ScrapeStep
  <2>5. CASE Unlock
    BY <2>5, UnlockStep
  <2>6. CASE Render
    BY <2>6, RenderStep
  <2>7. CASE UNCHANGED vars
    <3>1. UNCHANGED <<sources, value, pc, next, families, result, begun, read>>
      BY <2>7 DEF vars
    <3>2. Typed' /\ ValuesRight' /\ BegunBelow' /\ Opened'
      <4>1. TypeOK'
        BY <3>1 DEF ExpositionInv, Typed, TypeOK
      <4>2. Typed'
        BY <3>1, <4>1 DEF ExpositionInv, Typed
      <4>3. ValuesRight' /\ BegunBelow' /\ Opened'
        BY <3>1 DEF ExpositionInv, ValuesRight, BegunBelow, Opened
      <4> QED
        BY <4>2, <4>3
    <3>3. PointsRight(families)' /\ PointsRight(result.text)'
      BY <3>1, FitsStays DEF ExpositionInv, PointsRight, PointRight
    <3>4. Unreturned' /\ Checked' /\ CollisionsAreReal'
      BY <3>1 DEF ExpositionInv, Unreturned, Checked, CollisionsAreReal
    <3>5. Kept'
      BY <3>1 DEF ExpositionInv, Kept, Held
    <3> QED
      BY <3>2, <3>3, <3>4, <3>5 DEF ExpositionInv
  <2> QED
    BY <2>1, <2>2, <2>3, <2>4, <2>5, <2>6, <2>7, Zenon DEF Next
<1> QED
  BY <1>1, InitRight, PTL DEF Safety

-----------------------------------------------------------------------------
(* What follows                                                            *)

\* The state of a scrape is well formed (TypeOK): the values and the families
\* have what render reads of them.
THEOREM TypeCorrect ==
    Safety => []TypeOK
<1>1. ExpositionInv => TypeOK
  BY DEF ExpositionInv, Typed
<1> QED
  BY <1>1, Invariance, PTL

\* Every sample is under the HELP and TYPE of its own metric, whichever sources
\* shared the family (render merging by family_name and NameIdentity).
THEOREM OneMetricPerFamily ==
    Safety => []FamiliesAreOneMetric
<1>1. ExpositionInv => FamiliesAreOneMetric
  BY DEF ExpositionInv, PointsRight, PointRight, FamiliesAreOneMetric
<1> QED
  BY <1>1, Invariance, PTL

\* render reports a collision of families only when two different metrics lay
\* claim to one name.
THEOREM CollisionsReal ==
    Safety => []CollisionsAreReal
<1>1. ExpositionInv => CollisionsAreReal
  BY DEF ExpositionInv
<1> QED
  BY <1>1, Invariance, PTL

\* In what is compared, a value is between two others.
LEMMA BetweenCounts ==
    ASSUME NEW s \in Sources, NEW u, NEW v, NEW w,
           Numbers(s, u), Numbers(s, v), Numbers(s, w), Below(s, u, v), Below(s, v, w)
    PROVE  \A j \in DOMAIN Counts(Cell(s), w) :
              Counts(Cell(s), v)[j] \in Counts(Cell(s), u)[j] .. Counts(Cell(s), w)[j]
<1>1. CASE Kind[s] = "Histogram"
  <2>1. Cell(s) = "Bucket"
    BY <1>1 DEF Cell
  <2>2. ASSUME NEW x, x.count \in Nat, x.bucket_counts \in [Indices -> Nat]
        PROVE  /\ DOMAIN Counts(Cell(s), x) = 1 .. Len(Boundaries) + 2
               /\ Counts(Cell(s), x)[1] = x.count
               /\ \A i \in Indices : Counts(Cell(s), x)[i + 1] = x.bucket_counts[i]
    <3> DEFINE c == <<x.count>>
               b == x.bucket_counts
    <3>1. Counts(Cell(s), x) = c \o b
      BY <2>1 DEF Counts
    <3>2. c \in Seq(Nat) /\ Len(c) = 1 /\ c[1] = x.count
      BY <2>2
    <3>3. b \in Seq(Nat) /\ Len(b) = Len(Boundaries) + 1
      BY <2>2, Constants DEF Indices
    <3> HIDE DEF c, b
    <3>4. /\ c \o b \in Seq(Nat)
          /\ Len(c \o b) = Len(c) + Len(b)
          /\ \A i \in 1 .. Len(c) + Len(b) : (c \o b)[i] = IF i <= Len(c) THEN c[i] ELSE b[i - Len(c)]
      BY <3>2, <3>3, ConcatProperties
    <3>5. Len(c) + Len(b) = Len(Boundaries) + 2
      BY <3>2, <3>3, Constants
    <3>6. DOMAIN (c \o b) = 1 .. Len(Boundaries) + 2
      BY <3>4, <3>5
    <3>7. (c \o b)[1] = x.count
      BY <3>2, <3>4, <3>5, Constants
    <3>8. ASSUME NEW i \in Indices PROVE (c \o b)[i + 1] = b[i]
      <4>1. PICK k \in 1 .. Len(Boundaries) + 2 : k = i + 1 /\ ~(k <= 1) /\ k - 1 = i
        BY Constants DEF Indices
      <4>2. (c \o b)[k] = IF k <= Len(c) THEN c[k] ELSE b[k - Len(c)]
        BY <3>4, <3>5
      <4> QED
        BY <3>2, <4>1, <4>2
    <3> QED
      BY <3>1, <3>6, <3>7, <3>8 DEF b
  <2> DEFINE U == Counts(Cell(s), u)
             V == Counts(Cell(s), v)
             W == Counts(Cell(s), w)
  <2>3. /\ u.count \in Nat /\ v.count \in Nat /\ w.count \in Nat
        /\ u.bucket_counts \in [Indices -> Nat] /\ v.bucket_counts \in [Indices -> Nat]
        /\ w.bucket_counts \in [Indices -> Nat]
        /\ u.count <= v.count /\ v.count <= w.count
        /\ \A i \in Indices : /\ u.bucket_counts[i] <= v.bucket_counts[i]
                              /\ v.bucket_counts[i] <= w.bucket_counts[i]
    BY <1>1 DEF Numbers, Below, Indices
  <2>4. /\ DOMAIN W = 1 .. Len(Boundaries) + 2
        /\ U[1] = u.count /\ V[1] = v.count /\ W[1] = w.count
        /\ \A i \in Indices : /\ U[i + 1] = u.bucket_counts[i]
                              /\ V[i + 1] = v.bucket_counts[i]
                              /\ W[i + 1] = w.bucket_counts[i]
    BY <2>2, <2>3
  <2> HIDE DEF U, V, W
  <2>5. ASSUME NEW j \in 1 .. Len(Boundaries) + 2
        PROVE  V[j] \in U[j] .. W[j]
    <3>1. CASE j = 1
      BY <2>3, <2>4, <3>1
    <3>2. CASE j # 1
      <4>1. PICK i \in Indices : j = i + 1
        <5>1. j - 1 \in Indices /\ j = j - 1 + 1
          BY <3>2, Constants DEF Indices
        <5> QED
          BY <5>1
      <4>2. /\ u.bucket_counts[i] \in Nat /\ v.bucket_counts[i] \in Nat
            /\ w.bucket_counts[i] \in Nat
        BY <2>3
      <4>3. v.bucket_counts[i] \in u.bucket_counts[i] .. w.bucket_counts[i]
        BY <2>3, <4>2
      <4> QED
        BY <2>4, <4>1, <4>3
    <3> QED
      BY <3>1, <3>2
  <2>6. \A j \in DOMAIN W : V[j] \in U[j] .. W[j]
    BY <2>4, <2>5
  <2> QED
    BY <2>6 DEF U, V, W
<1>2. CASE Kind[s] # "Histogram"
  <2>1. Cell(s) # "Bucket"
    BY <1>2, ExpositionAssumption DEF Cell
  <2>2. \A x : Counts(Cell(s), x) = <<x>>
    BY <2>1 DEF Counts
  <2>3. u \in Int /\ v \in Int /\ w \in Int /\ u <= v /\ v <= w
    BY <1>2 DEF Numbers, Below
  <2>4. v \in u .. w
    BY <2>3
  <2> QED
    BY <2>2, <2>4
<1> QED
  BY <1>1, <1>2

\* What render checked of a family it returns.
LEMMA NoRenderErrors ==
    ASSUME NEW f, RenderErrors(f) = {}
    PROVE  /\ \A i \in DOMAIN f.points : LabelErrors(f.points[i].attrs, f.kind) = {}
           /\ \A i, j \in DOMAIN f.points :
                 Labels(f.points[i].attrs) = Labels(f.points[j].attrs) => i = j
<1> DEFINE labels == {LabelErrors(f.points[i].attrs, f.kind) : i \in DOMAIN f.points}
           same == \E i, j \in DOMAIN f.points :
                      i # j /\ Labels(f.points[i].attrs) = Labels(f.points[j].attrs)
<1>1. RenderErrors(f) = IF UNION labels # {} THEN UNION labels
                        ELSE IF same THEN {"DuplicateSeries"} ELSE {}
  BY Zenon DEF RenderErrors
<1> HIDE DEF same
<1>2. (UNION labels) = {}
  <2> HIDE DEF labels
  <2> QED
    BY <1>1
<1>3. ~same
  <2> HIDE DEF labels
  <2> QED
    BY <1>1, <1>2
<1>4. \A i \in DOMAIN f.points : LabelErrors(f.points[i].attrs, f.kind) = {}
  BY <1>2
<1> QED
  BY <1>3, <1>4 DEF same

\* A text shows each series that existed when its scrape began, once, with a
\* value between the one it had then and the one it has now, whatever is
\* recorded or added while render goes from source to source.
THEOREM EverythingShown ==
    Safety => []NothingHidden
<1>1. ASSUME ExpositionInv, pc = "returned", result.error = None, NEW x \in DOMAIN begun
      PROVE  LET text == result.text
                 at == UNION {{<<n, i>> : i \in {i \in DOMAIN text[n].points :
                                   <<text[n].points[i].by, text[n].points[i].attrs>> = x}} :
                              n \in DOMAIN text}
                 counts(v) == Counts(Cell(x[1]), v)
             IN  /\ Cardinality(at) = 1
                 /\ \A y \in at : \A j \in DOMAIN counts(value[x]) :
                       counts(text[y[1]].points[y[2]].value)[j]
                           \in counts(begun[x])[j] .. counts(value[x])[j]
  <2> DEFINE text == result.text
             Shows(n, i) == /\ n \in DOMAIN text /\ i \in DOMAIN text[n].points
                            /\ <<text[n].points[i].by, text[n].points[i].attrs>> = x
             at == UNION {{<<n, i>> : i \in {i \in DOMAIN text[n].points :
                                   <<text[n].points[i].by, text[n].points[i].attrs>> = x}} :
                              n \in DOMAIN text}
  <2>1. \A y : y \in at <=> \E n, i : Shows(n, i) /\ y = <<n, i>>
    OBVIOUS
  <2> HIDE DEF at
  <2>2. x \in Sources \X Attrs /\ IsValue(Cell(x[1]), begun[x]) /\ x \in DOMAIN value
        /\ IsValue(Cell(x[1]), value[x])
    BY <1>1 DEF ExpositionInv, Typed, TypeOK, IsValues, BegunBelow
  <2>3. PICK n, i : Shows(n, i)
    BY <1>1 DEF ExpositionInv, Kept, Held
  <2>4. ASSUME NEW m, NEW j, Shows(m, j)
        PROVE  /\ text[m].points[j].by = x[1]
               /\ family_name(x[1]) = m
               /\ text[m].points[j] \in Point
               /\ Fits(text[m].points[j])
    <3>1. PointRight(text, m, j)
      BY <1>1, <2>4 DEF ExpositionInv, PointsRight
    <3>2. text[m].points[j].by = x[1]
      BY <2>4
    <3>3. text[m].points[j] \in Point
      BY <1>1, <2>4 DEF ExpositionInv, Typed, Family
    <3> QED
      BY <3>1, <3>2, <3>3 DEF PointRight
  <2>5. ASSUME NEW m, NEW j, Shows(m, j)
        PROVE  m = n /\ j = i
    <3>1. m = n
      BY <2>3, <2>4, <2>5
    <3>2. RenderErrors(text[n]) = {}
      BY <1>1, <2>3 DEF ExpositionInv, Checked, Clean
    <3>3. text[n].points[j].attrs = text[n].points[i].attrs
      BY <2>3, <2>5, <3>1
    <3>4. j = i
      BY <2>3, <2>5, <3>1, <3>2, <3>3, NoRenderErrors
    <3> QED
      BY <3>1, <3>4
  <2>6. at = {<<n, i>>}
    BY <2>1, <2>3, <2>5
  <2>7. Cardinality(at) = 1
    BY <2>6, FS_Singleton
  <2>8. ASSUME NEW y \in at
        PROVE  \A j \in DOMAIN Counts(Cell(x[1]), value[x]) :
                  Counts(Cell(x[1]), text[y[1]].points[y[2]].value)[j]
                      \in Counts(Cell(x[1]), begun[x])[j] .. Counts(Cell(x[1]), value[x])[j]
    <3> DEFINE p == text[y[1]].points[y[2]]
    <3>1. p = text[n].points[i]
      BY <2>6
    <3>2. p \in Point /\ Fits(p) /\ p.by = x[1] /\ <<p.by, p.attrs>> = x
      BY <2>3, <2>4, <3>1
    <3> HIDE DEF p
    <3>3. Below(x[1], begun[x], p.value) /\ Below(x[1], p.value, value[x])
      BY <1>1, <3>2 DEF Fits
    <3>4. /\ Numbers(x[1], begun[x]) /\ Numbers(x[1], p.value) /\ Numbers(x[1], value[x])
          /\ x[1] \in Sources
      BY <2>2, <3>2, PointHasNumbers, ValuesHaveNumbers
    <3>5. \A j \in DOMAIN Counts(Cell(x[1]), value[x]) :
              Counts(Cell(x[1]), p.value)[j]
                  \in Counts(Cell(x[1]), begun[x])[j] .. Counts(Cell(x[1]), value[x])[j]
      BY <3>3, <3>4, BetweenCounts
    <3> QED
      BY <3>5 DEF p
  <2> QED
    BY <2>7, <2>8 DEF at
<1>2. ExpositionInv => NothingHidden
  BY <1>1, Zenon DEF NothingHidden
<1> QED
  BY <1>2, Invariance, PTL

-----------------------------------------------------------------------------
(* A text is an exposition                                                 *)

Le(labels, bound) == labels \cup {<< <<"le">>, bound >>}

\* Line `at` of the buckets of v shows the bound and the count n.
AtBound(v, at, bound, n) ==
    \/ at = Len(Boundaries) + 1 /\ bound = Infinite /\ n = v.count
    \/ at \in DOMAIN Boundaries /\ bound = Bounds[at] /\ n = cumulative(v, at)

Unreserved(labels) == \A l \in labels : l[1] # <<"le">>

LEMMA LeInjective ==
    ASSUME NEW l, NEW m, Unreserved(l), Unreserved(m), NEW b, NEW c, Le(l, b) = Le(m, c)
    PROVE  l = m /\ b = c
<1> DEFINE x == << <<"le">>, b >>
           y == << <<"le">>, c >>
<1>1. x[1] = <<"le">> /\ y[1] = <<"le">> /\ x[2] = b /\ y[2] = c
  OBVIOUS
<1>2. x \notin l /\ y \notin m /\ x \notin m /\ y \notin l
  BY <1>1 DEF Unreserved
<1> HIDE DEF x, y
<1>3. l \cup {x} = m \cup {y}
  BY DEF Le, x, y
<1>4. x = y
  BY <1>2, <1>3
<1>5. l = m
  BY <1>2, <1>3, <1>4
<1> QED
  BY <1>1, <1>4, <1>5

LEMMA LeOf ==
    ASSUME NEW l, Unreserved(l), NEW b
    PROVE  (CHOOSE x \in Le(l, b) \ l : TRUE)[2] = b
<1> DEFINE y == << <<"le">>, b >>
<1>1. y[1] = <<"le">> /\ y[2] = b
  OBVIOUS
<1>2. y \notin l
  BY <1>1 DEF Unreserved
<1> HIDE DEF y
<1>3. Le(l, b) \ l = {y}
  BY <1>2 DEF Le, y
<1>4. (CHOOSE x \in {y} : TRUE) = y
  OBVIOUS
<1> QED
  BY <1>1, <1>3, <1>4

LEMMA BoundsAre ==
    /\ DOMAIN Bounds = 1 .. Len(Boundaries) /\ Len(Bounds) = Len(Boundaries)
    /\ \A i \in DOMAIN Boundaries : /\ Bounds[i] = to_f64(Boundaries[i]) /\ Bounds[i] \in Int
                                     /\ Bounds[i] # Infinite
    /\ \A i, j \in DOMAIN Boundaries : i <= j => Bounds[i] <= Bounds[j]
<1>1. \A i \in DOMAIN Boundaries : Boundaries[i] \in Int
  BY ExpositionAssumption
<1>2. \A i \in DOMAIN Boundaries : Bounds[i] = to_f64(Boundaries[i]) /\ Bounds[i] \in Int
  BY <1>1, Rounding DEF Bounds
<1>3. DOMAIN Bounds = 1 .. Len(Boundaries) /\ Len(Bounds) = Len(Boundaries)
  <2>1. DOMAIN Bounds = 1 .. Len(Boundaries)
    BY Constants DEF Bounds
  <2>2. Bounds \in [1 .. Len(Boundaries) -> Int]
    BY <1>2, <2>1, Constants DEF Bounds
  <2> QED
    BY <2>1, <2>2, Constants, LenProperties, SeqDef
<1>4. ASSUME NEW i \in DOMAIN Boundaries, NEW j \in DOMAIN Boundaries, i <= j
      PROVE  Bounds[i] <= Bounds[j]
  <2>1. i \in Int /\ j \in Int
    BY Constants
  <2>2. Boundaries[i] <= Boundaries[j]
    BY <1>1, <1>4, <2>1, ExpositionAssumption
  <2> QED
    BY <1>1, <1>2, <2>2, Rounding
<1> QED
  BY <1>2, <1>3, <1>4, ExpositionAssumption

LEMMA BucketsGrow ==
    ASSUME NEW v \in HistogramValue, SumOf(v.bucket_counts, Indices) = v.count,
           NEW p, NEW b, NEW n, AtBound(v, p, b, n), NEW q, NEW c, NEW m, AtBound(v, q, c, m),
           Lower(b, c)
    PROVE  n <= m
<1> DEFINE f == v.bucket_counts
           L == Len(Boundaries) + 1
<1>1. f \in [1 .. L -> Nat] /\ v.count \in Nat /\ L \in Nat
  BY Constants DEF HistogramValue
<1>2. \A i \in 1 .. L : f[i] \in Nat
  BY <1>1
<1>3. \A i \in DOMAIN Boundaries : cumulative(v, i) = SumOf(f, 1 .. i)
  BY DEF cumulative, SumOf
<1>4. SumOf(f, 1 .. L) = v.count
  BY DEF Indices
<1>5. \A i \in DOMAIN Boundaries : i \in 0 .. L /\ i <= L
  BY Constants
<1> HIDE DEF f, L
<1>6. ASSUME NEW i \in 0 .. L, NEW j \in 0 .. L, i <= j
      PROVE  SumOf(f, 1 .. i) \in Nat /\ SumOf(f, 1 .. i) <= SumOf(f, 1 .. j)
  BY <1>1, <1>2, <1>6, SumsGrow
<1>7. \A i \in DOMAIN Boundaries : cumulative(v, i) \in Nat /\ cumulative(v, i) <= v.count
  <2> TAKE i \in DOMAIN Boundaries
  <2>1. L \in 0 .. L
    BY <1>1
  <2>2. SumOf(f, 1 .. i) \in Nat /\ SumOf(f, 1 .. i) <= SumOf(f, 1 .. L)
    BY <1>5, <1>6, <2>1
  <2> QED
    BY <1>3, <1>4, <2>2
<1>8. \A i, j \in DOMAIN Boundaries : i <= j => cumulative(v, i) <= cumulative(v, j)
  <2> TAKE i, j \in DOMAIN Boundaries
  <2> HAVE i <= j
  <2>1. SumOf(f, 1 .. i) <= SumOf(f, 1 .. j)
    BY <1>5, <1>6
  <2> QED
    BY <1>3, <2>1
<1>9. b # Infinite /\ p \in DOMAIN Boundaries /\ b = Bounds[p] /\ n = cumulative(v, p)
  BY DEF AtBound, Lower
<1>10. CASE c = Infinite
  <2>1. m = v.count
    BY <1>10, BoundsAre DEF AtBound
  <2> QED
    BY <1>7, <1>9, <2>1
<1>11. CASE c # Infinite
  <2>1. b < c /\ q \in DOMAIN Boundaries /\ c = Bounds[q] /\ m = cumulative(v, q)
    BY <1>11 DEF AtBound, Lower
  <2>2. p \in Int /\ q \in Int /\ b \in Int /\ c \in Int
    BY <1>9, <2>1, Constants, BoundsAre
  <2>3. q <= p => c <= b
    BY <1>9, <2>1, BoundsAre
  <2>4. p <= q
    BY <2>1, <2>2, <2>3
  <2> QED
    BY <1>8, <1>9, <2>1, <2>4
<1> QED
  BY <1>10, <1>11

\* What a line of a histogram says.
Says(k, labels, v) ==
    /\ k = [suffix |-> k.suffix, at |-> k.at, labels |-> k.labels, number |-> k.number]
    /\ k.suffix \in Lines("Histogram")
    /\ k.suffix = <<"_", "bucket">> =>
          \E b : k.labels = Le(labels, b) /\ AtBound(v, k.at, b, k.number)
    /\ k.suffix # <<"_", "bucket">> => k.labels = labels /\ k.at = 1
    /\ k.suffix = <<"_", "sum">> => k.number = v.sum
    /\ k.suffix = <<"_", "count">> => k.number = v.count

LEMMA HistogramLinesSay ==
    ASSUME NEW labels, NEW v \in HistogramValue, NEW k \in HistogramLines(labels, v)
    PROVE  Says(k, labels, v)
<1> DEFINE line(suffix, at, shown, n) ==
               [suffix |-> suffix, at |-> at, labels |-> shown, number |-> n]
<1>0. /\ v.boundaries = Bounds /\ DOMAIN v.boundaries = DOMAIN Boundaries
      /\ Len(v.boundaries) = Len(Boundaries)
  BY BoundsAre, Constants DEF HistogramValue
<1>1. <<"_", "bucket">> # <<"_", "sum">> /\ <<"_", "bucket">> # <<"_", "count">>
      /\ <<"_", "sum">> # <<"_", "count">>
  OBVIOUS
<1>2. /\ <<"_", "bucket">> \in Lines("Histogram") /\ <<"_", "sum">> \in Lines("Histogram")
      /\ <<"_", "count">> \in Lines("Histogram")
  BY DEF Lines
<1>3. \/ \E i \in DOMAIN Boundaries :
            k = line(<<"_", "bucket">>, i, Le(labels, Bounds[i]), cumulative(v, i))
      \/ k = line(<<"_", "bucket">>, Len(Boundaries) + 1, Le(labels, Infinite), v.count)
      \/ k = line(<<"_", "sum">>, 1, labels, v.sum)
      \/ k = line(<<"_", "count">>, 1, labels, v.count)
  BY <1>0 DEF HistogramLines, Le
<1>4. CASE \E i \in DOMAIN Boundaries :
              k = line(<<"_", "bucket">>, i, Le(labels, Bounds[i]), cumulative(v, i))
  <2>1. PICK i \in DOMAIN Boundaries :
              k = line(<<"_", "bucket">>, i, Le(labels, Bounds[i]), cumulative(v, i))
    BY <1>4
  <2>2. AtBound(v, i, Bounds[i], cumulative(v, i))
    BY DEF AtBound
  <2> QED
    BY <1>1, <1>2, <2>1, <2>2 DEF Says
<1>5. CASE k = line(<<"_", "bucket">>, Len(Boundaries) + 1, Le(labels, Infinite), v.count)
  <2>1. AtBound(v, Len(Boundaries) + 1, Infinite, v.count)
    BY DEF AtBound
  <2> QED
    BY <1>1, <1>2, <1>5, <2>1 DEF Says
<1>6. CASE k = line(<<"_", "sum">>, 1, labels, v.sum)
  BY <1>1, <1>2, <1>6 DEF Says
<1>7. CASE k = line(<<"_", "count">>, 1, labels, v.count)
  BY <1>1, <1>2, <1>7 DEF Says
<1> QED
  BY <1>3, <1>4, <1>5, <1>6, <1>7

LEMMA LabelsUnreserved ==
    ASSUME NEW a, LabelErrors(a, "Histogram") = {}
    PROVE  Unreserved(Labels(a))
<1> SUFFICES ASSUME NEW l \in Labels(a), l[1] = <<"le">> PROVE FALSE
  BY DEF Unreserved
<1>1. "LabelCollision" \in LabelErrors(a, "Histogram")
  BY DEF LabelErrors
<1> QED
  BY <1>1

\* A family as render returns it.
Sound(f) ==
    /\ f \in Family
    /\ RenderErrors(f) = {}
    /\ \A i \in DOMAIN f.points :
          /\ Kind[f.points[i].by] = f.kind
          /\ Right(f.points[i].by, f.points[i].value)

LEMMA HistogramPoints ==
    ASSUME NEW f, Sound(f), f.kind = "Histogram", NEW i \in DOMAIN f.points
    PROVE  /\ f.points[i].value \in HistogramValue
           /\ SumOf(f.points[i].value.bucket_counts, Indices) = f.points[i].value.count
           /\ Unreserved(Labels(f.points[i].attrs))
           /\ PointLines(f.kind, f.points[i])
                 = HistogramLines(Labels(f.points[i].attrs), f.points[i].value)
<1> DEFINE p == f.points[i]
<1>1. Kind[p.by] = "Histogram" /\ Right(p.by, p.value) /\ RenderErrors(f) = {}
  BY DEF Sound
<1>2. p \in Point
  <2>1. f.points \in Seq(Point)
    BY DEF Sound, Family
  <2> QED
    BY <2>1
<1> HIDE DEF p
<1>3. p.value \in HistogramValue
  BY <1>1, <1>2 DEF Point, IsPoint
<1>4. SumOf(p.value.bucket_counts, Indices) = p.value.count
  BY <1>1 DEF Right, Indices
<1>5. LabelErrors(p.attrs, "Histogram") = {}
  BY <1>1, NoRenderErrors DEF p
<1>6. Unreserved(Labels(p.attrs))
  BY <1>5, LabelsUnreserved
<1>7. PointLines(f.kind, p) = HistogramLines(Labels(p.attrs), p.value)
  BY Zenon DEF PointLines
<1> QED
  BY <1>3, <1>4, <1>6, <1>7 DEF p

\* Two boundaries that are one f64.
Same(a, b) == /\ a \in DOMAIN Boundaries /\ b \in DOMAIN Boundaries
              /\ a # b /\ to_f64(Boundaries[a]) = to_f64(Boundaries[b])

\* Within a family, the suffix and the labels tell a line from the others.
LEMMA LinesDistinct ==
    ASSUME NEW f, Sound(f), NEW i \in DOMAIN f.points, NEW j \in DOMAIN f.points,
           NEW k \in PointLines(f.kind, f.points[i]), NEW l \in PointLines(f.kind, f.points[j])
    PROVE  /\ k.suffix \in Lines(f.kind)
           /\ k.suffix = l.suffix /\ k.labels = l.labels => i = j /\ (k = l \/ Same(k.at, l.at))
<1> DEFINE p == f.points[i]
           q == f.points[j]
<1>0. Labels(p.attrs) = Labels(q.attrs) => i = j
  BY NoRenderErrors DEF Sound
<1>1. CASE f.kind = "Histogram"
  <2>1. /\ p.value \in HistogramValue /\ q.value \in HistogramValue
        /\ SumOf(p.value.bucket_counts, Indices) = p.value.count
        /\ Unreserved(Labels(p.attrs)) /\ Unreserved(Labels(q.attrs))
        /\ k \in HistogramLines(Labels(p.attrs), p.value)
        /\ l \in HistogramLines(Labels(q.attrs), q.value)
    BY <1>1, HistogramPoints
  <2>0. Says(k, Labels(p.attrs), p.value) /\ Says(l, Labels(q.attrs), q.value)
    BY <2>1, HistogramLinesSay
  <2> HIDE DEF p, q
  <2>2. k.suffix \in Lines("Histogram")
    BY <2>0 DEF Says
  <2> SUFFICES ASSUME k.suffix = l.suffix, k.labels = l.labels
               PROVE  i = j /\ (k = l \/ Same(k.at, l.at))
    BY <1>1, <2>2
  <2>3. /\ k = [suffix |-> k.suffix, at |-> k.at, labels |-> k.labels, number |-> k.number]
        /\ l = [suffix |-> l.suffix, at |-> l.at, labels |-> l.labels, number |-> l.number]
    BY <2>0 DEF Says
  <2>4. CASE k.suffix = <<"_", "bucket">>
    <3>1. PICK b : k.labels = Le(Labels(p.attrs), b) /\ AtBound(p.value, k.at, b, k.number)
      BY <2>0, <2>4 DEF Says
    <3>2. PICK c : l.labels = Le(Labels(q.attrs), c) /\ AtBound(q.value, l.at, c, l.number)
      BY <2>0, <2>4 DEF Says
    <3>3. Labels(p.attrs) = Labels(q.attrs) /\ b = c
      <4>1. Le(Labels(p.attrs), b) = Le(Labels(q.attrs), c)
        BY <3>1, <3>2
      <4>2. Unreserved(Labels(p.attrs)) /\ Unreserved(Labels(q.attrs))
        BY <2>1
      <4> QED
        BY <4>1, <4>2, LeInjective
    <3>4. i = j /\ p = q
      BY <1>0, <3>3 DEF p, q
    <3>5. AtBound(p.value, k.at, b, k.number) /\ AtBound(p.value, l.at, b, l.number)
      BY <3>1, <3>2, <3>3, <3>4
    <3>6. CASE k.at = l.at
      <4>1. k.number = l.number
        BY <3>5, <3>6, Constants DEF AtBound
      <4> QED
        BY <2>3, <3>4, <3>6, <4>1
    <3>7. CASE k.at # l.at
      <4>1. b # Infinite
        BY <3>5, <3>7, BoundsAre DEF AtBound
      <4>2. Same(k.at, l.at)
        BY <3>5, <3>7, <4>1, BoundsAre DEF AtBound, Same
      <4> QED
        BY <3>4, <4>2
    <3> QED
      BY <3>6, <3>7
  <2>5. CASE k.suffix # <<"_", "bucket">>
    <3>1. k.labels = Labels(p.attrs) /\ l.labels = Labels(q.attrs)
      BY <2>0, <2>5 DEF Says
    <3>2. i = j /\ p = q
      BY <1>0, <3>1 DEF p, q
    <3>3. k.suffix = <<"_", "sum">> \/ k.suffix = <<"_", "count">>
      BY <2>2, <2>5 DEF Lines
    <3>4. k.number = l.number
      <4>1. CASE k.suffix = <<"_", "sum">>
        BY <2>0, <3>2, <4>1 DEF Says
      <4>2. CASE k.suffix = <<"_", "count">>
        BY <2>0, <3>2, <4>2 DEF Says
      <4> QED
        BY <3>3, <4>1, <4>2
    <3>5. k.at = l.at
      BY <2>0, <2>5 DEF Says
    <3> QED
      BY <2>3, <3>2, <3>4, <3>5
  <2> QED
    BY <2>4, <2>5
<1>2. CASE f.kind # "Histogram"
  <2>1. /\ k = [suffix |-> <<>>, at |-> 1, labels |-> Labels(p.attrs), number |-> p.value]
        /\ l = [suffix |-> <<>>, at |-> 1, labels |-> Labels(q.attrs), number |-> q.value]
    BY <1>2 DEF PointLines
  <2>2. Lines(f.kind) = {<<>>}
    BY <1>2 DEF Lines
  <2>3. k.suffix = <<>> /\ k.labels = Labels(p.attrs) /\ l.labels = Labels(q.attrs)
    BY <2>1
  <2>4. k.labels = l.labels => i = j
    BY <1>0, <2>3
  <2>5. i = j => k = l
    BY <2>1
  <2> QED
    BY <2>2, <2>3, <2>4, <2>5
<1> QED
  BY <1>1, <1>2

\* A text as render returns it.
SoundText(text) ==
    /\ ~Collides(text)
    /\ \A n \in DOMAIN text :
          Sound(text[n]) /\ \A i \in DOMAIN text[n].points : n \in Seq(Word)

\* Line l of a text is line k of point i of family n.
IsLine(text, l, n, i, k) ==
    /\ n \in DOMAIN text
    /\ i \in DOMAIN text[n].points
    /\ k \in PointLines(text[n].kind, text[n].points[i])
    /\ l = [family |-> n, index |-> i, name |-> n \o k.suffix,
            at |-> k.at, labels |-> k.labels, number |-> k.number]

LEMMA LinesAre ==
    ASSUME NEW text, NEW l \in LinesOf(text)
    PROVE  \E n, i, k : IsLine(text, l, n, i, k)
<1>1. PICK n \in DOMAIN text :
          l \in UNION {{[family |-> n, index |-> i, name |-> n \o k.suffix,
                         at |-> k.at, labels |-> k.labels, number |-> k.number] :
                            k \in PointLines(text[n].kind, text[n].points[i])} :
                        i \in DOMAIN text[n].points}
  BY DEF LinesOf
<1>2. PICK i \in DOMAIN text[n].points :
          l \in {[family |-> n, index |-> i, name |-> n \o k.suffix,
                  at |-> k.at, labels |-> k.labels, number |-> k.number] :
                     k \in PointLines(text[n].kind, text[n].points[i])}
  BY <1>1
<1> QED
  BY <1>2 DEF IsLine

LEMMA NamesApart ==
    ASSUME NEW text, SoundText(text), NEW l, NEW m, NEW n, NEW o, NEW i, NEW j, NEW k, NEW q,
           IsLine(text, l, n, i, k), IsLine(text, m, o, j, q)
    PROVE  /\ l.name = m.name => n = o /\ k.suffix = q.suffix
           /\ l.name \in DOMAIN text => n = l.name
<1>1. /\ n \in DOMAIN text /\ o \in DOMAIN text
      /\ l.name = n \o k.suffix /\ m.name = o \o q.suffix
  BY DEF IsLine
<1>2. k.suffix \in Lines(text[n].kind) /\ q.suffix \in Lines(text[o].kind)
  <2>1. Sound(text[n]) /\ Sound(text[o])
    BY <1>1 DEF SoundText
  <2> QED
    BY <2>1, LinesDistinct DEF IsLine
<1>3. k.suffix \in suffixes(text[n].kind) /\ q.suffix \in suffixes(text[o].kind)
  BY <1>2, NamesAreNames
<1>4. /\ k.suffix \in Seq(Word) /\ q.suffix \in Seq(Word)
      /\ \A r \in DOMAIN text : <<>> \in suffixes(text[r].kind)
  BY <1>3, NamesAreNames
<1>5. n \in Seq(Word)
  BY DEF SoundText, IsLine
<1>6. \A a, b \in DOMAIN text : a # b =>
          \A x \in suffixes(text[a].kind), y \in suffixes(text[b].kind) : a \o x # b \o y
  BY DEF SoundText, Collides
<1>7. l.name = m.name => n = o
  BY <1>1, <1>3, <1>6
<1>8. ASSUME n \o k.suffix = n \o q.suffix PROVE k.suffix = q.suffix
  BY <1>4, <1>5, <1>8, ConcatSimplifications
<1>9. ASSUME l.name \in DOMAIN text PROVE n = l.name
  <2>1. l.name = l.name \o <<>>
    BY <1>1, <1>4, <1>5, ConcatProperties, ConcatEmptySeq
  <2> QED
    BY <1>1, <1>3, <1>4, <1>6, <1>9, <2>1
<1> QED
  BY <1>1, <1>7, <1>8, <1>9

LEMMA BucketsCumulative ==
    ASSUME NEW text, NEW n \in DOMAIN text, Sound(text[n]), text[n].kind = "Histogram",
           NEW i \in DOMAIN text[n].points
    PROVE  Cumulative(text, n, i)
<1> DEFINE p == text[n].points[i]
           labels == Labels(p.attrs)
           lines == PointLines("Histogram", p)
           buckets == {l \in lines : l.suffix = <<"_", "bucket">>}
           le(l) == (CHOOSE x \in l.labels \ labels : TRUE)[2]
<1>1. /\ p.value \in HistogramValue
      /\ SumOf(p.value.bucket_counts, Indices) = p.value.count
      /\ Unreserved(labels)
      /\ lines = HistogramLines(labels, p.value)
  BY HistogramPoints
<1> HIDE DEF p
<1>2. ASSUME NEW k \in lines PROVE Says(k, labels, p.value)
  <2> HIDE DEF labels, lines
  <2> QED
    BY <1>1, <1>2, HistogramLinesSay
<1> HIDE DEF lines, labels
<1>3. ASSUME NEW k \in buckets PROVE AtBound(p.value, k.at, le(k), k.number)
  <2>1. PICK b : k.labels = Le(labels, b) /\ AtBound(p.value, k.at, b, k.number)
    BY <1>2 DEF Says
  <2>2. (CHOOSE x \in Le(labels, b) \ labels : TRUE)[2] = b
    BY <1>1, LeOf
  <2>3. le(k) = b
    BY <2>1, <2>2, Zenon
  <2> QED
    BY <2>1, <2>3, Zenon
<1> HIDE DEF le
<1>4. ASSUME NEW k \in buckets, NEW m \in buckets, Lower(le(k), le(m))
      PROVE  k.number <= m.number
  <2>1. AtBound(p.value, k.at, le(k), k.number) /\ AtBound(p.value, m.at, le(m), m.number)
    BY <1>3, Zenon
  <2> QED
    BY <1>1, <1>4, <2>1, BucketsGrow
<1>5. ASSUME NEW k \in lines, NEW m \in buckets, k.suffix = <<"_", "count">>, le(m) = Infinite
      PROVE  k.number = m.number
  <2>1. AtBound(p.value, m.at, Infinite, m.number)
    <3>1. AtBound(p.value, m.at, le(m), m.number)
      BY <1>3, Zenon
    <3> QED
      BY <1>5, <3>1, Zenon
  <2>2. m.number = p.value.count
    BY <2>1, BoundsAre DEF AtBound
  <2>3. k.number = p.value.count
    BY <1>2, <1>5 DEF Says
  <2> QED
    BY <2>2, <2>3
<1> QED
  BY <1>4, <1>5, Zenon DEF Cumulative, lines, labels, le, p

\* What render returns is an exposition Prometheus accepts: its names are
\* those of one family, its lines differ in their names or their labels, but
\* for those of two boundaries that are the same f64, and the buckets of its
\* histograms are cumulative (render, Metric::render_into,
\* HistogramValue::render_into).
THEOREM TextsValid ==
    Safety => []ValidExposition
<1>1. ASSUME ExpositionInv PROVE ValidExposition
  <2> DEFINE text == result.text
  <2>1. SoundText(text)
    <3>1. ~Collides(text) /\ \A n \in DOMAIN text : RenderErrors(text[n]) = {}
      BY <1>1, Zenon DEF ExpositionInv, Checked, Clean
    <3>2. \A n \in DOMAIN text : text[n] \in Family
      BY <1>1 DEF ExpositionInv, Typed
    <3>3. \A n \in DOMAIN text : \A i \in DOMAIN text[n].points :
              /\ Kind[text[n].points[i].by] = text[n].kind
              /\ Right(text[n].points[i].by, text[n].points[i].value)
              /\ family_name(text[n].points[i].by) = n
      BY <1>1 DEF ExpositionInv, PointsRight, PointRight, Fits
    <3>4. ASSUME NEW n \in DOMAIN text, NEW i \in DOMAIN text[n].points
          PROVE  n \in Seq(Word)
      <4>1. text[n].points[i] \in Point
        BY <3>2 DEF Family
      <4>2. text[n].points[i].by \in Sources
        BY <4>1 DEF Point
      <4> QED
        BY <3>3, <4>2, NamesAreNames
    <3> QED
      BY <3>1, <3>2, <3>3, <3>4 DEF SoundText, Sound
  <2> HIDE DEF text
  <2>2. ASSUME NEW l \in LinesOf(text), NEW m \in LinesOf(text)
        PROVE  /\ l.name = m.name /\ l.labels = m.labels => l = m \/ OneBound(l, m)
               /\ l.name = m.name => l.family = m.family
               /\ l.name \in DOMAIN text => l.family = l.name
    <3>1. PICK n, i, k : IsLine(text, l, n, i, k)
      BY LinesAre
    <3>2. PICK o, j, q : IsLine(text, m, o, j, q)
      BY LinesAre
    <3>3. /\ l.name = m.name => n = o /\ k.suffix = q.suffix
          /\ l.name \in DOMAIN text => n = l.name
      BY <2>1, <3>1, <3>2, NamesApart
    <3>4. /\ l.family = n /\ l.labels = k.labels
          /\ m.family = o /\ m.labels = q.labels
          /\ l.index = i /\ m.index = j /\ l.at = k.at /\ m.at = q.at
      BY <3>1, <3>2 DEF IsLine
    <3>5. ASSUME l.name = m.name, l.labels = m.labels PROVE l = m \/ OneBound(l, m)
      <4>1. n = o /\ k.suffix = q.suffix /\ k.labels = q.labels
        BY <3>3, <3>4, <3>5
      <4>2. /\ Sound(text[n]) /\ i \in DOMAIN text[n].points /\ j \in DOMAIN text[n].points
            /\ k \in PointLines(text[n].kind, text[n].points[i])
            /\ q \in PointLines(text[n].kind, text[n].points[j])
        BY <2>1, <3>1, <3>2, <4>1 DEF IsLine, SoundText
      <4>3. i = j /\ (k = q \/ Same(k.at, q.at))
        BY <4>1, <4>2, LinesDistinct
      <4>4. k = q => l = m
        BY <3>1, <3>2, <4>1, <4>3 DEF IsLine
      <4>5. Same(k.at, q.at) => OneBound(l, m)
        BY <3>4, <4>1, <4>3 DEF Same, OneBound
      <4> QED
        BY <4>3, <4>4, <4>5
    <3> QED
      BY <3>3, <3>4, <3>5
  <2>3. ASSUME NEW n \in DOMAIN text, text[n].kind = "Histogram",
               NEW i \in DOMAIN text[n].points
        PROVE  Cumulative(text, n, i)
    <3>1. Sound(text[n])
      BY <2>1 DEF SoundText
    <3> QED
      BY <2>3, <3>1, BucketsCumulative
  <2> QED
    BY <2>2, <2>3, Zenon DEF ValidExposition, text
<1> QED
  BY <1>1, Invariance, PTL
=============================================================================
