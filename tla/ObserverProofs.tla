--------------------------- MODULE ObserverProofs ---------------------------
(***************************************************************************)
(* Proofs about Observer: for any metric, calls and observers, what is     *)
(* exported of them is well formed, in order, and no more than was added.  *)
(***************************************************************************)
EXTENDS Observer, CommunityFacts, SequenceTheorems

-----------------------------------------------------------------------------
(* Values                                                                  *)

\* Only a gauge is negative, and a u64 is one.
Sound(sort, c, v) ==
    /\ IsValue(c, v)
    /\ c # "Bucket" /\ sort # "Gauge" => v >= 0
    /\ c = "AtomicU64" => v \in 0 .. Modulus - 1

LEMMA Constants ==
    /\ Len(Boundaries) \in Nat /\ DOMAIN Boundaries = 1 .. Len(Boundaries)
    /\ Modulus \in Nat /\ Modulus > 1
    /\ None \notin Int /\ None \notin Histograms
    /\ MaxU32 \in Nat
BY WireAssumption

LEMMA InitialSound ==
    ASSUME NEW sort, NEW c \in Cells
    PROVE  Sound(sort, c, Initial(c))
<1>1. CASE c = "Bucket"
  BY <1>1, Constants DEF Sound, Initial, IsValue, Histograms
<1>2. CASE c # "Bucket"
  BY <1>2, Constants DEF Sound, Initial, IsValue
<1> QED
  BY <1>1, <1>2

LEMMA PlusSound ==
    ASSUME NEW sort, NEW c \in Cells, NEW v, Sound(sort, c, v), NEW x \in Int,
           c = "Bucket" \/ sort # "Gauge" => x \in Nat
    PROVE  Sound(sort, c, Plus(c, v, x))
<1>1. CASE c = "Bucket"
  <2>1. v \in Histograms
    BY <1>1 DEF Sound, IsValue
  <2>2. x \in Nat
    BY <1>1
  <2>3. (v.sum + x) % Modulus \in Nat
    BY <2>1, <2>2, Constants DEF Histograms
  <2>4. Plus(c, v, x) \in Histograms
    BY SMTT(20), <1>1, <2>1, <2>2, <2>3, Constants DEF Plus, Histograms
  <2> QED
    BY <1>1, <2>4 DEF Sound, IsValue
<1>2. CASE c = "AtomicU64"
  BY <1>2, Constants DEF Sound, IsValue, Plus
<1>3. CASE c \notin {"Bucket", "AtomicU64"}
  BY <1>3 DEF Sound, IsValue, Plus, Cells
<1> QED
  BY <1>1, <1>2, <1>3

LEMMA MinusSound ==
    ASSUME NEW sort, NEW c \in Cells, NEW v, Sound(sort, c, v), NEW w, Sound(sort, c, w), Less(c, w, v)
    PROVE  Sound(sort, c, Minus(c, v, w))
<1>1. CASE c = "Bucket"
  <2>1. v \in Histograms /\ w \in Histograms
    BY <1>1 DEF Sound, IsValue
  <2>2. (v.sum - w.sum) % Modulus \in Nat
    BY <2>1, Constants DEF Histograms
  <2>3. \A a, b \in Nat : saturating_sub(a, b) \in Nat
    BY DEF saturating_sub
  <2>4. Minus(c, v, w) \in Histograms
    BY <1>1, <2>1, <2>2, <2>3, Constants DEF Minus, Histograms
  <2> QED
    BY <1>1, <2>4 DEF Sound, IsValue
<1>2. CASE c = "AtomicU64"
  BY <1>2, Constants DEF Sound, IsValue, Minus
<1>3. CASE c \notin {"Bucket", "AtomicU64"}
  BY <1>3 DEF Sound, IsValue, Minus, Cells, Less
<1> QED
  BY <1>1, <1>2, <1>3

\* How many numbers a value has.
Size(c) == IF c = "Bucket" THEN Len(Boundaries) + 2 ELSE 1

LEMMA CountsOfBucket ==
    ASSUME NEW v \in Histograms
    PROVE  /\ Counts("Bucket", v) \in [1 .. Len(Boundaries) + 2 -> Nat]
           /\ Len(Counts("Bucket", v)) = Len(Boundaries) + 2
           /\ Counts("Bucket", v)[1] = v.count
           /\ \A i \in 1 .. Len(Boundaries) + 1 : Counts("Bucket", v)[i + 1] = v.bucket_counts[i]
<1> DEFINE n == Len(Boundaries) + 1
           s == v.bucket_counts
           t == <<v.count>>
           q == t \o s
<1>1. n \in Nat /\ v.count \in Nat /\ s \in [1 .. n -> Nat]
  BY Constants DEF Histograms
<1>2. s \in Seq(Nat) /\ Len(s) = n
  BY <1>1
<1>3. t \in Seq(Nat) /\ Len(t) = 1 /\ t[1] = v.count
  BY <1>1
<1>4. Counts("Bucket", v) = q
  BY DEF Counts
<1>5. n + 1 = Len(Boundaries) + 2
  BY Constants
<1> HIDE DEF n, s, t
<1>a. /\ q \in Seq(Nat) /\ Len(q) = Len(t) + Len(s)
      /\ \A i \in 1 .. Len(t) + Len(s) : q[i] = IF i <= Len(t) THEN t[i] ELSE s[i - Len(t)]
  BY <1>2, <1>3, ConcatProperties
<1> HIDE DEF q
<1>6. Len(q) = n + 1 /\ DOMAIN q = 1 .. n + 1
  BY <1>a, <1>1, <1>2, <1>3
<1>7. q[1] = v.count /\ \A i \in 1 .. n : q[i + 1] = s[i]
  BY <1>a, <1>1, <1>2, <1>3
<1>8. q \in [1 .. n + 1 -> Nat]
  BY <1>a, <1>6
<1>9. /\ Counts("Bucket", v) \in [1 .. n + 1 -> Nat]
      /\ Len(Counts("Bucket", v)) = n + 1
      /\ Counts("Bucket", v)[1] = v.count
      /\ \A i \in 1 .. n : Counts("Bucket", v)[i + 1] = s[i]
  BY <1>4, <1>6, <1>7, <1>8
<1> QED
  BY <1>5, <1>9 DEF n, s

LEMMA CountsType ==
    ASSUME NEW sort, NEW c \in Cells, NEW v, Sound(sort, c, v)
    PROVE  /\ Counts(c, v) \in [1 .. Size(c) -> Int]
           /\ sort # "Gauge" => Counts(c, v) \in [1 .. Size(c) -> Nat]
           /\ Len(Counts(c, v)) = Size(c)
           /\ 1 \in 1 .. Size(c)
<1>1. CASE c = "Bucket"
  BY <1>1, Constants, CountsOfBucket DEF Sound, IsValue, Size
<1>2. CASE c # "Bucket"
  BY <1>2, Constants DEF Sound, IsValue, Size, Counts, Cells
<1> QED
  BY <1>1, <1>2

\* Nothing has been counted in an initial value, and in no other of a counter
\* or a histogram.
LEMMA InitialCounts ==
    ASSUME NEW c \in Cells
    PROVE  \A i \in 1 .. Size(c) : Counts(c, Initial(c))[i] = 0
<1>1. CASE c = "Bucket"
  <2>1. Initial(c) \in Histograms
    BY <1>1, InitialSound DEF Sound, IsValue
  <2>2. Counts(c, Initial(c))[1] = 0
    BY <1>1, <2>1, CountsOfBucket DEF Initial
  <2>3. \A i \in 1 .. Len(Boundaries) + 1 : Counts(c, Initial(c))[i + 1] = 0
    BY <1>1, <2>1, CountsOfBucket DEF Initial
  <2>4. \A i \in 1 .. Size(c) : i = 1 \/ (i - 1 \in 1 .. Len(Boundaries) + 1 /\ i = (i - 1) + 1)
    BY <1>1, Constants DEF Size
  <2> QED
    BY <2>2, <2>3, <2>4
<1>2. CASE c # "Bucket"
  BY <1>2 DEF Initial, Counts, Size
<1> QED
  BY <1>1, <1>2

\* An update adds the same to any value, unless a u64 starts again at zero.
LEMMA PlusCounts ==
    ASSUME NEW sort, NEW c \in Cells, NEW v, Sound(sort, c, v), NEW x \in Int,
           c = "Bucket" => x \in Nat, c = "AtomicU64" => x \in {1, -1} /\ v + x >= 0
    PROVE  \/ \A i \in 1 .. Size(c) :
                Counts(c, Plus(c, v, x))[i] = Counts(c, v)[i] + Counts(c, Plus(c, Initial(c), x))[i]
           \/ c = "AtomicU64" /\ x = 1 /\ Plus(c, v, x) = 0 /\ v = Modulus - 1
           \/ c = "AtomicU64" /\ x = -1 /\ Plus(c, v, x) = v - 1
<1>1. CASE c = "Bucket"
  <2> DEFINE w == Plus(c, v, x)
             z == Plus(c, Initial(c), x)
             n == Len(Boundaries) + 1
  <2>0. x \in Nat /\ v \in Histograms /\ Initial(c) \in Histograms
    BY <1>1, InitialSound DEF Sound, IsValue
  <2>1. w \in Histograms /\ z \in Histograms
    <3>1. Sound(sort, c, Initial(c)) /\ Sound(sort, c, w) /\ Sound(sort, c, z)
      BY <1>1, <2>0, PlusSound, InitialSound
    <3> QED
      BY <1>1, <3>1 DEF Sound, IsValue
  <2>2. w.count = v.count + 1 /\ z.count = 1
    BY <1>1 DEF Plus, Initial
  <2>3. \A i \in 1 .. n : /\ w.bucket_counts[i] = v.bucket_counts[i] + (IF i = bucket_index(x) THEN 1 ELSE 0)
                          /\ z.bucket_counts[i] = (IF i = bucket_index(x) THEN 1 ELSE 0)
    BY <1>1, <2>0, Constants DEF Plus, Initial, Histograms
  <2>4. \A i \in 1 .. n : v.bucket_counts[i] \in Nat
    BY <2>0 DEF Histograms
  <2> HIDE DEF w, z
  <2>5. \A i \in 1 .. n : w.bucket_counts[i] = v.bucket_counts[i] + z.bucket_counts[i]
    BY <2>3, <2>4
  <2>6. w.count = v.count + z.count
    BY <2>2
  <2>7. \A i \in 1 .. n : Counts(c, w)[i + 1] = Counts(c, v)[i + 1] + Counts(c, z)[i + 1]
    BY <1>1, <2>0, <2>1, <2>5, CountsOfBucket
  <2>8. Counts(c, w)[1] = Counts(c, v)[1] + Counts(c, z)[1]
    BY <1>1, <2>0, <2>1, <2>6, CountsOfBucket
  <2>9. \A i \in 1 .. Size(c) : i = 1 \/ (i - 1 \in 1 .. n /\ i = (i - 1) + 1)
    BY <1>1, Constants DEF Size
  <2>10. \A i \in 1 .. Size(c) : Counts(c, w)[i] = Counts(c, v)[i] + Counts(c, z)[i]
    <3> HIDE DEF n
    <3> QED
      BY <2>7, <2>8, <2>9
  <2> QED
    BY <2>10 DEF w, z
<1>2. CASE c = "AtomicU64"
  <2>1. v \in 0 .. Modulus - 1
    BY <1>2 DEF Sound
  <2>2. CASE x = 1 /\ v = Modulus - 1
    BY <1>2, <2>1, <2>2, Constants DEF Plus
  <2>4. CASE x = -1
    <3>1. v - 1 \in 0 .. Modulus - 1 /\ (v - 1) % Modulus = v - 1
      BY <1>2, <2>1, <2>4, Constants
    <3> QED
      BY <1>2, <2>1, <2>4, <3>1 DEF Plus
  <2>3. CASE x = 1 /\ v # Modulus - 1
    <3>1. (v + 1) % Modulus = v + 1 /\ (0 + 1) % Modulus = 1
      BY <2>1, <2>3, Constants
    <3>2. Plus(c, v, x) = v + 1 /\ Plus(c, Initial(c), x) = 1
      BY <1>2, <2>1, <2>3, <3>1 DEF Plus, Initial
    <3> QED
      BY <1>2, <3>2 DEF Counts, Size
  <2> QED
    BY <1>2, <2>2, <2>3, <2>4
<1>3. CASE c \notin {"Bucket", "AtomicU64"}
  <2>1. v \in Int
    BY <1>3 DEF Sound, IsValue
  <2>2. Plus(c, v, x) = v + x /\ Plus(c, Initial(c), x) = x
    BY <1>3, <2>1 DEF Plus, Initial
  <2> QED
    BY <1>3, <2>1, <2>2 DEF Counts, Size
<1> QED
  BY <1>1, <1>2, <1>3

-----------------------------------------------------------------------------
(* What a reader finds in a metric                                         *)

\* What the points of key k are known by in a metric of o.
Label(o, k) == IF Sink[o] = "otel" THEN map_attrs(Attributes[k]) ELSE k

\* What a reader takes for the points of key k.
Alike(o, k, l) ==
    IF Sink[o] = "otel" THEN map_attrs(Attributes[l]) = map_attrs(Attributes[k])
    ELSE render_attrs(l) = render_attrs(k)

PointCounts(o, p) ==
    IF Sink[o] = "otel" THEN WireCounts(p.value) ELSE TextCounts(ValueText(p.value))

Place(e) == e \in Keys \X Nat

\* A metric o may have exported.
IsMetric(o, m) ==
    /\ IsFiniteSet(DOMAIN m.data_points) /\ DOMAIN m.data_points # {}
    /\ \A e \in DOMAIN m.data_points :
          /\ Place(e)
          /\ m.data_points[e].attributes = Label(o, e[1])
          /\ m.data_points[e].time \in Int
          /\ PointCounts(o, m.data_points[e]) \in Vectors

PlacesOf(o, m, k) == {e \in DOMAIN m.data_points : Alike(o, k, e[1])}

\* The place of a line of the text.
LineOf(m, n) == CHOOSE e \in DOMAIN m.data_points : Rank(m, e) = n

\* The points in the order of the text.
LEMMA PointsOrdered ==
    ASSUME NEW o \in Observers, Sink[o] # "otel", NEW m, IsMetric(o, m)
    PROVE  /\ \A e \in DOMAIN m.data_points : Rank(m, e) \in 1 .. Cardinality(DOMAIN m.data_points)
           /\ \A d, e \in DOMAIN m.data_points :
                 /\ Precedes(m, d, e) <=> Rank(m, d) < Rank(m, e)
                 /\ Rank(m, d) = Rank(m, e) => d = e
           /\ \A n \in 1 .. Cardinality(DOMAIN m.data_points) :
                 LineOf(m, n) \in DOMAIN m.data_points /\ Rank(m, LineOf(m, n)) = n
<1> DEFINE D == DOMAIN m.data_points
           R == {x \in D \X D : Precedes(m, x[1], x[2])}
           rank == [e \in D |-> Rank(m, e)]
<1>1. /\ IsFiniteSet(D)
      /\ \A e \in D : /\ e[1] \in Nat /\ e[2] \in Nat /\ e = <<e[1], e[2]>>
                      /\ m.data_points[e].attributes = e[1]
                      /\ m.data_points[e].time \in Int
  BY WireAssumption, ObserverAssumption DEF IsMetric, Label, Place
<1>2. \A d, e \in D : <<d, e>> \in R <=> Precedes(m, d, e)
  OBVIOUS
<1>3. StrictOrder(D, R)
  <2>1. \A d, e, f \in D : Precedes(m, d, e) /\ Precedes(m, e, f) => Precedes(m, d, f)
    BY <1>1 DEF Precedes
  <2>2. \A d \in D : ~Precedes(m, d, d)
    BY <1>1 DEF Precedes
  <2>3. \A d, e \in D : d = e \/ Precedes(m, d, e) \/ Precedes(m, e, d)
    <3> SUFFICES ASSUME NEW d \in D, NEW e \in D, ~Precedes(m, d, e), ~Precedes(m, e, d)
                 PROVE  d = e
      OBVIOUS
    <3>1. d[1] = e[1] /\ d[2] = e[2]
      BY <1>1 DEF Precedes
    <3> QED
      BY <1>1, <3>1
  <2> HIDE DEF D, R
  <2> QED
    BY <1>2, <2>1, <2>2, <2>3 DEF StrictOrder
<1>4. \A e \in D : rank[e] = 1 + Cardinality(Earlier(D, R, e))
  <2> SUFFICES ASSUME NEW e \in D
               PROVE  Rank(m, e) = 1 + Cardinality(Earlier(D, R, e))
    OBVIOUS
  <2>1. {d \in D : Precedes(m, d, e)} = Earlier(D, R, e)
    BY DEF Earlier
  <2> QED
    BY <2>1 DEF Rank
<1>5. /\ \A e \in D : rank[e] \in 1 .. Cardinality(D)
      /\ \A d, e \in D : <<d, e>> \in R <=> rank[d] < rank[e]
      /\ \A d, e \in D : rank[d] = rank[e] => d = e
      /\ \A n \in 1 .. Cardinality(D) : \E e \in D : rank[e] = n
  <2> HIDE DEF D, R, rank
  <2> QED
    BY <1>1, <1>3, <1>4, RanksNumber
<1>6. \A n \in 1 .. Cardinality(D) : LineOf(m, n) \in D /\ Rank(m, LineOf(m, n)) = n
  BY <1>5 DEF LineOf
<1> QED
  BY <1>2, <1>5, <1>6

\* The lines of the text, in terms of the points.
LEMMA TextLines ==
    ASSUME NEW o \in Observers, Sink[o] # "otel", NEW m, IsMetric(o, m)
    PROVE  /\ DOMAIN render(m).lines = 1 .. Cardinality(DOMAIN m.data_points)
           /\ \A n \in DOMAIN render(m).lines :
                 /\ render(m).lines[n].attrs_col = render_attrs(LineOf(m, n)[1])
                 /\ render(m).lines[n].value_col = ValueText(m.data_points[LineOf(m, n)].value)
<1> DEFINE N == 1 .. Cardinality(DOMAIN m.data_points)
           points == sorted_points(m)
<1>1. points = [n \in N |-> m.data_points[LineOf(m, n)]]
  BY Zenon DEF sorted_points, LineOf
<1>2. DOMAIN points = N
  BY <1>1
<1>3. \A n \in N : points[n].attributes = LineOf(m, n)[1]
                   /\ points[n].value = m.data_points[LineOf(m, n)].value
  BY <1>1, PointsOrdered DEF IsMetric, Label
<1> HIDE DEF points, N
<1>4. DOMAIN render(m).lines = N
  BY <1>2 DEF render, points
<1>5. \A n \in N : /\ render(m).lines[n].attrs_col = render_attrs(points[n].attributes)
                   /\ render(m).lines[n].value_col = ValueText(points[n].value)
  BY <1>2 DEF render, points
<1> QED
  BY <1>3, <1>4, <1>5 DEF N

\* What a reader finds of k are the points known by its attributes.
LEMMA Readings ==
    ASSUME NEW o \in Observers, NEW m, IsMetric(o, m), NEW k \in Keys
    PROVE  \E h \in Bijection(PlacesOf(o, m, k), DOMAIN ReadMetric(o, m, k)) :
              \A e \in PlacesOf(o, m, k) :
                 /\ ReadMetric(o, m, k)[h[e]].counts = PointCounts(o, m.data_points[e])
                 /\ ReadMetric(o, m, k)[h[e]].at =
                       IF Sink[o] = "otel" THEN m.data_points[e].time ELSE Rank(m, e)
<1> DEFINE P == PlacesOf(o, m, k)
           r == ReadMetric(o, m, k)
<1>1. CASE Sink[o] = "otel"
  <2> DEFINE h == [e \in P |-> e]
  <2>1. P = {e \in DOMAIN m.data_points : m.data_points[e].attributes = map_attrs(Attributes[k])}
    BY <1>1 DEF PlacesOf, Alike, IsMetric, Label
  <2>2. r = [e \in P |-> [at |-> m.data_points[e].time,
                          counts |-> WireCounts(m.data_points[e].value)]]
    BY <1>1, <2>1 DEF ReadMetric
  <2> HIDE DEF P, r
  <2>3. DOMAIN r = P
    BY <2>2
  <2>4. h \in Bijection(P, DOMAIN r)
    BY <2>3 DEF Bijection, Injection, Surjection, IsInjective
  <2>5. \A e \in P : /\ r[h[e]].counts = PointCounts(o, m.data_points[e])
                     /\ r[h[e]].at = m.data_points[e].time
    BY <1>1, <2>2 DEF PointCounts
  <2> QED
    BY <1>1, <2>4, <2>5 DEF P, r
<1>2. CASE Sink[o] # "otel"
  <2> DEFINE text == render(m).lines
             L == {n \in DOMAIN text : text[n].attrs_col = render_attrs(k)}
             h == [e \in P |-> Rank(m, e)]
  <2>1. r = [n \in L |-> [at |-> n, counts |-> TextCounts(text[n].value_col)]]
    BY <1>2 DEF ReadMetric
  <2>2. \A n \in DOMAIN text :
            /\ LineOf(m, n) \in DOMAIN m.data_points /\ Rank(m, LineOf(m, n)) = n
            /\ text[n].attrs_col = render_attrs(LineOf(m, n)[1])
            /\ text[n].value_col = ValueText(m.data_points[LineOf(m, n)].value)
    BY ZenonT(30), <1>2, TextLines, PointsOrdered
  <2>3. \A e \in DOMAIN m.data_points : Rank(m, e) \in DOMAIN text /\ LineOf(m, Rank(m, e)) = e
    <3> SUFFICES ASSUME NEW e \in DOMAIN m.data_points
                 PROVE  Rank(m, e) \in DOMAIN text /\ LineOf(m, Rank(m, e)) = e
      OBVIOUS
    <3> DEFINE n == Rank(m, e)
    <3>a. Rank(m, e) \in 1 .. Cardinality(DOMAIN m.data_points)
      BY <1>2, PointsOrdered
    <3>b. DOMAIN text = 1 .. Cardinality(DOMAIN m.data_points)
      BY <1>2, TextLines
    <3>1. n \in DOMAIN text
      BY <3>a, <3>b
    <3>2. LineOf(m, n) \in DOMAIN m.data_points /\ Rank(m, LineOf(m, n)) = n
      BY <2>2, <3>1
    <3>3. LineOf(m, n) = e
      <4> DEFINE d == LineOf(m, n)
      <4>1. d \in DOMAIN m.data_points /\ Rank(m, d) = Rank(m, e)
        BY <3>2
      <4> HIDE DEF d
      <4>2. d = e
        BY <1>2, <4>1, PointsOrdered
      <4> QED
        BY <4>2 DEF d
    <3> QED
      BY <3>1, <3>3
  <2>4. \A e \in DOMAIN m.data_points : e \in P <=> Rank(m, e) \in L
    BY <1>2, <2>2, <2>3 DEF PlacesOf, Alike
  <2>5. P \subseteq DOMAIN m.data_points
    BY DEF PlacesOf
  <2> HIDE DEF P, r, text
  <2>6. DOMAIN r = L
    BY <2>1
  <2>7. h \in [P -> L] /\ (\A d, e \in P : h[d] = h[e] => d = e) /\ \A n \in L : \E e \in P : h[e] = n
    BY <2>2, <2>3, <2>4, <2>5
  <2>8. h \in Bijection(P, DOMAIN r)
    BY <2>6, <2>7 DEF Bijection, Injection, Surjection, IsInjective
  <2>9. \A e \in P : /\ r[h[e]].counts = PointCounts(o, m.data_points[e])
                     /\ r[h[e]].at = Rank(m, e)
    <3> SUFFICES ASSUME NEW e \in P
                 PROVE  r[h[e]].counts = PointCounts(o, m.data_points[e]) /\ r[h[e]].at = Rank(m, e)
      OBVIOUS
    <3> DEFINE n == Rank(m, e)
    <3>1. h[e] = n /\ n \in L /\ n \in DOMAIN text /\ LineOf(m, n) = e
      BY <2>3, <2>4, <2>5
    <3> HIDE DEF h, L, n
    <3>2. r[n].at = n /\ r[n].counts = TextCounts(text[n].value_col)
      BY <2>1, <3>1
    <3>3. text[n].value_col = ValueText(m.data_points[e].value)
      BY <2>2, <3>1
    <3> QED
      BY <1>2, <3>1, <3>2, <3>3 DEF PointCounts, n
  <2> QED
    BY <1>2, <2>8, <2>9 DEF P, r
<1> QED
  BY <1>1, <1>2

\* The numbers a reader finds of k in a metric, and their sums.
LEMMA ReadingsSum ==
    ASSUME NEW o \in Observers, NEW m, IsMetric(o, m), NEW k \in Keys
    PROVE  LET r == ReadMetric(o, m, k)
               P == PlacesOf(o, m, k)
               counts == [e \in DOMAIN r |-> r[e].counts]
           IN  /\ IsFiniteSet(P) /\ IsFiniteSet(DOMAIN r)
               /\ P = {} <=> DOMAIN r = {}
               /\ \A x \in DOMAIN r : \E e \in P : r[x].counts = PointCounts(o, m.data_points[e])
               /\ \A x \in DOMAIN r : r[x].counts \in Vectors
               /\ Sum(counts) \in Vectors
               /\ \A i \in 1 .. Width :
                     Sum(counts)[i] = SumOf([e \in P |-> PointCounts(o, m.data_points[e])[i]], P)
<1> DEFINE r == ReadMetric(o, m, k)
           P == PlacesOf(o, m, k)
           counts == [e \in DOMAIN r |-> r[e].counts]
           c(i) == [e \in P |-> PointCounts(o, m.data_points[e])[i]]
           g(i) == [x \in DOMAIN r |-> counts[x][i]]
<1>1. PICK h \in Bijection(P, DOMAIN r) :
          \A e \in P : r[h[e]].counts = PointCounts(o, m.data_points[e])
  BY Readings
<1>2. /\ h \in [P -> DOMAIN r]
      /\ \A x \in DOMAIN r : \E e \in P : h[e] = x
  BY DEF Bijection, Injection, Surjection
<1>3. IsFiniteSet(P) /\ \A e \in P : PointCounts(o, m.data_points[e]) \in Vectors
  BY FS_Subset DEF IsMetric, PlacesOf
<1>4. \A x \in DOMAIN r : /\ \E e \in P : r[x].counts = PointCounts(o, m.data_points[e])
                          /\ r[x].counts \in Vectors
  BY <1>1, <1>2, <1>3
<1>5. \A e \in P : h[e] \in DOMAIN r /\ counts[h[e]] = PointCounts(o, m.data_points[e])
  <2> HIDE DEF r, P
  <2> QED
    BY <1>1, <1>2
<1>6. P = {} <=> DOMAIN r = {}
  BY <1>2
<1>7. ASSUME NEW i \in 1 .. Width
      PROVE  SumOf(c(i), P) = SumOf(g(i), DOMAIN r) /\ SumOf(c(i), P) \in Int
  <2>1. \A e \in P : c(i)[e] \in Int /\ c(i)[e] = g(i)[h[e]]
    <3> HIDE DEF r, P, counts
    <3> QED
      BY <1>3, <1>5 DEF Vectors
  <2> HIDE DEF r, P, c, g
  <2> QED
    BY <1>3, <2>1, SumRenamed, SumTake
<1>8. IsFiniteSet(DOMAIN r)
  <2>1. h \in Surjection(P, DOMAIN r)
    BY <1>1 DEF Bijection
  <2> HIDE DEF r, P
  <2> QED
    BY <1>3, <2>1, FS_Surjection
<1>9. Sum(counts) = [i \in 1 .. Width |-> SumFunction(g(i))]
  BY DEF Sum
<1>10. \A i \in 1 .. Width : Sum(counts)[i] = SumOf(c(i), P) /\ Sum(counts)[i] \in Int
  <2> SUFFICES ASSUME NEW i \in 1 .. Width
               PROVE  Sum(counts)[i] = SumOf(c(i), P) /\ Sum(counts)[i] \in Int
    OBVIOUS
  <2>1. DOMAIN g(i) = DOMAIN r
    OBVIOUS
  <2>2. Sum(counts)[i] = SumFunction(g(i))
    BY <1>9
  <2> HIDE DEF g, r, c, P, counts
  <2>3. SumFunction(g(i)) = SumOf(g(i), DOMAIN r)
    BY <2>1, SumFunctionIs
  <2> QED
    BY <1>7, <2>2, <2>3
<1>11. Sum(counts) \in Vectors
  <2> HIDE DEF g, r, P, c, counts
  <2>1. Sum(counts) = [i \in 1 .. Width |-> Sum(counts)[i]]
    BY <1>9, Zenon
  <2> QED
    BY <1>10, <2>1 DEF Vectors
<1> QED
  BY <1>3, <1>4, <1>6, <1>8, <1>10, <1>11

-----------------------------------------------------------------------------
(* What an export makes of the snapshots                                   *)

\* The protocol and the text have the numbers of a value.
LEMMA NumbersKept ==
    ASSUME cell \in Cells, NEW v, Sound(kind, cell, v)
    PROVE  /\ PointValue(cell, v).type # "Failed" => WireCounts(PointValue(cell, v)) = Counts(cell, v)
           /\ TextCounts(ValueText(ConsoleValue(cell, v))) = Counts(cell, v)
<1>1. CASE cell = "Bucket"
  <2> DEFINE B == v.bucket_counts
             h == ConsoleHistogram(v)
             text == HistogramText(h)
  <2>1. WireCounts(PointValue(cell, v)) = Counts(cell, v)
    BY <1>1 DEF WireCounts, PointValue, HistogramPoint, Counts
  <2>2. B \in [1 .. Len(Boundaries) + 1 -> Nat]
    BY <1>1 DEF Sound, IsValue, Histograms
  <2>3. DOMAIN h.buckets = DOMAIN B /\ \A i \in DOMAIN B : h.buckets[i].count = B[i]
    BY DEF ConsoleHistogram
  <2>4. text.count = v.count /\ DOMAIN text.cells = DOMAIN h.buckets
        /\ \A i \in DOMAIN h.buckets : text.cells[i].count = h.buckets[i].count
    BY DEF HistogramText, ConsoleHistogram
  <2>5. ValueText(ConsoleValue(cell, v)) = text
    BY <1>1 DEF ValueText, ConsoleValue, ConsoleHistogram
  <2>6. [i \in DOMAIN text.cells |-> text.cells[i].count] = B
    <3> HIDE DEF h, text
    <3> QED
      BY <2>2, <2>3, <2>4
  <2>7. TextCounts(text) = <<v.count>> \o B
    <3> HIDE DEF text, B
    <3> QED
      BY <1>1, <2>4, <2>6 DEF TextCounts
  <2> QED
    BY <1>1, <2>1, <2>5, <2>7 DEF Counts
<1>2. CASE cell # "Bucket"
  <2>1. PointValue(cell, v).type # "Failed" => WireCounts(PointValue(cell, v)) = Counts(cell, v)
    BY <1>2 DEF WireCounts, PointValue, into_number_value, Counts, Cells
  <2>2. ConsoleValue(cell, v) = [type |-> "Number", number |-> v]
    BY <1>2 DEF ConsoleValue
  <2>3. ValueText(ConsoleValue(cell, v)) = v
    BY <2>2 DEF ValueText
  <2> QED
    BY <1>2, <2>1, <2>3 DEF TextCounts, Counts
<1> QED
  BY <1>1, <1>2

Snapshot == [seq_id : Nat, ts : Int, value : Int \cup Histograms]

\* The series of an observer, by key.
IsSeries(ser) ==
    /\ ser \in [Keys -> Seq(Snapshot)]
    /\ \A k \in Keys : \A n \in DOMAIN ser[k] : Sound(kind, cell, ser[k][n].value)

PlacesIn(ser) == {e \in Keys \X Nat : e[2] \in DOMAIN ser[e[1]]}

LEMMA PlacesFinite ==
    ASSUME NEW ser \in [Keys -> Seq(Snapshot)]
    PROVE  IsFiniteSet(PlacesIn(ser)) /\ (PlacesIn(ser) = {} <=> ser = NoSeries)
<1> DEFINE f == [k \in Keys |-> {k} \X DOMAIN ser[k]]
           I == ImageOf(f, Keys)
<1>0. \A k \in Keys : ser[k] \in Seq(Snapshot) /\ Len(ser[k]) \in Nat /\ DOMAIN ser[k] = 1 .. Len(ser[k])
  OBVIOUS
<1>1. \A k \in Keys : IsFiniteSet(f[k])
  <2> SUFFICES ASSUME NEW k \in Keys PROVE IsFiniteSet({k} \X DOMAIN ser[k])
    OBVIOUS
  <2>1. IsFiniteSet({k}) /\ IsFiniteSet(DOMAIN ser[k])
    BY <1>0, FS_Singleton, FirstNumbers
  <2> QED
    BY <2>1, FS_Product
<1>2. IsFiniteSet(I)
  BY ObserverAssumption, ImageFinite
<1>3. \A s \in I : IsFiniteSet(s)
  BY <1>1 DEF ImageOf
<1>4. PlacesIn(ser) \in SUBSET UNION I
  BY DEF PlacesIn, ImageOf
<1>5. IsFiniteSet(PlacesIn(ser))
  <2> HIDE DEF I
  <2>1. IsFiniteSet(UNION I)
    BY <1>2, <1>3, FS_UNION
  <2> QED
    BY <1>4, <2>1, FS_Subset
<1>6. ASSUME PlacesIn(ser) = {} PROVE ser = NoSeries
  <2> SUFFICES ASSUME NEW k \in Keys PROVE ser[k] = <<>>
    BY DEF NoSeries
  <2>1. \A n \in 1 .. Len(ser[k]) : <<k, n>> \in PlacesIn(ser)
    BY <1>0 DEF PlacesIn
  <2>2. 1 \notin 1 .. Len(ser[k])
    BY <1>6, <2>1
  <2>3. Len(ser[k]) = 0
    BY <1>0, <2>2
  <2> QED
    BY <1>0, <2>3, EmptySeq
<1>7. ASSUME ser = NoSeries PROVE PlacesIn(ser) = {}
  <2>1. \A k \in Keys : DOMAIN ser[k] = {}
    BY <1>7 DEF NoSeries
  <2> QED
    BY <2>1 DEF PlacesIn
<1> QED
  BY <1>5, <1>6, <1>7

\* A point of a series ser of o that began at t.
PointOf(o, ser, t, e, p) ==
    LET s == ser[e[1]][e[2]]
    IN  /\ p.attributes = Label(o, e[1])
        /\ p.start_time = t
        /\ p.time = align_ts(s, t, Align[o])
        /\ PointCounts(o, p) = Counts(cell, s.value)

\* A snapshot the protocol has no point for.
Unrepresentable(t, s, align) ==
    \/ t \notin 0 .. MaxNanos
    \/ align_ts(s, t, align) \notin 0 .. MaxNanos
    \/ cell = "AtomicU64" /\ s.value > MaxI64

\* into_wire, case by case.
LEMMA Converted ==
    ASSUME NEW o \in Observers, cell \in Cells, kind \in Kinds, IsSeries(series[o])
    PROVE  /\ into_wire(o).is \in {"None", "Err", "Some"}
           /\ into_wire(o).is = "None" <=> series[o] = NoSeries
           /\ into_wire(o).is = "Err" => Sink[o] = "otel" /\ \E e \in PlacesIn(series[o]) :
                 Unrepresentable(start_time[o], series[o][e[1]][e[2]], Align[o])
           /\ into_wire(o).is = "Some" =>
                 LET m == into_wire(o).metric
                 IN  /\ DOMAIN m.data_points = PlacesIn(series[o])
                     /\ \A e \in PlacesIn(series[o]) :
                           PointOf(o, series[o], start_time[o], e, m.data_points[e])
                     /\ Accumulates(o, m) <=> kind # "Gauge" /\ Mode[o] # "Direct"
<1> DEFINE s == Series(o)
           P == PlacesIn(series[o])
<1>0. /\ s.series = series[o] /\ s.start_time = start_time[o] /\ s.cell = cell /\ s.kind = kind
      /\ s.observe_mode = Mode[o]
  BY DEF Series
<1>1. Places(s) = P
  <2>1. \A k \in Keys : DOMAIN series[o][k] \subseteq Nat
    BY DEF IsSeries
  <2> QED
    BY <1>0, <2>1 DEF Places, PlacesIn, IsSeries
<1>2. P = {} <=> series[o] = NoSeries
  BY PlacesFinite DEF IsSeries
<1>3. \A e \in P : SnapshotAt(s, e) = series[o][e[1]][e[2]] /\ Sound(kind, cell, series[o][e[1]][e[2]].value)
  BY <1>0 DEF SnapshotAt, PlacesIn, IsSeries
<1> HIDE DEF s
<1>4. CASE Sink[o] = "otel"
  <2> DEFINE point(e) == [attributes |-> map_attrs(Attributes[e[1]]),
                          start_time |-> s.start_time,
                          time |-> align_ts(SnapshotAt(s, e), s.start_time, Align[o]),
                          value |-> PointValue(s.cell, SnapshotAt(s, e).value)]
             points == [e \in Places(s) |-> point(e)]
             fails(p) == \/ p.value.type = "Failed"
                         \/ map_time_fails(p.start_time)
                         \/ map_time_fails(p.time)
             m == [data |-> OtelData(s), data_points |-> points]
  <2>1. into_wire(o) = IF Places(s) = {} THEN Nothing
                       ELSE IF \E e \in Places(s) : fails(points[e]) THEN Failed
                       ELSE Some(m)
    BY <1>4 DEF into_wire, OtelInto, s
  <2>2. \A e \in P : /\ points[e].attributes = Label(o, e[1])
                     /\ points[e].start_time = start_time[o]
                     /\ points[e].time = align_ts(series[o][e[1]][e[2]], start_time[o], Align[o])
                     /\ points[e].value = PointValue(cell, series[o][e[1]][e[2]].value)
    BY <1>0, <1>1, <1>3, <1>4 DEF Label
  <2>3. DOMAIN points = P
    BY <1>1
  <2> HIDE DEF points
  <2>4. \A e \in P : fails(points[e]) =>
            Unrepresentable(start_time[o], series[o][e[1]][e[2]], Align[o])
    <3> SUFFICES ASSUME NEW e \in P, fails(points[e])
                 PROVE  Unrepresentable(start_time[o], series[o][e[1]][e[2]], Align[o])
      OBVIOUS
    <3>1. CASE points[e].value.type = "Failed"
      <4> DEFINE v == series[o][e[1]][e[2]].value
      <4>1. PointValue(cell, v).type = "Failed"
        BY <2>2, <3>1
      <4>2. cell = "AtomicU64" /\ v \in Int /\ ~(v <= MaxI64)
        <5>1. Sound(kind, cell, v)
          BY <1>3
        <5> HIDE DEF v
        <5>2. cell # "Bucket"
          BY <4>1 DEF PointValue, HistogramPoint
        <5>3. into_number_value(cell, v).type = "Failed"
          BY <4>1, <5>2 DEF PointValue
        <5>4. cell = "AtomicU64" /\ ~(v <= MaxI64)
          BY <5>2, <5>3 DEF into_number_value, Cells
        <5> QED
          BY <5>1, <5>4 DEF Sound, IsValue
      <4> QED
        BY <4>2, WireAssumption DEF Unrepresentable
    <3>2. CASE map_time_fails(points[e].start_time) \/ map_time_fails(points[e].time)
      BY <2>2, <3>2 DEF map_time_fails, Unrepresentable
    <3> QED
      BY <3>1, <3>2
  <2>5. \A e \in P : ~fails(points[e]) => PointOf(o, series[o], start_time[o], e, points[e])
    <3> SUFFICES ASSUME NEW e \in P, ~fails(points[e])
                 PROVE  PointOf(o, series[o], start_time[o], e, points[e])
      OBVIOUS
    <3> DEFINE v == series[o][e[1]][e[2]].value
    <3>1. PointValue(cell, v).type # "Failed"
      BY <2>2
    <3>2. Sound(kind, cell, v)
      BY <1>3
    <3>3. PointCounts(o, points[e]) = WireCounts(PointValue(cell, v))
      BY <1>4, <2>2 DEF PointCounts
    <3>4. WireCounts(PointValue(cell, v)) = Counts(cell, v)
      <4> HIDE DEF v
      <4> QED
        BY <3>1, <3>2, NumbersKept
    <3> QED
      BY <2>2, <3>3, <3>4 DEF PointOf
  <2>6. Accumulates(o, m) <=> kind # "Gauge" /\ Mode[o] # "Direct"
    <3>1. m.data.temporality = IF kind = "Gauge" THEN None ELSE map_temporality(Mode[o])
      BY <1>0 DEF OtelData, Kinds
    <3>2. Accumulates(o, m) <=> m.data.temporality = "Delta"
      BY <1>4 DEF Accumulates
    <3>3. None # "Delta"
      BY ObserverAssumption
    <3> QED
      BY <3>1, <3>2, <3>3 DEF map_temporality
  <2>7. m.data_points = points
    OBVIOUS
  <2> HIDE DEF m, fails
  <2> QED
    BY <1>1, <1>2, <1>4, <2>1, <2>3, <2>4, <2>5, <2>6, <2>7 DEF Nothing, Failed, Some
<1>5. CASE Sink[o] # "otel"
  <2> DEFINE point(e) == [attributes |-> e[1],
                          start_time |-> s.start_time,
                          time |-> align_ts(SnapshotAt(s, e), s.start_time, Align[o]),
                          value |-> ConsoleValue(s.cell, SnapshotAt(s, e).value)]
             points == [e \in Places(s) |-> point(e)]
             m == [kind |-> s.kind, temporality |-> map_temporality(s.observe_mode),
                   data_points |-> points]
  <2>1. into_wire(o) = IF Places(s) = {} THEN Nothing ELSE Some(m)
    BY <1>5 DEF into_wire, ConsoleInto, s
  <2>2. \A e \in P : /\ points[e].attributes = Label(o, e[1])
                     /\ points[e].start_time = start_time[o]
                     /\ points[e].time = align_ts(series[o][e[1]][e[2]], start_time[o], Align[o])
                     /\ points[e].value = ConsoleValue(cell, series[o][e[1]][e[2]].value)
    BY <1>0, <1>1, <1>3, <1>5 DEF Label
  <2>3. DOMAIN points = P
    BY <1>1
  <2> HIDE DEF points
  <2>4. \A e \in P : PointOf(o, series[o], start_time[o], e, points[e])
    <3> SUFFICES ASSUME NEW e \in P PROVE PointOf(o, series[o], start_time[o], e, points[e])
      OBVIOUS
    <3> DEFINE v == series[o][e[1]][e[2]].value
    <3>1. Sound(kind, cell, v)
      BY <1>3
    <3>2. PointCounts(o, points[e]) = TextCounts(ValueText(ConsoleValue(cell, v)))
      BY <1>5, <2>2 DEF PointCounts
    <3>3. TextCounts(ValueText(ConsoleValue(cell, v))) = Counts(cell, v)
      <4> HIDE DEF v
      <4> QED
        BY <3>1, NumbersKept
    <3> QED
      BY <2>2, <3>2, <3>3 DEF PointOf
  <2>5. Accumulates(o, m) <=> kind # "Gauge" /\ Mode[o] # "Direct"
    <3>1. render(m).header.temporality = IF kind = "Gauge" THEN None ELSE map_temporality(Mode[o])
      <4>1. m.kind = kind /\ m.temporality = map_temporality(Mode[o])
        BY <1>0
      <4> HIDE DEF m
      <4>2. render(m).header = header(m)
        BY DEF render
      <4> QED
        BY <4>1, <4>2 DEF header
    <3>2. Accumulates(o, m) <=> render(m).header.temporality = "Delta"
      BY <1>5 DEF Accumulates
    <3>3. None # "Delta"
      BY ObserverAssumption
    <3> QED
      BY <3>1, <3>2, <3>3 DEF map_temporality
  <2>6. m.data_points = points
    OBVIOUS
  <2> HIDE DEF m
  <2> QED
    BY <1>1, <1>2, <1>5, <2>1, <2>3, <2>4, <2>5, <2>6 DEF Nothing, Some
<1> QED
  BY <1>4, <1>5

-----------------------------------------------------------------------------
(* Types.  What the steps below keep is stated in parts.                   *)

Typed ==
    /\ world \in Worlds
    /\ bucket \in [Keys -> Updates \cup {None}]
    /\ aliases \in [Fingerprints -> Updates \cup {None}]
    /\ value \in [Updates -> Int \cup Histograms]
    /\ lock \in Observers \cup {None}
    /\ upc \in [Updates -> Labels]
    /\ ref \in [Updates -> Updates \cup {None}]
    /\ old \in [Updates -> Int]
    /\ opc \in [Observers -> {"idle", "observing"}]
    /\ todo \in [Observers -> SUBSET Entries]
    /\ ts \in [Observers -> Int]
    /\ start_time \in [Observers -> Int]
    /\ seq \in [Observers -> Nat]
    /\ last_values \in [Observers -> [Keys -> Int \cup Histograms \cup {None}]]
    /\ series \in [Observers -> [Keys -> Seq(Snapshot)]]
    /\ \E S : exported \in [Observers -> Seq(S)]
    /\ begun \in [Observers -> [Keys -> Vectors]]
    /\ seen \in [Observers -> [Keys -> Vectors]]
    /\ dropped \subseteq Observers
    /\ shed \in [Observers -> [Keys -> Int]]
    /\ overlapped \subseteq Updates /\ misled \subseteq Updates /\ lost \subseteq Updates
    /\ sunk \subseteq {u \in Updates : cell = "AtomicU64"}

\* The calls under way are among those made, and each has got a bucket.
Called ==
    \A u \in Updates :
        /\ upc[u] # "called" => u \in world.calls /\ ref[u] \in Updates
        /\ upc[u] = "exchange" => cell = "AtomicF64" /\ Op[u] \in {"add", "sub"}
        /\ upc[u] = "exchange" /\ kind # "Gauge" => old[u] >= 0
        /\ upc[u] = "insert_dup" => NeedsAlias[u]
        /\ u \in sunk => upc[u] = "returned"

\* The values are those of the metric's buckets.
ValuesSound ==
    /\ \A u \in Updates : Sound(kind, cell, value[u])
    /\ \A o \in Observers, k \in Keys : last_values[o][k] # None => Sound(kind, cell, last_values[o][k])
    /\ \A o \in Observers : IsSeries(series[o])

Metrics == \A o \in Observers : \A i \in DOMAIN exported[o] : IsMetric(o, exported[o][i])

Types == Typed /\ Called /\ ValuesSound /\ Metrics

LEMMA Sizes ==
    ASSUME cell \in Cells
    PROVE  Width = Size(cell) /\ Vectors = [1 .. Size(cell) -> Int] /\ 1 \in 1 .. Width
BY CountsType, InitialSound DEF Width, Vectors

LEMMA TheCell ==
    ASSUME world \in Worlds
    PROVE  /\ cell \in Cells /\ kind \in Kinds
           /\ kind = "Histogram" <=> cell = "Bucket"
           /\ world.calls \subseteq Updates /\ world.observers \subseteq Observers
           /\ kind # "Gauge" => \A u \in world.calls : Op[u] \in {"add", "reset"}
           /\ kind = "Gauge" => \A o \in world.observers : Mode[o] # "Delta"
           /\ world.late \in BOOLEAN
BY ObserverAssumption DEF cell, kind

\* What an update adds.
LEMMA OneType ==
    ASSUME world \in Worlds, NEW u \in world.calls, Op[u] # "reset"
    PROVE  /\ One(u) \in Int
           /\ cell = "Bucket" \/ kind # "Gauge" \/ Op[u] # "sub" => One(u) \in Nat
           /\ cell # "Bucket" /\ Op[u] = "add" => One(u) = 1
           /\ cell # "Bucket" /\ Op[u] = "sub" => One(u) = -1
BY TheCell, ObserverAssumption DEF One

LEMMA GainType ==
    ASSUME world \in Worlds, NEW u \in Updates,
           Op[u] \in {"add", "set"} \/ (Op[u] = "sub" /\ cell = "AtomicU64")
    PROVE  Gain(u) \in [1 .. Size(cell) -> Nat]
<1>2. cell \in Cells
  BY TheCell
<1>4. CASE Op[u] \in {"add", "set"}
  <2>1. One(u) \in Nat
    BY <1>4, ObserverAssumption DEF One
  <2>2. Sound("Counter", cell, Plus(cell, Initial(cell), One(u)))
    BY <1>2, <2>1, InitialSound, PlusSound
  <2> QED
    BY <1>2, <2>2, CountsType DEF Gain
<1>5. CASE Op[u] = "sub" /\ cell = "AtomicU64"
  <2>1. One(u) = -1 /\ Initial(cell) = 0 /\ (0 - 1) % Modulus \in Nat
    BY <1>5, Constants DEF One, Initial
  <2> QED
    BY <1>5, <2>1 DEF Gain, Counts, Plus, Size
<1> QED
  BY <1>4, <1>5

LEMMA AddedType ==
    ASSUME world \in Worlds, sunk \subseteq {u \in Updates : cell = "AtomicU64"}, NEW k \in Keys
    PROVE  /\ Raised(k) \subseteq Updates /\ IsFiniteSet(Raised(k))
           /\ Added(k) \in Vectors
           /\ \A i \in 1 .. Width :
                 Added(k)[i] = SumOf([u \in Raised(k) |-> Gain(u)[i]], Raised(k))
<1> DEFINE A == Raised(k)
           g(i) == [u \in A |-> Gain(u)[i]]
<1>1. /\ A \subseteq Updates /\ IsFiniteSet(A)
      /\ \A u \in A : Op[u] \in {"add", "set"} \/ (Op[u] = "sub" /\ cell = "AtomicU64")
  BY ObserverAssumption, FS_Subset DEF Raised, Applied
<1>2. cell \in Cells /\ Width = Size(cell) /\ Vectors = [1 .. Width -> Int]
  BY TheCell, Sizes
<1>3. \A i \in 1 .. Width : \A u \in A : g(i)[u] \in Int
  <2> SUFFICES ASSUME NEW i \in 1 .. Width, NEW u \in A PROVE g(i)[u] \in Int
    OBVIOUS
  <2>1. Gain(u) \in [1 .. Width -> Nat]
    BY <1>1, <1>2, GainType
  <2>2. g(i)[u] = Gain(u)[i]
    OBVIOUS
  <2> QED
    BY <2>1, <2>2
<1>4. Added(k) = [i \in 1 .. Width |-> SumFunction(g(i))]
  BY DEF Added
<1>5. \A i \in 1 .. Width : SumFunction(g(i)) = SumOf(g(i), A)
  <2> SUFFICES ASSUME NEW i \in 1 .. Width PROVE SumFunction(g(i)) = SumOf(g(i), A)
    OBVIOUS
  <2>1. DOMAIN g(i) = A
    OBVIOUS
  <2> HIDE DEF g
  <2> QED
    BY <2>1, SumFunctionIs
<1>6. \A i \in 1 .. Width : SumOf(g(i), A) \in Int
  <2> HIDE DEF g, A
  <2> QED
    BY <1>1, <1>3, SumTake
<1> HIDE DEF g, A
<1>7. Added(k) \in Vectors
  BY <1>2, <1>4, <1>5, <1>6
<1>8. \A i \in 1 .. Width : Added(k)[i] = SumOf(g(i), A)
  BY <1>4, <1>5
<1> QED
  BY <1>1, <1>7, <1>8 DEF g, A

-----------------------------------------------------------------------------
(* Steps.  The metric is the same ever after.                              *)

LEMMA SameWorld ==
    ASSUME world' = world
    PROVE  /\ cell' = cell /\ kind' = kind /\ Width' = Width /\ Vectors' = Vectors
           /\ \A o, m : IsMetric(o, m)' <=> IsMetric(o, m)
           /\ \A ser : IsSeries(ser)' <=> IsSeries(ser)
           /\ \A o, p : PointCounts(o, p)' = PointCounts(o, p)
<1>1. cell' = cell /\ kind' = kind
  BY DEF cell, kind
<1>2. Width' = Width /\ Vectors' = Vectors
  BY <1>1 DEF Width, Vectors
<1>3. \A o, p : PointCounts(o, p)' = PointCounts(o, p)
  BY <1>1 DEF PointCounts, TextCounts, WireCounts
<1>4. \A o, m : IsMetric(o, m)' <=> IsMetric(o, m)
  BY <1>2, <1>3 DEF IsMetric
<1>5. \A ser : IsSeries(ser)' <=> IsSeries(ser)
  BY <1>1 DEF IsSeries
<1> QED
  BY <1>1, <1>2, <1>3, <1>4, <1>5

\* An update leaves what the observers have.
LEMMA UpdateFrame ==
    ASSUME Types, UNCHANGED <<world, observer, outcome>>
    PROVE  /\ \A o \in Observers, k \in Keys :
                 last_values'[o][k] # None => Sound(kind', cell', last_values'[o][k])
           /\ \A o \in Observers : IsSeries(series[o])'
           /\ Metrics'
<1>1. UNCHANGED <<cell, kind, last_values, series, exported>>
  BY DEF observer, outcome, cell, kind
<1>2. Metrics'
  BY <1>1, SameWorld DEF Types, Metrics
<1>3. \A o \in Observers : IsSeries(series[o])'
  BY <1>1, SameWorld DEF Types, ValuesSound
<1> QED
  BY <1>1, <1>2, <1>3 DEF Types, ValuesSound

LEMMA GetOrCreateTypes ==
    ASSUME Types, NEW u \in Updates, GetOrCreate(u)
    PROVE  Types'
<1> DEFINE b == IF bucket[Key[u]] = None THEN u ELSE bucket[Key[u]]
<1>0. /\ u \in world.calls /\ upc[u] = "called"
      /\ bucket' = [bucket EXCEPT ![Key[u]] = b]
      /\ ref' = [ref EXCEPT ![u] = b]
      /\ upc' = [upc EXCEPT ![u] = IF NeedsAlias[u] THEN "insert_dup" ELSE "update"]
      /\ UNCHANGED <<world, aliases, value, lock, old, progress, observer, outcome, history>>
  BY DEF GetOrCreate
<1>1. b \in Updates
  BY ObserverAssumption DEF Types, Typed
<1> HIDE DEF b
<1>2. Typed'
  <2>1. UNCHANGED Vectors
    BY <1>0, SameWorld
  <2> QED
    BY <1>0, <1>1, <2>1, SameWorld DEF Types, Typed, Labels, progress, observer, outcome, history
<1>3. Called'
  BY <1>0, <1>1 DEF Types, Typed, Called, cell, kind, history
<1>4. ValuesSound' /\ Metrics'
  BY <1>0, UpdateFrame DEF Types, ValuesSound, cell, kind
<1> QED
  BY <1>2, <1>3, <1>4 DEF Types

LEMMA LookupTypes ==
    ASSUME Types, NEW u \in Updates, LookupDup(u) \/ insert_dup(u)
    PROVE  Types'
<1>1. /\ upc[u] \in {"called", "insert_dup"} /\ u \in world.calls /\ UNCHANGED <<world, bucket, value, cell, kind>>
      /\ Fingerprint[u] \in Fingerprints
      /\ upc' = [upc EXCEPT ![u] = "update"]
      /\ UNCHANGED <<lock, old, progress, observer, outcome, created, begun, seen, overlapped, lost, sunk>>
  BY ObserverAssumption DEF LookupDup, insert_dup, source, history, Types, Called, cell, kind
<1>2. /\ ref' \in [Updates -> Updates \cup {None}] /\ ref'[u] \in Updates
      /\ \A w \in Updates : w # u => ref'[w] = ref[w]
      /\ aliases' \in [Fingerprints -> Updates \cup {None}]
      /\ misled' \subseteq Updates
  <2>1. CASE LookupDup(u)
    BY <1>1, <2>1 DEF LookupDup, source, Types, Typed
  <2>2. CASE insert_dup(u)
    BY <1>1, <2>2 DEF insert_dup, history, Types, Typed, Called
  <2> QED
    BY <2>1, <2>2
<1>3. Typed'
  <2>1. UNCHANGED Vectors
    BY <1>1, SameWorld
  <2> QED
    BY <1>1, <1>2, <2>1 DEF Types, Typed, Labels, progress, observer, outcome
<1>4. Called'
  BY <1>1, <1>2 DEF Types, Typed, Called
<1>5. ValuesSound' /\ Metrics'
  BY <1>1, UpdateFrame DEF Types, ValuesSound
<1> QED
  BY <1>3, <1>4, <1>5 DEF Types

LEMMA ValueTypes ==
    ASSUME Types, NEW u \in Updates, upc[u] # "called", NEW v, Sound(kind, cell, v),
           value' = [value EXCEPT ![ref[u]] = v],
           upc' = [upc EXCEPT ![u] = "returned"],
           lost' \subseteq Updates,
           sunk' = sunk \/ (cell = "AtomicU64" /\ sunk' = sunk \cup {u}),
           UNCHANGED <<world, bucket, aliases, lock, ref, old, progress, observer, outcome,
                       created, begun, seen, overlapped, misled>>
    PROVE  Types'
<1>1. ref[u] \in Updates /\ v \in Int \cup Histograms /\ UNCHANGED <<cell, kind>>
  BY DEF Types, Called, Sound, IsValue, cell, kind
<1>2. Typed'
  <2>1. UNCHANGED Vectors
    BY SameWorld
  <2>2. value' \in [Updates -> Int \cup Histograms]
    BY <1>1 DEF Types, Typed
  <2> QED
    BY <1>1, <2>1, <2>2 DEF Types, Typed, Labels, progress, observer, outcome
<1>3. Called'
  BY <1>1 DEF Types, Typed, Called
<1>4. \A b \in Updates : Sound(kind', cell', value'[b])
  BY <1>1 DEF Types, Typed, ValuesSound
<1>5. ValuesSound' /\ Metrics'
  BY <1>4, UpdateFrame DEF ValuesSound
<1> QED
  BY <1>2, <1>3, <1>5 DEF Types

LEMMA ClearTypes ==
    ASSUME Types, NEW u \in Updates, Clear(u)
    PROVE  Types'
<1>1. Sound(kind, cell, Initial(cell))
  BY TheCell, InitialSound DEF Types, Typed
<1>2. lost' \subseteq Updates /\ upc[u] # "called" /\ sunk' = sunk
  BY DEF Clear, history, Types, Typed
<1> QED
  BY <1>1, <1>2, ValueTypes DEF Clear, history

LEMMA StoreTypes ==
    ASSUME Types, NEW u \in Updates, upc[u] \in {"update", "exchange"}, Op[u] # "reset",
           NEW v, Sound(kind, cell, v), Store(u, v)
    PROVE  Types'
<1>1. u \in world.calls /\ upc[u] # "called" /\ world \in Worlds /\ cell \in Cells
  BY TheCell DEF Types, Called, Typed
<1>2. Sound(kind, cell, Plus(cell, v, One(u)))
  BY <1>1, OneType, PlusSound
<1>3. lost' \subseteq Updates /\ (sunk' = sunk \/ (cell = "AtomicU64" /\ sunk' = sunk \cup {u}))
  BY DEF Store, Types, Typed
<1> QED
  BY <1>1, <1>2, <1>3, ValueTypes DEF Store

LEMMA FetchAddTypes ==
    ASSUME Types, NEW u \in Updates, FetchAdd(u)
    PROVE  Types'
<1>1. Sound(kind, cell, value[ref[u]])
  BY DEF FetchAdd, Types, Called, ValuesSound
<1> QED
  BY <1>1, StoreTypes DEF FetchAdd

LEMMA SetTypes ==
    ASSUME Types, NEW u \in Updates, Set(u)
    PROVE  Types'
<1>1. Sound(kind, cell, Initial(cell))
  BY TheCell, InitialSound DEF Types, Typed
<1> QED
  BY <1>1, StoreTypes DEF Set

LEMMA CompareExchangeTypes ==
    ASSUME Types, NEW u \in Updates, CompareExchange(u)
    PROVE  Types'
<1>1. Op[u] # "reset" /\ Sound(kind, cell, old[u])
  BY DEF CompareExchange, Types, Called, ValuesSound
<1> QED
  BY <1>1, StoreTypes DEF CompareExchange

LEMMA LoadTypes ==
    ASSUME Types, NEW u \in Updates, LoadBits(u) \/ CompareExchangeFails(u)
    PROVE  Types'
<1>1. /\ upc[u] # "called" /\ upc[u] # "returned" /\ cell = "AtomicF64" /\ Op[u] \in {"add", "sub"}
      /\ old' = [old EXCEPT ![u] = value[ref[u]]]
      /\ upc' = [upc EXCEPT ![u] = "exchange"]
      /\ UNCHANGED <<source, lock, ref, progress, observer, outcome, history>>
  <2>1. CASE LoadBits(u)
    BY <2>1 DEF LoadBits
  <2>2. CASE CompareExchangeFails(u)
    BY <2>2 DEF CompareExchangeFails, Types, Typed, Called
  <2> QED
    BY <2>1, <2>2
<1>2. /\ ref[u] \in Updates /\ value[ref[u]] \in Int /\ (kind # "Gauge" => value[ref[u]] >= 0)
      /\ UNCHANGED <<world, bucket, aliases, value, cell, kind>>
  BY <1>1 DEF Types, Called, ValuesSound, Sound, IsValue, cell, kind, source
<1>3. Typed'
  <2>1. UNCHANGED Vectors
    BY <1>2, SameWorld
  <2> QED
    BY <1>1, <1>2, <2>1 DEF Types, Typed, Labels, progress, observer, outcome, history
<1>4. Called'
  BY <1>1, <1>2 DEF Types, Typed, Called, history
<1>5. ValuesSound' /\ Metrics'
  BY <1>1, <1>2, UpdateFrame DEF Types, ValuesSound
<1> QED
  BY <1>3, <1>4, <1>5 DEF Types

LEMMA LiveType ==
    ASSUME Typed
    PROVE  Live \in SUBSET Entries
BY DEF Typed, Live, Entries

LEMMA AddedNowType ==
    ASSUME Typed
    PROVE  AddedNow \in [Keys -> Vectors]
BY AddedType DEF Typed, AddedNow

LEMMA BeginTypes ==
    ASSUME Types, NEW o \in Observers, BeginVisit(o) \/ BeginTake(o)
    PROVE  Types'
<1>0. /\ \E t \in start_time[o] .. start_time[o] + MaxDelay : ts' = [ts EXCEPT ![o] = t]
      /\ opc' = [opc EXCEPT ![o] = "observing"]
      /\ todo' = [todo EXCEPT ![o] = Live]
      /\ begun' = [begun EXCEPT ![o] = AddedNow]
      /\ UNCHANGED <<world, value, updates, observer, outcome, created, seen, misled, lost, sunk>>
  <2>1. Begin(o) /\ UNCHANGED <<world, value, updates, observer, outcome, created, seen, misled, lost, sunk>>
    BY DEF BeginVisit, BeginTake, source
  <2> QED
    BY <2>1 DEF Begin
<1>1. /\ lock' \in Observers \cup {None}
      /\ bucket' \in [Keys -> Updates \cup {None}]
      /\ aliases' \in [Fingerprints -> Updates \cup {None}]
      /\ overlapped' \subseteq Updates
  BY DEF BeginVisit, BeginTake, Types, Typed, source
<1>2. ts' \in [Observers -> Int]
  BY <1>0, ObserverAssumption DEF Types, Typed
<1>3. todo' \in [Observers -> SUBSET Entries] /\ begun' \in [Observers -> [Keys -> Vectors]]
  BY <1>0, LiveType, AddedNowType DEF Types, Typed
<1>4. Typed'
  <2>1. UNCHANGED Vectors
    BY <1>0, SameWorld
  <2> QED
    BY <1>0, <1>1, <1>2, <1>3, <2>1, SameWorld DEF Types, Typed, updates, observer, outcome
<1>5. Called'
  BY <1>0 DEF Types, Called, updates, cell, kind
<1>6. ValuesSound' /\ Metrics'
  BY <1>0, UpdateFrame DEF Types, ValuesSound, cell, kind
<1> QED
  BY <1>4, <1>5, <1>6 DEF Types

\* A snapshot is added to the series of one key.
Grows(o, k, v) ==
    /\ Record(o, k, v)
    /\ series'[o][k] = Append(series[o][k], [seq_id |-> seq[o], ts |-> ts[o], value |-> v])
    /\ \A p \in Observers, l \in Keys :
          p # o \/ l # k => series'[p][l] = series[p][l]

LEMMA RecordTypes ==
    ASSUME Typed, \A p \in Observers : IsSeries(series[p]),
           NEW o \in Observers, NEW k \in Keys, NEW v, Sound(kind, cell, v), Record(o, k, v)
    PROVE  /\ series' \in [Observers -> [Keys -> Seq(Snapshot)]]
           /\ Grows(o, k, v)
           /\ \A p \in Observers : IsSeries(series'[p])
<1> DEFINE s == [seq_id |-> seq[o], ts |-> ts[o], value |-> v]
<1>1. s \in Snapshot
  BY DEF Snapshot, Typed, Sound, IsValue
<1> HIDE DEF s
<1>2. series' = [series EXCEPT ![o][k] = Append(@, s)]
  BY DEF Record, s
<1>3. series[o][k] \in Seq(Snapshot) /\ Append(series[o][k], s) \in Seq(Snapshot)
  BY <1>1 DEF Typed
<1>4. series' \in [Observers -> [Keys -> Seq(Snapshot)]]
  BY <1>2, <1>3 DEF Typed
<1>5. series'[o][k] = Append(series[o][k], s)
      /\ \A p \in Observers, l \in Keys : p # o \/ l # k => series'[p][l] = series[p][l]
  BY <1>2 DEF Typed
<1>6. \A n \in DOMAIN series'[o][k] : Sound(kind, cell, series'[o][k][n].value)
  <2> SUFFICES ASSUME NEW n \in DOMAIN series'[o][k] PROVE Sound(kind, cell, series'[o][k][n].value)
    OBVIOUS
  <2>1. n \in 1 .. Len(series[o][k]) + 1
    BY <1>3, <1>5
  <2>2. CASE n = Len(series[o][k]) + 1
    <3>1. series'[o][k][n] = s
      BY <1>3, <1>5, <2>2
    <3> QED
      BY <3>1 DEF s
  <2>3. CASE n # Len(series[o][k]) + 1
    <3>1. series'[o][k][n] = series[o][k][n] /\ n \in DOMAIN series[o][k]
      BY <1>3, <1>5, <2>1, <2>3
    <3> QED
      BY <3>1 DEF IsSeries
  <2> QED
    BY <2>2, <2>3
<1>7. \A p \in Observers : IsSeries(series'[p])
  <2> SUFFICES ASSUME NEW p \in Observers PROVE IsSeries(series'[p])
    OBVIOUS
  <2>1. series'[p] \in [Keys -> Seq(Snapshot)]
    BY <1>4
  <2>2. ASSUME NEW l \in Keys
        PROVE  \A n \in DOMAIN series'[p][l] : Sound(kind, cell, series'[p][l][n].value)
    <3>1. CASE p = o /\ l = k
      BY <1>6, <3>1
    <3>2. CASE p # o \/ l # k
      <4>1. series'[p][l] = series[p][l]
        BY <1>5, <3>2
      <4> QED
        BY <4>1 DEF IsSeries
    <3> QED
      BY <3>1, <3>2
  <2> QED
    BY <2>1, <2>2 DEF IsSeries
<1> QED
  BY <1>4, <1>5, <1>7 DEF Grows, s

\* The value o records of an entry e of the table when it visits it.
Recorded(o, e) ==
    LET current == value[e[2]]
        prev == last_values[o][e[1]]
    IN  IF Mode[o] = "Delta" /\ prev # None /\ Less(cell, prev, current)
        THEN Minus(cell, current, prev) ELSE current

Visits(o, e) ==
    /\ todo' = [todo EXCEPT ![o] = @ \ {e}]
    /\ last_values' = IF Mode[o] = "Delta" THEN [last_values EXCEPT ![o][e[1]] = value[e[2]]]
                      ELSE last_values
    /\ IF Mode[o] = "Delta" /\ last_values[o][e[1]] = value[e[2]]
       THEN UNCHANGED series
       ELSE Record(o, e[1], Recorded(o, e))
    /\ UNCHANGED <<source, lock, updates, opc, ts, start_time, seq, outcome, history>>

Reads(o, e) ==
    /\ todo' = [todo EXCEPT ![o] = @ \ {e}]
    /\ IF is_initial(cell, value[e[2]])
       THEN UNCHANGED series
       ELSE Record(o, e[1], value[e[2]])
    /\ UNCHANGED <<source, lock, updates, opc, ts, start_time, seq, last_values, outcome, history>>

LEMMA Readers ==
    ASSUME NEW o \in Observers
    PROVE  /\ VisitBucket(o) <=> Mode[o] # "Destructive" /\ \E e \in todo[o] : Visits(o, e)
           /\ ReadBucket(o) <=> Mode[o] = "Destructive" /\ \E e \in todo[o] : Reads(o, e)
<1>1. VisitBucket(o) <=> Mode[o] # "Destructive" /\ \E e \in todo[o] : Visits(o, e)
  BY Zenon DEF VisitBucket, Visits, Recorded
<1>2. ReadBucket(o) <=> Mode[o] = "Destructive" /\ \E e \in todo[o] : Reads(o, e)
  BY Zenon DEF ReadBucket, Reads
<1> QED
  BY <1>1, <1>2

LEMMA RecordedSound ==
    ASSUME Types, NEW o \in Observers, NEW e \in todo[o]
    PROVE  /\ e[1] \in Keys /\ e[2] \in Updates /\ e = <<e[1], e[2]>>
           /\ value[e[2]] \in Int \cup Histograms
           /\ Sound(kind, cell, value[e[2]]) /\ Sound(kind, cell, Recorded(o, e))
<1>1. e[1] \in Keys /\ e[2] \in Updates /\ e = <<e[1], e[2]>>
  BY SMTT(20) DEF Types, Typed, Entries
<1> DEFINE current == value[e[2]]
           prev == last_values[o][e[1]]
           grown == Mode[o] = "Delta" /\ prev # None /\ Less(cell, prev, current)
<1>2. cell \in Cells
  BY TheCell DEF Types, Typed
<1>3. Sound(kind, cell, current)
  BY <1>1 DEF Types, ValuesSound
<1>4. grown => Sound(kind, cell, prev)
  BY <1>1 DEF Types, ValuesSound
<1>5. Recorded(o, e) = IF grown THEN Minus(cell, current, prev) ELSE current
  BY Zenon DEF Recorded
<1> HIDE DEF current, prev
<1>6. Sound(kind, cell, Recorded(o, e)) /\ current \in Int \cup Histograms
  BY <1>2, <1>3, <1>4, <1>5, MinusSound DEF Sound, IsValue
<1> QED
  BY <1>1, <1>3, <1>6 DEF current

LEMMA VisitTypes ==
    ASSUME Types, NEW o \in Observers, VisitBucket(o)
    PROVE  Types'
<1>0. PICK e \in todo[o] : Visits(o, e)
  BY Readers
<1>1. UNCHANGED <<source, lock, updates, opc, ts, start_time, seq, outcome, history>>
  BY <1>0 DEF Visits
<1>2. UNCHANGED <<world, bucket, aliases, value, cell, kind, Vectors>>
  BY <1>1, SameWorld DEF source
<1> DEFINE k == e[1]
           current == value[e[2]]
           v == Recorded(o, e)
<1>3. e[1] \in Keys /\ e[2] \in Updates
  BY RecordedSound
<1>4. Sound(kind, cell, current) /\ Sound(kind, cell, v) /\ current \in Int \cup Histograms
  BY RecordedSound
<1>5. /\ last_values' \in [Observers -> [Keys -> Int \cup Histograms \cup {None}]]
      /\ \A p \in Observers, l \in Keys : last_values'[p][l] # None => Sound(kind, cell, last_values'[p][l])
  <2>1. last_values' = last_values \/ last_values' = [last_values EXCEPT ![o][k] = current]
    BY <1>0 DEF Visits
  <2>2. k \in Keys
    BY <1>3
  <2> HIDE DEF current, k
  <2>3. CASE last_values' = last_values
    BY <2>3 DEF Types, Typed, ValuesSound
  <2>4. CASE last_values' = [last_values EXCEPT ![o][k] = current]
    <3>1. last_values' \in [Observers -> [Keys -> Int \cup Histograms \cup {None}]]
      BY <1>4, <2>2, <2>4 DEF Types, Typed
    <3>2. \A p \in Observers, l \in Keys :
              last_values'[p][l] = IF p = o /\ l = k THEN current ELSE last_values[p][l]
      BY <2>2, <2>4 DEF Types, Typed
    <3> QED
      BY <1>4, <3>1, <3>2 DEF Types, ValuesSound
  <2> QED
    BY <2>1, <2>3, <2>4
<1>6. /\ series' \in [Observers -> [Keys -> Seq(Snapshot)]]
      /\ \A p \in Observers : IsSeries(series'[p])
  <2>1. series' = series \/ Record(o, k, v)
    BY <1>0 DEF Visits
  <2> HIDE DEF k, v
  <2>2. CASE series' = series
    BY <2>2 DEF Types, Typed, ValuesSound
  <2>3. CASE Record(o, k, v)
    BY <1>3, <1>4, <2>3, RecordTypes DEF Types, ValuesSound, k
  <2> QED
    BY <2>1, <2>2, <2>3
<1>7. todo' \in [Observers -> SUBSET Entries]
  BY <1>0 DEF Visits, Types, Typed
<1>8. Typed'
  BY <1>1, <1>2, <1>5, <1>6, <1>7 DEF Types, Typed, updates, outcome, history
<1>9. Called'
  BY <1>1, <1>2 DEF Types, Called, updates, history
<1>10. Metrics'
  BY <1>1, <1>2, SameWorld DEF Types, Metrics, outcome
<1>11. ValuesSound'
  <2>1. \A p \in Observers : IsSeries(series[p])'
    BY <1>2, <1>6, SameWorld
  <2> QED
    BY <1>2, <1>5, <2>1 DEF Types, ValuesSound
<1> QED
  BY <1>8, <1>9, <1>10, <1>11 DEF Types

LEMMA ReadTypes ==
    ASSUME Types, NEW o \in Observers, ReadBucket(o)
    PROVE  Types'
<1>0. PICK e \in todo[o] : Reads(o, e)
  BY Readers
<1>1. UNCHANGED <<source, lock, updates, opc, ts, start_time, seq, last_values,
                  outcome, history>>
  BY <1>0 DEF Reads
<1>2. UNCHANGED <<world, bucket, aliases, value, cell, kind, Vectors>>
  BY <1>1, SameWorld DEF source
<1>3. e[1] \in Keys /\ e[2] \in Updates /\ Sound(kind, cell, value[e[2]])
  BY RecordedSound
<1>4. /\ series' \in [Observers -> [Keys -> Seq(Snapshot)]]
      /\ \A p \in Observers : IsSeries(series'[p])
  <2>1. CASE UNCHANGED series
    BY <2>1 DEF Types, Typed, ValuesSound
  <2>2. CASE Record(o, e[1], value[e[2]])
    BY <1>3, <2>2, RecordTypes DEF Types, ValuesSound
  <2> QED
    BY <1>0, <2>1, <2>2 DEF Reads
<1>5. todo' \in [Observers -> SUBSET Entries]
  BY <1>0 DEF Reads, Types, Typed
<1>6. Typed'
  BY <1>1, <1>2, <1>4, <1>5 DEF Types, Typed, updates, outcome, history
<1>7. Called'
  BY <1>1, <1>2 DEF Types, Called, updates, history
<1>8. Metrics'
  BY <1>1, <1>2, SameWorld DEF Types, Metrics, outcome
<1>9. ValuesSound'
  <2>1. \A p \in Observers : IsSeries(series[p])'
    BY <1>2, <1>4, SameWorld
  <2> QED
    BY <1>1, <1>2, <2>1 DEF Types, ValuesSound
<1> QED
  BY <1>6, <1>7, <1>8, <1>9 DEF Types

-----------------------------------------------------------------------------
(* What is pending and what has been delivered                             *)

LEMMA SumType ==
    ASSUME NEW D, IsFiniteSet(D), NEW counts, DOMAIN counts = D, \A e \in D : counts[e] \in Vectors,
           Vectors = [1 .. Width -> Int]
    PROVE  /\ Sum(counts) \in Vectors
           /\ \A i \in 1 .. Width : Sum(counts)[i] = SumOf([e \in D |-> counts[e][i]], D)
<1> DEFINE g(i) == [e \in D |-> counts[e][i]]
<1>1. Sum(counts) = [i \in 1 .. Width |-> SumFunction(g(i))]
  BY Zenon DEF Sum
<1>2. ASSUME NEW i \in 1 .. Width
      PROVE  SumFunction(g(i)) = SumOf(g(i), D) /\ SumOf(g(i), D) \in Int
  <2>1. DOMAIN g(i) = D /\ \A e \in D : g(i)[e] \in Int
    OBVIOUS
  <2> HIDE DEF g
  <2> QED
    BY <2>1, SumFunctionIs, SumTake
<1> HIDE DEF g
<1>3. Sum(counts) \in Vectors
  BY <1>1, <1>2
<1>4. \A i \in 1 .. Width : Sum(counts)[i] = SumOf(g(i), D)
  BY <1>1, <1>2
<1> QED
  BY <1>3, <1>4 DEF g

\* What the snapshots of k in a series count.
CountsIn(ser, k) == Sum([n \in DOMAIN ser[k] |-> Counts(cell, ser[k][n].value)])

LEMMA PendingIs ==
    ASSUME cell \in Cells, NEW ser, IsSeries(ser), NEW k \in Keys
    PROVE  /\ CountsIn(ser, k) \in Vectors
           /\ IsFiniteSet(DOMAIN ser[k])
           /\ \A n \in DOMAIN ser[k] : Counts(cell, ser[k][n].value) \in Vectors
           /\ \A i \in 1 .. Width : CountsIn(ser, k)[i] =
                 SumOf([n \in DOMAIN ser[k] |-> Counts(cell, ser[k][n].value)[i]], DOMAIN ser[k])
<1> DEFINE D == DOMAIN ser[k]
           counts == [n \in D |-> Counts(cell, ser[k][n].value)]
<1>1. IsFiniteSet(D)
  <2>1. ser[k] \in Seq(Snapshot) /\ D = 1 .. Len(ser[k]) /\ Len(ser[k]) \in Nat
    BY DEF IsSeries
  <2> QED
    BY <2>1, FirstNumbers
<1>2. Vectors = [1 .. Width -> Int] /\ Vectors = [1 .. Size(cell) -> Int]
  BY Sizes DEF Vectors
<1>3. \A n \in D : counts[n] \in Vectors
  BY <1>2, CountsType DEF IsSeries
<1>4. DOMAIN counts = D
  OBVIOUS
<1> HIDE DEF counts
<1>5. /\ Sum(counts) \in Vectors
      /\ \A i \in 1 .. Width : Sum(counts)[i] = SumOf([n \in D |-> counts[n][i]], D)
  <2> HIDE DEF D
  <2> QED
    BY <1>1, <1>2, <1>3, <1>4, SumType
<1>6. CountsIn(ser, k) = Sum(counts)
  BY DEF CountsIn, counts
<1>7. \A i \in 1 .. Width :
         [n \in D |-> counts[n][i]] = [n \in D |-> Counts(cell, ser[k][n].value)[i]]
  BY DEF counts
<1>8. \A n \in D : counts[n] = Counts(cell, ser[k][n].value)
  BY DEF counts
<1> QED
  BY <1>1, <1>3, <1>5, <1>6, <1>7, <1>8

\* What a metric counts of k, and what some metrics do.
MetricCounts(o, m, k) ==
    [i \in 1 .. Width |-> SumOf([e \in PlacesOf(o, m, k) |-> PointCounts(o, m.data_points[e])[i]],
                                PlacesOf(o, m, k))]

LEMMA TotalIs ==
    ASSUME NEW o \in Observers, NEW S, NEW metrics \in Seq(S),
           \A j \in DOMAIN metrics : IsMetric(o, metrics[j]), NEW k \in Keys
    PROVE  LET total == Total(ReadAll(o, metrics, k))
           IN  /\ total \in Vectors
               /\ IsFiniteSet(DOMAIN metrics)
               /\ \A j \in DOMAIN metrics : MetricCounts(o, metrics[j], k) \in Vectors
               /\ \A i \in 1 .. Width : total[i] =
                     SumOf([j \in DOMAIN metrics |-> MetricCounts(o, metrics[j], k)[i]],
                           DOMAIN metrics)
<1> DEFINE D == DOMAIN metrics
           r == ReadAll(o, metrics, k)
           inner(j) == [e \in DOMAIN r[j] |-> r[j][e].counts]
           counts == [j \in D |-> Sum(inner(j))]
<1>1. IsFiniteSet(D)
  <2>1. D = 1 .. Len(metrics) /\ Len(metrics) \in Nat
    OBVIOUS
  <2> QED
    BY <2>1, FirstNumbers
<1>2. DOMAIN r = D /\ \A j \in D : r[j] = ReadMetric(o, metrics[j], k)
  BY DEF ReadAll
<1>3. ASSUME NEW j \in D
      PROVE  Sum(inner(j)) \in Vectors /\ Sum(inner(j)) = MetricCounts(o, metrics[j], k)
  <2> DEFINE m == metrics[j]
             x == ReadMetric(o, m, k)
             c == [e \in DOMAIN x |-> x[e].counts]
  <2>1. Sum(c) \in Vectors /\ \A i \in 1 .. Width : Sum(c)[i] =
            SumOf([e \in PlacesOf(o, m, k) |-> PointCounts(o, m.data_points[e])[i]], PlacesOf(o, m, k))
    BY ReadingsSum
  <2>2. inner(j) = c
    BY <1>2
  <2> HIDE DEF c, m, inner
  <2>3. Sum(c) = MetricCounts(o, m, k)
    BY <2>1 DEF MetricCounts, Vectors
  <2> QED
    BY <2>1, <2>2, <2>3 DEF m
<1> HIDE DEF inner
<1>4. Total(r) = Sum(counts)
  BY <1>2 DEF Total, inner
<1>5. DOMAIN counts = D /\ \A j \in D : counts[j] \in Vectors /\ counts[j] = MetricCounts(o, metrics[j], k)
  BY <1>3
<1> HIDE DEF counts, r
<1>6. /\ Sum(counts) \in Vectors
      /\ \A i \in 1 .. Width : Sum(counts)[i] = SumOf([j \in D |-> counts[j][i]], D)
  <2> HIDE DEF D
  <2>1. Vectors = [1 .. Width -> Int]
    BY DEF Vectors
  <2> QED
    BY <1>1, <1>5, <2>1, SumType
<1>7. \A i \in 1 .. Width :
         [j \in D |-> counts[j][i]] = [j \in D |-> MetricCounts(o, metrics[j], k)[i]]
  BY <1>5
<1> QED
  BY <1>1, <1>4, <1>5, <1>6, <1>7 DEF r

LEMMA OutcomeType ==
    ASSUME Types, NEW o \in Observers, NEW k \in Keys
    PROVE  /\ PendingCounts(o, k) \in Vectors /\ Pending(o, k) \in Int /\ Delivered(o, k) \in Int
           /\ PendingCounts(o, k) = CountsIn(series[o], k)
<1>1. Vectors = [1 .. Width -> Int] /\ 1 \in 1 .. Width /\ cell \in Cells
  BY Sizes, TheCell DEF Vectors, Types, Typed
<1>2. PendingCounts(o, k) = CountsIn(series[o], k)
  BY DEF PendingCounts, CountsIn
<1>3. CountsIn(series[o], k) \in Vectors
  BY <1>1, PendingIs DEF Types, ValuesSound
<1>4. Total(ReadAll(o, exported[o], k)) \in Vectors
  <2>1. PICK S : exported[o] \in Seq(S)
    BY DEF Types, Typed
  <2> QED
    BY <2>1, TotalIs DEF Types, Metrics
<1> QED
  BY <1>1, <1>2, <1>3, <1>4 DEF Pending, Delivered

LEMMA EndTypes ==
    ASSUME Types, NEW o \in Observers, EndObserve(o)
    PROVE  Types'
<1>0. /\ opc' = [opc EXCEPT ![o] = "idle"]
      /\ lock' = IF lock = o THEN None ELSE lock
      /\ seq' = [seq EXCEPT ![o] = @ + 1]
      /\ seen' = [seen EXCEPT ![o] = begun[o]]
      /\ UNCHANGED <<source, updates, todo, ts, start_time, last_values, series,
                     outcome, created, begun, overlapped, misled, lost, sunk>>
  BY DEF EndObserve
<1>1. UNCHANGED <<world, bucket, aliases, value, cell, kind, Vectors>>
  BY <1>0, SameWorld DEF source
<1>2. Typed'
  BY <1>0, <1>1 DEF Types, Typed, updates, outcome
<1>3. Called'
  BY <1>0, <1>1 DEF Types, Called, updates, history
<1>4. Metrics'
  BY <1>0, <1>1, SameWorld DEF Types, Metrics, outcome
<1>5. ValuesSound'
  <2>1. \A p \in Observers : IsSeries(series[p])'
    BY <1>0, <1>1, SameWorld DEF Types, ValuesSound
  <2> QED
    BY <1>0, <1>1, <2>1 DEF Types, ValuesSound
<1> QED
  BY <1>2, <1>3, <1>4, <1>5 DEF Types

\* Nothing is left in the series.
LEMMA NoSeriesIs ==
    /\ NoSeries \in [Keys -> Seq(Snapshot)] /\ IsSeries(NoSeries)
    /\ \A k \in Keys : NoSeries[k] = <<>> /\ DOMAIN NoSeries[k] = {}
BY DEF NoSeries, IsSeries

\* What is exported is a metric, and of the points of the series.
LEMMA PiecesAreMetrics ==
    ASSUME Types, NEW o \in Observers, into_wire(o).is = "Some"
    PROVE  IsMetric(o, into_wire(o).metric)
<1> DEFINE m == into_wire(o).metric
           P == PlacesIn(series[o])
<1>1. cell \in Cells /\ kind \in Kinds /\ IsSeries(series[o]) /\ start_time[o] \in Int
  BY TheCell DEF Types, Typed, ValuesSound
<1>2. /\ DOMAIN m.data_points = P
      /\ \A e \in P : PointOf(o, series[o], start_time[o], e, m.data_points[e])
      /\ series[o] # NoSeries
  <2>1. series[o] # NoSeries
    BY <1>1, Converted
  <2> QED
    BY <1>1, <2>1, Converted
<1>3. IsFiniteSet(P) /\ P # {}
  BY <1>1, <1>2, PlacesFinite DEF IsSeries
<1>4. \A e \in P : Place(e) /\ series[o][e[1]][e[2]] \in Snapshot
                   /\ Sound(kind, cell, series[o][e[1]][e[2]].value)
  BY <1>1 DEF PlacesIn, Place, IsSeries
<1>5. \A e \in P : align_ts(series[o][e[1]][e[2]], start_time[o], Align[o]) \in Int
  <2> SUFFICES ASSUME NEW s \in Snapshot, NEW a \in {Period, None}
               PROVE  align_ts(s, start_time[o], a) \in Int
    BY <1>4, ObserverAssumption
  <2> QED
    BY <1>1, ObserverAssumption DEF align_ts, Snapshot
<1>6. \A e \in P : Counts(cell, series[o][e[1]][e[2]].value) \in Vectors
  BY <1>1, <1>4, CountsType, Sizes
<1> HIDE DEF m, P
<1>7. IsMetric(o, m)
  BY <1>2, <1>3, <1>4, <1>5, <1>6 DEF IsMetric, PointOf
<1> QED
  BY <1>7 DEF m

LEMMA ShedType ==
    ASSUME Types, NEW o \in Observers
    PROVE  ShedSeries(o) \in [Keys -> Int] /\ ShedAll(o) \in [Keys -> Int]
<1>1. ASSUME NEW k \in Keys
      PROVE  shed[o][k] + Pending(o, k) \in Int /\ shed[o][k] + Pending(o, k) + Delivered(o, k) \in Int
  <2>1. Pending(o, k) \in Int /\ Delivered(o, k) \in Int
    BY OutcomeType
  <2>2. shed[o][k] \in Int
    BY DEF Types, Typed
  <2> QED
    BY <2>1, <2>2
<1> QED
  BY <1>1 DEF ShedSeries, ShedAll

LEMMA ExportTypes ==
    ASSUME Types, NEW o \in Observers, Export(o)
    PROVE  Types'
<1> DEFINE wire == into_wire(o)
<1>0. /\ series[o] # NoSeries
      /\ Deliver(o, wire)
      /\ series' = [series EXCEPT ![o] = NoSeries]
      /\ UNCHANGED <<source, lock, updates, progress, start_time, seq, last_values, history>>
  BY DEF Export
<1>1. UNCHANGED <<world, bucket, aliases, value, cell, kind, Vectors>>
  BY <1>0, SameWorld DEF source
<1>2. wire.is \in {"Err", "Some"}
  BY <1>0, TheCell, Converted DEF Types, Typed, ValuesSound
<1>3. wire.is = "Some" => IsMetric(o, wire.metric)
  BY PiecesAreMetrics
<1> HIDE DEF wire
<1>4. dropped' \subseteq Observers /\ shed' \in [Observers -> [Keys -> Int]]
  <2>1. ShedSeries(o) \in [Keys -> Int]
    BY ShedType
  <2>2. \/ dropped' = dropped \cup {o} /\ shed' = [shed EXCEPT ![o] = ShedSeries(o)]
        \/ UNCHANGED <<dropped, shed>>
    BY <1>0 DEF Deliver
  <2>3. dropped \subseteq Observers /\ shed \in [Observers -> [Keys -> Int]]
    BY DEF Types, Typed
  <2> QED
    BY <2>1, <2>2, <2>3
<1>5. /\ \E S : exported' \in [Observers -> Seq(S)]
      /\ \A p \in Observers : \A i \in DOMAIN exported'[p] : IsMetric(p, exported'[p][i])
  <2>1. CASE wire.is = "Err"
    BY <1>0, <2>1 DEF Deliver, Types, Typed, Metrics
  <2>2. CASE wire.is # "Err"
    <3>1. exported' = [exported EXCEPT ![o] = Append(@, wire.metric)] /\ wire.is = "Some"
      BY <1>0, <1>2, <2>2 DEF Deliver
    <3>2. PICK S : exported \in [Observers -> Seq(S)]
      BY DEF Types, Typed
    <3> DEFINE U == S \cup {wire.metric}
    <3>3. \A p \in Observers : exported[p] \in Seq(U)
      BY <3>2
    <3>4. exported' \in [Observers -> Seq(U)]
      BY <3>1, <3>2, <3>3
    <3>5. \A p \in Observers : p # o => exported'[p] = exported[p]
      BY <3>1, <3>2
    <3>6. exported'[o] = Append(exported[o], wire.metric)
      BY <3>1, <3>2
    <3>7. \A i \in DOMAIN exported'[o] : IsMetric(o, exported'[o][i])
      <4>1. \A i \in DOMAIN exported'[o] : exported'[o][i] = wire.metric
                \/ (i \in DOMAIN exported[o] /\ exported'[o][i] = exported[o][i])
        BY <3>2, <3>6
      <4> QED
        BY <1>3, <3>1, <4>1 DEF Types, Metrics
    <3> QED
      BY <3>4, <3>5, <3>7 DEF Types, Metrics
  <2> QED
    BY <2>1, <2>2
<1>6. series' \in [Observers -> [Keys -> Seq(Snapshot)]]
      /\ \A p \in Observers : IsSeries(series'[p])
  BY <1>0, NoSeriesIs DEF Types, Typed, ValuesSound
<1>7. Typed'
  BY <1>0, <1>1, <1>4, <1>5, <1>6 DEF Types, Typed, updates, progress, history
<1>8. Called'
  BY <1>0, <1>1 DEF Types, Called, updates, history
<1>9. Metrics'
  BY <1>1, <1>5, SameWorld DEF Metrics
<1>10. ValuesSound'
  <2>1. \A p \in Observers : IsSeries(series[p])'
    BY <1>1, <1>6, SameWorld
  <2> QED
    BY <1>0, <1>1, <2>1 DEF Types, ValuesSound
<1> QED
  BY <1>7, <1>8, <1>9, <1>10 DEF Types

LEMMA ResetTypes ==
    ASSUME Types, NEW o \in Observers, Reset(o)
    PROVE  Types'
<1>0. /\ start_time' = [start_time EXCEPT ![o] = @ + Period * (tick(o, ts[o]) + 1)]
      /\ seq' = [seq EXCEPT ![o] = 0]
      /\ series' = [series EXCEPT ![o] = NoSeries]
      /\ last_values' = [last_values EXCEPT ![o] = [k \in Keys |-> None]]
      /\ exported' = [exported EXCEPT ![o] = <<>>]
      /\ dropped' = dropped \ {o}
      /\ shed' = [shed EXCEPT ![o] = ShedAll(o)]
      /\ seen' = [seen EXCEPT ![o] = [k \in Keys |-> Zero]]
      /\ UNCHANGED <<source, lock, updates, progress, created, begun, overlapped, misled, lost, sunk>>
  BY DEF Reset
<1>1. UNCHANGED <<world, bucket, aliases, value, cell, kind, Vectors>>
  BY <1>0, SameWorld DEF source
<1>2. shed' \in [Observers -> [Keys -> Int]]
  <2>1. ShedAll(o) \in [Keys -> Int]
    BY ShedType
  <2> QED
    BY <1>0, <2>1 DEF Types, Typed
<1>3. series' \in [Observers -> [Keys -> Seq(Snapshot)]]
      /\ \A p \in Observers : IsSeries(series'[p])
  BY <1>0, NoSeriesIs DEF Types, Typed, ValuesSound
<1>4. start_time' \in [Observers -> Int]
  <2>1. tick(o, ts[o]) \in Int
    BY ObserverAssumption DEF tick, Types, Typed
  <2> HIDE DEF tick
  <2>2. start_time[o] + Period * (tick(o, ts[o]) + 1) \in Int
    BY <2>1, ObserverAssumption DEF Types, Typed
  <2> QED
    BY <1>0, <2>2 DEF Types, Typed
<1>5. seen' \in [Observers -> [Keys -> Vectors]]
  BY <1>0 DEF Types, Typed, Zero, Vectors
<1>6. \E S : exported' \in [Observers -> Seq(S)]
  <2>1. PICK S : exported \in [Observers -> Seq(S)]
    BY DEF Types, Typed
  <2>2. exported' \in [Observers -> Seq(S)]
    BY <1>0, <2>1
  <2> QED
    BY <2>2
<1>7. Typed'
  BY <1>0, <1>1, <1>2, <1>3, <1>4, <1>5, <1>6 DEF Types, Typed, updates, progress
<1>8. Called'
  BY <1>0, <1>1 DEF Types, Called, updates, history
<1>9. Metrics'
  <2>1. \A p \in Observers : exported'[p] = exported[p] \/ DOMAIN exported'[p] = {}
    BY <1>0 DEF Types, Typed
  <2> QED
    BY <1>1, <2>1, SameWorld DEF Types, Metrics
<1>10. ValuesSound'
  <2>1. \A p \in Observers : IsSeries(series[p])'
    BY <1>1, <1>3, SameWorld
  <2>2. \A p \in Observers, k \in Keys : last_values'[p][k] = last_values[p][k] \/ last_values'[p][k] = None
    BY <1>0 DEF Types, Typed
  <2> QED
    BY <1>0, <1>1, <2>1, <2>2 DEF Types, ValuesSound
<1> QED
  BY <1>7, <1>8, <1>9, <1>10 DEF Types

LEMMA TypesInitial ==
    ASSUME Init
    PROVE  Types
<1>1. world \in Worlds /\ cell \in Cells /\ Vectors = [1 .. Width -> Int]
  BY TheCell DEF Init, Vectors
<1>2. Sound(kind, cell, Initial(cell))
  BY <1>1, InitialSound
<1>3. created \in Int
  BY ObserverAssumption DEF Init
<1>4. value \in [Updates -> Int \cup Histograms] /\ \A u \in Updates : Sound(kind, cell, value[u])
  BY <1>2 DEF Init, Sound, IsValue
<1>5. \E S : exported \in [Observers -> Seq(S)]
  <2>1. exported \in [Observers -> Seq(Int)]
    BY DEF Init
  <2> QED
    BY <2>1
<1>6. begun \in [Observers -> [Keys -> Vectors]]
  BY <1>1 DEF Init, Zero
<1>7. Typed
  BY <1>1, <1>3, <1>4, <1>5, <1>6, NoSeriesIs DEF Init, Typed, Labels
<1>8. Called
  BY DEF Init, Called
<1>9. ValuesSound
  BY <1>4, NoSeriesIs DEF Init, ValuesSound
<1>10. Metrics
  BY DEF Init, Metrics
<1> QED
  BY <1>7, <1>8, <1>9, <1>10 DEF Types

LEMMA TypesStep ==
    ASSUME Types, [Next]_vars
    PROVE  Types'
<1>1. ASSUME UNCHANGED vars PROVE Types'
  <2>1. UNCHANGED <<world, bucket, aliases, value, lock, cell, kind, Vectors>>
        /\ UNCHANGED <<updates, progress, observer, outcome, history>>
    BY <1>1, SameWorld DEF vars, source
  <2>2. Typed'
    BY <2>1 DEF Types, Typed, updates, progress, observer, outcome, history
  <2>3. Called'
    BY <2>1 DEF Types, Called, updates, history
  <2> QED
    BY <2>1, <2>2, <2>3, UpdateFrame DEF Types, ValuesSound
<1>2. ASSUME NEW u \in Updates,
             GetOrCreate(u) \/ LookupDup(u) \/ insert_dup(u)
             \/ Clear(u) \/ Set(u) \/ FetchAdd(u) \/ LoadBits(u)
             \/ CompareExchange(u) \/ CompareExchangeFails(u)
      PROVE  Types'
  BY <1>2, GetOrCreateTypes, LookupTypes, ClearTypes, SetTypes, FetchAddTypes, LoadTypes,
     CompareExchangeTypes
<1>3. ASSUME NEW o \in Observers,
             BeginVisit(o) \/ BeginTake(o) \/ VisitBucket(o) \/ ReadBucket(o)
             \/ EndObserve(o) \/ Export(o) \/ Reset(o)
      PROVE  Types'
  BY <1>3, BeginTypes, VisitTypes, ReadTypes, EndTypes, ExportTypes, ResetTypes
<1> QED
  BY <1>1, <1>2, <1>3, Zenon DEF Next

\* What an observer has read, keeps and has exported are values of the metric's
\* buckets, in points that have the attributes of their key; a call under way is
\* one of the metric's and has a bucket.
THEOREM Invariance == Safety => []Types
<1>1. Init => Types
  BY TypesInitial
<1>2. Types /\ [Next]_vars => Types'
  BY TypesStep
<1> QED
  BY <1>1, <1>2, PTL DEF Safety

\* Every state of an observer is of its type: what is exported has points, and
\* each number, of a bucket, a snapshot or an observer's last value, is of the
\* kind the metric's buckets hold (TypeOK of Observer).
THEOREM TypeCorrect == Safety => []TypeOK
<1>1. ASSUME Types PROVE TypeOK
  <2>1. \A u \in Updates : IsValue(cell, value[u])
    BY <1>1 DEF Types, ValuesSound, Sound
  <2>2. \A o \in Observers, k \in Keys :
            /\ last_values[o][k] = None \/ IsValue(cell, last_values[o][k])
            /\ \A i \in DOMAIN series[o][k] : IsSnapshot(series[o][k][i])
    <3> SUFFICES ASSUME NEW o \in Observers, NEW k \in Keys
                 PROVE  /\ last_values[o][k] = None \/ IsValue(cell, last_values[o][k])
                        /\ \A i \in DOMAIN series[o][k] : IsSnapshot(series[o][k][i])
      OBVIOUS
    <3>1. IsSeries(series[o])
      BY <1>1 DEF Types, ValuesSound
    <3>2. \A i \in DOMAIN series[o][k] : series[o][k][i] \in Snapshot /\ IsValue(cell, series[o][k][i].value)
      BY <3>1 DEF IsSeries, Sound
    <3>3. last_values[o][k] = None \/ IsValue(cell, last_values[o][k])
      BY <1>1 DEF Types, ValuesSound, Sound
    <3> QED
      BY <3>2, <3>3 DEF IsSnapshot, Snapshot
  <2>3. \A o \in Observers : \A i \in DOMAIN exported[o] : DOMAIN exported[o][i].data_points # {}
    BY <1>1 DEF Types, Metrics, IsMetric
  <2> QED
    BY <1>1, <2>1, <2>2, <2>3 DEF Types, Typed, TypeOK
<1>2. Types => TypeOK
  BY <1>1
<1> QED
  BY <1>2, Invariance, PTL

-----------------------------------------------------------------------------
(* Times                                                                   *)

\* Whether o has polled since its start, and the number of its last poll.
Polled(o) == opc[o] = "observing" \/ seq[o] > 0
Poll(o) == IF opc[o] = "observing" THEN seq[o] ELSE seq[o] - 1

\* A snapshot of one of the polls, not taken before the tick of its poll.
Timed(o, s) ==
    /\ s.seq_id \in Nat /\ s.ts \in Int
    /\ s.seq_id <= Poll(o)
    /\ s.ts <= ts[o]
    /\ s.seq_id = Poll(o) \/ s.ts < ts[o]
    /\ start_time[o] + Period * s.seq_id <= s.ts

TimeOf(o, s) == align_ts(s, start_time[o], Align[o])

PollTimes(o) ==
    /\ Polled(o) => /\ start_time[o] + Period * Poll(o) <= ts[o]
                    /\ ~world.late => start_time[o] + Period * Poll(o) = ts[o]
    /\ ~Polled(o) => series[o] = NoSeries /\ exported[o] = <<>> /\ o \notin dropped
    /\ opc[o] = "idle" => todo[o] = {}
    /\ \A e, f \in todo[o] : e[1] = f[1] => e = f

\* A series has at most one snapshot of a poll, in the order of the polls.
SeriesTimes(o) ==
    /\ \A k \in Keys : \A n \in DOMAIN series[o][k] : Timed(o, series[o][k][n])
    /\ \A k \in Keys : \A m, n \in DOMAIN series[o][k] : m < n =>
          series[o][k][m].seq_id < series[o][k][n].seq_id /\ series[o][k][m].ts < series[o][k][n].ts
    /\ \A e \in todo[o] : \A n \in DOMAIN series[o][e[1]] : series[o][e[1]][n].seq_id < seq[o]

\* What has been exported stands for earlier snapshots.
FromSnapshot(o, p) ==
    \E s \in [seq_id : Nat, ts : Int] :
        Timed(o, s) /\ s.seq_id < seq[o] /\ p.time = TimeOf(o, s) /\ p.start_time = start_time[o]

ExportedTimes(o) ==
    /\ \A i \in DOMAIN exported[o] : \A e \in DOMAIN exported[o][i].data_points :
          /\ FromSnapshot(o, exported[o][i].data_points[e])
          /\ \A n \in DOMAIN series[o][e[1]] :
                exported[o][i].data_points[e].time < TimeOf(o, series[o][e[1]][n])
    /\ \A i, j \in DOMAIN exported[o] :
          \A d \in DOMAIN exported[o][i].data_points, e \in DOMAIN exported[o][j].data_points :
             d[1] = e[1] /\ (i < j \/ (i = j /\ d[2] < e[2])) =>
                exported[o][i].data_points[d].time < exported[o][j].data_points[e].time

Clock(o) == PollTimes(o) /\ SeriesTimes(o) /\ ExportedTimes(o)

Clocks == \A o \in Observers : Clock(o)

LEMMA Periods ==
    /\ Period \in Nat \ {0} /\ None \notin Int /\ MaxU32 \in Nat
    /\ \A o \in Observers : Align[o] \in {Period, None}
    /\ \A m, n \in Int : /\ Period * m \in Int
                         /\ m < n => Period * m < Period * n
                         /\ m <= n => Period * m <= Period * n
    /\ \A n \in Nat : Period * n >= 0
<1>1. Period \in Nat \ {0} /\ None \notin Int /\ MaxU32 \in Nat
      /\ \A o \in Observers : Align[o] \in {Period, None}
  BY ObserverAssumption, WireAssumption
<1>2. \A m, n \in Int : Period * (n - m) = Period * n - Period * m /\ Period * m \in Int
  BY <1>1
<1>3. \A n \in Nat : Period * n >= 0 /\ (n > 0 => Period * n > 0)
  BY <1>1
<1>4. ASSUME NEW m \in Int, NEW n \in Int
      PROVE  (m < n => Period * m < Period * n) /\ (m <= n => Period * m <= Period * n)
  <2>1. Period * (n - m) = Period * n - Period * m /\ Period * m \in Int /\ Period * n \in Int
    BY <1>2
  <2>2. m <= n => Period * (n - m) >= 0
    BY <1>3
  <2>3. m < n => Period * (n - m) > 0
    BY <1>3
  <2> QED
    BY <2>1, <2>2, <2>3
<1> QED
  BY <1>1, <1>2, <1>3, <1>4

\* The time of a point is between the start and that of its snapshot, and
\* later snapshots have later times, however they are aligned.
LEMMA AlignedTimes ==
    ASSUME NEW o \in Observers, start_time[o] \in Int,
           NEW r, r.seq_id \in Nat, r.ts \in Int, start_time[o] + Period * r.seq_id <= r.ts
    PROVE  /\ TimeOf(o, r) \in Int /\ start_time[o] <= TimeOf(o, r) /\ TimeOf(o, r) <= r.ts
           /\ \A s : /\ s.seq_id \in Nat /\ s.ts \in Int /\ start_time[o] + Period * s.seq_id <= s.ts
                     /\ r.seq_id < s.seq_id /\ r.ts < s.ts
                     => TimeOf(o, r) < TimeOf(o, s)
<1> DEFINE t == start_time[o]
           a == Align[o]
           grid(s) == t + Period * s.seq_id
<1>1. a \in {Period, None} /\ Period \in Nat /\ Period # None /\ MaxU32 \in Nat
  BY Periods
<1>2. \A s : TimeOf(o, s) = IF a = None \/ s.seq_id > MaxU32 THEN s.ts ELSE grid(s)
  BY <1>1 DEF TimeOf, align_ts
<1>3. grid(r) \in Int /\ t <= grid(r) /\ grid(r) <= r.ts
  BY Periods
<1>4. ASSUME NEW s, s.seq_id \in Nat, s.ts \in Int, grid(s) <= s.ts,
             r.seq_id < s.seq_id, r.ts < s.ts
      PROVE  TimeOf(o, r) < TimeOf(o, s)
  <2>1. grid(s) \in Int /\ grid(r) < grid(s)
    BY <1>4, Periods
  <2> HIDE DEF grid, t
  <2> QED
    BY <1>1, <1>2, <1>3, <1>4, <2>1
<1> HIDE DEF grid
<1>5. TimeOf(o, r) \in Int /\ t <= TimeOf(o, r) /\ TimeOf(o, r) <= r.ts
  BY <1>2, <1>3
<1> QED
  BY <1>4, <1>5 DEF grid

LEMMA ClockFrame ==
    ASSUME NEW o \in Observers, Clock(o), world' = world, opc'[o] = opc[o], seq'[o] = seq[o],
           ts'[o] = ts[o], start_time'[o] = start_time[o], todo'[o] = todo[o],
           series'[o] = series[o], exported'[o] = exported[o], o \in dropped' => o \in dropped
    PROVE  Clock(o)'
<1>1. Poll(o)' = Poll(o) /\ Polled(o)' = Polled(o)
  BY DEF Poll, Polled
<1>2. \A s : Timed(o, s)' <=> Timed(o, s)
  BY <1>1 DEF Timed
<1>3. \A s : TimeOf(o, s)' = TimeOf(o, s)
  BY DEF TimeOf
<1>4. \A p : FromSnapshot(o, p)' <=> FromSnapshot(o, p)
  BY <1>2, <1>3 DEF FromSnapshot
<1>5. PollTimes(o)'
  BY <1>1 DEF Clock, PollTimes
<1>6. SeriesTimes(o)'
  BY <1>2 DEF Clock, SeriesTimes
<1>7. ExportedTimes(o)'
  BY ZenonT(30), <1>3, <1>4 DEF Clock, ExportedTimes
<1> QED
  BY <1>5, <1>6, <1>7 DEF Clock

LEMMA Ticks ==
    ASSUME NEW x \in Int
    PROVE  x \div Period \in Int /\ \A n \in Int : n <= x \div Period <=> Period * n <= x
<1> DEFINE q == x \div Period
<1>1. q \in Int /\ Period * q <= x /\ x < Period * q + Period
  BY Periods
<1>2. Period * (q + 1) = Period * q + Period /\ Period \in Nat
  BY <1>1, Periods
<1> HIDE DEF q
<1>3. ASSUME NEW n \in Int, n <= q PROVE Period * n <= x
  <2>1. Period * n <= Period * q /\ Period * n \in Int /\ Period * q \in Int
    BY <1>1, <1>3, Periods
  <2> QED
    BY <1>1, <2>1
<1>4. ASSUME NEW n \in Int, ~(n <= q) PROVE ~(Period * n <= x)
  <2>1. Period * (q + 1) <= Period * n /\ Period * n \in Int /\ Period * q \in Int
    BY <1>1, <1>4, Periods
  <2> QED
    BY <1>1, <1>2, <2>1
<1>5. \A n \in Int : n <= q <=> Period * n <= x
  BY <1>3, <1>4
<1> QED
  BY <1>1, <1>5 DEF q

\* A poll is at or after its tick, and after the one before.
LEMMA BeginTimes ==
    ASSUME Types, NEW o \in Observers, Clock(o), Begin(o)
    PROVE  /\ ts'[o] \in Int /\ start_time[o] + Period * seq[o] <= ts'[o]
           /\ ~world.late => start_time[o] + Period * seq[o] = ts'[o]
           /\ Polled(o) => ts[o] < ts'[o]
<1>1. PICK t \in start_time[o] .. start_time[o] + MaxDelay :
          /\ IF world.late THEN seq[o] > 0 => tick(o, t) > tick(o, ts[o])
                            ELSE t = start_time[o] + Period * seq[o]
          /\ ts' = [ts EXCEPT ![o] = t]
  BY DEF Begin
<1>2. /\ start_time[o] \in Int /\ ts[o] \in Int /\ seq[o] \in Nat /\ t \in Int /\ start_time[o] <= t
      /\ ts'[o] = t /\ opc[o] = "idle"
  BY <1>1, ObserverAssumption DEF Types, Typed, Begin
<1>3. /\ Period * seq[o] \in Int /\ Period * (seq[o] - 1) \in Int
      /\ Period * (seq[o] - 1) < Period * seq[o] /\ Period * 0 = 0
  BY <1>2, Periods
<1>4. seq[o] > 0 => /\ start_time[o] + Period * (seq[o] - 1) <= ts[o]
                    /\ ~world.late => start_time[o] + Period * (seq[o] - 1) = ts[o]
  BY <1>2 DEF Clock, PollTimes, Polled, Poll
<1>5. CASE ~world.late
  BY <1>1, <1>2, <1>3, <1>4, <1>5 DEF Polled
<1>6. CASE world.late /\ seq[o] = 0
  BY <1>2, <1>3, <1>6 DEF Polled
<1>7. CASE world.late /\ seq[o] > 0
  <2> DEFINE x == t - start_time[o]
             y == ts[o] - start_time[o]
  <2>1. x \in Int /\ y \in Int /\ Period * (seq[o] - 1) <= y
    BY <1>2, <1>3, <1>4, <1>7
  <2>2. tick(o, t) = x \div Period /\ tick(o, ts[o]) = y \div Period
    BY DEF tick
  <2>3. /\ x \div Period \in Int /\ y \div Period \in Int
        /\ \A n \in Int : n <= x \div Period <=> Period * n <= x
        /\ \A n \in Int : n <= y \div Period <=> Period * n <= y
    BY <2>1, Ticks
  <2>4. x \div Period > y \div Period
    BY <1>1, <1>7, <2>2
  <2>5. seq[o] - 1 \in Int /\ seq[o] - 1 <= y \div Period
    BY <1>2, <2>1, <2>3
  <2>6. seq[o] <= x \div Period
    BY <1>2, <2>3, <2>4, <2>5
  <2>7. Period * seq[o] <= x
    BY <1>2, <2>3, <2>6
  <2>8. y < x
    <3> SUFFICES ASSUME x <= y PROVE FALSE
      BY <2>1
    <3>1. Period * (x \div Period) <= x /\ Period * (x \div Period) \in Int
      BY <2>3, Periods
    <3>2. Period * (x \div Period) <= y
      BY <2>1, <3>1
    <3>3. x \div Period <= y \div Period
      BY <2>3, <3>2
    <3> QED
      BY <2>3, <2>4, <3>3
  <2> QED
    BY <1>2, <1>3, <1>7, <2>7, <2>8
<1> QED
  BY <1>2, <1>5, <1>6, <1>7

LEMMA BeginClock ==
    ASSUME Types, NEW o \in Observers, Clock(o), Begin(o),
           UNCHANGED <<world, observer, outcome>>
    PROVE  Clock(o)'
<1>1. /\ opc[o] = "idle" /\ opc'[o] = "observing" /\ seq'[o] = seq[o] /\ seq[o] \in Nat
      /\ start_time'[o] = start_time[o] /\ series'[o] = series[o] /\ exported'[o] = exported[o]
      /\ dropped' = dropped /\ world' = world /\ todo'[o] = Live
      /\ ts[o] \in Int
  BY DEF Begin, observer, outcome, Types, Typed
<1>2. /\ ts'[o] \in Int /\ start_time[o] + Period * seq[o] <= ts'[o]
      /\ ~world.late => start_time[o] + Period * seq[o] = ts'[o]
      /\ Polled(o) => ts[o] < ts'[o]
  BY BeginTimes
<1>3. Poll(o)' = seq[o] /\ Polled(o)' /\ Poll(o) = seq[o] - 1
  BY <1>1 DEF Poll, Polled
<1>4. CASE ~Polled(o)
  <2>1. \A k \in Keys : DOMAIN series'[o][k] = {}
    BY <1>1, <1>4, NoSeriesIs DEF Clock, PollTimes
  <2>2. DOMAIN exported'[o] = {}
    BY <1>1, <1>4 DEF Clock, PollTimes
  <2>3. SeriesTimes(o)' /\ ExportedTimes(o)'
    <3>1. \A e \in todo'[o] : e[1] \in Keys
      BY <1>1, LiveType DEF Types, Entries
    <3> QED
      BY <2>1, <2>2, <3>1 DEF SeriesTimes, ExportedTimes
  <2>4. PollTimes(o)'
    BY <1>1, <1>2, <1>3 DEF PollTimes, Live
  <2> QED
    BY <2>3, <2>4 DEF Clock
<1>5. CASE Polled(o)
  <2>1. \A s : Timed(o, s) => Timed(o, s)' /\ s.seq_id < seq[o]
    BY <1>1, <1>2, <1>3, <1>5 DEF Timed
  <2>2. \A s : TimeOf(o, s)' = TimeOf(o, s)
    BY <1>1 DEF TimeOf
  <2>3. \A p : FromSnapshot(o, p) => FromSnapshot(o, p)'
    BY <1>1, <2>1, <2>2 DEF FromSnapshot
  <2>4. PollTimes(o)'
    BY <1>1, <1>2, <1>3 DEF PollTimes, Live
  <2>5. SeriesTimes(o)'
    <3>1. \A e \in todo'[o] : e[1] \in Keys
      BY <1>1, LiveType DEF Types, Entries
    <3> QED
      BY <1>1, <2>1, <3>1 DEF Clock, SeriesTimes
  <2>6. ExportedTimes(o)'
    BY ZenonT(30), <1>1, <2>2, <2>3 DEF Clock, ExportedTimes
  <2> QED
    BY <2>4, <2>5, <2>6 DEF Clock
<1> QED
  BY <1>4, <1>5

\* An entry is read.
LEMMA RecordClock ==
    ASSUME Types, NEW o \in Observers, Clock(o), NEW e \in todo[o],
           todo' = [todo EXCEPT ![o] = @ \ {e}],
           series' = series \/ \E v : Grows(o, e[1], v),
           UNCHANGED <<world, opc, ts, start_time, seq, exported, dropped>>
    PROVE  Clock(o)'
<1> DEFINE k == e[1]
<1>0. /\ k \in Keys /\ todo'[o] = todo[o] \ {e} /\ series[o] \in [Keys -> Seq(Snapshot)]
      /\ seq[o] \in Nat /\ ts[o] \in Int /\ start_time[o] \in Int
  BY DEF Types, Typed, Entries
<1>1. opc[o] = "observing"
  BY DEF Clock, PollTimes, Types, Typed
<1>2. Poll(o) = seq[o] /\ Poll(o)' = Poll(o) /\ Polled(o)' = Polled(o) /\ Polled(o)
  BY <1>1 DEF Poll, Polled
<1>3. \A s : /\ Timed(o, s)' <=> Timed(o, s)
             /\ TimeOf(o, s)' = TimeOf(o, s)
             /\ FromSnapshot(o, s)' <=> FromSnapshot(o, s)
  BY <1>2 DEF Timed, TimeOf, FromSnapshot
<1>4. PollTimes(o)'
  BY <1>0, <1>1, <1>2 DEF Clock, PollTimes
<1>5. CASE series' = series
  <2>1. SeriesTimes(o)'
    BY <1>0, <1>3, <1>5 DEF Clock, SeriesTimes
  <2>2. ExportedTimes(o)'
    BY <1>3, <1>5 DEF Clock, ExportedTimes
  <2> QED
    BY <1>4, <2>1, <2>2 DEF Clock
<1>6. ASSUME NEW v, Grows(o, k, v) PROVE Clock(o)'
  <2> DEFINE s == [seq_id |-> seq[o], ts |-> ts[o], value |-> v]
  <2>1. /\ series'[o][k] = Append(series[o][k], s)
        /\ \A l \in Keys : l # k => series'[o][l] = series[o][l]
    BY <1>6 DEF Grows
  <2>2. s.seq_id = seq[o] /\ s.ts = ts[o]
    OBVIOUS
  <2> HIDE DEF s
  <2>3. /\ series[o][k] \in Seq(Snapshot) /\ Len(series[o][k]) \in Nat
        /\ DOMAIN series[o][k] = 1 .. Len(series[o][k])
        /\ DOMAIN series'[o][k] = 1 .. Len(series[o][k]) + 1
        /\ \A n \in DOMAIN series'[o][k] :
              \/ n = Len(series[o][k]) + 1 /\ series'[o][k][n] = s
              \/ n \in DOMAIN series[o][k] /\ series'[o][k][n] = series[o][k][n]
    BY <1>0, <2>1, AppendProperties
  <2>4. Timed(o, s)
    BY <1>0, <1>2, <2>2 DEF Timed, Clock, PollTimes
  <2>5. \A n \in DOMAIN series[o][k] :
            series[o][k][n].seq_id < seq[o] /\ series[o][k][n].ts < ts[o]
    <3> SUFFICES ASSUME NEW n \in DOMAIN series[o][k]
                 PROVE  series[o][k][n].seq_id < seq[o] /\ series[o][k][n].ts < ts[o]
      OBVIOUS
    <3>1. series[o][k][n].seq_id < seq[o]
      BY DEF Clock, SeriesTimes
    <3>2. Timed(o, series[o][k][n])
      BY <1>0 DEF Clock, SeriesTimes
    <3> QED
      BY <1>0, <1>2, <3>1, <3>2 DEF Timed
  <2>6. \A l \in Keys : \A n \in DOMAIN series'[o][l] : Timed(o, series'[o][l][n])
    BY <2>1, <2>3, <2>4 DEF Clock, SeriesTimes
  <2>7. \A l \in Keys : \A m, n \in DOMAIN series'[o][l] : m < n =>
            /\ series'[o][l][m].seq_id < series'[o][l][n].seq_id
            /\ series'[o][l][m].ts < series'[o][l][n].ts
    <3> SUFFICES ASSUME NEW l \in Keys, NEW m \in DOMAIN series'[o][l],
                        NEW n \in DOMAIN series'[o][l], m < n
                 PROVE  /\ series'[o][l][m].seq_id < series'[o][l][n].seq_id
                        /\ series'[o][l][m].ts < series'[o][l][n].ts
      OBVIOUS
    <3>1. CASE l # k
      BY <2>1, <3>1 DEF Clock, SeriesTimes
    <3>2. CASE l = k /\ n \in DOMAIN series[o][k]
      <4>1. m \in DOMAIN series[o][k]
        BY <2>3, <3>2
      <4>2. series'[o][k][m] = series[o][k][m] /\ series'[o][k][n] = series[o][k][n]
        BY <2>3, <3>2, <4>1
      <4> QED
        BY <1>0, <3>2, <4>1, <4>2 DEF Clock, SeriesTimes
    <3>3. CASE l = k /\ n \notin DOMAIN series[o][k]
      <4>1. n = Len(series[o][k]) + 1 /\ series'[o][k][n] = s
        BY <2>3, <3>3
      <4>a. m \in 1 .. Len(series[o][k]) + 1
        BY <2>3, <3>3
      <4>b. m \in 1 .. Len(series[o][k])
        BY <2>3, <4>1, <4>a
      <4>2. m \in DOMAIN series[o][k] /\ m # Len(series[o][k]) + 1
        BY <2>3, <4>1, <4>b
      <4>3. series'[o][k][m] = series[o][k][m]
        BY <2>3, <4>2
      <4> QED
        BY <2>2, <2>5, <3>3, <4>1, <4>2, <4>3
    <3> QED
      BY <3>1, <3>2, <3>3
  <2>8. \A f \in todo'[o] : \A n \in DOMAIN series'[o][f[1]] : series'[o][f[1]][n].seq_id < seq[o]
    <3> SUFFICES ASSUME NEW f \in todo'[o]
                 PROVE  \A n \in DOMAIN series'[o][f[1]] : series'[o][f[1]][n].seq_id < seq[o]
      OBVIOUS
    <3>1. f \in todo[o] /\ f[1] # k /\ f[1] \in Keys
      BY <1>0 DEF Clock, PollTimes, Types, Typed, Entries
    <3> QED
      BY <2>1, <3>1 DEF Clock, SeriesTimes
  <2>9. SeriesTimes(o)'
    BY <1>3, <2>6, <2>7, <2>8 DEF SeriesTimes
  <2>10. ASSUME NEW i \in DOMAIN exported[o], NEW d \in DOMAIN exported[o][i].data_points,
                NEW n \in DOMAIN series'[o][d[1]]
         PROVE  exported[o][i].data_points[d].time < TimeOf(o, series'[o][d[1]][n])
    <3> DEFINE p == exported[o][i].data_points[d]
    <3>1. d[1] \in Keys
      BY DEF Types, Metrics, IsMetric, Place
    <3>2. FromSnapshot(o, p)
      BY DEF Clock, ExportedTimes
    <3>3. PICK r \in [seq_id : Nat, ts : Int] :
              Timed(o, r) /\ r.seq_id < seq[o] /\ p.time = TimeOf(o, r)
      BY <3>2 DEF FromSnapshot
    <3>4. p.time < TimeOf(o, s)
      <4>1. r.ts < ts[o] /\ start_time[o] + Period * r.seq_id <= r.ts /\ r.seq_id \in Nat /\ r.ts \in Int
        BY <1>0, <1>2, <3>3 DEF Timed
      <4>2. start_time[o] + Period * s.seq_id <= s.ts /\ s.seq_id \in Nat /\ s.ts \in Int
        BY <2>4 DEF Timed
      <4>3. \A q : /\ q.seq_id \in Nat /\ q.ts \in Int /\ start_time[o] + Period * q.seq_id <= q.ts
                   /\ r.seq_id < q.seq_id /\ r.ts < q.ts
                   => TimeOf(o, r) < TimeOf(o, q)
        BY <1>0, <4>1, AlignedTimes
      <4>4. TimeOf(o, r) < TimeOf(o, s)
        BY <2>2, <3>3, <4>1, <4>2, <4>3
      <4> QED
        BY <3>3, <4>4
    <3>5. CASE d[1] # k
      BY <2>1, <3>1, <3>5 DEF Clock, ExportedTimes
    <3>6. CASE d[1] = k
      <4>1. n \in DOMAIN series'[o][k]
        BY <3>6
      <4>2. CASE series'[o][k][n] = s
        BY <3>4, <3>6, <4>2
      <4>3. CASE n \in DOMAIN series[o][k] /\ series'[o][k][n] = series[o][k][n]
        <5>1. p.time < TimeOf(o, series[o][k][n])
          BY <3>6, <4>3 DEF Clock, ExportedTimes
        <5> QED
          BY <3>6, <4>3, <5>1
      <4> QED
        BY <2>3, <4>1, <4>2, <4>3
    <3> QED
      BY <3>5, <3>6
  <2>11. ExportedTimes(o)'
    <3>1. ASSUME NEW i \in DOMAIN exported[o], NEW d \in DOMAIN exported[o][i].data_points
          PROVE  FromSnapshot(o, exported[o][i].data_points[d])'
      <4>1. FromSnapshot(o, exported[o][i].data_points[d])
        BY DEF Clock, ExportedTimes
      <4> QED
        BY <1>3, <4>1
    <3>2. \A l \in Keys : \A n \in DOMAIN series'[o][l] :
             TimeOf(o, series[o][l][n])' = TimeOf(o, series'[o][l][n])
      BY <1>3
    <3>3. ASSUME NEW i \in DOMAIN exported[o], NEW d \in DOMAIN exported[o][i].data_points,
                 NEW n \in DOMAIN series'[o][d[1]]
          PROVE  exported[o][i].data_points[d].time < TimeOf(o, series[o][d[1]][n])'
      <4>1. d[1] \in Keys
        BY DEF Types, Metrics, IsMetric, Place
      <4> QED
        BY <2>10, <3>2, <4>1
    <3>4. exported' = exported /\ ExportedTimes(o)
      BY DEF Clock
    <3> QED
      BY <3>1, <3>3, <3>4 DEF ExportedTimes
  <2> QED
    BY <1>4, <2>9, <2>11 DEF Clock
<1> QED
  BY <1>5, <1>6

LEMMA EndClock ==
    ASSUME Types, NEW o \in Observers, Clock(o), EndObserve(o)
    PROVE  Clock(o)'
<1>1. /\ opc[o] = "observing" /\ opc'[o] = "idle" /\ seq'[o] = seq[o] + 1 /\ seq[o] \in Nat
      /\ todo[o] = {} /\ UNCHANGED <<world, todo, ts, start_time, series, exported, dropped>>
  BY DEF EndObserve, Types, Typed, source, outcome
<1>2. Poll(o) = seq[o] /\ Poll(o)' = Poll(o) /\ Polled(o)' /\ Polled(o)
  BY <1>1 DEF Poll, Polled
<1>3. \A s : /\ Timed(o, s)' <=> Timed(o, s)
             /\ TimeOf(o, s)' = TimeOf(o, s)
  BY <1>1, <1>2 DEF Timed, TimeOf
<1>4. \A p : FromSnapshot(o, p) => FromSnapshot(o, p)'
  BY <1>1, <1>3 DEF FromSnapshot
<1>5. PollTimes(o)'
  BY <1>1, <1>2 DEF Clock, PollTimes
<1>6. SeriesTimes(o)'
  BY <1>1, <1>3 DEF Clock, SeriesTimes
<1>7. ExportedTimes(o)'
  BY <1>1, <1>3, <1>4 DEF Clock, ExportedTimes
<1> QED
  BY <1>5, <1>6, <1>7 DEF Clock

\* The times of the points that o would export.
LEMMA PieceTimes ==
    ASSUME Types, NEW o \in Observers, Clock(o), into_wire(o).is = "Some"
    PROVE  LET m == into_wire(o).metric
           IN  /\ \A e \in DOMAIN m.data_points :
                     LET p == m.data_points[e]
                         s == series[o][e[1]][e[2]]
                     IN  /\ e[1] \in Keys /\ e[2] \in DOMAIN series[o][e[1]] /\ Timed(o, s)
                         /\ p.time = TimeOf(o, s) /\ p.start_time = start_time[o]
                         /\ start_time[o] <= p.time /\ p.time <= s.ts
               /\ \A d, e \in DOMAIN m.data_points :
                     d[1] = e[1] /\ d[2] < e[2] => m.data_points[d].time < m.data_points[e].time
<1> DEFINE m == into_wire(o).metric
           S(e) == series[o][e[1]][e[2]]
<1>1. cell \in Cells /\ kind \in Kinds /\ IsSeries(series[o]) /\ start_time[o] \in Int
  BY TheCell DEF Types, Typed, ValuesSound
<1>2. series[o] # NoSeries
  BY <1>1, Converted
<1>3. /\ DOMAIN m.data_points = PlacesIn(series[o])
      /\ \A e \in PlacesIn(series[o]) : PointOf(o, series[o], start_time[o], e, m.data_points[e])
  BY <1>1, <1>2, Converted
<1> HIDE DEF m
<1>4. \A e \in DOMAIN m.data_points :
          /\ e[1] \in Keys /\ e[2] \in DOMAIN series[o][e[1]]
          /\ Timed(o, S(e))
          /\ m.data_points[e].time = TimeOf(o, S(e)) /\ m.data_points[e].start_time = start_time[o]
  BY <1>3 DEF PlacesIn, PointOf, TimeOf, Clock, SeriesTimes
<1>5. \A e \in DOMAIN m.data_points :
          start_time[o] <= m.data_points[e].time /\ m.data_points[e].time <= S(e).ts
  BY <1>1, <1>4, AlignedTimes DEF Timed
<1>6. ASSUME NEW d \in DOMAIN m.data_points, NEW e \in DOMAIN m.data_points, d[1] = e[1], d[2] < e[2]
      PROVE  m.data_points[d].time < m.data_points[e].time
  <2> DEFINE r == S(d)
             s == S(e)
  <2>1. r.seq_id < s.seq_id /\ r.ts < s.ts
    BY <1>4, <1>6 DEF Clock, SeriesTimes
  <2>2. Timed(o, r) /\ Timed(o, s)
    BY <1>4
  <2> HIDE DEF r, s
  <2>3. TimeOf(o, r) < TimeOf(o, s)
    BY <1>1, <2>1, <2>2, AlignedTimes DEF Timed
  <2> QED
    BY <1>4, <2>3 DEF r, s
<1> QED
  BY <1>4, <1>5, <1>6 DEF m

LEMMA ExportClock ==
    ASSUME Types, NEW o \in Observers, Clock(o), Export(o)
    PROVE  Clock(o)'
<1> DEFINE wire == into_wire(o)
           m == wire.metric
<1>1. /\ opc[o] = "idle" /\ series[o] # NoSeries /\ Deliver(o, wire) /\ series'[o] = NoSeries
      /\ UNCHANGED <<world, opc, todo, ts, start_time, seq>>
      /\ seq[o] \in Nat
  BY DEF Export, Types, Typed, source, progress
<1>2. Polled(o) /\ Polled(o)' /\ Poll(o)' = Poll(o) /\ Poll(o) = seq[o] - 1
  BY <1>1 DEF Clock, PollTimes, Polled, Poll
<1>3. \A s : /\ Timed(o, s)' <=> Timed(o, s)
             /\ TimeOf(o, s)' = TimeOf(o, s)
             /\ FromSnapshot(o, s)' <=> FromSnapshot(o, s)
  BY <1>1, <1>2 DEF Timed, TimeOf, FromSnapshot
<1>4. PollTimes(o)'
  BY <1>1, <1>2 DEF Clock, PollTimes
<1>5. \A k \in Keys : DOMAIN series'[o][k] = {}
  BY <1>1, NoSeriesIs
<1>6. SeriesTimes(o)'
  BY <1>1, <1>5 DEF SeriesTimes, Clock, PollTimes
<1>7. CASE wire.is = "Err"
  <2>1. exported' = exported
    BY <1>1, <1>7 DEF Deliver
  <2>2. \A i \in DOMAIN exported[o] : \A e \in DOMAIN exported[o][i].data_points : e[1] \in Keys
    BY DEF Types, Metrics, IsMetric, Place
  <2>3. ExportedTimes(o)'
    BY <1>3, <1>5, <2>1, <2>2 DEF Clock, ExportedTimes
  <2> QED
    BY <1>4, <1>6, <2>3 DEF Clock
<1>8. CASE wire.is # "Err"
  <2>1. wire.is = "Some"
    BY <1>1, <1>8, TheCell, Converted DEF Types, Typed, ValuesSound
  <2>2. IsMetric(o, m)
    BY <2>1, PiecesAreMetrics
  <2>3. /\ \A e \in DOMAIN m.data_points :
              /\ e[1] \in Keys /\ e[2] \in DOMAIN series[o][e[1]]
              /\ Timed(o, series[o][e[1]][e[2]])
              /\ m.data_points[e].time = TimeOf(o, series[o][e[1]][e[2]])
              /\ m.data_points[e].start_time = start_time[o]
        /\ \A d, e \in DOMAIN m.data_points :
              d[1] = e[1] /\ d[2] < e[2] => m.data_points[d].time < m.data_points[e].time
    BY <2>1, PieceTimes
  <2>4. exported' = [exported EXCEPT ![o] = Append(@, m)]
    BY <1>1, <1>8 DEF Deliver
  <2> HIDE DEF m, wire
  <2>5. PICK U : exported \in [Observers -> Seq(U)]
    BY DEF Types, Typed
  <2> DEFINE n == Len(exported[o])
             X == exported'[o]
  <2>6. /\ n \in Nat /\ DOMAIN exported[o] = 1 .. n /\ DOMAIN X = 1 .. n + 1
        /\ X[n + 1] = m
        /\ \A i \in 1 .. n : X[i] = exported[o][i]
    BY <2>4, <2>5
  <2> HIDE DEF X, n
  <2>7. \A e \in DOMAIN m.data_points : FromSnapshot(o, m.data_points[e])
    <3> SUFFICES ASSUME NEW e \in DOMAIN m.data_points PROVE FromSnapshot(o, m.data_points[e])
      OBVIOUS
    <3> DEFINE s == series[o][e[1]][e[2]]
               r == [seq_id |-> s.seq_id, ts |-> s.ts]
    <3>1. Timed(o, s) /\ m.data_points[e].time = TimeOf(o, s) /\ m.data_points[e].start_time = start_time[o]
      BY <2>3
    <3> HIDE DEF s
    <3>2. Timed(o, r) /\ TimeOf(o, r) = TimeOf(o, s)
      BY <3>1 DEF Timed, TimeOf, align_ts
    <3>3. r \in [seq_id : Nat, ts : Int] /\ r.seq_id < seq[o]
      BY <1>1, <1>2, <3>1 DEF Timed
    <3> QED
      BY <3>1, <3>2, <3>3 DEF FromSnapshot
  <2>8. ASSUME NEW i \in DOMAIN X, NEW e \in DOMAIN X[i].data_points
        PROVE  e[1] \in Keys /\ FromSnapshot(o, X[i].data_points[e])
    <3>1. CASE i = n + 1
      BY <2>3, <2>6, <2>7, <3>1
    <3>2. CASE i # n + 1
      <4>1. i \in DOMAIN exported[o] /\ X[i] = exported[o][i]
        BY <2>6, <3>2
      <4> QED
        BY <4>1 DEF Clock, ExportedTimes, Types, Metrics, IsMetric, Place
    <3> QED
      BY <3>1, <3>2
  <2>9. ASSUME NEW i \in DOMAIN X, NEW j \in DOMAIN X,
               NEW d \in DOMAIN X[i].data_points, NEW e \in DOMAIN X[j].data_points,
               d[1] = e[1], i < j \/ (i = j /\ d[2] < e[2])
        PROVE  X[i].data_points[d].time < X[j].data_points[e].time
    <3>1. CASE j # n + 1
      <4>1. /\ i \in DOMAIN exported[o] /\ X[i] = exported[o][i]
            /\ j \in DOMAIN exported[o] /\ X[j] = exported[o][j]
        BY <2>6, <2>9, <3>1
      <4> QED
        BY <2>9, <4>1 DEF Clock, ExportedTimes
    <3>2. CASE j = n + 1 /\ i = n + 1
      <4>1. X[i] = m /\ X[j] = m /\ d[2] < e[2]
        BY <2>6, <2>9, <3>2
      <4> QED
        BY <2>3, <2>9, <4>1
    <3>3. CASE j = n + 1 /\ i # n + 1
      <4>1. i \in DOMAIN exported[o] /\ X[i] = exported[o][i] /\ X[j] = m
        BY <2>6, <3>3
      <4>2. e[2] \in DOMAIN series[o][d[1]] /\ m.data_points[e].time = TimeOf(o, series[o][d[1]][e[2]])
        BY <2>3, <2>9, <4>1
      <4> QED
        BY <4>1, <4>2 DEF Clock, ExportedTimes
    <3> QED
      BY <3>1, <3>2, <3>3
  <2>10. ExportedTimes(o)'
    <3>1. X = exported'[o]
      BY DEF X
    <3>2. \A i \in DOMAIN X : \A e \in DOMAIN X[i].data_points :
              FromSnapshot(o, exported[o][i].data_points[e])'
      BY <1>3, <2>8, <3>1
    <3>3. \A i \in DOMAIN X : \A e \in DOMAIN X[i].data_points : DOMAIN series'[o][e[1]] = {}
      BY <1>5, <2>8
    <3> QED
      BY <2>9, <3>1, <3>2, <3>3 DEF ExportedTimes
  <2> QED
    BY <1>4, <1>6, <2>10 DEF Clock
<1> QED
  BY <1>7, <1>8

LEMMA ResetClock ==
    ASSUME Types, NEW o \in Observers, Clock(o), Reset(o)
    PROVE  Clock(o)'
<1>1. /\ opc[o] = "idle" /\ opc'[o] = "idle" /\ seq'[o] = 0 /\ series'[o] = NoSeries
      /\ exported'[o] = <<>> /\ o \notin dropped' /\ todo'[o] = todo[o]
  BY DEF Reset, Types, Typed, progress
<1>2. ~Polled(o)' /\ todo'[o] = {}
  BY <1>1 DEF Polled, Clock, PollTimes
<1>3. PollTimes(o)'
  BY <1>1, <1>2 DEF PollTimes
<1>4. SeriesTimes(o)' /\ ExportedTimes(o)'
  <2>1. \A k \in Keys : DOMAIN series'[o][k] = {}
    BY <1>1, NoSeriesIs
  <2>2. DOMAIN exported'[o] = {}
    BY <1>1
  <2> QED
    BY <1>2, <2>1, <2>2 DEF SeriesTimes, ExportedTimes
<1> QED
  BY <1>3, <1>4 DEF Clock

LEMMA ClocksInitial ==
    ASSUME Init
    PROVE  Clocks
<1> SUFFICES ASSUME NEW o \in Observers PROVE Clock(o)
  BY DEF Clocks
<1>1. /\ ~Polled(o) /\ series[o] = NoSeries /\ exported[o] = <<>> /\ o \notin dropped /\ todo[o] = {}
  BY DEF Init, Polled
<1>2. \A k \in Keys : DOMAIN series[o][k] = {}
  BY <1>1, NoSeriesIs
<1>3. DOMAIN exported[o] = {}
  BY <1>1
<1> QED
  BY <1>1, <1>2, <1>3 DEF Clock, PollTimes, SeriesTimes, ExportedTimes

LEMMA ClocksStep ==
    ASSUME Types, Clocks, [Next]_vars
    PROVE  Clocks'
<1> SUFFICES ASSUME NEW o \in Observers PROVE Clock(o)'
  BY DEF Clocks
<1>0. Clock(o)
  BY DEF Clocks
<1>1. ASSUME UNCHANGED <<world, progress, observer, outcome>>
      PROVE  Clock(o)'
  BY <1>0, <1>1, ClockFrame DEF progress, observer, outcome
<1>2. CASE UNCHANGED vars
  BY <1>1, <1>2 DEF vars, source
<1>3. ASSUME NEW u \in Updates,
             GetOrCreate(u) \/ LookupDup(u) \/ insert_dup(u)
             \/ Clear(u) \/ Set(u) \/ FetchAdd(u) \/ LoadBits(u)
             \/ CompareExchange(u) \/ CompareExchangeFails(u)
      PROVE  Clock(o)'
  <2>1. UNCHANGED <<world, progress, observer, outcome>>
    BY <1>3 DEF GetOrCreate, LookupDup, insert_dup, Clear, Set, FetchAdd, LoadBits, CompareExchange, CompareExchangeFails,
                Store, source
  <2> QED
    BY <1>1, <2>1
<1>4. ASSUME NEW p \in Observers,
             BeginVisit(p) \/ BeginTake(p) \/ VisitBucket(p) \/ ReadBucket(p)
             \/ EndObserve(p) \/ Export(p) \/ Reset(p)
      PROVE  Clock(o)'
  <2>1. CASE BeginVisit(p) \/ BeginTake(p)
    <3>1. Begin(p) /\ UNCHANGED <<world, observer, outcome>>
      BY <2>1 DEF BeginVisit, BeginTake, source
    <3>2. CASE p = o
      BY <1>0, <3>1, <3>2, BeginClock
    <3>3. CASE p # o
      <4>1. ts'[o] = ts[o] /\ opc'[o] = opc[o] /\ todo'[o] = todo[o]
        BY <3>1, <3>3 DEF Begin, Types, Typed
      <4> QED
        BY <1>0, <3>1, <4>1, ClockFrame DEF observer, outcome
    <3> QED
      BY <3>2, <3>3
  <2>2. CASE VisitBucket(p) \/ ReadBucket(p)
    <3>1. PICK e \in todo[p] :
              /\ todo' = [todo EXCEPT ![p] = @ \ {e}]
              /\ series' = series \/ \E v : Sound(kind, cell, v) /\ Record(p, e[1], v)
      <4>1. CASE VisitBucket(p)
        BY <4>1, Readers, RecordedSound DEF Visits
      <4>2. CASE ReadBucket(p)
        BY <4>2, Readers, RecordedSound DEF Reads
      <4> QED
        BY <2>2, <4>1, <4>2
    <3>2. UNCHANGED <<world, opc, ts, start_time, seq, exported, dropped>>
      BY <2>2 DEF VisitBucket, ReadBucket, source, outcome
    <3>3. e[1] \in Keys
      BY DEF Types, Typed, Entries
    <3>4. series' = series \/ \E v : Grows(p, e[1], v)
      BY <3>1, <3>3, RecordTypes DEF Types, ValuesSound
    <3>5. CASE p = o
      BY <1>0, <3>1, <3>2, <3>4, <3>5, RecordClock
    <3>6. CASE p # o
      <4>1. todo'[o] = todo[o]
        BY <3>1, <3>6 DEF Types, Typed
      <4>2. series'[o] = series[o]
        <5>1. series' = series \/ \E v : Record(p, e[1], v)
          BY <3>1
        <5> QED
          BY <3>6, <5>1 DEF Record, Types, Typed
      <4> QED
        BY <1>0, <3>2, <4>1, <4>2, ClockFrame
    <3> QED
      BY <3>5, <3>6
  <2>3. CASE EndObserve(p)
    <3>1. CASE p = o
      BY <1>0, <2>3, <3>1, EndClock
    <3>2. CASE p # o
      BY <1>0, <2>3, <3>2, ClockFrame DEF EndObserve, Types, Typed, source, outcome
    <3> QED
      BY <3>1, <3>2
  <2>4. CASE Export(p)
    <3>1. CASE p = o
      BY <1>0, <2>4, <3>1, ExportClock
    <3>2. CASE p # o
      <4>1. exported'[o] = exported[o] /\ (o \in dropped' => o \in dropped) /\ series'[o] = series[o]
        <5>1. \E S : exported \in [Observers -> Seq(S)]
          BY DEF Types, Typed
        <5> QED
          BY <2>4, <3>2, <5>1 DEF Export, Deliver, Types, Typed
      <4> QED
        BY <1>0, <2>4, <4>1, ClockFrame DEF Export, source, progress
    <3> QED
      BY <3>1, <3>2
  <2>5. CASE Reset(p)
    <3>1. CASE p = o
      BY <1>0, <2>5, <3>1, ResetClock
    <3>2. CASE p # o
      <4>1. exported'[o] = exported[o] /\ (o \in dropped' => o \in dropped) /\ series'[o] = series[o]
            /\ start_time'[o] = start_time[o] /\ seq'[o] = seq[o]
        <5>1. \E S : exported \in [Observers -> Seq(S)]
          BY DEF Types, Typed
        <5> QED
          BY <2>5, <3>2, <5>1 DEF Reset, Types, Typed
      <4> QED
        BY <1>0, <2>5, <4>1, ClockFrame DEF Reset, source, progress
    <3> QED
      BY <3>1, <3>2
  <2> QED
    BY <1>4, <2>1, <2>2, <2>3, <2>4, <2>5
<1> QED
  BY <1>2, <1>3, <1>4, Zenon DEF Next

LEMMA ClocksAlways == Safety => [](Types /\ Clocks)
<1>1. Init => Types /\ Clocks
  BY TypesInitial, ClocksInitial
<1>2. (Types /\ Clocks) /\ [Next]_vars => (Types /\ Clocks)'
  BY TypesStep, ClocksStep
<1> QED
  BY <1>1, <1>2, PTL DEF Safety

\* Attributes are told apart by what the protocol makes of them.
LEMMA LabelsDiffer ==
    ASSUME NEW o \in Observers, NEW k \in Keys, NEW l \in Keys, Label(o, k) = Label(o, l)
    PROVE  k = l
<1> DEFINE T == DOMAIN AnyValueType
           V == AttributeValues(T)
           a == Attributes[k]
           b == Attributes[l]
<1>1. CASE Sink[o] # "otel"
  BY <1>1 DEF Label
<1>2. CASE Sink[o] = "otel"
  <2>1. map_attrs(a) = map_attrs(b)
    BY <1>2 DEF Label
  <2>2. /\ a \in Seq([key : STRING, value : V \cup {None}])
        /\ b \in Seq([key : STRING, value : V \cup {None}])
    BY WireAssumption, ObserverAssumption
  <2>3. \A x, y \in T : AnyValueType[x] = AnyValueType[y] => x = y
    BY DEF AnyValueType
  <2>4. \A v \in V : /\ v = [type |-> v.type, content |-> v.content, items |-> v.items]
                     /\ v.type \in T /\ v.content \in STRING
                     /\ v.items \in Seq([type : T, content : STRING, items : {<<>>}])
    BY DEF AttributeValues
  <2>5. \A v \in V : AnyValue(v) # None
    <3> SUFFICES ASSUME NEW v \in V PROVE AnyValue(v) \in AttributeValues(Range(AnyValueType))
      BY WireAssumption
    <3>1. \A x \in T : AnyValueType[x] \in Range(AnyValueType)
      BY DEF Range
    <3> HIDE DEF V, T
    <3> DEFINE items == [i \in DOMAIN v.items |-> [v.items[i] EXCEPT !.type = AnyValueType[@]]]
               R == Range(AnyValueType)
    <3> HIDE DEF R
    <3>2. \A i \in DOMAIN v.items : [v.items[i] EXCEPT !.type = AnyValueType[@]]
                                     \in [type : R, content : STRING, items : {<<>>}]
      <4> SUFFICES ASSUME NEW i \in DOMAIN v.items
                   PROVE  [v.items[i] EXCEPT !.type = AnyValueType[@]]
                             \in [type : R, content : STRING, items : {<<>>}]
        OBVIOUS
      <4> DEFINE x == v.items[i]
      <4>1. x \in [type : T, content : STRING, items : {<<>>}]
        <5> DEFINE X == [type : T, content : STRING, items : {<<>>}]
        <5> HIDE DEF X
        <5>1. v.items \in Seq(X)
          BY <2>4 DEF X
        <5>2. v.items[i] \in X
          BY <5>1
        <5> QED
          BY <5>2 DEF X
      <4> HIDE DEF x
      <4>2. AnyValueType[x.type] \in R
        BY <3>1, <4>1 DEF R
      <4>3. [x EXCEPT !.type = AnyValueType[@]] \in [type : R, content : STRING, items : {<<>>}]
        BY <4>1, <4>2
      <4> QED
        BY <4>3 DEF x
    <3>3. items \in Seq([type : R, content : STRING, items : {<<>>}])
      <4> DEFINE X == [type : R, content : STRING, items : {<<>>}]
      <4>1. DOMAIN items = 1 .. Len(v.items) /\ Len(v.items) \in Nat
        BY <2>4
      <4>2. \A i \in DOMAIN v.items : items[i] \in X
        BY <3>2
      <4> HIDE DEF X
      <4>3. items = [i \in 1 .. Len(v.items) |-> items[i]]
        BY <2>4
      <4> HIDE DEF items
      <4>4. DOMAIN v.items = 1 .. Len(v.items)
        BY <2>4
      <4>5. items \in Seq(X)
        BY <4>1, <4>2, <4>3, <4>4
      <4> QED
        BY <4>5 DEF X
    <3>4. AnyValueType[v.type] \in R /\ v.content \in STRING
      BY <2>4, <3>1 DEF R
    <3>5. AnyValue(v) = [type |-> AnyValueType[v.type], content |-> v.content, items |-> items]
      BY DEF AnyValue
    <3> HIDE DEF items
    <3> QED
      BY <3>3, <3>4, <3>5 DEF AttributeValues, R
  <2>6. ASSUME NEW v \in V, NEW w \in V, AnyValue(v) = AnyValue(w)
        PROVE  v = w
    <3>1. /\ AnyValueType[v.type] = AnyValueType[w.type] /\ v.content = w.content
          /\ [i \in DOMAIN v.items |-> [v.items[i] EXCEPT !.type = AnyValueType[@]]]
                = [i \in DOMAIN w.items |-> [w.items[i] EXCEPT !.type = AnyValueType[@]]]
      BY <2>6 DEF AnyValue
    <3>2. v.type = w.type
      BY <2>3, <2>4, <3>1
    <3>3. DOMAIN v.items = DOMAIN w.items
      BY <3>1
    <3>4. ASSUME NEW i \in DOMAIN v.items PROVE v.items[i] = w.items[i]
      <4> DEFINE x == v.items[i]
                 y == w.items[i]
      <4>a. /\ v.items \in Seq([type : T, content : STRING, items : {<<>>}])
            /\ w.items \in Seq([type : T, content : STRING, items : {<<>>}])
        BY <2>4
      <4>1. x \in [type : T, content : STRING, items : {<<>>}]
            /\ y \in [type : T, content : STRING, items : {<<>>}]
        <5> DEFINE X == [type : T, content : STRING, items : {<<>>}]
        <5> HIDE DEF X
        <5>1. v.items \in Seq(X) /\ w.items \in Seq(X)
          BY <4>a DEF X
        <5>2. v.items[i] \in X /\ w.items[i] \in X
          BY <3>3, <5>1
        <5> QED
          BY <5>2 DEF X
      <4>2. [x EXCEPT !.type = AnyValueType[@]] = [y EXCEPT !.type = AnyValueType[@]]
        BY <3>1, <3>3
      <4> HIDE DEF x, y, T
      <4>3. x.content = y.content /\ x.items = y.items /\ AnyValueType[x.type] = AnyValueType[y.type]
        BY <4>1, <4>2
      <4>4. x.type = y.type
        BY <2>3, <4>1, <4>3
      <4>5. x = y
        BY <4>1, <4>3, <4>4
      <4> QED
        BY <4>5 DEF x, y
    <3>5. v.items = w.items
      <4>1. v.items = [i \in DOMAIN v.items |-> v.items[i]] /\ w.items = [i \in DOMAIN w.items |-> w.items[i]]
        BY <2>4
      <4> QED
        BY <3>3, <3>4, <4>1
    <3> QED
      BY <2>4, <3>1, <3>2, <3>5, Zenon
  <2> HIDE DEF V, a, b
  <2>7. DOMAIN a = DOMAIN b
    BY <2>1 DEF map_attrs
  <2>8. ASSUME NEW i \in DOMAIN a PROVE a[i] = b[i]
    <3>1. map_attrs(a)[i] = map_attrs(b)[i]
      BY <2>1
    <3>2. /\ a[i].key = b[i].key
          /\ (IF a[i].value = None THEN None ELSE AnyValue(a[i].value))
                = (IF b[i].value = None THEN None ELSE AnyValue(b[i].value))
      BY <2>7, <3>1 DEF map_attrs
    <3>3. /\ a[i] \in [key : STRING, value : V \cup {None}]
          /\ b[i] \in [key : STRING, value : V \cup {None}]
      <4> DEFINE X == [key : STRING, value : V \cup {None}]
      <4> HIDE DEF X
      <4>1. a \in Seq(X) /\ b \in Seq(X)
        BY <2>2 DEF X
      <4>2. a[i] \in X /\ b[i] \in X
        BY <2>7, <4>1
      <4> QED
        BY <4>2 DEF X
    <3>4. a[i].value \in V \cup {None} /\ b[i].value \in V \cup {None}
      BY <3>3
    <3>5. a[i].value = b[i].value
      BY <2>5, <2>6, <3>2, <3>4
    <3> QED
      BY <3>2, <3>3, <3>5
  <2>9. a = b
    <3>1. a = [i \in DOMAIN a |-> a[i]] /\ b = [i \in DOMAIN b |-> b[i]]
      BY <2>2
    <3> QED
      BY <2>7, <2>8, <3>1
  <2> QED
    BY <2>9, ObserverAssumption DEF a, b, IsInjective
<1> QED
  BY <1>1, <1>2

LEMMA PiecesAre ==
    ASSUME Types, NEW o \in Observers
    PROVE  /\ \E S : Pieces(o) \in Seq(S)
           /\ \A i \in DOMAIN Pieces(o) :
                 /\ IsMetric(o, Pieces(o)[i])
                 /\ \/ i \in DOMAIN exported[o] /\ Pieces(o)[i] = exported[o][i]
                    \/ /\ into_wire(o).is = "Some"
                       /\ i = Len(exported[o]) + 1 /\ Pieces(o)[i] = into_wire(o).metric
           /\ Len(exported[o]) \in Nat /\ DOMAIN exported[o] = 1 .. Len(exported[o])
<1>1. PICK S : exported[o] \in Seq(S)
  BY DEF Types, Typed
<1>2. CASE into_wire(o).is = "Some"
  <2> DEFINE m == into_wire(o).metric
             U == S \cup {m}
  <2>1. IsMetric(o, m)
    BY <1>2, PiecesAreMetrics
  <2>2. Pieces(o) = Append(exported[o], m)
    BY <1>2 DEF Pieces
  <2> HIDE DEF m
  <2>3. exported[o] \in Seq(U) /\ m \in U
    BY <1>1
  <2>4. /\ Pieces(o) \in Seq(U)
        /\ \A i \in DOMAIN Pieces(o) : \/ i \in DOMAIN exported[o] /\ Pieces(o)[i] = exported[o][i]
                                       \/ i = Len(exported[o]) + 1 /\ Pieces(o)[i] = m
    BY <2>2, <2>3
  <2> QED
    BY <1>1, <1>2, <2>1, <2>4 DEF Types, Metrics, m
<1>3. CASE into_wire(o).is # "Some"
  BY <1>1, <1>3 DEF Pieces, Types, Metrics
<1> QED
  BY <1>2, <1>3

\* The points of one key have strictly increasing times, none before the start
\* they name, aligned or not, before and after an export, and when the number
\* of polls outgrows its u32: align_ts never goes back, and what is exported
\* leaves before what is recorded next (TimesIncrease of Observer).
THEOREM TimesAlwaysIncrease == Safety => []TimesIncrease
<1>1. ASSUME Types, Clocks PROVE TimesIncrease
  <2> SUFFICES ASSUME NEW o \in Observers, NEW i \in DOMAIN Pieces(o), NEW j \in DOMAIN Pieces(o),
                      NEW d \in DOMAIN Pieces(o)[i].data_points,
                      NEW e \in DOMAIN Pieces(o)[j].data_points
               PROVE  LET p == Pieces(o)[i].data_points[d]
                          q == Pieces(o)[j].data_points[e]
                      IN  /\ start_time[o] = p.start_time /\ p.start_time <= p.time
                          /\ p.attributes = q.attributes /\ (i < j \/ (i = j /\ d[2] < e[2]))
                                => p.time < q.time
    BY <1>1, TheCell DEF TimesIncrease, Types, Typed
  <2> DEFINE p == Pieces(o)[i].data_points[d]
             q == Pieces(o)[j].data_points[e]
             n == Len(exported[o])
             m == into_wire(o).metric
  <2>0. Clock(o) /\ start_time[o] \in Int
    BY <1>1 DEF Clocks, Types, Typed
  <2>1. /\ IsMetric(o, Pieces(o)[i]) /\ IsMetric(o, Pieces(o)[j])
        /\ n \in Nat /\ DOMAIN exported[o] = 1 .. n
        /\ \/ i \in DOMAIN exported[o] /\ Pieces(o)[i] = exported[o][i]
           \/ into_wire(o).is = "Some" /\ i = n + 1 /\ Pieces(o)[i] = m
        /\ \/ j \in DOMAIN exported[o] /\ Pieces(o)[j] = exported[o][j]
           \/ into_wire(o).is = "Some" /\ j = n + 1 /\ Pieces(o)[j] = m
    BY <1>1, PiecesAre
  <2>2. start_time[o] = p.start_time /\ p.start_time <= p.time
    <3>1. CASE i \in DOMAIN exported[o] /\ Pieces(o)[i] = exported[o][i]
      <4>1. FromSnapshot(o, p)
        BY <2>0, <3>1 DEF Clock, ExportedTimes
      <4> QED
        BY <2>0, <4>1, AlignedTimes DEF FromSnapshot, Timed
    <3>2. CASE into_wire(o).is = "Some" /\ Pieces(o)[i] = m
      BY <1>1, <2>0, <3>2, PieceTimes
    <3> QED
      BY <2>1, <3>1, <3>2
  <2>3. ASSUME p.attributes = q.attributes, i < j \/ (i = j /\ d[2] < e[2])
        PROVE  p.time < q.time
    <3>0. d[1] = e[1]
      <4>1. d[1] \in Keys /\ e[1] \in Keys /\ Label(o, d[1]) = Label(o, e[1])
        BY <2>1, <2>3 DEF IsMetric, Place
      <4> QED
        BY <4>1, LabelsDiffer
    <3>1. CASE j \in DOMAIN exported[o] /\ Pieces(o)[j] = exported[o][j]
      <4>1. i \in DOMAIN exported[o] /\ Pieces(o)[i] = exported[o][i]
        BY <2>1, <2>3, <3>1
      <4> QED
        BY <2>0, <2>3, <3>0, <3>1, <4>1 DEF Clock, ExportedTimes
    <3>2. CASE into_wire(o).is = "Some" /\ j = n + 1 /\ Pieces(o)[j] = m
      <4>1. CASE i \in DOMAIN exported[o] /\ Pieces(o)[i] = exported[o][i]
        <5>1. e[2] \in DOMAIN series[o][e[1]] /\ m.data_points[e].time = TimeOf(o, series[o][e[1]][e[2]])
          BY <1>1, <2>0, <3>2, PieceTimes
        <5>2. exported[o][i].data_points[d].time < TimeOf(o, series[o][d[1]][e[2]])
          BY <2>0, <3>0, <4>1, <5>1 DEF Clock, ExportedTimes
        <5> QED
          BY <3>0, <3>2, <4>1, <5>1, <5>2
      <4>2. CASE i = n + 1 /\ Pieces(o)[i] = m
        <5>1. d[2] < e[2]
          BY <2>1, <2>3, <3>2, <4>2
        <5> QED
          BY <1>1, <2>0, <3>0, <3>2, <4>2, <5>1, PieceTimes
      <4> QED
        BY <2>1, <4>1, <4>2
    <3> QED
      BY <2>1, <3>1, <3>2
  <2> QED
    BY <2>2, <2>3
<1>2. Types /\ Clocks => TimesIncrease
  BY <1>1
<1> QED
  BY <1>2, ClocksAlways, PTL

-----------------------------------------------------------------------------
(* Buckets                                                                 *)

\* A bucket is one of its key, made by a call that has begun, and initial until
\* then; a visitor reads buckets of the map, a drainer buckets out of it; an alias
\* leads to a bucket of the key of its lists.
Named ==
    /\ \A u \in Updates : upc[u] # "called" => Key[ref[u]] = Key[u] /\ upc[ref[u]] # "called"
    /\ \A k \in Keys : bucket[k] # None => Key[bucket[k]] = k /\ upc[bucket[k]] # "called"
    /\ \A o \in Observers : \A e \in todo[o] : Key[e[2]] = e[1] /\ upc[e[2]] # "called"
    /\ \A u \in Updates : upc[u] = "called" => value[u] = Initial(cell)
    /\ \A o \in Observers : Mode[o] # "Destructive" =>
          /\ opc[o] = "observing" => lock = o
          /\ todo[o] \subseteq Live
    /\ \A o \in Observers : Mode[o] = "Destructive" =>
          \A e \in todo[o] : bucket[e[1]] # e[2]
    /\ \A f \in Fingerprints : aliases[f] # None =>
          /\ upc[aliases[f]] # "called"
          /\ \A u \in Updates : Fingerprint[u] = f => Key[u] = Key[aliases[f]]

LEMMA LiveIs ==
    ASSUME NEW e
    PROVE  e \in Live <=> \E k \in Keys : bucket[k] # None /\ e = <<k, bucket[k]>>
BY DEF Live

LEMMA NamedInitial ==
    ASSUME Init
    PROVE  Named
BY DEF Init, Named

LEMMA NamedGetOrCreate ==
    ASSUME Types, Clocks, Named, NEW u \in Updates, GetOrCreate(u)
    PROVE  Named'
<1> DEFINE b == IF bucket[Key[u]] = None THEN u ELSE bucket[Key[u]]
<1>0. /\ u \in world.calls /\ upc[u] = "called" /\ lock = None
      /\ bucket' = [bucket EXCEPT ![Key[u]] = b]
      /\ ref' = [ref EXCEPT ![u] = b]
      /\ upc' = [upc EXCEPT ![u] = IF NeedsAlias[u] THEN "insert_dup" ELSE "update"]
      /\ UNCHANGED <<world, aliases, value, lock, old, opc, todo, ts, observer, outcome, history>>
  BY DEF GetOrCreate, progress
<1>1. /\ b \in Updates /\ Key[b] = Key[u] /\ Key[u] \in Keys /\ upc'[b] # "called"
  <2>1. Key[u] \in Keys /\ \A w \in Updates : upc'[w] # "called" <=> w = u \/ upc[w] # "called"
    BY <1>0, ObserverAssumption DEF Types, Typed
  <2>2. CASE bucket[Key[u]] = None
    BY <2>1, <2>2
  <2>3. CASE bucket[Key[u]] # None
    <3>1. b = bucket[Key[u]] /\ b \in Updates
      BY <2>1, <2>3 DEF Types, Typed
    <3>2. Key[b] = Key[u] /\ upc[b] # "called"
      BY <2>1, <2>3, <3>1 DEF Named
    <3> QED
      BY <1>0, <2>1, <3>1, <3>2
  <2> QED
    BY <2>2, <2>3
<1>2. bucket[Key[u]] = None \/ b = bucket[Key[u]]
  OBVIOUS
<1>3. bucket[Key[u]] = None => b = u
  OBVIOUS
<1> HIDE DEF b
<1>4. \A w \in Updates : upc[w] # "called" => upc'[w] # "called"
  BY <1>0 DEF Types, Typed
<1>5. \A w \in Updates : upc'[w] # "called" => Key[ref'[w]] = Key[w] /\ upc'[ref'[w]] # "called"
  <2> SUFFICES ASSUME NEW w \in Updates, upc'[w] # "called"
               PROVE  Key[ref'[w]] = Key[w] /\ upc'[ref'[w]] # "called"
    OBVIOUS
  <2>1. CASE w = u
    BY <1>0, <1>1, <2>1 DEF Types, Typed
  <2>2. CASE w # u
    <3>1. ref'[w] = ref[w] /\ upc[w] # "called" /\ ref[w] \in Updates
      BY <1>0, <2>2 DEF Types, Typed, Called
    <3> QED
      BY <1>4, <3>1 DEF Named
  <2> QED
    BY <2>1, <2>2
<1>6. \A k \in Keys : bucket'[k] # None => Key[bucket'[k]] = k /\ upc'[bucket'[k]] # "called"
  <2> SUFFICES ASSUME NEW k \in Keys, bucket'[k] # None
               PROVE  Key[bucket'[k]] = k /\ upc'[bucket'[k]] # "called"
    OBVIOUS
  <2>1. CASE k = Key[u]
    BY <1>0, <1>1, <2>1 DEF Types, Typed
  <2>2. CASE k # Key[u]
    <3>1. bucket'[k] = bucket[k] /\ bucket[k] \in Updates
      BY <1>0, <2>2 DEF Types, Typed
    <3> QED
      BY <1>4, <3>1 DEF Named
  <2> QED
    BY <2>1, <2>2
<1>7. \A o \in Observers : \A e \in todo'[o] : Key[e[2]] = e[1] /\ upc'[e[2]] # "called"
  BY <1>0, <1>4, RecordedSound DEF Named
<1>8. \A w \in Updates : upc'[w] = "called" => value'[w] = Initial(cell)'
  <2>1. Initial(cell)' = Initial(cell)
    BY <1>0 DEF cell, kind
  <2> QED
    BY <1>0, <1>4, <2>1 DEF Named
<1>9. \A o \in Observers : Mode[o] # "Destructive" =>
          (opc'[o] = "observing" => lock' = o) /\ todo'[o] \subseteq Live'
  <2> SUFFICES ASSUME NEW o \in Observers, Mode[o] # "Destructive"
               PROVE  (opc'[o] = "observing" => lock' = o) /\ todo'[o] \subseteq Live'
    OBVIOUS
  <2>1. opc[o] # "observing"
    BY <1>0, ObserverAssumption DEF Named
  <2>2. todo[o] = {}
    BY <2>1 DEF Clocks, Clock, PollTimes, Types, Typed
  <2> QED
    BY <1>0, <2>1, <2>2
<1>10. \A o \in Observers : Mode[o] = "Destructive" => \A e \in todo'[o] : bucket'[e[1]] # e[2]
  <2> SUFFICES ASSUME NEW o \in Observers, Mode[o] = "Destructive", NEW e \in todo[o]
               PROVE  bucket'[e[1]] # e[2]
    BY <1>0
  <2>1. e[1] \in Keys /\ upc[e[2]] # "called" /\ bucket[e[1]] # e[2]
    BY RecordedSound DEF Named
  <2>2. CASE e[1] = Key[u]
    <3>1. bucket'[e[1]] = b
      BY <1>0, <2>1, <2>2 DEF Types, Typed
    <3> QED
      BY <1>0, <1>2, <1>3, <2>1, <2>2, <3>1
  <2>3. CASE e[1] # Key[u]
    BY <1>0, <2>1, <2>3 DEF Types, Typed
  <2> QED
    BY <2>2, <2>3
<1>11. \A f \in Fingerprints : aliases'[f] # None =>
          /\ upc'[aliases'[f]] # "called"
          /\ \A w \in Updates : Fingerprint[w] = f => Key[w] = Key[aliases'[f]]
  BY <1>0, <1>4 DEF Named, Types, Typed
<1> QED
  BY <1>5, <1>6, <1>7, <1>8, <1>9, <1>10, <1>11 DEF Named

LEMMA NamedLookup ==
    ASSUME Types, Clocks, Named, NEW u \in Updates, LookupDup(u) \/ insert_dup(u)
    PROVE  Named'
<1> DEFINE f == Fingerprint[u]
<1>0. /\ upc' = [upc EXCEPT ![u] = "update"]
      /\ UNCHANGED <<world, bucket, value, lock, opc, todo>>
      /\ f \in Fingerprints
      /\ Live' = Live /\ Initial(cell)' = Initial(cell)
  BY ObserverAssumption DEF LookupDup, insert_dup, source, progress, Live, cell, Types, Called
<1>1. \A w \in Updates : upc[w] # "called" => upc'[w] # "called"
  BY <1>0 DEF Types, Typed
<1>2. /\ \A w \in Updates : w # u => ref'[w] = ref[w]
      /\ Key[ref'[u]] = Key[u] /\ ref'[u] \in Updates /\ upc[ref'[u]] # "called"
  <2>1. CASE LookupDup(u)
    <3>1. ref' = [ref EXCEPT ![u] = aliases[f]] /\ aliases[f] # None
      BY <2>1 DEF LookupDup
    <3>2. aliases[f] \in Updates /\ upc[aliases[f]] # "called" /\ Key[aliases[f]] = Key[u]
      BY <1>0, <3>1 DEF Named, Types, Typed
    <3> QED
      BY <3>1, <3>2 DEF Types, Typed
  <2>2. CASE insert_dup(u)
    BY <2>2 DEF insert_dup, Named, Types, Called
  <2> QED
    BY <2>1, <2>2
<1>3. \A w \in Updates : upc'[w] # "called" => Key[ref'[w]] = Key[w] /\ upc'[ref'[w]] # "called"
  <2> SUFFICES ASSUME NEW w \in Updates, upc'[w] # "called"
               PROVE  Key[ref'[w]] = Key[w] /\ upc'[ref'[w]] # "called"
    OBVIOUS
  <2>1. CASE w = u
    BY <1>1, <1>2, <2>1
  <2>2. CASE w # u
    <3>1. ref'[w] = ref[w] /\ upc[w] # "called" /\ ref[w] \in Updates
      BY <1>0, <1>2, <2>2 DEF Types, Typed, Called
    <3> QED
      BY <1>1, <3>1 DEF Named
  <2> QED
    BY <2>1, <2>2
<1>4. \A g \in Fingerprints : aliases'[g] # None =>
          /\ upc'[aliases'[g]] # "called"
          /\ \A w \in Updates : Fingerprint[w] = g => Key[w] = Key[aliases'[g]]
  <2> SUFFICES ASSUME NEW g \in Fingerprints, aliases'[g] # None
               PROVE  /\ upc'[aliases'[g]] # "called"
                      /\ \A w \in Updates : Fingerprint[w] = g => Key[w] = Key[aliases'[g]]
    OBVIOUS
  <2>1. CASE aliases'[g] = aliases[g]
    BY <1>1, <2>1 DEF Named, Types, Typed
  <2>2. CASE aliases'[g] # aliases[g]
    <3>1. insert_dup(u)
      BY <2>2 DEF LookupDup, source
    <3>2. g = f /\ aliases'[g] = ref'[u]
      BY <2>2, <3>1 DEF insert_dup, Types, Typed
    <3>3. \A w \in Updates : Fingerprint[w] = g => Key[w] = Key[u]
      BY <1>0, <3>2, ObserverAssumption
    <3> QED
      BY <1>1, <1>2, <3>2, <3>3
  <2> QED
    BY <2>1, <2>2
<1>5. \A k \in Keys : bucket'[k] # None => Key[bucket'[k]] = k /\ upc'[bucket'[k]] # "called"
  BY <1>0, <1>1 DEF Named, Types, Typed
<1>6. \A o \in Observers : \A e \in todo'[o] : Key[e[2]] = e[1] /\ upc'[e[2]] # "called"
  BY <1>0, <1>1, RecordedSound DEF Named
<1>7. \A w \in Updates : upc'[w] = "called" => value'[w] = Initial(cell)'
  BY <1>0, <1>1 DEF Named
<1> QED
  BY <1>0, <1>3, <1>4, <1>5, <1>6, <1>7 DEF Named

\* An update of a bucket that has been made.
LEMMA NamedUpdate ==
    ASSUME Types, Named, NEW u \in Updates, upc[u] # "called",
           UNCHANGED <<world, bucket, aliases, lock, ref, opc, todo>>,
           \A w \in Updates : upc'[w] = "called" <=> upc[w] = "called",
           \A b \in Updates : value'[b] = value[b] \/ b = ref[u]
    PROVE  Named'
<1>1. Live' = Live /\ Initial(cell)' = Initial(cell)
  BY DEF Live, cell, kind
<1>2. \A w \in Updates : upc'[w] # "called" => Key[ref'[w]] = Key[w] /\ upc'[ref'[w]] # "called"
  BY DEF Named, Types, Called
<1>3. \A k \in Keys : bucket'[k] # None => Key[bucket'[k]] = k /\ upc'[bucket'[k]] # "called"
  BY DEF Named, Types, Typed
<1>4. \A o \in Observers : \A e \in todo'[o] : Key[e[2]] = e[1] /\ upc'[e[2]] # "called"
  BY RecordedSound DEF Named
<1>5. \A w \in Updates : upc'[w] = "called" => value'[w] = Initial(cell)'
  BY <1>1 DEF Named
<1>6. \A f \in Fingerprints : aliases'[f] # None =>
          /\ upc'[aliases'[f]] # "called"
          /\ \A w \in Updates : Fingerprint[w] = f => Key[w] = Key[aliases'[f]]
  BY DEF Named, Types, Typed
<1> QED
  BY <1>1, <1>2, <1>3, <1>4, <1>5, <1>6 DEF Named

LEMMA NamedBegin ==
    ASSUME Types, Clocks, Named, NEW o \in Observers, BeginVisit(o) \/ BeginTake(o)
    PROVE  Named'
<1>0. /\ lock = None
      /\ opc' = [opc EXCEPT ![o] = "observing"]
      /\ todo' = [todo EXCEPT ![o] = Live]
      /\ UNCHANGED <<world, value, upc, ref>>
  BY DEF BeginVisit, BeginTake, Begin, source, updates
<1>1. \A p \in Observers : Mode[p] # "Destructive" => opc[p] # "observing" /\ todo[p] = {}
  BY <1>0, ObserverAssumption DEF Named, Clocks, Clock, PollTimes, Types, Typed
<1>2. /\ \A p \in Observers : todo'[p] = IF p = o THEN Live ELSE todo[p]
      /\ \A p \in Observers : opc'[p] = IF p = o THEN "observing" ELSE opc[p]
  BY <1>0 DEF Types, Typed
<1>3. \A e \in Live : Key[e[2]] = e[1] /\ upc[e[2]] # "called" /\ e[1] \in Keys
  BY DEF Live, Named
<1>4. \A p \in Observers : \A e \in todo'[p] : Key[e[2]] = e[1] /\ upc[e[2]] # "called" /\ e[1] \in Keys
  BY <1>2, <1>3, RecordedSound DEF Named
<1>5. Initial(cell)' = Initial(cell)
  BY <1>0 DEF cell, kind
<1>6. CASE BeginVisit(o)
  <2>1. bucket' = bucket /\ aliases' = aliases /\ lock' = o /\ Mode[o] # "Destructive" /\ Live' = Live
    BY <1>6 DEF BeginVisit, source, Live
  <2>2. \A p \in Observers : Mode[p] # "Destructive" =>
            (opc'[p] = "observing" => lock' = p) /\ todo'[p] \subseteq Live'
    BY <1>1, <1>2, <2>1
  <2>3. \A p \in Observers : Mode[p] = "Destructive" => \A e \in todo'[p] : bucket'[e[1]] # e[2]
    BY <1>2, <2>1 DEF Named
  <2> QED
    BY <1>0, <1>4, <1>5, <2>1, <2>2, <2>3 DEF Named
<1>7. CASE BeginTake(o)
  <2>1. bucket' = [k \in Keys |-> None] /\ Mode[o] = "Destructive"
    BY <1>7 DEF BeginTake
  <2>2. \A p \in Observers : Mode[p] # "Destructive" =>
            (opc'[p] = "observing" => lock' = p) /\ todo'[p] \subseteq Live'
    BY <1>1, <1>2, <2>1
  <2>3. \A p \in Observers : \A e \in todo'[p] : bucket'[e[1]] # e[2]
    <3> SUFFICES ASSUME NEW p \in Observers, NEW e \in todo'[p] PROVE bucket'[e[1]] # e[2]
      OBVIOUS
    <3>1. e[1] \in Keys /\ e[2] \in Updates
      <4>1. todo'[p] \subseteq Entries
        <5>1. Live \in SUBSET Entries
          BY LiveType DEF Types
        <5>2. todo[p] \in SUBSET Entries
          BY DEF Types, Typed
        <5> QED
          BY <1>2, <5>1, <5>2
      <4> QED
        BY <4>1 DEF Entries
    <3> QED
      BY <2>1, <3>1, ObserverAssumption
  <2>4. (\A k \in Keys : bucket'[k] = None) /\ \A f \in Fingerprints : aliases'[f] = None
    BY <1>7, <2>1 DEF BeginTake
  <2> QED
    BY <1>0, <1>4, <1>5, <2>2, <2>3, <2>4 DEF Named
<1> QED
  BY <1>6, <1>7

\* An entry is read, or an observation ends.
LEMMA NamedRead ==
    ASSUME Types, Clocks, Named, UNCHANGED <<world, bucket, aliases, value, upc, ref>>,
           \A o \in Observers : todo'[o] \subseteq todo[o],
           \A o \in Observers : opc'[o] = "observing" => opc[o] = "observing" /\ (lock = o => lock' = o)
    PROVE  Named'
<1>1. Live' = Live /\ Initial(cell)' = Initial(cell)
  BY DEF Live, cell, kind
<1> QED
  BY <1>1 DEF Named

LEMMA NamedStep ==
    ASSUME Types, Clocks, Named, [Next]_vars
    PROVE  Named'
<1>1. CASE UNCHANGED vars
  <2>1. UNCHANGED <<world, bucket, aliases, value, upc, ref, todo, opc, lock>>
    BY <1>1 DEF vars, source, updates, progress
  <2> QED
    BY <2>1, NamedRead
<1>2. ASSUME NEW u \in Updates,
             GetOrCreate(u) \/ LookupDup(u) \/ insert_dup(u)
             \/ Clear(u) \/ Set(u) \/ FetchAdd(u) \/ LoadBits(u)
             \/ CompareExchange(u) \/ CompareExchangeFails(u)
      PROVE  Named'
  <2>1. CASE GetOrCreate(u)
    BY <2>1, NamedGetOrCreate
  <2>2. CASE LookupDup(u) \/ insert_dup(u)
    BY <2>2, NamedLookup
  <2>3. CASE Clear(u) \/ Set(u) \/ FetchAdd(u) \/ LoadBits(u) \/ CompareExchange(u)
             \/ CompareExchangeFails(u)
    <3>1. /\ upc[u] # "called"
          /\ UNCHANGED <<world, bucket, aliases, lock, ref, progress>>
          /\ \/ upc' = [upc EXCEPT ![u] = "returned"]
             \/ upc' = [upc EXCEPT ![u] = "exchange"]
             \/ upc' = upc
          /\ value' = value \/ \E v : value' = [value EXCEPT ![ref[u]] = v]
      BY <2>3 DEF Clear, Set, FetchAdd, LoadBits, CompareExchange, CompareExchangeFails, Store, source
    <3>2. \A w \in Updates : upc'[w] = "called" <=> upc[w] = "called"
      BY <3>1 DEF Types, Typed
    <3>3. \A b \in Updates : value'[b] = value[b] \/ b = ref[u]
      BY <3>1 DEF Types, Typed
    <3> QED
      BY <3>1, <3>2, <3>3, NamedUpdate DEF progress
  <2> QED
    BY <1>2, <2>1, <2>2, <2>3
<1>3. ASSUME NEW o \in Observers,
             BeginVisit(o) \/ BeginTake(o) \/ VisitBucket(o) \/ ReadBucket(o)
             \/ EndObserve(o) \/ Export(o) \/ Reset(o)
      PROVE  Named'
  <2>1. CASE BeginVisit(o) \/ BeginTake(o)
    BY <2>1, NamedBegin
  <2>2. CASE VisitBucket(o) \/ ReadBucket(o)
    <3>1. /\ \E e \in todo[o] : todo' = [todo EXCEPT ![o] = @ \ {e}]
          /\ UNCHANGED <<world, bucket, aliases, value, upc, ref, opc, lock>>
      BY <2>2 DEF VisitBucket, ReadBucket, source, updates
    <3>2. \A p \in Observers : todo'[p] \subseteq todo[p]
      BY <3>1 DEF Types, Typed
    <3> QED
      BY <3>1, <3>2, NamedRead
  <2>3. CASE EndObserve(o)
    <3>1. /\ opc' = [opc EXCEPT ![o] = "idle"]
          /\ lock' = IF lock = o THEN None ELSE lock
          /\ UNCHANGED <<world, bucket, aliases, value, upc, ref, todo>>
      BY <2>3 DEF EndObserve, source, updates
    <3>2. \A p \in Observers : opc'[p] = "observing" => opc[p] = "observing" /\ (lock = p => lock' = p)
      BY <3>1 DEF Types, Typed
    <3> QED
      BY <3>1, <3>2, NamedRead
  <2>4. CASE Export(o) \/ Reset(o)
    <3>1. UNCHANGED <<world, bucket, aliases, value, upc, ref, todo, opc, lock>>
      BY <2>4 DEF Export, Reset, source, updates, progress
    <3> QED
      BY <3>1, NamedRead
  <2> QED
    BY <1>3, <2>1, <2>2, <2>3, <2>4
<1> QED
  BY <1>1, <1>2, <1>3, Zenon DEF Next

-----------------------------------------------------------------------------
(* What is counted                                                         *)

Leq(v, w) == \A i \in 1 .. Width : v[i] <= w[i]

\* No value counts more than was added under its key: not that of a bucket, of a
\* snapshot, or of a point.
ValuesBounded == \A b \in Updates : Leq(Counts(cell, value[b]), Added(Key[b]))

SeriesBounded ==
    \A o \in Observers, k \in Keys : \A n \in DOMAIN series[o][k] :
        Leq(Counts(cell, series[o][k][n].value), Added(k))

PointsBounded ==
    \A o \in Observers : \A j \in DOMAIN exported[o] :
        \A e \in DOMAIN exported[o][j].data_points :
            Leq(PointCounts(o, exported[o][j].data_points[e]), Added(e[1]))

Bounded == ValuesBounded /\ SeriesBounded /\ PointsBounded

\* Only the metric's own observers poll.
Watching == \A o \in Observers : opc[o] = "observing" => o \in world.observers

\* What a reader has of k, or would have after an export.
Out(o, k) == Total(ReadAll(o, exported[o], k))
Reports(o, k) == [i \in 1 .. Width |-> Out(o, k)[i] + PendingCounts(o, k)[i]]

InMap(k) == IF bucket[k] = None THEN Zero ELSE Counts(cell, value[bucket[k]])

\* A reader has none of what is in the bucket of the map, or all of it but what
\* has been added since the last visit.
NoneReported(o, k) ==
    \A i \in 1 .. Width : Reports(o, k)[i] + InMap(k)[i] <= Added(k)[i]

VisitedReported(o, k) ==
    LET p == last_values[o][k]
        current == value[bucket[k]]
    IN  /\ bucket[k] # None /\ p # None
        /\ p = current \/ Less(cell, p, current)
        /\ \A i \in 1 .. Width :
              /\ Counts(cell, p)[i] <= Counts(cell, current)[i]
              /\ Reports(o, k)[i] + Counts(cell, current)[i] - Counts(cell, p)[i] <= Added(k)[i]

\* Nor has it anything of a bucket that has been taken and is yet to be read.
UnreadNotReported(o, k) ==
    \A b \in Updates : <<k, b>> \in todo[o] =>
        \A i \in 1 .. Width :
            Reports(o, k)[i] + InMap(k)[i] + Counts(cell, value[b])[i] <= Added(k)[i]

Accumulating(o) == Mode[o] # "Direct" /\ kind # "Gauge"

Accounts(o, k) ==
    /\ Mode[o] = "Delta" => NoneReported(o, k) \/ VisitedReported(o, k)
    /\ Mode[o] = "Destructive" => NoneReported(o, k) /\ UnreadNotReported(o, k)

Accounted == \A o \in Observers, k \in Keys : Accumulating(o) => Accounts(o, k)

\* The metrics say whether they accumulate.
Marked == \A o \in Observers : \A j \in DOMAIN exported[o] :
             Accumulates(o, exported[o][j]) <=> Accumulating(o)

\* Adding to a value adds its numbers, unless a u64 starts again at zero.
IsAddend(c, x) == x \in Nat /\ (c = "AtomicU64" => x = 1)

AddsUp(c, v, x) ==
    \/ \A i \in 1 .. Size(c) :
          Counts(c, Plus(c, v, x))[i] = Counts(c, v)[i] + Counts(c, Plus(c, Initial(c), x))[i]
    \/ c = "AtomicU64" /\ Plus(c, v, x) = 0 /\ v = Modulus - 1

LEMMA PlusAdds ==
    ASSUME NEW sort, NEW c \in Cells, NEW v, Sound(sort, c, v), NEW x, IsAddend(c, x)
    PROVE  AddsUp(c, v, x)
<1> DEFINE w == Plus(c, v, x)
           g == Plus(c, Initial(c), x)
<1>1. c = "AtomicU64" => v \in 0 .. Modulus - 1
  BY DEF Sound
<1>2. c = "AtomicU64" => x \in {1, -1} /\ v + x >= 0
  BY <1>1, Constants DEF IsAddend
<1>5. x # -1
  BY DEF IsAddend
<1>3. x \in Nat
  BY DEF IsAddend
<1>4. \/ \A i \in 1 .. Size(c) : Counts(c, w)[i] = Counts(c, v)[i] + Counts(c, g)[i]
      \/ c = "AtomicU64" /\ x = 1 /\ w = 0 /\ v = Modulus - 1
      \/ c = "AtomicU64" /\ x = -1 /\ w = v - 1
  <2>1. CASE c = "AtomicU64"
    <3>1. x \in {1, -1} /\ v + x >= 0
      BY <1>2, <2>1
    <3> HIDE DEF w, g
    <3> QED
      BY <1>3, <2>1, <3>1, PlusCounts DEF w, g
  <2>2. CASE c # "AtomicU64"
    BY <1>3, <2>2, PlusCounts
  <2> QED
    BY <2>1, <2>2
<1> QED
  BY <1>4, <1>5 DEF AddsUp

LEMMA PlusLeq ==
    ASSUME NEW sort, NEW c \in Cells, NEW v, Sound(sort, c, v), NEW x \in Int,
           c \in {"Bucket", "AtomicF64"} => x \in Nat, c = "AtomicU64" => x = 1, x >= 0
    PROVE  \A i \in 1 .. Size(c) :
              Counts(c, Plus(c, v, x))[i] <= Counts(c, v)[i] + Counts(c, Plus(c, Initial(c), x))[i]
<1> DEFINE w == Plus(c, v, x)
           g == Plus(c, Initial(c), x)
<1>1. Sound(sort, c, w) /\ Sound(sort, c, g)
  BY PlusSound, InitialSound
<1>2. /\ Counts(c, w) \in [1 .. Size(c) -> Int] /\ Counts(c, g) \in [1 .. Size(c) -> Int]
      /\ Counts(c, v) \in [1 .. Size(c) -> Int]
  BY <1>1, CountsType
<1>3. CASE \A i \in 1 .. Size(c) : Counts(c, w)[i] = Counts(c, v)[i] + Counts(c, g)[i]
  <2> HIDE DEF w, g
  <2> QED
    BY <1>2, <1>3 DEF w, g
<1>4. CASE c = "AtomicU64" /\ w = 0 /\ v = Modulus - 1
  <2>1. g \in 0 .. Modulus - 1
    BY <1>1, <1>4 DEF Sound
  <2> HIDE DEF w, g
  <2>2. Counts(c, w)[1] = 0 /\ Counts(c, v)[1] = Modulus - 1 /\ Counts(c, g)[1] = g /\ Size(c) = 1
    BY <1>4 DEF Counts, Size
  <2>3. \A i \in 1 .. Size(c) : i = 1
    BY <2>2
  <2>4. 0 <= Modulus - 1 + g
    BY <2>1, Constants
  <2>5. Counts(c, w)[1] <= Counts(c, v)[1] + Counts(c, g)[1]
    BY <2>2, <2>4
  <2> QED
    BY <2>3, <2>5 DEF w, g
<1>5. (\A i \in 1 .. Size(c) : Counts(c, w)[i] = Counts(c, v)[i] + Counts(c, g)[i])
      \/ (c = "AtomicU64" /\ w = 0 /\ v = Modulus - 1)
  <2>1. IsAddend(c, x)
    BY DEF IsAddend
  <2>2. AddsUp(c, v, x)
    BY <2>1, PlusAdds
  <2> QED
    BY <2>2 DEF AddsUp
<1> QED
  BY <1>3, <1>4, <1>5

\* A difference counts what has been added, and no more than the later value.
LEMMA MinusLeq ==
    ASSUME NEW sort, NEW c \in Cells, sort # "Gauge", NEW v, Sound(sort, c, v), NEW w, Sound(sort, c, w), Less(c, w, v)
    PROVE  \A i \in 1 .. Size(c) :
              /\ Counts(c, Minus(c, v, w))[i] <= Counts(c, v)[i]
              /\ Counts(c, w)[i] <= Counts(c, v)[i] =>
                    Counts(c, Minus(c, v, w))[i] = Counts(c, v)[i] - Counts(c, w)[i]
<1> DEFINE d == Minus(c, v, w)
<1>1. Sound(sort, c, d)
  BY MinusSound
<1>2. CASE c = "Bucket"
  <2> DEFINE n == Len(Boundaries) + 1
  <2>1. v \in Histograms /\ w \in Histograms /\ d \in Histograms
    BY <1>1, <1>2 DEF Sound, IsValue
  <2>2. /\ d.count = saturating_sub(v.count, w.count)
        /\ \A i \in 1 .. n : d.bucket_counts[i] = saturating_sub(v.bucket_counts[i], w.bucket_counts[i])
    BY <1>2, <2>1 DEF Minus, Histograms
  <2>3. \A a, b \in Nat : saturating_sub(a, b) <= a /\ (b <= a => saturating_sub(a, b) = a - b)
    BY DEF saturating_sub
  <2>4. /\ v.count \in Nat /\ w.count \in Nat
        /\ \A i \in 1 .. n : v.bucket_counts[i] \in Nat /\ w.bucket_counts[i] \in Nat
    BY <2>1 DEF Histograms
  <2>5. \A x \in Histograms : Counts(c, x)[1] = x.count
                             /\ \A i \in 1 .. n : Counts(c, x)[i + 1] = x.bucket_counts[i]
    BY <1>2, CountsOfBucket
  <2>6. \A i \in 1 .. Size(c) : i = 1 \/ (i - 1 \in 1 .. n /\ i = (i - 1) + 1)
    BY <1>2, Constants DEF Size
  <2> HIDE DEF d, n
  <2>7. /\ Counts(c, d)[1] <= Counts(c, v)[1]
        /\ Counts(c, w)[1] <= Counts(c, v)[1] => Counts(c, d)[1] = Counts(c, v)[1] - Counts(c, w)[1]
    BY <2>1, <2>2, <2>3, <2>4, <2>5
  <2>8. \A i \in 1 .. n :
            /\ Counts(c, d)[i + 1] <= Counts(c, v)[i + 1]
            /\ Counts(c, w)[i + 1] <= Counts(c, v)[i + 1] =>
                  Counts(c, d)[i + 1] = Counts(c, v)[i + 1] - Counts(c, w)[i + 1]
    BY <2>1, <2>2, <2>3, <2>4, <2>5
  <2>9. \A i \in 1 .. Size(c) :
              /\ Counts(c, d)[i] <= Counts(c, v)[i]
              /\ Counts(c, w)[i] <= Counts(c, v)[i] =>
                    Counts(c, d)[i] = Counts(c, v)[i] - Counts(c, w)[i]
    BY <2>6, <2>7, <2>8
  <2> QED
    BY <2>9 DEF d
<1>3. CASE c = "AtomicU64"
  <2>1. v \in 0 .. Modulus - 1 /\ w \in 0 .. Modulus - 1 /\ w < v
    BY <1>3 DEF Sound, Less
  <2>2. (v - w) % Modulus = v - w
    BY <2>1, Constants
  <2>3. d = v - w
    BY <1>3, <2>2 DEF Minus
  <2> QED
    BY <1>3, <2>1, <2>3 DEF Counts, Size
<1>4. CASE c \in {"AtomicF64", "AtomicI64"}
  BY <1>4 DEF Sound, IsValue, Less, Minus, Counts, Size
<1> QED
  BY <1>2, <1>3, <1>4 DEF Cells

\* Only the count of additions that have been made grows.
LEMMA AddedGrows ==
    ASSUME world \in Worlds, world' = world, NEW k \in Keys,
           sunk \subseteq {u \in Updates : cell = "AtomicU64"},
           sunk' \subseteq {u \in Updates : cell = "AtomicU64"}, sunk \subseteq sunk',
           \A u \in Updates : upc[u] = "returned" => upc'[u] = "returned"
    PROVE  /\ Added(k)' \in Vectors /\ Leq(Added(k), Added(k)')
           /\ (\A u \in Updates : upc'[u] = "returned" => upc[u] = "returned") /\ sunk' = sunk
                 => Added(k)' = Added(k)
           /\ \A u \in Updates :
                 /\ upc[u] # "returned" /\ u \in Raised(k)' /\ sunk' \subseteq sunk \cup {u}
                 /\ \A w \in Updates : upc'[w] = "returned" => w = u \/ upc[w] = "returned"
                 => \A i \in 1 .. Width : Added(k)'[i] = Added(k)[i] + Gain(u)[i]
<1> DEFINE A == Raised(k)
           B == Raised(k)'
           f(i) == [u \in B |-> Gain(u)[i]]
           g(i) == [u \in A |-> Gain(u)[i]]
<1>1. /\ cell' = cell /\ kind' = kind /\ Width' = Width /\ Vectors' = Vectors /\ (\A u : Gain(u)' = Gain(u))
      /\ cell \in Cells /\ Width = Size(cell)
  <2>1. cell' = cell /\ kind' = kind
    BY DEF cell, kind
  <2> QED
    BY <2>1, SameWorld, TheCell, Sizes DEF Gain, One
<1>2. /\ A \subseteq B /\ B \subseteq Updates /\ IsFiniteSet(B) /\ IsFiniteSet(A)
      /\ \A u \in B : Op[u] \in {"add", "set"} \/ (Op[u] = "sub" /\ cell = "AtomicU64")
  BY ObserverAssumption, FS_Subset DEF Raised, Applied
<1>3. /\ Added(k) \in Vectors
      /\ \A i \in 1 .. Width : Added(k)[i] = SumOf(g(i), A)
  BY AddedType
<1>4. /\ Added(k)' \in Vectors
      /\ \A i \in 1 .. Width : Added(k)'[i] = SumOf(f(i), B)
  <2>1. \A i \in 1 .. Width : [u \in B |-> Gain(u)'[i]] = f(i)
    BY <1>1
  <2>2. Added(k)' = [i \in 1 .. Width |-> SumFunction(f(i))]
    BY <1>1, <2>1 DEF Added
  <2>3. ASSUME NEW i \in 1 .. Width
        PROVE  SumFunction(f(i)) = SumOf(f(i), B) /\ SumOf(f(i), B) \in Int
    <3>1. ASSUME NEW u \in B
          PROVE  f(i)[u] \in Int
      <4>1. Gain(u) \in [1 .. Width -> Nat]
        BY <1>1, <1>2, GainType
      <4> QED
        BY <4>1
    <3>2. DOMAIN f(i) = B
      OBVIOUS
    <3> HIDE DEF f, B
    <3> QED
      BY <1>2, <3>1, <3>2, SumFunctionIs, SumTake
  <2> HIDE DEF f, B
  <2> QED
    BY <2>2, <2>3 DEF Vectors
<1>5. ASSUME NEW i \in 1 .. Width
      PROVE  /\ \A u \in B : f(i)[u] \in Nat
             /\ SumOf(g(i), A) = SumOf(f(i), A) /\ SumOf(f(i), A) \in Nat
             /\ SumOf(f(i), A) <= SumOf(f(i), B)
  <2>1. ASSUME NEW u \in B
        PROVE  f(i)[u] \in Nat
    <3>1. Gain(u) \in [1 .. Width -> Nat]
      BY <1>1, <1>2, GainType
    <3> QED
      BY <3>1
  <2>2. \A u \in A : g(i)[u] = f(i)[u]
    BY <1>2
  <2> HIDE DEF f, g, A, B
  <2>3. SumOf(g(i), A) = SumOf(f(i), A)
    BY <1>2, <2>2, SumsAgree
  <2>4. SumOf(f(i), A) \in Nat /\ SumOf(f(i), A) <= SumOf(f(i), B)
    BY <1>2, <2>1, SumOfPart
  <2> QED
    BY <2>1, <2>3, <2>4
<1>6. Leq(Added(k), Added(k)')
  <2> HIDE DEF f, g, A, B
  <2> QED
    BY <1>3, <1>4, <1>5 DEF Leq
<1>7. ASSUME \A u \in Updates : upc'[u] = "returned" => upc[u] = "returned", sunk' = sunk
      PROVE  Added(k)' = Added(k)
  <2>1. A = B
    BY <1>2, <1>7 DEF Raised, Applied
  <2>2. \A i \in 1 .. Width : Added(k)'[i] = Added(k)[i]
    <3> HIDE DEF f, g, A, B
    <3> QED
      BY <1>3, <1>4, <1>5, <2>1
  <2>3. Added(k) \in [1 .. Width -> Int] /\ Added(k)' \in [1 .. Width -> Int]
    BY <1>3, <1>4 DEF Vectors
  <2> HIDE DEF f, g, A, B
  <2>4. /\ Added(k) = [i \in 1 .. Width |-> Added(k)[i]]
        /\ Added(k)' = [i \in 1 .. Width |-> Added(k)'[i]]
    BY <2>3
  <2>5. [i \in 1 .. Width |-> Added(k)'[i]] = [i \in 1 .. Width |-> Added(k)[i]]
    BY <2>2, Zenon
  <2> QED
    BY <2>4, <2>5, Zenon
<1>8. ASSUME NEW u \in Updates, upc[u] # "returned", u \in B, sunk' \subseteq sunk \cup {u},
             \A w \in Updates : upc'[w] = "returned" => w = u \/ upc[w] = "returned",
             NEW i \in 1 .. Width
      PROVE  Added(k)'[i] = Added(k)[i] + Gain(u)[i]
  <2>1. B = A \cup {u} /\ u \notin A /\ u \in B
    BY <1>2, <1>8 DEF Raised, Applied
  <2>2. f(i)[u] = Gain(u)[i]
    BY <2>1
  <2>3. \A w \in B : f(i)[w] \in Nat
    BY <1>5
  <2> HIDE DEF f, g, A, B
  <2>4. \A w \in A \cup {u} : f(i)[w] \in Int
    BY <2>1, <2>3
  <2>5. SumOf(f(i), A \cup {u}) = SumOf(f(i), A) + f(i)[u]
    <3>1. IsFiniteSet(A) /\ u \notin A
      BY <1>2, <2>1
    <3> QED
      BY <2>4, <3>1, SumAdd
  <2> QED
    BY <1>3, <1>4, <1>5, <2>1, <2>2, <2>5
<1> QED
  BY <1>4, <1>6, <1>7, <1>8

LEMMA AddedNat ==
    ASSUME world \in Worlds, sunk \subseteq {u \in Updates : cell = "AtomicU64"}, NEW k \in Keys
    PROVE  \A i \in 1 .. Width : Added(k)[i] \in Nat
<1> DEFINE A == Raised(k)
           g(i) == [u \in A |-> Gain(u)[i]]
<1> SUFFICES ASSUME NEW i \in 1 .. Width PROVE Added(k)[i] \in Nat
  OBVIOUS
<1>1. IsFiniteSet(A) /\ Added(k)[i] = SumOf(g(i), A)
  BY AddedType
<1>2. ASSUME NEW u \in A PROVE g(i)[u] \in Nat
  <2>1. Gain(u) \in [1 .. Width -> Nat]
    BY TheCell, Sizes, GainType DEF Raised, Applied
  <2> QED
    BY <2>1
<1> HIDE DEF A, g
<1> QED
  BY <1>1, <1>2, SumOfPart

\* What has returned stays so, and the counts of additions only grow.
LEMMA AddedStep ==
    ASSUME Types, [Next]_vars
    PROVE  /\ world' = world /\ cell' = cell /\ kind' = kind /\ Width' = Width
           /\ (\A u \in Updates : upc[u] = "returned" => upc'[u] = "returned") /\ sunk \subseteq sunk'
           /\ \A k \in Keys : /\ Added(k) \in Vectors /\ Added(k)' \in Vectors
                              /\ Leq(Added(k), Added(k)')
<1>1. world' = world
  BY DEF Next, vars, source, GetOrCreate, LookupDup, insert_dup, Clear, Set, FetchAdd, LoadBits, CompareExchange,
         CompareExchangeFails, Store, BeginVisit, BeginTake, VisitBucket, ReadBucket,
         EndObserve, Export, Reset
<1>2. \A u \in Updates : upc[u] = "returned" => upc'[u] = "returned"
  <2> SUFFICES ASSUME NEW u \in Updates, upc[u] = "returned" PROVE upc'[u] = "returned"
    OBVIOUS
  <2>1. CASE UNCHANGED vars
    BY <2>1 DEF vars, updates
  <2>2. ASSUME NEW w \in Updates,
               GetOrCreate(w) \/ LookupDup(w) \/ insert_dup(w) \/ Clear(w) \/ Set(w)
               \/ FetchAdd(w) \/ LoadBits(w) \/ CompareExchange(w) \/ CompareExchangeFails(w)
        PROVE  upc'[u] = "returned"
    <3>1. \/ upc' = upc
          \/ upc[w] # "returned" /\ \E s : upc' = [upc EXCEPT ![w] = s]
      BY <2>2 DEF GetOrCreate, LookupDup, insert_dup, Clear, Set, FetchAdd, LoadBits, CompareExchange, CompareExchangeFails, Store
    <3>2. CASE upc' = upc
      BY <3>2
    <3>3. CASE upc[w] # "returned" /\ \E s : upc' = [upc EXCEPT ![w] = s]
      <4>1. u # w
        BY <3>3
      <4> QED
        BY <3>3, <4>1 DEF Types, Typed
    <3> QED
      BY <3>1, <3>2, <3>3
  <2>3. ASSUME NEW o \in Observers,
               BeginVisit(o) \/ BeginTake(o) \/ VisitBucket(o) \/ ReadBucket(o)
               \/ EndObserve(o) \/ Export(o) \/ Reset(o)
        PROVE  upc'[u] = "returned"
    BY <2>3 DEF BeginVisit, BeginTake, VisitBucket, ReadBucket, EndObserve, Export, Reset, updates
  <2> QED
    BY <2>1, <2>2, <2>3 DEF Next
<1>3. /\ world \in Worlds /\ sunk \subseteq sunk'
      /\ sunk \subseteq {u \in Updates : cell = "AtomicU64"}
      /\ sunk' \subseteq {u \in Updates : cell = "AtomicU64"}
  <2>1. sunk \subseteq sunk'
    BY DEF Next, vars, history, GetOrCreate, LookupDup, insert_dup, Clear, Set, FetchAdd, LoadBits,
           CompareExchange, CompareExchangeFails, Store, BeginVisit, BeginTake, VisitBucket,
           ReadBucket, EndObserve, Export, Reset
  <2>2. cell' = cell
    BY <1>1 DEF cell
  <2> QED
    BY <2>1, <2>2, TypesStep DEF Types, Typed
<1>4. \A k \in Keys : Added(k) \in Vectors /\ Added(k)' \in Vectors /\ Leq(Added(k), Added(k)')
  BY <1>1, <1>2, <1>3, AddedType, AddedGrows
<1> QED
  BY <1>1, <1>2, <1>3, <1>4, SameWorld

LEMMA LeqTransitive ==
    ASSUME NEW v \in Vectors, NEW w \in Vectors, NEW x \in Vectors, Leq(v, w), Leq(w, x)
    PROVE  Leq(v, x)
BY DEF Leq, Vectors


\* What was bounded still is.
LEMMA StillBounded ==
    ASSUME Types, [Next]_vars, NEW k \in Keys, NEW v \in Vectors, Leq(v, Added(k))
    PROVE  \A i \in 1 .. Width : v[i] <= Added(k)'[i]
<1>1. Leq(v, Added(k)')
  BY AddedStep, LeqTransitive
<1> QED
  BY <1>1 DEF Leq

LEMMA AddedUp ==
    ASSUME Types, [Next]_vars, NEW k \in Keys, NEW i \in 1 .. Width
    PROVE  Added(k)[i] \in Nat /\ Added(k)'[i] \in Int /\ Added(k)[i] <= Added(k)'[i]
<1>1. Added(k)[i] \in Nat
  BY AddedNat DEF Types, Typed
<1>2. Added(k)' \in [1 .. Width -> Int]
  <2>1. Added(k)' \in Vectors
    BY AddedStep
  <2> QED
    BY <2>1 DEF Vectors
<1>3. Added(k)[i] <= Added(k)'[i]
  BY AddedStep DEF Leq
<1> QED
  BY <1>1, <1>2, <1>3

LEMMA ValuesCounted ==
    ASSUME Types
    PROVE  /\ \A b \in Updates : Counts(cell, value[b]) \in Vectors
           /\ \A v : Sound(kind, cell, v) => Counts(cell, v) \in Vectors
           /\ \A o \in Observers, k \in Keys : \A n \in DOMAIN series[o][k] :
                 Counts(cell, series[o][k][n].value) \in Vectors
           /\ \A o \in Observers : \A j \in DOMAIN exported[o] :
                 \A e \in DOMAIN exported[o][j].data_points :
                    e[1] \in Keys /\ PointCounts(o, exported[o][j].data_points[e]) \in Vectors
<1>1. cell \in Cells /\ Vectors = [1 .. Size(cell) -> Int]
  BY TheCell, Sizes DEF Types, Typed
<1>2. \A v : Sound(kind, cell, v) => Counts(cell, v) \in Vectors
  BY <1>1, CountsType
<1>3. \A b \in Updates : Counts(cell, value[b]) \in Vectors
  BY <1>2 DEF Types, ValuesSound
<1>4. \A o \in Observers, k \in Keys : \A n \in DOMAIN series[o][k] :
          Counts(cell, series[o][k][n].value) \in Vectors
  BY <1>2 DEF Types, ValuesSound, IsSeries
<1>5. \A o \in Observers : \A j \in DOMAIN exported[o] :
          \A e \in DOMAIN exported[o][j].data_points :
             e[1] \in Keys /\ PointCounts(o, exported[o][j].data_points[e]) \in Vectors
  BY DEF Types, Metrics, IsMetric, Place
<1> QED
  BY <1>2, <1>3, <1>4, <1>5

LEMMA ValuesStay ==
    ASSUME Types, [Next]_vars, ValuesBounded, value' = value
    PROVE  ValuesBounded'
<1>1. ASSUME NEW b \in Updates, NEW i \in 1 .. Width
      PROVE  Counts(cell, value[b])[i] <= Added(Key[b])'[i]
  <2>1. Key[b] \in Keys
    BY ObserverAssumption
  <2> QED
    BY <2>1, ValuesCounted, StillBounded DEF ValuesBounded
<1>2. Width' = Width /\ cell' = cell /\ kind' = kind
  BY AddedStep
<1> QED
  BY <1>1, <1>2 DEF ValuesBounded, Leq

LEMMA ClearValues ==
    ASSUME Types, [Next]_vars, ValuesBounded, NEW u \in Updates, Clear(u)
    PROVE  ValuesBounded'
<1>1. Width' = Width /\ cell' = cell /\ kind' = kind /\ world \in Worlds /\ world' = world /\ cell \in Cells
      /\ Width = Size(cell)
  BY AddedStep, TheCell, Sizes DEF Types, Typed
<1>2. ASSUME NEW b \in Updates, NEW i \in 1 .. Width
      PROVE  Counts(cell, value'[b])[i] <= Added(Key[b])'[i]
  <2>1. Key[b] \in Keys
    BY ObserverAssumption
  <2>2. CASE value'[b] = value[b]
    <3>1. Counts(cell, value[b])[i] <= Added(Key[b])'[i]
      BY <2>1, ValuesCounted, StillBounded DEF ValuesBounded
    <3> QED
      BY <2>2, <3>1
  <2>3. CASE value'[b] = Initial(cell)
    <3>1. Counts(cell, Initial(cell))[i] = 0
      BY <1>1, InitialCounts
    <3>2. Added(Key[b])[i] \in Nat /\ Added(Key[b])'[i] \in Int
          /\ Added(Key[b])[i] <= Added(Key[b])'[i]
      BY <2>1, AddedUp
    <3> QED
      BY <2>3, <3>1, <3>2
  <2>4. value'[b] = value[b] \/ value'[b] = Initial(cell)
    BY DEF Clear, Types, Typed
  <2> QED
    BY <2>2, <2>3, <2>4
<1> QED
  BY <1>1, <1>2 DEF ValuesBounded, Leq

\* A store adds to the bucket no more than the call counts for.
LEMMA StoreValues ==
    ASSUME Types, Named, [Next]_vars, ValuesBounded, NEW u \in Updates,
           upc[u] \in {"update", "exchange"}, Op[u] # "reset",
           NEW v, Sound(kind, cell, v), Leq(Counts(cell, v), Added(Key[u])),
           Op[u] = "set" => v = Initial(cell), Store(u, v)
    PROVE  ValuesBounded'
<1> DEFINE r == ref[u]
           k == Key[u]
           w == Plus(cell, v, One(u))
<1>1. /\ UNCHANGED <<cell, kind, Width, world>> /\ world \in Worlds /\ cell \in Cells /\ kind \in Kinds
      /\ Width = Size(cell) /\ Vectors = [1 .. Width -> Int]
  BY AddedStep, TheCell, Sizes DEF Types, Typed
<1>2. /\ r \in Updates /\ Key[r] = k /\ k \in Keys /\ u \in world.calls
      /\ value'[r] = w
      /\ \A b \in Updates : b # r => value'[b] = value[b]
      /\ upc' = [upc EXCEPT ![u] = "returned"]
  <2>1. upc[u] # "called"
    OBVIOUS
  <2>2. r \in Updates /\ Key[r] = k /\ u \in world.calls
    BY <2>1 DEF Named, Types, Typed, Called
  <2>3. k \in Keys
    BY ObserverAssumption
  <2>4. value \in [Updates -> Int \cup Histograms]
    BY DEF Types, Typed
  <2>5. /\ value' = [value EXCEPT ![r] = w]
        /\ upc' = [upc EXCEPT ![u] = "returned"]
    BY DEF Store
  <2> QED
    BY <2>2, <2>3, <2>4, <2>5
<1>4. /\ Counts(cell, v) \in Vectors /\ Added(k) \in Vectors /\ Added(k)' \in Vectors
      /\ Leq(Counts(cell, v), Added(k)) /\ Leq(Added(k), Added(k)')
  BY <1>2, AddedStep, ValuesCounted
<1>5. Sound(kind, cell, w) /\ Counts(cell, w) \in Vectors
  <2>1. Sound(kind, cell, w)
    BY <1>1, <1>2, OneType, PlusSound
  <2> QED
    BY <2>1, ValuesCounted
<1>6. ASSUME u \in Raised(k)'
      PROVE  \A i \in 1 .. Width : Counts(cell, w)[i] <= Added(k)'[i]
  <2>1. Op[u] \in {"add", "set"} \/ (Op[u] = "sub" /\ cell = "AtomicU64" /\ v = 0)
    <3>1. CASE Op[u] \in {"add", "set"}
      BY <3>1
    <3>2. CASE Op[u] \notin {"add", "set"}
      <4>1. Op[u] = "sub" /\ u \in sunk' /\ u \notin sunk /\ One(u) = -1
        <5>1. u \in sunk' /\ Op[u] = "sub"
          BY <1>6, <3>2 DEF Raised, Applied
        <5>2. u \notin sunk
          BY DEF Types, Called
        <5>3. cell = "AtomicU64"
          BY <5>1, <5>2 DEF Store
        <5> QED
          BY <1>1, <1>2, <5>1, <5>2, <5>3, OneType
      <4>2. cell = "AtomicU64" /\ v + One(u) < 0
        BY <4>1 DEF Store
      <4> QED
        BY <4>1, <4>2 DEF Sound
    <3> QED
      BY <3>1, <3>2
  <2>2. Gain(u) \in [1 .. Width -> Nat]
    BY <1>1, <2>1, GainType
  <2>3. \A i \in 1 .. Width : Counts(cell, w)[i] <= Counts(cell, v)[i] + Gain(u)[i]
    <3>1. CASE v = Initial(cell)
      <4>1. \A i \in 1 .. Width : Counts(cell, v)[i] = 0 /\ Counts(cell, w)[i] = Gain(u)[i]
        BY <1>1, <3>1, InitialCounts DEF Gain
      <4> QED
        BY <2>2, <4>1
    <3>2. CASE v # Initial(cell)
      <4>1. Op[u] = "add"
        BY <2>1, <3>2 DEF Initial
      <4>2. One(u) \in Nat /\ (cell = "AtomicU64" => One(u) = 1)
        BY <1>1, <1>2, <4>1, OneType
      <4> QED
        BY <1>1, <4>2, PlusLeq DEF Gain
    <3> QED
      BY <3>1, <3>2
  <2>4. \A i \in 1 .. Width : Added(k)'[i] = Added(k)[i] + Gain(u)[i]
    <3>1. /\ \A x \in Updates : upc'[x] = IF x = u THEN "returned" ELSE upc[x]
          /\ upc[u] # "returned"
      BY <1>2 DEF Types, Typed
    <3>2. \A x \in Updates : upc[x] = "returned" => upc'[x] = "returned"
      BY <3>1
    <3>3. \A x \in Updates : upc'[x] = "returned" => x = u \/ upc[x] = "returned"
      BY <3>1
    <3>4. /\ sunk \subseteq sunk' /\ sunk' \subseteq sunk \cup {u}
          /\ sunk \subseteq {x \in Updates : cell = "AtomicU64"}
          /\ sunk' \subseteq {x \in Updates : cell = "AtomicU64"}
      BY DEF Store, Types, Typed
    <3> QED
      BY <1>1, <1>2, <1>6, <3>1, <3>2, <3>3, <3>4, AddedGrows
  <2> HIDE DEF w, k
  <2>5. ASSUME NEW i \in 1 .. Width
        PROVE  Counts(cell, w)[i] <= Added(k)'[i]
    <3>1. /\ Counts(cell, w)[i] \in Int /\ Counts(cell, v)[i] \in Int /\ Gain(u)[i] \in Int
          /\ Added(k)[i] \in Int
      BY <1>1, <1>4, <1>5, <2>2
    <3>2. Counts(cell, v)[i] <= Added(k)[i]
      BY <1>4 DEF Leq
    <3> QED
      BY <2>3, <2>4, <3>1, <3>2
  <2> QED
    BY <2>5
<1>7. ASSUME u \notin Raised(k)'
      PROVE  \A i \in 1 .. Width : Counts(cell, w)[i] <= Added(k)'[i]
  <2>1. Op[u] = "sub" /\ u \notin sunk'
    <3>1. upc'[u] = "returned"
      BY <1>2 DEF Types, Typed
    <3> QED
      BY <1>7, <3>1, ObserverAssumption DEF Raised, Applied
  <2>2. cell # "Bucket" /\ One(u) = -1 /\ (cell = "AtomicU64" => v - 1 >= 0)
    <3>1. cell # "Bucket" /\ One(u) = -1
      BY <1>1, <1>2, <2>1, TheCell, OneType
    <3> QED
      BY <2>1, <3>1 DEF Store, Sound
  <2>3. v \in Int /\ w = v - 1
    <3>1. CASE cell = "AtomicU64"
      <4>1. v \in 0 .. Modulus - 1 /\ v - 1 >= 0
        BY <2>2, <3>1 DEF Sound
      <4>2. (v + -1) % Modulus = v - 1
        BY <4>1, Constants
      <4> QED
        BY <2>2, <3>1, <4>1, <4>2 DEF Plus
    <3>2. CASE cell # "AtomicU64"
      BY <1>1, <2>2, <3>2 DEF Sound, IsValue, Plus, Cells
    <3> QED
      BY <3>1, <3>2
  <2>4. Width = 1 /\ Counts(cell, w)[1] = w /\ Counts(cell, v)[1] = v
    BY <1>1, <2>2 DEF Size, Counts
  <2>5. Counts(cell, v)[1] <= Added(k)[1] /\ Added(k)[1] \in Nat /\ Added(k)'[1] \in Int
        /\ Added(k)[1] <= Added(k)'[1]
    <3>1. 1 \in 1 .. Width
      BY <2>4
    <3> QED
      BY <1>2, <1>4, <3>1, AddedUp DEF Leq
  <2> HIDE DEF w, k
  <2> QED
    BY <2>3, <2>4, <2>5
<1>8. \A i \in 1 .. Width : Counts(cell, w)[i] <= Added(k)'[i]
  <2> HIDE DEF w, k
  <2> QED
    BY <1>6, <1>7
<1>9. ASSUME NEW b \in Updates, NEW i \in 1 .. Width
      PROVE  Counts(cell, value'[b])[i] <= Added(Key[b])'[i]
  <2>1. Key[b] \in Keys
    BY ObserverAssumption
  <2>2. CASE b # r
    <3>1. Counts(cell, value[b])[i] <= Added(Key[b])'[i]
      BY <2>1, ValuesCounted, StillBounded DEF ValuesBounded
    <3> QED
      BY <1>2, <2>2, <3>1
  <2>3. CASE b = r
    <3> HIDE DEF w
    <3> QED
      BY <1>2, <1>8, <2>3
  <2> QED
    BY <2>2, <2>3
<1> QED
  BY <1>1, <1>9 DEF ValuesBounded, Leq

\* What an update stores upon is no more than was added.
LEMMA StoredUpon ==
    ASSUME Types, Named, ValuesBounded, NEW u \in Updates,
           Set(u) \/ FetchAdd(u) \/ CompareExchange(u)
    PROVE  \E v : /\ upc[u] \in {"update", "exchange"} /\ Op[u] # "reset"
                  /\ Sound(kind, cell, v) /\ Leq(Counts(cell, v), Added(Key[u]))
                  /\ Op[u] = "set" => v = Initial(cell)
                  /\ Op[u] # "set" => v = value[ref[u]]
                  /\ Store(u, v)
<1>1. CASE Set(u)
  <2>1. cell \in Cells /\ Width = Size(cell) /\ Key[u] \in Keys
    BY TheCell, Sizes, ObserverAssumption DEF Types, Typed
  <2>2. Sound(kind, cell, Initial(cell))
    BY <2>1, InitialSound
  <2>3. Leq(Counts(cell, Initial(cell)), Added(Key[u]))
    BY <2>1, InitialCounts, AddedNat DEF Types, Typed, Leq
  <2> QED
    BY <1>1, <2>2, <2>3 DEF Set
<1>2. CASE FetchAdd(u) \/ CompareExchange(u)
  <2>1. upc[u] \in {"update", "exchange"} /\ Op[u] \in {"add", "sub"} /\ Store(u, value[ref[u]])
    BY <1>2 DEF FetchAdd, CompareExchange, Types, Called
  <2>2. ref[u] \in Updates /\ Key[ref[u]] = Key[u]
    BY <2>1 DEF Types, Called, Named
  <2>3. Sound(kind, cell, value[ref[u]]) /\ Leq(Counts(cell, value[ref[u]]), Added(Key[u]))
    BY <2>2 DEF Types, ValuesSound, ValuesBounded
  <2> QED
    BY <2>1, <2>3
<1> QED
  BY <1>1, <1>2

LEMMA ValuesStep ==
    ASSUME Types, Named, ValuesBounded, [Next]_vars
    PROVE  ValuesBounded'
<1>1. CASE UNCHANGED vars
  BY <1>1, ValuesStay DEF vars, source
<1>2. ASSUME NEW u \in Updates,
             GetOrCreate(u) \/ LookupDup(u) \/ insert_dup(u)
             \/ Clear(u) \/ Set(u) \/ FetchAdd(u) \/ LoadBits(u)
             \/ CompareExchange(u) \/ CompareExchangeFails(u)
      PROVE  ValuesBounded'
  <2>1. CASE GetOrCreate(u) \/ LookupDup(u) \/ insert_dup(u) \/ LoadBits(u) \/ CompareExchangeFails(u)
    BY <2>1, ValuesStay DEF GetOrCreate, LookupDup, insert_dup, LoadBits, CompareExchangeFails, source
  <2>2. CASE Clear(u)
    BY <2>2, ClearValues
  <2>3. CASE Set(u) \/ FetchAdd(u) \/ CompareExchange(u)
    BY <2>3, StoredUpon, StoreValues
  <2> QED
    BY <1>2, <2>1, <2>2, <2>3
<1>3. ASSUME NEW o \in Observers,
             BeginVisit(o) \/ BeginTake(o) \/ VisitBucket(o) \/ ReadBucket(o)
             \/ EndObserve(o) \/ Export(o) \/ Reset(o)
      PROVE  ValuesBounded'
  <2>1. value' = value
    BY <1>3 DEF BeginVisit, BeginTake, VisitBucket, ReadBucket, EndObserve, Export, Reset, source
  <2> QED
    BY <2>1, ValuesStay
<1> QED
  BY <1>1, <1>2, <1>3, Zenon DEF Next

LEMMA WatchingStep ==
    ASSUME Types, Watching, [Next]_vars
    PROVE  Watching'
<1>1. world' = world
  BY AddedStep
<1>2. \/ opc' = opc
      \/ \E o \in Observers : opc' = [opc EXCEPT ![o] = "observing"] /\ o \in world.observers
      \/ \E o \in Observers : opc' = [opc EXCEPT ![o] = "idle"]
  BY DEF Next, vars, progress, GetOrCreate, LookupDup, insert_dup, Clear, Set, FetchAdd, LoadBits, CompareExchange,
         CompareExchangeFails, Store, BeginVisit, BeginTake, Begin, VisitBucket, ReadBucket,
         EndObserve, Export, Reset
<1> QED
  BY <1>1, <1>2 DEF Watching, Types, Typed

\* A visitor records no more than the bucket counts.
LEMMA RecordedLeq ==
    ASSUME Types, Clocks, Named, Watching, ValuesBounded, NEW o \in Observers, NEW e \in todo[o]
    PROVE  /\ Leq(Counts(cell, Recorded(o, e)), Added(e[1])) /\ Leq(Counts(cell, value[e[2]]), Added(e[1]))
           /\ Counts(cell, Recorded(o, e)) \in Vectors /\ Counts(cell, value[e[2]]) \in Vectors
           /\ Mode[o] = "Delta" => kind # "Gauge"
<1> DEFINE current == value[e[2]]
           prev == last_values[o][e[1]]
           grown == Mode[o] = "Delta" /\ prev # None /\ Less(cell, prev, current)
<1>1. /\ e[1] \in Keys /\ e[2] \in Updates /\ Key[e[2]] = e[1]
      /\ Sound(kind, cell, current) /\ Sound(kind, cell, Recorded(o, e))
  BY RecordedSound DEF Named
<1>2. world \in Worlds /\ cell \in Cells /\ Width = Size(cell) /\ Added(e[1]) \in Vectors
  BY <1>1, TheCell, Sizes, AddedType DEF Types, Typed
<1>3. Counts(cell, current) \in Vectors /\ Counts(cell, Recorded(o, e)) \in Vectors
  BY <1>1, ValuesCounted
<1>4. Leq(Counts(cell, current), Added(e[1]))
  BY <1>1 DEF ValuesBounded
<1>5. Mode[o] = "Delta" => kind # "Gauge"
  <2>1. opc[o] # "idle"
    BY DEF Clocks, Clock, PollTimes
  <2>2. o \in world.observers
    BY <2>1 DEF Watching, Types, Typed
  <2> QED
    BY <1>2, <2>2, TheCell DEF kind
<1>6. Recorded(o, e) = IF grown THEN Minus(cell, current, prev) ELSE current
  BY Zenon DEF Recorded
<1>7. CASE grown
  <2>1. Sound(kind, cell, prev)
    BY <1>1, <1>7 DEF Types, ValuesSound
  <2> HIDE DEF current, prev
  <2>2. \A i \in 1 .. Size(cell) : Counts(cell, Minus(cell, current, prev))[i] <= Counts(cell, current)[i]
    BY <1>1, <1>2, <1>5, <1>7, <2>1, MinusLeq
  <2>3. Leq(Counts(cell, Recorded(o, e)), Counts(cell, current))
    BY <1>2, <1>6, <1>7, <2>2 DEF Leq
  <2>4. Leq(Counts(cell, Recorded(o, e)), Added(e[1]))
    BY <1>2, <1>3, <1>4, <2>3, LeqTransitive
  <2> QED
    BY <1>3, <1>4, <1>5, <2>4 DEF current
<1>8. CASE ~grown
  BY <1>3, <1>4, <1>5, <1>6, <1>8
<1> QED
  BY <1>7, <1>8

LEMMA SeriesStay ==
    ASSUME Types, [Next]_vars, SeriesBounded,
           \A o \in Observers, k \in Keys : \A n \in DOMAIN series'[o][k] :
              n \in DOMAIN series[o][k] /\ series'[o][k][n] = series[o][k][n]
    PROVE  SeriesBounded'
<1>1. ASSUME NEW o \in Observers, NEW k \in Keys, NEW n \in DOMAIN series'[o][k], NEW i \in 1 .. Width
      PROVE  Counts(cell, series'[o][k][n].value)[i] <= Added(k)'[i]
  <2>1. n \in DOMAIN series[o][k] /\ series'[o][k][n] = series[o][k][n]
    OBVIOUS
  <2>2. Counts(cell, series[o][k][n].value)[i] <= Added(k)'[i]
    BY <2>1, ValuesCounted, StillBounded DEF SeriesBounded
  <2> QED
    BY <2>1, <2>2
<1>2. Width' = Width /\ cell' = cell /\ kind' = kind
  BY AddedStep
<1> QED
  BY <1>1, <1>2 DEF SeriesBounded, Leq

LEMMA SeriesRecord ==
    ASSUME Types, [Next]_vars, SeriesBounded, NEW o \in Observers, NEW k \in Keys, NEW v,
           Sound(kind, cell, v), Leq(Counts(cell, v), Added(k)), Record(o, k, v)
    PROVE  SeriesBounded'
<1> DEFINE s == [seq_id |-> seq[o], ts |-> ts[o], value |-> v]
<1>1. Grows(o, k, v) /\ series[o][k] \in Seq(Snapshot)
  <2>1. Typed /\ \A p \in Observers : IsSeries(series[p])
    BY DEF Types, ValuesSound
  <2>2. series[o][k] \in Seq(Snapshot)
    BY <2>1 DEF Typed
  <2> QED
    BY <2>1, <2>2, RecordTypes
<1>2. /\ series'[o][k] = Append(series[o][k], s)
      /\ \A p \in Observers, l \in Keys : p # o \/ l # k => series'[p][l] = series[p][l]
  BY <1>1 DEF Grows
<1>3. s.value = v
  OBVIOUS
<1> HIDE DEF s
<1>4. \A n \in DOMAIN series'[o][k] : series'[o][k][n] = s
                \/ (n \in DOMAIN series[o][k] /\ series'[o][k][n] = series[o][k][n])
  BY <1>1, <1>2
<1>5. ASSUME NEW p \in Observers, NEW l \in Keys, NEW n \in DOMAIN series'[p][l], NEW i \in 1 .. Width
      PROVE  Counts(cell, series'[p][l][n].value)[i] <= Added(l)'[i]
  <2>1. CASE n \in DOMAIN series[p][l] /\ series'[p][l][n] = series[p][l][n]
    <3>1. Counts(cell, series[p][l][n].value)[i] <= Added(l)'[i]
      BY <2>1, ValuesCounted, StillBounded DEF SeriesBounded
    <3> QED
      BY <2>1, <3>1
  <2>2. CASE p = o /\ l = k /\ series'[p][l][n] = s
    <3>1. Counts(cell, v)[i] <= Added(k)'[i]
      BY ValuesCounted, StillBounded
    <3> QED
      BY <1>3, <2>2, <3>1
  <2> QED
    BY <1>2, <1>4, <2>1, <2>2
<1>6. Width' = Width /\ cell' = cell /\ kind' = kind
  BY AddedStep
<1> QED
  BY <1>5, <1>6 DEF SeriesBounded, Leq

LEMMA SeriesStep ==
    ASSUME Types, Clocks, Named, Watching, ValuesBounded, SeriesBounded, [Next]_vars
    PROVE  SeriesBounded'
<1>1. CASE series' = series
  BY <1>1, SeriesStay
<1>2. ASSUME NEW o \in Observers, series' = [series EXCEPT ![o] = NoSeries]
      PROVE  SeriesBounded'
  <2>1. ASSUME NEW p \in Observers, NEW k \in Keys, NEW n \in DOMAIN series'[p][k]
        PROVE  n \in DOMAIN series[p][k] /\ series'[p][k][n] = series[p][k][n]
    <3>1. CASE p = o
      BY <1>2, <3>1, NoSeriesIs DEF Types, Typed
    <3>2. CASE p # o
      BY <1>2, <3>2 DEF Types, Typed
    <3> QED
      BY <3>1, <3>2
  <2> QED
    BY <2>1, SeriesStay
<1>3. ASSUME NEW o \in Observers, VisitBucket(o) \/ ReadBucket(o)
      PROVE  SeriesBounded'
  <2>1. PICK e \in todo[o] : \/ series' = series \/ Record(o, e[1], Recorded(o, e))
                             \/ Record(o, e[1], value[e[2]])
    BY <1>3, Readers DEF Visits, Reads
  <2>2. e[1] \in Keys /\ Sound(kind, cell, Recorded(o, e)) /\ Sound(kind, cell, value[e[2]])
        /\ Leq(Counts(cell, Recorded(o, e)), Added(e[1])) /\ Leq(Counts(cell, value[e[2]]), Added(e[1]))
    BY RecordedSound, RecordedLeq
  <2> QED
    BY <1>1, <2>1, <2>2, SeriesRecord
<1>4. \/ series' = series
      \/ \E o \in Observers : \/ series' = [series EXCEPT ![o] = NoSeries]
                              \/ VisitBucket(o) \/ ReadBucket(o)
  BY DEF Next, vars, observer, GetOrCreate, LookupDup, insert_dup, Clear, Set, FetchAdd, LoadBits, CompareExchange,
         CompareExchangeFails, Store, BeginVisit, BeginTake, Begin, EndObserve, Export, Reset
<1> QED
  BY <1>1, <1>2, <1>3, <1>4

LEMMA PointsStep ==
    ASSUME Types, SeriesBounded, PointsBounded, [Next]_vars
    PROVE  PointsBounded'
<1>0. Width' = Width /\ cell' = cell /\ kind' = kind /\ (\A o, p : PointCounts(o, p)' = PointCounts(o, p))
  BY AddedStep, SameWorld
<1>1. ASSUME NEW o \in Observers, NEW j \in DOMAIN exported[o],
             NEW e \in DOMAIN exported[o][j].data_points, NEW i \in 1 .. Width
      PROVE  PointCounts(o, exported[o][j].data_points[e])[i] <= Added(e[1])'[i]
  BY ValuesCounted, StillBounded DEF PointsBounded
<1>2. ASSUME \A o \in Observers : \A j \in DOMAIN exported'[o] :
                \/ j \in DOMAIN exported[o] /\ exported'[o][j] = exported[o][j]
                \/ /\ into_wire(o).is = "Some" /\ exported'[o][j] = into_wire(o).metric
      PROVE  PointsBounded'
  <2>1. ASSUME NEW o \in Observers, NEW j \in DOMAIN exported'[o],
               NEW e \in DOMAIN exported'[o][j].data_points, NEW i \in 1 .. Width
        PROVE  PointCounts(o, exported'[o][j].data_points[e])[i] <= Added(e[1])'[i]
    <3>1. CASE j \in DOMAIN exported[o] /\ exported'[o][j] = exported[o][j]
      BY <1>1, <3>1
    <3>2. CASE into_wire(o).is = "Some" /\ exported'[o][j] = into_wire(o).metric
      <4> DEFINE m == into_wire(o).metric
                 s == series[o][e[1]][e[2]]
      <4>1. cell \in Cells /\ kind \in Kinds /\ IsSeries(series[o])
        BY TheCell DEF Types, Typed, ValuesSound
      <4>2. /\ DOMAIN m.data_points = PlacesIn(series[o])
            /\ \A d \in PlacesIn(series[o]) : PointOf(o, series[o], start_time[o], d, m.data_points[d])
        BY <3>2, <4>1, Converted
      <4>3. e \in PlacesIn(series[o])
        BY <3>2, <4>2
      <4>4. PointCounts(o, m.data_points[e]) = Counts(cell, s.value)
        BY <4>2, <4>3 DEF PointOf
      <4>5. e[1] \in Keys /\ e[2] \in DOMAIN series[o][e[1]]
        BY <4>1, <4>3 DEF PlacesIn, IsSeries
      <4>6. Counts(cell, s.value)[i] <= Added(e[1])'[i]
        BY <4>5, ValuesCounted, StillBounded DEF SeriesBounded
      <4> QED
        BY <3>2, <4>4, <4>6
    <3> QED
      BY <1>2, <3>1, <3>2
  <2> QED
    BY <1>0, <2>1 DEF PointsBounded, Leq
<1>3. ASSUME NEW o \in Observers, Export(o) \/ Reset(o)
      PROVE  PointsBounded'
  <2>1. /\ \A p \in Observers : p # o => exported'[p] = exported[p]
        /\ \/ exported'[o] = exported[o] \/ exported'[o] = <<>>
           \/ into_wire(o).is = "Some" /\ exported'[o] = Append(exported[o], into_wire(o).metric)
    <3>1. series[o] # NoSeries /\ Export(o) => into_wire(o).is \in {"Err", "Some"}
      BY TheCell, Converted DEF Types, Typed, ValuesSound
    <3>2. \/ exported' = exported
          \/ exported' = [exported EXCEPT ![o] = <<>>]
          \/ into_wire(o).is = "Some"
             /\ exported' = [exported EXCEPT ![o] = Append(@, into_wire(o).metric)]
      BY <1>3, <3>1 DEF Export, Reset, Deliver
    <3> QED
      BY <3>2 DEF Types, Typed
  <2>2. PICK S : exported[o] \in Seq(S)
    BY DEF Types, Typed
  <2>3. \A p \in Observers : \A j \in DOMAIN exported'[p] :
            \/ j \in DOMAIN exported[p] /\ exported'[p][j] = exported[p][j]
            \/ into_wire(p).is = "Some" /\ exported'[p][j] = into_wire(p).metric
    <3> SUFFICES ASSUME NEW p \in Observers, NEW j \in DOMAIN exported'[p]
                 PROVE  \/ j \in DOMAIN exported[p] /\ exported'[p][j] = exported[p][j]
                        \/ into_wire(p).is = "Some" /\ exported'[p][j] = into_wire(p).metric
      OBVIOUS
    <3> DEFINE m == into_wire(o).metric
    <3>1. \A x : exported'[o] = Append(exported[o], x) => \A n \in DOMAIN exported'[o] :
              exported'[o][n] = x \/ (n \in DOMAIN exported[o] /\ exported'[o][n] = exported[o][n])
      BY <2>2
    <3> QED
      BY <2>1, <3>1
  <2> QED
    BY <1>2, <2>3
<1>4. CASE exported' = exported
  BY <1>2, <1>4
<1>5. exported' = exported \/ \E o \in Observers : Export(o) \/ Reset(o)
  BY DEF Next, vars, outcome, GetOrCreate, LookupDup, insert_dup, Clear, Set, FetchAdd, LoadBits, CompareExchange,
         CompareExchangeFails, Store, BeginVisit, BeginTake, VisitBucket, ReadBucket, EndObserve
<1> QED
  BY <1>3, <1>4, <1>5

LEMMA BoundedInitial ==
    ASSUME Init
    PROVE  Bounded
<1>1. world \in Worlds /\ cell \in Cells /\ Width = Size(cell)
  BY TheCell, Sizes DEF Init
<1>2. ASSUME NEW b \in Updates, NEW i \in 1 .. Width
      PROVE  Counts(cell, value[b])[i] <= Added(Key[b])[i]
  <2>1. Added(Key[b])[i] \in Nat
    BY <1>1, ObserverAssumption, AddedNat DEF Init
  <2>2. Counts(cell, Initial(cell))[i] = 0
    BY <1>1, InitialCounts
  <2>3. value[b] = Initial(cell)
    BY DEF Init
  <2> QED
    BY <2>1, <2>2, <2>3
<1>3. ValuesBounded
  BY <1>2 DEF ValuesBounded, Leq
<1>4. SeriesBounded
  BY NoSeriesIs DEF Init, SeriesBounded
<1>5. PointsBounded
  BY DEF Init, PointsBounded
<1> QED
  BY <1>3, <1>4, <1>5 DEF Bounded

LEMMA BoundedAlways == Safety => [](Types /\ Clocks /\ Named /\ Watching /\ Bounded)
<1>1. Init => Types /\ Clocks /\ Named /\ Watching /\ Bounded
  <2>1. Init => Watching
    BY DEF Init, Watching
  <2> QED
    BY <2>1, TypesInitial, ClocksInitial, NamedInitial, BoundedInitial
<1>2. (Types /\ Clocks /\ Named /\ Watching /\ Bounded) /\ [Next]_vars
        => (Types /\ Clocks /\ Named /\ Watching /\ Bounded)'
  BY TypesStep, ClocksStep, NamedStep, WatchingStep, ValuesStep, SeriesStep, PointsStep DEF Bounded
<1> QED
  BY <1>1, <1>2, PTL DEF Safety

\* What the protocol has no form for: a time it does not have, of a poll or of
\* the start, or a number of a u64.
Refused(o) ==
    /\ Sink[o] = "otel"
    /\ \/ start_time[o] \notin 0 .. MaxNanos
       \/ ts[o] > MaxNanos
       \/ cell = "AtomicU64" /\ \E k \in Keys : Added(k)[1] > MaxI64

\* A metric that is dropped has a snapshot the protocol refuses.
LEMMA DropRefused ==
    ASSUME Types, Clocks, Bounded, NEW o \in Observers, into_wire(o).is = "Err"
    PROVE  Refused(o)
<1>1. cell \in Cells /\ kind \in Kinds /\ IsSeries(series[o]) /\ start_time[o] \in Int /\ ts[o] \in Int /\ MaxNanos \in Nat
  BY TheCell, WireAssumption DEF Types, Typed, ValuesSound
<1>2. Sink[o] = "otel"
  BY <1>1, Converted
<1>3. PICK e \in PlacesIn(series[o]) :
          Unrepresentable(start_time[o], series[o][e[1]][e[2]], Align[o])
  BY <1>1, Converted
<1> DEFINE k == e[1]
           s == series[o][k][e[2]]
<1>4. k \in Keys /\ e[2] \in DOMAIN series[o][k]
  BY DEF PlacesIn
<1>5. Timed(o, s)
  BY <1>4 DEF Clocks, Clock, SeriesTimes
<1>6. Leq(Counts(cell, s.value), Added(k)) /\ Sound(kind, cell, s.value) /\ Added(k)[1] \in Nat
  <2>1. 1 \in 1 .. Width /\ world \in Worlds
    BY <1>1, Sizes DEF Types, Typed
  <2> QED
    BY <1>1, <1>4, <2>1, AddedNat DEF Types, Typed, Bounded, SeriesBounded, IsSeries
<1>7. Unrepresentable(start_time[o], s, Align[o])
  BY <1>3
<1> HIDE DEF s, k
<1>8. CASE start_time[o] \notin 0 .. MaxNanos
  BY <1>2, <1>8 DEF Refused
<1>9. CASE start_time[o] \in 0 .. MaxNanos /\ TimeOf(o, s) \notin 0 .. MaxNanos
  <2>1. /\ TimeOf(o, s) \in Int /\ start_time[o] <= TimeOf(o, s) /\ TimeOf(o, s) <= s.ts
        /\ s.ts \in Int /\ s.ts <= ts[o]
    BY <1>1, <1>5, AlignedTimes DEF Timed
  <2>2. ts[o] > MaxNanos
    BY <1>1, <1>9, <2>1
  <2> QED
    BY <1>2, <2>2 DEF Refused
<1>10. CASE cell = "AtomicU64" /\ s.value > MaxI64
  <2>1. Counts(cell, s.value)[1] = s.value /\ s.value \in Int /\ 1 \in 1 .. Width
    BY <1>1, <1>6, <1>10, Sizes DEF Counts, Sound, IsValue
  <2>2. s.value <= Added(k)[1]
    BY <1>6, <2>1 DEF Leq
  <2>3. Added(k)[1] > MaxI64
    BY <1>6, <1>10, <2>1, <2>2, WireAssumption
  <2> QED
    BY <1>2, <1>4, <1>10, <2>3 DEF Refused, k
<1> QED
  BY <1>7, <1>8, <1>9, <1>10 DEF Unrepresentable, TimeOf

\* What is refused once is so until the observer is reset.
LEMMA RefusedStays ==
    ASSUME Types, Clocks, [Next]_vars, NEW o \in Observers, o \in dropped, Refused(o), o \in dropped'
    PROVE  Refused(o)'
<1>1. start_time'[o] = start_time[o]
  <2>1. start_time' = start_time \/ \E p \in Observers : Reset(p)
    BY DEF Next, vars, observer, GetOrCreate, LookupDup, insert_dup, Clear, Set, FetchAdd, LoadBits, CompareExchange,
           CompareExchangeFails, Store, BeginVisit, BeginTake, VisitBucket, ReadBucket,
           EndObserve, Export
  <2>2. ASSUME NEW p \in Observers, Reset(p)
        PROVE  start_time'[o] = start_time[o]
    <3>1. p # o
      BY <2>2 DEF Reset
    <3> QED
      BY <2>2, <3>1 DEF Reset, Types, Typed
  <2> QED
    BY <2>1, <2>2
<1>2. ts[o] \in Int /\ ts'[o] \in Int /\ ts[o] <= ts'[o]
  <2>0. ts[o] \in Int /\ Polled(o)
    BY DEF Types, Typed, Clocks, Clock, PollTimes
  <2>1. ts' = ts \/ \E p \in Observers : Begin(p)
    BY DEF Next, vars, progress, GetOrCreate, LookupDup, insert_dup, Clear, Set, FetchAdd, LoadBits, CompareExchange,
           CompareExchangeFails, Store, BeginVisit, BeginTake, VisitBucket, ReadBucket,
           EndObserve, Export, Reset
  <2>2. ASSUME NEW p \in Observers, Begin(p)
        PROVE  ts'[o] \in Int /\ ts[o] <= ts'[o]
    <3>1. CASE p = o
      BY <2>0, <2>2, <3>1, BeginTimes DEF Clocks
    <3>2. CASE p # o
      BY <2>0, <2>2, <3>2 DEF Begin, Types, Typed
    <3> QED
      BY <3>1, <3>2
  <2> QED
    BY <2>0, <2>1, <2>2
<1>3. ASSUME NEW k \in Keys, cell = "AtomicU64", Added(k)[1] > MaxI64
      PROVE  Added(k)'[1] > MaxI64
  <2>1. 1 \in 1 .. Width
    BY TheCell, Sizes DEF Types, Typed
  <2> QED
    BY <1>3, <2>1, AddedUp, WireAssumption
<1>4. cell' = cell /\ kind' = kind
  BY AddedStep
<1> QED
  BY <1>1, <1>2, <1>3, <1>4, WireAssumption DEF Refused

LEMMA DropsStep ==
    ASSUME Types, Clocks, Bounded, \A o \in dropped : Refused(o), [Next]_vars
    PROVE  (\A o \in dropped : Refused(o))'
<1> SUFFICES ASSUME NEW o \in dropped' PROVE Refused(o)'
  OBVIOUS
<1>1. CASE o \in dropped
  BY <1>1, RefusedStays DEF Types, Typed
<1>2. CASE o \notin dropped
  <2>1. o \in Observers /\ Export(o) /\ into_wire(o).is = "Err"
    BY <1>2 DEF Next, vars, outcome, GetOrCreate, LookupDup, insert_dup, Clear, Set, FetchAdd, LoadBits, CompareExchange,
           CompareExchangeFails, Store, BeginVisit, BeginTake, VisitBucket, ReadBucket,
           EndObserve, Export, Reset, Deliver
  <2>2. UNCHANGED <<world, upc, start_time, ts, sunk>>
    BY <2>1 DEF Export, source, updates, progress, history
  <2>3. Refused(o)
    BY <2>1, DropRefused
  <2>4. cell' = cell /\ kind' = kind /\ \A k \in Keys : Added(k)' = Added(k)
    <3>1. /\ world \in Worlds /\ cell' = cell /\ kind' = kind
          /\ sunk \subseteq {u \in Updates : cell = "AtomicU64"}
      BY <2>2, SameWorld DEF Types, Typed
    <3>2. sunk' \subseteq {u \in Updates : cell = "AtomicU64"}
      BY <2>2, <3>1
    <3> QED
      BY <2>2, <3>1, <3>2, AddedGrows
  <2> QED
    BY <2>2, <2>3, <2>4 DEF Refused
<1> QED
  BY <1>1, <1>2

\* A metric is dropped only on its way to OpenTelemetry, and only if a time is
\* not one the protocol has or a u64 was raised above what an i64 holds, by adds,
\* by a set or by a sub that took it below zero: no overtaken reset, drain or
\* order of exports makes a number that large (DropsAreUnrepresentable of
\* Observer).
THEOREM OnlyUnrepresentableDropped == Safety => []DropsAreUnrepresentable
<1> DEFINE Inv == Types /\ Clocks /\ Named /\ Watching /\ Bounded
           Drops == \A o \in dropped : Refused(o)
<1>1. Init => Drops
  BY DEF Init
<1>2. Inv /\ Drops /\ [Next]_vars => Drops'
  BY DropsStep
<1>3. Inv /\ Drops => DropsAreUnrepresentable
  <2> SUFFICES ASSUME Inv, Drops, NEW o \in dropped
               PROVE  /\ Sink[o] = "otel"
                      /\ \/ {start_time[o], ts[o]} \ (0 .. MaxNanos) # {}
                         \/ cell = "AtomicU64" /\ \E k \in Keys : Added(k)[1] > MaxI64
    BY DEF DropsAreUnrepresentable
  <2>1. Refused(o)
    OBVIOUS
  <2>2. ts[o] > MaxNanos => ts[o] \notin 0 .. MaxNanos
    BY WireAssumption DEF Types, Typed
  <2> QED
    BY <2>1, <2>2 DEF Refused
<1> QED
  BY <1>1, <1>2, <1>3, BoundedAlways, PTL DEF Safety

-----------------------------------------------------------------------------
(* What leaves is what was recorded                                        *)

\* The text of attributes tells them apart, if anybody reads it: two numbers of
\* different types may look the same.
TextsTell ==
    \A o \in Observers : Sink[o] # "otel" =>
        \A k, l \in Keys : render_attrs(k) = render_attrs(l) => k = l

LEMMA AlikeSame ==
    ASSUME TextsTell, NEW o \in Observers, NEW k \in Keys, NEW l \in Keys
    PROVE  Alike(o, k, l) <=> l = k
<1>1. CASE Sink[o] = "otel"
  <2>1. Alike(o, k, l) <=> Label(o, l) = Label(o, k)
    BY <1>1 DEF Alike, Label
  <2> QED
    BY <2>1, LabelsDiffer
<1>2. CASE Sink[o] # "otel"
  BY <1>2 DEF Alike, TextsTell
<1> QED
  BY <1>1, <1>2

\* A metric counts of each key what its snapshots do.
LEMMA MetricIsPending ==
    ASSUME TextsTell, Types, NEW o \in Observers, into_wire(o).is = "Some", NEW k \in Keys
    PROVE  \A i \in 1 .. Width : MetricCounts(o, into_wire(o).metric, k)[i] = PendingCounts(o, k)[i]
<1> DEFINE m == into_wire(o).metric
           P == PlacesOf(o, m, k)
           D == DOMAIN series[o][k]
           h == [n \in D |-> <<k, n>>]
           f(i) == [n \in D |-> Counts(cell, series[o][k][n].value)[i]]
           g(i) == [e \in P |-> PointCounts(o, m.data_points[e])[i]]
<1>1. cell \in Cells /\ kind \in Kinds /\ IsSeries(series[o])
  BY TheCell DEF Types, Typed, ValuesSound
<1>2. /\ DOMAIN m.data_points = PlacesIn(series[o])
      /\ \A e \in PlacesIn(series[o]) : PointOf(o, series[o], start_time[o], e, m.data_points[e])
  BY <1>1, Converted
<1>3. /\ PendingCounts(o, k) = CountsIn(series[o], k)
      /\ IsFiniteSet(D)
      /\ \A n \in D : Counts(cell, series[o][k][n].value) \in Vectors
      /\ \A i \in 1 .. Width : PendingCounts(o, k)[i] = SumOf(f(i), D)
  BY <1>1, OutcomeType, PendingIs
<1>4. \A e : e \in P <=> e \in Keys \X Nat /\ e[1] = k /\ e[2] \in D
  <2>1. \A e \in DOMAIN m.data_points : e[1] \in Keys
    BY <1>2 DEF PlacesIn
  <2>2. \A e \in DOMAIN m.data_points : Alike(o, k, e[1]) <=> e[1] = k
    BY <2>1, AlikeSame
  <2> QED
    BY <1>2, <2>2 DEF PlacesOf, PlacesIn
<1>5. D \subseteq Nat
  <2>1. series[o][k] \in Seq(Snapshot)
    BY DEF Types, Typed
  <2> QED
    BY <2>1
<1>6. h \in Bijection(D, P)
  <2>1. \A n \in D : h[n] = <<k, n>> /\ h[n] \in P
    BY <1>4, <1>5
  <2>2. \A e \in P : e[2] \in D /\ h[e[2]] = e
    BY <1>4
  <2>3. h \in [D -> P] /\ \A m1, n \in D : h[m1] = h[n] => m1 = n
    BY <2>1
  <2> HIDE DEF h, D, P
  <2> QED
    BY <2>2, <2>3 DEF Bijection, Injection, Surjection, IsInjective
<1>7. ASSUME NEW i \in 1 .. Width
      PROVE  MetricCounts(o, m, k)[i] = PendingCounts(o, k)[i]
  <2>1. MetricCounts(o, m, k)[i] = SumOf(g(i), P)
    BY DEF MetricCounts
  <2>2. ASSUME NEW n \in D
        PROVE  f(i)[n] \in Int /\ f(i)[n] = g(i)[h[n]]
    <3>1. h[n] \in P /\ h[n] = <<k, n>> /\ h[n] \in PlacesIn(series[o])
      BY <1>2, <1>4, <1>5 DEF PlacesIn
    <3>2. PointCounts(o, m.data_points[h[n]]) = Counts(cell, series[o][k][n].value)
      BY <1>2, <3>1 DEF PointOf
    <3>3. g(i)[h[n]] = PointCounts(o, m.data_points[h[n]])[i]
      BY <3>1
    <3>4. Counts(cell, series[o][k][n].value)[i] \in Int
      BY <1>3 DEF Vectors
    <3> QED
      BY <3>2, <3>3, <3>4
  <2> HIDE DEF f, g, h, D, P, m
  <2>3. SumOf(f(i), D) = SumOf(g(i), P)
    BY <1>3, <1>6, <2>2, SumRenamed
  <2> QED
    BY <1>3, <2>1, <2>3
<1> QED
  BY <1>7

\* One metric more.
LEMMA TotalAppend ==
    ASSUME NEW o \in Observers, NEW S, NEW metrics \in Seq(S), NEW m, IsMetric(o, m),
           \A j \in DOMAIN metrics : IsMetric(o, metrics[j]), NEW k \in Keys
    PROVE  \A i \in 1 .. Width :
              Total(ReadAll(o, Append(metrics, m), k))[i]
                 = Total(ReadAll(o, metrics, k))[i] + MetricCounts(o, m, k)[i]
<1> DEFINE U == S \cup {m}
           ms == Append(metrics, m)
           n == Len(metrics)
           f(i) == [j \in DOMAIN metrics |-> MetricCounts(o, metrics[j], k)[i]]
           g(i) == [j \in DOMAIN ms |-> MetricCounts(o, ms[j], k)[i]]
<1>1. metrics \in Seq(U) /\ m \in U /\ n \in Nat /\ DOMAIN metrics = 1 .. n
  OBVIOUS
<1>2. /\ ms \in Seq(U) /\ DOMAIN ms = 1 .. n + 1 /\ ms[n + 1] = m
      /\ \A j \in 1 .. n : ms[j] = metrics[j]
  BY <1>1
<1> HIDE DEF ms, n, U
<1>3. \A j \in DOMAIN ms : IsMetric(o, ms[j])
  BY <1>1, <1>2
<1>4. /\ \A j \in DOMAIN ms : MetricCounts(o, ms[j], k) \in Vectors
      /\ \A i \in 1 .. Width : Total(ReadAll(o, ms, k))[i] = SumOf(g(i), DOMAIN ms)
  BY <1>2, <1>3, TotalIs
<1>5. \A i \in 1 .. Width : Total(ReadAll(o, metrics, k))[i] = SumOf(f(i), DOMAIN metrics)
  BY TotalIs
<1>6. ASSUME NEW i \in 1 .. Width
      PROVE  Total(ReadAll(o, ms, k))[i] = Total(ReadAll(o, metrics, k))[i] + MetricCounts(o, m, k)[i]
  <2>1. \A j \in 1 .. n + 1 : g(i)[j] \in Int
    <3> SUFFICES ASSUME NEW j \in 1 .. n + 1 PROVE g(i)[j] \in Int
      OBVIOUS
    <3>1. MetricCounts(o, ms[j], k) \in Vectors /\ g(i)[j] = MetricCounts(o, ms[j], k)[i]
      BY <1>2, <1>4
    <3> QED
      BY <3>1 DEF Vectors
  <2>2. \A j \in 1 .. n : f(i)[j] = g(i)[j]
    BY <1>1, <1>2
  <2>3. g(i)[n + 1] = MetricCounts(o, m, k)[i]
    BY <1>1, <1>2
  <2> HIDE DEF f, g
  <2>4. SumOf(g(i), 1 .. n + 1) = SumOf(g(i), 1 .. n) + g(i)[n + 1]
    BY <1>1, <2>1, SumUpTo
  <2>5. SumOf(f(i), 1 .. n) = SumOf(g(i), 1 .. n)
    BY <1>1, <2>2, FirstNumbers, SumsAgree
  <2> QED
    BY <1>1, <1>2, <1>4, <1>5, <2>3, <2>4, <2>5
<1> QED
  BY <1>6 DEF ms

LEMMA TotalOfNone ==
    ASSUME NEW o \in Observers, NEW k \in Keys
    PROVE  \A i \in 1 .. Width : Total(ReadAll(o, <<>>, k))[i] = 0
<1> DEFINE f(i) == [j \in DOMAIN <<>> |-> MetricCounts(o, <<>>[j], k)[i]]
<1>1. <<>> \in Seq(Int) /\ DOMAIN <<>> = {}
  OBVIOUS
<1>2. \A i \in 1 .. Width : Total(ReadAll(o, <<>>, k))[i] = SumOf(f(i), DOMAIN <<>>)
  BY <1>1, TotalIs
<1> QED
  BY <1>1, <1>2, SumEmpty

LEMMA ReportsType ==
    ASSUME Types, NEW o \in Observers, NEW k \in Keys, NEW i \in 1 .. Width
    PROVE  /\ Out(o, k)[i] \in Int /\ PendingCounts(o, k)[i] \in Int /\ Reports(o, k)[i] \in Int
           /\ Reports(o, k)[i] = Out(o, k)[i] + PendingCounts(o, k)[i]
           /\ kind # "Gauge" => PendingCounts(o, k)[i] \in Nat
<1>1. PICK S : exported[o] \in Seq(S)
  BY DEF Types, Typed
<1>2. Out(o, k) \in Vectors
  BY <1>1, TotalIs DEF Types, Metrics, Out
<1>3. PendingCounts(o, k) \in Vectors
  BY OutcomeType
<1>4. Reports(o, k)[i] = Out(o, k)[i] + PendingCounts(o, k)[i]
  BY DEF Reports
<1>5. ASSUME kind # "Gauge"
      PROVE  PendingCounts(o, k)[i] \in Nat
  <2> DEFINE D == DOMAIN series[o][k]
             f == [n \in D |-> Counts(cell, series[o][k][n].value)[i]]
  <2>1. cell \in Cells /\ kind \in Kinds /\ IsSeries(series[o]) /\ Width = Size(cell)
    BY TheCell, Sizes DEF Types, Typed, ValuesSound
  <2>2. IsFiniteSet(D) /\ PendingCounts(o, k)[i] = SumOf(f, D)
    BY <2>1, PendingIs, OutcomeType
  <2>3. ASSUME NEW n \in D PROVE f[n] \in Nat
    <3>1. Counts(cell, series[o][k][n].value) \in [1 .. Size(cell) -> Nat]
      BY <1>5, <2>1, CountsType DEF IsSeries
    <3> QED
      BY <2>1, <3>1
  <2> HIDE DEF D, f
  <2> QED
    BY <2>2, <2>3, SumOfPart
<1> QED
  BY <1>2, <1>3, <1>4, <1>5 DEF Vectors

LEMMA ReportsStay ==
    ASSUME world' = world, NEW o \in Observers, NEW k \in Keys,
           series'[o][k] = series[o][k], exported'[o] = exported[o]
    PROVE  Reports(o, k)' = Reports(o, k)
<1>1. cell' = cell /\ kind' = kind /\ Width' = Width
  BY SameWorld
<1>2. PendingCounts(o, k)' = PendingCounts(o, k)
  BY <1>1 DEF PendingCounts, Sum
<1>3. Out(o, k)' = Out(o, k)
  BY <1>1 DEF Out, Total, Sum, ReadAll, ReadMetric, WireCounts, TextCounts
<1> QED
  BY <1>1, <1>2, <1>3 DEF Reports

LEMMA ReportsRecord ==
    ASSUME Types, world' = world, NEW o \in Observers, NEW k \in Keys, NEW v, Sound(kind, cell, v),
           Grows(o, k, v), exported'[o] = exported[o]
    PROVE  \A i \in 1 .. Width : Reports(o, k)'[i] = Reports(o, k)[i] + Counts(cell, v)[i]
<1> DEFINE n == Len(series[o][k])
           s == [seq_id |-> seq[o], ts |-> ts[o], value |-> v]
           f(i) == [j \in DOMAIN series[o][k] |-> Counts(cell, series[o][k][j].value)[i]]
           g(i) == [j \in DOMAIN series'[o][k] |-> Counts(cell, series'[o][k][j].value)[i]]
<1>1. cell' = cell /\ kind' = kind /\ Width' = Width /\ cell \in Cells /\ kind \in Kinds /\ IsSeries(series[o]) /\ IsSeries(series'[o])
      /\ Vectors = [1 .. Width -> Int]
  BY SameWorld, TheCell, RecordTypes DEF Types, Typed, ValuesSound, Grows, Vectors
<1>2. series[o][k] \in Seq(Snapshot) /\ n \in Nat /\ DOMAIN series[o][k] = 1 .. n
  BY DEF Types, Typed
<1>3. series'[o][k] = Append(series[o][k], s)
  BY DEF Grows
<1>4. s.value = v
  OBVIOUS
<1> HIDE DEF s, n
<1>5. /\ DOMAIN series'[o][k] = 1 .. n + 1
      /\ series'[o][k][n + 1] = s
      /\ \A j \in 1 .. n : series'[o][k][j] = series[o][k][j]
  BY <1>2, <1>3 DEF n
<1>6. PendingCounts(o, k)' = CountsIn(series'[o], k)
  BY <1>1 DEF PendingCounts, CountsIn, Sum
<1>7. \A i \in 1 .. Width : /\ PendingCounts(o, k)[i] = SumOf(f(i), 1 .. n)
                            /\ CountsIn(series'[o], k)[i] = SumOf(g(i), 1 .. n + 1)
  <2>1. PendingCounts(o, k) = CountsIn(series[o], k)
    BY OutcomeType
  <2>2. \A i \in 1 .. Width : CountsIn(series[o], k)[i] = SumOf(f(i), DOMAIN series[o][k])
    BY <1>1, PendingIs
  <2>3. \A i \in 1 .. Width : CountsIn(series'[o], k)[i] = SumOf(g(i), DOMAIN series'[o][k])
    BY <1>1, PendingIs
  <2> HIDE DEF f, g
  <2> QED
    BY <1>2, <1>5, <2>1, <2>2, <2>3, Zenon
<1>8. Out(o, k)' = Out(o, k)
  BY <1>1 DEF Out, Total, Sum, ReadAll, ReadMetric, WireCounts, TextCounts
<1>9. ASSUME NEW i \in 1 .. Width
      PROVE  Reports(o, k)'[i] = Reports(o, k)[i] + Counts(cell, v)[i]
  <2>1. ASSUME NEW j \in 1 .. n + 1 PROVE g(i)[j] \in Int
    <3>1. Counts(cell, series'[o][k][j].value) \in Vectors
      BY <1>1, <1>5, PendingIs
    <3> QED
      BY <1>1, <1>5, <3>1
  <2>2. \A j \in 1 .. n : f(i)[j] = g(i)[j]
    BY <1>2, <1>5
  <2>3. g(i)[n + 1] = Counts(cell, v)[i]
    BY <1>2, <1>4, <1>5
  <2> HIDE DEF f, g
  <2>4. SumOf(g(i), 1 .. n + 1) = SumOf(g(i), 1 .. n) + g(i)[n + 1] /\ SumOf(g(i), 1 .. n) \in Int
    BY <1>2, <2>1, SumUpTo DEF n
  <2>5. SumOf(f(i), 1 .. n) = SumOf(g(i), 1 .. n)
    BY <1>2, <2>2, FirstNumbers, SumsAgree DEF n
  <2>6. CountsIn(series'[o], k)[i] = PendingCounts(o, k)[i] + Counts(cell, v)[i]
    BY <1>7, <2>3, <2>4, <2>5
  <2>7. Reports(o, k)'[i] = Out(o, k)[i] + CountsIn(series'[o], k)[i]
    BY <1>1, <1>6, <1>8 DEF Reports
  <2>8. Out(o, k)[i] \in Int /\ PendingCounts(o, k)[i] \in Int
        /\ Reports(o, k)[i] = Out(o, k)[i] + PendingCounts(o, k)[i]
    BY ReportsType
  <2>9. g(i)[n + 1] \in Int
    BY <1>2, <2>1 DEF n
  <2> QED
    BY <2>3, <2>6, <2>7, <2>8, <2>9
<1> QED
  BY <1>9

\* An export reports what was pending, or forgets it.
LEMMA ReportsExport ==
    ASSUME TextsTell, Types, world' = world, NEW o \in Observers, series'[o] = NoSeries, NEW k \in Keys
    PROVE  /\ into_wire(o).is = "Some" /\ exported'[o] = Append(exported[o], into_wire(o).metric)
                => \A i \in 1 .. Width : Reports(o, k)'[i] = Reports(o, k)[i]
           /\ exported'[o] = exported[o] => \A i \in 1 .. Width : Reports(o, k)'[i] = Out(o, k)[i]
           /\ exported'[o] = <<>> => \A i \in 1 .. Width : Reports(o, k)'[i] = 0
<1> DEFINE m == into_wire(o).metric
<1>1. cell' = cell /\ kind' = kind /\ Width' = Width /\ cell \in Cells
  BY SameWorld, TheCell DEF Types, Typed
<1>2. PICK S : exported[o] \in Seq(S)
  BY DEF Types, Typed
<1>3. \A i \in 1 .. Width : PendingCounts(o, k)'[i] = 0
  <2>1. PendingCounts(o, k)' = CountsIn(NoSeries, k)
    BY <1>1 DEF PendingCounts, CountsIn, Sum
  <2> DEFINE f(i) == [n \in DOMAIN NoSeries[k] |-> Counts(cell, NoSeries[k][n].value)[i]]
  <2>2. \A i \in 1 .. Width : CountsIn(NoSeries, k)[i] = SumOf(f(i), DOMAIN NoSeries[k])
    BY <1>1, NoSeriesIs, PendingIs
  <2>3. DOMAIN NoSeries[k] = {}
    BY NoSeriesIs
  <2> HIDE DEF f
  <2> QED
    BY <2>1, <2>2, <2>3, SumEmpty
<1>4. Out(o, k)' = Total(ReadAll(o, exported'[o], k))
  BY <1>1 DEF Out, Total, Sum, ReadAll, ReadMetric, WireCounts, TextCounts
<1>5. \A i \in 1 .. Width : Reports(o, k)'[i] = Out(o, k)'[i] + PendingCounts(o, k)'[i]
  BY <1>1 DEF Reports
<1>6. ASSUME into_wire(o).is = "Some", exported'[o] = Append(exported[o], m), NEW i \in 1 .. Width
      PROVE  Reports(o, k)'[i] = Reports(o, k)[i]
  <2>1. IsMetric(o, m) /\ \A j \in DOMAIN exported[o] : IsMetric(o, exported[o][j])
    BY <1>6, PiecesAreMetrics DEF Types, Metrics
  <2>2. MetricCounts(o, m, k)[i] = PendingCounts(o, k)[i]
    BY <1>6, MetricIsPending
  <2> HIDE DEF m
  <2>3. Total(ReadAll(o, exported'[o], k))[i] = Out(o, k)[i] + MetricCounts(o, m, k)[i]
    BY <1>2, <1>6, <2>1, TotalAppend DEF Out
  <2>4. Out(o, k)[i] \in Int /\ PendingCounts(o, k)[i] \in Int
        /\ Reports(o, k)[i] = Out(o, k)[i] + PendingCounts(o, k)[i]
    BY ReportsType
  <2> QED
    BY <1>3, <1>4, <1>5, <2>2, <2>3, <2>4
<1>7. ASSUME exported'[o] = exported[o], NEW i \in 1 .. Width
      PROVE  Reports(o, k)'[i] = Out(o, k)[i]
  <2>1. Out(o, k)' = Out(o, k)
    BY <1>4, <1>7 DEF Out
  <2>2. Out(o, k)[i] \in Int
    BY ReportsType
  <2> QED
    BY <1>3, <1>5, <2>1, <2>2
<1>8. ASSUME exported'[o] = <<>>, NEW i \in 1 .. Width
      PROVE  Reports(o, k)'[i] = 0
  BY <1>3, <1>4, <1>5, <1>8, TotalOfNone
<1> QED
  BY <1>6, <1>7, <1>8

-----------------------------------------------------------------------------
(* Nothing is reported that was not added                                  *)

LEMMA LessIs ==
    ASSUME NEW sort, NEW c \in Cells, NEW v, Sound(sort, c, v), NEW w, Sound(sort, c, w)
    PROVE  Less(c, v, w) <=> Counts(c, v)[1] < Counts(c, w)[1]
<1>1. CASE c = "Bucket"
  BY <1>1, CountsOfBucket DEF Less, Sound, IsValue
<1>2. CASE c # "Bucket"
  BY <1>2 DEF Less, Counts
<1> QED
  BY <1>1, <1>2

LEMMA AccumulatingIs ==
    ASSUME Types, NEW o \in Observers, Accumulating(o)
    PROVE  /\ cell \in Cells /\ kind # "Gauge" /\ Mode[o] \in {"Delta", "Destructive"}
           /\ world' = world => Accumulating(o)'
BY TheCell, ObserverAssumption DEF Accumulating, Types, Typed, cell, kind

\* The numbers of the values in sight.
LEMMA InMapIs ==
    ASSUME Types, kind # "Gauge", NEW k \in Keys, NEW i \in 1 .. Width
    PROVE  /\ InMap(k)[i] \in Nat
           /\ bucket[k] = None => InMap(k)[i] = 0
           /\ bucket[k] # None => bucket[k] \in Updates /\ InMap(k)[i] = Counts(cell, value[bucket[k]])[i]
           /\ \A b \in Updates : Counts(cell, value[b])[i] \in Nat
           /\ \A v : Sound(kind, cell, v) => Counts(cell, v)[i] \in Nat
           /\ Added(k)[i] \in Nat
<1>1. cell \in Cells /\ Width = Size(cell)
  BY TheCell, Sizes DEF Types, Typed
<1>2. ASSUME NEW v, Sound(kind, cell, v) PROVE Counts(cell, v)[i] \in Nat
  <2>1. Counts(cell, v) \in [1 .. Size(cell) -> Nat]
    BY <1>1, <1>2, CountsType
  <2> QED
    BY <1>1, <2>1
<1>3. \A b \in Updates : Counts(cell, value[b])[i] \in Nat
  BY <1>2 DEF Types, ValuesSound
<1>4. bucket[k] # None => bucket[k] \in Updates
  BY DEF Types, Typed
<1>5. Zero[i] = 0
  BY DEF Zero
<1>6. InMap(k)[i] = IF bucket[k] = None THEN 0 ELSE Counts(cell, value[bucket[k]])[i]
  BY <1>5 DEF InMap
<1>7. Added(k)[i] \in Nat
  BY AddedNat DEF Types, Typed
<1> QED
  BY <1>2, <1>3, <1>4, <1>6, <1>7

\* A step that leaves the buckets of k alone, and what o has read of them,
\* leaves the account in order if it reports no more.
LEMMA AccountsStay ==
    ASSUME Types, Named, [Next]_vars, NEW o \in Observers, Accumulating(o), NEW k \in Keys, Accounts(o, k),
           \A i \in 1 .. Width : Reports(o, k)'[i] \in Int /\ Reports(o, k)'[i] <= Reports(o, k)[i],
           \A b \in Updates : Key[b] = k => value'[b] = value[b],
           bucket'[k] = bucket[k] \/ (bucket[k] = None /\ bucket'[k] \in Updates
                                      /\ value'[bucket'[k]] = Initial(cell)),
           last_values'[o][k] = last_values[o][k],
           Mode[o] = "Destructive" => \A b \in Updates : <<k, b>> \in todo'[o] => <<k, b>> \in todo[o]
    PROVE  Accounts(o, k)'
<1>1. /\ cell' = cell /\ kind' = kind /\ Width' = Width /\ cell \in Cells /\ kind # "Gauge" /\ Width = Size(cell)
      /\ world' = world
  BY AddedStep, AccumulatingIs, Sizes
<1>2. bucket[k] # None => bucket[k] \in Updates /\ Key[bucket[k]] = k /\ bucket'[k] = bucket[k]
                          /\ value'[bucket[k]] = value[bucket[k]]
  BY DEF Named, Types, Typed
<1>3. ASSUME NEW i \in 1 .. Width PROVE InMap(k)'[i] = InMap(k)[i]
  <2>1. CASE bucket[k] = None /\ bucket'[k] # None
    <3>1. InMap(k)' = Counts(cell, Initial(cell))
      BY <1>1, <2>1 DEF InMap
    <3> QED
      BY <1>1, <2>1, <3>1, InitialCounts, InMapIs
  <2>2. CASE ~(bucket[k] = None /\ bucket'[k] # None)
    <3>1. bucket'[k] = bucket[k]
      BY <2>2
    <3>2. Zero' = Zero
      BY <1>1 DEF Zero
    <3>3. InMap(k)' = InMap(k)
      BY <1>1, <1>2, <3>1, <3>2 DEF InMap
    <3> QED
      BY <3>3
  <2> QED
    BY <2>1, <2>2
<1>4. ASSUME NEW i \in 1 .. Width
      PROVE  /\ Reports(o, k)[i] \in Int /\ Reports(o, k)'[i] \in Int /\ Reports(o, k)'[i] <= Reports(o, k)[i]
             /\ Added(k)[i] \in Nat /\ Added(k)'[i] \in Int /\ Added(k)[i] <= Added(k)'[i]
             /\ InMap(k)[i] \in Nat /\ InMap(k)'[i] = InMap(k)[i]
  BY <1>1, <1>3, ReportsType, AddedUp, InMapIs
<1>5. ASSUME NoneReported(o, k) PROVE NoneReported(o, k)'
  <2>1. ASSUME NEW i \in 1 .. Width
        PROVE  Reports(o, k)'[i] + InMap(k)'[i] <= Added(k)'[i]
    <3>1. Reports(o, k)[i] + InMap(k)[i] <= Added(k)[i]
      BY <1>5 DEF NoneReported
    <3> QED
      BY <1>4, <3>1
  <2> QED
    BY <1>1, <2>1 DEF NoneReported
<1>6. ASSUME VisitedReported(o, k), Mode[o] = "Delta" PROVE VisitedReported(o, k)'
  <2> DEFINE p == last_values[o][k]
             current == value[bucket[k]]
  <2>1. /\ bucket[k] # None /\ p # None /\ (p = current \/ Less(cell, p, current))
        /\ \A i \in 1 .. Width :
              /\ Counts(cell, p)[i] <= Counts(cell, current)[i]
              /\ Reports(o, k)[i] + Counts(cell, current)[i] - Counts(cell, p)[i] <= Added(k)[i]
    BY <1>6 DEF VisitedReported
  <2>2. last_values'[o][k] = p /\ value'[bucket'[k]] = current /\ bucket'[k] # None
    BY <1>2, <2>1
  <2>3. Sound(kind, cell, p) /\ Sound(kind, cell, current)
    BY <1>2, <2>1 DEF Types, ValuesSound
  <2> HIDE DEF p, current
  <2>4. ASSUME NEW i \in 1 .. Width
        PROVE  Reports(o, k)'[i] + Counts(cell, current)[i] - Counts(cell, p)[i] <= Added(k)'[i]
    <3>1. Counts(cell, current)[i] \in Nat /\ Counts(cell, p)[i] \in Nat
      BY <1>1, <2>3, InMapIs
    <3>2. Reports(o, k)[i] + Counts(cell, current)[i] - Counts(cell, p)[i] <= Added(k)[i]
      BY <2>1
    <3> QED
      BY <1>4, <3>1, <3>2
  <2> QED
    BY <1>1, <2>1, <2>2, <2>4 DEF VisitedReported
<1>7. ASSUME UnreadNotReported(o, k), Mode[o] = "Destructive" PROVE UnreadNotReported(o, k)'
  <2>1. ASSUME NEW b \in Updates, <<k, b>> \in todo'[o], NEW i \in 1 .. Width
        PROVE  Reports(o, k)'[i] + InMap(k)'[i] + Counts(cell, value'[b])[i] <= Added(k)'[i]
    <3>1. <<k, b>> \in todo[o] /\ Key[b] = k
      BY <1>7, <2>1 DEF Named
    <3>2. Counts(cell, value[b])[i] \in Nat /\ value'[b] = value[b]
      BY <1>1, <3>1, InMapIs
    <3>3. Reports(o, k)[i] + InMap(k)[i] + Counts(cell, value[b])[i] <= Added(k)[i]
      BY <1>7, <3>1 DEF UnreadNotReported
    <3> QED
      BY <1>4, <3>2, <3>3
  <2> QED
    BY <1>1, <2>1 DEF UnreadNotReported
<1> QED
  BY <1>1, <1>5, <1>6, <1>7, AccumulatingIs DEF Accounts

\* What is accounted for is no more than what was added.
LEMMA ReportedAdded ==
    ASSUME Types, NEW o \in Observers, Accumulating(o), NEW k \in Keys, Accounts(o, k), NEW i \in 1 .. Width
    PROVE  Reports(o, k)[i] <= Added(k)[i]
<1>1. kind # "Gauge" /\ Mode[o] \in {"Delta", "Destructive"}
  BY AccumulatingIs
<1>2. Reports(o, k)[i] \in Int /\ InMap(k)[i] \in Nat /\ Added(k)[i] \in Nat
  BY <1>1, ReportsType, InMapIs
<1>3. CASE NoneReported(o, k)
  BY <1>2, <1>3 DEF NoneReported
<1>4. CASE VisitedReported(o, k)
  <2> DEFINE p == last_values[o][k]
             current == value[bucket[k]]
  <2>1. /\ Counts(cell, p)[i] <= Counts(cell, current)[i]
        /\ Reports(o, k)[i] + Counts(cell, current)[i] - Counts(cell, p)[i] <= Added(k)[i]
        /\ bucket[k] # None /\ p # None
    BY <1>4 DEF VisitedReported
  <2>2. Sound(kind, cell, p) /\ Sound(kind, cell, current)
    BY <1>1, <2>1, InMapIs DEF Types, ValuesSound
  <2> HIDE DEF p, current
  <2>3. Counts(cell, p)[i] \in Nat /\ Counts(cell, current)[i] \in Nat
    BY <1>1, <2>2, InMapIs
  <2> QED
    BY <1>2, <2>1, <2>3
<1> QED
  BY <1>1, <1>3, <1>4 DEF Accounts

\* An update of a bucket b of k adds what it counts for, or empties the bucket.
LEMMA AccountsUpdate ==
    ASSUME Types, Named, [Next]_vars, NEW o \in Observers, Accumulating(o), NEW k \in Keys, Accounts(o, k),
           UNCHANGED <<bucket, todo, last_values, series, exported>>,
           NEW b \in Updates, Key[b] = k, NEW w, Sound(kind, cell, w),
           value'[b] = w, \A c \in Updates : c # b => value'[c] = value[c],
           NEW g, \A i \in 1 .. Width : g[i] \in Nat /\ Added(k)[i] + g[i] <= Added(k)'[i],
           \/ \A i \in 1 .. Width : Counts(cell, w)[i] = 0
           \/ /\ Less(cell, value[b], w)
              /\ \A i \in 1 .. Width : Counts(cell, w)[i] = Counts(cell, value[b])[i] + g[i]
    PROVE  Accounts(o, k)'
<1>1. /\ cell' = cell /\ kind' = kind /\ Width' = Width /\ cell \in Cells /\ kind # "Gauge" /\ Width = Size(cell)
      /\ world' = world /\ 1 \in 1 .. Width
  BY AddedStep, AccumulatingIs, Sizes
<1>2. Reports(o, k)' = Reports(o, k)
  BY <1>1, ReportsStay
<1>3. ASSUME NEW i \in 1 .. Width
      PROVE  /\ Reports(o, k)[i] \in Int /\ Added(k)[i] \in Nat /\ Added(k)'[i] \in Int
             /\ InMap(k)[i] \in Nat
             /\ Counts(cell, value[b])[i] \in Nat /\ Counts(cell, w)[i] \in Nat
             /\ Counts(cell, w)[i] <= Counts(cell, value[b])[i] + g[i]
             /\ g[i] \in Nat /\ Added(k)[i] + g[i] <= Added(k)'[i]
             /\ \A v : Sound(kind, cell, v) => Counts(cell, v)[i] \in Nat
  BY <1>1, ReportsType, AddedUp, InMapIs
<1>4. bucket[k] # None => bucket[k] \in Updates /\ Sound(kind, cell, value[bucket[k]])
  BY DEF Types, Typed, ValuesSound
<1>5. /\ bucket[k] = b => InMap(k)' = Counts(cell, w) /\ InMap(k) = Counts(cell, value[b])
      /\ bucket[k] # b => InMap(k)' = InMap(k)
  <2>1. Zero' = Zero /\ b # None
    BY <1>1, ObserverAssumption DEF Zero
  <2> QED
    BY <1>1, <1>4, <2>1 DEF InMap
<1>6. ASSUME NEW i \in 1 .. Width
      PROVE  InMap(k)'[i] \in Nat /\ InMap(k)'[i] <= InMap(k)[i] + g[i]
  BY <1>3, <1>5
<1>7. ASSUME NoneReported(o, k) PROVE NoneReported(o, k)'
  <2>1. ASSUME NEW i \in 1 .. Width
        PROVE  Reports(o, k)[i] + InMap(k)'[i] <= Added(k)'[i]
    <3>1. Reports(o, k)[i] + InMap(k)[i] <= Added(k)[i]
      BY <1>7 DEF NoneReported
    <3> QED
      BY <1>3, <1>6, <3>1
  <2> QED
    BY <1>1, <1>2, <2>1 DEF NoneReported
<1>8. ASSUME VisitedReported(o, k) PROVE NoneReported(o, k)' \/ VisitedReported(o, k)'
  <2> DEFINE p == last_values[o][k]
             current == value[bucket[k]]
  <2>1. /\ bucket[k] # None /\ p # None /\ (p = current \/ Less(cell, p, current))
        /\ \A i \in 1 .. Width :
              /\ Counts(cell, p)[i] <= Counts(cell, current)[i]
              /\ Reports(o, k)[i] + Counts(cell, current)[i] - Counts(cell, p)[i] <= Added(k)[i]
    BY <1>8 DEF VisitedReported
  <2>2. Sound(kind, cell, p) /\ Sound(kind, cell, current)
    BY <1>4, <2>1 DEF Types, ValuesSound
  <2>3. \A i \in 1 .. Width : Counts(cell, p)[i] \in Nat /\ Counts(cell, current)[i] \in Nat
    BY <1>3, <2>2
  <2>4. CASE bucket[k] # b
    <3>1. value'[bucket'[k]] = current
      BY <1>4, <2>1, <2>4
    <3> HIDE DEF p, current
    <3>2. ASSUME NEW i \in 1 .. Width
          PROVE  Reports(o, k)[i] + Counts(cell, current)[i] - Counts(cell, p)[i] <= Added(k)'[i]
      BY <1>3, <2>1, <2>3
    <3> QED
      BY <1>1, <1>2, <2>1, <3>1, <3>2 DEF VisitedReported, p
  <2>5. CASE bucket[k] = b /\ \A i \in 1 .. Width : Counts(cell, w)[i] = 0
    <3>1. ASSUME NEW i \in 1 .. Width
          PROVE  Reports(o, k)[i] + InMap(k)'[i] <= Added(k)'[i]
      <4>1. InMap(k)'[i] = 0
        BY <1>5, <2>5
      <4>2. Reports(o, k)[i] <= Added(k)[i]
        BY ReportedAdded
      <4> QED
        BY <1>3, <4>1, <4>2
    <3> QED
      BY <1>1, <1>2, <3>1 DEF NoneReported
  <2>6. CASE /\ bucket[k] = b /\ Less(cell, current, w)
             /\ \A i \in 1 .. Width : Counts(cell, w)[i] = Counts(cell, current)[i] + g[i]
    <3>1. value'[bucket'[k]] = w
      BY <2>6
    <3> HIDE DEF p, current
    <3>2. Less(cell, p, w)
      BY <1>1, <2>1, <2>2, <2>3, <2>6, LessIs
    <3>3. ASSUME NEW i \in 1 .. Width
          PROVE  /\ Counts(cell, p)[i] <= Counts(cell, w)[i]
                 /\ Reports(o, k)[i] + Counts(cell, w)[i] - Counts(cell, p)[i] <= Added(k)'[i]
      <4>1. /\ Counts(cell, p)[i] \in Nat /\ Counts(cell, current)[i] \in Nat
            /\ Counts(cell, w)[i] = Counts(cell, current)[i] + g[i]
            /\ Counts(cell, p)[i] <= Counts(cell, current)[i]
            /\ Reports(o, k)[i] + Counts(cell, current)[i] - Counts(cell, p)[i] <= Added(k)[i]
        BY <2>1, <2>3, <2>6
      <4> QED
        BY <1>3, <4>1
    <3> QED
      BY <1>1, <1>2, <2>1, <3>1, <3>2, <3>3 DEF VisitedReported, p
  <2> QED
    BY <2>4, <2>5, <2>6
<1>9. ASSUME UnreadNotReported(o, k), Mode[o] = "Destructive" PROVE UnreadNotReported(o, k)'
  <2>1. ASSUME NEW c \in Updates, <<k, c>> \in todo[o], NEW i \in 1 .. Width
        PROVE  Reports(o, k)[i] + InMap(k)'[i] + Counts(cell, value'[c])[i] <= Added(k)'[i]
    <3>1. bucket[k] # c
      BY <1>9, <2>1 DEF Named
    <3>2. Reports(o, k)[i] + InMap(k)[i] + Counts(cell, value[c])[i] <= Added(k)[i]
      BY <1>9, <2>1 DEF UnreadNotReported
    <3>3. Counts(cell, value[c])[i] \in Nat
      BY <1>1, InMapIs
    <3>4. CASE c = b
      <4>1. InMap(k)'[i] = InMap(k)[i]
        BY <1>5, <3>1, <3>4
      <4> QED
        BY <1>3, <3>2, <3>3, <3>4, <4>1
    <3>5. CASE c # b
      <4>1. value'[c] = value[c]
        BY <3>5
      <4> QED
        BY <1>3, <1>6, <3>2, <3>3, <4>1
    <3> QED
      BY <3>4, <3>5
  <2> QED
    BY <1>1, <1>2, <2>1 DEF UnreadNotReported
<1> QED
  BY <1>1, <1>7, <1>8, <1>9 DEF Accounts

\* What an add makes of a value, and the difference of two, in numbers.
LEMMA AddCounts ==
    ASSUME world \in Worlds, NEW u \in world.calls, Op[u] = "add",
           NEW v, Sound(kind, cell, v)
    PROVE  \/ \A i \in 1 .. Width :
                 Counts(cell, Plus(cell, v, One(u)))[i] = Counts(cell, v)[i] + Gain(u)[i]
           \/ cell = "AtomicU64" /\ Plus(cell, v, One(u)) = 0 /\ v = Modulus - 1
<1>1. cell \in Cells /\ Width = Size(cell) /\ One(u) \in Nat
      /\ (cell # "Bucket" => One(u) = 1)
  BY TheCell, Sizes, OneType
<1> DEFINE x == One(u)
<1>2. IsAddend(cell, x)
  BY <1>1 DEF IsAddend
<1> HIDE DEF x
<1>3. AddsUp(cell, v, x)
  BY <1>1, <1>2, PlusAdds
<1> QED
  BY <1>1, <1>3 DEF AddsUp, Gain, x

LEMMA MinusCounts ==
    ASSUME cell \in Cells, kind # "Gauge", Width = Size(cell), NEW v, Sound(kind, cell, v),
           NEW w, Sound(kind, cell, w), Less(cell, w, v), NEW i \in 1 .. Width
    PROVE  /\ Counts(cell, Minus(cell, v, w))[i] <= Counts(cell, v)[i]
           /\ Counts(cell, w)[i] <= Counts(cell, v)[i] =>
                 Counts(cell, Minus(cell, v, w))[i] = Counts(cell, v)[i] - Counts(cell, w)[i]
BY MinusLeq

\* The calls of the application that change values.
LEMMA AccountsClear ==
    ASSUME Types, Named, [Next]_vars, NEW o \in Observers, Accumulating(o), NEW k \in Keys, Accounts(o, k),
           NEW u \in Updates, Clear(u)
    PROVE  Accounts(o, k)'
<1>1. /\ ref[u] \in Updates /\ Key[ref[u]] = Key[u]
      /\ value'[ref[u]] = Initial(cell)
      /\ \A c \in Updates : c # ref[u] => value'[c] = value[c]
      /\ UNCHANGED <<world, bucket, todo, last_values, series, exported>>
  <2>1. upc[u] # "called"
    BY DEF Clear
  <2> QED
    BY <2>1 DEF Clear, Named, Types, Typed, Called, progress, observer, outcome
<1>2. cell \in Cells /\ Width = Size(cell)
  BY AccumulatingIs, Sizes
<1>3. CASE Key[u] = k
  <2> DEFINE g == [i \in 1 .. Width |-> 0]
  <2>1. \A i \in 1 .. Width : g[i] \in Nat /\ Added(k)[i] + g[i] <= Added(k)'[i]
    BY AddedUp
  <2>2. \A i \in 1 .. Width : Counts(cell, Initial(cell))[i] = 0
    BY <1>2, InitialCounts
  <2> HIDE DEF g
  <2> QED
    BY <1>1, <1>2, <1>3, <2>1, <2>2, InitialSound, AccountsUpdate
<1>4. CASE Key[u] # k
  <2>1. Reports(o, k)' = Reports(o, k)
    BY <1>1, ReportsStay
  <2> QED
    BY <1>1, <1>4, <2>1, ReportsType, AccountsStay
<1> QED
  BY <1>3, <1>4

LEMMA AccountsStore ==
    ASSUME Types, Named, [Next]_vars, NEW o \in Observers, Accumulating(o), NEW k \in Keys, Accounts(o, k),
           NEW u \in Updates, upc[u] \in {"update", "exchange"}, Op[u] # "reset", Store(u, value[ref[u]])
    PROVE  Accounts(o, k)'
<1> DEFINE v == value[ref[u]]
           w == Plus(cell, v, One(u))
<1>1. /\ ref[u] \in Updates /\ Key[ref[u]] = Key[u] /\ u \in world.calls
      /\ value'[ref[u]] = w
      /\ \A c \in Updates : c # ref[u] => value'[c] = value[c]
      /\ UNCHANGED <<world, bucket, todo, last_values, series, exported>>
      /\ \A x \in Updates : upc'[x] = IF x = u THEN "returned" ELSE upc[x]
  <2>1. upc[u] # "called"
    OBVIOUS
  <2> QED
    BY <2>1 DEF Store, Named, Types, Typed, Called, progress, observer, outcome
<1>2. cell \in Cells /\ Width = Size(cell) /\ kind # "Gauge" /\ world \in Worlds /\ 1 \in 1 .. Width
  BY AccumulatingIs, Sizes DEF Types, Typed
<1>3. Op[u] = "add" /\ One(u) \in Nat
  <2>1. Op[u] = "add"
    BY <1>1, <1>2, TheCell
  <2> QED
    BY <1>1, <1>2, <2>1, OneType
<1>4. CASE Key[u] = k
  <2> DEFINE g == Gain(u)
  <2>1. Sound(kind, cell, v) /\ (cell = "AtomicU64" => One(u) = 1)
    BY <1>1, <1>2, <1>3, OneType DEF Types, ValuesSound
  <2>2. Sound(kind, cell, w)
    BY <1>2, <1>3, <2>1, PlusSound
  <2>3. g \in [1 .. Width -> Nat]
    BY <1>2, <1>3, GainType
  <2>4. \A i \in 1 .. Width : Added(k)'[i] = Added(k)[i] + g[i]
    <3>1. /\ \A x \in Updates : upc[x] = "returned" => upc'[x] = "returned"
          /\ \A x \in Updates : upc'[x] = "returned" => x = u \/ upc[x] = "returned"
          /\ upc[u] # "returned" /\ u \in Raised(k)'
      BY <1>1, <1>3, <1>4 DEF Raised, Applied
    <3>2. /\ sunk \subseteq sunk' /\ sunk' \subseteq sunk \cup {u}
          /\ sunk \subseteq {x \in Updates : cell = "AtomicU64"}
          /\ sunk' \subseteq {x \in Updates : cell = "AtomicU64"}
      BY DEF Store, Types, Typed
    <3> QED
      BY <1>1, <1>2, <3>1, <3>2, AddedGrows
  <2>5. g[1] = 1
    <3>1. CASE cell = "Bucket"
      <4>1. Plus(cell, Initial(cell), One(u)) \in Histograms
        BY <1>2, <1>3, <3>1, InitialSound, PlusSound DEF Sound, IsValue
      <4>2. Plus(cell, Initial(cell), One(u)).count = 1
        BY <3>1 DEF Plus, Initial
      <4> QED
        BY <3>1, <4>1, <4>2, CountsOfBucket DEF Gain
    <3>2. CASE cell \in {"AtomicU64", "AtomicF64", "AtomicI64"}
      <4>1. One(u) = 1 /\ (0 + 1) % Modulus = 1
        BY <1>1, <1>2, <1>3, <3>2, Constants, OneType
      <4> QED
        BY <3>2, <4>1 DEF Gain, Counts, Plus, Initial
    <3> QED
      BY <1>2, <3>1, <3>2 DEF Cells
  <2>6. \/ \A i \in 1 .. Width : Counts(cell, w)[i] = 0
        \/ /\ Less(cell, v, w)
           /\ \A i \in 1 .. Width : Counts(cell, w)[i] = Counts(cell, v)[i] + g[i]
    <3>1. \/ \A i \in 1 .. Width : Counts(cell, w)[i] = Counts(cell, v)[i] + g[i]
          \/ cell = "AtomicU64" /\ w = 0
      <4> HIDE DEF v, g
      <4> QED
        BY <1>1, <1>2, <1>3, <2>1, AddCounts DEF g, w
    <3>2. CASE cell = "AtomicU64" /\ w = 0
      <4> HIDE DEF w
      <4> QED
        BY <1>2, <3>2 DEF Counts, Size
    <3>3. ASSUME \A i \in 1 .. Width : Counts(cell, w)[i] = Counts(cell, v)[i] + g[i]
          PROVE  Less(cell, v, w)
      <4>1. Counts(cell, v)[1] \in Nat
        BY <1>2, <2>1, InMapIs
      <4> HIDE DEF g, v, w
      <4>2. Counts(cell, v)[1] < Counts(cell, w)[1]
        BY <1>2, <2>5, <3>3, <4>1
      <4> QED
        BY <1>2, <2>1, <2>2, <4>2, LessIs
    <3> QED
      BY <3>1, <3>2, <3>3
  <2>7. \A i \in 1 .. Width : g[i] \in Nat /\ Added(k)[i] + g[i] <= Added(k)'[i]
    <3> SUFFICES ASSUME NEW i \in 1 .. Width PROVE g[i] \in Nat /\ Added(k)[i] + g[i] <= Added(k)'[i]
      OBVIOUS
    <3> HIDE DEF g
    <3> QED
      BY <2>3, <2>4, AddedUp
  <2> HIDE DEF g, w
  <2> QED
    BY <1>1, <1>4, <2>2, <2>6, <2>7, AccountsUpdate
<1>5. CASE Key[u] # k
  <2>1. Reports(o, k)' = Reports(o, k)
    BY <1>1, ReportsStay
  <2> HIDE DEF w
  <2> QED
    BY <1>1, <1>5, <2>1, ReportsType, AccountsStay
<1> QED
  BY <1>4, <1>5

\* A table that is taken is out of the map and yet to be read by one.
LEMMA AccountsTake ==
    ASSUME Types, Named, [Next]_vars, NEW o \in Observers, Accumulating(o), NEW k \in Keys, Accounts(o, k),
           NEW p \in Observers, BeginTake(p)
    PROVE  Accounts(o, k)'
<1>1. /\ cell' = cell /\ kind' = kind /\ Width' = Width /\ cell \in Cells /\ kind # "Gauge"
      /\ world' = world /\ Mode[o] \in {"Delta", "Destructive"}
  BY AddedStep, AccumulatingIs
<1>2. /\ bucket'[k] = None /\ UNCHANGED <<value, last_values, series, exported>>
      /\ \A q \in Observers : todo'[q] = IF q = p THEN Live ELSE todo[q]
  BY DEF BeginTake, Begin, observer, outcome, Types, Typed
<1>3. Reports(o, k)' = Reports(o, k)
  BY <1>1, <1>2, ReportsStay
<1>4. ASSUME NEW i \in 1 .. Width
      PROVE  /\ Reports(o, k)[i] \in Int /\ Added(k)[i] \in Nat /\ Added(k)'[i] \in Int
             /\ Added(k)[i] <= Added(k)'[i] /\ Reports(o, k)[i] <= Added(k)[i]
             /\ InMap(k)[i] \in Nat /\ InMap(k)'[i] = 0
  <2>1. InMap(k)'[i] = 0
    BY <1>1, <1>2 DEF InMap, Zero
  <2> QED
    BY <1>1, <2>1, ReportsType, AddedUp, InMapIs, ReportedAdded
<1>5. NoneReported(o, k)'
  <2>1. \A i \in 1 .. Width : Reports(o, k)[i] + InMap(k)'[i] <= Added(k)'[i]
    BY <1>4
  <2> QED
    BY <1>1, <1>3, <2>1 DEF NoneReported
<1>6. ASSUME Mode[o] = "Destructive" PROVE UnreadNotReported(o, k)'
  <2>1. NoneReported(o, k) /\ UnreadNotReported(o, k)
    BY <1>6 DEF Accounts
  <2>2. ASSUME NEW c \in Updates, <<k, c>> \in todo'[o], NEW i \in 1 .. Width
        PROVE  Reports(o, k)[i] + InMap(k)'[i] + Counts(cell, value[c])[i] <= Added(k)'[i]
    <3>1. Counts(cell, value[c])[i] \in Nat
      BY <1>1, InMapIs
    <3>2. CASE o = p
      <4>1. <<k, c>> \in Live
        BY <1>2, <2>2, <3>2
      <4>2. bucket[k] # None /\ c = bucket[k]
        BY <4>1, LiveIs
      <4>3. Reports(o, k)[i] + InMap(k)[i] <= Added(k)[i]
        BY <2>1 DEF NoneReported
      <4>4. InMap(k)[i] = Counts(cell, value[c])[i]
        BY <1>1, <4>2, InMapIs
      <4> QED
        BY <1>4, <3>1, <4>3, <4>4
    <3>3. CASE o # p
      <4>1. Reports(o, k)[i] + InMap(k)[i] + Counts(cell, value[c])[i] <= Added(k)[i]
        BY <1>2, <2>1, <2>2, <3>3 DEF UnreadNotReported
      <4> QED
        BY <1>4, <3>1, <4>1
    <3> QED
      BY <3>2, <3>3
  <2> QED
    BY <1>1, <1>2, <1>3, <2>2 DEF UnreadNotReported
<1> QED
  BY <1>5, <1>6 DEF Accounts

\* A delta observer has what was in the bucket it visits.
LEMMA AccountsVisited ==
    ASSUME Types, Clocks, Named, [Next]_vars, NEW o \in Observers, Accumulating(o), Mode[o] = "Delta",
           NEW e \in todo[o], Visits(o, e), Accounts(o, e[1])
    PROVE  Accounts(o, e[1])'
<1> DEFINE k == e[1]
           b == e[2]
           current == value[b]
           prev == last_values[o][k]
           r == Recorded(o, e)
<1>1. /\ cell' = cell /\ kind' = kind /\ Width' = Width /\ cell \in Cells /\ kind # "Gauge"
      /\ world' = world /\ Width = Size(cell)
  BY AddedStep, AccumulatingIs, Sizes
<1>2. /\ k \in Keys /\ b \in Updates /\ e = <<k, b>> /\ current \in Int \cup Histograms
      /\ Sound(kind, cell, current) /\ Sound(kind, cell, r)
  BY RecordedSound
<1>3. bucket[k] = b /\ b # None
  <2>1. e \in Live
    BY DEF Named
  <2> QED
    BY <1>2, <2>1, LiveIs
<1>4. /\ UNCHANGED <<bucket, value, exported>>
      /\ last_values'[o][k] = current
      /\ IF prev = current THEN UNCHANGED series ELSE Record(o, k, r)
  BY <1>2 DEF Visits, source, outcome, Types, Typed
<1>5. ASSUME NEW i \in 1 .. Width
      PROVE  /\ Reports(o, k)[i] \in Int /\ Added(k)[i] \in Nat /\ Added(k)'[i] \in Int
             /\ Added(k)[i] <= Added(k)'[i]
             /\ InMap(k)[i] = Counts(cell, current)[i]
             /\ Counts(cell, current)[i] \in Nat /\ Counts(cell, r)[i] \in Nat
  BY <1>1, <1>2, <1>3, ReportsType, AddedUp, InMapIs
<1>6. NoneReported(o, k) \/ VisitedReported(o, k)
  BY DEF Accounts
<1>7. ASSUME NEW i \in 1 .. Width
      PROVE  Reports(o, k)'[i] \in Int /\ Reports(o, k)'[i] <= Added(k)[i]
  <2>1. CASE prev = current
    <3>1. Reports(o, k)' = Reports(o, k)
      BY <1>1, <1>2, <1>4, <2>1, ReportsStay
    <3>2. CASE NoneReported(o, k)
      BY <1>5, <3>1, <3>2 DEF NoneReported
    <3>3. CASE VisitedReported(o, k)
      <4>1. Reports(o, k)[i] + Counts(cell, current)[i] - Counts(cell, current)[i] <= Added(k)[i]
        BY <1>3, <2>1, <3>3 DEF VisitedReported
      <4> QED
        BY <1>5, <3>1, <4>1
    <3> QED
      BY <1>6, <3>2, <3>3
  <2>2. CASE prev # current
    <3>1. Grows(o, k, r)
      BY <1>2, <1>4, <2>2, RecordTypes DEF Types, ValuesSound
    <3>2. Reports(o, k)'[i] = Reports(o, k)[i] + Counts(cell, r)[i]
      BY <1>1, <1>2, <1>4, <3>1, ReportsRecord
    <3>3. r = IF prev # None /\ Less(cell, prev, current) THEN Minus(cell, current, prev) ELSE current
      BY Zenon DEF Recorded
    <3>4. prev # None => Sound(kind, cell, prev)
      BY <1>2 DEF Types, ValuesSound
    <3>5. CASE prev # None /\ Less(cell, prev, current)
      <4>1. /\ Counts(cell, r)[i] <= Counts(cell, current)[i]
            /\ Counts(cell, prev)[i] <= Counts(cell, current)[i] =>
                  Counts(cell, r)[i] = Counts(cell, current)[i] - Counts(cell, prev)[i]
            /\ Counts(cell, prev)[i] \in Nat
        <5>1. \A v : Sound(kind, cell, v) => Counts(cell, v)[i] \in Nat
          BY <1>1, <1>2, InMapIs
        <5> HIDE DEF prev, current, r
        <5> QED
          <6>1. /\ Counts(cell, Minus(cell, current, prev))[i] <= Counts(cell, current)[i]
                /\ Counts(cell, prev)[i] <= Counts(cell, current)[i] =>
                      Counts(cell, Minus(cell, current, prev))[i]
                         = Counts(cell, current)[i] - Counts(cell, prev)[i]
            BY <1>1, <1>2, <3>4, <3>5, MinusCounts
          <6>2. Counts(cell, prev)[i] \in Nat
            <7>1. Sound(kind, cell, prev)
              BY <3>4, <3>5, Zenon
            <7> QED
              BY <5>1, <7>1, Zenon
          <6> QED
            BY <1>1, <3>3, <3>5, <6>1, <6>2
      <4>2. CASE NoneReported(o, k)
        <5>1. Reports(o, k)[i] + InMap(k)[i] <= Added(k)[i]
          BY <4>2 DEF NoneReported
        <5> QED
          BY <1>5, <3>2, <4>1, <5>1
      <4>3. CASE VisitedReported(o, k)
        <5>1. /\ Counts(cell, prev)[i] <= Counts(cell, current)[i]
              /\ Reports(o, k)[i] + Counts(cell, current)[i] - Counts(cell, prev)[i] <= Added(k)[i]
          BY <1>3, <4>3 DEF VisitedReported
        <5> QED
          BY <1>5, <3>2, <4>1, <5>1
      <4> QED
        BY <1>6, <4>2, <4>3
    <3>6. CASE ~(prev # None /\ Less(cell, prev, current))
      <4>1. ~VisitedReported(o, k)
        BY <1>3, <2>2, <3>6 DEF VisitedReported
      <4>2. Reports(o, k)[i] + InMap(k)[i] <= Added(k)[i]
        BY <1>6, <4>1 DEF NoneReported
      <4> QED
        BY <1>5, <3>2, <3>3, <3>6, <4>2
    <3> QED
      BY <3>5, <3>6
  <2> QED
    BY <2>1, <2>2
<1>8. VisitedReported(o, k)'
  <2>1. bucket'[k] = b /\ value'[b] = current /\ current # None
    BY <1>2, <1>3, <1>4, Constants
  <2> HIDE DEF k, b, current, r, prev
  <2>2. ASSUME NEW i \in 1 .. Width
        PROVE  /\ Counts(cell, current)[i] <= Counts(cell, current)[i]
               /\ Reports(o, k)'[i] + Counts(cell, current)[i] - Counts(cell, current)[i] <= Added(k)'[i]
    BY <1>5, <1>7
  <2> QED
    BY <1>1, <1>3, <1>4, <2>1, <2>2 DEF VisitedReported
<1> QED
  BY <1>8 DEF Accounts

\* A destructive observer has what was in the bucket it reads, and each once.
LEMMA AccountsRead ==
    ASSUME Types, Clocks, Named, [Next]_vars, NEW o \in Observers, Accumulating(o), Mode[o] = "Destructive",
           NEW e \in todo[o], Reads(o, e), Accounts(o, e[1])
    PROVE  Accounts(o, e[1])'
<1> DEFINE k == e[1]
           b == e[2]
           v == value[b]
<1>1. /\ cell' = cell /\ kind' = kind /\ Width' = Width /\ cell \in Cells /\ kind # "Gauge" /\ world' = world
  BY AddedStep, AccumulatingIs
<1>2. /\ k \in Keys /\ b \in Updates /\ e = <<k, b>> /\ Sound(kind, cell, v)
  BY RecordedSound
<1>3. /\ UNCHANGED <<bucket, value, exported>>
      /\ todo'[o] = todo[o] \ {e}
      /\ \/ UNCHANGED series
         \/ Record(o, k, v)
  BY DEF Reads, source, outcome, Types, Typed
<1>4. \A f \in todo'[o] : f[1] # k
  BY <1>3 DEF Clocks, Clock, PollTimes
<1>5. NoneReported(o, k) /\ UnreadNotReported(o, k)
  BY DEF Accounts
<1>6. ASSUME NEW i \in 1 .. Width
      PROVE  Reports(o, k)'[i] + InMap(k)'[i] <= Added(k)'[i]
  <2>1. /\ Reports(o, k)[i] \in Int /\ Added(k)[i] \in Nat /\ Added(k)'[i] \in Int
        /\ Added(k)[i] <= Added(k)'[i] /\ InMap(k)[i] \in Nat /\ Counts(cell, v)[i] \in Nat
    BY <1>1, <1>2, ReportsType, AddedUp, InMapIs
  <2>2. InMap(k)' = InMap(k)
    BY <1>1, <1>3 DEF InMap, Zero
  <2>3. Reports(o, k)[i] + InMap(k)[i] + Counts(cell, v)[i] <= Added(k)[i]
    BY <1>2, <1>5 DEF UnreadNotReported
  <2>4. Reports(o, k)'[i] = Reports(o, k)[i] \/ Reports(o, k)'[i] = Reports(o, k)[i] + Counts(cell, v)[i]
    <3>1. CASE UNCHANGED series
      BY <1>1, <1>2, <1>3, <3>1, ReportsStay
    <3>2. CASE Record(o, k, v)
      <4>1. Grows(o, k, v)
        BY <1>2, <3>2, RecordTypes DEF Types, ValuesSound
      <4> QED
        BY <1>1, <1>2, <1>3, <4>1, ReportsRecord
    <3> QED
      BY <1>3, <3>1, <3>2
  <2> QED
    BY <2>1, <2>2, <2>3, <2>4
<1>7. NoneReported(o, k)'
  BY <1>1, <1>6 DEF NoneReported
<1>8. UnreadNotReported(o, k)'
  BY <1>4 DEF UnreadNotReported
<1> QED
  BY <1>7, <1>8 DEF Accounts

\* An export keeps what is reported, or forgets what it could not convert.
LEMMA AccountsExport ==
    ASSUME TextsTell, Types, Named, [Next]_vars, NEW o \in Observers, Accumulating(o), NEW k \in Keys,
           Accounts(o, k), Export(o)
    PROVE  Accounts(o, k)'
<1>1. /\ kind # "Gauge" /\ world' = world
      /\ UNCHANGED <<bucket, value, last_values, todo>>
      /\ series'[o] = NoSeries
  BY AddedStep, AccumulatingIs DEF Export, source, progress, Types, Typed
<1>2. \/ into_wire(o).is = "Some" /\ exported'[o] = Append(exported[o], into_wire(o).metric)
      \/ exported'[o] = exported[o]
  <2>1. into_wire(o).is \in {"Err", "Some"}
    BY TheCell, Converted DEF Export, Types, Typed, ValuesSound
  <2> QED
    BY <2>1 DEF Export, Deliver, Types, Typed
<1>3. ASSUME NEW i \in 1 .. Width
      PROVE  Reports(o, k)'[i] \in Int /\ Reports(o, k)'[i] <= Reports(o, k)[i]
  <2>1. /\ Out(o, k)[i] \in Int /\ PendingCounts(o, k)[i] \in Nat
        /\ Reports(o, k)[i] = Out(o, k)[i] + PendingCounts(o, k)[i]
    BY <1>1, ReportsType
  <2>2. Reports(o, k)'[i] = Reports(o, k)[i] \/ Reports(o, k)'[i] = Out(o, k)[i]
    BY <1>1, <1>2, ReportsExport
  <2> QED
    BY <2>1, <2>2
<1> QED
  BY <1>1, <1>3, AccountsStay

\* A reset starts from what was added, whatever was read of it.
LEMMA AccountsReset ==
    ASSUME TextsTell, Types, Clocks, Named, ValuesBounded, [Next]_vars, NEW o \in Observers,
           Accumulating(o), NEW k \in Keys, Reset(o)
    PROVE  Accounts(o, k)'
<1>1. /\ cell' = cell /\ kind' = kind /\ Width' = Width /\ cell \in Cells /\ kind # "Gauge" /\ world' = world
      /\ Mode[o] \in {"Delta", "Destructive"}
  BY AddedStep, AccumulatingIs
<1>2. /\ UNCHANGED <<bucket, value, todo>> /\ opc[o] = "idle"
      /\ series'[o] = NoSeries /\ exported'[o] = <<>>
  BY DEF Reset, source, progress, Types, Typed
<1>3. todo'[o] = {}
  BY <1>2 DEF Clocks, Clock, PollTimes
<1>4. ASSUME NEW i \in 1 .. Width
      PROVE  Reports(o, k)'[i] + InMap(k)'[i] <= Added(k)'[i]
  <2>1. Reports(o, k)'[i] = 0
    BY <1>1, <1>2, ReportsExport
  <2>2. InMap(k)' = InMap(k)
    BY <1>1, <1>2 DEF InMap, Zero
  <2>3. InMap(k)[i] \in Nat /\ InMap(k)[i] <= Added(k)[i] /\ Added(k)[i] \in Nat
    <3>1. bucket[k] # None => Key[bucket[k]] = k
      BY DEF Named
    <3>2. bucket[k] # None => Counts(cell, value[bucket[k]])[i] <= Added(k)[i]
      BY <1>1, <3>1, InMapIs DEF ValuesBounded, Leq
    <3> QED
      BY <1>1, <3>2, InMapIs
  <2>4. Added(k)'[i] \in Int /\ Added(k)[i] <= Added(k)'[i]
    BY AddedUp
  <2> QED
    BY <2>1, <2>2, <2>3, <2>4
<1>5. NoneReported(o, k)'
  BY <1>1, <1>4 DEF NoneReported
<1>6. UnreadNotReported(o, k)'
  BY <1>3 DEF UnreadNotReported
<1> QED
  BY <1>5, <1>6 DEF Accounts

\* Nothing o reports, or reads, of k changes.
LEMMA AccountsQuiet ==
    ASSUME Types, Named, [Next]_vars, NEW o \in Observers, Accumulating(o), NEW k \in Keys, Accounts(o, k),
           series'[o][k] = series[o][k], exported'[o] = exported[o], value' = value,
           bucket'[k] = bucket[k] \/ (bucket[k] = None /\ bucket'[k] \in Updates
                                      /\ value[bucket'[k]] = Initial(cell)),
           last_values'[o][k] = last_values[o][k],
           Mode[o] = "Destructive" => \A b \in Updates : <<k, b>> \in todo'[o] => <<k, b>> \in todo[o]
    PROVE  Accounts(o, k)'
<1>1. Reports(o, k)' = Reports(o, k)
  BY AddedStep, ReportsStay
<1>2. \A i \in 1 .. Width : Reports(o, k)'[i] \in Int /\ Reports(o, k)'[i] <= Reports(o, k)[i]
  BY <1>1, ReportsType
<1> QED
  BY <1>2, AccountsStay

\* A call of the application.
LEMMA AccountsCall ==
    ASSUME Types, Named, [Next]_vars, NEW o \in Observers, Accumulating(o), NEW k \in Keys, Accounts(o, k),
           NEW u \in Updates,
           \/ GetOrCreate(u) \/ LookupDup(u) \/ insert_dup(u)
             \/ Clear(u) \/ Set(u) \/ FetchAdd(u) \/ LoadBits(u)
           \/ CompareExchange(u) \/ CompareExchangeFails(u)
    PROVE  Accounts(o, k)'
<1>1. CASE GetOrCreate(u)
  <2>1. UNCHANGED <<value, todo, last_values, series, exported>> /\ upc[u] = "called"
    BY <1>1 DEF GetOrCreate, progress, observer, outcome
  <2>2. bucket' = [bucket EXCEPT ![Key[u]] = IF bucket[Key[u]] = None THEN u ELSE bucket[Key[u]]]
    BY <1>1 DEF GetOrCreate
  <2>3. bucket'[k] = bucket[k] \/ (bucket[k] = None /\ bucket'[k] = u)
    BY <2>2 DEF Types, Typed
  <2>4. value[u] = Initial(cell)
    BY <2>1 DEF Named
  <2> QED
    BY <2>1, <2>3, <2>4, AccountsQuiet
<1>2. CASE Clear(u)
  BY <1>2, AccountsClear
<1>3. CASE Set(u) \/ FetchAdd(u) \/ CompareExchange(u)
  <2>1. Op[u] # "set"
    <3>1. u \in world.calls /\ kind # "Gauge" /\ world \in Worlds
      BY <1>3, AccumulatingIs DEF Set, FetchAdd, CompareExchange, Types, Typed, Called
    <3> QED
      BY <3>1, TheCell
  <2>2. upc[u] \in {"update", "exchange"} /\ Op[u] # "reset" /\ Store(u, value[ref[u]])
    BY <1>3, <2>1 DEF Set, FetchAdd, CompareExchange, Types, Called
  <2> QED
    BY <2>2, AccountsStore
<1>4. CASE LookupDup(u) \/ insert_dup(u) \/ LoadBits(u) \/ CompareExchangeFails(u)
  <2>1. UNCHANGED <<value, bucket, todo, last_values, series, exported>>
    BY <1>4 DEF LookupDup, insert_dup, LoadBits, CompareExchangeFails, source, progress, observer, outcome
  <2> QED
    BY <2>1, AccountsQuiet
<1> QED
  BY <1>1, <1>2, <1>3, <1>4

\* An observer reads an entry.
LEMMA AccountsReader ==
    ASSUME Types, Clocks, Named, [Next]_vars, NEW o \in Observers, Accumulating(o), NEW k \in Keys,
           Accounts(o, k), NEW p \in Observers, VisitBucket(p) \/ ReadBucket(p)
    PROVE  Accounts(o, k)'
<1>1. PICK e \in todo[p] : \/ Mode[p] # "Destructive" /\ Visits(p, e)
                           \/ Mode[p] = "Destructive" /\ Reads(p, e)
  BY Readers, Zenon
<1>2. /\ e[1] \in Keys /\ Sound(kind, cell, Recorded(p, e)) /\ Sound(kind, cell, value[e[2]])
      /\ Mode[o] \in {"Delta", "Destructive"}
  BY RecordedSound, AccumulatingIs
<1>3. CASE p = o /\ e[1] = k
  <2>1. CASE Mode[o] = "Destructive"
    BY <1>1, <1>3, <2>1, AccountsRead
  <2>2. CASE Mode[o] = "Delta"
    BY <1>1, <1>3, <2>2, AccountsVisited
  <2> QED
    BY <1>2, <2>1, <2>2
<1>4. CASE p # o \/ e[1] # k
  <2>1. UNCHANGED <<value, bucket, exported>> /\ todo' = [todo EXCEPT ![p] = @ \ {e}]
    BY <1>1 DEF Visits, Reads, source, outcome
  <2>2. todo'[o] \subseteq todo[o]
    BY <2>1 DEF Types, Typed
  <2>3. \/ last_values' = last_values
        \/ last_values' = [last_values EXCEPT ![p][e[1]] = value[e[2]]]
    BY <1>1 DEF Visits, Reads
  <2>4. last_values'[o][k] = last_values[o][k]
    <3>1. CASE last_values' = last_values
      BY <3>1
    <3>2. CASE last_values' = [last_values EXCEPT ![p][e[1]] = value[e[2]]]
      BY <1>2, <1>4, <3>2 DEF Types, Typed
    <3> QED
      BY <2>3, <3>1, <3>2
  <2>5. series' = series \/ Record(p, e[1], Recorded(p, e)) \/ Record(p, e[1], value[e[2]])
    BY <1>1 DEF Visits, Reads
  <2>6. series'[o][k] = series[o][k]
    <3>1. CASE series' = series
      BY <3>1
    <3>2. ASSUME NEW v, Sound(kind, cell, v), Record(p, e[1], v)
          PROVE  series'[o][k] = series[o][k]
      <4>1. Grows(p, e[1], v)
        BY <1>2, <3>2, RecordTypes DEF Types, ValuesSound
      <4> QED
        BY <1>4, <4>1 DEF Grows
    <3> QED
      BY <1>2, <2>5, <3>1, <3>2
  <2> QED
    BY <2>1, <2>2, <2>4, <2>6, AccountsQuiet
<1> QED
  BY <1>3, <1>4

\* What an observer does else.
LEMMA AccountsOther ==
    ASSUME TextsTell, Types, Clocks, Named, ValuesBounded, [Next]_vars, NEW o \in Observers,
           Accumulating(o), NEW k \in Keys, Accounts(o, k), NEW p \in Observers,
           BeginVisit(p) \/ BeginTake(p) \/ EndObserve(p) \/ Export(p) \/ Reset(p)
    PROVE  Accounts(o, k)'
<1>1. CASE BeginVisit(p)
  <2>1. UNCHANGED <<value, bucket, last_values, series, exported>> /\ Mode[p] # "Destructive"
        /\ todo' = [todo EXCEPT ![p] = Live]
    BY <1>1 DEF BeginVisit, Begin, source, observer, outcome
  <2>2. Mode[o] = "Destructive" => todo'[o] = todo[o]
    BY <2>1 DEF Types, Typed
  <2> QED
    BY <2>1, <2>2, AccountsQuiet
<1>2. CASE BeginTake(p)
  BY <1>2, AccountsTake
<1>3. CASE EndObserve(p)
  <2>1. UNCHANGED <<value, bucket, todo, last_values, series, exported>>
    BY <1>3 DEF EndObserve, source, outcome
  <2> QED
    BY <2>1, AccountsQuiet
<1>4. CASE Export(p)
  <2>1. CASE p = o
    BY <1>4, <2>1, AccountsExport
  <2>2. CASE p # o
    <3>1. UNCHANGED <<value, bucket, todo, last_values>> /\ series' = [series EXCEPT ![p] = NoSeries]
          /\ Deliver(p, into_wire(p))
      BY <1>4 DEF Export, source, progress
    <3>2. series'[o] = series[o] /\ exported'[o] = exported[o]
      BY <2>2, <3>1 DEF Deliver, Types, Typed
    <3> QED
      BY <3>1, <3>2, AccountsQuiet
  <2> QED
    BY <2>1, <2>2
<1>5. CASE Reset(p)
  <2>1. CASE p = o
    BY <1>5, <2>1, AccountsReset
  <2>2. CASE p # o
    <3>1. UNCHANGED <<value, bucket, todo>> /\ series' = [series EXCEPT ![p] = NoSeries]
          /\ exported' = [exported EXCEPT ![p] = <<>>]
          /\ last_values' = [last_values EXCEPT ![p] = [l \in Keys |-> None]]
      BY <1>5 DEF Reset, source, progress
    <3>2. series'[o] = series[o] /\ exported'[o] = exported[o] /\ last_values'[o] = last_values[o]
      BY <2>2, <3>1 DEF Types, Typed
    <3> QED
      BY <3>1, <3>2, AccountsQuiet
  <2> QED
    BY <2>1, <2>2
<1> QED
  BY <1>1, <1>2, <1>3, <1>4, <1>5

LEMMA AccountedStep ==
    ASSUME TextsTell, Types, Clocks, Named, ValuesBounded, Accounted, [Next]_vars
    PROVE  Accounted'
<1>1. world' = world
  BY AddedStep
<1>2. ASSUME NEW o \in Observers, NEW k \in Keys, Accumulating(o)'
      PROVE  Accounts(o, k)'
  <2>1. Accumulating(o)
    BY <1>1, <1>2 DEF Accumulating, cell, kind
  <2>2. Accounts(o, k)
    BY <2>1 DEF Accounted
  <2>3. CASE UNCHANGED vars
    <3>1. UNCHANGED <<value, bucket, todo, last_values, series, exported>>
      BY <2>3 DEF vars, source, progress, observer, outcome
    <3> QED
      BY <2>1, <2>2, <3>1, AccountsQuiet
  <2>4. CASE Next
    BY <2>1, <2>2, <2>4, AccountsCall, AccountsReader, AccountsOther DEF Next
  <2> QED
    BY <2>3, <2>4
<1> QED
  BY <1>2 DEF Accounted

LEMMA AccountedInitial ==
    ASSUME Init
    PROVE  Accounted
<1>1. Types
  BY TypesInitial
<1>2. ASSUME NEW o \in Observers, NEW k \in Keys, Accumulating(o)
      PROVE  Accounts(o, k)
  <2>1. exported[o] = <<>> /\ series[o] = NoSeries /\ todo[o] = {} /\ bucket[k] = None
    BY DEF Init
  <2>2. \A i \in 1 .. Width : Out(o, k)[i] = 0
    BY <2>1, TotalOfNone DEF Out
  <2>3. \A i \in 1 .. Width : PendingCounts(o, k)[i] = 0
    <3>1. cell \in Cells /\ PendingCounts(o, k) = CountsIn(NoSeries, k)
      BY <1>1, <1>2, <2>1, AccumulatingIs DEF PendingCounts, CountsIn
    <3> DEFINE f(i) == [n \in DOMAIN NoSeries[k] |-> Counts(cell, NoSeries[k][n].value)[i]]
    <3>2. \A i \in 1 .. Width : CountsIn(NoSeries, k)[i] = SumOf(f(i), DOMAIN NoSeries[k])
      BY <3>1, NoSeriesIs, PendingIs
    <3>3. DOMAIN NoSeries[k] = {}
      BY NoSeriesIs
    <3> HIDE DEF f
    <3> QED
      BY <3>1, <3>2, <3>3, SumEmpty
  <2>4. \A i \in 1 .. Width : Reports(o, k)[i] = 0
    BY <1>1, <2>2, <2>3, ReportsType
  <2>5. \A i \in 1 .. Width : InMap(k)[i] = 0 /\ Added(k)[i] \in Nat
    BY <1>1, <1>2, <2>1, AccumulatingIs, InMapIs
  <2>6. NoneReported(o, k)
    BY <2>4, <2>5 DEF NoneReported
  <2>7. UnreadNotReported(o, k)
    BY <2>1 DEF UnreadNotReported
  <2> QED
    BY <2>6, <2>7 DEF Accounts
<1> QED
  BY <1>2 DEF Accounted

\* The metrics exported of a metric's series are marked as its observer's mode says.
LEMMA MarkedStep ==
    ASSUME Types, Marked, [Next]_vars
    PROVE  Marked'
<1>1. world' = world
  BY AddedStep
<1>2. \A o \in Observers : Accumulating(o)' <=> Accumulating(o)
  BY <1>1 DEF Accumulating, cell, kind
<1>3. ASSUME NEW o \in Observers, NEW j \in DOMAIN exported'[o]
      PROVE  Accumulates(o, exported'[o][j]) <=> Accumulating(o)
  <2>1. PICK S : exported[o] \in Seq(S)
    BY DEF Types, Typed
  <2>2. CASE exported'[o] = exported[o]
    BY <1>3, <2>2 DEF Marked
  <2>3. CASE exported'[o] = <<>>
    BY <1>3, <2>3
  <2>4. CASE into_wire(o).is = "Some" /\ exported'[o] = Append(exported[o], into_wire(o).metric)
    <3> DEFINE m == into_wire(o).metric
    <3>1. Accumulates(o, m) <=> Accumulating(o)
      BY <2>4, TheCell, Converted DEF Types, Typed, ValuesSound, Accumulating
    <3>2. exported'[o] = Append(exported[o], m)
      BY <2>4
    <3> HIDE DEF m
    <3>3. exported'[o][j] = m \/ (j \in DOMAIN exported[o] /\ exported'[o][j] = exported[o][j])
      BY <1>3, <2>1, <3>2
    <3> QED
      BY <3>1, <3>3 DEF Marked
  <2>5. \/ exported' = exported
        \/ \E p \in Observers :
              /\ Export(p) \/ Reset(p)
              /\ \/ exported' = exported
                 \/ exported' = [exported EXCEPT ![p] = <<>>]
                 \/ /\ series[p] # NoSeries /\ into_wire(p).is # "Err"
                    /\ exported' = [exported EXCEPT ![p] = Append(@, into_wire(p).metric)]
    BY DEF Next, vars, outcome, GetOrCreate, LookupDup, insert_dup, Clear, Set, FetchAdd, LoadBits, CompareExchange,
           CompareExchangeFails, Store, BeginVisit, BeginTake, VisitBucket, ReadBucket, EndObserve,
           Export, Reset, Deliver
  <2>6. \A p \in Observers : series[p] # NoSeries /\ into_wire(p).is # "Err" => into_wire(p).is = "Some"
    BY TheCell, Converted DEF Types, Typed, ValuesSound
  <2>7. exported'[o] = exported[o] \/ exported'[o] = <<>>
        \/ (into_wire(o).is = "Some" /\ exported'[o] = Append(exported[o], into_wire(o).metric))
    BY SMTT(20), <2>5, <2>6 DEF Types, Typed
  <2> QED
    BY <2>2, <2>3, <2>4, <2>7
<1> QED
  BY <1>2, <1>3 DEF Marked, Accumulates

LEMMA PiecesMarked ==
    ASSUME Types, Marked, NEW o \in Observers, NEW i \in DOMAIN Pieces(o)
    PROVE  Accumulates(o, Pieces(o)[i]) <=> Accumulating(o)
<1>1. CASE i \in DOMAIN exported[o] /\ Pieces(o)[i] = exported[o][i]
  BY <1>1 DEF Marked
<1>2. CASE into_wire(o).is = "Some" /\ Pieces(o)[i] = into_wire(o).metric
  <2>1. Accumulates(o, into_wire(o).metric) <=> Accumulating(o)
    BY <1>2, TheCell, Converted DEF Types, Typed, ValuesSound, Accumulating
  <2> QED
    BY <1>2, <2>1
<1> QED
  BY <1>1, <1>2, PiecesAre

\* No point counts more than was added.
LEMMA PiecesBounded ==
    ASSUME Types, Bounded, NEW o \in Observers, NEW i \in DOMAIN Pieces(o),
           NEW e \in DOMAIN Pieces(o)[i].data_points
    PROVE  /\ e[1] \in Keys
           /\ PointCounts(o, Pieces(o)[i].data_points[e]) \in Vectors
           /\ Leq(PointCounts(o, Pieces(o)[i].data_points[e]), Added(e[1]))
<1>1. IsMetric(o, Pieces(o)[i])
  BY PiecesAre
<1>2. e[1] \in Keys /\ PointCounts(o, Pieces(o)[i].data_points[e]) \in Vectors
  BY <1>1 DEF IsMetric, Place
<1>3. CASE i \in DOMAIN exported[o] /\ Pieces(o)[i] = exported[o][i]
  BY <1>2, <1>3 DEF Bounded, PointsBounded
<1>4. CASE into_wire(o).is = "Some" /\ Pieces(o)[i] = into_wire(o).metric
  <2> DEFINE m == into_wire(o).metric
             s == series[o][e[1]][e[2]]
  <2>1. cell \in Cells /\ kind \in Kinds /\ IsSeries(series[o])
    BY TheCell DEF Types, Typed, ValuesSound
  <2>2. /\ DOMAIN m.data_points = PlacesIn(series[o])
        /\ \A d \in PlacesIn(series[o]) : PointOf(o, series[o], start_time[o], d, m.data_points[d])
    BY <1>4, <2>1, Converted
  <2>3. e \in PlacesIn(series[o])
    BY <1>4, <2>2
  <2>4. PointCounts(o, m.data_points[e]) = Counts(cell, s.value)
    BY <2>2, <2>3 DEF PointOf
  <2>5. e[2] \in DOMAIN series[o][e[1]]
    BY <2>1, <2>3 DEF PlacesIn, IsSeries
  <2>6. Leq(Counts(cell, s.value), Added(e[1]))
    BY <1>2, <2>5 DEF Bounded, SeriesBounded
  <2> QED
    BY <1>2, <1>4, <2>4, <2>6
<1> QED
  BY <1>3, <1>4, PiecesAre

\* Nor does a reading of key k, which is of a point of k.
LEMMA ReadingsBounded ==
    ASSUME TextsTell, Types, Bounded, NEW o \in Observers, NEW k \in Keys,
           NEW j \in DOMAIN Pieces(o), NEW x \in DOMAIN ReadMetric(o, Pieces(o)[j], k)
    PROVE  LET r == ReadMetric(o, Pieces(o)[j], k)
           IN  /\ IsFiniteSet(DOMAIN r)
               /\ r[x].at \in Int
               /\ Leq(r[x].counts, Added(k))
<1> DEFINE m == Pieces(o)[j]
           r == ReadMetric(o, m, k)
           P == PlacesOf(o, m, k)
<1>1. IsMetric(o, m)
  BY PiecesAre
<1>2. \A e \in DOMAIN m.data_points :
         /\ e[1] \in Keys /\ m.data_points[e].time \in Int
         /\ Leq(PointCounts(o, m.data_points[e]), Added(e[1]))
  BY <1>1, PiecesBounded DEF IsMetric
<1> HIDE DEF m
<1>3. IsFiniteSet(DOMAIN r)
  BY <1>1, ReadingsSum
<1>4. PICK h \in Bijection(P, DOMAIN r) :
         \A e \in P : /\ r[h[e]].counts = PointCounts(o, m.data_points[e])
                      /\ r[h[e]].at = IF Sink[o] = "otel" THEN m.data_points[e].time ELSE Rank(m, e)
  BY <1>1, Readings
<1>5. PICK e \in P : h[e] = x
  <2>1. x \in DOMAIN r
    BY DEF m
  <2> HIDE DEF r, P
  <2> QED
    BY <1>4, <2>1 DEF Bijection, Surjection
<1>6. e \in DOMAIN m.data_points /\ Alike(o, k, e[1])
  BY DEF PlacesOf
<1>7. e[1] = k
  BY <1>2, <1>6, AlikeSame
<1>8. Leq(r[x].counts, Added(k))
  BY <1>2, <1>4, <1>5, <1>6, <1>7
<1>9. r[x].at \in Int
  <2>1. CASE Sink[o] = "otel"
    BY <1>2, <1>4, <1>5, <1>6, <2>1
  <2>2. CASE Sink[o] # "otel"
    <3>1. Rank(m, e) \in 1 .. Cardinality(DOMAIN m.data_points)
      BY <1>1, <1>6, <2>2, PointsOrdered
    <3>2. Rank(m, e) \in Int
      BY <3>1
    <3> QED
      BY <1>4, <1>5, <2>2, <3>2
  <2> QED
    BY <2>1, <2>2
<1> QED
  BY <1>3, <1>8, <1>9 DEF m

\* What is added up is what has been accounted for.
LEMMA TotalReports ==
    ASSUME TextsTell, Types, NEW o \in Observers, Accumulating(o), NEW k \in Keys, NEW i \in 1 .. Width
    PROVE  /\ Total(ReadAll(o, Pieces(o), k))[i] <= Reports(o, k)[i]
           /\ into_wire(o).is # "Err" => Total(ReadAll(o, Pieces(o), k))[i] = Reports(o, k)[i]
<1> DEFINE m == into_wire(o).metric
<1>1. /\ Out(o, k)[i] \in Int /\ PendingCounts(o, k)[i] \in Nat
      /\ Reports(o, k)[i] = Out(o, k)[i] + PendingCounts(o, k)[i]
  BY AccumulatingIs, ReportsType
<1>2. CASE into_wire(o).is = "Some"
  <2>1. PICK S : exported[o] \in Seq(S)
    BY DEF Types, Typed
  <2>2. IsMetric(o, m) /\ \A j \in DOMAIN exported[o] : IsMetric(o, exported[o][j])
    BY <1>2, PiecesAreMetrics DEF Types, Metrics
  <2>3. MetricCounts(o, m, k)[i] = PendingCounts(o, k)[i]
    BY <1>2, MetricIsPending
  <2>4. Pieces(o) = Append(exported[o], m)
    BY <1>2 DEF Pieces
  <2> HIDE DEF m
  <2>5. Total(ReadAll(o, Pieces(o), k))[i] = Out(o, k)[i] + MetricCounts(o, m, k)[i]
    BY <2>1, <2>2, <2>4, TotalAppend DEF Out
  <2> QED
    BY <1>1, <2>3, <2>5
<1>3. CASE into_wire(o).is # "Some"
  <2>1. Total(ReadAll(o, Pieces(o), k))[i] = Out(o, k)[i]
    BY <1>3 DEF Pieces, Out
  <2>2. into_wire(o).is # "Err" => PendingCounts(o, k)[i] = 0
    <3> SUFFICES ASSUME into_wire(o).is # "Err"
                 PROVE  PendingCounts(o, k)[i] = 0
      OBVIOUS
    <3>1. cell \in Cells /\ kind \in Kinds /\ IsSeries(series[o])
      BY AccumulatingIs, TheCell DEF Types, Typed, ValuesSound
    <3>2. series[o] = NoSeries
      BY <1>3, <3>1, Converted
    <3>3. PendingCounts(o, k)[i] = SumOf([n \in DOMAIN series[o][k] |->
                                             Counts(cell, series[o][k][n].value)[i]], DOMAIN series[o][k])
      BY <3>1, PendingIs DEF PendingCounts, CountsIn
    <3>4. DOMAIN series[o][k] = {}
      BY <3>2, NoSeriesIs
    <3> QED
      BY <3>3, <3>4, SumEmpty
  <2> QED
    BY <1>1, <2>1, <2>2
<1> QED
  BY <1>2, <1>3

\* The last reading is one of them.
LEMMA LatestBounded ==
    ASSUME TextsTell, Types, Bounded, NEW o \in Observers, NEW k \in Keys,
           \E j \in DOMAIN ReadAll(o, Pieces(o), k) : DOMAIN ReadAll(o, Pieces(o), k)[j] # {}
    PROVE  Leq(Latest(ReadAll(o, Pieces(o), k)), Added(k))
<1> DEFINE readings == ReadAll(o, Pieces(o), k)
           N == {j \in DOMAIN readings : DOMAIN readings[j] # {}}
           last == readings[Max(N)]
           D == DOMAIN last
           x == CHOOSE e \in D : \A d \in D : last[d].at <= last[e].at
<1>1. PICK S : Pieces(o) \in Seq(S)
  BY PiecesAre
<1>2. /\ DOMAIN readings = 1 .. Len(Pieces(o)) /\ Len(Pieces(o)) \in Nat
      /\ DOMAIN readings = DOMAIN Pieces(o)
      /\ \A j \in DOMAIN readings : readings[j] = ReadMetric(o, Pieces(o)[j], k)
  BY <1>1 DEF ReadAll
<1>3. Max(N) \in N
  <2>1. IsFiniteSet(N) /\ N # {} /\ N \subseteq Int
    <3>1. IsFiniteSet(1 .. Len(Pieces(o)))
      BY <1>2, FirstNumbers
    <3> QED
      BY <1>2, <3>1, FS_Subset
  <2> HIDE DEF N
  <2> QED
    BY <2>1, MaxIs
<1> DEFINE j == Max(N)
<1>4. j \in DOMAIN Pieces(o) /\ last = ReadMetric(o, Pieces(o)[j], k) /\ D # {}
  BY <1>2, <1>3
<1>5. IsFiniteSet(D) /\ \A d \in D : last[d].at \in Int /\ Leq(last[d].counts, Added(k))
  BY <1>4, ReadingsBounded
<1>6. Latest(readings) = last[x].counts
  BY DEF Latest
<1> HIDE DEF readings, N, last, j
<1>7. x \in D
  <2> DEFINE f == [d \in D |-> last[d].at]
  <2>1. \A d \in D : f[d] \in Int
    BY <1>5
  <2>2. IsFiniteSet(D) /\ D # {}
    BY <1>4, <1>5
  <2> HIDE DEF f, D
  <2>3. PICK e \in D : \A d \in D : f[d] <= f[e]
    BY <2>1, <2>2, GreatestIn
  <2>4. \A d \in D : last[d].at <= last[e].at
    BY <2>3 DEF f
  <2> QED
    BY <2>4
<1> HIDE DEF x
<1>8. Leq(Latest(readings), Added(k))
  BY <1>5, <1>6, <1>7
<1> QED
  BY <1>8 DEF readings

LEMMA AccountedAlways ==
    ASSUME TextsTell
    PROVE  Safety => [](Types /\ Bounded /\ Accounted /\ Marked)
<1>1. Init => Accounted /\ Marked
  <2>1. Init => Marked
    BY DEF Init, Marked
  <2> QED
    BY <2>1, AccountedInitial
<1>2. Types /\ Clocks /\ Named /\ Watching /\ Bounded /\ Accounted /\ Marked /\ [Next]_vars
         => Accounted' /\ Marked'
  BY AccountedStep, MarkedStep DEF Bounded
<1>3. Safety => []Accounted /\ []Marked
  BY <1>1, <1>2, BoundedAlways, PTL DEF Safety
<1> QED
  BY <1>3, BoundedAlways, PTL

\* No reader counts more than was added, in total or in a bucket of a histogram,
\* however updates, resets of the metric, visits, drains, exports and resets of
\* observers follow each other, if the text of attributes, where it is what is
\* read, tells them apart (NothingInvented of Observer).
THEOREM NothingIsInvented ==
    ASSUME TextsTell
    PROVE  Safety => []NothingInvented
<1>1. Types /\ Bounded /\ Accounted /\ Marked => NothingInvented
  <2> SUFFICES ASSUME Types, Bounded, Accounted, Marked, NEW o \in world.observers, NEW k \in Keys,
                      NEW i \in 1 .. Width
               PROVE  Reported(o, k)[i] <= Added(k)[i]
    BY DEF NothingInvented
  <2>1. o \in Observers /\ world \in Worlds
    BY TheCell DEF Types, Typed
  <2> DEFINE readings == ReadAll(o, Pieces(o), k)
             Empty == \A j \in DOMAIN readings : DOMAIN readings[j] = {}
  <2>2. CASE Empty
    <3>1. Reported(o, k) = Zero
      BY <2>2 DEF Reported
    <3>2. Added(k)[i] \in Nat
      BY <2>1, AddedNat DEF Types, Typed
    <3> QED
      BY <3>1, <3>2 DEF Zero
  <2>3. CASE ~Empty
    <3>1. Reported(o, k) = IF Accumulates(o, Pieces(o)[1]) THEN Total(readings) ELSE Latest(readings)
      BY <2>3 DEF Reported
    <3>2. CASE Accumulates(o, Pieces(o)[1])
      <4>1. 1 \in DOMAIN Pieces(o)
        <5>1. PICK S : Pieces(o) \in Seq(S)
          BY <2>1, PiecesAre
        <5>2. DOMAIN readings = 1 .. Len(Pieces(o)) /\ Len(Pieces(o)) \in Nat /\ DOMAIN readings # {}
          BY <2>3, <5>1 DEF ReadAll
        <5> QED
          BY <5>1, <5>2
      <4>2. Accumulating(o)
        BY <2>1, <3>2, <4>1, PiecesMarked
      <4>3. Total(readings)[i] <= Reports(o, k)[i]
        BY <2>1, <4>2, TotalReports
      <4>4. Accounts(o, k)
        BY <2>1, <4>2 DEF Accounted
      <4>5. Reports(o, k)[i] <= Added(k)[i] /\ Reports(o, k)[i] \in Int /\ Added(k)[i] \in Int
        <5>1. Reports(o, k)[i] <= Added(k)[i]
          BY <2>1, <4>2, <4>4, ReportedAdded
        <5>2. Reports(o, k)[i] \in Int
          BY <2>1, ReportsType
        <5>3. Added(k)[i] \in Nat
          BY <2>1, AddedNat DEF Types, Typed
        <5> QED
          BY <5>1, <5>2, <5>3
      <4>6. Total(readings)[i] \in Int
        <5>1. PICK S : Pieces(o) \in Seq(S)
          BY <2>1, PiecesAre
        <5>2. Total(readings) \in Vectors
          BY <2>1, <5>1, PiecesAre, TotalIs
        <5> QED
          BY <5>2 DEF Vectors
      <4> QED
        BY <3>1, <3>2, <4>3, <4>5, <4>6
    <3>3. CASE ~Accumulates(o, Pieces(o)[1])
      <4>1. Leq(Latest(readings), Added(k))
        BY <2>1, <2>3, LatestBounded
      <4> QED
        BY <3>1, <3>3, <4>1 DEF Leq
    <3> QED
      BY <3>2, <3>3
  <2> QED
    BY <2>2, <2>3
<1> QED
  BY <1>1, AccountedAlways, PTL

-----------------------------------------------------------------------------
(* The text                                                                *)

\* The point of a line.
PointAt(m, n) == m.data_points[LineOf(m, n)]

LEMMA DayFacts ==
    /\ DayLength \in Nat \ {0} /\ NoTime \notin Int /\ Blank \notin Int \cup {NoTime}
    /\ \A t \in Int : render_time(t) # Blank
    /\ \A t \in Int : render_time(t) # NoTime => render_time(t) = t % DayLength
    /\ \A s, t \in Int : s <= t /\ s \div DayLength = t \div DayLength => s % DayLength <= t % DayLength
<1>1. DayLength \in Nat \ {0} /\ NoTime \notin Int /\ Blank \notin Int \cup {NoTime}
  BY WireAssumption
<1>2. \A t \in Int : t % DayLength \in Int /\ t = DayLength * (t \div DayLength) + (t % DayLength)
  BY <1>1
<1>3. \A s, t \in Int : s <= t /\ s \div DayLength = t \div DayLength => s % DayLength <= t % DayLength
  <2> SUFFICES ASSUME NEW s \in Int, NEW t \in Int, s <= t, s \div DayLength = t \div DayLength
               PROVE  s % DayLength <= t % DayLength
    OBVIOUS
  <2> DEFINE x == DayLength * (t \div DayLength)
  <2>1. x \in Int /\ s = x + (s % DayLength) /\ t = x + (t % DayLength)
    BY <1>1, <1>2
  <2> HIDE DEF x
  <2> QED
    BY <1>2, <2>1
<1>4. \A t \in Int : render_time(t) # Blank /\ (render_time(t) # NoTime => render_time(t) = t % DayLength)
  BY <1>1, <1>2 DEF render_time
<1> QED
  BY <1>1, <1>3, <1>4

\* A line shows the time of its point, or nothing if it is that of the line before.
LEMMA LinesAre ==
    ASSUME NEW o \in Observers, Sink[o] # "otel", NEW m, IsMetric(o, m)
    PROVE  LET C == Cardinality(DOMAIN m.data_points)
               lines == render(m).lines
           IN  /\ C \in Nat /\ C >= 1
               /\ DOMAIN lines = 1 .. C /\ Len(lines) = C
               /\ \A n \in 1 .. C :
                     /\ LineOf(m, n) \in DOMAIN m.data_points /\ Rank(m, LineOf(m, n)) = n
                     /\ PointAt(m, n).time \in Int
                     /\ lines[n].time_col =
                           IF n > 1 /\ PointAt(m, n - 1).time = PointAt(m, n).time THEN Blank
                           ELSE render_time(PointAt(m, n).time)
<1> DEFINE C == Cardinality(DOMAIN m.data_points)
           N == 1 .. C
           points == sorted_points(m)
           lines == render(m).lines
<1>1. C \in Nat /\ C >= 1
  BY FS_CardinalityType, FS_EmptySet DEF IsMetric
<1>2. points = [n \in N |-> m.data_points[LineOf(m, n)]]
  BY Zenon DEF sorted_points, LineOf
<1>3. DOMAIN points = N /\ \A n \in N : points[n] = PointAt(m, n)
  BY <1>2 DEF PointAt
<1> HIDE DEF points
<1>4. lines = [i \in DOMAIN points |->
            [time_col |-> IF i > 1 /\ points[i - 1].time = points[i].time THEN Blank
                          ELSE render_time(points[i].time),
             attrs_col |-> render_attrs(points[i].attributes),
             value_col |-> ValueText(points[i].value)]]
  BY DEF render, points
<1> HIDE DEF lines
<1>5. \A n \in N : lines[n].time_col = IF n > 1 /\ points[n - 1].time = points[n].time THEN Blank
                                       ELSE render_time(points[n].time)
  BY <1>3, <1>4
<1>6. \A n \in N : LineOf(m, n) \in DOMAIN m.data_points /\ Rank(m, LineOf(m, n)) = n
  BY PointsOrdered
<1>7. \A n \in N : PointAt(m, n).time \in Int
  BY <1>6 DEF IsMetric, PointAt
<1>8. DOMAIN lines = N /\ Len(lines) = C
  <2> DEFINE T == {lines[n] : n \in N}
  <2>1. DOMAIN lines = N
    BY <1>3, <1>4
  <2>2. lines = [n \in N |-> lines[n]]
    BY <1>3, <1>4
  <2>3. lines \in [N -> T]
    BY <2>2
  <2> HIDE DEF T
  <2> QED
    BY <1>1, <2>1, <2>3
<1>9. \A n \in N : lines[n].time_col =
         IF n > 1 /\ PointAt(m, n - 1).time = PointAt(m, n).time THEN Blank
         ELSE render_time(PointAt(m, n).time)
  <2> SUFFICES ASSUME NEW n \in N
               PROVE  lines[n].time_col =
                         IF n > 1 /\ PointAt(m, n - 1).time = PointAt(m, n).time THEN Blank
                         ELSE render_time(PointAt(m, n).time)
    OBVIOUS
  <2>1. n > 1 => points[n - 1] = PointAt(m, n - 1)
    BY <1>1, <1>3
  <2>2. points[n] = PointAt(m, n)
    BY <1>3
  <2> QED
    BY <1>5, <2>1, <2>2
<1> QED
  BY <1>1, <1>6, <1>7, <1>8, <1>9 DEF lines

\* Read from the top, a line has the time of its point.
LEMMA LineTimes ==
    ASSUME NEW o \in Observers, Sink[o] # "otel", NEW m, IsMetric(o, m),
           NEW n \in DOMAIN render(m).lines
    PROVE  LET lines == render(m).lines
               timed == {j \in 1 .. n : lines[j].time_col # Blank}
           IN  /\ timed # {}
               /\ lines[Max(timed)].time_col = render_time(PointAt(m, n).time)
<1> DEFINE lines == render(m).lines
           C == Cardinality(DOMAIN m.data_points)
           timed(i) == {j \in 1 .. i : lines[j].time_col # Blank}
           shown(i) == render_time(PointAt(m, i).time)
           H == {i \in Nat : i + 1 <= C => /\ timed(i + 1) # {}
                                           /\ lines[Max(timed(i + 1))].time_col = shown(i + 1)}
<1>1. /\ C \in Nat /\ C >= 1 /\ DOMAIN lines = 1 .. C
      /\ \A i \in 1 .. C :
            /\ shown(i) # Blank
            /\ lines[i].time_col = IF i > 1 /\ PointAt(m, i - 1).time = PointAt(m, i).time THEN Blank
                                   ELSE shown(i)
  BY LinesAre, DayFacts
<1> HIDE DEF lines, C
<1>2. ASSUME NEW i \in Nat, i + 1 <= C, lines[i + 1].time_col # Blank
      PROVE  timed(i + 1) # {} /\ lines[Max(timed(i + 1))].time_col = shown(i + 1)
  <2> DEFINE t == timed(i + 1)
  <2>1. i + 1 \in t
    BY <1>2
  <2>2. IsFiniteSet(t) /\ t \subseteq Int /\ \A j \in t : j <= i + 1
    BY FirstNumbers, FS_Subset
  <2> HIDE DEF t
  <2>3. Max(t) \in t /\ i + 1 <= Max(t)
    BY <2>1, <2>2, MaxIs
  <2>4. Max(t) = i + 1
    <3> DEFINE x == Max(t)
    <3>1. x \in Int /\ x <= i + 1 /\ i + 1 <= x
      BY <2>2, <2>3
    <3> HIDE DEF x
    <3>2. x = i + 1
      BY <3>1
    <3> QED
      BY <3>2 DEF x
  <2>5. i + 1 \in 1 .. C
    BY <1>1, <1>2
  <2>6. lines[i + 1].time_col = shown(i + 1)
    <3> HIDE DEF shown
    <3> QED
      BY <1>1, <1>2, <2>5
  <2> QED
    BY <2>1, <2>4, <2>6 DEF t
<1>3. 0 \in H
  <2>1. 0 + 1 \in 1 .. C /\ lines[0 + 1].time_col # Blank
    <3> HIDE DEF shown
    <3> QED
      BY <1>1
  <2> QED
    BY <1>2, <2>1
<1>4. ASSUME NEW i \in Nat, i \in H
      PROVE  i + 1 \in H
  <2> SUFFICES ASSUME (i + 1) + 1 <= C
               PROVE  /\ timed((i + 1) + 1) # {}
                      /\ lines[Max(timed((i + 1) + 1))].time_col = shown((i + 1) + 1)
    OBVIOUS
  <2>1. CASE lines[(i + 1) + 1].time_col # Blank
    BY <1>2, <2>1
  <2>2. CASE lines[(i + 1) + 1].time_col = Blank
    <3> DEFINE k == (i + 1) + 1
    <3>1. k \in 1 .. C /\ k > 1 /\ k - 1 = i + 1 /\ i + 1 <= C
      BY <1>1
    <3>2. PointAt(m, i + 1).time = PointAt(m, k).time
      <4>1. lines[k].time_col = IF k > 1 /\ PointAt(m, k - 1).time = PointAt(m, k).time THEN Blank
                                ELSE shown(k)
        BY <1>1, <3>1
      <4>2. shown(k) # Blank
        BY <1>1, <3>1
      <4> HIDE DEF shown
      <4> QED
        BY <2>2, <3>1, <4>1, <4>2
    <3>3. shown(k) = shown(i + 1)
      BY <3>2
    <3>4. timed(k) = timed(i + 1)
      BY <2>2, <3>1
    <3>5. timed(i + 1) # {} /\ lines[Max(timed(i + 1))].time_col = shown(i + 1)
      BY <1>4, <3>1
    <3> HIDE DEF timed, shown
    <3> QED
      BY <3>3, <3>4, <3>5
  <2> QED
    BY <2>1, <2>2
<1>5. Nat \subseteq H
  <2> HIDE DEF H
  <2> QED
    BY <1>3, <1>4, SetInduction
<1>6. n - 1 \in Nat /\ (n - 1) + 1 = n /\ n <= C
  BY <1>1 DEF lines
<1>7. n - 1 \in H
  BY <1>5, <1>6
<1> QED
  BY <1>6, <1>7 DEF lines

\* A text can be read from the top: whatever points share a time or a key, the
\* last time shown at or above a line is that of its point, each point has a
\* line, and within a day the times do not go back (TextReadable of Observer).
THEOREM TextIsReadable == Safety => []TextReadable
<1> SUFFICES ASSUME Types, NEW o \in Observers, Sink[o] = "console", NEW i \in DOMAIN Pieces(o)
             PROVE  LET m == Pieces(o)[i]
                        lines == render(m).lines
                        timed(n) == {j \in 1 .. n : lines[j].time_col # Blank}
                        time(n) == lines[Max(timed(n))].time_col
                        one_day == \A p, q \in Range(m.data_points) :
                                       p.time \div DayLength = q.time \div DayLength
                    IN  /\ Len(lines) = Cardinality(DOMAIN m.data_points)
                        /\ \A n \in DOMAIN lines : timed(n) # {}
                        /\ \A p \in Range(m.data_points) : \E n \in DOMAIN lines :
                              /\ time(n) = render_time(p.time)
                              /\ lines[n].attrs_col = render_attrs(p.attributes)
                              /\ lines[n].value_col = ValueText(p.value)
                        /\ one_day /\ NoTime \notin {time(n) : n \in DOMAIN lines} =>
                              \A n \in DOMAIN lines : \A j \in 1 .. n : time(j) <= time(n)
  <2>1. Types => TextReadable
    BY TheCell DEF TextReadable, Types, Typed
  <2> QED
    BY <2>1, Invariance, PTL
<1> DEFINE m == Pieces(o)[i]
           lines == render(m).lines
           timed(n) == {j \in 1 .. n : lines[j].time_col # Blank}
           time(n) == lines[Max(timed(n))].time_col
           one_day == \A p, q \in Range(m.data_points) :
                          p.time \div DayLength = q.time \div DayLength
           C == Cardinality(DOMAIN m.data_points)
<1>1. IsMetric(o, m) /\ Sink[o] # "otel"
  BY PiecesAre
<1> HIDE DEF m
<1>2. /\ C \in Nat /\ DOMAIN lines = 1 .. C /\ Len(lines) = C
      /\ \A n \in 1 .. C : /\ LineOf(m, n) \in DOMAIN m.data_points /\ Rank(m, LineOf(m, n)) = n
                           /\ PointAt(m, n).time \in Int
  BY <1>1, LinesAre
<1>3. \A n \in DOMAIN lines : timed(n) # {} /\ time(n) = render_time(PointAt(m, n).time)
  BY <1>1, LineTimes
<1>4. ASSUME NEW p \in Range(m.data_points)
      PROVE  \E n \in DOMAIN lines : /\ time(n) = render_time(p.time)
                                     /\ lines[n].attrs_col = render_attrs(p.attributes)
                                     /\ lines[n].value_col = ValueText(p.value)
  <2>1. PICK e \in DOMAIN m.data_points : p = m.data_points[e]
    BY DEF Range
  <2> DEFINE n == Rank(m, e)
  <2>2. n \in 1 .. C
    BY <1>1, PointsOrdered
  <2>3. LineOf(m, n) = e
    <3> DEFINE d == LineOf(m, n)
    <3>1. d \in DOMAIN m.data_points /\ Rank(m, d) = Rank(m, e)
      BY <1>2, <2>2
    <3> HIDE DEF d
    <3>2. d = e
      BY <1>1, <3>1, PointsOrdered
    <3> QED
      BY <3>2 DEF d
  <2>4. p.attributes = e[1] /\ PointAt(m, n) = p
    BY <1>1, <2>1, <2>3 DEF IsMetric, Label, PointAt
  <2> HIDE DEF n
  <2>5. /\ lines[n].attrs_col = render_attrs(LineOf(m, n)[1])
        /\ lines[n].value_col = ValueText(m.data_points[LineOf(m, n)].value)
    BY <1>1, <1>2, <2>2, TextLines
  <2>6. time(n) = render_time(p.time)
    <3> HIDE DEF time, timed, lines
    <3> QED
      BY <1>2, <1>3, <2>2, <2>4
  <2> HIDE DEF time, timed, lines
  <2>7. /\ n \in DOMAIN lines /\ lines[n].attrs_col = render_attrs(p.attributes)
        /\ lines[n].value_col = ValueText(p.value)
    BY <1>2, <2>1, <2>2, <2>3, <2>4, <2>5
  <2> QED
    BY <2>6, <2>7
<1>5. ASSUME one_day, NoTime \notin {time(n) : n \in DOMAIN lines},
             NEW n \in DOMAIN lines, NEW j \in 1 .. n
      PROVE  time(j) <= time(n)
  <2>1. j \in DOMAIN lines /\ j \in 1 .. C /\ n \in 1 .. C /\ j <= n
    BY <1>2
  <2> DEFINE d == LineOf(m, j)
             e == LineOf(m, n)
  <2>2. /\ d \in DOMAIN m.data_points /\ e \in DOMAIN m.data_points
        /\ Rank(m, d) = j /\ Rank(m, e) = n
        /\ PointAt(m, j).time \in Int /\ PointAt(m, n).time \in Int
    BY <1>2, <2>1
  <2>3. PointAt(m, j).time <= PointAt(m, n).time
    <3>1. CASE j = n
      BY <2>2, <3>1
    <3>2. CASE j # n
      <4>1. Precedes(m, d, e)
        <5> HIDE DEF d, e
        <5> QED
          BY <1>1, <2>1, <2>2, <3>2, PointsOrdered
      <4> QED
        BY <2>2, <4>1 DEF Precedes, PointAt
    <3> QED
      BY <3>1, <3>2
  <2>4. PointAt(m, j).time \div DayLength = PointAt(m, n).time \div DayLength
    BY <1>5, <2>2 DEF PointAt, Range
  <2>5. /\ time(j) = render_time(PointAt(m, j).time) /\ time(j) # NoTime
        /\ time(n) = render_time(PointAt(m, n).time) /\ time(n) # NoTime
    <3> HIDE DEF time, timed, lines
    <3> QED
      BY <1>3, <1>5, <2>1
  <2> HIDE DEF time, timed, lines
  <2> QED
    BY <2>2, <2>3, <2>4, <2>5, DayFacts
<1> QED
  BY <1>2, <1>3, <1>4, <1>5 DEF m

-----------------------------------------------------------------------------
(* What destructive observers report                                       *)

Drainers == {o \in world.observers : Mode[o] = "Destructive"}

\* The buckets of k in the map, or in a table taken and not yet read.
Visible(k) == {b \in Updates : bucket[k] = b \/ \E o \in Drainers : <<k, b>> \in todo[o]}

\* A metric of u64 gets fewer calls than a u64 counts.
NoWrap == \A w \in Worlds : w.cell = "AtomicU64" => Cardinality(w.calls) < Modulus

\* A bucket waits in one table.
TablesApart ==
    \A o, p \in Observers : Mode[o] = "Destructive" /\ Mode[p] = "Destructive" /\ o # p =>
        todo[o] \cap todo[p] = {}

\* An alias of f may have been inserted after the take that overlapped its call.
Late(f) == \E v \in overlapped : NeedsAlias[v] /\ Fingerprint[v] = f

Under == {"insert_dup", "update", "exchange"}

\* A call whose bucket has left the map was overlapped by the take, or an alias
\* led it there; such an alias is late.
Overtaken ==
    /\ lost \subseteq overlapped \cup misled
    /\ \A u \in lost : upc[u] = "returned"
    /\ \A u \in Updates : upc[u] \in Under /\ bucket[Key[u]] # ref[u] => u \in overlapped \cup misled
    /\ \A u \in misled : upc[u] \notin {"called", "insert_dup"} /\ Late(Fingerprint[u])
    /\ \A f \in Fingerprints :
          aliases[f] # None /\ bucket[Key[aliases[f]]] # aliases[f] => Late(f)

Counted == \A k \in Keys : Added(k)[1] = Cardinality(Applied("add", k))

\* What an observer has reported or written off, and what is still to be read.
Given(o, k) == Reports(o, k)[1] + shed[o][k]
GivenAll(k) == SumOf([o \in Drainers |-> Given(o, k)], Drainers)
Kept(k) == SumOf([b \in Visible(k) |-> Counts(cell, value[b])[1]], Visible(k))
Net(k) == Cardinality(Applied("add", k) \ lost) - Cardinality(Applied("sub", k) \ lost)

Even(k) == Net(k) = GivenAll(k) + Kept(k)
Balanced == Steady => \A k \in Keys : Even(k)

\* An add counts for one.
LEMMA GainOfOne ==
    ASSUME world \in Worlds, NEW u \in Updates, Op[u] = "add"
    PROVE  Gain(u)[1] = 1
<1>1. cell \in Cells /\ Amount[u] \in Nat /\ Sound(kind, cell, Initial(cell))
  BY TheCell, InitialSound, ObserverAssumption
<1>2. CASE cell = "Bucket"
  <2> DEFINE v == Initial(cell)
             w == Plus(cell, v, One(u))
  <2>1. One(u) \in Nat
    BY <1>1, <1>2 DEF One
  <2>2. v \in Histograms /\ v.count = 0
    BY <1>1, <1>2 DEF Sound, IsValue, Initial
  <2>3. w \in Histograms
    BY <1>1, <1>2, <2>1, PlusSound DEF Sound, IsValue
  <2>4. w.count = v.count + 1
    BY <1>2 DEF Plus
  <2> HIDE DEF v, w
  <2>5. Counts(cell, w)[1] = 1
    BY <1>2, <2>2, <2>3, <2>4, CountsOfBucket
  <2> QED
    BY <2>5 DEF Gain, v, w
<1>3. CASE cell # "Bucket"
  <2>1. One(u) = 1 /\ Initial(cell) = 0
    BY <1>3 DEF One, Initial
  <2>2. Plus(cell, Initial(cell), One(u)) = 1
    BY <1>1, <1>3, <2>1, Constants DEF Plus, Cells
  <2> QED
    BY <1>3, <2>2 DEF Gain, Counts
<1> QED
  BY <1>2, <1>3

\* Calls are finite, and one under way is not among those that have returned.
LEMMA ReturnedCalls ==
    ASSUME Types, NEW k \in Keys
    PROVE  /\ IsFiniteSet(Applied("add", k)) /\ Cardinality(Applied("add", k)) \in Nat
           /\ IsFiniteSet(Applied("sub", k)) /\ Cardinality(Applied("sub", k)) \in Nat
           /\ IsFiniteSet(world.calls) /\ Cardinality(world.calls) \in Nat
           /\ \A u \in world.calls : upc[u] # "returned" =>
                 Cardinality(Applied("add", k)) < Cardinality(world.calls)
<1>1. world.calls \subseteq Updates /\ IsFiniteSet(world.calls) /\ Cardinality(world.calls) \in Nat
  <2>1. world.calls \subseteq Updates
    BY TheCell DEF Types, Typed
  <2> QED
    BY <2>1, ObserverAssumption, FS_Subset, FS_CardinalityType
<1>2. \A op : IsFiniteSet(Applied(op, k)) /\ Cardinality(Applied(op, k)) \in Nat
  <2>1. \A op : Applied(op, k) \subseteq Updates
    BY DEF Applied
  <2> QED
    BY <2>1, ObserverAssumption, FS_Subset, FS_CardinalityType
<1>3. ASSUME NEW u \in world.calls, upc[u] # "returned"
      PROVE  Cardinality(Applied("add", k)) < Cardinality(world.calls)
  <2>1. Applied("add", k) \subseteq world.calls
    BY DEF Applied, Types, Called
  <2>2. u \notin Applied("add", k)
    BY <1>3 DEF Applied
  <2>3. Applied("add", k) # world.calls
    BY <1>3, <2>2
  <2> QED
    BY <1>1, <1>2, <2>1, <2>3, FS_Subset
<1> QED
  BY <1>1, <1>2, <1>3


\* A step returns from one call at most.
LEMMA ReturnsOne ==
    ASSUME Types, [Next]_vars
    PROVE  \/ \A w \in Updates : upc'[w] = "returned" <=> upc[w] = "returned"
           \/ \E u \in Updates :
                 /\ upc[u] # "returned" /\ upc'[u] = "returned"
                 /\ \A w \in Updates : w # u => (upc'[w] = "returned" <=> upc[w] = "returned")
<1>1. CASE UNCHANGED vars
  BY <1>1 DEF vars, updates
<1>2. ASSUME NEW w \in Updates,
             GetOrCreate(w) \/ LookupDup(w) \/ insert_dup(w) \/ Clear(w) \/ Set(w)
             \/ FetchAdd(w) \/ LoadBits(w) \/ CompareExchange(w) \/ CompareExchangeFails(w)
      PROVE  upc' = upc \/ (upc[w] # "returned" /\ \E s : upc' = [upc EXCEPT ![w] = s])
  BY <1>2 DEF GetOrCreate, LookupDup, insert_dup, Clear, Set, FetchAdd, LoadBits, CompareExchange, CompareExchangeFails, Store
<1>3. ASSUME NEW w \in Updates, NEW s, upc[w] # "returned", upc' = [upc EXCEPT ![w] = s]
      PROVE  \/ \A x \in Updates : upc'[x] = "returned" <=> upc[x] = "returned"
             \/ /\ upc[w] # "returned" /\ upc'[w] = "returned"
                /\ \A x \in Updates : x # w => (upc'[x] = "returned" <=> upc[x] = "returned")
  <2>1. \A x \in Updates : upc'[x] = IF x = w THEN s ELSE upc[x]
    BY <1>3 DEF Types, Typed
  <2> QED
    BY <1>3, <2>1
<1>4. ASSUME NEW o \in Observers,
             BeginVisit(o) \/ BeginTake(o) \/ VisitBucket(o) \/ ReadBucket(o)
             \/ EndObserve(o) \/ Export(o) \/ Reset(o)
      PROVE  upc' = upc
  BY <1>4 DEF BeginVisit, BeginTake, VisitBucket, ReadBucket, EndObserve, Export, Reset, updates
<1>5. \/ upc' = upc
      \/ \E w \in Updates : \E s : upc[w] # "returned" /\ upc' = [upc EXCEPT ![w] = s]
  <2>1. CASE \E u \in Updates : \/ GetOrCreate(u) \/ LookupDup(u) \/ insert_dup(u)
             \/ Clear(u) \/ Set(u) \/ FetchAdd(u) \/ LoadBits(u)
                                \/ CompareExchange(u) \/ CompareExchangeFails(u)
    BY <1>2, <2>1
  <2>2. CASE \E o \in Observers : \/ BeginVisit(o) \/ BeginTake(o) \/ VisitBucket(o) \/ ReadBucket(o)
                                  \/ EndObserve(o) \/ Export(o) \/ Reset(o)
    BY <1>4, <2>2
  <2>3. CASE UNCHANGED vars
    BY <2>3 DEF vars, updates
  <2> QED
    BY <2>1, <2>2, <2>3 DEF Next
<1> QED
  BY <1>3, <1>5

\* With no reset, set or sinking sub, what was added to a key is the number of
\* its adds.
LEMMA CountedIs ==
    ASSUME Types, Steady
    PROVE  Counted
<1> SUFFICES ASSUME NEW k \in Keys PROVE Added(k)[1] = Cardinality(Applied("add", k))
  BY DEF Counted
<1>1. Raised(k) = Applied("add", k)
  BY DEF Raised, Applied, Steady
<1>2. world \in Worlds /\ 1 \in 1 .. Width
  BY TheCell, Sizes DEF Types, Typed
<1> DEFINE f == [u \in Raised(k) |-> Gain(u)[1]]
<1>3. IsFiniteSet(Raised(k)) /\ Added(k)[1] = SumOf(f, Raised(k))
  BY <1>2, AddedType DEF Types, Typed
<1>4. \A u \in Raised(k) : f[u] = 1
  BY <1>1, <1>2, GainOfOne DEF Applied
<1> HIDE DEF f
<1> QED
  BY <1>1, <1>3, <1>4, SumOfOnes

\* A store that does not wrap adds one to what a bucket counts, or takes one.
LEMMA StoreCounts ==
    ASSUME NoWrap, Types, Named, ValuesBounded, Steady, NEW u \in Updates,
           upc[u] \in {"update", "exchange"},
           Op[u] = "sub" /\ cell = "AtomicU64" => value[ref[u]] + One(u) >= 0
    PROVE  /\ Op[u] \in {"add", "sub"}
           /\ ref[u] \in Updates /\ Key[ref[u]] = Key[u]
           /\ Counts(cell, value[ref[u]])[1] \in Int
           /\ Counts(cell, Plus(cell, value[ref[u]], One(u)))[1]
                 = Counts(cell, value[ref[u]])[1] + IF Op[u] = "sub" THEN -1 ELSE 1
<1> DEFINE v == value[ref[u]]
           w == Plus(cell, v, One(u))
<1>1. /\ world \in Worlds /\ cell \in Cells /\ u \in world.calls /\ Op[u] \in {"add", "sub"}
      /\ ref[u] \in Updates /\ Key[ref[u]] = Key[u] /\ Key[u] \in Keys /\ upc[u] # "returned"
  <2>1. Op[u] \in {"add", "sub"}
    BY ObserverAssumption DEF Steady
  <2>2. upc[u] # "called" /\ upc[u] # "returned"
    OBVIOUS
  <2> QED
    BY <2>1, <2>2, TheCell, ObserverAssumption DEF Types, Typed, Called, Named
<1>2. Sound(kind, cell, v) /\ Counts(cell, v)[1] \in Int
  <2>1. Sound(kind, cell, v)
    BY <1>1 DEF Types, ValuesSound
  <2> HIDE DEF v
  <2>2. Counts(cell, v) \in [1 .. Size(cell) -> Int] /\ 1 \in 1 .. Size(cell)
    BY <1>1, <2>1, CountsType
  <2> QED
    BY <2>1, <2>2
<1>3. CASE cell = "Bucket"
  <2>1. Op[u] # "sub" /\ One(u) \in Nat
    BY <1>1, <1>3, TheCell, OneType
  <2>2. v \in Histograms /\ w \in Histograms
    BY <1>1, <1>2, <1>3, <2>1, PlusSound DEF Sound, IsValue
  <2>3. w.count = v.count + 1
    BY <1>3 DEF Plus
  <2> HIDE DEF v, w
  <2>4. Counts(cell, w)[1] = Counts(cell, v)[1] + 1
    BY <1>3, <2>2, <2>3, CountsOfBucket
  <2> QED
    BY <1>1, <1>2, <2>1, <2>4 DEF v, w
<1>6. CASE cell = "AtomicU64" /\ Op[u] = "sub"
  <2>0. One(u) = -1
    BY <1>1, <1>6, OneType
  <2>1. One(u) = -1 /\ v \in 0 .. Modulus - 1 /\ v + One(u) >= 0
    BY <1>2, <1>6, <2>0 DEF Sound
  <2>2. w = (v - 1) % Modulus /\ v - 1 \in 0 .. Modulus - 1
    BY <1>6, <2>1, Constants DEF Plus
  <2>3. (v - 1) % Modulus = v - 1
    BY <2>2, Constants
  <2> HIDE DEF v, w
  <2>4. Counts(cell, w)[1] = Counts(cell, v)[1] + -1
    BY <1>6, <2>1, <2>2, <2>3 DEF Counts
  <2> QED
    BY <1>1, <1>2, <1>6, <2>4 DEF v, w
<1>4. CASE cell = "AtomicU64" /\ Op[u] # "sub"
  <2>1. Op[u] # "sub" /\ One(u) = 1
    BY <1>1, <1>4, TheCell, OneType
  <2>2. v \in 0 .. Modulus - 1 /\ Counts(cell, v)[1] = v
    BY <1>2, <1>4 DEF Sound, Counts
  <2>3. v <= Added(Key[u])[1]
    BY <1>1, <2>2, Sizes DEF ValuesBounded, Leq
  <2>4. Cardinality(Applied("add", Key[u])) < Cardinality(world.calls)
        /\ Cardinality(Applied("add", Key[u])) \in Nat /\ Cardinality(world.calls) \in Nat
    BY <1>1, ReturnedCalls
  <2>5. Cardinality(world.calls) < Modulus
    BY <1>1, <1>4 DEF NoWrap, cell, kind
  <2>6. v + 1 < Modulus
    <3>1. Added(Key[u])[1] = Cardinality(Applied("add", Key[u]))
      BY <1>1, CountedIs DEF Counted
    <3> HIDE DEF v
    <3> QED
      BY <2>2, <2>3, <2>4, <2>5, <3>1, Constants
  <2>7. (v + 1) % Modulus = v + 1
    <3> HIDE DEF v
    <3>1. v \in Nat
      BY <2>2, Constants
    <3> QED
      BY <2>6, <3>1, Constants
  <2>8. w = v + 1
    BY <1>4, <2>1, <2>7 DEF Plus
  <2> HIDE DEF v, w
  <2>9. Counts(cell, w)[1] = Counts(cell, v)[1] + 1
    BY <1>4, <2>2, <2>8 DEF Counts
  <2> QED
    BY <1>1, <1>2, <2>1, <2>9 DEF v, w
<1>5. CASE cell \notin {"Bucket", "AtomicU64"}
  <2>1. One(u) = (IF Op[u] = "sub" THEN -1 ELSE 1) /\ v \in Int
    BY <1>1, <1>2, <1>5, OneType DEF Sound, IsValue
  <2>2. w = v + One(u)
    BY <1>5 DEF Plus
  <2> HIDE DEF v, w
  <2>3. Counts(cell, w)[1] = Counts(cell, v)[1] + One(u)
    BY <1>5, <2>2 DEF Counts
  <2> QED
    BY <1>1, <1>2, <2>1, <2>3 DEF v, w
<1> QED
  BY <1>1, <1>3, <1>4, <1>5, <1>6

\* A table taken has none of the buckets of one taken before.
LEMMA TablesStep ==
    ASSUME Types, Named, TablesApart, [Next]_vars
    PROVE  TablesApart'
<1>1. ASSUME \A p \in Observers : todo'[p] \subseteq todo[p]
      PROVE  TablesApart'
  BY <1>1 DEF TablesApart
<1>2. CASE UNCHANGED vars
  BY <1>1, <1>2 DEF vars, progress
<1>3. ASSUME NEW u \in Updates,
             GetOrCreate(u) \/ LookupDup(u) \/ insert_dup(u)
             \/ Clear(u) \/ Set(u) \/ FetchAdd(u) \/ LoadBits(u)
             \/ CompareExchange(u) \/ CompareExchangeFails(u)
      PROVE  TablesApart'
  <2>1. todo' = todo
    BY <1>3 DEF GetOrCreate, LookupDup, insert_dup, Clear, Set, FetchAdd, LoadBits, CompareExchange, CompareExchangeFails, Store,
                progress
  <2> QED
    BY <1>1, <2>1
<1>4. ASSUME NEW o \in Observers, BeginVisit(o)
      PROVE  TablesApart'
  <2>1. Mode[o] # "Destructive" /\ todo' = [todo EXCEPT ![o] = Live]
    BY <1>4 DEF BeginVisit, Begin
  <2>2. \A p \in Observers : p # o => todo'[p] = todo[p]
    BY <2>1 DEF Types, Typed
  <2> QED
    BY <2>1, <2>2 DEF TablesApart
<1>5. ASSUME NEW o \in Observers, BeginTake(o)
      PROVE  TablesApart'
  <2>1. todo' = [todo EXCEPT ![o] = Live]
    BY <1>5 DEF BeginTake, Begin
  <2>2. \A p \in Observers : todo'[p] = IF p = o THEN Live ELSE todo[p]
    BY <2>1 DEF Types, Typed
  <2>3. \A p \in Observers : Mode[p] = "Destructive" => todo[p] \cap Live = {}
    <3> SUFFICES ASSUME NEW p \in Observers, Mode[p] = "Destructive", NEW e \in todo[p], e \in Live
                 PROVE  FALSE
      OBVIOUS
    <3>1. bucket[e[1]] # e[2]
      BY DEF Named
    <3> QED
      BY <3>1, LiveIs
  <2> QED
    BY <2>2, <2>3 DEF TablesApart
<1>6. ASSUME NEW o \in Observers, VisitBucket(o) \/ ReadBucket(o)
      PROVE  TablesApart'
  <2>1. \E e : todo' = [todo EXCEPT ![o] = @ \ {e}]
    BY <1>6 DEF VisitBucket, ReadBucket
  <2>2. \A p \in Observers : todo'[p] \subseteq todo[p]
    BY <2>1 DEF Types, Typed
  <2> QED
    BY <1>1, <2>2
<1>7. ASSUME NEW o \in Observers, EndObserve(o) \/ Export(o) \/ Reset(o)
      PROVE  TablesApart'
  <2>1. todo' = todo
    BY <1>7 DEF EndObserve, Export, Reset, progress
  <2> QED
    BY <1>1, <2>1
<1> QED
  BY <1>2, <1>3, <1>4, <1>5, <1>6, <1>7 DEF Next

\* The bucket a call has got is in sight if it has not been drained.
LEMMA DrainedIs ==
    ASSUME Types, Named, NEW u \in Updates, upc[u] \in Under
    PROVE  /\ Drained(ref[u]) => ref[u] \notin Visible(Key[u]) /\ bucket[Key[u]] # ref[u]
           /\ ~Drained(ref[u]) => ref[u] \in Visible(Key[u])
<1> DEFINE b == ref[u]
           k == Key[u]
<1>1. b \in Updates /\ Key[b] = k /\ k \in Keys /\ b # None
  BY ObserverAssumption DEF Types, Typed, Called, Named, Under
<1>2. bucket[k] = b <=> b \in Range(bucket)
  <2>1. Range(bucket) = {bucket[j] : j \in Keys}
    BY DEF Range, Types, Typed
  <2>2. \A j \in Keys : bucket[j] = b => j = k
    BY <1>1 DEF Named
  <2> QED
    BY <1>1, <2>1, <2>2
<1>3. \A o \in Observers, j \in Keys : <<j, b>> \in todo[o] => j = k
  BY <1>1 DEF Named
<1>4. world.observers \subseteq Observers
  BY TheCell DEF Types, Typed
<1>5. \A o \in world.observers, j \in Keys :
          <<j, b>> \in todo[o] /\ bucket[k] # b => o \in Drainers /\ <<k, b>> \in todo[o]
  <2> SUFFICES ASSUME NEW o \in world.observers, NEW j \in Keys, <<j, b>> \in todo[o], bucket[k] # b
               PROVE  Mode[o] = "Destructive" /\ j = k
    BY DEF Drainers
  <2>1. j = k
    BY <1>3, <1>4
  <2>2. Mode[o] # "Destructive" => <<k, b>> \in Live
    BY <1>4, <2>1 DEF Named
  <2> QED
    BY <2>1, <2>2, LiveIs
<1>6. \A o \in Drainers : o \in world.observers
  BY DEF Drainers
<1> QED
  BY <1>1, <1>2, <1>5, <1>6 DEF Drained, Visible

\* An add to a bucket out of sight was overlapped by the take that took it, or
\* is of a call that a late alias led there.
LEMMA OvertakenStep ==
    ASSUME Types, Named, Overtaken, [Next]_vars
    PROVE  Overtaken'
<1>1. ASSUME overlapped' = overlapped, misled' = misled, lost' = lost, ref' = ref,
             bucket' = bucket, aliases' = aliases,
             \A w \in Updates : /\ upc[w] = "returned" => upc'[w] = "returned"
                                /\ upc'[w] \in Under => upc[w] \in Under
                                /\ upc'[w] \in {"called", "insert_dup"} => upc'[w] = upc[w]
      PROVE  Overtaken'
  <2>1. \A f : Late(f)' <=> Late(f)
    BY <1>1 DEF Late
  <2>2. lost \subseteq Updates /\ misled \subseteq Updates
    BY DEF Types, Typed
  <2>3. \A u \in misled : upc'[u] \notin {"called", "insert_dup"}
    BY <1>1, <2>2 DEF Overtaken
  <2> QED
    BY <1>1, <2>1, <2>2, <2>3 DEF Overtaken
<1>2. CASE UNCHANGED vars
  BY <1>1, <1>2 DEF vars, updates, history, source
<1>3. ASSUME NEW u \in Updates, GetOrCreate(u)
      PROVE  Overtaken'
  <2> DEFINE b == IF bucket[Key[u]] = None THEN u ELSE bucket[Key[u]]
             s == IF NeedsAlias[u] THEN "insert_dup" ELSE "update"
  <2>1. /\ upc[u] = "called" /\ upc' = [upc EXCEPT ![u] = s] /\ s \in {"insert_dup", "update"}
        /\ bucket' = [bucket EXCEPT ![Key[u]] = b] /\ ref' = [ref EXCEPT ![u] = b]
        /\ overlapped' = overlapped /\ lost' = lost /\ misled' = misled /\ aliases' = aliases
    BY <1>3 DEF GetOrCreate, history
  <2>2. /\ \A w \in Updates : upc'[w] = IF w = u THEN s ELSE upc[w]
        /\ \A w \in Updates : ref'[w] = IF w = u THEN b ELSE ref[w]
        /\ \A k \in Keys : bucket'[k] = IF k = Key[u] THEN b ELSE bucket[k]
        /\ Key[u] \in Keys
    BY <2>1, ObserverAssumption DEF Types, Typed
  <2>3. /\ \A w \in lost' : upc'[w] = "returned"
        /\ \A w \in misled' : upc'[w] \notin {"called", "insert_dup"}
        /\ \A f : Late(f)' <=> Late(f)
    BY <2>1, <2>2 DEF Overtaken, Types, Typed, Late
  <2>4. ASSUME NEW w \in Updates, upc'[w] \in Under, bucket'[Key[w]] # ref'[w]
        PROVE  w \in overlapped \cup misled
    <3>1. Key[w] \in Keys
      BY ObserverAssumption
    <3>2. w # u
      BY <2>2, <2>4, <3>1
    <3>3. ref[w] \in Updates /\ ref[w] # None
      BY <2>2, <2>4, <3>2, ObserverAssumption DEF Types, Called, Under
    <3>4. bucket[Key[w]] # ref[w]
      BY <2>2, <2>4, <3>1, <3>2, <3>3
    <3> QED
      BY <2>2, <2>4, <3>2, <3>4 DEF Overtaken
  <2>5. ASSUME NEW f \in Fingerprints, aliases[f] # None, bucket'[Key[aliases[f]]] # aliases[f]
        PROVE  Late(f)
    <3>1. aliases[f] \in Updates /\ Key[aliases[f]] \in Keys
      BY <2>5, ObserverAssumption DEF Types, Typed
    <3>2. bucket[Key[aliases[f]]] # aliases[f]
      BY <2>2, <2>5, <3>1
    <3> QED
      BY <2>5, <3>2 DEF Overtaken
  <2> QED
    BY <2>1, <2>3, <2>4, <2>5 DEF Overtaken
<1>8. ASSUME NEW u \in Updates, LookupDup(u)
      PROVE  Overtaken'
  <2> DEFINE f == Fingerprint[u]
  <2>1. /\ upc[u] = "called" /\ upc' = [upc EXCEPT ![u] = "update"]
        /\ f \in Fingerprints /\ aliases[f] # None
        /\ ref' = [ref EXCEPT ![u] = aliases[f]]
        /\ misled' = IF aliases[f] = bucket[Key[u]] THEN misled ELSE misled \cup {u}
        /\ overlapped' = overlapped /\ lost' = lost /\ bucket' = bucket /\ aliases' = aliases
    BY <1>8, ObserverAssumption DEF LookupDup, source
  <2>2. /\ \A w \in Updates : upc'[w] = IF w = u THEN "update" ELSE upc[w]
        /\ \A w \in Updates : ref'[w] = IF w = u THEN aliases[f] ELSE ref[w]
        /\ Key[aliases[f]] = Key[u]
    BY <2>1 DEF Types, Typed, Named
  <2>3. \A h : Late(h)' <=> Late(h)
    BY <2>1 DEF Late
  <2>4. aliases[f] # bucket[Key[u]] => Late(f)
    BY <2>1, <2>2 DEF Overtaken
  <2>5. \A w \in misled' : upc'[w] \notin {"called", "insert_dup"} /\ Late(Fingerprint[w])
    BY <2>1, <2>2, <2>4 DEF Overtaken, Types, Typed
  <2>6. \A w \in lost' : upc'[w] = "returned"
    BY <2>1, <2>2 DEF Overtaken, Types, Typed
  <2>7. ASSUME NEW w \in Updates, upc'[w] \in Under, bucket'[Key[w]] # ref'[w]
        PROVE  w \in overlapped \cup misled'
    BY <2>1, <2>2, <2>7 DEF Overtaken
  <2>8. lost \subseteq overlapped \cup misled'
    BY <2>1 DEF Overtaken
  <2> QED
    BY <2>1, <2>3, <2>5, <2>6, <2>7, <2>8 DEF Overtaken
<1>9. ASSUME NEW u \in Updates, insert_dup(u)
      PROVE  Overtaken'
  <2> DEFINE f == Fingerprint[u]
  <2>1. /\ upc[u] = "insert_dup" /\ upc' = [upc EXCEPT ![u] = "update"]
        /\ aliases' = IF aliases[f] = None THEN [aliases EXCEPT ![f] = ref[u]] ELSE aliases
        /\ overlapped' = overlapped /\ lost' = lost /\ bucket' = bucket /\ ref' = ref
        /\ misled' = misled
    BY <1>9 DEF insert_dup, history
  <2>2. /\ \A w \in Updates : upc'[w] = IF w = u THEN "update" ELSE upc[w]
        /\ Key[ref[u]] = Key[u] /\ NeedsAlias[u] /\ f \in Fingerprints
        /\ \A h : Late(h)' <=> Late(h)
    <3>1. Key[ref[u]] = Key[u] /\ NeedsAlias[u]
      BY <2>1 DEF Types, Called, Named
    <3>2. f \in Fingerprints
      BY <3>1, ObserverAssumption
    <3> QED
      BY <2>1, <3>1, <3>2 DEF Types, Typed, Late
  <2>3. bucket[Key[u]] # ref[u] => Late(f)
    BY <2>1, <2>2 DEF Overtaken, Under, Late
  <2>4. ASSUME NEW h \in Fingerprints, aliases'[h] # None, bucket[Key[aliases'[h]]] # aliases'[h]
        PROVE  Late(h)
    <3>1. aliases'[h] = IF h = f /\ aliases[f] = None THEN ref[u] ELSE aliases[h]
      BY <2>1, <2>2 DEF Types, Typed
    <3> QED
      BY <2>2, <2>3, <2>4, <3>1 DEF Overtaken
  <2>5. /\ \A w \in lost' : upc'[w] = "returned"
        /\ \A w \in misled' : upc'[w] \notin {"called", "insert_dup"}
    BY <2>1, <2>2 DEF Overtaken, Types, Typed
  <2>6. \A w \in Updates : upc'[w] \in Under => upc[w] \in Under
    BY <2>1, <2>2 DEF Under
  <2> QED
    BY <2>1, <2>2, <2>4, <2>5, <2>6 DEF Overtaken
<1>4. ASSUME NEW u \in Updates, Clear(u) \/ LoadBits(u) \/ CompareExchangeFails(u)
      PROVE  Overtaken'
  <2>1. /\ UNCHANGED <<overlapped, lost, misled, ref, bucket, aliases>>
        /\ upc[u] \in {"update", "exchange"}
        /\ \E s \in {"returned", "exchange"} : upc' = [upc EXCEPT ![u] = s]
    BY <1>4 DEF Clear, LoadBits, CompareExchangeFails, history, updates, source, Types, Typed
  <2>2. \A w \in Updates : w # u => upc'[w] = upc[w]
    BY <2>1 DEF Types, Typed
  <2>3. upc'[u] \notin {"called", "insert_dup"} /\ upc[u] # "returned" /\ upc[u] \in Under
    BY <2>1 DEF Types, Typed, Under
  <2> QED
    BY <1>1, <2>1, <2>2, <2>3
<1>5. ASSUME NEW u \in Updates, Set(u) \/ FetchAdd(u) \/ CompareExchange(u)
      PROVE  Overtaken'
  <2>1. /\ UNCHANGED <<overlapped, misled, ref, bucket, aliases>>
        /\ upc[u] \in Under /\ upc' = [upc EXCEPT ![u] = "returned"]
        /\ lost' = IF Drained(ref[u]) THEN lost \cup {u} ELSE lost
    BY <1>5 DEF Set, FetchAdd, CompareExchange, Store, Under
  <2>2. \A w \in Updates : upc'[w] = IF w = u THEN "returned" ELSE upc[w]
    BY <2>1 DEF Types, Typed
  <2>3. Drained(ref[u]) => u \in overlapped \cup misled
    BY <2>1, DrainedIs DEF Overtaken
  <2>4. lost' \subseteq overlapped \cup misled /\ lost' \subseteq Updates
    BY <2>1, <2>3 DEF Overtaken, Types, Typed
  <2>5. /\ \A w \in lost' : upc'[w] = "returned"
        /\ \A w \in misled : upc'[w] \notin {"called", "insert_dup"}
        /\ \A h : Late(h)' <=> Late(h)
        /\ \A w \in Updates : upc'[w] \in Under => upc[w] \in Under
    BY <2>1, <2>2, <2>4 DEF Overtaken, Types, Typed, Late, Under
  <2> QED
    BY <2>1, <2>4, <2>5 DEF Overtaken
<1>6. ASSUME NEW o \in Observers, BeginTake(o)
      PROVE  Overtaken'
  <2>1. /\ overlapped' = overlapped \cup {u \in Updates : upc[u] \notin {"called", "returned"}}
        /\ lost' = lost /\ upc' = upc /\ misled' = misled
        /\ aliases' = [f \in Fingerprints |-> None]
    BY <1>6 DEF BeginTake, updates
  <2>2. \A f : Late(f) => Late(f)'
    BY <2>1 DEF Late
  <2>3. \A u \in Updates : upc[u] \in Under => u \in overlapped'
    BY <2>1 DEF Under
  <2> QED
    BY <2>1, <2>2, <2>3 DEF Overtaken
<1>7. ASSUME NEW o \in Observers,
             BeginVisit(o) \/ VisitBucket(o) \/ ReadBucket(o) \/ EndObserve(o) \/ Export(o) \/ Reset(o)
      PROVE  Overtaken'
  <2>1. UNCHANGED <<overlapped, misled, lost, ref, bucket, aliases, upc>>
    BY <1>7 DEF BeginVisit, VisitBucket, ReadBucket, EndObserve, Export, Reset, history, updates, source
  <2> QED
    BY <1>1, <2>1
<1> QED
  BY <1>2, <1>3, <1>4, <1>5, <1>6, <1>7, <1>8, <1>9 DEF Next

\* What has not been reset was not before.
LEMMA NoResetBefore ==
    ASSUME Types, [Next]_vars, Steady'
    PROVE  Steady
<1>1. \A u \in Updates : upc'[u] = "called" => upc[u] = "called"
  <2>1. CASE UNCHANGED vars
    BY <2>1 DEF vars, updates
  <2>2. ASSUME NEW w \in Updates, GetOrCreate(w)
        PROVE  \A u \in Updates : upc'[u] = "called" => upc[u] = "called"
    <3>1. upc' = [upc EXCEPT ![w] = "update"] \/ upc' = [upc EXCEPT ![w] = "insert_dup"]
      BY <2>2 DEF GetOrCreate
    <3> QED
      BY <3>1 DEF Types, Typed
  <2>3. ASSUME NEW w \in Updates,
               LookupDup(w) \/ insert_dup(w) \/ Clear(w) \/ Set(w) \/ FetchAdd(w)
               \/ LoadBits(w) \/ CompareExchange(w) \/ CompareExchangeFails(w)
        PROVE  \A u \in Updates : upc'[u] = "called" => upc[u] = "called"
    <3>1. upc' = upc \/ \E s \in {"update", "returned", "exchange"} : upc' = [upc EXCEPT ![w] = s]
      BY <2>3 DEF LookupDup, insert_dup, Clear, Set, FetchAdd, LoadBits, CompareExchange, CompareExchangeFails, Store
    <3> QED
      BY <3>1 DEF Types, Typed
  <2>4. ASSUME NEW o \in Observers,
               BeginVisit(o) \/ BeginTake(o) \/ VisitBucket(o) \/ ReadBucket(o)
               \/ EndObserve(o) \/ Export(o) \/ Reset(o)
        PROVE  upc' = upc
    BY <2>4 DEF BeginVisit, BeginTake, VisitBucket, ReadBucket, EndObserve, Export, Reset, updates
  <2> QED
    BY <2>1, <2>2, <2>3, <2>4 DEF Next
<1>2. sunk \subseteq sunk'
  BY AddedStep
<1> QED
  BY <1>1, <1>2 DEF Steady

\* The sums are of numbers, over finite sets.
LEMMA BalanceTypes ==
    ASSUME Types, NEW k \in Keys
    PROVE  /\ Drainers \subseteq Observers /\ IsFiniteSet(Drainers)
           /\ \A o \in Observers : Given(o, k) \in Int /\ Reports(o, k)[1] \in Int /\ shed[o][k] \in Int
           /\ Visible(k) \subseteq Updates /\ IsFiniteSet(Visible(k))
           /\ \A b \in Updates : Counts(cell, value[b])[1] \in Int
           /\ GivenAll(k) \in Int /\ Kept(k) \in Int /\ Net(k) \in Int
<1>1. Drainers \subseteq Observers /\ IsFiniteSet(Drainers)
  <2>1. Drainers \subseteq Observers
    BY TheCell DEF Drainers, Types, Typed
  <2> QED
    BY <2>1, ObserverAssumption, FS_Subset
<1>2. Visible(k) \subseteq Updates /\ IsFiniteSet(Visible(k))
  <2>1. Visible(k) \subseteq Updates
    BY DEF Visible
  <2> QED
    BY <2>1, ObserverAssumption, FS_Subset
<1>3. 1 \in 1 .. Width /\ cell \in Cells
  BY TheCell, Sizes DEF Types, Typed
<1>4. \A o \in Observers : Given(o, k) \in Int /\ Reports(o, k)[1] \in Int /\ shed[o][k] \in Int
  <2> SUFFICES ASSUME NEW o \in Observers
               PROVE  Given(o, k) \in Int /\ Reports(o, k)[1] \in Int /\ shed[o][k] \in Int
    OBVIOUS
  <2>1. shed[o][k] \in Int
    BY DEF Types, Typed
  <2>2. Reports(o, k)[1] \in Int
    BY <1>3, ReportsType
  <2> QED
    BY <2>1, <2>2 DEF Given
<1>5. \A b \in Updates : Counts(cell, value[b])[1] \in Int
  BY <1>3, CountsType DEF Types, ValuesSound
<1>6. GivenAll(k) \in Int
  <2> DEFINE f == [o \in Drainers |-> Given(o, k)]
  <2>1. \A o \in Drainers : f[o] \in Int
    BY <1>1, <1>4
  <2> HIDE DEF f
  <2>2. SumOf(f, Drainers) \in Int
    BY <1>1, <2>1, SumTake
  <2> QED
    BY <2>2 DEF GivenAll, f
<1>7. Kept(k) \in Int
  <2> DEFINE f == [b \in Visible(k) |-> Counts(cell, value[b])[1]]
  <2>1. \A b \in Visible(k) : f[b] \in Int
    BY <1>2, <1>5
  <2> HIDE DEF f
  <2>2. SumOf(f, Visible(k)) \in Int
    BY <1>2, <2>1, SumTake
  <2> QED
    BY <2>2 DEF Kept, f
<1>8. Net(k) \in Int
  <2>1. \A op \in {"add", "sub"} : Applied(op, k) \ lost \subseteq Applied(op, k) /\ IsFiniteSet(Applied(op, k))
    BY ReturnedCalls
  <2>2. \A op \in {"add", "sub"} : Cardinality(Applied(op, k) \ lost) \in Nat
    BY <2>1, FS_Subset, FS_CardinalityType
  <2> QED
    BY <2>2 DEF Net
<1> QED
  BY <1>1, <1>2, <1>4, <1>5, <1>6, <1>7, <1>8

\* What leaves the parts of the balance as they are.
LEMMA GivenStay ==
    ASSUME Types, world' = world, NEW k \in Keys, \A o \in Drainers : Given(o, k)' = Given(o, k)
    PROVE  GivenAll(k)' = GivenAll(k)
<1>1. Drainers' = Drainers
  BY DEF Drainers
<1>2. [o \in Drainers' |-> Given(o, k)'] = [o \in Drainers |-> Given(o, k)]
  BY <1>1
<1>3. GivenAll(k)' = SumOf([o \in Drainers' |-> Given(o, k)'], Drainers')
  BY DEF GivenAll
<1> QED
  BY <1>1, <1>2, <1>3 DEF GivenAll

\* What one observer gets in addition.
LEMMA GivenMore ==
    ASSUME Types, world' = world, NEW k \in Keys, NEW o \in Drainers, NEW n \in Int,
           Given(o, k)' = Given(o, k) + n,
           \A p \in Drainers : p # o => Given(p, k)' = Given(p, k)
    PROVE  GivenAll(k)' = GivenAll(k) + n
<1> DEFINE f == [p \in Drainers |-> Given(p, k)]
           g == [p \in Drainers |-> Given(p, k)']
<1>1. Drainers' = Drainers /\ Drainers \subseteq Observers /\ IsFiniteSet(Drainers)
  BY BalanceTypes DEF Drainers
<1>2. \A p \in Drainers : Given(p, k) \in Int
  BY <1>1, BalanceTypes
<1>3. \A p \in Drainers : f[p] \in Int /\ g[p] \in Int
  BY <1>2
<1>4. \A p \in Drainers \ {o} : f[p] = g[p]
  OBVIOUS
<1>5. g[o] - f[o] = n
  BY <1>2
<1>6. GivenAll(k) = SumOf(f, Drainers)
  BY DEF GivenAll
<1>7. GivenAll(k)' = SumOf([p \in Drainers' |-> Given(p, k)'], Drainers')
  BY DEF GivenAll
<1>8. GivenAll(k)' = SumOf(g, Drainers)
  BY <1>1, <1>7
<1> HIDE DEF f, g
<1>9. SumOf(g, Drainers) = SumOf(f, Drainers) + (g[o] - f[o])
  BY <1>1, <1>3, <1>4, SumsDiffer
<1> QED
  BY <1>5, <1>6, <1>8, <1>9

LEMMA GivenSame ==
    ASSUME world' = world, NEW o \in Observers, NEW k \in Keys,
           series'[o][k] = series[o][k], exported'[o] = exported[o], shed'[o][k] = shed[o][k]
    PROVE  Given(o, k)' = Given(o, k)
BY ReportsStay DEF Given

LEMMA KeptStay ==
    ASSUME Types, world' = world, NEW k \in Keys, Visible(k)' = Visible(k),
           \A b \in Visible(k) : value'[b] = value[b]
    PROVE  Kept(k)' = Kept(k)
<1>1. cell' = cell /\ kind' = kind
  BY SameWorld
<1>2. [b \in Visible(k)' |-> Counts(cell', value'[b])[1]] = [b \in Visible(k) |-> Counts(cell, value[b])[1]]
  BY <1>1
<1>3. Kept(k)' = SumOf([b \in Visible(k)' |-> Counts(cell', value'[b])[1]], Visible(k)')
  BY DEF Kept
<1> QED
  BY <1>2, <1>3 DEF Kept

LEMMA NetStay ==
    ASSUME NEW k \in Keys, lost' = lost,
           \A u \in Updates : upc'[u] = "returned" <=> upc[u] = "returned"
    PROVE  Net(k)' = Net(k)
<1>1. \A op : Applied(op, k)' = Applied(op, k)
  BY DEF Applied
<1> QED
  BY <1>1 DEF Net

LEMMA VisibleStay ==
    ASSUME world' = world, NEW k \in Keys, bucket'[k] = bucket[k],
           \A o \in Drainers : todo'[o] = todo[o]
    PROVE  Visible(k)' = Visible(k)
<1>1. Drainers' = Drainers
  BY DEF Drainers
<1> QED
  BY <1>1 DEF Visible

\* A new bucket holds nothing.
LEMMA EvenCall ==
    ASSUME Types, Named, [Next]_vars, NEW k \in Keys, Even(k), NEW u \in Updates, GetOrCreate(u)
    PROVE  Even(k)'
<1> DEFINE b == IF bucket[Key[u]] = None THEN u ELSE bucket[Key[u]]
<1>1. /\ upc[u] = "called"
      /\ \E s \in {"insert_dup", "update"} : upc' = [upc EXCEPT ![u] = s]
      /\ bucket' = [bucket EXCEPT ![Key[u]] = b]
      /\ UNCHANGED <<world, value, todo, series, exported, shed, lost>>
  BY DEF GetOrCreate, progress, observer, outcome, history
<1>2. /\ \A w \in Updates : /\ w # u => upc'[w] = upc[w]
                             /\ upc'[u] # "returned"
      /\ \A j \in Keys : bucket'[j] = IF j = Key[u] THEN b ELSE bucket[j]
      /\ Key[u] \in Keys /\ Drainers \subseteq Observers
  <2>1. PICK s \in {"insert_dup", "update"} : upc' = [upc EXCEPT ![u] = s]
    BY <1>1
  <2>2. Key[u] \in Keys /\ Drainers \subseteq Observers
    BY ObserverAssumption, BalanceTypes
  <2> QED
    BY <1>1, <2>1, <2>2 DEF Types, Typed
<1>3. Net(k)' = Net(k)
  <2>1. \A w \in Updates : upc'[w] = "returned" <=> upc[w] = "returned"
    BY <1>1, <1>2
  <2> QED
    BY <1>1, <2>1, NetStay
<1>4. GivenAll(k)' = GivenAll(k)
  <2>1. \A o \in Drainers : Given(o, k)' = Given(o, k)
    BY <1>1, <1>2, GivenSame
  <2> QED
    BY <1>1, <2>1, GivenStay
<1>5. CASE k = Key[u] /\ bucket[k] = None
  <2>1. Visible(k)' = Visible(k) \cup {u}
    <3>1. Drainers' = Drainers
      BY <1>1 DEF Drainers
    <3>2. bucket'[k] = u /\ \A c \in Updates : bucket[k] # c
      BY <1>2, <1>5, ObserverAssumption
    <3> QED
      BY <1>1, <3>1, <3>2 DEF Visible
  <2>2. u \notin Visible(k)
    <3>1. \A o \in Drainers : \A e \in todo[o] : upc[e[2]] # "called"
      BY <1>2 DEF Named
    <3> QED
      BY <1>1, <1>5, <3>1, ObserverAssumption DEF Visible
  <2> DEFINE f == [c \in Visible(k) |-> Counts(cell, value[c])[1]]
             g == [c \in Visible(k) \cup {u} |-> Counts(cell, value[c])[1]]
  <2>3. Visible(k) \subseteq Updates /\ IsFiniteSet(Visible(k))
        /\ \A c \in Updates : Counts(cell, value[c])[1] \in Int
    BY BalanceTypes
  <2>4. g[u] = 0
    <3>1. value[u] = Initial(cell)
      BY <1>1 DEF Named
    <3>2. cell \in Cells /\ 1 \in 1 .. Size(cell)
      BY TheCell, Sizes DEF Types, Typed
    <3>3. Counts(cell, value[u])[1] = 0
      BY <3>1, <3>2, InitialCounts
    <3> QED
      BY <3>3
  <2>5. cell' = cell /\ kind' = kind
    BY <1>1, SameWorld
  <2>6. Kept(k) = SumOf(f, Visible(k))
    BY DEF Kept
  <2>7. Kept(k)' = SumOf([c \in Visible(k)' |-> Counts(cell', value'[c])[1]], Visible(k)')
    BY DEF Kept
  <2>8. Kept(k)' = SumOf(g, Visible(k) \cup {u})
    BY <1>1, <2>1, <2>5, <2>7
  <2>9. /\ \A c \in Visible(k) \cup {u} : g[c] \in Int
        /\ \A c \in Visible(k) : f[c] = g[c]
    BY <2>3
  <2> HIDE DEF f, g
  <2>10. SumOf(f, Visible(k)) = SumOf(g, Visible(k))
    BY <2>3, <2>9, SumsAgree
  <2>11. SumOf(g, Visible(k) \cup {u}) = SumOf(g, Visible(k)) + g[u] /\ SumOf(g, Visible(k)) \in Int
    BY <2>2, <2>3, <2>9, SumAdd
  <2>12. Kept(k)' = Kept(k)
    BY <2>4, <2>6, <2>8, <2>10, <2>11
  <2> QED
    BY <1>3, <1>4, <2>12 DEF Even
<1>6. CASE ~(k = Key[u] /\ bucket[k] = None)
  <2>1. bucket'[k] = bucket[k]
    BY <1>2, <1>6
  <2>2. Visible(k)' = Visible(k)
    BY <1>1, <2>1, VisibleStay
  <2>3. Kept(k)' = Kept(k)
    BY <1>1, <2>2, KeptStay
  <2> QED
    BY <1>3, <1>4, <2>3 DEF Even
<1> QED
  BY <1>5, <1>6

\* While none sinks, a store of a u64 stays above zero.
LEMMA StoredSteady ==
    ASSUME Types, Steady', NEW u \in Updates, upc[u] # "called", NEW v, Sound(kind, cell, v), Store(u, v)
    PROVE  cell = "AtomicU64" => v + One(u) >= 0
<1> SUFFICES ASSUME cell = "AtomicU64"
             PROVE  v + One(u) >= 0
  OBVIOUS
<1>1. Op[u] # "reset" /\ u \in world.calls /\ world \in Worlds
  BY DEF Steady, Store, Types, Typed, Called
<1>2. v \in Int /\ One(u) \in Int
  BY <1>1, OneType, Constants DEF Sound
<1>3. v + One(u) < 0 => u \in sunk'
  BY DEF Store
<1> QED
  BY <1>2, <1>3 DEF Steady

\* An add that a destructive observer will see is in the bucket, another is lost.
LEMMA EvenStore ==
    ASSUME NoWrap, Types, Named, ValuesBounded, Steady', Overtaken, [Next]_vars, NEW k \in Keys, Even(k),
           NEW u \in Updates, upc[u] \in {"update", "exchange"}, Store(u, value[ref[u]])
    PROVE  Even(k)'
<1> DEFINE r == ref[u]
           w == Plus(cell, value[r], One(u))
           n == IF Op[u] = "sub" THEN -1 ELSE 1
<1>1. /\ value' = [value EXCEPT ![r] = w] /\ upc' = [upc EXCEPT ![u] = "returned"]
      /\ lost' = IF Drained(r) THEN lost \cup {u} ELSE lost
      /\ UNCHANGED <<world, bucket, todo, series, exported, shed>>
  BY DEF Store, progress, observer, outcome
<1>2. /\ r \in Updates /\ Key[r] = Key[u] /\ Key[u] \in Keys /\ Op[u] \in {"add", "sub"}
      /\ Counts(cell, value[r])[1] \in Int /\ Counts(cell, w)[1] = Counts(cell, value[r])[1] + n
  <2>1. Op[u] = "sub" /\ cell = "AtomicU64" => value[r] + One(u) >= 0
    BY StoredSteady DEF Types, Typed, Called, ValuesSound
  <2> QED
    BY <2>1, StoreCounts, NoResetBefore, ObserverAssumption
<1>3. /\ \A x \in Updates : upc'[x] = IF x = u THEN "returned" ELSE upc[x]
      /\ \A b \in Updates : value'[b] = IF b = r THEN w ELSE value[b]
      /\ Drainers \subseteq Observers
  BY <1>1, <1>2, BalanceTypes DEF Types, Typed
<1>4. GivenAll(k)' = GivenAll(k)
  <2>1. \A o \in Drainers : Given(o, k)' = Given(o, k)
    BY <1>1, <1>3, GivenSame
  <2> QED
    BY <1>1, <2>1, GivenStay
<1>5. Visible(k)' = Visible(k)
  BY <1>1, VisibleStay
<1>6. \A op : /\ Op[u] = op /\ Key[u] = k => Applied(op, k)' = Applied(op, k) \cup {u}
              /\ ~(Op[u] = op /\ Key[u] = k) => Applied(op, k)' = Applied(op, k)
  BY <1>3 DEF Applied
<1>7. u \notin lost
  BY DEF Overtaken
<1>8. CASE Drained(r) \/ Key[u] # k
  <2>1. \A op : Applied(op, k)' \ lost' = Applied(op, k) \ lost
    <3>1. CASE Drained(r)
      <4>1. \A op : u \notin Applied(op, k)
        BY DEF Applied
      <4>2. lost' = lost \cup {u}
        BY <1>1, <3>1
      <4>3. \A op : Applied(op, k)' \subseteq Applied(op, k) \cup {u} /\ Applied(op, k) \subseteq Applied(op, k)'
        BY <1>6
      <4> QED
        BY <4>1, <4>2, <4>3
    <3>2. CASE Key[u] # k
      <4>1. \A op : Applied(op, k)' = Applied(op, k) /\ u \notin Applied(op, k)
        BY <1>6, <3>2 DEF Applied
      <4> QED
        BY <1>1, <4>1
    <3> QED
      BY <1>8, <3>1, <3>2
  <2>2. Net(k)' = Net(k)
    BY <2>1 DEF Net
  <2>3. r \notin Visible(k)
    <3>1. CASE Drained(r) /\ Key[u] = k
      BY <3>1, DrainedIs DEF Under
    <3>2. CASE Key[u] # k
      <4>1. \A b \in Visible(k) : Key[b] = k
        BY <1>3, ObserverAssumption DEF Visible, Named
      <4> QED
        BY <1>2, <3>2, <4>1
    <3> QED
      BY <1>8, <3>1, <3>2
  <2>4. \A b \in Visible(k) : value'[b] = value[b]
    BY <1>3, <2>3 DEF Visible
  <2>5. Kept(k)' = Kept(k)
    BY <1>1, <1>5, <2>4, KeptStay
  <2> QED
    BY <1>4, <2>2, <2>5 DEF Even
<1>9. CASE ~Drained(r) /\ Key[u] = k
  <2>1. r \in Visible(k)
    BY <1>9, DrainedIs DEF Under
  <2>2. Net(k)' = Net(k) + n
    <3> DEFINE A == Applied("add", k) \ lost
               S == Applied("sub", k) \ lost
    <3>1. IsFiniteSet(A) /\ IsFiniteSet(S) /\ Cardinality(A) \in Nat /\ Cardinality(S) \in Nat
      BY ReturnedCalls, FS_Subset, FS_CardinalityType
    <3>2. u \notin A /\ u \notin S /\ lost' = lost
      BY <1>1, <1>9 DEF Applied
    <3>3. Net(k) = Cardinality(A) - Cardinality(S)
      BY DEF Net
    <3>4. Net(k)' = Cardinality(Applied("add", k)' \ lost') - Cardinality(Applied("sub", k)' \ lost')
      BY DEF Net
    <3>5. CASE Op[u] = "add"
      <4>1. Applied("add", k)' \ lost' = A \cup {u} /\ Applied("sub", k)' \ lost' = S
        BY <1>6, <1>7, <1>9, <3>2, <3>5
      <4> HIDE DEF A, S
      <4>2. Cardinality(A \cup {u}) = Cardinality(A) + 1
        BY <3>1, <3>2, FS_AddElement
      <4>3. Net(k)' = Cardinality(A \cup {u}) - Cardinality(S)
        BY <3>4, <4>1
      <4>4. n = 1
        BY <3>5
      <4> HIDE DEF n
      <4> QED
        BY <3>1, <3>3, <4>1, <4>2, <4>3, <4>4
    <3>6. CASE Op[u] = "sub"
      <4>1. Applied("add", k)' \ lost' = A /\ Applied("sub", k)' \ lost' = S \cup {u}
        BY <1>6, <1>7, <1>9, <3>2, <3>6
      <4> HIDE DEF A, S
      <4>2. Cardinality(S \cup {u}) = Cardinality(S) + 1
        BY <3>1, <3>2, FS_AddElement
      <4>3. Net(k)' = Cardinality(A) - Cardinality(S \cup {u})
        BY <3>4, <4>1
      <4>4. n = -1
        BY <3>6
      <4> HIDE DEF n
      <4> QED
        BY <3>1, <3>3, <4>1, <4>2, <4>3, <4>4
    <3> QED
      BY <1>2, <3>5, <3>6
  <2> DEFINE f == [c \in Visible(k) |-> Counts(cell, value[c])[1]]
             g == [c \in Visible(k) |-> Counts(cell, value'[c])[1]]
  <2>3. Visible(k) \subseteq Updates /\ IsFiniteSet(Visible(k))
        /\ \A c \in Updates : Counts(cell, value[c])[1] \in Int
    BY BalanceTypes
  <2>4. /\ \A c \in Visible(k) : f[c] \in Int /\ g[c] \in Int
        /\ \A c \in Visible(k) \ {r} : f[c] = g[c]
        /\ g[r] - f[r] = n
    <3>1. Counts(cell, value'[r])[1] = Counts(cell, value[r])[1] + n
      BY <1>2, <1>3
    <3>2. \A c \in Visible(k) : c # r => value'[c] = value[c]
      BY <1>3, <2>3
    <3> QED
      BY <1>2, <2>1, <2>3, <3>1, <3>2
  <2>5. cell' = cell /\ kind' = kind
    BY <1>1, SameWorld
  <2>6. Kept(k) = SumOf(f, Visible(k))
    BY DEF Kept
  <2>7. Kept(k)' = SumOf([c \in Visible(k)' |-> Counts(cell', value'[c])[1]], Visible(k)')
    BY DEF Kept
  <2>8. Kept(k)' = SumOf(g, Visible(k))
    BY <1>5, <2>5, <2>7
  <2> HIDE DEF f, g, n, r
  <2>9. /\ SumOf(f, Visible(k)) \in Int
        /\ SumOf(g, Visible(k)) = SumOf(f, Visible(k)) + (g[r] - f[r])
    BY <2>1, <2>3, <2>4, SumsDiffer
  <2>10. Kept(k)' = Kept(k) + n
    BY <2>4, <2>6, <2>8, <2>9
  <2>11. GivenAll(k) \in Int /\ Kept(k) \in Int /\ Net(k) \in Int
    BY BalanceTypes
  <2>12. n \in Int
    BY DEF n
  <2> QED
    BY <1>4, <2>2, <2>10, <2>11, <2>12 DEF Even
<1> QED
  BY <1>8, <1>9

\* A step that moves nothing keeps the balance.
LEMMA EvenQuiet ==
    ASSUME Types, [Next]_vars, NEW k \in Keys, Even(k),
           UNCHANGED <<value, lost>>,
           \A u \in Updates : upc'[u] = "returned" <=> upc[u] = "returned",
           Visible(k)' = Visible(k), \A o \in Drainers : Given(o, k)' = Given(o, k)
    PROVE  Even(k)'
<1>1. world' = world
  BY AddedStep
<1>2. GivenAll(k)' = GivenAll(k)
  BY <1>1, GivenStay
<1>3. Kept(k)' = Kept(k)
  BY <1>1, KeptStay
<1>4. Net(k)' = Net(k)
  BY NetStay
<1> QED
  BY <1>2, <1>3, <1>4 DEF Even

\* A take moves the buckets from the map to the table.
LEMMA EvenBegin ==
    ASSUME Types, Clocks, Named, [Next]_vars, NEW k \in Keys, Even(k), NEW o \in Observers,
           BeginVisit(o) \/ BeginTake(o)
    PROVE  Even(k)'
<1>1. /\ UNCHANGED <<value, lost, upc, series, exported, shed>>
      /\ o \in world.observers /\ opc[o] = "idle" /\ todo' = [todo EXCEPT ![o] = Live]
  BY DEF BeginVisit, BeginTake, Begin, source, updates, observer, outcome
<1>2. world' = world /\ Drainers' = Drainers /\ Drainers \subseteq Observers
  BY AddedStep, BalanceTypes DEF Drainers
<1>3. \A p \in Drainers : Given(p, k)' = Given(p, k)
  BY <1>1, <1>2, GivenSame
<1>4. \A p \in Observers : todo'[p] = IF p = o THEN Live ELSE todo[p]
  BY <1>1 DEF Types, Typed
<1>5. Visible(k)' = Visible(k)
  <2>1. CASE BeginVisit(o)
    <3>1. o \notin Drainers /\ bucket' = bucket
      BY <2>1 DEF BeginVisit, Drainers, source
    <3>2. \A p \in Drainers : todo'[p] = todo[p]
      BY <1>2, <1>4, <3>1
    <3> QED
      BY <1>2, <3>1, <3>2, VisibleStay
  <2>2. CASE BeginTake(o)
    <3>1. o \in Drainers /\ bucket' = [j \in Keys |-> None]
      BY <1>1, <2>2 DEF BeginTake, Drainers
    <3>2. todo[o] = {}
      BY <1>1 DEF Clocks, Clock, PollTimes
    <3>3. \A b \in Updates : bucket'[k] # b
      BY <3>1, ObserverAssumption
    <3>4. \A b \in Updates : <<k, b>> \in Live <=> bucket[k] = b
      BY LiveIs, ObserverAssumption
    <3>5. \A b \in Updates :
              (\E p \in Drainers : <<k, b>> \in todo'[p])
                 <=> bucket[k] = b \/ \E p \in Drainers : <<k, b>> \in todo[p]
      <4> SUFFICES ASSUME NEW b \in Updates
                   PROVE  (\E p \in Drainers : <<k, b>> \in todo'[p])
                             <=> bucket[k] = b \/ \E p \in Drainers : <<k, b>> \in todo[p]
        OBVIOUS
      <4>1. \A p \in Drainers : <<k, b>> \in todo'[p] <=> (p = o /\ bucket[k] = b) \/ <<k, b>> \in todo[p]
        BY <1>2, <1>4, <3>2, <3>4
      <4> QED
        BY <3>1, <4>1
    <3>6. Visible(k)' = {b \in Updates : bucket'[k] = b \/ \E p \in Drainers : <<k, b>> \in todo'[p]}
      BY <1>2 DEF Visible
    <3> QED
      BY <3>3, <3>5, <3>6 DEF Visible
  <2> QED
    BY <2>1, <2>2
<1> QED
  BY <1>1, <1>3, <1>5, EvenQuiet

\* The visit of another observer moves nothing.
LEMMA EvenVisit ==
    ASSUME Types, [Next]_vars, NEW k \in Keys, Even(k), NEW o \in Observers, VisitBucket(o)
    PROVE  Even(k)'
<1>1. Mode[o] # "Destructive" /\ \E e \in todo[o] : Visits(o, e)
  BY Readers
<1> PICK e \in todo[o] : Visits(o, e)
  BY <1>1
<1>2. /\ UNCHANGED <<bucket, value, lost, upc, exported, shed>>
      /\ todo' = [todo EXCEPT ![o] = @ \ {e}]
  BY DEF Visits, source, updates, outcome, history
<1>3. o \notin Drainers /\ Drainers \subseteq Observers /\ world' = world
  BY <1>1, AddedStep, BalanceTypes DEF Drainers
<1>4. \A p \in Drainers : series'[p] = series[p] /\ todo'[p] = todo[p]
  <2>1. \A p \in Observers : p # o => series'[p] = series[p]
    BY DEF Visits, Record, Types, Typed
  <2> QED
    BY <1>2, <1>3, <2>1 DEF Types, Typed
<1>5. \A p \in Drainers : Given(p, k)' = Given(p, k)
  BY <1>2, <1>3, <1>4, GivenSame
<1>6. Visible(k)' = Visible(k)
  BY <1>2, <1>3, <1>4, VisibleStay
<1> QED
  BY <1>2, <1>5, <1>6, EvenQuiet

\* What is read of a taken bucket is reported, and it is not read again.
LEMMA EvenRead ==
    ASSUME Types, Clocks, Named, Watching, TablesApart, [Next]_vars, NEW k \in Keys, Even(k),
           NEW o \in Observers, ReadBucket(o)
    PROVE  Even(k)'
<1>1. Mode[o] = "Destructive" /\ \E e \in todo[o] : Reads(o, e)
  BY Readers
<1> PICK e \in todo[o] : Reads(o, e)
  BY <1>1
<1> DEFINE b == e[2]
           v == value[b]
           n == Counts(cell, v)[1]
<1>2. /\ UNCHANGED <<bucket, value, lost, upc, exported, shed>>
      /\ todo' = [todo EXCEPT ![o] = @ \ {e}]
  BY DEF Reads, source, updates, outcome, history
<1>3. /\ e[1] \in Keys /\ b \in Updates /\ e = <<e[1], b>> /\ Sound(kind, cell, v)
      /\ world' = world /\ Drainers' = Drainers /\ Drainers \subseteq Observers
      /\ cell \in Cells /\ 1 \in 1 .. Width /\ Width = Size(cell)
  BY RecordedSound, AddedStep, BalanceTypes, TheCell, Sizes DEF Drainers, Types, Typed
<1>4. o \in Drainers
  <2>1. opc[o] = "observing"
    BY DEF Clocks, Clock, PollTimes, Types, Typed
  <2> QED
    BY <1>1, <2>1 DEF Watching, Drainers
<1>5. \A p \in Observers : todo'[p] = IF p = o THEN todo[o] \ {e} ELSE todo[p]
  BY <1>2 DEF Types, Typed
<1>6. \A p \in Drainers : p # o => Given(p, k)' = Given(p, k)
  <2>1. \A p \in Observers : p # o => series'[p] = series[p]
    BY DEF Reads, Record, Types, Typed
  <2> QED
    BY <1>2, <1>3, <2>1, GivenSame
<1>7. Net(k)' = Net(k)
  BY <1>2, NetStay
<1>8. CASE k # e[1]
  <2>1. series'[o][k] = series[o][k]
    <3>1. \A w : Record(o, e[1], w) => series'[o][k] = series[o][k]
      BY <1>8 DEF Record, Types, Typed
    <3> QED
      BY <3>1 DEF Reads
  <2>2. \A p \in Drainers : Given(p, k)' = Given(p, k)
    BY <1>2, <1>3, <1>6, <2>1, GivenSame
  <2>3. \A p \in Drainers, c \in Updates : <<k, c>> \in todo'[p] <=> <<k, c>> \in todo[p]
    BY <1>3, <1>5, <1>8
  <2>4. Visible(k)' = Visible(k)
    BY <1>2, <1>3, <2>3 DEF Visible
  <2> QED
    BY <1>2, <2>2, <2>4, EvenQuiet
<1>9. CASE k = e[1]
  <2>1. Visible(k)' = Visible(k) \ {b} /\ b \in Visible(k)
    <3>1. bucket[k] # b
      BY <1>1, <1>9 DEF Named
    <3>2. \A p \in Drainers : p # o => <<k, b>> \notin todo[p]
      BY <1>1, <1>3, <1>9 DEF TablesApart, Drainers
    <3>3. \A p \in Drainers, c \in Updates :
              <<k, c>> \in todo'[p] <=> <<k, c>> \in todo[p] /\ c # b
      BY <1>3, <1>5, <1>9, <3>2
    <3>4. Visible(k)' = {c \in Updates : bucket[k] = c \/ \E p \in Drainers : <<k, c>> \in todo'[p]}
      BY <1>2, <1>3 DEF Visible
    <3>5. b \in Visible(k)
      BY <1>3, <1>4, <1>9 DEF Visible
    <3>6. \A c \in Updates : (bucket[k] = c \/ \E p \in Drainers : <<k, c>> \in todo'[p])
                                <=> (bucket[k] = c \/ \E p \in Drainers : <<k, c>> \in todo[p]) /\ c # b
      BY <3>1, <3>3
    <3> QED
      BY <3>4, <3>5, <3>6 DEF Visible
  <2>2. GivenAll(k)' = GivenAll(k) + n
    <3>1. n \in Int /\ Given(o, k) \in Int /\ Reports(o, k)[1] \in Int /\ shed[o][k] \in Int
      BY <1>3, BalanceTypes
    <3>2. CASE is_initial(cell, v)
      <4>1. n = 0
        <5>1. CASE cell = "Bucket"
          BY <1>3, <3>2, <5>1, CountsOfBucket DEF is_initial, Sound, IsValue
        <5>2. CASE cell # "Bucket"
          BY <3>2, <5>2 DEF is_initial, Counts
        <5> QED
          BY <5>1, <5>2
      <4>2. series' = series
        BY <3>2 DEF Reads
      <4>3. \A p \in Drainers : Given(p, k)' = Given(p, k)
        BY <1>2, <1>3, <4>2, GivenSame
      <4>4. GivenAll(k)' = GivenAll(k) /\ GivenAll(k) \in Int
        BY <1>3, <4>3, GivenStay, BalanceTypes
      <4> HIDE DEF n
      <4> QED
        BY <4>1, <4>4
    <3>3. CASE ~is_initial(cell, v)
      <4>1. Record(o, k, v)
        BY <1>9, <3>3 DEF Reads
      <4>2. Grows(o, k, v)
        BY <1>3, <4>1, RecordTypes DEF Types, ValuesSound
      <4>3. Reports(o, k)'[1] = Reports(o, k)[1] + n
        BY <1>2, <1>3, <4>2, ReportsRecord
      <4>4. Given(o, k)' = Given(o, k) + n
        <5>1. Given(o, k)' = Reports(o, k)'[1] + shed'[o][k]
          BY DEF Given
        <5> HIDE DEF n
        <5> QED
          BY <1>2, <3>1, <4>3, <5>1 DEF Given
      <4> HIDE DEF n
      <4> QED
        BY <1>3, <1>4, <1>6, <3>1, <4>4, GivenMore
    <3> QED
      BY <3>2, <3>3
  <2>3. Kept(k) = Kept(k)' + n /\ Kept(k)' \in Int
    <3> DEFINE f == [c \in Visible(k) |-> Counts(cell, value[c])[1]]
               g == [c \in Visible(k) \ {b} |-> Counts(cell, value[c])[1]]
    <3>1. IsFiniteSet(Visible(k)) /\ \A c \in Visible(k) : f[c] \in Int
      BY BalanceTypes
    <3>2. IsFiniteSet(Visible(k) \ {b}) /\ \A c \in Visible(k) \ {b} : f[c] = g[c]
      BY <3>1, FS_RemoveElement
    <3>3. f[b] = n
      BY <2>1
    <3>4. cell' = cell /\ kind' = kind
      BY <1>3, SameWorld
    <3>5. Kept(k) = SumOf(f, Visible(k))
      BY DEF Kept
    <3>6. Kept(k)' = SumOf([c \in Visible(k)' |-> Counts(cell', value'[c])[1]], Visible(k)')
      BY DEF Kept
    <3>7. Kept(k)' = SumOf(g, Visible(k) \ {b})
      BY <1>2, <2>1, <3>4, <3>6
    <3> HIDE DEF f, g, n, b
    <3>8. SumOf(f, Visible(k) \ {b}) \in Int /\ SumOf(f, Visible(k)) = SumOf(f, Visible(k) \ {b}) + f[b]
      BY <2>1, <3>1, SumTake
    <3>9. SumOf(f, Visible(k) \ {b}) = SumOf(g, Visible(k) \ {b})
      BY <3>2, SumsAgree
    <3> QED
      BY <3>3, <3>5, <3>7, <3>8, <3>9
  <2>4. GivenAll(k) \in Int /\ n \in Int
    BY <1>3, BalanceTypes
  <2> HIDE DEF n
  <2> QED
    BY <1>7, <2>2, <2>3, <2>4 DEF Even
<1> QED
  BY <1>8, <1>9

\* An export or a reset moves what an observer has, and keeps the sum.
LEMMA EvenOut ==
    ASSUME TextsTell, Types, [Next]_vars, NEW k \in Keys, Even(k), NEW o \in Observers,
           Export(o) \/ Reset(o)
    PROVE  Even(k)'
<1>1. /\ UNCHANGED <<bucket, value, todo, lost, upc>> /\ world' = world
      /\ series' = [series EXCEPT ![o] = NoSeries]
  BY AddedStep DEF Export, Reset, source, updates, progress, history
<1>2. Drainers \subseteq Observers /\ 1 \in 1 .. Width
  BY BalanceTypes, TheCell, Sizes DEF Types, Typed
<1>3. series'[o] = NoSeries /\ \A p \in Observers : p # o => series'[p] = series[p]
  BY <1>1 DEF Types, Typed
<1>4. /\ Out(o, k)[1] \in Int /\ Pending(o, k) \in Int /\ Delivered(o, k) = Out(o, k)[1]
      /\ Reports(o, k)[1] = Out(o, k)[1] + Pending(o, k) /\ shed[o][k] \in Int
  BY <1>2, ReportsType, BalanceTypes DEF Pending, Delivered, Out
<1>5. CASE Export(o)
  <2>1. Deliver(o, into_wire(o)) /\ series[o] # NoSeries
    BY <1>5 DEF Export
  <2>2. into_wire(o).is = "Err" \/ into_wire(o).is = "Some"
    BY <2>1, Converted, TheCell DEF Types, Typed, ValuesSound
  <2>3. CASE into_wire(o).is = "Err"
    <3>1. exported' = exported /\ shed' = [shed EXCEPT ![o] = ShedSeries(o)]
      BY <2>1, <2>3 DEF Deliver
    <3>2. /\ shed'[o][k] = shed[o][k] + Pending(o, k)
          /\ \A p \in Observers : p # o => shed'[p] = shed[p]
      BY <3>1 DEF ShedSeries, Types, Typed
    <3>3. Reports(o, k)'[1] = Out(o, k)[1]
      BY <1>1, <1>2, <1>3, <3>1, ReportsExport
    <3>4. Given(o, k)' = Reports(o, k)'[1] + shed'[o][k]
      BY DEF Given
    <3>5. Given(o, k)' = Given(o, k)
      BY <1>4, <3>2, <3>3, <3>4 DEF Given
    <3>6. \A p \in Drainers : Given(p, k)' = Given(p, k)
      BY <1>1, <1>2, <1>3, <3>1, <3>2, <3>5, GivenSame
    <3> QED
      BY <1>1, <3>6, EvenQuiet, VisibleStay
  <2>4. CASE into_wire(o).is = "Some"
    <3>1. exported' = [exported EXCEPT ![o] = Append(@, into_wire(o).metric)] /\ shed' = shed
      BY <2>1, <2>4 DEF Deliver
    <3>2. /\ exported'[o] = Append(exported[o], into_wire(o).metric)
          /\ \A p \in Observers : p # o => exported'[p] = exported[p]
      BY <3>1 DEF Types, Typed
    <3>3. Reports(o, k)'[1] = Reports(o, k)[1]
      BY <1>1, <1>2, <1>3, <2>4, <3>2, ReportsExport
    <3>4. Given(o, k)' = Given(o, k)
      BY <3>1, <3>3 DEF Given
    <3>5. \A p \in Drainers : Given(p, k)' = Given(p, k)
      BY <1>1, <1>2, <1>3, <3>1, <3>2, <3>4, GivenSame
    <3> QED
      BY <1>1, <3>5, EvenQuiet, VisibleStay
  <2> QED
    BY <2>2, <2>3, <2>4
<1>6. CASE Reset(o)
  <2>1. exported' = [exported EXCEPT ![o] = <<>>] /\ shed' = [shed EXCEPT ![o] = ShedAll(o)]
    BY <1>6 DEF Reset
  <2>2. /\ exported'[o] = <<>> /\ shed'[o][k] = shed[o][k] + Pending(o, k) + Delivered(o, k)
        /\ \A p \in Observers : p # o => exported'[p] = exported[p] /\ shed'[p] = shed[p]
    BY <2>1 DEF ShedAll, Types, Typed
  <2>3. Reports(o, k)'[1] = 0
    BY <1>1, <1>2, <1>3, <2>2, ReportsExport
  <2>4. Given(o, k)' = Reports(o, k)'[1] + shed'[o][k]
    BY DEF Given
  <2>5. Given(o, k)' = Given(o, k)
    BY <1>4, <2>2, <2>3, <2>4 DEF Given
  <2>6. \A p \in Drainers : Given(p, k)' = Given(p, k)
    BY <1>1, <1>2, <1>3, <2>2, <2>5, GivenSame
  <2> QED
    BY <1>1, <2>6, EvenQuiet, VisibleStay
<1> QED
  BY <1>5, <1>6

\* Nor does a lookup, a load, a failed exchange or the end of an observation.
LEMMA EvenRest ==
    ASSUME Types, [Next]_vars, NEW k \in Keys, Even(k),
           \/ UNCHANGED vars
           \/ \E u \in Updates : LookupDup(u) \/ insert_dup(u) \/ LoadBits(u) \/ CompareExchangeFails(u)
           \/ \E o \in Observers : EndObserve(o)
    PROVE  Even(k)'
<1>1. UNCHANGED <<world, bucket, value, todo, lost, series, exported, shed>>
  BY DEF vars, LookupDup, insert_dup, LoadBits, CompareExchangeFails, EndObserve, source, progress, observer, outcome, history
<1>2. \A u \in Updates : upc'[u] = "returned" <=> upc[u] = "returned"
  <2>1. \/ upc' = upc
        \/ \E u \in Updates : \E s \in {"update", "exchange"} :
              upc[u] # "returned" /\ upc' = [upc EXCEPT ![u] = s]
    BY DEF vars, LookupDup, insert_dup, LoadBits, CompareExchangeFails, EndObserve, updates
  <2> QED
    BY <2>1 DEF Types, Typed
<1>3. Drainers \subseteq Observers
  BY BalanceTypes
<1>4. \A o \in Drainers : Given(o, k)' = Given(o, k)
  BY <1>1, <1>3, GivenSame
<1>5. Visible(k)' = Visible(k)
  BY <1>1, VisibleStay
<1> QED
  BY <1>1, <1>2, <1>4, <1>5, EvenQuiet

\* Without a reset or set of the metric or a sub that sinks, every step keeps the
\* balance.
LEMMA BalancedStep ==
    ASSUME NoWrap, TextsTell, Types, Clocks, Named, Watching, ValuesBounded,
           TablesApart, Overtaken, Balanced, [Next]_vars
    PROVE  Balanced'
<1> SUFFICES ASSUME Steady', NEW k \in Keys
             PROVE  Even(k)'
  BY DEF Balanced
<1>1. Even(k)
  BY NoResetBefore DEF Balanced
<1>2. ASSUME NEW u \in Updates, Clear(u) \/ Set(u)
      PROVE  FALSE
  <2>1. Op[u] \in {"reset", "set"} /\ upc'[u] = "returned"
    BY <1>2 DEF Clear, Set, Store, Types, Typed
  <2> QED
    BY <2>1 DEF Steady
<1>3. ASSUME NEW u \in Updates, FetchAdd(u) \/ CompareExchange(u)
      PROVE  Even(k)'
  <2>1. upc[u] \in {"update", "exchange"} /\ Store(u, value[ref[u]])
    BY <1>3 DEF FetchAdd, CompareExchange, Types, Called
  <2> QED
    BY <1>1, <2>1, EvenStore
<1> QED
  BY <1>1, <1>2, <1>3, EvenCall, EvenBegin, EvenVisit, EvenRead, EvenOut, EvenRest DEF Next

LEMMA BalancedInitial ==
    ASSUME Init
    PROVE  TablesApart /\ Overtaken /\ Balanced
<1>1. Types
  BY TypesInitial
<1>2. TablesApart
  BY DEF Init, TablesApart
<1>3. Overtaken
  BY DEF Init, Overtaken, Under
<1>4. ASSUME NEW k \in Keys
      PROVE  Even(k)
  <2>1. Net(k) = 0
    <3>1. \A op : Applied(op, k) \ lost = {}
      BY DEF Init, Applied
    <3> QED
      BY <3>1, FS_EmptySet DEF Net
  <2>2. Kept(k) = 0
    <3>1. Visible(k) = {}
      BY ObserverAssumption, BalanceTypes, <1>1 DEF Init, Visible
    <3> QED
      BY <3>1, SumEmpty DEF Kept
  <2>3. GivenAll(k) = 0
    <3>1. Drainers \subseteq Observers /\ IsFiniteSet(Drainers) /\ 1 \in 1 .. Width /\ cell \in Cells
      BY <1>1, BalanceTypes, TheCell, Sizes DEF Types, Typed
    <3>2. ASSUME NEW o \in Observers
          PROVE  Given(o, k) = 0
      <4>1. exported[o] = <<>> /\ series[o] = NoSeries /\ shed[o][k] = 0
        BY DEF Init
      <4>2. Out(o, k)[1] = 0
        BY <3>1, <4>1, TotalOfNone DEF Out
      <4>3. PendingCounts(o, k)[1] = SumOf([n \in DOMAIN series[o][k] |->
                                       Counts(cell, series[o][k][n].value)[1]], DOMAIN series[o][k])
        BY <1>1, <3>1, PendingIs DEF PendingCounts, CountsIn, Types, ValuesSound
      <4>4. DOMAIN series[o][k] = {}
        BY <4>1, NoSeriesIs
      <4>5. PendingCounts(o, k)[1] = 0
        BY <4>3, <4>4, SumEmpty
      <4>6. Reports(o, k)[1] = 0
        BY <1>1, <3>1, <4>2, <4>5, ReportsType
      <4> QED
        BY <4>1, <4>6 DEF Given
    <3> DEFINE f == [o \in Drainers |-> Given(o, k)]
    <3>3. \A o \in Drainers : f[o] = 0
      BY <3>1, <3>2
    <3> HIDE DEF f
    <3>4. SumOf(f, Drainers) = 0
      BY <3>1, <3>3, SumOfNothing
    <3> QED
      BY <3>4 DEF GivenAll, f
  <2> QED
    BY <2>1, <2>2, <2>3 DEF Even
<1> QED
  BY <1>1, <1>2, <1>3, <1>4 DEF Balanced

\* With no reset or set of the metric and no sub that takes a u64 below zero,
\* destructive observers report each add once, but for those whose call was
\* overlapped by a take, and those that an alias led to a bucket out of the map,
\* which there is only if an overlapped call inserted it (DrainedOnceOrLate of
\* Observer); if the text of attributes, where it is what is read, tells them
\* apart, and no u64 wraps.
THEOREM DrainedOnce ==
    ASSUME TextsTell, NoWrap
    PROVE  Safety => []DrainedOnceOrLate
<1>1. Types /\ Named /\ Overtaken /\ Balanced => DrainedOnceOrLate
  <2> SUFFICES ASSUME Types, Named, Overtaken, Balanced
               PROVE  DrainedOnceOrLate
    OBVIOUS
  <2> DEFINE drainers == {o \in world.observers : Mode[o] = "Destructive"}
             unread(k) == {e[2] : e \in (UNION {todo[o] : o \in drainers}) \cap ({k} \X Updates)}
             visible(k) == unread(k) \cup (Range(bucket) \cap {u \in Updates : Key[u] = k})
             net(k) == Cardinality(Applied("add", k) \ lost) - Cardinality(Applied("sub", k) \ lost)
             given(k) == SumFunction([o \in drainers |-> Delivered(o, k) + Pending(o, k) + shed[o][k]])
             kept(k) == SumFunction([b \in visible(k) |-> Counts(cell, value[b])[1]])
  <2>1. drainers = Drainers /\ \A k : net(k) = Net(k)
    BY DEF Drainers, Net
  <2>2. ASSUME NEW k \in Keys
        PROVE  visible(k) = Visible(k)
    <3>1. \A o \in drainers : o \in Observers
      BY <2>1, BalanceTypes
    <3>2. ASSUME NEW b
          PROVE  b \in unread(k) <=> b \in Updates /\ \E o \in drainers : <<k, b>> \in todo[o]
      <4>1. b \in unread(k) => \E o \in drainers : \E e \in todo[o] : e \in {k} \X Updates /\ b = e[2]
        OBVIOUS
      <4>2. \A e \in {k} \X Updates : e = <<k, e[2]>> /\ e[2] \in Updates
        OBVIOUS
      <4>3. ASSUME b \in Updates, NEW o \in drainers, <<k, b>> \in todo[o]
            PROVE  b \in unread(k)
        <5>1. <<k, b>> \in (UNION {todo[p] : p \in drainers}) \cap ({k} \X Updates) /\ <<k, b>>[2] = b
          BY <4>3
        <5> QED
          BY <5>1
      <4> QED
        BY <4>1, <4>2, <4>3
    <3>3. Range(bucket) = {bucket[j] : j \in Keys}
      BY DEF Range, Types, Typed
    <3>4. \A b \in Updates : Key[b] = k /\ b \in Range(bucket) <=> bucket[k] = b
      <4>1. \A b \in Updates : \A j \in Keys : bucket[j] = b => Key[b] = j
        BY ObserverAssumption DEF Named
      <4> QED
        BY <3>3, <4>1
    <3>5. \A b : b \in visible(k) <=>
                    b \in Updates /\ (bucket[k] = b \/ \E o \in drainers : <<k, b>> \in todo[o])
      BY <3>2, <3>4
    <3> QED
      BY <2>1, <3>5 DEF Visible
  <2>3. ASSUME NEW k \in Keys
        PROVE  given(k) = GivenAll(k)
    <3> DEFINE f == [o \in drainers |-> Delivered(o, k) + Pending(o, k) + shed[o][k]]
               g == [o \in Drainers |-> Given(o, k)]
    <3>1. drainers = Drainers /\ Drainers \subseteq Observers /\ IsFiniteSet(Drainers) /\ 1 \in 1 .. Width
      BY <2>1, BalanceTypes, TheCell, Sizes DEF Types, Typed
    <3>2. ASSUME NEW o \in Observers
          PROVE  Delivered(o, k) + Pending(o, k) + shed[o][k] = Given(o, k)
      BY <3>1, ReportsType, BalanceTypes DEF Given, Pending, Delivered, Out
    <3>3. \A o \in Drainers : f[o] = g[o]
      BY <3>1, <3>2
    <3>4. DOMAIN f = Drainers
      BY <3>1
    <3>5. given(k) = SumFunction(f)
      OBVIOUS
    <3> HIDE DEF f, g, given
    <3>6. SumFunction(f) = SumOf(f, Drainers)
      BY <3>4, SumFunctionIs
    <3>7. SumOf(f, Drainers) = SumOf(g, Drainers)
      BY <3>1, <3>3, SumsAgree
    <3> QED
      BY <3>5, <3>6, <3>7 DEF GivenAll, g
  <2>4. ASSUME NEW k \in Keys
        PROVE  kept(k) = Kept(k)
    <3> DEFINE f == [b \in visible(k) |-> Counts(cell, value[b])[1]]
    <3>1. f = [b \in Visible(k) |-> Counts(cell, value[b])[1]] /\ DOMAIN f = Visible(k)
      BY <2>2
    <3>2. kept(k) = SumFunction(f)
      OBVIOUS
    <3> HIDE DEF f, kept
    <3> QED
      BY <3>1, <3>2, SumFunctionIs DEF Kept
  <2>5. ASSUME Steady, NEW k \in Keys
        PROVE  net(k) = given(k) + kept(k)
    BY <2>1, <2>3, <2>4, <2>5 DEF Balanced, Even
  <2>6. /\ lost \subseteq overlapped \cup misled
        /\ \A u \in misled : \E v \in overlapped :
              NeedsAlias[v] /\ Fingerprint[v] = Fingerprint[u]
    BY DEF Overtaken, Late
  <2> QED
    BY <2>5, <2>6 DEF DrainedOnceOrLate
<1>2. Init => TablesApart /\ Overtaken /\ Balanced
  BY BalancedInitial
<1>3. Types /\ Clocks /\ Named /\ Watching /\ Bounded
      /\ TablesApart /\ Overtaken /\ Balanced /\ [Next]_vars
         => TablesApart' /\ Overtaken' /\ Balanced'
  BY TablesStep, OvertakenStep, BalancedStep DEF Bounded
<1> QED
  BY <1>1, <1>2, <1>3, BoundedAlways, PTL DEF Safety

-----------------------------------------------------------------------------
(* What reports must include                                               *)

\* No reset of the metric and no take: every add stays in its bucket.
Quiet == Steady /\ NoTakeYet

Subs(k) == Cardinality(Applied("sub", k))

\* The calls and the aliases share the bucket in the map, and it counts exactly
\* what the calls add.
Whole ==
    /\ \A u \in Updates : upc[u] # "called" => ref[u] = bucket[Key[u]]
    /\ \A f \in Fingerprints : aliases[f] # None => aliases[f] = bucket[Key[aliases[f]]]
Exact == \A k \in Keys : \A i \in 1 .. Width : InMap(k)[i] = Added(k)[i] - Subs(k)

SeenSome ==
    \A o \in Observers, k \in Keys :
        /\ ~Polled(o) => seen[o][k] = Zero
        /\ \A i \in 1 .. Width : /\ seen[o][k][i] >= 0 /\ begun[o][k][i] >= 0
                                 /\ begun[o][k][i] <= Added(k)[i]

\* An observer its collector has not reset has not been polled before its start.
Started == \A o \in Observers : start_time[o] = created => start_time[o] <= ts[o]

\* A reset moves the start, for good.
LEMMA ResetMoves ==
    ASSUME Types, Started, NEW o \in Observers, Reset(o)
    PROVE  start_time'[o] # created
<1>1. /\ start_time[o] = created /\ start_time[o] \in Int /\ ts[o] \in Int
      /\ start_time'[o] = start_time[o] + Period * (tick(o, ts[o]) + 1)
  BY DEF Reset, Types, Typed
<1> DEFINE n == tick(o, ts[o])
<1>2. n \in Int /\ (0 <= n <=> Period * 0 <= ts[o] - start_time[o])
  BY <1>1, Ticks DEF tick
<1>3. 0 <= ts[o] - start_time[o]
  BY <1>1 DEF Started
<1>4. Period * 0 = 0
  BY Periods
<1>5. 0 <= n
  BY <1>2, <1>3, <1>4
<1> HIDE DEF n
<1>6. Period * 0 < Period * (n + 1) /\ Period * (n + 1) \in Int
  BY <1>2, <1>5, Periods
<1>7. start_time'[o] = start_time[o] + Period * (n + 1)
  BY <1>1 DEF n
<1> QED
  BY <1>1, <1>4, <1>6, <1>7

LEMMA StartedStep ==
    ASSUME Types, Started, [Next]_vars
    PROVE  Started'
<1>1. created' = created
  BY DEF Next, vars, history, GetOrCreate, LookupDup, insert_dup, Clear, Set, FetchAdd, LoadBits, CompareExchange,
         CompareExchangeFails, Store, BeginVisit, BeginTake, VisitBucket, ReadBucket,
         EndObserve, Export, Reset
<1>2. CASE UNCHANGED <<start_time, ts>>
  BY <1>1, <1>2 DEF Started
<1>3. ASSUME NEW o \in Observers, BeginVisit(o) \/ BeginTake(o)
      PROVE  Started'
  <2>1. start_time' = start_time /\ start_time[o] \in Int
        /\ \E t \in start_time[o] .. start_time[o] + MaxDelay : ts' = [ts EXCEPT ![o] = t]
    BY <1>3 DEF BeginVisit, BeginTake, Begin, observer, Types, Typed
  <2>2. start_time[o] <= ts'[o] /\ \A p \in Observers : p # o => ts'[p] = ts[p]
    BY <2>1, ObserverAssumption DEF Types, Typed
  <2> QED
    BY <1>1, <2>1, <2>2 DEF Started
<1>4. ASSUME NEW o \in Observers, Reset(o)
      PROVE  Started'
  <2>1. ts' = ts /\ \A p \in Observers : p # o => start_time'[p] = start_time[p]
    BY <1>4 DEF Reset, progress, Types, Typed
  <2> QED
    BY <1>1, <1>4, <2>1, ResetMoves DEF Started
<1> QED
  BY <1>2, <1>3, <1>4 DEF Next, vars, progress, observer, GetOrCreate, LookupDup, insert_dup, Clear, Set, FetchAdd, LoadBits,
         CompareExchange, CompareExchangeFails, Store, VisitBucket, ReadBucket, EndObserve, Export

\* What is quiet was quiet before, and nothing is taken or cleared.
LEMMA QuietBefore ==
    ASSUME Types, Clocks, Watching, Started, [Next]_vars, Quiet'
    PROVE  /\ Quiet
           /\ \A u \in Updates : ~Clear(u) /\ ~Set(u)
           /\ \A o \in Observers : ~BeginTake(o) /\ ~ReadBucket(o)
<1>1. world' = world /\ world.observers \subseteq Observers
  BY AddedStep, TheCell DEF Types, Typed
<1>2. Steady
  BY NoResetBefore DEF Quiet
<1>3. ASSUME NEW u \in Updates, Clear(u) \/ Set(u)
      PROVE  FALSE
  <2>1. Op[u] \in {"reset", "set"} /\ upc'[u] = "returned"
    BY <1>3 DEF Clear, Set, Store, Types, Typed
  <2> QED
    BY <2>1 DEF Quiet, Steady
<1>4. ASSUME NEW o \in Observers, BeginTake(o)
      PROVE  FALSE
  <2>1. o \in world.observers /\ Mode[o] = "Destructive" /\ opc'[o] = "observing"
    BY <1>4 DEF BeginTake, Begin, Types, Typed
  <2> QED
    BY <1>1, <2>1 DEF Quiet, NoTakeYet
<1>5. ASSUME NEW o \in world.observers, Mode[o] = "Destructive"
      PROVE  seq[o] = 0 /\ opc[o] = "idle" /\ start_time[o] = created
  <2>1. seq'[o] = 0 /\ opc'[o] = "idle" /\ start_time'[o] = created'
    BY <1>1, <1>5 DEF Quiet, NoTakeYet
  <2>2. created' = created
    BY DEF Next, vars, history, GetOrCreate, LookupDup, insert_dup, Clear, Set, FetchAdd, LoadBits, CompareExchange,
           CompareExchangeFails, Store, BeginVisit, BeginTake, VisitBucket, ReadBucket,
           EndObserve, Export, Reset
  <2>3. ASSUME NEW p \in Observers, EndObserve(p)
        PROVE  seq[o] = 0 /\ opc[o] = "idle" /\ start_time[o] = created
    <3>1. p # o
      BY <1>1, <2>1, <2>3 DEF EndObserve, Types, Typed
    <3> QED
      BY <1>1, <2>1, <2>2, <2>3, <3>1 DEF EndObserve, Types, Typed
  <2>4. ASSUME NEW p \in Observers, Reset(p)
        PROVE  seq[o] = 0 /\ opc[o] = "idle" /\ start_time[o] = created
    <3>1. p # o
      BY <2>1, <2>2, <2>4, ResetMoves
    <3> QED
      BY <1>1, <2>1, <2>2, <2>4, <3>1 DEF Reset, progress, Types, Typed
  <2>5. CASE ~\E p \in Observers : EndObserve(p) \/ Reset(p)
    <3>1. seq' = seq /\ start_time' = start_time
      BY <2>5 DEF Next, vars, observer, GetOrCreate, LookupDup, insert_dup, Clear, Set, FetchAdd, LoadBits, CompareExchange,
           CompareExchangeFails, Store, BeginVisit, BeginTake, VisitBucket, ReadBucket,
           EndObserve, Export, Reset
    <3>2. opc' = opc \/ \E p \in Observers : opc' = [opc EXCEPT ![p] = "observing"]
      BY <2>5 DEF Next, vars, progress, GetOrCreate, LookupDup, insert_dup, Clear, Set, FetchAdd, LoadBits, CompareExchange,
           CompareExchangeFails, Store, BeginVisit, BeginTake, Begin, VisitBucket, ReadBucket,
           EndObserve, Export, Reset
    <3>3. opc'[o] = opc[o] \/ opc'[o] = "observing"
      BY <1>1, <3>2 DEF Types, Typed
    <3> QED
      BY <2>1, <2>2, <3>1, <3>3
  <2> QED
    BY <2>3, <2>4, <2>5
<1>6. ASSUME NEW o \in Observers, ReadBucket(o)
      PROVE  FALSE
  <2>1. Mode[o] = "Destructive" /\ todo[o] # {}
    BY <1>6 DEF ReadBucket
  <2>2. opc[o] = "observing"
    BY <2>1 DEF Clocks, Clock, PollTimes, Types, Typed
  <2>3. o \in world.observers
    BY <2>2 DEF Watching
  <2> QED
    BY <1>5, <2>1, <2>2, <2>3
<1> QED
  BY <1>2, <1>3, <1>4, <1>5, <1>6 DEF Quiet, NoTakeYet

LEMMA WholeStep ==
    ASSUME Types, Clocks, Named, Watching, Started, [Next]_vars, Quiet', Whole
    PROVE  Whole'
<1>1. /\ \A u \in Updates : ~Clear(u) /\ ~Set(u)
      /\ \A o \in Observers : ~BeginTake(o) /\ ~ReadBucket(o)
  BY QuietBefore
<1>2. CASE /\ UNCHANGED <<bucket, aliases, ref>>
           /\ \A u \in Updates : upc'[u] # "called" => upc[u] # "called"
  BY <1>2 DEF Whole
<1>3. ASSUME NEW u \in Updates, GetOrCreate(u)
      PROVE  Whole'
  <2> DEFINE b == IF bucket[Key[u]] = None THEN u ELSE bucket[Key[u]]
  <2>1. /\ \E s : upc' = [upc EXCEPT ![u] = s]
        /\ bucket' = [bucket EXCEPT ![Key[u]] = b] /\ ref' = [ref EXCEPT ![u] = b]
        /\ aliases' = aliases
    BY <1>3 DEF GetOrCreate
  <2>2. /\ \A w \in Updates : w # u => upc'[w] = upc[w]
        /\ \A w \in Updates : ref'[w] = IF w = u THEN b ELSE ref[w]
        /\ \A k \in Keys : bucket'[k] = IF k = Key[u] THEN b ELSE bucket[k]
    BY <2>1 DEF Types, Typed
  <2>3. ASSUME NEW w \in Updates, upc'[w] # "called"
        PROVE  ref'[w] = bucket'[Key[w]]
    <3>1. Key[w] \in Keys /\ Key[u] \in Keys
      BY ObserverAssumption
    <3>2. CASE w = u
      BY <2>2, <3>1, <3>2
    <3>3. CASE w # u
      <4>1. ref[w] = bucket[Key[w]] /\ ref[w] \in Updates /\ ref[w] # None
        BY <2>2, <2>3, <3>3, ObserverAssumption DEF Whole, Types, Called
      <4> QED
        BY <2>2, <3>1, <3>3, <4>1
    <3> QED
      BY <3>2, <3>3
  <2>4. ASSUME NEW f \in Fingerprints, aliases[f] # None
        PROVE  aliases[f] = bucket'[Key[aliases[f]]]
    <3>1. aliases[f] = bucket[Key[aliases[f]]] /\ Key[aliases[f]] \in Keys
      BY <2>4, ObserverAssumption DEF Whole, Types, Typed
    <3> QED
      BY <2>2, <2>4, <3>1
  <2> QED
    BY <2>1, <2>3, <2>4 DEF Whole
<1>7. ASSUME NEW u \in Updates, LookupDup(u) \/ insert_dup(u)
      PROVE  Whole'
  <2> DEFINE f == Fingerprint[u]
  <2>1. /\ bucket' = bucket /\ upc' = [upc EXCEPT ![u] = "update"] /\ f \in Fingerprints
        /\ \/ /\ aliases' = aliases /\ ref' = [ref EXCEPT ![u] = aliases[f]] /\ aliases[f] # None
           \/ /\ ref' = ref /\ upc[u] # "called"
              /\ aliases' = aliases \/ aliases' = [aliases EXCEPT ![f] = ref[u]]
    BY <1>7, ObserverAssumption DEF LookupDup, insert_dup, source, Types, Called
  <2>2. \A w \in Updates : w # u => upc'[w] = upc[w]
    BY <2>1 DEF Types, Typed
  <2>3. CASE aliases' = aliases /\ ref' = [ref EXCEPT ![u] = aliases[f]] /\ aliases[f] # None
    <3>1. \A w \in Updates : ref'[w] = IF w = u THEN aliases[f] ELSE ref[w]
      BY <2>3 DEF Types, Typed
    <3>2. Key[u] = Key[aliases[f]]
      BY <2>1, <2>3 DEF Named
    <3>3. aliases[f] = bucket[Key[u]]
      BY <2>1, <2>3, <3>2 DEF Whole
    <3> QED
      BY <2>1, <2>2, <2>3, <3>1, <3>3 DEF Whole
  <2>4. CASE /\ ref' = ref /\ upc[u] # "called"
             /\ aliases' = aliases \/ aliases' = [aliases EXCEPT ![f] = ref[u]]
    <3>1. \A h \in Fingerprints : aliases'[h] = aliases[h] \/ aliases'[h] = ref[u]
      BY <2>1, <2>4 DEF Types, Typed
    <3>2. ref[u] = bucket[Key[u]] /\ Key[ref[u]] = Key[u]
      BY <2>4 DEF Whole, Named
    <3> QED
      BY <2>1, <2>2, <2>4, <3>1, <3>2 DEF Whole
  <2> QED
    BY <2>1, <2>3, <2>4
<1>4. ASSUME NEW u \in Updates, LoadBits(u) \/ CompareExchangeFails(u) \/ FetchAdd(u) \/ CompareExchange(u)
      PROVE  Whole'
  <2>1. /\ UNCHANGED <<bucket, aliases, ref>> /\ upc[u] \in {"update", "exchange"}
        /\ \E s : upc' = [upc EXCEPT ![u] = s]
    BY <1>4 DEF LoadBits, CompareExchangeFails, FetchAdd, CompareExchange, Store, source, updates, Types, Typed
  <2>2. \A w \in Updates : upc'[w] # "called" => upc[w] # "called"
    BY <2>1 DEF Types, Typed
  <2> QED
    BY <1>2, <2>1, <2>2
<1>5. ASSUME NEW o \in Observers, BeginVisit(o) \/ VisitBucket(o) \/ EndObserve(o) \/ Export(o) \/ Reset(o)
      PROVE  Whole'
  <2>1. UNCHANGED <<bucket, aliases, ref, upc>>
    BY <1>5 DEF BeginVisit, VisitBucket, EndObserve, Export, Reset, source, updates
  <2> QED
    BY <1>2, <2>1
<1>6. CASE UNCHANGED vars
  BY <1>2, <1>6 DEF vars, source, updates
<1> QED
  BY <1>1, <1>3, <1>4, <1>5, <1>6, <1>7 DEF Next

\* A store that does not wrap adds what the call counts for.
LEMMA StoreExact ==
    ASSUME NoWrap, Types, Named, ValuesBounded, Steady, NEW u \in Updates,
           upc[u] \in {"update", "exchange"}, Op[u] = "add"
    PROVE  \A i \in 1 .. Width : Counts(cell, Plus(cell, value[ref[u]], One(u)))[i]
                                    = Counts(cell, value[ref[u]])[i] + Gain(u)[i]
<1> DEFINE v == value[ref[u]]
           w == Plus(cell, v, One(u))
<1>1. /\ world \in Worlds /\ cell \in Cells /\ u \in world.calls /\ Width = Size(cell)
      /\ ref[u] \in Updates /\ Sound(kind, cell, v)
  BY TheCell, Sizes DEF Types, Typed, Called, ValuesSound
<1>3. \/ \A i \in 1 .. Width : Counts(cell, w)[i] = Counts(cell, v)[i] + Gain(u)[i]
      \/ cell = "AtomicU64" /\ w = 0 /\ v = Modulus - 1
  <2> HIDE DEF v
  <2> QED
    BY <1>1, AddCounts
<1>4. ~(cell = "AtomicU64" /\ w = 0 /\ v = Modulus - 1)
  <2> SUFFICES ASSUME cell = "AtomicU64", w = 0, v = Modulus - 1
               PROVE  FALSE
    OBVIOUS
  <2>1. Counts(cell, w)[1] = Counts(cell, v)[1] + 1
    BY StoreCounts
  <2>2. Counts(cell, w) = <<0>> /\ Counts(cell, v) = <<Modulus - 1>>
    BY DEF Counts
  <2> HIDE DEF v, w
  <2>3. 0 = Modulus - 1 + 1
    BY <2>1, <2>2
  <2> QED
    BY <2>3, Constants
<1> QED
  BY <1>3, <1>4

\* A call that returns is one more of those applied to its key.
LEMMA AppliedMore ==
    ASSUME Types, NEW u \in Updates, upc[u] # "returned", upc' = [upc EXCEPT ![u] = "returned"],
           NEW k \in Keys
    PROVE  /\ \A op : /\ Op[u] = op /\ Key[u] = k => Applied(op, k)' = Applied(op, k) \cup {u}
                      /\ ~(Op[u] = op /\ Key[u] = k) => Applied(op, k)' = Applied(op, k)
                      /\ u \notin Applied(op, k)
           /\ Subs(k) \in Nat
           /\ Op[u] = "sub" /\ Key[u] = k => Subs(k)' = Subs(k) + 1
           /\ ~(Op[u] = "sub" /\ Key[u] = k) => Subs(k)' = Subs(k)
<1>1. \A x \in Updates : upc'[x] = IF x = u THEN "returned" ELSE upc[x]
  BY DEF Types, Typed
<1>2. \A op : /\ Op[u] = op /\ Key[u] = k => Applied(op, k)' = Applied(op, k) \cup {u}
              /\ ~(Op[u] = op /\ Key[u] = k) => Applied(op, k)' = Applied(op, k)
              /\ u \notin Applied(op, k)
  BY <1>1 DEF Applied
<1>3. IsFiniteSet(Applied("sub", k)) /\ Subs(k) \in Nat
  BY ReturnedCalls DEF Subs
<1>4. Cardinality(Applied("sub", k) \cup {u}) = Subs(k) + 1
  BY <1>2, <1>3, FS_AddElement DEF Subs
<1>5. Op[u] = "sub" /\ Key[u] = k => Subs(k)' = Subs(k) + 1
  BY <1>2, <1>4 DEF Subs
<1>6. ~(Op[u] = "sub" /\ Key[u] = k) => Subs(k)' = Subs(k)
  BY <1>2 DEF Subs
<1> QED
  BY <1>2, <1>3, <1>5, <1>6

\* Subs are returned from, and stay so.
LEMMA SubsGrow ==
    ASSUME Types, [Next]_vars, NEW k \in Keys
    PROVE  /\ Subs(k) \in Nat /\ Subs(k)' \in Nat /\ Subs(k) <= Subs(k)'
           /\ kind # "Gauge" => Subs(k) = 0
<1>1. \A u \in Updates : upc[u] = "returned" => upc'[u] = "returned"
  BY AddedStep
<1>2. Applied("sub", k) \subseteq Applied("sub", k)' /\ Applied("sub", k)' \subseteq Updates
  BY <1>1 DEF Applied
<1>3. IsFiniteSet(Applied("sub", k)') /\ IsFiniteSet(Applied("sub", k))
  BY <1>2, ObserverAssumption, FS_Subset
<1>4. Cardinality(Applied("sub", k)) <= Cardinality(Applied("sub", k)')
  BY <1>2, <1>3, FS_Subset
<1>5. kind # "Gauge" => Applied("sub", k) = {}
  BY TheCell DEF Applied, Types, Typed, Called
<1> QED
  BY <1>3, <1>4, <1>5, FS_CardinalityType, FS_EmptySet DEF Subs

LEMMA InMapStay ==
    ASSUME world' = world, NEW k \in Keys, bucket'[k] = bucket[k],
           bucket[k] # None => value'[bucket[k]] = value[bucket[k]]
    PROVE  InMap(k)' = InMap(k)
<1>1. cell' = cell /\ kind' = kind /\ Width' = Width /\ Zero' = Zero
  BY SameWorld DEF Zero
<1> QED
  BY <1>1 DEF InMap

LEMMA CountsStay ==
    ASSUME world' = world, NEW k \in Keys,
           \A u \in Updates : upc'[u] = "returned" <=> upc[u] = "returned", sunk' = sunk
    PROVE  Added(k)' = Added(k) /\ Subs(k)' = Subs(k)
<1>1. \A op : Applied(op, k)' = Applied(op, k)
  BY DEF Applied
<1>2. cell' = cell /\ kind' = kind /\ Width' = Width
  BY SameWorld
<1>3. \A u : Gain(u)' = Gain(u)
  BY <1>2 DEF Gain, One
<1> QED
  BY <1>1, <1>2, <1>3 DEF Added, Raised, Subs

\* The bucket in the map counts what the stores to it add.
LEMMA ExactStore ==
    ASSUME NoWrap, Types, Named, ValuesBounded, Whole, Exact, [Next]_vars, Steady',
           NEW u \in Updates, upc[u] \in {"update", "exchange"}, Store(u, value[ref[u]])
    PROVE  Exact'
<1> DEFINE r == ref[u]
           w == Plus(cell, value[r], One(u))
<1>1. /\ value' = [value EXCEPT ![r] = w] /\ upc' = [upc EXCEPT ![u] = "returned"]
      /\ UNCHANGED <<world, bucket>> /\ upc[u] # "returned"
  BY DEF Store
<1>2. /\ r \in Updates /\ Key[r] = Key[u] /\ Key[u] \in Keys /\ r = bucket[Key[u]] /\ r # None
      /\ Counts(cell, w)[1] = Counts(cell, value[r])[1] + IF Op[u] = "sub" THEN -1 ELSE 1
      /\ Op[u] \in {"add", "sub"} /\ Steady /\ sunk = {} /\ sunk' = {}
  <2>1. Op[u] = "sub" /\ cell = "AtomicU64" => value[r] + One(u) >= 0
    BY StoredSteady DEF Types, Typed, Called, ValuesSound
  <2>2. Steady /\ sunk = {} /\ sunk' = {}
    BY NoResetBefore DEF Steady
  <2> QED
    BY <2>1, <2>2, StoreCounts, ObserverAssumption DEF Whole
<1>3. \A b \in Updates : value'[b] = IF b = r THEN w ELSE value[b]
  BY <1>1, <1>2 DEF Types, Typed
<1>4. /\ world \in Worlds /\ cell' = cell /\ kind' = kind /\ Width' = Width /\ cell \in Cells /\ Width = Size(cell)
      /\ 1 \in 1 .. Width
      /\ \A x \in Updates : upc[x] = "returned" => upc'[x] = "returned"
      /\ sunk \subseteq {x \in Updates : cell = "AtomicU64"}
  BY AddedStep, TheCell, Sizes DEF Types, Typed
<1> SUFFICES ASSUME NEW k \in Keys, NEW i \in 1 .. Width
             PROVE  InMap(k)'[i] = Added(k)'[i] - Subs(k)'
  BY <1>4 DEF Exact
<1>5. /\ InMap(k)[i] = Added(k)[i] - Subs(k) /\ Added(k)[i] \in Nat /\ Subs(k) \in Nat
  BY <1>4, AddedNat, SubsGrow DEF Exact
<1>6. CASE Key[u] # k
  <2>1. InMap(k)' = InMap(k)
    <3>1. bucket[k] # None => bucket[k] \in Updates /\ Key[bucket[k]] = k
      BY DEF Named, Types, Typed
    <3> QED
      BY <1>1, <1>2, <1>3, <1>6, <3>1, InMapStay
  <2>2. \A op : Applied(op, k)' = Applied(op, k)
    BY <1>1, <1>6, AppliedMore
  <2>3. \A x : Gain(x)' = Gain(x)
    BY <1>4 DEF Gain, One
  <2>4. Added(k)' = Added(k) /\ Subs(k)' = Subs(k)
    BY <1>2, <1>4, <2>2, <2>3 DEF Added, Raised, Subs
  <2> QED
    BY <1>5, <2>1, <2>4
<1>7. CASE Key[u] = k
  <2>1. InMap(k)[i] = Counts(cell, value[r])[i] /\ InMap(k)'[i] = Counts(cell, w)[i]
    BY <1>1, <1>2, <1>3, <1>4, <1>7 DEF InMap
  <2>2. CASE Op[u] = "add"
    <3>1. Counts(cell, w)[i] = Counts(cell, value[r])[i] + Gain(u)[i]
      BY <1>2, <2>2, StoreExact
    <3>2. Added(k)'[i] = Added(k)[i] + Gain(u)[i]
      <4>1. upc'[u] = "returned" /\ u \in Raised(k)' /\ \A x \in Updates : upc'[x] = "returned" => x = u \/ upc[x] = "returned"
        BY <1>1, <1>7, <2>2 DEF Types, Typed, Raised, Applied
      <4> QED
        BY <1>1, <1>2, <1>4, <1>7, <2>2, <4>1, AddedGrows
    <3>3. Subs(k)' = Subs(k)
      BY <1>1, <2>2, AppliedMore
    <3>4. Gain(u)[i] \in Int
      <4>1. Gain(u) \in [1 .. Width -> Nat]
        BY <1>4, <2>2, GainType
      <4> QED
        BY <4>1
    <3> HIDE DEF w, r
    <3> QED
      BY <1>5, <2>1, <3>1, <3>2, <3>3, <3>4
  <2>3. CASE Op[u] = "sub"
    <3>1. i = 1
      <4>1. cell # "Bucket"
        BY <1>1, <1>4, <2>3, TheCell DEF Types, Called
      <4> QED
        BY <1>4, <4>1 DEF Size
    <3>2. /\ Applied("add", k)' = Applied("add", k) /\ Applied("set", k)' = Applied("set", k)
          /\ Subs(k)' = Subs(k) + 1
      BY <1>1, <1>7, <2>3, AppliedMore
    <3>3. Added(k)' = Added(k)
      <4>1. \A x : Gain(x)' = Gain(x)
        BY <1>4 DEF Gain, One
      <4>2. Raised(k)' = Raised(k)
        BY <1>2, <3>2 DEF Raised
      <4> QED
        BY <1>4, <4>1, <4>2 DEF Added
    <3>4. Counts(cell, w)[1] = Counts(cell, value[r])[1] - 1 /\ Counts(cell, value[r])[1] \in Int
      BY <1>2, <1>4, <2>3, CountsType DEF Types, ValuesSound
    <3> HIDE DEF w, r
    <3> QED
      BY <1>5, <2>1, <3>1, <3>2, <3>3, <3>4
  <2> QED
    BY <1>2, <2>2, <2>3
<1> QED
  BY <1>6, <1>7

LEMMA ExactStep ==
    ASSUME NoWrap, Types, Clocks, Named, Watching, ValuesBounded, Started, [Next]_vars, Quiet',
           Whole, Exact
    PROVE  Exact'
<1>1. /\ \A u \in Updates : ~Clear(u) /\ ~Set(u)
      /\ \A o \in Observers : ~BeginTake(o) /\ ~ReadBucket(o)
  BY QuietBefore
<1>2. world' = world /\ Width' = Width /\ cell' = cell /\ kind' = kind
  BY AddedStep
<1>3. CASE /\ UNCHANGED <<bucket, value, sunk>>
           /\ \A u \in Updates : upc'[u] = "returned" <=> upc[u] = "returned"
  <2>1. ASSUME NEW k \in Keys
        PROVE  InMap(k)' = InMap(k) /\ Added(k)' = Added(k) /\ Subs(k)' = Subs(k)
    BY <1>2, <1>3, InMapStay, CountsStay
  <2> QED
    BY <1>2, <2>1 DEF Exact
<1>4. ASSUME NEW u \in Updates, GetOrCreate(u)
      PROVE  Exact'
  <2> DEFINE b == IF bucket[Key[u]] = None THEN u ELSE bucket[Key[u]]
  <2>1. /\ upc[u] = "called" /\ \E s \in {"insert_dup", "update"} : upc' = [upc EXCEPT ![u] = s]
        /\ bucket' = [bucket EXCEPT ![Key[u]] = b] /\ value' = value /\ sunk' = sunk
    BY <1>4 DEF GetOrCreate, history
  <2>2. /\ \A x \in Updates : upc'[x] = "returned" <=> upc[x] = "returned"
        /\ \A k \in Keys : bucket'[k] = IF k = Key[u] THEN b ELSE bucket[k]
    BY <2>1 DEF Types, Typed
  <2> SUFFICES ASSUME NEW k \in Keys, NEW i \in 1 .. Width
               PROVE  InMap(k)'[i] = Added(k)'[i] - Subs(k)'
    BY <1>2 DEF Exact
  <2>3. Added(k)' = Added(k) /\ Subs(k)' = Subs(k) /\ InMap(k)[i] = Added(k)[i] - Subs(k)
    BY <1>2, <2>1, <2>2, CountsStay DEF Exact
  <2>4. CASE k = Key[u] /\ bucket[k] = None
    <3>1. bucket'[k] = u /\ u # None /\ value'[u] = Initial(cell)
      BY <2>1, <2>2, <2>4, ObserverAssumption DEF Named
    <3>2. Counts(cell, Initial(cell))[i] = 0
      BY InitialCounts, TheCell, Sizes DEF Types, Typed
    <3>3. InMap(k)[i] = 0
      BY <2>4 DEF InMap, Zero
    <3>4. InMap(k)'[i] = 0
      BY <1>2, <3>1, <3>2 DEF InMap
    <3> QED
      BY <2>3, <3>3, <3>4
  <2>5. CASE ~(k = Key[u] /\ bucket[k] = None)
    <3>1. bucket'[k] = bucket[k]
      BY <2>2, <2>5
    <3>2. InMap(k)' = InMap(k)
      BY <1>2, <2>1, <3>1, InMapStay
    <3> QED
      BY <2>3, <3>2
  <2> QED
    BY <2>4, <2>5
<1>5. ASSUME NEW u \in Updates, LookupDup(u) \/ insert_dup(u) \/ LoadBits(u) \/ CompareExchangeFails(u)
      PROVE  Exact'
  <2>1. /\ UNCHANGED <<bucket, value, sunk>>
        /\ \/ upc' = upc
           \/ upc[u] # "returned" /\ \E s \in {"update", "exchange"} : upc' = [upc EXCEPT ![u] = s]
    BY <1>5 DEF LookupDup, insert_dup, LoadBits, CompareExchangeFails, source, history
  <2>2. \A w \in Updates : upc'[w] = "returned" <=> upc[w] = "returned"
    BY <2>1 DEF Types, Typed
  <2> QED
    BY <1>3, <2>1, <2>2
<1>6. ASSUME NEW u \in Updates, FetchAdd(u) \/ CompareExchange(u)
      PROVE  Exact'
  <2>1. upc[u] \in {"update", "exchange"} /\ Store(u, value[ref[u]])
    BY <1>6 DEF FetchAdd, CompareExchange
  <2> QED
    BY <2>1, ExactStore DEF Quiet
<1>7. ASSUME NEW o \in Observers, BeginVisit(o) \/ VisitBucket(o) \/ EndObserve(o) \/ Export(o) \/ Reset(o)
      PROVE  Exact'
  <2>1. UNCHANGED <<bucket, value, upc, sunk>>
    BY <1>7 DEF BeginVisit, VisitBucket, EndObserve, Export, Reset, source, updates, history
  <2> QED
    BY <1>3, <2>1
<1>8. CASE UNCHANGED vars
  BY <1>3, <1>8 DEF vars, source, updates, history
<1> QED
  BY <1>1, <1>4, <1>5, <1>6, <1>7, <1>8 DEF Next

\* What was in the map when an observation began or ended is counted still.
LEMMA SeenStep ==
    ASSUME Types, SeenSome, [Next]_vars
    PROVE  SeenSome'
<1>1. /\ world \in Worlds /\ world' = world /\ Width' = Width /\ Zero' = Zero
      /\ \A k \in Keys, i \in 1 .. Width :
            Added(k)[i] \in Nat /\ Added(k)'[i] \in Int /\ Added(k)[i] <= Added(k)'[i]
  <2>1. world' = world /\ Width' = Width
    BY AddedStep
  <2> QED
    BY <2>1, AddedUp DEF Zero, Types, Typed
<1>2. \A o \in Observers, k \in Keys, i \in 1 .. Width : seen[o][k][i] \in Int /\ begun[o][k][i] \in Int
  <2>1. \A o \in Observers, k \in Keys : seen[o][k] \in Vectors /\ begun[o][k] \in Vectors
    BY DEF Types, Typed
  <2> QED
    BY <2>1 DEF Vectors
<1>3. ASSUME NEW o \in Observers, NEW k \in Keys, seen'[o] = seen[o], begun'[o] = begun[o],
             ~Polled(o)' => ~Polled(o)
      PROVE  /\ ~Polled(o)' => seen'[o][k] = Zero
             /\ \A i \in 1 .. Width : /\ seen'[o][k][i] >= 0 /\ begun'[o][k][i] >= 0
                                      /\ begun'[o][k][i] <= Added(k)'[i]
  BY <1>1, <1>2, <1>3 DEF SeenSome
<1>4. CASE \A o \in Observers : seen'[o] = seen[o] /\ begun'[o] = begun[o] /\ (~Polled(o)' => ~Polled(o))
  BY <1>1, <1>3, <1>4 DEF SeenSome
<1>5. CASE UNCHANGED <<progress, observer, history>>
  BY <1>4, <1>5 DEF progress, observer, history, Polled
<1>6. ASSUME NEW u \in Updates,
             GetOrCreate(u) \/ LookupDup(u) \/ insert_dup(u)
             \/ Clear(u) \/ Set(u) \/ FetchAdd(u) \/ LoadBits(u)
             \/ CompareExchange(u) \/ CompareExchangeFails(u)
      PROVE  SeenSome'
  <2>1. UNCHANGED <<progress, observer, begun, seen>>
    BY <1>6 DEF GetOrCreate, LookupDup, insert_dup, Clear, Set, FetchAdd, LoadBits, CompareExchange, CompareExchangeFails, Store, history
  <2> QED
    BY <1>4, <2>1 DEF progress, observer, Polled
<1>7. ASSUME NEW o \in Observers, BeginVisit(o) \/ BeginTake(o)
      PROVE  SeenSome'
  <2>1. /\ seen' = seen /\ begun' = [begun EXCEPT ![o] = AddedNow] /\ seq' = seq
        /\ opc' = [opc EXCEPT ![o] = "observing"]
    BY <1>7 DEF BeginVisit, BeginTake, Begin, observer
  <2>2. /\ \A p \in Observers : begun'[p] = IF p = o THEN AddedNow ELSE begun[p]
        /\ \A p \in Observers : opc'[p] = IF p = o THEN "observing" ELSE opc[p]
    BY <2>1 DEF Types, Typed
  <2>3. \A p \in Observers : ~Polled(p)' => ~Polled(p)
    BY <2>1, <2>2 DEF Polled
  <2>4. \A k \in Keys, i \in 1 .. Width :
            /\ seen'[o][k][i] >= 0 /\ begun'[o][k][i] >= 0 /\ begun'[o][k][i] <= Added(k)'[i]
    <3>1. \A k \in Keys : begun'[o][k] = Added(k) /\ seen'[o][k] = seen[o][k]
      <4>1. \A k \in Keys : AddedNow[k] = Added(k)
        BY DEF AddedNow
      <4>2. begun'[o] = AddedNow /\ seen'[o] = seen[o]
        BY <2>1, <2>2
      <4> QED
        BY <4>1, <4>2
    <3> QED
      BY <1>1, <1>2, <3>1 DEF SeenSome
  <2>5. Polled(o)'
    BY <2>2 DEF Polled
  <2>6. \A p \in Observers, k \in Keys : p # o =>
             /\ ~Polled(p)' => seen'[p][k] = Zero
             /\ \A i \in 1 .. Width : /\ seen'[p][k][i] >= 0 /\ begun'[p][k][i] >= 0
                                      /\ begun'[p][k][i] <= Added(k)'[i]
    BY <1>3, <2>1, <2>2, <2>3
  <2> QED
    BY <1>1, <2>4, <2>5, <2>6 DEF SeenSome
<1>8. ASSUME NEW o \in Observers, VisitBucket(o) \/ ReadBucket(o) \/ Export(o)
      PROVE  SeenSome'
  <2>1. UNCHANGED <<seen, begun, opc, seq>>
    BY <1>8 DEF VisitBucket, ReadBucket, Export, history, progress
  <2> QED
    BY <1>4, <2>1 DEF Polled
<1>9. ASSUME NEW o \in Observers, EndObserve(o)
      PROVE  SeenSome'
  <2>1. /\ seen' = [seen EXCEPT ![o] = begun[o]] /\ begun' = begun
        /\ seq' = [seq EXCEPT ![o] = @ + 1] /\ opc' = [opc EXCEPT ![o] = "idle"]
    BY <1>9 DEF EndObserve
  <2>2. /\ \A p \in Observers : seen'[p] = IF p = o THEN begun[o] ELSE seen[p]
        /\ \A p \in Observers : seq'[p] = IF p = o THEN seq[o] + 1 ELSE seq[p]
        /\ \A p \in Observers : opc'[p] = IF p = o THEN "idle" ELSE opc[p]
        /\ seq[o] \in Nat
    BY <2>1 DEF Types, Typed
  <2>3. \A p \in Observers : p # o => (~Polled(p)' => ~Polled(p))
    BY <2>2 DEF Polled
  <2>4. Polled(o)'
    BY <2>2 DEF Polled
  <2>5. \A k \in Keys, i \in 1 .. Width :
            /\ seen'[o][k][i] >= 0 /\ begun'[o][k][i] >= 0 /\ begun'[o][k][i] <= Added(k)'[i]
    BY <1>1, <1>2, <2>1, <2>2 DEF SeenSome
  <2>6. \A p \in Observers, k \in Keys : p # o =>
             /\ ~Polled(p)' => seen'[p][k] = Zero
             /\ \A i \in 1 .. Width : /\ seen'[p][k][i] >= 0 /\ begun'[p][k][i] >= 0
                                      /\ begun'[p][k][i] <= Added(k)'[i]
    BY <1>3, <2>1, <2>2, <2>3
  <2> QED
    BY <1>1, <2>4, <2>5, <2>6 DEF SeenSome
<1>10. ASSUME NEW o \in Observers, Reset(o)
       PROVE  SeenSome'
  <2>1. /\ seen' = [seen EXCEPT ![o] = [k \in Keys |-> Zero]] /\ begun' = begun
        /\ seq' = [seq EXCEPT ![o] = 0] /\ opc' = opc
    BY <1>10 DEF Reset, progress
  <2>2. /\ \A p \in Observers : seen'[p] = IF p = o THEN [k \in Keys |-> Zero] ELSE seen[p]
        /\ \A p \in Observers : p # o => seq'[p] = seq[p]
    BY <2>1 DEF Types, Typed
  <2>3. \A p \in Observers : p # o => (~Polled(p)' => ~Polled(p))
    BY <2>1, <2>2 DEF Polled
  <2>4. \A k \in Keys : seen'[o][k] = Zero
    BY <2>2
  <2>5. \A k \in Keys, i \in 1 .. Width :
            /\ seen'[o][k][i] >= 0 /\ begun'[o][k][i] >= 0 /\ begun'[o][k][i] <= Added(k)'[i]
    BY <1>1, <1>2, <2>1, <2>4 DEF SeenSome, Zero
  <2>6. \A p \in Observers, k \in Keys : p # o =>
             /\ ~Polled(p)' => seen'[p][k] = Zero
             /\ \A i \in 1 .. Width : /\ seen'[p][k][i] >= 0 /\ begun'[p][k][i] >= 0
                                      /\ begun'[p][k][i] <= Added(k)'[i]
    BY <1>3, <2>1, <2>2, <2>3
  <2> QED
    BY <1>1, <2>4, <2>5, <2>6 DEF SeenSome
<1>11. CASE UNCHANGED vars
  BY <1>5, <1>11 DEF vars
<1> QED
  BY <1>6, <1>7, <1>8, <1>9, <1>10, <1>11 DEF Next

\* The newest of the readings of one metric.
Newest(r) ==
    LET e == CHOOSE e \in DOMAIN r : \A d \in DOMAIN r : r[d].at <= r[e].at
    IN  r[e].counts

LatestOr(o, metrics, k) ==
    IF \E j \in DOMAIN metrics : DOMAIN ReadMetric(o, metrics[j], k) # {}
    THEN Latest(ReadAll(o, metrics, k)) ELSE Zero

\* Of a metric just made, a reader takes the last snapshot of the series.
LEMMA NewestIs ==
    ASSUME TextsTell, Types, NEW o \in Observers, Clock(o), into_wire(o).is = "Some", NEW k \in Keys
    PROVE  LET r == ReadMetric(o, into_wire(o).metric, k)
               s == series[o][k]
           IN  /\ DOMAIN r = {} <=> s = <<>>
               /\ s # <<>> => Newest(r) = Counts(cell, s[Len(s)].value)
<1> DEFINE m == into_wire(o).metric
           r == ReadMetric(o, m, k)
           s == series[o][k]
           P == PlacesOf(o, m, k)
           n == Len(s)
           last == <<k, n>>
<1>1. cell \in Cells /\ kind \in Kinds /\ IsSeries(series[o]) /\ s \in Seq(Snapshot) /\ IsMetric(o, m)
  BY TheCell, PiecesAreMetrics DEF Types, Typed, ValuesSound
<1>2. /\ DOMAIN m.data_points = PlacesIn(series[o])
      /\ \A e \in PlacesIn(series[o]) : PointOf(o, series[o], start_time[o], e, m.data_points[e])
  BY <1>1, Converted
<1>3. \A e : e \in P <=> e \in Keys \X Nat /\ e[1] = k /\ e[2] \in DOMAIN s
  <2>1. \A e \in DOMAIN m.data_points : e[1] \in Keys
    BY <1>2 DEF PlacesIn
  <2>2. \A e \in DOMAIN m.data_points : Alike(o, k, e[1]) <=> e[1] = k
    BY <2>1, AlikeSame
  <2> QED
    BY <1>2, <2>2 DEF PlacesOf, PlacesIn
<1>4. n \in Nat /\ DOMAIN s = 1 .. n /\ (s = <<>> <=> n = 0)
  BY <1>1
<1>5. PICK h \in Bijection(P, DOMAIN r) :
             \A e \in P : /\ r[h[e]].counts = PointCounts(o, m.data_points[e])
                          /\ r[h[e]].at = IF Sink[o] = "otel" THEN m.data_points[e].time ELSE Rank(m, e)
  BY <1>1, Readings
<1>6. h \in [P -> DOMAIN r] /\ \A x \in DOMAIN r : \E e \in P : h[e] = x
  BY <1>5 DEF Bijection, Surjection
<1>7. DOMAIN r = {} <=> s = <<>>
  <2>1. P = {} <=> n = 0
    <3>1. n # 0 => last \in P
      BY <1>3, <1>4
    <3>2. n = 0 => P = {}
      BY <1>3, <1>4
    <3> QED
      BY <3>1, <3>2
  <2>2. P = {} <=> DOMAIN r = {}
    BY <1>6
  <2> QED
    BY <1>4, <2>1, <2>2
<1>8. ASSUME s # <<>>
      PROVE  Newest(r) = Counts(cell, s[n].value)
  <2>1. last \in P /\ last \in PlacesIn(series[o]) /\ n \in DOMAIN s
    BY <1>2, <1>3, <1>4, <1>8 DEF PlacesOf
  <2>2. PointCounts(o, m.data_points[last]) = Counts(cell, s[n].value)
    BY <1>2, <2>1 DEF PointOf
  <2>3. ASSUME NEW e \in P
        PROVE  r[h[e]].at \in Int /\ (e # last => r[h[e]].at < r[h[last]].at)
    <3>1. /\ e \in DOMAIN m.data_points /\ last \in DOMAIN m.data_points
          /\ m.data_points[e].time \in Int
      BY <1>1, <2>1 DEF PlacesOf, IsMetric
    <3>2. e[1] = k /\ e[2] \in 1 .. n /\ e = <<e[1], e[2]>>
      BY <1>3, <1>4
    <3>3. e # last => m.data_points[e].time < m.data_points[last].time
      <4>1. e # last => e[1] = last[1] /\ e[2] < last[2]
        BY <1>4, <3>2
      <4> QED
        BY <3>1, <4>1, PieceTimes
    <3>4. CASE Sink[o] = "otel"
      BY <1>5, <2>1, <3>1, <3>3, <3>4
    <3>5. CASE Sink[o] # "otel"
      <4>1. Rank(m, e) \in 1 .. Cardinality(DOMAIN m.data_points)
            /\ (Precedes(m, e, last) <=> Rank(m, e) < Rank(m, last))
        BY <1>1, <3>1, <3>5, PointsOrdered
      <4>2. e # last => Precedes(m, e, last)
        BY <3>3 DEF Precedes
      <4>3. Rank(m, e) \in Int
        BY <4>1
      <4> QED
        BY <1>5, <2>1, <3>5, <4>1, <4>2, <4>3
    <3> QED
      BY <3>4, <3>5
  <2> HIDE DEF m, r, P, last
  <2>4. h[last] \in DOMAIN r /\ \A d \in DOMAIN r : r[d].at <= r[h[last]].at
    <3>1. ASSUME NEW d \in DOMAIN r
          PROVE  r[d].at <= r[h[last]].at
      <4>1. PICK e \in P : h[e] = d
        BY <1>6
      <4> QED
        BY <2>1, <2>3, <4>1
    <3> QED
      BY <1>6, <2>1, <3>1
  <2>5. ASSUME NEW x \in DOMAIN r, \A d \in DOMAIN r : r[d].at <= r[x].at
        PROVE  x = h[last]
    <3>1. PICK e \in P : h[e] = x
      BY <1>6
    <3>2. r[h[last]].at <= r[h[e]].at
      BY <2>4, <2>5, <3>1
    <3> QED
      BY <2>1, <2>3, <3>1, <3>2
  <2>6. (CHOOSE e \in DOMAIN r : \A d \in DOMAIN r : r[d].at <= r[e].at) = h[last]
    BY <2>4, <2>5
  <2> QED
    BY <1>5, <2>1, <2>2, <2>6 DEF Newest
<1> QED
  BY <1>7, <1>8

\* The last reading comes from the last metric that has one.
LEMMA LatestAppend ==
    ASSUME NEW o \in Observers, NEW S, NEW metrics \in Seq(S), NEW m \in S, NEW k \in Keys
    PROVE  LET r == ReadMetric(o, m, k)
           IN  /\ DOMAIN r # {} => LatestOr(o, Append(metrics, m), k) = Newest(r)
               /\ DOMAIN r = {} => LatestOr(o, Append(metrics, m), k) = LatestOr(o, metrics, k)
<1> SUFFICES ASSUME NEW ms, ms = Append(metrics, m)
             PROVE  /\ DOMAIN ReadMetric(o, m, k) # {} => LatestOr(o, ms, k) = Newest(ReadMetric(o, m, k))
                    /\ DOMAIN ReadMetric(o, m, k) = {} => LatestOr(o, ms, k) = LatestOr(o, metrics, k)
  OBVIOUS
<1> DEFINE n == Len(metrics)
           all == ReadAll(o, metrics, k)
           more == ReadAll(o, ms, k)
           N == {j \in DOMAIN all : DOMAIN all[j] # {}}
           M == {j \in DOMAIN more : DOMAIN more[j] # {}}
<1>1. n \in Nat /\ DOMAIN metrics = 1 .. n /\ DOMAIN ms = 1 .. n + 1 /\ ms[n + 1] = m
      /\ \A j \in 1 .. n : ms[j] = metrics[j]
  OBVIOUS
<1>2. /\ DOMAIN all = 1 .. n /\ DOMAIN more = 1 .. n + 1 /\ more[n + 1] = ReadMetric(o, m, k)
      /\ \A j \in 1 .. n : all[j] = ReadMetric(o, metrics[j], k) /\ more[j] = all[j]
  BY <1>1 DEF ReadAll
<1>3. /\ LatestOr(o, metrics, k) = IF N # {} THEN Newest(all[Max(N)]) ELSE Zero
      /\ LatestOr(o, ms, k) = IF M # {} THEN Newest(more[Max(M)]) ELSE Zero
  <2>1. (\E j \in DOMAIN metrics : DOMAIN ReadMetric(o, metrics[j], k) # {}) <=> N # {}
    <3>1. DOMAIN all = DOMAIN metrics /\ \A j \in DOMAIN metrics : all[j] = ReadMetric(o, metrics[j], k)
      BY DEF ReadAll
    <3> HIDE DEF all
    <3> QED
      BY <3>1, Zenon
  <2>2. (\E j \in DOMAIN ms : DOMAIN ReadMetric(o, ms[j], k) # {}) <=> M # {}
    <3>1. DOMAIN more = DOMAIN ms /\ \A j \in DOMAIN ms : more[j] = ReadMetric(o, ms[j], k)
      BY DEF ReadAll
    <3> HIDE DEF more
    <3> QED
      BY <3>1, Zenon
  <2>3. Latest(all) = Newest(all[Max(N)]) /\ Latest(more) = Newest(more[Max(M)])
    BY DEF Latest, Newest
  <2> QED
    BY <2>1, <2>2, <2>3 DEF LatestOr
<1>4. CASE DOMAIN ReadMetric(o, m, k) # {}
  <2>1. n + 1 \in M /\ M \subseteq 1 .. n + 1
    BY <1>1, <1>2, <1>4
  <2>2. IsFiniteSet(M) /\ M # {} /\ M \subseteq Int
    BY <1>1, <2>1, FirstNumbers, FS_Subset
  <2> HIDE DEF M, N, all, more
  <2>3. Max(M) \in M /\ \A j \in M : j <= Max(M)
    BY <2>2, MaxIs
  <2>4. Max(M) \in 1 .. n + 1 /\ n + 1 <= Max(M)
    BY <2>1, <2>3
  <2>5. Max(M) = n + 1
    BY <1>1, <2>4
  <2> QED
    BY <1>2, <1>3, <1>4, <2>2, <2>5
<1>5. CASE DOMAIN ReadMetric(o, m, k) = {}
  <2>1. M = N
    BY <1>1, <1>2, <1>5
  <2>2. N # {} => Max(N) \in 1 .. n
    <3>1. N \subseteq 1 .. n /\ N \subseteq Int
      BY <1>2
    <3>2. IsFiniteSet(N)
      BY <1>1, <3>1, FirstNumbers, FS_Subset
    <3> HIDE DEF N
    <3> QED
      BY <3>1, <3>2, MaxIs
  <2> HIDE DEF M, N, all, more
  <2>3. N # {} => more[Max(M)] = all[Max(N)]
    BY <1>2, <2>1, <2>2
  <2>4. LatestOr(o, ms, k) = LatestOr(o, metrics, k)
    BY <1>3, <2>1, <2>3
  <2> QED
    BY <1>5, <2>4
<1> QED
  BY <1>4, <1>5

\* What a reader has of k, or would have after an export.
Got(o, k) ==
    IF Mode[o] = "Delta" THEN Reports(o, k)
    ELSE IF series[o][k] # <<>> THEN Counts(cell, series[o][k][Len(series[o][k])].value)
    ELSE LatestOr(o, exported[o], k)

Awaits(o, k) == \E b \in Updates : <<k, b>> \in todo[o]

\* It includes what was added before the last observation, or this one once it
\* has come to k.
Told(o, k) ==
    \A i \in 1 .. Width :
        /\ Got(o, k)[i] \in Int
        /\ opc[o] = "idle" => seen[o][k][i] - Subs(k) <= Got(o, k)[i]
        /\ opc[o] = "observing" /\ ~Awaits(o, k) => begun[o][k][i] - Subs(k) <= Got(o, k)[i]

\* The differences reported come to the last value.
LastReported(o, k) ==
    LET p == last_values[o][k]
        current == value[bucket[k]]
    IN  IF p = None THEN \A i \in 1 .. Width : Reports(o, k)[i] = 0
        ELSE /\ bucket[k] # None
             /\ p = current \/ Less(cell, p, current)
             /\ \A i \in 1 .. Width : /\ Counts(cell, p)[i] <= Counts(cell, current)[i]
                                      /\ Reports(o, k)[i] = Counts(cell, p)[i]

Informed(o, k) == Told(o, k) /\ (Mode[o] = "Delta" => LastReported(o, k))

Informing ==
    \A o \in world.observers \ dropped, k \in Keys : Mode[o] # "Destructive" => Informed(o, k)

LEMMA LatestOrStays ==
    ASSUME world' = world, NEW o \in Observers, NEW k \in Keys
    PROVE  LatestOr(o, exported[o], k)' = LatestOr(o, exported'[o], k)
<1>1. cell' = cell /\ kind' = kind /\ Width' = Width
  BY SameWorld
<1> QED
  BY <1>1 DEF LatestOr, Latest, ReadAll, ReadMetric, WireCounts, TextCounts, Zero

LEMMA GotStays ==
    ASSUME world' = world, NEW o \in Observers, NEW k \in Keys,
           series'[o][k] = series[o][k], exported'[o] = exported[o]
    PROVE  Got(o, k)' = Got(o, k)
<1>1. cell' = cell /\ kind' = kind
  BY SameWorld
<1>2. Reports(o, k)' = Reports(o, k)
  BY ReportsStay
<1>3. LatestOr(o, exported[o], k)' = LatestOr(o, exported[o], k)
  BY LatestOrStays
<1> QED
  BY <1>1, <1>2, <1>3 DEF Got

\* Subs that return only lower what a reader must have.
LEMMA ToldStays ==
    ASSUME Types, [Next]_vars, NEW o \in Observers, NEW k \in Keys, Told(o, k),
           \A i \in 1 .. Width : Got(o, k)'[i] = Got(o, k)[i],
           opc'[o] = opc[o], seen'[o] = seen[o], begun'[o] = begun[o], Awaits(o, k)' <=> Awaits(o, k)
    PROVE  Told(o, k)'
<1>1. Width' = Width /\ Subs(k) \in Nat /\ Subs(k)' \in Nat /\ Subs(k) <= Subs(k)'
  BY AddedStep, SubsGrow
<1>2. ASSUME NEW i \in 1 .. Width
      PROVE  /\ Got(o, k)'[i] \in Int
             /\ opc'[o] = "idle" => seen'[o][k][i] - Subs(k)' <= Got(o, k)'[i]
             /\ opc'[o] = "observing" /\ ~Awaits(o, k)' => begun'[o][k][i] - Subs(k)' <= Got(o, k)'[i]
  <2>1. seen[o][k] \in Vectors /\ begun[o][k] \in Vectors
    BY DEF Types, Typed
  <2>2. seen[o][k][i] \in Int /\ begun[o][k][i] \in Int
    BY <2>1 DEF Vectors
  <2>3. /\ Got(o, k)[i] \in Int
        /\ opc[o] = "idle" => seen[o][k][i] - Subs(k) <= Got(o, k)[i]
        /\ opc[o] = "observing" /\ ~Awaits(o, k) => begun[o][k][i] - Subs(k) <= Got(o, k)[i]
    BY DEF Told
  <2> QED
    BY <1>1, <2>2, <2>3
<1> QED
  BY <1>1, <1>2 DEF Told

LEMMA LastStays ==
    ASSUME Types, world' = world, NEW o \in Observers, NEW k \in Keys, LastReported(o, k),
           \A i \in 1 .. Width : Reports(o, k)'[i] = Reports(o, k)[i],
           last_values'[o][k] = last_values[o][k],
           bucket[k] # None => bucket'[k] = bucket[k] /\ value'[bucket[k]] = value[bucket[k]]
    PROVE  LastReported(o, k)'
<1>1. cell' = cell /\ kind' = kind /\ Width' = Width
  BY SameWorld
<1>2. CASE last_values[o][k] = None
  BY <1>1, <1>2 DEF LastReported
<1>3. CASE last_values[o][k] # None
  <2>1. bucket[k] # None
    BY <1>3 DEF LastReported
  <2>2. bucket'[k] = bucket[k] /\ value'[bucket'[k]] = value[bucket[k]]
    BY <2>1
  <2> QED
    BY <1>1, <1>3, <2>1, <2>2 DEF LastReported
<1> QED
  BY <1>2, <1>3

LEMMA InformedStays ==
    ASSUME Types, [Next]_vars, NEW o \in Observers, NEW k \in Keys, Informed(o, k),
           series'[o][k] = series[o][k], exported'[o] = exported[o], last_values'[o][k] = last_values[o][k],
           opc'[o] = opc[o], seen'[o] = seen[o], begun'[o] = begun[o], Awaits(o, k)' <=> Awaits(o, k),
           bucket[k] # None => bucket'[k] = bucket[k] /\ value'[bucket[k]] = value[bucket[k]]
    PROVE  Informed(o, k)'
<1>1. world' = world /\ Got(o, k)' = Got(o, k) /\ Reports(o, k)' = Reports(o, k)
  BY AddedStep, GotStays, ReportsStay
<1>2. Told(o, k)'
  BY <1>1, ToldStays DEF Informed
<1>3. LastReported(o, k) => LastReported(o, k)'
  BY <1>1, LastStays
<1> QED
  BY <1>2, <1>3 DEF Informed

\* The bucket of k grows, and its last value stays behind.
LEMMA InformedStore ==
    ASSUME NoWrap, Types, Named, ValuesBounded, [Next]_vars, Steady',
           NEW o \in world.observers, NEW k \in Keys, Informed(o, k),
           NEW u \in Updates, upc[u] \in {"update", "exchange"}, Store(u, value[ref[u]])
    PROVE  Informed(o, k)'
<1> DEFINE r == ref[u]
           v == value[r]
           w == Plus(cell, v, One(u))
           p == last_values[o][k]
<1>1. /\ value' = [value EXCEPT ![r] = w] /\ r \in Updates /\ u \in world.calls
      /\ UNCHANGED <<world, bucket, series, exported, last_values, opc, todo, seen, begun>>
  BY DEF Store, progress, observer, outcome, Types, Called
<1>2. o \in Observers /\ world \in Worlds /\ cell' = cell /\ kind' = kind /\ Width' = Width /\ cell \in Cells /\ Width = Size(cell)
      /\ 1 \in 1 .. Width
  BY <1>1, TheCell, Sizes, SameWorld DEF Types, Typed
<1>3. Awaits(o, k)' <=> Awaits(o, k)
  BY <1>1 DEF Awaits
<1>4. Got(o, k)' = Got(o, k) /\ Reports(o, k)' = Reports(o, k)
  BY <1>1, <1>2, GotStays, ReportsStay
<1>5. Told(o, k)'
  BY <1>1, <1>2, <1>3, <1>4, ToldStays DEF Informed
<1>6. ASSUME Mode[o] = "Delta"
      PROVE  LastReported(o, k)'
  <2>1. kind # "Gauge" /\ LastReported(o, k)
    BY <1>2, <1>6, TheCell DEF Informed
  <2>2. CASE p = None \/ bucket[k] # r
    <3>1. bucket'[k] = bucket[k] /\ (p # None => bucket[k] \in Updates /\ value'[bucket[k]] = value[bucket[k]])
      BY <1>1, <2>1, <2>2 DEF LastReported, Types, Typed
    <3> QED
      BY <1>1, <1>2, <1>4, <2>1, <3>1 DEF LastReported
  <2>3. CASE p # None /\ bucket[k] = r
    <3>0. Steady
      BY NoResetBefore
    <3>1. Op[u] = "add"
      BY <1>1, <1>2, <2>1, <3>0, TheCell DEF Steady
    <3>2. \A i \in 1 .. Width : Counts(cell, w)[i] = Counts(cell, v)[i] + Gain(u)[i] /\ Gain(u)[i] \in Nat
      <4>1. Gain(u) \in [1 .. Width -> Nat]
        BY <1>2, <3>1, GainType
      <4> QED
        BY <3>0, <3>1, <4>1, StoreExact
    <3>3. Gain(u)[1] = 1
      BY <1>2, <3>1, GainOfOne
    <3>4. /\ bucket'[k] = r /\ r # None /\ value'[r] = w /\ last_values'[o][k] = p
      BY <1>1, <2>3, ObserverAssumption DEF Types, Typed
    <3>5. Sound(kind, cell, p) /\ Sound(kind, cell, w)
      <4>1. Types'
        BY TypesStep
      <4> QED
        BY <1>1, <1>2, <2>3, <3>4, <4>1 DEF Types, ValuesSound
    <3>6. \A i \in 1 .. Width : /\ Counts(cell, p)[i] <= Counts(cell, v)[i]
                                /\ Reports(o, k)[i] = Counts(cell, p)[i]
      BY <2>1, <2>3 DEF LastReported
    <3>7. Sound(kind, cell, v)
      BY <1>1 DEF Types, ValuesSound
    <3> HIDE DEF p, r, v, w
    <3>8. \A i \in 1 .. Width : Counts(cell, p)[i] \in Nat /\ Counts(cell, v)[i] \in Nat
      BY <1>2, <2>1, <3>5, <3>7, InMapIs
    <3>9. \A i \in 1 .. Width : Counts(cell, p)[i] <= Counts(cell, w)[i]
      BY <3>2, <3>6, <3>8
    <3>10. Counts(cell, p)[1] < Counts(cell, w)[1]
      BY <1>2, <3>2, <3>3, <3>6, <3>8
    <3>11. Less(cell, p, w)
      BY <1>2, <3>5, <3>10, LessIs
    <3> QED
      BY <1>2, <1>4, <2>3, <3>4, <3>6, <3>9, <3>11 DEF LastReported, p
  <2> QED
    BY <2>2, <2>3
<1> QED
  BY <1>5, <1>6 DEF Informed

LEMMA InformedCall ==
    ASSUME NoWrap, Types, Named, ValuesBounded, [Next]_vars, Steady',
           NEW o \in world.observers, NEW k \in Keys, Informed(o, k), NEW u \in Updates,
           \/ GetOrCreate(u) \/ LookupDup(u) \/ insert_dup(u) \/ FetchAdd(u) \/ LoadBits(u)
           \/ CompareExchange(u) \/ CompareExchangeFails(u)
    PROVE  Informed(o, k)'
<1>1. o \in Observers
  BY TheCell DEF Types, Typed
<1>2. ASSUME UNCHANGED <<value, series, exported, last_values, opc, todo, seen, begun>>,
             bucket[k] # None => bucket'[k] = bucket[k]
      PROVE  Informed(o, k)'
  <2>1. Awaits(o, k)' <=> Awaits(o, k)
    BY <1>2 DEF Awaits
  <2> QED
    BY <1>1, <1>2, <2>1, InformedStays
<1>3. CASE GetOrCreate(u)
  <2>1. /\ UNCHANGED <<value, series, exported, last_values, opc, todo, seen, begun>>
        /\ bucket' = [bucket EXCEPT ![Key[u]] = IF bucket[Key[u]] = None THEN u ELSE bucket[Key[u]]]
    BY <1>3 DEF GetOrCreate, progress, observer, outcome, history
  <2>2. bucket[k] # None => bucket'[k] = bucket[k]
    BY <2>1 DEF Types, Typed
  <2> QED
    BY <1>2, <2>1, <2>2
<1>4. CASE LookupDup(u) \/ insert_dup(u) \/ LoadBits(u) \/ CompareExchangeFails(u)
  <2>1. UNCHANGED <<bucket, value, series, exported, last_values, opc, todo, seen, begun>>
    BY <1>4 DEF LookupDup, insert_dup, LoadBits, CompareExchangeFails, source, progress, observer, outcome, history
  <2> QED
    BY <1>2, <2>1
<1>5. CASE FetchAdd(u) \/ CompareExchange(u)
  <2>1. upc[u] \in {"update", "exchange"} /\ Store(u, value[ref[u]])
    BY <1>5 DEF FetchAdd, CompareExchange
  <2> QED
    BY <2>1, InformedStore
<1> QED
  BY <1>3, <1>4, <1>5

\* An observation begins with what the map holds: of a key with no bucket there
\* is nothing to count.
LEMMA InformedBegin ==
    ASSUME Types, SeenSome, Whole, Exact, [Next]_vars, NEW o \in Observers, NEW k \in Keys,
           Informed(o, k), NEW p \in Observers, BeginVisit(p)
    PROVE  Informed(o, k)'
<1>1. /\ UNCHANGED <<world, bucket, value, upc, sunk, series, exported, last_values, seen>>
      /\ opc[p] = "idle" /\ opc' = [opc EXCEPT ![p] = "observing"]
      /\ todo' = [todo EXCEPT ![p] = Live] /\ begun' = [begun EXCEPT ![p] = AddedNow]
  BY DEF BeginVisit, Begin, source, updates, observer, outcome
<1>2. CASE p # o
  <2>1. opc'[o] = opc[o] /\ todo'[o] = todo[o] /\ begun'[o] = begun[o]
    BY <1>1, <1>2 DEF Types, Typed
  <2>2. Awaits(o, k)' <=> Awaits(o, k)
    BY <2>1 DEF Awaits
  <2> QED
    BY <1>1, <2>1, <2>2, InformedStays
<1>3. CASE p = o
  <2>1. /\ opc[o] = "idle" /\ opc'[o] = "observing" /\ todo'[o] = Live /\ begun'[o] = AddedNow
    BY <1>1, <1>3 DEF Types, Typed
  <2>2. begun'[o][k] = Added(k)
    BY <2>1 DEF AddedNow
  <2>3. /\ Width' = Width /\ world \in Worlds /\ Subs(k)' = Subs(k) /\ Subs(k) \in Nat
        /\ sunk \subseteq {u \in Updates : cell = "AtomicU64"}
    BY <1>1, SameWorld, CountsStay, SubsGrow DEF Types, Typed
  <2>4. Got(o, k)' = Got(o, k) /\ Reports(o, k)' = Reports(o, k)
    BY <1>1, GotStays, ReportsStay
  <2>5. ~Awaits(o, k)' => bucket[k] = None
    <3>1. bucket[k] # None => <<k, bucket[k]>> \in Live /\ bucket[k] \in Updates
      BY LiveIs DEF Types, Typed
    <3> QED
      BY <2>1, <3>1 DEF Awaits
  <2>6. ASSUME bucket[k] = None, NEW i \in 1 .. Width
        PROVE  Subs(k) = 0 /\ Added(k)[i] = 0
    <3>1. Applied("sub", k) = {}
      <4>1. \A u \in Updates : upc[u] # "called" => ref[u] \in Updates /\ ref[u] = bucket[Key[u]]
        BY DEF Whole, Types, Called
      <4> QED
        BY <2>6, <4>1, ObserverAssumption DEF Applied
    <3>2. Subs(k) = 0
      BY <3>1, FS_EmptySet DEF Subs
    <3>3. InMap(k)[i] = 0 /\ InMap(k)[i] = Added(k)[i] - Subs(k) /\ Added(k)[i] \in Nat
      BY <2>3, <2>6, AddedNat DEF InMap, Zero, Exact
    <3> QED
      BY <3>2, <3>3
  <2>7. ASSUME NEW i \in 1 .. Width
        PROVE  /\ Got(o, k)'[i] \in Int
               /\ ~Awaits(o, k)' => begun'[o][k][i] - Subs(k)' <= Got(o, k)'[i]
    <3>1. Got(o, k)[i] \in Int /\ seen[o][k][i] - Subs(k) <= Got(o, k)[i]
      BY <2>1 DEF Informed, Told
    <3>2. seen[o][k][i] >= 0 /\ seen[o][k][i] \in Int
      <4>1. seen[o][k] \in Vectors
        BY DEF Types, Typed
      <4> QED
        BY <4>1 DEF Vectors, SeenSome
    <3>3. ~Awaits(o, k)' => Subs(k) = 0 /\ begun'[o][k][i] = 0
      BY <2>2, <2>5, <2>6
    <3> QED
      BY <2>3, <2>4, <3>1, <3>2, <3>3
  <2>8. Told(o, k)'
    BY <2>1, <2>3, <2>7 DEF Told
  <2>9. LastReported(o, k) => LastReported(o, k)'
    BY <1>1, <2>4, LastStays
  <2> QED
    BY <2>8, <2>9 DEF Informed
<1> QED
  BY <1>2, <1>3

\* A visit reports all that the bucket counts.
LEMMA InformedVisited ==
    ASSUME Types, Clocks, Named, SeenSome, Exact, [Next]_vars, NEW o \in world.observers,
           Mode[o] # "Destructive", NEW e \in todo[o], Visits(o, e), Informed(o, e[1])
    PROVE  Informed(o, e[1])'
<1> DEFINE k == e[1]
           b == e[2]
           current == value[b]
           prev == last_values[o][k]
           r == Recorded(o, e)
<1>1. /\ o \in Observers /\ world \in Worlds /\ cell' = cell /\ kind' = kind /\ Width' = Width /\ cell \in Cells
      /\ world' = world /\ Width = Size(cell)
      /\ Mode[o] = "Delta" => kind # "Gauge"
  BY AddedStep, TheCell, Sizes DEF Types, Typed
<1>2. /\ k \in Keys /\ b \in Updates /\ e = <<k, b>> /\ current \in Int \cup Histograms
      /\ Sound(kind, cell, current) /\ Sound(kind, cell, r)
  BY <1>1, RecordedSound
<1>3. bucket[k] = b /\ b # None
  <2>1. e \in Live
    BY <1>1 DEF Named
  <2> QED
    BY <1>2, <2>1, LiveIs
<1>4. /\ UNCHANGED <<bucket, value, exported, upc, opc, seen, begun, sunk>>
      /\ todo'[o] = todo[o] \ {e}
      /\ Mode[o] = "Delta" => last_values'[o][k] = current
      /\ IF Mode[o] = "Delta" /\ prev = current THEN UNCHANGED series ELSE Record(o, k, r)
  BY <1>1, <1>2 DEF Visits, source, updates, outcome, history, Types, Typed
<1>5. ~Awaits(o, k)' /\ opc[o] = "observing"
  <2>1. \A f \in todo'[o] : f[1] # k
    BY <1>1, <1>4 DEF Clocks, Clock, PollTimes
  <2>2. opc[o] # "idle"
    BY <1>1 DEF Clocks, Clock, PollTimes
  <2> QED
    BY <1>1, <2>1, <2>2 DEF Awaits, Types, Typed
<1>6. Mode[o] = "Delta" => \A i \in 1 .. Width : Reports(o, k)'[i] = Counts(cell, current)[i]
  <2> SUFFICES ASSUME Mode[o] = "Delta", NEW i \in 1 .. Width
               PROVE  Reports(o, k)'[i] = Counts(cell, current)[i]
    OBVIOUS
  <2>1. /\ prev = None => Reports(o, k)[i] = 0
        /\ prev # None => /\ prev = current \/ Less(cell, prev, current)
                          /\ Counts(cell, prev)[i] <= Counts(cell, current)[i]
                          /\ Reports(o, k)[i] = Counts(cell, prev)[i]
    BY <1>3 DEF Informed, LastReported
  <2>2. CASE prev = current
    <3>1. Reports(o, k)' = Reports(o, k)
      BY <1>1, <1>2, <1>4, <2>2, ReportsStay
    <3>2. prev # None
      BY <1>2, <2>2, Constants
    <3> QED
      BY <2>1, <2>2, <3>1, <3>2
  <2>3. CASE prev # current
    <3>1. Grows(o, k, r)
      BY <1>1, <1>2, <1>4, <2>3, RecordTypes DEF Types, ValuesSound
    <3>2. Reports(o, k)'[i] = Reports(o, k)[i] + Counts(cell, r)[i]
      BY <1>1, <1>2, <1>4, <3>1, ReportsRecord
    <3>3. r = IF prev # None /\ Less(cell, prev, current) THEN Minus(cell, current, prev) ELSE current
      BY Zenon DEF Recorded
    <3>4. prev # None => Sound(kind, cell, prev)
      BY <1>1, <1>2 DEF Types, ValuesSound
    <3> HIDE DEF prev, current, r, k
    <3>5. Counts(cell, current)[i] \in Nat /\ (prev # None => Counts(cell, prev)[i] \in Nat)
      BY <1>1, <1>2, <3>4, InMapIs
    <3>6. CASE prev = None
      <4>1. r = current
        BY <3>3, <3>6
      <4> QED
        BY <2>1, <3>2, <3>5, <3>6, <4>1
    <3>7. CASE prev # None
      <4>1. Less(cell, prev, current) /\ r = Minus(cell, current, prev)
        BY <2>1, <2>3, <3>3, <3>7
      <4>2. Counts(cell, r)[i] = Counts(cell, current)[i] - Counts(cell, prev)[i]
        <5>1. kind # "Gauge" /\ Sound(kind, cell, prev) /\ Counts(cell, prev)[i] <= Counts(cell, current)[i]
          BY <1>1, <2>1, <3>4, <3>7
        <5>2. cell \in Cells /\ Width = Size(cell) /\ Sound(kind, cell, current)
          BY <1>1, <1>2
        <5>3. Counts(cell, Minus(cell, current, prev))[i] = Counts(cell, current)[i] - Counts(cell, prev)[i]
          BY <4>1, <5>1, <5>2, MinusCounts
        <5> QED
          BY <4>1, <5>3
      <4> QED
        BY <2>1, <3>2, <3>5, <3>7, <4>2
    <3> QED
      BY <3>6, <3>7
  <2> QED
    BY <2>2, <2>3
<1>7. \A i \in 1 .. Width : Got(o, k)'[i] = Counts(cell, current)[i]
  <2>1. CASE Mode[o] = "Delta"
    <3>1. Got(o, k)' = Reports(o, k)'
      BY <2>1 DEF Got
    <3> QED
      BY <1>6, <2>1, <3>1
  <2>2. CASE Mode[o] # "Delta"
    <3>1. r = current /\ Record(o, k, r)
      BY <1>4, <2>2 DEF Recorded
    <3>2. Grows(o, k, r)
      BY <1>1, <1>2, <3>1, RecordTypes DEF Types, ValuesSound
    <3> DEFINE s == series[o][k]
               x == [seq_id |-> seq[o], ts |-> ts[o], value |-> r]
    <3>3. s \in Seq(Snapshot) /\ series'[o][k] = Append(s, x) /\ x.value = r
      BY <1>1, <1>2, <3>2 DEF Grows, Types, Typed
    <3> HIDE DEF x, s
    <3>4. s \in Seq(Snapshot \cup {x}) /\ x \in Snapshot \cup {x}
      BY <3>3
    <3>5. Append(s, x) # <<>> /\ Len(Append(s, x)) = Len(s) + 1 /\ Append(s, x)[Len(s) + 1] = x
      BY <3>4
    <3>6. Got(o, k)' = Counts(cell, x.value)
      BY <1>1, <2>2, <3>3, <3>5 DEF Got
    <3> QED
      BY <3>1, <3>3, <3>6
  <2> QED
    BY <2>1, <2>2
<1>8. Subs(k)' = Subs(k) /\ Added(k)' = Added(k) /\ Subs(k) \in Nat
  BY <1>1, <1>2, <1>4, CountsStay, SubsGrow
<1>9. ASSUME NEW i \in 1 .. Width
      PROVE  /\ Got(o, k)'[i] \in Int
             /\ begun'[o][k][i] - Subs(k)' <= Got(o, k)'[i]
  <2>1. InMap(k)[i] = Counts(cell, current)[i] /\ InMap(k)[i] = Added(k)[i] - Subs(k)
    BY <1>2, <1>3 DEF InMap, Exact
  <2>2. Added(k)[i] \in Nat /\ begun[o][k][i] <= Added(k)[i]
    <3>1. sunk \subseteq {u \in Updates : cell = "AtomicU64"}
      BY DEF Types, Typed
    <3> QED
      BY <1>1, <1>2, <3>1, AddedNat DEF SeenSome
  <2>3. begun[o][k][i] \in Int
    <3>1. begun[o][k] \in Vectors
      BY <1>1, <1>2 DEF Types, Typed
    <3> QED
      BY <3>1 DEF Vectors
  <2>4. begun'[o][k][i] = begun[o][k][i] /\ Got(o, k)'[i] = Counts(cell, current)[i]
    BY <1>4, <1>7
  <2>5. begun[o][k][i] - Subs(k) <= Added(k)[i] - Subs(k) /\ Added(k)[i] - Subs(k) \in Int
    BY <1>8, <2>2, <2>3
  <2>6. Counts(cell, current)[i] = Added(k)[i] - Subs(k)
    BY <2>1
  <2>7. begun[o][k][i] - Subs(k) <= Counts(cell, current)[i] /\ Counts(cell, current)[i] \in Int
    BY <2>5, <2>6, Zenon
  <2>8. Subs(k)' = Subs(k)
    BY <1>8
  <2> QED
    BY <2>4, <2>7, <2>8, Zenon
<1>10. Told(o, k)'
  BY <1>1, <1>4, <1>5, <1>9 DEF Told
<1>11. Mode[o] = "Delta" => LastReported(o, k)'
  <2> SUFFICES ASSUME Mode[o] = "Delta"
               PROVE  LastReported(o, k)'
    OBVIOUS
  <2>1. bucket'[k] = b /\ value'[b] = current /\ current # None /\ last_values'[o][k] = current
    BY <1>2, <1>3, <1>4, Constants
  <2>2. \A i \in 1 .. Width : Reports(o, k)'[i] = Counts(cell, current)[i]
    BY <1>6
  <2>3. \A i \in 1 .. Width : Counts(cell, current)[i] \in Nat
    BY <1>1, <1>2, InMapIs
  <2> HIDE DEF k, b, current, r, prev
  <2>4. \A i \in 1 .. Width : Counts(cell, current)[i] <= Counts(cell, current)[i]
    BY <2>3
  <2> QED
    BY <1>1, <1>3, <2>1, <2>2, <2>4 DEF LastReported
<1> QED
  BY <1>10, <1>11 DEF Informed

LEMMA InformedVisit ==
    ASSUME Types, Clocks, Named, SeenSome, Exact, [Next]_vars, NEW o \in world.observers,
           Mode[o] # "Destructive", NEW k \in Keys, Informed(o, k), NEW p \in Observers, VisitBucket(p)
    PROVE  Informed(o, k)'
<1>1. PICK e \in todo[p] : Visits(p, e)
  BY Readers, Zenon
<1>2. /\ o \in Observers /\ e[1] \in Keys /\ e = <<e[1], e[2]>> /\ Sound(kind, cell, Recorded(p, e))
  BY RecordedSound, TheCell DEF Types, Typed
<1>3. CASE p = o /\ e[1] = k
  BY <1>1, <1>3, InformedVisited
<1>4. CASE p # o \/ e[1] # k
  <2>1. UNCHANGED <<value, bucket, exported, opc, seen, begun>> /\ todo' = [todo EXCEPT ![p] = @ \ {e}]
    BY <1>1 DEF Visits, source, outcome, history
  <2>2. Awaits(o, k)' <=> Awaits(o, k)
    <3>1. p # o => todo'[o] = todo[o]
      BY <2>1 DEF Types, Typed
    <3>2. p = o => todo'[o] = todo[o] \ {e}
      BY <2>1 DEF Types, Typed
    <3>3. e[1] # k => \A b \in Updates : <<k, b>> # e
      BY <1>2
    <3> QED
      BY <1>4, <3>1, <3>2, <3>3 DEF Awaits
  <2>3. last_values'[o][k] = last_values[o][k]
    <3>1. \/ last_values' = last_values
          \/ last_values' = [last_values EXCEPT ![p][e[1]] = value[e[2]]]
      BY <1>1 DEF Visits
    <3>2. CASE last_values' = last_values
      BY <3>2
    <3>3. CASE last_values' = [last_values EXCEPT ![p][e[1]] = value[e[2]]]
      BY <1>2, <1>4, <3>3 DEF Types, Typed
    <3> QED
      BY <3>1, <3>2, <3>3
  <2>4. series'[o][k] = series[o][k]
    <3>1. CASE series' = series
      BY <3>1
    <3>2. CASE Record(p, e[1], Recorded(p, e))
      <4>1. Grows(p, e[1], Recorded(p, e))
        BY <1>2, <3>2, RecordTypes DEF Types, ValuesSound
      <4> QED
        BY <1>2, <1>4, <4>1 DEF Grows
    <3> QED
      BY <1>1, <3>1, <3>2 DEF Visits
  <2> QED
    BY <1>2, <2>1, <2>2, <2>3, <2>4, InformedStays
<1> QED
  BY <1>3, <1>4

LEMMA InformedEnd ==
    ASSUME Types, [Next]_vars, NEW o \in Observers, NEW k \in Keys, Informed(o, k),
           NEW p \in Observers, EndObserve(p)
    PROVE  Informed(o, k)'
<1>1. /\ UNCHANGED <<world, bucket, value, upc, sunk, todo, last_values, series, exported, begun>>
      /\ opc[p] = "observing" /\ todo[p] = {}
      /\ opc' = [opc EXCEPT ![p] = "idle"] /\ seen' = [seen EXCEPT ![p] = begun[p]]
  BY DEF EndObserve, source, updates, outcome
<1>2. Awaits(o, k)' <=> Awaits(o, k)
  BY <1>1 DEF Awaits
<1>3. CASE p # o
  <2>1. opc'[o] = opc[o] /\ seen'[o] = seen[o]
    BY <1>1, <1>3 DEF Types, Typed
  <2> QED
    BY <1>1, <1>2, <2>1, InformedStays
<1>4. CASE p = o
  <2>1. opc[o] = "observing" /\ opc'[o] = "idle" /\ seen'[o] = begun[o] /\ ~Awaits(o, k)
    BY <1>1, <1>4 DEF Types, Typed, Awaits
  <2>2. Width' = Width /\ Subs(k)' = Subs(k)
    BY <1>1, SameWorld, CountsStay
  <2>3. Got(o, k)' = Got(o, k) /\ Reports(o, k)' = Reports(o, k)
    BY <1>1, GotStays, ReportsStay
  <2>4. Told(o, k)'
    BY <2>1, <2>2, <2>3 DEF Informed, Told
  <2>5. LastReported(o, k) => LastReported(o, k)'
    BY <1>1, <2>3, LastStays
  <2> QED
    BY <2>4, <2>5 DEF Informed
<1> QED
  BY <1>3, <1>4

\* What was pending is in the last metric, or the metric has been dropped.
LEMMA InformedExport ==
    ASSUME TextsTell, Types, Clocks, [Next]_vars, NEW o \in world.observers, Mode[o] # "Destructive",
           NEW k \in Keys, Informed(o, k), NEW p \in Observers, Export(p), o \notin dropped'
    PROVE  Informed(o, k)'
<1>1. /\ UNCHANGED <<world, bucket, value, todo, last_values, opc, seen, begun>>
      /\ series' = [series EXCEPT ![p] = NoSeries] /\ series[p] # NoSeries /\ Deliver(p, into_wire(p))
      /\ o \in Observers
  BY TheCell DEF Export, source, progress, history, Types, Typed
<1>2. Awaits(o, k)' <=> Awaits(o, k)
  BY <1>1 DEF Awaits
<1>3. CASE p # o
  <2>1. series'[o] = series[o] /\ exported'[o] = exported[o]
    BY <1>1, <1>3 DEF Deliver, Types, Typed
  <2> QED
    BY <1>1, <1>2, <2>1, InformedStays
<1>4. CASE p = o
  <2> DEFINE m == into_wire(o).metric
  <2>1. into_wire(o).is = "Some" /\ exported' = [exported EXCEPT ![o] = Append(@, m)]
    <3>1. into_wire(o).is # "Err"
      BY <1>1, <1>4 DEF Deliver
    <3>2. into_wire(o).is = "Some"
      BY <1>1, <1>4, <3>1, TheCell, Converted DEF Types, Typed, ValuesSound
    <3> QED
      BY <1>1, <1>4, <3>1, <3>2 DEF Deliver
  <2>2. PICK S : exported \in [Observers -> Seq(S)]
    BY DEF Types, Typed
  <2>3. exported'[o] = Append(exported[o], m) /\ exported[o] \in Seq(S) /\ series'[o] = NoSeries
    BY <1>1, <1>4, <2>1, <2>2 DEF Types, Typed
  <2>4. \A i \in 1 .. Width : Reports(o, k)'[i] = Reports(o, k)[i]
    BY <1>1, <2>1, <2>3, ReportsExport
  <2>5. \A i \in 1 .. Width : Got(o, k)'[i] = Got(o, k)[i]
    <3>1. CASE Mode[o] = "Delta"
      BY <2>4, <3>1 DEF Got
    <3>2. CASE Mode[o] # "Delta"
      <4> DEFINE s == series[o][k]
                 r == ReadMetric(o, m, k)
      <4>1. /\ DOMAIN r = {} <=> s = <<>>
            /\ s # <<>> => Newest(r) = Counts(cell, s[Len(s)].value)
        BY <1>1, <2>1, NewestIs DEF Clocks
      <4>2. Got(o, k)' = LatestOr(o, exported'[o], k)
        <5>1. series'[o][k] = <<>>
          BY <2>3, NoSeriesIs
        <5>2. LatestOr(o, exported[o], k)' = LatestOr(o, exported'[o], k)
          BY <1>1, LatestOrStays
        <5> QED
          BY <3>2, <5>1, <5>2 DEF Got
      <4> HIDE DEF m
      <4>3. /\ DOMAIN r # {} => LatestOr(o, exported'[o], k) = Newest(r)
            /\ DOMAIN r = {} => LatestOr(o, exported'[o], k) = LatestOr(o, exported[o], k)
        <5>1. o \in Observers /\ exported[o] \in Seq(S \cup {m}) /\ m \in S \cup {m}
              /\ exported'[o] = Append(exported[o], m)
          BY <1>1, <2>3
        <5> QED
          BY <5>1, LatestAppend
      <4>4. Got(o, k) = IF s # <<>> THEN Counts(cell, s[Len(s)].value) ELSE LatestOr(o, exported[o], k)
        BY <3>2 DEF Got
      <4> HIDE DEF r, s
      <4>5. Got(o, k)' = Got(o, k)
        BY <4>1, <4>2, <4>3, <4>4
      <4> QED
        BY <4>5
    <3> QED
      BY <3>1, <3>2
  <2>6. Told(o, k)'
    BY <1>1, <1>2, <2>5, ToldStays DEF Informed
  <2>7. LastReported(o, k) => LastReported(o, k)'
    BY <1>1, <2>4, LastStays
  <2> QED
    BY <2>6, <2>7 DEF Informed
<1> QED
  BY <1>3, <1>4

\* After a reset there is nothing a reader must have, nor a last value.
LEMMA InformedReset ==
    ASSUME TextsTell, Types, Clocks, [Next]_vars, NEW o \in world.observers, Mode[o] # "Destructive",
           NEW k \in Keys, NEW p \in Observers, p # o => Informed(o, k), Reset(p)
    PROVE  Informed(o, k)'
<1>1. /\ UNCHANGED <<world, bucket, value, upc, todo, opc, begun>> /\ opc[p] = "idle"
      /\ series' = [series EXCEPT ![p] = NoSeries]
      /\ last_values' = [last_values EXCEPT ![p] = [l \in Keys |-> None]]
      /\ exported' = [exported EXCEPT ![p] = <<>>]
      /\ seen' = [seen EXCEPT ![p] = [l \in Keys |-> Zero]]
      /\ o \in Observers
  BY TheCell DEF Reset, source, updates, progress, Types, Typed
<1>2. CASE p # o
  <2>1. series'[o] = series[o] /\ last_values'[o] = last_values[o] /\ exported'[o] = exported[o]
        /\ seen'[o] = seen[o]
    BY <1>1, <1>2 DEF Types, Typed
  <2>2. Awaits(o, k)' <=> Awaits(o, k)
    BY <1>1 DEF Awaits
  <2> QED
    BY <1>1, <1>2, <2>1, <2>2, InformedStays
<1>3. CASE p = o
  <2>1. /\ series'[o] = NoSeries /\ last_values'[o][k] = None /\ exported'[o] = <<>>
        /\ seen'[o][k] = Zero /\ opc'[o] = "idle"
    BY <1>1, <1>3 DEF Types, Typed
  <2>2. \A i \in 1 .. Width : Reports(o, k)'[i] = 0
    BY <1>1, <2>1, ReportsExport
  <2>3. Width' = Width /\ Subs(k)' \in Nat
    BY <1>1, SameWorld, SubsGrow
  <2>4. LastReported(o, k)'
    BY <2>1, <2>2, <2>3 DEF LastReported
  <2>5. \A i \in 1 .. Width : Got(o, k)'[i] = 0
    <3>1. CASE Mode[o] = "Delta"
      BY <2>2, <3>1 DEF Got
    <3>2. CASE Mode[o] # "Delta"
      <4>1. series'[o][k] = <<>>
        BY <2>1, NoSeriesIs
      <4>2. LatestOr(o, exported[o], k)' = LatestOr(o, <<>>, k)
        BY <1>1, <2>1, LatestOrStays
      <4>3. LatestOr(o, <<>>, k) = Zero
        BY DEF LatestOr
      <4>4. Got(o, k)' = Zero
        BY <3>2, <4>1, <4>2, <4>3 DEF Got
      <4> QED
        BY <4>4 DEF Zero
    <3> QED
      BY <3>1, <3>2
  <2>6. \A i \in 1 .. Width : seen'[o][k][i] = 0
    BY <2>1 DEF Zero
  <2>7. Told(o, k)'
    BY <2>1, <2>3, <2>5, <2>6 DEF Told
  <2> QED
    BY <2>4, <2>7 DEF Informed
<1> QED
  BY <1>2, <1>3

LEMMA InformingStep ==
    ASSUME TextsTell, NoWrap, Types, Clocks, Named, Watching, ValuesBounded, Started, SeenSome,
           [Next]_vars, Quiet', Whole, Exact, Informing
    PROVE  Informing'
<1>1. /\ world' = world /\ world.observers \subseteq Observers
      /\ \A u \in Updates : ~Clear(u) /\ ~Set(u)
      /\ \A p \in Observers : ~BeginTake(p) /\ ~ReadBucket(p)
  BY AddedStep, TheCell, QuietBefore DEF Types, Typed
<1> SUFFICES ASSUME NEW o \in world.observers, o \notin dropped', NEW k \in Keys, Mode[o] # "Destructive"
             PROVE  Informed(o, k)'
  BY <1>1 DEF Informing
<1>2. o \in Observers
  BY <1>1
<1>3. o \notin dropped => Informed(o, k)
  BY DEF Informing
<1>4. CASE \E p \in Observers : Reset(p)
  <2>1. PICK p \in Observers : Reset(p)
    BY <1>4
  <2>2. p # o => o \notin dropped
    BY <2>1 DEF Reset
  <2> QED
    BY <1>3, <2>1, <2>2, InformedReset
<1>5. CASE ~\E p \in Observers : Reset(p)
  <2>1. o \notin dropped
    BY <1>5 DEF Next, vars, outcome, GetOrCreate, LookupDup, insert_dup, Clear, Set, FetchAdd, LoadBits, CompareExchange,
           CompareExchangeFails, Store, BeginVisit, BeginTake, VisitBucket, ReadBucket, EndObserve,
           Export, Deliver
  <2>2. Informed(o, k)
    BY <1>3, <2>1
  <2>3. CASE UNCHANGED vars
    <3>1. UNCHANGED <<bucket, value, todo, last_values, series, exported, opc, seen, begun>>
      BY <2>3 DEF vars, source, progress, observer, outcome, history
    <3>2. Awaits(o, k)' <=> Awaits(o, k)
      BY <3>1 DEF Awaits
    <3> QED
      BY <1>2, <2>2, <3>1, <3>2, InformedStays
  <2>4. ASSUME NEW u \in Updates,
               \/ GetOrCreate(u) \/ LookupDup(u) \/ insert_dup(u) \/ FetchAdd(u) \/ LoadBits(u)
               \/ CompareExchange(u) \/ CompareExchangeFails(u)
        PROVE  Informed(o, k)'
    BY <2>2, <2>4, InformedCall DEF Quiet
  <2>5. ASSUME NEW p \in Observers, BeginVisit(p)
        PROVE  Informed(o, k)'
    BY <1>2, <2>2, <2>5, InformedBegin
  <2>6. ASSUME NEW p \in Observers, VisitBucket(p)
        PROVE  Informed(o, k)'
    BY <2>2, <2>6, InformedVisit
  <2>7. ASSUME NEW p \in Observers, EndObserve(p)
        PROVE  Informed(o, k)'
    BY <1>2, <2>2, <2>7, InformedEnd
  <2>8. ASSUME NEW p \in Observers, Export(p)
        PROVE  Informed(o, k)'
    BY <2>2, <2>8, InformedExport
  <2> QED
    BY <1>1, <1>5, <2>3, <2>4, <2>5, <2>6, <2>7, <2>8 DEF Next
<1> QED
  BY <1>4, <1>5

LEMMA NothingReported ==
    ASSUME Types, NEW o \in Observers, exported[o] = <<>>, series[o] = NoSeries, NEW k \in Keys
    PROVE  \A i \in 1 .. Width : Reports(o, k)[i] = 0
<1>1. cell \in Cells /\ kind \in Kinds /\ IsSeries(series[o])
  BY TheCell DEF Types, Typed, ValuesSound
<1> SUFFICES ASSUME NEW i \in 1 .. Width
             PROVE  Reports(o, k)[i] = 0
  OBVIOUS
<1>2. Out(o, k)[i] = 0
  BY TotalOfNone DEF Out
<1>3. PendingCounts(o, k)[i] = 0
  <2>1. PendingCounts(o, k)[i] = SumOf([n \in DOMAIN series[o][k] |->
                                           Counts(cell, series[o][k][n].value)[i]], DOMAIN series[o][k])
    BY <1>1, PendingIs DEF PendingCounts, CountsIn
  <2>2. DOMAIN series[o][k] = {}
    BY NoSeriesIs
  <2> QED
    BY <2>1, <2>2, SumEmpty
<1> QED
  BY <1>2, <1>3, ReportsType

LEMMA InformingInitial ==
    ASSUME Init
    PROVE  Started /\ SeenSome /\ Whole /\ Exact /\ Informing
<1>1. Types /\ world \in Worlds /\ cell \in Cells /\ world.observers \subseteq Observers
  BY TypesInitial, TheCell DEF Init
<1>2. Started
  BY <1>1 DEF Init, Started, Types, Typed
<1>3. \A k \in Keys, i \in 1 .. Width : Added(k)[i] = 0 /\ Subs(k) = 0
  <2> SUFFICES ASSUME NEW k \in Keys, NEW i \in 1 .. Width
               PROVE  Added(k)[i] = 0 /\ Subs(k) = 0
    OBVIOUS
  <2>1. \A op : Applied(op, k) = {}
    BY DEF Init, Applied
  <2>2. Added(k)[i] = SumOf([u \in {} |-> Gain(u)[i]], {})
    <3>1. Raised(k) = {}
      BY <2>1 DEF Raised
    <3> QED
      BY <1>1, <3>1, AddedType DEF Types, Typed
  <2>3. Subs(k) = 0
    BY <2>1, FS_EmptySet DEF Subs
  <2> QED
    BY <2>2, <2>3, SumEmpty
<1>4. \A o \in Observers, k \in Keys : seen[o][k] = Zero /\ begun[o][k] = Zero
  BY DEF Init
<1>5. \A i \in 1 .. Width : Zero[i] = 0
  BY DEF Zero
<1>6. SeenSome
  BY <1>3, <1>4, <1>5 DEF SeenSome
<1>7. Whole
  BY DEF Init, Whole
<1>8. Exact
  <2>1. \A k \in Keys : InMap(k) = Zero
    BY DEF Init, InMap
  <2> QED
    BY <1>3, <1>5, <2>1 DEF Exact
<1>9. ASSUME NEW o \in Observers, NEW k \in Keys
      PROVE  Informed(o, k)
  <2>1. /\ exported[o] = <<>> /\ series[o] = NoSeries /\ last_values[o][k] = None
        /\ opc[o] = "idle"
    BY DEF Init
  <2>2. \A i \in 1 .. Width : Reports(o, k)[i] = 0
    BY <1>1, <2>1, NothingReported
  <2>3. LatestOr(o, exported[o], k) = Zero
    BY <2>1 DEF LatestOr
  <2>4. \A i \in 1 .. Width : Got(o, k)[i] = 0
    BY <1>5, <2>1, <2>2, <2>3, NoSeriesIs DEF Got
  <2>5. Told(o, k)
    BY <1>3, <1>4, <1>5, <2>1, <2>4 DEF Told
  <2>6. LastReported(o, k)
    BY <2>1, <2>2 DEF LastReported
  <2> QED
    BY <2>5, <2>6 DEF Informed
<1> QED
  BY <1>1, <1>2, <1>6, <1>7, <1>8, <1>9 DEF Informing

\* Where nothing is read, nothing is reported.
LEMMA TotalOfEmpty ==
    ASSUME NEW o \in Observers, NEW S, NEW metrics \in Seq(S), \A j \in DOMAIN metrics : IsMetric(o, metrics[j]),
           NEW k \in Keys, \A j \in DOMAIN metrics : DOMAIN ReadMetric(o, metrics[j], k) = {},
           NEW i \in 1 .. Width
    PROVE  Total(ReadAll(o, metrics, k))[i] = 0
<1> DEFINE f == [j \in DOMAIN metrics |-> MetricCounts(o, metrics[j], k)[i]]
<1>1. IsFiniteSet(DOMAIN metrics) /\ Total(ReadAll(o, metrics, k))[i] = SumOf(f, DOMAIN metrics)
  BY TotalIs
<1>2. ASSUME NEW j \in DOMAIN metrics
      PROVE  MetricCounts(o, metrics[j], k)[i] = 0
  <2> DEFINE m == metrics[j]
             P == PlacesOf(o, m, k)
  <2>1. IsMetric(o, m) /\ DOMAIN ReadMetric(o, m, k) = {}
    OBVIOUS
  <2> HIDE DEF m
  <2>2. P = {} /\ MetricCounts(o, m, k)[i] = SumOf([e \in P |-> PointCounts(o, m.data_points[e])[i]], P)
    BY <2>1, ReadingsSum DEF MetricCounts
  <2>3. MetricCounts(o, m, k)[i] = 0
    BY <2>2, SumEmpty
  <2> QED
    BY <2>3 DEF m
<1>3. \A j \in DOMAIN metrics : f[j] = 0
  BY <1>2
<1> HIDE DEF f
<1> QED
  BY <1>1, <1>3, SumOfNothing

\* What a reader makes of the metrics is what it has got.
LEMMA ReportedIsGot ==
    ASSUME TextsTell, Types, Clocks, Marked, NEW o \in world.observers, Mode[o] # "Destructive",
           into_wire(o).is # "Err", NEW k \in Keys, NEW i \in 1 .. Width
    PROVE  Reported(o, k)[i] = Got(o, k)[i]
<1> DEFINE metrics == Pieces(o)
           readings == ReadAll(o, metrics, k)
           Empty == \A j \in DOMAIN readings : DOMAIN readings[j] = {}
<1>1. o \in Observers /\ cell \in Cells /\ kind \in Kinds /\ IsSeries(series[o])
      /\ (Mode[o] = "Delta" => Accumulating(o)) /\ (Mode[o] # "Delta" => ~Accumulating(o))
  BY TheCell, ObserverAssumption DEF Types, Typed, ValuesSound, Accumulating
<1>2. PICK S : metrics \in Seq(S)
  BY <1>1, PiecesAre
<1>3. /\ DOMAIN readings = DOMAIN metrics /\ DOMAIN metrics = 1 .. Len(metrics) /\ Len(metrics) \in Nat
      /\ \A j \in DOMAIN metrics : readings[j] = ReadMetric(o, metrics[j], k)
  BY <1>2 DEF ReadAll
<1>4. Empty <=> \A j \in DOMAIN metrics : DOMAIN ReadMetric(o, metrics[j], k) = {}
  <2> HIDE DEF readings, metrics
  <2> QED
    BY <1>3
<1>5. ~Empty => 1 \in DOMAIN metrics
  <2> HIDE DEF readings, metrics
  <2> QED
    BY <1>3
<1>6. ~Empty => (Accumulates(o, metrics[1]) <=> Accumulating(o))
  BY <1>1, <1>5, PiecesMarked
<1>7. Reported(o, k) = IF Empty THEN Zero ELSE IF Accumulates(o, metrics[1]) THEN Total(readings)
                       ELSE Latest(readings)
  BY DEF Reported
<1>8. CASE Mode[o] = "Delta"
  <2>1. Total(readings)[i] = Reports(o, k)[i] /\ Got(o, k) = Reports(o, k)
    BY <1>1, <1>8, TotalReports DEF Got
  <2>2. Empty => Total(readings)[i] = 0
    <3>1. \A j \in DOMAIN metrics : IsMetric(o, metrics[j])
      BY <1>1, PiecesAre
    <3> HIDE DEF metrics, Empty
    <3> QED
      BY <1>1, <1>2, <1>4, <3>1, TotalOfEmpty
  <2>3. Zero[i] = 0
    BY DEF Zero
  <2> HIDE DEF metrics, readings, Empty
  <2> QED
    BY <1>1, <1>6, <1>7, <1>8, <2>1, <2>2, <2>3
<1>9. CASE Mode[o] # "Delta"
  <2>1. Reported(o, k) = LatestOr(o, metrics, k)
    <3>1. LatestOr(o, metrics, k) = IF Empty THEN Zero ELSE Latest(readings)
      <4> HIDE DEF Empty, metrics
      <4> QED
        BY <1>4 DEF LatestOr
    <3> HIDE DEF Empty, metrics, readings
    <3> QED
      BY <1>1, <1>6, <1>7, <1>9, <3>1
  <2>2. CASE into_wire(o).is = "Some"
    <3> DEFINE m == into_wire(o).metric
               s == series[o][k]
               r == ReadMetric(o, m, k)
    <3>1. /\ DOMAIN r = {} <=> s = <<>>
          /\ s # <<>> => Newest(r) = Counts(cell, s[Len(s)].value)
      BY <1>1, <2>2, NewestIs DEF Clocks
    <3>2. PICK T : exported[o] \in Seq(T)
      BY <1>1 DEF Types, Typed
    <3>3. metrics = Append(exported[o], m)
      BY <2>2 DEF Pieces
    <3>4. Got(o, k) = IF s # <<>> THEN Counts(cell, s[Len(s)].value) ELSE LatestOr(o, exported[o], k)
      BY <1>9 DEF Got
    <3> HIDE DEF m, metrics
    <3>5. exported[o] \in Seq(T \cup {m}) /\ m \in T \cup {m}
      BY <3>2
    <3>6. /\ DOMAIN r # {} => LatestOr(o, Append(exported[o], m), k) = Newest(r)
          /\ DOMAIN r = {} => LatestOr(o, Append(exported[o], m), k) = LatestOr(o, exported[o], k)
      BY <1>1, <3>5, LatestAppend
    <3> HIDE DEF r, s
    <3>7. Reported(o, k) = Got(o, k)
      BY <2>1, <3>1, <3>3, <3>4, <3>6
    <3> QED
      BY <3>7
  <2>3. CASE into_wire(o).is # "Some"
    <3>1. series[o] = NoSeries /\ metrics = exported[o]
      BY <1>1, <2>3, Converted DEF Pieces
    <3>2. Got(o, k) = LatestOr(o, exported[o], k)
      BY <1>9, <3>1, NoSeriesIs DEF Got
    <3> QED
      BY <2>1, <3>1, <3>2
  <2> QED
    BY <2>2, <2>3
<1> QED
  BY <1>8, <1>9

\* What a reader counts includes every add that had returned when the last
\* observation began, however calls, exports and observations alternate, when
\* nothing resets or drains the metric and no metric was dropped (NothingMissed
\* of Observer); if the text of attributes, where it is what is read, tells them
\* apart, and no u64 wraps.
THEOREM NothingIsMissed ==
    ASSUME TextsTell, NoWrap
    PROVE  Safety => []NothingMissed
<1> DEFINE Calm == Quiet => Whole /\ Exact /\ Informing
<1>1. Types /\ Clocks /\ Marked /\ SeenSome /\ Calm => NothingMissed
  <2> SUFFICES ASSUME Types, Clocks, Marked, SeenSome, Calm, Steady, NoTakeYet,
                      NEW o \in world.observers, o \notin dropped, NEW k \in Keys,
                      opc[o] = "idle", into_wire(o).is # "Err", NEW i \in 1 .. Width
               PROVE  seen[o][k][i] - Cardinality(Applied("sub", k)) <= Reported(o, k)[i]
    BY DEF NothingMissed
  <2>1. o \in Observers /\ cell \in Cells /\ kind \in Kinds /\ IsSeries(series[o]) /\ Cardinality(Applied("sub", k)) \in Nat
    BY TheCell, ReturnedCalls DEF Types, Typed, ValuesSound
  <2>2. CASE Mode[o] # "Destructive"
    <3>1. Told(o, k)
      BY <2>2 DEF Quiet, Informing, Informed
    <3>2. Reported(o, k)[i] = Got(o, k)[i]
      BY <2>2, ReportedIsGot
    <3> QED
      BY <3>1, <3>2 DEF Told, Subs
  <2>3. CASE Mode[o] = "Destructive"
    <3>1. ~Polled(o)
      BY <2>3 DEF NoTakeYet, Polled
    <3>2. series[o] = NoSeries /\ exported[o] = <<>>
      BY <2>1, <3>1 DEF Clocks, Clock, PollTimes
    <3>3. Pieces(o) = <<>>
      BY <2>1, <3>2, Converted DEF Pieces
    <3>4. Reported(o, k) = Zero
      BY <3>3 DEF Reported, ReadAll
    <3>5. seen[o][k] = Zero
      BY <2>1, <3>1 DEF SeenSome
    <3>6. Zero[i] = 0
      BY DEF Zero
    <3> QED
      BY <2>1, <3>4, <3>5, <3>6
  <2> QED
    BY <2>2, <2>3
<1>2. Init => Started /\ SeenSome /\ Calm
  BY InformingInitial
<1>3. Types /\ Clocks /\ Named /\ Watching /\ Bounded /\ Started /\ SeenSome /\ Calm /\ [Next]_vars
         => Started' /\ SeenSome' /\ Calm'
  <2> SUFFICES ASSUME Types, Clocks, Named, Watching, Bounded, Started, SeenSome, Calm, [Next]_vars
               PROVE  Started' /\ SeenSome' /\ Calm'
    OBVIOUS
  <2>1. ASSUME Quiet'
        PROVE  Whole' /\ Exact' /\ Informing'
    <3>1. Whole /\ Exact /\ Informing
      BY <2>1, QuietBefore
    <3> QED
      BY <2>1, <3>1, WholeStep, ExactStep, InformingStep DEF Bounded
  <2>2. Started' /\ SeenSome'
    BY StartedStep, SeenStep
  <2> QED
    BY <2>1, <2>2
<1> HIDE DEF Calm
<1>4. Safety => [](Types /\ Clocks /\ Named /\ Watching /\ Bounded) /\ []Marked
  BY BoundedAlways, AccountedAlways, PTL
<1> QED
  BY <1>1, <1>2, <1>3, <1>4, PTL DEF Safety
=============================================================================
