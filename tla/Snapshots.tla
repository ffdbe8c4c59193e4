----------------------------- MODULE Snapshots ------------------------------
(***************************************************************************)
(* The value of a bucket: what an update makes of it, what `current` of it *)
(* returns, and what an observer does with two of them.  src/atomic/mod.rs *)
(* for the numbers, src/atomic/histogram.rs for a histogram, whose updates *)
(* and snapshots are atomic by Histogram and HistogramSpec.                *)
(***************************************************************************)
EXTENDS Integers, Sequences, FiniteSets

CONSTANTS
    Boundaries,  \* of a histogram, strictly increasing
    Modulus,     \* 2^w, w the width of a u64
    None

\* The buckets a metric can have: the atomic numbers, and the histogram of u64.
Cells == {"AtomicF64", "AtomicU64", "AtomicI64", "Bucket"}

Histograms == [bucket_counts : [1 .. Len(Boundaries) + 1 -> Nat], count : Nat, sum : Nat,
               min : Nat \cup {None}, max : Nat \cup {None}]

IsValue(cell, v) == IF cell = "Bucket" THEN v \in Histograms ELSE v \in Int

\* State::new and the zero of a number.
Initial(cell) ==
    IF cell = "Bucket"
    THEN [bucket_counts |-> [i \in 1 .. Len(Boundaries) + 1 |-> 0], count |-> 0, sum |-> 0,
          min |-> None, max |-> None]
    ELSE 0

\* Only the count tells whether anything has been recorded.
is_initial(cell, v) == IF cell = "Bucket" THEN v.count = 0 ELSE v = 0

bucket_index(x) == 1 + Cardinality({i \in DOMAIN Boundaries : Boundaries[i] < x})

\* Record::add, and sub as the addition of a negative number.
Plus(cell, v, x) ==
    CASE cell = "Bucket" ->
            [bucket_counts |-> [i \in DOMAIN v.bucket_counts |->
                                   v.bucket_counts[i] + IF i = bucket_index(x) THEN 1 ELSE 0],
             count |-> v.count + 1,
             sum |-> (v.sum + x) % Modulus,
             min |-> IF v.min = None \/ x < v.min THEN x ELSE v.min,
             max |-> IF v.max = None \/ x > v.max THEN x ELSE v.max]
      [] cell = "AtomicU64" -> (v + x) % Modulus
      [] OTHER -> v + x

\* partial_cmp: histograms are ordered by their counts.
Less(cell, v, w) == IF cell = "Bucket" THEN v.count < w.count ELSE v < w

\* Seeded defect: a difference below zero is kept.
saturating_sub_Plain(a, b) == a - b

saturating_sub(a, b) == IF a < b THEN 0 ELSE a - b

\* Sub: counts saturate, a sum of u64 wraps, min and max are forgotten.
Minus(cell, v, w) ==
    CASE cell = "Bucket" ->
            [bucket_counts |-> [i \in DOMAIN v.bucket_counts |->
                                   saturating_sub(v.bucket_counts[i], w.bucket_counts[i])],
             count |-> saturating_sub(v.count, w.count),
             sum |-> (v.sum - w.sum) % Modulus,
             min |-> None,
             max |-> None]
      [] cell = "AtomicU64" -> (v - w) % Modulus
      [] OTHER -> v - w

\* What is counted in a value: the number itself, or the count of a histogram
\* and of each of its buckets.
Counts(cell, v) == IF cell = "Bucket" THEN <<v.count>> \o v.bucket_counts ELSE <<v>>
=============================================================================
