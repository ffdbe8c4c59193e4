--------------------------- MODULE HistogramData ---------------------------
(***************************************************************************)
(* The data of a histogram bucket (src/atomic/histogram.rs): its fields,   *)
(* the order in which `add`, `sub` and `snapshot` visit them, and the      *)
(* numbers a snapshot shows.                                               *)
(*                                                                         *)
(* Every field is changed only by commutative read-modify-writes (fetch_add,*)
(* fetch_sub, fetch_min, fetch_max), so the value of a field is a function *)
(* of the SET of calls that have been applied to it.  The models keep that *)
(* set; CountOf computes the number the code stores in a counter.         *)
(***************************************************************************)
EXTENDS Integers, Sequences, FiniteSets, FiniteSetsExt

CONSTANTS
    Adds,        \* calls of Record::add, one element per call
    Subs,        \* calls of Record::sub, one element per call
    Values,      \* the comparable values a caller passes
    NaN,         \* a value that does not compare with itself
    Boundaries,  \* the bucket boundaries
    Modulus      \* 2^w, w the width of `count` and `sum`

ASSUME UpdatesAssumption ==
    /\ IsFiniteSet(Adds)
    /\ IsFiniteSet(Subs)
    /\ Adds \cap Subs = {}

ASSUME ValuesAssumption ==
    /\ Values \subseteq Int
    /\ NaN \notin Values

\* Bucket::checked_boundaries refuses every other list.
checked_boundaries(b) ==
    /\ b # <<>>
    /\ \A i \in 1 .. Len(b) - 1 : b[i] < b[i + 1]

ASSUME BoundariesAssumption ==
    /\ Boundaries \in Seq(Int)
    /\ checked_boundaries(Boundaries)

ASSUME ModulusAssumption == Modulus \in Nat \ {0}

Updates == Adds \cup Subs

-----------------------------------------------------------------------------
(* The fields of State<T>; a bucket counter is a field of its own.         *)

Buckets == 0 .. Len(Boundaries)

sum == <<"sum", 0>>
min == <<"min", 0>>
max == <<"max", 0>>
count == <<"count", 0>>
bucket_counts(i) == <<"bucket_counts", i>>

Fields == {sum, min, max, count} \cup {bucket_counts(i) : i \in Buckets}

\* State::new: no call has been applied to any field.
NewState == [f \in Fields |-> {}]

\* partition_point on strictly increasing boundaries: bucket i holds the
\* values in (boundary i, boundary i+1].
bucket_index(v) == Cardinality({i \in DOMAIN Boundaries : Boundaries[i] < v})

\* Seeded defect: `sub` forgets the bucket counter.
WriteOrder_SubSkipsBucket(c, v) ==
    IF c \in Adds
    THEN <<sum, min, max, bucket_counts(bucket_index(v)), count>>
    ELSE <<sum, count>>

\* The fields the callback of `add` and of `sub` visits, in order.  `sub`
\* leaves min and max alone.
WriteOrder(c, v) ==
    IF c \in Adds
    THEN <<sum, min, max, bucket_counts(bucket_index(v)), count>>
    ELSE <<sum, bucket_counts(bucket_index(v)), count>>

Touches(c, v, f) == \E k \in DOMAIN WriteOrder(c, v) : WriteOrder(c, v)[k] = f

\* The fields State::snapshot loads, in order.
ReadLen == Len(Boundaries) + 5

ReadOrder == [k \in 1 .. ReadLen |->
    IF k = 1 THEN count
    ELSE IF k <= Len(Boundaries) + 2 THEN bucket_counts(k - 2)
    ELSE IF k = Len(Boundaries) + 3 THEN sum
    ELSE IF k = Len(Boundaries) + 4 THEN min
    ELSE max]

-----------------------------------------------------------------------------
(* The numbers behind a set of calls.  fetch_add and fetch_sub wrap.       *)

CountOf(S) == (Cardinality(S \cap Adds) - Cardinality(S \cap Subs)) % Modulus

\* The snapshot of a state to which exactly the calls S have been applied:
\* min and max are None when the count reads zero.
SnapshotOf(S, arg) == [f \in Fields |->
    IF f \in {min, max} /\ CountOf(S) = 0
    THEN {}
    ELSE {c \in S : Touches(c, arg[c], f)}]
=============================================================================
