-------------------------------- MODULE Wire --------------------------------
(***************************************************************************)
(* What the snapshots of one observer become when it exports them: a       *)
(* metric of the OpenTelemetry protocol (src/otel/dto.rs) or of the        *)
(* console and its text (src/console/dto.rs).                              *)
(*                                                                         *)
(* A series is [start_time, series, observe_mode, kind, cell], series      *)
(* giving the snapshots of each key; key k stands for the attributes       *)
(* Attributes[k] and keys are numbered in the order of their attributes.   *)
(* An attribute is [key, value] with the value None or [type, content,     *)
(* items], items being the values or attributes of an array; they are not  *)
(* nested further.  A metric has its points by their places.  Times are    *)
(* milliseconds from the epoch.  The console's numbers are those before    *)
(* to_f64 rounds them: above 2^53 its text shows them rounded.             *)
(***************************************************************************)
EXTENDS Snapshots, Functions, FiniteSetsExt, SequencesExt, TLC

CONSTANTS
    Attributes,   \* per key
    MaxI64,       \* the largest i64
    MaxU32,       \* the largest u32
    MaxNanos,     \* the largest time whose nanoseconds are a u64
    DayLength,    \* a day
    NoTime,       \* the text of a time before the epoch
    Infinity,     \* the text of the bound of the last bucket
    Blank         \* the text of a time that is not repeated

AnyValueType == [String |-> "StringValue", Bool |-> "BoolValue", Int |-> "IntValue",
                 Double |-> "DoubleValue", ArrayAny |-> "ArrayValue",
                 ArrayKv |-> "KvlistValue", Bytes |-> "BytesValue"]

\* The values with these types.
AttributeValues(types) ==
    [type : types, content : STRING,
     items : Seq([type : types, content : STRING, items : {<<>>}])]

\* The numbers are what their types hold, and None, NoTime and Blank are none of them.
ASSUME WireAssumption ==
    /\ MaxI64 \in Nat /\ MaxU32 \in Nat /\ MaxNanos \in Nat /\ DayLength \in Nat \ {0}
    /\ Boundaries \in Seq(Int)
    /\ \A i, j \in DOMAIN Boundaries : i < j => Boundaries[i] < Boundaries[j]
    /\ Modulus \in Nat /\ Modulus > 1
    /\ DOMAIN Attributes \subseteq Nat
    /\ \A k \in DOMAIN Attributes :
          Attributes[k] \in Seq([key : STRING, value : AttributeValues(DOMAIN AnyValueType) \cup {None}])
    /\ None \notin Int \cup Histograms \cup AttributeValues(Range(AnyValueType))
    /\ NoTime \notin Int /\ Blank \notin Int \cup {NoTime}

map_temporality(mode) == IF mode = "Direct" THEN "Cumulative" ELSE "Delta"

\* Seeded defect: the number of polls is cut to a u32.
align_ts_Truncates(snapshot, start_time, align) ==
    IF align = None THEN snapshot.ts
    ELSE start_time + align * (snapshot.seq_id % (MaxU32 + 1))

\* The time of the poll on the grid, or of the clock when timestamps are not
\* aligned or there have been too many polls.
align_ts(snapshot, start_time, align) ==
    IF align = None \/ snapshot.seq_id > MaxU32
    THEN snapshot.ts
    ELSE start_time + align * snapshot.seq_id

\* What into_wire iterates over: <<k, n>> is the place of the n-th snapshot of
\* key k.  A HashMap has its keys in any order; no reader depends on it.
Places(s) == UNION {{k} \X DOMAIN s.series[k] : k \in DOMAIN s.series}
SnapshotAt(s, e) == s.series[e[1]][e[2]]

\* What into_wire returns, a Result of an Option.
Failed == [is |-> "Err"]
Nothing == [is |-> "None"]
Some(m) == [is |-> "Some", metric |-> m]

-----------------------------------------------------------------------------
(* OpenTelemetry                                                           *)

\* From<&Value>: the same content under the protocol's type, item by item.
AnyValue(v) ==
    [type |-> AnyValueType[v.type], content |-> v.content,
     items |-> [i \in DOMAIN v.items |-> [v.items[i] EXCEPT !.type = AnyValueType[@]]]]

\* An attribute without a value keeps its key.
map_attrs(attrs) ==
    [i \in DOMAIN attrs |->
        [key |-> attrs[i].key,
         value |-> IF attrs[i].value = None THEN None ELSE AnyValue(attrs[i].value)]]

\* map_time fails before the epoch and when the nanoseconds overflow.
map_time_fails(t) == t \notin 0 .. MaxNanos

\* Seeded defect: the largest i64 is refused as well.
into_number_value_Strict(cell, v) ==
    CASE cell = "AtomicF64" -> [type |-> "AsDouble", number |-> v]
      [] cell = "AtomicI64" -> [type |-> "AsInt", number |-> v]
      [] cell = "AtomicU64" -> IF v < MaxI64 THEN [type |-> "AsInt", number |-> v]
                               ELSE [type |-> "Failed"]

\* The protocol has no u64.
into_number_value(cell, v) ==
    CASE cell = "AtomicF64" -> [type |-> "AsDouble", number |-> v]
      [] cell = "AtomicI64" -> [type |-> "AsInt", number |-> v]
      [] cell = "AtomicU64" -> IF v <= MaxI64 THEN [type |-> "AsInt", number |-> v]
                               ELSE [type |-> "Failed"]

HistogramPoint(v) ==
    [type |-> "Histogram", count |-> v.count, sum |-> v.sum, bucket_counts |-> v.bucket_counts,
     explicit_bounds |-> Boundaries, min |-> v.min, max |-> v.max]

PointValue(cell, v) ==
    IF cell = "Bucket" THEN HistogramPoint(v) ELSE into_number_value(cell, v)

\* proto::metric::Data without its points; a Gauge has no temporality.
OtelData(s) ==
    LET temporality == map_temporality(s.observe_mode)
    IN  CASE s.kind = "Counter" ->
                [type |-> "Sum", temporality |-> temporality, is_monotonic |-> TRUE]
          [] s.kind = "Gauge" ->
                [type |-> "Gauge", temporality |-> None, is_monotonic |-> FALSE]
          [] s.kind = "Histogram" ->
                [type |-> "Histogram", temporality |-> temporality, is_monotonic |-> FALSE]

\* into_wire: one value or time that does not convert fails the metric.
OtelInto(s, align) ==
    LET point(e) ==
            [attributes |-> map_attrs(Attributes[e[1]]),
             start_time |-> s.start_time,
             time |-> align_ts(SnapshotAt(s, e), s.start_time, align),
             value |-> PointValue(s.cell, SnapshotAt(s, e).value)]
        points == [e \in Places(s) |-> point(e)]
        fails(p) == \/ p.value.type = "Failed"
                    \/ map_time_fails(p.start_time)
                    \/ map_time_fails(p.time)
    IN  IF Places(s) = {} THEN Nothing
        ELSE IF \E e \in Places(s) : fails(points[e]) THEN Failed
        ELSE Some([data |-> OtelData(s), data_points |-> points])

-----------------------------------------------------------------------------
(* The console                                                             *)

\* The last bucket has no upper bound.
ConsoleHistogram(v) ==
    [type |-> "Histogram", count |-> v.count, sum |-> v.sum,
     buckets |-> [i \in DOMAIN v.bucket_counts |->
                     [upper_bound |-> IF i \in DOMAIN Boundaries THEN Boundaries[i] ELSE None,
                      count |-> v.bucket_counts[i]]],
     min |-> v.min, max |-> v.max]

ConsoleValue(cell, v) ==
    IF cell = "Bucket" THEN ConsoleHistogram(v) ELSE [type |-> "Number", number |-> v]

\* into_wire: to_f64 of an integer or a float never fails.
ConsoleInto(s, align) ==
    LET point(e) ==
            [attributes |-> e[1],
             start_time |-> s.start_time,
             time |-> align_ts(SnapshotAt(s, e), s.start_time, align),
             value |-> ConsoleValue(s.cell, SnapshotAt(s, e).value)]
    IN  IF Places(s) = {} THEN Nothing
        ELSE Some([kind |-> s.kind, temporality |-> map_temporality(s.observe_mode),
                   data_points |-> [e \in Places(s) |-> point(e)]])

header(m) == [kind |-> m.kind, temporality |-> IF m.kind = "Gauge" THEN None ELSE m.temporality]

\* Seeded defect: the points are in the order of the map.
sorted_points_AsTheyCome(m) ==
    LET order == SetToSeq(DOMAIN m.data_points)
    IN  [n \in DOMAIN order |-> m.data_points[order[n]]]

\* By time, then by attributes; sort_by leaves equal ones as they came.
Precedes(m, d, e) ==
    LET p == m.data_points[d]
        q == m.data_points[e]
    IN  \/ p.time < q.time
        \/ p.time = q.time /\ p.attributes < q.attributes
        \/ p.time = q.time /\ p.attributes = q.attributes /\ d[2] < e[2]

Rank(m, e) == 1 + Cardinality({d \in DOMAIN m.data_points : Precedes(m, d, e)})

sorted_points(m) ==
    [n \in 1 .. Cardinality(DOMAIN m.data_points) |->
        m.data_points[CHOOSE e \in DOMAIN m.data_points : Rank(m, e) = n]]

\* The time of the day, in UTC.
render_time(t) == IF t < 0 THEN NoTime ELSE t % DayLength

\* The text of a value: only a string has quotes, and no type is shown.
Display(v) ==
    [quoted |-> v.type = "String", content |-> v.content,
     items |-> [i \in DOMAIN v.items |-> [v.items[i] EXCEPT !.type = @ = "String"]]]

render_attrs(k) ==
    [i \in DOMAIN Attributes[k] |->
        LET kv == Attributes[k][i]
        IN  [key |-> kv.key, value |-> IF kv.value = None THEN None ELSE Display(kv.value)]]

\* Histogram::render: a cell per bucket, and the minimum and the maximum only
\* if there are any.
HistogramText(h) ==
    [cells |-> [i \in DOMAIN h.buckets |->
        [upper_bound |-> IF h.buckets[i].upper_bound = None THEN Infinity
                         ELSE h.buckets[i].upper_bound,
         count |-> h.buckets[i].count]],
     count |-> h.count, sum |-> h.sum,
     extremes |-> SelectSeq(<< <<"min", h.min>>, <<"max", h.max>> >>, LAMBDA e : e[2] # None)]

ValueText(v) == IF v.type = "Histogram" THEN HistogramText(v) ELSE v.number

\* A line per point, indented instead of timed when the time is that of the
\* line before.
render(m) ==
    LET points == sorted_points(m)
    IN  [header |-> header(m),
         lines |-> [i \in DOMAIN points |->
            [time_col |-> IF i > 1 /\ points[i - 1].time = points[i].time THEN Blank
                          ELSE render_time(points[i].time),
             attrs_col |-> render_attrs(points[i].attributes),
             value_col |-> ValueText(points[i].value)]]]
=============================================================================
