----------------------------- MODULE Observer ------------------------------
(***************************************************************************)
(* The observers of one metric (src/observe.rs) and what they export:      *)
(* Direct and Delta observers visit the buckets under the map's lock, a    *)
(* Destructive one takes the table and reads its buckets after the lock is *)
(* released, all while the application keeps updating buckets it has       *)
(* looked up.  An export turns what has been recorded into a metric of     *)
(* OpenTelemetry or of the console (Wire), or drops it.                    *)
(*                                                                         *)
(* The map is reduced to what decides which bucket a call gets: the bucket *)
(* of each key, named after the update that created it, its value, and the *)
(* aliases.  BucketMap has the map itself, its two locks, how lists are    *)
(* looked up, and the bucket without attributes.                           *)
(* An AtomicF64 adds in a compare-exchange loop (src/atomic/float.rs); the *)
(* integers add in one fetch_add; what a histogram does in many steps      *)
(* takes effect in one (HistogramSpec), an update that a reset overtakes   *)
(* counting as one before it.                                              *)
(***************************************************************************)
EXTENDS Wire

CONSTANTS
    Keys,       \* canonical attribute lists
    Updates,    \* calls of add, sub, set and reset, one element per call
    Op, Key,    \* per update, which of them, and its key
    Amount,     \* per update, the number a histogram or a set gets; others get one
    Fingerprints,
    Fingerprint,\* per update, that of its list, or None for a list of one
                \* attribute, which is not looked up among the aliases
    NeedsAlias, \* per update, whether its list is not the canonical one
    Observers,
    Mode,       \* per observer, its mode
    Sink,       \*   where its collector sends to, "otel" or "console"
    Align,      \*   the poll period if timestamps are aligned, or None
    Period,     \* between two polls
    Starts,     \* the times observers that may be late are created at
    MaxDelay,   \* bound: from the start to the last poll of one that may be late
    Worlds      \* the metrics: the kind, the type of the buckets, the calls
                \* made, the observers, whether these may be late, whether each
                \* is used before its collector resets it, and, a bound, their
                \* observations

Kinds == {"Counter", "Gauge", "Histogram"}

ASSUME ObserverAssumption ==
    /\ DOMAIN Attributes = Keys
    /\ IsInjective(Attributes)
    /\ IsFiniteSet(Keys) /\ IsFiniteSet(Updates) /\ IsFiniteSet(Observers)
    /\ Op \in [Updates -> {"add", "sub", "set", "reset"}]
    /\ Key \in [Updates -> Keys]
    /\ Mode \in [Observers -> {"Direct", "Delta", "Destructive"}]
    /\ Sink \in [Observers -> {"otel", "console"}]
    /\ Align \in [Observers -> {Period, None}]
    /\ Amount \in [Updates -> Nat]
    \* Without hash collisions a fingerprint is that of lists of one key.
    /\ Fingerprint \in [Updates -> Fingerprints \cup {None}]
    /\ \A u, v \in Updates :
          Fingerprint[u] = Fingerprint[v] /\ Fingerprint[u] # None => Key[u] = Key[v]
    /\ NeedsAlias \in [Updates -> BOOLEAN]
    /\ \A u \in Updates : NeedsAlias[u] => Fingerprint[u] # None
    /\ Period \in Nat \ {0} /\ MaxDelay \in Nat /\ Starts \subseteq Int
    /\ Worlds \subseteq [kind : Kinds, cell : Cells, calls : SUBSET Updates,
                         observers : SUBSET Observers, late : BOOLEAN, reset : BOOLEAN,
                         polls : Nat]
    \* Only a gauge has sub and set; SyncObserver::new refuses a delta observer of one.
    /\ \A w \in Worlds :
          /\ w.kind = "Histogram" <=> w.cell = "Bucket"
          /\ w.kind # "Gauge" => \A u \in w.calls : Op[u] \in {"add", "reset"}
          /\ w.kind = "Gauge" => \A o \in w.observers : Mode[o] # "Delta"
    /\ None \notin Updates \cup Observers \cup Fingerprints \cup {"Delta"}

VARIABLES
    world,     \* the metric; it does not change
    bucket,    \* per key, the bucket in the map, or None
    aliases,   \* per fingerprint, the bucket its alias leads to, or None
    value,     \* per bucket, what `current` returns
    lock,      \* the observer inside visit_bucket, or None
    upc, ref,  \* per update: the next step; the Arc it has got
    old,       \* per update, the local of AtomicF64::update_with
    opc, todo, \* per observer: idle or observing; entries yet to read
    ts,        \* per observer, the argument of its last observe
    start_time, seq, last_values, series,  \* SyncObserver
    exported,  \* history: per observer, the metrics exported since its reset
    created,   \* history: the time observers were created at
    begun,     \* history: adds applied to a key when the observation began
    seen,      \* history: `begun` of the last observation that ended
    dropped,   \* history: observers with a failed export since their reset
    shed,      \* history: per observer and key, what has been written off
    overlapped,\* history: updates inside their call when the table was taken
    misled,    \* history: updates that an alias led to a bucket not in the map
    lost,      \* history: updates of a bucket already drained and read
    sunk       \* history: subs that took a u64 below zero

source == <<world, bucket, aliases, value>>
updates == <<upc, ref, old>>
progress == <<opc, todo, ts>>
observer == <<start_time, seq, last_values, series>>
outcome == <<exported, dropped, shed>>
history == <<created, begun, seen, overlapped, misled, lost, sunk>>
vars == <<source, lock, updates, progress, observer, outcome, history>>

cell == world.cell
kind == world.kind
Entries == Keys \X Updates
IsSnapshot(s) == s.seq_id \in Nat /\ s.ts \in Int /\ IsValue(cell, s.value)
Width == Len(Counts(cell, Initial(cell)))
Vectors == [1 .. Width -> Int]

Labels == {"called", "insert_dup", "update", "exchange", "returned"}

TypeOK ==
    /\ world \in Worlds
    /\ bucket \in [Keys -> Updates \cup {None}]
    /\ aliases \in [Fingerprints -> Updates \cup {None}]
    /\ \A u \in Updates : IsValue(cell, value[u])
    /\ lock \in Observers \cup {None}
    /\ upc \in [Updates -> Labels]
    /\ old \in [Updates -> Int]
    /\ ref \in [Updates -> Updates \cup {None}]
    /\ opc \in [Observers -> {"idle", "observing"}]
    /\ todo \in [Observers -> SUBSET Entries]
    /\ ts \in [Observers -> Int]
    /\ start_time \in [Observers -> Int]
    /\ seq \in [Observers -> Nat]
    /\ \A o \in Observers, k \in Keys :
           /\ last_values[o][k] = None \/ IsValue(cell, last_values[o][k])
           /\ \A i \in DOMAIN series[o][k] : IsSnapshot(series[o][k][i])
    /\ \A o \in Observers : \A i \in DOMAIN exported[o] : DOMAIN exported[o][i].data_points # {}
    /\ begun \in [Observers -> [Keys -> Vectors]]
    /\ seen \in [Observers -> [Keys -> Vectors]]
    /\ dropped \subseteq Observers
    /\ shed \in [Observers -> [Keys -> Int]]
    /\ overlapped \subseteq Updates /\ misled \subseteq Updates
    /\ lost \subseteq Updates /\ sunk \subseteq Updates

Zero == [i \in 1 .. Width |-> 0]
NoSeries == [k \in Keys |-> <<>>]

\* The observers of a metric just made.
Init ==
    /\ world \in Worlds
    /\ bucket = [k \in Keys |-> None]
    /\ aliases = [f \in Fingerprints |-> None]
    /\ value = [u \in Updates |-> Initial(cell)]
    /\ lock = None
    /\ upc = [u \in Updates |-> "called"]
    /\ ref = [u \in Updates |-> None]
    /\ old = [u \in Updates |-> 0]
    /\ opc = [o \in Observers |-> "idle"]
    /\ todo = [o \in Observers |-> {}]
    /\ created \in (IF world.late THEN Starts ELSE {0})
    /\ start_time = [o \in Observers |-> created]
    /\ ts = start_time
    /\ seq = [o \in Observers |-> 0]
    /\ last_values = [o \in Observers |-> [k \in Keys |-> None]]
    /\ series = [o \in Observers |-> NoSeries]
    /\ exported = [o \in Observers |-> <<>>]
    /\ begun = [o \in Observers |-> [k \in Keys |-> Zero]]
    /\ seen = begun
    /\ dropped = {}
    /\ shed = [o \in Observers |-> [k \in Keys |-> 0]]
    /\ overlapped = {} /\ misled = {}
    /\ lost = {} /\ sunk = {}

Live == {<<k, bucket[k]>> : k \in {k \in Keys : bucket[k] # None}}

\* The updates of an operation that have been applied to buckets of key k.
Applied(op, k) == {u \in Updates : Key[u] = k /\ Op[u] = op /\ upc[u] = "returned"}

\* Those that raise a value, and what they count for: an add for itself, a set
\* for its number, and a sub that takes a u64 below zero for the MAX that
\* metric.rs:49-50 says is left, the difference of 0 and 1.
Raised(k) == Applied("add", k) \cup Applied("set", k) \cup (Applied("sub", k) \cap sunk)

One(u) == IF cell = "Bucket" \/ Op[u] = "set" THEN Amount[u] ELSE IF Op[u] = "sub" THEN -1 ELSE 1

Gain(u) == Counts(cell, Plus(cell, Initial(cell), One(u)))

Added(k) == [i \in 1 .. Width |-> SumFunction([u \in Raised(k) |-> Gain(u)[i]])]
AddedNow == [k \in Keys |-> Added(k)]

-----------------------------------------------------------------------------
(* The application.                                                        *)

\* BucketMap::get_or_create through the canonical table, where it waits while
\* an observer is inside visit_bucket.
GetOrCreate(u) ==
    /\ u \in world.calls
    /\ upc[u] = "called"
    /\ lock = None
    /\ LET b == IF bucket[Key[u]] = None THEN u ELSE bucket[Key[u]]
       IN  /\ bucket' = [bucket EXCEPT ![Key[u]] = b]
           /\ ref' = [ref EXCEPT ![u] = b]
    /\ upc' = [upc EXCEPT ![u] = IF NeedsAlias[u] THEN "insert_dup" ELSE "update"]
    /\ UNCHANGED <<world, aliases, value, lock, old, progress, observer, outcome, history>>

\* get_bucket through an alias of a list with the same elements.  Which table a
\* list is looked up in first makes no difference: the first lookup may have
\* missed at any time since the metric was made.
LookupDup(u) ==
    /\ u \in world.calls
    /\ upc[u] = "called"
    /\ Fingerprint[u] # None
    /\ aliases[Fingerprint[u]] # None
    /\ ref' = [ref EXCEPT ![u] = aliases[Fingerprint[u]]]
    /\ misled' = IF aliases[Fingerprint[u]] = bucket[Key[u]] THEN misled ELSE misled \cup {u}
    /\ upc' = [upc EXCEPT ![u] = "update"]
    /\ UNCHANGED <<source, lock, old, progress, observer, outcome,
                   created, begun, seen, overlapped, lost, sunk>>

\* insert_dup, after the canonical lock has been released.  An occupied entry
\* stays as it is.
insert_dup(u) ==
    /\ upc[u] = "insert_dup"
    /\ aliases' = IF aliases[Fingerprint[u]] = None
                  THEN [aliases EXCEPT ![Fingerprint[u]] = ref[u]]
                  ELSE aliases
    /\ upc' = [upc EXCEPT ![u] = "update"]
    /\ UNCHANGED <<world, bucket, value, lock, ref, old, progress, observer, outcome, history>>

\* A bucket that is neither in the map nor waiting to be read is out of
\* every observer's sight.
Drained(b) == /\ b \notin Range(bucket)
              /\ \A o \in world.observers, k \in Keys : <<k, b>> \notin todo[o]

\* clear is one swap.
Clear(u) ==
    /\ upc[u] = "update"
    /\ Op[u] = "reset"
    /\ value' = [value EXCEPT ![ref[u]] = Initial(cell)]
    /\ upc' = [upc EXCEPT ![u] = "returned"]
    /\ UNCHANGED <<world, bucket, aliases, lock, ref, old, progress, observer, outcome, history>>

\* The bucket of u gets what u adds to v.
Store(u, v) ==
    /\ value' = [value EXCEPT ![ref[u]] = Plus(cell, v, One(u))]
    /\ upc' = [upc EXCEPT ![u] = "returned"]
    /\ lost' = IF Drained(ref[u]) THEN lost \cup {u} ELSE lost
    /\ sunk' = IF cell = "AtomicU64" /\ v + One(u) < 0 THEN sunk \cup {u} ELSE sunk
    /\ UNCHANGED <<world, bucket, aliases, lock, ref, old, progress, observer, outcome,
                   created, begun, seen, overlapped, misled>>

\* set stores its number whatever is there.
Set(u) ==
    /\ upc[u] = "update"
    /\ Op[u] = "set"
    /\ Store(u, Initial(cell))

\* fetch_add, fetch_sub, or the write of a histogram.
FetchAdd(u) ==
    /\ upc[u] = "update"
    /\ Op[u] \in {"add", "sub"}
    /\ cell # "AtomicF64"
    /\ Store(u, value[ref[u]])

\* update_with: load the bits, then exchange them for the new ones unless
\* they have changed, else start again from what was found.
LoadBits(u) ==
    /\ upc[u] = "update"
    /\ Op[u] \in {"add", "sub"}
    /\ cell = "AtomicF64"
    /\ old' = [old EXCEPT ![u] = value[ref[u]]]
    /\ upc' = [upc EXCEPT ![u] = "exchange"]
    /\ UNCHANGED <<source, lock, ref, progress, observer, outcome, history>>

\* Seeded defect: the sum is stored whatever is there.
CompareExchange_Stores(u) == upc[u] = "exchange" /\ Store(u, old[u])

CompareExchange(u) ==
    /\ upc[u] = "exchange"
    /\ value[ref[u]] = old[u]
    /\ Store(u, old[u])

CompareExchangeFails(u) ==
    /\ upc[u] = "exchange"
    /\ value[ref[u]] # old[u]
    /\ old' = [old EXCEPT ![u] = value[ref[u]]]
    /\ UNCHANGED <<source, lock, upc, ref, progress, observer, outcome, history>>

-----------------------------------------------------------------------------
(* observe.                                                                *)

\* The worker observes at most once per tick of its grid, after the tick, and
\* the start it gives an observer is a tick that has not come yet.
tick(o, t) == (t - start_time[o]) \div Period

Begin(o) ==
    /\ o \in world.observers
    /\ opc[o] = "idle"
    /\ seq[o] < world.polls
    /\ lock = None
    /\ \E t \in start_time[o] .. start_time[o] + MaxDelay :
          /\ IF world.late THEN seq[o] > 0 => tick(o, t) > tick(o, ts[o])
                            ELSE t = start_time[o] + Period * seq[o]
          /\ ts' = [ts EXCEPT ![o] = t]
    /\ opc' = [opc EXCEPT ![o] = "observing"]
    /\ todo' = [todo EXCEPT ![o] = Live]
    /\ begun' = [begun EXCEPT ![o] = AddedNow]

\* observe_impl: visit_bucket holds the canonical lock to the end.
BeginVisit(o) ==
    /\ Mode[o] # "Destructive"
    /\ Begin(o)
    /\ lock' = o
    /\ UNCHANGED <<source, updates, observer, outcome, created, seen,
                   overlapped, misled, lost, sunk>>

\* observe_destructive: the table is taken, the aliases are cleared and the
\* locks released.
BeginTake(o) ==
    /\ Mode[o] = "Destructive"
    /\ Begin(o)
    /\ bucket' = [k \in Keys |-> None]
    /\ aliases' = [f \in Fingerprints |-> None]
    /\ overlapped' = overlapped \cup {u \in Updates : upc[u] \notin {"called", "returned"}}
    /\ UNCHANGED <<world, value, lock, updates, observer, outcome, created, seen,
                   misled, lost, sunk>>

Record(o, k, v) ==
    series' = [series EXCEPT ![o][k] = Append(@, [seq_id |-> seq[o], ts |-> ts[o], value |-> v])]

\* The callback of visit_bucket.  Direct records the value as it is.  Delta
\* skips an unchanged one; else it records the difference, and the value
\* itself the first time or when it has gone down.
VisitBucket(o) ==
    /\ Mode[o] # "Destructive"
    /\ \E e \in todo[o] :
        LET k == e[1]
            current == value[e[2]]
            prev == last_values[o][k]
            grown == Mode[o] = "Delta" /\ prev # None /\ Less(cell, prev, current)
        IN  /\ todo' = [todo EXCEPT ![o] = @ \ {e}]
            /\ last_values' = IF Mode[o] = "Delta" THEN [last_values EXCEPT ![o][k] = current]
                              ELSE last_values
            /\ IF Mode[o] = "Delta" /\ prev = current
               THEN UNCHANGED series
               ELSE Record(o, k, IF grown THEN Minus(cell, current, prev) ELSE current)
    /\ UNCHANGED <<source, lock, updates, opc, ts, start_time, seq, outcome, history>>

\* The taken buckets are read one by one; an initial value is skipped.
ReadBucket(o) ==
    /\ Mode[o] = "Destructive"
    /\ \E e \in todo[o] :
        /\ todo' = [todo EXCEPT ![o] = @ \ {e}]
        /\ IF is_initial(cell, value[e[2]])
           THEN UNCHANGED series
           ELSE Record(o, e[1], value[e[2]])
    /\ UNCHANGED <<source, lock, updates, opc, ts, start_time, seq, last_values,
                   outcome, history>>

EndObserve(o) ==
    /\ opc[o] = "observing"
    /\ todo[o] = {}
    /\ opc' = [opc EXCEPT ![o] = "idle"]
    /\ lock' = IF lock = o THEN None ELSE lock
    /\ seq' = [seq EXCEPT ![o] = @ + 1]
    /\ seen' = [seen EXCEPT ![o] = begun[o]]
    /\ UNCHANGED <<source, updates, todo, ts, start_time, last_values, series,
                   outcome, created, begun, overlapped, misled, lost, sunk>>

-----------------------------------------------------------------------------
(* What a backend, or who reads the console, makes of metrics.             *)

\* The numbers under the attributes of key k, in the order of the protocol's
\* points or of the lines of the text.
WireCounts(v) == IF cell = "Bucket" THEN <<v.count>> \o v.bucket_counts ELSE <<v.number>>

TextCounts(text) ==
    IF cell = "Bucket"
    THEN <<text.count>> \o [i \in DOMAIN text.cells |-> text.cells[i].count]
    ELSE <<text>>

\* What a metric says of k: the numbers, each with its time or its line.
ReadMetric(o, m, k) ==
    IF Sink[o] = "otel"
    THEN LET points == {e \in DOMAIN m.data_points :
                            m.data_points[e].attributes = map_attrs(Attributes[k])}
         IN  [e \in points |-> [at |-> m.data_points[e].time,
                                counts |-> WireCounts(m.data_points[e].value)]]
    ELSE LET text == render(m).lines
             lines == {n \in DOMAIN text : text[n].attrs_col = render_attrs(k)}
         IN  [n \in lines |-> [at |-> n, counts |-> TextCounts(text[n].value_col)]]

ReadAll(o, metrics, k) == [i \in DOMAIN metrics |-> ReadMetric(o, metrics[i], k)]

Sum(counts) == [i \in 1 .. Width |-> SumFunction([e \in DOMAIN counts |-> counts[e][i]])]

Total(readings) ==
    Sum([i \in DOMAIN readings |->
            Sum([e \in DOMAIN readings[i] |-> readings[i][e].counts])])

\* The last of the readings that are not empty, and its last number.
Latest(readings) ==
    LET last == readings[Max({i \in DOMAIN readings : DOMAIN readings[i] # {}})]
        e == CHOOSE e \in DOMAIN last : \A d \in DOMAIN last : last[d].at <= last[e].at
    IN  last[e].counts

-----------------------------------------------------------------------------
(* export and reset.                                                       *)

\* SyncObserver::take, without the identity; a key that is not in the map here
\* has no snapshot.
Series(o) ==
    [start_time |-> start_time[o],
     series |-> series[o],
     observe_mode |-> Mode[o],
     kind |-> kind,
     cell |-> cell]

into_wire(o) == IF Sink[o] = "otel" THEN OtelInto(Series(o), Align[o])
                ELSE ConsoleInto(Series(o), Align[o])

\* What the snapshots of k not exported have counted, what the metrics have, and
\* what is written off with them.
PendingCounts(o, k) ==
    Sum([n \in DOMAIN series[o][k] |-> Counts(cell, series[o][k][n].value)])
Pending(o, k) == PendingCounts(o, k)[1]
Delivered(o, k) == Total(ReadAll(o, exported[o], k))[1]

ShedSeries(o) == [k \in Keys |-> shed[o][k] + Pending(o, k)]
ShedAll(o) == [k \in Keys |-> shed[o][k] + Pending(o, k) + Delivered(o, k)]

\* The collector gets the metric, or an error and the series are gone.
Deliver(o, wire) ==
    IF wire.is = "Err"
    THEN /\ dropped' = dropped \cup {o}
         /\ shed' = [shed EXCEPT ![o] = ShedSeries(o)]
         /\ UNCHANGED exported
    ELSE /\ exported' = [exported EXCEPT ![o] = Append(@, wire.metric)]
         /\ UNCHANGED <<dropped, shed>>

\* Seeded defect: the last values leave with the series.
Export_DropsLast(o) ==
    /\ opc[o] = "idle"
    /\ series[o] # NoSeries
    /\ Deliver(o, into_wire(o))
    /\ series' = [series EXCEPT ![o] = NoSeries]
    /\ last_values' = [last_values EXCEPT ![o] = [k \in Keys |-> None]]
    /\ UNCHANGED <<source, lock, updates, progress, start_time, seq, history>>

\* export: the series are moved out; the rest goes on.  With no snapshot there
\* is nothing to emit.
Export(o) ==
    /\ opc[o] = "idle"
    /\ series[o] # NoSeries
    /\ Deliver(o, into_wire(o))
    /\ series' = [series EXCEPT ![o] = NoSeries]
    /\ UNCHANGED <<source, lock, updates, progress, start_time, seq, last_values, history>>

\* Seeded defect: the last values outlive the reset.
Reset_KeepsLast(o) ==
    /\ world.reset
    /\ o \in world.observers
    /\ opc[o] = "idle"
    /\ start_time[o] = created
    /\ start_time' = [start_time EXCEPT ![o] = @ + Period * (tick(o, ts[o]) + 1)]
    /\ seq' = [seq EXCEPT ![o] = 0]
    /\ series' = [series EXCEPT ![o] = NoSeries]
    /\ exported' = [exported EXCEPT ![o] = <<>>]
    /\ dropped' = dropped \ {o}
    /\ shed' = [shed EXCEPT ![o] = ShedAll(o)]
    /\ seen' = [seen EXCEPT ![o] = [k \in Keys |-> Zero]]
    /\ UNCHANGED <<source, lock, updates, progress, last_values, created, begun,
                   overlapped, misled, lost, sunk>>

\* reset, when a collector gets the observer: it starts at the next tick.
Reset(o) ==
    /\ world.reset
    /\ o \in world.observers
    /\ opc[o] = "idle"
    /\ start_time[o] = created
    /\ start_time' = [start_time EXCEPT ![o] = @ + Period * (tick(o, ts[o]) + 1)]
    /\ seq' = [seq EXCEPT ![o] = 0]
    /\ series' = [series EXCEPT ![o] = NoSeries]
    /\ last_values' = [last_values EXCEPT ![o] = [k \in Keys |-> None]]
    /\ exported' = [exported EXCEPT ![o] = <<>>]
    /\ dropped' = dropped \ {o}
    /\ shed' = [shed EXCEPT ![o] = ShedAll(o)]
    /\ seen' = [seen EXCEPT ![o] = [k \in Keys |-> Zero]]
    /\ UNCHANGED <<source, lock, updates, progress, created, begun,
                   overlapped, misled, lost, sunk>>

Next ==
    \/ \E u \in Updates : \/ GetOrCreate(u) \/ LookupDup(u) \/ insert_dup(u)
                          \/ Clear(u) \/ Set(u) \/ FetchAdd(u) \/ LoadBits(u)
                          \/ CompareExchange(u) \/ CompareExchangeFails(u)
    \/ \E o \in Observers : \/ BeginVisit(o) \/ BeginTake(o)
                            \/ VisitBucket(o) \/ ReadBucket(o)
                            \/ EndObserve(o) \/ Export(o) \/ Reset(o)

Safety == Init /\ [][Next]_vars

-----------------------------------------------------------------------------
(* Properties.                                                             *)

\* What has left since the reset, and what would leave now.
Pieces(o) ==
    LET wire == into_wire(o)
    IN  IF wire.is = "Some" THEN Append(exported[o], wire.metric) ELSE exported[o]

Accumulates(o, m) ==
    (IF Sink[o] = "otel" THEN m.data.temporality ELSE render(m).header.temporality) = "Delta"

\* The reader adds up what is marked as a delta, and takes the last of the rest.
Reported(o, k) ==
    LET readings == ReadAll(o, Pieces(o), k)
    IN  IF \A i \in DOMAIN readings : DOMAIN readings[i] = {} THEN Zero
        ELSE IF Accumulates(o, Pieces(o)[1]) THEN Total(readings)
        ELSE Latest(readings)

\* No reader counts more than was added, in total or in a bucket of a histogram,
\* even when the metric is reset or drained by another observer between two
\* observations, or the observer was used before its collector reset it.
NothingInvented ==
    \A o \in world.observers, k \in Keys :
        LET reported == Reported(o, k)
        IN  \A i \in 1 .. Width : reported[i] <= Added(k)[i]

\* Only adds have been made, and subs that left a value u64 has.
Steady ==
    /\ \A u \in Updates : Op[u] \in {"reset", "set"} => upc[u] = "called"
    /\ sunk = {}
NoTakeYet == \A o \in world.observers : Mode[o] = "Destructive" =>
                seq[o] = 0 /\ opc[o] = "idle" /\ start_time[o] = created

\* With no reset or set of the metric, no sub below the zero of a u64, and no
\* destructive observer, what a reader counts includes every add that had returned
\* when the last observation began, however exports and observations alternate,
\* unless a metric was dropped.
NothingMissed ==
    Steady /\ NoTakeYet =>
        \A o \in world.observers \ dropped, k \in Keys :
            opc[o] = "idle" /\ into_wire(o).is # "Err" =>
                LET reported == Reported(o, k)
                IN  \A i \in 1 .. Width :
                        seen[o][k][i] - Cardinality(Applied("sub", k)) <= reported[i]

\* A metric is dropped only on its way to OpenTelemetry, and only if a time is
\* not one the protocol has or a u64 was raised above what an i64 holds: by adds,
\* by a set, or by a sub that took it below zero.
DropsAreUnrepresentable ==
    \A o \in dropped :
        /\ Sink[o] = "otel"
        /\ \/ {start_time[o], ts[o]} \ (0 .. MaxNanos) # {}
           \/ cell = "AtomicU64" /\ \E k \in Keys : Added(k)[1] > MaxI64

\* The points of one key have strictly increasing times, none before the
\* start they name, aligned or not, before and after an export, and when the
\* number of polls outgrows its u32.
TimesIncrease ==
    \A o \in world.observers : \A i, j \in DOMAIN Pieces(o) :
        \A d \in DOMAIN Pieces(o)[i].data_points, e \in DOMAIN Pieces(o)[j].data_points :
            LET p == Pieces(o)[i].data_points[d]
                q == Pieces(o)[j].data_points[e]
            IN  /\ start_time[o] = p.start_time /\ p.start_time <= p.time
                /\ p.attributes = q.attributes /\ (i < j \/ (i = j /\ d[2] < e[2]))
                      => p.time < q.time

\* A text can be read from the top: the time a line shows, or that of the last
\* line that shows one, is that of its point; no point is missing; and within
\* a day the times do not go back.
TextReadable ==
    \A o \in {o \in world.observers : Sink[o] = "console"} : \A i \in DOMAIN Pieces(o) :
        LET m == Pieces(o)[i]
            lines == render(m).lines
            timed(n) == {j \in 1 .. n : lines[j].time_col # Blank}
            time(n) == lines[Max(timed(n))].time_col
            one_day == \A p, q \in Range(m.data_points) :
                           p.time \div DayLength = q.time \div DayLength
        IN  /\ Len(lines) = Cardinality(DOMAIN m.data_points)
            /\ \A n \in DOMAIN lines : timed(n) # {}
            /\ \A p \in Range(m.data_points) : \E n \in DOMAIN lines :
                  /\ time(n) = render_time(p.time)
                  /\ lines[n].attrs_col = render_attrs(p.attributes)
                  /\ lines[n].value_col = ValueText(p.value)
            /\ one_day /\ NoTime \notin {time(n) : n \in DOMAIN lines} =>
                  \A n \in DOMAIN lines : \A j \in 1 .. n : time(j) <= time(n)

\* With no reset or set of the metric and no sub below the zero of a u64,
\* destructive observers between them report each add once; an add is in the map,
\* in a taken table not yet read, reported or written off.  The only ones missing
\* are those of a call that a take overlapped, and those of a call, whenever it is
\* made, that an alias led to a bucket no longer in the map; and such an alias is
\* there only if a call for a list of the same elements, not the canonical one,
\* was overlapped by a take and inserted it afterwards.
DrainedOnceOrLate ==
    LET drainers == {o \in world.observers : Mode[o] = "Destructive"}
        unread(k) == {e[2] : e \in (UNION {todo[o] : o \in drainers}) \cap ({k} \X Updates)}
        visible(k) == unread(k) \cup (Range(bucket) \cap {u \in Updates : Key[u] = k})
        net(k) == Cardinality(Applied("add", k) \ lost) - Cardinality(Applied("sub", k) \ lost)
    IN  Steady =>
            /\ lost \subseteq overlapped \cup misled
            /\ \A u \in misled : \E v \in overlapped :
                  NeedsAlias[v] /\ Fingerprint[v] = Fingerprint[u]
            /\ \A k \in Keys :
                  net(k) = SumFunction([o \in drainers |->
                                            Delivered(o, k) + Pending(o, k) + shed[o][k]])
                         + SumFunction([b \in visible(k) |-> Counts(cell, value[b])[1]])

\* histogram.rs:42: "During subtraction, counts and `sum` saturate at zero." The
\* sum of a difference is then no more than the sum it was taken from.
SumSaturates ==
    [][\A o \in Observers, k \in Keys :
          cell = "Bucket" /\ Mode[o] = "Delta" /\ Len(series'[o][k]) > Len(series[o][k])
              => Last(series'[o][k]).value.sum <= last_values'[o][k].sum]_vars
=============================================================================
