# Verification of ohnotel

This directory holds TLA+ models of ohnotel, an in-process metrics library in
Rust: what its lock-free and lock-based data structures promise, what its
collectors do with them, and machine-checked proofs about the core. Paths such
as `lock.rs:45` are relative to `src/src/`; paths in `PROJECT.json` are relative
to the directory above this one.

Every model is a translation of the code, one action per critical section or
atomic access where threads interleave, and per handler elsewhere. A definition
keeps the name of the Rust item it models; `PROJECT.json` maps each to its lines.

## 1. The system

An application updates metrics from any number of threads. Collectors read them:
periodic ones from a worker thread of their own, which pushes batches to an
asynchronous sender task; a Prometheus one whenever it is scraped.

    application threads ---- add, set, reset ----> Counter, Gauge, Histogram
                                                       |
                                      BucketMap: attributes -> Arc<bucket>
                                                       |  buckets: integers, AtomicF64,
                                                       |  or histogram over SeqLock
             visit_bucket / take                       |        visit_bucket
      SyncObserver (Direct | Delta | Destructive) <----+----> prometheus SourceHandle
             |  worker thread, two GridTimers                    |  render()
             v                                                   v
      batch channel --> sender task --> Gated<Sender>         text exposition
             ^
      Collection::add / Collector::add register sources

### Components

| component | state | operations | what is hard | correct means |
|---|---|---|---|---|
| sequence lock (`lock.rs`) | `start`, `end`, `inner` | `write`, `read` | several writers at once, a reader that retries, memory orders | a reader's callback result comes from a moment with no writer inside |
| histogram bucket (`atomic/histogram.rs`) | `ArcSwap` of a locked `State` | `add`, `sub`, `snapshot`, `take`, `clear` | updates that hold the state while it is swapped out | snapshots are of whole updates; what has returned is seen; nothing is drained twice |
| scalar atomics (`atomic/integers.rs`, `float.rs`) | one atomic | `add`, `sub`, `store`, `reset`, `swap`, min, max | the compare-exchange loop of `AtomicF64` | no update is lost or undone |
| bucket map (`bucket_map.rs`) | canonical table, alias table, `no_attr_entry` and its flag, `count` | `add`, `sub`, `set`, `reset`, `get`, `clear`, `visit_bucket`, `take` | two locks taken one after the other, Arcs kept after the unlock, aliases found by an order-independent fingerprint | an attribute set is one series; a returned update is in the map or in one drained table; no deadlock |
| observer (`observe.rs`) | `series`, `seq`, `last_values` | `observe`, `export`, `reset` | reading while updates go on; resets and other observers in between | no more than was added is reported, nothing settled is missed |
| grid timer (`collect/timer.rs`) | `deadline` | `due`, `advance` | overruns, arithmetic limits | one firing per tick, on the grid |
| periodic collector (`collect/periodic.rs`) | worker (observers, timers), command channel, batch channel, sender task, gate, `destructive_ids` | `add`, worker loop, export, shutdown | slow or dead sender, full channel, drop while busy | in order, once, dropped only where the code drops; drop returns |
| collection (`collect/mod.rs`) | `registry` | `add`, `register_all` | two threads, several collectors, partial failure | the handle returned is the one observed, once |
| Prometheus collector (`prometheus/`) | `sources` | `add`, `render` | names and labels that become equal when sanitized; updates during the scrape | a text has no duplicate sample; collisions are real |
| OpenTelemetry and console collectors and senders (`otel/`, `console/`) | none of their own | forwarding, `send` | a request lost or rejected in part | nothing is sent twice; the resource of a request is a map |
| wire formats (`otel/dto.rs`, `console/dto.rs`), snapshots and series (`dto.rs`) | none of their own | `into_wire`, `align_ts`, `render` | a value or a time the protocol does not have, temporality, polls beyond `u32` | what a reader adds up is what was added; a text can be read from the top |
| metrics, names, errors (`metric.rs`, `model.rs`, `lib.rs`) | none of their own | forwarding, values | | |

`PROJECT.json` lists them with their status, and under `hazards` each place in
the code that is hard to test, with the properties that watch it.

## 2. The modules

| module | models | shape |
|---|---|---|
| `HistogramData` | fields of a histogram state, the order they are written and read in, the numbers shown | operators |
| `Histogram` | the bucket over its sequence lock, one atomic access per step | state machine, EXTENDS `HistogramData` |
| `HistogramSpec` | what a bucket promises: updates take effect at once, scans return at once | abstract state machine, implemented by `Histogram` |
| `HistogramProofs` | invariant, safety and refinement of `Histogram` | proofs |
| `SeqLockWeak` | the sequence lock under the memory orders of the source | state machine |
| `SeqLockWeakProofs` | that its reads are consistent where read-modify-writes are full barriers | proofs |
| `BucketMap` | the map: both tables, both locks, aliases, the bucket without attributes, all drains | state machine |
| `BucketMapProofs` | invariant of `BucketMap`: one series per attribute set, and what a clear, a take or an eviction leaves of it | proofs |
| `Snapshots` | values of buckets: what updates and observers do with numbers and histograms | operators |
| `Wire` | the conversion of a series to an OpenTelemetry metric and to the console's metric and text | operators, EXTENDS `Snapshots` |
| `Observer` | observers of one metric in the three modes, their exports and resets, racing its updates | state machine, EXTENDS `Wire` |
| `ObserverProofs` | invariants of `Observer`: types, clocks, buckets, what is counted and reported; its seven properties | proofs |
| `Periodic` | worker, timers, both channels, sender task, gate, shutdown | state machine, EXTENDS `Resource` |
| `PeriodicProofs` | order and conservation of snapshots, the grid of observations, the resource of a request | proofs |
| `CommunityFacts` | what concatenations, sums and enumerations of the community modules are | lemmas, used by four proof modules |
| `Resource` | the list of attributes a request names its resource by | operators, EXTENDed by `Periodic` |
| `Registration` | `Collection::add`, the collectors' own `add` | state machine |
| `RegistrationProofs` | invariant of `Registration`, its three properties | proofs |
| `Exposition` | scrape, merge and checks of a Prometheus text | state machine, EXTENDS `Snapshots` |
| `ExpositionProofs` | invariant of a scrape, its five properties | proofs |
| `MC...` | constants and bounds of the runs | instances |

How state and actions correspond to the code:

* **Histogram.** Every field is changed only by commutative read-modify-writes,
  so a field is represented by the *set of calls* applied to it; `CountOf`
  turns a set into the wrapped counter (`Modulus` is 2^w). `pc` names the next
  atomic access of a call, `ref` the Arc it loaded, `e1` and `s1` the locals of
  `read`. A state allocated by `take` is named after the call. `BeginWrite`,
  `Apply` (once per field, in the order of the source) and `EndWrite` are
  `SeqLock::write`; `LoadEnd`, `LoadStart`, `ReadField`, `LoadStartAgain` are
  `SeqLock::read`, whose loop goes back to `LoadEnd`.
* **SeqLockWeak.** The same lock with two fields over a view-based memory: a
  load may return any value not older than the thread's view, an acquire joins
  what it finds, a relaxed load only at the next fence. `FieldsAreRelaxed`
  selects the orders of the source, or a machine on which every
  read-modify-write is a full barrier (x86-64).
* **BucketMap.** Each action is one critical section or one atomic access of
  `add`, `set`, `reset`, `clear`, `visit_bucket` or `take`, in source order; a
  guard that an operation holds across steps is `canonLock` or `aliasLock`. A
  bucket is named after the call that created it and carries the set of calls
  applied to it. A fingerprint is the bag of the list's elements: that is what
  xor, sum and length of the hashes tell apart when no two hashes collide.
* **Observer.** The map is reduced to the bucket of each key and the aliases, and a bucket
  to the value `current` returns (`Snapshots`). The kind of the metric, the type of its buckets,
  the calls and the observers of a behaviour are its `world`. A call gets its bucket by `GetOrCreate`, or by
  `LookupDup`, if its list has an alias; one that inserts an alias does so in a step of its own
  (`insert_dup`), between which and the first a take may come, so that an alias can lead to a bucket
  that has left. Gauges have `sub` and `set`, those of `u64` wrap. An update of an `AtomicF64` is `LoadBits`,
  `CompareExchange`, `CompareExchangeFails` (`update_with`), one of an integer is
  `FetchAdd`; what a histogram does in many steps takes effect in one, as
  `HistogramSpec` promises. `VisitBucket` is the callback of `visit_bucket` under the
  map's lock, `ReadBucket` the loop of `observe_destructive` after the lock
  is gone. `Export` moves the series out and converts them for the sink of the
  observer's collector (`Deliver`); `Reset` is what a collector does to an
  observer it is given.
* **Wire.** `OtelInto` and `ConsoleInto` are `into_wire` for a whole series, from
  `align_ts`, the conversion of one value (`into_number_value`, `HistogramPoint`),
  of attributes and of times. A metric has its points by their places, the key and the
  number of the snapshot: a `HashMap` yields them in any order, and no reader depends on it.
  `render` gives the lines of the console text, as columns; its `sort_by` is the
  rank of a point among those before it.
* **Periodic.** `Observe` to `NoMoreCommands` are the worker's loop; the clock
  advances between any two steps. A loop over the worker's own observers is one
  step. `next` is that of `GridTimer` with its fallbacks (`MaxInstant`), `at_system` the
  conversion to the system clock. `ReceiveBatch` and `Send` are the sender task:
  `Through` says what may get through of a batch, by `Sink` any part of it
  (an OpenTelemetry request is lost or rejected in part) or a prefix (standard
  output stops at an error). `TaskDies` is the task's death, `Joined` the end of
  `Inner::drop`.
* **Registration.** `Lookup`, `AddSource` (once per collector of the tuple) and
  `Insert` are `Collection::add`, under the registry lock from `Lookup` on;
  `Check` and `Send` are `periodic::Collector::add`, `AddHandle` the Prometheus one.
  `by` remembers which call brought each handle.
* **Exposition.** A name is a sequence of words and separators. `Scrape` reads
  one source under its map's lock, converts its points and merges them, `Render` checks the
  sample names and renders each family; `Add` and `Record` go on in between.
  `PointLines` gives the sample lines of a point, with cumulative buckets. `to_f64` rounds
  integers beyond `Precision`, which stands for 2^53: half of them have no `f64` of their own.

Operators under a comment "Seeded defect" write an action as a plausible slip
would. They are not part of any specification: for each property, replacing the
action by such an operator must make TLC find the property violated
(`mutants` in `PROJECT.json`), which shows that the property can fail.

## 3. The runs

`tlc -config X.cfg M` for each. Bounds are in the `.cfg`, or, for the mix of calls
that may be made in one behaviour, in the MC module: the constraint `Bound` with its
`Scenarios`, or for `Observer` the constant `Worlds`. A constraint could hide a liveness error by cutting a behaviour
off where fairness would continue it. These do not: `Bound` of `MCHistogram` and
`MCBucketMap` only says which calls may *begin*, that of `MCPeriodic` which
observer is added first, and fairness is of steps of calls that have begun and of
the worker.

| run | module, config | bound | shows |
|---|---|---|---|
| `histogram` | `MCHistogram` | every mix of: two adds and a snapshot; an add, a sub and a snapshot; two adds and a take; an add, a snapshot and a take; an add and two takes. Values in two buckets, counters mod 4 | `ConsistentSnapshot`, `BucketsAddUpToCount` (also when a sub wraps a counter), `SettledUpdatesAreSeen`, `DrainedOnce`, `CallsReturn`, the inductive invariant `HistogramInv`, and `ImplementsPromise` |
| `seqlock_x86` | `SeqLockWeak`, `SeqLockX86` | two writers, one reader, two fields | `ReturnsConsistentPair` |
| `seqlock_c11` | `SeqLockWeak`, `SeqLockC11` | the same | violated, see 4 |
| `bucket_map` | `MCBucketMap`, `BucketMap` | every mix of: one set listed in three orders and another; two orders with two takes; aliased calls, a reset, a take and an eviction; a clear and an eviction; two sets with every drain; the bucket without attributes with every drain | the seven invariants below and `CallsReturn` |
| `bucket_map_dup` | `MCBucketMap`, `BucketMapDup` | two adds and a take | violated, see 4 |
| `observer` | `MCObserver`, `Observer` | 32 worlds: one or two observers of a counter, a gauge or a histogram; up to four adds, subs, sets and resets of the metric; two or three observations each. In two worlds lists that are not canonical leave aliases behind a take, in four a gauge of `i64` or `f64` is raised, lowered and set, in three one of `u64` goes below zero. In four worlds observers begin before the epoch, at it, or near the last time the protocol has, and are as late as they like; in four they are used, then reset by their collector. `MaxI64` is 2, `MaxU32` 1, a day 8 ticks | `NothingInvented`, `NothingMissed`, `DropsAreUnrepresentable`, `TimesIncrease`, `TextReadable`, `DrainedOnceOrLate` |
| `observer_sum` | `MCObserver`, `ObserverSum` | the world of a histogram, three adds, a reset and a delta observer | violated, see 4 |
| `periodic` | `MCPeriodic`, `Periodic` | two observers, a grid of 2, exports every 3, a channel of one batch, clock to 6, the last Instant 8, so that an export at 6 has no next tick; the first observer is added first. Every resource with two named fields and up to three free attributes, with a value or without | `OncePerTick`, `AlignedNotAhead`, `LeaveInOrderAndOnce`, `RequestsNameTheResource`, `NothingVanishes`, `DropReturns` |
| `periodic_align` | `MCPeriodic`, `PeriodicAlign` | one observer, clock to 6 | violated, see 4 |
| `registration` | `MCRegistration`, `Registration` | three calls of a collection over one or two collectors, three direct calls, every mode, two handles of one gauge and a counter of the same identity | `ReturnedSourceIsObserved`, `OneObserverPerKey`, `OneDestructivePerPath` |
| `registration_partial` | `MCRegistration`, `RegistrationPartial` | two calls | violated, see 4 |
| `exposition` | `MCExposition`, `Exposition` | any two of eleven sources in every order, two data points, one updated again; `Precision` is 4, histograms have the boundaries 1, 4 and 5, of which the last two are one `f64` | `ValidExposition`, `FamiliesAreOneMetric`, `NothingHidden`, `CollisionsAreReal` |

Invariants of `bucket_map`: `TypeOK`; `BucketMapInv`, the inductive one;
`OneSeriesPerAttributeSet`; `AttributedCallsConserved` (an add that has returned
is in exactly one bucket, and that bucket is in the map or in exactly one taken
table); `FreshCallsAreLive` (a call no drain overlaps ends in a bucket the next
drain finds, as long as no alias has been inserted late); `SettledWritesAreFlagged`;
`CountIsTableSize` (whenever no drain is running, the count is the size of the canonical table
and of the tables takes have carried off since the last clear: a take does not touch it).

**Why the bounds are enough.** A call is made once; a thread making several
calls is several calls that happen not to overlap, which the interleavings
include. The hazards are races of two or three parties: two writers and a
reader for a torn snapshot, two calls that missed and a drain for a stale alias,
two observers and two updates for a double count. Each scenario has one party
more than the shortest trace of the seeded defects and of the findings needs.
The two takes of `bucket_map` let a detached bucket outlive a second table; the
two observations of `observer` let a difference span an export, a reset or
another observer's drain, and a third lets the number of polls outgrow its `u32`. Of two calls that list a set
out of order, the first can insert its alias after a take and the second follow it. The clock of `periodic`
lets two batches leave, so the second can find the channel full, and an overrun can skip a tick or an
export. Each of its sends may let any part of a batch through, the prefixes standard output leaves among
them. In `exposition` two sources make every
collision the code looks for, since it compares families in pairs.

**Deadlock** checking is off in every run: calls are made once and clocks are
bounded, so the systems stop. That nothing stops too early is what the liveness
properties say.

**Fairness.**
* `Histogram`: weak fairness of each begun call. Nothing in a call blocks, so
  it needs only that the thread is scheduled. Without fairness of a call that
  has *not* begun, a call need not be made.
* `BucketMap`: weak fairness of "some call or drain inside the map takes a step".
  It assumes that the RwLocks admit one of the waiters, not which.
* `Periodic`: weak fairness of the worker thread and of the dropping thread.
  Nothing is assumed of the sender task or of the clock: a send may hang forever.
* Nothing else has liveness properties.

## 4. Where code and documentation disagree

Each is a run that must end in a violation; `findings` in `PROJECT.json` quotes
both sides.

* `seqlock_c11`: with the memory orders as written, nothing orders the increment
  of `start` before the relaxed field updates for another thread; a reader can
  return a torn snapshot on a weakly ordered machine. `seqlock_x86` shows that it
  cannot on x86-64.
* `bucket_map_dup`: a take between `insert_canon` and `insert_dup` leads a later
  add of the same list to violate the debug assertion "inserting a dup"; in
  a release build a stale alias stays until the next drain.
* `periodic_align`: after a missed tick, aligned timestamps are whole periods
  behind, because they count polls and the grid counts time.
* `observer_sum`: the sum of a difference of histograms does not saturate, as its
  comment says it does; after a reset of the metric it can wrap.
* `registration_partial`: an add that fails at the second collector of a tuple
  leaves the source with the first; adding it again registers it twice there.

Two more have no run of their own: a run above checks a property that excepts exactly them, and
TLC finds the property violated without the exception.

* `OneDestructivePerPath` (run `registration`): `add_source` neither looks at `destructive_ids` nor notes an
  identity there (`collect/periodic.rs:281`). A destructive source can be added by a collection of one collector and
  by that collector itself, before or after: both return `Ok`, and the worker has two destructive observers,
  each of which drains what the other should have reported. The comment on `destructive_ids` (`collect/periodic.rs:145-147`)
  calls that a race, and the error `DuplicateDestructive` (`lib.rs:70`) excludes it. The property says that this is the only way,
  but for two types of one identity in such a collection.
* `ValidExposition` (run `exposition`): boundaries increase as values of their type
  (`atomic/histogram.rs:183-186`) and are rendered as `f64` (`prometheus/dto.rs:192`). Two `u64` above 2^53 can be one
  `f64`: `render` then returns a text with the same bucket line twice, where `prometheus/collector.rs:144-145` promises
  an error. The property says that no other two lines coincide (`OneBound`), and that the buckets are cumulative all the same.

The next has none either, because it is about debug builds alone and needs two calls in a
row: one attribute set added in two different unsorted orders has one fingerprint and two
lists, and the second call fails the debug assertion "alias fingerprint collision"
(`bucket_map.rs:69-73`). A release build finds the right bucket.
Nor does anything say what a period beyond the last `Instant` does (`Duration::MAX` for
"never"): `GridTimer::next` falls back to `now + period`, which is no `Instant` either, then to
`now`, and the worker exports at every turn of its loop, without sleeping
(`collect/timer.rs:67`). The exports of run `periodic` come to such a tick.

## 5. The proofs

`tlapm M.tla` checks every step of a proof module M: `HistogramProofs`, `SeqLockWeakProofs`,
`BucketMapProofs`, `ObserverProofs`, `PeriodicProofs`, `RegistrationProofs` and
`ExpositionProofs`, with the lemmas of `CommunityFacts`. Of the invariants and action properties
the passing runs check, none is left to TLC alone (but see the end of this section).

**Histogram**, for any finite sets of calls, any values, strictly increasing
boundaries and any counter width:
`TypeCorrect`, `SnapshotsConsistent`, `SettledSeen`, `NeverDrainedTwice`,
`BucketsMatchCount`, `Invariance`, and `Refinement`: `Safety => ImplementsPromise`.

`ConsistentSnapshot` is not inductive: that a reader may return when `start` has
not moved depends on what the two counters mean. `HistogramInv` adds
`CountsInv` (`start` counts the updates that entered, `end` those that left, so
they agree only when nobody is inside), `InnerInv` (a field shows exactly
the accesses made so far), `UpdateInv` and `ScanInv` (what a call knows at each
step), `ReadInv` (while `start` equals what the reader saw, nobody is inside and
what it has read is what is there) and `GensInv` (takes return distinct
generations, never the live one). The key lemma is `AgreeingCounters`:
`end` read before `start`, both counters growing, so equality means that the
lock was free at the second load. The refinement maps an update's effect to its
`EndWrite` and a scan's return to the last `LoadStartAgain`; `PromiseStep`
shows that each step is a step of `HistogramSpec` or a stutter.

`BucketsMatchCount` needs nothing more of the invariant: with nobody inside, each field of a
state holds the same calls (`InnerInv`). The boundaries put each value in one bucket
(`BucketsPartition`, from their order and the last one being infinite), so the adds less the
subs of the buckets make those of the count; a counter shows a number modulo its width, and
sums of such numbers agree modulo it (`Congruent`). Both sums are over sets and sequences
of any length, which `CommunityFacts` goes through by induction.

**BucketMap**, for any calls, attribute lists and drains: `Invariance`,
`TypeCorrect`, and `OneSeries`. `OneSeriesPerAttributeSet` is strengthened to
`BucketMapInv`: every way to a bucket (the key of its entry, the fingerprint of an
alias, the Arc a call holds) leads to one created for the same attribute set
(`SeriesInv`), and a drain that has begun holds the canonical lock, so
the table it is visiting does not change under it (`LockInv`).

`Conserved`, `FreshLive`, `SettledFlagged` and `CountRight` follow from `DrainsInvariance`, which adds
to it. `DrainsInv` says at which step of which kind a drain is and
what it has detached (`PhaseInv`); that a call in the bucket without attributes has yet to
flag it, or has (`FlagInv`); that the count is the size of the table and of what takes carried off, and in a visit also of what it has
evicted so far (`CountedInv`);
that the bucket of a call before its insertion does not exist (`FreshInv`); that an entry
records the aliases that lead to it or are about to (`AliasInv`); that aliases lead to the map
but between the two halves of a drain, as long as none came late (`LiveInv`); and that a
bucket is held by the map or by one take, and a returned call is in one bucket
(`ConservedInv`). `left` counts what takes have carried off, so that `CountedInv` speaks of every
moment, those after a take included. The flag of a drain goes from the table to the aliases in two critical
sections, which is why each part has to say what is true between them.

**Observer**, for any keys and attributes, calls, metrics, observers in any modes and of either sink, polling
periods and delays: `TypeCorrect`, `TimesAlwaysIncrease`, `OnlyUnrepresentableDropped`, `NothingIsInvented`,
`TextIsReadable`, `DrainedOnce`, `NothingIsMissed`. The invariants build on each other:
`Types` (what an export makes of a series is a metric with the attributes and numbers of its snapshots: `Converted`);
`Clocks` (a snapshot of poll n is not older than tick n, the snapshots of a key are of increasing polls, and
what has been exported stands for earlier ones, so that times increase however they are aligned: `AlignedTimes`);
`Named` (a bucket, and every way to it, is of one key; it is initial until its first call has begun; a visitor
reads what is in the map, since it holds the lock, and a drainer what is not; an alias leads to a bucket of its key);
`Bounded` (no bucket, snapshot or point counts more than was added or set under its key, where a `sub` that takes
a `u64` below zero adds the `MAX` it leaves, as `metric.rs:49-50` says).
`OnlyUnrepresentableDropped` needs no more, and a reader that takes the *last* number of a key does not either.
One that *adds up* differences does: that each was bounded says nothing of their sum. `Accounted` relates the sum of all
a reader has or would get (`Reports`) to what is now in the bucket. A delta observer either has reported
nothing of the bucket in the map (`NoneReported`: before its first visit, after its reset, after a
drain by another observer or a reset of the metric), or all but what came since
its last visit, which that bucket still counts (`VisitedReported`); what a destructive observer
has reported excludes both the map and the table it is reading (`UnreadNotReported`). Only updates raise what was added, and
every other step moves a number from one side of these inequalities to the other or drops it. Nor does it
matter which bucket of its key a call is led to, by whatever alias. `Marked` makes
the reader add up what is a difference. A u64 that wraps only makes the bucket count less, so the theorem needs no bound.
`NothingIsInvented` has one hypothesis, `TextsTell`: where the console text is what is read, different attributes have
different texts. An integer and a float that print alike are one series to
whoever reads the text; the protocol needs no such hypothesis (`LabelsDiffer`).
`TextIsReadable` goes by induction down the lines: a line that shows no time has that of the line above.

The other two need what a bucket counts *exactly*, and not only from above. They are about behaviours in which nothing has been
reset or set and no `sub` has taken a `u64` below zero (`Steady`), and assume `NoWrap` too: a metric of
`u64` gets fewer calls than `Modulus`. Without it both are false: a wrapped counter has lost what it counted.
`DrainedOnce` follows from `Balanced`, a balance per key: the adds less the subs of calls no take has overtaken (`Net`) are what all
destructive observers have reported or written off (`GivenAll`) and what is in buckets the map holds or a drainer has yet to read
(`Kept`). A take keeps it because a table leaves the map whole and waits with one observer only (`TablesApart`); a
read moves a bucket from `Kept` to `GivenAll`; an export does neither, but for what it writes off; and a call that
writes into a bucket that has left is among those the property excepts (`Overtaken`): a take overlapped it, or an alias led it
there, and then the alias is `Late`, inserted by a call that a take overlapped. Calls of the first kind return and are over; an alias of
the second kind misleads every call of its list until the next drain clears it, which is what run `bucket_map_dup`
shows and why the property counts these calls apart (`misled`).
`NothingIsMissed` is about a metric nobody resets, sets or takes from (`Quiet`). Then all calls and aliases of a key share the bucket
of the map (`Whole`), which counts the adds less the subs (`Exact`), and `Informing` says what observers know:
what a reader has covers what was added before the last observation, or before this one as soon as
it has come to the key (`Told`); and the differences a delta observer reported come to its last value, which the bucket has
reached or passed (`LastReported`), so that the next difference misses nothing. A reset of an observer
starts all of them anew: last value, exports, and what was seen.

**Sequence lock on x86-64**, for any writers and readers and under `~FieldsAreRelaxed`:
`ConsistentOnX86`. A location is the sequence of the views its increments released. `ReleasedInv`: the i-th value of
`end` carries i - 1 increments of each field, and the i-th value of a field i - 1 increments of
`start`. So what a reader finds in the fields is not older than the `end` it read first and
not newer than the `start` it reads last, and equal counters leave one value between them
(`ReaderInv`). That the values carry so much is a pigeonhole argument: every writer has its own
place among the increments of a location (`RankInv`, whose places are existentially quantified:
nothing in the program holds them), and whoever increments the next location has seen the places
of all who did before.

**Periodic collector**, for any observers, periods, capacity and either sender: `TypeCorrect`,
`LeaveInOrder`, `NoneVanishes` (an action property), `ObservesOncePerTick`, `NeverAhead`, `ResourceNamed`.
A snapshot is in a series, in a batch of the channel, with the sender, sent, or discarded.
`WorkInv` says that each of these places is ordered, that every place is before the next one
(`Before`: of one observer, the snapshots here are older than those there), that what is discarded is nowhere
else (`OrderInv`), that a snapshot's sequence number is below its observer's next one (`OwnInv`),
and that an observer is added once (`AddInv`), without which `reset` in `HandleAdd` would restart the numbers of a
series on its way. No step but `Observe` changes what is held in all.
`GridInv` adds that the deadline is a multiple of the period, that all held snapshots were taken before it, and
that `start + period * seq` of an observer does not run ahead of it (by one period while an observation
is going on). It needs `TicksAreInstants`: no clock of a run comes within a period of the
last `Instant`. Otherwise `next` falls back to a deadline off the grid.
`ResourceNamed` is about the list every request carries, for any named fields and any number of free attributes. By
induction down the list (`UpsertsMakeMap`), the attributes after n elements are those among the n that no later one
replaces, each key once (`MapOf`); at its end these are the fields that have a value and, of the other keys, the
last free attribute (`LatestWins`, `GivenHasLatest`).

`FlattenSeq` is defined by recursion, so `CommunityFacts` proves by induction what it holds
and in which order, and in the same way what a sum over a set or a sequence is. The library's induction rules take a predicate; `SetInduction`, from the
well-foundedness of the natural numbers, takes a set of numbers instead.

**Registration**, for any tuples of distinct collectors, handles, modes and calls: `TypeCorrect`, `ReturnedObserved`,
`OncePerKey`, `OneDestructiveOfEachPath`. `RegistrationInv` says who is between the lookup and the insertion under the
registry lock (at most one call), which collectors a call under that lock has served so far, that the registry's entries are held by
every collector of their tuple, and which call brought each handle (`ByInv`). A destructive observer that was brought by a direct
call is `Noted`: its identity is in `destructive_ids` and no other call is about to send one of it. One brought by a collection is
`Shared`: that collection has this collector alone, and the key is in the registry or being inserted. So no two that
came the same way `Clash`, in identity or in key (`DestructiveInv`); nothing keeps one of each kind apart. `OneObserverPerKey` needs
more: a call that a periodic collector would refuse (a delta observer of a gauge) has not been
served by any, because collectors refuse before they send.

**Exposition**, for any sources, names, labels, boundaries and updates: `TypeCorrect`, `OneMetricPerFamily`,
`CollisionsReal`, `EverythingShown`, `TextsValid`. What a text must be
is known only when `render` returns, from what it gathered all along. `ExpositionInv` says that a family was opened
by a source that was read and has its identity and kind (`Opened`); that a point stands in the family of its source,
counts no less than its bucket did when the scrape began and no more than it does now, and has buckets that add up to
its count (`PointsRight`); that what there was when the scrape began is in a family or its source is still to be
read (`Kept`); and that a text that was returned passed the checks (`Checked`). Updates raise only the upper end of a
point's interval, so it does not matter when they come. `CollisionsReal` follows a pair of families with clashing names
back to the two sources that opened them. `TextsValid` reads off the checks that two lines differ by their name,
their label or their `le`, unless they are the lines of two boundaries that are one `f64` (`OneBound`);
rounding keeps the order of boundaries, though not strictly; that the lines of a histogram's buckets are cumulative and come to its count is a fact about sums.

Assumptions are the named `ASSUME`s of the modules: call sets are disjoint and
(histogram) finite, boundaries are what `checked_boundaries` accepts, periods and capacity are positive, every source
has an identity and an error is not a source, the shutdown command is not an observer,
no field of a resource has the empty key or that of another (`ResourceAssumption`), and every
attribute list has a sorted form without repetitions (`SortableAssumption`;
true of any finite list of numbers, and evaluated by TLC for the lists of
the runs). `ExpositionAssumption` has a name for every source, increasing boundaries none of which is
rendered as `+Inf` unless `NonFinite` says so, natural amounts, and counts of updates that stay below the width of a
counter and within `Precision` (nobody makes 2^53 updates). Boundaries and sums go up to twice `Precision`: `to_f64` is
written for numbers up to there. Boundaries are ordered only as `checked_boundaries` orders them, before the rounding. `WireAssumption` says what the types hold (limits are natural numbers, boundaries increase,
attributes are lists of keys with values, the texts of "no time" and "no repetition" are no times);
`ObserverAssumption` that calls, keys and observers are finitely many, that timestamps are aligned to the observer's own period
if at all, that only a gauge has `sub` and `set`, that a gauge has no delta observer, which `SyncObserver::new` refuses, and that a
fingerprint is that of lists of one key (no hash collisions).

**Only model-checked.** Liveness (`CallsReturn`, `DropReturns`), since the prover handles neither
`ENABLED` nor fairness.
The specification in the theorems is `Safety`, for `SeqLockWeak` its `Spec`; a `Spec` elsewhere only adds
fairness.

## 6. Abstractions, and what is not modelled

* Hashes do not collide. `debug_assert!` is not executed (release build); the two
  that can fail are stated as properties of their own (section 4).
* `Histogram` assumes sequential consistency; `SeqLockWeak` looks at the orders.
  The `ArcSwap` is atomic, and memory is reclaimed by reference counting.
* `AtomicF64::fetch_min` and `fetch_max` inside a histogram are one step. An
  `AtomicF64` of `Observer` adds exact numbers, each of which changes its bits. In `Observer` an update of a
  histogram is one step, which `HistogramSpec` allows as long as no reset swaps
  the state out under it; an update a reset overtakes counts as one before it.
* `Observer` has the buckets with attributes; the one without is in `BucketMap`. It leaves open in which
  table a list is looked up first. A
  counter counts ones, so that a number tells how many adds it holds.
* In `Wire` a nested value is one level deep, the console's numbers are those before `to_f64` rounds them, and
  the layout of the text (widths, quoting, number formats, unit and description) is left out.
  `start_ts + poll_period * seq_id` of `align_ts` panics when it is beyond what a
  `SystemTime` holds; the model's times have no such end.
* In `Registration` the collectors of a tuple are distinct; that a collector
  is passed twice is a caller's choice. A Prometheus collector is the only
  kind that takes any mode.
* In `Exposition` one scrape is made per behaviour: `render` keeps nothing. A source is
  read in one step, and values are counters that only grow. Which of several
  errors of one render is met first is left open. Escaping, number formats and
  help lines are left out.
* Not modelled: gRPC and standard output (`Periodic` lets a send hang, fail or get
  through in part); the representations of `Str`, and the order and
  hash of a `Value` (plain data); poisoned locks (a panic inside the library or
  a callback); `get` and `len`, which only read.

## 7. Plan

In order of what matters most: the data path first (histogram, map), then who
reads it (observer, worker), then registration and rendering.

Done: all modules of section 2, with their runs; the proofs of section 5.

Left to model: a composition of `BucketMap` and `Observer` showing that the reduced map
of `Observer` is what `BucketMap` provides.

Left to prove: with that composition, that the buckets of `Observer` implement those of `BucketMap`. Everything
else the runs check is proved but for liveness.
