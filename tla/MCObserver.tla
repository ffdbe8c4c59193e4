---------------------------- MODULE MCObserver -----------------------------
(* An instance of Observer for TLC. *)
EXTENDS Observer

CONSTANTS
    u1, u2, u3, u4,  \* adds, the last to the second key
    x1, x2,          \* adds to the second key by lists that are not canonical
    d1, d2,          \* subs
    g1,              \* a set
    r1,              \* a reset
    direct, delta, drain1, drain2,  \* to OpenTelemetry
    watch, trace     \* to the console: a Direct and a Delta one

MCOp == [u \in Updates |->
            CASE u = r1 -> "reset" [] u \in {d1, d2} -> "sub" [] u = g1 -> "set" [] OTHER -> "add"]
MCKey == [u \in Updates |-> IF u \in {u4, x1, x2} THEN 2 ELSE 1]
MCAmount == [u \in Updates |-> IF u \in {u1, g1} THEN 3 ELSE 1]

\* The first key has one attribute, the second has two; x1 and x2 give them in
\* the other order.
MCFingerprint == [u \in Updates |-> IF MCKey[u] = 2 THEN "two" ELSE None]
MCNeedsAlias == [u \in Updates |-> u \in {x1, x2}]
MCMode == direct :> "Direct" @@ delta :> "Delta" @@ drain1 :> "Destructive" @@
          drain2 :> "Destructive" @@ watch :> "Direct" @@ trace :> "Delta"
MCSink == [o \in Observers |-> IF o \in {drain2, watch, trace} THEN "console" ELSE "otel"]
MCAlign == [o \in Observers |-> IF o \in {direct, trace} THEN Period ELSE None]

\* Before the epoch, at it, and shortly before the times that have no u64.
MCStarts == {-2, 0, 6}

\* Two buckets: values up to 1, and above.
MCBoundaries == <<1>>

\* Two lists, one with an attribute more, which has no value.
One1 == [type |-> "Int", content |-> "1", items |-> <<>>]
MCAttributes ==
    LET k == [key |-> "k", value |-> [type |-> "ArrayAny", content |-> "", items |-> <<One1>>]]
    IN  << <<k>>, <<k, [key |-> "n", value |-> None]>> >>

World(k, c, calls, observers, polls) ==
    [kind |-> k, cell |-> c, calls |-> calls, observers |-> observers,
     late |-> FALSE, reset |-> FALSE, polls |-> polls]
Counter(c, calls, observers, polls) == World("Counter", c, calls, observers, polls)
Gauge(c, calls, observers, polls) == World("Gauge", c, calls, observers, polls)
Histogram(calls, observers, polls) == World("Histogram", "Bucket", calls, observers, polls)
Late(w) == [w EXCEPT !.late = TRUE]
Resets(w) == [w EXCEPT !.reset = TRUE]

MCWorlds == {
    Counter("AtomicF64", {u1, u2}, {delta}, 2),
    Counter("AtomicF64", {u1, u2, r1}, {delta}, 2),       \* a reset between observations
    Counter("AtomicF64", {u1, u2}, {drain1}, 2),          \* calls that outlive their table
    Counter("AtomicU64", {u1, u4}, {delta}, 2),           \* two series
    Counter("AtomicU64", {u1, u2}, {delta, drain1}, 2),   \* a drain between observations
    Counter("AtomicU64", {u1}, {direct, delta}, 2),       \* two that leave the table alone
    Counter("AtomicU64", {u1, u2}, {drain1, drain2}, 2),
    Counter("AtomicU64", {x1, u4}, {drain1}, 2),          \* an alias that outlives its table
    Counter("AtomicU64", {x1, x2}, {drain1}, 2),
    Counter("AtomicU64", {u1, u2, u3}, {direct}, 2),      \* more than an i64 holds
    Counter("AtomicU64", {u1, u2, u3}, {delta}, 2),
    Counter("AtomicU64", {u1, u4}, {watch}, 2),           \* lines of two series
    Gauge("AtomicI64", {u1, u2, d1}, {watch}, 2),
    Gauge("AtomicI64", {u1, d1}, {drain1}, 2),
    Gauge("AtomicI64", {u1, g1, d1}, {direct}, 2),
    Gauge("AtomicF64", {g1, d1}, {direct}, 2),
    Gauge("AtomicU64", {u1, d1, d2}, {direct}, 2),        \* below zero, and back
    Gauge("AtomicU64", {u1, d1, r1}, {watch}, 2),
    Gauge("AtomicU64", {g1, d1}, {drain1}, 2),
    Histogram({u1, u4}, {watch}, 2),
    Histogram({u1, u2, u3, r1}, {delta}, 2),              \* more than before, yet less
    Histogram({u1, u2, r1}, {trace}, 2),
    Histogram({u1}, {delta, drain1}, 2),
    Histogram({u1, u2}, {drain2}, 2),
    Late(Counter("AtomicU64", {u1}, {direct}, 3)),
    Late(Counter("AtomicU64", {u1}, {delta}, 3)),
    Late(Counter("AtomicU64", {u1}, {trace}, 3)),
    Late(Counter("AtomicU64", {u1}, {watch}, 3)),
    Resets(Counter("AtomicU64", {u1, u2}, {direct}, 2)),
    Resets(Counter("AtomicU64", {u1, u2}, {delta}, 2)),
    Resets(Histogram({u1, u2}, {trace}, 2)),
    Resets(Counter("AtomicU64", {u1, u2}, {drain1}, 2))
  }

\* The world of ObserverSum.cfg.
MCSumWorlds == {Histogram({u1, u2, u3, r1}, {delta}, 2)}
=============================================================================
