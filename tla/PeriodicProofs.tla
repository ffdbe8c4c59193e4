--------------------------- MODULE PeriodicProofs ---------------------------
(***************************************************************************)
(* Proofs about Periodic: what a worker records leaves in order and once,  *)
(* nothing vanishes on the way, the grid of observations is kept, for any  *)
(* observers, periods and capacity, and a request names its resource.      *)
(***************************************************************************)
EXTENDS Periodic, SequenceTheorems, CommunityFacts

\* What left or is on its way out, and what waits in the series.
Leaving == Range(sent) \cup Range(sending) \cup UNION {Range(b) : b \in Range(batches)}
Waiting == UNION {Range(series[o]) : o \in Observers}
Held == Leaving \cup Waiting \cup discarded

StateInv ==
    /\ clock \in Nat /\ observeTimer \in Nat /\ exportTimer \in Nat /\ now \in Nat
    /\ wpc \in {"loop", "observed", "export", "exported", "recv", "commands", "returned"}
    /\ stopping \in BOOLEAN
    /\ observers \in Seq(Observers) /\ IsInjective(observers)
    /\ start \in [Observers -> Nat] /\ seq \in [Observers -> Nat]
    /\ series \in [Observers -> Seq(Snapshots)]
    /\ commands \in Seq(Observers \cup {Shutdown})
    /\ batches \in Seq(Seq(Snapshots))
    /\ Len(batches) <= Capacity
    /\ \A b \in Range(batches) : b # <<>>
    /\ sending \in Seq(Snapshots)
    /\ gone \in BOOLEAN /\ enabled \in BOOLEAN
    /\ drop \in {"no", "join", "returned"}
    /\ sent \in Seq(Snapshots)
    /\ discarded \subseteq Snapshots

\* An observer is added once.
AddInv ==
    /\ \A i, j \in DOMAIN commands :
         commands[i] = commands[j] /\ commands[i] \in Observers => i = j
    /\ Range(commands) \cap Range(observers) = {}

\* A snapshot is of an observer of the worker, and older than its next one.
OwnInv ==
    /\ \A s \in Held : s.by \in Range(observers) /\ s.seq_id < seq[s.by]
    /\ \A o \in Observers : \A s \in Range(series[o]) : s.by = o

\* Of one observer, those of A are older than those of B.
Before(A, B) == \A s \in A, t \in B : s.by = t.by => s.seq_id < t.seq_id

\* The places a snapshot passes on its way are ordered, within and among them.
OrderInv ==
    /\ InOrder(sent) /\ InOrder(sending)
    /\ \A i \in DOMAIN batches : InOrder(batches[i])
    /\ \A o \in Observers : InOrder(series[o])
    /\ Before(Range(sent), Range(sending))
    /\ \A i \in DOMAIN batches : Before(Range(sent) \cup Range(sending), Range(batches[i]))
    /\ \A i, j \in DOMAIN batches : i < j => Before(Range(batches[i]), Range(batches[j]))
    /\ Before(Leaving, Waiting)
    /\ (Leaving \cup Waiting) \cap discarded = {}

WorkInv == StateInv /\ AddInv /\ OwnInv /\ OrderInv

-----------------------------------------------------------------------------
(* Sequences of snapshots                                                  *)

LEMMA Ranges ==
    ASSUME NEW S, NEW s \in Seq(S)
    PROVE  /\ Range(s) \subseteq S
           /\ \A x : x \in Range(s) <=> \E i \in 1 .. Len(s) : s[i] = x
           /\ Len(s) \in Nat /\ DOMAIN s = 1 .. Len(s)
           /\ (s = <<>> <=> Range(s) = {})
<1>1. Len(s) \in Nat /\ DOMAIN s = 1 .. Len(s) /\ \A i \in 1 .. Len(s) : s[i] \in S
  OBVIOUS
<1>2. \A x : x \in Range(s) <=> \E i \in 1 .. Len(s) : s[i] = x
  BY <1>1 DEF Range
<1>3. s = <<>> <=> Len(s) = 0
  OBVIOUS
<1>4. Len(s) = 0 => Range(s) = {}
  BY <1>1 DEF Range
<1>5. ASSUME Len(s) # 0 PROVE Range(s) # {}
  <2>1. 1 \in DOMAIN s
    BY <1>1, <1>5
  <2> QED
    BY <2>1 DEF Range
<1> QED
  BY <1>1, <1>2, <1>3, <1>4, <1>5

LEMMA ConcatOrder ==
    ASSUME NEW a \in Seq(Snapshots), NEW b \in Seq(Snapshots)
    PROVE  /\ a \o b \in Seq(Snapshots) /\ Range(a \o b) = Range(a) \cup Range(b)
           /\ InOrder(a) /\ InOrder(b) /\ Before(Range(a), Range(b)) => InOrder(a \o b)
<1>1. a \o b \in Seq(Snapshots) /\ Range(a \o b) = Range(a) \cup Range(b)
  BY RangeConcatenation
<1>2. ASSUME InOrder(a), InOrder(b), Before(Range(a), Range(b))
      PROVE  InOrder(a \o b)
  <2> DEFINE c == a \o b
  <2>1. /\ Len(a) \in Nat /\ Len(b) \in Nat /\ DOMAIN c = 1 .. (Len(a) + Len(b))
        /\ DOMAIN a = 1 .. Len(a) /\ DOMAIN b = 1 .. Len(b)
        /\ \A i \in 1 .. Len(a) : c[i] = a[i] /\ a[i] \in Range(a)
        /\ \A i \in 1 .. Len(b) : b[i] \in Range(b)
        /\ \A i \in DOMAIN c : i > Len(a) => i - Len(a) \in 1 .. Len(b) /\ c[i] = b[i - Len(a)]
    BY Ranges
  <2> HIDE DEF c
  <2> SUFFICES ASSUME NEW i \in DOMAIN c, NEW j \in DOMAIN c, i < j, c[i].by = c[j].by
               PROVE  c[i].seq_id < c[j].seq_id
    BY DEF InOrder, c
  <2>2. CASE j <= Len(a)
    <3>1. i \in DOMAIN a /\ j \in DOMAIN a /\ c[i] = a[i] /\ c[j] = a[j]
      BY <2>1, <2>2
    <3> QED
      BY <1>2, <3>1 DEF InOrder
  <2>3. CASE i <= Len(a) /\ j > Len(a)
    <3>0. i \in 1 .. Len(a)
      BY <2>1, <2>3
    <3>1. c[i] \in Range(a) /\ c[j] \in Range(b)
      BY <2>1, <2>3, <3>0
    <3> QED
      BY <1>2, <3>1 DEF Before
  <2>4. CASE i > Len(a)
    <3>1. /\ i - Len(a) \in DOMAIN b /\ j - Len(a) \in DOMAIN b /\ i - Len(a) < j - Len(a)
          /\ c[i] = b[i - Len(a)] /\ c[j] = b[j - Len(a)]
      BY <2>1, <2>4
    <3> QED
      BY <1>2, <3>1 DEF InOrder
  <2> QED
    BY <2>1, <2>2, <2>3, <2>4
<1> QED
  BY <1>1, <1>2

LEMMA FlattenOrder ==
    ASSUME NEW ss \in Seq(Seq(Snapshots))
    PROVE  /\ FlattenSeq(ss) \in Seq(Snapshots)
           /\ Range(FlattenSeq(ss)) = UNION {Range(s) : s \in Range(ss)}
           /\ /\ \A a \in DOMAIN ss : InOrder(ss[a])
              /\ \A a, b \in DOMAIN ss : a < b => Before(Range(ss[a]), Range(ss[b]))
              => InOrder(FlattenSeq(ss))
<1> DEFINE f == FlattenSeq(ss)
           n == Len(ss)
<1>1. f \in Seq(Snapshots) /\ Gathers(ss, n, f) /\ KeepsOrder(ss, n, f)
  BY FlattenFacts
<1> HIDE DEF f
<1>2. n \in Nat /\ DOMAIN ss = 1 .. n /\ \A a \in 1 .. n : ss[a] \in Seq(Snapshots)
  BY Ranges
<1>3. \A a \in 1 .. n : DOMAIN ss[a] = 1 .. Len(ss[a])
  BY <1>2, Ranges
<1>4. DOMAIN f = 1 .. Len(f)
  BY <1>1, Ranges
<1>5. Range(f) = UNION {Range(s) : s \in Range(ss)}
  <2>1. ASSUME NEW i \in DOMAIN f
        PROVE  f[i] \in UNION {Range(s) : s \in Range(ss)}
    <3>1. PICK a \in 1 .. n : \E p \in 1 .. Len(ss[a]) : f[i] = ss[a][p]
      BY <1>1, <1>4, <2>1 DEF Gathers
    <3>2. f[i] \in Range(ss[a]) /\ ss[a] \in Range(ss)
      BY <1>2, <1>3, <3>1 DEF Range
    <3> QED
      BY <3>2
  <2>2. ASSUME NEW s \in Range(ss), NEW x \in Range(s)
        PROVE  x \in Range(f)
    <3>1. PICK a \in 1 .. n : ss[a] = s
      BY <1>2 DEF Range
    <3>2. PICK p \in 1 .. Len(ss[a]) : ss[a][p] = x
      BY <1>3, <3>1 DEF Range
    <3>3. PICK i \in 1 .. Len(f) : f[i] = ss[a][p]
      BY <1>1 DEF Gathers
    <3> QED
      BY <1>4, <3>2, <3>3 DEF Range
  <2>3. Range(f) \subseteq UNION {Range(s) : s \in Range(ss)}
    BY <2>1 DEF Range
  <2> QED
    BY <2>2, <2>3
<1>6. ASSUME \A a \in DOMAIN ss : InOrder(ss[a]),
             \A a, b \in DOMAIN ss : a < b => Before(Range(ss[a]), Range(ss[b]))
      PROVE  InOrder(f)
  <2> SUFFICES ASSUME NEW i \in DOMAIN f, NEW j \in DOMAIN f, i < j, f[i].by = f[j].by
               PROVE  f[i].seq_id < f[j].seq_id
    BY DEF InOrder
  <2>1. PICK a \in 1 .. n, b \in 1 .. n : \E p \in 1 .. Len(ss[a]), q \in 1 .. Len(ss[b]) :
            f[i] = ss[a][p] /\ f[j] = ss[b][q] /\ (a < b \/ (a = b /\ p < q))
    BY <1>1, <1>4 DEF KeepsOrder
  <2>2. PICK p \in DOMAIN ss[a], q \in DOMAIN ss[b] :
            f[i] = ss[a][p] /\ f[j] = ss[b][q] /\ (a < b \/ (a = b /\ p < q))
    BY <1>3, <2>1
  <2>3. CASE a < b
    <3>1. f[i] \in Range(ss[a]) /\ f[j] \in Range(ss[b])
      BY <2>2 DEF Range
    <3> QED
      BY <1>2, <1>6, <2>3, <3>1 DEF Before
  <2>4. CASE a = b /\ p < q
    BY <1>2, <1>6, <2>2, <2>4 DEF InOrder
  <2> QED
    BY <2>2, <2>3, <2>4
<1> QED
  BY <1>1, <1>5, <1>6 DEF f

\* What gets through of a batch is some of it, in its order.
LEMMA ThroughFacts ==
    ASSUME NEW batch \in Seq(Snapshots), NEW through \in Through(batch)
    PROVE  /\ through \in Seq(Snapshots) /\ Range(through) \subseteq Range(batch)
           /\ InOrder(batch) => InOrder(through)
<1>1. Len(batch) \in Nat /\ DOMAIN batch = 1 .. Len(batch)
  BY Ranges
<1>2. CASE Sink = "stdout"
  <2>1. PICK n \in 0 .. Len(batch) : through = SubSeq(batch, 1, n)
    BY <1>2 DEF Through
  <2>2. /\ through \in Seq(Snapshots) /\ DOMAIN through = 1 .. n
        /\ \A i \in 1 .. n : through[i] = batch[i] /\ i \in DOMAIN batch
    BY <1>1, <2>1
  <2>3. Range(through) \subseteq Range(batch)
    BY <2>2 DEF Range
  <2>4. InOrder(batch) => InOrder(through)
    BY <2>2 DEF InOrder
  <2> QED
    BY <2>2, <2>3, <2>4
<1>3. CASE Sink # "stdout"
  <2>1. PICK kept : through = FlattenSeq([i \in DOMAIN batch |->
                                 IF batch[i] \in kept THEN <<batch[i]>> ELSE <<>>])
    BY <1>3 DEF Through
  <2> DEFINE ss == [i \in DOMAIN batch |-> IF batch[i] \in kept THEN <<batch[i]>> ELSE <<>>]
  <2>2. \A i \in DOMAIN batch : batch[i] \in Snapshots /\ batch[i] \in Range(batch)
    BY <1>1 DEF Range
  <2>3. ss \in Seq(Seq(Snapshots)) /\ DOMAIN ss = DOMAIN batch
    <3>1. \A i \in DOMAIN batch : ss[i] \in Seq(Snapshots)
      BY <2>2
    <3> QED
      BY <1>1, <3>1
  <2>4. \A i \in DOMAIN ss : ss[i] = <<batch[i]>> \/ ss[i] = <<>>
    OBVIOUS
  <2>5. \A i \in DOMAIN ss : Range(ss[i]) \subseteq {batch[i]}
    BY <2>4 DEF Range
  <2> HIDE DEF ss
  <2>6. Range(FlattenSeq(ss)) \subseteq Range(batch)
    <3>1. Range(FlattenSeq(ss)) = UNION {Range(s) : s \in Range(ss)}
      BY <2>3, FlattenOrder
    <3>2. \A s \in Range(ss) : Range(s) \subseteq Range(batch)
      BY <2>2, <2>3, <2>5 DEF Range
    <3> QED
      BY <3>1, <3>2
  <2>7. ASSUME InOrder(batch) PROVE InOrder(FlattenSeq(ss))
    <3>1. \A i \in DOMAIN ss : InOrder(ss[i])
      <4> SUFFICES ASSUME NEW i \in DOMAIN ss PROVE InOrder(ss[i])
        OBVIOUS
      <4>1. \A p, q \in DOMAIN ss[i] : p = q
        BY <2>4
      <4>2. DOMAIN ss[i] \subseteq Nat
        BY <2>4
      <4> QED
        BY <4>1, <4>2 DEF InOrder
    <3>2. \A i, j \in DOMAIN ss : i < j => Before(Range(ss[i]), Range(ss[j]))
      BY <2>3, <2>5, <2>7 DEF Before, InOrder
    <3> QED
      BY <2>3, <3>1, <3>2, FlattenOrder
  <2> QED
    BY <2>1, <2>3, <2>6, <2>7, FlattenOrder DEF ss
<1> QED
  BY <1>2, <1>3

LEMMA AppendOrder ==
    ASSUME NEW a \in Seq(Snapshots), NEW x \in Snapshots
    PROVE  /\ Append(a, x) \in Seq(Snapshots) /\ Range(Append(a, x)) = Range(a) \cup {x}
           /\ InOrder(a) /\ Before(Range(a), {x}) => InOrder(Append(a, x))
<1>1. <<x>> \in Seq(Snapshots) /\ Range(<<x>>) = {x} /\ Append(a, x) = a \o <<x>>
  BY AppendIsConcat DEF Range
<1>2. InOrder(<<x>>)
  BY DEF InOrder
<1> QED
  BY <1>1, <1>2, ConcatOrder

LEMMA BeforeIsDisjoint ==
    ASSUME NEW A, NEW B, A \subseteq Snapshots, B \subseteq Snapshots, Before(A, B)
    PROVE  A \cap B = {}
BY DEF Before, Snapshots

LEMMA RangeTail ==
    ASSUME NEW S, NEW s \in Seq(S), s # <<>>
    PROVE  /\ Head(s) \in S /\ Tail(s) \in Seq(S)
           /\ Range(s) = {Head(s)} \cup Range(Tail(s))
           /\ 1 \in DOMAIN s /\ Head(s) = s[1]
           /\ \A i \in DOMAIN Tail(s) : i + 1 \in DOMAIN s /\ 1 < i + 1 /\ i \in Nat /\ Tail(s)[i] = s[i + 1]
           /\ Len(Tail(s)) = Len(s) - 1
<1>1. /\ Len(s) \in Nat \ {0} /\ DOMAIN s = 1 .. Len(s) /\ Head(s) \in S /\ Head(s) = s[1]
      /\ Tail(s) \in Seq(S) /\ Len(Tail(s)) = Len(s) - 1 /\ DOMAIN Tail(s) = 1 .. Len(s) - 1
      /\ \A i \in 1 .. Len(s) - 1 : Tail(s)[i] = s[i + 1]
  OBVIOUS
<1>2. \A i \in DOMAIN Tail(s) : i + 1 \in DOMAIN s /\ 1 < i + 1 /\ i \in Nat /\ Tail(s)[i] = s[i + 1]
  BY <1>1
<1>3. \A i \in DOMAIN s : i = 1 \/ (i - 1 \in DOMAIN Tail(s) /\ Tail(s)[i - 1] = s[i])
  BY <1>1
<1>4. Range(s) = {Head(s)} \cup Range(Tail(s))
  <2> DEFINE r == Tail(s)
  <2>1. \A x \in Range(s) : x = Head(s) \/ x \in Range(r)
    <3> HIDE DEF r
    <3>1. \A i \in DOMAIN s : s[i] = Head(s) \/ s[i] \in Range(r)
      BY <1>1, <1>3 DEF Range, r
    <3> QED
      BY <3>1 DEF Range
  <2>2. \A x \in Range(r) : x \in Range(s)
    BY <1>2 DEF Range
  <2>3. Head(s) \in Range(s)
    BY <1>1 DEF Range
  <2> QED
    BY <2>1, <2>2, <2>3
<1> QED
  BY <1>1, <1>2, <1>4

\* The series a worker collects from the observers of a set.
LEMMA CollectedFacts ==
    ASSUME StateInv, OwnInv, OrderInv, NEW S
    PROVE  /\ Collected(S) \in Seq(Snapshots)
           /\ Range(Collected(S)) = UNION {Range(series[o]) : o \in Range(observers) \cap S}
           /\ InOrder(Collected(S))
<1> DEFINE ss == [i \in DOMAIN observers |-> IF observers[i] \in S THEN series[observers[i]] ELSE <<>>]
<1>1. /\ observers \in Seq(Observers) /\ DOMAIN observers = 1 .. Len(observers) /\ Len(observers) \in Nat
      /\ \A i \in DOMAIN observers : observers[i] \in Observers
      /\ series \in [Observers -> Seq(Snapshots)]
  BY Ranges DEF StateInv
<1>2. ss \in Seq(Seq(Snapshots)) /\ DOMAIN ss = DOMAIN observers
  <2>1. \A i \in DOMAIN observers : ss[i] \in Seq(Snapshots)
    BY <1>1
  <2> QED
    BY <1>1, <2>1
<1>3. \A i \in DOMAIN ss : \/ observers[i] \in S /\ ss[i] = series[observers[i]]
                           \/ observers[i] \notin S /\ ss[i] = <<>>
  OBVIOUS
<1>4. Collected(S) = FlattenSeq(ss)
  BY DEF Collected
<1> HIDE DEF ss
<1>5. Range(<<>>) = {} /\ InOrder(<<>>)
  BY DEF Range, InOrder
<1>6. UNION {Range(s) : s \in Range(ss)} = UNION {Range(series[o]) : o \in Range(observers) \cap S}
  <2>1. ASSUME NEW s \in Range(ss), NEW x \in Range(s)
        PROVE  \E o \in Range(observers) \cap S : x \in Range(series[o])
    <3>1. PICK i \in DOMAIN ss : ss[i] = s
      BY DEF Range
    <3>2. observers[i] \in S /\ ss[i] = series[observers[i]]
      BY <1>3, <1>5, <2>1, <3>1
    <3>3. observers[i] \in Range(observers)
      BY <1>2 DEF Range
    <3> QED
      BY <2>1, <3>1, <3>2, <3>3
  <2>2. ASSUME NEW o \in Range(observers) \cap S, NEW x \in Range(series[o])
        PROVE  \E s \in Range(ss) : x \in Range(s)
    <3>1. PICK i \in DOMAIN observers : observers[i] = o
      BY DEF Range
    <3>2. ss[i] = series[o] /\ ss[i] \in Range(ss)
      BY <1>2, <1>3, <2>2, <3>1 DEF Range
    <3> QED
      BY <2>2, <3>2
  <2> QED
    BY <2>1, <2>2
<1>7. \A i \in DOMAIN ss : InOrder(ss[i])
  BY <1>1, <1>2, <1>3, <1>5 DEF OrderInv
<1>8. \A i, j \in DOMAIN ss : i < j => Before(Range(ss[i]), Range(ss[j]))
  <2> SUFFICES ASSUME NEW i \in DOMAIN ss, NEW j \in DOMAIN ss, i < j,
                      NEW s \in Range(ss[i]), NEW t \in Range(ss[j]), s.by = t.by
               PROVE  FALSE
    BY DEF Before
  <2>1. s.by = observers[i] /\ t.by = observers[j]
    BY <1>1, <1>2, <1>3, <1>5 DEF OwnInv
  <2>2. i = j
    BY <1>2, <2>1 DEF StateInv, IsInjective
  <2> QED
    BY <1>1, <1>2, <2>2
<1> QED
  BY <1>2, <1>4, <1>6, <1>7, <1>8, FlattenOrder

LEMMA AllIsHeld ==
    ASSUME StateInv
    PROVE  All = Held
<1> DEFINE f == FlattenSeq(batches)
<1>1. f \in Seq(Snapshots) /\ Range(f) = UNION {Range(b) : b \in Range(batches)}
  BY FlattenOrder DEF StateInv
<1> HIDE DEF f
<1> DEFINE q == sent \o sending
<1>2. q \in Seq(Snapshots) /\ Range(q) = Range(sent) \cup Range(sending)
  <2>1. sent \in Seq(Snapshots) /\ sending \in Seq(Snapshots)
    BY DEF StateInv
  <2> QED
    BY <2>1, ConcatOrder
<1> HIDE DEF q
<1>3. Range(q \o f) = Range(q) \cup Range(f)
  BY <1>1, <1>2, ConcatOrder
<1>4. Range(Queue) = Leaving
  <2>1. Queue = q \o f
    BY DEF Queue, q, f
  <2> QED
    BY <1>1, <1>2, <1>3, <2>1 DEF Leaving
<1>5. All = Range(Queue) \cup discarded \cup Waiting
  BY DEF All, Waiting
<1> QED
  BY <1>4, <1>5 DEF Held

LEMMA HeldAreSnapshots ==
    ASSUME StateInv
    PROVE  Held \subseteq Snapshots
<1>1. Range(sent) \subseteq Snapshots /\ Range(sending) \subseteq Snapshots
  BY Ranges DEF StateInv
<1>2. \A b \in Range(batches) : Range(b) \subseteq Snapshots
  BY Ranges DEF StateInv
<1>3. \A o \in Observers : Range(series[o]) \subseteq Snapshots
  BY Ranges DEF StateInv
<1> QED
  BY <1>1, <1>2, <1>3 DEF Held, Leaving, Waiting, StateInv

-----------------------------------------------------------------------------
(* Steps that move no snapshot                                             *)

LEMMA NextTick ==
    ASSUME NEW deadline, NEW at \in Nat, NEW period \in Nat \ {0}
    PROVE  next(deadline, period, at) \in Nat
BY PeriodicAssumption DEF next

LEMMA QuietSteps ==
    ASSUME WorkInv,
           \/ Pass \/ AdvanceObserve \/ ExportNotDue \/ AdvanceExport \/ Receive
           \/ NoMoreCommands \/ Toggle \/ UNCHANGED vars
    PROVE  WorkInv' /\ Held' = Held
<1>1. /\ UNCHANGED <<observers, start, seq, series, commands, batches, sending, gone, drop, sent, discarded>>
      /\ UNCHANGED stopping
  BY DEF Pass, AdvanceObserve, ExportNotDue, AdvanceExport, Receive, NoMoreCommands, Toggle,
         vars, worker, task
<1>2. /\ clock' \in Nat /\ observeTimer' \in Nat /\ exportTimer' \in Nat /\ now' \in Nat
      /\ wpc' \in {"loop", "observed", "export", "exported", "recv", "commands", "returned"}
      /\ enabled' \in BOOLEAN
  <2> USE DEF WorkInv, StateInv
  <2>1. CASE Pass
    BY <2>1 DEF Pass, worker
  <2>2. CASE AdvanceObserve
    BY <2>2, NextTick, PeriodicAssumption DEF AdvanceObserve
  <2>3. CASE AdvanceExport
    BY <2>3, NextTick, PeriodicAssumption DEF AdvanceExport, AfterExport
  <2>4. CASE ExportNotDue
    BY <2>4 DEF ExportNotDue, AfterExport
  <2>5. CASE Receive \/ NoMoreCommands
    BY <2>5 DEF Receive, NoMoreCommands
  <2>6. CASE Toggle
    BY <2>6 DEF Toggle, worker
  <2>7. CASE UNCHANGED vars
    BY <2>7 DEF vars, worker
  <2> QED
    BY <2>1, <2>2, <2>3, <2>4, <2>5, <2>6, <2>7
<1>3. StateInv'
  BY <1>1, <1>2 DEF WorkInv, StateInv
<1>4. AddInv' /\ Leaving' = Leaving /\ Waiting' = Waiting /\ Held' = Held
  BY <1>1 DEF WorkInv, AddInv, Leaving, Waiting, Held
<1>5. OwnInv'
  BY <1>1, <1>4 DEF WorkInv, OwnInv
<1>6. OrderInv'
  BY <1>1, <1>4 DEF WorkInv, OrderInv
<1> QED
  BY <1>3, <1>4, <1>5, <1>6 DEF WorkInv

LEMMA CommandSteps ==
    ASSUME WorkInv, HandleShutdown \/ Drop \/ \E o \in Observers : Add(o)
    PROVE  WorkInv' /\ Held' = Held
<1>1. UNCHANGED <<clock, observeTimer, exportTimer, observers, start, seq, series, batches,
                  sending, gone, enabled, sent, discarded>>
  BY DEF HandleShutdown, Drop, Add, worker, task
<1>2. /\ now' \in Nat /\ stopping' \in BOOLEAN /\ drop' \in {"no", "join", "returned"}
      /\ wpc' \in {"loop", "observed", "export", "exported", "recv", "commands", "returned"}
  BY DEF HandleShutdown, Drop, Add, worker, WorkInv, StateInv
<1>3. commands \in Seq(Observers \cup {Shutdown}) /\ AddInv
  BY DEF WorkInv, StateInv
<1>4. commands' \in Seq(Observers \cup {Shutdown}) /\ AddInv'
  <2>1. CASE HandleShutdown
    <3>1. commands # <<>> /\ commands' = Tail(commands)
      BY <2>1 DEF HandleShutdown
    <3>2. /\ Tail(commands) \in Seq(Observers \cup {Shutdown})
          /\ Range(Tail(commands)) \subseteq Range(commands)
          /\ \A i \in DOMAIN Tail(commands) :
               i + 1 \in DOMAIN commands /\ i \in Nat /\ Tail(commands)[i] = commands[i + 1]
      BY <1>3, <3>1, RangeTail
    <3>3. \A i, j \in DOMAIN commands' :
             commands'[i] = commands'[j] /\ commands'[i] \in Observers => i = j
      <4> SUFFICES ASSUME NEW i \in DOMAIN commands', NEW j \in DOMAIN commands',
                          commands'[i] = commands'[j], commands'[i] \in Observers
                   PROVE  i = j
        OBVIOUS
      <4>1. i + 1 = j + 1 /\ i \in Nat /\ j \in Nat
        BY <1>3, <3>1, <3>2 DEF AddInv
      <4> QED
        BY <4>1
    <3> QED
      BY <1>1, <1>3, <3>1, <3>2, <3>3 DEF AddInv
  <2>2. ASSUME NEW c \in Observers \cup {Shutdown}, commands' = Append(commands, c),
               c \in Observers => c \notin Range(observers) \cup Range(commands)
        PROVE  commands' \in Seq(Observers \cup {Shutdown}) /\ AddInv'
    <3> DEFINE d == Append(commands, c)
    <3>1. /\ d \in Seq(Observers \cup {Shutdown}) /\ Len(commands) \in Nat
          /\ DOMAIN commands = 1 .. Len(commands)
          /\ DOMAIN d = 1 .. Len(commands) + 1
          /\ \A i \in DOMAIN commands : d[i] = commands[i] /\ d[i] \in Range(commands)
          /\ d[Len(commands) + 1] = c
      BY <1>3 DEF Range
    <3> HIDE DEF d
    <3>2. \A i \in DOMAIN d : i \in DOMAIN commands \/ i = Len(commands) + 1
      BY <3>1
    <3>3. \A i, j \in DOMAIN d : d[i] = d[j] /\ d[i] \in Observers => i = j
      BY <1>3, <2>2, <3>1, <3>2 DEF AddInv
    <3>4. Range(d) \cap Range(observers) = {}
      <4>1. Shutdown \notin Range(observers)
        BY PeriodicAssumption, Ranges DEF WorkInv, StateInv
      <4>2. c \notin Range(observers)
        BY <2>2, <4>1
      <4>3. \A i \in DOMAIN d : d[i] \notin Range(observers)
        BY <1>3, <3>1, <3>2, <4>2 DEF AddInv
      <4> QED
        BY <4>3 DEF Range
    <3> QED
      BY <1>1, <2>2, <3>1, <3>3, <3>4 DEF AddInv, d
  <2>3. CASE Drop
    BY <2>2, <2>3, PeriodicAssumption DEF Drop
  <2>4. ASSUME NEW o \in Observers, Add(o)
        PROVE  commands' \in Seq(Observers \cup {Shutdown}) /\ AddInv'
    BY <2>2, <2>4 DEF Add
  <2> QED
    BY <2>1, <2>3, <2>4
<1>5. StateInv'
  BY <1>1, <1>2, <1>4 DEF WorkInv, StateInv
<1>6. Leaving' = Leaving /\ Waiting' = Waiting /\ Held' = Held
  BY <1>1 DEF Leaving, Waiting, Held
<1>7. OwnInv' /\ OrderInv'
  BY <1>1, <1>6 DEF WorkInv, OwnInv, OrderInv
<1> QED
  BY <1>4, <1>5, <1>6, <1>7 DEF WorkInv

\* The series of an observer that was not added are empty.
LEMMA NotAdded ==
    ASSUME StateInv, OwnInv, NEW o \in Observers, o \notin Range(observers)
    PROVE  series[o] = <<>>
<1>1. \A s \in Range(series[o]) : s \in Held /\ s.by = o
  BY DEF OwnInv, Held, Waiting
<1>2. Range(series[o]) = {}
  BY <1>1 DEF OwnInv
<1>3. series[o] \in Seq(Snapshots)
  BY DEF StateInv
<1> QED
  BY <1>2, <1>3, Ranges

LEMMA AddStep ==
    ASSUME WorkInv, HandleAdd
    PROVE  WorkInv' /\ Held' = Held
<1> DEFINE o == Head(commands)
<1>1. /\ commands # <<>> /\ o # Shutdown /\ commands' = Tail(commands)
      /\ start' = [start EXCEPT ![o] = at_system(observeTimer)]
      /\ seq' = [seq EXCEPT ![o] = 0]
      /\ series' = [series EXCEPT ![o] = <<>>]
      /\ observers' = Append(observers, o)
      /\ UNCHANGED <<clock, observeTimer, exportTimer, wpc, now, stopping, batches,
                     sending, gone, sent, enabled, drop, discarded>>
  BY DEF HandleAdd, task
<1>2. StateInv /\ AddInv /\ OwnInv /\ OrderInv
  BY DEF WorkInv
<1>3. /\ Tail(commands) \in Seq(Observers \cup {Shutdown}) /\ o \in Observers
      /\ Range(commands) = {o} \cup Range(Tail(commands))
      /\ 1 \in DOMAIN commands /\ o = commands[1]
      /\ \A i \in DOMAIN Tail(commands) :
            i + 1 \in DOMAIN commands /\ 1 < i + 1 /\ i \in Nat /\ Tail(commands)[i] = commands[i + 1]
  BY <1>1, <1>2, RangeTail DEF StateInv
<1> HIDE DEF o
<1>4. o \notin Range(observers) /\ o \notin Range(Tail(commands))
  <2>1. \A i \in DOMAIN Tail(commands) : Tail(commands)[i] # o
    <3> SUFFICES ASSUME NEW i \in DOMAIN Tail(commands), Tail(commands)[i] = o PROVE FALSE
      OBVIOUS
    <3>1. i + 1 = 1 /\ 1 < i + 1 /\ i \in Nat
      BY <1>2, <1>3 DEF AddInv
    <3> QED
      BY <3>1
  <2> QED
    BY <1>2, <1>3, <2>1 DEF AddInv, Range
<1>5. series' = series
  <2>1. series[o] = <<>>
    BY <1>2, <1>3, <1>4, NotAdded
  <2> QED
    BY <1>1, <1>2, <2>1 DEF StateInv
<1> DEFINE d == Append(observers, o)
<1>6. /\ observers \in Seq(Observers) /\ Len(observers) \in Nat /\ DOMAIN observers = 1 .. Len(observers)
      /\ d \in Seq(Observers) /\ DOMAIN d = 1 .. Len(observers) + 1
      /\ \A i \in DOMAIN observers : d[i] = observers[i] /\ d[i] \in Range(observers)
      /\ d[Len(observers) + 1] = o
  <2>1. /\ observers \in Seq(Observers) /\ Len(observers) \in Nat
        /\ DOMAIN observers = 1 .. Len(observers)
        /\ \A i \in DOMAIN observers : observers[i] \in Range(observers)
    BY <1>2, Ranges DEF StateInv, Range
  <2> QED
    BY <1>3, <2>1
<1> HIDE DEF d
<1>7. \A i \in DOMAIN d : i \in DOMAIN observers \/ i = Len(observers) + 1
  BY <1>6
<1>8. IsInjective(d) /\ Range(d) = Range(observers) \cup {o}
  <2>1. IsInjective(d)
    BY <1>2, <1>4, <1>6, <1>7 DEF StateInv, IsInjective
  <2>2. \A i \in DOMAIN d : d[i] \in Range(observers) \cup {o}
    BY <1>6, <1>7
  <2>3. o \in Range(d) /\ \A i \in DOMAIN observers : i \in DOMAIN d
    BY <1>6 DEF Range
  <2>4. Range(observers) \subseteq Range(d)
    BY <1>6, <2>3 DEF Range
  <2> QED
    BY <2>1, <2>2, <2>3, <2>4 DEF Range
<1>9. start' \in [Observers -> Nat] /\ seq' \in [Observers -> Nat]
  BY <1>1, <1>2, <1>3, PeriodicAssumption DEF StateInv, at_system
<1>10. StateInv'
  BY <1>1, <1>2, <1>3, <1>5, <1>6, <1>8, <1>9 DEF StateInv, d
<1>11. AddInv'
  <2>1. \A i, j \in DOMAIN commands' :
           commands'[i] = commands'[j] /\ commands'[i] \in Observers => i = j
    <3> SUFFICES ASSUME NEW i \in DOMAIN commands', NEW j \in DOMAIN commands',
                        commands'[i] = commands'[j], commands'[i] \in Observers
                 PROVE  i = j
      OBVIOUS
    <3>1. i + 1 = j + 1 /\ i \in Nat /\ j \in Nat
      BY <1>1, <1>2, <1>3 DEF AddInv
    <3> QED
      BY <3>1
  <2>2. Range(commands') \cap Range(observers') = {}
    BY <1>1, <1>2, <1>3, <1>4, <1>8 DEF AddInv, d
  <2> QED
    BY <2>1, <2>2 DEF AddInv
<1>12. Leaving' = Leaving /\ Waiting' = Waiting /\ Held' = Held
  BY <1>1, <1>5 DEF Leaving, Waiting, Held
<1>13. OwnInv'
  <2>1. \A s \in Held : s.by \in Range(observers) /\ s.seq_id < seq[s.by]
    BY <1>2 DEF OwnInv
  <2>2. Range(observers) \subseteq Observers
    BY <1>6, Ranges
  <2>3. \A s \in Held : s.by \in Range(observers') /\ s.by # o /\ seq'[s.by] = seq[s.by]
    BY <1>1, <1>2, <1>4, <1>8, <2>1, <2>2 DEF StateInv, d
  <2> QED
    BY <1>2, <1>5, <1>12, <2>1, <2>3 DEF OwnInv
<1>14. OrderInv'
  BY <1>1, <1>2, <1>5, <1>12 DEF OrderInv
<1> QED
  BY <1>10, <1>11, <1>12, <1>13, <1>14 DEF WorkInv

-----------------------------------------------------------------------------
(* Steps that move snapshots                                               *)

\* What an observation records.
Recorded(o) == [by |-> o, seq_id |-> seq[o], ts |-> at_system(clock)]

LEMMA ObserveStep ==
    ASSUME WorkInv, Observe
    PROVE  /\ WorkInv'
           /\ \/ Held' = Held /\ seq' = seq /\ wpc' = "export"
              \/ /\ due(observeTimer, clock) /\ wpc' = "observed"
                 /\ seq' = [o \in Observers |-> IF o \in Range(observers) THEN seq[o] + 1 ELSE seq[o]]
                 /\ \E records \in SUBSET Range(observers) :
                       Held' = Held \cup {Recorded(o) : o \in records}
<1>1. /\ now' = clock
      /\ UNCHANGED <<clock, observeTimer, exportTimer, stopping, observers, start,
                     commands, batches, sending, gone, sent, enabled, drop, discarded>>
  BY DEF Observe, task
<1>2. StateInv /\ AddInv /\ OwnInv /\ OrderInv
  BY DEF WorkInv
<1>3. AddInv' /\ Leaving' = Leaving
  BY <1>1, <1>2 DEF AddInv, Leaving
<1>4. CASE ~due(observeTimer, clock)
  <2>1. UNCHANGED <<series, seq>> /\ wpc' = "export"
    BY <1>4 DEF Observe
  <2>2. Waiting' = Waiting /\ Held' = Held
    BY <1>1, <1>3, <2>1 DEF Waiting, Held
  <2>3. StateInv' /\ OwnInv' /\ OrderInv'
    BY <1>1, <1>2, <1>3, <2>1, <2>2 DEF StateInv, OwnInv, OrderInv
  <2> QED
    BY <1>3, <2>1, <2>2, <2>3 DEF WorkInv
<1>5. CASE due(observeTimer, clock)
  <2>1. PICK records \in SUBSET Range(observers) :
           series' = [o \in Observers |->
               IF o \in records THEN Append(series[o], Recorded(o)) ELSE series[o]]
    BY <1>5 DEF Observe, Recorded
  <2>2. /\ seq' = [o \in Observers |-> IF o \in Range(observers) THEN seq[o] + 1 ELSE seq[o]]
        /\ wpc' = "observed"
    BY <1>5 DEF Observe
  <2>3. records \subseteq Observers /\ records \subseteq Range(observers)
    BY <1>2, Ranges DEF StateInv
  <2>4. \A o \in Observers : /\ Recorded(o) \in Snapshots /\ Recorded(o).by = o
                             /\ Recorded(o).seq_id = seq[o] /\ seq[o] \in Nat
    BY <1>2, PeriodicAssumption DEF StateInv, Snapshots, Recorded, at_system
  <2> HIDE DEF Recorded
  <2>5. \A s \in Held : s.by \in Range(observers) /\ s.by \in Observers /\ s.seq_id < seq[s.by]
    BY <1>2, Ranges DEF StateInv, OwnInv
  <2>6. ASSUME NEW o \in Observers
        PROVE  /\ series'[o] \in Seq(Snapshots) /\ InOrder(series'[o])
               /\ Range(series'[o]) = Range(series[o]) \cup (IF o \in records THEN {Recorded(o)} ELSE {})
    <3>1. series[o] \in Seq(Snapshots) /\ InOrder(series[o])
      BY <1>2 DEF StateInv, OrderInv
    <3>2. CASE o \in records
      <4>1. Before(Range(series[o]), {Recorded(o)})
        <5>1. \A s \in Range(series[o]) : s \in Held /\ s.by = o
          BY <1>2 DEF OwnInv, Held, Waiting
        <5> QED
          BY <2>4, <2>5, <5>1 DEF Before
      <4>2. series'[o] = Append(series[o], Recorded(o))
        BY <2>1, <3>2
      <4> QED
        BY <2>4, <3>1, <3>2, <4>1, <4>2, AppendOrder
    <3>3. CASE o \notin records
      BY <2>1, <3>1, <3>3
    <3> QED
      BY <3>2, <3>3
  <2>7. Waiting' = Waiting \cup {Recorded(o) : o \in records}
    <3>1. \A x \in Waiting' : x \in Waiting \/ x \in {Recorded(o) : o \in records}
      BY <2>6 DEF Waiting
    <3>2. \A x \in Waiting : x \in Waiting'
      BY <2>6 DEF Waiting
    <3>3. \A o \in records : Recorded(o) \in Waiting'
      BY <2>3, <2>6 DEF Waiting
    <3> QED
      BY <3>1, <3>2, <3>3
  <2>8. Held' = Held \cup {Recorded(o) : o \in records}
    BY <1>1, <1>3, <2>7 DEF Held
  <2>9. StateInv'
    <3>1. seq' \in [Observers -> Nat]
      BY <1>2, <2>2 DEF StateInv
    <3>2. series' \in [Observers -> Seq(Snapshots)]
      BY <2>1, <2>6
    <3> QED
      BY <1>1, <1>2, <2>2, <3>1, <3>2 DEF StateInv
  <2>10. OwnInv'
    <3>1. \A s \in Held' : s.by \in Range(observers) /\ s.seq_id < seq'[s.by]
      <4>1. \A o \in Range(observers) : o \in Observers /\ seq'[o] = seq[o] + 1
        BY <1>2, <2>2, Ranges DEF StateInv
      <4>2. \A s \in Held : s.seq_id \in Nat
        <5>1. Held \subseteq Snapshots
          BY <1>2, HeldAreSnapshots
        <5> QED
          BY <5>1 DEF Snapshots
      <4>3. ASSUME NEW s \in Held PROVE s.by \in Range(observers) /\ s.seq_id < seq'[s.by]
        <5>1. s.seq_id < seq[s.by] /\ seq'[s.by] = seq[s.by] + 1 /\ s.seq_id \in Nat /\ seq[s.by] \in Nat
          BY <2>4, <2>5, <4>1, <4>2
        <5> QED
          BY <2>5, <5>1
      <4>4. ASSUME NEW o \in records
            PROVE  Recorded(o).by \in Range(observers) /\ Recorded(o).seq_id < seq'[Recorded(o).by]
        BY <2>3, <2>4, <4>1
      <4> QED
        BY <2>8, <4>3, <4>4
    <3>2. \A o \in Observers : \A s \in Range(series'[o]) : s.by = o
      BY <1>2, <2>3, <2>4, <2>6 DEF OwnInv
    <3> QED
      BY <1>1, <3>1, <3>2 DEF OwnInv
  <2>11. OrderInv'
    <3>1. Before(Leaving, Waiting')
      <4>1. \A s \in Leaving, t \in {Recorded(o) : o \in records} : s.by = t.by => s.seq_id < t.seq_id
        <5>1. Leaving \subseteq Held
          BY DEF Held
        <5> QED
          BY <2>3, <2>4, <2>5, <5>1
      <4> QED
        BY <1>2, <2>7, <4>1 DEF OrderInv, Before
    <3>2. (Leaving \cup Waiting') \cap discarded = {}
      <4>1. \A o \in records : Recorded(o) \notin discarded
        <5> SUFFICES ASSUME NEW o \in records, Recorded(o) \in discarded PROVE FALSE
          OBVIOUS
        <5>1. Recorded(o).seq_id < seq[o] /\ Recorded(o).seq_id = seq[o] /\ seq[o] \in Nat
          BY <2>3, <2>4, <2>5 DEF Held
        <5> QED
          BY <5>1
      <4> QED
        BY <1>2, <2>7, <4>1 DEF OrderInv
    <3> QED
      BY <1>1, <1>2, <1>3, <2>6, <3>1, <3>2 DEF OrderInv
  <2> QED
    BY <1>3, <1>5, <2>2, <2>8, <2>9, <2>10, <2>11 DEF WorkInv
<1> QED
  BY <1>4, <1>5

LEMMA ExportStep ==
    ASSUME WorkInv, Export
    PROVE  WorkInv' /\ Held' = Held
<1>1. PICK failed \in SUBSET {o \in Range(observers) : series[o] # <<>>} : ExportWith(failed)
  BY DEF Export
<1>2. /\ wpc' = "exported"
      /\ UNCHANGED <<clock, observeTimer, exportTimer, now, stopping, observers, start, seq,
                     commands, sending, gone, sent, enabled, drop>>
  BY DEF Export, task
<1>3. StateInv /\ AddInv /\ OwnInv /\ OrderInv
  BY DEF WorkInv
<1> DEFINE good == Range(observers) \ failed
           batch == Collected(good)
           bad == Collected(failed)
           fits == ~gone /\ Len(batches) < Capacity
<1>4. /\ series' = [o \in Observers |-> IF o \in Range(observers) THEN <<>> ELSE series[o]]
      /\ batches' = IF batch # <<>> /\ fits THEN Append(batches, batch) ELSE batches
      /\ discarded' = discarded \cup Range(bad) \cup IF fits THEN {} ELSE Range(batch)
  BY <1>1 DEF ExportWith
<1>5. /\ batch \in Seq(Snapshots) /\ InOrder(batch)
      /\ Range(batch) = UNION {Range(series[o]) : o \in Range(observers) \cap good}
  BY <1>3, CollectedFacts
<1>6. bad \in Seq(Snapshots) /\ Range(bad) = UNION {Range(series[o]) : o \in Range(observers) \cap failed}
  BY <1>3, CollectedFacts
<1>7. Range(batch) \cap Range(bad) = {}
  <2> SUFFICES ASSUME NEW s \in Range(batch), s \in Range(bad) PROVE FALSE
    OBVIOUS
  <2>1. PICK o \in Range(observers) \cap good : s \in Range(series[o])
    BY <1>5
  <2>2. PICK u \in Range(observers) \cap failed : s \in Range(series[u])
    BY <1>6
  <2>3. o \in Observers /\ u \in Observers
    BY <1>3, Ranges DEF StateInv
  <2> QED
    BY <1>3, <2>1, <2>2, <2>3 DEF OwnInv
<1>8. Waiting = Range(batch) \cup Range(bad)
  <2>1. Range(observers) \subseteq Observers
    BY <1>3, Ranges DEF StateInv
  <2>2. ASSUME NEW s \in Waiting PROVE s \in Range(batch) \cup Range(bad)
    <3>1. PICK o \in Observers : s \in Range(series[o])
      BY DEF Waiting
    <3>2. o \in Range(observers)
      BY <1>3, <3>1, NotAdded DEF Range
    <3> QED
      BY <1>5, <1>6, <3>1, <3>2
  <2>3. Range(batch) \subseteq Waiting
    BY <1>5, <2>1 DEF Waiting
  <2>4. Range(bad) \subseteq Waiting
    BY <1>6, <2>1 DEF Waiting
  <2> QED
    BY <2>2, <2>3, <2>4
<1> HIDE DEF batch, bad, fits
<1>9. \A o \in Observers : series'[o] = <<>>
  BY <1>3, <1>4, NotAdded
<1>10. /\ Waiting' = {} /\ Range(<<>>) = {} /\ InOrder(<<>>)
       /\ series' \in [Observers -> Seq(Snapshots)]
  <2>1. Range(<<>>) = {} /\ InOrder(<<>>)
    BY DEF Range, InOrder
  <2>2. <<>> \in Seq(Snapshots)
    OBVIOUS
  <2>3. series' = [o \in Observers |-> series'[o]]
    BY <1>4
  <2> QED
    BY <1>9, <2>1, <2>2, <2>3 DEF Waiting
<1>11. /\ batches \in Seq(Seq(Snapshots)) /\ Len(batches) \in Nat /\ DOMAIN batches = 1 .. Len(batches)
       /\ \A i \in DOMAIN batches : Range(batches[i]) \subseteq Leaving
  <2>1. batches \in Seq(Seq(Snapshots))
    BY <1>3 DEF StateInv
  <2>2. \A i \in DOMAIN batches : batches[i] \in Range(batches)
    BY DEF Range
  <2>3. \A b \in Range(batches) : Range(b) \subseteq Leaving
    BY DEF Leaving
  <2> QED
    BY <2>1, <2>2, <2>3
<1>12. AddInv'
  BY <1>2, <1>3 DEF AddInv
<1>13. CASE batch # <<>> /\ fits
  <2> DEFINE bs == Append(batches, batch)
  <2>1. batches' = bs /\ discarded' = discarded \cup Range(bad)
    BY <1>4, <1>13
  <2>2. /\ bs \in Seq(Seq(Snapshots)) /\ Len(bs) = Len(batches) + 1 /\ DOMAIN bs = 1 .. Len(batches) + 1
        /\ \A i \in DOMAIN batches : bs[i] = batches[i]
        /\ bs[Len(batches) + 1] = batch
    BY <1>5, <1>11
  <2> HIDE DEF bs
  <2>3. \A i \in DOMAIN bs : i \in DOMAIN batches \/ i = Len(batches) + 1
    BY <1>11, <2>2
  <2>4. Range(bs) = Range(batches) \cup {batch}
    <3>1. \A i \in DOMAIN bs : bs[i] \in Range(batches) \cup {batch}
      BY <2>2, <2>3 DEF Range
    <3>2. \A i \in DOMAIN batches : batches[i] \in Range(bs)
      <4>1. \A i \in DOMAIN batches : i \in DOMAIN bs
        BY <1>11, <2>2
      <4> QED
        BY <2>2, <4>1 DEF Range
    <3>3. batch \in Range(bs)
      <4>1. Len(batches) + 1 \in DOMAIN bs
        BY <1>11, <2>2
      <4> QED
        BY <2>2, <4>1 DEF Range
    <3> QED
      BY <3>1, <3>2, <3>3 DEF Range
  <2>5. Leaving' = Leaving \cup Range(batch)
    BY <1>2, <2>1, <2>4 DEF Leaving
  <2>6. Held' = Held
    BY <1>8, <1>10, <2>1, <2>5 DEF Held
  <2>7. StateInv'
    <3>1. series' \in [Observers -> Seq(Snapshots)]
      BY <1>10
    <3>2. discarded' \subseteq Snapshots
      BY <1>3, <1>6, <2>1, Ranges DEF StateInv
    <3>3. Len(batches') <= Capacity /\ \A b \in Range(batches') : b # <<>>
      BY <1>3, <1>11, <1>13, <2>1, <2>2, <2>4, PeriodicAssumption DEF StateInv, fits
    <3> QED
      BY <1>2, <1>3, <2>1, <2>2, <3>1, <3>2, <3>3 DEF StateInv
  <2>8. OwnInv'
    BY <1>2, <1>3, <1>9, <1>10, <2>6 DEF OwnInv
  <2>9. OrderInv'
    <3>1. Before(Leaving, Range(batch))
      BY <1>3, <1>8 DEF OrderInv, Before
    <3>2. \A i \in DOMAIN bs : InOrder(bs[i])
      BY <1>3, <1>5, <2>2, <2>3 DEF OrderInv
    <3>3. \A i \in DOMAIN bs : Before(Range(sent) \cup Range(sending), Range(bs[i]))
      <4>1. Range(sent) \cup Range(sending) \subseteq Leaving
        BY DEF Leaving
      <4>2. Before(Range(sent) \cup Range(sending), Range(batch))
        BY <3>1, <4>1 DEF Before
      <4> QED
        BY <1>3, <2>2, <2>3, <4>2 DEF OrderInv
    <3>4. \A i, j \in DOMAIN bs : i < j => Before(Range(bs[i]), Range(bs[j]))
      <4> SUFFICES ASSUME NEW i \in DOMAIN bs, NEW j \in DOMAIN bs, i < j
                   PROVE  Before(Range(bs[i]), Range(bs[j]))
        OBVIOUS
      <4>0. i \in DOMAIN batches
        BY <1>11, <2>2
      <4>1. CASE j \in DOMAIN batches
        BY <1>3, <2>2, <4>0, <4>1 DEF OrderInv
      <4>2. CASE j = Len(batches) + 1
        BY <1>11, <2>2, <3>1, <4>0, <4>2 DEF Before
      <4> QED
        BY <2>3, <4>1, <4>2
    <3>5. (Leaving \cup Range(batch)) \cap (discarded \cup Range(bad)) = {}
      <4>1. Leaving \cap Waiting = {}
        <5>1. Leaving \subseteq Snapshots /\ Waiting \subseteq Snapshots
          BY <1>3, HeldAreSnapshots DEF Held
        <5> QED
          BY <1>3, <5>1, BeforeIsDisjoint DEF OrderInv
      <4>2. (Leaving \cup Waiting) \cap discarded = {}
        BY <1>3 DEF OrderInv
      <4> QED
        BY <1>7, <1>8, <4>1, <4>2
    <3> QED
      BY <1>2, <1>3, <1>9, <1>10, <2>1, <2>5, <3>2, <3>3, <3>4, <3>5 DEF OrderInv, Before
  <2> QED
    BY <1>12, <2>6, <2>7, <2>8, <2>9 DEF WorkInv
<1>14. CASE ~(batch # <<>> /\ fits)
  <2>1. batches' = batches /\ discarded' = discarded \cup Waiting
    <3>1. batch = <<>> => Range(batch) = {}
      BY <1>10
    <3> QED
      BY <1>4, <1>8, <1>14, <3>1
  <2>2. Leaving' = Leaving
    BY <1>2, <2>1 DEF Leaving
  <2>3. Held' = Held
    BY <1>10, <2>1, <2>2 DEF Held
  <2>4. StateInv'
    <3>1. series' \in [Observers -> Seq(Snapshots)]
      BY <1>10
    <3>2. discarded' \subseteq Snapshots
      BY <1>3, <2>1, HeldAreSnapshots DEF Held
    <3> QED
      BY <1>2, <1>3, <2>1, <3>1, <3>2 DEF StateInv
  <2>5. OwnInv'
    BY <1>2, <1>3, <1>9, <1>10, <2>3 DEF OwnInv
  <2>6. OrderInv'
    <3>1. Leaving \cap Waiting = {}
      <4>1. Leaving \subseteq Snapshots /\ Waiting \subseteq Snapshots
        BY <1>3, HeldAreSnapshots DEF Held
      <4> QED
        BY <1>3, <4>1, BeforeIsDisjoint DEF OrderInv
    <3> QED
      BY <1>2, <1>3, <1>9, <1>10, <2>1, <2>2, <3>1 DEF OrderInv, Before
  <2> QED
    BY <1>12, <2>3, <2>4, <2>5, <2>6 DEF WorkInv
<1> QED
  BY <1>13, <1>14

LEMMA ReceiveStep ==
    ASSUME WorkInv, ReceiveBatch
    PROVE  WorkInv' /\ Held' = Held
<1> DEFINE head == Head(batches)
           tail == Tail(batches)
<1>1. /\ sending = <<>> /\ batches # <<>> /\ batches' = tail
      /\ \/ sending' = head /\ discarded' = discarded
         \/ sending' = sending /\ discarded' = discarded \cup Range(head)
      /\ UNCHANGED <<clock, observeTimer, exportTimer, wpc, now, stopping, observers, start, seq,
                     series, commands, gone, sent, enabled, drop>>
  BY DEF ReceiveBatch, worker
<1>2. StateInv /\ AddInv /\ OwnInv /\ OrderInv
  BY DEF WorkInv
<1>3. /\ head \in Seq(Snapshots) /\ tail \in Seq(Seq(Snapshots))
      /\ Range(batches) = {head} \cup Range(tail)
      /\ 1 \in DOMAIN batches /\ head = batches[1]
      /\ \A i \in DOMAIN tail :
            i + 1 \in DOMAIN batches /\ 1 < i + 1 /\ i \in Nat /\ tail[i] = batches[i + 1]
      /\ Len(tail) = Len(batches) - 1 /\ Len(batches) \in Nat
  BY <1>1, <1>2, RangeTail, Ranges DEF StateInv
<1>4. Range(<<>>) = {} /\ InOrder(<<>>)
  BY DEF Range, InOrder
<1> HIDE DEF head, tail
<1>5. Waiting' = Waiting /\ AddInv'
  BY <1>1, <1>2 DEF Waiting, AddInv
<1>6. /\ Leaving = Range(sent) \cup Range(head) \cup UNION {Range(b) : b \in Range(tail)}
      /\ Range(sending) = {}
  BY <1>1, <1>3, <1>4 DEF Leaving
<1>7. /\ InOrder(head) /\ Before(Range(sent), Range(head))
      /\ \A i \in DOMAIN tail : InOrder(tail[i]) /\ Before(Range(sent), Range(tail[i]))
                                /\ Before(Range(head), Range(tail[i]))
      /\ \A i, j \in DOMAIN tail : i < j => Before(Range(tail[i]), Range(tail[j]))
  <2>1. \A i \in DOMAIN batches : InOrder(batches[i]) /\ Before(Range(sent), Range(batches[i]))
    BY <1>2 DEF OrderInv, Before
  <2>2. \A i, j \in DOMAIN tail : i < j => i + 1 < j + 1
    BY <1>3
  <2> QED
    BY <1>2, <1>3, <2>1, <2>2 DEF OrderInv
<1>8. StateInv'
  <2>1. discarded' \subseteq Snapshots
    BY <1>1, <1>2, <1>3, Ranges DEF StateInv
  <2>2. Len(batches') <= Capacity /\ \A b \in Range(batches') : b # <<>>
    <3>1. Len(batches) <= Capacity /\ \A b \in Range(batches) : b # <<>>
      BY <1>2 DEF StateInv
    <3> QED
      BY <1>1, <1>3, <3>1, PeriodicAssumption
  <2>3. sending' \in Seq(Snapshots)
    BY <1>1, <1>2, <1>3 DEF StateInv
  <2> QED
    BY <1>1, <1>2, <1>3, <2>1, <2>2, <2>3 DEF StateInv
<1>9. Held' = Held
  <2>1. CASE sending' = head /\ discarded' = discarded
    BY <1>1, <1>5, <1>6, <2>1 DEF Held, Leaving
  <2>2. CASE sending' = sending /\ discarded' = discarded \cup Range(head)
    BY <1>1, <1>5, <1>6, <2>2 DEF Held, Leaving
  <2> QED
    BY <1>1, <2>1, <2>2
<1>10. OwnInv'
  BY <1>1, <1>2, <1>9 DEF OwnInv
<1>11. OrderInv'
  <2>1. Leaving' \subseteq Leaving
    BY <1>1, <1>6 DEF Leaving
  <2>2. Before(Leaving', Waiting')
    BY <1>2, <1>5, <2>1 DEF OrderInv, Before
  <2>3. CASE sending' = head /\ discarded' = discarded
    <3>1. \A i \in DOMAIN tail : Before(Range(sent) \cup Range(head), Range(tail[i]))
      BY <1>7 DEF Before
    <3>2. (Leaving' \cup Waiting') \cap discarded' = {}
      BY <1>2, <1>5, <2>1, <2>3 DEF OrderInv
    <3> QED
      BY <1>1, <1>2, <1>7, <2>2, <2>3, <3>1, <3>2 DEF OrderInv
  <2>4. CASE sending' = sending /\ discarded' = discarded \cup Range(head)
    <3>1. \A i \in DOMAIN tail : Before(Range(sent) \cup Range(sending), Range(tail[i]))
      BY <1>6, <1>7 DEF Before
    <3>2. Range(head) \cap (Leaving' \cup Waiting') = {}
      <4>1. /\ Range(sent) \subseteq Snapshots /\ Range(head) \subseteq Snapshots /\ Waiting \subseteq Snapshots
            /\ \A i \in DOMAIN tail : Range(tail[i]) \subseteq Snapshots
            /\ Range(head) \subseteq Leaving
        <5>1. Held \subseteq Snapshots
          BY <1>2, HeldAreSnapshots
        <5> QED
          BY <1>6, <5>1 DEF Held, Range
      <4>2. Range(sent) \cap Range(head) = {} /\ \A i \in DOMAIN tail : Range(head) \cap Range(tail[i]) = {}
        BY <1>7, <4>1, BeforeIsDisjoint
      <4>3. Range(head) \cap Waiting = {}
        <5>1. Before(Range(head), Waiting)
          BY <1>2, <4>1 DEF OrderInv, Before
        <5> QED
          BY <4>1, <5>1, BeforeIsDisjoint
      <4>4. Leaving' = Range(sent) \cup UNION {Range(b) : b \in Range(tail)}
        BY <1>1, <1>6, <2>4 DEF Leaving
      <4>5. \A b \in Range(tail) : Range(head) \cap Range(b) = {}
        BY <4>2 DEF Range
      <4> QED
        BY <1>5, <4>2, <4>3, <4>4, <4>5
    <3>3. (Leaving' \cup Waiting') \cap discarded' = {}
      BY <1>2, <1>5, <2>1, <2>4, <3>2 DEF OrderInv
    <3> QED
      BY <1>1, <1>2, <1>7, <2>2, <2>4, <3>1, <3>3 DEF OrderInv
  <2> QED
    BY <1>1, <2>3, <2>4
<1> QED
  BY <1>5, <1>8, <1>9, <1>10, <1>11 DEF WorkInv

\* The places on the way have no snapshot in common.
LEMMA PlacesAreDisjoint ==
    ASSUME StateInv, OrderInv
    PROVE  /\ Range(sent) \cap Range(sending) = {}
           /\ (Range(sent) \cup Range(sending)) \cap UNION {Range(b) : b \in Range(batches)} = {}
           /\ Leaving \cap Waiting = {}
<1>1. /\ Range(sent) \subseteq Snapshots /\ Range(sending) \subseteq Snapshots
      /\ Leaving \subseteq Snapshots /\ Waiting \subseteq Snapshots
      /\ \A b \in Range(batches) : Range(b) \subseteq Snapshots
  BY HeldAreSnapshots, Ranges DEF Held, Leaving, StateInv
<1>2. Range(sent) \cap Range(sending) = {} /\ Leaving \cap Waiting = {}
  BY <1>1, BeforeIsDisjoint DEF OrderInv
<1>3. \A b \in Range(batches) : (Range(sent) \cup Range(sending)) \cap Range(b) = {}
  <2>1. \A i \in DOMAIN batches : Range(batches[i]) \subseteq Snapshots
    BY <1>1 DEF Range
  <2>2. \A i \in DOMAIN batches : (Range(sent) \cup Range(sending)) \cap Range(batches[i]) = {}
    BY <1>1, <2>1, BeforeIsDisjoint DEF OrderInv
  <2> QED
    BY <2>2 DEF Range
<1> QED
  BY <1>2, <1>3

\* A send ends, with or without the task.
LEMMA SendEnds ==
    ASSUME WorkInv, NEW through \in Through(sending),
           sent' = sent \o through, sending' = <<>>,
           gone' \in BOOLEAN, drop' \in {"no", "join", "returned"},
           UNCHANGED <<clock, observeTimer, exportTimer, wpc, now, stopping, observers, start, seq,
                       series, commands, enabled>>,
           \/ /\ batches' = batches
              /\ discarded' = discarded \cup (Range(sending) \ Range(through))
           \/ /\ batches' = <<>>
              /\ discarded' = discarded \cup (Range(sending) \ Range(through))
                                        \cup UNION {Range(b) : b \in Range(batches)}
    PROVE  WorkInv' /\ Held' = Held
<1> DEFINE lost == Range(sending) \ Range(through)
           queued == UNION {Range(b) : b \in Range(batches)}
<1>1. StateInv /\ AddInv /\ OwnInv /\ OrderInv
  BY DEF WorkInv
<1>2. sent \in Seq(Snapshots) /\ sending \in Seq(Snapshots)
  BY <1>1 DEF StateInv
<1>3. /\ through \in Seq(Snapshots) /\ Range(through) \subseteq Range(sending)
      /\ InOrder(through)
  BY <1>1, <1>2, ThroughFacts DEF OrderInv
<1>4. Before(Range(sent), Range(through))
  BY <1>1, <1>3 DEF OrderInv, Before
<1>5. sent' \in Seq(Snapshots) /\ InOrder(sent') /\ Range(sent') = Range(sent) \cup Range(through)
  <2>1. InOrder(sent)
    BY <1>1 DEF OrderInv
  <2> QED
    BY <1>2, <1>3, <1>4, <2>1, ConcatOrder
<1>6. Range(sending') = {} /\ InOrder(sending') /\ sending' \in Seq(Snapshots)
  BY DEF Range, InOrder
<1>7. Waiting' = Waiting /\ AddInv'
  BY <1>1 DEF Waiting, AddInv
<1>8. /\ Range(sent) \cap Range(sending) = {}
      /\ (Range(sent) \cup Range(sending)) \cap queued = {}
      /\ Leaving \cap Waiting = {} /\ Leaving = Range(sent) \cup Range(sending) \cup queued
      /\ (Leaving \cup Waiting) \cap discarded = {}
  BY <1>1, PlacesAreDisjoint DEF Leaving, OrderInv
<1>9. Held = Range(sent) \cup Range(sending) \cup queued \cup Waiting \cup discarded
  BY DEF Held, Leaving
<1>10. Held \subseteq Snapshots
  BY <1>1, HeldAreSnapshots
<1>11. CASE batches' = batches /\ discarded' = discarded \cup lost
  <2>1. Leaving' = Range(sent) \cup Range(through) \cup queued
    BY <1>5, <1>6, <1>11 DEF Leaving
  <2> HIDE DEF queued
  <2>2. Held' = Held
    BY <1>3, <1>7, <1>9, <1>11, <2>1 DEF Held
  <2>3. StateInv'
    <3>1. discarded' \subseteq Snapshots
      BY <1>9, <1>10, <1>11
    <3> QED
      BY <1>1, <1>5, <1>6, <1>11, <3>1 DEF StateInv
  <2>4. OwnInv'
    BY <1>1, <2>2 DEF OwnInv
  <2>5. OrderInv'
    <3>1. \A i \in DOMAIN batches : Before(Range(sent') \cup Range(sending'), Range(batches[i]))
      BY <1>1, <1>3, <1>5, <1>6 DEF OrderInv, Before
    <3>2. Before(Leaving', Waiting')
      <4>1. Leaving' \subseteq Leaving
        BY <1>3, <1>8, <2>1
      <4> QED
        BY <1>1, <1>7, <4>1 DEF OrderInv, Before
    <3>3. (Leaving' \cup Waiting') \cap discarded' = {}
      BY <1>3, <1>7, <1>8, <1>11, <2>1
    <3>4. Before(Range(sent'), Range(sending'))
      BY <1>6 DEF Before
    <3> QED
      BY <1>1, <1>5, <1>6, <1>11, <3>1, <3>2, <3>3, <3>4 DEF OrderInv
  <2> QED
    BY <1>7, <2>2, <2>3, <2>4, <2>5 DEF WorkInv
<1>12. CASE batches' = <<>> /\ discarded' = discarded \cup lost \cup queued
  <2>1. /\ batches' \in Seq(Seq(Snapshots)) /\ Range(batches') = {} /\ DOMAIN batches' = {}
        /\ Len(batches') <= Capacity
    BY <1>12, PeriodicAssumption DEF Range
  <2>2. Leaving' = Range(sent) \cup Range(through)
    BY <1>5, <1>6, <2>1 DEF Leaving
  <2> HIDE DEF queued
  <2>3. Held' = Held
    BY <1>3, <1>7, <1>9, <1>12, <2>2 DEF Held
  <2>4. StateInv'
    <3>1. discarded' \subseteq Snapshots
      BY <1>9, <1>10, <1>12
    <3> QED
      BY <1>1, <1>5, <1>6, <2>1, <3>1 DEF StateInv
  <2>5. OwnInv'
    BY <1>1, <2>3 DEF OwnInv
  <2>6. OrderInv'
    <3>1. Before(Leaving', Waiting')
      <4>1. Leaving' \subseteq Leaving
        BY <1>3, <1>8, <2>2
      <4> QED
        BY <1>1, <1>7, <4>1 DEF OrderInv, Before
    <3>2. (Leaving' \cup Waiting') \cap discarded' = {}
      BY <1>3, <1>7, <1>8, <1>12, <2>2
    <3>3. Before(Range(sent'), Range(sending'))
      BY <1>6 DEF Before
    <3> QED
      BY <1>1, <1>5, <1>6, <2>1, <3>1, <3>2, <3>3 DEF OrderInv
  <2> QED
    BY <1>7, <2>3, <2>4, <2>5, <2>6 DEF WorkInv
<1> QED
  BY <1>11, <1>12

LEMMA SendSteps ==
    ASSUME WorkInv, Send \/ TaskDies \/ Joined
    PROVE  WorkInv' /\ Held' = Held
<1>1. gone \in BOOLEAN /\ drop \in {"no", "join", "returned"}
  BY DEF WorkInv, StateInv
<1>2. CASE Send
  <2>1. PICK through \in Through(sending) :
           /\ sent' = sent \o through
           /\ discarded' = discarded \cup (Range(sending) \ Range(through))
    BY <1>2 DEF Send
  <2>2. /\ sending' = <<>> /\ batches' = batches
        /\ UNCHANGED <<clock, observeTimer, exportTimer, wpc, now, stopping, observers, start, seq,
                       series, commands, gone, enabled, drop>>
    BY <1>2 DEF Send, worker
  <2> QED
    BY <1>1, <2>1, <2>2, SendEnds
<1>3. CASE TaskDies \/ Joined
  <2>1. EndTask /\ drop' \in {"no", "join", "returned"}
    BY <1>1, <1>3 DEF TaskDies, Joined
  <2>2. PICK through \in Through(sending) :
           /\ sent' = sent \o through
           /\ discarded' = discarded \cup (Range(sending) \ Range(through))
                               \cup UNION {Range(b) : b \in Range(batches)}
    BY <2>1 DEF EndTask
  <2>3. /\ sending' = <<>> /\ batches' = <<>> /\ gone' = TRUE
        /\ UNCHANGED <<clock, observeTimer, exportTimer, wpc, now, stopping, observers, start, seq,
                       series, commands, enabled>>
    BY <2>1 DEF EndTask, worker
  <2> QED
    BY <2>1, <2>2, <2>3, SendEnds
<1> QED
  BY <1>2, <1>3

-----------------------------------------------------------------------------
(* The way out                                                             *)

LEMMA InitWork ==
    ASSUME Init
    PROVE  WorkInv /\ Held = {}
<1>1. Range(<<>>) = {} /\ DOMAIN <<>> = {} /\ InOrder(<<>>) /\ Len(<<>>) = 0
  BY DEF Range, InOrder
<1>2. Leaving = {} /\ Waiting = {} /\ Held = {}
  BY <1>1 DEF Init, Leaving, Waiting, Held
<1>3. StateInv
  <2>1. series \in [Observers -> Seq(Snapshots)] /\ start \in [Observers -> Nat] /\ seq \in [Observers -> Nat]
    <3>1. <<>> \in Seq(Snapshots)
      OBVIOUS
    <3> QED
      BY <3>1 DEF Init
  <2>2. observers \in Seq(Observers) /\ IsInjective(observers)
    BY DEF Init, IsInjective
  <2>3. /\ commands \in Seq(Observers \cup {Shutdown}) /\ batches \in Seq(Seq(Snapshots))
        /\ sending \in Seq(Snapshots) /\ sent \in Seq(Snapshots)
    BY DEF Init
  <2>4. Len(batches) <= Capacity /\ \A b \in Range(batches) : b # <<>>
    BY <1>1, PeriodicAssumption DEF Init
  <2> QED
    BY <2>1, <2>2, <2>3, <2>4 DEF Init, StateInv
<1>4. AddInv
  BY <1>1 DEF Init, AddInv
<1>5. OwnInv
  BY <1>1, <1>2 DEF Init, OwnInv
<1>6. OrderInv
  BY <1>1, <1>2 DEF Init, OrderInv, Before
<1> QED
  BY <1>2, <1>3, <1>4, <1>5, <1>6 DEF WorkInv

LEMMA WorkStep ==
    ASSUME WorkInv, [Next]_vars
    PROVE  WorkInv' /\ Held \subseteq Held'
<1>1. CASE \/ Pass \/ AdvanceObserve \/ ExportNotDue \/ AdvanceExport \/ Receive
           \/ NoMoreCommands \/ Toggle \/ UNCHANGED vars
  BY <1>1, QuietSteps
<1>2. CASE HandleShutdown \/ Drop \/ \E o \in Observers : Add(o)
  BY <1>2, CommandSteps
<1>3. CASE HandleAdd
  BY <1>3, AddStep
<1>4. CASE Observe
  BY <1>4, ObserveStep
<1>5. CASE Export
  BY <1>5, ExportStep
<1>6. CASE ReceiveBatch
  BY <1>6, ReceiveStep
<1>7. CASE Send \/ TaskDies \/ Joined
  BY <1>7, SendSteps
<1> QED
  BY <1>1, <1>2, <1>3, <1>4, <1>5, <1>6, <1>7 DEF Next, WorkerStep

\* The places of the collector hold what a snapshot's way out allows, after
\* any steps of the worker, the sender and the callers: the invariant the
\* theorems below rest on.
THEOREM WorkInvariance == Safety => []WorkInv
<1>1. Init => WorkInv
  BY InitWork
<1>2. WorkInv /\ [Next]_vars => WorkInv'
  BY WorkStep
<1> QED
  BY <1>1, <1>2, PTL DEF Safety

\* Every variable of the periodic collector keeps its type, for any observers,
\* periods and capacity; an observer is added once and the channel keeps its
\* bound.
THEOREM TypeCorrect == Safety => []TypeOK
<1>1. ASSUME StateInv PROVE TypeOK
  <2>1. Range(observers) \subseteq Observers /\ Range(commands) \subseteq Observers \cup {Shutdown}
    BY <1>1, Ranges DEF StateInv
  <2>2. Range(sending) \subseteq Snapshots /\ Range(sent) \subseteq Snapshots
    BY <1>1, Ranges DEF StateInv
  <2>3. \A o \in Observers : Range(series[o]) \subseteq Snapshots
    BY <1>1, Ranges DEF StateInv
  <2>4. \A b \in Range(batches) : Range(b) \subseteq Snapshots
    BY <1>1, Ranges DEF StateInv
  <2> QED
    BY <1>1, <2>1, <2>2, <2>3, <2>4 DEF StateInv, TypeOK
<1> QED
  BY <1>1, WorkInvariance, PTL DEF WorkInv

\* An observer's snapshots leave in the order they were taken, none twice and
\* none that was discarded, whatever batches the channel refuses, the gate
\* drops and the sender loses.
THEOREM LeaveInOrder == Safety => []LeaveInOrderAndOnce
<1>1. ASSUME WorkInv PROVE LeaveInOrderAndOnce
  <2> DEFINE f == FlattenSeq(batches)
             q == sent \o sending
  <2>1. StateInv /\ OwnInv /\ OrderInv
    BY <1>1 DEF WorkInv
  <2>2. /\ sent \in Seq(Snapshots) /\ sending \in Seq(Snapshots) /\ batches \in Seq(Seq(Snapshots))
    BY <2>1 DEF StateInv
  <2>3. q \in Seq(Snapshots) /\ Range(q) = Range(sent) \cup Range(sending) /\ InOrder(q)
    BY <2>1, <2>2, ConcatOrder DEF OrderInv
  <2>4. f \in Seq(Snapshots) /\ Range(f) = UNION {Range(b) : b \in Range(batches)} /\ InOrder(f)
    BY <2>1, <2>2, FlattenOrder DEF OrderInv
  <2> HIDE DEF f, q
  <2>5. Before(Range(q), Range(f))
    <3>1. \A b \in Range(batches) : Before(Range(sent) \cup Range(sending), Range(b))
      BY <2>1 DEF OrderInv, Range
    <3> QED
      BY <2>3, <2>4, <3>1 DEF Before
  <2>6. Queue \in Seq(Snapshots) /\ Range(Queue) = Leaving /\ InOrder(Queue)
    <3>1. Queue = q \o f
      BY DEF Queue, q, f
    <3>2. /\ q \o f \in Seq(Snapshots) /\ Range(q \o f) = Range(q) \cup Range(f)
          /\ InOrder(q \o f)
      BY <2>3, <2>4, <2>5, ConcatOrder
    <3> QED
      BY <2>3, <2>4, <3>1, <3>2 DEF Leaving
  <2> SUFFICES ASSUME NEW o \in Observers
               PROVE  /\ InOrder(Queue \o series[o])
                      /\ Range(Queue \o series[o]) \cap discarded = {}
    BY DEF LeaveInOrderAndOnce
  <2>7. /\ series[o] \in Seq(Snapshots) /\ InOrder(series[o])
        /\ Range(series[o]) \subseteq Waiting
    BY <2>1 DEF StateInv, OrderInv, Waiting
  <2>8. Before(Range(Queue), Range(series[o]))
    BY <2>1, <2>6, <2>7 DEF OrderInv, Before
  <2>9. /\ InOrder(Queue \o series[o])
        /\ Range(Queue \o series[o]) = Range(Queue) \cup Range(series[o])
    BY <2>6, <2>7, <2>8, ConcatOrder
  <2> QED
    BY <2>1, <2>6, <2>7, <2>9 DEF OrderInv
<1> QED
  BY <1>1, WorkInvariance, PTL

\* A recorded snapshot does not vanish: what leaves the series, the channel or
\* the sender was sent, or is counted among what the collector drops.
THEOREM NoneVanishes == Safety => NothingVanishes
<1>1. WorkInv => All = Held
  BY AllIsHeld DEF WorkInv
<1>2. WorkInv /\ All = Held /\ (All = Held)' /\ [Next]_vars => [All \subseteq All']_vars
  <2>1. WorkInv /\ [Next]_vars => Held \subseteq Held'
    BY WorkStep
  <2> QED
    BY <2>1
<1> QED
  BY <1>1, <1>2, WorkInvariance, PTL DEF Safety, NothingVanishes

-----------------------------------------------------------------------------
(* The grid                                                                *)

\* The next tick is an Instant, as it is on a machine that does not run for
\* centuries: next does not fall back.
TicksAreInstants == MaxTime + PollPeriod <= MaxInstant

Tick(s) == (s.ts - StartSystem) \div PollPeriod

\* The deadline is a tick.  Until an observation that has begun advances it,
\* the observers are one period ahead.
GridInv ==
    /\ clock <= MaxTime /\ now <= clock
    /\ \E k \in Nat : observeTimer = PollPeriod * k
    /\ wpc = "observed" => observeTimer <= now
    /\ \A s \in Held : s.ts >= StartSystem
    /\ \A s \in Held : \/ s.ts < StartSystem + observeTimer
                       \/ wpc = "observed" /\ s.ts <= StartSystem + now
    /\ \A s, t \in Held : s.by = t.by /\ s # t => Tick(s) # Tick(t)
    /\ \A o \in Range(observers) :
         start[o] + PollPeriod * seq[o]
            <= StartSystem + observeTimer + (IF wpc = "observed" THEN PollPeriod ELSE 0)
    /\ \A s \in Held : align_ts(s) <= s.ts

LEMMA Ticks ==
    ASSUME NEW p \in Nat \ {0}, NEW k \in Nat, NEW a \in Nat
    PROVE  /\ a \div p \in Nat /\ p * k \in Nat /\ p * (k + 1) = p * k + p
           /\ a < p * k <=> a \div p < k
           /\ (a \div p + 1) * p = p * (a \div p + 1)
           /\ a < (a \div p + 1) * p
           /\ (a \div p + 1) * p <= a + p
           /\ p * k <= a => p * k + p <= (a \div p + 1) * p
<1> DEFINE q == a \div p
<1>1. q \in Nat /\ p * q <= a /\ a < p * q + p
  OBVIOUS
<1>2. a < p * k <=> q < k
  OBVIOUS
<1> HIDE DEF q
<1>3. p * k \in Nat /\ p * (k + 1) = p * k + p
  OBVIOUS
<1>4. (q + 1) * p = p * q + p /\ p * (q + 1) = p * q + p /\ p * q \in Nat
  BY <1>1
<1>5. k <= q => p * k <= p * q
  BY <1>1
<1>6. p * k <= a => k <= q
  BY <1>1, <1>2, <1>3
<1> QED
  BY <1>1, <1>2, <1>3, <1>4, <1>5, <1>6 DEF q

LEMMA NextIsTick ==
    ASSUME TicksAreInstants, NEW deadline, NEW at \in Nat, at <= MaxTime
    PROVE  next(deadline, PollPeriod, at) = (at \div PollPeriod + 1) * PollPeriod
<1>1. PollPeriod \in Nat \ {0} /\ MaxTime \in Nat /\ MaxInstant \in Nat
  BY PeriodicAssumption
<1> DEFINE tick == (at \div PollPeriod + 1) * PollPeriod
<1>2. tick <= at + PollPeriod /\ tick \in Nat
  BY <1>1, Ticks
<1>3. tick <= MaxInstant
  <2> HIDE DEF tick
  <2> QED
    BY <1>1, <1>2 DEF TicksAreInstants
<1> QED
  BY <1>3 DEF next

\* A step that moves neither the observers' grid nor what is held.
LEMMA GridKeeps ==
    ASSUME GridInv, Held' = Held, clock' <= MaxTime, now' <= clock',
           UNCHANGED <<observeTimer, observers, start, seq>>,
           \/ wpc # "observed" /\ wpc' # "observed"
           \/ wpc' = wpc /\ now' = now
    PROVE  GridInv'
<1>1. \A s \in Held : align_ts(s)' = align_ts(s)
  BY DEF align_ts
<1>2. wpc' = "observed" => observeTimer' <= now'
  BY DEF GridInv
<1>3. \A s \in Held : \/ s.ts < StartSystem + observeTimer
                      \/ wpc' = "observed" /\ s.ts <= StartSystem + now'
  BY DEF GridInv
<1>4. \A o \in Range(observers) :
         start[o] + PollPeriod * seq[o]
            <= StartSystem + observeTimer + (IF wpc' = "observed" THEN PollPeriod ELSE 0)
  BY DEF GridInv
<1>5. \A s, t \in Held : s.by = t.by /\ s # t => Tick(s) # Tick(t)
  BY DEF GridInv
<1>6. \A s \in Held : s.ts >= StartSystem /\ start[s.by] + PollPeriod * s.seq_id <= s.ts
  BY DEF GridInv, align_ts
<1>7. \E k \in Nat : observeTimer = PollPeriod * k
  BY DEF GridInv
<1> QED
  BY <1>2, <1>3, <1>4, <1>5, <1>6, <1>7 DEF GridInv, Tick, align_ts

LEMMA GridAdvance ==
    ASSUME TicksAreInstants, WorkInv, GridInv, AdvanceObserve
    PROVE  GridInv'
<1>1. /\ wpc = "observed" /\ wpc' = "export"
      /\ observeTimer' = next(observeTimer, PollPeriod, clock)
      /\ UNCHANGED <<clock, now, observers, start, seq>> /\ Held' = Held
  BY QuietSteps DEF AdvanceObserve
<1>2. /\ clock \in Nat /\ now \in Nat /\ observeTimer \in Nat /\ clock <= MaxTime
      /\ now <= clock /\ observeTimer <= now /\ StateInv
  BY <1>1 DEF WorkInv, StateInv, GridInv
<1>3. PollPeriod \in Nat \ {0} /\ StartSystem \in Nat
  BY PeriodicAssumption
<1>4. PICK k \in Nat : observeTimer = PollPeriod * k
  BY DEF GridInv
<1> DEFINE q == clock \div PollPeriod
<1>5. /\ observeTimer' = PollPeriod * (q + 1) /\ q + 1 \in Nat
      /\ clock < observeTimer' /\ observeTimer + PollPeriod <= observeTimer' /\ observeTimer' \in Nat
  <2>1. observeTimer' = (q + 1) * PollPeriod
    BY <1>1, <1>2, NextIsTick
  <2>2. PollPeriod * k <= clock
    BY <1>2, <1>4
  <2>3. /\ q \in Nat /\ (q + 1) * PollPeriod = PollPeriod * (q + 1) /\ clock < (q + 1) * PollPeriod
        /\ PollPeriod * k + PollPeriod <= (q + 1) * PollPeriod
    BY <1>2, <1>3, <2>2, Ticks
  <2>4. (q + 1) * PollPeriod \in Nat
    BY <1>3, <2>3
  <2> HIDE DEF q
  <2> QED
    BY <1>4, <2>1, <2>3, <2>4
<1> HIDE DEF q
<1>6. \A s \in Held : s.ts < StartSystem + observeTimer'
  <2> SUFFICES ASSUME NEW s \in Held PROVE s.ts < StartSystem + observeTimer'
    OBVIOUS
  <2>1. s.ts \in Nat
    BY <1>2, HeldAreSnapshots DEF Snapshots
  <2>2. s.ts < StartSystem + observeTimer \/ s.ts <= StartSystem + now
    BY DEF GridInv
  <2> QED
    BY <1>2, <1>3, <1>5, <2>1, <2>2
<1>7. \A o \in Range(observers) : start[o] + PollPeriod * seq[o] <= StartSystem + observeTimer'
  <2> SUFFICES ASSUME NEW o \in Range(observers)
               PROVE  start[o] + PollPeriod * seq[o] <= StartSystem + observeTimer'
    OBVIOUS
  <2>1. start[o] \in Nat /\ seq[o] \in Nat
    BY <1>2, Ranges DEF StateInv
  <2>2. start[o] + PollPeriod * seq[o] <= StartSystem + observeTimer + PollPeriod
    BY <1>1 DEF GridInv
  <2>3. PollPeriod * seq[o] \in Nat
    BY <1>3, <2>1
  <2> QED
    BY <1>2, <1>3, <1>5, <2>1, <2>2, <2>3
<1>8. \A s, t \in Held : s.by = t.by /\ s # t => Tick(s) # Tick(t)
  BY DEF GridInv
<1>9. \A s \in Held : s.ts >= StartSystem /\ start[s.by] + PollPeriod * s.seq_id <= s.ts
  BY DEF GridInv, align_ts
<1>10. \E n \in Nat : observeTimer' = PollPeriod * n
  BY <1>5
<1>11. \A o \in Range(observers) :
         start[o] + PollPeriod * seq[o] <= StartSystem + observeTimer' + 0
  BY <1>3, <1>5, <1>7
<1> QED
  BY <1>1, <1>2, <1>6, <1>8, <1>9, <1>10, <1>11 DEF GridInv, Tick, align_ts

LEMMA GridAdd ==
    ASSUME WorkInv, GridInv, HandleAdd
    PROVE  GridInv'
<1> DEFINE o == Head(commands)
<1>1. /\ wpc = "commands" /\ wpc' = wpc /\ o # Shutdown /\ commands # <<>>
      /\ start' = [start EXCEPT ![o] = at_system(observeTimer)]
      /\ seq' = [seq EXCEPT ![o] = 0]
      /\ observers' = Append(observers, o)
      /\ UNCHANGED <<clock, observeTimer, now>> /\ Held' = Held
  BY AddStep DEF HandleAdd
<1>2. StateInv /\ AddInv /\ OwnInv
  BY DEF WorkInv
<1>3. o \in Observers /\ o \in Range(commands)
  BY <1>1, <1>2, RangeTail DEF StateInv
<1>4. o \notin Range(observers) /\ observers \in Seq(Observers)
  BY <1>2, <1>3 DEF AddInv, StateInv
<1> HIDE DEF o
<1>5. Range(observers') = Range(observers) \cup {o} /\ Range(observers) \subseteq Observers
  <2> DEFINE w == <<o>>
  <2>1. w \in Seq(Observers) /\ Range(w) = {o} /\ Append(observers, o) = observers \o w
    BY <1>3, <1>4, AppendIsConcat DEF Range
  <2> HIDE DEF w
  <2>2. Range(observers \o w) = Range(observers) \cup {o}
    BY <1>4, <2>1, RangeConcatenation
  <2>3. Range(observers) \subseteq Observers
    BY <1>4, Ranges
  <2> QED
    BY <1>1, <2>1, <2>2, <2>3
<1>6. start'[o] = StartSystem + observeTimer /\ seq'[o] = 0
  BY <1>1, <1>2, <1>3 DEF StateInv, at_system
<1>7. \A u \in Range(observers) : start'[u] = start[u] /\ seq'[u] = seq[u]
  BY <1>1, <1>2, <1>4, <1>5 DEF StateInv
<1>8. PollPeriod \in Nat /\ StartSystem \in Nat /\ observeTimer \in Nat
  BY <1>2, PeriodicAssumption DEF StateInv
<1>9. \A u \in Range(observers') :
         start'[u] + PollPeriod * seq'[u] <= StartSystem + observeTimer + 0
  <2>1. start'[o] + PollPeriod * seq'[o] <= StartSystem + observeTimer + 0
    BY <1>6, <1>8
  <2>2. \A u \in Range(observers) : start[u] + PollPeriod * seq[u] <= StartSystem + observeTimer + 0
    BY <1>1 DEF GridInv
  <2> QED
    BY <1>5, <1>7, <2>1, <2>2
<1>10. \A s \in Held : start'[s.by] + PollPeriod * s.seq_id <= s.ts
  BY <1>2, <1>7 DEF OwnInv, GridInv, align_ts
<1> QED
  BY <1>1, <1>9, <1>10 DEF GridInv, Tick, align_ts

LEMMA GridObserve ==
    ASSUME WorkInv, GridInv, Observe
    PROVE  GridInv'
<1>1. /\ wpc = "loop" /\ now' = clock
      /\ UNCHANGED <<clock, observeTimer, observers, start>>
  BY DEF Observe
<1>2. StateInv /\ OwnInv /\ clock \in Nat /\ observeTimer \in Nat /\ clock <= MaxTime
  BY DEF WorkInv, StateInv, GridInv
<1>3. PollPeriod \in Nat \ {0} /\ StartSystem \in Nat
  BY PeriodicAssumption
<1>4. CASE Held' = Held /\ seq' = seq /\ wpc' = "export"
  <2>1. now' <= clock'
    BY <1>1, <1>2
  <2> QED
    BY <1>1, <1>2, <1>4, <2>1, GridKeeps
<1>5. ASSUME due(observeTimer, clock), wpc' = "observed",
             seq' = [o \in Observers |-> IF o \in Range(observers) THEN seq[o] + 1 ELSE seq[o]],
             NEW records \in SUBSET Range(observers),
             Held' = Held \cup {Recorded(o) : o \in records}
      PROVE  GridInv'
  <2>1. observeTimer <= clock
    BY <1>2, <1>5 DEF due
  <2>2. PICK k \in Nat : observeTimer = PollPeriod * k
    BY DEF GridInv
  <2>3. \A s \in Held : /\ s.ts \in Nat /\ s.ts >= StartSystem /\ s.ts < StartSystem + observeTimer
                        /\ align_ts(s) <= s.ts
    <3>1. Held \subseteq Snapshots
      BY <1>2, HeldAreSnapshots
    <3> QED
      BY <1>1, <3>1 DEF GridInv, Snapshots
  <2>4. \A o \in Range(observers) : /\ o \in Observers /\ start[o] \in Nat /\ seq[o] \in Nat
                                    /\ start[o] + PollPeriod * seq[o] <= StartSystem + observeTimer
    <3>1. \A o \in Range(observers) : o \in Observers /\ start[o] \in Nat /\ seq[o] \in Nat
      BY <1>2, Ranges DEF StateInv
    <3>2. \A o \in Range(observers) : start[o] + PollPeriod * seq[o] <= StartSystem + observeTimer + 0
      BY <1>1 DEF GridInv
    <3> QED
      BY <1>2, <1>3, <3>1, <3>2
  <2>5. \A o \in records : /\ Recorded(o).by = o /\ Recorded(o).seq_id = seq[o]
                           /\ Recorded(o).ts = StartSystem + clock
    BY DEF Recorded, at_system
  <2> HIDE DEF Recorded
  <2>6. \A s \in Held' : s.ts >= StartSystem
    BY <1>2, <1>3, <1>5, <2>3, <2>5
  <2>7. \A s \in Held' : s.ts < StartSystem + observeTimer \/ s.ts <= StartSystem + clock
    BY <1>2, <1>3, <1>5, <2>3, <2>5
  <2>8. \A s \in Held : Tick(s) < k
    <3> SUFFICES ASSUME NEW s \in Held PROVE Tick(s) < k
      OBVIOUS
    <3>1. s.ts - StartSystem \in Nat /\ s.ts - StartSystem < PollPeriod * k
      BY <1>2, <1>3, <2>2, <2>3
    <3> QED
      BY <1>3, <3>1, Ticks DEF Tick
  <2>9. \A o \in records : ~ (Tick(Recorded(o)) < k)
    <3> SUFFICES ASSUME NEW o \in records PROVE ~ (Tick(Recorded(o)) < k)
      OBVIOUS
    <3>1. Recorded(o).ts - StartSystem = clock
      BY <1>2, <1>3, <2>5
    <3>2. ~ (clock < PollPeriod * k)
      BY <1>2, <2>1, <2>2
    <3> QED
      BY <1>2, <1>3, <3>1, <3>2, Ticks DEF Tick
  <2>10. \A s, t \in Held' : s.by = t.by /\ s # t => Tick(s) # Tick(t)
    <3> SUFFICES ASSUME NEW s \in Held', NEW t \in Held', s.by = t.by, s # t
                 PROVE  Tick(s) # Tick(t)
      OBVIOUS
    <3>1. CASE s \in Held /\ t \in Held
      BY <3>1 DEF GridInv
    <3>2. CASE s \in Held /\ t \notin Held
      BY <1>5, <2>8, <2>9, <3>2
    <3>3. CASE s \notin Held /\ t \in Held
      BY <1>5, <2>8, <2>9, <3>3
    <3>4. CASE s \notin Held /\ t \notin Held
      BY <1>5, <2>5, <3>4
    <3> QED
      BY <3>1, <3>2, <3>3, <3>4
  <2>11. \A o \in Range(observers) :
           start[o] + PollPeriod * seq'[o] <= StartSystem + observeTimer + PollPeriod
    <3> SUFFICES ASSUME NEW o \in Range(observers)
                 PROVE  start[o] + PollPeriod * seq'[o] <= StartSystem + observeTimer + PollPeriod
      OBVIOUS
    <3>1. /\ o \in Observers /\ start[o] \in Nat /\ seq[o] \in Nat /\ seq'[o] = seq[o] + 1
          /\ start[o] + PollPeriod * seq[o] <= StartSystem + observeTimer
      BY <1>5, <2>4
    <3>2. PollPeriod * (seq[o] + 1) = PollPeriod * seq[o] + PollPeriod /\ PollPeriod * seq[o] \in Nat
      BY <1>3, <3>1, Ticks
    <3> QED
      BY <1>2, <1>3, <3>1, <3>2
  <2>12. \A s \in Held' : start[s.by] + PollPeriod * s.seq_id <= s.ts
    <3>1. \A s \in Held : start[s.by] + PollPeriod * s.seq_id <= s.ts
      BY <2>3 DEF align_ts
    <3>2. ASSUME NEW o \in records
          PROVE  start[Recorded(o).by] + PollPeriod * Recorded(o).seq_id <= Recorded(o).ts
      <4>1. o \in Range(observers)
        OBVIOUS
      <4>2. start[o] \in Nat /\ seq[o] \in Nat /\ start[o] + PollPeriod * seq[o] <= StartSystem + observeTimer
        BY <2>4, <4>1
      <4>3. PollPeriod * seq[o] \in Nat
        BY <1>3, <4>2
      <4>4. start[o] + PollPeriod * seq[o] <= StartSystem + clock
        BY <1>2, <1>3, <2>1, <4>2, <4>3
      <4> QED
        BY <2>5, <4>4
    <3> QED
      BY <1>5, <3>1, <3>2
  <2>13. \E n \in Nat : observeTimer = PollPeriod * n
    BY <2>2
  <2>14. clock <= clock
    BY <1>2
  <2> QED
    BY <1>1, <1>2, <1>5, <2>1, <2>6, <2>7, <2>10, <2>11, <2>12, <2>13, <2>14
       DEF GridInv, Tick, align_ts
<1>6. \/ Held' = Held /\ seq' = seq /\ wpc' = "export"
      \/ /\ due(observeTimer, clock) /\ wpc' = "observed"
         /\ seq' = [o \in Observers |-> IF o \in Range(observers) THEN seq[o] + 1 ELSE seq[o]]
         /\ \E records \in SUBSET Range(observers) :
               Held' = Held \cup {Recorded(o) : o \in records}
  BY ObserveStep
<1> QED
  BY <1>4, <1>5, <1>6

LEMMA GridStep ==
    ASSUME TicksAreInstants, WorkInv, GridInv, [Next]_vars
    PROVE  GridInv'
<1>1. clock \in Nat /\ now \in Nat /\ clock <= MaxTime /\ now <= clock /\ MaxTime \in Nat
  BY PeriodicAssumption DEF WorkInv, StateInv, GridInv
<1>2. CASE Observe
  BY <1>2, GridObserve
<1>3. CASE AdvanceObserve
  BY <1>3, GridAdvance
<1>4. CASE HandleAdd
  BY <1>4, GridAdd
<1>5. CASE Pass
  <2>1. /\ clock' = clock + 1 /\ clock < MaxTime
        /\ UNCHANGED <<observeTimer, observers, start, seq, wpc, now>>
    BY <1>5 DEF Pass, worker
  <2>2. clock' <= MaxTime /\ now' <= clock' /\ Held' = Held
    BY <1>1, <1>5, <2>1, QuietSteps
  <2> QED
    BY <2>1, <2>2, GridKeeps
<1>6. CASE ExportNotDue \/ AdvanceExport \/ Receive \/ NoMoreCommands
  <2>1. /\ UNCHANGED <<clock, observeTimer, observers, start, seq, now>>
        /\ wpc # "observed" /\ wpc' # "observed"
    BY <1>6 DEF ExportNotDue, AdvanceExport, Receive, NoMoreCommands, AfterExport
  <2>2. Held' = Held
    BY <1>6, QuietSteps
  <2> QED
    BY <1>1, <2>1, <2>2, GridKeeps
<1>7. CASE Toggle \/ UNCHANGED vars
  <2>1. UNCHANGED <<clock, observeTimer, observers, start, seq, now, wpc>>
    BY <1>7 DEF Toggle, vars, worker
  <2>2. Held' = Held
    BY <1>7, QuietSteps
  <2> QED
    BY <1>1, <2>1, <2>2, GridKeeps
<1>8. CASE HandleShutdown
  <2>1. /\ UNCHANGED <<clock, observeTimer, observers, start, seq>>
        /\ now' = clock /\ wpc # "observed" /\ wpc' # "observed"
    BY <1>8 DEF HandleShutdown
  <2>2. Held' = Held
    BY <1>8, CommandSteps
  <2>3. now' <= clock'
    BY <1>1, <2>1
  <2> QED
    BY <1>1, <2>1, <2>2, <2>3, GridKeeps
<1>9. CASE Drop \/ \E o \in Observers : Add(o)
  <2>1. UNCHANGED <<clock, observeTimer, observers, start, seq, now, wpc>>
    BY <1>9 DEF Drop, Add, worker
  <2>2. Held' = Held
    BY <1>9, CommandSteps
  <2> QED
    BY <1>1, <2>1, <2>2, GridKeeps
<1>10. CASE Export
  <2>1. /\ UNCHANGED <<clock, observeTimer, observers, start, seq, now>>
        /\ wpc # "observed" /\ wpc' # "observed"
    BY <1>10 DEF Export
  <2>2. Held' = Held
    BY <1>10, ExportStep
  <2> QED
    BY <1>1, <2>1, <2>2, GridKeeps
<1>11. CASE ReceiveBatch
  <2>1. UNCHANGED <<clock, observeTimer, observers, start, seq, now, wpc>>
    BY <1>11 DEF ReceiveBatch, worker
  <2>2. Held' = Held
    BY <1>11, ReceiveStep
  <2> QED
    BY <1>1, <2>1, <2>2, GridKeeps
<1>12. CASE Send \/ TaskDies \/ Joined
  <2>1. UNCHANGED <<clock, observeTimer, observers, start, seq, now, wpc>>
    BY <1>12 DEF Send, TaskDies, Joined, EndTask, worker
  <2>2. Held' = Held
    BY <1>12, SendSteps
  <2> QED
    BY <1>1, <2>1, <2>2, GridKeeps
<1> QED
  BY <1>2, <1>3, <1>4, <1>5, <1>6, <1>7, <1>8, <1>9, <1>10, <1>11, <1>12 DEF Next, WorkerStep

\* The deadline of the observations stays on the grid and the observers are
\* in step with it, however late the worker runs: the invariant of the two
\* theorems below.
THEOREM GridInvariance == TicksAreInstants /\ Safety => []GridInv
<1>1. Init => GridInv
  <2> SUFFICES ASSUME Init PROVE GridInv
    OBVIOUS
  <2>1. Held = {} /\ Range(observers) = {}
    <3>1. Held = {}
      BY InitWork
    <3>2. observers = <<>> /\ Range(<<>>) = {}
      BY DEF Init, Range
    <3> QED
      BY <3>1, <3>2
  <2>2. \E k \in Nat : observeTimer = PollPeriod * k
    <3>1. PollPeriod * 0 = 0 /\ 0 \in Nat
      BY PeriodicAssumption
    <3> QED
      BY <3>1 DEF Init
  <2>3. clock <= MaxTime /\ now <= clock
    BY PeriodicAssumption DEF Init
  <2>4. wpc # "observed"
    BY DEF Init
  <2> QED
    BY <2>1, <2>2, <2>3, <2>4 DEF GridInv
<1>2. TicksAreInstants /\ WorkInv /\ GridInv /\ [Next]_vars => GridInv'
  BY GridStep
<1>3. TicksAreInstants => [](TicksAreInstants)
  <2>1. TicksAreInstants => TicksAreInstants'
    BY DEF TicksAreInstants
  <2> QED
    BY <2>1, PTL
<1> QED
  BY <1>1, <1>2, <1>3, WorkInvariance, PTL DEF Safety

\* One observer never observes twice within a tick, even after observations
\* or exports that overran several: a deadline is the next tick after the
\* time it is computed at, not one period after the last.
THEOREM ObservesOncePerTick == TicksAreInstants /\ Safety => []OncePerTick
<1>1. StateInv => All = Held
  BY AllIsHeld
<1>2. WorkInv /\ GridInv => OncePerTick
  BY <1>1 DEF WorkInv, GridInv, OncePerTick, Tick
<1> QED
  BY <1>2, WorkInvariance, GridInvariance, PTL

\* An aligned timestamp is never ahead of the time of the observation, for an
\* observer that joins at any time and observes or records nothing.
THEOREM NeverAhead == TicksAreInstants /\ Safety => []AlignedNotAhead
<1>1. StateInv => All = Held
  BY AllIsHeld
<1>2. WorkInv /\ GridInv => AlignedNotAhead
  BY <1>1 DEF WorkInv, GridInv, AlignedNotAhead
<1> QED
  BY <1>2, WorkInvariance, GridInvariance, PTL

-----------------------------------------------------------------------------
(* The resource of a request                                               *)

\* f[m] is what the first m elements of all, those at K, make of an empty list.
Upserted(all, K, n, f) ==
    f = [m \in 0 .. n |-> IF m = 0 THEN <<>>
                           ELSE IF m \in K THEN upsert_key_value(f[m - 1], all[m])
                           ELSE f[m - 1]]

\* The element at m is the last one of its key.
Latest(all, K, n, m) ==
    /\ m \in K
    /\ all[m].key # Empty
    /\ \A j \in K : m < j /\ j <= n => all[j].key # all[m].key

\* A list of the last element of each key.
MapOf(all, K, n, a) ==
    /\ \A i, j \in 1 .. Len(a) : a[i].key = a[j].key => i = j
    /\ \A i \in 1 .. Len(a) : \E m \in 1 .. n : Latest(all, K, n, m) /\ a[i] = all[m]
    /\ \A m \in 1 .. n : Latest(all, K, n, m) => \E i \in 1 .. Len(a) : a[i] = all[m]

LEMMA UpsertsExist ==
    ASSUME NEW all, NEW K, NEW n \in Nat
    PROVE  \E f : Upserted(all, K, n, f)
<1> DEFINE T == {m \in Nat : \E f : Upserted(all, K, m, f)}
<1>1. 0 \in T
  <2>1. Upserted(all, K, 0, [m \in 0 .. 0 |-> <<>>])
    BY DEF Upserted
  <2> QED
    BY <2>1
<1>2. ASSUME NEW m \in Nat, m \in T
      PROVE  m + 1 \in T
  <2>1. PICK f : Upserted(all, K, m, f)
    BY <1>2
  <2> DEFINE last == IF m + 1 \in K THEN upsert_key_value(f[m], all[m + 1]) ELSE f[m]
             g == [i \in 0 .. m + 1 |-> IF i = m + 1 THEN last ELSE f[i]]
             rhs(i) == IF i = 0 THEN <<>>
                       ELSE IF i \in K THEN upsert_key_value(g[i - 1], all[i])
                       ELSE g[i - 1]
  <2>2. \A i \in 0 .. m : f[i] = IF i = 0 THEN <<>>
                                 ELSE IF i \in K THEN upsert_key_value(f[i - 1], all[i])
                                 ELSE f[i - 1]
    <3> DEFINE h == [i \in 0 .. m |-> IF i = 0 THEN <<>>
                                      ELSE IF i \in K THEN upsert_key_value(f[i - 1], all[i])
                                      ELSE f[i - 1]]
    <3>1. f = h
      BY <2>1, Zenon DEF Upserted
    <3>2. \A i \in 0 .. m : h[i] = IF i = 0 THEN <<>>
                                   ELSE IF i \in K THEN upsert_key_value(f[i - 1], all[i])
                                   ELSE f[i - 1]
      OBVIOUS
    <3> HIDE DEF h
    <3> QED
      BY <3>1, <3>2, Zenon
  <2>3. ASSUME NEW i \in 0 .. m + 1
        PROVE  g[i] = rhs(i)
    <3>1. CASE i = m + 1
      <4>1. i # 0 /\ i - 1 = m /\ i - 1 \in 0 .. m + 1 /\ i - 1 # m + 1
        BY <3>1
      <4>2. g[i - 1] = f[m] /\ g[i] = last
        BY <3>1, <4>1
      <4> QED
        BY <3>1, <4>1, <4>2
    <3>2. CASE i # m + 1 /\ i # 0
      <4>1. i \in 0 .. m /\ i - 1 \in 0 .. m + 1 /\ i - 1 # m + 1
        BY <3>2
      <4>2. g[i] = f[i] /\ g[i - 1] = f[i - 1]
        BY <3>2, <4>1
      <4> QED
        BY <2>2, <3>2, <4>1, <4>2
    <3>3. CASE i = 0
      BY <2>2, <3>3
    <3> QED
      BY <3>1, <3>2, <3>3
  <2>4. g = [i \in 0 .. m + 1 |-> rhs(i)]
    <3>1. g = [i \in 0 .. m + 1 |-> g[i]]
      OBVIOUS
    <3> HIDE DEF g, rhs
    <3> QED
      BY <2>3, <3>1
  <2>5. Upserted(all, K, m + 1, g)
    BY <2>4, Zenon DEF Upserted
  <2> QED
    BY <2>5
<1>3. Nat \subseteq T
  <2> HIDE DEF T
  <2> QED
    BY <1>1, <1>2, SetInduction
<1> QED
  BY <1>3

LEMMA UpsertKeepsMap ==
    ASSUME NEW S, NEW all \in Seq(S), NEW K \in SUBSET Nat, NEW n \in Nat,
           n + 1 \in 1 .. Len(all), n + 1 \in K, NEW a \in Seq(S), MapOf(all, K, n, a)
    PROVE  /\ upsert_key_value(a, all[n + 1]) \in Seq(S)
           /\ MapOf(all, K, n + 1, upsert_key_value(a, all[n + 1]))
<1> DEFINE kv == all[n + 1]
           b == upsert_key_value(a, kv)
           Here(m) == Latest(all, K, n, m)
           Then(m) == Latest(all, K, n + 1, m)
<1>1. kv \in S
  OBVIOUS
<1>2. \A m \in 1 .. n : Then(m) <=> Here(m) /\ all[m].key # kv.key
  BY DEF Latest
<1>3. Then(n + 1) <=> kv.key # Empty
  BY DEF Latest
<1>4. /\ \A i, j \in 1 .. Len(a) : a[i].key = a[j].key => i = j
      /\ \A i \in 1 .. Len(a) : \E m \in 1 .. n : Here(m) /\ a[i] = all[m]
      /\ \A m \in 1 .. n : Here(m) => \E i \in 1 .. Len(a) : a[i] = all[m]
  BY DEF MapOf
<1>5. \A m \in 1 .. n : Here(m) => all[m].key # Empty
  BY DEF Latest
<1>6. b = IF kv.key = Empty THEN a
          ELSE IF \E i \in DOMAIN a : a[i].key = kv.key
          THEN [i \in DOMAIN a |-> IF a[i].key = kv.key THEN kv ELSE a[i]]
          ELSE Append(a, kv)
  BY DEF upsert_key_value
<1>7. 1 .. n + 1 = 1 .. n \cup {n + 1}
  OBVIOUS
<1>8. SUFFICES /\ b \in Seq(S)
               /\ \A i, j \in 1 .. Len(b) : b[i].key = b[j].key => i = j
               /\ \A i \in 1 .. Len(b) : \E m \in 1 .. n + 1 : Then(m) /\ b[i] = all[m]
               /\ \A m \in 1 .. n + 1 : Then(m) => \E i \in 1 .. Len(b) : b[i] = all[m]
  BY DEF MapOf
<1> HIDE DEF b, kv, Here, Then
<1>9. CASE kv.key = Empty
  BY <1>2, <1>3, <1>4, <1>5, <1>6, <1>7, <1>9
<1>10. CASE kv.key # Empty /\ \E i \in DOMAIN a : a[i].key = kv.key
  <2>1. PICK p \in 1 .. Len(a) : a[p].key = kv.key
    BY <1>10
  <2>2. /\ b \in Seq(S) /\ Len(b) = Len(a)
        /\ \A i \in 1 .. Len(a) : b[i] = IF a[i].key = kv.key THEN kv ELSE a[i]
    <3>1. Len(a) \in Nat /\ DOMAIN a = 1 .. Len(a) /\ \A i \in 1 .. Len(a) : a[i] \in S
      OBVIOUS
    <3>2. b = [i \in 1 .. Len(a) |-> IF a[i].key = kv.key THEN kv ELSE a[i]]
      BY <1>6, <1>10, <3>1
    <3>3. \A i \in 1 .. Len(a) : (IF a[i].key = kv.key THEN kv ELSE a[i]) \in S
      BY <1>1, <3>1
    <3> QED
      BY <3>1, <3>2, <3>3
  <2>3. b[p] = kv /\ \A i \in 1 .. Len(a) : i # p => b[i] = a[i] /\ a[i].key # kv.key
    BY <1>4, <2>1, <2>2
  <2>4. \A i, j \in 1 .. Len(b) : b[i].key = b[j].key => i = j
    BY <1>4, <2>2, <2>3
  <2>5. ASSUME NEW i \in 1 .. Len(b)
        PROVE  \E m \in 1 .. n + 1 : Then(m) /\ b[i] = all[m]
    <3>1. CASE i = p
      <4>1. n + 1 \in 1 .. n + 1 /\ Then(n + 1) /\ b[i] = all[n + 1]
        BY <1>3, <1>10, <2>3, <3>1 DEF kv
      <4> QED
        BY <4>1
    <3>2. CASE i # p
      <4>1. b[i] = a[i] /\ a[i].key # kv.key /\ i \in 1 .. Len(a)
        BY <2>2, <2>3, <2>5, <3>2
      <4>2. PICK m \in 1 .. n : Here(m) /\ a[i] = all[m]
        BY <1>4, <4>1
      <4>3. m \in 1 .. n + 1 /\ Then(m) /\ b[i] = all[m]
        BY <1>2, <1>7, <4>1, <4>2
      <4> QED
        BY <4>3
    <3> QED
      BY <3>1, <3>2
  <2>6. ASSUME NEW m \in 1 .. n + 1, Then(m)
        PROVE  \E i \in 1 .. Len(b) : b[i] = all[m]
    <3>1. CASE m = n + 1
      BY <2>1, <2>2, <2>3, <3>1 DEF kv
    <3>2. CASE m \in 1 .. n
      <4>1. Here(m) /\ all[m].key # kv.key
        BY <1>2, <2>6, <3>2
      <4>2. PICK i \in 1 .. Len(a) : a[i] = all[m]
        BY <1>4, <3>2, <4>1
      <4>3. i \in 1 .. Len(b) /\ b[i] = all[m]
        BY <2>1, <2>2, <2>3, <4>1, <4>2
      <4> QED
        BY <4>3
    <3> QED
      BY <1>7, <3>1, <3>2
  <2> QED
    BY <2>2, <2>4, <2>5, <2>6
<1>11. CASE kv.key # Empty /\ ~\E i \in DOMAIN a : a[i].key = kv.key
  <2>1. /\ b \in Seq(S) /\ Len(b) = Len(a) + 1 /\ b[Len(a) + 1] = kv
        /\ \A i \in 1 .. Len(a) : b[i] = a[i] /\ a[i].key # kv.key
    BY <1>1, <1>6, <1>11
  <2>2. 1 .. Len(b) = 1 .. Len(a) \cup {Len(a) + 1}
    BY <2>1
  <2>3. \A i, j \in 1 .. Len(b) : b[i].key = b[j].key => i = j
    BY <1>4, <2>1, <2>2
  <2>4. ASSUME NEW i \in 1 .. Len(b)
        PROVE  \E m \in 1 .. n + 1 : Then(m) /\ b[i] = all[m]
    <3>1. CASE i = Len(a) + 1
      <4>1. n + 1 \in 1 .. n + 1 /\ Then(n + 1) /\ b[i] = all[n + 1]
        BY <1>3, <1>11, <2>1, <3>1 DEF kv
      <4> QED
        BY <4>1
    <3>2. CASE i \in 1 .. Len(a)
      <4>1. b[i] = a[i] /\ a[i].key # kv.key /\ i \in 1 .. Len(a)
        BY <2>1, <3>2
      <4>2. PICK m \in 1 .. n : Here(m) /\ a[i] = all[m]
        BY <1>4, <4>1
      <4>3. m \in 1 .. n + 1 /\ Then(m) /\ b[i] = all[m]
        BY <1>2, <1>7, <4>1, <4>2
      <4> QED
        BY <4>3
    <3> QED
      BY <2>2, <3>1, <3>2
  <2>5. ASSUME NEW m \in 1 .. n + 1, Then(m)
        PROVE  \E i \in 1 .. Len(b) : b[i] = all[m]
    <3>1. CASE m = n + 1
      BY <2>1, <2>2, <3>1 DEF kv
    <3>2. CASE m \in 1 .. n
      <4>1. Here(m) /\ all[m].key # kv.key
        BY <1>2, <2>5, <3>2
      <4>2. PICK i \in 1 .. Len(a) : a[i] = all[m]
        BY <1>4, <3>2, <4>1
      <4>3. i \in 1 .. Len(b) /\ b[i] = all[m]
        BY <2>1, <2>2, <4>1, <4>2
      <4> QED
        BY <4>3
    <3> QED
      BY <1>7, <3>1, <3>2
  <2> QED
    BY <2>1, <2>3, <2>4, <2>5
<1> QED
  BY <1>9, <1>10, <1>11

LEMMA UpsertsMakeMap ==
    ASSUME NEW S, NEW all \in Seq(S), NEW K \in SUBSET Nat, NEW f,
           Upserted(all, K, Len(all), f)
    PROVE  f[Len(all)] \in Seq(S) /\ MapOf(all, K, Len(all), f[Len(all)])
<1> DEFINE L == Len(all)
           T == {n \in Nat : n <= L => f[n] \in Seq(S) /\ MapOf(all, K, n, f[n])}
           value(n) == IF n = 0 THEN <<>>
                       ELSE IF n \in K THEN upsert_key_value(f[n - 1], all[n])
                       ELSE f[n - 1]
<1>1. \A n \in 0 .. L : f[n] = value(n)
  <2> DEFINE h == [n \in 0 .. L |-> value(n)]
  <2>1. f = h
    BY Zenon DEF Upserted
  <2>2. \A n \in 0 .. L : h[n] = value(n)
    OBVIOUS
  <2> HIDE DEF h, value
  <2> QED
    BY <2>1, <2>2, Zenon
<1>2. L \in Nat
  OBVIOUS
<1>3. 0 \in T
  <2>1. f[0] = <<>> /\ f[0] \in Seq(S)
    <3>1. 0 \in 0 .. L
      BY <1>2
    <3>2. f[0] = <<>>
      BY <1>1, <3>1, Zenon
    <3> QED
      BY <3>2
  <2>2. MapOf(all, K, 0, f[0])
    BY <2>1 DEF MapOf
  <2> QED
    BY <2>1, <2>2
<1>4. ASSUME NEW n \in Nat, n \in T
      PROVE  n + 1 \in T
  <2> SUFFICES ASSUME n + 1 <= L
               PROVE  f[n + 1] \in Seq(S) /\ MapOf(all, K, n + 1, f[n + 1])
    OBVIOUS
  <2>1. f[n] \in Seq(S) /\ MapOf(all, K, n, f[n]) /\ n + 1 \in 1 .. L
    BY <1>2, <1>4
  <2>2. f[n + 1] = IF n + 1 \in K THEN upsert_key_value(f[n], all[n + 1]) ELSE f[n]
    <3>1. n + 1 \in 0 .. L /\ n + 1 # 0 /\ (n + 1) - 1 = n
      BY <2>1
    <3> QED
      BY <1>1, <3>1
  <2>3. CASE n + 1 \in K
    BY <2>1, <2>2, <2>3, UpsertKeepsMap
  <2>4. CASE n + 1 \notin K
    <3>1. \A m \in 1 .. n : Latest(all, K, n + 1, m) <=> Latest(all, K, n, m)
      <4> SUFFICES ASSUME NEW j \in K, NEW m \in 1 .. n, m < j
                   PROVE  j <= n + 1 <=> j <= n
        BY DEF Latest
      <4> QED
        BY <2>4
    <3>2. ~Latest(all, K, n + 1, n + 1)
      BY <2>4 DEF Latest
    <3>3. 1 .. n + 1 = 1 .. n \cup {n + 1}
      OBVIOUS
    <3> QED
      BY <2>1, <2>2, <2>4, <3>1, <3>2, <3>3 DEF MapOf
  <2> QED
    BY <2>3, <2>4
<1>5. Nat \subseteq T
  <2> HIDE DEF T
  <2> QED
    BY <1>3, <1>4, SetInduction
<1> QED
  BY <1>2, <1>5

LEMMA FreeIsList ==
    ASSUME NEW resource \in Resources
    PROVE  /\ resource.attributes \in Seq(Attrs)
           /\ DOMAIN resource.attributes = 1 .. Len(resource.attributes)
<1>1. resource.attributes \in UNION {[1 .. n -> Attrs] : n \in 0 .. MaxFree}
  BY DEF Resources
<1>2. PICK n \in 0 .. MaxFree : resource.attributes \in [1 .. n -> Attrs]
  BY <1>1
<1>3. n \in Nat
  BY ResourceAssumption
<1>4. resource.attributes \in Seq(Attrs)
  BY <1>2, <1>3
<1> QED
  BY <1>4

\* What the list holds, and what is left out of it.
LEMMA ListedIs ==
    ASSUME NEW resource \in Resources
    PROVE  LET free == resource.attributes
               all == listed(resource)
               F == Len(free)
               N == Len(Named)
           IN  /\ F \in Nat /\ N \in Nat /\ Len(all) = F + N
               /\ all \in Seq([key : FreeKeys \cup Range(Named), value : Values \cup {None}])
               /\ \A i \in 1 .. F : free[i] \in Attrs /\ all[i] = free[i]
               /\ \A i \in 1 .. N : /\ all[F + i].key = Named[i]
                                   /\ all[F + i].value = resource.named[Named[i]]
               /\ given(resource) = 1 .. F \cup {F + i : i \in {j \in 1 .. N :
                                                    resource.named[Named[j]] # None}}
<1> DEFINE free == resource.attributes
           all == listed(resource)
           F == Len(free)
           N == Len(Named)
           S == [key : FreeKeys \cup Range(Named), value : Values \cup {None}]
           fields == [i \in 1 .. N |-> [key |-> Named[i], value |-> resource.named[Named[i]]]]
<1>1. /\ free \in Seq(Attrs) /\ F \in Nat /\ \A i \in 1 .. F : free[i] \in Attrs
      /\ resource.named \in [Range(Named) -> Values \cup {None}]
  BY FreeIsList DEF Resources
<1>2. N \in Nat /\ DOMAIN Named = 1 .. N /\ \A i \in 1 .. N : Named[i] \in Range(Named)
  BY ResourceAssumption DEF Range
<1>3. \A i \in 1 .. N : /\ fields[i] \in S
                        /\ fields[i].key = Named[i]
                        /\ fields[i].value = resource.named[Named[i]]
  BY <1>1, <1>2
<1>4. fields \in Seq(S) /\ Len(fields) = N
  <2>1. fields \in [1 .. N -> S]
    BY <1>3
  <2> HIDE DEF fields, S
  <2> QED
    BY <1>2, <2>1
<1>5. free \in Seq(S)
  <2>1. Attrs \subseteq S
    BY DEF Attrs
  <2> HIDE DEF free, S
  <2> QED
    BY <1>1, <2>1
<1>6. all = free \o fields
  BY <1>2 DEF listed
<1> HIDE DEF free, fields, all, S
<1>7. /\ all \in Seq(S) /\ Len(all) = F + N
      /\ \A i \in 1 .. F : all[i] = free[i]
      /\ \A i \in 1 .. N : all[F + i] = fields[i]
  <2>1. /\ all \in Seq(S) /\ Len(all) = F + N
        /\ \A i \in 1 .. F + N : all[i] = IF i <= F THEN free[i] ELSE fields[i - F]
    <3>1. /\ Len(free \o fields) = F + N
          /\ \A i \in 1 .. F + N :
                 (free \o fields)[i] = IF i <= F THEN free[i] ELSE fields[i - F]
      BY <1>4, <1>5
    <3>2. free \o fields \in Seq(S)
      BY <1>4, <1>5
    <3> QED
      BY <1>6, <3>1, <3>2
  <2>2. \A i \in 1 .. F : i \in 1 .. F + N /\ i <= F
    BY <1>1, <1>2
  <2>3. \A i \in 1 .. N : F + i \in 1 .. F + N /\ ~(F + i <= F) /\ F + i - F = i
    BY <1>1, <1>2
  <2> QED
    BY <2>1, <2>2, <2>3
<1>8. /\ \A i \in 1 .. N : all[F + i].key = Named[i]
      /\ \A i \in 1 .. N : all[F + i].value = resource.named[Named[i]]
  BY <1>3, <1>7
<1> DEFINE Fields == {F + i : i \in {j \in 1 .. N : resource.named[Named[j]] # None}}
<1>9. given(resource) = {n \in 1 .. F + N : n > F => all[n].value # None}
  <2>1. DOMAIN all = 1 .. F + N
    BY <1>7
  <2> QED
    BY <2>1 DEF given, free, all
<1>10. given(resource) = 1 .. F \cup Fields
  <2>1. ASSUME NEW n \in 1 .. F + N, n > F
        PROVE  n - F \in 1 .. N /\ n = F + (n - F)
    BY <1>1, <1>2, <2>1
  <2>2. ASSUME NEW n \in 1 .. F + N, n > F, all[n].value # None
        PROVE  n \in Fields
    <3>1. n - F \in 1 .. N /\ n = F + (n - F)
      BY <2>1, <2>2
    <3>2. all[n].value = resource.named[Named[n - F]]
      BY <1>8, <3>1
    <3> QED
      BY <2>2, <3>1, <3>2
  <2>3. ASSUME NEW i \in 1 .. N, resource.named[Named[i]] # None
        PROVE  F + i \in 1 .. F + N /\ F + i > F /\ all[F + i].value # None
    BY <1>1, <1>2, <1>8, <2>3
  <2>4. \A n \in 1 .. F : n \in 1 .. F + N /\ ~(n > F)
    BY <1>1, <1>2
  <2>5. given(resource) \subseteq 1 .. F \cup Fields
    <3> SUFFICES ASSUME NEW n \in 1 .. F + N, n > F => all[n].value # None
                 PROVE  n \in 1 .. F \cup Fields
      BY <1>9
    <3>1. CASE n > F
      BY <2>2, <3>1
    <3>2. CASE ~(n > F)
      BY <1>1, <1>2, <3>2
    <3> QED
      BY <3>1, <3>2
  <2>6. 1 .. F \cup Fields \subseteq given(resource)
    BY <1>9, <2>3, <2>4
  <2> QED
    BY <2>5, <2>6
<1>11. \A i \in 1 .. F : free[i] \in Attrs /\ all[i] = free[i]
  BY <1>1, <1>7
<1> QED
  BY <1>1, <1>2, <1>7, <1>8, <1>10, <1>11 DEF free, all, S

\* The last element of a key has the value that should win.
LEMMA LatestWins ==
    ASSUME NEW resource \in Resources, NEW m \in 1 .. Len(listed(resource)),
           Latest(listed(resource), given(resource), Len(listed(resource)), m)
    PROVE  /\ listed(resource)[m].key \in GivenKeys(resource) \ {Empty}
           /\ listed(resource)[m].value = Value(resource, listed(resource)[m].key)
<1> DEFINE free == resource.attributes
           all == listed(resource)
           K == given(resource)
           F == Len(free)
           N == Len(Named)
           key == all[m].key
<1>1. /\ F \in Nat /\ N \in Nat /\ Len(all) = F + N
      /\ \A i \in 1 .. F : all[i] = free[i]
      /\ \A i \in 1 .. N : /\ all[F + i].key = Named[i]
                          /\ all[F + i].value = resource.named[Named[i]]
      /\ K = 1 .. F \cup {F + i : i \in {j \in 1 .. N : resource.named[Named[j]] # None}}
      /\ m \in 1 .. F + N
  BY ListedIs
<1>2. m \in K /\ key # Empty /\ \A j \in K : m < j /\ j <= F + N => all[j].key # key
  BY <1>1, Zenon DEF Latest
<1>3. DOMAIN Named = 1 .. N /\ DOMAIN free = 1 .. F
  BY FreeIsList, ResourceAssumption
<1> DEFINE P == {i \in DOMAIN free : free[i].key = key}
           last == CHOOSE i \in P : \A j \in P : j <= i
<1>4. Value(resource, key) = IF key \in Range(Named) /\ resource.named[key] # None
                            THEN resource.named[key] ELSE free[last].value
  BY Zenon DEF Value
<1>5. GivenKeys(resource) = {free[i].key : i \in 1 .. F} \cup
                           {k \in Range(Named) : resource.named[k] # None}
  BY <1>3 DEF GivenKeys, Range
<1> HIDE DEF free, all, K, key, last
<1>6. CASE m > F
  <2>1. PICK i \in 1 .. N : m = F + i /\ resource.named[Named[i]] # None
    BY <1>1, <1>2, <1>6
  <2>2. key = Named[i] /\ all[m].value = resource.named[key]
    BY <1>1, <2>1 DEF key
  <2>3. key \in Range(Named)
    BY <1>3, <2>2 DEF Range
  <2> QED
    BY <1>2, <1>4, <1>5, <2>1, <2>2, <2>3 DEF all, key
<1>7. CASE m <= F
  <2>1. m \in 1 .. F /\ all[m] = free[m] /\ free[m].key = key
    BY <1>1, <1>7 DEF key
  <2>2. ~(key \in Range(Named) /\ resource.named[key] # None)
    <3> SUFFICES ASSUME key \in Range(Named), resource.named[key] # None
                 PROVE  FALSE
      OBVIOUS
    <3>1. PICK i \in 1 .. N : Named[i] = key
      BY <1>3 DEF Range
    <3>2. F + i \in K /\ m < F + i /\ F + i <= F + N /\ all[F + i].key = key
      BY <1>1, <1>7, <3>1
    <3> QED
      BY <1>2, <3>2
  <2>3. \A j \in 1 .. F : free[j].key = key => j <= m
    <3> SUFFICES ASSUME NEW j \in 1 .. F, m < j
                 PROVE  free[j].key # key
      BY <1>1, <2>1
    <3> QED
      BY <1>1, <1>2
  <2>4. last = m
    <3> DEFINE Q(i) == \A j \in P : j <= i
    <3>1. m \in P /\ Q(m)
      BY <1>3, <2>1, <2>3
    <3>2. P \subseteq Nat
      BY <1>1, <1>3
    <3>3. last = CHOOSE i \in P : Q(i)
      BY Zenon DEF last
    <3> HIDE DEF P
    <3>4. last \in P /\ Q(last)
      BY <3>1, <3>3
    <3> QED
      BY <3>1, <3>2, <3>4
  <2> QED
    BY <1>2, <1>4, <1>5, <2>1, <2>2, <2>4 DEF all, key
<1> QED
  BY <1>1, <1>6, <1>7

\* Every key given has a last element.
LEMMA GivenHasLatest ==
    ASSUME NEW resource \in Resources, NEW key \in GivenKeys(resource) \ {Empty}
    PROVE  \E m \in 1 .. Len(listed(resource)) :
               /\ Latest(listed(resource), given(resource), Len(listed(resource)), m)
               /\ listed(resource)[m].key = key
<1> DEFINE free == resource.attributes
           all == listed(resource)
           K == given(resource)
           F == Len(free)
           N == Len(Named)
<1>1. /\ F \in Nat /\ N \in Nat /\ Len(all) = F + N
      /\ \A i \in 1 .. F : all[i] = free[i]
      /\ \A i \in 1 .. N : /\ all[F + i].key = Named[i]
                          /\ all[F + i].value = resource.named[Named[i]]
      /\ K = 1 .. F \cup {F + i : i \in {j \in 1 .. N : resource.named[Named[j]] # None}}
  BY ListedIs
<1>2. DOMAIN Named = 1 .. N /\ \A i, j \in 1 .. N : Named[i] = Named[j] => i = j
  BY ResourceAssumption DEF IsInjective
<1>3. SUFFICES \E m \in 1 .. F + N : /\ m \in K /\ all[m].key = key
                                     /\ \A j \in K : m < j /\ j <= F + N => all[j].key # key
  BY <1>1, Zenon DEF Latest
<1>4. (\E i \in DOMAIN free : free[i].key = key) \/ (key \in Range(Named) /\ resource.named[key] # None)
  BY DEF GivenKeys, Range
<1>5. DOMAIN free = 1 .. F
  BY FreeIsList
<1> HIDE DEF free, all, K
<1>6. CASE key \in Range(Named) /\ resource.named[key] # None
  <2>1. PICK i \in 1 .. N : Named[i] = key
    BY <1>2, <1>6 DEF Range
  <2>2. F + i \in 1 .. F + N /\ F + i \in K /\ all[F + i].key = key
    BY <1>1, <1>6, <2>1
  <2>3. ASSUME NEW j \in K, F + i < j
        PROVE  all[j].key # key
    <3>1. PICK l \in 1 .. N : j = F + l
      BY <1>1, <2>3
    <3>2. l # i /\ all[j].key = Named[l]
      BY <1>1, <2>3, <3>1
    <3> QED
      BY <1>2, <2>1, <3>2
  <2> QED
    BY <2>2, <2>3
<1>7. CASE ~(key \in Range(Named) /\ resource.named[key] # None)
  <2> DEFINE P == {i \in 1 .. F : free[i].key = key}
  <2>1. P # {} /\ P \subseteq Int /\ P \subseteq 1 .. F
    BY <1>1, <1>4, <1>5, <1>7
  <2>2. IsFiniteSet(P)
    BY <1>1, <2>1, FirstNumbers, FS_Subset
  <2>3. PICK m \in P : \A j \in P : j <= m
    <3> HIDE DEF P
    <3> QED
      BY <2>1, <2>2, MaxIs
  <2>4. m \in 1 .. F + N /\ m \in K /\ all[m].key = key
    BY <1>1
  <2>5. ASSUME NEW j \in K, m < j
        PROVE  all[j].key # key
    <3>1. CASE j \in 1 .. F
      BY <1>1, <2>3, <2>5, <3>1
    <3>2. CASE j \notin 1 .. F
      <4>1. PICK l \in 1 .. N : j = F + l /\ resource.named[Named[l]] # None
        BY <1>1, <3>2
      <4>2. all[j].key = Named[l] /\ Named[l] \in Range(Named)
        BY <1>1, <1>2, <4>1 DEF Range
      <4> QED
        BY <1>7, <4>1, <4>2
    <3> QED
      BY <3>1, <3>2
  <2> QED
    BY <2>4, <2>5
<1> QED
  BY <1>6, <1>7

LEMMA ResourceIsMap ==
    ASSUME NEW resource \in Resources
    PROVE  LET attrs == into_attributes(resource)
           IN  /\ IsInjective([i \in DOMAIN attrs |-> attrs[i].key])
               /\ Range(attrs) = {[key |-> key, value |-> Value(resource, key)] :
                                     key \in GivenKeys(resource) \ {Empty}}
<1> DEFINE all == listed(resource)
           K == given(resource)
           L == Len(all)
           S == [key : FreeKeys \cup Range(Named), value : Values \cup {None}]
           attrs == into_attributes(resource)
           pair(key) == [key |-> key, value |-> Value(resource, key)]
<1>1. all \in Seq(S) /\ L \in Nat /\ K \in SUBSET Nat
  <2>1. all \in Seq(S)
    BY ListedIs
  <2> HIDE DEF S
  <2>2. L \in Nat /\ DOMAIN all = 1 .. L
    BY <2>1
  <2>3. K \subseteq DOMAIN all
    BY DEF given
  <2> QED
    BY <2>1, <2>2, <2>3
<1>2. attrs \in Seq(S) /\ MapOf(all, K, L, attrs)
  <2> DEFINE f == CHOOSE f : Upserted(all, K, L, f)
  <2>1. Upserted(all, K, L, f)
    BY <1>1, UpsertsExist
  <2>2. attrs = f[L]
    BY Zenon DEF into_attributes, Upserted
  <2> HIDE DEF f, all, K, S, attrs
  <2> QED
    BY <1>1, <2>1, <2>2, UpsertsMakeMap
<1>3. \A m \in 1 .. L : Latest(all, K, L, m) =>
          all[m].key \in GivenKeys(resource) \ {Empty} /\ all[m] = pair(all[m].key)
  <2> SUFFICES ASSUME NEW m \in 1 .. L, Latest(all, K, L, m)
               PROVE  all[m].key \in GivenKeys(resource) \ {Empty} /\ all[m] = pair(all[m].key)
    OBVIOUS
  <2>1. all[m].key \in GivenKeys(resource) \ {Empty} /\ all[m].value = Value(resource, all[m].key)
    BY LatestWins
  <2>2. all[m] \in S
    <3> HIDE DEF all, S
    <3> QED
      BY <1>1
  <2>3. all[m] = [key |-> all[m].key, value |-> all[m].value]
    BY <2>2
  <2> QED
    BY <2>1, <2>3
<1>4. \A key \in GivenKeys(resource) \ {Empty} : \E m \in 1 .. L :
          Latest(all, K, L, m) /\ all[m].key = key
  BY GivenHasLatest
<1>5. DOMAIN attrs = 1 .. Len(attrs)
  BY <1>2
<1> HIDE DEF all, K, S, attrs, pair
<1>6. IsInjective([i \in DOMAIN attrs |-> attrs[i].key])
  BY <1>2, <1>5 DEF MapOf, IsInjective
<1>7. Range(attrs) \subseteq {pair(key) : key \in GivenKeys(resource) \ {Empty}}
  <2> SUFFICES ASSUME NEW i \in 1 .. Len(attrs)
               PROVE  attrs[i] \in {pair(key) : key \in GivenKeys(resource) \ {Empty}}
    BY <1>5 DEF Range
  <2>1. PICK m \in 1 .. L : Latest(all, K, L, m) /\ attrs[i] = all[m]
    BY <1>2 DEF MapOf
  <2> QED
    BY <1>3, <2>1
<1>8. {pair(key) : key \in GivenKeys(resource) \ {Empty}} \subseteq Range(attrs)
  <2> SUFFICES ASSUME NEW key \in GivenKeys(resource) \ {Empty}
               PROVE  pair(key) \in Range(attrs)
    OBVIOUS
  <2>1. PICK m \in 1 .. L : Latest(all, K, L, m) /\ all[m].key = key
    BY <1>4
  <2>2. PICK i \in 1 .. Len(attrs) : attrs[i] = all[m]
    BY <1>2, <2>1 DEF MapOf
  <2>3. attrs[i] = pair(key)
    BY <1>3, <2>1, <2>2
  <2> QED
    BY <1>5, <2>3 DEF Range
<1>9. Range(attrs) = {pair(key) : key \in GivenKeys(resource) \ {Empty}}
  BY <1>7, <1>8
<1> QED
  BY <1>6, <1>9 DEF attrs, pair

\* The backend of a sender is told the whole resource in every request, each key
\* once and with the value that should win, whatever fields and attributes the
\* application gave (RequestsNameTheResource of Periodic, into_attributes of
\* src/otel/dto.rs).
THEOREM ResourceNamed == Safety => []RequestsNameTheResource
<1>1. ResourcesAreMaps
  BY ResourceIsMap DEF ResourcesAreMaps, build_request
<1>2. RequestsNameTheResource
  BY <1>1 DEF RequestsNameTheResource
<1> QED
  BY <1>2, PTL
=============================================================================
