-------------------------- MODULE HistogramProofs --------------------------
(***************************************************************************)
(* Proofs about Histogram: the inductive invariant, and from it that every *)
(* snapshot and every take returns the exact image of one set of complete  *)
(* updates, for any number of calls, any values and any boundaries.        *)
(***************************************************************************)
EXTENDS Histogram, CommunityFacts

-----------------------------------------------------------------------------
(* The data *)

\* The number of buckets is at least two.
LEMMA LenBoundaries == Len(Boundaries) \in Nat /\ Len(Boundaries) > 0
BY BoundariesAssumption DEF checked_boundaries

\* The index of a value is the index of a bucket.
LEMMA BucketIndexType ==
    ASSUME NEW v \in Int
    PROVE  bucket_index(v) \in Buckets
<1> DEFINE below == {i \in DOMAIN Boundaries : Boundaries[i] < v}
<1>1. DOMAIN Boundaries = 1 .. Len(Boundaries)
  BY BoundariesAssumption
<1>2. below \subseteq 1 .. Len(Boundaries)
  BY <1>1
<1>3. IsFiniteSet(1 .. Len(Boundaries)) /\ Cardinality(1 .. Len(Boundaries)) = Len(Boundaries)
  BY LenBoundaries, FS_Interval
<1>4. IsFiniteSet(below) /\ Cardinality(below) <= Len(Boundaries)
  BY <1>2, <1>3, FS_Subset
<1>5. Cardinality(below) \in Nat
  BY <1>4, FS_CardinalityType
<1> QED
  BY <1>4, <1>5, LenBoundaries DEF bucket_index, Buckets

\* The callback of an update visits fields of the state, each at one place,
\* and `count` is one of them.
LEMMA WriteOrderType ==
    ASSUME NEW c \in Updates, NEW v \in Values
    PROVE  /\ WriteOrder(c, v) \in Seq(Fields)
           /\ Len(WriteOrder(c, v)) \in Nat \ {0}
           /\ DOMAIN WriteOrder(c, v) = 1 .. Len(WriteOrder(c, v))
           /\ Touches(c, v, count)
<1>1. bucket_counts(bucket_index(v)) \in Fields
  BY BucketIndexType, ValuesAssumption DEF Fields
<1>2. {sum, min, max, count} \subseteq Fields
  BY DEF Fields
<1>3. CASE c \in Adds
  <2> DEFINE w == <<sum, min, max, bucket_counts(bucket_index(v)), count>>
  <2>1. WriteOrder(c, v) = w
    BY <1>3 DEF WriteOrder
  <2>2. w \in Seq(Fields) /\ Len(w) = 5 /\ DOMAIN w = 1 .. 5 /\ w[5] = count
    BY <1>1, <1>2
  <2> QED
    BY <2>1, <2>2 DEF Touches
<1>4. CASE c \notin Adds
  <2> DEFINE w == <<sum, bucket_counts(bucket_index(v)), count>>
  <2>1. WriteOrder(c, v) = w
    BY <1>4 DEF WriteOrder
  <2>2. w \in Seq(Fields) /\ Len(w) = 3 /\ DOMAIN w = 1 .. 3 /\ w[3] = count
    BY <1>1, <1>2
  <2> QED
    BY <2>1, <2>2 DEF Touches
<1> QED
  BY <1>3, <1>4

\* State::snapshot loads every field, `count` first and min and max last.
LEMMA ReadOrderType ==
    /\ ReadLen \in Nat /\ ReadLen >= 6
    /\ \A k \in 1 .. ReadLen : ReadOrder[k] \in Fields
    /\ \A k \in 1 .. ReadLen : ReadOrder[k] = count <=> k = 1
    /\ \A k \in 1 .. ReadLen :
          ReadOrder[k] \in {min, max} <=> k > Len(Boundaries) + 3
    /\ \A f \in Fields : \E k \in 1 .. ReadLen : ReadOrder[k] = f
<1> USE LenBoundaries
<1>1. ReadLen \in Nat /\ ReadLen >= 6
  BY DEF ReadLen
<1>2. ASSUME NEW k \in 1 .. ReadLen
      PROVE  /\ ReadOrder[k] \in Fields
             /\ ReadOrder[k] = count <=> k = 1
             /\ ReadOrder[k] \in {min, max} <=> k > Len(Boundaries) + 3
  BY <1>1 DEF ReadOrder, ReadLen, Fields, Buckets, count, min, max, sum, bucket_counts
<1>3. ASSUME NEW f \in Fields
      PROVE  \E k \in 1 .. ReadLen : ReadOrder[k] = f
  <2>1. CASE f = count
    BY <2>1, <1>1 DEF ReadOrder, ReadLen
  <2>2. CASE \E i \in Buckets : f = bucket_counts(i)
    <3>1. PICK i \in Buckets : f = bucket_counts(i)
      BY <2>2
    <3>2. i + 2 \in 1 .. ReadLen /\ ReadOrder[i + 2] = f
      BY <3>1 DEF ReadOrder, ReadLen, Buckets
    <3> QED
      BY <3>2
  <2>3. CASE f = sum
    <3>1. Len(Boundaries) + 3 \in 1 .. ReadLen /\ ReadOrder[Len(Boundaries) + 3] = sum
      BY DEF ReadOrder, ReadLen
    <3> QED
      BY <2>3, <3>1
  <2>4. CASE f = min
    <3>1. Len(Boundaries) + 4 \in 1 .. ReadLen /\ ReadOrder[Len(Boundaries) + 4] = min
      BY DEF ReadOrder, ReadLen
    <3> QED
      BY <2>4, <3>1
  <2>5. CASE f = max
    <3>1. ReadLen \in 1 .. ReadLen /\ ReadOrder[ReadLen] = max
      BY DEF ReadOrder, ReadLen
    <3> QED
      BY <2>5, <3>1
  <2> QED
    BY <2>1, <2>2, <2>3, <2>4, <2>5 DEF Fields
<1> QED
  BY <1>1, <1>2, <1>3

-----------------------------------------------------------------------------
(* Type correctness *)

LEMMA InitType == Init => TypeOK
<1> SUFFICES ASSUME Init PROVE TypeOK
  OBVIOUS
<1>1. NewState \in [Fields -> SUBSET Updates]
  BY DEF NewState
<1>2. First \in Gens
  BY DEF Gens
<1> QED
  BY <1>1, <1>2, CallsAssumption
     DEF Init, TypeOK, UpdatePC, ScanPC, Calls

LEMMA ScanMoves ==
    ASSUME TypeOK, NEW r \in Scans, NEW to \in ScanPC, pc' = [pc EXCEPT ![r] = to]
    PROVE  /\ pc' \in [Calls -> UpdatePC \cup ScanPC]
           /\ \A x \in Updates : pc'[x] \in UpdatePC
           /\ \A x \in Scans : pc'[x] \in ScanPC
<1>1. r \in Calls /\ pc \in [Calls -> UpdatePC \cup ScanPC]
  BY DEF Calls, TypeOK
<1>2. \A x \in Updates : x \in Calls /\ x # r /\ pc[x] \in UpdatePC
  BY CallsAssumption DEF Calls, TypeOK
<1>3. \A x \in Scans : x \in Calls /\ pc[x] \in ScanPC
  BY DEF Calls, TypeOK
<1>4. \A x \in Calls : pc'[x] = IF x = r THEN to ELSE pc[x]
  BY <1>1
<1>5. pc' \in [Calls -> UpdatePC \cup ScanPC]
  BY <1>1
<1> QED
  BY <1>2, <1>3, <1>4, <1>5

LEMMA TypeStep == HistogramInv /\ [Next]_vars => TypeOK'
<1> SUFFICES ASSUME HistogramInv, [Next]_vars PROVE TypeOK'
  OBVIOUS
<1> USE CallsAssumption DEF UpdatePC, ScanPC
<1>0. TypeOK
  BY DEF HistogramInv
<1>r. \A r \in Scans : pc[r] # "idle" => ref[r] \in Gens
  BY DEF HistogramInv, ScanInv
<1>u. \A c \in Updates : pc[c] \in {"start", "write", "end"} =>
        /\ ref[c] \in Gens
        /\ pc[c] = "write" => WriteOrder(c, arg[c])[step[c]] \in Fields
  BY WriteOrderType DEF HistogramInv, UpdateInv
<1>c. Updates \subseteq Calls /\ Scans \subseteq Calls /\ Reads \subseteq Scans
      /\ Takes \subseteq Scans /\ Takes \subseteq Gens
  BY DEF Calls, Scans, Gens
<1>n. NewState \in [Fields -> SUBSET Updates]
  BY DEF NewState
<1>1. ASSUME NEW c \in Updates, SkipNaN(c) PROVE TypeOK'
  BY <1>0, <1>c, <1>1 DEF TypeOK, SkipNaN, lockVars, scanVars
<1>2. ASSUME NEW c \in Updates, LoadState(c) PROVE TypeOK'
  BY <1>0, <1>c, <1>2 DEF TypeOK, LoadState, lockVars, scanVars
<1>3. ASSUME NEW c \in Updates, BeginWrite(c) PROVE TypeOK'
  BY <1>0, <1>u, <1>c, <1>3 DEF TypeOK, BeginWrite, scanVars
<1>4. ASSUME NEW c \in Updates, Apply(c) PROVE TypeOK'
  <2> DEFINE f == WriteOrder(c, arg[c])[step[c]]
  <2>0. /\ ref[c] \in Gens /\ f \in Fields
        /\ inner' = [inner EXCEPT ![ref[c]][f] = inner[ref[c]][f] \cup {c}]
    BY <1>u, <1>4 DEF Apply
  <2>1. inner' \in [Gens -> [Fields -> SUBSET Updates]]
    BY <1>0, <2>0 DEF TypeOK
  <2>2. /\ pc' = pc \/ pc' = [pc EXCEPT ![c] = "end"]
        /\ step' = step \/ step' = [step EXCEPT ![c] = step[c] + 1]
    BY <1>4 DEF Apply
  <2>5. pc' \in [Calls -> UpdatePC \cup ScanPC] /\ step' \in [Calls -> Nat \ {0}]
    <3>1. /\ pc \in [Calls -> UpdatePC \cup ScanPC] /\ step \in [Calls -> Nat \ {0}]
          /\ c \in Calls
      BY <1>0, <1>c DEF TypeOK
    <3>2. pc' \in [Calls -> UpdatePC \cup ScanPC]
      BY <2>2, <3>1
    <3>3. step' \in [Calls -> Nat \ {0}]
      BY <2>2, <3>1
    <3> QED
      BY <3>2, <3>3
  <2>3. \A x \in Updates : pc'[x] \in UpdatePC
    BY <1>0, <1>c, <2>2 DEF TypeOK
  <2>4. \A x \in Scans : pc'[x] \in ScanPC
    BY <1>0, <1>c, <2>2 DEF TypeOK
  <2> QED
    BY <1>0, <1>4, <2>1, <2>5, <2>3, <2>4 DEF TypeOK, Apply, scanVars
<1>5. ASSUME NEW c \in Updates, EndWrite(c) PROVE TypeOK'
  BY <1>0, <1>u, <1>c, <1>5 DEF TypeOK, EndWrite, scanVars
<1>6. ASSUME NEW r \in Reads, LoadForRead(r) PROVE TypeOK'
  BY <1>0, <1>c, <1>6 DEF TypeOK, LoadForRead, lockVars, Returned
<1>7. ASSUME NEW t \in Takes, Swap(t) PROVE TypeOK'
  BY <1>0, <1>c, <1>7 DEF TypeOK, Swap, lockVars, Returned
<1>8. ASSUME NEW r \in Scans, LoadEnd(r) PROVE TypeOK'
  BY <1>0, <1>r, <1>c, <1>8 DEF TypeOK, LoadEnd, lockVars
<1>9. ASSUME NEW r \in Scans, LoadStart(r) PROVE TypeOK'
  <2>1. pc[r] = "s1" /\ ref[r] \in Gens
    BY <1>r, <1>9 DEF LoadStart
  <2>2. \/ /\ s1' = [s1 EXCEPT ![r] = start[ref[r]]] /\ e1' = e1
           /\ pc' = [pc EXCEPT ![r] = "read"]
        \/ /\ s1' = s1 /\ e1' = [e1 EXCEPT ![r] = 0]
           /\ pc' = [pc EXCEPT ![r] = "e1"]
    BY <1>9 DEF LoadStart
  <2>3. UNCHANGED <<state, lockVars, ref, arg, step, snap, settled>>
    BY <1>9 DEF LoadStart
  <2>4. s1' \in [Scans -> Nat] /\ e1' \in [Scans -> Nat]
    <3>1. /\ s1 \in [Scans -> Nat] /\ e1 \in [Scans -> Nat]
          /\ start \in [Gens -> Nat] /\ start[ref[r]] \in Nat
      BY <1>0, <2>1 DEF TypeOK
    <3>2. s1' \in [Scans -> Nat]
      BY <2>2, <3>1
    <3>3. e1' \in [Scans -> Nat]
      BY <2>2, <3>1
    <3> QED
      BY <3>2, <3>3
  <2>5. /\ pc' \in [Calls -> UpdatePC \cup ScanPC]
        /\ \A x \in Updates : pc'[x] \in UpdatePC
        /\ \A x \in Scans : pc'[x] \in ScanPC
    <3>1. "read" \in ScanPC /\ "e1" \in ScanPC
      OBVIOUS
    <3> QED
      BY <1>0, <2>2, <3>1, ScanMoves
  <2> QED
    BY <1>0, <2>3, <2>4, <2>5 DEF TypeOK, lockVars
<1>10. ASSUME NEW r \in Scans, ReadField(r) PROVE TypeOK'
  <2> DEFINE f == ReadOrder[step[r]]
             w == [snap[r] EXCEPT ![f] = inner[ref[r]][f]]
  <2>1. pc[r] = "read" /\ ref[r] \in Gens /\ step[r] \in 1 .. ReadLen
    BY <1>r, <1>10 DEF ReadField, HistogramInv, ScanInv
  <2>2. f \in Fields
    BY <2>1, ReadOrderType
  <2>3. w \in [Fields -> SUBSET Updates]
    BY <1>0, <2>1, <2>2 DEF TypeOK
  <2>4. snap' = [snap EXCEPT ![r] = w]
    BY <1>10 DEF ReadField
  <2>5. snap' \in [Scans -> [Fields -> SUBSET Updates]]
    BY <1>0, <2>3, <2>4 DEF TypeOK
  <2>6. /\ pc' = pc \/ pc' = [pc EXCEPT ![r] = "s2"]
        /\ step' = step \/ step' = [step EXCEPT ![r] = step[r] + 1]
    BY <1>10 DEF ReadField
  <2>7. pc' \in [Calls -> UpdatePC \cup ScanPC] /\ step' \in [Calls -> Nat \ {0}]
    <3>1. /\ pc \in [Calls -> UpdatePC \cup ScanPC] /\ step \in [Calls -> Nat \ {0}]
          /\ r \in Calls
      BY <1>0, <1>c DEF TypeOK
    <3>2. pc' \in [Calls -> UpdatePC \cup ScanPC]
      BY <2>6, <3>1
    <3>3. step' \in [Calls -> Nat \ {0}]
      BY <2>6, <3>1
    <3> QED
      BY <3>2, <3>3
  <2>8. /\ \A x \in Updates : pc'[x] \in UpdatePC
        /\ \A x \in Scans : pc'[x] \in ScanPC
    <3>1. "s2" \in ScanPC
      OBVIOUS
    <3>2. CASE pc' = pc
      BY <1>0, <3>2 DEF TypeOK
    <3> QED
      BY <1>0, <2>6, <3>1, <3>2, ScanMoves
  <2>9. UNCHANGED <<state, lockVars, ref, arg, e1, s1, settled>>
    BY <1>10 DEF ReadField
  <2> QED
    BY <1>0, <2>5, <2>7, <2>8, <2>9 DEF TypeOK, lockVars
<1>11. ASSUME NEW r \in Scans, LoadStartAgain(r) PROVE TypeOK'
  <2>1. snap' \in [Scans -> [Fields -> SUBSET Updates]]
    <3>1. snap' = snap \/ snap' = [snap EXCEPT ![r] = NewState]
      BY <1>11 DEF LoadStartAgain
    <3> QED
      BY <1>0, <1>n, <3>1 DEF TypeOK
  <2>2. pc' = [pc EXCEPT ![r] = "done"] \/ pc' = [pc EXCEPT ![r] = "e1"]
    BY <1>11 DEF LoadStartAgain
  <2>3. pc' \in [Calls -> UpdatePC \cup ScanPC] /\ step' \in [Calls -> Nat \ {0}]
    <3>1. /\ pc \in [Calls -> UpdatePC \cup ScanPC] /\ step \in [Calls -> Nat \ {0}]
          /\ r \in Calls
      BY <1>0, <1>c DEF TypeOK
    <3>2. step' = [step EXCEPT ![r] = 1]
      BY <1>11 DEF LoadStartAgain
    <3>3. pc' \in [Calls -> UpdatePC \cup ScanPC]
      BY <2>2, <3>1
    <3>4. step' \in [Calls -> Nat \ {0}]
      BY <3>1, <3>2
    <3> QED
      BY <3>3, <3>4
  <2>4. /\ \A x \in Updates : pc'[x] \in UpdatePC
        /\ \A x \in Scans : pc'[x] \in ScanPC
    BY <1>0, <1>c, <2>2 DEF TypeOK
  <2> QED
    BY <1>0, <1>11, <2>1, <2>2, <2>3, <2>4 DEF TypeOK, LoadStartAgain, lockVars
<1>12. CASE UNCHANGED vars
  BY <1>0, <1>12 DEF TypeOK, vars, Returned
<1> QED
  BY <1>1, <1>2, <1>3, <1>4, <1>5, <1>6, <1>7, <1>8, <1>9, <1>10, <1>11, <1>12,
     <1>c DEF Next, Update, Read

-----------------------------------------------------------------------------
(* What a step leaves alone *)

\* A step of a scan changes no field, and nothing of an update or another scan.
LEMMA ScanFrame ==
    ASSUME TypeOK, NEW r \in Scans, LoadForRead(r) \/ Swap(r) \/ Read(r)
    PROVE  /\ UNCHANGED <<start, end, inner, arg>>
           /\ \A x \in Calls \ {r} :
                /\ pc'[x] = pc[x] /\ ref'[x] = ref[x] /\ step'[x] = step[x]
           /\ \A q \in Scans \ {r} :
                /\ e1'[q] = e1[q] /\ s1'[q] = s1[q]
                /\ snap'[q] = snap[q] /\ settled'[q] = settled[q]
           /\ \A c \in Updates :
                /\ c # r /\ pc'[c] = pc[c] /\ ref'[c] = ref[c] /\ step'[c] = step[c]
           /\ \A g : Writing(g)' = Writing(g) /\ Returned(g)' = Returned(g)
<1> USE DEF TypeOK, lockVars
<1>1. /\ UNCHANGED <<start, end, inner, arg>>
      /\ \A x \in Calls \ {r} :
           /\ pc'[x] = pc[x] /\ ref'[x] = ref[x] /\ step'[x] = step[x]
      /\ \A q \in Scans \ {r} :
           /\ e1'[q] = e1[q] /\ s1'[q] = s1[q]
           /\ snap'[q] = snap[q] /\ settled'[q] = settled[q]
  <2>1. CASE LoadForRead(r)
    BY <2>1 DEF LoadForRead
  <2>2. CASE Swap(r)
    BY <2>2 DEF Swap
  <2>3. CASE LoadEnd(r)
    BY <2>3 DEF LoadEnd
  <2>4. CASE LoadStart(r)
    BY <2>4 DEF LoadStart
  <2>5. CASE ReadField(r)
    BY <2>5 DEF ReadField
  <2>6. CASE LoadStartAgain(r)
    BY <2>6 DEF LoadStartAgain
  <2> QED
    BY <2>1, <2>2, <2>3, <2>4, <2>5, <2>6 DEF Read
<1>2. \A c \in Updates :
        c # r /\ pc'[c] = pc[c] /\ ref'[c] = ref[c] /\ step'[c] = step[c]
  BY <1>1, CallsAssumption DEF Calls
<1>3. \A g : Writing(g)' = Writing(g) /\ Returned(g)' = Returned(g)
  BY <1>2 DEF Writing, Returned
<1> QED
  BY <1>1, <1>2, <1>3

\* A step of an update changes nothing of a scan or another update.
LEMMA UpdateFrame ==
    ASSUME TypeOK, NEW c \in Updates, Update(c)
    PROVE  /\ UNCHANGED <<state, e1, s1, snap, settled>>
           /\ \A x \in Calls \ {c} :
                /\ pc'[x] = pc[x] /\ ref'[x] = ref[x] /\ step'[x] = step[x]
           /\ \A d \in Updates \ {c} : arg'[d] = arg[d]
           /\ \A r \in Scans :
                /\ r # c /\ pc'[r] = pc[r] /\ ref'[r] = ref[r] /\ step'[r] = step[r]
<1> USE DEF TypeOK, lockVars, scanVars
<1>1. /\ UNCHANGED <<state, e1, s1, snap, settled>>
      /\ \A x \in Calls \ {c} :
           /\ pc'[x] = pc[x] /\ ref'[x] = ref[x] /\ step'[x] = step[x]
      /\ \A d \in Updates \ {c} : arg'[d] = arg[d]
  <2>1. CASE SkipNaN(c)
    BY <2>1 DEF SkipNaN
  <2>2. CASE LoadState(c)
    BY <2>2 DEF LoadState
  <2>3. CASE BeginWrite(c)
    BY <2>3 DEF BeginWrite
  <2>4. CASE Apply(c)
    BY <2>4 DEF Apply
  <2>5. CASE EndWrite(c)
    BY <2>5 DEF EndWrite
  <2> QED
    BY <2>1, <2>2, <2>3, <2>4, <2>5 DEF Update
<1>2. \A r \in Scans :
        r # c /\ pc'[r] = pc[r] /\ ref'[r] = ref[r] /\ step'[r] = step[r]
  BY <1>1, CallsAssumption DEF Calls
<1> QED
  BY <1>1, <1>2

\* Which updates are inside the lock, and which have returned, after a step
\* of an update.  Updates only ever join Returned, and their values stay.
LEMMA WritersStep ==
    ASSUME TypeOK, UpdateInv, NEW c \in Updates, Update(c), NEW g \in Gens
    PROVE  /\ BeginWrite(c) /\ ref[c] = g =>
                /\ Writing(g)' = Writing(g) \cup {c}
                /\ Returned(g)' = Returned(g)
                /\ c \notin Writing(g) \cup Returned(g)
           /\ EndWrite(c) /\ ref[c] = g =>
                /\ Writing(g)' = Writing(g) \ {c}
                /\ Returned(g)' = Returned(g) \cup {c}
                /\ c \in Writing(g) /\ c \notin Returned(g)
           /\ ~(BeginWrite(c) /\ ref[c] = g) /\ ~(EndWrite(c) /\ ref[c] = g) =>
                /\ Writing(g)' = Writing(g)
                /\ Returned(g)' = Returned(g)
           /\ Returned(g) \subseteq Returned(g)'
           /\ \A d \in Returned(g) : arg'[d] = arg[d]
<1>1. /\ \A d \in Updates \ {c} : pc'[d] = pc[d] /\ ref'[d] = ref[d] /\ arg'[d] = arg[d]
      /\ c \in Calls /\ pc \in [Calls -> UpdatePC \cup ScanPC]
      /\ ref \in [Calls -> Gens \cup {NoGen}]
  BY UpdateFrame DEF Calls, TypeOK
<1>2. CASE SkipNaN(c)
  <2>1. pc[c] = "idle" /\ pc'[c] = "done" /\ ref'[c] = ref[c] /\ ref[c] = NoGen
    BY <1>1, <1>2 DEF SkipNaN, UpdateInv
  <2>2. ref[c] # g
    BY <2>1, CallsAssumption
  <2> QED
    BY <1>1, <1>2, <2>1, <2>2 DEF Writing, Returned, BeginWrite, EndWrite
<1>3. CASE LoadState(c)
  <2>1. pc[c] = "idle" /\ pc'[c] = "start"
    BY <1>1, <1>3 DEF LoadState
  <2>2. ref[c] = NoGen /\ ref[c] # g
    BY <2>1, CallsAssumption DEF UpdateInv
  <2> QED
    BY <1>1, <2>1, <2>2 DEF Writing, Returned, BeginWrite, EndWrite
<1>4. CASE BeginWrite(c)
  <2>1. pc[c] = "start" /\ pc'[c] = "write" /\ ref'[c] = ref[c] /\ arg' = arg
    BY <1>1, <1>4 DEF BeginWrite
  <2> QED
    BY <1>1, <1>4, <2>1 DEF Writing, Returned, EndWrite
<1>5. CASE Apply(c)
  <2>1. pc[c] = "write" /\ pc'[c] \in {"write", "end"} /\ ref'[c] = ref[c] /\ arg' = arg
    BY <1>1, <1>5 DEF Apply
  <2> QED
    BY <1>1, <2>1 DEF Writing, Returned, BeginWrite, EndWrite
<1>6. CASE EndWrite(c)
  <2>1. pc[c] = "end" /\ pc'[c] = "done" /\ ref'[c] = ref[c] /\ arg' = arg
    BY <1>1, <1>6 DEF EndWrite
  <2> QED
    BY <1>1, <1>6, <2>1 DEF Writing, Returned, BeginWrite
<1> QED
  BY <1>2, <1>3, <1>4, <1>5, <1>6 DEF Update

-----------------------------------------------------------------------------
(* Each part of the inductive invariant is kept by every step *)

\* Every step is a step of an update or of a scan.
LEMMA StepKinds ==
    ASSUME [Next]_vars
    PROVE  \/ \E c \in Updates : Update(c)
           \/ \E r \in Scans : LoadForRead(r) \/ Swap(r) \/ Read(r)
           \/ UNCHANGED vars
BY DEF Next, Scans

LEMMA UpdatesFinite ==
    ASSUME NEW g
    PROVE  /\ IsFiniteSet(Updates)
           /\ IsFiniteSet(Writing(g))
           /\ IsFiniteSet(Returned(g))
           /\ IsFiniteSet(Writing(g) \cup Returned(g))
<1>1. IsFiniteSet(Updates)
  BY UpdatesAssumption, FS_Union DEF Updates
<1>2. /\ Writing(g) \subseteq Updates
      /\ Returned(g) \subseteq Updates
      /\ Writing(g) \cup Returned(g) \subseteq Updates
  BY DEF Writing, Returned
<1> QED
  BY <1>1, <1>2, FS_Subset

LEMMA CountsStep == HistogramInv /\ [Next]_vars => CountsInv'
<1> SUFFICES ASSUME HistogramInv, [Next]_vars PROVE CountsInv'
  OBVIOUS
<1>0. TypeOK /\ CountsInv /\ UpdateInv
  BY DEF HistogramInv
<1>1. ASSUME NEW c \in Updates, Update(c) PROVE CountsInv'
  <2> SUFFICES ASSUME NEW g \in Gens
               PROVE  /\ start'[g] = Cardinality(Writing(g)' \cup Returned(g)')
                      /\ end'[g] = Cardinality(Returned(g)')
    BY DEF CountsInv
  <2>0. /\ start[g] = Cardinality(Writing(g) \cup Returned(g)) /\ start[g] \in Nat
        /\ end[g] = Cardinality(Returned(g)) /\ end[g] \in Nat
        /\ start \in [Gens -> Nat] /\ end \in [Gens -> Nat]
    BY <1>0 DEF CountsInv, TypeOK
  <2>1. CASE BeginWrite(c) /\ ref[c] = g
    <3>1. start'[g] = start[g] + 1 /\ end'[g] = end[g]
      BY <2>0, <2>1 DEF BeginWrite
    <3>2. /\ Writing(g)' \cup Returned(g)' = (Writing(g) \cup Returned(g)) \cup {c}
          /\ c \notin Writing(g) \cup Returned(g)
          /\ Returned(g)' = Returned(g)
      BY <1>0, <1>1, <2>1, WritersStep
    <3>3. Cardinality((Writing(g) \cup Returned(g)) \cup {c})
            = Cardinality(Writing(g) \cup Returned(g)) + 1
      BY <3>2, UpdatesFinite, FS_AddElement
    <3> QED
      BY <2>0, <3>1, <3>2, <3>3
  <2>2. CASE EndWrite(c) /\ ref[c] = g
    <3>1. start'[g] = start[g] /\ end'[g] = end[g] + 1
      BY <2>0, <2>2 DEF EndWrite
    <3>2. /\ Writing(g)' \cup Returned(g)' = Writing(g) \cup Returned(g)
          /\ Returned(g)' = Returned(g) \cup {c} /\ c \notin Returned(g)
      BY <1>0, <1>1, <2>2, WritersStep
    <3>3. Cardinality(Returned(g) \cup {c}) = Cardinality(Returned(g)) + 1
      BY <3>2, UpdatesFinite, FS_AddElement
    <3> QED
      BY <2>0, <3>1, <3>2, <3>3
  <2>3. CASE ~(BeginWrite(c) /\ ref[c] = g) /\ ~(EndWrite(c) /\ ref[c] = g)
    <3>1. Writing(g)' = Writing(g) /\ Returned(g)' = Returned(g)
      BY <1>0, <1>1, <2>3, WritersStep
    <3>2. start'[g] = start[g] /\ end'[g] = end[g]
      <4>1. CASE SkipNaN(c)
        BY <4>1 DEF SkipNaN, lockVars
      <4>2. CASE LoadState(c)
        BY <4>2 DEF LoadState, lockVars
      <4>3. CASE BeginWrite(c)
        BY <2>0, <2>3, <4>3 DEF BeginWrite
      <4>4. CASE Apply(c)
        BY <4>4 DEF Apply
      <4>5. CASE EndWrite(c)
        BY <2>0, <2>3, <4>5 DEF EndWrite
      <4> QED
        BY <1>1, <4>1, <4>2, <4>3, <4>4, <4>5 DEF Update
    <3> QED
      BY <2>0, <3>1, <3>2
  <2> QED
    BY <2>1, <2>2, <2>3
<1>2. ASSUME NEW r \in Scans, LoadForRead(r) \/ Swap(r) \/ Read(r) PROVE CountsInv'
  <2>1. /\ start' = start /\ end' = end
        /\ \A g : Writing(g)' = Writing(g) /\ Returned(g)' = Returned(g)
    BY <1>0, <1>2, ScanFrame
  <2> QED
    BY <1>0, <2>1 DEF CountsInv
<1>3. CASE UNCHANGED vars
  BY <1>0, <1>3 DEF CountsInv, vars, Writing, Returned
<1> QED
  BY <1>1, <1>2, <1>3, StepKinds

LEMMA UpdateInvStep == HistogramInv /\ [Next]_vars => UpdateInv'
<1> SUFFICES ASSUME HistogramInv, [Next]_vars PROVE UpdateInv'
  OBVIOUS
<1>0. TypeOK /\ UpdateInv
  BY DEF HistogramInv
<1>1. ASSUME NEW c \in Updates, Update(c) PROVE UpdateInv'
  <2>0. /\ \A d \in Updates \ {c} :
             pc'[d] = pc[d] /\ ref'[d] = ref[d] /\ step'[d] = step[d] /\ arg'[d] = arg[d]
        /\ c \in Calls
        /\ pc \in [Calls -> UpdatePC \cup ScanPC]
        /\ ref \in [Calls -> Gens \cup {NoGen}]
        /\ step \in [Calls -> Nat \ {0}]
        /\ arg \in [Updates -> Values \cup {NaN}]
        /\ state \in Gens
    BY <1>0, <1>1, UpdateFrame DEF Calls, TypeOK
  <2> SUFFICES
        /\ pc'[c] = "idle" => ref'[c] = NoGen
        /\ pc'[c] \in {"idle", "start"} => step'[c] = 1
        /\ pc'[c] \in {"start", "write", "end"} => ref'[c] \in Gens
        /\ ref'[c] \in Gens => arg'[c] \in Values
        /\ pc'[c] = "write" => step'[c] \in DOMAIN WriteOrder(c, arg'[c])
    BY <1>0, <2>0 DEF UpdateInv
  <2>1. CASE SkipNaN(c)
    <3>1. pc'[c] = "done" /\ ref'[c] = NoGen
      BY <1>0, <2>0, <2>1 DEF SkipNaN, UpdateInv
    <3> QED
      BY <3>1, CallsAssumption
  <2>2. CASE LoadState(c)
    <3>1. pc'[c] = "start" /\ ref'[c] = state /\ arg'[c] \in Values
          /\ step'[c] = step[c] /\ pc[c] = "idle"
      BY <2>0, <2>2 DEF LoadState
    <3>2. step[c] = 1
      BY <1>0, <3>1 DEF UpdateInv
    <3> QED
      BY <2>0, <3>1, <3>2
  <2>3. CASE BeginWrite(c)
    <3>1. pc[c] = "start" /\ pc'[c] = "write" /\ ref'[c] = ref[c]
          /\ arg'[c] = arg[c] /\ step'[c] = step[c]
      BY <2>0, <2>3 DEF BeginWrite
    <3>2. step[c] = 1 /\ ref[c] \in Gens /\ arg[c] \in Values
      BY <1>0, <3>1 DEF UpdateInv
    <3>3. 1 \in DOMAIN WriteOrder(c, arg[c])
      BY <3>2, WriteOrderType
    <3> QED
      BY <3>1, <3>2, <3>3
  <2>4. CASE Apply(c)
    <3>1. /\ pc[c] = "write" /\ ref'[c] = ref[c] /\ arg'[c] = arg[c]
          /\ \/ /\ step[c] < Len(WriteOrder(c, arg[c]))
                /\ step'[c] = step[c] + 1 /\ pc'[c] = "write"
             \/ pc'[c] = "end"
      BY <2>0, <2>4 DEF Apply
    <3>2. ref[c] \in Gens /\ arg[c] \in Values /\ step[c] \in DOMAIN WriteOrder(c, arg[c])
      BY <1>0, <3>1 DEF UpdateInv
    <3>3. /\ Len(WriteOrder(c, arg[c])) \in Nat
          /\ DOMAIN WriteOrder(c, arg[c]) = 1 .. Len(WriteOrder(c, arg[c]))
      BY <3>2, WriteOrderType
    <3> QED
      BY <3>1, <3>2, <3>3
  <2>5. CASE EndWrite(c)
    <3>1. pc[c] = "end" /\ pc'[c] = "done" /\ ref'[c] = ref[c] /\ arg'[c] = arg[c]
      BY <2>0, <2>5 DEF EndWrite
    <3> QED
      BY <1>0, <3>1 DEF UpdateInv
  <2> QED
    BY <1>1, <2>1, <2>2, <2>3, <2>4, <2>5 DEF Update
<1>2. ASSUME NEW r \in Scans, LoadForRead(r) \/ Swap(r) \/ Read(r) PROVE UpdateInv'
  BY <1>0, <1>2, ScanFrame DEF UpdateInv
<1>3. CASE UNCHANGED vars
  BY <1>0, <1>3 DEF UpdateInv, vars
<1> QED
  BY <1>1, <1>2, <1>3, StepKinds

LEMMA GensStep == HistogramInv /\ [Next]_vars => GensInv'
<1> SUFFICES ASSUME HistogramInv, [Next]_vars PROVE GensInv'
  OBVIOUS
<1>0. /\ TypeOK /\ GensInv
      /\ state \in Gens /\ pc \in [Calls -> UpdatePC \cup ScanPC]
      /\ ref \in [Calls -> Gens \cup {NoGen}]
      /\ Takes \subseteq Scans /\ Scans \subseteq Calls /\ Updates \subseteq Calls
      /\ First \notin Takes /\ NoGen \notin Takes /\ Updates \cap Takes = {}
      /\ Reads \cap Takes = {}
  BY CallsAssumption DEF HistogramInv, TypeOK, Scans, Calls, Gens
<1>1. ASSUME NEW x \in Calls,
             pc' = [pc EXCEPT ![x] = pc'[x]],
             pc[x] # "idle" => pc'[x] # "idle",
             \/ ref' = ref /\ (x \in Takes => pc[x] # "idle")
             \/ ref' = [ref EXCEPT ![x] = state] /\ x \notin Takes,
             state' = state
      PROVE  GensInv'
  BY <1>0, <1>1 DEF GensInv
<1>2. ASSUME NEW c \in Updates, Update(c) PROVE GensInv'
  <2>1. CASE SkipNaN(c)
    BY <1>0, <1>1, <2>1 DEF SkipNaN
  <2>2. CASE LoadState(c)
    BY <1>0, <1>1, <2>2 DEF LoadState
  <2>3. CASE BeginWrite(c)
    BY <1>0, <1>1, <2>3 DEF BeginWrite
  <2>4. CASE Apply(c)
    <3>1. pc[c] = "write" /\ (pc' = pc \/ pc' = [pc EXCEPT ![c] = "end"])
          /\ ref' = ref /\ state' = state
      BY <2>4 DEF Apply
    <3> QED
      BY <1>0, <1>1, <3>1
  <2>5. CASE EndWrite(c)
    BY <1>0, <1>1, <2>5 DEF EndWrite
  <2> QED
    BY <1>2, <2>1, <2>2, <2>3, <2>4, <2>5 DEF Update
<1>3. ASSUME NEW r \in Reads, LoadForRead(r) PROVE GensInv'
  BY <1>0, <1>1, <1>3 DEF LoadForRead, Scans
<1>4. ASSUME NEW t \in Takes, Swap(t) PROVE GensInv'
  BY <1>0, <1>4 DEF Swap, GensInv
<1>5. ASSUME NEW r \in Scans, Read(r) PROVE GensInv'
  <2>1. /\ pc[r] # "idle" /\ pc'[r] # "idle" /\ pc' = [pc EXCEPT ![r] = pc'[r]]
        /\ ref' = ref /\ state' = state
    BY <1>0, <1>5 DEF Read, LoadEnd, LoadStart, ReadField, LoadStartAgain
  <2> QED
    BY <1>0, <1>1, <2>1
<1>6. CASE UNCHANGED vars
  BY <1>0, <1>6 DEF GensInv, vars
<1> QED
  BY <1>2, <1>3, <1>4, <1>5, <1>6 DEF Next, Scans

LEMMA InnerStep == HistogramInv /\ [Next]_vars => InnerInv'
<1> SUFFICES ASSUME HistogramInv, [Next]_vars PROVE InnerInv'
  OBVIOUS
<1>0. TypeOK /\ UpdateInv /\ InnerInv
  BY DEF HistogramInv
<1>1. ASSUME NEW c \in Updates, Update(c) PROVE InnerInv'
  <2> SUFFICES ASSUME NEW g \in Gens, NEW f \in Fields
               PROVE  inner'[g][f] = {d \in Updates : ref'[d] = g /\ AppliedTo(d, f)'}
    BY DEF InnerInv
  <2>0. /\ inner[g][f] = {d \in Updates : ref[d] = g /\ AppliedTo(d, f)}
        /\ c \in Calls
        /\ pc \in [Calls -> UpdatePC \cup ScanPC]
        /\ ref \in [Calls -> Gens \cup {NoGen}]
        /\ step \in [Calls -> Nat \ {0}]
        /\ inner \in [Gens -> [Fields -> SUBSET Updates]]
        /\ \A d \in Updates \ {c} : AppliedTo(d, f)' <=> AppliedTo(d, f)
        /\ \A d \in Updates \ {c} : ref'[d] = ref[d]
    BY <1>0, <1>1, UpdateFrame DEF InnerInv, TypeOK, Calls, AppliedTo
  <2>1. ASSUME inner' = inner,
               (ref'[c] = g /\ AppliedTo(c, f)') <=> (ref[c] = g /\ AppliedTo(c, f))
        PROVE  inner'[g][f] = {d \in Updates : ref'[d] = g /\ AppliedTo(d, f)'}
    BY <2>0, <2>1
  <2>2. CASE SkipNaN(c)
    <3>1. /\ pc[c] = "idle" /\ ref'[c] = ref[c] /\ inner' = inner
      BY <2>2 DEF SkipNaN, lockVars
    <3>2. ref[c] # g
      BY <1>0, <3>1, CallsAssumption DEF UpdateInv
    <3> QED
      BY <2>1, <3>1, <3>2
  <2>3. CASE LoadState(c)
    <3>1. pc[c] = "idle" /\ pc'[c] = "start" /\ inner' = inner
      BY <2>0, <2>3 DEF LoadState, lockVars
    <3>2. ~AppliedTo(c, f) /\ ~AppliedTo(c, f)'
      BY <3>1 DEF AppliedTo
    <3> QED
      BY <2>1, <3>1, <3>2
  <2>4. CASE BeginWrite(c)
    <3>1. /\ pc[c] = "start" /\ pc'[c] = "write" /\ step'[c] = step[c]
          /\ inner' = inner /\ ref' = ref
      BY <2>0, <2>4 DEF BeginWrite
    <3>2. step[c] = 1
      BY <1>0, <3>1 DEF UpdateInv
    <3>3. ~AppliedTo(c, f) /\ ~AppliedTo(c, f)'
      BY <3>1, <3>2 DEF AppliedTo
    <3> QED
      BY <2>1, <3>1, <3>3
  <2>5. CASE Apply(c)
    <3> DEFINE w == WriteOrder(c, arg[c])
               k == step[c]
    <3>1. /\ pc[c] = "write" /\ ref' = ref /\ arg' = arg
          /\ inner' = [inner EXCEPT ![ref[c]][w[k]] = inner[ref[c]][w[k]] \cup {c}]
          /\ \/ k < Len(w) /\ step'[c] = k + 1 /\ pc'[c] = "write"
             \/ ~(k < Len(w)) /\ step'[c] = k /\ pc'[c] = "end"
      BY <2>0, <2>5 DEF Apply
    <3>2. /\ ref[c] \in Gens /\ arg[c] \in Values /\ k \in 1 .. Len(w)
          /\ Len(w) \in Nat /\ w[k] \in Fields /\ DOMAIN w = 1 .. Len(w)
      BY <1>0, <3>1, WriteOrderType DEF UpdateInv
    <3>3. AppliedTo(c, f)' <=> (AppliedTo(c, f) \/ w[k] = f)
      <4>1. AppliedTo(c, f) <=> \E j \in 1 .. k - 1 : w[j] = f
        BY <3>1 DEF AppliedTo
      <4>2. CASE k < Len(w) /\ step'[c] = k + 1 /\ pc'[c] = "write"
        <5>1. AppliedTo(c, f)' <=> \E j \in 1 .. (k + 1) - 1 : w[j] = f
          BY <3>1, <4>2 DEF AppliedTo
        <5> QED
          BY <3>2, <4>1, <5>1
      <4>3. CASE ~(k < Len(w)) /\ pc'[c] = "end"
        <5>1. k = Len(w)
          BY <3>2, <4>3
        <5>2. AppliedTo(c, f)' <=> \E j \in 1 .. k : w[j] = f
          BY <3>1, <3>2, <4>3, <5>1 DEF AppliedTo, Touches
        <5> QED
          BY <3>2, <4>1, <5>2
      <4> QED
        BY <3>1, <4>2, <4>3
    <3>4. inner'[g][f] = IF ref[c] = g /\ w[k] = f THEN inner[g][f] \cup {c} ELSE inner[g][f]
      BY <2>0, <3>1, <3>2
    <3> QED
      BY <2>0, <3>1, <3>3, <3>4
  <2>6. CASE EndWrite(c)
    <3>1. /\ pc[c] = "end" /\ pc'[c] = "done" /\ arg' = arg
          /\ inner' = inner /\ ref' = ref
      BY <2>0, <2>6 DEF EndWrite
    <3>2. AppliedTo(c, f) <=> AppliedTo(c, f)'
      BY <3>1 DEF AppliedTo
    <3> QED
      BY <2>1, <3>1, <3>2
  <2> QED
    BY <1>1, <2>2, <2>3, <2>4, <2>5, <2>6 DEF Update
<1>2. ASSUME NEW r \in Scans, LoadForRead(r) \/ Swap(r) \/ Read(r) PROVE InnerInv'
  <2>1. /\ inner' = inner /\ arg' = arg
        /\ \A c \in Updates : pc'[c] = pc[c] /\ ref'[c] = ref[c] /\ step'[c] = step[c]
    BY <1>0, <1>2, ScanFrame
  <2> QED
    BY <1>0, <2>1 DEF InnerInv, AppliedTo
<1>3. CASE UNCHANGED vars
  BY <1>0, <1>3 DEF InnerInv, AppliedTo, vars
<1> QED
  BY <1>1, <1>2, <1>3, StepKinds

-----------------------------------------------------------------------------
(* Quiescence: what a reader may rely on *)

\* If `start` has not passed `end`, no update is inside the lock.
LEMMA AgreeingCounters ==
    ASSUME TypeOK, CountsInv, NEW g \in Gens, start[g] <= end[g]
    PROVE  Writing(g) = {}
<1> DEFINE all == Writing(g) \cup Returned(g)
<1>1. IsFiniteSet(all) /\ Returned(g) \in SUBSET all
  BY UpdatesFinite
<1>2. /\ Cardinality(Returned(g)) <= Cardinality(all)
      /\ Cardinality(all) = Cardinality(Returned(g)) => all = Returned(g)
  BY <1>1, FS_Subset
<1>3. /\ start[g] = Cardinality(all) /\ end[g] = Cardinality(Returned(g))
      /\ start[g] \in Nat /\ end[g] \in Nat
  BY DEF CountsInv, TypeOK
<1>4. all = Returned(g)
  BY <1>2, <1>3
<1> QED
  BY <1>4 DEF Writing, Returned

\* A generation nobody is writing holds exactly its returned updates.
LEMMA QuietInner ==
    ASSUME TypeOK, InnerInv, NEW g \in Gens, Writing(g) = {}, NEW f \in Fields
    PROVE  inner[g][f] = {c \in Returned(g) : Touches(c, arg[c], f)}
<1>1. inner[g][f] = {c \in Updates : ref[c] = g /\ AppliedTo(c, f)}
  BY DEF InnerInv
<1>2. ASSUME NEW c \in Updates, ref[c] = g
      PROVE  AppliedTo(c, f) <=> pc[c] = "done" /\ Touches(c, arg[c], f)
  <2>1. pc[c] # "write" /\ pc[c] # "end"
    BY <1>2 DEF Writing
  <2> QED
    BY <2>1 DEF AppliedTo
<1> QED
  BY <1>1, <1>2 DEF Returned

LEMMA CountIsField == count \in Fields /\ count \notin {min, max}
BY DEF Fields, count, min, max

\* The count field of a snapshot names every update in it.
LEMMA SnapshotCount ==
    ASSUME UpdateInv, NEW g \in Gens
    PROVE  SnapshotOf(Returned(g), arg)[count] = Returned(g)
<1>1. \A c \in Returned(g) : Touches(c, arg[c], count)
  BY WriteOrderType DEF UpdateInv, Returned
<1> QED
  BY <1>1, CountIsField DEF SnapshotOf

\* A snapshot depends only on the values of the updates in it.
LEMMA SnapshotSame ==
    ASSUME NEW S, NEW a, NEW b, \A c \in S : a[c] = b[c]
    PROVE  SnapshotOf(S, a) = SnapshotOf(S, b)
BY DEF SnapshotOf

-----------------------------------------------------------------------------
(* The scans *)

\* The counters of the lock only grow.
LEMMA CountersGrow ==
    ASSUME TypeOK, UpdateInv, NEW c \in Updates, Update(c), NEW g \in Gens
    PROVE  start[g] <= start'[g] /\ end[g] <= end'[g]
<1>0. start \in [Gens -> Nat] /\ end \in [Gens -> Nat] /\ start[g] \in Nat /\ end[g] \in Nat
  BY DEF TypeOK
<1>1. CASE SkipNaN(c) \/ LoadState(c) \/ Apply(c)
  BY <1>0, <1>1 DEF SkipNaN, LoadState, Apply, lockVars
<1>2. CASE BeginWrite(c)
  BY <1>0, <1>2 DEF BeginWrite
<1>3. CASE EndWrite(c)
  BY <1>0, <1>3 DEF EndWrite
<1> QED
  BY <1>1, <1>2, <1>3 DEF Update

\* The locals of a scan that ScanInv speaks of, for one scan.
LEMMA ScanInvStep == HistogramInv /\ [Next]_vars => ScanInv'
<1> SUFFICES ASSUME HistogramInv, [Next]_vars PROVE ScanInv'
  OBVIOUS
<1>0. TypeOK /\ UpdateInv /\ ScanInv
  BY DEF HistogramInv
<1>1. ASSUME NEW c \in Updates, Update(c) PROVE ScanInv'
  <2> SUFFICES ASSUME NEW r \in Scans
      PROVE  /\ pc'[r] = "idle" => settled'[r] = {}
             /\ pc'[r] # "idle" => ref'[r] \in Gens
             /\ settled'[r] \subseteq Returned(ref[r])'
             /\ ref'[r] = ref[r]
             /\ pc'[r] \in {"idle", "e1", "s1"} => step'[r] = 1 /\ snap'[r] = NewState
             /\ pc'[r] = "s1" => e1'[r] <= end'[ref'[r]]
             /\ pc'[r] \in {"read", "s2"} => s1'[r] <= start'[ref'[r]]
             /\ pc'[r] = "read" => step'[r] \in 1 .. ReadLen
             /\ pc'[r] = "read" /\ step'[r] > 1 => step'[r] <= LastRead(snap'[r])
    BY DEF ScanInv, Returned
  <2>1. /\ e1' = e1 /\ s1' = s1 /\ snap' = snap /\ settled' = settled
        /\ pc'[r] = pc[r] /\ ref'[r] = ref[r] /\ step'[r] = step[r]
    BY <1>0, <1>1, UpdateFrame
  <2>2. CASE pc[r] = "idle"
    BY <1>0, <2>1, <2>2 DEF ScanInv
  <2>3. CASE pc[r] # "idle"
    <3>1. PICK g \in Gens : ref[r] = g
      BY <1>0, <2>3 DEF ScanInv
    <3>2. Returned(g) \subseteq Returned(g)'
      BY <1>0, <1>1, WritersStep
    <3>3. start[g] <= start'[g] /\ end[g] <= end'[g]
      BY <1>0, <1>1, CountersGrow
    <3>4. /\ e1[r] \in Nat /\ s1[r] \in Nat
          /\ start[g] \in Nat /\ end[g] \in Nat
      BY <1>0 DEF TypeOK
    <3>5. start'[g] \in Nat /\ end'[g] \in Nat
      BY TypeStep DEF TypeOK
    <3>6. settled'[r] \subseteq Returned(g)'
      BY <1>0, <2>1, <3>1, <3>2 DEF ScanInv
    <3>7. Returned(g)' = {d \in Updates : ref'[d] = g /\ pc'[d] = "done"}
      BY DEF Returned
    <3>8. settled'[r] \subseteq Returned(ref[r])'
      BY <2>1, <3>1, <3>6, <3>7 DEF Returned
    <3> QED
      BY <1>0, <2>1, <2>3, <3>1, <3>3, <3>4, <3>5, <3>8 DEF ScanInv
  <2> QED
    BY <2>2, <2>3
<1>2. ASSUME NEW r \in Scans, LoadForRead(r) \/ Swap(r) \/ Read(r) PROVE ScanInv'
  <2>0. /\ start' = start /\ end' = end
        /\ \A g : Returned(g)' = Returned(g)
        /\ \A q \in Scans \ {r} :
             /\ q \in Calls
             /\ pc'[q] = pc[q] /\ ref'[q] = ref[q] /\ step'[q] = step[q]
             /\ e1'[q] = e1[q] /\ s1'[q] = s1[q]
             /\ snap'[q] = snap[q] /\ settled'[q] = settled[q]
        /\ r \in Calls
        /\ pc \in [Calls -> UpdatePC \cup ScanPC]
        /\ ref \in [Calls -> Gens \cup {NoGen}]
        /\ step \in [Calls -> Nat \ {0}]
        /\ start \in [Gens -> Nat] /\ end \in [Gens -> Nat]
        /\ e1 \in [Scans -> Nat] /\ s1 \in [Scans -> Nat]
        /\ snap \in [Scans -> [Fields -> SUBSET Updates]]
        /\ settled \in [Scans -> SUBSET Updates]
        /\ state \in Gens
    BY <1>0, <1>2, ScanFrame DEF TypeOK, Calls
  <2>1. ASSUME NEW q \in Scans \ {r}
        PROVE  /\ pc'[q] = "idle" => settled'[q] = {}
               /\ pc'[q] # "idle" => ref'[q] \in Gens
               /\ settled'[q] \subseteq Returned(ref'[q])
               /\ pc'[q] \in {"idle", "e1", "s1"} => step'[q] = 1 /\ snap'[q] = NewState
               /\ pc'[q] = "s1" => e1'[q] <= end'[ref'[q]]
               /\ pc'[q] \in {"read", "s2"} => s1'[q] <= start'[ref'[q]]
               /\ pc'[q] = "read" => step'[q] \in 1 .. ReadLen
               /\ pc'[q] = "read" /\ step'[q] > 1 => step'[q] <= LastRead(snap'[q])
    BY <1>0, <2>0 DEF ScanInv
  <2> SUFFICES
        /\ pc'[r] # "idle" /\ ref'[r] \in Gens
        /\ settled'[r] \subseteq Returned(ref'[r])
        /\ pc'[r] \in {"e1", "s1"} => step'[r] = 1 /\ snap'[r] = NewState
        /\ pc'[r] = "s1" => e1'[r] <= end'[ref'[r]]
        /\ pc'[r] \in {"read", "s2"} => s1'[r] <= start'[ref'[r]]
        /\ pc'[r] = "read" => step'[r] \in 1 .. ReadLen
        /\ pc'[r] = "read" /\ step'[r] > 1 => step'[r] <= LastRead(snap'[r])
    <3>1. \A g : Returned(g) = {c \in Updates : ref'[c] = g /\ pc'[c] = "done"}
      BY <2>0 DEF Returned
    <3>2. \A q \in Scans : settled'[q] \subseteq Returned(ref'[q])
      BY <2>1
    <3>3. \A q \in Scans : settled'[q] \subseteq Returned(ref[q])'
      BY <3>1, <3>2 DEF Returned
    <3> QED
      BY <2>1, <3>3 DEF ScanInv
  <2>2. CASE LoadForRead(r) \/ Swap(r)
    <3>1. /\ pc[r] = "idle" /\ pc'[r] = "e1" /\ ref'[r] = state
          /\ settled'[r] = Returned(state)
          /\ step'[r] = step[r] /\ snap'[r] = snap[r]
      BY <2>0, <2>2 DEF LoadForRead, Swap
    <3>2. step[r] = 1 /\ snap[r] = NewState
      BY <1>0, <3>1 DEF ScanInv
    <3> QED
      BY <2>0, <3>1, <3>2
  <2>3. CASE LoadEnd(r)
    <3>1. /\ pc[r] = "e1" /\ pc'[r] = "s1" /\ ref'[r] = ref[r] /\ settled'[r] = settled[r]
          /\ step'[r] = step[r] /\ snap'[r] = snap[r] /\ e1'[r] = end[ref[r]]
      BY <2>0, <2>3 DEF LoadEnd
    <3>2. /\ step[r] = 1 /\ snap[r] = NewState /\ ref[r] \in Gens
          /\ settled[r] \subseteq Returned(ref[r])
      BY <1>0, <3>1 DEF ScanInv
    <3> QED
      BY <2>0, <3>1, <3>2
  <2>4. CASE LoadStart(r)
    <3>1. /\ pc[r] = "s1" /\ ref'[r] = ref[r] /\ settled'[r] = settled[r]
          /\ step'[r] = step[r] /\ snap'[r] = snap[r]
          /\ \/ pc'[r] = "read" /\ s1'[r] = start[ref[r]]
             \/ pc'[r] = "e1"
      BY <2>0, <2>4 DEF LoadStart
    <3>2. /\ step[r] = 1 /\ snap[r] = NewState /\ ref[r] \in Gens
          /\ settled[r] \subseteq Returned(ref[r])
      BY <1>0, <3>1 DEF ScanInv
    <3> QED
      BY <2>0, <3>1, <3>2, ReadOrderType
  <2>5. CASE ReadField(r)
    <3> DEFINE f == ReadOrder[step[r]]
               w == [snap[r] EXCEPT ![f] = inner[ref[r]][f]]
    <3>1. /\ pc[r] = "read" /\ ref'[r] = ref[r] /\ settled'[r] = settled[r]
          /\ s1'[r] = s1[r] /\ snap'[r] = w
          /\ \/ step[r] < LastRead(w) /\ pc'[r] = "read" /\ step'[r] = step[r] + 1
             \/ pc'[r] = "s2"
      BY <2>0, <2>5 DEF ReadField
    <3>2. /\ ref[r] \in Gens /\ settled[r] \subseteq Returned(ref[r])
          /\ step[r] \in 1 .. ReadLen /\ s1[r] <= start[ref[r]]
      BY <1>0, <3>1 DEF ScanInv
    <3>3. LastRead(w) \in Nat /\ LastRead(w) <= ReadLen /\ ReadLen \in Nat
      BY LenBoundaries DEF LastRead, ReadLen
    <3>4. pc'[r] = "read" => step'[r] \in 1 .. ReadLen /\ step'[r] <= LastRead(snap'[r])
      <4> HIDE DEF w
      <4> QED
        BY <3>1, <3>2, <3>3
    <3> QED
      BY <2>0, <3>1, <3>2, <3>4
  <2>6. CASE LoadStartAgain(r)
    <3>1. /\ pc[r] = "s2" /\ ref'[r] = ref[r] /\ settled'[r] = settled[r]
          /\ step'[r] = 1
          /\ \/ pc'[r] = "done"
             \/ pc'[r] = "e1" /\ snap'[r] = NewState
      BY <2>0, <2>6 DEF LoadStartAgain
    <3>2. ref[r] \in Gens /\ settled[r] \subseteq Returned(ref[r])
      BY <1>0, <3>1 DEF ScanInv
    <3> QED
      BY <2>0, <3>1, <3>2
  <2> QED
    BY <1>2, <2>2, <2>3, <2>4, <2>5, <2>6 DEF Read
<1>3. CASE UNCHANGED vars
  BY <1>0, <1>3 DEF ScanInv, vars, Returned
<1> QED
  BY <1>1, <1>2, <1>3, StepKinds

LEMMA ReadInvStep == HistogramInv /\ [Next]_vars => ReadInv'
<1> SUFFICES ASSUME HistogramInv, [Next]_vars PROVE ReadInv'
  OBVIOUS
<1>0. TypeOK /\ UpdateInv /\ InnerInv /\ CountsInv /\ ScanInv /\ ReadInv
  BY DEF HistogramInv
<1> DEFINE Good(r, g, W, R, p, k, s, in, a) ==
        /\ W = {}
        /\ p = "read" => \A f \in Fields : s[f] =
              IF \E j \in 1 .. k - 1 : ReadOrder[j] = f THEN in[g][f] ELSE {}
        /\ p = "s2" => s = SnapshotOf(R, a)
<1>a. ASSUME \A r \in Scans : \A g \in Gens :
                 ref'[r] = g /\ pc'[r] \in {"read", "s2"} /\ start'[g] = s1'[r] =>
                   Good(r, g, Writing(g)', Returned(g)', pc'[r], step'[r], snap'[r], inner', arg')
      PROVE  ReadInv'
  <2> SUFFICES ASSUME NEW r \in Scans, pc'[r] \in {"read", "s2"},
                      start'[ref'[r]] = s1'[r]
               PROVE  /\ Writing(ref[r])' = {}
                      /\ pc'[r] = "read" => \A f \in Fields : snap'[r][f] =
                            IF \E k \in 1 .. step'[r] - 1 : ReadOrder[k] = f
                            THEN inner'[ref'[r]][f] ELSE {}
                      /\ pc'[r] = "s2" => snap'[r] = SnapshotOf(Returned(ref[r])', arg')
    BY DEF ReadInv, SnapshotOf
  <2>1. PICK g \in Gens : ref'[r] = g
    BY ScanInvStep DEF ScanInv
  <2>2. Good(r, g, Writing(g)', Returned(g)', pc'[r], step'[r], snap'[r], inner', arg')
    BY <1>a, <2>1
  <2>3. Writing(ref[r])' = Writing(g)' /\ Returned(ref[r])' = Returned(g)'
    BY <2>1 DEF Writing, Returned
  <2> QED
    BY <2>1, <2>2, <2>3
<1>b. ASSUME NEW r \in Scans, NEW g \in Gens, ref[r] = g,
             pc[r] \in {"read", "s2"}, start[g] = s1[r]
      PROVE  Good(r, g, Writing(g), Returned(g), pc[r], step[r], snap[r], inner, arg)
  BY <1>0, <1>b DEF ReadInv
<1>1. ASSUME NEW c \in Updates, Update(c) PROVE ReadInv'
  <2> SUFFICES ASSUME NEW r \in Scans, NEW g \in Gens,
                      ref'[r] = g, pc'[r] \in {"read", "s2"}, start'[g] = s1'[r]
               PROVE  Good(r, g, Writing(g)', Returned(g)', pc'[r], step'[r], snap'[r], inner', arg')
    BY <1>a
  <2>1. /\ s1' = s1 /\ snap' = snap
        /\ pc'[r] = pc[r] /\ ref'[r] = ref[r] /\ step'[r] = step[r]
    BY <1>0, <1>1, UpdateFrame
  <2>2. start[g] = s1[r] /\ start'[g] = start[g]
    <3>1. s1[r] <= start[g] /\ start[g] <= start'[g]
      BY <1>0, <1>1, <2>1, CountersGrow DEF ScanInv
    <3>2. s1[r] \in Nat /\ start[g] \in Nat /\ start'[g] \in Nat
      BY <1>0, TypeStep DEF TypeOK
    <3> QED
      BY <2>1, <3>1, <3>2
  <2>3. Good(r, g, Writing(g), Returned(g), pc[r], step[r], snap[r], inner, arg)
    BY <1>b, <2>1, <2>2
  <2>4. Writing(g) = {}
    BY <2>3
  <2>5. ~(BeginWrite(c) /\ ref[c] = g)
    BY <1>0, <2>2 DEF BeginWrite, TypeOK
  <2>6. ~(EndWrite(c) /\ ref[c] = g)
    BY <2>4 DEF EndWrite, Writing
  <2>7. /\ Writing(g)' = Writing(g) /\ Returned(g)' = Returned(g)
        /\ \A d \in Returned(g) : arg'[d] = arg[d]
    BY <1>0, <1>1, <2>5, <2>6, WritersStep
  <2>8. inner'[g] = inner[g]
    <3>1. CASE Apply(c)
      <4>1. pc[c] = "write" /\ ref[c] # g
        BY <2>4, <3>1 DEF Apply, Writing
      <4>2. ref[c] \in Gens
        BY <1>0, <4>1 DEF UpdateInv
      <4> QED
        BY <1>0, <3>1, <4>1, <4>2 DEF Apply, TypeOK
    <3>2. CASE ~Apply(c)
      BY <1>1, <3>2 DEF Update, SkipNaN, LoadState, BeginWrite, EndWrite, lockVars
    <3> QED
      BY <3>1, <3>2
  <2>9. SnapshotOf(Returned(g), arg) = SnapshotOf(Returned(g)', arg')
    BY <2>7, SnapshotSame
  <2> QED
    BY <2>1, <2>3, <2>7, <2>8, <2>9
<1>2. ASSUME NEW r \in Scans, LoadForRead(r) \/ Swap(r) \/ Read(r) PROVE ReadInv'
  <2> SUFFICES ASSUME NEW q \in Scans, NEW g \in Gens,
                      ref'[q] = g, pc'[q] \in {"read", "s2"}, start'[g] = s1'[q]
               PROVE  Good(q, g, Writing(g)', Returned(g)', pc'[q], step'[q], snap'[q], inner', arg')
    BY <1>a
  <2>0. /\ UNCHANGED <<start, end, inner, arg>>
        /\ Writing(g)' = Writing(g) /\ Returned(g)' = Returned(g)
    BY <1>0, <1>2, ScanFrame
  <2>t. /\ r \in Calls /\ pc \in [Calls -> UpdatePC \cup ScanPC]
        /\ ref \in [Calls -> Gens \cup {NoGen}]
        /\ step \in [Calls -> Nat \ {0}]
        /\ start \in [Gens -> Nat] /\ end \in [Gens -> Nat]
        /\ e1 \in [Scans -> Nat] /\ s1 \in [Scans -> Nat]
        /\ snap \in [Scans -> [Fields -> SUBSET Updates]]
        /\ inner \in [Gens -> [Fields -> SUBSET Updates]]
    BY <1>0 DEF TypeOK, Calls
  <2>1. CASE q # r
    <3>1. /\ pc'[q] = pc[q] /\ ref'[q] = ref[q] /\ step'[q] = step[q]
          /\ s1'[q] = s1[q] /\ snap'[q] = snap[q]
      BY <1>0, <1>2, <2>1, ScanFrame DEF Calls
    <3> QED
      BY <1>b, <2>0, <3>1
  <2>2. CASE q = r /\ LoadStart(r)
    <3>1. /\ pc[r] = "s1" /\ pc'[r] = "read" /\ ref[r] = g /\ start[g] = e1[r]
          /\ step'[r] = step[r] /\ snap'[r] = snap[r]
      BY <2>2, <2>t DEF LoadStart
    <3>2. e1[r] <= end[g] /\ step[r] = 1 /\ snap[r] = NewState
      BY <1>0, <3>1 DEF ScanInv
    <3>3. Writing(g) = {}
      BY <1>0, <3>1, <3>2, AgreeingCounters
    <3>4. \A f \in Fields : NewState[f] = {}
      BY DEF NewState
    <3> QED
      BY <2>0, <2>2, <3>1, <3>2, <3>3, <3>4
  <2>3. CASE q = r /\ ReadField(r)
    <3> DEFINE k == step[r]
               f == ReadOrder[k]
               w == [snap[r] EXCEPT ![f] = inner[g][f]]
    <3>1. /\ pc[r] = "read" /\ ref[r] = g /\ s1'[r] = s1[r] /\ snap'[r] = w
          /\ \/ k < LastRead(w) /\ pc'[r] = "read" /\ step'[r] = k + 1
             \/ ~(k < LastRead(w)) /\ pc'[r] = "s2"
      BY <2>3, <2>t DEF ReadField
    <3>2. Good(r, g, Writing(g), Returned(g), pc[r], k, snap[r], inner, arg)
      BY <1>b, <2>0, <2>3, <3>1
    <3>3. k \in 1 .. ReadLen /\ f \in Fields
      BY <1>0, <3>1, ReadOrderType DEF ScanInv
    <3>4. \A h \in Fields : w[h] =
            IF \E j \in 1 .. k : ReadOrder[j] = h THEN inner[g][h] ELSE {}
      <4>1. ASSUME NEW h \in Fields
            PROVE  (\E j \in 1 .. k : ReadOrder[j] = h) <=>
                     (f = h \/ \E j \in 1 .. k - 1 : ReadOrder[j] = h)
        <5>1. k \in Nat /\ k >= 1
          BY <3>3, ReadOrderType
        <5>2. \A j : j \in 1 .. k <=> j = k \/ j \in 1 .. k - 1
          BY <5>1
        <5> QED
          BY <5>2
      <4>2. \A h \in Fields : w[h] = IF h = f THEN inner[g][f] ELSE snap[r][h]
        BY <2>t
      <4>3. \A h \in Fields : snap[r][h] =
              IF \E j \in 1 .. k - 1 : ReadOrder[j] = h THEN inner[g][h] ELSE {}
        BY <3>1, <3>2
      <4> HIDE DEF w, k, f
      <4> QED
        BY <4>1, <4>2, <4>3
    <3>5. CASE k < LastRead(w) /\ pc'[r] = "read" /\ step'[r] = k + 1
      <4>1. 1 .. k = 1 .. (k + 1) - 1
        BY <3>3
      <4> HIDE DEF w
      <4> QED
        BY <2>0, <2>3, <3>1, <3>2, <3>4, <3>5, <4>1
    <3>6. CASE ~(k < LastRead(w)) /\ pc'[r] = "s2"
      <4> DEFINE all == SnapshotOf(Returned(g), arg)
      <4>1. \A h \in Fields :
              inner[g][h] = {c \in Returned(g) : Touches(c, arg[c], h)}
        BY <1>0, <3>2, QuietInner
      <4>2. w[count] = inner[g][count]
        <5>1. ReadOrder[1] = count /\ 1 \in 1 .. k
          BY <3>3, ReadOrderType
        <5> QED
          BY <3>4, <5>1, CountIsField
      <4>3. inner[g][count] = Returned(g)
        BY <4>1, CountIsField, WriteOrderType, <1>0 DEF UpdateInv, Returned
      <4>4. LastRead(w) = IF CountOf(Returned(g)) = 0 THEN Len(Boundaries) + 3 ELSE ReadLen
        BY <4>2, <4>3 DEF LastRead
      <4>5. k = LastRead(w)
        <5>1. k > 1 => k <= LastRead(snap[r])
          BY <1>0, <3>1 DEF ScanInv
        <5>2. k > 1 => snap[r][count] = w[count]
          <6>1. k > 1 => f # count
            BY <3>3, ReadOrderType
          <6> QED
            BY <2>t, <6>1
        <5>3. k > 1 => k <= LastRead(w)
          BY <5>1, <5>2 DEF LastRead
        <5>4. LastRead(w) \in Nat /\ LastRead(w) > 1
          BY <4>4, LenBoundaries DEF ReadLen
        <5> HIDE DEF w
        <5> QED
          BY <3>3, <3>6, <5>3, <5>4
      <4>6. ASSUME NEW h \in Fields
            PROVE  w[h] = all[h]
        <5>1. PICK i \in 1 .. ReadLen : ReadOrder[i] = h
          BY ReadOrderType
        <5>2. CASE CountOf(Returned(g)) = 0 /\ h \in {min, max}
          <6>1. k = Len(Boundaries) + 3
            BY <4>4, <4>5, <5>2
          <6>2. \A j \in 1 .. k : ReadOrder[j] # h
            BY <3>3, <5>2, <6>1, ReadOrderType, LenBoundaries
          <6> QED
            BY <3>4, <5>2, <6>2 DEF SnapshotOf
        <5>3. CASE ~(CountOf(Returned(g)) = 0 /\ h \in {min, max})
          <6>1. i <= k
            BY <4>4, <4>5, <5>1, <5>3, ReadOrderType, LenBoundaries DEF ReadLen
          <6>2. \E j \in 1 .. k : ReadOrder[j] = h
            BY <3>3, <5>1, <6>1
          <6> QED
            BY <3>4, <4>1, <5>3, <6>2 DEF SnapshotOf
        <5> QED
          BY <5>2, <5>3
      <4>7. w = all
        <5>1. DOMAIN w = Fields /\ w = [h \in Fields |-> w[h]]
          BY <2>t
        <5>2. all = [h \in Fields |-> all[h]]
          BY DEF SnapshotOf
        <5> HIDE DEF w, all
        <5> QED
          BY <4>6, <5>1, <5>2
      <4> QED
        BY <2>0, <2>3, <3>1, <3>2, <3>6, <4>7
    <3> QED
      BY <3>1, <3>5, <3>6
  <2>4. CASE q = r /\ ~LoadStart(r) /\ ~ReadField(r)
    BY <1>2, <2>t, <2>4 DEF LoadForRead, Swap, Read, LoadEnd, LoadStartAgain
  <2> QED
    BY <2>1, <2>2, <2>3, <2>4
<1>3. CASE UNCHANGED vars
  BY <1>0, <1>3 DEF ReadInv, vars, Writing, Returned
<1> QED
  BY <1>1, <1>2, <1>3, StepKinds

LEMMA DoneStep ==
    HistogramInv /\ [Next]_vars => ConsistentSnapshot' /\ SettledUpdatesAreSeen'
<1> SUFFICES ASSUME HistogramInv, [Next]_vars
             PROVE  ConsistentSnapshot' /\ SettledUpdatesAreSeen'
  OBVIOUS
<1>0. /\ TypeOK /\ UpdateInv /\ ScanInv /\ ReadInv
      /\ ConsistentSnapshot /\ SettledUpdatesAreSeen
  BY DEF HistogramInv
<1>a. ASSUME \A r \in Scans : \A g \in Gens : ref'[r] = g /\ pc'[r] = "done" =>
                /\ snap'[r] = SnapshotOf(snap'[r][count], arg')
                /\ snap'[r][count] \subseteq Returned(g)'
                /\ settled'[r] \subseteq snap'[r][count]
      PROVE  ConsistentSnapshot' /\ SettledUpdatesAreSeen'
  <2> SUFFICES ASSUME NEW r \in Scans, pc'[r] = "done"
               PROVE  /\ snap'[r] = SnapshotOf(snap'[r][count], arg')
                      /\ snap'[r][count] \subseteq Returned(ref[r])'
                      /\ settled'[r] \subseteq snap'[r][count]
    BY DEF ConsistentSnapshot, SettledUpdatesAreSeen, SnapshotOf
  <2>1. PICK g \in Gens : ref'[r] = g
    BY ScanInvStep DEF ScanInv
  <2>2. Returned(ref[r])' = Returned(g)'
    BY <2>1 DEF Returned
  <2> QED
    BY <1>a, <2>1, <2>2
<1>1. ASSUME NEW c \in Updates, Update(c)
      PROVE  ConsistentSnapshot' /\ SettledUpdatesAreSeen'
  <2> SUFFICES ASSUME NEW r \in Scans, NEW g \in Gens, ref'[r] = g, pc'[r] = "done"
               PROVE  /\ snap'[r] = SnapshotOf(snap'[r][count], arg')
                      /\ snap'[r][count] \subseteq Returned(g)'
                      /\ settled'[r] \subseteq snap'[r][count]
    BY <1>a
  <2>1. snap' = snap /\ settled' = settled /\ pc[r] = "done" /\ ref[r] = g
    BY <1>0, <1>1, UpdateFrame
  <2>2. /\ snap[r] = SnapshotOf(snap[r][count], arg)
        /\ snap[r][count] \subseteq Returned(g)
        /\ settled[r] \subseteq snap[r][count]
    BY <1>0, <2>1 DEF ConsistentSnapshot, SettledUpdatesAreSeen
  <2>3. /\ Returned(g) \subseteq Returned(g)'
        /\ \A d \in Returned(g) : arg'[d] = arg[d]
    BY <1>0, <1>1, WritersStep
  <2>4. SnapshotOf(snap[r][count], arg) = SnapshotOf(snap[r][count], arg')
    BY <2>2, <2>3, SnapshotSame
  <2> QED
    BY <2>1, <2>2, <2>3, <2>4
<1>2. ASSUME NEW r \in Scans, LoadForRead(r) \/ Swap(r) \/ Read(r)
      PROVE  ConsistentSnapshot' /\ SettledUpdatesAreSeen'
  <2> SUFFICES ASSUME NEW q \in Scans, NEW g \in Gens, ref'[q] = g, pc'[q] = "done"
               PROVE  /\ snap'[q] = SnapshotOf(snap'[q][count], arg')
                      /\ snap'[q][count] \subseteq Returned(g)'
                      /\ settled'[q] \subseteq snap'[q][count]
    BY <1>a
  <2>0. arg' = arg /\ Returned(g)' = Returned(g)
    BY <1>0, <1>2, ScanFrame
  <2>1. CASE q # r
    <3>1. /\ pc[q] = "done" /\ ref[q] = g
          /\ snap'[q] = snap[q] /\ settled'[q] = settled[q]
      BY <1>0, <1>2, <2>1, ScanFrame DEF Calls
    <3> QED
      BY <1>0, <2>0, <3>1 DEF ConsistentSnapshot, SettledUpdatesAreSeen
  <2>2. CASE q = r
    <3>1. /\ LoadStartAgain(r)
          /\ pc[r] = "s2" /\ start[ref[r]] = s1[r]
          /\ snap'[r] = snap[r] /\ settled'[r] = settled[r] /\ ref[r] = g
      <4>1. r \in Calls /\ pc \in [Calls -> UpdatePC \cup ScanPC]
        BY <1>0 DEF TypeOK, Calls
      <4>2. LoadStartAgain(r)
        BY <1>2, <2>2, <4>1
           DEF LoadForRead, Swap, Read, LoadEnd, LoadStart, ReadField
      <4>3. pc'[r] = "done" => start[ref[r]] = s1[r] /\ snap' = snap
        BY <4>1, <4>2 DEF LoadStartAgain
      <4> QED
        BY <2>2, <4>2, <4>3 DEF LoadStartAgain
    <3>2. snap[r] = SnapshotOf(Returned(g), arg) /\ settled[r] \subseteq Returned(g)
      BY <1>0, <3>1 DEF ReadInv, ScanInv
    <3>3. snap[r][count] = Returned(g)
      BY <1>0, <3>2, SnapshotCount
    <3> QED
      BY <2>0, <2>2, <3>1, <3>2, <3>3
  <2> QED
    BY <2>1, <2>2
<1>3. CASE UNCHANGED vars
  <2>1. UNCHANGED <<pc, ref, arg, snap, settled>>
    BY <1>3 DEF vars
  <2>2. ConsistentSnapshot'
    BY <1>0, <2>1 DEF ConsistentSnapshot, Returned, SnapshotOf
  <2> QED
    BY <1>0, <2>1, <2>2 DEF SettledUpdatesAreSeen
<1> QED
  BY <1>1, <1>2, <1>3, StepKinds

LEMMA InitInv == Init => HistogramInv
<1> SUFFICES ASSUME Init PROVE HistogramInv
  OBVIOUS
<1> USE CallsAssumption DEF Init
<1>0. Updates \subseteq Calls /\ Scans \subseteq Calls /\ Takes \subseteq Calls
  BY DEF Calls, Scans
<1>1. \A g : Writing(g) = {} /\ Returned(g) = {}
  BY <1>0 DEF Writing, Returned
<1>2. CountsInv
  BY <1>1, FS_EmptySet DEF CountsInv
<1>3. InnerInv
  BY <1>0 DEF InnerInv, AppliedTo, NewState
<1>4. UpdateInv
  BY <1>0 DEF UpdateInv
<1>5. ScanInv
  BY <1>0, <1>1 DEF ScanInv
<1>6. ReadInv /\ ConsistentSnapshot /\ SettledUpdatesAreSeen
  BY <1>0 DEF ReadInv, ConsistentSnapshot, SettledUpdatesAreSeen
<1>7. GensInv
  BY <1>0 DEF GensInv, Gens
<1> QED
  BY <1>2, <1>3, <1>4, <1>5, <1>6, <1>7, InitType DEF HistogramInv

LEMMA InvStep == HistogramInv /\ [Next]_vars => HistogramInv'
<1> SUFFICES ASSUME HistogramInv, [Next]_vars PROVE HistogramInv'
  OBVIOUS
<1> QED
  BY TypeStep, CountsStep, InnerStep, UpdateInvStep, ScanInvStep, ReadInvStep,
     GensStep, DoneStep DEF HistogramInv

-----------------------------------------------------------------------------
(* The theorems *)

\* The invariant holds of every behaviour of the bucket, for any number of
\* calls of add, sub, snapshot and take, any values and any boundaries.
THEOREM Invariance == Safety => []HistogramInv
BY InitInv, InvStep, PTL DEF Safety

\* Every variable keeps its type.
THEOREM TypeCorrect == Safety => []TypeOK
<1>1. HistogramInv => TypeOK
  BY DEF HistogramInv
<1> QED
  BY <1>1, Invariance, PTL

\* Bucket::snapshot and Bucket::take never return a torn state: what they
\* return is the exact image of one set of updates that have returned.
THEOREM SnapshotsConsistent == Safety => []ConsistentSnapshot
<1>1. HistogramInv => ConsistentSnapshot
  BY DEF HistogramInv
<1> QED
  BY <1>1, Invariance, PTL

\* An update that returned before a snapshot or a take reached its
\* generation is in what that call returns; only overlapping updates are lost.
THEOREM SettledSeen == Safety => []SettledUpdatesAreSeen
<1>1. HistogramInv => SettledUpdatesAreSeen
  BY DEF HistogramInv
<1> QED
  BY <1>1, Invariance, PTL

\* No update is returned by two takes, or by a take and still counted in the
\* live state.
THEOREM NeverDrainedTwice == Safety => []DrainedOnce
<1>1. HistogramInv => DrainedOnce
  <2> SUFFICES ASSUME HistogramInv, NEW t \in Takes, pc[t] = "done"
               PROVE  /\ snap[t][count] \cap inner[state][count] = {}
                      /\ \A u \in Takes \ {t} : pc[u] = "done" =>
                           snap[t][count] \cap snap[u][count] = {}
    BY DEF DrainedOnce
  <2>0. TypeOK /\ InnerInv /\ GensInv /\ ConsistentSnapshot /\ Takes \subseteq Scans
    BY DEF HistogramInv, Scans
  <2>1. \A c \in snap[t][count] : c \in Updates /\ ref[c] = ref[t]
    BY <2>0 DEF ConsistentSnapshot, Returned
  <2>2. \A c \in inner[state][count] : ref[c] = state
    BY <2>0, CountIsField DEF InnerInv, TypeOK
  <2>3. ref[t] # state
    BY <2>0 DEF GensInv
  <2>4. ASSUME NEW u \in Takes \ {t}, pc[u] = "done"
        PROVE  snap[t][count] \cap snap[u][count] = {}
    <3>1. \A c \in snap[u][count] : ref[c] = ref[u]
      BY <2>0, <2>4 DEF ConsistentSnapshot, Returned
    <3>2. ref[t] # ref[u]
      BY <2>0, <2>4 DEF GensInv
    <3> QED
      BY <2>1, <3>1, <3>2
  <2> QED
    BY <2>1, <2>2, <2>3, <2>4
<1> QED
  BY <1>1, Invariance, PTL

-----------------------------------------------------------------------------
(* The bucket implements HistogramSpec *)

\* The state of the promise, as functions of the state of the bucket.
logOf == [g \in Gens |-> Returned(g)]
phaseOf == [c \in Calls |-> Phase(c)]
resultOf == [r \in Scans |-> IF pc[r] = "done" THEN snap[r] ELSE NewState]

\* The promise has the calls and the generations of the bucket.
LEMMA PromiseData ==
    /\ Promise!Scans = Scans
    /\ Promise!Calls = Calls /\ Promise!Gens = Gens
BY DEF Promise!Scans, Promise!Calls, Promise!Gens, Scans, Calls, Gens

LEMMA PromiseInit == Init => Promise!Init
<1> SUFFICES ASSUME Init PROVE Promise!Init
  OBVIOUS
<1>1. Updates \subseteq Calls /\ Scans \subseteq Calls
  BY DEF Calls
<1>2. \A g : Returned(g) = {}
  BY <1>1 DEF Init, Returned
<1>3. logOf = [g \in Gens |-> {}]
  BY <1>2 DEF logOf
<1>4. phaseOf = [c \in Calls |-> "idle"]
  BY DEF Init, phaseOf, Phase
<1>5. resultOf = [r \in Scans |-> NewState]
  BY <1>1 DEF Init, resultOf
<1> QED
  BY <1>3, <1>4, <1>5, PromiseData
     DEF Init, Promise!Init, logOf, phaseOf, resultOf

\* Every step of the bucket is a step of the promise or changes none of it.
LEMMA PromiseStep ==
    HistogramInv /\ [Next]_vars => [Promise!Next]_(Promise!vars)
<1> SUFFICES ASSUME HistogramInv, [Next]_vars
             PROVE  Promise!Next \/ UNCHANGED <<state, logOf, phaseOf, ref, arg, resultOf>>
  BY DEF Promise!vars, logOf, phaseOf, resultOf
<1>0. /\ TypeOK /\ UpdateInv /\ ScanInv /\ ReadInv
      /\ Updates \subseteq Calls /\ Scans \subseteq Calls /\ Updates \cap Scans = {}
      /\ pc \in [Calls -> UpdatePC \cup ScanPC]
      /\ ref \in [Calls -> Gens \cup {NoGen}]
      /\ arg \in [Updates -> Values \cup {NaN}]
      /\ snap \in [Scans -> [Fields -> SUBSET Updates]]
  BY CallsAssumption DEF HistogramInv, TypeOK, Calls
<1>p. ASSUME NEW x \in Calls, NEW p, pc' = [pc EXCEPT ![x] = p]
      PROVE  phaseOf' = [phaseOf EXCEPT ![x] = IF p \in {"idle", "done"} THEN p ELSE "pinned"]
  BY <1>0, <1>p DEF phaseOf, Phase
<1>q. ASSUME NEW x \in Calls, Phase(x)' = Phase(x),
             \A y \in Calls \ {x} : pc'[y] = pc[y]
      PROVE  phaseOf' = phaseOf
  BY <1>0, <1>q DEF phaseOf, Phase
<1>s. ASSUME NEW c \in Updates, Update(c)
      PROVE  resultOf' = resultOf /\ state' = state
  BY <1>0, <1>s, UpdateFrame DEF resultOf
<1>l. ASSUME \A g \in Gens : Returned(g)' = Returned(g)
      PROVE  logOf' = logOf
  BY <1>l DEF logOf
<1>1. ASSUME NEW c \in Updates, SkipNaN(c)
      PROVE  Promise!Ignore(c)
  <2>1. logOf' = logOf
    BY <1>0, <1>1, <1>l, WritersStep DEF Update, BeginWrite, EndWrite, SkipNaN
  <2>2. phaseOf[c] = "idle" /\ phaseOf' = [phaseOf EXCEPT ![c] = "done"]
    BY <1>0, <1>1, <1>p DEF SkipNaN, phaseOf, Phase
  <2>3. resultOf' = resultOf /\ UNCHANGED <<state, ref, arg>>
    BY <1>1, <1>s DEF Update, SkipNaN
  <2> QED
    BY <2>1, <2>2, <2>3 DEF Promise!Ignore, logOf, phaseOf, resultOf
<1>2. ASSUME NEW c \in Updates, LoadState(c)
      PROVE  Promise!PinUpdate(c)
  <2>1. logOf' = logOf
    BY <1>0, <1>2, <1>l, WritersStep DEF Update, BeginWrite, EndWrite, LoadState
  <2>2. phaseOf[c] = "idle" /\ phaseOf' = [phaseOf EXCEPT ![c] = "pinned"]
    BY <1>0, <1>2, <1>p DEF LoadState, phaseOf, Phase
  <2>3. resultOf' = resultOf /\ UNCHANGED state
    BY <1>2, <1>s DEF Update
  <2>4. /\ ref' = [ref EXCEPT ![c] = state]
        /\ \E v \in Values : arg' = [arg EXCEPT ![c] = v]
    BY <1>2 DEF LoadState
  <2> QED
    BY <2>1, <2>2, <2>3, <2>4 DEF Promise!PinUpdate, logOf, phaseOf, resultOf
<1>3. ASSUME NEW c \in Updates, BeginWrite(c) \/ Apply(c)
      PROVE  UNCHANGED <<state, logOf, phaseOf, ref, arg, resultOf>>
  <2>1. pc[c] \in {"start", "write"} /\ pc'[c] \in {"write", "end"} /\ ref' = ref /\ arg' = arg
    BY <1>0, <1>3 DEF BeginWrite, Apply
  <2>2. \A g \in Gens : Returned(g)' = Returned(g)
    BY <1>0, <1>3, WritersStep DEF Update, EndWrite, BeginWrite, Apply
  <2>3. phaseOf' = phaseOf
    BY <1>0, <1>3, <1>q, <2>1, UpdateFrame DEF Update, Phase
  <2> QED
    BY <1>3, <1>l, <1>s, <2>1, <2>2, <2>3 DEF Update
<1>4. ASSUME NEW c \in Updates, EndWrite(c)
      PROVE  Promise!Commit(c)
  <2>1. pc[c] = "end" /\ ref[c] \in Gens
    BY <1>0, <1>4 DEF EndWrite, UpdateInv
  <2>2. \A g \in Gens : Returned(g)' =
           IF g = ref[c] THEN Returned(g) \cup {c} ELSE Returned(g)
    BY <1>0, <1>4, WritersStep DEF Update, BeginWrite, EndWrite
  <2>3. logOf' = [logOf EXCEPT ![ref[c]] = @ \cup {c}]
    <3>1. logOf' = [g \in Gens |-> Returned(g)']
      BY DEF logOf
    <3>2. logOf' = [g \in Gens |-> IF g = ref[c] THEN Returned(g) \cup {c} ELSE Returned(g)]
      BY <2>2, <3>1
    <3> QED
      BY <2>1, <3>2 DEF logOf
  <2>4. phaseOf[c] = "pinned" /\ phaseOf' = [phaseOf EXCEPT ![c] = "done"]
    BY <1>0, <1>4, <1>p DEF EndWrite, phaseOf, Phase
  <2>5. resultOf' = resultOf /\ UNCHANGED <<state, ref, arg>>
    BY <1>4, <1>s DEF Update, EndWrite
  <2> QED
    BY <2>3, <2>4, <2>5 DEF Promise!Commit, logOf, phaseOf, resultOf
<1>5. ASSUME NEW r \in Scans, (r \in Reads /\ LoadForRead(r)) \/ (r \in Takes /\ Swap(r))
      PROVE  Promise!PinScan(r)
  <2>1. /\ UNCHANGED arg /\ \A g \in Gens : Returned(g)' = Returned(g)
    BY <1>0, <1>5, ScanFrame
  <2>2. /\ pc[r] = "idle" /\ pc' = [pc EXCEPT ![r] = "e1"]
        /\ ref' = [ref EXCEPT ![r] = state] /\ snap' = snap
        /\ state' = IF r \in Takes THEN r ELSE state
    BY <1>5, CallsAssumption DEF LoadForRead, Swap
  <2>3. phaseOf[r] = "idle" /\ phaseOf' = [phaseOf EXCEPT ![r] = "pinned"]
    BY <1>0, <1>p, <2>2 DEF phaseOf, Phase
  <2>4. resultOf' = resultOf
    BY <1>0, <2>2 DEF resultOf
  <2>5. logOf' = logOf
    BY <1>l, <2>1
  <2> QED
    BY <2>1, <2>2, <2>3, <2>4, <2>5 DEF Promise!PinScan, logOf, phaseOf, resultOf
<1>6. ASSUME NEW r \in Scans, Read(r), pc'[r] # "done"
      PROVE  UNCHANGED <<state, logOf, phaseOf, ref, arg, resultOf>>
  <2>1. /\ UNCHANGED arg /\ \A g \in Gens : Returned(g)' = Returned(g)
        /\ \A x \in Calls \ {r} : pc'[x] = pc[x]
        /\ \A q \in Scans \ {r} : snap'[q] = snap[q]
    BY <1>0, <1>6, ScanFrame
  <2>2. /\ pc[r] \in {"e1", "s1", "read", "s2"} /\ pc'[r] \in {"e1", "s1", "read", "s2"}
        /\ ref' = ref /\ state' = state
    BY <1>0, <1>6 DEF Read, LoadEnd, LoadStart, ReadField, LoadStartAgain
  <2>3. phaseOf' = phaseOf
    BY <1>0, <1>q, <2>1, <2>2 DEF Phase
  <2>4. resultOf' = resultOf
    BY <1>0, <2>1, <2>2 DEF resultOf
  <2> QED
    BY <1>l, <2>1, <2>2, <2>3, <2>4
<1>7. ASSUME NEW r \in Scans, Read(r), pc'[r] = "done"
      PROVE  Promise!Return(r)
  <2>1. LoadStartAgain(r) /\ pc[r] = "s2" /\ start[ref[r]] = s1[r]
    BY <1>0, <1>7 DEF Read, LoadEnd, LoadStart, ReadField, LoadStartAgain
  <2>2. /\ pc' = [pc EXCEPT ![r] = "done"] /\ snap' = snap
        /\ UNCHANGED <<state, ref, arg>>
    BY <2>1 DEF LoadStartAgain
  <2>3. snap[r] = SnapshotOf(Returned(ref[r]), arg) /\ ref[r] \in Gens
    BY <1>0, <2>1 DEF ReadInv, ScanInv
  <2>4. logOf' = logOf
    BY <1>0, <1>7, <1>l, ScanFrame
  <2>5. logOf[ref[r]] = Returned(ref[r])
    BY <2>3 DEF logOf
  <2>6. resultOf' = [resultOf EXCEPT ![r] = SnapshotOf(logOf[ref[r]], arg)]
    <3>1. \A q \in Scans : pc'[q] = IF q = r THEN "done" ELSE pc[q]
      BY <1>0, <2>2
    <3>2. resultOf' = [q \in Scans |->
             IF q = r THEN snap[r] ELSE IF pc[q] = "done" THEN snap[q] ELSE NewState]
      BY <2>2, <3>1 DEF resultOf
    <3> QED
      BY <2>3, <2>5, <3>2 DEF resultOf
  <2>7. phaseOf[r] = "pinned" /\ phaseOf' = [phaseOf EXCEPT ![r] = "done"]
    BY <1>0, <1>p, <2>1, <2>2 DEF phaseOf, Phase
  <2> QED
    BY <2>2, <2>4, <2>6, <2>7, PromiseData DEF Promise!Return, logOf, phaseOf, resultOf
<1>8. CASE UNCHANGED vars
  BY <1>8 DEF vars, logOf, phaseOf, resultOf, Returned, Phase
<1>9. ASSUME NEW c \in Updates, Update(c)
      PROVE  Promise!Next \/ UNCHANGED <<state, logOf, phaseOf, ref, arg, resultOf>>
  <2>1. \/ Promise!Ignore(c) \/ Promise!PinUpdate(c) \/ Promise!Commit(c)
        \/ UNCHANGED <<state, logOf, phaseOf, ref, arg, resultOf>>
    BY <1>1, <1>2, <1>3, <1>4, <1>9 DEF Update
  <2> QED
    BY <2>1 DEF Promise!Next
<1>10. ASSUME NEW r \in Scans, (r \in Reads /\ LoadForRead(r)) \/ (r \in Takes /\ Swap(r)) \/ Read(r)
       PROVE  Promise!Next \/ UNCHANGED <<state, logOf, phaseOf, ref, arg, resultOf>>
  <2>1. \/ Promise!PinScan(r) \/ Promise!Return(r)
        \/ UNCHANGED <<state, logOf, phaseOf, ref, arg, resultOf>>
    BY <1>5, <1>6, <1>7, <1>10
  <2> QED
    BY <2>1, PromiseData DEF Promise!Next
<1>11. CASE \E c \in Updates : Update(c)
  BY <1>9, <1>11
<1>12. CASE \/ \E r \in Reads : LoadForRead(r) \/ Read(r)
            \/ \E t \in Takes : Swap(t) \/ Read(t)
  BY <1>10, <1>12 DEF Scans
<1> QED
  BY <1>8, <1>11, <1>12 DEF Next

\* The sequence-locked bucket implements its promise: updates and snapshots
\* of one generation take effect one at a time, each in one step.
THEOREM Refinement == Safety => ImplementsPromise
BY Invariance, PromiseInit, PromiseStep, PTL DEF Safety, ImplementsPromise, Promise!Spec

-----------------------------------------------------------------------------
(* The numbers of a snapshot *)

LEMMA Remainder ==
    ASSUME NEW m \in Nat \ {0}, NEW a \in Int
    PROVE  a % m \in 0 .. m - 1 /\ \E q \in Int : a % m = a + q * m
<1>1. a % m \in 0 .. m - 1
  OBVIOUS
<1>2. -(a \div m) \in Int /\ a % m = a + (-(a \div m)) * m
  OBVIOUS
<1> QED
  BY <1>1, <1>2

LEMMA SmallMultiple ==
    ASSUME NEW m \in Nat \ {0}, NEW k \in Int, -m < k * m, k * m < m
    PROVE  k = 0
<1>1. k >= 1 => k * m >= m
  OBVIOUS
<1>2. k <= -1 => k * m <= -m
  OBVIOUS
<1> QED
  BY <1>1, <1>2

LEMMA SameRemainder ==
    ASSUME NEW m \in Nat \ {0}, NEW a \in Int, NEW b \in Int, NEW q \in Int, b = a + q * m
    PROVE  a % m = b % m
<1>1. PICK j \in Int : a % m = a + j * m
  BY Remainder
<1>2. PICK k \in Int : b % m = b + k * m
  BY Remainder
<1>3. a % m \in 0 .. m - 1 /\ b % m \in 0 .. m - 1
  BY Remainder
<1> DEFINE d == q + k - j
           x == a % m
           y == b % m
<1>4. d \in Int /\ d * m = q * m + k * m - j * m
  OBVIOUS
<1>5. y - x = d * m
  BY <1>1, <1>2, <1>4
<1> HIDE DEF d, x, y
<1>6. x \in 0 .. m - 1 /\ y \in 0 .. m - 1
  BY <1>3 DEF x, y
<1>7. -m < d * m /\ d * m < m
  BY <1>4, <1>5, <1>6
<1>8. d = 0
  BY <1>4, <1>7, SmallMultiple
<1>9. x = y
  BY <1>5, <1>6, <1>8
<1> QED
  BY <1>9 DEF x, y

\* Equal but for what has wrapped.
Congruent(x, y) == \E q \in Int : x = y + q * Modulus

LEMMA CongruentSums ==
    ASSUME NEW a \in Int, NEW b \in Int, NEW c \in Int, NEW d \in Int,
           Congruent(a, b), Congruent(c, d)
    PROVE  Congruent(a + c, b + d)
<1>1. PICK p \in Int : a = b + p * Modulus
  BY DEF Congruent
<1>2. PICK q \in Int : c = d + q * Modulus
  BY DEF Congruent
<1> DEFINE m == Modulus
<1>3. m \in Nat
  BY ModulusAssumption
<1> HIDE DEF m
<1>4. p + q \in Int /\ (p + q) * m = p * m + q * m /\ p * m \in Int /\ q * m \in Int
  BY <1>3
<1>5. a + c = b + d + (p + q) * m
  BY <1>1, <1>2, <1>4 DEF m
<1> QED
  BY <1>4, <1>5 DEF Congruent, m

LEMMA CongruentRemainders ==
    ASSUME NEW a \in Int, NEW b \in Int
    PROVE  /\ a % Modulus \in Nat
           /\ Congruent(a % Modulus, a)
           /\ Congruent(a, b) => a % Modulus = b % Modulus
<1>1. a % Modulus \in Nat /\ \E q \in Int : a % Modulus = a + q * Modulus
  <2> DEFINE m == Modulus
  <2>1. m \in Nat \ {0}
    BY ModulusAssumption
  <2> HIDE DEF m
  <2>2. a % m \in 0 .. m - 1 /\ \E q \in Int : a % m = a + q * m
    BY <2>1, Remainder, Zenon
  <2>3. a % m \in Nat
    BY <2>1, <2>2
  <2> QED
    BY <2>2, <2>3, Zenon DEF m
<1>2. ASSUME NEW q \in Int, a = b + q * Modulus
      PROVE  a % Modulus = b % Modulus
  BY <1>2, SameRemainder, ModulusAssumption
<1> QED
  BY <1>1, <1>2, Zenon DEF Congruent

\* What a set of calls adds up to, before it wraps.
Net(S) == Cardinality(S \cap Adds) - Cardinality(S \cap Subs)

LEMMA NetAdds ==
    ASSUME NEW S \in SUBSET Updates, NEW T \in SUBSET Updates, S \cap T = {}
    PROVE  Net(S) \in Int /\ Net(T) \in Int /\ Net(S \cup T) = Net(S) + Net(T)
<1>1. ASSUME NEW A, IsFiniteSet(A)
      PROVE  /\ Cardinality(S \cap A) \in Nat /\ Cardinality(T \cap A) \in Nat
             /\ Cardinality((S \cup T) \cap A) = Cardinality(S \cap A) + Cardinality(T \cap A)
  <2> DEFINE X == S \cap A
             Y == T \cap A
  <2>1. IsFiniteSet(X) /\ IsFiniteSet(Y)
    BY <1>1, FS_Intersection
  <2>2. X \cap Y = {} /\ (S \cup T) \cap A = X \cup Y
    OBVIOUS
  <2> HIDE DEF X, Y
  <2>3. Cardinality(X) \in Nat /\ Cardinality(Y) \in Nat
    BY <2>1, FS_CardinalityType
  <2>4. Cardinality(X \cup Y) = Cardinality(X) + Cardinality(Y) - Cardinality(X \cap Y)
    BY <2>1, FS_Union
  <2>5. Cardinality(X \cap Y) = 0
    BY <2>2, FS_EmptySet
  <2>6. Cardinality(X \cup Y) = Cardinality(X) + Cardinality(Y)
    BY <2>3, <2>4, <2>5
  <2> QED
    BY <2>2, <2>3, <2>6 DEF X, Y
<1>2. IsFiniteSet(Adds) /\ IsFiniteSet(Subs)
  BY UpdatesAssumption
<1>3. /\ Cardinality(S \cap Adds) \in Nat /\ Cardinality(T \cap Adds) \in Nat
      /\ Cardinality(S \cap Subs) \in Nat /\ Cardinality(T \cap Subs) \in Nat
      /\ Cardinality((S \cup T) \cap Adds) = Cardinality(S \cap Adds) + Cardinality(T \cap Adds)
      /\ Cardinality((S \cup T) \cap Subs) = Cardinality(S \cap Subs) + Cardinality(T \cap Subs)
  BY <1>1, <1>2
<1> QED
  BY <1>3 DEF Net

LEMMA NetOne ==
    ASSUME NEW S \in SUBSET Updates
    PROVE  Net(S) \in Int /\ Net({}) = 0
<1>1. {} \in SUBSET Updates /\ S \cap {} = {}
  OBVIOUS
<1>2. {} \cap Adds = {} /\ {} \cap Subs = {} /\ Cardinality({}) = 0
  BY FS_EmptySet
<1>3. Net(S) \in Int
  BY <1>1, NetAdds
<1>4. Net({}) = 0
  BY <1>2 DEF Net
<1> QED
  BY <1>3, <1>4

LEMMA CountIsNet ==
    ASSUME NEW S \in SUBSET Updates
    PROVE  /\ CountOf(S) = Net(S) % Modulus
           /\ CountOf(S) \in Nat
           /\ Congruent(CountOf(S), Net(S))
<1>1. Net(S) \in Int
  BY NetOne
<1>2. CountOf(S) = Net(S) % Modulus
  BY DEF CountOf, Net
<1> QED
  BY <1>1, <1>2, CongruentRemainders

\* Those of the calls S whose value is in bucket i.
InBucket(S, a, i) == {c \in S : bucket_index(a[c]) = i}

LEMMA BucketsPartition ==
    ASSUME NEW S \in SUBSET Updates, NEW a, \A c \in S : a[c] \in Values,
           NEW f, \A i \in Buckets : f[i] = CountOf(InBucket(S, a, i))
    PROVE  CountOf(S) = SumOf(f, Buckets) % Modulus
<1> DEFINE Low(k) == 0 .. k - 1
           Before(k) == {c \in S : bucket_index(a[c]) \in Low(k)}
           Adding(k) == SumOf(f, Low(k)) \in Int /\ Congruent(SumOf(f, Low(k)), Net(Before(k)))
           n == Len(Boundaries) + 1
           T == {k \in Nat : k <= n => Adding(k)}
<1>0. n \in Nat /\ Buckets = Low(n)
  BY LenBoundaries DEF Buckets
<1>1. \A c \in S : bucket_index(a[c]) \in Buckets
  BY BucketIndexType, ValuesAssumption
<1>2. \A i \in Buckets : InBucket(S, a, i) \in SUBSET Updates /\ f[i] = CountOf(InBucket(S, a, i))
  BY DEF InBucket
<1>3. \A i \in Buckets : f[i] \in Nat /\ Congruent(f[i], Net(InBucket(S, a, i)))
  BY <1>2, CountIsNet
<1>4. Adding(0)
  <2>1. Low(0) = {} /\ Before(0) = {}
    OBVIOUS
  <2> HIDE DEF Low, Before
  <2>2. SumOf(f, Low(0)) = 0 /\ Net(Before(0)) = 0
    BY <2>1, SumEmpty, NetOne
  <2>3. 0 % Modulus = 0 /\ Congruent(0 % Modulus, 0)
    BY CongruentRemainders, ModulusAssumption
  <2> QED
    BY <2>2, <2>3
<1>5. ASSUME NEW k \in Nat, k \in T PROVE k + 1 \in T
  <2> SUFFICES ASSUME k + 1 <= n PROVE Adding(k + 1)
    OBVIOUS
  <2> DEFINE D == Low(k)
             A == Before(k)
             B == InBucket(S, a, k)
  <2>1. k \in Low(n) /\ D \subseteq Low(n) /\ k \notin D /\ D \cup {k} = Low(k + 1)
    BY <1>0
  <2>2. IsFiniteSet(D)
    BY FS_Interval
  <2>3. SumOf(f, D) \in Int /\ Congruent(SumOf(f, D), Net(A))
    <3>1. k <= n
      BY <1>0
    <3> HIDE DEF Adding
    <3>2. Adding(k)
      BY <1>5, <3>1
    <3> QED
      BY <3>2 DEF Adding
  <2>4. f[k] \in Int /\ Congruent(f[k], Net(B))
    BY <1>0, <1>3, <2>1
  <2>5. A \in SUBSET Updates /\ B \in SUBSET Updates /\ A \cap B = {} /\ Before(k + 1) = A \cup B
    <3>1. \A x : x \in Low(k + 1) <=> x \in D \/ x = k
      BY <2>1
    <3> HIDE DEF Low
    <3> QED
      BY <2>1, <3>1 DEF InBucket
  <2> HIDE DEF A, B, D, Before, Low
  <2>6. Net(A) \in Int /\ Net(B) \in Int /\ Net(A \cup B) = Net(A) + Net(B)
    BY <2>5, NetAdds
  <2>7. SumOf(f, D \cup {k}) = SumOf(f, D) + f[k]
    <3>1. \A i \in D \cup {k} : f[i] \in Int
      BY <1>0, <1>3, <2>1
    <3> QED
      BY <2>1, <2>2, <3>1, SumAdd
  <2>8. Congruent(SumOf(f, D) + f[k], Net(A) + Net(B))
    BY <2>3, <2>4, <2>6, CongruentSums
  <2>9. SumOf(f, D) + f[k] \in Int
    BY <2>3, <2>4
  <2> QED
    BY <2>1, <2>5, <2>6, <2>7, <2>8, <2>9
<1>6. Nat \subseteq T
  <2>1. 0 \in T
    <3> HIDE DEF Adding
    <3> QED
      BY <1>4
  <2> HIDE DEF T
  <2> QED
    BY <1>5, <2>1, SetInduction
<1>7. Adding(n)
  <2> HIDE DEF Adding
  <2>1. n <= n
    BY <1>0
  <2> QED
    BY <1>0, <1>6, <2>1
<1>8. Before(n) = S
  BY <1>0, <1>1
<1> HIDE DEF Before, Low
<1>9. SumOf(f, Buckets) \in Int /\ Congruent(SumOf(f, Buckets), Net(S)) /\ Net(S) \in Int
  BY <1>0, <1>7, <1>8, NetOne
<1> QED
  BY <1>9, CongruentRemainders, CountIsNet

\* The sum of BucketsAddUpToCount is the sum of a function over the buckets.
LEMMA BucketsSum ==
    ASSUME NEW r, NEW f, \A i \in Buckets : f[i] = CountOf(snap[r][bucket_counts(i)])
    PROVE  MapThenSumSet(LAMBDA i : CountOf(snap[r][bucket_counts(i)]), Buckets)
              = SumOf(f, Buckets)
<1> DEFINE B == Buckets
           Sums(it) == it = [s \in SUBSET B |->
                               IF s = {} THEN 0
                               ELSE CountOf(snap[r][bucket_counts(Chosen(s))])
                                    + it[s \ {Chosen(s)}]]
           it == CHOOSE it : Sums(it)
           jt == CHOOSE jt : Summing(f, SUBSET B, jt)
<1>0. IsFiniteSet(B)
  BY LenBoundaries, FS_Interval DEF Buckets
<1>1. MapThenSumSet(LAMBDA i : CountOf(snap[r][bucket_counts(i)]), B) = it[B]
  BY Zenon DEF MapThenSumSet, MapThenFoldSet, Chosen
<1>2. \A s \in SUBSET B : s # {} =>
          f[Chosen(s)] = CountOf(snap[r][bucket_counts(Chosen(s))])
  BY ChosenIn
<1>3. \A h : Sums(h) <=> Summing(f, SUBSET B, h)
  <2> TAKE h
  <2>1. \A s \in SUBSET B :
            (IF s = {} THEN 0 ELSE f[Chosen(s)] + h[s \ {Chosen(s)}])
              = (IF s = {} THEN 0
                 ELSE CountOf(snap[r][bucket_counts(Chosen(s))]) + h[s \ {Chosen(s)}])
    BY <1>2
  <2>2. [s \in SUBSET B |-> IF s = {} THEN 0 ELSE f[Chosen(s)] + h[s \ {Chosen(s)}]]
          = [s \in SUBSET B |-> IF s = {} THEN 0
                 ELSE CountOf(snap[r][bucket_counts(Chosen(s))]) + h[s \ {Chosen(s)}]]
    BY <2>1
  <2> QED
    BY <2>2, Zenon DEF Summing
<1> HIDE DEF Sums
<1>4. Summing(f, SUBSET B, it) /\ Summing(f, SUBSET B, jt)
  <2>1. PICK h : Summing(f, SUBSET B, h)
    BY <1>0, SummingExists
  <2>2. Sums(it)
    BY <1>3, <2>1, Zenon
  <2>3. Summing(f, SUBSET B, it)
    BY <1>3, <2>2, Zenon
  <2> QED
    BY <2>1, <2>3, Zenon
<1>5. SumOf(f, B) = jt[B]
  BY SumDef
<1> HIDE DEF it, jt, B
<1>6. it[B] = jt[B]
  BY <1>0, <1>4, SummingAgrees
<1> QED
  BY <1>1, <1>5, <1>6, Zenon DEF B

LEMMA InnerOfBucket ==
    ASSUME NEW S, NEW a, \A c \in S : c \in Updates /\ a[c] \in Values, NEW i \in Buckets
    PROVE  SnapshotOf(S, a)[bucket_counts(i)] = InBucket(S, a, i)
<1>1. /\ bucket_counts(i) \in Fields
      /\ bucket_counts(i) \notin {sum, min, max, count}
      /\ \A j : bucket_counts(j) = bucket_counts(i) => j = i
  BY DEF Fields, bucket_counts, sum, min, max, count
<1>2. SnapshotOf(S, a)[bucket_counts(i)] = {c \in S : Touches(c, a[c], bucket_counts(i))}
  BY <1>1 DEF SnapshotOf
<1>3. ASSUME NEW c \in S
      PROVE  Touches(c, a[c], bucket_counts(i)) <=> bucket_index(a[c]) = i
  <2> DEFINE b == bucket_counts(bucket_index(a[c]))
  <2>1. b = bucket_counts(i) <=> bucket_index(a[c]) = i
    BY <1>1
  <2> HIDE DEF b
  <2>2. CASE c \in Adds
    <3> DEFINE w == <<sum, min, max, b, count>>
    <3>1. WriteOrder(c, a[c]) = w
      BY <2>2 DEF WriteOrder, b
    <3>2. DOMAIN w = 1 .. 5 /\ w[1] = sum /\ w[2] = min /\ w[3] = max /\ w[4] = b /\ w[5] = count
      OBVIOUS
    <3> HIDE DEF w
    <3>3. \A k \in DOMAIN w : w[k] = bucket_counts(i) <=> k = 4 /\ b = bucket_counts(i)
      BY <1>1, <3>2
    <3>4. 4 \in DOMAIN w
      BY <3>2
    <3> QED
      BY <2>1, <3>1, <3>3, <3>4, Zenon DEF Touches
  <2>3. CASE c \notin Adds
    <3> DEFINE w == <<sum, b, count>>
    <3>1. WriteOrder(c, a[c]) = w
      BY <2>3 DEF WriteOrder, b
    <3>2. DOMAIN w = 1 .. 3 /\ w[1] = sum /\ w[2] = b /\ w[3] = count
      OBVIOUS
    <3> HIDE DEF w
    <3>3. \A k \in DOMAIN w : w[k] = bucket_counts(i) <=> k = 2 /\ b = bucket_counts(i)
      BY <1>1, <3>2
    <3>4. 2 \in DOMAIN w
      BY <3>2
    <3> QED
      BY <2>1, <3>1, <3>3, <3>4, Zenon DEF Touches
  <2> QED
    BY <2>2, <2>3
<1> QED
  BY <1>2, <1>3 DEF InBucket

\* In the numbers Bucket::snapshot and Bucket::take return, the bucket counters
\* add up to the count, whatever adds, subs and takes overlap the call, and
\* with both sides as wide as the counters.
THEOREM BucketsMatchCount == Safety => []BucketsAddUpToCount
<1>1. ASSUME HistogramInv, NEW r \in Scans, pc[r] = "done"
      PROVE  CountOf(snap[r][count]) =
               MapThenSumSet(LAMBDA i : CountOf(snap[r][bucket_counts(i)]), Buckets) % Modulus
  <2> DEFINE S == snap[r][count]
             f == [i \in Buckets |-> CountOf(snap[r][bucket_counts(i)])]
  <2>1. snap[r] = SnapshotOf(S, arg) /\ S \subseteq Returned(ref[r]) /\ ref[r] \in Gens
    BY <1>1 DEF HistogramInv, ConsistentSnapshot, ScanInv
  <2>2. \A c \in S : c \in Updates /\ arg[c] \in Values
    BY <1>1, <2>1 DEF HistogramInv, UpdateInv, Returned
  <2>3. \A i \in Buckets : f[i] = CountOf(snap[r][bucket_counts(i)])
    OBVIOUS
  <2>4. \A i \in Buckets : SnapshotOf(S, arg)[bucket_counts(i)] = InBucket(S, arg, i)
    BY <2>2, InnerOfBucket
  <2>5. \A i \in Buckets : f[i] = CountOf(InBucket(S, arg, i))
    BY <2>1, <2>3, <2>4
  <2>6. MapThenSumSet(LAMBDA i : CountOf(snap[r][bucket_counts(i)]), Buckets) = SumOf(f, Buckets)
    BY <2>3, BucketsSum
  <2> HIDE DEF f, S
  <2>7. S \in SUBSET Updates
    BY <2>2
  <2>8. CountOf(S) = SumOf(f, Buckets) % Modulus
    BY <2>2, <2>5, <2>7, BucketsPartition
  <2> QED
    BY <2>6, <2>8, Zenon DEF S
<1>2. HistogramInv => BucketsAddUpToCount
  BY <1>1, Zenon DEF BucketsAddUpToCount
<1> QED
  BY <1>2, Invariance, PTL
=============================================================================
