------------------------- MODULE SeqLockWeakProofs -------------------------
(***************************************************************************)
(* Proof that the sequence lock of SeqLockWeak returns consistent pairs on *)
(* a machine whose read-modify-writes are full barriers, for any writers   *)
(* and readers.                                                            *)
(*                                                                         *)
(* The i-th value of `end` carries i - 1 increments of each field, and the *)
(* i-th value of a field i - 1 increments of `start`: what a reader loads  *)
(* between two equal counters is neither older nor newer than they are.    *)
(***************************************************************************)
EXTENDS SeqLockWeak, FiniteSetTheorems, TLAPS

View == [Locs -> Nat]
Fields == {"x", "y"}

\* The writers that have incremented l.
After == [l \in Locs |-> CASE l = "start" -> {"x", "y", "end", "done"}
                           [] l = "x" -> {"y", "end", "done"}
                           [] l = "y" -> {"end", "done"}
                           [] l = "end" -> {"done"}]
Past(l) == {t \in Writers : pc[t] \in After[l]}

StateInv ==
    /\ mem \in [Locs -> Seq(View)]
    /\ cur \in [Threads -> View] /\ acq \in [Threads -> View]
    /\ pc \in [Threads -> {"start", "x", "y", "end", "done", "e1", "s1", "fence", "s2"}]
    /\ e1 \in [Readers -> Nat] /\ s1 \in [Readers -> Nat]
    /\ seen \in [Readers -> [Fields -> Nat]]

\* A location has a first value, and one more for each writer past it.
CountInv ==
    \A l \in Locs : IsFiniteSet(Past(l)) /\ Len(mem[l]) = Cardinality(Past(l)) + 1

\* own[l][t] is the place of the increment of t among those of l. Each writer
\* has its own place, and releases it to those that find what it has written.
RankInv(own) ==
    /\ own \in [Locs -> [Writers -> Nat]]
    /\ \A l \in Locs : \A t \in Past(l) : 2 <= own[l][t] /\ own[l][t] <= cur[t][l]
    /\ \A l \in Locs : \A t \in Past(l) : own[l][t] <= Len(mem[l])
    /\ \A l \in Locs : \A t, u \in Past(l) : own[l][t] = own[l][u] => t = u
    /\ \A l \in Fields : \A t \in Past(l) : own["start"][t] <= Last(mem[l])["start"]
    /\ \A l \in Fields : \A t \in Past("end") : own[l][t] <= Last(mem["end"])[l]

\* What the values of the fields and of `end` have to tell.
ReleasedInv ==
    /\ \A l \in Fields : \A i \in 1 .. Len(mem[l]) : i <= mem[l][i]["start"]
    /\ \A l \in Fields : \A i \in 1 .. Len(mem["end"]) : i <= mem["end"][i][l]

\* What reader t has loaded is not older than its e1, nor newer than the
\* start it has seen or will acquire.
ReaderKnows(t) ==
    /\ \A l \in Fields : e1[t] <= cur[t][l] /\ cur[t][l] <= acq[t][l]
    /\ pc[t] \in {"x", "y", "fence", "s2", "done"} => s1[t] = e1[t]
    /\ pc[t] \in {"y", "fence", "s2", "done"} => e1[t] <= seen[t]["x"]
    /\ pc[t] \in {"y", "fence", "s2"} => seen[t]["x"] <= acq[t]["start"]
    /\ pc[t] \in {"fence", "s2", "done"} => e1[t] <= seen[t]["y"]
    /\ pc[t] \in {"fence", "s2"} => seen[t]["y"] <= acq[t]["start"]
    /\ pc[t] = "s2" => \A l \in Fields : seen[t][l] <= cur[t]["start"]
    /\ pc[t] = "done" => \A l \in Fields : seen[t][l] = e1[t]

ReaderInv == \A t \in Readers : ReaderKnows(t)

LockInv ==
    /\ StateInv /\ CountInv /\ ReleasedInv /\ ReaderInv
    /\ \E own : RankInv(own)

-----------------------------------------------------------------------------
(* Views                                                                   *)

LEMMA JoinFacts ==
    ASSUME NEW v \in View, NEW w \in View
    PROVE  /\ Join(v, w) \in View
           /\ \A l \in Locs : v[l] <= Join(v, w)[l] /\ w[l] <= Join(v, w)[l]
BY DEF Join, View

\* Distinct places from the second on reach as far as there are writers.
LEMMA Ranked ==
    ASSUME NEW P, P # {}, NEW f \in [P -> Nat], NEW m \in Nat,
           \A t \in P : 2 <= f[t] /\ f[t] <= m,
           \A t, u \in P : f[t] = f[u] => t = u
    PROVE  IsFiniteSet(P) /\ Cardinality(P) + 1 <= m
<1>1. f \in Injection(P, 2 .. m)
  BY DEF Injection, IsInjective
<1>2. IsFiniteSet(2 .. m) /\ Cardinality(2 .. m) = m - 1
  <2>1. 2 <= m
    OBVIOUS
  <2> QED
    BY <2>1, FS_Interval
<1>3. IsFiniteSet(P) /\ Cardinality(P) <= m - 1
  BY <1>1, <1>2, FS_Injection
<1> QED
  BY <1>3, FS_CardinalityType

\* What fetch_add changes if it releases: a value that tells all the last one
\* and the thread had to tell.
Extended(t, l, new) ==
    /\ mem' = [mem EXCEPT ![l] = Append(@, new)]
    /\ cur' \in [Threads -> View] /\ acq' \in [Threads -> View]
    /\ \A u \in Threads \ {t} : cur'[u] = cur[u] /\ acq'[u] = acq[u]
    /\ cur'[t][l] >= Len(mem[l]) + 1
    /\ \A k \in Locs \ {l} : cur[t][k] <= cur'[t][k]
    /\ \A k \in Locs : cur'[t][k] <= new[k] /\ Last(mem[l])[k] <= new[k]

LEMMA Added ==
    ASSUME StateInv, CountInv, NEW t \in Threads, NEW l \in Locs, NEW acquire \in BOOLEAN,
           FetchAdd(t, l, acquire, TRUE)
    PROVE  \E new \in View : Extended(t, l, new)
<1> DEFINE n == Len(mem[l]) + 1
           found == Last(mem[l])
           mine == [cur[t] EXCEPT ![l] = n]
           now == IF acquire THEN Join(mine, found) ELSE mine
<1>1. /\ mem[l] \in Seq(View) /\ Len(mem[l]) \in Nat \ {0}
      /\ cur \in [Threads -> View] /\ acq \in [Threads -> View]
  BY FS_CardinalityType DEF StateInv, CountInv
<1>2. found \in View /\ n \in Nat
  BY <1>1 DEF Last
<1>3. mine \in View /\ mine[l] = n /\ \A k \in Locs \ {l} : mine[k] = cur[t][k]
  <2> HIDE DEF n
  <2> QED
    BY <1>1, <1>2 DEF View
<1>4. now \in View /\ \A k \in Locs : mine[k] <= now[k]
  <2> HIDE DEF n, mine, found
  <2>1. \A k \in Locs : mine[k] \in Nat
    BY <1>3 DEF View
  <2> QED
    BY <1>2, <1>3, <2>1, JoinFacts
<1> HIDE DEF n, found, mine, now
<1>5. Join(found, now) \in View /\ Join(Join(acq[t], found), now) \in View
  BY <1>1, <1>2, <1>4, JoinFacts
<1>6. /\ mem' = [mem EXCEPT ![l] = Append(@, Join(found, now))]
      /\ cur' = [cur EXCEPT ![t] = now]
      /\ acq' = [acq EXCEPT ![t] = Join(Join(@, found), now)]
  BY DEF FetchAdd, n, found, mine, now
<1>7. \A k \in Locs : now[k] <= Join(found, now)[k] /\ found[k] <= Join(found, now)[k]
  BY <1>2, <1>4, JoinFacts
<1>8. cur'[t] = now /\ cur' \in [Threads -> View] /\ acq' \in [Threads -> View]
      /\ \A u \in Threads \ {t} : cur'[u] = cur[u] /\ acq'[u] = acq[u]
  BY <1>1, <1>4, <1>5, <1>6
<1>9. now[l] >= n /\ \A k \in Locs \ {l} : cur[t][k] <= now[k]
  BY <1>3, <1>4, <1>2 DEF View
<1> QED
  BY <1>5, <1>6, <1>7, <1>8, <1>9 DEF n, found, Extended

\* A load looks back no further than the thread has seen.
LEMMA Loaded ==
    ASSUME StateInv, NEW t \in Threads, NEW l \in Locs, NEW i \in 1 .. Len(mem[l]),
           NEW acquire \in BOOLEAN, Load(t, l, i, acquire)
    PROVE  /\ mem' = mem
           /\ cur[t][l] <= i
           /\ cur' \in [Threads -> View] /\ acq' \in [Threads -> View]
           /\ \A u \in Threads \ {t} : cur'[u] = cur[u] /\ acq'[u] = acq[u]
           /\ \A k \in Locs : cur[t][k] <= cur'[t][k] /\ acq[t][k] <= acq'[t][k]
           /\ \A k \in Locs : mem[l][i][k] <= acq'[t][k] /\ cur'[t][k] <= acq'[t][k]
           /\ acquire => \A k \in Locs : mem[l][i][k] <= cur'[t][k]
<1> DEFINE found == mem[l][i]
           mine == [cur[t] EXCEPT ![l] = i]
           now == IF acquire THEN Join(mine, found) ELSE mine
<1>1. /\ mem[l] \in Seq(View)
      /\ cur \in [Threads -> View] /\ acq \in [Threads -> View]
  BY DEF StateInv
<1>2. found \in View /\ i \in Nat
  BY <1>1
<1>3. cur[t][l] <= i /\ cur[t][l] \in Nat
  BY <1>1 DEF Load, View
<1>4. mine \in View /\ \A k \in Locs : cur[t][k] <= mine[k]
  BY <1>1, <1>2, <1>3 DEF View
<1>5. /\ now \in View /\ \A k \in Locs : mine[k] <= now[k]
      /\ acquire => \A k \in Locs : found[k] <= now[k]
  <2> HIDE DEF mine, found
  <2>1. \A k \in Locs : mine[k] \in Nat
    BY <1>4 DEF View
  <2> QED
    BY <1>2, <1>4, <2>1, JoinFacts
<1>6. /\ mem' = mem
      /\ cur' = [cur EXCEPT ![t] = now]
      /\ acq' = [acq EXCEPT ![t] = Join(Join(@, found), now)]
  BY DEF Load
<1> HIDE DEF found, mine, now
<1> DEFINE a == Join(acq[t], found)
<1>7. a \in View /\ \A k \in Locs : acq[t][k] <= a[k] /\ found[k] <= a[k]
  BY <1>1, <1>2, JoinFacts
<1> HIDE DEF a
<1>8. Join(a, now) \in View
      /\ \A k \in Locs : a[k] <= Join(a, now)[k] /\ now[k] <= Join(a, now)[k]
  BY <1>5, <1>7, JoinFacts
<1>9. cur'[t] = now /\ acq'[t] = Join(a, now)
      /\ cur' \in [Threads -> View] /\ acq' \in [Threads -> View]
      /\ \A u \in Threads \ {t} : cur'[u] = cur[u] /\ acq'[u] = acq[u]
  BY <1>1, <1>5, <1>6, <1>8 DEF a
<1>10. \A k \in Locs : /\ cur[t][k] \in Nat /\ mine[k] \in Nat /\ now[k] \in Nat
                       /\ acq[t][k] \in Nat /\ a[k] \in Nat /\ found[k] \in Nat
                       /\ Join(a, now)[k] \in Nat
  BY <1>1, <1>2, <1>4, <1>5, <1>7, <1>8 DEF View
<1>11. \A k \in Locs : cur[t][k] <= now[k] /\ acq[t][k] <= Join(a, now)[k] /\ found[k] <= Join(a, now)[k]
  BY <1>4, <1>5, <1>7, <1>8, <1>10, SMTT(30)
<1> QED
  BY <1>3, <1>5, <1>6, <1>8, <1>9, <1>11 DEF found

-----------------------------------------------------------------------------
(* Writers                                                                 *)

LEMMA PastFacts ==
    /\ \A l \in Fields : Past("end") \subseteq Past(l) /\ Past(l) \subseteq Past("start")
    /\ \A l \in Locs : Past(l) \subseteq Writers
BY DEF Past, After, Fields, Locs

\* A writer's increment of l keeps the invariant if it has incremented what
\* the code has it increment before.
LEMMA WriterAdds ==
    ASSUME StateInv, CountInv, ReleasedInv, ReaderInv, NEW CONSTANT own, RankInv(own),
           NEW CONSTANT t \in Writers, NEW CONSTANT l \in Locs, NEW acquire \in BOOLEAN,
           FetchAdd(t, l, acquire, TRUE),
           StateInv',
           t \notin Past(l), Past(l)' = Past(l) \cup {t},
           \A k \in Locs \ {l} : Past(k)' = Past(k),
           l \in Fields => t \in Past("start"),
           l = "end" => \A k \in Fields : t \in Past(k),
           \A u \in Readers : pc'[u] = pc[u],
           UNCHANGED <<e1, s1, seen>>
    PROVE  LockInv'
<1> USE OrderAssumption
<1>1. PICK n : n = Len(mem[l]) + 1
  OBVIOUS
<1>2. PICK new \in View : Extended(t, l, new)
  <2>1. t \in Threads
    BY DEF Threads
  <2> QED
    BY <2>1, Added
<1>3. /\ mem \in [Locs -> Seq(View)] /\ cur \in [Threads -> View] /\ cur' \in [Threads -> View]
      /\ \A k \in Locs : IsFiniteSet(Past(k)) /\ Cardinality(Past(k)) \in Nat
                         /\ Len(mem[k]) = Cardinality(Past(k)) + 1
      /\ Readers \subseteq Threads \ {t} /\ Writers \subseteq Threads
  BY FS_CardinalityType DEF StateInv, CountInv, Threads
<1> USE DEF Extended
<1>4. /\ mem'[l] = Append(mem[l], new) /\ \A k \in Locs \ {l} : mem'[k] = mem[k]
      /\ Len(mem'[l]) = n /\ mem'[l][n] = new /\ Last(mem'[l]) = new
      /\ \A i \in 1 .. Len(mem[l]) : mem'[l][i] = mem[l][i]
      /\ n \in Nat \ {0} /\ Len(mem[l]) = n - 1
  <2>1. mem'[l] = Append(mem[l], new) /\ \A k \in Locs \ {l} : mem'[k] = mem[k]
    BY <1>2, <1>3
  <2>2. mem[l] \in Seq(View) /\ Len(mem[l]) \in Nat
    BY <1>3
  <2> QED
    BY <1>1, <2>1, <2>2 DEF Last
<1> DEFINE next == [k \in Locs |-> [u \in Writers |-> IF k = l /\ u = t THEN n ELSE own[k][u]]]
<1>5. CountInv'
  <2>1. IsFiniteSet(Past(l)') /\ Cardinality(Past(l)') = Cardinality(Past(l)) + 1
    <3>1. /\ IsFiniteSet(Past(l) \cup {t})
          /\ Cardinality(Past(l) \cup {t}) = Cardinality(Past(l)) + 1
      BY <1>3, FS_AddElement
    <3> QED
      BY <3>1
  <2>2. Len(mem'[l]) = Cardinality(Past(l)') + 1
    BY <2>1, <1>3, <1>4
  <2>3. \A k \in Locs \ {l} : /\ IsFiniteSet(Past(k)')
                              /\ Len(mem'[k]) = Cardinality(Past(k)') + 1
    <3> TAKE k \in Locs \ {l}
    <3>1. Past(k)' = Past(k) /\ mem'[k] = mem[k]
      BY <1>4
    <3>2. IsFiniteSet(Past(k)) /\ Len(mem[k]) = Cardinality(Past(k)) + 1
      BY <1>3
    <3> QED
      BY <3>1, <3>2
  <2>4. \A k \in Locs : IsFiniteSet(Past(k)') /\ Len(mem'[k]) = Cardinality(Past(k)') + 1
    BY <2>1, <2>2, <2>3
  <2> QED
    BY <2>4 DEF CountInv
<1>6. next \in [Locs -> [Writers -> Nat]] /\ own \in [Locs -> [Writers -> Nat]]
  BY <1>4 DEF RankInv
<1>7. /\ \A k \in Locs : \A u \in Past(k) : 2 <= own[k][u] /\ own[k][u] <= cur[u][k]
      /\ \A k \in Locs : \A u \in Past(k) : own[k][u] <= Len(mem[k])
      /\ \A k \in Locs : \A u, v \in Past(k) : own[k][u] = own[k][v] => u = v
      /\ \A k \in Fields : \A u \in Past(k) : own["start"][u] <= Last(mem[k])["start"]
      /\ \A k \in Fields : \A u \in Past("end") : own[k][u] <= Last(mem["end"])[k]
  BY DEF RankInv
<1>8. /\ \A k \in Locs : \A u \in Past(k) : next[k][u] = own[k][u]
      /\ next[l][t] = n
      /\ \A k \in Locs : Past(k)' \subseteq Writers
  <2>1. \A k \in Locs : Past(k) \subseteq Writers
    BY PastFacts
  <2> QED
    BY <2>1
<1> HIDE DEF next
<1>9. \A k \in Locs : \A u \in Past(k)' :
         2 <= next[k][u] /\ next[k][u] <= cur'[u][k] /\ next[k][u] <= Len(mem'[k])
  <2>1. ASSUME NEW k \in Locs, NEW u \in Past(k)
        PROVE  2 <= next[k][u] /\ next[k][u] <= cur'[u][k] /\ next[k][u] <= Len(mem'[k])
    <3>1. next[k][u] = own[k][u] /\ u \in Writers /\ own[k][u] \in Nat
      BY <1>6, <1>8, PastFacts
    <3>2. own[k][u] <= Len(mem'[k])
      <4>1. own[k][u] <= Len(mem[k])
        BY <1>7
      <4>2. CASE k = l
        BY <3>1, <4>1, <4>2, <1>4
      <4>3. CASE k # l
        BY <4>1, <4>3, <1>4
      <4> QED
        BY <4>2, <4>3
    <3>3. own[k][u] <= cur'[u][k]
      <4>1. CASE u = t
        <5>1. k # l
          BY <4>1
        <5>2. own[k][u] <= cur[t][k] /\ cur[t][k] <= cur'[t][k]
          BY <4>1, <5>1, <1>2, <1>7
        <5>3. cur[t][k] \in Nat /\ cur'[t][k] \in Nat
          BY <1>3 DEF View
        <5> QED
          BY <3>1, <4>1, <5>2, <5>3
      <4>2. CASE u # t
        BY <3>1, <4>2, <1>2, <1>3, <1>7
      <4> QED
        BY <4>1, <4>2
    <3> QED
      BY <3>1, <3>2, <3>3, <1>7
  <2>2. 2 <= next[l][t] /\ next[l][t] <= cur'[t][l] /\ next[l][t] <= Len(mem'[l])
    <3>1. 2 <= n
      BY <1>1, <1>3
    <3>2. n <= cur'[t][l]
      BY <1>1, <1>2, <1>3 DEF View
    <3> QED
      BY <3>1, <3>2, <1>4, <1>8
  <2> QED
    BY <2>1, <2>2
<1>10. \A k \in Locs : \A u, v \in Past(k)' : next[k][u] = next[k][v] => u = v
  <2>1. \A u \in Past(l) : own[l][u] # n
    BY <1>4, <1>6, <1>7, PastFacts
  <2> QED
    BY <2>1, <1>7, <1>8
<1>11. \A k \in Fields : \A u \in Past(k)' : next["start"][u] <= Last(mem'[k])["start"]
  <2>1. ASSUME NEW k \in Fields, NEW u \in Past(k)
        PROVE  next["start"][u] <= Last(mem'[k])["start"]
    <3>1. "start" \in Locs /\ k \in Locs /\ u \in Past("start") /\ u \in Writers
      BY PastFacts DEF Fields, Locs
    <3>2. next["start"][u] = own["start"][u] /\ own["start"][u] \in Nat
      BY <3>1, <1>6, <1>8
    <3>3. CASE k # l
      BY <3>1, <3>2, <3>3, <1>4, <1>7
    <3>4. CASE k = l
      <4>1. own["start"][u] <= Last(mem[l])["start"] /\ Last(mem[l])["start"] <= new["start"]
        BY <3>1, <3>4, <1>2, <1>7
      <4>2. Last(mem[l]) \in View
        <5>1. Len(mem[l]) \in 1 .. Len(mem[l])
          BY <1>3
        <5> QED
          BY <5>1, <1>3 DEF Last
      <4>3. Last(mem[l])["start"] \in Nat /\ new["start"] \in Nat
        BY <3>1, <4>2 DEF View
      <4> QED
        BY <3>2, <3>4, <4>1, <4>3, <1>4
    <3> QED
      BY <3>3, <3>4
  <2>2. ASSUME l \in Fields
        PROVE  next["start"][t] <= Last(mem'[l])["start"]
    <3>1. "start" \in Locs /\ l # "start" /\ t \in Past("start")
      BY <2>2 DEF Fields, Locs
    <3>2. next["start"][t] = own["start"][t] /\ own["start"][t] \in Nat
      BY <3>1, <1>6, <1>8
    <3>3. own["start"][t] <= cur[t]["start"] /\ cur[t]["start"] <= cur'[t]["start"]
          /\ cur'[t]["start"] <= new["start"]
      BY <3>1, <1>2, <1>7
    <3>4. cur[t]["start"] \in Nat /\ cur'[t]["start"] \in Nat /\ new["start"] \in Nat
      BY <3>1, <1>3 DEF View
    <3> QED
      BY <3>2, <3>3, <3>4, <1>4
  <2>3. Fields \subseteq Locs
    BY DEF Fields, Locs
  <2> QED
    BY <2>1, <2>2, <2>3
<1>12. \A k \in Fields : \A u \in Past("end")' : next[k][u] <= Last(mem'["end"])[k]
  <2>1. "end" \in Locs /\ Fields \subseteq Locs /\ "end" \notin Fields
    BY DEF Fields, Locs
  <2>2. ASSUME NEW k \in Fields, NEW u \in Past("end")
        PROVE  next[k][u] <= Last(mem'["end"])[k]
    <3>1. k \in Locs /\ u \in Past(k) /\ u \in Writers
      BY <2>1, PastFacts
    <3>2. next[k][u] = own[k][u] /\ own[k][u] \in Nat
      BY <3>1, <1>6, <1>8
    <3>3. CASE l # "end"
      BY <2>1, <2>2, <3>2, <3>3, <1>4, <1>7
    <3>4. CASE l = "end"
      <4>1. own[k][u] <= Last(mem[l])[k] /\ Last(mem[l])[k] <= new[k]
        BY <3>1, <3>4, <1>2, <1>7
      <4>2. Last(mem[l]) \in View
        <5>1. Len(mem[l]) \in 1 .. Len(mem[l])
          BY <1>3
        <5> QED
          BY <5>1, <1>3 DEF Last
      <4>3. Last(mem[l])[k] \in Nat /\ new[k] \in Nat
        BY <3>1, <4>2 DEF View
      <4> QED
        BY <3>2, <3>4, <4>1, <4>3, <1>4
    <3> QED
      BY <3>3, <3>4
  <2>3. ASSUME l = "end", NEW k \in Fields
        PROVE  next[k][t] <= Last(mem'["end"])[k]
    <3>1. k \in Locs /\ k # l /\ t \in Past(k)
      BY <2>1, <2>3
    <3>2. next[k][t] = own[k][t] /\ own[k][t] \in Nat
      BY <3>1, <1>6, <1>8
    <3>3. own[k][t] <= cur[t][k] /\ cur[t][k] <= cur'[t][k] /\ cur'[t][k] <= new[k]
      BY <3>1, <1>2, <1>7
    <3>4. cur[t][k] \in Nat /\ cur'[t][k] \in Nat /\ new[k] \in Nat
      BY <3>1, <1>3 DEF View
    <3> QED
      BY <2>3, <3>2, <3>3, <3>4, <1>4
  <2> QED
    BY <2>1, <2>2, <2>3
<1>13. RankInv(next)'
  BY <1>6, <1>9, <1>10, <1>11, <1>12 DEF RankInv
<1>14. ReleasedInv'
  <2>1. /\ \A k \in Fields : \A i \in 1 .. Len(mem[k]) : i <= mem[k][i]["start"]
        /\ \A k \in Fields : \A i \in 1 .. Len(mem["end"]) : i <= mem["end"][i][k]
        /\ Fields \subseteq Locs /\ "end" \in Locs /\ "start" \in Locs /\ "end" \notin Fields
    BY DEF ReleasedInv, Fields, Locs
  <2>2. Len(mem'[l]) = Cardinality(Past(l)') + 1 /\ t \in Past(l)'
    BY <1>5 DEF CountInv
  <2>3. ASSUME NEW k \in Locs, \A u \in Past(l)' : u \in Past(k)',
               \A u \in Past(l)' : next[k][u] <= new[k]
        PROVE  n <= new[k]
    <3> DEFINE f == [u \in Past(l)' |-> next[k][u]]
    <3>1. f \in [Past(l)' -> Nat] /\ new[k] \in Nat
      BY <1>6, <1>8 DEF View
    <3>2. \A u \in Past(l)' : 2 <= f[u] /\ f[u] <= new[k]
      BY <2>3, <1>9
    <3>3. \A u, v \in Past(l)' : f[u] = f[v] => u = v
      BY <2>3, <1>10
    <3>4. Past(l)' # {}
      BY <2>2
    <3> HIDE DEF f
    <3>5. Cardinality(Past(l)') + 1 <= new[k]
      BY <3>1, <3>2, <3>3, <3>4, Ranked
    <3> QED
      BY <3>5, <2>2, <1>4
  <2>4. \A k \in Fields : Past("end")' \subseteq Past(k)' /\ Past(k)' \subseteq Past("start")'
    BY DEF Past, After, Fields, Locs
  <2>5. ASSUME NEW k \in Fields, NEW i \in 1 .. Len(mem'[k])
        PROVE  i <= mem'[k][i]["start"]
    <3>1. CASE k # l
      BY <2>1, <2>5, <3>1, <1>4
    <3>2. CASE k = l /\ i # n
      <4>1. i \in 1 .. Len(mem[l])
        BY <2>5, <3>2, <1>4
      <4> QED
        BY <2>1, <3>2, <4>1, <1>4
    <3>3. CASE k = l /\ i = n
      <4>1. n <= new["start"]
        BY <2>1, <2>3, <2>4, <3>3, <1>4, <1>11
      <4> QED
        BY <3>3, <4>1, <1>4
    <3> QED
      BY <3>1, <3>2, <3>3
  <2>6. ASSUME NEW k \in Fields, NEW i \in 1 .. Len(mem'["end"])
        PROVE  i <= mem'["end"][i][k]
    <3>1. CASE l # "end"
      BY <2>1, <2>6, <3>1, <1>4
    <3>2. CASE l = "end" /\ i # n
      <4>1. i \in 1 .. Len(mem[l])
        BY <2>6, <3>2, <1>4
      <4> QED
        BY <2>1, <3>2, <4>1, <1>4
    <3>3. CASE l = "end" /\ i = n
      <4>1. n <= new[k]
        BY <2>1, <2>3, <2>4, <3>3, <1>4, <1>12
      <4> QED
        BY <3>3, <4>1, <1>4
    <3> QED
      BY <3>1, <3>2, <3>3
  <2> QED
    BY <2>5, <2>6 DEF ReleasedInv
<1>15. ReaderInv'
  BY <1>2, <1>3 DEF ReaderInv, ReaderKnows
<1> QED
  BY <1>5, <1>13, <1>14, <1>15 DEF LockInv

\* Each step of `write` keeps the invariant.
LEMMA WriterSteps ==
    ASSUME LockInv, ~FieldsAreRelaxed, NEW CONSTANT t \in Writers,
           \/ WriteStart(t) \/ WriteField(t, "x", "y") \/ WriteField(t, "y", "end") \/ WriteEnd(t)
    PROVE  LockInv'
<1>1. /\ StateInv /\ CountInv /\ ReleasedInv /\ ReaderInv /\ \E own : RankInv(own)
      /\ t \in Threads /\ Writers \subseteq Threads /\ \A u \in Readers : u \in Threads /\ u # t
      /\ pc \in [Threads -> {"start", "x", "y", "end", "done", "e1", "s1", "fence", "s2"}]
  BY OrderAssumption DEF LockInv, StateInv, Threads
<1>2. PICK own : RankInv(own)
  BY <1>1
<1>3. ASSUME NEW CONSTANT l \in Locs, NEW acquire \in BOOLEAN, FetchAdd(t, l, acquire, TRUE),
             NEW to \in {"x", "y", "end", "done"}, pc' = [pc EXCEPT ![t] = to],
             UNCHANGED <<e1, s1, seen>>
      PROVE  StateInv'
  <2>1. PICK new \in View : Extended(t, l, new)
    BY <1>1, <1>3, Added
  <2>2. mem' \in [Locs -> Seq(View)]
    <3>1. mem \in [Locs -> Seq(View)] /\ mem' = [mem EXCEPT ![l] = Append(@, new)]
      BY <1>1, <2>1 DEF StateInv, Extended
    <3> QED
      BY <3>1
  <2>3. pc' \in [Threads -> {"start", "x", "y", "end", "done", "e1", "s1", "fence", "s2"}]
    BY <1>1, <1>3
  <2>4. e1' \in [Readers -> Nat] /\ s1' \in [Readers -> Nat] /\ seen' \in [Readers -> [Fields -> Nat]]
    BY <1>1, <1>3 DEF StateInv
  <2> QED
    BY <2>1, <2>2, <2>3, <2>4 DEF StateInv, Extended
\* The steps of `write` in their order.
<1>4. ASSUME NEW CONSTANT l \in Locs, NEW acquire \in BOOLEAN, FetchAdd(t, l, acquire, TRUE),
             NEW from, NEW to, pc[t] = from, pc' = [pc EXCEPT ![t] = to],
             UNCHANGED <<e1, s1, seen>>,
             <<from, l, to>> \in {<<"start", "start", "x">>, <<"x", "x", "y">>,
                                  <<"y", "y", "end">>, <<"end", "end", "done">>}
      PROVE  LockInv'
  <2>1. to \in {"x", "y", "end", "done"}
    BY <1>4
  <2>2. StateInv'
    BY <1>3, <1>4, <2>1
  <2>3. t \notin Past(l) /\ Past(l)' = Past(l) \cup {t} /\ \A k \in Locs \ {l} : Past(k)' = Past(k)
    <3>1. pc'[t] = to /\ \A u \in Writers \ {t} : pc'[u] = pc[u]
      BY <1>1, <1>4
    <3>2. \A k \in Locs : from \notin After[l] /\ to \in After[l] /\ (k # l => (from \in After[k] <=> to \in After[k]))
      BY <1>4 DEF After, Locs
    <3> QED
      BY <1>4, <3>1, <3>2 DEF Past
  <2>4. /\ l \in Fields => t \in Past("start")
        /\ l = "end" => \A k \in Fields : t \in Past(k)
    BY <1>4 DEF Past, After, Fields, Locs
  <2>5. \A u \in Readers : pc'[u] = pc[u]
    BY <1>1, <1>4
  <2> QED
    BY <1>1, <1>2, <1>4, <2>2, <2>3, <2>4, <2>5, WriterAdds
<1>5. CASE WriteStart(t)
  BY <1>4, <1>5 DEF WriteStart, Goto, Locs
<1>6. CASE WriteField(t, "x", "y")
  BY <1>4, <1>6 DEF WriteField, Goto, Locs
<1>7. CASE WriteField(t, "y", "end")
  BY <1>4, <1>7 DEF WriteField, Goto, Locs
<1>8. CASE WriteEnd(t)
  BY <1>4, <1>8 DEF WriteEnd, Goto, Locs
<1> QED
  BY <1>5, <1>6, <1>7, <1>8

-----------------------------------------------------------------------------
(* Readers                                                                 *)

\* A reader leaves what the writers have done as it is.
LEMMA ReaderLeaves ==
    ASSUME LockInv, NEW CONSTANT t \in Readers,
           mem' = mem, \A u \in Writers : cur'[u] = cur[u] /\ pc'[u] = pc[u],
           StateInv', ReaderInv'
    PROVE  LockInv'
<1>1. \A l \in Locs : Past(l)' = Past(l)
  BY DEF Past
<1>2. CountInv' /\ ReleasedInv'
  BY <1>1 DEF LockInv, CountInv, ReleasedInv
<1>3. PICK own : RankInv(own)
  BY DEF LockInv
<1>4. \A l \in Locs : Past(l) \subseteq Writers
  BY PastFacts
<1>5. Fields \subseteq Locs /\ "end" \in Locs
  BY DEF Fields, Locs
<1>6. RankInv(own)'
  <2>1. \A l \in Locs : \A u \in Past(l) : cur'[u] = cur[u]
    BY <1>4
  <2> USE DEF RankInv
  <2>2. \A l \in Locs : \A u \in Past(l)' : 2 <= own[l][u] /\ own[l][u] <= cur'[u][l]
    BY <1>1, <1>3, <2>1
  <2>3. /\ \A l \in Locs : \A u \in Past(l)' : own[l][u] <= Len(mem'[l])
        /\ \A l \in Locs : \A u, v \in Past(l)' : own[l][u] = own[l][v] => u = v
    BY <1>1, <1>3
  <2>4. /\ \A l \in Fields : \A u \in Past(l)' : own["start"][u] <= Last(mem'[l])["start"]
        /\ \A l \in Fields : \A u \in Past("end")' : own[l][u] <= Last(mem'["end"])[l]
    BY <1>1, <1>3, <1>5
  <2> QED
    BY <1>3, <2>2, <2>3, <2>4
<1> QED
  BY <1>2, <1>6 DEF LockInv

\* Each step of `read` keeps the invariant.
LEMMA ReaderSteps ==
    ASSUME LockInv, NEW CONSTANT t \in Readers,
           \/ ReadEnd(t) \/ ReadStart(t) \/ ReadField(t, "x", "y") \/ ReadField(t, "y", "fence")
           \/ ReadFence(t) \/ ReadStartAgain(t)
    PROVE  LockInv'
<1> DEFINE PCs == {"start", "x", "y", "end", "done", "e1", "s1", "fence", "s2"}
<1>1. /\ StateInv /\ ReleasedInv /\ ReaderInv
      /\ t \in Threads /\ Readers \subseteq Threads
      /\ \A u \in Writers : u \in Threads /\ u # t
      /\ pc \in [Threads -> PCs]
      /\ cur \in [Threads -> View] /\ acq \in [Threads -> View]
      /\ e1 \in [Readers -> Nat] /\ s1 \in [Readers -> Nat] /\ seen \in [Readers -> [Fields -> Nat]]
      /\ mem \in [Locs -> Seq(View)]
      /\ Fields \subseteq Locs /\ "start" \in Locs /\ "end" \in Locs
  BY OrderAssumption DEF LockInv, StateInv, Threads, Fields, Locs
<1>2. ReaderKnows(t)
  BY <1>1 DEF ReaderInv
<1>0. \A l \in Fields : /\ e1[t] <= cur[t][l] /\ cur[t][l] <= acq[t][l]
                        /\ e1[t] \in Nat /\ cur[t][l] \in Nat /\ acq[t][l] \in Nat
  BY <1>1, <1>2 DEF ReaderKnows, View
<1>3. ASSUME NEW to \in PCs, pc' = [pc EXCEPT ![t] = to], mem' = mem,
             cur' \in [Threads -> View], acq' \in [Threads -> View],
             \A u \in Threads \ {t} : cur'[u] = cur[u] /\ acq'[u] = acq[u],
             e1' \in [Readers -> Nat], s1' \in [Readers -> Nat], seen' \in [Readers -> [Fields -> Nat]],
             \A u \in Readers \ {t} : e1'[u] = e1[u] /\ s1'[u] = s1[u] /\ seen'[u] = seen[u],
             ReaderKnows(t)'
      PROVE  LockInv'
  <2> HIDE DEF PCs
  <2>1. pc' \in [Threads -> PCs] /\ \A u \in Threads \ {t} : pc'[u] = pc[u]
    BY <1>1, <1>3
  <2>2. StateInv'
    BY <1>1, <1>3, <2>1 DEF StateInv, PCs
  <2>3. ReaderInv'
    <3>1. \A u \in Readers \ {t} : /\ pc'[u] = pc[u] /\ cur'[u] = cur[u] /\ acq'[u] = acq[u]
                                   /\ e1'[u] = e1[u] /\ s1'[u] = s1[u] /\ seen'[u] = seen[u]
      BY <1>1, <1>3, <2>1
    <3>2. ASSUME NEW u \in Readers \ {t} PROVE ReaderKnows(u)'
      <4>1. /\ pc'[u] = pc[u] /\ cur'[u] = cur[u] /\ acq'[u] = acq[u]
            /\ e1'[u] = e1[u] /\ s1'[u] = s1[u] /\ seen'[u] = seen[u]
        BY <3>1
      <4>2. ReaderKnows(u)
        BY <1>1 DEF ReaderInv
      <4> QED
        BY ONLY <4>1, <4>2 DEF ReaderKnows
    <3> QED
      BY <1>3, <3>2 DEF ReaderInv
  <2>4. \A u \in Writers : cur'[u] = cur[u] /\ pc'[u] = pc[u]
    BY <1>1, <1>3, <2>1
  <2> QED
    BY <1>3, <2>2, <2>3, <2>4, ReaderLeaves
\* A load of any location.
<1>4. ASSUME NEW l \in Locs, NEW i \in 1 .. Len(mem[l]), NEW acquire \in BOOLEAN,
             Load(t, l, i, acquire)
      PROVE  /\ mem' = mem /\ cur' \in [Threads -> View] /\ acq' \in [Threads -> View]
             /\ \A u \in Threads \ {t} : cur'[u] = cur[u] /\ acq'[u] = acq[u]
             /\ i \in Nat /\ mem[l][i] \in View
             /\ \A k \in Locs : /\ cur[t][k] \in Nat /\ cur'[t][k] \in Nat /\ acq[t][k] \in Nat
                                /\ acq'[t][k] \in Nat /\ mem[l][i][k] \in Nat
             /\ cur[t][l] <= i
             /\ \A k \in Locs : cur[t][k] <= cur'[t][k] /\ acq[t][k] <= acq'[t][k]
             /\ \A k \in Locs : mem[l][i][k] <= acq'[t][k] /\ cur'[t][k] <= acq'[t][k]
             /\ acquire => \A k \in Locs : mem[l][i][k] <= cur'[t][k]
  <2>1. /\ mem' = mem /\ cur' \in [Threads -> View] /\ acq' \in [Threads -> View]
        /\ \A u \in Threads \ {t} : cur'[u] = cur[u] /\ acq'[u] = acq[u]
        /\ cur[t][l] <= i
        /\ \A k \in Locs : cur[t][k] <= cur'[t][k] /\ acq[t][k] <= acq'[t][k]
        /\ \A k \in Locs : mem[l][i][k] <= acq'[t][k] /\ cur'[t][k] <= acq'[t][k]
        /\ acquire => \A k \in Locs : mem[l][i][k] <= cur'[t][k]
    BY <1>1, <1>4, Loaded
  <2>2. mem[l][i] \in View /\ i \in Nat
    BY <1>1
  <2> QED
    BY <1>1, <2>1, <2>2 DEF View
<1>5. CASE ReadEnd(t)
  <2>1. PICK i \in 1 .. Len(mem["end"]) :
           Load(t, "end", i, TRUE) /\ e1' = [e1 EXCEPT ![t] = i]
    BY <1>5 DEF ReadEnd
  <2>2. /\ pc[t] = "e1" /\ pc' = [pc EXCEPT ![t] = "s1"] /\ UNCHANGED <<s1, seen>>
        /\ pc'[t] = "s1"
    BY <1>1, <1>5 DEF ReadEnd, Goto
  <2>3. /\ mem' = mem /\ cur' \in [Threads -> View] /\ acq' \in [Threads -> View]
        /\ \A u \in Threads \ {t} : cur'[u] = cur[u] /\ acq'[u] = acq[u]
        /\ i \in Nat /\ \A k \in Locs : mem["end"][i][k] <= cur'[t][k] /\ cur'[t][k] \in Nat
                                        /\ mem["end"][i][k] \in Nat /\ cur'[t][k] <= acq'[t][k]
    BY <1>1, <1>4, <2>1
  <2>4. e1' \in [Readers -> Nat] /\ e1'[t] = i /\ \A u \in Readers \ {t} : e1'[u] = e1[u]
    BY <1>1, <2>1, <2>3
  <2>5. \A l \in Fields : e1'[t] <= cur'[t][l] /\ cur'[t][l] <= acq'[t][l]
    <3>1. \A l \in Fields : i <= mem["end"][i][l]
      BY <1>1 DEF ReleasedInv
    <3>2. \A l \in Fields : /\ mem["end"][i][l] <= cur'[t][l] /\ cur'[t][l] <= acq'[t][l]
                            /\ mem["end"][i][l] \in Nat /\ cur'[t][l] \in Nat
      BY <1>1, <2>3
    <3> QED
      BY <2>3, <2>4, <3>1, <3>2
  <2>6. ReaderKnows(t)'
    BY <2>2, <2>5 DEF ReaderKnows
  <2> QED
    BY <1>1, <1>3, <2>2, <2>3, <2>4, <2>6
<1>6. CASE ReadStart(t)
  <2>1. PICK i \in 1 .. Len(mem["start"]) :
           /\ Goto(t, "s1", IF i = e1[t] THEN "x" ELSE "e1")
           /\ Load(t, "start", i, TRUE)
           /\ s1' = [s1 EXCEPT ![t] = i]
           /\ UNCHANGED <<e1, seen>>
    BY <1>6 DEF ReadStart
  <2>2. /\ mem' = mem /\ cur' \in [Threads -> View] /\ acq' \in [Threads -> View]
        /\ \A u \in Threads \ {t} : cur'[u] = cur[u] /\ acq'[u] = acq[u]
        /\ i \in Nat /\ \A k \in Locs : cur[t][k] <= cur'[t][k] /\ cur[t][k] \in Nat /\ cur'[t][k] \in Nat
                                    /\ cur'[t][k] <= acq'[t][k]
    BY <1>1, <1>4, <2>1
  <2>3. PICK to \in {"x", "e1"} : /\ pc' = [pc EXCEPT ![t] = to] /\ pc'[t] = to
                                  /\ to = "x" => i = e1[t]
    BY <1>1, <2>1 DEF Goto
  <2>4. s1' \in [Readers -> Nat] /\ s1'[t] = i /\ \A u \in Readers \ {t} : s1'[u] = s1[u]
    BY <1>1, <2>1, <2>2
  <2>5. \A l \in Fields : e1'[t] <= cur'[t][l] /\ cur'[t][l] <= acq'[t][l]
    <3>1. ASSUME NEW l \in Fields
          PROVE  /\ cur[t][l] <= cur'[t][l] /\ cur'[t][l] <= acq'[t][l]
                 /\ cur[t][l] \in Nat /\ cur'[t][l] \in Nat
                 /\ e1[t] <= cur[t][l] /\ e1[t] \in Nat
      BY <1>0, <1>1, <2>2
    <3>2. e1'[t] = e1[t]
      BY <2>1
    <3> QED
      BY <3>1, <3>2
  <2>6. ReaderKnows(t)'
    BY <2>1, <2>3, <2>4, <2>5 DEF ReaderKnows
  <2> QED
    BY <1>1, <1>3, <2>1, <2>2, <2>3, <2>4, <2>6
<1>7. CASE ReadField(t, "x", "y")
  <2>1. PICK i \in 1 .. Len(mem["x"]) :
           Load(t, "x", i, FALSE) /\ seen' = [seen EXCEPT ![t]["x"] = i]
    BY <1>7 DEF ReadField
  <2>2. /\ pc[t] = "x" /\ pc' = [pc EXCEPT ![t] = "y"] /\ UNCHANGED <<e1, s1>> /\ pc'[t] = "y"
        /\ "x" \in Fields /\ "y" \in Fields
    BY <1>1, <1>7 DEF ReadField, Goto, Fields
  <2>3. /\ mem' = mem /\ cur' \in [Threads -> View] /\ acq' \in [Threads -> View]
        /\ \A u \in Threads \ {t} : cur'[u] = cur[u] /\ acq'[u] = acq[u]
        /\ i \in Nat /\ cur[t]["x"] <= i /\ mem["x"][i]["start"] <= acq'[t]["start"]
        /\ mem["x"][i]["start"] \in Nat /\ acq'[t]["start"] \in Nat
        /\ \A k \in Locs : cur[t][k] <= cur'[t][k] /\ cur[t][k] \in Nat /\ cur'[t][k] \in Nat
                                    /\ cur'[t][k] <= acq'[t][k]
    BY <1>1, <1>4, <2>1, <2>2
  <2>4. /\ seen' \in [Readers -> [Fields -> Nat]] /\ seen'[t]["x"] = i
        /\ \A u \in Readers \ {t} : seen'[u] = seen[u]
    BY <1>1, <2>1, <2>2, <2>3
  <2>5. e1[t] <= i /\ i <= acq'[t]["start"]
    <3>1. i <= mem["x"][i]["start"]
      BY <2>2, <1>1 DEF ReleasedInv
    <3>2. e1[t] <= cur[t]["x"] /\ e1[t] \in Nat
      BY <1>0, <2>2
    <3> QED
      BY <1>1, <2>2, <2>3, <3>1, <3>2, SMTT(30)
  <2>6. \A l \in Fields : e1'[t] <= cur'[t][l] /\ cur'[t][l] <= acq'[t][l]
    <3>1. ASSUME NEW l \in Fields
          PROVE  /\ cur[t][l] <= cur'[t][l] /\ cur'[t][l] <= acq'[t][l]
                 /\ cur[t][l] \in Nat /\ cur'[t][l] \in Nat
                 /\ e1[t] <= cur[t][l] /\ e1[t] \in Nat
      BY <1>0, <1>1, <2>3
    <3>2. e1'[t] = e1[t]
      BY <2>2
    <3> QED
      BY <3>1, <3>2
  <2>7. ReaderKnows(t)'
    BY <1>2, <2>2, <2>4, <2>5, <2>6 DEF ReaderKnows
  <2> QED
    BY <1>1, <1>3, <2>2, <2>3, <2>4, <2>7
<1>8. CASE ReadField(t, "y", "fence")
  <2>1. PICK i \in 1 .. Len(mem["y"]) :
           Load(t, "y", i, FALSE) /\ seen' = [seen EXCEPT ![t]["y"] = i]
    BY <1>8 DEF ReadField
  <2>2. /\ pc[t] = "y" /\ pc' = [pc EXCEPT ![t] = "fence"] /\ UNCHANGED <<e1, s1>> /\ pc'[t] = "fence"
        /\ "x" \in Fields /\ "y" \in Fields
    BY <1>1, <1>8 DEF ReadField, Goto, Fields
  <2>3. /\ mem' = mem /\ cur' \in [Threads -> View] /\ acq' \in [Threads -> View]
        /\ \A u \in Threads \ {t} : cur'[u] = cur[u] /\ acq'[u] = acq[u]
        /\ i \in Nat /\ cur[t]["y"] <= i /\ mem["y"][i]["start"] <= acq'[t]["start"]
        /\ mem["y"][i]["start"] \in Nat /\ acq'[t]["start"] \in Nat
        /\ acq[t]["start"] \in Nat /\ acq[t]["start"] <= acq'[t]["start"]
        /\ \A k \in Locs : cur[t][k] <= cur'[t][k] /\ cur[t][k] \in Nat /\ cur'[t][k] \in Nat
                                    /\ cur'[t][k] <= acq'[t][k]
    BY <1>1, <1>4, <2>1, <2>2
  <2>4. /\ seen' \in [Readers -> [Fields -> Nat]] /\ seen'[t]["y"] = i
        /\ seen'[t]["x"] = seen[t]["x"] /\ seen[t]["x"] \in Nat
        /\ \A u \in Readers \ {t} : seen'[u] = seen[u]
    BY <1>1, <2>1, <2>2, <2>3
  <2>5. e1[t] <= i /\ i <= acq'[t]["start"]
    <3>1. i <= mem["y"][i]["start"]
      BY <2>2, <1>1 DEF ReleasedInv
    <3>2. e1[t] <= cur[t]["y"] /\ cur[t]["y"] \in Nat /\ e1[t] \in Nat
      BY <1>0, <2>2
    <3> QED
      BY <1>1, <2>2, <2>3, <3>1, <3>2, SMTT(30)
  <2>6. \A l \in Fields : e1'[t] <= cur'[t][l] /\ cur'[t][l] <= acq'[t][l]
    <3>1. ASSUME NEW l \in Fields
          PROVE  /\ cur[t][l] <= cur'[t][l] /\ cur'[t][l] <= acq'[t][l]
                 /\ cur[t][l] \in Nat /\ cur'[t][l] \in Nat
                 /\ e1[t] <= cur[t][l] /\ e1[t] \in Nat
      BY <1>0, <1>1, <2>3
    <3>2. e1'[t] = e1[t]
      BY <2>2
    <3> QED
      BY <3>1, <3>2
  <2>7. seen[t]["x"] <= acq'[t]["start"]
    <3>1. seen[t]["x"] <= acq[t]["start"]
      BY <1>2, <2>2 DEF ReaderKnows
    <3> QED
      BY <2>3, <2>4, <3>1
  <2>8. ReaderKnows(t)'
    BY <1>2, <2>2, <2>4, <2>5, <2>6, <2>7 DEF ReaderKnows
  <2> QED
    BY <1>1, <1>3, <2>2, <2>3, <2>4, <2>8
<1>9. CASE ReadFence(t)
  <2>1. /\ pc[t] = "fence" /\ pc' = [pc EXCEPT ![t] = "s2"] /\ pc'[t] = "s2"
        /\ UNCHANGED <<mem, acq, e1, s1, seen>> /\ cur' = [cur EXCEPT ![t] = acq[t]]
    BY <1>1, <1>9 DEF ReadFence, Goto
  <2>2. /\ cur' \in [Threads -> View] /\ cur'[t] = acq[t]
        /\ \A u \in Threads \ {t} : cur'[u] = cur[u] /\ acq'[u] = acq[u]
    BY <1>1, <2>1
  <2>3. \A l \in Fields : e1'[t] <= cur'[t][l] /\ cur'[t][l] <= acq'[t][l]
    BY <1>0, <2>1, <2>2
  <2>4. \A l \in Fields : seen'[t][l] <= cur'[t]["start"]
    <3>1. seen[t]["x"] <= acq[t]["start"] /\ seen[t]["y"] <= acq[t]["start"]
      BY <1>2, <2>1 DEF ReaderKnows
    <3> QED
      BY <2>1, <2>2, <3>1 DEF Fields
  <2>5. ReaderKnows(t)'
    BY <1>2, <2>1, <2>3, <2>4 DEF ReaderKnows
  <2> QED
    BY <1>1, <1>3, <2>1, <2>2, <2>5
<1>10. CASE ReadStartAgain(t)
  <2>1. PICK i \in 1 .. Len(mem["start"]) :
           /\ Goto(t, "s2", IF i = s1[t] THEN "done" ELSE "e1")
           /\ Load(t, "start", i, FALSE)
           /\ seen' = IF i = s1[t] THEN seen ELSE [seen EXCEPT ![t] = Unread]
           /\ UNCHANGED <<e1, s1>>
    BY <1>10 DEF ReadStartAgain
  <2>2. /\ mem' = mem /\ cur' \in [Threads -> View] /\ acq' \in [Threads -> View]
        /\ \A u \in Threads \ {t} : cur'[u] = cur[u] /\ acq'[u] = acq[u]
        /\ i \in Nat /\ cur[t]["start"] <= i
        /\ \A k \in Locs : cur[t][k] <= cur'[t][k] /\ cur[t][k] \in Nat /\ cur'[t][k] \in Nat
                                    /\ cur'[t][k] <= acq'[t][k]
    BY <1>1, <1>4, <2>1
  <2>3. PICK to \in {"done", "e1"} : /\ pc' = [pc EXCEPT ![t] = to] /\ pc'[t] = to
                                     /\ to = "done" <=> i = s1[t]
                                     /\ pc[t] = "s2"
    BY <1>1, <2>1 DEF Goto
  <2>4. /\ seen' \in [Readers -> [Fields -> Nat]]
        /\ \A u \in Readers \ {t} : seen'[u] = seen[u]
        /\ to = "done" => seen' = seen
    BY <1>1, <2>1, <2>3 DEF Unread, Fields
  <2>5. \A l \in Fields : e1'[t] <= cur'[t][l] /\ cur'[t][l] <= acq'[t][l]
    <3>1. ASSUME NEW l \in Fields
          PROVE  /\ cur[t][l] <= cur'[t][l] /\ cur'[t][l] <= acq'[t][l]
                 /\ cur[t][l] \in Nat /\ cur'[t][l] \in Nat
                 /\ e1[t] <= cur[t][l] /\ e1[t] \in Nat
      BY <1>0, <1>1, <2>2
    <3>2. e1'[t] = e1[t]
      BY <2>1
    <3> QED
      BY <3>1, <3>2
  <2>6. to = "done" => \A l \in Fields : seen[t][l] = e1[t]
    <3>1. s1[t] = e1[t] /\ \A l \in Fields : e1[t] <= seen[t][l] /\ seen[t][l] <= cur[t]["start"]
      BY <1>2, <2>3 DEF ReaderKnows, Fields
    <3>2. e1[t] \in Nat /\ cur[t]["start"] \in Nat /\ \A l \in Fields : seen[t][l] \in Nat
      BY <1>1, <2>2
    <3> QED
      BY <2>2, <2>3, <3>1, <3>2
  <2>7. ReaderKnows(t)'
    <3>1. CASE to = "e1"
      BY <2>3, <2>5, <3>1 DEF ReaderKnows
    <3>2. CASE to = "done"
      BY <1>2, <2>1, <2>3, <2>4, <2>5, <2>6, <3>2 DEF ReaderKnows
    <3> QED
      BY <3>1, <3>2
  <2> QED
    BY <1>1, <1>3, <2>1, <2>2, <2>3, <2>4, <2>7
<1> QED
  BY <1>5, <1>6, <1>7, <1>8, <1>9, <1>10

-----------------------------------------------------------------------------
(* The specification                                                       *)

LEMMA InitLock == Init => LockInv
<1> SUFFICES ASSUME Init PROVE LockInv
  OBVIOUS
<1> USE OrderAssumption
<1>1. Bottom \in View /\ \A l \in Locs : Bottom[l] = 1
  BY DEF Bottom, View
<1>2. \A l \in Locs : Past(l) = {}
  <2>1. \A t \in Writers : pc[t] = "start"
    BY DEF Init, Threads
  <2> QED
    BY <2>1 DEF Past, After, Locs
<1>3. \A l \in Locs : mem[l] = <<Bottom>> /\ Len(mem[l]) = 1 /\ mem[l][1] = Bottom
  BY DEF Init
<1>4. StateInv
  <2>1. mem \in [Locs -> Seq(View)]
    <3>1. <<Bottom>> \in Seq(View)
      BY <1>1
    <3> QED
      BY <3>1 DEF Init
  <2>2. cur \in [Threads -> View] /\ acq \in [Threads -> View]
    BY <1>1 DEF Init
  <2> QED
    <3>1. pc \in [Threads -> {"start", "x", "y", "end", "done", "e1", "s1", "fence", "s2"}]
      BY DEF Init
    <3>2. e1 \in [Readers -> Nat] /\ s1 \in [Readers -> Nat]
      BY DEF Init
    <3>3. seen \in [Readers -> [Fields -> Nat]]
      BY DEF Init, Unread, Fields
    <3> QED
      BY <2>1, <2>2, <3>1, <3>2, <3>3 DEF StateInv
<1>5. CountInv
  <2>1. IsFiniteSet({}) /\ Cardinality({}) = 0
    BY FS_EmptySet
  <2>2. \A l \in Locs : IsFiniteSet(Past(l)) /\ Cardinality(Past(l)) = 0
    <3> SUFFICES ASSUME NEW l \in Locs PROVE IsFiniteSet(Past(l)) /\ Cardinality(Past(l)) = 0
      OBVIOUS
    <3>1. Past(l) = {}
      BY <1>2
    <3> HIDE DEF Past
    <3> QED
      BY <2>1, <3>1
  <2>3. \A l \in Locs : Len(mem[l]) = 1
    BY <1>3
  <2>4. 1 = 0 + 1
    OBVIOUS
  <2> QED
    BY <2>2, <2>3, <2>4 DEF CountInv
<1>6. Fields \subseteq Locs /\ "start" \in Locs /\ "end" \in Locs
  BY DEF Fields, Locs
<1>7. ReleasedInv
  <2>1. ASSUME NEW l \in Locs, NEW i \in 1 .. Len(mem[l])
        PROVE  mem[l][i] = Bottom /\ i = 1
    <3>1. Len(mem[l]) = 1
      BY <1>3
    <3>2. i = 1
      BY <3>1
    <3> QED
      BY <1>3, <3>2
  <2> QED
    BY <1>1, <1>6, <2>1 DEF ReleasedInv
<1>8. ReaderInv
  <2>1. \A t \in Readers : pc[t] = "e1" /\ e1[t] = 0 /\ cur[t] = Bottom /\ acq[t] = Bottom
    BY DEF Init, Threads
  <2> QED
    BY <1>1, <1>6, <2>1 DEF ReaderInv, ReaderKnows
<1>9. RankInv([l \in Locs |-> [t \in Writers |-> 0]])
  BY <1>2, <1>6 DEF RankInv
<1> QED
  BY <1>4, <1>5, <1>7, <1>8, <1>9 DEF LockInv

LEMMA StutterLock ==
    ASSUME LockInv, UNCHANGED vars
    PROVE  LockInv'
<1>1. \A l \in Locs : Past(l)' = Past(l)
  BY DEF Past, vars
<1>2. PICK own : RankInv(own)
  BY DEF LockInv
<1>3. RankInv(own)'
  <2> USE DEF RankInv
  <2>1. cur' = cur /\ mem' = mem
    BY DEF vars
  <2>2. \A l \in Locs : \A u \in Past(l)' : 2 <= own[l][u] /\ own[l][u] <= cur'[u][l]
    BY <1>1, <1>2, <2>1
  <2>3. /\ \A l \in Locs : \A u \in Past(l)' : own[l][u] <= Len(mem'[l])
        /\ \A l \in Locs : \A u, v \in Past(l)' : own[l][u] = own[l][v] => u = v
    BY <1>1, <1>2, <2>1
  <2>4. /\ \A l \in Fields : \A u \in Past(l)' : own["start"][u] <= Last(mem'[l])["start"]
        /\ \A l \in Fields : \A u \in Past("end")' : own[l][u] <= Last(mem'["end"])[l]
    BY <1>1, <1>2, <2>1 DEF Locs, Fields
  <2> QED
    BY <1>2, <2>2, <2>3, <2>4
<1>4. StateInv' /\ CountInv' /\ ReleasedInv' /\ ReaderInv'
  BY <1>1 DEF LockInv, StateInv, CountInv, ReleasedInv, ReaderInv, ReaderKnows, vars
<1> QED
  BY <1>3, <1>4 DEF LockInv

\* With read-modify-writes that are full barriers, the i-th value of a
\* location carries the increments made before it: the invariant the
\* consistency of `read` rests on, whatever the number of threads.
THEOREM LockInvariance == ~FieldsAreRelaxed /\ Spec => []LockInv
<1> SUFFICES ASSUME ~FieldsAreRelaxed PROVE Spec => []LockInv
  OBVIOUS
<1>1. LockInv /\ [Next]_vars => LockInv'
  <2> SUFFICES ASSUME LockInv, [Next]_vars PROVE LockInv'
    OBVIOUS
  <2>1. CASE Next
    <3>1. ASSUME NEW t \in Writers,
                 \/ WriteStart(t) \/ WriteField(t, "x", "y") \/ WriteField(t, "y", "end") \/ WriteEnd(t)
          PROVE  LockInv'
      BY <3>1, WriterSteps
    <3>2. ASSUME NEW t \in Readers,
                 \/ ReadEnd(t) \/ ReadStart(t) \/ ReadField(t, "x", "y") \/ ReadField(t, "y", "fence")
                 \/ ReadFence(t) \/ ReadStartAgain(t)
          PROVE  LockInv'
      BY <3>2, ReaderSteps
    <3> QED
      BY <2>1, <3>1, <3>2 DEF Next
  <2>2. CASE UNCHANGED vars
    BY <2>2, StutterLock
  <2> QED
    BY <2>1, <2>2
<1> QED
  BY <1>1, InitLock, PTL DEF Spec

\* `SeqLock::read` returns as many additions of the one field as of the other
\* on a machine whose read-modify-writes are full barriers, for any number of
\* concurrent calls of `write` and of `read`.
THEOREM ConsistentOnX86 == ~FieldsAreRelaxed /\ Spec => []ReturnsConsistentPair
<1>1. LockInv => ReturnsConsistentPair
  BY DEF LockInv, ReaderInv, ReaderKnows, ReturnsConsistentPair, Fields
<1> QED
  BY <1>1, LockInvariance, PTL
=============================================================================
