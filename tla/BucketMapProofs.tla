-------------------------- MODULE BucketMapProofs --------------------------
(***************************************************************************)
(* Proofs about BucketMap: for any calls, attribute lists and drains, an   *)
(* attribute set is one series, and the two locks exclude as they should;  *)
(* no update is lost or shown twice, what no drain overlapped is where the *)
(* next one looks, and the count is the table and what takes carried off.  *)
(***************************************************************************)
EXTENDS BucketMap, FiniteSetTheorems, TLAPS

-----------------------------------------------------------------------------
(* Attribute lists                                                         *)

\* The elements of a list form a finite set of KeyValues.
LEMMA RangeFinite ==
    ASSUME NEW a \in Seq(Nat)
    PROVE  /\ IsFiniteSet(Range(a)) /\ Cardinality(Range(a)) \in Nat
           /\ Range(a) \subseteq Nat
<1>1. IsFiniteSet(1 .. Len(a))
  BY FS_Interval
<1>2. a \in Surjection(1 .. Len(a), Range(a))
  BY DEF Surjection, Range
<1>3. IsFiniteSet(Range(a))
  BY <1>1, <1>2, FS_Surjection
<1> QED
  BY <1>3, FS_CardinalityType DEF Range

\* The canonical form of a call's list is a list of the same set.
LEMMA CanonType ==
    ASSUME NEW c \in Calls
    PROVE  /\ Canon(Attrs[c]) \in Seq(Nat)
           /\ Range(Canon(Attrs[c])) = Range(Attrs[c])
<1> DEFINE S == Range(Attrs[c])
           Sorted(s) == \A i, j \in DOMAIN s : i < j => s[i] < s[j]
           x == CHOOSE s \in [1 .. Cardinality(S) -> S] : Sorted(s)
<1>1. Attrs[c] \in Seq(Nat)
  BY CallsAssumption
<1>2. PICK s \in [1 .. Cardinality(S) -> S] : Sorted(s) /\ Range(s) = S
  BY SortableAssumption
<1>3. x \in [1 .. Cardinality(S) -> S] /\ Sorted(x)
  BY <1>2
<1>4. x = Canon(Attrs[c])
  BY DEF Canon
<1>5. IsFiniteSet(S) /\ Cardinality(S) \in Nat /\ S \subseteq Nat
  BY <1>1, RangeFinite
<1>6. x \in Seq(Nat) 
  BY <1>3, <1>5
<1>7. Range(x) = S
  <2>1. x \in Injection(1 .. Cardinality(S), S)
    <3>1. ASSUME NEW i \in 1 .. Cardinality(S), NEW j \in 1 .. Cardinality(S),
                 x[i] = x[j]
          PROVE  i = j
      <4>1. x[i] \in Nat /\ x[j] \in Nat
        BY <1>3, <1>5
      <4>2. ~(i < j) /\ ~(j < i)
        BY <3>1, <4>1, <1>3
      <4> QED
        BY <4>2, <1>5
    <3> QED
      BY <1>3, <3>1 DEF Injection, IsInjective
  <2>2. IsFiniteSet(1 .. Cardinality(S)) /\ Cardinality(1 .. Cardinality(S)) = Cardinality(S)
    BY <1>5, FS_Interval
  <2>3. x \in Surjection(1 .. Cardinality(S), S)
    BY <2>1, <2>2, <1>5, FS_Injection
  <2> QED
    BY <2>3, <1>3 DEF Surjection, Range
<1> QED
  BY <1>4, <1>6, <1>7

-----------------------------------------------------------------------------
(* Initially                                                               *)

LEMMA EmptyIsTable == IsTable(Empty) /\ DOMAIN Empty = {}
BY DEF IsTable, Empty

LEMMA InitInv == Init => BucketMapInv
<1> SUFFICES ASSUME Init
             PROVE  BucketMapInv
  OBVIOUS
<1> USE DEF Init
<1>1. TypeOK
  <2>1. IsTable(canonical) /\ \A f \in DOMAIN aliases : aliases[f] \in [raw : Seq(Nat), bucket : Calls]
    BY EmptyIsTable
  <2>2. /\ DOMAIN todo = Drains /\ DOMAIN taken = Drains
        /\ \A d \in Drains : todo[d] \subseteq DOMAIN canonical /\ IsTable(taken[d])
    BY EmptyIsTable
  <2>3. pc \in [Calls \cup Drains -> Labels] /\ target \in [Calls -> Buckets]
    BY DEF Labels, Buckets
  <2>4. /\ content \in [Buckets -> SUBSET Calls] /\ evicted \in [Drains -> Nat]
        /\ point \in [Drains -> SUBSET Calls] /\ reported \in [Drains -> BOOLEAN]
    OBVIOUS
  <2>5. count \in Int
    OBVIOUS
  <2>6. touched \in BOOLEAN
    OBVIOUS
  <2>7. canonLock \in Drains \cup {Nobody} /\ aliasLock \in Drains \cup Calls \cup {Nobody}
    OBVIOUS
  <2> HIDE DEF Init
  <2> QED
    BY <2>1, <2>2, <2>3, <2>4, <2>5, <2>6, <2>7 DEF TypeOK
<1>2. LockInv
  BY DEF LockInv
<1>3. SeriesInv
  BY EmptyIsTable DEF SeriesInv, Buckets
<1> QED
  BY <1>1, <1>2, <1>3 DEF BucketMapInv

-----------------------------------------------------------------------------
(* Types                                                                   *)

\* A table with an entry more is a table.
LEMMA WithIsTable ==
    ASSUME NEW t, IsTable(t), NEW k \in Seq(Nat), NEW e \in Entry
    PROVE  IsTable(With(t, k, e))
BY DEF IsTable, With

\* An entry with more aliases is an entry.
LEMMA ExtendIsTable ==
    ASSUME NEW t, IsTable(t), NEW k \in DOMAIN t, NEW s \in Seq(Seq(Nat))
    PROVE  /\ IsTable([t EXCEPT ![k].aliases = @ \o s])
           /\ DOMAIN [t EXCEPT ![k].aliases = @ \o s] = DOMAIN t
           /\ \A j \in DOMAIN t :
                 [t EXCEPT ![k].aliases = @ \o s][j].bucket = t[j].bucket
<1> DEFINE e == [t[k] EXCEPT !.aliases = t[k].aliases \o s]
           u == [t EXCEPT ![k] = e]
<1>1. t[k] \in Entry
  BY DEF IsTable
<1>2. t[k].aliases \o s \in Seq(Seq(Nat))
  BY <1>1 DEF Entry
<1>3. e \in Entry /\ e.bucket = t[k].bucket
  BY <1>1, <1>2 DEF Entry
<1>4. DOMAIN u = DOMAIN t /\ \A j \in DOMAIN t : u[j] = IF j = k THEN e ELSE t[j]
  OBVIOUS
<1>5. IsTable(u) /\ \A j \in DOMAIN t : u[j].bucket = t[j].bucket
  BY <1>3, <1>4 DEF IsTable
<1> QED
  BY <1>4, <1>5

\* The alias a call brings along.
LEMMA AliasType ==
    ASSUME NEW c \in Calls
    PROVE  (IF needs_alias(Attrs[c]) THEN <<Attrs[c]>> ELSE <<>>) \in Seq(Seq(Nat))
<1>1. Attrs[c] \in Seq(Nat)
  BY CallsAssumption
<1> QED
  BY <1>1

LEMMA TypeStep == BucketMapInv /\ Next => TypeOK'
<1> SUFFICES ASSUME BucketMapInv, Next
             PROVE  TypeOK'
  OBVIOUS
<1> USE CallsAssumption
<1> USE DEF BucketMapInv, TypeOK, Buckets, Labels, Goto, Begin, locks, tables, drainVars, history
<1>1. ASSUME NEW c \in Calls, UpdateNoAttr(c)
      PROVE  TypeOK'
  BY <1>1 DEF UpdateNoAttr, Updated
<1>2. ASSUME NEW c \in Calls, Touch(c)
      PROVE  TypeOK'
  BY <1>2 DEF Touch
<1>3. ASSUME NEW c \in Calls, LookupCanon(c)
      PROVE  TypeOK'
  BY <1>3 DEF LookupCanon, IsTable, Entry
<1>4. ASSUME NEW c \in Calls, LookupDup(c)
      PROVE  TypeOK'
  BY <1>4 DEF LookupDup
<1>5. ASSUME NEW c \in Calls, insert_canon(c)
      PROVE  TypeOK'
  <2> DEFINE k == Canon(Attrs[c])
             alias == IF needs_alias(Attrs[c]) THEN <<Attrs[c]>> ELSE <<>>
  <2>1. k \in Seq(Nat) /\ alias \in Seq(Seq(Nat))
    BY CanonType, AliasType
  <2>2. IsTable(canonical') /\ target' \in [Calls -> Buckets] /\ count' \in Int
        /\ DOMAIN canonical \subseteq DOMAIN canonical'
    <3>1. CASE k \in DOMAIN canonical
      <4>1. canonical' = [canonical EXCEPT ![k].aliases = @ \o alias]
        BY <1>5, <3>1 DEF insert_canon
      <4>2. IsTable(canonical') /\ DOMAIN canonical' = DOMAIN canonical
        BY <4>1, <3>1, <2>1, ExtendIsTable
      <4>3. canonical[k].bucket \in Calls
        BY <3>1 DEF IsTable, Entry
      <4> QED
        BY <4>2, <4>3, <1>5, <3>1 DEF insert_canon
    <3>2. CASE k \notin DOMAIN canonical
      <4>1. canonical' = With(canonical, k, [bucket |-> c, aliases |-> alias])
        BY <1>5, <3>2 DEF insert_canon
      <4>2. [bucket |-> c, aliases |-> alias] \in Entry
        BY <2>1 DEF Entry
      <4>3. IsTable(canonical')
        BY <4>1, <4>2, <2>1, WithIsTable
      <4>4. DOMAIN canonical \subseteq DOMAIN canonical'
        BY <4>1 DEF With
      <4>5. target' = [target EXCEPT ![c] = c] /\ count' = count + 1
        BY <1>5, <3>2 DEF insert_canon
      <4>6. target' \in [Calls -> Buckets]
        BY <4>5
      <4>7. count' \in Int
        <5>1. count \in Int
          OBVIOUS
        <5> HIDE DEF BucketMapInv, TypeOK
        <5> QED
          BY <5>1, <4>5
      <4> QED
        BY <4>3, <4>4, <4>6, <4>7
    <3> QED
      BY <3>1, <3>2
  <2>3. pc' \in [Calls \cup Drains -> Labels]
    BY <1>5 DEF insert_canon
  <2>4. UNCHANGED <<aliases, touched, content, locks, drainVars>>
    BY <1>5 DEF insert_canon
  <2> QED
    BY <2>2, <2>3, <2>4
<1>6. ASSUME NEW c \in Calls, insert_dup(c)
      PROVE  TypeOK'
  <2>1. target[c] \in Calls
    BY <1>6 DEF insert_dup, SeriesInv
  <2>2. Attrs[c] \in Seq(Nat)
    OBVIOUS
  <2>3. \A f \in DOMAIN aliases' : aliases'[f] \in [raw : Seq(Nat), bucket : Calls]
    <3>1. CASE UNCHANGED aliases
      BY <3>1
    <3>2. CASE aliases' = With(aliases, Fingerprint(Attrs[c]),
                               [raw |-> Attrs[c], bucket |-> target[c]])
      BY <3>2, <2>1, <2>2 DEF With
    <3> QED
      BY <3>1, <3>2, <1>6 DEF insert_dup
  <2>4. pc' \in [Calls \cup Drains -> Labels]
    BY <1>6 DEF insert_dup
  <2>5. UNCHANGED <<canonical, count, touched, content, locks, target, drainVars>>
    BY <1>6 DEF insert_dup
  <2> QED
    BY <2>3, <2>4, <2>5
<1>7. ASSUME NEW c \in Calls, Update(c)
      PROVE  TypeOK'
  BY <1>7 DEF Update, Updated
<1>8. ASSUME NEW d \in Drains, EmptyCanonical(d)
      PROVE  TypeOK'
  <2>1. \A x \in Drains : todo[x] = {}
    BY <1>8 DEF EmptyCanonical, LockInv
  <2>2. \A x \in Drains : IsTable(taken'[x])
    <3>1. CASE Kind[d] = "take"
      BY <1>8, <3>1 DEF EmptyCanonical
    <3>2. CASE Kind[d] # "take"
      BY <1>8, <3>2 DEF EmptyCanonical
    <3> QED
      BY <3>1, <3>2
  <2>3. DOMAIN taken' = Drains
    BY <1>8 DEF EmptyCanonical
  <2> QED
    BY <1>8, <2>1, <2>2, <2>3, EmptyIsTable DEF EmptyCanonical
<1>9. ASSUME NEW d \in Drains, EmptyAliases(d)
      PROVE  TypeOK'
  <2>1. \A f \in DOMAIN aliases' : aliases'[f] \in [raw : Seq(Nat), bucket : Calls]
    BY <1>9, EmptyIsTable DEF EmptyAliases
  <2>2. pc' \in [Calls \cup Drains -> Labels]
    BY <1>9 DEF EmptyAliases
  <2>3. count' \in Int
    <3>1. count \in Int /\ (count' = 0 \/ count' = count)
      BY <1>9 DEF EmptyAliases
    <3> HIDE DEF BucketMapInv, TypeOK
    <3> QED
      BY <3>1
  <2>5. aliasLock' = d
    BY <1>9 DEF EmptyAliases
  <2>4. UNCHANGED <<canonical, touched, content, canonLock, target, drainVars>>
    BY <1>9 DEF EmptyAliases
  <2> QED
    BY <2>1, <2>2, <2>3, <2>4, <2>5
<1>10. ASSUME NEW d \in Drains, TakeCurrent(d)
       PROVE  TypeOK'
  BY <1>10 DEF TakeCurrent
<1>11. ASSUME NEW d \in Drains, TakeSwapTouched(d)
       PROVE  TypeOK'
  BY <1>11 DEF TakeSwapTouched
<1>12. ASSUME NEW d \in Drains, ClearNoAttr(d)
       PROVE  TypeOK'
  BY <1>12 DEF ClearNoAttr, Unlock
<1>13. ASSUME NEW d \in Drains, Untouch(d)
       PROVE  TypeOK'
  BY <1>13 DEF Untouch, Unlock
<1>14. ASSUME NEW d \in Drains, VisitBegin(d)
       PROVE  TypeOK'
  BY <1>14 DEF VisitBegin
<1>15. ASSUME NEW d \in Drains, VisitKeep(d)
       PROVE  TypeOK'
  <2>1. PICK k \in todo[d] : todo' = [todo EXCEPT ![d] = @ \ {k}]
    BY <1>15 DEF VisitKeep
  <2>2. DOMAIN todo' = Drains /\ \A x \in Drains : todo'[x] \subseteq DOMAIN canonical
    BY <2>1
  <2>3. UNCHANGED <<tables, touched, content, locks, pc, target, evicted, taken, point, reported>>
    BY <1>15 DEF VisitKeep
  <2> QED
    BY <2>2, <2>3
<1>16. ASSUME NEW d \in Drains, VisitEvict(d)
       PROVE  TypeOK'
  <2>1. PICK k \in todo[d] : /\ canonical' = Without(canonical, k)
                             /\ todo' = [todo EXCEPT ![d] = @ \ {k}]
    BY <1>16 DEF VisitEvict
  <2>2. \A x \in Drains : x # d => todo[x] = {}
    BY <1>16 DEF VisitEvict, LockInv
  <2>3. IsTable(canonical') /\ DOMAIN canonical' = DOMAIN canonical \ {k}
    BY <2>1 DEF IsTable, Without, Restrict
  <2>4. DOMAIN todo' = Drains /\ \A x \in Drains : todo'[x] \subseteq DOMAIN canonical'
    BY <2>1, <2>2, <2>3
  <2>5. \A f \in DOMAIN aliases' : aliases'[f] \in [raw : Seq(Nat), bucket : Calls]
    <3>1. PICK gone : aliases' = Restrict(aliases, DOMAIN aliases \ gone)
      BY <1>16 DEF VisitEvict
    <3> QED
      BY <3>1 DEF Restrict
  <2>6. evicted' \in [Drains -> Nat]
    <3>1. evicted \in [Drains -> Nat] /\ evicted' = [evicted EXCEPT ![d] = @ + 1]
      BY <1>16 DEF VisitEvict
    <3> HIDE DEF BucketMapInv, TypeOK
    <3> QED
      BY <3>1
  <2>7. UNCHANGED <<count, touched, content, locks, pc, target, taken, point, reported>>
    BY <1>16 DEF VisitEvict
  <2> QED
    BY <2>3, <2>4, <2>5, <2>6, <2>7
<1>17. ASSUME NEW d \in Drains, VisitNoAttr(d)
       PROVE  TypeOK'
  <2>1. count' \in Int
    <3>1. count' = count - evicted[d]
      BY <1>17 DEF VisitNoAttr
    <3>2. evicted[d] \in Nat /\ count \in Int
      OBVIOUS
    <3> HIDE DEF BucketMapInv, TypeOK
    <3> QED
      BY <3>1, <3>2
  <2>2. pc' \in [Calls \cup Drains -> Labels]
    BY <1>17 DEF VisitNoAttr
  <2>3. canonLock' \in Drains \cup {Nobody} /\ aliasLock' \in Drains \cup Calls \cup {Nobody}
    BY <1>17 DEF VisitNoAttr, Unlock
  <2>4. UNCHANGED <<canonical, aliases, touched, content, target, drainVars>>
    BY <1>17 DEF VisitNoAttr
  <2> QED
    BY <2>1, <2>2, <2>3, <2>4
<1> QED
  BY <1>1, <1>2, <1>3, <1>4, <1>5, <1>6, <1>7, <1>8, <1>9, <1>10, <1>11,
     <1>12, <1>13, <1>14, <1>15, <1>16, <1>17 DEF Next, CallStep, DrainStep

-----------------------------------------------------------------------------
(* The canonical lock                                                      *)

LEMMA LockStep == BucketMapInv /\ Next => LockInv'
<1> SUFFICES ASSUME BucketMapInv, Next
             PROVE  LockInv'
  OBVIOUS
<1> USE CallsAssumption
<1>1. /\ pc \in [Calls \cup Drains -> Labels]
      /\ DOMAIN todo = Drains
      /\ LockInv
  BY DEF BucketMapInv, TypeOK
<1>2. ASSUME NEW c \in Calls, CallStep(c), c \notin Drains
      PROVE  LockInv'
  <2>1. UNCHANGED <<canonLock, todo>> /\ \A d \in Drains : pc'[d] = pc[d]
    BY <1>1, <1>2 DEF CallStep, UpdateNoAttr, Touch, LookupCanon, LookupDup,
       insert_canon, insert_dup, Update, Goto, locks, drainVars
  <2> QED
    BY <1>1, <2>1 DEF LockInv
<1>3. ASSUME NEW d \in Drains, EmptyCanonical(d) \/ VisitBegin(d)
      PROVE  LockInv'
  <2>1. canonLock = Nobody /\ canonLock' = d
    BY <1>3 DEF EmptyCanonical, VisitBegin
  <2>2. \A x \in Drains \ {d} : pc'[x] = pc[x] /\ pc[x] \in {"called", "returned"} /\ todo'[x] = {}
    BY <1>1, <1>3, <2>1 DEF EmptyCanonical, VisitBegin, LockInv, Goto
  <2>3. todo'[d] # {} => pc'[d] = "retain"
    BY <1>1, <1>3, <2>1 DEF EmptyCanonical, VisitBegin, LockInv, Goto
  <2> QED
    BY <2>1, <2>2, <2>3 DEF LockInv
<1>4. ASSUME NEW d \in Drains,
             EmptyAliases(d) \/ TakeCurrent(d) \/ TakeSwapTouched(d) \/ VisitKeep(d) \/ VisitEvict(d)
      PROVE  LockInv'
  <2>1. canonLock' = canonLock /\ pc[d] \notin {"called", "returned"}
    BY <1>4 DEF EmptyAliases, TakeCurrent, TakeSwapTouched, VisitKeep, VisitEvict, locks
  <2>2. \A x \in Drains \ {d} : pc'[x] = pc[x] /\ todo'[x] = todo[x]
    BY <1>1, <1>4 DEF EmptyAliases, TakeCurrent, TakeSwapTouched, VisitKeep, VisitEvict,
       Goto, drainVars
  <2>3. todo'[d] # {} => pc'[d] = "retain"
    BY <1>1, <1>4 DEF EmptyAliases, TakeCurrent, TakeSwapTouched, VisitKeep, VisitEvict,
       Goto, drainVars, LockInv
  <2> QED
    BY <1>1, <2>1, <2>2, <2>3 DEF LockInv
<1>5. ASSUME NEW d \in Drains, ClearNoAttr(d) \/ Untouch(d) \/ VisitNoAttr(d)
      PROVE  LockInv'
  <2>1. canonLock = d /\ todo[d] = {} /\ todo' = todo
    BY <1>1, <1>5 DEF ClearNoAttr, Untouch, VisitNoAttr, LockInv, drainVars
  <2>2. \A x \in Drains \ {d} : pc'[x] = pc[x] /\ pc[x] \in {"called", "returned"}
    BY <1>1, <1>5, <2>1 DEF ClearNoAttr, Untouch, VisitNoAttr, LockInv, Goto
  <2>3. pc'[d] = "returned" \/ canonLock' = d
    BY <1>1, <1>5, <2>1 DEF ClearNoAttr, Untouch, VisitNoAttr, Goto, locks
  <2> QED
    BY <1>1, <2>1, <2>2, <2>3 DEF LockInv
<1>6. Calls \cap Drains = {}
  BY DisjointAssumption
<1> QED
  BY <1>2, <1>3, <1>4, <1>5, <1>6 DEF Next, DrainStep

-----------------------------------------------------------------------------
(* An attribute set is one series                                          *)

\* The canonical form depends on the set of the elements alone.
LEMMA CanonOfSet ==
    ASSUME NEW a, NEW b, Range(a) = Range(b)
    PROVE  Canon(a) = Canon(b)
BY DEF Canon

LEMMA FingerprintDomain ==
    ASSUME NEW a
    PROVE  DOMAIN Fingerprint(a) = Range(a)
BY DEF Fingerprint

LEMMA SeriesStep == BucketMapInv /\ Next => SeriesInv'
<1> SUFFICES ASSUME BucketMapInv, Next
             PROVE  SeriesInv'
  OBVIOUS
<1>1. /\ pc \in [Calls \cup Drains -> Labels]
      /\ target \in [Calls -> Buckets]
      /\ content \in [Buckets -> SUBSET Calls]
      /\ IsTable(canonical)
      /\ \A f \in DOMAIN aliases : aliases[f].bucket \in Calls
  BY DEF BucketMapInv, TypeOK
<1>2. /\ \A k \in DOMAIN canonical : k = Canon(Attrs[canonical[k].bucket])
      /\ \A f \in DOMAIN aliases : DOMAIN f = Range(Attrs[aliases[f].bucket])
      /\ \A c \in Calls : pc[c] \in {"insert_dup", "update"} =>
             target[c] \in Calls /\ SameSet(c, target[c])
      /\ \A b \in Calls : \A c \in content[b] : SameSet(c, b)
      /\ \A c \in content[NoAttr] : Attrs[c] = <<>>
  BY DEF BucketMapInv, SeriesInv
<1>3. ASSUME NEW k \in DOMAIN canonical
      PROVE  canonical[k].bucket \in Calls /\ Range(k) = Range(Attrs[canonical[k].bucket])
  BY <1>1, <1>2, CanonType DEF IsTable, Entry
<1>4. ASSUME NEW c \in Calls, UpdateNoAttr(c)
      PROVE  SeriesInv'
  <2>1. \A b \in Buckets : content'[b] = IF b = NoAttr THEN Updated(c, content[b]) ELSE content[b]
    BY <1>1, <1>4 DEF UpdateNoAttr
  <2>2. NoAttr \notin Calls /\ Updated(c, content[NoAttr]) \subseteq content[NoAttr] \cup {c}
    BY CallsAssumption DEF Updated
  <2>3. \A x \in Calls : pc'[x] \in {"insert_dup", "update"} => pc'[x] = pc[x]
    BY <1>1, <1>4 DEF UpdateNoAttr, Goto
  <2>4. Attrs[c] = <<>> /\ UNCHANGED <<canonical, aliases, target>>
    BY <1>4 DEF UpdateNoAttr, tables
  <2> QED
    BY <1>2, <2>1, <2>2, <2>3, <2>4 DEF SeriesInv, Buckets, SameSet
<1>5. ASSUME NEW c \in Calls, Touch(c)
      PROVE  SeriesInv'
  <2>1. \A x \in Calls : pc'[x] \in {"insert_dup", "update"} => pc'[x] = pc[x]
    BY <1>1, <1>5 DEF Touch, Goto
  <2>2. UNCHANGED <<canonical, aliases, target, content>>
    BY <1>5 DEF Touch, tables
  <2> QED
    BY <1>2, <2>1, <2>2 DEF SeriesInv, SameSet
<1>6. ASSUME NEW c \in Calls, LookupCanon(c) \/ LookupDup(c)
      PROVE  SeriesInv'
  <2>1. UNCHANGED <<canonical, aliases, content>>
    BY <1>6 DEF LookupCanon, LookupDup, tables
  <2>2. \A x \in Calls \ {c} : pc'[x] = pc[x] /\ target'[x] = target[x]
    BY <1>1, <1>6 DEF LookupCanon, LookupDup, Goto
  <2>3. pc'[c] \in {"insert_dup", "update"} => target'[c] \in Calls /\ SameSet(c, target'[c])
    <3>1. CASE LookupCanon(c) /\ Attrs[c] \in DOMAIN canonical
      BY <1>1, <1>3, <3>1 DEF LookupCanon, SameSet
    <3>2. CASE LookupDup(c) /\ Fingerprint(Attrs[c]) \in DOMAIN aliases
      BY <1>1, <1>2, <3>2, FingerprintDomain DEF LookupDup, SameSet
    <3>3. CASE \/ LookupCanon(c) /\ Attrs[c] \notin DOMAIN canonical
               \/ LookupDup(c) /\ Fingerprint(Attrs[c]) \notin DOMAIN aliases
      BY <1>1, <3>3 DEF LookupCanon, LookupDup, Goto
    <3> QED
      BY <1>6, <3>1, <3>2, <3>3
  <2> QED
    BY <1>2, <2>1, <2>2, <2>3 DEF SeriesInv, SameSet
<1>7. ASSUME NEW c \in Calls, insert_canon(c)
      PROVE  SeriesInv'
  <2> DEFINE k == Canon(Attrs[c])
             alias == IF needs_alias(Attrs[c]) THEN <<Attrs[c]>> ELSE <<>>
  <2>1. UNCHANGED <<aliases, content>> /\ \A x \in Calls \ {c} : pc'[x] = pc[x]
    BY <1>1, <1>7 DEF insert_canon, Goto
  <2>2. Range(k) = Range(Attrs[c])
    BY CanonType
  <2>3. /\ \A j \in DOMAIN canonical' : j = Canon(Attrs[canonical'[j].bucket])
        /\ \A x \in Calls \ {c} : target'[x] = target[x]
        /\ target'[c] \in Calls /\ SameSet(c, target'[c])
    <3>1. CASE k \in DOMAIN canonical
      <4>1. /\ canonical' = [canonical EXCEPT ![k].aliases = @ \o alias]
            /\ target' = [target EXCEPT ![c] = canonical[k].bucket]
        BY <1>7, <3>1 DEF insert_canon
      <4>2. /\ DOMAIN canonical' = DOMAIN canonical
            /\ \A j \in DOMAIN canonical : canonical'[j].bucket = canonical[j].bucket
        BY <4>1, <1>1, <3>1, AliasType, ExtendIsTable
      <4>3. target'[c] \in Calls /\ SameSet(c, target'[c])
        BY <4>1, <1>1, <1>3, <2>2, <3>1 DEF SameSet
      <4> QED
        BY <4>1, <4>2, <4>3, <1>1, <1>2
    <3>2. CASE k \notin DOMAIN canonical
      <4>1. /\ canonical' = With(canonical, k, [bucket |-> c, aliases |-> alias])
            /\ target' = [target EXCEPT ![c] = c]
        BY <1>7, <3>2 DEF insert_canon
      <4>2. \A j \in DOMAIN canonical' :
               \/ j = k /\ canonical'[j].bucket = c
               \/ j \in DOMAIN canonical /\ canonical'[j] = canonical[j]
        BY <4>1 DEF With
      <4> QED
        BY <4>1, <4>2, <1>1, <1>2 DEF SameSet
    <3> QED
      BY <3>1, <3>2
  <2> QED
    BY <1>2, <2>1, <2>3 DEF SeriesInv, SameSet
<1>8. ASSUME NEW c \in Calls, insert_dup(c)
      PROVE  SeriesInv'
  <2>1. UNCHANGED <<canonical, content, target>> /\ pc[c] = "insert_dup"
    BY <1>8 DEF insert_dup
  <2>2. \A x \in Calls \ {c} : pc'[x] = pc[x]
    BY <1>1, <1>8 DEF insert_dup, Goto
  <2>3. target[c] \in Calls /\ SameSet(c, target[c])
    BY <1>2, <2>1
  <2>4. \A f \in DOMAIN aliases' : DOMAIN f = Range(Attrs[aliases'[f].bucket])
    <3>1. CASE UNCHANGED aliases
      BY <1>2, <3>1
    <3>2. CASE aliases' = With(aliases, Fingerprint(Attrs[c]),
                               [raw |-> Attrs[c], bucket |-> target[c]])
      BY <1>2, <2>3, <3>2, FingerprintDomain DEF With, SameSet
    <3> QED
      BY <3>1, <3>2, <1>8 DEF insert_dup
  <2> QED
    BY <1>2, <2>1, <2>2, <2>3, <2>4 DEF SeriesInv, SameSet
<1>9. ASSUME NEW c \in Calls, Update(c)
      PROVE  SeriesInv'
  <2>1. pc[c] = "update" /\ UNCHANGED <<canonical, aliases, target>>
    BY <1>9 DEF Update, tables
  <2>2. target[c] \in Calls /\ SameSet(c, target[c])
    BY <1>2, <2>1
  <2>3. \A b \in Buckets : content'[b] = IF b = target[c] THEN Updated(c, content[b]) ELSE content[b]
    BY <1>1, <1>9 DEF Update
  <2>4. NoAttr \notin Calls /\ Updated(c, content[target[c]]) \subseteq content[target[c]] \cup {c}
    BY CallsAssumption DEF Updated
  <2>5. \A x \in Calls : pc'[x] \in {"insert_dup", "update"} => pc'[x] = pc[x]
    BY <1>1, <1>9 DEF Update, Goto
  <2> QED
    BY <1>2, <2>1, <2>2, <2>3, <2>4, <2>5 DEF SeriesInv, Buckets, SameSet
<1>10. ASSUME NEW d \in Drains, DrainStep(d)
       PROVE  SeriesInv'
  <2>1. \A x \in Calls : pc'[x] = pc[x]
    BY <1>1, <1>10, DisjointAssumption DEF DrainStep, EmptyCanonical, EmptyAliases, TakeCurrent,
       TakeSwapTouched, ClearNoAttr, Untouch, VisitBegin, VisitKeep, VisitEvict,
       VisitNoAttr, Goto
  <2>2. target' = target
    BY <1>10 DEF DrainStep, EmptyCanonical, EmptyAliases, TakeCurrent,
       TakeSwapTouched, ClearNoAttr, Untouch, VisitBegin, VisitKeep, VisitEvict,
       VisitNoAttr
  <2>3. \A b \in Buckets : content'[b] \subseteq content[b]
    <3>1. CASE ClearNoAttr(d)
      BY <1>1, <3>1 DEF ClearNoAttr
    <3>2. CASE content' = content
      BY <3>2
    <3> QED
      BY <1>10, <3>1, <3>2 DEF DrainStep, EmptyCanonical, EmptyAliases, TakeCurrent,
         TakeSwapTouched, Untouch, VisitBegin, VisitKeep, VisitEvict, VisitNoAttr
  <2>4. \A k \in DOMAIN canonical' : k \in DOMAIN canonical /\ canonical'[k] = canonical[k]
    <3>1. CASE EmptyCanonical(d)
      BY <3>1, EmptyIsTable DEF EmptyCanonical
    <3>2. CASE VisitEvict(d)
      BY <3>2 DEF VisitEvict, Without, Restrict
    <3>3. CASE canonical' = canonical
      BY <3>3
    <3> QED
      BY <1>10, <3>1, <3>2, <3>3 DEF DrainStep, EmptyAliases, TakeCurrent, TakeSwapTouched,
         ClearNoAttr, Untouch, VisitBegin, VisitKeep, VisitNoAttr, tables
  <2>5. \A f \in DOMAIN aliases' : f \in DOMAIN aliases /\ aliases'[f] = aliases[f]
    <3>1. CASE EmptyAliases(d)
      BY <3>1, EmptyIsTable DEF EmptyAliases
    <3>2. CASE VisitEvict(d)
      <4>1. PICK gone : aliases' = Restrict(aliases, DOMAIN aliases \ gone)
        BY <3>2 DEF VisitEvict
      <4> QED
        BY <4>1 DEF Restrict
    <3>3. CASE aliases' = aliases
      BY <3>3
    <3> QED
      BY <1>10, <3>1, <3>2, <3>3 DEF DrainStep, EmptyCanonical, TakeCurrent, TakeSwapTouched,
         ClearNoAttr, Untouch, VisitBegin, VisitKeep, VisitNoAttr, tables
  <2> QED
    BY <1>2, <2>1, <2>2, <2>3, <2>4, <2>5 DEF SeriesInv, SameSet, Buckets
<1> QED
  BY <1>4, <1>5, <1>6, <1>7, <1>8, <1>9, <1>10 DEF Next, CallStep

-----------------------------------------------------------------------------
(* The theorems                                                            *)

LEMMA StutterInv == BucketMapInv /\ UNCHANGED vars => BucketMapInv'
<1> SUFFICES ASSUME BucketMapInv, UNCHANGED vars
             PROVE  BucketMapInv'
  OBVIOUS
<1> USE DEF vars, tables, locks, drainVars, history
<1>1. TypeOK'
  BY DEF BucketMapInv, TypeOK
<1>2. LockInv'
  BY DEF BucketMapInv, LockInv
<1>3. SeriesInv'
  BY DEF BucketMapInv, SeriesInv, SameSet
<1> QED
  BY <1>1, <1>2, <1>3 DEF BucketMapInv

\* The invariant that ties the tables, the fingerprints and the Arcs callers
\* hold (bucket_map.rs:190-349) to the attribute sets is inductive.
THEOREM Invariance == Safety => []BucketMapInv
<1>1. BucketMapInv /\ [Next]_vars => BucketMapInv'
  BY TypeStep, LockStep, SeriesStep, StutterInv DEF BucketMapInv
<1> QED
  BY InitInv, <1>1, PTL DEF Safety

\* The map keeps its types through every interleaving of updates and drains.
THEOREM TypeCorrect == Safety => []TypeOK
<1>1. BucketMapInv => TypeOK
  BY DEF BucketMapInv
<1> QED
  BY Invariance, <1>1, PTL

\* Whatever the interleaving of get_or_create with take, clear and eviction,
\* an attribute set has at most one entry, and no bucket receives an update
\* of another set.
THEOREM OneSeries == Safety => []OneSeriesPerAttributeSet
<1>1. BucketMapInv => OneSeriesPerAttributeSet
  <2> SUFFICES ASSUME BucketMapInv
               PROVE  OneSeriesPerAttributeSet
    OBVIOUS
  <2>1. SeriesInv /\ IsTable(canonical)
    BY DEF BucketMapInv, TypeOK
  <2>2. ASSUME NEW j \in DOMAIN canonical, NEW k \in DOMAIN canonical, Range(j) = Range(k)
        PROVE  j = k
    <3> DEFINE b == canonical[j].bucket
               c == canonical[k].bucket
    <3>1. b \in Calls /\ c \in Calls
      BY <2>1 DEF IsTable, Entry
    <3>2. j = Canon(Attrs[b]) /\ k = Canon(Attrs[c])
      BY <2>1 DEF SeriesInv
    <3>3. Range(Attrs[b]) = Range(Attrs[c])
      BY <2>2, <3>1, <3>2, CanonType
    <3> QED
      BY <3>2, <3>3, CanonOfSet
  <2> QED
    BY <2>1, <2>2 DEF OneSeriesPerAttributeSet, SeriesInv
<1> QED
  BY Invariance, <1>1, PTL

-----------------------------------------------------------------------------
(* What a drain leaves                                                     *)

\* What the step a drain is at says of its kind and of its locals.
PhaseInv ==
    \A d \in Drains :
        /\ pc[d] = "called" => evicted[d] = 0 /\ taken[d] = Empty
        /\ pc[d] = "retain" => Kind[d] = "visit"
        /\ pc[d] = "aliases" => Kind[d] # "visit" /\ DOMAIN canonical = {}
        /\ pc[d] \in {"current", "swap touched"} => Kind[d] = "take"

\* A call in the bucket without attributes has yet to flag it, or has. What
\* is there between a drain's clearing and its untouching came during it.
FlagInv ==
    /\ \A c \in content[NoAttr] : pc[c] \in {"touch", "returned"}
    /\ \A d \in Drains : pc[d] = "untouch" => content[NoAttr] \subseteq overlapped
    /\ SettledWritesAreFlagged

\* While a visit goes on, what it has evicted is still counted; a clear resets
\* the count after it has emptied the table.
Counted(d) == Running(d) /\ pc[d] # "retain" /\ ~(pc[d] = "aliases" /\ Kind[d] = "clear")

CountedInv ==
    LET size == Cardinality(DOMAIN canonical) + left
    IN  /\ IsFiniteSet(DOMAIN canonical) /\ left \in Nat
        /\ canonLock = Nobody => count = size
        /\ \A d \in Drains : /\ pc[d] = "retain" => count = size + evicted[d]
                             /\ Counted(d) => count = size

\* The bucket of a call that has not come to its insertion does not exist.
Future(b) == pc[b] \in {"called", "second lookup", "insert_canon"}

FreshInv ==
    \A b \in Calls : Future(b) =>
        /\ \A c \in Calls : target[c] # b
        /\ \A f \in DOMAIN aliases : aliases[f].bucket # b
        /\ Holders(b) = {}

\* An entry records the aliases that lead to its bucket, and those that calls
\* are about to insert.
Recorded(k) == {Fingerprint(a) : a \in Range(canonical[k].aliases)}

AliasInv ==
    \A k \in DOMAIN canonical :
        /\ \A f \in DOMAIN aliases :
              aliases[f].bucket = canonical[k].bucket => f \in Recorded(k)
        /\ \A c \in Calls :
              pc[c] = "insert_dup" /\ target[c] = canonical[k].bucket
                  => Fingerprint(Attrs[c]) \in Recorded(k)

\* As long as no alias has been inserted late, aliases lead to the map but
\* while a drain has emptied the one table and not the other; and a call that
\* no drain overlapped, which therefore runs beside none, is in the map.
LiveInv ==
    /\ \A c \in Calls : Running(c) /\ c \notin overlapped => canonLock = Nobody
    /\ late = {} =>
          /\ (\A d \in Drains : pc[d] # "aliases") =>
                \A f \in DOMAIN aliases : aliases[f].bucket \in Live
          /\ \A c \in Calls : pc[c] \in {"insert_dup", "update"} /\ c \notin overlapped
                => target[c] \in Live

\* A call that has returned is in the bucket it had, and there only; a bucket
\* a call has had, or an alias leads to, is in one table.
Known(b) == \/ \E c \in Calls : target[c] = b
            \/ \E f \in DOMAIN aliases : aliases[f].bucket = b
HeldOnce(b) == \E p \in Drains \cup {Nobody} : Holders(b) = {p}

ConservedInv ==
    /\ \A c \in Calls : pc[c] = "touch" => Attrs[c] = <<>>
    /\ \A c \in Attributed : pc[c] = "returned" => target[c] \in Calls
    /\ \A c \in Attributed : \A b \in Buckets :
          c \in content[b] <=> pc[c] = "returned" /\ target[c] = b
    /\ \A b \in Calls : Known(b) => HeldOnce(b)
    /\ \A b \in Calls : \A p, q \in Holders(b) : p = q

DrainsInv ==
    /\ BucketMapInv
    /\ PhaseInv
    /\ FlagInv
    /\ CountedInv
    /\ FreshInv
    /\ AliasInv
    /\ LiveInv
    /\ OnlyAddsAndTakes => ConservedInv

-----------------------------------------------------------------------------
(* What a step leaves alone                                                *)

LEMMA CallFrame ==
    ASSUME BucketMapInv, NEW c \in Calls, CallStep(c)
    PROVE  /\ UNCHANGED <<canonLock, drainVars>>
           /\ \A d \in Drains : pc'[d] = pc[d]
           /\ \A x \in Calls \ {c} : pc'[x] = pc[x] /\ target'[x] = target[x]
           /\ pc[c] # "returned" /\ pc'[c] # "called"
           /\ overlapped \subseteq overlapped' /\ late \subseteq late'
<1>1. pc \in [Calls \cup Drains -> Labels] /\ target \in [Calls -> Buckets] /\ c \notin Drains
  BY DisjointAssumption DEF BucketMapInv, TypeOK
<1> QED
  BY <1>1 DEF CallStep, UpdateNoAttr, Touch, LookupCanon, LookupDup, insert_canon, insert_dup,
     Update, Goto, Begin, IsNext, locks, history

\* A drain begins with the canonical lock free, holds it, and gives it up as
\* it returns.
LEMMA DrainFrame ==
    ASSUME BucketMapInv, NEW d \in Drains, DrainStep(d)
    PROVE  /\ \A c \in Calls : pc'[c] = pc[c]
           /\ UNCHANGED <<target, late>>
           /\ \A x \in Drains \ {d} : pc'[x] = pc[x] /\ ~Running(x)
           /\ pc[d] # "returned" /\ pc'[d] # "called"
           /\ \/ pc[d] = "called" /\ canonLock = Nobody /\ canonLock' = d
              \/ pc[d] # "called" /\ canonLock = d
           /\ overlapped \subseteq overlapped'
<1>1. /\ pc \in [Calls \cup Drains -> Labels] /\ \A c \in Calls : c # d
      /\ Nobody \notin Drains
      /\ \A x \in Drains : Running(x) => canonLock = x
  BY DisjointAssumption, CallsAssumption DEF BucketMapInv, TypeOK, LockInv, Running
<1>2. UNCHANGED <<target, late>> /\ overlapped \subseteq overlapped'
  BY DEF DrainStep, EmptyCanonical, EmptyAliases, TakeCurrent, TakeSwapTouched, ClearNoAttr,
     Untouch, VisitBegin, VisitKeep, VisitEvict, VisitNoAttr, history
<1>3. /\ pc' = pc \/ \E l \in Labels \ {"called"} : pc' = [pc EXCEPT ![d] = l]
      /\ pc[d] # "returned"
  BY DEF DrainStep, EmptyCanonical, EmptyAliases, TakeCurrent, TakeSwapTouched, ClearNoAttr,
     Untouch, VisitBegin, VisitKeep, VisitEvict, VisitNoAttr, Goto, Labels
<1>4. \/ pc[d] = "called" /\ canonLock = Nobody /\ canonLock' = d
      \/ pc[d] \notin {"called", "returned"}
  BY DEF DrainStep, EmptyCanonical, EmptyAliases, TakeCurrent, TakeSwapTouched, ClearNoAttr,
     Untouch, VisitBegin, VisitKeep, VisitEvict, VisitNoAttr
<1>5. pc'[d] # "called"
  <2>1. CASE pc' = pc
    <3>1. pc[d] # "called"
      BY <2>1, <1>1, <1>4 DEF DrainStep, EmptyCanonical, EmptyAliases, TakeCurrent, TakeSwapTouched,
         ClearNoAttr, Untouch, VisitBegin, VisitKeep, VisitEvict, VisitNoAttr, Goto
    <3> QED
      BY <2>1, <3>1
  <2> QED
    BY <1>1, <1>3, <2>1
<1>6. canonLock = Nobody \/ canonLock = d
  BY <1>1, <1>4 DEF Running
<1>7. \A x \in Drains \ {d} : pc'[x] = pc[x] /\ ~Running(x)
  BY <1>1, <1>3, <1>6
<1>8. \A c \in Calls : pc'[c] = pc[c]
  BY <1>1, <1>3
<1> QED
  BY <1>1, <1>2, <1>3, <1>4, <1>5, <1>7, <1>8 DEF Running

-----------------------------------------------------------------------------
(* The phases of a drain                                                   *)

LEMMA PhaseStep == DrainsInv /\ Next => PhaseInv'
<1> SUFFICES ASSUME DrainsInv, Next
             PROVE  PhaseInv'
  OBVIOUS
<1>1. BucketMapInv /\ PhaseInv
  BY DEF DrainsInv
<1>2. pc \in [Calls \cup Drains -> Labels] /\ evicted \in [Drains -> Nat] /\ DOMAIN taken = Drains
  BY <1>1 DEF BucketMapInv, TypeOK
<1>3. ASSUME NEW c \in Calls, CallStep(c)
      PROVE  PhaseInv'
  <2>1. UNCHANGED <<evicted, taken, canonLock>> /\ \A d \in Drains : pc'[d] = pc[d]
    BY <1>1, <1>3, CallFrame DEF drainVars
  <2>2. ASSUME NEW d \in Drains, pc[d] = "aliases"
        PROVE  canonical' = canonical
    <3>1. canonLock = d /\ d # Nobody
      BY <2>2, <1>1, CallsAssumption DEF BucketMapInv, LockInv
    <3> QED
      BY <3>1, <1>3 DEF CallStep, UpdateNoAttr, Touch, LookupCanon, LookupDup, insert_canon,
         insert_dup, Update, tables
  <2> QED
    BY <1>1, <2>1, <2>2 DEF PhaseInv
<1>4. ASSUME NEW d \in Drains, DrainStep(d)
      PROVE  PhaseInv'
  <2>1. /\ \A x \in Drains \ {d} : pc'[x] = pc[x] /\ pc[x] \in {"called", "returned"}
        /\ pc'[d] # "called"
    BY <1>1, <1>4, DrainFrame DEF Running
  <2>2. \A x \in Drains \ {d} : evicted'[x] = evicted[x] /\ taken'[x] = taken[x]
    BY <1>2, <1>4 DEF DrainStep, EmptyCanonical, EmptyAliases, TakeCurrent, TakeSwapTouched,
       ClearNoAttr, Untouch, VisitBegin, VisitKeep, VisitEvict, VisitNoAttr, drainVars
  <2>3. /\ pc'[d] = "retain" => Kind[d] = "visit"
        /\ pc'[d] \in {"current", "swap touched"} => Kind[d] = "take"
    BY <1>1, <1>2, <1>4, CallsAssumption DEF PhaseInv, DrainStep, EmptyCanonical, EmptyAliases,
       TakeCurrent, TakeSwapTouched, ClearNoAttr, Untouch, VisitBegin, VisitKeep, VisitEvict,
       VisitNoAttr, Goto
  <2>4. pc'[d] = "aliases" => Kind[d] # "visit" /\ DOMAIN canonical' = {}
    BY <1>1, <1>2, <1>4, EmptyIsTable DEF PhaseInv, DrainStep, EmptyCanonical, EmptyAliases,
       TakeCurrent, TakeSwapTouched, ClearNoAttr, Untouch, VisitBegin, VisitKeep, VisitEvict,
       VisitNoAttr, Goto
  <2> QED
    BY <1>1, <2>1, <2>2, <2>3, <2>4 DEF PhaseInv
<1> QED
  BY <1>3, <1>4 DEF Next

-----------------------------------------------------------------------------
(* The flag of the bucket without attributes                               *)

LEMMA FlagStep == DrainsInv /\ Next => FlagInv'
<1> SUFFICES ASSUME DrainsInv, Next
             PROVE  FlagInv'
  OBVIOUS
<1>1. /\ BucketMapInv /\ FlagInv
      /\ \A c \in content[NoAttr] : pc[c] \in {"touch", "returned"}
      /\ \A d \in Drains : pc[d] = "untouch" => content[NoAttr] \subseteq overlapped
      /\ \A c \in content[NoAttr] : pc[c] = "returned" /\ c \notin overlapped =>
             touched \/ \E d \in Drains : pc[d] = "clear no_attr"
  BY DEF DrainsInv, FlagInv, SettledWritesAreFlagged
<1>2. /\ pc \in [Calls \cup Drains -> Labels] /\ content \in [Buckets -> SUBSET Calls]
      /\ NoAttr \in Buckets /\ NoAttr \notin Calls
  BY <1>1, CallsAssumption DEF BucketMapInv, TypeOK, Buckets
<1>3. ASSUME NEW c \in Calls, CallStep(c)
      PROVE  FlagInv'
  <2>1. /\ \A d \in Drains : pc'[d] = pc[d]
        /\ \A x \in Calls \ {c} : pc'[x] = pc[x]
        /\ overlapped \subseteq overlapped'
    BY <1>1, <1>3, CallFrame
  <2>2. CASE UpdateNoAttr(c)
    <3>1. content'[NoAttr] = Updated(c, content[NoAttr]) /\ touched' = touched /\ pc[c] = "called"
      BY <2>2, <1>2 DEF UpdateNoAttr
    <3>2. content'[NoAttr] \subseteq content[NoAttr] \cup {c}
      BY <3>1, CallsAssumption DEF Updated
    <3>3. c \in content'[NoAttr] => pc'[c] = "touch"
      <4>1. CASE Op[c] = "reset"
        BY <4>1, <3>1 DEF Updated
      <4>2. CASE Op[c] # "reset"
        BY <4>2, <2>2, <1>2 DEF UpdateNoAttr, Goto
      <4> QED
        BY <4>1, <4>2
    <3>4. ASSUME NEW d \in Drains, pc'[d] = "untouch"
          PROVE  c \in overlapped'
      <4>1. canonLock = d /\ d # Nobody
        BY <3>4, <2>1, <1>1, CallsAssumption DEF BucketMapInv, LockInv
      <4> QED
        BY <4>1, <3>1, <2>2 DEF UpdateNoAttr, Begin
    <3> QED
      BY <1>1, <1>2, <2>1, <3>1, <3>2, <3>3, <3>4 DEF FlagInv, SettledWritesAreFlagged
  <2>3. CASE Touch(c)
    <3>1. content' = content /\ touched' = TRUE /\ pc'[c] = "returned"
      BY <2>3, <1>2 DEF Touch, Goto
    <3> QED
      BY <1>1, <1>2, <2>1, <3>1 DEF FlagInv, SettledWritesAreFlagged
  <2>4. CASE LookupCanon(c) \/ LookupDup(c) \/ insert_canon(c) \/ insert_dup(c) \/ Update(c)
    <3>1. touched' = touched /\ pc[c] \notin {"touch", "returned"}
      BY <2>4 DEF LookupCanon, LookupDup, insert_canon, insert_dup, Update, IsNext
    <3>2. content'[NoAttr] = content[NoAttr]
      <4>1. CASE Update(c)
        <5>1. target[c] # NoAttr
          BY <4>1, <1>1, <1>2 DEF Update, BucketMapInv, SeriesInv
        <5> QED
          BY <5>1, <4>1, <1>2 DEF Update
      <4> QED
        BY <4>1, <2>4 DEF LookupCanon, LookupDup, insert_canon, insert_dup
    <3> QED
      BY <1>1, <1>2, <2>1, <3>1, <3>2 DEF FlagInv, SettledWritesAreFlagged
  <2> QED
    BY <1>3, <2>2, <2>3, <2>4 DEF CallStep
<1>4. ASSUME NEW d \in Drains, DrainStep(d)
      PROVE  FlagInv'
  <2>1. /\ \A c \in Calls : pc'[c] = pc[c]
        /\ \A x \in Drains \ {d} : pc'[x] = pc[x] /\ pc[x] \in {"called", "returned"}
        /\ overlapped \subseteq overlapped'
    BY <1>1, <1>4, DrainFrame DEF Running
  <2>2. CASE ClearNoAttr(d)
    <3>1. content'[NoAttr] = {}
      BY <2>2, <1>2 DEF ClearNoAttr
    <3> QED
      BY <3>1, <2>1, <1>2 DEF FlagInv, SettledWritesAreFlagged
  <2>3. CASE TakeSwapTouched(d)
    <3>1. content' = content /\ pc'[d] = "clear no_attr"
      BY <2>3, <1>2 DEF TakeSwapTouched, Goto
    <3> QED
      BY <1>1, <1>2, <2>1, <3>1 DEF FlagInv, SettledWritesAreFlagged
  <2>4. CASE Untouch(d)
    <3>1. content' = content /\ content[NoAttr] \subseteq overlapped /\ pc'[d] = "returned"
      BY <2>4, <1>1, <1>2 DEF Untouch, Goto
    <3> QED
      BY <1>1, <1>2, <2>1, <3>1 DEF FlagInv, SettledWritesAreFlagged
  <2>5. CASE \/ EmptyCanonical(d) \/ EmptyAliases(d) \/ TakeCurrent(d)
             \/ VisitBegin(d) \/ VisitKeep(d) \/ VisitEvict(d) \/ VisitNoAttr(d)
    <3>1. UNCHANGED <<content, touched>> /\ pc[d] # "clear no_attr"
      BY <2>5 DEF EmptyCanonical, EmptyAliases, TakeCurrent, VisitBegin, VisitKeep, VisitEvict,
         VisitNoAttr
    <3>2. pc'[d] # "untouch"
      BY <2>5, <1>2 DEF EmptyCanonical, EmptyAliases, TakeCurrent, VisitBegin, VisitKeep, VisitEvict,
         VisitNoAttr, Goto
    <3> QED
      BY <1>1, <1>2, <2>1, <3>1, <3>2 DEF FlagInv, SettledWritesAreFlagged
  <2> QED
    BY <1>4, <2>2, <2>3, <2>4, <2>5 DEF DrainStep
<1> QED
  BY <1>3, <1>4 DEF Next

-----------------------------------------------------------------------------
(* The count                                                               *)

LEMMA CountStep == DrainsInv /\ Next => CountedInv'
<1> SUFFICES ASSUME DrainsInv, Next
             PROVE  CountedInv'
  OBVIOUS
<1> DEFINE table == Cardinality(DOMAIN canonical)
           size == table + left
<1>1. /\ BucketMapInv /\ PhaseInv
      /\ pc \in [Calls \cup Drains -> Labels] /\ evicted \in [Drains -> Nat] /\ count \in Int
  BY DEF DrainsInv, BucketMapInv, TypeOK
<1>2. /\ IsFiniteSet(DOMAIN canonical) /\ table \in Nat /\ left \in Nat /\ size \in Nat
      /\ canonLock = Nobody => count = size
      /\ \A d \in Drains : /\ pc[d] = "retain" => count = size + evicted[d]
                           /\ Counted(d) => count = size
  BY FS_CardinalityType DEF DrainsInv, CountedInv
<1>3. ASSUME NEW c \in Calls, insert_canon(c)
      PROVE  CountedInv'
  <2> DEFINE k == Canon(Attrs[c])
  <2>1. canonLock = Nobody /\ canonLock' = Nobody /\ left' = left
    BY <1>3 DEF insert_canon, locks, history
  <2>2. \A d \in Drains : pc'[d] \in {"called", "returned"}
    <3>1. \A d \in Drains : pc[d] \in {"called", "returned"}
      BY <1>1, <2>1, CallsAssumption DEF BucketMapInv, LockInv
    <3> QED
      BY <3>1, <1>1, <1>3, CallFrame DEF CallStep
  <2>3. IsFiniteSet(DOMAIN canonical') /\ count' = Cardinality(DOMAIN canonical') + left'
    <3>1. CASE k \in DOMAIN canonical
      <4>1. count' = count /\ DOMAIN canonical' = DOMAIN canonical
        BY <3>1, <1>3 DEF insert_canon
      <4> QED
        BY <4>1, <1>2, <2>1
    <3>2. CASE k \notin DOMAIN canonical
      <4>1. count' = count + 1 /\ DOMAIN canonical' = DOMAIN canonical \cup {k}
        BY <3>2, <1>3 DEF insert_canon, With
      <4>2. IsFiniteSet(DOMAIN canonical') /\ Cardinality(DOMAIN canonical') = table + 1
        BY <4>1, <3>2, <1>2, FS_AddElement
      <4> QED
        BY <4>1, <4>2, <1>2, <2>1
    <3> QED
      BY <3>1, <3>2
  <2>4. left' \in Nat /\ \A d \in Drains : ~Counted(d)' /\ pc'[d] # "retain"
    BY <1>2, <2>1, <2>2 DEF Counted, Running
  <2> QED
    BY <2>3, <2>4 DEF CountedInv
<1>4. ASSUME NEW c \in Calls, CallStep(c), ~insert_canon(c)
      PROVE  CountedInv'
  <2>1. UNCHANGED <<canonLock, evicted>> /\ \A d \in Drains : pc'[d] = pc[d]
    BY <1>1, <1>4, CallFrame DEF drainVars
  <2>2. UNCHANGED <<canonical, count, left>>
    BY <1>4 DEF CallStep, UpdateNoAttr, Touch, LookupCanon, LookupDup, insert_dup, Update, tables,
       history
  <2>3. \A d \in Drains : Counted(d)' <=> Counted(d)
    BY <2>1 DEF Counted, Running
  <2> QED
    BY <1>2, <2>1, <2>2, <2>3 DEF CountedInv
<1>5. ASSUME NEW d \in Drains, DrainStep(d)
      PROVE  CountedInv'
  <2>1. \A x \in Drains \ {d} : pc'[x] # "retain" /\ ~Counted(x)'
    BY <1>1, <1>5, DrainFrame DEF Counted, Running
  <2>2. d # Nobody
    BY CallsAssumption
  <2> DEFINE sizeNext == Cardinality(DOMAIN canonical') + left'
  <2>3. ASSUME IsFiniteSet(DOMAIN canonical'), left' \in Nat,
               canonLock' = Nobody => count' = sizeNext,
               pc'[d] = "retain" => count' = sizeNext + evicted'[d],
               Counted(d)' => count' = sizeNext
        PROVE  CountedInv'
    BY <2>1, <2>3 DEF CountedInv
  <2>4. CASE EmptyCanonical(d)
    <3>1. /\ DOMAIN canonical' = {} /\ pc'[d] = "aliases" /\ canonLock' = d
          /\ Kind[d] \in {"take", "clear"} /\ canonLock = Nobody /\ count' = count
          /\ left' = IF Kind[d] = "take" THEN left + table ELSE left
      BY <2>4, <1>1, EmptyIsTable DEF EmptyCanonical, Goto
    <3>2. IsFiniteSet(DOMAIN canonical') /\ Cardinality(DOMAIN canonical') = 0
      BY <3>1, FS_EmptySet
    <3>3. left' \in Nat
      BY <1>2, <3>1
    <3>4. Counted(d)' => count' = sizeNext
      BY <1>2, <3>1, <3>2 DEF Counted
    <3> QED
      BY <3>1, <3>2, <3>3, <3>4, <2>2, <2>3
  <2>5. CASE EmptyAliases(d)
    <3>1. /\ pc[d] = "aliases" /\ DOMAIN canonical = {} /\ canonical' = canonical
          /\ canonLock = d /\ canonLock' = canonLock
          /\ pc'[d] \in {"clear no_attr", "current"}
      BY <2>5, <1>1 DEF EmptyAliases, Goto, PhaseInv, BucketMapInv, LockInv
    <3>2. IsFiniteSet(DOMAIN canonical') /\ Cardinality(DOMAIN canonical') = 0
      BY <3>1, FS_EmptySet
    <3>3. CASE Kind[d] = "clear"
      <4>1. count' = 0 /\ left' = 0
        BY <3>3, <2>5 DEF EmptyAliases
      <4>2. count' = sizeNext /\ left' \in Nat
        BY <4>1, <3>2
      <4> QED
        BY <4>2, <3>1, <3>2, <2>2, <2>3
    <3>4. CASE Kind[d] # "clear"
      <4>1. count' = count /\ left' = left
        BY <3>4, <2>5 DEF EmptyAliases
      <4>2. count = size
        BY <1>2, <3>1, <3>4 DEF Counted, Running
      <4>3. count' = sizeNext /\ left' \in Nat
        BY <1>2, <3>1, <4>1, <4>2
      <4> QED
        BY <4>3, <3>1, <3>2, <2>2, <2>3
    <3> QED
      BY <3>3, <3>4
  <2>6. CASE TakeCurrent(d) \/ TakeSwapTouched(d) \/ ClearNoAttr(d) \/ Untouch(d)
    <3>1. /\ UNCHANGED <<canonical, count, left>> /\ pc'[d] # "retain"
          /\ pc[d] \in {"current", "swap touched", "clear no_attr", "untouch"}
      BY <2>6, <1>1 DEF TakeCurrent, TakeSwapTouched, ClearNoAttr, Untouch, Goto, tables, history
    <3>2. count = size
      BY <1>2, <3>1 DEF Counted, Running
    <3> QED
      BY <3>1, <3>2, <1>2, <2>3
  <2>7. CASE VisitBegin(d)
    <3>1. /\ UNCHANGED <<canonical, count, evicted, left>> /\ canonLock = Nobody
          /\ evicted[d] = 0 /\ canonLock' = d /\ pc'[d] = "retain"
      BY <2>7, <1>1 DEF VisitBegin, PhaseInv, tables, Goto
    <3>2. ~Counted(d)'
      BY <3>1 DEF Counted
    <3> QED
      BY <3>1, <3>2, <1>2, <2>2, <2>3
  <2>8. CASE VisitKeep(d)
    <3>1. UNCHANGED <<canonical, count, evicted, pc, canonLock, left>>
      BY <2>8 DEF VisitKeep, tables, locks, history
    <3>2. Counted(d)' <=> Counted(d)
      BY <3>1 DEF Counted, Running
    <3>3. sizeNext = size
      BY <3>1
    <3>4. /\ pc[d] = "retain" => count = size + evicted[d]
          /\ Counted(d) => count = size
      BY <1>2
    <3> QED
      BY <3>1, <3>2, <3>3, <3>4, <1>2, <2>3
  <2>9. CASE VisitEvict(d)
    <3>1. PICK k \in todo[d] : canonical' = Without(canonical, k)
      BY <2>9 DEF VisitEvict
    <3>2. k \in DOMAIN canonical /\ DOMAIN canonical' = DOMAIN canonical \ {k}
      BY <3>1, <1>1 DEF BucketMapInv, TypeOK, Without, Restrict
    <3>3. IsFiniteSet(DOMAIN canonical') /\ Cardinality(DOMAIN canonical') = table - 1
      <4>1. /\ IsFiniteSet(DOMAIN canonical \ {k})
            /\ Cardinality(DOMAIN canonical \ {k}) = Cardinality(DOMAIN canonical) - 1
        BY <3>2, <1>2, FS_RemoveElement
      <4> QED
        BY <3>2, <4>1
    <3>4. /\ pc[d] = "retain" /\ pc' = pc /\ canonLock' = canonLock /\ count' = count
          /\ evicted'[d] = evicted[d] + 1 /\ left' = left
      BY <2>9, <1>1 DEF VisitEvict, locks, history
    <3>5. canonLock = d /\ ~Counted(d)'
      BY <3>4, <1>1 DEF BucketMapInv, LockInv, Counted
    <3>6. count' = sizeNext + evicted'[d]
      <4>1. count = size + evicted[d]
        BY <3>4, <1>2
      <4>2. evicted[d] \in Nat
        BY <1>1
      <4> QED
        BY <1>2, <4>1, <4>2, <3>3, <3>4
    <3> QED
      BY <1>2, <3>3, <3>4, <3>5, <3>6, <2>2, <2>3
  <2>10. CASE VisitNoAttr(d)
    <3>1. /\ pc[d] = "retain" /\ pc'[d] # "retain" /\ canonical' = canonical
          /\ count' = count - evicted[d] /\ left' = left
      BY <2>10, <1>1 DEF VisitNoAttr, Goto, history
    <3>2. count' = size
      <4>1. count = size + evicted[d]
        BY <3>1, <1>2
      <4>2. evicted[d] \in Nat
        BY <1>1
      <4> QED
        BY <1>2, <4>1, <4>2, <3>1
    <3> QED
      BY <3>1, <3>2, <1>2, <2>3
  <2> QED
    BY <1>5, <2>4, <2>5, <2>6, <2>7, <2>8, <2>9, <2>10 DEF DrainStep
<1> QED
  BY <1>3, <1>4, <1>5 DEF Next

-----------------------------------------------------------------------------
(* What the two tables become                                              *)

LEMMA RangeOfAppended ==
    ASSUME NEW S, NEW s \in Seq(S), NEW t \in Seq(S)
    PROVE  Range(s \o t) = Range(s) \cup Range(t)
<1>1. /\ DOMAIN s = 1 .. Len(s) /\ DOMAIN t = 1 .. Len(t)
      /\ DOMAIN (s \o t) = 1 .. Len(s) + Len(t)
      /\ Len(s) \in Nat /\ Len(t) \in Nat
      /\ \A i \in 1 .. Len(s) + Len(t) :
            (s \o t)[i] = IF i <= Len(s) THEN s[i] ELSE t[i - Len(s)]
  OBVIOUS
<1>2. ASSUME NEW x \in Range(s \o t)
      PROVE  x \in Range(s) \cup Range(t)
  <2>1. PICK i \in 1 .. Len(s) + Len(t) : x = (s \o t)[i]
    BY <1>1 DEF Range
  <2>2. CASE i <= Len(s)
    BY <2>1, <2>2, <1>1 DEF Range
  <2>3. CASE ~(i <= Len(s))
    <3>1. i - Len(s) \in 1 .. Len(t) /\ x = t[i - Len(s)]
      BY <2>1, <2>3, <1>1
    <3> QED
      BY <3>1, <1>1 DEF Range
  <2> QED
    BY <2>2, <2>3
<1>3. ASSUME NEW x \in Range(s)
      PROVE  x \in Range(s \o t)
  <2>1. PICK i \in 1 .. Len(s) : x = s[i]
    BY <1>1 DEF Range
  <2>2. i \in 1 .. Len(s) + Len(t) /\ x = (s \o t)[i]
    BY <2>1, <1>1
  <2> QED
    BY <2>2, <1>1 DEF Range
<1>4. ASSUME NEW x \in Range(t)
      PROVE  x \in Range(s \o t)
  <2>1. PICK i \in 1 .. Len(t) : x = t[i]
    BY <1>1 DEF Range
  <2>2. i + Len(s) \in 1 .. Len(s) + Len(t) /\ x = (s \o t)[i + Len(s)]
    BY <2>1, <1>1
  <2> QED
    BY <2>2, <1>1 DEF Range
<1> QED
  BY <1>2, <1>3, <1>4

\* An occupied entry gains an alias, a vacant one is filled; what the call
\* has got is the bucket of the entry, which records the call's alias.
Occupied(c) ==
    LET k == Canon(Attrs[c])
    IN  /\ k \in DOMAIN canonical
        /\ DOMAIN canonical' = DOMAIN canonical
        /\ \A j \in DOMAIN canonical :
              /\ canonical'[j].bucket = canonical[j].bucket
              /\ Range(canonical[j].aliases) \subseteq Range(canonical'[j].aliases)

Vacant(c) ==
    LET k == Canon(Attrs[c])
    IN  /\ k \notin DOMAIN canonical
        /\ DOMAIN canonical' = DOMAIN canonical \cup {k}
        /\ \A j \in DOMAIN canonical : canonical'[j] = canonical[j]
        /\ canonical'[k].bucket = c

LEMMA Inserted ==
    ASSUME BucketMapInv, NEW c \in Calls, insert_canon(c)
    PROVE  LET k == Canon(Attrs[c])
           IN  /\ Occupied(c) \/ Vacant(c)
               /\ k \in DOMAIN canonical' /\ target'[c] = canonical'[k].bucket
               /\ target'[c] \in Calls
               /\ pc[c] = "insert_canon" /\ pc'[c] \in {"insert_dup", "update"}
               /\ pc'[c] = "insert_dup" => Attrs[c] \in Range(canonical'[k].aliases)
               /\ UNCHANGED <<aliases, taken, canonLock, content>>
<1> DEFINE k == Canon(Attrs[c])
           alias == IF needs_alias(Attrs[c]) THEN <<Attrs[c]>> ELSE <<>>
<1>1. /\ pc \in [Calls \cup Drains -> Labels] /\ target \in [Calls -> Buckets]
      /\ IsTable(canonical)
  BY DEF BucketMapInv, TypeOK
<1>2. /\ pc[c] = "insert_canon" /\ pc'[c] \in {"insert_dup", "update"}
      /\ pc'[c] = "insert_dup" => needs_alias(Attrs[c])
      /\ UNCHANGED <<aliases, taken, canonLock, content>>
  BY <1>1 DEF insert_canon, Goto, locks, drainVars
<1>3. needs_alias(Attrs[c]) => alias = <<Attrs[c]>> /\ Attrs[c] \in Range(alias)
  BY DEF Range
<1>4. CASE k \in DOMAIN canonical
  <2> DEFINE e == [canonical[k] EXCEPT !.aliases = canonical[k].aliases \o alias]
  <2>1. canonical[k] \in Entry /\ alias \in Seq(Seq(Nat))
    BY <1>1, <1>4, AliasType DEF IsTable
  <2>2. Range(canonical[k].aliases \o alias) = Range(canonical[k].aliases) \cup Range(alias)
    <3>1. canonical[k].aliases \in Seq(Seq(Nat))
      BY <2>1 DEF Entry
    <3> HIDE DEF alias
    <3> QED
      BY <3>1, <2>1, RangeOfAppended
  <2>3. canonical' = [canonical EXCEPT ![k] = e] /\ target' = [target EXCEPT ![c] = canonical[k].bucket]
    BY <1>4 DEF insert_canon
  <2>4. /\ e.bucket = canonical[k].bucket /\ e.bucket \in Calls
        /\ e.aliases = canonical[k].aliases \o alias
    BY <2>1 DEF Entry
  <2>5. /\ DOMAIN canonical' = DOMAIN canonical
        /\ canonical'[k] = e
        /\ \A j \in DOMAIN canonical : j # k => canonical'[j] = canonical[j]
        /\ target'[c] = canonical[k].bucket
    <3> HIDE DEF e
    <3> QED
      BY <2>3, <1>1, <1>4
  <2>6. Range(canonical[k].aliases) \subseteq Range(e.aliases) /\ Range(alias) \subseteq Range(e.aliases)
    BY <2>2, <2>4
  <2>7. Occupied(c)
    BY <1>4, <2>4, <2>5, <2>6 DEF Occupied
  <2> QED
    BY <1>2, <1>3, <1>4, <2>4, <2>5, <2>6, <2>7
<1>5. CASE k \notin DOMAIN canonical
  <2> DEFINE e == [bucket |-> c, aliases |-> alias]
  <2>1. canonical' = With(canonical, k, e) /\ target' = [target EXCEPT ![c] = c]
    BY <1>5 DEF insert_canon
  <2>2. /\ DOMAIN canonical' = DOMAIN canonical \cup {k}
        /\ \A j \in DOMAIN canonical : canonical'[j] = canonical[j]
        /\ canonical'[k] = e
    BY <2>1, <1>5 DEF With
  <2>3. target'[c] = c /\ e.bucket = c /\ e.aliases = alias
    BY <2>1, <1>1
  <2>4. Vacant(c)
    BY <1>5, <2>2, <2>3 DEF Vacant
  <2> QED
    BY <1>2, <1>3, <2>2, <2>3, <2>4
<1> QED
  BY <1>4, <1>5

\* A drain removes entries and aliases, and keeps what it has taken.
LEMMA Removed ==
    ASSUME BucketMapInv, NEW d \in Drains, DrainStep(d)
    PROVE  /\ \A k \in DOMAIN canonical' : k \in DOMAIN canonical /\ canonical'[k] = canonical[k]
           /\ \A f \in DOMAIN aliases' : f \in DOMAIN aliases /\ aliases'[f] = aliases[f]
           /\ \A x \in Drains : taken'[x] \in {taken[x], canonical}
           /\ \A b \in Calls : content'[b] = content[b]
<1>1. DOMAIN taken = Drains /\ content \in [Buckets -> SUBSET Calls]
      /\ NoAttr \notin Calls /\ Calls \subseteq Buckets
  BY CallsAssumption DEF BucketMapInv, TypeOK, Buckets
<1>2. \A k \in DOMAIN canonical' : k \in DOMAIN canonical /\ canonical'[k] = canonical[k]
  <2>1. CASE EmptyCanonical(d)
    BY <2>1, EmptyIsTable DEF EmptyCanonical
  <2>2. CASE VisitEvict(d)
    BY <2>2 DEF VisitEvict, Without, Restrict
  <2>3. CASE canonical' = canonical
    BY <2>3
  <2> QED
    BY <2>1, <2>2, <2>3 DEF DrainStep, EmptyAliases, TakeCurrent, TakeSwapTouched, ClearNoAttr,
       Untouch, VisitBegin, VisitKeep, VisitNoAttr, tables
<1>3. \A f \in DOMAIN aliases' : f \in DOMAIN aliases /\ aliases'[f] = aliases[f]
  <2>1. CASE EmptyAliases(d)
    BY <2>1, EmptyIsTable DEF EmptyAliases
  <2>2. CASE VisitEvict(d)
    BY <2>2 DEF VisitEvict, Restrict
  <2>3. CASE aliases' = aliases
    BY <2>3
  <2> QED
    BY <2>1, <2>2, <2>3 DEF DrainStep, EmptyCanonical, TakeCurrent, TakeSwapTouched, ClearNoAttr,
       Untouch, VisitBegin, VisitKeep, VisitNoAttr, tables
<1>4. \A x \in Drains : taken'[x] \in {taken[x], canonical}
  BY <1>1 DEF DrainStep, EmptyCanonical, EmptyAliases, TakeCurrent, TakeSwapTouched,
     ClearNoAttr, Untouch, VisitBegin, VisitKeep, VisitEvict, VisitNoAttr, drainVars
<1>5. \A b \in Calls : content'[b] = content[b]
  BY <1>1 DEF DrainStep, EmptyCanonical, EmptyAliases, TakeCurrent, TakeSwapTouched,
     ClearNoAttr, Untouch, VisitBegin, VisitKeep, VisitEvict, VisitNoAttr
<1> QED
  BY <1>2, <1>3, <1>4, <1>5

-----------------------------------------------------------------------------
(* Buckets that do not exist yet                                           *)

LEMMA HoldersUnchanged ==
    ASSUME UNCHANGED <<canonical, taken>>, NEW b \in Calls
    PROVE  Holders(b)' = Holders(b)
BY DEF Holders, TableAt

\* The map is a holder of the buckets of its entries.
LEMMA HeldByMap ==
    ASSUME NEW b \in Calls
    PROVE  Nobody \in Holders(b) <=> \E k \in DOMAIN canonical : canonical[k].bucket = b
BY DEF Holders, TableAt

\* An insertion gives a bucket to the map: the caller's, and only if the
\* entry is new.
LEMMA HoldersInserted ==
    ASSUME BucketMapInv, NEW c \in Calls, insert_canon(c), NEW b \in Calls
    PROVE  Holders(b)' = IF Vacant(c) /\ b = c THEN Holders(b) \cup {Nobody} ELSE Holders(b)
<1> DEFINE k == Canon(Attrs[c])
<1>1. (Occupied(c) \/ Vacant(c)) /\ taken' = taken /\ Nobody \notin Drains
  BY Inserted, CallsAssumption
<1>2. \A d \in Drains : d \in Holders(b)' <=> d \in Holders(b)
  BY <1>1 DEF Holders, TableAt
<1>3. CASE Vacant(c)
  <2>1. Nobody \in Holders(b)' <=> Nobody \in Holders(b) \/ b = c
    <3>1. Nobody \in Holders(b)' <=> \E j \in DOMAIN canonical' : canonical'[j].bucket = b
      BY DEF Holders, TableAt
    <3> QED
      BY <3>1, <1>3, HeldByMap DEF Vacant
  <2> QED
    BY <2>1, <1>2, <1>3 DEF Holders
<1>4. CASE Occupied(c)
  <2>1. Nobody \in Holders(b)' <=> Nobody \in Holders(b)
    <3>1. Nobody \in Holders(b)' <=> \E j \in DOMAIN canonical' : canonical'[j].bucket = b
      BY DEF Holders, TableAt
    <3> QED
      BY <3>1, <1>4, HeldByMap DEF Occupied
  <2>2. ~Vacant(c)
    BY <1>4 DEF Occupied, Vacant
  <2> QED
    BY <2>1, <2>2, <1>2 DEF Holders
<1> QED
  BY <1>1, <1>3, <1>4

\* The calls that look up, insert an alias and update leave the map as it is.
LEMMA MapUnchanged ==
    ASSUME BucketMapInv, NEW c \in Calls, CallStep(c), ~insert_canon(c)
    PROVE  UNCHANGED <<canonical, count, taken>>
<1>1. UNCHANGED <<canonical, count>>
  BY DEF CallStep, UpdateNoAttr, Touch, LookupCanon, LookupDup, insert_dup, Update, tables
<1> QED
  BY <1>1, CallFrame DEF drainVars

\* Where a call gets its bucket from.
LEMMA Got ==
    ASSUME BucketMapInv, NEW c \in Calls, CallStep(c)
    PROVE  \/ target'[c] = target[c]
           \/ insert_canon(c)
           \/ LookupCanon(c) /\ pc'[c] = "update"
                /\ \E k \in DOMAIN canonical : target'[c] = canonical[k].bucket
           \/ LookupDup(c) /\ pc'[c] = "update"
                /\ \E f \in DOMAIN aliases : target'[c] = aliases[f].bucket
<1>1. pc \in [Calls \cup Drains -> Labels] /\ target \in [Calls -> Buckets]
  BY DEF BucketMapInv, TypeOK
<1>2. CASE LookupCanon(c)
  BY <1>1, <1>2 DEF LookupCanon, Goto
<1>3. CASE LookupDup(c)
  BY <1>1, <1>3 DEF LookupDup, Goto
<1>4. CASE UpdateNoAttr(c) \/ Touch(c) \/ insert_dup(c) \/ Update(c)
  BY <1>4 DEF UpdateNoAttr, Touch, insert_dup, Update
<1> QED
  BY <1>2, <1>3, <1>4 DEF CallStep

LEMMA FreshStep == DrainsInv /\ Next => FreshInv'
<1> SUFFICES ASSUME DrainsInv, Next, NEW b \in Calls, Future(b)'
             PROVE  /\ \A c \in Calls : target'[c] # b
                    /\ \A f \in DOMAIN aliases' : aliases'[f].bucket # b
                    /\ Holders(b)' = {}
  BY DEF FreshInv
<1>1. /\ BucketMapInv
      /\ pc \in [Calls \cup Drains -> Labels] /\ target \in [Calls -> Buckets]
      /\ \A x \in Calls : Future(x) =>
            /\ \A c \in Calls : target[c] # x
            /\ \A f \in DOMAIN aliases : aliases[f].bucket # x
            /\ Holders(x) = {}
  BY DEF DrainsInv, FreshInv, BucketMapInv, TypeOK
<1>2. ASSUME NEW c \in Calls, CallStep(c)
      PROVE  /\ \A x \in Calls : target'[x] # b
             /\ \A f \in DOMAIN aliases' : aliases'[f].bucket # b
             /\ Holders(b)' = {}
  <2>1. \A x \in Calls \ {c} : pc'[x] = pc[x] /\ target'[x] = target[x]
    BY <1>1, <1>2, CallFrame
  <2>2. Future(b)
    <3>1. b = c => pc[c] \notin {"touch", "insert_dup", "update", "returned"}
      BY <1>1, <1>2 DEF CallStep, UpdateNoAttr, Touch, LookupCanon, LookupDup, insert_canon,
         insert_dup, Update, Goto, IsNext, Future
    <3>2. b = c => pc[c] \in {"called", "second lookup", "insert_canon"}
      BY <3>1, <1>2 DEF CallStep, UpdateNoAttr, Touch, LookupCanon, LookupDup, insert_canon,
         insert_dup, Update, IsNext
    <3> QED
      BY <3>2, <2>1 DEF Future
  <2>3. /\ \A x \in Calls : target[x] # b
        /\ \A f \in DOMAIN aliases : aliases[f].bucket # b
        /\ Holders(b) = {}
    BY <1>1, <2>2
  <2>4. Holders(b)' = {}
    <3>1. CASE insert_canon(c)
      <4>1. b # c
        BY <3>1, <1>1, Inserted DEF Future
      <4> QED
        BY <4>1, <3>1, <2>3, <1>1, HoldersInserted
    <3>2. CASE ~insert_canon(c)
      BY <3>2, <1>1, <1>2, <2>3, MapUnchanged, HoldersUnchanged
    <3> QED
      BY <3>1, <3>2
  <2>5. target'[c] # b
    <3>1. CASE insert_canon(c)
      <4>1. \E j \in DOMAIN canonical' : canonical'[j].bucket = target'[c]
        BY <3>1, <1>1, Inserted
      <4>2. Nobody \notin Holders(b)'
        BY <2>4
      <4> QED
        BY <4>1, <4>2 DEF Holders, TableAt
    <3>2. CASE \E k \in DOMAIN canonical : target'[c] = canonical[k].bucket
      BY <3>2, <2>3, HeldByMap
    <3> QED
      BY <3>1, <3>2, <1>1, <1>2, <2>3, Got
  <2>6. \A f \in DOMAIN aliases' : aliases'[f].bucket # b
    <3>1. CASE insert_dup(c)
      BY <3>1, <2>3 DEF insert_dup, With
    <3>2. CASE ~insert_dup(c)
      BY <3>2, <1>2, <2>3 DEF CallStep, UpdateNoAttr, Touch, LookupCanon, LookupDup,
         insert_canon, Update, tables
    <3> QED
      BY <3>1, <3>2
  <2> QED
    BY <2>1, <2>3, <2>4, <2>5, <2>6
<1>3. ASSUME NEW d \in Drains, DrainStep(d)
      PROVE  /\ \A x \in Calls : target'[x] # b
             /\ \A f \in DOMAIN aliases' : aliases'[f].bucket # b
             /\ Holders(b)' = {}
  <2>1. target' = target /\ pc'[b] = pc[b]
    BY <1>1, <1>3, DrainFrame
  <2>2. /\ \A x \in Calls : target[x] # b
        /\ \A f \in DOMAIN aliases : aliases[f].bucket # b
        /\ Holders(b) = {}
    BY <1>1, <2>1 DEF Future
  <2>3. /\ \A k \in DOMAIN canonical : canonical[k].bucket # b
        /\ \A x \in Drains : \A k \in DOMAIN taken[x] : taken[x][k].bucket # b
    BY <2>2, CallsAssumption DEF Holders, TableAt
  <2>4. /\ \A k \in DOMAIN canonical' : canonical'[k].bucket # b
        /\ \A x \in Drains : \A k \in DOMAIN taken'[x] : taken'[x][k].bucket # b
    BY <2>3, <1>1, <1>3, Removed
  <2>5. Holders(b)' = {}
    BY <2>4 DEF Holders, TableAt
  <2> QED
    BY <2>1, <2>2, <2>5, <1>1, <1>3, Removed
<1> QED
  BY <1>2, <1>3 DEF Next

-----------------------------------------------------------------------------
(* Calls that no drain overlaps                                            *)

LEMMA AliasStep == DrainsInv /\ Next => AliasInv'
<1> SUFFICES ASSUME DrainsInv, Next
             PROVE  AliasInv'
  OBVIOUS
<1>1. /\ BucketMapInv /\ FreshInv
      /\ pc \in [Calls \cup Drains -> Labels] /\ target \in [Calls -> Buckets]
      /\ \A k \in DOMAIN canonical : canonical[k].bucket \in Calls
      /\ \A f \in DOMAIN aliases : aliases[f].bucket \in Calls
  BY DEF DrainsInv, BucketMapInv, TypeOK, IsTable, Entry
<1>2. \A k \in DOMAIN canonical :
         /\ k = Canon(Attrs[canonical[k].bucket])
         /\ \A f \in DOMAIN aliases :
               aliases[f].bucket = canonical[k].bucket => f \in Recorded(k)
         /\ \A c \in Calls :
               pc[c] = "insert_dup" /\ target[c] = canonical[k].bucket
                   => Fingerprint(Attrs[c]) \in Recorded(k)
  BY DEF DrainsInv, AliasInv, BucketMapInv, SeriesInv
<1>3. ASSUME NEW c \in Calls, insert_canon(c)
      PROVE  AliasInv'
  <2> DEFINE k == Canon(Attrs[c])
  <2>1. /\ \A x \in Calls \ {c} : pc'[x] = pc[x] /\ target'[x] = target[x]
        /\ aliases' = aliases
        /\ target'[c] = canonical'[k].bucket /\ k \in DOMAIN canonical'
        /\ pc'[c] = "insert_dup" => Fingerprint(Attrs[c]) \in Recorded(k)'
    BY <1>1, <1>3, CallFrame, Inserted DEF CallStep, Recorded
  <2>2. CASE Occupied(c)
    <3>1. \A j \in DOMAIN canonical : Recorded(j) \subseteq Recorded(j)'
      BY <2>2 DEF Occupied, Recorded
    <3>2. /\ DOMAIN canonical' = DOMAIN canonical
          /\ \A j \in DOMAIN canonical : canonical'[j].bucket = canonical[j].bucket
      BY <2>2 DEF Occupied
    <3>3. \A j \in DOMAIN canonical : canonical[j].bucket = canonical[k].bucket => j = k
      BY <1>2, <2>1, <3>2
    <3> QED
      BY <1>2, <2>1, <3>1, <3>2, <3>3 DEF AliasInv
  <2>3. CASE Vacant(c)
    <3>1. /\ \A x \in Calls : target[x] # c
          /\ \A f \in DOMAIN aliases : aliases[f].bucket # c
          /\ \A j \in DOMAIN canonical : canonical[j].bucket # c
      BY <1>1, <1>3, Inserted, HeldByMap DEF FreshInv, Future
    <3>2. /\ DOMAIN canonical' = DOMAIN canonical \cup {k} /\ k \notin DOMAIN canonical
          /\ canonical'[k].bucket = c
          /\ \A j \in DOMAIN canonical : canonical'[j] = canonical[j] /\ Recorded(j)' = Recorded(j)
      BY <2>3 DEF Vacant, Recorded
    <3> QED
      BY <1>2, <2>1, <3>1, <3>2 DEF AliasInv
  <2> QED
    BY <2>2, <2>3, <1>1, <1>3, Inserted
<1>4. ASSUME NEW c \in Calls, CallStep(c), ~insert_canon(c)
      PROVE  AliasInv'
  <2>1. /\ canonical' = canonical /\ \A x \in Calls \ {c} : pc'[x] = pc[x] /\ target'[x] = target[x]
    BY <1>1, <1>4, CallFrame, MapUnchanged
  <2>2. \A j \in DOMAIN canonical : Recorded(j)' = Recorded(j)
    BY <2>1 DEF Recorded
  <2>3. pc'[c] # "insert_dup"
    BY <1>1, <1>4 DEF CallStep, UpdateNoAttr, Touch, LookupCanon, LookupDup, insert_dup, Update, Goto
  <2>4. \A f \in DOMAIN aliases' :
           \/ f \in DOMAIN aliases /\ aliases'[f] = aliases[f]
           \/ pc[c] = "insert_dup" /\ f = Fingerprint(Attrs[c]) /\ aliases'[f].bucket = target[c]
    <3>1. CASE insert_dup(c)
      BY <3>1 DEF insert_dup, With
    <3>2. CASE ~insert_dup(c)
      BY <3>2, <1>4 DEF CallStep, UpdateNoAttr, Touch, LookupCanon, LookupDup, Update, tables
    <3> QED
      BY <3>1, <3>2
  <2> QED
    BY <1>2, <2>1, <2>2, <2>3, <2>4 DEF AliasInv
<1>5. ASSUME NEW d \in Drains, DrainStep(d)
      PROVE  AliasInv'
  <2>1. /\ \A k \in DOMAIN canonical' : k \in DOMAIN canonical /\ canonical'[k] = canonical[k]
        /\ \A f \in DOMAIN aliases' : f \in DOMAIN aliases /\ aliases'[f] = aliases[f]
        /\ target' = target /\ \A c \in Calls : pc'[c] = pc[c]
    BY <1>1, <1>5, Removed, DrainFrame
  <2>2. \A k \in DOMAIN canonical' : Recorded(k)' = Recorded(k)
    BY <2>1 DEF Recorded
  <2> QED
    BY <1>2, <2>1, <2>2 DEF AliasInv
<1> QED
  BY <1>3, <1>4, <1>5 DEF Next

LEMMA LiveStep == DrainsInv /\ Next => LiveInv'
<1> SUFFICES ASSUME DrainsInv, Next
             PROVE  LiveInv'
  OBVIOUS
<1>1. /\ BucketMapInv /\ AliasInv
      /\ pc \in [Calls \cup Drains -> Labels] /\ target \in [Calls -> Buckets]
      /\ \A d \in Drains : pc[d] \notin {"called", "returned"} => canonLock = d
      /\ Nobody \notin Drains
  BY CallsAssumption DEF DrainsInv, BucketMapInv, TypeOK, LockInv
<1>2. /\ \A c \in Calls : Running(c) /\ c \notin overlapped => canonLock = Nobody
      /\ late = {} /\ (\A d \in Drains : pc[d] # "aliases") =>
             \A f \in DOMAIN aliases : aliases[f].bucket \in Live
      /\ late = {} => \A c \in Calls : pc[c] \in {"insert_dup", "update"} /\ c \notin overlapped
             => target[c] \in Live
  BY DEF DrainsInv, LiveInv
<1>3. ASSUME NEW c \in Calls, CallStep(c)
      PROVE  LiveInv'
  <2>1. /\ canonLock' = canonLock /\ \A d \in Drains : pc'[d] = pc[d]
        /\ \A x \in Calls \ {c} : pc'[x] = pc[x] /\ target'[x] = target[x]
        /\ pc[c] # "returned" /\ overlapped \subseteq overlapped' /\ late \subseteq late'
    BY <1>1, <1>3, CallFrame
  <2>2. Live \subseteq Live'
    <3>1. CASE insert_canon(c)
      <4>1. \A j \in DOMAIN canonical : j \in DOMAIN canonical' /\ canonical'[j].bucket = canonical[j].bucket
        BY <3>1, <1>1, Inserted DEF Occupied, Vacant
      <4> QED
        BY <4>1 DEF Live
    <3>2. CASE ~insert_canon(c)
      BY <3>2, <1>1, <1>3, MapUnchanged DEF Live
    <3> QED
      BY <3>1, <3>2
  <2>3. c \notin overlapped' => canonLock = Nobody
    <3>1. CASE pc[c] = "called"
      BY <3>1, <1>3 DEF CallStep, UpdateNoAttr, Touch, LookupCanon, LookupDup, insert_canon,
         insert_dup, Update, Begin
    <3>2. CASE pc[c] # "called"
      BY <3>2, <1>2, <2>1 DEF Running
    <3> QED
      BY <3>1, <3>2
  <2>4. \A x \in Calls : Running(x)' /\ x \notin overlapped' => canonLock' = Nobody
    BY <1>2, <2>1, <2>3 DEF Running
  <2>5. ASSUME late' = {}, \A d \in Drains : pc'[d] # "aliases"
        PROVE  \A f \in DOMAIN aliases' : aliases'[f].bucket \in Live'
    <3>1. \A f \in DOMAIN aliases : aliases[f].bucket \in Live
      BY <2>5, <1>2, <2>1
    <3>2. CASE insert_dup(c)
      <4>1. CASE aliases' = aliases
        BY <3>1, <4>1, <2>2
      <4>2. CASE aliases' # aliases
        <5>1. /\ aliases' = With(aliases, Fingerprint(Attrs[c]), [raw |-> Attrs[c], bucket |-> target[c]])
              /\ late' = IF target[c] \in Live THEN late ELSE late \cup {c}
          BY <3>2, <4>2 DEF insert_dup
        <5>2. target[c] \in Live
          BY <5>1, <2>5
        <5> QED
          BY <5>1, <5>2, <3>1, <2>2 DEF With
      <4> QED
        BY <4>1, <4>2
    <3>3. CASE ~insert_dup(c)
      <4>1. aliases' = aliases
        BY <3>3, <1>3 DEF CallStep, UpdateNoAttr, Touch, LookupCanon, LookupDup, insert_canon,
           Update, tables
      <4> QED
        BY <4>1, <3>1, <2>2
    <3> QED
      BY <3>2, <3>3
  <2>6. ASSUME late' = {}, pc'[c] \in {"insert_dup", "update"}, c \notin overlapped'
        PROVE  target'[c] \in Live'
    <3>1. late = {} /\ c \notin overlapped /\ \A d \in Drains : pc[d] # "aliases"
      BY <2>6, <2>1, <2>3, <1>1
    <3>2. CASE insert_canon(c)
      BY <3>2, <1>1, Inserted DEF Live
    <3>3. CASE LookupCanon(c) /\ \E k \in DOMAIN canonical : target'[c] = canonical[k].bucket
      BY <3>3, <2>2 DEF Live
    <3>4. CASE LookupDup(c) /\ \E f \in DOMAIN aliases : target'[c] = aliases[f].bucket
      BY <3>4, <3>1, <1>2, <2>2
    <3>5. CASE target'[c] = target[c] /\ ~insert_canon(c)
      <4>1. CASE LookupCanon(c) /\ Attrs[c] \in DOMAIN canonical
        BY <4>1, <2>2, <1>1 DEF LookupCanon, Live
      <4>2. CASE LookupDup(c) /\ Fingerprint(Attrs[c]) \in DOMAIN aliases
        BY <4>2, <3>1, <1>1, <1>2, <2>2 DEF LookupDup
      <4>3. CASE ~LookupCanon(c) /\ ~LookupDup(c)
        <5>1. pc[c] = "insert_dup"
          BY <4>3, <3>5, <2>6, <1>1, <1>3 DEF CallStep, UpdateNoAttr, Touch, insert_dup, Update, Goto
        <5> QED
          BY <5>1, <3>1, <3>5, <1>2, <2>2
      <4>4. CASE \/ LookupCanon(c) /\ Attrs[c] \notin DOMAIN canonical
                 \/ LookupDup(c) /\ Fingerprint(Attrs[c]) \notin DOMAIN aliases
        BY <4>4, <2>6, <1>1 DEF LookupCanon, LookupDup, Goto
      <4> QED
        BY <4>1, <4>2, <4>3, <4>4
    <3> QED
      BY <3>2, <3>3, <3>4, <3>5, <1>1, <1>3, Got
  <2>7. ASSUME late' = {}, NEW x \in Calls \ {c}, pc'[x] \in {"insert_dup", "update"},
               x \notin overlapped'
        PROVE  target'[x] \in Live'
    BY <2>7, <2>1, <2>2, <1>2
  <2> QED
    BY <2>4, <2>5, <2>6, <2>7 DEF LiveInv
<1>4. ASSUME NEW d \in Drains, DrainStep(d)
      PROVE  LiveInv'
  <2>1. /\ target' = target /\ late' = late /\ \A c \in Calls : pc'[c] = pc[c]
        /\ \A x \in Drains \ {d} : pc'[x] = pc[x]
        /\ overlapped \subseteq overlapped'
        /\ pc[d] = "called" \/ canonLock = d
    BY <1>1, <1>4, DrainFrame
  <2>2. \A c \in Calls : Running(c) => c \in overlapped'
    <3>1. CASE canonLock = d
      BY <3>1, <1>1, <1>2, <2>1
    <3>2. CASE pc[d] = "called"
      BY <3>2, <1>4 DEF DrainStep, EmptyCanonical, EmptyAliases, TakeCurrent, TakeSwapTouched,
         ClearNoAttr, Untouch, VisitBegin, VisitKeep, VisitEvict, VisitNoAttr
    <3> QED
      BY <2>1, <3>1, <3>2
  <2>3. ASSUME late = {}, \A x \in Drains : pc'[x] # "aliases"
        PROVE  \A f \in DOMAIN aliases' : aliases'[f].bucket \in Live'
    <3>1. CASE EmptyCanonical(d)
      BY <3>1, <2>3, <1>1 DEF EmptyCanonical, Goto
    <3>2. CASE EmptyAliases(d)
      BY <3>2, EmptyIsTable DEF EmptyAliases
    <3>3. CASE VisitEvict(d)
      <4>1. PICK k \in todo[d] :
               /\ aliases' = Restrict(aliases, DOMAIN aliases \ Recorded(k))
               /\ canonical' = Without(canonical, k)
        BY <3>3 DEF VisitEvict, Recorded
      <4>2. \A f \in DOMAIN aliases : aliases[f].bucket \in Live
        <5>1. pc' = pc
          BY <3>3 DEF VisitEvict
        <5> QED
          BY <5>1, <2>3, <1>2
      <4>3. k \in DOMAIN canonical
        BY <1>1 DEF BucketMapInv, TypeOK
      <4>4. ASSUME NEW f \in DOMAIN aliases'
            PROVE  aliases'[f].bucket \in Live'
        <5>1. f \in DOMAIN aliases /\ f \notin Recorded(k) /\ aliases'[f] = aliases[f]
          BY <4>1 DEF Restrict
        <5>2. PICK j \in DOMAIN canonical : aliases[f].bucket = canonical[j].bucket
          BY <4>2, <5>1 DEF Live
        <5>3. j # k
          BY <5>1, <5>2, <1>1 DEF AliasInv
        <5>4. j \in DOMAIN canonical' /\ canonical'[j] = canonical[j]
          BY <4>1, <5>3 DEF Without, Restrict
        <5> QED
          BY <5>1, <5>2, <5>4 DEF Live
      <4> QED
        BY <4>4
    <3>4. CASE \/ TakeCurrent(d) \/ TakeSwapTouched(d) \/ ClearNoAttr(d) \/ Untouch(d)
               \/ VisitBegin(d) \/ VisitKeep(d) \/ VisitNoAttr(d)
      <4>1. UNCHANGED <<canonical, aliases>> /\ pc[d] # "aliases"
        BY <3>4 DEF TakeCurrent, TakeSwapTouched, ClearNoAttr, Untouch, VisitBegin, VisitKeep,
           VisitNoAttr, tables
      <4> QED
        BY <4>1, <2>1, <2>3, <1>2 DEF Live
    <3> QED
      BY <1>4, <3>1, <3>2, <3>3, <3>4 DEF DrainStep
  <2>4. \A c \in Calls : c \notin overlapped' => pc'[c] \in {"called", "returned"}
    BY <2>1, <2>2 DEF Running
  <2>5. \A c \in Calls : Running(c)' => c \in overlapped'
    BY <2>4 DEF Running
  <2> QED
    BY <2>1, <2>3, <2>4, <2>5 DEF LiveInv
<1> QED
  BY <1>3, <1>4 DEF Next

-----------------------------------------------------------------------------
(* Nothing lost, nothing shown twice                                       *)

LEMMA ConservedStep == DrainsInv /\ Next => (OnlyAddsAndTakes => ConservedInv)'
<1> SUFFICES ASSUME DrainsInv, Next, OnlyAddsAndTakes'
             PROVE  ConservedInv'
  OBVIOUS
<1>1. /\ BucketMapInv /\ PhaseInv /\ FreshInv
      /\ pc \in [Calls \cup Drains -> Labels] /\ target \in [Calls -> Buckets]
      /\ content \in [Buckets -> SUBSET Calls]
      /\ \A k \in DOMAIN canonical : canonical[k].bucket \in Calls
      /\ \A f \in DOMAIN aliases : aliases[f].bucket \in Calls
      /\ Buckets = Calls \cup {NoAttr} /\ NoAttr \notin Calls /\ Nobody \notin Drains
  BY CallsAssumption DEF DrainsInv, BucketMapInv, TypeOK, IsTable, Entry, Buckets
<1>2. /\ \A c \in Calls : pc'[c] # "called" => Op[c] = "add"
      /\ \A d \in Drains : pc'[d] # "called" => Kind[d] = "take"
  BY DEF OnlyAddsAndTakes
<1>3. OnlyAddsAndTakes
  <2>1. /\ \A c \in Calls : pc[c] # "called" => pc'[c] # "called"
        /\ \A d \in Drains : pc[d] # "called" => pc'[d] # "called"
    BY <1>1, CallFrame, DrainFrame DEF Next
  <2> QED
    BY <2>1, <1>2 DEF OnlyAddsAndTakes
<1>4. /\ \A c \in Calls : pc[c] = "touch" => Attrs[c] = <<>>
      /\ \A c \in Attributed : pc[c] = "returned" => target[c] \in Calls
      /\ \A c \in Attributed : \A b \in Buckets :
            c \in content[b] <=> pc[c] = "returned" /\ target[c] = b
      /\ \A b \in Calls : Known(b) => HeldOnce(b)
      /\ \A b \in Calls : \A p, q \in Holders(b) : p = q
  BY <1>3 DEF DrainsInv, ConservedInv
<1>5. ASSUME NEW c \in Calls, CallStep(c)
      PROVE  ConservedInv'
  <2>1. /\ \A x \in Calls \ {c} : pc'[x] = pc[x] /\ target'[x] = target[x]
        /\ pc[c] # "returned" /\ pc'[c] # "called" /\ Op[c] = "add"
    BY <1>1, <1>2, <1>5, CallFrame
  <2>2. pc'[c] = "touch" => Attrs[c] = <<>>
    BY <1>1, <1>5 DEF CallStep, UpdateNoAttr, Touch, LookupCanon, LookupDup, insert_canon,
       insert_dup, Update, Goto
  <2>3. c \in Attributed /\ pc'[c] = "returned" => Update(c) /\ target'[c] = target[c] /\ target[c] \in Calls
    <3>1. Update(c) => target' = target /\ target[c] \in Calls
      BY <1>1 DEF Update, BucketMapInv, SeriesInv
    <3>2. c \in Attributed => ~UpdateNoAttr(c) /\ ~Touch(c)
      BY <1>4 DEF UpdateNoAttr, Touch, Attributed
    <3>3. LookupCanon(c) \/ LookupDup(c) \/ insert_canon(c) \/ insert_dup(c) => pc'[c] # "returned"
      BY <1>1 DEF LookupCanon, LookupDup, insert_canon, insert_dup, Goto
    <3> QED
      BY <3>1, <3>2, <3>3, <1>5 DEF CallStep
  <2>4. ASSUME NEW x \in Attributed, NEW b \in Buckets
        PROVE  x \in content'[b] <=> pc'[x] = "returned" /\ target'[x] = b
    <3>1. /\ x \in Calls
          /\ x \in content[b] <=> pc[x] = "returned" /\ target[x] = b
      BY <1>4 DEF Attributed
    <3>2. CASE Update(c)
      <4>1. pc'[c] = "returned" /\ target'[c] = target[c]
        BY <3>2, <1>1 DEF Update, Goto
      <4>2. content'[b] = IF b = target[c] THEN content[b] \cup {c} ELSE content[b]
        BY <3>2, <1>1, <2>1 DEF Update, Updated
      <4>3. CASE x = c
        BY <4>1, <4>2, <4>3, <3>1, <2>1
      <4>4. CASE x # c
        BY <4>2, <4>4, <3>1, <2>1
      <4> QED
        BY <4>3, <4>4
    <3>3. CASE UpdateNoAttr(c)
      <4>1. x # c
        BY <3>3 DEF UpdateNoAttr, Attributed
      <4>2. content'[b] = IF b = NoAttr THEN content[b] \cup {c} ELSE content[b]
        BY <3>3, <1>1, <2>1 DEF UpdateNoAttr, Updated
      <4> QED
        BY <4>1, <4>2, <3>1, <2>1
    <3>4. CASE ~Update(c) /\ ~UpdateNoAttr(c)
      <4>1. content' = content
        BY <3>4, <1>5 DEF CallStep, Touch, LookupCanon, LookupDup, insert_canon, insert_dup
      <4>2. CASE x = c
        BY <4>1, <4>2, <3>1, <3>4, <2>1, <2>3
      <4>3. CASE x # c
        BY <4>1, <4>3, <3>1, <2>1
      <4> QED
        BY <4>2, <4>3
    <3> QED
      BY <3>2, <3>3, <3>4
  <2>5. /\ \A b \in Calls : HeldOnce(b) => HeldOnce(b)'
        /\ \A b \in Calls : \A p, q \in Holders(b)' : p = q
    <3>1. CASE insert_canon(c)
      <4>1. Holders(c) = {}
        BY <3>1, <1>1, Inserted DEF FreshInv, Future
      <4>2. \A b \in Calls : Holders(b)' = Holders(b) \/ (Holders(b) = {} /\ Holders(b)' = {Nobody})
        BY <3>1, <4>1, <1>1, HoldersInserted
      <4> QED
        BY <4>2, <1>4 DEF HeldOnce
    <3>2. CASE ~insert_canon(c)
      <4>1. \A b \in Calls : Holders(b)' = Holders(b)
        BY <3>2, <1>1, <1>5, MapUnchanged, HoldersUnchanged
      <4> QED
        BY <4>1, <1>4 DEF HeldOnce
    <3> QED
      BY <3>1, <3>2
  <2>6. ASSUME NEW b \in Calls, target'[c] = b
        PROVE  HeldOnce(b)'
    <3>1. ASSUME Known(b)
          PROVE  HeldOnce(b)'
      BY <3>1, <1>4, <2>5
    <3>2. CASE target'[c] = target[c]
      BY <2>6, <3>1, <3>2 DEF Known
    <3>3. CASE insert_canon(c)
      <4>1. \E j \in DOMAIN canonical' : canonical'[j].bucket = b
        BY <2>6, <3>3, <1>1, Inserted
      <4>2. Nobody \in Holders(b)'
        BY <4>1 DEF Holders, TableAt
      <4> QED
        BY <4>2, <2>5 DEF HeldOnce
    <3>4. CASE \E k \in DOMAIN canonical : target'[c] = canonical[k].bucket
      <4>1. Nobody \in Holders(b)
        BY <2>6, <3>4, HeldByMap
      <4>2. HeldOnce(b)
        BY <4>1, <1>4 DEF HeldOnce
      <4> QED
        BY <4>2, <2>5
    <3>5. CASE \E f \in DOMAIN aliases : target'[c] = aliases[f].bucket
      BY <2>6, <3>1, <3>5 DEF Known
    <3> QED
      BY <3>2, <3>3, <3>4, <3>5, <1>1, <1>5, Got
  <2>7. ASSUME NEW f \in DOMAIN aliases', NEW b \in Calls, aliases'[f].bucket = b
        PROVE  Known(b)
    <3>1. CASE f \in DOMAIN aliases /\ aliases'[f] = aliases[f]
      BY <2>7, <3>1 DEF Known
    <3>2. CASE insert_dup(c) /\ ~(f \in DOMAIN aliases /\ aliases'[f] = aliases[f])
      <4>1. aliases'[f].bucket = target[c]
        BY <2>7, <3>2 DEF insert_dup, With
      <4> QED
        BY <4>1, <2>7 DEF Known
    <3>3. CASE ~insert_dup(c)
      <4>1. aliases' = aliases
        BY <3>3, <1>5 DEF CallStep, UpdateNoAttr, Touch, LookupCanon, LookupDup, insert_canon,
           Update, tables
      <4> QED
        BY <4>1, <2>7 DEF Known
    <3> QED
      BY <3>1, <3>2, <3>3
  <2>8. ASSUME NEW b \in Calls, Known(b)'
        PROVE  HeldOnce(b)'
    <3>1. Known(b) \/ target'[c] = b
      BY <2>8, <2>1, <2>7 DEF Known
    <3> QED
      BY <3>1, <2>5, <2>6, <1>4
  <2>9. /\ \A x \in Calls : pc'[x] = "touch" => Attrs[x] = <<>>
        /\ \A x \in Attributed : pc'[x] = "returned" => target'[x] \in Calls
    BY <1>4, <2>1, <2>2, <2>3 DEF Attributed
  <2> QED
    BY <2>4, <2>5, <2>8, <2>9 DEF ConservedInv
<1>6. ASSUME NEW d \in Drains, DrainStep(d)
      PROVE  ConservedInv'
  <2>1. /\ target' = target /\ \A c \in Calls : pc'[c] = pc[c]
        /\ Kind[d] = "take"
    BY <1>1, <1>2, <1>6, DrainFrame
  <2>2. \A c \in Attributed : \A b \in Buckets : c \in content'[b] <=> c \in content[b]
    <3>1. CASE ClearNoAttr(d)
      <4>1. \A b \in Buckets : content'[b] = IF b = NoAttr THEN {} ELSE content[b]
        BY <3>1, <1>1 DEF ClearNoAttr
      <4>2. \A c \in Attributed : c \notin content[NoAttr]
        BY <1>1 DEF Attributed, BucketMapInv, SeriesInv
      <4> QED
        BY <4>1, <4>2
    <3>2. CASE content' = content
      BY <3>2
    <3> QED
      BY <3>1, <3>2, <1>6 DEF DrainStep, EmptyCanonical, EmptyAliases, TakeCurrent, TakeSwapTouched,
         Untouch, VisitBegin, VisitKeep, VisitEvict, VisitNoAttr
  <2>3. /\ \A b \in Calls : HeldOnce(b) => HeldOnce(b)'
        /\ \A b \in Calls : \A p, q \in Holders(b)' : p = q
    <3>1. CASE EmptyCanonical(d)
      <4>1. /\ DOMAIN canonical' = {} /\ taken' = [taken EXCEPT ![d] = canonical]
            /\ DOMAIN taken[d] = {} /\ DOMAIN taken = Drains
        BY <3>1, <2>1, <1>1, EmptyIsTable DEF EmptyCanonical, PhaseInv, BucketMapInv, TypeOK
      <4>2. taken'[d] = canonical /\ \A x \in Drains \ {d} : taken'[x] = taken[x]
        BY <4>1
      <4>3. ASSUME NEW b \in Calls
            PROVE  Holders(b)' = IF Nobody \in Holders(b)
                                 THEN (Holders(b) \ {Nobody}) \cup {d} ELSE Holders(b)
        <5>1. Nobody \notin Holders(b)' /\ d \notin Holders(b)
          BY <4>1, <1>1 DEF Holders, TableAt
        <5>2. d \in Holders(b)' <=> Nobody \in Holders(b)
          BY <4>2, <1>1 DEF Holders, TableAt
        <5>3. \A x \in Drains \ {d} : x \in Holders(b)' <=> x \in Holders(b)
          BY <4>2, <1>1 DEF Holders, TableAt
        <5>4. Holders(b) \subseteq Drains \cup {Nobody} /\ Holders(b)' \subseteq Drains \cup {Nobody}
          BY DEF Holders
        <5> QED
          BY <5>1, <5>2, <5>3, <5>4
      <4>4. \A b \in Calls : HeldOnce(b) => HeldOnce(b)'
        <5>1. ASSUME NEW b \in Calls, NEW p \in Drains \cup {Nobody}, Holders(b) = {p}
              PROVE  HeldOnce(b)'
          <6>1. Holders(b)' = {d} \/ Holders(b)' = {p}
            BY <5>1, <4>3
          <6> QED
            BY <6>1 DEF HeldOnce
        <5> QED
          BY <5>1 DEF HeldOnce
      <4>5. \A b \in Calls : \A p, q \in Holders(b)' : p = q
        <5>1. ASSUME NEW b \in Calls, NEW p \in Holders(b)', NEW q \in Holders(b)'
              PROVE  p = q
          BY <5>1, <4>3, <1>4
        <5> QED
          BY <5>1
      <4> QED
        BY <4>4, <4>5
    <3>2. CASE \/ EmptyAliases(d) \/ TakeCurrent(d) \/ TakeSwapTouched(d) \/ ClearNoAttr(d)
               \/ Untouch(d)
      <4>1. UNCHANGED <<canonical, taken>>
        BY <3>2 DEF EmptyAliases, TakeCurrent, TakeSwapTouched, ClearNoAttr, Untouch, tables, drainVars
      <4>2. \A b \in Calls : Holders(b)' = Holders(b)
        BY <4>1, HoldersUnchanged
      <4> QED
        BY <4>2, <1>4 DEF HeldOnce
    <3>3. CASE VisitBegin(d) \/ VisitKeep(d) \/ VisitEvict(d) \/ VisitNoAttr(d)
      BY <3>3, <1>1, <2>1 DEF VisitBegin, VisitKeep, VisitEvict, VisitNoAttr, PhaseInv
    <3> QED
      BY <1>6, <3>1, <3>2, <3>3 DEF DrainStep
  <2>4. ASSUME NEW b \in Calls, Known(b)'
        PROVE  HeldOnce(b)'
    <3>1. Known(b)
      BY <2>4, <2>1, <1>1, <1>6, Removed DEF Known
    <3> QED
      BY <3>1, <2>3, <1>4
  <2>5. \A c \in Attributed : c \in Calls
    BY DEF Attributed
  <2> QED
    BY <2>1, <2>2, <2>3, <2>4, <2>5, <1>4 DEF ConservedInv
<1> QED
  BY <1>5, <1>6 DEF Next

-----------------------------------------------------------------------------
(* The theorems                                                            *)

LEMMA InitDrains == Init => DrainsInv
<1> SUFFICES ASSUME Init
             PROVE  DrainsInv
  OBVIOUS
<1>1. BucketMapInv
  BY InitInv
<1>2. /\ \A x \in Calls \cup Drains : pc[x] = "called"
      /\ \A b \in Buckets : content[b] = {}
      /\ DOMAIN canonical = {} /\ DOMAIN aliases = {}
      /\ \A d \in Drains : evicted[d] = 0 /\ taken[d] = Empty /\ DOMAIN taken[d] = {}
      /\ \A c \in Calls : target[c] = NoAttr
      /\ count = 0 /\ left = 0 /\ canonLock = Nobody
      /\ NoAttr \in Buckets /\ NoAttr \notin Calls
  BY EmptyIsTable, CallsAssumption DEF Init, Buckets
<1>3. \A b \in Calls : Holders(b) = {}
  BY <1>2 DEF Holders, TableAt
<1>4. PhaseInv
  BY <1>2 DEF PhaseInv
<1>5. FlagInv
  BY <1>2 DEF FlagInv, SettledWritesAreFlagged
<1>6. CountedInv
  BY <1>2, FS_EmptySet DEF CountedInv, Counted, Running
<1>7. FreshInv
  BY <1>2, <1>3 DEF FreshInv
<1>8. AliasInv
  BY <1>2 DEF AliasInv
<1>9. LiveInv
  BY <1>2 DEF LiveInv, Running
<1>10. ConservedInv
  <2>1. \A b \in Calls : ~Known(b)
    BY <1>2 DEF Known
  <2> QED
    BY <1>2, <1>3, <2>1 DEF ConservedInv, Attributed
<1> QED
  BY <1>1, <1>4, <1>5, <1>6, <1>7, <1>8, <1>9, <1>10 DEF DrainsInv

LEMMA NextDrains == DrainsInv /\ [Next]_vars => DrainsInv'
<1> SUFFICES ASSUME DrainsInv, [Next]_vars
             PROVE  DrainsInv'
  OBVIOUS
<1>1. CASE Next
  <2>1. BucketMapInv'
    BY <1>1, TypeStep, LockStep, SeriesStep DEF DrainsInv, BucketMapInv
  <2> QED
    BY <1>1, <2>1, PhaseStep, FlagStep, CountStep, FreshStep, AliasStep, LiveStep, ConservedStep
       DEF DrainsInv
<1>2. CASE UNCHANGED vars
  <2> USE <1>2 DEF vars, tables, locks, drainVars, history
  <2>1. BucketMapInv'
    BY StutterInv DEF DrainsInv
  <2>2. \A b \in Calls : Holders(b)' = Holders(b)
    BY HoldersUnchanged
  <2>3. PhaseInv' /\ FlagInv'
    BY DEF DrainsInv, PhaseInv, FlagInv, SettledWritesAreFlagged
  <2>4. CountedInv'
    BY DEF DrainsInv, CountedInv, Counted, Running
  <2>5. FreshInv'
    BY <2>2 DEF DrainsInv, FreshInv, Future
  <2>6. AliasInv'
    BY DEF DrainsInv, AliasInv, Recorded
  <2>7. LiveInv'
    BY DEF DrainsInv, LiveInv, Live, Running
  <2>8. (OnlyAddsAndTakes => ConservedInv)'
    BY <2>2 DEF DrainsInv, OnlyAddsAndTakes, ConservedInv, HeldOnce, Known
  <2> QED
    BY <2>1, <2>3, <2>4, <2>5, <2>6, <2>7, <2>8 DEF DrainsInv
<1> QED
  BY <1>1, <1>2

\* The invariant of the drains holds.
THEOREM DrainsInvariance == Safety => []DrainsInv
<1>1. Init => DrainsInv
  BY InitDrains
<1>2. DrainsInv /\ [Next]_vars => DrainsInv'
  BY NextDrains
<1> QED
  BY <1>1, <1>2, PTL DEF Safety

\* With adds and takes only, an update with attributes that has returned is
\* in exactly one bucket, which is in the map or in one drained table.
THEOREM Conserved == Safety => []AttributedCallsConserved
<1>1. DrainsInv => AttributedCallsConserved
  <2> SUFFICES ASSUME DrainsInv, OnlyAddsAndTakes, NEW c \in Attributed, pc[c] = "returned"
               PROVE  \E b \in Calls : /\ {x \in Buckets : c \in content[x]} = {b}
                                       /\ Cardinality(Holders(b)) = 1
    BY DEF AttributedCallsConserved
  <2>1. ConservedInv /\ c \in Calls
    BY DEF DrainsInv, Attributed
  <2>2. target[c] \in Calls /\ Calls \subseteq Buckets
    BY <2>1 DEF ConservedInv, Buckets
  <2>3. {x \in Buckets : c \in content[x]} = {target[c]}
    BY <2>1, <2>2 DEF ConservedInv
  <2>4. PICK p \in Drains \cup {Nobody} : Holders(target[c]) = {p}
    BY <2>1, <2>2 DEF ConservedInv, Known, HeldOnce
  <2>5. Cardinality(Holders(target[c])) = 1
    BY <2>4, FS_Singleton
  <2> QED
    BY <2>2, <2>3, <2>5
<1> QED
  BY <1>1, DrainsInvariance, PTL

\* A call no drain overlapped updates a bucket that the map still holds,
\* unless an alias of a detached bucket has been inserted.
THEOREM FreshLive == Safety => []FreshCallsAreLive
<1>1. DrainsInv => FreshCallsAreLive
  BY DEF DrainsInv, LiveInv, FreshCallsAreLive, Attributed
<1> QED
  BY <1>1, DrainsInvariance, PTL

\* An update without attributes that no drain overlapped is flagged until a
\* drain has had it.
THEOREM SettledFlagged == Safety => []SettledWritesAreFlagged
<1>1. DrainsInv => SettledWritesAreFlagged
  BY DEF DrainsInv, FlagInv
<1> QED
  BY <1>1, DrainsInvariance, PTL

\* However calls and drains race, the count is the size of the table and of those
\* that takes have carried off since the last clear, whenever no drain is running:
\* neither an insertion nor an eviction is missed or counted twice, and a take
\* leaves the count as it is (CountIsTableSize of BucketMap).
THEOREM CountRight == Safety => []CountIsTableSize
<1>1. DrainsInv => CountIsTableSize
  BY DEF DrainsInv, CountedInv, CountIsTableSize
<1> QED
  BY <1>1, DrainsInvariance, PTL
=============================================================================
