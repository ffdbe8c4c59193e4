----------------------------- MODULE BucketMap -----------------------------
(***************************************************************************)
(* The map from attribute lists to buckets of src/bucket_map.rs.  Callers  *)
(* hold an Arc to a bucket after the map's locks are released; a drain     *)
(* (take, clear, an evicting visit_bucket) may detach the bucket in        *)
(* between.  Each action is one critical section or one atomic access.     *)
(*                                                                         *)
(* A bucket is named after the call that creates it, and its value is the  *)
(* set of the calls it carries: one update of a bucket is one step here,   *)
(* which Histogram shows to be right for the bucket that is not one atomic.*)
(* debug_assert! is not evaluated (the release build); the properties that *)
(* say what those assertions say are stated over the states they guard.    *)
(***************************************************************************)
EXTENDS Integers, Sequences, FiniteSets, Functions

CONSTANTS
    Calls,    \* calls of add, sub, set and reset, one element per call
    Op,       \* per call, which of them; "add" is also `sub`
    Attrs,    \* per call, its attribute list; a KeyValue is a number
    Drains,   \* calls of take, clear and visit_bucket
    Kind,     \* per drain, which of them
    NoAttr,   \* the bucket of no_attr_entry
    Nobody

ASSUME CallsAssumption ==
    /\ Op \in [Calls -> {"add", "set", "reset"}]
    /\ Attrs \in [Calls -> Seq(Nat)]
    /\ Kind \in [Drains -> {"take", "clear", "visit"}]
    /\ NoAttr \notin Calls
    /\ Nobody \notin Calls \cup Drains \cup {NoAttr}

ASSUME DisjointAssumption == Calls \cap Drains = {}

-----------------------------------------------------------------------------
(* Attribute lists.                                                        *)

\* Seeded defect: sorted, with the repetitions left in.
Canon_NoDedup(a) ==
    CHOOSE s \in [DOMAIN a -> Range(a)] :
        /\ \A i, j \in DOMAIN s : i < j => s[i] <= s[j]
        /\ \A v \in Range(a) : Cardinality({i \in DOMAIN s : s[i] = v})
                             = Cardinality({i \in DOMAIN a : a[i] = v})

\* sort_unstable, then dedup: the strictly sorted list of the same elements.
Canon(a) ==
    LET S == Range(a)
    IN  CHOOSE s \in [1 .. Cardinality(S) -> S] :
            \A i, j \in DOMAIN s : i < j => s[i] < s[j]

is_sorted(a) == \A i, j \in DOMAIN a : i < j => a[i] <= a[j]

needs_alias(a) == Canon(a) # a

\* Seeded defect: the xor alone, in which pairs of equal elements cancel.
Fingerprint_XorOnly(a) ==
    [v \in {v \in Range(a) : Cardinality({i \in DOMAIN a : a[i] = v}) % 2 = 1} |-> 1]

\* AttrFingerprint: xor, sum and length of the elements' hashes.  With no
\* hash collision it is the bag of the elements, and forgets their order.
Fingerprint(a) == [v \in Range(a) |-> Cardinality({i \in DOMAIN a : a[i] = v})]

\* Every attribute list has a sorted, duplicate-free form.
ASSUME SortableAssumption ==
    \A c \in Calls :
        LET S == Range(Attrs[c])
        IN  \E s \in [1 .. Cardinality(S) -> S] :
                /\ \A i, j \in DOMAIN s : i < j => s[i] < s[j]
                /\ Range(s) = S

-----------------------------------------------------------------------------
VARIABLES
    canonical,  \* canonical list -> [bucket, aliases]
    aliases,    \* fingerprint -> [raw, bucket]
    count,
    touched,    \* no_attr_touched
    content,    \* per bucket, the calls its value carries
    canonLock,  \* the drain inside `canonical.write()`, or Nobody
    aliasLock,  \* the drain (or call) inside `aliases.write()`, or Nobody
    pc,         \* per call and drain, the next step
    target,     \* per call, the Arc it got from the map
    todo,       \* per visit, the entries `retain` has yet to visit
    evicted,    \* per visit, the local `evicted`
    taken,      \* per take, the table it returns
    point,      \* per take, the no_attr value it returns; {} is None until
                \* `reported` says otherwise
    reported,   \* per take, whether the no_attr value is Some
    overlapped, \* history: calls that a drain overlapped
    late,       \* history: calls that inserted an alias of a detached bucket
    left        \* history: entries that takes have carried off since `count`
                \* was last reset

tables == <<canonical, aliases, count>>
locks == <<canonLock, aliasLock>>
drainVars == <<todo, evicted, taken, point, reported>>
history == <<overlapped, late, left>>
vars == <<tables, touched, content, locks, pc, target, drainVars, history>>

Buckets == Calls \cup {NoAttr}
Empty == [x \in {} |-> x]
Without(f, x) == Restrict(f, DOMAIN f \ {x})
With(f, x, y) == [z \in DOMAIN f \cup {x} |-> IF z = x THEN y ELSE f[z]]

Labels == {"called", "touch", "second lookup", "insert_canon", "insert_dup", "update",
           "aliases", "current", "swap touched", "clear no_attr", "untouch", "retain",
           "returned"}

Entry == [bucket : Calls, aliases : Seq(Seq(Nat))]

IsTable(t) == /\ DOMAIN t \subseteq Seq(Nat)
              /\ \A k \in DOMAIN t : t[k] \in Entry

TypeOK ==
    /\ IsTable(canonical)
    /\ \A f \in DOMAIN aliases : aliases[f] \in [raw : Seq(Nat), bucket : Calls]
    /\ count \in Int
    /\ touched \in BOOLEAN
    /\ content \in [Buckets -> SUBSET Calls]
    /\ canonLock \in Drains \cup {Nobody}
    /\ aliasLock \in Drains \cup Calls \cup {Nobody}
    /\ pc \in [Calls \cup Drains -> Labels]
    /\ target \in [Calls -> Buckets]
    /\ DOMAIN todo = Drains /\ DOMAIN taken = Drains
    /\ \A d \in Drains : todo[d] \subseteq DOMAIN canonical /\ IsTable(taken[d])
    /\ evicted \in [Drains -> Nat]
    /\ point \in [Drains -> SUBSET Calls]
    /\ reported \in [Drains -> BOOLEAN]

Init ==
    /\ canonical = Empty
    /\ aliases = Empty
    /\ count = 0
    /\ touched = FALSE
    /\ content = [b \in Buckets |-> {}]
    /\ canonLock = Nobody
    /\ aliasLock = Nobody
    /\ pc = [x \in Calls \cup Drains |-> "called"]
    /\ target = [c \in Calls |-> NoAttr]
    /\ todo = [d \in Drains |-> {}]
    /\ evicted = [d \in Drains |-> 0]
    /\ taken = [d \in Drains |-> Empty]
    /\ point = [d \in Drains |-> {}]
    /\ reported = [d \in Drains |-> FALSE]
    /\ overlapped = {}
    /\ late = {}
    /\ left = 0

\* The buckets a drain would find.
Live == {canonical[k].bucket : k \in DOMAIN canonical}

Goto(x, label) == pc' = [pc EXCEPT ![x] = label]

\* The call or drain has begun and has not returned.
Running(x) == pc[x] \notin {"called", "returned"}

-----------------------------------------------------------------------------
(* add, sub, set, reset.                                                   *)

\* Record::add, Scalar::store and Scalar::reset on a bucket of value v.
Updated(c, v) ==
    CASE Op[c] = "add" -> v \cup {c}
      [] Op[c] = "set" -> {c}
      [] Op[c] = "reset" -> {}

\* A call that begins while a drain is running is overlapped by it.
Begin(c) == overlapped' = IF pc[c] = "called" /\ canonLock # Nobody
                          THEN overlapped \cup {c}
                          ELSE overlapped

\* Seeded defect: set stores the value and forgets the flag.
UpdateNoAttr_SetForgetsTouch(c) ==
    /\ pc[c] = "called"
    /\ Attrs[c] = <<>>
    /\ content' = [content EXCEPT ![NoAttr] = Updated(c, @)]
    /\ Goto(c, IF Op[c] = "add" THEN "touch" ELSE "returned")
    /\ Begin(c)
    /\ UNCHANGED <<tables, touched, locks, target, drainVars, late, left>>

\* No attributes: the bucket first, the flag in a second step; reset leaves
\* the flag alone.
UpdateNoAttr(c) ==
    /\ pc[c] = "called"
    /\ Attrs[c] = <<>>
    /\ content' = [content EXCEPT ![NoAttr] = Updated(c, @)]
    /\ Goto(c, IF Op[c] = "reset" THEN "returned" ELSE "touch")
    /\ Begin(c)
    /\ UNCHANGED <<tables, touched, locks, target, drainVars, late, left>>

Touch(c) ==
    /\ pc[c] = "touch"
    /\ touched' = TRUE
    /\ Goto(c, "returned")
    /\ UNCHANGED <<tables, content, locks, target, drainVars, history>>

\* get_bucket tries one table, then the other; a list of one attribute is
\* looked up in the canonical table only.
CanonFirst(c) == Len(Attrs[c]) = 1 \/ is_sorted(Attrs[c])

IsNext(c, first) == \/ first /\ pc[c] = "called"
                    \/ ~first /\ pc[c] = "second lookup"

LookupCanon(c) ==
    /\ Attrs[c] # <<>>
    /\ IsNext(c, CanonFirst(c))
    /\ canonLock = Nobody
    /\ IF Attrs[c] \in DOMAIN canonical
       THEN /\ target' = [target EXCEPT ![c] = canonical[Attrs[c]].bucket]
            /\ Goto(c, "update")
       ELSE /\ target' = target
            /\ Goto(c, IF CanonFirst(c) /\ Len(Attrs[c]) > 1
                       THEN "second lookup"
                       ELSE "insert_canon")
    /\ UNCHANGED <<tables, touched, content, locks, drainVars, history>>

\* AliasKey::matches compares fingerprints only.
LookupDup(c) ==
    /\ Len(Attrs[c]) > 1
    /\ IsNext(c, ~CanonFirst(c))
    /\ aliasLock = Nobody
    /\ IF Fingerprint(Attrs[c]) \in DOMAIN aliases
       THEN /\ target' = [target EXCEPT ![c] = aliases[Fingerprint(Attrs[c])].bucket]
            /\ Goto(c, "update")
       ELSE /\ target' = target
            /\ Goto(c, IF CanonFirst(c) THEN "insert_canon" ELSE "second lookup")
    /\ Begin(c)
    /\ UNCHANGED <<tables, touched, content, locks, drainVars, late, left>>

\* Seeded defect: the miss of the lookup is trusted, so an entry another
\* call has inserted since is replaced.
insert_canon_NoRecheck(c) ==
    LET k == Canon(Attrs[c])
        alias == IF needs_alias(Attrs[c]) THEN <<Attrs[c]>> ELSE <<>>
    IN  /\ pc[c] = "insert_canon"
        /\ canonLock = Nobody
        /\ canonical' = With(canonical, k, [bucket |-> c, aliases |-> alias])
        /\ target' = [target EXCEPT ![c] = c]
        /\ count' = count + 1
        /\ Goto(c, IF needs_alias(Attrs[c]) THEN "insert_dup" ELSE "update")
        /\ UNCHANGED <<aliases, touched, content, locks, drainVars, history>>

\* An occupied entry gains the alias; a vacant one is filled.
insert_canon(c) ==
    LET k == Canon(Attrs[c])
        alias == IF needs_alias(Attrs[c]) THEN <<Attrs[c]>> ELSE <<>>
    IN  /\ pc[c] = "insert_canon"
        /\ canonLock = Nobody
        /\ \/ /\ k \in DOMAIN canonical
              /\ canonical' = [canonical EXCEPT ![k].aliases = @ \o alias]
              /\ target' = [target EXCEPT ![c] = canonical[k].bucket]
              /\ count' = count
           \/ /\ k \notin DOMAIN canonical
              /\ canonical' = With(canonical, k, [bucket |-> c, aliases |-> alias])
              /\ target' = [target EXCEPT ![c] = c]
              /\ count' = count + 1
        /\ Goto(c, IF needs_alias(Attrs[c]) THEN "insert_dup" ELSE "update")
        /\ UNCHANGED <<aliases, touched, content, locks, drainVars, history>>

\* Seeded defect: the alias lock is held while the canonical lock is taken,
\* to insert the alias of a live bucket only.
insert_dup_ChecksCanonical(c) ==
    LET f == Fingerprint(Attrs[c])
        add == f \notin DOMAIN aliases /\ target[c] \in Live
    IN  /\ pc[c] = "insert_dup"
        /\ \/ /\ aliasLock = Nobody
              /\ aliasLock' = c
              /\ UNCHANGED <<aliases, pc>>
           \/ /\ aliasLock = c
              /\ canonLock = Nobody
              /\ aliasLock' = Nobody
              /\ aliases' = IF add THEN With(aliases, f, [raw |-> Attrs[c], bucket |-> target[c]])
                                   ELSE aliases
              /\ Goto(c, "update")
        /\ UNCHANGED <<canonical, count, touched, content, canonLock, target, drainVars, history>>

\* The alias goes in under a lock of its own, after the canonical lock has
\* been released.  An occupied entry stays as it is.
insert_dup(c) ==
    LET f == Fingerprint(Attrs[c])
    IN  /\ pc[c] = "insert_dup"
        /\ aliasLock = Nobody
        /\ \/ /\ f \in DOMAIN aliases
              /\ UNCHANGED <<aliases, late>>
           \/ /\ f \notin DOMAIN aliases
              /\ aliases' = With(aliases, f, [raw |-> Attrs[c], bucket |-> target[c]])
              /\ late' = IF target[c] \in Live THEN late ELSE late \cup {c}
        /\ Goto(c, "update")
        /\ UNCHANGED <<canonical, count, touched, content, locks, target, drainVars,
                       overlapped, left>>

\* The update itself, with no lock held.
Update(c) ==
    /\ pc[c] = "update"
    /\ content' = [content EXCEPT ![target[c]] = Updated(c, @)]
    /\ Goto(c, "returned")
    /\ UNCHANGED <<tables, touched, locks, target, drainVars, history>>

-----------------------------------------------------------------------------
(* take, clear, visit_bucket.  All hold the canonical lock to their end.   *)

\* take: the table is replaced by a new one; clear: it is emptied.
EmptyCanonical(d) ==
    /\ Kind[d] \in {"take", "clear"}
    /\ pc[d] = "called"
    /\ canonLock = Nobody
    /\ canonLock' = d
    /\ canonical' = Empty
    /\ taken' = IF Kind[d] = "take" THEN [taken EXCEPT ![d] = canonical] ELSE taken
    /\ left' = IF Kind[d] = "take" THEN left + Cardinality(DOMAIN canonical) ELSE left
    /\ overlapped' = overlapped \cup {c \in Calls : Running(c)}
    /\ Goto(d, "aliases")
    /\ UNCHANGED <<aliases, count, touched, content, aliasLock, target,
                   todo, evicted, point, reported, late>>

\* The alias lock is held to the end as well.  Only clear resets `count`.
EmptyAliases(d) ==
    /\ pc[d] = "aliases"
    /\ aliasLock = Nobody
    /\ aliasLock' = d
    /\ aliases' = Empty
    /\ count' = IF Kind[d] = "clear" THEN 0 ELSE count
    /\ left' = IF Kind[d] = "clear" THEN 0 ELSE left
    /\ Goto(d, IF Kind[d] = "clear" THEN "clear no_attr" ELSE "current")
    /\ UNCHANGED <<canonical, touched, content, canonLock, target, drainVars, overlapped, late>>

TakeCurrent(d) ==
    /\ pc[d] = "current"
    /\ point' = [point EXCEPT ![d] = content[NoAttr]]
    /\ Goto(d, "swap touched")
    /\ UNCHANGED <<tables, touched, content, locks, target,
                   todo, evicted, taken, reported, history>>

TakeSwapTouched(d) ==
    /\ pc[d] = "swap touched"
    /\ reported' = [reported EXCEPT ![d] = touched]
    /\ touched' = FALSE
    /\ Goto(d, "clear no_attr")
    /\ UNCHANGED <<tables, content, locks, target,
                   todo, evicted, taken, point, history>>

\* Where d drops the guards it holds.
Unlock(d) ==
    /\ canonLock' = Nobody
    /\ aliasLock' = IF aliasLock = d THEN Nobody ELSE aliasLock

\* The last step of take; clear and an evicting visit go on to the flag.
ClearNoAttr(d) ==
    /\ pc[d] = "clear no_attr"
    /\ content' = [content EXCEPT ![NoAttr] = {}]
    /\ IF Kind[d] = "take"
       THEN Unlock(d) /\ Goto(d, "returned")
       ELSE UNCHANGED locks /\ Goto(d, "untouch")
    /\ UNCHANGED <<tables, touched, target, drainVars, history>>

Untouch(d) ==
    /\ pc[d] = "untouch"
    /\ touched' = FALSE
    /\ Unlock(d)
    /\ Goto(d, "returned")
    /\ UNCHANGED <<tables, content, target, drainVars, history>>

VisitBegin(d) ==
    /\ Kind[d] = "visit"
    /\ pc[d] = "called"
    /\ canonLock = Nobody
    /\ canonLock' = d
    /\ todo' = [todo EXCEPT ![d] = DOMAIN canonical]
    /\ overlapped' = overlapped \cup {c \in Calls : Running(c)}
    /\ Goto(d, "retain")
    /\ UNCHANGED <<tables, touched, content, aliasLock, target,
                   evicted, taken, point, reported, late, left>>

\* The callback returns true.
VisitKeep(d) ==
    /\ pc[d] = "retain"
    /\ \E k \in todo[d] : todo' = [todo EXCEPT ![d] = @ \ {k}]
    /\ UNCHANGED <<tables, touched, content, locks, pc, target,
                   evicted, taken, point, reported, history>>

\* Seeded defect: eviction leaves the aliases of the entry behind.
VisitEvict_KeepsAliases(d) ==
    /\ pc[d] = "retain"
    /\ \E k \in todo[d] :
        /\ canonical' = Without(canonical, k)
        /\ todo' = [todo EXCEPT ![d] = @ \ {k}]
    /\ evicted' = [evicted EXCEPT ![d] = @ + 1]
    /\ UNCHANGED <<aliases, count, touched, content, locks, pc, target,
                   taken, point, reported, history>>

\* Seeded defect: an evicted entry is visited again.
VisitEvict_KeepsTodo(d) ==
    /\ pc[d] = "retain"
    /\ \E k \in todo[d] : canonical' = Without(canonical, k)
    /\ evicted' = [evicted EXCEPT ![d] = @ + 1]
    /\ UNCHANGED <<aliases, count, touched, content, locks, pc, target,
                   todo, taken, point, reported, history>>

\* The callback returns false: the aliases the entry records are looked up
\* by fingerprint and removed, then the entry goes.
VisitEvict(d) ==
    /\ pc[d] = "retain"
    /\ \E k \in todo[d] :
        LET gone == {Fingerprint(a) : a \in Range(canonical[k].aliases)}
        IN  /\ canonical[k].aliases # <<>> => aliasLock = Nobody
            /\ aliases' = Restrict(aliases, DOMAIN aliases \ gone)
            /\ canonical' = Without(canonical, k)
            /\ todo' = [todo EXCEPT ![d] = @ \ {k}]
    /\ evicted' = [evicted EXCEPT ![d] = @ + 1]
    /\ UNCHANGED <<count, touched, content, locks, pc, target,
                   taken, point, reported, history>>

\* Seeded defect: the evicted entries stay counted.
VisitNoAttr_KeepsCount(d) ==
    /\ pc[d] = "retain"
    /\ todo[d] = {}
    /\ \/ Unlock(d) /\ Goto(d, "returned")
       \/ touched /\ UNCHANGED locks /\ Goto(d, "clear no_attr")
    /\ UNCHANGED <<tables, touched, content, target, drainVars, history>>

\* The no_attr bucket is shown to the callback only if it was touched; an
\* untouched or kept one ends the visit.
VisitNoAttr(d) ==
    /\ pc[d] = "retain"
    /\ todo[d] = {}
    /\ count' = count - evicted[d]
    /\ \/ Unlock(d) /\ Goto(d, "returned")
       \/ touched /\ UNCHANGED locks /\ Goto(d, "clear no_attr")
    /\ UNCHANGED <<canonical, aliases, touched, content, target, drainVars, history>>

-----------------------------------------------------------------------------
CallStep(c) ==
    \/ UpdateNoAttr(c) \/ Touch(c)
    \/ LookupCanon(c) \/ LookupDup(c)
    \/ insert_canon(c) \/ insert_dup(c)
    \/ Update(c)

DrainStep(d) ==
    \/ EmptyCanonical(d) \/ EmptyAliases(d)
    \/ TakeCurrent(d) \/ TakeSwapTouched(d)
    \/ ClearNoAttr(d) \/ Untouch(d)
    \/ VisitBegin(d) \/ VisitKeep(d) \/ VisitEvict(d) \/ VisitNoAttr(d)

Next == \/ \E c \in Calls : CallStep(c)
        \/ \E d \in Drains : DrainStep(d)

Safety == Init /\ [][Next]_vars

\* As long as a thread inside a call can take a step, some thread does.
RunningStep == \/ \E c \in Calls : Running(c) /\ CallStep(c)
               \/ \E d \in Drains : Running(d) /\ DrainStep(d)
Fairness == WF_vars(RunningStep)

Spec == Safety /\ Fairness

-----------------------------------------------------------------------------
(* Properties.                                                             *)

Attributed == {c \in Calls : Attrs[c] # <<>>}
SameSet(c, b) == Range(Attrs[c]) = Range(Attrs[b])

\* An attribute set is one series: no two entries stand for the same set,
\* and a bucket, live or detached, only ever receives calls of the set it
\* was created for, whatever order or repetition a caller lists them in and
\* whichever table it was found through.
OneSeriesPerAttributeSet ==
    /\ \A j, k \in DOMAIN canonical : Range(j) = Range(k) => j = k
    /\ \A b \in Calls : \A c \in content[b] : SameSet(c, b)
    /\ \A c \in content[NoAttr] : Attrs[c] = <<>>

\* The invariant behind it.  A drain that is not done holds the canonical
\* lock; only a visit inside `retain` has entries to visit.
LockInv ==
    /\ \A d \in Drains : pc[d] \notin {"called", "returned"} => canonLock = d
    /\ \A d \in Drains : todo[d] # {} => pc[d] = "retain"

\* Every way to a bucket leads to one of the right set: the key of its entry,
\* the fingerprint of an alias, the Arc a call has got.
SeriesInv ==
    /\ \A k \in DOMAIN canonical : k = Canon(Attrs[canonical[k].bucket])
    /\ \A f \in DOMAIN aliases : DOMAIN f = Range(Attrs[aliases[f].bucket])
    /\ \A c \in Calls : pc[c] \in {"insert_dup", "update"} =>
            target[c] \in Calls /\ SameSet(c, target[c])
    /\ \A b \in Calls : \A c \in content[b] : SameSet(c, b)
    /\ \A c \in content[NoAttr] : Attrs[c] = <<>>

BucketMapInv == TypeOK /\ LockInv /\ SeriesInv

\* Where the value of bucket b shows: in the map, or in a table `take` gave
\* to its caller.
TableAt(p) == IF p = Nobody THEN canonical ELSE taken[p]
Holders(b) == {p \in Drains \cup {Nobody} :
                  \E k \in DOMAIN TableAt(p) : TableAt(p)[k].bucket = b}

\* While there are only adds and buckets are only removed by take, no
\* attributed update that has returned is lost or shown twice: exactly one
\* bucket carries it, and that bucket is in the map or in one drained table.
OnlyAddsAndTakes ==
    /\ \A c \in Calls : pc[c] # "called" => Op[c] = "add"
    /\ \A d \in Drains : pc[d] # "called" => Kind[d] = "take"

AttributedCallsConserved ==
    OnlyAddsAndTakes => \A c \in Attributed : pc[c] = "returned" =>
        \E b \in Calls : /\ {x \in Buckets : c \in content[x]} = {b}
                         /\ Cardinality(Holders(b)) = 1

\* An update that no drain overlapped lands in a bucket that the map still
\* holds, so the next drain shows it; unless some call inserted its alias
\* after its bucket had been detached (insert_dup runs without the
\* canonical lock), which leaves a stale alias behind.
FreshCallsAreLive ==
    \A c \in Attributed :
        pc[c] = "update" /\ c \notin overlapped /\ late = {} => target[c] \in Live

\* An update without attributes that no drain overlapped keeps its bucket
\* flagged until a drain has taken or cleared it.
SettledWritesAreFlagged ==
    \A c \in content[NoAttr] :
        pc[c] = "returned" /\ c \notin overlapped =>
            touched \/ \E d \in Drains : pc[d] = "clear no_attr"

\* The number `len` shows is the size of the table and of those that takes have
\* carried off since the last clear: clear resets it, eviction subtracts
\* from it and take does not touch it, whichever calls insert meanwhile.
CountIsTableSize ==
    canonLock = Nobody => count = Cardinality(DOMAIN canonical) + left

\* No order of the two locks deadlocks: the calls being finitely many, there
\* comes a time when all that have begun have returned.
CallsReturn == <>[](\A x \in Calls \cup Drains : ~Running(x))

\* bucket_map.rs:337-340, debug_assert!(Arc::ptr_eq(..), "inserting a dup"):
\* the alias a call is about to insert, if it is there already, leads to
\* the bucket the call holds.
InsertedDupIsTheSameBucket ==
    \A c \in Calls :
        LET f == Fingerprint(Attrs[c])
        IN  pc[c] = "insert_dup" /\ aliasLock = Nobody /\ f \in DOMAIN aliases
                => aliases[f].bucket = target[c]
=============================================================================
