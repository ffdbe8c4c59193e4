---------------------------- MODULE Registration ---------------------------
(***************************************************************************)
(* How metric sources reach the collectors.  Collection::add               *)
(* (src/collect/mod.rs) holds the registry lock while it hands a source to *)
(* every collector of its tuple; Collector::add of a periodic collector    *)
(* (src/collect/periodic.rs) keeps destructive_ids of its own; a           *)
(* Prometheus collector (src/prometheus/collector.rs) takes any source.    *)
(* The collectors are shared: a clone of one of the tuple may be used      *)
(* directly, at the same time, from another thread.                        *)
(***************************************************************************)
EXTENDS Integers, Sequences, FiniteSets, Functions

CONSTANTS
    Sources,       \* metric handles, each with buckets of its own
    Id, Kind,      \* per source, its identity and its kind (hence its type)
    Collectors,
    Periodic,      \* the periodic ones; the others are Prometheus collectors
    Tuples,        \* the tuples of collectors a collection may be built with
    Calls,         \* calls of add, one element per call
    Src,           \* per call, the source passed
    Via,           \* per call, the collector called, or None: Collection::add
    None

Modes == {"Direct", "Delta", "Destructive"}
Errors == {"DeltaForGauge", "DestructiveWithMultipleCollectors", "ModeMismatch",
           "DuplicateDestructive"}

ASSUME RegistrationAssumption ==
    /\ Periodic \subseteq Collectors
    /\ \A t \in Tuples : t \in Seq(Collectors) /\ t # <<>> /\ IsInjective(t)
    /\ DOMAIN Id = Sources
    /\ Kind \in [Sources -> {"Counter", "Gauge", "Histogram"}]
    /\ Src \in [Calls -> Sources]
    /\ Via \in [Calls -> Collectors \cup {None}]
    /\ None \notin Calls \cup Sources \cup Collectors
    /\ Sources \cap Errors = {}

VARIABLES
    collectors,       \* Collection::collectors, chosen when it is built
    registry,         \* Collection: RegistryKey -> RegistryEntry
    registryLock,     \* the call inside the registry lock, or None
    handles,          \* per collector, the sources it holds, in order
    by,               \* history: the calls that brought them
    destructive_ids,  \* per periodic collector
    pc, mode,         \* per call: the next step; the mode passed
    next,             \* per call, the collector register_all is at
    result            \* per call, what it returned

vars == <<collectors, registry, registryLock, handles, by, destructive_ids, pc, mode,
          next, result>>

RegistryKey(s) == <<Id[s], Kind[s]>>
Handle == [source : Sources, mode : Modes]

TypeOK ==
    /\ collectors \in Tuples
    /\ DOMAIN registry \subseteq {RegistryKey(s) : s \in Sources}
    /\ \A key \in DOMAIN registry : registry[key] \in Handle
    /\ \A k \in Collectors : Range(handles[k]) \subseteq Handle
    /\ \A k \in Collectors : Range(by[k]) \subseteq Calls
    /\ \A k \in Periodic : destructive_ids[k] \subseteq Range(Id)
    /\ pc \in [Calls -> {"called", "register", "send", "returned"}]
    /\ mode \in [Calls -> Modes]
    /\ next \in [Calls -> 1 .. Len(collectors) + 1]
    /\ result \in [Calls -> Sources \cup Errors \cup {None}]
    /\ \A c \in Calls : pc[c] = "register" <=> registryLock = c

Init ==
    /\ collectors \in Tuples
    /\ registry = [key \in {} |-> None]
    /\ registryLock = None
    /\ handles = [k \in Collectors |-> <<>>]
    /\ by = [k \in Collectors |-> <<>>]
    /\ destructive_ids = [k \in Collectors |-> {}]
    /\ pc = [c \in Calls |-> "called"]
    /\ mode \in [Calls -> Modes]
    /\ next = [c \in Calls |-> 1]
    /\ result = [c \in Calls |-> None]

Return(c, r) ==
    /\ pc' = [pc EXCEPT ![c] = "returned"]
    /\ result' = [result EXCEPT ![c] = r]

\* SyncObserver::new refuses a delta of a gauge.
DeltaForGauge(c) == mode[c] = "Delta" /\ Kind[Src[c]] = "Gauge"

Hold(c, k) ==
    /\ handles' = [handles EXCEPT ![k] = Append(@, [source |-> Src[c], mode |-> mode[c]])]
    /\ by' = [by EXCEPT ![k] = Append(@, c)]

-----------------------------------------------------------------------------
(* Collection::add                                                         *)

TooManyCollectors(c) == mode[c] = "Destructive" /\ Len(collectors) # 1

RefuseDestructive(c) ==
    /\ Via[c] = None
    /\ pc[c] = "called"
    /\ TooManyCollectors(c)
    /\ Return(c, "DestructiveWithMultipleCollectors")
    /\ UNCHANGED <<collectors, registry, registryLock, handles, by, destructive_ids, mode, next>>

\* Seeded defect: the registry lock is released after the lookup.
Lookup_Unlocks(c) ==
    /\ Via[c] = None
    /\ pc[c] = "called"
    /\ ~TooManyCollectors(c)
    /\ RegistryKey(Src[c]) \notin DOMAIN registry
    /\ pc' = [pc EXCEPT ![c] = "register"]
    /\ UNCHANGED <<collectors, registry, registryLock, handles, by, destructive_ids, mode, next, result>>

\* Seeded defect: the caller gets back the source it passed.
Lookup_ReturnsOwn(c) ==
    /\ Via[c] = None
    /\ pc[c] = "called"
    /\ ~TooManyCollectors(c)
    /\ registryLock = None
    /\ IF RegistryKey(Src[c]) \in DOMAIN registry
       THEN Return(c, Src[c]) /\ UNCHANGED registryLock
       ELSE /\ registryLock' = c
            /\ pc' = [pc EXCEPT ![c] = "register"]
            /\ UNCHANGED result
    /\ UNCHANGED <<collectors, registry, handles, by, destructive_ids, mode, next>>

\* A key that is registered returns the registered source, or the error if
\* the modes differ.  The key holds the type, so the downcast succeeds.
Lookup(c) ==
    LET key == RegistryKey(Src[c])
    IN  /\ Via[c] = None
        /\ pc[c] = "called"
        /\ ~TooManyCollectors(c)
        /\ registryLock = None
        /\ \/ /\ key \in DOMAIN registry
              /\ Return(c, IF registry[key].mode = mode[c]
                           THEN registry[key].source
                           ELSE "ModeMismatch")
              /\ UNCHANGED registryLock
           \/ /\ key \notin DOMAIN registry
              /\ registryLock' = c
              /\ pc' = [pc EXCEPT ![c] = "register"]
              /\ UNCHANGED result
        /\ UNCHANGED <<collectors, registry, handles, by, destructive_ids, mode, next>>

Refuses(k, c) == k \in Periodic /\ DeltaForGauge(c)

\* register_all: the next collector's add_source.  Its error ends the call;
\* the collectors before it keep the source.
AddSource(c) ==
    /\ pc[c] = "register"
    /\ next[c] <= Len(collectors)
    /\ \/ /\ Refuses(collectors[next[c]], c)
          /\ registryLock' = None
          /\ Return(c, "DeltaForGauge")
          /\ UNCHANGED <<handles, by, next>>
       \/ /\ ~Refuses(collectors[next[c]], c)
          /\ Hold(c, collectors[next[c]])
          /\ next' = [next EXCEPT ![c] = @ + 1]
          /\ UNCHANGED <<registryLock, pc, result>>
    /\ UNCHANGED <<collectors, registry, destructive_ids, mode>>

Insert(c) ==
    LET key == RegistryKey(Src[c])
        entry == [source |-> Src[c], mode |-> mode[c]]
    IN  /\ pc[c] = "register"
        /\ next[c] > Len(collectors)
        /\ registry' = [k \in DOMAIN registry \cup {key} |->
                            IF k = key THEN entry ELSE registry[k]]
        /\ registryLock' = None
        /\ Return(c, Src[c])
        /\ UNCHANGED <<collectors, handles, by, destructive_ids, mode, next>>

-----------------------------------------------------------------------------
(* Collector::add, of either kind                                          *)

\* A Prometheus collector takes any source, any number of times.
AddHandle(c) ==
    /\ Via[c] \in Collectors \ Periodic
    /\ pc[c] = "called"
    /\ Hold(c, Via[c])
    /\ Return(c, Src[c])
    /\ UNCHANGED <<collectors, registry, registryLock, destructive_ids, mode, next>>

\* Seeded defect: the identity is noted when the observer is sent.
Check_NotesLate(c) ==
    /\ Via[c] \in Periodic
    /\ pc[c] = "called"
    /\ ~(mode[c] = "Destructive" /\ \E h \in Range(handles[Via[c]]) :
            h.mode = "Destructive" /\ Id[h.source] = Id[Src[c]])
    /\ pc' = [pc EXCEPT ![c] = "send"]
    /\ UNCHANGED <<collectors, registry, registryLock, handles, by, destructive_ids, mode, next, result>>

\* The observer is built, and a destructive one is noted under its identity.
Check(c) ==
    LET k == Via[c]
        twice == mode[c] = "Destructive" /\ Id[Src[c]] \in destructive_ids[k]
    IN  /\ k \in Periodic
        /\ pc[c] = "called"
        /\ IF DeltaForGauge(c) \/ twice
           THEN /\ Return(c, IF twice THEN "DuplicateDestructive" ELSE "DeltaForGauge")
                /\ UNCHANGED destructive_ids
           ELSE /\ pc' = [pc EXCEPT ![c] = "send"]
                /\ destructive_ids' = IF mode[c] = "Destructive"
                                      THEN [destructive_ids EXCEPT ![k] = @ \cup {Id[Src[c]]}]
                                      ELSE destructive_ids
                /\ UNCHANGED result
        /\ UNCHANGED <<collectors, registry, registryLock, handles, by, mode, next>>

\* add_observer: the worker appends what it receives, in order.
Send(c) ==
    /\ pc[c] = "send"
    /\ Hold(c, Via[c])
    /\ Return(c, Src[c])
    /\ UNCHANGED <<collectors, registry, registryLock, destructive_ids, mode, next>>

Next == \E c \in Calls :
    \/ RefuseDestructive(c) \/ Lookup(c) \/ AddSource(c) \/ Insert(c)
    \/ AddHandle(c) \/ Check(c) \/ Send(c)

Safety == Init /\ [][Next]_vars

-----------------------------------------------------------------------------
(* Properties.                                                             *)

ByCollection == {c \in Calls : Via[c] = None}

\* Whatever the collection returns to a caller is in every collector of the
\* tuple, in the mode asked for: updates of the returned handle are observed,
\* although the caller may have passed another handle of the same identity.
ReturnedSourceIsObserved ==
    \A c \in ByCollection : result[c] \in Sources =>
        \A k \in Range(collectors) :
            [source |-> result[c], mode |-> mode[c]] \in Range(handles[k])

\* Collector k holds one identity and type once.
Once(k) == \A i, j \in DOMAIN handles[k] :
    RegistryKey(handles[k][i].source) = RegistryKey(handles[k][j].source) => i = j

\* A periodic collector used through the collection alone observes one
\* identity and type once, in one mode: no source is counted twice, whichever
\* calls race or fail.
OneObserverPerKey ==
    \A k \in Periodic :
        (\A c \in Calls : Via[c] = k => pc[c] = "called") => Once(k)

\* Two places of collector k have destructive observers of one identity.
TwoDestructive(k, i, j) ==
    /\ i # j
    /\ handles[k][i].mode = "Destructive" /\ handles[k][j].mode = "Destructive"
    /\ Id[handles[k][i].source] = Id[handles[k][j].source]

\* periodic.rs:145-147, "allowing two of them for the same identity would make them
\* race against each other": a collector has two destructive observers of one
\* identity only if one at least came through a collection of this collector alone,
\* where it does happen (add_source does not look at destructive_ids).  Direct
\* calls bring one, and the collection one for each type, whichever calls race.
OneDestructivePerPath ==
    \A k \in Periodic : \A i, j \in DOMAIN handles[k] : TwoDestructive(k, i, j) =>
        /\ collectors = <<k>>
        /\ Via[by[k][i]] = None \/ Via[by[k][j]] = None
        /\ Via[by[k][i]] = None /\ Via[by[k][j]] = None =>
              RegistryKey(handles[k][i].source) # RegistryKey(handles[k][j].source)

\* collect/mod.rs:76, "If one has already been added before, the clone of the
\* previous will be returned": used through the collection alone, no
\* collector of the tuple, of either kind, holds one identity and type twice.
HeldOnceByEach ==
    (\A c \in Calls : Via[c] # None => pc[c] = "called")
        => \A k \in Collectors : Once(k)
=============================================================================
