------------------------- MODULE RegistrationProofs -------------------------
(***************************************************************************)
(* Proofs about Registration: for any tuples of collectors, any handles    *)
(* and any calls, what an add returns is observed, a periodic collector    *)
(* used through its collection observes an identity once, and direct calls *)
(* bring it one destructive observer of an identity, its collection one of *)
(* an identity and type.                                                   *)
(***************************************************************************)
EXTENDS Registration, TLAPS

-----------------------------------------------------------------------------
(* The inductive invariant                                                 *)

Entry(c) == [source |-> Src[c], mode |-> mode[c]]

\* The collectors c has handed its source to so far.
Served(c) == {collectors[i] : i \in 1 .. next[c] - 1}

\* The types, as precise as the proofs need them.
StateInv ==
    /\ TypeOK
    /\ handles \in [Collectors -> Seq(Handle)]
    /\ destructive_ids \in [Collectors -> SUBSET Range(Id)]
    /\ by \in [Collectors -> Seq(Calls)]

\* A handle is the one its call brought: a call of the collection, or one of
\* the collector itself.
ByInv ==
    \A k \in Collectors :
        /\ Len(by[k]) = Len(handles[k])
        /\ \A i \in DOMAIN handles[k] : /\ handles[k][i] = Entry(by[k][i])
                                        /\ Via[by[k][i]] \in {None, k}

\* Who is inside the registry lock: a call of the collection for a key that
\* is not registered, in a mode the collection takes.
LockInv ==
    /\ \A c \in Calls : pc[c] = "called" => next[c] = 1
    /\ \A c \in Calls : pc[c] = "register" =>
           /\ Via[c] = None
           /\ RegistryKey(Src[c]) \notin DOMAIN registry
           /\ ~TooManyCollectors(c)

\* What is registered is in every collector of the tuple, and what is being
\* registered in those served so far; so is what has been returned.
ObservedInv ==
    /\ \A key \in DOMAIN registry : \A k \in Range(collectors) :
           registry[key] \in Range(handles[k])
    /\ \A c \in Calls : pc[c] = "register" =>
           \A k \in Served(c) : Entry(c) \in Range(handles[k])
    /\ ReturnedSourceIsObserved

\* No call has been made to collector k directly.
Untouched(k) == \A c \in Calls : Via[c] = k => pc[c] = "called"

\* The key is registered, or its call has been to collector k.
Known(k, key) ==
    \/ key \in DOMAIN registry
    \/ \E c \in Calls : pc[c] = "register" /\ k \in Served(c) /\ RegistryKey(Src[c]) = key

\* A periodic collector holds what is registered and what is being
\* registered; a call that a periodic collector would refuse has not been
\* served by one.
OnceInv ==
    /\ \A c \in Calls : pc[c] = "register" /\ DeltaForGauge(c)
           => Served(c) \cap Periodic = {}
    /\ \A k \in Periodic : Untouched(k) =>
           /\ Once(k)
           /\ \A h \in Range(handles[k]) : Known(k, RegistryKey(h.source))

\* A destructive observer on its way to k.
Sending(c, k) == pc[c] = "send" /\ Via[c] = k /\ mode[c] = "Destructive"

\* Two destructive observers that came the same way, of one identity if
\* directly, of one identity and type if through the collection.
Clash(c, d) ==
    /\ mode[c] = "Destructive" /\ mode[d] = "Destructive"
    /\ Via[c] = Via[d]
    /\ Id[Src[c]] = Id[Src[d]]
    /\ Via[c] = None => RegistryKey(Src[c]) = RegistryKey(Src[d])

\* The destructive observer that c brought to k is noted under its identity, and no
\* other is on its way; or it came through the collection of k alone, and its
\* key is known.
Noted(k, c) ==
    /\ Via[c] = k
    /\ Id[Src[c]] \in destructive_ids[k]
    /\ \A d \in Calls : Sending(d, k) => Id[Src[d]] # Id[Src[c]]

Shared(k, c) == Via[c] = None /\ collectors = <<k>> /\ Known(k, RegistryKey(Src[c]))

DestructiveOf(k) ==
    /\ \A c \in Calls : Sending(c, k) =>
           /\ Id[Src[c]] \in destructive_ids[k]
           /\ \A d \in Calls : Sending(d, k) /\ Id[Src[d]] = Id[Src[c]] => c = d
    /\ \A i \in DOMAIN by[k] : mode[by[k][i]] = "Destructive" =>
           Noted(k, by[k][i]) \/ Shared(k, by[k][i])
    /\ \A i, j \in DOMAIN by[k] : Clash(by[k][i], by[k][j]) => i = j

DestructiveInv ==
    /\ \A c \in Calls : pc[c] = "send" => Via[c] \in Periodic
    /\ \A k \in Periodic : DestructiveOf(k)

RegistrationInv == StateInv /\ ByInv /\ LockInv /\ ObservedInv /\ OnceInv /\ DestructiveInv

-----------------------------------------------------------------------------
(* Calls, tuples and sequences                                             *)

LEMMA Appended ==
    ASSUME NEW S, NEW s \in Seq(S), NEW e \in S
    PROVE  /\ Append(s, e) \in Seq(S)
           /\ DOMAIN s = 1 .. Len(s)
           /\ Len(s) \in Nat
           /\ DOMAIN Append(s, e) = 1 .. Len(s) + 1
           /\ \A i \in DOMAIN s : Append(s, e)[i] = s[i]
           /\ Append(s, e)[Len(s) + 1] = e
           /\ Range(Append(s, e)) = Range(s) \cup {e}
<1>1. /\ Append(s, e) \in Seq(S)
      /\ DOMAIN s = 1 .. Len(s)
      /\ Len(s) \in Nat
      /\ DOMAIN Append(s, e) = 1 .. Len(s) + 1
      /\ \A i \in DOMAIN s : Append(s, e)[i] = s[i]
      /\ Append(s, e)[Len(s) + 1] = e
  OBVIOUS
<1>2. Range(Append(s, e)) = Range(s) \cup {e}
  BY <1>1 DEF Range
<1> QED
  BY <1>1, <1>2

\* What the assumptions and the types say of a call.
LEMMA CallFacts ==
    ASSUME StateInv, NEW c \in Calls
    PROVE  /\ Src[c] \in Sources
           /\ mode[c] \in Modes
           /\ Entry(c) \in Handle
           /\ Entry(c).source = Src[c] /\ Entry(c).mode = mode[c]
           /\ Id[Src[c]] \in Range(Id)
           /\ RegistryKey(Src[c]) \in {RegistryKey(s) : s \in Sources}
           /\ Via[c] \in Collectors \cup {None}
           /\ c # None
BY RegistrationAssumption DEF StateInv, TypeOK, Entry, Handle, Range

LEMMA TupleFacts ==
    ASSUME StateInv
    PROVE  /\ collectors \in Seq(Collectors)
           /\ Range(collectors) \subseteq Collectors
           /\ DOMAIN collectors = 1 .. Len(collectors)
           /\ Len(collectors) \in Nat \ {0}
           /\ \A i, j \in DOMAIN collectors : collectors[i] = collectors[j] => i = j
<1>1. collectors \in Seq(Collectors) /\ collectors # <<>> /\ IsInjective(collectors)
  BY RegistrationAssumption DEF StateInv, TypeOK
<1> QED
  BY <1>1 DEF Range, IsInjective

\* What add_source and add_observer change: one collector gains one handle.
LEMMA Held ==
    ASSUME StateInv, NEW c \in Calls, NEW k \in Collectors, Hold(c, k)
    PROVE  /\ handles' \in [Collectors -> Seq(Handle)]
           /\ handles'[k] = Append(handles[k], Entry(c))
           /\ Range(handles'[k]) = Range(handles[k]) \cup {Entry(c)}
           /\ \A j \in Collectors : j # k => handles'[j] = handles[j]
           /\ \A j \in Collectors : Range(handles[j]) \subseteq Range(handles'[j])
           /\ by' \in [Collectors -> Seq(Calls)]
           /\ by'[k] = Append(by[k], c)
           /\ \A j \in Collectors : j # k => by'[j] = by[j]
<1>1. /\ handles \in [Collectors -> Seq(Handle)] /\ Entry(c) \in Handle
      /\ by \in [Collectors -> Seq(Calls)]
  BY CallFacts DEF StateInv
<1>2. /\ handles' = [handles EXCEPT ![k] = Append(@, Entry(c))]
      /\ by' = [by EXCEPT ![k] = Append(@, c)]
  BY DEF Hold, Entry
<1>3. /\ Append(handles[k], Entry(c)) \in Seq(Handle)
      /\ Range(Append(handles[k], Entry(c))) = Range(handles[k]) \cup {Entry(c)}
      /\ Append(by[k], c) \in Seq(Calls)
  BY <1>1, Appended
<1> QED
  BY <1>1, <1>2, <1>3

-----------------------------------------------------------------------------
(* Types                                                                   *)

LEMMA InitInv == Init => RegistrationInv
<1> SUFFICES ASSUME Init
             PROVE  RegistrationInv
  OBVIOUS
<1> USE DEF Init
<1>1. StateInv
  <2>1. collectors \in Seq(Collectors) /\ Len(collectors) \in Nat
    BY RegistrationAssumption
  <2>2. \A k \in Collectors : /\ Range(handles[k]) = {} /\ handles[k] \in Seq(Handle)
                             /\ Range(by[k]) = {} /\ by[k] \in Seq(Calls)
    BY DEF Range
  <2> QED
    BY <2>1, <2>2, RegistrationAssumption DEF StateInv, TypeOK
<1>2. LockInv
  BY DEF LockInv
<1>3. ObservedInv
  BY RegistrationAssumption DEF ObservedInv, ReturnedSourceIsObserved, ByCollection
<1>4. OnceInv
  BY RegistrationAssumption DEF OnceInv, Once, Range
<1>5. DestructiveInv
  BY RegistrationAssumption DEF DestructiveInv, DestructiveOf, Sending
<1>6. ByInv
  BY DEF ByInv
<1> QED
  BY <1>1, <1>2, <1>3, <1>4, <1>5, <1>6 DEF RegistrationInv

\* Who is where, and who is inside the registry lock.
Places ==
    /\ pc \in [Calls -> {"called", "register", "send", "returned"}]
    /\ \A c \in Calls : pc[c] = "register" <=> registryLock = c

\* A call that returns releases the registry lock if it had it.
LEMMA Returning ==
    ASSUME StateInv, NEW c \in Calls, NEW r \in Sources \cup Errors, Return(c, r),
           registryLock' = IF pc[c] = "register" THEN None ELSE registryLock
    PROVE  Places' /\ result' \in [Calls -> Sources \cup Errors \cup {None}]
<1>1. /\ pc \in [Calls -> {"called", "register", "send", "returned"}]
      /\ \A d \in Calls : pc[d] = "register" <=> registryLock = d
      /\ result \in [Calls -> Sources \cup Errors \cup {None}]
  BY DEF StateInv, TypeOK
<1>2. pc' = [pc EXCEPT ![c] = "returned"] /\ result' = [result EXCEPT ![c] = r]
  BY DEF Return
<1>3. /\ pc' \in [Calls -> {"called", "register", "send", "returned"}]
      /\ result' \in [Calls -> Sources \cup Errors \cup {None}]
  BY <1>1, <1>2
<1>4. ASSUME NEW d \in Calls
      PROVE  pc'[d] = "register" <=> registryLock' = d
  <2>1. c # None /\ d # None
    BY RegistrationAssumption
  <2>2. CASE d = c
    BY <1>1, <1>2, <2>1, <2>2
  <2>3. CASE d # c
    BY <1>1, <1>2, <2>1, <2>3
  <2> QED
    BY <2>2, <2>3
<1> QED
  BY <1>3, <1>4 DEF Places

LEMMA StateStep == RegistrationInv /\ Next => StateInv'
<1> SUFFICES ASSUME RegistrationInv, NEW c \in Calls,
                    \/ RefuseDestructive(c) \/ Lookup(c) \/ AddSource(c) \/ Insert(c)
                    \/ AddHandle(c) \/ Check(c) \/ Send(c)
             PROVE  StateInv'
  BY DEF Next
<1>1. StateInv /\ TypeOK /\ LockInv
  BY DEF RegistrationInv, StateInv
<1>2. /\ Src[c] \in Sources /\ Id[Src[c]] \in Range(Id) /\ mode[c] \in Modes
      /\ Entry(c) \in Handle /\ c # None
      /\ RegistryKey(Src[c]) \in {RegistryKey(s) : s \in Sources}
  BY <1>1, CallFacts
<1>3. collectors \in Seq(Collectors) /\ Len(collectors) \in Nat
  BY <1>1, TupleFacts
<1>4. ASSUME NEW k \in Collectors, Hold(c, k),
             UNCHANGED <<collectors, registry, mode>>,
             destructive_ids' = destructive_ids
      PROVE  /\ handles' \in [Collectors -> Seq(Handle)]
             /\ \A j \in Collectors : Range(handles'[j]) \subseteq Handle
             /\ by' \in [Collectors -> Seq(Calls)]
             /\ \A j \in Collectors : Range(by'[j]) \subseteq Calls
  <2>1. handles' \in [Collectors -> Seq(Handle)] /\ by' \in [Collectors -> Seq(Calls)]
    BY <1>1, <1>4, Held
  <2>2. \A j \in Collectors : handles'[j] \in Seq(Handle) /\ by'[j] \in Seq(Calls)
    BY <2>1
  <2> QED
    BY <2>1, <2>2 DEF Range
<1>5. ASSUME NEW r \in Sources \cup Errors, Return(c, r),
             registryLock' = IF pc[c] = "register" THEN None ELSE registryLock
      PROVE  Places' /\ result' \in [Calls -> Sources \cup Errors \cup {None}]
  BY <1>1, <1>5, Returning
<1> USE DEF StateInv, TypeOK
<1>6. CASE RefuseDestructive(c)
  <2>1. Places' /\ result' \in [Calls -> Sources \cup Errors \cup {None}]
    BY <1>5, <1>6 DEF RefuseDestructive, Errors
  <2> QED
    BY <1>1, <1>6, <2>1 DEF RefuseDestructive, Places
<1>7. CASE Lookup(c)
  <2>1. Places' /\ result' \in [Calls -> Sources \cup Errors \cup {None}]
    <3>1. CASE RegistryKey(Src[c]) \in DOMAIN registry
      <4>1. registry[RegistryKey(Src[c])].source \in Sources
        BY <1>1, <3>1 DEF Handle
      <4>2. \E r \in Sources \cup Errors : Return(c, r)
        BY <1>7, <3>1, <4>1 DEF Lookup, Errors
      <4> QED
        BY <1>5, <1>7, <3>1, <4>2 DEF Lookup
    <3>2. CASE RegistryKey(Src[c]) \notin DOMAIN registry
      <4>1. pc[c] = "called" /\ registryLock = None /\ registryLock' = c
            /\ pc' = [pc EXCEPT ![c] = "register"] /\ result' = result
        BY <1>7, <3>2 DEF Lookup
      <4>2. \A d \in Calls : pc[d] # "register"
        BY <1>1, <4>1, RegistrationAssumption
      <4>3. pc' \in [Calls -> {"called", "register", "send", "returned"}]
        BY <1>1, <4>1
      <4>4. \A d \in Calls : pc'[d] = "register" <=> registryLock' = d
        BY <1>1, <4>1, <4>2
      <4> QED
        BY <1>1, <4>1, <4>3, <4>4 DEF Places
    <3> QED
      BY <3>1, <3>2
  <2> QED
    BY <1>1, <1>7, <2>1 DEF Lookup, Places
<1>8. CASE AddSource(c)
  <2>1. pc[c] = "register" /\ next[c] <= Len(collectors) /\ next[c] \in 1 .. Len(collectors) + 1
    BY <1>1, <1>8 DEF AddSource
  <2>2. collectors[next[c]] \in Collectors
    BY <1>3, <2>1
  <2>3. CASE Refuses(collectors[next[c]], c)
    <3>1. Places' /\ result' \in [Calls -> Sources \cup Errors \cup {None}]
      BY <1>5, <1>8, <2>1, <2>3 DEF AddSource, Errors
    <3> QED
      BY <1>1, <1>8, <2>3, <3>1 DEF AddSource, Places
  <2>4. CASE ~Refuses(collectors[next[c]], c)
    <3>1. /\ Hold(c, collectors[next[c]])
          /\ next' = [next EXCEPT ![c] = @ + 1]
          /\ UNCHANGED <<collectors, registry, registryLock, destructive_ids, pc, mode, result>>
      BY <1>8, <2>4 DEF AddSource
    <3>2. next[c] + 1 \in 1 .. Len(collectors) + 1
      BY <1>3, <2>1
    <3>3. next' \in [Calls -> 1 .. Len(collectors) + 1]
      BY <1>1, <3>1, <3>2
    <3>4. /\ handles' \in [Collectors -> Seq(Handle)]
          /\ \A j \in Collectors : Range(handles'[j]) \subseteq Handle
          /\ by' \in [Collectors -> Seq(Calls)]
          /\ \A j \in Collectors : Range(by'[j]) \subseteq Calls
      BY <1>4, <2>2, <3>1
    <3> QED
      BY <1>1, <3>1, <3>3, <3>4
  <2> QED
    BY <2>3, <2>4
<1>9. CASE Insert(c)
  <2>1. /\ DOMAIN registry' = DOMAIN registry \cup {RegistryKey(Src[c])}
        /\ \A key \in DOMAIN registry' : registry'[key] \in Handle
    BY <1>1, <1>2, <1>9 DEF Insert, Entry
  <2>2. Places' /\ result' \in [Calls -> Sources \cup Errors \cup {None}]
    BY <1>2, <1>5, <1>9 DEF Insert
  <2>3. UNCHANGED <<collectors, handles, by, destructive_ids, mode, next>>
    BY <1>9 DEF Insert
  <2> QED
    BY <1>1, <1>2, <2>1, <2>2, <2>3 DEF Places
<1>10. CASE AddHandle(c)
  <2>1. /\ Via[c] \in Collectors /\ Hold(c, Via[c])
        /\ UNCHANGED <<collectors, registry, registryLock, destructive_ids, mode, next>>
    BY <1>10 DEF AddHandle
  <2>2. Places' /\ result' \in [Calls -> Sources \cup Errors \cup {None}]
    BY <1>2, <1>5, <1>10 DEF AddHandle
  <2>3. /\ handles' \in [Collectors -> Seq(Handle)]
        /\ \A j \in Collectors : Range(handles'[j]) \subseteq Handle
        /\ by' \in [Collectors -> Seq(Calls)]
        /\ \A j \in Collectors : Range(by'[j]) \subseteq Calls
    BY <1>4, <2>1
  <2> QED
    BY <1>1, <2>1, <2>2, <2>3 DEF Places
<1>11. CASE Check(c)
  <2>1. Via[c] \in Periodic /\ Via[c] \in Collectors /\ pc[c] = "called"
    BY <1>11, RegistrationAssumption DEF Check
  <2>2. /\ destructive_ids' \in [Collectors -> SUBSET Range(Id)]
        /\ UNCHANGED <<collectors, registry, registryLock, handles, by, mode, next>>
    <3>1. \/ destructive_ids' = destructive_ids
          \/ destructive_ids' = [destructive_ids EXCEPT ![Via[c]] = @ \cup {Id[Src[c]]}]
      BY <1>11 DEF Check
    <3>2. UNCHANGED <<collectors, registry, registryLock, handles, by, mode, next>>
      BY <1>11 DEF Check
    <3>3. destructive_ids' \in [Collectors -> SUBSET Range(Id)]
      <4>1. destructive_ids \in [Collectors -> SUBSET Range(Id)]
        BY <1>1
      <4>2. destructive_ids[Via[c]] \cup {Id[Src[c]]} \in SUBSET Range(Id)
        BY <4>1, <2>1, <1>2
      <4> QED
        BY <3>1, <4>1, <4>2
    <3> QED
      BY <3>2, <3>3
  <2>3. \A k \in Periodic : destructive_ids'[k] \subseteq Range(Id)
    BY <2>2, RegistrationAssumption
  <2>4. Places' /\ result' \in [Calls -> Sources \cup Errors \cup {None}]
    <3>1. CASE \E r \in Sources \cup Errors : Return(c, r)
      BY <1>5, <2>1, <2>2, <3>1
    <3>2. CASE pc' = [pc EXCEPT ![c] = "send"] /\ UNCHANGED result
      <4>1. /\ pc' \in [Calls -> {"called", "register", "send", "returned"}]
            /\ \A d \in Calls : pc'[d] = "register" <=> pc[d] = "register"
        BY <1>1, <2>1, <3>2
      <4> QED
        BY <1>1, <2>2, <3>2, <4>1 DEF Places
    <3> QED
      BY <1>11, <3>1, <3>2 DEF Check, Errors
  <2> QED
    BY <1>1, <2>2, <2>3, <2>4 DEF Places
<1>12. CASE Send(c)
  <2>1. /\ Via[c] \in Collectors /\ Hold(c, Via[c])
        /\ UNCHANGED <<collectors, registry, registryLock, destructive_ids, mode, next>>
    <3>1. Via[c] \in Periodic
      BY <1>12 DEF Send, RegistrationInv, DestructiveInv
    <3> QED
      BY <1>12, <3>1, RegistrationAssumption DEF Send
  <2>2. Places' /\ result' \in [Calls -> Sources \cup Errors \cup {None}]
    BY <1>2, <1>5, <1>12 DEF Send
  <2>3. /\ handles' \in [Collectors -> Seq(Handle)]
        /\ \A j \in Collectors : Range(handles'[j]) \subseteq Handle
        /\ by' \in [Collectors -> Seq(Calls)]
        /\ \A j \in Collectors : Range(by'[j]) \subseteq Calls
    BY <1>4, <2>1
  <2> QED
    BY <1>1, <2>1, <2>2, <2>3 DEF Places
<1> QED
  BY <1>6, <1>7, <1>8, <1>9, <1>10, <1>11, <1>12

\* The steps of one call.
Step(c) ==
    \/ RefuseDestructive(c) \/ Lookup(c) \/ AddSource(c) \/ Insert(c)
    \/ AddHandle(c) \/ Check(c) \/ Send(c)

\* A step is of one call, moves no other, and takes no handle away.
LEMMA StepFacts ==
    ASSUME RegistrationInv, NEW c \in Calls, Step(c)
    PROVE  /\ collectors' = collectors /\ mode' = mode
           /\ \A d \in Calls : d # c => /\ pc'[d] = pc[d] /\ next'[d] = next[d]
                                        /\ result'[d] = result[d]
           /\ pc'[c] # "called" /\ pc[c] # "returned"
           /\ \A k \in Collectors : Range(handles[k]) \subseteq Range(handles'[k])
<1>1. StateInv /\ TypeOK
  BY DEF RegistrationInv, StateInv
<1>2. ASSUME NEW k \in Collectors, Hold(c, k)
      PROVE  \A j \in Collectors : Range(handles[j]) \subseteq Range(handles'[j])
  BY <1>1, <1>2, Held
<1>3. \A k \in Collectors : Range(handles[k]) \subseteq Range(handles'[k])
  <2>1. CASE AddSource(c)
    <3>1. CASE Refuses(collectors[next[c]], c)
      BY <2>1, <3>1 DEF AddSource
    <3>2. CASE ~Refuses(collectors[next[c]], c)
      <4>1. Hold(c, collectors[next[c]]) /\ next[c] <= Len(collectors)
        BY <2>1, <3>2 DEF AddSource
      <4>2. next[c] \in 1 .. Len(collectors) + 1 /\ Len(collectors) \in Nat
        BY <1>1, TupleFacts DEF TypeOK
      <4>3. collectors[next[c]] \in Collectors
        BY <1>1, <4>1, <4>2, TupleFacts
      <4> QED
        BY <1>2, <4>1, <4>3
    <3> QED
      BY <3>1, <3>2
  <2>2. CASE AddHandle(c) \/ Send(c)
    <3>1. Via[c] \in Collectors
      BY <2>2, RegistrationAssumption DEF AddHandle, Send, RegistrationInv, DestructiveInv
    <3> QED
      BY <1>2, <2>2, <3>1 DEF AddHandle, Send
  <2>3. CASE handles' = handles
    BY <2>3
  <2> QED
    BY <2>1, <2>2, <2>3 DEF Step, RefuseDestructive, Lookup, Insert, Check
<1>4. pc' = [pc EXCEPT ![c] = pc'[c]] /\ next' = [next EXCEPT ![c] = next'[c]]
      /\ result' = [result EXCEPT ![c] = result'[c]]
  BY <1>1 DEF TypeOK, Step, RefuseDestructive, Lookup, AddSource, Insert, AddHandle, Check,
     Send, Return
<1>5. pc'[c] # "called" /\ pc[c] # "returned"
  BY <1>1 DEF TypeOK, Step, RefuseDestructive, Lookup, AddSource, Insert, AddHandle, Check,
     Send, Return
<1>6. collectors' = collectors /\ mode' = mode
  BY DEF Step, RefuseDestructive, Lookup, AddSource, Insert, AddHandle, Check, Send
<1>7. DOMAIN pc = Calls /\ DOMAIN next = Calls /\ DOMAIN result = Calls
  BY <1>1 DEF TypeOK
<1> QED
  BY <1>3, <1>4, <1>5, <1>6, <1>7

LEMMA LockStep ==
    ASSUME RegistrationInv, NEW c \in Calls, Step(c)
    PROVE  LockInv'
<1>1. TypeOK /\ LockInv
  BY DEF RegistrationInv, StateInv
<1>2. ASSUME NEW d \in Calls, pc'[d] = "called"
      PROVE  next'[d] = 1
  BY <1>1, <1>2, StepFacts DEF LockInv
<1>3. ASSUME NEW d \in Calls, pc'[d] = "register"
      PROVE  /\ Via[d] = None
             /\ RegistryKey(Src[d]) \notin DOMAIN registry'
             /\ ~TooManyCollectors(d)'
  <2> USE <1>3 DEF TypeOK, LockInv, TooManyCollectors
  <2>1. CASE RefuseDestructive(c)
    BY <1>1, <2>1 DEF RefuseDestructive, Return
  <2>2. CASE Lookup(c)
    BY <1>1, <2>2 DEF Lookup, Return
  <2>3. CASE AddSource(c)
    BY <1>1, <2>3 DEF AddSource, Return
  <2>4. CASE Insert(c)
    BY <1>1, <2>4 DEF Insert, Return
  <2>5. CASE AddHandle(c)
    BY <1>1, <2>5 DEF AddHandle, Return
  <2>6. CASE Check(c)
    BY <1>1, <2>6 DEF Check, Return
  <2>7. CASE Send(c)
    BY <1>1, <2>7 DEF Send, Return
  <2> QED
    BY <2>1, <2>2, <2>3, <2>4, <2>5, <2>6, <2>7 DEF Step
<1> QED
  BY <1>2, <1>3 DEF LockInv

-----------------------------------------------------------------------------
(* What is returned is observed                                            *)

\* The call inside the registry lock has been to the collectors before the
\* next one, and each step of register_all adds that one.
LEMMA ServedFacts ==
    ASSUME RegistrationInv, NEW c \in Calls, Step(c)
    PROVE  /\ \A d \in Calls : Served(d) \subseteq Range(collectors)
           /\ \A d \in Calls : Served(d) \subseteq Served(d)'
           /\ \A d \in Calls : pc'[d] = "register" /\ pc[d] # "register" => Served(d)' = {}
           /\ \A d \in Calls : pc'[d] = "register" /\ pc[d] = "register" =>
                 \/ Served(d)' = Served(d)
                 \/ /\ d = c
                    /\ ~Refuses(collectors[next[c]], c)
                    /\ next[c] \in DOMAIN collectors
                    /\ Hold(c, collectors[next[c]])
                    /\ registry' = registry
                    /\ Served(c)' = Served(c) \cup {collectors[next[c]]}
<1>1. StateInv /\ TypeOK /\ LockInv
  BY DEF RegistrationInv, StateInv
<1>2. /\ collectors \in Seq(Collectors) /\ Len(collectors) \in Nat
      /\ DOMAIN collectors = 1 .. Len(collectors)
      /\ \A d \in Calls : next[d] \in 1 .. Len(collectors) + 1
  BY <1>1, TupleFacts DEF TypeOK
<1>3. \A d \in Calls : Served(d) \subseteq Range(collectors)
  BY <1>2 DEF Served, Range
<1>4. collectors' = collectors
      /\ \A d \in Calls : d # c => pc'[d] = pc[d] /\ next'[d] = next[d]
  BY StepFacts
<1>5. CASE AddSource(c) /\ ~Refuses(collectors[next[c]], c)
  <2>1. /\ pc[c] = "register" /\ pc' = pc /\ next[c] \in DOMAIN collectors
        /\ Hold(c, collectors[next[c]]) /\ registry' = registry
        /\ next'[c] = next[c] + 1
    BY <1>1, <1>2, <1>5 DEF AddSource, TypeOK
  <2>2. Served(c)' = {collectors[i] : i \in 1 .. next[c]}
    BY <1>2, <1>4, <2>1 DEF Served
  <2>3. Served(c)' = Served(c) \cup {collectors[next[c]]}
    <3>1. 1 .. next[c] = 1 .. (next[c] - 1) \cup {next[c]}
      BY <1>2
    <3> QED
      BY <2>2, <3>1 DEF Served
  <2>4. \A d \in Calls : d # c => Served(d)' = Served(d)
    BY <1>4 DEF Served
  <2> QED
    BY <1>3, <1>5, <2>1, <2>3, <2>4
<1>6. CASE ~(AddSource(c) /\ ~Refuses(collectors[next[c]], c))
  <2>1. next' = next
    BY <1>6 DEF Step, RefuseDestructive, Lookup, AddSource, Insert, AddHandle, Check, Send
  <2>2. \A d \in Calls : Served(d)' = Served(d)
    BY <1>4, <2>1 DEF Served
  <2>3. ASSUME NEW d \in Calls, pc'[d] = "register", pc[d] # "register"
        PROVE  Served(d)' = {}
    <3>1. d = c /\ pc[c] = "called"
      BY <1>1, <1>4, <2>3 DEF TypeOK, Step, RefuseDestructive, Lookup, AddSource, Insert,
         AddHandle, Check, Send, Return
    <3>2. next[d] = 1
      BY <1>1, <3>1 DEF LockInv
    <3>3. Served(d) = {collectors[i] : i \in {}}
      BY <3>2 DEF Served
    <3> QED
      BY <2>2, <3>3
  <2> QED
    BY <1>3, <2>2, <2>3
<1> QED
  BY <1>5, <1>6

\* What brings a handle to k: add_source of a call that has not been to k, or
\* the second step of a direct call.
FromCollection(c, k) ==
    /\ Via[c] = None
    /\ pc[c] = "register" /\ pc'[c] = "register" /\ registry' = registry
    /\ k \in Range(collectors) /\ k \notin Served(c) /\ k \in Served(c)'
    /\ ~Refuses(k, c)

FromCaller(c, k) == Via[c] = k /\ (k \in Periodic => pc[c] = "send") /\ pc'[c] = "returned"

LEMMA Holding ==
    ASSUME RegistrationInv, NEW c \in Calls, Step(c)
    PROVE  \/ UNCHANGED <<handles, by>>
           \/ \E k \in Collectors : /\ Hold(c, k) /\ destructive_ids' = destructive_ids
                                    /\ FromCollection(c, k) \/ FromCaller(c, k)
<1>1. StateInv /\ TypeOK /\ LockInv
  BY DEF RegistrationInv, StateInv
<1>2. CASE AddSource(c) /\ ~Refuses(collectors[next[c]], c)
  <2> DEFINE k == collectors[next[c]]
  <2>1. /\ pc[c] = "register" /\ pc' = pc /\ registry' = registry
        /\ Hold(c, k) /\ destructive_ids' = destructive_ids
        /\ next[c] <= Len(collectors)
        /\ next'[c] = next[c] + 1 /\ collectors' = collectors
    BY <1>1, <1>2 DEF AddSource, TypeOK
  <2>2. /\ Len(collectors) \in Nat /\ DOMAIN collectors = 1 .. Len(collectors)
        /\ next[c] \in DOMAIN collectors
        /\ \A m, n \in DOMAIN collectors : collectors[m] = collectors[n] => m = n
    BY <1>1, <2>1, TupleFacts DEF TypeOK
  <2>3. k \in Range(collectors) /\ k \in Collectors
    BY <1>1, <2>2, TupleFacts DEF Range
  <2>4. k \notin Served(c)
    <3>1. \A i \in 1 .. next[c] - 1 : i \in DOMAIN collectors /\ i # next[c]
      BY <2>2
    <3> QED
      BY <2>2, <3>1 DEF Served
  <2>5. k \in Served(c)'
    <3>1. next[c] \in 1 .. next'[c] - 1
      BY <2>1, <2>2
    <3> QED
      BY <2>1, <3>1 DEF Served
  <2>6. Via[c] = None
    BY <1>1, <2>1 DEF LockInv
  <2>7. FromCollection(c, k)
    BY <1>2, <2>1, <2>3, <2>4, <2>5, <2>6 DEF FromCollection
  <2> QED
    BY <2>1, <2>3, <2>7
<1>3. CASE AddHandle(c)
  <2>1. Via[c] \in Collectors /\ Hold(c, Via[c]) /\ destructive_ids' = destructive_ids
        /\ FromCaller(c, Via[c])
    BY <1>1, <1>3 DEF AddHandle, FromCaller, Return, TypeOK
  <2> QED
    BY <2>1
<1>4. CASE Send(c)
  <2>1. Via[c] \in Collectors
    BY <1>4, RegistrationAssumption DEF Send, RegistrationInv, DestructiveInv
  <2>2. Hold(c, Via[c]) /\ destructive_ids' = destructive_ids /\ FromCaller(c, Via[c])
    BY <1>1, <1>4 DEF Send, FromCaller, Return, TypeOK
  <2> QED
    BY <2>1, <2>2
<1>5. CASE ~(AddSource(c) /\ ~Refuses(collectors[next[c]], c)) /\ ~AddHandle(c) /\ ~Send(c)
  BY <1>5 DEF Step, RefuseDestructive, Lookup, AddSource, Insert, Check
<1> QED
  BY <1>2, <1>3, <1>4, <1>5

\* The calls and the handles of a collector grow together.
LEMMA Lengthened ==
    ASSUME StateInv, ByInv, NEW c \in Calls, NEW k \in Collectors, Hold(c, k)
    PROVE  /\ DOMAIN handles[k] = DOMAIN by[k]
           /\ DOMAIN by[k] = 1 .. Len(by[k]) /\ Len(by[k]) \in Nat
           /\ Len(by'[k]) = Len(handles'[k])
           /\ DOMAIN by'[k] = 1 .. Len(by[k]) + 1
           /\ DOMAIN handles'[k] = 1 .. Len(by[k]) + 1
           /\ \A i \in DOMAIN by[k] : by'[k][i] = by[k][i] /\ handles'[k][i] = handles[k][i]
           /\ by'[k][Len(by[k]) + 1] = c /\ handles'[k][Len(by[k]) + 1] = Entry(c)
<1>1. /\ handles[k] \in Seq(Handle) /\ by[k] \in Seq(Calls) /\ Entry(c) \in Handle
      /\ Len(by[k]) = Len(handles[k])
  BY CallFacts DEF StateInv, ByInv
<1>2. handles'[k] = Append(handles[k], Entry(c)) /\ by'[k] = Append(by[k], c)
  BY Held
<1> QED
  BY <1>1, <1>2

LEMMA ByStep ==
    ASSUME RegistrationInv, NEW c \in Calls, Step(c)
    PROVE  ByInv'
<1>1. StateInv /\ ByInv
  BY DEF RegistrationInv
<1>2. \A d \in Calls : Entry(d)' = Entry(d)
  BY StepFacts DEF Entry
<1>3. ASSUME NEW j \in Collectors, by'[j] = by[j], handles'[j] = handles[j]
      PROVE  /\ Len(by'[j]) = Len(handles'[j])
             /\ \A i \in DOMAIN handles'[j] : /\ handles'[j][i] = Entry(by[j][i])'
                                              /\ Via[by'[j][i]] \in {None, j}
  <2>1. \A i \in DOMAIN handles[j] : by[j][i] \in Calls
    <3>1. by[j] \in Seq(Calls) /\ handles[j] \in Seq(Handle) /\ Len(by[j]) = Len(handles[j])
      BY <1>1 DEF StateInv, ByInv
    <3> QED
      BY <3>1
  <2>2. /\ Len(by[j]) = Len(handles[j])
        /\ \A i \in DOMAIN handles[j] : /\ handles[j][i] = Entry(by[j][i])
                                        /\ Via[by[j][i]] \in {None, j}
    BY <1>1 DEF ByInv
  <2>3. ASSUME NEW i \in DOMAIN handles[j]
        PROVE  handles'[j][i] = Entry(by[j][i])'
    BY <1>2, <1>3, <2>1, <2>2 DEF Entry
  <2> QED
    BY <1>3, <2>2, <2>3
<1>4. CASE UNCHANGED <<handles, by>>
  BY <1>3, <1>4 DEF ByInv
<1>5. ASSUME NEW k \in Collectors, Hold(c, k), FromCollection(c, k) \/ FromCaller(c, k)
      PROVE  ByInv'
  <2>1. Via[c] \in {None, k}
    BY <1>5 DEF FromCollection, FromCaller
  <2>2. \A j \in Collectors : j # k => by'[j] = by[j] /\ handles'[j] = handles[j]
    BY <1>1, <1>5, Held
  <2>3. /\ Len(by'[k]) = Len(handles'[k])
        /\ \A i \in DOMAIN handles'[k] : /\ handles'[k][i] = Entry(by[k][i])'
                                         /\ Via[by'[k][i]] \in {None, k}
    <3>1. /\ DOMAIN handles[k] = 1 .. Len(by[k]) /\ Len(by[k]) \in Nat
          /\ Len(by'[k]) = Len(handles'[k])
          /\ DOMAIN handles'[k] = 1 .. Len(by[k]) + 1
          /\ \A i \in 1 .. Len(by[k]) : by'[k][i] = by[k][i] /\ handles'[k][i] = handles[k][i]
          /\ by'[k][Len(by[k]) + 1] = c /\ handles'[k][Len(by[k]) + 1] = Entry(c)
      BY <1>1, <1>5, Lengthened
    <3>2. ASSUME NEW i \in 1 .. Len(by[k])
          PROVE  handles'[k][i] = Entry(by[k][i])' /\ Via[by'[k][i]] \in {None, k}
      <4>1. by[k][i] \in Calls
        BY <1>1, <3>1 DEF StateInv
      <4>2. handles[k][i] = Entry(by[k][i]) /\ Via[by[k][i]] \in {None, k}
        BY <1>1, <3>1 DEF ByInv
      <4> QED
        BY <1>2, <3>1, <4>1, <4>2 DEF Entry
    <3>3. ASSUME NEW i, i = Len(by[k]) + 1
          PROVE  handles'[k][i] = Entry(by[k][i])' /\ Via[by'[k][i]] \in {None, k}
      BY <1>2, <2>1, <3>1, <3>3 DEF Entry
    <3>4. \A i \in DOMAIN handles'[k] : i \in 1 .. Len(by[k]) \/ i = Len(by[k]) + 1
      BY <3>1
    <3> QED
      BY <2>1, <3>1, <3>2, <3>3, <3>4
  <2>4. \A j \in Collectors :
           /\ Len(by'[j]) = Len(handles'[j])
           /\ \A i \in DOMAIN handles'[j] : /\ handles'[j][i] = Entry(by[j][i])'
                                            /\ Via[by'[j][i]] \in {None, j}
    BY <1>3, <2>2, <2>3
  <2> QED
    BY <2>4 DEF ByInv
<1> QED
  BY <1>4, <1>5, Holding

\* A key known to a periodic collector stays known: its call inserts it, unless
\* a collector refuses, and then it has not been to a periodic one.
LEMMA KnownStays ==
    ASSUME RegistrationInv, NEW c \in Calls, Step(c), NEW k \in Periodic, NEW key, Known(k, key)
    PROVE  Known(k, key)'
<1>1. TypeOK /\ OnceInv
  BY DEF RegistrationInv, StateInv
<1>2. CASE key \in DOMAIN registry
  <2>1. DOMAIN registry \subseteq DOMAIN registry'
    BY DEF Step, RefuseDestructive, Lookup, AddSource, Insert, AddHandle, Check, Send
  <2> QED
    BY <1>2, <2>1 DEF Known
<1>3. ASSUME NEW d \in Calls, pc[d] = "register", k \in Served(d), RegistryKey(Src[d]) = key
      PROVE  Known(k, key)'
  <2>1. CASE pc'[d] = "register"
    <3>1. k \in Served(d)'
      BY <1>3, ServedFacts, Zenon
    <3> QED
      BY <1>3, <2>1, <3>1 DEF Known
  <2>2. CASE pc'[d] # "register"
    <3>1. d = c
      BY <1>3, <2>2, StepFacts
    <3>2. CASE Insert(c)
      <4>1. RegistryKey(Src[c]) \in DOMAIN registry'
        BY <3>2 DEF Insert
      <4> QED
        BY <1>3, <3>1, <4>1 DEF Known
    <3>3. CASE AddSource(c)
      <4>1. DeltaForGauge(c)
        BY <1>1, <1>3, <2>2, <3>1, <3>3 DEF AddSource, Refuses, TypeOK
      <4> QED
        BY <1>1, <1>3, <3>1, <4>1 DEF OnceInv
    <3> QED
      BY <1>3, <3>1, <3>2, <3>3
         DEF Step, RefuseDestructive, Lookup, AddHandle, Check, Send, RegistrationInv, LockInv
  <2> QED
    BY <2>1, <2>2
<1> QED
  BY <1>2, <1>3 DEF Known

\* A call that comes to k through the collection brings a key k does not know,
\* and leaves it known.
LEMMA NewKey ==
    ASSUME RegistrationInv, NEW c \in Calls, Step(c), NEW k \in Collectors,
           FromCollection(c, k)
    PROVE  ~Known(k, RegistryKey(Src[c])) /\ Known(k, RegistryKey(Src[c]))'
<1>1. /\ pc[c] = "register" /\ pc'[c] = "register"
      /\ k \notin Served(c) /\ k \in Served(c)'
  BY DEF FromCollection
<1>2. RegistryKey(Src[c]) \notin DOMAIN registry
  BY <1>1 DEF RegistrationInv, LockInv
<1>3. \A d \in Calls : pc[d] = "register" => d = c
  BY <1>1 DEF RegistrationInv, StateInv, TypeOK
<1> QED
  BY <1>1, <1>2, <1>3 DEF Known

LEMMA ObservedStep ==
    ASSUME RegistrationInv, NEW c \in Calls, Step(c)
    PROVE  ObservedInv'
<1>1. StateInv /\ TypeOK /\ LockInv /\ ObservedInv
  BY DEF RegistrationInv, StateInv
<1>2. /\ collectors' = collectors /\ mode' = mode
      /\ \A d \in Calls : d # c => pc'[d] = pc[d] /\ result'[d] = result[d]
      /\ \A k \in Collectors : Range(handles[k]) \subseteq Range(handles'[k])
      /\ \A d \in Calls : Entry(d)' = Entry(d)
  BY StepFacts DEF Entry
<1>3. Range(collectors) \subseteq Collectors
  BY <1>1, TupleFacts
<1>4. CASE Insert(c)
  <2>1. \A k \in Range(collectors) : Entry(c) \in Range(handles[k])
    <3>1. /\ Len(collectors) \in Nat /\ DOMAIN collectors = 1 .. Len(collectors)
          /\ next[c] \in 1 .. Len(collectors) + 1 /\ next[c] > Len(collectors)
          /\ pc[c] = "register"
      BY <1>1, <1>4, TupleFacts DEF TypeOK, Insert
    <3>2. Served(c) = Range(collectors)
      BY <3>1 DEF Served, Range
    <3> QED
      BY <1>1, <3>1, <3>2 DEF ObservedInv
  <2>2. handles' = handles /\ result' = [result EXCEPT ![c] = Src[c]]
        /\ registry' = [k \in DOMAIN registry \cup {RegistryKey(Src[c])} |->
                            IF k = RegistryKey(Src[c]) THEN Entry(c) ELSE registry[k]]
    BY <1>4 DEF Insert, Return, Entry
  <2>3. \A key \in DOMAIN registry' : \A k \in Range(collectors) :
            registry'[key] \in Range(handles'[k])
    BY <1>1, <2>1, <2>2 DEF ObservedInv
  <2>4. Entry(c) = [source |-> Src[c], mode |-> mode[c]] /\ result'[c] = Src[c]
    BY <1>1, <2>2 DEF TypeOK, Entry
  <2>5. ReturnedSourceIsObserved'
    BY <1>1, <1>2, <2>1, <2>2, <2>4 DEF ReturnedSourceIsObserved, ObservedInv
  <2>6. ASSUME NEW d \in Calls, pc'[d] = "register"
        PROVE  \A k \in Served(d)' : Entry(d)' \in Range(handles'[k])
    <3>1. next' = next /\ pc'[c] = "returned"
      BY <1>1, <1>4 DEF Insert, Return, TypeOK
    <3>2. d # c /\ Served(d)' = Served(d)
      BY <1>2, <2>6, <3>1 DEF Served
    <3> QED
      BY <1>1, <1>2, <2>2, <2>6, <3>2 DEF ObservedInv
  <2> QED
    BY <1>2, <2>3, <2>5, <2>6 DEF ObservedInv
<1>5. CASE ~Insert(c)
  <2>1. registry' = registry
    BY <1>5 DEF Step, RefuseDestructive, Lookup, AddSource, Insert, AddHandle, Check, Send
  <2>2. \A key \in DOMAIN registry' : \A k \in Range(collectors) :
            registry'[key] \in Range(handles'[k])
    BY <1>1, <1>2, <1>3, <2>1 DEF ObservedInv
  <2>3. ASSUME NEW d \in Calls, pc'[d] = "register", NEW k \in Served(d)'
        PROVE  Entry(d) \in Range(handles'[k])
    <3>1. CASE pc[d] = "register" /\ k \in Served(d)
      <4>1. k \in Collectors
        BY <1>3, <3>1, ServedFacts, Zenon
      <4>2. Entry(d) \in Range(handles[k])
        BY <1>1, <3>1 DEF ObservedInv
      <4> QED
        BY <1>2, <1>3, <4>1, <4>2
    <3>2. CASE ~(pc[d] = "register" /\ k \in Served(d))
      <4>1. /\ d = c /\ k = collectors[next[c]] /\ Hold(c, k)
            /\ next[c] \in DOMAIN collectors
        BY <2>3, <3>2, ServedFacts
      <4>2. k \in Collectors
        BY <1>3, <4>1 DEF Range
      <4>3. StateInv /\ Hold(c, k)
        BY <1>1, <4>1, Zenon
      <4>4. Entry(c) \in Range(handles'[k])
        <5>1. Range(handles'[k]) = Range(handles[k]) \cup {Entry(c)}
          BY <4>2, <4>3, Held, Zenon
        <5> QED
          BY <5>1
      <4> QED
        BY <4>1, <4>4
    <3> QED
      BY <3>1, <3>2
  <2>4. ASSUME NEW d \in ByCollection, result'[d] \in Sources, NEW k \in Range(collectors)
        PROVE  [source |-> result'[d], mode |-> mode[d]] \in Range(handles'[k])
    <3>1. d \in Calls /\ Via[d] = None
      BY DEF ByCollection
    <3>2. CASE result'[d] = result[d]
      BY <1>1, <1>2, <1>3, <2>4, <3>2 DEF ObservedInv, ReturnedSourceIsObserved
    <3>3. CASE result'[d] # result[d]
      <4> DEFINE key == RegistryKey(Src[d])
      <4>1. d = c
        BY <1>2, <3>1, <3>3
      <4>2. result'[d] \notin Errors
        BY <2>4, RegistrationAssumption
      <4>3. Lookup(d)
        <5>1. ~RefuseDestructive(c)
          BY <1>1, <4>1, <4>2 DEF RefuseDestructive, Return, TypeOK, Errors
        <5>2. ~AddSource(c)
          BY <1>1, <3>3, <4>1, <4>2 DEF AddSource, Return, TypeOK, Errors
        <5>3. ~AddHandle(c) /\ ~Check(c) /\ ~Send(c)
          BY <3>1, <4>1, RegistrationAssumption
             DEF AddHandle, Check, Send, RegistrationInv, DestructiveInv
        <5> QED
          BY <1>5, <4>1, <5>1, <5>2, <5>3 DEF Step
      <4>4. key \in DOMAIN registry /\ registry[key].mode = mode[d]
            /\ result'[d] = registry[key].source
        BY <1>1, <3>1, <3>3, <4>2, <4>3 DEF Lookup, Return, TypeOK, Errors
      <4>5. registry[key] \in Handle /\ registry[key] \in Range(handles[k])
        BY <1>1, <2>4, <4>4 DEF TypeOK, ObservedInv
      <4>6. registry[key] = [source |-> result'[d], mode |-> mode[d]]
        BY <4>4, <4>5 DEF Handle
      <4> QED
        BY <1>2, <1>3, <4>5, <4>6
    <3> QED
      BY <3>2, <3>3
  <2>5. ReturnedSourceIsObserved'
    BY <1>2, <2>4 DEF ReturnedSourceIsObserved, ByCollection
  <2> QED
    BY <1>2, <2>2, <2>3, <2>5 DEF ObservedInv
<1> QED
  BY <1>4, <1>5

-----------------------------------------------------------------------------
(* Used through its collection, a periodic collector holds an identity once *)

LEMMA OnceStep ==
    ASSUME RegistrationInv, NEW c \in Calls, Step(c)
    PROVE  OnceInv'
<1>1. StateInv /\ TypeOK /\ LockInv /\ OnceInv
  BY DEF RegistrationInv, StateInv
<1>2. /\ collectors' = collectors /\ mode' = mode
      /\ \A d \in Calls : d # c => pc'[d] = pc[d]
      /\ pc'[c] # "called"
      /\ \A d \in Calls : Served(d) \subseteq Served(d)'
  BY StepFacts, ServedFacts
<1>3. Range(collectors) \subseteq Collectors /\ Periodic \subseteq Collectors
  BY <1>1, TupleFacts, RegistrationAssumption
<1>4. \A d \in Calls : pc[d] = "register" => Via[d] = None /\ registryLock = d
  BY <1>1 DEF LockInv, TypeOK
<1>5. ASSUME NEW d \in Calls, pc'[d] = "register", DeltaForGauge(d)'
      PROVE  Served(d)' \cap Periodic = {}
  <2>1. DeltaForGauge(d)
    BY <1>2, <1>5 DEF DeltaForGauge
  <2>2. CASE pc[d] = "register" /\ Served(d)' # Served(d)
    <3>1. d = c /\ ~Refuses(collectors[next[c]], c)
          /\ Served(d)' = Served(d) \cup {collectors[next[c]]}
      BY <1>5, <2>2, ServedFacts
    <3>2. collectors[next[c]] \notin Periodic
      BY <2>1, <3>1 DEF Refuses
    <3> QED
      BY <1>1, <2>1, <2>2, <3>1, <3>2 DEF OnceInv
  <2>3. CASE pc[d] = "register" /\ Served(d)' = Served(d)
    BY <1>1, <2>1, <2>3 DEF OnceInv
  <2>4. CASE pc[d] # "register"
    BY <1>5, <2>4, ServedFacts
  <2> QED
    BY <2>2, <2>3, <2>4
<1>6. ASSUME NEW k \in Periodic, Untouched(k)'
      PROVE  /\ Once(k)'
             /\ \A h \in Range(handles'[k]) : Known(k, RegistryKey(h.source))'
  <2>1. Untouched(k) /\ Via[c] # k /\ k \in Collectors
    BY <1>1, <1>2, <1>3, <1>6, StepFacts DEF Untouched, TypeOK
  <2>2. Once(k) /\ \A h \in Range(handles[k]) : Known(k, RegistryKey(h.source))
    BY <1>1, <2>1 DEF OnceInv
  <2>3. \A h \in Range(handles[k]) : Known(k, RegistryKey(h.source))'
    BY <2>2, KnownStays
  <2>4. CASE handles'[k] = handles[k]
    BY <2>2, <2>3, <2>4 DEF Once
  <2>5. CASE handles'[k] # handles[k]
    <3>1. Hold(c, k) /\ FromCollection(c, k)
      <4>1. PICK j \in Collectors : Hold(c, j) /\ (FromCollection(c, j) \/ FromCaller(c, j))
        BY <2>5, Holding
      <4>2. j = k
        BY <1>1, <2>1, <2>5, <4>1, Held
      <4> QED
        BY <2>1, <4>1, <4>2 DEF FromCaller
    <3>2. \A h \in Range(handles[k]) : RegistryKey(h.source) # RegistryKey(Src[c])
      BY <2>1, <2>2, <3>1, NewKey
    <3>3. /\ handles[k] \in Seq(Handle) /\ Entry(c) \in Handle /\ Entry(c).source = Src[c]
          /\ handles'[k] = Append(handles[k], Entry(c))
          /\ Range(handles'[k]) = Range(handles[k]) \cup {Entry(c)}
      BY <1>1, <2>1, <3>1, Held, CallFacts DEF StateInv
    <3>4. Once(k)'
      <4>1. /\ DOMAIN handles[k] = 1 .. Len(handles[k]) /\ Len(handles[k]) \in Nat
            /\ DOMAIN handles'[k] = 1 .. Len(handles[k]) + 1
            /\ \A i \in DOMAIN handles[k] : handles'[k][i] = handles[k][i]
            /\ handles'[k][Len(handles[k]) + 1] = Entry(c)
        BY <3>3, Appended
      <4>2. \A i \in DOMAIN handles[k] :
               RegistryKey(handles[k][i].source) # RegistryKey(Src[c])
        BY <3>2 DEF Range
      <4>3. \A i, j \in DOMAIN handles[k] :
               RegistryKey(handles[k][i].source) = RegistryKey(handles[k][j].source) => i = j
        BY <2>2 DEF Once
      <4>4. ASSUME NEW i \in DOMAIN handles'[k], NEW j \in DOMAIN handles'[k],
                   RegistryKey(handles'[k][i].source) = RegistryKey(handles'[k][j].source)
            PROVE  i = j
        BY <3>3, <4>1, <4>2, <4>3, <4>4
      <4> QED
        BY <4>4 DEF Once
    <3>5. Known(k, RegistryKey(Src[c]))'
      BY <2>1, <3>1, NewKey
    <3>6. ASSUME NEW h, h = Entry(c)
          PROVE  Known(k, RegistryKey(h.source))'
      BY <3>3, <3>5, <3>6
    <3> QED
      BY <2>3, <3>3, <3>4, <3>6
  <2> QED
    BY <2>4, <2>5
<1> QED
  BY <1>5, <1>6 DEF OnceInv

-----------------------------------------------------------------------------
(* Destructive observers of one identity                                   *)

\* The sendings of k: a call that Check lets through is noted under an identity
\* that was not; the others stay or go.
LEMMA SendingStep ==
    ASSUME RegistrationInv, NEW c \in Calls, Step(c), NEW k \in Periodic
    PROVE  /\ destructive_ids[k] \subseteq destructive_ids'[k]
           /\ \A d \in Calls : Sending(d, k)' =>
                 \/ Sending(d, k) /\ (d = c => ~FromCaller(c, k))
                 \/ d = c /\ Id[Src[c]] \notin destructive_ids[k]
                          /\ Id[Src[c]] \in destructive_ids'[k]
<1>1. TypeOK /\ StateInv /\ k \in Collectors
  BY RegistrationAssumption DEF RegistrationInv, StateInv
<1>2. mode' = mode /\ \A d \in Calls : d # c => pc'[d] = pc[d]
  BY StepFacts
<1>3. pc'[c] = "send" => Check(c)
  BY <1>1 DEF TypeOK, Step, RefuseDestructive, Lookup, AddSource, Insert, AddHandle, Check,
     Send, Return, RegistrationInv, LockInv
<1>4. CASE ~Check(c)
  <2>1. destructive_ids' = destructive_ids
    BY <1>4 DEF Step, RefuseDestructive, Lookup, AddSource, Insert, AddHandle, Send
  <2>2. \A d \in Calls : Sending(d, k)' => Sending(d, k) /\ d # c
    BY <1>2, <1>3, <1>4 DEF Sending
  <2> QED
    BY <2>1, <2>2
<1>5. CASE Check(c)
  <2>1. destructive_ids[k] \subseteq destructive_ids'[k]
    BY <1>1, <1>5 DEF Check, StateInv
  <2>2. ASSUME Sending(c, k)'
        PROVE  Id[Src[c]] \notin destructive_ids[k] /\ Id[Src[c]] \in destructive_ids'[k]
    <3>1. /\ mode[c] = "Destructive" /\ Via[c] = k
          /\ Id[Src[c]] \notin destructive_ids[k]
          /\ destructive_ids' = [destructive_ids EXCEPT ![k] = @ \cup {Id[Src[c]]}]
      BY <1>1, <1>2, <1>5, <2>2 DEF Check, Sending, Return, TypeOK
    <3> QED
      BY <1>1, <3>1 DEF StateInv
  <2>3. \A d \in Calls : d # c => (Sending(d, k)' <=> Sending(d, k))
    BY <1>2 DEF Sending
  <2> QED
    BY <2>1, <2>2, <2>3
<1> QED
  BY <1>4, <1>5

\* What is noted or shared stays so.
LEMMA PlaceStays ==
    ASSUME RegistrationInv, NEW c \in Calls, Step(c), NEW k \in Periodic, NEW b \in Calls,
           Noted(k, b) \/ Shared(k, b)
    PROVE  Noted(k, b)' \/ Shared(k, b)'
<1>1. CASE Noted(k, b)
  <2>1. Id[Src[b]] \in destructive_ids'[k]
    BY <1>1, SendingStep DEF Noted
  <2>2. ASSUME NEW d \in Calls, Sending(d, k)'
        PROVE  Id[Src[d]] # Id[Src[b]]
    BY <1>1, <2>2, SendingStep DEF Noted
  <2> QED
    BY <1>1, <2>1, <2>2 DEF Noted
<1>2. CASE Shared(k, b)
  <2>1. Known(k, RegistryKey(Src[b]))'
    BY <1>2, KnownStays DEF Shared
  <2> QED
    BY <1>2, <2>1, StepFacts DEF Shared
<1> QED
  BY <1>1, <1>2

\* A destructive observer that comes to k clashes with none it has.
LEMMA Arrives ==
    ASSUME RegistrationInv, NEW c \in Calls, Step(c), NEW k \in Periodic,
           FromCollection(c, k) \/ FromCaller(c, k), mode[c] = "Destructive"
    PROVE  /\ Noted(k, c)' \/ Shared(k, c)'
           /\ \A b \in Calls : Noted(k, b) \/ Shared(k, b) => ~Clash(b, c)
<1>1. k \in Collectors /\ None \notin Collectors /\ StateInv /\ DestructiveOf(k)
  BY RegistrationAssumption DEF RegistrationInv, DestructiveInv
<1>2. CASE FromCollection(c, k)
  <2>1. ~Known(k, RegistryKey(Src[c])) /\ Known(k, RegistryKey(Src[c]))'
    BY <1>1, <1>2, NewKey
  <2>2. collectors' = <<k>>
    <3>1. Len(collectors) = 1
      BY <1>2 DEF FromCollection, RegistrationInv, LockInv, TooManyCollectors
    <3>2. collectors \in Seq(Collectors) /\ k \in Range(collectors)
      BY <1>1, <1>2, TupleFacts DEF FromCollection
    <3>3. collectors = <<k>>
      BY <3>1, <3>2 DEF Range
    <3> QED
      BY <3>3, StepFacts
  <2>3. Via[c] = None
    BY <1>2 DEF FromCollection
  <2>4. \A b \in Calls : Noted(k, b) \/ Shared(k, b) => ~Clash(b, c)
    BY <1>1, <2>1, <2>3 DEF Noted, Shared, Clash
  <2> QED
    BY <2>1, <2>2, <2>3, <2>4 DEF Shared
<1>3. CASE FromCaller(c, k)
  <2>1. Sending(c, k) /\ Via[c] = k
    BY <1>3 DEF FromCaller, Sending
  <2>2. Id[Src[c]] \in destructive_ids[k]
    BY <1>1, <2>1 DEF DestructiveOf
  <2>3. Id[Src[c]] \in destructive_ids'[k]
    BY <2>2, SendingStep
  <2>4. ASSUME NEW d \in Calls, Sending(d, k)'
        PROVE  Id[Src[d]] # Id[Src[c]]
    <3>1. Sending(d, k) /\ d # c
      <4>1. ~Sending(c, k)'
        BY <1>3 DEF FromCaller, Sending
      <4> QED
        BY <2>4, <4>1, SendingStep
    <3> QED
      BY <1>1, <2>1, <3>1 DEF DestructiveOf
  <2>5. \A b \in Calls : Noted(k, b) \/ Shared(k, b) => ~Clash(b, c)
    BY <1>1, <2>1 DEF Noted, Shared, Clash
  <2> QED
    BY <2>1, <2>3, <2>4, <2>5 DEF Noted
<1> QED
  BY <1>2, <1>3

LEMMA DestructiveStep ==
    ASSUME RegistrationInv, NEW c \in Calls, Step(c)
    PROVE  DestructiveInv'
<1>1. StateInv /\ ByInv /\ TypeOK /\ DestructiveInv
  BY DEF RegistrationInv, StateInv
<1>2. /\ mode' = mode
      /\ \A d \in Calls : d # c => pc'[d] = pc[d]
  BY StepFacts
<1>3. \A d \in Calls : pc'[d] = "send" => Via[d] \in Periodic
  <2>1. pc'[c] = "send" => Check(c)
    BY <1>1 DEF TypeOK, Step, RefuseDestructive, Lookup, AddSource, Insert, AddHandle, Check,
       Send, Return, RegistrationInv, LockInv
  <2> QED
    BY <1>1, <1>2, <2>1 DEF DestructiveInv, Check
<1>4. ASSUME NEW k \in Periodic
      PROVE  DestructiveOf(k)'
  <2>1. DestructiveOf(k) /\ k \in Collectors /\ by[k] \in Seq(Calls)
    BY <1>1, RegistrationAssumption DEF DestructiveInv, StateInv
  <2>2. ASSUME NEW d \in Calls, Sending(d, k)'
        PROVE  /\ Id[Src[d]] \in destructive_ids'[k]
               /\ \A e \in Calls : Sending(e, k)' /\ Id[Src[e]] = Id[Src[d]] => d = e
    BY <2>1, <2>2, SendingStep DEF DestructiveOf
  <2>3. ASSUME NEW i \in DOMAIN by[k], NEW b, b = by[k][i], mode[b] = "Destructive"
        PROVE  Noted(k, b)' \/ Shared(k, b)'
    <3>1. b \in Calls
      BY <2>1, <2>3
    <3>2. Noted(k, b) \/ Shared(k, b)
      BY <2>1, <2>3 DEF DestructiveOf
    <3> QED
      BY <3>1, <3>2, PlaceStays
  <2>4. CASE by'[k] = by[k]
    <3>1. \A i \in DOMAIN by'[k] : mode'[by'[k][i]] = "Destructive" =>
             (Noted(k, by[k][i]) \/ Shared(k, by[k][i]))'
      BY <1>2, <2>3, <2>4 DEF Noted, Shared
    <3>2. \A i, j \in DOMAIN by'[k] : Clash(by[k][i], by[k][j])' => i = j
      BY <1>2, <2>1, <2>4 DEF DestructiveOf, Clash
    <3> QED
      BY <2>2, <3>1, <3>2 DEF DestructiveOf
  <2>5. CASE by'[k] # by[k]
    <3>1. Hold(c, k) /\ (FromCollection(c, k) \/ FromCaller(c, k))
      <4>1. PICK j \in Collectors : Hold(c, j) /\ (FromCollection(c, j) \/ FromCaller(c, j))
        BY <2>5, Holding
      <4>2. j = k
        BY <1>1, <2>1, <2>5, <4>1, Held
      <4> QED
        BY <4>1, <4>2
    <3> DEFINE n == Len(by[k]) + 1
    <3>2. /\ DOMAIN by[k] = 1 .. Len(by[k]) /\ Len(by[k]) \in Nat
          /\ DOMAIN by'[k] = 1 .. n
          /\ \A i \in DOMAIN by[k] : by'[k][i] = by[k][i]
          /\ by'[k][n] = c
      BY <1>1, <2>1, <3>1, Lengthened
    <3>3. \A i \in DOMAIN by'[k] : i \in DOMAIN by[k] \/ i = n
      BY <3>2
    <3>4. n \notin DOMAIN by[k]
      BY <3>2
    <3>5. mode[c] = "Destructive" =>
             /\ Noted(k, c)' \/ Shared(k, c)'
             /\ \A b \in Calls : Noted(k, b) \/ Shared(k, b) => ~Clash(b, c)
      BY <3>1, Arrives
    <3>6. ASSUME NEW i \in DOMAIN by'[k], mode'[by'[k][i]] = "Destructive"
          PROVE  (Noted(k, by[k][i]) \/ Shared(k, by[k][i]))'
      <4>1. CASE i \in DOMAIN by[k]
        <5>1. by'[k][i] = by[k][i] /\ mode[by[k][i]] = "Destructive"
          BY <1>2, <3>2, <3>6, <4>1
        <5> QED
          BY <2>3, <4>1, <5>1 DEF Noted, Shared
      <4>2. CASE i = n
        <5>1. by'[k][i] = c /\ mode[c] = "Destructive"
          BY <1>2, <3>2, <3>6, <4>2
        <5> QED
          BY <3>5, <5>1 DEF Noted, Shared
      <4> QED
        BY <3>3, <4>1, <4>2
    <3>7. ASSUME NEW i \in DOMAIN by[k]
          PROVE  ~Clash(by[k][i], c) /\ ~Clash(c, by[k][i])
      <4>1. by[k][i] \in Calls
        BY <2>1
      <4>2. mode[by[k][i]] = "Destructive" => Noted(k, by[k][i]) \/ Shared(k, by[k][i])
        BY <2>1 DEF DestructiveOf
      <4>3. ~Clash(by[k][i], c)
        BY <3>5, <4>1, <4>2 DEF Clash
      <4> QED
        BY <4>3 DEF Clash
    <3>8. ASSUME NEW i \in DOMAIN by'[k], NEW j \in DOMAIN by'[k],
                 Clash(by[k][i], by[k][j])'
          PROVE  i = j
      <4>1. Clash(by'[k][i], by'[k][j])
        BY <1>2, <3>8 DEF Clash
      <4>2. CASE i \in DOMAIN by[k] /\ j \in DOMAIN by[k]
        BY <2>1, <3>2, <4>1, <4>2 DEF DestructiveOf
      <4>3. CASE i = n /\ j \in DOMAIN by[k]
        BY <3>2, <3>7, <4>1, <4>3
      <4>4. CASE i \in DOMAIN by[k] /\ j = n
        BY <3>2, <3>7, <4>1, <4>4
      <4> QED
        BY <3>3, <4>2, <4>3, <4>4
    <3> QED
      BY <2>2, <3>6, <3>8 DEF DestructiveOf
  <2> QED
    BY <2>4, <2>5
<1> QED
  BY <1>3, <1>4 DEF DestructiveInv

-----------------------------------------------------------------------------
(* The theorems                                                            *)

LEMMA StutterInv == RegistrationInv /\ UNCHANGED vars => RegistrationInv'
<1> SUFFICES ASSUME RegistrationInv, UNCHANGED vars
             PROVE  RegistrationInv'
  OBVIOUS
<1> USE DEF vars
<1>1. StateInv'
  BY DEF RegistrationInv, StateInv, TypeOK
<1>2. LockInv'
  BY DEF RegistrationInv, LockInv, TooManyCollectors
<1>3. ObservedInv'
  BY DEF RegistrationInv, ObservedInv, ReturnedSourceIsObserved, Served, Entry
<1>4. OnceInv'
  BY DEF RegistrationInv, OnceInv, Once, Untouched, Known, Served, DeltaForGauge
<1>5. DestructiveInv'
  BY DEF RegistrationInv, DestructiveInv, DestructiveOf, Sending, Clash, Noted, Shared,
     Known, Served
<1>6. ByInv'
  BY DEF RegistrationInv, ByInv, Entry
<1> QED
  BY <1>1, <1>2, <1>3, <1>4, <1>5, <1>6 DEF RegistrationInv

\* The invariant that ties the registry (collect/mod.rs:76-137), the handles
\* of the collectors and destructive_ids (periodic.rs:223-250) together is inductive.
THEOREM Invariance == Safety => []RegistrationInv
<1>1. ASSUME RegistrationInv, Next
      PROVE  RegistrationInv'
  <2>1. PICK c \in Calls : Step(c)
    BY <1>1 DEF Next, Step
  <2> QED
    BY <1>1, <2>1, StateStep, ByStep, LockStep, ObservedStep, OnceStep, DestructiveStep
       DEF RegistrationInv
<1> QED
  BY InitInv, <1>1, StutterInv, PTL DEF Safety

\* The registry, the collectors and the calls keep their types.
THEOREM TypeCorrect == Safety => []TypeOK
<1>1. RegistrationInv => TypeOK
  BY DEF RegistrationInv, StateInv
<1> QED
  BY Invariance, <1>1, PTL

\* For any tuples, handles and calls, a handle that Collection::add returns is
\* held by every collector of the tuple in the mode asked for.
THEOREM ReturnedObserved == Safety => []ReturnedSourceIsObserved
<1>1. RegistrationInv => ReturnedSourceIsObserved
  BY DEF RegistrationInv, ObservedInv
<1> QED
  BY Invariance, <1>1, PTL

\* A periodic collector that is used through its collection alone holds an
\* identity and type once, although register_all may fail half-way.
THEOREM OncePerKey == Safety => []OneObserverPerKey
<1>1. RegistrationInv => OneObserverPerKey
  BY DEF RegistrationInv, OnceInv, Untouched, OneObserverPerKey
<1> QED
  BY Invariance, <1>1, PTL

\* However direct calls and calls of collections race, two destructive observers
\* of one identity in a periodic collector came one directly and one through a
\* collection of this collector alone, or both through it with two types.
THEOREM OneDestructiveOfEachPath == Safety => []OneDestructivePerPath
<1>1. ASSUME RegistrationInv
      PROVE  OneDestructivePerPath
  <2> SUFFICES ASSUME NEW k \in Periodic, NEW i \in DOMAIN handles[k],
                      NEW j \in DOMAIN handles[k], TwoDestructive(k, i, j)
               PROVE  /\ collectors = <<k>>
                      /\ Via[by[k][i]] = None \/ Via[by[k][j]] = None
                      /\ Via[by[k][i]] = None /\ Via[by[k][j]] = None =>
                            RegistryKey(handles[k][i].source) # RegistryKey(handles[k][j].source)
    BY DEF OneDestructivePerPath
  <2> DEFINE b == by[k][i]
             d == by[k][j]
  <2>1. StateInv /\ ByInv /\ k \in Collectors /\ DestructiveOf(k) /\ None # k
    BY <1>1, RegistrationAssumption DEF RegistrationInv, DestructiveInv
  <2>2. /\ i \in DOMAIN by[k] /\ j \in DOMAIN by[k]
        /\ handles[k][i] = Entry(b) /\ handles[k][j] = Entry(d)
        /\ Via[b] \in {None, k} /\ Via[d] \in {None, k}
    <3>1. /\ handles[k] \in Seq(Handle) /\ by[k] \in Seq(Calls)
          /\ Len(by[k]) = Len(handles[k])
      BY <2>1 DEF StateInv, ByInv
    <3> QED
      BY <2>1, <3>1 DEF ByInv
  <2>3. /\ i # j /\ mode[b] = "Destructive" /\ mode[d] = "Destructive"
        /\ Id[Src[b]] = Id[Src[d]]
        /\ handles[k][i].source = Src[b] /\ handles[k][j].source = Src[d]
    BY <2>2 DEF TwoDestructive, Entry
  <2>4. (Noted(k, b) \/ Shared(k, b)) /\ (Noted(k, d) \/ Shared(k, d)) /\ ~Clash(b, d)
    BY <2>1, <2>2, <2>3 DEF DestructiveOf
  <2> QED
    BY <2>1, <2>2, <2>3, <2>4 DEF Noted, Shared, Clash
<1> QED
  BY Invariance, <1>1, PTL
=============================================================================
