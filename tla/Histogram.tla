----------------------------- MODULE Histogram -----------------------------
(***************************************************************************)
(* The histogram bucket of src/atomic/histogram.rs over the sequence lock  *)
(* of src/lock.rs: `state` is an ArcSwap<SeqLock<State>>; an update loads  *)
(* it and writes the fields one atomic at a time between an increment of   *)
(* `start` and one of `end`; a snapshot reads the fields one at a time and *)
(* retries unless `start` and `end` agree before and `start` is unmoved    *)
(* after; a take swaps in a new state and then reads the old one.          *)
(*                                                                         *)
(* Every step is one atomic access, and accesses interleave in every order *)
(* (sequential consistency; SeqLockWeak looks at weaker orders).  Each     *)
(* element of Calls is one call made once; a thread that makes several     *)
(* calls is several elements that happen not to overlap.                   *)
(***************************************************************************)
EXTENDS HistogramData

CONSTANTS Reads, Takes, First, NoGen

\* A state allocated by Bucket::take is named after the call of take.
Gens == Takes \cup {First}
Scans == Reads \cup Takes
Calls == Updates \cup Scans

ASSUME CallsAssumption ==
    /\ Updates \cap Scans = {}
    /\ Reads \cap Takes = {}
    /\ First \notin Takes
    /\ NoGen \notin Gens

VARIABLES
    state,    \* Bucket::state, the ArcSwap: the live generation
    start,    \* SeqLock::start, per generation
    end,      \* SeqLock::end, per generation
    inner,    \* SeqLock::inner: per generation and field, the calls applied
    pc,       \* per call, the next atomic access
    ref,      \* per call, the Arc it loaded from `state`
    arg,      \* per update, `value`
    step,     \* per call, the position inside the callback
    e1, s1,   \* per scan, the locals of SeqLock::read
    snap,     \* per scan, the Snapshot under construction, then returned
    settled   \* history: the updates of its generation that had returned
              \* when the scan loaded or swapped `state`

vars == <<state, start, end, inner, pc, ref, arg, step, e1, s1, snap, settled>>
lockVars == <<start, end, inner>>
scanVars == <<e1, s1, snap, settled>>

UpdatePC == {"idle", "start", "write", "end", "done"}
ScanPC == {"idle", "e1", "s1", "read", "s2", "done"}

TypeOK ==
    /\ state \in Gens
    /\ start \in [Gens -> Nat]
    /\ end \in [Gens -> Nat]
    /\ inner \in [Gens -> [Fields -> SUBSET Updates]]
    /\ pc \in [Calls -> UpdatePC \cup ScanPC]
    /\ \A c \in Updates : pc[c] \in UpdatePC
    /\ \A r \in Scans : pc[r] \in ScanPC
    /\ ref \in [Calls -> Gens \cup {NoGen}]
    /\ arg \in [Updates -> Values \cup {NaN}]
    /\ step \in [Calls -> Nat \ {0}]
    /\ e1 \in [Scans -> Nat]
    /\ s1 \in [Scans -> Nat]
    /\ snap \in [Scans -> [Fields -> SUBSET Updates]]
    /\ settled \in [Scans -> SUBSET Updates]

Init ==
    /\ state = First
    /\ start = [g \in Gens |-> 0]
    /\ end = [g \in Gens |-> 0]
    /\ inner = [g \in Gens |-> NewState]
    /\ pc = [c \in Calls |-> "idle"]
    /\ ref = [c \in Calls |-> NoGen]
    /\ arg = [c \in Updates |-> NaN]
    /\ step = [c \in Calls |-> 1]
    /\ e1 = [r \in Scans |-> 0]
    /\ s1 = [r \in Scans |-> 0]
    /\ snap = [r \in Scans |-> NewState]
    /\ settled = [r \in Scans |-> {}]

\* The updates of generation g that are inside SeqLock::write.
Writing(g) == {c \in Updates : ref[c] = g /\ pc[c] \in {"write", "end"}}

\* The updates of generation g that have returned.
Returned(g) == {c \in Updates : ref[c] = g /\ pc[c] = "done"}

-----------------------------------------------------------------------------
(* Seeded defects: the actions below as a plausible slip would write them. *)
(* Each must break a property; none is part of the specification.          *)

\* `end` is decremented.
EndWrite_FetchSub(c) ==
    /\ pc[c] = "end"
    /\ end' = [end EXCEPT ![ref[c]] = @ - 1]
    /\ pc' = [pc EXCEPT ![c] = "done"]
    /\ UNCHANGED <<state, start, inner, ref, arg, step, scanVars>>

\* An early return leaves `end` behind.
EndWrite_Forgotten(c) ==
    /\ pc[c] = "end"
    /\ pc' = [pc EXCEPT ![c] = "done"]
    /\ UNCHANGED <<state, lockVars, ref, arg, step, scanVars>>

\* `start` is not announced.
BeginWrite_Unannounced(c) ==
    /\ pc[c] = "start"
    /\ pc' = [pc EXCEPT ![c] = "write"]
    /\ UNCHANGED <<state, lockVars, ref, arg, step, scanVars>>

\* take reads the state it has just installed.
Swap_ReadsNew(t) ==
    /\ pc[t] = "idle"
    /\ state' = t
    /\ ref' = [ref EXCEPT ![t] = t]
    /\ settled' = [settled EXCEPT ![t] = Returned(state)]
    /\ pc' = [pc EXCEPT ![t] = "e1"]
    /\ UNCHANGED <<lockVars, arg, step, e1, s1, snap>>

\* take loads the state and leaves it in place.
Swap_LoadOnly(t) ==
    /\ pc[t] = "idle"
    /\ ref' = [ref EXCEPT ![t] = state]
    /\ settled' = [settled EXCEPT ![t] = Returned(state)]
    /\ pc' = [pc EXCEPT ![t] = "e1"]
    /\ UNCHANGED <<state, lockVars, arg, step, e1, s1, snap>>

\* The callback runs whether or not a writer is inside.
LoadStart_NoWait(r) ==
    /\ pc[r] = "s1"
    /\ s1' = [s1 EXCEPT ![r] = start[ref[r]]]
    /\ pc' = [pc EXCEPT ![r] = "read"]
    /\ UNCHANGED <<state, lockVars, ref, arg, step, e1, snap, settled>>

\* The snapshot is returned without looking at `start` again.
LoadStartAgain_NoRecheck(r) ==
    /\ pc[r] = "s2"
    /\ pc' = [pc EXCEPT ![r] = "done"]
    /\ step' = [step EXCEPT ![r] = 1]
    /\ e1' = [e1 EXCEPT ![r] = 0]
    /\ s1' = [s1 EXCEPT ![r] = 0]
    /\ UNCHANGED <<state, lockVars, ref, arg, snap, settled>>

-----------------------------------------------------------------------------
(* Bucket::add and Bucket::sub                                             *)

\* A NaN is dropped before anything is loaded.
SkipNaN(c) ==
    /\ pc[c] = "idle"
    /\ pc' = [pc EXCEPT ![c] = "done"]
    /\ UNCHANGED <<state, lockVars, ref, arg, step, scanVars>>

\* self.state.load()
LoadState(c) ==
    /\ pc[c] = "idle"
    /\ \E v \in Values : arg' = [arg EXCEPT ![c] = v]
    /\ ref' = [ref EXCEPT ![c] = state]
    /\ pc' = [pc EXCEPT ![c] = "start"]
    /\ UNCHANGED <<state, lockVars, step, scanVars>>

\* self.start.fetch_add(1)
BeginWrite(c) ==
    /\ pc[c] = "start"
    /\ start' = [start EXCEPT ![ref[c]] = @ + 1]
    /\ pc' = [pc EXCEPT ![c] = "write"]
    /\ UNCHANGED <<state, end, inner, ref, arg, step, scanVars>>

\* The next read-modify-write of the callback.
Apply(c) ==
    /\ pc[c] = "write"
    /\ LET order == WriteOrder(c, arg[c])
       IN  /\ inner' = [inner EXCEPT ![ref[c]][order[step[c]]] = @ \cup {c}]
           /\ IF step[c] < Len(order)
              THEN /\ step' = [step EXCEPT ![c] = @ + 1]
                   /\ UNCHANGED pc
              ELSE /\ pc' = [pc EXCEPT ![c] = "end"]
                   /\ UNCHANGED step
    /\ UNCHANGED <<state, start, end, ref, arg, scanVars>>

\* self.end.fetch_add(1), and the call returns
EndWrite(c) ==
    /\ pc[c] = "end"
    /\ end' = [end EXCEPT ![ref[c]] = @ + 1]
    /\ pc' = [pc EXCEPT ![c] = "done"]
    /\ UNCHANGED <<state, start, inner, ref, arg, step, scanVars>>

Update(c) ==
    SkipNaN(c) \/ LoadState(c) \/ BeginWrite(c) \/ Apply(c) \/ EndWrite(c)

-----------------------------------------------------------------------------
(* Bucket::snapshot and Bucket::take                                       *)

\* self.state.load()
LoadForRead(r) ==
    /\ pc[r] = "idle"
    /\ ref' = [ref EXCEPT ![r] = state]
    /\ settled' = [settled EXCEPT ![r] = Returned(state)]
    /\ pc' = [pc EXCEPT ![r] = "e1"]
    /\ UNCHANGED <<state, lockVars, arg, step, e1, s1, snap>>

\* self.state.swap(new): the new state is the one named t.
Swap(t) ==
    /\ pc[t] = "idle"
    /\ state' = t
    /\ ref' = [ref EXCEPT ![t] = state]
    /\ settled' = [settled EXCEPT ![t] = Returned(state)]
    /\ pc' = [pc EXCEPT ![t] = "e1"]
    /\ UNCHANGED <<lockVars, arg, step, e1, s1, snap>>

LoadEnd(r) ==
    /\ pc[r] = "e1"
    /\ e1' = [e1 EXCEPT ![r] = end[ref[r]]]
    /\ pc' = [pc EXCEPT ![r] = "s1"]
    /\ UNCHANGED <<state, lockVars, ref, arg, step, s1, snap, settled>>

\* Spin while a writer is inside, otherwise run the callback.
LoadStart(r) ==
    /\ pc[r] = "s1"
    /\ IF start[ref[r]] = e1[r]
       THEN /\ s1' = [s1 EXCEPT ![r] = start[ref[r]]]
            /\ pc' = [pc EXCEPT ![r] = "read"]
            /\ UNCHANGED e1
       ELSE /\ pc' = [pc EXCEPT ![r] = "e1"]
            /\ e1' = [e1 EXCEPT ![r] = 0]
            /\ UNCHANGED s1
    /\ UNCHANGED <<state, lockVars, ref, arg, step, snap, settled>>

\* The next load of State::snapshot; min and max are loaded only when the
\* count read first was not zero.
LastRead(s) ==
    IF CountOf(s[count]) = 0 THEN Len(Boundaries) + 3 ELSE ReadLen

ReadField(r) ==
    /\ pc[r] = "read"
    /\ LET f == ReadOrder[step[r]]
           s == [snap[r] EXCEPT ![f] = inner[ref[r]][f]]
       IN  /\ snap' = [snap EXCEPT ![r] = s]
           /\ IF step[r] < LastRead(s)
              THEN /\ step' = [step EXCEPT ![r] = @ + 1]
                   /\ UNCHANGED pc
              ELSE /\ pc' = [pc EXCEPT ![r] = "s2"]
                   /\ UNCHANGED step
    /\ UNCHANGED <<state, lockVars, ref, arg, e1, s1, settled>>

\* Return the snapshot if no writer has begun since s1, otherwise start over.
LoadStartAgain(r) ==
    /\ pc[r] = "s2"
    /\ IF start[ref[r]] = s1[r]
       THEN /\ pc' = [pc EXCEPT ![r] = "done"]
            /\ UNCHANGED snap
       ELSE /\ pc' = [pc EXCEPT ![r] = "e1"]
            /\ snap' = [snap EXCEPT ![r] = NewState]
    /\ step' = [step EXCEPT ![r] = 1]
    /\ e1' = [e1 EXCEPT ![r] = 0]
    /\ s1' = [s1 EXCEPT ![r] = 0]
    /\ UNCHANGED <<state, lockVars, ref, arg, settled>>

Read(r) ==
    LoadEnd(r) \/ LoadStart(r) \/ ReadField(r) \/ LoadStartAgain(r)

-----------------------------------------------------------------------------

Next ==
    \/ \E c \in Updates : Update(c)
    \/ \E r \in Reads : LoadForRead(r) \/ Read(r)
    \/ \E t \in Takes : Swap(t) \/ Read(t)

Safety == Init /\ [][Next]_vars

\* A thread inside a call keeps running: nothing in it blocks.
Fairness ==
    /\ \A c \in Updates : WF_vars(pc[c] # "idle" /\ Update(c))
    /\ \A r \in Scans : WF_vars(Read(r))

Spec == Safety /\ Fairness

-----------------------------------------------------------------------------
(* Properties *)

\* A returned snapshot is the exact image of one set of updates, each of
\* them complete: count, every bucket counter, sum, min and max agree, no
\* update shows in one field and not in another (lock.rs: "a consistent
\* snapshot of `inner` under multiple writers").
ConsistentSnapshot ==
    \A r \in Scans : pc[r] = "done" =>
        /\ snap[r] = SnapshotOf(snap[r][count], arg)
        /\ snap[r][count] \subseteq Returned(ref[r])

\* An update that had returned when a scan loaded or swapped its generation
\* is in what the scan returns: snapshots never go back behind a completed
\* update, and a take loses only updates that overlap it.
SettledUpdatesAreSeen ==
    \A r \in Scans : pc[r] = "done" => settled[r] \subseteq snap[r][count]

\* Draining never reports an update twice: the snapshots of two takes, and
\* the snapshot of a take and the live state, have no update in common.
DrainedOnce ==
    \A t \in Takes : pc[t] = "done" =>
        /\ snap[t][count] \cap inner[state][count] = {}
        /\ \A u \in Takes \ {t} :
              pc[u] = "done" => snap[t][count] \cap snap[u][count] = {}

\* In the numbers a caller sees, the bucket counters add up to the count
\* (modulo the counter width), as the consistent_snapshots test asserts.
BucketsAddUpToCount ==
    \A r \in Scans : pc[r] = "done" =>
        CountOf(snap[r][count]) =
            MapThenSumSet(LAMBDA i : CountOf(snap[r][bucket_counts(i)]), Buckets)
                % Modulus

\* The bucket implements its promise: an update takes effect when it leaves
\* the lock, a scan returns when its second load of `start` succeeds.
Phase(c) == IF pc[c] \in {"idle", "done"} THEN pc[c] ELSE "pinned"

Promise == INSTANCE HistogramSpec WITH
    live <- state,
    log <- [g \in Gens |-> Returned(g)],
    phase <- [c \in Calls |-> Phase(c)],
    Nothing <- NewState,
    result <- [r \in Scans |-> IF pc[r] = "done" THEN snap[r] ELSE NewState]

ImplementsPromise == Promise!Spec

\* Every call returns: a scan spins only while updates are under way, and
\* every update under way finishes.
CallsReturn == \A c \in Calls : pc[c] # "idle" ~> pc[c] = "done"

-----------------------------------------------------------------------------
(* The inductive invariant behind the safety properties *)

\* `start` counts the updates that entered the lock, `end` those that left,
\* so the two agree only when nobody is inside.
CountsInv ==
    \A g \in Gens :
        /\ start[g] = Cardinality(Writing(g) \cup Returned(g))
        /\ end[g] = Cardinality(Returned(g))

\* The fields of generation g show exactly the accesses made so far.
AppliedTo(c, f) ==
    \/ /\ pc[c] = "write"
       /\ \E k \in 1 .. step[c] - 1 : WriteOrder(c, arg[c])[k] = f
    \/ /\ pc[c] \in {"end", "done"}
       /\ Touches(c, arg[c], f)

InnerInv ==
    \A g \in Gens, f \in Fields :
        inner[g][f] = {c \in Updates : ref[c] = g /\ AppliedTo(c, f)}

UpdateInv ==
    \A c \in Updates :
        /\ pc[c] = "idle" => ref[c] = NoGen
        /\ pc[c] \in {"idle", "start"} => step[c] = 1
        /\ pc[c] \in {"start", "write", "end"} => ref[c] \in Gens
        /\ ref[c] \in Gens => arg[c] \in Values
        /\ pc[c] = "write" => step[c] \in DOMAIN WriteOrder(c, arg[c])

ScanInv ==
    \A r \in Scans :
        /\ pc[r] = "idle" => settled[r] = {}
        /\ pc[r] # "idle" => ref[r] \in Gens
        /\ settled[r] \subseteq Returned(ref[r])
        /\ pc[r] \in {"idle", "e1", "s1"} => step[r] = 1 /\ snap[r] = NewState
        /\ pc[r] = "s1" => e1[r] <= end[ref[r]]
        /\ pc[r] \in {"read", "s2"} => s1[r] <= start[ref[r]]
        /\ pc[r] = "read" => step[r] \in 1 .. ReadLen
        /\ pc[r] = "read" /\ step[r] > 1 => step[r] <= LastRead(snap[r])

\* While `start` has not moved since s1 nobody is inside, and what has been
\* read is what the generation holds.
ReadInv ==
    \A r \in Scans :
        pc[r] \in {"read", "s2"} /\ start[ref[r]] = s1[r] =>
            /\ Writing(ref[r]) = {}
            /\ pc[r] = "read" =>
                 \A f \in Fields : snap[r][f] =
                    IF \E k \in 1 .. step[r] - 1 : ReadOrder[k] = f
                    THEN inner[ref[r]][f] ELSE {}
            /\ pc[r] = "s2" => snap[r] = SnapshotOf(Returned(ref[r]), arg)

\* No two takes return the same generation, and none returns the live one.
GensInv ==
    /\ state \in Takes => pc[state] # "idle"
    /\ \A c \in Calls : ref[c] \in Takes => pc[ref[c]] # "idle"
    /\ \A t \in Takes : pc[t] # "idle" =>
          /\ ref[t] # state
          /\ \A u \in Takes \ {t} : pc[u] # "idle" => ref[t] # ref[u]

HistogramInv ==
    /\ TypeOK
    /\ CountsInv
    /\ InnerInv
    /\ UpdateInv
    /\ ScanInv
    /\ ReadInv
    /\ GensInv
    /\ ConsistentSnapshot
    /\ SettledUpdatesAreSeen
=============================================================================
