---------------------------- MODULE SeqLockWeak ----------------------------
(***************************************************************************)
(* The sequence lock of src/lock.rs under the memory orders it is written  *)
(* with, around two fields x and y of a histogram state.                   *)
(*                                                                         *)
(* Memory is the view-based form of the C11 model Rust uses.  A location   *)
(* is the list of the values it has held, oldest first; a load may return  *)
(* any value not older than the loading thread's view of that location.    *)
(* Every value carries the view it releases: an acquire load joins it at   *)
(* once, a relaxed load only at the thread's next acquire fence.           *)
(*                                                                         *)
(* All stores here are fetch_add(1) (tests add 1 to every field), so the   *)
(* n-th value of a location is n - 1 and only its view has to be kept.  A  *)
(* read-modify-write always extends the newest value, and continues the    *)
(* release sequence it finds there.                                        *)
(***************************************************************************)
EXTENDS Integers, Sequences, SequencesExt

CONSTANTS
    Writers,    \* calls of SeqLock::write
    Readers,    \* calls of SeqLock::read
    FieldsAreRelaxed
    \* TRUE: the field updates have the order the source gives them
    \* (Ordering::Relaxed).  FALSE: the code as run by a machine on which
    \* every read-modify-write is a full barrier (x86-64).

ASSUME OrderAssumption ==
    /\ Writers \cap Readers = {}
    /\ FieldsAreRelaxed \in BOOLEAN

Threads == Writers \cup Readers
Locs == {"start", "end", "x", "y"}

Bottom == [l \in Locs |-> 1]
Join(v, w) == [l \in Locs |-> IF v[l] >= w[l] THEN v[l] ELSE w[l]]

VARIABLES
    mem,    \* per location, the released views of its values, oldest first
    cur,    \* per thread, the oldest value of each location it may still read
    acq,    \* per thread, what it has read but not yet acquired
    pc,
    e1, s1, \* locals of SeqLock::read
    seen    \* what the callback of `read` loaded

vars == <<mem, cur, acq, pc, e1, s1, seen>>

Unread == [l \in {"x", "y"} |-> 0]

Init ==
    /\ mem = [l \in Locs |-> <<Bottom>>]
    /\ cur = [t \in Threads |-> Bottom]
    /\ acq = [t \in Threads |-> Bottom]
    /\ pc = [t \in Threads |-> IF t \in Writers THEN "start" ELSE "e1"]
    /\ e1 = [t \in Readers |-> 0]
    /\ s1 = [t \in Readers |-> 0]
    /\ seen = [t \in Readers |-> Unread]

\* Thread t increments location l.
FetchAdd(t, l, acquire, release) ==
    LET found == Last(mem[l])
        mine == [cur[t] EXCEPT ![l] = Len(mem[l]) + 1]
        now == IF acquire THEN Join(mine, found) ELSE mine
        sent == IF release THEN now ELSE [Bottom EXCEPT ![l] = Len(mem[l]) + 1]
    IN  /\ mem' = [mem EXCEPT ![l] = Append(@, Join(found, sent))]
        /\ cur' = [cur EXCEPT ![t] = now]
        /\ acq' = [acq EXCEPT ![t] = Join(Join(@, found), now)]

\* Thread t loads the i-th value of location l.
Load(t, l, i, acquire) ==
    LET found == mem[l][i]
        mine == [cur[t] EXCEPT ![l] = i]
        now == IF acquire THEN Join(mine, found) ELSE mine
    IN  /\ i \in cur[t][l] .. Len(mem[l])
        /\ cur' = [cur EXCEPT ![t] = now]
        /\ acq' = [acq EXCEPT ![t] = Join(Join(@, found), now)]
        /\ UNCHANGED mem

Goto(t, from, to) == pc[t] = from /\ pc' = [pc EXCEPT ![t] = to]

-----------------------------------------------------------------------------
(* SeqLock::write *)

\* self.start.fetch_add(1, Ordering::AcqRel)
WriteStart(t) ==
    /\ Goto(t, "start", "x")
    /\ FetchAdd(t, "start", TRUE, TRUE)
    /\ UNCHANGED <<e1, s1, seen>>

\* The callback: two fields, Ordering::Relaxed
WriteField(t, l, next) ==
    /\ Goto(t, l, next)
    /\ FetchAdd(t, l, ~FieldsAreRelaxed, ~FieldsAreRelaxed)
    /\ UNCHANGED <<e1, s1, seen>>

\* self.end.fetch_add(1, Ordering::Release)
WriteEnd(t) ==
    /\ Goto(t, "end", "done")
    /\ FetchAdd(t, "end", FALSE, TRUE)
    /\ UNCHANGED <<e1, s1, seen>>

-----------------------------------------------------------------------------
(* SeqLock::read *)

\* self.end.load(Ordering::Acquire)
ReadEnd(t) ==
    /\ Goto(t, "e1", "s1")
    /\ \E i \in 1 .. Len(mem["end"]) :
         /\ Load(t, "end", i, TRUE)
         /\ e1' = [e1 EXCEPT ![t] = i]
    /\ UNCHANGED <<s1, seen>>

\* self.start.load(Ordering::Acquire); spin while the two differ
ReadStart(t) ==
    \E i \in 1 .. Len(mem["start"]) :
        /\ Goto(t, "s1", IF i = e1[t] THEN "x" ELSE "e1")
        /\ Load(t, "start", i, TRUE)
        /\ s1' = [s1 EXCEPT ![t] = i]
        /\ UNCHANGED <<e1, seen>>

\* The callback: two loads, Ordering::Relaxed
ReadField(t, l, next) ==
    /\ Goto(t, l, next)
    /\ \E i \in 1 .. Len(mem[l]) :
         /\ Load(t, l, i, FALSE)
         /\ seen' = [seen EXCEPT ![t][l] = i]
    /\ UNCHANGED <<e1, s1>>

\* Seeded defect: no acquire fence.
ReadFence_Missing(t) ==
    /\ Goto(t, "fence", "s2")
    /\ UNCHANGED <<mem, cur, acq, e1, s1, seen>>

\* fence(Ordering::Acquire)
ReadFence(t) ==
    /\ Goto(t, "fence", "s2")
    /\ cur' = [cur EXCEPT ![t] = acq[t]]
    /\ UNCHANGED <<mem, acq, e1, s1, seen>>

\* self.start.load(Ordering::Relaxed); return if it has not moved
ReadStartAgain(t) ==
    \E i \in 1 .. Len(mem["start"]) :
        /\ Goto(t, "s2", IF i = s1[t] THEN "done" ELSE "e1")
        /\ Load(t, "start", i, FALSE)
        /\ seen' = IF i = s1[t] THEN seen ELSE [seen EXCEPT ![t] = Unread]
        /\ UNCHANGED <<e1, s1>>

Next ==
    \/ \E t \in Writers :
         \/ WriteStart(t)
         \/ WriteField(t, "x", "y")
         \/ WriteField(t, "y", "end")
         \/ WriteEnd(t)
    \/ \E t \in Readers :
         \/ ReadEnd(t)
         \/ ReadStart(t)
         \/ ReadField(t, "x", "y")
         \/ ReadField(t, "y", "fence")
         \/ ReadFence(t)
         \/ ReadStartAgain(t)

Spec == Init /\ [][Next]_vars

-----------------------------------------------------------------------------
(* Properties *)

\* "A sequence lock returning a consistent snapshot of `inner` under multiple
\* writers" (lock.rs): every write adds to both fields, so a reader that
\* returns has seen as many additions in the one as in the other.
ReturnsConsistentPair ==
    \A t \in Readers : pc[t] = "done" => seen[t]["x"] = seen[t]["y"]
=============================================================================
