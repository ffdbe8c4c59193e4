--------------------------- MODULE HistogramSpec ---------------------------
(***************************************************************************)
(* What a histogram bucket promises its callers.                           *)
(*                                                                         *)
(* A bucket is a sequence of generations; `take` ends the live one and     *)
(* starts another.  A call is pinned to the generation that is live when   *)
(* it loads the state.  An update takes effect on its generation in one    *)
(* step, and a snapshot or a take returns, in one step, everything that    *)
(* has taken effect on its generation: all of an update or none of it.     *)
(* An update pinned to a generation may take effect after that generation  *)
(* was returned by `take`; it is then lost, as the doc of `take` warns.    *)
(***************************************************************************)
CONSTANTS
    Updates, \* calls of Record::add and Record::sub
    Reads,   \* calls of Bucket::snapshot (or Record::current)
    Takes,   \* calls of Bucket::take (or Record::clear)
    First,   \* the generation a bucket is built with
    NoGen,   \* no generation
    Values,  \* the values an update may carry
    NaN,     \* the value that is ignored
    Nothing, \* what has been returned before anything is
    SnapshotOf(_, _)  \* what is returned of a set of updates with given values

\* The generation a take creates carries the name of the take.
Gens == Takes \cup {First}
Scans == Reads \cup Takes
Calls == Updates \cup Scans

VARIABLES
    live,    \* the live generation
    log,     \* per generation, the updates that have taken effect
    phase,   \* per call: "idle", "pinned" or "done"
    ref,     \* per call, the generation it is pinned to
    arg,     \* per update, the value passed
    result   \* per scan, the snapshot returned

vars == <<live, log, phase, ref, arg, result>>

Init ==
    /\ live = First
    /\ log = [g \in Gens |-> {}]
    /\ phase = [c \in Calls |-> "idle"]
    /\ ref = [c \in Calls |-> NoGen]
    /\ arg = [c \in Updates |-> NaN]
    /\ result = [r \in Scans |-> Nothing]

\* An update with a comparable value is pinned to the live generation.
PinUpdate(c) ==
    /\ phase[c] = "idle"
    /\ phase' = [phase EXCEPT ![c] = "pinned"]
    /\ ref' = [ref EXCEPT ![c] = live]
    /\ \E v \in Values : arg' = [arg EXCEPT ![c] = v]
    /\ UNCHANGED <<live, log, result>>

\* NaN is ignored.
Ignore(c) ==
    /\ phase[c] = "idle"
    /\ phase' = [phase EXCEPT ![c] = "done"]
    /\ UNCHANGED <<live, log, ref, arg, result>>

Commit(c) ==
    /\ phase[c] = "pinned"
    /\ phase' = [phase EXCEPT ![c] = "done"]
    /\ log' = [log EXCEPT ![ref[c]] = @ \cup {c}]
    /\ UNCHANGED <<live, ref, arg, result>>

PinScan(r) ==
    /\ phase[r] = "idle"
    /\ phase' = [phase EXCEPT ![r] = "pinned"]
    /\ ref' = [ref EXCEPT ![r] = live]
    /\ live' = IF r \in Takes THEN r ELSE live
    /\ UNCHANGED <<log, arg, result>>

Return(r) ==
    /\ phase[r] = "pinned"
    /\ phase' = [phase EXCEPT ![r] = "done"]
    /\ result' = [result EXCEPT ![r] = SnapshotOf(log[ref[r]], arg)]
    /\ UNCHANGED <<live, log, ref, arg>>

Next ==
    \/ \E c \in Updates : PinUpdate(c) \/ Ignore(c) \/ Commit(c)
    \/ \E r \in Scans : PinScan(r) \/ Return(r)

Spec == Init /\ [][Next]_vars
=============================================================================
