---------------------------- MODULE MCHistogram ----------------------------
(* An instance of Histogram for TLC: every mix of calls in Scenarios.       *)
EXTENDS Histogram

CONSTANTS a1, a2, sub1, r1, t1, t2

\* Two buckets: values up to 1, and above.
MCBoundaries == <<1>>

\* The bound: which calls may be made in one behaviour.
Scenarios == {{a1, a2, r1}, {a1, sub1, r1}, {a1, a2, t1}, {a1, r1, t1}, {a1, t1, t2}}

Begun == {c \in Calls : pc[c] # "idle"}

Bound == \E s \in Scenarios : Begun \subseteq s
=============================================================================
