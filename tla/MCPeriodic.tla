---------------------------- MODULE MCPeriodic -----------------------------
(* Instances of Periodic for TLC. *)
EXTENDS Periodic

CONSTANTS
    o1, o2,
    name, host, other, x, y

MCNamed == <<name, host>>

Added == Range(observers) \cup Range(commands)

\* The bound: the observers are interchangeable, so o1 is added first.
Bound == o2 \in Added => o1 \in Added
=============================================================================
