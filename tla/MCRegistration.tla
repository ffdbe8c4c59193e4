--------------------------- MODULE MCRegistration --------------------------
(* Instances of Registration for TLC. *)
EXTENDS Registration

CONSTANTS
    g1, g2, h1,         \* two handles of one gauge, a counter of its identity
    prom, per,
    a1, a2, a3, a4,     \* calls of Collection::add
    d1, d2, p1          \* calls of the periodic and the Prometheus collector

MCId == [s \in Sources |-> "id"]
MCKind == [s \in Sources |-> IF s = h1 THEN "Counter" ELSE "Gauge"]

Both == {<<prom, per>>}
BothOrOne == {<<prom, per>>, <<per>>}

MCSrc == [c \in Calls |-> CASE c \in {a2, d2} -> g2 [] c = a3 -> h1 [] OTHER -> g1]
MCVia == [c \in Calls |->
    CASE c \in {d1, d2} -> per [] c = p1 -> prom [] OTHER -> None]
=============================================================================
