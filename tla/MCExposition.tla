---------------------------- MODULE MCExposition ----------------------------
(* An instance of Exposition for TLC. *)
EXTENDS Exposition

\* Sources by what they are: "h" a histogram, "g" a gauge, "c" a counter.
Named(name) == [name |-> name, description |-> ""]

MCId == [s \in Sources |->
    CASE s = "h a"           -> Named(<<"a">>)
      [] s = "h a too"       -> Named(<<"a">>)
      [] s = "h a, other"    -> [name |-> <<"a">>, description |-> "other"]
      [] s = "h a.sum"       -> Named(<<"a", ".", "sum">>)
      [] s = "g a_count"     -> Named(<<"a", "_", "count">>)
      [] s = "g a:count"     -> Named(<<"a", ":", "count">>)
      [] s = "c a"           -> Named(<<"a">>)
      [] s = "c a.total"     -> Named(<<"a", ".", "total">>)
      [] s = "g a.total"     -> Named(<<"a", ".", "total">>)
      [] s = "c"             -> Named(<<>>)
      [] s = "h 9"           -> Named(<<"9">>)]

MCKind == [s \in Sources |->
    CASE s \in {"h a", "h a too", "h a, other", "h a.sum", "h 9"} -> "Histogram"
      [] s \in {"c a", "c a.total", "c"} -> "Counter"
      [] OTHER -> "Gauge"]

\* The last two are one f64 when Precision is 4.
MCBoundaries == <<1, 4, 5>>

KV(key, val) == [key |-> key, value |-> val]
Text(content) == [type |-> "String", content |-> content]

\* No attribute, a text and a number that look the same, an attribute without a value, one that is reserved for histograms,
\* two keys that are one label.
MCKeyValues == [a \in Attrs |->
    CASE a = "none"     -> {}
      [] a = "k"        -> {KV(<<"k">>, Text("1"))}
      [] a = "k number" -> {KV(<<"k">>, [type |-> "Int", content |-> "1"])}
      [] a = "no value" -> {KV(<<"k">>, None)}
      [] a = "le"       -> {KV(<<"le">>, Text("1"))}
      [] a = "clash"    -> {KV(<<"k", ".">>, Text("1")), KV(<<"k", ":">>, Text("2"))}
      [] a = "no key"   -> {KV(<<>>, Text("1"))}]

\* The bound: one data point updated again, every list of attributes with two sources only, and one of
\* the histograms with values above the boundary.
Allowed == (Sources \X {"none", "k"}) \cup ({"h a", "g a_count"} \X Attrs)

Bound ==
    /\ DOMAIN value \subseteq Allowed
    /\ Cardinality({x \in DOMAIN value : Updates(x[1], value[x]) > 1}) <= 1
    /\ \A x \in DOMAIN value : Kind[x[1]] = "Histogram" =>
          value[x].bucket_counts[2] = 0 \/ x = <<"h a", "none">>
=============================================================================
