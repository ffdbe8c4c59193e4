---------------------------- MODULE MCBucketMap ----------------------------
(* An instance of BucketMap for TLC: every mix of calls in Scenarios.       *)
EXTENDS BucketMap, TLC

CONSTANTS
    a21, b21, a12, a211, a1,  \* add of the list <<2, 1>>, and so on
    a312, a231,
    r12,                      \* reset of <<1, 2>>
    add0, set0, reset0,       \* no attributes
    t1, t2, v1, k1            \* two takes, a visit, a clear

MCOp == Restrict(r12 :> "reset" @@ reset0 :> "reset" @@ set0 :> "set" @@
                 [c \in Calls |-> "add"], Calls)

MCAttrs == Restrict(
    a21 :> <<2, 1>> @@ b21 :> <<2, 1>> @@ a12 :> <<1, 2>> @@ a211 :> <<2, 1, 1>> @@
    a1 :> <<1>> @@ a312 :> <<3, 1, 2>> @@ a231 :> <<2, 3, 1>> @@ r12 :> <<1, 2>> @@
    add0 :> <<>> @@ set0 :> <<>> @@ reset0 :> <<>>, Calls)

MCKind == Restrict(t1 :> "take" @@ t2 :> "take" @@ v1 :> "visit" @@ k1 :> "clear", Drains)

\* The bound: which calls may be made in one behaviour.
Scenarios == {
    {a21, a12, a211, a1},            \* one set in three orders, and another
    {a21, a211, t1, t2},             \* ... drained twice
    {a21, b21, r12, t1, v1},         \* aliased calls, a take and an eviction
    {a21, a12, add0, k1, v1},        \* a clear and an eviction
    {a21, a1, t1, v1, k1},           \* two sets, every drain
    {add0, set0, reset0, t1, v1, k1} \* no attributes, every drain
  }

Begun == {x \in Calls \cup Drains : pc[x] # "called"}

Bound == \E s \in Scenarios : Begun \subseteq s
=============================================================================
