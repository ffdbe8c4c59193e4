------------------------------ MODULE Resource ------------------------------
(***************************************************************************)
(* The resource an OpenTelemetry sender names in every request             *)
(* (src/otel/dto.rs, src/otel/sender.rs): named fields and a free list     *)
(* that become one list of attributes.  A resource is [named, attributes], *)
(* `named` giving a value or None for the key of each field; an attribute  *)
(* is [key, value], its value None if it has none.                         *)
(***************************************************************************)
EXTENDS Naturals, Sequences, Functions

CONSTANTS
    Named,      \* the keys of the named fields, in the order of push_attrs
    FreeKeys,   \* keys an application may use, the empty one among them
    Values,
    Empty,      \* the empty key and the empty text
    None,
    MaxFree     \* bound: attributes in the free list

ASSUME ResourceAssumption ==
    /\ Named \in Seq(Range(Named))
    /\ IsInjective(Named)
    /\ Empty \notin Range(Named)
    /\ None \notin Values
    /\ MaxFree \in Nat

Attrs == [key : FreeKeys, value : Values \cup {None}]
Resources == [named : [Range(Named) -> Values \cup {None}],
              attributes : UNION {[1 .. n -> Attrs] : n \in 0 .. MaxFree}]

\* Seeded defect: an attribute that is there already is kept.
upsert_key_value_KeepsFirst(attrs, kv) ==
    IF kv.key = Empty \/ \E i \in DOMAIN attrs : attrs[i].key = kv.key
    THEN attrs ELSE Append(attrs, kv)

\* An empty key is ignored; a key that is there keeps its place.
upsert_key_value(attrs, kv) ==
    IF kv.key = Empty THEN attrs
    ELSE IF \E i \in DOMAIN attrs : attrs[i].key = kv.key
    THEN [i \in DOMAIN attrs |-> IF attrs[i].key = kv.key THEN kv ELSE attrs[i]]
    ELSE Append(attrs, kv)

\* The free list, then the fields.
listed(resource) ==
    resource.attributes \o
    [i \in DOMAIN Named |-> [key |-> Named[i], value |-> resource.named[Named[i]]]]

\* A field without a value is left out.
given(resource) ==
    {n \in DOMAIN listed(resource) :
        n > Len(resource.attributes) => listed(resource)[n].value # None}

into_attributes(resource) ==
    LET attrs[n \in 0 .. Len(listed(resource))] ==
            IF n = 0 THEN <<>>
            ELSE IF n \in given(resource)
            THEN upsert_key_value(attrs[n - 1], listed(resource)[n])
            ELSE attrs[n - 1]
    IN  attrs[Len(listed(resource))]

\* Tonic::build_request: every request names the whole resource.
build_request(resource, metrics) ==
    [resource |-> into_attributes(resource), metrics |-> metrics]

\* The value of each key: a named field wins over a free attribute of its key,
\* and the last of several free ones wins.
Value(resource, key) ==
    LET free == {i \in DOMAIN resource.attributes : resource.attributes[i].key = key}
        last == CHOOSE i \in free : \A j \in free : j <= i
    IN  IF key \in Range(Named) /\ resource.named[key] # None
        THEN resource.named[key] ELSE resource.attributes[last].value

GivenKeys(resource) ==
    {kv.key : kv \in Range(resource.attributes)} \cup
    {key \in Range(Named) : resource.named[key] # None}

\* The attributes of every resource are a map from the keys given to their values.
ResourcesAreMaps == \A resource \in Resources :
    LET attrs == build_request(resource, <<>>).resource
    IN  /\ IsInjective([i \in DOMAIN attrs |-> attrs[i].key])
        /\ Range(attrs) = {[key |-> key, value |-> Value(resource, key)] :
                              key \in GivenKeys(resource) \ {Empty}}
=============================================================================
