----------------------------- MODULE Exposition -----------------------------
(***************************************************************************)
(* A scrape of a Prometheus collector (src/prometheus/collector.rs, dto.rs *)
(* next to it): the sources are read one after the other while the         *)
(* application updates them, merged into families by rendered name, and    *)
(* the families are checked and rendered.                                  *)
(*                                                                         *)
(* A name is the sequence of its words and separators; a sample line is    *)
(* its name, its set of labels and its number.  What is recorded only      *)
(* grows.                                                                  *)
(***************************************************************************)
EXTENDS Snapshots, Functions, FiniteSetsExt, SequencesExt

CONSTANTS
    Sources,
    Id,           \* per source, its NameIdentity: [name, description]
    Kind,
    Attrs,        \* the attribute sets updates use
    KeyValues,    \* per attribute set, its KeyValues: [key, value], the value
                  \* being [type, content] or None
    NonFinite,    \* histograms with a boundary that is not finite
    Infinite,     \* the label value "+Inf"
    Amounts,      \* what a histogram records
    Precision,    \* 2^53: the integers up to it are each an f64
    MaxSources,   \* bound on the sources added
    MaxPoints,    \* bound on the data points
    MaxValue      \* bound on the updates of a data point

Separators == {".", ":", "_"}

Errors == {"EmptyMetricName", "FamilyCollision", "EmptyLabelName", "LabelCollision",
           "DuplicateSeries", "NonFiniteBoundary"}

\* ToPrimitive::to_f64 of an integer is the nearest f64, of two as near the one
\* with an even mantissa.  From Precision to twice that, which is as far as
\* numbers go here, every second integer is an f64.
to_f64(x) ==
    IF x \in -Precision .. Precision \/ x % 2 = 0 THEN x ELSE 4 * ((x + 1) \div 4)

\* The boundaries as they are rendered.  checked_boundaries orders them before
\* they are converted: two of them may be the same f64.
Bounds == [i \in DOMAIN Boundaries |-> to_f64(Boundaries[i])]

\* An f64 as a boundary is not "+Inf" unless NonFinite says so, and nobody
\* counts up to 2^53.
ASSUME ExpositionAssumption ==
    /\ DOMAIN Id = Sources
    /\ \A s \in Sources : Id[s].name \in Seq(STRING)
    /\ Kind \in [Sources -> {"Counter", "Gauge", "Histogram"}]
    /\ \A a \in Attrs : \A kv \in KeyValues[a] : kv.key \in Seq(STRING)
    /\ NonFinite \subseteq {s \in Sources : Kind[s] = "Histogram"}
    /\ Boundaries \in Seq(Int)
    /\ \A i, j \in DOMAIN Boundaries : i < j => Boundaries[i] < Boundaries[j]
    /\ \A i \in DOMAIN Boundaries :
          Boundaries[i] \in -2 * Precision .. 2 * Precision /\ Bounds[i] # Infinite
    /\ Amounts \subseteq Nat /\ \A x \in Amounts : MaxValue * x <= 2 * Precision
    /\ Precision \in Nat /\ Precision % 4 = 0
    /\ Modulus \in Nat /\ MaxValue \in Nat \ {0} /\ MaxValue < Modulus /\ MaxValue <= Precision
    /\ None \notin Errors

-----------------------------------------------------------------------------
(* Names                                                                   *)

Sanitized(name, allowed) ==
    LET out == [i \in DOMAIN name |->
                    IF name[i] \in Separators \ allowed THEN "_" ELSE name[i]]
    IN  IF name # <<>> /\ name[1] = "9" THEN <<"_">> \o out ELSE out

sanitize_metric_name(name) == Sanitized(name, {":", "_"})

\* Names that begin with two underscores are reserved.
sanitize_label_name(name) ==
    LET out == Sanitized(name, {"_"})
    IN  IF Len(out) > 1 /\ out[1] = "_" /\ out[2] = "_" THEN <<"label">> \o out ELSE out

Total == <<"_", "total">>

family_name(s) ==
    LET name == sanitize_metric_name(Id[s].name)
    IN  IF Kind[s] = "Counter" /\ ~IsSuffix(Total, name) THEN name \o Total ELSE name

\* The sample lines of a histogram, and the names render checks.
Lines(kind) ==
    IF kind = "Histogram"
    THEN {<<"_", "bucket">>, <<"_", "sum">>, <<"_", "count">>}
    ELSE {<<>>}

\* Seeded defect: the count of a histogram is forgotten.
suffixes_NoCount(kind) == (Lines(kind) \cup {<<>>}) \ {<<"_", "count">>}

suffixes(kind) == Lines(kind) \cup {<<>>}

-----------------------------------------------------------------------------
(* render_labels.  An attribute without a value is skipped.                *)

Shown(a) == {kv \in KeyValues[a] : kv.value # None}

\* A value is shown by its content: a text and a number may look the same.
Labels(a) == {<<sanitize_label_name(kv.key), kv.value.content>> : kv \in Shown(a)}

\* An empty key and a reserved name are met in the order of the list, before
\* the names are compared with each other.
LabelErrors(a, kind) ==
    LET empty == \E kv \in Shown(a) : kv.key = <<>>
        reserved == kind = "Histogram" /\ \E l \in Labels(a) : l[1] = <<"le">>
        clash == \E j, k \in Shown(a) :
                    j # k /\ sanitize_label_name(j.key) = sanitize_label_name(k.key)
    IN  (IF empty THEN {"EmptyLabelName"} ELSE {})
        \cup (IF reserved \/ (clash /\ ~empty) THEN {"LabelCollision"} ELSE {})

-----------------------------------------------------------------------------
VARIABLES
    sources,   \* Inner::sources, in the order they were added
    value,     \* per bucket, a source and an attribute set that has been used
    pc, next,  \* render: the next step, and the source it is at
    families,  \* render: family name -> [id, kind, points]
    result,    \* what render returns: families, or an error
    begun,     \* history: what the sources held when render began
    read       \* history: the sources that had a data point when scraped

vars == <<sources, value, pc, next, families, result, begun, read>>

Cell(s) ==
    CASE Kind[s] = "Counter" -> "AtomicU64"
      [] Kind[s] = "Gauge" -> "AtomicI64"
      [] Kind[s] = "Histogram" -> "Bucket"

\* The value of a data point; a histogram has no minimum or maximum there.
HistogramValue == [boundaries : {Bounds},
                   bucket_counts : [1 .. Len(Boundaries) + 1 -> Nat], count : Nat, sum : Nat]

IsPoint(p) ==
    /\ p.by \in Sources
    /\ p.attrs \in Attrs
    /\ IF Kind[p.by] = "Histogram" THEN p.value \in HistogramValue ELSE p.value \in Int

into_data_point_value(s, v) ==
    IF Kind[s] = "Histogram"
    THEN [boundaries |-> Bounds, bucket_counts |-> v.bucket_counts,
          count |-> v.count, sum |-> to_f64(v.sum)]
    ELSE to_f64(v)

Nothing == [n \in {} |-> None]

IsValues(v) == \A x \in DOMAIN v : x \in Sources \X Attrs /\ IsValue(Cell(x[1]), v[x])
IsFamilies(f) ==
    \A n \in DOMAIN f :
        /\ f[n].id \in Range(Id)
        /\ f[n].kind \in {"Counter", "Gauge", "Histogram"}
        /\ \A i \in DOMAIN f[n].points : IsPoint(f[n].points[i])

TypeOK ==
    /\ sources \in Seq(Sources)
    /\ IsValues(value)
    /\ pc \in {"idle", "scrape", "render", "returned"}
    /\ next \in 1 .. Len(sources) + 1
    /\ IsFamilies(families)
    /\ result.error \in Errors \cup {None}
    /\ IsFamilies(result.text)
    /\ IsValues(begun)
    /\ read \subseteq Sources

Init ==
    /\ sources = <<>>
    /\ value = Nothing
    /\ pc = "idle"
    /\ next = 1
    /\ families = Nothing
    /\ result = [error |-> None, text |-> Nothing]
    /\ begun = value
    /\ read = {}

-----------------------------------------------------------------------------
(* The application                                                         *)

\* add_handle waits for the lock on `sources` a scrape holds.
Add(s) ==
    /\ pc # "scrape"
    /\ Len(sources) < MaxSources
    /\ sources' = Append(sources, s)
    /\ UNCHANGED <<value, pc, next, families, result, begun, read>>

\* The updates of a data point.
Updates(s, v) == Counts(Cell(s), v)[1]

\* A source is recorded to once it is added: what it had before is no different.
Record(s, a, x) ==
    /\ s \in Range(sources)
    /\ \/ /\ <<s, a>> \notin DOMAIN value
          /\ Cardinality(DOMAIN value) < MaxPoints
          /\ value' = [y \in DOMAIN value \cup {<<s, a>>} |->
                IF y = <<s, a>> THEN Plus(Cell(s), Initial(Cell(s)), x) ELSE value[y]]
       \/ /\ <<s, a>> \in DOMAIN value
          /\ Updates(s, value[s, a]) < MaxValue
          /\ value' = [y \in DOMAIN value |->
                IF y = <<s, a>> THEN Plus(Cell(s), value[y], x) ELSE value[y]]
    /\ UNCHANGED <<sources, pc, next, families, result, begun, read>>

-----------------------------------------------------------------------------
(* render                                                                  *)

\* Seeded defect: the first source is at index zero.
Begin_AtZero ==
    /\ pc = "idle"
    /\ pc' = "scrape"
    /\ next' = 0
    /\ UNCHANGED <<sources, value, families, result, begun, read>>

\* Each scrape starts from nothing, so one is enough.
Begin ==
    /\ pc = "idle"
    /\ pc' = "scrape"
    /\ next' = 1
    /\ families' = Nothing
    /\ begun' = Restrict(value, {x \in DOMAIN value : x[1] \in Range(sources)})
    /\ read' = {}
    /\ UNCHANGED <<sources, value, result>>

Return(error, text) ==
    /\ pc' = "returned"
    /\ result' = [error |-> error, text |-> text]

Fail(error) == Return(error, Nothing)

\* visit_bucket keeps every bucket, and its lock keeps updates out of the
\* table; buckets come in any order.
PointsOf(s) == {[by |-> s, attrs |-> x[2], value |-> into_data_point_value(s, value[x])] :
                    x \in {x \in DOMAIN value : x[1] = s}}

\* Seeded defect: only the source that opened the family joins it.
Joins_SameHandle(f, s) == f.points[1].by = s

\* Seeded defect: two identities that differ in the description are one.
Joins_SameName(f, s) == f.id.name = Id[s].name /\ f.kind = Kind[s]

\* A metric joins the family of its rendered name if the family is of the
\* same identity and kind, and opens it if there is none.
Joins(f, s) == f.id = Id[s] /\ f.kind = Kind[s]

\* Seeded defect: a later source replaces what the family had.
Merge_Replaces(s) ==
    /\ families' = [m \in DOMAIN families \cup {family_name(s)} |->
           IF m = family_name(s)
           THEN [id |-> Id[s], kind |-> Kind[s], points |-> SetToSeq(PointsOf(s))]
           ELSE families[m]]
    /\ UNCHANGED <<pc, result>>

Merge(s) ==
    LET n == family_name(s)
        points == SetToSeq(PointsOf(s))
    IN  \/ /\ n \notin DOMAIN families
           /\ families' = [m \in DOMAIN families \cup {n} |->
                  IF m = n THEN [id |-> Id[s], kind |-> Kind[s], points |-> points]
                  ELSE families[m]]
           /\ UNCHANGED <<pc, result>>
        \/ /\ n \in DOMAIN families
           /\ Joins(families[n], s)
           /\ families' = [families EXCEPT ![n].points = @ \o points]
           /\ UNCHANGED <<pc, result>>
        \/ /\ n \in DOMAIN families
           /\ ~Joins(families[n], s)
           /\ Fail("FamilyCollision")
           /\ UNCHANGED families

\* The next source: nothing recorded, a point that does not convert, a metric
\* without a name, or one to merge.
Scrape ==
    /\ pc = "scrape"
    /\ next <= Len(sources)
    /\ next' = next + 1
    /\ LET s == sources[next]
       IN  /\ read' = IF PointsOf(s) = {} THEN read ELSE read \cup {s}
           /\ \/ PointsOf(s) = {} /\ UNCHANGED <<pc, families, result>>
              \/ /\ PointsOf(s) # {}
                 /\ s \in NonFinite
                 /\ Fail("NonFiniteBoundary")
                 /\ UNCHANGED families
              \/ /\ PointsOf(s) # {}
                 /\ s \notin NonFinite
                 /\ Id[s].name = <<>>
                 /\ Fail("EmptyMetricName")
                 /\ UNCHANGED families
              \/ /\ PointsOf(s) # {}
                 /\ s \notin NonFinite
                 /\ Id[s].name # <<>>
                 /\ Merge(s)
    /\ UNCHANGED <<sources, value, begun>>

\* The lock is released.
Unlock ==
    /\ pc = "scrape"
    /\ next > Len(sources)
    /\ pc' = "render"
    /\ UNCHANGED <<sources, value, next, families, result, begun, read>>

\* What is counted up to a boundary.
cumulative(v, i) == MapThenSumSet(LAMBDA j : v.bucket_counts[j], 1 .. i)

\* HistogramValue::render_into: the lines of one point, `at` being the place among
\* those of one suffix.  The last bucket has no boundary; its line has the count.
HistogramLines(labels, v) ==
    LET le(bound) == labels \cup {<< <<"le">>, bound >>}
        line(suffix, at, shown, n) ==
            [suffix |-> suffix, at |-> at, labels |-> shown, number |-> n]
    IN  {line(<<"_", "bucket">>, i, le(v.boundaries[i]), cumulative(v, i)) :
            i \in DOMAIN v.boundaries}
        \cup {line(<<"_", "bucket">>, Len(v.boundaries) + 1, le(Infinite), v.count),
              line(<<"_", "sum">>, 1, labels, v.sum),
              line(<<"_", "count">>, 1, labels, v.count)}

PointLines(kind, p) ==
    IF kind = "Histogram" THEN HistogramLines(Labels(p.attrs), p.value)
    ELSE {[suffix |-> <<>>, at |-> 1, labels |-> Labels(p.attrs), number |-> p.value]}

SampleCollision ==
    \E m, n \in DOMAIN families : m # n /\
        \E x \in suffixes(families[m].kind), y \in suffixes(families[n].kind) :
            m \o x = n \o y

\* What Metric::render_into may fail with.  Two points are one series if
\* their labels are rendered alike.
RenderErrors(f) ==
    LET labels == {LabelErrors(f.points[i].attrs, f.kind) : i \in DOMAIN f.points}
        same == \E i, j \in DOMAIN f.points :
                    i # j /\ Labels(f.points[i].attrs) = Labels(f.points[j].attrs)
    IN  IF UNION labels # {} THEN UNION labels
        ELSE IF same THEN {"DuplicateSeries"} ELSE {}

\* All local to render: the suffixes are checked first, then every family is
\* rendered.  The first error met is returned; which one that is when there
\* are several is left open.
Render ==
    LET errors == UNION {RenderErrors(families[n]) : n \in DOMAIN families}
    IN  /\ pc = "render"
        /\ \/ SampleCollision /\ Fail("FamilyCollision")
           \/ ~SampleCollision /\ \E e \in errors : Fail(e)
           \/ ~SampleCollision /\ errors = {} /\ Return(None, families)
        /\ UNCHANGED <<sources, value, next, families, begun, read>>

Next ==
    \/ \E s \in Sources : Add(s)
    \/ \E s \in Sources, a \in Attrs :
          \E x \in (IF Kind[s] = "Histogram" THEN Amounts ELSE {1}) : Record(s, a, x)
    \/ Begin \/ Scrape \/ Unlock \/ Render

Safety == Init /\ [][Next]_vars

-----------------------------------------------------------------------------
(* Properties                                                              *)

\* The sample lines of a text.
LinesOf(text) ==
    UNION {UNION {{[family |-> n, index |-> i, name |-> n \o l.suffix,
                    at |-> l.at, labels |-> l.labels, number |-> l.number] :
                       l \in PointLines(text[n].kind, text[n].points[i])} :
               i \in DOMAIN text[n].points} :
        n \in DOMAIN text}

Lower(bound, other) == bound # Infinite /\ (other = Infinite \/ bound < other)

\* The counts of the buckets of one point grow with `le`, to the count itself.
Cumulative(text, n, i) ==
    LET lines == PointLines("Histogram", text[n].points[i])
        labels == Labels(text[n].points[i].attrs)
        buckets == {l \in lines : l.suffix = <<"_", "bucket">>}
        le(l) == (CHOOSE x \in l.labels \ labels : TRUE)[2]
    IN  /\ \A l, m \in buckets : Lower(le(l), le(m)) => l.number <= m.number
        /\ \A l \in lines : \A m \in buckets :
              l.suffix = <<"_", "count">> /\ le(m) = Infinite => l.number = m.number

\* Two lines of one point, for two boundaries that are the same f64.
OneBound(l, m) ==
    /\ l.family = m.family /\ l.index = m.index /\ l.at # m.at
    /\ l.at \in DOMAIN Boundaries /\ m.at \in DOMAIN Boundaries
    /\ to_f64(Boundaries[l.at]) = to_f64(Boundaries[m.at])

\* What render returns is an exposition Prometheus accepts, but for boundaries
\* that are one f64: no two other lines have one name and the same labels, a
\* name belongs to one family, no family has the name of another's sample, and
\* the buckets of a histogram are cumulative.
ValidExposition ==
    LET lines == LinesOf(result.text)
    IN  /\ \A l, m \in lines :
              /\ l.name = m.name /\ l.labels = m.labels => l = m \/ OneBound(l, m)
              /\ l.name = m.name => l.family = m.family
              /\ l.name \in DOMAIN result.text => l.family = l.name
        /\ \A n \in DOMAIN result.text : result.text[n].kind = "Histogram" =>
              \A i \in DOMAIN result.text[n].points : Cumulative(result.text, n, i)

\* A family is of one metric: the identity and kind of its TYPE and HELP
\* lines are those of every source whose samples are under it.
FamiliesAreOneMetric ==
    \A n \in DOMAIN result.text : \A i \in DOMAIN result.text[n].points :
        LET s == result.text[n].points[i].by
        IN  Id[s] = result.text[n].id /\ Kind[s] = result.text[n].kind

\* A text shows each series that existed when its scrape began, once, with a
\* value between the one it had then and the one it has now, whatever is
\* recorded or added while the scrape goes from source to source.
NothingHidden ==
    pc = "returned" /\ result.error = None =>
        \A x \in DOMAIN begun :
            LET text == result.text
                at == UNION {{<<n, i>> : i \in {i \in DOMAIN text[n].points :
                                  <<text[n].points[i].by, text[n].points[i].attrs>> = x}} :
                             n \in DOMAIN text}
                counts(v) == Counts(Cell(x[1]), v)
            IN  /\ Cardinality(at) = 1
                /\ \A y \in at : \A j \in DOMAIN counts(value[x]) :
                      counts(text[y[1]].points[y[2]].value)[j]
                          \in counts(begun[x])[j] .. counts(value[x])[j]

\* The names a metric lays claim to in an exposition.
Claims(s) == {family_name(s) \o x : x \in Lines(Kind[s]) \cup {<<>>}}

\* A collision is reported only if there is one: two of the sources read are
\* different metrics with a name in common.
CollisionsAreReal ==
    pc = "returned" /\ result.error = "FamilyCollision" =>
        \E s, t \in read :
            /\ <<Id[s], Kind[s]>> # <<Id[t], Kind[t]>>
            /\ Claims(s) \cap Claims(t) # {}
=============================================================================
