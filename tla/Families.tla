------------------------------ MODULE Families ------------------------------
(***************************************************************************)
(* Families of recurring task structures (discovery/families.py), what is  *)
(* shown of them (discovery_projection.py), and the comparison of two      *)
(* reports (discovery_job/comparison.py).                                  *)
(*                                                                         *)
(* A score is a whole number of parts of a perfect one: exact for counters *)
(* of up to ten calls, where the code has floats.  A fingerprint is the    *)
(* pair of counters that is hashed, and the digest of a task its number.   *)
(***************************************************************************)
EXTENDS TraceLinks

CONSTANTS
    MinSupport,  \* tasks that make a family
    Threshold,   \* similarity of neighbours, in percent
    MatchAt      \* similarity of matching families, in percent

ASSUME FamiliesAssumption ==
    /\ MinSupport \in Nat /\ MinSupport >= 2
    /\ {Threshold, MatchAt} \subseteq 1..100

Part == 2520              \* the least common multiple of 1..10
Perfect == 100 * Part
Needed(percent) == percent * Part

Times(counter, key) == IF key \in DOMAIN counter THEN counter[key] ELSE 0

\* Multiset similarity, in parts.
Jaccard(left, right) ==
    LET keys == DOMAIN left \cup DOMAIN right
        shared == SumFunction([k \in keys |-> Min({Times(left, k), Times(right, k)})])
        all == SumFunction([k \in keys |-> Max({Times(left, k), Times(right, k)})])
    IN  IF all = 0 THEN Part ELSE (Part * shared) \div all

\* Links count for two fifths where either side has one.
Weighted(nodes, edges, linked) ==
    IF linked THEN 60 * nodes + 40 * edges ELSE 100 * nodes

Similarity(a, b) ==
    Weighted(Jaccard(a.nodes, b.nodes), Jaccard(a.edges, b.edges),
             DOMAIN a.edges \cup DOMAIN b.edges # {})

Fingerprint(s) == <<s.nodes, s.edges>>

-----------------------------------------------------------------------------
(* Clustering *)

Eligible(structures) == {s \in structures : Cardinality(s.traces) >= 2}

Adjacent(eligible) ==
    {pair \in eligible \X eligible :
        pair[1] # pair[2] /\ Similarity(pair[1], pair[2]) >= Needed(Threshold)}

\* Fault: the neighbours, and not theirs.
Neighbours(eligible, adjacent, s) ==
    {s} \cup {pair[2] : pair \in {p \in adjacent : p[1] = s}}

\* Everything that neighbours of neighbours reach.
Component(eligible, adjacent, s) ==
    LET reached[n \in 0..Cardinality(eligible)] ==
            IF n = 0 THEN {s}
            ELSE LET before == reached[n - 1]
                 IN  before \cup {pair[2] : pair \in {p \in adjacent : p[1] \in before}}
    IN  reached[Cardinality(eligible)]

Components(eligible) ==
    LET adjacent == Adjacent(eligible)
    IN  {Component(eligible, adjacent, s) : s \in eligible}

\* The member most like the others; of several, the one of the least digest.
Representative(members) ==
    LET score == [s \in members |->
                     SumFunction([o \in members |-> Similarity(s, o)])]
    IN  CHOOSE s \in members : \A o \in members :
            score[s] > score[o] \/ (score[s] = score[o] /\ s.task <= o.task)

\* In how many of the members a key occurs, and how often.
Spread(counter) ==
    [key \in UNION {DOMAIN counter[s] : s \in DOMAIN counter} |->
        [tasks |-> Cardinality({s \in DOMAIN counter : key \in DOMAIN counter[s]}),
         runs |-> SumFunction([s \in DOMAIN counter |-> Times(counter[s], key)])]]

Family(members, representative) ==
    [id |-> Fingerprint(representative),
     support |-> Cardinality(members),
     variants |-> Cardinality({Fingerprint(s) : s \in members}),
     linked |-> Cardinality({s \in members : DOMAIN s.edges # {}}),
     representative |-> representative.task,
     members |-> {s.task : s \in members},
     nodes |-> Spread([s \in members |-> s.nodes]),
     edges |-> Spread([s \in members |-> s.edges])]

Assignment(s, family, status, score) ==
    [task |-> s.task, family |-> family, status |-> status, score |-> score,
     ambiguous |-> s.ambiguous]

Assignments(members, representative) ==
    IF Cardinality(members) < MinSupport
    THEN {Assignment(s, <<>>, "unclustered", 0) : s \in members}
    ELSE {Assignment(s, Fingerprint(representative), "assigned",
                     Similarity(s, representative)) : s \in members}

FamilyReport(found, structures, components, families) ==
    LET eligible == Cardinality(Eligible(structures))
    IN  [total |-> Cardinality(structures),
         eligible |-> eligible,
         families |-> families,
         unclustered |-> eligible - SumFunction([f \in families |-> f.support]),
         ambiguousLinks |-> AmbiguousLinks(found.traces),
         synthetic |-> Cardinality(found.fragments),
         uncorrelated |-> Uncorrelated(found),
         ambiguous |-> found.ambiguous,
         assignments |-> UNION {Assignments(c, Representative(c)) : c \in components}]

Clustered(found, structures, components) ==
    FamilyReport(found, structures, components,
           {Family(c, Representative(c)) :
                c \in {d \in components : Cardinality(d) >= MinSupport}})

\* discover_workflow_families(), which correlates what it hands on to be
\* correlated again.
DiscoverIn(found, structures) ==
    Clustered(found, structures, Components(Eligible(structures)))
DiscoverAll(found) == DiscoverIn(found, Structures(found.traces))
Discover(traces) == DiscoverAll(Correlate(traces))

-----------------------------------------------------------------------------
(* Projections *)

Repeats(s) ==
    [label \in {l \in DOMAIN s.nodes : s.nodes[l] > 1} |-> s.nodes[label] - 1]

Degree(edges, side) ==
    Counter([e \in DOMAIN edges |-> e[side]])
Forks(edges, side) ==
    {label \in DOMAIN Degree(edges, side) : Degree(edges, side)[label] > 1}

\* build_discovered_family_projections() for one family of the report.
Projection(structures, report, family) ==
    LET members == {s \in structures : s.task \in family.members}
        ambiguous == {a.task : a \in {b \in report.assignments :
                                        b.status = "assigned" /\ b.ambiguous}}
        retries == Spread([s \in members |-> Repeats(s)])
    IN  [family |-> family.id,
         tasks |-> family.support,
         calls |-> SumFunction([s \in members |-> Cardinality(s.traces)]),
         unknownOutcomes |-> Cardinality(members),
         paths |-> Counter([s \in members |-> s.timeline]),
         tools |-> LET with(s, tool) == {l \in DOMAIN s.nodes : tool \in l.tools}
                       used(s, tool) == SumFunction([l \in with(s, tool) |-> s.nodes[l]])
                   IN  [tool \in UNION {l.tools : l \in DOMAIN family.nodes} |->
                           SumFunction([s \in members |-> used(s, tool)])],
         branches |-> Forks(family.edges, 1),
         joins |-> Forks(family.edges, 2),
         retries |-> [label \in DOMAIN retries |-> retries[label].runs],
         loops |-> [e \in {d \in DOMAIN family.edges : d[1] = d[2]} |->
                       family.edges[e].runs],
         representative |-> (CHOOSE s \in members :
                                s.task = family.representative).timeline,
         ambiguousTasks |-> Cardinality({s \in members : s.task \in ambiguous}),
         timelines |-> {[task |-> s.task, timeline |-> s.timeline,
                         calls |-> Cardinality(s.traces),
                         ambiguous |-> s.task \in ambiguous] : s \in members}]

Projections(traces, report) ==
    LET structures == Structures(Correlate(traces).traces)
    IN  {Projection(structures, report, f) : f \in report.families}

\* render_discovered_family_dag(): for each label how many tasks visit it,
\* and for each pair of labels that follow one another how many do so.
Steps(path) == {<<path[i], path[i + 1]>> : i \in 1..(Len(path) - 1)}
Dag(projection) ==
    LET visited(paths) == SumFunction([p \in paths |-> projection.paths[p]])
        all == DOMAIN projection.paths
    IN  [visits |-> [label \in UNION {Range(p) : p \in all} |->
                        visited({p \in all : label \in Range(p)})],
         edges |-> [step \in UNION {Steps(p) : p \in all} |->
                        visited({p \in all : step \in Steps(p)})]]

\* build_workflow_proposal(): a step for each label, with the steps it takes
\* results from, and a retry where calls outnumber tasks.
Proposal(family) ==
    [label \in DOMAIN family.nodes |->
        [predecessors |-> {l \in DOMAIN family.nodes \ {label} :
                              <<l, label>> \in DOMAIN family.edges},
         retry |-> family.nodes[label].runs > family.nodes[label].tasks]]

-----------------------------------------------------------------------------
(* Comparison *)

\* Shapes are compared without their counts.
Once(spread) == [key \in DOMAIN spread |-> 1]
FamilySimilarity(a, b) ==
    Weighted(Jaccard(Once(a.nodes), Once(b.nodes)),
             Jaccard(Once(a.edges), Once(b.edges)),
             DOMAIN a.edges \cup DOMAIN b.edges # {})

\* Pairs best first; a tie is settled by the identifiers, that is by hashes.
Better(rank, score, a, b) ==
    \/ score[a] > score[b]
    \/ /\ score[a] = score[b]
       /\ \/ rank[a[1].id] < rank[b[1].id]
          \/ rank[a[1].id] = rank[b[1].id] /\ rank[a[2].id] < rank[b[2].id]

\* The greedy one-to-one matching of families.
Match(rank, previous, current) ==
    LET score == [p \in previous \X current |-> FamilySimilarity(p[1], p[2])]
        free(matched) ==
            {p \in DOMAIN score : /\ score[p] >= Needed(MatchAt)
                                  /\ \A m \in matched : p[1] # m[1] /\ p[2] # m[2]}
        take[n \in 0..Cardinality(previous)] ==
            IF n = 0 THEN {}
            ELSE LET matched == take[n - 1]
                     rest == free(matched)
                 IN  matched \cup {p \in rest :
                                     \A q \in rest \ {p} : Better(rank, score, p, q)}
    IN  take[Cardinality(previous)]

AssignedTasks(report) == {a \in report.assignments : a.status = "assigned"}

\* compare_workflow_discovery_artifacts()
Comparison(matches, previous, current) ==
    LET before == {a.task : a \in AssignedTasks(previous)}
        after == {a.task : a \in AssignedTasks(current)}
        family(report, task) ==
            (CHOOSE a \in AssignedTasks(report) : a.task = task).family
        retained == {task \in before \cap after :
            \E m \in matches : /\ m[1].id = family(previous, task)
                               /\ m[2].id = family(current, task)}
    IN  [matches |-> {<<m[1].id, m[2].id>> : m \in matches},
         added |-> {f.id : f \in {g \in current.families : \A m \in matches : m[2] # g}},
         removed |-> {f.id : f \in {g \in previous.families : \A m \in matches : m[1] # g}},
         retained |-> Cardinality(retained),
         moved |-> Cardinality((before \cap after) \ retained),
         addedTasks |-> Cardinality(after \ before),
         removedTasks |-> Cardinality(before \ after)]
Compare(rank, previous, current) ==
    Comparison(Match(rank, previous.families, current.families), previous, current)

=============================================================================
