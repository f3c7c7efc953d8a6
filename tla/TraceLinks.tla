----------------------------- MODULE TraceLinks -----------------------------
(***************************************************************************)
(* What analysis derives from recorded traces by exact evidence alone: the *)
(* synthetic tasks of traces without one (discovery/correlation.py), the   *)
(* calls and tool links of a task (discovery/structures.py), and the edges *)
(* between the runs of a declared workflow (workflow/inference.py).        *)
(*                                                                         *)
(* A body is what these functions read in it: `history` the messages of    *)
(* the request, `echoed` the tool calls it repeats, `consumed` the tool    *)
(* results it carries and `produced` the tool calls of the response.  A    *)
(* body that is pruned, streamed or not JSON has none of them.             *)
(***************************************************************************)
EXTENDS Integers, FiniteSets, Sequences, SequencesExt, Functions

NoTask == 0               \* tasks of the callers are positive
Synthetic(id) == -id      \* the task named after the trace that starts it

ToolCall == [tool : Nat, name : STRING]
ToolIds(calls) == {call.tool : call \in calls}

Earlier(a, b) == a.ts < b.ts \/ (a.ts = b.ts /\ a.id < b.id)

\* Traces in the order of their (ts, id).
InOrder(traces) ==
    [i \in 1..Cardinality(traces) |->
        CHOOSE t \in traces : Cardinality({u \in traces : Earlier(u, t)}) = i - 1]

-----------------------------------------------------------------------------
(* Correlation *)

ExtendsHistory(prefix, history) ==
    prefix # <<>> /\ IsStrictPrefix(prefix, history)

\* The fragments a trace without a task may continue: a shared tool call
\* decides; only without one does the conversation.
ByTool(fragments, trace) ==
    {f \in fragments : trace.consumed \cap f.tools # {}}
ByHistory(fragments, trace) ==
    {f \in fragments : \E h \in f.histories : ExtendsHistory(h, trace.history)}
Candidates(fragments, trace) ==
    IF ByTool(fragments, trace) # {} THEN ByTool(fragments, trace)
                                     ELSE ByHistory(fragments, trace)

Evidence(fragments, trace, n) ==
    IF n > 1 THEN "ambiguous"
    ELSE IF n = 0 THEN "unscoped-root"
    ELSE IF ByTool(fragments, trace) # {} THEN "tool-id"
    ELSE "conversation-prefix"

Beginning(trace) ==
    [task |-> Synthetic(trace.id), size |-> 0, histories |-> {}, tools |-> {}]

\* Fault: of several fragments, one is taken.
HomeOfAny(candidates, trace) ==
    IF candidates # {} THEN CHOOSE f \in candidates : TRUE ELSE Beginning(trace)

\* Exactly one candidate is continued; otherwise a fragment begins.
Home(candidates, trace) ==
    IF Cardinality(candidates) = 1 THEN CHOOSE f \in candidates : TRUE
    ELSE Beginning(trace)

Grown(fragment, trace) ==
    [fragment EXCEPT !.size = @ + 1,
                     !.histories = @ \cup ({trace.history} \ {<<>>}),
                     !.tools = @ \cup ToolIds(trace.produced \cup trace.echoed)]

Joined(found, trace, home, evidence) ==
    [traces |-> found.traces
                   \cup {[trace EXCEPT !.task = home.task, !.evidence = evidence]},
     fragments |-> (found.fragments \ {home}) \cup {Grown(home, trace)},
     ambiguous |-> found.ambiguous + (IF evidence = "ambiguous" THEN 1 ELSE 0)]

Correlated(found, trace) ==
    IF trace.task # NoTask
    THEN [found EXCEPT !.traces = @ \cup {trace}]
    ELSE LET candidates == Candidates(found.fragments, trace)
         IN  Joined(found, trace, Home(candidates, trace),
                    Evidence(found.fragments, trace, Cardinality(candidates)))

\* correlate_unscoped_traces()
Correlate(traces) ==
    LET ordered == InOrder(traces)
        after[i \in 0..Len(ordered)] ==
            IF i = 0 THEN [traces |-> {}, fragments |-> {}, ambiguous |-> 0]
            ELSE Correlated(after[i - 1], ordered[i])
    IN  after[Len(ordered)]

Uncorrelated(found) == Cardinality({f \in found.fragments : f.size = 1})

-----------------------------------------------------------------------------
(* The structure of a task: calls labelled by role and tools, and the      *)
(* links between them.  `ordered` are its traces in order.                 *)

\* Calls first seen in the history of a request that carries their result:
\* a streamed response has shown none of them.
NewEchoes(ordered, i) ==
    {call \in ordered[i].echoed :
        /\ call.tool \in ordered[i].consumed
        /\ \A j \in 1..(i - 1) : call.tool \notin ToolIds(ordered[j].echoed)}

\* Who produced a tool call, and under which name; an echoed call is ascribed
\* to the trace before the request.
Producers(ordered, tool) ==
    {p \in [at : 1..Len(ordered), name : UNION {{c.name : c \in t.produced \cup t.echoed}
                                                : t \in Range(ordered)}] :
        \/ [tool |-> tool, name |-> p.name] \in ordered[p.at].produced
        \/ /\ p.at < Len(ordered)
           /\ [tool |-> tool, name |-> p.name] \in NewEchoes(ordered, p.at + 1)}

\* The tool calls of a response; what it shows itself stands.
ResponseTools(ordered, i) ==
    ordered[i].produced
        \cup IF i = Len(ordered) THEN {}
             ELSE {call \in NewEchoes(ordered, i + 1) :
                      call.tool \notin ToolIds(ordered[i].produced)}

Label(ordered, i) ==
    [role |-> ordered[i].role,
     tools |-> {call.name : call \in ResponseTools(ordered, i)}]

Consumers(ordered, tool) ==
    {i \in 1..Len(ordered) : tool \in ordered[i].consumed}

ConsumedTools(ordered) == UNION {t.consumed : t \in Range(ordered)}

\* Evidence with several producers is counted and used for nothing.
AmbiguousTools(ordered) ==
    {tool \in ConsumedTools(ordered) :
        Cardinality(Producers(ordered, tool)) > 1}

\* One link for a tool call: from its only producer to its first consumer
\* after it.
Links(ordered) ==
    [tool : ConsumedTools(ordered), from : 1..Len(ordered), to : 1..Len(ordered)]
Linked(ordered) ==
    {link \in Links(ordered) :
        /\ Cardinality(Producers(ordered, link.tool)) = 1
        /\ \E p \in Producers(ordered, link.tool) : p.at = link.from
        /\ link.to \in Consumers(ordered, link.tool) /\ link.from < link.to
        /\ \A i \in Consumers(ordered, link.tool) :
              link.from < i => link.to <= i}

\* How often `of` has each of its values.
Counter(of) ==
    [v \in Range(of) |-> Cardinality({x \in DOMAIN of : of[x] = v})]

SourceOf(ordered) ==
    LET seen == {t.evidence : t \in Range(ordered)}
    IN  IF ordered[1].task > 0 THEN "explicit-task"
        ELSE IF "ambiguous" \in seen THEN "ambiguous"
        ELSE IF "tool-id" \in seen THEN "tool-id"
        ELSE IF "conversation-prefix" \in seen THEN "conversation-prefix"
        ELSE "synthetic-fragment"

Structure(ordered) ==
    LET labels == [i \in 1..Len(ordered) |-> Label(ordered, i)]
    IN  [task |-> ordered[1].task,
         traces |-> {t.id : t \in Range(ordered)},
         nodes |-> Counter(labels),
         edges |-> Counter([l \in Linked(ordered) |-> <<labels[l.from], labels[l.to]>>]),
         source |-> SourceOf(ordered),
         ambiguous |-> \E t \in Range(ordered) : t.evidence = "ambiguous",
         timeline |-> labels]

\* build_observed_task_structures(): one structure for each task.
TaskTraces(traces, task) == InOrder({t \in traces : t.task = task})
Tasks(traces) == {t.task : t \in traces} \ {NoTask}
StructuresOf(correlated) ==
    {Structure(TaskTraces(correlated, task)) : task \in Tasks(correlated)}
Structures(traces) == StructuresOf(Correlate(traces).traces)

AmbiguousLinksOf(correlated) ==
    MapThenSumSet(
        LAMBDA task : Cardinality(AmbiguousTools(TaskTraces(correlated, task))),
        Tasks(correlated))
AmbiguousLinks(traces) == AmbiguousLinksOf(Correlate(traces).traces)

=============================================================================
