------------------------------ MODULE Analysis ------------------------------
(***************************************************************************)
(* Offline analysis beside the store it reads: traces are recorded, pruned,*)
(* erased and re-enriched while edges of declared workflows are inferred   *)
(* (workflow/inference.py) and a discovery job is prepared and run on a    *)
(* frozen sample (workflow/discovery_job, recorder/sqlite/workflow/        *)
(* analysis.py).                                                           *)
(*                                                                         *)
(* A call is what an application sends: its headers name a task and        *)
(* perhaps the run of a workflow, its body is what TraceLinks reads.       *)
(* Claims, leases and cancellation of the job are in JobQueue.             *)
(***************************************************************************)
EXTENDS Families

CONSTANTS
    Null,
    Supplies  \* what is recorded, and which commands the operator has

\* A supply: calls without a task, sequences of calls made under a new task,
\* the bounds on rows, tasks and commands, how far (in half calls) a trace is
\* stamped before it is recorded, the commands, and the arguments of the job.
ASSUME AnalysisAssumption ==
    \A s \in Supplies :
        /\ {s.maxRows, s.maxTasks, s.maxCommands, s.limit} \subseteq Nat
        /\ s.lags \subseteq Nat
        /\ \A sent \in s.calls : sent.task \in Nat /\ IsFiniteSet(sent.body.consumed)
        /\ \A calls \in s.tasks :
              /\ calls \in Seq(Range(calls)) /\ calls # <<>>
              /\ \A sent \in Range(calls) : IsFiniteSet(sent.body.consumed)
        /\ s.commands \subseteq
              {"prune", "erase", "reenrich", "upgrade", "infer", "discover",
               "dataset", "replay", "calibrate"}

VARIABLES
    supply,     \* the supply chosen at the start
    rows,       \* the traces table
    lastId,     \* the last id of a trace; ids are not used again
    pending,    \* calls the current task has still to make
    code,       \* version of the enrichment code
    reenriched, \* how the last re-enrichment ended
    runEvents,  \* lifecycle events: runs of tasks and their dependencies
    edges,      \* the inferred_workflow_edges table
    inference,  \* edges inferred and not stored yet
    job,        \* the discovery job
    replay,     \* the replay job, which Replay runs
    commands    \* commands given so far

storeVars == <<rows, lastId, pending, code, runEvents>>
edgeVars == <<edges, inference>>
analysisVars == <<supply, storeVars, reenriched, edgeVars, job, replay, commands>>

NoScope == [since |-> 0, until |-> Null, model |-> Null, experiment |-> Null,
            arm |-> Null]

NoJob == [phase |-> "none", sample |-> {}, scope |-> NoScope,
          selection |-> Null, artifact |-> Null,
          grown |-> FALSE, disturbed |-> FALSE]
NoInference == [phase |-> "none", found |-> {}, late |-> FALSE, stale |-> FALSE]

AnalysisInit ==
    /\ supply \in Supplies
    /\ rows = {} /\ lastId = 0
    /\ pending = [task |-> NoTask, calls |-> <<>>]
    /\ code = 1 /\ reenriched = "never"
    /\ runEvents = supply.events
    /\ edges = {} /\ inference = NoInference
    /\ job = NoJob /\ commands = 0

-----------------------------------------------------------------------------
(* Traces *)

Gone == [history |-> <<>>, echoed |-> {}, consumed |-> {}, produced |-> {}]
Body(row) == IF row.kept THEN row.sent.body ELSE Gone

\* enrich_trace(): what the headers and bodies of a call say, the use-case
\* key by the fingerprint of the code that runs; a call without them says
\* nothing.
Nothing == [task |-> NoTask, run |-> Null, role |-> Null]
Derived(sent, task, kept) ==
    IF kept THEN [task |-> task, run |-> sent.run,
                  role |-> [key |-> sent.role, by |-> code]]
    ELSE Nothing

\* A row as the analyses see it.
Seen(row) ==
    [id |-> row.id, ts |-> row.ts, task |-> row.is.task, role |-> row.is.role,
     evidence |-> "none",
     history |-> Body(row).history, echoed |-> Body(row).echoed,
     consumed |-> Body(row).consumed, produced |-> Body(row).produced]
View(some) == {Seen(row) : row \in some}


Save(sent, task, lag) ==
    LET id == lastId + 1
    IN  /\ lastId' = id
        /\ rows' = rows \cup {[id |-> id, ts |-> 2 * id - lag, sent |-> sent,
                                in |-> task, kept |-> TRUE,
                                is |-> Derived(sent, task, TRUE)]}

\* The recorder writes behind: a trace carries the time its request came.
Record ==
    /\ lastId < supply.maxRows
    /\ \/ /\ pending.calls = <<>>
          /\ \E sent \in supply.calls, lag \in supply.lags :
                Save(sent, sent.task, lag)
          /\ UNCHANGED pending
       \/ /\ pending.calls = <<>> /\ pending.task < supply.maxTasks
          /\ \E calls \in supply.tasks :
                /\ Save(Head(calls), pending.task + 1, 0)
                /\ pending' = [task |-> pending.task + 1, calls |-> Tail(calls)]
       \/ /\ pending.calls # <<>>
          /\ Save(Head(pending.calls), pending.task, 0)
          /\ pending' = [pending EXCEPT !.calls = Tail(@)]
    /\ job' = [job EXCEPT !.grown = @ \/ job.phase = "read"]
    /\ reenriched' = "never"
    /\ UNCHANGED <<supply, code, runEvents, edgeVars, commands>>

Issued(name) ==
    /\ name \in supply.commands
    /\ commands < supply.maxCommands
    /\ commands' = commands + 1

\* Fault: nothing is spared.
FrozenByNone == {}

\* Ids frozen by jobs that are queued or running.
Frozen == UNION {IF j.phase = "queued" THEN {row.id : row \in j.sample} ELSE {} :
                    j \in {job, replay}}

\* Rows of a sample that is being prepared, or waits, are not what they were.
Disturb(ids, phases) ==
    job' = [job EXCEPT !.disturbed =
               @ \/ (/\ job.phase \in phases
                     /\ ids \cap {row.id : row \in job.sample} # {})]

\* Edges go with their evidence; those being inferred are not in the table.
\* Fault: only the consumer counts.
TargetOf(edge) == {edge.target}
EvidenceOf(edge) == {edge.source, edge.target}
Bereft(edge, ids, task) == EvidenceOf(edge) \cap ids # {} \/ edge.task = task
RemoveEdges(ids, task) ==
    /\ edges' = {edge \in edges : ~Bereft(edge, ids, task)}
    /\ inference' = [inference EXCEPT !.late =
                        @ \/ \E edge \in inference.found : Bereft(edge, ids, task)]

\* prune_trace_payloads(apply): what is derived stays.
Prune ==
    /\ Issued("prune")
    /\ \E before \in {row.ts + 1 : row \in rows} :
        LET pruned == {row \in rows : /\ row.ts < before /\ row.kept
                                      /\ row.id \notin Frozen}
            ids == {row.id : row \in pruned}
        IN  /\ ids # {}
            /\ rows' = (rows \ pruned)
                          \cup {[row EXCEPT !.kept = FALSE] : row \in pruned}
            /\ RemoveEdges(ids, NoTask)
            /\ Disturb(ids, {"read"})
    /\ reenriched' = "never"
    /\ UNCHANGED <<supply, lastId, pending, code, runEvents>>

\* erase_workflow_task(apply): refused while a job holds a trace of the task.
EraseTask ==
    /\ Issued("erase")
    /\ \E task \in {row.is.task : row \in rows} \ {NoTask} :
        LET erased == {row \in rows : row.is.task = task}
            ids == {row.id : row \in erased}
        IN  /\ ids \cap Frozen = {}
            /\ rows' = rows \ erased
            /\ RemoveEdges({}, task)
            /\ runEvents' = {event \in runEvents : event.task # task}
            /\ Disturb(ids, {"read"})
    /\ reenriched' = "never"
    /\ UNCHANGED <<supply, lastId, pending, code>>

\* A release with another enrichment is installed.
Upgrade ==
    /\ Issued("upgrade")
    /\ code = 1 /\ code' = 2
    /\ reenriched' = "never"
    /\ UNCHANGED <<supply, rows, lastId, pending, runEvents, edgeVars, job>>

\* reenrich(): one transaction over every row.  A body that was pruned is
\* NULL, which fingerprint() cannot parse: the error ends the command, and
\* closing the store rolls back what was rewritten.
\* Fault: a body that is gone is read as one that says nothing.
AnyRow(row) == TRUE
Enrichable(row) == row.kept
Rewritten(row) == [row EXCEPT !.is = Derived(row.sent, row.in, row.kept)]
Reenrich ==
    /\ Issued("reenrich")
    /\ IF \A row \in rows : Enrichable(row)
       THEN /\ rows' = {Rewritten(row) : row \in rows}
            /\ reenriched' = "done"
            /\ Disturb({row.id : row \in {r \in rows : Rewritten(r) # r}}, {"read", "queued"})
       ELSE /\ UNCHANGED <<rows, job>>
            /\ reenriched' = "failed"
    /\ UNCHANGED <<supply, lastId, pending, code, runEvents, edgeVars>>

-----------------------------------------------------------------------------
(* Edges between the runs of a workflow *)

\* The traces of declared workflows, with the runs they belong to.
InferenceInputs ==
    {[id |-> row.id, task |-> row.is.task, run |-> row.is.run,
      flow |-> row.sent.flow,
      produced |-> ToolIds(Body(row).produced), consumed |-> Body(row).consumed] :
        row \in {r \in rows : r.is.run # Null /\ r.is.task # NoTask}}

Consumes(traces, target, tool) ==
    /\ tool \in target.consumed
    /\ \A t \in traces : t.task = target.task /\ tool \in t.consumed => target.id <= t.id
Sources(traces, target, tool) ==
    {t \in traces : /\ t.task = target.task /\ tool \in t.produced
                    /\ t.id < target.id /\ t.run # target.run
                    /\ t.flow = target.flow}

\* An explicit dependency confirms an edge; a run with events and without it
\* contradicts it.
Explicit == UNION {{<<e.task, before, e.run>> : before \in e.after} : e \in runEvents}
Confirmation(task, from, to) ==
    IF <<task, from, to>> \in Explicit THEN "confirmed"
    ELSE IF \E e \in runEvents : e.task = task /\ e.run = to THEN "contradicted"
    ELSE "unverified"

\* infer_workflow_edges(): one edge for a tool call between two runs, from
\* its only earlier producer, if the first trace to consume it has one.
Inferred ==
    LET traces == InferenceInputs
        evidence == {[target |-> t, tool |-> tool] :
                        t \in traces, tool \in UNION {u.consumed : u \in traces}}
        good == {x \in evidence :
                    /\ Consumes(traces, x.target, x.tool)
                    /\ Cardinality(Sources(traces, x.target, x.tool)) = 1}
        edge(x) == LET s == CHOOSE t \in Sources(traces, x.target, x.tool) : TRUE
                   IN  [task |-> s.task, from |-> s.run, to |-> x.target.run,
                        tool |-> x.tool, source |-> s.id, target |-> x.target.id,
                        confirmation |-> Confirmation(s.task, s.run, x.target.run)]
    IN  {edge(x) : x \in good}

\* The edges that are scored against the events, and the three counts.
Scored(found) ==
    {<<e.task, e.from, e.to>> : e \in {f \in found :
        \E event \in runEvents : event.task = f.task /\ event.run = f.to}}
Accuracy(found) ==
    [truePositive |-> Cardinality(Scored(found) \cap Explicit),
     falsePositive |-> Cardinality(Scored(found) \ Explicit),
     falseNegative |-> Cardinality(Explicit \ Scored(found))]

\* `workflow infer` reads the traces and events under the lock, ...
InferEdges ==
    /\ Issued("infer")
    /\ inference.phase = "none"
    /\ inference' = [inference EXCEPT !.phase = "read", !.found = Inferred,
                                      !.late = FALSE]
    /\ UNCHANGED <<supply, storeVars, reenriched, edges, job>>

\* ... and replaces the table later, with whatever it found then.
ReplaceEdges ==
    /\ inference.phase = "read"
    /\ edges' = inference.found
    /\ inference' = [NoInference EXCEPT !.stale = inference.late]
    /\ UNCHANGED <<supply, storeVars, reenriched, job, commands>>

-----------------------------------------------------------------------------
(* The discovery job *)

\* Tasks none of whose traces belong to a workflow.
TaskRows(task) == {row \in rows : row.is.task = task}
AllTasks == {row.is.task : row \in rows} \ {NoTask}
Legacy == {task \in AllTasks : \A row \in TaskRows(task) : row.is.run = Null}

Within(scope, ts) ==
    ts >= scope.since /\ (scope.until = Null \/ ts < scope.until)

\* A task is in the scope by its last call, and by any call with the asked
\* value; an experiment or an arm must be the only one of the task.
Has(task, field, value) ==
    value = Null \/ \E row \in TaskRows(task) : row.sent[field] = value
Only(task, field, value) ==
    value = Null \/ Cardinality({row.sent[field] : row \in TaskRows(task)} \ {Null}) = 1
InScope(scope, task) ==
    /\ Within(scope, Max({row.ts : row \in TaskRows(task)}))
    /\ Has(task, "model", scope.model)
    /\ Has(task, "experiment", scope.experiment) /\ Has(task, "arm", scope.arm)
    /\ Only(task, "experiment", scope.experiment) /\ Only(task, "arm", scope.arm)

\* Calls without a task are read only when the scope asks for no value.
Unfiltered(scope) == {scope.model, scope.experiment, scope.arm} = {Null}
Unscoped == {row \in rows : row.is.run = Null /\ row.is.task = NoTask}
UnscopedIn(scope) ==
    IF Unfiltered(scope) THEN {row \in Unscoped : Within(scope, row.ts)} ELSE {}

LastOf(task) == Max({row.id : row \in TaskRows(task)})
Recent(rank, n) ==
    {x \in DOMAIN rank : Cardinality({y \in DOMAIN rank : rank[y] > rank[x]}) < n}

Matching(scope) == {task \in Legacy : InScope(scope, task)}

\* workflow_discovery_inputs()
DiscoveryInputs(scope) ==
    LET tasks == Recent([t \in Matching(scope) |-> LastOf(t)], supply.limit)
    IN  (UNION {TaskRows(task) : task \in tasks})
           \cup Recent([row \in UnscopedIn(scope) |-> row.id], supply.limit)

\* workflow_discovery_input_diagnostics(): what is in the store now, against
\* a sample that was read before.
Less(a, b) == IF a > b THEN a - b ELSE 0
Diagnostics(sample, scope) ==
    LET matching == Cardinality(Matching(scope))
        selected == Cardinality({row.is.task : row \in sample} \ {NoTask})
        loose == Cardinality(UnscopedIn(scope))
        selectedLoose == Cardinality({row \in sample : row.is.task = NoTask})
    IN  [availableTasks |-> matching, selectedTasks |-> selected,
         truncatedTasks |-> Less(matching, selected),
         excludedTasks |-> Less(Cardinality(Legacy), matching),
         declaredTasks |-> Cardinality(AllTasks \ Legacy),
         availableTraces |-> loose, selectedTraces |-> selectedLoose,
         truncatedTraces |-> Less(loose, selectedLoose),
         excludedTraces |-> Less(Cardinality(Unscoped), loose),
         sample |-> Cardinality(sample),
         pruned |-> Cardinality({row \in sample : ~row.kept})]

\* _validate_scope()
ValidScope(scope) ==
    /\ scope.until # Null => scope.since < scope.until
    /\ scope.arm # Null => scope.experiment # Null

\* prepare_workflow_discovery_job() reads the sample, ...
PrepareSample ==
    /\ Issued("discover")
    /\ job.phase \in {"none", "done", "failed"}
    /\ \E scope \in {s \in supply.scopes : ValidScope(s)} :
        /\ DiscoveryInputs(scope) # {}
        /\ job' = [NoJob EXCEPT !.phase = "read", !.scope = scope,
                                !.sample = DiscoveryInputs(scope)]
    /\ UNCHANGED <<supply, storeVars, reenriched, edgeVars>>

\* ... then the numbers around it, and queues the job.
QueueSample ==
    /\ job.phase = "read"
    /\ job' = [job EXCEPT !.phase = "queued",
                          !.selection = Diagnostics(job.sample, job.scope)]
    /\ UNCHANGED <<supply, storeVars, reenriched, edgeVars, commands>>

\* _trace_binding(): what a row must still be when the job runs.
Binding(row) == <<Seen(row), row.sent.model, row.sent.experiment, row.sent.arm>>

\* run_workflow_discovery_job(): the sample is read again by its ids and must
\* be bound as it was; the result names families, not traces.
Reread(sample) == {row \in rows : row.id \in {r.id : r \in sample}}
Unchanged(sample) ==
    /\ Cardinality(Reread(sample)) = Cardinality(sample)
    /\ {Binding(row) : row \in Reread(sample)} = {Binding(row) : row \in sample}
Written(view, report, selection) ==
    [report |-> report, projections |-> Projections(view, report),
     selection |-> selection, traces |-> Cardinality(view)]
Artifact(sample, selection) ==
    Written(View(sample), Discover(View(sample)), selection)
RunDiscovery ==
    /\ job.phase = "queued"
    /\ job' = IF Unchanged(job.sample)
              THEN [job EXCEPT !.phase = "done",
                               !.artifact = Artifact(Reread(job.sample), job.selection)]
              ELSE [job EXCEPT !.phase = "failed"]
    /\ UNCHANGED <<supply, storeVars, reenriched, edgeVars, commands>>

AnalysisNext ==
    /\ \/ Record \/ Prune \/ EraseTask \/ Upgrade \/ Reenrich
       \/ InferEdges \/ ReplaceEdges
       \/ PrepareSample \/ QueueSample \/ RunDiscovery
    /\ UNCHANGED replay

-----------------------------------------------------------------------------
(* Properties *)

AnalysisTypeOK ==
    /\ supply \in Supplies
    /\ \A row \in rows : row.id \in Nat \ {0} /\ row.ts \in Int /\ row.kept \in BOOLEAN
    /\ Cardinality({row.id : row \in rows}) = Cardinality(rows)
    /\ code \in {1, 2} /\ reenriched \in {"never", "done", "failed"}
    /\ inference.phase \in {"none", "read"}
    /\ job.phase \in {"none", "read", "queued", "done", "failed"}
    /\ job.phase \in {"queued", "done", "failed"} <=> job.selection # Null
    /\ job.phase = "done" <=> job.artifact # Null
    /\ commands \in 0..supply.maxCommands

FragmentsRestOn(view, found) ==
    LET before(t) == {u \in found : u.task < NoTask /\ Earlier(u, t)}
        byTool(t) == {u \in before(t) :
            t.consumed \cap ToolIds(u.produced \cup u.echoed) # {}}
        byHistory(t) == {u \in before(t) : ExtendsHistory(u.history, t.history)}
        evidence(t) == IF byTool(t) # {} THEN byTool(t) ELSE byHistory(t)
    IN  /\ \A t \in found : t.task < NoTask =>
            LET tasks == {u.task : u \in evidence(t)}
            IN  t.task = IF Cardinality(tasks) = 1 THEN CHOOSE task \in tasks : TRUE
                         ELSE Synthetic(t.id)
        /\ \A t \in view : t.task # NoTask => t \in found
        /\ Correlate(found).traces = found

\* Calls without a task are joined by exact evidence and by nothing else: a
\* call continues a fragment if and only if an earlier call of it, and of no
\* other fragment, shows a tool call whose result it carries or, where there
\* is none such, says the beginning of its conversation; correlating again
\* changes nothing (correlation.py:122).
FragmentsRestOnEvidence ==
    rows # {} => FragmentsRestOn(View(rows), Correlate(View(rows)).traces)

Assigned(report, task) == (CHOOSE a \in report.assignments : a.task = task).family
FamiliesPartition(eligible, report) ==
    /\ Cardinality({f.id : f \in report.families}) = Cardinality(report.families)
    /\ Cardinality(report.assignments) = Cardinality(eligible)
    /\ report.unclustered = Cardinality({a \in report.assignments : a.family = <<>>})
    /\ \A a, b \in eligible :
          Similarity(a, b) >= Needed(Threshold)
             => Assigned(report, a.task) = Assigned(report, b.task)

ProjectionAddsUp(p) ==
    /\ SumFunction(p.paths) = p.tasks
    /\ SumFunction([path \in DOMAIN p.paths |-> p.paths[path] * Len(path)]) = p.calls
    /\ {e[1] : e \in DOMAIN p.loops} \subseteq DOMAIN p.retries
    /\ LET dag == Dag(p)
       IN  \A e \in DOMAIN dag.edges : \A end \in {1, 2} :
              dag.edges[e] <= dag.visits[e[end]]

ProposalAllows(proposal, s) ==
    /\ DOMAIN Repeats(s) \subseteq {l \in DOMAIN proposal : proposal[l].retry}
    /\ \A e \in DOMAIN s.edges : e[1] # e[2] => e[1] \in proposal[e[2]].predecessors

Unmoved(same, report) ==
    /\ same.moved = 0 /\ same.added = {} /\ same.removed = {}
    /\ same.retained = Cardinality(AssignedTasks(report))
ComparesToItself(report, ids) ==
    LET rank == CHOOSE r \in [ids -> 1..Cardinality(ids)] : IsInjective(r)
    IN  Unmoved(Compare(rank, report, report), report)

Accounted(view, eligible, report) ==
    /\ FamiliesPartition(eligible, report)
    /\ \A p \in Projections(view, report) : ProjectionAddsUp(p)
    /\ \A f \in report.families : \A s \in {e \in eligible : e.task \in f.members} :
          ProposalAllows(Proposal(f), s)
    /\ ComparesToItself(report, {f.id : f \in report.families})

\* A family is closed under similarity, no two families have one identifier,
\* every eligible task is assigned once, and what is shown of a family adds
\* up: its paths, calls, retries and loops, and the proposal allows what its
\* tasks do; the same report compared with itself moves no task
\* (families.py:25, discovery_projection.py:79, proposal.py:53,
\* comparison.py:46).
FamiliesAccount ==
    LET view == View(rows)
    IN  rows # {} => Accounted(view, Eligible(Structures(Correlate(view).traces)), Discover(view))

\* A queued job keeps its sample: it fails only if a trace of it was pruned
\* or erased before it was queued, or re-enriched, and what it reports is
\* the discovery in exactly the traces it read; the numbers around the sample
\* add up unless the store changed between the two reads
\* (discovery_job/planning.py:25, handler.py:29).
SampleStands ==
    /\ job.phase = "failed" => job.disturbed
    /\ job.phase = "done" =>
        /\ job.artifact = Artifact(job.sample, job.selection)
        /\ job.selection.sample = Cardinality(job.sample)
    /\ job.phase \in {"queued", "done"} /\ ~job.grown /\ ~job.disturbed =>
        LET s == job.selection
        IN  /\ s.selectedTasks + s.truncatedTasks = s.availableTasks
            /\ s.selectedTraces + s.truncatedTraces = s.availableTraces

EdgesHaveEvidence ==
    ~inference.stale =>
        \A edge \in edges :
            \E s, t \in rows :
                /\ s.id = edge.source /\ t.id = edge.target /\ s.id < t.id
                /\ s.in = edge.task /\ t.in = edge.task
                /\ s.sent.run = edge.from /\ t.sent.run = edge.to
                /\ edge.from # edge.to
                /\ edge.tool \in ToolIds(Body(s).produced)
                /\ edge.tool \in Body(t).consumed

\* Retention takes what it must and no more.  An inferred edge has its
\* evidence, the payloads of two runs of one task, the only producer first and
\* then its first consumer: pruning and erasure take the edge along, unless
\* they come while an inference is under way.  What was derived from a call
\* stays when its payload goes (inference.py:116, maintenance.py:126,
\* maintenance.py:52).
RetentionIsExact ==
    /\ \A row \in rows :
          row.is.task = row.in /\ row.is.run = row.sent.run
             /\ row.is.role.key = row.sent.role
    /\ EdgesHaveEvidence

\* reenrich() "recomputes the derived columns for every stored row"
\* (recorder/sqlite/traces.py:85).
ReenrichReachesEveryRow ==
    reenriched # "never" => \A row \in rows : row.is.role.by = code

=============================================================================
