------------------------------ MODULE Serving ------------------------------
(***************************************************************************)
(* gateway/serving.py: the router's in-memory snapshot of the control      *)
(* store, refreshed piece by piece, and the serving decision it makes for  *)
(* each call: an experiment's arm, a route, or the call as it came.        *)
(*                                                                         *)
(* A decision is one step; a refresh is five reads with an await around    *)
(* each, so decisions and commands fall between any two of them.           *)
(***************************************************************************)
EXTENDS ControlStore, Sequences

CONSTANTS
    Task,         \* x-ctrlrtn-task values
    Request,      \* the kinds of request that arrive
    ScopeOf,      \* the scope of an experiment, None for its whole use case
    IsCandidate,  \* the arm assign_arm() hashes a task to, per experiment
    MaxCalls,     \* Experiment.max_calls_per_task
    MaxBindings,  \* _MAX_TASK_BINDINGS
    MaxEvents     \* bound: commands given and reads that failed

RequestType ==
    [useCase : UseCase \cup {None}, identity : Scope \cup {None},
     task : Task \cup {None}, model : Choice]

ASSUME ServingAssumption ==
    /\ None \notin Scope \cup Task
    /\ Request \subseteq RequestType
    /\ ScopeOf \in [Experiment -> Scope \cup {None}]
    /\ IsCandidate \in [Experiment -> [Task -> BOOLEAN]]
    /\ MaxCalls \in [Experiment -> Nat \ {0}]
    /\ MaxBindings \in Nat \ {0}
    /\ MaxEvents \in Nat

VARIABLES
    snapshot,       \* ExperimentRouter._snapshot
    knownRoutes,    \* ._routes
    knownWorkflow,  \* ._workflow_routes
    knownRevision,  \* ._control_revision
    knownFallbacks, \* ._fallbacks
    reading,        \* what the refresh reads next, "sleep" between two
    tasks,          \* ._tasks: bindings, least recently used first
    events,         \* commands given and reads failed so far
    arms,           \* history: what a bound task was served, by experiment
    recent          \* history: the last MaxBindings tasks experiments took

decisionVars == <<tasks, arms, recent>>
knownVars ==
    <<snapshot, knownRoutes, knownWorkflow, knownRevision, knownFallbacks>>
vars == <<controlVars, knownVars, reading, tasks, events, arms, recent>>

Read == {"sleep", "experiments", "routes", "workflow", "revision", "fallbacks"}

\* What an experiment did to a task: whether it took a call of it at all, the
\* calls its candidate served and the breaches it recorded.
Served == [any : BOOLEAN, candidate : Nat, breaches : Nat]
NoServed == [any |-> FALSE, candidate |-> 0, breaches |-> 0]
NoArms == [e \in Experiment |-> NoServed]

Binding == [task : Task, experiment : Experiment, calls : Nat,
            recorded : BOOLEAN]

Init ==
    /\ ControlInit
    /\ snapshot = [u \in UseCase |-> None]
    /\ knownRoutes = routes
    /\ knownWorkflow = workflowRoutes
    /\ knownRevision = revision
    /\ knownFallbacks = fallbacks
    /\ reading = "sleep"
    /\ tasks = <<>>
    /\ events = 0
    /\ arms = [t \in Task |-> NoArms]
    /\ recent = <<>>

-----------------------------------------------------------------------------
(* refresh() *)

\* running_experiments()
RunningByUseCase ==
    [u \in UseCase |->
        IF \E e \in Running : UseCaseOf[e] = u
        THEN CHOOSE e \in Running : UseCaseOf[e] = u ELSE None]

\* Fault: nothing is read while the activated revision stays the same.
WakeIfRevised ==
    /\ reading = "sleep"
    /\ reading' = IF knownRevision = revision THEN "sleep" ELSE "experiments"
    /\ UNCHANGED <<controlVars, knownVars, decisionVars, events>>

Wake ==
    /\ reading = "sleep"
    /\ reading' = "experiments"
    /\ UNCHANGED <<controlVars, knownVars, decisionVars, events>>

ReadExperiments ==
    /\ reading = "experiments"
    /\ snapshot' = RunningByUseCase
    /\ reading' = "routes"
    /\ UNCHANGED <<controlVars, knownRoutes, knownWorkflow, knownRevision,
                   knownFallbacks, decisionVars, events>>

ReadRoutes ==
    /\ reading = "routes"
    /\ knownRoutes' = routes
    /\ reading' = "workflow"
    /\ UNCHANGED <<controlVars, snapshot, knownWorkflow, knownRevision,
                   knownFallbacks, decisionVars, events>>

ReadWorkflowRoutes ==
    /\ reading = "workflow"
    /\ knownWorkflow' = workflowRoutes
    /\ reading' = "revision"
    /\ UNCHANGED <<controlVars, snapshot, knownRoutes, knownRevision,
                   knownFallbacks, decisionVars, events>>

ReadRevision ==
    /\ reading = "revision"
    /\ knownRevision' = revision
    /\ reading' = "fallbacks"
    /\ UNCHANGED <<controlVars, snapshot, knownRoutes, knownWorkflow,
                   knownFallbacks, decisionVars, events>>

ReadFallbacks ==
    /\ reading = "fallbacks"
    /\ knownFallbacks' = fallbacks
    /\ reading' = "sleep"
    /\ UNCHANGED <<controlVars, snapshot, knownRoutes, knownWorkflow,
                   knownRevision, decisionVars, events>>

Refresh ==
    \/ Wake \/ ReadExperiments \/ ReadRoutes \/ ReadWorkflowRoutes
    \/ ReadRevision \/ ReadFallbacks

\* A read raises: the loop logs it and sleeps, with what was read in place.
RefreshFails ==
    /\ reading # "sleep"
    /\ events < MaxEvents
    /\ events' = events + 1
    /\ reading' = "sleep"
    /\ UNCHANGED <<controlVars, knownVars, decisionVars>>

-----------------------------------------------------------------------------
(* decide() *)

\* The experiment a request falls under: its use case's, if the scope fits.
Matching(r) ==
    IF r.useCase = None THEN None
    ELSE LET e == snapshot[r.useCase]
         IN  IF e = None THEN None
             ELSE IF ScopeOf[e] = None THEN e
             ELSE IF r.identity = None THEN None
             ELSE IF \/ ScopeOf[e] = r.identity
                     \/ ScopeOf[e] = <<r.identity[1], None>> THEN e
             ELSE None

\* The first of step route, workflow route and use-case route.
RouteFor(r) ==
    LET step == IF r.identity = None THEN None ELSE knownWorkflow[r.identity]
        workflow == IF r.identity = None THEN None
                    ELSE knownWorkflow[<<r.identity[1], None>>]
    IN  IF step # None THEN step
        ELSE IF workflow # None THEN workflow
        ELSE IF r.useCase = None THEN None
        ELSE knownRoutes[r.useCase]

\* _apply_route(): nothing to swap is nothing done.
Routed(r) ==
    /\ Matching(r) = None
    /\ RouteFor(r) # None
    /\ r.model # None
    /\ r.model # RouteFor(r)

Position(t) == {i \in 1 .. Len(tasks) : tasks[i].task = t}
IsBound(t) == Position(t) # {}
BindingOf(t) == tasks[CHOOSE i \in Position(t) : TRUE]

\* Fault: a task's binding to another experiment does not matter.
TakesAnyone(r) == Matching(r) # None /\ r.task # None /\ r.model # None

\* An experiment takes the calls of tasks that are not bound to another one.
Takes(r) ==
    /\ Matching(r) # None
    /\ r.task # None
    /\ IsBound(r.task) => BindingOf(r.task).experiment = Matching(r)
    /\ r.model # None

NewBinding(r) ==
    [task |-> r.task, experiment |-> Matching(r), calls |-> 0,
     recorded |-> FALSE]

\* A sequence without the element at a position.
Without(seq, i) ==
    [j \in 1 .. Len(seq) - 1 |-> IF j < i THEN seq[j] ELSE seq[j + 1]]

Others(b) ==
    IF IsBound(b.task) THEN Without(tasks, CHOOSE i \in Position(b.task) : TRUE)
    ELSE tasks

LastOf(seq) == IF Len(seq) > MaxBindings THEN Tail(seq) ELSE seq

\* Fault: the table of bindings is never trimmed.
BoundForEver(b) == Append(Others(b), b)

\* Fault: a binding keeps its place, first in first out.
BoundInPlace(b) ==
    IF IsBound(b.task)
    THEN [i \in 1 .. Len(tasks) |->
            IF tasks[i].task = b.task THEN b ELSE tasks[i]]
    ELSE LastOf(Append(tasks, b))

\* The end of _bind(): the task becomes the most recent, the least recent one goes.
Bound(b) == LastOf(Append(Others(b), b))

Counted(b) ==
    [task |-> b.task, experiment |-> b.experiment, calls |-> b.calls + 1,
     recorded |-> b.recorded]
Breached(b) ==
    [task |-> b.task, experiment |-> b.experiment, calls |-> b.calls,
     recorded |-> TRUE]

Tally(served, calls, breaches) ==
    [any |-> TRUE, candidate |-> served.candidate + calls,
     breaches |-> served.breaches + breaches]

\* The tasks that experiments took, least recent first.
Later(seq, t) ==
    Append(IF \E i \in 1 .. Len(seq) : seq[i] = t
           THEN Without(seq, CHOOSE i \in 1 .. Len(seq) : seq[i] = t) ELSE seq, t)

\* The history follows the bindings: an evicted task's is over.
Serves(b, calls, breaches) ==
    LET after == Bound(b)
        kept == {after[i].task : i \in 1 .. Len(after)}
    IN  /\ tasks' = after
        /\ arms' = [t \in Task |->
              IF t \notin kept THEN NoArms
              ELSE IF t # b.task THEN arms[t]
              ELSE [arms[t] EXCEPT ![b.experiment] = Tally(@, calls, breaches)]]
        /\ recent' = LastOf(Later(recent, b.task))

\* Fault: the ceiling is one call too high.
HasSpentItsCallsLate(b) == b.calls > MaxCalls[b.experiment]

HasSpentItsCalls(b) == b.calls >= MaxCalls[b.experiment]

\* decide() for a call that an experiment takes: the baseline arm leaves it
\* as it is, the candidate arm serves it up to the ceiling, and a breach is
\* recorded the first time.
Decide(r) ==
    LET b == IF IsBound(r.task) /\ BindingOf(r.task).experiment = Matching(r)
             THEN BindingOf(r.task) ELSE NewBinding(r)
    IN  /\ Takes(r)
        /\ \/ /\ ~IsCandidate[b.experiment][r.task]
              /\ Serves(b, 0, 0)
           \/ /\ IsCandidate[b.experiment][r.task]
              /\ ~HasSpentItsCalls(b)
              /\ Serves(Counted(b), 1, 0)
           \/ /\ IsCandidate[b.experiment][r.task]
              /\ HasSpentItsCalls(b)
              /\ Serves(Breached(b), 0,
                        IF b.recorded THEN 0 ELSE 1)
        /\ UNCHANGED <<controlVars, knownVars, reading, events>>

\* fallback(): the budget's downgrade of a call nothing else has touched.
FallsBack(r) ==
    /\ r.useCase # None
    /\ ~Takes(r) /\ ~Routed(r)
    /\ snapshot[r.useCase] = None
    /\ knownRoutes[r.useCase] = None
    /\ knownFallbacks[r.useCase] # None
    /\ r.model = knownFallbacks[r.useCase].baseline
    /\ r.model # knownFallbacks[r.useCase].model

-----------------------------------------------------------------------------
Operate ==
    /\ events < MaxEvents
    /\ events' = events + 1
    /\ Command
    /\ UNCHANGED <<knownVars, reading, decisionVars>>

Next == (\E r \in Request : Decide(r)) \/ Refresh \/ RefreshFails \/ Operate

Fairness == WF_vars(Refresh)

Spec == Init /\ [][Next]_vars /\ Fairness

-----------------------------------------------------------------------------
TypeOK ==
    /\ ControlTypeOK
    /\ snapshot \in [UseCase -> Experiment \cup {None}]
    /\ knownRoutes \in [UseCase -> Choice]
    /\ knownWorkflow \in [Scope -> Choice]
    /\ knownRevision \in Revision \cup {None}
    /\ knownFallbacks \in [UseCase -> Approval]
    /\ reading \in Read
    /\ tasks \in Seq(Binding)
    /\ Len(tasks) <= MaxBindings
    /\ events \in 0 .. MaxEvents
    /\ arms \in [Task -> [Experiment -> Served]]
    /\ recent \in Seq(Task)

\* A runaway candidate is stopped at its ceiling and counted as one failure,
\* however often its client retries and whatever the control plane does
\* between the calls of the task.
RunawayCountedOnce ==
    \A t \in Task, e \in Experiment :
        /\ arms[t][e].candidate <= MaxCalls[e]
        /\ arms[t][e].breaches <= 1

\* The calls of a task are evidence for one experiment at most, also when its
\* experiment is stopped and another one starts on the use case.
TaskNeverStraddles ==
    \A t \in Task : \A e, f \in Experiment :
        arms[t][e] # NoServed /\ arms[t][f] # NoServed => e = f

\* A task that is still calling keeps its binding, and with it its count: only
\* as many other tasks as the table holds can push it out.
LiveTaskStaysBound == \A i \in 1 .. Len(recent) : IsBound(recent[i])

\* The router knows what the store holds.
InStep ==
    /\ snapshot = RunningByUseCase
    /\ knownRoutes = routes
    /\ knownWorkflow = workflowRoutes
    /\ knownRevision = revision
    /\ knownFallbacks = fallbacks

\* Once the operators stop, the router comes to serve exactly what they left,
\* though reads fail and pieces of two states were mixed on the way.
RouterCatchesUp == <>[]InStep

\* docs/configure.md:97-98, "A running experiment or a route is never
\* overridden" by a budget fallback, when the router knows the store as it is.
FallbackOverridesNoRoute ==
    \A r \in Request :
        InStep /\ FallsBack(r) => Matching(r) = None /\ RouteFor(r) = None

=============================================================================
