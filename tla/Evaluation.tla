----------------------------- MODULE Evaluation -----------------------------
(***************************************************************************)
(* What the reports of an application become: the status of a step run in  *)
(* the workflow graph (workflow/graph.py), its outcome in the step metrics *)
(* (workflow/metrics.py), and the verdict of the experiment its tasks are  *)
(* in (recorder/sqlite/reporting/tasks.py, eval/tripwire.py).              *)
(*                                                                         *)
(* Readers take the rows as they are at any moment: traces, events and     *)
(* outcomes arrive in any order, late or never.                            *)
(***************************************************************************)
EXTENDS Lifecycle, Tripwire

CONSTANT Arm  \* the arm assign_arm() hashes a task to

\* Further parts of a plan: whether the experiment is on a step, whether its
\* reader gives a --fail-below, whether the arms have different models,
\* whether tasks reach the ceiling or are used again, whether they idle, and
\* the tasks of the experiment that have reported before.
ASSUME EvaluationAssumption ==
    /\ Arm \in [Task -> Arms]
    /\ IsFiniteSet(Task)
    /\ \A p \in Plans :
          /\ {p.stepScoped, p.threshold, p.swaps, p.strays, p.idles}
                 \subseteq BOOLEAN
          /\ DOMAIN p.earlier \cap Task = {} /\ IsFiniteSet(DOMAIN p.earlier)
          /\ \A t \in DOMAIN p.earlier :
                p.earlier[t] \in [arm : Arms, status : {"success", "failure"}]
          /\ Cardinality(Task) + Cardinality(DOMAIN p.earlier) <= MaxSample

VARIABLES
    traces,     \* traces of the experiment: a task and the handle of its step
    ceilinged,  \* tasks with a trace that ends at the divergence ceiling
    mixed,      \* tasks that another experiment has traces of
    idle        \* tasks without a call for idle_seconds

traceVars == <<traces, ceilinged, mixed, idle>>
vars == <<lifecycleVars, traceVars>>

Init ==
    /\ LifecycleInit
    /\ traces = {} /\ ceilinged = {} /\ mixed = {} /\ idle = {}

Step == Handle \ Tool
InData(t) == \E trace \in traces : trace.task = t

TypeOK ==
    /\ LifecycleTypeOK
    /\ traces \subseteq [task : Task, by : Step \cup {Nil}]
    /\ ceilinged \cup mixed \cup idle \subseteq Task
    /\ \A t \in ceilinged \cup idle : InData(t)

-----------------------------------------------------------------------------
(* Calls *)

\* A call of a task is recorded, during its block or after it: the recorder
\* writes behind.  An experiment on a step sees the calls of its runs alone.
Call(t, by) ==
    /\ app[t] # "new"
    /\ IF by = Nil THEN ~plan.stepScoped
       ELSE Identity[by].task = t /\ at[by] \in {"open", "left"}
    /\ traces' = traces \cup {[task |-> t, by |-> by]}
    /\ idle' = idle \ {t}
    /\ UNCHANGED <<lifecycleVars, ceilinged, mixed>>

\* The candidate has spent its calls on the task; the refusal is a trace.
Ceiling(t) ==
    /\ plan.strays
    /\ Arm[t] = "candidate"
    /\ InData(t) /\ t \notin ceilinged
    /\ ceilinged' = ceilinged \cup {t}
    /\ idle' = idle \ {t}
    /\ UNCHANGED <<lifecycleVars, traces, mixed>>

\* The task id is used again under another experiment, after a restart.
Mix(t) ==
    /\ plan.strays
    /\ app[t] # "new"
    /\ mixed' = mixed \cup {t}
    /\ UNCHANGED <<lifecycleVars, traces, ceilinged, idle>>

GoIdle(t) ==
    /\ plan.idles
    /\ InData(t) /\ t \notin idle
    /\ idle' = idle \cup {t}
    /\ UNCHANGED <<lifecycleVars, traces, ceilinged, mixed>>

Next ==
    \/ LifecycleNext /\ UNCHANGED traceVars
    \/ \E t \in plan.tasks :
          \/ \E by \in Step \cup {Nil} : Call(t, by)
          \/ Ceiling(t)
          \/ Mix(t)
          \/ GoIdle(t)

Spec == Init /\ [][Next]_vars

-----------------------------------------------------------------------------
(* Step runs.  A run is a pair of a task and a step_run_id, which several  *)
(* handles may have been given.                                            *)

RunOf(h) == [task |-> Identity[h].task, id |-> Identity[h].run]
Runs == {RunOf(h) : h \in Step}
HandlesOf(run) == {h \in Step : RunOf(h) = run}

\* The places of the ends of a run among the events, and the latest of them.
EndsOf(run) ==
    {i \in DOMAIN events : /\ events[i].handle \in HandlesOf(run)
                          /\ events[i].status \in Statuses}

LastEnd(run) ==
    events[CHOOSE i \in EndsOf(run) : \A j \in EndsOf(run) : j <= i]

EndStatuses(run) == {events[i].status : i \in EndsOf(run)}

TracedRuns(t) ==
    {RunOf(trace.by) : trace \in {x \in traces : x.task = t /\ x.by # Nil}}

\* build_workflow_graph(): the facts that traces and events give of a run.
Facts(run, field) ==
    {Identity[h][field] : h \in
        {h \in HandlesOf(run) : \/ \E e \in Rows(events) : e.handle = h
                                \/ \E trace \in traces : trace.by = h}}

RunStatus(run) ==
    IF \/ Cardinality(EndStatuses(run)) > 1
       \/ Cardinality(Facts(run, "step")) > 1
       \/ Cardinality(Facts(run, "attempt")) > 1
    THEN "inconsistent"
    ELSE IF EndStatuses(run) # {} THEN CHOOSE s \in EndStatuses(run) : TRUE
    ELSE IF \E e \in Rows(events) : e.handle \in HandlesOf(run) THEN "active"
    ELSE "observed"

\* build_workflow_step_metrics(): the success counted for a run.
CountedSuccess(run) ==
    IF Cardinality(EndStatuses(run)) # 1 \/ Cardinality(Facts(run, "step")) # 1
    THEN Nil
    ELSE LastEnd(run).success

-----------------------------------------------------------------------------
(* Tasks of the experiment *)

\* experiment_task_rows(): the successes of the runs that an experiment on a
\* step has traces of, by their last end.
SuccessOfRuns(t) ==
    LET runs == TracedRuns(t)
        explicit == {run \in runs : EndsOf(run) # {}}
        successes == {LastEnd(run).success : run \in explicit}
    IN  IF FALSE \in successes THEN FALSE
        ELSE IF explicit = runs /\ successes = {TRUE} THEN TRUE
        ELSE Nil

\* The latest outcome of a task, of which an experiment on a step takes none:
\* it has the successes of its runs instead.  (The scores of steps are left
\* out.)
LatestReport(t) ==
    IF plan.stepScoped
    THEN LET success == SuccessOfRuns(t)
         IN  IF success = Nil THEN Nil
             ELSE IF success THEN "success" ELSE "failure"
    ELSE IF outcomes[t] = <<>> THEN Nil
    ELSE outcomes[t][Len(outcomes[t])].report

\* classify_task()
StatusOf(t) ==
    LET latest == LatestReport(t)
    IN  IF t \in mixed THEN "contaminated"
        ELSE IF t \in ceilinged THEN "failure"
        ELSE IF latest \in {"success", "failure"} THEN latest
        ELSE IF latest # Nil /\ plan.threshold
             THEN IF latest = "low" THEN "failure" ELSE "success"
        ELSE IF t \in idle THEN "unreported" ELSE "open"

Records ==
    [t \in {t \in Task : InData(t)} \cup DOMAIN plan.earlier |->
        IF t \in Task THEN [arm |-> Arm[t], status |-> StatusOf(t)]
        ELSE plan.earlier[t]]

CurrentVerdict == Verdict(Records, plan.swaps)

-----------------------------------------------------------------------------
(* Properties *)

\* Unless it was interrupted while it reported, a step or a tool attempt has
\* at most one terminal event on the gateway, whoever ends it and however
\* often its events are posted.  (SDK: "a step run has exactly one terminal
\* event".)
OneTerminalEvent ==
    \A h \in Handle \ interrupted :
        Cardinality({e \in Rows(events) \cup toolEvents :
                        e.handle = h /\ e.status \in Statuses}) <= 1

\* The graph shows a run of one uninterrupted handle as it was ended, or as
\* going on while the end is on its way or lost, and never as inconsistent:
\* late, lost and repeated posts do not make a conflict.
RunStatusFaithful ==
    \A h \in plan.handles \ (Tool \cup interrupted) :
        LET shown == RunStatus(RunOf(h))
            stored == {e \in Rows(events) : e.handle = h}
        IN  HandlesOf(RunOf(h)) \cap plan.handles = {h} =>
                /\ shown \in {"observed", "active", ended[h]}
                /\ at[h] = "left" /\ Cardinality(stored) = emits[h] =>
                       shown = ended[h]

\* A run was last ended by a handle that the application told a success of.
EndedAsTold(run) == EndsOf(run) # {} /\ LastEnd(run).handle \in told

\* The step metrics count the success of the run as well, unless the graph
\* marks it as inconsistent.
BornOut(run) ==
    /\ EndedAsTold(run)
    /\ CountedSuccess(run) = TRUE \/ RunStatus(run) = "inconsistent"

\* Nothing counts as a success that the application has not reported as one,
\* in the step metrics and in the verdict: not a block that ends without an
\* exception, and not the success of another run, of another handle of the run
\* or of the task for its step.  The three readers agree on a success but for
\* an inconsistent run: docs/workflow-identity.md:149-151 has reports exclude it
\* from success statistics, and the metrics do; the verdict takes its last end.
SuccessIsReported ==
    /\ \A run \in Runs : CountedSuccess(run) = TRUE => EndedAsTold(run)
    /\ \A t \in DOMAIN Records \cap Task : Records[t].status = "success" =>
          IF plan.stepScoped THEN \A run \in TracedRuns(t) : BornOut(run)
          ELSE \/ t \in told
               \/ plan.threshold
                     /\ \E o \in Rows(outcomes[t]) : o.report = "high"

\* A task that reported during its block is never reported as failed on top
\* by the end of the block, so no order of arrival lets the automatic report
\* win.  (SDK: "an uncaught exception will not auto-report a failure on top".)
OwnReportStands ==
    \A t \in Task :
        LET all == Rows(outcomes[t]) \cup {o \in outcomePosts : o.task = t}
        IN  {"block", "exit"} \cap {o.by : o \in all} # {"block", "exit"}

\* What the graph, the metrics and the verdict say of runs and tasks is what
\* the application said: one end for each run, shown as it was ended; no
\* success it has not reported, and its own report left standing.
RunsFaithful == OneTerminalEvent /\ RunStatusFaithful
ReportsStand == SuccessIsReported /\ OwnReportStands

\* Of the closed tasks, more of the candidate's have failed than of the
\* baseline's, by more than the margin.
FailsMore(records) ==
    LET failures(arm) == Failures(records, arm)
        closed(arm) == Closed(records, arm)
    IN  100 * (failures("candidate") * closed("baseline")
                 - failures("baseline") * closed("candidate"))
            > Margin * (closed("candidate") * closed("baseline"))

\* What the records would be, had the tasks that f speaks of reported.
Imputed(records, f) ==
    [t \in DOMAIN records |->
        IF t \in DOMAIN f THEN [arm |-> records[t].arm, status |-> f[t]]
        ELSE records[t]]

\* The fold of the two uncertainties is exact: with reports enough, a definite
\* verdict is given if, and only if, the sample would bear it out whatever the
\* tasks that did not report had reported.  (So it is inconclusive for want of
\* reports or for want of tasks.)  And the gap of the rates themselves is then
\* on the side of the margin that the verdict says.
ImputationSound ==
    LET records == Records
        verdict == Verdict(records, plan.swaps)
        silent == {t \in DOMAIN records : records[t].status = "unreported"}
        imputed == {Imputed(records, f) :
                       f \in [silent -> {"success", "failure"}]}
    IN  /\ verdict \in Definitive \cup {"INCONCLUSIVE"} =>
              \A v \in Definitive :
                 verdict = v <=> \A s \in imputed : Verdict(s, plan.swaps) = v
        /\ verdict = "GROSS_REGRESSION" => \A s \in imputed : FailsMore(s)
        /\ verdict = "NO_GROSS_REGRESSION" => \A s \in imputed : ~FailsMore(s)

\* The records differ by the reports of tasks that had gone idle without one,
\* and of one such task at least.
LateReport(before, after) ==
    /\ \E t \in idle : after[t] # before[t]
    /\ DOMAIN after = DOMAIN before
    /\ \A t \in DOMAIN before : after[t] # before[t] =>
          /\ before[t].status = "unreported"
          /\ after[t].status \in {"success", "failure"}

\* A late report of a task that had gone idle without one does not turn a
\* definite verdict, whichever way the report goes.  (The report of a task
\* that is open, or a second report, may.)
LateReportsKeepVerdict ==
    [][(LateReport(Records, Records') /\ CurrentVerdict \in Definitive)
          => UNCHANGED CurrentVerdict]_vars

=============================================================================
