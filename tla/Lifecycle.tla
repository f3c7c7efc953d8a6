----------------------------- MODULE Lifecycle -----------------------------
(***************************************************************************)
(* What an instrumented application reports of itself: the task, step and  *)
(* tool handles of the SDK (sdk/lifecycle.py), the posts they make         *)
(* (sdk/reporting.py), and the rows the gateway's endpoints write          *)
(* (gateway/app.py, recorder/sqlite/workflow/events.py).                   *)
(*                                                                         *)
(* A post is best effort: the caller goes on after an answer, an error or  *)
(* a timeout, and a post that timed out may still be served.  So a post    *)
(* is put in flight and the caller goes on at once; waiting for the answer *)
(* is one of the schedules.  A post that is lost stays in flight for ever, *)
(* and a process that is killed takes no more steps.  Tasks without        *)
(* report_to post nothing and are left out.                                *)
(***************************************************************************)
EXTENDS Integers, Sequences, FiniteSets

CONSTANTS
    Task,       \* task ids
    Handle,     \* Step and ToolOperation objects
    Tool,       \* the ToolOperations among them
    Identity,   \* the identity a handle is made with
    Plans,      \* the applications: what each one uses and how often
    Nil

\* Terminal statuses; "cancelled" and "skipped" are treated like "failed".
Statuses == {"completed", "failed"}

Success == BOOLEAN \cup {Nil}

\* What a task reports: a success, or a score alone, below the threshold of
\* the experiment's reader or not.
Report == {"success", "failure", "low", "high"}

\* A plan says what is used and bounds the outcomes posted for a task, the
\* events of a handle, the interrupts and the events that are posted again.
ASSUME LifecycleAssumption ==
    /\ Tool \subseteq Handle
    /\ \A h \in Handle :
          /\ Identity[h].task \in Task
          /\ Identity[h].outer \in (Handle \ Tool) \cup {Nil}
    /\ \A p \in Plans :
          /\ p.tasks \subseteq Task /\ p.handles \subseteq Handle
          /\ p.reports \subseteq Report /\ p.successes \subseteq Success
          /\ {p.maxPosts, p.maxEmits, p.maxInterrupts, p.maxResends} \subseteq Nat
    /\ Nil \notin Handle \cup BOOLEAN
    /\ Nil \notin Statuses \cup Report

VARIABLES
    plan,           \* what this application uses
    app,            \* where each task is: not opened, open, or left
    reported,       \* Task._reported
    at,             \* where each handle is
    terminal,       \* _terminal of a handle
    emits,          \* events a handle has posted so far
    posts,          \* outcomes posted for a task so far
    resends,        \* events posted again so far
    eventPosts,     \* events in flight
    outcomePosts,   \* outcomes in flight
    events,         \* workflow_events, by id
    toolEvents,     \* tool_operation_events
    outcomes,       \* the rows of a task in outcomes, by id
    ended,          \* history: the status each handle was ended with
    interrupted,    \* history: handles interrupted while they posted
    told            \* history: handles and tasks reported as a success

taskVars == <<app, reported, posts, outcomePosts>>
handleVars == <<at, terminal, emits, eventPosts>>
rowVars == <<events, toolEvents, outcomes, resends>>
historyVars == <<ended, interrupted, told>>
lifecycleVars == <<plan, taskVars, handleVars, rowVars, historyVars>>

LifecycleInit ==
    /\ plan \in Plans
    /\ app = [t \in Task |-> "new"]
    /\ reported = [t \in Task |-> FALSE]
    /\ at = [h \in Handle |-> "new"]
    /\ terminal = [h \in Handle |-> FALSE]
    /\ emits = [h \in Handle |-> 0]
    /\ posts = [t \in Task |-> 0]
    /\ resends = 0
    /\ eventPosts = {} /\ outcomePosts = {}
    /\ events = <<>> /\ toolEvents = {} /\ outcomes = [t \in Task |-> <<>>]
    /\ ended = [h \in Handle |-> Nil]
    /\ interrupted = {} /\ told = {}

Rows(table) == {table[i] : i \in DOMAIN table}

AreEvents(E) ==
    \A e \in E : /\ e.handle \in plan.handles /\ e.n \in 1..emits[e.handle]
                /\ e.status \in Statuses \cup {"started"}
                /\ e.success \in Success

\* Outcomes are stored once each and events of an id once: event_id is UNIQUE.
LifecycleTypeOK ==
    /\ plan \in Plans
    /\ app \in [Task -> {"new", "open", "left"}]
    /\ reported \in [Task -> BOOLEAN]
    /\ at \in [Handle -> {"new", "open", "cut", "left"}]
    /\ terminal \in [Handle -> BOOLEAN]
    /\ \A h \in Handle : emits[h] \in 0..plan.maxEmits
    /\ \A t \in Task :
          posts[t] = Len(outcomes[t])
                        + Cardinality({o \in outcomePosts : o.task = t})
    /\ resends \in 0..plan.maxResends
    /\ AreEvents(eventPosts \cup Rows(events) \cup toolEvents)
    /\ \A i, j \in DOMAIN events : events[i] = events[j] => i = j
    /\ ended \in [Handle -> Statuses \cup {Nil}]
    /\ interrupted \subseteq Handle /\ told \subseteq Handle \cup Task

-----------------------------------------------------------------------------
(* Tasks *)

\* task(): the block is entered.
OpenTask(t) ==
    /\ t \in plan.tasks
    /\ app[t] = "new"
    /\ app' = [app EXCEPT ![t] = "open"]
    /\ UNCHANGED <<plan, reported, posts, outcomePosts, handleVars, rowVars,
                   historyVars>>

\* report_outcome(); "by" tells the application's own reports, during the
\* block and after it, from the automatic one.
PostOutcome(t, report, by) ==
    /\ posts[t] < plan.maxPosts
    /\ posts' = [posts EXCEPT ![t] = @ + 1]
    /\ outcomePosts' = outcomePosts \cup
          {[task |-> t, n |-> posts[t] + 1, report |-> report, by |-> by]}

\* Task.report(): the flag is set before the post.
ReportTask(t, report) ==
    /\ app[t] # "new"
    /\ report \in plan.reports
    /\ reported' = [reported EXCEPT ![t] = TRUE]
    /\ PostOutcome(t, report, IF app[t] = "open" THEN "block" ELSE "after")
    /\ told' = IF report = "success" THEN told \cup {t} ELSE told
    /\ UNCHANGED <<plan, app, handleVars, rowVars, ended, interrupted>>

\* Steps and tools are blocks inside the block of their task.
Inner(t) == {h \in Handle : Identity[h].task = t}

\* Fault: a task that has reported is reported as failed all the same.
LeaveTaskLoudly(t, failed) ==
    /\ app[t] = "open"
    /\ \A h \in Inner(t) : at[h] # "open"
    /\ app' = [app EXCEPT ![t] = "left"]
    /\ IF failed
       THEN /\ PostOutcome(t, "failure", "exit")
            /\ reported' = [reported EXCEPT ![t] = TRUE]
       ELSE UNCHANGED <<reported, posts, outcomePosts>>
    /\ UNCHANGED <<plan, handleVars, rowVars, historyVars>>

\* The end of the block and _finalize(): an exception is reported as a
\* failure, unless the application has reported.
LeaveTask(t, failed) ==
    /\ app[t] = "open"
    /\ \A h \in Inner(t) : at[h] # "open"
    /\ app' = [app EXCEPT ![t] = "left"]
    /\ IF failed /\ ~reported[t]
       THEN /\ PostOutcome(t, "failure", "exit")
            /\ reported' = [reported EXCEPT ![t] = TRUE]
       ELSE UNCHANGED <<reported, posts, outcomePosts>>
    /\ UNCHANGED <<plan, handleVars, rowVars, historyVars>>

-----------------------------------------------------------------------------
(* Steps and tools *)

\* _emit(): every event has an id of its own.
Emit(h, status, success) ==
    /\ emits[h] < plan.maxEmits
    /\ emits' = [emits EXCEPT ![h] = @ + 1]
    /\ eventPosts' = eventPosts \cup
          {[handle |-> h, n |-> emits[h] + 1, status |-> status,
            success |-> success]}

MayEnter(h) ==
    /\ h \in plan.handles
    /\ at[h] = "new"
    /\ app[Identity[h].task] = "open"
    /\ Identity[h].outer # Nil => at[Identity[h].outer] = "open"

\* __enter__()
Enter(h) ==
    /\ MayEnter(h)
    /\ at' = [at EXCEPT ![h] = "open"]
    /\ Emit(h, "started", Nil)
    /\ UNCHANGED <<plan, taskVars, terminal, rowVars, historyVars>>

\* An interrupt falls into a post, which swallows no BaseException: the event
\* is on its way, and nothing after the post is done.
Interrupt(h) ==
    /\ Cardinality(interrupted) < plan.maxInterrupts
    /\ interrupted' = interrupted \cup {h}

\* ... into that of __enter__(): the block is not entered, and __exit__()
\* never runs.
EnterInterrupted(h) ==
    /\ MayEnter(h)
    /\ at' = [at EXCEPT ![h] = "cut"]
    /\ Emit(h, "started", Nil)
    /\ Interrupt(h)
    /\ UNCHANGED <<plan, taskVars, terminal, rowVars, ended, told>>

\* A tool's success defaults to its status.
Defaulted(h, status, success) ==
    IF h \in Tool /\ success = Nil THEN status = "completed" ELSE success

Tell(h, success) ==
    told' = IF success = TRUE THEN told \cup {h} ELSE told

\* Fault: the report is not remembered.
ReportAgain(h, status, success) ==
    /\ at[h] = "open"
    /\ ~terminal[h]
    /\ success \in plan.successes
    /\ Emit(h, status, Defaulted(h, status, success))
    /\ ended' = [ended EXCEPT ![h] = status]
    /\ Tell(h, success)
    /\ UNCHANGED <<plan, taskVars, at, terminal, rowVars, interrupted>>

\* report(): a second one raises, and changes nothing.
ReportEnd(h, status, success) ==
    /\ at[h] = "open"
    /\ ~terminal[h]
    /\ success \in plan.successes
    /\ Emit(h, status, Defaulted(h, status, success))
    /\ terminal' = [terminal EXCEPT ![h] = TRUE]
    /\ ended' = [ended EXCEPT ![h] = status]
    /\ Tell(h, success)
    /\ UNCHANGED <<plan, taskVars, at, rowVars, interrupted>>

\* ... and into that of report(): the flag is not set.
ReportInterrupted(h, status, success) ==
    /\ at[h] = "open"
    /\ ~terminal[h]
    /\ success \in plan.successes
    /\ Emit(h, status, Defaulted(h, status, success))
    /\ Interrupt(h)
    /\ Tell(h, success)
    /\ UNCHANGED <<plan, taskVars, at, terminal, rowVars, ended>>

\* A report with an invalid field, such as the name of an exception that starts
\* with an underscore.  Step builds the event before its try and raises;
\* ToolOperation builds it inside, so its end is lost for good.
ReportInvalid(h) ==
    /\ h \in Tool
    /\ at[h] = "open"
    /\ ~terminal[h]
    /\ terminal' = [terminal EXCEPT ![h] = TRUE]
    /\ UNCHANGED <<plan, taskVars, at, emits, eventPosts, rowVars, historyVars>>

InnermostOpen(h) ==
    /\ at[h] = "open"
    /\ \A g \in Handle : Identity[g].outer = h => at[g] # "open"

\* Fault: leaving the block posts an end whatever has been reported.
LeaveTwice(h, failed) ==
    LET status == IF failed THEN "failed" ELSE "completed"
    IN  /\ InnermostOpen(h)
        /\ at' = [at EXCEPT ![h] = "left"]
        /\ Emit(h, status, Defaulted(h, status, Nil))
        /\ ended' = [ended EXCEPT ![h] = IF terminal[h] THEN @ ELSE status]
        /\ UNCHANGED <<plan, taskVars, terminal, rowVars, interrupted, told>>

\* Fault: a step that ends without a report is counted as a success.
LeaveWithSuccess(h, failed) ==
    LET status == IF failed THEN "failed" ELSE "completed"
    IN  /\ InnermostOpen(h)
        /\ at' = [at EXCEPT ![h] = "left"]
        /\ IF terminal[h] THEN UNCHANGED <<emits, eventPosts, ended>>
           ELSE /\ Emit(h, status, ~failed)
                /\ ended' = [ended EXCEPT ![h] = status]
        /\ UNCHANGED <<plan, taskVars, terminal, rowVars, interrupted, told>>

\* __exit__(): the end is posted unless it has been reported.  Steps that
\* end without a report have no outcome, tools succeed or fail.
Leave(h, failed) ==
    LET status == IF failed THEN "failed" ELSE "completed"
    IN  /\ InnermostOpen(h)
        /\ at' = [at EXCEPT ![h] = "left"]
        /\ IF terminal[h] THEN UNCHANGED <<emits, eventPosts, ended>>
           ELSE /\ Emit(h, status, Defaulted(h, status, Nil))
                /\ ended' = [ended EXCEPT ![h] = status]
        /\ UNCHANGED <<plan, taskVars, terminal, rowVars, interrupted, told>>

-----------------------------------------------------------------------------
(* The gateway *)

\* Fault: an event that was delivered before is inserted again.
InsertAgain(e) ==
    IF e.handle \in Tool
    THEN toolEvents' = toolEvents \cup {e} /\ UNCHANGED events
    ELSE events' = Append(events, e) /\ UNCHANGED toolEvents

\* INSERT OR IGNORE, in the table of its kind.
Insert(e) ==
    IF e.handle \in Tool
    THEN toolEvents' = toolEvents \cup {e} /\ UNCHANGED events
    ELSE /\ events' = IF e \in Rows(events) THEN events ELSE Append(events, e)
         /\ UNCHANGED toolEvents

\* workflow_event() and tool_operation_event(); when the answer is lost, an
\* application that posts its own events may post this one again.
StoreEvent(e, again) ==
    /\ e \in eventPosts
    /\ Insert(e)
    /\ IF again
       THEN /\ resends < plan.maxResends
            /\ resends' = resends + 1
            /\ UNCHANGED eventPosts
       ELSE eventPosts' = eventPosts \ {e} /\ UNCHANGED resends
    /\ UNCHANGED <<plan, taskVars, at, terminal, emits, outcomes, historyVars>>

\* outcome()
StoreOutcome(o) ==
    /\ o \in outcomePosts
    /\ outcomes' = [outcomes EXCEPT ![o.task] = Append(@, o)]
    /\ outcomePosts' = outcomePosts \ {o}
    /\ UNCHANGED <<plan, app, reported, posts, handleVars, events, toolEvents,
                   resends, historyVars>>

-----------------------------------------------------------------------------
LifecycleNext ==
    \/ \E t \in Task :
          \/ OpenTask(t)
          \/ \E report \in Report : ReportTask(t, report)
          \/ \E failed \in BOOLEAN : LeaveTask(t, failed)
    \/ \E h \in Handle :
          \/ Enter(h)
          \/ EnterInterrupted(h)
          \/ \E status \in Statuses, success \in Success :
                \/ ReportEnd(h, status, success)
                \/ ReportInterrupted(h, status, success)
          \/ ReportInvalid(h)
          \/ \E failed \in BOOLEAN : Leave(h, failed)
    \/ \E e \in eventPosts, again \in BOOLEAN : StoreEvent(e, again)
    \/ \E o \in outcomePosts : StoreOutcome(o)

=============================================================================
