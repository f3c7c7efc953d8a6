# A TLA+ model of ctrlrtn

ctrlrtn is a local proxy between applications and LLM providers. It forwards
each call, may serve it with another model (an experiment's arm, a route, a
budget fallback), records a trace of it off the response path, and enforces
spend ceilings. The same SQLite file holds the control plane (experiments,
routes, approvals) and a queue of offline jobs that work on recorded traces.

This directory models the parts of it that keep state and interact, checks them
with TLC on small instances and proves what matters most with TLAPS for every
value of the constants. Module and definition names follow the source; every
path below is relative to `src/ctrlrtn/` of the repository.

    tlc -workers 2 -config GatewayCeilings.cfg MCGateway.tla
    tlc -workers 2 -config Operator.cfg MCOperator.tla
    tlapm GatewayTheorems.tla

## 1. Inventory

| Part | State | Operations | Talks to |
| --- | --- | --- | --- |
| Budget gate (`policy/budget.py`) | day totals, use-case totals, session totals, unknown sessions, in-flight reservations | `seed`, `check` (admit, reserve, refuse, ask for a fallback), `observe` | called by the handler; observes the recorder; seeded from the store |
| Recorder (`recorder/recorder.py`) | bounded queue, one worker, drop counters | `enqueue`, `enqueue_important`, `_run`, `aclose` | called by handlers and shadow workers; saves to the store; tells its observers |
| Request handler (`gateway/proxy/`) | one coroutine per call | decide, check, send, stream, record | router, gate, upstream, recorder |
| Lifespan (`gateway/app.py`, `cli/runtime.py`) | process up or down | seed, start, close in order, crash | all of the above |
| Serving router (`gateway/serving.py`) | five snapshots of the control store, a bounded table of task bindings | `refresh`, `decide`, `fallback` | reads the store off the loop; called by the handler |
| Control store (`recorder/sqlite/control/`) | experiments, shadows, routes, workflow routes, approvals, activated revision | start, stop, adopt, route, approve, activate | written by CLI and console processes, read by the router |
| Shadow manager (`gateway/shadow.py`) | queue of mirrors, workers, drop counts | `submit`, `_mirror`, `_flush_drops`, `aclose` | handler, upstream, recorder, store |
| Job queue (`recorder/sqlite/jobs.py`, `jobs/`) | job rows with lease, attempt and cancel flag; worker processes with a heartbeat thread | prepare, create, claim, heartbeat, progress, complete, fail, cancel | CLI, console, workers, retention |
| Retention (`recorder/sqlite/maintenance.py`) | payloads, invalidation marks, advisory lock | prune, erase, redact, compact | jobs, store |
| SDK and workflow events (`sdk/`, `recorder/sqlite/workflow/events.py`) | task, step and tool-attempt handles; append-only events, outcomes | report, emit, insert once | gateway endpoints |
| Live evaluation (`eval/tripwire.py`, `workflow/graph.py`, `workflow/metrics.py`) | none: functions of rows | run status, step success, tally, verdict | CLI and console, on rows that are still being written |
| Workflow analysis (`workflow/discovery/`, `workflow/inference.py`, `workflow/discovery_job/`) | the table of inferred edges, job artifacts | correlate, structure, cluster, project, propose, compare, infer edges, freeze and run a sample | store, job queue, retention |
| Offline evaluation (`eval/`, `jobs/replay.py`, `analysis/campaign.py`) | dataset manifests, reports and labels in files | pick, split, verify, replay, judge, test, calibrate, campaign | store, job queue, providers, judge model |
| Git document (`control_config/`, `cli/control.py`, `cli/tui/control_actions/git_config.py`) | a file, HEAD, a preview | load, look up, verify in four calls, preview, verify again, activate | Git, control store |
| Terminal and console control (`cli/control.py`, `cli/tui/control_actions/`) | a modal screen over lists that were read before | review, confirm, type | control store |
| Monitor (`cli/tui/`) | pages, selections, focus, a feed that follows, a layout | reload by a timer, page, select, expand, maximize | store, read-only |
| Settings, identity and injection | files, headers and arguments | parse, layer, render | everything |

What is hard in it, and hard to test: handlers interleave at every `await`
while the gate, the recorder and the router share memory; a save runs in a
thread that outlives its cancellation; the process may die between the payment
of a call, its row and its report; midnight may fall anywhere; leases expire
under workers that are merely slow; operators change the control store between
two reads of one refresh, or the document between its review and its
activation; retention deletes what a job, an inference or a dataset is about to
read; a counter that cannot be written ends a shutdown halfway; a timer reloads
what somebody is looking at. The list with its lines is under `hazards` in `PROJECT.json`.

## 2. Modules

| Module | Models | State and actions |
| --- | --- | --- |
| `Calls` | the calls of an instance, a finite set | |
| `SpendSums` | sums of dollar amounts over sets of calls, with the folds of the community modules | |
| `Budget` | `policy/budget.py` | `total`, `byUseCase`, `bySession`, `unknownSessions`, `snapDay` are `SpendSnapshot`; `held` and `estimate` are `BudgetGate._reservations`. `Check`, `Reserve`, `Observe`, `Rollover` are the methods; none of them awaits, so they are pieces of a step |
| `Recorder` | `recorder/recorder.py` | `queue`, `rows`, `mode`, and the `stage` of each trace: blocked on a full queue, queued, saving, written (the thread has committed, the worker does not know), recorded or discarded |
| `RecorderQueue` | the recorder alone, with history of what was told, entered and committed | `Offer`, `Wake`, `Work`, `Close` |
| `Shadow` | `gateway/shadow.py` over `RecorderQueue`, with the shutdown order of `gateway/app.py` | `waiting` is the queue of mirrors and `place` where each stands; `Submit`, `TakeMirror`, `CountWritten`, `CountFails`, `Mirrored`, `Offered` are a mirror's life, one action between two awaits; `FlushBegins`, `FlushOne`, `FlushFails`, `FlushEnds` write the drop counters; `BeginStop`, `CancelMirror`, `WorkersStopped`, `Exit` are `aclose()`, and `RecorderMayCloseNow` is where the lifespan goes on to the recorder |
| `Gateway` | composes `Budget` and `Recorder` with the handlers, the lifespan and restarts | `http` is where each handler stands; `Arrive` is everything from the body to the send (there is no await between the check and the reservation), `SendOK`, `SendFails`, `StreamEnds`, `MirrorEnds` the rest; `Exit`, `ReadSeed`, `Start` the process, `Midnight` the clock |
| `ControlStore` | `recorder/sqlite/control/`, the indexes and triggers of `schema.py` | one action per command, one transaction each; `Accepts` and `Inserted` are what the triggers and indexes say, `Install` the activation of a whole document |
| `Desk` | those who write these tables: the console's review screens, the terminal's commands, and the Git document, over `ControlStore` | `screen` is the modal screen, `shown` what the console last read, `reading` what each of the two has read of file and Git, in the stages of `Load`, `CheckClean`, `NameRevision`; `ShowPreview`, `ConfirmPreview`, `ActivatePreview`, `ActivateAtOnce`; `Edit` and `Commit` are other people's |
| `Console` | the monitor in `cli/tui/`, for the lists of jobs, calls and discovered families | `cursor` is where each table's cursor is, `posted` the messages of its moves; `Tick`, `TurnPage`, `MoveCursor` (which posts), `Highlight` (the handler, any time later), `Focus`, `ExpandDetail`, `ToggleMaximize`, `RestoreLayout`, `ToggleBudget`; `Rereads` is `_reload()`, which may fail |
| `Serving` | `gateway/serving.py` over `ControlStore` | `Wake` and five `Read...` actions are `refresh()` between its awaits, `RefreshFails` the exception the loop survives; `Decide` is `decide()` for a call an experiment takes; `RouteFor`, `Routed` and `FallsBack` are the rest of the precedence |
| `JobQueue` | the job table, workers with their heartbeat threads, sample freezing, pruning and erasing | one action per transaction: `Claim`, `Beat`, `Progress`, `Checkpoint`, `FinishJob`, `Cancel`, `Prune`, `Erase`, ...; `Crash` for a worker, `Expire` for its lease |
| `JobRegister` | nothing: what the queue promises to who submits a job | `Submit`, `Try`, `Ask`, `End` |
| `Lifecycle` | the SDK's handles (`sdk/lifecycle.py`), their posts and the rows the endpoints write | one action per call of the application (`OpenTask`, `ReportTask`, `LeaveTask`, `Enter`, `ReportEnd`, `Leave`, ...), `StoreEvent` and `StoreOutcome` for the gateway; `eventPosts` and `outcomePosts` are in flight, and a lost post stays there |
| `Tripwire` | `eval/tripwire.py` from the statuses of tasks to the verdict | operators only; a rate is in whole parts of `Scale`, and the ends of the Wilson interval are rounded outwards to them (`WilsonHigh`, `WilsonLow`) |
| `Evaluation` | `workflow/graph.py`, `workflow/metrics.py` and the experiment's rows, read at any moment over `Lifecycle` and the traces | `Call`, `Ceiling`, `Mix`, `GoIdle` add what traces say; `RunStatus`, `CountedSuccess`, `StatusOf`, `CurrentVerdict` are the readers |
| `TraceLinks` | `workflow/discovery/correlation.py`, `structures.py`: synthetic tasks, labelled calls, tool links | operators |
| `Families` | `families.py`, `discovery_projection.py`, `proposal.py`, `discovery_job/comparison.py` | operators; similarity is a whole number of parts of a perfect one |
| `Analysis` | the store as analysis sees it, with inference, the discovery job and retention | `Record`, `Prune`, `EraseTask`, `Upgrade`, `Reenrich`; `InferEdges` and `ReplaceEdges` are one command in two transactions, as are `PrepareSample` and `QueueSample`; `RunDiscovery` |
| `Judging` | `eval/judge.py`, `replay.py`, `ni.py`, `calibration.py` | operators |
| `Replay` | datasets, replay jobs, reports, campaign and calibration, over `Analysis` | `PickDataset`, `MakeDataset`, `MoveEntry` (an edit by hand), `PrepareReplay`, `QueueReplay`, `RunAtOnce`, `RunReplayJob`, `Calibrate` |
| `MCGateway`, `MCShadow`, `MCServing`, `MCJobQueue`, `MCEvaluation`, `MCAnalysis`, `MCDesk` | the instances | |
| `MCOperator` | the last three of these and `Console` side by side: one of them is chosen at the start, the others idle | |
| `GatewayTheorems` | proofs about `Gateway`: types and reservations, after the laws of sums; then counters and ceilings | |
| `ShadowTheorems`, `JobQueueTheorems`, `ServingTheorems`, `DeskTheorems`, `EvaluationTheorems`, `OfflineTheorems` | proofs about `Shadow` over `RecorderQueue`, `JobQueue`, `Serving` over `ControlStore`, `Desk` and `Console`, `Evaluation` over `Lifecycle` and `Tripwire`, and `Replay` over `Analysis`, with what `TraceLinks` and `Judging` compute | |
| `FamilyTheorems` | proofs about `Families`: what a discovery says of the tasks of the store, over `OfflineTheorems` | |

What composes what: `Gateway` takes `Budget` and `Recorder`; `Shadow` takes the
same recorder through `RecorderQueue`; `Serving` and `Desk` each take
`ControlStore`, once with its reader and once with its writers; `Evaluation`
reads what `Lifecycle` writes; `Replay` shares the store of `Analysis`, whose
operators are `TraceLinks`, `Families` and `Judging`.

Definitions marked `Fault:` are never part of a specification. Each is a
plausible bug in the definition that follows it; put in its place, it breaks the
property that `mutants` in `PROJECT.json` names for it.

Abstractions shared by all modules: a call, a use case, a session, a model or a
trace is a model value; amounts of money are small integers in the unit of the
smallest one that matters; an upstream response is its cost (a bill, nothing
because it is free or its usage never arrived, or unknown because its model has
no price: `Response`); bodies, headers, credentials and log lines are left out.

## 3. Runs

| Run | Instance | Shows |
| --- | --- | --- |
| `gateway_ceilings` | 3 calls, every two of which exceed exactly one ceiling; queue of 1; 2 days | reservations are held exactly while their call is outstanding; no ceiling is overspent by what was reserved; the snapshot covers the rows; room comes from settlements only |
| `gateway_live` | 3 calls - one with a reservation, one of a free provider, a mirror -, fair upstream and store | every reservation is released |
| `gateway_missing_usage` | 3 calls of one session | finding: a paid response without usage costs a known nothing, where the documentation says unknown never means zero |
| `recorder_and_shadows` | a call and 2 mirrors of 2 experiments, 2 workers, recorder queue of 2, mirror queue of 1 | every trace settles once and is told once, in every mix of full queue, failed save, wedged save, failed counter and shutdown; commits keep queue order; every mirror ends; counters are not inflated; the recorder is closed when nobody can offer it anything |
| `shutdown_skips_recorder` | the same | finding: a drop counter that cannot be written at shutdown leaves the recorder undrained |
| `job_queue` | 2 workers, a replay and a discovery job on a shared trace, 1 missed heartbeat | the queue implements `JobRegister`; one outcome per job, by its last claimer, over the frozen sample; pruned evidence is marked; every job settles while a worker lives |
| `job_queue_stranded` | 2 workers, a replay | finding: a running job cancelled after its worker's death stays running for ever |
| `serving_control` | 2 use cases, 3 experiments, a shadow, a workflow with a step, 3 tasks, 2 bindings, 3 commands or failed reads | a task is evidence for one experiment, a runaway counts once, live tasks stay bound, one owner per use case; the router catches up |
| `declaration_restorable` | the same | finding: a declared experiment stopped by hand blocks every later activation of its revision |
| `fallback_overrides_route` | the same | finding: a workflow route that changes nothing does not keep the budget fallback off |
| `reports_and_analysis` | one of four scenes, see below | what is made of the store stays true to it: reports, fragments, families, samples, edges, datasets, verdicts, screens, activations |
| `reenrich_after_prune` | the scene of analyses | finding: after one pruned payload re-enrichment fails as a whole |

The scenes of `reports_and_analysis` (`MCOperator`), of which a behaviour has
one, so that they add up and do not multiply:

* *applications*: two steps that share a run; a step that reports whatever it
  may, with one interrupt and one repeated post; a tool in a step with one or
  the other; a task that reports twice, by success or
  score, with a threshold and without; tasks of both arms, with different models
  and with the same, beside the tasks of the experiment that reported before
  (`earlier`). One end per handle; the graph shows runs as they were ended
  (`RunsFaithful`); only reported successes count, in the metrics and in the
  verdict, which differ on no run but an inconsistent one, and an application's own
  report stands (`ReportsStand`); with reports enough the verdict is definite
  exactly when every imputation of the silent tasks gives it, and then it
  survives their late reports.
* *analyses*: one of nine supplies of calls. Loose calls whose conversations
  begin alike and whose tools are shown, echoed and shown twice; three tasks of
  six kinds, or four of two; a discovery job among three of prune and
  erase, in every scope, and of re-enrich and upgrade as well for one kind of
  task; two tasks of a declared workflow with its edges
  inferred meanwhile; datasets and replays among retention; batches with every
  mix of failing, blank, better, equal and worse replies under five judges,
  one of them off the scale; reports about a role and about a step of it.
* *control*: an experiment the document declares, one whose provider nobody
  configured, a shadow, two use-case routes; four revisions of the document, of
  which one changes another file and one routes a step it does not declare;
  `MaxWrites` 2, `MaxChanges` 2, three of both together (`MaxMoves`).
* *monitor*: three calls, or two and a job (`MaxArrivals`), pages of two rows,
  two pages, one message under way. Selection, cursor, focus, graphs and
  following feed agree, but for a table whose message a reload overtook, until
  the next reload (`ScreenAgrees`); a call that is read holds still
  (`InspectionHoldsStill`).

Bounds. Three calls are enough for the gate because its races are between a call
that settles, one in flight and one being admitted, and a queue of one already
makes the others wait or drop; estimates of 1 to 3 units and a bill of 2
let a bill fall short of, meet and exceed its estimate. Two days cover midnight before,
during and after a call. For the shadows, two mirrors fill a queue of one and
overtake each other at two workers, and a call beside them fills the recorder.
Two workers and one missed heartbeat give every overlap of an old and a new
holder of a job; a third adds symmetric copies. Three commands suffice to
replace an experiment on a use case (start, stop, start), and three tasks on a
table of two bindings to evict one. Two outcomes of a task suffice for one to
overtake the other; at 95% a verdict takes more tasks than can be interleaved, so
the tasks under way join up to 16 that have reported before, which put them at the
edge of a verdict: with these, a margin of 20 percent, rates in hundredths and a
minimum of five tasks, every verdict is reached, the definite ones and the
inconclusive one both with silent tasks and without any. Three loose calls are two that may be continued and
one that may continue either; `MinSupport` 2 lets three tasks make a family and
leave one out, four make two. Two writes and two changes of the document are a
change and its revert, or an edit and its commit, within one verification, and a
command between a review and its confirmation; either takes three of both
together, with the activation or the write that follows. Three calls on pages of two give
a first page, a second one and a call that moves from one to the other; one
message under way is what a reload can overtake.
`MaxDay`, `MaxStalls`, `MaxEvents`, `MaxWrites`, `MaxChanges`, `MaxMoves`, `MaxArrivals`,
`MaxCalls`, `MaxJobs`, `MaxPage`, `MaxPosted` and the `max...` fields of a plan
and of a supply are the only bounds in guards; `Scale` and `MaxSample` bound the
rates and samples `Tripwire` can tell apart. Each is named where it is declared.

Deadlock is checked wherever the system cannot stop; it is switched off where it
really may: a closed recorder or a process that has ended
(`recorder_and_shadows`), workers that are all dead with no job left to make
(the `job_queue` runs), an application that has left all its blocks or an
operator without a further command (`reports_and_analysis`).

Fairness. `Shadow` and `Gateway!FairSpec`: a handler's wait for a slot has a
timeout, a send and a stream are bounded by the client's timeouts, a save
returns or raises, the worker loops run, and a shutdown once begun goes on
(`_DEFAULT_DRAIN_TIMEOUT`). Nothing obliges a client to call, the store to
succeed or the process to stop. `JobQueue`: a live worker polls and goes on, its
handler returns or raises, and the lease of a dead worker expires; nothing
obliges anybody to cancel, prune or miss a heartbeat. `Serving`: the refresh
loop runs and its reads return or raise, failing finitely often. `Evaluation`,
`Analysis`, `Replay`, `Desk` and `Console` are driven by people and
applications, who owe nobody a step: their properties are about safety alone.

Assumptions about the environment, taken from how the code uses it: uvicorn lets
request tasks finish before it runs the lifespan's shutdown, so nobody waits for
a slot of the queue when it closes; Starlette starts a streaming response's
generator before it can be cancelled, so its `finally` always runs; a thread in
`asyncio.to_thread` is not stopped by a cancellation and may still commit;
SQLite transactions are atomic and writers exclude each other; trace ids are
never reused (AUTOINCREMENT); a worker takes a fresh id when it starts; a Git
command sees one state of the repository, and another command the next.

## 4. Proofs

All results hold for every finite set of calls, every limit, price, queue size
and schedule, and for any number of jobs, workers, traces, revisions and use
cases, from the named assumptions on the constants only.

* `GatewayTheorems!GatewayTypeCorrect`: `Spec => []TypeOK`, operation by
  operation.
* `GatewayTheorems!GatewayInv`: a description of the life of a
  call (which combinations of handler, place in the queue, stage at the worker,
  row and reservation are possible) is inductive; `ReservationHeld` is read off it. The
  property alone is not inductive: that a discarded trace carried the
  reservation of its own call needs the place of every call in the queue.
* `GatewayTheorems!SnapshotCovers`: totals never fall below the reported rows,
  through restarts (the seed read from the rows that exist by then) and midnight.
* `GatewayTheorems!GlobalCeiling`, `UseCaseCeiling`, `SessionCeiling`: committed
  spend (settled plus in flight) never passes the ceiling at an admission, and a
  settlement replaces an estimate by at most itself in the covered sum. The
  three proofs share one argument about sums.
* `GatewayTheorems!UnknownRefused`: a session with a call billed on a model that
  has no price stays refused (one whose usage never arrived is not of unknown
  cost to the code: `gateway_missing_usage`). Across
  a restart this rests on the seed: between the read of the store and the start
  of the process nothing may be committed that the seed does not name.
  `GatewayTheorems!RoomFromSettlement` is an action property: every step either
  keeps what is committed (counters and reservations) or settles a call, whose
  reservation covers what its counter gains less.
* `ShadowTheorems`: type correctness; `ObserversToldOnce` and `RowsInQueueOrder`
  from an invariant of the queue (a trace is in it once and under its own stage,
  the worker holds the last trace taken out, whatever was committed has left) -
  proved for any client that only offers, and carried over to the manager by
  showing that each of its steps is a step of that queue or leaves it alone
  (`ManagerIsAClient`); `ShutdownSettles` from the order of the shutdown, in
  which no mirror is between two awaits once the manager has stopped; and
  `AttritionSound` from three counts of the mirrors of an experiment - those
  gone, those gone with a trace, those submitted - each no less than what the
  counters, the drops being flushed and the writes under way add up to.
* `EvaluationTheorems`: type correctness of the lifecycle, and four results.
  `RunsAreFaithful` takes posts in flight and rows as one set, which delivery,
  delay and repetition leave as it is; in it the events of a handle are
  numbered, and a handle that was not interrupted has an end exactly from its
  report or its exit on. That the end is among the rows when as many have
  arrived as were posted is counting. `ReportsStandAlways` says who is told what:
  a success in any row was reported, and the automatic report excludes one made
  within the block. `VerdictsAreSound` and `VerdictsKept` are about the intervals.
  At a fixed number of tasks the end of the Wilson interval grows with the
  failures: a rate that is above the interval of more failures is above that of
  fewer (`WilsonMonotonic`), from a comparison of squares; and the interval holds
  the observed rate (`WilsonCovers`), so a gap of intervals is one of rates. A
  report of a silent task leaves the closed tasks of its arm as many as they
  were and raises the lower bound or lowers the upper one, so a margin once
  exceeded stays exceeded; and the imputation that favours the one arm and not
  the other has the bounds of the records themselves, so what all imputations
  share is the verdict given. The constants stand for any margin, minimum, scale
  and sample; 50/13 for z squared is the code's 95%. The set of tasks may be infinite: those with traces
  are finitely many in every state.
* `JobQueueTheorems`: type correctness; an outcome is final; only the last
  claimer of a job writes it; a cancelled job is not claimed again; a job
  succeeds only on the sample it froze, and a discovery result whose sources
  were pruned is marked. The last two need the invariant of a worker and its
  claim (`WorkerInv`): as long as the job is still the worker's, nobody has
  claimed it since, and a sample it has read is protected from retention, so the
  check made before the handler ran still holds when the outcome is written.
* `JobQueueTheorems!Implements`: the queue implements `JobRegister`. The mapping
  forgets workers, leases and samples; every transaction is a submission, a try,
  a request to stop, an end or nothing at all of the register. That an end is
  `cancelled` only where somebody had asked for it, and a claim only where nobody
  had, is read from the guards of the transactions, and the outcomes that a
  worker may still report after losing its lease map to nothing.
* `ServingTheorems`: type correctness of router and control store; a use case
  has one owner (`OneOwnerAlways`, through every command and activation); and,
  read off one inductive invariant, `NeverStraddles`, `RunawayOnce` and
  `LiveStaysBound`. `BindingsInv` says of the table what the history cannot say
  alone: no task has two bindings, the table holds the most recent tasks in the
  order of their use, whatever a task was served by an experiment it is bound
  to, and its binding agrees with that in calls and breach. Without the order
  an eviction might take a task that is still calling, and its count with it.
  The proof asks nothing of the snapshots but their types, so it covers every
  mixture of states the refresh may leave, and any number of failed reads.
* `DeskTheorems!Reviewed`: a document is activated as it was confirmed. The
  invariant says of a reading that nothing has disturbed since it began that
  its text is the file's, from the second stage on that the file is HEAD's, and
  from the third that the revision is HEAD; and of a preview, that it showed
  such a reading. An edit or commit disturbs all readings, and then nothing is
  claimed of the revision, only of what was confirmed.
* `DeskTheorems!ScreenStands` and `InspectionStands`: the monitor. The agreement
  of the screen is inductive once the types are added. A reload is followed
  table by table - the row that is kept, the one that takes its place, the feed
  that follows - and through the collapse of empty panes, which spares the one
  that has the focus; the calls themselves may come and go in any order. A message
  under way excuses its table: it is handled where the cursor still is what it
  tells, and then selects the cursor's row, or it leaves the table to the next
  reload (`overtaken`). The
  layout commands are the other half: whoever closes or maximizes a pane gives
  the focus only to what is displayed, and the graphs their place back.
* `OfflineTheorems` is about the traces and everybody who has read some: an
  inference, a discovery job, a dataset, a replay. Each holds rows of an earlier
  store, so the invariant first says of the rows that an identifier names one
  call for ever and that what is derived follows from the call, kept or pruned
  (`RowInv`); a row read once can then be compared with the store (`Known`).
  `RetentionExact` needs the edges found and not yet stored to stand on their
  rows too, unless retention has touched these. `DiscoveryStands` needs, between
  the two reads of a preparation, that the tasks of the sample are in it with
  all their calls: then no command changes whether they match the scope without
  disturbing the sample. `ReplayHeldOut` needs of an edited manifest that every
  trace of the training part still has an entry with the cluster that the salt
  puts there; were a trace or its task on both sides, verification would find
  one cluster in both parts. In these three results what a verdict, a family or
  a request list computes plays no part.
* `OfflineTheorems!VerdictIsEarned`: what a verdict and a calibration compute. A
  judge is asked in several orders, and what it adds for the place of a
  response cancels out over them, so a difference is the gap of the qualities,
  to the judge's scale and style. For a calibration the labels lie on one line
  against the human scores; their variance is positive unless they are all
  alike, and the fitted slope and intercept are then the judge's own. These are
  laws of sums over finite sets. That a role is blessed by reports on calls of
  that role needs an invariant of its own (`EarnedInv`): a dataset, a queued
  replay and a report name the use case under which their rows were derived,
  unless a release of the enrichment has renamed every row since.
* `OfflineTheorems!FragmentsRest`: correlation. It goes through the traces in the
  order of their times, and the proof follows it: what the fragments know after
  so many traces is stated of the traces before, and one more trace keeps it.
  Then a call is joined exactly where it shows evidence for one fragment, and
  correlating what was correlated finds the same tasks again. Equal times are
  told apart by the identifier, so the order of a store is total (`TimeInv`
  and `RowInv`).
* `FamilyTheorems!FamiliesAddUp`: families, their projections, proposals and
  comparison. Similarity is shown symmetric and bounded by sums compared member
  by member; the component of a task, built neighbour by neighbour, is complete
  after as many rounds as there are tasks, so components are classes; and a
  family's identifier is the shape of its representative, and tasks of one shape
  are alike. What is shown adds up because counts are sums of ones and a sum over
  tasks is one over the paths they took. In a report compared with itself the
  best pair left is a family and itself, and what it takes away leaves the rest
  as they were: the greedy matching is the identity, round by round. Nothing is
  asked of the rows but that they carry finitely many tool results (`TimeInv`).

The library's induction theorems cannot be instantiated by the installed
provers. Where a proof needs induction, over numbers, over the subsets of a
finite set or over the traces of a view, it is stated for a set of those that
are good (`ByInduction`, `SetInduction`) and proved from a least counterexample;
sums are reduced to the cardinality of a set of units, or compared one
element at a time. `AnalysisAssumption` asks of the supplies no more than
the code gives: a planned task makes at least one call, a task has a number,
and a body carries finitely many tool results.

Only model-checked: liveness (`ReservationsSettle`, `MirrorsEnd`, `JobsSettle`
and the others of the runs under fairness), since the prover has no ENABLED; the
types of the composition of scenes (`OperatorTypeOK`), whose parts have theorems
of their own or are functions; and the code's disagreements with its
documentation, which are behaviours and not laws.

## 5. Not modelled, and why

Edges, aggregate flows and step detail of the workflow graph, the catalog, the
batching of tools and the recommendations are read-only functions of rows;
investigation screens, time windows, formatting and argument parsing render
them. Of the console's nine lists three are modelled: the others repeat the
selection and collapsing of `discovered`. The statistics are floating point:
`Tripwire` has the Wilson interval in whole parts of `Scale`, rounded outwards,
so its definite verdicts are the code's and the code may give one where the
model is inconclusive by less than two parts in each bound;
`Judging` chooses the bootstrap's lower bound between the extremes of the
differences. Scores of steps are left out, those of tasks are below the reader's
threshold or not. The in-memory store is a test double. Parsing of provider
usage and the price table are data; request identity, path prefixes and
injection are functions of one request, and the layering of settings runs once,
before anything else. The hash that assigns an arm is a constant function, so
nothing is said of its balance. Migrations run once, in one transaction. The
advisory lock between writers and compaction, and redaction, are left: SQLite's
own locking of the file below them is not visible in the code. Hazards without a
property carry a note in `PROJECT.json`.

### Met on the way

Places where the code is less than its documentation or its own comments
suggest, which the models show as they are, without a run of their own:

* A failed save releases its reservation and charges the observed cost
  (`recorder.py:154-156`, `gateway/app.py:92-96`), where `docs/configure.md:189-190`
  keeps the reservation until restart: `HeldWhileOutstanding` has it the code's way.
* The verdict of an experiment on a step takes the last end of a run whose handles
  ended it differently (`recorder/sqlite/reporting/tasks.py:195-196`), where
  `docs/workflow-identity.md:149-151` has reports exclude it from success
  statistics, as the metrics do. `ReportsStand` names the exception.
* A message of the cursor that is handled after a reload selects a row that may be
  gone, and one from the top row turns the feed on over a call that is no longer
  the newest, though the comment at `cli/tui/tables/detail.py:91-94` relies on the
  position, "so a stale key can't mis-toggle it". The next reload repairs both;
  `ScreenAgrees` excuses the table until then (`overtaken`).
* A document is loaded before its revision is verified (`cli/control.py`,
  `git_config.py` of the console): if it is edited and reverted in between, it
  is activated under a revision that does not have it. `ActivationIsReviewed`
  says what holds: never under another revision than the operator was shown, and
  under its own one if nothing moved.
* Clearing a route removes whatever route the use case has by then, not the one
  the screen displays.
* An inference replaces the table of edges with what it found before retention
  took the evidence (`edges` until the next inference; `inference.stale`).
* The numbers around a discovery sample come from a second read of the store.
* Re-enrichment under a queued discovery job changes what its sample was bound
  to, and the job fails.
* `requests_for_use_case` does not leave out pruned rows; they fail one by one.
* A campaign refuses a report on a role beside a report on a step of the same
  use case as duplicates (`cli/evaluation/campaign.py`).
* An echoed tool call is ascribed to the trace before it, which need not have
  produced it (`structures.py`); ties between families are broken by the order
  of hashes (`comparison.py`).
* After a failed read the monitor keeps `has_more` of the read before.
* A predecessor list of the document may be cyclic, only a loop of one is refused.

## 6. Plan

Done: `Budget`, `Recorder`, `Gateway` and their proofs; `JobQueue` with its
abstract register and proofs; `ControlStore`, `Serving`, `Desk` and their proofs; `Shadow`,
`Lifecycle`, `Tripwire`, `Evaluation` and their proofs; `TraceLinks`, `Families`,
`Judging`, `Analysis`, `Replay` and their proofs; `Console` and its proofs.

Left, in this order:

1. A ledger of which `Gateway` is a refinement (admitted, outstanding, settled).
2. Maintenance: the advisory lock, compaction, redaction.
3. The layers of the settings and the remaining readers of the workflow graph.

