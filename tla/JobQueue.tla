------------------------------ MODULE JobQueue ------------------------------
(***************************************************************************)
(* Durable background jobs: the queue in the store (recorder/sqlite/       *)
(* jobs.py), the workers that claim and run one job at a time (jobs/       *)
(* worker.py, jobs/context.py), the two kinds of frozen-sample job they    *)
(* run, and the retention commands (recorder/sqlite/maintenance.py) that   *)
(* delete recorded traffic under them.                                     *)
(*                                                                         *)
(* Workers, the CLI and the console are processes of their own: each store *)
(* call is one transaction and one step, and anything may happen between   *)
(* two of them.  A worker takes a fresh id when it starts, so one that has *)
(* died never comes back; a restarted one is another member of Worker.     *)
(***************************************************************************)
EXTENDS Integers, Sequences, FiniteSets

CONSTANTS
    Job,        \* job ids
    Worker,     \* worker ids, one per worker process
    Trace,      \* trace ids, in the order they were recorded
    Task,       \* workflow tasks
    None,
    TaskOf,     \* the task a trace belongs to
    Sample,     \* the recorded traces a job's plan selects
    Discovery,  \* the jobs of kind workflow_discovery
    Handled,    \* the jobs whose kind the workers have a handler for
    MaxStalls   \* bound: how often a live worker misses its heartbeat

ASSUME JobAssumption ==
    /\ Trace \subseteq Nat
    /\ TaskOf \in [Trace -> Task]
    /\ Sample \in [Job -> SUBSET Trace]
    /\ Discovery \subseteq Job /\ Handled \subseteq Job
    /\ None \notin Job /\ None \notin Worker
    /\ MaxStalls \in Nat

VARIABLES
    created,          \* the jobs made so far, by created_at
    status,           \* jobs.status, or where a job is before it has a row
    cancelRequested,  \* jobs.cancel_requested
    workerId,         \* jobs.worker_id
    fresh,            \* heartbeat_at is younger than stale_after
    attempt,          \* jobs.attempt
    frozen,           \* the job's trace_ids
    bound,            \* those of them that had their payload when frozen
    pruned,           \* the traces without a payload
    erased,           \* the traces deleted
    invalidated,      \* workflow_discovery_invalidations
    pc,               \* where each worker is
    run,              \* the job, and its attempt, a worker has claimed
    beating,          \* its heartbeat thread is alive
    stalls            \* heartbeats missed by live workers so far

jobVars == <<created, status, cancelRequested, workerId, fresh, attempt>>
sampleVars == <<frozen, bound>>
retentionVars == <<pruned, erased, invalidated>>
workerVars == <<pc, run, beating>>
vars == <<jobVars, sampleVars, retentionVars, workerVars, stalls>>

Terminal == {"succeeded", "failed", "cancelled"}
Status == {"absent", "planned", "queued", "running"} \cup Terminal
At == {"idle", "claimed", "reading", "running", "returned", "completing",
       "failing", "cancelling", "dead"}

Idle == [job |-> None, attempt |-> 0]

Init ==
    /\ created = <<>>
    /\ status = [j \in Job |-> "absent"]
    /\ cancelRequested = [j \in Job |-> FALSE]
    /\ workerId = [j \in Job |-> None]
    /\ fresh = [j \in Job |-> FALSE]
    /\ attempt = [j \in Job |-> 0]
    /\ frozen = [j \in Job |-> {}]
    /\ bound = [j \in Job |-> {}]
    /\ pruned = {}
    /\ erased = {}
    /\ invalidated = {}
    /\ pc = [w \in Worker |-> "idle"]
    /\ run = [w \in Worker |-> Idle]
    /\ beating = [w \in Worker |-> FALSE]
    /\ stalls = 0

-----------------------------------------------------------------------------
(* Planning, queueing and cancelling: the CLI and the console *)

Active(j) == status[j] \in {"queued", "running"}

\* prepare_replay_job() and prepare_workflow_discovery_job() freeze a sample
\* before anything is written, with or without its payloads.
Prepare(j) ==
    LET sample == Sample[j] \ erased
    IN  /\ status[j] = "absent"
        /\ sample # {}
        /\ status' = [status EXCEPT ![j] = "planned"]
        /\ created' = Append(created, j)
        /\ frozen' = [frozen EXCEPT ![j] = sample]
        /\ bound' = [bound EXCEPT ![j] = sample \ pruned]
        /\ UNCHANGED <<cancelRequested, workerId, fresh, attempt,
                       retentionVars, workerVars, stalls>>

\* create_job(): later, and in a transaction of its own.
Queue(j) ==
    /\ status[j] = "planned"
    /\ status' = [status EXCEPT ![j] = "queued"]
    /\ UNCHANGED <<created, cancelRequested, workerId, fresh, attempt,
                   sampleVars, retentionVars, workerVars, stalls>>

\* request_job_cancel()
Cancel(j) ==
    /\ Active(j)
    /\ cancelRequested' = [cancelRequested EXCEPT ![j] = TRUE]
    /\ status' = [status EXCEPT
          ![j] = IF @ = "queued" THEN "cancelled" ELSE @]
    /\ UNCHANGED <<created, workerId, fresh, attempt, sampleVars,
                   retentionVars, workerVars, stalls>>

-----------------------------------------------------------------------------
(* Claims and leases *)

Before(j, k) ==
    \E m, n \in 1 .. Len(created) :
        m < n /\ created[m] = j /\ created[n] = k

\* Fault: a job whose worker is gone is not claimed again.
ClaimableQueued == {j \in Job : ~cancelRequested[j] /\ status[j] = "queued"}

Claimable ==
    {j \in Job :
        /\ ~cancelRequested[j]
        /\ status[j] = "queued" \/ (status[j] = "running" /\ ~fresh[j])}

\* claim_job(): the oldest of them.
Claim(w) ==
    /\ pc[w] = "idle"
    /\ \E j \in Claimable :
          /\ \A k \in Claimable : ~Before(k, j)
          /\ status' = [status EXCEPT ![j] = "running"]
          /\ workerId' = [workerId EXCEPT ![j] = w]
          /\ fresh' = [fresh EXCEPT ![j] = TRUE]
          /\ attempt' = [attempt EXCEPT ![j] = @ + 1]
          /\ run' = [run EXCEPT ![w] = [job |-> j, attempt |-> attempt[j] + 1]]
    /\ pc' = [pc EXCEPT ![w] = "claimed"]
    /\ UNCHANGED <<created, cancelRequested, sampleVars, retentionVars,
                   beating, stalls>>

\* Fault: the update of a job's row has no guard at all.
HoldsUnguarded(w) == run[w].job # None

\* Fault: any worker that ever claimed the job still holds it.
HoldsAnyway(w) == run[w].job # None /\ status[run[w].job] = "running"

\* The guard of every update a worker makes to its job's row.
Holds(w) ==
    /\ run[w].job # None
    /\ workerId[run[w].job] = w
    /\ status[run[w].job] = "running"

\* heartbeat_job() and update_job_progress() succeed.
Keeps(w) == Holds(w) /\ ~cancelRequested[run[w].job]

Refresh(w) == fresh' = [fresh EXCEPT ![run[w].job] = TRUE]

\* The heartbeat thread: it ends when the job is no longer the worker's, or
\* dies of an error of the store.
Beat(w) ==
    /\ beating[w]
    /\ \/ Keeps(w) /\ Refresh(w) /\ UNCHANGED beating
       \/ beating' = [beating EXCEPT ![w] = FALSE] /\ UNCHANGED fresh
    /\ UNCHANGED <<created, status, cancelRequested, workerId, attempt,
                   sampleVars, retentionVars, pc, run, stalls>>

\* Time passes without a heartbeat: the worker is dead, or merely slow.  The
\* age of a heartbeat matters only while the job is running.
Expire(j) ==
    /\ status[j] = "running"
    /\ fresh[j]
    /\ fresh' = [fresh EXCEPT ![j] = FALSE]
    /\ IF pc[workerId[j]] = "dead" THEN stalls' = stalls
       ELSE stalls < MaxStalls /\ stalls' = stalls + 1
    /\ UNCHANGED <<created, status, cancelRequested, workerId, attempt,
                   sampleVars, retentionVars, workerVars>>

-----------------------------------------------------------------------------
(* Worker.run_once() *)

Goes(w, to) == pc' = [pc EXCEPT ![w] = to]

\* Without a handler the job fails; with one, the heartbeat thread starts.
Begin(w) ==
    /\ pc[w] = "claimed"
    /\ IF run[w].job \in Handled
       THEN Goes(w, "reading") /\ beating' = [beating EXCEPT ![w] = TRUE]
       ELSE Goes(w, "failing") /\ UNCHANGED beating
    /\ UNCHANGED <<jobVars, sampleVars, retentionVars, run, stalls>>

SampleIntact(j) == frozen[j] \cap erased = {} /\ frozen[j] \ pruned = bound[j]

\* requests_by_ids() refuses a trace that is gone or has no payload; the
\* discovery handler compares every row with the digest bound for it.
Replayable(j) ==
    /\ SampleIntact(j)
    /\ j \notin Discovery => frozen[j] \cap pruned = {}

\* Fault: the sample shrinks to what is left of it.
ReadWhatIsLeft(w) ==
    /\ pc[w] = "reading"
    /\ Goes(w, "running")
    /\ UNCHANGED <<jobVars, sampleVars, retentionVars, run, beating, stalls>>

Read(w) ==
    /\ pc[w] = "reading"
    /\ Goes(w, IF Replayable(run[w].job) THEN "running" ELSE "failing")
    /\ UNCHANGED <<jobVars, sampleVars, retentionVars, run, beating, stalls>>

\* JobContext.progress() inside the handler: JobCancelled unless the job is
\* still the worker's and nobody has cancelled it.
Progress(w) ==
    /\ pc[w] = "running"
    /\ IF Keeps(w) THEN Refresh(w) /\ UNCHANGED pc
       ELSE Goes(w, "cancelling") /\ UNCHANGED fresh
    /\ UNCHANGED <<created, status, cancelRequested, workerId, attempt,
                   sampleVars, retentionVars, run, beating, stalls>>

\* The handler's own error, or one of its store calls'.
HandlerRaises(w) ==
    /\ pc[w] \in {"reading", "running"}
    /\ Goes(w, "failing")
    /\ UNCHANGED <<jobVars, sampleVars, retentionVars, run, beating, stalls>>

HandlerReturns(w) ==
    /\ pc[w] = "running"
    /\ Goes(w, "returned")
    /\ UNCHANGED <<jobVars, sampleVars, retentionVars, run, beating, stalls>>

\* The last checkpoint before the job is completed.
Checkpoint(w) ==
    /\ pc[w] = "returned"
    /\ IF Keeps(w) THEN Refresh(w) /\ Goes(w, "completing")
       ELSE Goes(w, "cancelling") /\ UNCHANGED fresh
    /\ UNCHANGED <<created, status, cancelRequested, workerId, attempt,
                   sampleVars, retentionVars, run, beating, stalls>>

\* Fault: the row is given the name of the worker's step.
OutcomeOfStep(w) == pc[w]

Outcome(w) ==
    CASE pc[w] = "completing" -> "succeeded"
      [] pc[w] = "failing" -> "failed"
      [] OTHER -> "cancelled"

\* complete_job(), fail_job() or cancel_claimed_job(), then the join of the
\* heartbeat thread.
FinishJob(w) ==
    /\ pc[w] \in {"completing", "failing", "cancelling"}
    /\ IF Holds(w)
       THEN status' = [status EXCEPT ![run[w].job] = Outcome(w)] /\ Refresh(w)
       ELSE UNCHANGED <<status, fresh>>
    /\ Goes(w, "idle")
    /\ run' = [run EXCEPT ![w] = Idle]
    /\ beating' = [beating EXCEPT ![w] = FALSE]
    /\ UNCHANGED <<created, cancelRequested, workerId, attempt, sampleVars,
                   retentionVars, stalls>>

\* The process is killed or interrupted, or dies of an error of the store in
\* a claim or an outcome, which nothing catches.
Crash(w) ==
    /\ pc[w] # "dead"
    /\ Goes(w, "dead")
    /\ run' = [run EXCEPT ![w] = Idle]
    /\ beating' = [beating EXCEPT ![w] = FALSE]
    /\ UNCHANGED <<jobVars, sampleVars, retentionVars, stalls>>

-----------------------------------------------------------------------------
(* Retention *)

Protected == UNION {frozen[j] : j \in {k \in Job : Active(k)}}

\* Fault: a completed discovery job is not told that its sources are gone.
PruneSilently ==
    \E cutoff \in Trace :
        LET gone == {t \in Trace \ (pruned \cup erased \cup Protected) :
                        t <= cutoff}
        IN  /\ gone # {}
            /\ pruned' = pruned \cup gone
            /\ UNCHANGED <<jobVars, sampleVars, erased, invalidated,
                           workerVars, stalls>>

\* prune_trace_payloads(): the traces older than the cutoff that no active
\* job has frozen; completed discovery jobs over any of them are marked.
Prune ==
    \E cutoff \in Trace :
        LET gone == {t \in Trace \ (pruned \cup erased \cup Protected) :
                        t <= cutoff}
        IN  /\ gone # {}
            /\ pruned' = pruned \cup gone
            /\ invalidated' = invalidated \cup
                  {j \in Discovery :
                      status[j] = "succeeded" /\ frozen[j] \cap gone # {}}
            /\ UNCHANGED <<jobVars, sampleVars, erased, workerVars, stalls>>

\* erase_workflow_task(): refused while an active job has frozen any of it.
Erase ==
    \E k \in Task :
        LET gone == {t \in Trace \ erased : TaskOf[t] = k}
        IN  /\ gone # {}
            /\ gone \cap Protected = {}
            /\ erased' = erased \cup gone
            /\ pruned' = pruned \ gone
            /\ UNCHANGED <<jobVars, sampleVars, invalidated, workerVars,
                           stalls>>

-----------------------------------------------------------------------------
RunOnce(w) ==
    \/ Claim(w) \/ Begin(w) \/ Read(w) \/ HandlerRaises(w)
    \/ HandlerReturns(w) \/ Checkpoint(w) \/ FinishJob(w)

Next ==
    \/ \E j \in Job : Prepare(j) \/ Queue(j) \/ Cancel(j) \/ Expire(j)
    \/ \E w \in Worker : RunOnce(w) \/ Progress(w) \/ Beat(w) \/ Crash(w)
    \/ Prune \/ Erase

\* A live worker polls and goes on with its job, a handler returns or raises
\* (its upstream calls have timeouts), and the lease of a dead worker expires.
Fairness ==
    /\ \A w \in Worker : WF_vars(RunOnce(w))
    /\ \A j \in Job :
          WF_vars(status[j] = "running" /\ pc[workerId[j]] = "dead" /\ Expire(j))

Spec == Init /\ [][Next]_vars /\ Fairness

-----------------------------------------------------------------------------
TypeOK ==
    /\ created \in Seq(Job)
    /\ status \in [Job -> Status]
    /\ cancelRequested \in [Job -> BOOLEAN]
    /\ workerId \in [Job -> Worker \cup {None}]
    /\ fresh \in [Job -> BOOLEAN]
    /\ attempt \in [Job -> Nat]
    /\ frozen \in [Job -> SUBSET Trace]
    /\ bound \in [Job -> SUBSET Trace]
    /\ pruned \in SUBSET Trace
    /\ erased \in SUBSET Trace
    /\ invalidated \in SUBSET Job
    /\ pc \in [Worker -> At]
    /\ run \in [Worker -> [job : Job \cup {None}, attempt : Nat]]
    /\ beating \in [Worker -> BOOLEAN]
    /\ stalls \in 0 .. MaxStalls

\* The register a submitter sees through the leases: a planned job is not in
\* it yet, a claimed one is being tried.
Shown(s) ==
    CASE s \in {"absent", "planned"} -> "none"
      [] s = "queued" -> "pending"
      [] s = "running" -> "trying"
      [] s \in Terminal -> s

Phase == [j \in Job |-> Shown(status[j])]

Register == INSTANCE JobRegister WITH
    Outcomes <- Terminal, phase <- Phase, tries <- attempt,
    asked <- cancelRequested

\* The queue implements the register: a worker that lost its lease may run on
\* for as long as it likes and still finish, fail or give up, yet no outcome is
\* written twice, none of a job nobody claimed, no try follows a cancel, and
\* "cancelled" is never what became of a job nobody cancelled.
KeepsRegister == Register!Spec

\* The outcome of a job is written once.  A worker that lost its lease may
\* run on for as long as it likes and still finish, fail or give up: it must
\* not overwrite what the worker that replaced it has recorded.
OutcomeIsFinal ==
    [][\A j \in Job : status[j] \in Terminal => status'[j] = status[j]]_vars

\* A running job is ended only by the worker that claimed it last: leases are
\* told apart by worker id alone, never by the attempt.
OnlyLastClaimFinishes ==
    [][\A j \in Job : status[j] = "running" /\ status'[j] \in Terminal =>
          \E w \in Worker : /\ run[w] = [job |-> j, attempt |-> attempt[j]]
                            /\ run'[w] = Idle /\ pc'[w] = "idle"]_vars

\* A job succeeds only over the sample it froze.  Nothing protects the sample
\* before the job is queued, and a worker that lost its job reads unprotected
\* traces: whatever was pruned or erased meanwhile ends in a failure.
SucceedsOnFrozenSample ==
    [][\A j \in Job : status[j] # "succeeded" /\ status'[j] = "succeeded" =>
          SampleIntact(j)]_vars

\* A discovery result whose sources have been pruned since is marked, so that
\* jobs export refuses it, in whatever order runs and retention interleave.
PrunedEvidenceIsMarked ==
    \A j \in Discovery : status[j] = "succeeded" =>
        (frozen[j] \ erased) \ pruned = bound[j] \ erased \/ j \in invalidated

\* A cancelled job is never started again, and what it was running ends
\* without a new attempt.
CancelledStaysDown ==
    [][\A j \in Job : cancelRequested[j] => attempt'[j] = attempt[j]]_vars

Stranded(j) ==
    cancelRequested[j] /\ status[j] = "running" /\ pc[workerId[j]] = "dead"

Unattended == \A w \in Worker : pc[w] = "dead"

\* Every queued job is settled as long as one worker lives, whatever becomes
\* of the others: their leases expire and their jobs are claimed again.  (Not
\* so for one that was cancelled and lost its worker: StaleIsReclaimed.)
JobsSettle ==
    \A j \in Job :
        Active(j) ~> (status[j] \in Terminal \/ Stranded(j) \/ Unattended)

\* cli/arguments/runtime.py:66, "reclaim a job after this many seconds
\* without heartbeat".
StaleIsReclaimed ==
    \A j \in Job :
        (status[j] = "running" /\ ~fresh[j])
            ~> (status[j] \in Terminal \/ fresh[j] \/ Unattended)

=============================================================================
