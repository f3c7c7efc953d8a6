-------------------------- MODULE JobQueueTheorems --------------------------
(***************************************************************************)
(* Proofs about JobQueue: type correctness, the finality and ownership of  *)
(* outcomes, and the samples that jobs succeed on, for any number of jobs, *)
(* workers and traces.                                                     *)
(***************************************************************************)
EXTENDS JobQueue, TLAPS

Past(w) == pc[w] \in {"running", "returned", "completing"}

\* What a worker knows of the job it still holds: nobody has claimed it since,
\* and its sample, once read, is protected.
WorkerInv(w) ==
    run[w].job # None /\ workerId[run[w].job] = w =>
        /\ run[w].attempt = attempt[run[w].job]
        /\ status[run[w].job] = "running" /\ Past(w) => SampleIntact(run[w].job)

Inv == TypeOK /\ (\A w \in Worker : WorkerInv(w)) /\ PrunedEvidenceIsMarked

-----------------------------------------------------------------------------
(* Type correctness *)

LEMMA InitType == Init => TypeOK
BY JobAssumption DEF Init, TypeOK, Status, At, Idle

\* The commands of the CLI and the console, and retention, keep the types ...
LEMMA CommandType ==
    ASSUME TypeOK,
           \/ \E j \in Job : Prepare(j) \/ Queue(j) \/ Cancel(j) \/ Expire(j)
           \/ Prune \/ Erase
    PROVE  TypeOK'
<1>1. ASSUME NEW j \in Job, Prepare(j) PROVE TypeOK'
  <2>1. Sample[j] \ erased \in SUBSET Trace
    BY JobAssumption
  <2> QED
    BY <1>1, <2>1
    DEF Prepare, TypeOK, Status, retentionVars, workerVars
<1>2. ASSUME NEW j \in Job, Queue(j) PROVE TypeOK'
  BY <1>2 DEF Queue, TypeOK, Status, sampleVars, retentionVars, workerVars
<1>3. ASSUME NEW j \in Job, Cancel(j) PROVE TypeOK'
  BY <1>3
  DEF Cancel, TypeOK, Status, Terminal, sampleVars, retentionVars, workerVars
<1>4. ASSUME NEW j \in Job, Expire(j) PROVE TypeOK'
  BY <1>4, JobAssumption
  DEF Expire, TypeOK, sampleVars, retentionVars, workerVars
<1>5. CASE Prune
  BY <1>5, JobAssumption
  DEF Prune, TypeOK, jobVars, sampleVars, workerVars
<1>6. CASE Erase
  BY <1>6 DEF Erase, TypeOK, jobVars, sampleVars, workerVars
<1> QED
  BY <1>1, <1>2, <1>3, <1>4, <1>5, <1>6

\* ... and so does every step of a worker.
LEMMA WorkerType ==
    ASSUME TypeOK, NEW w \in Worker,
           RunOnce(w) \/ Progress(w) \/ Beat(w) \/ Crash(w)
    PROVE  TypeOK'
<1>1. CASE Claim(w)
  <2>1. PICK j \in Claimable :
          /\ status' = [status EXCEPT ![j] = "running"]
          /\ workerId' = [workerId EXCEPT ![j] = w]
          /\ fresh' = [fresh EXCEPT ![j] = TRUE]
          /\ attempt' = [attempt EXCEPT ![j] = @ + 1]
          /\ run' = [run EXCEPT ![w] = [job |-> j, attempt |-> attempt[j] + 1]]
    BY <1>1 DEF Claim
  <2>2. j \in Job
    BY DEF Claimable
  <2> QED
    BY <1>1, <2>1, <2>2
    DEF Claim, TypeOK, Status, At, sampleVars, retentionVars
<1>2. CASE Begin(w) \/ Read(w) \/ HandlerRaises(w) \/ HandlerReturns(w)
  BY <1>2
  DEF Begin, Read, HandlerRaises, HandlerReturns, Goes, TypeOK, At, jobVars,
      sampleVars, retentionVars
<1>3. CASE Progress(w) \/ Checkpoint(w) \/ Beat(w)
  BY <1>3
  DEF Progress, Checkpoint, Beat, Keeps, Holds, Refresh, Goes, TypeOK, At,
      sampleVars, retentionVars
<1>4. CASE FinishJob(w)
  <2>1. Outcome(w) \in Status
    BY DEF Outcome, Status, Terminal
  <2> QED
    BY <1>4, <2>1
    DEF FinishJob, Holds, Refresh, Goes, TypeOK, At, Idle, sampleVars,
        retentionVars
<1>5. CASE Crash(w)
  BY <1>5
  DEF Crash, Goes, TypeOK, At, Idle, jobVars, sampleVars, retentionVars
<1> QED
  BY <1>1, <1>2, <1>3, <1>4, <1>5 DEF RunOnce

LEMMA NextType == TypeOK /\ [Next]_vars => TypeOK'
<1>1. ASSUME TypeOK, UNCHANGED vars PROVE TypeOK'
  BY <1>1 DEF TypeOK, vars, jobVars, sampleVars, retentionVars, workerVars
<1> QED
  BY <1>1, CommandType, WorkerType DEF Next

\* Every reachable state is well typed, for any number of jobs and workers.
THEOREM JobQueueTypes == Spec => []TypeOK
BY InitType, NextType, PTL DEF Spec

-----------------------------------------------------------------------------
(* Outcomes *)

\* The status of a job changes along its life only: what ends it is a cancel
\* while it is queued or the worker that holds it while it is running.
LEMMA StatusStep ==
    ASSUME TypeOK, [Next]_vars, NEW j \in Job, status'[j] # status[j]
    PROVE  \/ /\ status[j] \notin Terminal
              /\ status'[j] \in {"planned", "queued", "running"}
           \/ status[j] = "queued" /\ status'[j] = "cancelled"
           \/ \E w \in Worker :
                /\ FinishJob(w)
                /\ run[w].job = j
                /\ Holds(w)
                /\ status[j] = "running"
                /\ status'[j] = Outcome(w)
<1>1. ASSUME NEW k \in Job, Prepare(k) \/ Queue(k) PROVE status[j] \notin Terminal
                /\ status'[j] \in {"planned", "queued", "running"}
  BY <1>1 DEF Prepare, Queue, TypeOK, Terminal
<1>2. ASSUME NEW k \in Job, Cancel(k)
      PROVE  status[j] = "queued" /\ status'[j] = "cancelled"
  BY <1>2 DEF Cancel, TypeOK
<1>3. ASSUME NEW k \in Job, Expire(k) PROVE FALSE
  BY <1>3 DEF Expire
<1>4. ASSUME Prune \/ Erase \/ UNCHANGED vars PROVE FALSE
  BY <1>4 DEF Prune, Erase, vars, jobVars
<1>5. ASSUME NEW w \in Worker, Claim(w)
      PROVE  status[j] \notin Terminal
                /\ status'[j] \in {"planned", "queued", "running"}
  BY <1>5 DEF Claim, Claimable, TypeOK, Terminal
<1>6. ASSUME NEW w \in Worker, FinishJob(w)
      PROVE  /\ FinishJob(w)
             /\ run[w].job = j
             /\ Holds(w)
             /\ status[j] = "running"
             /\ status'[j] = Outcome(w)
  BY <1>6 DEF FinishJob, Holds, TypeOK
<1>7. ASSUME NEW w \in Worker,
             \/ Begin(w) \/ Read(w) \/ HandlerRaises(w) \/ HandlerReturns(w)
             \/ Checkpoint(w) \/ Progress(w) \/ Beat(w) \/ Crash(w)
      PROVE  FALSE
  BY <1>7
  DEF Begin, Read, HandlerRaises, HandlerReturns, Checkpoint, Progress, Beat,
      Crash, jobVars
<1> QED
  BY <1>1, <1>2, <1>3, <1>4, <1>5, <1>6, <1>7 DEF Next, RunOnce

\* The outcome of a job is written once, however many workers run it.
THEOREM OutcomesAreFinal == Spec => OutcomeIsFinal
<1>1. TypeOK /\ [Next]_vars =>
          [\A j \in Job : status[j] \in Terminal => status'[j] = status[j]]_vars
  BY StatusStep DEF Terminal
<1> QED
  BY <1>1, JobQueueTypes, PTL DEF Spec, OutcomeIsFinal

\* A job whose cancellation was asked for is never claimed again.
THEOREM CancelledStays == Spec => CancelledStaysDown
<1>1. TypeOK /\ [Next]_vars =>
          [\A j \in Job : cancelRequested[j] => attempt'[j] = attempt[j]]_vars
  <2> SUFFICES ASSUME TypeOK, Next, NEW j \in Job, cancelRequested[j]
               PROVE  attempt'[j] = attempt[j]
    OBVIOUS
  <2>1. ASSUME NEW w \in Worker, Claim(w) PROVE attempt'[j] = attempt[j]
    BY <2>1 DEF Claim, Claimable, TypeOK
  <2> QED
    BY <2>1
    DEF Next, RunOnce, Prepare, Queue, Cancel, Expire, Begin, Read,
        HandlerRaises, HandlerReturns, Checkpoint, FinishJob, Progress, Beat,
        Crash, Prune, Erase, jobVars
<1> QED
  BY <1>1, JobQueueTypes, PTL DEF Spec, CancelledStaysDown

-----------------------------------------------------------------------------
(* Ownership and samples *)

LEMMA InitInv == Init => Inv
<1> SUFFICES ASSUME Init PROVE Inv
  OBVIOUS
<1>1. TypeOK
  BY InitType
<1>2. \A w \in Worker : WorkerInv(w)
  BY DEF Init, WorkerInv, Idle
<1>3. PrunedEvidenceIsMarked
  BY JobAssumption DEF Init, PrunedEvidenceIsMarked
<1> QED
  BY <1>1, <1>2, <1>3 DEF Inv

\* The commands leave what a worker holds alone: a job that has not been made
\* yet is nobody's, a cancelled one keeps its claim.
LEMMA CommandKeeps ==
    ASSUME Inv, NEW w \in Worker, NEW j \in Job,
           Prepare(j) \/ Queue(j) \/ Cancel(j) \/ Expire(j)
    PROVE  WorkerInv(w)'
<1> USE DEF Inv, TypeOK, WorkerInv, SampleIntact, Past
<1>1. CASE Prepare(j)
  BY <1>1 DEF Prepare, retentionVars, workerVars
<1>2. CASE Queue(j)
  BY <1>2 DEF Queue, sampleVars, retentionVars, workerVars
<1>3. CASE Cancel(j)
  BY <1>3 DEF Cancel, sampleVars, retentionVars, workerVars
<1>4. CASE Expire(j)
  BY <1>4 DEF Expire, sampleVars, retentionVars, workerVars
<1> QED
  BY <1>1, <1>2, <1>3, <1>4

\* Retention takes nothing that a running job has frozen.
LEMMA RunningIsProtected ==
    ASSUME TypeOK, NEW j \in Job, status[j] = "running"
    PROVE  frozen[j] \subseteq Protected
BY DEF Protected, Active

LEMMA RetentionKeeps ==
    ASSUME Inv, NEW w \in Worker, Prune \/ Erase
    PROVE  WorkerInv(w)'
<1>1. UNCHANGED <<status, workerId, attempt, run, pc, frozen, bound>>
  BY DEF Prune, Erase, jobVars, sampleVars, workerVars
<1>2. ASSUME NEW j \in Job, status[j] = "running", SampleIntact(j)
      PROVE  SampleIntact(j)'
  <2>1. frozen[j] \subseteq Protected
    BY <1>2, RunningIsProtected DEF Inv
  <2>2. CASE Prune
    BY <1>1, <1>2, <2>1, <2>2 DEF Prune, SampleIntact
  <2>3. CASE Erase
    BY <1>1, <1>2, <2>1, <2>3 DEF Erase, SampleIntact, Inv, TypeOK
  <2> QED
    BY <2>2, <2>3
<1>3. Past(w)' = Past(w)
  BY <1>1 DEF Past
<1> QED
  BY <1>1, <1>2, <1>3 DEF Inv, TypeOK, WorkerInv, SampleIntact

\* A claim makes the claimer the holder, and nobody else of the same job.
LEMMA ClaimKeeps ==
    ASSUME Inv, NEW v \in Worker, NEW w \in Worker, Claim(v)
    PROVE  WorkerInv(w)'
<1>1. PICK j \in Claimable :
        /\ status' = [status EXCEPT ![j] = "running"]
        /\ workerId' = [workerId EXCEPT ![j] = v]
        /\ attempt' = [attempt EXCEPT ![j] = @ + 1]
        /\ run' = [run EXCEPT ![v] = [job |-> j, attempt |-> attempt[j] + 1]]
  BY DEF Claim
<1>2. j \in Job
  BY DEF Claimable
<1>3. pc' = [pc EXCEPT ![v] = "claimed"] /\ UNCHANGED <<sampleVars, retentionVars>>
  BY DEF Claim
<1>4. CASE w = v
  BY <1>1, <1>2, <1>3, <1>4 DEF Inv, TypeOK, WorkerInv, Past
<1>5. CASE w # v /\ run[w].job = j
  BY <1>1, <1>2, <1>3, <1>5 DEF Inv, TypeOK, WorkerInv
<1>6. CASE w # v /\ run[w].job # j
  BY <1>1, <1>2, <1>3, <1>6
  DEF Inv, TypeOK, WorkerInv, Past, SampleIntact, sampleVars, retentionVars
<1> QED
  BY <1>4, <1>5, <1>6

\* The other steps of a worker: it gets past the sample only by reading it.
LEMMA WorkKeeps ==
    ASSUME Inv, NEW v \in Worker, NEW w \in Worker,
           \/ Begin(v) \/ Read(v) \/ HandlerRaises(v) \/ HandlerReturns(v)
           \/ Checkpoint(v) \/ FinishJob(v) \/ Progress(v) \/ Beat(v)
           \/ Crash(v)
    PROVE  WorkerInv(w)'
<1> USE DEF Inv, TypeOK, WorkerInv, SampleIntact, Past
<1>1. CASE Begin(v) \/ HandlerRaises(v) \/ HandlerReturns(v)
  BY <1>1
  DEF Begin, HandlerRaises, HandlerReturns, Goes, jobVars, sampleVars,
      retentionVars
<1>2. CASE Read(v)
  BY <1>2 DEF Read, Replayable, Goes, jobVars, sampleVars, retentionVars
<1>3. CASE Checkpoint(v) \/ Progress(v) \/ Beat(v)
  BY <1>3
  DEF Checkpoint, Progress, Beat, Goes, sampleVars, retentionVars
<1>4. CASE FinishJob(v)
  <2>1. CASE w = v
    BY <1>4, <2>1 DEF FinishJob, Idle
  <2>2. CASE w # v /\ Holds(v)
    <3>1. run[w].job # None /\ workerId[run[w].job] = w
             => run[w].job # run[v].job
      BY <2>2 DEF Holds
    <3> QED
      BY <1>4, <2>2, <3>1
      DEF FinishJob, Holds, Goes, sampleVars, retentionVars
  <2>3. CASE w # v /\ ~Holds(v)
    BY <1>4, <2>3 DEF FinishJob, Goes, sampleVars, retentionVars
  <2> QED
    BY <2>1, <2>2, <2>3
<1>5. CASE Crash(v)
  BY <1>5 DEF Crash, Goes, Idle, jobVars, sampleVars, retentionVars
<1> QED
  BY <1>1, <1>2, <1>3, <1>4, <1>5

LEMMA HolderStep == Inv /\ [Next]_vars => \A w \in Worker : WorkerInv(w)'
<1>1. ASSUME Inv, UNCHANGED vars, NEW w \in Worker PROVE WorkerInv(w)'
  BY <1>1
  DEF Inv, WorkerInv, Past, SampleIntact, vars, jobVars, sampleVars,
      retentionVars, workerVars
<1> QED
  BY <1>1, CommandKeeps, RetentionKeeps, ClaimKeeps, WorkKeeps
  DEF Next, RunOnce

-----------------------------------------------------------------------------
\* A worker that completes a job it holds has read its sample.
LEMMA CompletesOverSample ==
    ASSUME Inv, NEW w \in Worker, Holds(w), pc[w] = "completing"
    PROVE  SampleIntact(run[w].job)
BY DEF Inv, TypeOK, WorkerInv, Holds, Past

LEMMA Completed ==
    ASSUME NEW w \in Worker, Outcome(w) = "succeeded"
    PROVE  pc[w] = "completing"
BY DEF Outcome

\* A success is news of a job over its intact sample.
LEMMA SuccessStep ==
    ASSUME Inv, [Next]_vars, NEW j \in Job,
           status[j] # "succeeded", status'[j] = "succeeded"
    PROVE  /\ SampleIntact(j)
           /\ UNCHANGED <<sampleVars, retentionVars>>
<1>1. PICK w \in Worker :
        FinishJob(w) /\ run[w].job = j /\ Holds(w) /\ status'[j] = Outcome(w)
  BY StatusStep DEF Inv
<1>2. pc[w] = "completing"
  BY <1>1, Completed
<1> QED
  BY <1>1, <1>2, CompletesOverSample DEF FinishJob

\* The mark on pruned evidence: an erased source leaves the comparison on both
\* sides, a pruned one marks the job in the transaction that prunes it.
LEMMA MarkStep == Inv /\ [Next]_vars => PrunedEvidenceIsMarked'
<1> SUFFICES ASSUME Inv, [Next]_vars, NEW j \in Discovery,
                    (status[j] = "succeeded")', j \notin invalidated'
             PROVE  ((frozen[j] \ erased) \ pruned = bound[j] \ erased)'
  BY DEF PrunedEvidenceIsMarked
<1>0. j \in Job /\ frozen[j] \subseteq Trace /\ bound[j] \subseteq Trace
  BY JobAssumption DEF Inv, TypeOK
<1>1. CASE status[j] # "succeeded"
  BY <1>0, <1>1, SuccessStep
  DEF SampleIntact, sampleVars, retentionVars
<1>2. CASE status[j] = "succeeded"
  <2>1. j \notin invalidated =>
            (frozen[j] \ erased) \ pruned = bound[j] \ erased
    BY <1>2 DEF Inv, PrunedEvidenceIsMarked
  <2>2. CASE Prune
    BY <1>2, <2>1, <2>2 DEF Prune, sampleVars
  <2>3. CASE Erase
    BY <1>2, <2>1, <2>3 DEF Erase, sampleVars
  <2>4. ASSUME NEW k \in Job, Prepare(k)
        PROVE  /\ frozen'[j] = frozen[j] /\ bound'[j] = bound[j]
               /\ UNCHANGED retentionVars
    BY <1>0, <1>2, <2>4 DEF Prepare, Inv, TypeOK
  <2>5. CASE UNCHANGED <<sampleVars, retentionVars>>
    BY <2>1, <2>5 DEF sampleVars, retentionVars
  <2> QED
    BY <2>1, <2>2, <2>3, <2>4, <2>5
    DEF Next, RunOnce, Queue, Cancel, Expire, Claim, Begin, Read,
        HandlerRaises, HandlerReturns, Checkpoint, FinishJob, Progress, Beat,
        Crash, vars, retentionVars
<1> QED
  BY <1>1, <1>2

\* Who holds what, and over which sample, is an inductive invariant.
THEOREM JobQueueInv == Spec => []Inv
<1>1. Inv /\ [Next]_vars => Inv'
  BY NextType, HolderStep, MarkStep DEF Inv
<1> QED
  BY <1>1, InitInv, PTL DEF Spec

\* A finished discovery result whose sources were pruned is marked, for any
\* interleaving of runs, prunes and erasures.
THEOREM PrunedIsMarked == Spec => []PrunedEvidenceIsMarked
<1>1. Inv => PrunedEvidenceIsMarked
  BY DEF Inv
<1> QED
  BY <1>1, JobQueueInv, PTL

\* A job succeeds only over the sample it froze, though nothing protected the
\* sample before the job was queued or after its lease was lost.
THEOREM SucceedsOnSample == Spec => SucceedsOnFrozenSample
<1>1. Inv /\ [Next]_vars =>
          [\A j \in Job : status[j] # "succeeded" /\ status'[j] = "succeeded"
              => SampleIntact(j)]_vars
  BY SuccessStep
<1> QED
  BY <1>1, JobQueueInv, PTL DEF Spec, SucceedsOnFrozenSample

\* A running job is ended by the worker of its last attempt alone.
THEOREM LastClaimFinishes == Spec => OnlyLastClaimFinishes
<1>1. ASSUME Inv, [Next]_vars, NEW j \in Job,
             status[j] = "running", status'[j] \in Terminal
      PROVE  \E w \in Worker : /\ run[w] = [job |-> j, attempt |-> attempt[j]]
                               /\ run'[w] = Idle /\ pc'[w] = "idle"
  <2>1. PICK w \in Worker : FinishJob(w) /\ run[w].job = j /\ Holds(w)
    BY <1>1, StatusStep DEF Inv, Terminal
  <2>2. run[w].attempt = attempt[j]
    BY <1>1, <2>1, JobAssumption DEF Inv, WorkerInv, Holds
  <2>3. run[w] = [job |-> j, attempt |-> attempt[j]]
    BY <1>1, <2>1, <2>2 DEF Inv, TypeOK
  <2>4. run'[w] = Idle /\ pc'[w] = "idle"
    BY <1>1, <2>1 DEF FinishJob, Goes, Inv, TypeOK
  <2> QED
    BY <2>3, <2>4
<1>2. Inv /\ [Next]_vars =>
          [\A j \in Job : status[j] = "running" /\ status'[j] \in Terminal =>
              \E w \in Worker : /\ run[w] = [job |-> j, attempt |-> attempt[j]]
                                /\ run'[w] = Idle /\ pc'[w] = "idle"]_vars
  BY <1>1
<1> QED
  BY <1>2, JobQueueInv, PTL DEF Spec, OnlyLastClaimFinishes

-----------------------------------------------------------------------------
(* The register *)

\* A worker that gives a job up while it holds it has been asked to: it saw
\* the request at a checkpoint, or the job was no longer its own by then.
AskedToCancel(w) ==
    pc[w] = "cancelling" /\ Holds(w) => cancelRequested[run[w].job]

LEMMA AskedInit == Init => \A w \in Worker : AskedToCancel(w)
BY DEF Init, AskedToCancel

LEMMA AskedNext ==
    ASSUME TypeOK, TypeOK', [Next]_vars, NEW w \in Worker, AskedToCancel(w)
    PROVE  AskedToCancel(w)'
<1>1. CASE \E j \in Job : Prepare(j) \/ Queue(j) \/ Cancel(j) \/ Expire(j)
  BY <1>1, JobAssumption
  DEF Prepare, Queue, Cancel, Expire, Active, AskedToCancel, Holds, TypeOK,
      workerVars
<1>2. CASE Prune \/ Erase
  BY <1>2 DEF Prune, Erase, AskedToCancel, Holds, jobVars, workerVars
<1>3. ASSUME NEW x \in Worker, Claim(x) PROVE AskedToCancel(w)'
  BY <1>3, JobAssumption
  DEF Claim, Claimable, AskedToCancel, Holds, TypeOK
<1>4. ASSUME NEW x \in Worker, Begin(x) \/ Read(x) \/ HandlerRaises(x)
                \/ HandlerReturns(x)
      PROVE  AskedToCancel(w)'
  BY <1>4
  DEF Begin, Read, HandlerRaises, HandlerReturns, Goes, AskedToCancel, Holds,
      TypeOK, jobVars
<1>5. ASSUME NEW x \in Worker, Progress(x) \/ Checkpoint(x) \/ Beat(x)
      PROVE  AskedToCancel(w)'
  BY <1>5
  DEF Progress, Checkpoint, Beat, Keeps, Refresh, Goes, AskedToCancel, Holds,
      TypeOK
<1>6. ASSUME NEW x \in Worker, FinishJob(x) PROVE AskedToCancel(w)'
  <2>1. Outcome(x) # "running"
    BY DEF Outcome
  <2> QED
    BY <1>6, <2>1
    DEF FinishJob, Goes, AskedToCancel, Holds, TypeOK, Idle
<1>7. ASSUME NEW x \in Worker, Crash(x) PROVE AskedToCancel(w)'
  BY <1>7 DEF Crash, Goes, AskedToCancel, Holds, TypeOK, Idle, jobVars
<1>8. CASE UNCHANGED vars
  BY <1>8 DEF vars, jobVars, workerVars, AskedToCancel, Holds
<1> QED
  BY <1>1, <1>2, <1>3, <1>4, <1>5, <1>6, <1>7, <1>8 DEF Next, RunOnce

\* What the register shows of a status.
LEMMA ShownValues ==
    /\ Shown("absent") = "none" /\ Shown("planned") = "none"
    /\ Shown("queued") = "pending" /\ Shown("running") = "trying"
    /\ \A s \in Terminal : Shown(s) = s
BY DEF Shown, Terminal

LEMMA RegisterInit == Init => Register!Init
BY ShownValues DEF Init, Phase, Register!Init

\* The steps the register sees, in its own terms ...
Submits(j) ==
    /\ Phase[j] = "none"
    /\ Phase' = [Phase EXCEPT ![j] = "pending"]
    /\ UNCHANGED <<attempt, cancelRequested>>

Tries(j) ==
    /\ Phase[j] \in {"pending", "trying"}
    /\ ~cancelRequested[j]
    /\ Phase' = [Phase EXCEPT ![j] = "trying"]
    /\ attempt' = [attempt EXCEPT ![j] = @ + 1]
    /\ UNCHANGED cancelRequested

Asks(j) ==
    /\ \/ Phase[j] = "pending" /\ Phase' = [Phase EXCEPT ![j] = "cancelled"]
       \/ Phase[j] = "trying" /\ Phase' = Phase
    /\ cancelRequested' = [cancelRequested EXCEPT ![j] = TRUE]
    /\ UNCHANGED attempt

Ends(j) ==
    /\ Phase[j] = "trying"
    /\ \E o \in Terminal :
          /\ o = "cancelled" => cancelRequested[j]
          /\ Phase' = [Phase EXCEPT ![j] = o]
    /\ UNCHANGED <<attempt, cancelRequested>>

Unseen == UNCHANGED <<Phase, attempt, cancelRequested>>

\* ... and how a change of one status shows.
LEMMA PhaseStep ==
    ASSUME TypeOK, NEW j \in Job, NEW s \in Status,
           status' = [status EXCEPT ![j] = s]
    PROVE  Phase' = [Phase EXCEPT ![j] = Shown(s)]
BY DEF Phase, TypeOK

LEMMA CommandShows ==
    ASSUME TypeOK, NEW j \in Job, Prepare(j) \/ Queue(j) \/ Cancel(j) \/ Expire(j)
    PROVE  Submits(j) \/ Asks(j) \/ Unseen
<1>1. CASE Prepare(j)
  <2>1. Phase' = [Phase EXCEPT ![j] = Shown("planned")]
    BY <1>1, PhaseStep DEF Prepare, Status
  <2>2. Phase[j] = "none" /\ Phase' = Phase
    BY <1>1, <2>1, ShownValues DEF Prepare, Phase
  <2> QED
    BY <1>1, <2>2 DEF Prepare, Unseen
<1>2. CASE Queue(j)
  <2>1. Phase' = [Phase EXCEPT ![j] = Shown("queued")]
    BY <1>2, PhaseStep DEF Queue, Status
  <2>2. Phase[j] = "none"
    BY <1>2, ShownValues DEF Queue, Phase
  <2> QED
    BY <1>2, <2>1, <2>2, ShownValues DEF Queue, Submits
<1>3. CASE Cancel(j)
  <2>1. CASE status[j] = "queued"
    <3>1. status' = [status EXCEPT ![j] = "cancelled"]
      BY <1>3, <2>1 DEF Cancel, TypeOK
    <3>2. Phase' = [Phase EXCEPT ![j] = Shown("cancelled")]
      BY <3>1, PhaseStep DEF Status, Terminal
    <3>3. Phase[j] = "pending"
      BY <2>1, ShownValues DEF Phase
    <3> QED
      BY <1>3, <3>2, <3>3, ShownValues DEF Cancel, Asks, Terminal
  <2>2. CASE status[j] = "running"
    <3>1. status' = status
      BY <1>3, <2>2 DEF Cancel, TypeOK
    <3>2. Phase' = Phase /\ Phase[j] = "trying"
      BY <2>2, <3>1, ShownValues DEF Phase
    <3> QED
      BY <1>3, <3>2 DEF Cancel, Asks
  <2> QED
    BY <1>3, <2>1, <2>2 DEF Cancel, Active
<1>4. CASE Expire(j)
  BY <1>4 DEF Expire, Unseen, Phase
<1> QED
  BY <1>1, <1>2, <1>3, <1>4

LEMMA WorkerShows ==
    ASSUME TypeOK, \A x \in Worker : AskedToCancel(x), NEW w \in Worker,
           RunOnce(w) \/ Progress(w) \/ Beat(w) \/ Crash(w)
    PROVE  (\E j \in Job : Tries(j) \/ Ends(j)) \/ Unseen
<1>1. CASE Claim(w)
  <2>1. PICK j \in Claimable :
          /\ status' = [status EXCEPT ![j] = "running"]
          /\ attempt' = [attempt EXCEPT ![j] = @ + 1]
    BY <1>1 DEF Claim
  <2>2. /\ j \in Job /\ ~cancelRequested[j]
        /\ status[j] \in {"queued", "running"}
    BY DEF Claimable
  <2>3. Phase' = [Phase EXCEPT ![j] = Shown("running")]
    BY <2>1, <2>2, PhaseStep DEF Status
  <2>4. Phase[j] \in {"pending", "trying"}
    BY <2>2, ShownValues DEF Phase
  <2> QED
    BY <1>1, <2>1, <2>2, <2>3, <2>4, ShownValues DEF Claim, Tries
<1>2. CASE FinishJob(w) /\ Holds(w)
  <2> DEFINE j == run[w].job
  <2>1. j \in Job /\ status[j] = "running"
    BY <1>2 DEF Holds, TypeOK
  <2>2. Outcome(w) \in Terminal /\ (Outcome(w) = "cancelled" => pc[w] = "cancelling")
    BY <1>2 DEF Outcome, Terminal, FinishJob
  <2>3. status' = [status EXCEPT ![j] = Outcome(w)]
    BY <1>2 DEF FinishJob
  <2>4. Phase' = [Phase EXCEPT ![j] = Shown(Outcome(w))]
    BY <2>1, <2>2, <2>3, PhaseStep DEF Status
  <2>5. Phase[j] = "trying"
    BY <2>1, ShownValues DEF Phase
  <2>6. Outcome(w) = "cancelled" => cancelRequested[j]
    BY <1>2, <2>2 DEF AskedToCancel
  <2>7. Ends(j)
    BY <1>2, <2>2, <2>4, <2>5, <2>6, ShownValues DEF FinishJob, Ends
  <2> QED
    BY <2>1, <2>7
<1>3. CASE FinishJob(w) /\ ~Holds(w)
  BY <1>3 DEF FinishJob, Unseen, Phase
<1>4. CASE Begin(w) \/ Read(w) \/ HandlerRaises(w) \/ HandlerReturns(w)
              \/ Progress(w) \/ Checkpoint(w) \/ Beat(w) \/ Crash(w)
  BY <1>4
  DEF Begin, Read, HandlerRaises, HandlerReturns, Progress, Checkpoint, Beat,
      Crash, Unseen, Phase, jobVars
<1> QED
  BY <1>1, <1>2, <1>3, <1>4 DEF RunOnce

LEMMA RegisterStep ==
    ASSUME TypeOK, \A w \in Worker : AskedToCancel(w), [Next]_vars
    PROVE  [Register!Next]_(Register!vars)
<1>1. (\E j \in Job : Submits(j) \/ Tries(j) \/ Asks(j) \/ Ends(j)) \/ Unseen
  <2>1. CASE Prune \/ Erase \/ UNCHANGED vars
    BY <2>1 DEF Prune, Erase, vars, jobVars, Unseen, Phase
  <2> QED
    BY <2>1, CommandShows, WorkerShows DEF Next
<1>2. ASSUME NEW j \in Job, Submits(j) \/ Tries(j) \/ Asks(j) \/ Ends(j)
      PROVE  Register!Next
  BY <1>2
  DEF Submits, Tries, Asks, Ends, Register!Next, Register!Submit,
      Register!Try, Register!Ask, Register!End
<1>3. CASE Unseen
  BY <1>3 DEF Unseen, Register!vars
<1> QED
  BY <1>1, <1>2, <1>3

\* The queue implements the register, for any number of jobs and workers: no
\* lost lease, late outcome or crash shows through it.
THEOREM Implements == Spec => KeepsRegister
<1>1. TypeOK /\ TypeOK' /\ (\A w \in Worker : AskedToCancel(w)) /\ [Next]_vars
        => (\A w \in Worker : AskedToCancel(w))'
  BY AskedNext
<1>2. TypeOK /\ (\A w \in Worker : AskedToCancel(w)) /\ [Next]_vars
        => [Register!Next]_(Register!vars)
  BY RegisterStep
<1> QED
  BY <1>1, <1>2, AskedInit, RegisterInit, JobQueueTypes, PTL
  DEF Spec, KeepsRegister, Register!Spec

=============================================================================
