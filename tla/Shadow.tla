------------------------------- MODULE Shadow -------------------------------
(***************************************************************************)
(* gateway/shadow.py over the recorder: mirrors of live calls wait in a    *)
(* bounded queue off the response path, a few workers send them to a       *)
(* candidate, record them as important traces and count them in the        *)
(* store's shadow_stats.                                                   *)
(*                                                                         *)
(* A mirror is one of the calls whose traces the recorder handles.  The    *)
(* store may fail at every write of a counter, and the lifespan            *)
(* (gateway/app.py) closes the manager before it closes the recorder.      *)
(***************************************************************************)
EXTENDS RecorderQueue, FiniteSets

CONSTANTS
    Mirror,          \* the calls that are mirrors
    Shadows,         \* the shadow experiments
    ShadowOf,        \* the experiment of a mirror
    MirrorCapacity,  \* ShadowManager(queue_size=...)
    Workers,         \* ShadowManager(workers=...)
    None

ASSUME MirrorAssumption ==
    Mirror \subseteq Important /\ ShadowOf \in [Mirror -> Shadows]
ASSUME WorkersAssumption ==
    Workers \in Nat \ {0} /\ MirrorCapacity \in Nat \ {0}

VARIABLES
    waiting,    \* ShadowManager._queue
    place,      \* where each mirror stands
    bad,        \* mirrors whose candidate refused or did not answer
    stats,      \* shadow_stats
    unwritten,  \* ShadowManager._dropped
    flushing,   \* what the _flush_drops() under way has left, None without one
    manager     \* what the manager's lifecycle is doing

mirrorVars == <<waiting, place, bad>>
shadowVars == <<mirrorVars, stats, unwritten, flushing, manager>>
allVars == <<vars, shadowVars>>

Counting == {"announcing", "counting", "shedding"}
Busy == Counting \cup {"sending", "offering"}
Gone == {"ended", "cancelled"}
Counter == {"submitted", "completed", "failed", "dropped"}
NoCounts == [s \in Shadows |-> 0]

ShadowInit ==
    /\ Init
    /\ waiting = <<>>
    /\ place = [m \in Mirror |-> "none"]
    /\ bad = {}
    /\ stats = [s \in Shadows |-> [k \in Counter |-> 0]]
    /\ unwritten = NoCounts
    /\ flushing = None
    /\ manager = "running"

ShadowTypeOK ==
    /\ TypeOK
    /\ waiting \in Seq(Mirror) /\ Len(waiting) <= MirrorCapacity
    /\ place \in [Mirror -> {"none", "waiting"} \cup Busy \cup Gone]
    /\ bad \in SUBSET Mirror
    /\ stats \in [Shadows -> [Counter -> Nat]]
    /\ unwritten \in [Shadows -> Nat]
    /\ flushing \in [Shadows -> Nat] \cup {None}
    /\ manager \in {"running", "draining", "cancelling", "flushing", "closed",
                    "failed", "exited"}

-----------------------------------------------------------------------------
AtShadowWorker == {m \in Mirror : place[m] \in Busy}
ToPlace(m, p) == place' = [place EXCEPT ![m] = p]

\* increment_shadow_stats(): one committed UPDATE, in a thread.
Increments(s, k, n) == stats' = [stats EXCEPT ![s][k] = @ + n]

\* _drop()
CountsDrop(m) == unwritten' = [unwritten EXCEPT ![ShadowOf[m]] = @ + 1]

\* submit(), without an await: a mirror for which there is no usable provider
\* or no slot is a drop.
Submit(m) ==
    /\ manager = "running"
    /\ place[m] = "none"
    /\ \/ /\ Len(waiting) < MirrorCapacity
          /\ waiting' = Append(waiting, m)
          /\ ToPlace(m, "waiting")
          /\ UNCHANGED unwritten
       \/ /\ CountsDrop(m)
          /\ ToPlace(m, "ended")
          /\ UNCHANGED waiting
    /\ UNCHANGED <<vars, bad, stats, flushing, manager>>

\* _run(): a worker takes the next mirror and has it counted as submitted.
TakeMirror(m) ==
    /\ manager \in {"running", "draining"}
    /\ Cardinality(AtShadowWorker) < Workers
    /\ waiting # <<>> /\ m = Head(waiting)
    /\ waiting' = Tail(waiting)
    /\ ToPlace(m, "announcing")
    /\ UNCHANGED <<vars, bad, stats, unwritten, flushing, manager>>

\* The count a mirror is waiting for.
Tally(m) ==
    Increments(ShadowOf[m],
               CASE place[m] = "announcing" -> "submitted"
                 [] place[m] = "shedding" -> "dropped"
                 [] place[m] = "counting" /\ m \in bad -> "failed"
                 [] place[m] = "counting" /\ m \notin bad -> "completed",
               1)

CountWritten(m) ==
    /\ place[m] \in Counting
    /\ Tally(m)
    /\ ToPlace(m, IF place[m] = "announcing" THEN "sending" ELSE "ended")
    /\ UNCHANGED <<vars, waiting, bad, unwritten, flushing, manager>>

\* Fault: the exception ends the worker, for good.
WorkerDies(m) ==
    /\ place[m] \in Counting
    /\ CountsDrop(m)
    /\ ToPlace(m, "offering")
    /\ UNCHANGED <<vars, waiting, bad, stats, flushing, manager>>

\* The write raises: the mirror is a drop, the worker lives on.
CountFails(m) ==
    /\ place[m] \in Counting
    /\ CountsDrop(m)
    /\ ToPlace(m, "ended")
    /\ UNCHANGED <<vars, waiting, bad, stats, flushing, manager>>

\* Fault: the mirror is counted before the recorder has taken its trace.
CountsUnrecorded(m) ==
    /\ place[m] = "sending"
    /\ bad' \in {bad, bad \cup {m}}
    /\ Offer(m)
    /\ ToPlace(m, "counting")
    /\ UNCHANGED <<waiting, stats, unwritten, flushing, manager>>

\* The candidate answers or the request fails, and the trace is offered to the
\* recorder, which takes it or makes the worker wait ...
Mirrored(m) ==
    /\ place[m] = "sending"
    /\ bad' \in {bad, bad \cup {m}}
    /\ Offer(m)
    /\ ToPlace(m, IF stage'[m] = "blocked" THEN "offering" ELSE "counting")
    /\ UNCHANGED <<waiting, stats, unwritten, flushing, manager>>

\* ... for a slot, as a client's important call does.
Offered(c) ==
    /\ Wake(c)
    /\ IF c \in Mirror
       THEN /\ manager # "cancelling"
            /\ ToPlace(c, IF stage'[c] = "queued" THEN "counting" ELSE "shedding")
       ELSE UNCHANGED place
    /\ UNCHANGED <<waiting, bad, stats, unwritten, flushing, manager>>

RunMirror(m) ==
    TakeMirror(m) \/ CountWritten(m) \/ CountFails(m) \/ Mirrored(m)

-----------------------------------------------------------------------------
(* _flush_drops(), by the refresh loop and at the end of aclose() *)

FlushBegins ==
    /\ flushing = None
    /\ manager = "flushing" \/ (manager = "running" /\ unwritten # NoCounts)
    /\ flushing' = unwritten
    /\ unwritten' = NoCounts
    /\ UNCHANGED <<vars, mirrorVars, stats, manager>>

FlushOne(s) ==
    /\ flushing # None /\ flushing[s] > 0
    /\ Increments(s, "dropped", flushing[s])
    /\ flushing' = [flushing EXCEPT ![s] = 0]
    /\ UNCHANGED <<vars, mirrorVars, unwritten, manager>>

\* A failed write puts its own count back, and nothing else ...
PutsBack(s) == unwritten' = [unwritten EXCEPT ![s] = @ + flushing[s]]

\* ... and raises: the refresh loop logs that, but out of aclose() it ends the
\* lifespan before the recorder has been closed.
FlushFails(s) ==
    /\ flushing # None /\ flushing[s] > 0
    /\ PutsBack(s)
    /\ flushing' = None
    /\ manager' = IF manager = "flushing" THEN "failed" ELSE manager
    /\ UNCHANGED <<vars, mirrorVars, stats>>

FlushEnds ==
    /\ flushing = NoCounts
    /\ flushing' = None
    /\ manager' = IF manager = "flushing" THEN "closed" ELSE manager
    /\ UNCHANGED <<vars, mirrorVars, stats, unwritten>>

Flush ==
    \/ FlushBegins
    \/ FlushEnds
    \/ \E s \in Shadows : FlushOne(s) \/ FlushFails(s)

-----------------------------------------------------------------------------
(* aclose() *)

\* The refresh task is cancelled wherever it is: a flush under way loses what
\* it had swapped out, but for the count whose thread still commits.
BeginStop ==
    /\ manager = "running"
    /\ manager' = "draining"
    /\ flushing' = None
    /\ \/ UNCHANGED stats
       \/ flushing # None /\ \E s \in Shadows :
             flushing[s] > 0 /\ Increments(s, "dropped", flushing[s])
    /\ UNCHANGED <<vars, mirrorVars, unwritten>>

\* join() has returned or timed out.
StopWorkers ==
    /\ manager = "draining"
    /\ manager' = "cancelling"
    /\ UNCHANGED <<vars, mirrorVars, stats, unwritten, flushing>>

\* A cancelled worker gives up a wait for the recorder; a count in its thread
\* may still be committed.
CancelMirror(m) ==
    /\ manager = "cancelling"
    /\ place[m] \in Busy
    /\ \/ place[m] \in Counting /\ Tally(m) /\ UNCHANGED vars
       \/ place[m] # "offering" /\ UNCHANGED <<vars, stats>>
       \/ /\ place[m] = "offering"
          /\ GiveUp(m) /\ Told(m)
          /\ UNCHANGED <<entered, committed, stats>>
    /\ ToPlace(m, "cancelled")
    /\ UNCHANGED <<waiting, bad, unwritten, flushing, manager>>

WorkersStopped ==
    /\ manager = "cancelling"
    /\ AtShadowWorker = {}
    /\ manager' = "flushing"
    /\ UNCHANGED <<vars, mirrorVars, stats, unwritten, flushing>>

\* The process ends after an aborted lifespan, once a save under way is over.
Exit ==
    /\ manager = "failed"
    /\ WorkerIdle
    /\ manager' = "exited"
    /\ UNCHANGED <<vars, mirrorVars, stats, unwritten, flushing>>

Stop == StopWorkers \/ WorkersStopped \/ Exit \/ \E m \in Mirror : CancelMirror(m)

-----------------------------------------------------------------------------
\* Fault: the recorder is closed beside the manager.
RecorderMayClose == TRUE

RecorderMayCloseNow == manager = "closed"

Record ==
    \/ \E c \in Call \ Mirror : manager = "running" /\ Offer(c)
    \/ manager # "exited" /\ \E c \in Call : Work(c)
    \/ RecorderMayCloseNow /\ Close

ShadowNext ==
    \/ \E m \in Mirror : Submit(m) \/ RunMirror(m)
    \/ \E c \in Call : Offered(c)
    \/ Flush
    \/ BeginStop
    \/ Stop
    \/ Record /\ UNCHANGED shadowVars

\* Sends, waits and joins are bounded by timeouts, writes return or raise, and
\* a shutdown once begun goes on; nothing obliges anybody to start one.
ShadowFairness ==
    /\ \A m \in Mirror : WF_allVars(RunMirror(m))
    /\ WF_allVars(Flush)
    /\ WF_allVars(Stop)
    /\ \A c \in Call :
          /\ WF_allVars(Offered(c))
          /\ WF_allVars(manager # "exited" /\ Work(c) /\ UNCHANGED shadowVars)
    /\ WF_allVars(RecorderMayCloseNow /\ Close /\ UNCHANGED shadowVars)

ShadowSpec == ShadowInit /\ [][ShadowNext]_allVars /\ ShadowFairness

-----------------------------------------------------------------------------
Of(s, P) == Cardinality({m \in P : ShadowOf[m] = s})
InFlush(s) == IF flushing = None THEN 0 ELSE flushing[s]

\* The attrition an experiment shows is never worse than it was: a mirror is a
\* completion, a failure or a drop once, whichever of its writes failed, was
\* put back, or was committed by a thread after its worker had been cancelled;
\* and no mirror is a completion or failure that was not submitted and whose
\* trace the recorder never took.
AttritionNotInflated ==
    \A s \in Shadows :
        /\ stats[s]["completed"] + stats[s]["failed"] + stats[s]["dropped"]
              + unwritten[s] + InFlush(s)
             <= Of(s, {m \in Mirror : place[m] \in Gone})
        /\ stats[s]["completed"] + stats[s]["failed"]
             <= Of(s, {m \in Mirror : \E i \in DOMAIN entered : entered[i] = m})
        /\ stats[s]["completed"] + stats[s]["failed"] <= stats[s]["submitted"]

\* A failed write of a counter does not remove a worker and strand the mirrors
\* behind it (the comment in _run): whatever is queued is taken to its end.
MirrorsEnd ==
    \A m \in Mirror :
        place[m] = "waiting" ~>
            place[m] \in Gone \/ manager \notin {"running", "draining"}

\* Every offered trace settles, mirrors included, unless the process goes down
\* first with an aborted lifespan.
TracesSettle ==
    \A c \in Call :
        stage[c] \in InFlight ~> stage[c] \in Settled \/ manager = "exited"

\* The shutdown's order loses no trace: the recorder is closed only when nobody
\* can offer it a mirror any more (what is offered to a closed recorder never
\* settles), and when aclose() returns every trace ever offered has settled.
ShutdownSettlesAll ==
    /\ mode # "running" => \A m \in Mirror : place[m] \notin Busy
    /\ CloseSettlesAll

\* "Drain the backlog (bounded) before cancelling, so queued traces, including
\* undroppable candidate ones, are persisted on shutdown rather than discarded
\* with the worker" (Recorder.aclose): no process ends with a trace queued.
DrainedBeforeExit == manager = "exited" => queue = <<>>

=============================================================================
