------------------------------ MODULE Recorder ------------------------------
(***************************************************************************)
(* recorder/recorder.py: the bounded queue between the request path and    *)
(* the one worker that persists traces.  A trace is named by its call.     *)
(*                                                                         *)
(* Every trace that reaches the recorder must be reported to an observer   *)
(* exactly once, as recorded or as discarded: the budget gate releases its *)
(* reservations on that report and on nothing else.                        *)
(***************************************************************************)
EXTENDS Calls, Sequences

CONSTANT Capacity  \* Recorder(maxsize=...)

ASSUME CapacityAssumption == Capacity \in Nat \ {0}

VARIABLES
    queue,            \* Recorder._queue
    stage,            \* how far the trace of each call has come
    rows,             \* the traces committed to the store
    mode,             \* what the recorder's lifecycle is doing
    dropped,          \* Recorder._dropped
    droppedImportant  \* Recorder._dropped_important

recorderVars == <<queue, stage, rows, mode, dropped, droppedImportant>>

InFlight == {"blocked", "queued", "saving", "written"}
Settled == {"recorded", "discarded"}
Stage == {"none", "lost"} \cup InFlight \cup Settled
Mode == {"running", "draining", "discarding", "closed"}

RecorderTypeOK ==
    /\ queue \in Seq(Call)
    /\ Len(queue) <= Capacity
    /\ stage \in [Call -> Stage]
    /\ rows \in SUBSET Call
    /\ mode \in Mode
    /\ dropped \in Nat
    /\ droppedImportant \in Nat

RecorderInit ==
    /\ queue = <<>>
    /\ stage = [c \in Call |-> "none"]
    /\ rows = {}
    /\ mode = "running"
    /\ dropped = 0
    /\ droppedImportant = 0

-----------------------------------------------------------------------------
\* Fault: one slot too many.
HasRoomOffByOne == Len(queue) <= Capacity

HasRoom == Len(queue) < Capacity
AtWorker(c) == stage[c] \in {"saving", "written"}
WorkerIdle == \A c \in Call : ~AtWorker(c)

Moves(c, to) == stage' = [stage EXCEPT ![c] = to]

\* put_nowait() finds room: enqueue(), or enqueue_important() at once.
Accept(c) ==
    /\ stage[c] = "none"
    /\ HasRoom
    /\ queue' = Append(queue, c)
    /\ Moves(c, "queued")
    /\ UNCHANGED <<rows, mode, dropped, droppedImportant>>

\* enqueue() on a full queue: count the trace and discard it.
Drop(c) ==
    /\ stage[c] = "none"
    /\ ~HasRoom
    /\ Moves(c, "discarded")
    /\ dropped' = dropped + 1
    /\ UNCHANGED <<queue, rows, mode, droppedImportant>>

\* enqueue_important() on a full queue waits for a slot ...
Block(c) ==
    /\ stage[c] = "none"
    /\ ~HasRoom
    /\ Moves(c, "blocked")
    /\ UNCHANGED <<queue, rows, mode, dropped, droppedImportant>>

\* ... and gets one ...
Unblock(c) ==
    /\ stage[c] = "blocked"
    /\ HasRoom
    /\ queue' = Append(queue, c)
    /\ Moves(c, "queued")
    /\ UNCHANGED <<rows, mode, dropped, droppedImportant>>

\* ... or gives up on its timeout, or is cancelled.
GiveUp(c) ==
    /\ stage[c] = "blocked"
    /\ Moves(c, "discarded")
    /\ droppedImportant' = droppedImportant + 1
    /\ UNCHANGED <<queue, rows, mode, dropped>>

-----------------------------------------------------------------------------
(* The worker, _run() *)

\* Fault: the worker takes the newest trace.
TakeNewest(c) ==
    /\ mode \in {"running", "draining"}
    /\ WorkerIdle
    /\ queue # <<>>
    /\ c = queue[Len(queue)]
    /\ queue' = SubSeq(queue, 1, Len(queue) - 1)
    /\ Moves(c, "saving")
    /\ UNCHANGED <<rows, mode, dropped, droppedImportant>>

Take(c) ==
    /\ mode \in {"running", "draining"}
    /\ WorkerIdle
    /\ queue # <<>>
    /\ c = Head(queue)
    /\ queue' = Tail(queue)
    /\ Moves(c, "saving")
    /\ UNCHANGED <<rows, mode, dropped, droppedImportant>>

\* The store's thread commits the row while the event loop runs on.
Commit(c) ==
    /\ stage[c] = "saving"
    /\ rows' = rows \cup {c}
    /\ Moves(c, "written")
    /\ UNCHANGED <<queue, mode, dropped, droppedImportant>>

\* save() returns to the worker, which reports on_record.
Report(c) ==
    /\ stage[c] = "written"
    /\ Moves(c, "recorded")
    /\ UNCHANGED <<queue, rows, mode, dropped, droppedImportant>>

\* Fault: a failed save is reported, and tried again.
FailSaveRequeues(c) ==
    /\ stage[c] = "saving"
    /\ HasRoom
    /\ queue' = Append(queue, c)
    /\ Moves(c, "queued")
    /\ UNCHANGED <<rows, mode, dropped, droppedImportant>>

\* save() raises: the trace is discarded, the worker lives on.
FailSave(c) ==
    /\ stage[c] = "saving"
    /\ Moves(c, "discarded")
    /\ UNCHANGED <<queue, rows, mode, dropped, droppedImportant>>

-----------------------------------------------------------------------------
(* aclose() *)

\* The lifespan closes the recorder after the server has let its requests
\* finish, so nobody waits for a slot.
BeginClose ==
    /\ mode = "running"
    /\ \A c \in Call : stage[c] # "blocked"
    /\ mode' = "draining"
    /\ UNCHANGED <<queue, stage, rows, dropped, droppedImportant>>

\* join() returned or timed out; the worker was idle when cancelled.
CancelIdle ==
    /\ mode = "draining"
    /\ WorkerIdle
    /\ mode' = "discarding"
    /\ UNCHANGED <<queue, stage, rows, dropped, droppedImportant>>

\* join() timed out while a trace was being saved.  The trace is discarded,
\* but the thread is not stopped and may still commit the row.
CancelSaving(c) ==
    /\ mode = "draining"
    /\ AtWorker(c)
    /\ rows' \in {rows, rows \cup {c}}
    /\ stage[c] = "written" => rows' = rows
    /\ Moves(c, "discarded")
    /\ mode' = "discarding"
    /\ UNCHANGED <<queue, dropped, droppedImportant>>

\* Fault: what the drain left behind stays in the queue.
DiscardNothing(c) == FALSE /\ UNCHANGED recorderVars

\* What the drain left behind is discarded, without being counted.
DiscardRest(c) ==
    /\ mode = "discarding"
    /\ queue # <<>>
    /\ c = Head(queue)
    /\ queue' = Tail(queue)
    /\ Moves(c, "discarded")
    /\ UNCHANGED <<rows, mode, dropped, droppedImportant>>

\* Fault: aclose() returns without emptying the queue.
ClosedEarly ==
    /\ mode = "discarding"
    /\ mode' = "closed"
    /\ UNCHANGED <<queue, stage, rows, dropped, droppedImportant>>

Closed ==
    /\ mode = "discarding"
    /\ queue = <<>>
    /\ mode' = "closed"
    /\ UNCHANGED <<queue, stage, rows, dropped, droppedImportant>>

=============================================================================
