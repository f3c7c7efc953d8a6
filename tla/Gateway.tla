------------------------------ MODULE Gateway ------------------------------
(***************************************************************************)
(* One gateway process and its store: gateway/proxy/handler.py drives each *)
(* call through budget admission, the upstream send, the stream and the    *)
(* recorder, whose observers settle the budget; cli/runtime.py seeds the   *)
(* budget from the store when a process starts.  A process may crash at    *)
(* any moment; only the store's rows survive.                              *)
(*                                                                         *)
(* Everything between two awaits of a handler is one step.                 *)
(***************************************************************************)
EXTENDS Budget, Recorder

CONSTANTS
    Served,     \* calls with a serving decision: an arm or a route
    Candidate,  \* those of them served an experiment's candidate arm
    Mirror,     \* shadow candidate calls: never admitted, but recorded
    Bill        \* what the usage of a response may come to

ASSUME GatewayAssumption ==
    /\ Candidate \subseteq Served /\ Served \subseteq Call
    /\ Mirror \subseteq Call /\ Mirror \cap Served = {}
    /\ Bill \subseteq Nat \ {0}

VARIABLES
    http,    \* where the handler of each call is
    trace,   \* the trace a call leaves
    boot     \* what a starting process has read from the store

vars == <<today, budgetVars, recorderVars, http, trace, boot>>

Http == {"idle", "sending", "streaming", "done"}

\* What a trace without usage costs: extract_usage makes up a Usage of no
\* tokens, which a listed price turns into a known nothing.
Unused(target) == IF target.free \/ target.price.listed THEN 0 ELSE Unknown

\* What is known of a call's trace while its upstream answers.
Pending(target, served, reserved) ==
    [cost |-> Unused(target), day |-> 0, terminal |-> FALSE,
     free |-> target.free, served |-> served, reserved |-> reserved]

NoTrace ==
    [cost |-> Unknown, day |-> 0, terminal |-> FALSE, free |-> FALSE,
     served |-> FALSE, reserved |-> FALSE]

\* The totals build_app reads, and the day it reads them for (0: not yet).
Seed ==
    [day : 0 .. MaxDay, total : Nat, byUseCase : [UseCase -> Nat],
     bySession : [Session -> Nat], unknownSessions : SUBSET Session]

NoSeed ==
    [day |-> 0, total |-> 0, byUseCase |-> [u \in UseCase |-> 0],
     bySession |-> [s \in Session |-> 0], unknownSessions |-> {}]

Finish(c) == http' = [http EXCEPT ![c] = "done"]
Leaves(c, t) == trace' = [trace EXCEPT ![c] = t]

\* Known cost: a sum skips the rows whose cost is NULL.
Cost == [c \in Call |-> Known(trace[c].cost)]

-----------------------------------------------------------------------------
(* Handing a trace to the recorder *)

\* The discard observer is registered only under reserve_in_flight.
Discarded(c, t) ==
    IF ReserveInFlight THEN Observe(c, t) ELSE UNCHANGED budgetVars

\* Candidate arms, mirrors and settlements of reservations are worth waiting
\* for a slot.
Important(c, t) == c \in Candidate \cup Mirror \/ t.reserved

\* _enqueue_trace()
OfferTrace(c, t) ==
    /\ Leaves(c, t)
    /\ \/ /\ Accept(c)
          /\ UNCHANGED budgetVars
       \/ /\ Important(c, t)
          /\ Block(c)
          /\ UNCHANGED budgetVars
       \/ /\ ~Important(c, t)
          /\ Drop(c)
          /\ Discarded(c, t)

\* _record_synthetic(): never waits.
OfferSynthetic(c, t) ==
    /\ Leaves(c, t)
    /\ \/ /\ Accept(c)
          /\ UNCHANGED budgetVars
       \/ /\ Drop(c)
          /\ Discarded(c, t)

\* The trace of a call that never reached, or never heard from, its upstream:
\* it has no usage.
Synthetic(t) ==
    [cost |-> t.cost, day |-> today, terminal |-> TRUE, free |-> t.free,
     served |-> t.served, reserved |-> t.reserved]

-----------------------------------------------------------------------------
(* Admission: from the request body to the upstream send, without an await *)

CheckRollsOver(c) ==
    IF ReadsTotals(c) THEN Rollover
    ELSE UNCHANGED <<snapDay, total, byUseCase>>

\* Refused: the synthetic trace is queued, or dropped into the observer, for
\* which it costs nothing and holds no reservation.
Refuse(c, target, served) ==
    /\ Leaves(c, Synthetic(Pending(target, served, FALSE)))
    /\ Finish(c)
    /\ \/ Accept(c) /\ CheckRollsOver(c)
       \/ Drop(c) /\ IF ReserveInFlight THEN Rollover ELSE CheckRollsOver(c)
    /\ UNCHANGED <<bySession, unknownSessions, reservationVars>>

\* Admitted without a reservation, then refused for want of a trusted host or
\* a credential: recorded only if a serving decision was made.
RefuseAdmitted(c, target, served) ==
    IF served THEN Refuse(c, target, served)
    ELSE /\ Finish(c)
         /\ CheckRollsOver(c)
         /\ UNCHANGED <<trace, bySession, unknownSessions, reservationVars,
                        recorderVars>>

\* The same, when the step has just taken a reservation: the synthetic trace
\* carries it, and dropping that trace gives it back at once.
RefuseReserved(c, target, served) ==
    /\ Leaves(c, Synthetic(Pending(target, served, TRUE)))
    /\ Finish(c)
    /\ \/ Accept(c) /\ CheckRollsOver(c) /\ Reserve(c, target)
       \/ /\ Drop(c)
          /\ Rollover
          /\ held' = held
          /\ estimate' = [estimate EXCEPT ![c] = target.price.estimate]
    /\ UNCHANGED <<bySession, unknownSessions>>

Send(c, target, served, reserved) ==
    /\ Leaves(c, Pending(target, served, reserved))
    /\ http' = [http EXCEPT ![c] = "sending"]
    /\ CheckRollsOver(c)
    /\ IF reserved THEN Reserve(c, target) ELSE UNCHANGED reservationVars
    /\ UNCHANGED <<bySession, unknownSessions, recorderVars>>

\* What the gate's answer makes the handler do.
Act(c, target, served, answer) ==
    \/ /\ answer = "reserve"
       /\ \/ Send(c, target, served, TRUE)
          \/ RefuseReserved(c, target, served)
    \/ /\ answer = "allow"
       /\ \/ Send(c, target, served, FALSE)
          \/ RefuseAdmitted(c, target, served)
    \/ /\ answer \notin {"reserve", "allow"}
       /\ Refuse(c, target, served)

\* The serving decision itself turns the call away: its candidate has spent
\* its calls (recorded the first time only), or its provider does not fit.
TurnAway(c) ==
    /\ mode = "running"
    /\ c \in Served
    /\ http[c] = "idle"
    /\ Finish(c)
    /\ \/ OfferSynthetic(c, Synthetic(Pending(Request[c].target, TRUE, FALSE)))
       \/ UNCHANGED <<budgetVars, recorderVars, trace>>
    /\ UNCHANGED <<today, boot>>

\* proxy_pass_through() up to the send.  Past the fallback threshold a call
\* without a serving decision is checked again, for the approved candidate.
Arrive(c) ==
    LET target == Request[c].target
        approved == Request[c].fallback
        first == Check(c, target, FALSE)
        fallsBack == /\ first = "fallback_required"
                     /\ c \notin Served
                     /\ approved # None
    IN  /\ mode = "running"
        /\ c \notin Mirror
        /\ http[c] = "idle"
        /\ IF fallsBack THEN Act(c, approved, TRUE, Check(c, approved, TRUE))
           ELSE Act(c, target, c \in Served, first)
        /\ UNCHANGED <<today, boot>>

-----------------------------------------------------------------------------
(* The upstream and the stream *)

SendOK(c) ==
    /\ http[c] = "sending"
    /\ http' = [http EXCEPT ![c] = "streaming"]
    /\ UNCHANGED <<today, budgetVars, recorderVars, trace, boot>>

\* Fault: a failed send is recorded only for an arm or a route.
SendFailsSilently(c) ==
    LET t == Synthetic(trace[c])
    IN  /\ http[c] = "sending"
        /\ Finish(c)
        /\ IF t.served THEN OfferSynthetic(c, t)
           ELSE UNCHANGED <<budgetVars, recorderVars, trace>>
        /\ UNCHANGED <<today, boot>>

\* client.send() raises: recorded if an arm, a route or a reservation is lost.
SendFails(c) ==
    LET t == Synthetic(trace[c])
    IN  /\ http[c] = "sending"
        /\ Finish(c)
        /\ IF t.served \/ t.reserved THEN OfferSynthetic(c, t)
           ELSE UNCHANGED <<budgetVars, recorderVars, trace>>
        /\ UNCHANGED <<today, boot>>

\* The cost a response turns out to have: a bill, nothing because no usage
\* arrived, or unknown because the model it was billed on (the one the response
\* names, or else the one that was asked for) has no price.
Response(t) == IF t.free THEN {0} ELSE Bill \cup {0, Unknown}

\* The trace of a call the upstream answered.
Answered(t, cost) ==
    [cost |-> cost, day |-> today, terminal |-> FALSE, free |-> t.free,
     served |-> t.served, reserved |-> t.reserved]

\* Fault: a stream the client leaves is not recorded.
StreamVanishes(c) ==
    /\ http[c] = "streaming"
    /\ Finish(c)
    /\ UNCHANGED <<today, budgetVars, recorderVars, trace, boot>>

\* The stream ends, or the client leaves: _record_stream builds the trace.
StreamEnds(c) ==
    /\ http[c] = "streaming"
    /\ Finish(c)
    /\ \E k \in Response(trace[c]) : OfferTrace(c, Answered(trace[c], k))
    /\ UNCHANGED <<today, boot>>

\* The trace of a mirror; a failed one (an error status, or a send that
\* raised) is marked as terminal.
Mirrored(cost, failed) ==
    [cost |-> cost, day |-> today, terminal |-> failed, free |-> FALSE,
     served |-> FALSE, reserved |-> FALSE]

\* A shadow worker records the mirror of an earlier call.  Nothing admitted
\* its cost, but the observer will charge it.
MirrorEnds(c) ==
    /\ mode = "running"
    /\ c \in Mirror
    /\ http[c] = "idle"
    /\ Finish(c)
    /\ \E k \in Bill \cup {0, Unknown}, failed \in BOOLEAN :
          OfferTrace(c, Mirrored(k, failed))
    /\ UNCHANGED <<today, boot>>

-----------------------------------------------------------------------------
(* The recorder, with the budget gate as its observer *)

Unobserved == UNCHANGED <<today, budgetVars, http, trace, boot>>

Observed(c) == Observe(c, trace[c]) /\ UNCHANGED <<today, http, trace, boot>>

Lost(c) == Discarded(c, trace[c]) /\ UNCHANGED <<today, http, trace, boot>>

Wake(c) == \/ Unblock(c) /\ Unobserved
           \/ GiveUp(c) /\ Lost(c)

Work(c) == \/ (Take(c) \/ Commit(c)) /\ Unobserved
           \/ Report(c) /\ Observed(c)
           \/ FailSave(c) /\ Lost(c)

\* The server closes the lifespan only after its requests have finished.
Shutdown ==
    \/ /\ \A c \in Call : http[c] \in {"idle", "done"}
       /\ BeginClose
       /\ Unobserved
    \/ CancelIdle /\ Unobserved
    \/ \E c \in Call : (CancelSaving(c) \/ DiscardRest(c)) /\ Lost(c)

-----------------------------------------------------------------------------
(* Process lifetime *)

\* The process is gone, at the end of a shutdown or in a crash.  Only the rows
\* stay; a trace without one leaves nothing behind.
Exit ==
    /\ mode # "closed"
    /\ mode' = "closed"
    /\ queue' = <<>>
    /\ stage' = [c \in Call |->
          IF stage[c] \in InFlight THEN "lost" ELSE stage[c]]
    /\ http' = [c \in Call |-> IF http[c] = "idle" THEN "idle" ELSE "done"]
    /\ held' = {}
    /\ estimate' = [c \in Call |-> IF c \in rows THEN estimate[c] ELSE 0]
    /\ trace' = [c \in Call |-> IF c \in rows THEN trace[c] ELSE NoTrace]
    /\ snapDay' = 0
    /\ total' = 0
    /\ byUseCase' = NoSeed.byUseCase
    /\ bySession' = NoSeed.bySession
    /\ unknownSessions' = {}
    /\ dropped' = 0
    /\ droppedImportant' = 0
    /\ UNCHANGED <<today, rows, boot>>

RowsOf(d) == {c \in rows : trace[c].day = d}

\* Fault: the sessions, too, are read for the day.
ReadSeedOfToday ==
    /\ mode = "closed"
    /\ boot.day = 0
    /\ boot' =
         [day |-> today,
          total |-> SumOver(RowsOf(today), Cost),
          byUseCase |-> [u \in UseCase |->
              SumOver({c \in RowsOf(today) : UseCaseOf(c) = u}, Cost)],
          bySession |-> [s \in Session |->
              SumOver({c \in RowsOf(today) : SessionOf(c) = s}, Cost)],
          unknownSessions |-> {}]
    /\ UNCHANGED <<today, budgetVars, recorderVars, http, trace>>

\* build_app() reads the day's totals and the sessions' lifetime totals ...
ReadSeed ==
    /\ mode = "closed"
    /\ boot.day = 0
    /\ boot' =
         [day |-> today,
          total |-> SumOver(RowsOf(today), Cost),
          byUseCase |-> [u \in UseCase |->
              SumOver({c \in RowsOf(today) : UseCaseOf(c) = u}, Cost)],
          bySession |-> [s \in Session |->
              SumOver({c \in rows : SessionOf(c) = s}, Cost)],
          unknownSessions |->
              {s \in Session : \E c \in rows :
                  SessionOf(c) = s /\ MarksUnknown(c, trace[c])}]
    /\ UNCHANGED <<today, budgetVars, recorderVars, http, trace>>

\* Fault: the use cases and the unknown sessions are not seeded.
StartBare ==
    /\ mode = "closed"
    /\ boot.day # 0
    /\ mode' = "running"
    /\ snapDay' = today
    /\ total' = boot.total
    /\ byUseCase' = NoSeed.byUseCase
    /\ bySession' = boot.bySession
    /\ unknownSessions' = {}
    /\ boot' = NoSeed
    /\ UNCHANGED <<today, reservationVars, queue, stage, rows, dropped,
                   droppedImportant, http, trace>>

\* ... and seed() files them under the day it is by then.
Start ==
    /\ mode = "closed"
    /\ boot.day # 0
    /\ mode' = "running"
    /\ snapDay' = today
    /\ total' = boot.total
    /\ byUseCase' = boot.byUseCase
    /\ bySession' = IF SessionLimit # NoLimit THEN boot.bySession
                    ELSE NoSeed.bySession
    /\ unknownSessions' = IF SessionLimit # NoLimit THEN boot.unknownSessions
                          ELSE {}
    /\ boot' = NoSeed
    /\ UNCHANGED <<today, reservationVars, queue, stage, rows, dropped,
                   droppedImportant, http, trace>>

Midnight ==
    /\ today < MaxDay
    /\ today' = today + 1
    /\ UNCHANGED <<budgetVars, recorderVars, http, trace, boot>>

-----------------------------------------------------------------------------
Init ==
    /\ today = 1
    /\ snapDay = 1
    /\ total = 0
    /\ byUseCase = [u \in UseCase |-> 0]
    /\ bySession = [s \in Session |-> 0]
    /\ unknownSessions = {}
    /\ held = {}
    /\ estimate = [c \in Call |-> 0]
    /\ RecorderInit
    /\ http = [c \in Call |-> "idle"]
    /\ trace = [c \in Call |-> NoTrace]
    /\ boot = NoSeed

Next ==
    \/ \E c \in Call :
          \/ TurnAway(c) \/ Arrive(c) \/ SendOK(c) \/ SendFails(c)
          \/ StreamEnds(c) \/ MirrorEnds(c) \/ Wake(c) \/ Work(c)
    \/ Shutdown \/ Exit \/ ReadSeed \/ Start \/ Midnight

Spec == Init /\ [][Next]_vars

\* The upstream answers or times out, its stream ends, the wait for a slot is
\* bounded, a save returns or raises, and a shutdown once begun runs on.
FairSpec ==
    /\ Spec
    /\ \A c \in Call :
          /\ WF_vars(SendOK(c) \/ SendFails(c))
          /\ WF_vars(StreamEnds(c))
          /\ WF_vars(Wake(c))
          /\ WF_vars(Work(c))
    /\ WF_vars(mode # "running" /\ Shutdown)

-----------------------------------------------------------------------------
TypeOK ==
    /\ BudgetTypeOK
    /\ RecorderTypeOK
    /\ http \in [Call -> Http]
    /\ trace \in [Call -> Trace]
    /\ boot \in Seed

\* The call has been admitted and its trace has not been reported yet.
Outstanding(c) == http[c] \in {"sending", "streaming"} \/ stage[c] \in InFlight

\* A reservation is held exactly as long as the call it was taken for is
\* outstanding: on every path a call can take (refused after admission, failed
\* send, full queue, expired wait, failed save, cancelled worker, undrained
\* queue) something releases it, once, and nothing releases it early.
HeldWhileOutstanding ==
    held = {c \in Call : trace[c].reserved /\ Outstanding(c)}

\* What a call's bill took of its reservation.
Covered ==
    [c \in Call |->
        IF Cost[c] <= estimate[c] THEN Cost[c] ELSE estimate[c]]

Settlements == {c \in rows : trace[c].reserved}

\* reserve_in_flight closes the race between concurrent calls: whatever the
\* interleaving of admissions, settlements, midnights and crashes, the spend
\* the reservations stood for never exceeds the day's ceiling.  (A bill above
\* its estimate can overshoot, by the difference only.)
SpendWithinCeiling ==
    ReserveInFlight /\ GlobalLimit # NoLimit =>
        \A d \in Day :
            SumOver({c \in Settlements : trace[c].day = d}, Covered)
                <= GlobalLimit

\* The same for every use case with a ceiling ...
UseCaseWithinCeiling ==
    ReserveInFlight =>
        \A d \in Day, u \in UseCase : UseCaseLimit[u] # NoLimit =>
            SumOver({c \in Settlements :
                        trace[c].day = d /\ UseCaseOf(c) = u}, Covered)
                <= UseCaseLimit[u]

\* ... and for every session, over its whole life.
SessionWithinCeiling ==
    ReserveInFlight /\ SessionLimit # NoLimit =>
        \A s \in Session :
            SumOver({c \in Settlements : SessionOf(c) = s}, Covered)
                <= SessionLimit

\* All of it at once: a call is admitted under every ceiling it is under, so
\* a refusal by one must not leave room taken or given up under another.
CeilingsHold ==
    SpendWithinCeiling /\ UseCaseWithinCeiling /\ SessionWithinCeiling

\* The rows whose reports the running process has received, or was seeded by.
Reported == {c \in rows : ~AtWorker(c)}

\* Admission never works from less than the store shows: the snapshot counts
\* every reported row of the day, and every one of a session, though rows are
\* committed by a thread, seeded across restarts and rolled over at midnight.
SnapshotCoversRows ==
    mode \in {"running", "draining"} =>
        /\ TotalNow >= SumOver({c \in Reported : trace[c].day = today}, Cost)
        /\ \A u \in UseCase : UseCaseNow(u) >=
              SumOver({c \in Reported :
                          trace[c].day = today /\ UseCaseOf(c) = u}, Cost)
        /\ SessionLimit # NoLimit => \A s \in Session : bySession[s] >=
              SumOver({c \in Reported : SessionOf(c) = s}, Cost)

\* A session with a reported call of unknown cost (one billed on a model that
\* has no price) stays refused, also by the next process: the seed's SQL and
\* record() agree on what is unknown.
UnknownStaysRefused ==
    SessionLimit # NoLimit /\ mode \in {"running", "draining"} =>
        \A c \in Reported :
            MarksUnknown(c, trace[c]) => SessionOf(c) \in unknownSessions

\* Committed spend falls only by the reservations a step settles, until the
\* day or the process ends; nothing else makes room for more admissions.
RoomOnlyFromSettlement ==
    [][today' = today /\ mode' # "closed" /\ mode # "closed"
         => Committed' + SumOver(held \ held', estimate) >= Committed]_vars

\* No reservation outlives its call for ever.
ReservationsSettle == \A c \in Call : (c \in held) ~> (c \notin held)

\* docs/configure.md:146, a session is refused that "already contains a call of
\* unknown cost", and docs/configure.md:148, "Unknown never means zero. `free:
\* true` on a provider is the only zero-cost declaration": so too a session with
\* a paid response of which nobody knows the usage.
UnknownNeverZero ==
    SessionLimit # NoLimit /\ mode \in {"running", "draining"} =>
        \A c \in Reported :
            /\ SessionOf(c) # None /\ ~trace[c].free /\ ~trace[c].terminal
            /\ trace[c].cost \notin Bill
            => SessionOf(c) \in unknownSessions

=============================================================================
