------------------------------- MODULE Budget -------------------------------
(***************************************************************************)
(* policy/budget.py: the spend ceilings (BudgetPolicy), the in-memory      *)
(* accounting (SpendSnapshot) and the admission gate with its in-flight    *)
(* reservations (BudgetGate).  Everything here runs on the event loop and  *)
(* never awaits, so each operation is one atomic piece of a step; the      *)
(* Gateway module says in which steps they occur.                          *)
(***************************************************************************)
EXTENDS Calls, SpendSums

CONSTANTS
    UseCase,         \* use-case keys (fingerprints)
    Session,         \* session ids
    None,            \* Python's None
    Unknown,         \* an unpriceable response, or a request with no bound
    NoLimit,         \* a ceiling that is not configured
    GlobalLimit,     \* BudgetPolicy.global_daily_usd
    UseCaseLimit,    \* BudgetPolicy.use_case_daily_usd
    FallbackLimit,   \* BudgetPolicy.use_case_fallback_usd
    SessionLimit,    \* BudgetPolicy.session_limit_usd
    ReserveInFlight, \* BudgetPolicy.reserve_in_flight
    Request,         \* what each call asks for
    MaxDay           \* bound: the days the model runs

\* A served model is priced, unpriced (price_for is None), or priced with a
\* request that bounds no output (_reservation_cost is None).
Price == [listed : BOOLEAN, estimate : Nat \cup {Unknown}]

\* Where the call is served: the price of the served model and whether the
\* provider is declared free.
Target == [price : Price, free : BOOLEAN]

RequestType ==
    [useCase : UseCase, session : Session \cup {None}, hasModel : BOOLEAN,
     target : Target, fallback : Target \cup {None}]

Limit == Nat \cup {NoLimit}

Day == 1 .. MaxDay

ASSUME BudgetAssumption ==
    /\ NoLimit \notin Nat /\ Unknown \notin Nat
    /\ None \notin Session /\ None \notin Target /\ None \notin UseCase
    /\ GlobalLimit \in Limit /\ SessionLimit \in Limit
    /\ UseCaseLimit \in [UseCase -> Limit]
    /\ FallbackLimit \in [UseCase -> Limit]
    /\ \A u \in UseCase : FallbackLimit[u] # NoLimit =>
          UseCaseLimit[u] # NoLimit /\ FallbackLimit[u] < UseCaseLimit[u]
    /\ ReserveInFlight \in BOOLEAN
    /\ Request \in [Call -> RequestType]
    /\ MaxDay \in Nat \ {0}

VARIABLES
    today,            \* the UTC day (the wall clock)
    snapDay,          \* SpendSnapshot._day_ordinal
    total,            \* SpendSnapshot.total
    byUseCase,        \* SpendSnapshot.by_use_case
    bySession,        \* SpendSnapshot.by_session
    unknownSessions,  \* SpendSnapshot.unknown_sessions
    held,             \* the calls with an entry in BudgetGate._reservations
    estimate          \* the amount_usd of a call's reservation

snapshotVars == <<snapDay, total, byUseCase, bySession, unknownSessions>>
reservationVars == <<held, estimate>>
budgetVars == <<snapshotVars, reservationVars>>

UseCaseOf(c) == Request[c].useCase
SessionOf(c) == Request[c].session

\* What the gate remembers of a finished call.
Trace ==
    [cost : Nat \cup {Unknown}, day : 0 .. MaxDay, terminal : BOOLEAN,
     free : BOOLEAN, served : BOOLEAN, reserved : BOOLEAN]

BudgetTypeOK ==
    /\ today \in Day
    /\ snapDay \in 0 .. MaxDay
    /\ total \in Nat
    /\ byUseCase \in [UseCase -> Nat]
    /\ bySession \in [Session -> Nat]
    /\ unknownSessions \in SUBSET Session
    /\ held \in SUBSET Call
    /\ estimate \in [Call -> Nat]

-----------------------------------------------------------------------------
(* SpendSnapshot *)

\* totals(): the day's figures, as every reader sees them after _rollover.
TotalNow == IF snapDay = today THEN total ELSE 0
UseCaseNow(u) == IF snapDay = today THEN byUseCase[u] ELSE 0

\* Fault: the comparison of the days is inverted.
RolloverEveryTime ==
    /\ snapDay' = today
    /\ total' = IF snapDay = today THEN 0 ELSE total
    /\ byUseCase' = [u \in UseCase |-> 0]

Rollover ==
    /\ snapDay' = today
    /\ total' = TotalNow
    /\ byUseCase' = [u \in UseCase |-> UseCaseNow(u)]

MarksUnknown(c, t) ==
    /\ t.cost = Unknown
    /\ SessionOf(c) # None
    /\ ~t.terminal
    /\ ~t.free

Known(cost) == IF cost = Unknown THEN 0 ELSE cost

\* What a trace adds to the day's totals: nothing if it is of another day.
OfToday(t) == IF t.day = today THEN Known(t.cost) ELSE 0

\* Fault: the cost is added first, and then lost with the old day's totals.
ChargeDayThenRollover(c, t) ==
    /\ snapDay' = today
    /\ total' = IF snapDay = today THEN total + OfToday(t) ELSE 0
    /\ byUseCase' = [u \in UseCase |->
          IF snapDay # today THEN 0
          ELSE byUseCase[u] + IF u = UseCaseOf(c) THEN OfToday(t) ELSE 0]

ChargeDay(c, t) ==
    /\ snapDay' = today
    /\ total' = TotalNow + OfToday(t)
    /\ byUseCase' = [u \in UseCase |->
          UseCaseNow(u) + IF u = UseCaseOf(c) THEN OfToday(t) ELSE 0]

\* Fault: a session of unknown cost is forgotten.
ChargeSessionKnown(c, t) ==
    /\ bySession' = [s \in Session |->
          bySession[s] + IF s = SessionOf(c) THEN Known(t.cost) ELSE 0]
    /\ unknownSessions' = unknownSessions

ChargeSession(c, t) ==
    /\ bySession' = [s \in Session |->
          bySession[s] + IF s = SessionOf(c) THEN Known(t.cost) ELSE 0]
    /\ unknownSessions' = unknownSessions \cup
          IF MarksUnknown(c, t) THEN {SessionOf(c)} ELSE {}

\* record(): sessions are charged for ever, the day's totals only on the day
\* the trace carries.
Record(c, t) == ChargeDay(c, t) /\ ChargeSession(c, t)

-----------------------------------------------------------------------------
(* BudgetGate *)

Applicable(c) ==
    \/ GlobalLimit # NoLimit
    \/ UseCaseLimit[UseCaseOf(c)] # NoLimit
    \/ SessionLimit # NoLimit

\* check() reads the day's totals, and so rolls them over, only under a daily
\* ceiling.
ReadsTotals(c) ==
    /\ Request[c].hasModel
    /\ SessionLimit # NoLimit => SessionOf(c) # None
    /\ GlobalLimit # NoLimit \/ UseCaseLimit[UseCaseOf(c)] # NoLimit

\* A reservation counts against a use case, or a session, only if that one
\* has a ceiling.
ReservedFor(u) ==
    SumOver({c \in held : UseCaseOf(c) = u /\ UseCaseLimit[u] # NoLimit},
            estimate)
ReservedIn(s) ==
    SumOver({c \in held : SessionOf(c) = s /\ SessionLimit # NoLimit},
            estimate)

\* Faults: what is in flight is left out.
SettledOnly == TotalNow
UseCaseSettledOnly(u) == UseCaseNow(u)
SessionSettledOnly(s) == bySession[s]

Committed == TotalNow + SumOver(held, estimate)
UseCaseCommitted(u) == UseCaseNow(u) + ReservedFor(u)
SessionCommitted(s) == bySession[s] + ReservedIn(s)

Reaches(amount, limit) == limit # NoLimit /\ amount >= limit
Exceeds(amount, limit) == limit # NoLimit /\ amount > limit

\* check(): the answer for call c served at target.
Check(c, target, fallbackApplied) ==
    LET u == UseCaseOf(c)
        s == SessionOf(c)
        need == target.price.estimate
        metered == SessionLimit # NoLimit /\ s # None
    IN  IF ~Request[c].hasModel THEN "allow"
        ELSE IF SessionLimit # NoLimit /\ s = None THEN "session_required"
        ELSE IF ~Applicable(c) THEN "allow"
        ELSE IF \/ Reaches(Committed, GlobalLimit)
                \/ Reaches(UseCaseCommitted(u), UseCaseLimit[u])
             THEN "budget"
        ELSE IF /\ ~fallbackApplied
                /\ Reaches(UseCaseCommitted(u), FallbackLimit[u])
             THEN "fallback_required"
        ELSE IF metered /\ s \in unknownSessions THEN "unknown_session_cost"
        ELSE IF metered /\ Reaches(SessionCommitted(s), SessionLimit)
             THEN "budget"
        ELSE IF ~target.free /\ ~target.price.listed THEN "unpriced_model"
        ELSE IF ~ReserveInFlight \/ target.free THEN "allow"
        ELSE IF need = Unknown THEN "unreservable_request"
        ELSE IF \/ Exceeds(Committed + need, GlobalLimit)
                \/ Exceeds(UseCaseCommitted(u) + need, UseCaseLimit[u])
                \/ metered /\ Exceeds(SessionCommitted(s) + need, SessionLimit)
             THEN "budget"
        ELSE "reserve"

\* _reserve()
Reserve(c, target) ==
    /\ held' = held \cup {c}
    /\ estimate' = [estimate EXCEPT ![c] = target.price.estimate]

\* observe(): settle the reservation of a finished call and record its cost.
Observe(c, t) ==
    /\ held' = IF t.reserved THEN held \ {c} ELSE held
    /\ estimate' = estimate
    /\ Record(c, t)

=============================================================================
