--------------------------- MODULE GatewayTheorems --------------------------
(***************************************************************************)
(* What the gateway keeps for every set of calls and every policy: its     *)
(* state is well typed, a reservation is held exactly while its call is    *)
(* outstanding, and the counters the gate admits by are never less than    *)
(* what the store holds, whatever happens between them: rows are committed *)
(* by a thread, reported later, seeded into a new process and rolled over  *)
(* at midnight.  On top of them, reservations keep the spend within the    *)
(* ceilings.                                                               *)
(*                                                                         *)
(* HeldWhileOutstanding is not inductive by itself: it needs to know how   *)
(* far a call's handler and its trace may be out of step (CallInv), and    *)
(* that a trace is in the queue once, as "queued" (QueueInv): Take and     *)
(* DiscardRest act on whatever the queue's head names.  The counters need  *)
(* their seed: what a starting process has read is what the store still    *)
(* holds when it starts (SeedInv).                                         *)
(***************************************************************************)
EXTENDS Gateway, FiniteSetTheorems, Functions, TLAPS

(***************************************************************************)
(* The laws of SumOver.  The library's induction theorems cannot be        *)
(* instantiated by the installed provers; counting units makes the laws of *)
(* Cardinality sufficient.                                                 *)
(***************************************************************************)

\* The units of one call: as many as its amount.
LEMMA OneCall ==
    ASSUME NEW c, NEW n \in Nat
    PROVE  /\ IsFiniteSet({c} \X (1 .. n))
           /\ Cardinality({c} \X (1 .. n)) = n
<1>1. IsFiniteSet(1 .. n) /\ Cardinality(1 .. n) = n
  BY FS_Interval
<1>2. IsFiniteSet({c}) /\ Cardinality({c}) = 1
  BY FS_Singleton
<1>3. /\ IsFiniteSet({c} \X (1 .. n))
      /\ Cardinality({c} \X (1 .. n)) = Cardinality({c}) * Cardinality(1 .. n)
  BY <1>1, <1>2, FS_Product
<1> QED
  BY <1>1, <1>2, <1>3

\* Finitely many calls spend finitely many units.
LEMMA UnitsFinite ==
    ASSUME NEW D, NEW S \in SUBSET D, IsFiniteSet(S), NEW f \in [D -> Nat]
    PROVE  IsFiniteSet(Units(S, f))
<1> DEFINE T == {{c} \X (1 .. f[c]) : c \in S}
           g == [c \in S |-> {c} \X (1 .. f[c])]
<1>1. g \in Surjection(S, T)
  BY DEF Surjection
<1>2. IsFiniteSet(T)
  BY <1>1, FS_Surjection
<1>3. \A U \in T : IsFiniteSet(U)
  <2> TAKE U \in T
  <2>1. PICK c \in S : U = {c} \X (1 .. f[c])
    OBVIOUS
  <2>2. f[c] \in Nat
    OBVIOUS
  <2> QED
    BY <2>1, <2>2, OneCall
<1> HIDE DEF T
<1>4. IsFiniteSet(UNION T)
  BY <1>2, <1>3, FS_UNION
<1> QED
  BY <1>4 DEF Units, T

\* A sum of amounts is a natural number.
LEMMA SumType ==
    ASSUME NEW D, NEW S \in SUBSET D, IsFiniteSet(S), NEW f \in [D -> Nat]
    PROVE  SumOver(S, f) \in Nat
BY UnitsFinite, FS_CardinalityType DEF SumOver

\* Nothing is spent by nobody.
LEMMA SumEmpty == ASSUME NEW f PROVE SumOver({}, f) = 0
<1>1. Units({}, f) = {}
  BY DEF Units
<1> QED
  BY <1>1, FS_EmptySet DEF SumOver

\* More calls with larger amounts spend at least as much.
LEMMA SumMonotonic ==
    ASSUME NEW D, NEW T \in SUBSET D, IsFiniteSet(T), NEW S \in SUBSET T,
           NEW f \in [D -> Nat], NEW g \in [D -> Nat],
           \A c \in S : f[c] <= g[c]
    PROVE  SumOver(S, f) <= SumOver(T, g)
<1>1. \A c \in S : 1 .. f[c] \subseteq 1 .. g[c]
  <2> TAKE c \in S
  <2>1. f[c] \in Nat /\ g[c] \in Nat /\ f[c] <= g[c]
    OBVIOUS
  <2> QED
    BY <2>1
<1>2. \A c \in S : {c} \X (1 .. f[c]) \subseteq {c} \X (1 .. g[c])
  BY <1>1
<1>3. Units(S, f) \subseteq Units(T, g)
  BY <1>2 DEF Units
<1>4. IsFiniteSet(Units(T, g))
  BY UnitsFinite
<1> QED
  BY <1>3, <1>4, FS_Subset DEF SumOver

\* Equal amounts give equal sums.
LEMMA SumCongruence ==
    ASSUME NEW D, NEW S \in SUBSET D, IsFiniteSet(S),
           NEW f \in [D -> Nat], NEW g \in [D -> Nat],
           \A c \in S : f[c] = g[c]
    PROVE  SumOver(S, f) = SumOver(S, g)
<1>1. {{c} \X (1 .. f[c]) : c \in S} = {{c} \X (1 .. g[c]) : c \in S}
  OBVIOUS
<1> QED
  BY <1>1 DEF SumOver, Units

\* One more call adds its amount.
LEMMA SumAdd ==
    ASSUME NEW D, NEW S \in SUBSET D, IsFiniteSet(S), NEW f \in [D -> Nat],
           NEW c \in D, c \notin S
    PROVE  SumOver(S \cup {c}, f) = SumOver(S, f) + f[c]
<1> DEFINE A == Units(S, f)
           B == {c} \X (1 .. f[c])
<1>1. Units(S \cup {c}, f) = A \cup B
  BY DEF Units
<1>2. IsFiniteSet(A)
  BY UnitsFinite
<1>3. IsFiniteSet(B) /\ Cardinality(B) = f[c] /\ f[c] \in Nat
  BY OneCall
<1>4. A \cap B = {}
  BY DEF Units
<1>5. Cardinality(A \cup B)
        = Cardinality(A) + Cardinality(B) - Cardinality(A \cap B)
  BY <1>2, <1>3, FS_Union
<1>6. Cardinality(A \cap B) = 0
  BY <1>4, FS_EmptySet
<1>7. Cardinality(A) \in Nat
  BY <1>2, FS_CardinalityType
<1> HIDE DEF A, B
<1>8. Cardinality(A \cup B) = Cardinality(A) + f[c]
  BY <1>3, <1>5, <1>6, <1>7
<1> QED
  BY <1>1, <1>8 DEF SumOver, A

\* One call less takes its amount off.
LEMMA SumRemove ==
    ASSUME NEW D, NEW S \in SUBSET D, IsFiniteSet(S), NEW f \in [D -> Nat],
           NEW c \in S
    PROVE  SumOver(S, f) = SumOver(S \ {c}, f) + f[c]
<1>1. IsFiniteSet(S \ {c})
  BY FS_Subset
<1>2. S = (S \ {c}) \cup {c}
  OBVIOUS
<1>3. SumOver((S \ {c}) \cup {c}, f) = SumOver(S \ {c}, f) + f[c]
  BY <1>1, SumAdd
<1> QED
  BY <1>2, <1>3

\* Disjoint groups of calls add up.
LEMMA SumDisjoint ==
    ASSUME NEW D, NEW S \in SUBSET D, NEW T \in SUBSET D, IsFiniteSet(S),
           IsFiniteSet(T), S \cap T = {}, NEW f \in [D -> Nat]
    PROVE  SumOver(S \cup T, f) = SumOver(S, f) + SumOver(T, f)
<1> DEFINE A == Units(S, f)
           B == Units(T, f)
<1>1. Units(S \cup T, f) = A \cup B
  BY DEF Units
<1>2. IsFiniteSet(A) /\ IsFiniteSet(B)
  BY UnitsFinite
<1>3. A \cap B = {}
  BY DEF Units
<1>4. Cardinality(A \cap B) = 0
  BY <1>3, FS_EmptySet
<1>5. Cardinality(A) \in Nat /\ Cardinality(B) \in Nat
  BY <1>2, FS_CardinalityType
<1>6. Cardinality(A \cup B)
        = Cardinality(A) + Cardinality(B) - Cardinality(A \cap B)
  BY <1>2, FS_Union
<1> HIDE DEF A, B
<1>7. Cardinality(A \cup B) = Cardinality(A) + Cardinality(B)
  BY <1>4, <1>5, <1>6
<1> QED
  BY <1>1, <1>7 DEF SumOver, A, B

-----------------------------------------------------------------------------
(* Type correctness *)

\* Sums over calls are natural numbers.
LEMMA CallSum ==
    ASSUME NEW S \in SUBSET Call, NEW f \in [Call -> Nat]
    PROVE  SumOver(S, f) \in Nat
BY FiniteCalls, FS_Subset, SumType

\* The laws of sums, for sets of calls.
LEMMA CallSumMonotonic ==
    ASSUME NEW S \in SUBSET Call, NEW T \in SUBSET Call, S \subseteq T,
           NEW f \in [Call -> Nat], NEW g \in [Call -> Nat],
           \A x \in S : f[x] <= g[x]
    PROVE  SumOver(S, f) <= SumOver(T, g)
<1>1. IsFiniteSet(T) /\ S \in SUBSET T
  BY FiniteCalls, FS_Subset
<1> QED
  BY <1>1, SumMonotonic

LEMMA CallSumRemove ==
    ASSUME NEW S \in SUBSET Call, NEW f \in [Call -> Nat], NEW c \in S
    PROVE  SumOver(S, f) = SumOver(S \ {c}, f) + f[c]
<1>1. IsFiniteSet(S)
  BY FiniteCalls, FS_Subset
<1> QED
  BY <1>1, SumRemove

LEMMA CallSumDisjoint ==
    ASSUME NEW S \in SUBSET Call, NEW T \in SUBSET Call, S \cap T = {},
           NEW f \in [Call -> Nat]
    PROVE  SumOver(S \cup T, f) = SumOver(S, f) + SumOver(T, f)
<1>1. IsFiniteSet(S)
  BY FiniteCalls, FS_Subset
<1>2. IsFiniteSet(T)
  BY FiniteCalls, FS_Subset
<1>3. S \in SUBSET Call /\ T \in SUBSET Call /\ f \in [Call -> Nat]
  OBVIOUS
<1>4. SumOver(S \cup T, f) = SumOver(S, f) + SumOver(T, f)
  BY ONLY <1>1, <1>2, <1>3, S \cap T = {}, SumDisjoint
<1> QED
  BY <1>4

LEMMA PendingType ==
    ASSUME NEW target \in Target, NEW served \in BOOLEAN, NEW reserved \in BOOLEAN
    PROVE  /\ Pending(target, served, reserved) \in Trace
           /\ Pending(target, served, reserved).reserved = reserved
<1>1. target.free \in BOOLEAN /\ Unused(target) \in Nat \cup {Unknown}
  BY DEF Target, Unused
<1> QED
  BY <1>1, BudgetAssumption DEF Pending, Trace

LEMMA NoTraceType == NoTrace \in Trace
BY BudgetAssumption DEF NoTrace, Trace

LEMMA SyntheticType ==
    ASSUME today \in Day, NEW t \in Trace
    PROVE  /\ Synthetic(t) \in Trace
           /\ Synthetic(t).day = today
           /\ Synthetic(t).reserved = t.reserved
           /\ Synthetic(t).served = t.served
BY BudgetAssumption DEF Synthetic, Trace, Day

\* The trace of a call turned away on its arrival.
LEMMA TurnedAwayType ==
    ASSUME today \in Day, NEW target \in Target, NEW served \in BOOLEAN,
           NEW reserved \in BOOLEAN
    PROVE  /\ Synthetic(Pending(target, served, reserved)) \in Trace
           /\ Synthetic(Pending(target, served, reserved)).day = today
           /\ Synthetic(Pending(target, served, reserved)).reserved = reserved
BY PendingType, SyntheticType

LEMMA AnsweredType ==
    ASSUME today \in Day, NEW t \in Trace, NEW k \in Response(t)
    PROVE  /\ Answered(t, k) \in Trace
           /\ Answered(t, k).day = today
           /\ Answered(t, k).reserved = t.reserved
<1>1. k \in Nat \cup {Unknown}
  BY GatewayAssumption DEF Response
<1> QED
  BY <1>1, BudgetAssumption DEF Answered, Trace, Day

LEMMA MirroredType ==
    ASSUME today \in Day, NEW k \in Bill \cup {0, Unknown},
           NEW failed \in BOOLEAN
    PROVE  Mirrored(k, failed) \in Trace
BY GatewayAssumption, BudgetAssumption DEF Mirrored, Trace, Day

LEMMA NoSeedType == NoSeed \in Seed
BY BudgetAssumption DEF NoSeed, Seed

\* What each call asks for, in the terms the handler takes it apart.
LEMMA RequestFacts ==
    ASSUME NEW c \in Call
    PROVE  /\ UseCaseOf(c) \in UseCase
           /\ SessionOf(c) \in Session \cup {None}
           /\ Request[c].target \in Target
           /\ Request[c].fallback \in Target \cup {None}
BY BudgetAssumption DEF RequestType, UseCaseOf, SessionOf

LEMMA TargetFacts ==
    ASSUME NEW t \in Target
    PROVE  t.free \in BOOLEAN /\ t.price.estimate \in Nat \cup {Unknown}
BY DEF Target, Price

-----------------------------------------------------------------------------
(* The budget's operations *)

LEMMA TotalsType ==
    ASSUME BudgetTypeOK
    PROVE  TotalNow \in Nat /\ \A u \in UseCase : UseCaseNow(u) \in Nat
BY DEF BudgetTypeOK, TotalNow, UseCaseNow

LEMMA RolloverType ==
    ASSUME BudgetTypeOK, today' = today, Rollover
    PROVE  /\ snapDay' \in 0 .. MaxDay
           /\ total' \in Nat
           /\ byUseCase' \in [UseCase -> Nat]
BY TotalsType DEF Rollover, BudgetTypeOK, Day

\* A gate that answers "reserve" has an estimate to reserve.
LEMMA ReserveHasEstimate ==
    ASSUME NEW c \in Call, NEW target \in Target, NEW fb \in BOOLEAN,
           Check(c, target, fb) = "reserve"
    PROVE  /\ ReserveInFlight
           /\ target.price.estimate \in Nat
BY TargetFacts DEF Check

LEMMA ReserveType ==
    ASSUME BudgetTypeOK, NEW c \in Call, NEW target \in Target,
           target.price.estimate \in Nat, Reserve(c, target)
    PROVE  held' \in SUBSET Call /\ estimate' \in [Call -> Nat]
BY DEF Reserve, BudgetTypeOK

LEMMA KnownType ==
    ASSUME NEW t \in Trace
    PROVE  Known(t.cost) \in Nat /\ OfToday(t) \in Nat
BY BudgetAssumption DEF Known, OfToday, Trace

LEMMA ObserveType ==
    ASSUME BudgetTypeOK, today' = today, NEW c \in Call, NEW t \in Trace,
           Observe(c, t)
    PROVE  BudgetTypeOK'
<1>1. Known(t.cost) \in Nat /\ OfToday(t) \in Nat
  BY KnownType
<1>2. held' \in SUBSET Call /\ estimate' \in [Call -> Nat]
  BY DEF Observe, BudgetTypeOK
<1>3. snapDay' \in 0 .. MaxDay /\ total' \in Nat /\ byUseCase' \in [UseCase -> Nat]
  BY <1>1, TotalsType DEF Observe, Record, ChargeDay, BudgetTypeOK, Day
<1>4. bySession' \in [Session -> Nat]
  BY <1>1 DEF Observe, Record, ChargeSession, BudgetTypeOK
<1>5. unknownSessions' \in SUBSET Session
  BY RequestFacts
     DEF Observe, Record, ChargeSession, MarksUnknown, BudgetTypeOK
<1> QED
  BY <1>2, <1>3, <1>4, <1>5 DEF BudgetTypeOK

LEMMA DiscardedType ==
    ASSUME BudgetTypeOK, today' = today, NEW c \in Call, NEW t \in Trace,
           Discarded(c, t)
    PROVE  BudgetTypeOK'
BY ObserveType
   DEF Discarded, budgetVars, snapshotVars, reservationVars, BudgetTypeOK

-----------------------------------------------------------------------------
(* The recorder's operations *)

LEMMA RecorderStepType ==
    ASSUME RecorderTypeOK, NEW c \in Call,
           \/ Accept(c) \/ Drop(c) \/ Block(c) \/ Unblock(c) \/ GiveUp(c)
           \/ Take(c) \/ Commit(c) \/ Report(c) \/ FailSave(c)
           \/ BeginClose \/ CancelIdle \/ CancelSaving(c) \/ DiscardRest(c)
    PROVE  RecorderTypeOK'
<1> USE CapacityAssumption DEF RecorderTypeOK, Moves, Stage, InFlight, Settled, Mode
<1>1. CASE Accept(c)
  BY <1>1 DEF Accept, HasRoom
<1>2. CASE Drop(c)
  BY <1>2 DEF Drop
<1>3. CASE Block(c)
  BY <1>3 DEF Block
<1>4. CASE Unblock(c)
  BY <1>4 DEF Unblock, HasRoom
<1>5. CASE GiveUp(c)
  BY <1>5 DEF GiveUp
<1>6. CASE Take(c)
  BY <1>6 DEF Take
<1>7. CASE Commit(c)
  BY <1>7 DEF Commit
<1>8. CASE Report(c)
  BY <1>8 DEF Report
<1>9. CASE FailSave(c)
  BY <1>9 DEF FailSave
<1>10. CASE BeginClose
  BY <1>10 DEF BeginClose
<1>11. CASE CancelIdle
  BY <1>11 DEF CancelIdle
<1>12. CASE CancelSaving(c)
  BY <1>12 DEF CancelSaving
<1>13. CASE DiscardRest(c)
  BY <1>13 DEF DiscardRest
<1> QED
  BY <1>1, <1>2, <1>3, <1>4, <1>5, <1>6, <1>7, <1>8, <1>9, <1>10, <1>11,
     <1>12, <1>13

-----------------------------------------------------------------------------
(* Whole steps *)

LEMMA OfferTraceType ==
    ASSUME TypeOK, today' = today, boot' = boot, NEW c \in Call,
           NEW t \in Trace, http' \in [Call -> Http],
           OfferTrace(c, t) \/ OfferSynthetic(c, t)
    PROVE  TypeOK'
<1>1. trace' \in [Call -> Trace]
  BY DEF OfferTrace, OfferSynthetic, Leaves, TypeOK
<1>2. RecorderTypeOK'
  BY RecorderStepType DEF OfferTrace, OfferSynthetic, TypeOK
<1>3. BudgetTypeOK'
  <2>1. CASE UNCHANGED budgetVars
    BY <2>1 DEF TypeOK, BudgetTypeOK, budgetVars, snapshotVars, reservationVars
  <2>2. CASE Discarded(c, t)
    BY <2>2, DiscardedType DEF TypeOK
  <2> QED
    BY <2>1, <2>2 DEF OfferTrace, OfferSynthetic
<1> QED
  BY <1>1, <1>2, <1>3 DEF TypeOK

\* The answer's rollover of the totals, if check() reads them.
LEMMA CheckRollsOverType ==
    ASSUME BudgetTypeOK, today' = today, NEW c \in Call,
           CheckRollsOver(c) \/ Rollover
    PROVE  /\ snapDay' \in 0 .. MaxDay
           /\ total' \in Nat
           /\ byUseCase' \in [UseCase -> Nat]
BY RolloverType DEF CheckRollsOver, BudgetTypeOK

LEMMA RefuseType ==
    ASSUME TypeOK, today' = today, boot' = boot, NEW c \in Call,
           NEW target \in Target, NEW served \in BOOLEAN,
           Refuse(c, target, served)
    PROVE  TypeOK'
<1>1. Synthetic(Pending(target, served, FALSE)) \in Trace
  BY TurnedAwayType DEF TypeOK, BudgetTypeOK
<1>2. trace' \in [Call -> Trace] /\ http' \in [Call -> Http]
  BY <1>1 DEF Refuse, Leaves, Finish, TypeOK, Http
<1>3. RecorderTypeOK'
  BY RecorderStepType DEF Refuse, TypeOK
<1>4. BudgetTypeOK'
  BY CheckRollsOverType DEF Refuse, TypeOK, BudgetTypeOK, reservationVars
<1> QED
  BY <1>2, <1>3, <1>4 DEF TypeOK

LEMMA ActType ==
    ASSUME TypeOK, today' = today, boot' = boot, NEW c \in Call,
           NEW target \in Target, NEW served \in BOOLEAN, NEW fb \in BOOLEAN,
           Act(c, target, served, Check(c, target, fb))
    PROVE  TypeOK'
<1>1. CASE Refuse(c, target, served)
  BY <1>1, RefuseType
<1>2. CASE Send(c, target, served, FALSE)
  <2>1. trace' \in [Call -> Trace] /\ http' \in [Call -> Http]
    BY <1>2, PendingType DEF Send, Leaves, TypeOK, Http
  <2>2. RecorderTypeOK'
    BY <1>2 DEF Send, TypeOK, RecorderTypeOK, recorderVars
  <2>3. BudgetTypeOK'
    BY <1>2, CheckRollsOverType
       DEF Send, TypeOK, BudgetTypeOK, reservationVars
  <2> QED
    BY <2>1, <2>2, <2>3 DEF TypeOK
<1>3. CASE RefuseAdmitted(c, target, served)
  <2>1. CASE Refuse(c, target, served)
    BY <2>1, RefuseType
  <2>2. CASE ~served
    <3>1. http' \in [Call -> Http] /\ trace' \in [Call -> Trace]
      BY <1>3, <2>2 DEF RefuseAdmitted, Finish, TypeOK, Http
    <3>2. RecorderTypeOK'
      BY <1>3, <2>2 DEF RefuseAdmitted, TypeOK, RecorderTypeOK, recorderVars
    <3>3. BudgetTypeOK'
      BY <1>3, <2>2, CheckRollsOverType
         DEF RefuseAdmitted, TypeOK, BudgetTypeOK, reservationVars
    <3> QED
      BY <3>1, <3>2, <3>3 DEF TypeOK
  <2> QED
    BY <1>3, <2>1, <2>2 DEF RefuseAdmitted
<1>4. CASE Check(c, target, fb) = "reserve" /\ Send(c, target, served, TRUE)
  <2>1. trace' \in [Call -> Trace] /\ http' \in [Call -> Http]
    BY <1>4, PendingType DEF Send, Leaves, TypeOK, Http
  <2>2. RecorderTypeOK'
    BY <1>4 DEF Send, TypeOK, RecorderTypeOK, recorderVars
  <2>3. held' \in SUBSET Call /\ estimate' \in [Call -> Nat]
    BY <1>4, ReserveHasEstimate, ReserveType DEF Send, TypeOK
  <2>4. BudgetTypeOK'
    BY <1>4, <2>3, CheckRollsOverType DEF Send, TypeOK, BudgetTypeOK
  <2> QED
    BY <2>1, <2>2, <2>4 DEF TypeOK
<1>5. CASE Check(c, target, fb) = "reserve" /\ RefuseReserved(c, target, served)
  <2>1. Synthetic(Pending(target, served, TRUE)) \in Trace
    BY TurnedAwayType DEF TypeOK, BudgetTypeOK
  <2>2. trace' \in [Call -> Trace] /\ http' \in [Call -> Http]
    BY <1>5, <2>1 DEF RefuseReserved, Leaves, Finish, TypeOK, Http
  <2>3. RecorderTypeOK'
    BY <1>5, RecorderStepType DEF RefuseReserved, TypeOK
  <2>4. held' \in SUBSET Call /\ estimate' \in [Call -> Nat]
    BY <1>5, ReserveHasEstimate DEF RefuseReserved, Reserve, TypeOK, BudgetTypeOK
  <2>5. BudgetTypeOK'
    BY <1>5, <2>4, CheckRollsOverType
       DEF RefuseReserved, TypeOK, BudgetTypeOK
  <2> QED
    BY <2>2, <2>3, <2>5 DEF TypeOK
<1> QED
  BY <1>1, <1>2, <1>3, <1>4, <1>5 DEF Act

\* TypeOK is inductive, the arrival of a call ...
LEMMA ArriveType ==
    ASSUME TypeOK, NEW c \in Call, Arrive(c)
    PROVE  TypeOK'
<1> DEFINE fallsBack == /\ Check(c, Request[c].target, FALSE) = "fallback_required"
                        /\ c \notin Served
                        /\ Request[c].fallback # None
<1>1. today' = today /\ boot' = boot
  BY DEF Arrive
<1>2. CASE fallsBack
  <2>1. Act(c, Request[c].fallback, TRUE, Check(c, Request[c].fallback, TRUE))
    BY <1>2 DEF Arrive
  <2>2. Request[c].fallback \in Target
    BY <1>2, RequestFacts
  <2> QED
    BY <1>1, <2>1, <2>2, ActType
<1>3. CASE ~fallsBack
  <2>1. Act(c, Request[c].target, c \in Served, Check(c, Request[c].target, FALSE))
    BY <1>3 DEF Arrive
  <2>2. Request[c].target \in Target /\ (c \in Served) \in BOOLEAN
    BY RequestFacts
  <2> QED
    BY <1>1, <2>1, <2>2, ActType
<1> QED
  BY <1>2, <1>3

\* ... each step of a call under way ...
LEMMA CallType ==
    ASSUME TypeOK, NEW c \in Call,
           \/ TurnAway(c) \/ SendOK(c) \/ SendFails(c) \/ StreamEnds(c)
           \/ MirrorEnds(c)
    PROVE  TypeOK'
<1>1. CASE TurnAway(c)
  <2>1. today' = today /\ boot' = boot /\ http' \in [Call -> Http]
    BY <1>1 DEF TurnAway, Finish, TypeOK, Http
  <2>2. Synthetic(Pending(Request[c].target, TRUE, FALSE)) \in Trace
    BY TurnedAwayType, RequestFacts DEF TypeOK, BudgetTypeOK
  <2>3. CASE UNCHANGED <<budgetVars, recorderVars, trace>>
    BY <2>1, <2>3
       DEF TypeOK, BudgetTypeOK, RecorderTypeOK, budgetVars, snapshotVars,
           reservationVars, recorderVars
  <2> QED
    BY <1>1, <2>1, <2>2, <2>3, OfferTraceType DEF TurnAway
<1>2. CASE SendOK(c)
  BY <1>2
     DEF SendOK, TypeOK, Http, BudgetTypeOK, RecorderTypeOK, budgetVars,
         snapshotVars, reservationVars, recorderVars
<1>3. CASE SendFails(c)
  <2> DEFINE t == Synthetic(trace[c])
  <2>1. today' = today /\ boot' = boot /\ http' \in [Call -> Http]
    BY <1>3 DEF SendFails, Finish, TypeOK, Http
  <2>2. t \in Trace
    BY SyntheticType DEF TypeOK, BudgetTypeOK
  <2>3. CASE UNCHANGED <<budgetVars, recorderVars, trace>>
    BY <2>1, <2>3
       DEF TypeOK, BudgetTypeOK, RecorderTypeOK, budgetVars, snapshotVars,
           reservationVars, recorderVars
  <2>4. CASE OfferSynthetic(c, t)
    BY <2>1, <2>2, <2>4, OfferTraceType
  <2> QED
    BY <1>3, <2>3, <2>4 DEF SendFails
<1>4. CASE StreamEnds(c)
  <2>1. today' = today /\ boot' = boot /\ http' \in [Call -> Http]
    BY <1>4 DEF StreamEnds, Finish, TypeOK, Http
  <2>2. PICK k \in Response(trace[c]) :
          OfferTrace(c, Answered(trace[c], k))
    BY <1>4 DEF StreamEnds
  <2>3. Answered(trace[c], k) \in Trace
    BY AnsweredType DEF TypeOK, BudgetTypeOK
  <2> QED
    BY <2>1, <2>2, <2>3, OfferTraceType
<1>5. CASE MirrorEnds(c)
  <2>1. today' = today /\ boot' = boot /\ http' \in [Call -> Http]
    BY <1>5 DEF MirrorEnds, Finish, TypeOK, Http
  <2>2. PICK k \in Bill \cup {0, Unknown}, failed \in BOOLEAN :
          OfferTrace(c, Mirrored(k, failed))
    BY <1>5 DEF MirrorEnds
  <2>3. Mirrored(k, failed) \in Trace
    BY MirroredType DEF TypeOK, BudgetTypeOK
  <2> QED
    BY <2>1, <2>2, <2>3, OfferTraceType
<1> QED
  BY <1>1, <1>2, <1>3, <1>4, <1>5

\* ... each step of the recorder and of a shutdown ...
LEMMA RecorderType ==
    ASSUME TypeOK, NEW c \in Call, Wake(c) \/ Work(c) \/ Shutdown
    PROVE  TypeOK'
<1>1. /\ today' = today /\ boot' = boot
      /\ http' \in [Call -> Http] /\ trace' \in [Call -> Trace]
  BY DEF Wake, Work, Shutdown, Unobserved, Observed, Lost, TypeOK
<1>2. RecorderTypeOK'
  BY RecorderStepType DEF Wake, Work, Shutdown, TypeOK
<1>3. \A x \in Call : trace[x] \in Trace
  BY DEF TypeOK
<1>4. BudgetTypeOK'
  <2>1. CASE Unobserved
    BY <2>1 DEF Unobserved, TypeOK, BudgetTypeOK, budgetVars, snapshotVars,
                reservationVars
  <2>2. ASSUME NEW x \in Call, Observed(x) \/ Lost(x)
        PROVE  BudgetTypeOK'
    BY <1>1, <1>3, <2>2, ObserveType, DiscardedType DEF Observed, Lost, TypeOK
  <2> QED
    BY <2>1, <2>2 DEF Wake, Work, Shutdown
<1> QED
  BY <1>1, <1>2, <1>4 DEF TypeOK

LEMMA CostType == ASSUME TypeOK PROVE Cost \in [Call -> Nat]
BY KnownType DEF Cost, TypeOK

\* ... and each step of the process's life.
LEMMA ProcessType ==
    ASSUME TypeOK, Exit \/ ReadSeed \/ Start \/ Midnight
    PROVE  TypeOK'
<1>1. CASE Exit
  <2>1. RecorderTypeOK'
    BY <1>1, CapacityAssumption
       DEF Exit, TypeOK, RecorderTypeOK, Mode, Stage, InFlight, Settled
  <2>2. http' \in [Call -> Http] /\ trace' \in [Call -> Trace] /\ boot' \in Seed
    BY <1>1, NoTraceType DEF Exit, TypeOK, Http
  <2>3. BudgetTypeOK'
    BY <1>1, BudgetAssumption DEF Exit, TypeOK, BudgetTypeOK, NoSeed
  <2> QED
    BY <2>1, <2>2, <2>3 DEF TypeOK
<1>2. CASE ReadSeed
  <2>1. \A S \in SUBSET Call : SumOver(S, Cost) \in Nat
    BY CostType, CallSum
  <2>2. rows \in SUBSET Call /\ today \in 0 .. MaxDay
    BY DEF TypeOK, RecorderTypeOK, BudgetTypeOK, Day
  <2>3. /\ SumOver(RowsOf(today), Cost) \in Nat
        /\ \A u \in UseCase :
              SumOver({c \in RowsOf(today) : UseCaseOf(c) = u}, Cost) \in Nat
        /\ \A s \in Session :
              SumOver({c \in rows : SessionOf(c) = s}, Cost) \in Nat
    BY <2>1, <2>2 DEF RowsOf
  <2>4. boot' \in Seed
    BY <1>2, <2>2, <2>3 DEF ReadSeed, Seed
  <2> QED
    BY <1>2, <2>4
       DEF ReadSeed, TypeOK, BudgetTypeOK, RecorderTypeOK, budgetVars,
           snapshotVars, reservationVars, recorderVars
<1>3. CASE Start
  <2>1. boot' \in Seed
    BY <1>3, NoSeedType DEF Start
  <2>2. RecorderTypeOK'
    BY <1>3 DEF Start, TypeOK, RecorderTypeOK, Mode
  <2>3. bySession' \in [Session -> Nat] /\ unknownSessions' \in SUBSET Session
    BY <1>3, NoSeedType DEF Start, TypeOK, Seed
  <2>4. BudgetTypeOK'
    BY <1>3, <2>3
       DEF Start, TypeOK, BudgetTypeOK, Seed, Day, reservationVars
  <2> QED
    BY <1>3, <2>1, <2>2, <2>4 DEF Start, TypeOK
<1>4. CASE Midnight
  BY <1>4, BudgetAssumption
     DEF Midnight, TypeOK, BudgetTypeOK, RecorderTypeOK, Day, budgetVars,
         snapshotVars, reservationVars, recorderVars
<1> QED
  BY <1>1, <1>2, <1>3, <1>4

LEMMA InitType == Init => TypeOK
<1> SUFFICES ASSUME Init PROVE TypeOK
  OBVIOUS
<1>1. BudgetTypeOK
  BY BudgetAssumption DEF Init, BudgetTypeOK, Day
<1>2. RecorderTypeOK
  BY CapacityAssumption DEF Init, RecorderInit, RecorderTypeOK, Stage, Mode
<1> QED
  BY <1>1, <1>2, NoTraceType, NoSeedType DEF Init, TypeOK, Http

LEMMA NextType == TypeOK /\ [Next]_vars => TypeOK'
<1> SUFFICES ASSUME TypeOK, [Next]_vars PROVE TypeOK'
  OBVIOUS
<1>1. ASSUME NEW c \in Call, Arrive(c) PROVE TypeOK'
  BY <1>1, ArriveType
<1>2. ASSUME NEW c \in Call,
             \/ TurnAway(c) \/ SendOK(c) \/ SendFails(c) \/ StreamEnds(c)
             \/ MirrorEnds(c)
      PROVE TypeOK'
  BY <1>2, CallType
<1>3. ASSUME NEW c \in Call, Wake(c) \/ Work(c) PROVE TypeOK'
  BY <1>3, RecorderType
<1>4. CASE Shutdown
  <2>1. CASE Call # {}
    BY <1>4, <2>1, RecorderType
  <2>2. CASE Call = {}
    BY <1>4, <2>2
       DEF Shutdown, BeginClose, CancelIdle, Unobserved, TypeOK, BudgetTypeOK,
           RecorderTypeOK, Mode, budgetVars, snapshotVars, reservationVars
  <2> QED
    BY <2>1, <2>2
<1>5. CASE Exit \/ ReadSeed \/ Start \/ Midnight
  BY <1>5, ProcessType
<1>6. CASE UNCHANGED vars
  BY <1>6
     DEF vars, TypeOK, BudgetTypeOK, RecorderTypeOK, budgetVars, snapshotVars,
         reservationVars, recorderVars
<1> QED
  BY <1>1, <1>2, <1>3, <1>4, <1>5, <1>6 DEF Next

\* Every reachable state is well typed: the queue never exceeds its capacity,
\* totals and reservations are never negative or unknown, whatever the calls
\* ask for.
THEOREM GatewayTypeCorrect == Spec => []TypeOK
BY InitType, NextType, PTL DEF Spec

-----------------------------------------------------------------------------
(* Reservations *)

QueueInv ==
    /\ \A i \in 1 .. Len(queue) : stage[queue[i]] = "queued"
    /\ \A i, j \in 1 .. Len(queue) : queue[i] = queue[j] => i = j

\* A row is dated, no later than today; only a finished handler has dated and
\* offered its trace; a closed process has nothing under way.
CallInv(c) ==
    /\ http[c] # "done" => stage[c] = "none" /\ trace[c].day = 0
    /\ http[c] = "idle" => trace[c] = NoTrace
    /\ stage[c] \in {"none", "blocked", "queued", "saving"} => c \notin rows
    /\ trace[c].reserved => ReserveInFlight
    /\ trace[c].day <= today
    /\ c \in rows \/ stage[c] \in InFlight => trace[c].day >= 1
    /\ mode = "closed" =>
          http[c] \in {"idle", "done"} /\ stage[c] \notin InFlight
    /\ c \in held <=> trace[c].reserved /\ Outstanding(c)

Inv == TypeOK /\ QueueInv /\ \A c \in Call : CallInv(c)

\* A step of call c leaves the other calls alone.
Others(c) ==
    /\ today' = today
    /\ mode' = "closed" => mode = "closed"
    /\ \A x \in Call \ {c} :
          /\ http'[x] = http[x] /\ stage'[x] = stage[x] /\ trace'[x] = trace[x]
          /\ estimate'[x] = estimate[x]
          /\ x \in rows' <=> x \in rows
          /\ x \in held' <=> x \in held

\* The queue's contents are worth their places.
LEMMA QueueStep ==
    ASSUME RecorderTypeOK, QueueInv, NEW c \in Call,
           \/ Accept(c) \/ Drop(c) \/ Block(c) \/ Unblock(c) \/ GiveUp(c)
           \/ Take(c) \/ Commit(c) \/ Report(c) \/ FailSave(c)
           \/ CancelSaving(c) \/ DiscardRest(c)
    PROVE  QueueInv'
<1> USE DEF RecorderTypeOK, QueueInv, Moves
<1>1. CASE Accept(c)
  BY <1>1 DEF Accept
<1>2. CASE Unblock(c)
  BY <1>2 DEF Unblock
<1>3. CASE Take(c) \/ DiscardRest(c)
  <2>1. queue # <<>> /\ c = queue[1] /\ queue' = Tail(queue)
    BY <1>3 DEF Take, DiscardRest
  <2>2. /\ Len(queue') = Len(queue) - 1
        /\ \A i \in 1 .. Len(queue') : queue'[i] = queue[i + 1]
    BY <2>1
  <2>3. \A i \in 1 .. Len(queue') : queue'[i] # c
    BY <2>1, <2>2
  <2>4. \A x \in Call \ {c} : stage'[x] = stage[x]
    BY <1>3 DEF Take, DiscardRest
  <2>5. \A i \in 1 .. Len(queue') : queue'[i] \in Call
    BY <2>1, <2>2
  <2>6. \A i \in 1 .. Len(queue') : stage'[queue'[i]] = "queued"
    BY <2>2, <2>3, <2>4, <2>5
  <2>7. \A i, j \in 1 .. Len(queue') : queue'[i] = queue'[j] => i = j
    BY <2>1, <2>2
  <2> QED
    BY <2>6, <2>7
<1>4. CASE \/ Drop(c) \/ Block(c) \/ GiveUp(c) \/ Commit(c) \/ Report(c)
           \/ FailSave(c) \/ CancelSaving(c)
  <2>1. stage[c] # "queued" /\ queue' = queue
    BY <1>4
       DEF Drop, Block, GiveUp, Commit, Report, FailSave, CancelSaving, AtWorker
  <2>2. \A x \in Call \ {c} : stage'[x] = stage[x]
    BY <1>4 DEF Drop, Block, GiveUp, Commit, Report, FailSave, CancelSaving
  <2> QED
    BY <2>1, <2>2
<1> QED
  BY <1>1, <1>2, <1>3, <1>4

\* What becomes of call c's trace in each operation of the recorder.
LEMMA RecorderEffect ==
    ASSUME RecorderTypeOK, NEW c \in Call,
           \/ Accept(c) \/ Drop(c) \/ Block(c) \/ Unblock(c) \/ GiveUp(c)
           \/ Take(c) \/ Commit(c) \/ Report(c) \/ FailSave(c)
           \/ CancelSaving(c) \/ DiscardRest(c)
    PROVE  /\ mode' = "closed" => mode = "closed"
           /\ \A x \in Call \ {c} :
                 stage'[x] = stage[x] /\ (x \in rows' <=> x \in rows)
BY DEF RecorderTypeOK, Moves, Accept, Drop, Block, Unblock, GiveUp, Take, Commit,
       Report, FailSave, CancelSaving, DiscardRest

LEMMA ObserveEffect ==
    ASSUME NEW c \in Call, NEW t, Observe(c, t)
    PROVE  /\ held' = IF t.reserved THEN held \ {c} ELSE held
           /\ estimate' = estimate
BY DEF Observe

\* Where there are reservations, a discard settles like a record.
LEMMA DiscardedEffect ==
    ASSUME NEW c \in Call, NEW t, Discarded(c, t),
           t.reserved => ReserveInFlight, t.reserved \in BOOLEAN
    PROVE  /\ held' = IF t.reserved THEN held \ {c} ELSE held
           /\ estimate' = estimate
BY ObserveEffect DEF Discarded, budgetVars, reservationVars

\* The calls a step leaves alone stay as they were.
LEMMA OthersKeep ==
    ASSUME NEW c \in Call, Others(c), \A x \in Call : CallInv(x), CallInv(c)'
    PROVE  \A x \in Call : CallInv(x)'
BY DEF Others, CallInv, Outstanding

-----------------------------------------------------------------------------
(* The end of a handler: its trace is offered *)

\* A trace that call c may leave at its end.
Final(c, t) ==
    /\ t \in Trace
    /\ t.day = today
    /\ t.reserved => ReserveInFlight

LEMMA OfferStep ==
    ASSUME Inv, NEW c \in Call, NEW t, Final(c, t), today' = today, Finish(c),
           mode # "closed", c \in held <=> t.reserved,
           OfferTrace(c, t) \/ OfferSynthetic(c, t)
    PROVE  Others(c) /\ CallInv(c)' /\ QueueInv'
<1>1. /\ http'[c] = "done" /\ trace'[c] = t
      /\ \A x \in Call \ {c} : http'[x] = http[x] /\ trace'[x] = trace[x]
  BY DEF Finish, OfferTrace, OfferSynthetic, Leaves, Inv, TypeOK
<1>2. stage[c] = "none" /\ c \notin rows
  BY DEF OfferTrace, OfferSynthetic, Accept, Drop, Block, Inv, CallInv
<1>3. QueueInv' /\ RecorderTypeOK
  BY QueueStep DEF OfferTrace, OfferSynthetic, Inv, TypeOK
<1>4. /\ mode' = "closed" => mode = "closed"
      /\ \A x \in Call \ {c} :
            stage'[x] = stage[x] /\ (x \in rows' <=> x \in rows)
  BY <1>3, RecorderEffect DEF OfferTrace, OfferSynthetic
<1>5. /\ c \notin rows' /\ mode' = mode
      /\ \/ stage'[c] \in {"queued", "blocked"} /\ UNCHANGED budgetVars
         \/ stage'[c] = "discarded" /\ Discarded(c, t)
  BY <1>2, <1>3
     DEF OfferTrace, OfferSynthetic, Accept, Block, Drop, Moves, RecorderTypeOK
<1>6. t.day = today /\ today \in Nat /\ today >= 1 /\ t.reserved \in BOOLEAN
  BY DEF Final, Trace, Inv, TypeOK, BudgetTypeOK, Day
<1>7. CASE stage'[c] \in {"queued", "blocked"} /\ UNCHANGED budgetVars
  BY <1>1, <1>2, <1>3, <1>4, <1>5, <1>6, <1>7
     DEF Others, CallInv, Outstanding, InFlight, Final, budgetVars, reservationVars
<1>8. CASE stage'[c] = "discarded" /\ Discarded(c, t)
  <2>1. held' = (IF t.reserved THEN held \ {c} ELSE held) /\ estimate' = estimate
    BY <1>6, <1>8, DiscardedEffect DEF Final
  <2>2. c \notin held' /\ \A x \in Call \ {c} : x \in held' <=> x \in held
    BY <1>6, <2>1
  <2>3. Others(c)
    BY <1>1, <1>4, <2>1, <2>2 DEF Others
  <2>4. ~Outstanding(c)'
    BY <1>1, <1>8 DEF Outstanding, InFlight
  <2> QED
    BY <1>1, <1>3, <1>4, <1>5, <1>6, <1>8, <2>2, <2>3, <2>4
       DEF CallInv, InFlight, Final
<1> QED
  BY <1>3, <1>5, <1>7, <1>8

\* A call that has not arrived leaves no mark anywhere.
LEMMA IdleCall ==
    ASSUME Inv, NEW c \in Call, http[c] = "idle"
    PROVE  /\ stage[c] = "none" /\ c \notin rows /\ c \notin held
           /\ trace[c].reserved = FALSE /\ trace[c].day = 0
BY DEF Inv, CallInv, NoTrace, Outstanding, InFlight

-----------------------------------------------------------------------------
(* The arrival of a call *)

\* The trace of a call that ends at its arrival is queued or settled.
LEMMA ArrivalTrace ==
    ASSUME Inv, NEW c \in Call, http[c] = "idle", mode = "running",
           Accept(c) \/ Drop(c)
    PROVE  /\ QueueInv' /\ mode' = mode /\ c \notin rows'
           /\ \A x \in Call \ {c} :
                 stage'[x] = stage[x] /\ (x \in rows' <=> x \in rows)
           /\ Accept(c) => stage'[c] = "queued"
           /\ Drop(c) => stage'[c] = "discarded"
<1>1. RecorderTypeOK /\ QueueInv /\ c \notin rows
  BY IdleCall DEF Inv, TypeOK
<1>2. QueueInv'
  BY <1>1, QueueStep
<1>3. \A x \in Call \ {c} :
          stage'[x] = stage[x] /\ (x \in rows' <=> x \in rows)
  BY <1>1, RecorderEffect
<1>4. mode' = mode /\ rows' = rows
  BY DEF Accept, Drop
<1>5. /\ Accept(c) => stage'[c] = "queued"
      /\ Drop(c) => stage'[c] = "discarded"
  BY <1>1 DEF Accept, Drop, Moves, RecorderTypeOK
<1> QED
  BY <1>1, <1>2, <1>3, <1>4, <1>5

LEMMA RefuseStep ==
    ASSUME Inv, NEW c \in Call, NEW target, NEW served, today' = today,
           http[c] = "idle", mode = "running", Refuse(c, target, served)
    PROVE  Others(c) /\ CallInv(c)' /\ QueueInv'
<1>1. /\ http'[c] = "done"
      /\ trace'[c] = Synthetic(Pending(target, served, FALSE))
      /\ \A x \in Call \ {c} : http'[x] = http[x] /\ trace'[x] = trace[x]
  BY DEF Finish, Refuse, Leaves, Inv, TypeOK
<1>2. trace'[c].day = today /\ ~trace'[c].reserved
  BY <1>1 DEF Synthetic, Pending
<1>3. held' = held /\ estimate' = estimate /\ c \notin held
  BY IdleCall DEF Refuse, reservationVars
<1>4. /\ QueueInv' /\ mode' = mode /\ c \notin rows'
      /\ \A x \in Call \ {c} :
            stage'[x] = stage[x] /\ (x \in rows' <=> x \in rows)
  BY ArrivalTrace DEF Refuse
<1>5. today \in Nat /\ today >= 1
  BY DEF Inv, TypeOK, BudgetTypeOK, Day
<1>6. stage'[c] \in {"queued", "discarded"}
  BY ArrivalTrace DEF Refuse
<1>7. Others(c)
  BY <1>1, <1>3, <1>4 DEF Others
<1>8. CallInv(c)'
  <2>1. http'[c] = "done" /\ mode' = "running"
    BY <1>1, <1>4
  <2>2. trace'[c].day <= today' /\ trace'[c].day >= 1
    BY <1>2, <1>5
  <2>3. c \notin held' /\ c \notin rows'
    BY <1>3, <1>4
  <2> QED
    BY <1>2, <2>1, <2>2, <2>3 DEF CallInv
<1> QED
  BY <1>4, <1>7, <1>8

LEMMA SendStep ==
    ASSUME Inv, NEW c \in Call, NEW target, NEW served, NEW reserved \in BOOLEAN,
           today' = today, http[c] = "idle", mode = "running",
           reserved => ReserveInFlight, Send(c, target, served, reserved)
    PROVE  Others(c) /\ CallInv(c)' /\ QueueInv'
<1>1. /\ http'[c] = "sending"
      /\ trace'[c] = Pending(target, served, reserved)
      /\ \A x \in Call \ {c} : http'[x] = http[x] /\ trace'[x] = trace[x]
  BY DEF Send, Leaves, Inv, TypeOK
<1>2. trace'[c].day = 0 /\ trace'[c].reserved = reserved
  BY <1>1 DEF Pending
<1>3. QueueInv' /\ stage' = stage /\ rows' = rows /\ mode' = mode
  BY DEF Send, recorderVars, QueueInv, Inv
<1>4. stage[c] = "none" /\ c \notin rows /\ c \notin held
  BY IdleCall
<1>5. /\ held' = IF reserved THEN held \cup {c} ELSE held
      /\ \A x \in Call \ {c} : estimate'[x] = estimate[x]
  BY DEF Send, Reserve, reservationVars, Inv, TypeOK, BudgetTypeOK
<1>6. today \in Nat
  BY DEF Inv, TypeOK, BudgetTypeOK, Day
<1>7. Others(c)
  BY <1>1, <1>3, <1>5 DEF Others
<1>8. CallInv(c)'
  BY <1>1, <1>2, <1>3, <1>4, <1>5, <1>6 DEF CallInv, Outstanding, InFlight
<1> QED
  BY <1>3, <1>7, <1>8

LEMMA RefuseAdmittedStep ==
    ASSUME Inv, NEW c \in Call, NEW target, NEW served \in BOOLEAN, today' = today,
           http[c] = "idle", mode = "running", RefuseAdmitted(c, target, served)
    PROVE  Others(c) /\ CallInv(c)' /\ QueueInv'
<1>1. CASE served
  BY <1>1, RefuseStep DEF RefuseAdmitted
<1>2. CASE ~served
  <2>1. /\ http'[c] = "done" /\ \A x \in Call \ {c} : http'[x] = http[x]
        /\ trace' = trace /\ held' = held /\ estimate' = estimate
        /\ stage' = stage /\ rows' = rows /\ mode' = mode /\ queue' = queue
    BY <1>2 DEF RefuseAdmitted, Finish, recorderVars, reservationVars, Inv, TypeOK
  <2>2. /\ stage[c] = "none" /\ c \notin rows /\ c \notin held
        /\ trace[c].reserved = FALSE /\ trace[c].day = 0
    BY IdleCall
  <2>3. today \in Nat
    BY DEF Inv, TypeOK, BudgetTypeOK, Day
  <2>4. QueueInv'
    BY <2>1 DEF Inv, QueueInv
  <2> QED
    BY <2>1, <2>2, <2>3, <2>4 DEF Others, CallInv, Outstanding, InFlight
<1> QED
  BY <1>1, <1>2

LEMMA RefuseReservedStep ==
    ASSUME Inv, NEW c \in Call, NEW target, NEW served, today' = today,
           http[c] = "idle", mode = "running", ReserveInFlight,
           RefuseReserved(c, target, served)
    PROVE  Others(c) /\ CallInv(c)' /\ QueueInv'
<1>1. /\ http'[c] = "done"
      /\ trace'[c] = Synthetic(Pending(target, served, TRUE))
      /\ \A x \in Call \ {c} : http'[x] = http[x] /\ trace'[x] = trace[x]
  BY DEF Finish, RefuseReserved, Leaves, Inv, TypeOK
<1>2. trace'[c].day = today /\ trace'[c].reserved
  BY <1>1 DEF Synthetic, Pending
<1>3. \A x \in Call \ {c} : estimate'[x] = estimate[x]
  BY DEF RefuseReserved, Reserve, Inv, TypeOK, BudgetTypeOK
<1>4. /\ QueueInv' /\ mode' = mode /\ c \notin rows'
      /\ \A x \in Call \ {c} :
            stage'[x] = stage[x] /\ (x \in rows' <=> x \in rows)
  BY ArrivalTrace DEF RefuseReserved
<1>5. today \in Nat /\ today >= 1
  BY DEF Inv, TypeOK, BudgetTypeOK, Day
<1>6. c \notin held
  BY IdleCall
<1>7. \/ stage'[c] = "queued" /\ held' = held \cup {c}
      \/ stage'[c] = "discarded" /\ held' = held
  BY ArrivalTrace DEF RefuseReserved, Reserve
<1>8. Others(c)
  BY <1>1, <1>3, <1>4, <1>7 DEF Others
<1>9. CallInv(c)'
  <2>1. http'[c] = "done" /\ mode' = "running" /\ c \notin rows'
    BY <1>1, <1>4
  <2>2. trace'[c].day <= today' /\ trace'[c].day >= 1
    BY <1>2, <1>5
  <2>3. c \in held' <=> Outstanding(c)'
    BY <1>6, <1>7, <2>1 DEF Outstanding, InFlight
  <2> QED
    BY <1>2, <2>1, <2>2, <2>3 DEF CallInv
<1> QED
  BY <1>4, <1>8, <1>9

LEMMA ActStep ==
    ASSUME Inv, NEW c \in Call, NEW target \in Target, NEW served \in BOOLEAN,
           NEW fb \in BOOLEAN, today' = today, http[c] = "idle", mode = "running",
           Act(c, target, served, Check(c, target, fb))
    PROVE  Others(c) /\ CallInv(c)' /\ QueueInv'
<1>1. CASE Refuse(c, target, served)
  BY <1>1, RefuseStep
<1>2. CASE Send(c, target, served, FALSE)
  BY <1>2, SendStep
<1>3. CASE RefuseAdmitted(c, target, served)
  BY <1>3, RefuseAdmittedStep
<1>4. CASE /\ Check(c, target, fb) = "reserve"
           /\ Send(c, target, served, TRUE) \/ RefuseReserved(c, target, served)
  BY <1>4, ReserveHasEstimate, SendStep, RefuseReservedStep
<1> QED
  BY <1>1, <1>2, <1>3, <1>4 DEF Act

LEMMA ArriveStep ==
    ASSUME Inv, NEW c \in Call, Arrive(c)
    PROVE  Others(c) /\ CallInv(c)' /\ QueueInv'
<1> DEFINE fallsBack == /\ Check(c, Request[c].target, FALSE) = "fallback_required"
                        /\ c \notin Served
                        /\ Request[c].fallback # None
<1>1. today' = today /\ http[c] = "idle" /\ mode = "running"
  BY DEF Arrive
<1>2. CASE fallsBack
  <2>1. Act(c, Request[c].fallback, TRUE, Check(c, Request[c].fallback, TRUE))
    BY <1>2 DEF Arrive
  <2> QED
    BY <1>1, <1>2, <2>1, RequestFacts, ActStep
<1>3. CASE ~fallsBack
  <2>1. Act(c, Request[c].target, c \in Served, Check(c, Request[c].target, FALSE))
    BY <1>3 DEF Arrive
  <2>2. (c \in Served) \in BOOLEAN /\ Request[c].target \in Target
    BY RequestFacts
  <2> QED
    BY <1>1, <2>1, <2>2, ActStep
<1> QED
  BY <1>2, <1>3

-----------------------------------------------------------------------------
(* A call under way *)

\* A step in which the handler of c just moves on, or ends unrecorded.
LEMMA QuietStep ==
    ASSUME Inv, NEW c \in Call, NEW to \in Http, UNCHANGED <<today, budgetVars,
           recorderVars, trace>>, http' = [http EXCEPT ![c] = to], to # "idle",
           to = "done" => ~trace[c].reserved /\ stage[c] = "none",
           to # "done" => http[c] # "done" /\ mode # "closed"
                          /\ (trace[c].reserved => http[c] # "idle")
    PROVE  Others(c) /\ CallInv(c)' /\ QueueInv'
<1>1. /\ http'[c] = to /\ \A x \in Call \ {c} : http'[x] = http[x]
      /\ trace' = trace /\ held' = held /\ estimate' = estimate
      /\ stage' = stage /\ rows' = rows /\ mode' = mode /\ queue' = queue
      /\ today' = today
  BY DEF budgetVars, reservationVars, recorderVars, Inv, TypeOK
<1>2. Others(c) /\ QueueInv'
  BY <1>1 DEF Others, QueueInv, Inv
<1>3. CallInv(c)
  BY DEF Inv
<1>4. CallInv(c)'
  <2>1. CASE to = "done"
    <3>1. /\ http'[c] = "done" /\ stage'[c] = "none" /\ c \notin rows'
          /\ ~trace'[c].reserved /\ c \notin held' /\ trace'[c].day <= today'
      BY <1>1, <1>3, <2>1 DEF CallInv
    <3> QED
      BY <3>1 DEF CallInv, InFlight
  <2>2. CASE to # "done"
    <3>1. /\ http'[c] \in {"sending", "streaming"} /\ mode' # "closed"
          /\ stage'[c] = "none" /\ c \notin rows' /\ trace'[c].day <= today'
          /\ trace'[c].reserved => ReserveInFlight
          /\ trace'[c].day = 0
      BY <1>1, <1>3, <2>2 DEF CallInv, Http
    <3>2. c \in held <=> trace[c].reserved
      BY <1>3, <2>2 DEF CallInv, Outstanding, InFlight, Http, Inv, TypeOK
    <3>3. c \in held' <=> trace'[c].reserved /\ Outstanding(c)'
      BY <1>1, <3>1, <3>2 DEF Outstanding
    <3> QED
      BY <3>1, <3>3 DEF CallInv, InFlight
  <2> QED
    BY <2>1, <2>2
<1> QED
  BY <1>2, <1>4

\* A call that is being sent or streamed belongs to a live process.
LEMMA UnderWay ==
    ASSUME Inv, NEW c \in Call, http[c] \in {"sending", "streaming"}
    PROVE  /\ mode # "closed" /\ stage[c] = "none"
           /\ c \in held <=> trace[c].reserved
           /\ trace[c].reserved => ReserveInFlight
BY DEF Inv, CallInv, Outstanding

LEMMA CallStep ==
    ASSUME Inv, NEW c \in Call,
           \/ TurnAway(c) \/ SendOK(c) \/ SendFails(c) \/ StreamEnds(c)
           \/ MirrorEnds(c)
    PROVE  Others(c) /\ CallInv(c)' /\ QueueInv'
<1>1. today \in Day /\ trace[c] \in Trace /\ TypeOK
  BY DEF Inv, TypeOK, BudgetTypeOK
<1>2. CASE TurnAway(c)
  <2> DEFINE t == Synthetic(Pending(Request[c].target, TRUE, FALSE))
  <2>1. t \in Trace
    BY <1>1, TurnedAwayType, RequestFacts
  <2>2. t.day = today /\ ~t.reserved
    BY <1>1, TurnedAwayType, RequestFacts
  <2>3. http[c] = "idle" /\ mode # "closed" /\ Finish(c) /\ today' = today
    BY <1>2 DEF TurnAway
  <2>4. c \notin held /\ ~trace[c].reserved /\ stage[c] = "none"
    BY <2>3, IdleCall
  <2>5. CASE OfferSynthetic(c, t)
    <3> HIDE DEF t
    <3> QED
      BY <2>1, <2>2, <2>3, <2>4, <2>5, OfferStep DEF Final
  <2>6. CASE UNCHANGED <<budgetVars, recorderVars, trace>>
    BY <2>3, <2>4, <2>6, QuietStep DEF Finish, Http
  <2> QED
    BY <1>2, <2>5, <2>6 DEF TurnAway
<1>3. CASE SendOK(c)
  <2>1. mode # "closed" /\ http[c] = "sending"
    BY <1>3, UnderWay DEF SendOK
  <2> QED
    BY <1>3, <2>1, QuietStep DEF SendOK, Http
<1>4. CASE SendFails(c)
  <2> DEFINE t == Synthetic(trace[c])
  <2>1. t \in Trace
    BY <1>1, SyntheticType
  <2>2. t.day = today /\ t.reserved = trace[c].reserved /\ t.served = trace[c].served
    BY <1>1, SyntheticType
  <2>3. http[c] = "sending" /\ Finish(c) /\ today' = today
    BY <1>4 DEF SendFails
  <2>4. /\ mode # "closed" /\ (c \in held <=> trace[c].reserved)
        /\ trace[c].reserved => ReserveInFlight
        /\ stage[c] = "none"
    BY <2>3, UnderWay
  <2>5. CASE OfferSynthetic(c, t)
    <3> HIDE DEF t
    <3> QED
      BY <2>1, <2>2, <2>3, <2>4, <2>5, OfferStep DEF Final
  <2>6. CASE ~t.reserved /\ UNCHANGED <<budgetVars, recorderVars, trace>>
    <3>1. ~trace[c].reserved
      BY <2>2, <2>6
    <3> QED
      BY <2>3, <2>4, <2>6, <3>1, QuietStep DEF Finish, Http
  <2> QED
    BY <1>4, <2>5, <2>6 DEF SendFails
<1>5. CASE StreamEnds(c)
  <2>1. PICK k \in Response(trace[c]) : OfferTrace(c, Answered(trace[c], k))
    BY <1>5 DEF StreamEnds
  <2> DEFINE t == Answered(trace[c], k)
  <2>2. t \in Trace
    BY <1>1, AnsweredType
  <2>3. t.day = today /\ t.reserved = trace[c].reserved
    BY <1>1, AnsweredType
  <2>4. http[c] = "streaming" /\ Finish(c) /\ today' = today
    BY <1>5 DEF StreamEnds
  <2>5. /\ mode # "closed" /\ (c \in held <=> trace[c].reserved)
        /\ trace[c].reserved => ReserveInFlight
    BY <2>4, UnderWay
  <2>6. OfferTrace(c, t)
    BY <2>1
  <2> HIDE DEF t
  <2> QED
    BY <2>2, <2>3, <2>4, <2>5, <2>6, OfferStep DEF Final
<1>6. CASE MirrorEnds(c)
  <2>1. PICK k \in Bill \cup {0, Unknown}, failed \in BOOLEAN :
          OfferTrace(c, Mirrored(k, failed))
    BY <1>6 DEF MirrorEnds
  <2> DEFINE t == Mirrored(k, failed)
  <2>2. t \in Trace
    BY <1>1, MirroredType
  <2>3. t.day = today /\ ~t.reserved
    BY DEF Mirrored
  <2>4. http[c] = "idle" /\ mode # "closed" /\ Finish(c) /\ today' = today
    BY <1>6 DEF MirrorEnds
  <2>5. c \notin held
    BY <2>4, IdleCall
  <2>6. OfferTrace(c, t)
    BY <2>1
  <2> HIDE DEF t
  <2> QED
    BY <2>2, <2>3, <2>4, <2>5, <2>6, OfferStep DEF Final
<1> QED
  BY <1>2, <1>3, <1>4, <1>5, <1>6

-----------------------------------------------------------------------------
(* The recorder *)

\* The trace of call c moves on without settling ...
LEMMA MoveStep ==
    ASSUME Inv, NEW c \in Call, Unblock(c) \/ Take(c) \/ Commit(c), Unobserved
    PROVE  Others(c) /\ CallInv(c)' /\ QueueInv'
<1>1. /\ stage[c] \in {"blocked", "queued", "saving"}
      /\ stage'[c] \in {"queued", "saving", "written"}
      /\ stage'[c] \in {"queued", "saving"} => rows' = rows
      /\ mode' = mode
  <2>1. CASE Unblock(c) \/ Commit(c)
    BY <2>1 DEF Unblock, Commit, Moves, Inv, TypeOK, RecorderTypeOK
  <2>2. CASE Take(c)
    BY <2>2 DEF Take, Moves, Inv, TypeOK, RecorderTypeOK, QueueInv
  <2> QED
    BY <2>1, <2>2
<1>2. /\ QueueInv'
      /\ \A x \in Call \ {c} : stage'[x] = stage[x] /\ (x \in rows' <=> x \in rows)
  BY QueueStep, RecorderEffect DEF Inv, TypeOK
<1>3. /\ today' = today /\ http' = http /\ trace' = trace /\ held' = held
      /\ estimate' = estimate
  BY DEF Unobserved, budgetVars, reservationVars
<1>4. CallInv(c)
  BY DEF Inv
<1> QED
  BY <1>1, <1>2, <1>3, <1>4 DEF Others, CallInv, Outstanding, InFlight

\* ... or settles, and its reservation with it.
LEMMA SettleStep ==
    ASSUME Inv, NEW c \in Call,
           \/ Report(c) /\ Observed(c)
           \/ /\ GiveUp(c) \/ FailSave(c) \/ CancelSaving(c) \/ DiscardRest(c)
              /\ Lost(c)
    PROVE  Others(c) /\ CallInv(c)' /\ QueueInv'
<1>1. stage[c] \in InFlight /\ stage'[c] \in Settled
  <2>1. CASE DiscardRest(c)
    BY <2>1
       DEF DiscardRest, Moves, Inv, TypeOK, RecorderTypeOK, QueueInv, InFlight,
           Settled
  <2>2. CASE Report(c) \/ GiveUp(c) \/ FailSave(c) \/ CancelSaving(c)
    BY <2>2
       DEF Report, GiveUp, FailSave, CancelSaving, AtWorker, Moves, Inv, TypeOK,
           RecorderTypeOK, InFlight, Settled
  <2> QED
    BY <2>1, <2>2
<1>2. /\ QueueInv'
      /\ \A x \in Call \ {c} : stage'[x] = stage[x] /\ (x \in rows' <=> x \in rows)
      /\ mode' = "closed" => mode = "closed"
  BY QueueStep, RecorderEffect DEF Inv, TypeOK
<1>3. today' = today /\ http' = http /\ trace' = trace
  BY DEF Observed, Lost
<1>4. CallInv(c) /\ trace[c].reserved \in BOOLEAN
  BY DEF Inv, TypeOK, Trace
<1>5. /\ held' = IF trace[c].reserved THEN held \ {c} ELSE held
      /\ estimate' = estimate
  BY <1>4, ObserveEffect, DiscardedEffect DEF Observed, Lost, CallInv
<1>6. http[c] = "done" /\ trace[c].day >= 1 /\ mode # "closed"
  BY <1>1, <1>4 DEF CallInv, InFlight
<1>7. Others(c)
  BY <1>2, <1>3, <1>5 DEF Others
<1>8. ~Outstanding(c)' /\ c \notin held'
  BY <1>1, <1>3, <1>4, <1>5, <1>6 DEF Outstanding, CallInv, InFlight, Settled
<1>9. CallInv(c)'
  <2>1. stage'[c] \notin {"none", "blocked", "queued", "saving"} \cup InFlight
    BY <1>1 DEF Settled, InFlight
  <2>2. http'[c] = "done" /\ mode' # "closed" /\ trace'[c] = trace[c]
    BY <1>2, <1>3, <1>6
  <2> QED
    BY <1>3, <1>4, <1>6, <1>8, <2>1, <2>2 DEF CallInv
<1> QED
  BY <1>2, <1>7, <1>9

-----------------------------------------------------------------------------
(* The process *)

\* Only the lifecycle moves: nothing any call can see, save the date.
LEMMA LifeStep ==
    ASSUME Inv, UNCHANGED <<queue, stage, rows, held, http, trace>>,
           today' \in Day, today' >= today, mode' = "closed" => mode = "closed"
    PROVE  QueueInv' /\ \A c \in Call : CallInv(c)'
<1>1. QueueInv'
  BY DEF Inv, QueueInv
<1>2. ASSUME NEW c \in Call PROVE CallInv(c)'
  <2>1. CallInv(c) /\ trace[c].day \in 0 .. MaxDay /\ today \in Day
    BY DEF Inv, TypeOK, BudgetTypeOK, Trace
  <2>2. trace'[c].day <= today'
    BY <2>1, BudgetAssumption DEF CallInv, Day
  <2>3. Outstanding(c)' <=> Outstanding(c)
    BY DEF Outstanding
  <2> QED
    BY <2>1, <2>2, <2>3 DEF CallInv
<1> QED
  BY <1>1, <1>2

LEMMA ExitStep ==
    ASSUME Inv, Exit
    PROVE  QueueInv' /\ \A c \in Call : CallInv(c)'
<1>1. QueueInv'
  BY DEF Exit, QueueInv
<1>2. ASSUME NEW c \in Call PROVE CallInv(c)'
  <2>1. CallInv(c) /\ trace[c].day \in 0 .. MaxDay /\ today \in Day
    BY DEF Inv, TypeOK, BudgetTypeOK, Trace
  <2>2. /\ http'[c] = IF http[c] = "idle" THEN "idle" ELSE "done"
        /\ stage'[c] = IF stage[c] \in InFlight THEN "lost" ELSE stage[c]
        /\ trace'[c] = IF c \in rows THEN trace[c] ELSE NoTrace
        /\ rows' = rows /\ today' = today /\ held' = {}
    BY DEF Exit, Inv, TypeOK, RecorderTypeOK
  <2>3. stage'[c] \notin InFlight
    BY <2>2 DEF InFlight
  <2>4. ~Outstanding(c)'
    BY <2>2, <2>3 DEF Outstanding
  <2>5. CASE c \in rows
    BY <2>1, <2>2, <2>3, <2>4, <2>5 DEF CallInv, InFlight
  <2>6. CASE c \notin rows
    <3>1. trace'[c] = NoTrace /\ NoTrace.day = 0 /\ ~NoTrace.reserved
      BY <2>2, <2>6 DEF NoTrace
    <3>2. today' \in Nat
      BY <2>1, <2>2 DEF Day
    <3> QED
      BY <2>1, <2>2, <2>3, <2>4, <2>6, <3>1, <3>2 DEF CallInv
  <2> QED
    BY <2>5, <2>6
<1> QED
  BY <1>1, <1>2

LEMMA ShutdownStep ==
    ASSUME Inv, Shutdown
    PROVE  QueueInv' /\ \A c \in Call : CallInv(c)'
<1>1. CASE (BeginClose \/ CancelIdle) /\ Unobserved
  <2>1. /\ UNCHANGED <<queue, stage, rows, held, http, trace, today>>
        /\ mode' # "closed"
    BY <1>1 DEF BeginClose, CancelIdle, Unobserved, budgetVars, reservationVars
  <2>2. today' \in Day /\ today' >= today
    BY <2>1, BudgetAssumption DEF Inv, TypeOK, BudgetTypeOK, Day
  <2> QED
    BY <2>1, <2>2, LifeStep
<1>2. ASSUME NEW c \in Call, CancelSaving(c) \/ DiscardRest(c), Lost(c)
      PROVE  QueueInv' /\ \A x \in Call : CallInv(x)'
  BY <1>2, SettleStep, OthersKeep DEF Inv
<1> QED
  BY <1>1, <1>2 DEF Shutdown

LEMMA InvInit == Init => Inv
<1> SUFFICES ASSUME Init PROVE Inv
  OBVIOUS
<1>1. QueueInv
  BY DEF Init, RecorderInit, QueueInv
<1>2. ASSUME NEW c \in Call PROVE CallInv(c)
  <2>1. http[c] = "idle" /\ stage[c] = "none" /\ rows = {} /\ held = {}
    BY DEF Init, RecorderInit
  <2>2. trace[c] = NoTrace /\ mode = "running" /\ today = 1
    BY DEF Init, RecorderInit
  <2>3. NoTrace.day = 0 /\ ~NoTrace.reserved
    BY DEF NoTrace
  <2> QED
    BY <2>1, <2>2, <2>3 DEF CallInv, InFlight
<1> QED
  BY <1>1, <1>2, InitType DEF Inv

LEMMA InvNext == Inv /\ [Next]_vars => Inv'
<1> SUFFICES ASSUME Inv, [Next]_vars PROVE Inv'
  OBVIOUS
<1>1. TypeOK'
  BY NextType DEF Inv
<1> SUFFICES QueueInv' /\ \A x \in Call : CallInv(x)'
  BY <1>1 DEF Inv
<1>2. ASSUME NEW c \in Call, Arrive(c)
      PROVE  QueueInv' /\ \A x \in Call : CallInv(x)'
  BY <1>2, ArriveStep, OthersKeep DEF Inv
<1>3. ASSUME NEW c \in Call,
             \/ TurnAway(c) \/ SendOK(c) \/ SendFails(c) \/ StreamEnds(c)
             \/ MirrorEnds(c)
      PROVE  QueueInv' /\ \A x \in Call : CallInv(x)'
  BY <1>3, CallStep, OthersKeep DEF Inv
<1>4. ASSUME NEW c \in Call, Wake(c) \/ Work(c)
      PROVE  QueueInv' /\ \A x \in Call : CallInv(x)'
  BY <1>4, MoveStep, SettleStep, OthersKeep DEF Inv, Wake, Work
<1>5. CASE Shutdown
  BY <1>5, ShutdownStep
<1>6. CASE Exit
  BY <1>6, ExitStep
<1>7. CASE ReadSeed \/ Start
  <2>1. /\ UNCHANGED <<queue, stage, rows, held, http, trace, today>>
        /\ mode' = "closed" => mode = "closed"
    BY <1>7 DEF ReadSeed, Start, budgetVars, reservationVars, recorderVars
  <2>2. today' \in Day /\ today' >= today
    BY <2>1, BudgetAssumption DEF Inv, TypeOK, BudgetTypeOK, Day
  <2> QED
    BY <2>1, <2>2, LifeStep
<1>8. CASE Midnight
  <2>1. UNCHANGED <<queue, stage, rows, held, http, trace, mode>>
    BY <1>8 DEF Midnight, budgetVars, reservationVars, recorderVars
  <2>2. today' \in Day /\ today' >= today
    BY <1>8, BudgetAssumption DEF Midnight, Inv, TypeOK, BudgetTypeOK, Day
  <2> QED
    BY <2>1, <2>2, LifeStep
<1>9. CASE UNCHANGED vars
  <2>1. UNCHANGED <<queue, stage, rows, held, http, trace, mode, today>>
    BY <1>9 DEF vars, budgetVars, reservationVars, recorderVars
  <2>2. today' \in Day /\ today' >= today
    BY <2>1, BudgetAssumption DEF Inv, TypeOK, BudgetTypeOK, Day
  <2> QED
    BY <2>1, <2>2, LifeStep
<1> QED
  BY <1>2, <1>3, <1>4, <1>5, <1>6, <1>7, <1>8, <1>9 DEF Next

\* The strengthened invariant holds throughout.
THEOREM GatewayInv == Spec => []Inv
BY InvInit, InvNext, PTL DEF Spec

LEMMA InvHeld == Inv => HeldWhileOutstanding
BY DEF Inv, CallInv, HeldWhileOutstanding, TypeOK, BudgetTypeOK

\* A reservation is held exactly while the call it was taken for is
\* outstanding: every path through the handler, the recorder and a shutdown
\* settles it once, at the end.
THEOREM ReservationHeld == Spec => []HeldWhileOutstanding
BY GatewayInv, InvHeld, PTL

-----------------------------------------------------------------------------
(* Counters and ceilings *)

\* One more call in a sum adds at most its amount.
LEMMA CallSumGrows ==
    ASSUME NEW S \in SUBSET Call, NEW S2 \in SUBSET Call, NEW c \in Call,
           NEW f \in [Call -> Nat], NEW g \in [Call -> Nat],
           S2 \subseteq S \cup {c}, \A x \in S2 \ {c} : g[x] = f[x]
    PROVE  SumOver(S2, g) <= SumOver(S, f) + g[c]
<1> DEFINE R == S2 \ {c}
<1>1. R \in SUBSET Call /\ R \subseteq S /\ \A x \in R : g[x] <= f[x]
  OBVIOUS
<1>2. c \in S2 => SumOver(S2, g) = SumOver(R, g) + g[c]
  BY CallSumRemove
<1>3. c \notin S2 => R = S2
  OBVIOUS
<1> HIDE DEF R
<1>4. SumOver(R, g) <= SumOver(S, f)
  BY <1>1, CallSumMonotonic
<1>5. /\ SumOver(S, f) \in Nat /\ SumOver(S2, g) \in Nat /\ SumOver(R, g) \in Nat
      /\ g[c] \in Nat
  BY <1>1, CallSum
<1> QED
  BY <1>2, <1>3, <1>4, <1>5

\* A sum in two parts, each within a sum of its own.
LEMMA SumWithin ==
    ASSUME NEW S \in SUBSET Call, NEW A \in SUBSET Call, NEW B \in SUBSET Call,
           NEW f \in [Call -> Nat], NEW a \in [Call -> Nat],
           NEW b \in [Call -> Nat],
           \A x \in S : \/ x \in A /\ f[x] <= a[x]
                        \/ x \in B /\ f[x] <= b[x]
    PROVE  SumOver(S, f) <= SumOver(A, a) + SumOver(B, b)
<1> DEFINE P == {x \in S : x \in A /\ f[x] <= a[x]}
           Q == S \ P
<1>1. P \in SUBSET Call /\ Q \in SUBSET Call /\ P \cap Q = {} /\ S = P \cup Q
  OBVIOUS
<1>2. P \subseteq A /\ \A x \in P : f[x] <= a[x]
  OBVIOUS
<1>3. Q \subseteq B /\ \A x \in Q : f[x] <= b[x]
  OBVIOUS
<1> HIDE DEF P, Q
<1>4. SumOver(P \cup Q, f) = SumOver(P, f) + SumOver(Q, f)
  BY <1>1, CallSumDisjoint
<1>5. SumOver(P, f) <= SumOver(A, a)
  BY <1>1, <1>2, CallSumMonotonic
<1>6. SumOver(Q, f) <= SumOver(B, b)
  BY <1>1, <1>3, CallSumMonotonic
<1>7. /\ SumOver(P, f) \in Nat /\ SumOver(Q, f) \in Nat
      /\ SumOver(A, a) \in Nat /\ SumOver(B, b) \in Nat
  BY <1>1, CallSum
<1> QED
  BY <1>1, <1>4, <1>5, <1>6, <1>7

-----------------------------------------------------------------------------
(* The snapshot covers the rows *)

\* What a starting process has read is what the store holds.
SeedInv ==
    boot.day # 0 =>
        /\ mode = "closed"
        /\ boot.day <= today
        /\ \A c \in rows : trace[c].day <= boot.day
        /\ boot.total = SumOver(RowsOf(boot.day), Cost)
        /\ \A u \in UseCase : boot.byUseCase[u] =
              SumOver({c \in RowsOf(boot.day) : UseCaseOf(c) = u}, Cost)
        /\ \A s \in Session : boot.bySession[s] =
              SumOver({c \in rows : SessionOf(c) = s}, Cost)

CoverInv == Inv /\ SnapshotCoversRows /\ SeedInv

\* The counters do not fall in a step of call c, and if the step reports c
\* they grow by its cost.
Counts(c) ==
    /\ TotalNow' >= TotalNow
    /\ \A u \in UseCase : UseCaseNow(u)' >= UseCaseNow(u)
    /\ \A s \in Session : bySession'[s] >= bySession[s]
    /\ \/ c \in Reported' => c \in Reported /\ trace'[c] = trace[c]
       \/ /\ TotalNow' >= TotalNow + OfToday(trace'[c])
          /\ UseCaseNow(UseCaseOf(c))'
                >= UseCaseNow(UseCaseOf(c)) + OfToday(trace'[c])
          /\ SessionOf(c) # None =>
                bySession'[SessionOf(c)]
                    >= bySession[SessionOf(c)] + Known(trace'[c].cost)

LEMMA CountsCover ==
    ASSUME Inv, TypeOK', SnapshotCoversRows, NEW c \in Call, Others(c), Counts(c),
           mode \in {"running", "draining"}
    PROVE  SnapshotCoversRows'
<1>1. Cost \in [Call -> Nat] /\ Cost' \in [Call -> Nat]
  BY CostType, KnownType DEF Inv, Cost, TypeOK
<1>2. Reported \in SUBSET Call /\ Reported' \in SUBSET Call
  BY DEF Reported, Inv, TypeOK, RecorderTypeOK
<1>3. \A x \in Reported' \ {c} : x \in Reported /\ trace'[x] = trace[x]
  BY <1>2 DEF Others, Reported, AtWorker
<1>4. \A x \in Reported' \ {c} : Cost'[x] = Cost[x]
  BY <1>2, <1>3 DEF Cost, Known
<1>5. today' = today /\ today \in Nat
  BY DEF Others, Inv, TypeOK, BudgetTypeOK, Day
<1>6. /\ TotalNow \in Nat /\ TotalNow' \in Nat
      /\ \A u \in UseCase : UseCaseNow(u) \in Nat /\ UseCaseNow(u)' \in Nat
      /\ \A s \in Session : bySession[s] \in Nat /\ bySession'[s] \in Nat
  BY DEF Inv, TypeOK, BudgetTypeOK, TotalNow, UseCaseNow
<1>7. /\ Cost'[c] = Known(trace'[c].cost)
      /\ trace'[c].day = today => OfToday(trace'[c]) = Cost'[c]
      /\ trace'[c] = trace[c] => Cost'[c] = Cost[c]
  BY DEF Cost, OfToday, Known
<1>8. TotalNow' >= SumOver({x \in Reported : trace[x].day = today}, Cost)'
  <2> DEFINE S == {x \in Reported : trace[x].day = today}
             S2 == {x \in Reported' : trace'[x].day = today}
  <2>1. TotalNow >= SumOver(S, Cost)
    BY DEF SnapshotCoversRows
  <2>2. S \in SUBSET Call /\ S2 \in SUBSET Call
    BY <1>2
  <2>3. S2 \subseteq S \cup {c} /\ \A x \in S2 \ {c} : Cost'[x] = Cost[x]
    BY <1>2, <1>3, <1>4
  <2>4. \/ c \in S2 => c \in S /\ Cost'[c] = Cost[c]
        \/ TotalNow' >= TotalNow + Cost'[c]
    BY <1>5, <1>7 DEF Counts
  <2>5. TotalNow' >= TotalNow
    BY DEF Counts
  <2> HIDE DEF S, S2
  <2>6. SumOver(S2, Cost') <= SumOver(S, Cost) + Cost'[c]
    BY <1>1, <2>2, <2>3, CallSumGrows
  <2>7. (c \in S2 => c \in S /\ Cost'[c] = Cost[c])
           => SumOver(S2, Cost') <= SumOver(S, Cost)
    BY <1>1, <2>2, <2>3, CallSumMonotonic
  <2>8. SumOver(S, Cost) \in Nat /\ SumOver(S2, Cost') \in Nat /\ Cost'[c] \in Nat
    BY <1>1, <2>2, CallSum
  <2>9. TotalNow' >= SumOver(S2, Cost')
    BY <1>6, <2>1, <2>4, <2>5, <2>6, <2>7, <2>8
  <2> QED
    BY <1>5, <2>9 DEF S2
<1>9. ASSUME NEW u \in UseCase
      PROVE  UseCaseNow(u)' >= SumOver({x \in Reported :
                 trace[x].day = today /\ UseCaseOf(x) = u}, Cost)'
  <2> DEFINE S == {x \in Reported : trace[x].day = today /\ UseCaseOf(x) = u}
             S2 == {x \in Reported' : trace'[x].day = today /\ UseCaseOf(x) = u}
  <2>1. UseCaseNow(u) >= SumOver(S, Cost)
    BY <1>9 DEF SnapshotCoversRows
  <2>2. S \in SUBSET Call /\ S2 \in SUBSET Call
    BY <1>2
  <2>3. S2 \subseteq S \cup {c} /\ \A x \in S2 \ {c} : Cost'[x] = Cost[x]
    BY <1>2, <1>3, <1>4
  <2>4. \/ c \in S2 => c \in S /\ Cost'[c] = Cost[c]
        \/ UseCaseNow(u)' >= UseCaseNow(u) + Cost'[c]
    BY <1>5, <1>7 DEF Counts
  <2>5. UseCaseNow(u)' >= UseCaseNow(u)
    BY DEF Counts
  <2> HIDE DEF S, S2
  <2>6. SumOver(S2, Cost') <= SumOver(S, Cost) + Cost'[c]
    BY <1>1, <2>2, <2>3, CallSumGrows
  <2>7. (c \in S2 => c \in S /\ Cost'[c] = Cost[c])
           => SumOver(S2, Cost') <= SumOver(S, Cost)
    BY <1>1, <2>2, <2>3, CallSumMonotonic
  <2>8. SumOver(S, Cost) \in Nat /\ SumOver(S2, Cost') \in Nat /\ Cost'[c] \in Nat
    BY <1>1, <2>2, CallSum
  <2>9. UseCaseNow(u)' >= SumOver(S2, Cost')
    BY <1>6, <2>1, <2>4, <2>5, <2>6, <2>7, <2>8
  <2> QED
    BY <1>5, <2>9 DEF S2, UseCaseOf
<1>10. ASSUME SessionLimit # NoLimit, NEW s \in Session
       PROVE  bySession'[s]
                >= SumOver({x \in Reported : SessionOf(x) = s}, Cost)'
  <2> DEFINE S == {x \in Reported : SessionOf(x) = s}
             S2 == {x \in Reported' : SessionOf(x) = s}
  <2>1. bySession[s] >= SumOver(S, Cost)
    BY <1>10 DEF SnapshotCoversRows
  <2>2. S \in SUBSET Call /\ S2 \in SUBSET Call
    BY <1>2
  <2>3. S2 \subseteq S \cup {c} /\ \A x \in S2 \ {c} : Cost'[x] = Cost[x]
    BY <1>2, <1>3, <1>4
  <2>4. \/ c \in S2 => c \in S /\ Cost'[c] = Cost[c]
        \/ bySession'[s] >= bySession[s] + Cost'[c]
    BY <1>7, BudgetAssumption DEF Counts
  <2>5. bySession'[s] >= bySession[s]
    BY DEF Counts
  <2> HIDE DEF S, S2
  <2>6. SumOver(S2, Cost') <= SumOver(S, Cost) + Cost'[c]
    BY <1>1, <2>2, <2>3, CallSumGrows
  <2>7. (c \in S2 => c \in S /\ Cost'[c] = Cost[c])
           => SumOver(S2, Cost') <= SumOver(S, Cost)
    BY <1>1, <2>2, <2>3, CallSumMonotonic
  <2>8. SumOver(S, Cost) \in Nat /\ SumOver(S2, Cost') \in Nat /\ Cost'[c] \in Nat
    BY <1>1, <2>2, CallSum
  <2>9. bySession'[s] >= SumOver(S2, Cost')
    BY <1>6, <2>1, <2>4, <2>5, <2>6, <2>7, <2>8
  <2> QED
    BY <2>9 DEF S2, SessionOf
<1> QED
  BY <1>8, <1>9, <1>10 DEF SnapshotCoversRows

\* What the operations of the budget do to the counters.
NoLess ==
    /\ TotalNow' >= TotalNow
    /\ \A u \in UseCase : UseCaseNow(u)' >= UseCaseNow(u)
    /\ \A s \in Session : bySession'[s] >= bySession[s]

LEMMA SameCounts ==
    ASSUME BudgetTypeOK, today' = today, bySession' = bySession,
           \/ UNCHANGED <<snapDay, total, byUseCase>>
           \/ Rollover
           \/ \E c \in Call : CheckRollsOver(c)
    PROVE  NoLess
<1>1. UNCHANGED <<snapDay, total, byUseCase>> \/ Rollover
  BY DEF CheckRollsOver
<1>2. TotalNow' = TotalNow /\ \A u \in UseCase : UseCaseNow(u)' = UseCaseNow(u)
  BY <1>1 DEF Rollover, TotalNow, UseCaseNow
<1>3. /\ TotalNow \in Nat /\ \A u \in UseCase : UseCaseNow(u) \in Nat
      /\ \A s \in Session : bySession[s] \in Nat
  BY TotalsType DEF BudgetTypeOK
<1> QED
  BY <1>2, <1>3 DEF NoLess

LEMMA ObserveCounts ==
    ASSUME BudgetTypeOK, today' = today, NEW c \in Call, NEW t \in Trace,
           Observe(c, t)
    PROVE  /\ NoLess
           /\ TotalNow' >= TotalNow + OfToday(t)
           /\ UseCaseNow(UseCaseOf(c))' >= UseCaseNow(UseCaseOf(c)) + OfToday(t)
           /\ SessionOf(c) # None =>
                bySession'[SessionOf(c)] >= bySession[SessionOf(c)] + Known(t.cost)
<1>1. Known(t.cost) \in Nat /\ OfToday(t) \in Nat
  BY KnownType
<1>2. /\ TotalNow \in Nat /\ \A u \in UseCase : UseCaseNow(u) \in Nat
      /\ \A s \in Session : bySession[s] \in Nat
  BY TotalsType DEF BudgetTypeOK
<1>3. TotalNow' = TotalNow + OfToday(t)
  BY DEF Observe, Record, ChargeDay, TotalNow
<1>4. \A u \in UseCase :
         UseCaseNow(u)' = UseCaseNow(u) + IF u = UseCaseOf(c) THEN OfToday(t) ELSE 0
  BY DEF Observe, Record, ChargeDay, UseCaseNow
<1>5. \A s \in Session :
         bySession'[s] = bySession[s] + IF s = SessionOf(c) THEN Known(t.cost) ELSE 0
  BY DEF Observe, Record, ChargeSession
<1>6. UseCaseOf(c) \in UseCase /\ SessionOf(c) \in Session \cup {None}
  BY RequestFacts
<1>7. NoLess
  BY <1>1, <1>2, <1>3, <1>4, <1>5 DEF NoLess
<1> QED
  BY <1>1, <1>2, <1>3, <1>4, <1>5, <1>6, <1>7

LEMMA DiscardedCounts ==
    ASSUME BudgetTypeOK, today' = today, NEW c \in Call, NEW t \in Trace,
           Discarded(c, t)
    PROVE  NoLess
<1>1. CASE Observe(c, t)
  BY <1>1, ObserveCounts
<1>2. CASE UNCHANGED budgetVars
  BY <1>2, SameCounts DEF budgetVars, snapshotVars
<1> QED
  BY <1>1, <1>2 DEF Discarded

\* The handler's steps lower no counter and touch no row.
LEMMA HandlerCounts ==
    ASSUME Inv, NEW c \in Call,
           \/ TurnAway(c) \/ Arrive(c) \/ SendOK(c) \/ SendFails(c)
           \/ StreamEnds(c) \/ MirrorEnds(c)
    PROVE  /\ NoLess /\ c \notin Reported'
           /\ mode' = mode /\ mode # "closed" /\ boot' = boot
<1>1. BudgetTypeOK /\ today \in Day /\ trace[c] \in Trace
  BY DEF Inv, TypeOK, BudgetTypeOK
<1>2. http[c] \in {"idle", "sending", "streaming"} /\ boot' = boot /\ today' = today
  BY DEF TurnAway, Arrive, SendOK, SendFails, StreamEnds, MirrorEnds
<1>3. c \notin rows
  BY <1>2 DEF Inv, CallInv
<1>4. mode # "closed"
  BY UnderWay DEF TurnAway, Arrive, SendOK, SendFails, StreamEnds, MirrorEnds
<1>5. ASSUME NEW t \in Trace, OfferTrace(c, t) \/ OfferSynthetic(c, t)
      PROVE  NoLess /\ rows' = rows /\ mode' = mode
  <2>1. rows' = rows /\ mode' = mode
    BY <1>5 DEF OfferTrace, OfferSynthetic, Accept, Block, Drop
  <2>2. CASE UNCHANGED budgetVars
    BY <1>1, <1>2, <2>1, <2>2, SameCounts DEF budgetVars, snapshotVars
  <2>3. CASE Discarded(c, t)
    BY <1>1, <1>2, <2>1, <2>3, DiscardedCounts
  <2> QED
    BY <1>5, <2>1, <2>2, <2>3 DEF OfferTrace, OfferSynthetic
<1>6. CASE UNCHANGED <<budgetVars, recorderVars>>
  <2>1. NoLess
    BY <1>1, <1>2, <1>6, SameCounts DEF budgetVars, snapshotVars
  <2>2. rows' = rows /\ mode' = mode
    BY <1>6 DEF recorderVars
  <2> QED
    BY <1>2, <1>3, <1>4, <2>1, <2>2 DEF Reported
<1>7. CASE TurnAway(c)
  <2>1. Synthetic(Pending(Request[c].target, TRUE, FALSE)) \in Trace
    BY <1>1, TurnedAwayType, RequestFacts
  <2> QED
    BY <1>2, <1>3, <1>4, <1>5, <1>6, <1>7, <2>1 DEF TurnAway, Reported
<1>8. CASE Arrive(c)
  <2>1. PICK target, served, answer : Act(c, target, served, answer)
    BY <1>8 DEF Arrive
  <2>2. /\ bySession' = bySession /\ rows' = rows /\ mode' = mode
        /\ CheckRollsOver(c) \/ Rollover
    BY <2>1
       DEF Act, Send, Refuse, RefuseAdmitted, RefuseReserved, Accept, Drop,
           recorderVars
  <2>3. NoLess
    BY <1>1, <1>2, <2>2, SameCounts
  <2> QED
    BY <1>2, <1>3, <1>4, <2>2, <2>3 DEF Reported
<1>9. CASE SendOK(c)
  BY <1>6, <1>9 DEF SendOK
<1>10. CASE SendFails(c)
  <2>1. Synthetic(trace[c]) \in Trace
    BY <1>1, SyntheticType
  <2> QED
    BY <1>2, <1>3, <1>4, <1>5, <1>6, <1>10, <2>1 DEF SendFails, Reported
<1>11. CASE StreamEnds(c)
  <2>1. PICK k \in Response(trace[c]) : OfferTrace(c, Answered(trace[c], k))
    BY <1>11 DEF StreamEnds
  <2>2. Answered(trace[c], k) \in Trace
    BY <1>1, AnsweredType
  <2> QED
    BY <1>2, <1>3, <1>4, <1>5, <2>1, <2>2 DEF Reported
<1>12. CASE MirrorEnds(c)
  <2>1. PICK k \in Bill \cup {0, Unknown}, failed \in BOOLEAN :
          OfferTrace(c, Mirrored(k, failed))
    BY <1>12 DEF MirrorEnds
  <2>2. Mirrored(k, failed) \in Trace
    BY <1>1, MirroredType
  <2> QED
    BY <1>2, <1>3, <1>4, <1>5, <2>1, <2>2 DEF Reported
<1> QED
  BY <1>7, <1>8, <1>9, <1>10, <1>11, <1>12

\* A report of the recorder is counted before it is needed.
LEMMA RecorderCounts ==
    ASSUME Inv, NEW c \in Call, Wake(c) \/ Work(c)
    PROVE  /\ Counts(c)
           /\ mode' = mode /\ mode # "closed" /\ boot' = boot
<1>1. BudgetTypeOK /\ trace[c] \in Trace /\ stage \in [Call -> Stage]
  BY DEF Inv, TypeOK, RecorderTypeOK
<1>2. today' = today /\ boot' = boot /\ trace' = trace
  BY DEF Wake, Work, Unobserved, Observed, Lost
<1>3. mode' = mode /\ mode # "closed"
  <2>1. mode' = mode
    BY DEF Wake, Work, Unblock, GiveUp, Take, Commit, Report, FailSave
  <2>2. stage[c] \in InFlight \/ Take(c)
    BY DEF Wake, Work, Unblock, GiveUp, Commit, Report, FailSave, InFlight
  <2> QED
    BY <2>1, <2>2 DEF Inv, CallInv, Take
<1>4. CASE (Unblock(c) \/ Take(c) \/ Commit(c)) /\ Unobserved
  <2>1. NoLess
    BY <1>1, <1>2, <1>4, SameCounts DEF Unobserved, budgetVars, snapshotVars
  <2>2. c \notin Reported'
    <3>1. CASE Unblock(c) \/ Commit(c)
      BY <1>1, <3>1
         DEF Inv, CallInv, Unblock, Commit, Moves, Reported, AtWorker
    <3>2. CASE Take(c)
      <4>1. stage'[c] = "saving"
        BY <1>1, <3>2 DEF Take, Moves
      <4> QED
        BY <4>1 DEF Reported, AtWorker
    <3> QED
      BY <1>4, <3>1, <3>2
  <2> QED
    BY <1>2, <1>3, <2>1, <2>2 DEF Counts, NoLess
<1>5. CASE Report(c) /\ Observed(c)
  <2>1. Observe(c, trace[c])
    BY <1>5 DEF Observed
  <2> QED
    BY <1>1, <1>2, <1>3, <2>1, ObserveCounts DEF Counts, NoLess
<1>6. CASE (GiveUp(c) \/ FailSave(c)) /\ Lost(c)
  <2>1. NoLess
    BY <1>1, <1>2, <1>6, DiscardedCounts DEF Lost
  <2>2. c \notin Reported'
    BY <1>6 DEF GiveUp, FailSave, Inv, CallInv, Reported
  <2> QED
    BY <1>2, <1>3, <2>1, <2>2 DEF Counts, NoLess
<1> QED
  BY <1>4, <1>5, <1>6 DEF Wake, Work

\* While a process runs there is no seed to keep.
LEMMA NoSeedWhileOpen ==
    ASSUME SeedInv, mode # "closed", boot' = boot
    PROVE  SeedInv'
BY DEF SeedInv

LEMMA CallCover ==
    ASSUME CoverInv, TypeOK', NEW c \in Call,
           \/ TurnAway(c) \/ Arrive(c) \/ SendOK(c) \/ SendFails(c)
           \/ StreamEnds(c) \/ MirrorEnds(c) \/ Wake(c) \/ Work(c)
    PROVE  SnapshotCoversRows' /\ SeedInv'
<1>1. Counts(c) /\ mode' = mode /\ mode # "closed" /\ boot' = boot
  BY HandlerCounts, RecorderCounts DEF CoverInv, Counts, NoLess
<1>2. Others(c)
  BY ArriveStep, CallStep, MoveStep, SettleStep DEF CoverInv, Wake, Work
<1>3. CASE mode \in {"running", "draining"}
  BY <1>1, <1>2, <1>3, CountsCover, NoSeedWhileOpen DEF CoverInv
<1>4. CASE mode \notin {"running", "draining"}
  BY <1>1, <1>4, NoSeedWhileOpen DEF CoverInv, SnapshotCoversRows
<1> QED
  BY <1>3, <1>4

\* A step that leaves the books alone.
LEMMA IdleCover ==
    ASSUME CoverInv,
           UNCHANGED <<today, snapshotVars, stage, rows, trace, boot>>,
           \/ mode' = mode
           \/ mode # "closed" /\ (mode' = "draining" => mode = "running")
              /\ mode' # "running"
    PROVE  SnapshotCoversRows' /\ SeedInv'
<1>1. /\ Reported' = Reported /\ Cost' = Cost /\ TotalNow' = TotalNow
      /\ \A u \in UseCase : UseCaseNow(u)' = UseCaseNow(u)
      /\ bySession' = bySession /\ today' = today /\ trace' = trace
  BY DEF Reported, AtWorker, Cost, TotalNow, UseCaseNow, snapshotVars
<1>2. mode' \in {"running", "draining"} => mode \in {"running", "draining"}
  OBVIOUS
<1>3. SnapshotCoversRows'
  BY <1>1, <1>2 DEF CoverInv, SnapshotCoversRows
<1>4. SeedInv'
  BY <1>1 DEF CoverInv, SeedInv, RowsOf
<1> QED
  BY <1>3, <1>4

LEMMA ShutdownCover ==
    ASSUME CoverInv, Shutdown
    PROVE  SnapshotCoversRows' /\ SeedInv'
<1>1. CASE (BeginClose \/ CancelIdle) /\ Unobserved
  BY <1>1, IdleCover
     DEF BeginClose, CancelIdle, Unobserved, budgetVars
<1>2. ASSUME NEW c \in Call, CancelSaving(c) \/ DiscardRest(c), Lost(c)
      PROVE  SnapshotCoversRows' /\ SeedInv'
  <2>1. mode # "closed" /\ mode' = "discarding" /\ boot' = boot
    BY <1>2 DEF CancelSaving, DiscardRest, Lost
  <2> QED
    BY <2>1, NoSeedWhileOpen DEF CoverInv, SnapshotCoversRows
<1> QED
  BY <1>1, <1>2 DEF Shutdown

LEMMA ReadSeedCover ==
    ASSUME CoverInv, ReadSeed
    PROVE  SnapshotCoversRows' /\ SeedInv'
<1>1. /\ mode = "closed" /\ mode' = "closed" /\ today' = today /\ rows' = rows
      /\ trace' = trace
  BY DEF ReadSeed, recorderVars
<1>2. /\ boot'.day = today /\ boot'.total = SumOver(RowsOf(today), Cost)
      /\ \A u \in UseCase : boot'.byUseCase[u]
            = SumOver({c \in RowsOf(today) : UseCaseOf(c) = u}, Cost)
      /\ \A s \in Session : boot'.bySession[s]
            = SumOver({c \in rows : SessionOf(c) = s}, Cost)
  BY DEF ReadSeed
<1>3. today \in Nat /\ rows \in SUBSET Call /\ \A c \in Call : trace[c].day <= today
  BY DEF CoverInv, Inv, CallInv, TypeOK, BudgetTypeOK, RecorderTypeOK, Day
<1>4. Cost' = Cost /\ RowsOf(today)' = RowsOf(today)
  BY <1>1 DEF Cost, RowsOf
<1>5. SeedInv'
  <2>1. today <= today' /\ \A c \in rows' : trace'[c].day <= today
    BY <1>1, <1>3
  <2>2. RowsOf(boot.day)' = RowsOf(today)
    BY <1>1, <1>2 DEF RowsOf
  <2> QED
    BY <1>1, <1>2, <1>4, <2>1, <2>2 DEF SeedInv, UseCaseOf, SessionOf
<1> QED
  BY <1>1, <1>5 DEF SnapshotCoversRows

LEMMA StartCover ==
    ASSUME CoverInv, Start
    PROVE  SnapshotCoversRows' /\ SeedInv'
<1>1. /\ today' = today /\ snapDay' = today /\ total' = boot.total
      /\ byUseCase' = boot.byUseCase /\ rows' = rows /\ stage' = stage
      /\ trace' = trace /\ boot' = NoSeed
      /\ SessionLimit # NoLimit => bySession' = boot.bySession
  BY DEF Start
<1>2. /\ boot.day <= today /\ \A c \in rows : trace[c].day <= boot.day
      /\ boot.total = SumOver(RowsOf(boot.day), Cost)
      /\ \A u \in UseCase : boot.byUseCase[u] =
            SumOver({c \in RowsOf(boot.day) : UseCaseOf(c) = u}, Cost)
      /\ \A s \in Session : boot.bySession[s] =
            SumOver({c \in rows : SessionOf(c) = s}, Cost)
  BY DEF CoverInv, SeedInv, Start
<1>3. /\ rows \in SUBSET Call /\ today \in Nat /\ boot.day \in Nat
      /\ \A c \in Call : trace[c].day \in Nat
      /\ Cost \in [Call -> Nat] /\ \A c \in Call : Cost[c] <= Cost[c]
  BY CostType DEF CoverInv, Inv, TypeOK, BudgetTypeOK, RecorderTypeOK, Day, Seed, Trace
<1>4. Reported' \subseteq rows /\ Cost' = Cost
  BY <1>1 DEF Reported, Cost
<1>5. \A c \in Reported' : trace[c].day = today => c \in RowsOf(boot.day)
  BY <1>2, <1>3, <1>4 DEF RowsOf
<1>6. RowsOf(boot.day) \in SUBSET Call
  BY <1>3 DEF RowsOf
<1>7. TotalNow' >= SumOver({c \in Reported : trace[c].day = today}, Cost)'
  <2> DEFINE S == {c \in Reported' : trace[c].day = today}
  <2>1. S \in SUBSET Call /\ S \subseteq RowsOf(boot.day)
    BY <1>3, <1>4, <1>5
  <2> HIDE DEF S
  <2>2. SumOver(S, Cost) <= SumOver(RowsOf(boot.day), Cost)
    BY <1>3, <1>6, <2>1, CallSumMonotonic
  <2>3. SumOver(S, Cost) \in Nat /\ SumOver(RowsOf(boot.day), Cost) \in Nat
    BY <1>3, <1>6, <2>1, CallSum
  <2>4. TotalNow' = SumOver(RowsOf(boot.day), Cost)
    BY <1>1, <1>2 DEF TotalNow
  <2> QED
    BY <1>1, <1>4, <2>2, <2>3, <2>4 DEF S
<1>8. ASSUME NEW u \in UseCase
      PROVE  UseCaseNow(u)' >= SumOver({c \in Reported :
                 trace[c].day = today /\ UseCaseOf(c) = u}, Cost)'
  <2> DEFINE S == {c \in Reported' : trace[c].day = today /\ UseCaseOf(c) = u}
             T == {c \in RowsOf(boot.day) : UseCaseOf(c) = u}
  <2>1. S \in SUBSET Call /\ T \in SUBSET Call /\ S \subseteq T
    BY <1>3, <1>4, <1>5, <1>6
  <2>2. UseCaseNow(u)' = SumOver(T, Cost)
    BY <1>1, <1>2 DEF UseCaseNow
  <2> HIDE DEF S, T
  <2>3. SumOver(S, Cost) <= SumOver(T, Cost)
    BY <1>3, <2>1, CallSumMonotonic
  <2>4. SumOver(S, Cost) \in Nat /\ SumOver(T, Cost) \in Nat
    BY <1>3, <2>1, CallSum
  <2> QED
    BY <1>1, <1>4, <2>2, <2>3, <2>4 DEF S, UseCaseOf
<1>9. ASSUME SessionLimit # NoLimit, NEW s \in Session
      PROVE  bySession'[s]
                >= SumOver({c \in Reported : SessionOf(c) = s}, Cost)'
  <2> DEFINE S == {c \in Reported' : SessionOf(c) = s}
             T == {c \in rows : SessionOf(c) = s}
  <2>1. S \in SUBSET Call /\ T \in SUBSET Call /\ S \subseteq T
    BY <1>3, <1>4
  <2>2. bySession'[s] = SumOver(T, Cost)
    BY <1>1, <1>2, <1>9
  <2> HIDE DEF S, T
  <2>3. SumOver(S, Cost) <= SumOver(T, Cost)
    BY <1>3, <2>1, CallSumMonotonic
  <2>4. SumOver(S, Cost) \in Nat /\ SumOver(T, Cost) \in Nat
    BY <1>3, <2>1, CallSum
  <2> QED
    BY <1>4, <2>2, <2>3, <2>4 DEF S, SessionOf
<1>10. SeedInv'
  BY <1>1 DEF SeedInv, NoSeed
<1> QED
  BY <1>7, <1>8, <1>9, <1>10 DEF SnapshotCoversRows

LEMMA MidnightCover ==
    ASSUME CoverInv, TypeOK', Midnight
    PROVE  SnapshotCoversRows' /\ SeedInv'
<1>1. /\ today' = today + 1 /\ rows' = rows /\ stage' = stage /\ trace' = trace
      /\ mode' = mode /\ boot' = boot /\ bySession' = bySession
  BY DEF Midnight, budgetVars, snapshotVars, recorderVars
<1>2. Reported' = Reported /\ Cost' = Cost /\ Reported \in SUBSET Call
  BY <1>1 DEF Reported, AtWorker, Cost, CoverInv, Inv, TypeOK, RecorderTypeOK
<1>3. /\ today \in Nat
      /\ \A c \in Call : trace[c].day \in Nat /\ trace[c].day <= today
  BY DEF CoverInv, Inv, CallInv, TypeOK, BudgetTypeOK, Day, Trace
<1>4. \A c \in Reported' : trace'[c].day # today'
  BY <1>1, <1>2, <1>3
<1>5. /\ {c \in Reported : trace[c].day = today}' = {}
      /\ \A u \in UseCase :
            {c \in Reported : trace[c].day = today /\ UseCaseOf(c) = u}' = {}
  BY <1>4
<1>6. TotalNow' \in Nat /\ \A u \in UseCase : UseCaseNow(u)' \in Nat
  BY DEF TypeOK, BudgetTypeOK, TotalNow, UseCaseNow
<1>7. SumOver({}, Cost') = 0
  BY SumEmpty
<1>8. SnapshotCoversRows'
  <2>1. TotalNow' >= SumOver({c \in Reported : trace[c].day = today}, Cost)'
    <3>1. SumOver({c \in Reported : trace[c].day = today}, Cost)' = 0
      BY <1>5, <1>7, Zenon
    <3> QED
      BY <3>1, <1>6
  <2>2. ASSUME NEW u \in UseCase
        PROVE  UseCaseNow(u)' >= SumOver({c \in Reported :
                   trace[c].day = today /\ UseCaseOf(c) = u}, Cost)'
    BY <1>5, <1>6, <1>7
  <2>3. ASSUME mode' \in {"running", "draining"}, SessionLimit # NoLimit,
               NEW s \in Session
        PROVE  bySession'[s]
                  >= SumOver({c \in Reported : SessionOf(c) = s}, Cost)'
    BY <1>1, <1>2, <2>3 DEF CoverInv, SnapshotCoversRows, SessionOf
  <2> QED
    BY <2>1, <2>2, <2>3 DEF SnapshotCoversRows
<1>9. SeedInv'
  <2>1. boot.day # 0 => boot.day <= today + 1
    BY <1>3 DEF CoverInv, SeedInv, Inv, TypeOK, Seed
  <2> QED
    BY <1>1, <1>2, <2>1 DEF CoverInv, SeedInv, RowsOf, UseCaseOf, SessionOf
<1> QED
  BY <1>8, <1>9

LEMMA CoverInit == Init => CoverInv
<1> SUFFICES ASSUME Init PROVE CoverInv
  OBVIOUS
<1>1. Inv
  BY InvInit
<1>2. Reported = {} /\ boot = NoSeed
  BY DEF Init, RecorderInit, Reported
<1>3. SeedInv
  BY <1>2 DEF SeedInv, NoSeed
<1>4. /\ TotalNow \in Nat /\ \A u \in UseCase : UseCaseNow(u) \in Nat
      /\ \A s \in Session : bySession[s] \in Nat
  BY <1>1, TotalsType DEF Inv, TypeOK, BudgetTypeOK
<1>5. SumOver({}, Cost) = 0
  BY SumEmpty
<1>6. /\ {c \in Reported : trace[c].day = today} = {}
      /\ \A u \in UseCase :
            {c \in Reported : trace[c].day = today /\ UseCaseOf(c) = u} = {}
      /\ \A s \in Session : {c \in Reported : SessionOf(c) = s} = {}
  BY <1>2
<1>7. SnapshotCoversRows
  <2>1. TotalNow >= SumOver({c \in Reported : trace[c].day = today}, Cost)
    BY <1>4, <1>5, <1>6
  <2>2. ASSUME NEW u \in UseCase
        PROVE  UseCaseNow(u) >= SumOver({c \in Reported :
                   trace[c].day = today /\ UseCaseOf(c) = u}, Cost)
    BY <1>4, <1>5, <1>6
  <2>3. ASSUME NEW s \in Session
        PROVE  bySession[s]
                  >= SumOver({c \in Reported : SessionOf(c) = s}, Cost)
    BY <1>4, <1>5, <1>6
  <2> QED
    BY <2>1, <2>2, <2>3 DEF SnapshotCoversRows
<1> QED
  BY <1>1, <1>3, <1>7 DEF CoverInv

LEMMA CoverNext == CoverInv /\ [Next]_vars => CoverInv'
<1> SUFFICES ASSUME CoverInv, [Next]_vars PROVE CoverInv'
  OBVIOUS
<1>1. Inv'
  BY InvNext DEF CoverInv
<1>2. TypeOK'
  BY <1>1 DEF Inv
<1> SUFFICES SnapshotCoversRows' /\ SeedInv'
  BY <1>1 DEF CoverInv
<1>3. ASSUME NEW c \in Call,
             \/ TurnAway(c) \/ Arrive(c) \/ SendOK(c) \/ SendFails(c)
             \/ StreamEnds(c) \/ MirrorEnds(c) \/ Wake(c) \/ Work(c)
      PROVE  SnapshotCoversRows' /\ SeedInv'
  BY <1>2, <1>3, CallCover
<1>4. CASE Shutdown
  BY <1>4, ShutdownCover
<1>5. CASE Exit
  <2>1. mode # "closed" /\ mode' = "closed" /\ boot' = boot
    BY <1>5 DEF Exit
  <2> QED
    BY <2>1, NoSeedWhileOpen DEF CoverInv, SnapshotCoversRows
<1>6. CASE ReadSeed
  BY <1>6, ReadSeedCover
<1>7. CASE Start
  BY <1>7, StartCover
<1>8. CASE Midnight
  BY <1>2, <1>8, MidnightCover
<1>9. CASE UNCHANGED vars
  BY <1>9, IdleCover DEF vars, budgetVars, recorderVars
<1> QED
  BY <1>3, <1>4, <1>5, <1>6, <1>7, <1>8, <1>9 DEF Next

\* The gate never works from less than the store shows, across reports,
\* discards, midnights and restarts, for every policy and every set of calls.
THEOREM SnapshotCovers == Spec => []SnapshotCoversRows
<1>1. CoverInv => SnapshotCoversRows
  BY DEF CoverInv
<1> QED
  BY <1>1, CoverInit, CoverNext, PTL DEF Spec

-----------------------------------------------------------------------------
(* Sessions of unknown cost *)

\* What a starting process has read names every session the rows mark.
SeedNamesUnknown ==
    boot.day # 0 =>
        \A c \in rows : MarksUnknown(c, trace[c]) => SessionOf(c) \in boot.unknownSessions

UnknownInv == CoverInv /\ UnknownStaysRefused /\ SeedNamesUnknown

\* No session is forgiven in a step of call c, and if the step reports c the
\* session of c is marked where its trace does.
Marks(c) ==
    /\ unknownSessions \subseteq unknownSessions'
    /\ \/ c \in Reported' => c \in Reported /\ trace'[c] = trace[c]
       \/ MarksUnknown(c, trace'[c]) => SessionOf(c) \in unknownSessions'

LEMMA ObserveMarks ==
    ASSUME NEW c \in Call, NEW t, Observe(c, t)
    PROVE  /\ unknownSessions \subseteq unknownSessions'
           /\ MarksUnknown(c, t) => SessionOf(c) \in unknownSessions'
BY DEF Observe, Record, ChargeSession

LEMMA DiscardedMarks ==
    ASSUME NEW c \in Call, NEW t, Discarded(c, t)
    PROVE  unknownSessions \subseteq unknownSessions'
BY ObserveMarks DEF Discarded, budgetVars, snapshotVars

LEMMA HandlerMarks ==
    ASSUME Inv, NEW c \in Call,
           \/ TurnAway(c) \/ Arrive(c) \/ SendOK(c) \/ SendFails(c)
           \/ StreamEnds(c) \/ MirrorEnds(c)
    PROVE  Marks(c)
<1>1. c \notin Reported'
  BY HandlerCounts
<1>2. ASSUME NEW t, OfferTrace(c, t) \/ OfferSynthetic(c, t)
      PROVE  unknownSessions \subseteq unknownSessions'
  BY <1>2, DiscardedMarks DEF OfferTrace, OfferSynthetic, budgetVars, snapshotVars
<1>3. CASE Arrive(c)
  <2>1. PICK target, served, answer : Act(c, target, served, answer)
    BY <1>3 DEF Arrive
  <2>2. unknownSessions' = unknownSessions
    BY <2>1 DEF Act, Send, Refuse, RefuseAdmitted, RefuseReserved
  <2> QED
    BY <1>1, <2>2 DEF Marks
<1>4. CASE TurnAway(c) \/ SendOK(c) \/ SendFails(c) \/ StreamEnds(c) \/ MirrorEnds(c)
  <2>1. \/ \E t : OfferTrace(c, t) \/ OfferSynthetic(c, t)
        \/ UNCHANGED budgetVars
    BY <1>4 DEF TurnAway, SendOK, SendFails, StreamEnds, MirrorEnds
  <2>2. unknownSessions \subseteq unknownSessions'
    BY <1>2, <2>1 DEF budgetVars, snapshotVars
  <2> QED
    BY <1>1, <2>2 DEF Marks
<1> QED
  BY <1>3, <1>4

LEMMA RecorderMarks ==
    ASSUME Inv, NEW c \in Call, Wake(c) \/ Work(c)
    PROVE  Marks(c)
<1>1. stage \in [Call -> Stage] /\ trace' = trace
  BY DEF Inv, TypeOK, RecorderTypeOK, Wake, Work, Unobserved, Observed, Lost
<1>2. CASE (Unblock(c) \/ Take(c) \/ Commit(c)) /\ Unobserved
  <2>1. c \notin Reported'
    <3>1. CASE Unblock(c) \/ Commit(c)
      BY <1>1, <3>1 DEF Inv, CallInv, Unblock, Commit, Moves, Reported, AtWorker
    <3>2. CASE Take(c)
      <4>1. stage'[c] = "saving"
        BY <1>1, <3>2 DEF Take, Moves
      <4> QED
        BY <4>1 DEF Reported, AtWorker
    <3> QED
      BY <1>2, <3>1, <3>2
  <2> QED
    BY <1>2, <2>1 DEF Marks, Unobserved, budgetVars, snapshotVars
<1>3. CASE Report(c) /\ Observed(c)
  BY <1>1, <1>3, ObserveMarks DEF Marks, Observed
<1>4. CASE (GiveUp(c) \/ FailSave(c)) /\ Lost(c)
  <2>1. c \notin Reported'
    BY <1>4 DEF GiveUp, FailSave, Inv, CallInv, Reported
  <2> QED
    BY <1>4, <2>1, DiscardedMarks DEF Marks, Lost
<1> QED
  BY <1>2, <1>3, <1>4 DEF Wake, Work

LEMMA UnknownNext == UnknownInv /\ [Next]_vars => UnknownInv'
<1> SUFFICES ASSUME UnknownInv, [Next]_vars PROVE UnknownInv'
  OBVIOUS
<1>1. CoverInv'
  BY CoverNext DEF UnknownInv
<1>2. Inv /\ TypeOK' /\ SeedInv /\ rows \in SUBSET Call /\ rows' \in SUBSET Call
  BY <1>1 DEF UnknownInv, CoverInv, Inv, TypeOK, RecorderTypeOK
<1> SUFFICES UnknownStaysRefused' /\ SeedNamesUnknown'
  BY <1>1 DEF UnknownInv
<1>3. ASSUME mode # "closed", boot' = boot
      PROVE  SeedNamesUnknown'
  BY <1>2, <1>3 DEF SeedInv, SeedNamesUnknown
<1>4. ASSUME NEW c \in Call,
             \/ TurnAway(c) \/ Arrive(c) \/ SendOK(c) \/ SendFails(c)
             \/ StreamEnds(c) \/ MirrorEnds(c) \/ Wake(c) \/ Work(c)
      PROVE  UnknownStaysRefused' /\ SeedNamesUnknown'
  <2>1. Marks(c) /\ mode' = mode /\ mode # "closed" /\ boot' = boot
    BY <1>2, <1>4, HandlerMarks, RecorderMarks, HandlerCounts, RecorderCounts
  <2>2. Others(c)
    BY <1>2, <1>4, ArriveStep, CallStep, MoveStep, SettleStep DEF Wake, Work
  <2>3. \A x \in Reported' \ {c} : x \in Reported /\ trace'[x] = trace[x]
    BY <1>2, <2>2 DEF Others, Reported, AtWorker
  <2>4. UnknownStaysRefused'
    <3> SUFFICES ASSUME SessionLimit # NoLimit, mode' \in {"running", "draining"},
                        NEW x \in Reported', MarksUnknown(x, trace'[x])
                 PROVE  SessionOf(x) \in unknownSessions'
      BY DEF UnknownStaysRefused, MarksUnknown, SessionOf
    <3>1. CASE x \in Reported /\ trace'[x] = trace[x]
      <4>1. SessionOf(x) \in unknownSessions
        BY <2>1, <3>1 DEF UnknownInv, UnknownStaysRefused
      <4> QED
        BY <2>1, <4>1 DEF Marks
    <3>2. CASE x = c
      BY <2>1, <3>1, <3>2 DEF Marks
    <3> QED
      BY <2>3, <3>1, <3>2
  <2> QED
    BY <1>3, <2>1, <2>4
<1>5. ASSUME mode # "closed", boot' = boot, mode' \notin {"running", "draining"}
      PROVE  UnknownStaysRefused' /\ SeedNamesUnknown'
  BY <1>3, <1>5 DEF UnknownStaysRefused
<1>6. ASSUME UNCHANGED <<stage, rows, trace, unknownSessions, boot>>,
             mode' \in {"running", "draining"} => mode \in {"running", "draining"}
      PROVE  UnknownStaysRefused' /\ SeedNamesUnknown'
  BY <1>6
     DEF UnknownInv, UnknownStaysRefused, SeedNamesUnknown, Reported, AtWorker
<1>7. CASE Shutdown
  <2>1. CASE (BeginClose \/ CancelIdle) /\ Unobserved
    BY <1>6, <2>1 DEF BeginClose, CancelIdle, Unobserved, budgetVars, snapshotVars
  <2>2. ASSUME NEW c \in Call, CancelSaving(c) \/ DiscardRest(c), Lost(c)
        PROVE  UnknownStaysRefused' /\ SeedNamesUnknown'
    BY <1>5, <2>2 DEF CancelSaving, DiscardRest, Lost
  <2> QED
    BY <1>7, <2>1, <2>2 DEF Shutdown
<1>8. CASE Exit
  BY <1>5, <1>8 DEF Exit
<1>9. CASE ReadSeed
  <2>1. /\ mode' = "closed" /\ rows' = rows /\ trace' = trace
        /\ boot'.unknownSessions = {s \in Session : \E c \in rows :
              SessionOf(c) = s /\ MarksUnknown(c, trace[c])}
    BY <1>9 DEF ReadSeed, recorderVars
  <2>2. ASSUME NEW c \in rows, MarksUnknown(c, trace[c])
        PROVE  SessionOf(c) \in boot'.unknownSessions
    <3>1. SessionOf(c) \in Session
      BY <1>2, <2>2, RequestFacts DEF MarksUnknown
    <3> QED
      BY <2>1, <2>2, <3>1
  <2>3. SeedNamesUnknown'
    BY <2>1, <2>2 DEF SeedNamesUnknown, MarksUnknown, SessionOf
  <2> QED
    BY <2>1, <2>3 DEF UnknownStaysRefused
<1>10. CASE Start
  <2>1. /\ rows' = rows /\ trace' = trace /\ boot' = NoSeed /\ boot.day # 0
        /\ SessionLimit # NoLimit => unknownSessions' = boot.unknownSessions
    BY <1>10 DEF Start
  <2>2. UnknownStaysRefused'
    <3> SUFFICES ASSUME SessionLimit # NoLimit, NEW x \in rows,
                        MarksUnknown(x, trace[x])
                 PROVE  SessionOf(x) \in unknownSessions'
      BY <2>1 DEF UnknownStaysRefused, MarksUnknown, SessionOf, Reported
    <3> QED
      BY <2>1 DEF UnknownInv, SeedNamesUnknown
  <2>3. SeedNamesUnknown'
    BY <2>1 DEF SeedNamesUnknown, NoSeed
  <2> QED
    BY <2>2, <2>3
<1>11. CASE Midnight
  BY <1>6, <1>11 DEF Midnight, budgetVars, snapshotVars, recorderVars
<1>12. CASE UNCHANGED vars
  BY <1>6, <1>12 DEF vars, budgetVars, snapshotVars, recorderVars
<1> QED
  BY <1>4, <1>7, <1>8, <1>9, <1>10, <1>11, <1>12 DEF Next

\* A session with a reported call of unknown cost stays refused for ever, by
\* the process that heard of it and by each that is seeded from its rows.
THEOREM UnknownRefused == Spec => []UnknownStaysRefused
<1>1. Init => UnknownInv
  <2> SUFFICES ASSUME Init PROVE UnknownInv
    OBVIOUS
  <2>1. rows = {} /\ boot = NoSeed
    BY DEF Init, RecorderInit
  <2>2. UnknownStaysRefused /\ SeedNamesUnknown
    BY <2>1 DEF UnknownStaysRefused, SeedNamesUnknown, Reported, NoSeed
  <2> QED
    BY <2>2, CoverInit DEF UnknownInv
<1>2. UnknownInv => UnknownStaysRefused
  BY DEF UnknownInv
<1> QED
  BY <1>1, <1>2, UnknownNext, PTL DEF Spec

-----------------------------------------------------------------------------
(* Room for more admissions *)

\* What a reservation stands for does not change while it is held, and the
\* day's total does not fall in a live process.
KeepsCommitment ==
    /\ TotalNow' >= TotalNow
    /\ \A c \in held \cap held' : estimate'[c] = estimate[c]

LEMMA LiveStepKeeps ==
    ASSUME Inv, [Next]_vars, today' = today, mode # "closed", mode' # "closed"
    PROVE  KeepsCommitment
<1>1. BudgetTypeOK /\ TotalNow \in Nat
  BY TotalsType DEF Inv, TypeOK
<1>2. ASSUME UNCHANGED <<snapDay, total, estimate>>
      PROVE  KeepsCommitment
  BY <1>1, <1>2 DEF KeepsCommitment, TotalNow
<1>3. ASSUME NEW c \in Call, Arrive(c)
      PROVE  KeepsCommitment
  <2>1. TotalNow' >= TotalNow
    BY <1>3, HandlerCounts DEF NoLess
  <2>2. Others(c) /\ c \notin held /\ held \in SUBSET Call
    BY <1>1, <1>3, ArriveStep, IdleCall DEF Arrive, BudgetTypeOK
  <2> QED
    BY <2>1, <2>2 DEF KeepsCommitment, Others
<1>4. ASSUME NEW c \in Call, \/ TurnAway(c) \/ SendOK(c) \/ SendFails(c)
                             \/ StreamEnds(c) \/ MirrorEnds(c)
      PROVE  KeepsCommitment
  <2>1. TotalNow' >= TotalNow
    BY <1>4, HandlerCounts DEF NoLess
  <2>2. estimate' = estimate
    BY <1>4
       DEF TurnAway, SendOK, SendFails, StreamEnds, MirrorEnds, OfferTrace,
           OfferSynthetic, Discarded, Observe, budgetVars, reservationVars
  <2> QED
    BY <2>1, <2>2 DEF KeepsCommitment
<1>5. ASSUME NEW c \in Call, Wake(c) \/ Work(c)
      PROVE  KeepsCommitment
  <2>1. TotalNow' >= TotalNow
    BY <1>5, RecorderCounts DEF Counts
  <2>2. estimate' = estimate
    BY <1>5
       DEF Wake, Work, Unobserved, Observed, Lost, Discarded, Observe, budgetVars,
           reservationVars
  <2> QED
    BY <2>1, <2>2 DEF KeepsCommitment
<1>6. CASE Shutdown
  <2>1. CASE Unobserved
    BY <1>2, <2>1 DEF Unobserved, budgetVars, snapshotVars, reservationVars
  <2>2. ASSUME NEW c \in Call, Lost(c)
        PROVE  KeepsCommitment
    <3>1. trace[c] \in Trace
      BY DEF Inv, TypeOK
    <3>2. TotalNow' >= TotalNow
      BY <1>1, <2>2, <3>1, DiscardedCounts DEF Lost, NoLess
    <3>3. estimate' = estimate
      BY <2>2 DEF Lost, Discarded, Observe, budgetVars, reservationVars
    <3> QED
      BY <3>2, <3>3 DEF KeepsCommitment
  <2> QED
    BY <1>6, <2>1, <2>2 DEF Shutdown
<1>7. CASE Exit \/ ReadSeed \/ Start
  BY <1>7 DEF Exit, ReadSeed, Start
<1>8. CASE Midnight
  BY <1>1, <1>8 DEF Midnight, BudgetTypeOK, Day
<1>9. CASE UNCHANGED vars
  BY <1>2, <1>9 DEF vars, budgetVars, snapshotVars, reservationVars
<1> QED
  BY <1>3, <1>4, <1>5, <1>6, <1>7, <1>8, <1>9 DEF Next

LEMMA RoomStep ==
    ASSUME Inv, TypeOK', KeepsCommitment
    PROVE  Committed' + SumOver(held \ held', estimate) >= Committed
<1> DEFINE kept == held \cap held'
           given == held \ held'
<1>1. /\ held \in SUBSET Call /\ held' \in SUBSET Call
      /\ estimate \in [Call -> Nat] /\ estimate' \in [Call -> Nat]
      /\ TotalNow \in Nat /\ TotalNow' \in Nat
  BY TotalsType DEF Inv, TypeOK, BudgetTypeOK, TotalNow
<1>2. /\ kept \in SUBSET Call /\ given \in SUBSET Call
      /\ kept \cap given = {} /\ kept \cup given = held /\ kept \subseteq held'
  BY <1>1
<1>3. \A x \in kept : estimate[x] <= estimate'[x]
  BY <1>1 DEF KeepsCommitment
<1> HIDE DEF kept
<1>4. SumOver(held, estimate) = SumOver(kept, estimate) + SumOver(given, estimate)
  BY <1>1, <1>2, CallSumDisjoint
<1>5. SumOver(kept, estimate) <= SumOver(held', estimate')
  BY <1>1, <1>2, <1>3, CallSumMonotonic
<1>6. /\ SumOver(held, estimate) \in Nat /\ SumOver(kept, estimate) \in Nat
      /\ SumOver(given, estimate) \in Nat /\ SumOver(held', estimate') \in Nat
  BY <1>1, <1>2, CallSum
<1>7. /\ Committed = TotalNow + SumOver(held, estimate)
      /\ Committed' = TotalNow' + SumOver(held', estimate')
      /\ TotalNow' >= TotalNow
  BY DEF Committed, KeepsCommitment
<1> QED
  BY <1>1, <1>4, <1>5, <1>6, <1>7

\* In a live process, within a day, nothing but a settled reservation makes
\* room under the ceiling, and no more than it held.
THEOREM RoomFromSettlement == Spec => RoomOnlyFromSettlement
<1> DEFINE Room == today' = today /\ mode' # "closed" /\ mode # "closed"
                     => Committed' + SumOver(held \ held', estimate) >= Committed
<1>1. Inv /\ [Next]_vars => [Room]_vars
  <2>1. ASSUME Inv, [Next]_vars
        PROVE  Room
    <3>1. TypeOK'
      BY <2>1, NextType DEF Inv
    <3> QED
      BY <2>1, <3>1, LiveStepKeeps, RoomStep
  <2> QED
    BY <2>1
<1> QED
  BY <1>1, GatewayInv, PTL DEF Spec, RoomOnlyFromSettlement

-----------------------------------------------------------------------------
(***************************************************************************)
(* Ceilings.  The rows alone are not inductive: an admission does not look *)
(* at them.  The invariant is about the books, on which every admitted     *)
(* call stands for its reservation until that is settled and for its bill, *)
(* up to the reservation, after that (BooksInv).  The gate admits a call   *)
(* only within the counters plus the reservations, and these are no less   *)
(* than the books, because the counters cover the rows.                    *)
(***************************************************************************)

\* The calls that hold a reservation, or have a row and once held one.
Booked == {c \in Call : trace[c].reserved /\ (c \in rows \/ c \in held)}

\* A call under way will be dated when its trace is made.
DayOf(c) == IF trace[c].day = 0 THEN today ELSE trace[c].day

Charge == [c \in Call |-> IF c \in held THEN estimate[c] ELSE Covered[c]]

Book(G, d) == {c \in Booked : c \in G /\ DayOf(c) = d}

OfUseCase(u) == {c \in Call : UseCaseOf(c) = u}
OfSession(s) == {c \in Call : SessionOf(c) = s}

\* The reservations alone must fit too: at midnight they may all become the
\* new day's.
DailyFits(G, limit) ==
    /\ SumOver(held \cap G, estimate) <= limit
    /\ \A d \in Day : SumOver(Book(G, d), Charge) <= limit

LifeFits(G, limit) == SumOver(Booked \cap G, Charge) <= limit

BooksInv ==
    /\ GlobalLimit # NoLimit => DailyFits(Call, GlobalLimit)
    /\ \A u \in UseCase :
          UseCaseLimit[u] # NoLimit => DailyFits(OfUseCase(u), UseCaseLimit[u])
    /\ SessionLimit # NoLimit =>
          \A s \in Session : LifeFits(OfSession(s), SessionLimit)

AmountsOK ==
    /\ Cost \in [Call -> Nat] /\ Covered \in [Call -> Nat]
    /\ Charge \in [Call -> Nat]
    /\ \A c \in Call : Covered[c] <= estimate[c] /\ Covered[c] <= Cost[c]

LEMMA Amounts == TypeOK => AmountsOK
<1> SUFFICES ASSUME TypeOK PROVE AmountsOK
  OBVIOUS
<1>1. Cost \in [Call -> Nat] /\ estimate \in [Call -> Nat]
  BY CostType DEF TypeOK, BudgetTypeOK
<1>2. Covered \in [Call -> Nat]
  BY <1>1 DEF Covered
<1>3. \A c \in Call : Covered[c] <= estimate[c] /\ Covered[c] <= Cost[c]
  BY <1>1 DEF Covered
<1>4. Charge \in [Call -> Nat]
  BY <1>1, <1>2 DEF Charge
<1> QED
  BY <1>1, <1>2, <1>3, <1>4 DEF AmountsOK

LEMMA AmountsNext == TypeOK' => AmountsOK'
BY Amounts, PTL

LEMMA LimitTypes ==
    /\ GlobalLimit # NoLimit => GlobalLimit \in Nat
    /\ SessionLimit # NoLimit => SessionLimit \in Nat
    /\ \A u \in UseCase : UseCaseLimit[u] # NoLimit => UseCaseLimit[u] \in Nat
BY BudgetAssumption DEF Limit

-----------------------------------------------------------------------------
(* Steps that admit nobody *)

\* Call c is entered on the books by no step but an admission.
KeepsBooks(c) ==
    /\ c \in held' => c \in held /\ estimate'[c] = estimate[c]
    /\ c \in Booked' =>
          /\ c \in Booked /\ DayOf(c)' = DayOf(c) /\ estimate'[c] = estimate[c]
          /\ c \notin held => trace'[c] = trace[c]

LEMMA KeptCharge ==
    ASSUME TypeOK, TypeOK', NEW c \in Call, KeepsBooks(c), c \in Booked'
    PROVE  Charge'[c] <= Charge[c]
<1>1. Covered'[c] <= estimate'[c] /\ Covered'[c] \in Nat /\ estimate'[c] \in Nat
  BY AmountsNext DEF AmountsOK, TypeOK, BudgetTypeOK
<1>2. estimate'[c] = estimate[c]
  BY DEF KeepsBooks
<1>3. CASE c \in held
  BY <1>1, <1>2, <1>3 DEF Charge
<1>4. CASE c \notin held
  <2>1. c \notin held' /\ trace'[c] = trace[c]
    BY <1>4 DEF KeepsBooks
  <2>2. Covered'[c] = Covered[c]
    BY <1>2, <2>1 DEF Covered, Cost
  <2> QED
    BY <1>1, <1>4, <2>1, <2>2 DEF Charge
<1> QED
  BY <1>3, <1>4

LEMMA HeldKept ==
    ASSUME TypeOK, TypeOK', NEW G \in SUBSET Call, \A c \in G : KeepsBooks(c)
    PROVE  SumOver(held \cap G, estimate)' <= SumOver(held \cap G, estimate)
<1>1. /\ held' \cap G \in SUBSET Call /\ held \cap G \in SUBSET Call
      /\ held' \cap G \subseteq held \cap G
  BY DEF KeepsBooks, TypeOK, BudgetTypeOK
<1>2. /\ estimate \in [Call -> Nat] /\ estimate' \in [Call -> Nat]
      /\ \A x \in held' \cap G : estimate'[x] <= estimate[x]
  BY DEF KeepsBooks, TypeOK, BudgetTypeOK
<1> QED
  BY <1>1, <1>2, CallSumMonotonic

LEMMA BookKept ==
    ASSUME TypeOK, TypeOK', NEW G \in SUBSET Call, \A c \in G : KeepsBooks(c)
    PROVE  /\ \A d \in Day : SumOver(Book(G, d), Charge)'
                                <= SumOver(Book(G, d), Charge)
           /\ SumOver(Booked \cap G, Charge)' <= SumOver(Booked \cap G, Charge)
<1>1. Charge \in [Call -> Nat] /\ Charge' \in [Call -> Nat]
  BY Amounts, AmountsNext DEF AmountsOK
<1>2. Booked \in SUBSET Call /\ Booked' \in SUBSET Call
      /\ Booked' \cap G \subseteq Booked \cap G
  BY DEF Booked, KeepsBooks
<1>3. \A x \in Booked' \cap G : Charge'[x] <= Charge[x]
  BY KeptCharge
<1>4. ASSUME NEW d \in Day
      PROVE  SumOver(Book(G, d)', Charge') <= SumOver(Book(G, d), Charge)
  <2>1. /\ Book(G, d)' \in SUBSET Call /\ Book(G, d) \in SUBSET Call
        /\ Book(G, d)' \subseteq Book(G, d)
    BY <1>2 DEF Book, KeepsBooks
  <2>2. \A x \in Book(G, d)' : Charge'[x] <= Charge[x]
    BY <1>3 DEF Book
  <2> QED
    BY <1>1, <2>1, <2>2, CallSumMonotonic
<1>5. SumOver(Booked' \cap G, Charge') <= SumOver(Booked \cap G, Charge)
  <2>1. /\ Booked' \cap G \in SUBSET Call /\ Booked \cap G \in SUBSET Call
        /\ Booked' \cap G \subseteq Booked \cap G
        /\ \A x \in Booked' \cap G : Charge'[x] <= Charge[x]
    BY <1>2, <1>3
  <2> QED
    BY <1>1, <2>1, CallSumMonotonic
<1> QED
  BY <1>4, <1>5

LEMMA KeptFits ==
    ASSUME TypeOK, TypeOK', NEW G \in SUBSET Call, \A c \in G : KeepsBooks(c),
           NEW limit \in Nat
    PROVE  /\ DailyFits(G, limit) => DailyFits(G, limit)'
           /\ LifeFits(G, limit) => LifeFits(G, limit)'
<1>1. AmountsOK /\ AmountsOK' /\ estimate \in [Call -> Nat]
      /\ estimate' \in [Call -> Nat]
  BY Amounts, AmountsNext DEF TypeOK, BudgetTypeOK
<1>2. /\ held \cap G \in SUBSET Call /\ held' \cap G \in SUBSET Call
      /\ Booked \cap G \in SUBSET Call /\ Booked' \cap G \in SUBSET Call
  OBVIOUS
<1>3. /\ SumOver(held \cap G, estimate) \in Nat
      /\ SumOver(held' \cap G, estimate') \in Nat
      /\ SumOver(Booked \cap G, Charge) \in Nat
      /\ SumOver(Booked' \cap G, Charge') \in Nat
  BY <1>1, <1>2, CallSum DEF AmountsOK
<1>4. \A d \in Day : /\ Book(G, d) \in SUBSET Call /\ Book(G, d)' \in SUBSET Call
  BY DEF Book, Booked
<1>5. \A d \in Day : /\ SumOver(Book(G, d), Charge) \in Nat
                     /\ SumOver(Book(G, d)', Charge') \in Nat
  BY <1>1, <1>4, CallSum DEF AmountsOK
<1>6. SumOver(held' \cap G, estimate') <= SumOver(held \cap G, estimate)
  BY HeldKept
<1>7. /\ \A d \in Day : SumOver(Book(G, d)', Charge')
                           <= SumOver(Book(G, d), Charge)
      /\ SumOver(Booked' \cap G, Charge') <= SumOver(Booked \cap G, Charge)
  BY BookKept
<1>8. DailyFits(G, limit) => DailyFits(G, limit)'
  BY <1>3, <1>5, <1>6, <1>7 DEF DailyFits
<1>9. LifeFits(G, limit) => LifeFits(G, limit)'
  BY <1>3, <1>7 DEF LifeFits
<1> QED
  BY <1>8, <1>9

\* The groups of calls that have a ceiling of their own.
LEMMA Groups ==
    /\ Call \in SUBSET Call
    /\ \A u \in UseCase : OfUseCase(u) \in SUBSET Call
    /\ \A s \in Session : OfSession(s) \in SUBSET Call
BY DEF OfUseCase, OfSession

LEMMA KeptBooks ==
    ASSUME TypeOK, TypeOK', BooksInv, \A c \in Call : KeepsBooks(c)
    PROVE  BooksInv'
BY KeptFits, Groups, LimitTypes DEF BooksInv

\* In a step of call c only c can be entered.
LEMMA OthersKeepBooks ==
    ASSUME Inv, NEW c \in Call, Others(c)
    PROVE  \A x \in Call \ {c} : KeepsBooks(x)
BY DEF Others, KeepsBooks, Booked, DayOf

\* The end of a handler: the trace takes the reservation over.
LEMMA OfferBooks ==
    ASSUME Inv, NEW c \in Call, NEW t \in Trace, http[c] # "done", today' = today,
           OfferTrace(c, t) \/ OfferSynthetic(c, t), t.day = today,
           t.reserved => trace[c].reserved
    PROVE  KeepsBooks(c)
<1>1. /\ c \notin rows /\ trace[c].day = 0
      /\ trace[c].reserved => ReserveInFlight
      /\ c \in held => trace[c].reserved
  BY DEF Inv, CallInv
<1>2. rows' = rows /\ trace'[c] = t
  BY DEF OfferTrace, OfferSynthetic, Accept, Block, Drop, Leaves, Inv, TypeOK
<1>3. estimate' = estimate /\ held' \subseteq held
  <2>1. CASE UNCHANGED budgetVars
    BY <2>1 DEF budgetVars, reservationVars
  <2>2. CASE Discarded(c, t)
    <3>1. t.reserved \in BOOLEAN /\ (t.reserved => ReserveInFlight)
      BY <1>1 DEF Trace
    <3> QED
      BY <2>2, <3>1, DiscardedEffect
  <2> QED
    BY <2>1, <2>2 DEF OfferTrace, OfferSynthetic
<1>4. today \in Nat /\ today # 0
  BY DEF Inv, TypeOK, BudgetTypeOK, Day
<1> QED
  BY <1>1, <1>2, <1>3, <1>4 DEF KeepsBooks, Booked, DayOf

\* The steps of a call's handler after its arrival ...
LEMMA HandlerBooks ==
    ASSUME Inv, NEW c \in Call,
           \/ TurnAway(c) \/ SendOK(c) \/ SendFails(c) \/ StreamEnds(c)
           \/ MirrorEnds(c)
    PROVE  KeepsBooks(c)
<1>1. today \in Day /\ trace[c] \in Trace
  BY DEF Inv, TypeOK, BudgetTypeOK
<1>2. http[c] # "done" /\ today' = today
  BY DEF TurnAway, SendOK, SendFails, StreamEnds, MirrorEnds
<1>3. CASE UNCHANGED <<budgetVars, recorderVars, trace>>
  BY <1>2, <1>3 DEF KeepsBooks, Booked, DayOf, budgetVars, reservationVars,
                    recorderVars
<1>4. CASE TurnAway(c)
  <2> DEFINE t == Synthetic(Pending(Request[c].target, TRUE, FALSE))
  <2>1. t \in Trace /\ t.day = today /\ ~t.reserved
    BY <1>1, TurnedAwayType, RequestFacts
  <2>2. OfferSynthetic(c, t) \/ UNCHANGED <<budgetVars, recorderVars, trace>>
    BY <1>4 DEF TurnAway
  <2> HIDE DEF t
  <2> QED
    BY <1>2, <1>3, <2>1, <2>2, OfferBooks
<1>5. CASE SendFails(c)
  <2> DEFINE t == Synthetic(trace[c])
  <2>1. t \in Trace
    BY <1>1, SyntheticType
  <2>2. t.day = today /\ t.reserved = trace[c].reserved
    BY <1>1, SyntheticType
  <2>3. OfferSynthetic(c, t) \/ UNCHANGED <<budgetVars, recorderVars, trace>>
    BY <1>5 DEF SendFails
  <2> HIDE DEF t
  <2> QED
    BY <1>2, <1>3, <2>1, <2>2, <2>3, OfferBooks
<1>6. CASE StreamEnds(c)
  <2>1. PICK k \in Response(trace[c]) : OfferTrace(c, Answered(trace[c], k))
    BY <1>6 DEF StreamEnds
  <2> DEFINE t == Answered(trace[c], k)
  <2>2. t \in Trace
    BY <1>1, AnsweredType
  <2>3. t.day = today /\ t.reserved = trace[c].reserved
    BY <1>1, AnsweredType
  <2>4. OfferTrace(c, t)
    BY <2>1
  <2> HIDE DEF t
  <2> QED
    BY <1>2, <2>2, <2>3, <2>4, OfferBooks
<1>7. CASE MirrorEnds(c)
  <2>1. PICK k \in Bill \cup {0, Unknown}, failed \in BOOLEAN :
          OfferTrace(c, Mirrored(k, failed))
    BY <1>7 DEF MirrorEnds
  <2> DEFINE t == Mirrored(k, failed)
  <2>2. t \in Trace
    BY <1>1, MirroredType
  <2>3. t.day = today /\ ~t.reserved
    BY DEF Mirrored
  <2>4. OfferTrace(c, t)
    BY <2>1
  <2> HIDE DEF t
  <2> QED
    BY <1>2, <2>2, <2>3, <2>4, OfferBooks
<1>8. CASE SendOK(c)
  BY <1>3, <1>8 DEF SendOK
<1> QED
  BY <1>4, <1>5, <1>6, <1>7, <1>8

\* ... those of the recorder ...
LEMMA RecorderBooks ==
    ASSUME Inv, NEW c \in Call,
           \/ Wake(c) \/ Work(c)
           \/ (CancelSaving(c) \/ DiscardRest(c)) /\ Lost(c)
    PROVE  KeepsBooks(c)
<1>1. today' = today /\ trace' = trace
  BY DEF Wake, Work, Unobserved, Observed, Lost
<1>2. /\ CallInv(c) /\ trace[c].reserved \in BOOLEAN
      /\ trace[c].reserved => ReserveInFlight
  BY DEF Inv, CallInv, TypeOK, Trace
<1>3. estimate' = estimate /\ held' \subseteq held
  BY <1>2, ObserveEffect, DiscardedEffect
     DEF Wake, Work, Unobserved, Observed, Lost, budgetVars, reservationVars
<1>4. c \in rows' => c \in rows \/ stage[c] \in {"saving", "written"}
  BY DEF Wake, Work, Unblock, GiveUp, Take, Commit, Report, FailSave,
         CancelSaving, DiscardRest, AtWorker
<1>5. stage[c] \in {"saving", "written"} /\ trace[c].reserved => c \in held
  BY <1>2 DEF CallInv, Outstanding, InFlight
<1> QED
  BY <1>1, <1>3, <1>4, <1>5 DEF KeepsBooks, Booked, DayOf

\* ... and an arrival that takes no reservation.
LEMMA TurnedAwayBooks ==
    ASSUME Inv, NEW c \in Call, http[c] = "idle", held' = held, rows' = rows
    PROVE  KeepsBooks(c)
BY IdleCall DEF KeepsBooks, Booked

-----------------------------------------------------------------------------
(* An admission *)

\* Call c takes a reservation.
Enters(c) ==
    /\ c \notin Booked /\ c \notin held
    /\ held' = held \cup {c} /\ rows' = rows
    /\ today' = today /\ DayOf(c)' = today
    /\ \A x \in Call \ {c} : trace'[x] = trace[x] /\ estimate'[x] = estimate[x]

\* What the gate answered "reserve" to.
LEMMA ReserveFits ==
    ASSUME TypeOK, NEW c \in Call, NEW target \in Target, NEW fb \in BOOLEAN,
           Check(c, target, fb) = "reserve"
    PROVE  LET need == target.price.estimate IN
           /\ GlobalLimit # NoLimit => Committed + need <= GlobalLimit
           /\ UseCaseLimit[UseCaseOf(c)] # NoLimit =>
                 UseCaseCommitted(UseCaseOf(c)) + need <= UseCaseLimit[UseCaseOf(c)]
           /\ SessionLimit # NoLimit =>
                 /\ SessionOf(c) # None
                 /\ SessionCommitted(SessionOf(c)) + need <= SessionLimit
<1> DEFINE need == target.price.estimate
           u == UseCaseOf(c)
           s == SessionOf(c)
<1>1. need \in Nat
  BY ReserveHasEstimate
<1>2. /\ ~Exceeds(Committed + need, GlobalLimit)
      /\ ~Exceeds(UseCaseCommitted(u) + need, UseCaseLimit[u])
      /\ SessionLimit # NoLimit =>
            s # None /\ ~Exceeds(SessionCommitted(s) + need, SessionLimit)
  BY DEF Check
<1>3. /\ held \in SUBSET Call /\ estimate \in [Call -> Nat]
      /\ \A x \in UseCase : UseCaseNow(x) \in Nat
      /\ \A x \in Session : bySession[x] \in Nat
      /\ TotalNow \in Nat
  BY TotalsType DEF TypeOK, BudgetTypeOK
<1>4. /\ SumOver(held, estimate) \in Nat
      /\ \A x \in UseCase : ReservedFor(x) \in Nat
      /\ \A x \in Session : ReservedIn(x) \in Nat
  BY <1>3, CallSum DEF ReservedFor, ReservedIn
<1>5. /\ u \in UseCase /\ (s # None => s \in Session)
  BY RequestFacts
<1>6. /\ Committed + need \in Nat
      /\ UseCaseCommitted(u) + need \in Nat
      /\ s # None => SessionCommitted(s) + need \in Nat
  BY <1>1, <1>3, <1>4, <1>5 DEF Committed, UseCaseCommitted, SessionCommitted
<1> HIDE DEF need, u, s
<1>7. /\ GlobalLimit # NoLimit => Committed + need <= GlobalLimit
      /\ UseCaseLimit[u] # NoLimit => UseCaseCommitted(u) + need <= UseCaseLimit[u]
      /\ SessionLimit # NoLimit =>
            s # None /\ SessionCommitted(s) + need <= SessionLimit
  BY <1>2, <1>5, <1>6, LimitTypes DEF Exceeds
<1> QED
  BY <1>7 DEF need, u, s

\* A settled call on the books has a reported row.
LEMMA SettledReported ==
    ASSUME Inv, NEW x \in Booked, x \notin held
    PROVE  /\ x \in Reported /\ Charge[x] = Covered[x]
           /\ DayOf(x) = trace[x].day
<1>1. x \in Call /\ x \in rows /\ trace[x].reserved /\ CallInv(x)
  BY DEF Booked, Inv
<1>2. stage[x] \notin InFlight
  BY <1>1 DEF CallInv, Outstanding
<1>3. trace[x].day \in Nat /\ trace[x].day # 0
  BY <1>1 DEF CallInv, Inv, TypeOK, Trace
<1> QED
  BY <1>1, <1>2, <1>3 DEF Reported, AtWorker, InFlight, Charge, DayOf

LEMMA HeldGrows ==
    ASSUME TypeOK, TypeOK', NEW c \in Call, Enters(c), NEW G \in SUBSET Call
    PROVE  SumOver(held' \cap G, estimate')
              <= SumOver(held \cap G, estimate) + estimate'[c]
<1>1. /\ held \cap G \in SUBSET Call /\ held' \cap G \in SUBSET Call
      /\ held' \cap G \subseteq (held \cap G) \cup {c}
      /\ \A x \in (held' \cap G) \ {c} : estimate'[x] = estimate[x]
  BY DEF Enters
<1>2. estimate \in [Call -> Nat] /\ estimate' \in [Call -> Nat]
  BY DEF TypeOK, BudgetTypeOK
<1> QED
  BY <1>1, <1>2, CallSumGrows

\* The others stay as they are on the books.
LEMMA EntersAlone ==
    ASSUME NEW c \in Call, Enters(c)
    PROVE  /\ Booked' \subseteq Booked \cup {c}
           /\ \A x \in Booked' \ {c} :
                 DayOf(x)' = DayOf(x) /\ Charge'[x] = Charge[x]
           /\ Charge'[c] = estimate'[c]
BY DEF Enters, Booked, DayOf, Charge, Covered, Cost

LEMMA EnterDaily ==
    ASSUME Inv, TypeOK', NEW c \in Call, Enters(c), NEW G \in SUBSET Call,
           c \in G, NEW limit \in Nat, NEW counted \in Nat,
           SumOver({x \in Reported : trace[x].day = today /\ x \in G}, Cost)
              <= counted,
           counted + SumOver(held \cap G, estimate) + estimate'[c] <= limit,
           DailyFits(G, limit)
    PROVE  DailyFits(G, limit)'
<1> DEFINE R == {x \in Reported : trace[x].day = today /\ x \in G}
           H == held \cap G
           need == estimate'[c]
<1>1. /\ TypeOK /\ AmountsOK /\ AmountsOK' /\ estimate \in [Call -> Nat]
      /\ estimate' \in [Call -> Nat] /\ need \in Nat /\ today \in Day
  BY Amounts, AmountsNext DEF Inv, TypeOK, BudgetTypeOK
<1>2. R \in SUBSET Call /\ H \in SUBSET Call
  BY DEF Reported, Inv, TypeOK, RecorderTypeOK
<1>3. \A d \in Day : Book(G, d) \in SUBSET Call /\ Book(G, d)' \in SUBSET Call
  BY DEF Book, Booked
<1>4. \A x \in Book(G, today) : \/ x \in R /\ Charge[x] <= Cost[x]
                                \/ x \in H /\ Charge[x] <= estimate[x]
  <2> TAKE x \in Book(G, today)
  <2>1. x \in Booked /\ x \in G /\ DayOf(x) = today /\ x \in Call
    BY DEF Book, Booked
  <2>2. CASE x \in held
    BY <1>1, <2>1, <2>2 DEF Charge
  <2>3. CASE x \notin held
    BY <1>1, <2>1, <2>3, SettledReported DEF AmountsOK
  <2> QED
    BY <2>2, <2>3
<1> HIDE DEF R, H, need
<1>5. SumOver(Book(G, today), Charge) <= SumOver(R, Cost) + SumOver(H, estimate)
  BY <1>1, <1>2, <1>3, <1>4, SumWithin DEF AmountsOK
<1>6. /\ SumOver(R, Cost) \in Nat /\ SumOver(H, estimate) \in Nat
      /\ \A d \in Day : /\ SumOver(Book(G, d), Charge) \in Nat
                        /\ SumOver(Book(G, d)', Charge') \in Nat
  BY <1>1, <1>2, <1>3, CallSum DEF AmountsOK
<1>7. SumOver(R, Cost) <= counted /\ counted + SumOver(H, estimate) + need <= limit
  BY DEF R, H, need
<1>8. SumOver(held \cap G, estimate)' <= limit
  <2>1. SumOver(held' \cap G, estimate') <= SumOver(H, estimate) + need
    BY <1>1, HeldGrows DEF H, need
  <2>2. held' \cap G \in SUBSET Call
    OBVIOUS
  <2>3. SumOver(held' \cap G, estimate') \in Nat
    BY <1>1, <2>2, CallSum
  <2> QED
    BY <1>1, <1>6, <1>7, <2>1, <2>3
<1>9. ASSUME NEW d \in Day
      PROVE  SumOver(Book(G, d)', Charge') <= limit
  <2>1. /\ Book(G, d)' \subseteq Book(G, d) \cup {c}
        /\ \A x \in Book(G, d)' \ {c} : Charge'[x] = Charge[x]
        /\ d # today => c \notin Book(G, d)'
    BY EntersAlone DEF Book, Enters
  <2>2. CASE d = today
    <3>1. SumOver(Book(G, d)', Charge') <= SumOver(Book(G, d), Charge) + Charge'[c]
      BY <1>1, <1>3, <2>1, CallSumGrows DEF AmountsOK
    <3>2. Charge'[c] = need
      BY EntersAlone DEF need
    <3> QED
      BY <1>1, <1>5, <1>6, <1>7, <2>2, <3>1, <3>2
  <2>3. CASE d # today
    <3>1. Book(G, d)' \subseteq Book(G, d)
      BY <2>1, <2>3
    <3>2. \A x \in Book(G, d)' : Charge'[x] <= Charge[x]
      BY <1>1, <1>3, <2>1, <2>3 DEF AmountsOK
    <3>3. SumOver(Book(G, d)', Charge') <= SumOver(Book(G, d), Charge)
      BY <1>1, <1>3, <3>1, <3>2, CallSumMonotonic DEF AmountsOK
    <3>4. SumOver(Book(G, d), Charge) <= limit
      BY DEF DailyFits
    <3> QED
      BY <1>6, <3>3, <3>4
  <2> QED
    BY <2>2, <2>3
<1> QED
  BY <1>8, <1>9 DEF DailyFits

LEMMA EnterLife ==
    ASSUME Inv, TypeOK', NEW c \in Call, Enters(c), NEW G \in SUBSET Call,
           c \in G, NEW limit \in Nat, NEW counted \in Nat,
           SumOver({x \in Reported : x \in G}, Cost) <= counted,
           counted + SumOver(held \cap G, estimate) + estimate'[c] <= limit
    PROVE  LifeFits(G, limit)'
<1> DEFINE R == {x \in Reported : x \in G}
           H == held \cap G
           B == Booked \cap G
           need == estimate'[c]
<1>1. /\ TypeOK /\ AmountsOK /\ AmountsOK' /\ estimate \in [Call -> Nat]
      /\ need \in Nat
  BY Amounts, AmountsNext DEF Inv, TypeOK, BudgetTypeOK
<1>2. R \in SUBSET Call /\ H \in SUBSET Call /\ B \in SUBSET Call
  BY DEF Reported, Inv, TypeOK, RecorderTypeOK
<1>3. \A x \in B : \/ x \in R /\ Charge[x] <= Cost[x]
                   \/ x \in H /\ Charge[x] <= estimate[x]
  <2> TAKE x \in B
  <2>1. x \in Booked /\ x \in G /\ x \in Call
    OBVIOUS
  <2>2. CASE x \in held
    BY <1>1, <2>1, <2>2 DEF Charge
  <2>3. CASE x \notin held
    BY <1>1, <2>1, <2>3, SettledReported DEF AmountsOK
  <2> QED
    BY <2>2, <2>3
<1>4. /\ Booked' \cap G \in SUBSET Call /\ Booked' \cap G \subseteq B \cup {c}
      /\ \A x \in (Booked' \cap G) \ {c} : Charge'[x] = Charge[x]
      /\ Charge'[c] = need
  BY EntersAlone
<1>5. SumOver(R, Cost) <= counted /\ counted + SumOver(H, estimate) + need <= limit
  OBVIOUS
<1> HIDE DEF R, H, B, need
<1>6. SumOver(B, Charge) <= SumOver(R, Cost) + SumOver(H, estimate)
  BY <1>1, <1>2, <1>3, SumWithin DEF AmountsOK
<1>7. SumOver(Booked' \cap G, Charge') <= SumOver(B, Charge) + Charge'[c]
  BY <1>1, <1>2, <1>4, CallSumGrows DEF AmountsOK
<1>8. /\ SumOver(R, Cost) \in Nat /\ SumOver(H, estimate) \in Nat
      /\ SumOver(B, Charge) \in Nat /\ SumOver(Booked' \cap G, Charge') \in Nat
  BY <1>1, <1>2, <1>4, CallSum DEF AmountsOK
<1>9. SumOver(Booked' \cap G, Charge') <= limit
  BY <1>1, <1>4, <1>5, <1>6, <1>7, <1>8
<1> QED
  BY <1>9 DEF LifeFits

LEMMA EnterBooks ==
    ASSUME CoverInv, TypeOK', BooksInv, mode = "running", NEW c \in Call,
           Others(c), Enters(c), NEW target \in Target, NEW fb \in BOOLEAN,
           Check(c, target, fb) = "reserve",
           estimate'[c] = target.price.estimate
    PROVE  BooksInv'
<1> DEFINE u == UseCaseOf(c)
           s == SessionOf(c)
           need == estimate'[c]
<1>1. TypeOK /\ Inv /\ \A x \in Call \ {c} : KeepsBooks(x)
  BY OthersKeepBooks DEF CoverInv, Inv
<1>2. /\ GlobalLimit # NoLimit => Committed + need <= GlobalLimit
      /\ UseCaseLimit[u] # NoLimit => UseCaseCommitted(u) + need <= UseCaseLimit[u]
      /\ SessionLimit # NoLimit =>
            s # None /\ SessionCommitted(s) + need <= SessionLimit
  BY <1>1, ReserveFits
<1>3. /\ TotalNow \in Nat /\ \A x \in UseCase : UseCaseNow(x) \in Nat
      /\ \A x \in Session : bySession[x] \in Nat
  BY <1>1, TotalsType DEF TypeOK, BudgetTypeOK
<1>4. /\ TotalNow >= SumOver({x \in Reported : trace[x].day = today}, Cost)
      /\ \A v \in UseCase : UseCaseNow(v) >=
            SumOver({x \in Reported : trace[x].day = today /\ UseCaseOf(x) = v}, Cost)
      /\ SessionLimit # NoLimit => \A v \in Session : bySession[v] >=
            SumOver({x \in Reported : SessionOf(x) = v}, Cost)
  BY DEF CoverInv, SnapshotCoversRows
<1>5. Reported \in SUBSET Call /\ held \in SUBSET Call
  BY <1>1 DEF Reported, TypeOK, RecorderTypeOK, BudgetTypeOK
<1>6. /\ u \in UseCase /\ (s # None => s \in Session)
      /\ c \in OfUseCase(u) /\ c \in OfSession(s)
  BY RequestFacts DEF OfUseCase, OfSession
<1> HIDE DEF need, u, s
<1>7. ASSUME GlobalLimit # NoLimit PROVE DailyFits(Call, GlobalLimit)'
  <2>1. {x \in Reported : trace[x].day = today /\ x \in Call}
          = {x \in Reported : trace[x].day = today}
    BY <1>5
  <2>2. held \cap Call = held
    BY <1>5
  <2>3. TotalNow + SumOver(held, estimate) + need <= GlobalLimit
    BY <1>2, <1>7 DEF Committed
  <2>4. SumOver({x \in Reported : trace[x].day = today}, Cost) \in Nat
    BY <1>1, <1>5, CostType, CallSum
  <2>5. SumOver({x \in Reported : trace[x].day = today}, Cost) <= TotalNow
    BY <1>3, <1>4, <2>4
  <2> QED
    BY <1>1, <1>3, <1>7, <2>1, <2>2, <2>3, <2>5, EnterDaily, LimitTypes
       DEF BooksInv, need
<1>8. ASSUME NEW v \in UseCase, UseCaseLimit[v] # NoLimit
      PROVE  DailyFits(OfUseCase(v), UseCaseLimit[v])'
  <2>1. CASE v = u
    <3>1. {x \in Reported : trace[x].day = today /\ x \in OfUseCase(v)}
            = {x \in Reported : trace[x].day = today /\ UseCaseOf(x) = v}
      BY <1>5 DEF OfUseCase
    <3>2. held \cap OfUseCase(v)
            = {x \in held : UseCaseOf(x) = v /\ UseCaseLimit[v] # NoLimit}
      BY <1>5, <1>8 DEF OfUseCase
    <3>3. UseCaseNow(v) + SumOver(held \cap OfUseCase(v), estimate) + need
            <= UseCaseLimit[v]
      BY <1>2, <1>8, <2>1, <3>2 DEF UseCaseCommitted, ReservedFor
    <3>4. SumOver({x \in Reported : trace[x].day = today /\ UseCaseOf(x) = v}, Cost)
            \in Nat
      BY <1>1, <1>5, CostType, CallSum
    <3>5. SumOver({x \in Reported : trace[x].day = today /\ UseCaseOf(x) = v}, Cost)
            <= UseCaseNow(v)
      BY <1>3, <1>4, <3>4
    <3>6. OfUseCase(v) \in SUBSET Call /\ c \in OfUseCase(v)
      BY <1>6, <2>1, Groups
    <3> QED
      BY <1>1, <1>3, <1>8, <3>1, <3>3, <3>5, <3>6, EnterDaily, LimitTypes
         DEF BooksInv, need
  <2>2. CASE v # u
    <3>1. c \notin OfUseCase(v)
      BY <2>2 DEF OfUseCase, u
    <3>2. \A x \in OfUseCase(v) : KeepsBooks(x)
      BY <1>1, <3>1, Groups
    <3> QED
      BY <1>1, <1>8, <3>2, KeptFits, Groups, LimitTypes DEF BooksInv
  <2> QED
    BY <2>1, <2>2
<1>9. ASSUME SessionLimit # NoLimit, NEW v \in Session
      PROVE  LifeFits(OfSession(v), SessionLimit)'
  <2>1. CASE v = s
    <3>1. {x \in Reported : x \in OfSession(v)} = {x \in Reported : SessionOf(x) = v}
      BY <1>5 DEF OfSession
    <3>2. held \cap OfSession(v)
            = {x \in held : SessionOf(x) = v /\ SessionLimit # NoLimit}
      BY <1>5, <1>9 DEF OfSession
    <3>3. bySession[v] + SumOver(held \cap OfSession(v), estimate) + need
            <= SessionLimit
      BY <1>2, <1>9, <2>1, <3>2 DEF SessionCommitted, ReservedIn
    <3>4. SumOver({x \in Reported : SessionOf(x) = v}, Cost) \in Nat
      BY <1>1, <1>5, CostType, CallSum
    <3>5. SumOver({x \in Reported : SessionOf(x) = v}, Cost) <= bySession[v]
      BY <1>3, <1>4, <1>9, <3>4
    <3>6. OfSession(v) \in SUBSET Call /\ c \in OfSession(v)
      BY <1>6, <2>1, Groups
    <3> QED
      BY <1>1, <1>3, <1>9, <3>1, <3>3, <3>5, <3>6, EnterLife, LimitTypes DEF need
  <2>2. CASE v # s
    <3>1. c \notin OfSession(v)
      BY <2>2 DEF OfSession, s
    <3>2. \A x \in OfSession(v) : KeepsBooks(x)
      BY <1>1, <3>1, Groups
    <3> QED
      BY <1>1, <1>9, <3>2, KeptFits, Groups, LimitTypes DEF BooksInv
  <2> QED
    BY <2>1, <2>2
<1> QED
  BY <1>7, <1>8, <1>9 DEF BooksInv

LEMMA ActBooks ==
    ASSUME CoverInv, TypeOK', BooksInv, NEW c \in Call, NEW target \in Target,
           NEW served \in BOOLEAN, NEW fb \in BOOLEAN, today' = today,
           http[c] = "idle", mode = "running", Others(c),
           Act(c, target, served, Check(c, target, fb))
    PROVE  BooksInv'
<1>1. /\ Inv /\ TypeOK /\ c \notin held /\ c \notin rows
      /\ trace \in [Call -> Trace] /\ estimate \in [Call -> Nat] /\ today \in Day
      /\ \A x \in Call \ {c} : KeepsBooks(x)
  BY IdleCall, OthersKeepBooks DEF CoverInv, Inv, TypeOK, BudgetTypeOK
<1>2. rows' = rows
  BY DEF Act, Send, Refuse, RefuseAdmitted, RefuseReserved, Accept, Drop,
         recorderVars
<1>3. CASE held' = held
  BY <1>1, <1>2, <1>3, TurnedAwayBooks, KeptBooks DEF BooksInv
<1>4. CASE held' # held
  <2>1. /\ Check(c, target, fb) = "reserve" /\ Reserve(c, target)
        /\ \/ trace' = [trace EXCEPT ![c] = Pending(target, served, TRUE)]
           \/ trace' = [trace EXCEPT ![c] = Synthetic(Pending(target, served, TRUE))]
    BY <1>4 DEF Act, Send, Refuse, RefuseAdmitted, RefuseReserved, Leaves,
                reservationVars
  <2>2. /\ held' = held \cup {c} /\ estimate'[c] = target.price.estimate
        /\ \A x \in Call \ {c} : estimate'[x] = estimate[x]
    BY <1>1, <2>1 DEF Reserve
  <2>3. /\ trace'[c].day \in {0, today}
        /\ \A x \in Call \ {c} : trace'[x] = trace[x]
    <3>1. Pending(target, served, TRUE).day = 0
      BY DEF Pending
    <3>2. Synthetic(Pending(target, served, TRUE)).day = today
      BY <1>1, TurnedAwayType
    <3> QED
      BY <1>1, <2>1, <3>1, <3>2
  <2>4. Enters(c)
    BY <1>1, <1>2, <2>2, <2>3 DEF Enters, Booked, DayOf
  <2> QED
    BY <2>1, <2>2, <2>4, EnterBooks
<1> QED
  BY <1>3, <1>4

LEMMA ArriveBooks ==
    ASSUME CoverInv, TypeOK', BooksInv, NEW c \in Call, Arrive(c)
    PROVE  BooksInv'
<1> DEFINE fallsBack == /\ Check(c, Request[c].target, FALSE) = "fallback_required"
                        /\ c \notin Served
                        /\ Request[c].fallback # None
<1>1. today' = today /\ http[c] = "idle" /\ mode = "running" /\ Others(c)
  BY ArriveStep DEF Arrive, CoverInv
<1>2. CASE fallsBack
  <2>1. Act(c, Request[c].fallback, TRUE, Check(c, Request[c].fallback, TRUE))
    BY <1>2 DEF Arrive
  <2> QED
    BY <1>1, <1>2, <2>1, RequestFacts, ActBooks
<1>3. CASE ~fallsBack
  <2>1. Act(c, Request[c].target, c \in Served, Check(c, Request[c].target, FALSE))
    BY <1>3 DEF Arrive
  <2>2. (c \in Served) \in BOOLEAN /\ Request[c].target \in Target
    BY RequestFacts
  <2> QED
    BY <1>1, <2>1, <2>2, ActBooks
<1> QED
  BY <1>2, <1>3

-----------------------------------------------------------------------------
(* The process *)

\* At midnight the calls under way become the new day's, all of them held.
LEMMA MidnightFits ==
    ASSUME Inv, TypeOK', Midnight, NEW G \in SUBSET Call, NEW limit \in Nat
    PROVE  /\ DailyFits(G, limit) => DailyFits(G, limit)'
           /\ LifeFits(G, limit) => LifeFits(G, limit)'
<1>1. /\ today' = today + 1 /\ UNCHANGED <<rows, held, estimate, trace>>
  BY DEF Midnight, budgetVars, reservationVars, recorderVars
<1>2. Booked' = Booked /\ Covered' = Covered /\ Charge' = Charge
  BY <1>1 DEF Booked, Covered, Cost, Charge
<1>3. LifeFits(G, limit) => LifeFits(G, limit)'
  BY <1>1, <1>2 DEF LifeFits
<1>4. /\ TypeOK /\ AmountsOK /\ estimate \in [Call -> Nat]
      /\ \A x \in Booked : x \notin held => trace[x].day # 0
      /\ \A x \in Call : trace[x].day \in Nat /\ trace[x].day <= today
      /\ today \in Nat
  BY Amounts, SettledReported
     DEF Inv, CallInv, TypeOK, BudgetTypeOK, Trace, Day, Booked
<1>5. ASSUME NEW d \in Day, DailyFits(G, limit)
      PROVE  SumOver(Book(G, d)', Charge') <= limit
  <2>1. /\ Book(G, d) \in SUBSET Call /\ Book(G, d)' \in SUBSET Call
        /\ held \cap G \in SUBSET Call
    BY DEF Book, Booked
  <2>2. /\ SumOver(Book(G, d), Charge) \in Nat
        /\ SumOver(Book(G, d)', Charge) \in Nat
        /\ SumOver(held \cap G, estimate) \in Nat
    BY <1>4, <2>1, CallSum DEF AmountsOK
  <2>3. CASE d # today'
    <3>1. /\ Book(G, d)' \subseteq Book(G, d)
          /\ \A x \in Book(G, d)' : Charge[x] <= Charge[x]
      <4>1. \A x \in Book(G, d)' : x \in Booked /\ x \in G /\ trace[x].day = d
        BY <1>1, <1>2, <2>3 DEF Book, DayOf
      <4>2. \A x \in Book(G, d)' : DayOf(x) = d
        BY <4>1, BudgetAssumption DEF DayOf, Day
      <4>3. \A x \in Book(G, d)' : Charge[x] \in Nat
        BY <1>4, <2>1 DEF AmountsOK
      <4> QED
        BY <4>1, <4>2, <4>3 DEF Book
    <3>2. SumOver(Book(G, d)', Charge) <= SumOver(Book(G, d), Charge)
      BY <1>4, <2>1, <3>1, CallSumMonotonic DEF AmountsOK
    <3> QED
      BY <1>2, <1>5, <2>2, <3>2 DEF DailyFits
  <2>4. CASE d = today'
    <3>1. \A x \in Book(G, d)' : x \in Booked /\ x \in G /\ x \in Call
      BY <1>2, <2>1 DEF Book
    <3>2. \A x \in Book(G, d)' : trace[x].day # today + 1
      BY <1>4, <3>1
    <3>3. \A x \in Book(G, d)' : trace[x].day = 0
      BY <1>1, <2>4, <3>2 DEF Book, DayOf
    <3>4. /\ Book(G, d)' \subseteq held \cap G
          /\ \A x \in Book(G, d)' : Charge[x] <= estimate[x]
      BY <1>4, <3>1, <3>3 DEF Charge
    <3>5. SumOver(Book(G, d)', Charge) <= SumOver(held \cap G, estimate)
      BY <1>4, <2>1, <3>4, CallSumMonotonic DEF AmountsOK
    <3> QED
      BY <1>2, <1>5, <2>2, <3>5 DEF DailyFits
  <2> QED
    BY <2>3, <2>4
<1>6. DailyFits(G, limit) => DailyFits(G, limit)'
  BY <1>1, <1>5 DEF DailyFits
<1> QED
  BY <1>3, <1>6

\* A crash forgets the reservations, but not what the rows stand for.
LEMMA ExitBooks ==
    ASSUME Inv, Exit
    PROVE  \A c \in Call : KeepsBooks(c)
<1> TAKE c \in Call
<1>1. /\ held' = {} /\ rows' = rows /\ today' = today
      /\ c \in rows => trace'[c] = trace[c] /\ estimate'[c] = estimate[c]
  BY DEF Exit
<1> QED
  BY <1>1 DEF KeepsBooks, Booked, DayOf

LEMMA BooksInit == Init => BooksInv
<1> SUFFICES ASSUME Init PROVE BooksInv
  OBVIOUS
<1>1. held = {} /\ Booked = {}
  BY DEF Init, RecorderInit, Booked
<1>2. ASSUME NEW G \in SUBSET Call, NEW limit \in Nat
      PROVE  DailyFits(G, limit) /\ LifeFits(G, limit)
  <2>1. held \cap G = {} /\ Booked \cap G = {} /\ \A d \in Day : Book(G, d) = {}
    BY <1>1 DEF Book
  <2>2. SumOver({}, estimate) = 0 /\ SumOver({}, Charge) = 0
    BY SumEmpty
  <2>3. 0 <= limit
    OBVIOUS
  <2>4. DailyFits(G, limit)
    <3>1. SumOver(held \cap G, estimate) = 0
      BY <2>1, <2>2
    <3>2. \A d \in Day : SumOver(Book(G, d), Charge) = 0
      BY <2>1, <2>2
    <3> QED
      BY <2>3, <3>1, <3>2 DEF DailyFits
  <2>5. LifeFits(G, limit)
    BY <2>1, <2>2, <2>3 DEF LifeFits
  <2> QED
    BY <2>4, <2>5
<1> QED
  BY <1>2, Groups, LimitTypes DEF BooksInv

LEMMA BooksNext == CoverInv /\ BooksInv /\ [Next]_vars => BooksInv'
<1> SUFFICES ASSUME CoverInv, BooksInv, [Next]_vars PROVE BooksInv'
  OBVIOUS
<1>1. Inv /\ TypeOK /\ TypeOK'
  BY InvNext DEF CoverInv, Inv
<1>2. ASSUME NEW c \in Call, Arrive(c) PROVE BooksInv'
  BY <1>1, <1>2, ArriveBooks
<1>3. ASSUME NEW c \in Call,
             \/ TurnAway(c) \/ SendOK(c) \/ SendFails(c) \/ StreamEnds(c)
             \/ MirrorEnds(c)
      PROVE  BooksInv'
  <2>1. KeepsBooks(c) /\ \A x \in Call \ {c} : KeepsBooks(x)
    BY <1>1, <1>3, HandlerBooks, CallStep, OthersKeepBooks
  <2> QED
    BY <1>1, <2>1, KeptBooks
<1>4. ASSUME NEW c \in Call,
             \/ Wake(c) \/ Work(c)
             \/ (CancelSaving(c) \/ DiscardRest(c)) /\ Lost(c)
      PROVE  BooksInv'
  <2>1. Others(c)
    BY <1>1, <1>4, MoveStep, SettleStep DEF Wake, Work
  <2>2. KeepsBooks(c) /\ \A x \in Call \ {c} : KeepsBooks(x)
    BY <1>1, <1>4, <2>1, RecorderBooks, OthersKeepBooks
  <2> QED
    BY <1>1, <2>2, KeptBooks
<1>5. CASE UNCHANGED <<today, held, estimate, rows, trace>>
  <2>1. \A c \in Call : KeepsBooks(c)
    BY <1>5 DEF KeepsBooks, Booked, DayOf
  <2> QED
    BY <1>1, <2>1, KeptBooks
<1>6. CASE Shutdown
  BY <1>4, <1>5, <1>6
     DEF Shutdown, BeginClose, CancelIdle, Unobserved, budgetVars, reservationVars
<1>7. CASE ReadSeed \/ Start \/ UNCHANGED vars
  BY <1>5, <1>7
     DEF ReadSeed, Start, vars, budgetVars, reservationVars, recorderVars
<1>8. CASE Exit
  BY <1>1, <1>8, ExitBooks, KeptBooks
<1>9. CASE Midnight
  BY <1>1, <1>9, MidnightFits, Groups, LimitTypes DEF BooksInv
<1> QED
  BY <1>2, <1>3, <1>4, <1>6, <1>7, <1>8, <1>9 DEF Next

-----------------------------------------------------------------------------
(* The ceilings *)

\* The settlements of a group are on its books.
LEMMA SettledOnBooks ==
    ASSUME Inv, NEW G \in SUBSET Call, NEW S \in SUBSET (Settlements \cap G)
    PROVE  /\ SumOver(S, Covered) <= SumOver(Booked \cap G, Charge)
           /\ \A d \in Day : (\A c \in S : trace[c].day = d) =>
                 SumOver(S, Covered) <= SumOver(Book(G, d), Charge)
<1>1. AmountsOK /\ TypeOK
  BY Amounts DEF Inv
<1>2. S \in SUBSET Call /\ S \subseteq Booked \cap G
  BY <1>1 DEF Settlements, Booked, TypeOK, RecorderTypeOK
<1>3. \A c \in S : Covered[c] <= Charge[c]
  BY <1>1, <1>2 DEF AmountsOK, Charge
<1>4. SumOver(S, Covered) <= SumOver(Booked \cap G, Charge)
  <2>1. Booked \cap G \in SUBSET Call
    OBVIOUS
  <2> QED
    BY <1>1, <1>2, <1>3, <2>1, CallSumMonotonic DEF AmountsOK
<1>5. ASSUME NEW d \in Day, \A c \in S : trace[c].day = d
      PROVE  SumOver(S, Covered) <= SumOver(Book(G, d), Charge)
  <2>1. Book(G, d) \in SUBSET Call
    BY DEF Book, Booked
  <2>2. S \subseteq Book(G, d)
    BY <1>2, <1>5, BudgetAssumption DEF Book, DayOf, Day
  <2> QED
    BY <1>1, <1>2, <1>3, <2>1, <2>2, CallSumMonotonic DEF AmountsOK
<1> QED
  BY <1>4, <1>5

LEMMA DailyCeiling ==
    ASSUME Inv, NEW G \in SUBSET Call, NEW limit \in Nat, DailyFits(G, limit),
           NEW d \in Day, NEW S \in SUBSET (Settlements \cap G),
           \A c \in S : trace[c].day = d
    PROVE  SumOver(S, Covered) <= limit
<1>1. AmountsOK /\ TypeOK
  BY Amounts DEF Inv
<1>2. S \in SUBSET Call /\ Book(G, d) \in SUBSET Call
  BY DEF Book, Booked
<1>3. SumOver(S, Covered) \in Nat /\ SumOver(Book(G, d), Charge) \in Nat
  BY <1>1, <1>2, CallSum DEF AmountsOK
<1>4. SumOver(S, Covered) <= SumOver(Book(G, d), Charge)
  BY SettledOnBooks
<1> QED
  BY <1>3, <1>4 DEF DailyFits

LEMMA LifeCeiling ==
    ASSUME Inv, NEW G \in SUBSET Call, NEW limit \in Nat, LifeFits(G, limit),
           NEW S \in SUBSET (Settlements \cap G)
    PROVE  SumOver(S, Covered) <= limit
<1>1. AmountsOK /\ TypeOK
  BY Amounts DEF Inv
<1>2. S \in SUBSET Call /\ Booked \cap G \in SUBSET Call
  OBVIOUS
<1>3. SumOver(S, Covered) \in Nat /\ SumOver(Booked \cap G, Charge) \in Nat
  BY <1>1, <1>2, CallSum DEF AmountsOK
<1>4. SumOver(S, Covered) <= SumOver(Booked \cap G, Charge)
  BY SettledOnBooks
<1> QED
  BY <1>3, <1>4 DEF LifeFits

LEMMA BooksCeilings ==
    Inv /\ BooksInv
        => SpendWithinCeiling /\ UseCaseWithinCeiling /\ SessionWithinCeiling
<1> SUFFICES ASSUME Inv, BooksInv
             PROVE  SpendWithinCeiling /\ UseCaseWithinCeiling /\ SessionWithinCeiling
  OBVIOUS
<1>1. Settlements \in SUBSET Call
  BY DEF Settlements, Inv, TypeOK, RecorderTypeOK
<1>2. SpendWithinCeiling
  <2> SUFFICES ASSUME GlobalLimit # NoLimit, NEW d \in Day
               PROVE  SumOver({c \in Settlements : trace[c].day = d}, Covered)
                          <= GlobalLimit
    BY DEF SpendWithinCeiling
  <2> DEFINE S == {c \in Settlements : trace[c].day = d}
  <2>1. S \in SUBSET (Settlements \cap Call) /\ \A c \in S : trace[c].day = d
    BY <1>1
  <2> HIDE DEF S
  <2>2. SumOver(S, Covered) <= GlobalLimit
    BY <2>1, DailyCeiling, Groups, LimitTypes DEF BooksInv
  <2> QED
    BY <2>2 DEF S
<1>3. UseCaseWithinCeiling
  <2> SUFFICES ASSUME NEW d \in Day, NEW u \in UseCase, UseCaseLimit[u] # NoLimit
               PROVE  SumOver({c \in Settlements :
                                 trace[c].day = d /\ UseCaseOf(c) = u}, Covered)
                          <= UseCaseLimit[u]
    BY DEF UseCaseWithinCeiling
  <2> DEFINE S == {c \in Settlements : trace[c].day = d /\ UseCaseOf(c) = u}
  <2>1. S \in SUBSET (Settlements \cap OfUseCase(u)) /\ \A c \in S : trace[c].day = d
    BY <1>1 DEF OfUseCase
  <2> HIDE DEF S
  <2>2. SumOver(S, Covered) <= UseCaseLimit[u]
    BY <2>1, DailyCeiling, Groups, LimitTypes DEF BooksInv
  <2> QED
    BY <2>2 DEF S
<1>4. SessionWithinCeiling
  <2> SUFFICES ASSUME SessionLimit # NoLimit, NEW s \in Session
               PROVE  SumOver({c \in Settlements : SessionOf(c) = s}, Covered)
                          <= SessionLimit
    BY DEF SessionWithinCeiling
  <2> DEFINE S == {c \in Settlements : SessionOf(c) = s}
  <2>1. S \in SUBSET (Settlements \cap OfSession(s))
    BY <1>1 DEF OfSession
  <2> HIDE DEF S
  <2>2. SumOver(S, Covered) <= SessionLimit
    BY <2>1, LifeCeiling, Groups, LimitTypes DEF BooksInv
  <2> QED
    BY <2>2 DEF S
<1> QED
  BY <1>2, <1>3, <1>4

\* Counters that cover the rows, and books within the ceilings, are preserved
\* together.
LEMMA BooksAlways == Spec => [](CoverInv /\ BooksInv)
<1>1. Init => CoverInv /\ BooksInv
  BY CoverInit, BooksInit
<1>2. (CoverInv /\ BooksInv) /\ [Next]_vars => (CoverInv /\ BooksInv)'
  BY CoverNext, BooksNext
<1> QED
  BY <1>1, <1>2, PTL DEF Spec

LEMMA CeilingsFollow ==
    CoverInv /\ BooksInv
        => SpendWithinCeiling /\ UseCaseWithinCeiling /\ SessionWithinCeiling
BY BooksCeilings DEF CoverInv

\* Whatever the interleaving of admissions, settlements, midnights and
\* crashes, the spend the reservations stood for stays within the day's
\* global ceiling ...
THEOREM GlobalCeiling == Spec => []SpendWithinCeiling
BY BooksAlways, CeilingsFollow, PTL

\* ... within every use case's ...
THEOREM UseCaseCeiling == Spec => []UseCaseWithinCeiling
BY BooksAlways, CeilingsFollow, PTL

\* ... and within every session's, over all the processes that serve it.
THEOREM SessionCeiling == Spec => []SessionWithinCeiling
BY BooksAlways, CeilingsFollow, PTL

\* All the ceilings hold together, for every set of calls, limits and prices.
THEOREM Ceilings == Spec => []CeilingsHold
<1>1. CoverInv /\ BooksInv => CeilingsHold
  BY CeilingsFollow DEF CeilingsHold
<1> QED
  BY <1>1, BooksAlways, PTL

=============================================================================
