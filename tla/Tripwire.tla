------------------------------ MODULE Tripwire ------------------------------
(***************************************************************************)
(* eval/tripwire.py: the verdict of a live experiment from the statuses of *)
(* its tasks.  A record is [arm, status].                                  *)
(*                                                                         *)
(* A failure rate is given in parts of Scale.  The ends of the Wilson      *)
(* interval are rounded outwards to them, and z * z (3.8415 at the 95% of  *)
(* DEFAULT_CONFIDENCE) up to 50/13, so that the interval of the model      *)
(* holds that of the code.                                                 *)
(***************************************************************************)
EXTENDS Integers, FiniteSets

CONSTANTS
    Margin,    \* gross_margin, in percent
    MinTasks,  \* min_tasks_per_arm
    Scale,     \* bound: the parts of a rate that are told apart
    MaxSample  \* bound: the tasks of an experiment

ASSUME TripwireAssumption ==
    /\ Margin \in Nat /\ MinTasks \in Nat \ {0}
    /\ Scale \in Nat \ {0} /\ MaxSample \in Nat

Arms == {"baseline", "candidate"}
TaskStatus == {"success", "failure", "unreported", "open", "contaminated"}
Verdicts == {"NO_DATA", "NOT_EXERCISED", "UNDERPOWERED", "GROSS_REGRESSION",
             "NO_GROSS_REGRESSION", "INCONCLUSIVE"}

-----------------------------------------------------------------------------
(* ArmStats, of the records of an arm: a function from its tasks *)

Count(records, arm, statuses) ==
    Cardinality({t \in DOMAIN records :
                    records[t].arm = arm /\ records[t].status \in statuses})

Failures(records, arm) == Count(records, arm, {"failure"})
Unreported(records, arm) == Count(records, arm, {"unreported"})
Reported(records, arm) == Count(records, arm, {"success", "failure"})

Closed(records, arm) == Reported(records, arm) + Unreported(records, arm)

Total(records, arm) == Closed(records, arm) + Count(records, arm, {"open"})

-----------------------------------------------------------------------------
(* _wilson() and fail_bounds() *)

\* The rate m/Scale is above the Wilson interval of k/n: it is p where
\* (p - k/n)^2 > z^2 * p * (1 - p) / n.  All of it is in 0..1.
Above(k, n, m) ==
    \/ m = Scale
    \/ LET gap == n * m - k * Scale
       IN  gap >= 0 /\ 13 * (gap * gap) > 50 * (n * m * (Scale - m))

Samples == {x \in (0 .. MaxSample) \X (0 .. MaxSample) : x[1] <= x[2]}

\* The upper end for k of n, and the lower one, which is the upper end for the
\* others of the n.
WilsonHigh ==
    [x \in Samples |->
        LET above == {m \in 0 .. Scale : Above(x[1], x[2], m)}
        IN  CHOOSE m \in above : \A j \in above : m <= j]

WilsonLow(k, n) == Scale - WilsonHigh[<<n - k, n>>]

\* Fault: the tasks that did not report have failed in the lower bound too.
LowPessimistic(records, arm) ==
    WilsonLow(Failures(records, arm) + Unreported(records, arm),
              Closed(records, arm))

Low(records, arm) ==
    WilsonLow(Failures(records, arm), Closed(records, arm))

\* Fault: the tasks that did not report are left out.
HighOptimistic(records, arm) ==
    WilsonHigh[<<Failures(records, arm), Closed(records, arm)>>]

High(records, arm) ==
    WilsonHigh[<<Failures(records, arm) + Unreported(records, arm),
                 Closed(records, arm)>>]

\* The rate a is more than the margin above b.
Exceeds(a, b) == 100 * (a - b) > Margin * Scale

-----------------------------------------------------------------------------
(* analyze() *)

\* _no_op_swap(): both arms were served, and by the same models.
NoOpSwap(records, swaps) ==
    /\ ~swaps
    /\ \A arm \in Arms : Total(records, arm) > 0

Powered(records) == \A arm \in Arms : Reported(records, arm) >= MinTasks

Verdict(records, swaps) ==
    IF \A arm \in Arms : Total(records, arm) = 0 THEN "NO_DATA"
    ELSE IF NoOpSwap(records, swaps) \/ Total(records, "candidate") = 0
         THEN "NOT_EXERCISED"
    ELSE IF ~Powered(records) THEN "UNDERPOWERED"
    ELSE IF Exceeds(Low(records, "candidate"), High(records, "baseline"))
         THEN "GROSS_REGRESSION"
    ELSE IF ~Exceeds(High(records, "candidate"), Low(records, "baseline"))
         THEN "NO_GROSS_REGRESSION"
    ELSE "INCONCLUSIVE"

Definitive == {"GROSS_REGRESSION", "NO_GROSS_REGRESSION"}

=============================================================================
