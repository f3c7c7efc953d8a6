---------------------------- MODULE MCEvaluation ----------------------------
(***************************************************************************)
(* No application or one of five, chosen at the start:                     *)
(*   Sharing   two steps given the same step_run_id, under an experiment   *)
(*             on the step;                                                *)
(*   Telling   a step that reports whatever it may, with an interrupt and  *)
(*             an event that is posted again;                              *)
(*   Nesting   a tool inside a step, with one or the other;                *)
(*   Scoring   a task that reports twice, by success or by score;          *)
(*   Comparing a task of each arm, of which others have reported before:   *)
(*             enough of them for a verdict to turn on the next reports,   *)
(*             at the margin of the code.                                  *)
(***************************************************************************)
EXTENDS Evaluation, TLC

CONSTANTS t1, c1, b1, left, right, step, tool

Of(run, outer) ==
    [task |-> t1, run |-> run, step |-> "plan", attempt |-> 1, outer |-> outer]

MCIdentity ==
    (left :> Of("r1", Nil)) @@ (right :> Of("r1", Nil))
        @@ (step :> Of("r2", Nil)) @@ (tool :> Of("r2", step))

MCArm == [t \in {t1, c1} |-> "candidate"] @@ [t \in {b1} |-> "baseline"]

\* A plan in which nothing happens.
Empty ==
    [tasks |-> {t1}, handles |-> {}, reports |-> {}, successes |-> {},
     maxPosts |-> 0, maxEmits |-> 0, maxInterrupts |-> 0, maxResends |-> 0,
     stepScoped |-> FALSE, threshold |-> FALSE, swaps |-> TRUE,
     strays |-> FALSE, idles |-> FALSE, earlier |-> <<>>]

Sharing ==
    [Empty EXCEPT !.handles = {left, right}, !.successes = {TRUE},
                  !.maxEmits = 2, !.stepScoped = TRUE]

Telling ==
    [Sharing EXCEPT !.handles = {left}, !.successes = Success,
                    !.maxEmits = 3, !.maxInterrupts = 1, !.maxResends = 1]

Nesting(cuts, repeats) ==
    [Empty EXCEPT !.handles = {step, tool}, !.successes = {TRUE},
                  !.maxEmits = 2 + cuts, !.maxInterrupts = cuts,
                  !.maxResends = repeats, !.stepScoped = TRUE]

Scoring(threshold) ==
    [Empty EXCEPT !.reports = Report, !.maxPosts = 2, !.threshold = threshold,
                  !.swaps = FALSE, !.strays = TRUE, !.idles = TRUE]

Comparing(swaps, earlier) ==
    [Empty EXCEPT !.tasks = {c1, b1}, !.reports = {"success", "failure"},
                  !.maxPosts = 1, !.swaps = swaps, !.idles = TRUE,
                  !.earlier = earlier]

Alike(n, arm, status) == [i \in 1 .. n |-> [arm |-> arm, status |-> status]]

\* The gap is gross, unless both tasks go idle without a report ...
NearlyGross ==
    Alike(9, "baseline", "success") \o Alike(7, "candidate", "failure")

\* ... and a success rules one out, where a failure is too few reports to.
NearlyEqual ==
    Alike(4, "candidate", "success") \o Alike(4, "baseline", "failure")
        \o Alike(1, "baseline", "success")

NoTasks == [Empty EXCEPT !.tasks = {}]

MCPlans ==
    {NoTasks, Sharing, Telling, Nesting(1, 0), Nesting(0, 1), Scoring(TRUE),
     Scoring(FALSE), Comparing(TRUE, NearlyGross),
     Comparing(TRUE, NearlyEqual), Comparing(FALSE, <<>>)}

=============================================================================
