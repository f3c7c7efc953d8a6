----------------------------- MODULE MCServing -----------------------------
(***************************************************************************)
(* Two use cases: ed, with two experiments to run on it one after the      *)
(* other and a shadow, and qa with one experiment; a workflow with one     *)
(* step; a document that declares the first experiment and two routes.     *)
(***************************************************************************)
EXTENDS Serving, TLC

CONSTANTS ed, qa, wf, st, old, cheap, x1, x2, x3, sh, rev, t1, t2, t3

AllSteps == <<wf, None>>
OneStep == <<wf, st>>
MCScope == {AllSteps, OneStep}

MCUseCaseOf == (x1 :> ed) @@ (x2 :> ed) @@ (x3 :> qa)
MCCandidateOf == [x \in {x1, x2, x3} |-> cheap]
MCScopeOf == (x1 :> None) @@ (x2 :> AllSteps) @@ (x3 :> None)
MCMirrorsOf == sh :> ed

MCDeclared ==
    rev :> [experiments |-> {x1}, routes |-> (ed :> cheap) @@ (qa :> None),
            workflowRoutes |-> (AllSteps :> old) @@ (OneStep :> None)]

MCApprovals == {[model |-> cheap, baseline |-> old]}

\* t1 is a candidate everywhere, t2 of the second experiment alone and t3 of
\* none; the third experiment allows two calls to a task.
MCMaxCalls == (x1 :> 1) @@ (x2 :> 1) @@ (x3 :> 2)
MCIsCandidate ==
    [x \in {x1, x2, x3} |-> (t1 :> TRUE) @@ (t2 :> (x = x2)) @@ (t3 :> FALSE)]

Asks(useCase, identity, task) ==
    [useCase |-> useCase, identity |-> identity, task |-> task, model |-> old]

MCRequest ==
    {Asks(ed, OneStep, t) : t \in {t1, t2, t3}}
       \cup {Asks(ed, None, t1), Asks(qa, OneStep, t1), Asks(ed, None, None)}

=============================================================================
