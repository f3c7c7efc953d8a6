------------------------------- MODULE MCDesk -------------------------------
(***************************************************************************)
(* One use case with an experiment that the document declares, one whose   *)
(* provider nobody configured, and a shadow; the document is changed and   *)
(* changed back, committed, or left alone by a commit, and a text of it    *)
(* routes a step it does not declare.                                      *)
(***************************************************************************)
EXTENDS Desk, TLC

AllSteps == <<"w", None>>
OneStep == <<"w", "s">>
MCScope == {AllSteps, OneStep}

MCUseCaseOf == [e \in {"x1", "x2"} |-> "ed"]
MCCandidateOf == ("x1" :> "cheap") @@ ("x2" :> "stray")
MCMirrorsOf == [s \in {"sh"} |-> "ed"]
MCShareOf == [x \in {"x1", "x2", "sh"} |-> IF x = "x1" THEN 99 ELSE 1]
MCNarrowedTo == ("x1" :> OneStep) @@ ("x2" :> None) @@ ("sh" :> OneStep)
MCMirrorOf == [s \in {"sh"} |-> "cheap"]

Text(declared, route, scope) ==
    [experiments |-> declared, routes |-> "ed" :> route,
     workflowRoutes |-> [k \in MCScope |-> IF k = scope THEN "old" ELSE None]]

\* The third revision commits another file.
MCDeclared ==
    [r \in {"r1", "r3"} |-> Text({"x1"}, "cheap", None)]
       @@ ("r2" :> Text({}, None, AllSteps))
       @@ ("r4" :> Text({}, "cheap", OneStep))
MCDeclaredSteps == [r \in {"r1", "r2", "r3"} |-> MCScope] @@ ("r4" :> {AllSteps})
MCParent == ("r1" :> None) @@ ("r2" :> "r1") @@ ("r3" :> "r1") @@ ("r4" :> "r1")

MCApprovals == {[model |-> "cheap", baseline |-> "old"]}
MCArtifacts ==
    {[verdict |-> v, narrowed |-> n, useCase |-> "ed", model |-> "cheap",
      baseline |-> "old"] : v \in {"NON_INFERIOR", "INFERIOR"}, n \in BOOLEAN}

=============================================================================
