---------------------------- MODULE ControlStore ----------------------------
(***************************************************************************)
(* The control plane's tables (recorder/sqlite/control): experiments,      *)
(* shadows, routes, workflow routes, approved fallbacks and the revision   *)
(* activated from Git.  The CLI and the console write them, each command   *)
(* in one transaction; the gateway reads them (Serving).                   *)
(*                                                                         *)
(* An experiment is immutable but for its status, so its id stands for its *)
(* fields; a model stands for the pair of a model and its provider.        *)
(***************************************************************************)
EXTENDS Integers, FiniteSets

CONSTANTS
    UseCase,     \* use-case keys
    Scope,       \* workflow scopes: <<workflow, step>>, step None for all
    Model, None,
    Experiment,  \* experiment ids
    UseCaseOf,   \* Experiment.use_case_key
    CandidateOf, \* Experiment.candidate_model
    Shadow,      \* shadow experiment ids
    MirrorsOf,   \* ShadowExperiment.use_case_key
    Revision,    \* Git revisions of the routing config
    Approvals,   \* the fallbacks the operators may approve
    Declared     \* what the document of each revision declares

Choice == Model \cup {None}

\* A document: its experiments, at most one to a use case, and its routes.
Document ==
    [experiments : SUBSET Experiment, routes : [UseCase -> Choice],
     workflowRoutes : [Scope -> Choice]]

ASSUME ControlAssumption ==
    /\ None \notin Model \cup Experiment \cup Revision \cup UseCase
    /\ UseCaseOf \in [Experiment -> UseCase]
    /\ CandidateOf \in [Experiment -> Model]
    /\ MirrorsOf \in [Shadow -> UseCase]
    /\ Approvals \subseteq [model : Model, baseline : Model]
    /\ Declared \in [Revision -> Document]
    /\ \A r \in Revision : \A e, f \in Declared[r].experiments :
          UseCaseOf[e] = UseCaseOf[f] => e = f

VARIABLES
    experiments,     \* experiments.status, "absent" without a row
    shadows,         \* shadow_experiments.status
    routes,          \* routes
    workflowRoutes,  \* workflow_routes
    fallbacks,       \* approved_fallbacks
    revision         \* control_config_state.revision

controlVars ==
    <<experiments, shadows, routes, workflowRoutes, fallbacks, revision>>

Lifecycle == {"absent", "running", "stopped"}

\* What an approval binds: the fallback model and the baseline it was
\* evaluated against.
Approval == [model : Model, baseline : Model] \cup {None}

ControlTypeOK ==
    /\ experiments \in [Experiment -> Lifecycle]
    /\ shadows \in [Shadow -> Lifecycle]
    /\ routes \in [UseCase -> Choice]
    /\ workflowRoutes \in [Scope -> Choice]
    /\ fallbacks \in [UseCase -> Approval]
    /\ revision \in Revision \cup {None}

ControlInit ==
    /\ experiments = [e \in Experiment |-> "absent"]
    /\ shadows = [s \in Shadow |-> "absent"]
    /\ routes = [u \in UseCase |-> None]
    /\ workflowRoutes = [k \in Scope |-> None]
    /\ fallbacks = [u \in UseCase |-> None]
    /\ revision = None

-----------------------------------------------------------------------------
Running == {e \in Experiment : experiments[e] = "running"}
Shadowed == {MirrorsOf[s] : s \in {t \in Shadow : shadows[t] = "running"}}

\* create_experiment(): refused by the index of running experiments, or by
\* the trigger that keeps shadows and live experiments apart.
StartExperiment(e) ==
    /\ experiments[e] = "absent"
    /\ \A f \in Running : UseCaseOf[f] # UseCaseOf[e]
    /\ UseCaseOf[e] \notin Shadowed
    /\ experiments' = [experiments EXCEPT ![e] = "running"]
    /\ UNCHANGED <<shadows, routes, workflowRoutes, fallbacks, revision>>

StopExperiment(e) ==
    /\ experiments[e] = "running"
    /\ experiments' = [experiments EXCEPT ![e] = "stopped"]
    /\ UNCHANGED <<shadows, routes, workflowRoutes, fallbacks, revision>>

\* adopt_experiment(): stops it, if it runs, and routes to its candidate.
Adopt(e) ==
    /\ experiments[e] # "absent"
    /\ experiments' = [experiments EXCEPT ![e] = "stopped"]
    /\ routes' = [routes EXCEPT ![UseCaseOf[e]] = CandidateOf[e]]
    /\ UNCHANGED <<shadows, workflowRoutes, fallbacks, revision>>

\* set_route() and clear_route()
SetRoute(u, m) ==
    /\ routes' = [routes EXCEPT ![u] = m]
    /\ UNCHANGED <<experiments, shadows, workflowRoutes, fallbacks, revision>>

\* Fault: the trigger on shadow_experiments is missing.
StartShadowUnchecked(s) ==
    /\ shadows[s] = "absent"
    /\ MirrorsOf[s] \notin Shadowed
    /\ shadows' = [shadows EXCEPT ![s] = "running"]
    /\ UNCHANGED <<experiments, routes, workflowRoutes, fallbacks, revision>>

\* create_shadow_experiment(): the mirror image of StartExperiment.
StartShadow(s) ==
    /\ shadows[s] = "absent"
    /\ MirrorsOf[s] \notin Shadowed
    /\ \A e \in Running : UseCaseOf[e] # MirrorsOf[s]
    /\ shadows' = [shadows EXCEPT ![s] = "running"]
    /\ UNCHANGED <<experiments, routes, workflowRoutes, fallbacks, revision>>

StopShadow(s) ==
    /\ shadows[s] = "running"
    /\ shadows' = [shadows EXCEPT ![s] = "stopped"]
    /\ UNCHANGED <<experiments, routes, workflowRoutes, fallbacks, revision>>

\* set_fallback() and clear_fallback()
SetFallback(u, approval) ==
    /\ fallbacks' = [fallbacks EXCEPT ![u] = approval]
    /\ UNCHANGED <<experiments, shadows, routes, workflowRoutes, revision>>

\* The experiments an activation has to insert, those that do not run yet.
Inserted(document) == document.experiments \ Running

\* activate_control_config() commits unless an insertion fails: an id that was
\* used before, or a running shadow on the use case.
Accepts(document) ==
    \A e \in Inserted(document) :
        experiments[e] = "absent" /\ UseCaseOf[e] \notin Shadowed

\* One transaction: first the experiments the document omits are stopped, then
\* its own are inserted, then the routes are made to match.  The revision is
\* recorded as it is given: nothing here says the document is its own.
Install(document, r) ==
    /\ Accepts(document)
    /\ experiments' = [e \in Experiment |->
          IF e \in document.experiments THEN "running"
          ELSE IF experiments[e] = "running" THEN "stopped"
          ELSE experiments[e]]
    /\ routes' = document.routes
    /\ workflowRoutes' = document.workflowRoutes
    /\ revision' = r
    /\ UNCHANGED <<shadows, fallbacks>>

Activatable(r) == Accepts(Declared[r])
Activate(r) == Install(Declared[r], r)

Command ==
    \/ \E e \in Experiment : StartExperiment(e) \/ StopExperiment(e) \/ Adopt(e)
    \/ \E s \in Shadow : StartShadow(s) \/ StopShadow(s)
    \/ \E u \in UseCase :
          \/ \E m \in Choice : SetRoute(u, m)
          \/ \E approval \in Approvals \cup {None} : SetFallback(u, approval)
    \/ \E r \in Revision : Activate(r)

-----------------------------------------------------------------------------
\* A use case has one owner: at most one live experiment, or one shadow, in
\* whatever order experiments, shadows, adoptions and activations come.
OneOwner ==
    /\ \A e, f \in Running : UseCaseOf[e] = UseCaseOf[f] => e = f
    /\ \A s, t \in Shadow :
          shadows[s] = "running" /\ shadows[t] = "running"
             /\ MirrorsOf[s] = MirrorsOf[t] => s = t
    /\ \A e \in Running : UseCaseOf[e] \notin Shadowed

\* docs/configure.md:430-432, "Manual `route` or `experiment` commands can
\* diverge from the recorded revision; ... a later activation restores the
\* declaration".
DeclarationRestorable == revision # None => Activatable(revision)

=============================================================================
