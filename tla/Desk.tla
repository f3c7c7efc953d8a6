-------------------------------- MODULE Desk --------------------------------
(***************************************************************************)
(* Those who write the control tables (ControlStore).  The console shows   *)
(* what it last read, asks in a modal screen and writes when the operator  *)
(* confirms; the terminal's commands write at once.  Both activate the     *)
(* routing document kept in Git, which others edit and commit meanwhile:   *)
(* they load it, ask Git whether the file is clean, ask for the revision   *)
(* and hash the file, one after the other.                                 *)
(*                                                                         *)
(* A text of the document stands for the revision that has it.             *)
(***************************************************************************)
EXTENDS ControlStore

CONSTANTS
    Known,        \* the models whose provider is configured
    ShareOf,      \* split_pct of an experiment, sample_pct of a shadow
    NarrowedTo,   \* the workflow scope of an experiment or shadow, or None
    MirrorOf,     \* ShadowExperiment.candidate_model
    Parent,       \* the revision a revision is committed on, None for the first
    DeclaredSteps, \* the workflow scopes the text of a revision declares
    Artifacts,    \* the replay artifacts an approval may be asked for
    MaxWrites, MaxChanges  \* bounds: writes to the tables, edits and commits

ASSUME DeskAssumption ==
    /\ Known \subseteq Model
    /\ ShareOf \in [Experiment \cup Shadow -> Int]
    /\ NarrowedTo \in [Experiment \cup Shadow -> Scope \cup {None}]
    /\ MirrorOf \in [Shadow -> Model]
    /\ Parent \in [Revision -> Revision \cup {None}]
    /\ DeclaredSteps \in [Revision -> SUBSET Scope]
    /\ MaxWrites \in Nat /\ MaxChanges \in Nat

Console == "console"
Terminal == "terminal"

VARIABLES
    file,      \* the text of the document on disk
    head,      \* the revision HEAD names
    shown,     \* Console._experiments and _shadows, as of the last reload
    screen,    \* the console's modal screen
    reading,   \* what each has read of the document and of Git
    deed,      \* the last activation
    writes, changes

deskVars ==
    <<controlVars, file, head, shown, screen, reading, deed, writes, changes>>
gitVars == <<file, head, changes>>

NoScreen == [kind |-> "closed"]

\* A screen that asks before a command is written.  The route a "clear" screen
\* displays is the one stored when it opens.
Asks(kind, about, model) == [kind |-> kind, about |-> about, model |-> model]

\* Of a reading, still tells that nothing changed since it began.
Holds(stage, text, named, still) ==
    [stage |-> stage, text |-> text, revision |-> named, still |-> still]
Unread == Holds("idle", None, None, TRUE)
Reading ==
    [stage : {"idle", "loaded", "clean", "named"}, text : Revision \cup {None},
     revision : Revision \cup {None}, still : BOOLEAN]

\* The preview of a document: ControlRevision, and the text that was loaded.
Preview(read) ==
    [kind |-> "git", text |-> read.text, revision |-> read.revision,
     hash |-> file, still |-> read.still]

DeskTypeOK ==
    /\ ControlTypeOK
    /\ {file, head} \subseteq Revision
    /\ shown \in [experiments : [Experiment -> Lifecycle],
                  shadows : [Shadow -> Lifecycle]]
    /\ reading \in [{Console, Terminal} -> Reading]
    /\ writes \in 0..MaxWrites /\ changes \in 0..MaxChanges

\* A text is named by one of the revisions that have it.
SameText(r, s) ==
    Declared[r] = Declared[s] /\ DeclaredSteps[r] = DeclaredSteps[s]
TextOf(r) == CHOOSE s \in Revision : SameText(r, s)

StoredStatuses == [experiments |-> experiments, shadows |-> shadows]

DeskInit ==
    /\ ControlInit
    /\ \E r \in Revision : Parent[r] = None /\ head = r /\ file = TextOf(r)
    /\ shown = StoredStatuses
    /\ screen = NoScreen
    /\ reading = [d \in {Console, Terminal} |-> Unread]
    /\ deed = None
    /\ writes = 0 /\ changes = 0

-----------------------------------------------------------------------------
\* Experiment and ShadowExperiment refuse what their fields rule out; the
\* forms and the commands, a model whose provider nobody configured.
SoundExperiment(e) == ShareOf[e] \in 1..99
SoundShadow(s) ==
    /\ ShareOf[s] \in 1..100
    /\ NarrowedTo[s] # None => NarrowedTo[s][2] # None

Proposable(e) == CandidateOf[e] \in Known /\ SoundExperiment(e)
Mirrorable(s) == MirrorOf[s] \in Known /\ SoundShadow(s)

\* approved_fallback_from_replay(): only a verdict of non-inferiority on the
\* whole use case becomes an approval.
Approvable(evidence) ==
    evidence.verdict = "NON_INFERIOR" /\ ~evidence.narrowed

\* prepare_adoption() reads the experiment, not what the console shows of it.
Adoptable(e) == experiments[e] # "absent" /\ CandidateOf[e] \in Known

\* load_control_config(): sound experiments, and nothing outside the workflows
\* the text itself declares.
ExperimentsLoad(r) ==
    \A e \in Declared[r].experiments :
        /\ SoundExperiment(e)
        /\ NarrowedTo[e] \in DeclaredSteps[r] \cup {None}
RoutesLoad(r) ==
    \A k \in Scope :
        Declared[r].workflowRoutes[k] # None => k \in DeclaredSteps[r]
Loads(r) == ExperimentsLoad(r) /\ RoutesLoad(r)

\* _validate_control_providers()
Resolvable(r) ==
    /\ \A e \in Declared[r].experiments : CandidateOf[e] \in Known
    /\ \A u \in UseCase : Declared[r].routes[u] \in Known \cup {None}
    /\ \A k \in Scope : Declared[r].workflowRoutes[k] \in Known \cup {None}

-----------------------------------------------------------------------------
\* What the operator focuses and fills in opens a screen, or nothing.
Opens(asks) ==
    /\ screen = NoScreen /\ reading[Console] = Unread
    /\ screen' = asks
    /\ UNCHANGED <<controlVars, gitVars, shown, reading, deed, writes>>

ReviewLive(e) == Proposable(e) /\ Opens(Asks("start", e, None))
StopLive(e) ==
    shown.experiments[e] = "running" /\ Opens(Asks("stop", e, None))
ReviewAdoption(e) ==
    /\ shown.experiments[e] # "absent" /\ Adoptable(e)
    /\ Opens(Asks("adopt", e, None))
ReviewMirror(s) == Mirrorable(s) /\ Opens(Asks("mirror", s, None))
StopMirror(s) ==
    shown.shadows[s] = "running" /\ Opens(Asks("unmirror", s, None))
ReviewRoute(u, m) == m \in Known /\ Opens(Asks("route", u, m))
ReviewClearing(u) == routes[u] # None /\ Opens(Asks("clear", u, routes[u]))

\* A reload may fail, and leave the lists as they were.
Reloads == shown' \in {shown, StoredStatuses'}

Reload ==
    /\ reading[Console] = Unread
    /\ UNCHANGED <<controlVars, gitVars, screen, reading, deed, writes>>
    /\ Reloads

\* Escape, or the Back button: dismiss(False).
Back ==
    /\ screen # NoScreen /\ reading[Console] = Unread
    /\ screen' = NoScreen
    /\ UNCHANGED <<controlVars, gitVars, shown, reading, deed, writes>>

Counts == writes < MaxWrites /\ writes' = writes + 1

\* A write may be refused or fail: it is rolled back and reported.
Carries(write) ==
    /\ Counts
    /\ screen' = NoScreen
    /\ write \/ UNCHANGED controlVars
    /\ Reloads
    /\ UNCHANGED <<gitVars, reading, deed>>

\* The screen is confirmed, and what was asked is written.  Clearing removes
\* whatever route the use case has by then.
ConfirmLive(e) ==
    screen = Asks("start", e, None) /\ Carries(StartExperiment(e))
ConfirmStop(e) == screen = Asks("stop", e, None) /\ Carries(StopExperiment(e))
ConfirmAdoption(e) == screen = Asks("adopt", e, None) /\ Carries(Adopt(e))
ConfirmMirror(s) ==
    screen = Asks("mirror", s, None) /\ Carries(StartShadow(s))
ConfirmUnmirror(s) ==
    screen = Asks("unmirror", s, None) /\ Carries(StopShadow(s))
ConfirmRoute(u, m) ==
    screen = Asks("route", u, m) /\ Carries(SetRoute(u, m))
ConfirmClearing(u) ==
    /\ screen.kind = "clear" /\ screen.about = u
    /\ Carries(SetRoute(u, None))

\* The terminal checks the providers and writes.
Types(write) ==
    /\ Counts
    /\ write
    /\ UNCHANGED <<gitVars, shown, screen, reading, deed>>

TypeStart(e) == Proposable(e) /\ Types(StartExperiment(e))
TypeStop(e) == Types(StopExperiment(e))
TypeAdopt(e) == Adoptable(e) /\ Types(Adopt(e))
TypeMirror(s) == Mirrorable(s) /\ Types(StartShadow(s))
TypeUnmirror(s) == Types(StopShadow(s))
TypeRoute(u, m) == m \in Known /\ Types(SetRoute(u, m))
TypeClear(u) == routes[u] # None /\ Types(SetRoute(u, None))
TypeApproval(evidence) ==
    /\ Approvable(evidence) /\ evidence.model \in Known
    /\ Types(SetFallback(evidence.useCase,
          [model |-> evidence.model, baseline |-> evidence.baseline]))
TypeDisapproval(u) == fallbacks[u] # None /\ Types(SetFallback(u, None))

-----------------------------------------------------------------------------
\* The file is edited, or committed.
Moves ==
    /\ changes < MaxChanges /\ changes' = changes + 1
    /\ reading' = [d \in {Console, Terminal} |->
          LET read == reading[d]
          IN  Holds(read.stage, read.text, read.revision, read = Unread)]
    /\ UNCHANGED <<controlVars, shown, screen, deed, writes>>

Edit(text) == text # file /\ file' = text /\ UNCHANGED head /\ Moves
Commit(r) ==
    Parent[r] = head /\ SameText(r, file) /\ head' = r /\ UNCHANGED file /\ Moves

-----------------------------------------------------------------------------
Reads(d, read) == reading' = [reading EXCEPT ![d] = read]
Refuses(d) == Reads(d, Unread)

\* The document is loaded and its providers are looked up, or it is refused.
Load(d) ==
    /\ reading[d] = Unread
    /\ d = Console => screen = NoScreen
    /\ Loads(file) /\ Resolvable(file)
    /\ Reads(d, Holds("loaded", file, None, TRUE))
    /\ UNCHANGED <<controlVars, gitVars, shown, screen, deed, writes>>

\* git status --porcelain
CheckClean(d) ==
    /\ reading[d].stage = "loaded"
    /\ IF SameText(file, head)
       THEN Reads(d, Holds("clean", reading[d].text, None, reading[d].still))
            /\ UNCHANGED screen
       ELSE Refuses(d)
            /\ screen' = IF d = Console THEN NoScreen ELSE screen
    /\ UNCHANGED <<controlVars, gitVars, shown, deed, writes>>

\* git rev-parse HEAD
NameRevision(d) ==
    /\ reading[d].stage = "clean"
    /\ Reads(d, Holds("named", reading[d].text, head, reading[d].still))
    /\ UNCHANGED <<controlVars, gitVars, shown, screen, deed, writes>>

\* document_sha256(), and the console shows the preview.
ShowPreview ==
    /\ reading[Console].stage = "named" /\ screen = NoScreen
    /\ screen' = Preview(reading[Console])
    /\ Refuses(Console)
    /\ UNCHANGED <<controlVars, gitVars, shown, deed, writes>>

\* The preview is confirmed: the revision is verified again.
ConfirmPreview ==
    /\ screen.kind = "git" /\ reading[Console] = Unread
    /\ Reads(Console, Holds("loaded", screen.text, None, TRUE))
    /\ UNCHANGED <<controlVars, gitVars, shown, screen, deed, writes>>

\* What is activated: a text, under a revision and a hash, as it was reviewed.
Deed(text, named, still, reviewed) ==
    [text |-> text, revision |-> named, hash |-> file, still |-> still,
     reviewed |-> reviewed]

\* Fault: the preview is activated without a look at what was verified again.
MatchesAnything(read) == TRUE

\* The document was verified again as it was shown.
Matches(read) ==
    read.revision = screen.revision /\ SameText(file, screen.hash)

\* The hash is taken; what was loaded for the preview is activated if nothing
\* differs from it.
ActivatePreview ==
    LET read == reading[Console]
    IN  /\ read.stage = "named" /\ screen.kind = "git"
        /\ Counts
        /\ \/ /\ Matches(read)
              /\ Install(Declared[screen.text], read.revision)
              /\ deed' = Deed(screen.text, read.revision, screen.still, screen)
           \/ UNCHANGED <<controlVars, deed>>
        /\ Reloads
        /\ screen' = NoScreen
        /\ Refuses(Console)
        /\ UNCHANGED gitVars

\* The terminal activates what it loaded under what it verified once.
ActivateAtOnce ==
    LET read == reading[Terminal]
    IN  /\ read.stage = "named"
        /\ Counts
        /\ \/ /\ Install(Declared[read.text], read.revision)
              /\ deed' = Deed(read.text, read.revision, read.still, NoScreen)
           \/ UNCHANGED <<controlVars, deed>>
        /\ Refuses(Terminal)
        /\ UNCHANGED <<gitVars, shown, screen>>

-----------------------------------------------------------------------------
Review ==
    \/ \E e \in Experiment : ReviewLive(e) \/ StopLive(e) \/ ReviewAdoption(e)
    \/ \E s \in Shadow : ReviewMirror(s) \/ StopMirror(s)
    \/ \E u \in UseCase : ReviewClearing(u) \/ \E m \in Model : ReviewRoute(u, m)

Confirm ==
    \/ \E e \in Experiment : ConfirmLive(e) \/ ConfirmStop(e) \/ ConfirmAdoption(e)
    \/ \E s \in Shadow : ConfirmMirror(s) \/ ConfirmUnmirror(s)
    \/ \E u \in UseCase : ConfirmClearing(u) \/ \E m \in Model : ConfirmRoute(u, m)

Type ==
    \/ \E e \in Experiment : TypeStart(e) \/ TypeStop(e) \/ TypeAdopt(e)
    \/ \E s \in Shadow : TypeMirror(s) \/ TypeUnmirror(s)
    \/ \E u \in UseCase :
          TypeClear(u) \/ TypeDisapproval(u) \/ \E m \in Model : TypeRoute(u, m)
    \/ \E evidence \in Artifacts : TypeApproval(evidence)

Verify == \E d \in {Console, Terminal} : Load(d) \/ CheckClean(d) \/ NameRevision(d)
Activation == ShowPreview \/ ConfirmPreview \/ ActivatePreview \/ ActivateAtOnce

DeskNext ==
    \/ Review \/ Confirm \/ Type \/ Verify \/ Activation
    \/ Reload \/ Back
    \/ \E r \in Revision : Edit(TextOf(r)) \/ Commit(r)

DeskSpec == DeskInit /\ [][DeskNext]_deskVars

-----------------------------------------------------------------------------
\* cli/tui/control_actions/git_config.py:75-76, "Never activate a stale
\* preview": what the console activates is recorded under the revision and the
\* hash the operator was shown, whatever was edited, reverted or committed
\* meanwhile; and a revision is recorded over its own text whenever nothing
\* moved between the loading of the document and its hash.
ActivationIsReviewed ==
    deed # None =>
        /\ deed.reviewed.kind = "git" =>
              /\ deed.text = deed.reviewed.text
              /\ deed.revision = deed.reviewed.revision
              /\ SameText(deed.hash, deed.reviewed.hash)
        /\ deed.still =>
              SameText(deed.text, deed.revision) /\ SameText(deed.hash, deed.revision)

=============================================================================
