------------------------------- MODULE Replay -------------------------------
(***************************************************************************)
(* Offline replay of recorded calls on a candidate model: datasets with a  *)
(* held-out part (eval/dataset_manifest.py), the replay job that freezes   *)
(* its inputs (jobs/replay.py), the command that replays at once           *)
(* (cli/evaluation/replay.py), the report of a campaign                    *)
(* (analysis/campaign.py), and the calibration of the judge - over the     *)
(* store of Analysis, whose traces are pruned and erased meanwhile.        *)
(***************************************************************************)
EXTENDS Analysis, Judging

CONSTANTS
    Candidate,  \* the candidate model
    Percents    \* --train-percent

\* Further parts of a supply: what replaying an input may give, and the judges.
ASSUME ReplayAssumption ==
    /\ Percents \subseteq 1..99
    /\ \A s \in Supplies :
          /\ \A r \in s.replies : r \in [fails: BOOLEAN, baseline: Nat, candidate: Nat]
          /\ \A j \in s.judges : j \in [scale: Int, first: Int, style: Int]

VARIABLES
    manifest,    \* the dataset manifest, a file
    documents,   \* reports written as JSON
    calibration  \* the last calibration of the judge

evaluationVars == <<manifest, documents, calibration>>
replayVars == <<replay, evaluationVars>>
analysisOnly == <<supply, storeVars, reenriched, edgeVars, job>>

NoManifest == [phase |-> "none", useCase |-> Null, flow |-> Null, picked |-> {},
               entries |-> {}, percent |-> 0, rank |-> <<>>, train |-> {}]
NoReplay == [phase |-> "none", sample |-> {}, bound |-> Null, useCase |-> Null,
             flow |-> Null, judge |-> Null, batch |-> Null, replies |-> Null,
             verdict |-> Null, whole |-> FALSE, train |-> {}]

ReplayInit ==
    /\ manifest = NoManifest /\ replay = NoReplay
    /\ documents = {} /\ calibration = Null

-----------------------------------------------------------------------------
(* Inputs *)

\* requests_for_use_case(): the last successful call of every task, then the
\* one before, and so on; a call without a task stands alone.
Usable(useCase, flow) ==
    {row \in rows : row.is.role = useCase /\ row.sent.ok
                       /\ (flow = Null \/ row.sent.flow = flow)}
Turn(row, usable) ==
    IF row.is.task = NoTask THEN 1
    ELSE Cardinality({r \in usable : r.is.task = row.is.task /\ r.id >= row.id})
Requests(useCase, flow) ==
    LET usable == Usable(useCase, flow)
        Before(r, s) == \/ Turn(r, usable) < Turn(s, usable)
                        \/ Turn(r, usable) = Turn(s, usable) /\ r.id > s.id
    IN  {row \in usable :
            Cardinality({r \in usable : Before(r, row)}) < supply.limit}

UseCases == {row.is.role : row \in rows}
Flows == {row.sent.flow : row \in rows} \cup {Null}

\* use_case_models(): the model of the latest call of the use case.
BaselineModel(useCase) ==
    LET latest == CHOOSE row \in rows :
                     /\ row.is.role = useCase
                     /\ \A r \in rows : r.is.role = useCase =>
                           \/ r.ts < row.ts
                           \/ r.ts = row.ts /\ r.id <= row.id
    IN  latest.sent.model

\* require_replayable(), and two models that differ, of which the baseline is
\* inferred: not when the use case has been re-enriched away.
MayReplay(sample, useCase) ==
    /\ sample # {}
    /\ \A row \in sample : row.sent.messages
    /\ useCase \in UseCases
    /\ BaselineModel(useCase) # Candidate

-----------------------------------------------------------------------------
(* Datasets *)

\* _cluster()
ClusterByTrace(row) == <<"trace", row.id>>
Cluster(row) ==
    IF row.is.task # NoTask THEN <<"task", row.is.task>> ELSE <<"trace", row.id>>

\* A whole part of the clusters, in the order of their salted digests, and
\* neither none nor all of them.
Train(clusters, rank, percent) ==
    LET n == Cardinality(clusters)
        count == Max({1, Min({n - 1, (n * percent) \div 100})})
    IN  {c \in clusters : Cardinality({d \in clusters : rank[d] <= rank[c]}) <= count}

Entry(row, train) ==
    [id |-> row.id, cluster |-> Cluster(row), content |-> row.sent,
     split |-> IF Cluster(row) \in train THEN "train" ELSE "evaluation"]

\* `dataset create` picks the traces, ...
PickDataset ==
    /\ Issued("dataset")
    /\ manifest.phase = "none"
    /\ \E useCase \in UseCases, flow \in Flows :
        /\ Requests(useCase, flow) # {}
        /\ manifest' = [NoManifest EXCEPT !.phase = "picked",
                            !.useCase = useCase, !.flow = flow,
                            !.picked = {row.id : row \in Requests(useCase, flow)}]
    /\ UNCHANGED <<analysisOnly, replay, documents, calibration>>

\* ... then reads their payloads one by one, and is refused if one is gone.
MakeDataset ==
    /\ manifest.phase = "picked"
    /\ LET found == {row \in rows : row.id \in manifest.picked}
           clusters == {Cluster(row) : row \in found}
           n == Cardinality(clusters)
       IN  IF \/ Cardinality(found) < Cardinality(manifest.picked)
              \/ n < 2 \/ \E row \in found : ~row.kept
           THEN manifest' = NoManifest
           ELSE \E percent \in Percents, rank \in [clusters -> 1..n] :
                   LET train == Train(clusters, rank, percent)
                   IN  /\ IsInjective(rank)
                       /\ manifest' =
                             [manifest EXCEPT !.phase = "made",
                                 !.entries = {Entry(row, train) : row \in found},
                                 !.percent = percent, !.rank = rank,
                                 !.train = {[id |-> r.id, task |-> r.in] :
                                    r \in {f \in found : Cluster(f) \in train}}]
    /\ UNCHANGED <<analysisOnly, commands, replay, documents, calibration>>

\* An entry is moved to the other part by hand.
MoveEntry ==
    /\ manifest.phase = "made"
    /\ \E entry \in manifest.entries :
          manifest' =
             [manifest EXCEPT !.phase = "edited",
                 !.entries = (@ \ {entry}) \cup
                    {[entry EXCEPT !.split =
                        IF @ = "train" THEN "evaluation" ELSE "train"]}]
    /\ UNCHANGED <<analysisOnly, commands, replay, documents, calibration>>

\* verify_dataset_manifest(): the parts are what the salt makes them, ...
Coherent(m) ==
    LET clusters == {e.cluster : e \in m.entries}
        of(split) == {e.cluster : e \in {f \in m.entries : f.split = split}}
    IN  /\ of("train") \cap of("evaluation") = {}
        /\ of("train") # {} /\ of("evaluation") # {}
        /\ of("train") = Train(clusters, m.rank, m.percent)
\* ... and verify_dataset_bindings(): the payloads are what they were.
Bound(entries, store) ==
    \A e \in entries : \E row \in store :
        /\ row.id = e.id /\ row.kept
        /\ row.sent = e.content /\ Cluster(row) = e.cluster
Verified(m) == Coherent(m) /\ Bound(m.entries, rows)

HeldOutEntries(m) == {e \in m.entries : e.split = "evaluation"}

-----------------------------------------------------------------------------
(* Replay *)

\* prepare_replay_job(), for `replay-eval`, on a use case or on a dataset.
Prepared(useCase, flow, sample, bound, train) ==
    [NoReplay EXCEPT !.phase = "prepared", !.useCase = useCase, !.flow = flow,
                     !.sample = sample, !.bound = bound, !.train = train]
PrepareReplay ==
    /\ Issued("replay")
    /\ replay.phase \in {"none", "done", "failed"}
    /\ \/ \E useCase \in UseCases, flow \in Flows :
             /\ MayReplay(Requests(useCase, flow), useCase)
             /\ replay' = Prepared(useCase, flow, Requests(useCase, flow), Null, {})
       \/ /\ manifest.phase \in {"made", "edited"} /\ Verified(manifest)
          /\ LET bound == HeldOutEntries(manifest)
                 sample == {row \in rows : row.id \in {e.id : e \in bound}}
             IN  /\ MayReplay(sample, manifest.useCase)
                 /\ replay' = Prepared(manifest.useCase, manifest.flow, sample,
                                       bound, manifest.train)
    /\ UNCHANGED <<analysisOnly, evaluationVars>>

\* --background: from now on retention spares the sample.
QueueReplay ==
    /\ replay.phase = "prepared"
    /\ replay' = [replay EXCEPT !.phase = "queued",
                     !.whole = \A r \in replay.sample :
                                  \E row \in rows : row.id = r.id /\ row.kept]
    /\ UNCHANGED <<analysisOnly, commands, evaluationVars>>

\* run_replay() on these rows: a row without its body fails before a call.
Finished(sample, judge, batch, replies, lower) ==
    LET verdict == BatchVerdict(batch, lower)
    IN  /\ replay' = [replay EXCEPT !.phase = "done", !.sample = sample,
                         !.judge = judge, !.batch = batch,
                         !.replies = replies, !.verdict = verdict]
        /\ documents' = documents \cup
              {[useCase |-> replay.useCase, flow |-> replay.flow, verdict |-> verdict,
                from |-> sample, units |-> batch.units]}
Run(sample) ==
    \E judge \in supply.judges, replies \in [{row.id : row \in sample} -> supply.replies] :
        LET row(id) == CHOOSE r \in sample : r.id = id
            got == [id \in DOMAIN replies |->
                       [replies[id] EXCEPT !.fails = @ \/ ~row(id).kept]]
            batch == Batch(judge, got, [id \in DOMAIN replies |-> Cluster(row(id))])
        IN  \E lower \in Bounds(batch) : Finished(sample, judge, batch, got, lower)

\* Without --background, on the rows that were read for the plan.
RunAtOnce ==
    /\ replay.phase = "prepared"
    /\ Run(replay.sample)
    /\ UNCHANGED <<analysisOnly, commands, manifest, calibration>>

\* run_replay_job(): the rows are read again by their ids.
StillThere ==
    LET store == {row \in rows : row.kept}
    IN  /\ {row.id : row \in replay.sample} \subseteq {row.id : row \in store}
        /\ replay.bound # Null => Bound(replay.bound, rows)
RunReplayJob ==
    /\ replay.phase = "queued"
    /\ IF StillThere
       THEN Run({row \in rows : row.id \in {r.id : r \in replay.sample}})
       ELSE /\ replay' = [replay EXCEPT !.phase = "failed"]
            /\ UNCHANGED documents
    /\ UNCHANGED <<analysisOnly, commands, manifest, calibration>>

\* `calibration-set`, the human's scores, and `calibrate`: pairs that fail or
\* say nothing are not written.
Calibrate ==
    /\ Issued("calibrate")
    /\ \E useCase \in UseCases :
        LET sample == Requests(useCase, Null)
        IN  /\ MayReplay(sample, useCase)
            /\ \E judge \in supply.judges,
                  replies \in [{row.id : row \in sample} -> supply.replies] :
                LET row(id) == CHOOSE r \in sample : r.id = id
                    written == {id \in DOMAIN replies :
                        row(id).kept /\ ~replies[id].fails /\ ~Blank(replies[id])}
                IN  /\ written # {}
                    /\ \E key \in [written -> BOOLEAN] :
                        LET lines == [id \in written |-> Line(replies[id], key[id])]
                            labels == [id \in written |-> Unblind(lines[id], key[id])]
                        IN  calibration' = [judge |-> judge, labels |-> labels,
                                            replies |-> replies,
                                            report |-> Calibration(judge, labels)]
    /\ UNCHANGED <<analysisOnly, replay, manifest, documents>>

ReplayNext ==
    \/ PickDataset \/ MakeDataset \/ MoveEntry
    \/ PrepareReplay \/ QueueReplay \/ RunAtOnce \/ RunReplayJob
    \/ Calibrate

-----------------------------------------------------------------------------
(* The store, the analyses of it and the replays *)

offlineVars == <<analysisVars, evaluationVars>>
OfflineInit == AnalysisInit /\ ReplayInit
OfflineNext == (AnalysisNext /\ UNCHANGED evaluationVars) \/ ReplayNext
OfflineSpec == OfflineInit /\ [][OfflineNext]_offlineVars

-----------------------------------------------------------------------------
(* The campaign *)

\* build_campaign_report() on some documents; a report about a step says
\* nothing of its role, and two reports about one role are refused.
Duplicated(docs) == \E d, e \in docs : d # e /\ d.useCase = e.useCase
RoleEvidence(docs, useCase) ==
    {d \in docs : d.useCase = useCase /\ d.flow = Null}
Blessed(docs) ==
    IF Duplicated(docs) THEN {}
    ELSE {useCase \in UseCases :
             \E d \in RoleEvidence(docs, useCase) : d.verdict = "NON_INFERIOR"}

-----------------------------------------------------------------------------
(* Properties *)

\* Types of what Replay adds.
ReplayTypeOK ==
    /\ manifest.phase \in {"none", "picked", "made", "edited"}
    /\ manifest.phase = "made" => Coherent(manifest)
    /\ replay.phase \in {"none", "prepared", "queued", "done", "failed"}
    /\ replay.phase = "done" <=> replay.batch # Null
    /\ \A d \in documents :
          d.verdict \in {"UNDERPOWERED", "NON_INFERIOR", "NOT_NON_INFERIOR"}

\* A replay on a dataset judges held-out traces only: no trace and no task of
\* the training part, whoever edited the manifest and whatever happened to the
\* store; and a queued job fails only if its sample had lost a payload before
\* it was queued (dataset_manifest.py:155, jobs/replay.py:95).
HeldOut ==
    /\ replay.bound # Null =>
          \A row \in replay.sample : \A t \in replay.train :
              row.id # t.id /\ (row.in = NoTask \/ row.in # t.task)
    /\ replay.phase = "failed" => ~replay.whole

ReplayEarned ==
    LET diffs == replay.batch.diffs
        gap(id) == replay.replies[id].candidate - replay.replies[id].baseline
    IN  /\ replay.verdict \in {"NON_INFERIOR", "NOT_NON_INFERIOR"} =>
              /\ Cardinality({Cluster(row) :
                       row \in {r \in replay.sample : r.id \in DOMAIN diffs}}) >= MinUnits
              /\ 5 * Cardinality(DOMAIN diffs) >= 4 * Cardinality(replay.sample)
        /\ \A id \in DOMAIN diffs :
              diffs[id] = Replicates * (replay.judge.scale * gap(id) + replay.judge.style)
BlessingEarned ==
    \A useCase \in Blessed(documents) : \E d \in documents :
        d.useCase = useCase /\ d.units >= MinUnits
           /\ \A row \in d.from : row.is.role = useCase
JudgeEarned ==
    calibration.report.verdict = "ALIGNED" =>
        \/ calibration.report.noSpread
        \/ /\ calibration.judge.scale > 0
           /\ 2 * calibration.judge.style <= NIMargin

\* A verdict is earned: it rests on enough independent tasks and few failures;
\* every difference in it is that of the qualities, whichever response the
\* judge likes to see first, and the failure of one input loses that input
\* alone; a role is blessed by a report on calls of the whole role; and a
\* judge that passes calibration sees quality and favours no arm, unless the
\* labels were all alike, which is said (eval/judge.py:1, eval/replay.py:71,
\* analysis/campaign.py:137, eval/calibration.py:98).
VerdictEarned ==
    /\ replay.phase = "done" => ReplayEarned
    /\ BlessingEarned
    /\ calibration # Null => JudgeEarned

=============================================================================
