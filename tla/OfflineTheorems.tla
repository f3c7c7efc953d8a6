--------------------------- MODULE OfflineTheorems ---------------------------
(***************************************************************************)
(* What the offline side keeps while the store it reads is pruned, erased  *)
(* and re-enriched: edges keep their evidence, a discovery job reports the *)
(* sample it read, and a replay judges held-out traces only.               *)
(*                                                                         *)
(* All of it rests on the rows (RowInv): an identifier names one call for  *)
(* ever, and what was derived from the call outlives its payload.  So a    *)
(* sample read once can be compared with the store read later (Known).     *)
(*                                                                         *)
(* The verdict of a replay and of a calibration rest on the laws of sums   *)
(* over finite sets and on where the use case of a sample came from, over  *)
(* a release of the enrichment that renames it (EarnedInv).                *)
(***************************************************************************)
EXTENDS Replay, FiniteSetTheorems, TLAPS

RowFields == {"id", "ts", "sent", "in", "kept", "is"}
JobFields == {"phase", "sample", "scope", "selection", "artifact", "grown", "disturbed"}
InferenceFields == {"phase", "found", "late", "stale"}
ReplayFields ==
    {"phase", "sample", "bound", "useCase", "flow", "judge", "batch", "replies",
     "verdict", "whole", "train"}
ManifestFields ==
    {"phase", "useCase", "flow", "picked", "entries", "percent", "rank", "train"}
EntryFields == {"id", "cluster", "content", "split"}

DerivedFrom(row) ==
    /\ row.is.task = row.in /\ row.is.run = row.sent.run
    /\ row.is.role.key = row.sent.role

RowOK(row) == DOMAIN row = RowFields /\ row.id \in 1..lastId /\ DerivedFrom(row)

RowInv ==
    /\ lastId \in Nat
    /\ IsFiniteSet(rows)
    /\ \A row \in rows : RowOK(row)
    /\ \A r, s \in rows : r.id = s.id => r = s

\* Two sights of one call.
SameCall(r, s) == r.sent = s.sent /\ r.in = s.in

\* Rows read at some time: what the store still has of them is the same call.
Known(sample) ==
    \A r \in sample :
        /\ r.id \in 1..lastId /\ DerivedFrom(r)
        /\ \A s \in rows : s.id = r.id => SameCall(r, s)

-----------------------------------------------------------------------------
(* Edges *)

StandsOn(edge, store) ==
    \E s, t \in store :
        /\ s.id = edge.source /\ t.id = edge.target /\ s.id < t.id
        /\ s.in = edge.task /\ t.in = edge.task
        /\ s.sent.run = edge.from /\ t.sent.run = edge.to
        /\ edge.from # edge.to
        /\ edge.tool \in ToolIds(Body(s).produced)
        /\ edge.tool \in Body(t).consumed

EdgeInv ==
    /\ DOMAIN inference = InferenceFields
    /\ ~inference.stale => \A edge \in edges : StandsOn(edge, rows)
    /\ ~inference.late => \A edge \in inference.found : StandsOn(edge, rows)

-----------------------------------------------------------------------------
(* The sample of a discovery job *)

\* Tasks are in a sample with all their calls, and match the scope; the other
\* calls of it match the scope one by one.
Drawn(sample, scope) ==
    \A r \in sample :
        /\ r.is.task # NoTask =>
              r.is.task \in Matching(scope) /\ TaskRows(r.is.task) \subseteq sample
        /\ r.is.task = NoTask => r \in UnscopedIn(scope)

AddsUp(s) ==
    /\ s.selectedTasks + s.truncatedTasks = s.availableTasks
    /\ s.selectedTraces + s.truncatedTraces = s.availableTraces

Calm == ~job.grown /\ ~job.disturbed

JobInv ==
    /\ DOMAIN job = JobFields
    /\ job.phase \in {"read", "queued"} /\ ~job.disturbed => job.sample \subseteq rows
    /\ job.phase = "read" /\ Calm => Drawn(job.sample, job.scope)
    /\ job.phase \in {"queued", "done"} =>
          job.selection.sample = Cardinality(job.sample)
    /\ job.phase \in {"queued", "done"} /\ Calm => AddsUp(job.selection)
    /\ job.phase = "failed" => job.disturbed
    /\ job.phase = "done" => job.artifact = Artifact(job.sample, job.selection)

-----------------------------------------------------------------------------
(* Datasets and replays *)

ClusterOf(t) == IF t.task # NoTask THEN <<"task", t.task>> ELSE <<"trace", t.id>>

\* Every trace that was put in the training part has an entry whose cluster
\* the salt puts there, wherever the entry has been moved since.
Salted(m) ==
    /\ \A e \in m.entries : DOMAIN e = EntryFields
    /\ \A t \in m.train : \E e \in m.entries :
          /\ e.id = t.id /\ e.cluster = ClusterOf(t)
          /\ e.cluster \in Train({f.cluster : f \in m.entries}, m.rank, m.percent)

ManifestInv ==
    /\ DOMAIN manifest = ManifestFields
    /\ manifest.phase \in {"made", "edited"} => Salted(manifest)

\* What a replay was bound to is in its sample.
BoundTo(entries, sample) ==
    \A e \in entries : \E r \in sample :
        r.id = e.id /\ r.sent = e.content /\ Cluster(r) = e.cluster

Stored(sample) == \A r \in sample : \E row \in rows : row.id = r.id /\ row.kept

ReplayInv ==
    /\ DOMAIN replay = ReplayFields
    /\ Known(replay.sample)
    /\ replay.phase \in {"prepared", "queued"} /\ replay.bound # Null =>
          BoundTo(replay.bound, replay.sample)
    /\ replay.phase = "queued" /\ replay.whole => Stored(replay.sample)
    /\ HeldOut

OfflineInv == RowInv /\ EdgeInv /\ JobInv /\ ManifestInv /\ ReplayInv


-----------------------------------------------------------------------------
(* The rows *)

\* Every row of the next state is the same call as one of this, or is new.
Continues ==
    /\ lastId' \in Nat /\ lastId <= lastId'
    /\ \A r \in rows' : r.id \in 1..lastId => \E s \in rows : s.id = r.id /\ SameCall(r, s)

LEMMA SaveKeepsRows ==
    ASSUME RowInv, NEW sent, NEW task, NEW lag, Save(sent, task, lag)
    PROVE  RowInv' /\ Continues /\ rows \subseteq rows'
<1> DEFINE id == lastId + 1
           new == [id |-> id, ts |-> 2 * id - lag, sent |-> sent,
                   in |-> task, kept |-> TRUE, is |-> Derived(sent, task, TRUE)]
<1>1. rows' = rows \cup {new} /\ lastId' = id /\ id \in Nat
  BY DEF Save, RowInv
<1>2. IsFiniteSet(rows')
  BY <1>1, FS_AddElement DEF RowInv
<1>3. DOMAIN new = RowFields /\ new.id = lastId + 1 /\ DerivedFrom(new)
  BY DEF DerivedFrom, Derived, RowFields
<1> HIDE DEF new
<1>4. \A r \in rows : DOMAIN r = RowFields /\ r.id \in 1..lastId /\ DerivedFrom(r)
  BY DEF RowInv, RowOK
<1>5. \A r \in rows' : RowOK(r)'
  BY <1>1, <1>3, <1>4 DEF RowOK, RowInv
<1>6. \A r, s \in rows' : r.id = s.id => r = s
  BY <1>1, <1>3, <1>4 DEF RowInv
<1>7. Continues
  BY <1>1, <1>3, <1>4 DEF Continues, RowInv, SameCall
<1> QED
  BY <1>1, <1>2, <1>5, <1>6, <1>7 DEF RowInv

LEMMA RecordKeepsRows ==
    ASSUME RowInv, Record
    PROVE  RowInv' /\ Continues /\ rows \subseteq rows'
<1>1. \E sent, task, lag : Save(sent, task, lag)
  BY DEF Record
<1> QED
  BY <1>1, SaveKeepsRows

\* What the commands of retention make of the rows: some go, and each of the
\* others is the same call under the same identifier.
LEMMA ImageKeepsRows ==
    ASSUME RowInv, lastId' = lastId, NEW f, \A r \in rows' : \E s \in rows : r = f[s],
           \A r \in rows : /\ DOMAIN f[r] = RowFields /\ f[r].id = r.id
                           /\ SameCall(f[r], r) /\ DerivedFrom(f[r])
    PROVE  RowInv' /\ Continues
<1>1. IsFiniteSet(rows')
  <2> DEFINE stay == {r \in rows : f[r] \in rows'}
  <2>1. IsFiniteSet(stay)
    BY FS_Subset DEF RowInv
  <2>2. [r \in stay |-> f[r]] \in Surjection(stay, rows')
    BY DEF Surjection
  <2> QED
    BY <2>1, <2>2, FS_Surjection
<1>2. \A r \in rows' : RowOK(r)'
  BY DEF RowOK, RowInv
<1>3. \A r, s \in rows' : r.id = s.id => r = s
  BY DEF RowInv
<1>4. Continues
  BY DEF Continues, RowInv
<1> QED
  BY <1>1, <1>2, <1>3, <1>4 DEF RowInv

Forget(row) == [row EXCEPT !.kept = FALSE]

LEMMA ForgetIs ==
    ASSUME NEW row, DOMAIN row = RowFields
    PROVE  /\ DOMAIN Forget(row) = RowFields
           /\ Forget(row).id = row.id /\ Forget(row).sent = row.sent
           /\ Forget(row).in = row.in /\ Forget(row).is = row.is
           /\ Forget(row).ts = row.ts /\ Forget(row).kept = FALSE
BY DEF Forget, RowFields

LEMMA RewrittenIs ==
    ASSUME NEW row, DOMAIN row = RowFields
    PROVE  /\ DOMAIN Rewritten(row) = RowFields
           /\ Rewritten(row).id = row.id /\ Rewritten(row).sent = row.sent
           /\ Rewritten(row).in = row.in /\ Rewritten(row).ts = row.ts
           /\ Rewritten(row).kept = row.kept
           /\ Rewritten(row).is = Derived(row.sent, row.in, row.kept)
BY DEF Rewritten, RowFields

LEMMA PruneKeepsRows ==
    ASSUME RowInv, NEW pruned \in SUBSET rows, lastId' = lastId,
           rows' = (rows \ pruned) \cup {[row EXCEPT !.kept = FALSE] : row \in pruned}
    PROVE  RowInv' /\ Continues
<1> PICK f : f = [r \in rows |-> IF r \in pruned THEN Forget(r) ELSE r]
  OBVIOUS
<1>1. \A r \in rows' : \E s \in rows : r = f[s]
  BY DEF Forget
<1>2. ASSUME NEW r \in rows
      PROVE  /\ DOMAIN f[r] = RowFields /\ f[r].id = r.id
             /\ SameCall(f[r], r) /\ DerivedFrom(f[r])
  <2>1. DOMAIN r = RowFields /\ DerivedFrom(r)
    BY DEF RowInv, RowOK
  <2>2. f[r] = IF r \in pruned THEN Forget(r) ELSE r
    OBVIOUS
  <2>3. CASE r \in pruned
    BY <2>1, <2>2, <2>3, ForgetIs DEF SameCall, DerivedFrom
  <2>4. CASE r \notin pruned
    BY <2>1, <2>2, <2>4 DEF SameCall, DerivedFrom
  <2> QED
    BY <2>3, <2>4
<1>3. RowInv /\ lastId' = lastId
  OBVIOUS
<1> QED
  BY ONLY <1>1, <1>2, <1>3, ImageKeepsRows

LEMMA EraseKeepsRows ==
    ASSUME RowInv, NEW erased \in SUBSET rows, lastId' = lastId, rows' = rows \ erased
    PROVE  RowInv' /\ Continues
<1> PICK f : f = [r \in rows |-> r]
  OBVIOUS
<1>1. \A r \in rows' : \E s \in rows : r = f[s]
  OBVIOUS
<1>2. ASSUME NEW r \in rows
      PROVE  /\ DOMAIN f[r] = RowFields /\ f[r].id = r.id
             /\ SameCall(f[r], r) /\ DerivedFrom(f[r])
  BY DEF RowInv, RowOK, SameCall
<1> QED
  BY <1>1, <1>2, ImageKeepsRows

LEMMA ReenrichKeepsRows ==
    ASSUME RowInv, lastId' = lastId, \A row \in rows : row.kept,
           rows' = {Rewritten(row) : row \in rows}
    PROVE  RowInv' /\ Continues
<1> PICK f : f = [r \in rows |-> Rewritten(r)]
  OBVIOUS
<1>1. \A r \in rows' : \E s \in rows : r = f[s]
  OBVIOUS
<1>2. ASSUME NEW r \in rows
      PROVE  /\ DOMAIN f[r] = RowFields /\ f[r].id = r.id
             /\ SameCall(f[r], r) /\ DerivedFrom(f[r])
  <2>1. DOMAIN r = RowFields /\ r.kept
    BY DEF RowInv, RowOK
  <2>2. f[r] = Rewritten(r)
    OBVIOUS
  <2>3. /\ Rewritten(r).is.task = r.in /\ Rewritten(r).is.run = r.sent.run
        /\ Rewritten(r).is.role.key = r.sent.role
    <3>1. Derived(r.sent, r.in, r.kept) =
             [task |-> r.in, run |-> r.sent.run,
              role |-> [key |-> r.sent.role, by |-> code]]
      BY <2>1 DEF Derived
    <3>2. Rewritten(r).is = Derived(r.sent, r.in, r.kept)
      BY <2>1, RewrittenIs
    <3> QED
      BY <3>1, <3>2
  <2> QED
    BY <2>1, <2>2, <2>3, RewrittenIs DEF SameCall, DerivedFrom
<1> QED
  BY <1>1, <1>2, ImageKeepsRows

\* Only four actions write the traces table.
Writes == Record \/ Prune \/ EraseTask \/ Reenrich

LEMMA OthersLeaveRows ==
    ASSUME [OfflineNext]_offlineVars
    PROVE  Writes \/ (UNCHANGED <<rows, lastId>>)
BY DEF Writes, OfflineNext, AnalysisNext, ReplayNext, offlineVars, analysisVars,
       storeVars, analysisOnly, Upgrade, InferEdges, ReplaceEdges, PrepareSample,
       QueueSample, RunDiscovery, PickDataset, MakeDataset, MoveEntry,
       PrepareReplay, QueueReplay, RunAtOnce, RunReplayJob, Calibrate

LEMMA RowsStep ==
    ASSUME RowInv, [OfflineNext]_offlineVars
    PROVE  RowInv' /\ Continues
<1>1. CASE Record
  BY <1>1, RecordKeepsRows
<1>2. CASE Prune
  BY <1>2, PruneKeepsRows DEF Prune
<1>3. CASE EraseTask
  BY <1>3, EraseKeepsRows DEF EraseTask
<1>4. CASE UNCHANGED <<rows, lastId>>
  BY <1>4 DEF RowInv, RowOK, Continues, SameCall
<1>5. CASE Reenrich
  <2>1. CASE \A row \in rows : Enrichable(row)
    BY <1>5, <2>1, ReenrichKeepsRows DEF Reenrich, Enrichable
  <2>2. CASE ~\A row \in rows : Enrichable(row)
    BY <1>4, <1>5, <2>2 DEF Reenrich
  <2> QED
    BY <2>1, <2>2
<1> QED
  BY <1>1, <1>2, <1>3, <1>4, <1>5, OthersLeaveRows DEF Writes

\* A sample that was known stays known.
LEMMA KnownStays ==
    ASSUME NEW sample, Known(sample), RowInv, Continues,
           NEW sample2, sample2 \subseteq sample
    PROVE  /\ \A r \in sample2 :
                 /\ r.id \in 1..lastId' /\ DerivedFrom(r)
                 /\ \A s \in rows' : s.id = r.id => SameCall(r, s)
BY DEF Known, Continues, SameCall, RowInv
-----------------------------------------------------------------------------
(* The edges *)

\* An edge stands as long as the two rows under it are what they were.
LEMMA EvidenceCarries ==
    ASSUME NEW edge, NEW store, StandsOn(edge, rows),
           \A r \in rows :
              r.id \in {edge.source, edge.target} /\ r.in = edge.task =>
                 \E q \in store : /\ q.id = r.id /\ q.sent = r.sent
                                  /\ q.in = r.in /\ q.kept = r.kept
    PROVE  StandsOn(edge, store)
<1>1. PICK s \in rows, t \in rows :
        /\ s.id = edge.source /\ t.id = edge.target /\ s.id < t.id
        /\ s.in = edge.task /\ t.in = edge.task
        /\ s.sent.run = edge.from /\ t.sent.run = edge.to
        /\ edge.from # edge.to
        /\ edge.tool \in ToolIds(Body(s).produced)
        /\ edge.tool \in Body(t).consumed
  BY DEF StandsOn
<1>2. PICK s2 \in store :
        s2.id = s.id /\ s2.sent = s.sent /\ s2.in = s.in /\ s2.kept = s.kept
  BY <1>1
<1>3. PICK t2 \in store :
        t2.id = t.id /\ t2.sent = t.sent /\ t2.in = t.in /\ t2.kept = t.kept
  BY <1>1
<1>4. Body(s2) = Body(s) /\ Body(t2) = Body(t)
  BY <1>2, <1>3 DEF Body
<1> QED
  BY <1>1, <1>2, <1>3, <1>4 DEF StandsOn

\* Of a set with one element CHOOSE takes an element.
LEMMA OnlyOne ==
    ASSUME NEW S, Cardinality(S) = 1
    PROVE  (CHOOSE x \in S : TRUE) \in S
<1>1. S # {}
  BY FS_EmptySet
<1> QED
  BY <1>1

\* What `workflow infer` finds stands on the rows it read.
LEMMA InferredStand ==
    ASSUME RowInv, NEW edge \in Inferred
    PROVE  StandsOn(edge, rows)
<1> DEFINE traces == InferenceInputs
           source(t, tool) == CHOOSE u \in Sources(traces, t, tool) : TRUE
<1>1. PICK t, tool :
        /\ t \in traces
        /\ Consumes(traces, t, tool)
        /\ Cardinality(Sources(traces, t, tool)) = 1
        /\ edge = [task |-> source(t, tool).task, from |-> source(t, tool).run,
                   to |-> t.run, tool |-> tool, source |-> source(t, tool).id,
                   target |-> t.id,
                   confirmation |-> Confirmation(source(t, tool).task,
                                                 source(t, tool).run, t.run)]
  BY DEF Inferred
<1>2. PICK s : s = source(t, tool)
  OBVIOUS
<1>3. s \in Sources(traces, t, tool)
  BY <1>1, <1>2, OnlyOne
<1> HIDE DEF source
<1>4. /\ s \in traces /\ s.task = t.task /\ tool \in s.produced
      /\ s.id < t.id /\ s.run # t.run /\ tool \in t.consumed
  BY <1>1, <1>3 DEF Sources, Consumes
<1>5. /\ edge.task = s.task /\ edge.from = s.run /\ edge.to = t.run
      /\ edge.tool = tool /\ edge.source = s.id /\ edge.target = t.id
  BY <1>1, <1>2
<1>6. ASSUME NEW u \in traces
      PROVE  \E row \in rows :
                /\ row.id = u.id /\ row.in = u.task /\ row.sent.run = u.run
                /\ u.produced = ToolIds(Body(row).produced)
                /\ u.consumed = Body(row).consumed
  BY DEF InferenceInputs, RowInv, RowOK, DerivedFrom
<1>7. PICK p \in rows :
        /\ p.id = s.id /\ p.in = s.task /\ p.sent.run = s.run
        /\ s.produced = ToolIds(Body(p).produced)
  BY <1>4, <1>6
<1>8. PICK c \in rows :
        /\ c.id = t.id /\ c.in = t.task /\ c.sent.run = t.run
        /\ t.consumed = Body(c).consumed
  BY <1>1, <1>6
<1> QED
  BY <1>4, <1>5, <1>7, <1>8 DEF StandsOn

LEMMA RemoveEdgesKeeps ==
    ASSUME EdgeInv, NEW ids, NEW task, RemoveEdges(ids, task),
           \A r \in rows : r.id \notin ids /\ r.in # task =>
              \E q \in rows' : /\ q.id = r.id /\ q.sent = r.sent
                               /\ q.in = r.in /\ q.kept = r.kept
    PROVE  EdgeInv'
<1>1. /\ edges' = {edge \in edges : ~Bereft(edge, ids, task)}
      /\ inference' = [inference EXCEPT !.late =
                          @ \/ \E edge \in inference.found : Bereft(edge, ids, task)]
  BY DEF RemoveEdges
<1>2. ASSUME NEW edge, ~Bereft(edge, ids, task), StandsOn(edge, rows)
      PROVE  StandsOn(edge, rows')
  BY <1>2, EvidenceCarries DEF Bereft, EvidenceOf
<1>3. /\ DOMAIN inference' = InferenceFields
      /\ inference'.stale = inference.stale /\ inference'.found = inference.found
      /\ inference'.late =
            (inference.late \/ \E edge \in inference.found : Bereft(edge, ids, task))
  BY <1>1 DEF EdgeInv, InferenceFields
<1>4. ~inference.stale => \A edge \in edges' : StandsOn(edge, rows')
  BY <1>1, <1>2 DEF EdgeInv
<1>5. ~inference'.late => \A edge \in inference.found : StandsOn(edge, rows')
  BY <1>2, <1>3 DEF EdgeInv
<1> QED
  BY <1>3, <1>4, <1>5 DEF EdgeInv

\* Every row that is left is what it was.
LEMMA SteadyEdges ==
    ASSUME EdgeInv, UNCHANGED edgeVars,
           \A r \in rows : \E q \in rows' : /\ q.id = r.id /\ q.sent = r.sent
                                            /\ q.in = r.in /\ q.kept = r.kept
    PROVE  EdgeInv'
<1>1. ASSUME NEW edge, StandsOn(edge, rows)
      PROVE  StandsOn(edge, rows')
  BY <1>1, EvidenceCarries
<1>2. edges' = edges /\ inference' = inference
  BY DEF edgeVars
<1> QED
  BY <1>1, <1>2 DEF EdgeInv

LEMMA OthersLeaveEdges ==
    ASSUME [OfflineNext]_offlineVars
    PROVE  \/ Prune \/ EraseTask \/ InferEdges \/ ReplaceEdges
           \/ UNCHANGED edgeVars /\ (Record \/ Reenrich \/ UNCHANGED rows)
BY DEF OfflineNext, AnalysisNext, ReplayNext, offlineVars, analysisVars, edgeVars,
       storeVars, analysisOnly, Record, Reenrich, Upgrade, PrepareSample,
       QueueSample, RunDiscovery, PickDataset, MakeDataset, MoveEntry,
       PrepareReplay, QueueReplay, RunAtOnce, RunReplayJob, Calibrate

LEMMA PruneKeepsEdges ==
    ASSUME RowInv, EdgeInv, Prune
    PROVE  EdgeInv'
<1>1. PICK pruned, ids :
        /\ pruned \subseteq rows /\ ids = {row.id : row \in pruned}
        /\ rows' = (rows \ pruned) \cup {[row EXCEPT !.kept = FALSE] : row \in pruned}
        /\ RemoveEdges(ids, NoTask)
  BY DEF Prune
<1>2. \A r \in rows : r.id \notin ids => r \in rows'
  BY <1>1
<1> QED
  BY <1>1, <1>2, RemoveEdgesKeeps

LEMMA EraseKeepsEdges ==
    ASSUME RowInv, EdgeInv, EraseTask
    PROVE  EdgeInv'
<1>1. PICK task :
        /\ rows' = rows \ {row \in rows : row.is.task = task}
        /\ RemoveEdges({}, task)
  BY DEF EraseTask
<1>2. \A r \in rows : r.in # task => r \in rows'
  BY <1>1 DEF RowInv, RowOK, DerivedFrom
<1> QED
  BY <1>1, <1>2, RemoveEdgesKeeps

LEMMA EdgesStep ==
    ASSUME RowInv, EdgeInv, [OfflineNext]_offlineVars
    PROVE  EdgeInv'
<1>1. CASE Prune
  BY <1>1, PruneKeepsEdges
<1>2. CASE EraseTask
  BY <1>2, EraseKeepsEdges
<1>3. CASE InferEdges
  BY <1>3, InferredStand DEF InferEdges, storeVars, EdgeInv, InferenceFields
<1>4. CASE ReplaceEdges
  BY <1>4 DEF ReplaceEdges, storeVars, EdgeInv, InferenceFields, NoInference
<1>5. CASE UNCHANGED edgeVars /\ Record
  BY <1>5, RecordKeepsRows, SteadyEdges
<1>6. CASE UNCHANGED edgeVars /\ UNCHANGED rows
  BY <1>6, SteadyEdges
<1>7. CASE UNCHANGED edgeVars /\ Reenrich
  <2>1. CASE \A row \in rows : Enrichable(row)
    <3>1. \A r \in rows : \E q \in rows' : /\ q.id = r.id /\ q.sent = r.sent
                                           /\ q.in = r.in /\ q.kept = r.kept
      BY <1>7, <2>1, RewrittenIs DEF Reenrich, RowInv, RowOK
    <3> QED
      BY <1>7, <3>1, SteadyEdges
  <2>2. CASE ~\A row \in rows : Enrichable(row)
    BY <1>6, <1>7, <2>2 DEF Reenrich
  <2> QED
    BY <2>1, <2>2
<1> QED
  BY <1>1, <1>2, <1>3, <1>4, <1>5, <1>6, <1>7, OthersLeaveEdges
-----------------------------------------------------------------------------
(* The sample of a job *)

\* Retention and erasure spare what a queued job has read.
LEMMA FrozenHas ==
    ASSUME NEW j \in {job, replay}, j.phase = "queued", NEW r \in j.sample
    PROVE  r.id \in Frozen
BY DEF Frozen

LEMMA SampleIsDrawn ==
    ASSUME RowInv, NEW scope
    PROVE  /\ DiscoveryInputs(scope) \subseteq rows
           /\ Drawn(DiscoveryInputs(scope), scope)
<1> DEFINE tasks == Recent([t \in Matching(scope) |-> LastOf(t)], supply.limit)
           loose == Recent([row \in UnscopedIn(scope) |-> row.id], supply.limit)
<1>1. DiscoveryInputs(scope) = (UNION {TaskRows(task) : task \in tasks}) \cup loose
  BY DEF DiscoveryInputs
<1>2. tasks \subseteq Matching(scope)
  BY DEF Recent
<1>3. loose \subseteq UnscopedIn(scope)
  BY DEF Recent
<1> HIDE DEF tasks, loose
<1>4. \A task \in Matching(scope) : task # NoTask
  BY DEF Matching, Legacy, AllTasks
<1>5. \A r \in UnscopedIn(scope) : r \in rows /\ r.is.task = NoTask
  BY DEF UnscopedIn, Unscoped
<1>6. \A task : \A r \in TaskRows(task) : r \in rows /\ r.is.task = task
  BY DEF TaskRows
<1>7. ASSUME NEW r \in DiscoveryInputs(scope)
      PROVE  /\ r \in rows
             /\ r.is.task # NoTask =>
                   /\ r.is.task \in Matching(scope)
                   /\ TaskRows(r.is.task) \subseteq DiscoveryInputs(scope)
             /\ r.is.task = NoTask => r \in UnscopedIn(scope)
  <2>1. CASE r \in loose
    BY <2>1, <1>3, <1>5
  <2>2. CASE \E task \in tasks : r \in TaskRows(task)
    <3>1. PICK task \in tasks : r \in TaskRows(task)
      BY <2>2
    <3>2. r \in rows /\ r.is.task = task
      BY <3>1, <1>6
    <3>3. task \in Matching(scope) /\ task # NoTask
      BY <3>1, <1>2, <1>4
    <3>4. TaskRows(task) \subseteq DiscoveryInputs(scope)
      BY <3>1, <1>1
    <3> QED
      BY <3>2, <3>3, <3>4
  <2> QED
    <3>1. r \in loose \/ \E task \in tasks : r \in TaskRows(task)
      BY <1>1
    <3> QED
      BY <3>1, <2>1, <2>2
<1> QED
  BY <1>7 DEF Drawn

\* Finitely many rows carry finitely many tasks.
LEMMA TasksFinite ==
    ASSUME NEW some, IsFiniteSet(some)
    PROVE  IsFiniteSet({row.is.task : row \in some})
<1>1. [row \in some |-> row.is.task] \in Surjection(some, {row.is.task : row \in some})
  BY DEF Surjection
<1> QED
  BY <1>1, FS_Surjection

\* A part and what is left of the whole make up the whole.
LEMMA PartAndRest ==
    ASSUME NEW whole, IsFiniteSet(whole), NEW part, part \subseteq whole
    PROVE  Cardinality(part) + Less(Cardinality(whole), Cardinality(part))
              = Cardinality(whole)
<1>1. /\ IsFiniteSet(part)
      /\ Cardinality(part) <= Cardinality(whole)
  BY FS_Subset
<1>2. Cardinality(part) \in Nat /\ Cardinality(whole) \in Nat
  BY <1>1, FS_CardinalityType
<1> QED
  BY <1>1, <1>2 DEF Less

\* The numbers add up when the sample is still drawn from the rows they count.
LEMMA DrawnAddsUp ==
    ASSUME RowInv, NEW sample, sample \subseteq rows, NEW scope, Drawn(sample, scope)
    PROVE  AddsUp(Diagnostics(sample, scope))
<1> DEFINE tasks == {row.is.task : row \in sample} \ {NoTask}
           loose == {row \in sample : row.is.task = NoTask}
<1>1. IsFiniteSet(Matching(scope)) /\ IsFiniteSet(UnscopedIn(scope))
  <2>1. IsFiniteSet({row.is.task : row \in rows})
    BY TasksFinite DEF RowInv
  <2>2. Matching(scope) \subseteq {row.is.task : row \in rows}
    BY DEF Matching, Legacy, AllTasks
  <2>3. UnscopedIn(scope) \subseteq rows
    BY DEF UnscopedIn, Unscoped
  <2> QED
    BY <2>1, <2>2, <2>3, FS_Subset DEF RowInv
<1>2. tasks \subseteq Matching(scope) /\ loose \subseteq UnscopedIn(scope)
  BY DEF Drawn
<1>3. /\ Cardinality(tasks) + Less(Cardinality(Matching(scope)), Cardinality(tasks))
           = Cardinality(Matching(scope))
      /\ Cardinality(loose) + Less(Cardinality(UnscopedIn(scope)), Cardinality(loose))
           = Cardinality(UnscopedIn(scope))
  BY <1>1, <1>2, PartAndRest
<1>4. /\ Diagnostics(sample, scope).availableTasks = Cardinality(Matching(scope))
      /\ Diagnostics(sample, scope).selectedTasks = Cardinality(tasks)
      /\ Diagnostics(sample, scope).truncatedTasks =
            Less(Cardinality(Matching(scope)), Cardinality(tasks))
      /\ Diagnostics(sample, scope).availableTraces = Cardinality(UnscopedIn(scope))
      /\ Diagnostics(sample, scope).selectedTraces = Cardinality(loose)
      /\ Diagnostics(sample, scope).truncatedTraces =
            Less(Cardinality(UnscopedIn(scope)), Cardinality(loose))
  BY DEF Diagnostics
<1> QED
  BY <1>3, <1>4 DEF AddsUp

\* A task is in the scope by its calls alone.
Fits(scope, calls) ==
    /\ Within(scope, Max({row.ts : row \in calls}))
    /\ \A field \in {"model", "experiment", "arm"} :
          scope[field] = Null \/ \E row \in calls : row.sent[field] = scope[field]
    /\ \A field \in {"experiment", "arm"} :
          scope[field] = Null
             \/ Cardinality({row.sent[field] : row \in calls} \ {Null}) = 1

LEMMA ScopeFits ==
    ASSUME NEW scope, NEW task
    PROVE  /\ InScope(scope, task) <=> Fits(scope, TaskRows(task))
           /\ InScope(scope, task)' <=> Fits(scope, TaskRows(task)')
BY DEF InScope, Fits, Has, Only

\* What the commands leave of a row as analyses count it.
SameCount(r, s) ==
    r.id = s.id /\ r.ts = s.ts /\ r.is.task = s.is.task /\ r.is.run = s.is.run

LEMMA DrawnStays ==
    ASSUME RowInv, RowInv', NEW sample, NEW scope, Drawn(sample, scope),
           sample \subseteq rows, sample \subseteq rows',
           \A r \in rows' : \E s \in rows : SameCount(r, s)
    PROVE  Drawn(sample, scope)'
<1>1. ASSUME NEW r \in sample, r.is.task # NoTask
      PROVE  r.is.task \in Matching(scope)' /\ TaskRows(r.is.task)' \subseteq sample
  <2> DEFINE task == r.is.task
  <2>1. task \in Matching(scope) /\ TaskRows(task) \subseteq sample
    BY <1>1 DEF Drawn
  <2>2. TaskRows(task)' \subseteq TaskRows(task)
    <3>1. SUFFICES ASSUME NEW q \in rows', q.is.task = task
                   PROVE  q \in TaskRows(task)
      BY DEF TaskRows
    <3>2. PICK s \in rows : SameCount(q, s)
      OBVIOUS
    <3>3. s \in TaskRows(task)
      BY <3>1, <3>2 DEF TaskRows, SameCount
    <3>4. s \in rows'
      BY <2>1, <3>3
    <3>5. q = s
      BY <3>2, <3>4 DEF SameCount, RowInv
    <3> QED
      BY <3>3, <3>5
  <2>3. TaskRows(task) \subseteq TaskRows(task)'
    BY <2>1 DEF TaskRows
  <2>4. TaskRows(task)' = TaskRows(task)
    BY <2>2, <2>3
  <2>5. InScope(scope, task)'
    BY <2>1, <2>4, ScopeFits DEF Matching
  <2>6. task \in AllTasks'
    BY <1>1 DEF AllTasks
  <2>7. \A row \in TaskRows(task)' : row.is.run = Null
    BY <2>1, <2>4 DEF Matching, Legacy
  <2> QED
    BY <2>1, <2>4, <2>5, <2>6, <2>7 DEF Matching, Legacy
<1>2. ASSUME NEW r \in sample, r.is.task = NoTask
      PROVE  r \in UnscopedIn(scope)'
  BY <1>2 DEF Drawn, UnscopedIn, Unscoped
<1> QED
  BY <1>1, <1>2 DEF Drawn
LEMMA DisturbIs ==
    ASSUME DOMAIN job = JobFields, NEW ids, NEW phases, Disturb(ids, phases)
    PROVE  /\ DOMAIN job' = JobFields
           /\ job'.phase = job.phase /\ job'.sample = job.sample
           /\ job'.scope = job.scope /\ job'.selection = job.selection
           /\ job'.artifact = job.artifact /\ job'.grown = job.grown
           /\ job'.disturbed <=>
                 \/ job.disturbed
                 \/ /\ job.phase \in phases
                    /\ ids \cap {row.id : row \in job.sample} # {}
BY DEF Disturb, JobFields

\* A command that disturbs the job says so, and otherwise leaves its sample.
LEMMA CommandKeepsJob ==
    ASSUME RowInv, RowInv', JobInv, NEW ids, NEW phases, Disturb(ids, phases),
           job.phase \in {"read", "queued"} /\ ~job'.disturbed =>
              job.sample \subseteq rows',
           \A r \in rows' : \E s \in rows : SameCount(r, s)
    PROVE  JobInv'
<1>1. /\ DOMAIN job' = JobFields
      /\ job'.phase = job.phase /\ job'.sample = job.sample
      /\ job'.scope = job.scope /\ job'.selection = job.selection
      /\ job'.artifact = job.artifact /\ job'.grown = job.grown
      /\ job.disturbed => job'.disturbed
  BY DisturbIs DEF JobInv
<1>2. job'.phase \in {"read", "queued"} /\ ~job'.disturbed => job'.sample \subseteq rows'
  BY <1>1
<1>3. ASSUME job'.phase = "read", Calm'
      PROVE  Drawn(job.sample, job.scope)'
  <2>1. Drawn(job.sample, job.scope) /\ job.sample \subseteq rows /\ job.sample \subseteq rows'
    BY <1>1, <1>3 DEF JobInv, Calm
  <2>2. PICK sample, scope : sample = job.sample /\ scope = job.scope
    OBVIOUS
  <2>3. Drawn(sample, scope)'
    BY <2>1, <2>2, DrawnStays
  <2> QED
    BY <1>1, <2>2, <2>3
<1>4. job'.phase \in {"queued", "done"} /\ Calm' => AddsUp(job'.selection)
  BY <1>1 DEF JobInv, Calm
<1>5. /\ job'.phase \in {"queued", "done"} =>
            job'.selection.sample = Cardinality(job'.sample)
      /\ job'.phase = "failed" => job'.disturbed
      /\ job'.phase = "done" => job'.artifact = Artifact(job'.sample, job'.selection)
  BY <1>1 DEF JobInv
<1> QED
  BY <1>1, <1>2, <1>3, <1>4, <1>5 DEF JobInv

LEMMA RecordKeepsJob ==
    ASSUME RowInv, JobInv, Record
    PROVE  JobInv'
<1>1. rows \subseteq rows'
  BY RecordKeepsRows
<1>2. job' = [job EXCEPT !.grown = @ \/ job.phase = "read"]
  BY DEF Record
<1>3. /\ DOMAIN job' = JobFields
      /\ job'.phase = job.phase /\ job'.sample = job.sample
      /\ job'.scope = job.scope /\ job'.selection = job.selection
      /\ job'.artifact = job.artifact /\ job'.disturbed = job.disturbed
      /\ job'.grown = (job.grown \/ job.phase = "read")
  BY <1>2 DEF JobInv, JobFields
<1> QED
  BY <1>1, <1>3 DEF JobInv, Calm

LEMMA PruneKeepsJob ==
    ASSUME RowInv, RowInv', JobInv, Prune
    PROVE  JobInv'
<1>1. PICK pruned, ids :
        /\ pruned \subseteq rows /\ \A row \in pruned : row.id \notin Frozen
        /\ ids = {row.id : row \in pruned}
        /\ rows' = (rows \ pruned) \cup {[row EXCEPT !.kept = FALSE] : row \in pruned}
        /\ Disturb(ids, {"read"})
  <2>1. PICK before :
          LET pruned == {row \in rows : /\ row.ts < before /\ row.kept
                                        /\ row.id \notin Frozen}
              ids == {row.id : row \in pruned}
          IN  /\ rows' = (rows \ pruned)
                            \cup {[row EXCEPT !.kept = FALSE] : row \in pruned}
              /\ Disturb(ids, {"read"})
    BY DEF Prune
  <2>2. PICK pruned : pruned = {row \in rows : /\ row.ts < before /\ row.kept
                                               /\ row.id \notin Frozen}
    OBVIOUS
  <2>3. pruned \subseteq rows /\ \A row \in pruned : row.id \notin Frozen
    BY <2>2
  <2> QED
    BY <2>1, <2>2, <2>3
<1>2. \A r \in rows' : \E s \in rows : SameCount(r, s)
  <2>1. ASSUME NEW s \in rows
        PROVE  SameCount(s, s) /\ SameCount(Forget(s), s)
    BY ForgetIs DEF SameCount, RowInv, RowOK
  <2> QED
    BY <1>1, <2>1 DEF Forget
<1>3. ASSUME job.phase \in {"read", "queued"}, ~job'.disturbed, NEW r \in job.sample
      PROVE  r \in rows'
  <2>1. r \in rows /\ ~job.disturbed
    BY <1>1, <1>3, DisturbIs DEF JobInv
  <2>2. r \notin pruned
    <3>1. CASE job.phase = "read"
      BY <1>1, <1>3, <3>1, DisturbIs DEF JobInv
    <3>2. CASE job.phase = "queued"
      BY <1>1, <3>2, FrozenHas
    <3> QED
      BY <1>3, <3>1, <3>2
  <2> QED
    BY <1>1, <2>1, <2>2
<1> QED
  BY <1>1, <1>2, <1>3, CommandKeepsJob

LEMMA EraseKeepsJob ==
    ASSUME RowInv, RowInv', JobInv, EraseTask
    PROVE  JobInv'
<1>1. PICK erased, ids :
        /\ ids = {row.id : row \in erased} /\ ids \cap Frozen = {}
        /\ rows' = rows \ erased
        /\ Disturb(ids, {"read"})
  BY DEF EraseTask
<1>2. \A r \in rows' : \E s \in rows : SameCount(r, s)
  BY <1>1 DEF SameCount
<1>3. ASSUME job.phase \in {"read", "queued"}, ~job'.disturbed, NEW r \in job.sample
      PROVE  r \in rows'
  <2>1. r \in rows /\ ~job.disturbed
    BY <1>1, <1>3, DisturbIs DEF JobInv
  <2>2. r \notin erased
    <3>1. CASE job.phase = "read"
      BY <1>1, <1>3, <3>1, DisturbIs DEF JobInv
    <3>2. CASE job.phase = "queued"
      BY <1>1, <3>2, FrozenHas
    <3> QED
      BY <1>3, <3>1, <3>2
  <2> QED
    BY <1>1, <2>1, <2>2
<1> QED
  BY <1>1, <1>2, <1>3, CommandKeepsJob

LEMMA ReenrichKeepsJob ==
    ASSUME RowInv, RowInv', JobInv, Reenrich, \A row \in rows : Enrichable(row)
    PROVE  JobInv'
<1>1. PICK ids :
        /\ ids = {row.id : row \in {r \in rows : Rewritten(r) # r}}
        /\ rows' = {Rewritten(row) : row \in rows}
        /\ Disturb(ids, {"read", "queued"})
  BY DEF Reenrich
<1>2. \A r \in rows' : \E s \in rows : SameCount(r, s)
  <2>1. ASSUME NEW s \in rows
        PROVE  SameCount(Rewritten(s), s)
    <3>1. DOMAIN s = RowFields /\ s.kept /\ s.is.task = s.in /\ s.is.run = s.sent.run
      BY DEF RowInv, RowOK, Enrichable, DerivedFrom
    <3>2. Derived(s.sent, s.in, s.kept) =
             [task |-> s.in, run |-> s.sent.run,
              role |-> [key |-> s.sent.role, by |-> code]]
      BY <3>1 DEF Derived
    <3>3. Rewritten(s).is = Derived(s.sent, s.in, s.kept)
      BY <3>1, RewrittenIs
    <3> QED
      BY <3>1, <3>2, <3>3, RewrittenIs DEF SameCount
  <2> QED
    BY <1>1, <2>1
<1>3. ASSUME job.phase \in {"read", "queued"}, ~job'.disturbed, NEW r \in job.sample
      PROVE  r \in rows'
  <2>1. r \in rows /\ ~job.disturbed
    BY <1>1, <1>3, DisturbIs DEF JobInv
  <2>2. r.id \notin ids
    BY <1>1, <1>3, DisturbIs DEF JobInv
  <2>3. Rewritten(r) = r
    BY <1>1, <2>1, <2>2
  <2> QED
    BY <1>1, <2>1, <2>3
<1> QED
  BY <1>1, <1>2, <1>3, CommandKeepsJob

LEMMA PrepareKeepsJob ==
    ASSUME RowInv, JobInv, PrepareSample
    PROVE  JobInv'
<1>1. PICK scope :
        job' = [NoJob EXCEPT !.phase = "read", !.scope = scope,
                             !.sample = DiscoveryInputs(scope)]
  BY DEF PrepareSample
<1>2. UNCHANGED <<supply, rows>>
  BY DEF PrepareSample, storeVars
<1>3. /\ DOMAIN job' = JobFields /\ job'.phase = "read" /\ job'.scope = scope
      /\ job'.sample = DiscoveryInputs(scope)
  BY <1>1 DEF NoJob, JobFields
<1>4. DiscoveryInputs(scope) \subseteq rows /\ Drawn(DiscoveryInputs(scope), scope)
  BY SampleIsDrawn
<1>5. PICK sample : sample = DiscoveryInputs(scope)
  OBVIOUS
<1>6. Drawn(sample, scope)'
  BY <1>2, <1>4, <1>5 DEF Drawn, Matching, Legacy, AllTasks, TaskRows, UnscopedIn,
     Unscoped, InScope, Has, Only
<1> QED
  BY <1>2, <1>3, <1>4, <1>5, <1>6 DEF JobInv

LEMMA QueueKeepsJob ==
    ASSUME RowInv, JobInv, QueueSample
    PROVE  JobInv'
<1>1. /\ job.phase = "read"
      /\ job' = [job EXCEPT !.phase = "queued",
                            !.selection = Diagnostics(job.sample, job.scope)]
      /\ rows' = rows
  BY DEF QueueSample, storeVars
<1>2. /\ DOMAIN job' = JobFields /\ job'.phase = "queued"
      /\ job'.sample = job.sample /\ job'.selection = Diagnostics(job.sample, job.scope)
      /\ job'.grown = job.grown /\ job'.disturbed = job.disturbed
  BY <1>1 DEF JobInv, JobFields
<1>3. Calm => AddsUp(Diagnostics(job.sample, job.scope))
  BY <1>1, DrawnAddsUp DEF JobInv, Calm
<1>4. Diagnostics(job.sample, job.scope).sample = Cardinality(job.sample)
  BY DEF Diagnostics
<1> QED
  BY <1>1, <1>2, <1>3, <1>4 DEF JobInv, Calm

\* A sample that is still in the store is read again as it was.
LEMMA RereadIs ==
    ASSUME RowInv, NEW sample, sample \subseteq rows
    PROVE  Reread(sample) = sample
BY DEF Reread, RowInv

\* Samples with the same bindings have the same report.
LEMMA ArtifactIs ==
    ASSUME NEW sample, Unchanged(sample), NEW selection
    PROVE  Artifact(Reread(sample), selection) = Artifact(sample, selection)
<1>1. ASSUME NEW a, NEW b, {Binding(r) : r \in a} = {Binding(r) : r \in b}
      PROVE  View(a) \subseteq View(b)
  <2>1. SUFFICES ASSUME NEW r \in a
                 PROVE  \E q \in b : Seen(q) = Seen(r)
    BY DEF View
  <2>2. PICK q \in b : Binding(q) = Binding(r)
    BY <1>1
  <2> QED
    BY <2>2 DEF Binding
<1>2. {Binding(r) : r \in Reread(sample)} = {Binding(r) : r \in sample}
  BY DEF Unchanged
<1>3. View(Reread(sample)) = View(sample)
  BY <1>1, <1>2
<1> QED
  BY <1>3 DEF Artifact

LEMMA RunKeepsJob ==
    ASSUME RowInv, JobInv, RunDiscovery
    PROVE  JobInv'
<1>1. job.phase = "queued" /\ DOMAIN job = JobFields
  BY DEF RunDiscovery, JobInv
<1>2. CASE Unchanged(job.sample)
  <2>1. job' = [job EXCEPT !.phase = "done",
                           !.artifact = Artifact(Reread(job.sample), job.selection)]
    BY <1>2 DEF RunDiscovery
  <2>2. /\ DOMAIN job' = JobFields /\ job'.phase = "done"
        /\ job'.artifact = Artifact(Reread(job.sample), job.selection)
        /\ job'.sample = job.sample /\ job'.selection = job.selection
        /\ job'.grown = job.grown /\ job'.disturbed = job.disturbed
    BY <1>1, <2>1 DEF JobFields
  <2> QED
    BY <1>1, <1>2, <2>2, ArtifactIs DEF JobInv, Calm
<1>3. CASE ~Unchanged(job.sample)
  <2>1. job' = [job EXCEPT !.phase = "failed"]
    BY <1>3 DEF RunDiscovery
  <2>2. DOMAIN job' = JobFields /\ job'.phase = "failed" /\ job'.disturbed = job.disturbed
    BY <1>1, <2>1 DEF JobFields
  <2>3. job.disturbed
    BY <1>1, <1>3, RereadIs DEF Unchanged, JobInv
  <2> QED
    BY <2>2, <2>3 DEF JobInv
<1> QED
  BY <1>2, <1>3

LEMMA OthersLeaveJob ==
    ASSUME [OfflineNext]_offlineVars
    PROVE  \/ Writes \/ PrepareSample \/ QueueSample \/ RunDiscovery
           \/ UNCHANGED <<rows, job>>
BY DEF OfflineNext, AnalysisNext, ReplayNext, offlineVars, analysisVars, storeVars,
       analysisOnly, Writes, Upgrade, InferEdges, ReplaceEdges, PickDataset,
       MakeDataset, MoveEntry, PrepareReplay, QueueReplay, RunAtOnce, RunReplayJob,
       Calibrate

LEMMA SteadyJob ==
    ASSUME JobInv, UNCHANGED <<rows, job>>
    PROVE  JobInv'
BY DEF JobInv, Calm, Drawn, Matching, Legacy, AllTasks, TaskRows, UnscopedIn,
       Unscoped, InScope, Has, Only

LEMMA JobStep ==
    ASSUME RowInv, RowInv', JobInv, [OfflineNext]_offlineVars
    PROVE  JobInv'
<1>1. CASE Record
  BY <1>1, RecordKeepsJob
<1>2. CASE Prune
  BY <1>2, PruneKeepsJob
<1>3. CASE EraseTask
  BY <1>3, EraseKeepsJob
<1>4. CASE Reenrich
  <2>1. CASE \A row \in rows : Enrichable(row)
    BY <1>4, <2>1, ReenrichKeepsJob
  <2>2. CASE ~\A row \in rows : Enrichable(row)
    BY <1>4, <2>2, SteadyJob DEF Reenrich
  <2> QED
    BY <2>1, <2>2
<1>5. CASE PrepareSample
  BY <1>5, PrepareKeepsJob
<1>6. CASE QueueSample
  BY <1>6, QueueKeepsJob
<1>7. CASE RunDiscovery
  BY <1>7, RunKeepsJob
<1>8. CASE UNCHANGED <<rows, job>>
  BY <1>8, SteadyJob
<1> QED
  BY <1>1, <1>2, <1>3, <1>4, <1>5, <1>6, <1>7, <1>8, OthersLeaveJob DEF Writes
-----------------------------------------------------------------------------
(* Datasets *)

LEMMA MakeKeepsManifest ==
    ASSUME RowInv, ManifestInv, MakeDataset
    PROVE  ManifestInv'
<1> DEFINE found == {row \in rows : row.id \in manifest.picked}
           clusters == {Cluster(row) : row \in found}
<1>1. CASE manifest' = NoManifest
  BY <1>1 DEF ManifestInv, NoManifest, ManifestFields
<1>2. CASE manifest' # NoManifest
  <2>1. PICK percent \in Percents, rank \in [clusters -> 1..Cardinality(clusters)] :
          manifest' = [manifest EXCEPT !.phase = "made",
              !.entries = {Entry(row, Train(clusters, rank, percent)) : row \in found},
              !.percent = percent, !.rank = rank,
              !.train = {[id |-> r.id, task |-> r.in] :
                 r \in {f \in found : Cluster(f) \in Train(clusters, rank, percent)}}]
    BY <1>2 DEF MakeDataset
  <2> DEFINE train == Train(clusters, rank, percent)
  <2>2. /\ DOMAIN manifest' = ManifestFields
        /\ manifest'.entries = {Entry(row, train) : row \in found}
        /\ manifest'.percent = percent /\ manifest'.rank = rank
        /\ manifest'.train = {[id |-> r.id, task |-> r.in] :
                                 r \in {f \in found : Cluster(f) \in train}}
    BY <2>1 DEF ManifestInv, ManifestFields
  <2> HIDE DEF train
  <2>3. \A row : /\ DOMAIN Entry(row, train) = EntryFields
                 /\ Entry(row, train).id = row.id
                 /\ Entry(row, train).cluster = Cluster(row)
    BY DEF Entry, EntryFields
  <2>4. {e.cluster : e \in manifest'.entries} = clusters
    BY <2>2, <2>3
  <2>5. ASSUME NEW t \in manifest'.train
        PROVE  \E e \in manifest'.entries :
                  e.id = t.id /\ e.cluster = ClusterOf(t) /\ e.cluster \in train
    <3>1. PICK f \in found : Cluster(f) \in train /\ t = [id |-> f.id, task |-> f.in]
      BY <2>2
    <3>2. f.is.task = f.in
      BY DEF RowInv, RowOK, DerivedFrom
    <3>3. ClusterOf(t) = Cluster(f)
      BY <3>1, <3>2 DEF ClusterOf, Cluster
    <3> QED
      BY <2>2, <2>3, <3>1, <3>3
  <2>6. \A e \in manifest'.entries : DOMAIN e = EntryFields
    BY <2>2, <2>3
  <2> QED
    BY <2>2, <2>4, <2>5, <2>6 DEF ManifestInv, Salted, train
<1> QED
  BY <1>1, <1>2

\* Moving an entry leaves its trace and its cluster.
LEMMA MoveKeepsManifest ==
    ASSUME ManifestInv, MoveEntry
    PROVE  ManifestInv'
<1>1. PICK entry \in manifest.entries :
        manifest' = [manifest EXCEPT !.phase = "edited",
            !.entries = (@ \ {entry}) \cup
               {[entry EXCEPT !.split =
                   IF @ = "train" THEN "evaluation" ELSE "train"]}]
  BY DEF MoveEntry
<1>2. Salted(manifest) /\ DOMAIN manifest = ManifestFields
  BY DEF MoveEntry, ManifestInv
<1>3. PICK moved : moved = [entry EXCEPT !.split =
                              IF @ = "train" THEN "evaluation" ELSE "train"]
  OBVIOUS
<1>4. /\ DOMAIN moved = EntryFields /\ moved.id = entry.id
      /\ moved.cluster = entry.cluster
  BY <1>2, <1>3 DEF Salted, EntryFields
<1>5. /\ DOMAIN manifest' = ManifestFields
      /\ manifest'.entries = (manifest.entries \ {entry}) \cup {moved}
      /\ manifest'.train = manifest.train
      /\ manifest'.rank = manifest.rank /\ manifest'.percent = manifest.percent
  BY <1>1, <1>2, <1>3 DEF ManifestFields
<1>6. PICK clusters : clusters = {e.cluster : e \in manifest.entries}
  OBVIOUS
<1>7. {e.cluster : e \in manifest'.entries} = clusters
  BY <1>4, <1>5, <1>6
<1>8. \A e \in manifest.entries : \E e2 \in manifest'.entries :
         e2.id = e.id /\ e2.cluster = e.cluster
  BY <1>4, <1>5
<1>9. \A e \in manifest'.entries : DOMAIN e = EntryFields
  BY <1>2, <1>4, <1>5 DEF Salted
<1>10. ASSUME NEW t \in manifest'.train
      PROVE  \E e \in manifest'.entries :
                /\ e.id = t.id /\ e.cluster = ClusterOf(t)
                /\ e.cluster \in Train(clusters, manifest'.rank, manifest'.percent)
  <2>1. PICK e \in manifest.entries :
          /\ e.id = t.id /\ e.cluster = ClusterOf(t)
          /\ e.cluster \in Train(clusters, manifest.rank, manifest.percent)
    BY <1>2, <1>5, <1>6 DEF Salted
  <2> QED
    BY <1>5, <1>8, <2>1
<1> QED
  BY <1>5, <1>7, <1>9, <1>10 DEF ManifestInv, Salted

LEMMA OthersLeaveManifest ==
    ASSUME [OfflineNext]_offlineVars
    PROVE  PickDataset \/ MakeDataset \/ MoveEntry \/ UNCHANGED manifest
BY DEF OfflineNext, ReplayNext, offlineVars, evaluationVars, PrepareReplay,
       QueueReplay, RunAtOnce, RunReplayJob, Calibrate

LEMMA ManifestStep ==
    ASSUME RowInv, ManifestInv, [OfflineNext]_offlineVars
    PROVE  ManifestInv'
<1>1. CASE PickDataset
  BY <1>1 DEF PickDataset, ManifestInv, NoManifest, ManifestFields
<1>2. CASE MakeDataset
  BY <1>2, MakeKeepsManifest
<1>3. CASE MoveEntry
  BY <1>3, MoveKeepsManifest
<1>4. CASE UNCHANGED manifest
  BY <1>4 DEF ManifestInv
<1> QED
  BY <1>1, <1>2, <1>3, <1>4, OthersLeaveManifest

-----------------------------------------------------------------------------
(* Replays *)

\* A verified dataset and what it is bound to keep the parts apart: were a
\* trace or a task on both sides, one cluster would be in both parts.
LEMMA PartsApart ==
    ASSUME RowInv, Salted(manifest), Verified(manifest),
           NEW row \in rows, NEW e \in HeldOutEntries(manifest), e.id = row.id,
           NEW t \in manifest.train
    PROVE  row.id # t.id /\ (row.in = NoTask \/ row.in # t.task)
<1> DEFINE train == Train({f.cluster : f \in manifest.entries},
                          manifest.rank, manifest.percent)
<1>1. e \in manifest.entries /\ e.split = "evaluation"
  BY DEF HeldOutEntries
<1>2. e.cluster \notin train
  BY <1>1 DEF Verified, Coherent
<1>3. PICK s \in manifest.entries :
        s.id = t.id /\ s.cluster = ClusterOf(t) /\ s.cluster \in train
  BY DEF Salted
<1> HIDE DEF train
<1>4. \A x \in manifest.entries : \E r \in rows : r.id = x.id /\ Cluster(r) = x.cluster
  BY DEF Verified, Bound
<1>5. Cluster(row) = e.cluster
  BY <1>1, <1>4 DEF RowInv
<1>6. row.id # t.id
  BY <1>2, <1>3, <1>4, <1>5 DEF RowInv
<1>7. ASSUME row.in # NoTask, row.in = t.task
      PROVE  FALSE
  <2>1. row.is.task = row.in
    BY DEF RowInv, RowOK, DerivedFrom
  <2>2. Cluster(row) = ClusterOf(t)
    BY <1>7, <2>1 DEF Cluster, ClusterOf
  <2> QED
    BY <1>2, <1>3, <1>5, <2>2
<1> QED
  BY <1>6, <1>7

LEMMA RowsAreKnown ==
    ASSUME RowInv, NEW sample, sample \subseteq rows
    PROVE  Known(sample)
BY DEF Known, RowInv, RowOK, SameCall

LEMMA PreparedIs ==
    ASSUME NEW useCase, NEW flow, NEW sample, NEW bound, NEW train,
           replay' = Prepared(useCase, flow, sample, bound, train)
    PROVE  /\ DOMAIN replay' = ReplayFields /\ replay'.phase = "prepared"
           /\ replay'.sample = sample /\ replay'.bound = bound
           /\ replay'.train = train
BY DEF Prepared, NoReplay, ReplayFields

LEMMA PrepareKeepsReplay ==
    ASSUME RowInv, ManifestInv, ReplayInv, PrepareReplay
    PROVE  ReplayInv'
<1>1. UNCHANGED <<rows, lastId>>
  BY DEF PrepareReplay, analysisOnly, storeVars
<1>2. ASSUME NEW sample, sample \subseteq rows
      PROVE  Known(sample)'
  BY <1>1, <1>2, RowsAreKnown DEF Known
<1>3. CASE \E useCase \in UseCases, flow \in Flows :
              replay' = Prepared(useCase, flow, Requests(useCase, flow), Null, {})
  <2>1. PICK useCase, flow :
          replay' = Prepared(useCase, flow, Requests(useCase, flow), Null, {})
    BY <1>3
  <2>2. Requests(useCase, flow) \subseteq rows
    BY DEF Requests, Usable
  <2>3. PICK sample : sample = Requests(useCase, flow)
    OBVIOUS
  <2> QED
    BY <1>2, <2>1, <2>2, <2>3, PreparedIs DEF ReplayInv, HeldOut
<1>4. CASE /\ manifest.phase \in {"made", "edited"} /\ Verified(manifest)
           /\ LET bound == HeldOutEntries(manifest)
                  sample == {row \in rows : row.id \in {e.id : e \in bound}}
              IN  replay' = Prepared(manifest.useCase, manifest.flow, sample,
                                     bound, manifest.train)
  <2>1. PICK bound, sample :
          /\ bound = HeldOutEntries(manifest)
          /\ sample = {row \in rows : row.id \in {e.id : e \in bound}}
          /\ replay' = Prepared(manifest.useCase, manifest.flow, sample,
                                bound, manifest.train)
    BY <1>4
  <2>2. /\ DOMAIN replay' = ReplayFields /\ replay'.phase = "prepared"
        /\ replay'.sample = sample /\ replay'.bound = bound
        /\ replay'.train = manifest.train
    BY <2>1, PreparedIs
  <2>3. Known(sample)'
    BY <1>2, <2>1
  <2>4. BoundTo(bound, sample)
    BY <1>4, <2>1 DEF BoundTo, Verified, Bound, HeldOutEntries
  <2>5. \A row \in sample : \A t \in manifest.train :
           row.id # t.id /\ (row.in = NoTask \/ row.in # t.task)
    BY <1>4, <2>1, PartsApart DEF ManifestInv
  <2> QED
    BY <2>2, <2>3, <2>4, <2>5 DEF ReplayInv, HeldOut
<1> QED
  BY <1>3, <1>4 DEF PrepareReplay

LEMMA QueueKeepsReplay ==
    ASSUME ReplayInv, QueueReplay
    PROVE  ReplayInv'
<1>1. /\ replay.phase = "prepared" /\ DOMAIN replay = ReplayFields
      /\ replay' = [replay EXCEPT !.phase = "queued", !.whole = Stored(replay.sample)]
      /\ UNCHANGED <<rows, lastId>>
  BY DEF QueueReplay, Stored, analysisOnly, storeVars, ReplayInv
<1>2. /\ DOMAIN replay' = ReplayFields /\ replay'.phase = "queued"
      /\ replay'.whole = Stored(replay.sample) /\ replay'.sample = replay.sample
      /\ replay'.bound = replay.bound /\ replay'.train = replay.train
  BY <1>1 DEF ReplayFields
<1>3. PICK sample : sample = replay.sample
  OBVIOUS
<1>4. Known(sample)'
  BY <1>1, <1>3 DEF ReplayInv, Known
<1>5. Stored(sample)' <=> Stored(sample)
  BY <1>1 DEF Stored
<1> QED
  BY <1>1, <1>2, <1>3, <1>4, <1>5 DEF ReplayInv, HeldOut

LEMMA RunIs ==
    ASSUME DOMAIN replay = ReplayFields, NEW sample, Run(sample)
    PROVE  /\ DOMAIN replay' = ReplayFields /\ replay'.phase = "done"
           /\ replay'.sample = sample /\ replay'.bound = replay.bound
           /\ replay'.train = replay.train
<1>1. \E judge, batch, replies, lower : Finished(sample, judge, batch, replies, lower)
  BY DEF Run
<1> QED
  BY <1>1 DEF Finished, ReplayFields

LEMMA RunAtOnceKeepsReplay ==
    ASSUME ReplayInv, RunAtOnce
    PROVE  ReplayInv'
<1>1. /\ DOMAIN replay' = ReplayFields /\ replay'.phase = "done"
      /\ replay'.sample = replay.sample /\ replay'.bound = replay.bound
      /\ replay'.train = replay.train
  BY RunIs DEF RunAtOnce, ReplayInv
<1>2. UNCHANGED <<rows, lastId>>
  BY DEF RunAtOnce, analysisOnly, storeVars
<1> QED
  BY <1>1, <1>2 DEF ReplayInv, HeldOut, Known

\* A job whose sample was whole when it was queued finds it again.
LEMMA WholeIsStillThere ==
    ASSUME RowInv, ReplayInv, replay.phase = "queued", replay.whole
    PROVE  StillThere
<1>1. Stored(replay.sample) /\ Known(replay.sample)
  BY DEF ReplayInv
<1>2. {row.id : row \in replay.sample} \subseteq {row.id : row \in {r \in rows : r.kept}}
  BY <1>1 DEF Stored
<1>3. ASSUME replay.bound # Null, NEW e \in replay.bound
      PROVE  \E row \in rows : /\ row.id = e.id /\ row.kept
                               /\ row.sent = e.content /\ Cluster(row) = e.cluster
  <2>1. PICK r \in replay.sample :
          r.id = e.id /\ r.sent = e.content /\ Cluster(r) = e.cluster
    BY <1>3 DEF ReplayInv, BoundTo
  <2>2. PICK row \in rows : row.id = r.id /\ row.kept
    BY <1>1 DEF Stored
  <2>3. SameCall(r, row) /\ DerivedFrom(r) /\ DerivedFrom(row)
    BY <1>1, <2>2 DEF Known, RowInv, RowOK
  <2>4. Cluster(row) = Cluster(r)
    BY <2>2, <2>3 DEF Cluster, SameCall, DerivedFrom
  <2> QED
    BY <2>1, <2>2, <2>3, <2>4 DEF SameCall
<1> QED
  BY <1>2, <1>3 DEF StillThere, Bound

LEMMA RunJobKeepsReplay ==
    ASSUME RowInv, ReplayInv, RunReplayJob
    PROVE  ReplayInv'
<1>1. /\ replay.phase = "queued" /\ DOMAIN replay = ReplayFields
      /\ UNCHANGED <<rows, lastId>>
  BY DEF RunReplayJob, analysisOnly, storeVars, ReplayInv
<1>2. CASE StillThere
  <2>1. PICK sample : sample = {row \in rows : row.id \in {r.id : r \in replay.sample}}
    OBVIOUS
  <2>2. Run(sample)
    BY <1>2, <2>1 DEF RunReplayJob
  <2>3. /\ DOMAIN replay' = ReplayFields /\ replay'.phase = "done"
        /\ replay'.sample = sample /\ replay'.bound = replay.bound
        /\ replay'.train = replay.train
    BY <1>1, <2>2, RunIs
  <2>4. Known(sample)'
    BY <1>1, <2>1, RowsAreKnown DEF Known
  <2>5. \A row \in sample : \E r \in replay.sample : row.id = r.id /\ row.in = r.in
    BY <2>1 DEF ReplayInv, Known, SameCall
  <2>6. replay.bound # Null =>
           \A row \in sample : \A t \in replay.train :
              row.id # t.id /\ (row.in = NoTask \/ row.in # t.task)
    BY <2>5 DEF ReplayInv, HeldOut
  <2> QED
    BY <2>3, <2>4, <2>6 DEF ReplayInv, HeldOut
<1>3. CASE ~StillThere
  <2>1. replay' = [replay EXCEPT !.phase = "failed"]
    BY <1>3 DEF RunReplayJob
  <2>2. /\ DOMAIN replay' = ReplayFields /\ replay'.phase = "failed"
        /\ replay'.sample = replay.sample /\ replay'.bound = replay.bound
        /\ replay'.train = replay.train /\ replay'.whole = replay.whole
    BY <1>1, <2>1 DEF ReplayFields
  <2>3. ~replay.whole
    BY <1>1, <1>3, WholeIsStillThere
  <2> QED
    BY <1>1, <2>2, <2>3 DEF ReplayInv, HeldOut, Known
<1> QED
  BY <1>2, <1>3

\* While the rows are written the replay waits, and its sample is spared.
LEMMA WritesKeepReplay ==
    ASSUME RowInv, Continues, ReplayInv, replay' = replay,
           replay.phase = "queued" =>
              \A r \in rows : r.kept /\ (\E s \in replay.sample : s.id = r.id) =>
                 \E q \in rows' : q.id = r.id /\ q.kept
    PROVE  ReplayInv'
<1>1. Known(replay.sample)'
  BY KnownStays DEF ReplayInv, Known
<1>2. replay.phase = "queued" /\ replay.whole => Stored(replay.sample)'
  BY DEF ReplayInv, Stored
<1> QED
  BY <1>1, <1>2 DEF ReplayInv, HeldOut
LEMMA OthersLeaveReplay ==
    ASSUME [OfflineNext]_offlineVars
    PROVE  \/ PrepareReplay \/ QueueReplay \/ RunAtOnce \/ RunReplayJob
           \/ replay' = replay /\ (Writes \/ UNCHANGED <<rows, lastId>>)
BY OthersLeaveRows DEF OfflineNext, AnalysisNext, ReplayNext, offlineVars, analysisVars,
   PickDataset, MakeDataset, MoveEntry, Calibrate

LEMMA WritesSpareReplay ==
    ASSUME RowInv, Writes, replay.phase = "queued", NEW r \in rows, r.kept,
           NEW s \in replay.sample, s.id = r.id
    PROVE  \E q \in rows' : q.id = r.id /\ q.kept
<1>1. r.id \in Frozen
  BY FrozenHas
<1>2. CASE Record
  BY <1>2, RecordKeepsRows
<1>3. CASE Prune
  <2>1. PICK before :
          LET pruned == {row \in rows : /\ row.ts < before /\ row.kept
                                        /\ row.id \notin Frozen}
          IN  rows' = (rows \ pruned)
                         \cup {[row EXCEPT !.kept = FALSE] : row \in pruned}
    BY <1>3 DEF Prune
  <2> QED
    BY <1>1, <2>1
<1>4. CASE EraseTask
  <2>1. PICK erased :
          {row.id : row \in erased} \cap Frozen = {} /\ rows' = rows \ erased
    BY <1>4 DEF EraseTask
  <2> QED
    BY <1>1, <2>1
<1>5. CASE Reenrich
  <2>1. CASE \A row \in rows : Enrichable(row)
    <3>1. Rewritten(r) \in rows'
      BY <1>5, <2>1 DEF Reenrich
    <3> QED
      BY <3>1, RewrittenIs DEF RowInv, RowOK
  <2>2. CASE ~\A row \in rows : Enrichable(row)
    BY <1>5, <2>2 DEF Reenrich
  <2> QED
    BY <2>1, <2>2
<1> QED
  BY <1>2, <1>3, <1>4, <1>5 DEF Writes

LEMMA ReplayStep ==
    ASSUME RowInv, ManifestInv, ReplayInv, [OfflineNext]_offlineVars
    PROVE  ReplayInv'
<1>1. CASE PrepareReplay
  BY <1>1, PrepareKeepsReplay
<1>2. CASE QueueReplay
  BY <1>2, QueueKeepsReplay
<1>3. CASE RunAtOnce
  BY <1>3, RunAtOnceKeepsReplay
<1>4. CASE RunReplayJob
  BY <1>4, RunJobKeepsReplay
<1>5. CASE replay' = replay /\ Writes
  BY <1>5, RowsStep, WritesSpareReplay, WritesKeepReplay
<1>6. CASE replay' = replay /\ UNCHANGED <<rows, lastId>>
  BY <1>6, RowsStep, WritesKeepReplay
<1> QED
  BY <1>1, <1>2, <1>3, <1>4, <1>5, <1>6, OthersLeaveReplay

-----------------------------------------------------------------------------
(* The theorems *)

LEMMA OfflineInitially ==
    ASSUME OfflineInit
    PROVE  OfflineInv
<1>1. RowInv
  BY FS_EmptySet DEF OfflineInit, AnalysisInit, RowInv
<1>2. EdgeInv
  BY DEF OfflineInit, AnalysisInit, EdgeInv, NoInference, InferenceFields
<1>3. JobInv
  BY DEF OfflineInit, AnalysisInit, JobInv, NoJob, JobFields
<1>4. ManifestInv
  BY DEF OfflineInit, ReplayInit, ManifestInv, NoManifest, ManifestFields
<1>5. ReplayInv
  BY DEF OfflineInit, ReplayInit, ReplayInv, NoReplay, ReplayFields, Known, HeldOut
<1> QED
  BY <1>1, <1>2, <1>3, <1>4, <1>5 DEF OfflineInv

LEMMA OfflineStep ==
    ASSUME OfflineInv, [OfflineNext]_offlineVars
    PROVE  OfflineInv'
<1>1. RowInv /\ EdgeInv /\ JobInv /\ ManifestInv /\ ReplayInv
  BY DEF OfflineInv
<1>2. RowInv'
  BY <1>1, RowsStep
<1>3. EdgeInv'
  BY <1>1, EdgesStep
<1>4. JobInv'
  BY <1>1, <1>2, JobStep
<1>5. ManifestInv'
  BY <1>1, ManifestStep
<1>6. ReplayInv'
  BY <1>1, ReplayStep
<1> QED
  BY <1>2, <1>3, <1>4, <1>5, <1>6 DEF OfflineInv

\* The inductive invariant of the store, the analyses of it and the replays:
\* an identifier names one call for ever, and each part that holds rows it
\* read earlier knows how they may differ from the store
\* (recorder/sqlite/maintenance.py, workflow/inference.py,
\* workflow/discovery_job, jobs/replay.py).
THEOREM OfflineInvariant == OfflineSpec => []OfflineInv
<1>1. OfflineInit => OfflineInv
  BY OfflineInitially
<1>2. OfflineInv /\ [OfflineNext]_offlineVars => OfflineInv'
  BY OfflineStep
<1> QED
  BY <1>1, <1>2, PTL DEF OfflineSpec

\* Whatever is recorded and whichever commands come in between, an inferred
\* edge stands on two payloads that are still in the store, unless retention
\* came while the inference was under way; and derived columns outlive their
\* payload (workflow/inference.py:116, recorder/sqlite/maintenance.py:52).
THEOREM RetentionExact == OfflineSpec => []RetentionIsExact
<1>1. OfflineInv => RetentionIsExact
  BY DEF OfflineInv, RowInv, RowOK, DerivedFrom, EdgeInv, StandsOn,
         RetentionIsExact, EdgesHaveEvidence
<1> QED
  BY <1>1, OfflineInvariant, PTL

\* A queued discovery job keeps the sample it read, reports the discovery in
\* exactly these traces, and fails only if something disturbed them; its
\* numbers add up unless the store changed between the two reads
\* (workflow/discovery_job/planning.py:25, handler.py:29).
THEOREM DiscoveryStands == OfflineSpec => []SampleStands
<1>1. OfflineInv => SampleStands
  BY DEF OfflineInv, JobInv, SampleStands, Calm, AddsUp, Artifact, Written
<1> QED
  BY <1>1, OfflineInvariant, PTL

\* However a manifest is edited and however the store shrinks, a replay on a
\* dataset judges no trace and no task of the training part, and a queued
\* replay that was whole does not fail
\* (eval/dataset_manifest.py:155, jobs/replay.py:95).
THEOREM ReplayHeldOut == OfflineSpec => []HeldOut
<1>1. OfflineInv => HeldOut
  BY DEF OfflineInv, ReplayInv
<1> QED
  BY <1>1, OfflineInvariant, PTL

-----------------------------------------------------------------------------
(* Sums of functions *)

\* A non-empty collection of subsets of a finite set has a least one.
LEMMA LeastSubset ==
    \A D : IsFiniteSet(D) => \A Bad \in SUBSET SUBSET D :
        Bad # {} => \E s \in Bad : \A t \in Bad : t \subseteq s => t = s
<1> SUFFICES ASSUME NEW D, IsFiniteSet(D), NEW Bad \in SUBSET SUBSET D, Bad # {}
             PROVE  \E s \in Bad : \A t \in Bad : t \subseteq s => t = s
  OBVIOUS
<1>1. FiniteSubsetsOf(D) = SUBSET D
  BY FS_FiniteSubsetsOfFinite
<1>2. IsWellFoundedOn(StrictSubsetOrdering(D), SUBSET D)
  BY <1>1, FS_StrictSubsetOrderingWellFounded
<1>3. \E s \in Bad : \A t \in Bad : ~(<<t, s>> \in StrictSubsetOrdering(D))
  BY <1>2, WFMin
<1> QED
  BY <1>3 DEF StrictSubsetOrdering

\* The sum of a function as the library computes it: over the subsets of its
\* domain, taking out one element after the other.
Pick(s) == CHOOSE x \in s : TRUE
SumsUp(f, D, g) ==
    g = [s \in SUBSET D |->
            IF s = {} THEN 0 ELSE f[Pick(s)] + g[s \ {Pick(s)}]]
SumBelow(f, s) == (CHOOSE g : SumsUp(f, s, g))[s]

Whole(f, D) == \A x \in D : f[x] \in Int

LEMMA SumIs == \A f : SumFunction(f) = SumBelow(f, DOMAIN f)
BY DEF SumFunction, SumFunctionOnSet, FoldFunctionOnSet, MapThenFoldSet,
       SumBelow, SumsUp, Pick

LEMMA PickIn == \A s : s # {} => Pick(s) \in s
BY DEF Pick

LEMMA SumStep ==
    ASSUME NEW f, NEW D, NEW g, SumsUp(f, D, g), NEW s \in SUBSET D
    PROVE  g[s] = IF s = {} THEN 0 ELSE f[Pick(s)] + g[s \ {Pick(s)}]
BY Zenon DEF SumsUp

\* Sums of the same numbers agree.
LEMMA SumsAgree ==
    ASSUME NEW D, IsFiniteSet(D), NEW f, NEW h, \A x \in D : f[x] = h[x],
           NEW A, NEW B, D \subseteq A, D \subseteq B,
           NEW g, SumsUp(f, A, g), NEW k, SumsUp(h, B, k)
    PROVE  g[D] = k[D]
<1> DEFINE Bad == {s \in SUBSET D : g[s] # k[s]}
<1>1. ASSUME Bad # {} PROVE FALSE
  <2>1. Bad \in SUBSET SUBSET D
    OBVIOUS
  <2>2. \E s \in Bad : \A t \in Bad : t \subseteq s => t = s
    <3> HIDE DEF Bad
    <3> QED
      BY <1>1, <2>1, LeastSubset
  <2>3. PICK s \in Bad : \A t \in Bad : t \subseteq s => t = s
    BY <2>2
  <2>4. s \in SUBSET A /\ s \in SUBSET B /\ s \in SUBSET D
    OBVIOUS
  <2>5. /\ g[s] = IF s = {} THEN 0 ELSE f[Pick(s)] + g[s \ {Pick(s)}]
        /\ k[s] = IF s = {} THEN 0 ELSE h[Pick(s)] + k[s \ {Pick(s)}]
    BY <2>4, SumStep
  <2>6. s # {} => /\ Pick(s) \in s
                  /\ g[s \ {Pick(s)}] = k[s \ {Pick(s)}]
    <3>1. s # {} => Pick(s) \in s
      BY PickIn
    <3> QED
      BY <2>3, <2>4, <3>1
  <2>7. s # {} => f[Pick(s)] = h[Pick(s)]
    BY <2>4, <2>6
  <2> QED
    BY <2>3, <2>5, <2>6, <2>7
<1> QED
  BY <1>1

\* Every finite set has sums.
LEMMA SumsExist ==
    ASSUME NEW f, NEW D, IsFiniteSet(D)
    PROVE  \E g : SumsUp(f, D, g)
<1> DEFINE Bad == {s \in SUBSET D : ~\E g : SumsUp(f, s, g)}
<1>1. ASSUME Bad # {} PROVE FALSE
  <2>1. Bad \in SUBSET SUBSET D
    OBVIOUS
  <2>2. \E s \in Bad : \A t \in Bad : t \subseteq s => t = s
    <3> HIDE DEF Bad
    <3> QED
      BY <1>1, <2>1, LeastSubset
  <2>3. PICK s \in Bad : \A t \in Bad : t \subseteq s => t = s
    BY <2>2
  <2> DEFINE k == [t \in SUBSET s |->
                     IF t = {} THEN 0
                     ELSE f[Pick(t)] + SumBelow(f, t \ {Pick(t)})]
  <2>4. ASSUME NEW t \in SUBSET s, t # s
        PROVE  SumsUp(f, t, CHOOSE g : SumsUp(f, t, g)) /\ IsFiniteSet(t)
    <3>1. \E g : SumsUp(f, t, g)
      BY <2>3, <2>4
    <3>2. IsFiniteSet(t)
      BY FS_Subset
    <3> QED
      BY <3>1, <3>2
  <2>5. ASSUME NEW t \in SUBSET s, t # s PROVE k[t] = SumBelow(f, t)
    <3> DEFINE g == CHOOSE h : SumsUp(f, t, h)
    <3>1. SumsUp(f, t, g)
      BY <2>4, <2>5
    <3>2. CASE t = {}
      <4>1. g[t] = 0
        BY <3>1, <3>2, SumStep
      <4> QED
        BY <3>2, <4>1 DEF SumBelow
    <3>3. CASE t # {}
      <4> DEFINE u == t \ {Pick(t)}
      <4>1. Pick(t) \in t
        BY <3>3, PickIn
      <4>2. u \in SUBSET s /\ u # s /\ u \subseteq t
        BY <4>1
      <4>3. /\ SumsUp(f, u, CHOOSE h : SumsUp(f, u, h))
            /\ IsFiniteSet(u)
        <5> HIDE DEF u
        <5> QED
          BY <2>4, <4>2
      <4>4. g[u] = SumBelow(f, u)
        <5> HIDE DEF u, g
        <5> QED
          BY <3>1, <4>2, <4>3, SumsAgree DEF SumBelow
      <4>5. g[t] = f[Pick(t)] + g[u]
        BY <3>1, <3>3, SumStep
      <4>6. k[t] = f[Pick(t)] + SumBelow(f, u)
        BY <3>3
      <4> QED
        BY <4>4, <4>5, <4>6 DEF SumBelow
    <3> QED
      BY <3>2, <3>3
  <2>6. ASSUME NEW t \in SUBSET s
        PROVE  k[t] = IF t = {} THEN 0 ELSE f[Pick(t)] + k[t \ {Pick(t)}]
    <3>1. CASE t = {}
      BY <3>1
    <3>2. CASE t # {}
      <4>1. Pick(t) \in t
        BY <3>2, PickIn
      <4>2. t \ {Pick(t)} \in SUBSET s /\ t \ {Pick(t)} # s
        BY <4>1
      <4>3. k[t \ {Pick(t)}] = SumBelow(f, t \ {Pick(t)})
        <5> HIDE DEF k
        <5> QED
          BY <2>5, <4>2
      <4> QED
        BY <3>2, <4>3
    <3> QED
      BY <3>1, <3>2
  <2>7. SumsUp(f, s, k)
    <3>1. k = [t \in SUBSET s |-> k[t]]
      OBVIOUS
    <3> HIDE DEF k
    <3> QED
      BY <2>6, <3>1, Zenon DEF SumsUp
  <2> QED
    BY <2>3, <2>7
<1>2. Bad = {}
  BY <1>1
<1>3. D \notin Bad
  <2> HIDE DEF Bad
  <2> QED
    BY <1>2
<1> QED
  BY <1>3

\* The sums below a finite set are integers, and every element may be taken out
\* first.
LEMMA SumsSplit ==
    ASSUME NEW D, IsFiniteSet(D), NEW f, Whole(f, D),
           NEW g, SumsUp(f, D, g)
    PROVE  g[D] \in Int /\ \A y \in D : g[D] = f[y] + g[D \ {y}]
<1> DEFINE Good(s) == g[s] \in Int /\ \A y \in s : g[s] = f[y] + g[s \ {y}]
<1> DEFINE Bad == {s \in SUBSET D : ~Good(s)}
<1>1. ASSUME Bad # {} PROVE FALSE
  <2>1. Bad \in SUBSET SUBSET D
    OBVIOUS
  <2>2. \E s \in Bad : \A t \in Bad : t \subseteq s => t = s
    <3> HIDE DEF Bad
    <3> QED
      BY <1>1, <2>1, LeastSubset
  <2>3. PICK s \in Bad : \A t \in Bad : t \subseteq s => t = s
    BY <2>2
  <2>4. \A t \in SUBSET s : t # s => Good(t)
    <3> HIDE DEF Good
    <3> QED
      BY <2>3
  <2>5. s \in SUBSET D
    OBVIOUS
  <2>6. CASE s = {}
    <3>1. g[s] = 0
      BY <2>5, <2>6, SumStep
    <3> QED
      BY <2>3, <2>6, <3>1
  <2>7. CASE s # {}
    <3> DEFINE x == Pick(s)
    <3>1. x \in s /\ f[x] \in Int
      BY <2>5, <2>7, PickIn DEF Whole
    <3>2. g[s] = f[x] + g[s \ {x}]
      <4>1. g[s] = IF s = {} THEN 0 ELSE f[Pick(s)] + g[s \ {Pick(s)}]
        BY <2>5, SumStep
      <4> QED
        BY <2>7, <4>1
    <3> HIDE DEF x
    <3>3. s \ {x} \in SUBSET s /\ s \ {x} # s
      BY <3>1
    <3>4. Good(s \ {x})
      <4> HIDE DEF Good
      <4> QED
        BY <2>4, <3>3
    <3>5. g[s] \in Int
      BY <3>1, <3>2, <3>4
    <3>6. ASSUME NEW y \in s, y # x PROVE g[s] = f[y] + g[s \ {y}]
      <4>1. g[s \ {x}] = f[y] + g[(s \ {x}) \ {y}]
        BY <3>4, <3>6
      <4>2. s \ {y} \in SUBSET s /\ s \ {y} # s
        OBVIOUS
      <4>3. Good(s \ {y})
        <5> HIDE DEF Good
        <5> QED
          BY <2>4, <4>2
      <4>4. g[s \ {y}] = f[x] + g[(s \ {y}) \ {x}]
        BY <3>1, <3>6, <4>3
      <4>5. (s \ {x}) \ {y} = (s \ {y}) \ {x}
        OBVIOUS
      <4>6. (s \ {x}) \ {y} \in SUBSET s /\ (s \ {x}) \ {y} # s
        OBVIOUS
      <4>7. Good((s \ {x}) \ {y})
        <5> HIDE DEF Good
        <5> QED
          BY <2>4, <4>6
      <4>8. g[(s \ {x}) \ {y}] \in Int /\ f[y] \in Int
        BY <2>5, <4>7 DEF Whole
      <4> DEFINE r == g[(s \ {x}) \ {y}]
      <4>9. r \in Int /\ g[s \ {x}] = f[y] + r /\ g[s \ {y}] = f[x] + r
        BY <4>1, <4>4, <4>5, <4>8
      <4> HIDE DEF r
      <4> QED
        BY <3>1, <3>2, <4>8, <4>9
    <3>7. Good(s)
      BY <3>2, <3>5, <3>6
    <3> QED
      BY <2>3, <3>7
  <2> QED
    BY <2>6, <2>7
<1>2. Bad = {}
  BY <1>1
<1>3. Good(D)
  <2> HIDE DEF Good
  <2>1. D \in SUBSET D
    OBVIOUS
  <2> QED
    BY <1>2, <2>1
<1> QED
  BY <1>3

LEMMA SumBelowIs ==
    ASSUME NEW D, IsFiniteSet(D), NEW f, NEW g, SumsUp(f, D, g), NEW s \in SUBSET D
    PROVE  SumBelow(f, s) = g[s]
<1>1. IsFiniteSet(s)
  BY FS_Subset
<1>2. SumsUp(f, s, CHOOSE h : SumsUp(f, s, h))
  BY <1>1, SumsExist
<1> QED
  BY <1>1, <1>2, SumsAgree DEF SumBelow

\* The laws of sums.
LEMMA SumOfNothing == ASSUME NEW f, DOMAIN f = {} PROVE SumFunction(f) = 0
<1>1. IsFiniteSet({})
  BY FS_EmptySet
<1>2. PICK g : SumsUp(f, {}, g)
  BY <1>1, SumsExist
<1>3. SumBelow(f, {}) = g[{}]
  <2>1. {} \in SUBSET {}
    OBVIOUS
  <2> QED
    BY <1>1, <1>2, <2>1, SumBelowIs
<1>4. g[{}] = 0
  <2>1. {} \in SUBSET {}
    OBVIOUS
  <2>2. g[{}] = IF {} = {} THEN 0 ELSE f[Pick({})] + g[{} \ {Pick({})}]
    BY <1>2, <2>1, SumStep
  <2> QED
    BY <2>2
<1> QED
  BY <1>3, <1>4, SumIs

LEMMA SumTakesOut ==
    ASSUME NEW f, NEW D, D = DOMAIN f, IsFiniteSet(D), Whole(f, D)
    PROVE  /\ SumFunction(f) \in Int
           /\ \A y \in D :
                 SumFunction(f) = f[y] + SumFunction([x \in D \ {y} |-> f[x]])
<1>1. PICK g : SumsUp(f, D, g)
  BY SumsExist
<1>2. SumFunction(f) = g[D]
  BY <1>1, SumBelowIs, SumIs
<1>3. g[D] \in Int /\ \A y \in D : g[D] = f[y] + g[D \ {y}]
  BY <1>1, SumsSplit
<1>4. ASSUME NEW y \in D
      PROVE  SumFunction([x \in D \ {y} |-> f[x]]) = g[D \ {y}]
  <2> DEFINE E == D \ {y}
  <2> DEFINE h == [x \in E |-> f[x]]
  <2>1. IsFiniteSet(E) /\ DOMAIN h = E /\ E \subseteq D
    BY FS_RemoveElement
  <2>2. \A x \in E : h[x] = f[x]
    OBVIOUS
  <2> HIDE DEF h, E
  <2>3. PICK k : SumsUp(h, E, k)
    BY <2>1, SumsExist
  <2>4. SumFunction(h) = k[E]
    BY <2>1, <2>3, SumBelowIs, SumIs
  <2>5. k[E] = g[E]
    BY <1>1, <2>1, <2>2, <2>3, SumsAgree
  <2> QED
    BY <2>4, <2>5 DEF h, E
<1> QED
  BY <1>2, <1>3, <1>4

\* The sum of f over D.
SumOn(f, D) == SumFunction(Restrict(f, D))

LEMMA SumOnIs ==
    ASSUME NEW f, NEW D, IsFiniteSet(D), Whole(f, D)
    PROVE  /\ SumOn(f, D) \in Int
           /\ \A y \in D : SumOn(f, D) = f[y] + SumOn(f, D \ {y})
<1> DEFINE h == Restrict(f, D)
<1>1. DOMAIN h = D /\ \A x \in D : h[x] = f[x]
  BY DEF Restrict
<1>2. Whole(h, D)
  BY <1>1 DEF Whole
<1>3. ASSUME NEW y \in D
      PROVE  [x \in D \ {y} |-> h[x]] = Restrict(f, D \ {y})
  BY <1>1 DEF Restrict
<1> HIDE DEF h
<1>4. /\ SumFunction(h) \in Int
      /\ \A y \in D : SumFunction(h) = h[y] + SumFunction([x \in D \ {y} |-> h[x]])
  BY <1>1, <1>2, SumTakesOut
<1> QED
  BY <1>1, <1>3, <1>4 DEF SumOn, h

LEMMA SumOnNothing == \A f : SumOn(f, {}) = 0
<1> TAKE f
<1>1. DOMAIN Restrict(f, {}) = {}
  BY DEF Restrict
<1> QED
  BY <1>1, SumOfNothing DEF SumOn

\* A linear combination of functions has that of their sums.
LEMMA SumLinear ==
    ASSUME NEW D, IsFiniteSet(D), NEW f, Whole(f, D), NEW g, Whole(g, D), NEW h,
           NEW a \in Int, NEW b \in Int, NEW c \in Int,
           \A x \in D : h[x] = a * f[x] + b * g[x] + c
    PROVE  SumOn(h, D) = a * SumOn(f, D) + b * SumOn(g, D) + c * Cardinality(D)
<1> DEFINE Good(s) ==
        SumOn(h, s) = a * SumOn(f, s) + b * SumOn(g, s) + c * Cardinality(s)
<1> DEFINE Bad == {s \in SUBSET D : ~Good(s)}
<1>1. ASSUME Bad # {} PROVE FALSE
  <2>1. Bad \in SUBSET SUBSET D
    OBVIOUS
  <2>2. \E s \in Bad : \A t \in Bad : t \subseteq s => t = s
    <3> HIDE DEF Bad
    <3> QED
      BY <1>1, <2>1, LeastSubset
  <2>3. PICK s \in Bad : \A t \in Bad : t \subseteq s => t = s
    BY <2>2
  <2>4. \A t \in SUBSET s : t # s => Good(t)
    <3> HIDE DEF Good
    <3> QED
      BY <2>3
  <2>5. s \in SUBSET D /\ IsFiniteSet(s)
    BY FS_Subset
  <2>6. Whole(f, s) /\ Whole(g, s) /\ Whole(h, s)
    BY <2>5 DEF Whole
  <2>7. CASE s = {}
    <3>1. SumOn(h, s) = 0 /\ SumOn(f, s) = 0 /\ SumOn(g, s) = 0
      BY <2>7, SumOnNothing
    <3>2. Cardinality(s) = 0
      BY <2>7, FS_EmptySet
    <3> QED
      BY <2>3, <3>1, <3>2
  <2>8. CASE s # {}
    <3>1. PICK y \in s : TRUE
      BY <2>8
    <3> DEFINE t == s \ {y}
    <3>2. /\ SumOn(h, s) = h[y] + SumOn(h, t)
          /\ SumOn(f, s) = f[y] + SumOn(f, t)
          /\ SumOn(g, s) = g[y] + SumOn(g, t)
      BY <2>5, <2>6, SumOnIs
    <3>3. t \in SUBSET s /\ t # s
      OBVIOUS
    <3>4. IsFiniteSet(t) /\ Whole(f, t) /\ Whole(g, t)
      BY <2>5, <2>6, FS_RemoveElement DEF Whole
    <3>5. Cardinality(t) \in Nat /\ Cardinality(s) = Cardinality(t) + 1
      <4>1. Cardinality(t) \in Nat
        BY <3>4, FS_CardinalityType
      <4>2. Cardinality(t) = Cardinality(s) - 1 /\ Cardinality(s) \in Nat
        BY <2>5, FS_RemoveElement, FS_CardinalityType
      <4> HIDE DEF t
      <4> QED
        BY <4>1, <4>2
    <3>6. Good(t)
      <4> HIDE DEF Good, t
      <4> QED
        BY <2>4, <3>3
    <3> HIDE DEF t
    <3>7. SumOn(f, t) \in Int /\ SumOn(g, t) \in Int
      BY <3>4, SumOnIs
    <3>8. f[y] \in Int /\ g[y] \in Int /\ h[y] = a * f[y] + b * g[y] + c
      BY <2>5 DEF Whole
    <3>9. \A p, q, u, v, n \in Int :
              (a * p + b * q + c) + (a * u + b * v + c * n)
                = a * (p + u) + b * (q + v) + c * (n + 1)
      OBVIOUS
    <3>10. Good(s)
      BY <3>2, <3>5, <3>6, <3>7, <3>8, <3>9
    <3> QED
      BY <2>3, <3>10
  <2> QED
    BY <2>7, <2>8
<1>2. Good(D)
  <2> HIDE DEF Good
  <2>1. D \in SUBSET D
    OBVIOUS
  <2> QED
    BY <1>1, <2>1
<1> QED
  BY <1>2

\* A sum of numbers none of which is negative is not, and no less than any of
\* them.
LEMMA SumNotNegative ==
    ASSUME NEW D, IsFiniteSet(D), NEW f, \A x \in D : f[x] \in Nat
    PROVE  SumOn(f, D) \in Nat /\ \A y \in D : f[y] <= SumOn(f, D)
<1> DEFINE Bad == {s \in SUBSET D : SumOn(f, s) \notin Nat}
<1>1. ASSUME Bad # {} PROVE FALSE
  <2>1. Bad \in SUBSET SUBSET D
    OBVIOUS
  <2>2. \E s \in Bad : \A t \in Bad : t \subseteq s => t = s
    <3> HIDE DEF Bad
    <3> QED
      BY <1>1, <2>1, LeastSubset
  <2>3. PICK s \in Bad : \A t \in Bad : t \subseteq s => t = s
    BY <2>2
  <2>4. s \in SUBSET D /\ IsFiniteSet(s)
    BY FS_Subset
  <2>5. Whole(f, s)
    BY <2>4 DEF Whole
  <2>6. s # {}
    <3>1. SumOn(f, {}) \in Nat
      BY SumOnNothing
    <3>2. SumOn(f, s) \notin Nat
      OBVIOUS
    <3> QED
      BY <3>1, <3>2
  <2>7. PICK y \in s : TRUE
    BY <2>6
  <2>8. SumOn(f, s) = f[y] + SumOn(f, s \ {y})
    BY <2>4, <2>5, SumOnIs
  <2>9. SumOn(f, s \ {y}) \in Nat
    BY <2>3, <2>4
  <2> QED
    BY <2>3, <2>4, <2>8, <2>9
<1>2. \A s \in SUBSET D : SumOn(f, s) \in Nat
  BY <1>1
<1>3. Whole(f, D)
  BY DEF Whole
<1>4. \A y \in D : SumOn(f, D) = f[y] + SumOn(f, D \ {y})
  BY <1>3, SumOnIs
<1>5. \A y \in D : SumOn(f, D \ {y}) \in Nat
  BY <1>2
<1>6. SumOn(f, D) \in Nat
  BY <1>2
<1>7. ASSUME NEW y \in D PROVE f[y] <= SumOn(f, D)
  <2>1. /\ SumOn(f, D) = f[y] + SumOn(f, D \ {y})
        /\ SumOn(f, D \ {y}) \in Nat /\ f[y] \in Nat
    BY <1>4, <1>5
  <2> QED
    BY ONLY <2>1, <1>6
<1> QED
  BY <1>6, <1>7

-----------------------------------------------------------------------------
(* Scores, and the line through them *)

Judge == [scale: Int, first: Int, style: Int]

LEMMA Halves ==
    /\ \A l \in Nat : (2 * l + 1) % 2 = 1 /\ (2 * l) % 2 = 0
    /\ \A n \in Nat : n % 2 = 0 => \E m \in Nat : n = 2 * m
<1>1. \A l \in Nat : (2 * l + 1) % 2 = 1 /\ (2 * l) % 2 = 0
  OBVIOUS
<1>2. ASSUME NEW n \in Nat, n % 2 = 0
      PROVE  n = 2 * (n \div 2) /\ n \div 2 \in Nat
  BY <1>2
<1> QED
  BY <1>1, <1>2

\* What the judge adds for the place of a response cancels out over an even
\* number of prompts.
LEMMA PlacesCancel ==
    ASSUME NEW a \in Int, NEW place,
           \A i \in Nat : place[i] = IF i % 2 = 1 THEN a ELSE -a
    PROVE  \A m \in Nat : SumOn(place, 0..2 * m - 1) = 0
<1> DEFINE Bad == {m \in Nat : SumOn(place, 0..2 * m - 1) # 0}
<1>1. ASSUME Bad # {} PROVE FALSE
  <2>1. PICK m \in Bad : \A l \in Bad : ~(<<l, m>> \in OpToRel(<, Nat))
    BY <1>1, NatLessThanWellFounded, WFMin
  <2>2. /\ m \in Nat /\ SumOn(place, 0..2 * m - 1) # 0
        /\ \A l \in Nat : l < m => SumOn(place, 0..2 * l - 1) = 0
    BY <2>1 DEF OpToRel
  <2>3. m # 0
    <3>1. SumOn(place, 0..2 * 0 - 1) = 0
      <4>1. 0..2 * 0 - 1 = {}
        OBVIOUS
      <4> QED
        BY <4>1, SumOnNothing
    <3> QED
      BY <2>1, <3>1
  <2>4. PICK l \in Nat : m = l + 1
    BY <2>2, <2>3
  <2>5. SumOn(place, 0..2 * l - 1) = 0
    BY <2>2, <2>4
  <2>6. \A i \in Nat : Whole(place, 0..i)
    BY DEF Whole
  <2>7. SumOn(place, 0..2 * l + 1) = place[2 * l + 1] + SumOn(place, 0..2 * l)
    <3>1. IsFiniteSet(0..2 * l + 1)
      BY FS_Interval
    <3>2. (0..2 * l + 1) \ {2 * l + 1} = 0..2 * l /\ 2 * l + 1 \in 0..2 * l + 1
      OBVIOUS
    <3>3. Whole(place, 0..2 * l + 1)
      BY <2>6
    <3>4. SumOn(place, 0..2 * l + 1) =
             place[2 * l + 1] + SumOn(place, (0..2 * l + 1) \ {2 * l + 1})
      BY ONLY <3>1, <3>2, <3>3, SumOnIs
    <3> QED
      BY ONLY <3>2, <3>4
  <2>8. SumOn(place, 0..2 * l) = place[2 * l] + SumOn(place, 0..2 * l - 1)
    <3>1. IsFiniteSet(0..2 * l)
      BY FS_Interval
    <3>2. (0..2 * l) \ {2 * l} = 0..2 * l - 1 /\ 2 * l \in 0..2 * l
      OBVIOUS
    <3>3. Whole(place, 0..2 * l)
      BY <2>6
    <3>4. SumOn(place, 0..2 * l) = place[2 * l] + SumOn(place, (0..2 * l) \ {2 * l})
      BY ONLY <3>1, <3>2, <3>3, SumOnIs
    <3> QED
      BY ONLY <3>2, <3>4
  <2>9. place[2 * l + 1] = a /\ place[2 * l] = -a
    <3>1. (2 * l + 1) % 2 = 1 /\ (2 * l) % 2 = 0
      BY Halves
    <3>2. 2 * l + 1 \in Nat /\ 2 * l \in Nat
      OBVIOUS
    <3>3. (2 * l) % 2 # 1
      BY ONLY <3>1
    <3> QED
      BY <3>1, <3>2, <3>3, Zenon
  <2>10. SumOn(place, 0..2 * l + 1) = 0
    BY ONLY a \in Int, <2>5, <2>7, <2>8, <2>9
  <2>11. 2 * m - 1 = 2 * l + 1
    BY <2>4
  <2> QED
    BY ONLY <2>2, <2>10, <2>11
<1> QED
  BY <1>1

\* Both arms are shown first equally often, so a pair differs by the gap of
\* its qualities, to the scale of the judge, and by the style.
LEMMA DiffIs ==
    ASSUME NEW judge \in Judge, NEW pair, pair.baseline \in Int, pair.candidate \in Int
    PROVE  Diff(judge, pair) =
              Replicates * (judge.scale * (pair.candidate - pair.baseline) + judge.style)
<1> PICK a \in Int : a = judge.first
  BY DEF Judge
<1> PICK c \in Int :
       c = judge.scale * (pair.candidate - pair.baseline) + judge.style
  BY DEF Judge
<1> PICK place : place = [i \in Nat |-> IF i % 2 = 1 THEN a ELSE -a]
  OBVIOUS
<1> PICK gain : gain = [i \in Prompts |->
                    Scores(judge, pair, i).candidate - Scores(judge, pair, i).baseline]
  OBVIOUS
<1>1. Replicates \in Nat \ {0} /\ Replicates % 2 = 0
  BY JudgingAssumption
<1>2. PICK m \in Nat : Replicates = 2 * m
  BY <1>1, Halves
<1>3. Prompts = 0..2 * m - 1 /\ Prompts \subseteq Nat
  BY <1>2 DEF Prompts
<1>4. IsFiniteSet(Prompts) /\ Cardinality(Prompts) = Replicates
  BY <1>2, <1>3, FS_Interval
<1>5. ASSUME NEW i \in Prompts
      PROVE  gain[i] = 1 * place[i] + 0 * place[i] + c
  <2>1. i \in Nat
    BY <1>3
  <2>2. PICK p \in Int, q \in Int :
          p = judge.scale * pair.candidate /\ q = judge.scale * pair.baseline
    BY DEF Judge
  <2>3. c = p - q + judge.style /\ judge.style \in Int
    BY <2>2 DEF Judge
  <2>4. /\ Scores(judge, pair, i).candidate =
              4 + p + (IF i % 2 = 1 THEN a ELSE 0) + judge.style
        /\ Scores(judge, pair, i).baseline =
              4 + q + (IF i % 2 = 1 THEN 0 ELSE a) + 0
    BY <2>2 DEF Scores, Score, CandidateFirst
  <2>5. /\ gain[i] = Scores(judge, pair, i).candidate - Scores(judge, pair, i).baseline
        /\ place[i] = IF i % 2 = 1 THEN a ELSE -a
    BY <2>1
  <2>6. CASE i % 2 = 1
    BY <2>3, <2>4, <2>5, <2>6
  <2>7. CASE i % 2 # 1
    BY <2>3, <2>4, <2>5, <2>7
  <2> QED
    BY <2>6, <2>7
<1>6. Whole(place, Prompts)
  BY <1>3 DEF Whole
<1>7. SumOn(gain, Prompts) =
         1 * SumOn(place, Prompts) + 0 * SumOn(place, Prompts) + c * Cardinality(Prompts)
  <2>1. 1 \in Int /\ 0 \in Int /\ c \in Int
    OBVIOUS
  <2> QED
    BY ONLY <1>4, <1>5, <1>6, <2>1, SumLinear
<1>8. SumOn(place, Prompts) = 0
  <2>1. \A i \in Nat : place[i] = IF i % 2 = 1 THEN a ELSE -a
    OBVIOUS
  <2> QED
    BY <1>3, <2>1, PlacesCancel
<1>9. SumOn(gain, Prompts) = c * Replicates
  BY <1>1, <1>4, <1>7, <1>8
<1>10. Diff(judge, pair) = SumOn(gain, Prompts)
  <2>1. Restrict(gain, Prompts) = gain
    BY DEF Restrict
  <2> QED
    BY <2>1 DEF Diff, SumOn
<1>11. c * Replicates = Replicates * c
  BY <1>1
<1> QED
  BY <1>9, <1>10, <1>11

LEMMA SumIsOn ==
    ASSUME NEW D, NEW f, f = [i \in D |-> f[i]]
    PROVE  SumFunction(f) = SumOn(f, D)
<1>1. Restrict(f, D) = f
  BY DEF Restrict
<1> QED
  BY <1>1 DEF SumOn

\* The sums of the points x[i], y[i], all on the line y = a x + b.
OnLine(D, x, y, a, b) ==
    /\ IsFiniteSet(D)
    /\ x = [i \in D |-> x[i]] /\ Whole(x, D)
    /\ y = [i \in D |-> y[i]] /\ \A i \in D : y[i] = a * x[i] + b

LEMMA SumsOnLine ==
    ASSUME NEW D, NEW x, NEW y, NEW a \in Int, NEW b \in Int, OnLine(D, x, y, a, b),
           NEW s, s = Sums(x, y)
    PROVE  /\ s.n = Cardinality(D) /\ s.n \in Nat
           /\ s.x = SumOn(x, D) /\ s.x \in Int
           /\ s.xx = SumOn(Products(x, x), D) /\ s.xx \in Int
           /\ s.y = a * s.x + b * s.n
           /\ s.xy = a * s.xx + b * s.x
<1> PICK xx : xx = Products(x, x)
  OBVIOUS
<1> PICK xy : xy = Products(x, y)
  OBVIOUS
<1>1. IsFiniteSet(D) /\ DOMAIN x = D /\ Whole(x, D) /\ 0 \in Int
  BY DEF OnLine
<1>2. /\ xx = [i \in D |-> xx[i]] /\ xy = [i \in D |-> xy[i]]
      /\ \A i \in D : xx[i] = x[i] * x[i] /\ xy[i] = x[i] * y[i]
  BY <1>1 DEF Products
<1>3. /\ s.n = Cardinality(D) /\ s.x = SumFunction(x) /\ s.y = SumFunction(y)
      /\ s.xx = SumFunction(xx) /\ s.xy = SumFunction(xy)
  BY <1>1 DEF Sums
<1>4. /\ s.x = SumOn(x, D) /\ s.y = SumOn(y, D)
      /\ s.xx = SumOn(xx, D) /\ s.xy = SumOn(xy, D)
  BY <1>2, <1>3, SumIsOn DEF OnLine
<1>5. Whole(xx, D)
  <2>1. ASSUME NEW i \in D PROVE x[i] * x[i] \in Int
    BY <1>1 DEF Whole
  <2> QED
    BY <1>2, <2>1 DEF Whole
<1>6. s.x \in Int /\ s.xx \in Int /\ s.n \in Nat
  BY <1>1, <1>3, <1>4, <1>5, SumOnIs, FS_CardinalityType
<1>7. s.y = a * s.x + b * s.n
  <2>1. ASSUME NEW i \in D PROVE y[i] = a * x[i] + 0 * x[i] + b
    <3>1. y[i] = a * x[i] + b /\ a * x[i] \in Int /\ 0 * x[i] = 0
      BY <1>1 DEF OnLine, Whole
    <3> QED
      BY <3>1
  <2>2. SumOn(y, D) = a * SumOn(x, D) + 0 * SumOn(x, D) + b * Cardinality(D)
    BY ONLY <1>1, <2>1, a \in Int, b \in Int, SumLinear
  <2>3. a * s.x \in Int /\ b * s.n \in Int /\ 0 * s.x = 0
    BY <1>6
  <2> QED
    BY <1>3, <1>4, <2>2, <2>3
<1>8. s.xy = a * s.xx + b * s.x
  <2>1. ASSUME NEW i \in D PROVE xy[i] = a * xx[i] + b * x[i] + 0
    <3>1. PICK z \in Int : z = x[i]
      BY <1>1 DEF Whole
    <3>2. xy[i] = z * (a * z + b)
      BY <1>2, <3>1 DEF OnLine
    <3>3. xx[i] = z * z
      BY <1>2, <3>1
    <3>4. z * (a * z + b) = a * (z * z) + b * z + 0
      OBVIOUS
    <3> QED
      BY <3>1, <3>2, <3>3, <3>4
  <2>2. SumOn(xy, D) = a * SumOn(xx, D) + b * SumOn(x, D) + 0 * Cardinality(D)
    BY ONLY <1>1, <1>5, <2>1, a \in Int, b \in Int, SumLinear
  <2>3. a * s.xx \in Int /\ b * s.x \in Int /\ 0 * s.n = 0
    BY <1>6
  <2> QED
    BY <1>3, <1>4, <2>2, <2>3
<1> QED
  BY <1>3, <1>4, <1>6, <1>7, <1>8

\* Of numbers that are not all alike the variance is positive.
LEMMA VariancePositive ==
    ASSUME NEW D, IsFiniteSet(D), NEW x, Whole(x, D), NEW j \in D, NEW k \in D, x[j] # x[k],
           NEW s, s.n = Cardinality(D), s.x = SumOn(x, D),
           NEW xx, s.xx = SumOn(xx, D), \A i \in D : xx[i] = x[i] * x[i]
    PROVE  s.n >= 2 /\ Variance(s) \in Int /\ Variance(s) > 0
<1>1. s.n \in Nat /\ s.n >= 2
  <2>1. Cardinality({j, k}) = 2
    <3>1. IsFiniteSet({j}) /\ Cardinality({j}) = 1
      BY FS_Singleton
    <3>2. k \notin {j} /\ {j} \cup {k} = {j, k}
      OBVIOUS
    <3>3. Cardinality({j} \cup {k}) = 1 + 1
      BY <3>1, <3>2, FS_AddElement
    <3> QED
      BY <3>2, <3>3
  <2>2. {j, k} \subseteq D
    OBVIOUS
  <2>3. Cardinality({j, k}) <= Cardinality(D)
    BY <2>2, FS_Subset
  <2> QED
    BY <2>1, <2>3, FS_CardinalityType
<1>2. \A i \in D : x[i] \in Int /\ xx[i] \in Int
  <2>1. ASSUME NEW i \in D PROVE x[i] * x[i] \in Int /\ x[i] \in Int
    BY DEF Whole
  <2> QED
    BY <2>1
<1>3. Whole(xx, D)
  BY <1>2 DEF Whole
<1>4. s.x \in Int /\ s.xx \in Int
  BY <1>3, SumOnIs
<1> PICK n \in Nat : n = s.n
  BY <1>1
<1> PICK X \in Int : X = s.x
  BY <1>4
<1> PICK XX \in Int : XX = s.xx
  BY <1>4
<1> PICK d : d = [i \in D |-> (n * x[i] - X) * (n * x[i] - X)]
  OBVIOUS
<1>5. PICK p \in Int, q \in Int, r \in Int : p = n * n /\ q = -2 * n * X /\ r = X * X
  OBVIOUS
<1>6. SumOn(d, D) = p * XX + q * X + r * n
  <2>1. ASSUME NEW i \in D PROVE d[i] = p * xx[i] + q * x[i] + r
    <3>1. PICK z \in Int : z = x[i]
      BY <1>2
    <3>2. d[i] = (n * z - X) * (n * z - X) /\ xx[i] = z * z
      BY <3>1
    <3>3. (n * z - X) * (n * z - X) = (n * n) * (z * z) + (-2 * n * X) * z + X * X
      OBVIOUS
    <3> QED
      BY <1>5, <3>1, <3>2, <3>3
  <2>2. SumOn(d, D) = p * SumOn(xx, D) + q * SumOn(x, D) + r * Cardinality(D)
    BY ONLY IsFiniteSet(D), Whole(x, D), <1>3, <2>1, p \in Int, q \in Int, r \in Int,
            SumLinear
  <2> QED
    BY <2>2
<1>7. p * XX + q * X + r * n = n * (n * XX - X * X)
  <2>1. (n * n) * XX + (-2 * n * X) * X + (X * X) * n = n * (n * XX - X * X)
    OBVIOUS
  <2> QED
    BY <1>5, <2>1
<1>8. \A i \in D : d[i] \in Nat
  <2>1. ASSUME NEW z \in Int PROVE z * z \in Nat
    OBVIOUS
  <2>2. ASSUME NEW i \in D PROVE n * x[i] - X \in Int
    BY <1>2
  <2> QED
    BY <2>1, <2>2
<1>9. \E i \in D : d[i] > 0
  <2>1. n * x[j] - X # n * x[k] - X
    <3>1. PICK u \in Int, v \in Int : u = x[j] /\ v = x[k] /\ u # v
      BY <1>2
    <3>2. n >= 2
      BY <1>1
    <3>3. n * u # n * v
      BY ONLY n \in Nat, u \in Int, v \in Int, <3>1, <3>2
    <3>4. n * u \in Int /\ n * v \in Int
      OBVIOUS
    <3> QED
      BY ONLY X \in Int, <3>1, <3>3, <3>4
  <2>2. ASSUME NEW z \in Int, z # 0 PROVE z * z > 0
    BY <2>2
  <2>3. ASSUME NEW i \in D, n * x[i] - X # 0 PROVE d[i] > 0
    <3>1. n * x[i] - X \in Int
      BY <1>2
    <3> QED
      BY <2>2, <2>3, <3>1
  <2> QED
    BY <2>1, <2>3
<1>10. SumOn(d, D) \in Nat /\ SumOn(d, D) > 0
  <2>1. SumOn(d, D) \in Nat /\ \A i \in D : d[i] <= SumOn(d, D)
    BY ONLY IsFiniteSet(D), <1>8, SumNotNegative
  <2> QED
    BY <1>8, <1>9, <2>1
<1>11. Variance(s) = n * XX - X * X /\ n * XX - X * X \in Int
  BY DEF Variance
<1>12. PICK v \in Int : v = Variance(s)
  BY <1>11
<1>13. n * v > 0
  BY <1>6, <1>7, <1>10, <1>11, <1>12
<1>14. v > 0
  BY <1>13
<1> QED
  BY <1>1, <1>12, <1>14

LEMMA Eliminate ==
    ASSUME NEW n \in Int, NEW X \in Int, NEW XX \in Int, NEW a \in Int, NEW b \in Int
    PROVE  /\ n * (a * XX + b * X) - X * (a * X + b * n) = a * (n * XX - X * X)
           /\ XX * (a * X + b * n) - X * (a * XX + b * X) = b * (n * XX - X * X)
<1>1. PICK p \in Int, q \in Int, r \in Int, t \in Int, u \in Int :
        /\ p = a * (n * XX) /\ q = b * (n * X) /\ r = a * (X * X)
        /\ t = a * (X * XX) /\ u = b * (X * X)
  OBVIOUS
<1>2. PICK w \in Int : w = b * (n * XX)
  OBVIOUS
<1>3. n * (a * XX + b * X) = p + q
  <2>1. n * (a * XX) = a * (n * XX) /\ n * (b * X) = b * (n * X)
    OBVIOUS
  <2>2. n * (a * XX + b * X) = n * (a * XX) + n * (b * X)
    OBVIOUS
  <2> QED
    BY <1>1, <2>1, <2>2
<1>4. X * (a * X + b * n) = r + q
  <2>1. X * (a * X) = a * (X * X) /\ X * (b * n) = b * (n * X)
    OBVIOUS
  <2>2. X * (a * X + b * n) = X * (a * X) + X * (b * n)
    OBVIOUS
  <2> QED
    BY <1>1, <2>1, <2>2
<1>5. XX * (a * X + b * n) = t + w
  <2>1. XX * (a * X) = a * (X * XX) /\ XX * (b * n) = b * (n * XX)
    OBVIOUS
  <2>2. XX * (a * X + b * n) = XX * (a * X) + XX * (b * n)
    OBVIOUS
  <2> QED
    BY <1>1, <1>2, <2>1, <2>2
<1>6. X * (a * XX + b * X) = t + u
  <2>1. X * (a * XX) = a * (X * XX) /\ X * (b * X) = b * (X * X)
    OBVIOUS
  <2>2. X * (a * XX + b * X) = X * (a * XX) + X * (b * X)
    OBVIOUS
  <2> QED
    BY <1>1, <2>1, <2>2
<1>7. a * (n * XX - X * X) = p - r /\ b * (n * XX - X * X) = w - u
  BY <1>1, <1>2
<1> QED
  BY ONLY p \in Int, q \in Int, r \in Int, t \in Int, u \in Int, w \in Int,
          <1>3, <1>4, <1>5, <1>6, <1>7

\* A judge whose line is neither flat nor compressed nor above the margin sees
\* quality and favours no arm: its slope is half of its scale, and its
\* intercept its style.
LEMMA FitSeesQuality ==
    ASSUME NEW judge \in Judge, NEW D, NEW x, NEW y,
           NEW m \in Nat, m > 0, Replicates = 2 * m,
           OnLine(D, x, y, m * judge.scale, Replicates * judge.style),
           NEW j \in D, NEW k \in D, x[j] # x[k],
           ~Biased(Sums(x, y)), ~Compressed(Sums(x, y))
    PROVE  judge.scale > 0 /\ 2 * judge.style <= NIMargin
<1> PICK s : s = Sums(x, y)
  OBVIOUS
<1> PICK c \in Int, t \in Int : c = judge.scale /\ t = judge.style
  BY DEF Judge
<1> PICK b \in Int : b = Replicates * t
  OBVIOUS
<1> PICK a \in Int : a = m * c
  OBVIOUS
<1>1. OnLine(D, x, y, a, b)
  OBVIOUS
<1>2. /\ s.n = Cardinality(D) /\ s.n \in Nat
      /\ s.x = SumOn(x, D) /\ s.x \in Int
      /\ s.xx = SumOn(Products(x, x), D) /\ s.xx \in Int
      /\ s.y = a * s.x + b * s.n
      /\ s.xy = a * s.xx + b * s.x
  BY ONLY a \in Int, b \in Int, s = Sums(x, y), <1>1, SumsOnLine
<1>3. s.n >= 2 /\ Variance(s) \in Int /\ Variance(s) > 0
  <2>1. IsFiniteSet(D) /\ Whole(x, D)
    BY <1>1 DEF OnLine
  <2>2. \A i \in D : Products(x, x)[i] = x[i] * x[i]
    <3>1. DOMAIN x = D
      BY <1>1 DEF OnLine
    <3> QED
      BY <3>1 DEF Products
  <2> QED
    BY ONLY j \in D, k \in D, x[j] # x[k], <1>2, <2>1, <2>2, VariancePositive
<1> PICK v \in Int : v = Variance(s) /\ v > 0
  BY <1>3
<1> PICK n \in Int, X \in Int, XX \in Int : n = s.n /\ X = s.x /\ XX = s.xx
  BY <1>2
<1>4. v = n * XX - X * X
  BY DEF Variance
<1>5. ~Flat(s)
  BY <1>3 DEF Flat
<1>6. s.n * s.xy - s.x * s.y = a * v
  <2>1. n * (a * XX + b * X) - X * (a * X + b * n) = a * (n * XX - X * X)
    BY ONLY n \in Int, X \in Int, XX \in Int, a \in Int, b \in Int, Eliminate
  <2> QED
    BY <1>2, <1>4, <2>1
<1>7. s.xx * s.y - s.x * s.xy = b * v
  <2>1. XX * (a * X + b * n) - X * (a * XX + b * X) = b * (n * XX - X * X)
    BY ONLY n \in Int, X \in Int, XX \in Int, a \in Int, b \in Int, Eliminate
  <2> QED
    BY <1>2, <1>4, <2>1
<1>8. c > 0
  <2>1. ~(2 * (a * v) < Replicates * v)
    BY <1>5, <1>6 DEF Compressed
  <2>2. ~(2 * ((m * c) * v) < (2 * m) * v)
    BY <2>1
  <2>3. (m * v) * c >= m * v /\ m * v > 0
    <3>1. 2 * ((m * c) * v) = 2 * ((m * v) * c) /\ (2 * m) * v = 2 * (m * v)
      BY ONLY m \in Nat, c \in Int, v \in Int
    <3>2. m * v \in Int /\ (m * v) * c \in Int /\ m * v > 0
      BY ONLY m \in Nat, m > 0, c \in Int, v \in Int, v > 0
    <3> QED
      BY ONLY <2>2, <3>1, <3>2
  <2>4. PICK w \in Int : w = m * v
    OBVIOUS
  <2>5. w * c >= w /\ w > 0
    BY <2>3, <2>4
  <2>6. w * (c - 1) >= 0
    BY ONLY w \in Int, c \in Int, <2>5
  <2> QED
    BY ONLY w \in Int, c \in Int, <2>5, <2>6
<1>9. 2 * t <= NIMargin
  <2> PICK M \in Int : M = NIMargin
    BY JudgingAssumption
  <2>1. ~(2 * (b * v) > M * Replicates * v)
    BY <1>3, <1>5, <1>7 DEF Biased
  <2>2. ~(2 * (((2 * m) * t) * v) > M * (2 * m) * v)
    BY <2>1
  <2>3. PICK w \in Int : w = 2 * m * v /\ w > 0
    <3>1. 2 * m * v \in Int /\ 2 * m * v > 0
      BY ONLY m \in Nat, m > 0, v \in Int, v > 0
    <3> QED
      BY <3>1
  <2>4. 2 * (((2 * m) * t) * v) = w * (2 * t) /\ M * (2 * m) * v = w * M
    BY ONLY m \in Nat, t \in Int, v \in Int, M \in Int, w \in Int, <2>3
  <2>5. w * (2 * t - M) <= 0
    <3>1. w * (2 * t - M) = w * (2 * t) - w * M
      OBVIOUS
    <3>2. w * (2 * t) \in Int /\ w * M \in Int
      OBVIOUS
    <3> QED
      BY ONLY <2>2, <2>4, <3>1, <3>2
  <2>6. 2 * t - M <= 0
    BY ONLY w \in Int, t \in Int, M \in Int, <2>3, <2>5
  <2> QED
    BY <2>6
<1> QED
  BY <1>8, <1>9

LEMMA NotAllAlike ==
    ASSUME NEW S, ~(Cardinality(S) < 2)
    PROVE  \E u, w \in S : u # w
<1>1. CASE S = {}
  <2>1. Cardinality(S) = 0
    BY ONLY <1>1, FS_EmptySet
  <2> QED
    BY <2>1
<1>2. CASE \E u \in S : \A w \in S : w = u
  <2>1. PICK u \in S : S = {u}
    BY <1>2
  <2>2. Cardinality(S) = 1
    BY ONLY <2>1, FS_Singleton
  <2> QED
    BY <2>2
<1> QED
  BY <1>1, <1>2

\* calibrate() on labels whose human scores are those of the qualities.
LEMMA AlignedSeesQuality ==
    ASSUME NEW judge \in Judge, NEW labels, IsFiniteSet(DOMAIN labels),
           \A i \in DOMAIN labels :
              /\ labels[i].baseline \in Int /\ labels[i].candidate \in Int
              /\ labels[i].human = 2 * (labels[i].candidate - labels[i].baseline),
           NEW report, report = Calibration(judge, labels),
           report.verdict = "ALIGNED", ~report.noSpread
    PROVE  judge.scale > 0 /\ 2 * judge.style <= NIMargin
<1> PICK D : D = {i \in DOMAIN labels : OnScale(judge, labels[i])}
  OBVIOUS
<1> PICK x : x = [i \in D |-> labels[i].human]
  OBVIOUS
<1> PICK y : y = [i \in D |-> Diff(judge, labels[i])]
  OBVIOUS
<1>1. /\ ~Biased(Sums(x, y)) /\ ~Compressed(Sums(x, y))
      /\ ~(Cardinality({x[i] : i \in D}) < 2)
  BY DEF Calibration
<1>2. PICK m \in Nat : m > 0 /\ Replicates = 2 * m
  <2>1. Replicates \in Nat \ {0} /\ Replicates % 2 = 0
    BY JudgingAssumption
  <2>2. PICK m \in Nat : Replicates = 2 * m
    BY <2>1, Halves
  <2> QED
    BY ONLY <2>1, <2>2
<1>3. IsFiniteSet(D)
  BY FS_Subset
<1>4. PICK j \in D, k \in D : x[j] # x[k]
  <2>1. PICK u \in {x[i] : i \in D}, w \in {x[i] : i \in D} : u # w
    BY ONLY <1>1, NotAllAlike
  <2> QED
    BY <2>1
<1>5. OnLine(D, x, y, m * judge.scale, Replicates * judge.style)
  <2> PICK c \in Int, t \in Int : c = judge.scale /\ t = judge.style
    BY DEF Judge
  <2>1. ASSUME NEW i \in D
        PROVE  x[i] \in Int /\ y[i] = (m * c) * x[i] + Replicates * t
    <3>1. PICK g \in Int : g = labels[i].candidate - labels[i].baseline
      OBVIOUS
    <3>2. labels[i].baseline \in Int /\ labels[i].candidate \in Int
      OBVIOUS
    <3>3. x[i] = 2 * g
      BY <3>1
    <3>4. y[i] = Replicates * (c * g + t)
      BY <3>1, <3>2, DiffIs
    <3>5. (2 * m) * (c * g + t) = (m * c) * (2 * g) + (2 * m) * t
      OBVIOUS
    <3> QED
      BY <1>2, <3>3, <3>4, <3>5
  <2>2. x = [i \in D |-> x[i]] /\ y = [i \in D |-> y[i]]
    OBVIOUS
  <2> QED
    BY <1>3, <2>1, <2>2 DEF OnLine, Whole
<1> QED
  BY <1>1, <1>2, <1>4, <1>5, FitSeesQuality


-----------------------------------------------------------------------------
(* What a verdict rests on *)

IdsOf(some) == {r.id : r \in some}
Those(ids) == {row \in rows : row.id \in ids}

\* A row has the use-case key that a release of the enrichment gave it, this
\* one or the one before.
Keyed(row) == \E by \in 1..code : row.is.role = [key |-> row.sent.role, by |-> by]
RoleInv == code \in {1, 2} /\ \A row \in rows : Keyed(row)

\* A use case of the release before, which no row has and none will have
\* again; of another use case the rows are what they were said to be.
Outdated(useCase) ==
    code = 2 /\ useCase.by = 1 /\ \A row \in rows : row.is.role.by = 2
Told(useCase, sample) ==
    Outdated(useCase) \/ \A r \in sample : r.is.role = useCase
Named(useCase, ids) == ids \subseteq 1..lastId /\ Told(useCase, Those(ids))

OneById(sample) == IsFiniteSet(sample) /\ \A r, s \in sample : r.id = s.id => r = s

ManifestNamed ==
    /\ manifest.phase = "picked" => Named(manifest.useCase, manifest.picked)
    /\ manifest.phase \in {"made", "edited"} =>
          Named(manifest.useCase, IdsOf(manifest.entries))

ReplayNamed ==
    /\ replay.phase \in {"prepared", "queued"} =>
          /\ OneById(replay.sample) /\ Told(replay.useCase, replay.sample)
          /\ Named(replay.useCase, IdsOf(replay.sample))
    /\ replay.phase = "done" => ReplayEarned

Documented(d) ==
    /\ Told(d.useCase, d.from)
    /\ d.verdict = "NON_INFERIOR" => d.units >= MinUnits

EarnedInv ==
    /\ supply \in Supplies /\ RoleInv
    /\ ManifestNamed /\ ReplayNamed
    /\ \A d \in documents : Documented(d)
    /\ calibration # Null => JudgeEarned

\* What a step makes of the keys: new rows have that of the code, the others
\* keep theirs, or all of them have that of the code.
Kept(r) == \E s \in rows : r.id = s.id /\ r.sent = s.sent /\ r.is.role = s.is.role
Keeps ==
    /\ code' = code \/ (code = 1 /\ code' = 2)
    /\ \A r \in rows' :
          \/ /\ code' = code /\ r.id = lastId + 1
             /\ r.is.role = [key |-> r.sent.role, by |-> code]
          \/ Kept(r)
Rekeys ==
    /\ code' = code
    /\ \A r \in rows' :
          /\ r.is.role = [key |-> r.sent.role, by |-> code]
          /\ \E s \in rows : r.id = s.id /\ r.sent = s.sent
Ages == lastId' \in Nat /\ lastId <= lastId' /\ (Keeps \/ Rekeys)

LEMMA OthersLeaveCode ==
    ASSUME [OfflineNext]_offlineVars
    PROVE  /\ UNCHANGED supply
           /\ Upgrade \/ Writes \/ UNCHANGED <<rows, lastId>>
           /\ Upgrade \/ UNCHANGED code
<1>1. UNCHANGED supply /\ (Upgrade \/ UNCHANGED code)
  <2>1. CASE Record \/ Prune \/ EraseTask \/ Upgrade \/ Reenrich
    BY <2>1 DEF Record, Prune, EraseTask, Upgrade, Reenrich
  <2>2. CASE InferEdges \/ ReplaceEdges \/ PrepareSample \/ QueueSample \/ RunDiscovery
    BY <2>2 DEF InferEdges, ReplaceEdges, PrepareSample, QueueSample, RunDiscovery,
       storeVars
  <2>3. CASE ReplayNext
    BY <2>3 DEF ReplayNext, PickDataset, MakeDataset, MoveEntry, PrepareReplay,
       QueueReplay, RunAtOnce, RunReplayJob, Calibrate, analysisOnly, storeVars
  <2>4. CASE UNCHANGED offlineVars
    BY <2>4 DEF offlineVars, analysisVars, storeVars
  <2> QED
    BY <2>1, <2>2, <2>3, <2>4 DEF OfflineNext, AnalysisNext
<1>2. Writes \/ UNCHANGED <<rows, lastId>>
  BY OthersLeaveRows
<1> QED
  BY <1>1, <1>2

LEMMA RowsAreKept == \A r \in rows : Kept(r)
BY DEF Kept

LEMMA StoreAges ==
    ASSUME RowInv, [OfflineNext]_offlineVars
    PROVE  Ages
<1>1. lastId' \in Nat /\ lastId <= lastId'
  BY RowsStep DEF Continues
<1>2. CASE Upgrade
  <2>1. Keeps
    BY <1>2, RowsAreKept DEF Upgrade, Keeps
  <2> QED
    BY <1>1, <2>1 DEF Ages
<1>3. CASE ~Upgrade /\ Record
  <2>1. code' = code
    BY <1>3, OthersLeaveCode
  <2>2. PICK sent, task, lag : Save(sent, task, lag)
    BY <1>3 DEF Record
  <2> DEFINE new == [id |-> lastId + 1, ts |-> 2 * (lastId + 1) - lag, sent |-> sent,
                     in |-> task, kept |-> TRUE, is |-> Derived(sent, task, TRUE)]
  <2>3. /\ rows' = rows \cup {new} /\ new.id = lastId + 1 /\ new.sent = sent
        /\ new.is = Derived(sent, task, TRUE)
    BY <2>2 DEF Save
  <2> HIDE DEF new
  <2>4. new.is.role = [key |-> new.sent.role, by |-> code]
    BY <2>3 DEF Derived
  <2>5. Keeps
    BY ONLY <2>1, <2>3, <2>4, RowsAreKept DEF Keeps
  <2> QED
    BY <1>1, <2>5 DEF Ages
<1>4. CASE ~Upgrade /\ Prune
  <2>1. code' = code
    BY <1>4, OthersLeaveCode
  <2>2. PICK pruned \in SUBSET rows :
          rows' = (rows \ pruned) \cup {Forget(row) : row \in pruned}
    BY <1>4 DEF Prune, Forget
  <2>3. ASSUME NEW r \in rows'
        PROVE  Kept(r)
    <3>1. CASE r \in rows
      BY <3>1, RowsAreKept
    <3>2. CASE r \notin rows
      <4>1. PICK s \in rows : r = Forget(s)
        BY <2>2, <3>2
      <4>2. DOMAIN s = RowFields
        BY DEF RowInv, RowOK
      <4> QED
        BY <4>1, <4>2, ForgetIs DEF Kept
    <3> QED
      BY <3>1, <3>2
  <2>4. Keeps
    BY ONLY <2>1, <2>3 DEF Keeps
  <2> QED
    BY <1>1, <2>4 DEF Ages
<1>5. CASE ~Upgrade /\ EraseTask
  <2>1. code' = code /\ rows' \subseteq rows
    BY <1>5, OthersLeaveCode DEF EraseTask
  <2>2. Keeps
    BY ONLY <2>1, RowsAreKept DEF Keeps
  <2> QED
    BY <1>1, <2>2 DEF Ages
<1>6. CASE ~Upgrade /\ UNCHANGED rows
  <2>1. code' = code
    BY <1>6, OthersLeaveCode
  <2>2. Keeps
    BY ONLY <1>6, <2>1, RowsAreKept DEF Keeps
  <2> QED
    BY <1>1, <2>2 DEF Ages
<1>7. CASE ~Upgrade /\ Reenrich
  <2>1. CASE \A row \in rows : Enrichable(row)
    <3>1. code' = code
      BY <1>7, OthersLeaveCode
    <3>2. rows' = {Rewritten(row) : row \in rows}
      BY <1>7, <2>1 DEF Reenrich
    <3>3. ASSUME NEW r \in rows'
          PROVE  /\ r.is.role = [key |-> r.sent.role, by |-> code]
                 /\ \E s \in rows : r.id = s.id /\ r.sent = s.sent
      <4>1. PICK s \in rows : r = Rewritten(s)
        BY <3>2
      <4>2. DOMAIN s = RowFields /\ s.kept
        BY <2>1 DEF RowInv, RowOK, Enrichable
      <4>3. r.id = s.id /\ r.sent = s.sent /\ r.is = Derived(s.sent, s.in, s.kept)
        BY <4>1, <4>2, RewrittenIs
      <4> QED
        BY <4>2, <4>3 DEF Derived
    <3>4. Rekeys
      BY ONLY <3>1, <3>3 DEF Rekeys
    <3> QED
      BY <1>1, <3>4 DEF Ages
  <2>2. CASE ~\A row \in rows : Enrichable(row)
    BY <1>6, <1>7, <2>2 DEF Reenrich
  <2> QED
    BY <2>1, <2>2
<1> QED
  BY <1>2, <1>3, <1>4, <1>5, <1>6, <1>7, OthersLeaveCode DEF Writes

LEMMA RolesStay ==
    ASSUME RoleInv, Ages
    PROVE  RoleInv'
<1>1. code \in {1, 2} /\ code' \in {1, 2} /\ code <= code'
  BY DEF RoleInv, Ages, Keeps, Rekeys
<1>2. ASSUME NEW r \in rows'
      PROVE  \E by \in 1..code' : r.is.role = [key |-> r.sent.role, by |-> by]
  <2>1. \/ r.is.role = [key |-> r.sent.role, by |-> code]
        \/ \E s \in rows : r.sent = s.sent /\ r.is.role = s.is.role
    BY DEF Ages, Keeps, Kept, Rekeys
  <2>2. CASE r.is.role = [key |-> r.sent.role, by |-> code]
    BY <1>1, <2>2
  <2>3. CASE \E s \in rows : r.sent = s.sent /\ r.is.role = s.is.role
    <3>1. PICK s \in rows : r.sent = s.sent /\ r.is.role = s.is.role
      BY <2>3
    <3>2. PICK by \in 1..code : s.is.role = [key |-> s.sent.role, by |-> by]
      BY DEF RoleInv, Keyed
    <3> QED
      BY <1>1, <3>1, <3>2
  <2> QED
    BY <2>1, <2>2, <2>3
<1> QED
  BY <1>1, <1>2 DEF RoleInv, Keyed

LEMMA OutdatedStays ==
    ASSUME NEW useCase, Ages, Outdated(useCase)
    PROVE  Outdated(useCase)'
<1>1. code = 2 /\ code' = 2
  BY DEF Outdated, Ages, Keeps, Rekeys
<1>2. ASSUME NEW r \in rows' PROVE r.is.role.by = 2
  <2>1. \/ r.is.role = [key |-> r.sent.role, by |-> code]
        \/ \E s \in rows : r.is.role = s.is.role
    BY DEF Ages, Keeps, Kept, Rekeys
  <2> QED
    BY <1>1, <2>1 DEF Outdated
<1> QED
  BY <1>1, <1>2 DEF Outdated

LEMMA ToldStays ==
    ASSUME NEW useCase, NEW sample, Ages, Told(useCase, sample)
    PROVE  Told(useCase, sample)'
BY OutdatedStays DEF Told

LEMMA NamedStays ==
    ASSUME NEW useCase, NEW ids, RowInv, RoleInv, Ages, Named(useCase, ids)
    PROVE  Named(useCase, ids)'
<1>1. ids \subseteq 1..lastId /\ ids \subseteq 1..lastId'
  BY DEF Named, Ages, RowInv
<1>2. CASE Outdated(useCase)
  BY <1>1, <1>2, OutdatedStays DEF Named, Told
<1>3. CASE ~Outdated(useCase)
  <2>1. \A s \in rows : s.id \in ids => s.is.role = useCase
    BY <1>3 DEF Named, Told, Those
  <2>2. lastId + 1 \notin ids
    BY <1>1 DEF RowInv
  <2>3. CASE Keeps
    <3>1. ASSUME NEW r \in rows', r.id \in ids PROVE r.is.role = useCase
      BY <2>1, <2>2, <2>3, <3>1 DEF Keeps, Kept
    <3> QED
      BY <1>1, <3>1 DEF Named, Told, Those
  <2>4. CASE Rekeys /\ code = 2 /\ useCase.by = 1
    <3>1. ASSUME NEW r \in rows' PROVE r.is.role.by = 2
      <4>1. r.is.role = [key |-> r.sent.role, by |-> code]
        BY <2>4 DEF Rekeys
      <4> QED
        BY <2>4, <4>1
    <3>2. Outdated(useCase)'
      BY ONLY <2>4, <3>1 DEF Rekeys, Outdated
    <3> QED
      BY <1>1, <3>2 DEF Named, Told
  <2>5. CASE Rekeys /\ ~(code = 2 /\ useCase.by = 1)
    <3>1. ASSUME NEW r \in rows', r.id \in ids PROVE r.is.role = useCase
      <4>1. PICK s \in rows : r.id = s.id /\ r.sent = s.sent
        BY <2>5 DEF Rekeys
      <4>2. PICK by \in 1..code : s.is.role = [key |-> s.sent.role, by |-> by]
        BY DEF RoleInv, Keyed
      <4>3. s.is.role = useCase
        BY <2>1, <3>1, <4>1
      <4>4. useCase.by = by
        BY <4>2, <4>3
      <4>5. by = code
        BY <2>5, <4>4 DEF RoleInv
      <4>6. r.is.role = [key |-> r.sent.role, by |-> code]
        BY <2>5 DEF Rekeys
      <4> QED
        BY <4>1, <4>2, <4>3, <4>5, <4>6
    <3> QED
      BY <1>1, <3>1 DEF Named, Told, Those
  <2> QED
    BY <2>3, <2>4, <2>5 DEF Ages
<1> QED
  BY <1>2, <1>3

-----------------------------------------------------------------------------
(* The batch of a replay *)

Reply == [fails: BOOLEAN, baseline: Nat, candidate: Nat]

LEMMA ClustersFinite ==
    ASSUME NEW some, IsFiniteSet(some)
    PROVE  IsFiniteSet({Cluster(row) : row \in some})
<1> PICK f : f = [r \in some |-> Cluster(r)]
  OBVIOUS
<1>1. f \in Surjection(some, {Cluster(row) : row \in some})
  BY DEF Surjection
<1> QED
  BY <1>1, FS_Surjection

\* An image of a set is as large as the set when no two elements share one.
LEMMA AsManyIds ==
    ASSUME NEW sample, OneById(sample)
    PROVE  /\ IsFiniteSet(IdsOf(sample))
           /\ Cardinality(IdsOf(sample)) = Cardinality(sample)
<1> PICK f : f = [r \in sample |-> r.id]
  OBVIOUS
<1>1. f \in [sample -> IdsOf(sample)]
  BY DEF IdsOf
<1>2. \A r, s \in sample : f[r] = f[s] => r = s
  BY DEF OneById
<1>3. \A id \in IdsOf(sample) : \E r \in sample : f[r] = id
  BY DEF IdsOf
<1>4. f \in Bijection(sample, IdsOf(sample))
  BY ONLY <1>1, <1>2, <1>3 DEF Bijection, Injection, Surjection, IsInjective
<1>5. IsFiniteSet(sample)
  BY DEF OneById
<1>6. IsFiniteSet(IdsOf(sample))
  BY ONLY <1>4, <1>5, FS_Surjection DEF Bijection
<1>7. Cardinality(sample) = Cardinality(IdsOf(sample))
  <2>1. ExistsBijection(sample, IdsOf(sample))
    BY <1>4 DEF ExistsBijection
  <2> QED
    BY ONLY <1>5, <2>1, FS_Bijection
<1> QED
  BY <1>6, <1>7

ClustersOf(sample, ids) == {Cluster(row) : row \in {r \in sample : r.id \in ids}}

LEMMA BatchIs ==
    ASSUME NEW judge \in Judge, NEW sample, OneById(sample),
           NEW got, DOMAIN got = IdsOf(sample),
           \A id \in DOMAIN got : got[id].baseline \in Int /\ got[id].candidate \in Int,
           NEW cluster, \A id \in DOMAIN got :
              \E r \in sample : r.id = id /\ cluster[id] = Cluster(r),
           NEW batch, batch = Batch(judge, got, cluster)
    PROVE  LET diffs == batch.diffs
           IN  /\ \A id \in DOMAIN diffs :
                     diffs[id] = Replicates * (judge.scale *
                        (got[id].candidate - got[id].baseline) + judge.style)
               /\ ~Underpowered(batch) =>
                     /\ batch.units >= MinUnits
                     /\ Cardinality(ClustersOf(sample, DOMAIN diffs)) >= MinUnits
                     /\ 5 * Cardinality(DOMAIN diffs) >= 4 * Cardinality(sample)
<1> PICK paired : paired = {id \in DOMAIN got : Judged(judge, got[id])}
  OBVIOUS
<1> PICK blank : blank = {id \in DOMAIN got : Blank(got[id])}
  OBVIOUS
<1>1. /\ batch.diffs = [id \in paired |-> Diff(judge, got[id])]
      /\ batch.units = Cardinality({cluster[id] : id \in paired})
      /\ batch.blank = Cardinality(blank)
      /\ batch.failed = Cardinality(DOMAIN got \ (paired \cup blank))
      /\ batch.total = Cardinality(DOMAIN got)
  BY DEF Batch
<1>2. DOMAIN batch.diffs = paired
  BY <1>1
<1>3. ASSUME NEW id \in paired
      PROVE  batch.diffs[id] = Replicates * (judge.scale *
                (got[id].candidate - got[id].baseline) + judge.style)
  <2>1. batch.diffs[id] = Diff(judge, got[id])
    BY <1>1
  <2>2. got[id].baseline \in Int /\ got[id].candidate \in Int
    OBVIOUS
  <2> QED
    BY <2>1, <2>2, DiffIs
<1>4. IsFiniteSet(DOMAIN got) /\ Cardinality(DOMAIN got) = Cardinality(sample)
  BY AsManyIds
<1>5. 5 * (batch.failed + batch.blank) <= batch.total =>
         5 * Cardinality(paired) >= 4 * Cardinality(sample)
  <2> PICK rest : rest = DOMAIN got \ (paired \cup blank)
    OBVIOUS
  <2>1. paired \cap blank = {}
    BY DEF Judged
  <2>2. IsFiniteSet(paired) /\ IsFiniteSet(blank) /\ IsFiniteSet(rest)
    BY <1>4, FS_Subset
  <2>3. Cardinality(paired \cup blank) = Cardinality(paired) + Cardinality(blank)
    <3>1. Cardinality(paired \cup blank) =
             Cardinality(paired) + Cardinality(blank) - Cardinality(paired \cap blank)
      BY <2>2, FS_Union
    <3>2. Cardinality(paired \cap blank) = 0
      BY ONLY <2>1, FS_EmptySet
    <3>3. Cardinality(paired) \in Nat /\ Cardinality(blank) \in Nat
      BY ONLY <2>2, FS_CardinalityType
    <3> QED
      BY ONLY <3>1, <3>2, <3>3
  <2>4. Cardinality(rest) = Cardinality(DOMAIN got) - Cardinality(paired \cup blank)
    <3>1. (paired \cup blank) \cap DOMAIN got = paired \cup blank
      OBVIOUS
    <3>2. /\ IsFiniteSet(DOMAIN got \ (paired \cup blank))
          /\ Cardinality(DOMAIN got \ (paired \cup blank)) =
                Cardinality(DOMAIN got) - Cardinality(DOMAIN got \cap (paired \cup blank))
      BY ONLY <1>4, FS_Difference
    <3>3. DOMAIN got \cap (paired \cup blank) = paired \cup blank
      BY <3>1
    <3> QED
      BY ONLY <3>2, <3>3, rest = DOMAIN got \ (paired \cup blank)
  <2>5. /\ Cardinality(paired) \in Nat /\ Cardinality(blank) \in Nat
        /\ Cardinality(rest) \in Nat /\ Cardinality(DOMAIN got) \in Nat
    BY <1>4, <2>2, FS_CardinalityType
  <2>6. batch.failed = Cardinality(rest)
    BY <1>1
  <2> QED
    BY ONLY <1>1, <1>4, <2>3, <2>4, <2>5, <2>6
<1>6. batch.units <= Cardinality(ClustersOf(sample, paired))
  <2> PICK all : all = ClustersOf(sample, paired)
    OBVIOUS
  <2>1. {cluster[id] : id \in paired} \subseteq all
    BY DEF ClustersOf
  <2>2. IsFiniteSet(all)
    <3>1. IsFiniteSet({r \in sample : r.id \in paired})
      BY FS_Subset DEF OneById
    <3> QED
      BY ONLY <3>1, ClustersFinite, all = ClustersOf(sample, paired) DEF ClustersOf
  <2>3. Cardinality({cluster[id] : id \in paired}) <= Cardinality(all)
    BY <2>1, <2>2, FS_Subset
  <2> QED
    BY <1>1, <2>3
<1>7. ASSUME ~Underpowered(batch)
      PROVE  /\ batch.units >= MinUnits
             /\ 5 * (batch.failed + batch.blank) <= batch.total
             /\ Cardinality(ClustersOf(sample, paired)) >= MinUnits
  <2>1. batch.units \in Nat /\ batch.failed \in Nat /\ batch.blank \in Nat
        /\ batch.total \in Nat
    <3>1. IsFiniteSet(paired) /\ IsFiniteSet(blank)
          /\ IsFiniteSet(DOMAIN got \ (paired \cup blank))
      BY <1>4, FS_Subset
    <3>2. IsFiniteSet({cluster[id] : id \in paired})
      <4> PICK f : f = [id \in paired |-> cluster[id]]
        OBVIOUS
      <4>1. f \in Surjection(paired, {cluster[id] : id \in paired})
        BY DEF Surjection
      <4> QED
        BY <3>1, <4>1, FS_Surjection
    <3> QED
      BY <1>1, <1>4, <3>1, <3>2, FS_CardinalityType
  <2>2. MinUnits \in Nat
    BY JudgingAssumption
  <2>3. ~(batch.units < MinUnits) /\ ~(5 * (batch.failed + batch.blank) > batch.total)
    BY <1>7 DEF Underpowered, Degraded
  <2> PICK m : m = Cardinality(ClustersOf(sample, paired))
    OBVIOUS
  <2>4. m \in Nat
    <3>1. IsFiniteSet({r \in sample : r.id \in paired})
      BY FS_Subset DEF OneById
    <3>2. IsFiniteSet(ClustersOf(sample, paired))
      BY ONLY <3>1, ClustersFinite DEF ClustersOf
    <3> QED
      BY <3>2, FS_CardinalityType
  <2> QED
    BY ONLY <1>6, <2>1, <2>2, <2>3, <2>4,
            m = Cardinality(ClustersOf(sample, paired))
<1> QED
  BY <1>2, <1>3, <1>5, <1>7

\* What a run reports of its sample is earned, and so is its document.
LEMMA RunEarns ==
    ASSUME supply \in Supplies, DOMAIN replay = ReplayFields,
           NEW sample, OneById(sample), Run(sample)
    PROVE  /\ replay'.phase = "done" /\ ReplayEarned'
           /\ \E d : /\ documents' = documents \cup {d}
                     /\ d.useCase = replay.useCase /\ d.from = sample
                     /\ d.verdict = "NON_INFERIOR" => d.units >= MinUnits
<1> DEFINE row(id) == CHOOSE r \in sample : r.id = id
           fails(id, reply) == [reply EXCEPT !.fails = @ \/ ~row(id).kept]
           clusterOf(id) == Cluster(row(id))
<1>1. PICK judge \in supply.judges, replies \in [IdsOf(sample) -> supply.replies] :
        LET got == [id \in DOMAIN replies |-> fails(id, replies[id])]
            batch == Batch(judge, got, [id \in DOMAIN replies |-> clusterOf(id)])
        IN  \E lower : Finished(sample, judge, batch, got, lower)
  BY DEF Run, IdsOf
<1>2. judge \in Judge /\ \A id \in IdsOf(sample) : replies[id] \in Reply
  BY ReplayAssumption DEF Judge, Reply
<1>3. \A id \in IdsOf(sample) : row(id) \in sample /\ row(id).id = id
  BY DEF IdsOf
<1>4. \A id \in IdsOf(sample) :
         /\ fails(id, replies[id]).baseline \in Int
         /\ fails(id, replies[id]).candidate \in Int
  BY <1>2 DEF Reply
<1>5. \A id \in IdsOf(sample) : \E r \in sample : r.id = id /\ clusterOf(id) = Cluster(r)
  BY <1>3
<1> HIDE DEF row, fails, clusterOf
<1> PICK got : got = [id \in DOMAIN replies |-> fails(id, replies[id])]
  OBVIOUS
<1> PICK cluster : cluster = [id \in DOMAIN replies |-> clusterOf(id)]
  OBVIOUS
<1> PICK batch : batch = Batch(judge, got, cluster)
  OBVIOUS
<1>6. PICK lower : Finished(sample, judge, batch, got, lower)
  BY <1>1
<1> PICK verdict : verdict = BatchVerdict(batch, lower)
  OBVIOUS
<1>7. DOMAIN got = IdsOf(sample) /\ DOMAIN replies = IdsOf(sample)
  OBVIOUS
<1>8. \A id \in DOMAIN got : got[id].baseline \in Int /\ got[id].candidate \in Int
  BY <1>4, <1>7
<1>9. \A id \in DOMAIN got : \E r \in sample : r.id = id /\ cluster[id] = Cluster(r)
  BY <1>5, <1>7
<1>10. /\ \A id \in DOMAIN batch.diffs :
             batch.diffs[id] = Replicates * (judge.scale *
                (got[id].candidate - got[id].baseline) + judge.style)
       /\ ~Underpowered(batch) =>
             /\ batch.units >= MinUnits
             /\ Cardinality(ClustersOf(sample, DOMAIN batch.diffs)) >= MinUnits
             /\ 5 * Cardinality(DOMAIN batch.diffs) >= 4 * Cardinality(sample)
  BY ONLY <1>2, <1>7, <1>8, <1>9, OneById(sample),
          batch = Batch(judge, got, cluster), BatchIs
<1>11. verdict \in {"NON_INFERIOR", "NOT_NON_INFERIOR"} => ~Underpowered(batch)
  BY DEF BatchVerdict
<1>12. /\ replay'.phase = "done" /\ replay'.sample = sample /\ replay'.judge = judge
       /\ replay'.batch = batch /\ replay'.replies = got /\ replay'.verdict = verdict
  BY <1>6 DEF Finished, ReplayFields
<1>13. ReplayEarned'
  <2>1. ReplayEarned' =
          (/\ verdict \in {"NON_INFERIOR", "NOT_NON_INFERIOR"} =>
              /\ Cardinality(ClustersOf(sample, DOMAIN batch.diffs)) >= MinUnits
              /\ 5 * Cardinality(DOMAIN batch.diffs) >= 4 * Cardinality(sample)
           /\ \A id \in DOMAIN batch.diffs :
                 batch.diffs[id] = Replicates * (judge.scale *
                    (got[id].candidate - got[id].baseline) + judge.style))
    BY <1>12 DEF ReplayEarned, ClustersOf
  <2> QED
    BY ONLY <1>10, <1>11, <2>1
<1>14. \E d : /\ documents' = documents \cup {d}
              /\ d.useCase = replay.useCase /\ d.from = sample
              /\ d.verdict = "NON_INFERIOR" => d.units >= MinUnits
  <2> DEFINE d == [useCase |-> replay.useCase, flow |-> replay.flow,
                   verdict |-> verdict, from |-> sample, units |-> batch.units]
  <2>1. documents' = documents \cup {d}
    BY <1>6 DEF Finished
  <2>2. /\ d.useCase = replay.useCase /\ d.from = sample
        /\ d.verdict = verdict /\ d.units = batch.units
    OBVIOUS
  <2> HIDE DEF d
  <2> QED
    BY <1>10, <1>11, <2>1, <2>2
<1> QED
  BY <1>12, <1>13, <1>14

-----------------------------------------------------------------------------
(* Every step *)

LEMMA RequestsAre ==
    ASSUME RowInv, NEW useCase, NEW flow, NEW sample, sample = Requests(useCase, flow)
    PROVE  /\ OneById(sample) /\ sample \subseteq rows
           /\ Told(useCase, sample) /\ Named(useCase, IdsOf(sample))
<1>1. sample \subseteq rows /\ \A r \in sample : r.is.role = useCase
  BY DEF Requests, Usable
<1>2. OneById(sample)
  BY <1>1, FS_Subset DEF RowInv, OneById
<1>3. Those(IdsOf(sample)) \subseteq sample
  BY <1>1 DEF Those, IdsOf, RowInv
<1>4. IdsOf(sample) \subseteq 1..lastId
  BY <1>1 DEF IdsOf, RowInv, RowOK
<1> QED
  BY <1>1, <1>2, <1>3, <1>4 DEF Told, Named

\* Rows of this state named by identifiers.
LEMMA ThoseAre ==
    ASSUME RowInv, NEW useCase, NEW ids, Named(useCase, ids),
           NEW sample, sample \subseteq Those(ids)
    PROVE  /\ OneById(sample) /\ Told(useCase, sample)
           /\ Named(useCase, IdsOf(sample))
<1>1. sample \subseteq rows /\ IdsOf(sample) \subseteq ids
  BY DEF Those, IdsOf
<1>2. OneById(sample)
  BY <1>1, FS_Subset DEF RowInv, OneById
<1>3. Told(useCase, sample)
  BY DEF Named, Told
<1>4. Those(IdsOf(sample)) \subseteq Those(ids)
  BY <1>1 DEF Those
<1> QED
  BY <1>1, <1>2, <1>3, <1>4 DEF Named, Told

LEMMA ManifestNamedStep ==
    ASSUME RowInv, ManifestInv, RoleInv, ManifestNamed, [OfflineNext]_offlineVars
    PROVE  ManifestNamed'
<1>1. Ages
  BY StoreAges
<1>2. CASE UNCHANGED manifest
  <2> PICK useCase, picked, ids :
         /\ useCase = manifest.useCase /\ picked = manifest.picked
         /\ ids = IdsOf(manifest.entries)
    OBVIOUS
  <2>1. Named(useCase, picked) => Named(useCase, picked)'
    BY <1>1, NamedStays
  <2>2. Named(useCase, ids) => Named(useCase, ids)'
    BY <1>1, NamedStays
  <2>3. /\ manifest'.phase = manifest.phase /\ manifest'.useCase = useCase
        /\ manifest'.picked = picked
        /\ IdsOf(manifest'.entries) = ids
    BY <1>2
  <2>4. (manifest.phase = "picked" => Named(useCase, picked))
        /\ (manifest.phase \in {"made", "edited"} => Named(useCase, ids))
    BY DEF ManifestNamed
  <2>5. ManifestNamed' =
          (/\ manifest.phase = "picked" => Named(useCase, picked)'
           /\ manifest.phase \in {"made", "edited"} => Named(useCase, ids)')
    BY <2>3 DEF ManifestNamed, Named, Told, Outdated, IdsOf, Those
  <2> QED
    BY ONLY <2>1, <2>2, <2>4, <2>5
<1>3. CASE PickDataset
  <2>1. PICK useCase, flow :
          manifest' = [NoManifest EXCEPT !.phase = "picked",
                          !.useCase = useCase, !.flow = flow,
                          !.picked = IdsOf(Requests(useCase, flow))]
    BY <1>3 DEF PickDataset, IdsOf
  <2> PICK ids : ids = IdsOf(Requests(useCase, flow))
    OBVIOUS
  <2>2. Named(useCase, ids)
    BY RequestsAre
  <2>3. Named(useCase, ids)'
    BY <1>1, <2>2, NamedStays
  <2>4. /\ manifest'.phase = "picked" /\ manifest'.useCase = useCase
        /\ manifest'.picked = ids
    BY <2>1 DEF NoManifest
  <2>5. Named(manifest.useCase, manifest.picked)'
    BY <2>3, <2>4 DEF Named, Told, Outdated, Those
  <2> QED
    BY <2>4, <2>5 DEF ManifestNamed
<1>4. CASE MakeDataset
  <2> DEFINE found == {r \in rows : r.id \in manifest.picked}
             clusters == {Cluster(r) : r \in found}
  <2>1. CASE manifest' = NoManifest
    BY <2>1 DEF ManifestNamed, NoManifest
  <2>2. CASE manifest' # NoManifest
    <3>1. PICK percent \in Percents, rank \in [clusters -> 1..Cardinality(clusters)] :
            manifest' = [manifest EXCEPT !.phase = "made",
                !.entries = {Entry(r, Train(clusters, rank, percent)) : r \in found},
                !.percent = percent, !.rank = rank,
                !.train = {[id |-> r.id, task |-> r.in] :
                   r \in {f \in found : Cluster(f) \in Train(clusters, rank, percent)}}]
      BY <1>4, <2>2 DEF MakeDataset
    <3> PICK train : train = Train(clusters, rank, percent)
      OBVIOUS
    <3>2. /\ manifest'.phase = "made" /\ manifest'.useCase = manifest.useCase
          /\ manifest'.entries = {Entry(r, train) : r \in found}
      BY <3>1 DEF ManifestInv, ManifestFields
    <3> PICK useCase, picked : useCase = manifest.useCase /\ picked = manifest.picked
      OBVIOUS
    <3> PICK ids : ids = IdsOf(manifest'.entries)
      OBVIOUS
    <3>3. ids \subseteq picked
      BY <3>2 DEF Entry, IdsOf
    <3>4. Named(useCase, picked)
      BY <1>4 DEF MakeDataset, ManifestNamed
    <3>5. Named(useCase, ids)
      BY <3>3, <3>4 DEF Named, Told, Those
    <3>6. Named(useCase, ids)'
      BY <1>1, <3>5, NamedStays
    <3>7. Named(manifest.useCase, IdsOf(manifest.entries))'
      BY <3>2, <3>6 DEF Named, Told, Outdated, Those, IdsOf
    <3> QED
      BY <3>2, <3>7 DEF ManifestNamed
  <2> QED
    BY <2>1, <2>2
<1>5. CASE MoveEntry
  <2>1. PICK entry \in manifest.entries :
          manifest' = [manifest EXCEPT !.phase = "edited",
             !.entries = (@ \ {entry}) \cup
                {[entry EXCEPT !.split =
                    IF @ = "train" THEN "evaluation" ELSE "train"]}]
    BY <1>5 DEF MoveEntry
  <2>2. manifest.phase = "made" /\ DOMAIN manifest = ManifestFields
        /\ DOMAIN entry = EntryFields
    BY <1>5 DEF MoveEntry, ManifestInv, Salted
  <2> PICK moved : moved = [entry EXCEPT !.split =
                      IF @ = "train" THEN "evaluation" ELSE "train"]
    OBVIOUS
  <2>3. moved.id = entry.id
    BY <2>2 DEF EntryFields
  <2>4. /\ manifest'.phase = "edited" /\ manifest'.useCase = manifest.useCase
        /\ manifest'.entries = (manifest.entries \ {entry}) \cup {moved}
    BY <2>1, <2>2 DEF ManifestFields
  <2> PICK useCase, ids : useCase = manifest.useCase /\ ids = IdsOf(manifest.entries)
    OBVIOUS
  <2>5. IdsOf(manifest'.entries) = ids
    BY <2>3, <2>4 DEF IdsOf
  <2>6. Named(useCase, ids)
    BY <2>2 DEF ManifestNamed
  <2>7. Named(useCase, ids)'
    BY <1>1, <2>6, NamedStays
  <2>8. Named(manifest.useCase, IdsOf(manifest.entries))'
    BY <2>4, <2>5, <2>7 DEF Named, Told, Outdated, Those, IdsOf
  <2> QED
    BY <2>4, <2>8 DEF ManifestNamed
<1> QED
  BY <1>2, <1>3, <1>4, <1>5, OthersLeaveManifest

\* A replay that was prepared, queued or not, and the rows it would be run on.
LEMMA PreparedRuns ==
    ASSUME RowInv, ReplayInv, ReplayNamed, RunAtOnce \/ RunReplayJob
    PROVE  \/ \E sample : /\ Run(sample) /\ OneById(sample)
                          /\ Told(replay.useCase, sample)
           \/ replay' = [replay EXCEPT !.phase = "failed"] /\ UNCHANGED documents
<1>1. CASE RunAtOnce
  BY <1>1 DEF RunAtOnce, ReplayNamed
<1>2. CASE RunReplayJob
  <2> PICK useCase, ids : useCase = replay.useCase /\ ids = IdsOf(replay.sample)
    OBVIOUS
  <2> PICK sample : sample = Those(ids)
    OBVIOUS
  <2>1. Named(useCase, ids)
    BY <1>2 DEF RunReplayJob, ReplayNamed
  <2>2. OneById(sample) /\ Told(useCase, sample)
    BY <2>1, ThoseAre
  <2>3. \/ Run(sample)
        \/ replay' = [replay EXCEPT !.phase = "failed"] /\ UNCHANGED documents
    BY <1>2 DEF RunReplayJob, Those, IdsOf
  <2> QED
    BY <2>2, <2>3
<1> QED
  BY <1>1, <1>2

LEMMA PrepareIsNamed ==
    ASSUME RowInv, ManifestNamed, PrepareReplay
    PROVE  \E useCase, sample :
              /\ replay'.phase = "prepared" /\ replay'.useCase = useCase
              /\ replay'.sample = sample
              /\ OneById(sample) /\ Told(useCase, sample)
              /\ Named(useCase, IdsOf(sample))
<1>1. ASSUME NEW useCase, NEW flow, NEW sample, NEW bound, NEW train,
             replay' = Prepared(useCase, flow, sample, bound, train)
      PROVE  /\ replay'.phase = "prepared" /\ replay'.useCase = useCase
             /\ replay'.sample = sample
  BY <1>1 DEF Prepared, NoReplay
<1>2. CASE \E useCase \in UseCases, flow \in Flows :
              replay' = Prepared(useCase, flow, Requests(useCase, flow), Null, {})
  <2>1. PICK useCase, flow :
          replay' = Prepared(useCase, flow, Requests(useCase, flow), Null, {})
    BY <1>2
  <2> PICK sample : sample = Requests(useCase, flow)
    OBVIOUS
  <2>2. OneById(sample) /\ Told(useCase, sample) /\ Named(useCase, IdsOf(sample))
    BY RequestsAre
  <2> QED
    BY <1>1, <2>1, <2>2
<1>3. CASE /\ manifest.phase \in {"made", "edited"}
           /\ LET bound == HeldOutEntries(manifest)
                  sample == {row \in rows : row.id \in {e.id : e \in bound}}
              IN  replay' = Prepared(manifest.useCase, manifest.flow, sample,
                                     bound, manifest.train)
  <2> PICK bound : bound = HeldOutEntries(manifest)
    OBVIOUS
  <2> PICK sample : sample = {row \in rows : row.id \in {e.id : e \in bound}}
    OBVIOUS
  <2> PICK useCase, ids : useCase = manifest.useCase /\ ids = IdsOf(manifest.entries)
    OBVIOUS
  <2>1. replay' = Prepared(useCase, manifest.flow, sample, bound, manifest.train)
    BY <1>3
  <2>2. Named(useCase, ids)
    BY <1>3 DEF ManifestNamed
  <2>3. sample \subseteq Those(ids)
    BY DEF HeldOutEntries, Those, IdsOf
  <2>4. OneById(sample) /\ Told(useCase, sample) /\ Named(useCase, IdsOf(sample))
    BY <2>2, <2>3, ThoseAre
  <2>5. /\ replay'.phase = "prepared" /\ replay'.useCase = useCase
        /\ replay'.sample = sample
    BY <1>1, <2>1
  <2> QED
    BY <2>4, <2>5
<1> QED
  BY <1>2, <1>3 DEF PrepareReplay

LEMMA ReplayNamedStep ==
    ASSUME RowInv, ManifestNamed, ReplayInv, RoleInv, ReplayNamed, supply \in Supplies,
           [OfflineNext]_offlineVars
    PROVE  ReplayNamed'
<1>1. Ages /\ DOMAIN replay = ReplayFields
  BY StoreAges DEF ReplayInv
<1>2. ASSUME NEW useCase, NEW sample,
             OneById(sample), Told(useCase, sample), Named(useCase, IdsOf(sample)),
             replay'.phase \in {"prepared", "queued"},
             replay'.useCase = useCase, replay'.sample = sample
      PROVE  ReplayNamed'
  <2> PICK ids : ids = IdsOf(sample)
    OBVIOUS
  <2>1. Told(useCase, sample)'
    BY <1>1, <1>2, ToldStays
  <2>2. Named(useCase, ids)'
    BY <1>1, <1>2, NamedStays
  <2>3. ReplayNamed' = (OneById(sample) /\ Told(useCase, sample)' /\ Named(useCase, ids)')
    BY <1>2 DEF ReplayNamed, OneById, Told, Outdated, Named, IdsOf, Those
  <2> QED
    BY ONLY <1>2, <2>1, <2>2, <2>3
<1>3. CASE PrepareReplay
  <2>1. PICK useCase, sample :
              /\ replay'.phase = "prepared" /\ replay'.useCase = useCase
              /\ replay'.sample = sample
              /\ OneById(sample) /\ Told(useCase, sample)
              /\ Named(useCase, IdsOf(sample))
    BY <1>3, PrepareIsNamed
  <2> QED
    BY <1>2, <2>1
<1>4. CASE QueueReplay
  <2>1. /\ replay'.phase = "queued" /\ replay'.useCase = replay.useCase
        /\ replay'.sample = replay.sample
    BY <1>1, <1>4 DEF QueueReplay, ReplayFields
  <2> PICK useCase, sample : useCase = replay.useCase /\ sample = replay.sample
    OBVIOUS
  <2>2. OneById(sample) /\ Told(useCase, sample) /\ Named(useCase, IdsOf(sample))
    BY <1>4 DEF QueueReplay, ReplayNamed
  <2> QED
    BY <1>2, <2>1, <2>2
<1>5. CASE RunAtOnce \/ RunReplayJob
  <2>1. CASE \E sample : Run(sample) /\ OneById(sample)
    <3>1. replay'.phase = "done" /\ ReplayEarned'
      BY <1>1, <2>1, RunEarns
    <3> QED
      BY <3>1 DEF ReplayNamed
  <2>2. CASE replay' = [replay EXCEPT !.phase = "failed"]
    <3>1. replay'.phase = "failed"
      BY <1>1, <2>2 DEF ReplayFields
    <3> QED
      BY <3>1 DEF ReplayNamed
  <2> QED
    BY <1>5, <2>1, <2>2, PreparedRuns
<1>6. CASE replay' = replay
  <2>1. CASE replay.phase \in {"prepared", "queued"}
    <3> PICK useCase, sample : useCase = replay.useCase /\ sample = replay.sample
      OBVIOUS
    <3>1. OneById(sample) /\ Told(useCase, sample) /\ Named(useCase, IdsOf(sample))
      BY <2>1 DEF ReplayNamed
    <3>2. /\ replay'.phase \in {"prepared", "queued"}
          /\ replay'.useCase = useCase /\ replay'.sample = sample
      BY <1>6, <2>1
    <3> QED
      BY <1>2, <3>1, <3>2
  <2>2. CASE replay.phase \notin {"prepared", "queued"}
    <3>1. replay.phase = "done" => ReplayEarned'
      BY <1>6 DEF ReplayNamed, ReplayEarned
    <3> QED
      BY <1>6, <2>2, <3>1 DEF ReplayNamed
  <2> QED
    BY <2>1, <2>2
<1> QED
  BY <1>3, <1>4, <1>5, <1>6, OthersLeaveReplay

LEMMA DocumentsStep ==
    ASSUME RowInv, ReplayInv, ReplayNamed, supply \in Supplies,
           \A d \in documents : Documented(d), [OfflineNext]_offlineVars
    PROVE  (\A d \in documents : Documented(d))'
<1>1. Ages /\ DOMAIN replay = ReplayFields
  BY StoreAges DEF ReplayInv
<1>2. ASSUME NEW d, Documented(d)
      PROVE  Documented(d)'
  <2> PICK useCase, from : useCase = d.useCase /\ from = d.from
    OBVIOUS
  <2>1. Told(useCase, from)
    BY <1>2 DEF Documented
  <2>2. Told(useCase, from)'
    BY <1>1, <2>1, ToldStays
  <2>3. d.verdict = "NON_INFERIOR" => d.units >= MinUnits
    BY <1>2 DEF Documented
  <2>4. Documented(d)' =
          (/\ Told(useCase, from)'
           /\ d.verdict = "NON_INFERIOR" => d.units >= MinUnits)
    BY DEF Documented
  <2> QED
    BY ONLY <2>2, <2>3, <2>4
<1>3. \/ documents' = documents
      \/ \E d : documents' = documents \cup {d} /\ Documented(d)
  <2>1. CASE RunAtOnce \/ RunReplayJob
    <3>1. CASE \E sample : /\ Run(sample) /\ OneById(sample)
                           /\ Told(replay.useCase, sample)
      <4>1. PICK sample : /\ Run(sample) /\ OneById(sample)
                          /\ Told(replay.useCase, sample)
        BY <3>1
      <4>2. \E d : /\ documents' = documents \cup {d}
                   /\ d.useCase = replay.useCase /\ d.from = sample
                   /\ d.verdict = "NON_INFERIOR" => d.units >= MinUnits
        BY <1>1, <4>1, RunEarns
      <4>3. PICK d : /\ documents' = documents \cup {d}
                     /\ d.useCase = replay.useCase /\ d.from = sample
                     /\ d.verdict = "NON_INFERIOR" => d.units >= MinUnits
        BY <4>2
      <4>4. Documented(d)
        BY <4>1, <4>3 DEF Documented
      <4> QED
        BY <4>3, <4>4
    <3> QED
      BY <2>1, <3>1, PreparedRuns
  <2>2. CASE ~(RunAtOnce \/ RunReplayJob)
    BY <2>2 DEF OfflineNext, ReplayNext, offlineVars, evaluationVars, PickDataset,
       MakeDataset, MoveEntry, PrepareReplay, QueueReplay, Calibrate
  <2> QED
    BY <2>1, <2>2
<1>4. ASSUME NEW d \in documents' PROVE Documented(d)'
  <2>1. Documented(d)
    BY <1>3
  <2> QED
    BY <1>2, <2>1
<1> QED
  BY <1>4

\* Unblinded, the human's difference is that of the qualities, whichever
\* output was shown as A.
LEMMA LabelIs ==
    ASSUME NEW reply \in Reply, NEW shown, NEW label,
           label = Unblind(Line(reply, shown), shown)
    PROVE  /\ label.baseline \in Int /\ label.candidate \in Int
           /\ label.human = 2 * (label.candidate - label.baseline)
<1>1. PICK b \in Int, c \in Int : b = reply.baseline /\ c = reply.candidate
  BY DEF Reply
<1>2. label = Labelled(b, c)
  <2>1. CASE shown
    BY <1>1, <2>1 DEF Unblind, Line
  <2>2. CASE ~shown
    BY <1>1, <2>2 DEF Unblind, Line
  <2> QED
    BY <2>1, <2>2
<1>3. /\ label.baseline = b /\ label.candidate = c
      /\ label.human = (4 + 2 * c) - (4 + 2 * b)
  BY <1>2 DEF Labelled, HumanScore
<1> QED
  BY <1>3

LEMMA CalibrateEarns ==
    ASSUME RowInv, supply \in Supplies, Calibrate
    PROVE  JudgeEarned'
<1>1. PICK useCase \in UseCases :
        LET sample == Requests(useCase, Null)
        IN  /\ MayReplay(sample, useCase)
            /\ \E judge \in supply.judges,
                  replies \in [{row.id : row \in sample} -> supply.replies] :
                LET row(id) == CHOOSE r \in sample : r.id = id
                    written == {id \in DOMAIN replies :
                        row(id).kept /\ ~replies[id].fails /\ ~Blank(replies[id])}
                IN  /\ written # {}
                    /\ \E key \in [written -> BOOLEAN] :
                        LET lines == [id \in written |-> Line(replies[id], key[id])]
                            labels == [id \in written |-> Unblind(lines[id], key[id])]
                        IN  calibration' = [judge |-> judge, labels |-> labels,
                                            replies |-> replies,
                                            report |-> Calibration(judge, labels)]
  BY DEF Calibrate
<1>10. \E judge, replies, written :
        /\ judge \in supply.judges
        /\ replies \in [IdsOf(Requests(useCase, Null)) -> supply.replies]
        /\ written \subseteq DOMAIN replies
        /\ \E key \in [written -> BOOLEAN] :
             LET lines == [id \in written |-> Line(replies[id], key[id])]
                 labels == [id \in written |-> Unblind(lines[id], key[id])]
             IN  calibration' = [judge |-> judge, labels |-> labels, replies |-> replies,
                                 report |-> Calibration(judge, labels)]
  <2>1. PICK judge \in supply.judges,
             replies \in [IdsOf(Requests(useCase, Null)) -> supply.replies] :
          LET row(id) == CHOOSE r \in Requests(useCase, Null) : r.id = id
              written == {id \in DOMAIN replies :
                  row(id).kept /\ ~replies[id].fails /\ ~Blank(replies[id])}
          IN  \E key \in [written -> BOOLEAN] :
                  LET lines == [id \in written |-> Line(replies[id], key[id])]
                      labels == [id \in written |-> Unblind(lines[id], key[id])]
                  IN  calibration' = [judge |-> judge, labels |-> labels,
                                      replies |-> replies,
                                      report |-> Calibration(judge, labels)]
    BY ONLY <1>1 DEF IdsOf
  <2> DEFINE row(id) == CHOOSE r \in Requests(useCase, Null) : r.id = id
             written == {id \in DOMAIN replies :
                           row(id).kept /\ ~replies[id].fails /\ ~Blank(replies[id])}
  <2>2. written \subseteq DOMAIN replies
    OBVIOUS
  <2>3. \E key \in [written -> BOOLEAN] :
            LET lines == [id \in written |-> Line(replies[id], key[id])]
                labels == [id \in written |-> Unblind(lines[id], key[id])]
            IN  calibration' = [judge |-> judge, labels |-> labels,
                                replies |-> replies,
                                report |-> Calibration(judge, labels)]
    BY ONLY <2>1
  <2> HIDE DEF written
  <2> QED
    BY ONLY <2>2, <2>3
<1> PICK sample : sample = Requests(useCase, Null)
  OBVIOUS
<1>7. PICK judge, replies, written :
        /\ judge \in supply.judges /\ replies \in [IdsOf(sample) -> supply.replies]
        /\ written \subseteq DOMAIN replies
        /\ \E key \in [written -> BOOLEAN] :
             LET lines == [id \in written |-> Line(replies[id], key[id])]
                 labels == [id \in written |-> Unblind(lines[id], key[id])]
             IN  calibration' = [judge |-> judge, labels |-> labels, replies |-> replies,
                                 report |-> Calibration(judge, labels)]
  BY ONLY <1>10, sample = Requests(useCase, Null)
<1>8. PICK key :
        LET lines == [id \in written |-> Line(replies[id], key[id])]
            labels == [id \in written |-> Unblind(lines[id], key[id])]
        IN  calibration' = [judge |-> judge, labels |-> labels, replies |-> replies,
                            report |-> Calibration(judge, labels)]
  BY ONLY <1>7
<1> PICK labels :
      labels = [id \in written |-> Unblind(Line(replies[id], key[id]), key[id])]
  OBVIOUS
<1>9. /\ written \subseteq DOMAIN replies
      /\ calibration' = [judge |-> judge, labels |-> labels, replies |-> replies,
                         report |-> Calibration(judge, labels)]
  BY ONLY <1>7, <1>8, labels = [id \in written |-> Unblind(Line(replies[id], key[id]), key[id])]
<1>2. judge \in Judge /\ \A id \in IdsOf(sample) : replies[id] \in Reply
  BY <1>7, ReplayAssumption DEF Judge, Reply
<1>3. IsFiniteSet(DOMAIN labels)
  <2>1. OneById(sample)
    BY RequestsAre
  <2>2. IsFiniteSet(IdsOf(sample)) /\ DOMAIN replies = IdsOf(sample)
    BY <1>7, <2>1, AsManyIds
  <2>3. DOMAIN labels \subseteq IdsOf(sample)
    BY <1>9, <2>2
  <2> QED
    BY <2>2, <2>3, FS_Subset
<1>4. ASSUME NEW i \in DOMAIN labels
      PROVE  /\ labels[i].baseline \in Int /\ labels[i].candidate \in Int
             /\ labels[i].human = 2 * (labels[i].candidate - labels[i].baseline)
  <2>1. i \in IdsOf(sample) /\ labels[i] = Unblind(Line(replies[i], key[i]), key[i])
    BY <1>7, <1>9
  <2>2. replies[i] \in Reply
    BY <1>2, <2>1
  <2> QED
    BY <2>1, <2>2, LabelIs
<1> PICK report : report = Calibration(judge, labels)
  OBVIOUS
<1>5. report.verdict = "ALIGNED" /\ ~report.noSpread =>
         judge.scale > 0 /\ 2 * judge.style <= NIMargin
  BY ONLY <1>2, <1>3, <1>4, report = Calibration(judge, labels), AlignedSeesQuality
<1>6. calibration'.judge = judge /\ calibration'.report = report
  BY <1>9
<1> QED
  BY <1>5, <1>6 DEF JudgeEarned

LEMMA EarnedInitially == OfflineInit => EarnedInv
<1> SUFFICES ASSUME OfflineInit PROVE EarnedInv
  OBVIOUS
<1>1. supply \in Supplies /\ RoleInv
  BY DEF OfflineInit, AnalysisInit, RoleInv
<1>2. ManifestNamed /\ ReplayNamed
  BY DEF OfflineInit, ReplayInit, NoManifest, NoReplay, ManifestNamed, ReplayNamed
<1>3. (\A d \in documents : Documented(d)) /\ calibration = Null
  BY DEF OfflineInit, ReplayInit
<1> QED
  BY <1>1, <1>2, <1>3 DEF EarnedInv

LEMMA EarnedStep ==
    ASSUME OfflineInv, EarnedInv, [OfflineNext]_offlineVars
    PROVE  EarnedInv'
<1>1. RowInv /\ ManifestInv /\ ReplayInv
  BY DEF OfflineInv
<1>2. /\ supply \in Supplies /\ RoleInv /\ ManifestNamed /\ ReplayNamed
      /\ \A d \in documents : Documented(d)
      /\ calibration # Null => JudgeEarned
  BY DEF EarnedInv
<1>3. (supply \in Supplies)' /\ RoleInv'
  BY <1>1, <1>2, OthersLeaveCode, StoreAges, RolesStay
<1>4. ManifestNamed' /\ ReplayNamed'
  BY <1>1, <1>2, ManifestNamedStep, ReplayNamedStep
<1>5. (\A d \in documents : Documented(d))'
  BY <1>1, <1>2, DocumentsStep
<1>6. (calibration # Null => JudgeEarned)'
  <2>1. Calibrate \/ UNCHANGED calibration
    BY DEF OfflineNext, ReplayNext, offlineVars, evaluationVars, PickDataset,
       MakeDataset, MoveEntry, PrepareReplay, QueueReplay, RunAtOnce, RunReplayJob
  <2>2. CASE Calibrate
    BY <1>1, <1>2, <2>2, CalibrateEarns
  <2>3. CASE UNCHANGED calibration
    BY <1>2, <2>3 DEF JudgeEarned
  <2> QED
    BY <2>1, <2>2, <2>3
<1> QED
  BY <1>3, <1>4, <1>5, <1>6 DEF EarnedInv

\* A role that the campaign blesses is of this release: a document about one
\* that is outdated blesses no row's.
LEMMA EarnedBlesses ==
    ASSUME EarnedInv
    PROVE  BlessingEarned
<1> SUFFICES ASSUME NEW useCase \in Blessed(documents)
             PROVE  \E d \in documents :
                       /\ d.useCase = useCase /\ d.units >= MinUnits
                       /\ \A row \in d.from : row.is.role = useCase
  BY DEF BlessingEarned
<1>1. useCase \in UseCases /\ \E d \in RoleEvidence(documents, useCase) :
                                 d.verdict = "NON_INFERIOR"
  BY DEF Blessed
<1>2. PICK d \in documents : d.useCase = useCase /\ d.verdict = "NON_INFERIOR"
  BY <1>1 DEF RoleEvidence
<1>3. Told(useCase, d.from) /\ d.units >= MinUnits
  BY <1>2 DEF EarnedInv, Documented
<1>4. ~Outdated(useCase)
  BY <1>1 DEF UseCases, Outdated
<1> QED
  BY <1>2, <1>3, <1>4 DEF Told

\* Whatever is recorded, upgraded, re-enriched and erased meanwhile, a verdict
\* rests on enough independent tasks and few failures, each difference in it
\* is that of the qualities in whichever order the judge saw them, a role is
\* blessed by a report on calls of that role alone, and a judge that passes
\* calibration sees quality and favours no arm (eval/judge.py:1,
\* eval/replay.py:71, analysis/campaign.py:137, eval/calibration.py:98).
THEOREM VerdictIsEarned == OfflineSpec => []VerdictEarned
<1>1. OfflineInit => EarnedInv
  BY EarnedInitially
<1>2. OfflineInv /\ EarnedInv /\ [OfflineNext]_offlineVars => EarnedInv'
  BY EarnedStep
<1>3. EarnedInv => VerdictEarned
  BY EarnedBlesses DEF EarnedInv, ReplayNamed, VerdictEarned
<1> QED
  BY <1>1, <1>2, <1>3, OfflineInvariant, PTL DEF OfflineSpec

-----------------------------------------------------------------------------
(* Correlation *)

\* What holds at zero and is kept by every successor holds at every number.
LEMMA ByInduction ==
    ASSUME NEW S, 0 \in S, \A i \in Nat : i \in S => i + 1 \in S
    PROVE  Nat \subseteq S
<1> DEFINE Bad == Nat \ S
<1>1. ASSUME Bad # {} PROVE FALSE
  <2>1. PICK m \in Bad : \A l \in Bad : ~(<<l, m>> \in OpToRel(<, Nat))
    BY <1>1, NatLessThanWellFounded, WFMin
  <2>2. m \in Nat /\ m \notin S /\ \A l \in Nat : l < m => l \in S
    BY <2>1 DEF OpToRel
  <2>3. PICK l \in Nat : m = l + 1
    BY <2>2
  <2> QED
    BY <2>2, <2>3
<1> QED
  BY <1>1

\* The traces of a store: each has the fields the analyses read, and an id.
TraceFields ==
    {"id", "ts", "task", "role", "evidence", "history", "echoed", "consumed",
     "produced"}
IsTrace(t) ==
    DOMAIN t = TraceFields /\ t.id \in Nat \ {0} /\ t.ts \in Int /\ t.task \in Int
AreTraces(traces) ==
    /\ IsFiniteSet(traces)
    /\ \A t \in traces : IsTrace(t)
    /\ \A t, u \in traces : t.id = u.id => t = u

LEMMA EarlierOrders ==
    ASSUME NEW V, AreTraces(V)
    PROVE  /\ \A t \in V : ~Earlier(t, t)
           /\ \A t, u \in V : t = u \/ Earlier(t, u) \/ Earlier(u, t)
           /\ \A t, u, w \in V : Earlier(t, u) /\ Earlier(u, w) => Earlier(t, w)
  BY DEF AreTraces, IsTrace, Earlier

\* Put in order, the traces of a store are in it once each.
Ordered(o, n, V) ==
    /\ n \in Nat
    /\ \A i \in 1..n : o[i] \in V
    /\ \A t \in V : \E i \in 1..n : t = o[i]
    /\ \A i, j \in 1..n : i < j => Earlier(o[i], o[j])

LEMMA InOrderOrders ==
    ASSUME NEW V, AreTraces(V)
    PROVE  /\ Ordered(InOrder(V), Cardinality(V), V)
           /\ Len(InOrder(V)) = Cardinality(V)
<1> PICK n : n = Cardinality(V)
  OBVIOUS
<1>1. n \in Nat /\ IsFiniteSet(V)
  BY FS_CardinalityType DEF AreTraces
<1> DEFINE Below(t) == {u \in V : Earlier(u, t)}
           rank == [t \in V |-> Cardinality(Below(t))]
<1>2. ASSUME NEW t \in V, NEW u \in V, Earlier(t, u) PROVE rank[t] < rank[u]
  <2>1. Below(t) \subseteq Below(u) /\ t \in Below(u) /\ t \notin Below(t)
    BY <1>2, EarlierOrders
  <2>2. IsFiniteSet(Below(u))
    BY <1>1, FS_Subset
  <2>3. /\ Cardinality(Below(t)) <= Cardinality(Below(u))
        /\ Cardinality(Below(t)) # Cardinality(Below(u)) /\ IsFiniteSet(Below(t))
    BY <2>1, <2>2, FS_Subset
  <2>4. Cardinality(Below(t)) \in Nat /\ Cardinality(Below(u)) \in Nat
    BY <2>2, <2>3, FS_CardinalityType
  <2> QED
    BY <2>3, <2>4
<1>3. ASSUME NEW t \in V PROVE rank[t] \in 0..n - 1
  <2>1. Below(t) \subseteq V /\ t \notin Below(t)
    BY EarlierOrders
  <2>2. /\ IsFiniteSet(Below(t)) /\ Cardinality(Below(t)) <= n
        /\ Cardinality(Below(t)) # n
    BY <1>1, <2>1, FS_Subset
  <2>3. Cardinality(Below(t)) \in Nat
    BY <2>2, FS_CardinalityType
  <2> QED
    BY <1>1, <2>2, <2>3
<1> HIDE DEF rank
<1>4. \A t, u \in V : rank[t] = rank[u] => t = u
  <2>1. ASSUME NEW t \in V, NEW u \in V, rank[t] = rank[u], t # u PROVE FALSE
    <3>1. rank[t] \in Int /\ rank[u] \in Int
      BY <1>3
    <3>2. Earlier(t, u) \/ Earlier(u, t)
      BY <2>1, EarlierOrders
    <3> QED
      BY <1>2, <2>1, <3>1, <3>2
  <2> QED
    BY <2>1
<1>5. ASSUME NEW k \in 0..n - 1 PROVE \E t \in V : rank[t] = k
  <2>1. ASSUME \A t \in V : rank[t] # k PROVE FALSE
    <3> DEFINE T == (0..n - 1) \ {k}
               f == [t \in V |-> rank[t]]
    <3>1. IsFiniteSet(0..n - 1) /\ Cardinality(0..n - 1) = n
      BY <1>1, FS_Interval
    <3>2. IsFiniteSet(T) /\ Cardinality(T) = n - 1
      BY <3>1, FS_RemoveElement
    <3>3. f \in [V -> T]
      BY <1>3, <2>1
    <3>4. Cardinality(T) < Cardinality(V)
      BY <1>1, <3>2
    <3> HIDE DEF f, T
    <3>5. \E t, u \in V : t # u /\ f[t] = f[u]
      BY ONLY <1>1, <3>2, <3>3, <3>4, FS_PigeonHole
    <3> QED
      BY <1>4, <3>5 DEF f
  <2> QED
    BY <2>1
<1> PICK o : o = InOrder(V)
  OBVIOUS
<1>6. o = [i \in 1..n |-> CHOOSE t \in V : Cardinality(Below(t)) = i - 1]
  BY DEF InOrder
<1>7. ASSUME NEW i \in 1..n PROVE o[i] \in V /\ rank[o[i]] = i - 1
  <2>1. i - 1 \in 0..n - 1
    BY <1>1
  <2>2. \E t \in V : Cardinality(Below(t)) = i - 1
    BY <1>5, <2>1 DEF rank
  <2>3. o[i] \in V /\ Cardinality(Below(o[i])) = i - 1
    <3>1. o[i] = CHOOSE t \in V : Cardinality(Below(t)) = i - 1
      BY <1>6
    <3> HIDE DEF Below
    <3> QED
      BY <2>2, <3>1
  <2> QED
    BY <2>3 DEF rank
<1>8. ASSUME NEW t \in V PROVE \E i \in 1..n : t = o[i]
  <2>1. rank[t] + 1 \in 1..n /\ rank[t] \in Int
    BY <1>1, <1>3
  <2>2. o[rank[t] + 1] \in V /\ rank[o[rank[t] + 1]] = rank[t]
    BY <1>7, <2>1
  <2> QED
    BY <1>4, <2>1, <2>2
<1>9. ASSUME NEW i \in 1..n, NEW j \in 1..n, i < j PROVE Earlier(o[i], o[j])
  <2>1. rank[o[i]] < rank[o[j]] /\ o[i] \in V /\ o[j] \in V
    BY <1>7, <1>9
  <2>2. o[i] # o[j]
    BY <2>1, <1>3
  <2>3. ~Earlier(o[j], o[i])
    <3>1. rank[o[i]] \in Int /\ rank[o[j]] \in Int
      BY <1>3, <2>1
    <3> QED
      BY <1>2, <2>1, <3>1
  <2> QED
    BY <2>1, <2>2, <2>3, EarlierOrders
<1>10. Len(o) = n
  <2>1. o \in [1..n -> V]
    BY <1>6, <1>7
  <2> QED
    BY <1>1, <2>1
<1> QED
  BY <1>1, <1>7, <1>8, <1>9, <1>10 DEF Ordered

\* The traces are joined one after the other.
Start == [traces |-> {}, fragments |-> {}, ambiguous |-> 0]
Joins(a, o, n) ==
    a = [i \in 0..n |-> IF i = 0 THEN Start ELSE Correlated(a[i - 1], o[i])]

LEMMA JoinsExist == \A n \in Nat : \A o : \E a : Joins(a, o, n)
<1> SUFFICES ASSUME NEW o PROVE \A n \in Nat : \E a : Joins(a, o, n)
  OBVIOUS
<1> DEFINE S == {n \in Nat : \E a : Joins(a, o, n)}
<1>1. 0 \in S
  <2> DEFINE a == [i \in 0..0 |-> Start]
  <2>1. Joins(a, o, 0)
    BY DEF Joins
  <2> QED
    BY <2>1
<1>2. ASSUME NEW n \in Nat, n \in S PROVE n + 1 \in S
  <2>1. PICK a : Joins(a, o, n)
    BY <1>2
  <2> PICK last : last = Correlated(a[n], o[n + 1])
    OBVIOUS
  <2> PICK b : b = [i \in 0..n + 1 |-> IF i = n + 1 THEN last ELSE a[i]]
    OBVIOUS
  <2>2. ASSUME NEW i \in 0..n + 1
        PROVE  b[i] = IF i = 0 THEN Start ELSE Correlated(b[i - 1], o[i])
    <3>1. CASE i = n + 1
      <4>1. b[i - 1] = a[n] /\ b[i] = last /\ i # 0
        BY <3>1
      <4> QED
        BY <3>1, <4>1
    <3>2. CASE i # n + 1
      <4>1. i \in 0..n /\ b[i] = a[i]
        BY <3>2
      <4>2. a[i] = IF i = 0 THEN Start ELSE Correlated(a[i - 1], o[i])
        BY <2>1, <4>1 DEF Joins
      <4>3. i # 0 => b[i - 1] = a[i - 1]
        BY <4>1
      <4> QED
        BY <4>1, <4>2, <4>3
    <3> QED
      BY <3>1, <3>2
  <2>3. Joins(b, o, n + 1)
    BY <2>2 DEF Joins
  <2> QED
    BY <2>3
<1>3. Nat \subseteq S
  <2> HIDE DEF S
  <2> QED
    BY ONLY <1>1, <1>2, ByInduction
<1> QED
  BY <1>3

Joined1(a, o, n) ==
    a[0] = Start /\ \A i \in 1..n : a[i] = Correlated(a[i - 1], o[i])

LEMMA CorrelateIs ==
    ASSUME NEW V, AreTraces(V)
    PROVE  \E o, n, a : /\ Ordered(o, n, V) /\ Joined1(a, o, n)
                        /\ Correlate(V) = a[n]
<1> PICK o : o = InOrder(V)
  OBVIOUS
<1> PICK n : n = Cardinality(V)
  OBVIOUS
<1>1. Ordered(o, n, V) /\ Len(o) = n /\ n \in Nat
  BY InOrderOrders DEF Ordered
<1> PICK a : a = CHOOSE b : Joins(b, o, Len(o))
  OBVIOUS
<1>2. Correlate(V) = a[Len(o)]
  BY DEF Correlate, Joins, Start
<1>3. \E b : Joins(b, o, Len(o))
  BY <1>1, JoinsExist
<1>4. Joins(a, o, n)
  BY <1>1, <1>3
<1>5. a[0] = Start
  BY <1>1, <1>4 DEF Joins
<1>6. ASSUME NEW i \in 1..n PROVE a[i] = Correlated(a[i - 1], o[i])
  <2>1. i \in 0..n /\ i # 0
    BY <1>1
  <2> QED
    BY <1>4, <2>1 DEF Joins
<1>7. Joined1(a, o, n)
  BY <1>5, <1>6 DEF Joined1
<1> QED
  BY <1>1, <1>2, <1>7

\* Traces that all have a task are handed on as they are.
LEMMA CorrelatePasses ==
    ASSUME NEW V, AreTraces(V), \A t \in V : t.task # NoTask
    PROVE  Correlate(V).traces = V
<1>1. PICK o, n, a : Ordered(o, n, V) /\ Joined1(a, o, n) /\ Correlate(V) = a[n]
  BY CorrelateIs
<1> DEFINE upto(i) == {o[j] : j \in 1..i}
           OK(i) == /\ DOMAIN a[i] = {"traces", "fragments", "ambiguous"}
                    /\ a[i].traces = upto(i)
           S == {i \in Nat : i <= n => OK(i)}
<1>2. n \in Nat
  BY <1>1 DEF Ordered
<1>3. 0 \in S
  <2>1. a[0] = Start
    BY <1>1 DEF Joined1
  <2>2. DOMAIN Start = {"traces", "fragments", "ambiguous"} /\ Start.traces = {}
    BY DEF Start
  <2>3. upto(0) = {}
    OBVIOUS
  <2> QED
    BY <2>1, <2>2, <2>3
<1>4. ASSUME NEW i \in Nat, i \in S PROVE i + 1 \in S
  <2>1. SUFFICES ASSUME i + 1 <= n PROVE OK(i + 1)
    OBVIOUS
  <2>2. OK(i)
    BY <1>2, <1>4, <2>1
  <2>3. i + 1 \in 1..n
    BY <1>2, <2>1
  <2>4. a[i + 1] = Correlated(a[i], o[i + 1])
    <3>1. (i + 1) - 1 = i
      OBVIOUS
    <3> QED
      BY <1>1, <2>3, <3>1 DEF Joined1
  <2>5. o[i + 1] \in V
    BY <1>1, <2>3 DEF Ordered
  <2> PICK found, t : found = a[i] /\ t = o[i + 1]
    OBVIOUS
  <2>6. a[i + 1] = [found EXCEPT !.traces = @ \cup {t}]
    BY <2>4, <2>5 DEF Correlated
  <2>7. /\ DOMAIN a[i + 1] = {"traces", "fragments", "ambiguous"}
        /\ a[i + 1].traces = found.traces \cup {t}
    BY <2>2, <2>6
  <2>8. upto(i + 1) = upto(i) \cup {t}
    <3>1. 1..i + 1 = (1..i) \cup {i + 1}
      OBVIOUS
    <3> QED
      BY <3>1
  <2> QED
    BY <2>2, <2>7, <2>8
<1>5. OK(n)
  <2>1. Nat \subseteq S
    <3> HIDE DEF S
    <3> QED
      BY ONLY <1>3, <1>4, ByInduction
  <2> QED
    BY <1>2, <2>1
<1>6. upto(n) = V
  BY <1>1 DEF Ordered
<1> QED
  BY <1>1, <1>5, <1>6

\* Said of one call, before and after it is given a task.
SameBody(u, t) ==
    /\ u.id = t.id /\ u.ts = t.ts /\ u.history = t.history
    /\ u.consumed = t.consumed /\ u.produced = t.produced /\ u.echoed = t.echoed

Shown(u) == ToolIds(u.produced \cup u.echoed)

\* The traces found that come before another, those that say something about
\* it, and the task it has by them.
Before(found, t) == {u \in found : u.task < NoTask /\ Earlier(u, t)}
SaysByTool(S, t) == {u \in S : t.consumed \cap Shown(u) # {}}
SaysByHistory(S, t) == {u \in S : ExtendsHistory(u.history, t.history)}
Says(S, t) == IF SaysByTool(S, t) # {} THEN SaysByTool(S, t) ELSE SaysByHistory(S, t)
TasksIn(S) == {u.task : u \in S}
Settled(tasks, t) ==
    IF Cardinality(tasks) = 1 THEN CHOOSE task \in tasks : TRUE ELSE Synthetic(t.id)
TaskOf(found, t) == Settled(TasksIn(Says(Before(found, t), t)), t)

\* A fragment is what its traces have in common.
In(f, found) == {u \in found : u.task < NoTask /\ u.task = f.task}
FragmentFields == {"task", "size", "histories", "tools"}
IsFragment(f, found) ==
    /\ DOMAIN f = FragmentFields
    /\ \E u \in found : f.task = Synthetic(u.id)
    /\ In(f, found) # {}
    /\ \A h : h \in f.histories <=> h # <<>> /\ \E u \in In(f, found) : u.history = h
    /\ \A x : x \in f.tools <=> \E u \in In(f, found) : x \in Shown(u)
Fragments(fragments, found) ==
    /\ IsFiniteSet(fragments)
    /\ \A f \in fragments : IsFragment(f, found)
    /\ \A f, g \in fragments : f.task = g.task => f = g
    /\ \A u \in found : u.task < NoTask => \E f \in fragments : f.task = u.task

\* What has been found of the traces read so far.
Found(found, seen) ==
    /\ AreTraces(found)
    /\ \A u \in found : \E t \in seen : SameBody(u, t)
    /\ \A t \in seen : t.task # NoTask => t \in found
    /\ \A u \in found : /\ u.task # NoTask
                        /\ u.task < NoTask => u.task = TaskOf(found, u)

\* One trace comes after all that was read.
Latest(t, seen) ==
    /\ IsTrace(t) /\ t.task >= NoTask
    /\ \A s \in seen : IsTrace(s) /\ Earlier(s, t) /\ s.id # t.id

LEMMA LatestOfFound ==
    ASSUME NEW found, NEW seen, NEW t, Found(found, seen), Latest(t, seen)
    PROVE  \A u \in found : /\ IsTrace(u) /\ Earlier(u, t) /\ u.id # t.id
                            /\ ~Earlier(t, u)
<1> SUFFICES ASSUME NEW u \in found
             PROVE  /\ IsTrace(u) /\ Earlier(u, t) /\ u.id # t.id /\ ~Earlier(t, u)
  OBVIOUS
<1>1. PICK s \in seen : SameBody(u, s)
  BY DEF Found
<1>2. IsTrace(s) /\ Earlier(s, t) /\ s.id # t.id /\ IsTrace(t) /\ IsTrace(u)
  BY DEF Latest, Found, AreTraces
<1> QED
  BY <1>1, <1>2 DEF SameBody, Earlier, IsTrace

\* What comes last changes nothing before it.
LEMMA LatestLeaves ==
    ASSUME NEW found, NEW t, \A u \in found : ~Earlier(t, u)
    PROVE  \A u \in found : TaskOf(found \cup {t}, u) = TaskOf(found, u)
<1> SUFFICES ASSUME NEW u \in found
             PROVE  TaskOf(found \cup {t}, u) = TaskOf(found, u)
  OBVIOUS
<1>1. Before(found \cup {t}, u) = Before(found, u)
  BY DEF Before
<1> QED
  BY <1>1 DEF TaskOf

LEMMA PassesFound ==
    ASSUME NEW found, NEW seen, NEW t, Found(found, seen), Latest(t, seen),
           t.task # NoTask
    PROVE  Found(found \cup {t}, seen \cup {t})
<1>1. \A u \in found : /\ IsTrace(u) /\ Earlier(u, t) /\ u.id # t.id
                       /\ ~Earlier(t, u)
  BY LatestOfFound
<1>2. IsTrace(t) /\ ~(t.task < NoTask)
  BY DEF Latest, IsTrace, NoTask
<1>3. AreTraces(found \cup {t})
  <2>1. IsFiniteSet(found \cup {t})
    BY FS_AddElement DEF Found, AreTraces
  <2> QED
    BY <1>1, <1>2, <2>1 DEF Found, AreTraces
<1>4. \A u \in found \cup {t} : \E s \in seen \cup {t} : SameBody(u, s)
  BY DEF Found, SameBody
<1>5. \A s \in seen \cup {t} : s.task # NoTask => s \in found \cup {t}
  BY DEF Found
<1>6. \A u \in found : TaskOf(found \cup {t}, u) = TaskOf(found, u)
  BY <1>1, LatestLeaves
<1>7. ASSUME NEW u \in found \cup {t}
      PROVE  /\ u.task # NoTask
             /\ u.task < NoTask => u.task = TaskOf(found \cup {t}, u)
  <2>1. CASE u = t
    BY <1>2, <2>1
  <2>2. CASE u \in found
    BY <1>6, <2>2 DEF Found
  <2> QED
    BY <2>1, <2>2
<1> QED
  BY <1>3, <1>4, <1>5, <1>7 DEF Found

LEMMA PassesFragments ==
    ASSUME NEW found, NEW fragments, NEW t, Fragments(fragments, found),
           ~(t.task < NoTask)
    PROVE  Fragments(fragments, found \cup {t})
<1>1. \A f \in fragments : In(f, found \cup {t}) = In(f, found)
  BY DEF In
<1>2. ASSUME NEW f \in fragments PROVE IsFragment(f, found \cup {t})
  <2>1. IsFragment(f, found)
    BY DEF Fragments
  <2> QED
    BY <1>1, <2>1 DEF IsFragment
<1>3. \A u \in found \cup {t} : u.task < NoTask => \E f \in fragments : f.task = u.task
  BY DEF Fragments
<1> QED
  BY <1>2, <1>3 DEF Fragments

\* A fragment says of the next trace what one of its traces says.
LEMMA FragmentsSay ==
    ASSUME NEW found, NEW fragments, NEW t, Fragments(fragments, found),
           \A u \in found : Earlier(u, t)
    PROVE  TasksIn(Says(Before(found, t), t)) = TasksIn(Candidates(fragments, t))
<1> PICK B : B = Before(found, t)
  OBVIOUS
<1>1. \A f \in fragments : \A u : u \in In(f, found) <=> u \in B /\ u.task = f.task
  BY DEF In, Before
<1>2. \A u \in B : \E f \in fragments : u \in In(f, found)
  BY <1>1 DEF Fragments, Before
<1>3. ASSUME NEW f \in fragments
      PROVE  /\ \A h : h \in f.histories <=>
                          h # <<>> /\ \E u \in In(f, found) : u.history = h
             /\ \A x : x \in f.tools <=> \E u \in In(f, found) : x \in Shown(u)
  BY DEF Fragments, IsFragment
<1>4. TasksIn(SaysByTool(B, t)) = TasksIn(ByTool(fragments, t))
  <2>1. ASSUME NEW u \in SaysByTool(B, t)
        PROVE  \E f \in ByTool(fragments, t) : f.task = u.task
    <3>1. u \in B /\ \E x : x \in t.consumed /\ x \in Shown(u)
      BY DEF SaysByTool
    <3>2. PICK f \in fragments : u \in In(f, found)
      BY <1>2, <3>1
    <3>3. f \in ByTool(fragments, t)
      BY <1>3, <3>1, <3>2 DEF ByTool
    <3>4. f.task = u.task
      BY <1>1, <3>2
    <3> QED
      BY <3>3, <3>4
  <2>2. ASSUME NEW f \in ByTool(fragments, t)
        PROVE  \E u \in SaysByTool(B, t) : f.task = u.task
    <3>1. f \in fragments /\ \E x : x \in t.consumed /\ x \in f.tools
      BY DEF ByTool
    <3>2. \E u \in In(f, found) : \E x : x \in t.consumed /\ x \in Shown(u)
      BY <1>3, <3>1
    <3>5. PICK u \in In(f, found) : \E x : x \in t.consumed /\ x \in Shown(u)
      BY ONLY <3>2
    <3>3. u \in B /\ u.task = f.task
      BY <1>1, <3>1, <3>5
    <3>4. u \in SaysByTool(B, t)
      BY <3>3, <3>5 DEF SaysByTool
    <3> QED
      BY <3>3, <3>4
  <2> QED
    BY <2>1, <2>2 DEF TasksIn
<1>5. TasksIn(SaysByHistory(B, t)) = TasksIn(ByHistory(fragments, t))
  <2>1. ASSUME NEW u \in SaysByHistory(B, t)
        PROVE  \E f \in ByHistory(fragments, t) : f.task = u.task
    <3>1. u \in B /\ ExtendsHistory(u.history, t.history) /\ u.history # <<>>
      BY DEF SaysByHistory, ExtendsHistory
    <3>2. PICK f \in fragments : u \in In(f, found)
      BY <1>2, <3>1
    <3>3. u.history \in f.histories
      BY <1>3, <3>1, <3>2
    <3>4. f \in ByHistory(fragments, t)
      BY <3>1, <3>3 DEF ByHistory
    <3>5. f.task = u.task
      BY <1>1, <3>2
    <3> QED
      BY <3>4, <3>5
  <2>2. ASSUME NEW f \in ByHistory(fragments, t)
        PROVE  \E u \in SaysByHistory(B, t) : f.task = u.task
    <3>1. f \in fragments /\ \E h \in f.histories : ExtendsHistory(h, t.history)
      BY DEF ByHistory
    <3>2. PICK u \in In(f, found) : ExtendsHistory(u.history, t.history)
      BY <1>3, <3>1
    <3>3. u \in B /\ u.task = f.task
      BY <1>1, <3>1, <3>2
    <3>4. u \in SaysByHistory(B, t)
      BY <3>2, <3>3 DEF SaysByHistory
    <3> QED
      BY <3>3, <3>4
  <2> QED
    BY <2>1, <2>2 DEF TasksIn
<1>6. SaysByTool(B, t) = {} <=> ByTool(fragments, t) = {}
  BY <1>4 DEF TasksIn
<1> QED
  BY <1>4, <1>5, <1>6 DEF Says, Candidates

\* The home of a trace has the task that is settled for it.
LEMMA HomeSettles ==
    ASSUME NEW candidates, NEW t, IsFiniteSet(candidates),
           \A f, g \in candidates : f.task = g.task => f = g
    PROVE  /\ Home(candidates, t).task = Settled(TasksIn(candidates), t)
           /\ \/ Home(candidates, t) \in candidates
              \/ Home(candidates, t) = Beginning(t)
<1>1. CASE Cardinality(candidates) = 1
  <2>1. PICK f : candidates = {f}
    BY <1>1, FS_Singleton
  <2>2. Home(candidates, t) = f
    BY <1>1, <2>1 DEF Home
  <2>3. TasksIn(candidates) = {f.task}
    BY <2>1 DEF TasksIn
  <2>4. Settled({f.task}, t) = f.task
    BY FS_Singleton DEF Settled
  <2> QED
    BY <2>1, <2>2, <2>3, <2>4
<1>2. CASE Cardinality(candidates) # 1
  <2>1. Home(candidates, t) = Beginning(t) /\ Beginning(t).task = Synthetic(t.id)
    BY <1>2 DEF Home, Beginning
  <2>2. Cardinality(TasksIn(candidates)) # 1
    <3>1. ASSUME Cardinality(TasksIn(candidates)) = 1 PROVE FALSE
      <4> PICK T : T = TasksIn(candidates)
        OBVIOUS
      <4>1. IsFiniteSet(T)
        <5> DEFINE h == [f \in candidates |-> f.task]
        <5>1. h \in Surjection(candidates, T)
          BY DEF Surjection, TasksIn
        <5> HIDE DEF h
        <5> QED
          BY <5>1, FS_Surjection
      <4>2. PICK task : T = {task}
        BY <3>1, <4>1, FS_Singleton
      <4>3. PICK f \in candidates : f.task = task
        BY <4>2 DEF TasksIn
      <4>4. candidates = {f}
        BY <4>2, <4>3 DEF TasksIn
      <4> QED
        BY <1>2, <4>4, FS_Singleton
    <3> QED
      BY <3>1
  <2>3. Settled(TasksIn(candidates), t) = Synthetic(t.id)
    BY <2>2 DEF Settled
  <2> QED
    BY <2>1, <2>3
<1> QED
  BY <1>1, <1>2

\* A trace with a task and the evidence for it.
Put(t, task, evidence) == [t EXCEPT !.task = task, !.evidence = evidence]

LEMMA PutIs ==
    ASSUME NEW t, IsTrace(t), NEW task \in Int, NEW evidence
    PROVE  /\ IsTrace(Put(t, task, evidence)) /\ SameBody(Put(t, task, evidence), t)
           /\ Put(t, task, evidence).task = task
  BY DEF IsTrace, TraceFields, Put, SameBody

\* What has been found grows by a trace that goes to the fragment settled.
LEMMA PutsFound ==
    ASSUME NEW found, NEW seen, NEW t, NEW u, Found(found, seen), Latest(t, seen),
           t.task = NoTask, IsTrace(u), SameBody(u, t), u.task < NoTask,
           u.task = TaskOf(found, t)
    PROVE  Found(found \cup {u}, seen \cup {t})
<1>1. \A w \in found : /\ IsTrace(w) /\ Earlier(w, t) /\ w.id # t.id
                       /\ ~Earlier(t, w)
  BY LatestOfFound
<1>2. \A w \in found : w.id # u.id /\ ~Earlier(u, w)
  BY <1>1 DEF SameBody, Earlier
<1>3. AreTraces(found \cup {u})
  <2>1. IsFiniteSet(found \cup {u})
    BY FS_AddElement DEF Found, AreTraces
  <2> QED
    BY <1>2, <2>1 DEF Found, AreTraces
<1>4. \A w \in found \cup {u} : \E s \in seen \cup {t} : SameBody(w, s)
  BY DEF Found
<1>5. \A s \in seen \cup {t} : s.task # NoTask => s \in found \cup {u}
  BY DEF Found
<1>6. \A w \in found : TaskOf(found \cup {u}, w) = TaskOf(found, w)
  BY <1>2, LatestLeaves
<1>7. TaskOf(found \cup {u}, u) = TaskOf(found, t)
  <2>1. Before(found \cup {u}, u) = Before(found, t)
    BY DEF Before, Earlier, SameBody, IsTrace
  <2>2. \A S : Says(S, u) = Says(S, t)
    BY DEF Says, SaysByTool, SaysByHistory, SameBody
  <2>3. \A S : Settled(S, u) = Settled(S, t)
    BY DEF Settled, SameBody
  <2> QED
    BY <2>1, <2>2, <2>3 DEF TaskOf
<1>8. u.task # NoTask
  BY DEF IsTrace, NoTask
<1>9. \A w \in found \cup {u} :
        /\ w.task # NoTask
        /\ w.task < NoTask => w.task = TaskOf(found \cup {u}, w)
  BY <1>6, <1>7, <1>8 DEF Found
<1> QED
  BY <1>3, <1>4, <1>5, <1>9 DEF Found

\* The fragments that go on, without the one that a trace is put into.
LEMMA GrownIs ==
    ASSUME NEW home, DOMAIN home = FragmentFields, NEW t
    PROVE  /\ DOMAIN Grown(home, t) = FragmentFields
           /\ Grown(home, t).task = home.task
           /\ Grown(home, t).histories = home.histories \cup ({t.history} \ {<<>>})
           /\ Grown(home, t).tools = home.tools \cup Shown(t)
  BY DEF Grown, FragmentFields, Shown

LEMMA GrowsFragments ==
    ASSUME NEW found, NEW others, NEW home, NEW t, NEW u,
           SameBody(u, t), u.task = home.task, u.task < NoTask,
           \E w \in found \cup {u} : home.task = Synthetic(w.id),
           IsFiniteSet(others),
           \A f \in others : IsFragment(f, found) /\ f.task # home.task,
           \A f, g \in others : f.task = g.task => f = g,
           \A w \in found : w.task < NoTask =>
              w.task = home.task \/ \E f \in others : f.task = w.task,
           DOMAIN home = FragmentFields,
           \A h : h \in home.histories <=>
                     h # <<>> /\ \E w \in In(home, found) : w.history = h,
           \A x : x \in home.tools <=> \E w \in In(home, found) : x \in Shown(w)
    PROVE  Fragments(others \cup {Grown(home, t)}, found \cup {u})
<1> PICK grown : grown = Grown(home, t)
  OBVIOUS
<1>1. /\ DOMAIN grown = FragmentFields /\ grown.task = home.task
      /\ grown.histories = home.histories \cup ({t.history} \ {<<>>})
      /\ grown.tools = home.tools \cup Shown(t)
  BY GrownIs
<1>2. In(grown, found \cup {u}) = In(home, found) \cup {u}
  BY <1>1 DEF In
<1>3. u.history = t.history /\ Shown(u) = Shown(t)
  BY DEF SameBody, Shown
<1>4. IsFragment(grown, found \cup {u})
  <2>1. \E w \in found \cup {u} : grown.task = Synthetic(w.id)
    BY <1>1
  <2>2. \A h : h \in grown.histories <=>
           h # <<>> /\ \E w \in In(grown, found \cup {u}) : w.history = h
    BY <1>1, <1>2, <1>3
  <2>3. \A x : x \in grown.tools <=>
           \E w \in In(grown, found \cup {u}) : x \in Shown(w)
    BY <1>1, <1>2, <1>3
  <2> QED
    BY ONLY <1>1, <1>2, <2>1, <2>2, <2>3 DEF IsFragment
<1>5. ASSUME NEW f \in others PROVE IsFragment(f, found \cup {u})
  <2>1. In(f, found \cup {u}) = In(f, found)
    BY DEF In
  <2>2. IsFragment(f, found)
    OBVIOUS
  <2> QED
    BY ONLY <2>1, <2>2 DEF IsFragment
<1>6. IsFiniteSet(others \cup {grown})
  BY FS_AddElement
<1>7. \A f, g \in others \cup {grown} : f.task = g.task => f = g
  BY <1>1
<1>8. \A w \in found \cup {u} :
         w.task < NoTask => \E f \in others \cup {grown} : f.task = w.task
  BY <1>1
<1> QED
  BY <1>4, <1>5, <1>6, <1>7, <1>8 DEF Fragments

FoundFields == {"traces", "fragments", "ambiguous"}
So(found, seen) ==
    /\ DOMAIN found = FoundFields
    /\ Found(found.traces, seen) /\ Fragments(found.fragments, found.traces)

LEMMA CorrelatedKeeps ==
    ASSUME NEW found, NEW seen, NEW t, So(found, seen), Latest(t, seen)
    PROVE  So(Correlated(found, t), seen \cup {t})
<1> PICK traces, fragments : traces = found.traces /\ fragments = found.fragments
  OBVIOUS
<1>1. Found(traces, seen) /\ Fragments(fragments, traces)
  BY DEF So
<1> PICK next : next = Correlated(found, t)
  OBVIOUS
<1>2. CASE t.task # NoTask
  <2>1. next = [found EXCEPT !.traces = @ \cup {t}]
    BY <1>2 DEF Correlated
  <2>2. /\ DOMAIN next = FoundFields /\ next.traces = traces \cup {t}
        /\ next.fragments = fragments
    BY <2>1 DEF So, FoundFields
  <2>3. Found(traces \cup {t}, seen \cup {t})
    BY <1>1, <1>2, PassesFound
  <2>4. ~(t.task < NoTask)
    BY DEF Latest, IsTrace, NoTask
  <2>5. Fragments(fragments, traces \cup {t})
    BY <1>1, <2>4, PassesFragments
  <2> QED
    BY <2>2, <2>3, <2>5 DEF So
<1>3. CASE t.task = NoTask
  <2> PICK candidates : candidates = Candidates(fragments, t)
    OBVIOUS
  <2> PICK home : home = Home(candidates, t)
    OBVIOUS
  <2> PICK evidence : evidence = Evidence(fragments, t, Cardinality(candidates))
    OBVIOUS
  <2> PICK u : u = Put(t, home.task, evidence)
    OBVIOUS
  <2> PICK others : others = fragments \ {home}
    OBVIOUS
  <2>1. /\ DOMAIN next = FoundFields /\ next.traces = traces \cup {u}
        /\ next.fragments = others \cup {Grown(home, t)}
    <3>1. next = Joined(found, t, home, evidence)
      BY <1>3 DEF Correlated
    <3> QED
      BY <3>1 DEF Joined, FoundFields, Put
  <2>2. candidates \subseteq fragments
    BY DEF Candidates, ByTool, ByHistory
  <2>3. IsFiniteSet(candidates) /\ \A f, g \in candidates : f.task = g.task => f = g
    BY <1>1, <2>2, FS_Subset DEF Fragments
  <2>4. /\ home.task = Settled(TasksIn(candidates), t)
        /\ home \in candidates \/ home = Beginning(t)
    BY <2>3, HomeSettles
  <2>5. \A w \in traces : /\ IsTrace(w) /\ Earlier(w, t) /\ w.id # t.id
                          /\ ~Earlier(t, w)
    BY <1>1, LatestOfFound
  <2>6. home.task = TaskOf(traces, t)
    BY <1>1, <2>4, <2>5, FragmentsSay DEF TaskOf
  <2>7. IsTrace(t) /\ t.id \in Nat \ {0}
    BY DEF Latest, IsTrace
  <2>8. \A w \in traces : Synthetic(w.id) \in Int /\ Synthetic(w.id) < NoTask
    BY <2>5 DEF IsTrace, Synthetic, NoTask
  <2>9. home.task \in Int /\ home.task < NoTask
    <3>1. CASE home \in candidates
      <4>1. IsFragment(home, traces)
        BY <1>1, <2>2, <3>1 DEF Fragments
      <4> QED
        BY <2>8, <4>1 DEF IsFragment
    <3>2. CASE home = Beginning(t)
      BY <2>7, <3>2 DEF Beginning, Synthetic, NoTask
    <3> QED
      BY <2>4, <3>1, <3>2
  <2>10. IsTrace(u) /\ SameBody(u, t) /\ u.task = home.task
    BY <2>7, <2>9, PutIs
  <2>11. Found(traces \cup {u}, seen \cup {t})
    BY <1>1, <1>3, <2>6, <2>9, <2>10, PutsFound
  <2>12. /\ IsFiniteSet(others)
         /\ \A f \in others : IsFragment(f, traces)
         /\ \A f, g \in others : f.task = g.task => f = g
    BY <1>1, FS_Subset DEF Fragments
  <2>13. /\ \E w \in traces \cup {u} : home.task = Synthetic(w.id)
         /\ \A f \in others : f.task # home.task
         /\ \A w \in traces : w.task < NoTask =>
              w.task = home.task \/ \E f \in others : f.task = w.task
         /\ DOMAIN home = FragmentFields
         /\ \A h : h \in home.histories <=>
                     h # <<>> /\ \E w \in In(home, traces) : w.history = h
         /\ \A x : x \in home.tools <=> \E w \in In(home, traces) : x \in Shown(w)
    <3>1. CASE home \in candidates
      <4>1. home \in fragments /\ IsFragment(home, traces)
        BY <1>1, <2>2, <3>1 DEF Fragments
      <4>2. \A f \in others : f.task # home.task
        BY <1>1, <4>1 DEF Fragments
      <4>3. \A w \in traces : w.task < NoTask =>
              w.task = home.task \/ \E f \in others : f.task = w.task
        BY <1>1 DEF Fragments
      <4> QED
        BY <4>1, <4>2, <4>3 DEF IsFragment
    <3>2. CASE home = Beginning(t)
      <4>1. /\ home.task = Synthetic(t.id) /\ DOMAIN home = FragmentFields
            /\ home.histories = {} /\ home.tools = {}
        BY <3>2 DEF Beginning, FragmentFields
      <4>2. \A w \in traces : Synthetic(w.id) # Synthetic(t.id)
        BY <2>5, <2>7 DEF IsTrace, Synthetic
      <4>3. \A f \in fragments : f.task # home.task
        BY <1>1, <4>1, <4>2 DEF Fragments, IsFragment
      <4>4. \A w \in traces : w.task < NoTask => \E f \in others : f.task = w.task
        BY <1>1, <4>3 DEF Fragments
      <4>5. In(home, traces) = {}
        BY <1>1, <4>3 DEF Fragments, In
      <4>6. u.id = t.id
        BY <2>10 DEF SameBody
      <4> QED
        BY <4>1, <4>3, <4>4, <4>5, <4>6
    <3> QED
      BY <2>4, <3>1, <3>2
  <2>14. Fragments(others \cup {Grown(home, t)}, traces \cup {u})
    BY ONLY <2>9, <2>10, <2>12, <2>13, GrowsFragments
  <2> QED
    BY <2>1, <2>11, <2>14 DEF So
<1> QED
  BY <1>2, <1>3

\* Over all the traces of a store.
LEMMA CorrelateFinds ==
    ASSUME NEW V, AreTraces(V), \A t \in V : t.task >= NoTask
    PROVE  Found(Correlate(V).traces, V)
<1>1. PICK o, n, a : Ordered(o, n, V) /\ Joined1(a, o, n) /\ Correlate(V) = a[n]
  BY CorrelateIs
<1> DEFINE upto(i) == {o[j] : j \in 1..i}
           S == {i \in Nat : i <= n => So(a[i], upto(i))}
<1>2. n \in Nat
  BY <1>1 DEF Ordered
<1>3. 0 \in S
  <2>1. a[0] = Start
    BY <1>1 DEF Joined1
  <2> PICK none : none = {}
    OBVIOUS
  <2>2. /\ DOMAIN Start = FoundFields /\ Start.traces = none
        /\ Start.fragments = none
    BY DEF Start, FoundFields
  <2>3. upto(0) = none /\ IsFiniteSet(none)
    BY FS_EmptySet
  <2>4. Found(none, none) /\ Fragments(none, none)
    BY <2>3 DEF Found, Fragments, AreTraces
  <2> QED
    BY <2>1, <2>2, <2>3, <2>4 DEF So
<1>4. ASSUME NEW i \in Nat, i \in S PROVE i + 1 \in S
  <2>1. SUFFICES ASSUME i + 1 <= n PROVE So(a[i + 1], upto(i + 1))
    OBVIOUS
  <2>2. So(a[i], upto(i))
    BY <1>2, <1>4, <2>1
  <2>3. i + 1 \in 1..n
    BY <1>2, <2>1
  <2>4. a[i + 1] = Correlated(a[i], o[i + 1])
    <3>1. (i + 1) - 1 = i
      OBVIOUS
    <3> QED
      BY <1>1, <2>3, <3>1 DEF Joined1
  <2>5. Latest(o[i + 1], upto(i))
    <3>1. o[i + 1] \in V /\ IsTrace(o[i + 1]) /\ o[i + 1].task >= NoTask
      BY <1>1, <2>3 DEF Ordered, AreTraces
    <3>2. ASSUME NEW j \in 1..i
          PROVE  IsTrace(o[j]) /\ Earlier(o[j], o[i + 1]) /\ o[j].id # o[i + 1].id
      <4>1. j \in 1..n /\ j < i + 1
        BY ONLY <1>2, <2>1, i \in Nat, j \in 1..i
      <4>2. o[j] \in V /\ Earlier(o[j], o[i + 1])
        BY <1>1, <2>3, <4>1 DEF Ordered
      <4>3. o[j] # o[i + 1]
        BY <3>1, <4>2, EarlierOrders
      <4> QED
        BY <3>1, <4>2, <4>3 DEF AreTraces
    <3> QED
      BY <3>1, <3>2 DEF Latest
  <2>6. upto(i + 1) = upto(i) \cup {o[i + 1]}
    <3>1. 1..i + 1 = (1..i) \cup {i + 1}
      OBVIOUS
    <3> QED
      BY <3>1
  <2> HIDE DEF upto
  <2> QED
    BY <2>2, <2>4, <2>5, <2>6, CorrelatedKeeps
<1>5. Nat \subseteq S
  <2> HIDE DEF S
  <2> QED
    BY ONLY <1>3, <1>4, ByInduction
<1>6. upto(n) = V
  BY <1>1 DEF Ordered
<1>7. So(a[n], V)
  <2>1. n \in S
    BY <1>2, <1>5
  <2>2. n <= n => So(a[n], upto(n))
    BY <2>1
  <2>3. So(a[n], upto(n))
    BY <1>2, <2>2
  <2> HIDE DEF upto
  <2> QED
    BY ONLY <1>6, <2>3
<1> QED
  BY <1>1, <1>7 DEF So

\* What is said of fragments follows from what has been found.
LEMMA FoundRests ==
    ASSUME NEW view, AreTraces(view), \A t \in view : t.task >= NoTask,
           NEW found, found = Correlate(view).traces
    PROVE  FragmentsRestOn(view, found)
<1>1. Found(found, view)
  BY CorrelateFinds
<1>2. ASSUME NEW t \in found, t.task < NoTask
      PROVE  t.task = TaskOf(found, t)
  BY <1>1, <1>2 DEF Found
<1>3. \A t \in view : t.task # NoTask => t \in found
  BY <1>1 DEF Found
<1>4. Correlate(found).traces = found
  <2>1. AreTraces(found) /\ \A t \in found : t.task # NoTask
    BY <1>1 DEF Found
  <2> QED
    BY <2>1, CorrelatePasses
<1>5. \A t \in found : t.task < NoTask => t.task = TaskOf(found, t)
  BY <1>2
<1> HIDE DEF TaskOf
<1>6. (\A t \in found : t.task < NoTask => t.task = TaskOf(found, t))
      /\ (\A t \in view : t.task # NoTask => t \in found)
      /\ Correlate(found).traces = found
      => FragmentsRestOn(view, found)
  BY DEF FragmentsRestOn, TaskOf, Settled, TasksIn, Says, SaysByTool, SaysByHistory,
         Before, Shown
<1> QED
  BY <1>3, <1>4, <1>5, <1>6

-----------------------------------------------------------------------------
(* The traces of the store *)

\* A row is stamped with a time, its task is one of a caller or none, and its
\* body carries the results of so many tool calls.
Stamped(row) == row.ts \in Int /\ row.in \in Nat /\ IsFiniteSet(row.sent.body.consumed)
Planned == UNION {Range(calls) : calls \in supply.tasks}
TimeInv ==
    /\ supply \in Supplies
    /\ pending.task \in Nat /\ pending.calls \in Seq(Planned)
    /\ \A row \in rows : Stamped(row)

LEMMA SaveStamps ==
    ASSUME RowInv, TimeInv, NEW sent, NEW task \in Nat, NEW lag \in Int,
           IsFiniteSet(sent.body.consumed), Save(sent, task, lag)
    PROVE  \A row \in rows' : Stamped(row)
<1> PICK new : new = [id |-> lastId + 1, ts |-> 2 * (lastId + 1) - lag, sent |-> sent,
                      in |-> task, kept |-> TRUE, is |-> Derived(sent, task, TRUE)]
  OBVIOUS
<1>1. rows' = rows \cup {new}
  BY DEF Save
<1>2. new.ts \in Int /\ new.in \in Nat /\ new.sent = sent
  BY DEF RowInv
<1> QED
  BY <1>1, <1>2 DEF TimeInv, Stamped

LEMMA RecordStamps ==
    ASSUME RowInv, TimeInv, Record
    PROVE  /\ pending'.task \in Nat /\ pending'.calls \in Seq(Planned)
           /\ \A row \in rows' : Stamped(row)
<1>1. supply \in Supplies /\ pending.task \in Nat /\ pending.calls \in Seq(Planned)
  BY DEF TimeInv
<1>2. ASSUME NEW sent \in Planned PROVE IsFiniteSet(sent.body.consumed)
  <2>1. PICK calls \in supply.tasks : sent \in Range(calls)
    BY DEF Planned
  <2> QED
    BY <1>1, <2>1, AnalysisAssumption
<1>3. CASE /\ pending' = pending
           /\ \E sent \in supply.calls, lag \in supply.lags : Save(sent, sent.task, lag)
  <2>1. PICK sent \in supply.calls, lag \in supply.lags : Save(sent, sent.task, lag)
    BY <1>3
  <2>2. sent.task \in Nat /\ lag \in Int /\ IsFiniteSet(sent.body.consumed)
    BY <1>1, AnalysisAssumption
  <2> QED
    BY <1>1, <1>3, <2>1, <2>2, SaveStamps
<1>4. CASE \E calls \in supply.tasks :
              /\ Save(Head(calls), pending.task + 1, 0)
              /\ pending' = [task |-> pending.task + 1, calls |-> Tail(calls)]
  <2>1. PICK calls \in supply.tasks :
               /\ Save(Head(calls), pending.task + 1, 0)
               /\ pending' = [task |-> pending.task + 1, calls |-> Tail(calls)]
    BY <1>4
  <2>2. pending.task + 1 \in Nat
    BY <1>1
  <2>3. calls \in Seq(Range(calls)) /\ calls # <<>> /\ Range(calls) \subseteq Planned
    BY <1>1, AnalysisAssumption DEF Planned
  <2>4. Head(calls) \in Range(calls) /\ Tail(calls) \in Seq(Range(calls))
    BY <2>3
  <2>5. Head(calls) \in Planned /\ Tail(calls) \in Seq(Planned)
    BY <2>3, <2>4
  <2>6. pending'.task = pending.task + 1 /\ pending'.calls = Tail(calls)
    BY <2>1
  <2>7. \A row \in rows' : Stamped(row)
    <3> PICK sent, task : sent = Head(calls) /\ task = pending.task + 1
      OBVIOUS
    <3>1. task \in Nat /\ 0 \in Int /\ IsFiniteSet(sent.body.consumed) /\ Save(sent, task, 0)
      BY <1>2, <2>1, <2>2, <2>5
    <3> QED
      BY ONLY <3>1, RowInv, TimeInv, SaveStamps
  <2> QED
    BY <2>2, <2>5, <2>6, <2>7
<1>5. CASE /\ pending.calls # <<>>
           /\ Save(Head(pending.calls), pending.task, 0)
           /\ pending' = [pending EXCEPT !.calls = Tail(@)]
  <2> PICK calls : calls = pending.calls
    OBVIOUS
  <2>1. Head(calls) \in Planned /\ Tail(calls) \in Seq(Planned)
    BY <1>1, <1>5
  <2>2. pending'.task = pending.task
    BY <1>5
  <2>3. pending'.calls = Tail(calls) \/ pending' = pending
    BY <1>5
  <2>4. \A row \in rows' : Stamped(row)
    <3> PICK sent, task : sent = Head(calls) /\ task = pending.task
      OBVIOUS
    <3>1. task \in Nat /\ 0 \in Int /\ IsFiniteSet(sent.body.consumed) /\ Save(sent, task, 0)
      BY <1>1, <1>2, <1>5, <2>1
    <3> QED
      BY ONLY <3>1, RowInv, TimeInv, SaveStamps
  <2> QED
    BY <1>1, <2>1, <2>2, <2>3, <2>4
<1> QED
  BY <1>3, <1>4, <1>5 DEF Record

LEMMA TimeStep ==
    ASSUME RowInv, TimeInv, [OfflineNext]_offlineVars
    PROVE  TimeInv'
<1>1. supply' = supply
  BY DEF OfflineNext, AnalysisNext, ReplayNext, offlineVars, analysisVars, storeVars,
       edgeVars, analysisOnly, Record, Prune, EraseTask, Upgrade, Reenrich, InferEdges,
       ReplaceEdges, PrepareSample, QueueSample, RunDiscovery, PickDataset, MakeDataset,
       MoveEntry, PrepareReplay, QueueReplay, RunAtOnce, RunReplayJob, Calibrate
<1>2. pending' = pending \/ Record
  BY DEF OfflineNext, AnalysisNext, ReplayNext, offlineVars, analysisVars, storeVars,
       analysisOnly, Prune, EraseTask, Upgrade, Reenrich, InferEdges, ReplaceEdges,
       PrepareSample, QueueSample, RunDiscovery, PickDataset, MakeDataset, MoveEntry,
       PrepareReplay, QueueReplay, RunAtOnce, RunReplayJob, Calibrate
<1>3. CASE Record
  BY <1>1, <1>3, RecordStamps DEF TimeInv, Planned
<1>4. CASE ~Record /\ \A row \in rows' : Stamped(row)
  BY <1>1, <1>2, <1>4 DEF TimeInv, Planned
<1>5. CASE UNCHANGED <<rows, lastId>>
  BY <1>3, <1>4, <1>5 DEF TimeInv
<1>6. \A row \in rows : DOMAIN row = RowFields /\ Stamped(row)
  BY DEF RowInv, RowOK, TimeInv
<1>7. CASE Prune
  <2>1. PICK pruned \in SUBSET rows :
          rows' = (rows \ pruned) \cup {[row EXCEPT !.kept = FALSE] : row \in pruned}
    BY <1>7 DEF Prune
  <2>2. \A row \in rows : Stamped(Forget(row))
    BY <1>6, ForgetIs DEF Stamped
  <2>3. \A row \in rows' : Stamped(row)
    BY <1>6, <2>1, <2>2 DEF Forget
  <2> QED
    BY <1>3, <1>4, <2>3
<1>8. CASE EraseTask
  <2>1. rows' \subseteq rows
    BY <1>8 DEF EraseTask
  <2> QED
    BY <1>3, <1>4, <1>6, <2>1
<1>9. CASE Reenrich
  <2>1. \A row \in rows : Stamped(Rewritten(row))
    BY <1>6, RewrittenIs DEF Stamped
  <2>2. rows' = rows \/ rows' = {Rewritten(row) : row \in rows}
    BY <1>9 DEF Reenrich
  <2>3. \A row \in rows' : Stamped(row)
    BY <1>6, <2>1, <2>2
  <2> QED
    BY <1>3, <1>4, <2>3
<1> QED
  BY <1>3, <1>5, <1>7, <1>8, <1>9, OthersLeaveRows DEF Writes

LEMMA TimeInitially == OfflineInit => TimeInv
<1> SUFFICES ASSUME OfflineInit PROVE TimeInv
  OBVIOUS
<1>1. pending = [task |-> NoTask, calls |-> <<>>] /\ rows = {} /\ supply \in Supplies
  BY DEF OfflineInit, AnalysisInit
<1>2. pending.task \in Nat /\ pending.calls \in Seq(Planned)
  BY <1>1 DEF NoTask
<1> QED
  BY <1>1, <1>2 DEF TimeInv

LEMMA ViewIs ==
    ASSUME RowInv, TimeInv
    PROVE  AreTraces(View(rows)) /\ \A t \in View(rows) : t.task >= NoTask
<1> PICK view : view = View(rows)
  OBVIOUS
<1>1. ASSUME NEW row \in rows
      PROVE  /\ DOMAIN Seen(row) = TraceFields /\ Seen(row).id = row.id
             /\ Seen(row).ts = row.ts /\ Seen(row).task = row.is.task
  BY DEF Seen, TraceFields
<1>2. ASSUME NEW row \in rows
      PROVE  row.id \in Nat \ {0} /\ row.ts \in Int /\ row.is.task \in Nat
  BY DEF RowInv, RowOK, DerivedFrom, TimeInv, Stamped
<1>3. IsFiniteSet(view)
  <2> PICK f : f = [row \in rows |-> Seen(row)]
    OBVIOUS
  <2>1. f \in Surjection(rows, view)
    BY DEF Surjection, View
  <2>2. IsFiniteSet(rows)
    BY DEF RowInv
  <2> QED
    BY <2>1, <2>2, FS_Surjection
<1>4. \A t \in view : \E row \in rows : t = Seen(row)
  BY DEF View
<1>5. \A t \in view : IsTrace(t) /\ t.task >= NoTask
  BY <1>1, <1>2, <1>4 DEF IsTrace, NoTask
<1>6. \A t, u \in view : t.id = u.id => t = u
  BY <1>1, <1>4 DEF RowInv
<1> QED
  BY <1>3, <1>5, <1>6 DEF AreTraces

\* Whatever is recorded, pruned, erased and re-enriched, calls without a task
\* are joined by exact evidence and by nothing else, each by the evidence of
\* the calls before it, and correlating again changes nothing
\* (discovery/correlation.py:122).
THEOREM FragmentsRest == OfflineSpec => []FragmentsRestOnEvidence
<1>1. OfflineInit => TimeInv
  BY TimeInitially
<1>2. OfflineInv /\ TimeInv /\ [OfflineNext]_offlineVars => TimeInv'
  BY TimeStep DEF OfflineInv
<1>3. OfflineInv /\ TimeInv => FragmentsRestOnEvidence
  BY ViewIs, FoundRests DEF OfflineInv, FragmentsRestOnEvidence
<1> QED
  BY <1>1, <1>2, <1>3, OfflineInvariant, PTL DEF OfflineSpec

=============================================================================
