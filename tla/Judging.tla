------------------------------ MODULE Judging ------------------------------
(***************************************************************************)
(* How recorded inputs become a verdict about a cheaper model: a blinded   *)
(* judge scores both arms of a pair in both orders (eval/judge.py), a      *)
(* paired test decides on the differences (eval/replay.py, eval/ni.py),    *)
(* and the judge is itself compared with humans (eval/calibration.py).     *)
(*                                                                         *)
(* A reply is what the two arms gave for one input: qualities, of which 0  *)
(* is no text at all, or an error.  Models, judge and humans are outside;  *)
(* quality is what a human sees.  Differences are kept as sums over the    *)
(* replicates, and compared by cross-multiplication.                       *)
(***************************************************************************)
EXTENDS Integers, Sequences, FiniteSets, FiniteSetsExt, Functions

CONSTANTS
    Replicates,     \* judge calls for a pair
    MaxScore,       \* _MAX_SCORE
    MinUnits,       \* _MIN_UNITS
    NIMargin,       \* --margin, in points of the judge
    MinDirectional  \* _MIN_DIRECTIONAL

\* run_replay() refuses an odd number of replicates.
ASSUME JudgingAssumption ==
    /\ Replicates \in Nat \ {0} /\ Replicates % 2 = 0
    /\ {MaxScore, MinUnits, NIMargin, MinDirectional} \subseteq Nat \ {0}

-----------------------------------------------------------------------------
(* The judge *)

\* A judge sees a quality to a scale, and may favour the response it is shown
\* first or, by its style, the candidate.
Score(judge, quality, first, candidate) ==
    4 + judge.scale * quality + (IF first THEN judge.first ELSE 0)
      + (IF candidate THEN judge.style ELSE 0)

AlwaysSecond(i) == FALSE
CandidateFirst(i) == i % 2 = 1
Prompts == 0..Replicates - 1

\* judge_pairing(): the arms change places from one prompt to the next.
Scores(judge, pair, i) ==
    [baseline |-> Score(judge, pair.baseline, ~CandidateFirst(i), FALSE),
     candidate |-> Score(judge, pair.candidate, CandidateFirst(i), TRUE)]
OnScale(judge, pair) ==
    \A i \in Prompts :
        LET s == Scores(judge, pair, i)
        IN  {s.baseline, s.candidate} \subseteq 0..MaxScore
Diff(judge, pair) ==
    SumFunction([i \in Prompts |->
                    Scores(judge, pair, i).candidate - Scores(judge, pair, i).baseline])

-----------------------------------------------------------------------------
(* One batch: replies and clusters are functions on the ids of its inputs *)

Blank(reply) == ~reply.fails /\ reply.baseline = 0 /\ reply.candidate = 0
Judged(judge, reply) == ~reply.fails /\ ~Blank(reply) /\ OnScale(judge, reply)

\* run_replay(): an input that fails is left out, and too many end the claim.
Batch(judge, replies, cluster) ==
    LET paired == {id \in DOMAIN replies : Judged(judge, replies[id])}
        blank == {id \in DOMAIN replies : Blank(replies[id])}
    IN  [diffs |-> [id \in paired |-> Diff(judge, replies[id])],
         units |-> Cardinality({cluster[id] : id \in paired}),
         blank |-> Cardinality(blank),
         failed |-> Cardinality(DOMAIN replies \ (paired \cup blank)),
         total |-> Cardinality(DOMAIN replies)]

Degraded(batch) == 5 * (batch.failed + batch.blank) > batch.total
Underpowered(batch) ==
    DOMAIN batch.diffs = {} \/ Degraded(batch) \/ batch.units < MinUnits

\* The lower bound is the mean of some inputs, drawn again and again.
Bounds(batch) ==
    IF DOMAIN batch.diffs = {} THEN {0}
    ELSE LET diffs == {batch.diffs[id] : id \in DOMAIN batch.diffs}
         IN  Min(diffs)..Max(diffs)

\* replay_report_json()
BatchVerdict(batch, lower) ==
    IF Underpowered(batch) THEN "UNDERPOWERED"
    ELSE IF lower > -NIMargin * Replicates THEN "NON_INFERIOR"
    ELSE "NOT_NON_INFERIOR"

-----------------------------------------------------------------------------
(* Calibration *)

\* A line of the set shows the two outputs as A and B, in an order that only
\* the key knows; the human scores A and B.
Line(reply, candidateIsA) ==
    IF candidateIsA THEN [a |-> reply.candidate, b |-> reply.baseline]
    ELSE [a |-> reply.baseline, b |-> reply.candidate]
HumanScore(quality) == 4 + 2 * quality

\* load_labels()
Labelled(baseline, candidate) ==
    [baseline |-> baseline, candidate |-> candidate,
     human |-> HumanScore(candidate) - HumanScore(baseline)]
Unblind(line, candidateIsA) ==
    IF candidateIsA THEN Labelled(line.b, line.a) ELSE Labelled(line.a, line.b)

\* _wilson_lower() clears 1/2, by z = 1.645.
BeatsCoin(agreements, n) ==
    2 * agreements > n
        /\ 1000 * (2 * agreements - n) * (2 * agreements - n) > 2706 * n

\* The least-squares line through n points, from their sums: the slope is
\* below one half, or the intercept above the margin; y is a sum over the
\* replicates.
Products(f, g) == [i \in DOMAIN f |-> f[i] * g[i]]
Sums(x, y) ==
    [n |-> Cardinality(DOMAIN x), x |-> SumFunction(x), y |-> SumFunction(y),
     xx |-> SumFunction(Products(x, x)), xy |-> SumFunction(Products(x, y))]
Variance(s) == s.n * s.xx - s.x * s.x
Flat(s) == s.n < 2 \/ Variance(s) = 0
Compressed(s) ==
    ~Flat(s) /\ 2 * (s.n * s.xy - s.x * s.y) < Replicates * Variance(s)
Biased(s) ==
    s.n >= 2 /\ IF Flat(s)
                THEN 2 * (s.y - Replicates * s.x) > NIMargin * Replicates * s.n
                ELSE 2 * (s.xx * s.y - s.x * s.xy) > NIMargin * Replicates * Variance(s)

\* calibrate(): y is the judge's difference and x the human's.
Calibration(judge, labels) ==
    LET scored == {i \in DOMAIN labels : OnScale(judge, labels[i])}
        x == [i \in scored |-> labels[i].human]
        y == [i \in scored |-> Diff(judge, labels[i])]
        directional == {i \in scored : x[i] # 0}
        agreeing == {i \in directional : x[i] * y[i] > 0}
    IN  [verdict |-> IF Cardinality(directional) < MinDirectional THEN "INSUFFICIENT"
                     ELSE IF \/ ~BeatsCoin(Cardinality(agreeing), Cardinality(directional))
                             \/ Biased(Sums(x, y)) \/ Compressed(Sums(x, y))
                     THEN "MISALIGNED" ELSE "ALIGNED",
         noSpread |-> Cardinality({x[i] : i \in scored}) < 2,
         failed |-> Cardinality(DOMAIN labels \ scored)]

=============================================================================
