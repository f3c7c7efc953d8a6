--------------------------- MODULE ShadowTheorems ---------------------------
(***************************************************************************)
(* Theorems about the recorder's queue and the shadow manager above it:    *)
(* observers are told once, rows are committed in order, a shutdown        *)
(* settles everything, and the attrition of an experiment is never         *)
(* inflated - for any calls, mirrors, workers and sizes of the queues.     *)
(***************************************************************************)
EXTENDS Shadow, FiniteSetTheorems, SequenceTheorems, TLAPS

-----------------------------------------------------------------------------
(* The recorder alone, whoever offers and closes *)

QueueNext == (\E c \in Call : Offer(c) \/ Wake(c) \/ Work(c)) \/ Close

\* How many traces have left the queue: it holds the last ones that entered.
Left == Len(entered) - Len(queue)

QueueHoldsLast ==
    /\ Left >= 0
    /\ \A i \in 1 .. Len(queue) : queue[i] = entered[Left + i]

QueueDistinct ==
    \A i, j \in 1 .. Len(queue) : queue[i] = queue[j] => i = j

Queued ==
    \A c \in Call :
        stage[c] = "queued" <=> \E i \in 1 .. Len(queue) : queue[i] = c

\* The trace at the worker is the last one that left the queue ...
WorkerHasLast ==
    \A c \in Call : AtWorker(c) => Left >= 1 /\ entered[Left] = c

Saving == \E c \in Call : stage[c] = "saving"

\* ... and those committed left it before, while it is being saved.
LeftBy(x, n) == \E p \in 1 .. n : entered[p] = x
CommittedHaveLeft ==
    \A i \in 1 .. Len(committed) :
        LeftBy(committed[i], IF Saving THEN Left - 1 ELSE Left)

Phases ==
    /\ mode \in {"discarding", "closed"} => WorkerIdle
    /\ mode # "running" => \A c \in Call : stage[c] # "blocked"
    /\ mode = "closed" => queue = <<>>
    /\ \A c \in Call : stage[c] # "lost"

QueueOrder ==
    /\ QueueHoldsLast /\ QueueDistinct /\ Queued
    /\ WorkerHasLast /\ Phases
    /\ ToldOnceWhenSettled
    /\ CommittedHaveLeft /\ CommittedInOrder

QueueInv == TypeOK /\ QueueOrder

\* A trace that takes a slot is the last in the queue.
LEMMA Enters ==
    ASSUME QueueInv, NEW c \in Call,
           mode = "running", mode' = mode,
           stage[c] \in {"none", "blocked"},
           queue' = Append(queue, c), entered' = Append(entered, c),
           Moves(c, "queued"),
           UNCHANGED <<told, committed>>
    PROVE  QueueOrder'
<1>1. /\ queue \in Seq(Call) /\ entered \in Seq(Call) /\ committed \in Seq(Call)
      /\ stage \in [Call -> Stage]
  BY DEF QueueInv, TypeOK, RecorderTypeOK
<1>2. /\ Len(queue') = Len(queue) + 1 /\ Len(entered') = Len(entered) + 1
      /\ Left' = Left
      /\ \A i \in 1 .. Len(queue) : queue'[i] = queue[i]
      /\ queue'[Len(queue) + 1] = c
      /\ \A i \in 1 .. Len(entered) : entered'[i] = entered[i]
      /\ entered'[Len(entered) + 1] = c
      /\ 1 .. Len(queue') = (1 .. Len(queue)) \cup {Len(queue) + 1}
      /\ 1 .. Len(entered') = (1 .. Len(entered)) \cup {Len(entered) + 1}
  BY <1>1 DEF Left
<1>3. /\ stage'[c] = "queued"
      /\ \A d \in Call : d # c => stage'[d] = stage[d]
  BY <1>1 DEF Moves
<1>4. Len(queue) \in Nat /\ Len(entered) \in Nat /\ Left \in Nat
  BY <1>1 DEF Left, QueueInv, QueueOrder, QueueHoldsLast
<1>5. \A i \in 1 .. Len(queue) : queue[i] # c /\ queue[i] \in Call
  BY <1>1 DEF QueueInv, QueueOrder, Queued
<1>6. QueueHoldsLast'
  <2>1. Left + (Len(queue) + 1) = Len(entered) + 1
    BY <1>4 DEF Left
  <2> SUFFICES ASSUME NEW i \in 1 .. Len(queue')
               PROVE  queue'[i] = entered'[Left + i]
    <3>1. \A i \in 1 .. Len(queue') : queue'[i] = entered'[Left' + i]
      BY <1>2
    <3>2. Left' >= 0
      BY <1>2, <1>4
    <3> QED
      BY <3>1, <3>2, Zenon DEF QueueHoldsLast
  <2>2. CASE i = Len(queue) + 1
    BY <2>1, <2>2, <1>2
  <2>3. CASE i \in 1 .. Len(queue)
    <3>1. Left + i \in 1 .. Len(entered)
      BY <2>3, <1>4 DEF Left
    <3> QED
      BY <3>1, <2>3, <1>2 DEF QueueInv, QueueOrder, QueueHoldsLast
  <2> QED
    BY <2>2, <2>3, <1>2
<1>7. QueueDistinct'
  <2> SUFFICES ASSUME NEW i \in 1 .. Len(queue'), NEW j \in 1 .. Len(queue'),
                      queue'[i] = queue'[j]
               PROVE  i = j
    BY DEF QueueDistinct
  <2>1. /\ i = Len(queue) + 1 \/ i \in 1 .. Len(queue)
        /\ j = Len(queue) + 1 \/ j \in 1 .. Len(queue)
    BY <1>2, <1>4
  <2> QED
    BY <2>1, <1>2, <1>5 DEF QueueInv, QueueOrder, QueueDistinct
<1>8. Queued'
  <2> SUFFICES ASSUME NEW d \in Call
               PROVE  stage'[d] = "queued"
                        <=> \E i \in 1 .. Len(queue') : queue'[i] = d
    BY DEF Queued
  <2>1. CASE d = c
    <3>1. Len(queue) + 1 \in 1 .. Len(queue')
      BY <1>2, <1>4
    <3> QED
      BY <2>1, <3>1, <1>2, <1>3
  <2>2. CASE d # c
    <3>1. \A i : i \in 1 .. Len(queue') <=> i \in 1 .. Len(queue) \/ i = Len(queue) + 1
      BY <1>2, <1>4
    <3> QED
      BY <2>2, <3>1, <1>2, <1>3 DEF QueueInv, QueueOrder, Queued
  <2> QED
    BY <2>1, <2>2
<1>9. WorkerHasLast'
  <2> SUFFICES ASSUME NEW d \in Call, AtWorker(d)'
               PROVE  Left >= 1 /\ entered'[Left] = d
    BY <1>2 DEF WorkerHasLast
  <2>1. AtWorker(d)
    BY <1>3 DEF AtWorker
  <2>2. Left >= 1 /\ entered[Left] = d
    BY <2>1 DEF QueueInv, QueueOrder, WorkerHasLast
  <2>3. Left \in 1 .. Len(entered)
    BY <2>2, <1>4 DEF Left
  <2> QED
    BY <2>2, <2>3, <1>2
<1>10. Phases'
  BY <1>3 DEF QueueInv, QueueOrder, Phases
<1>11. ToldOnceWhenSettled'
  BY <1>1, <1>3 DEF QueueInv, QueueOrder, ToldOnceWhenSettled, Settled
<1>12. CommittedHaveLeft'
  <2>1. Saving' = Saving
    BY <1>1, <1>3, Zenon DEF Saving
  <2>2. \A n \in 0 .. Left : \A p \in 1 .. n : p \in 1 .. Len(entered)
    BY <1>4 DEF Left
  <2>3. \A n \in 0 .. Left : \A x : LeftBy(x, n) => LeftBy(x, n)'
    BY <2>2, <1>2 DEF LeftBy
  <2> SUFFICES ASSUME NEW i \in 1 .. Len(committed)
               PROVE  LeftBy(committed[i], IF Saving THEN Left - 1 ELSE Left)'
    BY DEF CommittedHaveLeft
  <2>4. LeftBy(committed[i], IF Saving THEN Left - 1 ELSE Left)
    BY DEF QueueInv, QueueOrder, CommittedHaveLeft
  <2>5. Saving => Left >= 1
    BY DEF QueueInv, QueueOrder, WorkerHasLast, Saving, AtWorker
  <2>6. (IF Saving THEN Left - 1 ELSE Left) \in 0 .. Left
    BY <1>4, <2>5
  <2>7. committed'[i] = committed[i]
    OBVIOUS
  <2> DEFINE n == IF Saving THEN Left - 1 ELSE Left
  <2>8. n' = n
    BY <2>1, <1>2
  <2>9. PICK p \in 1 .. n : entered[p] = committed[i]
    BY <2>4 DEF LeftBy
  <2>10. p \in 1 .. Len(entered)
    BY <2>2, <2>6
  <2>11. entered'[p] = committed'[i]
    BY <2>7, <2>9, <2>10, <1>2
  <2> HIDE DEF n
  <2>12. p \in 1 .. n'
    BY <2>8
  <2>13. LeftBy(committed[i], n)'
    BY <2>11, <2>12, Zenon DEF LeftBy
  <2> QED
    BY <2>13 DEF n
<1>13. CommittedInOrder'
  <2>1. 1 .. Len(entered) \subseteq 1 .. Len(entered')
    BY <1>2, <1>4
  <2> SUFFICES ASSUME NEW i \in 1 .. Len(committed), NEW j \in 1 .. Len(committed),
                      i < j
               PROVE  \E p, q \in 1 .. Len(entered') :
                         /\ p < q
                         /\ entered'[p] = committed[i]
                         /\ entered'[q] = committed[j]
    BY DEF CommittedInOrder
  <2>2. PICK p \in 1 .. Len(entered), q \in 1 .. Len(entered) :
           p < q /\ entered[p] = committed[i] /\ entered[q] = committed[j]
    BY DEF QueueInv, QueueOrder, CommittedInOrder
  <2>3. entered'[p] = committed[i] /\ entered'[q] = committed[j]
    BY <2>2, <1>2
  <2> QED
    BY <2>1, <2>2, <2>3, Zenon
<1> QED
  BY <1>6, <1>7, <1>8, <1>9, <1>10, <1>11, <1>12, <1>13 DEF QueueOrder

\* There is one worker, so one trace at it.
LEMMA OneAtWorker ==
    ASSUME QueueInv, NEW c \in Call, NEW d \in Call, AtWorker(c), AtWorker(d)
    PROVE  c = d
BY DEF QueueInv, QueueOrder, WorkerHasLast

\* What the traces committed have in common once one more has left.
LEMMA LeftByMonotonic ==
    ASSUME NEW n \in Int, NEW k \in Int, n <= k, NEW x, LeftBy(x, n)
    PROVE  LeftBy(x, k)
<1>1. \A p \in 1 .. n : p \in 1 .. k
  OBVIOUS
<1> QED
  BY <1>1, Zenon DEF LeftBy

\* A trace that leaves the queue, for the worker or discarded.
LEMMA Leaves ==
    ASSUME QueueInv, NEW c \in Call, NEW to \in {"saving", "discarded"},
           WorkerIdle, queue # <<>>, c = Head(queue), queue' = Tail(queue),
           Moves(c, to),
           told' = IF to = "saving" THEN told ELSE [told EXCEPT ![c] = @ + 1],
           UNCHANGED <<entered, committed, mode>>,
           mode \in IF to = "saving" THEN {"running", "draining"} ELSE {"discarding"}
    PROVE  QueueOrder'
<1>1. /\ queue \in Seq(Call) /\ entered \in Seq(Call) /\ committed \in Seq(Call)
      /\ stage \in [Call -> Stage] /\ told \in [Call -> Nat]
  BY DEF QueueInv, TypeOK, RecorderTypeOK
<1>2. /\ Len(queue') = Len(queue) - 1 /\ Left' = Left + 1
      /\ \A i \in 1 .. Len(queue') : queue'[i] = queue[i + 1] /\ i + 1 \in 1 .. Len(queue)
      /\ queue[1] = c /\ 1 \in 1 .. Len(queue)
  BY <1>1 DEF Left
<1>3. /\ stage'[c] = to
      /\ \A d \in Call : d # c => stage'[d] = stage[d]
  BY <1>1 DEF Moves
<1>4. Len(queue) \in Nat /\ Len(entered) \in Nat /\ Left \in Nat
  BY <1>1 DEF Left, QueueInv, QueueOrder, QueueHoldsLast
<1>5. Left + 1 = Left' /\ entered[Left + 1] = c
  BY <1>2 DEF QueueInv, QueueOrder, QueueHoldsLast
<1>6. QueueHoldsLast'
  <2> SUFFICES ASSUME NEW i \in 1 .. Len(queue')
               PROVE  queue'[i] = entered[Left + 1 + i]
    <3>1. Left' >= 0
      BY <1>2, <1>4
    <3> QED
      BY <1>5, <3>1 DEF QueueHoldsLast
  <2>1. queue'[i] = queue[i + 1] /\ i + 1 \in 1 .. Len(queue)
    BY <1>2
  <2>2. Left + (i + 1) = Left + 1 + i
    BY <1>4
  <2>3. queue[i + 1] = entered[Left + (i + 1)]
    BY <2>1 DEF QueueInv, QueueOrder, QueueHoldsLast
  <2> QED
    BY <2>1, <2>2, <2>3
<1>7. QueueDistinct'
  <2> SUFFICES ASSUME NEW i \in 1 .. Len(queue'), NEW j \in 1 .. Len(queue'),
                      queue'[i] = queue'[j]
               PROVE  i = j
    BY DEF QueueDistinct
  <2>1. i + 1 = j + 1
    BY <1>2 DEF QueueInv, QueueOrder, QueueDistinct
  <2> QED
    BY <2>1
<1>8. Queued'
  <2> SUFFICES ASSUME NEW d \in Call
               PROVE  stage'[d] = "queued"
                        <=> \E i \in 1 .. Len(queue') : queue'[i] = d
    BY DEF Queued
  <2>1. CASE d = c
    <3>1. ASSUME NEW i \in 1 .. Len(queue'), queue'[i] = c
          PROVE  FALSE
      <4>1. i + 1 = 1
        BY <1>2, <3>1 DEF QueueInv, QueueOrder, QueueDistinct
      <4> QED
        BY <4>1
    <3> QED
      BY <2>1, <3>1, <1>3
  <2>2. CASE d # c
    <3>1. ASSUME NEW i \in 1 .. Len(queue), queue[i] = d
          PROVE  i - 1 \in 1 .. Len(queue') /\ queue'[i - 1] = d
      BY <1>2, <1>4, <2>2, <3>1
    <3>2. (\E i \in 1 .. Len(queue) : queue[i] = d)
             <=> \E i \in 1 .. Len(queue') : queue'[i] = d
      BY <3>1, <1>2
    <3> QED
      BY <2>2, <3>2, <1>3 DEF QueueInv, QueueOrder, Queued
  <2> QED
    BY <2>1, <2>2
<1>9. \A d \in Call : AtWorker(d)' => d = c
  BY <1>3 DEF WorkerIdle, AtWorker
<1>10. WorkerHasLast'
  BY <1>4, <1>5, <1>9 DEF WorkerHasLast
<1>11. Phases'
  <2>1. mode \in {"discarding", "closed"} => WorkerIdle'
    BY <1>3 DEF WorkerIdle, AtWorker
  <2> QED
    BY <1>3, <2>1 DEF QueueInv, QueueOrder, Phases
<1>12. ToldOnceWhenSettled'
  <2>1. stage[c] = "queued"
    BY <1>2 DEF QueueInv, QueueOrder, Queued
  <2> QED
    BY <1>1, <1>3, <2>1 DEF QueueInv, QueueOrder, ToldOnceWhenSettled, Settled
<1>13. CommittedHaveLeft'
  <2>1. ~Saving
    BY DEF WorkerIdle, AtWorker, Saving
  <2> SUFFICES ASSUME NEW i \in 1 .. Len(committed)
               PROVE  LeftBy(committed[i], IF Saving' THEN Left' - 1 ELSE Left')
    BY DEF CommittedHaveLeft, LeftBy
  <2>2. LeftBy(committed[i], Left)
    BY <2>1 DEF QueueInv, QueueOrder, CommittedHaveLeft
  <2>3. /\ (IF Saving' THEN Left' - 1 ELSE Left') \in Int
        /\ Left <= IF Saving' THEN Left' - 1 ELSE Left'
    BY <1>4, <1>5
  <2> QED
    BY <2>2, <2>3, <1>4, LeftByMonotonic
<1>14. CommittedInOrder'
  BY DEF QueueInv, QueueOrder, CommittedInOrder
<1> QED
  BY <1>6, <1>7, <1>8, <1>10, <1>11, <1>12, <1>13, <1>14 DEF QueueOrder

\* A trace that moves on while the queue stays as it is: it may settle, of
\* which the observers are told, and it may be committed.
LEMMA Proceeds ==
    ASSUME QueueInv, NEW c \in Call, NEW to \in {"blocked", "written"} \cup Settled,
           stage[c] \notin {"queued"} \cup Settled,
           UNCHANGED <<queue, entered>>,
           Moves(c, to), to = "written" => AtWorker(c),
           told' = IF to \in Settled THEN [told EXCEPT ![c] = @ + 1] ELSE told,
           \/ committed' = committed
           \/ stage[c] = "saving" /\ committed' = Append(committed, c),
           Phases'
    PROVE  QueueOrder'
<1>1. /\ queue \in Seq(Call) /\ entered \in Seq(Call) /\ committed \in Seq(Call)
      /\ stage \in [Call -> Stage] /\ told \in [Call -> Nat]
  BY DEF QueueInv, TypeOK, RecorderTypeOK
<1>2. /\ stage'[c] = to
      /\ \A d \in Call : d # c => stage'[d] = stage[d]
  BY <1>1 DEF Moves
<1>3. Len(queue) \in Nat /\ Len(entered) \in Nat /\ Left \in Nat /\ Left' = Left
  BY <1>1 DEF Left, QueueInv, QueueOrder, QueueHoldsLast
<1>4. QueueHoldsLast' /\ QueueDistinct'
  BY <1>3 DEF QueueInv, QueueOrder, QueueHoldsLast, QueueDistinct
<1>5. Queued'
  BY <1>2 DEF QueueInv, QueueOrder, Queued, Settled
<1>6. WorkerHasLast'
  BY <1>2, <1>3 DEF QueueInv, QueueOrder, WorkerHasLast, AtWorker, Settled
<1>7. ToldOnceWhenSettled'
  BY <1>1, <1>2 DEF QueueInv, QueueOrder, ToldOnceWhenSettled, Settled
<1>8. \A d \in Call : stage'[d] = "saving" => stage[d] = "saving" /\ d # c
  BY <1>2 DEF Settled
<1>9. stage[c] = "saving" => ~Saving' /\ Left >= 1 /\ entered[Left] = c
  <2>1. ASSUME stage[c] = "saving", NEW d \in Call, stage'[d] = "saving"
        PROVE  FALSE
    BY <2>1, <1>8, OneAtWorker DEF AtWorker
  <2> QED
    BY <2>1 DEF Saving, AtWorker, QueueInv, QueueOrder, WorkerHasLast
<1>10. \A i \in 1 .. Len(committed) :
          /\ LeftBy(committed[i], IF Saving THEN Left - 1 ELSE Left)
          /\ LeftBy(committed[i], IF Saving' THEN Left - 1 ELSE Left)
  <2> SUFFICES ASSUME NEW i \in 1 .. Len(committed)
               PROVE  /\ LeftBy(committed[i], IF Saving THEN Left - 1 ELSE Left)
                      /\ LeftBy(committed[i], IF Saving' THEN Left - 1 ELSE Left)
    OBVIOUS
  <2>1. LeftBy(committed[i], IF Saving THEN Left - 1 ELSE Left)
    BY DEF QueueInv, QueueOrder, CommittedHaveLeft
  <2>2. Saving' => Saving
    BY <1>8 DEF Saving
  <2>3. /\ (IF Saving THEN Left - 1 ELSE Left) \in Int
        /\ (IF Saving' THEN Left - 1 ELSE Left) \in Int
        /\ (IF Saving THEN Left - 1 ELSE Left) <= IF Saving' THEN Left - 1 ELSE Left
    BY <1>3, <2>2
  <2> QED
    BY <2>1, <2>3, LeftByMonotonic
<1>11. CASE committed' = committed
  <2>1. CommittedHaveLeft'
    BY <1>3, <1>10, <1>11 DEF CommittedHaveLeft, LeftBy
  <2>2. CommittedInOrder'
    BY <1>11 DEF QueueInv, QueueOrder, CommittedInOrder
  <2> QED
    BY <2>1, <2>2, <1>4, <1>5, <1>6, <1>7 DEF QueueOrder
<1>12. CASE stage[c] = "saving" /\ committed' = Append(committed, c)
  <2>1. /\ 1 .. Len(committed') = (1 .. Len(committed)) \cup {Len(committed) + 1}
        /\ \A i \in 1 .. Len(committed) : committed'[i] = committed[i]
        /\ committed'[Len(committed) + 1] = c
        /\ Len(committed) \in Nat
    BY <1>1, <1>12
  <2>2. Saving /\ ~Saving' /\ Left \in 1 .. Len(entered) /\ entered[Left] = c
    BY <1>3, <1>9, <1>12 DEF Saving, Left
  <2>3. LeftBy(c, Left)
    BY <2>2 DEF LeftBy
  <2>4. CommittedHaveLeft'
    <3> SUFFICES ASSUME NEW i \in 1 .. Len(committed')
                 PROVE  LeftBy(committed'[i], Left)
      BY <1>3, <2>2 DEF CommittedHaveLeft, LeftBy
    <3>1. CASE i \in 1 .. Len(committed)
      BY <3>1, <2>1, <2>2, <1>10
    <3>2. CASE i = Len(committed) + 1
      BY <3>2, <2>1, <2>3
    <3> QED
      BY <3>1, <3>2, <2>1
  <2>5. CommittedInOrder'
    <3> SUFFICES ASSUME NEW i \in 1 .. Len(committed'), NEW j \in 1 .. Len(committed'),
                        i < j
                 PROVE  \E p, q \in 1 .. Len(entered) :
                           /\ p < q
                           /\ entered[p] = committed'[i]
                           /\ entered[q] = committed'[j]
      BY DEF CommittedInOrder
    <3>1. i \in 1 .. Len(committed)
      BY <2>1
    <3>2. CASE j \in 1 .. Len(committed)
      BY <3>1, <3>2, <2>1 DEF QueueInv, QueueOrder, CommittedInOrder
    <3>3. CASE j = Len(committed) + 1
      <4>1. PICK p \in 1 .. Left - 1 : entered[p] = committed[i]
        BY <3>1, <2>2, <1>10 DEF LeftBy
      <4>2. p < Left /\ p \in 1 .. Len(entered)
        BY <4>1, <2>2, <1>3
      <4> QED
        BY <4>1, <4>2, <2>1, <2>2, <3>1, <3>3
    <3> QED
      BY <3>2, <3>3, <2>1
  <2> QED
    BY <2>4, <2>5, <1>4, <1>5, <1>6, <1>7 DEF QueueOrder
<1> QED
  BY <1>11, <1>12

\* A step of the recorder's lifecycle, or of somebody else.
LEMMA Rests ==
    ASSUME QueueInv, UNCHANGED <<queue, entered, stage, told, committed>>, Phases'
    PROVE  QueueOrder'
BY DEF QueueInv, QueueOrder, QueueHoldsLast, QueueDistinct, Queued, WorkerHasLast,
       ToldOnceWhenSettled, CommittedHaveLeft, CommittedInOrder, Left, LeftBy,
       Saving, AtWorker

LEMMA MoveType ==
    ASSUME stage \in [Call -> Stage], NEW c \in Call, NEW to \in Stage, Moves(c, to)
    PROVE  stage' \in [Call -> Stage]
BY DEF Moves

LEMMA TailType ==
    ASSUME NEW S, NEW q \in Seq(S), q # <<>>
    PROVE  Head(q) \in S /\ Tail(q) \in Seq(S) /\ Len(Tail(q)) = Len(q) - 1
OBVIOUS

LEMMA QueueTypeInductive ==
    ASSUME TypeOK, [QueueNext]_vars
    PROVE  TypeOK'
<1> USE DEF TypeOK, RecorderTypeOK, HasRoom, Stage, InFlight, Settled, Mode
<1>1. Capacity \in Nat
  BY CapacityAssumption
<1>2. ASSUME NEW c \in Call, Offer(c)
      PROVE  TypeOK'
  <2>1. CASE Accept(c) /\ entered' = Append(entered, c) /\ UNCHANGED <<told, committed>>
    BY <2>1, <1>1, MoveType DEF Accept
  <2>2. CASE Drop(c) /\ Told(c) /\ UNCHANGED <<entered, committed>>
    BY <2>2, MoveType DEF Drop, Told
  <2>3. CASE Block(c) /\ UNCHANGED <<told, entered, committed>>
    BY <2>3, MoveType DEF Block
  <2> QED
    BY <1>2, <2>1, <2>2, <2>3 DEF Offer
<1>3. ASSUME NEW c \in Call, Wake(c)
      PROVE  TypeOK'
  <2>1. CASE Unblock(c) /\ entered' = Append(entered, c) /\ UNCHANGED <<told, committed>>
    BY <2>1, <1>1, MoveType DEF Unblock
  <2>2. CASE GiveUp(c) /\ Told(c) /\ UNCHANGED <<entered, committed>>
    BY <2>2, MoveType DEF GiveUp, Told
  <2> QED
    BY <1>3, <2>1, <2>2 DEF Wake
<1>4. ASSUME NEW c \in Call, Work(c)
      PROVE  TypeOK'
  <2>1. CASE Take(c) /\ UNCHANGED <<told, entered, committed>>
    BY <2>1, <1>1, MoveType, TailType DEF Take
  <2>2. CASE Commit(c) /\ committed' = Append(committed, c) /\ UNCHANGED <<told, entered>>
    BY <2>2, MoveType DEF Commit
  <2>3. CASE (Report(c) \/ FailSave(c)) /\ Told(c) /\ UNCHANGED <<entered, committed>>
    BY <2>3, MoveType DEF Report, FailSave, Told
  <2> QED
    BY <1>4, <2>1, <2>2, <2>3 DEF Work
<1>5. ASSUME Close
      PROVE  TypeOK'
  <2>1. CASE (BeginClose \/ CancelIdle \/ Closed) /\ UNCHANGED <<told, entered, committed>>
    BY <2>1 DEF BeginClose, CancelIdle, Closed
  <2>2. ASSUME NEW c \in Call, CancelSaving(c), Told(c), UNCHANGED entered,
               committed' = IF c \in rows' \ rows THEN Append(committed, c) ELSE committed
        PROVE  TypeOK'
    <3>1. committed' \in Seq(Call)
      BY <2>2
    <3> QED
      BY <2>2, <3>1, MoveType DEF CancelSaving, Told
  <2>3. ASSUME NEW c \in Call, DiscardRest(c), Told(c), UNCHANGED <<entered, committed>>
        PROVE  TypeOK'
    BY <2>3, <1>1, MoveType, TailType DEF DiscardRest, Told
  <2> QED
    BY <1>5, <2>1, <2>2, <2>3 DEF Close
<1>6. CASE UNCHANGED vars
  BY <1>6 DEF vars, recorderVars
<1> QED
  BY <1>2, <1>3, <1>4, <1>5, <1>6 DEF QueueNext

LEMMA QueueOrderInductive ==
    ASSUME QueueInv, [QueueNext]_vars
    PROVE  QueueOrder'
<1> USE DEF Settled
<1>1. /\ stage \in [Call -> Stage]
      /\ \A c \in Call : stage[c] = "blocked" => mode = "running"
      /\ \A c \in Call : AtWorker(c) => mode \in {"running", "draining"}
      /\ Phases /\ mode \in Mode
  BY DEF QueueInv, QueueOrder, TypeOK, RecorderTypeOK, Phases, WorkerIdle, Mode
<1>2. ASSUME NEW c \in Call, Offer(c)
      PROVE  QueueOrder'
  <2>0. mode = "running"
    BY <1>2 DEF Offer
  <2>1. CASE Accept(c) /\ entered' = Append(entered, c) /\ UNCHANGED <<told, committed>>
    BY <2>0, <2>1, Enters DEF Accept
  <2>2. CASE Drop(c) /\ Told(c) /\ UNCHANGED <<entered, committed>>
    <3>1. Phases'
      BY <2>0, <2>2, <1>1 DEF Phases, Drop, Moves
    <3> QED
      BY <2>2, <3>1, Proceeds DEF Drop, Told
  <2>3. CASE Block(c) /\ UNCHANGED <<told, entered, committed>>
    <3>1. Phases'
      BY <2>0, <2>3, <1>1 DEF Phases, Block, Moves
    <3> QED
      BY <2>3, <3>1, Proceeds DEF Block
  <2> QED
    BY <1>2, <2>1, <2>2, <2>3 DEF Offer
<1>3. ASSUME NEW c \in Call, Wake(c)
      PROVE  QueueOrder'
  <2>0. mode = "running"
    BY <1>1, <1>3 DEF Wake, Unblock, GiveUp
  <2>1. CASE Unblock(c) /\ entered' = Append(entered, c) /\ UNCHANGED <<told, committed>>
    BY <2>0, <2>1, Enters DEF Unblock
  <2>2. CASE GiveUp(c) /\ Told(c) /\ UNCHANGED <<entered, committed>>
    <3>1. Phases'
      BY <2>0, <2>2, <1>1 DEF Phases, GiveUp, Moves
    <3> QED
      BY <2>2, <3>1, Proceeds DEF GiveUp, Told
  <2> QED
    BY <1>3, <2>1, <2>2 DEF Wake
<1>4. ASSUME NEW c \in Call, Work(c)
      PROVE  QueueOrder'
  <2>1. CASE Take(c) /\ UNCHANGED <<told, entered, committed>>
    BY <2>1, Leaves DEF Take
  <2>2. CASE Commit(c) /\ committed' = Append(committed, c) /\ UNCHANGED <<told, entered>>
    <3>1. mode \in {"running", "draining"} /\ AtWorker(c)
      BY <1>1, <2>2 DEF Commit, AtWorker
    <3>2. Phases'
      BY <2>2, <3>1, <1>1 DEF Phases, Commit, Moves
    <3> QED
      BY <2>2, <3>1, <3>2, Proceeds DEF Commit
  <2>3. CASE (Report(c) \/ FailSave(c)) /\ Told(c) /\ UNCHANGED <<entered, committed>>
    <3>1. mode \in {"running", "draining"}
      BY <1>1, <2>3 DEF Report, FailSave, AtWorker
    <3>2. Phases'
      BY <2>3, <3>1, <1>1 DEF Phases, Report, FailSave, Moves
    <3> QED
      BY <2>3, <3>2, Proceeds DEF Report, FailSave, Told
  <2> QED
    BY <1>4, <2>1, <2>2, <2>3 DEF Work
<1>5. ASSUME Close
      PROVE  QueueOrder'
  <2>1. CASE (BeginClose \/ CancelIdle \/ Closed) /\ UNCHANGED <<told, entered, committed>>
    <3>1. Phases'
      BY <2>1, <1>1 DEF Phases, BeginClose, CancelIdle, Closed, WorkerIdle, AtWorker
    <3> QED
      BY <2>1, <3>1, Rests DEF BeginClose, CancelIdle, Closed
  <2>2. ASSUME NEW c \in Call, CancelSaving(c), Told(c), UNCHANGED entered,
               committed' = IF c \in rows' \ rows THEN Append(committed, c) ELSE committed
        PROVE  QueueOrder'
    <3>1. \A d \in Call : d # c => ~AtWorker(d)
      BY <2>2, OneAtWorker DEF CancelSaving
    <3>2. WorkerIdle'
      BY <2>2, <3>1, <1>1 DEF CancelSaving, WorkerIdle, AtWorker, Moves
    <3>3. Phases'
      BY <2>2, <3>2, <1>1 DEF Phases, CancelSaving, Moves
    <3>4. \/ committed' = committed
          \/ stage[c] = "saving" /\ committed' = Append(committed, c)
      BY <2>2 DEF CancelSaving, AtWorker
    <3> QED
      BY <2>2, <3>3, <3>4, Proceeds DEF CancelSaving, AtWorker, Told
  <2>3. ASSUME NEW c \in Call, DiscardRest(c), Told(c), UNCHANGED <<entered, committed>>
        PROVE  QueueOrder'
    <3>1. WorkerIdle
      BY <2>3, <1>1 DEF DiscardRest, Phases
    <3> QED
      BY <2>3, <3>1, Leaves DEF DiscardRest, Told
  <2> QED
    BY <1>5, <2>1, <2>2, <2>3 DEF Close
<1>6. CASE UNCHANGED vars
  <2>1. Phases'
    BY <1>1, <1>6 DEF Phases, WorkerIdle, AtWorker, vars, recorderVars
  <2> QED
    BY <1>6, <2>1, Rests DEF vars, recorderVars
<1> QED
  BY <1>2, <1>3, <1>4, <1>5, <1>6 DEF QueueNext

\* What holds of the recorder's queue is kept by each of its steps.
LEMMA QueueInductive == QueueInv /\ [QueueNext]_vars => QueueInv'
BY QueueTypeInductive, QueueOrderInductive DEF QueueInv

LEMMA QueueInit == Init => QueueInv
<1> SUFFICES ASSUME Init
             PROVE  QueueInv
  OBVIOUS
<1> USE DEF Init, RecorderInit
<1>1. TypeOK
  BY CapacityAssumption DEF TypeOK, RecorderTypeOK, Stage, Mode
<1>2. \A c \in Call : stage[c] = "none"
  OBVIOUS
<1>3. Len(queue) = 0 /\ Len(entered) = 0 /\ Len(committed) = 0
  OBVIOUS
<1>4. QueueHoldsLast /\ QueueDistinct /\ CommittedHaveLeft /\ CommittedInOrder
  BY <1>3 DEF QueueHoldsLast, QueueDistinct, CommittedHaveLeft, CommittedInOrder, Left
<1>5. Queued /\ WorkerHasLast /\ ToldOnceWhenSettled /\ Phases
  BY <1>2, <1>3
  DEF Queued, WorkerHasLast, ToldOnceWhenSettled, Phases, AtWorker, Settled, WorkerIdle
<1> QED
  BY <1>1, <1>4, <1>5 DEF QueueInv, QueueOrder

-----------------------------------------------------------------------------
(* The manager above the recorder *)

\* Whatever the manager does, the recorder only ever takes its own steps.
LEMMA ManagerIsAClient == [ShadowNext]_allVars => [QueueNext]_vars
<1> SUFFICES ASSUME [ShadowNext]_allVars
             PROVE  [QueueNext]_vars
  OBVIOUS
<1>0. Mirror \subseteq Call
  BY MirrorAssumption, ImportantAssumption
<1>1. ASSUME NEW m \in Mirror, Submit(m) \/ RunMirror(m)
      PROVE  [QueueNext]_vars
  <2>1. CASE Submit(m) \/ TakeMirror(m) \/ CountWritten(m) \/ CountFails(m)
    BY <2>1 DEF Submit, TakeMirror, CountWritten, CountFails
  <2>2. CASE Mirrored(m)
    BY <2>2, <1>0 DEF Mirrored, QueueNext
  <2> QED
    BY <1>1, <2>1, <2>2 DEF RunMirror
<1>2. ASSUME NEW c \in Call, Offered(c)
      PROVE  [QueueNext]_vars
  BY <1>2 DEF Offered, QueueNext
<1>3. CASE Flush \/ BeginStop
  BY <1>3 DEF Flush, FlushBegins, FlushEnds, FlushOne, FlushFails, BeginStop
<1>4. CASE Stop
  <2>1. CASE StopWorkers \/ WorkersStopped \/ Exit
    BY <2>1 DEF StopWorkers, WorkersStopped, Exit
  <2>2. ASSUME NEW m \in Mirror, CancelMirror(m)
        PROVE  [QueueNext]_vars
    <3>1. CASE UNCHANGED vars
      BY <3>1
    <3>2. CASE GiveUp(m) /\ Told(m) /\ UNCHANGED <<entered, committed>>
      BY <3>2, <1>0 DEF QueueNext, Wake
    <3> QED
      BY <2>2, <3>1, <3>2 DEF CancelMirror
  <2> QED
    BY <1>4, <2>1, <2>2 DEF Stop
<1>5. CASE Record /\ UNCHANGED shadowVars
  BY <1>5 DEF Record, QueueNext
<1>6. CASE UNCHANGED allVars
  BY <1>6 DEF allVars
<1> QED
  BY <1>1, <1>2, <1>3, <1>4, <1>5, <1>6 DEF ShadowNext

LEMMA ShadowOfType == ASSUME NEW m \in Mirror PROVE ShadowOf[m] \in Shadows /\ m \in Call
BY MirrorAssumption, ImportantAssumption

Stats == [Shadows -> [Counter -> Nat]]

\* A committed increment adds to one counter of one experiment.
LEMMA IncrementsFacts ==
    ASSUME stats \in Stats, NEW s \in Shadows, NEW k \in Counter, NEW n \in Nat,
           Increments(s, k, n)
    PROVE  /\ stats' \in Stats
           /\ \A t \in Shadows, j \in Counter :
                 stats'[t][j] = stats[t][j] + IF t = s /\ j = k THEN n ELSE 0
<1> DEFINE new == [stats[s] EXCEPT ![k] = @ + n]
<1>1. /\ stats[s] \in [Counter -> Nat]
      /\ new \in [Counter -> Nat]
      /\ \A j \in Counter : new[j] = IF j = k THEN stats[s][j] + n ELSE stats[s][j]
  <2>1. stats[s] \in [Counter -> Nat]
    BY DEF Stats
  <2> QED
    BY <2>1
<1>2. stats' = [stats EXCEPT ![s] = new]
  BY DEF Increments
<1> HIDE DEF new
<1>3. /\ stats' \in Stats
      /\ stats'[s] = new
      /\ \A t \in Shadows : t # s => stats'[t] = stats[t]
  BY <1>1, <1>2 DEF Stats
<1>4. \A t \in Shadows, j \in Counter : stats[t][j] \in Nat
  BY DEF Stats
<1> QED
  BY <1>1, <1>3, <1>4

\* The counter a mirror is waiting for.
LEMMA TallyFacts ==
    ASSUME NEW m \in Mirror, place[m] \in Counting, Tally(m)
    PROVE  \E k \in Counter :
              /\ Increments(ShadowOf[m], k, 1)
              /\ k = "submitted" <=> place[m] = "announcing"
              /\ k = "dropped" <=> place[m] = "shedding"
<1>1. CASE place[m] = "announcing"
  BY <1>1 DEF Tally, Counter
<1>2. CASE place[m] = "shedding"
  BY <1>2 DEF Tally, Counter
<1>3. CASE place[m] = "counting" /\ m \in bad
  BY <1>3 DEF Tally, Counter
<1>4. CASE place[m] = "counting" /\ m \notin bad
  BY <1>4 DEF Tally, Counter
<1> QED
  BY <1>1, <1>2, <1>3, <1>4 DEF Counting

LEMMA TallyType ==
    ASSUME stats \in Stats, NEW m \in Mirror, place[m] \in Counting, Tally(m)
    PROVE  stats' \in Stats
<1>1. PICK k \in Counter : Increments(ShadowOf[m], k, 1)
  BY TallyFacts
<1> QED
  BY <1>1, IncrementsFacts, ShadowOfType

LEMMA PlaceType ==
    ASSUME ShadowTypeOK, NEW m \in Mirror,
           NEW p \in {"none", "waiting"} \cup Busy \cup Gone, ToPlace(m, p)
    PROVE  place' \in [Mirror -> {"none", "waiting"} \cup Busy \cup Gone]
BY DEF ShadowTypeOK, ToPlace

LEMMA CountsDropType ==
    ASSUME ShadowTypeOK, NEW m \in Mirror, CountsDrop(m)
    PROVE  unwritten' \in [Shadows -> Nat]
BY ShadowOfType DEF ShadowTypeOK, CountsDrop

LEMMA ShadowTypeInductive ==
    ASSUME ShadowTypeOK, [ShadowNext]_allVars
    PROVE  ShadowTypeOK'
<1>0. /\ TypeOK'
      /\ Mirror \subseteq Call
      /\ MirrorCapacity \in Nat
      /\ stats \in Stats
      /\ NoCounts \in [Shadows -> Nat]
  BY QueueTypeInductive, ManagerIsAClient, MirrorAssumption, ImportantAssumption,
     WorkersAssumption
  DEF ShadowTypeOK, Stats, NoCounts
<1> DEFINE Places == {"none", "waiting"} \cup Busy \cup Gone
           Managers == {"running", "draining", "cancelling", "flushing", "closed",
                        "failed", "exited"}
<1>1. ASSUME NEW m \in Mirror, Submit(m)
      PROVE  ShadowTypeOK'
  <2>1. CASE /\ Len(waiting) < MirrorCapacity
             /\ waiting' = Append(waiting, m)
             /\ ToPlace(m, "waiting")
             /\ UNCHANGED unwritten
    <3>1. waiting' \in Seq(Mirror) /\ Len(waiting') <= MirrorCapacity
      BY <2>1, <1>0 DEF ShadowTypeOK
    <3> QED
      BY <1>0, <1>1, <2>1, <3>1, PlaceType DEF ShadowTypeOK, Submit
  <2>2. CASE CountsDrop(m) /\ ToPlace(m, "ended") /\ UNCHANGED waiting
    BY <1>0, <1>1, <2>2, PlaceType, CountsDropType DEF ShadowTypeOK, Submit, Gone
  <2> QED
    BY <1>1, <2>1, <2>2 DEF Submit
<1>2. ASSUME NEW m \in Mirror, TakeMirror(m)
      PROVE  ShadowTypeOK'
  <2>1. waiting' \in Seq(Mirror) /\ Len(waiting') <= MirrorCapacity
    BY <1>2, <1>0, TailType DEF ShadowTypeOK, TakeMirror
  <2> QED
    BY <1>0, <1>2, <2>1, PlaceType DEF ShadowTypeOK, TakeMirror, Busy, Counting
<1>3. ASSUME NEW m \in Mirror, CountWritten(m)
      PROVE  ShadowTypeOK'
  <2>1. stats' \in Stats
    BY <1>0, <1>3, TallyType DEF CountWritten
  <2>2. place' \in [Mirror -> Places]
    BY <1>3, PlaceType DEF CountWritten, Busy, Gone
  <2> QED
    BY <1>0, <1>3, <2>1, <2>2 DEF ShadowTypeOK, CountWritten, Stats
<1>4. ASSUME NEW m \in Mirror, CountFails(m)
      PROVE  ShadowTypeOK'
  BY <1>0, <1>4, PlaceType, CountsDropType DEF ShadowTypeOK, CountFails, Gone
<1>5. ASSUME NEW m \in Mirror, Mirrored(m)
      PROVE  ShadowTypeOK'
  <2>1. place' \in [Mirror -> Places]
    BY <1>5, PlaceType DEF Mirrored, Busy, Counting
  <2>2. bad' \in SUBSET Mirror
    BY <1>5 DEF Mirrored, ShadowTypeOK
  <2> QED
    BY <1>0, <1>5, <2>1, <2>2 DEF ShadowTypeOK, Mirrored
<1>6. ASSUME NEW c \in Call, Offered(c)
      PROVE  ShadowTypeOK'
  <2>1. place' \in [Mirror -> Places]
    BY <1>6, PlaceType DEF Offered, Busy, Counting, ShadowTypeOK
  <2> QED
    BY <1>0, <1>6, <2>1 DEF ShadowTypeOK, Offered
<1>7. CASE FlushBegins
  BY <1>0, <1>7 DEF ShadowTypeOK, FlushBegins, mirrorVars
<1>8. CASE FlushEnds
  BY <1>0, <1>8 DEF ShadowTypeOK, FlushEnds, mirrorVars
<1>9. ASSUME NEW s \in Shadows, FlushOne(s)
      PROVE  ShadowTypeOK'
  <2>1. flushing \in [Shadows -> Nat]
    BY <1>9 DEF FlushOne, ShadowTypeOK
  <2>2. stats' \in Stats
    BY <1>0, <1>9, <2>1, IncrementsFacts DEF FlushOne, Counter
  <2> QED
    BY <1>0, <1>9, <2>1, <2>2 DEF ShadowTypeOK, FlushOne, mirrorVars, Stats
<1>10. ASSUME NEW s \in Shadows, FlushFails(s)
       PROVE  ShadowTypeOK'
  <2>1. flushing \in [Shadows -> Nat]
    BY <1>10 DEF FlushFails, ShadowTypeOK
  <2>2. unwritten' \in [Shadows -> Nat]
    BY <1>10, <2>1 DEF FlushFails, PutsBack, ShadowTypeOK
  <2> QED
    BY <1>0, <1>10, <2>2 DEF ShadowTypeOK, FlushFails, mirrorVars
<1>11. CASE BeginStop
  <2>1. stats' \in Stats
    <3>1. ASSUME flushing # None, NEW s \in Shadows, Increments(s, "dropped", flushing[s])
          PROVE  stats' \in Stats
      BY <1>0, <3>1, IncrementsFacts DEF ShadowTypeOK, Counter
    <3> QED
      BY <1>0, <1>11, <3>1 DEF BeginStop
  <2> QED
    BY <1>0, <1>11, <2>1 DEF ShadowTypeOK, BeginStop, mirrorVars, Stats
<1>12. CASE StopWorkers \/ WorkersStopped \/ Exit
  BY <1>0, <1>12 DEF ShadowTypeOK, StopWorkers, WorkersStopped, Exit, mirrorVars
<1>13. ASSUME NEW m \in Mirror, CancelMirror(m)
       PROVE  ShadowTypeOK'
  <2>1. stats' \in Stats
    BY <1>0, <1>13, TallyType DEF CancelMirror
  <2>2. place' \in [Mirror -> Places]
    BY <1>13, PlaceType DEF CancelMirror, Gone
  <2> QED
    BY <1>0, <1>13, <2>1, <2>2 DEF ShadowTypeOK, CancelMirror, Stats
<1>14. CASE UNCHANGED shadowVars
  BY <1>0, <1>14 DEF ShadowTypeOK, shadowVars, mirrorVars
<1> QED
  BY <1>1, <1>2, <1>3, <1>4, <1>5, <1>6, <1>7, <1>8, <1>9, <1>10, <1>11, <1>12, <1>13, <1>14
  DEF ShadowNext, RunMirror, Flush, Stop, allVars

LEMMA ShadowInitType == ShadowInit => ShadowTypeOK
<1> SUFFICES ASSUME ShadowInit
             PROVE  ShadowTypeOK
  OBVIOUS
<1>1. TypeOK
  BY QueueInit DEF ShadowInit, QueueInv
<1> QED
  BY <1>1, WorkersAssumption DEF ShadowInit, ShadowTypeOK, NoCounts

\* Every variable of the recorder and of the shadow manager keeps its type: no
\* queue exceeds its bound and no counter is negative.
THEOREM ShadowTypeCorrect == ShadowSpec => []ShadowTypeOK
BY ShadowInitType, ShadowTypeInductive, PTL DEF ShadowSpec

LEMMA QueueInvariant == ShadowSpec => []QueueInv
<1>1. ShadowInit => QueueInv
  BY QueueInit DEF ShadowInit
<1>2. QueueInv /\ [ShadowNext]_allVars => QueueInv'
  BY QueueInductive, ManagerIsAClient
<1> QED
  BY <1>1, <1>2, PTL DEF ShadowSpec

\* Whatever fails to be saved, is refused, given up or cut off by a shutdown:
\* observers hear of every trace that settles once, and of no other.
THEOREM ObserversToldOnce == ShadowSpec => []ToldOnceWhenSettled
<1>1. QueueInv => ToldOnceWhenSettled
  BY DEF QueueInv, QueueOrder
<1> QED
  BY <1>1, QueueInvariant, PTL

\* Rows are committed in the order in which their traces entered the queue.
THEOREM RowsInQueueOrder == ShadowSpec => []CommittedInOrder
<1>1. QueueInv => CommittedInOrder
  BY DEF QueueInv, QueueOrder
<1> QED
  BY <1>1, QueueInvariant, PTL

-----------------------------------------------------------------------------
(* Shutdown *)

EnteredQueue(m) == \E i \in DOMAIN entered : entered[i] = m

\* The recorder is closed by a manager whose workers are gone; a mirror waits
\* for a slot with its worker, and is counted once its trace has one.
ManagerOrder ==
    /\ mode # "running" => manager = "closed"
    /\ manager \in {"flushing", "closed", "failed", "exited"}
          => \A m \in Mirror : place[m] \notin Busy
    /\ \A m \in Mirror : stage[m] = "blocked" => place[m] = "offering"
    /\ \A m \in Mirror : place[m] = "counting" => EnteredQueue(m)

\* What entered the queue stays on record.
LEMMA EnteredStays ==
    ASSUME TypeOK, [QueueNext]_vars
    PROVE  /\ \A m \in Call : EnteredQueue(m) => EnteredQueue(m)'
           /\ \A m \in Call : stage[m] # "queued" /\ stage'[m] = "queued"
                               => EnteredQueue(m)'
<1> USE DEF TypeOK, RecorderTypeOK
<1>1. ASSUME NEW c \in Call, entered' = Append(entered, c)
      PROVE  EnteredQueue(c)' /\ \A m \in Call : EnteredQueue(m) => EnteredQueue(m)'
  <2>1. /\ DOMAIN entered \subseteq DOMAIN entered'
        /\ \A i \in DOMAIN entered : entered'[i] = entered[i]
        /\ Len(entered) + 1 \in DOMAIN entered'
        /\ entered'[Len(entered) + 1] = c
    BY <1>1
  <2> QED
    BY <2>1, Zenon DEF EnteredQueue
<1>2. ASSUME UNCHANGED entered
      PROVE  \A m \in Call : EnteredQueue(m) => EnteredQueue(m)'
  BY <1>2 DEF EnteredQueue
<1>3. ASSUME NEW c \in Call, Accept(c) \/ Unblock(c), entered' = Append(entered, c)
      PROVE  /\ \A m \in Call : EnteredQueue(m) => EnteredQueue(m)'
             /\ \A m \in Call : stage[m] # "queued" /\ stage'[m] = "queued"
                                => EnteredQueue(m)'
  <2>1. \A m \in Call : m # c => stage'[m] = stage[m]
    BY <1>3 DEF Accept, Unblock, Moves
  <2> QED
    BY <1>1, <1>3, <2>1, Zenon
<1>4. ASSUME NEW c \in Call, UNCHANGED entered,
             \E to \in Stage \ {"queued"} : Moves(c, to)
      PROVE  /\ \A m \in Call : EnteredQueue(m) => EnteredQueue(m)'
             /\ \A m \in Call : stage[m] # "queued" /\ stage'[m] = "queued"
                                => EnteredQueue(m)'
  <2>1. PICK to \in Stage \ {"queued"} : Moves(c, to)
    BY <1>4
  <2>2. \A m \in Call : stage'[m] = stage[m] \/ stage'[m] = to
    BY <2>1 DEF Moves
  <2> QED
    BY <1>2, <1>4, <2>2
<1>5. ASSUME UNCHANGED <<entered, stage>>
      PROVE  /\ \A m \in Call : EnteredQueue(m) => EnteredQueue(m)'
             /\ \A m \in Call : stage[m] # "queued" /\ stage'[m] = "queued"
                                => EnteredQueue(m)'
  BY <1>2, <1>5
<1>6. "blocked" \in Stage \ {"queued"} /\ "saving" \in Stage \ {"queued"}
      /\ "written" \in Stage \ {"queued"} /\ "recorded" \in Stage \ {"queued"}
      /\ "discarded" \in Stage \ {"queued"}
  BY DEF Stage, InFlight, Settled
<1>7. ASSUME NEW c \in Call, Offer(c) \/ Wake(c) \/ Work(c)
      PROVE  \/ (Accept(c) \/ Unblock(c)) /\ entered' = Append(entered, c)
             \/ UNCHANGED entered /\ \E to \in Stage \ {"queued"} : Moves(c, to)
  BY <1>6, <1>7 DEF Offer, Wake, Work, Drop, Block, GiveUp, Take, Commit, Report, FailSave
<1>8. CASE Close
  <2>1. \/ UNCHANGED <<entered, stage>>
        \/ \E c \in Call : /\ UNCHANGED entered
                           /\ \E to \in Stage \ {"queued"} : Moves(c, to)
    BY <1>6, <1>8
    DEF Close, BeginClose, CancelIdle, Closed, CancelSaving, DiscardRest
  <2> QED
    BY <1>4, <1>5, <2>1
<1>9. CASE UNCHANGED vars
  BY <1>5, <1>9 DEF vars, recorderVars
<1> QED
  BY <1>3, <1>4, <1>7, <1>8, <1>9 DEF QueueNext

\* Only a trace offered, or offered again, comes to wait for a slot.
LEMMA BlockedComesFromOffer ==
    ASSUME TypeOK, NEW c \in Call, NEW m \in Call, m # c,
           Offer(c) \/ Wake(c) \/ Work(c)
    PROVE  stage'[m] = stage[m] /\ mode' = mode
BY DEF TypeOK, RecorderTypeOK, Offer, Wake, Work, Accept, Drop, Block, Unblock, GiveUp,
       Take, Commit, Report, FailSave, Moves

LEMMA NothingBlockedLater ==
    ASSUME TypeOK, NEW m \in Call, stage'[m] = "blocked",
           Close \/ Work(m) \/ Wake(m) \/ (UNCHANGED vars)
    PROVE  stage[m] = "blocked"
BY DEF TypeOK, RecorderTypeOK, Close, Work, Wake, BeginClose, CancelIdle, Closed,
       CancelSaving, DiscardRest, Take, Commit, Report, FailSave, Unblock, GiveUp, Moves,
       vars, recorderVars

\* A mirror is important: it takes a slot or waits for one.
LEMMA MirrorOffered ==
    ASSUME TypeOK, NEW m \in Mirror, Offer(m)
    PROVE  /\ mode = "running" /\ mode' = mode
           /\ stage[m] = "none"
           /\ stage'[m] = "blocked" \/ stage'[m] = "queued"
BY MirrorAssumption, ImportantAssumption
DEF TypeOK, RecorderTypeOK, Offer, Accept, Drop, Block, Moves

\* What the recorder's own steps leave alone of the manager's order.
LEMMA PlaceFacts ==
    ASSUME ShadowTypeOK, NEW m \in Mirror, NEW p, ToPlace(m, p)
    PROVE  /\ place'[m] = p
           /\ \A n \in Mirror : n # m => place'[n] = place[n]
BY DEF ShadowTypeOK, ToPlace

\* The mirrors in the manager's queue are those that wait in it, each once.
WaitingOrder ==
    /\ \A i \in 1 .. Len(waiting) : place[waiting[i]] = "waiting"
    /\ \A i, j \in 1 .. Len(waiting) : waiting[i] = waiting[j] => i = j

LEMMA WaitingOrderInductive ==
    ASSUME ShadowTypeOK, ManagerOrder, WaitingOrder, [ShadowNext]_allVars
    PROVE  WaitingOrder'
<1>1. waiting \in Seq(Mirror)
  BY DEF ShadowTypeOK
<1>2. ASSUME UNCHANGED waiting,
             UNCHANGED place \/ \E m \in Mirror : \E p : place[m] # "waiting" /\ ToPlace(m, p)
      PROVE  WaitingOrder'
  <2>1. CASE UNCHANGED place
    BY <1>2, <2>1 DEF WaitingOrder
  <2>2. ASSUME NEW m \in Mirror, NEW p, place[m] # "waiting", ToPlace(m, p)
        PROVE  WaitingOrder'
    <3>1. \A n \in Mirror : n # m => place'[n] = place[n]
      BY <2>2, PlaceFacts
    <3>2. \A i \in 1 .. Len(waiting) : waiting[i] \in Mirror
      BY <1>1
    <3> QED
      BY <1>2, <2>2, <3>1, <3>2 DEF WaitingOrder
  <2> QED
    BY <1>2, <2>1, <2>2
<1>3. ASSUME NEW m \in Mirror, Submit(m)
      PROVE  WaitingOrder'
  <2>1. CASE waiting' = Append(waiting, m) /\ ToPlace(m, "waiting")
    <3>1. /\ place'[m] = "waiting" /\ place[m] = "none"
          /\ \A n \in Mirror : n # m => place'[n] = place[n]
      BY <1>3, <2>1, PlaceFacts DEF Submit
    <3>2. /\ 1 .. Len(waiting') = (1 .. Len(waiting)) \cup {Len(waiting) + 1}
          /\ \A i \in 1 .. Len(waiting) : waiting'[i] = waiting[i] /\ waiting[i] \in Mirror
          /\ waiting'[Len(waiting) + 1] = m
      BY <1>1, <2>1
    <3>3. \A i \in 1 .. Len(waiting) : waiting[i] # m
      BY <3>1 DEF WaitingOrder
    <3>4. \A i \in 1 .. Len(waiting') : place'[waiting'[i]] = "waiting"
      BY <3>1, <3>2, <3>3 DEF WaitingOrder
    <3>5. ASSUME NEW i \in 1 .. Len(waiting'), NEW j \in 1 .. Len(waiting'),
                 waiting'[i] = waiting'[j]
          PROVE  i = j
      BY <3>2, <3>3, <3>5 DEF WaitingOrder
    <3> QED
      BY <3>4, <3>5 DEF WaitingOrder
  <2>2. CASE ToPlace(m, "ended") /\ UNCHANGED waiting
    BY <1>2, <1>3, <2>2 DEF Submit
  <2> QED
    BY <1>3, <2>1, <2>2 DEF Submit
<1>4. ASSUME NEW m \in Mirror, TakeMirror(m)
      PROVE  WaitingOrder'
  <2>1. /\ \A n \in Mirror : n # m => place'[n] = place[n]
    BY <1>4, PlaceFacts DEF TakeMirror
  <2>2. /\ \A i \in 1 .. Len(waiting') :
              /\ waiting'[i] = waiting[i + 1] /\ i + 1 \in 1 .. Len(waiting)
              /\ waiting'[i] \in Mirror /\ i # 0
        /\ waiting[1] = m /\ 1 \in 1 .. Len(waiting)
    BY <1>1, <1>4 DEF TakeMirror
  <2>3. ASSUME NEW i \in 1 .. Len(waiting')
        PROVE  waiting'[i] # m
    <3>1. i + 1 # 1
      OBVIOUS
    <3> QED
      BY <2>2, <3>1 DEF WaitingOrder
  <2>4. \A i \in 1 .. Len(waiting') : place'[waiting'[i]] = "waiting"
    BY <2>1, <2>2, <2>3 DEF WaitingOrder
  <2>5. ASSUME NEW i \in 1 .. Len(waiting'), NEW j \in 1 .. Len(waiting'),
               waiting'[i] = waiting'[j]
        PROVE  i = j
    <3>1. i + 1 = j + 1
      BY <2>2, <2>5 DEF WaitingOrder
    <3> QED
      BY <3>1
  <2> QED
    BY <2>4, <2>5 DEF WaitingOrder
<1>5. ASSUME NEW m \in Mirror, CountWritten(m) \/ CountFails(m) \/ Mirrored(m) \/ CancelMirror(m)
      PROVE  WaitingOrder'
  BY <1>2, <1>5 DEF CountWritten, CountFails, Mirrored, CancelMirror, Counting, Busy
<1>6. CASE Flush \/ BeginStop \/ StopWorkers \/ WorkersStopped \/ Exit
  BY <1>2, <1>6
  DEF Flush, FlushBegins, FlushEnds, FlushOne, FlushFails, BeginStop, StopWorkers,
      WorkersStopped, Exit, mirrorVars
<1>7. CASE UNCHANGED shadowVars
  BY <1>2, <1>7 DEF shadowVars, mirrorVars
<1>8. ASSUME NEW c \in Call, Offered(c), ManagerOrder
      PROVE  WaitingOrder'
  <2>1. stage[c] = "blocked"
    BY <1>8 DEF Offered, Wake, Unblock, GiveUp
  <2> QED
    BY <1>2, <1>8, <2>1 DEF Offered, ManagerOrder
<1> QED
  BY <1>3, <1>4, <1>5, <1>6, <1>7, <1>8 DEF ShadowNext, RunMirror, Stop, allVars

LEMMA ManagerOrderInductive ==
    ASSUME ShadowTypeOK, ManagerOrder, WaitingOrder, [ShadowNext]_allVars
    PROVE  ManagerOrder'
<1>1. /\ TypeOK
      /\ Mirror \subseteq Call
      /\ \A m \in Call : EnteredQueue(m) => EnteredQueue(m)'
      /\ \A m \in Call : stage[m] # "queued" /\ stage'[m] = "queued" => EnteredQueue(m)'
      /\ manager \in {"running", "draining", "cancelling", "flushing", "closed",
                       "failed", "exited"}
  BY MirrorAssumption, ImportantAssumption, ManagerIsAClient, EnteredStays
  DEF ShadowTypeOK
<1>2. \A m \in Mirror : place[m] = "counting" => EnteredQueue(m)'
  BY <1>1 DEF ManagerOrder
<1>3. ASSUME UNCHANGED vars, UNCHANGED manager, NEW m \in Mirror,
             NEW p, p # "counting", ToPlace(m, p), place[m] # "offering",
             p \in Busy => manager \in {"running", "draining"} \/ place[m] \in Busy
      PROVE  ManagerOrder'
  <2>1. \A n \in Mirror : n # m => place'[n] = place[n]
    BY <1>3, PlaceFacts
  <2>2. place'[m] = p
    BY <1>3, PlaceFacts
  <2>3. UNCHANGED <<mode, stage, entered>>
    BY <1>3 DEF vars, recorderVars
  <2>4. (mode # "running" => manager = "closed")'
    BY <1>3, <2>3 DEF ManagerOrder
  <2>5. manager' \in {"flushing", "closed", "failed", "exited"}
          => \A n \in Mirror : place'[n] \notin Busy
    BY <1>3, <2>1, <2>2 DEF ManagerOrder
  <2>6. \A n \in Mirror : stage'[n] = "blocked" => place'[n] = "offering"
    BY <1>3, <2>1, <2>2, <2>3 DEF ManagerOrder
  <2>7. \A n \in Mirror : place'[n] = "counting" => EnteredQueue(n)'
    BY <1>2, <1>3, <2>1, <2>2
  <2> QED
    BY <2>4, <2>5, <2>6, <2>7 DEF ManagerOrder
<1>4. ASSUME UNCHANGED vars, UNCHANGED place,
             manager' = "closed" \/ mode = "running" \/ manager' = manager,
             manager' \in {"flushing", "closed", "failed", "exited"} =>
                \/ manager \in {"flushing", "closed", "failed", "exited"}
                \/ AtShadowWorker = {}
      PROVE  ManagerOrder'
  BY <1>2, <1>4 DEF ManagerOrder, AtShadowWorker, vars, recorderVars
<1>5. ASSUME NEW m \in Mirror, Submit(m) \/ TakeMirror(m) \/ CountWritten(m) \/ CountFails(m)
      PROVE  ManagerOrder'
  <2>1. CASE Submit(m)
    BY <1>3, <2>1 DEF Submit, Busy, Counting
  <2>2. CASE TakeMirror(m)
    <3>1. m = waiting[1] /\ 1 \in 1 .. Len(waiting)
      BY <2>2 DEF TakeMirror, ShadowTypeOK
    <3>2. place[m] # "offering"
      BY <3>1 DEF WaitingOrder
    <3> QED
      BY <1>3, <2>2, <3>2 DEF TakeMirror
  <2>3. CASE CountWritten(m)
    BY <1>3, <2>3 DEF CountWritten, Counting, Busy
  <2>4. CASE CountFails(m)
    BY <1>3, <2>4 DEF CountFails, Counting, Busy
  <2> QED
    BY <1>5, <2>1, <2>2, <2>3, <2>4
<1>6. ASSUME NEW m \in Mirror, Mirrored(m)
      PROVE  ManagerOrder'
  <2>1. /\ mode = "running" /\ mode' = mode /\ manager' = manager
        /\ stage'[m] = "blocked" \/ stage'[m] = "queued"
        /\ stage[m] = "none"
        /\ \A n \in Mirror : n # m => stage'[n] = stage[n]
    BY <1>1, <1>6, MirrorOffered, BlockedComesFromOffer DEF Mirrored
  <2>2. /\ place'[m] = IF stage'[m] = "blocked" THEN "offering" ELSE "counting"
        /\ \A n \in Mirror : n # m => place'[n] = place[n]
        /\ place[m] \in Busy
    BY <1>6, PlaceFacts DEF Mirrored, Busy
  <2>3. stage'[m] = "queued" => EnteredQueue(m)'
    BY <1>1, <2>1
  <2> QED
    BY <1>2, <2>1, <2>2, <2>3 DEF ManagerOrder
<1>7. ASSUME NEW c \in Call, Offered(c)
      PROVE  ManagerOrder'
  <2>1. /\ mode' = mode /\ manager' = manager /\ Wake(c)
        /\ stage[c] = "blocked" /\ stage'[c] # "blocked"
        /\ \A n \in Call : n # c => stage'[n] = stage[n]
    BY <1>1, <1>7, BlockedComesFromOffer
    DEF Offered, Wake, Unblock, GiveUp, Moves, TypeOK, RecorderTypeOK
  <2>2. \A n \in Mirror : n # c => place'[n] = place[n]
    BY <1>7, PlaceFacts DEF Offered
  <2>3. CASE c \in Mirror
    <3>1. place'[c] = IF stage'[c] = "queued" THEN "counting" ELSE "shedding"
      BY <1>7, <2>3, PlaceFacts DEF Offered
    <3>2. place[c] = "offering"
      BY <2>1, <2>3 DEF ManagerOrder
    <3>3. stage'[c] = "queued" => EnteredQueue(c)'
      BY <1>1, <2>1
    <3>4. (mode # "running" => manager = "closed")'
      BY <2>1 DEF ManagerOrder
    <3>5. manager' \in {"flushing", "closed", "failed", "exited"}
            => \A n \in Mirror : place'[n] \notin Busy
      BY <2>1, <2>2, <2>3, <3>2 DEF ManagerOrder, Busy
    <3>6. \A n \in Mirror : stage'[n] = "blocked" => place'[n] = "offering"
      BY <1>1, <2>1, <2>2 DEF ManagerOrder
    <3>7. \A n \in Mirror : place'[n] = "counting" => EnteredQueue(n)'
      BY <1>2, <2>2, <3>1, <3>3
    <3> QED
      BY <3>4, <3>5, <3>6, <3>7 DEF ManagerOrder
  <2>4. CASE c \notin Mirror
    BY <1>1, <1>2, <2>1, <2>2, <2>4 DEF ManagerOrder
  <2> QED
    BY <2>3, <2>4
<1>8. ASSUME NEW m \in Mirror, CancelMirror(m)
      PROVE  ManagerOrder'
  <2>1. /\ place'[m] = "cancelled" /\ manager = "cancelling" /\ manager' = manager
        /\ \A n \in Mirror : n # m => place'[n] = place[n]
    BY <1>8, PlaceFacts DEF CancelMirror
  <2>2. /\ mode' = mode
        /\ stage'[m] # "blocked"
        /\ \A n \in Mirror : n # m => stage'[n] = stage[n]
    <3>1. CASE UNCHANGED vars /\ place[m] # "offering"
      BY <3>1 DEF ManagerOrder, vars, recorderVars
    <3>2. CASE GiveUp(m)
      BY <1>1, <3>2 DEF GiveUp, Moves, TypeOK, RecorderTypeOK
    <3> QED
      BY <1>8, <3>1, <3>2 DEF CancelMirror, Counting
  <2> QED
    BY <1>2, <2>1, <2>2 DEF ManagerOrder
<1>9. CASE Flush
  BY <1>4, <1>9
  DEF Flush, FlushBegins, FlushEnds, FlushOne, FlushFails, mirrorVars, ManagerOrder
<1>10. CASE BeginStop \/ StopWorkers \/ WorkersStopped \/ Exit
  BY <1>4, <1>10
  DEF BeginStop, StopWorkers, WorkersStopped, Exit, mirrorVars, ManagerOrder
<1>11. CASE Record /\ UNCHANGED shadowVars
  <2>1. UNCHANGED <<place, manager>>
    BY <1>11 DEF shadowVars, mirrorVars
  <2>2. \A m \in Mirror : place'[m] = "counting" => EnteredQueue(m)'
    BY <1>2, <2>1
  <2>3. ASSUME NEW c \in Call \ Mirror, Offer(c)
        PROVE  ManagerOrder'
    <3>1. \A m \in Mirror : stage'[m] = stage[m] /\ mode' = mode
      BY <1>1, <2>3, BlockedComesFromOffer
    <3>2. mode = "running" /\ mode' = mode
      BY <2>3 DEF Offer, Accept, Drop, Block
    <3> QED
      BY <2>1, <2>2, <3>1, <3>2 DEF ManagerOrder
  <2>4. ASSUME NEW c \in Call, Work(c)
        PROVE  ManagerOrder'
    <3>1. \A m \in Mirror : stage'[m] = "blocked" => stage[m] = "blocked"
      BY <1>1, <2>4, BlockedComesFromOffer, NothingBlockedLater
    <3>2. mode' = mode
      BY <2>4 DEF Work, Take, Commit, Report, FailSave
    <3> QED
      BY <2>1, <2>2, <3>1, <3>2 DEF ManagerOrder
  <2>5. CASE manager = "closed" /\ Close
    <3>1. \A m \in Mirror : stage'[m] = "blocked" => stage[m] = "blocked"
      BY <1>1, <2>5, NothingBlockedLater
    <3> QED
      BY <2>1, <2>2, <2>5, <3>1 DEF ManagerOrder
  <2> QED
    BY <1>11, <2>3, <2>4, <2>5 DEF Record, RecorderMayCloseNow
<1>12. CASE UNCHANGED allVars
  BY <1>4, <1>12 DEF allVars, shadowVars, mirrorVars
<1> QED
  BY <1>5, <1>6, <1>7, <1>8, <1>9, <1>10, <1>11, <1>12 DEF ShadowNext, RunMirror, Stop

\* The conjuncts together, as they depend on one another.
ShadowOrder == ShadowTypeOK /\ QueueInv /\ ManagerOrder /\ WaitingOrder

LEMMA ShadowOrderInvariant == ShadowSpec => []ShadowOrder
<1>1. ShadowInit => ShadowOrder
  <2> SUFFICES ASSUME ShadowInit
               PROVE  ShadowOrder
    OBVIOUS
  <2>1. QueueInv
    BY QueueInit DEF ShadowInit
  <2>2. ManagerOrder
    BY MirrorAssumption, ImportantAssumption
    DEF ShadowInit, Init, RecorderInit, ManagerOrder, Busy, Counting
  <2>3. WaitingOrder
    BY DEF ShadowInit, WaitingOrder
  <2> QED
    BY <2>1, <2>2, <2>3, ShadowInitType DEF ShadowOrder
<1>2. ShadowOrder /\ [ShadowNext]_allVars => ShadowOrder'
  BY ShadowTypeInductive, QueueInductive, ManagerIsAClient, ManagerOrderInductive,
     WaitingOrderInductive
  DEF ShadowOrder
<1> QED
  BY <1>1, <1>2, PTL DEF ShadowSpec

\* A recorder that is closed while mirrors are on their way would never settle
\* them: the manager is closed first, and when aclose() returns every trace
\* that was ever offered is settled.
THEOREM ShutdownSettles == ShadowSpec => []ShutdownSettlesAll
<1>1. ShadowOrder => ShutdownSettlesAll
  <2> SUFFICES ASSUME ShadowOrder
               PROVE  ShutdownSettlesAll
    OBVIOUS
  <2>1. mode # "running" => \A m \in Mirror : place[m] \notin Busy
    BY DEF ShadowOrder, ManagerOrder
  <2>2. ASSUME mode = "closed", NEW c \in Call
        PROVE  stage[c] \in Settled \cup {"none"}
    <3>1. stage[c] \in Stage
      BY DEF ShadowOrder, QueueInv, TypeOK, RecorderTypeOK
    <3>2. stage[c] # "queued"
      <4>1. Len(queue) = 0
        BY <2>2 DEF ShadowOrder, QueueInv, QueueOrder, Phases
      <4> QED
        BY <4>1 DEF ShadowOrder, QueueInv, QueueOrder, Queued
    <3>3. stage[c] \notin {"blocked", "lost", "saving", "written"}
      BY <2>2 DEF ShadowOrder, QueueInv, QueueOrder, Phases, WorkerIdle, AtWorker
    <3> QED
      BY <3>1, <3>2, <3>3 DEF Stage, InFlight
  <2> QED
    BY <2>1, <2>2 DEF ShutdownSettlesAll, CloseSettlesAll
<1> QED
  BY <1>1, ShadowOrderInvariant, PTL

-----------------------------------------------------------------------------
(* Attrition *)

UnderWay == {"sending", "offering", "counting"}
GoneMirrors == {m \in Mirror : place[m] \in Gone}
GoneWithTrace == {m \in Mirror : place[m] \in Gone /\ EnteredQueue(m)}
MirrorsUnderWay == {m \in Mirror : place[m] \in UnderWay}

Answered(s) == stats[s]["completed"] + stats[s]["failed"]

\* A mirror adds to the counts of its experiment when it is gone, to those of
\* the answered only if its trace had a slot, and only after it had been
\* counted as submitted.
Accounted ==
    \A s \in Shadows :
        /\ Answered(s) + stats[s]["dropped"] + unwritten[s] + InFlush(s)
             <= Of(s, GoneMirrors)
        /\ Answered(s) <= Of(s, GoneWithTrace)
        /\ Answered(s) + Of(s, MirrorsUnderWay) <= stats[s]["submitted"]

\* Of(s, P) counts.
Mine(m, s) == IF ShadowOf[m] = s THEN 1 ELSE 0

LEMMA MirrorsFinite == \A P \in SUBSET Mirror : IsFiniteSet(P)
BY FiniteCalls, FS_Subset, MirrorAssumption, ImportantAssumption

LEMMA OfType == ASSUME NEW s, NEW P \in SUBSET Mirror PROVE Of(s, P) \in Nat
<1>1. IsFiniteSet({m \in P : ShadowOf[m] = s})
  BY MirrorsFinite
<1> QED
  BY <1>1, FS_CardinalityType DEF Of

LEMMA OfMonotonic ==
    ASSUME NEW s, NEW Q \in SUBSET Mirror, NEW P \in SUBSET Q
    PROVE  Of(s, P) <= Of(s, Q)
<1>1. IsFiniteSet({m \in Q : ShadowOf[m] = s})
  BY MirrorsFinite
<1>2. {m \in P : ShadowOf[m] = s} \subseteq {m \in Q : ShadowOf[m] = s}
  OBVIOUS
<1> QED
  BY <1>1, <1>2, FS_Subset DEF Of

LEMMA OfAdd ==
    ASSUME NEW s, NEW P \in SUBSET Mirror, NEW m \in Mirror \ P
    PROVE  Of(s, P \cup {m}) = Of(s, P) + Mine(m, s)
<1> DEFINE A == {n \in P : ShadowOf[n] = s}
<1>1. IsFiniteSet(A)
  BY MirrorsFinite
<1>2. CASE ShadowOf[m] = s
  <2>1. {n \in P \cup {m} : ShadowOf[n] = s} = A \cup {m} /\ m \notin A
    BY <1>2
  <2>2. Cardinality(A \cup {m}) = Cardinality(A) + 1
    BY <1>1, <2>1, FS_AddElement
  <2> QED
    BY <1>2, <2>1, <2>2 DEF Of, Mine
<1>3. CASE ShadowOf[m] # s
  <2>1. {n \in P \cup {m} : ShadowOf[n] = s} = A
    BY <1>3
  <2>2. Cardinality(A) \in Nat
    BY <1>1, FS_CardinalityType
  <2>3. Of(s, P \cup {m}) = Of(s, P)
    BY <2>1 DEF Of
  <2>4. Of(s, P) \in Nat
    BY <2>2 DEF Of
  <2> HIDE DEF A
  <2> QED
    BY <1>3, <2>3, <2>4 DEF Mine
<1> QED
  BY <1>2, <1>3

\* What a mirror's move does to the three counts.
LEMMA GoneGrows ==
    ASSUME ShadowTypeOK, NEW s, NEW m \in Mirror, place[m] \notin Gone, NEW p,
           ToPlace(m, p)
    PROVE  Of(s, GoneMirrors)' = Of(s, GoneMirrors) + IF p \in Gone THEN Mine(m, s) ELSE 0
<1>1. \A n \in Mirror : place'[n] = IF n = m THEN p ELSE place[n]
  BY PlaceFacts
<1>2. GoneMirrors \in SUBSET Mirror /\ m \notin GoneMirrors
  BY DEF GoneMirrors
<1>3. CASE p \in Gone
  <2>1. GoneMirrors' = GoneMirrors \cup {m}
    BY <1>1, <1>3 DEF GoneMirrors
  <2> QED
    BY <1>2, <1>3, <2>1, OfAdd DEF Of
<1>4. CASE p \notin Gone
  <2>1. GoneMirrors' = GoneMirrors
    BY <1>1, <1>4 DEF GoneMirrors
  <2>2. Of(s, GoneMirrors)' = Of(s, GoneMirrors)
    BY <2>1 DEF Of
  <2> QED
    BY <1>2, <1>4, <2>2, OfType
<1> QED
  BY <1>3, <1>4

LEMMA GoneWithTraceGrows ==
    ASSUME ShadowTypeOK, [QueueNext]_vars,
           NEW s, NEW m \in Mirror, place[m] \notin Gone, NEW p, ToPlace(m, p)
    PROVE  Of(s, GoneWithTrace)' >=
              Of(s, GoneWithTrace) + IF p \in Gone /\ EnteredQueue(m) THEN Mine(m, s) ELSE 0
<1>1. \A n \in Mirror : place'[n] = IF n = m THEN p ELSE place[n]
  BY PlaceFacts
<1>2. \A n \in Mirror : EnteredQueue(n) => EnteredQueue(n)'
  BY EnteredStays, MirrorAssumption, ImportantAssumption DEF ShadowTypeOK
<1>3. GoneWithTrace \in SUBSET Mirror /\ m \notin GoneWithTrace /\ GoneWithTrace' \in SUBSET Mirror
  BY DEF GoneWithTrace
<1>4. Of(s, GoneWithTrace)' = Of(s, GoneWithTrace')
  BY DEF Of
<1>5. CASE p \in Gone /\ EnteredQueue(m)
  <2>1. GoneWithTrace \cup {m} \subseteq GoneWithTrace'
    BY <1>1, <1>2, <1>5 DEF GoneWithTrace
  <2>2. Of(s, GoneWithTrace \cup {m}) = Of(s, GoneWithTrace) + Mine(m, s)
    BY <1>3, OfAdd
  <2>3. Of(s, GoneWithTrace \cup {m}) <= Of(s, GoneWithTrace')
    BY <1>3, <2>1, OfMonotonic
  <2> QED
    BY <1>4, <1>5, <2>2, <2>3
<1>6. CASE ~(p \in Gone /\ EnteredQueue(m))
  <2>1. GoneWithTrace \subseteq GoneWithTrace'
    BY <1>1, <1>2 DEF GoneWithTrace
  <2> QED
    BY <1>3, <1>4, <1>6, <2>1, OfType, OfMonotonic
<1> QED
  BY <1>5, <1>6

LEMMA UnderWayMoves ==
    ASSUME ShadowTypeOK, NEW s, NEW m \in Mirror, NEW p, ToPlace(m, p)
    PROVE  Of(s, MirrorsUnderWay)'
              + (IF place[m] \in UnderWay THEN Mine(m, s) ELSE 0)
           = Of(s, MirrorsUnderWay) + IF p \in UnderWay THEN Mine(m, s) ELSE 0
<1> DEFINE Others == MirrorsUnderWay \ {m}
<1>1. \A n \in Mirror : place'[n] = IF n = m THEN p ELSE place[n]
  BY PlaceFacts
<1>2. Others \in SUBSET Mirror /\ m \notin Others /\ Of(s, Others) \in Nat /\ Mine(m, s) \in Nat
  BY OfType DEF MirrorsUnderWay, Mine
<1>3. /\ MirrorsUnderWay = IF place[m] \in UnderWay THEN Others \cup {m} ELSE Others
      /\ MirrorsUnderWay' = IF p \in UnderWay THEN Others \cup {m} ELSE Others
  BY <1>1 DEF MirrorsUnderWay
<1>4. Of(s, MirrorsUnderWay)' = Of(s, MirrorsUnderWay')
  BY DEF Of
<1>5. Of(s, Others \cup {m}) = Of(s, Others) + Mine(m, s)
  BY <1>2, OfAdd
<1> HIDE DEF Others
<1> QED
  BY <1>2, <1>3, <1>4, <1>5

Total(s) == Answered(s) + stats[s]["dropped"] + unwritten[s] + InFlush(s)

LEMMA CountsType ==
    ASSUME ShadowTypeOK, NEW s \in Shadows
    PROVE  /\ stats \in Stats
           /\ \A k \in Counter : stats[s][k] \in Nat
           /\ Answered(s) \in Nat /\ unwritten[s] \in Nat /\ InFlush(s) \in Nat
           /\ Total(s) \in Nat
           /\ \A m \in Mirror : Mine(m, s) \in {0, 1}
<1>1. /\ stats \in Stats
      /\ \A k \in Counter : stats[s][k] \in Nat
      /\ unwritten[s] \in Nat /\ InFlush(s) \in Nat
  BY DEF ShadowTypeOK, Stats, InFlush
<1>2. stats[s]["completed"] \in Nat /\ stats[s]["failed"] \in Nat /\ stats[s]["dropped"] \in Nat
  BY <1>1 DEF Counter
<1> QED
  BY <1>1, <1>2 DEF Answered, Total, Mine

LEMMA TotalType == ShadowTypeOK => \A s \in Shadows : Total(s) \in Nat
BY CountsType

LEMMA TotalTypeNext == ShadowTypeOK' => (\A s \in Shadows : Total(s) \in Nat)'
BY TotalType, PTL

LEMMA OfTypes ==
    ASSUME NEW s
    PROVE  /\ Of(s, GoneMirrors) \in Nat
           /\ Of(s, GoneWithTrace) \in Nat
           /\ Of(s, MirrorsUnderWay) \in Nat
           /\ Of(s, GoneMirrors)' \in Nat
           /\ Of(s, GoneWithTrace)' \in Nat
           /\ Of(s, MirrorsUnderWay)' \in Nat
<1>1. /\ GoneMirrors \in SUBSET Mirror /\ GoneMirrors' \in SUBSET Mirror
      /\ GoneWithTrace \in SUBSET Mirror /\ GoneWithTrace' \in SUBSET Mirror
      /\ MirrorsUnderWay \in SUBSET Mirror /\ MirrorsUnderWay' \in SUBSET Mirror
  BY DEF GoneMirrors, GoneWithTrace, MirrorsUnderWay
<1>2. /\ Of(s, GoneMirrors)' = Of(s, GoneMirrors')
      /\ Of(s, GoneWithTrace)' = Of(s, GoneWithTrace')
      /\ Of(s, MirrorsUnderWay)' = Of(s, MirrorsUnderWay')
  BY DEF Of
<1> QED
  BY <1>1, <1>2, OfType

\* A step that moves no mirror adds to no count but one that replaces another.
LEMMA AccountedAtRest ==
    ASSUME ShadowTypeOK, ShadowTypeOK', Accounted, [QueueNext]_vars, UNCHANGED place,
           \A s \in Shadows : /\ Answered(s)' = Answered(s)
                              /\ stats'[s]["submitted"] = stats[s]["submitted"]
                              /\ Total(s)' <= Total(s)
    PROVE  Accounted'
<1> SUFFICES ASSUME NEW s \in Shadows
             PROVE  /\ Total(s)' <= Of(s, GoneMirrors)'
                    /\ Answered(s)' <= Of(s, GoneWithTrace)'
                    /\ Answered(s)' + Of(s, MirrorsUnderWay)' <= stats'[s]["submitted"]
  BY DEF Accounted, Total
<1>1. Of(s, GoneMirrors)' = Of(s, GoneMirrors) /\ Of(s, MirrorsUnderWay)' = Of(s, MirrorsUnderWay)
  BY DEF Of, GoneMirrors, MirrorsUnderWay
<1>2. Of(s, GoneWithTrace)' >= Of(s, GoneWithTrace)
  <2>1. \A n \in Mirror : EnteredQueue(n) => EnteredQueue(n)'
    BY EnteredStays, MirrorAssumption, ImportantAssumption DEF ShadowTypeOK
  <2>2. GoneWithTrace \in SUBSET GoneWithTrace' /\ GoneWithTrace' \in SUBSET Mirror
    BY <2>1 DEF GoneWithTrace
  <2>3. Of(s, GoneWithTrace') >= Of(s, GoneWithTrace)
    BY <2>2, OfMonotonic, OfType
  <2> QED
    BY <2>3 DEF Of
<1>3. /\ Total(s) <= Of(s, GoneMirrors)
      /\ Answered(s) <= Of(s, GoneWithTrace)
      /\ Answered(s) + Of(s, MirrorsUnderWay) <= stats[s]["submitted"]
  BY DEF Accounted, Total
<1>4. Total(s) \in Nat /\ Answered(s) \in Nat /\ Total(s)' \in Nat
  <2>1. Total(s) \in Nat /\ Answered(s) \in Nat
    BY CountsType
  <2>2. ShadowTypeOK' => \A t \in Shadows : Total(t)' \in Nat
    BY TotalTypeNext
  <2> QED
    BY <2>1, <2>2
<1> QED
  BY <1>1, <1>2, <1>3, <1>4, OfTypes

\* A step that moves one mirror from a place where it is not gone.
LEMMA AccountedWithMove ==
    ASSUME ShadowTypeOK, ShadowTypeOK', ManagerOrder, Accounted, [QueueNext]_vars,
           NEW m \in Mirror, place[m] \notin Gone, NEW p, ToPlace(m, p),
           NEW answers \in {0, 1}, NEW submits \in {0, 1}, NEW losses \in {0, 1},
           \A s \in Shadows :
              /\ Answered(s)' = Answered(s) + answers * Mine(m, s)
              /\ stats'[s]["submitted"] = stats[s]["submitted"] + submits * Mine(m, s)
              /\ Total(s)' = Total(s) + losses * Mine(m, s),
           losses = 1 => p \in Gone,
           answers = 1 => p \in Gone /\ place[m] = "counting",
           p \in UnderWay => submits = 1 \/ place[m] \in UnderWay
    PROVE  Accounted'
<1> SUFFICES ASSUME NEW s \in Shadows
             PROVE  /\ Total(s)' <= Of(s, GoneMirrors)'
                    /\ Answered(s)' <= Of(s, GoneWithTrace)'
                    /\ Answered(s)' + Of(s, MirrorsUnderWay)' <= stats'[s]["submitted"]
  BY DEF Accounted, Total
<1> DEFINE mine == Mine(m, s)
<1>1. mine \in {0, 1}
  BY DEF Mine
<1>2. /\ Answered(s)' = Answered(s) + answers * mine
      /\ stats'[s]["submitted"] = stats[s]["submitted"] + submits * mine
      /\ Total(s)' = Total(s) + losses * mine
  OBVIOUS
<1>3. /\ Total(s) <= Of(s, GoneMirrors)
      /\ Answered(s) <= Of(s, GoneWithTrace)
      /\ Answered(s) + Of(s, MirrorsUnderWay) <= stats[s]["submitted"]
  BY DEF Accounted, Total
<1>4. Total(s) \in Nat /\ Answered(s) \in Nat /\ stats[s]["submitted"] \in Nat
  BY CountsType DEF Counter
<1>5. Of(s, GoneMirrors)' = Of(s, GoneMirrors) + IF p \in Gone THEN mine ELSE 0
  BY GoneGrows
<1>6. Of(s, GoneWithTrace)' >=
         Of(s, GoneWithTrace) + IF p \in Gone /\ EnteredQueue(m) THEN mine ELSE 0
  BY GoneWithTraceGrows
<1>7. Of(s, MirrorsUnderWay)' + (IF place[m] \in UnderWay THEN mine ELSE 0)
         = Of(s, MirrorsUnderWay) + IF p \in UnderWay THEN mine ELSE 0
  BY UnderWayMoves
<1>8. answers = 1 => EnteredQueue(m) /\ place[m] \in UnderWay /\ p \notin UnderWay
  BY DEF ManagerOrder, UnderWay, Gone
<1> HIDE DEF mine
<1>9. Total(s)' <= Of(s, GoneMirrors)'
  BY <1>1, <1>2, <1>3, <1>4, <1>5, OfTypes
<1>10. Answered(s)' <= Of(s, GoneWithTrace)'
  BY <1>1, <1>2, <1>3, <1>4, <1>6, <1>8, OfTypes
<1>11. Answered(s)' + Of(s, MirrorsUnderWay)' <= stats'[s]["submitted"]
  BY <1>1, <1>2, <1>3, <1>4, <1>7, <1>8, OfTypes
<1> QED
  BY <1>9, <1>10, <1>11

\* One more drop in the manager's own count.
LEMMA DropAdds ==
    ASSUME ShadowTypeOK, NEW m \in Mirror, CountsDrop(m), UNCHANGED <<stats, flushing>>,
           NEW s \in Shadows
    PROVE  /\ Answered(s)' = Answered(s)
           /\ stats'[s]["submitted"] = stats[s]["submitted"]
           /\ Total(s)' = Total(s) + Mine(m, s)
<1>1. unwritten'[s] = unwritten[s] + Mine(m, s)
  BY DEF ShadowTypeOK, CountsDrop, Mine
<1>2. unwritten[s] \in Nat /\ InFlush(s) \in Nat /\ Answered(s) \in Nat
      /\ stats[s]["dropped"] \in Nat
  BY CountsType DEF Counter
<1>3. Answered(s)' = Answered(s) /\ InFlush(s)' = InFlush(s) /\ Mine(m, s) \in Nat
  BY DEF Answered, InFlush, Mine
<1> QED
  BY <1>1, <1>2, <1>3 DEF Total

\* One more of the count a mirror was waiting for.
LEMMA TallyAdds ==
    ASSUME ShadowTypeOK, NEW m \in Mirror, place[m] \in Counting, Tally(m),
           UNCHANGED <<unwritten, flushing>>, NEW s \in Shadows
    PROVE  /\ Answered(s)' = Answered(s) + (IF place[m] = "counting" THEN 1 ELSE 0) * Mine(m, s)
           /\ stats'[s]["submitted"] = stats[s]["submitted"]
                 + (IF place[m] = "announcing" THEN 1 ELSE 0) * Mine(m, s)
           /\ Total(s)' = Total(s) + (IF place[m] = "announcing" THEN 0 ELSE 1) * Mine(m, s)
<1>1. PICK k \in Counter : /\ Increments(ShadowOf[m], k, 1)
                           /\ k = "submitted" <=> place[m] = "announcing"
                           /\ k = "dropped" <=> place[m] = "shedding"
  BY TallyFacts
<1>2. \A j \in Counter : stats'[s][j] = stats[s][j] + IF j = k THEN Mine(m, s) ELSE 0
  <2>1. \A t \in Shadows, j \in Counter :
           stats'[t][j] = stats[t][j] + IF t = ShadowOf[m] /\ j = k THEN 1 ELSE 0
    BY <1>1, CountsType, IncrementsFacts, ShadowOfType
  <2> QED
    BY <2>1, CountsType DEF Mine
<1>3. /\ "completed" \in Counter /\ "failed" \in Counter /\ "dropped" \in Counter
      /\ "submitted" \in Counter
  BY DEF Counter
<1>4. /\ stats[s]["completed"] \in Nat /\ stats[s]["failed"] \in Nat
      /\ stats[s]["dropped"] \in Nat /\ stats[s]["submitted"] \in Nat
      /\ unwritten[s] \in Nat /\ InFlush(s) \in Nat /\ Mine(m, s) \in {0, 1}
  BY <1>3, CountsType
<1>5. /\ stats'[s]["completed"] = stats[s]["completed"]
                                    + IF k = "completed" THEN Mine(m, s) ELSE 0
      /\ stats'[s]["failed"] = stats[s]["failed"] + IF k = "failed" THEN Mine(m, s) ELSE 0
      /\ stats'[s]["dropped"] = stats[s]["dropped"] + IF k = "dropped" THEN Mine(m, s) ELSE 0
      /\ stats'[s]["submitted"] = stats[s]["submitted"]
                                    + IF k = "submitted" THEN Mine(m, s) ELSE 0
  BY <1>2, <1>3
<1>6. InFlush(s)' = InFlush(s) /\ unwritten'[s] = unwritten[s]
  BY DEF InFlush
<1>7. /\ Answered(s) = stats[s]["completed"] + stats[s]["failed"]
      /\ Answered(s)' = stats'[s]["completed"] + stats'[s]["failed"]
  BY DEF Answered
<1>8. /\ Total(s) = Answered(s) + stats[s]["dropped"] + unwritten[s] + InFlush(s)
      /\ Total(s)' = Answered(s)' + stats'[s]["dropped"] + unwritten'[s] + InFlush(s)'
  BY DEF Total
<1>9. CASE place[m] = "announcing"
  <2>1. k = "submitted"
    BY <1>1, <1>9
  <2> QED
    BY <1>4, <1>5, <1>6, <1>7, <1>8, <1>9, <2>1
<1>10. CASE place[m] = "shedding"
  <2>1. k = "dropped"
    BY <1>1, <1>10
  <2> QED
    BY <1>4, <1>5, <1>6, <1>7, <1>8, <1>10, <2>1
<1>11. CASE place[m] = "counting"
  <2>1. k = "completed" \/ k = "failed"
    BY <1>1, <1>11 DEF Counter
  <2> QED
    BY <1>4, <1>5, <1>6, <1>7, <1>8, <1>11, <2>1
<1> QED
  BY <1>9, <1>10, <1>11 DEF Counting

LEMMA AccountedInductive ==
    ASSUME ShadowOrder, ShadowOrder', Accounted, [ShadowNext]_allVars
    PROVE  Accounted'
<1>1. ShadowTypeOK /\ ShadowTypeOK' /\ ManagerOrder /\ [QueueNext]_vars
  BY ManagerIsAClient DEF ShadowOrder
<1>2. ASSUME NEW m \in Mirror, Submit(m)
      PROVE  Accounted'
  <2>1. CASE ToPlace(m, "waiting") /\ UNCHANGED unwritten
    <3>1. \A s \in Shadows :
             /\ Answered(s)' = Answered(s) + 0 * Mine(m, s)
             /\ stats'[s]["submitted"] = stats[s]["submitted"] + 0 * Mine(m, s)
             /\ Total(s)' = Total(s) + 0 * Mine(m, s)
      BY <1>1, <1>2, <2>1, CountsType DEF Submit, Answered, Total, InFlush, Counter
    <3> QED
      BY <1>1, <1>2, <2>1, <3>1, AccountedWithMove DEF Submit, Gone, UnderWay
  <2>2. CASE ToPlace(m, "ended") /\ CountsDrop(m)
    <3>1. \A s \in Shadows :
             /\ Answered(s)' = Answered(s) + 0 * Mine(m, s)
             /\ stats'[s]["submitted"] = stats[s]["submitted"] + 0 * Mine(m, s)
             /\ Total(s)' = Total(s) + 1 * Mine(m, s)
      BY <1>1, <1>2, <2>2, CountsType, DropAdds DEF Submit, Counter
    <3> QED
      BY <1>1, <1>2, <2>2, <3>1, AccountedWithMove DEF Submit, Gone, UnderWay
  <2> QED
    BY <1>2, <2>1, <2>2 DEF Submit
<1>3. ASSUME NEW m \in Mirror, NEW p, ToPlace(m, p), place[m] \notin Gone,
             UNCHANGED <<stats, unwritten, flushing>>,
             p \in UnderWay => place[m] \in UnderWay
      PROVE  Accounted'
  <2>1. \A s \in Shadows :
           /\ Answered(s)' = Answered(s) + 0 * Mine(m, s)
           /\ stats'[s]["submitted"] = stats[s]["submitted"] + 0 * Mine(m, s)
           /\ Total(s)' = Total(s) + 0 * Mine(m, s)
    BY <1>1, <1>3, CountsType DEF Answered, Total, InFlush, Counter
  <2> QED
    BY <1>1, <1>3, <2>1, AccountedWithMove
<1>4. ASSUME NEW m \in Mirror, TakeMirror(m)
      PROVE  Accounted'
  <2>1. m = waiting[1] /\ 1 \in 1 .. Len(waiting)
    BY <1>1, <1>4 DEF TakeMirror, ShadowTypeOK
  <2>2. place[m] = "waiting"
    BY <2>1 DEF ShadowOrder, WaitingOrder
  <2> QED
    BY <1>3, <1>4, <2>2 DEF TakeMirror, Gone, UnderWay
<1>5. ASSUME NEW m \in Mirror, place[m] \in Counting, Tally(m), NEW p, ToPlace(m, p),
             UNCHANGED <<unwritten, flushing>>,
             p \in Gone \/ (p = "sending" /\ place[m] = "announcing")
      PROVE  Accounted'
  <2> DEFINE answers == IF place[m] = "counting" THEN 1 ELSE 0
             submits == IF place[m] = "announcing" THEN 1 ELSE 0
             losses == IF place[m] = "announcing" THEN 0 ELSE 1
  <2>1. /\ answers \in {0, 1} /\ submits \in {0, 1} /\ losses \in {0, 1}
        /\ losses = 1 => p \in Gone
        /\ answers = 1 => p \in Gone /\ place[m] = "counting"
        /\ p \in UnderWay => submits = 1 \/ place[m] \in UnderWay
        /\ place[m] \notin Gone
    BY <1>5 DEF Counting, UnderWay, Gone
  <2>2. \A s \in Shadows :
           /\ Answered(s)' = Answered(s) + answers * Mine(m, s)
           /\ stats'[s]["submitted"] = stats[s]["submitted"] + submits * Mine(m, s)
           /\ Total(s)' = Total(s) + losses * Mine(m, s)
    BY <1>1, <1>5, TallyAdds
  <2> HIDE DEF answers, submits, losses
  <2> QED
    BY <1>1, <1>5, <2>1, <2>2, AccountedWithMove
<1>6. ASSUME NEW m \in Mirror, CountWritten(m)
      PROVE  Accounted'
  BY <1>5, <1>6 DEF CountWritten, Gone
<1>7. ASSUME NEW m \in Mirror, CountFails(m)
      PROVE  Accounted'
  <2>1. \A s \in Shadows :
           /\ Answered(s)' = Answered(s) + 0 * Mine(m, s)
           /\ stats'[s]["submitted"] = stats[s]["submitted"] + 0 * Mine(m, s)
           /\ Total(s)' = Total(s) + 1 * Mine(m, s)
    BY <1>1, <1>7, CountsType, DropAdds DEF CountFails, Counter
  <2> QED
    BY <1>1, <1>7, <2>1, AccountedWithMove DEF CountFails, Gone, UnderWay, Counting
<1>8. ASSUME NEW m \in Mirror, Mirrored(m)
      PROVE  Accounted'
  BY <1>3, <1>8 DEF Mirrored, Gone, UnderWay
<1>9. ASSUME UNCHANGED <<place, stats, unwritten, flushing>>
      PROVE  Accounted'
  <2>1. \A s \in Shadows : /\ Answered(s)' = Answered(s)
                           /\ stats'[s]["submitted"] = stats[s]["submitted"]
                           /\ Total(s)' <= Total(s)
    BY <1>1, <1>9, CountsType DEF Answered, Total, InFlush
  <2> QED
    BY <1>1, <1>9, <2>1, AccountedAtRest
<1>10. ASSUME NEW c \in Call, Offered(c)
       PROVE  Accounted'
  <2>1. CASE c \in Mirror
    <3>1. place[c] = "offering"
      BY <1>1, <1>10, <2>1 DEF Offered, Wake, Unblock, GiveUp, ManagerOrder
    <3> QED
      BY <1>3, <1>10, <2>1, <3>1 DEF Offered, Gone, UnderWay
  <2>2. CASE c \notin Mirror
    BY <1>9, <1>10, <2>2 DEF Offered
  <2> QED
    BY <2>1, <2>2
<1>11. ASSUME NEW m \in Mirror, CancelMirror(m)
       PROVE  Accounted'
  <2>1. CASE place[m] \in Counting /\ Tally(m)
    BY <1>5, <1>11, <2>1 DEF CancelMirror, Gone
  <2>2. CASE UNCHANGED stats
    BY <1>3, <1>11, <2>2 DEF CancelMirror, Gone, Busy, Counting, UnderWay
  <2> QED
    BY <1>11, <2>1, <2>2 DEF CancelMirror
<1>12. ASSUME UNCHANGED <<place, stats>>,
              \A s \in Shadows :
                 unwritten'[s] + InFlush(s)' <= unwritten[s] + InFlush(s)
       PROVE  Accounted'
  <2>1. \A s \in Shadows : /\ Answered(s)' = Answered(s)
                           /\ stats'[s]["submitted"] = stats[s]["submitted"]
    BY <1>12 DEF Answered
  <2>2. \A s \in Shadows : Total(s)' <= Total(s)
    <3> SUFFICES ASSUME NEW s \in Shadows
                 PROVE  Total(s)' <= Total(s)
      OBVIOUS
    <3>1. Answered(s) \in Nat /\ stats[s]["dropped"] \in Nat /\ unwritten[s] \in Nat
          /\ InFlush(s) \in Nat /\ InFlush(s)' \in Nat /\ unwritten'[s] \in Nat
      BY <1>1, CountsType DEF Counter, ShadowTypeOK, InFlush
    <3>2. unwritten'[s] + InFlush(s)' <= unwritten[s] + InFlush(s)
      BY <1>12
    <3> QED
      BY <1>12, <2>1, <3>1, <3>2 DEF Total
  <2> QED
    BY <1>1, <1>12, <2>1, <2>2, AccountedAtRest
<1>13. CASE FlushBegins
  <2>1. flushing = None /\ flushing' = unwritten /\ unwritten' = NoCounts
    BY <1>13 DEF FlushBegins
  <2>2. \A s \in Shadows : unwritten'[s] + InFlush(s)' <= unwritten[s] + InFlush(s)
    BY <1>1, <2>1 DEF InFlush, NoCounts, ShadowTypeOK
  <2> QED
    BY <1>12, <1>13, <2>2 DEF FlushBegins, mirrorVars
<1>14. CASE FlushEnds
  <2>1. \A s \in Shadows : unwritten'[s] + InFlush(s)' <= unwritten[s] + InFlush(s)
    BY <1>1, <1>14 DEF InFlush, NoCounts, ShadowTypeOK, FlushEnds
  <2> QED
    BY <1>12, <1>14, <2>1 DEF FlushEnds, mirrorVars
<1>15. ASSUME NEW t \in Shadows, FlushFails(t)
       PROVE  Accounted'
  <2>1. flushing \in [Shadows -> Nat] /\ unwritten \in [Shadows -> Nat]
    BY <1>1, <1>15 DEF FlushFails, ShadowTypeOK
  <2>2. \A s \in Shadows : unwritten'[s] + InFlush(s)' <= unwritten[s] + InFlush(s)
    BY <1>15, <2>1 DEF InFlush, PutsBack, FlushFails
  <2> QED
    BY <1>12, <1>15, <2>2 DEF FlushFails, mirrorVars
<1>16. ASSUME NEW t \in Shadows, flushing # None, Increments(t, "dropped", flushing[t]),
              UNCHANGED <<place, unwritten>>,
              \A s \in Shadows : InFlush(s)' <= IF s = t THEN 0 ELSE InFlush(s)
       PROVE  Accounted'
  <2>1. /\ stats \in Stats
        /\ flushing \in [Shadows -> Nat]
    BY <1>1, <1>16, CountsType DEF ShadowTypeOK
  <2>2. \A s \in Shadows, k \in Counter :
           stats'[s][k] = stats[s][k] + IF s = t /\ k = "dropped" THEN flushing[t] ELSE 0
    BY <1>16, <2>1, IncrementsFacts DEF Counter
  <2>3. ASSUME NEW s \in Shadows
        PROVE  /\ Answered(s)' = Answered(s)
               /\ stats'[s]["submitted"] = stats[s]["submitted"]
               /\ Total(s)' <= Total(s)
    <3>1. /\ Answered(s) \in Nat /\ unwritten[s] \in Nat /\ InFlush(s) \in Nat
          /\ stats[s]["completed"] \in Nat /\ stats[s]["failed"] \in Nat
          /\ stats[s]["dropped"] \in Nat /\ stats[s]["submitted"] \in Nat
          /\ InFlush(s)' \in Nat
      BY <1>1, CountsType DEF Counter, InFlush, ShadowTypeOK
    <3>2. /\ stats'[s]["completed"] = stats[s]["completed"]
          /\ stats'[s]["failed"] = stats[s]["failed"]
          /\ stats'[s]["submitted"] = stats[s]["submitted"]
          /\ stats'[s]["dropped"] = stats[s]["dropped"] + IF s = t THEN InFlush(s) ELSE 0
      BY <1>16, <2>2, <3>1 DEF Counter, InFlush
    <3>3. InFlush(s)' <= IF s = t THEN 0 ELSE InFlush(s)
      BY <1>16
    <3>4. Answered(s)' = Answered(s)
      BY <3>2 DEF Answered
    <3>5. Total(s)' <= Total(s)
      BY <1>16, <3>1, <3>2, <3>3, <3>4 DEF Total
    <3> QED
      BY <3>2, <3>4, <3>5
  <2> QED
    BY <1>1, <1>16, <2>3, AccountedAtRest
<1>17. ASSUME NEW t \in Shadows, FlushOne(t)
       PROVE  Accounted'
  <2>1. flushing \in [Shadows -> Nat]
    BY <1>1, <1>17 DEF FlushOne, ShadowTypeOK
  <2>2. \A s \in Shadows : InFlush(s)' <= IF s = t THEN 0 ELSE InFlush(s)
    BY <1>17, <2>1 DEF FlushOne, InFlush
  <2> QED
    BY <1>16, <1>17, <2>2 DEF FlushOne, mirrorVars
<1>18. CASE BeginStop
  <2>1. \A s \in Shadows : InFlush(s)' = 0 /\ InFlush(s) \in Nat
    BY <1>1, <1>18, CountsType DEF BeginStop, InFlush
  <2>2. CASE UNCHANGED stats
    <3>1. \A s \in Shadows : unwritten'[s] + InFlush(s)' <= unwritten[s] + InFlush(s)
      BY <1>1, <1>18, <2>1, CountsType DEF BeginStop, ShadowTypeOK
    <3> QED
      BY <1>12, <1>18, <2>2, <3>1 DEF BeginStop, mirrorVars
  <2>3. ASSUME flushing # None, NEW t \in Shadows, Increments(t, "dropped", flushing[t])
        PROVE  Accounted'
    <3>1. \A s \in Shadows : InFlush(s)' <= IF s = t THEN 0 ELSE InFlush(s)
      BY <2>1
    <3> QED
      BY <1>16, <1>18, <2>3, <3>1 DEF BeginStop, mirrorVars
  <2> QED
    BY <1>18, <2>2, <2>3 DEF BeginStop
<1>19. CASE StopWorkers \/ WorkersStopped \/ Exit
  BY <1>9, <1>19 DEF StopWorkers, WorkersStopped, Exit, mirrorVars
<1>20. CASE UNCHANGED shadowVars
  BY <1>9, <1>20 DEF shadowVars, mirrorVars
<1> QED
  BY <1>2, <1>4, <1>6, <1>7, <1>8, <1>10, <1>11, <1>13, <1>14, <1>15, <1>17, <1>18, <1>19, <1>20
  DEF ShadowNext, RunMirror, Flush, Stop, allVars

LEMMA AccountedInitially == ShadowInit => Accounted
<1> SUFFICES ASSUME ShadowInit, NEW s \in Shadows
             PROVE  /\ Total(s) <= Of(s, GoneMirrors)
                    /\ Answered(s) <= Of(s, GoneWithTrace)
                    /\ Answered(s) + Of(s, MirrorsUnderWay) <= stats[s]["submitted"]
  BY DEF Accounted, Total
<1>1. /\ Answered(s) = 0 /\ Total(s) = 0 /\ stats[s]["submitted"] = 0
  BY DEF ShadowInit, Answered, Total, InFlush, NoCounts, Counter
<1>2. MirrorsUnderWay = {}
  BY DEF ShadowInit, MirrorsUnderWay, UnderWay
<1>3. Of(s, MirrorsUnderWay) = 0
  <2>1. {m \in MirrorsUnderWay : ShadowOf[m] = s} = {}
    BY <1>2
  <2> QED
    BY <2>1, FS_EmptySet DEF Of
<1> QED
  BY <1>1, <1>3, OfTypes

\* An experiment never shows more attrition than its mirrors had: each is a
\* completion, a failure or a drop at most once, an answered one had its trace
\* taken by the recorder, and no more are answered than were submitted -
\* through failed writes, counts put back, and cancelled workers whose thread
\* still commits.
THEOREM AttritionSound == ShadowSpec => []AttritionNotInflated
<1>1. ShadowOrder /\ Accounted => AttritionNotInflated
  <2> SUFFICES ASSUME ShadowOrder, Accounted, NEW s \in Shadows
               PROVE  /\ Total(s) <= Of(s, GoneMirrors)
                      /\ Answered(s) <= Of(s, {m \in Mirror : EnteredQueue(m)})
                      /\ Answered(s) <= stats[s]["submitted"]
    BY DEF AttritionNotInflated, Total, Answered, GoneMirrors, EnteredQueue
  <2>1. /\ Total(s) <= Of(s, GoneMirrors)
        /\ Answered(s) <= Of(s, GoneWithTrace)
        /\ Answered(s) + Of(s, MirrorsUnderWay) <= stats[s]["submitted"]
    BY DEF Accounted, Total
  <2>2. Answered(s) \in Nat /\ stats[s]["submitted"] \in Nat
    BY CountsType DEF Counter, ShadowOrder
  <2>3. Of(s, GoneWithTrace) <= Of(s, {m \in Mirror : EnteredQueue(m)})
        /\ Of(s, {m \in Mirror : EnteredQueue(m)}) \in Nat
    BY OfMonotonic, OfType DEF GoneWithTrace
  <2> QED
    BY <2>1, <2>2, <2>3, OfTypes
<1>2. ShadowOrder /\ ShadowOrder' /\ Accounted /\ [ShadowNext]_allVars => Accounted'
  BY AccountedInductive
<1> QED
  BY <1>1, <1>2, AccountedInitially, ShadowOrderInvariant, PTL DEF ShadowSpec

=============================================================================
