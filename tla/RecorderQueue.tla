--------------------------- MODULE RecorderQueue ---------------------------
(***************************************************************************)
(* The recorder as its callers use it, with what was offered, reported and *)
(* committed on record: callers offer traces at any moment while it runs,  *)
(* and the lifespan closes it.  Shadow says who they are.                  *)
(***************************************************************************)
EXTENDS Recorder

CONSTANT Important  \* the traces offered with enqueue_important

ASSUME ImportantAssumption == Important \subseteq Call

\* History: how often the observers were told of each trace, and the order
\* in which traces entered the queue and were committed.
VARIABLES told, entered, committed

vars == <<recorderVars, told, entered, committed>>

Told(c) == told' = [told EXCEPT ![c] = @ + 1]

Init ==
    /\ RecorderInit
    /\ told = [c \in Call |-> 0]
    /\ entered = <<>>
    /\ committed = <<>>

Offer(c) ==
    /\ mode = "running"
    /\ \/ /\ Accept(c)
          /\ entered' = Append(entered, c)
          /\ UNCHANGED <<told, committed>>
       \/ /\ c \notin Important
          /\ Drop(c)
          /\ Told(c)
          /\ UNCHANGED <<entered, committed>>
       \/ /\ c \in Important
          /\ Block(c)
          /\ UNCHANGED <<told, entered, committed>>

Wake(c) ==
    \/ /\ Unblock(c)
       /\ entered' = Append(entered, c)
       /\ UNCHANGED <<told, committed>>
    \/ /\ GiveUp(c)
       /\ Told(c)
       /\ UNCHANGED <<entered, committed>>

Work(c) ==
    \/ Take(c) /\ UNCHANGED <<told, entered, committed>>
    \/ /\ Commit(c)
       /\ committed' = Append(committed, c)
       /\ UNCHANGED <<told, entered>>
    \/ (Report(c) \/ FailSave(c)) /\ Told(c) /\ UNCHANGED <<entered, committed>>

Close ==
    \/ (BeginClose \/ CancelIdle \/ Closed)
       /\ UNCHANGED <<told, entered, committed>>
    \/ \E c \in Call :
          \/ /\ CancelSaving(c)
             /\ Told(c)
             /\ committed' = IF c \in rows' \ rows THEN Append(committed, c)
                             ELSE committed
             /\ UNCHANGED entered
          \/ DiscardRest(c) /\ Told(c) /\ UNCHANGED <<entered, committed>>

-----------------------------------------------------------------------------
TypeOK ==
    /\ RecorderTypeOK
    /\ told \in [Call -> Nat]
    /\ entered \in Seq(Call)
    /\ committed \in Seq(Call)

\* The observers hear of a trace once and only when it has settled: never
\* for a trace that may still be saved, never twice for one that was being
\* saved when the worker was cancelled (_run's except clauses, aclose's loop).
ToldOnceWhenSettled ==
    \A c \in Call : told[c] = IF stage[c] \in Settled THEN 1 ELSE 0

\* Traces reach the store in the order they entered the queue; one that
\* failed to save or was discarded leaves a gap, never an inversion.
CommittedInOrder ==
    \A i, j \in 1 .. Len(committed) : i < j =>
        \E p, q \in 1 .. Len(entered) :
            p < q /\ entered[p] = committed[i] /\ entered[q] = committed[j]

\* A shutdown leaves nothing behind in the queue: when aclose returns every
\* trace ever offered has settled.
CloseSettlesAll ==
    mode = "closed" => \A c \in Call : stage[c] \in Settled \cup {"none"}

=============================================================================
