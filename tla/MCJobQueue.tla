----------------------------- MODULE MCJobQueue -----------------------------
(***************************************************************************)
(* Two workers over a replay and a discovery job that share a trace.       *)
(***************************************************************************)
EXTENDS JobQueue, TLC

CONSTANTS replay, discovery, w1, w2, k1

OldTaskOf == 1 :> k1
SharedSample == (replay :> {1}) @@ (discovery :> {1})
ReplaySample == replay :> {1}

=============================================================================
