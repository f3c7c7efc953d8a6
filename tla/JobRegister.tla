---------------------------- MODULE JobRegister ----------------------------
(***************************************************************************)
(* What the job queue promises whoever submits a job, workers, leases and  *)
(* retention aside: a job is tried any number of times, never again once   *)
(* somebody has asked for it to stop, and ends at most once, as cancelled  *)
(* only if somebody had.                                                   *)
(***************************************************************************)
EXTENDS Naturals

CONSTANTS Job, Outcomes

VARIABLES
    phase,  \* "none", "pending", "trying" or the outcome
    tries,
    asked   \* the jobs somebody has asked to stop

vars == <<phase, tries, asked>>

Init ==
    /\ phase = [j \in Job |-> "none"]
    /\ tries = [j \in Job |-> 0]
    /\ asked = [j \in Job |-> FALSE]

Submit(j) ==
    /\ phase[j] = "none"
    /\ phase' = [phase EXCEPT ![j] = "pending"]
    /\ UNCHANGED <<tries, asked>>

Try(j) ==
    /\ phase[j] \in {"pending", "trying"}
    /\ ~asked[j]
    /\ phase' = [phase EXCEPT ![j] = "trying"]
    /\ tries' = [tries EXCEPT ![j] = @ + 1]
    /\ UNCHANGED asked

Ask(j) ==
    /\ \/ phase[j] = "pending" /\ phase' = [phase EXCEPT ![j] = "cancelled"]
       \/ phase[j] = "trying" /\ UNCHANGED phase
    /\ asked' = [asked EXCEPT ![j] = TRUE]
    /\ UNCHANGED tries

End(j) ==
    /\ phase[j] = "trying"
    /\ \E o \in Outcomes :
          /\ o = "cancelled" => asked[j]
          /\ phase' = [phase EXCEPT ![j] = o]
    /\ UNCHANGED <<tries, asked>>

Next == \E j \in Job : Submit(j) \/ Try(j) \/ Ask(j) \/ End(j)

Spec == Init /\ [][Next]_vars

=============================================================================
