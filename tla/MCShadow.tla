------------------------------ MODULE MCShadow ------------------------------
(***************************************************************************)
(* A client's call and two mirrors of two shadow experiments, by two       *)
(* workers, against a recorder with a queue of two.                        *)
(***************************************************************************)
EXTENDS Shadow, TLC

CONSTANTS c1, m1, m2, a, b

MCMirror == {m1, m2}
MCCall == {c1, m1, m2}
MCShadowOf == (m1 :> a) @@ (m2 :> b)

=============================================================================
