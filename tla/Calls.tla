------------------------------- MODULE Calls -------------------------------
(***************************************************************************)
(* The calls of one run of the model.  A call is one HTTP request through  *)
(* the proxy together with the trace it leaves; its identity stands for    *)
(* the request object, the reservation id and the trace object, which the  *)
(* code creates one each per request and never shares.                     *)
(***************************************************************************)
EXTENDS Integers, FiniteSets

CONSTANT Call

ASSUME FiniteCalls == IsFiniteSet(Call)

=============================================================================
