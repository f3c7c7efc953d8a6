----------------------------- MODULE SpendSums -----------------------------
(***************************************************************************)
(* Sums of money over a set of calls.  The gateway's arithmetic is in USD; *)
(* the models count whole units.  A sum is the number of units spent, each *)
(* unit being tagged with the call it belongs to, so that the laws of      *)
(* finite cardinality are the laws of sums.                                *)
(***************************************************************************)
EXTENDS Integers, FiniteSets

\* The units charged to the calls of S: amount[c] of them for each c.
Units(S, amount) == UNION {{c} \X (1 .. amount[c]) : c \in S}

\* sum(amount[c] for c in S)
SumOver(S, amount) == Cardinality(Units(S, amount))

=============================================================================
