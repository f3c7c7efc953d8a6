----------------------------- MODULE MCGateway -----------------------------
(***************************************************************************)
(* Small instances of Gateway.  Amounts are in units; estimates, bills and *)
(* ceilings are chosen so that two calls fit under a ceiling and the third *)
(* does not, and so that a bill may fall short of its estimate, meet it or *)
(* exceed it.                                                              *)
(***************************************************************************)
EXTENDS Gateway, TLC

CONSTANTS c1, c2, c3, m1, ed, ch, s1, s2

At(n) == [price |-> [listed |-> TRUE, estimate |-> n], free |-> FALSE]
Unpriced == [price |-> [listed |-> FALSE, estimate |-> Unknown], free |-> FALSE]
Local == [price |-> [listed |-> FALSE, estimate |-> Unknown], free |-> TRUE]

Asks(u, s, target, fallback) ==
    [useCase |-> u, session |-> s, hasModel |-> TRUE, target |-> target,
     fallback |-> fallback]

MCUseCase == {ed, ch}
MCSession == {s1, s2}

NoUseCaseLimit == [u \in MCUseCase |-> NoLimit]

\* Every two of the calls are too much for exactly one ceiling, which the
\* third is not under or does not fill: the editor's (c1, c2), the first
\* session's (c1, c3) and the global one (c2, c3).  c2 has an approved cheaper
\* candidate for past the threshold.
CeilingCall == {c1, c2, c3}
CeilingRequest ==
    (c1 :> Asks(ed, s1, At(2), None)) @@ (c2 :> Asks(ed, s2, At(3), At(1)))
        @@ (c3 :> Asks(ch, s1, At(3), None))
EditorLimit == (ed :> 3) @@ (ch :> NoLimit)
EditorThreshold == (ed :> 1) @@ (ch :> NoLimit)

\* Three paid calls of one session under a global ceiling.
GlobalCall == {c1, c2, m1}
GlobalRequest ==
    (c1 :> Asks(ed, s1, At(2), None)) @@ (c2 :> Asks(ch, s1, At(2), None))
        @@ (m1 :> Asks(ch, s1, At(1), None))

\* The other ways past the gate: a call of a free provider, which no ceiling
\* is asked about, and a mirror, beside one that needs a reservation.
LiveCall == {c1, c2, m1}
LiveRequest ==
    (c1 :> Asks(ed, s1, At(2), None)) @@ (c2 :> Asks(ed, s1, Local, None))
        @@ (m1 :> Asks(ch, None, Unpriced, None))

=============================================================================
