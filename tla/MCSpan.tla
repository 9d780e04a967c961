------------------------------- MODULE MCSpan -------------------------------
(* Instances of Span for TLC. *)
EXTENDS Span

CONSTANTS a, b, c, leaf

MCTriangle == {{a, b}, {b, c}, {a, c}}
MCTail     == MCTriangle \cup {{b, leaf}}

MCLateCB   == [down |-> {}, late |-> {<<c, b>>}]
MCLineBA   == [down |-> {{a, c}}, late |-> {<<b, a>>}]
MCStarts   == {MCLateCB, MCLineBA}
MCUp       == {[down |-> {}, late |-> {}]}

\* a relays to c, and c to b, whenever they scan.
MCAgainACB == {<<a, c>>, <<c, b>>}

MCAB       == {{a, b}}
MCABBC     == {{a, b}, {b, c}}
=============================================================================
