---------------------------- MODULE MCClientCache ----------------------------
(* Constants of the ClientCache run. *)
EXTENDS ClientCache

CONSTANTS P, Q  \* two properties, Q below P

NestedSubtree == [b \in Props \cup {Root} |-> IF b = Q THEN {Q} ELSE Props]

\* Q has a default.
DefaultOfQ == [x \in Props |-> IF x = Q THEN "x" ELSE None]
=============================================================================
