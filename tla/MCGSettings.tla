----------------------------- MODULE MCGSettings -----------------------------
(* Constants of the GSettingsBackend runs. *)
EXTENDS GSettingsBackend

CONSTANTS P, Q, R  \* /app/p, /app/q and /app@/r

EachItself == [b \in Props \cup {Root} |-> IF b = Root THEN Props ELSE {b}]
QHasDefault == [k \in Props |-> IF k = Q THEN "x" ELSE None]
App == "/app/"
MCPrefixed == [s \in Subscriptions |-> IF s = App THEN {P, Q} ELSE {P}]
MCKeyOrder == <<P, R, Q>>
Writes(k, v) == [key |-> k, val |-> v]
MCTrees == {{Writes(P, "x"), Writes(Q, "y")},
            {Writes(P, "y"), Writes(R, "x"), Writes(Q, "x")}}
=============================================================================
