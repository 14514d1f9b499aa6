---------------------------- MODULE MCBinding ----------------------------
(* Constants of the Binding runs. *)
EXTENDS Binding

CONSTANTS P, Q, R,  \* /base/n, /base/m and /base/r
          N, M, L   \* /n, /m and /r, as the application names them

Below == [n \in Names |-> IF n = N THEN P ELSE IF n = M THEN Q ELSE R]
Announcing == [p \in Props |-> IF p = P THEN N ELSE IF p = Q THEN M ELSE L]
EachItself == [b \in Props \cup {Root} |-> IF b = Root THEN Props ELSE {b}]
QHasDefault == [p \in Props |-> IF p = Q THEN "x" ELSE None]
MCBoundTo == [o \in Objects |-> IF o = "first" THEN N ELSE IF o \in {"second", "twin"} THEN M ELSE L]
UserSymmetry == Permutations(Users)
MCObjectDefault == [o \in Objects |-> IF o = "third" THEN None ELSE "y"]
=============================================================================
