---------------------------- MODULE MCDocClaims ----------------------------
(* Constants of the DocClaims run. *)
EXTENDS DocClaims

K == <<"k">>
KU == <<"k", "u">>

MCNames == {"k", "u"}
MCPaths == {K, KU}
MCReread(v) == v
MCLower == [c \in ChannelNames |-> "app"]

\* /k is locked and has no value.
LockOnly == [p \in Paths |-> IF p = K THEN [value |-> NoValue, sys |-> NoValue, locked |-> TRUE]
                             ELSE NoNode]
LockOnlyTree == [c \in ChannelNames |-> LockOnly]
NoneLocked == [c \in ChannelNames |-> FALSE]

NoFiles == {NoFile}
=============================================================================
