---------------------------- MODULE MCXmlBackend ----------------------------
(* Constants of the XmlBackend runs. *)
EXTENDS XmlBackendStore, GetAll

A == <<"aa">>
AB == <<"aa", "bb">>
C == <<"cc">>
CD == <<"cc", "dd">>
L == <<"lk">>

MCNames == {"aa", "bb", "cc", "dd", "lk"}
MCPaths == {A, AB, C, CD, L}
OnePath == {C}

\* Written with %f, the double that is not quite 1 comes back as 1.
MCReread(v) == IF v = "1.00000001" THEN "1.0" ELSE v

MCLower == [c \in ChannelNames |-> c]

\* /aa/bb has a default, /lk is locked to its value; the rest is the user's.
SomeDefaults ==
    [p \in Paths |->
        CASE p = A -> NewNode(NoValue)
          [] p = AB -> [value |-> NoValue, sys |-> "1.0", locked |-> FALSE]
          [] p = L -> [value |-> NoValue, sys |-> "1.0", locked |-> TRUE]
          [] OTHER -> NoNode]

MCSysTree == [c \in ChannelNames |-> SomeDefaults]
MCUnlocked == [c \in ChannelNames |-> FALSE]

\* No file, one that a user edited to override the lock, one with a value of 16
\* bits and, below it, an array of such values, and one with such an array alone.
MCInitFiles ==
    {NoFile, [p \in Paths |-> IF p \in {C, L} THEN "1.00000001" ELSE NoNode],
     [p \in Paths |-> IF p = C THEN "word" ELSE IF p = CD THEN "words" ELSE NoNode],
     [p \in Paths |-> IF p = C THEN "words" ELSE NoNode]}
=============================================================================
