------------------------------ MODULE MCDaemon ------------------------------
(* Constants of the Daemon runs. *)
EXTENDS Daemon

A == <<"aa">>
AB == <<"aa", "bb">>

MCNames == {"aa", "bb"}
MCPaths == {A, AB}
\* A name of one character below the root.
OneLetter == {<<"aa">>, <<"aa", "d">>}
OneLetterNames == {"aa", "d"}

MCReread(v) == v
MCLower == [c \in ChannelNames |-> c]

\* /aa has a default value without a D-Bus form.
MCSysTree ==
    [c \in ChannelNames |->
        [p \in Paths |-> IF p = A THEN [value |-> NoValue, sys |-> "float", locked |-> FALSE]
                         ELSE NoNode]]
MCUnlocked == [c \in ChannelNames |-> FALSE]
\* No file, or one with values that cannot be saved again.
MCInitFiles == {NoFile, [p \in Paths |-> "word"]}
=============================================================================
