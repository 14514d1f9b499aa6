---------------------------- MODULE MCQueryTool ----------------------------
(***************************************************************************)
(* Model values for QueryTool: two backends, of which the second has       *)
(* defaults and a lock of its own, and commands of every branch of main.   *)
(***************************************************************************)
EXTENDS QueryTool, TLC

A == <<"/", "a">>
AB == <<"/", "a", "/", "b">>
L == <<"/", "l">>       \* locked by the second backend
Open == <<"/", "a", "/">>

MCNames == {A, AB, L, Open}
MCPropertyChars == {"/", "a", "b", "l"}
MCChannelChars == {"c"}
MCChannel == <<"c">>
MCReadable == {<<"gboolean", "true">>, <<"gboolean", "false">>, <<"gint", "1">>}

True == Scalar("gboolean", "true")
False == Scalar("gboolean", "false")
One == Scalar("gint", "1")
List == [array |-> TRUE, items |-> <<<<"gint", "1">>, <<"gboolean", "true">>>>]
MCValues == {True, False, One, List}
MCIncomparable == {List}
MCStoredBefore == {True, One}

MCDefault == <<[n \in MCNames |-> None],
               [n \in MCNames |-> IF n \in {AB, L} THEN True ELSE None]>>
MCLocked == <<{}, {L}>>

ToolSymmetry == Permutations(Tools)

Plain == [property |-> A, set_value |-> <<>>, type |-> <<>>, create |-> FALSE,
          reset |-> FALSE, recursive |-> FALSE, toggle |-> FALSE, list |-> FALSE,
          force_array |-> FALSE]

MCCommands ==
    {[Plain EXCEPT !.toggle = TRUE],
     [Plain EXCEPT !.property = L, !.toggle = TRUE],
     [Plain EXCEPT !.set_value = <<"1">>],
     [Plain EXCEPT !.set_value = <<"1">>, !.type = <<"gint">>],
     [Plain EXCEPT !.set_value = <<"false">>, !.type = <<"gboolean">>, !.create = TRUE],
     [Plain EXCEPT !.set_value = <<"1", "true">>, !.type = <<"gint", "gboolean">>, !.create = TRUE],
     [Plain EXCEPT !.set_value = <<"1", "true">>],
     [Plain EXCEPT !.property = Open, !.set_value = <<"1">>, !.type = <<"gint">>, !.create = TRUE],
     [Plain EXCEPT !.property = AB, !.reset = TRUE],
     [Plain EXCEPT !.reset = TRUE, !.recursive = TRUE],
     [Plain EXCEPT !.reset = TRUE, !.create = TRUE],
     [Plain EXCEPT !.list = TRUE]}
=============================================================================
