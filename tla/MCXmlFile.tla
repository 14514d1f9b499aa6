----------------------------- MODULE MCXmlFile -----------------------------
(* Constants of the XmlFile runs. *)
EXTENDS XmlSave

CONSTANTS MaxArray,         \* bound on the values of an array
          Whole, Double, Int16 \* a number, one that loses digits, a 16-bit one

A == <<"aa">>
AB == <<"aa", "bb">>
MCNames == {"aa", "bb"}
MCPaths == {A, AB, <<"bb">>}

MCRewritten == [v \in Scalars |-> IF v = Double THEN Whole ELSE v]
MCValues == Scalars \cup UNION {[1..n -> Scalars] : n \in 0..MaxArray}

\* The user is in the list by way of a group, or not at all.
MCMembers == [g \in {"@staff"} |-> {"me"}]
MCLists == {{"@staff", "other"}, {"other"}}
=============================================================================
