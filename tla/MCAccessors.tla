---------------------------- MODULE MCAccessors ----------------------------
(* Constants of the Accessors runs. *)
EXTENDS Accessors

MCHalf == <<2, 4, 8, 16>>

\* The smallest, the largest and the middle of every type.
Samples(type) == {Scalar(type, n) : n \in {MinOf(type), MaxOf(type)} \cup ({0, 1} \cap RangeOf(type))}

MCScalars == UNION {Samples(type) : type \in Types}

\* Every type alone, and after a short those that travel in three ways.
MCLists ==
    {<<v>> : v \in MCScalars} \cup
    {<<Scalar("uint16", MaxOf("uint16")), v>> :
        v \in {Scalar("float", 1), Scalar("string", 3), Scalar("int16", MinOf("int16"))}}

MCTexts == {-40, -1, 0, 1, 8, 40}
=============================================================================
