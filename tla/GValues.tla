------------------------------ MODULE GValues ------------------------------
(***************************************************************************)
(* The conversions a value goes through: to and from the text of a file,   *)
(* to and from the D-Bus, from one type to another, and the comparison     *)
(* that decides whether a set changes anything (common/                    *)
(* esconf-gvaluefuncs.c, common/esconf-types.c, esconf_format_xml_tag).    *)
(*                                                                         *)
(* The sizes of the types are parameters, so that every boundary of every  *)
(* type is inside a small range of integers.  A double or a float counts   *)
(* halves: a whole number of units stands for what %f keeps, a half for    *)
(* digits it drops.  A string is the number it spells; true and false are  *)
(* 1 and 0.                                                                *)
(***************************************************************************)
EXTENDS Integers, FiniteSets, Sequences, SequencesExt

CONSTANTS Half,      \* half of the values of a char, a short, an int, an int64
          MaxDouble  \* the largest double and float, in halves

ASSUME WidthsAssumption ==
    /\ Half \in [1..4 -> Nat \ {0}]
    /\ Half[1] < Half[2] /\ Half[2] < Half[3] /\ Half[3] < Half[4]
    /\ MaxDouble \in Nat /\ MaxDouble % 2 = 0

Signed == <<"char", "int16", "int", "int64">>
Unsigned == <<"uchar", "uint16", "uint", "uint64">>
Fractions == {"float", "double"}
Short == {"int16", "uint16"}
Whole == ToSet(Signed) \cup ToSet(Unsigned)
Types == Whole \cup Fractions \cup {"bool", "string"}

HalfOf(type) == Half[CHOOSE i \in 1..4 : Signed[i] = type \/ Unsigned[i] = type]

RangeOf(type) ==
    CASE type \in ToSet(Signed) -> -HalfOf(type) .. HalfOf(type) - 1
      [] type \in ToSet(Unsigned) -> 0 .. 2 * HalfOf(type) - 1
      [] type = "bool" -> 0 .. 1
      [] OTHER -> -MaxDouble .. MaxDouble

MinOf(type) == CHOOSE n \in RangeOf(type) : \A k \in RangeOf(type) : n <= k
MaxOf(type) == CHOOSE n \in RangeOf(type) : \A k \in RangeOf(type) : k <= n

\* What C makes of n in a variable of an integer type.
Wrap(type, n) ==
    LET low == n % (2 * HalfOf(type))
    IN  IF low \in RangeOf(type) THEN low ELSE low - 2 * HalfOf(type)

\* A GValue: a scalar, or a GPtrArray of GValues.
Scalar(type, n) == [type |-> type, n |-> n, items |-> <<>>]
Array(items) == [type |-> "array", n |-> 0, items |-> items]
ScalarValues == UNION {{Scalar(type, n) : n \in RangeOf(type)} : type \in Types}
IsScalar(v) == v \in ScalarValues
IsArray(v) == v = Array(v.items) /\ v.items \in Seq(ScalarValues)

\* A GValue that is not initialised, and NULL for a GVariant.
NoValue == [type |-> "none", n |-> 0, items |-> <<>>]
NoVariant == [type |-> "null", n |-> 0, items |-> <<>>]

-----------------------------------------------------------------------------
(* Text: esconf_format_xml_tag and esconf_gvalue_from_string *)

\* A scalar in a file: %f drops digits, and the accessor for a char looks for
\* an unsigned one, which it is not.
TextOf(v) ==
    CASE v.type \in Fractions -> v.n \div 2
      [] v.type = "char" -> 0
      [] OTHER -> v.n

\* Mutant of FromText: only the widest types are brought into range.
FromTextUnchecked(type, n) ==
    CASE type \in Fractions -> Scalar(type, 2 * n)
      [] OTHER -> Scalar(type, n)

\* Mutant of FromText: the largest value of a type is refused.
FromTextBelowMax(type, n) ==
    CASE type \in Fractions -> Scalar(type, 2 * n)
      [] type \notin Fractions /\ n >= MaxOf(type) -> NoValue
      [] OTHER -> Scalar(type, n)

\* _esconf_gvalue_from_string: strtoll and strtoull saturate, and strtoull
\* turns a negative number around; the narrower types are checked.  A float
\* has to be positive: G_MINFLOAT is the smallest one above zero.
FromText(type, n) ==
    CASE type = "int64" ->
             Scalar(type, IF n > MaxOf(type) THEN MaxOf(type)
                          ELSE IF n < MinOf(type) THEN MinOf(type) ELSE n)
      [] type = "uint64" ->
             Scalar(type, IF n > MaxOf(type) \/ n < -MaxOf(type) THEN MaxOf(type)
                          ELSE Wrap(type, n))
      [] type = "double" -> Scalar(type, 2 * n)
      [] type = "float" -> IF n > 0 THEN Scalar(type, 2 * n) ELSE NoValue
      [] OTHER -> IF n \in RangeOf(type) THEN Scalar(type, n) ELSE NoValue

-----------------------------------------------------------------------------
(* D-Bus: esconf_gvalue_to_gvariant and esconf_gvariant_to_gvalue *)

\* esconf_basic_gvalue_to_gvariant: g_dbus_gvalue_to_gvariant takes the number
\* of an n or q from a gint or guint, which the types for 16 bits are not.
BasicToVariant(v) ==
    CASE v.type = "float" -> NoVariant
      [] v.type \in Short -> Scalar(v.type, 0)
      [] v.type = "char" -> Scalar("int16", v.n)
      [] OTHER -> v

\* The elements that have a form on the bus, and where in S, in order, i is.
WithForm(items) == {i \in DOMAIN items : BasicToVariant(items[i]) # NoVariant}
Place(S, i) == Cardinality({j \in S : j <= i})

\* The loop over an array: elements without a form are left out.
Sent(items) ==
    [k \in 1..Cardinality(WithForm(items)) |->
        BasicToVariant(items[CHOOSE i \in WithForm(items) : Place(WithForm(items), i) = k])]

\* esconf_gvalue_to_gvariant: an array of nothing but elements without a form
\* has none itself.
ToVariant(v) ==
    IF v.type # "array" THEN BasicToVariant(v)
    ELSE IF v.items # <<>> /\ WithForm(v.items) = {} THEN NoVariant
    ELSE Array(Sent(v.items))

\* esconf_basic_gvariant_to_gvalue: there are no 16-bit values on this side.
BasicFromVariant(x) ==
    CASE x.type = "int16" -> Scalar("int", x.n)
      [] x.type = "uint16" -> Scalar("uint", x.n)
      [] OTHER -> x

\* esconf_gvariant_to_gvalue
FromVariant(x) ==
    IF x.type # "array" THEN BasicFromVariant(x)
    ELSE Array([i \in DOMAIN x.items |-> BasicFromVariant(x.items[i])])

-----------------------------------------------------------------------------
(* Comparison and transformation *)

\* esconf_g_value_get_uint16 of a GValue: 0 from any other type.
GetUint16(v) == IF v.type = "uint16" THEN v.n ELSE 0

\* Mutant of IsEqual: types are not compared.
IsEqualNumber(v, w) == v # NoValue /\ w # NoValue /\ v.n = w.n

\* _esconf_gvalue_is_equal.  Arrays are never equal; of two int16 the second is
\* read as an uint16.
IsEqual(v, w) ==
    /\ v # NoValue /\ w # NoValue /\ v.type = w.type /\ v.type # "array"
    /\ v.n = IF v.type \in Short THEN GetUint16(w) ELSE w.n

\* Mutant of Transform: a string converts to any number, as zero.
TransformStrings(v, type) ==
    IF v.type = "string" THEN [ok |-> TRUE, value |-> Scalar(type, 0)]
    ELSE [ok |-> TRUE, value |-> Scalar(type, v.n)]

\* g_value_transform into a value that was just initialised.  Both functions
\* for 16-bit types are registered for the opposite direction
\* (register_transforms), so they return before they store anything; none is
\* registered between those two types.
Transform(v, type) ==
    LET units == IF v.type \in Fractions THEN v.n \div 2 ELSE v.n
        number == IF type \in Fractions
                  THEN IF v.type \in Fractions THEN v.n ELSE 2 * units
                  ELSE IF type = "bool" THEN (IF v.n = 0 THEN 0 ELSE 1)
                  ELSE IF type = "string" THEN units ELSE Wrap(type, units)
    IN  IF v.type = "array" THEN [ok |-> FALSE, value |-> NoValue]
        ELSE IF v.type = type THEN [ok |-> TRUE, value |-> v]
        ELSE IF {v.type, type} = Short THEN [ok |-> FALSE, value |-> NoValue]
        ELSE IF v.type \in Short \/ type \in Short THEN [ok |-> TRUE, value |-> Scalar(type, 0)]
        ELSE IF v.type = "string" THEN [ok |-> FALSE, value |-> NoValue]
        ELSE [ok |-> TRUE, value |-> Scalar(type, number)]
=============================================================================
