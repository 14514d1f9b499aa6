--------------------------- MODULE AccessorProofs ---------------------------
(***************************************************************************)
(* What is set is what is got, for any sizes of the types, any values that *)
(* applications set and any text in a file.                                *)
(*                                                                         *)
(* The first part is about the conversions (module GValues): their types,  *)
(* and the values they leave as they are.  The second is about one         *)
(* property on its way through the cache, the bus, the daemon and a file.  *)
(***************************************************************************)
EXTENDS Accessors, FiniteSetTheorems, WellFoundedInduction, TLAPS

-----------------------------------------------------------------------------
(* Types and their ranges *)

LEMMA WholeTypes ==
    /\ ToSet(Signed) = {"char", "int16", "int", "int64"}
    /\ ToSet(Unsigned) = {"uchar", "uint16", "uint", "uint64"}
<1>1. DOMAIN Signed = 1..4 /\ DOMAIN Unsigned = 1..4
  BY DEF Signed, Unsigned
<1>2. \A i \in 1..4 : i = 1 \/ i = 2 \/ i = 3 \/ i = 4
  OBVIOUS
<1>3. ToSet(Signed) = {"char", "int16", "int", "int64"}
  BY <1>1, <1>2 DEF ToSet, Signed
<1>4. ToSet(Unsigned) = {"uchar", "uint16", "uint", "uint64"}
  BY <1>1, <1>2 DEF ToSet, Unsigned
<1> QED BY <1>3, <1>4

LEMMA TypesAre ==
    Types = {"char", "int16", "int", "int64", "uchar", "uint16", "uint", "uint64",
             "float", "double", "bool", "string"}
  BY WholeTypes DEF Types, Whole, Fractions

LEMMA PlainTypes ==
    Plain = {"int", "int64", "uchar", "uint", "uint64", "double", "bool", "string"}
  BY TypesAre DEF Plain, Short

LEMMA Halves ==
    /\ HalfOf("char") = Half[1] /\ HalfOf("uchar") = Half[1]
    /\ HalfOf("int16") = Half[2] /\ HalfOf("uint16") = Half[2]
    /\ HalfOf("int") = Half[3] /\ HalfOf("uint") = Half[3]
    /\ HalfOf("int64") = Half[4] /\ HalfOf("uint64") = Half[4]
<1> DEFINE Is(i, type) == Signed[i] = type \/ Unsigned[i] = type
<1>1. \A i \in 1..4 : i = 1 \/ i = 2 \/ i = 3 \/ i = 4
  OBVIOUS
<1>2. \A i \in 1..4 : /\ Is(i, "char") <=> i = 1
                      /\ Is(i, "uchar") <=> i = 1
                      /\ Is(i, "int16") <=> i = 2
                      /\ Is(i, "uint16") <=> i = 2
                      /\ Is(i, "int") <=> i = 3
                      /\ Is(i, "uint") <=> i = 3
                      /\ Is(i, "int64") <=> i = 4
                      /\ Is(i, "uint64") <=> i = 4
  BY <1>1 DEF Signed, Unsigned
<1>3. ASSUME NEW k \in 1..4, NEW type, \A i \in 1..4 : Is(i, type) <=> i = k
      PROVE  HalfOf(type) = Half[k]
  <2>1. (CHOOSE i \in 1..4 : Is(i, type)) = k
    BY <1>3
  <2> QED BY <2>1 DEF HalfOf
<1> HIDE DEF Is
<1> QED BY <1>2, <1>3

LEMMA HalvesAre ==
    /\ Half[1] \in Nat /\ Half[2] \in Nat /\ Half[3] \in Nat /\ Half[4] \in Nat
    /\ 0 < Half[1] /\ Half[1] < Half[2] /\ Half[2] < Half[3] /\ Half[3] < Half[4]
  BY WidthsAssumption

LEMMA Ranges ==
    /\ RangeOf("char") = -Half[1] .. Half[1] - 1
    /\ RangeOf("int16") = -Half[2] .. Half[2] - 1
    /\ RangeOf("int") = -Half[3] .. Half[3] - 1
    /\ RangeOf("int64") = -Half[4] .. Half[4] - 1
    /\ RangeOf("uchar") = 0 .. 2 * Half[1] - 1
    /\ RangeOf("uint16") = 0 .. 2 * Half[2] - 1
    /\ RangeOf("uint") = 0 .. 2 * Half[3] - 1
    /\ RangeOf("uint64") = 0 .. 2 * Half[4] - 1
    /\ RangeOf("bool") = 0 .. 1
    /\ RangeOf("string") = -MaxDouble .. MaxDouble
    /\ RangeOf("float") = -MaxDouble .. MaxDouble
    /\ RangeOf("double") = -MaxDouble .. MaxDouble
  BY WholeTypes, Halves DEF RangeOf

LEMMA RangesAreWhole ==
    ASSUME NEW type \in Types
    PROVE  RangeOf(type) \subseteq Int /\ 0 \in RangeOf(type)
<1>1. MaxDouble \in Nat
  BY WidthsAssumption
<1>2. ASSUME NEW a \in Int, NEW b \in Int, a <= 0, 0 <= b
      PROVE  a .. b \subseteq Int /\ 0 \in a .. b
  BY <1>2
<1>3. PICK a \in Int, b \in Int : RangeOf(type) = a .. b /\ a <= 0 /\ 0 <= b
  <2>1. \A i \in 1..4 : /\ -Half[i] \in Int /\ Half[i] - 1 \in Int /\ 2 * Half[i] - 1 \in Int
                        /\ -Half[i] <= 0 /\ 0 <= Half[i] - 1 /\ 0 <= 2 * Half[i] - 1
    BY WidthsAssumption
  <2>2. /\ -MaxDouble \in Int /\ MaxDouble \in Int /\ -MaxDouble <= 0 /\ 0 <= MaxDouble
        /\ 0 \in Int /\ 1 \in Int /\ 0 <= 0 /\ 0 <= 1
    BY <1>1
  <2>3. 1 \in 1..4 /\ 2 \in 1..4 /\ 3 \in 1..4 /\ 4 \in 1..4
    OBVIOUS
  <2>4. CASE type \in {"char", "int16", "int", "int64"}
    BY <2>1, <2>3, <2>4, Ranges
  <2>5. CASE type \in {"uchar", "uint16", "uint", "uint64"}
    BY <2>1, <2>2, <2>3, <2>5, Ranges
  <2>6. CASE type \in {"float", "double", "bool", "string"}
    BY <2>2, <2>6, Ranges
  <2> QED BY <2>4, <2>5, <2>6, TypesAre
<1> QED BY <1>2, <1>3

LEMMA RangesNest ==
    /\ RangeOf("char") \subseteq RangeOf("int16")
    /\ RangeOf("int16") \subseteq RangeOf("int")
    /\ RangeOf("uint16") \subseteq RangeOf("uint")
<1>1. ASSUME NEW a \in Nat, NEW b \in Nat, a < b
      PROVE  /\ -a .. a - 1 \subseteq -b .. b - 1
             /\ 0 .. 2 * a - 1 \subseteq 0 .. 2 * b - 1
  BY <1>1
<1>2. -Half[1] .. Half[1] - 1 \subseteq -Half[2] .. Half[2] - 1
  BY <1>1, HalvesAre
<1>3. /\ -Half[2] .. Half[2] - 1 \subseteq -Half[3] .. Half[3] - 1
      /\ 0 .. 2 * Half[2] - 1 \subseteq 0 .. 2 * Half[3] - 1
  BY <1>1, HalvesAre
<1> QED BY <1>2, <1>3, Ranges

\* A number of the type's range survives in a variable of the type.
LEMMA WrapKeeps ==
    ASSUME NEW type \in Whole, NEW n \in RangeOf(type)
    PROVE  Wrap(type, n) = n
<1> DEFINE h == HalfOf(type)
<1>1. h \in Nat /\ h > 0
  BY WholeTypes, Halves, HalvesAre DEF Whole
<1>2. CASE type \in ToSet(Signed)
  <2>1. RangeOf(type) = -h .. h - 1
    BY <1>2, WholeTypes DEF RangeOf
  <2>2. n \in Int /\ -h <= n /\ n < h
    BY <1>1, <2>1
  <2> HIDE DEF h
  <2>3. n >= 0 => n % (2 * h) = n
    BY <1>1, <2>2
  <2>4. n < 0 => n % (2 * h) = n + 2 * h
    BY <1>1, <2>2
  <2>5. n < 0 => n + 2 * h \notin RangeOf(type)
    BY <1>1, <2>1, <2>2
  <2>6. Wrap(type, n) = IF n % (2 * h) \in RangeOf(type) THEN n % (2 * h)
                       ELSE (n % (2 * h)) - 2 * h
    BY DEF Wrap, h
  <2>7. n >= 0 \/ n < 0
    BY <2>2
  <2> QED BY <1>1, <2>2, <2>3, <2>4, <2>5, <2>6, <2>7
<1>3. CASE type \in ToSet(Unsigned)
  <2>1. RangeOf(type) = 0 .. 2 * h - 1
    BY <1>3, WholeTypes DEF RangeOf
  <2>2. n \in Int /\ 0 <= n /\ n < 2 * h
    BY <1>1, <2>1
  <2> HIDE DEF h
  <2>3. n % (2 * h) = n
    BY <1>1, <2>2
  <2>4. Wrap(type, n) = IF n % (2 * h) \in RangeOf(type) THEN n % (2 * h)
                       ELSE (n % (2 * h)) - 2 * h
    BY DEF Wrap, h
  <2> QED BY <2>3, <2>4
<1> QED BY <1>2, <1>3 DEF Whole

LEMMA Limits ==
    /\ MaxOf("int64") = Half[4] - 1 /\ MinOf("int64") = -Half[4]
    /\ MaxOf("uint64") = 2 * Half[4] - 1
<1>1. ASSUME NEW a \in Int, NEW b \in Int, a <= b
      PROVE  /\ (CHOOSE n \in a .. b : \A k \in a .. b : n <= k) = a
             /\ (CHOOSE n \in a .. b : \A k \in a .. b : k <= n) = b
  <2>1. a \in a .. b /\ b \in a .. b /\ \A k \in a .. b : k \in Int /\ a <= k /\ k <= b
    BY <1>1
  <2>2. (CHOOSE n \in a .. b : \A k \in a .. b : n <= k) = a
    <3> DEFINE m == CHOOSE n \in a .. b : \A k \in a .. b : n <= k
    <3>1. m \in a .. b /\ \A k \in a .. b : m <= k
      BY <2>1
    <3>2. m \in Int /\ m <= a /\ a <= m
      BY <2>1, <3>1
    <3> HIDE DEF m
    <3>3. m = a
      BY <1>1, <3>2
    <3> QED BY <3>3 DEF m
  <2>3. (CHOOSE n \in a .. b : \A k \in a .. b : k <= n) = b
    <3> DEFINE m == CHOOSE n \in a .. b : \A k \in a .. b : k <= n
    <3>1. m \in a .. b /\ \A k \in a .. b : k <= m
      BY <2>1
    <3>2. m \in Int /\ m <= b /\ b <= m
      BY <2>1, <3>1
    <3> HIDE DEF m
    <3>3. m = b
      BY <1>1, <3>2
    <3> QED BY <3>3 DEF m
  <2> QED BY <2>2, <2>3
<1>2. /\ -Half[4] \in Int /\ Half[4] - 1 \in Int /\ -Half[4] <= Half[4] - 1
      /\ 0 \in Int /\ 2 * Half[4] - 1 \in Int /\ 0 <= 2 * Half[4] - 1
  BY HalvesAre
<1>3. MaxOf("int64") = Half[4] - 1 /\ MinOf("int64") = -Half[4]
  BY <1>1, <1>2, Ranges DEF MaxOf, MinOf
<1>4. MaxOf("uint64") = 2 * Half[4] - 1
  BY <1>1, <1>2, Ranges DEF MaxOf
<1> QED BY <1>3, <1>4

LEMMA Saturates ==
    /\ MaxOf("int64") \in RangeOf("int64") /\ MinOf("int64") \in RangeOf("int64")
    /\ MaxOf("uint64") \in RangeOf("uint64")
    /\ \A n \in Int :
           /\ ~(n > MaxOf("int64")) /\ ~(n < MinOf("int64")) => n \in RangeOf("int64")
           /\ n \in RangeOf("int64") => ~(n > MaxOf("int64")) /\ ~(n < MinOf("int64"))
           /\ n \in RangeOf("uint64") => ~(n > MaxOf("uint64")) /\ ~(n < -MaxOf("uint64"))
<1> DEFINE h == Half[4]
<1>1. h \in Nat /\ h > 0
  BY HalvesAre
<1>2. /\ MaxOf("int64") = h - 1 /\ MinOf("int64") = -h /\ MaxOf("uint64") = 2 * h - 1
      /\ RangeOf("int64") = -h .. h - 1 /\ RangeOf("uint64") = 0 .. 2 * h - 1
  BY Limits, Ranges
<1> HIDE DEF h
<1> QED BY <1>1, <1>2

LEMMA WrapsToUnsigned ==
    ASSUME NEW n \in Int PROVE Wrap("uint64", n) \in RangeOf("uint64")
<1> DEFINE h == Half[4]
<1>1. h \in Nat /\ h > 0
  BY HalvesAre
<1>2. HalfOf("uint64") = h /\ RangeOf("uint64") = 0 .. 2 * h - 1
  BY Halves, Ranges
<1> HIDE DEF h
<1>3. n % (2 * h) \in 0 .. 2 * h - 1
  BY <1>1
<1> QED BY <1>2, <1>3 DEF Wrap

-----------------------------------------------------------------------------
(* Values *)

OnBus == Types \ {"char", "float"}
BusValues == {v \in ScalarValues : v.type \in OnBus}
PlainValues == {v \in ScalarValues : v.type \in Plain}

LEMMA MakeScalar ==
    ASSUME NEW type \in Types, NEW n \in RangeOf(type)
    PROVE  /\ Scalar(type, n) \in ScalarValues
           /\ Scalar(type, n).type = type /\ Scalar(type, n).n = n
  BY DEF ScalarValues, Scalar

LEMMA ScalarParts ==
    ASSUME NEW v \in ScalarValues
    PROVE  /\ v.type \in Types /\ v.n \in RangeOf(v.type) /\ v.n \in Int
           /\ v.items = <<>> /\ v = Scalar(v.type, v.n)
           /\ v.type # "array" /\ v # NoValue /\ v # NoVariant
<1>1. PICK type \in Types : \E n \in RangeOf(type) : v = Scalar(type, n)
  BY DEF ScalarValues
<1> PICK n \in RangeOf(type) : v = Scalar(type, n)
  BY <1>1
<1>2. v.type = type /\ v.n = n /\ v.items = <<>>
  BY DEF Scalar
<1>3. type # "array" /\ type # "none" /\ type # "null"
  BY TypesAre
<1>4. NoValue.type = "none" /\ NoVariant.type = "null"
  BY DEF NoValue, NoVariant
<1> QED BY <1>2, <1>3, <1>4, RangesAreWhole

LEMMA EqualScalars ==
    ASSUME NEW v \in ScalarValues, NEW w \in ScalarValues, v.type = w.type, v.n = w.n
    PROVE  v = w
  BY ScalarParts

LEMMA ArrayParts ==
    ASSUME NEW s
    PROVE  /\ Array(s).type = "array" /\ Array(s).items = s /\ Array(s).n = 0
           /\ Array(s) # NoValue /\ Array(s) # NoVariant
           /\ Array(s) \notin ScalarValues
<1>1. Array(s).type = "array" /\ Array(s).items = s /\ Array(s).n = 0
  BY DEF Array
<1>2. NoValue.type = "none" /\ NoVariant.type = "null"
  BY DEF NoValue, NoVariant
<1> QED BY <1>1, <1>2, ScalarParts

LEMMA NothingParts ==
    /\ NoValue.type = "none" /\ NoVariant.type = "null"
    /\ NoValue \notin ScalarValues /\ NoVariant \notin ScalarValues
    /\ ~IsArray(NoValue) /\ ~IsArray(NoVariant) /\ NoValue # NoVariant
<1>1. NoValue.type = "none" /\ NoVariant.type = "null"
  BY DEF NoValue, NoVariant
<1> QED BY <1>1, ScalarParts, ArrayParts DEF IsArray

LEMMA PlainOnBus ==
    /\ PlainValues \subseteq BusValues /\ BusValues \subseteq ScalarValues
    /\ Plain \subseteq Types
  BY PlainTypes, TypesAre DEF PlainValues, BusValues, OnBus

LEMMA IsEqualMeans ==
    ASSUME NEW v, NEW w \in PlainValues, v = NoValue \/ IsValue(v), IsEqual(v, w)
    PROVE  v = w
<1>1. v # NoValue /\ v.type = w.type /\ v.type # "array"
  BY DEF IsEqual
<1>2. v \in ScalarValues
  BY <1>1, ArrayParts DEF IsValue, IsScalar, IsArray
<1>3. w \in ScalarValues /\ w.type \notin Short
  BY DEF PlainValues, Plain
<1>4. v.n = w.n
  BY <1>1, <1>3 DEF IsEqual
<1> QED BY <1>1, <1>2, <1>3, <1>4, EqualScalars

LEMMA ArraysNeverEqual ==
    ASSUME NEW v, NEW w, w.type = "array" PROVE ~IsEqual(v, w)
  BY DEF IsEqual

LEMMA SomethingEqual ==
    ASSUME NEW v, NEW w, IsEqual(v, w)
    PROVE  v # NoValue /\ v.type = w.type /\ v.type # "array"
  BY DEF IsEqual

-----------------------------------------------------------------------------
(* The text of a file *)

LEMMA HalvesOfEven ==
    ASSUME NEW n \in Int
    PROVE  /\ n \div 2 \in Int /\ (2 * n) \div 2 = n
           /\ 2 * (n \div 2) \in Int /\ (2 * (n \div 2)) \div 2 = n \div 2
           /\ -MaxDouble <= n => -MaxDouble <= 2 * (n \div 2)
           /\ n <= MaxDouble => 2 * (n \div 2) <= MaxDouble
<1>1. MaxDouble \in Nat /\ MaxDouble % 2 = 0
  BY WidthsAssumption
<1> QED BY <1>1

\* What is read is of its type, and nothing else is read.
LEMMA FromTextType ==
    ASSUME NEW type \in Types, NEW n \in Int,
           type \in Fractions => -MaxDouble <= 2 * n /\ 2 * n <= MaxDouble
    PROVE  \/ FromText(type, n) = NoValue
           \/ FromText(type, n) \in ScalarValues /\ FromText(type, n).type = type
<1>1. CASE type = "int64"
  <2>1. FromText("int64", n) = Scalar("int64", IF n > MaxOf("int64") THEN MaxOf("int64")
                                              ELSE IF n < MinOf("int64") THEN MinOf("int64")
                                              ELSE n)
    BY DEF FromText
  <2>2. (IF n > MaxOf("int64") THEN MaxOf("int64")
         ELSE IF n < MinOf("int64") THEN MinOf("int64") ELSE n) \in RangeOf("int64")
    BY Saturates
  <2> QED BY <1>1, <2>1, <2>2, MakeScalar, TypesAre
<1>2. CASE type = "uint64"
  <2>1. FromText("uint64", n) =
            Scalar("uint64", IF n > MaxOf("uint64") \/ n < -MaxOf("uint64")
                             THEN MaxOf("uint64") ELSE Wrap("uint64", n))
    BY DEF FromText
  <2>2. (IF n > MaxOf("uint64") \/ n < -MaxOf("uint64")
         THEN MaxOf("uint64") ELSE Wrap("uint64", n)) \in RangeOf("uint64")
    BY Saturates, WrapsToUnsigned
  <2> QED BY <1>2, <2>1, <2>2, MakeScalar, TypesAre
<1>3. CASE type \in Fractions
  <2>1. 2 * n \in RangeOf(type)
    <3>1. MaxDouble \in Nat
      BY WidthsAssumption
    <3>2. RangeOf(type) = -MaxDouble .. MaxDouble
      BY <1>3, Ranges DEF Fractions
    <3> QED BY <1>3, <3>1, <3>2
  <2>2. FromText(type, n) = Scalar(type, 2 * n) \/ FromText(type, n) = NoValue
    BY <1>3 DEF FromText, Fractions
  <2> QED BY <2>1, <2>2, MakeScalar
<1>4. CASE type \notin Fractions \cup {"int64", "uint64"}
  <2>1. FromText(type, n) = IF n \in RangeOf(type) THEN Scalar(type, n) ELSE NoValue
    BY <1>4 DEF FromText, Fractions
  <2> QED BY <2>1, MakeScalar
<1> QED BY <1>1, <1>2, <1>3, <1>4

\* A value of one of the types that a file has is read again as it was, but for
\* the digits of a double.
LEMMA PlainFromText ==
    ASSUME NEW v \in PlainValues
    PROVE  FromText(v.type, TextOf(v)) =
               Scalar(v.type, IF v.type = "double" THEN 2 * (v.n \div 2) ELSE v.n)
<1>1. /\ v \in ScalarValues /\ v.type \in Plain
      /\ v.n \in RangeOf(v.type) /\ v.n \in Int
  BY ScalarParts DEF PlainValues
<1>2. CASE v.type = "double"
  BY <1>2 DEF TextOf, FromText, Fractions
<1>3. CASE v.type = "int64"
  <2>1. ~(v.n > MaxOf("int64")) /\ ~(v.n < MinOf("int64"))
    BY <1>1, <1>3, Saturates
  <2> QED BY <1>1, <1>3, <2>1 DEF TextOf, FromText, Fractions
<1>4. CASE v.type = "uint64"
  <2>1. ~(v.n > MaxOf("uint64")) /\ ~(v.n < -MaxOf("uint64"))
    BY <1>1, <1>4, Saturates
  <2>2. Wrap("uint64", v.n) = v.n
    BY <1>1, <1>4, WrapKeeps, WholeTypes DEF Whole
  <2> QED BY <1>1, <1>4, <2>1, <2>2 DEF TextOf, FromText, Fractions
<1>5. CASE v.type \in {"int", "uchar", "uint", "bool", "string"}
  BY <1>1, <1>5 DEF TextOf, FromText, Fractions
<1> QED BY <1>1, <1>2, <1>3, <1>4, <1>5, PlainTypes

LEMMA PlainReread ==
    ASSUME NEW v \in PlainValues, NEW w \in ScalarValues, SameUpToFile(v, w)
    PROVE  /\ FromText(v.type, TextOf(v)) \in PlainValues
           /\ FromText(v.type, TextOf(v)).type = v.type
           /\ SameUpToFile(FromText(v.type, TextOf(v)), w)
<1> DEFINE n == IF v.type = "double" THEN 2 * (v.n \div 2) ELSE v.n
           u == Scalar(v.type, n)
<1>1. /\ v.type \in Types /\ v.type \in Plain
      /\ v.n \in RangeOf(v.type) /\ v.n \in Int /\ w.n \in Int
  BY ScalarParts DEF PlainValues
<1>2. FromText(v.type, TextOf(v)) = u
  BY PlainFromText
<1>3. n \in RangeOf(v.type)
  <2>1. CASE v.type = "double"
    <3>1. RangeOf("double") = -MaxDouble .. MaxDouble /\ MaxDouble \in Nat
      BY Ranges, WidthsAssumption
    <3>2. -MaxDouble <= v.n /\ v.n <= MaxDouble
      BY <1>1, <2>1, <3>1
    <3>3. /\ 2 * (v.n \div 2) \in Int
          /\ -MaxDouble <= 2 * (v.n \div 2) /\ 2 * (v.n \div 2) <= MaxDouble
      BY <1>1, <3>2, HalvesOfEven
    <3> QED BY <2>1, <3>1, <3>3
  <2> QED BY <1>1, <2>1
<1>4. u \in ScalarValues /\ u.type = v.type /\ u.n = n
  BY <1>1, <1>3, MakeScalar
<1>5. SameUpToFile(u, w)
  <2>1. v.type = w.type
    BY DEF SameUpToFile
  <2>2. CASE v.type = "double"
    <3>1. v.n = w.n \/ v.n = 2 * (w.n \div 2)
      BY DEF SameUpToFile
    <3>2. 2 * (v.n \div 2) = 2 * (w.n \div 2)
      BY <1>1, <3>1, HalvesOfEven
    <3> QED BY <1>4, <2>1, <2>2, <3>2 DEF SameUpToFile
  <2>3. CASE v.type # "double"
    BY <1>4, <2>1, <2>3 DEF SameUpToFile
  <2> QED BY <2>2, <2>3
<1> HIDE DEF u
<1> QED BY <1>1, <1>2, <1>4, <1>5 DEF PlainValues

-----------------------------------------------------------------------------
(* The bus *)

LEMMA BusForm ==
    ASSUME NEW v \in ScalarValues
    PROVE  /\ BasicToVariant(v) = NoVariant <=> v.type = "float"
           /\ v.type # "float" => BasicToVariant(v) \in BusValues
           /\ v \in PlainValues => BasicToVariant(v) = v
<1>1. v.type \in Types /\ v.n \in RangeOf(v.type) /\ v # NoVariant
  BY ScalarParts
<1>2. CASE v.type = "float"
  BY <1>2, PlainTypes DEF BasicToVariant, Short, PlainValues
<1>3. CASE v.type \in Short
  <2>1. BasicToVariant(v) = Scalar(v.type, 0)
    BY <1>3 DEF BasicToVariant, Short
  <2>2. Scalar(v.type, 0) \in ScalarValues /\ Scalar(v.type, 0).type = v.type
    BY <1>1, RangesAreWhole, MakeScalar
  <2>3. v.type \in OnBus /\ v \notin PlainValues
    BY <1>1, <1>3 DEF OnBus, Short, PlainValues, Plain
  <2> QED BY <1>3, <2>1, <2>2, <2>3, ScalarParts DEF BusValues, Short
<1>4. CASE v.type = "char"
  <2>1. BasicToVariant(v) = Scalar("int16", v.n)
    BY <1>4 DEF BasicToVariant, Short
  <2>2. v.n \in RangeOf("int16") /\ "int16" \in Types
    BY <1>1, <1>4, RangesNest, TypesAre
  <2>3. Scalar("int16", v.n) \in ScalarValues /\ Scalar("int16", v.n).type = "int16"
    BY <2>2, MakeScalar
  <2>4. "int16" \in OnBus /\ v \notin PlainValues
    BY <1>4, <2>2, PlainTypes DEF OnBus, PlainValues
  <2> QED BY <1>4, <2>1, <2>3, <2>4, ScalarParts DEF BusValues
<1>5. CASE v.type \notin Short \cup {"float", "char"}
  <2>1. BasicToVariant(v) = v
    BY <1>5 DEF BasicToVariant
  <2> QED BY <1>1, <1>5, <2>1 DEF BusValues, OnBus
<1> QED BY <1>2, <1>3, <1>4, <1>5

LEMMA BackFromBus ==
    ASSUME NEW x \in BusValues
    PROVE  /\ BasicFromVariant(x) \in PlainValues
           /\ x \in PlainValues => BasicFromVariant(x) = x
<1>1. x \in ScalarValues /\ x.type \in Types /\ x.n \in RangeOf(x.type)
  BY ScalarParts DEF BusValues
<1>2. CASE x.type = "int16"
  <2>1. BasicFromVariant(x) = Scalar("int", x.n)
    BY <1>2 DEF BasicFromVariant
  <2>2. "int" \in Types /\ "int" \in Plain /\ x.n \in RangeOf("int")
    BY <1>1, <1>2, RangesNest, TypesAre, PlainTypes
  <2>3. x \notin PlainValues
    BY <1>2, PlainTypes DEF PlainValues
  <2> QED BY <2>1, <2>2, <2>3, MakeScalar DEF PlainValues
<1>3. CASE x.type = "uint16"
  <2>1. BasicFromVariant(x) = Scalar("uint", x.n)
    BY <1>3 DEF BasicFromVariant
  <2>2. "uint" \in Types /\ "uint" \in Plain /\ x.n \in RangeOf("uint")
    BY <1>1, <1>3, RangesNest, TypesAre, PlainTypes
  <2>3. x \notin PlainValues
    BY <1>3, PlainTypes DEF PlainValues
  <2> QED BY <2>1, <2>2, <2>3, MakeScalar DEF PlainValues
<1>4. CASE x.type \notin Short
  <2>1. BasicFromVariant(x) = x
    BY <1>4 DEF BasicFromVariant, Short
  <2>2. x.type \in Plain
    BY <1>4 DEF BusValues, OnBus, Plain
  <2> QED BY <1>1, <2>1, <2>2 DEF PlainValues
<1> QED BY <1>2, <1>3, <1>4 DEF Short

Less == {pair \in Nat \X Nat : pair[1] < pair[2]}

\* A set of natural numbers has a least element.
LEMMA LeastNumber ==
    ASSUME NEW S, S \subseteq Nat, S # {}
    PROVE  \E x \in S : \A y \in S : x <= y
<1>1. IsWellFoundedOn(Less, Nat)
  BY NatLessThanWellFounded DEF Less, OpToRel
<1>2. PICK x \in S : \A y \in S : ~(<<y, x>> \in Less)
  BY <1>1, WFMin
<1>3. ASSUME NEW y \in S PROVE x <= y
  <2>1. x \in Nat /\ y \in Nat
    OBVIOUS
  <2>2. y < x => <<y, x>> \in Less
    BY <2>1 DEF Less
  <2> QED BY <1>2, <2>1, <2>2
<1> QED BY <1>3

LEMMA PartOfInterval ==
    ASSUME NEW n \in Nat, NEW S \in SUBSET (1..n)
    PROVE  IsFiniteSet(S) /\ Cardinality(S) \in Nat
<1>1. 1 \in Int /\ n \in Int
  OBVIOUS
<1>2. IsFiniteSet(1..n)
  BY <1>1, FS_Interval
<1>3. IsFiniteSet(S)
  BY <1>2, FS_Subset
<1> QED BY <1>3, FS_CardinalityType

\* Every place up to their number is that of one of the elements of S.
LEMMA EveryPlaceTaken ==
    ASSUME NEW n \in Nat, NEW S \in SUBSET (1..n), NEW k \in 1..Cardinality(S)
    PROVE  \E i \in S : Place(S, i) = k
<1> DEFINE Upto(i) == {j \in S : j <= i}
<1>1. IsFiniteSet(S) /\ Cardinality(S) \in Nat
  BY PartOfInterval
<1>2. \A j \in S : j \in Nat /\ 1 <= j /\ j <= n
  OBVIOUS
<1>3. ASSUME NEW i \in Nat
      PROVE  IsFiniteSet(Upto(i)) /\ Cardinality(Upto(i)) \in Nat
  <2>1. Upto(i) \in SUBSET S
    OBVIOUS
  <2> HIDE DEF Upto
  <2> QED BY <1>1, <2>1, FS_Subset, FS_CardinalityType
<1>4. Upto(0) = {} /\ Upto(n) = S
  <2>1. \A j \in S : ~(j <= 0) /\ j <= n
    BY <1>2
  <2> QED BY <2>1
<1>5. ASSUME NEW i \in Nat, i # 0
      PROVE  /\ i - 1 \in Nat
             /\ Upto(i) = IF i \in S THEN Upto(i - 1) \cup {i} ELSE Upto(i - 1)
             /\ i \notin Upto(i - 1)
  <2>1. i - 1 \in Nat /\ ~(i <= i - 1)
    BY <1>5
  <2>2. \A j \in S : j <= i <=> j = i \/ j <= i - 1
    BY <1>2, <1>5
  <2> QED BY <2>1, <2>2
<1> DEFINE C == {i \in Nat : k <= Cardinality(Upto(i))}
<1> HIDE DEF Upto
<1>6. k \in Nat /\ 1 <= k /\ k <= Cardinality(S)
  BY <1>1
<1>7. PICK i \in C : \A j \in C : i <= j
  <2>1. C \subseteq Nat /\ n \in C
    BY <1>4, <1>6
  <2> HIDE DEF C
  <2> QED BY <2>1, LeastNumber
<1>8. i \in Nat /\ k <= Cardinality(Upto(i)) /\ Cardinality(Upto(i)) \in Nat
  BY <1>3
<1>9. i # 0
  BY <1>4, <1>6, <1>8, FS_EmptySet
<1>10. i - 1 \in Nat /\ ~(k <= Cardinality(Upto(i - 1))) /\ Cardinality(Upto(i - 1)) \in Nat
  <2>1. i - 1 \in Nat /\ ~(i <= i - 1)
    BY <1>8, <1>9
  <2>2. i - 1 \notin C
    BY <1>7, <2>1
  <2> QED BY <1>3, <2>1, <2>2
<1>11. i \in S /\ Upto(i) = Upto(i - 1) \cup {i} /\ i \notin Upto(i - 1)
  BY <1>5, <1>8, <1>9, <1>10
<1>12. Cardinality(Upto(i)) = Cardinality(Upto(i - 1)) + 1
  BY <1>3, <1>10, <1>11, FS_AddElement
<1>13. Cardinality(Upto(i)) = k
  BY <1>6, <1>8, <1>10, <1>12
<1> QED BY <1>11, <1>13 DEF Place, Upto

LEMMA SentType ==
    ASSUME NEW s \in Seq(ScalarValues)
    PROVE  Sent(s) \in Seq(BusValues) /\ (WithForm(s) # {} => Sent(s) # <<>>)
<1> DEFINE S == WithForm(s)
           At(k) == CHOOSE i \in S : Place(S, i) = k
<1>1. /\ Len(s) \in Nat /\ DOMAIN s = 1..Len(s)
      /\ S \in SUBSET (1..Len(s)) /\ \A i \in DOMAIN s : s[i] \in ScalarValues
  BY DEF WithForm
<1>2. IsFiniteSet(S) /\ Cardinality(S) \in Nat
  <2> HIDE DEF S
  <2> QED BY <1>1, PartOfInterval
<1>3. ASSUME NEW i \in S PROVE BasicToVariant(s[i]) \in BusValues
  <2>1. s[i] \in ScalarValues /\ BasicToVariant(s[i]) # NoVariant
    BY <1>1 DEF WithForm
  <2> QED BY <2>1, BusForm
<1>4. ASSUME NEW k \in 1..Cardinality(S) PROVE At(k) \in S
  <2> HIDE DEF S
  <2> QED BY <1>1, EveryPlaceTaken
<1>5. Sent(s) = [k \in 1..Cardinality(S) |-> BasicToVariant(s[At(k)])]
  BY DEF Sent
<1> HIDE DEF S, At
<1>6. Sent(s) \in [1..Cardinality(S) -> BusValues]
  BY <1>3, <1>4, <1>5
<1>7. Sent(s) \in Seq(BusValues)
  BY <1>2, <1>6
<1>8. ASSUME S # {} PROVE Sent(s) # <<>>
  <2>1. Cardinality(S) # 0
    BY <1>2, <1>8, FS_EmptySet
  <2>2. Len(Sent(s)) = Cardinality(S)
    BY <1>2, <1>6
  <2> QED BY <2>1, <2>2
<1> QED BY <1>7, <1>8 DEF S

\* Nothing is left out of an array of values that have a form of their own.
LEMMA SentPlain ==
    ASSUME NEW s \in Seq(PlainValues) PROVE Sent(s) = s /\ WithForm(s) = DOMAIN s
<1> DEFINE n == Len(s)
<1>1. n \in Nat /\ DOMAIN s = 1..n /\ \A i \in DOMAIN s : s[i] \in PlainValues
  OBVIOUS
<1>2. \A i \in DOMAIN s : BasicToVariant(s[i]) = s[i] /\ s[i] # NoVariant
  BY <1>1, BusForm, ScalarParts DEF PlainValues
<1>3. WithForm(s) = 1..n
  BY <1>1, <1>2 DEF WithForm
<1> HIDE DEF n
<1>4. Cardinality(1..n) = n
  BY <1>1, FS_Interval
<1>5. ASSUME NEW k \in 1..n PROVE Place(1..n, k) = k
  <2>1. {j \in 1..n : j <= k} = 1..k
    BY <1>1
  <2>2. Cardinality(1..k) = k
    BY <1>1, FS_Interval
  <2> QED BY <2>1, <2>2 DEF Place
<1>6. ASSUME NEW k \in 1..n PROVE (CHOOSE i \in 1..n : Place(1..n, i) = k) = k
  BY <1>5
<1>7. Sent(s) = [k \in 1..n |-> s[k]]
  <2>1. Sent(s) = [k \in 1..n |-> BasicToVariant(s[CHOOSE i \in 1..n : Place(1..n, i) = k])]
    BY <1>3, <1>4 DEF Sent
  <2>2. \A k \in 1..n : BasicToVariant(s[CHOOSE i \in 1..n : Place(1..n, i) = k]) = s[k]
    BY <1>1, <1>2, <1>6
  <2> QED BY <2>1, <2>2
<1> QED BY <1>1, <1>3, <1>7

\* Variants as they travel, and values as they arrive.
IsBus(x) == x \in BusValues \/ (x = Array(x.items) /\ x.items \in Seq(BusValues))
IsPlain(v) == v \in PlainValues \/ (v = Array(v.items) /\ v.items \in Seq(PlainValues))

LEMMA PlainIs ==
    ASSUME NEW v, IsPlain(v)
    PROVE  IsValue(v) /\ IsBus(v) /\ v # NoValue /\ v # NoVariant
<1>1. CASE v \in PlainValues
  BY <1>1, PlainOnBus, ScalarParts DEF IsValue, IsScalar, IsBus
<1>2. CASE v = Array(v.items) /\ v.items \in Seq(PlainValues)
  <2>1. v.items \in Seq(BusValues) /\ v.items \in Seq(ScalarValues)
    BY <1>2, PlainOnBus
  <2> QED BY <1>2, <2>1, ArrayParts DEF IsValue, IsArray, IsBus
<1> QED BY <1>1, <1>2 DEF IsPlain

LEMMA BusIs ==
    ASSUME NEW x, IsBus(x) PROVE IsValue(x) /\ x # NoVariant
<1>1. CASE x \in BusValues
  BY <1>1, PlainOnBus, ScalarParts DEF IsValue, IsScalar
<1>2. CASE x = Array(x.items) /\ x.items \in Seq(BusValues)
  <2>1. x.items \in Seq(ScalarValues)
    BY <1>2, PlainOnBus
  <2> QED BY <1>2, <2>1, ArrayParts DEF IsValue, IsArray
<1> QED BY <1>1, <1>2 DEF IsBus

LEMMA ValueIs ==
    ASSUME NEW v, IsValue(v)
    PROVE  /\ v # NoValue /\ v # NoVariant
           /\ \/ v \in ScalarValues /\ v.type # "array"
              \/ v.type = "array" /\ v = Array(v.items) /\ v.items \in Seq(ScalarValues)
<1>1. CASE v \in ScalarValues
  BY <1>1, ScalarParts
<1>2. CASE v = Array(v.items) /\ v.items \in Seq(ScalarValues)
  BY <1>2, ArrayParts
<1> QED BY <1>1, <1>2 DEF IsValue, IsScalar, IsArray

LEMMA ToVariantType ==
    ASSUME NEW v, IsValue(v)
    PROVE  ToVariant(v) = NoVariant \/ IsBus(ToVariant(v))
<1>1. CASE v \in ScalarValues /\ v.type # "array"
  BY <1>1, BusForm DEF ToVariant, IsBus
<1>2. CASE v.type = "array" /\ v = Array(v.items) /\ v.items \in Seq(ScalarValues)
  <2>1. ToVariant(v) = NoVariant \/ ToVariant(v) = Array(Sent(v.items))
    BY <1>2 DEF ToVariant
  <2>2. IsBus(Array(Sent(v.items)))
    BY <1>2, SentType, ArrayParts DEF IsBus
  <2> QED BY <2>1, <2>2
<1> QED BY <1>1, <1>2, ValueIs

LEMMA ToVariantPlain ==
    ASSUME NEW v, IsPlain(v) PROVE ToVariant(v) = v
<1>1. CASE v \in PlainValues
  <2>1. v \in ScalarValues /\ v.type # "array"
    BY <1>1, ScalarParts DEF PlainValues
  <2> QED BY <1>1, <2>1, BusForm DEF ToVariant
<1>2. CASE v = Array(v.items) /\ v.items \in Seq(PlainValues)
  <2>1. v.type = "array"
    BY <1>2, ArrayParts
  <2>2. Sent(v.items) = v.items /\ WithForm(v.items) = DOMAIN v.items
    BY <1>2, SentPlain
  <2>3. ASSUME v.items # <<>> PROVE DOMAIN v.items # {}
    <3>1. Len(v.items) \in Nat /\ Len(v.items) # 0 /\ DOMAIN v.items = 1..Len(v.items)
      BY <1>2, <2>3
    <3>2. 1 \in 1..Len(v.items)
      BY <3>1
    <3> QED BY <3>1, <3>2
  <2> QED BY <1>2, <2>1, <2>2, <2>3 DEF ToVariant
<1> QED BY <1>1, <1>2 DEF IsPlain

LEMMA FromVariantType ==
    ASSUME NEW x, IsBus(x) PROVE IsPlain(FromVariant(x))
<1>1. CASE x \in BusValues
  <2>1. x.type # "array"
    BY <1>1, ScalarParts DEF BusValues
  <2> QED BY <1>1, <2>1, BackFromBus DEF FromVariant, IsPlain
<1>2. CASE x = Array(x.items) /\ x.items \in Seq(BusValues)
  <2> DEFINE s == [i \in DOMAIN x.items |-> BasicFromVariant(x.items[i])]
  <2>1. FromVariant(x) = Array(s)
    BY <1>2, ArrayParts DEF FromVariant
  <2>2. s \in Seq(PlainValues)
    <3>1. \A i \in DOMAIN x.items : BasicFromVariant(x.items[i]) \in PlainValues
      BY <1>2, BackFromBus
    <3>2. DOMAIN x.items = 1..Len(x.items) /\ Len(x.items) \in Nat
      BY <1>2
    <3> QED BY <3>1, <3>2
  <2> HIDE DEF s
  <2> QED BY <2>1, <2>2, ArrayParts DEF IsPlain
<1> QED BY <1>1, <1>2 DEF IsBus

LEMMA FromVariantPlain ==
    ASSUME NEW x, IsPlain(x) PROVE FromVariant(x) = x
<1>1. CASE x \in PlainValues
  <2>1. x \in BusValues /\ x.type # "array"
    BY <1>1, PlainOnBus, ScalarParts DEF BusValues
  <2> QED BY <1>1, <2>1, BackFromBus DEF FromVariant
<1>2. CASE x = Array(x.items) /\ x.items \in Seq(PlainValues)
  <2>1. \A i \in DOMAIN x.items : BasicFromVariant(x.items[i]) = x.items[i]
    BY <1>2, PlainOnBus, BackFromBus
  <2>2. [i \in DOMAIN x.items |-> BasicFromVariant(x.items[i])] = x.items
    BY <1>2, <2>1
  <2> QED BY <1>2, <2>2, ArrayParts DEF FromVariant
<1> QED BY <1>1, <1>2 DEF IsPlain

\* What comes over the bus is plain, and what is plain comes as it is.
LEMMA RoundTrip ==
    ASSUME NEW v, IsValue(v), ToVariant(v) # NoVariant
    PROVE  /\ IsPlain(FromVariant(ToVariant(v)))
           /\ IsPlain(v) => FromVariant(ToVariant(v)) = v
  BY ToVariantType, ToVariantPlain, FromVariantType, FromVariantPlain

LEMMA PlainByType ==
    ASSUME NEW v, IsValue(v), v.type \in Plain PROVE v \in PlainValues
  BY ValueIs, PlainTypes DEF PlainValues

LEMMA EqualIsSame ==
    ASSUME NEW v, NEW w, v = NoValue \/ IsValue(v), IsPlain(w), IsEqual(v, w)
    PROVE  v = w /\ w \in PlainValues
<1>1. w.type # "array"
  BY ArraysNeverEqual
<1>2. w \in PlainValues
  BY <1>1, ArrayParts DEF IsPlain
<1> QED BY <1>2, IsEqualMeans

-----------------------------------------------------------------------------
(* A file, read again *)

\* u is w, but for digits that a file drops.
SameValue(u, w) ==
    IF w.type = "array"
    THEN /\ u.type = "array" /\ Len(u.items) = Len(w.items)
         /\ \A i \in DOMAIN w.items : SameUpToFile(u.items[i], w.items[i])
    ELSE SameUpToFile(u, w)

LEMMA SameAsItself ==
    ASSUME NEW v PROVE SameValue(v, v)
  BY DEF SameValue, SameUpToFile

LEMMA TextOfType ==
    ASSUME NEW v \in ScalarValues
    PROVE  /\ TextOf(v) \in Int
           /\ v.type \in Fractions => -MaxDouble <= 2 * TextOf(v) /\ 2 * TextOf(v) <= MaxDouble
<1>1. v.type \in Types /\ v.n \in RangeOf(v.type) /\ v.n \in Int
  BY ScalarParts
<1>2. CASE v.type \in Fractions
  <2>1. TextOf(v) = v.n \div 2
    BY <1>2 DEF TextOf, Fractions
  <2>2. RangeOf(v.type) = -MaxDouble .. MaxDouble /\ MaxDouble \in Nat
    BY <1>2, Ranges, WidthsAssumption DEF Fractions
  <2>3. -MaxDouble <= v.n /\ v.n <= MaxDouble
    BY <1>1, <2>2
  <2> QED BY <1>1, <2>1, <2>3, HalvesOfEven
<1>3. CASE v.type \notin Fractions
  <2>1. TextOf(v) = IF v.type = "char" THEN 0 ELSE v.n
    BY <1>3 DEF TextOf
  <2> QED BY <1>1, <1>3, <2>1
<1> QED BY <1>2, <1>3

LEMMA RereadScalar ==
    ASSUME NEW v \in ScalarValues
    PROVE  /\ Reread(v) = FromText(v.type, TextOf(v))
           /\ Reread(v) = NoValue \/ (Reread(v) \in ScalarValues /\ Reread(v).type = v.type)
<1>1. v.type # "array" /\ v.type \in Types
  BY ScalarParts
<1>2. Reread(v) = FromText(v.type, TextOf(v))
  BY <1>1 DEF Reread
<1> QED BY <1>1, <1>2, TextOfType, FromTextType

\* What answers a get is still there after a restart.
LEMMA RereadStays ==
    ASSUME NEW v \in ScalarValues, v.type # "float" PROVE Reread(v) # NoValue
<1>1. v.type \in Types /\ v.n \in RangeOf(v.type) /\ v.n \in Int
  BY ScalarParts
<1>2. CASE v \in PlainValues
  <2>1. SameUpToFile(v, v)
    BY DEF SameUpToFile
  <2> QED BY <1>2, <2>1, RereadScalar, PlainReread, ScalarParts DEF PlainValues
<1>3. CASE v.type \in Short
  <2>1. FromText(v.type, TextOf(v)) = Scalar(v.type, v.n)
    BY <1>1, <1>3 DEF FromText, TextOf, Fractions, Short
  <2> QED BY <1>1, <2>1, RereadScalar, MakeScalar, ScalarParts
<1>4. CASE v.type = "char"
  <2>1. 0 \in RangeOf("char")
    BY <1>1, <1>4, RangesAreWhole
  <2>2. FromText(v.type, TextOf(v)) = Scalar("char", 0)
    BY <1>4, <2>1 DEF FromText, TextOf, Fractions
  <2> QED BY <1>1, <1>4, <2>1, <2>2, RereadScalar, MakeScalar, ScalarParts
<1> QED BY <1>1, <1>2, <1>3, <1>4 DEF PlainValues, Plain

LEMMA RereadPlain ==
    ASSUME NEW v, IsPlain(v), NEW w, IsPlain(w), SameValue(v, w)
    PROVE  IsPlain(Reread(v)) /\ SameValue(Reread(v), w)
<1>1. CASE v \in PlainValues
  <2>1. v \in ScalarValues /\ v.type # "array"
    BY <1>1, ScalarParts DEF PlainValues
  <2>2. w.type # "array" /\ SameUpToFile(v, w)
    BY <2>1 DEF SameValue
  <2>3. w \in ScalarValues
    BY <2>2, ArrayParts DEF IsPlain, PlainValues
  <2> QED BY <1>1, <2>1, <2>2, <2>3, PlainReread, RereadScalar DEF IsPlain, SameValue
<1>2. CASE v = Array(v.items) /\ v.items \in Seq(PlainValues)
  <2> DEFINE s == v.items
             t == [i \in DOMAIN s |-> FromText(s[i].type, TextOf(s[i]))]
  <2>1. v.type = "array"
    BY <1>2, ArrayParts
  <2>2. w.type = "array"
    BY <2>1, ValueIs, PlainIs DEF SameValue, SameUpToFile
  <2>3. w = Array(w.items) /\ w.items \in Seq(PlainValues)
    BY <2>2, ScalarParts DEF IsPlain, PlainValues
  <2>4. Reread(v) = Array(t)
    BY <2>1 DEF Reread
  <2>5. Len(s) = Len(w.items) /\ \A i \in DOMAIN w.items : SameUpToFile(s[i], w.items[i])
    BY <2>2 DEF SameValue
  <2>6. Len(s) \in Nat /\ DOMAIN s = 1..Len(s) /\ DOMAIN w.items = DOMAIN s
    BY <1>2, <2>3, <2>5
  <2>7. ASSUME NEW i \in DOMAIN s
        PROVE  t[i] \in PlainValues /\ SameUpToFile(t[i], w.items[i])
    <3>1. s[i] \in PlainValues /\ w.items[i] \in ScalarValues
      BY <1>2, <2>3, <2>6 DEF PlainValues
    <3> QED BY <2>5, <2>6, <3>1, PlainReread
  <2>8. t \in [1..Len(s) -> PlainValues]
    BY <2>6, <2>7
  <2> HIDE DEF t
  <2>9. t \in Seq(PlainValues) /\ Len(t) = Len(s)
    BY <2>6, <2>8
  <2> QED BY <2>2, <2>4, <2>5, <2>6, <2>7, <2>9, ArrayParts DEF IsPlain, SameValue
<1> QED BY <1>1, <1>2 DEF IsPlain

-----------------------------------------------------------------------------
(* The inductive invariant *)

\* Function api is asked for a value and sets v.
Asks(api, asked, v) ==
    \/ api = "property" /\ asked \in Scalars /\ v = asked
    \/ \E s \in Lists : /\ asked = Array(s)
                        /\ \/ api = "array" /\ v = Array([i \in DOMAIN s |-> Widened(s[i])])
                           \/ api = "struct" /\ v = asked

\* What the last set that succeeded has set.
Sought ==
    IF given.api = "array"
    THEN Array([i \in DOMAIN given.value.items |-> Widened(given.value.items[i])])
    ELSE given.value

\* The call on its way is that of the cached value.
CallInv == call # NoVariant => cached # NoValue /\ call = ToVariant(cached)

\* An array at the daemon has come over the bus.
StoredInv == stored = NoValue \/ stored \in ScalarValues \/ IsPlain(stored)

GivenInv == given # NothingGiven => Asks(given.api, given.value, Sought)

\* Without a call the daemon answers what is cached or was given.
AnsweredInv ==
    call = NoVariant /\ (cached # NoValue \/ given # NothingGiven) =>
        stored # NoValue /\ ToVariant(stored) # NoVariant

IdleInv == idle => stored # NoValue

AgreeInv == call = NoVariant /\ IsPlain(cached) => cached = FromVariant(ToVariant(stored))

\* What was given is under way, or it is what the daemon has, and what the cache
\* has as far as it has anything.
KeptInv ==
    given # NothingGiven /\ IsPlain(Sought) =>
        IF call # NoVariant THEN cached = Sought
        ELSE IsPlain(stored) \/ Sought.type = "array" =>
                 SameValue(stored, Sought) /\ cached \in {NoValue, stored}

IInv ==
    /\ TypeOK /\ CallInv /\ StoredInv /\ GivenInv
    /\ AnsweredInv /\ IdleInv /\ AgreeInv /\ KeptInv

LEMMA WidenedType ==
    ASSUME NEW v \in ScalarValues
    PROVE  Widened(v) \in ScalarValues /\ Widened(v).n = v.n
           /\ Widened(v).type = StoredAs(v.type)
<1>1. v.type \in Types /\ v.n \in RangeOf(v.type)
  BY ScalarParts
<1>2. CASE v.type = "uint16"
  <2>1. v.n \in RangeOf("uint") /\ "uint" \in Types
    BY <1>1, <1>2, RangesNest, TypesAre
  <2> QED BY <1>2, <2>1, MakeScalar DEF Widened, StoredAs
<1>3. CASE v.type = "int16"
  <2>1. v.n \in RangeOf("int") /\ "int" \in Types
    BY <1>1, <1>3, RangesNest, TypesAre
  <2> QED BY <1>3, <2>1, MakeScalar DEF Widened, StoredAs
<1>4. CASE v.type \notin Short
  BY <1>4 DEF Widened, StoredAs, Short
<1> QED BY <1>2, <1>3, <1>4 DEF Short

LEMMA WidenedItems ==
    ASSUME NEW s \in Seq(ScalarValues)
    PROVE  /\ [i \in DOMAIN s |-> Widened(s[i])] \in Seq(ScalarValues)
           /\ Len([i \in DOMAIN s |-> Widened(s[i])]) = Len(s)
<1>1. Len(s) \in Nat /\ DOMAIN s = 1..Len(s) /\ \A i \in DOMAIN s : s[i] \in ScalarValues
  OBVIOUS
<1>2. [i \in DOMAIN s |-> Widened(s[i])] \in [1..Len(s) -> ScalarValues]
  BY <1>1, WidenedType
<1> QED BY <1>1, <1>2

LEMMA AskedIs ==
    ASSUME NEW api, NEW asked, NEW v, Asks(api, asked, v)
    PROVE  IsValue(v) /\ IsValue(asked) /\ api \in {"property", "array", "struct"}
<1>1. CASE api = "property" /\ asked \in Scalars /\ v = asked
  BY <1>1, InputsAssumption DEF IsValue, IsScalar
<1>2. ASSUME NEW s \in Lists, asked = Array(s), api \in {"array", "struct"},
             v = Array([i \in DOMAIN s |-> Widened(s[i])]) \/ v = asked
      PROVE  IsValue(v) /\ IsValue(asked)
  <2>1. s \in Seq(ScalarValues)
    BY InputsAssumption
  <2> QED BY <1>2, <2>1, WidenedItems, ArrayParts DEF IsValue, IsArray
<1> QED BY <1>1, <1>2 DEF Asks

\* The next lookup.
LEMMA CachedNowIs ==
    ASSUME IInv, call = NoVariant
    PROVE  /\ CachedNow = NoValue \/ IsValue(CachedNow)
           /\ CachedNow # NoValue => stored # NoValue /\ ToVariant(stored) # NoVariant
           /\ IsPlain(CachedNow) => CachedNow = FromVariant(ToVariant(stored))
           /\ IsPlain(stored) /\ cached \in {NoValue, stored} => CachedNow = stored
<1>1. CASE cached # NoValue
  BY <1>1 DEF IInv, TypeOK, AnsweredInv, AgreeInv, CachedNow
<1>2. CASE cached = NoValue /\ stored # NoValue /\ ToVariant(stored) # NoVariant
  <2>1. IsValue(stored)
    BY <1>2 DEF IInv, TypeOK
  <2>2. CachedNow = FromVariant(ToVariant(stored))
    BY <1>2 DEF CachedNow
  <2> QED BY <1>2, <2>1, <2>2, RoundTrip, PlainIs
<1>3. CASE cached = NoValue /\ (stored = NoValue \/ ToVariant(stored) = NoVariant)
  <2>1. CachedNow = NoValue
    BY <1>3 DEF CachedNow
  <2>2. ~IsPlain(NoValue)
    BY PlainIs
  <2>3. ~IsPlain(stored)
    BY <1>3, PlainIs, ToVariantPlain
  <2> QED BY <2>1, <2>2, <2>3
<1> QED BY <1>1, <1>2, <1>3

-----------------------------------------------------------------------------
(* Every step keeps it *)

LEMMA InitEstablishes == Init => IInv
<1> SUFFICES ASSUME Init PROVE IInv
  OBVIOUS
<1>1. TypeOK
  BY DEF Init, TypeOK
<1>2. ~IsPlain(cached)
  BY PlainIs DEF Init
<1> QED BY <1>1, <1>2 DEF Init, IInv, CallInv, StoredInv, GivenInv, AnsweredInv, IdleInv,
                       AgreeInv, KeptInv

LEMMA GivenAfter ==
    ASSUME NEW api, NEW asked, NEW v, Asks(api, asked, v),
           given' = [api |-> api, value |-> asked]
    PROVE  given' # NothingGiven /\ Sought' = v /\ GivenInv'
<1>1. given'.api = api /\ given'.value = asked /\ NothingGiven.api = "none"
  BY DEF NothingGiven
<1>2. api # "none"
  BY DEF Asks
<1>3. Sought' = v
  <2>1. CASE api = "property"
    BY <1>1, <2>1 DEF Asks, Sought
  <2>2. ASSUME NEW s \in Lists, asked = Array(s),
               \/ api = "array" /\ v = Array([i \in DOMAIN s |-> Widened(s[i])])
               \/ api = "struct" /\ v = asked
        PROVE  Sought' = v
    BY <1>1, <2>2, ArrayParts DEF Sought
  <2> QED BY <2>1, <2>2 DEF Asks
<1> QED BY <1>1, <1>2, <1>3 DEF GivenInv

LEMMA GivenStays ==
    ASSUME UNCHANGED given PROVE Sought' = Sought
  BY DEF Sought

LEMMA SetKeeps ==
    ASSUME IInv, NEW api, NEW asked, NEW v, Asks(api, asked, v), SetInternal(api, asked, v)
    PROVE  IInv'
<1>1. call = NoVariant /\ UNCHANGED <<stored, idle>>
  BY DEF SetInternal
<1>2. IsValue(v)
  BY AskedIs
<1>3. StoredInv' /\ IdleInv'
  BY <1>1 DEF IInv, StoredInv, IdleInv
<1>4. CASE /\ IsEqual(CachedNow, v) /\ cached' = CachedNow
           /\ given' = [api |-> api, value |-> asked] /\ UNCHANGED <<call, old>>
  <2>1. CachedNow # NoValue
    BY <1>4, SomethingEqual
  <2>2. TypeOK' /\ CallInv'
    BY <1>1, <1>4, CachedNowIs DEF IInv, TypeOK, CallInv
  <2>3. given' # NothingGiven /\ Sought' = v /\ GivenInv'
    BY <1>4, GivenAfter
  <2>4. AnsweredInv'
    BY <1>1, <2>1, CachedNowIs DEF AnsweredInv
  <2>5. AgreeInv'
    BY <1>1, <1>4, CachedNowIs DEF AgreeInv
  <2>6. KeptInv'
    <3>1. SUFFICES ASSUME IsPlain(v), IsPlain(stored) \/ v.type = "array"
                   PROVE  SameValue(stored, v) /\ CachedNow \in {NoValue, stored}
      BY <1>1, <1>4, <2>3 DEF KeptInv
    <3>2. CachedNow = v /\ v \in PlainValues
      BY <1>1, <1>4, <3>1, EqualIsSame, CachedNowIs
    <3>3. IsPlain(stored)
      BY <3>1, <3>2, ScalarParts DEF PlainValues
    <3>4. v = FromVariant(ToVariant(stored))
      BY <1>1, <3>1, <3>2, CachedNowIs
    <3>5. v = stored
      BY <3>3, <3>4, ToVariantPlain, FromVariantPlain
    <3> QED BY <3>2, <3>5, SameAsItself
  <2> QED BY <1>3, <2>2, <2>3, <2>4, <2>5, <2>6 DEF IInv
<1>5. CASE ToVariant(v) = NoVariant /\ cached' = CachedNow /\ old' = TRUE /\ UNCHANGED <<call, given>>
  <2>1. TypeOK' /\ CallInv'
    BY <1>1, <1>5, CachedNowIs DEF IInv, TypeOK, CallInv
  <2>2. Sought' = Sought /\ GivenInv'
    BY <1>5, GivenStays DEF IInv, GivenInv
  <2>3. AnsweredInv'
    BY <1>1, <1>5, CachedNowIs DEF IInv, AnsweredInv
  <2>4. AgreeInv'
    BY <1>1, <1>5, CachedNowIs DEF AgreeInv
  <2>5. KeptInv'
    <3>1. SUFFICES ASSUME given # NothingGiven, IsPlain(Sought),
                          IsPlain(stored) \/ Sought.type = "array"
                   PROVE  SameValue(stored, Sought) /\ CachedNow \in {NoValue, stored}
      BY <1>1, <1>5, <2>2 DEF KeptInv
    <3>2. SameValue(stored, Sought) /\ cached \in {NoValue, stored}
      BY <1>1, <3>1 DEF IInv, KeptInv
    <3>3. IsPlain(stored)
      <4>1. Sought.type = "array" => stored.type = "array"
        BY <3>2 DEF SameValue
      <4>2. StoredInv
        BY DEF IInv
      <4> QED BY <3>1, <4>1, <4>2, ScalarParts, NothingParts DEF StoredInv
    <3> QED BY <1>1, <3>2, <3>3, CachedNowIs
  <2> QED BY <1>3, <2>1, <2>2, <2>3, <2>4, <2>5 DEF IInv
<1>6. CASE /\ ToVariant(v) # NoVariant /\ cached' = v /\ call' = ToVariant(v) /\ old' = TRUE
           /\ given' = [api |-> api, value |-> asked]
  <2>1. v # NoValue /\ IsValue(ToVariant(v))
    BY <1>2, <1>6, ValueIs, ToVariantType, BusIs
  <2>2. TypeOK' /\ CallInv'
    BY <1>1, <1>2, <1>6, <2>1 DEF IInv, TypeOK, CallInv
  <2>3. given' # NothingGiven /\ Sought' = v /\ GivenInv'
    BY <1>6, GivenAfter
  <2>4. AnsweredInv' /\ AgreeInv' /\ KeptInv'
    BY <1>6, <2>3 DEF AnsweredInv, AgreeInv, KeptInv
  <2> QED BY <1>3, <2>2, <2>3, <2>4 DEF IInv
<1> QED BY <1>4, <1>5, <1>6 DEF SetInternal

\* The daemon has what the call brings, whether or not it compares equal.
LEMMA HandleStores ==
    ASSUME IInv, Handle
    PROVE  /\ IsPlain(stored') /\ stored' = FromVariant(ToVariant(cached))
           /\ IsValue(cached) /\ ToVariant(cached) # NoVariant
<1>1. call # NoVariant /\ cached # NoValue /\ call = ToVariant(cached) /\ IsValue(cached)
  BY DEF Handle, IInv, TypeOK, CallInv
<1>2. IsPlain(FromVariant(call))
  BY <1>1, RoundTrip
<1>3. stored' = FromVariant(call)
  <2>1. CASE IsEqual(stored, FromVariant(call)) /\ UNCHANGED <<stored, idle>>
    <3>1. stored = NoValue \/ IsValue(stored)
      BY DEF IInv, TypeOK
    <3> QED BY <1>2, <2>1, <3>1, EqualIsSame
  <2>2. CASE stored' = FromVariant(call) /\ idle' = TRUE
    BY <2>2
  <2> QED BY <2>1, <2>2 DEF Handle
<1> QED BY <1>1, <1>2, <1>3

LEMMA HandleKeeps ==
    ASSUME IInv, Handle PROVE IInv'
<1>1. /\ IsPlain(stored') /\ stored' = FromVariant(ToVariant(cached))
      /\ IsValue(cached) /\ ToVariant(cached) # NoVariant
  BY HandleStores
<1>2. /\ call # NoVariant /\ call' = NoVariant /\ old' = FALSE
      /\ UNCHANGED <<cached, given>> /\ idle' \in {idle, TRUE}
  BY DEF Handle
<1>3. stored' # NoValue /\ IsValue(stored') /\ ToVariant(stored') = stored' /\ stored' # NoVariant
  BY <1>1, PlainIs, ToVariantPlain
<1>4. TypeOK' /\ CallInv' /\ StoredInv' /\ AnsweredInv' /\ IdleInv'
  BY <1>1, <1>2, <1>3 DEF IInv, TypeOK, CallInv, StoredInv, AnsweredInv, IdleInv
<1>5. ASSUME IsPlain(cached) PROVE stored' = cached
  BY <1>1, <1>5, RoundTrip
<1>6. AgreeInv'
  BY <1>1, <1>2, <1>3, <1>5, FromVariantPlain DEF AgreeInv
<1>7. Sought' = Sought /\ GivenInv'
  BY <1>2, GivenStays DEF IInv, GivenInv
<1>8. KeptInv'
  <2>1. SUFFICES ASSUME given # NothingGiven, IsPlain(Sought)
                 PROVE  SameValue(stored', Sought) /\ cached \in {NoValue, stored'}
    BY <1>2, <1>7 DEF KeptInv
  <2>2. cached = Sought
    BY <1>2, <2>1 DEF IInv, KeptInv
  <2> QED BY <1>5, <2>1, <2>2, SameAsItself
<1> QED BY <1>4, <1>6, <1>7, <1>8 DEF IInv

\* A signal and a get fill the cache alike.
LEMMA FillKeeps ==
    ASSUME IInv, call = NoVariant, stored # NoValue, ToVariant(stored) # NoVariant,
           cached' = FromVariant(ToVariant(stored)),
           UNCHANGED <<stored, call, old, given>>, idle' = idle \/ idle' = FALSE
    PROVE  IInv'
<1>1. IsValue(stored)
  BY DEF IInv, TypeOK
<1>2. IsPlain(cached')
  BY <1>1, RoundTrip
<1>3. IsValue(cached') /\ cached' # NoValue
  BY <1>2, PlainIs
<1>4. TypeOK' /\ CallInv' /\ StoredInv' /\ AnsweredInv' /\ IdleInv' /\ AgreeInv'
  BY <1>3 DEF IInv, TypeOK, CallInv, StoredInv, AnsweredInv, IdleInv, AgreeInv
<1>5. Sought' = Sought /\ GivenInv'
  BY GivenStays DEF IInv, GivenInv
<1>6. KeptInv'
  <2>1. SUFFICES ASSUME given # NothingGiven, IsPlain(Sought),
                        IsPlain(stored) \/ Sought.type = "array"
                 PROVE  SameValue(stored, Sought) /\ cached' \in {NoValue, stored}
    BY <1>5 DEF KeptInv
  <2>2. SameValue(stored, Sought)
    BY <2>1 DEF IInv, KeptInv
  <2>3. IsPlain(stored)
    <3>1. Sought.type = "array" => stored.type = "array"
      BY <2>2 DEF SameValue
    <3>2. StoredInv
      BY DEF IInv
    <3> QED BY <2>1, <3>1, <3>2, ScalarParts, NothingParts DEF StoredInv
  <2> QED BY <1>1, <2>2, <2>3, RoundTrip
<1> QED BY <1>4, <1>5, <1>6 DEF IInv

LEMMA SameKeeps ==
    ASSUME IInv, UNCHANGED <<stored, cached, call, old, given>>, idle' = idle \/ idle' = FALSE
    PROVE  IInv'
<1>1. Sought' = Sought
  BY GivenStays
<1>2. TypeOK' /\ IdleInv'
  <2>1. CASE UNCHANGED idle
    BY <2>1 DEF IInv, TypeOK, IdleInv
  <2>2. CASE idle' = FALSE
    BY <2>2 DEF IInv, TypeOK, IdleInv
  <2> QED BY <2>1, <2>2
<1>3. CallInv' /\ StoredInv' /\ AnsweredInv' /\ AgreeInv'
  BY DEF IInv, CallInv, StoredInv, AnsweredInv, AgreeInv
<1>4. GivenInv'
  BY <1>1 DEF IInv, GivenInv
<1>5. KeptInv'
  BY <1>1 DEF IInv, KeptInv
<1> QED BY <1>2, <1>3, <1>4, <1>5 DEF IInv

LEMMA ReceiveKeeps ==
    ASSUME IInv, Receive PROVE IInv'
<1>1. CASE old \/ ToVariant(stored) = NoVariant
  BY <1>1, SameKeeps DEF Receive
<1>2. CASE ~old /\ ToVariant(stored) # NoVariant
  <2>1. call = NoVariant /\ stored # NoValue
    BY <1>2 DEF Receive, IInv, TypeOK, IdleInv
  <2> QED BY <1>2, <2>1, FillKeeps DEF Receive
<1> QED BY <1>1, <1>2

LEMMA LookupKeeps ==
    ASSUME IInv, Lookup PROVE IInv'
<1>1. stored # NoValue /\ ToVariant(stored) # NoVariant /\ CachedNow = FromVariant(ToVariant(stored))
  BY DEF Lookup, CachedNow
<1>2. call = NoVariant
  BY DEF Lookup, IInv, CallInv
<1> QED BY <1>1, <1>2, FillKeeps DEF Lookup

LEMMA RestartKeeps ==
    ASSUME IInv, Restart PROVE IInv'
<1>1. /\ call = NoVariant /\ ~old /\ ~idle /\ stored # NoValue
      /\ stored' = Reread(stored) /\ cached' = NoValue
      /\ UNCHANGED <<call, old, idle, given>>
  BY DEF Restart, Settled
<1>2. stored \in ScalarValues \/ (IsPlain(stored) /\ stored.type = "array")
  BY <1>1, ArrayParts DEF IInv, StoredInv, IsPlain, PlainValues
<1>3. /\ stored' = NoValue \/ stored' \in ScalarValues \/ IsPlain(stored')
      /\ ToVariant(stored) # NoVariant => stored' # NoValue /\ ToVariant(stored') # NoVariant
  <2>1. CASE stored \in ScalarValues
    <3>1. stored' = NoValue \/ (stored' \in ScalarValues /\ stored'.type = stored.type)
      BY <1>1, <2>1, RereadScalar
    <3>2. ASSUME NEW v \in ScalarValues PROVE ToVariant(v) # NoVariant <=> v.type # "float"
      BY BusForm, ScalarParts DEF ToVariant
    <3> QED BY <1>1, <2>1, <3>1, <3>2, RereadStays
  <2>2. CASE IsPlain(stored) /\ stored.type = "array"
    <3>1. IsPlain(stored')
      BY <1>1, <2>2, RereadPlain, SameAsItself
    <3> QED BY <3>1, PlainIs, ToVariantPlain
  <2> QED BY <1>2, <2>1, <2>2
<1>4. TypeOK' /\ CallInv' /\ StoredInv' /\ AnsweredInv' /\ IdleInv' /\ AgreeInv'
  <2>1. stored' = NoValue \/ IsValue(stored')
    BY <1>3, PlainIs DEF IsValue, IsScalar
  <2>2. ~IsPlain(NoValue)
    BY PlainIs
  <2> QED BY <1>1, <1>3, <2>1, <2>2
          DEF IInv, TypeOK, CallInv, StoredInv, AnsweredInv, IdleInv, AgreeInv
<1>5. Sought' = Sought /\ GivenInv'
  BY <1>1, GivenStays DEF IInv, GivenInv
<1>6. KeptInv'
  <2>1. SUFFICES ASSUME given # NothingGiven, IsPlain(Sought),
                        IsPlain(stored') \/ Sought.type = "array"
                 PROVE  SameValue(stored', Sought)
    BY <1>1, <1>5 DEF KeptInv
  <2>2. IsPlain(stored)
    <3>1. CASE Sought.type = "array"
      <4>1. SameValue(stored, Sought)
        BY <1>1, <2>1, <3>1 DEF IInv, KeptInv
      <4> QED BY <1>2, <3>1, <4>1, ScalarParts DEF SameValue
    <3>2. CASE IsPlain(stored') /\ stored \in ScalarValues
      <4>1. stored' # NoValue /\ stored'.type = stored.type /\ stored' \in ScalarValues
        BY <1>1, <3>2, RereadScalar, PlainIs
      <4>2. stored'.type \in Plain
        BY <3>2, <4>1, ArrayParts DEF IsPlain, PlainValues
      <4> QED BY <3>2, <4>1, <4>2 DEF IsPlain, PlainValues
    <3> QED BY <1>2, <2>1, <3>1, <3>2
  <2>3. SameValue(stored, Sought)
    BY <1>1, <2>1, <2>2 DEF IInv, KeptInv
  <2> QED BY <1>1, <2>1, <2>2, <2>3, RereadPlain
<1> QED BY <1>4, <1>5, <1>6 DEF IInv

LEMMA EditKeeps ==
    ASSUME IInv, NEW type \in Types, NEW n \in Texts, EditFile(type, n) PROVE IInv'
<1>1. /\ call = NoVariant /\ ~old /\ ~idle
      /\ stored' = FromText(type, n) /\ cached' = NoValue /\ given' = NothingGiven
      /\ UNCHANGED <<call, old, idle>>
  BY DEF EditFile, Settled
<1>2. n \in Int /\ -MaxDouble <= 2 * n /\ 2 * n <= MaxDouble
  BY InputsAssumption
<1>3. stored' = NoValue \/ stored' \in ScalarValues
  BY <1>1, <1>2, FromTextType
<1>4. ~IsPlain(NoValue)
  BY PlainIs
<1> QED BY <1>1, <1>3, <1>4 DEF IInv, TypeOK, CallInv, StoredInv, GivenInv, AnsweredInv,
                                IdleInv, AgreeInv, KeptInv, IsValue, IsScalar

LEMMA StepKeeps == IInv /\ [Next]_vars => IInv'
<1> SUFFICES ASSUME IInv, [Next]_vars PROVE IInv'
  OBVIOUS
<1>1. ASSUME NEW v \in Scalars, SetProperty(v) PROVE IInv'
  BY <1>1, SetKeeps DEF SetProperty, Asks
<1>2. ASSUME NEW s \in Lists, SetArray(s) PROVE IInv'
  <2> DEFINE w == Array([i \in DOMAIN s |-> Widened(s[i])])
  <2>1. Asks("array", Array(s), w) /\ SetInternal("array", Array(s), w)
    BY <1>2 DEF SetArray, Asks
  <2> HIDE DEF w
  <2> QED BY <2>1, SetKeeps
<1>3. ASSUME NEW s \in Lists, SetStruct(s) PROVE IInv'
  <2>1. Asks("struct", Array(s), Array(s)) /\ SetInternal("struct", Array(s), Array(s))
    BY <1>3 DEF SetStruct, Asks
  <2> QED BY <2>1, SetKeeps
<1>4. CASE UNCHANGED vars
  BY <1>4, SameKeeps DEF vars
<1> QED BY <1>1, <1>2, <1>3, <1>4, HandleKeeps, ReceiveKeeps, LookupKeeps, RestartKeeps, EditKeeps
        DEF Next

LEMMA AlwaysIInv == Spec => []IInv
  BY InitEstablishes, StepKeeps, PTL DEF Spec

-----------------------------------------------------------------------------
(* What it gives *)

LEMMA PlainTypesWidened ==
    ASSUME NEW type \in Plain \cup Short
    PROVE  StoredAs(type) \in Plain /\ (StoredAs(type) = "double" <=> type = "double")
  BY PlainTypes DEF StoredAs, Short

LEMMA SettledReads ==
    ASSUME IInv PROVE SetsReadBack
<1> SUFFICES ASSUME given.api = "property", given.value.type \in Plain, ~old,
                    stored # NoValue => stored.type \in Plain
             PROVE  /\ GetTyped(given.value.type) # NoValue
                    /\ SameUpToFile(GetTyped(given.value.type), given.value)
  BY DEF SetsReadBack
<1>1. given # NothingGiven /\ call = NoVariant
  BY DEF NothingGiven, IInv, TypeOK
<1>2. Sought = given.value /\ given.value \in ScalarValues
  BY <1>1, InputsAssumption DEF Sought, IInv, GivenInv, Asks
<1>3. IsPlain(Sought) /\ given.value.type # "array"
  BY <1>2, ScalarParts DEF IsPlain, PlainValues
<1>4. stored # NoValue /\ IsPlain(stored)
  <2>1. stored # NoValue /\ IsValue(stored)
    BY <1>1 DEF IInv, AnsweredInv, TypeOK
  <2> QED BY <2>1, PlainByType DEF IsPlain
<1>5. SameValue(stored, given.value) /\ cached \in {NoValue, stored}
  BY <1>1, <1>2, <1>3, <1>4 DEF IInv, KeptInv
<1>6. Current = stored
  BY <1>1, <1>4, <1>5, CachedNowIs DEF Current
<1>7. SameUpToFile(stored, given.value)
  BY <1>3, <1>5 DEF SameValue
<1> QED BY <1>4, <1>6, <1>7 DEF GetTyped, SameUpToFile

\* An array that was given is there to be read at any time.
LEMMA ArrayIsThere ==
    ASSUME IInv, given # NothingGiven, IsPlain(Sought), Sought.type = "array"
    PROVE  /\ Current # NoValue /\ Current.type = "array"
           /\ Current.items \in Seq(PlainValues) /\ SameValue(Current, Sought)
<1>1. CASE call # NoVariant
  <2>1. cached = Sought /\ cached # NoValue
    BY <1>1, PlainIs DEF IInv, KeptInv
  <2>2. Current = Sought
    BY <2>1 DEF Current, CachedNow
  <2> QED BY <2>1, <2>2, SameAsItself, ScalarParts DEF IsPlain, PlainValues
<1>2. CASE call = NoVariant
  <2>1. SameValue(stored, Sought) /\ cached \in {NoValue, stored} /\ StoredInv
    BY <1>2 DEF IInv, KeptInv
  <2>2. stored.type = "array"
    BY <2>1 DEF SameValue
  <2>3. IsPlain(stored)
    BY <2>1, <2>2, ScalarParts, NothingParts DEF StoredInv
  <2>4. Current = stored
    BY <1>2, <2>1, <2>3, CachedNowIs DEF Current
  <2> QED BY <2>1, <2>2, <2>3, <2>4, PlainIs, ScalarParts DEF IsPlain, PlainValues
<1> QED BY <1>1, <1>2

LEMMA GivenList ==
    ASSUME IInv, given.api \in {"array", "struct"}
    PROVE  /\ given # NothingGiven
           /\ given.value.items \in Seq(ScalarValues) \ {<<>>}
           /\ Sought = Array(IF given.api = "array"
                             THEN [i \in DOMAIN given.value.items |-> Widened(given.value.items[i])]
                             ELSE given.value.items)
<1>1. given # NothingGiven
  BY DEF NothingGiven
<1>2. Asks(given.api, given.value, Sought)
  BY <1>1 DEF IInv, GivenInv
<1>3. PICK s \in Lists : given.value = Array(s)
  BY <1>2 DEF Asks
<1>4. given.value.items = s
  BY <1>3, ArrayParts
<1> QED BY <1>1, <1>3, <1>4, InputsAssumption DEF Sought

\* An item of the type that is stored for v's is fetched as v.
LEMMA FetchedSame ==
    ASSUME NEW v \in ScalarValues, v.type \in Plain \cup Short, NEW item,
           item.type = StoredAs(v.type),
           item.n = v.n \/ (item.type = "double" /\ item.n = 2 * (v.n \div 2))
    PROVE  SameUpToFile(Scalar(v.type, Fetched(v.type, item)), v)
<1>1. v.n \in RangeOf(v.type)
  BY ScalarParts
<1>2. CASE v.type \in Short
  <2>1. v.type \in Whole /\ item.type \in {"int", "uint"} /\ item.n = v.n
    BY <1>2, WholeTypes DEF StoredAs, Short, Whole
  <2>2. Wrap(v.type, item.n) = v.n
    BY <1>1, <2>1, WrapKeeps
  <2> QED BY <1>2, <2>1, <2>2 DEF Fetched, Scalar, SameUpToFile, Short
<1>3. CASE v.type \notin Short
  <2>1. item.type = v.type /\ Fetched(v.type, item) = item.n
    BY <1>3 DEF StoredAs, Short, Fetched
  <2> QED BY <2>1 DEF Scalar, SameUpToFile
<1> QED BY <1>2, <1>3

LEMMA AlwaysArrays ==
    ASSUME IInv PROVE ArraysReadBack
<1> DEFINE s == given.value.items
           w == [i \in DOMAIN s |-> Widened(s[i])]
<1>1. ASSUME given.api \in {"array", "struct"}
      PROVE  /\ s \in Seq(ScalarValues) /\ s # <<>>
             /\ Len(s) \in Nat /\ Len(s) # 0 /\ DOMAIN s = 1..Len(s)
             /\ \A i \in DOMAIN s : s[i] \in ScalarValues
             /\ Len(GivenTypes) = Len(s)
             /\ \A i \in DOMAIN s : GivenTypes[i] = s[i].type /\ s[i].type \in ToSet(GivenTypes)
  <2>1. s \in Seq(ScalarValues) /\ s # <<>>
    BY <1>1, GivenList
  <2>2. /\ Len(s) \in Nat /\ Len(s) # 0 /\ DOMAIN s = 1..Len(s)
        /\ \A i \in DOMAIN s : s[i] \in ScalarValues
    BY <2>1
  <2>3. GivenTypes = [i \in 1..Len(s) |-> s[i].type]
    BY <2>2 DEF GivenTypes
  <2> QED BY <2>1, <2>2, <2>3 DEF ToSet
<1>2. ASSUME GivenBy("array") PROVE ReadsBack(GetArray(GivenTypes))
  <2>1. given.api = "array" /\ ToSet(GivenTypes) \subseteq Plain \cup Short
    BY <1>2 DEF GivenBy
  <2>2. ASSUME NEW i \in DOMAIN s
        PROVE  /\ w[i] \in PlainValues /\ w[i].n = s[i].n /\ w[i].type = StoredAs(s[i].type)
               /\ w[i].type = "double" <=> s[i].type = "double"
    <3>1. s[i] \in ScalarValues /\ s[i].type \in Plain \cup Short
      BY <1>1, <2>1
    <3> QED BY <3>1, WidenedType, PlainTypesWidened DEF PlainValues
  <2>3. w \in Seq(PlainValues) /\ Len(w) = Len(s) /\ DOMAIN w = DOMAIN s
    <3>1. w \in [1..Len(s) -> PlainValues]
      BY <1>1, <2>1, <2>2
    <3> HIDE DEF w
    <3> QED BY <1>1, <2>1, <3>1
  <2>4. Sought = Array(w) /\ given # NothingGiven
    BY <2>1, GivenList
  <2> HIDE DEF s, w
  <2> DEFINE arr == Current.items
             types == GivenTypes
  <2>5. Sought.items = w /\ Sought.type = "array" /\ IsPlain(Sought)
    BY <2>3, <2>4, ArrayParts DEF IsPlain
  <2>6. Current # NoValue /\ Current.type = "array" /\ arr \in Seq(PlainValues)
        /\ SameValue(Current, Sought)
    BY <2>4, <2>5, ArrayIsThere
  <2>7. GetArrayv = arr
    BY <2>6 DEF GetArrayv
  <2>8. /\ Len(arr) = Len(s) /\ arr # <<>> /\ DOMAIN arr = DOMAIN s
        /\ \A i \in DOMAIN s : SameUpToFile(arr[i], w[i])
    BY <1>1, <2>1, <2>3, <2>5, <2>6 DEF SameValue
  <2>9. GetArray(types) = [i \in DOMAIN arr |-> Scalar(types[i], Fetched(types[i], arr[i]))]
    <3>1. \A i \in DOMAIN arr : arr[i].type \in {types[i], StoredAs(types[i])}
      BY <1>1, <2>1, <2>2, <2>8 DEF SameUpToFile
    <3> HIDE DEF arr, types
    <3> QED BY <1>1, <2>1, <2>7, <2>8, <3>1 DEF GetArray, types
  <2>10. ASSUME NEW i \in DOMAIN s
         PROVE  SameUpToFile(Scalar(types[i], Fetched(types[i], arr[i])), s[i])
    <3>1. s[i] \in ScalarValues /\ s[i].type \in Plain \cup Short /\ types[i] = s[i].type
      BY <1>1, <2>1
    <3>2. /\ arr[i].type = StoredAs(s[i].type)
          /\ arr[i].n = s[i].n \/ (arr[i].type = "double" /\ arr[i].n = 2 * (s[i].n \div 2))
      BY <2>2, <2>8 DEF SameUpToFile
    <3> QED BY <3>1, <3>2, FetchedSame
  <2>11. Len(GetArray(types)) = Len(s) /\ DOMAIN GetArray(types) = DOMAIN s
    BY <1>1, <2>1, <2>8, <2>9
  <2>12. \A i \in DOMAIN GetArray(types) : SameUpToFile(GetArray(types)[i], s[i])
    BY <2>8, <2>9, <2>10, <2>11
  <2> QED BY <2>11, <2>12 DEF ReadsBack, s
<1>3. ASSUME GivenBy("struct"), ToSet(GivenTypes) \subseteq Plain
      PROVE  ReadsBack(GetStruct(GivenTypes))
  <2>1. given.api = "struct"
    BY <1>3 DEF GivenBy
  <2>2. ASSUME NEW i \in DOMAIN s
        PROVE  s[i] \in PlainValues /\ StoredAs(s[i].type) = s[i].type
    BY <1>1, <1>3, <2>1, PlainTypes DEF PlainValues, StoredAs
  <2>3. s \in Seq(PlainValues)
    BY <1>1, <2>1, <2>2
  <2>4. Sought = Array(s) /\ given # NothingGiven
    BY <2>1, GivenList
  <2> HIDE DEF s
  <2> DEFINE arr == Current.items
             types == GivenTypes
  <2>5. Sought.items = s /\ Sought.type = "array" /\ IsPlain(Sought)
    BY <2>3, <2>4, ArrayParts DEF IsPlain
  <2>6. Current # NoValue /\ Current.type = "array" /\ arr \in Seq(PlainValues)
        /\ SameValue(Current, Sought)
    BY <2>4, <2>5, ArrayIsThere
  <2>7. GetArrayv = arr
    BY <2>6 DEF GetArrayv
  <2>8. /\ Len(arr) = Len(s) /\ arr # <<>> /\ DOMAIN arr = DOMAIN s
        /\ \A i \in DOMAIN s : SameUpToFile(arr[i], s[i])
    BY <1>1, <2>1, <2>5, <2>6 DEF SameValue
  <2>9. GetStruct(types) = [i \in DOMAIN arr |-> Scalar(types[i], Fetched(types[i], arr[i]))]
    <3>1. \A i \in DOMAIN arr : arr[i].type = StoredAs(types[i])
      BY <1>1, <2>1, <2>2, <2>8 DEF SameUpToFile
    <3> HIDE DEF arr, types
    <3> QED BY <1>1, <2>1, <2>7, <2>8, <3>1 DEF GetStruct, types
  <2>10. ASSUME NEW i \in DOMAIN s
         PROVE  SameUpToFile(Scalar(types[i], Fetched(types[i], arr[i])), s[i])
    <3>1. s[i] \in ScalarValues /\ s[i].type \in Plain \cup Short /\ types[i] = s[i].type
      BY <1>1, <1>3, <2>1
    <3>2. /\ arr[i].type = StoredAs(s[i].type)
          /\ arr[i].n = s[i].n \/ (arr[i].type = "double" /\ arr[i].n = 2 * (s[i].n \div 2))
      BY <2>2, <2>8 DEF SameUpToFile
    <3> QED BY <3>1, <3>2, FetchedSame
  <2>11. Len(GetStruct(types)) = Len(s) /\ DOMAIN GetStruct(types) = DOMAIN s
    BY <1>1, <2>1, <2>8, <2>9
  <2>12. \A i \in DOMAIN GetStruct(types) : SameUpToFile(GetStruct(types)[i], s[i])
    BY <2>8, <2>9, <2>10, <2>11
  <2> QED BY <2>11, <2>12 DEF ReadsBack, s
<1> QED BY <1>2, <1>3 DEF ArraysReadBack

LEMMA NumbersKept ==
    ASSUME IInv PROVE ConversionsKeepTheNumber
<1> SUFFICES ASSUME NEW type \in Whole \ Short, GetProperty(type).ok,
                    Current.type \in (Whole \ Short) \cup {"string"},
                    Current.n \in RangeOf(type)
             PROVE  GetProperty(type).value.n = Current.n
  BY DEF ConversionsKeepTheNumber
<1>1. Current.type # "array" /\ Current # NoValue /\ Current.type \notin Fractions
  BY NothingParts, WholeTypes DEF Whole, Fractions
<1>2. GetProperty(type) = Transform(Current, type)
  BY <1>1 DEF GetProperty
<1>3. type \notin Fractions \cup {"bool", "string"}
  BY WholeTypes DEF Whole, Fractions
<1>4. CASE Current.type = type
  BY <1>1, <1>2, <1>4 DEF Transform
<1>5. CASE Current.type # type /\ Current.type = "string"
  <2>1. ~Transform(Current, type).ok
    BY <1>1, <1>5 DEF Transform, Short
  <2> QED BY <1>2, <2>1
<1>6. CASE Current.type # type /\ Current.type \in Whole \ Short
  <2>1. Current.type # "string"
    BY <1>6, WholeTypes DEF Whole
  <2>2. Transform(Current, type) = [ok |-> TRUE, value |-> Scalar(type, Wrap(type, Current.n))]
    BY <1>1, <1>3, <1>6, <2>1 DEF Transform
  <2>3. Wrap(type, Current.n) = Current.n
    BY WrapKeeps
  <2> QED BY <1>2, <2>2, <2>3 DEF Scalar
<1> QED BY <1>4, <1>5, <1>6

LEMMA CacheAnswers ==
    ASSUME IInv PROVE CacheAgrees
<1> SUFFICES ASSUME Settled, cached # NoValue, cached.type \in Plain
             PROVE  cached = FromVariant(ToVariant(stored))
  BY DEF CacheAgrees
<1>1. IsValue(cached) /\ call = NoVariant
  BY DEF IInv, TypeOK, Settled
<1>2. IsPlain(cached)
  BY <1>1, PlainByType DEF IsPlain
<1> QED BY <1>1, <1>2 DEF IInv, AgreeInv

\* Every variable holds a value of a type that exists, within its range, however
\* often and at whatever bound it was converted
\* (esconf_gvalue_to_gvariant, _esconf_gvalue_from_string).
THEOREM ValueTypes == Spec => []TypeOK
<1>1. IInv => TypeOK
  BY DEF IInv
<1> QED BY <1>1, AlwaysIInv, PTL

\* A typed get returns what was set, once the daemon has it, up to the digits
\* that a file drops (esconf_channel_set_int, esconf_channel_get_int).
THEOREM SetsAlwaysReadBack == Spec => []SetsReadBack
  BY AlwaysIInv, SettledReads, PTL

\* Arrays are read with the types that they were set with, shorts among them,
\* and so are structs without shorts
\* (esconf_channel_set_array_valist, esconf_channel_get_array_valist).
THEOREM ArraysAlwaysReadBack == Spec => []ArraysReadBack
  BY AlwaysIInv, AlwaysArrays, PTL

\* Between calls the cache answers as the daemon would
\* (esconf_cache_set, esconf_cache_lookup).
THEOREM CacheAlwaysAgrees == Spec => []CacheAgrees
  BY AlwaysIInv, CacheAnswers, PTL

\* A conversion to a type in which the number has room keeps the number
\* (esconf_channel_get_property).
THEOREM NumbersAlwaysKept == Spec => []ConversionsKeepTheNumber
  BY AlwaysIInv, NumbersKept, PTL
=============================================================================
