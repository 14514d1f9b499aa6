----------------------------- MODULE Accessors -----------------------------
(***************************************************************************)
(* One property and the typed functions of EsconfChannel that set and get  *)
(* it (esconf/esconf-channel.c), on its way through the client's cache,    *)
(* the D-Bus, the daemon and the file.                                     *)
(*                                                                         *)
(* What messages may overtake each other is the matter of module           *)
(* ClientCache; here one call is under way at a time.                      *)
(***************************************************************************)
EXTENDS GValues

CONSTANTS Scalars,  \* the scalars applications set
          Lists,    \* the arrays and structs they set, as sequences of scalars
          Texts     \* what is spelled in a file that is edited by hand

ASSUME InputsAssumption ==
    /\ Scalars \subseteq ScalarValues
    /\ Lists \subseteq Seq(ScalarValues) \ {<<>>}
    /\ \A n \in Texts : n \in Int /\ -MaxDouble <= 2 * n /\ 2 * n <= MaxDouble

VARIABLES stored,  \* the daemon's value
          cached,  \* the client's value, or NoValue when it is not in the cache
          call,    \* the set on its way to the daemon
          old,     \* there is an item in old_properties
          idle,    \* the daemon has a signal to emit
          given    \* the last set that succeeded: who made it, and of what

vars == <<stored, cached, call, old, idle, given>>

IsValue(v) == IsScalar(v) \/ IsArray(v)

TypeOK ==
    /\ stored = NoValue \/ IsValue(stored)
    /\ cached = NoValue \/ IsValue(cached)
    /\ call = NoVariant \/ IsValue(call)
    /\ call # NoVariant => old
    /\ idle \in BOOLEAN

\* No set has succeeded since the file was last edited by hand.
NothingGiven == [api |-> "none", value |-> NoValue]

\* Nothing is under way.
Settled == call = NoVariant /\ ~old /\ ~idle

-----------------------------------------------------------------------------
(* Setting *)

\* esconf_cache_set when the value is not cached looks it up first, and gives
\* up on any error but "does not exist".
LooksUp == cached = NoValue /\ stored # NoValue => ToVariant(stored) # NoVariant

\* What a lookup leaves in the cache.
CachedNow ==
    IF cached # NoValue THEN cached
    ELSE IF stored = NoValue \/ ToVariant(stored) = NoVariant THEN NoValue
    ELSE FromVariant(ToVariant(stored))

\* esconf_channel_set_internal of v, to which the function api has converted
\* what it was asked to set.
SetInternal(api, asked, v) ==
    /\ call = NoVariant /\ LooksUp
    /\ IF IsEqual(CachedNow, v)
       THEN /\ cached' = CachedNow
            /\ given' = [api |-> api, value |-> asked]
            /\ UNCHANGED <<call, old>>
       ELSE IF ToVariant(v) = NoVariant
       THEN /\ cached' = CachedNow
            /\ old' = TRUE
            /\ UNCHANGED <<call, given>>
       ELSE /\ cached' = v
            /\ call' = ToVariant(v)
            /\ old' = TRUE
            /\ given' = [api |-> api, value |-> asked]
    /\ UNCHANGED <<stored, idle>>

\* esconf_channel_set_property, and esconf_channel_set_int and the like.
SetProperty(v) == SetInternal("property", v, v)

\* Mutant of SetArray: values of 16 bits are sent as what they are.
SetArrayAsGiven(s) == SetInternal("array", Array(s), Array(s))

\* "uint16 is stored as uint", and int16 as int.
Widened(v) ==
    CASE v.type = "uint16" -> Scalar("uint", v.n)
      [] v.type = "int16" -> Scalar("int", v.n)
      [] OTHER -> v

\* esconf_channel_set_array_valist
SetArray(s) == SetInternal("array", Array(s), Array([i \in DOMAIN s |-> Widened(s[i])]))

\* esconf_channel_set_structv: its comment leaves the conversion to
\* esconf_channel_set_arrayv, which does none.
SetStruct(s) == SetInternal("struct", Array(s), Array(s))

-----------------------------------------------------------------------------
(* The daemon and the signals *)

\* esconf_set_property and the backend's set; the reply removes the old item.
Handle ==
    /\ call # NoVariant
    /\ LET v == FromVariant(call)
       IN  IF IsEqual(stored, v) THEN UNCHANGED <<stored, idle>>
           ELSE stored' = v /\ idle' = TRUE
    /\ call' = NoVariant
    /\ old' = FALSE
    /\ UNCHANGED <<cached, given>>

\* The daemon reads the value again and emits PropertyChanged; the client
\* ignores it while a set of its own is under way.
Receive ==
    /\ idle
    /\ idle' = FALSE
    /\ IF old \/ ToVariant(stored) = NoVariant THEN UNCHANGED cached
       ELSE cached' = FromVariant(ToVariant(stored))
    /\ UNCHANGED <<stored, call, old, given>>

\* A get of any kind while the property is not cached.
Lookup ==
    /\ cached = NoValue /\ CachedNow # NoValue
    /\ cached' = CachedNow
    /\ UNCHANGED <<stored, call, old, idle, given>>

\* What a file holds, read again.
Reread(v) ==
    IF v.type # "array" THEN FromText(v.type, TextOf(v))
    ELSE Array([i \in DOMAIN v.items |-> FromText(v.items[i].type, TextOf(v.items[i]))])

\* Something in the channel changed, so the daemon writes its file, and everything
\* is started again.
Restart ==
    /\ Settled /\ stored # NoValue
    /\ stored' = Reread(stored)
    /\ cached' = NoValue
    /\ UNCHANGED <<call, old, idle, given>>

\* Nothing runs; someone edits the file, and everything is started again.
EditFile(type, n) ==
    /\ Settled
    /\ stored' = FromText(type, n)
    /\ cached' = NoValue
    /\ given' = NothingGiven
    /\ UNCHANGED <<call, old, idle>>

-----------------------------------------------------------------------------
(* Getting *)

\* What the next lookup returns.
Current == CachedNow

\* esconf_channel_get_int and the like: the type has to be right.
GetTyped(type) ==
    IF Current # NoValue /\ Current.type = type THEN Current ELSE NoValue

\* What a conversion that failed leaves behind.
Failed == [ok |-> FALSE, value |-> NoValue]

\* esconf_transform_array: every item has to convert.
TransformArray(items, type) ==
    LET out == [i \in DOMAIN items |-> Transform(items[i], type)]
    IN  IF out # <<>> /\ \A i \in DOMAIN out : out[i].ok
        THEN [ok |-> TRUE, value |-> Array([i \in DOMAIN out |-> out[i].value])]
        ELSE Failed

\* esconf_channel_get_property into a value of the type.
GetProperty(type) ==
    IF Current = NoValue THEN Failed
    ELSE IF Current.type = "array" THEN TransformArray(Current.items, type)
    ELSE Transform(Current, type)

\* esconf_channel_get_arrayv
GetArrayv == IF Current # NoValue /\ Current.type = "array" THEN Current.items ELSE <<>>

\* Mutant of StoredAs: a signed short is looked for among the unsigned.
StoredAsUint(type) == IF type \in Short THEN "uint" ELSE type

\* "uint16/int16 are stored as uint/int".
StoredAs(type) ==
    CASE type = "uint16" -> "uint" [] type = "int16" -> "int" [] OTHER -> type

\* An item put into a variable of the type: g_value_get_uint and g_value_get_int
\* for 16 bits, which give 0 for an item that has this type itself.
Fetched(type, item) ==
    IF type \notin Short THEN item.n ELSE IF item.type = type THEN 0 ELSE Wrap(type, item.n)

\* esconf_channel_get_array_valist with variables of these types: what they
\* hold when it succeeds.
GetArray(types) ==
    LET arr == GetArrayv
    IN  IF /\ arr # <<>> /\ Len(arr) = Len(types)
           /\ \A i \in DOMAIN arr : arr[i].type \in {types[i], StoredAs(types[i])}
        THEN [i \in DOMAIN arr |-> Scalar(types[i], Fetched(types[i], arr[i]))]
        ELSE <<>>

\* esconf_channel_get_structv: the types that are stored, and no others.
GetStruct(types) ==
    LET arr == GetArrayv
    IN  IF /\ arr # <<>> /\ Len(arr) = Len(types)
           /\ \A i \in DOMAIN arr : arr[i].type = StoredAs(types[i])
        THEN [i \in DOMAIN arr |-> Scalar(types[i], Fetched(types[i], arr[i]))]
        ELSE <<>>

-----------------------------------------------------------------------------
Init ==
    /\ stored = NoValue /\ cached = NoValue /\ given = NothingGiven
    /\ call = NoVariant /\ old = FALSE /\ idle = FALSE

Next ==
    \/ \E v \in Scalars : SetProperty(v)
    \/ \E s \in Lists : SetArray(s) \/ SetStruct(s)
    \/ Handle \/ Receive \/ Lookup \/ Restart
    \/ \E type \in Types, n \in Texts : EditFile(type, n)

Spec == Init /\ [][Next]_vars

-----------------------------------------------------------------------------
(* Correctness *)

\* The types that both the D-Bus and the file have.
Plain == Types \ (Short \cup {"char", "float"})

\* v is w, but for digits that a file drops.
SameUpToFile(v, w) == v.type = w.type /\ (v.n = w.n \/ (v.type = "double" /\ v.n = 2 * (w.n \div 2)))

\* A value that was set is what the getter of its type returns, once the daemon
\* has it, after its echo and after a restart, at every boundary of its type
\* (esconf_channel_set_property, esconf_channel_get_int and the like).
SetsReadBack ==
    given.api = "property" /\ given.value.type \in Plain
    /\ ~old /\ (stored # NoValue => stored.type \in Plain) =>
        LET got == GetTyped(given.value.type)
        IN  got # NoValue /\ SameUpToFile(got, given.value)

\* The types of the items given.
GivenTypes == [i \in DOMAIN given.value.items |-> given.value.items[i].type]

ReadsBack(got) ==
    /\ Len(got) = Len(given.value.items)
    /\ \A i \in DOMAIN got : SameUpToFile(got[i], given.value.items[i])

GivenBy(api) ==
    given.api = api /\ ToSet(GivenTypes) \subseteq Plain \cup Short

\* An array of values of these types reads back with the same types, shorts
\* among them, at any time, and so does a struct without shorts
\* (esconf_channel_set_array, esconf_channel_get_array, esconf_channel_get_structv
\* and what they say of uint16 and int16).
ArraysReadBack ==
    /\ GivenBy("array") => ReadsBack(GetArray(GivenTypes))
    /\ GivenBy("struct") /\ ToSet(GivenTypes) \subseteq Plain => ReadsBack(GetStruct(GivenTypes))

\* With nothing under way the cache holds what the daemon would answer, and a
\* type the bus does not know at least in the answer's number
\* (esconf_cache_set, whose value does not pass through the bus).
CacheAgrees ==
    Settled /\ cached # NoValue /\ cached.type \in Plain =>
        cached = FromVariant(ToVariant(stored))

\* A get that converts either fails or returns the number, unless the number
\* does not fit the type, one of the types has 16 bits, or it is a number with
\* a fraction (esconf_channel_get_property).
ConversionsKeepTheNumber ==
    \A type \in Whole \ Short :
        LET got == GetProperty(type)
        IN  got.ok /\ Current.type \in (Whole \ Short) \cup {"string"}
            /\ Current.n \in RangeOf(type) => got.value.n = Current.n
=============================================================================
