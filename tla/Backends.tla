------------------------------ MODULE Backends ------------------------------
(***************************************************************************)
(* The method handlers of esconfd over a list of backends (esconfd/        *)
(* esconf-daemon.c), and the checks of names that stand before every       *)
(* backend (esconfd/esconf-backend.c).  Each backend is reduced to one     *)
(* channel: what module ConfigStore promises of it.                        *)
(***************************************************************************)
EXTENDS Naturals, FiniteSetsExt, SequencesExt

CONSTANTS Backends,       \* how many there are; the first one is written to
          Names,          \* property names in calls: sequences of characters
          PropertyChars,  \* the characters a property name may have
          ChannelChars,   \* the characters a channel name may have
          Channel,        \* the channel of the calls: a sequence of characters
          Values, None,
          Incomparable,   \* values _esconf_gvalue_is_equal tells from themselves
          Default,        \* backend -> property -> system default, or None
          Locked          \* backend -> the properties it keeps locked

ASSUME BackendsAssumption ==
    /\ Backends \in Nat \ {0}
    /\ None \notin Values /\ Incomparable \subseteq Values
    /\ Default \in [1..Backends -> [Names -> Values \cup {None}]]
    /\ Locked \in [1..Backends -> SUBSET Names]

VARIABLE user  \* backend -> property -> user value, or None

-----------------------------------------------------------------------------
(* Names *)

\* esconf_property_is_valid
PropertyIsValid(name) ==
    /\ Len(name) > 1 /\ name[1] = "/"
    /\ \A i \in 2..Len(name) : name[i] \in PropertyChars
    /\ \A i \in 2..Len(name) : ~(name[i] = "/" /\ name[i - 1] = "/")
    /\ Last(name) # "/"

\* esconf_channel_is_valid
ChannelIsValid(name) == name # <<>> /\ ToSet(name) \subseteq ChannelChars

IsRoot(name) == name \in {<<>>, <<"/">>}

\* What esconf_backend_get, _set, _exists and _is_property_locked let through.
Valid(name) == ChannelIsValid(Channel) /\ PropertyIsValid(name)

\* What esconf_backend_reset lets through: the root must be reset recursively.
ValidBase(name, recursive) ==
    ChannelIsValid(Channel) /\ (IF IsRoot(name) THEN recursive ELSE PropertyIsValid(name))

\* The properties at and below a base.
Under(base) ==
    {n \in Names : IsRoot(base) \/ n = base \/ IsPrefix(base \o <<"/">>, n)}

-----------------------------------------------------------------------------
(* Queries *)

\* What a backend holds.
Value(u, b, n) == IF u[b][n] # None THEN u[b][n] ELSE Default[b][n]

Holding(u, n) == {b \in 1..Backends : Valid(n) /\ Value(u, b, n) # None}

\* esconf_get_property: the first backend with a value; None for an error.
GetReply(u, n) == IF Holding(u, n) = {} THEN None ELSE Value(u, Min(Holding(u, n)), n)

\* esconf_get_all_properties of the channel: the backends put their values into
\* one table, the later over the earlier.
GetAllReply(u, n) == IF Holding(u, n) = {} THEN None ELSE Value(u, Max(Holding(u, n)), n)

\* esconf_property_exists
ExistsReply(u, n) == \E b \in 1..Backends : Valid(n) /\ Value(u, b, n) # None

\* esconf_is_property_locked
LockedReply(n) == Valid(n) /\ \E b \in 1..Backends : n \in Locked[b]

-----------------------------------------------------------------------------
(* Changes *)

\* Mutant of MaySet: only the backend that is written to is asked.
MaySetFirst(n) == Valid(n) /\ n \notin Locked[1]

\* esconf_set_property asks every backend whether the property is locked, if
\* there are several; the set of the first backend asks again.
MaySet(n) ==
    /\ Valid(n)
    /\ Backends > 1 => \A b \in 1..Backends : n \notin Locked[b]
    /\ n \notin Locked[1]

Same(v, w) == v = w /\ v \notin Incomparable

\* esconf_set_property: what the backends hold afterwards.
AfterSet(u, n, v) ==
    IF MaySet(n) /\ ~Same(Value(u, 1, n), v) THEN [u EXCEPT ![1][n] = v] ELSE u

\* The properties a reset names in every backend.
ResetScope(base, recursive) ==
    IF ~ValidBase(base, recursive) THEN {} ELSE IF recursive THEN Under(base) ELSE {base}

\* A backend knows the property that a reset names: a value, a lock, or one of
\* them below it.
Knows(u, b, base) ==
    \E n \in Under(base) : Value(u, b, n) # None \/ n \in Locked[b]

\* esconf_backend_reset: it fails where there is no such property.
Resets(u, b, base, recursive) ==
    ValidBase(base, recursive) /\ (IsRoot(base) \/ Knows(u, b, base))

\* esconf_reset_property: the reset goes to every backend, and one that fails
\* keeps none of the others from it (the reply reaches no tool's decision).
AfterReset(u, base, recursive) ==
    [b \in 1..Backends |->
        IF Resets(u, b, base, recursive)
        THEN [n \in Names |-> IF n \in ResetScope(base, recursive) THEN None ELSE u[b][n]]
        ELSE u[b]]
=============================================================================
