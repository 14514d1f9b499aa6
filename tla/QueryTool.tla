----------------------------- MODULE QueryTool -----------------------------
(***************************************************************************)
(* The command line tool (esconf-query/main.c): short-lived clients of the *)
(* daemon of module Backends.  A tool reads all values when it creates its *)
(* channel (esconf_cache_prefetch), decides from this copy, and sends one  *)
(* call at most, which the daemon may handle after the tool has gone: it   *)
(* runs no main loop, so that no reply and no signal ever reaches it.      *)
(* Listing, monitoring and printing change nothing and end in Decide.      *)
(***************************************************************************)
EXTENDS Backends

CONSTANTS Tools,     \* processes that run the tool, one command after the other
          Commands,  \* the command lines they are started with
          Readable,  \* <<type, text>> that _esconf_gvalue_from_string converts
          StoredBefore  \* the values there may be at first

VARIABLES tool,  \* process -> what it does
          held   \* process -> what its property has been since it was started

queryVars == <<user, tool, held>>

\* A command line: the values of -p, -s and -t, and the flags.
Command == [property : Names \cup {<<>>}, set_value : Seq(STRING), type : Seq(STRING),
            create : BOOLEAN, reset : BOOLEAN, recursive : BOOLEAN, toggle : BOOLEAN,
            list : BOOLEAN, force_array : BOOLEAN]

\* A GValue: one scalar, or an array of them.
Scalar(type, text) == [array |-> FALSE, items |-> <<<<type, text>>>>]
TypeOf(value) == value.items[1][1]

ASSUME QueryAssumption ==
    /\ Commands \subseteq Command
    /\ Readable \subseteq STRING \X STRING
    /\ StoredBefore \subseteq Values
    /\ <<>> \notin Names

\* A scalar is one item, and there are two booleans.
IsGValue(v) ==
    /\ v \in [array : BOOLEAN, items : Seq(STRING \X STRING)]
    /\ ~v.array => Len(v.items) = 1
    /\ ~v.array /\ TypeOf(v) = "gboolean" => v.items[1][2] \in {"true", "false"}

NoTool == [pc |-> "idle"]
Running == [pc : {"started", "checked", "sent"}, command : Commands,
            cached : Values \cup {None}, value : Values \cup {None}]

QueryTypeOK ==
    /\ user \in [1..Backends -> [Names -> Values \cup {None}]]
    /\ tool \in [Tools -> {NoTool} \cup Running]
    /\ held \in [Tools -> SUBSET (Values \cup {None})]
    /\ \A t \in Tools : tool[t].pc = "sent" => tool[t].value # None

\* The backends have loaded what their users set before; none holds a user
\* value of a property it keeps locked.
QueryInit ==
    /\ user \in [1..Backends -> [Names -> StoredBefore \cup {None}]]
    /\ \A b \in 1..Backends, n \in Names : user[b][n] # None => Valid(n) /\ n \notin Locked[b]
    /\ tool = [t \in Tools |-> NoTool]
    /\ held = [t \in Tools |-> {}]

\* What any backend, or GetProperty, says of n at the moment.
HeldNow(u, n) ==
    ({Value(u, b, n) : b \in 1..Backends} \ {None}) \cup {GetReply(u, n)}

\* What the running tools could have read, up to the next state.
Watch == held' = [t \in Tools |->
    IF tool'[t].pc = "idle" THEN {}
    ELSE held[t] \cup (IF tool'[t].command.property \in Names
                       THEN HeldNow(user', tool'[t].command.property) ELSE {})]

-----------------------------------------------------------------------------
(* The steps of main *)

\* The options that go together.
Accepted(o) ==
    /\ o.property # <<>> \/ o.list
    /\ ~(o.create /\ o.reset)
    /\ ~((o.create \/ o.reset) /\ o.list)

Ends(t) == tool' = [tool EXCEPT ![t] = NoTool]

\* The options are parsed, and the channel is created with its cache, of which
\* only the entry of the property matters.
Start(t, o) ==
    /\ tool[t] = NoTool /\ Accepted(o)
    /\ tool' = [tool EXCEPT ![t] =
          [pc |-> "started", command |-> o, value |-> None,
           cached |-> IF o.property \in Names THEN GetAllReply(user, o.property) ELSE None]]
    /\ UNCHANGED user

\* esconf_cache_lookup: what is not cached is asked of the daemon.
Lookup(t) ==
    IF tool[t].cached # None THEN tool[t].cached ELSE GetReply(user, tool[t].command.property)

\* _esconf_gvalue_from_string; None if the text is not of the type.
Converted(type, text) ==
    IF <<type, text>> \in Readable THEN Scalar(type, text) ELSE None

Not(value) == Scalar("gboolean", IF value = Scalar("gboolean", "true") THEN "false" ELSE "true")

\* --toggle: None if the value is not a boolean.
Toggled(current) ==
    IF current # None /\ ~current.array /\ TypeOf(current) = "gboolean" THEN Not(current) ELSE None

\* The type of a new scalar: the one that is given, or that of the value.
ScalarToSet(o, current) ==
    IF o.type # <<>> THEN Converted(o.type[1], o.set_value[1])
    ELSE IF current.array THEN None
    ELSE Converted(TypeOf(current), o.set_value[1])

\* The types of a new array: those given, or those of the array there is.
ArrayTypes(o, current) ==
    IF o.type # <<>> THEN o.type
    ELSE IF current.array THEN [i \in DOMAIN current.items |-> current.items[i][1]]
    ELSE <<>>

ArrayToSet(o, current) ==
    LET types == ArrayTypes(o, current)
    IN  IF Len(types) # Len(o.set_value)
           \/ \E i \in DOMAIN types : <<types[i], o.set_value[i]>> \notin Readable
        THEN None
        ELSE [array |-> TRUE, items |-> [i \in DOMAIN types |-> <<types[i], o.set_value[i]>>]]

\* Mutant of ValueToSet: --create is not asked for.
ValueToSetCreates(o, current) ==
    IF current = None /\ o.type = <<>> THEN None
    ELSE IF Len(o.set_value) = 1 /\ ~o.force_array THEN ScalarToSet(o, current)
    ELSE ArrayToSet(o, current)

\* --set: what is to be set over current, or None if the tool gives up.
ValueToSet(o, current) ==
    IF current = None /\ (~o.create \/ o.type = <<>>) THEN None
    ELSE IF Len(o.set_value) = 1 /\ ~o.force_array THEN ScalarToSet(o, current)
    ELSE ArrayToSet(o, current)

\* The values of an instance are those that the commands can lead to.
ASSUME ValuesAssumption ==
    /\ \A v \in Values : IsGValue(v)
    /\ \A v \in Values \cup {None} :
          /\ Toggled(v) \in Values \cup {None}
          /\ \A o \in Commands : o.set_value # <<>> => ValueToSet(o, v) \in Values \cup {None}

Changes(o) == o.property # <<>> /\ ~o.list

\* Mutant of Decide: a text that did not convert is set all the same.
DecideAnyway(t) ==
    LET o == tool[t].command
        current == Lookup(t)
    IN  /\ tool[t].pc = "started" /\ ~(Changes(o) /\ o.reset)
        /\ IF Changes(o) /\ o.set_value # <<>>
           THEN tool' = [tool EXCEPT ![t].pc = "checked", ![t].value = ValueToSet(o, current),
                                     ![t].cached = current]
           ELSE Ends(t)
        /\ UNCHANGED user

\* The property is read, and it is decided what to set, if anything.
Decide(t) ==
    LET o == tool[t].command
        current == Lookup(t)
        value == IF o.set_value # <<>> THEN ValueToSet(o, current)
                 ELSE IF o.toggle THEN Toggled(current) ELSE None
    IN  /\ tool[t].pc = "started" /\ ~(Changes(o) /\ o.reset)
        /\ IF Changes(o) /\ value # None
           THEN tool' = [tool EXCEPT ![t].pc = "checked", ![t].value = value,
                                     ![t].cached = current]
           ELSE Ends(t)
        /\ UNCHANGED user

\* --reset: a synchronous call.
ResetIt(t) ==
    LET o == tool[t].command
    IN  /\ tool[t].pc = "started" /\ Changes(o) /\ o.reset
        /\ user' = AfterReset(user, o.property, o.recursive)
        /\ Ends(t)

\* esconf_channel_set_property, and the end of the tool: a value that is the
\* cached one is not sent, and neither is one under a name the daemon rejects.
Send(t) ==
    LET n == tool[t].command.property
    IN  /\ tool[t].pc = "checked"
        /\ IF Valid(n) /\ ~Same(Lookup(t), tool[t].value)
           THEN tool' = [tool EXCEPT ![t].pc = "sent"] ELSE Ends(t)
        /\ UNCHANGED user

\* The daemon handles the call.
Handle(t) ==
    /\ tool[t].pc = "sent"
    /\ user' = AfterSet(user, tool[t].command.property, tool[t].value)
    /\ Ends(t)

QueryNext ==
    /\ \E t \in Tools :
          \/ \E o \in Commands : Start(t, o)
          \/ Decide(t) \/ ResetIt(t) \/ Send(t) \/ Handle(t)
    /\ Watch

QuerySpec == QueryInit /\ [][QueryNext]_queryVars

-----------------------------------------------------------------------------
(* Correctness *)

Before(t) == held[t] \ {None}

\* What a tool sends, however late, follows from what the property was while it
\* ran: a toggle turns a boolean round that was there, a set without --create
\* finds a property, and one without --type keeps its type (the branches of
\* main that read before they write).
DecidedByWhatWas ==
    \A t \in Tools : tool[t].pc \in {"checked", "sent"} =>
        LET o == tool[t].command
            v == tool[t].value
        IN  /\ o.set_value = <<>> => \E w \in Before(t) : v = Not(w) /\ w = Not(v)
            /\ ~o.create => Before(t) # {}
            /\ o.set_value # <<>> /\ o.type = <<>> =>
                  \E w \in Before(t) :
                      w.array = v.array /\ [i \in DOMAIN w.items |-> w.items[i][1]] =
                                           [i \in DOMAIN v.items |-> v.items[i][1]]

\* A call that changes a property is what the next GetProperty answers with,
\* and it changes none that IsPropertyLocked reports locked, in any backend
\* (esconf_set_property and esconf_is_property_locked).
SetReadsBack ==
    [][\A t \in Tools, n \in Names :
          tool[t].pc = "sent" /\ tool'[t].pc = "idle" /\ GetReply(user', n) # GetReply(user, n) =>
              GetReply(user', n) = tool[t].value /\ ~LockedReply(n)]_queryVars
=============================================================================
