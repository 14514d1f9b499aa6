------------------------------ MODULE Binding ------------------------------
(***************************************************************************)
(* GObject properties bound to properties of a channel (esconf/            *)
(* esconf-binding.c), the channel that passes the cache's notifications on *)
(* (esconf/esconf-channel.c), and the library that both live in (esconf/   *)
(* esconf.c): one client process, Host, over the cache and the messages of *)
(* module ClientCache.  Everyone else on the bus is ForeignSet and         *)
(* ForeignReset.                                                           *)
(*                                                                         *)
(* Signal handlers run to their end inside the call that emits, so that a  *)
(* call of the application and all it notifies are one step.  An object is *)
(* bound at most once.                                                     *)
(***************************************************************************)
EXTENDS ClientCache

CONSTANTS Host,           \* the client with the bindings
          Names,          \* property names as the application uses them
          RealProp,       \* name -> the property it stands for: base and name
          ChannelName,    \* property -> the name the channel announces, or None
          Objects,        \* objects with one property each
          BoundTo,        \* object -> the name it may be bound to
          ObjectDefault,  \* object -> the default of its GParamSpec, or None (boxed)
          Unconvertible,  \* values that do not transform into the objects' type
          Users,          \* parts of the process that use the library
          Shared          \* properties that the application gets, sets and resets
                          \* itself, and that others reset

ASSUME BindingAssumption ==
    /\ Host \in Clients
    /\ RealProp \in [Names -> Props]
    /\ ChannelName \in [Props -> Names \cup {None}]
    /\ \A n \in Names : ChannelName[RealProp[n]] = n
    /\ \A p \in Props : ChannelName[p] \in Names => RealProp[ChannelName[p]] = p
    /\ BoundTo \in [Objects -> Names]
    /\ Unconvertible \subseteq Values /\ \E v \in Values : v \notin Unconvertible
    /\ ObjectDefault \in [Objects -> (Values \ Unconvertible) \cup {None}]
    /\ Shared \subseteq Props

VARIABLES object,   \* object -> the value of its property
          binding,  \* object -> its EsconfGBinding
          users,    \* those that called esconf_init and not yet esconf_shutdown
          refcnt    \* esconf_refcnt

bindingVars == <<object, binding, users, refcnt>>
allVars == <<vars, bindingVars>>

\* listed: it is in __bindings; object, channel: the signal handlers that are
\* connected.  With none of the three left the memory is freed.
EsconfGBinding == [listed : BOOLEAN, object : BOOLEAN, channel : BOOLEAN]
Unbound == [listed |-> FALSE, object |-> FALSE, channel |-> FALSE]
Connected == [listed |-> TRUE, object |-> TRUE, channel |-> TRUE]

BindingTypeOK ==
    /\ TypeOK
    /\ object \in [Objects -> Values \ Unconvertible]
    /\ binding \in [Objects -> EsconfGBinding]
    /\ users \subseteq Users
    /\ refcnt \in Nat

\* esconf_init, and esconf_channel_constructor with its prefetch.
BindingInit ==
    /\ InitWith(Default)
    /\ object = [o \in Objects |-> IF ObjectDefault[o] # None THEN ObjectDefault[o]
                                    ELSE CHOOSE v \in Values : v \notin Unconvertible]
    /\ binding = [o \in Objects |-> Unbound]
    /\ \E u \in Users : users = {u}
    /\ refcnt = 1

PropOf(o) == RealProp[BoundTo[o]]

-----------------------------------------------------------------------------
(* Notifications *)

\* esconf_g_property_channel_notify and its variants for colours, with the
\* object's handler blocked: what the object's property becomes.
ChannelNotify(o, val) ==
    IF val = None THEN (IF ObjectDefault[o] = None THEN object[o] ELSE ObjectDefault[o])
    ELSE IF val \in Unconvertible THEN object[o] ELSE val

\* Mutant of Hears: the base of the channel is not taken off again.
HearsRealName(o, p) == binding[o].channel /\ BoundTo[o] = p

\* esconf_channel_property_changed announces p by the name below the channel's
\* base, on which the handler's detail has to match.
Hears(o, p) == binding[o].channel /\ BoundTo[o] = ChannelName[p]

\* The cache emits "property-changed" for p with val, while the channel
\* handlers of the objects in blocked are blocked.
Announce(p, val, blocked) ==
    object' = [o \in Objects |-> IF o \notin blocked /\ Hears(o, p)
                                 THEN ChannelNotify(o, val) ELSE object[o]]

\* The dispatch of a completion or a signal, and what hears of it.
HostDispatch ==
    /\ Dispatch(Host)
    /\ LET m == Head(inbox[Host])
       IN  IF Announces(Host, m) THEN Announce(m.prop, Announced(Host, m), {})
           ELSE UNCHANGED object
    /\ UNCHANGED <<binding, users, refcnt>>

-----------------------------------------------------------------------------
(* Calls of the application *)

InUse == refcnt > 0 /\ alive[Host]

\* esconf_channel_set_property: the cache announces a value that is sent.
ChannelSet(p, v, blocked) ==
    /\ Set(Host, p, v)
    /\ IF SetAnnounces(Host, p, v) THEN Announce(p, v, blocked) ELSE UNCHANGED object

AppSet(p, v) ==
    /\ p \in Shared /\ InUse /\ ChannelSet(p, v, {})
    /\ UNCHANGED <<binding, users, refcnt>>

\* The application changes an object: esconf_g_property_object_notify sets the
\* channel's property with its own channel handler blocked.
ObjectNotify(o, v) ==
    /\ v \notin Unconvertible
    /\ IF ~binding[o].object
       THEN object' = [object EXCEPT ![o] = v] /\ UNCHANGED vars
       ELSE LET p == PropOf(o)
            IN  /\ InUse /\ Set(Host, p, v)
                /\ object' = [q \in Objects |->
                      IF q = o THEN v
                      ELSE IF SetAnnounces(Host, p, v) /\ Hears(q, p)
                      THEN ChannelNotify(q, v) ELSE object[q]]
    /\ UNCHANGED <<binding, users, refcnt>>

\* esconf_channel_reset_property of one property.
AppReset(p) ==
    /\ p \in Shared /\ InUse /\ Reset(Host, p, FALSE)
    /\ UNCHANGED bindingVars

\* esconf_channel_has_property, esconf_channel_get_property and the like.
AppGet(p) ==
    /\ p \in Shared /\ InUse /\ Lookup(Host, p)
    /\ UNCHANGED bindingVars

\* esconf_g_property_init: the object takes the channel's value, if there is one.
Bind(o) ==
    LET p == PropOf(o)
    IN  /\ InUse /\ binding[o] = Unbound
        /\ cache[Host][p] = None => wire[Host] = <<>>
        /\ cache' = [cache EXCEPT ![Host][p] = Known(Host, p)]
        /\ object' = IF Known(Host, p) = None THEN object
                     ELSE [object EXCEPT ![o] = ChannelNotify(o, Known(Host, p))]
        /\ binding' = [binding EXCEPT ![o] = Connected]
        /\ UNCHANGED <<user, idles, wire, inbox, alive, old, users, refcnt>>

-----------------------------------------------------------------------------
(* Disconnecting *)

\* The object's handler goes.  esconf_g_property_object_disconnect takes the
\* binding off the list, disconnects the channel's handler if it is there -
\* whose own disconnect finds no object any more - and frees.
ObjectDisconnect(b) == Unbound

\* Mutant of ChannelDisconnect: the object's handler stays.
ChannelDisconnectOnly(b) == [b EXCEPT !.channel = FALSE]

\* The channel's handler goes.  esconf_g_property_channel_disconnect
\* disconnects the object's, which frees.
ChannelDisconnect(b) ==
    IF b.object THEN ObjectDisconnect([b EXCEPT !.channel = FALSE])
    ELSE [b EXCEPT !.channel = FALSE]

\* esconf_g_property_unbind, esconf_g_property_unbind_by_property, and the end
\* of the object.
Unbind(o) ==
    /\ binding[o].object
    /\ binding' = [binding EXCEPT ![o] = ObjectDisconnect(@)]
    /\ UNCHANGED <<vars, object, users, refcnt>>

\* Every handler on the channel goes.
AllDisconnected ==
    [o \in Objects |-> IF binding[o].channel THEN ChannelDisconnect(binding[o]) ELSE binding[o]]

\* esconf_g_property_unbind_all of the channel.
UnbindAll ==
    /\ InUse /\ \E o \in Objects : binding[o].channel
    /\ binding' = AllDisconnected
    /\ UNCHANGED <<vars, object, users, refcnt>>

-----------------------------------------------------------------------------
(* The library *)

\* esconf_init by a second user.
LibInit(u) ==
    /\ refcnt > 0 /\ u \notin users
    /\ users' = users \cup {u}
    /\ refcnt' = refcnt + 1
    /\ UNCHANGED <<vars, object, binding>>

\* Mutant of LibShutdown: whoever is first shuts down.
LibShutdownAtOnce(u) ==
    /\ refcnt > 0 /\ u \in users
    /\ users' = users \ {u}
    /\ refcnt' = refcnt - 1
    /\ UNCHANGED object
    /\ Finalize(Host) /\ binding' = AllDisconnected

\* esconf_shutdown: the last one destroys the singleton channel - its cache
\* first, then its handlers - and the bindings that are left.
LibShutdown(u) ==
    /\ refcnt > 0 /\ u \in users
    /\ users' = users \ {u}
    /\ refcnt' = refcnt - 1
    /\ UNCHANGED object
    /\ IF refcnt > 1 THEN UNCHANGED <<vars, binding>>
       ELSE Finalize(Host) /\ binding' = AllDisconnected

-----------------------------------------------------------------------------
(* The rest of the world *)

ForeignSet(p, v) == OthersSet(p, v) /\ UNCHANGED bindingVars
ForeignReset(p) == p \in Shared /\ OthersReset(p) /\ UNCHANGED bindingVars

Daemon == (Handle(Host) \/ Emit) /\ UNCHANGED bindingVars

BindingNext ==
    \/ HostDispatch \/ Daemon \/ UnbindAll
    \/ \E p \in Props :
          \/ AppReset(p) \/ AppGet(p) \/ ForeignReset(p)
          \/ \E v \in Values : AppSet(p, v) \/ ForeignSet(p, v)
    \/ \E o \in Objects :
          \/ Bind(o) \/ Unbind(o)
          \/ \E v \in Values : ObjectNotify(o, v)
    \/ \E u \in Users : LibInit(u) \/ LibShutdown(u)

BindingSpec == BindingInit /\ [][BindingNext]_allVars

-----------------------------------------------------------------------------
(* Correctness *)

\* A binding is in the list exactly while both its handlers are connected,
\* whichever of the two ends goes first: no handler runs with memory that is
\* gone, and none keeps a channel from before the last shutdown (the two
\* disconnect functions of esconf-binding.c).
BindingsWhole ==
    \A o \in Objects :
        LET b == binding[o]
        IN  /\ b.listed = b.object /\ b.object = b.channel
            /\ b.channel => alive[Host] /\ refcnt > 0

\* The channel and its bindings stay as long as somebody uses the library
\* (esconf_refcnt in esconf_init and esconf_shutdown).
LibraryServesUsers == users # {} => refcnt > 0 /\ alive[Host]

\* With nothing under way about a property, an object bound to it has the
\* daemon's value, whatever the bindings of this process and the sets of others
\* did in whatever order.
Agrees(o) ==
    binding[o].channel /\ Settled(Host, PropOf(o))
    /\ Stored(PropOf(o)) \notin Unconvertible \cup {None} => object[o] = Stored(PropOf(o))

Alone(o) == \A q \in Objects : PropOf(q) = PropOf(o) => q = o

\* Objects bound to properties that nobody resets, and that the application
\* leaves to their bindings, agree: any number of them on a property that has a
\* default, which is always cached, and one on any other
\* (esconf_g_property_object_notify and esconf_g_property_channel_notify).
BoundObjectsAgree ==
    \A o \in Objects :
        PropOf(o) \notin Shared /\ (Default[PropOf(o)] # None \/ Alone(o)) => Agrees(o)

\* "If the property is changed via either the GObject or Esconf, the
\* corresponding property will also be updated" (the documentation of
\* esconf_g_property_bind) of every property.
BindingsFollow == \A o \in Objects : Agrees(o)
=============================================================================
