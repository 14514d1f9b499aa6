-------------------------- MODULE GSettingsBackend --------------------------
(***************************************************************************)
(* The GSettings backend (gsettings-backend/esconf-gsettings-backend.c):   *)
(* the keys of GSettings are the properties of the channel "gsettings", of *)
(* which one process, Host, has a cache (module ClientCache).  The backend *)
(* tells GSettings which keys changed, with the origin tag of the request  *)
(* that changed them if it was its own.                                    *)
(*                                                                         *)
(* A call of GSettings and all the signals it causes are one step, but for *)
(* write_tree, which sets one key after the other while the daemon goes on *)
(* and the main loop of the process does not.  sync changes no state and   *)
(* is left out, and so is the parsing of values GSettings keeps as text.   *)
(***************************************************************************)
EXTENDS ClientCache

CONSTANTS Host,           \* the process with the backend
          Subscriptions,  \* paths and keys GSettings may subscribe to
          Prefixed,       \* subscription -> the keys whose names begin with it
          Rejected,       \* keys whose names the daemon does not accept
          Tags,           \* origin tags
          Trees,          \* trees GSettings may write: sets of nodes, one of a key
          KeyOrder,       \* the keys in the order of a GTree
          NoTag,          \* no entry
          Told, Unheard   \* told that the key changed; not to be told of a reset

ASSUME GSettingsAssumption ==
    /\ Host \in Clients
    /\ Prefixed \in [Subscriptions -> SUBSET Props]
    /\ Rejected \subseteq Props /\ \A k \in Rejected : Default[k] = None
    /\ NoTag \notin Tags
    /\ Told \notin Values \cup {None} /\ Unheard \notin Values \cup {None, Told}
    /\ ToSet(KeyOrder) = Props
    /\ Trees \subseteq SUBSET [key : Props, val : Values \ Unsendable]
    /\ \A nodes \in Trees : \A n, o \in nodes : n.key = o.key => n = o

VARIABLES changed_prop,     \* key -> origin tag, or NoTag
          subscribed_prop,  \* the subscriptions
          tree,             \* the write_tree under way, or NoTree
          known             \* key -> what GSettings last read or wrote; Told that
                            \* it changed since then; or Unheard

gsettingsVars == <<changed_prop, subscribed_prop, tree, known>>
allVars == <<vars, gsettingsVars>>

\* left: the nodes still to write; all: every node; ok: none failed so far
\* (nhandled_tree_node).
NoTree == [left |-> {}, all |-> {}, ok |-> FALSE]
Node == [key : Props, val : Values]
Tree == [left : SUBSET Node, all : SUBSET Node, ok : BOOLEAN, tag : Tags]

GSettingsTypeOK ==
    /\ TypeOK
    /\ changed_prop \in [Props -> Tags \cup {NoTag}]
    /\ subscribed_prop \subseteq Subscriptions
    /\ tree \in Tree \cup {NoTree}
    /\ known \in [Props -> Values \cup {None, Told, Unheard}]

\* esconf_gsettings_backend_init, whose channel prefetches.
GSettingsInit ==
    /\ InitWith(Default)
    /\ changed_prop = [k \in Props |-> NoTag]
    /\ subscribed_prop = {}
    /\ tree = NoTree
    /\ known = [k \in Props |-> Told]

Idle == tree = NoTree /\ alive[Host]

-----------------------------------------------------------------------------
(* Changes that reach GSettings *)

Subscribed(k) == \E s \in subscribed_prop : k \in Prefixed[s]

\* Mutant of Emits: GSettings hears only of its own changes.
EmitsOwn(k, entry) == entry # NoTag

\* esconf_gsettings_backend_property_changed_cb calls g_settings_backend_changed
\* for k, with the tag of its entry or without one.
Emits(k, entry) == entry # NoTag \/ Subscribed(k)

\* The channel says that k changed, while entry is what the table has of k.
PropertyChanged(k, entry) ==
    /\ changed_prop' = [changed_prop EXCEPT ![k] = NoTag]
    /\ known' = IF Emits(k, entry) THEN [known EXCEPT ![k] = Told] ELSE known

\* The main loop handles a completion or a signal.
HostDispatch ==
    /\ Idle /\ Dispatch(Host)
    /\ LET m == Head(inbox[Host])
       IN  IF Announces(Host, m) THEN PropertyChanged(m.prop, changed_prop[m.prop])
           ELSE UNCHANGED <<changed_prop, known>>
    /\ UNCHANGED <<subscribed_prop, tree>>

-----------------------------------------------------------------------------
(* Calls of GSettings *)

\* esconf_gsettings_backend_read
Read(k) ==
    /\ Idle
    /\ cache[Host][k] = None => wire[Host] = <<>>
    /\ cache' = [cache EXCEPT ![Host][k] = Known(Host, k)]
    /\ known' = [known EXCEPT ![k] = Known(Host, k)]
    /\ UNCHANGED <<user, idles, wire, inbox, alive, old, changed_prop, subscribed_prop, tree>>

\* A written value that the daemon will refuse is evicted before the refusal,
\* which then finds nothing to put back and to announce.
RefusalLost(q) ==
    q \in Locked /\ old[Host][q] # NoItem /\ cache'[Host][q] # cache[Host][q]

\* esconf_gsettings_backend_reset: the call is recursive, and its entry is for
\* the key.  GSettings is not told here, but when the daemon's signal comes.
ResetKey(k, tag) ==
    /\ Idle
    /\ IF k \in Rejected THEN UNCHANGED vars ELSE Reset(Host, k, TRUE)
    /\ changed_prop' = [changed_prop EXCEPT ![k] = tag]
    /\ known' = [q \in Props |-> IF RefusalLost(q) THEN Unheard ELSE known[q]]
    /\ UNCHANGED <<subscribed_prop, tree>>

\* esconf_gsettings_backend_write_full, where entry is what the table has of k
\* during the call, and left what it has of it if the set fails at once; a set
\* that changes nothing leaves the entry, and any other announces the key
\* before it returns.
WriteFull(k, v, entry, left) ==
    IF k \in Rejected
    THEN changed_prop' = [changed_prop EXCEPT ![k] = left] /\ UNCHANGED <<vars, known>>
    ELSE /\ Set(Host, k, v)
         /\ IF SetAnnounces(Host, k, v) THEN PropertyChanged(k, entry)
            ELSE /\ changed_prop' = [changed_prop EXCEPT ![k] = entry]
                 /\ known' = [known EXCEPT ![k] = v]

\* esconf_gsettings_backend_write makes an entry in place of any other, and
\* removes it when the set fails.
Write(k, v, tag) ==
    /\ Idle /\ v \notin Unsendable
    /\ WriteFull(k, v, tag, NoTag)
    /\ UNCHANGED <<subscribed_prop, tree>>

\* esconf_gsettings_backend_write_tree
WriteTree(nodes, tag) ==
    /\ Idle
    /\ tree' = [left |-> nodes, all |-> nodes, ok |-> TRUE, tag |-> tag]
    /\ UNCHANGED <<vars, changed_prop, subscribed_prop, known>>

\* The keys come in their order.
Place(key) == SelectInSeq(KeyOrder, LAMBDA k : k = key)
IsNext(n) == \A o \in tree.left : Place(n.key) <= Place(o.key)

\* Mutant of WriteNode: every node counts as handled.
WriteNodeAnyway ==
    /\ tree # NoTree /\ tree.ok
    /\ \E n \in tree.left :
          /\ IsNext(n) /\ WriteFull(n.key, n.val, changed_prop[n.key], changed_prop[n.key])
          /\ tree' = [tree EXCEPT !.left = @ \ {n}]
    /\ UNCHANGED subscribed_prop

\* esconf_gsettings_backend_tree_traverse: no entry is made, and the first
\* failure ends the traversal.
WriteNode ==
    /\ tree # NoTree /\ tree.ok
    /\ \E n \in tree.left :
          /\ IsNext(n) /\ WriteFull(n.key, n.val, changed_prop[n.key], changed_prop[n.key])
          /\ tree' = IF n.key \in Rejected THEN [tree EXCEPT !.ok = FALSE]
                     ELSE [tree EXCEPT !.left = @ \ {n}]
    /\ UNCHANGED subscribed_prop

\* The end of write_tree: GSettings is told of the tree if all of it was
\* written.
TreeWritten ==
    /\ tree # NoTree /\ (tree.left = {} \/ ~tree.ok)
    /\ known' = IF tree.ok THEN [k \in Props |-> IF \E n \in tree.all : n.key = k THEN Told ELSE known[k]]
                ELSE known
    /\ tree' = NoTree
    /\ UNCHANGED <<vars, changed_prop, subscribed_prop>>

\* What is known of keys without a subscription counts for nothing.
Subscribe(s) ==
    /\ Idle /\ s \notin subscribed_prop
    /\ subscribed_prop' = subscribed_prop \cup {s}
    /\ known' = [k \in Props |-> IF Subscribed(k) THEN known[k] ELSE Told]
    /\ UNCHANGED <<vars, changed_prop, tree>>

Unsubscribe(s) ==
    /\ Idle /\ s \in subscribed_prop
    /\ subscribed_prop' = subscribed_prop \ {s}
    /\ UNCHANGED <<vars, changed_prop, tree, known>>

\* esconf_gsettings_backend_finalize
FinalizeBackend ==
    /\ Idle /\ Finalize(Host)
    /\ changed_prop' = [k \in Props |-> NoTag]
    /\ subscribed_prop' = {}
    /\ UNCHANGED <<tree, known>>

-----------------------------------------------------------------------------

Daemon == (Handle(Host) \/ Emit) /\ UNCHANGED gsettingsVars

\* Other clients of the channel.
Others ==
    /\ \E k \in Props \ Rejected : OthersReset(k) \/ \E v \in Values : OthersSet(k, v)
    /\ UNCHANGED gsettingsVars

Request ==
    \/ \E k \in Props, tag \in Tags : ResetKey(k, tag) \/ \E v \in Values : Write(k, v, tag)
    \/ \E tag \in Tags, nodes \in Trees : WriteTree(nodes, tag)

GSettingsNext ==
    \/ HostDispatch \/ Daemon \/ Others
    \/ Request \/ WriteNode \/ TreeWritten
    \/ \E k \in Props : Read(k)
    \/ \E s \in Subscriptions : Subscribe(s) \/ Unsubscribe(s)
    \/ FinalizeBackend

\* The main loops of the daemon and of the process go on.
GSettingsSpec ==
    /\ GSettingsInit /\ [][GSettingsNext]_allVars
    /\ WF_allVars(Daemon) /\ WF_allVars(HostDispatch)

-----------------------------------------------------------------------------
(* Correctness *)

\* Right, or told that it is not, or left alone with a refusal.
Informed(k) == known[k] \in {Told, Unheard, Stored(k)}

\* With nothing under way about a subscribed key, GSettings has been told that
\* it changed or knows what the daemon holds: no write, refused write, tree
\* written in part, reset or change by others leaves a listener with an old
\* value, but a reset between a write and its refusal (the changed signal of
\* GSettingsBackend).
ListenersKnow ==
    \A k \in Props : alive[Host] /\ Subscribed(k) /\ Settled(Host, k) => Informed(k)

\* The same in the end, whatever is under way, once nobody asks for changes and
\* write_tree has returned.
ListenersLearn ==
    <>[][~Request /\ ~Others]_allVars /\ <>[](tree = NoTree) =>
        <>[](\A k \in Props : alive[Host] /\ Subscribed(k) => Informed(k))

\* When GSettings is told of a tree, the process reads every value of it: no
\* node failed and was counted all the same, and none was overtaken
\* (nhandled_tree_node in esconf_gsettings_backend_write_tree).
TreesAreWhole ==
    [][TreeWritten /\ tree.ok => \A n \in tree.all : cache[Host][n.key] = n.val]_allVars
=============================================================================
