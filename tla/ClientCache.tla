---------------------------- MODULE ClientCache ----------------------------
(***************************************************************************)
(* The property caches of libesconf (esconf/esconf-cache.c): each client   *)
(* process keeps the values of one channel, changes them asynchronously    *)
(* and is kept up to date by the daemon's signals.                         *)
(*                                                                         *)
(* The daemon is reduced to what a cache can tell of it: the user value    *)
(* and the default of each property, locks, and the idle queue of signals  *)
(* that read the property when they are emitted (module Daemon).  What it  *)
(* holds can be sent: defaults by PropsAssumption, user values because a   *)
(* client set them.  Defaults that cannot, of which caches are never told, *)
(* are in module Daemon.                                                   *)
(*                                                                         *)
(* Messages of one client reach the daemon in order, and so do the replies *)
(* and signals on the way back, of which a synchronous call overtakes      *)
(* those that wait in the client's main loop.  A synchronous call is one   *)
(* step: the daemon answers it after the client's earlier messages.  The   *)
(* cache's own signal to the application, "property-changed", changes no   *)
(* state of the cache; the modules on top of this one say what it does.    *)
(***************************************************************************)
EXTENDS Naturals, FiniteSets, SequencesExt

CONSTANTS Clients,
          Props,        \* the properties of the channel
          Values,
          None,         \* no value, and not cached
          Root,         \* "/", as the base of a reset
          Subtree,      \* a base -> the properties at and below it
          Default,      \* property -> its system default, or None
          Locked,       \* the properties users may not set
          Unsendable,   \* values esconf_gvalue_to_gvariant returns NULL for
          Strays,       \* clients who try those values, and whose calls may go
                        \* unanswered for too long
          MaxInFlight   \* bound on messages under way

ASSUME PropsAssumption ==
    /\ IsFiniteSet(Props)
    /\ None \notin Values /\ Root \notin Props
    /\ Subtree \in [Props \cup {Root} -> SUBSET Props]
    /\ \A p \in Props : p \in Subtree[p]
    /\ Subtree[Root] = Props
    /\ Default \in [Props -> Values \cup {None}]
    /\ Locked \subseteq Props /\ Unsendable \subseteq Values
    /\ \A p \in Props : Default[p] \notin Unsendable
    /\ Strays \subseteq Clients /\ MaxInFlight \in Nat

VARIABLES user,   \* the daemon: property -> user value
          idles,  \* the daemon: properties whose signal waits
          wire,   \* client -> its SetProperty calls on their way
          inbox,  \* client -> completions and signals for its main loop
          alive,  \* client -> its cache is not finalised
          cache,  \* client -> properties: property -> cached value
          old     \* client -> old_properties: property -> EsconfCacheOldItem

vars == <<user, idles, wire, inbox, alive, cache, old>>

MaybeValue == Values \cup {None}

\* A SetProperty call; a cancelled one is handled, but its reply is dropped.
Call == [prop : Props, val : Values, cancelled : BOOLEAN]

\* What the main loop of a client finds: the completion of a call, or a signal
\* (PropertyRemoved if the value is None).
Done == [done : {TRUE}, prop : Props, ok : BOOLEAN]
Signal == [done : {FALSE}, prop : Props, val : MaybeValue]

\* before: the value to go back to; sent: the value of the call in
\* pending_calls, None if there is none; count: pending_calls_count.
PendingItem == [before : MaybeValue, sent : Values, count : Nat \ {0}, cancelled : {FALSE}]
OtherItem == [before : MaybeValue, sent : {None}, count : Nat, cancelled : BOOLEAN]
NoItem == [count |-> 0]

TypeOK ==
    /\ user \in [Props -> MaybeValue]
    /\ idles \in Seq(Props)
    /\ wire \in [Clients -> Seq(Call)]
    /\ inbox \in [Clients -> Seq(Done \cup Signal)]
    /\ alive \in [Clients -> BOOLEAN]
    /\ cache \in [Clients -> [Props -> MaybeValue]]
    /\ old \in [Clients -> [Props -> PendingItem \cup OtherItem \cup {NoItem}]]

Stored(p) == IF user[p] # None THEN user[p] ELSE Default[p]

\* The daemon holds defaults only.
InitWith(cached) ==
    /\ user = [p \in Props |-> None]
    /\ idles = <<>>
    /\ wire = [c \in Clients |-> <<>>]
    /\ inbox = [c \in Clients |-> <<>>]
    /\ alive = [c \in Clients |-> TRUE]
    /\ cache = [c \in Clients |-> cached]
    /\ old = [c \in Clients |-> [p \in Props |-> NoItem]]

\* The caches are new (esconf_cache_new).
Init == InitWith([p \in Props |-> None])

Room == \A c \in Clients : Len(wire[c]) + Len(inbox[c]) + Len(idles) < MaxInFlight

-----------------------------------------------------------------------------
(* The daemon *)

\* SetProperty handled: what the daemon holds afterwards, and the signals it
\* queues, a property at a time.
Accepts(p) == p \notin Locked
Changes(p, v) == Accepts(p) /\ Stored(p) # v

Reply(p, ok) == [done |-> TRUE, prop |-> p, ok |-> ok]
SignalOf(p) == [done |-> FALSE, prop |-> p, val |-> Stored(p)]

Handle(c) ==
    /\ wire[c] # <<>>
    /\ LET m == Head(wire[c])
       IN  /\ IF Changes(m.prop, m.val)
              THEN user' = [user EXCEPT ![m.prop] = m.val] /\ idles' = Append(idles, m.prop)
              ELSE UNCHANGED <<user, idles>>
           /\ inbox' = IF m.cancelled THEN inbox
                       ELSE [inbox EXCEPT ![c] = Append(@, Reply(m.prop, Accepts(m.prop)))]
    /\ wire' = [wire EXCEPT ![c] = Tail(@)]
    /\ UNCHANGED <<alive, cache, old>>

\* An idle source: one signal to every cache that is connected.  The value has
\* a form on the bus, by PropsAssumption.
Emit ==
    /\ idles # <<>>
    /\ inbox' = [c \in Clients |-> IF alive[c] THEN Append(inbox[c], SignalOf(Head(idles)))
                                   ELSE inbox[c]]
    /\ idles' = Tail(idles)
    /\ UNCHANGED <<user, wire, alive, cache, old>>

-----------------------------------------------------------------------------
(* Calls of the application *)

\* esconf_cache_lookup of a property that is not cached: a synchronous
\* GetProperty.
Lookup(c, p) ==
    /\ alive[c] /\ cache[c][p] = None /\ wire[c] = <<>>
    /\ cache' = [cache EXCEPT ![c][p] = Stored(p)]
    /\ UNCHANGED <<user, idles, wire, inbox, alive, old>>

\* esconf_cache_prefetch, while nothing is cached.
Prefetch(c) ==
    /\ alive[c] /\ wire[c] = <<>>
    /\ \A p \in Props : cache[c][p] = None
    /\ cache' = [cache EXCEPT ![c] = [p \in Props |-> Stored(p)]]
    /\ UNCHANGED <<user, idles, wire, inbox, alive, old>>

\* g_cancellable_cancel: the completion of a call still under way is queued at
\* once, a completion in the queue turns into an error, and the daemon handles
\* the call all the same.
IsLive(m, p) == m.prop = p /\ ~m.cancelled

WireAfterCancel(c, p) ==
    [i \in DOMAIN wire[c] |-> IF IsLive(wire[c][i], p)
                              THEN [wire[c][i] EXCEPT !.cancelled = TRUE] ELSE wire[c][i]]

InboxAfterCancel(c, p) ==
    [i \in DOMAIN inbox[c] |-> IF inbox[c][i].done /\ inbox[c][i].prop = p
                               THEN Reply(p, FALSE) ELSE inbox[c][i]]
    \o (IF \E i \in DOMAIN wire[c] : IsLive(wire[c][i], p) THEN <<Reply(p, FALSE)>> ELSE <<>>)

\* What the cache holds of p once esconf_cache_set has looked it up.
Known(c, p) == IF cache[c][p] # None THEN cache[c][p] ELSE Stored(p)

\* Mutant of SetSent: the second call of an old item is not counted.
SetUncounted(c, p, v) ==
    /\ v \notin Unsendable
    /\ old' = [old EXCEPT ![c][p] =
                  IF @ = NoItem
                  THEN [before |-> Known(c, p), sent |-> v, count |-> 1, cancelled |-> FALSE]
                  ELSE [@ EXCEPT !.sent = v]]
    /\ inbox' = [inbox EXCEPT ![c] = InboxAfterCancel(c, p)]
    /\ wire' = [wire EXCEPT ![c] = Append(WireAfterCancel(c, p),
                                         [prop |-> p, val |-> v, cancelled |-> FALSE])]
    /\ cache' = [cache EXCEPT ![c][p] = v]

\* esconf_cache_set of a value that can be sent: an earlier call that has not
\* returned is cancelled, and its old item used again.
SetSent(c, p, v) ==
    /\ v \notin Unsendable
    /\ old' = [old EXCEPT ![c][p] =
                  IF @ = NoItem
                  THEN [before |-> Known(c, p), sent |-> v, count |-> 1, cancelled |-> FALSE]
                  ELSE [@ EXCEPT !.sent = v, !.count = old[c][p].count + 1]]
    /\ inbox' = [inbox EXCEPT ![c] = InboxAfterCancel(c, p)]
    /\ wire' = [wire EXCEPT ![c] = Append(WireAfterCancel(c, p),
                                         [prop |-> p, val |-> v, cancelled |-> FALSE])]
    /\ cache' = [cache EXCEPT ![c][p] = v]

\* esconf_cache_set of a value that cannot: it fails with the old item in
\* place and no call to remove it.
SetUnsent(c, p, v) ==
    /\ v \in Unsendable
    /\ old' = [old EXCEPT ![c][p] =
                  IF @ = NoItem
                  THEN [before |-> Known(c, p), sent |-> None, count |-> 0, cancelled |-> FALSE]
                  ELSE [@ EXCEPT !.sent = None]]
    /\ inbox' = [inbox EXCEPT ![c] = InboxAfterCancel(c, p)]
    /\ wire' = [wire EXCEPT ![c] = WireAfterCancel(c, p)]
    /\ cache' = [cache EXCEPT ![c][p] = Known(c, p)]

Set(c, p, v) ==
    /\ alive[c] /\ Room
    /\ c \in Strays \/ v \notin Unsendable
    /\ cache[c][p] = None => wire[c] = <<>>
    /\ UNCHANGED <<user, idles, alive>>
    /\ \/ /\ Known(c, p) = v
          /\ cache' = [cache EXCEPT ![c][p] = v]
          /\ UNCHANGED <<wire, inbox, old>>
       \/ Known(c, p) # v /\ (SetSent(c, p, v) \/ SetUnsent(c, p, v))

\* The entries a reset removes from the cache: property_base, and when
\* recursive those that begin with property_base followed by a slash.  No name
\* begins with the two slashes that makes of "/".
Evicted(base, recursive) ==
    IF ~recursive THEN {base} ELSE IF base = Root THEN {} ELSE Subtree[base]

\* esconf_cache_reset: a synchronous ResetProperty, then eviction.
Reset(c, base, recursive) ==
    LET S == IF recursive THEN Subtree[base] ELSE {base}
        found == IF recursive THEN base = Root \/ \E q \in S : Stored(q) # None
                 ELSE user[base] # None
    IN  /\ alive[c] /\ Room /\ wire[c] = <<>>
        /\ base \in Props \/ recursive
        /\ user' = [q \in Props |-> IF q \in S THEN None ELSE user[q]]
        /\ idles' = idles \o SetToSeq({q \in S : user[q] # None})
        /\ cache' = IF found
                    THEN [cache EXCEPT ![c] = [q \in Props |->
                             IF q \in Evicted(base, recursive) THEN None ELSE @[q]]]
                    ELSE cache
        /\ UNCHANGED <<wire, inbox, alive, old>>

\* Mutant of Finalize: the calls are made again and the first ones left alone.
FinalizeWithoutCancel(c) ==
    LET pending == {p \in Props : old[c][p] # NoItem /\ old[c][p].sent # None}
        changed == {p \in pending : Changes(p, old[c][p].sent)}
    IN  /\ alive[c] /\ wire[c] = <<>>
        /\ alive' = [alive EXCEPT ![c] = FALSE]
        /\ user' = [p \in Props |-> IF p \in changed THEN old[c][p].sent ELSE user[p]]
        /\ idles' = idles \o SetToSeq(changed)
        /\ cache' = [cache EXCEPT ![c] = [p \in Props |-> None]]
        /\ UNCHANGED <<wire, inbox, old>>

\* What is left of a queue without its signals.
Completions(s) ==
    LET D == {i \in DOMAIN s : s[i].done}
        Place(k) == CHOOSE i \in D : Cardinality({j \in D : j < i}) = k - 1
    IN  [k \in 1..Cardinality(D) |-> s[Place(k)]]

\* esconf_cache_finalize: the signal handler is disconnected, and every call in
\* pending_calls is cancelled and made again synchronously.
Finalize(c) ==
    LET pending == {p \in Props : old[c][p] # NoItem /\ old[c][p].sent # None}
        changed == {p \in pending : Changes(p, old[c][p].sent)}
    IN  /\ alive[c] /\ wire[c] = <<>>
        /\ alive' = [alive EXCEPT ![c] = FALSE]
        /\ user' = [p \in Props |-> IF p \in changed THEN old[c][p].sent ELSE user[p]]
        /\ idles' = idles \o SetToSeq(changed)
        /\ old' = [old EXCEPT ![c] = [p \in Props |->
                      IF p \in pending THEN [@[p] EXCEPT !.sent = None, !.cancelled = TRUE]
                      ELSE @[p]]]
        /\ cache' = [cache EXCEPT ![c] = [p \in Props |-> None]]
        /\ inbox' = [inbox EXCEPT ![c] = Completions(@)]
        /\ UNCHANGED wire

-----------------------------------------------------------------------------
(* The main loop of a client *)

\* Mutant of Completion: it returns for a property that is not cached before
\* the old item is off the table.
CompletionBails(c, m) ==
    LET p == m.prop
        item == old[c][p]
    IN  /\ m.done
        /\ \/ /\ item.count > 1 \/ cache[c][p] = None
              /\ old' = [old EXCEPT ![c][p].count = @ - 1]
              /\ UNCHANGED cache
           \/ /\ item.count = 1 /\ cache[c][p] # None
              /\ old' = [old EXCEPT ![c][p] = NoItem]
              /\ IF item.cancelled \/ m.ok
                 THEN UNCHANGED cache
                 ELSE cache' = [cache EXCEPT ![c][p] = item.before]

\* Mutant of Completion: a refused value stays in the cache.
CompletionTrusts(c, m) ==
    /\ m.done
    /\ old' = [old EXCEPT ![c][m.prop] = IF @.count > 1 THEN [@ EXCEPT !.count = @ - 1]
                                         ELSE NoItem]
    /\ UNCHANGED cache

\* Mutant of Completion: the old item stays in the table after the last reply.
CompletionKeeps(c, m) ==
    LET p == m.prop
        item == old[c][p]
    IN  /\ m.done
        /\ old' = [old EXCEPT ![c][p].count = @ - 1]
        /\ IF item.count > 1 \/ item.cancelled \/ cache[c][p] = None \/ m.ok
           THEN UNCHANGED cache
           ELSE cache' = [cache EXCEPT ![c][p] = item.before]

\* esconf_cache_set_property_reply_handler
Completion(c, m) ==
    LET p == m.prop
        item == old[c][p]
    IN  /\ m.done
        /\ \/ /\ item.count > 1
              /\ old' = [old EXCEPT ![c][p].count = @ - 1]
              /\ UNCHANGED cache
           \/ /\ item.count = 1
              /\ old' = [old EXCEPT ![c][p] = NoItem]
              /\ IF item.cancelled \/ cache[c][p] = None \/ m.ok
                 THEN UNCHANGED cache
                 ELSE cache' = [cache EXCEPT ![c][p] = item.before]

\* Mutant of SignalReceived: a removal does not reach the cache.
SignalNeverRemoves(c, m) ==
    LET p == m.prop
        ignored == m.val = None \/ old[c][p] # NoItem
    IN  /\ ~m.done
        /\ cache' = IF ignored THEN cache ELSE [cache EXCEPT ![c][p] = m.val]
        /\ UNCHANGED old

\* esconf_cache_handle_property_changed and _removed.  A change is ignored
\* while the property has an old item.
SignalReceived(c, m) ==
    LET p == m.prop
        ignored == m.val # None /\ old[c][p] # NoItem
    IN  /\ ~m.done
        /\ cache' = IF ignored THEN cache ELSE [cache EXCEPT ![c][p] = m.val]
        /\ UNCHANGED old

\* A call takes longer than the bus allows: it completes with an error, and the
\* daemon handles it all the same.
Timeout(c) ==
    /\ c \in Strays
    /\ \E i \in DOMAIN wire[c] :
          /\ ~wire[c][i].cancelled
          /\ inbox' = [inbox EXCEPT ![c] = Append(@, Reply(wire[c][i].prop, FALSE))]
          /\ wire' = [wire EXCEPT ![c][i].cancelled = TRUE]
    /\ UNCHANGED <<user, idles, alive, cache, old>>

Dispatch(c) ==
    /\ inbox[c] # <<>>
    /\ Completion(c, Head(inbox[c])) \/ SignalReceived(c, Head(inbox[c]))
    /\ inbox' = [inbox EXCEPT ![c] = Tail(@)]
    /\ UNCHANGED <<user, idles, wire, alive>>

-----------------------------------------------------------------------------
(* The "property-changed" signal of a cache, and clients outside the model *)

\* What the cache announces when its main loop handles m: a value that was put
\* back, a removal, or a value that is not the cached one.
Announces(c, m) ==
    IF m.done
    THEN ~m.ok /\ old[c][m.prop].count = 1 /\ ~old[c][m.prop].cancelled
         /\ cache[c][m.prop] # None
    ELSE m.val = None \/ (old[c][m.prop] = NoItem /\ cache[c][m.prop] # m.val)

Announced(c, m) == IF m.done THEN old[c][m.prop].before ELSE m.val

\* The cache emits in esconf_cache_set, too, when it sends the value.
SetAnnounces(c, p, v) == v \notin Unsendable /\ Known(c, p) # v

\* Another client sets or resets a property, through the daemon's handlers.
OthersSet(p, v) ==
    /\ Room /\ v \notin Unsendable /\ Changes(p, v)
    /\ user' = [user EXCEPT ![p] = v]
    /\ idles' = Append(idles, p)
    /\ UNCHANGED <<wire, inbox, alive, cache, old>>

OthersReset(p) ==
    /\ Room /\ user[p] # None
    /\ user' = [user EXCEPT ![p] = None]
    /\ idles' = Append(idles, p)
    /\ UNCHANGED <<wire, inbox, alive, cache, old>>

-----------------------------------------------------------------------------

AppCall(c) ==
    \/ \E p \in Props, v \in Values : Set(c, p, v)
    \/ \E base \in Props \cup {Root}, recursive \in BOOLEAN : Reset(c, base, recursive)
    \/ Finalize(c)

Next ==
    \/ \E c \in Clients :
          \/ AppCall(c)
          \/ \E p \in Props : Lookup(c, p)
          \/ Prefetch(c)
          \/ Handle(c)
          \/ Timeout(c)
          \/ Dispatch(c)
    \/ Emit

\* While there are messages, the daemon or a client gets round to one: each of
\* them runs its main loop, and nothing is held back for good.
Fairness ==
    WF_vars(Emit \/ \E c \in Clients : Handle(c) \/ Dispatch(c))

Spec == Init /\ [][Next]_vars /\ Fairness

-----------------------------------------------------------------------------
(* Correctness *)

Outstanding(c, p) ==
    Cardinality({i \in DOMAIN wire[c] : IsLive(wire[c][i], p)})
    + Cardinality({i \in DOMAIN inbox[c] : inbox[c][i].done /\ inbox[c][i].prop = p})

\* An old item counts the completions still to come, exactly: it is freed by
\* the last of them and not before, and none finds it gone
\* (pending_calls_count in esconf_cache_set and the reply handler).
CallsAccounted ==
    \A c \in Clients, p \in Props :
        Outstanding(c, p) = old[c][p].count

\* Signals about a property are ignored only while a call is outstanding, so
\* that a reply will end the silence.
MutedOnlyWhileCalling ==
    \A c \in Clients, p \in Props :
        alive[c] /\ old[c][p] # NoItem => Outstanding(c, p) > 0

\* Nothing under way about p between the daemon and the client.
Settled(c, p) ==
    /\ \A i \in DOMAIN wire[c] : wire[c][i].prop # p
    /\ \A i \in DOMAIN inbox[c] : inbox[c][i].prop # p
    /\ \A i \in DOMAIN idles : idles[i] # p

\* With nothing under way, a cached value is the daemon's: no interleaving of
\* sets, cancellations, refusals, resets and other clients' changes, calls that
\* timed out on those among them, leaves a client with a value that no message
\* will correct.
Coherent ==
    \A c \in Clients \ Strays, p \in Props :
        alive[c] /\ Settled(c, p) => cache[c][p] \in {None, Stored(p)}

\* A completion that runs after its cache is freed finds its item cancelled,
\* and so leaves the cache alone (esconf_cache_finalize).
NoUseAfterFinalize ==
    \A c \in Clients, p \in Props :
        ~alive[c] /\ Outstanding(c, p) > 0 => old[c][p].cancelled

\* When applications stop changing things, the caches settle on the daemon's
\* values.
EventuallyCoherent ==
    <>[][\A c \in Clients : ~AppCall(c)]_vars =>
        <>[](\A c \in Clients \ Strays, p \in Props :
                alive[c] => cache[c][p] \in {None, Stored(p)})
=============================================================================
