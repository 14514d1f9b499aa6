-------------------------- MODULE GSettingsProofs --------------------------
(***************************************************************************)
(* Theorems of the GSettings backend, for any keys, values, trees and      *)
(* subscriptions: its listeners end up with what the daemon holds, and a   *)
(* tree that is announced has been written as a whole.                     *)
(*                                                                         *)
(* What GSettings knows of a key follows the cache of the process (Aware), *)
(* which module CacheProofs shows to be in step with the daemon.           *)
(***************************************************************************)
EXTENDS GSettingsBackend, CacheProofs

LEMMA HostIsClient == Host \in Clients
  BY GSettingsAssumption

-----------------------------------------------------------------------------
(* Types *)

TableTypes ==
    /\ changed_prop \in [Props -> Tags \cup {NoTag}]
    /\ subscribed_prop \subseteq Subscriptions
    /\ tree \in Tree \cup {NoTree}
    /\ known \in [Props -> Values \cup {None, Told, Unheard}]

LEMMA KnownType ==
    ASSUME TypeOK, NEW k \in Props PROVE Known(Host, k) \in MaybeValue
  BY HostIsClient, StoredType DEF Known, TypeOK

LEMMA TreeTypes ==
    /\ NoTree.left = {} /\ NoTree.all = {} /\ NoTree.ok = FALSE
    /\ \A t \in Tree : /\ t # NoTree /\ t.left \subseteq Node /\ t.all \subseteq Node
                       /\ t.ok \in BOOLEAN
    /\ \A t \in Tree, n \in Node :
          /\ [t EXCEPT !.ok = FALSE] \in Tree
          /\ [t EXCEPT !.left = @ \ {n}] \in Tree
    /\ \A n \in Node : n.key \in Props /\ n.val \in Values
<1>1. ASSUME NEW t \in Tree PROVE t # NoTree
  <2>1. DOMAIN t = {"left", "all", "ok", "tag"} /\ DOMAIN NoTree = {"left", "all", "ok"}
    BY DEF Tree, NoTree
  <2>2. "tag" \notin {"left", "all", "ok"}
    OBVIOUS
  <2> QED BY <2>1, <2>2
<1>2. ASSUME NEW t \in Tree, NEW n \in Node
      PROVE  [t EXCEPT !.ok = FALSE] \in Tree /\ [t EXCEPT !.left = @ \ {n}] \in Tree
  BY DEF Tree
<1> QED BY <1>1, <1>2 DEF Tree, NoTree, Node

LEMMA TreesAreNodes ==
    ASSUME NEW nodes \in Trees
    PROVE  /\ nodes \subseteq Node
           /\ \A n \in nodes : n.key \in Props /\ n.val \in Values \ Unsendable
           /\ \A n, o \in nodes : n.key = o.key => n = o
  BY GSettingsAssumption DEF Node

-----------------------------------------------------------------------------
(* What the steps are to the cache *)

\* The cache's own steps that the backend and the others take.
CacheStep ==
    \/ Dispatch(Host) \/ Handle(Host) \/ Emit \/ Finalize(Host) \/ UNCHANGED vars
    \/ \E k \in Props : \/ Lookup(Host, k) \/ Reset(Host, k, TRUE) \/ OthersReset(k)
                        \/ \E v \in Values : \/ OthersSet(k, v)
                                             \/ Set(Host, k, v) /\ v \notin Unsendable

LEMMA NodeWritten ==
    ASSUME tree \in Tree, tree.all \in Trees, tree.left \subseteq tree.all, WriteNode
    PROVE  \E n \in tree.left :
              /\ n.key \in Props /\ n.val \in Values \ Unsendable
              /\ WriteFull(n.key, n.val, changed_prop[n.key], changed_prop[n.key])
              /\ tree' = IF n.key \in Rejected THEN [tree EXCEPT !.ok = FALSE]
                         ELSE [tree EXCEPT !.left = @ \ {n}]
  BY TreesAreNodes DEF WriteNode

\* The nodes still to write are of a tree that GSettings asked for.
TreeInv ==
    /\ tree \in Tree \cup {NoTree}
    /\ tree # NoTree =>
          /\ tree.left \subseteq tree.all /\ tree.all \in Trees
          /\ \A n \in tree.all \ tree.left : cache[Host][n.key] = n.val

LEMMA StepIsCacheStep ==
    ASSUME TypeOK, TreeInv, [GSettingsNext]_allVars PROVE CacheStep
<1>1. ASSUME NEW k \in Props, Read(k) PROVE CacheStep
  <2>1. Lookup(Host, k) \/ UNCHANGED vars
    BY <1>1, HostIsClient, LookupOrIdle DEF Read, Idle
  <2> QED BY <2>1 DEF CacheStep
<1>2. CASE WriteNode
  <2>1. tree \in Tree /\ tree.left \subseteq tree.all /\ tree.all \in Trees
    BY <1>2 DEF WriteNode, TreeInv
  <2>2. PICK n \in tree.left : /\ n.key \in Props /\ n.val \in Values \ Unsendable
                               /\ WriteFull(n.key, n.val, changed_prop[n.key], changed_prop[n.key])
    BY <1>2, <2>1, NodeWritten
  <2> QED BY <2>2 DEF WriteFull, CacheStep
<1>3. ASSUME NEW k \in Props, NEW tag, NEW v, ResetKey(k, tag) \/ (v \in Values /\ Write(k, v, tag))
      PROVE  CacheStep
  BY <1>3 DEF ResetKey, Write, WriteFull, CacheStep
<1>4. CASE UNCHANGED vars
  BY <1>4 DEF CacheStep
<1>5. CASE HostDispatch \/ Daemon \/ FinalizeBackend
  BY <1>5 DEF HostDispatch, Daemon, FinalizeBackend, CacheStep
<1>6. CASE Others
  BY <1>6 DEF Others, CacheStep
<1> QED BY <1>1, <1>2, <1>3, <1>4, <1>5, <1>6
        DEF GSettingsNext, Request, WriteTree, TreeWritten, Subscribe, Unsubscribe, allVars, vars

LEMMA CacheStepCalls ==
    ASSUME CallInv, CacheStep PROVE CallInv'
<1>1. CASE Dispatch(Host) \/ Handle(Host) \/ Emit \/ Finalize(Host) \/ UNCHANGED vars
  BY <1>1, HostIsClient, DispatchStep, HandleStep, EmitStep, FinalizeStep, IdleKeeps
<1>2. ASSUME NEW k \in Props, Lookup(Host, k) \/ Reset(Host, k, TRUE) PROVE CallInv'
  <2>1. k \in Props \cup {Root} /\ TRUE \in BOOLEAN
    OBVIOUS
  <2> QED BY <1>2, <2>1, HostIsClient, LookupStep, ResetStep
<1>3. ASSUME NEW k \in Props, NEW v, OthersReset(k) \/ (v \in Values /\ OthersSet(k, v))
      PROVE  CallInv'
  BY <1>3, OthersKeep
<1>4. ASSUME NEW k \in Props, NEW v \in Values, Set(Host, k, v) PROVE CallInv'
  BY <1>4, HostIsClient, SetStep
<1> QED BY <1>1, <1>2, <1>3, <1>4 DEF CacheStep

\* The cache of the process stays in step: everything it sets can be sent.
HostInStep == LocksHold /\ \A k \in Props : InStep(Host, k)

LEMMA CacheStepKeeps ==
    ASSUME CallInv, CallInv', HostInStep, CacheStep PROVE HostInStep'
<1>1. LocksHold /\ Host \in Clients
  BY HostIsClient DEF HostInStep
<1>2. CASE KeepsStep
  BY <1>1, <1>2 DEF KeepsStep, HostInStep
<1>3. CASE Dispatch(Host) \/ Handle(Host) \/ Emit \/ Finalize(Host) \/ UNCHANGED vars
  BY <1>1, <1>2, <1>3, DispatchKeeps, HandleKeeps, EmitKeeps, FinalizeKeeps, IdleKeeps
<1>4. ASSUME NEW k \in Props, Lookup(Host, k) \/ Reset(Host, k, TRUE) PROVE HostInStep'
  <2>1. k \in Props \cup {Root} /\ TRUE \in BOOLEAN
    OBVIOUS
  <2> QED BY <1>1, <1>2, <1>4, <2>1, LookupKeeps, ResetKeeps
<1>5. ASSUME NEW k \in Props, NEW v, OthersReset(k) \/ (v \in Values /\ OthersSet(k, v))
      PROVE  HostInStep'
  BY <1>1, <1>2, <1>5, OthersKeep
<1>6. ASSUME NEW k \in Props, NEW v \in Values, Set(Host, k, v), v \notin Unsendable
      PROVE  HostInStep'
  BY <1>1, <1>6, SetKeeps DEF HostInStep
<1> QED BY <1>3, <1>4, <1>5, <1>6 DEF CacheStep

-----------------------------------------------------------------------------
(* Trees *)

LEMMA SetCaches ==
    ASSUME TypeOK, NEW k \in Props, NEW v \in Values, Set(Host, k, v), v \notin Unsendable
    PROVE  /\ cache'[Host][k] = v
           /\ \A q \in Props : q # k => cache'[Host][q] = cache[Host][q]
<1>1. cache' = [cache EXCEPT ![Host][k] = v]
  BY DEF Set, SetSent, SetUnsent
<1> QED BY <1>1, HostIsClient DEF TypeOK

LEMMA TreeWriteStep ==
    ASSUME TypeOK, TreeInv, WriteNode PROVE TreeInv'
<1>1. tree \in Tree /\ tree # NoTree /\ tree.left \subseteq tree.all /\ tree.all \in Trees
  BY DEF WriteNode, TreeInv
<1>2. PICK n \in tree.left :
        /\ n.key \in Props /\ n.val \in Values \ Unsendable
        /\ WriteFull(n.key, n.val, changed_prop[n.key], changed_prop[n.key])
        /\ tree' = IF n.key \in Rejected THEN [tree EXCEPT !.ok = FALSE]
                   ELSE [tree EXCEPT !.left = @ \ {n}]
  BY <1>1, NodeWritten
<1>3. n \in Node
  BY <1>1, TreeTypes
<1>4. tree' \in Tree /\ tree'.all = tree.all
  <2>1. [tree EXCEPT !.ok = FALSE].all = tree.all /\ [tree EXCEPT !.left = @ \ {n}].all = tree.all
    BY <1>1 DEF Tree
  <2> QED BY <1>1, <1>2, <1>3, <2>1, TreeTypes
<1>5. CASE n.key \in Rejected
  <2>1. tree'.left = tree.left /\ cache' = cache
    BY <1>1, <1>2, <1>5 DEF Tree, WriteFull, vars
  <2>2. \A o \in tree'.all \ tree'.left : cache'[Host][o.key] = o.val
    BY <1>1, <1>4, <2>1 DEF TreeInv
  <2> QED BY <1>1, <1>4, <2>1, <2>2 DEF TreeInv
<1>6. CASE n.key \notin Rejected
  <2>1. tree'.left = tree.left \ {n}
    BY <1>1, <1>2, <1>6 DEF Tree
  <2>2. Set(Host, n.key, n.val)
    BY <1>2, <1>6 DEF WriteFull
  <2>3. /\ cache'[Host][n.key] = n.val
        /\ \A q \in Props : q # n.key => cache'[Host][q] = cache[Host][q]
    BY <1>2, <2>2, SetCaches
  <2>4. ASSUME NEW o \in tree.all, o \notin tree.left \ {n} PROVE cache'[Host][o.key] = o.val
    <3>1. CASE o = n
      BY <2>3, <3>1
    <3>2. CASE o # n
      <4>1. o.key # n.key /\ o.key \in Props
        BY <1>1, <3>2, TreesAreNodes
      <4>2. cache[Host][o.key] = o.val
        BY <1>1, <2>4, <3>2, TreeTypes DEF TreeInv
      <4> QED BY <2>3, <4>1, <4>2
    <3> QED BY <3>1, <3>2
  <2> QED BY <1>1, <1>4, <2>1, <2>4 DEF TreeInv
<1> QED BY <1>5, <1>6

LEMMA TreeStep ==
    ASSUME TypeOK, TreeInv, [GSettingsNext]_allVars PROVE TreeInv'
<1>1. CASE WriteNode
  BY <1>1, TreeWriteStep
<1>2. ASSUME NEW nodes \in Trees, NEW tag \in Tags, WriteTree(nodes, tag) PROVE TreeInv'
  <2>1. tree' = [left |-> nodes, all |-> nodes, ok |-> TRUE, tag |-> tag]
    BY <1>2 DEF WriteTree
  <2>2. tree' \in Tree /\ tree'.left = nodes /\ tree'.all = nodes
    BY <2>1, TreesAreNodes DEF Tree
  <2> QED BY <2>2 DEF TreeInv
<1>3. CASE tree' = NoTree
  BY <1>3 DEF TreeInv
<1>4. CASE UNCHANGED <<tree, cache>>
  BY <1>4 DEF TreeInv
<1>5. CASE tree = NoTree /\ tree' = tree
  BY <1>5 DEF TreeInv
<1> QED BY <1>1, <1>2, <1>3, <1>4, <1>5
        DEF GSettingsNext, HostDispatch, Daemon, Handle, Emit, Others, OthersSet, OthersReset,
            Request, ResetKey, Write, TreeWritten, Read, Subscribe, Unsubscribe, FinalizeBackend,
            Idle, allVars, vars, gsettingsVars

LEMMA CallsAndTrees == GSettingsSpec => [](CallInv /\ TreeInv)
<1>1. GSettingsInit => CallInv /\ TreeInv
  <2>1. Default \in [Props -> MaybeValue]
    BY PropsAssumption DEF MaybeValue
  <2> QED BY <2>1, CallInvInit DEF GSettingsInit, TreeInv
<1>2. (CallInv /\ TreeInv) /\ [GSettingsNext]_allVars => (CallInv /\ TreeInv)'
  <2>1. CallInv => TypeOK
    BY DEF CallInv
  <2> QED BY <2>1, StepIsCacheStep, CacheStepCalls, TreeStep
<1> QED BY <1>1, <1>2, PTL DEF GSettingsSpec

\* When GSettings is told of a tree, the cache holds every value of it: the
\* nodes that count as handled are all of them, and nothing came in between
\* (esconf_gsettings_backend_write_tree and its traversal).
THEOREM ToldTreesAreWhole == GSettingsSpec => TreesAreWhole
<1>1. ASSUME TreeInv, TreeWritten, tree.ok, NEW n \in tree.all
      PROVE  cache[Host][n.key] = n.val
  <2>1. tree # NoTree /\ tree.left = {}
    BY <1>1 DEF TreeWritten
  <2> QED BY <1>1, <2>1 DEF TreeInv
<1>2. TreeInv => [TreeWritten /\ tree.ok => \A n \in tree.all : cache[Host][n.key] = n.val]_allVars
  BY <1>1
<1> QED BY <1>2, CallsAndTrees, PTL DEF TreesAreWhole

-----------------------------------------------------------------------------
(* What GSettings knows *)

\* What GSettings takes a key for is right, or it is to hear otherwise.
Awaited(k) == NoCall(Host, k) /\ (Coming(k) \/ OnItsWay(Host, k) \/ Stored(k) = known[k])

\* GSettings is to hear of the key, or holds what the cache does; of a key that
\* is not cached it is to hear, for any signal about it is then announced.
Aware(k) ==
    alive[Host] /\ Subscribed(k) =>
        \/ known[k] \in {Told, Unheard}
        \/ known[k] # None /\ known[k] = cache[Host][k]
        \/ cache[Host][k] = None /\ Awaited(k)

AwareInv == TableTypes /\ HostInStep /\ \A k \in Props : Aware(k)

LEMMA AwaitedApart ==
    ASSUME NEW k, Awaited(k), Same(wire[Host], wire'[Host], k),
           Same(inbox[Host], inbox'[Host], k), Heralded(k), TypeOK, TypeOK',
           known'[k] = known[k]
    PROVE  Awaited(k)'
<1>1. NoCall(Host, k)'
  BY DEF Awaited, NoCall, Same
<1>2. CASE Coming(k)'
  BY <1>1, <1>2 DEF Awaited
<1>3. CASE Stored(k)' = Stored(k) /\ ~Coming(k)
  <2>1. ASSUME OnItsWay(Host, k) PROVE OnItsWay(Host, k)'
    <3>1. PICK e \in {0, 1} :
            /\ \A j \in DOMAIN inbox[Host] :
                   inbox[Host][j].prop = k =>
                       j - e \in DOMAIN inbox'[Host] /\ inbox'[Host][j - e] = inbox[Host][j]
            /\ \A j \in DOMAIN inbox'[Host] :
                   inbox'[Host][j].prop = k =>
                       j + e \in DOMAIN inbox[Host] /\ inbox[Host][j + e] = inbox'[Host][j]
      BY DEF Same
    <3>2. PICK i \in DOMAIN inbox[Host] :
            /\ inbox[Host][i].prop = k /\ ~inbox[Host][i].done /\ inbox[Host][i].val = Stored(k)
            /\ \A j \in DOMAIN inbox[Host] : j > i => inbox[Host][j].prop # k
      BY <2>1 DEF OnItsWay
    <3>3. i \in Int /\ \A j \in DOMAIN inbox'[Host] : j \in Int
      BY HostIsClient DEF TypeOK
    <3>4. \A j \in DOMAIN inbox'[Host] : j > i - e => inbox'[Host][j].prop # k
      <4> SUFFICES ASSUME NEW j \in DOMAIN inbox'[Host], j > i - e, inbox'[Host][j].prop = k
                   PROVE  FALSE
        OBVIOUS
      <4>1. j + e \in DOMAIN inbox[Host] /\ inbox[Host][j + e].prop = k
        BY <3>1
      <4>2. j + e > i
        BY <3>2, <3>3
      <4> QED BY <3>2, <4>1, <4>2
    <3> QED BY <1>3, <3>1, <3>2, <3>4 DEF OnItsWay
  <2> QED BY <1>1, <1>3, <2>1 DEF Awaited
<1> QED BY <1>2, <1>3 DEF Heralded

LEMMA AwareAside ==
    ASSUME TypeOK, TypeOK', NEW k, Aware(k), Subscribed(k)' => Subscribed(k), alive'[Host] => alive[Host],
           known'[k] = known[k], cache'[Host][k] = cache[Host][k], Apart(Host, k)
    PROVE  Aware(k)'
  BY AwaitedApart DEF Aware, Apart

LEMMA AwareTold == ASSUME NEW k, known'[k] \in {Told, Unheard} PROVE Aware(k)'
  BY DEF Aware

\* A step that is not one of the cache.
LEMMA AwareIdle ==
    ASSUME TypeOK, NEW k \in Props, Aware(k), UNCHANGED vars, Subscribed(k)' => Subscribed(k),
           known'[k] = known[k]
    PROVE  Aware(k)'
<1>1. UNCHANGED <<user, idles, wire, inbox, alive, cache, old>>
  BY DEF vars
<1>2. TypeOK' /\ Apart(Host, k)
  BY <1>1, HostIsClient, AloneApart, NothingTold DEF TypeOK
<1> QED BY <1>1, <1>2, AwareAside

LEMMA AwareDispatch ==
    ASSUME CallInv, CallInv', AwareInv, HostDispatch, NEW k \in Props PROVE Aware(k)'
<1>1. /\ Host \in Clients /\ TypeOK /\ TypeOK' /\ LocksHold /\ Aware(k) /\ InStep(Host, k)
      /\ Dispatch(Host) /\ alive[Host] /\ known \in [Props -> Values \cup {None, Told, Unheard}]
      /\ subscribed_prop' = subscribed_prop
  BY HostIsClient DEF CallInv, AwareInv, HostInStep, TableTypes, HostDispatch, Idle
<1>2. inbox[Host] \in Seq(Messages) /\ inbox[Host] # <<>> /\ UNCHANGED <<user, idles, wire, alive>>
  BY <1>1 DEF Dispatch, TypeOK, Messages
<1>3. PICK m \in Messages : m = Head(inbox[Host]) /\ m = inbox[Host][1] /\ 1 \in DOMAIN inbox[Host]
  BY <1>2, TailAt
<1>4. IF Announces(Host, m) THEN PropertyChanged(m.prop, changed_prop[m.prop])
      ELSE UNCHANGED <<changed_prop, known>>
  BY <1>3 DEF HostDispatch
<1>5. Subscribed(k)' = Subscribed(k)
  BY <1>1 DEF Subscribed
<1>6. CASE m.prop # k
  <2>1. Apart(Host, k) /\ cache'[Host][k] = cache[Host][k]
    BY <1>1, <1>3, <1>6, DispatchKeeps
  <2>2. known'[k] = known[k]
    BY <1>1, <1>4, <1>6 DEF PropertyChanged
  <2> QED BY <1>1, <1>2, <1>5, <2>1, <2>2, AwareAside
<1>7. CASE m.prop = k
  <2> SUFFICES ASSUME Subscribed(k) PROVE Aware(k)'
    BY <1>5 DEF Aware
  <2>1. CASE Announces(Host, m)
    BY <1>1, <1>4, <1>7, <2>1, AwareTold DEF PropertyChanged, Emits
  <2>2. CASE ~Announces(Host, m)
    <3>1. known' = known
      BY <1>4, <2>2
    <3>2. Completion(Host, m) \/ SignalReceived(Host, m)
      BY <1>1, <1>3 DEF Dispatch
    <3>3. cache'[Host][k] = cache[Host][k]
      BY <1>1, <1>7, <2>2, <3>2 DEF Completion, SignalReceived, Announces, TypeOK
    <3>4. ASSUME cache[Host][k] = None, Awaited(k) PROVE Awaited(k)'
      <4>1. Awaited(k) /\ cache[Host][k] = None
        BY <3>4
      <4>2. NoCall(Host, k)' /\ (Coming(k) => Coming(k)') /\ Stored(k)' = Stored(k)
        BY <1>2, <4>1 DEF Awaited, NoCall, Coming, Stored
      <4>3. ASSUME OnItsWay(Host, k) PROVE OnItsWay(Host, k)'
        <5>1. PICK i \in DOMAIN inbox[Host] :
                /\ inbox[Host][i].prop = k /\ ~inbox[Host][i].done
                /\ inbox[Host][i].val = Stored(k)
                /\ \A j \in DOMAIN inbox[Host] : j > i => inbox[Host][j].prop # k
          BY <4>3 DEF OnItsWay
        <5>2. inbox'[Host] = Tail(inbox[Host])
          BY <1>1 DEF Dispatch, TypeOK
        <5>3. i # 1
          <6> SUFFICES ASSUME i = 1 PROVE FALSE
            OBVIOUS
          <6>1. ~m.done /\ m.val = Stored(k) /\ m.val # None
            BY <1>3, <1>7, <2>2, <5>1 DEF Announces
          <6>2. \A j \in DOMAIN inbox[Host] : j = 1 \/ j > 1
            BY <1>2, TailAt
          <6>3. \A j \in DOMAIN inbox[Host] : inbox[Host][j].prop = k => ~inbox[Host][j].done
            BY <5>1, <6>2
          <6>4. old[Host][k] = NoItem
            <7>1. ItemCounted(Host, k) /\ NoCall(Host, k)
              BY <1>1, <4>1 DEF InStep, Awaited
            <7> QED BY <1>1, <6>3, <7>1, NoneCounted
          <6> QED BY <1>7, <2>2, <4>1, <6>1, <6>4 DEF Announces
        <5>4. i - 1 \in DOMAIN Tail(inbox[Host]) /\ Tail(inbox[Host])[i - 1] = inbox[Host][i]
              /\ i \in Nat
          BY <1>2, <5>3, TailAt
        <5>5. \A j \in DOMAIN Tail(inbox[Host]) :
                  /\ j \in Nat /\ j + 1 \in DOMAIN inbox[Host]
                  /\ Tail(inbox[Host])[j] = inbox[Host][j + 1]
          BY <1>2, TailAt
        <5>6. \A j \in DOMAIN Tail(inbox[Host]) : j > i - 1 => Tail(inbox[Host])[j].prop # k
          BY <5>1, <5>4, <5>5
        <5> QED BY <4>2, <5>1, <5>2, <5>4, <5>6 DEF OnItsWay
      <4> QED BY <3>1, <4>1, <4>2, <4>3 DEF Awaited
    <3> QED BY <1>1, <3>1, <3>3, <3>4 DEF Aware
  <2> QED BY <2>1, <2>2
<1> QED BY <1>6, <1>7

LEMMA AwareDaemon ==
    ASSUME CallInv, CallInv', AwareInv, Daemon, NEW k \in Props PROVE Aware(k)'
<1>1. /\ Host \in Clients /\ TypeOK /\ TypeOK' /\ LocksHold /\ Aware(k)
      /\ UNCHANGED <<alive, cache, old, known, subscribed_prop>>
  BY HostIsClient
     DEF CallInv, AwareInv, HostInStep, Daemon, Handle, Emit, gsettingsVars
<1>2. Subscribed(k)' = Subscribed(k)
  BY <1>1 DEF Subscribed
<1>3. CASE ~alive[Host]
  BY <1>1, <1>3 DEF Aware
<1>4. CASE alive[Host] /\ Handle(Host)
  <2>1. CASE Head(wire[Host]).prop # k
    <3>1. Apart(Host, k)
      BY <1>1, <1>4, <2>1, HandleKeeps
    <3> QED BY <1>1, <1>2, <3>1, AwareAside
  <2>2. CASE Head(wire[Host]).prop = k
    <3>1. 1 \in DOMAIN wire[Host] /\ wire[Host][1] = Head(wire[Host])
      BY <1>1, <1>4 DEF Handle, TypeOK
    <3>2. ~NoCall(Host, k)
      BY <2>2, <3>1 DEF NoCall
    <3> QED BY <1>1, <1>2, <3>2 DEF Aware, Awaited
  <2> QED BY <2>1, <2>2
<1>5. CASE alive[Host] /\ Emit
  <2>1. CASE Head(idles) # k
    <3>1. Apart(Host, k)
      BY <1>1, <1>5, <2>1, EmitKeeps
    <3> QED BY <1>1, <1>2, <3>1, AwareAside
  <2>2. CASE Head(idles) = k
    <3>1. inbox'[Host] = Append(inbox[Host], SignalOf(k)) /\ UNCHANGED <<user, wire>>
      BY <1>1, <1>5, <2>2 DEF Emit
    <3>2. PICK r \in Messages : r = SignalOf(k) /\ ~r.done /\ r.prop = k /\ r.val = Stored(k)
      BY <1>1, SignalType DEF TypeOK
    <3>3. inbox[Host] \in Seq(Messages)
      BY <1>1 DEF TypeOK, Messages
    <3> DEFINE n == Len(inbox[Host]) + 1
    <3>4. /\ n \in DOMAIN inbox'[Host] /\ inbox'[Host][n] = r
          /\ \A j \in DOMAIN inbox'[Host] : ~(j > n)
      BY <3>1, <3>2, <3>3
    <3> HIDE DEF n
    <3>5. OnItsWay(Host, k)'
      <4>1. Stored(k)' = Stored(k)
        BY <3>1 DEF Stored
      <4> QED BY <3>2, <3>4, <4>1 DEF OnItsWay
    <3>6. Awaited(k) => Awaited(k)'
      BY <3>1, <3>5 DEF Awaited, NoCall
    <3> QED BY <1>1, <1>2, <1>5, <3>6 DEF Aware
  <2> QED BY <2>1, <2>2
<1> QED BY <1>3, <1>4, <1>5 DEF Daemon

LEMMA AwareRead ==
    ASSUME CallInv, CallInv', AwareInv, NEW q \in Props, Read(q), NEW k \in Props PROVE Aware(k)'
<1>1. /\ Host \in Clients /\ TypeOK /\ TypeOK' /\ Aware(k)
      /\ cache[Host][q] = None => wire[Host] = <<>>
      /\ cache' = [cache EXCEPT ![Host][q] = Known(Host, q)]
      /\ known' = [known EXCEPT ![q] = Known(Host, q)]
      /\ UNCHANGED <<user, idles, wire, inbox, alive, old, subscribed_prop>>
      /\ known \in [Props -> Values \cup {None, Told, Unheard}]
  BY HostIsClient DEF CallInv, AwareInv, TableTypes, Read
<1>2. Subscribed(k)' = Subscribed(k)
  BY <1>1 DEF Subscribed
<1>3. CASE q # k
  <2>1. known'[k] = known[k] /\ cache'[Host][k] = cache[Host][k]
    BY <1>1, <1>3 DEF TypeOK
  <2>2. Apart(Host, k)
    BY <1>1, <2>1, AloneApart, NothingTold
  <2> QED BY <1>1, <1>2, <2>1, <2>2, AwareAside
<1>4. CASE q = k
  <2>1. known'[k] = Known(Host, k) /\ cache'[Host][k] = Known(Host, k)
    BY <1>1, <1>4 DEF TypeOK
  <2>2. ASSUME Known(Host, k) = None PROVE Awaited(k)'
    <3>1. Stored(k) = None /\ wire[Host] = <<>>
      BY <1>1, <1>4, <2>2 DEF Known
    <3> QED BY <1>1, <2>1, <2>2, <3>1 DEF Awaited, NoCall, Stored
  <2> QED BY <2>1, <2>2 DEF Aware
<1> QED BY <1>3, <1>4

LEMMA AwareWrite ==
    ASSUME CallInv, CallInv', AwareInv, NEW q \in Props, NEW v \in Values \ Unsendable, NEW entry, NEW left,
           WriteFull(q, v, entry, left), subscribed_prop' = subscribed_prop, NEW k \in Props
    PROVE  Aware(k)'
<1>1. /\ Host \in Clients /\ TypeOK /\ TypeOK' /\ Aware(k)
      /\ known \in [Props -> Values \cup {None, Told, Unheard}]
      /\ Subscribed(k)' = Subscribed(k)
  BY HostIsClient DEF CallInv, AwareInv, TableTypes, Subscribed
<1>2. CASE q \in Rejected
  BY <1>1, <1>2, AwareIdle DEF WriteFull
<1>3. CASE q \notin Rejected
  <2>1. /\ Set(Host, q, v) /\ alive' = alive
        /\ IF SetAnnounces(Host, q, v) THEN PropertyChanged(q, entry)
           ELSE known' = [known EXCEPT ![q] = v]
    BY <1>3 DEF WriteFull, Set
  <2>2. CASE q # k
    <3>1. Apart(Host, k) /\ cache'[Host][k] = cache[Host][k]
      BY <1>1, <2>1, <2>2, SetApart
    <3>2. known'[k] = known[k]
      BY <1>1, <2>1, <2>2 DEF PropertyChanged
    <3> QED BY <1>1, <2>1, <3>1, <3>2, AwareAside
  <2>3. CASE q = k
    <3> SUFFICES ASSUME Subscribed(k) PROVE Aware(k)'
      BY <1>1 DEF Aware
    <3>1. CASE SetAnnounces(Host, q, v)
      BY <1>1, <2>1, <2>3, <3>1, AwareTold DEF PropertyChanged, Emits
    <3>2. CASE ~SetAnnounces(Host, q, v)
      <4>1. known'[k] = v /\ v # None
        BY <1>1, <2>1, <2>3, <3>2, PropsAssumption
      <4>2. cache'[Host][k] = v
        BY <1>1, <2>1, <2>3, SetCaches
      <4> QED BY <4>1, <4>2 DEF Aware
    <3> QED BY <3>1, <3>2
  <2> QED BY <2>2, <2>3
<1> QED BY <1>2, <1>3

LEMMA AwareReset ==
    ASSUME CallInv, CallInv', AwareInv, NEW q \in Props, NEW tag, ResetKey(q, tag), NEW k \in Props
    PROVE  Aware(k)'
<1>1. /\ Host \in Clients /\ TypeOK /\ TypeOK' /\ LocksHold /\ Aware(k) /\ InStep(Host, k)
      /\ known \in [Props -> Values \cup {None, Told, Unheard}]
      /\ subscribed_prop' = subscribed_prop
      /\ known'[k] = IF RefusalLost(k) THEN Unheard ELSE known[k]
  BY HostIsClient DEF CallInv, AwareInv, TableTypes, HostInStep, ResetKey
<1>2. Subscribed(k)' = Subscribed(k)
  BY <1>1 DEF Subscribed
<1>3. CASE RefusalLost(k)
  BY <1>1, <1>3, AwareTold
<1>4. CASE ~RefusalLost(k) /\ q \in Rejected
  BY <1>1, <1>2, <1>4, AwareIdle DEF ResetKey
<1>5. CASE ~RefusalLost(k) /\ q \notin Rejected
  <2>1. /\ Reset(Host, q, TRUE) /\ alive[Host] /\ UNCHANGED <<alive, wire, inbox, old>>
        /\ wire[Host] = <<>> /\ known'[k] = known[k]
    BY <1>1, <1>5 DEF ResetKey, Reset
  <2>2. q \in Props \cup {Root} /\ TRUE \in BOOLEAN
    OBVIOUS
  <2>3. Apart(Host, k) /\ cache'[Host][k] \in {None, cache[Host][k]}
    BY <1>1, <2>1, <2>2, ResetKeeps
  <2>4. CASE cache'[Host][k] = cache[Host][k]
    BY <1>1, <1>2, <2>1, <2>3, <2>4, AwareAside
  <2>5. CASE cache'[Host][k] # cache[Host][k]
    <3> SUFFICES ASSUME Subscribed(k), known[k] \notin {Told, Unheard} PROVE Aware(k)'
      BY <1>2, <2>1 DEF Aware
    <3>1. cache'[Host][k] = None /\ cache[Host][k] # None /\ known[k] = cache[Host][k]
      BY <1>1, <2>1, <2>3, <2>5 DEF Aware
    <3>2. NoCall(Host, k) /\ NoCall(Host, k)' /\ ~Ahead(Host, k)
      BY <2>1 DEF NoCall, Ahead
    <3>3. Coming(k)' \/ (Stored(k)' = Stored(k) /\ ~Coming(k))
      BY <2>3 DEF Apart, Heralded
    <3>4. CASE Stored(k)' = Stored(k) /\ ~Coming(k)
      <4>1. Stored(k) = known[k] \/ OnItsWay(Host, k)
        <5>1. CASE k \in Locked
          <6>1. old[Host][k] = NoItem
            BY <1>5, <2>5, <5>1 DEF RefusalLost
          <6> QED BY <1>1, <2>1, <3>1, <5>1, <6>1 DEF InStep, Synced, Refused
        <5>2. CASE k \notin Locked
          BY <1>1, <2>1, <3>1, <3>2, <3>4, <5>2 DEF InStep, Synced, Fresh, Current
        <5> QED BY <5>1, <5>2
      <4>2. OnItsWay(Host, k) => OnItsWay(Host, k)'
        BY <2>1, <3>4 DEF OnItsWay
      <4> QED BY <2>1, <3>1, <3>2, <3>4, <4>1, <4>2 DEF Aware, Awaited
    <3> QED BY <3>1, <3>2, <3>3, <3>4 DEF Aware, Awaited
  <2> QED BY <2>4, <2>5
<1> QED BY <1>3, <1>4, <1>5

LEMMA AwareStep ==
    ASSUME CallInv, CallInv', TreeInv, AwareInv, [GSettingsNext]_allVars, NEW k \in Props
    PROVE  Aware(k)'
<1>1. /\ Host \in Clients /\ TypeOK /\ TypeOK' /\ Aware(k)
      /\ known \in [Props -> Values \cup {None, Told, Unheard}]
  BY HostIsClient DEF CallInv, AwareInv, TableTypes
<1>2. ASSUME NEW q \in Props, NEW v, OthersReset(q) \/ (v \in Values /\ OthersSet(q, v)),
             UNCHANGED gsettingsVars
      PROVE  Aware(k)'
  <2>1. Apart(Host, k)
    BY <1>1, <1>2, OthersKeep
  <2>2. UNCHANGED <<alive, cache, known, subscribed_prop>>
    BY <1>2 DEF OthersReset, OthersSet, gsettingsVars
  <2> QED BY <1>1, <2>1, <2>2, AwareAside DEF Subscribed
<1>3. CASE WriteNode
  <2>1. tree \in Tree /\ tree.left \subseteq tree.all /\ tree.all \in Trees
    BY <1>3 DEF WriteNode, TreeInv
  <2>2. PICK n \in tree.left : /\ n.key \in Props /\ n.val \in Values \ Unsendable
                               /\ WriteFull(n.key, n.val, changed_prop[n.key], changed_prop[n.key])
    BY <1>3, <2>1, NodeWritten
  <2> QED BY <1>3, <2>2, AwareWrite DEF WriteNode
<1>4. ASSUME NEW q \in Props, NEW v \in Values, NEW tag \in Tags, Write(q, v, tag)
      PROVE  Aware(k)'
  BY <1>4, AwareWrite DEF Write
<1>5. ASSUME NEW s \in Subscriptions, Subscribe(s) PROVE Aware(k)'
  <2>1. CASE Subscribed(k)
    BY <1>1, <1>5, <2>1, AwareIdle DEF Subscribe
  <2>2. CASE ~Subscribed(k)
    BY <1>5, <2>2, AwareTold DEF Subscribe
  <2> QED BY <2>1, <2>2
<1>6. ASSUME NEW s \in Subscriptions, Unsubscribe(s) PROVE Aware(k)'
  BY <1>1, <1>6, AwareIdle DEF Unsubscribe, Subscribed
<1>7. CASE TreeWritten
  <2>1. known'[k] \in {Told, known[k]} /\ UNCHANGED <<vars, subscribed_prop>>
    BY <1>7 DEF TreeWritten
  <2> QED BY <1>1, <2>1, AwareIdle, AwareTold DEF Subscribed
<1>8. CASE FinalizeBackend
  <2>1. ~alive'[Host]
    BY <1>1, <1>8 DEF FinalizeBackend, Finalize, TypeOK
  <2> QED BY <2>1 DEF Aware
<1>9. CASE UNCHANGED <<vars, subscribed_prop, known>>
  BY <1>1, <1>9, AwareIdle DEF Subscribed
<1> QED BY <1>2, <1>3, <1>4, <1>5, <1>6, <1>7, <1>8, <1>9, AwareDispatch, AwareDaemon, AwareRead,
           AwareReset
        DEF GSettingsNext, Request, Others, WriteTree, allVars, gsettingsVars

-----------------------------------------------------------------------------
(* The theorems *)

LEMMA TableStep ==
    ASSUME TypeOK, TreeInv, TreeInv', TableTypes, [GSettingsNext]_allVars PROVE TableTypes'
<1>1. tree' \in Tree \cup {NoTree}
  BY DEF TreeInv
<1>2. subscribed_prop' \subseteq Subscriptions
  BY DEF TableTypes, GSettingsNext, HostDispatch, Daemon, Others, Request, ResetKey, Write, WriteTree,
         WriteNode, TreeWritten, Read, Subscribe, Unsubscribe, FinalizeBackend, allVars, gsettingsVars
<1>3. ASSUME NEW p, NEW entry, PropertyChanged(p, entry)
      PROVE  /\ changed_prop' \in [Props -> Tags \cup {NoTag}]
             /\ known' \in [Props -> Values \cup {None, Told, Unheard}]
  BY <1>3 DEF PropertyChanged, TableTypes
<1>4. ASSUME NEW q \in Props, NEW v \in Values, NEW entry \in Tags \cup {NoTag},
             NEW left \in Tags \cup {NoTag}, WriteFull(q, v, entry, left)
      PROVE  /\ changed_prop' \in [Props -> Tags \cup {NoTag}]
             /\ known' \in [Props -> Values \cup {None, Told, Unheard}]
  BY <1>3, <1>4 DEF WriteFull, TableTypes
<1>5. CASE WriteNode
  <2>1. tree \in Tree /\ tree.left \subseteq tree.all /\ tree.all \in Trees
    BY <1>5 DEF WriteNode, TreeInv
  <2>2. PICK n \in tree.left : /\ n.key \in Props /\ n.val \in Values \ Unsendable
                               /\ WriteFull(n.key, n.val, changed_prop[n.key], changed_prop[n.key])
    BY <1>5, <2>1, NodeWritten
  <2>3. changed_prop[n.key] \in Tags \cup {NoTag}
    BY <2>2 DEF TableTypes
  <2> QED BY <1>1, <1>2, <1>4, <2>2, <2>3 DEF TableTypes
<1>6. ASSUME NEW q \in Props, Read(q) PROVE TableTypes'
  BY <1>1, <1>2, <1>6, KnownType DEF Read, TableTypes, MaybeValue
<1>7. ASSUME NEW q \in Props, NEW tag \in Tags, ResetKey(q, tag) PROVE TableTypes'
  BY <1>1, <1>2, <1>7 DEF ResetKey, TableTypes
<1>8. ASSUME NEW q \in Props, NEW v \in Values, NEW tag \in Tags, Write(q, v, tag) PROVE TableTypes'
  BY <1>1, <1>2, <1>4, <1>8 DEF Write, TableTypes
<1>9. CASE HostDispatch
  BY <1>1, <1>2, <1>3, <1>9 DEF HostDispatch, TableTypes
<1>10. ASSUME NEW s \in Subscriptions, Subscribe(s) \/ Unsubscribe(s) PROVE TableTypes'
  BY <1>1, <1>2, <1>10 DEF Subscribe, Unsubscribe, TableTypes
<1>11. CASE TreeWritten
  BY <1>1, <1>2, <1>11 DEF TreeWritten, TableTypes
<1>12. CASE FinalizeBackend
  BY <1>1, <1>2, <1>12 DEF FinalizeBackend, TableTypes
<1>13. CASE UNCHANGED <<changed_prop, known>>
  BY <1>1, <1>2, <1>13 DEF TableTypes
<1> QED BY <1>5, <1>6, <1>7, <1>8, <1>9, <1>10, <1>11, <1>12, <1>13
        DEF GSettingsNext, Request, Others, Daemon, WriteTree, allVars, gsettingsVars

LEMMA AwareAlways == GSettingsSpec => []AwareInv
<1>1. GSettingsInit => AwareInv
  <2> SUFFICES ASSUME GSettingsInit PROVE AwareInv
    OBVIOUS
  <2>1. InitWith(Default)
    BY DEF GSettingsInit
  <2>2. HostInStep
    BY <2>1, HostIsClient, InStepInit DEF HostInStep
  <2>3. TableTypes /\ \A k \in Props : Aware(k)
    BY GSettingsAssumption DEF GSettingsInit, TableTypes, Aware
  <2> QED BY <2>2, <2>3 DEF AwareInv
<1>2. CallInv /\ CallInv' /\ TreeInv /\ TreeInv' /\ AwareInv /\ [GSettingsNext]_allVars => AwareInv'
  <2> SUFFICES ASSUME CallInv, CallInv', TreeInv, TreeInv', AwareInv, [GSettingsNext]_allVars
               PROVE  AwareInv'
    OBVIOUS
  <2>1. TypeOK /\ TableTypes /\ HostInStep
    BY DEF CallInv, AwareInv
  <2>2. TableTypes'
    BY <2>1, TableStep
  <2>3. HostInStep'
    BY <2>1, StepIsCacheStep, CacheStepKeeps
  <2>4. \A k \in Props : Aware(k)'
    BY AwareStep
  <2> QED BY <2>2, <2>3, <2>4 DEF AwareInv
<1> QED BY <1>1, <1>2, CallsAndTrees, PTL DEF GSettingsSpec

\* The tables of the backend, the tree being written and what GSettings is told
\* are of their types.
THEOREM GSettingsTypes == GSettingsSpec => []GSettingsTypeOK
<1>1. CallInv /\ AwareInv => GSettingsTypeOK
  BY DEF CallInv, AwareInv, TableTypes, GSettingsTypeOK
<1> QED BY <1>1, CallsAndTrees, AwareAlways, PTL

\* With nothing under way about a key that GSettings subscribed to, GSettings
\* has been told that it changed or knows what the daemon holds - no matter what
\* was written, refused, reset or changed by others, and in what order, but for a
\* reset between a write and its refusal
\* (esconf_gsettings_backend_property_changed_cb and the calls of the backend).
THEOREM ListenersAlwaysKnow == GSettingsSpec => []ListenersKnow
<1>1. CallInv /\ AwareInv => ListenersKnow
  <2> SUFFICES ASSUME CallInv, AwareInv, NEW k \in Props, alive[Host], Subscribed(k),
                      Settled(Host, k)
               PROVE  Informed(k)
    BY DEF ListenersKnow
  <2>1. Aware(k) /\ InStep(Host, k)
    BY DEF AwareInv, HostInStep
  <2>2. cache[Host][k] \in {None, Stored(k)}
    BY <2>1, HostIsClient, InStepSettled
  <2>3. ~Coming(k) /\ ~OnItsWay(Host, k)
    BY DEF Settled, Coming, OnItsWay
  <2> QED BY <2>1, <2>2, <2>3 DEF Aware, Awaited, Informed
<1> QED BY <1>1, CallsAndTrees, AwareAlways, PTL
=============================================================================
