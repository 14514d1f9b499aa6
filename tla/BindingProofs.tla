--------------------------- MODULE BindingProofs ---------------------------
(***************************************************************************)
(* Theorems of the bindings and of the library they live in, for any       *)
(* objects, properties, users and messages.  The first part is about the   *)
(* handlers of a binding, which come and go together and never without a   *)
(* channel.  The second adds to the cache of the process, as module        *)
(* CacheProofs has it, when it goes without a value (Held), and to that    *)
(* what its objects have of it (Mirrors).                                  *)
(***************************************************************************)
EXTENDS Binding, CacheProofs

-----------------------------------------------------------------------------
(* The inductive invariant *)

\* A binding is there with both handlers or not at all, and only while there is
\* a channel; the library's count is that of its users, and it is alive as long
\* as the count is not zero.
BindingInv ==
    /\ binding \in [Objects -> {Unbound, Connected}]
    /\ alive \in [Clients -> BOOLEAN]
    /\ \A o \in Objects : binding[o] = Connected => refcnt > 0
    /\ IsFiniteSet(users) /\ refcnt = Cardinality(users)
    /\ refcnt > 0 => alive[Host]

LEMMA Distinct ==
    /\ Unbound # Connected
    /\ ~Unbound.listed /\ ~Unbound.object /\ ~Unbound.channel
    /\ Connected.listed /\ Connected.object /\ Connected.channel
  BY DEF Unbound, Connected

\* The cache's steps other than its end leave "alive" as it is.
LEMMA StaysAlive ==
    /\ \A c, p, v : Set(c, p, v) => alive' = alive
    /\ \A c, base, recursive : Reset(c, base, recursive) => alive' = alive
    /\ \A c, p : Lookup(c, p) => alive' = alive
    /\ \A c : Handle(c) \/ Dispatch(c) => alive' = alive
    /\ \A p, v : OthersSet(p, v) \/ OthersReset(p) => alive' = alive
    /\ Emit => alive' = alive
  BY DEF Set, Reset, Lookup, Handle, Dispatch, OthersSet, OthersReset, Emit

LEMMA FinalizeAlive ==
    ASSUME alive \in [Clients -> BOOLEAN], NEW c \in Clients, Finalize(c)
    PROVE  alive' \in [Clients -> BOOLEAN]
  BY DEF Finalize

\* Once every handler on the channel has gone, no binding is left.
LEMMA NoneLeft ==
    ASSUME binding \in [Objects -> {Unbound, Connected}]
    PROVE  AllDisconnected = [o \in Objects |-> Unbound]
<1>1. ASSUME NEW o \in Objects
      PROVE  (IF binding[o].channel THEN ChannelDisconnect(binding[o]) ELSE binding[o]) = Unbound
  <2>1. CASE binding[o] = Unbound
    BY <2>1, Distinct
  <2>2. CASE binding[o] = Connected
    BY <2>2, Distinct DEF ChannelDisconnect, ObjectDisconnect
  <2> QED BY <2>1, <2>2
<1> QED BY <1>1 DEF AllDisconnected

-----------------------------------------------------------------------------
(* Steps *)

\* Calls, notifications and the rest of the world touch neither the bindings
\* nor the library.
LEMMA OtherStep ==
    ASSUME BindingInv, UNCHANGED <<binding, users, refcnt, alive>>
    PROVE  BindingInv'
  BY DEF BindingInv

LEMMA BindStep ==
    ASSUME BindingInv, NEW o \in Objects, Bind(o)
    PROVE  BindingInv'
  BY DEF BindingInv, Bind, InUse

LEMMA UnbindStep ==
    ASSUME BindingInv, NEW o \in Objects, Unbind(o)
    PROVE  BindingInv'
  BY Distinct DEF BindingInv, Unbind, ObjectDisconnect, vars

LEMMA UnbindAllStep ==
    ASSUME BindingInv, UnbindAll PROVE BindingInv'
  BY NoneLeft, Distinct DEF BindingInv, UnbindAll, vars

LEMMA LibInitStep ==
    ASSUME BindingInv, NEW u \in Users, LibInit(u) PROVE BindingInv'
<1>1. /\ IsFiniteSet(users') /\ Cardinality(users') = Cardinality(users) + 1
      /\ Cardinality(users) \in Nat
  BY FS_AddElement, FS_CardinalityType DEF LibInit, BindingInv
<1> QED BY <1>1 DEF BindingInv, LibInit, vars

LEMMA LibShutdownStep ==
    ASSUME BindingInv, NEW u \in Users, LibShutdown(u) PROVE BindingInv'
<1>1. /\ IsFiniteSet(users') /\ Cardinality(users') = Cardinality(users) - 1
      /\ Cardinality(users) \in Nat
  BY FS_RemoveElement, FS_CardinalityType DEF LibShutdown, BindingInv
<1>2. CASE refcnt > 1
  BY <1>1, <1>2 DEF BindingInv, LibShutdown, vars
<1>3. CASE ~(refcnt > 1)
  <2>1. refcnt' = 0
    BY <1>1, <1>3 DEF BindingInv, LibShutdown
  <2>2. binding' = [o \in Objects |-> Unbound] /\ alive' \in [Clients -> BOOLEAN]
    BY <1>3, NoneLeft, FinalizeAlive, BindingAssumption DEF BindingInv, LibShutdown
  <2>3. refcnt' = Cardinality(users')
    BY <1>1 DEF BindingInv, LibShutdown
  <2> QED BY <1>1, <2>1, <2>2, <2>3, Distinct DEF BindingInv
<1> QED BY <1>2, <1>3

LEMMA BindingInvInit == ASSUME BindingInit PROVE BindingInv
<1>1. PICK u \in Users : users = {u}
  BY DEF BindingInit
<1>2. IsFiniteSet(users) /\ Cardinality(users) = 1
  BY <1>1, FS_Singleton
<1>3. alive = [c \in Clients |-> TRUE]
  BY DEF BindingInit, InitWith
<1> QED BY <1>2, <1>3, Distinct, BindingAssumption DEF BindingInit, BindingInv

LEMMA BindingInvHolds == BindingSpec => []BindingInv
<1>1. BindingInit => BindingInv
  BY BindingInvInit
<1>2. BindingInv /\ [BindingNext]_allVars => BindingInv'
  <2> SUFFICES ASSUME BindingInv, [BindingNext]_allVars PROVE BindingInv'
    OBVIOUS
  <2>1. CASE UNCHANGED allVars
    BY <2>1, OtherStep DEF allVars, bindingVars, vars
  <2>2. CASE HostDispatch
    BY <2>2, StaysAlive, OtherStep DEF HostDispatch
  <2>3. CASE Daemon
    BY <2>3, StaysAlive, OtherStep DEF Daemon, bindingVars
  <2>4. ASSUME NEW p \in Props, AppReset(p) \/ AppGet(p) \/ ForeignReset(p)
        PROVE  BindingInv'
    BY <2>4, StaysAlive, OtherStep DEF AppReset, AppGet, ForeignReset, bindingVars
  <2>5. ASSUME NEW p \in Props, NEW v \in Values, AppSet(p, v) \/ ForeignSet(p, v)
        PROVE  BindingInv'
    BY <2>5, StaysAlive, OtherStep DEF AppSet, ChannelSet, ForeignSet, bindingVars
  <2>6. ASSUME NEW o \in Objects, NEW v \in Values, ObjectNotify(o, v)
        PROVE  BindingInv'
    BY <2>6, StaysAlive, OtherStep DEF ObjectNotify, vars
  <2> QED BY <2>1, <2>2, <2>3, <2>4, <2>5, <2>6, BindStep, UnbindStep, UnbindAllStep,
             LibInitStep, LibShutdownStep DEF BindingNext
<1> QED BY <1>1, <1>2, PTL DEF BindingSpec

-----------------------------------------------------------------------------
(* The theorems *)

\* A binding is in the list exactly while both its handlers are connected, and
\* then there is a channel, whichever end goes first and whoever shuts down
\* (the disconnect functions of esconf-binding.c).
THEOREM BindingsStayWhole == BindingSpec => []BindingsWhole
<1>1. BindingInv => BindingsWhole
  <2> SUFFICES ASSUME BindingInv, NEW o \in Objects
               PROVE  LET b == binding[o]
                      IN  /\ b.listed = b.object /\ b.object = b.channel
                          /\ b.channel => alive[Host] /\ refcnt > 0
    BY DEF BindingsWhole
  <2>1. CASE binding[o] = Unbound
    BY <2>1, Distinct DEF Unbound
  <2>2. CASE binding[o] = Connected
    BY <2>2, Distinct DEF BindingInv, Connected
  <2> QED BY <2>1, <2>2 DEF BindingInv
<1> QED BY <1>1, BindingInvHolds, PTL

\* Whoever called esconf_init has a channel until it calls esconf_shutdown,
\* however many users there are and in whatever order they go.
THEOREM LibraryStays == BindingSpec => []LibraryServesUsers
<1>1. BindingInv => LibraryServesUsers
  <2> SUFFICES ASSUME BindingInv, users # {} PROVE refcnt > 0 /\ alive[Host]
    BY DEF LibraryServesUsers
  <2>1. Cardinality(users) # 0 /\ Cardinality(users) \in Nat
    BY FS_EmptySet, FS_CardinalityType DEF BindingInv
  <2> QED BY <2>1 DEF BindingInv
<1> QED BY <1>1, BindingInvHolds, PTL

-----------------------------------------------------------------------------
(* What is cached of a property that nobody resets *)

SignalFor(p) == \E k \in DOMAIN inbox[Host] : inbox[Host][k].prop = p /\ ~inbox[Host][k].done

\* The cache goes without a value only until the first one arrives, and that one
\* is announced.
Held(p) ==
    /\ Coming(p) => user[p] # None
    /\ \A k \in DOMAIN inbox[Host] :
           inbox[Host][k].prop = p /\ ~inbox[Host][k].done => inbox[Host][k].val # None
    /\ cache[Host][p] = None =>
           /\ Default[p] = None /\ old[Host][p] = NoItem
           /\ user[p] = None \/ Coming(p) \/ SignalFor(p)

HeldInv ==
    /\ CallInv /\ LocksHold
    /\ \A p \in Props \ Shared : InStep(Host, p) /\ (alive[Host] => Held(p))

LEMMA HostIsClient == Host \in Clients
  BY BindingAssumption

\* Not a word of p.
LEMMA HeldApart ==
    ASSUME TypeOK, TypeOK', NEW p \in Props, Held(p), Same(inbox[Host], inbox'[Host], p),
           cache'[Host][p] = cache[Host][p], old'[Host][p] = old[Host][p], Unsaid(p)
    PROVE  Held(p)'
<1>1. PICK e \in {0, 1} :
        /\ \A k \in DOMAIN inbox[Host] :
               inbox[Host][k].prop = p =>
                   k - e \in DOMAIN inbox'[Host] /\ inbox'[Host][k - e] = inbox[Host][k]
        /\ \A k \in DOMAIN inbox'[Host] :
               inbox'[Host][k].prop = p =>
                   k + e \in DOMAIN inbox[Host] /\ inbox[Host][k + e] = inbox'[Host][k]
  BY DEF Same
<1>2. SignalFor(p) => SignalFor(p)'
  BY <1>1 DEF SignalFor
<1>3. \A k \in DOMAIN inbox'[Host] :
          inbox'[Host][k].prop = p /\ ~inbox'[Host][k].done => inbox'[Host][k].val # None
  BY <1>1 DEF Held
<1> QED BY <1>2, <1>3 DEF Held, Unsaid

LEMMA BoundProp == \A o \in Objects : PropOf(o) \in Props
  BY BindingAssumption DEF PropOf

\* A step that keeps the caches in step does so with the one of Host.
LEMMA HeldKeeps ==
    ASSUME HeldInv, CallInv', KeepsStep,
           \A q \in Props \ Shared : alive'[Host] => Held(q)'
    PROVE  HeldInv'
<1>1. LocksHold' /\ \A q \in Props \ Shared : InStep(Host, q)'
  BY HostIsClient DEF KeepsStep, HeldInv
<1> QED BY <1>1 DEF HeldInv

\* Cancelling a call sends no signal.
LEMMA CancelledSignals ==
    ASSUME TypeOK, NEW c \in Clients, NEW p \in Props
    PROVE  \A k \in DOMAIN InboxAfterCancel(c, p) :
               ~InboxAfterCancel(c, p)[k].done =>
                   k \in DOMAIN inbox[c] /\ InboxAfterCancel(c, p)[k] = inbox[c][k]
<1> DEFINE b == InboxAfterCancel(c, p)
<1>1. /\ \A k \in DOMAIN inbox[c] :
            b[k] = IF inbox[c][k].done /\ inbox[c][k].prop = p THEN Reply(p, FALSE)
                   ELSE inbox[c][k]
      /\ \A k \in DOMAIN b : k \notin DOMAIN inbox[c] => b[k] = Reply(p, FALSE)
  BY CancelledAt
<1>2. Reply(p, FALSE).done
  BY ReplyType
<1> HIDE DEF b
<1>3. \A k \in DOMAIN b : ~b[k].done => k \in DOMAIN inbox[c] /\ b[k] = inbox[c][k]
  BY <1>1, <1>2
<1> QED BY <1>3 DEF b

LEMMA HeldSet ==
    ASSUME HeldInv, NEW p \in Props, NEW v \in Values, Set(Host, p, v),
           p \notin Shared => v \notin Unsendable
    PROVE  HeldInv'
<1>1. Host \in Clients /\ CallInv /\ LocksHold /\ TypeOK /\ alive[Host]
  BY HostIsClient DEF HeldInv, CallInv, Set
<1>2. CallInv' /\ TypeOK'
  BY <1>1, SetStep DEF CallInv
<1>3. LocksHold' /\ \A q \in Props \ Shared : InStep(Host, q)'
  BY <1>1, <1>2, SetKeeps DEF HeldInv
<1>4. ASSUME NEW q \in Props \ Shared, q # p PROVE Held(q)'
  <2>1. Apart(Host, q) /\ cache'[Host][q] = cache[Host][q]
    BY <1>1, <1>4, SetApart
  <2>2. Unsaid(q)
    BY DEF Set, Unsaid, Coming
  <2>3. Held(q)
    BY <1>1 DEF HeldInv
  <2> QED BY <1>1, <1>2, <2>1, <2>2, <2>3, HeldApart DEF Apart
<1>5. ASSUME p \notin Shared PROVE Held(p)'
  <2>1. Held(p) /\ v # None /\ v \notin Unsendable
    BY <1>1, <1>5, PropsAssumption DEF HeldInv
  <2>2. cache'[Host][p] = v /\ (inbox' = inbox \/ inbox'[Host] = InboxAfterCancel(Host, p))
    BY <1>1, <2>1 DEF TypeOK, Set, SetSent, SetUnsent
  <2>3. \A k \in DOMAIN inbox'[Host] :
            ~inbox'[Host][k].done => k \in DOMAIN inbox[Host] /\ inbox'[Host][k] = inbox[Host][k]
    BY <1>1, <2>2, CancelledSignals
  <2>4. Coming(p)' = Coming(p) /\ user' = user
    BY DEF Set, Coming
  <2> QED BY <2>1, <2>2, <2>3, <2>4 DEF Held
<1> QED BY <1>2, <1>3, <1>4, <1>5 DEF HeldInv

\* A lookup, and a step that is not about the caches at all.
LEMMA HeldLookup ==
    ASSUME HeldInv, NEW p \in Props, Lookup(Host, p) PROVE HeldInv'
<1>1. /\ Host \in Clients /\ CallInv /\ LocksHold /\ TypeOK /\ alive[Host]
      /\ UNCHANGED <<user, idles, wire, inbox, alive, old>>
  BY HostIsClient DEF HeldInv, CallInv, Lookup
<1>2. CallInv' /\ TypeOK'
  BY <1>1, LookupStep DEF CallInv
<1>3. LocksHold' /\ \A q \in Props \ Shared : InStep(Host, q)'
  BY <1>1, <1>2, LookupKeeps DEF HeldInv, KeepsStep
<1>4. ASSUME NEW q \in Props \ Shared PROVE Held(q)'
  <2>1. Held(q)
    BY <1>1 DEF HeldInv
  <2>2. cache'[Host][q] = None => cache[Host][q] = None
    BY <1>1 DEF TypeOK, Lookup
  <2> QED BY <1>1, <2>1, <2>2 DEF Held, Coming, SignalFor
<1> QED BY <1>2, <1>3, <1>4 DEF HeldInv

LEMMA HeldIdle ==
    ASSUME HeldInv, UNCHANGED vars PROVE HeldInv'
<1>1. Host \in Clients /\ CallInv /\ LocksHold
  BY HostIsClient DEF HeldInv
<1>2. CallInv' /\ LocksHold' /\ \A q \in Props \ Shared : InStep(Host, q)'
  BY <1>1, IdleKeeps DEF HeldInv, KeepsStep
<1>3. UNCHANGED <<user, idles, inbox, alive, cache, old>>
  BY DEF vars
<1>4. ASSUME NEW q \in Props \ Shared, alive'[Host] PROVE Held(q)'
  BY <1>3, <1>4 DEF HeldInv, Held, Coming, SignalFor
<1> QED BY <1>2, <1>4 DEF HeldInv

\* A reset of a property that is reset by the application anyway.
LEMMA HeldReset ==
    ASSUME HeldInv, NEW p \in Shared, Reset(Host, p, FALSE) PROVE HeldInv'
<1>1. /\ Host \in Clients /\ CallInv /\ LocksHold /\ TypeOK /\ alive[Host] /\ p \in Props
      /\ p \in Props \cup {Root}
  BY HostIsClient, BindingAssumption DEF HeldInv, CallInv, Reset
<1>2. CallInv' /\ TypeOK'
  BY <1>1, ResetStep DEF CallInv
<1>3. /\ KeepsStep
      /\ \A q \in Props : Apart(Host, q)
      /\ \A q \in Props : q # p => cache'[Host][q] = cache[Host][q] /\ Unsaid(q)
  BY <1>1, <1>2, ResetKeeps
<1>4. ASSUME NEW q \in Props \ Shared PROVE Held(q)'
  <2>1. Held(q) /\ q # p
    BY <1>1 DEF HeldInv
  <2> QED BY <1>1, <1>2, <1>3, <2>1, HeldApart DEF Apart
<1> QED BY <1>2, <1>3, <1>4, HeldKeeps

\* Others set what they like, and reset what is Shared.
LEMMA HeldOthers ==
    ASSUME HeldInv, NEW p \in Props, NEW v,
           (v \in Values /\ OthersSet(p, v)) \/ (p \in Shared /\ OthersReset(p))
    PROVE  HeldInv'
<1>1. /\ Host \in Clients /\ CallInv /\ LocksHold /\ TypeOK
      /\ UNCHANGED <<wire, inbox, alive, cache, old>>
  BY HostIsClient DEF HeldInv, CallInv, OthersSet, OthersReset
<1>2. /\ CallInv' /\ KeepsStep
      /\ \A q \in Props : Apart(Host, q)
      /\ Coming(p)' /\ \A q \in Props : q # p => Unsaid(q)
  BY <1>1, OthersKeep
<1>3. ASSUME NEW q \in Props \ Shared, alive'[Host] PROVE Held(q)'
  <2>1. Held(q) /\ TypeOK'
    BY <1>1, <1>2, <1>3 DEF HeldInv, CallInv
  <2>2. CASE q # p
    BY <1>1, <1>2, <2>1, <2>2, HeldApart DEF Apart
  <2>3. CASE q = p
    <3>1. user'[p] = v /\ v # None
      BY <1>1, <2>3, PropsAssumption DEF OthersSet, TypeOK
    <3> QED BY <1>1, <1>2, <2>1, <2>3, <3>1 DEF Held
  <2> QED BY <2>2, <2>3
<1> QED BY <1>2, <1>3, HeldKeeps

LEMMA HeldHandle ==
    ASSUME HeldInv, Handle(Host) PROVE HeldInv'
<1>1. /\ Host \in Clients /\ CallInv /\ LocksHold /\ TypeOK
      /\ UNCHANGED <<alive, cache, old>>
  BY HostIsClient DEF HeldInv, CallInv, Handle
<1>2. CallInv' /\ TypeOK'
  BY <1>1, HandleStep DEF CallInv
<1>3. /\ KeepsStep
      /\ \A q \in Props : Head(wire[Host]).prop # q => Apart(Host, q) /\ Unsaid(q)
  BY <1>1, <1>2, HandleKeeps
<1>4. PICK m \in Call : m = Head(wire[Host])
  <2>1. wire[Host] \in Seq(Call) /\ wire[Host] # <<>>
    BY <1>1, CountTypes DEF Handle, TypeOK
  <2> QED BY <2>1
<1>5. m.prop \in Props /\ m.val \in Values /\ m.val # None
  BY PropsAssumption DEF Call
<1>6. ASSUME NEW q \in Props \ Shared, alive'[Host] PROVE Held(q)'
  <2>1. Held(q)
    BY <1>1, <1>6 DEF HeldInv
  <2>2. CASE m.prop # q
    BY <1>1, <1>2, <1>3, <1>4, <2>1, <2>2, HeldApart DEF Apart
  <2>3. CASE m.prop = q
    <3>1. /\ IF Changes(q, m.val)
             THEN user' = [user EXCEPT ![q] = m.val] /\ idles' = Append(idles, q)
             ELSE UNCHANGED <<user, idles>>
          /\ inbox' = IF m.cancelled THEN inbox
                      ELSE [inbox EXCEPT ![Host] = Append(@, Reply(q, Accepts(q)))]
      BY <1>4, <2>3 DEF Handle
    <3>2. PICK r \in Messages : r = Reply(q, Accepts(q)) /\ r.done
      BY ReplyType DEF Accepts
    <3>3. inbox[Host] \in Seq(Messages)
      BY <1>1, CountTypes
    <3>4. inbox'[Host] = inbox[Host] \/ inbox'[Host] = Append(inbox[Host], r)
      BY <1>1, <3>1, <3>2 DEF TypeOK
    <3>5. /\ \A k \in DOMAIN inbox[Host] : k \in DOMAIN inbox'[Host] /\ inbox'[Host][k] = inbox[Host][k]
          /\ \A k \in DOMAIN inbox'[Host] :
                 ~inbox'[Host][k].done => k \in DOMAIN inbox[Host] /\ inbox'[Host][k] = inbox[Host][k]
      BY <3>2, <3>3, <3>4
    <3>6. CASE Changes(q, m.val)
      <4>1. user'[q] = m.val
        BY <1>1, <3>1, <3>6 DEF TypeOK
      <4>2. Len(idles) + 1 \in DOMAIN idles' /\ idles'[Len(idles) + 1] = q
        BY <1>1, <3>1, <3>6 DEF TypeOK
      <4>3. Coming(q)'
        BY <4>2 DEF Coming
      <4> QED BY <1>1, <1>5, <2>1, <3>5, <4>1, <4>3 DEF Held
    <3>7. CASE ~Changes(q, m.val)
      <4>1. user' = user /\ Coming(q)' = Coming(q)
        BY <3>1, <3>7 DEF Coming
      <4>2. SignalFor(q) => SignalFor(q)'
        BY <3>5 DEF SignalFor
      <4> QED BY <1>1, <2>1, <3>5, <4>1, <4>2 DEF Held
    <3> QED BY <3>6, <3>7
  <2> QED BY <2>2, <2>3
<1> QED BY <1>2, <1>3, <1>6, HeldKeeps

LEMMA HeldEmit ==
    ASSUME HeldInv, Emit PROVE HeldInv'
<1>1. /\ Host \in Clients /\ CallInv /\ LocksHold /\ TypeOK
      /\ UNCHANGED <<user, wire, alive, cache, old>> /\ idles # <<>>
  BY HostIsClient DEF HeldInv, CallInv, Emit
<1>2. CallInv' /\ TypeOK'
  BY <1>1, EmitStep DEF CallInv
<1>3. /\ KeepsStep
      /\ \A q \in Props : Head(idles) # q => Unsaid(q) /\ (alive[Host] => Apart(Host, q))
  BY <1>1, <1>2, EmitKeeps
<1>4. ASSUME NEW q \in Props \ Shared, alive'[Host] PROVE Held(q)'
  <2>1. Held(q) /\ alive[Host]
    BY <1>1, <1>4 DEF HeldInv
  <2>2. CASE Head(idles) # q
    BY <1>1, <1>2, <1>3, <2>1, <2>2, HeldApart DEF Apart
  <2>3. CASE Head(idles) = q
    <3>1. PICK r \in Messages : r = SignalOf(q) /\ ~r.done /\ r.prop = q /\ r.val = Stored(q)
      BY <1>1, SignalType DEF TypeOK
    <3>2. inbox'[Host] = Append(inbox[Host], r) /\ inbox[Host] \in Seq(Messages)
      BY <1>1, <2>1, <2>3, <3>1, CountTypes DEF Emit
    <3>3. 1 \in DOMAIN idles /\ idles[1] = q
      BY <1>1, <2>3 DEF TypeOK
    <3>4. user[q] # None
      BY <2>1, <3>3 DEF Held, Coming
    <3>5. r.val # None
      BY <3>1, <3>4 DEF Stored
    <3>6. /\ \A k \in DOMAIN inbox'[Host] :
                 inbox'[Host][k] = r \/ (k \in DOMAIN inbox[Host] /\ inbox'[Host][k] = inbox[Host][k])
          /\ Len(inbox[Host]) + 1 \in DOMAIN inbox'[Host] /\ inbox'[Host][Len(inbox[Host]) + 1] = r
      BY <3>2
    <3>7. SignalFor(q)'
      BY <3>1, <3>6 DEF SignalFor
    <3> QED BY <1>1, <2>1, <3>4, <3>5, <3>6, <3>7 DEF Held
  <2> QED BY <2>2, <2>3
<1> QED BY <1>2, <1>3, <1>4, HeldKeeps

\* A completion that puts a value back puts back the default, where there is one.
LEMMA HeldDispatch ==
    ASSUME HeldInv, Dispatch(Host) PROVE HeldInv'
<1>1. /\ Host \in Clients /\ CallInv /\ LocksHold /\ TypeOK /\ Counted
      /\ UNCHANGED <<user, idles, wire, alive>>
  BY HostIsClient DEF HeldInv, CallInv, Dispatch
<1>2. CallInv' /\ TypeOK'
  BY <1>1, DispatchStep DEF CallInv
<1>3. /\ KeepsStep
      /\ \A q \in Props : Head(inbox[Host]).prop # q =>
             Apart(Host, q) /\ cache'[Host][q] = cache[Host][q]
  BY <1>1, <1>2, DispatchKeeps
<1>4. inbox[Host] \in Seq(Messages) /\ inbox[Host] # <<>>
  <2>1. inbox[Host] # <<>>
    BY DEF Dispatch
  <2> QED BY <1>1, <2>1 DEF TypeOK, Messages
<1>5. PICK m \in Messages : m = Head(inbox[Host]) /\ m = inbox[Host][1] /\ 1 \in DOMAIN inbox[Host]
  BY <1>4, TailAt
<1>6. inbox'[Host] = Tail(inbox[Host])
  BY <1>1 DEF Dispatch, TypeOK
<1>7. Completion(Host, m) \/ SignalReceived(Host, m)
  BY <1>5 DEF Dispatch
<1>8. ASSUME NEW q \in Props \ Shared, alive'[Host] PROVE Held(q)'
  <2>1. Held(q) /\ Synced(Host, q) /\ Unsaid(q)
    BY <1>1, <1>8 DEF HeldInv, InStep, Unsaid, Coming
  <2>2. CASE m.prop # q
    <3>1. Apart(Host, q) /\ cache'[Host][q] = cache[Host][q]
      BY <1>3, <1>5, <2>2
    <3>2. Same(inbox[Host], inbox'[Host], q) /\ old'[Host][q] = old[Host][q]
      BY <3>1 DEF Apart
    <3> QED BY <1>1, <1>2, <2>1, <3>1, <3>2, HeldApart
  <2>3. CASE m.prop = q
    <3>1. \A k \in DOMAIN inbox'[Host] :
              inbox'[Host][k].prop = q /\ ~inbox'[Host][k].done => inbox'[Host][k].val # None
      <4>1. \A k \in DOMAIN inbox'[Host] :
                k + 1 \in DOMAIN inbox[Host] /\ inbox'[Host][k] = inbox[Host][k + 1]
        BY <1>4, <1>6, TailAt
      <4> QED BY <2>1, <4>1 DEF Held
    <3>2. old[Host][q] # NoItem => cache[Host][q] # None
      BY <2>1 DEF Held
    <3>3. CASE SignalReceived(Host, m)
      <4>1. ~m.done /\ cache' = IF old[Host][q] # NoItem /\ m.val # None THEN cache
                                ELSE [cache EXCEPT ![Host][q] = m.val]
        BY <2>3, <3>3 DEF SignalReceived
      <4>2. m.val # None
        BY <1>5, <2>1, <2>3, <4>1 DEF Held
      <4>3. cache'[Host][q] # None
        BY <1>1, <3>2, <4>1, <4>2 DEF TypeOK
      <4> QED BY <2>1, <3>1, <4>3 DEF Held, Unsaid
    <3>4. CASE Completion(Host, m)
      <4>1. m.done
        BY <3>4 DEF Completion
      <4>2. old[Host][q] # NoItem
        <5>1. RepliesNow(Host, q) >= 1 /\ RepliesNow(Host, q) \in Nat /\ LiveNow(Host, q) \in Nat
          BY <1>1, <1>5, <2>3, <4>1, ReplyCounts, CountTypes
        <5>2. old[Host][q].count # 0
          BY <1>1, <5>1 DEF Counted
        <5> QED BY <5>2 DEF NoItem
      <4>3. \/ cache' = cache
            \/ /\ old' = [old EXCEPT ![Host][q] = NoItem] /\ old[Host][q].count = 1 /\ ~m.ok
               /\ cache' = [cache EXCEPT ![Host][q] = old[Host][q].before]
        BY <2>3, <3>4 DEF Completion
      <4>4. CASE cache' = cache
        BY <2>1, <3>1, <3>2, <4>2, <4>4 DEF Held, Unsaid
      <4>5. CASE /\ old' = [old EXCEPT ![Host][q] = NoItem] /\ old[Host][q].count = 1 /\ ~m.ok
                 /\ cache' = [cache EXCEPT ![Host][q] = old[Host][q].before]
        <5>1. q \in Locked
          <6>1. q \notin Locked => Answered(Host, q)
            BY <2>1 DEF Synced
          <6> QED BY <1>1, <1>4, <1>5, <2>3, <4>1, <4>5, <6>1, ErrorFollowed
        <5>2. old[Host][q].before = Stored(q) /\ user[q] = None
          BY <1>1, <2>1, <4>2, <5>1 DEF Synced, Refused, LocksHold
        <5>3. cache'[Host][q] = Default[q] /\ old'[Host][q] = NoItem
          BY <1>1, <4>5, <5>2 DEF Stored, TypeOK
        <5> QED BY <2>1, <3>1, <5>2, <5>3 DEF Held, Unsaid
      <4> QED BY <4>3, <4>4, <4>5
    <3> QED BY <1>7, <3>3, <3>4
  <2> QED BY <2>2, <2>3
<1> QED BY <1>2, <1>3, <1>8, HeldKeeps

\* What is left of a cache that ends is of no interest.
LEMMA HeldFinalize ==
    ASSUME HeldInv, Finalize(Host) PROVE HeldInv'
<1>1. Host \in Clients /\ CallInv /\ LocksHold
  BY HostIsClient DEF HeldInv
<1>2. CallInv' /\ KeepsStep
  BY <1>1, FinalizeStep, FinalizeKeeps
<1>3. ~alive'[Host]
  BY <1>1 DEF Finalize, CallInv, TypeOK
<1> QED BY <1>2, <1>3, HeldKeeps

\* Every step of the process and of the rest of the world.
LEMMA HeldStep ==
    ASSUME Unsendable \subseteq Unconvertible, HeldInv, [BindingNext]_allVars
    PROVE  HeldInv'
<1>1. CASE UNCHANGED allVars
  BY <1>1, HeldIdle DEF allVars
<1>2. CASE HostDispatch
  BY <1>2, HeldDispatch DEF HostDispatch
<1>3. CASE Daemon
  BY <1>3, HeldHandle, HeldEmit DEF Daemon
<1>4. ASSUME NEW p \in Props, AppReset(p) \/ AppGet(p) PROVE HeldInv'
  BY <1>4, HeldReset, HeldLookup DEF AppReset, AppGet
<1>5. ASSUME NEW p \in Props, ForeignReset(p) PROVE HeldInv'
  BY <1>5, HeldOthers DEF ForeignReset
<1>6. ASSUME NEW p \in Props, NEW v \in Values, AppSet(p, v) \/ ForeignSet(p, v)
      PROVE  HeldInv'
  BY <1>6, HeldSet, HeldOthers DEF AppSet, ChannelSet, ForeignSet
<1>7. ASSUME NEW o \in Objects, Bind(o) PROVE HeldInv'
  <2>1. Lookup(Host, PropOf(o)) \/ UNCHANGED vars
    BY <1>7, BoundProp, HostIsClient, LookupOrIdle DEF Bind, InUse, HeldInv, CallInv
  <2> QED BY <2>1, BoundProp, HeldLookup, HeldIdle
<1>8. ASSUME NEW o \in Objects, NEW v \in Values, ObjectNotify(o, v) PROVE HeldInv'
  BY <1>8, BoundProp, HeldSet, HeldIdle DEF ObjectNotify
<1>9. ASSUME NEW u \in Users, LibInit(u) \/ LibShutdown(u) PROVE HeldInv'
  BY <1>9, HeldFinalize, HeldIdle DEF LibInit, LibShutdown
<1>10. ASSUME UnbindAll \/ \E o \in Objects : Unbind(o) PROVE HeldInv'
  BY <1>10, HeldIdle DEF UnbindAll, Unbind
<1> QED BY <1>1, <1>2, <1>3, <1>4, <1>5, <1>6, <1>7, <1>8, <1>9, <1>10 DEF BindingNext

\* The calls of the process with the bindings are accounted for, too.
LEMMA CallInvBound == BindingSpec => []CallInv
<1>1. BindingInit => CallInv
  <2>1. Default \in [Props -> MaybeValue]
    BY PropsAssumption DEF MaybeValue
  <2> QED BY <2>1, CallInvInit DEF BindingInit
<1>2. CallInv /\ [BindingNext]_allVars => CallInv'
  <2> SUFFICES ASSUME CallInv, [BindingNext]_allVars PROVE CallInv'
    OBVIOUS
  <2>1. Host \in Clients /\ \A o \in Objects : PropOf(o) \in Props
    BY HostIsClient, BoundProp
  <2>2. UNCHANGED vars => CallInv'
    BY IdleKeeps
  <2>3. CASE UNCHANGED allVars
    BY <2>2, <2>3 DEF allVars
  <2>4. CASE HostDispatch \/ Daemon
    BY <2>1, <2>4, DispatchStep, HandleStep, EmitStep DEF HostDispatch, Daemon
  <2>5. ASSUME NEW p \in Props, AppReset(p) \/ AppGet(p) \/ ForeignReset(p) PROVE CallInv'
    <3>1. p \in Props \cup {Root} /\ FALSE \in BOOLEAN
      OBVIOUS
    <3> QED BY <2>1, <2>5, <3>1, ResetStep, LookupStep, OthersKeep DEF AppReset, AppGet, ForeignReset
  <2>6. ASSUME NEW p \in Props, NEW v \in Values, AppSet(p, v) \/ ForeignSet(p, v) PROVE CallInv'
    BY <2>1, <2>6, SetStep, OthersKeep DEF AppSet, ChannelSet, ForeignSet
  <2>7. ASSUME NEW o \in Objects, Bind(o) PROVE CallInv'
    <3>1. Lookup(Host, PropOf(o)) \/ UNCHANGED vars
      BY <2>1, <2>7, LookupOrIdle DEF Bind, InUse, CallInv
    <3> QED BY <2>1, <2>2, <3>1, LookupStep
  <2>8. ASSUME NEW o \in Objects, NEW v \in Values, ObjectNotify(o, v) PROVE CallInv'
    BY <2>1, <2>2, <2>8, SetStep DEF ObjectNotify
  <2>9. ASSUME NEW u \in Users, LibInit(u) \/ LibShutdown(u) PROVE CallInv'
    BY <2>1, <2>2, <2>9, FinalizeStep DEF LibInit, LibShutdown
  <2>10. ASSUME UnbindAll \/ \E o \in Objects : Unbind(o) PROVE CallInv'
    BY <2>2, <2>10 DEF UnbindAll, Unbind
  <2> QED BY <2>3, <2>4, <2>5, <2>6, <2>7, <2>8, <2>9, <2>10 DEF BindingNext
<1> QED BY <1>1, <1>2, PTL DEF BindingSpec

ObjectTypes == object \in [Objects -> Values \ Unconvertible]

LEMMA NotifiedType ==
    ASSUME ObjectTypes, NEW o \in Objects, NEW val \in MaybeValue
    PROVE  ChannelNotify(o, val) \in Values \ Unconvertible
  BY BindingAssumption DEF ObjectTypes, ChannelNotify, MaybeValue

LEMMA AnnouncedType ==
    ASSUME TypeOK, HostDispatch
    PROVE  Announces(Host, Head(inbox[Host])) => Announced(Host, Head(inbox[Host])) \in MaybeValue
<1>1. inbox[Host] \in Seq(Messages) /\ inbox[Host] # <<>>
  BY HostIsClient DEF TypeOK, Messages, HostDispatch, Dispatch
<1>2. PICK m \in Messages : m = Head(inbox[Host])
  <2>1. Head(inbox[Host]) \in Messages
    BY <1>1
  <2> QED BY <2>1
<1>3. CASE m.done
  <2>1. old[Host][m.prop] \in Items \cup {NoItem}
    BY <1>2, HostIsClient, MessageTypes, CountTypes
  <2>2. Announces(Host, m) => old[Host][m.prop] # NoItem
    BY <1>3 DEF Announces, NoItem
  <2> QED BY <1>2, <1>3, <2>1, <2>2, ItemTypes DEF Announced
<1>4. CASE ~m.done
  BY <1>2, <1>4, MessageTypes DEF Announced
<1> QED BY <1>3, <1>4

\* Whatever is sent, announced or put back, an object has a value of its type,
\* and the rest of the state is of its types, too.
THEOREM BindingTypes == BindingSpec => []BindingTypeOK
<1>1. BindingInit => ObjectTypes
  BY BindingAssumption DEF BindingInit, ObjectTypes
<1>2. ObjectTypes /\ CallInv /\ BindingInv /\ [BindingNext]_allVars => ObjectTypes'
  <2> SUFFICES ASSUME ObjectTypes, CallInv, BindingInv, [BindingNext]_allVars PROVE ObjectTypes'
    OBVIOUS
  <2>1. TypeOK
    BY DEF CallInv
  <2>2. CASE object' = object
    BY <2>2 DEF ObjectTypes
  <2>3. CASE HostDispatch
    <3>1. CASE object' = object
      BY <3>1 DEF ObjectTypes
    <3>2. CASE Announces(Host, Head(inbox[Host]))
      <4> DEFINE val == Announced(Host, Head(inbox[Host]))
      <4>1. Announce(Head(inbox[Host]).prop, val, {}) /\ val \in MaybeValue
        BY <2>1, <2>3, <3>2, AnnouncedType DEF HostDispatch
      <4> HIDE DEF val
      <4> QED BY <4>1, NotifiedType DEF Announce, ObjectTypes
    <3> QED BY <2>3, <3>1, <3>2 DEF HostDispatch
  <2>4. ASSUME NEW p \in Props, NEW v \in Values, AppSet(p, v) PROVE ObjectTypes'
    BY <2>4, NotifiedType DEF AppSet, ChannelSet, Announce, ObjectTypes, MaybeValue
  <2>5. ASSUME NEW o \in Objects, NEW v \in Values, ObjectNotify(o, v) PROVE ObjectTypes'
    BY <2>5, NotifiedType DEF ObjectNotify, ObjectTypes, MaybeValue
  <2>6. ASSUME NEW o \in Objects, Bind(o) PROVE ObjectTypes'
    <3>1. Known(Host, PropOf(o)) \in MaybeValue
      BY <2>1, HostIsClient, BoundProp, StoredType DEF Known, TypeOK
    <3> QED BY <2>6, <3>1, NotifiedType DEF Bind, ObjectTypes
  <2> QED BY <2>2, <2>3, <2>4, <2>5, <2>6
      DEF BindingNext, Daemon, UnbindAll, AppReset, AppGet, ForeignReset, ForeignSet, Unbind,
          LibInit, LibShutdown, allVars, bindingVars
<1>3. BindingInit => users \subseteq Users
  BY DEF BindingInit
<1>4. users \subseteq Users /\ [BindingNext]_allVars => (users \subseteq Users)'
  BY DEF BindingNext, HostDispatch, Daemon, UnbindAll, AppReset, AppGet, ForeignReset, AppSet,
         ForeignSet, Bind, Unbind, ObjectNotify, LibInit, LibShutdown, allVars, bindingVars
<1>5. CallInv /\ BindingInv /\ ObjectTypes /\ users \subseteq Users => BindingTypeOK
  <2>1. Unbound \in EsconfGBinding /\ Connected \in EsconfGBinding
    BY DEF Unbound, Connected, EsconfGBinding
  <2>2. BindingInv => refcnt \in Nat
    BY FS_CardinalityType DEF BindingInv
  <2> QED BY <2>1, <2>2 DEF CallInv, BindingInv, ObjectTypes, BindingTypeOK
<1> QED BY <1>1, <1>2, <1>3, <1>4, <1>5, CallInvBound, BindingInvHolds, PTL DEF BindingSpec

-----------------------------------------------------------------------------
(* Objects and what is cached *)

\* An object that nobody but the application changes behind its back.
Minded(o) == PropOf(o) \notin Shared /\ (Default[PropOf(o)] # None \/ Alone(o))

\* It has the value of the cache, while that is one it can have.
Mirrors(o) ==
    binding[o].channel /\ Minded(o) /\ cache[Host][PropOf(o)] \notin Unconvertible \cup {None} =>
        object[o] = cache[Host][PropOf(o)]

MirrorInv == BindingInv /\ HeldInv /\ DOMAIN object = Objects /\ \A o \in Objects : Mirrors(o)

\* The name below the channel's base is that of one property.
LEMMA HearsOwn ==
    ASSUME NEW o \in Objects, NEW p \in Props
    PROVE  Hears(o, p) <=> binding[o].channel /\ p = PropOf(o)
  BY BindingAssumption DEF PropOf, Hears

\* A step that the object does not hear of and that leaves its entry alone.
LEMMA MirrorAside ==
    ASSUME NEW o \in Objects, Mirrors(o), binding'[o].channel => binding[o].channel,
           object'[o] = object[o], cache'[Host][PropOf(o)] = cache[Host][PropOf(o)]
    PROVE  Mirrors(o)'
  BY DEF Mirrors, Minded, PropOf, Alone

LEMMA Announcing ==
    ASSUME NEW o \in Objects, NEW p \in Props, NEW val, Announce(p, val, {})
    PROVE  object'[o] = IF binding[o].channel /\ p = PropOf(o) THEN ChannelNotify(o, val)
                        ELSE object[o]
<1>1. object'[o] = IF o \notin {} /\ Hears(o, p) THEN ChannelNotify(o, val) ELSE object[o]
  BY DEF Announce
<1> QED BY <1>1, HearsOwn

LEMMA MirrorDispatch ==
    ASSUME MirrorInv, HostDispatch, NEW o \in Objects PROVE Mirrors(o)'
<1> DEFINE p == PropOf(o)
<1>1. /\ Host \in Clients /\ p \in Props /\ CallInv /\ LocksHold /\ TypeOK /\ Mirrors(o)
      /\ binding' = binding /\ Dispatch(Host)
  BY HostIsClient, BoundProp DEF MirrorInv, HeldInv, CallInv, HostDispatch
<1>2. inbox[Host] \in Seq(Messages) /\ inbox[Host] # <<>>
  <2>1. inbox[Host] # <<>>
    BY <1>1 DEF Dispatch
  <2> QED BY <1>1, <2>1 DEF TypeOK, Messages
<1>3. PICK m \in Messages : m = Head(inbox[Host]) /\ m = inbox[Host][1] /\ 1 \in DOMAIN inbox[Host]
  BY <1>2, TailAt
<1>4. m.prop \in Props
  BY MessageTypes
<1>5. IF Announces(Host, m) THEN Announce(m.prop, Announced(Host, m), {}) ELSE UNCHANGED object
  BY <1>3 DEF HostDispatch
<1>6. CASE m.prop # p
  <2>1. cache'[Host][p] = cache[Host][p]
    <3>1. CallInv'
      BY <1>1, DispatchStep
    <3> QED BY <1>1, <1>3, <1>6, <3>1, DispatchKeeps
  <2>2. object'[o] = object[o]
    BY <1>1, <1>4, <1>5, <1>6, Announcing
  <2> QED BY <1>1, <2>1, <2>2, MirrorAside
<1>7. CASE m.prop = p
  <2> SUFFICES ASSUME binding[o].channel, Minded(o), cache'[Host][p] \notin Unconvertible \cup {None}
               PROVE  object'[o] = cache'[Host][p]
    BY <1>1 DEF Mirrors, Minded, PropOf, Alone
  <2>1. alive[Host] /\ Held(p)
    <3>1. binding[o] = Connected
      BY Distinct DEF MirrorInv, BindingInv
    <3> QED BY <1>1, <3>1 DEF MirrorInv, BindingInv, HeldInv, Minded
  <2>2. cache'[Host][p] = cache[Host][p] => object[o] = cache'[Host][p]
    BY <1>1 DEF Mirrors
  <2>3. IF Announces(Host, m) THEN object'[o] = ChannelNotify(o, Announced(Host, m))
        ELSE object'[o] = object[o]
    BY <1>1, <1>5, <1>7, Announcing
  <2>4. Completion(Host, m) \/ SignalReceived(Host, m)
    BY <1>1, <1>3 DEF Dispatch
  <2>5. CASE SignalReceived(Host, m)
    <3>1. ~m.done /\ cache' = IF m.val # None /\ old[Host][p] # NoItem THEN cache
                              ELSE [cache EXCEPT ![Host][p] = m.val]
      BY <1>7, <2>5 DEF SignalReceived
    <3>2. m.val # None
      BY <1>3, <1>7, <2>1, <3>1 DEF Held
    <3>3. CASE old[Host][p] # NoItem
      BY <1>7, <2>2, <2>3, <3>1, <3>2, <3>3 DEF Announces
    <3>4. CASE old[Host][p] = NoItem
      <4>1. cache'[Host][p] = m.val
        BY <1>1, <3>1, <3>4 DEF TypeOK
      <4>2. Announces(Host, m) <=> cache[Host][p] # m.val
        BY <1>7, <3>1, <3>2, <3>4 DEF Announces
      <4> QED BY <2>2, <2>3, <3>1, <3>2, <4>1, <4>2 DEF Announced, ChannelNotify
    <3> QED BY <3>3, <3>4
  <2>6. CASE Completion(Host, m)
    <3>1. /\ m.done
          /\ IF Announces(Host, m) THEN cache' = [cache EXCEPT ![Host][p] = old[Host][p].before]
             ELSE cache' = cache
      BY <1>7, <2>6 DEF Completion, Announces
    <3>2. CASE Announces(Host, m)
      <4>1. cache'[Host][p] = old[Host][p].before /\ Announced(Host, m) = old[Host][p].before
        BY <1>1, <1>7, <3>1, <3>2 DEF Announced, TypeOK
      <4> QED BY <2>3, <3>2, <4>1 DEF ChannelNotify
    <3>3. CASE ~Announces(Host, m)
      BY <2>2, <2>3, <3>1, <3>3
    <3> QED BY <3>2, <3>3
  <2> QED BY <2>4, <2>5, <2>6
<1> QED BY <1>6, <1>7

\* A set by the application of a property that is its own to set.
LEMMA MirrorAppSet ==
    ASSUME MirrorInv, NEW p \in Props, NEW v \in Values, AppSet(p, v), NEW o \in Objects
    PROVE  Mirrors(o)'
<1>1. /\ Host \in Clients /\ PropOf(o) \in Props /\ CallInv /\ Mirrors(o)
      /\ binding' = binding /\ Set(Host, p, v) /\ p \in Shared
  BY HostIsClient, BoundProp DEF MirrorInv, HeldInv, AppSet, ChannelSet
<1>2. CASE p = PropOf(o)
  BY <1>1, <1>2 DEF Mirrors, Minded, PropOf
<1>3. CASE p # PropOf(o)
  <2>1. cache'[Host][PropOf(o)] = cache[Host][PropOf(o)]
    BY <1>1, <1>3, SetApart
  <2>2. object'[o] = object[o]
    BY <1>1, <1>3, Announcing DEF AppSet, ChannelSet
  <2> QED BY <1>1, <2>1, <2>2, MirrorAside
<1> QED BY <1>2, <1>3

\* With a default there is always a value to compare with.
LEMMA AlwaysCached ==
    ASSUME MirrorInv, alive[Host], NEW o \in Objects, Minded(o), ~Alone(o)
    PROVE  cache[Host][PropOf(o)] # None
<1>1. Held(PropOf(o)) /\ Default[PropOf(o)] # None
  BY BoundProp DEF MirrorInv, HeldInv, Minded
<1> QED BY <1>1 DEF Held

LEMMA MirrorNotify ==
    ASSUME Unsendable \subseteq Unconvertible, MirrorInv, NEW a \in Objects, NEW v \in Values,
           ObjectNotify(a, v), NEW o \in Objects
    PROVE  Mirrors(o)'
<1> DEFINE p == PropOf(a)
<1>1. /\ Host \in Clients /\ PropOf(o) \in Props /\ p \in Props /\ CallInv /\ TypeOK /\ Mirrors(o)
      /\ binding' = binding /\ v \notin Unconvertible /\ v # None
      /\ DOMAIN object = Objects
  BY HostIsClient, BoundProp, PropsAssumption DEF MirrorInv, HeldInv, CallInv, ObjectNotify
<1>2. CASE ~binding[a].object
  <2>1. object' = [object EXCEPT ![a] = v] /\ cache' = cache
    BY <1>2 DEF ObjectNotify, vars
  <2>2. CASE o = a
    <3>1. binding[a] = Unbound
      BY <1>2, Distinct DEF MirrorInv, BindingInv
    <3> QED BY <1>1, <2>2, <3>1, Distinct DEF Mirrors
  <2>3. CASE o # a
    BY <1>1, <2>1, <2>3, MirrorAside
  <2> QED BY <2>2, <2>3
<1>3. CASE binding[a].object
  <2>1. /\ InUse /\ Set(Host, p, v)
        /\ object'[o] = IF o = a THEN v
                        ELSE IF SetAnnounces(Host, p, v) /\ Hears(o, p) THEN ChannelNotify(o, v)
                        ELSE object[o]
    BY <1>3 DEF ObjectNotify
  <2>2. \/ Known(Host, p) = v /\ cache'[Host][p] = v
        \/ Known(Host, p) # v /\ v \notin Unsendable /\ cache'[Host][p] = v
    BY <1>1, <2>1 DEF Set, SetSent, SetUnsent, TypeOK
  <2>3. CASE o = a
    BY <2>1, <2>2, <2>3 DEF Mirrors, PropOf
  <2>4. CASE o # a /\ PropOf(o) # p
    <3>1. cache'[Host][PropOf(o)] = cache[Host][PropOf(o)]
      BY <1>1, <2>1, <2>4, SetApart
    <3>2. object'[o] = object[o]
      BY <1>1, <2>1, <2>4, HearsOwn
    <3> QED BY <1>1, <3>1, <3>2, MirrorAside
  <2>5. CASE o # a /\ PropOf(o) = p
    <3> SUFFICES ASSUME binding[o].channel, Minded(o) PROVE object'[o] = cache'[Host][p]
      BY <1>1, <2>5 DEF Mirrors, Minded, PropOf, Alone
    <3>1. Known(Host, p) = cache[Host][p] /\ cache[Host][p] # None
      BY <2>1, <2>5, AlwaysCached DEF Known, InUse, Alone
    <3>2. CASE Known(Host, p) = v
      <4>1. object'[o] = object[o]
        BY <2>1, <2>5, <3>2 DEF SetAnnounces
      <4> QED BY <1>1, <2>2, <2>5, <3>1, <3>2, <4>1 DEF Mirrors
    <3>3. CASE Known(Host, p) # v
      <4>1. SetAnnounces(Host, p, v) /\ Hears(o, p)
        BY <1>1, <2>2, <2>5, <3>3, HearsOwn DEF SetAnnounces
      <4> QED BY <1>1, <2>1, <2>2, <2>5, <3>3, <4>1 DEF ChannelNotify
    <3> QED BY <3>2, <3>3
  <2> QED BY <2>3, <2>4, <2>5
<1> QED BY <1>2, <1>3

LEMMA MirrorBind ==
    ASSUME MirrorInv, NEW a \in Objects, Bind(a), NEW o \in Objects
    PROVE  Mirrors(o)'
<1> DEFINE p == PropOf(a)
           k == Known(Host, p)
<1>1. /\ Host \in Clients /\ PropOf(o) \in Props /\ p \in Props /\ TypeOK /\ Mirrors(o)
      /\ DOMAIN object = Objects /\ alive[Host]
      /\ binding \in [Objects -> {Unbound, Connected}]
  BY HostIsClient, BoundProp DEF MirrorInv, HeldInv, CallInv, BindingInv, Bind, InUse
<1>2. /\ cache' = [cache EXCEPT ![Host][p] = k]
      /\ object' = IF k = None THEN object ELSE [object EXCEPT ![a] = ChannelNotify(a, k)]
      /\ binding' = [binding EXCEPT ![a] = Connected]
  BY DEF Bind
<1>3. /\ cache'[Host][p] = k
      /\ \A q \in Props : q # p => cache'[Host][q] = cache[Host][q]
  BY <1>1, <1>2 DEF TypeOK
<1>4. CASE o = a
  <2> SUFFICES ASSUME k \notin Unconvertible \cup {None} PROVE object'[o] = k
    BY <1>3, <1>4 DEF Mirrors, PropOf
  <2> QED BY <1>1, <1>2, <1>4 DEF ChannelNotify
<1>5. CASE o # a
  <2>1. object'[o] = object[o] /\ binding'[o] = binding[o]
    BY <1>1, <1>2, <1>5
  <2>2. CASE PropOf(o) # p
    BY <1>1, <1>3, <2>1, <2>2, MirrorAside
  <2>3. CASE PropOf(o) = p /\ Minded(o)
    <3>1. k = cache[Host][p]
      BY <1>1, <1>5, <2>3, AlwaysCached DEF Known, Alone
    <3> QED BY <1>1, <1>3, <2>1, <2>3, <3>1, MirrorAside
  <2>4. CASE ~Minded(o)
    BY <2>4 DEF Mirrors, Minded, PropOf, Alone
  <2> QED BY <2>2, <2>3, <2>4
<1> QED BY <1>4, <1>5

LEMMA MirrorStep ==
    ASSUME Unsendable \subseteq Unconvertible, MirrorInv, BindingInv', [BindingNext]_allVars
    PROVE  MirrorInv'
<1>1. HeldInv'
  BY HeldStep DEF MirrorInv
<1>2. DOMAIN object' = Objects
  <2>1. DOMAIN object = Objects
    BY DEF MirrorInv
  <2> QED BY <2>1
      DEF BindingNext, HostDispatch, Announce, Daemon, UnbindAll, AppReset, AppGet, ForeignReset,
          AppSet, ChannelSet, ForeignSet, Bind, Unbind, ObjectNotify, LibInit, LibShutdown,
          allVars, bindingVars
<1>3. ASSUME NEW o \in Objects PROVE Mirrors(o)'
  <2>1. /\ Host \in Clients /\ PropOf(o) \in Props /\ CallInv /\ LocksHold /\ TypeOK /\ Mirrors(o)
        /\ binding \in [Objects -> {Unbound, Connected}]
    BY HostIsClient, BoundProp DEF MirrorInv, HeldInv, CallInv, BindingInv
  <2>2. CASE UNCHANGED allVars
    BY <2>1, <2>2, MirrorAside DEF allVars, bindingVars, vars
  <2>3. CASE Daemon
    BY <2>1, <2>3, MirrorAside DEF Daemon, Handle, Emit, bindingVars
  <2>4. ASSUME NEW p \in Props, AppReset(p) PROVE Mirrors(o)'
    <3>1. CASE p = PropOf(o)
      BY <2>4, <3>1 DEF AppReset, Mirrors, Minded, PropOf
    <3>2. CASE p # PropOf(o)
      <4>1. Reset(Host, p, FALSE) /\ p \in Props \cup {Root}
        BY <2>4 DEF AppReset
      <4>2. CallInv'
        BY <2>1, <4>1, ResetStep
      <4>3. cache'[Host][PropOf(o)] = cache[Host][PropOf(o)]
        BY <2>1, <3>2, <4>1, <4>2, ResetKeeps
      <4> QED BY <2>1, <2>4, <4>3, MirrorAside DEF AppReset, bindingVars
    <3> QED BY <3>1, <3>2
  <2>5. ASSUME NEW p \in Props, AppGet(p) PROVE Mirrors(o)'
    <3>1. CASE p = PropOf(o)
      BY <2>5, <3>1 DEF AppGet, Mirrors, Minded, PropOf
    <3>2. CASE p # PropOf(o)
      <4>1. cache'[Host][PropOf(o)] = cache[Host][PropOf(o)]
        BY <2>1, <2>5, <3>2 DEF AppGet, Lookup, TypeOK
      <4> QED BY <2>1, <2>5, <4>1, MirrorAside DEF AppGet, bindingVars
    <3> QED BY <3>1, <3>2
  <2>6. ASSUME NEW p \in Props, NEW v \in Values, ForeignSet(p, v) \/ ForeignReset(p)
        PROVE  Mirrors(o)'
    BY <2>1, <2>6, MirrorAside DEF ForeignSet, ForeignReset, OthersSet, OthersReset, bindingVars
  <2>7. ASSUME NEW p \in Props, ForeignReset(p) PROVE Mirrors(o)'
    BY <2>1, <2>7, MirrorAside DEF ForeignReset, OthersReset, bindingVars
  <2>8. ASSUME NEW a \in Objects, Unbind(a) PROVE Mirrors(o)'
    BY <2>1, <2>8, MirrorAside, Distinct DEF Unbind, ObjectDisconnect, vars
  <2>9. CASE UnbindAll
    BY <2>1, <2>9, NoneLeft, Distinct DEF UnbindAll, Mirrors
  <2>10. ASSUME NEW u \in Users, LibInit(u) PROVE Mirrors(o)'
    BY <2>1, <2>10, MirrorAside DEF LibInit, vars
  <2>11. ASSUME NEW u \in Users, LibShutdown(u) PROVE Mirrors(o)'
    <3>1. CASE refcnt > 1
      BY <2>1, <2>11, <3>1, MirrorAside DEF LibShutdown, vars
    <3>2. CASE ~(refcnt > 1)
      BY <2>1, <2>11, <3>2, NoneLeft, Distinct DEF LibShutdown, Mirrors
    <3> QED BY <3>1, <3>2
  <2> QED BY <2>2, <2>3, <2>4, <2>5, <2>6, <2>7, <2>8, <2>9, <2>10, <2>11,
             MirrorDispatch, MirrorAppSet, MirrorNotify, MirrorBind
          DEF BindingNext
<1> QED BY <1>1, <1>2, <1>3 DEF MirrorInv

LEMMA MirrorInvHolds == Unsendable \subseteq Unconvertible /\ BindingSpec => []MirrorInv
<1> SUFFICES ASSUME Unsendable \subseteq Unconvertible PROVE BindingSpec => []MirrorInv
  OBVIOUS
<1>1. BindingInit => MirrorInv
  <2> SUFFICES ASSUME BindingInit PROVE MirrorInv
    OBVIOUS
  <2>1. InitWith(Default) /\ Default \in [Props -> MaybeValue]
    BY PropsAssumption DEF BindingInit, MaybeValue
  <2>2. CallInv /\ LocksHold /\ \A p \in Props : InStep(Host, p)
    BY <2>1, HostIsClient, CallInvInit, InStepInit
  <2>3. ASSUME NEW p \in Props PROVE Held(p)
    <3>1. idles = <<>> /\ inbox[Host] = <<>> /\ cache[Host][p] = Default[p] /\ old[Host][p] = NoItem
          /\ user[p] = None
      BY <2>1, HostIsClient DEF InitWith
    <3> QED BY <3>1 DEF Held, Coming
  <2>4. BindingInv
    BY BindingInvInit
  <2>5. DOMAIN object = Objects /\ \A o \in Objects : Mirrors(o)
    BY Distinct DEF BindingInit, Mirrors
  <2> QED BY <2>2, <2>3, <2>4, <2>5 DEF MirrorInv, HeldInv
<1>2. MirrorInv /\ BindingInv' /\ [BindingNext]_allVars => MirrorInv'
  BY MirrorStep
<1> QED BY <1>1, <1>2, BindingInvHolds, PTL DEF BindingSpec

\* Of an object bound to a property that nobody resets and the application
\* leaves to its bindings: once nothing is under way about the property, the
\* object has the daemon's value, however sets of the object, of other objects
\* on the same property and of other clients, refusals and signals were
\* interleaved (esconf_g_property_object_notify, esconf_g_property_channel_notify
\* and the cache).  What cannot be sent cannot be converted either: the objects'
\* properties are of types the library can send.
THEOREM BoundObjectsFollow == Unsendable \subseteq Unconvertible /\ BindingSpec => []BoundObjectsAgree
<1>1. MirrorInv => BoundObjectsAgree
  <2> SUFFICES ASSUME MirrorInv, NEW o \in Objects, Minded(o), binding[o].channel,
                      Settled(Host, PropOf(o)),
                      Stored(PropOf(o)) \notin Unconvertible \cup {None}
               PROVE  object[o] = Stored(PropOf(o))
    BY DEF BoundObjectsAgree, Agrees, Minded
  <2> DEFINE p == PropOf(o)
  <2>1. binding[o] = Connected
    BY Distinct DEF MirrorInv, BindingInv
  <2>2. /\ Host \in Clients /\ p \in Props \ Shared /\ CallInv /\ alive[Host]
        /\ InStep(Host, p) /\ Held(p) /\ Mirrors(o)
    BY <2>1, HostIsClient, BoundProp DEF MirrorInv, HeldInv, BindingInv, Minded
  <2>3. cache[Host][p] \in {None, Stored(p)}
    BY <2>2, InStepSettled
  <2>4. cache[Host][p] # None
    <3>1. ~Coming(p) /\ ~SignalFor(p)
      BY DEF Settled, Coming, SignalFor
    <3> QED BY <2>2, <3>1 DEF Held, Stored
  <2> QED BY <2>2, <2>3, <2>4 DEF Mirrors
<1> QED BY <1>1, MirrorInvHolds, PTL
=============================================================================
