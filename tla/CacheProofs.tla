---------------------------- MODULE CacheProofs ----------------------------
(***************************************************************************)
(* Theorems of the client caches, for any clients, properties, values and  *)
(* any number of messages under way.                                       *)
(*                                                                         *)
(* Messages are counted by their positions in a queue (Where); every       *)
(* action appends to a queue, takes its head, or replaces messages where   *)
(* they are.  The last part shows that the caches stay coherent: Synced    *)
(* says of one property at one client what is to come that corrects it,    *)
(* and a step either speaks of that property or leaves it Apart.           *)
(***************************************************************************)
EXTENDS ClientCache, FiniteSetTheorems, TLAPS

-----------------------------------------------------------------------------
(* Queues *)

\* The positions of the messages of M in the queue s.
Where(s, M) == {i \in DOMAIN s : s[i] \in M}

LEMMA WhereFinite ==
    ASSUME NEW T, NEW s \in Seq(T), NEW M
    PROVE  IsFiniteSet(Where(s, M)) /\ Cardinality(Where(s, M)) \in Nat
<1>1. DOMAIN s = 1..Len(s) /\ Len(s) \in Nat
  OBVIOUS
<1>2. IsFiniteSet(1..Len(s))
  BY <1>1, FS_Interval
<1>3. Where(s, M) \in SUBSET (1..Len(s))
  BY <1>1 DEF Where
<1>4. IsFiniteSet(Where(s, M))
  BY <1>2, <1>3, FS_Subset
<1> QED BY <1>4, FS_CardinalityType

LEMMA WhereAppend ==
    ASSUME NEW T, NEW s \in Seq(T), NEW x \in T, NEW M
    PROVE  Cardinality(Where(Append(s, x), M)) =
               Cardinality(Where(s, M)) + (IF x \in M THEN 1 ELSE 0)
<1> DEFINE n == Len(s) + 1
           u == Append(s, x)
<1>1. /\ u \in Seq(T) /\ DOMAIN s = 1..Len(s) /\ DOMAIN u = 1..n /\ u[n] = x
      /\ Len(s) \in Nat /\ \A i \in 1..Len(s) : u[i] = s[i]
  OBVIOUS
<1>2. n \notin Where(s, M)
  BY <1>1 DEF Where
<1>3. Where(u, M) = IF x \in M THEN Where(s, M) \cup {n} ELSE Where(s, M)
  <2> HIDE DEF u
  <2> QED BY <1>1 DEF Where
<1>4. IsFiniteSet(Where(s, M)) /\ Cardinality(Where(s, M)) \in Nat
  BY WhereFinite
<1>5. Cardinality(Where(s, M) \cup {n}) = Cardinality(Where(s, M)) + 1
  BY <1>2, <1>4, FS_AddElement
<1> HIDE DEF u
<1>6. Cardinality(Where(u, M)) = Cardinality(Where(s, M)) + (IF x \in M THEN 1 ELSE 0)
  BY <1>3, <1>4, <1>5
<1> QED BY <1>6 DEF u

LEMMA WhereTail ==
    ASSUME NEW T, NEW s \in Seq(T), s # <<>>, NEW M
    PROVE  Cardinality(Where(Tail(s), M)) =
               Cardinality(Where(s, M)) - (IF Head(s) \in M THEN 1 ELSE 0)
<1> DEFINE W == Where(s, M) \ {1}
           V == Where(Tail(s), M)
           f == [i \in V |-> i + 1]
<1>1. /\ Tail(s) \in Seq(T) /\ Len(s) \in Nat /\ Len(s) > 0
      /\ DOMAIN s = 1..Len(s) /\ DOMAIN Tail(s) = 1..(Len(s) - 1)
      /\ \A i \in 1..(Len(s) - 1) : Tail(s)[i] = s[i + 1]
      /\ Head(s) = s[1]
  OBVIOUS
<1>2. V \subseteq 1..(Len(s) - 1) /\ W \subseteq 2..Len(s)
  BY <1>1 DEF Where
<1>3. \A i \in 1..(Len(s) - 1) : i \in V <=> i + 1 \in W
  BY <1>1 DEF Where
<1>4. f \in Bijection(V, W)
  <2>1. f \in [V -> W]
    BY <1>2, <1>3
  <2>2. \A a, b \in V : f[a] = f[b] => a = b
    BY <1>2
  <2>3. \A w \in W : \E a \in V : f[a] = w
    <3> SUFFICES ASSUME NEW w \in W PROVE \E a \in V : f[a] = w
      OBVIOUS
    <3>1. w - 1 \in 1..(Len(s) - 1) /\ (w - 1) + 1 = w
      BY <1>1, <1>2
    <3>2. w - 1 \in V
      BY <1>3, <3>1
    <3> QED BY <3>1, <3>2
  <2> QED BY <2>1, <2>2, <2>3 DEF Bijection, Injection, Surjection, IsInjective
<1>5. Cardinality(W) = Cardinality(V)
  <2>1. IsFiniteSet(V)
    BY <1>1, WhereFinite
  <2>2. ExistsBijection(V, W)
    BY <1>4 DEF ExistsBijection
  <2> HIDE DEF V, W
  <2> QED BY <2>1, <2>2, FS_Bijection
<1>6. 1 \in Where(s, M) <=> Head(s) \in M
  BY <1>1 DEF Where
<1>7. IsFiniteSet(Where(s, M)) /\ Cardinality(Where(s, M)) \in Nat
  BY WhereFinite
<1>8. Cardinality(W) = IF 1 \in Where(s, M) THEN Cardinality(Where(s, M)) - 1
                       ELSE Cardinality(Where(s, M))
  BY <1>7, FS_RemoveElement
<1> QED BY <1>5, <1>6, <1>7, <1>8

\* Messages replaced in place.
LEMMA WhereSame ==
    ASSUME NEW s, NEW u, DOMAIN u = DOMAIN s, NEW M,
           \A i \in DOMAIN s : u[i] \in M <=> s[i] \in M
    PROVE  Where(u, M) = Where(s, M)
  BY DEF Where

-----------------------------------------------------------------------------
(* Messages and old items *)

LiveCalls(p) == {m \in Call : IsLive(m, p)}
RepliesFor(p) == {m \in Done : m.prop = p}
Messages == Done \cup Signal
Items == PendingItem \cup OtherItem

LiveNow(c, p) == Cardinality(Where(wire[c], LiveCalls(p)))
RepliesNow(c, p) == Cardinality(Where(inbox[c], RepliesFor(p)))

LEMMA MessageTypes ==
    /\ \A m \in Messages : /\ m.prop \in Props
                           /\ m.done => m \in Done /\ m.ok \in BOOLEAN
                           /\ ~m.done => m \in Signal /\ m.val \in MaybeValue
    /\ \A p \in Props : \A m \in Messages : m \in RepliesFor(p) <=> m.done /\ m.prop = p
    /\ \A p \in Props : \A m \in Call : m \in LiveCalls(p) <=> m.prop = p /\ ~m.cancelled
  BY DEF Messages, Done, Signal, RepliesFor, LiveCalls, IsLive

LEMMA ReplyType ==
    ASSUME NEW p \in Props, NEW ok \in BOOLEAN
    PROVE  /\ Reply(p, ok) \in Messages
           /\ Reply(p, ok).done /\ Reply(p, ok).prop = p /\ Reply(p, ok).ok = ok
           /\ \A q \in Props : Reply(p, ok) \in RepliesFor(q) <=> p = q
  BY DEF Reply, Messages, Done, RepliesFor

LEMMA StoredType ==
    ASSUME user \in [Props -> MaybeValue], NEW p \in Props PROVE Stored(p) \in MaybeValue
  BY PropsAssumption DEF Stored, MaybeValue

LEMMA SignalType ==
    ASSUME user \in [Props -> MaybeValue], NEW p \in Props
    PROVE  /\ SignalOf(p) \in Messages
           /\ ~SignalOf(p).done /\ SignalOf(p).prop = p /\ SignalOf(p).val = Stored(p)
           /\ \A q \in Props : SignalOf(p) \notin RepliesFor(q)
  BY StoredType DEF SignalOf, Messages, Signal, Done, RepliesFor

LEMMA NewItemType ==
    ASSUME NEW b \in MaybeValue, NEW v \in Values \cup {None}, NEW n \in Nat,
           v # None => n > 0
    PROVE  LET item == [before |-> b, sent |-> v, count |-> n, cancelled |-> FALSE]
           IN  /\ item \in Items
               /\ item.before = b /\ item.sent = v /\ item.count = n /\ ~item.cancelled
  BY DEF Items, PendingItem, OtherItem

LEMMA ItemTypes ==
    ASSUME NEW item \in Items
    PROVE  /\ item # NoItem /\ item.count \in Nat /\ item.before \in MaybeValue
           /\ item.sent \in MaybeValue /\ item.cancelled \in BOOLEAN
           /\ item.sent # None => item.count > 0
<1>1. item # NoItem
  <2>1. DOMAIN item = {"before", "sent", "count", "cancelled"}
    BY DEF Items, PendingItem, OtherItem
  <2>2. DOMAIN NoItem = {"count"}
    BY DEF NoItem
  <2> QED BY <2>1, <2>2
<1>2. item.count \in Nat /\ (item.sent # None => item.count # 0)
  BY DEF Items, PendingItem, OtherItem
<1>3. /\ item.before \in MaybeValue /\ item.sent \in MaybeValue
      /\ item.cancelled \in BOOLEAN
  BY DEF Items, PendingItem, OtherItem, MaybeValue
<1> QED BY <1>1, <1>2, <1>3

\* A second set while calls are outstanding.
LEMMA ReusedItem ==
    ASSUME NEW item \in Items, ~item.cancelled, NEW v \in Values
    PROVE  LET new == [item EXCEPT !.sent = v, !.count = @ + 1]
           IN  /\ new \in Items /\ new.count = item.count + 1 /\ ~new.cancelled
               /\ new.before = item.before /\ new.sent = v
<1> DEFINE n == item.count + 1
<1>1. n \in Nat \ {0}
  BY ItemTypes
<1> HIDE DEF n
<1>2. LET new == [item EXCEPT !.sent = v, !.count = n]
      IN  /\ new \in Items /\ new.count = n /\ ~new.cancelled
          /\ new.before = item.before /\ new.sent = v
  BY <1>1 DEF Items, PendingItem, OtherItem
<1> QED BY <1>2 DEF n

\* A completion that is not the last.
LEMMA CountedItem ==
    ASSUME NEW item \in Items, item.count > 1
    PROVE  LET new == [item EXCEPT !.count = @ - 1]
           IN  /\ new \in Items /\ new.count = item.count - 1
               /\ new.cancelled = item.cancelled /\ new.before = item.before
               /\ new.sent = item.sent
<1> DEFINE n == item.count - 1
<1>1. n \in Nat \ {0}
  BY ItemTypes
<1> HIDE DEF n
<1>2. LET new == [item EXCEPT !.count = n]
      IN  /\ new \in Items /\ new.count = n /\ new.cancelled = item.cancelled
          /\ new.before = item.before /\ new.sent = item.sent
  BY <1>1 DEF Items, PendingItem, OtherItem
<1> QED BY <1>2 DEF n

LEMMA UnsentItem ==
    ASSUME NEW item \in Items
    PROVE  LET new == [item EXCEPT !.sent = None]
           IN  /\ new \in Items /\ new.count = item.count
               /\ new.cancelled = item.cancelled /\ new.before = item.before
  BY DEF Items, PendingItem, OtherItem

LEMMA CancelledItem ==
    ASSUME NEW item \in Items
    PROVE  LET new == [item EXCEPT !.sent = None, !.cancelled = TRUE]
           IN  new \in Items /\ new.count = item.count /\ new.cancelled
  BY DEF Items, PendingItem, OtherItem

-----------------------------------------------------------------------------
(* The inductive invariant of the counting *)

\* An item that a cache in use may still be handed is not cancelled for good.
ItemsOpen ==
    \A c \in Clients, p \in Props : alive[c] /\ old[c][p] # NoItem => ~old[c][p].cancelled

\* At most one call about a property has its reply still to come.
OneLiveCall == \A c \in Clients, p \in Props : LiveNow(c, p) <= 1

Counted ==
    \A c \in Clients, p \in Props : LiveNow(c, p) + RepliesNow(c, p) = old[c][p].count

CallInv == TypeOK /\ ItemsOpen /\ OneLiveCall /\ Counted

LEMMA CountTypes ==
    ASSUME TypeOK, NEW c \in Clients, NEW p \in Props
    PROVE  /\ wire[c] \in Seq(Call) /\ inbox[c] \in Seq(Messages)
           /\ old[c][p] \in Items \cup {NoItem} /\ old[c][p].count \in Nat
           /\ LiveNow(c, p) \in Nat /\ RepliesNow(c, p) \in Nat
<1>1. /\ wire[c] \in Seq(Call) /\ inbox[c] \in Seq(Messages)
      /\ old[c][p] \in Items \cup {NoItem}
  BY DEF TypeOK, Messages, Items
<1>2. old[c][p].count \in Nat
  BY <1>1, ItemTypes DEF NoItem
<1> QED BY <1>1, <1>2, WhereFinite DEF LiveNow, RepliesNow

\* What the property says of sets of positions.
LEMMA OutstandingIsCounted ==
    ASSUME TypeOK, NEW c \in Clients, NEW p \in Props
    PROVE  Outstanding(c, p) = LiveNow(c, p) + RepliesNow(c, p)
<1>1. wire[c] \in Seq(Call) /\ inbox[c] \in Seq(Messages)
  BY CountTypes
<1>2. {i \in DOMAIN wire[c] : IsLive(wire[c][i], p)} = Where(wire[c], LiveCalls(p))
  <2>1. \A i \in DOMAIN wire[c] : wire[c][i] \in Call
    BY <1>1
  <2> QED BY <2>1 DEF Where, LiveCalls
<1>3. {i \in DOMAIN inbox[c] : inbox[c][i].done /\ inbox[c][i].prop = p}
          = Where(inbox[c], RepliesFor(p))
  <2>1. \A i \in DOMAIN inbox[c] : inbox[c][i] \in Messages
    BY <1>1
  <2> QED BY <2>1, MessageTypes DEF Where
<1> QED BY <1>2, <1>3 DEF Outstanding, LiveNow, RepliesNow

LEMMA CancelledWire ==
    ASSUME TypeOK, NEW c \in Clients, NEW p \in Props
    PROVE  /\ WireAfterCancel(c, p) \in Seq(Call)
           /\ DOMAIN WireAfterCancel(c, p) = DOMAIN wire[c]
           /\ \A i \in DOMAIN wire[c] :
                 /\ WireAfterCancel(c, p)[i].prop = wire[c][i].prop
                 /\ WireAfterCancel(c, p)[i].val = wire[c][i].val
                 /\ wire[c][i].prop # p => WireAfterCancel(c, p)[i] = wire[c][i]
                 /\ wire[c][i].prop = p => WireAfterCancel(c, p)[i].cancelled
           /\ \A q \in Props :
                 Cardinality(Where(WireAfterCancel(c, p), LiveCalls(q))) =
                     IF q = p THEN 0 ELSE LiveNow(c, q)
<1> DEFINE w == wire[c]
           u == WireAfterCancel(c, p)
<1>1. w \in Seq(Call) /\ \A i \in DOMAIN w : w[i] \in Call
  BY CountTypes
<1>2. DOMAIN u = DOMAIN w /\ DOMAIN w = 1..Len(w) /\ Len(w) \in Nat
  BY <1>1 DEF WireAfterCancel
<1>3. \A i \in DOMAIN w :
          /\ u[i] \in Call /\ u[i].prop = w[i].prop /\ u[i].val = w[i].val
          /\ w[i].prop # p => u[i] = w[i]
          /\ w[i].prop = p => u[i].cancelled
  BY <1>1 DEF WireAfterCancel, IsLive, Call
<1>4. u \in Seq(Call)
  <2>1. u \in [1..Len(w) -> Call]
    BY <1>2, <1>3 DEF WireAfterCancel
  <2> QED BY <1>2, <2>1
<1> HIDE DEF u
<1>5. Where(u, LiveCalls(p)) = {}
  BY <1>2, <1>3, MessageTypes DEF Where
<1>6. ASSUME NEW q \in Props, q # p PROVE Where(u, LiveCalls(q)) = Where(w, LiveCalls(q))
  <2>1. \A i \in DOMAIN w : u[i] \in LiveCalls(q) <=> w[i] \in LiveCalls(q)
    BY <1>1, <1>3, <1>6, MessageTypes
  <2> QED BY <1>2, <2>1, WhereSame
<1> QED BY <1>2, <1>3, <1>4, <1>5, <1>6, FS_EmptySet DEF LiveNow, u

LEMMA CancelledInbox ==
    ASSUME TypeOK, NEW c \in Clients, NEW p \in Props, LiveNow(c, p) <= 1
    PROVE  /\ InboxAfterCancel(c, p) \in Seq(Messages)
           /\ \A q \in Props :
                 Cardinality(Where(InboxAfterCancel(c, p), RepliesFor(q))) =
                     RepliesNow(c, q) + (IF q = p THEN LiveNow(c, p) ELSE 0)
<1> DEFINE b == inbox[c]
           u == [i \in DOMAIN b |-> IF b[i].done /\ b[i].prop = p THEN Reply(p, FALSE) ELSE b[i]]
           L == Where(wire[c], LiveCalls(p))
           r == Reply(p, FALSE)
<1>1. /\ b \in Seq(Messages) /\ wire[c] \in Seq(Call)
      /\ \A i \in DOMAIN b : b[i] \in Messages
  BY CountTypes
<1>2. DOMAIN u = DOMAIN b /\ DOMAIN b = 1..Len(b) /\ Len(b) \in Nat
  BY <1>1
<1>3. \A i \in DOMAIN b : u[i] \in Messages
  BY <1>1, ReplyType
<1>4. u \in Seq(Messages)
  <2>1. u \in [1..Len(b) -> Messages]
    BY <1>2, <1>3
  <2> HIDE DEF u, b
  <2> QED BY <1>2, <2>1
<1>5. \A q \in Props : \A i \in DOMAIN b : u[i] \in RepliesFor(q) <=> b[i] \in RepliesFor(q)
  <2> SUFFICES ASSUME NEW q \in Props, NEW i \in DOMAIN b
               PROVE  u[i] \in RepliesFor(q) <=> b[i] \in RepliesFor(q)
    OBVIOUS
  <2>1. CASE b[i].done /\ b[i].prop = p
    <3>1. u[i] = r
      BY <2>1
    <3>2. r \in RepliesFor(q) <=> p = q
      BY ReplyType
    <3>3. b[i] \in RepliesFor(q) <=> p = q
      BY <1>1, <2>1, MessageTypes
    <3> QED BY <3>1, <3>2, <3>3
  <2>2. CASE ~(b[i].done /\ b[i].prop = p)
    BY <2>2
  <2> QED BY <2>1, <2>2
<1>6. \A q \in Props : Where(u, RepliesFor(q)) = Where(b, RepliesFor(q))
  BY <1>2, <1>5, WhereSame
<1>7. (\E i \in DOMAIN wire[c] : IsLive(wire[c][i], p)) <=> L # {}
  <2>1. \A i \in DOMAIN wire[c] : wire[c][i] \in Call
    BY <1>1
  <2> QED BY <2>1 DEF Where, LiveCalls
<1>8. IsFiniteSet(L) /\ Cardinality(L) \in Nat
  BY <1>1, WhereFinite
<1>9. L # {} => LiveNow(c, p) = 1
  BY <1>8, FS_EmptySet DEF LiveNow
<1>10. L = {} => LiveNow(c, p) = 0
  BY FS_EmptySet DEF LiveNow
<1>11. InboxAfterCancel(c, p) = IF L # {} THEN Append(u, r) ELSE u
  <2>1. InboxAfterCancel(c, p) = u \o (IF L # {} THEN <<r>> ELSE <<>>)
    BY <1>7 DEF InboxAfterCancel
  <2>2. u \o <<r>> = Append(u, r) /\ u \o <<>> = u
    <3> HIDE DEF u, r
    <3> QED BY <1>4
  <2> QED BY <2>1, <2>2
<1>12. \A q \in Props : Cardinality(Where(u, RepliesFor(q))) = RepliesNow(c, q)
  BY <1>6 DEF RepliesNow
<1>13. \A q \in Props : RepliesNow(c, q) \in Nat
  BY CountTypes
<1>14. r \in Messages /\ \A q \in Props : r \in RepliesFor(q) <=> p = q
  BY ReplyType
<1>15. \A q \in Props : Cardinality(Where(Append(u, r), RepliesFor(q))) =
                           RepliesNow(c, q) + (IF p = q THEN 1 ELSE 0)
  <2> SUFFICES ASSUME NEW q \in Props
               PROVE  Cardinality(Where(Append(u, r), RepliesFor(q))) =
                         RepliesNow(c, q) + (IF p = q THEN 1 ELSE 0)
    OBVIOUS
  <2> HIDE DEF u, r
  <2>1. Cardinality(Where(Append(u, r), RepliesFor(q))) =
            Cardinality(Where(u, RepliesFor(q))) + (IF r \in RepliesFor(q) THEN 1 ELSE 0)
    BY <1>4, <1>14, WhereAppend
  <2> QED BY <2>1, <1>12, <1>14
<1>16. Append(u, r) \in Seq(Messages)
  <2> HIDE DEF u, r
  <2> QED BY <1>4, <1>14
<1> HIDE DEF u, r, L
<1> QED BY <1>4, <1>9, <1>10, <1>11, <1>12, <1>13, <1>15, <1>16

-----------------------------------------------------------------------------
(* The steps *)

\* A step that touches one property of one client, and keeps the balance there.
LEMMA StepAt ==
    ASSUME CallInv, NEW c \in Clients, NEW p \in Props,
           \A d \in Clients, q \in Props :
              d # c \/ q # p => /\ LiveNow(d, q)' = LiveNow(d, q)
                                /\ RepliesNow(d, q)' = RepliesNow(d, q)
                                /\ old'[d][q].count = old[d][q].count,
           LiveNow(c, p)' <= 1,
           LiveNow(c, p)' + RepliesNow(c, p)' = old'[c][p].count
    PROVE  OneLiveCall' /\ Counted'
<1>1. OneLiveCall /\ Counted
  BY DEF CallInv
<1>2. ASSUME NEW d \in Clients, NEW q \in Props
      PROVE  LiveNow(d, q)' <= 1 /\ LiveNow(d, q)' + RepliesNow(d, q)' = old'[d][q].count
  <2>1. CASE d = c /\ q = p
    BY <2>1
  <2>2. CASE d # c \/ q # p
    BY <1>1, <2>2 DEF OneLiveCall, Counted
  <2> QED BY <2>1, <2>2
<1> QED BY <1>2 DEF OneLiveCall, Counted

\* Steps that leave calls, replies and old items alone.
LEMMA QuietStep ==
    ASSUME CallInv, UNCHANGED <<wire, inbox, old>>,
           user' \in [Props -> MaybeValue], idles' \in Seq(Props),
           alive' \in [Clients -> BOOLEAN], cache' \in [Clients -> [Props -> MaybeValue]],
           \A c \in Clients : alive'[c] => alive[c]
    PROVE  CallInv'
<1>1. TypeOK'
  BY DEF CallInv, TypeOK
<1>2. ItemsOpen'
  BY DEF CallInv, ItemsOpen
<1>3. OneLiveCall' /\ Counted'
  BY DEF CallInv, OneLiveCall, Counted, LiveNow, RepliesNow
<1> QED BY <1>1, <1>2, <1>3 DEF CallInv

LEMMA OldAt ==
    ASSUME TypeOK, NEW c \in Clients, NEW p \in Props, NEW new \in Items \cup {NoItem},
           old' = [old EXCEPT ![c][p] = new]
    PROVE  /\ old' \in [Clients -> [Props -> Items \cup {NoItem}]]
           /\ old'[c][p] = new
           /\ \A d \in Clients, q \in Props : d # c \/ q # p => old'[d][q] = old[d][q]
<1>1. old \in [Clients -> [Props -> Items \cup {NoItem}]]
  BY DEF TypeOK, Items
<1> QED BY <1>1

LEMMA CacheAt ==
    ASSUME TypeOK, NEW c \in Clients, NEW p \in Props, NEW v \in MaybeValue,
           cache' = [cache EXCEPT ![c][p] = v]
    PROVE  /\ cache' \in [Clients -> [Props -> MaybeValue]]
           /\ cache'[c][p] = v
           /\ \A d \in Clients, q \in Props : d # c \/ q # p => cache'[d][q] = cache[d][q]
  BY DEF TypeOK

LEMMA SetSentStep ==
    ASSUME CallInv, NEW c \in Clients, NEW p \in Props, NEW v \in Values,
           alive[c], SetSent(c, p, v), UNCHANGED <<user, idles, alive>>
    PROVE  CallInv'
<1> DEFINE m == [prop |-> p, val |-> v, cancelled |-> FALSE]
           w == WireAfterCancel(c, p)
           b == InboxAfterCancel(c, p)
           fresh == [before |-> Known(c, p), sent |-> v, count |-> 1, cancelled |-> FALSE]
           new == IF old[c][p] = NoItem THEN fresh
                  ELSE [old[c][p] EXCEPT !.sent = v, !.count = @ + 1]
<1>1. TypeOK /\ ItemsOpen /\ OneLiveCall /\ Counted
  BY DEF CallInv
<1>2. /\ old' = [old EXCEPT ![c][p] = new]
      /\ inbox' = [inbox EXCEPT ![c] = b]
      /\ wire' = [wire EXCEPT ![c] = Append(w, m)]
      /\ cache' = [cache EXCEPT ![c][p] = v]
  BY DEF SetSent
<1>3. new \in Items /\ new.count = old[c][p].count + 1 /\ ~new.cancelled
  <2>1. CASE old[c][p] = NoItem
    <3>1. Known(c, p) \in MaybeValue
      BY <1>1, StoredType DEF Known, TypeOK
    <3>2. fresh \in Items /\ fresh.count = 1 /\ ~fresh.cancelled
      BY <3>1, NewItemType
    <3> QED BY <2>1, <3>2 DEF NoItem
  <2>2. CASE old[c][p] # NoItem
    <3>1. old[c][p] \in Items /\ ~old[c][p].cancelled
      BY <1>1, <2>2, CountTypes DEF ItemsOpen
    <3> QED BY <2>2, <3>1, ReusedItem
  <2> QED BY <2>1, <2>2
<1>4. m \in Call /\ \A q \in Props : m \in LiveCalls(q) <=> q = p
  BY DEF Call, LiveCalls, IsLive
<1>5. /\ w \in Seq(Call)
      /\ \A q \in Props : Cardinality(Where(w, LiveCalls(q))) = IF q = p THEN 0 ELSE LiveNow(c, q)
  BY <1>1, CancelledWire
<1>6. /\ b \in Seq(Messages)
      /\ \A q \in Props : Cardinality(Where(b, RepliesFor(q))) =
                             RepliesNow(c, q) + (IF q = p THEN LiveNow(c, p) ELSE 0)
  BY <1>1, CancelledInbox DEF OneLiveCall
<1> HIDE DEF m, w, b, new
<1>7. ASSUME NEW q \in Props
      PROVE  Cardinality(Where(Append(w, m), LiveCalls(q))) = IF q = p THEN 1 ELSE LiveNow(c, q)
  <2>1. Cardinality(Where(Append(w, m), LiveCalls(q))) =
            Cardinality(Where(w, LiveCalls(q))) + (IF m \in LiveCalls(q) THEN 1 ELSE 0)
    BY <1>4, <1>5, WhereAppend
  <2>2. LiveNow(c, q) \in Nat
    BY <1>1, CountTypes
  <2> QED BY <2>1, <2>2, <1>4, <1>5
<1>8. /\ wire'[c] = Append(w, m) /\ inbox'[c] = b
      /\ \A d \in Clients : d # c => wire'[d] = wire[d] /\ inbox'[d] = inbox[d]
  BY <1>1, <1>2 DEF TypeOK
<1>9. TypeOK'
  <2>1. old' \in [Clients -> [Props -> PendingItem \cup OtherItem \cup {NoItem}]]
    BY <1>1, <1>2, <1>3, OldAt DEF Items
  <2>2. Append(w, m) \in Seq(Call)
    BY <1>4, <1>5
  <2>3. wire' \in [Clients -> Seq(Call)] /\ inbox' \in [Clients -> Seq(Done \cup Signal)]
    BY <1>1, <1>2, <1>6, <2>2 DEF TypeOK, Messages
  <2>4. cache' \in [Clients -> [Props -> MaybeValue]]
    BY <1>1, <1>2, CacheAt DEF MaybeValue
  <2> QED BY <1>1, <2>1, <2>3, <2>4 DEF TypeOK
<1>10. /\ old'[c][p] = new
       /\ \A d \in Clients, q \in Props : d # c \/ q # p => old'[d][q] = old[d][q]
  BY <1>1, <1>2, <1>3, OldAt
<1>11. ItemsOpen'
  BY <1>1, <1>3, <1>10 DEF ItemsOpen
<1>12. \A d \in Clients, q \in Props :
          d # c \/ q # p => LiveNow(d, q)' = LiveNow(d, q) /\ RepliesNow(d, q)' = RepliesNow(d, q)
  <2> SUFFICES ASSUME NEW d \in Clients, NEW q \in Props, d # c \/ q # p
               PROVE  LiveNow(d, q)' = LiveNow(d, q) /\ RepliesNow(d, q)' = RepliesNow(d, q)
    OBVIOUS
  <2>1. CASE d # c
    BY <1>8, <2>1 DEF LiveNow, RepliesNow
  <2>2. CASE d = c /\ q # p
    <3>1. RepliesNow(c, q) \in Nat
      BY <1>1, CountTypes
    <3>2. Cardinality(Where(b, RepliesFor(q))) = RepliesNow(c, q)
      BY <1>6, <2>2, <3>1
    <3>3. Cardinality(Where(Append(w, m), LiveCalls(q))) = LiveNow(c, q)
      BY <1>7, <2>2
    <3> QED BY <1>8, <2>2, <3>2, <3>3 DEF LiveNow, RepliesNow
  <2> QED BY <2>1, <2>2
<1>13. LiveNow(c, p)' = 1 /\ RepliesNow(c, p)' = RepliesNow(c, p) + LiveNow(c, p)
  BY <1>6, <1>7, <1>8 DEF LiveNow, RepliesNow
<1>14. LiveNow(c, p)' + RepliesNow(c, p)' = old'[c][p].count
  <2>1. LiveNow(c, p) \in Nat /\ RepliesNow(c, p) \in Nat
    BY <1>1, CountTypes
  <2> QED BY <1>1, <1>3, <1>10, <1>13, <2>1 DEF Counted
<1>15. OneLiveCall' /\ Counted'
  BY <1>10, <1>12, <1>13, <1>14, StepAt
<1> QED BY <1>9, <1>11, <1>15 DEF CallInv

\* A value that cannot be sent: no call, and nothing to count it.
LEMMA SetUnsentStep ==
    ASSUME CallInv, NEW c \in Clients, NEW p \in Props, NEW v \in Values,
           alive[c], SetUnsent(c, p, v), UNCHANGED <<user, idles, alive>>
    PROVE  CallInv'
<1> DEFINE w == WireAfterCancel(c, p)
           b == InboxAfterCancel(c, p)
           fresh == [before |-> Known(c, p), sent |-> None, count |-> 0, cancelled |-> FALSE]
           new == IF old[c][p] = NoItem THEN fresh ELSE [old[c][p] EXCEPT !.sent = None]
<1>1. TypeOK /\ ItemsOpen /\ OneLiveCall /\ Counted
  BY DEF CallInv
<1>2. /\ old' = [old EXCEPT ![c][p] = new]
      /\ inbox' = [inbox EXCEPT ![c] = b]
      /\ wire' = [wire EXCEPT ![c] = w]
      /\ cache' = [cache EXCEPT ![c][p] = Known(c, p)]
  BY DEF SetUnsent
<1>3. Known(c, p) \in MaybeValue
  BY <1>1, StoredType DEF Known, TypeOK
<1>4. new \in Items /\ new.count = old[c][p].count /\ ~new.cancelled
  <2>1. CASE old[c][p] = NoItem
    <3>1. fresh \in Items /\ fresh.count = 0 /\ ~fresh.cancelled
      BY <1>3, NewItemType
    <3> QED BY <2>1, <3>1 DEF NoItem
  <2>2. CASE old[c][p] # NoItem
    <3>1. old[c][p] \in Items /\ ~old[c][p].cancelled
      BY <1>1, <2>2, CountTypes DEF ItemsOpen
    <3> QED BY <2>2, <3>1, UnsentItem
  <2> QED BY <2>1, <2>2
<1>5. /\ w \in Seq(Call)
      /\ \A q \in Props : Cardinality(Where(w, LiveCalls(q))) = IF q = p THEN 0 ELSE LiveNow(c, q)
  BY <1>1, CancelledWire
<1>6. /\ b \in Seq(Messages)
      /\ \A q \in Props : Cardinality(Where(b, RepliesFor(q))) =
                             RepliesNow(c, q) + (IF q = p THEN LiveNow(c, p) ELSE 0)
  BY <1>1, CancelledInbox DEF OneLiveCall
<1> HIDE DEF w, b, new
<1>7. /\ wire'[c] = w /\ inbox'[c] = b
      /\ \A d \in Clients : d # c => wire'[d] = wire[d] /\ inbox'[d] = inbox[d]
  BY <1>1, <1>2 DEF TypeOK
<1>8. TypeOK'
  <2>1. old' \in [Clients -> [Props -> PendingItem \cup OtherItem \cup {NoItem}]]
    BY <1>1, <1>2, <1>4, OldAt DEF Items
  <2>2. wire' \in [Clients -> Seq(Call)] /\ inbox' \in [Clients -> Seq(Done \cup Signal)]
    BY <1>1, <1>2, <1>5, <1>6 DEF TypeOK, Messages
  <2>3. cache' \in [Clients -> [Props -> MaybeValue]]
    BY <1>1, <1>2, <1>3, CacheAt
  <2> QED BY <1>1, <2>1, <2>2, <2>3 DEF TypeOK
<1>9. /\ old'[c][p] = new
      /\ \A d \in Clients, q \in Props : d # c \/ q # p => old'[d][q] = old[d][q]
  BY <1>1, <1>2, <1>4, OldAt
<1>10. ItemsOpen'
  BY <1>1, <1>4, <1>9 DEF ItemsOpen
<1>11. \A d \in Clients, q \in Props :
          d # c \/ q # p => LiveNow(d, q)' = LiveNow(d, q) /\ RepliesNow(d, q)' = RepliesNow(d, q)
  <2> SUFFICES ASSUME NEW d \in Clients, NEW q \in Props, d # c \/ q # p
               PROVE  LiveNow(d, q)' = LiveNow(d, q) /\ RepliesNow(d, q)' = RepliesNow(d, q)
    OBVIOUS
  <2>1. CASE d # c
    BY <1>7, <2>1 DEF LiveNow, RepliesNow
  <2>2. CASE d = c /\ q # p
    <3>1. RepliesNow(c, q) \in Nat
      BY <1>1, CountTypes
    <3> QED BY <1>5, <1>6, <1>7, <2>2, <3>1 DEF LiveNow, RepliesNow
  <2> QED BY <2>1, <2>2
<1>12. LiveNow(c, p)' = 0 /\ RepliesNow(c, p)' = RepliesNow(c, p) + LiveNow(c, p)
  BY <1>5, <1>6, <1>7 DEF LiveNow, RepliesNow
<1>13. LiveNow(c, p)' + RepliesNow(c, p)' = old'[c][p].count
  <2>1. LiveNow(c, p) \in Nat /\ RepliesNow(c, p) \in Nat
    BY <1>1, CountTypes
  <2> QED BY <1>1, <1>4, <1>9, <1>12, <2>1 DEF Counted
<1>14. OneLiveCall' /\ Counted'
  BY <1>9, <1>11, <1>12, <1>13, StepAt
<1> QED BY <1>8, <1>10, <1>14 DEF CallInv

LEMMA SetStep ==
    ASSUME CallInv, NEW c \in Clients, NEW p \in Props, NEW v \in Values, Set(c, p, v)
    PROVE  CallInv'
<1>1. alive[c] /\ UNCHANGED <<user, idles, alive>>
  BY DEF Set
<1>2. CASE Known(c, p) = v /\ cache' = [cache EXCEPT ![c][p] = v] /\ UNCHANGED <<wire, inbox, old>>
  <2>1. TypeOK /\ v \in MaybeValue
    BY DEF CallInv, MaybeValue
  <2>2. cache' \in [Clients -> [Props -> MaybeValue]]
    BY <1>2, <2>1, CacheAt
  <2> QED BY <1>1, <1>2, <2>1, <2>2, QuietStep DEF TypeOK
<1>3. CASE SetSent(c, p, v)
  BY <1>1, <1>3, SetSentStep
<1>4. CASE SetUnsent(c, p, v)
  BY <1>1, <1>4, SetUnsentStep
<1> QED BY <1>2, <1>3, <1>4 DEF Set

LEMMA LookupStep ==
    ASSUME CallInv, NEW c \in Clients, NEW p \in Props, Lookup(c, p) PROVE CallInv'
<1>1. TypeOK
  BY DEF CallInv
<1>2. Stored(p) \in MaybeValue
  BY <1>1, StoredType DEF TypeOK
<1>3. cache' \in [Clients -> [Props -> MaybeValue]]
  BY <1>1, <1>2, CacheAt DEF Lookup
<1> QED BY <1>1, <1>3, QuietStep DEF Lookup, TypeOK

LEMMA PrefetchStep ==
    ASSUME CallInv, NEW c \in Clients, Prefetch(c) PROVE CallInv'
<1>1. TypeOK
  BY DEF CallInv
<1>2. [p \in Props |-> Stored(p)] \in [Props -> MaybeValue]
  BY <1>1, StoredType DEF TypeOK
<1>3. cache' \in [Clients -> [Props -> MaybeValue]]
  BY <1>1, <1>2 DEF Prefetch, TypeOK
<1> QED BY <1>1, <1>3, QuietStep DEF Prefetch, TypeOK

\* A queue with the notes of several properties behind it.
LEMMA QueuedIdles ==
    ASSUME idles \in Seq(Props), NEW S \in SUBSET Props
    PROVE  idles \o SetToSeq(S) \in Seq(Props)
<1> DEFINE n == Cardinality(S)
           s == SetToSeq(S)
<1>1. IsFiniteSet(S)
  BY PropsAssumption, FS_Subset
<1>2. n \in Nat /\ ExistsBijection(1..n, S)
  BY <1>1, FS_CardinalityType
<1>3. PICK b \in [1..n -> S] : IsInjective(b)
  BY <1>2 DEF ExistsBijection, Bijection, Injection
<1>4. s \in [1..n -> S]
  BY <1>3 DEF SetToSeq
<1> HIDE DEF s, n
<1>5. s \in Seq(Props)
  <2>1. s \in [1..n -> Props]
    BY <1>4
  <2> QED BY <1>2, <2>1
<1>6. idles \o s \in Seq(Props)
  BY <1>5
<1> QED BY <1>6 DEF s

LEMMA ResetStep ==
    ASSUME CallInv, NEW c \in Clients, NEW base \in Props \cup {Root}, NEW recursive \in BOOLEAN,
           Reset(c, base, recursive)
    PROVE  CallInv'
<1> DEFINE S == IF recursive THEN Subtree[base] ELSE {base}
           kept == [q \in Props |-> IF q \in Evicted(base, recursive) THEN None ELSE cache[c][q]]
<1>1. TypeOK
  BY DEF CallInv
<1>2. S \in SUBSET Props
  BY PropsAssumption DEF Reset
<1>3. user' = [q \in Props |-> IF q \in S THEN None ELSE user[q]]
  BY DEF Reset
<1>4. idles' = idles \o SetToSeq({q \in S : user[q] # None})
  BY DEF Reset
<1>5. cache' = [cache EXCEPT ![c] = kept] \/ cache' = cache
  BY DEF Reset
<1>6. kept \in [Props -> MaybeValue]
  BY <1>1 DEF TypeOK, MaybeValue
<1>7. cache' \in [Clients -> [Props -> MaybeValue]]
  <2> HIDE DEF kept
  <2> QED BY <1>1, <1>5, <1>6 DEF TypeOK
<1>8. user' \in [Props -> MaybeValue]
  BY <1>1, <1>3 DEF TypeOK, MaybeValue
<1>9. idles' \in Seq(Props)
  <2>1. {q \in S : user[q] # None} \in SUBSET Props
    BY <1>2
  <2> QED BY <1>1, <1>4, <2>1, QueuedIdles DEF TypeOK
<1>10. UNCHANGED <<wire, inbox, alive, old>>
  BY DEF Reset
<1> QED BY <1>1, <1>7, <1>8, <1>9, <1>10, QuietStep DEF TypeOK

LEMMA HandleStep ==
    ASSUME CallInv, NEW c \in Clients, Handle(c) PROVE CallInv'
<1>1. TypeOK /\ ItemsOpen /\ OneLiveCall /\ Counted
  BY DEF CallInv
<1>2. wire[c] \in Seq(Call) /\ inbox[c] \in Seq(Messages) /\ wire[c] # <<>>
  <2>1. wire[c] # <<>>
    BY DEF Handle
  <2> QED BY <1>1, <2>1 DEF TypeOK, Messages
<1>msg. PICK m \in Call : m = Head(wire[c])
  <2>1. Head(wire[c]) \in Call
    BY <1>2
  <2> QED BY <2>1
<1> DEFINE r == Reply(m.prop, Accepts(m.prop))
<1>3. m \in Call /\ m.prop \in Props /\ m.val \in Values /\ m.cancelled \in BOOLEAN
  BY DEF Call
<1>4. /\ wire' = [wire EXCEPT ![c] = Tail(@)]
      /\ inbox' = IF m.cancelled THEN inbox ELSE [inbox EXCEPT ![c] = Append(@, r)]
      /\ \/ user' = [user EXCEPT ![m.prop] = m.val] /\ idles' = Append(idles, m.prop)
         \/ UNCHANGED <<user, idles>>
      /\ UNCHANGED <<alive, cache, old>>
  BY <1>msg DEF Handle
<1>5. r \in Messages /\ \A q \in Props : r \in RepliesFor(q) <=> m.prop = q
  <2>1. Accepts(m.prop) \in BOOLEAN
    BY DEF Accepts
  <2> QED BY <1>3, <2>1, ReplyType
<1> HIDE DEF r
<1>6. \A q \in Props : m \in LiveCalls(q) <=> m.prop = q /\ ~m.cancelled
  BY <1>3, MessageTypes
<1>7. TypeOK'
  <2>1. user' \in [Props -> MaybeValue] /\ idles' \in Seq(Props)
    <3>1. user \in [Props -> MaybeValue] /\ idles \in Seq(Props) /\ m.val \in MaybeValue
      BY <1>1, <1>3 DEF TypeOK, MaybeValue
    <3>2. /\ [user EXCEPT ![m.prop] = m.val] \in [Props -> MaybeValue]
          /\ Append(idles, m.prop) \in Seq(Props)
      BY <1>3, <3>1
    <3> QED BY <1>4, <3>1, <3>2
  <2>2. wire' \in [Clients -> Seq(Call)]
    <3>1. Tail(wire[c]) \in Seq(Call)
      BY <1>2
    <3> QED BY <1>1, <1>4, <3>1 DEF TypeOK
  <2>3. inbox' \in [Clients -> Seq(Done \cup Signal)]
    <3>1. Append(inbox[c], r) \in Seq(Done \cup Signal)
      BY <1>2, <1>5 DEF Messages
    <3> QED BY <1>1, <1>4, <3>1 DEF TypeOK
  <2> QED BY <1>1, <1>4, <2>1, <2>2, <2>3 DEF TypeOK
<1>8. /\ wire'[c] = Tail(wire[c])
      /\ inbox'[c] = IF m.cancelled THEN inbox[c] ELSE Append(inbox[c], r)
      /\ \A d \in Clients : d # c => wire'[d] = wire[d] /\ inbox'[d] = inbox[d]
  BY <1>1, <1>4 DEF TypeOK
<1>9. ASSUME NEW q \in Props
      PROVE  /\ LiveNow(c, q)' = LiveNow(c, q) - (IF m.prop = q /\ ~m.cancelled THEN 1 ELSE 0)
             /\ RepliesNow(c, q)' = RepliesNow(c, q) + (IF m.prop = q /\ ~m.cancelled THEN 1 ELSE 0)
  <2>1. Cardinality(Where(Tail(wire[c]), LiveCalls(q))) =
            Cardinality(Where(wire[c], LiveCalls(q))) - (IF m \in LiveCalls(q) THEN 1 ELSE 0)
    BY <1>2, <1>msg, WhereTail
  <2>2. Cardinality(Where(Append(inbox[c], r), RepliesFor(q))) =
            Cardinality(Where(inbox[c], RepliesFor(q))) + (IF r \in RepliesFor(q) THEN 1 ELSE 0)
    BY <1>2, <1>5, WhereAppend
  <2>3. RepliesNow(c, q) \in Nat
    BY <1>1, CountTypes
  <2>4. LiveNow(c, q)' = LiveNow(c, q) - (IF m.prop = q /\ ~m.cancelled THEN 1 ELSE 0)
    BY <1>6, <1>8, <2>1 DEF LiveNow
  <2>5. CASE m.cancelled
    BY <1>8, <2>3, <2>4, <2>5 DEF RepliesNow
  <2>6. CASE ~m.cancelled
    <3>1. RepliesNow(c, q)' = RepliesNow(c, q) + (IF m.prop = q THEN 1 ELSE 0)
      BY <1>5, <1>8, <2>2, <2>6 DEF RepliesNow
    <3> QED BY <2>4, <2>6, <3>1
  <2> QED BY <2>5, <2>6
<1>10. \A d \in Clients, q \in Props : LiveNow(d, q) \in Nat /\ RepliesNow(d, q) \in Nat
  BY <1>1, CountTypes
<1>11. ASSUME NEW d \in Clients, NEW q \in Props, d # c \/ q # m.prop
       PROVE  LiveNow(d, q)' = LiveNow(d, q) /\ RepliesNow(d, q)' = RepliesNow(d, q)
  <2>1. CASE d # c
    BY <1>8, <2>1 DEF LiveNow, RepliesNow
  <2>2. CASE d = c
    BY <1>9, <1>10, <1>11, <2>2
  <2> QED BY <2>1, <2>2
<1>12. LiveNow(c, m.prop)' <= 1 /\ LiveNow(c, m.prop)' + RepliesNow(c, m.prop)' = old'[c][m.prop].count
  <2>1. LiveNow(c, m.prop) <= 1 /\ LiveNow(c, m.prop) + RepliesNow(c, m.prop) = old[c][m.prop].count
    BY <1>1, <1>3 DEF OneLiveCall, Counted
  <2>2. old' = old
    BY <1>4
  <2>3. /\ LiveNow(c, m.prop)' = LiveNow(c, m.prop) - (IF ~m.cancelled THEN 1 ELSE 0)
        /\ RepliesNow(c, m.prop)' = RepliesNow(c, m.prop) + (IF ~m.cancelled THEN 1 ELSE 0)
    BY <1>3, <1>9
  <2> QED BY <1>3, <1>10, <2>1, <2>2, <2>3
<1>13. OneLiveCall' /\ Counted'
  BY <1>3, <1>4, <1>11, <1>12, StepAt
<1>14. ItemsOpen'
  BY <1>1, <1>4 DEF ItemsOpen
<1> QED BY <1>7, <1>13, <1>14 DEF CallInv

LEMMA EmitStep ==
    ASSUME CallInv, Emit PROVE CallInv'
<1>1. TypeOK /\ ItemsOpen /\ OneLiveCall /\ Counted
  BY DEF CallInv
<1>2. idles \in Seq(Props) /\ idles # <<>>
  BY <1>1 DEF Emit, TypeOK
<1>3. PICK s \in Messages : s = SignalOf(Head(idles)) /\ \A q \in Props : s \notin RepliesFor(q)
  <2>1. Head(idles) \in Props
    BY <1>2
  <2> QED BY <1>1, <2>1, SignalType DEF TypeOK
<1>4. /\ inbox' = [c \in Clients |-> IF alive[c] THEN Append(inbox[c], s) ELSE inbox[c]]
      /\ idles' = Tail(idles) /\ UNCHANGED <<user, wire, alive, cache, old>>
  BY <1>3 DEF Emit
<1>5. \A c \in Clients : inbox[c] \in Seq(Messages) /\ Append(inbox[c], s) \in Seq(Messages)
  <2>1. \A c \in Clients : inbox[c] \in Seq(Messages)
    BY <1>1 DEF TypeOK, Messages
  <2> QED BY <1>3, <2>1
<1>6. TypeOK'
  <2>1. idles' \in Seq(Props)
    BY <1>2, <1>4
  <2>2. inbox' \in [Clients -> Seq(Done \cup Signal)]
    BY <1>4, <1>5 DEF Messages
  <2> QED BY <1>1, <1>4, <2>1, <2>2 DEF TypeOK
<1>7. ASSUME NEW c \in Clients, NEW q \in Props
      PROVE  LiveNow(c, q)' = LiveNow(c, q) /\ RepliesNow(c, q)' = RepliesNow(c, q)
  <2>1. Cardinality(Where(Append(inbox[c], s), RepliesFor(q))) =
            Cardinality(Where(inbox[c], RepliesFor(q))) + (IF s \in RepliesFor(q) THEN 1 ELSE 0)
    BY <1>3, <1>5, WhereAppend
  <2>2. RepliesNow(c, q) \in Nat
    BY <1>1, CountTypes
  <2>3. inbox'[c] = inbox[c] \/ inbox'[c] = Append(inbox[c], s)
    BY <1>4
  <2>4. RepliesNow(c, q)' = RepliesNow(c, q)
    <3>1. Cardinality(Where(Append(inbox[c], s), RepliesFor(q))) = RepliesNow(c, q)
      BY <1>3, <2>1, <2>2 DEF RepliesNow
    <3>2. RepliesNow(c, q)' = Cardinality(Where(inbox'[c], RepliesFor(q)))
      BY DEF RepliesNow
    <3> QED BY <2>3, <3>1, <3>2 DEF RepliesNow
  <2> QED BY <1>4, <2>4 DEF LiveNow
<1>8. OneLiveCall' /\ Counted'
  BY <1>1, <1>4, <1>7 DEF OneLiveCall, Counted
<1>9. ItemsOpen'
  BY <1>1, <1>4 DEF ItemsOpen
<1> QED BY <1>6, <1>8, <1>9 DEF CallInv

LEMMA TimeoutStep ==
    ASSUME CallInv, NEW c \in Clients, Timeout(c) PROVE CallInv'
<1>1. TypeOK /\ ItemsOpen /\ OneLiveCall /\ Counted
  BY DEF CallInv
<1>2. /\ wire[c] \in Seq(Call) /\ inbox[c] \in Seq(Messages)
      /\ DOMAIN wire[c] = 1..Len(wire[c]) /\ Len(wire[c]) \in Nat
  BY <1>1 DEF TypeOK, Messages
<1>3. PICK i \in DOMAIN wire[c] :
         /\ ~wire[c][i].cancelled
         /\ inbox' = [inbox EXCEPT ![c] = Append(@, Reply(wire[c][i].prop, FALSE))]
         /\ wire' = [wire EXCEPT ![c][i].cancelled = TRUE]
  BY DEF Timeout
<1>4. UNCHANGED <<user, idles, alive, cache, old>>
  BY DEF Timeout
<1>5. PICK p \in Props : p = wire[c][i].prop
  <2>1. wire[c][i] \in Call
    BY <1>2
  <2> QED BY <2>1 DEF Call
<1> DEFINE u == [wire[c] EXCEPT ![i].cancelled = TRUE]
           r == Reply(p, FALSE)
<1>6. /\ wire' = [wire EXCEPT ![c] = u]
      /\ inbox' = [inbox EXCEPT ![c] = Append(@, r)]
  BY <1>1, <1>3, <1>5 DEF TypeOK
<1>7. r \in Messages /\ \A q \in Props : r \in RepliesFor(q) <=> p = q
  BY ReplyType
<1>8. /\ DOMAIN u = DOMAIN wire[c]
      /\ \A j \in DOMAIN wire[c] : j # i => u[j] = wire[c][j]
      /\ u[i] = [wire[c][i] EXCEPT !.cancelled = TRUE]
  BY <1>2
<1>9. wire[c][i] \in Call /\ u[i] \in Call /\ u[i].prop = p /\ u[i].cancelled
  <2>1. wire[c][i] \in Call
    BY <1>2
  <2> HIDE DEF u
  <2> QED BY <1>5, <1>8, <2>1 DEF Call
<1>10. u \in Seq(Call)
  <2>1. u = [j \in 1..Len(wire[c]) |-> u[j]] /\ \A j \in 1..Len(wire[c]) : u[j] \in Call
    <3>1. \A j \in 1..Len(wire[c]) : u[j] \in Call
      <4> HIDE DEF u
      <4> QED BY <1>2, <1>8, <1>9
    <3> QED BY <1>2, <3>1
  <2>2. u \in [1..Len(wire[c]) -> Call]
    <3> HIDE DEF u
    <3> QED BY <2>1
  <2> HIDE DEF u
  <2> QED BY <1>2, <2>2
<1> HIDE DEF u, r
<1>11. /\ wire'[c] = u /\ inbox'[c] = Append(inbox[c], r)
       /\ \A d \in Clients : d # c => wire'[d] = wire[d] /\ inbox'[d] = inbox[d]
  BY <1>1, <1>6 DEF TypeOK
<1>12. TypeOK'
  <2>1. Append(inbox[c], r) \in Seq(Done \cup Signal)
    BY <1>2, <1>7 DEF Messages
  <2>2. inbox' \in [Clients -> Seq(Done \cup Signal)]
    BY <1>1, <1>6, <2>1 DEF TypeOK
  <2>3. wire' \in [Clients -> Seq(Call)]
    BY <1>1, <1>6, <1>10 DEF TypeOK
  <2> QED BY <1>1, <1>4, <2>2, <2>3 DEF TypeOK
<1>13. ASSUME NEW q \in Props
       PROVE  LiveNow(c, q)' = LiveNow(c, q) - (IF q = p THEN 1 ELSE 0)
  <2>1. \A j \in DOMAIN wire[c] : wire[c][j] \in Call
    BY <1>2
  <2>2. Where(u, LiveCalls(q)) = Where(wire[c], LiveCalls(q)) \ {i}
    <3>1. u[i] \notin LiveCalls(q)
      BY <1>9 DEF LiveCalls, IsLive
    <3> QED BY <1>8, <3>1 DEF Where
  <2>3. i \in Where(wire[c], LiveCalls(q)) <=> q = p
    BY <1>3, <1>5, <1>9, MessageTypes DEF Where
  <2>4. IsFiniteSet(Where(wire[c], LiveCalls(q))) /\ Cardinality(Where(wire[c], LiveCalls(q))) \in Nat
    BY <1>2, WhereFinite
  <2>5. Cardinality(Where(wire[c], LiveCalls(q)) \ {i}) =
            IF i \in Where(wire[c], LiveCalls(q)) THEN Cardinality(Where(wire[c], LiveCalls(q))) - 1
            ELSE Cardinality(Where(wire[c], LiveCalls(q)))
    BY <2>4, FS_RemoveElement
  <2> QED BY <1>11, <2>2, <2>3, <2>4, <2>5 DEF LiveNow
<1>14. ASSUME NEW q \in Props
       PROVE  RepliesNow(c, q)' = RepliesNow(c, q) + (IF q = p THEN 1 ELSE 0)
  <2>1. Cardinality(Where(Append(inbox[c], r), RepliesFor(q))) =
            Cardinality(Where(inbox[c], RepliesFor(q))) + (IF r \in RepliesFor(q) THEN 1 ELSE 0)
    BY <1>2, <1>7, WhereAppend
  <2> QED BY <1>7, <1>11, <2>1 DEF RepliesNow
<1>15. \A q \in Props : LiveNow(c, q) \in Nat /\ RepliesNow(c, q) \in Nat
  BY <1>1, CountTypes
<1>16. ASSUME NEW d \in Clients, NEW q \in Props, d # c \/ q # p
       PROVE  LiveNow(d, q)' = LiveNow(d, q) /\ RepliesNow(d, q)' = RepliesNow(d, q)
  <2>1. CASE d # c
    BY <1>11, <2>1 DEF LiveNow, RepliesNow
  <2>2. CASE d = c
    BY <1>13, <1>14, <1>15, <1>16, <2>2
  <2> QED BY <2>1, <2>2
<1>17. LiveNow(c, p)' <= 1 /\ LiveNow(c, p)' + RepliesNow(c, p)' = old'[c][p].count
  <2>1. LiveNow(c, p) <= 1 /\ LiveNow(c, p) + RepliesNow(c, p) = old[c][p].count
    BY <1>1 DEF OneLiveCall, Counted
  <2>2. LiveNow(c, p)' = LiveNow(c, p) - 1 /\ RepliesNow(c, p)' = RepliesNow(c, p) + 1
    BY <1>13, <1>14
  <2> QED BY <1>4, <1>15, <2>1, <2>2
<1>18. OneLiveCall' /\ Counted'
  BY <1>4, <1>16, <1>17, StepAt
<1>19. ItemsOpen'
  BY <1>1, <1>4 DEF ItemsOpen
<1> QED BY <1>12, <1>18, <1>19 DEF CallInv

LEMMA CompletionStep ==
    ASSUME CallInv, NEW c \in Clients, NEW m \in Messages, inbox[c] # <<>>, m = Head(inbox[c]),
           Completion(c, m), inbox' = [inbox EXCEPT ![c] = Tail(@)],
           UNCHANGED <<user, idles, wire, alive>>
    PROVE  CallInv'
<1>1. TypeOK /\ ItemsOpen /\ OneLiveCall /\ Counted
  BY DEF CallInv
<1>2. PICK p \in Props : p = m.prop
  BY MessageTypes
<1>3. m.done /\ \A q \in Props : m \in RepliesFor(q) <=> q = p
  <2>1. m.done
    BY DEF Completion
  <2> QED BY <1>2, <2>1, MessageTypes
<1>4. inbox[c] \in Seq(Messages) /\ Tail(inbox[c]) \in Seq(Messages)
  <2>1. inbox[c] \in Seq(Messages)
    BY <1>1 DEF TypeOK, Messages
  <2> QED BY <2>1
<1>5. /\ inbox'[c] = Tail(inbox[c]) /\ \A d \in Clients : d # c => inbox'[d] = inbox[d]
      /\ inbox' \in [Clients -> Seq(Done \cup Signal)]
  BY <1>1, <1>4 DEF TypeOK, Messages
<1>6. \A q \in Props : RepliesNow(c, q)' = RepliesNow(c, q) - (IF q = p THEN 1 ELSE 0)
  <2> SUFFICES ASSUME NEW q \in Props
               PROVE  RepliesNow(c, q)' = RepliesNow(c, q) - (IF q = p THEN 1 ELSE 0)
    OBVIOUS
  <2>1. Cardinality(Where(Tail(inbox[c]), RepliesFor(q))) =
            Cardinality(Where(inbox[c], RepliesFor(q))) - (IF Head(inbox[c]) \in RepliesFor(q) THEN 1 ELSE 0)
    BY <1>4, WhereTail
  <2> QED BY <1>3, <1>5, <2>1 DEF RepliesNow
<1>7. \A d \in Clients, q \in Props :
         LiveNow(d, q)' = LiveNow(d, q) /\ LiveNow(d, q) \in Nat /\ RepliesNow(d, q) \in Nat
  BY <1>1, CountTypes DEF LiveNow
<1>8. old[c][p] \in Items \cup {NoItem}
  BY <1>1, CountTypes
<1>9. PICK new \in Items \cup {NoItem} :
         /\ old' = [old EXCEPT ![c][p] = new]
         /\ new.count = old[c][p].count - 1
         /\ new # NoItem => new.cancelled = old[c][p].cancelled /\ old[c][p] # NoItem
  <2>1. CASE old[c][p].count > 1 /\ old' = [old EXCEPT ![c][m.prop].count = @ - 1]
    <3>1. old[c][p] \in Items
      BY <1>8, <2>1 DEF NoItem
    <3> DEFINE new == [old[c][p] EXCEPT !.count = @ - 1]
    <3>2. new \in Items /\ new.count = old[c][p].count - 1 /\ new.cancelled = old[c][p].cancelled
      BY <2>1, <3>1, CountedItem
    <3>3. old' = [old EXCEPT ![c][p] = new]
      BY <1>1, <1>2, <2>1 DEF TypeOK
    <3>4. old[c][p] # NoItem
      BY <3>1, ItemTypes
    <3> QED BY <3>2, <3>3, <3>4
  <2>2. CASE old[c][p].count = 1 /\ old' = [old EXCEPT ![c][m.prop] = NoItem]
    <3>1. NoItem.count = 0
      BY DEF NoItem
    <3>2. /\ old' = [old EXCEPT ![c][p] = NoItem]
          /\ NoItem.count = old[c][p].count - 1
      BY <1>2, <2>2, <3>1
    <3> WITNESS NoItem \in Items \cup {NoItem}
    <3> QED BY <3>2
  <2> QED BY <1>2, <2>1, <2>2 DEF Completion
<1>10. /\ old' \in [Clients -> [Props -> Items \cup {NoItem}]]
       /\ old'[c][p] = new
       /\ \A d \in Clients, q \in Props : d # c \/ q # p => old'[d][q] = old[d][q]
  BY <1>1, <1>9, OldAt
<1>11. cache' \in [Clients -> [Props -> MaybeValue]]
  <2>1. CASE cache' = [cache EXCEPT ![c][p] = old[c][p].before] /\ old[c][p].count = 1
    <3>1. old[c][p] \in Items
      BY <1>8, <2>1 DEF NoItem
    <3>2. old[c][p].before \in MaybeValue
      BY <3>1, ItemTypes
    <3> QED BY <1>1, <2>1, <3>2, CacheAt
  <2>2. CASE cache' = cache
    BY <1>1, <2>2 DEF TypeOK
  <2> QED BY <1>2, <2>1, <2>2 DEF Completion
<1>12. TypeOK'
  BY <1>1, <1>5, <1>10, <1>11 DEF TypeOK, Items
<1>13. ItemsOpen'
  BY <1>1, <1>9, <1>10 DEF ItemsOpen
<1>14. ASSUME NEW d \in Clients, NEW q \in Props, d # c \/ q # p
       PROVE  LiveNow(d, q)' = LiveNow(d, q) /\ RepliesNow(d, q)' = RepliesNow(d, q)
  <2>1. CASE d # c
    BY <1>5, <1>7, <2>1 DEF RepliesNow
  <2>2. CASE d = c
    BY <1>6, <1>7, <1>14, <2>2
  <2> QED BY <2>1, <2>2
<1>15. LiveNow(c, p)' <= 1 /\ LiveNow(c, p)' + RepliesNow(c, p)' = old'[c][p].count
  <2>1. LiveNow(c, p) <= 1 /\ LiveNow(c, p) + RepliesNow(c, p) = old[c][p].count
    BY <1>1 DEF OneLiveCall, Counted
  <2>2. LiveNow(c, p)' = LiveNow(c, p) /\ RepliesNow(c, p)' = RepliesNow(c, p) - 1
    BY <1>6, <1>7
  <2> QED BY <1>7, <1>9, <1>10, <2>1, <2>2
<1>16. OneLiveCall' /\ Counted'
  BY <1>10, <1>14, <1>15, StepAt
<1> QED BY <1>12, <1>13, <1>16 DEF CallInv

LEMMA SignalStep ==
    ASSUME CallInv, NEW c \in Clients, NEW m \in Messages, inbox[c] # <<>>, m = Head(inbox[c]),
           SignalReceived(c, m), inbox' = [inbox EXCEPT ![c] = Tail(@)],
           UNCHANGED <<user, idles, wire, alive>>
    PROVE  CallInv'
<1>1. TypeOK /\ ItemsOpen /\ OneLiveCall /\ Counted
  BY DEF CallInv
<1>2. PICK p \in Props : p = m.prop
  BY MessageTypes
<1>3. ~m.done /\ m.val \in MaybeValue /\ old' = old
  <2>1. ~m.done /\ old' = old
    BY DEF SignalReceived
  <2> QED BY <2>1, MessageTypes
<1>4. inbox[c] \in Seq(Messages) /\ Tail(inbox[c]) \in Seq(Messages)
  <2>1. inbox[c] \in Seq(Messages)
    BY <1>1 DEF TypeOK, Messages
  <2> QED BY <2>1
<1>5. /\ inbox'[c] = Tail(inbox[c]) /\ \A d \in Clients : d # c => inbox'[d] = inbox[d]
      /\ inbox' \in [Clients -> Seq(Done \cup Signal)]
  BY <1>1, <1>4 DEF TypeOK, Messages
<1>6. cache' \in [Clients -> [Props -> MaybeValue]]
  <2>1. CASE cache' = [cache EXCEPT ![c][p] = m.val]
    BY <1>1, <1>3, <2>1, CacheAt
  <2>2. CASE cache' = cache
    BY <1>1, <2>2 DEF TypeOK
  <2> QED BY <1>2, <2>1, <2>2 DEF SignalReceived
<1>7. TypeOK'
  BY <1>1, <1>3, <1>5, <1>6 DEF TypeOK
<1>8. ASSUME NEW d \in Clients, NEW q \in Props
      PROVE  LiveNow(d, q)' = LiveNow(d, q) /\ RepliesNow(d, q)' = RepliesNow(d, q)
  <2>1. LiveNow(d, q)' = LiveNow(d, q) /\ RepliesNow(d, q) \in Nat
    BY <1>1, CountTypes DEF LiveNow
  <2>2. CASE d # c
    BY <1>5, <2>1, <2>2 DEF RepliesNow
  <2>3. CASE d = c
    <3>1. Cardinality(Where(Tail(inbox[c]), RepliesFor(q))) =
              Cardinality(Where(inbox[c], RepliesFor(q))) - (IF Head(inbox[c]) \in RepliesFor(q) THEN 1 ELSE 0)
      BY <1>4, WhereTail
    <3>2. m \notin RepliesFor(q)
      BY <1>3, MessageTypes
    <3>3. RepliesNow(c, q)' = Cardinality(Where(Tail(inbox[c]), RepliesFor(q)))
      BY <1>5 DEF RepliesNow
    <3>4. RepliesNow(c, q) = Cardinality(Where(inbox[c], RepliesFor(q)))
      BY DEF RepliesNow
    <3> QED BY <2>1, <2>3, <3>1, <3>2, <3>3, <3>4
  <2> QED BY <2>2, <2>3
<1>9. OneLiveCall' /\ Counted'
  BY <1>1, <1>3, <1>8 DEF OneLiveCall, Counted
<1>10. ItemsOpen'
  BY <1>1, <1>3 DEF ItemsOpen
<1> QED BY <1>7, <1>9, <1>10 DEF CallInv

LEMMA DispatchStep ==
    ASSUME CallInv, NEW c \in Clients, Dispatch(c) PROVE CallInv'
<1>1. inbox[c] \in Seq(Messages) /\ inbox[c] # <<>>
  <2>1. inbox[c] # <<>>
    BY DEF Dispatch
  <2> QED BY <2>1 DEF CallInv, TypeOK, Messages
<1>2. PICK m \in Messages : m = Head(inbox[c])
  <2>1. Head(inbox[c]) \in Messages
    BY <1>1
  <2> QED BY <2>1
<1>3. /\ Completion(c, m) \/ SignalReceived(c, m)
      /\ inbox' = [inbox EXCEPT ![c] = Tail(@)]
      /\ UNCHANGED <<user, idles, wire, alive>>
  BY <1>2 DEF Dispatch
<1> QED BY <1>1, <1>2, <1>3, CompletionStep, SignalStep

\* What Finalize leaves of a queue: its completions, each of them once.
LEMMA CompletionsOnly ==
    ASSUME NEW s \in Seq(Messages)
    PROVE  /\ Completions(s) \in Seq(Messages)
           /\ \A p \in Props : Cardinality(Where(Completions(s), RepliesFor(p))) =
                               Cardinality(Where(s, RepliesFor(p)))
<1> DEFINE D == {i \in DOMAIN s : s[i].done}
           n == Cardinality(D)
           Below(i) == {j \in D : j < i}
           rank == [i \in D |-> Cardinality(Below(i))]
           Place(k) == CHOOSE i \in D : Cardinality({j \in D : j < i}) = k - 1
           u == Completions(s)
<1>1. /\ D \in SUBSET Nat /\ IsFiniteSet(D) /\ n \in Nat
      /\ \A i \in D : s[i] \in Messages
  <2>1. DOMAIN s = 1..Len(s) /\ Len(s) \in Nat /\ \A i \in 1..Len(s) : s[i] \in Messages
    OBVIOUS
  <2>2. IsFiniteSet(1..Len(s)) /\ D \in SUBSET (1..Len(s))
    BY <2>1, FS_Interval
  <2>3. IsFiniteSet(D)
    BY <2>2, FS_Subset
  <2> QED BY <2>1, <2>2, <2>3, FS_CardinalityType
<1>2. u = [k \in 1..n |-> s[Place(k)]]
  BY DEF Completions
<1>3. \A p \in Props : Where(s, RepliesFor(p)) = {i \in D : s[i] \in RepliesFor(p)}
  BY MessageTypes DEF Where, RepliesFor, Done
<1> HIDE DEF D
<1>4. \A i \in D : IsFiniteSet(Below(i)) /\ rank[i] \in 0..(n - 1)
  <2> SUFFICES ASSUME NEW i \in D PROVE IsFiniteSet(Below(i)) /\ rank[i] \in 0..(n - 1)
    OBVIOUS
  <2>1. IsFiniteSet(D \ {i}) /\ Cardinality(D \ {i}) = n - 1
    BY <1>1, FS_RemoveElement
  <2>2. Below(i) \in SUBSET (D \ {i})
    BY <1>1
  <2>3. IsFiniteSet(Below(i)) /\ Cardinality(Below(i)) <= n - 1
    BY <2>1, <2>2, FS_Subset
  <2>4. Cardinality(Below(i)) \in Nat
    BY <2>3, FS_CardinalityType
  <2> QED BY <1>1, <2>3, <2>4
<1>5. \A i, k \in D : rank[i] = rank[k] => i = k
  <2>1. ASSUME NEW i \in D, NEW k \in D, i < k PROVE rank[i] # rank[k]
    <3>1. Below(i) \in SUBSET Below(k) /\ i \in Below(k) /\ i \notin Below(i)
      <4>1. i \in Nat /\ k \in Nat /\ \A j \in D : j \in Nat
        BY <1>1
      <4>2. \A j \in D : j < i => j < k
        BY <2>1, <4>1
      <4>3. ~(i < i)
        BY <4>1
      <4> QED BY <2>1, <4>2, <4>3
    <3>2. Cardinality(Below(k)) = Cardinality(Below(i)) => Below(k) = Below(i)
      BY <1>4, <3>1, FS_Subset
    <3> QED BY <3>1, <3>2
  <2> QED BY <1>1, <2>1
<1>6. rank \in Surjection(D, 0..(n - 1))
  <2>1. rank \in Injection(D, 0..(n - 1))
    BY <1>4, <1>5 DEF Injection, IsInjective
  <2>2. IsFiniteSet(0..(n - 1)) /\ Cardinality(0..(n - 1)) = n
    <3>1. n \in Nat
      BY <1>1
    <3> HIDE DEF n
    <3> QED BY <3>1, FS_Interval
  <2>3. n = Cardinality(D)
    OBVIOUS
  <2> HIDE DEF n, rank
  <2> QED BY <2>1, <2>2, <2>3, FS_Injection
<1>7. \A k \in 1..n : Place(k) \in D /\ rank[Place(k)] = k - 1
  <2> SUFFICES ASSUME NEW k \in 1..n PROVE Place(k) \in D /\ rank[Place(k)] = k - 1
    OBVIOUS
  <2>1. \E i \in D : rank[i] = k - 1
    <3>1. k - 1 \in 0..(n - 1)
      <4>1. n \in Nat
        BY <1>1
      <4> HIDE DEF n
      <4> QED BY <4>1
    <3> HIDE DEF n, rank
    <3> QED BY <1>6, <3>1 DEF Surjection
  <2> QED BY <2>1
<1> HIDE DEF Place, rank
<1>8. u \in Seq(Messages) /\ DOMAIN u = 1..n /\ \A k \in 1..n : u[k] = s[Place(k)]
  <2>1. \A k \in 1..n : s[Place(k)] \in Messages
    BY <1>1, <1>7
  <2> QED BY <1>1, <1>2, <2>1
<1> HIDE DEF u
<1>9. ASSUME NEW p \in Props
      PROVE  Cardinality(Where(u, RepliesFor(p))) = Cardinality(Where(s, RepliesFor(p)))
  <2> DEFINE V == Where(u, RepliesFor(p))
             W == Where(s, RepliesFor(p))
             f == [k \in V |-> Place(k)]
  <2>1. V = {k \in 1..n : s[Place(k)] \in RepliesFor(p)}
    BY <1>8 DEF Where
  <2>2. W = {i \in D : s[i] \in RepliesFor(p)}
    BY <1>3
  <2> HIDE DEF V, W
  <2>3. f \in [V -> W]
    BY <1>7, <2>1, <2>2
  <2>4. \A a, b \in V : f[a] = f[b] => a = b
    BY <1>1, <1>7, <2>1
  <2>5. ASSUME NEW i \in W PROVE \E k \in V : f[k] = i
    <3>1. rank[i] \in 0..(n - 1) /\ i \in D
      BY <1>4, <2>2
    <3>2. rank[i] + 1 \in 1..n /\ (rank[i] + 1) - 1 = rank[i]
      BY <1>1, <3>1
    <3>3. Place(rank[i] + 1) = i
      BY <1>5, <1>7, <3>1, <3>2
    <3>4. rank[i] + 1 \in V
      BY <2>1, <2>2, <3>2, <3>3
    <3> QED BY <3>3, <3>4
  <2>6. ExistsBijection(V, W)
    <3>1. f \in Bijection(V, W)
      BY <2>3, <2>4, <2>5 DEF Bijection, Injection, Surjection, IsInjective
    <3> QED BY <3>1 DEF ExistsBijection
  <2>7. IsFiniteSet(V)
    BY <1>8, WhereFinite DEF V
  <2>8. Cardinality(V) = Cardinality(W)
    BY <2>6, <2>7, FS_Bijection
  <2> QED BY <2>8 DEF V, W
<1> QED BY <1>8, <1>9 DEF u

LEMMA FinalizeStep ==
    ASSUME CallInv, NEW c \in Clients, Finalize(c) PROVE CallInv'
<1> DEFINE pending == {p \in Props : old[c][p] # NoItem /\ old[c][p].sent # None}
           changed == {p \in pending : Changes(p, old[c][p].sent)}
           items == [p \in Props |->
                       IF p \in pending THEN [old[c][p] EXCEPT !.sent = None, !.cancelled = TRUE]
                       ELSE old[c][p]]
<1>1. TypeOK /\ ItemsOpen /\ OneLiveCall /\ Counted
  BY DEF CallInv
<1>2. /\ alive[c] /\ alive' = [alive EXCEPT ![c] = FALSE]
      /\ user' = [p \in Props |-> IF p \in changed THEN old[c][p].sent ELSE user[p]]
      /\ idles' = idles \o SetToSeq(changed)
      /\ old' = [old EXCEPT ![c] = items]
      /\ cache' = [cache EXCEPT ![c] = [p \in Props |-> None]]
      /\ inbox' = [inbox EXCEPT ![c] = Completions(@)] /\ UNCHANGED wire
  BY DEF Finalize
<1>3. \A p \in Props : old[c][p] \in Items \cup {NoItem}
  BY <1>1, CountTypes
<1>4. \A p \in Props : items[p] \in Items \cup {NoItem} /\ items[p].count = old[c][p].count
  <2> SUFFICES ASSUME NEW p \in Props
               PROVE  items[p] \in Items \cup {NoItem} /\ items[p].count = old[c][p].count
    OBVIOUS
  <2>1. CASE p \in pending
    <3>1. old[c][p] \in Items
      BY <1>3, <2>1
    <3>2. items[p] = [old[c][p] EXCEPT !.sent = None, !.cancelled = TRUE]
      BY <2>1
    <3> QED BY <3>1, <3>2, CancelledItem
  <2>2. CASE p \notin pending
    BY <1>3, <2>2
  <2> QED BY <2>1, <2>2
<1>5. items \in [Props -> Items \cup {NoItem}]
  <2>1. items = [p \in Props |-> items[p]]
    OBVIOUS
  <2> HIDE DEF items
  <2> QED BY <1>4, <2>1
<1>6. \A p \in Props : p \in changed => old[c][p].sent \in MaybeValue
  BY <1>3, ItemTypes
<1>7. idles' \in Seq(Props)
  <2>1. changed \in SUBSET Props
    OBVIOUS
  <2> HIDE DEF changed
  <2> QED BY <1>1, <1>2, <2>1, QueuedIdles DEF TypeOK
<1> HIDE DEF items, changed, pending
<1>8. /\ user' \in [Props -> MaybeValue] /\ alive' \in [Clients -> BOOLEAN]
      /\ cache' \in [Clients -> [Props -> MaybeValue]]
  BY <1>1, <1>2, <1>6 DEF TypeOK, MaybeValue
<1>9. /\ old' \in [Clients -> [Props -> Items \cup {NoItem}]]
      /\ old'[c] = items /\ \A d \in Clients : d # c => old'[d] = old[d]
  BY <1>1, <1>2, <1>5 DEF TypeOK, Items
<1>10. /\ inbox \in [Clients -> Seq(Messages)] /\ inbox' \in [Clients -> Seq(Messages)]
       /\ inbox'[c] = Completions(inbox[c]) /\ \A d \in Clients : d # c => inbox'[d] = inbox[d]
  <2>1. inbox \in [Clients -> Seq(Messages)] /\ inbox' = [inbox EXCEPT ![c] = Completions(@)]
    BY <1>1, <1>2 DEF TypeOK, Messages
  <2>2. Completions(inbox[c]) \in Seq(Messages)
    BY <2>1, CompletionsOnly
  <2> QED BY <2>1, <2>2
<1>11. \A d \in Clients, q \in Props : RepliesNow(d, q)' = RepliesNow(d, q)
  <2> SUFFICES ASSUME NEW d \in Clients, NEW q \in Props
               PROVE  RepliesNow(d, q)' = RepliesNow(d, q)
    OBVIOUS
  <2>1. CASE d = c
    <3>1. Cardinality(Where(Completions(inbox[c]), RepliesFor(q))) =
              Cardinality(Where(inbox[c], RepliesFor(q)))
      BY <1>10, CompletionsOnly
    <3> QED BY <1>10, <2>1, <3>1 DEF RepliesNow
  <2>2. CASE d # c
    BY <1>10, <2>2 DEF RepliesNow
  <2> QED BY <2>1, <2>2
<1>12. TypeOK'
  BY <1>1, <1>2, <1>7, <1>8, <1>9, <1>10 DEF TypeOK, Items, Messages
<1>13. ItemsOpen'
  BY <1>1, <1>2, <1>9 DEF ItemsOpen, TypeOK
<1>14. \A d \in Clients, q \in Props : old'[d][q].count = old[d][q].count
  BY <1>4, <1>9
<1>15. OneLiveCall' /\ Counted'
  BY <1>1, <1>2, <1>14, <1>11 DEF OneLiveCall, Counted, LiveNow
<1> QED BY <1>12, <1>13, <1>15 DEF CallInv

-----------------------------------------------------------------------------

LEMMA CallInvInit ==
    ASSUME NEW cached \in [Props -> MaybeValue], InitWith(cached) PROVE CallInv
<1>1. TypeOK
  BY DEF InitWith, TypeOK, MaybeValue
<1>2. ItemsOpen
  BY DEF InitWith, ItemsOpen
<1>3. ASSUME NEW c \in Clients, NEW p \in Props
      PROVE  LiveNow(c, p) = 0 /\ RepliesNow(c, p) = 0 /\ old[c][p].count = 0
  <2>1. wire[c] = <<>> /\ inbox[c] = <<>> /\ old[c][p] = NoItem
    BY DEF InitWith
  <2>2. \A M : Where(<<>>, M) = {}
    BY DEF Where
  <2>3. Where(wire[c], LiveCalls(p)) = {} /\ Where(inbox[c], RepliesFor(p)) = {}
    BY <2>1, <2>2
  <2>4. Cardinality({}) = 0
    BY FS_EmptySet
  <2>5. old[c][p].count = 0
    BY <2>1 DEF NoItem
  <2> QED BY <2>3, <2>4, <2>5 DEF LiveNow, RepliesNow
<1> QED BY <1>1, <1>2, <1>3 DEF CallInv, OneLiveCall, Counted

LEMMA CallInvStep == CallInv /\ [Next]_vars => CallInv'
<1> SUFFICES ASSUME CallInv, [Next]_vars PROVE CallInv'
  OBVIOUS
<1>1. ASSUME NEW c \in Clients, AppCall(c) PROVE CallInv'
  BY <1>1, SetStep, ResetStep, FinalizeStep DEF AppCall
<1>2. ASSUME NEW c \in Clients, NEW p \in Props, Lookup(c, p) PROVE CallInv'
  BY <1>2, LookupStep
<1>3. ASSUME NEW c \in Clients, Prefetch(c) PROVE CallInv'
  BY <1>3, PrefetchStep
<1>4. ASSUME NEW c \in Clients, Handle(c) PROVE CallInv'
  BY <1>4, HandleStep
<1>5. ASSUME NEW c \in Clients, Timeout(c) PROVE CallInv'
  BY <1>5, TimeoutStep
<1>6. ASSUME NEW c \in Clients, Dispatch(c) PROVE CallInv'
  BY <1>6, DispatchStep
<1>7. CASE Emit
  BY <1>7, EmitStep
<1>8. CASE UNCHANGED vars
  BY <1>8, QuietStep DEF vars, CallInv, TypeOK
<1> QED BY <1>1, <1>2, <1>3, <1>4, <1>5, <1>6, <1>7, <1>8 DEF Next

LEMMA CallInvFirst == Init => CallInv
<1>1. [p \in Props |-> None] \in [Props -> MaybeValue]
  BY DEF MaybeValue
<1> QED BY <1>1, CallInvInit DEF Init

LEMMA CallInvAlways == Spec => []CallInv
  BY CallInvFirst, CallInvStep, PTL DEF Spec

\* The variables of the caches and of what they see of the daemon keep their types.
THEOREM CacheTypes == Spec => []TypeOK
<1>1. CallInv => TypeOK
  BY DEF CallInv
<1> QED BY <1>1, CallInvAlways, PTL

\* pending_calls_count is the number of completions still to come, whatever is
\* cancelled, timed out, refused or dropped (esconf_cache_set and its reply
\* handler).
THEOREM CallsAlwaysAccounted == Spec => []CallsAccounted
<1>1. CallInv => CallsAccounted
  BY OutstandingIsCounted DEF CallInv, Counted, CallsAccounted
<1> QED BY <1>1, CallInvAlways, PTL

-----------------------------------------------------------------------------
(* Values that can all be sent: every old item has a call to remove it *)

SentInv ==
    \A c \in Clients, p \in Props :
        old[c][p] # NoItem => /\ old[c][p].count > 0
                              /\ alive[c] => old[c][p].sent # None
                              /\ ~alive[c] => old[c][p].cancelled

LEMMA SentInvSet ==
    ASSUME CallInv, SentInv, Unsendable = {}, NEW c \in Clients, NEW p \in Props, NEW v \in Values,
           Set(c, p, v)
    PROVE  SentInv'
<1> DEFINE fresh == [before |-> Known(c, p), sent |-> v, count |-> 1, cancelled |-> FALSE]
           new == IF old[c][p] = NoItem THEN fresh
                  ELSE [old[c][p] EXCEPT !.sent = v, !.count = @ + 1]
<1>1. TypeOK /\ ItemsOpen /\ alive[c] /\ alive' = alive
  BY DEF CallInv, Set
<1>2. ~SetUnsent(c, p, v)
  BY DEF SetUnsent
<1>3. CASE UNCHANGED old
  BY <1>1, <1>3 DEF SentInv
<1>4. CASE SetSent(c, p, v)
  <2>1. old' = [old EXCEPT ![c][p] = new]
    BY <1>4 DEF SetSent
  <2>2. new \in Items /\ new.count > 0 /\ new.sent # None
    <3>1. v # None
      BY PropsAssumption
    <3>2. CASE old[c][p] = NoItem
      <4>1. Known(c, p) \in MaybeValue
        BY <1>1, StoredType DEF Known, TypeOK
      <4>2. fresh \in Items /\ fresh.count = 1 /\ fresh.sent = v
        BY <4>1, NewItemType
      <4> QED BY <3>1, <3>2, <4>2
    <3>3. CASE old[c][p] # NoItem
      <4>1. old[c][p] \in Items /\ ~old[c][p].cancelled
        BY <1>1, <3>3, CountTypes DEF ItemsOpen
      <4>2. old[c][p].count \in Nat
        BY <4>1, ItemTypes
      <4> DEFINE reused == [old[c][p] EXCEPT !.sent = v, !.count = @ + 1]
      <4>3. reused \in Items /\ reused.count = old[c][p].count + 1 /\ reused.sent = v
        BY <4>1, ReusedItem
      <4>4. new = reused
        BY <3>3
      <4> HIDE DEF reused, new
      <4> QED BY <3>1, <4>2, <4>3, <4>4
    <3> QED BY <3>2, <3>3
  <2> HIDE DEF new
  <2>3. /\ old'[c][p] = new
        /\ \A d \in Clients, q \in Props : d # c \/ q # p => old'[d][q] = old[d][q]
    BY <1>1, <2>1, <2>2, OldAt
  <2> QED BY <1>1, <2>2, <2>3 DEF SentInv
<1> QED BY <1>2, <1>3, <1>4 DEF Set

LEMMA SentInvFinalize ==
    ASSUME CallInv, SentInv, NEW c \in Clients, Finalize(c)
    PROVE  SentInv'
<1>1. TypeOK /\ alive[c]
  BY DEF CallInv, Finalize
<1>2. /\ alive' = [alive EXCEPT ![c] = FALSE]
      /\ old' = [old EXCEPT ![c] = [p \in Props |->
                   IF p \in {q \in Props : old[c][q] # NoItem /\ old[c][q].sent # None}
                   THEN [old[c][p] EXCEPT !.sent = None, !.cancelled = TRUE]
                   ELSE old[c][p]]]
  BY DEF Finalize
<1>3. ~alive'[c] /\ \A d \in Clients : d # c => alive'[d] = alive[d] /\ old'[d] = old[d]
  BY <1>1, <1>2 DEF TypeOK
<1>4. ASSUME NEW p \in Props
      PROVE  old'[c][p] # NoItem => old'[c][p].count > 0 /\ old'[c][p].cancelled
  <2>1. CASE old[c][p] = NoItem
    <3>1. old'[c][p] = old[c][p]
      BY <1>1, <1>2, <2>1 DEF TypeOK
    <3> QED BY <2>1, <3>1
  <2>2. CASE old[c][p] # NoItem
    <3>1. old[c][p].count > 0 /\ old[c][p].sent # None
      BY <1>1, <2>2 DEF SentInv
    <3>2. old'[c][p] = [old[c][p] EXCEPT !.sent = None, !.cancelled = TRUE]
      BY <1>1, <1>2, <2>2, <3>1 DEF TypeOK
    <3>3. old[c][p] \in Items
      BY <1>1, <2>2, CountTypes
    <3> QED BY <3>1, <3>2, <3>3, CancelledItem
  <2> QED BY <2>1, <2>2
<1> QED BY <1>3, <1>4 DEF SentInv

LEMMA SentInvDispatch ==
    ASSUME CallInv, SentInv, NEW c \in Clients, Dispatch(c)
    PROVE  SentInv'
<1>1. TypeOK /\ alive' = alive
  BY DEF CallInv, Dispatch
<1>2. inbox[c] \in Seq(Messages) /\ inbox[c] # <<>>
  <2>1. inbox[c] # <<>>
    BY DEF Dispatch
  <2> QED BY <1>1, <2>1 DEF TypeOK, Messages
<1>3. PICK m \in Messages : m = Head(inbox[c])
  <2>1. Head(inbox[c]) \in Messages
    BY <1>2
  <2> QED BY <2>1
<1>4. PICK p \in Props : p = m.prop
  BY MessageTypes
<1>5. CASE UNCHANGED old
  BY <1>1, <1>5 DEF SentInv
<1>6. CASE old[c][p].count > 1 /\ old' = [old EXCEPT ![c][p].count = @ - 1]
  <2>1. old[c][p] \in Items
    BY <1>1, <1>6, CountTypes DEF NoItem
  <2> DEFINE new == [old[c][p] EXCEPT !.count = @ - 1]
  <2>2. old' = [old EXCEPT ![c][p] = new]
    BY <1>1, <1>6 DEF TypeOK
  <2>3. /\ new \in Items /\ new.count = old[c][p].count - 1
        /\ new.cancelled = old[c][p].cancelled /\ new.sent = old[c][p].sent
    BY <1>6, <2>1, CountedItem
  <2>4. old[c][p] # NoItem /\ old[c][p].count \in Nat
    BY <2>1, ItemTypes
  <2> HIDE DEF new
  <2>5. /\ old'[c][p] = new
        /\ \A d \in Clients, q \in Props : d # c \/ q # p => old'[d][q] = old[d][q]
    BY <1>1, <2>2, <2>3, OldAt
  <2> QED BY <1>1, <1>6, <2>3, <2>4, <2>5 DEF SentInv
<1>7. CASE old' = [old EXCEPT ![c][p] = NoItem]
  <2>1. /\ old'[c][p] = NoItem
        /\ \A d \in Clients, q \in Props : d # c \/ q # p => old'[d][q] = old[d][q]
    BY <1>1, <1>7, OldAt
  <2> QED BY <1>1, <2>1 DEF SentInv
<1> QED BY <1>3, <1>4, <1>5, <1>6, <1>7 DEF Dispatch, Completion, SignalReceived

LEMMA SentInvStep == Unsendable = {} /\ CallInv /\ SentInv /\ [Next]_vars => SentInv'
<1> SUFFICES ASSUME Unsendable = {}, CallInv, SentInv, [Next]_vars PROVE SentInv'
  OBVIOUS
<1>1. ASSUME NEW c \in Clients, NEW p \in Props, NEW v \in Values, Set(c, p, v) PROVE SentInv'
  BY <1>1, SentInvSet
<1>2. ASSUME NEW c \in Clients, Finalize(c) PROVE SentInv'
  BY <1>2, SentInvFinalize
<1>3. ASSUME NEW c \in Clients, Dispatch(c) PROVE SentInv'
  BY <1>3, SentInvDispatch
<1>4. CASE UNCHANGED <<alive, old>>
  BY <1>4 DEF SentInv
<1> QED BY <1>1, <1>2, <1>3, <1>4
        DEF Next, AppCall, Reset, Lookup, Prefetch, Handle, Timeout, Emit, vars

LEMMA SentInvAlways == Unsendable = {} /\ Spec => [](CallInv /\ SentInv)
<1> SUFFICES ASSUME Unsendable = {} PROVE Spec => [](CallInv /\ SentInv)
  OBVIOUS
<1>1. Init => CallInv /\ SentInv
  BY CallInvFirst DEF Init, InitWith, SentInv
<1>2. (CallInv /\ SentInv) /\ [Next]_vars => (CallInv /\ SentInv)'
  BY CallInvStep, SentInvStep
<1> QED BY <1>1, <1>2, PTL DEF Spec

\* Where every value can be sent, a client that ignores signals about a property
\* has a reply to come that ends it (esconf_cache_handle_property_changed).
THEOREM MutedOnlyForAnAnswer == Unsendable = {} /\ Spec => []MutedOnlyWhileCalling
<1>1. CallInv /\ SentInv => MutedOnlyWhileCalling
  BY OutstandingIsCounted DEF CallInv, Counted, SentInv, MutedOnlyWhileCalling
<1> QED BY <1>1, SentInvAlways, PTL

\* Where every value can be sent, a completion that finds its cache finalised
\* finds its old item cancelled (esconf_cache_finalize).
THEOREM FreedCachesUntouched == Unsendable = {} /\ Spec => []NoUseAfterFinalize
<1>1. CallInv /\ SentInv => NoUseAfterFinalize
  <2> SUFFICES ASSUME CallInv, SentInv, NEW c \in Clients, NEW p \in Props,
                      ~alive[c], Outstanding(c, p) > 0
               PROVE  old[c][p].cancelled
    BY DEF NoUseAfterFinalize
  <2>1. old[c][p].count > 0
    BY OutstandingIsCounted DEF CallInv, Counted
  <2>2. old[c][p] # NoItem
    BY <2>1 DEF NoItem
  <2> QED BY <2>2 DEF SentInv
<1> QED BY <1>1, SentInvAlways, PTL

-----------------------------------------------------------------------------
(* Coherent caches *)

\* The last call about p is live, and its value is what is cached.
Ahead(c, p) ==
    \E k \in DOMAIN wire[c] :
        /\ IsLive(wire[c][k], p)
        /\ \A j \in DOMAIN wire[c] : j > k => wire[c][j].prop # p
        /\ cache[c][p] \in {None, wire[c][k].val}

NoCall(c, p) == \A k \in DOMAIN wire[c] : wire[c][k].prop # p

\* A signal that will carry the value held then.
Coming(p) == \E k \in DOMAIN idles : idles[k] = p

\* The last message about p is a signal with the value held now.
OnItsWay(c, p) ==
    \E k \in DOMAIN inbox[c] :
        /\ inbox[c][k].prop = p /\ ~inbox[c][k].done /\ inbox[c][k].val = Stored(p)
        /\ \A j \in DOMAIN inbox[c] : j > k => inbox[c][j].prop # p

Follows(c, p, k) == \E j \in DOMAIN inbox[c] : j > k /\ inbox[c][j].prop = p /\ inbox[c][j].done

\* The cached value is right, and no signal changes that: the ones with an
\* older value come before a reply and are ignored.
Current(c, p) ==
    /\ cache[c][p] \in {None, Stored(p)}
    /\ \A k \in DOMAIN inbox[c] :
           inbox[c][k].prop = p /\ ~inbox[c][k].done =>
               inbox[c][k].val \in {None, Stored(p)} \/ Follows(c, p, k)

Fresh(c, p) == Ahead(c, p) \/ (NoCall(c, p) /\ (Coming(p) \/ OnItsWay(c, p) \/ Current(c, p)))

\* The last completion of all is not an error.
Answered(c, p) ==
    \A k \in DOMAIN inbox[c] :
        inbox[c][k].prop = p /\ inbox[c][k].done /\ ~inbox[c][k].ok =>
            Follows(c, p, k) \/ \E j \in DOMAIN wire[c] : IsLive(wire[c][j], p)

\* Of a locked property only refusals arrive, and what they put back is the
\* default.
Refused(c, p) ==
    /\ \A k \in DOMAIN inbox[c] : inbox[c][k].prop = p => inbox[c][k].done /\ ~inbox[c][k].ok
    /\ old[c][p] = NoItem => cache[c][p] \in {None, Stored(p)}
    /\ old[c][p] # NoItem => old[c][p].before = Stored(p)

LocksHold == \A p \in Locked : user[p] = None /\ ~Coming(p)

Synced(c, p) ==
    /\ p \in Locked => Refused(c, p)
    /\ p \notin Locked => Fresh(c, p) /\ Answered(c, p)

\* An old item has a call that will remove it.
ItemCounted(c, p) == old[c][p] # NoItem => old[c][p].count > 0

\* What is cached of p is right, or something is to come that corrects it.
InStep(c, p) == alive[c] => Synced(c, p) /\ ItemCounted(c, p)

\* What is said about p in a queue stays as it is: messages about others come
\* and go, one at a time from the head.
Same(s, u, p) ==
    \E e \in {0, 1} :
        /\ \A k \in DOMAIN s : s[k].prop = p => k - e \in DOMAIN u /\ u[k - e] = s[k]
        /\ \A k \in DOMAIN u : u[k].prop = p => k + e \in DOMAIN s /\ s[k + e] = u[k]

LEMMA SameSame == ASSUME NEW T, NEW s \in Seq(T), NEW p PROVE Same(s, s, p)
<1>1. \A k \in DOMAIN s : k - 0 = k /\ k + 0 = k
  OBVIOUS
<1> QED BY <1>1 DEF Same

LEMMA SameAppend ==
    ASSUME NEW T, NEW s \in Seq(T), NEW x \in T, NEW p, x.prop # p PROVE Same(s, Append(s, x), p)
<1> DEFINE u == Append(s, x)
<1>1. /\ DOMAIN s = 1..Len(s) /\ DOMAIN u = 1..(Len(s) + 1) /\ u[Len(s) + 1] = x
      /\ Len(s) \in Nat /\ \A i \in 1..Len(s) : u[i] = s[i]
  OBVIOUS
<1> HIDE DEF u
<1>2. \A k \in DOMAIN s : s[k].prop = p => k - 0 \in DOMAIN u /\ u[k - 0] = s[k]
  BY <1>1
<1>3. \A k \in DOMAIN u : u[k].prop = p => k + 0 \in DOMAIN s /\ s[k + 0] = u[k]
  BY <1>1
<1>4. Same(s, u, p)
  BY <1>2, <1>3 DEF Same
<1> QED BY <1>4 DEF u

LEMMA TailAt ==
    ASSUME NEW T, NEW s \in Seq(T), s # <<>>
    PROVE  /\ Tail(s) \in Seq(T) /\ 1 \in DOMAIN s /\ Head(s) = s[1] /\ s[1] \in T
           /\ \A k \in DOMAIN s : k \in Nat /\ k >= 1
           /\ \A k \in DOMAIN Tail(s) : /\ k \in Nat /\ k >= 1
                                        /\ k + 1 \in DOMAIN s /\ Tail(s)[k] = s[k + 1]
           /\ \A k \in DOMAIN s : k > 1 => k - 1 \in DOMAIN Tail(s) /\ Tail(s)[k - 1] = s[k]
<1>1. /\ Tail(s) \in Seq(T) /\ Len(s) \in Nat /\ Len(s) > 0
      /\ DOMAIN s = 1..Len(s) /\ DOMAIN Tail(s) = 1..(Len(s) - 1)
      /\ \A i \in 1..(Len(s) - 1) : Tail(s)[i] = s[i + 1]
      /\ Head(s) = s[1] /\ s[1] \in T
  OBVIOUS
<1> QED BY <1>1

LEMMA SameTail ==
    ASSUME NEW T, NEW s \in Seq(T), s # <<>>, NEW p, Head(s).prop # p PROVE Same(s, Tail(s), p)
<1>1. \A k \in DOMAIN s : s[k].prop = p => k - 1 \in DOMAIN Tail(s) /\ Tail(s)[k - 1] = s[k]
  BY TailAt
<1>2. \A k \in DOMAIN Tail(s) : Tail(s)[k].prop = p => k + 1 \in DOMAIN s /\ s[k + 1] = Tail(s)[k]
  BY TailAt
<1> QED BY <1>1, <1>2 DEF Same

\* Messages of others replaced in place.
LEMMA SameElsewhere ==
    ASSUME NEW T, NEW s \in Seq(T), NEW u, NEW p, DOMAIN u = DOMAIN s,
           \A k \in DOMAIN s : IF s[k].prop = p THEN u[k] = s[k] ELSE u[k].prop # p
    PROVE  Same(s, u, p)
<1>1. \A k \in DOMAIN s : k - 0 = k /\ k + 0 = k
  OBVIOUS
<1> QED BY <1>1 DEF Same

\* A step that says nothing about p to a client, and does not go behind its back.
LEMMA FreshStays ==
    ASSUME TypeOK, TypeOK', NEW c \in Clients, NEW p \in Props,
           Fresh(c, p), Answered(c, p),
           Same(wire[c], wire'[c], p), Same(inbox[c], inbox'[c], p),
           \/ cache'[c][p] = cache[c][p]
           \/ NoCall(c, p) /\ cache'[c][p] \in {None, Stored(p)'},
           Coming(p)' \/ (Stored(p)' = Stored(p) /\ ~Coming(p))
    PROVE  Fresh(c, p)' /\ Answered(c, p)'
<1>1. /\ \A k \in DOMAIN wire[c] : k \in Nat
      /\ \A k \in DOMAIN wire'[c] : k \in Nat
      /\ \A k \in DOMAIN inbox[c] : k \in Nat
      /\ \A k \in DOMAIN inbox'[c] : k \in Nat
  <2>1. wire[c] \in Seq(Call) /\ inbox[c] \in Seq(Messages)
    BY DEF TypeOK, Messages
  <2>2. wire'[c] \in Seq(Call) /\ inbox'[c] \in Seq(Messages)
    BY DEF TypeOK, Messages
  <2> QED BY <2>1, <2>2
<1>2. PICK e \in {0, 1} :
        /\ \A k \in DOMAIN wire[c] :
               wire[c][k].prop = p => k - e \in DOMAIN wire'[c] /\ wire'[c][k - e] = wire[c][k]
        /\ \A k \in DOMAIN wire'[c] :
               wire'[c][k].prop = p => k + e \in DOMAIN wire[c] /\ wire[c][k + e] = wire'[c][k]
  BY DEF Same
<1>3. PICK g \in {0, 1} :
        /\ \A k \in DOMAIN inbox[c] :
               inbox[c][k].prop = p => k - g \in DOMAIN inbox'[c] /\ inbox'[c][k - g] = inbox[c][k]
        /\ \A k \in DOMAIN inbox'[c] :
               inbox'[c][k].prop = p => k + g \in DOMAIN inbox[c] /\ inbox[c][k + g] = inbox'[c][k]
  BY DEF Same
<1>4. NoCall(c, p) => NoCall(c, p)'
  BY <1>2 DEF NoCall
<1>5. ASSUME Ahead(c, p) PROVE Ahead(c, p)'
  <2>1. PICK k \in DOMAIN wire[c] :
          /\ IsLive(wire[c][k], p)
          /\ \A j \in DOMAIN wire[c] : j > k => wire[c][j].prop # p
          /\ cache[c][p] \in {None, wire[c][k].val}
    BY <1>5 DEF Ahead
  <2>2. ~NoCall(c, p)
    BY <2>1 DEF NoCall, IsLive
  <2>3. k - e \in DOMAIN wire'[c] /\ wire'[c][k - e] = wire[c][k]
    BY <1>2, <2>1 DEF IsLive
  <2>4. \A j \in DOMAIN wire'[c] : j > k - e => wire'[c][j].prop # p
    <3> SUFFICES ASSUME NEW j \in DOMAIN wire'[c], j > k - e, wire'[c][j].prop = p PROVE FALSE
      OBVIOUS
    <3>1. j + e \in DOMAIN wire[c] /\ wire[c][j + e].prop = p
      BY <1>2
    <3>2. j + e > k
      BY <1>1, <2>1
    <3> QED BY <2>1, <3>1, <3>2
  <2> QED BY <2>1, <2>2, <2>3, <2>4 DEF Ahead
<1>6. ASSUME NEW k \in DOMAIN inbox[c], inbox[c][k].prop = p, Follows(c, p, k)
      PROVE  Follows(c, p, k - g)'
  <2>1. PICK j \in DOMAIN inbox[c] : j > k /\ inbox[c][j].prop = p /\ inbox[c][j].done
    BY <1>6 DEF Follows
  <2>2. j - g > k - g
    BY <1>1, <2>1
  <2> QED BY <1>3, <2>1, <2>2 DEF Follows
<1>7. ASSUME OnItsWay(c, p), Stored(p)' = Stored(p) PROVE OnItsWay(c, p)'
  <2>1. PICK k \in DOMAIN inbox[c] :
          /\ inbox[c][k].prop = p /\ ~inbox[c][k].done /\ inbox[c][k].val = Stored(p)
          /\ \A j \in DOMAIN inbox[c] : j > k => inbox[c][j].prop # p
    BY <1>7 DEF OnItsWay
  <2>2. k - g \in DOMAIN inbox'[c] /\ inbox'[c][k - g] = inbox[c][k]
    BY <1>3, <2>1
  <2>3. \A j \in DOMAIN inbox'[c] : j > k - g => inbox'[c][j].prop # p
    <3> SUFFICES ASSUME NEW j \in DOMAIN inbox'[c], j > k - g, inbox'[c][j].prop = p PROVE FALSE
      OBVIOUS
    <3>1. j + g \in DOMAIN inbox[c] /\ inbox[c][j + g].prop = p
      BY <1>3
    <3>2. j + g > k
      BY <1>1, <2>1
    <3> QED BY <2>1, <3>1, <3>2
  <2> QED BY <1>7, <2>1, <2>2, <2>3 DEF OnItsWay
<1>8. ASSUME Current(c, p), Stored(p)' = Stored(p) PROVE Current(c, p)'
  <2>1. cache'[c][p] \in {None, Stored(p)'}
    BY <1>8 DEF Current
  <2>2. ASSUME NEW k \in DOMAIN inbox'[c], inbox'[c][k].prop = p, ~inbox'[c][k].done
        PROVE  inbox'[c][k].val \in {None, Stored(p)'} \/ Follows(c, p, k)'
    <3>1. k + g \in DOMAIN inbox[c] /\ inbox[c][k + g] = inbox'[c][k]
      BY <1>3, <2>2
    <3>2. inbox[c][k + g].val \in {None, Stored(p)} \/ Follows(c, p, k + g)
      BY <1>8, <2>2, <3>1 DEF Current
    <3>3. (k + g) - g = k
      BY <1>1
    <3>4. CASE Follows(c, p, k + g)
      <4>1. Follows(c, p, (k + g) - g)'
        BY <1>6, <2>2, <3>1, <3>4
      <4> QED BY <3>3, <4>1
    <3> QED BY <1>8, <3>1, <3>2, <3>4
  <2> QED BY <2>1, <2>2 DEF Current
<1>9. Fresh(c, p)'
  BY <1>4, <1>5, <1>7, <1>8 DEF Fresh
<1>10. Answered(c, p)'
  <2> SUFFICES ASSUME NEW k \in DOMAIN inbox'[c], inbox'[c][k].prop = p, inbox'[c][k].done,
                      ~inbox'[c][k].ok
               PROVE  Follows(c, p, k)' \/ \E j \in DOMAIN wire'[c] : IsLive(wire'[c][j], p)
    BY DEF Answered
  <2>1. k + g \in DOMAIN inbox[c] /\ inbox[c][k + g] = inbox'[c][k]
    BY <1>3
  <2>2. CASE Follows(c, p, k + g)
    <3>1. Follows(c, p, (k + g) - g)'
      BY <1>6, <2>1, <2>2
    <3>2. (k + g) - g = k
      BY <1>1
    <3> QED BY <3>1, <3>2
  <2>3. CASE \E j \in DOMAIN wire[c] : IsLive(wire[c][j], p)
    <3>1. PICK j \in DOMAIN wire[c] : IsLive(wire[c][j], p)
      BY <2>3
    <3> QED BY <1>2, <3>1 DEF IsLive
  <2> QED BY <2>1, <2>2, <2>3 DEF Answered
<1> QED BY <1>9, <1>10

\* A locked property that is not spoken of.
LEMMA RefusedStays ==
    ASSUME TypeOK, TypeOK', NEW c \in Clients, NEW p \in Props, Refused(c, p),
           Same(inbox[c], inbox'[c], p), old'[c][p] = old[c][p], Stored(p)' = Stored(p),
           cache'[c][p] \in {cache[c][p], None, Stored(p)}
    PROVE  Refused(c, p)'
<1>1. PICK g \in {0, 1} :
        \A k \in DOMAIN inbox'[c] :
            inbox'[c][k].prop = p => k + g \in DOMAIN inbox[c] /\ inbox[c][k + g] = inbox'[c][k]
  BY DEF Same
<1>2. \A k \in DOMAIN inbox'[c] :
          inbox'[c][k].prop = p => inbox'[c][k].done /\ ~inbox'[c][k].ok
  BY <1>1 DEF Refused
<1> QED BY <1>2 DEF Refused

LEMMA LockedValue ==
    ASSUME NEW p \in Locked, LocksHold PROVE Stored(p) = Default[p]
  BY DEF LocksHold, Stored

LEMMA Bystander ==
    ASSUME TypeOK, TypeOK', LocksHold, LocksHold', NEW c \in Clients, NEW p \in Props,
           Synced(c, p),
           Same(wire[c], wire'[c], p), Same(inbox[c], inbox'[c], p), old'[c][p] = old[c][p],
           \/ cache'[c][p] = cache[c][p]
           \/ NoCall(c, p) /\ cache'[c][p] \in {None, Stored(p)'},
           Coming(p)' \/ (Stored(p)' = Stored(p) /\ ~Coming(p))
    PROVE  Synced(c, p)'
<1>1. ASSUME p \in Locked PROVE Refused(c, p)'
  <2>1. Stored(p)' = Default[p] /\ Stored(p) = Default[p]
    BY <1>1 DEF LocksHold, Stored
  <2> QED BY <1>1, <2>1, RefusedStays DEF Synced
<1>2. ASSUME p \notin Locked PROVE Fresh(c, p)' /\ Answered(c, p)'
  BY <1>2, FreshStays DEF Synced
<1> QED BY <1>1, <1>2 DEF Synced

-----------------------------------------------------------------------------
(* What the daemon announces *)

\* The properties of S are queued, and no value of another changes.
LEMMA QueuedComing ==
    ASSUME TypeOK, NEW S \in SUBSET Props, idles' = idles \o SetToSeq(S),
           NEW p \in Props, p \notin S => user'[p] = user[p]
    PROVE  /\ Coming(p)' \/ (Stored(p)' = Stored(p) /\ ~Coming(p))
           /\ Coming(p)' => Coming(p) \/ p \in S
<1> DEFINE n == Cardinality(S)
           s == SetToSeq(S)
<1>1. IsFiniteSet(S)
  BY PropsAssumption, FS_Subset
<1>2. n \in Nat /\ ExistsBijection(1..n, S)
  BY <1>1, FS_CardinalityType
<1>3. PICK b \in [1..n -> S] : IsInjective(b)
  BY <1>2 DEF ExistsBijection, Bijection, Injection
<1>4. s \in [1..n -> S] /\ IsInjective(s)
  BY <1>3 DEF SetToSeq
<1> HIDE DEF s
<1>5. \A q \in S : \E i \in 1..n : s[i] = q
  <2>1. s \in Injection(1..n, S)
    BY <1>4 DEF Injection
  <2>2. Cardinality(1..n) = Cardinality(S)
    <3>1. n \in Nat /\ n = Cardinality(S)
      BY <1>2
    <3> HIDE DEF n
    <3> QED BY <3>1, FS_Interval
  <2>3. s \in Surjection(1..n, S)
    BY <1>1, <2>1, <2>2, FS_Injection
  <2> QED BY <2>3 DEF Surjection
<1>6. idles \in Seq(Props) /\ s \in Seq(S) /\ Len(s) = n
  <2>1. n \in Nat
    BY <1>2
  <2> HIDE DEF n
  <2> QED BY <1>4, <2>1 DEF TypeOK
<1> HIDE DEF n
<1>7. idles' = idles \o s
  BY DEF s
<1>8. /\ \A k \in DOMAIN idles : k \in DOMAIN idles' /\ idles'[k] = idles[k]
      /\ \A i \in 1..n : Len(idles) + i \in DOMAIN idles' /\ idles'[Len(idles) + i] = s[i]
      /\ \A k \in DOMAIN idles' : k \in DOMAIN idles \/ k - Len(idles) \in 1..n
      /\ \A k \in DOMAIN idles' : k \notin DOMAIN idles => idles'[k] = s[k - Len(idles)]
  BY <1>2, <1>6, <1>7
<1>9. Coming(p) \/ p \in S => Coming(p)'
  <2>1. CASE Coming(p)
    BY <1>8, <2>1 DEF Coming
  <2>2. CASE p \in S
    <3>1. PICK i \in 1..n : s[i] = p
      BY <1>5, <2>2
    <3>2. Len(idles) + i \in DOMAIN idles' /\ idles'[Len(idles) + i] = p
      BY <1>8, <3>1
    <3> QED BY <3>2 DEF Coming
  <2> QED BY <2>1, <2>2
<1>10. Coming(p)' => Coming(p) \/ p \in S
  BY <1>4, <1>8 DEF Coming
<1> QED BY <1>9, <1>10 DEF Stored

LEMMA AppendComing ==
    ASSUME TypeOK, NEW q \in Props, idles' = Append(idles, q),
           NEW p \in Props, p # q => user'[p] = user[p]
    PROVE  /\ Coming(p)' \/ (Stored(p)' = Stored(p) /\ ~Coming(p))
           /\ Coming(p)' => Coming(p) \/ p = q
<1>1. /\ idles \in Seq(Props) /\ Len(idles) \in Nat
      /\ DOMAIN idles = 1..Len(idles) /\ DOMAIN idles' = 1..(Len(idles) + 1)
      /\ \A k \in 1..Len(idles) : idles'[k] = idles[k]
      /\ idles'[Len(idles) + 1] = q
  BY DEF TypeOK
<1>2. Coming(p) \/ p = q => Coming(p)'
  BY <1>1 DEF Coming
<1>3. Coming(p)' => Coming(p) \/ p = q
  BY <1>1 DEF Coming
<1> QED BY <1>2, <1>3 DEF Stored

-----------------------------------------------------------------------------
(* Cancelled calls *)

LEMMA CancelledAt ==
    ASSUME TypeOK, NEW c \in Clients, NEW p \in Props
    PROVE  /\ \A i \in DOMAIN inbox[c] :
                 /\ i \in DOMAIN InboxAfterCancel(c, p)
                 /\ InboxAfterCancel(c, p)[i] =
                        IF inbox[c][i].done /\ inbox[c][i].prop = p THEN Reply(p, FALSE)
                        ELSE inbox[c][i]
           /\ \A i \in DOMAIN InboxAfterCancel(c, p) :
                 i \notin DOMAIN inbox[c] => InboxAfterCancel(c, p)[i] = Reply(p, FALSE)
<1> DEFINE b == inbox[c]
           r == Reply(p, FALSE)
           u == [i \in DOMAIN b |-> IF b[i].done /\ b[i].prop = p THEN r ELSE b[i]]
           E == \E i \in DOMAIN wire[c] : IsLive(wire[c][i], p)
           t == IF E THEN <<r>> ELSE <<>>
<1>1. InboxAfterCancel(c, p) = u \o t
  BY DEF InboxAfterCancel
<1>2. /\ b \in Seq(Messages) /\ DOMAIN b = 1..Len(b) /\ Len(b) \in Nat
      /\ \A i \in DOMAIN b : b[i] \in Messages
  BY CountTypes
<1>3. u \in Seq(Messages) /\ Len(u) = Len(b) /\ DOMAIN u = DOMAIN b
  <2>1. \A i \in DOMAIN b : u[i] \in Messages
    BY <1>2, ReplyType
  <2>2. u \in [1..Len(b) -> Messages]
    BY <1>2, <2>1
  <2> HIDE DEF u, b
  <2> QED BY <1>2, <2>2
<1>4. t \in Seq(Messages) /\ Len(t) <= 1 /\ Len(t) \in Nat /\ (Len(t) = 1 => t[1] = r)
  <2>1. r \in Messages
    BY ReplyType
  <2> HIDE DEF r, E
  <2> QED BY <2>1
<1>5. \A i \in DOMAIN b : u[i] = IF b[i].done /\ b[i].prop = p THEN r ELSE b[i]
  OBVIOUS
<1> HIDE DEF u, t, b, r
<1>6. /\ DOMAIN (u \o t) = 1..(Len(b) + Len(t))
      /\ \A i \in 1..Len(b) : (u \o t)[i] = u[i]
      /\ \A i \in 1..(Len(b) + Len(t)) : i > Len(b) => (u \o t)[i] = t[i - Len(b)]
  BY <1>2, <1>3, <1>4
<1>7. \A i \in 1..(Len(b) + Len(t)) : i > Len(b) => i - Len(b) = 1 /\ Len(t) = 1
  <2> DEFINE n == Len(b)
             l == Len(t)
  <2>1. n \in Nat /\ l \in Nat /\ l <= 1
    BY <1>2, <1>4
  <2> HIDE DEF n, l
  <2>2. \A i \in 1..(n + l) : i > n => i - n = 1 /\ l = 1
    BY <2>1
  <2> QED BY <2>2 DEF n, l
<1>8. \A i \in DOMAIN (u \o t) : i \notin DOMAIN b => (u \o t)[i] = r
  BY <1>2, <1>4, <1>6, <1>7
<1>9. \A i \in DOMAIN b : i \in DOMAIN (u \o t) /\ (u \o t)[i] = u[i]
  BY <1>2, <1>4, <1>6
<1> QED BY <1>1, <1>5, <1>8, <1>9 DEF b, r

LEMMA CancelledSame ==
    ASSUME TypeOK, NEW c \in Clients, NEW p \in Props, NEW q \in Props, p # q,
           NEW m \in Call, m.prop = p
    PROVE  /\ Same(wire[c], WireAfterCancel(c, p), q)
           /\ Same(wire[c], Append(WireAfterCancel(c, p), m), q)
           /\ Same(inbox[c], InboxAfterCancel(c, p), q)
<1> DEFINE w == WireAfterCancel(c, p)
           b == InboxAfterCancel(c, p)
<1>1. /\ w \in Seq(Call) /\ DOMAIN w = DOMAIN wire[c]
      /\ \A i \in DOMAIN wire[c] : /\ w[i].prop = wire[c][i].prop
                                   /\ wire[c][i].prop # p => w[i] = wire[c][i]
  BY CancelledWire
<1>2. /\ \A i \in DOMAIN inbox[c] :
             /\ i \in DOMAIN b
             /\ b[i] = IF inbox[c][i].done /\ inbox[c][i].prop = p THEN Reply(p, FALSE)
                       ELSE inbox[c][i]
      /\ \A i \in DOMAIN b : i \notin DOMAIN inbox[c] => b[i] = Reply(p, FALSE)
  BY CancelledAt
<1>3. Reply(p, FALSE).prop = p
  BY ReplyType
<1>4. /\ inbox[c] \in Seq(Messages) /\ wire[c] \in Seq(Call)
  BY CountTypes
<1>5. /\ DOMAIN wire[c] = 1..Len(wire[c])
      /\ \A k \in DOMAIN wire[c] : k - 0 = k /\ k + 0 = k
      /\ \A k \in DOMAIN inbox[c] : k - 0 = k /\ k + 0 = k
  BY <1>4
<1> HIDE DEF w, b
<1>6. Same(inbox[c], b, q)
  <2>1. \A k \in DOMAIN inbox[c] :
            inbox[c][k].prop = q => k - 0 \in DOMAIN b /\ b[k - 0] = inbox[c][k]
    BY <1>2, <1>5
  <2>2. \A k \in DOMAIN b : b[k].prop = q => k \in DOMAIN inbox[c] /\ inbox[c][k] = b[k]
    BY <1>2, <1>3
  <2>3. \A k \in DOMAIN b :
            b[k].prop = q => k + 0 \in DOMAIN inbox[c] /\ inbox[c][k + 0] = b[k]
    BY <1>5, <2>2
  <2> QED BY <2>1, <2>3 DEF Same
<1>7. Same(wire[c], Append(w, m), q)
  <2>1. /\ DOMAIN Append(w, m) = 1..(Len(w) + 1) /\ Len(w) \in Nat /\ DOMAIN w = 1..Len(w)
        /\ \A i \in 1..Len(w) : Append(w, m)[i] = w[i]
        /\ Append(w, m)[Len(w) + 1] = m
    BY <1>1
  <2>2. \A k \in DOMAIN wire[c] :
            wire[c][k].prop = q => k - 0 \in DOMAIN Append(w, m) /\ Append(w, m)[k - 0] = wire[c][k]
    BY <1>1, <2>1
  <2>3. \A k \in DOMAIN Append(w, m) :
            Append(w, m)[k].prop = q => k + 0 \in DOMAIN wire[c] /\ wire[c][k + 0] = Append(w, m)[k]
    BY <1>1, <2>1
  <2> QED BY <2>2, <2>3 DEF Same
<1>8. Same(wire[c], w, q)
  BY <1>1, <1>4, SameElsewhere
<1> QED BY <1>6, <1>7, <1>8 DEF w, b

-----------------------------------------------------------------------------
(* Counts and the messages they count *)

LEMMA WhereSome ==
    ASSUME NEW T, NEW s \in Seq(T), NEW M, NEW k \in DOMAIN s, s[k] \in M
    PROVE  Cardinality(Where(s, M)) >= 1
<1>1. IsFiniteSet(Where(s, M)) /\ Cardinality(Where(s, M)) \in Nat
  BY WhereFinite
<1>2. Where(s, M) # {}
  BY DEF Where
<1>3. Cardinality(Where(s, M)) # 0
  BY <1>1, <1>2, FS_EmptySet
<1> QED BY <1>1, <1>3

LEMMA LiveCounts ==
    ASSUME TypeOK, NEW c \in Clients, NEW p \in Props, NEW k \in DOMAIN wire[c],
           IsLive(wire[c][k], p)
    PROVE  LiveNow(c, p) >= 1
<1>1. wire[c] \in Seq(Call) /\ wire[c][k] \in LiveCalls(p)
  <2>1. wire[c] \in Seq(Call)
    BY CountTypes
  <2>2. wire[c][k] \in Call
    BY <2>1
  <2> QED BY <2>1, <2>2 DEF LiveCalls
<1> QED BY <1>1, WhereSome DEF LiveNow

LEMMA ReplyCounts ==
    ASSUME TypeOK, NEW c \in Clients, NEW p \in Props, NEW k \in DOMAIN inbox[c],
           inbox[c][k].done, inbox[c][k].prop = p
    PROVE  RepliesNow(c, p) >= 1
<1>1. inbox[c] \in Seq(Messages) /\ inbox[c][k] \in RepliesFor(p)
  <2>1. inbox[c] \in Seq(Messages)
    BY CountTypes
  <2>2. inbox[c][k] \in Messages
    BY <2>1
  <2> QED BY <2>1, <2>2, MessageTypes
<1> QED BY <1>1, WhereSome DEF RepliesNow

\* An error at the head is not the last completion of a property that is not
\* locked.
LEMMA ErrorFollowed ==
    ASSUME CallInv, NEW c \in Clients, NEW p \in Props, Answered(c, p),
           inbox[c] # <<>>, Head(inbox[c]).prop = p, Head(inbox[c]).done, ~Head(inbox[c]).ok
    PROVE  old[c][p].count > 1
<1>1. TypeOK /\ Counted
  BY DEF CallInv
<1>2. /\ inbox[c] \in Seq(Messages) /\ LiveNow(c, p) \in Nat
      /\ RepliesNow(c, p) \in Nat
  BY <1>1, CountTypes
<1>3. 1 \in DOMAIN inbox[c] /\ Head(inbox[c]) = inbox[c][1]
  BY <1>2, TailAt
<1>4. Follows(c, p, 1) \/ \E j \in DOMAIN wire[c] : IsLive(wire[c][j], p)
  BY <1>3 DEF Answered
<1>5. RepliesNow(c, p) >= 1
  BY <1>1, <1>3, ReplyCounts
<1>6. CASE \E j \in DOMAIN wire[c] : IsLive(wire[c][j], p)
  <2>1. LiveNow(c, p) >= 1
    BY <1>1, <1>6, LiveCounts
  <2> QED BY <1>1, <1>2, <1>5, <2>1 DEF Counted
<1>7. CASE Follows(c, p, 1)
  <2>1. PICK j \in DOMAIN inbox[c] : j > 1 /\ inbox[c][j].prop = p /\ inbox[c][j].done
    BY <1>7 DEF Follows
  <2>2. j - 1 \in DOMAIN Tail(inbox[c]) /\ Tail(inbox[c])[j - 1] = inbox[c][j]
    BY <1>2, <2>1, TailAt
  <2>3. Tail(inbox[c]) \in Seq(Messages) /\ inbox[c][j] \in Messages /\ inbox[c][1] \in Messages
    BY <1>2, <1>3, TailAt
  <2>4. Tail(inbox[c])[j - 1] \in RepliesFor(p) /\ Head(inbox[c]) \in RepliesFor(p)
    BY <1>3, <2>1, <2>2, <2>3, MessageTypes
  <2>5. Cardinality(Where(Tail(inbox[c]), RepliesFor(p))) >= 1
    BY <2>2, <2>3, <2>4, WhereSome
  <2>6. Cardinality(Where(Tail(inbox[c]), RepliesFor(p))) = RepliesNow(c, p) - 1
    <3>1. Cardinality(Where(Tail(inbox[c]), RepliesFor(p))) =
              Cardinality(Where(inbox[c], RepliesFor(p)))
                  - (IF Head(inbox[c]) \in RepliesFor(p) THEN 1 ELSE 0)
      BY <1>2, WhereTail
    <3> QED BY <2>4, <3>1 DEF RepliesNow
  <2> QED BY <1>1, <1>2, <2>5, <2>6 DEF Counted
<1> QED BY <1>4, <1>6, <1>7

-----------------------------------------------------------------------------
(* What each step says of a property it is about *)

\* A new call is ahead of everything.
LEMMA SetSentSynced ==
    ASSUME TypeOK, TypeOK', LocksHold, LocksHold', NEW c \in Clients, NEW p \in Props,
           NEW v \in Values, Synced(c, p), SetSent(c, p, v), user' = user
    PROVE  Synced(c, p)'
<1> DEFINE w == WireAfterCancel(c, p)
           b == InboxAfterCancel(c, p)
           m == [prop |-> p, val |-> v, cancelled |-> FALSE]
           fresh == [before |-> Known(c, p), sent |-> v, count |-> 1, cancelled |-> FALSE]
           new == IF old[c][p] = NoItem THEN fresh
                  ELSE [old[c][p] EXCEPT !.sent = v, !.count = old[c][p].count + 1]
<1>1. /\ old' = [old EXCEPT ![c][p] = new]
      /\ inbox' = [inbox EXCEPT ![c] = b]
      /\ wire' = [wire EXCEPT ![c] = Append(w, m)]
      /\ cache' = [cache EXCEPT ![c][p] = v]
  BY DEF SetSent
<1>2. m \in Call /\ IsLive(m, p) /\ m.val = v
  BY DEF Call, IsLive
<1>3. w \in Seq(Call)
  BY CancelledWire
<1>4. wire'[c] = Append(w, m) /\ inbox'[c] = b /\ cache'[c][p] = v /\ old'[c][p] = new
  BY <1>1 DEF TypeOK
<1> HIDE DEF w, m
<1>5. /\ DOMAIN Append(w, m) = 1..(Len(w) + 1) /\ Len(w) + 1 \in DOMAIN Append(w, m)
      /\ Append(w, m)[Len(w) + 1] = m
      /\ \A j \in DOMAIN Append(w, m) : ~(j > Len(w) + 1)
  BY <1>2, <1>3
<1>6. Fresh(c, p)'
  <2>1. Ahead(c, p)'
    BY <1>2, <1>4, <1>5 DEF Ahead
  <2> QED BY <2>1 DEF Fresh
<1>7. Answered(c, p)'
  BY <1>2, <1>4, <1>5 DEF Answered
<1>8. ASSUME p \in Locked PROVE Refused(c, p)'
  <2>1. Refused(c, p) /\ Stored(p)' = Stored(p)
    BY <1>8 DEF Synced, Stored
  <2>2. Reply(p, FALSE).done /\ ~Reply(p, FALSE).ok
    BY ReplyType
  <2>3. \A k \in DOMAIN inbox'[c] :
            inbox'[c][k].prop = p => inbox'[c][k].done /\ ~inbox'[c][k].ok
    <3>0. /\ \A i \in DOMAIN inbox[c] :
                b[i] = IF inbox[c][i].done /\ inbox[c][i].prop = p THEN Reply(p, FALSE)
                       ELSE inbox[c][i]
          /\ \A i \in DOMAIN b : i \notin DOMAIN inbox[c] => b[i] = Reply(p, FALSE)
      BY CancelledAt
    <3> HIDE DEF b
    <3>1. \A k \in DOMAIN b : b[k] = Reply(p, FALSE) \/ (k \in DOMAIN inbox[c] /\ b[k] = inbox[c][k])
      BY <3>0
    <3> QED BY <1>4, <2>1, <2>2, <3>1 DEF Refused
  <2>4. new # NoItem /\ new.before = Stored(p)
    <3>1. CASE old[c][p] = NoItem
      <4>1. cache[c][p] \in {None, Stored(p)}
        BY <2>1, <3>1 DEF Refused
      <4>2. Known(c, p) = Stored(p)
        BY <4>1 DEF Known
      <4>3. Stored(p) \in MaybeValue
        BY StoredType DEF TypeOK
      <4>4. fresh \in Items /\ fresh.before = Known(c, p)
        BY <4>2, <4>3, NewItemType
      <4> QED BY <3>1, <4>2, <4>4, ItemTypes
    <3>2. CASE old[c][p] # NoItem
      <4>1. old[c][p] \in Items
        BY <3>2, CountTypes
      <4>2. new = [old[c][p] EXCEPT !.sent = v, !.count = old[c][p].count + 1]
        BY <3>2
      <4>3. /\ DOMAIN old[c][p] = {"before", "sent", "count", "cancelled"}
            /\ old[c][p].before = Stored(p)
        BY <2>1, <3>2, <4>1 DEF Items, PendingItem, OtherItem, Refused
      <4>4. DOMAIN new = {"before", "sent", "count", "cancelled"} /\ new.before = Stored(p)
        BY <4>2, <4>3
      <4>5. DOMAIN NoItem = {"count"}
        BY DEF NoItem
      <4> HIDE DEF new
      <4> QED BY <4>4, <4>5
    <3> QED BY <3>1, <3>2
  <2> HIDE DEF new
  <2> QED BY <1>4, <2>1, <2>3, <2>4 DEF Refused
<1> QED BY <1>6, <1>7, <1>8 DEF Synced

\* The daemon has handled a call about p.
LEMMA HandleSynced ==
    ASSUME TypeOK, TypeOK', LocksHold, LocksHold', NEW c \in Clients, NEW p \in Props,
           Synced(c, p), Handle(c), Head(wire[c]).prop = p
    PROVE  Synced(c, p)'
<1> DEFINE m == Head(wire[c])
           r == Reply(p, Accepts(p))
<1>1. wire[c] \in Seq(Call) /\ wire[c] # <<>> /\ inbox[c] \in Seq(Messages)
  <2>1. wire[c] # <<>>
    BY DEF Handle
  <2> QED BY <2>1, CountTypes
<1>2. /\ 1 \in DOMAIN wire[c] /\ wire[c][1] = m
      /\ \A k \in DOMAIN wire[c] : k \in Nat /\ k >= 1
      /\ \A k \in DOMAIN Tail(wire[c]) : /\ k \in Nat /\ k >= 1 /\ k + 1 \in DOMAIN wire[c]
                                         /\ Tail(wire[c])[k] = wire[c][k + 1]
      /\ \A k \in DOMAIN wire[c] :
             k > 1 => k - 1 \in DOMAIN Tail(wire[c]) /\ Tail(wire[c])[k - 1] = wire[c][k]
  BY <1>1, TailAt
<1>3. m \in Call /\ m.prop = p
  BY <1>1
<1>4. r \in Messages /\ r.done /\ r.prop = p /\ r.ok = Accepts(p)
  BY ReplyType DEF Accepts
<1>5. /\ wire'[c] = Tail(wire[c]) /\ old' = old /\ cache' = cache
      /\ inbox'[c] = IF m.cancelled THEN inbox[c] ELSE Append(inbox[c], r)
  BY <1>3 DEF Handle, TypeOK
<1>6. IF Changes(p, m.val)
      THEN user' = [user EXCEPT ![p] = m.val] /\ idles' = Append(idles, p)
      ELSE UNCHANGED <<user, idles>>
  BY <1>3 DEF Handle
<1> HIDE DEF m, r
<1>7. /\ Len(inbox[c]) \in Nat /\ DOMAIN inbox[c] = 1..Len(inbox[c])
      /\ DOMAIN Append(inbox[c], r) = 1..(Len(inbox[c]) + 1)
      /\ \A k \in 1..Len(inbox[c]) : Append(inbox[c], r)[k] = inbox[c][k]
      /\ Append(inbox[c], r)[Len(inbox[c]) + 1] = r
  BY <1>1, <1>4
<1>8. /\ \A k \in DOMAIN inbox[c] : k \in DOMAIN inbox'[c] /\ inbox'[c][k] = inbox[c][k]
      /\ \A k \in DOMAIN inbox'[c] : k \notin DOMAIN inbox[c] => inbox'[c][k] = r
      /\ ~m.cancelled => /\ Len(inbox[c]) + 1 \in DOMAIN inbox'[c]
                         /\ inbox'[c][Len(inbox[c]) + 1] = r
                         /\ \A k \in DOMAIN inbox[c] : Len(inbox[c]) + 1 > k
      /\ m.cancelled => inbox'[c] = inbox[c]
  BY <1>5, <1>7
<1>9. ASSUME p \in Locked PROVE Refused(c, p)'
  <2>1. ~Accepts(p) /\ ~r.ok
    BY <1>4, <1>9 DEF Accepts
  <2>2. user' = user
    BY <1>6, <2>1 DEF Changes
  <2>3. Refused(c, p) /\ Stored(p)' = Stored(p)
    BY <1>9, <2>2 DEF Synced, Stored
  <2>4. \A k \in DOMAIN inbox'[c] :
            inbox'[c][k].prop = p => inbox'[c][k].done /\ ~inbox'[c][k].ok
    BY <1>4, <1>8, <2>1, <2>3 DEF Refused
  <2> QED BY <1>5, <2>3, <2>4 DEF Refused
<1>10. ASSUME p \notin Locked PROVE Fresh(c, p)' /\ Answered(c, p)'
  <2>1. Accepts(p) /\ r.ok /\ Fresh(c, p) /\ Answered(c, p)
    BY <1>4, <1>10 DEF Accepts, Synced
  <2>2. PICK k \in DOMAIN wire[c] :
          /\ IsLive(wire[c][k], p)
          /\ \A j \in DOMAIN wire[c] : j > k => wire[c][j].prop # p
          /\ cache[c][p] \in {None, wire[c][k].val}
    BY <1>2, <1>3, <2>1 DEF Fresh, NoCall, Ahead
  <2>3. \A j \in DOMAIN inbox[c] : Follows(c, p, j) => Follows(c, p, j)'
    BY <1>8 DEF Follows
  <2>4. CASE k > 1
    <3>1. /\ k - 1 \in DOMAIN wire'[c] /\ IsLive(wire'[c][k - 1], p)
          /\ cache'[c][p] \in {None, wire'[c][k - 1].val}
      BY <1>2, <1>5, <2>2, <2>4
    <3>2. \A j \in DOMAIN wire'[c] : j > k - 1 => wire'[c][j].prop # p
      BY <1>2, <1>5, <2>2
    <3>3. Ahead(c, p)'
      BY <3>1, <3>2 DEF Ahead
    <3>4. Answered(c, p)'
      BY <3>1 DEF Answered
    <3> QED BY <3>3, <3>4 DEF Fresh
  <2>5. CASE ~(k > 1)
    <3>1. k = 1
      BY <1>2, <2>2, <2>5
    <3>2. ~m.cancelled /\ cache[c][p] \in {None, m.val}
      BY <1>2, <2>2, <3>1 DEF IsLive
    <3>3. NoCall(c, p)'
      BY <1>2, <1>5, <2>2, <3>1 DEF NoCall
    <3>4. \A j \in DOMAIN inbox[c] : Follows(c, p, j)'
      BY <1>4, <1>8, <3>2 DEF Follows
    <3>5. Coming(p)' \/ Current(c, p)'
      <4>1. CASE Changes(p, m.val)
        <5>1. idles' = Append(idles, p) /\ idles \in Seq(Props)
          BY <1>6, <4>1 DEF TypeOK
        <5>2. Len(idles) + 1 \in DOMAIN idles' /\ idles'[Len(idles) + 1] = p
          BY <5>1
        <5> QED BY <5>2 DEF Coming
      <4>2. CASE ~Changes(p, m.val)
        <5>1. user' = user /\ Stored(p) = m.val
          BY <1>6, <2>1, <4>2 DEF Changes
        <5>2. cache'[c][p] \in {None, Stored(p)'}
          BY <1>5, <3>2, <5>1 DEF Stored
        <5>3. \A j \in DOMAIN inbox'[c] : ~inbox'[c][j].done => Follows(c, p, j)'
          BY <1>4, <1>8, <3>4
        <5> QED BY <5>2, <5>3 DEF Current
      <4> QED BY <4>1, <4>2
    <3>6. Answered(c, p)'
      BY <1>4, <1>8, <2>1, <3>4 DEF Answered
    <3> QED BY <3>3, <3>5, <3>6 DEF Fresh
  <2> QED BY <2>4, <2>5
<1> QED BY <1>9, <1>10 DEF Synced

\* The daemon emits its signal about p.
LEMMA EmitSynced ==
    ASSUME TypeOK, TypeOK', LocksHold, LocksHold', NEW c \in Clients, NEW p \in Props,
           alive[c], Synced(c, p), Emit, Head(idles) = p
    PROVE  Synced(c, p)'
<1> DEFINE r == SignalOf(p)
<1>1. /\ idles \in Seq(Props) /\ idles # <<>> /\ inbox[c] \in Seq(Messages)
      /\ user \in [Props -> MaybeValue]
  <2>1. idles # <<>>
    BY DEF Emit
  <2> QED BY <2>1, CountTypes DEF TypeOK
<1>2. /\ inbox'[c] = Append(inbox[c], r) /\ idles' = Tail(idles)
      /\ UNCHANGED <<user, wire, alive, cache, old>>
  BY DEF Emit, TypeOK
<1>3. r \in Messages /\ ~r.done /\ r.prop = p /\ r.val = Stored(p)
  BY <1>1, SignalType
<1> HIDE DEF r
<1>4. /\ Len(inbox[c]) \in Nat /\ DOMAIN inbox[c] = 1..Len(inbox[c])
      /\ DOMAIN inbox'[c] = 1..(Len(inbox[c]) + 1)
      /\ \A k \in 1..Len(inbox[c]) : inbox'[c][k] = inbox[c][k]
      /\ inbox'[c][Len(inbox[c]) + 1] = r
  BY <1>1, <1>2, <1>3
<1>5. p \notin Locked
  <2>1. Coming(p)
    <3>1. 1 \in DOMAIN idles /\ idles[1] = p
      BY <1>1
    <3> QED BY <3>1 DEF Coming
  <2> QED BY <2>1 DEF LocksHold
<1>6. Stored(p)' = Stored(p)
  BY <1>2 DEF Stored
<1>7. OnItsWay(c, p)'
  <2> DEFINE n == Len(inbox[c]) + 1
  <2>1. n \in DOMAIN inbox'[c] /\ \A j \in DOMAIN inbox'[c] : ~(j > n)
    BY <1>4
  <2>2. inbox'[c][n] = r
    BY <1>4
  <2> HIDE DEF n
  <2> QED BY <1>3, <1>6, <2>1, <2>2 DEF OnItsWay
<1>8. Ahead(c, p) => Ahead(c, p)'
  BY <1>2 DEF Ahead
<1>9. NoCall(c, p) => NoCall(c, p)'
  BY <1>2 DEF NoCall
<1>10. Answered(c, p)'
  <2>1. \A j \in DOMAIN inbox[c] : Follows(c, p, j) => Follows(c, p, j)'
    BY <1>4 DEF Follows
  <2>2. \A k \in DOMAIN inbox'[c] :
            inbox'[c][k].done => k \in DOMAIN inbox[c] /\ inbox'[c][k] = inbox[c][k]
    BY <1>3, <1>4
  <2> QED BY <1>2, <1>5, <2>1, <2>2 DEF Answered, Synced
<1> QED BY <1>5, <1>7, <1>8, <1>9, <1>10 DEF Synced, Fresh

LEMMA NoneCounted ==
    ASSUME CallInv, NEW c \in Clients, NEW p \in Props, ItemCounted(c, p), NoCall(c, p),
           \A k \in DOMAIN inbox[c] : inbox[c][k].prop = p => ~inbox[c][k].done
    PROVE  old[c][p] = NoItem
<1>1. TypeOK /\ Counted
  BY DEF CallInv
<1>2. Where(wire[c], LiveCalls(p)) = {}
  BY DEF Where, LiveCalls, IsLive, NoCall
<1>3. Where(inbox[c], RepliesFor(p)) = {}
  <2>1. \A k \in DOMAIN inbox[c] : inbox[c][k] \in Messages
    BY <1>1, CountTypes
  <2> QED BY <2>1, MessageTypes DEF Where
<1>4. old[c][p].count = 0
  <2>1. LiveNow(c, p) = 0 /\ RepliesNow(c, p) = 0
    BY <1>2, <1>3, FS_EmptySet DEF LiveNow, RepliesNow
  <2>2. LiveNow(c, p) + RepliesNow(c, p) = old[c][p].count
    BY <1>1 DEF Counted
  <2> HIDE DEF LiveNow, RepliesNow
  <2> QED BY <2>1, <2>2
<1> QED BY <1>4 DEF ItemCounted

\* The client's main loop has handled a message about p.
LEMMA DispatchSynced ==
    ASSUME CallInv, TypeOK', LocksHold, LocksHold', NEW c \in Clients, NEW p \in Props,
           ItemCounted(c, p), alive[c], Synced(c, p), Dispatch(c), Head(inbox[c]).prop = p
    PROVE  Synced(c, p)'
<1> DEFINE m == Head(inbox[c])
<1>1. TypeOK /\ ItemsOpen /\ Counted
  BY DEF CallInv
<1>2. inbox[c] \in Seq(Messages) /\ inbox[c] # <<>>
  <2>1. inbox[c] # <<>>
    BY DEF Dispatch
  <2> QED BY <1>1, <2>1, CountTypes
<1>3. /\ 1 \in DOMAIN inbox[c] /\ inbox[c][1] = m
      /\ \A k \in DOMAIN inbox[c] : k \in Nat /\ k >= 1
      /\ \A k \in DOMAIN Tail(inbox[c]) : /\ k \in Nat /\ k >= 1 /\ k + 1 \in DOMAIN inbox[c]
                                          /\ Tail(inbox[c])[k] = inbox[c][k + 1]
      /\ \A k \in DOMAIN inbox[c] :
             k > 1 => k - 1 \in DOMAIN Tail(inbox[c]) /\ Tail(inbox[c])[k - 1] = inbox[c][k]
  BY <1>2, TailAt
<1>4. m \in Messages /\ m.prop = p
  BY <1>2
<1>5. inbox'[c] = Tail(inbox[c]) /\ UNCHANGED <<user, idles, wire, alive>>
  BY <1>1 DEF Dispatch, TypeOK
<1>6. Completion(c, m) \/ SignalReceived(c, m)
  BY DEF Dispatch
<1> HIDE DEF m
<1>7. Stored(p)' = Stored(p) /\ (Coming(p) => Coming(p)') /\ (NoCall(c, p) => NoCall(c, p)')
  BY <1>5 DEF Stored, Coming, NoCall
<1>8. \A k \in DOMAIN inbox'[c] : Follows(c, p, k + 1) => Follows(c, p, k)'
  <2> SUFFICES ASSUME NEW k \in DOMAIN inbox'[c], Follows(c, p, k + 1) PROVE Follows(c, p, k)'
    OBVIOUS
  <2>1. PICK j \in DOMAIN inbox[c] : j > k + 1 /\ inbox[c][j].prop = p /\ inbox[c][j].done
    BY DEF Follows
  <2>2. k \in Nat /\ j \in Nat
    BY <1>3, <1>5
  <2>3. j - 1 \in DOMAIN inbox'[c] /\ inbox'[c][j - 1] = inbox[c][j] /\ j - 1 > k
    BY <1>3, <1>5, <2>1, <2>2
  <2> QED BY <2>1, <2>3 DEF Follows
<1>9. CASE p \in Locked
  <2>1. Refused(c, p) /\ m.done /\ ~m.ok
    BY <1>3, <1>4, <1>9 DEF Synced, Refused
  <2>2. Completion(c, m)
    BY <1>6, <2>1 DEF SignalReceived
  <2>3. \A k \in DOMAIN inbox'[c] :
            inbox'[c][k].prop = p => inbox'[c][k].done /\ ~inbox'[c][k].ok
    BY <1>3, <1>5, <2>1 DEF Refused
  <2>4. CASE old[c][p].count > 1
    <3>1. old[c][p] \in Items
      BY <1>1, <2>4, CountTypes DEF NoItem
    <3> DEFINE new == [old[c][p] EXCEPT !.count = @ - 1]
    <3>2. old' = [old EXCEPT ![c][p] = new]
      BY <1>1, <1>4, <2>2, <2>4 DEF Completion, TypeOK
    <3>3. new \in Items /\ new.before = old[c][p].before /\ old[c][p] # NoItem /\ new # NoItem
      <4>1. new \in Items /\ new.before = old[c][p].before
        BY <2>4, <3>1, CountedItem
      <4> HIDE DEF new
      <4> QED BY <3>1, <4>1, ItemTypes
    <3> HIDE DEF new
    <3>4. old'[c][p] = new
      BY <1>1, <3>2, <3>3, OldAt
    <3> QED BY <1>7, <1>9, <2>1, <2>3, <3>3, <3>4 DEF Refused, Synced
  <2>5. CASE ~(old[c][p].count > 1)
    <3>1. /\ old[c][p].count = 1 /\ old' = [old EXCEPT ![c][p] = NoItem]
          /\ IF old[c][p].cancelled \/ cache[c][p] = None \/ m.ok
             THEN UNCHANGED cache
             ELSE cache' = [cache EXCEPT ![c][p] = old[c][p].before]
      BY <1>4, <2>2, <2>5 DEF Completion
    <3>2. old[c][p] # NoItem
      BY <3>1 DEF NoItem
    <3>3. ~old[c][p].cancelled /\ old[c][p].before = Stored(p)
      BY <1>1, <2>1, <3>2 DEF ItemsOpen, Refused
    <3>4. cache'[c][p] \in {None, Stored(p)}
      BY <1>1, <2>1, <3>1, <3>3 DEF TypeOK
    <3>5. old'[c][p] = NoItem
      BY <1>1, <3>1, OldAt
    <3> QED BY <1>7, <1>9, <2>3, <3>4, <3>5 DEF Refused, Synced
  <2> QED BY <2>4, <2>5
<1>10. CASE p \notin Locked
  <2>1. Fresh(c, p) /\ Answered(c, p)
    BY <1>10 DEF Synced
  <2>2. Answered(c, p)'
    BY <1>3, <1>5, <1>8, <2>1 DEF Answered
  <2>3. ASSUME NEW k \in DOMAIN inbox[c], k > 1,
               inbox[c][k].prop = p, ~inbox[c][k].done, inbox[c][k].val = Stored(p),
               \A j \in DOMAIN inbox[c] : j > k => inbox[c][j].prop # p
        PROVE  OnItsWay(c, p)'
    <3>1. k - 1 \in DOMAIN inbox'[c] /\ inbox'[c][k - 1] = inbox[c][k]
      BY <1>3, <1>5, <2>3
    <3>2. \A j \in DOMAIN inbox'[c] : j > k - 1 => inbox'[c][j].prop # p
      BY <1>3, <1>5, <2>3
    <3> QED BY <1>7, <2>3, <3>1, <3>2 DEF OnItsWay
  <2>4. ASSUME Current(c, p), cache'[c][p] \in {None, Stored(p)} PROVE Current(c, p)'
    <3>1. ASSUME NEW k \in DOMAIN inbox'[c], inbox'[c][k].prop = p, ~inbox'[c][k].done
          PROVE  inbox'[c][k].val \in {None, Stored(p)} \/ Follows(c, p, k)'
      <4>1. k + 1 \in DOMAIN inbox[c] /\ inbox[c][k + 1] = inbox'[c][k]
        BY <1>3, <1>5
      <4>2. inbox[c][k + 1].val \in {None, Stored(p)} \/ Follows(c, p, k + 1)
        BY <2>4, <3>1, <4>1 DEF Current
      <4> QED BY <1>8, <4>1, <4>2
    <3> QED BY <1>7, <2>4, <3>1 DEF Current
  <2>5. ASSUME cache'[c][p] = cache[c][p], m.done PROVE Fresh(c, p)'
    <3>1. Ahead(c, p) => Ahead(c, p)'
      BY <1>5, <2>5 DEF Ahead
    <3>2. OnItsWay(c, p) => OnItsWay(c, p)'
      <4> SUFFICES ASSUME OnItsWay(c, p) PROVE OnItsWay(c, p)'
        OBVIOUS
      <4>1. PICK k \in DOMAIN inbox[c] :
              /\ inbox[c][k].prop = p /\ ~inbox[c][k].done /\ inbox[c][k].val = Stored(p)
              /\ \A j \in DOMAIN inbox[c] : j > k => inbox[c][j].prop # p
        BY DEF OnItsWay
      <4>2. k > 1
        BY <1>3, <2>5, <4>1
      <4> QED BY <2>3, <4>1, <4>2
    <3>3. Current(c, p) => Current(c, p)'
      BY <2>4, <2>5 DEF Current
    <3> QED BY <1>7, <2>1, <3>1, <3>2, <3>3 DEF Fresh
  <2>6. CASE m.done
    <3>1. Completion(c, m)
      BY <1>6, <2>6 DEF SignalReceived
    <3>2. ~m.ok => old[c][p].count > 1
      BY <1>2, <1>4, <2>1, <2>6, ErrorFollowed DEF m
    <3>3. cache' = cache
      <4>1. CASE m.ok
        BY <1>4, <3>1, <4>1 DEF Completion
      <4>2. CASE ~m.ok
        BY <1>4, <3>1, <3>2, <4>2 DEF Completion
      <4> QED BY <4>1, <4>2
    <3> QED BY <1>10, <2>2, <2>5, <2>6, <3>3 DEF Synced
  <2>7. CASE ~m.done
    <3>1. /\ m \in Signal /\ m.val \in MaybeValue
          /\ cache'[c][p] = IF m.val # None /\ old[c][p] # NoItem THEN cache[c][p] ELSE m.val
      <4>1. SignalReceived(c, m)
        BY <1>6, <2>7 DEF Completion
      <4>2. m \in Signal /\ m.val \in MaybeValue
        BY <1>4, <2>7, MessageTypes
      <4>3. cache' = IF m.val # None /\ old[c][p] # NoItem THEN cache
                     ELSE [cache EXCEPT ![c][p] = m.val]
        BY <1>4, <4>1 DEF SignalReceived
      <4> QED BY <1>1, <4>2, <4>3 DEF TypeOK
    <3>2. CASE Ahead(c, p)
      <4>1. PICK k \in DOMAIN wire[c] :
              /\ IsLive(wire[c][k], p)
              /\ \A j \in DOMAIN wire[c] : j > k => wire[c][j].prop # p
              /\ cache[c][p] \in {None, wire[c][k].val}
        BY <3>2 DEF Ahead
      <4>2. old[c][p] # NoItem
        <5>1. LiveNow(c, p) >= 1 /\ LiveNow(c, p) \in Nat /\ RepliesNow(c, p) \in Nat
          BY <1>1, <4>1, LiveCounts, CountTypes
        <5>2. old[c][p].count # 0
          BY <1>1, <5>1 DEF Counted
        <5> QED BY <5>2 DEF NoItem
      <4>3. cache'[c][p] \in {None, wire[c][k].val}
        BY <3>1, <4>1, <4>2
      <4>4. Ahead(c, p)'
        BY <1>5, <4>1, <4>3 DEF Ahead
      <4> QED BY <1>10, <2>2, <4>4 DEF Synced, Fresh
    <3>3. CASE NoCall(c, p) /\ Coming(p)
      BY <1>7, <1>10, <2>2, <3>3 DEF Synced, Fresh
    <3>4. CASE NoCall(c, p) /\ OnItsWay(c, p)
      <4>1. PICK k \in DOMAIN inbox[c] :
              /\ inbox[c][k].prop = p /\ ~inbox[c][k].done /\ inbox[c][k].val = Stored(p)
              /\ \A j \in DOMAIN inbox[c] : j > k => inbox[c][j].prop # p
        BY <3>4 DEF OnItsWay
      <4>2. CASE k > 1
        <5>1. OnItsWay(c, p)'
          BY <2>3, <4>1, <4>2
        <5> QED BY <1>7, <1>10, <2>2, <3>4, <5>1 DEF Synced, Fresh
      <4>3. CASE ~(k > 1)
        <5>1. k = 1
          BY <1>3, <4>1, <4>3
        <5>2. \A j \in DOMAIN inbox[c] : inbox[c][j].prop = p => j = 1
          BY <1>3, <4>1, <5>1
        <5>3. old[c][p] = NoItem
          <6>1. \A j \in DOMAIN inbox[c] : inbox[c][j].prop = p => ~inbox[c][j].done
            BY <1>3, <2>7, <5>2
          <6> QED BY <3>4, <6>1, NoneCounted
        <5>4. cache'[c][p] = Stored(p)
          BY <1>3, <3>1, <4>1, <5>1, <5>3
        <5>5. \A j \in DOMAIN inbox'[c] : inbox'[c][j].prop # p
          <6>1. \A j \in DOMAIN inbox'[c] :
                    j + 1 \in DOMAIN inbox[c] /\ inbox[c][j + 1] = inbox'[c][j] /\ j + 1 # 1
            BY <1>3, <1>5
          <6> QED BY <5>2, <6>1
        <5>6. Current(c, p)'
          BY <1>7, <5>4, <5>5 DEF Current
        <5> QED BY <1>7, <1>10, <2>2, <3>4, <5>6 DEF Synced, Fresh
      <4> QED BY <4>2, <4>3
    <3>5. CASE NoCall(c, p) /\ Current(c, p)
      <4>1. cache'[c][p] \in {None, Stored(p)}
        <5>1. cache[c][p] \in {None, Stored(p)}
          BY <3>5 DEF Current
        <5>2. CASE m.val = None
          BY <3>1, <5>2
        <5>3. CASE m.val # None /\ old[c][p] # NoItem
          BY <3>1, <5>1, <5>3
        <5>4. CASE m.val # None /\ old[c][p] = NoItem
          <6>1. ~Follows(c, p, 1)
            <7> SUFFICES ASSUME Follows(c, p, 1) PROVE FALSE
              OBVIOUS
            <7>1. PICK j \in DOMAIN inbox[c] : inbox[c][j].prop = p /\ inbox[c][j].done
              BY DEF Follows
            <7>2. RepliesNow(c, p) >= 1 /\ RepliesNow(c, p) \in Nat /\ LiveNow(c, p) \in Nat
              BY <1>1, <7>1, ReplyCounts, CountTypes
            <7>3. old[c][p].count = 0
              BY <5>4 DEF NoItem
            <7> QED BY <1>1, <7>2, <7>3 DEF Counted
          <6>2. m.val \in {None, Stored(p)}
            BY <1>3, <1>4, <2>7, <3>5, <6>1 DEF Current
          <6> QED BY <3>1, <5>4, <6>2
        <5> QED BY <5>2, <5>3, <5>4
      <4>2. Current(c, p)'
        BY <2>4, <3>5, <4>1
      <4> QED BY <1>7, <1>10, <2>2, <3>5, <4>2 DEF Synced, Fresh
    <3> QED BY <2>1, <3>2, <3>3, <3>4, <3>5 DEF Fresh
  <2> QED BY <2>6, <2>7
<1> QED BY <1>9, <1>10

-----------------------------------------------------------------------------
(* The steps *)

\* What happens to the value of p is announced, or nothing happens to it.
Heralded(p) == Coming(p)' \/ (Stored(p)' = Stored(p) /\ ~Coming(p))

\* Nothing happens to it, and no announcement comes or goes.
Unsaid(p) == user'[p] = user[p] /\ (Coming(p)' <=> Coming(p))

\* A step that is not about p at client c, but for a lookup.
Apart(c, p) ==
    /\ Same(wire[c], wire'[c], p) /\ Same(inbox[c], inbox'[c], p) /\ old'[c][p] = old[c][p]
    /\ \/ cache'[c][p] = cache[c][p]
       \/ NoCall(c, p) /\ cache'[c][p] \in {None, Stored(p)'}
    /\ Heralded(p)

\* A step after which whatever was in step still is.
KeepsStep ==
    /\ LocksHold'
    /\ \A c \in Clients, p \in Props : InStep(c, p) => InStep(c, p)'

LEMMA InStepApart ==
    ASSUME TypeOK, TypeOK', LocksHold, LocksHold', NEW c \in Clients, NEW p \in Props,
           alive'[c] => alive[c], InStep(c, p), Apart(c, p)
    PROVE  InStep(c, p)'
<1> SUFFICES ASSUME alive'[c] PROVE Synced(c, p)' /\ ItemCounted(c, p)'
  BY DEF InStep
<1>1. Synced(c, p) /\ ItemCounted(c, p)
  BY DEF InStep
<1>2. Synced(c, p)'
  BY <1>1, Bystander DEF Apart, Heralded
<1> QED BY <1>1, <1>2 DEF Apart, ItemCounted

LEMMA SameQueues ==
    ASSUME TypeOK, NEW c \in Clients, NEW p
    PROVE  Same(wire[c], wire[c], p) /\ Same(inbox[c], inbox[c], p)
<1>1. wire[c] \in Seq(Call) /\ inbox[c] \in Seq(Done \cup Signal)
  BY DEF TypeOK
<1> QED BY <1>1, SameSame

LEMMA NothingTold ==
    ASSUME UNCHANGED <<user, idles>>, NEW p PROVE Heralded(p)
  BY DEF Heralded, Coming, Stored

\* A step that changes no queue of a client, its old item or its cache.
LEMMA AloneApart ==
    ASSUME TypeOK, NEW c \in Clients, NEW p \in Props, wire'[c] = wire[c], inbox'[c] = inbox[c],
           old'[c] = old[c], cache'[c][p] = cache[c][p], Heralded(p)
    PROVE  Apart(c, p)
  BY SameQueues DEF Apart

\* A set leaves the other properties alone.
LEMMA SetApart ==
    ASSUME CallInv, NEW c \in Clients, NEW p \in Props, NEW v \in Values, Set(c, p, v),
           NEW d \in Clients, NEW q \in Props, d # c \/ q # p
    PROVE  Apart(d, q) /\ cache'[d][q] = cache[d][q]
<1> DEFINE m == [prop |-> p, val |-> v, cancelled |-> FALSE]
<1>1. TypeOK /\ Heralded(q)
  <2>1. UNCHANGED <<user, idles>>
    BY DEF Set
  <2> QED BY <2>1, NothingTold DEF CallInv
<1>2. /\ old'[d][q] = old[d][q] /\ cache'[d][q] = cache[d][q]
      /\ d # c => wire'[d] = wire[d] /\ inbox'[d] = inbox[d]
  BY <1>1 DEF TypeOK, Set, SetSent, SetUnsent
<1>3. CASE d # c
  BY <1>1, <1>2, <1>3, SameQueues DEF Apart
<1>4. CASE d = c
  <2>1. m \in Call /\ m.prop = p
    BY DEF Call
  <2>2. \/ wire'[c] = wire[c] /\ inbox'[c] = inbox[c]
        \/ wire'[c] = Append(WireAfterCancel(c, p), m) /\ inbox'[c] = InboxAfterCancel(c, p)
        \/ wire'[c] = WireAfterCancel(c, p) /\ inbox'[c] = InboxAfterCancel(c, p)
    BY <1>1 DEF TypeOK, Set, SetSent, SetUnsent
  <2> HIDE DEF m
  <2>3. Same(wire[c], wire'[c], q) /\ Same(inbox[c], inbox'[c], q)
    BY <1>1, <1>4, <2>1, <2>2, SameQueues, CancelledSame
  <2> QED BY <1>1, <1>2, <1>4, <2>3 DEF Apart
<1> QED BY <1>3, <1>4

\* esconf_cache_set.  What cannot be sent is another matter.
LEMMA SetKeeps ==
    ASSUME CallInv, CallInv', LocksHold, NEW c \in Clients, NEW p \in Props, NEW v \in Values,
           Set(c, p, v)
    PROVE  /\ LocksHold'
           /\ \A d \in Clients, q \in Props :
                  InStep(d, q) /\ (d # c \/ q # p \/ v \notin Unsendable) => InStep(d, q)'
<1>1. TypeOK /\ ItemsOpen /\ TypeOK' /\ alive[c] /\ UNCHANGED <<user, idles, alive>>
  BY DEF CallInv, Set
<1>2. LocksHold'
  BY <1>1 DEF LocksHold, Coming
<1>3. ASSUME NEW d \in Clients, NEW q \in Props, InStep(d, q), d # c \/ q # p
      PROVE  InStep(d, q)'
  BY <1>1, <1>2, <1>3, SetApart, InStepApart
<1>4. ASSUME InStep(c, p), Known(c, p) = v, cache' = [cache EXCEPT ![c][p] = v],
             UNCHANGED <<wire, inbox, old>>
      PROVE  InStep(c, p)'
  <2>1. TypeOK /\ v \in MaybeValue /\ cache' = [cache EXCEPT ![c][p] = v]
    BY <1>1, <1>4 DEF MaybeValue
  <2>2. cache'[c][p] = v
    BY <2>1 DEF TypeOK
  <2>3. cache'[c][p] = cache[c][p] \/ (NoCall(c, p) /\ cache'[c][p] \in {None, Stored(p)'})
    <3>1. CASE cache[c][p] # None
      BY <1>4, <2>2, <3>1 DEF Known
    <3>2. CASE cache[c][p] = None
      <4>1. wire[c] = <<>>
        BY <3>2 DEF Set
      <4>2. NoCall(c, p)
        BY <4>1 DEF NoCall
      <4>3. cache'[c][p] = Stored(p) /\ Stored(p)' = Stored(p)
        BY <1>1, <1>4, <2>2, <3>2 DEF Known, Stored
      <4> QED BY <4>2, <4>3
    <3> QED BY <3>1, <3>2
  <2>4. Apart(c, p)
    BY <1>1, <1>4, <2>3, SameQueues, NothingTold DEF Apart
  <2> QED BY <1>1, <1>2, <1>4, <2>4, InStepApart
<1>5. ASSUME InStep(c, p), SetSent(c, p, v) PROVE InStep(c, p)'
  <2> DEFINE new == IF old[c][p] = NoItem
                    THEN [before |-> Known(c, p), sent |-> v, count |-> 1, cancelled |-> FALSE]
                    ELSE [old[c][p] EXCEPT !.sent = v, !.count = old[c][p].count + 1]
  <2>1. old' = [old EXCEPT ![c][p] = new]
    BY <1>5 DEF SetSent
  <2>2. new.count > 0
    <3>1. CASE old[c][p] = NoItem
      BY <3>1
    <3>2. CASE old[c][p] # NoItem
      <4>1. old[c][p] \in Items /\ ~old[c][p].cancelled
        BY <1>1, <3>2, CountTypes DEF ItemsOpen
      <4>2. old[c][p].count \in Nat
        BY <4>1, ItemTypes
      <4>3. new.count = old[c][p].count + 1
        BY <3>2, <4>1, ReusedItem
      <4> HIDE DEF new
      <4> QED BY <4>2, <4>3
    <3> QED BY <3>1, <3>2
  <2> HIDE DEF new
  <2>3. old'[c][p] = new
    BY <1>1, <2>1 DEF TypeOK
  <2>4. Synced(c, p)
    BY <1>1, <1>5 DEF InStep
  <2>5. Synced(c, p)'
    BY <1>1, <1>2, <1>5, <2>4, SetSentSynced
  <2> QED BY <2>2, <2>3, <2>5 DEF InStep, ItemCounted
<1>6. ASSUME InStep(c, p), v \notin Unsendable PROVE InStep(c, p)'
  BY <1>4, <1>5, <1>6 DEF Set, SetUnsent
<1> QED BY <1>2, <1>3, <1>6

LEMMA LookupKeeps ==
    ASSUME CallInv, CallInv', LocksHold, NEW c \in Clients, NEW p \in Props, Lookup(c, p)
    PROVE  KeepsStep
<1>1. /\ TypeOK /\ TypeOK'
      /\ UNCHANGED <<user, idles, wire, inbox, alive, old>>
      /\ wire[c] = <<>> /\ cache' = [cache EXCEPT ![c][p] = Stored(p)]
  BY DEF CallInv, Lookup
<1>2. /\ cache'[c][p] = Stored(p)
      /\ \A d \in Clients, q \in Props : d # c \/ q # p => cache'[d][q] = cache[d][q]
  BY <1>1 DEF TypeOK
<1>3. \A q \in Props : Heralded(q)
  BY <1>1, NothingTold
<1>4. ASSUME NEW d \in Clients, NEW q \in Props PROVE Apart(d, q)
  <2>1. CASE d = c /\ q = p
    <3>1. NoCall(c, p) /\ Stored(p)' = Stored(p)
      BY <1>1 DEF NoCall, Stored
    <3> QED BY <1>1, <1>2, <1>3, <2>1, <3>1, SameQueues DEF Apart
  <2>2. CASE d # c \/ q # p
    BY <1>1, <1>2, <1>3, <2>2, AloneApart
  <2> QED BY <2>1, <2>2
<1>5. LocksHold'
  BY <1>1 DEF LocksHold, Coming
<1> QED BY <1>1, <1>4, <1>5, InStepApart DEF KeepsStep

LEMMA PrefetchKeeps ==
    ASSUME CallInv, CallInv', LocksHold, NEW c \in Clients, Prefetch(c)
    PROVE  KeepsStep
<1>1. /\ TypeOK /\ TypeOK'
      /\ UNCHANGED <<user, idles, wire, inbox, alive, old>>
      /\ wire[c] = <<>> /\ cache' = [cache EXCEPT ![c] = [p \in Props |-> Stored(p)]]
  BY DEF CallInv, Prefetch
<1>2. /\ \A q \in Props : cache'[c][q] = Stored(q)
      /\ \A d \in Clients : d # c => cache'[d] = cache[d]
  BY <1>1 DEF TypeOK
<1>3. \A q \in Props : Heralded(q)
  BY <1>1, NothingTold
<1>4. ASSUME NEW d \in Clients, NEW q \in Props PROVE Apart(d, q)
  <2>1. CASE d = c
    <3>1. NoCall(c, q) /\ Stored(q)' = Stored(q)
      BY <1>1 DEF NoCall, Stored
    <3> QED BY <1>1, <1>2, <1>3, <2>1, <3>1, SameQueues DEF Apart
  <2>2. CASE d # c
    BY <1>1, <1>2, <1>3, <2>2, AloneApart
  <2> QED BY <2>1, <2>2
<1>5. LocksHold'
  BY <1>1 DEF LocksHold, Coming
<1> QED BY <1>1, <1>4, <1>5, InStepApart DEF KeepsStep

LEMMA ResetKeeps ==
    ASSUME CallInv, CallInv', LocksHold, NEW c \in Clients, NEW base \in Props \cup {Root},
           NEW recursive \in BOOLEAN, Reset(c, base, recursive)
    PROVE  /\ KeepsStep
           /\ \A q \in Props : Apart(c, q)
           /\ \A q \in Props : cache'[c][q] \in {None, cache[c][q]}
           /\ \A q \in Props : q \notin (IF recursive THEN Subtree[base] ELSE {base}) =>
                  cache'[c][q] = cache[c][q] /\ Unsaid(q)
<1> DEFINE S == IF recursive THEN Subtree[base] ELSE {base}
           changed == {q \in S : user[q] # None}
           kept == [q \in Props |-> IF q \in Evicted(base, recursive) THEN None ELSE cache[c][q]]
<1>1. /\ TypeOK /\ TypeOK'
      /\ UNCHANGED <<wire, inbox, alive, old>> /\ wire[c] = <<>>
  BY DEF CallInv, Reset
<1>2. S \in SUBSET Props
  BY PropsAssumption DEF Reset
<1>3. user' = [q \in Props |-> IF q \in S THEN None ELSE user[q]]
  BY DEF Reset
<1>4. idles' = idles \o SetToSeq(changed)
  BY DEF Reset
<1>5. cache' = [cache EXCEPT ![c] = kept] \/ cache' = cache
  BY DEF Reset
<1>6. Evicted(base, recursive) \subseteq S
  BY DEF Evicted
<1> HIDE DEF S
<1>7. /\ changed \in SUBSET S /\ changed \in SUBSET Props
      /\ \A q \in Props : q \notin changed => user'[q] = user[q]
  BY <1>1, <1>2, <1>3
<1>8. \A q \in changed : q \notin Locked
  BY DEF LocksHold
<1> HIDE DEF changed
<1>9. \A q \in Props : Heralded(q) /\ (Coming(q)' => Coming(q) \/ q \in changed)
  BY <1>1, <1>4, <1>7, QueuedComing DEF Heralded
<1>10. LocksHold'
  <2>1. \A q \in Locked : q \in Props
    BY PropsAssumption
  <2> QED BY <1>7, <1>8, <1>9, <2>1 DEF LocksHold
<1>11. /\ \A q \in Props : cache'[c][q] \in {None, cache[c][q]}
       /\ \A d \in Clients : d # c => cache'[d] = cache[d]
       /\ \A q \in Props : q \notin S => cache'[c][q] = cache[c][q]
  BY <1>1, <1>5, <1>6 DEF TypeOK
<1>12. ASSUME NEW d \in Clients, NEW q \in Props PROVE Apart(d, q)
  <2>1. CASE d = c
    <3>1. NoCall(c, q)
      BY <1>1 DEF NoCall
    <3> QED BY <1>1, <1>9, <1>11, <2>1, <3>1, SameQueues DEF Apart
  <2>2. CASE d # c
    BY <1>1, <1>9, <1>11, <2>2, AloneApart
  <2> QED BY <2>1, <2>2
<1>13. KeepsStep
  BY <1>1, <1>10, <1>12, InStepApart DEF KeepsStep
<1>14. \A q \in Props : q \notin S => Unsaid(q)
  BY <1>7, <1>9 DEF Unsaid, Heralded
<1> QED BY <1>11, <1>12, <1>13, <1>14 DEF S

LEMMA HandleKeeps ==
    ASSUME CallInv, CallInv', LocksHold, NEW c \in Clients, Handle(c)
    PROVE  /\ KeepsStep
           /\ \A d \in Clients, q \in Props : d # c \/ Head(wire[c]).prop # q => Apart(d, q)
           /\ \A q \in Props : Head(wire[c]).prop # q => Unsaid(q)
<1>1. /\ TypeOK /\ TypeOK' /\ UNCHANGED <<alive, cache, old>>
      /\ wire[c] \in Seq(Call) /\ wire[c] # <<>> /\ inbox[c] \in Seq(Messages)
  <2>1. wire[c] # <<>> /\ UNCHANGED <<alive, cache, old>>
    BY DEF Handle
  <2> QED BY <2>1 DEF CallInv, TypeOK, Messages
<1>2. PICK m \in Call : m = Head(wire[c])
  <2>1. Head(wire[c]) \in Call
    BY <1>1
  <2> QED BY <2>1
<1>3. PICK p \in Props : p = m.prop
  BY DEF Call
<1>4. PICK r \in Messages : r.prop = p /\ r = Reply(p, Accepts(p))
  BY ReplyType DEF Accepts
<1>5. /\ wire' = [wire EXCEPT ![c] = Tail(@)]
      /\ inbox' = IF m.cancelled THEN inbox ELSE [inbox EXCEPT ![c] = Append(@, r)]
  BY <1>2, <1>3, <1>4 DEF Handle
<1>6. IF Changes(p, m.val)
      THEN user' = [user EXCEPT ![p] = m.val] /\ idles' = Append(idles, p)
      ELSE UNCHANGED <<user, idles>>
  BY <1>2, <1>3 DEF Handle
<1>7. ASSUME NEW q \in Props PROVE Heralded(q) /\ (Coming(q)' => Coming(q) \/ (q = p /\ Accepts(p)))
  <2>1. CASE Changes(p, m.val)
    <3>1. user' = [user EXCEPT ![p] = m.val] /\ idles' = Append(idles, p) /\ Accepts(p)
      BY <1>6, <2>1 DEF Changes
    <3>2. q # p => user'[q] = user[q]
      BY <1>1, <3>1 DEF TypeOK
    <3> QED BY <1>1, <3>1, <3>2, AppendComing DEF Heralded
  <2>2. CASE ~Changes(p, m.val)
    BY <1>6, <2>2, NothingTold DEF Coming
  <2> QED BY <2>1, <2>2
<1>8. LocksHold'
  <2> SUFFICES ASSUME NEW q \in Locked PROVE user'[q] = None /\ ~Coming(q)'
    BY DEF LocksHold
  <2>1. q \in Props /\ user[q] = None /\ ~Coming(q) /\ (q = p => ~Accepts(p))
    BY PropsAssumption DEF LocksHold, Accepts
  <2>2. user'[q] = user[q]
    BY <1>1, <1>6, <2>1 DEF Changes, TypeOK
  <2> QED BY <1>7, <2>1, <2>2
<1>9. /\ wire'[c] = Tail(wire[c])
      /\ inbox'[c] = inbox[c] \/ inbox'[c] = Append(inbox[c], r)
      /\ \A d \in Clients : d # c => wire'[d] = wire[d] /\ inbox'[d] = inbox[d]
  BY <1>1, <1>5 DEF TypeOK
<1>10. ASSUME NEW d \in Clients, NEW q \in Props, d # c \/ p # q PROVE Apart(d, q)
  <2>1. CASE d = c
    <3>1. Same(wire[c], Tail(wire[c]), q)
      BY <1>1, <1>2, <1>3, <1>10, <2>1, SameTail
    <3>2. Same(inbox[c], Append(inbox[c], r), q)
      BY <1>1, <1>4, <1>10, <2>1, SameAppend
    <3>3. Same(inbox[c], inbox[c], q)
      BY <1>1, SameQueues
    <3> QED BY <1>1, <1>7, <1>9, <2>1, <3>1, <3>2, <3>3 DEF Apart
  <2>2. CASE d # c
    BY <1>1, <1>7, <1>9, <2>2, AloneApart
  <2> QED BY <2>1, <2>2
<1>11. ASSUME InStep(c, p) PROVE InStep(c, p)'
  <2>1. alive[c] => Synced(c, p)'
    BY <1>1, <1>2, <1>3, <1>8, <1>11, HandleSynced DEF InStep
  <2> QED BY <1>1, <1>11, <2>1 DEF InStep, ItemCounted
<1>12. ASSUME NEW d \in Clients, NEW q \in Props, InStep(d, q) PROVE InStep(d, q)'
  BY <1>1, <1>8, <1>10, <1>11, <1>12, InStepApart
<1>13. \A q \in Props : q # p => Unsaid(q)
  <2>1. \A q \in Props : q # p => user'[q] = user[q]
    BY <1>1, <1>6 DEF TypeOK
  <2> QED BY <1>7, <2>1 DEF Unsaid, Heralded
<1> QED BY <1>2, <1>3, <1>8, <1>10, <1>12, <1>13 DEF KeepsStep

LEMMA EmitKeeps ==
    ASSUME CallInv, CallInv', LocksHold, Emit
    PROVE  /\ KeepsStep
           /\ \A c \in Clients, q \in Props : alive[c] /\ Head(idles) # q => Apart(c, q)
           /\ \A q \in Props : Head(idles) # q => Unsaid(q)
<1>1. /\ TypeOK /\ TypeOK' /\ UNCHANGED <<user, wire, alive, cache, old>>
      /\ idles \in Seq(Props) /\ idles # <<>> /\ idles' = Tail(idles)
  BY DEF CallInv, Emit, TypeOK
<1>2. PICK p \in Props : p = Head(idles)
  <2>1. Head(idles) \in Props
    BY <1>1
  <2> QED BY <2>1
<1>3. PICK r \in Messages : r.prop = p /\ r = SignalOf(p)
  BY <1>1, SignalType DEF TypeOK
<1>4. \A d \in Clients : alive[d] => inbox'[d] = Append(inbox[d], r)
  BY <1>2, <1>3 DEF Emit
<1>5. /\ 1 \in DOMAIN idles /\ idles[1] = p
      /\ \A k \in DOMAIN idles : k \in Nat /\ k >= 1
      /\ \A k \in DOMAIN idles' : k + 1 \in DOMAIN idles /\ idles'[k] = idles[k + 1]
      /\ \A k \in DOMAIN idles : k > 1 => k - 1 \in DOMAIN idles' /\ idles'[k - 1] = idles[k]
  BY <1>1, <1>2, TailAt
<1>6. \A q \in Props : Coming(q)' => Coming(q)
  BY <1>5 DEF Coming
<1>7. LocksHold'
  <2>1. \A q \in Locked : q \in Props
    BY PropsAssumption
  <2> QED BY <1>1, <1>6, <2>1 DEF LocksHold
<1>8. ASSUME NEW q \in Props, q # p PROVE Heralded(q)
  <2>1. Coming(q) => Coming(q)'
    <3> SUFFICES ASSUME Coming(q) PROVE Coming(q)'
      OBVIOUS
    <3>1. PICK k \in DOMAIN idles : idles[k] = q
      BY DEF Coming
    <3>2. k > 1
      BY <1>5, <1>8, <3>1
    <3> QED BY <1>5, <3>1, <3>2 DEF Coming
  <2> QED BY <1>1, <2>1 DEF Heralded, Stored
<1>9. ASSUME NEW d \in Clients, NEW q \in Props, alive[d], q # p PROVE Apart(d, q)
  <2>1. inbox[d] \in Seq(Messages)
    BY <1>1, CountTypes
  <2>2. Same(inbox[d], Append(inbox[d], r), q)
    BY <1>3, <1>9, <2>1, SameAppend
  <2> QED BY <1>1, <1>4, <1>8, <1>9, <2>2, SameQueues DEF Apart
<1>10. ASSUME NEW d \in Clients, InStep(d, p), alive[d] PROVE InStep(d, p)'
  <2>1. Synced(d, p)'
    BY <1>1, <1>2, <1>7, <1>10, EmitSynced DEF InStep
  <2> QED BY <1>1, <1>10, <2>1 DEF InStep, ItemCounted
<1>11. ASSUME NEW d \in Clients, NEW q \in Props, InStep(d, q) PROVE InStep(d, q)'
  <2>1. CASE alive[d]
    BY <1>1, <1>7, <1>9, <1>10, <1>11, <2>1, InStepApart
  <2>2. CASE ~alive[d]
    BY <1>1, <2>2 DEF InStep
  <2> QED BY <2>1, <2>2
<1>12. \A q \in Props : q # p => Unsaid(q)
  BY <1>1, <1>6, <1>8 DEF Unsaid, Heralded
<1> QED BY <1>2, <1>7, <1>9, <1>11, <1>12 DEF KeepsStep

LEMMA DispatchKeeps ==
    ASSUME CallInv, CallInv', LocksHold, NEW c \in Clients, Dispatch(c)
    PROVE  /\ KeepsStep
           /\ \A q \in Props : Head(inbox[c]).prop # q => Apart(c, q) /\ cache'[c][q] = cache[c][q]
<1>1. /\ TypeOK /\ TypeOK'
      /\ UNCHANGED <<user, idles, wire, alive>>
      /\ inbox[c] \in Seq(Messages) /\ inbox[c] # <<>>
  <2>1. inbox[c] # <<>> /\ UNCHANGED <<user, idles, wire, alive>>
    BY DEF Dispatch
  <2> QED BY <2>1 DEF CallInv, TypeOK, Messages
<1>2. PICK m \in Messages : m = Head(inbox[c])
  <2>1. Head(inbox[c]) \in Messages
    BY <1>1
  <2> QED BY <2>1
<1>3. PICK p \in Props : p = m.prop
  BY MessageTypes
<1>4. /\ Completion(c, m) \/ SignalReceived(c, m)
      /\ inbox' = [inbox EXCEPT ![c] = Tail(@)]
  BY <1>2 DEF Dispatch
<1>5. /\ inbox'[c] = Tail(inbox[c])
      /\ \A d \in Clients : d # c => inbox'[d] = inbox[d]
  BY <1>1, <1>4 DEF TypeOK
<1>6. \A q \in Props : Heralded(q)
  BY <1>1, NothingTold
<1>7. LocksHold'
  BY <1>1 DEF LocksHold, Coming
<1>8. \A d \in Clients, q \in Props :
          d # c \/ q # p => cache'[d][q] = cache[d][q]
  <2>1. \/ cache' = cache
        \/ cache' = [cache EXCEPT ![c][p] = m.val]
        \/ cache' = [cache EXCEPT ![c][p] = old[c][p].before]
    BY <1>3, <1>4 DEF Completion, SignalReceived
  <2> QED BY <1>1, <2>1 DEF TypeOK
<1>9. /\ \A d \in Clients, q \in Props : d # c \/ q # p => old'[d][q] = old[d][q]
      /\ old'[c][p] # NoItem => old'[c][p].count > 0 \/ old'[c][p] = old[c][p]
  <2>1. CASE old' = old
    BY <2>1
  <2>2. CASE old' = [old EXCEPT ![c][p] = NoItem]
    BY <1>1, <2>2, OldAt
  <2>3. CASE old[c][p].count > 1 /\ old' = [old EXCEPT ![c][p].count = @ - 1]
    <3>1. old[c][p] \in Items
      BY <1>1, <2>3, CountTypes DEF NoItem
    <3> DEFINE new == [old[c][p] EXCEPT !.count = @ - 1]
    <3>2. old' = [old EXCEPT ![c][p] = new]
      BY <1>1, <2>3 DEF TypeOK
    <3>3. new \in Items /\ new.count = old[c][p].count - 1 /\ old[c][p].count \in Nat
      BY <2>3, <3>1, CountedItem, ItemTypes
    <3> HIDE DEF new
    <3>4. /\ old'[c][p] = new
          /\ \A d \in Clients, q \in Props : d # c \/ q # p => old'[d][q] = old[d][q]
      BY <1>1, <3>2, <3>3, OldAt
    <3> QED BY <2>3, <3>3, <3>4
  <2> QED BY <1>3, <1>4, <2>1, <2>2, <2>3 DEF Completion, SignalReceived
<1>10. ASSUME NEW d \in Clients, NEW q \in Props, d # c \/ q # p PROVE Apart(d, q)
  <2>1. CASE d = c
    <3>1. Same(inbox[c], Tail(inbox[c]), q)
      BY <1>1, <1>2, <1>3, <1>10, <2>1, SameTail
    <3> QED BY <1>1, <1>5, <1>6, <1>8, <1>9, <1>10, <2>1, <3>1, SameQueues DEF Apart
  <2>2. CASE d # c
    BY <1>1, <1>5, <1>6, <1>8, <1>9, <2>2, SameQueues DEF Apart
  <2> QED BY <2>1, <2>2
<1>11. ASSUME InStep(c, p), alive[c] PROVE InStep(c, p)'
  <2>1. Synced(c, p)'
    BY <1>1, <1>2, <1>3, <1>7, <1>11, DispatchSynced DEF InStep
  <2>2. ItemCounted(c, p)'
    BY <1>9, <1>11 DEF InStep, ItemCounted
  <2> QED BY <2>1, <2>2 DEF InStep
<1>12. ASSUME NEW d \in Clients, NEW q \in Props, InStep(d, q) PROVE InStep(d, q)'
  <2>1. CASE alive[d]
    BY <1>1, <1>7, <1>10, <1>11, <1>12, <2>1, InStepApart
  <2>2. CASE ~alive[d]
    BY <1>1, <2>2 DEF InStep
  <2> QED BY <2>1, <2>2
<1> QED BY <1>2, <1>3, <1>7, <1>8, <1>10, <1>12 DEF KeepsStep

\* A call that takes too long leaves the other clients in step.
LEMMA TimeoutKeeps ==
    ASSUME CallInv, CallInv', LocksHold, NEW c \in Clients, Timeout(c)
    PROVE  /\ LocksHold'
           /\ \A d \in Clients, q \in Props : d # c /\ InStep(d, q) => InStep(d, q)'
<1>1. TypeOK /\ TypeOK' /\ UNCHANGED <<user, idles, alive, cache, old>>
  BY DEF CallInv, Timeout
<1>2. \A d \in Clients : d # c => wire'[d] = wire[d] /\ inbox'[d] = inbox[d]
  BY <1>1 DEF Timeout, TypeOK
<1>3. LocksHold'
  BY <1>1 DEF LocksHold, Coming
<1>4. \A q \in Props : Heralded(q)
  BY <1>1, NothingTold
<1>5. ASSUME NEW d \in Clients, NEW q \in Props, d # c PROVE Apart(d, q)
  BY <1>1, <1>2, <1>4, <1>5, AloneApart
<1> QED BY <1>1, <1>3, <1>5, InStepApart

\* The calls that finalisation makes again are news to the others.
LEMMA FinalizeKeeps ==
    ASSUME CallInv, CallInv', LocksHold, NEW c \in Clients, Finalize(c)
    PROVE  KeepsStep
<1> DEFINE pending == {p \in Props : old[c][p] # NoItem /\ old[c][p].sent # None}
           changed == {p \in pending : Changes(p, old[c][p].sent)}
<1>1. /\ TypeOK /\ TypeOK' /\ wire' = wire
      /\ alive' = [alive EXCEPT ![c] = FALSE]
      /\ user' = [p \in Props |-> IF p \in changed THEN old[c][p].sent ELSE user[p]]
      /\ idles' = idles \o SetToSeq(changed)
      /\ inbox' = [inbox EXCEPT ![c] = Completions(@)]
  BY DEF CallInv, Finalize
<1>2. /\ changed \in SUBSET Props /\ \A q \in changed : q \notin Locked
      /\ \A q \in Props : q \notin changed => user'[q] = user[q]
  BY <1>1 DEF Changes, Accepts
<1>3. \A d \in Clients : d # c => old'[d] = old[d] /\ cache'[d] = cache[d]
  BY <1>1 DEF TypeOK, Finalize
<1> HIDE DEF changed
<1>4. ~alive'[c] /\ \A d \in Clients : d # c => alive'[d] = alive[d] /\ inbox'[d] = inbox[d]
  BY <1>1 DEF TypeOK
<1>5. \A q \in Props : Heralded(q) /\ (Coming(q)' => Coming(q) \/ q \in changed)
  BY <1>1, <1>2, QueuedComing DEF Heralded
<1>6. LocksHold'
  <2>1. \A q \in Locked : q \in Props
    BY PropsAssumption
  <2> QED BY <1>2, <1>5, <2>1 DEF LocksHold
<1>7. ASSUME NEW d \in Clients, NEW q \in Props, InStep(d, q) PROVE InStep(d, q)'
  <2>1. CASE d = c
    BY <1>4, <2>1 DEF InStep
  <2>2. CASE d # c
    <3>1. Apart(d, q)
      BY <1>1, <1>3, <1>4, <1>5, <2>2, AloneApart
    <3> QED BY <1>1, <1>4, <1>6, <1>7, <2>2, <3>1, InStepApart
  <2> QED BY <2>1, <2>2
<1> QED BY <1>6, <1>7 DEF KeepsStep

\* Another client's change.
LEMMA OthersKeep ==
    ASSUME CallInv, NEW p \in Props, NEW v, (v \in Values /\ OthersSet(p, v)) \/ OthersReset(p)
    PROVE  /\ CallInv'
           /\ LocksHold => KeepsStep
           /\ \A c \in Clients, q \in Props : Apart(c, q)
           /\ Coming(p)' /\ \A q \in Props : q # p => Unsaid(q)
<1>1. /\ TypeOK /\ UNCHANGED <<wire, inbox, alive, cache, old>>
      /\ idles' = Append(idles, p)
      /\ (v \in Values /\ user' = [user EXCEPT ![p] = v]) \/ user' = [user EXCEPT ![p] = None]
  BY DEF CallInv, OthersSet, OthersReset
<1>2. CallInv'
  <2>1. user' \in [Props -> MaybeValue]
    <3>1. /\ user \in [Props -> MaybeValue] /\ None \in MaybeValue
          /\ v \in Values => v \in MaybeValue
      BY <1>1 DEF TypeOK, MaybeValue
    <3> QED BY <1>1, <3>1
  <2>2. idles' \in Seq(Props)
    BY <1>1 DEF TypeOK
  <2>3. alive' \in [Clients -> BOOLEAN] /\ cache' \in [Clients -> [Props -> MaybeValue]]
    BY <1>1 DEF TypeOK
  <2> QED BY <1>1, <2>1, <2>2, <2>3, QuietStep
<1>3. \A q \in Props : q # p => user'[q] = user[q]
  BY <1>1 DEF TypeOK
<1>4. \A q \in Props : Heralded(q) /\ (Coming(q)' => Coming(q) \/ q = p)
  BY <1>1, <1>3, AppendComing DEF Heralded
<1>5. ASSUME NEW d \in Clients, NEW q \in Props PROVE Apart(d, q)
  BY <1>1, <1>4, AloneApart
<1>6. ASSUME LocksHold PROVE KeepsStep
  <2>1. p \notin Locked
    BY <1>6 DEF OthersSet, OthersReset, Changes, Accepts, LocksHold
  <2>2. LocksHold'
    <3>1. \A q \in Locked : q \in Props
      BY PropsAssumption
    <3> QED BY <1>3, <1>4, <1>6, <2>1, <3>1 DEF LocksHold
  <2>3. TypeOK'
    BY <1>2 DEF CallInv
  <2> QED BY <1>1, <1>5, <1>6, <2>2, <2>3, InStepApart DEF KeepsStep
<1>7. Coming(p)'
  <2>1. Len(idles) + 1 \in DOMAIN idles' /\ idles'[Len(idles) + 1] = p
    BY <1>1 DEF TypeOK
  <2> QED BY <2>1 DEF Coming
<1>8. \A q \in Props : q # p => Unsaid(q)
  BY <1>3, <1>4 DEF Unsaid, Heralded
<1> QED BY <1>2, <1>5, <1>6, <1>7, <1>8

LEMMA IdleKeeps ==
    ASSUME CallInv, UNCHANGED vars
    PROVE  CallInv' /\ (LocksHold => KeepsStep)
<1>1. TypeOK /\ UNCHANGED <<user, idles, wire, inbox, alive, cache, old>>
  BY DEF vars, CallInv
<1>2. CallInv'
  BY <1>1, QuietStep DEF TypeOK
<1>3. ASSUME LocksHold PROVE KeepsStep
  <2>1. TypeOK' /\ LocksHold'
    BY <1>1, <1>2, <1>3 DEF CallInv, LocksHold, Coming
  <2>2. ASSUME NEW d \in Clients, NEW q \in Props PROVE Apart(d, q)
    BY <1>1, AloneApart, NothingTold
  <2> QED BY <1>1, <1>3, <2>1, <2>2, InStepApart DEF KeepsStep
<1> QED BY <1>2, <1>3

\* A value that is read where it is not known to be cached.
LEMMA LookupOrIdle ==
    ASSUME TypeOK, NEW c \in Clients, NEW p \in Props, alive[c],
           cache[c][p] = None => wire[c] = <<>>,
           cache' = [cache EXCEPT ![c][p] = Known(c, p)],
           UNCHANGED <<user, idles, wire, inbox, alive, old>>
    PROVE  Lookup(c, p) \/ UNCHANGED vars
<1>1. CASE cache[c][p] = None
  BY <1>1 DEF Lookup, Known
<1>2. CASE cache[c][p] # None
  <2>1. cache' = cache
    BY <1>2 DEF Known, TypeOK
  <2> QED BY <2>1 DEF vars
<1> QED BY <1>1, <1>2

\* The caches are new, or have prefetched what there is of the defaults.
LEMMA InStepInit ==
    ASSUME NEW cached, InitWith(cached), \A p \in Props : cached[p] \in {None, Default[p]}
    PROVE  LocksHold /\ \A c \in Clients, p \in Props : InStep(c, p)
<1>1. /\ \A p \in Props : user[p] = None
      /\ idles = <<>>
      /\ \A c \in Clients : wire[c] = <<>> /\ inbox[c] = <<>>
      /\ \A c \in Clients, p \in Props : cache[c][p] = cached[p] /\ old[c][p] = NoItem
  BY DEF InitWith
<1>2. LocksHold
  BY <1>1, PropsAssumption DEF LocksHold, Coming
<1>3. ASSUME NEW c \in Clients, NEW p \in Props PROVE InStep(c, p)
  <2>1. DOMAIN inbox[c] = {} /\ DOMAIN wire[c] = {}
    BY <1>1
  <2>2. cache[c][p] \in {None, Stored(p)}
    BY <1>1 DEF Stored
  <2> QED BY <1>1, <2>1, <2>2 DEF InStep, ItemCounted, Synced, Refused, Fresh, Answered, NoCall, Current
<1> QED BY <1>2, <1>3

\* What being in step means once nothing is under way.
LEMMA InStepSettled ==
    ASSUME CallInv, NEW c \in Clients, NEW p \in Props, InStep(c, p), alive[c], Settled(c, p)
    PROVE  cache[c][p] \in {None, Stored(p)}
<1>1. Synced(c, p) /\ ItemCounted(c, p)
  BY DEF InStep
<1>2. NoCall(c, p) /\ ~Coming(p) /\ \A k \in DOMAIN inbox[c] : inbox[c][k].prop # p
  BY DEF Settled, NoCall, Coming
<1>3. CASE p \in Locked
  <2>1. old[c][p] = NoItem
    BY <1>1, <1>2, NoneCounted
  <2> QED BY <1>1, <1>3, <2>1 DEF Synced, Refused
<1>4. CASE p \notin Locked
  <2>1. Fresh(c, p) /\ ~Ahead(c, p) /\ ~OnItsWay(c, p)
    BY <1>1, <1>2, <1>4 DEF Synced, Ahead, NoCall, IsLive, OnItsWay
  <2> QED BY <1>2, <2>1 DEF Fresh, Current
<1> QED BY <1>3, <1>4

-----------------------------------------------------------------------------
(* Coherence *)

SyncInv ==
    /\ LocksHold
    /\ \A c \in Clients \ Strays, p \in Props : InStep(c, p)

LEMMA SyncStep == CallInv /\ CallInv' /\ SyncInv /\ [Next]_vars => SyncInv'
<1> SUFFICES ASSUME CallInv, CallInv', SyncInv, [Next]_vars PROVE SyncInv'
  OBVIOUS
<1>1. LocksHold /\ \A c \in Clients \ Strays, p \in Props : InStep(c, p)
  BY DEF SyncInv
<1>2. CASE KeepsStep
  BY <1>1, <1>2 DEF KeepsStep, SyncInv
<1>3. ASSUME NEW c \in Clients, NEW p \in Props, NEW v \in Values, Set(c, p, v) PROVE SyncInv'
  <2>1. c \notin Strays => v \notin Unsendable
    BY <1>3 DEF Set
  <2> QED BY <1>1, <1>3, <2>1, SetKeeps DEF SyncInv
<1>4. ASSUME NEW c \in Clients, NEW base \in Props \cup {Root}, NEW recursive \in BOOLEAN,
             Reset(c, base, recursive)
      PROVE  SyncInv'
  BY <1>1, <1>2, <1>4, ResetKeeps
<1>5. ASSUME NEW c \in Clients, Finalize(c) PROVE SyncInv'
  BY <1>1, <1>2, <1>5, FinalizeKeeps
<1>6. ASSUME NEW c \in Clients, NEW p \in Props, Lookup(c, p) PROVE SyncInv'
  BY <1>1, <1>2, <1>6, LookupKeeps
<1>7. ASSUME NEW c \in Clients, Prefetch(c) PROVE SyncInv'
  BY <1>1, <1>2, <1>7, PrefetchKeeps
<1>8. ASSUME NEW c \in Clients, Handle(c) PROVE SyncInv'
  BY <1>1, <1>2, <1>8, HandleKeeps
<1>9. ASSUME NEW c \in Clients, Timeout(c) PROVE SyncInv'
  <2>1. c \in Strays
    BY <1>9 DEF Timeout
  <2> QED BY <1>1, <1>9, <2>1, TimeoutKeeps DEF SyncInv
<1>10. ASSUME NEW c \in Clients, Dispatch(c) PROVE SyncInv'
  BY <1>1, <1>2, <1>10, DispatchKeeps
<1>11. CASE Emit
  BY <1>1, <1>2, <1>11, EmitKeeps
<1>12. CASE UNCHANGED vars
  BY <1>1, <1>2, <1>12, IdleKeeps
<1> QED BY <1>3, <1>4, <1>5, <1>6, <1>7, <1>8, <1>9, <1>10, <1>11, <1>12 DEF Next, AppCall

\* With nothing under way about a property, a cached value of a client whose
\* calls are all answered in time is the daemon's (esconf_cache_set and its
\* reply handler, esconf_cache_handle_property_changed).
THEOREM CachesStayCoherent == Spec => []Coherent
<1>1. Init => CallInv /\ SyncInv
  <2> SUFFICES ASSUME Init PROVE CallInv /\ SyncInv
    OBVIOUS
  <2> DEFINE cached == [p \in Props |-> None]
  <2>1. InitWith(cached) /\ \A p \in Props : cached[p] \in {None, Default[p]}
    BY DEF Init
  <2> HIDE DEF cached
  <2> QED BY <2>1, CallInvFirst, InStepInit DEF SyncInv
<1>2. (CallInv /\ SyncInv) /\ [Next]_vars => (CallInv /\ SyncInv)'
  BY CallInvStep, SyncStep
<1>3. CallInv /\ SyncInv => Coherent
  BY InStepSettled DEF Coherent, SyncInv
<1> QED BY <1>1, <1>2, <1>3, PTL DEF Spec
=============================================================================
