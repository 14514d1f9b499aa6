--------------------------- MODULE XmlFileProofs ---------------------------
(***************************************************************************)
(* Theorems of the file parser, for any system files and user file, of any *)
(* length, with any locks, arrays, mistakes and breaks.                    *)
(*                                                                         *)
(* Every handler replaces the node of one property, or adds one whose      *)
(* parents are there already (LEMMAS PutTree, NewTree); what the           *)
(* invariants say of a reader is ReaderInv.  SaveInv says, of a channel    *)
(* that is being saved, what is in the file so far and what a parser has   *)
(* made of it.                                                             *)
(***************************************************************************)
EXTENDS XmlSave, PropTreeProofs, SequenceTheorems

-----------------------------------------------------------------------------
(* Names *)

LEMMA PathsAreSequences ==
    ASSUME NEW p \in Paths
    PROVE  p \in Seq(Names) /\ Len(p) \in Nat /\ Len(p) > 0 /\ p # <<>>
  BY PathsAssumption

\* What is above a property is its parent or above that.
LEMMA AboveChild ==
    ASSUME NEW path \in Paths \cup {<<>>}, NEW n \in Names,
           Append(path, n) \in Paths, NEW q \in Paths, Above(q, Append(path, n))
    PROVE  path \in Paths /\ (q = path \/ Above(q, path))
<1> DEFINE p == Append(path, n)
<1>1. path \in Seq(Names) /\ q \in Seq(Names) /\ Len(q) > 0 /\ Len(q) \in Nat
  BY PathsAreSequences, PathsAssumption, EmptySeq
<1>2. /\ Len(p) = Len(path) + 1 /\ Len(path) \in Nat
      /\ \A i \in 1..Len(path) : p[i] = path[i]
  BY <1>1, AppendProperties
<1>3. Len(q) <= Len(path)
  BY <1>1, <1>2 DEF Above
<1>4. \A i \in 1..Len(q) : q[i] = path[i]
  BY <1>1, <1>2, <1>3 DEF Above
<1>5. path # <<>>
  BY <1>1, <1>3
<1>6. CASE Len(q) = Len(path)
  BY <1>1, <1>4, <1>5, <1>6, SeqEqual
<1>7. CASE Len(q) # Len(path)
  BY <1>1, <1>2, <1>3, <1>4, <1>5, <1>7 DEF Above
<1> QED BY <1>6, <1>7

LEMMA ParentAbove ==
    ASSUME NEW path \in Paths, NEW n \in Names, Append(path, n) \in Paths
    PROVE  Above(path, Append(path, n))
<1>1. path \in Seq(Names) /\ Len(path) \in Nat
  BY PathsAreSequences
<1>2. /\ Len(Append(path, n)) = Len(path) + 1
      /\ \A i \in 1..Len(path) : Append(path, n)[i] = path[i]
  BY <1>1, AppendProperties
<1> QED BY <1>1, <1>2 DEF Above

LEMMA UpAbove ==
    ASSUME NEW path \in Paths \cup {<<>>}
    PROVE  LET up == SubSeq(path, 1, Len(path) - 1)
           IN  up = <<>> \/ (up \in Paths /\ path \in Paths /\ Above(up, path))
<1> DEFINE up == SubSeq(path, 1, Len(path) - 1)
<1>1. CASE path = <<>>
  BY <1>1
<1>2. CASE path \in Paths /\ Len(path) = 1
  <2>1. up = <<>>
    BY <1>2, PathsAreSequences
  <2> QED BY <2>1
<1>3. CASE path \in Paths /\ Len(path) > 1
  <2>1. path \in Seq(Names) /\ Len(path) \in Nat /\ Len(path) - 1 \in 1..Len(path)
    BY <1>3, PathsAreSequences
  <2>2. up \in Paths
    BY <1>3, <2>1, PathsAssumption
  <2>3. Len(up) = Len(path) - 1 /\ \A i \in 1..Len(up) : up[i] = path[i]
    BY <2>1
  <2> QED BY <1>3, <2>1, <2>2, <2>3 DEF Above
<1> QED BY <1>1, <1>2, <1>3, PathsAreSequences

-----------------------------------------------------------------------------
(* Trees *)

\* The user file respects the tree b of the system files (UserFileRespectsAdmin).
Respects(t, b) ==
    \A p \in Paths :
        /\ b[p] # NoNode =>
               /\ t[p] # NoNode
               /\ t[p].sys = b[p].sys
               /\ t[p].locked = b[p].locked
               /\ b[p].locked => t[p].value = NoValue
        /\ b[p] = NoNode /\ t[p] # NoNode =>
               t[p].sys = NoValue /\ ~t[p].locked

\* What a tree that is being read always fulfils.
TreeInv(t, locked, system, b) ==
    /\ t \in Trees
    /\ WellFormed(t)
    /\ locked => \A p \in Paths : t[p] # NoNode => t[p].locked
    /\ system => \A p \in Paths : t[p] # NoNode => t[p].value = NoValue
    /\ ~system => Respects(t, b)

\* What a new node m for the old one n may be.
MayReplace(n, m, locked, system) ==
    /\ m \in Node
    /\ locked => m.locked
    /\ system => m.value = NoValue
    /\ ~system => m.sys = n.sys /\ m.locked = n.locked /\ (n.locked => m.value = NoValue)

\* The tree with the node m for p.
Put(t, p, m) == [t EXCEPT ![p] = m]

LEMMA PutTree ==
    ASSUME NEW t, NEW locked \in BOOLEAN, NEW system \in BOOLEAN, NEW b,
           TreeInv(t, locked, system, b),
           NEW p \in Paths, t[p] # NoNode, NEW m, MayReplace(t[p], m, locked, system),
           NEW u, u = Put(t, p, m)
    PROVE  TreeInv(u, locked, system, b)
<1>1. t \in Trees /\ m \in Node /\ m # NoNode
  BY SentinelAssumption DEF TreeInv, MayReplace
<1>2. u \in Trees /\ \A q \in Paths : u[q] = IF q = p THEN m ELSE t[q]
  BY <1>1 DEF Trees, Put
<1>3. WellFormed(u)
  BY <1>1, <1>2 DEF TreeInv, WellFormed
<1>4. ~system => Respects(u, b)
  BY <1>1, <1>2 DEF TreeInv, MayReplace, Respects
<1>5. locked => \A q \in Paths : u[q] # NoNode => u[q].locked
  BY <1>2 DEF TreeInv, MayReplace
<1>6. system => \A q \in Paths : u[q] # NoNode => u[q].value = NoValue
  BY <1>2 DEF TreeInv, MayReplace
<1> QED BY <1>2, <1>3, <1>4, <1>5, <1>6 DEF TreeInv

\* The tree with a node for p, as Cleared adds it.
Added(t, p, locked) == [AddProperty(t, p, NoValue) EXCEPT ![p].locked = locked]

LEMMA NewTree ==
    ASSUME NEW t, NEW locked \in BOOLEAN, NEW system \in BOOLEAN, NEW b,
           TreeInv(t, locked, system, b), system \/ ~locked,
           NEW p \in Paths, t[p] = NoNode,
           \A q \in Paths : Above(q, p) => t[q] # NoNode,
           NEW u, u = Added(t, p, locked)
    PROVE  /\ TreeInv(u, locked, system, b)
           /\ \A q \in Paths \ {p} : u[q] = t[q]
           /\ u[p] = [value |-> NoValue, sys |-> NoValue, locked |-> locked]
<1> DEFINE m == [value |-> NoValue, sys |-> NoValue, locked |-> locked]
<1>1. m \in Node /\ m # NoNode
  <2>1. m \in Node
    BY DEF Node
  <2> QED BY <2>1, SentinelAssumption
<1>2. \A q \in Paths : u[q] = IF q = p THEN m ELSE t[q]
  BY DEF Added, AddProperty, NewNode
<1>3. u \in Trees
  <2>1. u = [q \in Paths |-> u[q]]
    BY DEF Added, AddProperty
  <2>2. \A q \in Paths : u[q] \in Node \cup {NoNode}
    BY <1>1, <1>2 DEF TreeInv, Trees
  <2> QED BY <2>1, <2>2 DEF Trees
<1>4. WellFormed(u)
  BY <1>1, <1>2 DEF TreeInv, WellFormed
<1>5. ~system => Respects(u, b)
  BY <1>1, <1>2 DEF TreeInv, Respects
<1>6. ASSUME locked, NEW q \in Paths, u[q] # NoNode PROVE u[q].locked
  <2>1. CASE q = p
    <3>1. u[q].locked = locked
      BY <1>2, <2>1
    <3> QED BY <1>6, <3>1, Zenon
  <2>2. CASE q # p
    BY <1>2, <1>6, <2>2 DEF TreeInv
  <2> QED BY <2>1, <2>2
<1>7. system => \A q \in Paths : u[q] # NoNode => u[q].value = NoValue
  BY <1>2 DEF TreeInv
<1>8. TreeInv(u, locked, system, b)
  BY <1>3, <1>4, <1>5, <1>6, <1>7 DEF TreeInv
<1> QED BY <1>2, <1>8

-----------------------------------------------------------------------------
(* Handlers *)

\* What an array that is being read fulfils (ListIsOpenArray).
ListOpen(r, system) ==
    r.list # NoArray =>
        /\ r.tree[r.list] # NoNode
        /\ ListValue(r, system) \notin Scalars \cup {NoValue}
        /\ r.list = r.path \/ Above(r.list, r.path)

\* What every handler preserves, in a system file or in the user's, b being
\* the tree when the latter was started.
ReaderInv(r, system, b) ==
    /\ r \in Reader
    /\ TreeInv(r.tree, r.locked, system, b)
    /\ r.elem \in {"none", "channel"} => r.path = <<>> /\ r.list = NoArray
    /\ r.path # <<>> => r.tree[r.path] # NoNode
    /\ ListOpen(r, system)

\* What value_to_set of p holds.
ValueToSet(t, system, p) == IF system THEN t[p].sys ELSE t[p].value

LEMMA SentinelsApart ==
    /\ NoArray \notin Paths /\ <<>> \notin Paths
    /\ <<>> \in Values /\ <<>> \notin Scalars /\ <<>> # NoValue
    /\ NoValue \notin Scalars
  BY ContentsAssumption, SentinelAssumption, PathsAreSequences

LEMMA OnlyLocksLock == ASSUME NEW a, Locks(a) PROVE HasLock(a)
  BY DEF Locks, HasLock

LEMMA FailKeeps ==
    ASSUME NEW r, NEW system, NEW b, ReaderInv(r, system, b)
    PROVE  ReaderInv(Fail(r), system, b)
<1>1. /\ Fail(r) \in Reader
      /\ Fail(r).tree = r.tree /\ Fail(r).locked = r.locked
      /\ Fail(r).elem = r.elem /\ Fail(r).path = r.path /\ Fail(r).list = r.list
  BY DEF Fail, Reader, ReaderInv
<1> QED BY <1>1 DEF ReaderInv, ListOpen, ListValue

LEMMA HandleChannelKeeps ==
    ASSUME NEW r, NEW system \in BOOLEAN, NEW b, ReaderInv(r, system, b),
           r.elem = "none", NEW e
    PROVE  /\ ReaderInv(HandleChannel(r, system, e), system, b)
           /\ ~system => HandleChannel(r, system, e).locked = r.locked
<1> DEFINE s == HandleChannel(r, system, e)
<1>1. r \in Reader /\ r.path = <<>> /\ r.list = NoArray
  BY DEF ReaderInv
<1>2. CASE s = Fail(r)
  BY <1>2, <1>1, FailKeeps DEF Fail, Reader
<1>3. CASE s = [r EXCEPT !.elem = "channel"]
  BY <1>1, <1>3 DEF ReaderInv, Reader, ListOpen
<1>4. CASE /\ system
           /\ s = [r EXCEPT !.tree = EmptyTree, !.locked = TRUE, !.elem = "channel"]
  <2>1. EmptyTree \in Trees /\ TreeInv(EmptyTree, TRUE, TRUE, b)
    BY DEF EmptyTree, Trees, TreeInv, WellFormed
  <2> QED BY <1>1, <1>4, <2>1 DEF ReaderInv, Reader, ListOpen
<1> QED BY <1>2, <1>3, <1>4, OnlyLocksLock DEF HandleChannel

\* The parents of the property that an element names are nodes.
LEMMA ParentsThere ==
    ASSUME NEW r, NEW system \in BOOLEAN, NEW b, ReaderInv(r, system, b),
           NEW n \in Names, Append(r.path, n) \in Paths,
           NEW q \in Paths, Above(q, Append(r.path, n))
    PROVE  r.tree[q] # NoNode
<1>1. r.path \in Paths \cup {<<>>}
  BY DEF ReaderInv, Reader
<1>2. r.path \in Paths /\ (q = r.path \/ Above(q, r.path))
  BY <1>1, AboveChild
<1>3. r.tree[r.path] # NoNode
  BY <1>2, SentinelsApart DEF ReaderInv
<1>4. WellFormed(r.tree)
  BY DEF ReaderInv, TreeInv
<1> QED BY <1>2, <1>3, <1>4 DEF WellFormed

\* The tree once p's earlier value is gone.
LEMMA ClearedKeeps ==
    ASSUME NEW r, r \in Reader, NEW system \in BOOLEAN, NEW b,
           TreeInv(r.tree, r.locked, system, b), system \/ ~r.locked,
           NEW p \in Paths, \A q \in Paths : Above(q, p) => r.tree[q] # NoNode,
           NEW c, c = Cleared(r, system, p)
    PROVE  /\ TreeInv(c, r.locked, system, b)
           /\ c[p] # NoNode /\ c[p].value = NoValue
           /\ \A q \in Paths \ {p} : c[q] = r.tree[q]
           /\ ~system /\ ~Skipped(r, system, p) => ~c[p].locked
<1>0. r.tree \in Trees /\ r.locked \in BOOLEAN
  BY DEF Reader
<1>1. CASE r.tree[p] = NoNode
  <2>1. c = Added(r.tree, p, r.locked)
    BY <1>1 DEF Cleared, Added
  <2>2. /\ TreeInv(c, r.locked, system, b)
        /\ \A q \in Paths \ {p} : c[q] = r.tree[q]
        /\ c[p] = [value |-> NoValue, sys |-> NoValue, locked |-> r.locked]
    BY <1>0, <1>1, <2>1, NewTree
  <2>3. [value |-> NoValue, sys |-> NoValue, locked |-> r.locked] \in Node
    BY <1>0 DEF Node
  <2> QED BY <2>2, <2>3, SentinelAssumption
<1>2. CASE r.tree[p] # NoNode
  <2> DEFINE n == r.tree[p]
             m == [n EXCEPT !.value = NoValue, !.sys = IF system THEN NoValue ELSE @]
  <2>1. n \in Node
    BY <1>0, <1>2 DEF Trees
  <2>2. /\ m \in Node /\ m.value = NoValue /\ m.locked = n.locked
        /\ ~system => m.sys = n.sys
    BY <2>1 DEF Node
  <2>3. c = Put(r.tree, p, m)
    BY <1>0, <1>2, <2>1 DEF Cleared, Trees, Node, Put
  <2>4. r.locked => n.locked
    BY <1>0, <1>2 DEF TreeInv
  <2> HIDE DEF m
  <2>5. MayReplace(n, m, r.locked, system)
    BY <2>2, <2>4 DEF MayReplace
  <2>6. TreeInv(c, r.locked, system, b)
    BY <1>0, <1>2, <2>3, <2>5, PutTree
  <2>7. c[p] = m /\ \A q \in Paths \ {p} : c[q] = r.tree[q]
    BY <1>0, <2>3 DEF Trees, Put
  <2>8. ~system /\ ~Skipped(r, system, p) => ~c[p].locked
    BY <1>2, <2>2, <2>7 DEF Skipped
  <2> QED BY <2>2, <2>6, <2>7, <2>8, SentinelAssumption
<1> QED BY <1>1, <1>2

LEMMA LockedByKeeps ==
    ASSUME NEW r, NEW system \in BOOLEAN, NEW b, NEW c, NEW p \in Paths,
           r.locked \in BOOLEAN, TreeInv(c, r.locked, system, b),
           c[p] # NoNode, c[p].value = NoValue,
           NEW lock, system \/ ~HasLock(lock),
           NEW t, t = LockedBy(r, c, p, lock)
    PROVE  /\ TreeInv(t, r.locked, system, b)
           /\ t[p] # NoNode /\ t[p].value = NoValue
           /\ ~system => t = c
           /\ \A q \in Paths \ {p} : t[q] = c[q]
<1> DEFINE m == [c[p] EXCEPT !.locked = r.locked \/ Locks(lock)]
<1>1. CASE ~HasLock(lock)
  BY <1>1 DEF LockedBy
<1>2. CASE HasLock(lock)
  <2>1. c \in Trees /\ c[p] \in Node /\ (r.locked \/ Locks(lock)) \in BOOLEAN
    BY DEF TreeInv, Trees
  <2>2. /\ m \in Node /\ m.value = NoValue
        /\ m.locked = (r.locked \/ Locks(lock))
    BY <2>1 DEF Node
  <2>3. MayReplace(c[p], m, r.locked, system)
    BY <1>2, <2>2 DEF MayReplace
  <2>4. t = Put(c, p, m)
    BY <1>2, <2>1 DEF LockedBy, Trees, Put
  <2>5. t[p] = m /\ \A q \in Paths \ {p} : t[q] = c[q]
    BY <2>1, <2>4 DEF Trees, Put
  <2> HIDE DEF m
  <2>6. TreeInv(t, r.locked, system, b)
    BY <2>1, <2>3, <2>4, PutTree
  <2> QED BY <1>2, <2>2, <2>5, <2>6, SentinelAssumption
<1> QED BY <1>1, <1>2

LEMMA WithContentKeeps ==
    ASSUME NEW t, NEW locked \in BOOLEAN, NEW system \in BOOLEAN, NEW b,
           TreeInv(t, locked, system, b), NEW p \in Paths, t[p] # NoNode,
           NEW v \in Values \cup {NoValue}, ~system => ~t[p].locked,
           NEW u, u = WithContent(t, system, p, v)
    PROVE  /\ TreeInv(u, locked, system, b)
           /\ u[p] # NoNode
           /\ ValueToSet(u, system, p) = v
           /\ \A q \in Paths \ {p} : u[q] = t[q]
<1> DEFINE m == IF system THEN [t[p] EXCEPT !.sys = v] ELSE [t[p] EXCEPT !.value = v]
<1>1. t \in Trees /\ t[p] \in Node
  BY DEF TreeInv, Trees
<1>2. /\ m \in Node /\ m.locked = t[p].locked
      /\ system => m.sys = v /\ m.value = t[p].value
      /\ ~system => m.value = v /\ m.sys = t[p].sys
  BY <1>1 DEF Node
<1>3. MayReplace(t[p], m, locked, system)
  BY <1>2 DEF MayReplace, TreeInv
<1>4. u = Put(t, p, m)
  BY <1>1 DEF WithContent, Trees, Put
<1>5. u[p] = m /\ \A q \in Paths \ {p} : u[q] = t[q]
  BY <1>1, <1>4 DEF Trees, Put
<1> HIDE DEF m
<1>6. TreeInv(u, locked, system, b)
  BY <1>1, <1>3, <1>4, PutTree
<1> QED BY <1>2, <1>5, <1>6, SentinelAssumption DEF ValueToSet

\* Where a property element leads: list points elsewhere, and stays open.
LEMMA ListStaysOpen ==
    ASSUME NEW r, NEW system \in BOOLEAN, NEW b, ReaderInv(r, system, b),
           NEW n \in Names, NEW p, p = Append(r.path, n), p \in Paths,
           r.list # NoArray
    PROVE  /\ r.list \in Paths \ {p} /\ Above(r.list, p)
           /\ r.tree[r.list] # NoNode
           /\ ValueToSet(r.tree, system, r.list) \notin Scalars \cup {NoValue}
<1>1. r.list \in Paths /\ r.path \in Paths \cup {<<>>}
  BY DEF ReaderInv, Reader
<1>2. r.list = r.path \/ Above(r.list, r.path)
  BY DEF ReaderInv, ListOpen
<1>3. r.path \in Paths
  <2>1. CASE r.path = <<>>
    <3>1. Above(r.list, <<>>)
      BY <1>1, <1>2, <2>1, SentinelsApart
    <3>2. Len(r.list) > 0
      BY <1>1, PathsAreSequences
    <3> QED BY <1>1, <3>1, <3>2, PathsAreSequences DEF Above
  <2> QED BY <1>1, <2>1
<1>4. Above(r.path, p)
  BY <1>3, ParentAbove
<1>5. Above(r.list, p)
  BY <1>1, <1>2, <1>3, <1>4, AboveTransitive
<1>6. r.list # p
  BY <1>1, <1>5, AboveIrreflexive
<1> QED BY <1>1, <1>5, <1>6 DEF ReaderInv, ListOpen, ListValue, ValueToSet

LEMMA HandlePropertyKeeps ==
    ASSUME NEW r, NEW system \in BOOLEAN, NEW b, ReaderInv(r, system, b),
           system \/ ~r.locked, r.elem \in {"channel", "property"},
           NEW e, e.name \in Names, e.content \in Contents,
           Append(r.path, e.name) \in Paths
    PROVE  /\ ReaderInv(HandleProperty(r, system, e), system, b)
           /\ HandleProperty(r, system, e).locked = r.locked
<1> DEFINE p == Append(r.path, e.name)
           c == Cleared(r, system, p)
           t == LockedBy(r, c, p, e.lock)
           s == HandleProperty(r, system, e)
<1>1. /\ r \in Reader /\ r.tree \in Trees /\ r.locked \in BOOLEAN
      /\ r.path \in Paths \cup {<<>>} /\ r.list \in Paths \cup {NoArray}
      /\ TreeInv(r.tree, r.locked, system, b)
      /\ p \in Paths /\ p # <<>>
  BY SentinelsApart DEF ReaderInv, Reader
<1>0. p = Append(r.path, e.name)
  OBVIOUS
<1> HIDE DEF p, c, t
<1>2. \A q \in Paths : Above(q, p) => r.tree[q] # NoNode
  BY ParentsThere DEF p
<1>3. /\ TreeInv(c, r.locked, system, b)
      /\ c[p] # NoNode /\ c[p].value = NoValue
      /\ \A q \in Paths \ {p} : c[q] = r.tree[q]
      /\ ~system /\ ~Skipped(r, system, p) => ~c[p].locked
  BY <1>1, <1>2, ClearedKeeps DEF c
<1>4. ASSUME system \/ ~HasLock(e.lock)
      PROVE  /\ TreeInv(t, r.locked, system, b)
             /\ t[p] # NoNode /\ t[p].value = NoValue
             /\ ~system => t = c
             /\ \A q \in Paths \ {p} : t[q] = r.tree[q]
  <2>1. /\ TreeInv(t, r.locked, system, b)
        /\ t[p] # NoNode /\ t[p].value = NoValue
        /\ ~system => t = c
        /\ \A q \in Paths \ {p} : t[q] = c[q]
    <3>1. t = LockedBy(r, c, p, e.lock)
      BY DEF t
    <3>2. p \in Paths /\ r.locked \in BOOLEAN
      BY <1>1
    <3> QED BY <1>3, <1>4, <3>1, <3>2, LockedByKeeps
  <2> QED BY <1>3, <2>1
<1>5. ASSUME ~Skipped(r, system, p), system \/ ~HasLock(e.lock),
             NEW v \in Values \cup {NoValue},
             NEW u, u = WithContent(t, system, p, v)
      PROVE  /\ TreeInv(u, r.locked, system, b)
             /\ u[p] # NoNode /\ ValueToSet(u, system, p) = v
             /\ \A q \in Paths \ {p} : u[q] = r.tree[q]
  <2>1. ~system => ~t[p].locked
    BY <1>3, <1>4, <1>5
  <2> QED BY <1>1, <1>4, <1>5, <2>1, WithContentKeeps
<1>6. ASSUME r.list # NoArray
       PROVE  /\ r.list \in Paths \ {p} /\ Above(r.list, p)
              /\ r.tree[r.list] # NoNode
              /\ ValueToSet(r.tree, system, r.list) \notin Scalars \cup {NoValue}
  BY <1>0, <1>1, <1>6, ListStaysOpen DEF p
\* What an error leaves: the parser where it was, over a changed tree.
<1>7. ASSUME NEW u, TreeInv(u, r.locked, system, b), u[p] # NoNode,
             \A q \in Paths \ {p} : u[q] = r.tree[q]
      PROVE  LET f == Fail([r EXCEPT !.tree = u])
             IN  ReaderInv(f, system, b) /\ f.locked = r.locked
  <2> DEFINE f == Fail([r EXCEPT !.tree = u])
  <2>1. u \in Trees
    BY <1>7 DEF TreeInv
  <2>2. /\ f \in Reader /\ f.tree = u /\ f.locked = r.locked
        /\ f.elem = r.elem /\ f.path = r.path /\ f.list = r.list
    BY <1>1, <2>1 DEF Fail, Reader
  <2>3. f.path # <<>> => u[f.path] # NoNode
    <3>1. \A q \in Paths : r.tree[q] # NoNode => u[q] # NoNode
      BY <1>7
    <3> QED BY <1>1, <2>2, <3>1 DEF ReaderInv
  <2> HIDE DEF f
  <2>4. ListOpen(f, system)
    BY <1>6, <1>7, <2>2 DEF ListOpen, ListValue, ValueToSet, ReaderInv
  <2>5. f.elem \in {"none", "channel"} => f.path = <<>> /\ f.list = NoArray
    BY <2>2 DEF ReaderInv
  <2>6. ReaderInv(f, system, b)
    BY <1>7, <2>2, <2>3, <2>4, <2>5 DEF ReaderInv
  <2> QED BY <2>2, <2>6 DEF f
\* What a property that was read or skipped leaves.
<1>8. ASSUME NEW u, TreeInv(u, r.locked, system, b), u[p] # NoNode,
             \A q \in Paths \ {p} : u[q] = r.tree[q],
             NEW l \in {r.list, p},
             l = p => ValueToSet(u, system, p) \notin Scalars \cup {NoValue}
      PROVE  LET f == [r EXCEPT !.elem = "property", !.path = p, !.tree = u, !.list = l]
             IN  ReaderInv(f, system, b) /\ f.locked = r.locked
  <2> DEFINE f == [r EXCEPT !.elem = "property", !.path = p, !.tree = u, !.list = l]
  <2>1. u \in Trees
    BY <1>8 DEF TreeInv
  <2>2. /\ f \in Reader /\ f.tree = u /\ f.locked = r.locked
        /\ f.elem = "property" /\ f.path = p /\ f.list = l
    BY <1>1, <1>8, <2>1 DEF Reader
  <2> HIDE DEF f
  <2>3. ListOpen(f, system)
    <3>1. CASE l = p
      BY <1>8, <2>2, <3>1 DEF ListOpen, ListValue, ValueToSet
    <3>2. CASE l = r.list
      <4>1. SUFFICES ASSUME r.list # NoArray PROVE ListOpen(f, system)
        BY <2>2, <3>2 DEF ListOpen
      <4>2. /\ r.list \in Paths \ {p} /\ Above(r.list, p) /\ u[r.list] # NoNode
            /\ ValueToSet(u, system, r.list) \notin Scalars \cup {NoValue}
        BY <1>6, <1>8, <4>1 DEF ValueToSet
      <4> QED BY <2>2, <3>2, <4>2 DEF ListOpen, ListValue, ValueToSet
    <3> QED BY <1>8, <3>1, <3>2
  <2>4. ReaderInv(f, system, b)
    BY <1>8, <2>2, <2>3 DEF ReaderInv
  <2> QED BY <2>2, <2>4 DEF f
<1>9. CASE Skipped(r, system, p)
  <2>1. r.tree[p] # NoNode
    BY <1>9 DEF Skipped
  <2>2. CASE r.list = p
    <3>1. r.list # NoArray
      BY <1>1, <2>2, SentinelsApart
    <3> QED BY <1>6, <2>2, <3>1
  <2>3. CASE r.list # p
    <3>1. s = [r EXCEPT !.elem = "property", !.path = p, !.tree = r.tree, !.list = r.list]
      BY <1>1, <1>9 DEF HandleProperty, p, Reader
    <3> QED BY <1>1, <2>1, <2>3, <3>1, <1>8
  <2> QED BY <2>2, <2>3
<1>10. CASE ~Skipped(r, system, p) /\ HasLock(e.lock) /\ ~system
  <2>1. s = Fail([r EXCEPT !.tree = c])
    BY <1>10 DEF HandleProperty, p, c
  <2> QED BY <1>3, <1>7, <2>1
<1>11. CASE /\ ~Skipped(r, system, p) /\ (system \/ ~HasLock(e.lock))
            /\ e.content = BadType
  <2>1. s = Fail([r EXCEPT !.tree = t])
    BY <1>11 DEF HandleProperty, p, c, t
  <2> QED BY <1>4, <1>7, <1>11, <2>1
<1>12. CASE /\ ~Skipped(r, system, p) /\ (system \/ ~HasLock(e.lock))
            /\ e.content # BadType /\ e.content = Unparsable
  <2>1. s = Fail([r EXCEPT !.tree = WithContent(t, system, p, Zero)])
    BY <1>12 DEF HandleProperty, p, c, t
  <2>2. Zero \in Values
    BY ContentsAssumption
  <2> QED BY <1>5, <1>7, <1>12, <2>1, <2>2
<1>13. CASE /\ ~Skipped(r, system, p) /\ (system \/ ~HasLock(e.lock))
            /\ e.content # BadType /\ e.content # Unparsable
  <2> DEFINE u == WithContent(t, system, p, e.content)
             l == IF e.content = <<>> THEN p ELSE r.list
  <2>1. s = [r EXCEPT !.elem = "property", !.path = p, !.tree = u, !.list = l]
    BY <1>1, <1>13 DEF HandleProperty, p, c, t, Reader
  <2>2. e.content \in Values \cup {NoValue}
    BY <1>13, ContentsAssumption DEF Contents
  <2>3. l \in {r.list, p}
    OBVIOUS
  <2>4. /\ TreeInv(u, r.locked, system, b)
        /\ u[p] # NoNode /\ ValueToSet(u, system, p) = e.content
        /\ \A q \in Paths \ {p} : u[q] = r.tree[q]
    BY <1>5, <1>13, <2>2
  <2>5. l = p => ValueToSet(u, system, p) \notin Scalars \cup {NoValue}
    <3>1. r.list # p
      <4>1. CASE r.list = NoArray
        BY <1>1, <4>1, SentinelsApart
      <4>2. CASE r.list # NoArray
        BY <1>6, <4>2
      <4> QED BY <4>1, <4>2
    <3> QED BY <2>4, <3>1, SentinelsApart
  <2> HIDE DEF u, l, s
  <2>6. ReaderInv(s, system, b) /\ s.locked = r.locked
    BY <1>8, <2>1, <2>3, <2>4, <2>5
  <2> QED BY <2>6 DEF s
<1> QED BY <1>9, <1>10, <1>11, <1>12, <1>13

LEMMA HandleValueKeeps ==
    ASSUME NEW r, NEW system \in BOOLEAN, NEW b, ReaderInv(r, system, b),
           r.elem = "property", r.list # NoArray, NEW e,
           e.content \in Scalars => Append(ListValue(r, system), e.content) \in Values
    PROVE  /\ ReaderInv(HandleValue(r, system, e), system, b)
           /\ HandleValue(r, system, e).locked = r.locked
<1> DEFINE s == HandleValue(r, system, e)
           old == ListValue(r, system)
           v == Append(old, e.content)
           u == WithContent(r.tree, system, r.list, v)
<1>1. /\ r \in Reader /\ r.tree \in Trees /\ r.locked \in BOOLEAN
      /\ r.list \in Paths /\ TreeInv(r.tree, r.locked, system, b)
  BY DEF ReaderInv, Reader
<1>2. CASE e.content \notin Scalars
  <2>1. s = Fail(r)
    BY <1>2 DEF HandleValue
  <2>2. Fail(r).locked = r.locked
    BY <1>1 DEF Fail, Reader
  <2> QED BY <2>1, <2>2, FailKeeps
<1>3. CASE e.content \in Scalars
  <2>1. /\ r.tree[r.list] # NoNode /\ r.tree[r.list] \in Node
        /\ old \notin Scalars \cup {NoValue}
        /\ r.list = r.path \/ Above(r.list, r.path)
    BY <1>1 DEF ReaderInv, ListOpen, Trees
  <2>2. old \in Values
    BY <2>1 DEF ListValue, Node
  <2>3. old \in Seq(Scalars)
    BY <2>1, <2>2, ContentsAssumption
  <2>4. v \in Seq(Scalars)
    BY <1>3, <2>3
  <2>5. v \in Values /\ v \notin Scalars /\ v # NoValue
    BY <1>3, <2>4, ContentsAssumption, SentinelAssumption
  <2>6. ~system => ~r.tree[r.list].locked
    BY <1>1, <2>1 DEF TreeInv, Respects, ListValue
  <2> HIDE DEF v, old
  <2>7. /\ TreeInv(u, r.locked, system, b)
        /\ u[r.list] # NoNode /\ ValueToSet(u, system, r.list) = v
        /\ \A q \in Paths \ {r.list} : u[q] = r.tree[q]
    BY <1>1, <2>1, <2>5, <2>6, WithContentKeeps
  <2>8. s = [r EXCEPT !.tree = u, !.elem = "value"]
    BY <1>3 DEF HandleValue, v, old
  <2>9. u \in Trees
    BY <2>7 DEF TreeInv
  <2> HIDE DEF u, s
  <2>10. /\ s \in Reader /\ s.tree = u /\ s.locked = r.locked
         /\ s.elem = "value" /\ s.path = r.path /\ s.list = r.list
    BY <1>1, <2>8, <2>9 DEF Reader
  <2>11. ListOpen(s, system)
    BY <2>1, <2>5, <2>7, <2>10 DEF ListOpen, ListValue, ValueToSet
  <2>12. s.path # <<>> => u[s.path] # NoNode
    <3>1. r.path # <<>> => r.tree[r.path] # NoNode /\ r.path \in Paths
      BY <1>1 DEF ReaderInv, Reader
    <3> QED BY <2>7, <2>10, <3>1
  <2>13. ReaderInv(s, system, b)
    BY <2>7, <2>10, <2>11, <2>12 DEF ReaderInv
  <2> QED BY <2>10, <2>13 DEF s
<1> QED BY <1>2, <1>3

\* A start tag whose handler may run.
LEMMA StartElemKeeps ==
    ASSUME NEW r, NEW system \in BOOLEAN, NEW b, ReaderInv(r, system, b),
           system \/ ~r.locked, NEW e \in Element,
           e.elem = "property" => Append(r.path, e.name) \in Paths,
           e.elem = "value" /\ r.list # NoArray /\ e.content \in Scalars =>
               Append(ListValue(r, system), e.content) \in Values
    PROVE  /\ ReaderInv(StartElem(r, system, e), system, b)
           /\ ~system => StartElem(r, system, e).locked = r.locked
<1>1. CASE r.elem = "none" /\ e.elem = "channel"
  <2>1. StartElem(r, system, e) = HandleChannel(r, system, e)
    BY <1>1 DEF StartElem
  <2> QED BY <1>1, <2>1, HandleChannelKeeps
<1>2. CASE r.elem \in {"channel", "property"} /\ e.elem = "property"
  <2>1. StartElem(r, system, e) = HandleProperty(r, system, e)
    BY <1>2 DEF StartElem
  <2>2. e.name \in Names /\ e.content \in Contents
    BY <1>2 DEF Element
  <2> QED BY <1>2, <2>1, <2>2, HandlePropertyKeeps
<1>3. CASE r.elem = "property" /\ e.elem = "value" /\ r.list # NoArray
  <2>1. StartElem(r, system, e) = HandleValue(r, system, e)
    BY <1>3 DEF StartElem
  <2> QED BY <1>3, <2>1, HandleValueKeeps
<1>4. CASE StartElem(r, system, e) = Fail(r)
  <2>1. Fail(r).locked = r.locked
    BY DEF Fail, ReaderInv, Reader
  <2> QED BY <1>4, <2>1, FailKeeps
<1> QED BY <1>1, <1>2, <1>3, <1>4 DEF StartElem

LEMMA EndElemKeeps ==
    ASSUME NEW r, NEW system \in BOOLEAN, NEW b, ReaderInv(r, system, b)
    PROVE  ReaderInv(EndElem(r), system, b) /\ EndElem(r).locked = r.locked
<1> DEFINE up == SubSeq(r.path, 1, Len(r.path) - 1)
<1>1. r \in Reader /\ r.path \in Paths \cup {<<>>}
      /\ r.elem \in {"none", "channel", "property", "value"}
  BY DEF ReaderInv, Reader
<1>2. CASE r.elem = "none"
  BY <1>2 DEF EndElem
<1>3. CASE r.elem = "channel"
  <2>1. EndElem(r) = [r EXCEPT !.elem = "none", !.path = <<>>]
    BY <1>3 DEF EndElem
  <2> QED BY <1>1, <1>3, <2>1 DEF ReaderInv, Reader, ListOpen
<1>4. CASE r.elem = "property"
  <2>1. EndElem(r) = [r EXCEPT !.elem = IF up = <<>> THEN "channel" ELSE "property",
                               !.path = up, !.list = NoArray]
    BY <1>4 DEF EndElem
  <2>2. up = <<>> \/ (up \in Paths /\ r.path \in Paths /\ Above(up, r.path))
    BY <1>1, UpAbove
  <2>3. up # <<>> => r.tree[up] # NoNode
    BY <2>2, SentinelsApart DEF ReaderInv, TreeInv, WellFormed
  <2> HIDE DEF up
  <2> QED BY <1>1, <2>1, <2>2, <2>3 DEF ReaderInv, Reader, ListOpen
<1>5. CASE r.elem = "value"
  <2>1. EndElem(r) = [r EXCEPT !.elem = "property"]
    BY <1>5 DEF EndElem
  <2> QED BY <1>1, <2>1 DEF ReaderInv, Reader, ListOpen, ListValue
<1> QED BY <1>1, <1>2, <1>3, <1>4, <1>5

\* A parser that has just started upholds what holds of its tree.
LEMMA FreshKeeps ==
    ASSUME NEW r \in Reader, NEW system, NEW b,
           TreeInv(r.tree, r.locked, system, b)
    PROVE  /\ ReaderInv(FreshParser(r), system, b)
           /\ FreshParser(r).locked = r.locked
  BY DEF FreshParser, ReaderInv, Reader, ListOpen

-----------------------------------------------------------------------------
(* The specification *)

\* The inductive invariant.  The user file is not opened over a locked
\* channel, which is why it can only meet property locks.
FileInv ==
    /\ TypeOK
    /\ ReaderInv(reader, IsSystem, base)
    /\ files = 1 => ~reader.locked

LEMMA FileInit == Init => FileInv
<1> SUFFICES ASSUME Init PROVE FileInv
  OBVIOUS
<1>1. /\ EmptyTree \in Trees /\ \A p \in Paths : EmptyTree[p] = NoNode
  BY DEF EmptyTree, Trees
<1>2. NewReader \in Reader
  BY <1>1 DEF NewReader, Reader
<1>3. TypeOK
  BY <1>1, <1>2, ContentsAssumption DEF Init, TypeOK
<1>4. TreeInv(EmptyTree, FALSE, IsSystem, EmptyTree)
  BY <1>1 DEF TreeInv, WellFormed, Respects
<1>5. ReaderInv(reader, IsSystem, base)
  BY <1>2, <1>4 DEF Init, ReaderInv, NewReader, ListOpen
<1> QED BY <1>3, <1>5 DEF FileInv, Init, NewReader

LEMMA FileNext == FileInv /\ [Next]_vars => FileInv'
<1> SUFFICES ASSUME FileInv, [Next]_vars PROVE FileInv'
  OBVIOUS
<1>1. /\ TypeOK /\ ReaderInv(reader, IsSystem, base) /\ files \in Nat
      /\ files = 1 => ~reader.locked
      /\ IsSystem \in BOOLEAN
  BY ContentsAssumption DEF FileInv, TypeOK, IsSystem
<1>2. ASSUME NEW e \in Element, Start(e) PROVE FileInv'
  <2>1. files' = files /\ base' = base /\ IsSystem' = IsSystem /\ files # 0
    BY <1>2 DEF Start, IsSystem, Loaded
  <2>2. IsSystem \/ ~reader.locked
    BY <1>1, <2>1 DEF IsSystem
  <2>3. reader' = StartElem(reader, IsSystem, e)
    BY <1>2 DEF Start
  <2>4. /\ ReaderInv(reader', IsSystem, base)
        /\ ~IsSystem => reader'.locked = reader.locked
    BY <1>1, <1>2, <2>2, <2>3, StartElemKeeps DEF Start
  <2>5. open' \in Seq({"channel", "property", "value"}) /\ elements' \in 0..MaxElements
    <3>1. e.elem \in {"channel", "property", "value"}
      BY <1>2 DEF Element
    <3> QED BY <1>1, <1>2, <3>1, ContentsAssumption DEF Start, TypeOK
  <2>6. TypeOK'
    BY <1>1, <2>1, <2>4, <2>5 DEF TypeOK, ReaderInv
  <2> QED BY <1>1, <2>1, <2>4, <2>6 DEF FileInv, IsSystem
<1>3. ASSUME End PROVE FileInv'
  <2>1. /\ files' = files /\ base' = base /\ elements' = elements
        /\ IsSystem' = IsSystem /\ reader' = EndElem(reader)
    BY <1>3 DEF End, IsSystem
  <2>2. ReaderInv(reader', IsSystem, base) /\ reader'.locked = reader.locked
    BY <1>1, <2>1, EndElemKeeps
  <2>3. open' \in Seq({"channel", "property", "value"})
    <3>1. Len(open) \in Nat \ {0}
      BY <1>1, <1>3 DEF TypeOK, End
    <3> QED BY <1>1, <1>3, <3>1 DEF TypeOK, End
  <2>4. TypeOK'
    BY <1>1, <2>1, <2>2, <2>3 DEF TypeOK, ReaderInv
  <2> QED BY <1>1, <2>1, <2>2, <2>4 DEF FileInv
<1>4. ASSUME NextFile PROVE FileInv'
  <2>1. reader \in Reader /\ base \in Trees /\ files \in 1..(SystemFiles + 1)
    BY <1>1, <1>4, ContentsAssumption DEF TypeOK, NextFile, Loaded
  <2>2. TreeInv(reader.tree, reader.locked, IsSystem, base)
    BY <1>1 DEF ReaderInv
  <2>3. TreeInv(reader.tree, reader.locked, IsSystem', base')
    <3>1. CASE files > 2
      BY <1>1, <1>4, <2>2, <3>1 DEF NextFile, IsSystem, TreeInv
    <3>2. CASE files = 2
      <4>1. IsSystem /\ ~IsSystem' /\ base' = reader.tree
        BY <1>4, <3>2 DEF NextFile, IsSystem
      <4>2. Respects(reader.tree, reader.tree)
        BY <2>2, <4>1 DEF TreeInv, Respects
      <4> QED BY <2>2, <4>1, <4>2 DEF TreeInv
    <3>3. CASE files = 1
      BY <1>4, <2>2, <3>3 DEF NextFile, IsSystem
    <3> QED BY <2>1, <3>1, <3>2, <3>3, ContentsAssumption
  <2>4. reader' = FreshParser(reader)
    BY <1>4 DEF NextFile
  <2>5. ReaderInv(reader', IsSystem', base') /\ reader'.locked = reader.locked
    BY <2>1, <2>3, <2>4, FreshKeeps
  <2>6. TypeOK'
    <3>1. files' \in 0..(SystemFiles + 1)
      BY <1>4, <2>1, ContentsAssumption DEF NextFile
    <3>2. base' \in Trees
      BY <1>4, <2>1 DEF NextFile, Reader
    <3> QED BY <1>1, <1>4, <2>5, <3>1, <3>2 DEF TypeOK, NextFile, ReaderInv
  <2>7. files' = 1 => ~reader.locked
    BY <1>4, <2>1, ContentsAssumption DEF NextFile
  <2> QED BY <2>5, <2>6, <2>7 DEF FileInv
<1>5. ASSUME UNCHANGED vars PROVE FileInv'
  BY <1>1, <1>5 DEF vars, FileInv, TypeOK, IsSystem
<1> QED BY <1>2, <1>3, <1>4, <1>5 DEF Next

LEMMA FileInvariant == Spec => []FileInv
  BY FileInit, FileNext, PTL DEF Spec

\* The parser, the files and the channel have their types throughout, however
\* the elements of the files follow each other.
THEOREM FileTypeCorrect == Spec => []TypeOK
<1>1. FileInv => TypeOK
  BY DEF FileInv
<1> QED BY <1>1, FileInvariant, PTL

\* Whatever the user file says and wherever it breaks off, the defaults and
\* locks stay those of the system files, and locked properties unset
\* (esconf_xml_handle_property).
THEOREM UserFilesRespectAdmin == Spec => []UserFileRespectsAdmin
<1>1. FileInv => UserFileRespectsAdmin
  BY DEF FileInv, ReaderInv, TreeInv, Respects, UserFileRespectsAdmin
<1> QED BY <1>1, FileInvariant, PTL

\* Every property of a channel that a system file locks is locked itself,
\* those of earlier and later files included (esconf_xml_handle_channel).
THEOREM LockedChannelsLockAll == Spec => []LockedChannelLocksAll
<1>1. FileInv => LockedChannelLocksAll
  BY DEF FileInv, ReaderInv, TreeInv, LockedChannelLocksAll
<1> QED BY <1>1, FileInvariant, PTL

\* Array values are only ever added to an array that encloses them
\* (esconf_xml_handle_value).
THEOREM ListsAreOpenArrays == Spec => []ListIsOpenArray
<1>1. FileInv => ListIsOpenArray
  BY DEF FileInv, ReaderInv, ListOpen, ListIsOpenArray
<1> QED BY <1>1, FileInvariant, PTL

-----------------------------------------------------------------------------
(* Saving a channel and reading it back *)

\* The properties that are in the file as far as it is written, and whose
\* elements are still open.
Open(p) == at # <<>> /\ (p = at \/ Above(p, at))

\* The first n values of an array, as a file keeps them.
Part(v, n) == [i \in 1..n |-> Rewritten[v[i]]]

\* What the parser has made of a value of which n values are written.
CopiedValue(v, n) == IF IsArray(v) THEN Part(v, n) ELSE RewrittenValue(v)

\* What it has made of a property: what the system files say, until the
\* element begins.
Copied(p) ==
    IF written[p] = 0 THEN base[p]
    ELSE [memory[p] EXCEPT !.value = CopiedValue(@, written[p] - 1)]

SaveTypes ==
    /\ saving \in {"no", "writing", "failed", "done"}
    /\ memory \in Trees /\ WellFormed(memory)
    /\ at \in Paths \cup {<<>>}
    /\ written \in [Paths -> Nat]

\* The tree of the system files holds nothing of the user's.
BaseInv == WellFormed(base) /\ \A p \in Paths : base[p] # NoNode => base[p].value = NoValue

\* What is in the file: the element of a property holds its array values and,
\* once it has ended, everything below it.
FileSoFar ==
    \A p \in Paths :
        /\ Open(p) => written[p] > 0
        /\ written[p] > 0 =>
               /\ memory[p] # NoNode /\ memory[p].value \notin Unwritable
               /\ written[p] <= 1 + Len(ArrayValues(p))
               /\ p # at => ValuesWritten(p)
               /\ ~Open(p) => \A q \in Paths : Above(p, q) /\ memory[q] # NoNode => written[q] > 0

\* What the parser has made of it.
CopyInv ==
    /\ again.ok /\ ~again.locked /\ again.tree = [p \in Paths |-> Copied(p)]
    /\ again \in Reader

\* Where it is.
PlaceInv ==
    /\ again.path = at
    /\ again.elem = IF at = <<>> THEN "channel" ELSE "property"
    /\ ~ValuesWritten(at) => again.list = at

\* Everything there is, and nothing else, is in the file.
Everything ==
    \A p \in Paths :
        /\ memory[p] = NoNode => written[p] = 0
        /\ memory[p] # NoNode => written[p] > 0 /\ ValuesWritten(p)

SaveInv ==
    /\ SaveTypes /\ BaseInv
    /\ saving = "no" => at = <<>> /\ written = [p \in Paths |-> 0]
    /\ saving # "no" => Loaded /\ Respects(memory, base)
    /\ saving = "writing" => FileSoFar /\ CopyInv /\ PlaceInv
    /\ saving = "done" => Everything /\ CopyInv

LEMMA SaveSteps == [SaveNext]_allVars => [Next]_vars
  BY DEF SaveNext, Saving, FlushChannel, WriteNode, WriteArrayValue, EndNode, DiskError, allVars

LEMMA SaveHasFileInv == SaveSpec => []FileInv
<1>1. SaveInit => Init
  BY DEF SaveInit
<1> QED BY <1>1, SaveSteps, FileInit, FileNext, PTL DEF SaveSpec

\* The user's tree and what is left of the tree of the system files.
LEMMA FileTrees ==
    ASSUME FileInv
    PROVE  /\ reader \in Reader /\ reader.tree \in Trees /\ WellFormed(reader.tree)
           /\ base \in Trees
           /\ Loaded => Respects(reader.tree, base)
  BY DEF FileInv, TypeOK, ReaderInv, TreeInv, Loaded, IsSystem

LEMMA BaseStep ==
    ASSUME FileInv, BaseInv, [Next]_vars PROVE BaseInv'
<1>1. CASE NextFile
  <2>1. CASE IsSystem
    <3>1. base' = reader.tree
      BY <1>1, <2>1 DEF NextFile
    <3>2. TreeInv(reader.tree, reader.locked, IsSystem, base)
      BY DEF FileInv, ReaderInv
    <3> QED BY <2>1, <3>1, <3>2 DEF TreeInv, BaseInv
  <2>2. CASE ~IsSystem
    BY <1>1, <2>2 DEF NextFile, BaseInv
  <2> QED BY <2>1, <2>2
<1>2. CASE ~NextFile
  <2>1. base' = base
    BY <1>2 DEF Next, Start, End, vars
  <2> QED BY <2>1 DEF BaseInv
<1> QED BY <1>1, <1>2

-----------------------------------------------------------------------------
(* A property and its children *)

\* A child is named by its parent and one component more.
LEMMA ChildName ==
    ASSUME NEW p \in Paths \cup {<<>>}, NEW q \in Paths, Above(p, q), Len(q) = Len(p) + 1
    PROVE  /\ q = Append(p, q[Len(q)]) /\ q[Len(q)] \in Names
           /\ q # p /\ (p # <<>> => p \in Paths)
<1>1. q \in Seq(Names) /\ p \in Seq(Names) /\ Len(q) \in Nat /\ Len(p) \in Nat
  BY PathsAreSequences, PathsAssumption, EmptySeq
<1>2. q[Len(q)] \in Names
  BY <1>1
<1> DEFINE a == Append(p, q[Len(q)])
<1>3. a \in Seq(Names) /\ Len(a) = Len(p) + 1 /\ a[Len(p) + 1] = q[Len(q)]
      /\ \A i \in 1..Len(p) : a[i] = p[i]
  BY <1>1, <1>2, AppendProperties
<1>4. \A i \in 1..Len(q) : a[i] = q[i]
  BY <1>1, <1>3 DEF Above
<1> HIDE DEF a
<1>5. a = q
  BY <1>1, <1>3, <1>4, SeqEqual
<1>6. q # p
  BY <1>1
<1> QED BY <1>2, <1>5, <1>6 DEF a

\* The way from a property, or from the root, to one below it begins with a child.
LEMMA ChildOnTheWay ==
    ASSUME NEW p \in Paths \cup {<<>>}, NEW q \in Paths, Above(p, q)
    PROVE  \E c \in Paths : /\ Above(p, c) /\ Len(c) = Len(p) + 1
                            /\ (c = q \/ Above(c, q))
<1> DEFINE n == Len(p) + 1
           c == SubSeq(q, 1, n)
<1>1. q \in Seq(Names) /\ p \in Seq(Names) /\ Len(q) \in Nat /\ Len(p) \in Nat
  BY PathsAreSequences, PathsAssumption, EmptySeq
<1>2. n \in 1..Len(q)
  BY <1>1 DEF Above
<1>3. c \in Paths
  BY <1>2, PathsAssumption
<1>4. c \in Seq(Names) /\ Len(c) = n /\ \A i \in 1..n : c[i] = q[i]
  BY <1>1, <1>2
<1>5. Above(p, c)
  BY <1>1, <1>4 DEF Above
<1>6. c = q \/ Above(c, q)
  <2>1. CASE n = Len(q)
    <3>1. c = q
      BY <1>1, <1>4, <2>1, SeqEqual
    <3> QED BY <3>1
  <2>2. CASE n # Len(q)
    BY <1>1, <1>2, <1>4, <2>2 DEF Above
  <2> QED BY <2>1, <2>2
<1> HIDE DEF c
<1> QED BY <1>3, <1>4, <1>5, <1>6 DEF n

\* The parent of a property, which its end leads back to.
LEMMA ParentName ==
    ASSUME NEW p \in Paths
    PROVE  LET up == SubSeq(p, 1, Len(p) - 1)
           IN  /\ up \in Paths \cup {<<>>} /\ up # p
               /\ up # <<>> => Above(up, p)
               /\ \A q \in Paths : Above(q, p) => up # <<>> /\ (q = up \/ Above(q, up))
<1> DEFINE up == SubSeq(p, 1, Len(p) - 1)
<1>1. p \in Seq(Names) /\ Len(p) \in Nat /\ Len(p) > 0
  BY PathsAreSequences
<1>2. up = <<>> \/ (up \in Paths /\ Above(up, p))
  BY UpAbove
<1>3. up \in Seq(Names) /\ Len(up) = Len(p) - 1 /\ \A i \in 1..Len(up) : up[i] = p[i]
  BY <1>1, SubSeqProperties
<1>4. up # p
  BY <1>1, <1>3
<1>5. ASSUME NEW q \in Paths, Above(q, p) PROVE up # <<>> /\ (q = up \/ Above(q, up))
  <2>1. q \in Seq(Names) /\ Len(q) \in Nat /\ Len(q) > 0
    BY PathsAreSequences
  <2>2. Len(q) <= Len(up) /\ \A i \in 1..Len(q) : q[i] = up[i]
    BY <1>1, <1>3, <1>5, <2>1 DEF Above
  <2>3. up # <<>>
    BY <1>3, <2>1, <2>2
  <2>4. CASE Len(q) = Len(up)
    BY <1>3, <2>1, <2>2, <2>3, <2>4, SeqEqual
  <2>5. CASE Len(q) # Len(up)
    BY <1>1, <1>3, <2>1, <2>2, <2>3, <2>5 DEF Above
  <2> QED BY <2>4, <2>5
<1> HIDE DEF up
<1>6. up \in Paths \cup {<<>>} /\ up # p /\ (up # <<>> => Above(up, p))
  BY <1>2, <1>4
<1> QED BY <1>5, <1>6 DEF up

-----------------------------------------------------------------------------
(* What the parser makes of a tag *)

LEMMA NodesEqual ==
    ASSUME NEW m \in Node, NEW n \in Node,
           m.value = n.value, m.sys = n.sys, m.locked = n.locked
    PROVE  m = n
  BY DEF Node

\* From r to s, a parser reads the begin of q in a user file, with the content c.
BeginRead(r, s, q, c) ==
    /\ s \in Reader /\ s.ok /\ ~s.locked /\ s.elem = "property" /\ s.path = q
    /\ \A p \in Paths \ {q} : s.tree[p] = r.tree[p]
    /\ Skipped(r, FALSE, q) => s.tree[q] = r.tree[q]
    /\ ~Skipped(r, FALSE, q) =>
           /\ s.tree[q] = IF r.tree[q] = NoNode THEN NewNode(c)
                          ELSE [r.tree[q] EXCEPT !.value = c]
           /\ c = <<>> => s.list = q

\* A tag that locks nothing is read.
LEMMA PropertyRead ==
    ASSUME NEW r \in Reader, r.ok, ~r.locked, r.elem \in {"channel", "property"},
           NEW n \in Names, NEW q \in Paths, q = Append(r.path, n),
           \A a \in Paths : Above(a, q) => r.tree[a] # NoNode,
           NEW c \in Scalars \cup {<<>>, NoValue},
           NEW s, s = ReadStart(r, PropertyElement(n, c))
    PROVE  BeginRead(r, s, q, c)
<1> DEFINE e == PropertyElement(n, c)
           cleared == Cleared(r, FALSE, q)
           u == WithContent(cleared, FALSE, q, c)
           l == IF c = <<>> THEN q ELSE r.list
<1>1. /\ e.elem = "property" /\ e.name = n /\ e.content = c /\ ~HasLock(e.lock)
      /\ c # BadType /\ c # Unparsable /\ c \in Values \cup {NoValue}
  BY ContentsAssumption, WriterAssumption DEF PropertyElement, HasLock, NoLock
<1>2. /\ r.tree \in Trees /\ r.list \in Paths \cup {NoArray}
      /\ r.locked \in BOOLEAN /\ r.ok \in BOOLEAN
  BY DEF Reader
<1>3. s = HandleProperty(r, FALSE, e)
  BY <1>1 DEF ReadStart, StartElem
<1>4. CASE Skipped(r, FALSE, q)
  <2>1. s = [r EXCEPT !.elem = "property", !.path = q]
    BY <1>1, <1>3, <1>4 DEF HandleProperty
  <2> QED BY <1>4, <2>1 DEF Reader, BeginRead
<1>5. CASE ~Skipped(r, FALSE, q)
  <2>1. s = [r EXCEPT !.elem = "property", !.path = q, !.tree = u, !.list = l]
    BY <1>1, <1>2, <1>3, <1>5 DEF HandleProperty, LockedBy, Reader
  <2>2. /\ u \in Trees
        /\ \A p \in Paths \ {q} : u[p] = r.tree[p]
        /\ u[q] = IF r.tree[q] = NoNode THEN NewNode(c)
                  ELSE [r.tree[q] EXCEPT !.value = c]
    <3>1. CASE r.tree[q] = NoNode
      <4> DEFINE new(v) == [p \in Paths |-> IF p = q THEN NewNode(v) ELSE r.tree[p]]
      <4>1. AddProperty(r.tree, q, NoValue) = new(NoValue)
        BY <3>1 DEF AddProperty
      <4>2. cleared = [new(NoValue) EXCEPT ![q].locked = FALSE]
        BY <1>2, <3>1, <4>1 DEF Cleared
      <4>3. cleared = new(NoValue)
        BY <4>2 DEF NewNode
      <4>4. u = [new(NoValue) EXCEPT ![q].value = c]
        BY <4>3 DEF WithContent
      <4>5. u = new(c)
        BY <4>4 DEF NewNode
      <4>6. NewNode(c) \in Node
        BY <1>1, NewNodeType
      <4> QED BY <1>2, <3>1, <4>5, <4>6 DEF Trees
    <3>2. CASE r.tree[q] # NoNode
      <4> DEFINE m == [r.tree[q] EXCEPT !.value = c]
      <4>1. r.tree[q] \in Node
        BY <1>2, <3>2 DEF Trees
      <4>2. m \in Node
        BY <1>1, <4>1 DEF Node
      <4>3. cleared = [r.tree EXCEPT ![q] = [r.tree[q] EXCEPT !.value = NoValue]]
        BY <1>2, <3>2, <4>1 DEF Cleared, Trees, Node
      <4>4. u = [r.tree EXCEPT ![q] = m]
        BY <1>2, <4>1, <4>3 DEF WithContent, Trees, Node
      <4> QED BY <1>2, <3>2, <4>2, <4>4 DEF Trees
    <3> QED BY <3>1, <3>2
  <2>3. l \in Paths \cup {NoArray} /\ (c = <<>> => l = q)
    BY <1>2
  <2> HIDE DEF u, l
  <2>4. s \in Reader /\ s.ok /\ ~s.locked /\ s.elem = "property" /\ s.path = q
        /\ s.tree = u /\ s.list = l
    BY <1>2, <2>1, <2>2, <2>3 DEF Reader
  <2> QED BY <1>5, <2>2, <2>3, <2>4 DEF BeginRead
<1> QED BY <1>4, <1>5

\* The array of p becomes v, and nothing else changes.
ValueAdded(r, s, p, v) == s = [r EXCEPT !.tree = [r.tree EXCEPT ![p].value = v]]

\* An array value, from its begin to its end.
LEMMA ValueRead ==
    ASSUME NEW r \in Reader, r.ok, r.elem = "property",
           NEW p \in Paths, r.list = p, r.tree[p] # NoNode,
           NEW c \in Scalars, Append(r.tree[p].value, Rewritten[c]) \in Values,
           NEW s, s = ReadEnd(ReadStart(r, ValueElement(c)))
    PROVE  ValueAdded(r, s, p, Append(r.tree[p].value, Rewritten[c]))
<1> DEFINE e == ValueElement(c)
           u == [r.tree EXCEPT ![p].value = Append(r.tree[p].value, Rewritten[c])]
           w == [r EXCEPT !.tree = u, !.elem = "value"]
<1>1. e.elem = "value" /\ e.content \in Scalars /\ e.content = Rewritten[c]
  BY WriterAssumption DEF ValueElement
<1>2. p # NoArray /\ r.tree \in Trees /\ r.tree[p] \in Node
  BY SentinelsApart DEF Reader, Trees
<1>3. ReadStart(r, e) = HandleValue(r, FALSE, e)
  BY <1>1, <1>2 DEF ReadStart, StartElem
<1>4. WithContent(r.tree, FALSE, p, Append(r.tree[p].value, Rewritten[c])) = u
  BY <1>2 DEF WithContent, Trees, Node
<1>5. HandleValue(r, FALSE, e) = w
  BY <1>1, <1>4 DEF HandleValue, ListValue, Reader
<1> HIDE DEF u
<1>6. w.ok /\ w.elem = "value"
  BY DEF Reader
<1>7. s = [w EXCEPT !.elem = "property"]
  BY <1>3, <1>5, <1>6 DEF ReadEnd, EndElem
<1>8. s = [r EXCEPT !.tree = u]
  BY <1>7 DEF Reader
<1> QED BY <1>8 DEF u, ValueAdded

-----------------------------------------------------------------------------
(* What was read so far *)

LEMMA PartGrows ==
    ASSUME NEW v \in Seq(Scalars), NEW k \in 1..Len(v)
    PROVE  Append(Part(v, k - 1), Rewritten[v[k]]) = Part(v, k)
<1> DEFINE a == Append(Part(v, k - 1), Rewritten[v[k]])
<1>1. \A i \in 1..k : Rewritten[v[i]] \in Scalars
  BY WriterAssumption
<1>2. Part(v, k - 1) \in Seq(Scalars) /\ Len(Part(v, k - 1)) = k - 1
  BY <1>1 DEF Part
<1>3. Part(v, k) \in Seq(Scalars) /\ Len(Part(v, k)) = k
  BY <1>1 DEF Part
<1>4. a \in Seq(Scalars) /\ Len(a) = k
      /\ \A i \in 1..k : a[i] = Rewritten[v[i]]
  BY <1>1, <1>2, AppendProperties DEF Part
<1>5. \A i \in 1..k : Part(v, k)[i] = Rewritten[v[i]]
  BY DEF Part
<1> HIDE DEF a
<1>6. a = Part(v, k)
  BY <1>3, <1>4, <1>5, SeqEqual
<1> QED BY <1>6 DEF a

LEMMA ArraysAreSequences ==
    ASSUME NEW v \in Values \cup {NoValue}, IsArray(v)
    PROVE  v \in Seq(Scalars) /\ v \in Values \ Scalars /\ v \notin Unwritable
  BY ContentsAssumption, WriterAssumption DEF IsArray

LEMMA CopiedValueType ==
    ASSUME NEW v \in Values \cup {NoValue}, NEW n \in Nat, IsArray(v) => n <= Len(v)
    PROVE  CopiedValue(v, n) \in Values \cup {NoValue}
<1>1. CASE IsArray(v)
  <2>1. v \in Values \ Scalars /\ Len(v) \in Nat /\ n \in 0..Len(v)
    BY <1>1, ArraysAreSequences
  <2>2. Part(v, n) \in Values
    BY <2>1, WriterAssumption DEF Part
  <2> QED BY <1>1, <2>2 DEF CopiedValue
<1>2. CASE ~IsArray(v) /\ v = NoValue
  BY <1>2 DEF CopiedValue, RewrittenValue
<1>3. CASE ~IsArray(v) /\ v # NoValue
  <2>1. v \in Scalars
    BY <1>3 DEF IsArray
  <2>2. Rewritten[v] \in Values
    BY <2>1, ContentsAssumption, WriterAssumption
  <2> QED BY <1>3, <2>2 DEF CopiedValue, RewrittenValue
<1> QED BY <1>1, <1>2, <1>3

\* What is in the file so far of p, once its element has begun.
LEMMA CopiedNode ==
    ASSUME SaveTypes, FileSoFar, NEW p \in Paths, written[p] > 0
    PROVE  /\ memory[p] \in Node /\ memory[p] # NoNode
           /\ Copied(p) \in Node /\ Copied(p) # NoNode
           /\ Copied(p).value = CopiedValue(memory[p].value, written[p] - 1)
           /\ Copied(p).sys = memory[p].sys /\ Copied(p).locked = memory[p].locked
<1>1. memory[p] \in Node /\ memory[p] # NoNode /\ written[p] \in Nat
  BY DEF SaveTypes, FileSoFar, Trees
<1>2. memory[p].value \in Values \cup {NoValue}
  BY <1>1 DEF Node
<1> DEFINE v == memory[p].value
           c == CopiedValue(v, written[p] - 1)
<1>3. IsArray(v) => written[p] - 1 <= Len(v)
  <2>1. SUFFICES ASSUME IsArray(v) PROVE written[p] - 1 <= Len(v)
    OBVIOUS
  <2>2. ArrayValues(p) = v /\ Len(v) \in Nat
    BY <1>2, <2>1, PathsAreSequences, ArraysAreSequences DEF ArrayValues
  <2> QED BY <1>1, <2>2 DEF FileSoFar
<1>4. c \in Values \cup {NoValue}
  BY <1>1, <1>2, <1>3, CopiedValueType
<1>5. Copied(p) = [memory[p] EXCEPT !.value = c]
  BY <1>1 DEF Copied
<1> HIDE DEF c
<1>6. /\ Copied(p) \in Node /\ Copied(p).value = c
      /\ Copied(p).sys = memory[p].sys /\ Copied(p).locked = memory[p].locked
  BY <1>1, <1>4, <1>5 DEF Node
<1> QED BY <1>1, <1>6, SentinelAssumption DEF c

\* The elements that are open hold a child of the innermost one.
LEMMA OpenAboveChild ==
    ASSUME SaveTypes, NEW q \in Paths, Above(at, q), Len(q) = Len(at) + 1,
           NEW a \in Paths, Above(a, q)
    PROVE  Open(a)
<1>1. at \in Paths \cup {<<>>}
  BY DEF SaveTypes
<1>2. q = Append(at, q[Len(q)]) /\ q[Len(q)] \in Names
  BY <1>1, ChildName
<1> DEFINE n == q[Len(q)]
<1> HIDE DEF n
<1>3. n \in Names /\ Append(at, n) \in Paths /\ Above(a, Append(at, n))
  BY <1>2 DEF n
<1>4. at \in Paths /\ (a = at \/ Above(a, at))
  BY <1>1, <1>3, AboveChild
<1> QED BY <1>4, PathsAreSequences DEF Open

LEMMA FlushStep == ASSUME FileInv, SaveInv, FlushChannel PROVE SaveInv'
<1>1. /\ saving = "no" /\ saving' = "writing" /\ Loaded /\ Loaded' /\ ~reader.locked
      /\ memory' = reader.tree /\ at' = at /\ written' = written /\ base' = base
  BY DEF FlushChannel, vars, Loaded
<1>2. at = <<>> /\ written = [p \in Paths |-> 0] /\ BaseInv
  BY <1>1 DEF SaveInv
<1>3. /\ reader \in Reader /\ reader.tree \in Trees /\ WellFormed(reader.tree)
      /\ base \in Trees /\ Respects(reader.tree, base)
  BY <1>1, FileTrees
<1>4. SaveTypes'
  BY <1>1, <1>2, <1>3 DEF SaveTypes, WellFormed
<1>5. BaseInv'
  BY <1>1, <1>2 DEF BaseInv, WellFormed
<1>6. Respects(memory', base')
  BY <1>1, <1>3
<1>7. /\ again' \in Reader /\ again'.ok /\ ~again'.locked /\ again'.tree = base
      /\ again'.elem = "channel" /\ again'.path = <<>>
  <2> DEFINE g == [reader EXCEPT !.tree = base]
             f == FreshParser(g)
  <2>1. g \in Reader /\ g.tree = base /\ ~g.locked
    BY <1>1, <1>3 DEF Reader
  <2> HIDE DEF g
  <2>2. /\ f \in Reader /\ f.ok /\ ~f.locked /\ f.tree = base
        /\ f.elem = "none" /\ f.path = <<>>
    BY <2>1 DEF FreshParser, Reader
  <2>3. again' = ReadStart(f, ChannelElement)
    BY DEF FlushChannel, g
  <2> HIDE DEF f
  <2>4. again' = HandleChannel(f, FALSE, ChannelElement)
    BY <2>2, <2>3 DEF ReadStart, StartElem, ChannelElement
  <2>5. again' = [f EXCEPT !.elem = "channel"]
    BY <2>4 DEF HandleChannel, ChannelElement, NoLock, HasLock, Locks
  <2> QED BY <2>2, <2>5 DEF Reader
<1>8. CopyInv'
  <2>1. base = [p \in Paths |-> base[p]]
    BY <1>3 DEF Trees
  <2>2. \A p \in Paths : Copied(p)' = base[p]
    BY <1>1, <1>2 DEF Copied
  <2>3. again'.tree = [p \in Paths |-> Copied(p)']
    BY <1>7, <2>1, <2>2
  <2> QED BY <1>7, <2>3 DEF CopyInv
<1>9. PlaceInv'
  BY <1>1, <1>2, <1>7 DEF PlaceInv, ValuesWritten
<1>10. FileSoFar'
  BY <1>1, <1>2 DEF FileSoFar, Open
<1> QED BY <1>1, <1>4, <1>5, <1>6, <1>8, <1>9, <1>10 DEF SaveInv

LEMMA NodeStep == ASSUME FileInv, SaveInv, NEW q \in Paths, WriteNode(q) PROVE SaveInv'
<1> DEFINE v == memory[q].value
           n == q[Len(q)]
           c == CopiedValue(AfterTag(v), 0)
<1>1. /\ saving = "writing" /\ saving' = "writing" /\ Loaded /\ Loaded'
      /\ at' = q /\ base' = base /\ written' = [written EXCEPT ![q] = 1]
      /\ memory' = [memory EXCEPT ![q].value = AfterTag(@)]
      /\ again' = ReadStart(again, Tag(n, v))
      /\ written[q] = 0 /\ ValuesWritten(at)
      /\ Above(at, q) /\ Len(q) = Len(at) + 1 /\ memory[q] # NoNode
  BY DEF WriteNode, Children, MayDescend, SaveInv, vars, Loaded
<1>2. /\ SaveTypes /\ BaseInv /\ FileSoFar /\ CopyInv /\ PlaceInv
      /\ Respects(memory, base) /\ base \in Trees
  BY <1>1, FileTrees DEF SaveInv
<1>3. /\ memory \in Trees /\ memory[q] \in Node /\ at \in Paths \cup {<<>>}
      /\ written \in [Paths -> Nat] /\ WellFormed(memory)
      /\ v \in Values \cup {NoValue}
  BY <1>1, <1>2 DEF SaveTypes, Trees, Node
<1>4. q = Append(at, n) /\ n \in Names /\ q # at
  BY <1>1, <1>3, ChildName
\* The tag as it is printed, and what is then left in memory.
<1>5. /\ AfterTag(v) \in Values \cup {NoValue} /\ AfterTag(v) \notin Unwritable
      /\ v = NoValue => AfterTag(v) = NoValue
  BY <1>3, ContentsAssumption, WriterAssumption, SentinelsApart DEF AfterTag
<1>6. Tag(n, v) = PropertyElement(n, c) /\ c \in Scalars \cup {<<>>, NoValue}
  <2>1. CASE v \in Unwritable \cup {NoValue}
    <3>1. AfterTag(v) = NoValue /\ Tag(n, v) = PropertyElement(n, NoValue)
      BY <2>1 DEF AfterTag, Tag
    <3>2. c = NoValue
      BY <3>1 DEF CopiedValue, RewrittenValue, IsArray
    <3> QED BY <3>1, <3>2
  <2>2. CASE v \notin Unwritable \cup {NoValue} /\ IsArray(v)
    <3>1. AfterTag(v) = v /\ Tag(n, v) = PropertyElement(n, <<>>)
      BY <2>2 DEF AfterTag, Tag
    <3>2. c = <<>>
      BY <2>2, <3>1 DEF CopiedValue, Part
    <3> QED BY <3>1, <3>2
  <2>3. CASE v \notin Unwritable \cup {NoValue} /\ ~IsArray(v)
    <3>1. AfterTag(v) = v /\ Tag(n, v) = PropertyElement(n, Rewritten[v])
      BY <2>3 DEF AfterTag, Tag
    <3>2. c = Rewritten[v] /\ v \in Scalars
      BY <2>3, <3>1 DEF CopiedValue, RewrittenValue, IsArray
    <3> QED BY <3>1, <3>2, WriterAssumption
  <2> QED BY <2>1, <2>2, <2>3
<1>7. /\ memory' \in Trees /\ memory'[q] \in Node /\ memory'[q] # NoNode
      /\ memory'[q].value = AfterTag(v)
      /\ memory'[q].sys = memory[q].sys /\ memory'[q].locked = memory[q].locked
      /\ \A p \in Paths \ {q} : memory'[p] = memory[p]
  <2> DEFINE m == [memory[q] EXCEPT !.value = AfterTag(v)]
  <2>1. m \in Node /\ m.value = AfterTag(v) /\ m.sys = memory[q].sys
        /\ m.locked = memory[q].locked
    BY <1>3, <1>5 DEF Node
  <2>2. memory' = [memory EXCEPT ![q] = m]
    BY <1>1
  <2> HIDE DEF m
  <2> QED BY <1>3, <2>1, <2>2, SentinelAssumption DEF Trees
<1>8. /\ written' \in [Paths -> Nat] /\ written'[q] = 1
      /\ \A p \in Paths \ {q} : written'[p] = written[p]
  BY <1>1, <1>3
<1>9. \A p \in Paths : memory'[p] = NoNode <=> memory[p] = NoNode
  BY <1>1, <1>7
<1> HIDE DEF v, n, c
<1>10. SaveTypes'
  BY <1>1, <1>3, <1>7, <1>8, <1>9 DEF SaveTypes, WellFormed
<1>11. Respects(memory', base')
  <2>1. base[q] # NoNode /\ base[q].locked => AfterTag(v) = NoValue
    BY <1>2, <1>5 DEF Respects, v
  <2> QED BY <1>1, <1>2, <1>7, <1>9, <2>1 DEF Respects
<1>12. BaseInv'
  BY <1>1, <1>2 DEF BaseInv, WellFormed
<1>13. /\ again \in Reader /\ again.ok /\ ~again.locked
       /\ again.elem \in {"channel", "property"} /\ again.path = at
       /\ \A p \in Paths : again.tree[p] = Copied(p)
       /\ again.tree[q] = base[q]
  BY <1>1, <1>2 DEF CopyInv, PlaceInv, Copied
<1>14. \A a \in Paths : Above(a, q) => again.tree[a] # NoNode
  <2> SUFFICES ASSUME NEW a \in Paths, Above(a, q) PROVE again.tree[a] # NoNode
    OBVIOUS
  <2>1. written[a] > 0
    BY <1>1, <1>2, OpenAboveChild DEF FileSoFar
  <2> QED BY <1>2, <1>13, <2>1, CopiedNode
<1>15. BeginRead(again, again', q, c)
  <2>1. again' = ReadStart(again, PropertyElement(n, c)) /\ c \in Scalars \cup {<<>>, NoValue}
    BY <1>1, <1>6
  <2>2. n \in Names /\ q = Append(again.path, n)
    BY <1>4, <1>13
  <2> QED BY <1>13, <1>14, <2>1, <2>2, PropertyRead
<1>16. c \in Values \cup {NoValue} /\ (AfterTag(v) = NoValue => c = NoValue)
  BY <1>6, ContentsAssumption DEF c, CopiedValue, RewrittenValue, IsArray
<1>17. again'.tree[q] = [memory'[q] EXCEPT !.value = c]
  <2> DEFINE m == [memory'[q] EXCEPT !.value = c]
  <2>1. m \in Node /\ m.value = c /\ m.sys = memory[q].sys /\ m.locked = memory[q].locked
    BY <1>7, <1>16 DEF Node
  <2> HIDE DEF m
  <2>2. CASE base[q] = NoNode
    <3>1. again'.tree[q] = NewNode(c)
      BY <1>13, <1>15, <2>2 DEF BeginRead, Skipped
    <3>2. m.sys = NoValue /\ m.locked = FALSE
      BY <1>1, <1>2, <2>1, <2>2 DEF Respects, Node
    <3>3. NewNode(c) \in Node
      BY <1>16, NewNodeType
    <3>4. NewNode(c) = m
      BY <2>1, <3>2, <3>3, NodesEqual DEF NewNode
    <3> QED BY <3>1, <3>4 DEF m
  <2>3. CASE base[q] # NoNode /\ ~base[q].locked
    <3>1. base[q] \in Node /\ base[q].sys = m.sys /\ base[q].locked = m.locked
      BY <1>1, <1>2, <2>1, <2>3 DEF Respects, Trees
    <3> DEFINE k == [base[q] EXCEPT !.value = c]
    <3>2. again'.tree[q] = k
      BY <1>13, <1>15, <2>3 DEF BeginRead, Skipped
    <3>3. k \in Node /\ k.value = c /\ k.sys = m.sys /\ k.locked = m.locked
      BY <1>16, <3>1 DEF Node
    <3> HIDE DEF k
    <3>4. k = m
      BY <2>1, <3>3, NodesEqual
    <3> QED BY <3>2, <3>4 DEF m
  <2>4. CASE base[q] # NoNode /\ base[q].locked
    <3>1. /\ base[q] \in Node /\ base[q].sys = m.sys /\ base[q].locked = m.locked
          /\ base[q].value = NoValue /\ v = NoValue
      BY <1>1, <1>2, <2>1, <2>4 DEF Respects, Trees, BaseInv, v
    <3>2. again'.tree[q] = base[q]
      BY <1>13, <1>15, <2>4 DEF BeginRead, Skipped
    <3>3. c = NoValue
      BY <1>5, <1>16, <3>1
    <3>4. base[q] = m
      BY <2>1, <3>1, <3>3, NodesEqual
    <3> QED BY <3>2, <3>4 DEF m
  <2> QED BY <2>2, <2>3, <2>4
<1>18. CopyInv'
  <2>1. \A p \in Paths : again'.tree[p] = Copied(p)'
    <3>1. SUFFICES ASSUME NEW p \in Paths PROVE again'.tree[p] = Copied(p)'
      OBVIOUS
    <3>2. CASE p = q
      BY <1>7, <1>8, <1>17, <3>2 DEF Copied, c
    <3>3. CASE p # q
      BY <1>1, <1>7, <1>8, <1>13, <1>15, <3>3 DEF Copied, BeginRead
    <3> QED BY <3>2, <3>3
  <2>2. again'.tree = [p \in Paths |-> Copied(p)']
    BY <1>15, <2>1 DEF BeginRead, Reader, Trees
  <2> QED BY <1>15, <2>2 DEF BeginRead, CopyInv
<1>19. \A p \in Paths \ {q} : ArrayValues(p)' = ArrayValues(p)
  BY <1>7 DEF ArrayValues
<1>20. Len(ArrayValues(q)') \in Nat /\ (Len(ArrayValues(q)') > 0 => IsArray(AfterTag(v)))
  BY <1>5, <1>7, ArraysAreSequences DEF ArrayValues
<1>21. PlaceInv'
  <2>1. ASSUME ~ValuesWritten(at)' PROVE again'.list = q
    <3>1. IsArray(AfterTag(v))
      BY <1>1, <1>8, <1>20, <2>1 DEF ValuesWritten
    <3>2. c = <<>>
      BY <3>1 DEF c, CopiedValue, Part
    <3>3. AfterTag(v) # NoValue /\ v # NoValue
      BY <1>5, <3>1 DEF IsArray
    <3>4. ~Skipped(again, FALSE, q)
      BY <1>2, <1>13, <3>3 DEF Skipped, Respects, v
    <3> QED BY <1>15, <3>2, <3>4 DEF BeginRead
  <2> QED BY <1>1, <1>15, <2>1, PathsAreSequences DEF BeginRead, PlaceInv
<1>22. \A p \in Paths : Open(p)' <=> p = q \/ Open(p)
  <2>1. SUFFICES ASSUME NEW p \in Paths PROVE Open(p)' <=> p = q \/ Open(p)
    OBVIOUS
  <2>2. Open(p)' <=> p = q \/ Above(p, q)
    BY <1>1, PathsAreSequences DEF Open
  <2>3. Above(p, q) => Open(p)
    BY <1>1, <1>2, OpenAboveChild
  <2>4. Open(p) => Above(p, q)
    BY <1>1, <1>3, AboveTransitive DEF Open
  <2> QED BY <2>2, <2>3, <2>4
<1>23. FileSoFar'
  <2>1. SUFFICES ASSUME NEW p \in Paths
        PROVE  /\ Open(p)' => written'[p] > 0
               /\ written'[p] > 0 =>
                    /\ memory'[p] # NoNode /\ memory'[p].value \notin Unwritable
                    /\ written'[p] <= 1 + Len(ArrayValues(p)')
                    /\ p # at' => ValuesWritten(p)'
                    /\ ~Open(p)' => \A r \in Paths :
                           Above(p, r) /\ memory'[r] # NoNode => written'[r] > 0
    BY DEF FileSoFar
  <2>2. CASE p = q
    BY <1>1, <1>5, <1>7, <1>8, <1>20, <1>22, <2>2
  <2>3. CASE p # q
    <3>1. written'[p] = written[p] /\ memory'[p] = memory[p]
          /\ ArrayValues(p)' = ArrayValues(p) /\ (Open(p)' <=> Open(p))
      BY <1>7, <1>8, <1>19, <1>22, <2>3
    <3>2. \A r \in Paths : written[r] > 0 => written'[r] > 0
      BY <1>8
    <3>3. ValuesWritten(p)' <=> ValuesWritten(p)
      BY <3>1 DEF ValuesWritten
    <3> QED BY <1>1, <1>2, <1>9, <3>1, <3>2, <3>3 DEF FileSoFar
  <2> QED BY <2>2, <2>3
<1> QED BY <1>1, <1>10, <1>11, <1>12, <1>18, <1>21, <1>23 DEF SaveInv

LEMMA ValueStep == ASSUME FileInv, SaveInv, WriteArrayValue PROVE SaveInv'
<1>1. /\ saving = "writing" /\ Loaded /\ Loaded' /\ ~ValuesWritten(at)
      /\ at' = at /\ base' = base /\ memory' = memory
      /\ saving' \in {"failed", "writing"}
  BY DEF WriteArrayValue, SaveInv, vars, Loaded
<1>2. /\ SaveTypes /\ BaseInv /\ FileSoFar /\ CopyInv /\ PlaceInv
      /\ Respects(memory, base)
  BY <1>1 DEF SaveInv
<1> DEFINE v == memory[at].value
           k == written[at]
<1>3. /\ at \in Paths /\ at # <<>> /\ Open(at) /\ k > 0 /\ k \in Nat
      /\ memory[at] \in Node /\ memory[at] # NoNode /\ v \in Values \cup {NoValue}
  BY <1>1, <1>2 DEF SaveTypes, ValuesWritten, Open, FileSoFar, Trees, Node
<1>4. ArrayValues(at) = v /\ IsArray(v) /\ k \in 1..Len(v) /\ v \in Seq(Scalars)
  <2>1. IsArray(v)
    BY <1>1, <1>2, <1>3 DEF ValuesWritten, ArrayValues, FileSoFar
  <2>2. ArrayValues(at) = v /\ v \in Seq(Scalars)
    BY <1>3, <2>1, ArraysAreSequences DEF ArrayValues
  <2> QED BY <1>1, <1>2, <1>3, <2>1, <2>2 DEF ValuesWritten, FileSoFar
<1>5. BaseInv' /\ Respects(memory', base')
  BY <1>1, <1>2 DEF BaseInv, WellFormed
<1>6. CASE saving' = "failed"
  <2>1. written' = written
    BY <1>1, <1>6 DEF WriteArrayValue
  <2>2. SaveTypes'
    BY <1>1, <1>2, <1>6, <2>1 DEF SaveTypes, WellFormed
  <2> QED BY <1>1, <1>5, <1>6, <2>2 DEF SaveInv
<1>7. CASE saving' = "writing"
  <2> DEFINE c == v[k]
  <2>1. /\ c \in Scalars
        /\ again' = ReadEnd(ReadStart(again, ValueElement(c)))
        /\ written' = [written EXCEPT ![at] = @ + 1]
    BY <1>4, <1>7 DEF WriteArrayValue
  <2>2. /\ written' \in [Paths -> Nat] /\ written'[at] = k + 1
        /\ \A p \in Paths \ {at} : written'[p] = written[p]
    BY <1>2, <1>3, <2>1 DEF SaveTypes
  <2>3. SaveTypes'
    BY <1>1, <1>2, <1>7, <2>2 DEF SaveTypes, WellFormed
  <2>4. /\ again \in Reader /\ again.ok /\ ~again.locked /\ again.path = at
        /\ again.elem = "property" /\ again.list = at
        /\ again.tree \in Trees /\ \A p \in Paths : again.tree[p] = Copied(p)
    BY <1>1, <1>2, <1>3 DEF CopyInv, PlaceInv, Reader
  <2>5. /\ again.tree[at] \in Node /\ again.tree[at] # NoNode
        /\ again.tree[at].value = Part(v, k - 1)
        /\ again.tree[at].sys = memory[at].sys /\ again.tree[at].locked = memory[at].locked
    BY <1>2, <1>3, <1>4, <2>4, CopiedNode DEF CopiedValue
  <2>6. Append(again.tree[at].value, Rewritten[c]) = Part(v, k)
    BY <1>4, <2>5, PartGrows
  <2>7. Part(v, k) \in Values
    <3>1. v \in Values \ Scalars /\ k \in 0..Len(v)
      BY <1>3, <1>4, ArraysAreSequences
    <3> QED BY <3>1, WriterAssumption DEF Part
  <2> DEFINE u == [again.tree EXCEPT ![at].value = Part(v, k)]
             m == [again.tree[at] EXCEPT !.value = Part(v, k)]
  <2> HIDE DEF v, k, c
  <2>8. ValueAdded(again, again', at, Append(again.tree[at].value, Rewritten[c]))
    <3>1. Append(again.tree[at].value, Rewritten[c]) \in Values
      BY <2>6, <2>7
    <3> QED BY <1>3, <2>1, <2>4, <2>5, <3>1, ValueRead
  <2>9. again' = [again EXCEPT !.tree = u]
    BY <2>6, <2>8 DEF ValueAdded
  <2>10. m \in Node /\ m.value = Part(v, k) /\ m.sys = memory[at].sys
         /\ m.locked = memory[at].locked
    BY <2>5, <2>7 DEF Node
  <2>11. u \in Trees /\ u[at] = m /\ \A p \in Paths \ {at} : u[p] = again.tree[p]
    BY <1>3, <2>4, <2>10 DEF Trees
  <2> HIDE DEF u, m
  <2>12. /\ again' \in Reader /\ again'.ok /\ ~again'.locked /\ again'.tree = u
         /\ again'.path = at /\ again'.elem = "property" /\ again'.list = at
    BY <2>4, <2>9, <2>11 DEF Reader
  <2>13. CopyInv'
    <3>1. ASSUME NEW p \in Paths, p = at PROVE m = Copied(p)'
      <4> DEFINE w == [memory[at] EXCEPT !.value = Part(v, k)]
      <4>1. Copied(p)' = w
        BY <1>1, <1>3, <1>4, <2>2, <3>1 DEF Copied, CopiedValue, v
      <4>2. /\ w \in Node /\ w.value = Part(v, k) /\ w.sys = memory[at].sys
            /\ w.locked = memory[at].locked
        BY <1>3, <2>7 DEF Node
      <4> HIDE DEF w
      <4> QED BY <2>10, <4>1, <4>2, NodesEqual
    <3>2. \A p \in Paths \ {at} : again.tree[p] = Copied(p)'
      BY <1>1, <2>2, <2>4 DEF Copied
    <3>3. u = [p \in Paths |-> Copied(p)']
      BY <2>11, <3>1, <3>2 DEF Trees
    <3> QED BY <2>12, <3>3 DEF CopyInv
  <2>14. PlaceInv'
    BY <1>1, <1>3, <2>12 DEF PlaceInv
  <2>15. \A p \in Paths : ArrayValues(p)' = ArrayValues(p) /\ (Open(p)' <=> Open(p))
    BY <1>1 DEF ArrayValues, Open
  <2>16. FileSoFar'
    <3>1. \A p \in Paths : written[p] > 0 <=> written'[p] > 0
      BY <1>3, <2>2 DEF k
    <3>2. \A p \in Paths \ {at} : ValuesWritten(p)' <=> ValuesWritten(p)
      BY <2>2, <2>15 DEF ValuesWritten
    <3>3. \A p \in Paths : p = at => written'[p] <= 1 + Len(ArrayValues(p)')
      BY <1>3, <1>4, <2>2, <2>15 DEF k, v
    <3> QED BY <1>1, <1>2, <2>2, <2>15, <3>1, <3>2, <3>3 DEF FileSoFar
  <2> QED BY <1>1, <1>5, <1>7, <2>3, <2>13, <2>14, <2>16 DEF SaveInv
<1> QED BY <1>1, <1>6, <1>7

LEMMA EndStep == ASSUME FileInv, SaveInv, EndNode PROVE SaveInv'
<1>1. /\ saving = "writing" /\ Loaded /\ Loaded' /\ ValuesWritten(at)
      /\ base' = base /\ memory' = memory /\ written' = written
      /\ \A q \in Children(at) : written[q] > 0
      /\ again' = ReadEnd(again)
  BY DEF EndNode, SaveInv, vars, Loaded
<1>2. /\ SaveTypes /\ BaseInv /\ FileSoFar /\ CopyInv /\ PlaceInv
      /\ Respects(memory, base) /\ WellFormed(memory) /\ at \in Paths \cup {<<>>}
  BY <1>1 DEF SaveInv, SaveTypes
<1>3. BaseInv' /\ Respects(memory', base')
  BY <1>1, <1>2 DEF BaseInv, WellFormed
<1>4. /\ again \in Reader /\ again.ok /\ ~again.locked /\ again.path = at
      /\ again.elem = IF at = <<>> THEN "channel" ELSE "property"
  BY <1>2 DEF CopyInv, PlaceInv
<1>5. again' = EndElem(again)
  BY <1>1, <1>4 DEF ReadEnd
\* What is below the property that ends was all written, from its children down.
<1>6. ASSUME NEW q \in Paths, Above(at, q), memory[q] # NoNode PROVE written[q] > 0
  <2>1. PICK c \in Paths : /\ Above(at, c) /\ Len(c) = Len(at) + 1
                           /\ (c = q \/ Above(c, q))
    BY <1>2, <1>6, ChildOnTheWay
  <2>2. memory[c] # NoNode
    BY <1>2, <1>6, <2>1 DEF WellFormed
  <2>3. written[c] > 0
    BY <1>1, <2>1, <2>2 DEF Children
  <2>4. ~Open(c)
    <3>1. Len(at) \in Nat
      BY <1>2, PathsAssumption, EmptySeq
    <3> QED BY <2>1, <3>1 DEF Open, Above
  <2> QED BY <1>2, <1>6, <2>1, <2>3, <2>4 DEF FileSoFar
<1>7. \A p \in Paths : Copied(p)' = Copied(p) /\ ArrayValues(p)' = ArrayValues(p)
  BY <1>1 DEF Copied, ArrayValues
<1>8. \A p \in Paths : ValuesWritten(p)' = ValuesWritten(p)
  BY <1>1, <1>7 DEF ValuesWritten
<1>9. CASE at = <<>>
  <2>1. saving' = "done" /\ at' = at
    BY <1>9 DEF EndNode
  <2>2. SaveTypes'
    BY <1>1, <1>2, <2>1 DEF SaveTypes, WellFormed
  <2>3. again' = [again EXCEPT !.elem = "none", !.path = <<>>]
    BY <1>4, <1>5, <1>9 DEF EndElem
  <2>4. again' \in Reader /\ again'.ok /\ ~again'.locked /\ again'.tree = again.tree
    BY <1>4, <2>3 DEF Reader
  <2>5. CopyInv'
    BY <1>2, <1>7, <2>4 DEF CopyInv
  <2>6. Everything'
    <3>1. \A p \in Paths : memory[p] = NoNode => written[p] = 0
      BY <1>2 DEF FileSoFar, SaveTypes
    <3>2. SUFFICES ASSUME NEW p \in Paths, memory[p] # NoNode
                   PROVE  written[p] > 0 /\ ValuesWritten(p)
      BY <1>1, <1>8, <3>1 DEF Everything
    <3>3. Above(at, p)
      BY <1>9, PathsAreSequences DEF Above
    <3>4. written[p] > 0 /\ p # at
      BY <1>6, <1>9, <3>2, <3>3, PathsAreSequences
    <3> QED BY <1>2, <3>4 DEF FileSoFar
  <2> QED BY <1>1, <1>3, <2>1, <2>2, <2>5, <2>6 DEF SaveInv
<1>10. CASE at # <<>>
  <2> DEFINE up == SubSeq(at, 1, Len(at) - 1)
  <2>1. at \in Paths /\ saving' = "writing" /\ at' = up
    BY <1>1, <1>2, <1>10 DEF EndNode
  <2>2. again' = [again EXCEPT !.elem = IF up = <<>> THEN "channel" ELSE "property",
                               !.path = up, !.list = NoArray]
    BY <1>4, <1>5, <1>10 DEF EndElem
  <2>3. /\ up \in Paths \cup {<<>>} /\ up # at
        /\ up # <<>> => Above(up, at)
        /\ \A q \in Paths : Above(q, at) => up # <<>> /\ (q = up \/ Above(q, up))
    BY <2>1, ParentName
  <2> HIDE DEF up
  <2>4. SaveTypes'
    BY <1>1, <1>2, <2>1, <2>3 DEF SaveTypes, WellFormed
  <2>5. /\ again' \in Reader /\ again'.ok /\ ~again'.locked /\ again'.tree = again.tree
        /\ again'.path = up /\ again'.elem = IF up = <<>> THEN "channel" ELSE "property"
    BY <1>4, <2>2, <2>3 DEF Reader
  <2>6. CopyInv'
    BY <1>2, <1>7, <2>5 DEF CopyInv
  <2>7. \A p \in Paths : Open(p)' <=> Open(p) /\ p # at
    <3>1. SUFFICES ASSUME NEW p \in Paths PROVE Open(p)' <=> Open(p) /\ p # at
      OBVIOUS
    <3>2. Open(p)' <=> up # <<>> /\ (p = up \/ Above(p, up))
      BY <2>1 DEF Open
    <3>3. Open(p) /\ p # at <=> Above(p, at)
      BY <2>1, <1>10, AboveIrreflexive DEF Open
    <3>4. up # <<>> /\ (p = up \/ Above(p, up)) => Above(p, at)
      BY <2>1, <2>3, AboveTransitive
    <3> QED BY <2>3, <3>2, <3>3, <3>4
  <2>8. up # <<>> => ValuesWritten(up)
    <3>1. up # <<>> => up \in Paths /\ Open(up) /\ up # at
      BY <1>10, <2>3 DEF Open
    <3> QED BY <1>2, <3>1 DEF FileSoFar
  <2>9. PlaceInv'
    <3>1. ValuesWritten(at)'
      <4>1. CASE up = <<>>
        BY <2>1, <4>1 DEF ValuesWritten
      <4>2. CASE up # <<>>
        BY <1>1, <2>1, <2>8, <4>2 DEF ValuesWritten, ArrayValues
      <4> QED BY <4>1, <4>2
    <3> QED BY <2>1, <2>5, <3>1 DEF PlaceInv
  <2>10. FileSoFar'
    <3>1. SUFFICES ASSUME NEW p \in Paths
          PROVE  /\ Open(p)' => written[p] > 0
                 /\ written[p] > 0 =>
                      /\ memory[p] # NoNode /\ memory[p].value \notin Unwritable
                      /\ written[p] <= 1 + Len(ArrayValues(p))
                      /\ p # up => ValuesWritten(p)
                      /\ ~Open(p)' => \A r \in Paths :
                             Above(p, r) /\ memory[r] # NoNode => written[r] > 0
      BY <1>1, <1>7, <1>8, <2>1 DEF FileSoFar
    <3>2. CASE p = at
      BY <1>1, <1>2, <1>6, <2>7, <3>2 DEF FileSoFar
    <3>3. CASE p # at
      BY <1>2, <2>7, <3>3 DEF FileSoFar
    <3> QED BY <3>2, <3>3
  <2> QED BY <1>1, <1>3, <2>1, <2>4, <2>6, <2>9, <2>10 DEF SaveInv
<1> QED BY <1>9, <1>10

LEMMA ErrorStep == ASSUME FileInv, SaveInv, DiskError PROVE SaveInv'
<1>1. /\ saving = "writing" /\ saving' = "failed" /\ Loaded /\ Loaded' /\ base' = base
      /\ memory' = memory /\ at' = at /\ written' = written
  BY DEF DiskError, SaveInv, vars, Loaded
<1>2. SaveTypes' /\ BaseInv' /\ Respects(memory', base')
  BY <1>1 DEF SaveInv, SaveTypes, BaseInv, WellFormed
<1> QED BY <1>1, <1>2 DEF SaveInv

\* No file of the channel is read any more once it is saved.
LEMMA ReadStep == ASSUME FileInv, SaveInv, [Next]_vars, UNCHANGED saveVars PROVE SaveInv'
<1>1. /\ saving' = saving /\ memory' = memory /\ at' = at
      /\ written' = written /\ again' = again
  BY DEF saveVars
<1>2. BaseInv'
  BY BaseStep DEF SaveInv
<1>3. SaveTypes'
  BY <1>1 DEF SaveInv, SaveTypes, WellFormed
<1>4. CASE saving = "no"
  BY <1>1, <1>2, <1>3, <1>4 DEF SaveInv
<1>5. CASE saving # "no"
  <2>1. Loaded
    BY <1>5 DEF SaveInv
  <2>2. UNCHANGED vars
    BY <2>1 DEF Next, Start, End, NextFile
  <2>3. base' = base /\ Loaded'
    BY <2>1, <2>2 DEF vars, Loaded
  <2>4. \A p \in Paths : /\ Copied(p)' = Copied(p) /\ ArrayValues(p)' = ArrayValues(p)
                        /\ (Open(p)' <=> Open(p))
    BY <1>1, <2>3 DEF Copied, ArrayValues, Open
  <2>5. ValuesWritten(at)' = ValuesWritten(at)
        /\ \A p \in Paths : ValuesWritten(p)' = ValuesWritten(p)
    BY <1>1 DEF ValuesWritten, ArrayValues
  <2>6. FileSoFar => FileSoFar'
    BY <1>1, <2>4, <2>5 DEF FileSoFar
  <2>7. CopyInv => CopyInv'
    BY <1>1, <2>4 DEF CopyInv
  <2>8. PlaceInv => PlaceInv'
    BY <1>1, <2>5 DEF PlaceInv
  <2>9. Everything => Everything'
    BY <1>1, <2>5 DEF Everything
  <2>10. Respects(memory, base) => Respects(memory', base')
    BY <1>1, <2>3
  <2> QED
    BY <1>1, <1>2, <1>3, <1>5, <2>3, <2>6, <2>7, <2>8, <2>9, <2>10 DEF SaveInv
<1> QED BY <1>4, <1>5

LEMMA SaveInitially == SaveInit => SaveInv
<1> SUFFICES ASSUME SaveInit PROVE SaveInv
  OBVIOUS
<1>1. EmptyTree \in Trees /\ \A p \in Paths : EmptyTree[p] = NoNode
  BY DEF EmptyTree, Trees
<1>2. base = EmptyTree /\ memory = EmptyTree /\ at = <<>>
      /\ written = [p \in Paths |-> 0] /\ saving = "no"
  BY DEF SaveInit, Init
<1>3. SaveTypes
  BY <1>1, <1>2 DEF SaveTypes, WellFormed
<1>4. BaseInv
  BY <1>1, <1>2 DEF BaseInv, WellFormed
<1> QED BY <1>2, <1>3, <1>4 DEF SaveInv

LEMMA SaveSteady == FileInv /\ SaveInv /\ [SaveNext]_allVars => SaveInv'
<1> SUFFICES ASSUME FileInv, SaveInv, [SaveNext]_allVars PROVE SaveInv'
  OBVIOUS
<1>1. CASE FlushChannel
  BY <1>1, FlushStep
<1>2. CASE \E q \in Paths : WriteNode(q)
  BY <1>2, NodeStep
<1>3. CASE WriteArrayValue
  BY <1>3, ValueStep
<1>4. CASE EndNode
  BY <1>4, EndStep
<1>5. CASE DiskError
  BY <1>5, ErrorStep
<1>6. CASE Next /\ UNCHANGED saveVars
  BY <1>6, ReadStep
<1>7. CASE UNCHANGED allVars
  BY <1>7, ReadStep DEF allVars
<1> QED BY <1>1, <1>2, <1>3, <1>4, <1>5, <1>6, <1>7 DEF SaveNext, Saving

\* Saving a channel changes nothing of how its files were read: what the
\* theorems above say of reading holds while channels are saved, too.
THEOREM SavingOnlyReads == SaveSpec => Spec
<1>1. SaveInit => Init
  BY DEF SaveInit
<1> QED BY <1>1, SaveSteps, PTL DEF SaveSpec, Spec

\* Whatever was read - from files with errors, locks and arrays in arrays - a
\* file that was written to its end reads back: it parses to its end, and gives
\* every property its value and lock (flush_channel and write_node against the
\* handlers of the parser).
THEOREM SavedFilesReadBack == SaveSpec => []SavedFileReadsBack
<1>1. SaveInv => SavedFileReadsBack
  <2> SUFFICES ASSUME SaveInv, saving = "done"
               PROVE  /\ again.ok
                      /\ \A p \in Paths :
                            /\ memory[p] = NoNode <=> again.tree[p] = NoNode
                            /\ memory[p] # NoNode =>
                                  again.tree[p] =
                                      [memory[p] EXCEPT !.value = RewrittenValue(@)]
    BY DEF SavedFileReadsBack
  <2>1. Everything /\ CopyInv /\ SaveTypes /\ Respects(memory, base)
    BY DEF SaveInv
  <2>2. ASSUME NEW p \in Paths, memory[p] = NoNode PROVE again.tree[p] = NoNode
    <3>1. base[p] = NoNode
      BY <2>1, <2>2 DEF Respects
    <3>2. written[p] = 0
      BY <2>1, <2>2 DEF Everything
    <3> QED BY <2>1, <3>1, <3>2 DEF CopyInv, Copied
  <2>3. ASSUME NEW p \in Paths, memory[p] # NoNode
        PROVE  /\ again.tree[p] = [memory[p] EXCEPT !.value = RewrittenValue(@)]
               /\ again.tree[p] # NoNode
    <3> DEFINE v == memory[p].value
    <3>1. written[p] > 0 /\ ValuesWritten(p) /\ v \in Values \cup {NoValue}
      BY <2>1, <2>3 DEF Everything, SaveTypes, Trees, Node
    <3>2. /\ CopiedValue(v, written[p] - 1) = RewrittenValue(v)
          /\ IsArray(v) => written[p] - 1 <= Len(v)
      <4>1. CASE IsArray(v)
        <5>1. v \in Seq(Scalars) /\ v # NoValue /\ ArrayValues(p) = v
          BY <3>1, <4>1, ArraysAreSequences, PathsAreSequences DEF ArrayValues, IsArray
        <5>2. written[p] - 1 = Len(v) /\ DOMAIN v = 1..Len(v)
          BY <3>1, <5>1, PathsAreSequences DEF ValuesWritten
        <5> QED BY <4>1, <5>1, <5>2 DEF CopiedValue, RewrittenValue, Part
      <4>2. CASE ~IsArray(v)
        BY <4>2 DEF CopiedValue
      <4> QED BY <4>1, <4>2
    <3>3. again.tree[p] = [memory[p] EXCEPT !.value = RewrittenValue(v)]
      BY <2>1, <3>1, <3>2 DEF CopyInv, Copied
    <3>4. RewrittenValue(v) \in Values \cup {NoValue}
      <4>1. written[p] - 1 \in Nat
        BY <2>1, <3>1 DEF SaveTypes
      <4> QED BY <3>1, <3>2, <4>1, CopiedValueType
    <3>5. [memory[p] EXCEPT !.value = RewrittenValue(v)] \in Node
      BY <2>1, <2>3, <3>4 DEF SaveTypes, Trees, Node
    <3> QED BY <3>3, <3>5, SentinelAssumption
  <2> QED BY <2>1, <2>2, <2>3 DEF CopyInv
<1> QED BY <1>1, SaveInitially, SaveSteady, SaveHasFileInv, PTL DEF SaveSpec
=============================================================================
