--------------------------- MODULE PropTreeProofs ---------------------------
(***************************************************************************)
(* What the operations on a property tree preserve, for any set of names:  *)
(* the type of a tree, the emptiness of locked properties, and what the    *)
(* system files gave.                                                      *)
(***************************************************************************)
EXTENDS PropTree, TLAPS

-----------------------------------------------------------------------------
(* Names *)

\* "Above" is a strict order on property names.
LEMMA AboveTransitive ==
    ASSUME NEW p \in Paths, NEW q \in Paths, NEW r \in Paths,
           Above(p, q), Above(q, r)
    PROVE  Above(p, r)
<1>1. Len(p) \in Nat /\ Len(q) \in Nat /\ Len(r) \in Nat
  BY PathsAssumption
<1>2. Len(p) < Len(r)
  BY <1>1 DEF Above
<1>3. ASSUME NEW i \in 1..Len(p) PROVE p[i] = r[i]
  <2>1. i \in 1..Len(q)
    BY <1>1 DEF Above
  <2> QED BY <2>1 DEF Above
<1> QED BY <1>2, <1>3 DEF Above

LEMMA AboveIrreflexive == ASSUME NEW p \in Paths PROVE ~Above(p, p)
  BY PathsAssumption DEF Above

-----------------------------------------------------------------------------
(* Types *)

LEMMA NewNodeType ==
    ASSUME NEW v \in Values \cup {NoValue}
    PROVE  NewNode(v) \in Node /\ NewNode(v) # NoNode
<1>1. NewNode(v) \in Node
  BY DEF NewNode, Node
<1> QED BY <1>1, SentinelAssumption

LEMMA AddPropertyType ==
    ASSUME NEW t \in Trees, NEW p \in Paths, NEW v \in Values \cup {NoValue}
    PROVE  AddProperty(t, p, v) \in Trees
<1>1. NewNode(v) \in Node /\ NewNode(NoValue) \in Node
  BY NewNodeType
<1> QED BY <1>1 DEF AddProperty, Trees

LEMMA WithValueType ==
    ASSUME NEW t \in Trees, NEW p \in Paths, NEW v \in Values
    PROVE  WithValue(t, p, v) \in Trees
<1>1. CASE t[p] = NoNode
  BY <1>1, AddPropertyType DEF WithValue
<1>2. CASE t[p] # NoNode
  <2>1. t[p] \in Node
    BY <1>2 DEF Trees
  <2>2. [t[p] EXCEPT !.value = v] \in Node
    BY <2>1 DEF Node
  <2> QED BY <1>2, <2>2 DEF WithValue, Trees
<1> QED BY <1>1, <1>2

LEMMA UnsetNodeType ==
    ASSUME NEW n \in Node
    PROVE  [n EXCEPT !.value = NoValue] \in Node
  BY DEF Node

LEMMA UnsetValuesType ==
    ASSUME NEW t \in Trees, NEW S PROVE UnsetValues(t, S) \in Trees
<1>1. ASSUME NEW q \in Paths, t[q] # NoNode
      PROVE  [t[q] EXCEPT !.value = NoValue] \in Node
  BY <1>1, UnsetNodeType DEF Trees
<1> QED BY <1>1 DEF UnsetValues, Trees

LEMMA ResetPropType ==
    ASSUME NEW t \in Trees, NEW p \in Paths, t[p] # NoNode
    PROVE  ResetProp(t, p) \in Trees
<1>1. [t[p] EXCEPT !.value = NoValue] \in Node
  BY UnsetNodeType DEF Trees
<1> QED BY <1>1 DEF ResetProp, Trees

LEMMA CleanUpType ==
    ASSUME NEW t \in Trees, NEW S PROVE CleanUp(t, S) \in Trees
  BY DEF CleanUp, Trees

-----------------------------------------------------------------------------
(* Locks *)

LEMMA WithValueLocked ==
    ASSUME NEW t \in Trees, NEW p \in Paths, NEW v \in Values,
           LockedUnset(t), ~(t[p] # NoNode /\ t[p].locked)
    PROVE  LockedUnset(WithValue(t, p, v))
<1>1. CASE t[p] = NoNode
  BY <1>1 DEF WithValue, AddProperty, NewNode, LockedUnset
<1>2. CASE t[p] # NoNode
  <2>1. t[p] \in Node
    BY <1>2 DEF Trees
  <2>2. [t[p] EXCEPT !.value = v].locked = t[p].locked
    BY <2>1 DEF Node
  <2> QED BY <1>2, <2>2 DEF WithValue, LockedUnset, Trees
<1> QED BY <1>1, <1>2

LEMMA UnsetValuesLocked ==
    ASSUME NEW t \in Trees, NEW S, LockedUnset(t)
    PROVE  LockedUnset(UnsetValues(t, S))
<1>1. ASSUME NEW q \in Paths, t[q] # NoNode
      PROVE  [t[q] EXCEPT !.value = NoValue].value = NoValue
  BY <1>1 DEF Trees, Node
<1> QED BY <1>1 DEF UnsetValues, LockedUnset

LEMMA ResetPropLocked ==
    ASSUME NEW t \in Trees, NEW p \in Paths, t[p] # NoNode, LockedUnset(t)
    PROVE  LockedUnset(ResetProp(t, p))
<1>1. [t[p] EXCEPT !.value = NoValue].value = NoValue
  BY DEF Trees, Node
<1> QED BY <1>1 DEF ResetProp, LockedUnset, Trees

LEMMA CleanUpLocked ==
    ASSUME NEW t \in Trees, NEW S, LockedUnset(t)
    PROVE  LockedUnset(CleanUp(t, S))
  BY DEF CleanUp, LockedUnset

-----------------------------------------------------------------------------
(* System values *)

\* Every property with a system value keeps its node, that value and its lock.
KeepsSystem(t, u) ==
    \A p \in Paths : t[p] # NoNode /\ t[p].sys # NoValue =>
        u[p] # NoNode /\ u[p].sys = t[p].sys /\ u[p].locked = t[p].locked

\* A change of the user value of a node leaves the rest of it.
LEMMA UserValueKeepsSystem ==
    ASSUME NEW n \in Node, NEW v \in Values \cup {NoValue}
    PROVE  LET m == [n EXCEPT !.value = v]
           IN  m # NoNode /\ m.sys = n.sys /\ m.locked = n.locked
<1> DEFINE m == [n EXCEPT !.value = v]
<1>1. m \in Node /\ m.sys = n.sys /\ m.locked = n.locked
  BY DEF Node
<1>2. m # NoNode
  BY <1>1, SentinelAssumption
<1> QED BY <1>1, <1>2

LEMMA WithValueKeepsSystem ==
    ASSUME NEW t \in Trees, NEW p \in Paths, NEW v \in Values
    PROVE  KeepsSystem(t, WithValue(t, p, v))
<1>1. CASE t[p] = NoNode
  BY <1>1 DEF WithValue, AddProperty, KeepsSystem
<1>2. CASE t[p] # NoNode
  <2> DEFINE m == [t[p] EXCEPT !.value = v]
  <2>1. m # NoNode /\ m.sys = t[p].sys /\ m.locked = t[p].locked
    BY <1>2, UserValueKeepsSystem DEF Trees
  <2>2. \A q \in Paths : WithValue(t, p, v)[q] = IF q = p THEN m ELSE t[q]
    BY <1>2 DEF WithValue, Trees
  <2> QED BY <2>1, <2>2 DEF KeepsSystem
<1> QED BY <1>1, <1>2

LEMMA UnsetValuesKeepsSystem ==
    ASSUME NEW t \in Trees, NEW S PROVE KeepsSystem(t, UnsetValues(t, S))
<1>1. ASSUME NEW q \in Paths, t[q] # NoNode
      PROVE  LET m == [t[q] EXCEPT !.value = NoValue]
             IN  m # NoNode /\ m.sys = t[q].sys /\ m.locked = t[q].locked
  BY <1>1, UserValueKeepsSystem DEF Trees
<1> QED BY <1>1 DEF UnsetValues, KeepsSystem

LEMMA ResetPropKeepsSystem ==
    ASSUME NEW t \in Trees, NEW p \in Paths, t[p] # NoNode
    PROVE  KeepsSystem(t, ResetProp(t, p))
<1>1. CASE HasChildren(t, p) \/ t[p].sys # NoValue
  <2> DEFINE m == [t[p] EXCEPT !.value = NoValue]
  <2>1. m # NoNode /\ m.sys = t[p].sys /\ m.locked = t[p].locked
    BY UserValueKeepsSystem DEF Trees
  <2>2. \A q \in Paths : ResetProp(t, p)[q] = IF q = p THEN m ELSE t[q]
    BY <1>1 DEF ResetProp, Trees
  <2> QED BY <2>1, <2>2 DEF KeepsSystem
<1>2. CASE ~(HasChildren(t, p) \/ t[p].sys # NoValue)
  <2>1. ASSUME NEW q \in PrunedWith(t, p) PROVE t[q].sys = NoValue
    BY DEF PrunedWith, Valueless
  <2> QED BY <1>2, <2>1 DEF ResetProp, KeepsSystem
<1> QED BY <1>1, <1>2

LEMMA CleanUpKeepsSystem ==
    ASSUME NEW t \in Trees, NEW S PROVE KeepsSystem(t, CleanUp(t, S))
<1>1. \A q \in Paths : q \in Under(q)
  BY DEF Under
<1> QED BY <1>1 DEF CleanUp, Valueless, KeepsSystem
=============================================================================
