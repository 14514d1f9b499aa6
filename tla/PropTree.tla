------------------------------ MODULE PropTree ------------------------------
(***************************************************************************)
(* The property tree of one channel, as the per-channel XML backend keeps  *)
(* it: a GNode tree whose nodes are EsconfProperty records (esconfd/       *)
(* esconf-backend-perchannel-xml.c).                                       *)
(*                                                                         *)
(* A property name such as "/main/allow-editing" is the sequence of its    *)
(* components.  A tree maps every name to its node, or to NoNode where the *)
(* GNode tree has none; the root node "/" carries no property and is left  *)
(* implicit.  The order of siblings is not represented: it decides only    *)
(* the order in which a recursive reset visits them.                       *)
(***************************************************************************)
EXTENDS Naturals, Sequences

CONSTANTS Names,       \* components of property names
          ShortNames,  \* the components that are one character long
          Paths,       \* the property names in use
          Values,      \* GValues a property may hold
          NoValue,     \* a GValue that is not initialised
          NoNode       \* no node in the tree

ASSUME PathsAssumption ==
    /\ Paths \subseteq Seq(Names)
    /\ \A p \in Paths : Len(p) > 0
    /\ \A p \in Paths : \A i \in 1..Len(p) : SubSeq(p, 1, i) \in Paths

ASSUME ShortNamesAssumption == ShortNames \subseteq Names

Node == [value : Values \cup {NoValue},
         sys : Values \cup {NoValue},
         locked : BOOLEAN]

ASSUME SentinelAssumption == NoValue \notin Values /\ NoNode \notin Node

Trees == [Paths -> Node \cup {NoNode}]

-----------------------------------------------------------------------------
(* Names *)

\* p is a proper ancestor of q; <<>>, the root, is above every property.
Above(p, q) == Len(p) < Len(q) /\ \A i \in 1..Len(p) : p[i] = q[i]

\* The names of the subtree whose top is p.
Under(p) == {q \in Paths : q = p \/ Above(p, q)}

\* esconf_proptree_build_propname: the walk from a node to the root stops at
\* the first node whose name is one character long, taken for the root "/".
BuildPropname(p) ==
    LET cut == CHOOSE i \in 0..Len(p) :
                   /\ i = 0 \/ p[i] \in ShortNames
                   /\ \A j \in (i + 1)..Len(p) : p[j] \notin ShortNames
    IN  SubSeq(p, cut + 1, Len(p))

-----------------------------------------------------------------------------
(* Reading a tree *)

Valueless(n) == n.value = NoValue /\ n.sys = NoValue

\* The value a reader gets: the user's, or else the system default.
Effective(t, p) ==
    IF p \notin Paths \/ t[p] = NoNode THEN NoValue
    ELSE IF t[p].value # NoValue THEN t[p].value ELSE t[p].sys

\* node->children: in a tree, a node with a descendant has a child.
HasChildren(t, p) == \E q \in Paths : Above(p, q) /\ t[q] # NoNode

\* The names a recursive reset announces: those that hold a user value.
UserValued(t, S) == {q \in S : t[q] # NoNode /\ t[q].value # NoValue}

-----------------------------------------------------------------------------
(* Changing a tree *)

NewNode(v) == [value |-> v, sys |-> NoValue, locked |-> FALSE]

\* Mutant of AddProperty: the value is handed on to the missing ancestors.
AddPropertyFilled(t, p, v) ==
    [q \in Paths |-> IF q = p \/ (Above(q, p) /\ t[q] = NoNode) THEN NewNode(v)
                     ELSE t[q]]

\* esconf_proptree_add_property: missing ancestors are added without a value.
AddProperty(t, p, v) ==
    [q \in Paths |-> IF q = p THEN NewNode(v)
                     ELSE IF Above(q, p) /\ t[q] = NoNode THEN NewNode(NoValue)
                     ELSE t[q]]

\* The user value of p becomes v, whether or not p has a node.
WithValue(t, p, v) ==
    IF t[p] = NoNode THEN AddProperty(t, p, v) ELSE [t EXCEPT ![p].value = v]

\* nodes_do_prop_reset over the names in S.
UnsetValues(t, S) ==
    [q \in Paths |-> IF q \in S /\ t[q] # NoNode
                     THEN [t[q] EXCEPT !.value = NoValue] ELSE t[q]]

\* Mutant of PrunedWith: a parent goes whatever value it holds.
PrunedWithValues(t, p) ==
    {q \in Paths :
        /\ Above(q, p)
        /\ \A s \in Paths : Above(q, s) /\ t[s] # NoNode
                               => s = p \/ Above(s, p)}

\* The ancestors that go with p in esconf_proptree_reset: from p upwards,
\* while a node has no value and no child off the way to p.  A lock on such
\* an ancestor does not keep it.
PrunedWith(t, p) ==
    {q \in Paths :
        /\ Above(q, p)
        /\ \A r \in Paths : (r = q \/ Above(q, r)) /\ Above(r, p)
                               => Valueless(t[r])
        /\ \A s \in Paths : Above(q, s) /\ t[s] # NoNode
                               => s = p \/ Above(s, p)}

\* esconf_proptree_reset of a property that holds a user value.
ResetProp(t, p) ==
    IF HasChildren(t, p) \/ t[p].sys # NoValue
    THEN [t EXCEPT ![p].value = NoValue]
    ELSE [q \in Paths |-> IF q = p \/ q \in PrunedWith(t, p) THEN NoNode
                          ELSE t[q]]

\* nodes_clean_up in post-order: a node goes when it and everything below it
\* is valueless and unlocked.
CleanUp(t, S) ==
    [q \in Paths |->
        IF /\ q \in S
           /\ \A r \in Under(q) : t[r] = NoNode
                                  \/ (Valueless(t[r]) /\ ~t[r].locked)
        THEN NoNode ELSE t[q]]

\* A recursive reset of p.
ResetUnder(t, p) == CleanUp(UnsetValues(t, Under(p)), Under(p))

-----------------------------------------------------------------------------
(* What the rest of the backend relies on *)

\* A node's ancestors are nodes, so that a walk from the root finds it.
WellFormed(t) ==
    \A p, q \in Paths : Above(p, q) /\ t[q] # NoNode => t[p] # NoNode

\* A locked property holds no user value, so that it reads as the
\* administrator's.
LockedUnset(t) ==
    \A p \in Paths : t[p] # NoNode /\ t[p].locked => t[p].value = NoValue
=============================================================================
