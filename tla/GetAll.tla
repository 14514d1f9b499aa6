------------------------------- MODULE GetAll -------------------------------
(***************************************************************************)
(* GetAllProperties: the walk over a channel's tree that collects what its *)
(* properties read (esconf_backend_perchannel_xml_get_all and              *)
(* esconf_proptree_node_to_hash_table).  The walk spells the names in one  *)
(* buffer: each level appends its name to it and takes it off again, so    *)
(* that a name depends on everything that was visited before.              *)
(***************************************************************************)
EXTENDS XmlBackend, SequencesExt

LOCAL Children(t, p) ==
    {q \in Paths : Above(p, q) /\ Len(q) = Len(p) + 1 /\ t[q] # NoNode}

\* Mutant of LeaveLevel: the name of a level stays in the buffer.
LeaveNothing(w) == w

\* The buffer up to its last slash.
LeaveLevel(w) == [w EXCEPT !.buffer = Front(@)]

\* esconf_proptree_node_to_hash_table for the siblings in S: what was found so
\* far and the buffer, cur_path, are handed from each to the next.  The buffer
\* is written to by a node with children only.
RECURSIVE NodesToHashTable(_, _, _)
NodesToHashTable(t, S, w) ==
    IF S = {} THEN w
    ELSE LET p == CHOOSE q \in S : TRUE
             name == Append(w.buffer, Last(p))
             value == Effective(t, p)
             found == IF value = NoValue THEN w.found ELSE w.found \cup {<<name, value>>}
             below == NodesToHashTable(t, Children(t, p), [found |-> found, buffer |-> name])
         IN  NodesToHashTable(t, S \ {p}, IF Children(t, p) = {} THEN [w EXCEPT !.found = found]
                                          ELSE LeaveLevel(below))

\* get_all of base, <<>> being the whole channel: an error if there is no node.
GetAllFound(c, base) == base = <<>> \/ Obtain(c).tree[base] # NoNode
GetAllValues(c, base) ==
    LET t == Obtain(c).tree
        walk == IF base = <<>>
                THEN NodesToHashTable(t, Children(t, base), [found |-> {}, buffer |-> base])
                ELSE NodesToHashTable(t, {base}, [found |-> {}, buffer |-> Front(base)])
    IN  walk.found

-----------------------------------------------------------------------------
(* Correctness *)

\* The listing of a channel, or of a part of it, names exactly the properties
\* that exist there, each by its own name and with the value a single call gets:
\* whatever the shape of the tree, the walk loses none and the buffer is back
\* where it was when the next sibling is visited.
RepliesAgree ==
    \A c \in ChannelNames, base \in Paths \cup {<<>>} :
        GetAllFound(c, base) =>
            GetAllValues(c, base) =
                {<<p, GetValue(c, p)>> : p \in {q \in Under(base) : PropertyExists(c, q)}}
=============================================================================
