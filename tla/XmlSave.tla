------------------------------ MODULE XmlSave ------------------------------
(***************************************************************************)
(* How a channel is written to its user file (flush_channel, write_node    *)
(* and esconf_format_xml_tag in esconfd/esconf-backend-perchannel-xml.c),  *)
(* and what reading that file again makes of it (module XmlFile).          *)
(*                                                                         *)
(* One step writes one tag, or one array value.  A parser for the next     *)
(* start of the daemon reads each as it is written: it reads the file from *)
(* its beginning to its end and looks neither ahead nor back, so that it   *)
(* ends where it would if it came later.                                   *)
(***************************************************************************)
EXTENDS XmlFile

CONSTANTS Unwritable,  \* scalars of a type the writer does not know
          Rewritten    \* scalar -> what it is when it is printed and parsed again

ASSUME WriterAssumption ==
    /\ Unwritable \subseteq Scalars
    /\ Rewritten \in [Scalars -> Scalars]
    /\ NoValue \notin {BadType, Unparsable}
    /\ \A v \in Values \ Scalars : \A n \in 0..Len(v) :
           [i \in 1..n |-> Rewritten[v[i]]] \in Values

VARIABLES saving,   \* "no", "writing", "failed" or "done"
          memory,   \* the tree of the channel, from when it is saved
          at,       \* the property that write_node is called for
          written,  \* property -> 0, or 1 and how many array values are written
          again     \* the parser that reads the file

saveVars == <<saving, memory, at, written, again>>
allVars == <<vars, saveVars>>

IsArray(v) == v \notin Scalars \cup {NoValue}

SaveInit ==
    /\ Init
    /\ saving = "no" /\ memory = EmptyTree /\ at = <<>>
    /\ written = [p \in Paths |-> 0]
    /\ again = NewReader

-----------------------------------------------------------------------------
(* The file *)

NoLock == [unlocked |-> NoList, locked |-> NoList]
ChannelElement == [elem |-> "channel", legal |-> TRUE, lock |-> NoLock]
PropertyElement(name, content) ==
    [elem |-> "property", name |-> name, content |-> content, lock |-> NoLock]
ValueElement(v) == [elem |-> "value", content |-> Rewritten[v]]

\* The attributes of an element, esconf_format_xml_tag: an array is opened, and
\* its values follow as elements.
Tag(name, v) ==
    IF v \in Unwritable \cup {NoValue} THEN PropertyElement(name, NoValue)
    ELSE IF IsArray(v) THEN PropertyElement(name, <<>>)
    ELSE PropertyElement(name, Rewritten[v])

\* "treating as branch": writing unsets a value of such a type in memory.
AfterTag(v) == IF v \in Unwritable THEN NoValue ELSE v

\* A parser reads the user's file, a tag at a time, until an error stops it.
ReadStart(r, e) == IF r.ok THEN StartElem(r, FALSE, e) ELSE r
ReadEnd(r) == IF r.ok THEN EndElem(r) ELSE r

-----------------------------------------------------------------------------
(* Writing it *)

Children(p) == {q \in Paths : Above(p, q) /\ Len(q) = Len(p) + 1 /\ memory[q] # NoNode}

\* The array values that an element of p contains.
ArrayValues(p) == IF p # <<>> /\ IsArray(memory[p].value) THEN memory[p].value ELSE <<>>

\* The array values of p are written.
ValuesWritten(p) == p # <<>> => written[p] = 1 + Len(ArrayValues(p))

\* Mutant of MayDescend: the array values may come after the children.
DescendAnyTime(p) == TRUE

\* An element holds its array values first, then its children.
MayDescend(p) == ValuesWritten(p)

\* esconf_backend_perchannel_xml_flush_channel opens the file.
FlushChannel ==
    /\ Loaded /\ ~reader.locked /\ saving = "no"
    /\ saving' = "writing"
    /\ memory' = reader.tree
    /\ again' = ReadStart(FreshParser([reader EXCEPT !.tree = base]), ChannelElement)
    /\ UNCHANGED <<vars, at, written>>

\* esconf_backend_perchannel_xml_write_node begins with a child.  Only values of
\* the user are written, but every node is.
WriteNode(q) ==
    /\ saving = "writing" /\ q \in Children(at) /\ written[q] = 0 /\ MayDescend(at)
    /\ memory' = [memory EXCEPT ![q].value = AfterTag(@)]
    /\ at' = q
    /\ written' = [written EXCEPT ![q] = 1]
    /\ again' = ReadStart(again, Tag(q[Len(q)], memory[q].value))
    /\ UNCHANGED <<vars, saving>>

\* The next value of an array, and all of the file is given up if it is of a
\* type that the writer does not know.
WriteArrayValue ==
    /\ saving = "writing" /\ ~ValuesWritten(at)
    /\ LET v == ArrayValues(at)[written[at]]
       IN  IF v \in Unwritable
           THEN saving' = "failed" /\ UNCHANGED <<written, again>>
           ELSE /\ again' = ReadEnd(ReadStart(again, ValueElement(v)))
                /\ written' = [written EXCEPT ![at] = @ + 1]
                /\ UNCHANGED saving
    /\ UNCHANGED <<vars, memory, at>>

\* The end of the element, once all children are written.  With that of the
\* channel the file is complete and takes the place of the old one.
EndNode ==
    /\ saving = "writing" /\ ValuesWritten(at)
    /\ \A q \in Children(at) : written[q] > 0
    /\ again' = ReadEnd(again)
    /\ IF at = <<>> THEN saving' = "done" /\ UNCHANGED at
       ELSE at' = SubSeq(at, 1, Len(at) - 1) /\ UNCHANGED saving
    /\ UNCHANGED <<vars, memory, written>>

\* Opening the file, any write, and the renaming at the end may fail: the old
\* file stays.
DiskError ==
    /\ saving = "writing"
    /\ saving' = "failed"
    /\ UNCHANGED <<vars, memory, at, written, again>>

Saving == FlushChannel \/ (\E q \in Paths : WriteNode(q)) \/ WriteArrayValue \/ EndNode
          \/ DiskError

SaveNext == (Next /\ UNCHANGED saveVars) \/ Saving

SaveSpec == SaveInit /\ [][SaveNext]_allVars

-----------------------------------------------------------------------------
(* Correctness *)

RewrittenValue(v) ==
    IF v = NoValue THEN v
    ELSE IF IsArray(v) THEN [i \in DOMAIN v |-> Rewritten[v[i]]] ELSE Rewritten[v]

\* Whatever was read - from files with errors, locks and arrays in arrays - and
\* could be saved reads back: over the same system files, the file parses to its
\* end and gives every property the user value and the lock it has in memory, up
\* to the precision of the file (write_node against the handlers).
SavedFileReadsBack ==
    saving = "done" =>
        /\ again.ok
        /\ \A p \in Paths :
              /\ memory[p] = NoNode <=> again.tree[p] = NoNode
              /\ memory[p] # NoNode =>
                    again.tree[p] = [memory[p] EXCEPT !.value = RewrittenValue(@)]
=============================================================================
