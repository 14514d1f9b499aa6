------------------------------ MODULE XmlFile ------------------------------
(***************************************************************************)
(* How the per-channel XML backend reads the files of a channel (esconfd/  *)
(* esconf-backend-perchannel-xml.c): the handlers that GMarkup calls for   *)
(* each element, the merging of system files with their locks and of the   *)
(* user file, and what an error half way through a file leaves behind.     *)
(*                                                                         *)
(* GMarkup guarantees that elements nest; everything else about a file is  *)
(* the choice of whoever wrote it.  Each handler is an operator on the     *)
(* record of the parser state and of the channel under construction, so    *)
(* that a second parser can read what is saved (module XmlSave).           *)
(*                                                                         *)
(* The name of an element is one component; names with slashes in them,    *)
(* which the code does not check for, are left out.                        *)
(***************************************************************************)
EXTENDS PropTree

CONSTANTS Scalars,      \* values of any type but array
          Zero,         \* the value a GValue has when it is initialised
          BadType,      \* content: a type the code does not know
          Unparsable,   \* content: a value that is not one of its type
          NoList,       \* no lock list
          NoArray,      \* list_property is NULL
          User,         \* the user the daemon runs for
          Members,      \* group -> its members, as in /etc/group
          LockLists,    \* lock lists: sets of users and groups
          SystemFiles,  \* the number of system files of the channel
          MaxElements   \* bound on the elements of all files together

ASSUME ContentsAssumption ==
    /\ Scalars \subseteq Values /\ Values \subseteq Scalars \cup Seq(Scalars)
    /\ \A v \in Scalars : v \notin Seq(Scalars)
    /\ <<>> \in Values \ Scalars
    /\ Zero \in Scalars
    /\ BadType \notin Values /\ Unparsable \notin Values
    /\ NoArray \notin Paths /\ NoList \notin LockLists
    /\ SystemFiles \in Nat /\ MaxElements \in Nat

\* The content of a <property>: a scalar, <<>> for type="array", NoValue for
\* type="empty", or one of the two mistakes.
Contents == Scalars \cup {<<>>, NoValue, BadType, Unparsable}

LockAttr == [unlocked : LockLists \cup {NoList}, locked : LockLists \cup {NoList}]

\* legal: the attributes are known ones, those required are there, and the
\* major version is ours.
Element == [elem : {"channel"}, legal : BOOLEAN, lock : LockAttr]
    \cup [elem : {"property"}, name : Names, content : Contents, lock : LockAttr]
    \cup [elem : {"value"}, content : Contents]

\* XmlParserState and the EsconfChannel it fills: cur_elem, cur_path,
\* list_property; ok until a handler reports an error.
Reader == [tree : Trees, locked : BOOLEAN,
           elem : {"none", "channel", "property", "value"},
           path : Paths \cup {<<>>}, list : Paths \cup {NoArray}, ok : BOOLEAN]

VARIABLES reader,    \* the parser and the channel
          files,     \* files still to come, this one included; the last is the user's
          open,      \* the elements GMarkup has open
          elements,  \* how many elements there were so far
          base       \* the tree when the user file was started

vars == <<reader, files, open, elements, base>>

TypeOK ==
    /\ reader \in Reader
    /\ files \in 0..(SystemFiles + 1)
    /\ open \in Seq({"channel", "property", "value"})
    /\ elements \in 0..MaxElements
    /\ base \in Trees

IsSystem == files > 1
Loaded == files = 0

EmptyTree == [p \in Paths |-> NoNode]

-----------------------------------------------------------------------------
(* Lock lists *)

\* esconf_user_is_in_list, which looks names with an @ up in the group cache.
UserIsInList(list) ==
    \E t \in list : t = User \/ (t \in DOMAIN Members /\ User \in Members[t])

HasLock(a) == a.unlocked # NoList \/ a.locked # NoList

\* "unlocked" wins over "locked".
Locks(a) ==
    IF a.unlocked # NoList THEN ~UserIsInList(a.unlocked)
    ELSE a.locked # NoList /\ UserIsInList(a.locked)

-----------------------------------------------------------------------------
(* Handlers *)

Fail(r) == [r EXCEPT !.ok = FALSE]

\* esconf_xml_handle_channel.  The first file that locks the channel discards
\* what came before it.
HandleChannel(r, system, e) ==
    IF \/ ~e.legal
       \/ HasLock(e.lock) /\ (~system \/ (r.locked /\ ~Locks(e.lock)))
    THEN Fail(r)
    ELSE IF Locks(e.lock) /\ ~r.locked
    THEN [r EXCEPT !.tree = EmptyTree, !.locked = TRUE, !.elem = "channel"]
    ELSE [r EXCEPT !.elem = "channel"]

\* Mutant of Cleared: the user file clears the default too.
ClearedAlways(r, system, p) ==
    IF r.tree[p] = NoNode
    THEN [AddProperty(r.tree, p, NoValue) EXCEPT ![p].locked = r.locked]
    ELSE [r.tree EXCEPT ![p].value = NoValue, ![p].sys = NoValue]

\* The tree once the property's earlier value is gone, or its node added.
Cleared(r, system, p) ==
    IF r.tree[p] = NoNode
    THEN [AddProperty(r.tree, p, NoValue) EXCEPT ![p].locked = r.locked]
    ELSE [r.tree EXCEPT ![p].value = NoValue,
                        ![p].sys = IF system THEN NoValue ELSE @]

\* value_to_set of p becomes v.
WithContent(t, system, p, v) ==
    IF system THEN [t EXCEPT ![p].sys = v] ELSE [t EXCEPT ![p].value = v]

\* Mutant of LockedBy: an attribute decides in a locked channel, too.
LockedByAttribute(r, t, p, lock) ==
    IF HasLock(lock) THEN [t EXCEPT ![p].locked = Locks(lock)] ELSE t

\* A lock attribute of a <property> in a system file.
LockedBy(r, t, p, lock) ==
    IF HasLock(lock) THEN [t EXCEPT ![p].locked = r.locked \/ Locks(lock)] ELSE t

\* Mutant of Skipped: user files win over locks.
NothingSkipped(r, system, p) == FALSE

\* Someone locked p, so that what the user file says of it is skipped.
Skipped(r, system, p) ==
    ~system /\ r.tree[p] # NoNode /\ r.tree[p].locked

\* esconf_xml_handle_property: errors leave the property as far as it got, a
\* value that does not convert as the zero of its type.
HandleProperty(r, system, e) ==
    LET p == Append(r.path, e.name)
        cleared == Cleared(r, system, p)
        t == LockedBy(r, cleared, p, e.lock)
        entered == [r EXCEPT !.elem = "property", !.path = p]
    IN  IF Skipped(r, system, p) THEN entered
        ELSE IF HasLock(e.lock) /\ ~system THEN Fail([r EXCEPT !.tree = cleared])
        ELSE IF e.content = BadType THEN Fail([r EXCEPT !.tree = t])
        ELSE IF e.content = Unparsable
        THEN Fail([r EXCEPT !.tree = WithContent(t, system, p, Zero)])
        ELSE [entered EXCEPT !.tree = WithContent(t, system, p, e.content),
                             !.list = IF e.content = <<>> THEN p ELSE @]

\* What handle_value finds in list_value.
ListValue(r, system) == IF system THEN r.tree[r.list].sys ELSE r.tree[r.list].value

\* Mutant of HandleValue: the type of an array value is not checked.
HandleAnyValue(r, system, e) ==
    [r EXCEPT !.tree = WithContent(@, system, r.list,
                                   Append(ListValue(r, system), e.content)),
              !.elem = "value"]

\* esconf_xml_handle_value
HandleValue(r, system, e) ==
    IF e.content \notin Scalars THEN Fail(r)
    ELSE [r EXCEPT !.tree = WithContent(@, system, r.list,
                                        Append(ListValue(r, system), e.content)),
                   !.elem = "value"]

\* esconf_backend_perchannel_xml_start_elem
StartElem(r, system, e) ==
    CASE r.elem = "none" /\ e.elem = "channel" -> HandleChannel(r, system, e)
      [] r.elem \in {"channel", "property"} /\ e.elem = "property" ->
             HandleProperty(r, system, e)
      [] r.elem = "property" /\ e.elem = "value" /\ r.list # NoArray ->
             HandleValue(r, system, e)
      [] OTHER -> Fail(r)

\* Mutant of EndElem: the list state outlives its element.
EndElemKeepsList(r) ==
    LET up == SubSeq(r.path, 1, Len(r.path) - 1)
    IN  CASE r.elem = "none" -> r
          [] r.elem = "channel" -> [r EXCEPT !.elem = "none", !.path = <<>>]
          [] r.elem = "property" ->
                 [r EXCEPT !.elem = IF up = <<>> THEN "channel" ELSE "property", !.path = up]
          [] r.elem = "value" -> [r EXCEPT !.elem = "property"]

\* esconf_backend_perchannel_xml_end_elem: the end of any property ends the
\* array values.
EndElem(r) ==
    LET up == SubSeq(r.path, 1, Len(r.path) - 1)
    IN  CASE r.elem = "none" -> r
          [] r.elem = "channel" -> [r EXCEPT !.elem = "none", !.path = <<>>]
          [] r.elem = "property" ->
                 [r EXCEPT !.elem = IF up = <<>> THEN "channel" ELSE "property",
                           !.path = up, !.list = NoArray]
          [] r.elem = "value" -> [r EXCEPT !.elem = "property"]

-----------------------------------------------------------------------------
(* Reading the files of a channel *)

\* A parser for the next file over the same channel.
FreshParser(r) ==
    [r EXCEPT !.elem = "none", !.path = <<>>, !.list = NoArray, !.ok = TRUE]

NewReader == [tree |-> EmptyTree, locked |-> FALSE, elem |-> "none",
              path |-> <<>>, list |-> NoArray, ok |-> TRUE]

Init ==
    /\ reader = NewReader
    /\ files = SystemFiles + 1
    /\ open = <<>>
    /\ elements = 0
    /\ base = EmptyTree

\* GMarkup finds a start tag.  The arrays and names of an instance are those
\* in Values and Paths.
Start(e) ==
    /\ ~Loaded /\ reader.ok /\ elements < MaxElements
    /\ e.elem = "property" => Append(reader.path, e.name) \in Paths
    /\ e.elem = "value" /\ reader.list # NoArray /\ e.content \in Scalars =>
           Append(ListValue(reader, IsSystem), e.content) \in Values
    /\ reader' = StartElem(reader, IsSystem, e)
    /\ open' = Append(open, e.elem)
    /\ elements' = elements + 1
    /\ UNCHANGED <<files, base>>

\* GMarkup finds the end tag of the element it has open.
End ==
    /\ ~Loaded /\ reader.ok /\ open # <<>>
    /\ reader' = EndElem(reader)
    /\ open' = SubSeq(open, 1, Len(open) - 1)
    /\ UNCHANGED <<files, elements, base>>

\* The end of the file, or an error in it: esconf_backend_perchannel_xml_
\* load_channel does not ask which and goes on with the next file, of which
\* the last is the user's unless the channel is locked.
NextFile ==
    /\ ~Loaded
    /\ files' = IF files = 2 /\ reader.locked THEN 0 ELSE files - 1
    /\ reader' = FreshParser(reader)
    /\ open' = <<>>
    /\ base' = IF IsSystem THEN reader.tree ELSE base
    /\ UNCHANGED elements

Next == (\E e \in Element : Start(e)) \/ End \/ NextFile

Spec == Init /\ [][Next]_vars

-----------------------------------------------------------------------------
(* Correctness *)

\* Whatever the user file says and wherever it breaks off, the defaults and
\* locks are those of the system files, and a locked property has no value of
\* the user's (the policy comment in esconf_xml_handle_property).
UserFileRespectsAdmin ==
    ~IsSystem =>
        \A p \in Paths :
            /\ base[p] # NoNode =>
                   /\ reader.tree[p] # NoNode
                   /\ reader.tree[p].sys = base[p].sys
                   /\ reader.tree[p].locked = base[p].locked
                   /\ base[p].locked => reader.tree[p].value = NoValue
            /\ base[p] = NoNode /\ reader.tree[p] # NoNode =>
                   reader.tree[p].sys = NoValue /\ ~reader.tree[p].locked

\* Every property of a locked channel is itself locked: it is the property's
\* own lock that the backend looks at when a client sets it
\* (esconf_backend_perchannel_xml_set).
LockedChannelLocksAll ==
    reader.locked => \A p \in Paths : reader.tree[p] # NoNode => reader.tree[p].locked

\* While array values are taken, list_value points at a value that still is an
\* array, of a property that is still there and encloses the element being read:
\* no error, skipped property or property that is parsed again leaves it pointing
\* at a value that was unset or replaced (the uses of list_value in
\* esconf_xml_handle_property, esconf_xml_handle_value and end_elem).  It need not
\* be the innermost property: the code also takes a <value> inside a scalar,
\* empty or skipped property, for the array around it.
ListIsOpenArray ==
    reader.list # NoArray =>
        /\ reader.tree[reader.list] # NoNode
        /\ ListValue(reader, IsSystem) \notin Scalars \cup {NoValue}
        /\ reader.list = reader.path \/ Above(reader.list, reader.path)
=============================================================================
