----------------------------- MODULE XmlBackend -----------------------------
(***************************************************************************)
(* The per-channel XML backend of esconfd (esconfd/                        *)
(* esconf-backend-perchannel-xml.c): channels loaded on demand into a      *)
(* hash table, changed in memory, and written back to one user file per    *)
(* channel when a save timer, re-armed by every change, fires.             *)
(*                                                                         *)
(* The system files of a channel never change while the daemon runs: what  *)
(* they amount to is given by SysTree and SysLocked.  The values, replies  *)
(* and notifications of an operation are functions of the state it starts  *)
(* in (GetValue, SetNotes, ...); the actions say what it does to the state.*)
(***************************************************************************)
EXTENDS PropTree

CONSTANTS ChannelNames,  \* channel names as callers spell them
          Lower,         \* g_ascii_strdown
          SysTree,       \* the property tree the system files give a channel
          SysLocked,     \* TRUE iff they lock the whole channel
          InitFiles,     \* what the user file of a channel may first hold
          Arrays,        \* values _esconf_gvalue_is_equal calls unequal
                         \* even to themselves
          Unwritable,    \* scalars of a type the writer does not know
          Unsavable,     \* arrays with such an item, or one of no type
          Reread(_),     \* a value written to a file and read back
          DiskFails,     \* TRUE iff fopen, write, rename or unlink may fail
          WriteTimeout,  \* WRITE_TIMEOUT, in ticks
          NoFile,        \* no user file
          NotLoaded      \* no entry in the hash table

\* The user file of a channel: the value of each <property>, NoValue for
\* type="empty", NoNode where there is no element.
File == [Paths -> Values \cup {NoValue, NoNode}]

\* <property> elements nest: an element's parents are elements.
Nested(f) == \A p, q \in Paths : Above(p, q) /\ f[q] # NoNode => f[p] # NoNode

ASSUME NamesAssumption ==
    /\ Lower \in [ChannelNames -> ChannelNames]
    /\ \A c \in ChannelNames : Lower[Lower[c]] = Lower[c]

ASSUME SystemAssumption ==
    /\ SysTree \in [ChannelNames -> Trees]
    /\ SysLocked \in [ChannelNames -> BOOLEAN]
    /\ \A c \in ChannelNames :
          /\ WellFormed(SysTree[c])
          /\ \A p \in Paths :
                SysTree[c][p] # NoNode => SysTree[c][p].value = NoValue

ASSUME FilesAssumption ==
    /\ InitFiles \subseteq File \cup {NoFile}
    /\ NoFile \notin File
    /\ \A f \in InitFiles : f # NoFile => Nested(f)

ASSUME ValuesAssumption ==
    /\ Arrays \subseteq Values
    /\ Unwritable \subseteq Values \ Arrays
    /\ Unsavable \subseteq Arrays
    /\ \A v \in Values : Reread(v) \in Values
    /\ NoNode \notin Values
    /\ NoNode # NoValue

ASSUME TimeoutAssumption == WriteTimeout \in Nat \ {0} /\ DiskFails \in BOOLEAN

\* What callers may set: a GValue made of a D-Bus value has none of the types
\* that the writer does not know, which only files can name; but an array may
\* have items of a type that D-Bus has and esconf does not.
Settable == Values \ Unwritable

Channel == [tree : Trees, locked : BOOLEAN, dirty : BOOLEAN]

ASSUME NotLoadedAssumption == NotLoaded \notin Channel

VARIABLES channels,  \* the hash table: lower-case name -> EsconfChannel
          userFile,  \* file name -> contents of the user file
          timer      \* ticks until save_timeout; 0 when save_id is 0

vars == <<channels, userFile, timer>>

TypeOK ==
    /\ channels \in [ChannelNames -> Channel \cup {NotLoaded}]
    /\ userFile \in [ChannelNames -> File \cup {NoFile}]
    /\ timer \in 0..WriteTimeout

Init ==
    /\ channels = [c \in ChannelNames |-> NotLoaded]
    /\ userFile \in [ChannelNames -> InitFiles]
    /\ timer = 0

-----------------------------------------------------------------------------
(* Loading *)

\* Mutant of MergeUser: locks are for set alone to respect.
MergeOverLocks(t, f) ==
    [p \in Paths |->
        IF f[p] = NoNode THEN t[p]
        ELSE IF t[p] = NoNode THEN NewNode(f[p])
        ELSE [t[p] EXCEPT !.value = f[p]]]

\* Merging the user file over the system tree: elements of a locked property
\* are skipped, others give the property its user value.
MergeUser(t, f) ==
    [p \in Paths |->
        IF f[p] = NoNode \/ (t[p] # NoNode /\ t[p].locked) THEN t[p]
        ELSE IF t[p] = NoNode THEN NewNode(f[p])
        ELSE [t[p] EXCEPT !.value = f[p]]]

\* load_channel; the user file of a locked channel is not read.
LoadChannel(c) ==
    [tree |-> IF SysLocked[c] \/ userFile[c] = NoFile THEN SysTree[c]
              ELSE MergeUser(SysTree[c], userFile[c]),
     locked |-> SysLocked[c],
     dirty |-> FALSE]

\* Every operation looks the channel up under the name as given, loads it
\* when that finds nothing ...
Obtain(c) == IF channels[c] # NotLoaded THEN channels[c] ELSE LoadChannel(c)

\* ... and a loaded channel is stored, replacing what is there, under the
\* lower-case name.
Keep(c, ch) == channels' = [channels EXCEPT ![Lower[c]] = ch]

-----------------------------------------------------------------------------
(* Replies and notifications *)

GetValue(c, p) == Effective(Obtain(c).tree, p)

PropertyExists(c, p) ==
    LET n == Obtain(c).tree[p] IN n # NoNode /\ ~Valueless(n)

IsPropertyLocked(c, p) ==
    LET ch == Obtain(c)
    IN  ch.locked \/ (ch.tree[p] # NoNode /\ ch.tree[p].locked)

\* Mutant of SetDenied: the channel's lock is checked, not the property's.
SetDeniedByChannel(c, p) == Obtain(c).locked

SetDenied(c, p) == LET t == Obtain(c).tree IN t[p] # NoNode /\ t[p].locked

\* The property holds v already.
SetUnneeded(c, p, v) == v \notin Arrays /\ GetValue(c, p) = v

\* The property names that prop_changed_func is called with.
SetNotes(c, p, v) ==
    IF SetDenied(c, p) \/ SetUnneeded(c, p, v) THEN {} ELSE {p}

ResetFound(c, p) ==
    LET t == Obtain(c).tree IN t[p] # NoNode /\ t[p].value # NoValue

ResetNotes(c, p) == IF ResetFound(c, p) THEN {p} ELSE {}

\* Mutant of ResetUnderNotes: only the top of the subtree is announced.
ResetTopNotes(c, p) ==
    {BuildPropname(q) : q \in UserValued(Obtain(c).tree, {p} \cap Paths)}

\* A recursive reset (of the whole channel if p is <<>>) names the properties
\* by way of their nodes.
ResetUnderNotes(c, p) ==
    {BuildPropname(q) : q \in UserValued(Obtain(c).tree, Under(p))}

-----------------------------------------------------------------------------
(* Saving *)

\* write_node for every node: user values only, under the names of all nodes.  A
\* value of a type that the writer does not know is written as type="empty".
FileOf(t) ==
    [p \in Paths |-> IF t[p] = NoNode THEN NoNode
                     ELSE IF t[p].value \in Unwritable \cup {NoValue} THEN NoValue
                     ELSE Reread(t[p].value)]

\* An array with an item of such a type fails the whole channel.
Savable(t) == \A p \in Paths : t[p] # NoNode => t[p].value \notin Unsavable

Dirty == {c \in ChannelNames : channels[c] # NotLoaded /\ channels[c].dirty}

SavableDirty == {c \in Dirty : Savable(channels[c].tree)}

\* The channels that a flush may succeed to write.
FlushResults == {ok \in SUBSET SavableDirty : DiskFails \/ ok = SavableDirty}

Written(S) == [c \in ChannelNames |-> IF c \in S THEN FileOf(channels[c].tree)
                                      ELSE userFile[c]]

\* The user values that writing unsets in memory.
Perishing ==
    {cp \in Dirty \X Paths :
        LET n == channels[cp[1]].tree[cp[2]] IN n # NoNode /\ n.value \in Unwritable}

\* The values in lost are unset, and the channels in S are clean.
Flushed(S, lost) ==
    [c \in ChannelNames |->
        IF c \in Dirty
        THEN [channels[c] EXCEPT !.tree = UnsetValues(@, {p \in Paths : <<c, p>> \in lost}),
                                 !.dirty = c \notin S]
        ELSE channels[c]]

\* All of those of a channel that is written are lost, and of one that fails
\* some: the ones before the failure, in an order of siblings that a tree does
\* not represent.
Losses(ok) == {lost \in SUBSET Perishing : \A cp \in Perishing : cp[1] \in ok => cp \in lost}

\* Mutant of FlushChannels: what could not be written stays dirty.
FlushKeepsFailed ==
    \E ok \in FlushResults : \E lost \in Losses(ok) :
        userFile' = Written(ok) /\ channels' = Flushed(ok, lost)

\* Mutant of FlushChannels: no temporary file, so a failed write truncates.
FlushInPlace ==
    \E ok \in FlushResults : \E lost \in Losses(ok) :
        /\ userFile' = [c \in ChannelNames |->
                           IF c \in Dirty \ ok THEN NoFile ELSE Written(ok)[c]]
        /\ channels' = Flushed(Dirty, lost)

\* flush, flush_channel for each dirty channel: it is written under a temporary
\* name and renamed over its file, or fails.  Written or not, every dirty channel
\* counts as clean afterwards.
FlushChannels ==
    \E ok \in FlushResults : \E lost \in Losses(ok) :
        userFile' = Written(ok) /\ channels' = Flushed(Dirty, lost)

\* The same when the channels are given up afterwards.
FlushLast == \E ok \in FlushResults : userFile' = Written(ok)

\* Mutant of ScheduleSave: the timeout that is already running is kept too.
ScheduleAnother == timer' = timer + WriteTimeout

\* schedule_save: the timeout starts afresh, whatever remained of it.
ScheduleSave == timer' = WriteTimeout

-----------------------------------------------------------------------------
(* Operations of the EsconfBackend interface *)

\* set
Set(c, p, v) ==
    /\ UNCHANGED userFile
    /\ \/ /\ SetDenied(c, p) \/ SetUnneeded(c, p, v)
          /\ Keep(c, Obtain(c))
          /\ UNCHANGED timer
       \/ /\ ~SetDenied(c, p) /\ ~SetUnneeded(c, p, v)
          /\ Keep(c, [Obtain(c) EXCEPT !.tree = WithValue(@, p, v),
                                       !.dirty = TRUE])
          /\ ScheduleSave

\* get, get_all, exists and is_property_locked: nothing but the loading.
Read(c) == Keep(c, Obtain(c)) /\ UNCHANGED <<userFile, timer>>

\* Mutant of Reset: the save is scheduled for a channel not marked dirty.
ResetQuiet(c, p) ==
    /\ UNCHANGED userFile
    /\ IF ResetFound(c, p)
       THEN Keep(c, [Obtain(c) EXCEPT !.tree = ResetProp(@, p)]) /\ ScheduleSave
       ELSE Keep(c, Obtain(c)) /\ UNCHANGED timer

\* reset, not recursive
Reset(c, p) ==
    /\ UNCHANGED userFile
    /\ \/ ~ResetFound(c, p) /\ Keep(c, Obtain(c)) /\ UNCHANGED timer
       \/ /\ ResetFound(c, p)
          /\ Keep(c, [Obtain(c) EXCEPT !.tree = ResetProp(@, p), !.dirty = TRUE])
          /\ ScheduleSave

\* reset, recursive
ResetRecursive(c, p) ==
    /\ UNCHANGED userFile
    /\ \/ /\ Obtain(c).tree[p] = NoNode
          /\ Keep(c, Obtain(c)) /\ UNCHANGED timer
       \/ /\ Obtain(c).tree[p] # NoNode
          /\ Keep(c, [Obtain(c) EXCEPT !.tree = ResetUnder(@, p), !.dirty = TRUE])
          /\ ScheduleSave

\* reset of "/", recursive (do_reset_channel): the entry stored under the name
\* as given goes, and the file by that name with it unless unlink fails; no
\* save is scheduled.
ResetChannel(c) ==
    /\ channels' =
          LET emptied == [Obtain(c) EXCEPT !.tree = UnsetValues(@, Paths)]
          IN  [[channels EXCEPT ![Lower[c]] = emptied] EXCEPT ![c] = NotLoaded]
    /\ \/ userFile' = [userFile EXCEPT ![c] = NoFile]
       \/ DiskFails /\ UNCHANGED userFile
    /\ UNCHANGED timer

\* flush, called when the bus goes away: the save timer stays as it is.
Flush == FlushChannels /\ UNCHANGED timer

\* Mutant of SaveTimeout: the callback returns before it flushes.
TimeoutForgets == timer = 1 /\ timer' = 0 /\ UNCHANGED <<channels, userFile>>

SaveTimeout == timer = 1 /\ timer' = 0 /\ FlushChannels

\* Time passes towards the timeout.
Tick == timer > 1 /\ timer' = timer - 1 /\ UNCHANGED <<channels, userFile>>

\* finalize, and a new daemon over the same files.
Finalize ==
    /\ timer' = 0
    /\ IF timer > 0 THEN FlushLast ELSE UNCHANGED userFile
    /\ channels' = [c \in ChannelNames |-> NotLoaded]

\* The daemon dies, possibly in the middle of a flush, and is started again.
Crash ==
    /\ timer' = 0
    /\ \E done \in SUBSET SavableDirty : userFile' = Written(done)
    /\ channels' = [c \in ChannelNames |-> NotLoaded]

Modify ==
    \E c \in ChannelNames :
        \/ \E p \in Paths, v \in Settable : Set(c, p, v)
        \/ \E p \in Paths : Reset(c, p)
        \/ \E p \in Paths : ResetRecursive(c, p)
        \/ ResetChannel(c)

Next ==
    \/ Modify
    \/ \E c \in ChannelNames : Read(c)
    \/ Flush
    \/ Tick
    \/ SaveTimeout
    \/ Finalize
    \/ Crash

\* The main loop dispatches an expired timeout; time passes.
Fairness == WF_vars(Tick) /\ WF_vars(SaveTimeout)

Spec == Init /\ [][Next]_vars /\ Fairness
-----------------------------------------------------------------------------
(* Correctness *)

\* A property whose node is locked holds no user value: neither a write nor
\* what a user file says gets past the administrator (the checks in set and
\* in handle_property).
LockedHoldsNoUserValue ==
    \A c \in ChannelNames : channels[c] # NotLoaded => LockedUnset(channels[c].tree)

\* Unsaved changes never wait without a save timer running (schedule_save is
\* reached on every path that changes a tree, and flush cleans every channel).
DirtyIsScheduled == Dirty # {} => timer > 0

\* A channel that counts as clean can be dropped: reading its file again gives
\* every property the value it has in memory, as a file keeps it (write_node
\* against handle_property; a file keeps six digits of a fraction, and 0 of a
\* char).  A channel whose writing fails for a value that it holds has none of
\* this, and a locked one's user file is never read.
CleanIsSaved ==
    \A c \in ChannelNames :
        /\ channels[c] # NotLoaded /\ ~channels[c].dirty
        /\ ~SysLocked[c] /\ Savable(channels[c].tree)
        => \A p \in Paths :
              LET now == Effective(channels[c].tree, p)
                  later == Effective(LoadChannel(c).tree, p)
              IN  later = now \/ (now # NoValue /\ later = Reread(now))

\* A value the administrator locked reads as the administrator set it, whatever
\* clients and user files do, for as long as the daemon runs: no sequence of
\* sets, resets and reloads removes its node.
LockedReadsSystem ==
    \A c \in ChannelNames, p \in Paths :
        LET n == SysTree[c][p]
        IN  n # NoNode /\ n.locked /\ n.sys # NoValue => GetValue(c, p) = n.sys

\* Resetting one property changes the value of no other, whatever goes from the
\* tree with it (the pruning in esconf_proptree_reset).
ResetChangesOne ==
    [][\A c \in ChannelNames, p \in Paths : Reset(c, p) =>
          \A q \in Paths \ {p} : GetValue(c, q)' = GetValue(c, q)]_vars

\* Once clients stop modifying, every unsaved change is dealt with by the
\* timer (save_timeout; each change postpones it).
ChangesGetSaved ==
    <>[][~Modify]_vars => (Dirty # {} ~> Dirty = {})
=============================================================================
