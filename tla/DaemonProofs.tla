---------------------------- MODULE DaemonProofs ----------------------------
(***************************************************************************)
(* Theorems of the daemon, for any channels, names, values, system trees   *)
(* and user files, whether or not the disk fails.                          *)
(*                                                                         *)
(* Every operation of the per-channel XML backend replaces the tree of a   *)
(* channel by TreeStep of one that was loaded or that loading gives (LEMMA *)
(* Steps); an invariant of trees then needs one argument per tree          *)
(* operation (module PropTreeProofs).                                      *)
(*                                                                         *)
(* The backend implements the configuration store, and what it reads back  *)
(* from a file is what it held: what a property reads is its user value or *)
(* the default of the system files, so the lemmas say where each operation *)
(* changes user values, saving included, and that none changes a default.  *)
(*                                                                         *)
(* A subscriber who is out of date about a property that it can know of    *)
(* has a signal about it coming.  The argument needs that the handlers     *)
(* queue a name for every property whose value their operation changes,    *)
(* and that saving changes no value but the ones it unsets.                *)
(***************************************************************************)
EXTENDS Daemon, XmlBackendStore, PropTreeProofs, FiniteSetTheorems

-----------------------------------------------------------------------------
(* Types *)

LEMMA MergeUserType ==
    ASSUME NEW t \in Trees, NEW f \in File PROVE MergeUser(t, f) \in Trees
<1>1. ASSUME NEW p \in Paths, f[p] # NoNode
      PROVE  /\ NewNode(f[p]) \in Node
             /\ t[p] # NoNode => [t[p] EXCEPT !.value = f[p]] \in Node
  <2>1. f[p] \in Values \cup {NoValue}
    BY <1>1 DEF File
  <2>2. t[p] # NoNode => t[p] \in Node
    BY DEF Trees
  <2> QED BY <2>1, <2>2, NewNodeType DEF Node
<1> QED BY <1>1 DEF MergeUser, Trees

LEMMA LoadChannelType ==
    ASSUME TypeOK, NEW c \in ChannelNames PROVE LoadChannel(c) \in Channel
<1>1. SysTree[c] \in Trees /\ SysLocked[c] \in BOOLEAN
  BY SystemAssumption
<1>2. userFile[c] = NoFile \/ userFile[c] \in File
  BY DEF TypeOK
<1> QED BY <1>1, <1>2, MergeUserType DEF LoadChannel, Channel

LEMMA ObtainType ==
    ASSUME TypeOK, NEW c \in ChannelNames
    PROVE  /\ Obtain(c) \in Channel
           /\ Obtain(c).tree \in Trees
           /\ Obtain(c) # NotLoaded
<1>1. Obtain(c) \in Channel
  BY LoadChannelType DEF Obtain, TypeOK
<1> QED BY <1>1, NotLoadedAssumption DEF Channel

LEMMA LowerType == ASSUME NEW c \in ChannelNames PROVE Lower[c] \in ChannelNames
  BY NamesAssumption

\* A channel kept is the one entry that changes.
LEMMA Kept ==
    ASSUME TypeOK, NEW c \in ChannelNames, NEW ch \in Channel, Keep(c, ch)
    PROVE  /\ channels' \in [ChannelNames -> Channel \cup {NotLoaded}]
           /\ channels'[Lower[c]] = ch
           /\ \A d \in ChannelNames : d # Lower[c] => channels'[d] = channels[d]
  BY LowerType DEF Keep, TypeOK

LEMMA FileOfType == ASSUME NEW t \in Trees PROVE FileOf(t) \in File
<1>1. ASSUME NEW p \in Paths, t[p] # NoNode, t[p].value \notin Unwritable \cup {NoValue}
      PROVE  Reread(t[p].value) \in Values
  <2>1. t[p].value \in Values
    BY <1>1 DEF Trees, Node
  <2> QED BY <2>1, ValuesAssumption
<1> QED BY <1>1 DEF FileOf, File

LEMMA LoadedType ==
    ASSUME TypeOK, NEW c \in ChannelNames, channels[c] # NotLoaded
    PROVE  channels[c] \in Channel /\ channels[c].tree \in Trees
  BY DEF TypeOK, Channel

LEMMA WrittenType ==
    ASSUME TypeOK, NEW S \in SUBSET Dirty
    PROVE  Written(S) \in [ChannelNames -> File \cup {NoFile}]
<1>1. ASSUME NEW c \in S PROVE FileOf(channels[c].tree) \in File
  <2>1. c \in ChannelNames /\ channels[c] # NotLoaded
    BY DEF Dirty
  <2> QED BY <2>1, LoadedType, FileOfType
<1> QED BY <1>1 DEF Written, TypeOK

LEMMA SavableDirtyIsDirty == SavableDirty \in SUBSET Dirty
  BY DEF SavableDirty

\* The properties of d among the channels and properties in lost.
LostIn(d, lost) == {p \in Paths : <<d, p>> \in lost}

\* A flush touches dirty channels only: those count as clean afterwards, and
\* some of their values are unset.
LEMMA FlushedEntry ==
    ASSUME TypeOK, NEW lost, channels' = Flushed(Dirty, lost), NEW d \in ChannelNames
    PROVE  /\ d \notin Dirty => channels'[d] = channels[d]
           /\ d \in Dirty => /\ channels'[d] \in Channel
                             /\ ~channels'[d].dirty
                             /\ channels'[d].tree = UnsetValues(channels[d].tree, LostIn(d, lost))
<1> DEFINE u == UnsetValues(channels[d].tree, LostIn(d, lost))
<1>1. d \notin Dirty => channels'[d] = channels[d]
  BY DEF Flushed
<1>2. ASSUME d \in Dirty
      PROVE  /\ channels'[d] \in Channel
             /\ ~channels'[d].dirty
             /\ channels'[d].tree = u
  <2>1. channels[d] \in Channel /\ channels[d].tree \in Trees
    BY <1>2, LoadedType DEF Dirty
  <2>2. u \in Trees
    BY <2>1, UnsetValuesType
  <2>3. channels'[d] = [channels[d] EXCEPT !.tree = u, !.dirty = FALSE]
    BY <1>2 DEF Flushed, LostIn
  <2> HIDE DEF u
  <2> QED BY <2>1, <2>2, <2>3 DEF Channel
<1> QED BY <1>1, <1>2

LEMMA FlushType ==
    ASSUME TypeOK, FlushChannels
    PROVE  /\ channels' \in [ChannelNames -> Channel \cup {NotLoaded}]
           /\ userFile' \in [ChannelNames -> File \cup {NoFile}]
<1>1. PICK ok \in FlushResults : \E lost \in Losses(ok) :
          userFile' = Written(ok) /\ channels' = Flushed(Dirty, lost)
  BY DEF FlushChannels
<1>2. PICK lost : channels' = Flushed(Dirty, lost)
  BY <1>1
<1>3. \A d \in ChannelNames : channels'[d] \in Channel \cup {NotLoaded}
  BY <1>2, FlushedEntry DEF TypeOK
<1>4. channels' = [d \in ChannelNames |-> channels'[d]]
  BY <1>2 DEF Flushed
<1>5. ok \in SUBSET Dirty
  BY SavableDirtyIsDirty DEF FlushResults
<1> QED BY <1>1, <1>3, <1>4, <1>5, WrittenType

LEMMA FlushLastType ==
    ASSUME TypeOK, FlushLast PROVE userFile' \in [ChannelNames -> File \cup {NoFile}]
  BY SavableDirtyIsDirty, WrittenType DEF FlushLast, FlushResults

\* A channel whose tree an operation replaces.
LEMMA ChangedType ==
    ASSUME TypeOK, NEW c \in ChannelNames, NEW u \in Trees
    PROVE  /\ [Obtain(c) EXCEPT !.tree = u, !.dirty = TRUE] \in Channel
           /\ [Obtain(c) EXCEPT !.tree = u, !.dirty = TRUE].tree = u
           /\ [Obtain(c) EXCEPT !.tree = u] \in Channel
           /\ [Obtain(c) EXCEPT !.tree = u].tree = u
           /\ [Obtain(c) EXCEPT !.tree = u].dirty = Obtain(c).dirty
  BY ObtainType DEF Channel

LEMMA ResetUnderType ==
    ASSUME NEW t \in Trees, NEW p \in Paths PROVE ResetUnder(t, p) \in Trees
  BY UnsetValuesType, CleanUpType DEF ResetUnder

LEMMA TimerType == /\ WriteTimeout \in Nat /\ WriteTimeout > 0
                   /\ 0 \in 0..WriteTimeout /\ WriteTimeout \in 0..WriteTimeout
  BY TimeoutAssumption

LEMMA KeepSame ==
    ASSUME TypeOK, NEW c \in ChannelNames, Keep(c, Obtain(c))
    PROVE  channels' \in [ChannelNames -> Channel \cup {NotLoaded}]
  BY Kept, ObtainType

LEMMA TypeInit == Init => TypeOK
  BY FilesAssumption, TimerType DEF Init, TypeOK

LEMMA TypeStep == TypeOK /\ [Next]_vars => TypeOK'
<1> SUFFICES ASSUME TypeOK, [Next]_vars PROVE TypeOK'
  OBVIOUS
<1>1. ASSUME NEW c \in ChannelNames, NEW p \in Paths, NEW v \in Values, Set(c, p, v)
      PROVE  TypeOK'
  <2>1. CASE Keep(c, Obtain(c)) /\ UNCHANGED timer
    BY <1>1, <2>1, KeepSame DEF Set, TypeOK
  <2>2. CASE /\ Keep(c, [Obtain(c) EXCEPT !.tree = WithValue(@, p, v), !.dirty = TRUE])
             /\ ScheduleSave
    <3>1. WithValue(Obtain(c).tree, p, v) \in Trees
      BY ObtainType, WithValueType
    <3>2. channels' \in [ChannelNames -> Channel \cup {NotLoaded}]
      BY <2>2, <3>1, ChangedType, Kept
    <3> QED BY <1>1, <2>2, <3>2, TimerType DEF Set, ScheduleSave, TypeOK
  <2> QED BY <1>1, <2>1, <2>2 DEF Set
<1>2. ASSUME NEW c \in ChannelNames, NEW p \in Paths, Reset(c, p)
      PROVE  TypeOK'
  <2>1. CASE Keep(c, Obtain(c)) /\ UNCHANGED timer
    BY <1>2, <2>1, KeepSame DEF Reset, TypeOK
  <2>2. CASE /\ ResetFound(c, p)
             /\ Keep(c, [Obtain(c) EXCEPT !.tree = ResetProp(@, p), !.dirty = TRUE])
             /\ ScheduleSave
    <3>1. ResetProp(Obtain(c).tree, p) \in Trees
      BY <2>2, ObtainType, ResetPropType DEF ResetFound
    <3>2. channels' \in [ChannelNames -> Channel \cup {NotLoaded}]
      BY <2>2, <3>1, ChangedType, Kept
    <3> QED BY <1>2, <2>2, <3>2, TimerType DEF Reset, ScheduleSave, TypeOK
  <2> QED BY <1>2, <2>1, <2>2 DEF Reset
<1>3. ASSUME NEW c \in ChannelNames, NEW p \in Paths, ResetRecursive(c, p)
      PROVE  TypeOK'
  <2>1. CASE Keep(c, Obtain(c)) /\ UNCHANGED timer
    BY <1>3, <2>1, KeepSame DEF ResetRecursive, TypeOK
  <2>2. CASE /\ Keep(c, [Obtain(c) EXCEPT !.tree = ResetUnder(@, p), !.dirty = TRUE])
             /\ ScheduleSave
    <3>1. ResetUnder(Obtain(c).tree, p) \in Trees
      BY ObtainType, ResetUnderType
    <3>2. channels' \in [ChannelNames -> Channel \cup {NotLoaded}]
      BY <2>2, <3>1, ChangedType, Kept
    <3> QED BY <1>3, <2>2, <3>2, TimerType DEF ResetRecursive, ScheduleSave, TypeOK
  <2> QED BY <1>3, <2>1, <2>2 DEF ResetRecursive
<1>4. ASSUME NEW c \in ChannelNames, ResetChannel(c) PROVE TypeOK'
  <2>1. UnsetValues(Obtain(c).tree, Paths) \in Trees
    BY ObtainType, UnsetValuesType
  <2>2. channels' \in [ChannelNames -> Channel \cup {NotLoaded}]
    BY <1>4, <2>1, ChangedType DEF ResetChannel, TypeOK
  <2> QED BY <1>4, <2>2 DEF ResetChannel, TypeOK
<1>5. ASSUME NEW c \in ChannelNames, Read(c) PROVE TypeOK'
  BY <1>5, KeepSame DEF Read, TypeOK
<1>7. CASE Flush
  BY <1>7, FlushType DEF Flush, TypeOK
<1>8. CASE SaveTimeout
  BY <1>8, FlushType, TimerType DEF SaveTimeout, TypeOK
<1>9. CASE Tick
  BY <1>9, TimerType DEF Tick, TypeOK
<1>10. CASE Finalize
  BY <1>10, FlushLastType, TimerType DEF Finalize, TypeOK
<1>11. CASE Crash
  BY <1>11, SavableDirtyIsDirty, WrittenType, TimerType DEF Crash, TypeOK
<1>12. CASE UNCHANGED vars
  BY <1>12 DEF vars, TypeOK
<1> QED BY <1>1, <1>2, <1>3, <1>4, <1>5, <1>7, <1>8, <1>9, <1>10, <1>11, <1>12
        DEF Next, Modify, Settable

\* The hash table holds channels, the disk holds files and the timer stays
\* within its timeout, in every state.
THEOREM TypeCorrect == Spec => []TypeOK
<1>1. Init => TypeOK
  BY TypeInit
<1>2. TypeOK /\ [Next]_vars => TypeOK'
  BY TypeStep
<1> QED BY <1>1, <1>2, PTL DEF Spec

-----------------------------------------------------------------------------
(* Steps on trees *)

\* What an operation may do to the tree t of a channel.
TreeStep(t, u) ==
    \/ u = t
    \/ \E p \in Paths, v \in Values :
          ~(t[p] # NoNode /\ t[p].locked) /\ u = WithValue(t, p, v)
    \/ \E p \in Paths : t[p] # NoNode /\ t[p].value # NoValue /\ u = ResetProp(t, p)
    \/ \E p \in Paths : u = ResetUnder(t, p)
    \/ \E S \in SUBSET Paths : u = UnsetValues(t, S)

\* The channel in entry d is one step from the channel obtained under c.
StepsFrom(c, d) ==
    /\ d = Lower[c] \/ (d = c /\ channels[c] # NotLoaded)
    /\ TreeStep(Obtain(c).tree, channels'[d].tree)

LEMMA StepsUnchanged ==
    ASSUME TypeOK, NEW d \in ChannelNames, channels'[d] # NotLoaded,
           channels[d] # NotLoaded, channels'[d].tree = channels[d].tree
    PROVE  StepsFrom(d, d)
  BY DEF StepsFrom, TreeStep, Obtain

LEMMA StepsKept ==
    ASSUME TypeOK, NEW c \in ChannelNames, NEW ch \in Channel, Keep(c, ch),
           TreeStep(Obtain(c).tree, ch.tree),
           NEW d \in ChannelNames, channels'[d] # NotLoaded
    PROVE  \E b \in ChannelNames : StepsFrom(b, d)
<1>1. CASE d = Lower[c]
  BY <1>1, Kept DEF StepsFrom
<1>2. CASE d # Lower[c]
  <2>1. channels'[d] = channels[d]
    BY <1>2, Kept
  <2> QED BY <2>1, StepsUnchanged
<1> QED BY <1>1, <1>2

LEMMA StepsFlushed ==
    ASSUME TypeOK, NEW lost, channels' = Flushed(Dirty, lost),
           NEW d \in ChannelNames, channels'[d] # NotLoaded
    PROVE  StepsFrom(d, d)
<1>1. CASE d \notin Dirty
  BY <1>1, FlushedEntry, StepsUnchanged
<1>2. CASE d \in Dirty
  <2>1. channels'[d].tree = UnsetValues(channels[d].tree, LostIn(d, lost))
    BY <1>2, FlushedEntry
  <2>2. channels[d] # NotLoaded /\ LostIn(d, lost) \in SUBSET Paths
    BY <1>2 DEF Dirty, LostIn
  <2> QED BY <2>1, <2>2 DEF StepsFrom, TreeStep, Obtain
<1> QED BY <1>1, <1>2

LEMMA Steps ==
    ASSUME TypeOK, [Next]_vars, NEW d \in ChannelNames, channels'[d] # NotLoaded
    PROVE  \E c \in ChannelNames : StepsFrom(c, d)
<1> DEFINE Goal == \E c \in ChannelNames : StepsFrom(c, d)
<1>0. ASSUME NEW c \in ChannelNames, Keep(c, Obtain(c)) PROVE Goal
  <2>1. TreeStep(Obtain(c).tree, Obtain(c).tree)
    BY DEF TreeStep
  <2> QED BY <1>0, <2>1, ObtainType, StepsKept
<1>1. ASSUME NEW c \in ChannelNames, NEW p \in Paths, NEW v \in Values, Set(c, p, v)
      PROVE  Goal
  <2>1. CASE Keep(c, Obtain(c))
    BY <1>0, <2>1
  <2>2. CASE /\ ~SetDenied(c, p)
             /\ Keep(c, [Obtain(c) EXCEPT !.tree = WithValue(@, p, v), !.dirty = TRUE])
    <3> DEFINE u == WithValue(Obtain(c).tree, p, v)
    <3>1. u \in Trees
      BY ObtainType, WithValueType
    <3>2. TreeStep(Obtain(c).tree, u)
      BY <2>2 DEF TreeStep, SetDenied
    <3> QED BY <2>2, <3>1, <3>2, ChangedType, StepsKept
  <2> QED BY <1>1, <2>1, <2>2 DEF Set
<1>2. ASSUME NEW c \in ChannelNames, NEW p \in Paths, Reset(c, p) PROVE Goal
  <2>1. CASE Keep(c, Obtain(c))
    BY <1>0, <2>1
  <2>2. CASE /\ ResetFound(c, p)
             /\ Keep(c, [Obtain(c) EXCEPT !.tree = ResetProp(@, p), !.dirty = TRUE])
    <3> DEFINE u == ResetProp(Obtain(c).tree, p)
    <3>1. u \in Trees
      BY <2>2, ObtainType, ResetPropType DEF ResetFound
    <3>2. TreeStep(Obtain(c).tree, u)
      BY <2>2 DEF TreeStep, ResetFound
    <3> QED BY <2>2, <3>1, <3>2, ChangedType, StepsKept
  <2> QED BY <1>2, <2>1, <2>2 DEF Reset
<1>3. ASSUME NEW c \in ChannelNames, NEW p \in Paths, ResetRecursive(c, p) PROVE Goal
  <2>1. CASE Keep(c, Obtain(c))
    BY <1>0, <2>1
  <2>2. CASE Keep(c, [Obtain(c) EXCEPT !.tree = ResetUnder(@, p), !.dirty = TRUE])
    <3> DEFINE u == ResetUnder(Obtain(c).tree, p)
    <3>1. u \in Trees
      BY ObtainType, ResetUnderType
    <3>2. TreeStep(Obtain(c).tree, u)
      BY DEF TreeStep
    <3> QED BY <2>2, <3>1, <3>2, ChangedType, StepsKept
  <2> QED BY <1>3, <2>1, <2>2 DEF ResetRecursive
<1>4. ASSUME NEW c \in ChannelNames, ResetChannel(c) PROVE Goal
  <2> DEFINE u == UnsetValues(Obtain(c).tree, Paths)
             emptied == [Obtain(c) EXCEPT !.tree = u]
  <2>1. u \in Trees
    BY ObtainType, UnsetValuesType
  <2>2. emptied.tree = u
    BY <2>1, ChangedType
  <2>3. channels' = [[channels EXCEPT ![Lower[c]] = emptied] EXCEPT ![c] = NotLoaded]
    BY <1>4 DEF ResetChannel
  <2>4. d # c
    BY <2>3, LowerType DEF TypeOK
  <2>5. CASE d = Lower[c]
    <3>1. channels'[d] = emptied
      BY <2>3, <2>4, <2>5, LowerType DEF TypeOK
    <3> QED BY <2>2, <2>5, <3>1 DEF StepsFrom, TreeStep
  <2>6. CASE d # Lower[c]
    <3>1. channels'[d] = channels[d]
      BY <2>3, <2>4, <2>6, LowerType DEF TypeOK
    <3> QED BY <3>1, StepsUnchanged
  <2> QED BY <2>5, <2>6
<1>5. ASSUME NEW c \in ChannelNames, Read(c) PROVE Goal
  BY <1>0, <1>5 DEF Read
<1>6. ASSUME FlushChannels PROVE Goal
  BY <1>6, StepsFlushed DEF FlushChannels
<1>7. ASSUME UNCHANGED channels PROVE Goal
  BY <1>7, StepsUnchanged
<1>8. CASE Flush
  BY <1>6, <1>8 DEF Flush
<1>9. CASE SaveTimeout
  BY <1>6, <1>9 DEF SaveTimeout
<1>10. CASE Tick
  BY <1>7, <1>10 DEF Tick
<1>11. CASE Finalize \/ Crash
  BY <1>11 DEF Finalize, Crash
<1>12. CASE UNCHANGED vars
  BY <1>7, <1>12 DEF vars
<1> QED BY <1>1, <1>2, <1>3, <1>4, <1>5, <1>8, <1>9, <1>10, <1>11, <1>12
        DEF Next, Modify, Settable

-----------------------------------------------------------------------------
(* Locks *)

LEMMA TreeStepLocked ==
    ASSUME NEW t \in Trees, NEW u, LockedUnset(t), TreeStep(t, u)
    PROVE  LockedUnset(u)
<1>1. ASSUME NEW p \in Paths, u = ResetUnder(t, p) PROVE LockedUnset(u)
  BY <1>1, UnsetValuesType, UnsetValuesLocked, CleanUpLocked DEF ResetUnder
<1> QED BY <1>1, WithValueLocked, ResetPropLocked, UnsetValuesLocked DEF TreeStep

\* The system files give no user value, and merging respects locks.
LEMMA LoadedLocked ==
    ASSUME TypeOK, NEW c \in ChannelNames PROVE LockedUnset(LoadChannel(c).tree)
<1> DEFINE t == SysTree[c]
<1>1. LockedUnset(t)
  BY SystemAssumption DEF LockedUnset
<1>2. ASSUME NEW f \in File PROVE LockedUnset(MergeUser(t, f))
  <2>1. ASSUME NEW p \in Paths, t[p] # NoNode, ~t[p].locked
        PROVE  ~[t[p] EXCEPT !.value = f[p]].locked
    <3>1. t[p] \in Node
      BY <2>1, SystemAssumption DEF Trees
    <3> QED BY <2>1, <3>1 DEF Node
  <2> QED BY <1>1, <2>1 DEF MergeUser, NewNode, LockedUnset
<1>3. userFile[c] = NoFile \/ userFile[c] \in File
  BY DEF TypeOK
<1> QED BY <1>1, <1>2, <1>3 DEF LoadChannel

LEMMA ObtainedLocked ==
    ASSUME TypeOK, LockedHoldsNoUserValue, NEW c \in ChannelNames
    PROVE  LockedUnset(Obtain(c).tree)
  BY LoadedLocked DEF Obtain, LockedHoldsNoUserValue

\* No write and no user file gives a locked property a user value: the checks
\* in set and handle_property suffice, whatever the trees and however calls,
\* saves, failures and restarts interleave.
THEOREM LocksHold == Spec => []LockedHoldsNoUserValue
<1>1. Init => LockedHoldsNoUserValue
  BY DEF Init, LockedHoldsNoUserValue
<1>2. TypeOK /\ LockedHoldsNoUserValue /\ [Next]_vars => LockedHoldsNoUserValue'
  <2> SUFFICES ASSUME TypeOK, LockedHoldsNoUserValue, [Next]_vars,
                      NEW d \in ChannelNames, channels'[d] # NotLoaded
               PROVE  LockedUnset(channels'[d].tree)
    BY DEF LockedHoldsNoUserValue
  <2>1. PICK c \in ChannelNames : StepsFrom(c, d)
    BY Steps
  <2> QED BY <2>1, ObtainType, ObtainedLocked, TreeStepLocked DEF StepsFrom
<1> QED BY <1>1, <1>2, TypeCorrect, PTL DEF Spec

\* What the administrator locked a value of is still there, with its lock.
LocksKept(c, t) ==
    \A p \in Paths :
        LET n == SysTree[c][p]
        IN  n # NoNode /\ n.locked /\ n.sys # NoValue
                => t[p] # NoNode /\ t[p].sys = n.sys /\ t[p].locked

LocksInPlace ==
    \A c \in ChannelNames : channels[c] # NotLoaded => LocksKept(c, channels[c].tree)

LEMMA TreeStepKeepsSystem ==
    ASSUME NEW t \in Trees, NEW u, TreeStep(t, u) PROVE KeepsSystem(t, u)
<1>1. ASSUME NEW p \in Paths, u = ResetUnder(t, p) PROVE KeepsSystem(t, u)
  <2> DEFINE w == UnsetValues(t, Under(p))
  <2>1. w \in Trees /\ KeepsSystem(t, w) /\ KeepsSystem(w, CleanUp(w, Under(p)))
    BY UnsetValuesType, UnsetValuesKeepsSystem, CleanUpKeepsSystem
  <2> QED BY <1>1, <2>1 DEF ResetUnder, KeepsSystem
<1>2. CASE u = t
  BY <1>2 DEF KeepsSystem
<1> QED BY <1>1, <1>2, WithValueKeepsSystem, ResetPropKeepsSystem, UnsetValuesKeepsSystem
        DEF TreeStep

LEMMA LoadedLocksKept ==
    ASSUME TypeOK, NEW c \in ChannelNames PROVE LocksKept(c, LoadChannel(c).tree)
<1>1. LocksKept(c, SysTree[c])
  BY DEF LocksKept
<1>2. ASSUME NEW f \in File PROVE LocksKept(c, MergeUser(SysTree[c], f))
  BY DEF MergeUser, LocksKept
<1>3. userFile[c] = NoFile \/ userFile[c] \in File
  BY DEF TypeOK
<1> QED BY <1>1, <1>2, <1>3 DEF LoadChannel

LEMMA LocksKeptReads ==
    ASSUME NEW c \in ChannelNames, NEW t \in Trees, LocksKept(c, t), LockedUnset(t),
           NEW p \in Paths, SysTree[c][p] # NoNode, SysTree[c][p].locked,
           SysTree[c][p].sys # NoValue
    PROVE  Effective(t, p) = SysTree[c][p].sys
  BY DEF LocksKept, LockedUnset, Effective

LEMMA LocksStayInPlace ==
    (\A c \in ChannelNames : Lower[c] = c) /\ Spec => []LocksInPlace
<1> SUFFICES ASSUME \A c \in ChannelNames : Lower[c] = c
             PROVE  Spec => []LocksInPlace
  OBVIOUS
<1>1. Init => LocksInPlace
  BY DEF Init, LocksInPlace
<1>2. TypeOK /\ LocksInPlace /\ [Next]_vars => LocksInPlace'
  <2> SUFFICES ASSUME TypeOK, LocksInPlace, [Next]_vars,
                      NEW d \in ChannelNames, channels'[d] # NotLoaded
               PROVE  LocksKept(d, channels'[d].tree)
    BY DEF LocksInPlace
  <2>1. StepsFrom(d, d)
    BY Steps DEF StepsFrom
  <2>2. KeepsSystem(Obtain(d).tree, channels'[d].tree)
    BY <2>1, ObtainType, TreeStepKeepsSystem DEF StepsFrom
  <2>3. LocksKept(d, Obtain(d).tree)
    BY LoadedLocksKept DEF Obtain, LocksInPlace
  <2> QED BY <2>2, <2>3 DEF LocksKept, KeepsSystem
<1> QED BY <1>1, <1>2, TypeCorrect, PTL DEF Spec

\* A locked value reads as the administrator set it, in every state, for all
\* trees and files, provided callers spell channel names in lower case: a
\* channel stored under another name than it was loaded by reads that one's
\* system files.
THEOREM LockedValuesStand ==
    (\A c \in ChannelNames : Lower[c] = c) /\ Spec => []LockedReadsSystem
<1> SUFFICES ASSUME \A c \in ChannelNames : Lower[c] = c
             PROVE  Spec => []LockedReadsSystem
  OBVIOUS
<1>1. Spec => []LocksInPlace
  BY LocksStayInPlace
<1>2. TypeOK /\ LocksInPlace /\ LockedHoldsNoUserValue => LockedReadsSystem
  <2> SUFFICES ASSUME TypeOK, LocksInPlace, LockedHoldsNoUserValue,
                      NEW c \in ChannelNames, NEW p \in Paths,
                      SysTree[c][p] # NoNode, SysTree[c][p].locked,
                      SysTree[c][p].sys # NoValue
               PROVE  GetValue(c, p) = SysTree[c][p].sys
    BY DEF LockedReadsSystem
  <2>1. LocksKept(c, Obtain(c).tree)
    BY LoadedLocksKept DEF Obtain, LocksInPlace
  <2> QED BY <2>1, ObtainType, ObtainedLocked, LocksKeptReads DEF GetValue
<1> QED BY <1>1, <1>2, TypeCorrect, LocksHold, PTL

-----------------------------------------------------------------------------
(* Unsaved changes *)

\* A channel just obtained is dirty only if it was in the table, dirty.
LEMMA ObtainedDirty ==
    ASSUME TypeOK, NEW c \in ChannelNames, Obtain(c).dirty PROVE Dirty # {}
  BY DEF Obtain, LoadChannel, Dirty

LEMMA KeptDirty ==
    ASSUME TypeOK, NEW c \in ChannelNames, NEW ch \in Channel, Keep(c, ch),
           ch.dirty => Dirty # {}, Dirty' # {}
    PROVE  Dirty # {}
<1>1. PICK d \in ChannelNames : channels'[d] # NotLoaded /\ channels'[d].dirty
  BY DEF Dirty
<1>2. CASE d = Lower[c]
  BY <1>1, <1>2, Kept
<1>3. CASE d # Lower[c]
  BY <1>1, <1>3, Kept DEF Dirty
<1> QED BY <1>2, <1>3

LEMMA FlushedClean ==
    ASSUME TypeOK, FlushChannels PROVE Dirty' = {}
<1>1. PICK lost : channels' = Flushed(Dirty, lost)
  BY DEF FlushChannels
<1> SUFFICES ASSUME NEW d \in ChannelNames, channels'[d] # NotLoaded, channels'[d].dirty
             PROVE  FALSE
  BY DEF Dirty
<1> QED BY <1>1, FlushedEntry DEF Dirty

\* Unsaved changes never wait without a timer: every path that makes a channel
\* dirty starts it, and the timer goes off only when all channels are cleaned.
THEOREM DirtyHasTimer == Spec => []DirtyIsScheduled
<1>1. Init => DirtyIsScheduled
  BY DEF Init, Dirty, DirtyIsScheduled
<1>2. TypeOK /\ DirtyIsScheduled /\ [Next]_vars => DirtyIsScheduled'
  <2> SUFFICES ASSUME TypeOK, DirtyIsScheduled, [Next]_vars, Dirty' # {}
               PROVE  timer' > 0
    BY DEF DirtyIsScheduled
  <2>1. ASSUME NEW c \in ChannelNames, Keep(c, Obtain(c)), UNCHANGED timer
        PROVE  timer' > 0
    BY <2>1, ObtainType, ObtainedDirty, KeptDirty DEF DirtyIsScheduled
  <2>2. ASSUME ScheduleSave PROVE timer' > 0
    BY <2>2, TimerType DEF ScheduleSave
  <2>3. ASSUME NEW c \in ChannelNames, NEW p \in Paths, NEW v \in Values, Set(c, p, v)
        PROVE  timer' > 0
    BY <2>1, <2>2, <2>3 DEF Set
  <2>4. ASSUME NEW c \in ChannelNames, NEW p \in Paths, Reset(c, p) PROVE timer' > 0
    BY <2>1, <2>2, <2>4 DEF Reset
  <2>5. ASSUME NEW c \in ChannelNames, NEW p \in Paths, ResetRecursive(c, p)
        PROVE  timer' > 0
    BY <2>1, <2>2, <2>5 DEF ResetRecursive
  <2>6. ASSUME NEW c \in ChannelNames, ResetChannel(c) PROVE timer' > 0
    <3> DEFINE u == UnsetValues(Obtain(c).tree, Paths)
               emptied == [Obtain(c) EXCEPT !.tree = u]
    <3>1. emptied.dirty = Obtain(c).dirty
      BY ObtainType, UnsetValuesType, ChangedType
    <3>2. PICK d \in ChannelNames : channels'[d] # NotLoaded /\ channels'[d].dirty
      BY DEF Dirty
    <3>3. channels'[d] = emptied \/ channels'[d] = channels[d]
      BY <2>6, <3>2, LowerType DEF ResetChannel, TypeOK
    <3>4. Dirty # {}
      BY <3>1, <3>2, <3>3, ObtainedDirty DEF Dirty
    <3> QED BY <2>6, <3>4 DEF ResetChannel, DirtyIsScheduled
  <2>7. ASSUME NEW c \in ChannelNames, Read(c) PROVE timer' > 0
    BY <2>1, <2>7 DEF Read
  <2>8. CASE Flush \/ SaveTimeout
    BY <2>8, FlushedClean DEF Flush, SaveTimeout
  <2>9. CASE Tick
    BY <2>9 DEF Tick, TypeOK
  <2>10. CASE Finalize \/ Crash
    BY <2>10 DEF Finalize, Crash, Dirty
  <2>11. CASE UNCHANGED vars
    BY <2>11 DEF vars, Dirty, DirtyIsScheduled
  <2> QED BY <2>3, <2>4, <2>5, <2>6, <2>7, <2>8, <2>9, <2>10, <2>11 DEF Next, Modify, Settable
<1> QED BY <1>1, <1>2, TypeCorrect, PTL DEF Spec

-----------------------------------------------------------------------------
(* What a property reads *)

SysOf(t, p) == IF t[p] = NoNode THEN NoValue ELSE t[p].sys

\* u has the defaults of t, and its user values outside of S.
ChangesIn(t, u, S) ==
    \A q \in Paths : SysOf(u, q) = SysOf(t, q)
                     /\ (q \notin S => UserValue(u, q) = UserValue(t, q))

\* Callers spell channel names in lower case, so that a channel is found again
\* under the name it was stored by.
SpelledLower == \A c \in ChannelNames : Lower[c] = c

\* Locked properties have a value: the node of one that has none goes with the
\* reset of its last child, and its lock with it.
LocksHaveValues ==
    \A c \in ChannelNames, p \in Paths :
        SysTree[c][p] # NoNode /\ SysTree[c][p].locked => SysTree[c][p].sys # NoValue

LEMMA EffectiveOf ==
    ASSUME NEW t \in Trees, NEW p \in Paths
    PROVE  Effective(t, p) = IF UserValue(t, p) # NoValue THEN UserValue(t, p) ELSE SysOf(t, p)
  BY DEF Effective, UserValue, SysOf

\* Where nothing changed, a property reads as before.
LEMMA UnchangedReads ==
    ASSUME NEW t \in Trees, NEW u \in Trees, NEW S, ChangesIn(t, u, S),
           NEW p \in Paths, p \notin S
    PROVE  Effective(u, p) = Effective(t, p)
  BY EffectiveOf DEF ChangesIn

-----------------------------------------------------------------------------
(* Trees *)

\* A node whose user value is replaced.
LEMMA ReplacedNode ==
    ASSUME NEW n \in Node, NEW v \in Values \cup {NoValue}
    PROVE  LET m == [n EXCEPT !.value = v]
           IN  m # NoNode /\ m.value = v /\ m.sys = n.sys
<1>1. [n EXCEPT !.value = v] \in Node
  BY DEF Node
<1> QED BY <1>1, SentinelAssumption DEF Node

LEMMA WithValueChanges ==
    ASSUME NEW t \in Trees, NEW p \in Paths, NEW v \in Values
    PROVE  /\ ChangesIn(t, WithValue(t, p, v), {p})
           /\ UserValue(WithValue(t, p, v), p) = v
<1>1. CASE t[p] = NoNode
  <2>1. NewNode(v) # NoNode /\ NewNode(NoValue) # NoNode
    BY NewNodeType
  <2> QED BY <1>1, <2>1 DEF WithValue, AddProperty, NewNode, ChangesIn, UserValue, SysOf
<1>2. CASE t[p] # NoNode
  <2> DEFINE m == [t[p] EXCEPT !.value = v]
             u == WithValue(t, p, v)
  <2>1. m # NoNode /\ m.value = v /\ m.sys = t[p].sys
    BY <1>2, ReplacedNode DEF Trees
  <2>2. u[p] = m /\ \A q \in Paths : q # p => u[q] = t[q]
    BY <1>2 DEF WithValue, Trees
  <2> QED BY <1>2, <2>1, <2>2 DEF ChangesIn, UserValue, SysOf
<1> QED BY <1>1, <1>2

\* An unset node keeps its default and loses its user value.
LEMMA UnsetValuesChanges ==
    ASSUME NEW t \in Trees, NEW S
    PROVE  /\ ChangesIn(t, UnsetValues(t, S), S)
           /\ \A q \in Paths : q \in S => UserValue(UnsetValues(t, S), q) = NoValue
<1> DEFINE u == UnsetValues(t, S)
<1> SUFFICES ASSUME NEW q \in Paths
             PROVE  /\ SysOf(u, q) = SysOf(t, q)
                    /\ q \notin S => UserValue(u, q) = UserValue(t, q)
                    /\ q \in S => UserValue(u, q) = NoValue
  BY DEF ChangesIn
<1>1. CASE t[q] = NoNode
  BY <1>1 DEF UnsetValues, UserValue, SysOf
<1>2. CASE t[q] # NoNode
  <2> DEFINE m == [t[q] EXCEPT !.value = NoValue]
  <2>1. m # NoNode /\ m.value = NoValue /\ m.sys = t[q].sys
    BY <1>2, ReplacedNode DEF Trees
  <2> QED BY <1>2, <2>1 DEF UnsetValues, UserValue, SysOf
<1> QED BY <1>1, <1>2

\* The nodes that a reset unlinks besides the property's hold nothing.
LEMMA ResetPropChanges ==
    ASSUME NEW t \in Trees, NEW p \in Paths, t[p] # NoNode
    PROVE  /\ ChangesIn(t, ResetProp(t, p), {p})
           /\ UserValue(ResetProp(t, p), p) = NoValue
<1> DEFINE u == ResetProp(t, p)
<1>1. CASE HasChildren(t, p) \/ t[p].sys # NoValue
  <2> DEFINE m == [t[p] EXCEPT !.value = NoValue]
  <2>1. m # NoNode /\ m.value = NoValue /\ m.sys = t[p].sys
    BY ReplacedNode DEF Trees
  <2>2. u[p] = m /\ \A q \in Paths : q # p => u[q] = t[q]
    BY <1>1 DEF ResetProp, Trees
  <2> QED BY <2>1, <2>2 DEF ChangesIn, UserValue, SysOf
<1>2. CASE ~(HasChildren(t, p) \/ t[p].sys # NoValue)
  <2>1. \A q \in PrunedWith(t, p) : Valueless(t[q])
    BY DEF PrunedWith
  <2>2. t[p].sys = NoValue
    BY <1>2
  <2> QED BY <1>2, <2>1, <2>2 DEF ResetProp, Valueless, ChangesIn, UserValue, SysOf
<1> QED BY <1>1, <1>2

LEMMA CleanUpChanges ==
    ASSUME NEW t \in Trees, NEW S PROVE ChangesIn(t, CleanUp(t, S), {})
<1>1. \A q \in Paths : q \in Under(q)
  BY DEF Under
<1> QED BY <1>1 DEF CleanUp, Valueless, ChangesIn, UserValue, SysOf

LEMMA ResetUnderChanges ==
    ASSUME NEW t \in Trees, NEW p \in Paths
    PROVE  /\ ChangesIn(t, ResetUnder(t, p), UserValued(t, Under(p)))
           /\ \A q \in Under(p) : UserValue(ResetUnder(t, p), q) = NoValue
<1> DEFINE w == UnsetValues(t, Under(p))
           u == CleanUp(w, Under(p))
<1>1. w \in Trees
  BY UnsetValuesType
<1>2. ChangesIn(t, w, Under(p)) /\ ChangesIn(w, u, {})
  BY <1>1, UnsetValuesChanges, CleanUpChanges
<1>3. \A q \in Under(p) : UserValue(w, q) = NoValue
  BY UnsetValuesChanges DEF Under
<1>4. \A q \in Under(p) : q \notin UserValued(t, Under(p)) => UserValue(t, q) = NoValue
  BY DEF UserValued, UserValue
<1>5. \A q \in Under(p) : UserValue(u, q) = NoValue
  BY <1>2, <1>3 DEF ChangesIn, Under
<1> QED BY <1>2, <1>3, <1>4, <1>5 DEF ResetUnder, ChangesIn

\* No operation on a tree changes a default.
LEMMA TreeStepSys ==
    ASSUME NEW t \in Trees, NEW u, TreeStep(t, u), NEW p \in Paths
    PROVE  SysOf(u, p) = SysOf(t, p)
<1>1. ASSUME NEW q \in Paths, NEW v \in Values, u = WithValue(t, q, v)
      PROVE  SysOf(u, p) = SysOf(t, p)
  BY <1>1, WithValueChanges DEF ChangesIn
<1>2. ASSUME NEW q \in Paths, t[q] # NoNode, u = ResetProp(t, q)
      PROVE  SysOf(u, p) = SysOf(t, p)
  BY <1>2, ResetPropChanges DEF ChangesIn
<1>3. ASSUME NEW q \in Paths, u = ResetUnder(t, q) PROVE SysOf(u, p) = SysOf(t, p)
  BY <1>3, ResetUnderChanges DEF ChangesIn
<1>4. ASSUME NEW S, u = UnsetValues(t, S) PROVE SysOf(u, p) = SysOf(t, p)
  BY <1>4, UnsetValuesChanges DEF ChangesIn
<1> QED BY <1>1, <1>2, <1>3, <1>4 DEF TreeStep

-----------------------------------------------------------------------------
(* Channels *)

SystemInPlace ==
    \A c \in ChannelNames : channels[c] # NotLoaded =>
        \A p \in Paths : SysOf(channels[c].tree, p) = SysOf(SysTree[c], p)

\* Merging a user file changes no default.
LEMMA LoadedSys ==
    ASSUME TypeOK, NEW c \in ChannelNames, NEW p \in Paths
    PROVE  SysOf(LoadChannel(c).tree, p) = SysOf(SysTree[c], p)
<1> DEFINE t == SysTree[c]
<1>1. ASSUME NEW f \in File PROVE SysOf(MergeUser(t, f), p) = SysOf(t, p)
  <2>1. t \in Trees
    BY SystemAssumption
  <2>2. CASE f[p] = NoNode \/ (t[p] # NoNode /\ t[p].locked)
    BY <2>2 DEF MergeUser, SysOf
  <2>3. CASE f[p] # NoNode /\ t[p] = NoNode
    <3>1. f[p] \in Values \cup {NoValue}
      BY <2>3 DEF File
    <3>2. NewNode(f[p]) # NoNode /\ NewNode(f[p]).sys = NoValue
      BY <3>1, NewNodeType DEF NewNode
    <3> QED BY <2>3, <3>2 DEF MergeUser, SysOf
  <2>4. CASE f[p] # NoNode /\ t[p] # NoNode /\ ~t[p].locked
    <3> DEFINE m == [t[p] EXCEPT !.value = f[p]]
    <3>1. f[p] \in Values \cup {NoValue}
      BY <2>4 DEF File
    <3>2. m # NoNode /\ m.sys = t[p].sys
      BY <2>1, <2>4, <3>1, ReplacedNode DEF Trees
    <3> QED BY <2>4, <3>2 DEF MergeUser, SysOf
  <2> QED BY <2>2, <2>3, <2>4
<1>2. userFile[c] = NoFile \/ userFile[c] \in File
  BY DEF TypeOK
<1> QED BY <1>1, <1>2 DEF LoadChannel

LEMMA ObtainedSys ==
    ASSUME TypeOK, SystemInPlace, NEW c \in ChannelNames, NEW p \in Paths
    PROVE  SysOf(Obtain(c).tree, p) = SysOf(SysTree[c], p)
  BY LoadedSys DEF Obtain, SystemInPlace

LEMMA SystemStep ==
    ASSUME TypeOK, SystemInPlace, [Next]_vars, SpelledLower
    PROVE  SystemInPlace'
<1> SUFFICES ASSUME NEW d \in ChannelNames, channels'[d] # NotLoaded, NEW p \in Paths
             PROVE  SysOf(channels'[d].tree, p) = SysOf(SysTree[d], p)
  BY DEF SystemInPlace
<1>1. PICK c \in ChannelNames : StepsFrom(c, d)
  BY Steps
<1>2. d = c /\ TreeStep(Obtain(c).tree, channels'[d].tree)
  BY <1>1 DEF StepsFrom, SpelledLower
<1>3. SysOf(channels'[d].tree, p) = SysOf(Obtain(c).tree, p)
  BY <1>2, ObtainType, TreeStepSys
<1> QED BY <1>2, <1>3, ObtainedSys

LEMMA SystemStays == SpelledLower /\ Spec => []SystemInPlace
<1> SUFFICES ASSUME SpelledLower PROVE Spec => []SystemInPlace
  OBVIOUS
<1>1. Init => SystemInPlace
  BY DEF Init, SystemInPlace
<1>2. TypeOK /\ SystemInPlace /\ [Next]_vars => SystemInPlace'
  BY SystemStep
<1> QED BY <1>1, <1>2, TypeCorrect, PTL DEF Spec

\* What is obtained and loaded once a channel is kept.
LEMMA KeptObtain ==
    ASSUME TypeOK, SpelledLower, UNCHANGED userFile,
           NEW c \in ChannelNames, NEW ch \in Channel, Keep(c, ch), NEW d \in ChannelNames
    PROVE  /\ Obtain(d)' = IF d = c THEN ch ELSE Obtain(d)
           /\ LoadChannel(d)' = LoadChannel(d)
<1>1. channels'[c] = ch /\ (d # c => channels'[d] = channels[d])
  BY Kept DEF SpelledLower
<1>2. ch # NotLoaded
  BY NotLoadedAssumption
<1>3. LoadChannel(d)' = LoadChannel(d)
  BY DEF LoadChannel
<1>4. CASE d = c
  BY <1>1, <1>2, <1>3, <1>4 DEF Obtain
<1>5. CASE d # c
  BY <1>1, <1>3, <1>5 DEF Obtain
<1> QED BY <1>3, <1>4, <1>5

\* Properties outside of S in channel c, and those of other channels, read as
\* before.
ReadsChangeIn(c, S) ==
    \A d \in ChannelNames, p \in Paths :
        d # c \/ p \notin S => GetValue(d, p)' = GetValue(d, p)

LEMMA KeptSameReads ==
    ASSUME TypeOK, SpelledLower, UNCHANGED userFile,
           NEW c \in ChannelNames, Keep(c, Obtain(c))
    PROVE  ReadsChangeIn(c, {})
  BY KeptObtain, ObtainType DEF ReadsChangeIn, GetValue

\* A channel is kept with another tree.
LEMMA KeptTreeReads ==
    ASSUME TypeOK, SpelledLower, UNCHANGED userFile,
           NEW c \in ChannelNames, NEW u \in Trees, NEW S, ChangesIn(Obtain(c).tree, u, S),
           Keep(c, [Obtain(c) EXCEPT !.tree = u, !.dirty = TRUE])
    PROVE  ReadsChangeIn(c, S)
<1> SUFFICES ASSUME NEW d \in ChannelNames, NEW p \in Paths, d # c \/ p \notin S
             PROVE  GetValue(d, p)' = GetValue(d, p)
  BY DEF ReadsChangeIn
<1> DEFINE ch == [Obtain(c) EXCEPT !.tree = u, !.dirty = TRUE]
<1>1. ch \in Channel /\ ch.tree = u
  BY ChangedType
<1> HIDE DEF ch
<1>2. GetValue(d, p)' = IF d = c THEN Effective(u, p) ELSE GetValue(d, p)
  BY <1>1, KeptObtain DEF ch, GetValue
<1>3. p \notin S => Effective(u, p) = GetValue(c, p)
  BY ObtainType, UnchangedReads DEF GetValue
<1> QED BY <1>2, <1>3

-----------------------------------------------------------------------------
(* Resets *)

\* A channel is obtained as before, or it is kept with the tree of a reset.
LEMMA ResetReads ==
    ASSUME TypeOK, SpelledLower, NEW c \in ChannelNames, NEW p \in Paths, Reset(c, p)
    PROVE  ReadsChangeIn(c, {p})
<1>1. CASE Keep(c, Obtain(c))
  BY <1>1, KeptSameReads DEF Reset, ReadsChangeIn
<1>2. CASE /\ ResetFound(c, p)
           /\ Keep(c, [Obtain(c) EXCEPT !.tree = ResetProp(@, p), !.dirty = TRUE])
  <2> DEFINE u == ResetProp(Obtain(c).tree, p)
  <2>1. u \in Trees /\ ChangesIn(Obtain(c).tree, u, {p})
    BY <1>2, ObtainType, ResetPropType, ResetPropChanges DEF ResetFound
  <2>2. Keep(c, [Obtain(c) EXCEPT !.tree = u, !.dirty = TRUE]) /\ UNCHANGED userFile
    BY <1>2 DEF Reset
  <2> HIDE DEF u
  <2> QED BY <2>1, <2>2, KeptTreeReads
<1> QED BY <1>1, <1>2 DEF Reset

\* A reset of one property changes what no other reads, whatever it unlinks.
THEOREM ResetsChangeOne == SpelledLower /\ Spec => ResetChangesOne
<1> SUFFICES ASSUME SpelledLower PROVE Spec => ResetChangesOne
  OBVIOUS
<1>1. TypeOK => \A c \in ChannelNames, p \in Paths : Reset(c, p) =>
                   \A q \in Paths \ {p} : GetValue(c, q)' = GetValue(c, q)
  BY ResetReads DEF ReadsChangeIn
<1> QED BY <1>1, TypeCorrect, PTL DEF ResetChangesOne

-----------------------------------------------------------------------------
(* User values in memory and on disk *)

UserNow(c, p) == UserValue(Obtain(c).tree, p)
UserSaved(c, p) == UserValue(LoadChannel(c).tree, p)
AsSaved(v) == IF v \in Unwritable \cup {NoValue} THEN NoValue ELSE Reread(v)

LEMMA SystemHoldsNoUserValue ==
    ASSUME NEW c \in ChannelNames, NEW p \in Paths
    PROVE  SysTree[c] \in Trees /\ UserValue(SysTree[c], p) = NoValue
  BY SystemAssumption DEF UserValue

\* What a merged file makes of a property.
LEMMA MergedValue ==
    ASSUME NEW c \in ChannelNames, NEW f \in File, NEW p \in Paths
    PROVE  UserValue(MergeUser(SysTree[c], f), p) =
               IF f[p] = NoNode \/ (SysTree[c][p] # NoNode /\ SysTree[c][p].locked)
               THEN NoValue ELSE f[p]
<1> DEFINE t == SysTree[c]
<1>1. t \in Trees /\ UserValue(t, p) = NoValue
  BY SystemHoldsNoUserValue
<1>2. CASE f[p] = NoNode \/ (t[p] # NoNode /\ t[p].locked)
  BY <1>1, <1>2 DEF MergeUser, UserValue
<1>3. CASE f[p] # NoNode /\ t[p] = NoNode
  <2>1. f[p] \in Values \cup {NoValue}
    BY <1>3 DEF File
  <2>2. NewNode(f[p]) # NoNode /\ NewNode(f[p]).value = f[p]
    BY <2>1, NewNodeType DEF NewNode
  <2> QED BY <1>3, <2>2 DEF MergeUser, UserValue
<1>4. CASE f[p] # NoNode /\ t[p] # NoNode /\ ~t[p].locked
  <2> DEFINE m == [t[p] EXCEPT !.value = f[p]]
  <2>1. f[p] \in Values \cup {NoValue}
    BY <1>4 DEF File
  <2>2. m # NoNode /\ m.value = f[p]
    BY <1>1, <1>4, <2>1, ReplacedNode DEF Trees
  <2> QED BY <1>4, <2>2 DEF MergeUser, UserValue
<1> QED BY <1>2, <1>3, <1>4

\* A property the system files lock holds no user value in memory either.
LEMMA LockedIsUnset ==
    ASSUME TypeOK, LocksInPlace, LockedHoldsNoUserValue, LocksHaveValues,
           NEW c \in ChannelNames, channels[c] # NotLoaded,
           NEW p \in Paths, SysTree[c][p] # NoNode, SysTree[c][p].locked
    PROVE  /\ channels[c].tree[p] # NoNode /\ channels[c].tree[p].locked
           /\ UserValue(channels[c].tree, p) = NoValue
  BY DEF LocksInPlace, LocksKept, LocksHaveValues, LockedHoldsNoUserValue, LockedUnset,
         UserValue

\* Loading a channel that was just written gives its user values, as the file
\* keeps them.
LEMMA WrittenLoads ==
    ASSUME TypeOK, LocksInPlace, LockedHoldsNoUserValue, LocksHaveValues,
           NEW ok \in SUBSET Dirty, userFile' = Written(ok),
           NEW c \in ChannelNames, NEW p \in Paths
    PROVE  UserSaved(c, p)' = IF c \in ok /\ ~SysLocked[c] THEN AsSaved(UserNow(c, p))
                              ELSE UserSaved(c, p)
<1>1. CASE c \notin ok
  <2>1. userFile'[c] = userFile[c]
    BY <1>1 DEF Written
  <2> QED BY <1>1, <2>1 DEF UserSaved, LoadChannel
<1>2. CASE c \in ok /\ SysLocked[c]
  BY <1>2 DEF UserSaved, LoadChannel
<1>3. CASE c \in ok /\ ~SysLocked[c]
  <2> DEFINE t == channels[c].tree
             f == FileOf(t)
  <2>1. channels[c] # NotLoaded /\ t \in Trees /\ Obtain(c) = channels[c]
    BY <1>3, LoadedType DEF Dirty, Obtain
  <2>2. f \in File
    BY <2>1, FileOfType
  <2>3. userFile'[c] = f /\ f # NoFile
    BY <1>3, <2>2, FilesAssumption DEF Written
  <2>4. UserSaved(c, p)' = UserValue(MergeUser(SysTree[c], f), p)
    BY <1>3, <2>3 DEF UserSaved, LoadChannel
  <2>5. f[p] = IF t[p] = NoNode THEN NoNode ELSE AsSaved(UserValue(t, p))
    BY DEF FileOf, AsSaved, UserValue
  <2>6. AsSaved(UserValue(t, p)) # NoNode
    <3>1. t[p] # NoNode => t[p].value \in Values \cup {NoValue}
      BY <2>1 DEF Trees, Node
    <3> QED BY <3>1, ValuesAssumption DEF AsSaved, UserValue
  <2>7. t[p] = NoNode => UserValue(t, p) = NoValue
    BY DEF UserValue
  <2>8. SysTree[c][p] # NoNode /\ SysTree[c][p].locked => UserValue(t, p) = NoValue
    BY <2>1, LockedIsUnset
  <2>9. UserValue(MergeUser(SysTree[c], f), p) = AsSaved(UserValue(t, p))
    <3> HIDE DEF t, f
    <3> QED BY <2>2, <2>5, <2>6, <2>7, <2>8, MergedValue DEF AsSaved
  <2> QED BY <1>3, <2>1, <2>4, <2>9 DEF UserNow
<1> QED BY <1>1, <1>2, <1>3

\* A flush changes the user values that it loses.
LEMMA FlushedUser ==
    ASSUME TypeOK, NEW ok \in SUBSET Dirty, userFile' = Written(ok),
           NEW lost \in SUBSET Perishing, channels' = Flushed(Dirty, lost),
           NEW c \in ChannelNames, NEW p \in Paths
    PROVE  /\ UserNow(c, p)' = IF <<c, p>> \in lost THEN NoValue ELSE UserNow(c, p)
           /\ <<c, p>> \in lost => /\ c \in Dirty
                                   /\ UserNow(c, p) \in Unwritable
                                   /\ channels'[c].tree[p].value = NoValue
<1>1. ASSUME <<c, p>> \in lost
      PROVE  /\ c \in Dirty
             /\ channels[c].tree[p] # NoNode /\ channels[c].tree[p].value \in Unwritable
  BY <1>1 DEF Perishing
<1>2. CASE c \notin Dirty
  <2>1. channels'[c] = channels[c] /\ userFile'[c] = userFile[c]
    BY <1>2, FlushedEntry DEF Written
  <2>2. Obtain(c)' = Obtain(c)
    BY <2>1 DEF Obtain, LoadChannel
  <2> QED BY <1>1, <1>2, <2>2 DEF UserNow
<1>3. CASE c \in Dirty
  <2> DEFINE t == channels[c].tree
             u == UnsetValues(t, LostIn(c, lost))
  <2>1. channels[c] # NotLoaded /\ t \in Trees
    BY <1>3, LoadedType DEF Dirty
  <2>2. channels'[c] \in Channel /\ channels'[c].tree = u
    BY <1>3, FlushedEntry
  <2>3. Obtain(c).tree = t /\ Obtain(c)'.tree = u
    BY <2>1, <2>2, NotLoadedAssumption DEF Obtain
  <2>4. ChangesIn(t, u, LostIn(c, lost))
        /\ \A q \in Paths : q \in LostIn(c, lost) => UserValue(u, q) = NoValue
    BY <2>1, UnsetValuesChanges
  <2>5. p \in LostIn(c, lost) <=> <<c, p>> \in lost
    BY DEF LostIn
  <2>6. UserValue(u, p) = IF <<c, p>> \in lost THEN NoValue ELSE UserValue(t, p)
    BY <2>4, <2>5 DEF ChangesIn
  <2>7. <<c, p>> \in lost => u[p].value = NoValue
    <3>1. t[p] # NoNode => [t[p] EXCEPT !.value = NoValue].value = NoValue
      BY <2>1, ReplacedNode DEF Trees
    <3> QED BY <1>1, <2>5, <3>1 DEF UnsetValues
  <2>8. UserNow(c, p)' = UserValue(u, p) /\ UserNow(c, p) = UserValue(t, p)
    BY <2>3 DEF UserNow
  <2> QED BY <1>1, <2>2, <2>6, <2>7, <2>8 DEF UserValue
<1> QED BY <1>2, <1>3

-----------------------------------------------------------------------------
(* Clean channels *)

\* Of a user value, what a file may give back.
Matches(now, later) == later = now \/ (now # NoValue /\ later = Reread(now))

\* The file of a clean channel gives its user values back, as files keep them.
CleanMatchesFile ==
    \A c \in ChannelNames :
        channels[c] # NotLoaded /\ ~channels[c].dirty /\ ~SysLocked[c]
        /\ Savable(channels[c].tree) =>
            \A p \in Paths : Matches(UserNow(c, p), UserSaved(c, p))

\* A channel that is kept as it was obtained: loaded just now, or as clean as
\* it was.
LEMMA KeptClean ==
    ASSUME TypeOK, SpelledLower, CleanMatchesFile, UNCHANGED userFile,
           NEW c \in ChannelNames, NEW ch \in Channel, Keep(c, ch), ch.dirty \/ ch = Obtain(c)
    PROVE  CleanMatchesFile'
<1> SUFFICES ASSUME NEW d \in ChannelNames, channels'[d] # NotLoaded, ~channels'[d].dirty,
                    ~SysLocked[d], Savable(channels'[d].tree), NEW p \in Paths
             PROVE  Matches(UserNow(d, p)', UserSaved(d, p)')
  BY DEF CleanMatchesFile, Savable
<1>1. /\ Obtain(d)' = IF d = c THEN ch ELSE Obtain(d)
      /\ LoadChannel(d)' = LoadChannel(d)
  BY KeptObtain
<1>2. channels'[d] = IF d = c THEN ch ELSE channels[d]
  BY Kept DEF SpelledLower
<1>3. UserNow(d, p)' = UserNow(d, p) /\ UserSaved(d, p)' = UserSaved(d, p)
  BY <1>1, <1>2 DEF UserNow, UserSaved
<1>4. CASE channels[d] = NotLoaded
  BY <1>3, <1>4 DEF UserNow, UserSaved, Obtain, Matches
<1>5. CASE channels[d] # NotLoaded
  <2>1. ~channels[d].dirty /\ Savable(channels[d].tree)
    BY <1>2, <1>5 DEF Obtain
  <2> QED BY <1>3, <1>5, <2>1 DEF CleanMatchesFile
<1> QED BY <1>4, <1>5

\* What is lost can be written, in a way.
LEMMA FlushedSavable ==
    ASSUME NEW t \in Trees, NEW S, Savable(UnsetValues(t, S)),
           \A q \in S : t[q].value \in Unwritable
    PROVE  Savable(t)
<1> SUFFICES ASSUME NEW q \in Paths, t[q] # NoNode PROVE t[q].value \notin Unsavable
  BY DEF Savable
<1>1. CASE q \in S
  BY <1>1, ValuesAssumption
<1>2. CASE q \notin S
  BY <1>2 DEF Savable, UnsetValues
<1> QED BY <1>1, <1>2

\* With a working disk, every channel that can be saved is.
LEMMA FlushMatches ==
    ASSUME TypeOK, LocksInPlace, LockedHoldsNoUserValue, LocksHaveValues,
           CleanMatchesFile, ~DiskFails, FlushChannels
    PROVE  CleanMatchesFile'
<1>1. PICK lost \in Losses(SavableDirty) :
          userFile' = Written(SavableDirty) /\ channels' = Flushed(Dirty, lost)
  BY DEF FlushChannels, FlushResults
<1>2. lost \in SUBSET Perishing /\ SavableDirty \in SUBSET Dirty
  BY SavableDirtyIsDirty DEF Losses
<1> SUFFICES ASSUME NEW d \in ChannelNames, channels'[d] # NotLoaded, ~SysLocked[d],
                    Savable(channels'[d].tree), NEW p \in Paths
             PROVE  Matches(UserNow(d, p)', UserSaved(d, p)')
  BY DEF CleanMatchesFile, Savable
<1>3. UserNow(d, p)' = IF <<d, p>> \in lost THEN NoValue ELSE UserNow(d, p)
  BY <1>1, <1>2, FlushedUser
<1>4. UserSaved(d, p)' = IF d \in SavableDirty THEN AsSaved(UserNow(d, p))
                         ELSE UserSaved(d, p)
  BY <1>1, <1>2, WrittenLoads
<1>5. CASE d \notin Dirty
  <2>1. channels'[d] = channels[d] /\ channels[d] # NotLoaded /\ ~channels[d].dirty
    BY <1>1, <1>5, FlushedEntry DEF Dirty
  <2>2. <<d, p>> \notin lost /\ d \notin SavableDirty
    BY <1>2, <1>5 DEF Perishing
  <2> QED BY <1>3, <1>4, <2>1, <2>2 DEF CleanMatchesFile
<1>6. CASE d \in Dirty
  <2> DEFINE t == channels[d].tree
  <2>1. channels[d] # NotLoaded /\ t \in Trees
    BY <1>6, LoadedType DEF Dirty
  <2>2. channels'[d].tree = UnsetValues(t, LostIn(d, lost))
    BY <1>1, <1>6, FlushedEntry
  <2>3. \A q \in LostIn(d, lost) : t[q].value \in Unwritable
    BY <1>2 DEF LostIn, Perishing
  <2>4. d \in SavableDirty
    BY <1>6, <2>1, <2>2, <2>3, FlushedSavable DEF SavableDirty
  <2>5. UserNow(d, p) = UserValue(t, p)
    BY <2>1 DEF UserNow, Obtain
  <2>6. UserNow(d, p) \in Unwritable => <<d, p>> \in lost
    <3>1. UserNow(d, p) \in Unwritable => <<d, p>> \in Perishing
      BY <1>6, <2>5, ValuesAssumption, SentinelAssumption DEF UserValue, Perishing
    <3>2. <<d, p>> \in Perishing => <<d, p>> \in lost
      BY <1>1, <2>4 DEF Losses
    <3> QED BY <3>1, <3>2
  <2>7. <<d, p>> \in lost => UserNow(d, p) \in Unwritable
    BY <1>1, <1>2, FlushedUser
  <2> QED BY <1>3, <1>4, <2>4, <2>6, <2>7 DEF Matches, AsSaved
<1> QED BY <1>5, <1>6

LEMMA CleanStep ==
    ASSUME SpelledLower, LocksHaveValues, ~DiskFails,
           TypeOK, LocksInPlace, LockedHoldsNoUserValue, CleanMatchesFile, [Next]_vars
    PROVE  CleanMatchesFile'
<1>1. ASSUME NEW c \in ChannelNames, Keep(c, Obtain(c)), UNCHANGED userFile
      PROVE  CleanMatchesFile'
  BY <1>1, KeptClean, ObtainType
<1>2. ASSUME NEW c \in ChannelNames, NEW u \in Trees, UNCHANGED userFile,
             Keep(c, [Obtain(c) EXCEPT !.tree = u, !.dirty = TRUE])
      PROVE  CleanMatchesFile'
  <2> DEFINE ch == [Obtain(c) EXCEPT !.tree = u, !.dirty = TRUE]
  <2>1. ch \in Channel /\ ch.dirty
    BY ObtainType, ChangedType DEF Channel
  <2> HIDE DEF ch
  <2> QED BY <1>2, <2>1, KeptClean DEF ch
<1>3. ASSUME NEW c \in ChannelNames, NEW p \in Paths, NEW v \in Values, Set(c, p, v)
      PROVE  CleanMatchesFile'
  <2>1. WithValue(Obtain(c).tree, p, v) \in Trees
    BY ObtainType, WithValueType
  <2> QED BY <1>1, <1>2, <1>3, <2>1 DEF Set
<1>4. ASSUME NEW c \in ChannelNames, NEW p \in Paths, Reset(c, p) PROVE CleanMatchesFile'
  <2>1. ResetFound(c, p) => ResetProp(Obtain(c).tree, p) \in Trees
    BY ObtainType, ResetPropType DEF ResetFound
  <2> QED BY <1>1, <1>2, <1>4, <2>1 DEF Reset
<1>5. ASSUME NEW c \in ChannelNames, NEW p \in Paths, ResetRecursive(c, p)
      PROVE  CleanMatchesFile'
  <2>1. ResetUnder(Obtain(c).tree, p) \in Trees
    BY ObtainType, ResetUnderType
  <2> QED BY <1>1, <1>2, <1>5, <2>1 DEF ResetRecursive
<1>6. ASSUME NEW c \in ChannelNames, ResetChannel(c) PROVE CleanMatchesFile'
  <2> SUFFICES ASSUME NEW d \in ChannelNames, channels'[d] # NotLoaded, ~channels'[d].dirty,
                      ~SysLocked[d], Savable(channels'[d].tree), NEW p \in Paths
               PROVE  Matches(UserNow(d, p)', UserSaved(d, p)')
    BY DEF CleanMatchesFile, Savable
  <2>1. d # c /\ channels'[d] = channels[d] /\ userFile'[d] = userFile[d]
    BY <1>6 DEF ResetChannel, SpelledLower, TypeOK
  <2>2. Matches(UserNow(d, p), UserSaved(d, p))
    BY <2>1 DEF CleanMatchesFile
  <2> QED BY <2>1, <2>2 DEF UserSaved, UserNow, Obtain, LoadChannel
<1>7. ASSUME NEW c \in ChannelNames, Read(c) PROVE CleanMatchesFile'
  BY <1>1, <1>7 DEF Read
<1>8. CASE Flush \/ SaveTimeout
  BY <1>8, FlushMatches DEF Flush, SaveTimeout
<1>9. CASE UNCHANGED <<channels, userFile>>
  BY <1>9 DEF CleanMatchesFile, Savable, UserSaved, UserNow, Obtain, LoadChannel
<1>10. CASE Finalize \/ Crash
  BY <1>10 DEF Finalize, Crash, CleanMatchesFile
<1> QED BY <1>3, <1>4, <1>5, <1>6, <1>7, <1>8, <1>9, <1>10 DEF Next, Modify, Settable, Tick, vars

\* A clean channel that can be saved can be dropped: its file gives every property
\* the value it has, up to what a file keeps, for all trees, although saving itself
\* unsets values.
THEOREM CleanIsSavedAlways ==
    SpelledLower /\ LocksHaveValues /\ ~DiskFails /\ Spec => []CleanIsSaved
<1> SUFFICES ASSUME SpelledLower, LocksHaveValues, ~DiskFails PROVE Spec => []CleanIsSaved
  OBVIOUS
<1>1. Init => CleanMatchesFile
  BY DEF Init, CleanMatchesFile
<1>2. TypeOK /\ LocksInPlace /\ LockedHoldsNoUserValue /\ CleanMatchesFile /\ [Next]_vars
      => CleanMatchesFile'
  BY CleanStep
<1>3. TypeOK /\ SystemInPlace /\ CleanMatchesFile => CleanIsSaved
  <2> SUFFICES ASSUME TypeOK, SystemInPlace, CleanMatchesFile,
                      NEW c \in ChannelNames, channels[c] # NotLoaded, ~channels[c].dirty,
                      ~SysLocked[c], Savable(channels[c].tree), NEW p \in Paths
               PROVE  LET now == Effective(channels[c].tree, p)
                          later == Effective(LoadChannel(c).tree, p)
                      IN  later = now \/ (now # NoValue /\ later = Reread(now))
    BY DEF CleanIsSaved
  <2> DEFINE t == channels[c].tree
             l == LoadChannel(c).tree
  <2>1. t \in Trees /\ l \in Trees /\ Obtain(c).tree = t
    BY LoadedType, LoadChannelType DEF Obtain, Channel
  <2>2. SysOf(l, p) = SysOf(t, p)
    BY LoadedSys DEF SystemInPlace
  <2>3. Matches(UserValue(t, p), UserValue(l, p))
    BY <2>1 DEF CleanMatchesFile, UserSaved, UserNow
  <2>4. UserValue(t, p) # NoValue => Reread(UserValue(t, p)) # NoValue
    <3>1. UserValue(t, p) \in Values \cup {NoValue}
      BY <2>1 DEF Trees, Node, UserValue
    <3> QED BY <3>1, ValuesAssumption, SentinelAssumption
  <2> HIDE DEF t, l
  <2> QED BY <2>1, <2>2, <2>3, <2>4, EffectiveOf DEF Matches, t, l
<1>4. Spec => []LocksInPlace /\ []SystemInPlace
  BY LocksStayInPlace, SystemStays DEF SpelledLower
<1> QED BY <1>1, <1>2, <1>3, <1>4, TypeCorrect, LocksHold, PTL DEF Spec

-----------------------------------------------------------------------------
(* The refinement *)

LEMMA UserBarValues ==
    /\ userBar = [c \in ChannelNames |-> [p \in Paths |-> UserNow(c, p)]]
    /\ savedBar = [c \in ChannelNames |-> [p \in Paths |-> UserSaved(c, p)]]
  BY DEF userBar, savedBar, UserNow, UserSaved

LEMMA UserBarSame ==
    ASSUME \A c \in ChannelNames, p \in Paths : UserNow(c, p)' = UserNow(c, p)
    PROVE  userBar' = userBar
  BY DEF userBar, UserNow

LEMMA SavedBarSame == ASSUME UNCHANGED userFile PROVE savedBar' = savedBar
  BY DEF savedBar, LoadChannel

\* The values of one channel change.
LEMMA UserBarChanges ==
    ASSUME NEW c \in ChannelNames, NEW g, g = [p \in Paths |-> g[p]],
           \A d \in ChannelNames, p \in Paths :
               UserNow(d, p)' = IF d = c THEN g[p] ELSE UserNow(d, p)
    PROVE  userBar' = [userBar EXCEPT ![c] = g]
<1>1. userBar' = [d \in ChannelNames |-> [p \in Paths |-> UserNow(d, p)']]
  BY DEF userBar, UserNow
<1>2. [p \in Paths |-> UserNow(c, p)'] = g
  OBVIOUS
<1>3. \A d \in ChannelNames : d # c => [p \in Paths |-> UserNow(d, p)'] = userBar[d]
  BY DEF userBar, UserNow
<1> QED BY <1>1, <1>2, <1>3 DEF userBar

\* A channel kept as it was obtained does not show.
LEMMA KeptStutters ==
    ASSUME TypeOK, SpelledLower, UNCHANGED userFile, NEW c \in ChannelNames,
           Keep(c, Obtain(c))
    PROVE  UNCHANGED <<userBar, savedBar>>
<1>1. \A d \in ChannelNames, p \in Paths : UserNow(d, p)' = UserNow(d, p)
  BY KeptObtain, ObtainType DEF UserNow
<1> QED BY <1>1, UserBarSame, SavedBarSame

\* One kept with another tree shows the user values of that.
LEMMA KeptTreeShows ==
    ASSUME TypeOK, SpelledLower, UNCHANGED userFile, NEW c \in ChannelNames,
           NEW u \in Trees, Keep(c, [Obtain(c) EXCEPT !.tree = u, !.dirty = TRUE])
    PROVE  /\ userBar' = [userBar EXCEPT ![c] = [p \in Paths |-> UserValue(u, p)]]
           /\ savedBar' = savedBar
<1> DEFINE ch == [Obtain(c) EXCEPT !.tree = u, !.dirty = TRUE]
           g == [p \in Paths |-> UserValue(u, p)]
<1>1. ch \in Channel /\ ch.tree = u
  BY ChangedType
<1>2. Keep(c, ch)
  OBVIOUS
<1> HIDE DEF ch
<1>3. \A d \in ChannelNames, p \in Paths :
          UserNow(d, p)' = IF d = c THEN g[p] ELSE UserNow(d, p)
  BY <1>1, <1>2, KeptObtain DEF UserNow
<1>4. g = [p \in Paths |-> g[p]]
  OBVIOUS
<1> HIDE DEF g
<1>5. userBar' = [userBar EXCEPT ![c] = g]
  BY <1>3, <1>4, UserBarChanges
<1> QED BY <1>5, SavedBarSame DEF g

LEMMA SetImplements ==
    ASSUME TypeOK, SpelledLower, LocksHaveValues, LocksInPlace,
           NEW c \in ChannelNames, NEW p \in Paths, NEW v \in Values, Set(c, p, v)
    PROVE  Store!SetOne(c, p, v) \/ UNCHANGED <<userBar, savedBar>>
<1>1. CASE Keep(c, Obtain(c))
  BY <1>1, KeptStutters DEF Set
<1>2. CASE /\ ~SetDenied(c, p)
           /\ Keep(c, [Obtain(c) EXCEPT !.tree = WithValue(@, p, v), !.dirty = TRUE])
  <2> DEFINE t == Obtain(c).tree
             u == WithValue(t, p, v)
             g == [q \in Paths |-> UserValue(u, q)]
  <2>1. t \in Trees /\ u \in Trees /\ ChangesIn(t, u, {p}) /\ UserValue(u, p) = v
    BY ObtainType, WithValueType, WithValueChanges
  <2>2. <<c, p>> \notin LockedBar
    <3>1. LocksKept(c, t)
      BY LoadedLocksKept DEF Obtain, LocksInPlace
    <3> QED BY <1>2, <3>1 DEF LockedBar, LocksKept, LocksHaveValues, SetDenied
  <2>3. userBar' = [userBar EXCEPT ![c] = g] /\ savedBar' = savedBar
    <3>1. Keep(c, [Obtain(c) EXCEPT !.tree = u, !.dirty = TRUE]) /\ UNCHANGED userFile
      BY <1>2 DEF Set
    <3> HIDE DEF u
    <3> QED BY <2>1, <3>1, KeptTreeShows
  <2>4. g = [userBar[c] EXCEPT ![p] = v]
    <3>1. userBar[c] = [q \in Paths |-> UserValue(t, q)]
      BY DEF userBar
    <3> HIDE DEF u, t
    <3> QED BY <2>1, <3>1 DEF ChangesIn
  <2>5. userBar' = [userBar EXCEPT ![c][p] = v]
    BY <2>3, <2>4 DEF userBar
  <2> QED BY <2>2, <2>3, <2>5 DEF Store!SetOne
<1> QED BY <1>1, <1>2 DEF Set

\* A reset that keeps the channel with the tree u, which unsets S.
LEMMA UnsetImplements ==
    ASSUME TypeOK, SpelledLower, UNCHANGED userFile, NEW c \in ChannelNames,
           NEW u \in Trees, NEW S, ChangesIn(Obtain(c).tree, u, S),
           \A q \in Paths : q \in S => UserValue(u, q) = NoValue,
           Keep(c, [Obtain(c) EXCEPT !.tree = u, !.dirty = TRUE])
    PROVE  Store!Unset(c, S)
<1> DEFINE g == [q \in Paths |-> UserValue(u, q)]
<1>1. userBar' = [userBar EXCEPT ![c] = g] /\ savedBar' = savedBar
  BY KeptTreeShows
<1>2. userBar[c] = [q \in Paths |-> UserValue(Obtain(c).tree, q)]
  BY DEF userBar
<1>3. g = [q \in Paths |-> IF q \in S THEN NoValue ELSE userBar[c][q]]
  BY <1>2 DEF ChangesIn
<1> QED BY <1>1, <1>3 DEF Store!Unset

LEMMA ResetImplements ==
    ASSUME TypeOK, SpelledLower, NEW c \in ChannelNames, NEW p \in Paths, Reset(c, p)
    PROVE  Store!Unset(c, {p}) \/ UNCHANGED <<userBar, savedBar>>
<1>1. CASE Keep(c, Obtain(c))
  BY <1>1, KeptStutters DEF Reset
<1>2. CASE /\ ResetFound(c, p)
           /\ Keep(c, [Obtain(c) EXCEPT !.tree = ResetProp(@, p), !.dirty = TRUE])
  <2> DEFINE u == ResetProp(Obtain(c).tree, p)
  <2>1. /\ u \in Trees /\ ChangesIn(Obtain(c).tree, u, {p})
        /\ UserValue(u, p) = NoValue
    BY <1>2, ObtainType, ResetPropType, ResetPropChanges DEF ResetFound
  <2>2. Keep(c, [Obtain(c) EXCEPT !.tree = u, !.dirty = TRUE]) /\ UNCHANGED userFile
    BY <1>2 DEF Reset
  <2> HIDE DEF u
  <2> QED BY <2>1, <2>2, UnsetImplements
<1> QED BY <1>1, <1>2 DEF Reset

LEMMA ResetRecursiveImplements ==
    ASSUME TypeOK, SpelledLower, NEW c \in ChannelNames, NEW p \in Paths,
           ResetRecursive(c, p)
    PROVE  Store!Unset(c, Under(p)) \/ UNCHANGED <<userBar, savedBar>>
<1>1. CASE Keep(c, Obtain(c))
  BY <1>1, KeptStutters DEF ResetRecursive
<1>2. CASE Keep(c, [Obtain(c) EXCEPT !.tree = ResetUnder(@, p), !.dirty = TRUE])
  <2> DEFINE t == Obtain(c).tree
             u == ResetUnder(t, p)
  <2>1. t \in Trees /\ u \in Trees
    BY ObtainType, ResetUnderType
  <2>2. \A q \in Paths : q \in Under(p) => UserValue(u, q) = NoValue
    BY <2>1, ResetUnderChanges
  <2>3. ChangesIn(t, u, Under(p))
    BY <2>1, ResetUnderChanges DEF ChangesIn, UserValued
  <2>4. Keep(c, [Obtain(c) EXCEPT !.tree = u, !.dirty = TRUE]) /\ UNCHANGED userFile
    BY <1>2 DEF ResetRecursive
  <2> HIDE DEF u
  <2> QED BY <2>1, <2>2, <2>3, <2>4, UnsetImplements DEF t
<1> QED BY <1>1, <1>2 DEF ResetRecursive

LEMMA ResetChannelImplements ==
    ASSUME TypeOK, SpelledLower, NEW c \in ChannelNames, ResetChannel(c)
    PROVE  Store!Forget(c)
<1>1. channels'[c] = NotLoaded /\ \A d \in ChannelNames : d # c => channels'[d] = channels[d]
  BY DEF ResetChannel, SpelledLower, TypeOK
<1>2. \A d \in ChannelNames, p \in Paths : d # c /\ userFile'[d] = userFile[d] =>
          UserNow(d, p)' = UserNow(d, p) /\ UserSaved(d, p)' = UserSaved(d, p)
  BY <1>1 DEF UserNow, UserSaved, Obtain, LoadChannel
<1>3. \A p \in Paths : UserNow(c, p)' = UserSaved(c, p)'
  BY <1>1 DEF UserNow, UserSaved, Obtain
<1>4. CASE userFile' = [userFile EXCEPT ![c] = NoFile]
  <2> DEFINE none == [p \in Paths |-> NoValue]
  <2>1. userFile'[c] = NoFile /\ \A d \in ChannelNames : d # c => userFile'[d] = userFile[d]
    BY <1>4 DEF TypeOK
  <2>2. \A p \in Paths : UserSaved(c, p)' = NoValue
    BY <2>1, SystemHoldsNoUserValue DEF UserSaved, LoadChannel
  <2>3. userBar' = [userBar EXCEPT ![c] = none]
    <3>1. \A d \in ChannelNames, p \in Paths :
              UserNow(d, p)' = IF d = c THEN none[p] ELSE UserNow(d, p)
      BY <1>2, <1>3, <2>1, <2>2
    <3> QED BY <3>1, UserBarChanges
  <2>4. savedBar' = [savedBar EXCEPT ![c] = none]
    <3>1. savedBar' = [d \in ChannelNames |-> [p \in Paths |-> UserSaved(d, p)']]
      BY DEF savedBar, UserSaved
    <3>2. \A d \in ChannelNames :
              [p \in Paths |-> UserSaved(d, p)'] = IF d = c THEN none ELSE savedBar[d]
      BY <1>2, <2>1, <2>2 DEF savedBar, UserSaved
    <3> QED BY <3>1, <3>2 DEF savedBar
  <2> QED BY <2>3, <2>4 DEF Store!Forget, Store!NoUserValues
<1>5. CASE UNCHANGED userFile
  <2> DEFINE g == [p \in Paths |-> UserSaved(c, p)]
  <2>1. savedBar' = savedBar
    BY <1>5, SavedBarSame
  <2>2. \A p \in Paths : UserSaved(c, p)' = UserSaved(c, p)
    BY <1>5 DEF UserSaved, LoadChannel
  <2>3. \A d \in ChannelNames, p \in Paths :
            UserNow(d, p)' = IF d = c THEN g[p] ELSE UserNow(d, p)
    BY <1>2, <1>3, <1>5, <2>2
  <2>4. g = savedBar[c]
    BY DEF savedBar, UserSaved
  <2>5. g = [p \in Paths |-> g[p]]
    OBVIOUS
  <2> HIDE DEF g
  <2>6. userBar' = [userBar EXCEPT ![c] = g]
    BY <2>3, <2>5, UserBarChanges
  <2> QED BY <2>1, <2>4, <2>6 DEF Store!Forget
<1> QED BY <1>4, <1>5 DEF ResetChannel

\* The channels a flush writes are saved; a locked one's file is not read.
LEMMA WrittenSaves ==
    ASSUME TypeOK, LocksInPlace, LockedHoldsNoUserValue, LocksHaveValues,
           NEW ok \in SUBSET Dirty, userFile' = Written(ok)
    PROVE  savedBar' = Store!AfterSaving({c \in ok : ~SysLocked[c]})
<1> DEFINE S == {c \in ok : ~SysLocked[c]}
<1>1. savedBar' = [c \in ChannelNames |-> [p \in Paths |-> UserSaved(c, p)']]
  BY DEF savedBar, UserSaved
<1>2. \A c \in ChannelNames :
          /\ savedBar[c] = [p \in Paths |-> UserSaved(c, p)]
          /\ Store!Persisted(userBar[c]) = [p \in Paths |-> AsSaved(UserNow(c, p))]
  <2>1. \A c \in ChannelNames : userBar[c] = [p \in Paths |-> UserNow(c, p)]
    BY UserBarValues
  <2> QED BY <2>1, UserBarValues DEF Store!Persisted, AsSaved
<1>3. \A c \in ChannelNames, p \in Paths :
          UserSaved(c, p)' = IF c \in S THEN AsSaved(UserNow(c, p)) ELSE UserSaved(c, p)
  BY WrittenLoads
<1>4. \A c \in ChannelNames :
          [p \in Paths |-> UserSaved(c, p)'] =
              IF c \in S THEN Store!Persisted(userBar[c]) ELSE savedBar[c]
  <2> HIDE DEF S
  <2> QED BY <1>2, <1>3
<1> QED BY <1>1, <1>4 DEF Store!AfterSaving

\* The channels that a flush writes can be saved, and it loses what they must.
LEMMA WrittenIsSavable ==
    ASSUME TypeOK, NEW ok \in SUBSET SavableDirty
    PROVE  {c \in ok : ~SysLocked[c]} \in SUBSET Store!Savable
<1> SUFFICES ASSUME NEW c \in ok PROVE c \in Store!Savable
  OBVIOUS
<1>1. c \in ChannelNames /\ channels[c] # NotLoaded /\ Savable(channels[c].tree)
  BY DEF SavableDirty, Dirty
<1>2. \A p \in Paths : UserNow(c, p) = UserValue(channels[c].tree, p)
  BY <1>1 DEF UserNow, Obtain
<1>3. \A p \in Paths : UserValue(channels[c].tree, p) \notin Unsavable
  BY <1>1, ValuesAssumption, SentinelAssumption DEF Savable, UserValue
<1>4. \A p \in Paths : userBar[c][p] = UserNow(c, p)
  BY <1>1, UserBarValues
<1> QED BY <1>1, <1>2, <1>3, <1>4 DEF Store!Savable

LEMMA FlushImplements ==
    ASSUME TypeOK, LocksInPlace, LockedHoldsNoUserValue, LocksHaveValues, FlushChannels
    PROVE  \E S \in SUBSET Store!Savable : Store!Save(S)
<1>1. PICK ok \in SUBSET SavableDirty, lost \in SUBSET Perishing :
          lost \in Losses(ok) /\ userFile' = Written(ok) /\ channels' = Flushed(Dirty, lost)
  BY DEF FlushChannels, FlushResults, Losses
<1> DEFINE S == {c \in ok : ~SysLocked[c]}
<1>2. ok \in SUBSET Dirty
  BY SavableDirtyIsDirty
<1>3. savedBar' = Store!AfterSaving(S)
  BY <1>1, <1>2, WrittenSaves
<1>4. \A c \in ChannelNames, p \in Paths : userBar[c][p] = UserNow(c, p)
  BY UserBarValues
<1>5. lost \in SUBSET Store!Perishing
  <2> SUFFICES ASSUME NEW cp \in lost PROVE cp \in Store!Perishing
    OBVIOUS
  <2>1. PICK c \in ChannelNames, p \in Paths : cp = <<c, p>>
    BY <1>2 DEF Perishing, Dirty
  <2>2. UserNow(c, p) \in Unwritable
    BY <1>1, <1>2, <2>1, FlushedUser
  <2> QED BY <1>4, <2>1, <2>2 DEF Store!Perishing
<1>6. ASSUME NEW cp \in Store!Perishing, cp[1] \in S PROVE cp \in lost
  <2>1. PICK c \in ChannelNames, p \in Paths : cp = <<c, p>> /\ UserNow(c, p) \in Unwritable
    BY <1>4 DEF Store!Perishing
  <2>2. c \in ok /\ c \in Dirty /\ channels[c] # NotLoaded
    BY <1>2, <1>6, <2>1 DEF Dirty
  <2>3. channels[c].tree[p] # NoNode /\ channels[c].tree[p].value \in Unwritable
    BY <2>1, <2>2, ValuesAssumption, SentinelAssumption DEF UserNow, UserValue, Obtain
  <2>4. cp \in Perishing
    BY <2>1, <2>2, <2>3 DEF Perishing
  <2> QED BY <1>1, <2>1, <2>2, <2>4 DEF Losses
<1>7. userBar' = [c \in ChannelNames |-> [p \in Paths |->
                     IF <<c, p>> \in lost THEN NoValue ELSE userBar[c][p]]]
  <2>1. userBar' = [c \in ChannelNames |-> [p \in Paths |-> UserNow(c, p)']]
    BY DEF userBar, UserNow
  <2>2. \A c \in ChannelNames, p \in Paths :
            UserNow(c, p)' = IF <<c, p>> \in lost THEN NoValue ELSE userBar[c][p]
    <3> SUFFICES ASSUME NEW c \in ChannelNames, NEW p \in Paths
                 PROVE  UserNow(c, p)' = IF <<c, p>> \in lost THEN NoValue ELSE userBar[c][p]
      OBVIOUS
    <3>1. UserNow(c, p)' = IF <<c, p>> \in lost THEN NoValue ELSE UserNow(c, p)
      BY <1>1, <1>2, FlushedUser
    <3> QED BY <1>4, <3>1
  <2> QED BY <2>1, <2>2
<1>8. S \in SUBSET Store!Savable
  BY WrittenIsSavable
<1> HIDE DEF S
<1> QED BY <1>3, <1>5, <1>6, <1>7, <1>8 DEF Store!Save

\* A new daemon starts from the files, written for the channels of ok or, with
\* nothing to save, as they are.
LEMMA RestartImplements ==
    ASSUME TypeOK, LocksInPlace, LockedHoldsNoUserValue, LocksHaveValues,
           Finalize \/ Crash
    PROVE  \E S \in SUBSET Store!Savable : Store!Restart(S)
<1>1. \E ok \in SUBSET SavableDirty : userFile' = Written(ok)
  <2>1. UNCHANGED userFile => userFile' = Written({})
    BY DEF Written, TypeOK
  <2> QED BY <2>1 DEF Finalize, Crash, FlushLast, FlushResults
<1>2. PICK ok \in SUBSET SavableDirty : userFile' = Written(ok)
  BY <1>1
<1>3. savedBar' = Store!AfterSaving({c \in ok : ~SysLocked[c]})
  BY <1>2, SavableDirtyIsDirty, WrittenSaves
<1>4. userBar' = savedBar'
  <2>1. \A c \in ChannelNames : channels'[c] = NotLoaded
    BY DEF Finalize, Crash
  <2> QED BY <2>1 DEF userBar, savedBar, Obtain, LoadChannel
<1>5. {c \in ok : ~SysLocked[c]} \in SUBSET Store!Savable
  BY WrittenIsSavable
<1> QED BY <1>3, <1>4, <1>5 DEF Store!Restart

LEMMA StepImplements ==
    ASSUME SpelledLower, LocksHaveValues,
           TypeOK, LocksInPlace, LockedHoldsNoUserValue, [Next]_vars
    PROVE  Store!StoreNext \/ UNCHANGED <<userBar, savedBar>>
<1>1. ASSUME NEW c \in ChannelNames, NEW p \in Paths, NEW v \in Values, Set(c, p, v)
      PROVE  Store!StoreNext \/ UNCHANGED <<userBar, savedBar>>
  BY <1>1, SetImplements DEF Store!StoreNext
<1>2. ASSUME NEW c \in ChannelNames, NEW p \in Paths, Reset(c, p)
      PROVE  Store!StoreNext \/ UNCHANGED <<userBar, savedBar>>
  BY <1>2, ResetImplements DEF Store!StoreNext
<1>3. ASSUME NEW c \in ChannelNames, NEW p \in Paths, ResetRecursive(c, p)
      PROVE  Store!StoreNext \/ UNCHANGED <<userBar, savedBar>>
  BY <1>3, ResetRecursiveImplements DEF Store!StoreNext
<1>4. ASSUME NEW c \in ChannelNames, ResetChannel(c) PROVE Store!StoreNext
  BY <1>4, ResetChannelImplements DEF Store!StoreNext
<1>5. ASSUME NEW c \in ChannelNames, Read(c) PROVE UNCHANGED <<userBar, savedBar>>
  BY <1>5, KeptStutters DEF Read
<1>6. CASE Flush \/ SaveTimeout
  BY <1>6, FlushImplements DEF Flush, SaveTimeout, Store!StoreNext
<1>7. CASE Finalize \/ Crash
  BY <1>7, RestartImplements DEF Store!StoreNext
<1>8. CASE Tick \/ UNCHANGED vars
  BY <1>8, SavedBarSame DEF Tick, vars, userBar, Obtain, LoadChannel
<1> QED BY <1>1, <1>2, <1>3, <1>4, <1>5, <1>6, <1>7, <1>8 DEF Next, Modify, Settable

\* Whatever the trees, the files and the interleaving of calls, saves, failed
\* writes and restarts, the backend is a store of user values over locked
\* defaults: saving costs it no value but those that the file format lacks.
THEOREM BackendImplementsStore == SpelledLower /\ LocksHaveValues /\ Spec => ImplementsStore
<1> SUFFICES ASSUME SpelledLower, LocksHaveValues PROVE Spec => ImplementsStore
  OBVIOUS
<1>1. Init => Store!StoreInit
  BY DEF Init, Store!StoreInit, userBar, savedBar, Obtain
<1>2. TypeOK /\ LocksInPlace /\ LockedHoldsNoUserValue /\ [Next]_vars
      => [Store!StoreNext]_(Store!storeVars)
  BY StepImplements DEF Store!storeVars
<1>3. Spec => []LocksInPlace
  BY LocksStayInPlace DEF SpelledLower
<1> QED BY <1>1, <1>2, <1>3, TypeCorrect, LocksHold, PTL
        DEF Spec, ImplementsStore, Store!StoreSpec

-----------------------------------------------------------------------------
(* Operations announce what they change *)

LEMMA SetAnnouncesAll ==
    ASSUME TypeOK, SpelledLower,
           NEW c \in ChannelNames, NEW p \in Paths, NEW v \in Values, Set(c, p, v)
    PROVE  ReadsChangeIn(c, SetNotes(c, p, v))
<1>1. CASE (SetDenied(c, p) \/ SetUnneeded(c, p, v)) /\ Keep(c, Obtain(c))
  BY <1>1, KeptSameReads DEF Set, SetNotes, ReadsChangeIn
<1>2. CASE /\ ~SetDenied(c, p) /\ ~SetUnneeded(c, p, v)
           /\ Keep(c, [Obtain(c) EXCEPT !.tree = WithValue(@, p, v), !.dirty = TRUE])
  <2> DEFINE u == WithValue(Obtain(c).tree, p, v)
  <2>1. u \in Trees /\ ChangesIn(Obtain(c).tree, u, {p})
    BY ObtainType, WithValueType, WithValueChanges
  <2>2. SetNotes(c, p, v) = {p}
    BY <1>2 DEF SetNotes
  <2>3. Keep(c, [Obtain(c) EXCEPT !.tree = u, !.dirty = TRUE]) /\ UNCHANGED userFile
    BY <1>2 DEF Set
  <2> HIDE DEF u
  <2> QED BY <2>1, <2>2, <2>3, KeptTreeReads
<1> QED BY <1>1, <1>2 DEF Set

LEMMA ResetAnnouncesAll ==
    ASSUME TypeOK, SpelledLower,
           NEW c \in ChannelNames, NEW p \in Paths, Reset(c, p)
    PROVE  ReadsChangeIn(c, ResetNotes(c, p))
<1>1. CASE ResetFound(c, p)
  BY <1>1, ResetReads DEF ResetNotes
<1>2. CASE ~ResetFound(c, p)
  BY <1>2, KeptSameReads DEF Reset, ResetNotes
<1> QED BY <1>1, <1>2

\* Without names of one character, the walk to the root finds the whole name.
LEMMA WholePropname ==
    ASSUME ShortNames = {}, NEW p \in Paths PROVE BuildPropname(p) = p
<1>1. p \in Seq(Names) /\ Len(p) \in Nat
  BY PathsAssumption
<1> DEFINE Cut(i) == /\ i = 0 \/ p[i] \in ShortNames
                     /\ \A j \in (i + 1)..Len(p) : p[j] \notin ShortNames
<1>2. \A i \in 0..Len(p) : Cut(i) <=> i = 0
  OBVIOUS
<1>3. 0 \in 0..Len(p)
  BY <1>1
<1>4. (CHOOSE i \in 0..Len(p) : Cut(i)) = 0
  BY <1>2, <1>3
<1>5. SubSeq(p, 0 + 1, Len(p)) = p
  BY <1>1
<1> QED BY <1>4, <1>5 DEF BuildPropname

LEMMA WholePropnames ==
    ASSUME ShortNames = {}, NEW S \in SUBSET Paths
    PROVE  {BuildPropname(q) : q \in S} = S
  BY WholePropname

LEMMA UnderPaths == ASSUME NEW p PROVE Under(p) \in SUBSET Paths
  BY DEF Under

LEMMA ResetRecursiveAnnouncesAll ==
    ASSUME TypeOK, ShortNames = {}, SpelledLower,
           NEW c \in ChannelNames, NEW p \in Paths, ResetRecursive(c, p)
    PROVE  ReadsChangeIn(c, ResetUnderNotes(c, p))
<1> DEFINE S == UserValued(Obtain(c).tree, Under(p))
<1>1. ResetUnderNotes(c, p) = S
  <2>1. S \in SUBSET Paths
    BY UnderPaths DEF UserValued
  <2> QED BY <2>1, WholePropnames DEF ResetUnderNotes
<1>2. CASE Keep(c, Obtain(c))
  BY <1>2, KeptSameReads DEF ResetRecursive, ReadsChangeIn
<1>3. CASE Keep(c, [Obtain(c) EXCEPT !.tree = ResetUnder(@, p), !.dirty = TRUE])
  <2> DEFINE u == ResetUnder(Obtain(c).tree, p)
  <2>1. u \in Trees /\ ChangesIn(Obtain(c).tree, u, S)
    BY ObtainType, ResetUnderType, ResetUnderChanges
  <2>2. Keep(c, [Obtain(c) EXCEPT !.tree = u, !.dirty = TRUE]) /\ UNCHANGED userFile
    BY <1>3 DEF ResetRecursive
  <2> HIDE DEF u, S
  <2> QED BY <1>1, <2>1, <2>2, KeptTreeReads
<1> QED BY <1>2, <1>3 DEF ResetRecursive

\* A channel that was reset is loaded again without a user file.
LEMMA ResetChannelAnnouncesAll ==
    ASSUME TypeOK, SystemInPlace, ShortNames = {}, ~DiskFails,
           SpelledLower,
           NEW c \in ChannelNames, ResetChannel(c)
    PROVE  ReadsChangeIn(c, ResetUnderNotes(c, <<>>))
<1> DEFINE t == Obtain(c).tree
           S == UserValued(t, Under(<<>>))
<1>1. Under(<<>>) = Paths
  BY PathsAssumption DEF Under, Above
<1>2. ResetUnderNotes(c, <<>>) = S
  <2>1. S \in SUBSET Paths
    BY UnderPaths DEF UserValued
  <2> QED BY <2>1, WholePropnames DEF ResetUnderNotes
<1> SUFFICES ASSUME NEW d \in ChannelNames, NEW p \in Paths, d # c \/ p \notin S
             PROVE  GetValue(d, p)' = GetValue(d, p)
  BY <1>2 DEF ReadsChangeIn
<1>3. /\ channels'[c] = NotLoaded /\ userFile'[c] = NoFile
      /\ d # c => channels'[d] = channels[d] /\ userFile'[d] = userFile[d]
  BY DEF ResetChannel, TypeOK, SpelledLower
<1>4. CASE d # c
  BY <1>3, <1>4 DEF GetValue, Obtain, LoadChannel
<1>5. CASE d = c
  <2>1. GetValue(c, p)' = Effective(SysTree[c], p)
    BY <1>3 DEF GetValue, Obtain, LoadChannel
  <2>2. UserValue(t, p) = NoValue
    BY <1>1, <1>5 DEF UserValued, UserValue
  <2>3. SysTree[c] \in Trees /\ UserValue(SysTree[c], p) = NoValue
    BY SystemAssumption DEF UserValue
  <2>4. SysOf(t, p) = SysOf(SysTree[c], p)
    BY ObtainedSys
  <2>5. GetValue(c, p) = SysOf(t, p)
    BY <2>2, ObtainType, EffectiveOf DEF GetValue
  <2>6. Effective(SysTree[c], p) = SysOf(SysTree[c], p)
    BY <2>3, EffectiveOf
  <2> QED BY <1>5, <2>1, <2>4, <2>5, <2>6
<1> QED BY <1>4, <1>5

LEMMA ObtainedTrees ==
    /\ TypeOK /\ SystemInPlace => \A d \in ChannelNames : Obtain(d).tree \in Trees
    /\ TypeOK /\ SystemInPlace =>
          \A d \in ChannelNames, q \in Paths : SysOf(Obtain(d).tree, q) = SysOf(SysTree[d], q)
  BY ObtainType, ObtainedSys

\* Saving changes no value but the user values that it unsets.
LEMMA FlushChangesReads ==
    ASSUME TypeOK, SystemInPlace, SystemInPlace', TypeOK', FlushChannels, Drops,
           NEW c \in ChannelNames, NEW p \in Paths
    PROVE  GetValue(c, p)' = GetValue(c, p) \/ <<c, p>> \in dropped'
<1>1. PICK ok \in SUBSET SavableDirty, lost \in SUBSET Perishing :
          lost \in Losses(ok) /\ userFile' = Written(ok) /\ channels' = Flushed(Dirty, lost)
  BY DEF FlushChannels, FlushResults, Losses
<1>2. ok \in SUBSET Dirty
  BY SavableDirtyIsDirty
<1>3. /\ UserNow(c, p)' = IF <<c, p>> \in lost THEN NoValue ELSE UserNow(c, p)
      /\ <<c, p>> \in lost => channels'[c].tree[p].value = NoValue
  BY <1>1, <1>2, FlushedUser
<1>4. CASE <<c, p>> \in lost
  BY <1>2, <1>3, <1>4 DEF Drops
<1>5. CASE <<c, p>> \notin lost
  <2>1. SysOf(Obtain(c).tree, p) = SysOf(SysTree[c], p)
    BY ObtainedSys
  <2>2. (TypeOK /\ SystemInPlace =>
            \A d \in ChannelNames, q \in Paths : SysOf(Obtain(d).tree, q) = SysOf(SysTree[d], q))'
    BY ObtainedTrees, PTL
  <2>3. (TypeOK /\ SystemInPlace => \A d \in ChannelNames : Obtain(d).tree \in Trees)'
    BY ObtainedTrees, PTL
  <2> DEFINE t == Obtain(c).tree
             u == Obtain(c)'.tree
  <2>4. t \in Trees /\ u \in Trees
    BY <2>3, ObtainType
  <2>5. UserValue(u, p) = UserValue(t, p) /\ SysOf(u, p) = SysOf(t, p)
    <3>1. UserValue(u, p) = UserValue(t, p)
      BY <1>3, <1>5 DEF UserNow
    <3>2. SysOf(u, p) = SysOf(SysTree[c], p)
      BY <2>2
    <3> QED BY <2>1, <3>1, <3>2
  <2>6. GetValue(c, p)' = Effective(u, p) /\ GetValue(c, p) = Effective(t, p)
    BY DEF GetValue
  <2> HIDE DEF t, u
  <2> QED BY <2>4, <2>5, <2>6, EffectiveOf
<1> QED BY <1>4, <1>5

-----------------------------------------------------------------------------
(* The queue of idle sources *)

Notes == [channel : ChannelNames, property : Paths]

LEMMA FiniteSetsEnumerate ==
    ASSUME NEW S, IsFiniteSet(S)
    PROVE  /\ SetToSeq(S) \in Seq(S)
           /\ \A x \in S : \E i \in 1..Len(SetToSeq(S)) : SetToSeq(S)[i] = x
<1> DEFINE n == Cardinality(S)
           s == SetToSeq(S)
<1>1. n \in Nat /\ ExistsBijection(1..n, S)
  BY FS_CardinalityType
<1>2. PICK b \in [1..n -> S] : IsInjective(b)
  BY <1>1 DEF ExistsBijection, Bijection, Injection
<1>3. s \in [1..n -> S] /\ IsInjective(s)
  BY <1>2 DEF SetToSeq
<1>4. s \in Seq(S) /\ Len(s) = n
  BY <1>1, <1>3
<1>5. IsFiniteSet(1..n) /\ Cardinality(1..n) = n
  BY <1>1, FS_Interval
<1>6. s \in Injection(1..n, S)
  BY <1>3 DEF Injection
<1>7. s \in Surjection(1..n, S)
  BY <1>5, <1>6, FS_Injection
<1> QED BY <1>4, <1>7 DEF Surjection

\* The notes of an operation.
LEMMA NotesFinite ==
    ASSUME IsFiniteSet(Paths), NEW c \in ChannelNames, NEW props \in SUBSET Paths
    PROVE  IsFiniteSet({[channel |-> c, property |-> p] : p \in props})
<1> DEFINE S == {[channel |-> c, property |-> p] : p \in props}
           f == [n \in S |-> n.property]
<1>1. \A n \in S : n = [channel |-> c, property |-> n.property] /\ n.property \in props
  OBVIOUS
<1>2. f \in Injection(S, props)
  BY <1>1 DEF Injection, IsInjective
<1>3. IsFiniteSet(props)
  BY FS_Subset
<1> QED BY <1>2, <1>3, FS_Injection

LEMMA QueueAddsAll ==
    ASSUME IsFiniteSet(Paths), idles \in Seq(Notes),
           NEW c \in ChannelNames, NEW props \in SUBSET Paths, Queue(c, props)
    PROVE  /\ idles' \in Seq(Notes)
           /\ \A d \in ChannelNames, p \in Paths : Waiting(d, p) => Waiting(d, p)'
           /\ \A p \in props : Waiting(c, p)'
<1> DEFINE S == {[channel |-> c, property |-> p] : p \in props}
           s == SetToSeq(S)
<1>1. IsFiniteSet(S)
  BY NotesFinite
<1>2. s \in Seq(S) /\ \A x \in S : \E i \in 1..Len(s) : s[i] = x
  BY <1>1, FiniteSetsEnumerate
<1>3. S \in SUBSET Notes
  BY DEF Notes
<1>4. s \in Seq(Notes)
  BY <1>2, <1>3
<1>5. idles' = idles \o s
  BY DEF Queue
<1> HIDE DEF s
<1>6. /\ idles \o s \in Seq(Notes)
      /\ Len(idles \o s) = Len(idles) + Len(s)
      /\ \A i \in 1..Len(idles) : (idles \o s)[i] = idles[i]
      /\ \A i \in 1..Len(s) : (idles \o s)[Len(idles) + i] = s[i]
  BY <1>4
<1>7. Len(idles) \in Nat /\ Len(s) \in Nat
  BY <1>4
<1>8. ASSUME NEW d \in ChannelNames, NEW p \in Paths, Waiting(d, p) PROVE Waiting(d, p)'
  <2>1. PICK i \in 1..Len(idles) : idles[i] = [channel |-> d, property |-> p]
    BY <1>8 DEF Waiting
  <2>2. i \in 1..Len(idles') /\ idles'[i] = idles[i]
    BY <1>5, <1>6, <1>7
  <2> QED BY <2>1, <2>2 DEF Waiting
<1>9. ASSUME NEW p \in props PROVE Waiting(c, p)'
  <2>1. PICK i \in 1..Len(s) : s[i] = [channel |-> c, property |-> p]
    BY <1>2
  <2>2. Len(idles) + i \in 1..Len(idles') /\ idles'[Len(idles) + i] = s[i]
    BY <1>5, <1>6, <1>7
  <2> QED BY <2>1, <2>2 DEF Waiting
<1> QED BY <1>5, <1>6, <1>8, <1>9

\* An idle source takes its own note from the queue and no other.
LEMMA EmitTakesHead ==
    ASSUME idles \in Seq(Notes), idles # <<>>, idles' = Tail(idles),
           NEW d \in ChannelNames, NEW p \in Paths, Waiting(d, p),
           Head(idles) # [channel |-> d, property |-> p]
    PROVE  Waiting(d, p)'
<1>1. PICK i \in 1..Len(idles) : idles[i] = [channel |-> d, property |-> p]
  BY DEF Waiting
<1>2. i # 1 /\ Len(idles) \in Nat
  BY <1>1
<1>3. i - 1 \in 1..Len(idles') /\ idles'[i - 1] = idles[i]
  BY <1>2
<1> QED BY <1>1, <1>3 DEF Waiting

-----------------------------------------------------------------------------
(* The theorem *)

AnnounceInv ==
    /\ TypeOK
    /\ SystemInPlace
    /\ idles \in Seq(Notes)
    /\ heard \in [ChannelNames -> [Paths -> Values \cup {NoValue}]]
    /\ dropped \subseteq ChannelNames \X Paths
    /\ EveryChangeAnnounced

\* What the assumptions of the theorem amount to: one spelling of every channel
\* name, no component of one character, finitely many properties, and a disk
\* that works.
Regular ==
    /\ SpelledLower
    /\ ShortNames = {}
    /\ IsFiniteSet(Paths)
    /\ ~DiskFails

LEMMA GetValueType ==
    ASSUME TypeOK, NEW c \in ChannelNames, NEW p \in Paths
    PROVE  GetValue(c, p) \in Values \cup {NoValue}
<1> DEFINE t == Obtain(c).tree
<1>1. t \in Trees
  BY ObtainType
<1> HIDE DEF t
<1>2. t[p] = NoNode \/ (t[p].value \in Values \cup {NoValue} /\ t[p].sys \in Values \cup {NoValue})
  BY <1>1 DEF Trees, Node
<1> QED BY <1>2 DEF Effective, GetValue, t

LEMMA AllSentType ==
    TypeOK => AllSent \in [ChannelNames -> [Paths -> Values \cup {NoValue}]]
  BY GetValueType DEF AllSent, Sent

\* A handler that queues a note for whatever it changes.
LEMMA HandlerAnnounces ==
    ASSUME Regular, AnnounceInv, TypeOK', SystemInPlace',
           NEW c \in ChannelNames, NEW props \in SUBSET Paths,
           ReadsChangeIn(c, props), Queue(c, props), UNCHANGED <<heard, dropped>>
    PROVE  AnnounceInv'
<1>1. /\ idles' \in Seq(Notes)
      /\ \A d \in ChannelNames, p \in Paths : Waiting(d, p) => Waiting(d, p)'
      /\ \A p \in props : Waiting(c, p)'
  BY QueueAddsAll DEF AnnounceInv, Regular
<1>2. ASSUME NEW d \in ChannelNames, NEW p \in Paths, Knowable(d, p)',
             heard'[d][p] # GetValue(d, p)'
      PROVE  Waiting(d, p)'
  <2>1. CASE d = c /\ p \in props
    BY <1>1, <2>1
  <2>2. CASE ~(d = c /\ p \in props)
    <3>1. GetValue(d, p)' = GetValue(d, p)
      BY <2>2 DEF ReadsChangeIn
    <3>2. Waiting(d, p)
      BY <1>2, <3>1 DEF AnnounceInv, EveryChangeAnnounced, Knowable
    <3> QED BY <1>1, <3>2
  <2> QED BY <2>1, <2>2
<1> QED BY <1>1, <1>2 DEF AnnounceInv, EveryChangeAnnounced

\* A step that leaves the queue alone, and whose changes are on record.
LEMMA QuietStepAnnounces ==
    ASSUME AnnounceInv, TypeOK', SystemInPlace', UNCHANGED <<idles, heard>>,
           dropped \subseteq dropped', dropped' \subseteq ChannelNames \X Paths,
           \A d \in ChannelNames, p \in Paths :
               GetValue(d, p)' = GetValue(d, p) \/ <<d, p>> \in dropped'
    PROVE  AnnounceInv'
<1>1. \A d \in ChannelNames, p \in Paths : Waiting(d, p)' <=> Waiting(d, p)
  BY DEF Waiting
<1>2. ASSUME NEW d \in ChannelNames, NEW p \in Paths, Knowable(d, p)',
             heard'[d][p] # GetValue(d, p)'
      PROVE  Waiting(d, p)
  <2>1. GetValue(d, p)' = GetValue(d, p) /\ Knowable(d, p)
    BY <1>2 DEF Knowable
  <2> QED BY <1>2, <2>1 DEF AnnounceInv, EveryChangeAnnounced
<1> QED BY <1>1, <1>2 DEF AnnounceInv, EveryChangeAnnounced

\* Every step of the daemon is one of its backend, if quitting counts as a crash.
LEMMA BackendSteps ==
    ASSUME TypeOK, idles \in Seq(Notes), [DaemonNext]_daemonVars PROVE [Next]_vars
<1>1. CASE EmitPropertyChanged
  <2>1. Head(idles).channel \in ChannelNames
    <3>1. idles # <<>>
      BY <1>1 DEF EmitPropertyChanged
    <3>2. Head(idles) \in Notes
      BY <3>1
    <3> QED BY <3>2 DEF Notes
  <2> QED BY <1>1, <2>1 DEF EmitPropertyChanged, Next
<1>2. CASE Quit
  <2>1. CASE FlushLast
    BY <1>2, <2>1 DEF Quit, FlushLast, FlushResults, Crash, Next
  <2>2. CASE UNCHANGED userFile
    <3>1. userFile' = Written({})
      BY <2>2 DEF Written, TypeOK
    <3> QED BY <1>2, <3>1 DEF Quit, Crash, Next
  <2> QED BY <1>2, <2>1, <2>2 DEF Quit
<1>3. CASE SaveChannels \/ TimePasses \/ HandleDisconnect
  BY <1>3 DEF SaveChannels, TimePasses, HandleDisconnect, Next
<1>4. ASSUME NEW c \in ChannelNames, NEW p \in Paths, NEW v \in Settable, SetProperty(c, p, v)
      PROVE  Next
  BY <1>4 DEF SetProperty, Next, Modify
<1>5. ASSUME NEW c \in ChannelNames, NEW p \in Paths, ResetProperty(c, p) PROVE Next
  BY <1>5 DEF ResetProperty, Next, Modify
<1>6. ASSUME NEW c \in ChannelNames, NEW p \in Paths \cup {<<>>}, ResetPropertyRecursive(c, p)
      PROVE  Next
  BY <1>6 DEF ResetPropertyRecursive, Next, Modify
<1>7. ASSUME NEW c \in ChannelNames, Query(c) PROVE Next
  BY <1>7 DEF Query, Next
<1>8. CASE UNCHANGED daemonVars
  BY <1>8 DEF daemonVars
<1> QED BY <1>1, <1>2, <1>3, <1>4, <1>5, <1>6, <1>7, <1>8 DEF DaemonNext

\* The signal that goes out brings subscribers up to date about its property.
LEMMA EmitAnnounces ==
    ASSUME Regular, AnnounceInv, TypeOK', SystemInPlace', EmitPropertyChanged
    PROVE  AnnounceInv'
<1> DEFINE n == Head(idles)
<1>1. n \in Notes /\ Tail(idles) \in Seq(Notes)
  BY DEF AnnounceInv, EmitPropertyChanged
<1>2. /\ n.channel \in ChannelNames /\ n.property \in Paths /\ n.property # <<>>
      /\ n = [channel |-> n.channel, property |-> n.property]
  BY <1>1, PathsAssumption DEF Notes
<1>3. /\ idles # <<>> /\ idles' = Tail(idles)
      /\ Read(n.channel)
      /\ \/ /\ heard' = [heard EXCEPT ![n.channel][n.property] =
                                           GetValue(n.channel, n.property)]
            /\ dropped' = dropped \ {<<n.channel, n.property>>}
         \/ /\ GetValue(n.channel, n.property) \in Unsendable
            /\ UNCHANGED <<heard, dropped>>
  BY <1>2 DEF EmitPropertyChanged, Goes
<1> HIDE DEF n
<1>4. \A d \in ChannelNames, p \in Paths : GetValue(d, p)' = GetValue(d, p)
  <2>1. ReadsChangeIn(n.channel, {})
    BY <1>2, <1>3, KeptSameReads DEF Read, AnnounceInv, Regular
  <2> QED BY <2>1 DEF ReadsChangeIn
<1>5. GetValue(n.channel, n.property) \in Values \cup {NoValue}
  BY <1>2, GetValueType DEF AnnounceInv
<1>6. /\ heard' \in [ChannelNames -> [Paths -> Values \cup {NoValue}]]
      /\ dropped' \subseteq ChannelNames \X Paths
      /\ \A d \in ChannelNames, p \in Paths :
            d = n.channel /\ p = n.property /\ Knowable(d, p)' => heard'[d][p] = GetValue(d, p)
      /\ \A d \in ChannelNames, p \in Paths :
            d # n.channel \/ p # n.property =>
                heard'[d][p] = heard[d][p] /\ (<<d, p>> \in dropped' <=> <<d, p>> \in dropped)
  <2>1. CASE /\ heard' = [heard EXCEPT ![n.channel][n.property] =
                                           GetValue(n.channel, n.property)]
             /\ dropped' = dropped \ {<<n.channel, n.property>>}
    BY <1>2, <1>5, <2>1 DEF AnnounceInv
  <2>2. CASE /\ GetValue(n.channel, n.property) \in Unsendable
             /\ UNCHANGED <<heard, dropped>>
    <3>1. ASSUME NEW d \in ChannelNames, NEW p \in Paths, d = n.channel, p = n.property
          PROVE  ~Knowable(d, p)'
      BY <1>2, <3>1, <1>4, <2>2 DEF Knowable
    <3> QED BY <2>2, <3>1 DEF AnnounceInv
  <2> QED BY <1>3, <2>1, <2>2
<1>7. ASSUME NEW d \in ChannelNames, NEW p \in Paths, Knowable(d, p)',
             heard'[d][p] # GetValue(d, p)'
      PROVE  Waiting(d, p)'
  <2>1. heard'[d][p] # GetValue(d, p)
    BY <1>4, <1>7
  <2>2. d # n.channel \/ p # n.property
    BY <1>6, <1>7, <2>1
  <2>3. Waiting(d, p)
    <3>1. Knowable(d, p)
      BY <1>4, <1>6, <1>7, <2>2 DEF Knowable
    <3> QED BY <1>6, <2>1, <2>2, <3>1 DEF AnnounceInv, EveryChangeAnnounced
  <2>4. Head(idles) # [channel |-> d, property |-> p]
    BY <1>2, <2>2 DEF n
  <2> QED BY <1>3, <2>3, <2>4, EmitTakesHead DEF AnnounceInv
<1> QED BY <1>1, <1>3, <1>6, <1>7 DEF AnnounceInv, EveryChangeAnnounced

LEMMA AnnounceStep ==
    Regular /\ AnnounceInv /\ [DaemonNext]_daemonVars => AnnounceInv'
<1> SUFFICES ASSUME Regular, AnnounceInv, [DaemonNext]_daemonVars PROVE AnnounceInv'
  OBVIOUS
<1> USE DEF AnnounceInv
<1>0. SpelledLower
  BY DEF Regular
<1>1. [Next]_vars
  BY BackendSteps
<1>2. TypeOK' /\ SystemInPlace'
  BY <1>0, <1>1, TypeStep, SystemStep
<1> USE <1>0, <1>1, <1>2
<1>3. ASSUME NEW c \in ChannelNames, NEW p \in Paths, NEW v \in Values, SetProperty(c, p, v)
      PROVE  AnnounceInv'
  <2>1. ReadsChangeIn(c, SetNotes(c, p, v))
    BY <1>3, SetAnnouncesAll DEF SetProperty
  <2>2. SetNotes(c, p, v) \in SUBSET Paths
    BY DEF SetNotes
  <2> QED BY <1>3, <2>1, <2>2, HandlerAnnounces DEF SetProperty
<1>4. ASSUME NEW c \in ChannelNames, NEW p \in Paths, ResetProperty(c, p)
      PROVE  AnnounceInv'
  <2>1. ReadsChangeIn(c, ResetNotes(c, p))
    BY <1>4, ResetAnnouncesAll DEF ResetProperty
  <2>2. ResetNotes(c, p) \in SUBSET Paths
    BY DEF ResetNotes
  <2> QED BY <1>4, <2>1, <2>2, HandlerAnnounces DEF ResetProperty
<1>5. ASSUME NEW c \in ChannelNames, NEW p \in Paths \cup {<<>>}, ResetPropertyRecursive(c, p)
      PROVE  AnnounceInv'
  <2>1. ReadsChangeIn(c, ResetUnderNotes(c, p))
    <3>1. CASE p \in Paths /\ ResetRecursive(c, p)
      BY <3>1, ResetRecursiveAnnouncesAll DEF Regular
    <3>2. CASE p = <<>> /\ ResetChannel(c)
      BY <3>2, ResetChannelAnnouncesAll DEF Regular
    <3> QED BY <1>5, <3>1, <3>2 DEF ResetPropertyRecursive
  <2>2. ResetUnderNotes(c, p) \in SUBSET Paths
    <3>1. UserValued(Obtain(c).tree, Under(p)) \in SUBSET Paths
      BY UnderPaths DEF UserValued
    <3> QED BY <3>1, WholePropnames DEF ResetUnderNotes, Regular
  <2> QED BY <1>5, <2>1, <2>2, HandlerAnnounces DEF ResetPropertyRecursive
<1>6. ASSUME NEW c \in ChannelNames, Query(c) PROVE AnnounceInv'
  <2>1. ReadsChangeIn(c, {})
    BY <1>6, KeptSameReads DEF Query, Read
  <2> QED BY <1>6, <2>1, QuietStepAnnounces DEF Query, ReadsChangeIn
<1>7. CASE EmitPropertyChanged
  BY <1>7, EmitAnnounces
<1>8. CASE SaveChannels \/ HandleDisconnect
  <2>1. FlushChannels /\ Drops /\ UNCHANGED <<idles, heard>>
    BY <1>8 DEF SaveChannels, SaveTimeout, HandleDisconnect, Flush
  <2>2. dropped \subseteq dropped' /\ dropped' \subseteq ChannelNames \X Paths
    BY <2>1 DEF Drops, Perishing, Dirty
  <2> QED BY <2>1, <2>2, FlushChangesReads, QuietStepAnnounces
<1>9. CASE TimePasses \/ UNCHANGED daemonVars
  <2>1. UNCHANGED <<channels, userFile, idles, heard, dropped>>
    BY <1>9 DEF TimePasses, Tick, daemonVars, vars
  <2>2. \A d \in ChannelNames, p \in Paths : GetValue(d, p)' = GetValue(d, p)
    BY <2>1 DEF GetValue, Obtain, LoadChannel
  <2> QED BY <2>1, <2>2, QuietStepAnnounces
<1>10. CASE Quit
  <2>1. idles' = <<>> /\ heard' = AllSent' /\ dropped' = {}
    BY <1>10 DEF Quit
  <2>2. (TypeOK => AllSent \in [ChannelNames -> [Paths -> Values \cup {NoValue}]])'
    BY AllSentType, PTL
  <2>3. \A d \in ChannelNames, p \in Paths :
            Knowable(d, p)' => heard'[d][p] = GetValue(d, p)'
    BY <2>1 DEF AllSent, Sent, Knowable
  <2> QED BY <2>1, <2>2, <2>3 DEF EveryChangeAnnounced
<1> QED BY <1>3, <1>4, <1>5, <1>6, <1>7, <1>8, <1>9, <1>10 DEF DaemonNext, Settable

\* No change goes unannounced but to a value without a D-Bus form, or by a save
\* that unsets one, whatever the order of calls, signals, saves and restarts.  The
\* assumption is what the code needs for it: a name of one
\* character cuts the names announced by a recursive reset, and a file that
\* cannot be removed brings back the values of a channel that was reset.
THEOREM ChangesAnnounced == Regular /\ DaemonSpec => []EveryChangeAnnounced
<1> SUFFICES ASSUME Regular PROVE DaemonSpec => []EveryChangeAnnounced
  BY DEF Regular
<1>1. DaemonInit => AnnounceInv
  <2> SUFFICES ASSUME DaemonInit PROVE AnnounceInv
    OBVIOUS
  <2>1. TypeOK /\ SystemInPlace
    BY TypeInit DEF DaemonInit, Init, SystemInPlace
  <2>2. heard = AllSent /\ idles = <<>> /\ dropped = {}
    BY DEF DaemonInit
  <2> QED BY <2>1, <2>2, AllSentType
          DEF AnnounceInv, EveryChangeAnnounced, AllSent, Sent, Knowable
<1>2. AnnounceInv /\ [DaemonNext]_daemonVars => AnnounceInv'
  BY AnnounceStep
<1>3. AnnounceInv => EveryChangeAnnounced
  BY DEF AnnounceInv
<1> QED BY <1>1, <1>2, <1>3, PTL DEF DaemonSpec
=============================================================================
