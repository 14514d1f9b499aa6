-------------------------- MODULE XmlBackendStore --------------------------
(***************************************************************************)
(* The per-channel XML backend implements the configuration store.  The    *)
(* user value of a property is the one in the channel's tree, loaded or as *)
(* loading would give it; the saved one is what loading would give.        *)
(* Loading, reading, the timer and a failed write do not show.             *)
(***************************************************************************)
EXTENDS XmlBackend

UserValue(t, p) == IF t[p] = NoNode THEN NoValue ELSE t[p].value

userBar == [c \in ChannelNames |-> [p \in Paths |-> UserValue(Obtain(c).tree, p)]]

savedBar == [c \in ChannelNames |-> [p \in Paths |-> UserValue(LoadChannel(c).tree, p)]]

LockedBar == {cp \in ChannelNames \X Paths :
                 SysTree[cp[1]][cp[2]] # NoNode /\ SysTree[cp[1]][cp[2]].locked}

Store == INSTANCE ConfigStore WITH
             Channels <- ChannelNames, Props <- Paths, Locked <- LockedBar,
             Subtree <- Under, user <- userBar, saved <- savedBar

\* Every behaviour of the backend is one of the store: a set changes one
\* unlocked property, a reset exactly the properties it names, a read nothing
\* (although it may load a channel), and a restart goes back to what was
\* saved, channel by channel.
ImplementsStore == Store!StoreSpec
=============================================================================
