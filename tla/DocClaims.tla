----------------------------- MODULE DocClaims -----------------------------
(***************************************************************************)
(* What the specification of the file format says of locks and the         *)
(* per-channel XML backend does not do.                                    *)
(***************************************************************************)
EXTENDS XmlBackend

\* "If the sysadmin does not wish to provide values, but only wants to lock a
\* channel/property, the application's default fallback value will be used
\* instead" (docs/spec/perchannel-xml.txt): a lock without a value stays.  A
\* reset of the property's only child takes the locked node with it.
LocksStay ==
    \A c \in ChannelNames, p \in Paths :
        SysTree[c][p] # NoNode /\ SysTree[c][p].locked => IsPropertyLocked(c, p)
=============================================================================
