------------------------------- MODULE Daemon -------------------------------
(***************************************************************************)
(* esconfd with its one backend: the D-Bus method handlers, the idle       *)
(* sources that turn backend notifications into PropertyChanged and        *)
(* PropertyRemoved signals, and the ways the process ends (esconfd/        *)
(* esconf-daemon.c, esconfd/main.c).                                       *)
(*                                                                         *)
(* A handler runs to completion in the main loop, so it is one step; the   *)
(* idle source it leaves behind runs at a lower priority, after any number *)
(* of further calls, and reads the property again when it does.            *)
(***************************************************************************)
EXTENDS XmlBackend, SequencesExt

CONSTANTS Unsendable,  \* values without a D-Bus form
          MaxIdles     \* bound on queued idle sources

ASSUME SendingAssumption == Unsendable \subseteq Values

VARIABLES idles,   \* queued notifications, oldest first
          heard,   \* what the signals so far told a subscriber that asked for
                   \* every value when the daemon started
          dropped  \* history: <<channel, property>> pairs whose value a save
                   \* dropped and of which no signal went out since

daemonVars == <<vars, idles, heard, dropped>>

Note == [channel : ChannelNames, property : Paths \cup {<<>>} \cup
            UNION {{SubSeq(p, i, Len(p)) : i \in 1..Len(p)} : p \in Paths}]

DaemonTypeOK ==
    /\ TypeOK
    /\ idles \in Seq(Note)
    /\ heard \in [ChannelNames -> [Paths -> Values \cup {NoValue}]]
    /\ dropped \subseteq ChannelNames \X Paths

\* The value that a message about a property carries, if there is one
\* (esconf_gvalue_to_gvariant): GetProperty answers an error for others, and
\* GetAllProperties leaves them out.
Sent(c, p) == IF GetValue(c, p) \in Unsendable THEN NoValue ELSE GetValue(c, p)

AllSent == [c \in ChannelNames |-> [p \in Paths |-> Sent(c, p)]]

DaemonInit == Init /\ idles = <<>> /\ heard = AllSent /\ dropped = {}

-----------------------------------------------------------------------------
(* Method handlers *)

\* esconf_daemon_backend_property_changed, for each name in props.
Queue(c, props) ==
    idles' = idles \o SetToSeq({[channel |-> c, property |-> p] : p \in props})

Room == Len(idles) < MaxIdles

SetProperty(c, p, v) ==
    Room /\ Set(c, p, v) /\ Queue(c, SetNotes(c, p, v)) /\ UNCHANGED <<heard, dropped>>

\* GetProperty, GetAllProperties, PropertyExists and IsPropertyLocked
Query(c) == Read(c) /\ UNCHANGED <<idles, heard, dropped>>

ResetProperty(c, p) ==
    Room /\ Reset(c, p) /\ Queue(c, ResetNotes(c, p)) /\ UNCHANGED <<heard, dropped>>

ResetPropertyRecursive(c, p) ==
    /\ Room
    /\ \/ p \in Paths /\ ResetRecursive(c, p)
       \/ p = <<>> /\ ResetChannel(c)
    /\ Queue(c, ResetUnderNotes(c, p))
    /\ UNCHANGED <<heard, dropped>>

-----------------------------------------------------------------------------
(* Signals *)

\* Mutant of Goes: no signal for a property without a value.
GoesWithValue(n) ==
    n.property \in Paths /\ GetValue(n.channel, n.property) \notin Unsendable \cup {NoValue}

\* A signal about a property goes out unless its value has no D-Bus form; one
\* by a name that no property has says nothing to anyone.
Goes(n) == n.property \in Paths /\ GetValue(n.channel, n.property) \notin Unsendable

\* esconf_daemon_emit_property_changed_idled: the value the property has now,
\* or PropertyRemoved if it has none.
EmitPropertyChanged ==
    /\ idles # <<>>
    /\ LET n == Head(idles)
       IN  /\ IF n.property = <<>> THEN UNCHANGED vars ELSE Read(n.channel)
           /\ \/ /\ Goes(n)
                 /\ heard' = [heard EXCEPT ![n.channel][n.property] =
                                               GetValue(n.channel, n.property)]
                 /\ dropped' = dropped \ {<<n.channel, n.property>>}
              \/ ~Goes(n) /\ UNCHANGED <<heard, dropped>>
    /\ idles' = Tail(idles)

-----------------------------------------------------------------------------
(* The process *)

\* Saving announces nothing.
Drops == dropped' = dropped \cup {cp \in Perishing : channels'[cp[1]].tree[cp[2]].value = NoValue}

SaveChannels == SaveTimeout /\ Drops /\ UNCHANGED <<idles, heard>>

TimePasses == Tick /\ UNCHANGED <<idles, heard, dropped>>

\* The bus connection closed.
HandleDisconnect == Flush /\ Drops /\ UNCHANGED <<idles, heard>>

\* The main loop was told to quit (SIGTERM, or the bus name was lost) and main
\* drops its reference.  A queued idle source holds another, and there is no
\* main loop left to run it: then nothing is finalised.  Otherwise finalize
\* flushes the backend, which is finalised in turn.  A new daemon starts, with
\* subscribers that ask it afresh.
Quit ==
    /\ IF idles = <<>> THEN FlushLast ELSE UNCHANGED userFile
    /\ timer' = 0
    /\ channels' = [c \in ChannelNames |-> NotLoaded]
    /\ idles' = <<>>
    /\ heard' = AllSent'
    /\ dropped' = {}

DaemonNext ==
    \/ \E c \in ChannelNames :
          \/ \E p \in Paths, v \in Settable \ Unsendable : SetProperty(c, p, v)
          \/ \E p \in Paths : ResetProperty(c, p)
          \/ \E p \in Paths \cup {<<>>} : ResetPropertyRecursive(c, p)
          \/ Query(c)
    \/ EmitPropertyChanged
    \/ SaveChannels
    \/ TimePasses
    \/ HandleDisconnect
    \/ Quit

\* A call handled by a method that may change something.
Busy ==
    \E c \in ChannelNames :
        \/ \E p \in Paths, v \in Settable \ Unsendable : SetProperty(c, p, v)
        \/ \E p \in Paths : ResetProperty(c, p)
        \/ \E p \in Paths \cup {<<>>} : ResetPropertyRecursive(c, p)

\* The main loop gets round to idle sources and expired timeouts.
DaemonSpec ==
    /\ DaemonInit /\ [][DaemonNext]_daemonVars
    /\ WF_daemonVars(EmitPropertyChanged)
    /\ WF_daemonVars(SaveChannels) /\ WF_daemonVars(TimePasses)

-----------------------------------------------------------------------------
(* Correctness *)

Waiting(c, p) == \E i \in 1..Len(idles) : idles[i] = [channel |-> c, property |-> p]

\* What a subscriber should know of a property: one whose value no message can
\* carry is beyond it, and so is one that lost its value to a save.
Knowable(c, p) == GetValue(c, p) \notin Unsendable /\ <<c, p>> \notin dropped

\* A subscriber who is out of date about a property has a signal about that
\* very property coming, but for values without a D-Bus form and for those that
\* saving drops: no other change, however it came about, goes unannounced
\* ("Emitted when a property changes", common/esconf-dbus.xml).
EveryChangeAnnounced ==
    \A c \in ChannelNames, p \in Paths :
        Knowable(c, p) /\ heard[c][p] # GetValue(c, p) => Waiting(c, p)

\* Once callers stop modifying, subscribers know every value that they can know
\* of, and stay in the know.
SubscribersLearn ==
    <>[][~Busy]_daemonVars =>
        <>[](\A c \in ChannelNames, p \in Paths :
                Knowable(c, p) => heard[c][p] = GetValue(c, p))

\* A daemon told to quit leaves every change in the user files (finalize of
\* the daemon and of its backend; the user's settings are saved, says
\* docs/spec/perchannel-xml.txt).
QuitSaves ==
    [][Quit => userFile' = Written(SavableDirty)]_daemonVars
=============================================================================
