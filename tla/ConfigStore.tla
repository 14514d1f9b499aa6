---------------------------- MODULE ConfigStore ----------------------------
(***************************************************************************)
(* What a backend of esconfd promises (the interface of esconfd/           *)
(* esconf-backend.c): a store of user values over administrator defaults,  *)
(* with the part of it that would survive the daemon.                      *)
(***************************************************************************)
CONSTANTS Channels, Props, Values, NoValue,
          Locked,      \* <<channel, property>> pairs no user may change
          Subtree(_),  \* a property and everything below it
          Unwritable,  \* values the persistent form has no place for
          Unsavable,   \* values that keep a channel from being saved
          Reread(_)    \* any other value as the persistent form keeps it

VARIABLES user,   \* the user value of each property
          saved   \* the user values on disk

storeVars == <<user, saved>>

NoUserValues == [p \in Props |-> NoValue]

StoreInit == saved = user

Persisted(vals) ==
    [p \in Props |-> IF vals[p] \in Unwritable \cup {NoValue} THEN NoValue
                     ELSE Reread(vals[p])]

\* One property takes the value given, and no other changes.
SetOne(c, p, v) ==
    /\ <<c, p>> \notin Locked
    /\ user' = [user EXCEPT ![c][p] = v]
    /\ UNCHANGED saved

\* Exactly the properties of S fall back to their defaults.
Unset(c, S) ==
    /\ user' = [user EXCEPT ![c] = [p \in Props |-> IF p \in S THEN NoValue
                                                    ELSE user[c][p]]]
    /\ UNCHANGED saved

\* The channel falls back to its defaults for good; when the disk does not
\* cooperate, to what was saved.
Forget(c) ==
    \/ /\ user' = [user EXCEPT ![c] = NoUserValues]
       /\ saved' = [saved EXCEPT ![c] = NoUserValues]
    \/ /\ user' = [user EXCEPT ![c] = saved[c]]
       /\ UNCHANGED saved

\* Whole channels are saved, never parts of one.
Savable == {c \in Channels : \A p \in Props : user[c][p] \notin Unsavable}

AfterSaving(S) == [c \in Channels |-> IF c \in S THEN Persisted(user[c]) ELSE saved[c]]

\* The user values that trying to save may cost: a channel that is saved keeps
\* none of them, so that it agrees with the disk.
Perishing == {cp \in Channels \X Props : user[cp[1]][cp[2]] \in Unwritable}

Save(S) ==
    /\ saved' = AfterSaving(S)
    /\ \E lost \in SUBSET Perishing :
          /\ \A cp \in Perishing : cp[1] \in S => cp \in lost
          /\ user' = [c \in Channels |-> [p \in Props |->
                         IF <<c, p>> \in lost THEN NoValue ELSE user[c][p]]]

Restart(S) == saved' = AfterSaving(S) /\ user' = saved'

StoreNext ==
    \/ \E c \in Channels, p \in Props :
          \/ \E v \in Values : SetOne(c, p, v)
          \/ \E S \in {{p}, Subtree(p)} : Unset(c, S)
    \/ \E c \in Channels : Forget(c)
    \/ \E S \in SUBSET Savable : Save(S) \/ Restart(S)

StoreSpec == StoreInit /\ [][StoreNext]_storeVars
=============================================================================
