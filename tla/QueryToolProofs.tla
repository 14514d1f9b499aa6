-------------------------- MODULE QueryToolProofs --------------------------
(***************************************************************************)
(* Theorems of the command line tool over any number of backends, for any  *)
(* number of tools, command lines, defaults and locks.                     *)
(***************************************************************************)
EXTENDS QueryTool, WellFoundedInduction, TLAPS

-----------------------------------------------------------------------------
(* The first and the last backend with a value *)

Less == {pair \in Nat \X Nat : pair[1] < pair[2]}

\* A set of natural numbers has a least element.
LEMMA LeastNumber ==
    ASSUME NEW S, S \subseteq Nat, S # {}
    PROVE  Min(S) \in S /\ \A y \in S : Min(S) <= y
<1>1. IsWellFoundedOn(Less, Nat)
  BY NatLessThanWellFounded DEF Less, OpToRel
<1>2. PICK x \in S : \A y \in S : ~(<<y, x>> \in Less)
  BY <1>1, WFMin
<1>3. ASSUME NEW y \in S PROVE x <= y
  <2>1. x \in Nat /\ y \in Nat
    OBVIOUS
  <2>2. y < x => <<y, x>> \in Less
    BY <2>1 DEF Less
  <2> QED BY <1>2, <2>1, <2>2
<1> QED BY <1>3 DEF Min

\* A set of numbers up to n has a greatest element.
LEMMA GreatestNumber ==
    ASSUME NEW n \in Nat, NEW S, S \subseteq 1..n, S # {}
    PROVE  Max(S) \in S
<1> DEFINE T == {y \in 0..n : n - y \in S}
<1>1. T \subseteq Nat
  OBVIOUS
<1>2. T # {}
  <2>1. PICK x \in S : TRUE
    OBVIOUS
  <2>2. n - x \in T
    BY <2>1
  <2> QED BY <2>2
<1>3. Min(T) \in T /\ \A y \in T : Min(T) <= y
  BY <1>1, <1>2, LeastNumber
<1> DEFINE m == n - Min(T)
<1>4. m \in S
  BY <1>3
<1>5. ASSUME NEW x \in S PROVE m >= x
  <2>1. n - x \in T
    OBVIOUS
  <2>2. Min(T) <= n - x /\ Min(T) \in Nat /\ x \in Nat
    BY <2>1, <1>3
  <2> QED BY <2>2
<1> QED BY <1>4, <1>5 DEF Max

Held == [1..Backends -> [Names -> Values \cup {None}]]

LEMMA ValueType ==
    ASSUME NEW u \in Held, NEW b \in 1..Backends, NEW n \in Names
    PROVE  Value(u, b, n) \in Values \cup {None}
  BY BackendsAssumption DEF Held, Value

\* What a call can return is a value that some backend holds.
LEMMA RepliesHeld ==
    ASSUME NEW u \in Held, NEW n \in Names
    PROVE  /\ GetReply(u, n) \in HeldNow(u, n)
           /\ GetAllReply(u, n) # None => GetAllReply(u, n) \in HeldNow(u, n)
           /\ HeldNow(u, n) \subseteq Values \cup {None}
           /\ GetReply(u, n) \in Values \cup {None}
           /\ GetAllReply(u, n) \in Values \cup {None}
<1>1. Holding(u, n) \subseteq 1..Backends /\ Backends \in Nat
  BY BackendsAssumption DEF Holding
<1>2. ASSUME Holding(u, n) # {}
      PROVE  Min(Holding(u, n)) \in 1..Backends /\ Max(Holding(u, n)) \in 1..Backends
  <2>1. Holding(u, n) \subseteq Nat
    BY <1>1
  <2>2. Min(Holding(u, n)) \in Holding(u, n)
    BY <1>2, <2>1, LeastNumber
  <2>3. Max(Holding(u, n)) \in Holding(u, n)
    BY <1>1, <1>2, GreatestNumber
  <2> QED BY <1>1, <2>2, <2>3
<1>3. GetReply(u, n) \in Values \cup {None}
  BY <1>2, ValueType DEF GetReply
<1>4. GetAllReply(u, n) \in Values \cup {None}
  BY <1>2, ValueType DEF GetAllReply
<1>5. HeldNow(u, n) \subseteq Values \cup {None}
  BY <1>3, ValueType DEF HeldNow
<1>6. GetAllReply(u, n) # None => GetAllReply(u, n) \in HeldNow(u, n)
  BY <1>2 DEF GetAllReply, HeldNow
<1> QED BY <1>3, <1>4, <1>5, <1>6 DEF HeldNow

-----------------------------------------------------------------------------
(* What a command makes of the value there is *)

\* The value v that a tool sends for o follows from one of those in B.
Follows(o, v, B) ==
    /\ o.set_value = <<>> => \E w \in B : v = Not(w) /\ w = Not(v)
    /\ ~o.create => B # {}
    /\ o.set_value # <<>> /\ o.type = <<>> =>
          \E w \in B :
              w.array = v.array /\ [i \in DOMAIN w.items |-> w.items[i][1]] =
                                   [i \in DOMAIN v.items |-> v.items[i][1]]

LEMMA FollowsMonotone ==
    ASSUME NEW o, NEW v, NEW A, NEW B, A \subseteq B, Follows(o, v, A)
    PROVE  Follows(o, v, B)
  BY DEF Follows

LEMMA ScalarValue ==
    ASSUME NEW v \in Values, ~v.array
    PROVE  v = Scalar(v.items[1][1], v.items[1][2])
<1>1. /\ v \in [array : BOOLEAN, items : Seq(STRING \X STRING)]
      /\ Len(v.items) = 1
  BY ValuesAssumption DEF IsGValue
<1>2. v = [array |-> FALSE, items |-> v.items]
  BY <1>1
<1>3. v.items[1] = <<v.items[1][1], v.items[1][2]>>
  <2>1. v.items[1] \in STRING \X STRING
    BY <1>1
  <2> QED BY <2>1
<1>4. v.items = <<v.items[1]>>
  BY <1>1
<1> QED BY <1>2, <1>3, <1>4 DEF Scalar

\* A boolean turned round twice is the boolean.
LEMMA NotNot ==
    ASSUME NEW v \in Values, ~v.array, TypeOf(v) = "gboolean"
    PROVE  Not(Not(v)) = v
<1>1. v = Scalar("gboolean", v.items[1][2])
  BY ScalarValue DEF TypeOf
<1>2. v.items[1][2] \in {"true", "false"}
  BY ValuesAssumption DEF IsGValue
<1>3. Scalar("gboolean", "true") # Scalar("gboolean", "false")
  <2>1. <<<<"gboolean", "true">>>>[1][2] # <<<<"gboolean", "false">>>>[1][2]
    OBVIOUS
  <2> QED BY <2>1 DEF Scalar
<1> QED BY <1>1, <1>2, <1>3 DEF Not

\* The types of an array's or a scalar's items.
ItemTypes(v) == [i \in DOMAIN v.items |-> v.items[i][1]]

LEMMA ScalarTypes ==
    ASSUME NEW v \in Values, ~v.array, NEW text
    PROVE  ItemTypes(Scalar(TypeOf(v), text)) = ItemTypes(v)
<1>1. v = Scalar(TypeOf(v), v.items[1][2])
  BY ScalarValue DEF TypeOf
<1>2. \A s : /\ DOMAIN Scalar(TypeOf(v), s).items = {1}
             /\ Scalar(TypeOf(v), s).items[1][1] = TypeOf(v)
  BY DEF Scalar
<1>3. \A s : ItemTypes(Scalar(TypeOf(v), s)) = [i \in {1} |-> TypeOf(v)]
  BY <1>2 DEF ItemTypes
<1> QED BY <1>1, <1>3

\* What a command makes of a value follows from it.
LEMMA ChosenFollows ==
    ASSUME NEW o \in Commands, NEW current \in Values \cup {None},
           NEW B, current # None => current \in B, NEW v,
           v = IF o.set_value # <<>> THEN ValueToSet(o, current)
               ELSE IF o.toggle THEN Toggled(current) ELSE None,
           v # None
    PROVE  Follows(o, v, B)
<1>1. CASE o.set_value = <<>>
  <2>1. v = Toggled(current)
    BY <1>1
  <2>2. current \in Values /\ ~current.array /\ TypeOf(current) = "gboolean"
    BY <2>1 DEF Toggled
  <2>3. v = Not(current) /\ current = Not(v) /\ current \in B
    BY <2>1, <2>2, NotNot, BackendsAssumption DEF Toggled
  <2> QED BY <1>1, <2>3 DEF Follows
<1>2. CASE o.set_value # <<>>
  <2>1. v = ValueToSet(o, current)
    BY <1>2
  <2>2. current = None => o.create /\ o.type # <<>>
    BY <2>1 DEF ValueToSet
  <2>3. ASSUME o.type = <<>>
        PROVE  \E w \in B : w.array = v.array /\ ItemTypes(w) = ItemTypes(v)
    <3>1. current \in Values /\ current \in B
      BY <2>2, <2>3
    <3>2. CASE Len(o.set_value) = 1 /\ ~o.force_array
      <4>1. v = ScalarToSet(o, current)
        BY <2>1, <3>2 DEF ValueToSet
      <4>2. ~current.array /\ v = Scalar(TypeOf(current), o.set_value[1])
        BY <4>1, <2>3 DEF ScalarToSet, Converted
      <4>3. current.array = FALSE /\ v.array = FALSE
        <5>1. current.array \in BOOLEAN
          BY <3>1, ValuesAssumption DEF IsGValue
        <5> QED BY <4>2, <5>1 DEF Scalar
      <4>4. ItemTypes(v) = ItemTypes(current)
        BY <3>1, <4>2, ScalarTypes
      <4> QED BY <3>1, <4>3, <4>4
    <3>3. CASE ~(Len(o.set_value) = 1 /\ ~o.force_array)
      <4>1. v = ArrayToSet(o, current)
        BY <2>1, <3>3 DEF ValueToSet
      <4> DEFINE types == ArrayTypes(o, current)
      <4>2. /\ Len(types) = Len(o.set_value)
            /\ v = [array |-> TRUE, items |-> [i \in DOMAIN types |-> <<types[i], o.set_value[i]>>]]
        BY <4>1 DEF ArrayToSet
      <4>3. o.set_value \in Seq(STRING)
        BY QueryAssumption DEF Command
      <4>4. current.array
        <5>1. SUFFICES ASSUME ~current.array PROVE FALSE
          OBVIOUS
        <5>2. types = <<>>
          BY <5>1, <2>3 DEF ArrayTypes
        <5> QED BY <4>2, <4>3, <5>2, <1>2
      <4>5. types = ItemTypes(current)
        BY <4>4, <2>3 DEF ArrayTypes, ItemTypes
      <4>6. ItemTypes(v) = types
        <5>1. DOMAIN v.items = DOMAIN types
          BY <4>2
        <5>2. \A i \in DOMAIN types : v.items[i][1] = types[i]
          BY <4>2
        <5>3. types = [i \in DOMAIN types |-> types[i]]
          BY <4>5 DEF ItemTypes
        <5> QED BY <5>1, <5>2, <5>3 DEF ItemTypes
      <4>7. current.array = TRUE /\ v.array = TRUE
        <5>1. current.array \in BOOLEAN
          BY <3>1, ValuesAssumption DEF IsGValue
        <5> QED BY <4>2, <4>4, <5>1
      <4> QED BY <3>1, <4>5, <4>6, <4>7
    <3> QED BY <3>2, <3>3
  <2>4. ~o.create => B # {}
    BY <2>2
  <2> QED BY <1>2, <2>3, <2>4 DEF Follows, ItemTypes
<1> QED BY <1>1, <1>2

-----------------------------------------------------------------------------
(* The inductive invariant *)

\* A tool that has started was given options that go together, and what it
\* cached is a value that was there.
Ready(t) ==
    tool[t].pc # "idle" =>
        /\ Accepted(tool[t].command)
        /\ tool[t].command.property \in Names =>
               \/ tool[t].cached = None
               \/ tool[t].pc = "started" /\ tool[t].cached \in held[t]
               \/ tool[t].pc \in {"checked", "sent"}

\* DecidedByWhatWas for one tool, whose property has a name and whose value is
\* one.
Decided(t) ==
    tool[t].pc \in {"checked", "sent"} =>
        /\ tool[t].value # None
        /\ tool[t].command.property \in Names
        /\ Follows(tool[t].command, tool[t].value, Before(t))

QueryInv ==
    /\ QueryTypeOK
    /\ \A t \in Tools : Ready(t) /\ Decided(t)

LEMMA CommandType ==
    ASSUME NEW o \in Commands
    PROVE  /\ o \in Command
           /\ o.property \in Names \cup {<<>>}
           /\ Changes(o) => o.property \in Names
  BY QueryAssumption DEF Command, Changes

\* What a tool reads when it decides is held at that time.
LEMMA LookupHeld ==
    ASSUME QueryInv, NEW t \in Tools, tool[t].pc = "started",
           tool[t].command.property \in Names
    PROVE  /\ Lookup(t) \in Values \cup {None}
           /\ Lookup(t) \in held[t] \cup HeldNow(user, tool[t].command.property)
<1>1. user \in Held /\ tool[t] \in Running
  BY DEF QueryInv, QueryTypeOK, Held, NoTool
<1>2. Ready(t)
  BY DEF QueryInv
<1> QED BY <1>1, <1>2, RepliesHeld DEF Ready, Lookup, Running

\* A step of one tool: the others stay, and it becomes one of what may be.
Moves(t, x) == tool' = [tool EXCEPT ![t] = x] /\ x \in {NoTool} \cup Running

\* What a running tool becomes leaves its invariants true.
Kept(t, x) ==
    x.pc # "idle" =>
        /\ Accepted(x.command)
        /\ x.pc = "started" /\ x.command.property \in Names =>
              x.cached = None \/ x.cached \in HeldNow(user', x.command.property)
        /\ x.pc \in {"checked", "sent"} =>
              /\ x.value # None
              /\ Follows(x.command, x.value,
                         (held[t] \cup HeldNow(user', x.command.property)) \ {None})
              /\ x.command.property \in Names

LEMMA StartMoves ==
    ASSUME QueryInv, NEW t \in Tools, NEW o \in Commands, Start(t, o)
    PROVE  \E x : Moves(t, x) /\ Kept(t, x) /\ user' \in Held
<1> DEFINE x == [pc |-> "started", command |-> o, value |-> None,
                 cached |-> IF o.property \in Names THEN GetAllReply(user, o.property)
                            ELSE None]
<1>1. tool' = [tool EXCEPT ![t] = x] /\ user' = user /\ Accepted(o)
  BY DEF Start
<1>2. user \in Held
  BY DEF QueryInv, QueryTypeOK, Held
<1>3. o.property \in Names =>
          /\ GetAllReply(user, o.property) \in Values \cup {None}
          /\ GetAllReply(user, o.property) # None =>
                 GetAllReply(user, o.property) \in HeldNow(user, o.property)
  BY <1>2, RepliesHeld
<1>4. x \in Running
  BY <1>3 DEF Running
<1>5. Kept(t, x)
  BY <1>1, <1>3 DEF Kept
<1> QED BY <1>1, <1>2, <1>4, <1>5 DEF Moves

LEMMA EndMoves ==
    ASSUME NEW t \in Tools, Ends(t), user' \in Held
    PROVE  \E x : Moves(t, x) /\ Kept(t, x) /\ user' \in Held
<1>1. Kept(t, NoTool)
  BY DEF Kept, NoTool
<1> QED BY <1>1 DEF Moves, Ends

LEMMA DecideMoves ==
    ASSUME QueryInv, NEW t \in Tools, Decide(t)
    PROVE  \E x : Moves(t, x) /\ Kept(t, x) /\ user' \in Held
<1> DEFINE o == tool[t].command
           current == Lookup(t)
           value == IF o.set_value # <<>> THEN ValueToSet(o, current)
                    ELSE IF o.toggle THEN Toggled(current) ELSE None
           x == [tool[t] EXCEPT !.pc = "checked", !.value = value, !.cached = current]
<1>1. user' = user /\ user \in Held /\ tool[t].pc = "started"
  BY DEF Decide, QueryInv, QueryTypeOK, Held
<1>2. CASE Ends(t)
  BY <1>1, <1>2, EndMoves
<1>3. CASE Changes(o) /\ value # None /\ tool' = [tool EXCEPT ![t] = x]
  <2>1. tool[t] \in Running /\ o \in Commands /\ Accepted(o)
    BY <1>1 DEF QueryInv, QueryTypeOK, NoTool, Running, Ready
  <2>2. o.property \in Names
    BY <1>3, <2>1, CommandType
  <2>3. /\ current \in Values \cup {None}
        /\ current \in held[t] \cup HeldNow(user, o.property)
    BY <1>1, <2>2, LookupHeld
  <2>4. value \in Values \cup {None}
    BY <2>1, <2>3, ValuesAssumption
  <2>5. x \in Running
    BY <2>1, <2>3, <2>4 DEF Running
  <2>6. x.pc = "checked" /\ x.command = o /\ x.value = value
    BY <2>1 DEF Running
  <2>7. Follows(o, value, (held[t] \cup HeldNow(user', o.property)) \ {None})
    BY <1>1, <1>3, <2>1, <2>3, ChosenFollows
  <2>8. Kept(t, x)
    BY <1>3, <2>1, <2>2, <2>6, <2>7 DEF Kept
  <2> QED BY <1>1, <1>3, <2>5, <2>8 DEF Moves
<1> QED BY <1>2, <1>3 DEF Decide

LEMMA ResetType ==
    ASSUME NEW u \in Held, NEW base, NEW recursive
    PROVE  AfterReset(u, base, recursive) \in Held
  BY DEF AfterReset, Held

LEMMA SetType ==
    ASSUME NEW u \in Held, NEW n \in Names, NEW v \in Values
    PROVE  AfterSet(u, n, v) \in Held
  BY BackendsAssumption DEF AfterSet, Held

LEMMA SendMoves ==
    ASSUME QueryInv, NEW t \in Tools, Send(t)
    PROVE  \E x : Moves(t, x) /\ Kept(t, x) /\ user' \in Held
<1> DEFINE x == [tool[t] EXCEPT !.pc = "sent"]
           n == tool[t].command.property
<1>1. user' = user /\ user \in Held /\ tool[t].pc = "checked"
  BY DEF Send, QueryInv, QueryTypeOK, Held
<1>2. CASE Ends(t)
  BY <1>1, <1>2, EndMoves
<1>3. CASE Valid(n) /\ tool' = [tool EXCEPT ![t] = x]
  <2>1. tool[t] \in Running /\ Accepted(tool[t].command)
    BY <1>1 DEF QueryInv, QueryTypeOK, NoTool, Ready
  <2>2. /\ x \in Running /\ x.pc = "sent"
        /\ x.command = tool[t].command /\ x.value = tool[t].value
    BY <2>1 DEF Running
  <2>3. n \in Names
    BY <1>1 DEF QueryInv, Decided
  <2>4. Follows(tool[t].command, tool[t].value, (held[t] \cup HeldNow(user', n)) \ {None})
    <3>1. Follows(tool[t].command, tool[t].value, held[t] \ {None})
      BY <1>1 DEF QueryInv, Decided, Before
    <3> QED BY <3>1, FollowsMonotone
  <2>5. tool[t].value # None
    BY <1>1 DEF QueryInv, Decided
  <2> QED BY <1>1, <1>3, <2>1, <2>2, <2>3, <2>4, <2>5 DEF Kept, Moves
<1> QED BY <1>2, <1>3 DEF Send

LEMMA HandleMoves ==
    ASSUME QueryInv, NEW t \in Tools, Handle(t)
    PROVE  \E x : Moves(t, x) /\ Kept(t, x) /\ user' \in Held
<1>1. tool[t].pc = "sent" /\ user \in Held /\ tool[t] \in Running
  BY DEF Handle, QueryInv, QueryTypeOK, Held, NoTool
<1>2. tool[t].value \in Values /\ tool[t].command.property \in Names
  BY <1>1 DEF QueryInv, Decided, Running
<1>3. user' \in Held
  BY <1>1, <1>2, SetType DEF Handle
<1> QED BY <1>3, EndMoves DEF Handle

LEMMA ResetMoves ==
    ASSUME QueryInv, NEW t \in Tools, ResetIt(t)
    PROVE  \E x : Moves(t, x) /\ Kept(t, x) /\ user' \in Held
<1>1. user \in Held
  BY DEF QueryInv, QueryTypeOK, Held
<1>2. user' \in Held
  BY <1>1, ResetType DEF ResetIt
<1> QED BY <1>2, EndMoves DEF ResetIt

\* Every step is one of one tool.
LEMMA StepMoves ==
    ASSUME QueryInv, QueryNext
    PROVE  \E t \in Tools : \E x : Moves(t, x) /\ Kept(t, x) /\ user' \in Held
  BY StartMoves, DecideMoves, ResetMoves, SendMoves, HandleMoves DEF QueryNext

\* What was held stays so while a tool runs, and what is held now is added.
LEMMA Watched ==
    ASSUME QueryInv, Watch, user' \in Held, tool' \in [Tools -> {NoTool} \cup Running],
           NEW t \in Tools
    PROVE  /\ held' = [u \in Tools |-> held'[u]]
           /\ held'[t] \subseteq Values \cup {None}
           /\ tool'[t].pc # "idle" => held[t] \subseteq held'[t]
           /\ tool'[t].pc # "idle" /\ tool'[t].command.property \in Names =>
                  held'[t] = held[t] \cup HeldNow(user', tool'[t].command.property)
<1>1. held[t] \subseteq Values \cup {None}
  BY DEF QueryInv, QueryTypeOK
<1>2. held'[t] = IF tool'[t].pc = "idle" THEN {}
                 ELSE held[t] \cup (IF tool'[t].command.property \in Names
                                    THEN HeldNow(user', tool'[t].command.property) ELSE {})
  BY DEF Watch
<1>3. tool'[t].command.property \in Names =>
          HeldNow(user', tool'[t].command.property) \subseteq Values \cup {None}
  BY RepliesHeld
<1>4. held' = [u \in Tools |-> held'[u]]
  BY DEF Watch
<1> QED BY <1>1, <1>2, <1>3, <1>4

LEMMA QueryInvKept ==
    ASSUME QueryInv, [QueryNext]_queryVars
    PROVE  QueryInv'
<1>1. CASE UNCHANGED queryVars
  BY <1>1 DEF queryVars, QueryInv, QueryTypeOK, Ready, Decided, Before
<1>2. CASE QueryNext
  <2>1. PICK t \in Tools : \E x : Moves(t, x) /\ Kept(t, x) /\ user' \in Held
    BY <1>2, StepMoves
  <2>2. PICK x : Moves(t, x) /\ Kept(t, x) /\ user' \in Held
    BY <2>1
  <2>3. /\ tool \in [Tools -> {NoTool} \cup Running]
        /\ tool' \in [Tools -> {NoTool} \cup Running]
        /\ tool'[t] = x /\ \A u \in Tools : u # t => tool'[u] = tool[u]
    BY <2>2 DEF Moves, QueryInv, QueryTypeOK
  <2>4. Watch
    BY <1>2 DEF QueryNext
  <2>5. ASSUME NEW u \in Tools PROVE Ready(u)' /\ Decided(u)'
    <3>1. /\ tool'[u].pc # "idle" => held[u] \subseteq held'[u]
          /\ tool'[u].pc # "idle" /\ tool'[u].command.property \in Names =>
                held'[u] = held[u] \cup HeldNow(user', tool'[u].command.property)
      BY <2>2, <2>3, <2>4, Watched
    <3>2. CASE u = t
      <4>1. tool'[u] = x /\ Kept(t, x) /\ x \in {NoTool} \cup Running
        BY <2>2, <2>3, <3>2 DEF Moves
      <4>2. Ready(u)'
        <5> SUFFICES ASSUME x.pc # "idle" PROVE Ready(u)'
          BY <4>1 DEF Ready
        <5>1. x \in Running /\ Accepted(x.command)
          BY <4>1 DEF Kept, NoTool
        <5>2. x.pc \in {"started", "checked", "sent"}
          BY <5>1 DEF Running
        <5> QED BY <3>1, <4>1, <5>1, <5>2 DEF Kept, Ready
      <4>3. Decided(u)'
        <5> SUFFICES ASSUME x.pc \in {"checked", "sent"} PROVE Decided(u)'
          BY <4>1 DEF Decided
        <5>1. /\ x.value # None /\ x.command.property \in Names
              /\ Follows(x.command, x.value,
                         (held[t] \cup HeldNow(user', x.command.property)) \ {None})
          BY <4>1 DEF Kept
        <5>2. Before(u)' = (held[t] \cup HeldNow(user', x.command.property)) \ {None}
          BY <3>1, <3>2, <4>1, <5>1 DEF Before
        <5> QED BY <4>1, <5>1, <5>2 DEF Decided
      <4> QED BY <4>2, <4>3
    <3>3. CASE u # t
      <4>1. tool'[u] = tool[u] /\ Ready(u) /\ Decided(u)
        BY <2>3, <3>3 DEF QueryInv
      <4>2. Ready(u)'
        BY <3>1, <4>1 DEF Ready
      <4>3. Decided(u)'
        <5>1. SUFFICES ASSUME tool'[u].pc \in {"checked", "sent"}
                       PROVE  Follows(tool[u].command, tool[u].value, Before(u)')
          BY <4>1 DEF Decided
        <5>2. Follows(tool[u].command, tool[u].value, Before(u))
          BY <4>1, <5>1 DEF Decided
        <5>3. Before(u) \subseteq Before(u)'
          BY <3>1, <5>1 DEF Before
        <5> QED BY <5>2, <5>3, FollowsMonotone
      <4> QED BY <4>2, <4>3
    <3> QED BY <3>2, <3>3
  <2>6. QueryTypeOK'
    <3>1. held' = [u \in Tools |-> held'[u]]
      BY <2>4 DEF Watch
    <3>2. \A u \in Tools : held'[u] \subseteq Values \cup {None}
      BY <2>2, <2>3, <2>4, Watched
    <3>3. held' \in [Tools -> SUBSET (Values \cup {None})]
      BY <3>1, <3>2
    <3>4. \A u \in Tools : tool'[u].pc = "sent" => tool'[u].value # None
      BY <2>5 DEF Decided
    <3>5. user' \in Held
      BY <2>2
    <3> QED BY <2>3, <3>3, <3>4, <3>5 DEF QueryTypeOK, Held
  <2> QED BY <2>5, <2>6 DEF QueryInv
<1> QED BY <1>1, <1>2

LEMMA QueryInvHolds == QuerySpec => []QueryInv
<1>1. QueryInit => QueryInv
  <2> SUFFICES ASSUME QueryInit PROVE QueryInv
    OBVIOUS
  <2>1. user \in Held
    BY QueryAssumption DEF QueryInit, Held
  <2>2. QueryTypeOK
    BY <2>1 DEF QueryInit, QueryTypeOK, Held, NoTool
  <2>3. \A t \in Tools : Ready(t) /\ Decided(t)
    BY DEF QueryInit, Ready, Decided, NoTool
  <2> QED BY <2>2, <2>3 DEF QueryInv
<1> QED BY <1>1, QueryInvKept, PTL DEF QuerySpec

-----------------------------------------------------------------------------
(* The theorems *)

\* The type invariant of the tool and the backends, for any commands and
\* backends (esconf-query/main.c and the handlers of esconf-daemon.c).
THEOREM QueryTypeCorrect == QuerySpec => []QueryTypeOK
<1>1. QueryInv => QueryTypeOK
  BY DEF QueryInv
<1> QED BY <1>1, QueryInvHolds, PTL

\* Whatever others do between its reading and the handling of its call, a tool
\* sends what follows from a value that the property had while it ran (the
\* branches of main that read before they write).
THEOREM DecisionsFollow == QuerySpec => []DecidedByWhatWas
<1>1. QueryInv => DecidedByWhatWas
  <2> SUFFICES ASSUME QueryInv, NEW t \in Tools, tool[t].pc \in {"checked", "sent"}
               PROVE  Follows(tool[t].command, tool[t].value, Before(t))
    BY DEF DecidedByWhatWas, Follows
  <2> QED BY DEF QueryInv, Decided
<1> QED BY <1>1, QueryInvHolds, PTL

\* The step in which a call that was sent ends is the daemon's, and the one in
\* which a tool that has just started ends is its reset or its giving up.
LEMMA WhoEnds ==
    ASSUME QueryInv, QueryNext, NEW t \in Tools, tool'[t].pc = "idle"
    PROVE  /\ tool[t].pc = "sent" => Handle(t)
           /\ tool[t].pc = "started" => Decide(t) \/ ResetIt(t)
<1>1. tool \in [Tools -> {NoTool} \cup Running]
  BY DEF QueryInv, QueryTypeOK
<1>2. SUFFICES ASSUME tool[t].pc # "idle" PROVE Decide(t) \/ ResetIt(t) \/ Send(t) \/ Handle(t)
  BY DEF Send, Decide, ResetIt, Handle
<1>3. PICK u \in Tools : \/ \E o \in Commands : Start(u, o)
                         \/ Decide(u) \/ ResetIt(u) \/ Send(u) \/ Handle(u)
  BY DEF QueryNext
<1>4. ASSUME u # t PROVE tool'[t] = tool[t]
  BY <1>1, <1>3, <1>4 DEF Start, Decide, ResetIt, Send, Handle, Ends
<1>5. u = t
  BY <1>2, <1>4
<1>6. ~(\E o \in Commands : Start(t, o))
  BY <1>2 DEF Start, NoTool
<1> QED BY <1>3, <1>5, <1>6

\* With any number of backends, locks and defaults, a call that changes what
\* GetProperty answers makes it answer with the value that was set, and changes
\* no property that IsPropertyLocked reports (esconf_set_property).
THEOREM SetsAreRead == QuerySpec => SetReadsBack
<1> DEFINE Step == \A t \in Tools, n \in Names :
          tool[t].pc = "sent" /\ tool'[t].pc = "idle" /\ GetReply(user', n) # GetReply(user, n) =>
              GetReply(user', n) = tool[t].value /\ ~LockedReply(n)
<1>1. ASSUME QueryInv, [QueryNext]_queryVars PROVE [Step]_queryVars
  <2> SUFFICES ASSUME QueryNext, NEW t \in Tools, NEW n \in Names,
                      tool[t].pc = "sent", tool'[t].pc = "idle",
                      GetReply(user', n) # GetReply(user, n)
               PROVE  GetReply(user', n) = tool[t].value /\ ~LockedReply(n)
    BY <1>1
  <2> DEFINE p == tool[t].command.property
             v == tool[t].value
  <2>1. user' = AfterSet(user, p, v)
    BY <1>1, WhoEnds DEF Handle
  <2>2. MaySet(p) /\ user' = [user EXCEPT ![1][p] = v]
    BY <2>1 DEF AfterSet
  <2>3. user \in Held /\ Decided(t) /\ 1 \in 1..Backends /\ Backends \in Nat
    BY <1>1, BackendsAssumption DEF QueryInv, QueryTypeOK, Held
  <2>4. p \in Names /\ v # None
    BY <2>3 DEF Decided
  <2>5. \A b \in 1..Backends, m \in Names :
            user'[b][m] = IF b = 1 /\ m = p THEN v ELSE user[b][m]
    BY <2>2, <2>3, <2>4 DEF Held
  <2>6. n = p
    <3>1. SUFFICES ASSUME n # p PROVE FALSE
      OBVIOUS
    <3>2. \A b \in 1..Backends : Value(user', b, n) = Value(user, b, n)
      BY <2>5, <3>1 DEF Value
    <3>3. Holding(user', n) = Holding(user, n) /\ Holding(user, n) \subseteq 1..Backends
      BY <3>2 DEF Holding
    <3>4. ASSUME Holding(user, n) # {} PROVE Min(Holding(user, n)) \in 1..Backends
      <4>1. Holding(user, n) \subseteq Nat
        BY <2>3, <3>3
      <4> QED BY <3>3, <3>4, <4>1, LeastNumber
    <3> QED BY <3>2, <3>3, <3>4 DEF GetReply
  <2>7. Value(user', 1, n) = v
    BY <2>3, <2>4, <2>5, <2>6 DEF Value
  <2>8. 1 \in Holding(user', n) /\ Holding(user', n) \subseteq 1..Backends
    BY <2>2, <2>3, <2>4, <2>6, <2>7 DEF Holding, MaySet
  <2>9. Min(Holding(user', n)) = 1
    <3>1. Holding(user', n) \subseteq Nat
      BY <2>3, <2>8
    <3>2. Min(Holding(user', n)) \in 1..Backends /\ Min(Holding(user', n)) <= 1
      BY <2>8, <3>1, LeastNumber
    <3> QED BY <2>3, <3>2
  <2>10. GetReply(user', n) = v
    BY <2>7, <2>8, <2>9 DEF GetReply
  <2>11. ~LockedReply(n)
    BY <2>2, <2>3, <2>6 DEF LockedReply, MaySet
  <2> QED BY <2>10, <2>11
<1> QED BY <1>1, QueryInvHolds, PTL DEF QuerySpec, SetReadsBack
=============================================================================
