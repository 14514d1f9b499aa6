# A TLA+ model of esconf

esconf is a configuration store: a daemon, `esconfd`, keeps channels of
properties in memory and in XML files, and a client library, `libesconf`,
reads, changes and caches them over D-Bus. This directory holds TLA+ modules
that model the parts of it where order and failure matter, TLC configurations
that check them on small instances, and TLAPS proofs of what holds for every
instance. Paths below are relative to `src/`.

The modules are translated from the code. Where the documents under `docs/`
or a comment say something else, the model follows the code, and a run whose
property is what the document says shows the difference.

## Inventory

### Per-channel XML backend: `esconfd/esconf-backend-perchannel-xml.c`

*State.* A hash table from channel names to channels; a channel is a tree of
properties, a lock and a dirty flag; a node of the tree has a user value, a
system default and a lock. One save timer for all channels. On disk one user
file per channel, and any number of system files it never writes.

*Operations.* `set`, `get`, `get_all`, `exists`, `reset` (one property, a
subtree, the whole channel), `list_channels`, `is_property_locked`, `flush`,
the timer's callback, `finalize`. Every operation loads the channel first if
the table does not hold it: system files in XDG order, then the user file.

*Hard.* The timer is shared and restarted by every change; a flush writes
several files, each of which may fail, and the daemon may die between two; the
tree is pruned on reset by two routines with different conditions; locks are
checked in several places; the table is written and read under different
spellings of a name; values change when they are written and read back, and
some have no written form at all: the writer unsets a scalar of a type it does
not know in memory, and fails the channel for an array with such an item.

*Correct when* nobody but the administrator changes a locked value; every
operation changes exactly what it names and announces it; nothing changed is
left without a save coming; a file is wholly old or wholly new; saving costs
nothing that a file can hold; memory and file agree once a channel is clean.

### Daemon: `esconfd/esconf-daemon.c`, `esconfd/main.c`

*State.* The list of backends and the GLib main loop with its queue of idle
sources. Every change a backend reports becomes an idle source that reads the
property *again* and emits `PropertyChanged` or `PropertyRemoved`, or nothing
if the value that the property has by then has no D-Bus form.

*Hard.* Signals run after any number of further calls; a queued source holds
references that decide whether anything is saved at exit. With several
backends a set checks the locks of all and writes to the first, a get answers
from the first that has a value, and a reset may succeed in some of them.

*Correct when* every subscriber who is out of date about a value that can be
sent has a signal coming, a set reads back, and every change survives an orderly
exit.

### Client cache: `esconf/esconf-cache.c`

*State.* Per channel a tree of cached values, `old_properties` (the value to
go back to while a set is outstanding, shared by all sets that overlap) and
`pending_calls`.

*Hard.* Sets are asynchronous and optimistic; a second set cancels the first,
which the daemon handles all the same; signals about a property are dropped
while it has an old item; lookups and resets are synchronous and overtake
signals that wait in the main loop; completions outlive the cache.

*Correct when* with nothing under way a cached value is the daemon's; no
completion touches freed memory; no property stays mute.

### File parser and writer, lock lists

*State.* GMarkup handlers share a parser state: the strict or lax mode, the
channel under construction, the path of the current element, and `list_value`,
which points into an array that is open.

*Hard.* System files are read in order, and a channel lock closes the channel
to the files that follow; `locked` and `unlocked` name users and groups; locked
properties of the user file are skipped while their elements are still walked;
a file may break off anywhere, and what was read stays.

*Correct when* a user file changes no default and no lock, a locked channel
locks every property, array items land in an array that encloses them, and
whatever was read can be saved and read back.

### Channels, bindings and the life of the library: `esconf/`

*State.* A channel has a property base and a cache, or shares the one of its
singleton; a binding connects a handler to an object and one to a channel; the
library counts its users.

*Hard.* The two handlers of a binding call each other and block themselves
meanwhile; a binding may end from its object's side, its channel's side or at
shutdown; notifications arrive under the real name and are told under the name
below the base; shutdown by one user must not pull the library from under
another.

*Correct when* both handlers of a binding are connected or neither is, the
library outlives the calls of its users, and bound objects settle on the
daemon's values.

### GSettings backend: `gsettings-backend/`

*State.* The channel `gsettings`, the keys that were written with the origin
tag of the request, and the subscribed prefixes.

*Hard.* The only way to tell an own change from a foreign one is an entry that a
write leaves and a later signal removes, whichever change that signal is about.

*Correct when* a listener is told of every change it does not know of.

### Values: `common/esconf-gvaluefuncs.c`, `common/esconf-types.c`

Twelve types and arrays with their text, their D-Bus form, a comparison and conversions
between them. *Hard* are the bounds of each type, the 16-bit integers that
GLib does not know, and arrays. *Correct when* what is set is what is got,
through cache, bus, daemon, file and restart.

### `esconf-query/main.c`

A client that lives for one command: it reads, decides and writes in separate
steps, and does not wait for the answer. *Correct when* what it sends follows
from something the daemon held while it ran.

### What each part comes to

| Part | Status |
|---|---|
| XML backend, file parser and writer, lock lists | modelled |
| backend interface: name checks, dispatch | modelled |
| daemon | partly: start-up and `ListChannels` are left out |
| client cache | modelled |
| `EsconfChannel` | partly: `get_properties`, the locked query and construction from GObject properties are left out |
| bindings | modelled |
| library life cycle | partly: the table of named structs is left out |
| GSettings backend | modelled |
| GValue conversions and comparison | modelled |
| `esconf-query` | modelled, but for printing and `--monitor` |
| backend factory, error domain, common types, marshallers | not modelled |

### How the parts talk

    GSettings -> GSettingsBackend --+
    application -> EsconfChannel <--+--> EsconfCache ==D-Bus calls==> EsconfDaemon -> EsconfBackend -> files
                      ^   ^                 ^                             |               |
                      |   | notify          +======D-Bus signals==========+ idle <--------+ prop_changed_func
                      |  EsconfBinding <-> GObject
    esconf-query -----+  (no main loop: it hears no signal and no reply)

## Modules

| Module | Models | Uses |
|---|---|---|
| `PropTree` | the property tree of a channel and the routines that change it | |
| `XmlBackend` | the XML backend: hash table, operations, timer, files, crashes | `PropTree` |
| `GetAll` | the walk that lists a channel or a part of it | `XmlBackend` |
| `ConfigStore` | what a backend promises: an abstract store | |
| `XmlBackendStore` | the refinement mapping from `XmlBackend` to `ConfigStore` | both |
| `XmlFile` | the parser: handlers, system files with locks, the user file, errors | `PropTree` |
| `XmlSave` | the writer, and what the parser makes of its files | `XmlFile` |
| `Daemon` | method handlers over one backend, idle queue, signals, exit | `XmlBackend` |
| `Backends` | the handlers over a list of backends, and the name checks | |
| `QueryTool` | command line tools that come and go | `Backends` |
| `ClientCache` | several client caches and their messages, over an abstract daemon | |
| `Binding` | channels, bindings and the life of the library in one process | `ClientCache` |
| `GSettingsBackend` | the GSettings backend in one process | `ClientCache` |
| `GValues` | conversions and comparison of values | |
| `Accessors` | typed setters and getters of one property, end to end | `GValues` |
| `DocClaims` | a sentence of the documents that the backend does not keep | `XmlBackend` |
| `PropTreeProofs`, `DaemonProofs`, `XmlFileProofs`, `CacheProofs`, `BindingProofs`, `GSettingsProofs`, `AccessorProofs`, `QueryToolProofs` | the proofs; `DaemonProofs` has those of the XML backend and its refinement, too | |
| `MC...` | constants for TLC | |

### PropTree

A property name is the sequence of its components, and a tree is a function
from the names in use to a node or to `NoNode`. The root node, which holds no
property, and the order of siblings are left out. `AddProperty`, `ResetProp`
with `PrunedWith`, `UnsetValues` and `CleanUp` are `esconf_proptree_add_property`,
`esconf_proptree_reset`, `nodes_do_prop_reset` and `nodes_clean_up`;
`BuildPropname` is the walk to the root that rebuilds a name for the
notification.

### XmlBackend

`channels`, `userFile` and `timer` are the hash table, the files under
`$XDG_CONFIG_HOME` and `save_id` with what remains of its timeout. There is
one action per operation of the interface. Each first obtains the channel
(`Obtain`, `Keep`: looked up as given, stored in lower case, as in the code),
so loading is part of the action. Replies and notifications are operators on
the state the operation starts in (`GetValue`,
`PropertyExists`, `SetNotes`, `ResetUnderNotes`, ...). The read-only
operations are the one action `Read`; what `get_all` answers is in `GetAll`,
where the walk over the tree is done as in the code, with the one buffer that
every level extends and cuts back (a RECURSIVE operator, which is why it has a
module of its own). `Crash` may happen in the middle of a
flush: some of the dirty channels are written and the others are not.

Abstracted: the system files of a channel appear as the tree they amount to
(`SysTree`, `SysLocked`), since they do not change while the daemon runs; a
user file appears as the value of each element, and every one of the initial
files is one that a user may have edited by hand. What writing and reading
back does to a value is the parameter `Reread` (it drops digits of a double, and
makes a `char` 0), and the values that the comparison in the code calls unequal
to themselves (arrays) are `Arrays`.

`FlushChannels` writes the dirty channels and cleans all of them, those it could
not write too. Two kinds of values matter to it. `Unwritable` are scalars of a
type that the writer does not know, which only a file can name and no client can
set (`Settable`): it writes `type="empty"` and unsets the value in the tree
that it writes, so that the property reads its default from then on. `Unsavable`
are arrays with an item of such a type, or of none, as a D-Bus array with items
that esconf has no type for becomes: a channel that holds one cannot be written,
on a working disk either. Of a channel that fails, the unwritable values
written before the failure are lost and the others are not: any subset, since
the tree does not have the order of siblings (`Losses`).
Loading never fails: `expidus_resource_save_location` gives a name whether or
not the file exists, so `create_channel` and the "channel does not exist"
errors of the operations are not reached. The temporary file `.new` is not
state, because nothing reads it.

### ConfigStore and XmlBackendStore

The abstract store has the user value of each property and the one on disk.
A set changes one unlocked property; a reset unsets one property or a subtree;
forgetting a channel unsets everything, in memory and on disk, or falls back
to the disk when the file cannot be removed; saving replaces whole channels, but
for those with a value that keeps them from being saved, and may cost user
values of the kind that has no persistent form, and no others; a restart may save
some channels and goes back to the disk. The mapping gives a
channel that is not loaded the values that loading would give it, so that
loading does not show, and neither do the timer and failed writes.

### Daemon

`idles` is the queue of idle sources and `heard` what the signals so far told a
subscriber who knew every value when the daemon started. A handler runs to
completion in the main loop, so it is one step, its notifications included.
A value without a D-Bus form (`Unsendable`: a default or an entry of a user file
of type `float`) is not announced when its notification is due (`Goes`), and not
in the answers to calls (`Sent`). `dropped` has the properties that lost their
value to a save, of which the backend notifies nobody, until a signal about them
goes out. `Knowable` leaves both out of what a subscriber should know.
`Quit` is the end of `main`: with an idle source in the queue, which holds
references to the daemon and the backend, nothing is finalised and nothing is
written; otherwise `finalize` flushes.

### ClientCache

`wire`, `inbox` and `idles` are the calls on their way to the daemon, the
completions and signals that wait for a client's main loop, and the daemon's
signals still to be emitted. `cache` and `old` are the trees and tables of the
source; an `old` item has the value to go back to (`before`, `item` in the
code), the value in `pending_calls` (`sent`, `variant` in the code), the count
of completions to come and whether its cancellable was cancelled for good. The
daemon is reduced to values, defaults, locks and its queue; the defaults can be sent (`PropsAssumption`), because caches
are never told of those that cannot, for which `Daemon` has the signals.

Assumed of the bus and of GIO, as the code uses them: messages of one client
arrive in order, replies and signals too; a synchronous call is answered after
the client's earlier messages and before its main loop runs again, so it
overtakes the signals that wait; `g_cancellable_cancel` completes a call under
way at once with an error and turns a completion that waits into one, and the
daemon handles the call all the same. One thread uses the cache.

`Strays` are the clients whose calls may time out and who may try values with
no D-Bus form. The cache's "property-changed" signal changes nothing in the
cache; `Announces`, `Announced` and `SetAnnounces` say when it is emitted and
with what, for the modules above.

### XmlFile and XmlSave

A document is a sequence of start and end tags that nests, which is what
GMarkup guarantees. Each handler is an operator on the record of the parser
state and the channel; `Start` and `End` choose the next tag, so every document
of the bound is tried, and `NextFile` may come at any time: the file ended, or
broke off. `XmlSave` goes on once all files are read: `FlushChannel` opens the
file, and then each step writes one tag or array value as `write_node` and
`esconf_format_xml_tag` do, children in any order. The file itself is not kept:
a second parser, with the same handlers over the same system files, reads each
tag as it is written, which comes to the same as reading it later because a
parser looks neither ahead nor back. `saving` ends as "done" with the rename, or
as "failed" after a disk error (`DiskError`) or an array item that the writer
has no type for. A scalar is one of three kinds: one that comes back as it was, a
double that loses digits, and one of a type that the writer does not know
(`Unwritable`).

### Backends and QueryTool

A backend of the list is what `ConfigStore` promises, reduced to one channel.
Names are sequences of characters here, because the name checks are part of the
module. A tool takes a copy of the value at its start (`esconf_cache_prefetch`),
decides, and leaves at most one call behind, which the daemon may handle after
the tool has gone. A backend fails to reset a property that it does not know
(`Knows`), which keeps none of the others from resetting it. `held` collects
what the daemon held while a tool ran, for
`DecidedByWhatWas`.

### Binding

One process (`Host`) over the cache and messages of `ClientCache`; everyone else
is `ForeignSet` and `ForeignReset`. A signal handler runs to its end inside the
call that emits: `Announce` is what one "property-changed" does to all bindings,
with the sets they make in turn; the handlers that are blocked meanwhile are
the ones the code blocks. `RealProp` and `ChannelName` are the property base
in both directions. Objects are bound at most once; the variants for colours
are the same handlers over other conversions.

### GSettingsBackend

Again one process over `ClientCache`. `changed_prop` is the table of the
source. `write_tree` is a loop of several sets with a count of the nodes that
succeeded, between which the daemon goes on and the main loop of the process
does not. `known` is what a listener knows: what it last read or wrote, or
`Told` after GSettings was told of a change. A reset tells it nothing: the signal
of the daemon does. When a reset evicts a written value that the daemon is yet to
refuse (`RefusalLost`), the refusal announces nothing, and what is known becomes
`Unheard`: the listener goes on with a value that was never stored, and the
properties except it.

### GValues and Accessors

Sizes are parameters, so that the bounds of every type lie in a small range of
integers: `Half` gives half the number of values of `char`, the 16-bit, the
32-bit and the 64-bit types, which are powers of two in the code and any growing
positive numbers here. `Accessors` sets and gets one property through the cache's
comparison, the variant, the daemon's comparison, the file and a restart. Arrays
and structs are taken apart by the getters of the wider type (`Fetched`), which
give 0 for an item that is itself of a 16-bit type.
`Wrap` is what the compilers the project is built with make of a conversion to
a narrower signed type.

## Runs

| Run | Checks | Bounds |
|---|---|---|
| `xml_backend` | types, locks, clean = saved, resets that change one property, `get_all` against `get`, refinement | one channel; five names in nested pairs; a default below a bare parent, a locked value, a user's pair; two values to set, one of which changes when written, and in files a scalar and an array that the writer does not know; timeout of 2 ticks; no disk errors |
| `xml_disk` | dirty channels have a timer, refinement, changes get saved | two channels, one property, the same values; every disk operation may fail |
| `daemon` | subscribers are right or will hear, and learn | two names, one below the other, a default without a D-Bus form, a value unequal to itself and in a file one that a save drops; 3 queued idle sources before further changes are held back; timeout of 2 |
| `cache` | coherence, counting, muting, finalisation, settling | two clients, one of which sees its calls time out; an unlocked property and below it a locked one with a default; two values; new messages while fewer than 2 are under way |
| `xml_file` | administrator's values, channel locks, open arrays that enclose what is read, reading back | two system files and a user file of together six elements; three names, one below and one beside another; arrays of up to two items; a lock list that names the user by a group, one that does not |
| `values` | what is set is got, arrays, agreement of cache and daemon, conversions | integers of 2, 3, 4 and 5 bits (`Half` 2, 4, 8, 16), so that the 16-bit bounds lie inside the `int` range; fractions up to 40 in halves; every type at its bounds, lists of one and two |
| `binding` | pairs of handlers, life of the library, objects that agree | three objects, one bound to a free property and two to a locked one with a default; a property the application shares; two users of the library; an unsendable and unconvertible value; fewer than 2 messages |
| `gsettings` | listeners know, trees are whole, listeners learn | three keys, one locked with a default and one that the daemon refuses; one subscription; trees of two and three keys, the second with the refused one; fewer than 2 messages |
| `query` | decisions, sets that read back | two backends, the second with a default and a lock; two tools, any number one after the other; 12 commands |
| `find_lock_lost`, `find_quit`, `find_stale_binding` | one sentence of the documentation each, violated | the smallest instance that shows it |

*Why the bounds are enough.* The routines on the tree look at a node, its
ancestors and its descendants: the five names have a property with a child, a
parent without a value, and siblings that keep a parent from being pruned.
Two values tell a change from no change. Two channels are what it takes for one
flush to half succeed. The timeout of 2 ticks leaves a state in which the timer
has run down and is restarted. In the cache, `MaxInFlight` bounds only what new
calls may add: cancellation puts further completions in the queue, and old items
with a count of three occur. Six elements are enough for a property inside an
array inside a property, a lock in one file and a value in the next. Three
objects are the least for two to share a property next to one that has its own.
Two tools overlap in every order, and more one after the other make up every
history. Each property is broken by a small change of the model listed in
`PROJECT.json`, under the same bounds; the changed forms stand in the modules
before the definition they change and are marked as mutants.

`CHECK_DEADLOCK FALSE` appears where the system really stops: in `cache`,
`binding`, `gsettings` and `find_stale_binding` once every cache is finalised
and the queues are empty, and in `xml_file` when all files are read and the
channel is saved, or locked.

### Fairness

The save timer and the idle sources are sources of the daemon's main loop,
which runs whenever there is something to run: weak fairness of `Tick`,
`SaveTimeout` and `EmitPropertyChanged`. Method calls, crashes and exits have
none. No source starves another here, because the liveness properties only
speak of what happens once modifying calls stop: each such call restarts the
timer, and calls at a short enough distance postpone the save for as long as
they go on. Reads may go on for ever. For the clients: while there are messages
under way, the daemon serves a call or an idle source or a client runs its main
loop (`Handle`, `Emit` and `Dispatch` together, the weakest form: which of them
is served next is left open); in `GSettingsBackend`, `Daemon` and
`HostDispatch` each have weak fairness. Applications may stop at any time.

### What the `find_*` runs show

| Run | The document | The code |
|---|---|---|
| `find_lock_lost` | `docs/spec/perchannel-xml.txt:104`: a lock may stand without a value | `esconf_proptree_reset` prunes a locked parent with its last child; so `ImplementsStore` is checked with locks that have values |
| `find_quit` | `docs/spec/perchannel-xml.txt:32`: the user's settings are saved | not if a notification is queued when the main loop ends |
| `find_stale_binding` | `esconf/esconf-binding.c:454`: the object follows the property | not if the application reads the property between a change and its signal: the cache then holds the new value and announces nothing |

### Observations

What the models also show of the code, without a run of their own. Most of
them are why a property or an assumption is stated the way it is.

*Backend and daemon.*
- Channels are stored in lower case and looked up as given, so that two
  spellings replace each other (`docs/spec/general.txt:17` says names are
  case-insensitive).
- A locked channel does not lock properties that no file mentions
  (`docs/spec/perchannel-xml.txt:126`): `set` looks at the property's node.
- A flush reports success, and cleans the channel, when a write failed
  (`esconfd/esconf-backend.c:503`).
- A component of one letter is taken for the root in a recursive reset, and the
  announced name is cut (`esconf-backend-perchannel-xml.c:945`); hence
  `ShortNames`.
- An array value of a locked property in the user file ends the parsing of that
  file: the property is skipped without list state, and the first array item
  then finds no open array.
- A channel that holds an array item of a type the writer does not know fails to
  flush every time, and counts as clean all the same
  (`esconf-backend-perchannel-xml.c:1789`, `:1971`); `CleanIsSaved` excepts it.
  A scalar of such a type, 16-bit integers among them, which
  `docs/spec/perchannel-xml.txt:62` calls supported in files, is unset in memory
  by the first save, without a signal (`:1805`). A `char` is written to the file
  as 0.
- A `<value>` inside a scalar, empty or skipped property that is nested in an
  array is appended to the array around it, where
  `docs/spec/perchannel-xml.txt:75` allows array values in array properties only;
  `ListIsOpenArray` therefore says that the array encloses the element, not that
  it is the nearest property.
- With several backends, `GetProperty` answers from the first that has a value,
  `GetAllProperties` from the last; a set goes to the first after the locks of
  all were asked, and a refusal for a lock answers the call and then returns
  FALSE; a removal is announced as seen from the backend that did it. Only
  `--backends` with the one built-in type makes such a list.

*Client.*
- A value that has no D-Bus form mutes its property in that client for good and
  leaves an old item that finalisation does not mark (`esconf-cache.c:896`);
  the theorems about muting and finalisation exclude such values.
- A recursive reset of `/` evicts nothing from the cache, because no name begins
  with `//` (`esconf-cache.c:1009`); the signals repair it.
- When a call times out on the client and the daemon handles it all the same,
  the cache goes back to the old value; if another client had set the same value
  already the daemon emits nothing, and the cache stays wrong. `Coherent` is
  therefore stated for the other clients.
- Of two objects bound to one property without a default, the second may miss a
  change for the reason that `find_stale_binding` shows, without the application
  reading anything: its binding, or the set its own change makes, looks the
  property up first when it is not cached, and the signal that is on its way then
  changes nothing. `BoundObjectsAgree` is stated for any number of objects on a
  property with a default, which is cached from the start, and for one on any
  other.
- `esconf_channel_is_property_locked` passes its argument on without the
  property base (`esconf-channel.c:634`).
- In the GSettings backend the entry that an equal write or a reset of nothing
  leaves tags the next foreign change as the application's own; a write that is
  refused after a reset of the same key is not announced, and the application goes
  on with the value it wrote (`Unheard`).
- Two tools that toggle at the same time lose one of the changes; the exit
  status is 0 when the daemon refuses the set; a set that the stale copy says is
  not needed is not sent.

*Values.*
- 16-bit integers become 0 on the bus, and in the array getters when an item still
  has such a type (`esconf/esconf-channel.c:1439`); `esconf_channel_set_struct` with 16-bit
  members stores 0, because its comment relies on a conversion that the function
  it calls does not make. Values of 16 bits compare as equal to one another, so
  that a later one is not sent.
- A default of type `float` has no D-Bus form of its own type: it cannot be read
  by a client, so that a client cannot override it, nor is a change to it
  announced: after a reset to such a default subscribers keep the old value
  (`esconfd/esconf-daemon.c:108`).
- `esconf_channel_get_property` to and from 16-bit types says TRUE without
  storing a value; two of the transformations it relies on are registered the
  wrong way round (`common/esconf-types.c:157`).
- 64-bit integers are parsed with saturation, and unsigned ones wrap below zero.

## Proofs

For every value of the constants that satisfies the named assumptions of the
modules (`PropsAssumption`, `ContentsAssumption`, `QueryAssumption`,
`ValuesAssumption` and so on: names are closed under prefixes, system trees
are well formed and hold no user values, the user files nest, values are reread as
values, the timeout is positive, the functions have their types). Three further
conditions appear in theorems, and each is a thing the code needs:
`SpelledLower`, callers spell channel names in lower case; `LocksHaveValues`,
locked properties have a value; and a disk that works, where memory and file
are said to agree. `Unsendable = {}` excludes values with no D-Bus form;
`Unsendable \subseteq Unconvertible` says that the types of bound objects'
properties have one. Of the constants themselves, three assumptions are worth a
word: the names below a property base stand for one property each
(`BindingAssumption`), a tree that GSettings writes has one node per key and
values that can be sent (`GSettingsAssumption`), and of the integer types only
that each is larger than the one before is used (`WidthsAssumption`), with the
largest double a whole number and every number spelled in a file a double
(`InputsAssumption`).

| Theorem | Says |
|---|---|
| `TypeCorrect` | `Spec => []TypeOK` of the backend |
| `LocksHold` | `Spec => []LockedHoldsNoUserValue` |
| `LockedValuesStand` | with `SpelledLower`, `Spec => []LockedReadsSystem` |
| `DirtyHasTimer` | `Spec => []DirtyIsScheduled` |
| `ResetsChangeOne` | with `SpelledLower`, `Spec => ResetChangesOne` |
| `CleanIsSavedAlways` | with all three conditions, `Spec => []CleanIsSaved` |
| `BackendImplementsStore` | with `SpelledLower` and `LocksHaveValues`, `Spec => ImplementsStore`, on a disk that may fail |
| `ChangesAnnounced` | with `Regular` (`SpelledLower`, no one-letter components, finitely many names, a disk that works), `DaemonSpec => []EveryChangeAnnounced` |
| `FileTypeCorrect`, `UserFilesRespectAdmin`, `LockedChannelsLockAll`, `ListsAreOpenArrays` | the invariants of `XmlFile` |
| `SavingOnlyReads` | `SaveSpec => Spec` of `XmlFile`, so that the four hold while channels are saved |
| `SavedFilesReadBack` | `SaveSpec => []SavedFileReadsBack` |
| `CacheTypes`, `CallsAlwaysAccounted` | `Spec => []TypeOK` and `Spec => []CallsAccounted` of the caches |
| `CachesStayCoherent` | `Spec => []Coherent`, for any clients, locks, stray clients and unsendable values |
| `MutedOnlyForAnAnswer`, `FreedCachesUntouched` | with `Unsendable = {}`, `Spec => []MutedOnlyWhileCalling` and `Spec => []NoUseAfterFinalize` |
| `BindingsStayWhole`, `LibraryStays`, `BindingTypes` | `BindingSpec => []BindingsWhole`, `[]LibraryServesUsers` and `[]BindingTypeOK` |
| `BoundObjectsFollow` | with `Unsendable \subseteq Unconvertible`, `BindingSpec => []BoundObjectsAgree` |
| `GSettingsTypes`, `ListenersAlwaysKnow` | `GSettingsSpec => []GSettingsTypeOK` and `[]ListenersKnow` |
| `ToldTreesAreWhole` | `GSettingsSpec => TreesAreWhole` |
| `ValueTypes`, `SetsAlwaysReadBack`, `ArraysAlwaysReadBack` | `Spec => []TypeOK`, `[]SetsReadBack` and `[]ArraysReadBack` of `Accessors` |
| `CacheAlwaysAgrees`, `NumbersAlwaysKept` | `Spec => []CacheAgrees` and `[]ConversionsKeepTheNumber` |
| `QueryTypeCorrect`, `DecisionsFollow`, `SetsAreRead` | the properties of `QueryTool` |

### The backend

`PropTreeProofs` shows, for each routine that changes a tree,
that it yields a tree, puts no value on a locked node and, given that, leaves
locked nodes with a value in place. Pruning is the delicate one: what
`PrunedWith` takes from the tree has no value of either kind.

In the first part of `DaemonProofs` every action is shown to fall under one step shape: each
channel of the new state is one that was there, one that loading gives, or one
of these changed by a tree routine, with the files old, removed or written
from a tree in the state (lemma `Steps`); a flush is one of these too, as it
unsets values. The invariants are then proved
against this shape, not against each action. `LockedHoldsNoUserValue` needs
that user files are skipped at locked nodes; `LockedReadsSystem` needs
`LockedHoldsNoUserValue`, and that locked nodes with a value are never
unlinked (`LocksInPlace`), as the inductive part: this is where a lock without
a value falls through. It needs lower-case names because a channel stored under
one name and looked up under another is loaded anew. `DirtyIsScheduled` rests
on `schedule_save` being reached whenever the dirty flag is set, and on a flush
cleaning every channel, those it could not write too.

The second part adds what each operation does to the values that are read, and
`CleanMatchesFile`, the inductive form of `CleanIsSaved`. A flush is the delicate
step: it unsets values in the very trees it writes, and a channel that it cleans
must agree with its file all the same; that holds because what it unsets it also
writes as empty (`FlushMatches`, `WrittenLoads`), for every channel that can be
saved. The refinement maps
the backend to the user values that loading and memory give (`userBar`) and the
values of the files (`savedBar`). Each action is one action of the store or a
stutter: sets and resets by the lemmas on trees; a flush, a timeout, the end and
a crash are `Save` or `Restart` of the channels that were written, with the values
that were unset (`FlushedUser`), and the failed writes are the ones left out;
loading and reading are stutters.

The third part shows that every handler queues a note of each property it
changes (`ResetReads`, `SetNotes` and so on against the trees), that saving
changes only reads of properties that go to `dropped` (`FlushChangesReads`), and
that emitting a note repairs exactly its property, or finds a value that cannot be
sent. `AnnounceInv` adds to the property only types and that the system
values are still in place (`SystemInPlace`).

### The parser

`TreeInv`, `ReaderInv` and `FileInv` give what holds of the tree, of the parser
state and of the files read so far: the path is that of an element whose parents
were entered; a skipped property leaves no list; the list is at or above the
path. Each handler is one lemma, with its error paths.

`SaveInv` is about a channel that is being saved. Of each property, its parser
holds what the system files say until its element begins, and from then on what
is in memory, with as many array values as are written (`Copied`, `CopyInv`). It
stands at the element that the writer is in, with `list_property` there while
array values are to come (`PlaceInv`); this is where writing them after the
children would fail, as the end of a child's element ends the array. `FileSoFar`
says that an element that has ended has all its array values, and that everything
below it is written, so that with the end of the channel everything is
(`Everything`). A property that a system file locks is written, and skipped by
the parser; that both come to the same needs `Respects`, the inductive form of
`UserFileRespectsAdmin`. TLC checked `SaveInv` with files of five elements before it was
proved.

### The caches

Messages are counted by their positions in a queue (`Where`), with lemmas for
appending, taking the head, replacing in place and, for the disconnection of the
signal handler, dropping all signals (`CompletionsOnly`: a bijection between
what is left and the completions). `CallInv`, the inductive
invariant, has the types, `Counted` (calls that are live on the wire plus
completions that wait make up the count of the old item), `OneLiveCall` (at most
one call about a property is not cancelled: without it a cancellation would
queue one completion for several calls), and `ItemsOpen` (the item of a cache in
use is not marked cancelled). `SentInv` adds, when every value can be sent, that
each old item of a cache in use has a value in `pending_calls`, which is what
finalisation marks.

`Coherent` speaks of quiet moments only and is far from inductive. `Synced` says
of one property at one client, at any moment, what will put the cache right. For
a property that is not locked (`Fresh`): a live call is the last one about it
and carries the cached value (`Ahead`); or no call is under way, and the daemon
still has a signal to emit (`Coming`), or the last message in the queue is a
signal with the value held now (`OnItsWay`), or the cached value is right and
each signal with an older value comes before a reply, so that it is ignored
(`Current`). `Answered` adds that an error is never the last completion, which
is why a value that was accepted is never put back. For a locked property
(`Refused`) only errors arrive, and what they put back is the default. A step
either speaks of the property (`SetSent`, `Handle`, `Emit`, `Dispatch`, each a
lemma) or leaves it `Apart`: other messages come and go, and a change of its
value at the daemon is queued for a signal. `SyncInv` was checked by TLC on the
instances of `cache`, with sendable and with unsendable values, before it was
proved.

### Bindings

`BindingInv` says that a binding is listed with both handlers or not at all, and
that only a library in use has any; the nested sets of a notification change
objects, calls and caches but no binding.

That an object agrees with the daemon is that it agrees with the cache, which
`CacheProofs` shows to be in step with the daemon: `MirrorInv` says so of every
moment, with calls and signals under way. It needs that the cache holds the
property of a connected object on which nothing is reset (`HeldInv`: a signal
that removes it is never queued, and an item of a set has an earlier value to go
back to), because a property that is looked up silently is how an object misses
a change. With two objects on a property without a default that is false, which
TLC showed before the proof was tried (see the observations). The case of a set
that fails before it is sent is where `Unsendable \subseteq Unconvertible` is
needed: the object keeps the value, and the cache does not take it.

### GSettings

Every action is at most one step of the cache (`CacheStep`), so the invariants of
`CacheProofs` hold below the backend. `Aware` says of a key at any moment that
a listener was told, or was left alone with a refusal (`Unheard`), or knows the
cached value, or that the key is not cached and the listener is right or a signal
that it will hear is on its way (`Awaited`). The step of
`Aware` is proved per kind of step, each with the lemmas of `CacheProofs` on what
the step leaves `Apart`. `TreeInv` relates the nodes written so far to the cache:
nothing but `write_tree` runs in the process while a tree is written, and the
daemon does not touch the cache, so that what was written is still there at the
end.

### Values

The first part of `AccessorProofs` is about the conversions, for integers of any
sizes: each is within its type (`FromTextType`, `ToVariantType` and the like), and
on the types that bus and file have it changes nothing but the digits of a
double; `Wrap` returns a number that is in range. The bounds `MinOf` and `MaxOf` are choices
that have to be computed once. `EveryPlaceTaken` is an induction by the least
counterexample: the elements of an array that have a form on the bus are
numbered without a gap.

The invariant `IInv` follows a value on its way: the call carries what the cache
holds (`CallInv`); what was asked relates to what was sought, by the widening of
shorts (`GivenInv`); what is stored is what was sought, up to digits that a file
drops, once no call is under way (`KeptInv`); and a cached value is the one that
the daemon would send (`AgreeInv`), which needs that a value once answered can
always be answered (`AnsweredInv`). TLC checked it on the instance of `values`
before it was proved. Trying to prove it showed that arms of `CASE` in
`FromText` and `Transform` overlapped, of which TLC takes the first and logic any;
they now exclude each other.

### Tools

`QueryInv` relates the copy of a tool and the value it decided on to the values
that were held since it started.

### What is only model-checked

Liveness (`ChangesGetSaved`, `SubscribersLearn`, `EventuallyCoherent`,
`ListenersLearn`) rests on fairness and is out of the prover's reach, and
`RepliesAgree` is about a recursive walk, which no installed prover can unfold.
`MutedOnlyWhileCalling` and `NoUseAfterFinalize` are proved for values that can
be sent, and are false without that.

## Not modelled

- The backend factory: a table from a name to a type with one entry.
- `list_channels`, `get_properties`, the locked query of a channel: they change
  nothing, and their answers are not related to other state.
- Named structs: registered in a table that one function writes, and read by
  two.
- `sync` and `get_writable` of the GSettings backend, which flush the connection
  and ask for a lock.
- Printing and `--monitor` of `esconf-query`.
- Start-up of the daemon: the bus name, the fork, the options.
- Threads: the cache's lock is taken by calls and not by signal handlers; one
  step per handler stands for one thread per client.
- The error domain, marshallers, generated code, tests and documentation.
