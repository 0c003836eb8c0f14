# multi_index_db in TLA+

TLA+ models of multi_index_db, a C++ library that keeps Boost.Intrusive
multi-index containers with nested undo sessions in a memory-mapped file, and
can journal their changes to a second file. The modules follow the code under
`include/chainbase` and `src`; every module names the files it was written
from, and `PROJECT.json` maps each definition to its lines.

    tlc -workers 2 -config UndoIndex.cfg MCUndoIndex.tla     a run
    tlapm UndoIndexProofs.tla                                the proofs
    tlapm SessionsProofs.tla
    tlapm MultiIndexProofs.tla
    tlapm JournalProofs.tla
    tlapm JournaledProofs.tla
    tlapm NamedProofs.tla
    tlapm DatabaseProofs.tla
    tlapm ArchiveProofs.tla

## 1. The system

### Components

| Component | State | Operations | What makes it correct |
|---|---|---|---|
| **Multi index** `basic_multi_index` (`multi_index.hpp`) | one intrusive tree per index, `_next_id` | `emplace`, `modify` (re-indexes, reverts or erases on a conflict), `remove`, copy | every tree holds the same rows, in order, unique keys unique; a failed insert leaves nothing behind; ids are not reused |
| **Undo index** `basic_undo_multi_index` (`undo_multi_index.hpp`) | the multi index, plus `_old_values` (backups), `_removed_values` (removed nodes), `_undo_stack`, `_revision`, `_monotonic_revision`; `mtime` and the removed mark in each node | row operations with `on_create`, `on_modify`, `on_remove`; `start_undo`, `undo`, `undo_all`, `squash`, `squash_and_compress`, `last_undo_session`, `commit`, `set_revision`; `removed_nodes_tracker` | undo gives back exactly the table of the session's start; squash merges, commit forgets; no list mentions a freed node |
| **Session handles** `session` and the handle of `last_undo_session` | a reference and `_apply` | `push`, `squash`, `undo`, move, destructor | every session is closed once, the youngest first |
| **Journal** `detail::journal` (`detail/journal.hpp`, `journal.cpp`) | a stream on the file, `_last_entry` | append an entry, replace the last session entry, recover | what was appended is replayed, whole and in order |
| **Journaled container** `journaled<C>` (`journaled.hpp`) | a pointer to the container and a journal | the container's operations, then (for `remove`: before) the journal's | a replay gives the container |
| **Database** `database` (`database.hpp`, `database.cpp`) | the mapped file with header and dirty flag, the segment manager, a file lock, `_outcome` | open (create, reset, grow), `get<T>`, close, move | one writer; a file whose flag is clear is whole; the outcome tells the truth |
| **Named containers** `database::get`, `detail::container` | names in the segment | find or construct, size check | a name is one container |
| **Singleton** (`singleton.hpp`) | a slot and a flag | `emplace`, `get_or_construct`, `clear` | constructed exactly when the flag says so |
| **Archives** (`detail/binary_*archive.hpp`) | stream and running checksum | serialize, `checksum`, `skip` | what is written is read |
| **Support**: `environment`, `error`, `name`, `traits`, `allocator`, `scope_exit`, `object` | - | - | - |

### How they interact

There are no threads and no callbacks between components except the hooks of
the multi index: `emplace`, `modify_with_revert` and `remove_and_dispose_if`
call `on_create`, `on_modify` and `on_remove` of the undo index, and the
reverter of `modify` (`undo_multi_index.hpp:91-105`) is called from a scope
guard in the base class. A journaled container calls the container and then
the journal. `database::get<journaled>` hands the database's `_outcome` to the
journal, which replays itself only if the file is new or was reset. Processes
share the database file: through the lock, the flag, and `fs::resize_file`.

### What is hard

- **Legal calls in a long sequence.** Squash leaves several backups of one row
  in a session; a partial commit cuts lists in the middle; pointers to list
  cells and nodes outlive what they point to.
- **Partial failure.** A modifier that throws or conflicts, an insert that
  violates a unique key, a recovery that throws half way.
- **Crashes** between container and journal, within a journal entry, within
  the constructor of a database; loss of power around `msync`.
- **Processes** whose constructors interleave before the lock is taken.
- **Handles** of sessions and of journals that are moved, assigned and destroyed
  in any order, while what they stand for is one stack or one file.
- **Two hosts**: a journal is written on one and recovered on another, of the
  other byte order, by a program that may not know every type in it.
- Little here must eventually happen: no call waits for another. That this is so
  of the constructor and destructor of the database, where processes meet at a
  lock, is the one liveness property (`NobodyWaits`).

`PROJECT.json` lists the hazards one by one, each at its line.

## 2. The modules

| Module | Models | Used by |
|---|---|---|
| `UndoIndex` | the undo index and its lists, on one table | all of the next three |
| `UndoSpec` | what an undo index promises: a table and a stack of snapshots | `UndoIndexRefinement` |
| `UndoIndexRefinement` | the refinement mapping from lists to snapshots | `MCUndoIndex` |
| `UndoIndexProofs` | proofs: the structure of the lists, the refinement, and what follows with it | - |
| `MultiIndex` | the trees of the multi index, one per index, and the batch of undo | `MCMultiIndex` |
| `MultiIndexProofs` | proofs: the tree operations, and the trees after every step | - |
| `UndoTable` | an undo index by its contents, as pure operators | `Journal`, `Sessions` |
| `Journal` | the journal file: layout, compression, recovery | `Journaled`, `Named` |
| `JournalProofs` | proofs: what a reader of a file gets, and what writing changes of it | the next proofs |
| `Journaled` | container, journal and database file with crashes | `MCJournaled` |
| `JournaledProofs` | proofs: what a recovery gives | - |
| `Named` | containers and journaled objects by name, a singleton | `MCNamed` |
| `NamedProofs` | proofs: every name and its journal | - |
| `Sessions` | the session handles of several undo indexes | `MCSessions` |
| `SessionsProofs` | proofs: handles and sessions, one to one | - |
| `Archive` | values as bytes, the checksum of an entry, skipping | `MCArchive`, `ArchiveProofs` |
| `ArchiveProofs` | proofs: values and their bytes, a reader in step with the writer | - |
| `Database` | processes and the database file | `MCDatabase`, `DatabaseProofs` |
| `DatabaseProofs` | proofs: flag, outcome and sizes | - |
| `MC...` | values for TLC, symmetry, bounds | the runs |

### UndoIndex

`rows` is the table: primary key to value and `mtime`. The secondary indices
are the relation `Clash` on values: two values that share a unique key. A
linked list is a set of cells ordered by `pos` (the head has the largest), a
pointer to a cell is its `pos`, `nullptr` is 0; erasing leaves the other cells
where they are, as it does in memory. A node is named by its primary key, which
`OneNodePerKey` and `KeysBelowNextId` justify. `tracked` holds the nodes of a
`removed_nodes_tracker`, which the calls of `undo_multi_index.hpp:117-118`
invalidate.

One action per operation: `Emplace`; `ModifyOk`, `ModifyReverted` and
`ModifyErased` for the three ways of `modify_with_revert`; `Remove`,
`TrackedRemove`, `DropTracker`; `StartUndo`, `SetRevision`, `Undo`,
`SquashFast`, `Squash` (compress, then pop), `LastUndoSession` (compress behind
a const interface), `Commit`, `Copy`. `undo_all` is repeated `Undo`.

Callers may run conflicting modifiers. `RiskyConflicts = FALSE` keeps them away
from what the code gets wrong: a row whose modify was reverted is not modified
again while sessions are open (`reverted` remembers which), and a conflict
erases only rows that the open session has created. With `TRUE` they run on any
row, and the two findings of section 4 show what happens.

### UndoSpec and the refinement

`UndoSpec` keeps a table, a next id, a stack `saved` of [table, next id] and a
revision. The mapping (`SavedTable(s)`) computes from the lists what the table
would be after session s and all younger ones were undone: rows with a key
below the session's `old_next_id` that are in the table or among the nodes
removed since, with the oldest backup written since whose `mtime` is older than
the session's `ctime`. `ImplementsPromise` says every step of `UndoIndex` is a
step of `UndoSpec` or changes nothing its users see; so undo restores the
snapshot, and squash, compression, commit, copying and failed modifies leave
those of open sessions as they were.

### MultiIndex

`trees[i]` is the tree of index i as the sequence of its nodes in order (index
0 is by primary key), `vals` what the nodes hold. The search in a tree is
`LowerBound`/`UpperBound`; the operators follow the code: `InsertImpl` takes a
refused node out of the trees that had it, `OutOfOrder` looks at the two
neighbours only, `Refiled` puts a node whose key is taken in front of the one
that has it, `PostModify` stops at the first tree that refuses. `Emplace`,
`ModifyFits`, `ModifyReverts`, `ModifyErases`, `Remove`, `Copy` are the calls.
`BeginUndo`, `EraseNew` (one new row at a time, by key), `AllErased`, `Restore`,
`AllRestored`, `Reinsert`, `EndUndo` take the batch of `undo` apart, so that the
states in which rows share keys can be seen; the order of the backups and
removed nodes is any. One session is enough for that.

`stamped` are the rows whose `mtime` is not below the session's `ctime`: as in the
code a backup is taken of the others only (`NeedsBackup`,
`undo_multi_index.hpp:446`), a modify that is moved back leaves its row stamped, and
a conflict of a stamped row erases the row, one of the session's start too. So a
session may lose a row of its start in two ways (findings 1 and 2): the row is
written again after its modify was reverted, or a conflict erases it. `risked`
records that. With `RiskyUndo = FALSE` callers may do all this and go on, but they
commit such a session and do not undo it (`MayUndo`); that is the only thing the
properties of the run and the theorems leave out. With `TRUE` they undo it, and
`AssertsHold` fails (section 4). In either case the model takes no step where undo
would write to a freed node, so with `TRUE` it also stops there.

### UndoTable, Journal, Journaled

`UndoTable` is the undo index by its contents, the form that `UndoSpec` says is
enough; recovery needs it as functions, since it applies a whole file at once.

`Journal` lays the file out in cells: one for an entry with a number, two for
an entry with an object, so that a short entry written over a long one leaves a
rest behind. `Applied` is one step of `apply_recover` with its refusals,
`Scanned` one turn of the loop of `journal::open`, `Replay` the loop.

`Journaled` runs the calls in the order of the code: container, entry
(`Write`), header (`Seal`); for `remove` the entry first and the container
after (`FinishRemove`). A `Crash` may come at every step, `LoseDatabase`
removes the database file, and the next open replays the journal into an empty
container. The constructor and destructor of the database appear as
`OpenNew`, `OpenGood`, `OpenReset`, `OpenAllow`, `Close`, `CloseUnread`.
`expected` remembers which contents a recovery may give.

Some uses the journal does not follow: a partial commit, a commit right after
`start_undo` inside a session, `undo`, `squash` or the destructor of the session
handle, a failing modifier, `dirty_action::allow`, a new database closed before
its journal is read, and the crash between the two writes of an entry.
`Careless` is the set of those that happen; `strayed` records that one did.

### Named

A program has one database open and gets containers out of it: `GetPlain` and
`GetJournaled` find a name or construct it, `Fits` compares the sizes that
`detail::container` keeps (a type that has grown since the file was written is
refused). `object` are the variables of type `journaled`: the container they
point to, the stream on its journal, its position, and `last`, the entry that
compression may overwrite. Assignment takes the stream of the other object and
leaves its own `last` (`detail/journal.hpp:44-52`); `of` records which file that
is about, so that the model sees when an object writes over an entry of another
journal (`Stale`). A call and its entry are one step here; `Journaled` takes
them apart. `slot` is a singleton: what its flag says, what its storage holds,
and values it forgot to destroy. `Careless` names five uses the code does not
guard against; `strayed` are the names they happened to, and the properties go on
to hold of all others.

### Sessions

`index` is an undo index by its contents (`UndoTable`), `handle` the objects of
class `session`: an index and `_apply`. A handle closes the top of the stack,
whichever session that is. `owner` is history: for each open session the handle
that answers for it, or `Nobody` once it was pushed. When a handle closes a
session that is not its own, the two handles have swapped sessions, and `owner`
says so (`ClosedBy`). `before` remembers the table at the start of each
handle's session.

### Archive

Numbers are sequences of digits (`Digits`, in base `Base`), the least significant
first or last as the host's byte order has it, and everything is built of them: a
negative number is the unsigned one of its width, a string its length and its items,
a count an unsigned number. `IsValue` says what the program can save: a number is
within the range of its type, and the length of a string fits in a count, which the
code asserts (`binary_oarchive.hpp:75`). `Save` writes a value, `Seal` ends an entry
and records its size and checksum. `Turn` is the change from the writer to the reader, of either byte
order, with a stream that may have been cut anywhere. An entry is loaded value by
value (`Load`) or skipped through a buffer of `Chunk` digits (`Skip`), and
`Check` compares size and checksum. The checksum is the sequence of digits it was
computed from, so it is perfect: it differs whenever they do.

### Database

Each process runs the constructor step by step: `Start` (exists), `Validate` or
`NotFound`, then `Touch`, `ResizeNew`, `Construct` for a new or reset file, or
`Measure`, `Enlarge`, `GrowSegment`, `SegmentGrown` for one that is kept, then
`TryLock` and `MarkDirty`; a reader stops after `OpenReader`. An exception puts
it `out`. `BeginWrite`/`EndWrite` stand for any operation on the containers,
`ClearDirty`, `Flush`, `CloseWriter`, `CloseReader` for the destructor. `file` is what processes
see, `disk` what `msync` has put on the disk: a `Crash` of a process keeps
`file`, `PowerLoss` mixes the two. `Careless` names what the code does not
guard against: constructors that overlap with creation, reset or growth;
crashes in windows the flag does not cover; a path without a directory, for
which `_outcome` is never assigned (any value); closing a torn file opened with
`allow`; and a crash while another opener relies on the flag it has read.

## 3. The runs

Deadlock is checked in all of them.

| Run | Config | Result | Question |
|---|---|---|---|
| `undo_index` | `UndoIndex.cfg` | passes | Are the lists, ends, stamps and ids consistent, and is the promise kept? |
| `undo_conflicts_unique` | `UndoConflictsUnique.cfg` | violated | Are keys unique when conflicting modifiers run on any row? |
| `undo_conflicts_freed` | `UndoConflictsFreed.cfg` | violated | Does no list mention a freed row then? |
| `multi_index` | `MultiIndex.cfg` | passes | Do the trees agree after every call, and does undo get through its transient states? |
| `sessions` | `Sessions.cfg` | passes | Is every session closed once, and does a handle restore its own table? |
| `journal` | `Journaled.cfg` | passes | Does the journal replay into the container, wherever the process crashed? |
| `journal_commit` | `JournaledCommit.cfg` | violated | ... after a partial commit? |
| `journal_compress` | `JournaledCompress.cfg` | violated | ... after a session is committed at once inside another? |
| `named` | `Named.cfg` | passes | Does every name follow its own journal, through moves and assignments of its objects? |
| `archive` | `Archive.cfg` | passes | Does the reader get what the writer wrote, and stay in step when it skips? |
| `database` | `Database.cfg` | passes | Do flag and outcome tell the truth, does only the owner write, and does nobody wait? |
| `database_good` | `DatabaseGood.cfg` | violated | ... does `good` tell the truth if a writer crashes while another opens? |

### Properties

*Undo index.* `UniqueKeys` (asserted by `multi_index.hpp:276`),
`OneNodePerKey`, `NoFreedRow` (no list points to a freed node),
`EndsAreLive` (a session's ends are cells that exist), `SessionsNest`,
`KeysBelowNextId`, `OneBackupPerSession` (among the backups of a session there
is one at most that undo will use), `BoundedLeftover` (what partial commits
leave behind does not add up), `ImplementsPromise`.

*Multi index.* `TreesAgree`: between calls every tree holds the same rows in
strict order. `TransientOrder`: in the middle of an undo the trees are in order
and complete, though keys may be shared. `AssertsHold`: the three inserts and
re-filings that "must succeed" do. `UndoRestores`: an undo that is through has
brought back the rows of the session's start. `ThrowsLeaveOthers`: an `emplace` that is
refused has changed nothing, a `modify` that is refused the row of the call at most
(after a modifier's own exception the row is as the modifier left it, which the code
keeps). All of this is of callers that do not undo a session that has lost a row of
its start.

*Journal.* `ReplayGivesContainer`: whenever no call is under way, the file
replays into the container, sessions and revision included.
`RecoversLastCall`: after a crash at any step a recovery gives the container
before or after the interrupted call. `RecoverableUntilStrayed`: until a careless
use the next recovery throws nothing and gets to the end of the journal or to an
entry that is not sealed (what it gives is the business of the other two). `EntriesStay`: compression
overwrites the last entry and nothing else.

*Named containers.* `JournalsFollow`: the container of every name is what its own
journal replays to, and its object writes where the replay ends. `OneWriterPerName`:
an object writes the journal of the container it points to, and no other object
writes that one. `SlotIsWhole`: a singleton that says it has a value has one.

*Sessions.* `AppliersOwnOne`: a handle that applies answers for exactly one open
session. `OwnersApply`: a session that was not pushed has a handle that will close
it. `HandleRestores`: undo through a handle gives the table at the start of its
session, unless a handle was used out of order or a nested one was pushed.

*Archive.* `WritesPortably`: the bytes do not depend on the writer's byte order. (The
widths of types are one constant: hosts whose `unsigned long` differ are not covered.)
`LoadsWhatWasSaved`: what was loaded of any entry is what was saved, whichever byte
order the two hosts have. `EntriesCheck`: an entry that was loaded or skipped to its
end passes the comparison of size and checksum, and only a stream that lost bytes
throws.

*Database.* `CleanIsWhole`: a clear flag means a whole file, after crashes of
processes and of the machine. `DirtyWhileOpen`: while anyone may write, the
flag is set, on the disk too. `GoodMeansGood`: an opener whose outcome is
`good` has whole data and not a new file nobody has filled from the journals.
`SegmentFits`: the segment manager never owns memory behind the file's end.
`Openable`: a file nobody works on can be opened. `OnlyOwnerWrites`: nobody changes
the file under the process that may write it. `NobodyWaits`: whoever opens or
closes the database gets there or is thrown out, whatever the others do.

The passing run `database` has `Careless = {}`, so these hold of processes that keep a
discipline and of crashes outside three windows. It says nothing of openers that
overlap with the creation, reset or growth of the file (`"overlap"`: neither
`OnlyOwnerWrites` nor `SegmentFits` covers two that grow it at once); of a crash
between `touch` and `dirty()` of a new file (`"crash_constructing"`), in the growth of
the segment (`"crash_growing"`), or between the clearing of the flag and the end of
the flush (`"crash_flushing"`); of a path without a directory (`"bare_path"`); of a
crash while another opener relies on the flag (`"stale_check"`); and of a torn file
closed after `allow`. The run `database_good` shows what the stale flag does, and
section 4 what TLC finds for others.

### Fairness

Only `database` assumes any: `FairSpec` adds weak fairness of `Steps(p)`, the
steps of the constructor and the destructor, for each process on its own. A
thread that runs straight-line code is scheduled again as long as its process
lives; a crash or a loss of power ends the constructor too. `BeginWrite`,
`EndWrite`, `Start`, crashes and the decision to close are the caller's or the
world's and are not fair. `try_lock` does not wait (`database.cpp:144`), which is
what the property rests on: a constructor that waited for the lock would hang as
long as the other process keeps the database open, which it may do forever.

### Bounds

- `undo_index`: keys 0 and 1, three interchangeable values no two rows may
  share, three sessions, revisions to 3, at most five cells in the two lists
  together (`MaxListed`). Two keys give a unique-key exchange between rows, a
  removed and a modified row, and a created row undone beside an old one; three
  values give a row two modifies and a conflict; three sessions give a partial
  commit that keeps two, and squash into a session that has one below; five cells
  give both rows a backup in two sessions and one of them a removal on top.
  `Bounded` also keeps `set_revision` from skipping ahead of what was undone (only
  the differences of revisions matter to the lists) and has modifies reverted in
  the first two sessions only, so that a third can be started above them.
- `multi_index`: three rows, two secondary indices, six values that meet in the
  first index, in the second, in both or in neither, and are ordered
  differently by the two: a modify may be refused by either index after it was
  re-filed in the other, and an undo may rotate the keys of three rows.
- `sessions`: two indexes, three handles, revisions to 3 and one key. Three handles
  on one index nest, end in every order and leave one to move or assign into; two
  indexes are needed for an assignment between them. The tables need only tell
  the snapshots of nested sessions apart, and what a session closed behind its
  handle leads to is not followed (`Bounded`).
- `journal`: two keys, two objects, two revisions and files of five cells: an
  insert, a session, and two more short entries, or two objects and a session
  entry. `MaxLosses = 2` with `Bounded`: before a careless use one loss is
  enough, since the recovery from it gives a state that calls alone give;
  after one, files of two cells have room for an entry cut short by the next.
- `named`: two names, a type in two versions, two objects, one key, files of three
  cells, two losses. `Bounded` does not combine what shares no state: the
  singleton is looked at in an empty database, the grown type under one name, and
  one name goes wrong at a time, while the journals hold one cell between them:
  what a careless use leads to is not claimed to recover, only to leave the
  other name alone.
- `archive`: base 2, counts of two digits, a buffer of two, two entries of up to two
  values. Two digits are the smallest number whose byte order shows, a string
  of three the smallest that skipping takes more than one turn for, and two
  entries show whether a checksum starts anew.
- `database`: two processes, sizes below the minimum, 2 and 3, so that a file can
  grow and be reopened with less; two crashes.

## 4. What the runs found

1. **A reverted modify leaves the row stamped** (`undo_multi_index.hpp:99`).
   `on_modify` raises `mtime` and pushes a backup; the reverter pops the backup
   and not the stamp. The next modify of the row in that session takes no
   backup, so undo does not restore it, and the row that undo does restore
   meets it under its unique key (`undo_conflicts_unique`).
2. **A conflicting modify without a backup frees a row that has one**
   (`multi_index.hpp:249`). The base class erases and frees the row without
   `on_remove`; the backup of the first modify still points to it
   (`undo_conflicts_freed`).
3. **A partial commit is journaled as a full one** (`journaled.hpp:291`,
   `journal_commit`).
4. **start_undo and commit are compressed inside another session**
   (`journal.cpp:8`, `journal_compress`): the replay calls `set_revision` with
   a session open, which throws.
5. **The flag is read before the lock is taken** (`database.cpp:85`,
   `database_good`).

Others the models contain, each let in by a constant, and no run has for its
question. TLC finds the property named violated when the constant is set so in the
run's config:

- `RiskyUndo = TRUE` (`MultiIndex.cfg`, `AssertsHold`): finding 1 as the trees see it.
  Undo leaves a row that was written again under its new keys, a removed node that undo
  inserts finds one of them taken (`multi_index.hpp:276`), and with the assert compiled
  out it is in no tree.
- `Careless = {"bare_path"}` (`Database.cfg`, `GoodMeansGood`): `_outcome` is assigned
  where the directory of the path is created (`database.cpp:102`), and a bare file
  name has none; a new file may be called `good`, and its journals are not replayed.
- `Careless = {"crash_constructing"}` (`Database.cfg`, `Openable`): the header comes
  after `touch` and `resize_file` (`database.cpp:111-118`); a file left without one
  makes the constructor throw whatever the `dirty_action`, `reset` included.
- `Careless = {"crash_growing"}` (`Database.cfg`, `CleanIsWhole`): the segment grows
  before `dirty()` (`database.cpp:134`), and a crash there leaves a torn file that
  opens as `good`.

And these:

- Recovery applies an entry before it checks it (`journal.hpp:69`,
  `"torn_write"`), and then writes over it: after a crash within an entry the
  container has a change that the journal does not.
- An opener that will be refused by the lock has already truncated or grown the
  file (`database.cpp:111`, `"overlap"`).
- A crash between the header of a new file and `dirty()` leaves a clean new file,
  which opens as `good`, so that its journals are not replayed
  (`"crash_constructing"`, `"unread"`); the final `flush` can be cut short while the
  flag is clear (`"crash_flushing"`).
- A container got twice as journaled from a new database is recovered twice, and
  the two objects write over each other (`"twice"`); a journaled object that was
  assigned to may write over an entry of another journal (`"moved_into"`,
  `journal.hpp:44`); emplacing a singleton over a value does not destroy the old
  one (`"emplace_over"`, `singleton.hpp:48`).
- `session::operator=` cannot take over a handle of another index (`"rebind"`,
  `undo_multi_index.hpp:178`): the session is left without a handle, and the
  handle undoes a session of its own index instead.
- Outside the models: `database::get() const` forms a name with the suffix and
  looks for the one without (`database.hpp:87`).

## 5. What is proved

Each proof is for every value of the constants that the module's named
assumptions allow: the bounds are any naturals, keys, values, handles, names and
processes any sets. Where a theorem asks more, it is a hypothesis in its
statement. The inductive invariants were checked by TLC, on the bounds of the
runs, before they were proved.

### The undo index

`UndoIndexProofs` proves, for every number of keys, sessions and revisions,
every set of values and every symmetric, reflexive `Clash`, with risky conflicts
and without:

| Theorem | Property |
|---|---|
| `StructureHolds` | `Structure` |
| `TypeOKHolds` | `TypeOK` |
| `EndsAreLiveHolds` | `EndsAreLive` |
| `SessionsNestHolds` | `SessionsNest` |
| `KeysBelowNextIdHolds` | `KeysBelowNextId` |
| `OneNodePerKeyHolds` | `OneNodePerKey` |
| `BoundedLeftoverHolds` | `BoundedLeftover` |

The assumptions are those of `ConstantsAssumption`: the bounds are naturals and
`Clash` is a symmetric relation on `Vals` that every value has with itself.

*The argument.* None of the first five is inductive alone. That a session's end is a
live cell after `Commit` needs that the sessions' ends are ordered as the stack
is (`SessionsNest`): a younger session's end is never among the cells dropped
for an older one. That a new cell's `pos` is new needs that a non-empty list has
a head (`HasHead`), which holds of a finite list and must be carried along,
because the order is all the model keeps of the links. That `Undo` puts back
nodes whose keys are free needs `KeysBelowNextId` and `OneNodePerKey`. So
`Structure` is their conjunction with `TypeOK` and `HasHead`, and
`StructureInductive` is its preservation by every action, one lemma per action
(`EmplaceStructure`, `ModifyStructure`, `RemoveStructure`,
`LastUndoSessionStructure`, `PopStructure`, `SquashStructure`,
`StartUndoStructure`, `UndoStructure`, `CommitStructure`, `OtherStructure`).
Below them are lemmas about the lists: what a pushed cell, the front of a list,
a popped stack and a compressed list are. `BoundedLeftover` rests on `Structure`
and an invariant of its own (`Bounded`): at most one cell of a list is owned by
no session, since a commit leaves the end of the oldest session that stays, and
the next one takes that along.

It goes on to prove, under `~ RiskyConflicts`:

| Theorem | Property |
|---|---|
| `FaithfulsHold` | `Faithfuls` |
| `Refinement` | `ImplementsPromise` |
| `NoFreedRowHolds` | `NoFreedRow` |
| `OneBackupPerSessionHolds` | `OneBackupPerSession` |
| `UniqueKeysHold` | `UniqueKeys` |

The hypothesis is needed: the runs `undo_conflicts_unique` and
`undo_conflicts_freed` show that the code does not keep the promise without it.

*The argument.* A session is `Faithful` if each row of its start has one node, in the
table or among the removed ones, and one backup that is older than the session if
the row's own stamp says that it has changed since (or its modify was reverted), and
none otherwise. Then the choice of the oldest backup in `SavedTable` has one candidate
(`OneBackupPerSession`), what a session would restore is a function of nodes and
backups (`Restored`, `RestoredShows`), and each action either leaves what every
open session shows as it was (`Keeps`) or adds or takes one session. The stamps
themselves (`Stamped`) never run ahead of the revision. Squash and compression are
the cases that need work: a backup may be thrown away only if an older session
has one of the same row or never had the row. The refinement is then a step per
action; `UniqueKeys` is inductive only together with the same of every table that
an open session would bring back (`AllUnique`), which the refinement hands over.

### The multi index

`MultiIndexProofs` proves, for any number of indices, rows and values, under
`~ RiskyUndo`:

| Theorem | Property |
|---|---|
| `OrderHolds` | `Order` |
| `TypeOKHolds` | `TypeOK` |
| `TreesAgreeHolds` | `TreesAgree` |
| `TransientOrderHolds` | `TransientOrder` |
| `AssertsHoldAlways` | `AssertsHold` |
| `UndoRestoresHolds` | `UndoRestores` |
| `ThrowsLeaveOthersHolds` | `ThrowsLeaveOthers` |

The hypothesis is about callers: they may run any modify, but they do not undo a
session that has lost a row of its start. Without it `AssertsHold` fails (section 4).

*The argument.* The invariant holds at every step, in the middle of an undo too:
each tree has exactly the rows of the table, in the order of its keys, strictly by
the primary key (`InTrees`); keys are unique except while backups are written
back (`KeysUnique`); a row that has a backup or is new is stamped (`Stamps`), so
that no row gets a second backup; and, until a loss (`Undoable`), the rows of the
session's start can be put together from the table, the backups and the removed
nodes (`Recoverable`), without two that share a key. `Stages` says that an undo is
under way only where nothing was lost. Under it are lemmas about each tree operation: where `LowerBound` and
`UpperBound` put a node, that a node re-filed where its neighbours show it to be out
of order leaves the tree in order, and that a tree is determined by its rows and
their keys (`OneOrder`), which is why a modify that a later index refuses leaves the
very trees it found. A backup is written back by a re-filing that lets keys be
shared, and cannot fail; by the time that removed nodes are inserted, the rows are
some of those of the session's start, and no two of these share a key: so the
asserts hold.

### Session handles

`SessionsProofs` proves, for any handles and indexes and with every careless use:

| Theorem | Property |
|---|---|
| `OrderHolds` | `Order` |
| `TypeOKHolds` | `TypeOK` |
| `AppliersOwnOneHolds` | `AppliersOwnOne` |
| `OwnersApplyHolds` | `OwnersApply` |
| `HandleRestoresHolds` | `HandleRestores` |

*The argument.* Open sessions that were not pushed and handles that will close one
are matched one to one (`Matched`), until one is lost by a use that the
properties except (`Lost`). A handle that closes a session of another swaps with it, so a
match goes over into a match; the work is in what a stack of owners is after a
session, or all of them, or some in front are gone. The tables that handles recall
(`Recalls`) are kept apart, since they are claimed only while nothing happened out
of order.

### The journal

`JournalProofs` has the lemmas for the two modules that use the file, and no theorem
of its own. `JournaledProofs` proves, for any rows, values, revisions, file lengths
and losses and with every careless use:

| Theorem | Property |
|---|---|
| `OrderHolds` | `Order` |
| `TypeOKHolds` | `TypeOK` |
| `ReplayGivesContainerHolds` | `ReplayGivesContainer` |
| `RecoverableHolds` | `RecoverableUntilStrayed` |
| `RecoversLastCallHolds` | `RecoversLastCall` |
| `EntriesStayHolds` | `EntriesStay` |

*The argument.* `Replay` is a recursive function over the whole file, which says
little about a file of which one entry changes. So the proofs use `Reads(file, t, p, u)`:
a reader that starts with t gets to position p with u. It depends on the cells in
front of p alone (`ReadsAgree`), can be continued by an entry that is accepted
(`ReadsMore`) and taken back by one (`LastTaken`), and gives the outcome of `Replay`
(`ReadsReplay`, `ReadsTorn`). `Whole(file, t)` is a file that is read to its end,
`Torn(file, t)` one whose last entry is not sealed and was applied all the same. The
invariant says of each stage of a call which of the two the file is, and of what:
with the entry written the file is torn and gives the container that the call has
made, with the header sealed it is whole. The entry that compression replaces is the
last one and was read last (`Kept`, `WholeLast`), so the state in front of it can be
had back, and the compressed entry leads from there to the same container:
`RevisionOverRevision` and `StartOverRevision` because an entry of a session first
sets the revision it missed, `CommitOverStart` because with one session open to
commit it is to keep the rows and set the revision. `CommitOverStart` needs that the
session is the only one, which is what finding 4 is about.

`NamedProofs` proves, for any names, types, objects and losses:

| Theorem | Property | Assumes of `Careless` |
|---|---|---|
| `OrderHolds` | `Order` | - |
| `TypeOKHolds` | `TypeOK` | - |
| `JournalsFollowHolds` | `JournalsFollow` | - |
| `OneWriterPerNameHolds` | `OneWriterPerName` | - |
| `SlotIsWholeHolds` | `SlotIsWhole` | `"emplace_over" \notin Careless` |

*The argument.* An object stands on the journal of its own container, not behind its
end (`Placed`), and nobody else writes that one (`Alone`). A name that nothing went
wrong with has a journal that is whole, and it gives the container, unless the
database is new and nobody has read it (`FollowsAt`); its object is at its end.
These hold name by name, so a step is looked at for the name it is about, and the
others stay as they were (`FollowsSame`). A get reads a journal into an empty
container or stands at its end (`GotOrder`). An object that remembers a last entry of
another journal may compress only into an entry that it finds in front of its
stream, or the name is given up (`WriteFollows`); a name given up may get a gap in
its file (`ReachingIs`), and nothing is said of it but its types. `SlotIsWhole` is
inductive by itself; the run has the same hypothesis.

*Data by induction.* The library's induction theorems cannot be used, as they take an
operator. That a set of numbers has a least one can be, since it is a statement
about a set (`AllNumbers`); the lemmas about `Replay`, the copy of a tree, the readers
of a file and the digits of a number are proved from it.

### The database file

`DatabaseProofs` proves, for every set of processes and of sizes, every minimal
size and any number of crashes:

| Theorem | Property | Assumes of `Careless` |
|---|---|---|
| `OrderHolds` | `Order` | `Disciplined` |
| `TypeOKHolds` | `TypeOK` | `Disciplined` |
| `DirtyWhileOpenHolds` | `DirtyWhileOpen` | `Disciplined` |
| `CleanIsWholeHolds` | `CleanIsWhole` | `Disciplined` |
| `SegmentFitsHolds` | `SegmentFits` | `Disciplined` |
| `OpenableHolds` | `Openable` | `Disciplined` |
| `OnlyOwnerWritesHolds` | `OnlyOwnerWrites` | `Disciplined` |
| `GoodMeansGoodHolds` | `GoodMeansGood` | `Careless = {}` |

`Disciplined` says that five of the careless uses do not happen: overlapping
constructors that change the file, closing a torn file opened with `allow`, and
crashes in the three windows that the flag does not cover. A stale check and a
bare path may: they break nothing but what an opener is told, which is why
`GoodMeansGood` needs more.

*The argument.* What the flag promises holds because of where each process is, so
the invariant says that (`Knows`): between `touch` and `dirty()` the file is new
and its flag is clear, a process that grows the segment has grown the file
before, one that has cleared the flag has a whole file. It holds of a process
because no other one changes the file meanwhile (`HarmsAlone`, `LockIsOwned`).
Then what may differ between file and disk (`FlagOnDisk`, `HeaderOnDisk`,
`UnsyncedIsDirty`) and `TornIsDirty` are kept by every step, those of fate
included. `Order` is their conjunction; there is a lemma for every action, with
a step for each part. `Told` adds what an opener has been told, and is inductive
together with `Order`. `DirtyWhileOpen` and `SegmentFits` are parts of `Order`,
the others follow from it.

### The archives

`ArchiveProofs` proves, for numbers of any width in any base, strings, skip buffers of
any size, any number of entries, both byte orders of either host and a stream that ends
anywhere:

| Theorem | Property |
|---|---|
| `OrderHolds` | `Order` |
| `TypeOKHolds` | `TypeOK` (part of `Order`, no run states it) |
| `WritesPortablyHolds` | `WritesPortably` |
| `LoadsWhatWasSavedHolds` | `LoadsWhatWasSaved` |
| `EntriesCheckHolds` | `EntriesCheck` |

The assumptions are those of `ArchiveAssumption` (bounds and sizes) and
`ItemsAssumption`: what is saved is a value of a C++ type (`IsValue`). A number
outside the range of its type cannot be passed to `save`; that a string's length fits
in a count is the code's own assert.

*The argument.* It has two halves. The first is arithmetic. Digits are joined by a
recursive function, so the lemmas about it say where its values lie (`HornerRange`)
and what division makes of the last one (`HornerQuotient`); then digits and numbers are
inverse to each other (`DigitsOfNumber`, `NumberOfDigits`). A host swaps bytes or
not, and writes and reads the same digits either way (`HostWrites`, `HostReads`). A
negative number has the digits of its unsigned one (`DigitsOfUnsigned`), from which it
comes back if it is within the range (`SignedOfUnsigned`). Of a value this gives
`SavedIsPortable` and `LoadedBack`: where its bytes stand in the stream a reader loads
it, or fails because they are not all there. A skip takes as many bytes as it was told,
whatever the buffer (`SkipsAll`), which has an invariant of its own over its chunks.

The second half is about entries. `LoadsWhatWasSaved` and `EntriesCheck` hold because
reader and writer keep in step, which `Order` says: a sealed entry has the bytes of its
values where the entries before it end (`EntrySealed`); a reader that has not failed
has the first values of its entry and exactly their bytes, and stands behind these
(`Reading`); one that has failed was given less than what was written (`CutShort`).
A value that is expected lies within its entry because the bytes of the values up to it
are the first bytes of the entry (`BytesBegin`). So at the end of an entry the
checksum is that of the whole and the position is the entry's end (`EntryAtEnd`),
loaded or skipped, and the comparison passes.

### Only model-checked

- `NobodyWaits`: liveness under fairness is out of the provers' reach.
- What the violated runs find, two of modifies that conflict, two of the journal, one
  of the database, and what section 4 says of other values of the constants.

## 6. What is not modelled

- The balance of the trees (Boost.Intrusive), and modifiers that change a row's
  primary key (excluded by the assert of `multi_index.hpp:257`). A modifier that
  throws leaves the row in one of the three ways of `modify_with_revert`, like one
  that returns; only what `modify` throws differs.
- Checksums that collide, versions of serialized objects, the environment's
  comparison, the allocators. Arrays, optionals and user objects are sequences of
  what `Archive` has.
- `journaled` over a container without sessions (`journaled.hpp:20-140`) on its own:
  it is the other specialization without its session calls.
- Boost.Interprocess: the segment manager is its size, the lock is exclusive
  per process. (POSIX record locks vanish when the process closes any
  descriptor of the file; one database object per process is assumed.)
- Moves of `database`: `database::database(database&&)` and `operator=` move
  paths, lock and mapping from themselves and not from `other`.
- `get` on a database opened read-only (its mapping is not writable, and a name
  that is missing would be constructed in it), and `get() const`.
- The copy constructor of a singleton, which nothing in the library calls.
- Threads: the library has none and says nothing of them.

## 7. Plan

Done: all modules of section 2, their runs, and the proofs of section 5.

Every invariant and action property that a passing run checks is stated by a
theorem, and so is the refinement; `NobodyWaits` stays with TLC.

Left, each a hazard with a note in `PROJECT.json`: overlapping creation and growth of
the file, a new database that is closed unread, the flush that is cut short, and a
singleton emplaced over a value, all of which the models contain as `Careless` uses that
nothing is claimed of; and moves of `database` (`database.cpp:161`) and `get() const`
(`database.hpp:87`), slips of a line that no path of the library reaches, of which a
model would say what the line says.
