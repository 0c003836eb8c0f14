------------------------------ MODULE UndoIndex ------------------------------
(***************************************************************************)
(* The undo bookkeeping of chainbase::basic_undo_multi_index               *)
(* (include/chainbase/undo_multi_index.hpp): a table of rows with a        *)
(* primary key and unique secondary keys, a stack of undo sessions, and    *)
(* the two singly linked lists that let a session be undone.               *)
(*                                                                         *)
(* A node of the table is identified by its primary key: a key has at most *)
(* one node (OneNodePerKey) and is never handed out again while a list     *)
(* still mentions it (KeysBelowNextId), so the pointer `_current` of a     *)
(* backup is the key of the row it backs up.                               *)
(*                                                                         *)
(* A linked list is a set of cells.  `pos` is a cell's place in the order  *)
(* of push_front: the head has the largest pos.  A pointer to a cell is    *)
(* its pos, nullptr is 0.  Erasing cells leaves the others where they are, *)
(* as it does in memory.                                                   *)
(*                                                                         *)
(* Where the code would follow a pointer to a freed node the model takes   *)
(* no step: what the program does from there is undefined, and NoFreedRow  *)
(* says that it never gets there.                                          *)
(***************************************************************************)
EXTENDS Integers, Sequences

CONSTANTS
    MaxId,          \* the largest primary key (bounds the model)
    Vals,           \* what a row holds beside its primary key
    Clash,          \* the pairs of Vals that share the key of a unique index
    MaxSessions,    \* how many sessions are started (bounds the model)
    MaxRevision,    \* the largest revision (bounds the model)
    RiskyConflicts  \* do callers run conflicting modifiers on rows that are
                    \* older than the open session?

ASSUME ConstantsAssumption ==
    /\ MaxId \in Nat
    /\ MaxSessions \in Nat
    /\ MaxRevision \in Nat
    /\ RiskyConflicts \in BOOLEAN
    /\ Clash \subseteq Vals \X Vals
    /\ \A v \in Vals : <<v, v>> \in Clash
    /\ \A v, w \in Vals : <<v, w>> \in Clash => <<w, v>> \in Clash

VARIABLES
    rows,               \* the main table: primary key -> [val, mtime]
    old_values,         \* _old_values: cells that back up modified rows
    removed_values,     \* _removed_values: cells (nodes) of removed rows
    undo_stack,         \* _undo_stack, the oldest session first
    next_id,            \* _next_id
    revision,           \* _revision
    monotonic_revision, \* _monotonic_revision
    tracked,            \* keys of the nodes a removed_nodes_tracker holds
    reverted            \* history: rows whose modify was reverted since
                        \* sessions are open

vars == <<rows, old_values, removed_values, undo_stack, next_id, revision,
          monotonic_revision, tracked, reverted>>

Ids  == 0 .. MaxId
Row  == [val : Vals, mtime : Nat]
Cell == [pos : Nat \ {0}, id : Ids, val : Vals, mtime : Nat]
UndoState == [old_values_end : Nat, removed_values_end : Nat,
              old_next_id : 0 .. MaxId + 1, ctime : Nat]

-----------------------------------------------------------------------------
(* The linked lists. *)

\* Pointer to the first cell, nullptr if there is none.
Begin(list) ==
    IF list = {} THEN 0
    ELSE CHOOSE p \in {c.pos : c \in list} : \A c \in list : c.pos <= p

PushFront(list, id, row) ==
    list \cup {[pos |-> Begin(list) + 1, id |-> id,
                val |-> row.val, mtime |-> row.mtime]}

\* The cells in front of the one `end` points to, and the others.
Before(list, end) == {c \in list : c.pos > end}
FromOneEarly(list, end) == {c \in list : c.pos <= end + 1}  \* a mutant
From(list, end)   == {c \in list : c.pos <= end}

\* dispose: commit erases the cells behind `end`, the one it points to stays.
UncommittedOnly(list, end) == {c \in list : c.pos > end}    \* a mutant
UncommittedAll(list, end)  == list                          \* a mutant
Uncommitted(list, end)     == {c \in list : c.pos >= end}

\* Writing the backups one by one from the head of the list leaves a row
\* with the one deepest in the list, its oldest.  The mutant forgets mtime.
Oldest(backups) ==
    CHOOSE b \in backups : \A c \in backups : b.pos <= c.pos

OverwrittenVal(row, id, backups) ==
    LET mine == {b \in backups : b.id = id}
    IN  IF mine = {} THEN row ELSE [row EXCEPT !.val = Oldest(mine).val]

Overwritten(row, id, backups) ==
    LET mine == {b \in backups : b.id = id}
    IN  IF mine = {} THEN row
        ELSE [row EXCEPT !.val = Oldest(mine).val, !.mtime = Oldest(mine).mtime]

WrittenInto(nodes, backups) == {Overwritten(n, n.id, backups) : n \in nodes}

-----------------------------------------------------------------------------
(* Reading the state. *)

Top == undo_stack[Len(undo_stack)]

RemovedIds == {n.id : n \in removed_values}

\* get_removed_field(...) == erased_flag
IsRemoved(id) == id \in RemovedIds \cup tracked

Conflict(id, v) ==
    \E other \in DOMAIN rows \ {id} : <<v, rows[other].val>> \in Clash

\* What a row that is written in a session is stamped with.
RevisionStamp == revision                                   \* a mutant
Stamp         == monotonic_revision

\* The next session's ctime, and the monotonic revision from then on.
NoNextCtime == monotonic_revision                           \* a mutant
NextCtime   == monotonic_revision + 1

\* _next_id once a row with key id is in the table.
IdAfterNext(id) == next_id + 1                              \* a mutant
IdAfter(id)     == id + 1

\* on_modify takes a backup of the row: it was not written in this session.
NeedsOlderBackup(id) ==                                     \* a mutant
    undo_stack # << >> /\ rows[id].mtime + 1 < Top.ctime
NeedsBackup(id) == undo_stack # << >> /\ rows[id].mtime < Top.ctime

\* on_remove keeps the node: the row was there before this session.
KeepsOlderRemoved(id) ==                                    \* a mutant
    undo_stack # << >> /\ id + 1 < Top.old_next_id
KeepsRemoved(id) == undo_stack # << >> /\ id < Top.old_next_id

\* The table after the row of id has left it.
Without(id) == [k \in DOMAIN rows \ {id} |-> rows[k]]

-----------------------------------------------------------------------------
(* Operations on rows. *)

Init ==
    /\ rows = [id \in {} |-> 0]
    /\ old_values = {}
    /\ removed_values = {}
    /\ undo_stack = << >>
    /\ next_id = 0
    /\ revision = 0
    /\ monotonic_revision = 0
    /\ tracked = {}
    /\ reverted = {}

\* emplace: the constructor starts from the next id and may raise it.  A
\* constructor that throws or a key that is taken leaves no trace.
Emplace(id, v) ==
    /\ id >= next_id
    /\ ~ Conflict(id, v)
    /\ rows' = [k \in DOMAIN rows \cup {id} |->
                  IF k = id
                  THEN [val |-> v,
                        mtime |-> IF undo_stack = << >> THEN 0 ELSE Stamp]
                  ELSE rows[k]]
    /\ next_id' = IdAfter(id)
    /\ UNCHANGED <<old_values, removed_values, undo_stack, revision,
                   monotonic_revision, tracked>>

\* The callers' discipline while RiskyConflicts is FALSE: a row whose modify
\* was reverted is not modified again while sessions are open, and conflicts
\* that would erase a row are those of rows that the session has created.
MayModify(id)   == id \in reverted => RiskyConflicts
MayConflict(id) ==
    (undo_stack # << >> /\ ~ RiskyConflicts) => id >= Top.old_next_id

\* modify, when the modifier leaves no conflict (it may throw afterwards: the
\* row is re-indexed all the same).
ModifyOk(id, v) ==
    /\ id \in DOMAIN rows
    /\ ~ Conflict(id, v)
    /\ MayModify(id)
    /\ rows' = [rows EXCEPT
                  ![id] = [val |-> v,
                           mtime |-> IF NeedsBackup(id) THEN Stamp
                                     ELSE rows[id].mtime]]
    /\ old_values' = IF NeedsBackup(id)
                     THEN PushFront(old_values, id, rows[id])
                     ELSE old_values
    /\ UNCHANGED <<removed_values, undo_stack, next_id, revision,
                   monotonic_revision, tracked>>

\* modify, when the modifier leaves a conflict and on_modify took a backup:
\* the value is moved back and the backup popped; mtime keeps its new value.
ModifyReverted(id, v) ==
    /\ id \in DOMAIN rows
    /\ Conflict(id, v)
    /\ NeedsBackup(id)
    /\ rows' = [rows EXCEPT ![id].mtime = Stamp]
    /\ reverted' = reverted \cup {id}
    /\ UNCHANGED <<old_values, removed_values, undo_stack, next_id, revision,
                   monotonic_revision, tracked>>

\* modify, when the modifier leaves a conflict and there is no backup: the
\* base class removes the row and frees its node, and on_remove is not called.
ModifyErased(id, v) ==
    /\ id \in DOMAIN rows
    /\ Conflict(id, v)
    /\ MayConflict(id)
    /\ ~ NeedsBackup(id)
    /\ rows' = Without(id)
    /\ UNCHANGED <<old_values, removed_values, undo_stack, next_id, revision,
                   monotonic_revision, tracked>>

Remove(id) ==
    /\ id \in DOMAIN rows
    /\ rows' = Without(id)
    /\ removed_values' = IF KeepsRemoved(id)
                         THEN PushFront(removed_values, id, rows[id])
                         ELSE removed_values
    /\ UNCHANGED <<old_values, undo_stack, next_id, revision,
                   monotonic_revision, tracked>>

\* removed_nodes_tracker::remove: a node that remove would free stays with
\* the tracker.
TrackedRemove(id) ==
    /\ id \in DOMAIN rows
    /\ rows' = Without(id)
    /\ IF KeepsRemoved(id)
       THEN /\ removed_values' = PushFront(removed_values, id, rows[id])
            /\ tracked' = tracked
       ELSE /\ removed_values' = removed_values
            /\ tracked' = tracked \cup {id}
    /\ UNCHANGED <<old_values, undo_stack, next_id, revision,
                   monotonic_revision>>

\* ~removed_nodes_tracker
DropTracker ==
    /\ tracked # {}
    /\ tracked' = {}
    /\ UNCHANGED <<rows, old_values, removed_values, undo_stack, next_id,
                   revision, monotonic_revision>>

-----------------------------------------------------------------------------
(* Operations on sessions.  A tracker is invalidated by start_undo_session,  *)
(* commit, squash and undo, so its owner has dropped it before.              *)

StartUndo ==
    /\ tracked = {}
    /\ monotonic_revision < MaxSessions
    /\ revision < MaxRevision
    /\ monotonic_revision' = NextCtime
    /\ revision' = revision + 1
    /\ undo_stack' = Append(undo_stack,
                            [old_values_end |-> Begin(old_values),
                             removed_values_end |-> Begin(removed_values),
                             old_next_id |-> next_id,
                             ctime |-> NextCtime])
    /\ UNCHANGED <<rows, old_values, removed_values, next_id, tracked>>

SetRevision(r) ==
    /\ undo_stack = << >>
    /\ r >= revision
    /\ revision' = r
    /\ UNCHANGED <<rows, old_values, removed_values, undo_stack, next_id,
                   monotonic_revision, tracked>>

\* Undo follows `_current` only where a node is left.
UndoTouchesLiveRows(due) ==
    \A b \in due : \/ IsRemoved(b.id)
                   \/ b.id \in DOMAIN rows /\ b.id < Top.old_next_id

Undo ==
    LET due  == {b \in Before(old_values, Top.old_values_end) :
                    b.mtime < Top.ctime}
        kept == {id \in DOMAIN rows : id < Top.old_next_id}
        back == {n \in Before(removed_values, Top.removed_values_end) :
                    n.id < Top.old_next_id}
        node(id) == CHOOSE n \in back : n.id = id
    IN  /\ undo_stack # << >>
        /\ tracked = {}
        /\ UndoTouchesLiveRows(due)
        /\ rows' = [id \in kept \cup {n.id : n \in back} |->
                      IF id \in kept
                      THEN Overwritten(rows[id], id, due)
                      ELSE Overwritten([val |-> node(id).val,
                                        mtime |-> node(id).mtime], id, due)]
        /\ old_values' = From(old_values, Top.old_values_end)
        /\ removed_values' = WrittenInto(From(removed_values,
                                              Top.removed_values_end), due)
        /\ next_id' = Top.old_next_id
        /\ undo_stack' = SubSeq(undo_stack, 1, Len(undo_stack) - 1)
        /\ revision' = revision - 1
        /\ UNCHANGED <<monotonic_revision, tracked>>

\* compress_impl(session): a backup of the top session that `session` makes
\* redundant is dropped, one of a removed row moves into the removed node,
\* and removed nodes that are new to `session` are disposed of.
Compress(session) ==
    LET written   == Before(old_values, Top.old_values_end)
        redundant == {b \in written : b.mtime >= session.ctime}
        moved     == {b \in written \ redundant : IsRemoved(b.id)}
        disposed  == {n \in Before(removed_values, Top.removed_values_end) :
                         n.id >= session.old_next_id}
    IN  /\ \A b \in written \ redundant : IsRemoved(b.id) \/ b.id \in DOMAIN rows
        /\ old_values' = old_values \ (redundant \cup moved)
        /\ removed_values' = WrittenInto(removed_values \ disposed, moved)

\* squash_fast on a stack that is not empty, the lists apart.
PopSession ==
    /\ undo_stack' = SubSeq(undo_stack, 1, Len(undo_stack) - 1)
    /\ revision' = revision - 1
    /\ UNCHANGED <<rows, next_id, monotonic_revision, tracked>>

\* squash_fast: the lists stay as they are, or both are disposed of with the
\* last session.
SquashFastOnEmpty ==                                        \* a mutant
    /\ tracked = {}
    /\ IF Len(undo_stack) = 1
       THEN old_values' = {} /\ removed_values' = {}
       ELSE UNCHANGED <<old_values, removed_values>>
    /\ PopSession

SquashFast ==
    /\ undo_stack # << >>
    /\ tracked = {}
    /\ IF Len(undo_stack) = 1
       THEN old_values' = {} /\ removed_values' = {}
       ELSE UNCHANGED <<old_values, removed_values>>
    /\ PopSession

\* squash, that is squash_and_compress
Squash ==
    /\ undo_stack # << >>
    /\ tracked = {}
    /\ IF Len(undo_stack) = 1
       THEN old_values' = {} /\ removed_values' = {}
       ELSE Compress(undo_stack[Len(undo_stack) - 1])
    /\ PopSession

\* last_undo_session compresses the session it reports on.
LastUndoSession ==
    /\ undo_stack # << >>
    /\ Compress(Top)
    /\ UNCHANGED <<rows, undo_stack, next_id, revision, monotonic_revision,
                   tracked>>

\* commit(r): all sessions up to revision r are forgotten.  Of each list the
\* cell that the oldest remaining session points to stays, unowned.
Commit(r) ==
    LET behind == revision - r
        first  == Len(undo_stack) - behind + 1
    IN  /\ tracked = {}
        /\ CASE behind <= 0 ->
                  old_values' = {} /\ removed_values' = {} /\ undo_stack' = << >>
             [] behind > 0 /\ behind < Len(undo_stack) ->
                  LET oldest == undo_stack[first]
                  IN  /\ old_values' =
                            Uncommitted(old_values, oldest.old_values_end)
                      /\ removed_values' =
                            Uncommitted(removed_values, oldest.removed_values_end)
                      /\ undo_stack' = SubSeq(undo_stack, first, Len(undo_stack))
             [] OTHER -> UNCHANGED <<old_values, removed_values, undo_stack>>
        /\ UNCHANGED <<rows, next_id, revision, monotonic_revision, tracked>>

\* The copy constructor: the copy holds the rows, and none of the sessions.
Copy ==
    /\ rows' = [id \in DOMAIN rows |-> [val |-> rows[id].val, mtime |-> 0]]
    /\ old_values' = {}
    /\ removed_values' = {}
    /\ undo_stack' = << >>
    /\ tracked' = {}
    /\ UNCHANGED <<next_id, revision, monotonic_revision>>

Calls ==
    \/ \E id \in Ids, v \in Vals :
          \/ Emplace(id, v)
          \/ ModifyOk(id, v)
          \/ ModifyErased(id, v)
    \/ \E id \in Ids : Remove(id) \/ TrackedRemove(id)
    \/ \E r \in 0 .. MaxRevision : SetRevision(r) \/ Commit(r)
    \/ DropTracker
    \/ StartUndo
    \/ Undo
    \/ Squash
    \/ SquashFast
    \/ LastUndoSession
    \/ Copy

Next ==
    \/ Calls /\ reverted' = IF undo_stack' = << >> THEN {} ELSE reverted
    \/ \E id \in Ids, v \in Vals : ModifyReverted(id, v)

Spec == Init /\ [][Next]_vars

-----------------------------------------------------------------------------
(* Properties. *)

\* The index has its type.  Positions are bounded by none, so that lists
\* may grow as long as a run of the program makes them.
TypeOK ==
    /\ DOMAIN rows \subseteq Ids
    /\ rows \in [DOMAIN rows -> Row]
    /\ old_values \subseteq Cell
    /\ removed_values \subseteq Cell
    /\ undo_stack \in Seq(UndoState)
    /\ next_id \in 0 .. MaxId + 1
    /\ revision \in Nat
    /\ monotonic_revision \in Nat
    /\ tracked \subseteq Ids

\* No two rows share the key of a unique index: insert_must_succeed and
\* post_modify_must_succeed (multi_index.hpp:246,276,282) hold for every row
\* that undo writes back or inserts again.
UniqueKeys ==
    \A a, b \in DOMAIN rows :
        a # b => <<rows[a].val, rows[b].val>> \notin Clash

\* "A primary key exists at most once in either the main table or removed
\* values" (undo_multi_index.hpp:399): undo never inserts a node whose key the
\* table holds, and the nodes a tracker holds are nobody else's.
OneNodePerKey ==
    /\ \A m, n \in removed_values : m.id = n.id => m = n
    /\ \A n \in removed_values : n.id \notin DOMAIN rows
    /\ \A id \in tracked : id \notin DOMAIN rows /\ \A n \in removed_values : n.id # id

\* Undo writes to the row a backup points to unless an older backup of the
\* same session does (undo_multi_index.hpp:319): that row still has a node,
\* which erase_new_ids of the same undo has not freed.
NoFreedRow ==
    \A i \in 1 .. Len(undo_stack) :
        LET s == undo_stack[i]
        IN  \A b \in Before(old_values, s.old_values_end) :
               b.mtime < s.ctime =>
                  /\ IsRemoved(b.id) \/ b.id \in DOMAIN rows
                  /\ b.id < s.old_next_id

\* old_values_end and removed_values_end of every session point to a cell that
\* is still in its list, or are null: iterator_to is never given a freed node.
EndsAreLive ==
    \A i \in 1 .. Len(undo_stack) :
        /\ undo_stack[i].old_values_end \in {0} \cup {c.pos : c \in old_values}
        /\ undo_stack[i].removed_values_end
              \in {0} \cup {c.pos : c \in removed_values}

\* A younger session started later: its list ends, its next id and its ctime
\* are not behind those of an older one, so the ranges the sessions own do not
\* overlap and a commit that forgets the older ones leaves the younger whole.
\* None is from the future.
SessionsNest ==
    /\ \A i, j \in 1 .. Len(undo_stack) :
          i < j =>
             /\ undo_stack[i].old_values_end <= undo_stack[j].old_values_end
             /\ undo_stack[i].removed_values_end
                   <= undo_stack[j].removed_values_end
             /\ undo_stack[i].old_next_id <= undo_stack[j].old_next_id
             /\ undo_stack[i].ctime < undo_stack[j].ctime
    /\ \A i \in 1 .. Len(undo_stack) : undo_stack[i].ctime <= monotonic_revision

\* Keys are given out once: no row, backup or removed node has a key that
\* emplace could hand out again, neither now nor after undo has moved next_id
\* back, so a backup never restores its value into another row.
KeysBelowNextId ==
    /\ \A id \in DOMAIN rows \cup tracked : id < next_id
    /\ \A c \in old_values \cup removed_values : c.id < next_id
    /\ \A i \in 1 .. Len(undo_stack) :
          LET s == undo_stack[i]
          IN  /\ s.old_next_id <= next_id
              /\ \A b \in From(old_values, s.old_values_end) :
                    b.id < s.old_next_id
              /\ \A n \in From(removed_values, s.removed_values_end) :
                    n.id < s.old_next_id

\* However often sessions are squashed into one, at most one backup of a row
\* is restored by it: the others were taken of a row already written in the
\* session and are skipped (undo_multi_index.hpp:317-319).
OneBackupPerSession ==
    \A i \in 1 .. Len(undo_stack) :
        LET s == undo_stack[i]
        IN  \A b, c \in Before(old_values, s.old_values_end) :
               (b.id = c.id /\ b.mtime < s.ctime /\ c.mtime < s.ctime) => b = c

\* A session is at most one revision: the range undo_stack_revision_range
\* returns has no negative end, and revision never falls below it.
RevisionRange == Len(undo_stack) <= revision

\* What commit leaves around is one cell of each list at most
\* (undo_multi_index.hpp:536), however often sessions are committed in part.
BoundedLeftover ==
    LET unowned(list, end) ==
            IF undo_stack = << >> THEN list ELSE From(list, end)
    IN  /\ \A b, c \in unowned(old_values, undo_stack[1].old_values_end) : b = c
        /\ \A m, n \in unowned(removed_values, undo_stack[1].removed_values_end) :
              m = n

\* A list that is not empty has a first cell.
HasHead(list) == list = {} \/ \E h \in list : \A c \in list : c.pos <= h.pos

\* The inductive invariant of UndoIndexProofs: each part keeps the others true.
\* Squash, undo and commit cut the lists at the ends of sessions, which keeps
\* the cells the other ends point to because the sessions nest; and a key that
\* undo gives back to emplace is one that no node has left.
Structure ==
    /\ TypeOK
    /\ HasHead(old_values) /\ HasHead(removed_values)
    /\ RevisionRange
    /\ EndsAreLive
    /\ SessionsNest
    /\ KeysBelowNextId
    /\ OneNodePerKey
=============================================================================
