------------------------- MODULE UndoIndexRefinement -------------------------
(***************************************************************************)
(* UndoIndex implements UndoSpec: the two lists hold what is needed to     *)
(* compute the table as it was at the start of every open session.         *)
(***************************************************************************)
EXTENDS UndoIndex

\* What a session s compares: the rows, wherever their nodes are now.  A row of
\* its time is in the table or was removed since.
Node(id, row) == [id |-> id, val |-> row.val, mtime |-> row.mtime]

Nodes(s) ==
    {Node(id, rows[id]) : id \in DOMAIN rows}
    \cup {Node(n.id, n) : n \in Before(removed_values, s.removed_values_end)}

\* The nodes that were there when s started, and the backups it would restore.
Held(s)      == {x \in Nodes(s) : x.id < s.old_next_id}
Effective(s) == {b \in Before(old_values, s.old_values_end) : b.mtime < s.ctime}

\* The rows that undoing s and all younger sessions would leave: the value of
\* one was backed up when it was first written since, or never changed.
Restored(held, backups) ==
    [id \in {x.id : x \in held} |->
        IF \E b \in backups : b.id = id
        THEN Oldest({b \in backups : b.id = id}).val
        ELSE (CHOOSE x \in held : x.id = id).val]

SavedTable(s) == Restored(Held(s), Effective(s))

Saved == [i \in 1 .. Len(undo_stack) |->
            [table |-> SavedTable(undo_stack[i]),
             next_id |-> undo_stack[i].old_next_id]]

Table == [id \in DOMAIN rows |-> rows[id].val]

Promise == INSTANCE UndoSpec WITH table <- Table, saved <- Saved

\* Every step of the lists' bookkeeping is one the users were promised: undo
\* brings back the table as it was at the start of the session, squash merges
\* the two top sessions, commit makes the oldest permanent, and writing rows,
\* compressing a session or failing to modify disturbs none of the snapshots
\* that open sessions hold.
ImplementsPromise == Promise!Spec

-----------------------------------------------------------------------------
(* What makes it so, as UndoIndexProofs shows. *)

\* Rows and backups are stamped with revisions that have been.
Stamped ==
    /\ \A id \in DOMAIN rows : rows[id].mtime <= monotonic_revision
    /\ \A c \in old_values \cup removed_values : c.mtime <= monotonic_revision

\* The stamp of a row tells whether session s has a backup of it, and a backup
\* that s does not use comes after one that it does.
Faithful(s) ==
    /\ \A x, y \in Held(s) : x.id = y.id => x = y
    /\ \A b, c \in Effective(s) : b.id = c.id => b = c
    /\ \A b \in Effective(s) : \E x \in Held(s) : x.id = b.id /\ x.mtime >= s.ctime
    /\ \A x \in Held(s) :
          x.mtime >= s.ctime =>
             x.id \in reverted \/ \E b \in Effective(s) : b.id = x.id
    /\ \A b \in Before(old_values, s.old_values_end) :
          b.mtime >= s.ctime /\ b.id < s.old_next_id =>
             \E c \in Effective(s) : c.id = b.id /\ c.pos < b.pos
    /\ \A x \in Nodes(s) : x.id >= s.old_next_id => x.mtime >= s.ctime

Faithfuls == Stamped /\ \A i \in 1 .. Len(undo_stack) : Faithful(undo_stack[i])
=============================================================================
