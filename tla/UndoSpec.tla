------------------------------- MODULE UndoSpec -------------------------------
(***************************************************************************)
(* What an undo_multi_index promises its users, whatever lists it keeps: a *)
(* table of rows with unique keys, and a stack of sessions each of which   *)
(* holds the table as it was when the session started.  UndoIndex          *)
(* implements it (UndoIndexRefinement).                                    *)
(***************************************************************************)
EXTENDS Integers, Sequences

CONSTANTS Ids, Vals, Clash

VARIABLES
    table,      \* primary key -> value
    next_id,    \* keys below it have been given out
    saved,      \* one [table, next_id] per session, the oldest first
    revision

vars == <<table, next_id, saved, revision>>

Conflict(id, v) ==
    \E other \in DOMAIN table \ {id} : <<v, table[other]>> \in Clash

Init ==
    /\ table = [id \in {} |-> 0]
    /\ next_id = 0
    /\ saved = << >>
    /\ revision = 0

Emplace(id, v) ==
    /\ UNCHANGED revision
    /\ id >= next_id
    /\ next_id' = id + 1
    /\ ~ Conflict(id, v)
    /\ table' = [k \in DOMAIN table \cup {id} |-> IF k = id THEN v ELSE table[k]]
    /\ UNCHANGED saved

Modify(id, v) ==
    /\ UNCHANGED <<revision, next_id>>
    /\ id \in DOMAIN table
    /\ table' = [table EXCEPT ![id] = v]
    /\ ~ Conflict(id, v)
    /\ UNCHANGED saved

\* Called for, or the fate of a new row that a modifier leaves in conflict.
Erase(id) ==
    /\ UNCHANGED <<revision, next_id>>
    /\ id \in DOMAIN table
    /\ table' = [k \in DOMAIN table \ {id} |-> table[k]]
    /\ UNCHANGED saved

StartUndo ==
    /\ revision' = revision + 1
    /\ UNCHANGED <<next_id, table>>
    /\ saved' = Append(saved, [table |-> table, next_id |-> next_id])

Undo ==
    /\ revision' = revision - 1
    /\ saved # << >>
    /\ next_id' = saved[Len(saved)].next_id
    /\ table' = saved[Len(saved)].table
    /\ saved' = SubSeq(saved, 1, Len(saved) - 1)

Squash ==
    /\ revision' = revision - 1
    /\ UNCHANGED <<next_id, table>>
    /\ saved # << >>
    /\ saved' = SubSeq(saved, 1, Len(saved) - 1)

\* The sessions up to some revision become permanent.
Commit ==
    /\ UNCHANGED <<revision, next_id, table>>
    /\ \E k \in 1 .. Len(saved) + 1 : saved' = SubSeq(saved, k, Len(saved))

SetRevision ==
    /\ UNCHANGED <<next_id, table>>
    /\ saved = << >>
    /\ saved' = << >>
    /\ revision' >= revision

Next ==
    \/ StartUndo
    \/ Undo
    \/ Squash
    \/ Commit
    \/ SetRevision
    \/ \E id \in Ids : Erase(id)
    \/ \E id \in Ids, v \in Vals : Emplace(id, v) \/ Modify(id, v)

Spec == Init /\ [][Next]_vars
=============================================================================
