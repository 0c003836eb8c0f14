------------------------------ MODULE MultiIndex ------------------------------
(***************************************************************************)
(* chainbase::basic_multi_index (include/chainbase/multi_index.hpp): one   *)
(* ordered tree per index over the same nodes, kept in step by hand when a *)
(* row is inserted, modified in place or removed; and the batch in which   *)
(* undo of basic_undo_multi_index writes a session's rows back.            *)
(*                                                                         *)
(* A tree is the sequence of its nodes in order.  A node is named by its   *)
(* primary key.  Index 0 is by primary key, the others by a key of the     *)
(* value.  All are unique (is_valid_index, detail/multi_index.hpp).        *)
(*                                                                         *)
(* Of the undo index only one session is kept, as what undo will find:     *)
(* backups of modified rows and removed nodes, and which rows are stamped  *)
(* as written in the session.  UndoIndex has the rest.  As there, the      *)
(* model takes no step where undo would follow a pointer to a freed node.  *)
(***************************************************************************)
EXTENDS Integers, Sequences

Seqs == INSTANCE SequencesExt
Sets == INSTANCE FiniteSetsExt

CONSTANTS
    Secondary,  \* how many indices there are beside the primary one
    Vals,       \* the values of rows, by their keys in the secondary indices
    MaxId,      \* the largest primary key (bounds the model)
    RiskyUndo   \* do callers undo sessions whose start cannot be had back?

ASSUME MultiIndexAssumption ==
    /\ Secondary \in Nat
    /\ Vals \subseteq [1 .. Secondary -> Int]
    /\ MaxId \in Nat
    /\ RiskyUndo \in BOOLEAN

Ids     == 0 .. MaxId
Indices == 0 .. Secondary

VARIABLES
    trees,      \* _indices
    vals,       \* the value in each node that is in the trees
    next_id,    \* _next_id
    session,    \* the open session: [open, vals, next_id] at its start
    backups,    \* values of rows that were modified in the session
    removed,    \* the nodes of rows that were removed in the session
    stamped,    \* nodes whose mtime is not below the session's ctime
    stage,      \* "idle", or the part of undo that is under way
    result,     \* what the last call came to: "done", "threw"
    asserts,    \* history: every assert of multi_index.hpp held
    risked      \* history: a call of the session has lost a row of its start

vars == <<trees, vals, next_id, session, backups, removed, stamped, stage, result,
          asserts, risked>>

None      == [id \in {} |-> 0]
NoSession == [open |-> FALSE, vals |-> None, next_id |-> 0]

-----------------------------------------------------------------------------
(* The trees.  `held` gives the value in every node of the tree. *)

Key(i, held, id) == IF i = 0 THEN id ELSE held[id][i]

Less(i, held, id, other) == Key(i, held, id) < Key(i, held, other)

Place(tree, id) == CHOOSE n \in 1 .. Len(tree) : tree[n] = id

\* Where the tree's search puts id: in front of the first node that is not
\* less, or in front of the first one that is greater; at the end if there is none.
LowerBound(i, held, tree, id) ==
    Sets!Min({Len(tree) + 1}
             \cup {n \in 1 .. Len(tree) : ~ Less(i, held, tree[n], id)})
UpperBound(i, held, tree, id) ==
    Sets!Min({Len(tree) + 1}
             \cup {n \in 1 .. Len(tree) : Less(i, held, id, tree[n])})

Taken(i, held, tree, id) ==
    \E n \in 1 .. Len(tree) : Key(i, held, tree[n]) = Key(i, held, id)

\* insert_unique
Inserted(i, held, tree, id) ==
    Seqs!InsertAt(tree, LowerBound(i, held, tree, id), id)

\* insert_impl: a tree that refuses the node has it taken out of the others.
InsertLeavesRest(from, old, held, id) ==                    \* a mutant
    LET fits(i) == ~ Taken(i, held, old[i], id)
    IN  [ok    |-> \A i \in from .. Secondary : fits(i),
         trees |-> [i \in Indices |->
                      IF i >= from /\ \A j \in from .. i : fits(j)
                      THEN Inserted(i, held, old[i], id) ELSE old[i]]]
InsertImpl(from, old, held, id) ==
    LET ok == \A i \in from .. Secondary : ~ Taken(i, held, old[i], id)
    IN  [ok    |-> ok,
         trees |-> [i \in Indices |->
                      IF ok /\ i >= from THEN Inserted(i, held, old[i], id)
                      ELSE old[i]]]

\* A node whose value was written is out of order between its neighbours.
OutOfOrderLeft(i, held, tree, id) ==                        \* a mutant
    LET at == Place(tree, id)
    IN  at > 1 /\ ~ Less(i, held, tree[at - 1], id)
OutOfOrder(i, held, tree, id) ==
    LET at == Place(tree, id)
    IN  \/ at > 1 /\ ~ Less(i, held, tree[at - 1], id)
        \/ at < Len(tree) /\ ~ Less(i, held, id, tree[at + 1])

\* post_modify_impl in one tree: a node that finds its key taken is put in
\* front of the one that has it, so that it is in the tree in any case.
Refiled(unique, i, held, tree, id) ==
    LET rest  == Seqs!RemoveAt(tree, Place(tree, id))
        taken == Taken(i, held, rest, id)
    IN  CASE ~ OutOfOrder(i, held, tree, id) -> [ok |-> TRUE, tree |-> tree]
          [] OutOfOrder(i, held, tree, id) /\ unique ->
                [ok |-> ~ taken, tree |-> Inserted(i, held, rest, id)]
          [] OTHER ->
                [ok   |-> TRUE,
                 tree |-> Seqs!InsertAt(rest, UpperBound(i, held, rest, id), id)]

\* post_modify_impl: the trees behind the first that refuses are not looked at.
PostModify(unique, old, held, id) ==
    LET filed(i) == Refiled(unique, i, held, old[i], id)
        first(i) == \A j \in 1 .. i - 1 : filed(j).ok
    IN  [ok    |-> \A i \in 1 .. Secondary : filed(i).ok,
         trees |-> [i \in Indices |->
                      IF i > 0 /\ first(i) THEN filed(i).tree ELSE old[i]]]

\* erase_impl
Erased(old, id) ==
    [i \in Indices |-> Seqs!RemoveAt(old[i], Place(old[i], id))]

With(held, id, v) ==
    [k \in DOMAIN held \cup {id} |-> IF k = id THEN v ELSE held[k]]
Without(held, id) == [k \in DOMAIN held \ {id} |-> held[k]]

-----------------------------------------------------------------------------
(* Operations. *)

Init ==
    /\ trees = [i \in Indices |-> << >>]
    /\ vals = None
    /\ next_id = 0
    /\ session = NoSession
    /\ backups = None
    /\ removed = None
    /\ stamped = {}
    /\ stage = "idle"
    /\ result = "done"
    /\ asserts = TRUE
    /\ risked = FALSE

\* _next_id after a row with key id
IdBeyond(id) == id + 2                                      \* a mutant
IdAfter(id)  == id + 1

\* emplace: the secondary trees first, then the end of the primary one.
Emplace(id, v) ==
    LET held == With(vals, id, v)
        try  == InsertImpl(1, trees, held, id)
    IN  /\ stage = "idle"
        /\ id >= next_id
        /\ \/ /\ try.ok
              /\ trees' = [try.trees EXCEPT ![0] = Append(try.trees[0], id)]
              /\ vals' = held
              /\ next_id' = IdAfter(id)
              /\ stamped' = IF session.open THEN stamped \cup {id} ELSE stamped
              /\ result' = "done"
           \/ /\ ~ try.ok
              /\ trees' = try.trees
              /\ result' = "threw"
              /\ UNCHANGED <<vals, next_id, stamped>>
        /\ UNCHANGED <<session, backups, removed, stage, asserts, risked>>

\* on_modify takes a backup, and so modify can be reverted: the row was not
\* written in this session.  A modify that was reverted counts as a write.
NeedsBackup(id)  == session.open /\ id \notin stamped

\* on_remove keeps the node: the row is older than the session.
KeepsRemoved(id) == session.open /\ id < session.next_id

\* The row of the session's start was reverted and has no backup: if it is
\* written now its value is lost.
WasReverted(id) ==
    KeepsRemoved(id) /\ ~ NeedsBackup(id) /\ id \notin DOMAIN backups

\* modify_with_revert when the new value fits every index
ModifyFits(id, v) ==
    LET held == [vals EXCEPT ![id] = v]
        post == PostModify(TRUE, trees, held, id)
    IN  /\ stage = "idle"
        /\ id \in DOMAIN vals
        /\ post.ok
        /\ trees' = post.trees
        /\ vals' = held
        /\ \/ /\ NeedsBackup(id)
              /\ backups' = With(backups, id, vals[id])
              /\ stamped' = stamped \cup {id}
           \/ /\ ~ NeedsBackup(id)
              /\ UNCHANGED <<backups, stamped>>
        /\ risked' = (risked \/ WasReverted(id))
        /\ result' = "done"
        /\ UNCHANGED <<next_id, session, removed, stage, asserts>>

\* ... when it does not and on_modify took a backup: the old value is moved back,
\* the backup popped and the node filed once more.  The stamp stays.
RefiledLazily(id, post) == [ok |-> TRUE, trees |-> post.trees]  \* a mutant
RefiledBack(id, post)   == PostModify(TRUE, post.trees, vals, id)

ModifyReverts(id, v) ==
    LET post == PostModify(TRUE, trees, [vals EXCEPT ![id] = v], id)
        back == RefiledBack(id, post)
    IN  /\ stage = "idle"
        /\ id \in DOMAIN vals
        /\ ~ post.ok
        /\ NeedsBackup(id)
        /\ trees' = back.trees
        /\ stamped' = stamped \cup {id}
        /\ asserts' = (asserts /\ back.ok)
        /\ result' = "threw"
        /\ UNCHANGED <<vals, next_id, session, backups, removed, stage, risked>>

\* ... when it does not and there is none: the row is erased and its node freed,
\* one of the session's start too, without on_remove.
ModifyErases(id, v) ==
    LET post == PostModify(TRUE, trees, [vals EXCEPT ![id] = v], id)
    IN  /\ stage = "idle"
        /\ id \in DOMAIN vals
        /\ ~ post.ok
        /\ ~ NeedsBackup(id)
        /\ trees' = Erased(post.trees, id)
        /\ vals' = Without(vals, id)
        /\ risked' = (risked \/ KeepsRemoved(id))
        /\ result' = "threw"
        /\ UNCHANGED <<next_id, session, backups, removed, stamped, stage, asserts>>

Remove(id) ==
    /\ stage = "idle"
    /\ id \in DOMAIN vals
    /\ trees' = Erased(trees, id)
    /\ vals' = Without(vals, id)
    /\ removed' = IF KeepsRemoved(id) THEN With(removed, id, vals[id]) ELSE removed
    /\ result' = "done"
    /\ UNCHANGED <<next_id, session, backups, stamped, stage, asserts, risked>>

\* No session is open, and nothing is kept for undo.
NoUndo ==
    /\ session' = NoSession
    /\ backups' = None
    /\ removed' = None
    /\ stamped' = {}
    /\ risked' = FALSE

\* The copy constructor goes through the primary tree and inserts every node
\* into the others; sessions are not copied.
Copied(i) ==
    LET copied[n \in 0 .. Len(trees[0])] ==
            IF n = 0 THEN << >>
            ELSE Inserted(i, vals, copied[n - 1], trees[0][n])
    IN  copied[Len(trees[0])]

Copy ==
    /\ stage = "idle"
    /\ trees' = [i \in Indices |-> IF i = 0 THEN trees[0] ELSE Copied(i)]
    /\ NoUndo
    /\ result' = "done"
    /\ UNCHANGED <<vals, next_id, stage, asserts>>

-----------------------------------------------------------------------------
(* A session and its undo. *)

StartUndo ==
    /\ stage = "idle"
    /\ ~ session.open
    /\ session' = [open |-> TRUE, vals |-> vals, next_id |-> next_id]
    /\ result' = "done"
    /\ UNCHANGED <<trees, vals, next_id, backups, removed, stamped, stage, asserts,
                   risked>>

\* commit of the session
Commit ==
    /\ stage = "idle"
    /\ session.open
    /\ NoUndo
    /\ result' = "done"
    /\ UNCHANGED <<trees, vals, next_id, stage, asserts>>

\* erase_new_ids: the end of the primary tree, each node out of the others too
KeepsNewId(id) == id <= session.next_id                     \* a mutant
KeepsId(id)    == id < session.next_id

\* The callers' discipline while RiskyUndo is FALSE: they do not undo, but commit,
\* a session in which they wrote a row again whose modify was reverted, or in which
\* a conflict erased a row that is older.  Every backup has a node to write to.
MayUndo ==
    /\ risked => RiskyUndo
    /\ DOMAIN backups \subseteq DOMAIN vals \cup DOMAIN removed

BeginUndo ==
    /\ stage = "idle"
    /\ session.open
    /\ MayUndo
    /\ stage' = "erasing"
    /\ result' = "done"
    /\ UNCHANGED <<trees, vals, next_id, session, backups, removed, stamped, asserts,
                   risked>>

EraseNew(id) ==
    /\ stage = "erasing"
    /\ id \in DOMAIN vals
    /\ ~ KeepsId(id)
    /\ \A other \in DOMAIN vals : other < id => KeepsId(other)
    /\ trees' = Erased(trees, id)
    /\ vals' = Without(vals, id)
    /\ UNCHANGED <<next_id, session, backups, removed, stamped, stage, result, asserts,
                   risked>>

AllErased ==
    /\ stage = "erasing"
    /\ \A id \in DOMAIN vals : KeepsId(id)
    /\ stage' = "restoring"
    /\ UNCHANGED <<trees, vals, next_id, session, backups, removed, stamped, result,
                   asserts, risked>>

\* One backup is written back.  Its key may still be held by a row that has not
\* had its turn.
AlwaysUnique         == TRUE                                \* a mutant
UniqueWhileRestoring == FALSE

Restore(id) ==
    LET held == [vals EXCEPT ![id] = backups[id]]
        post == PostModify(UniqueWhileRestoring, trees, held, id)
    IN  /\ stage = "restoring"
        /\ id \in DOMAIN backups
        /\ backups' = Without(backups, id)
        /\ \/ /\ id \in DOMAIN vals
              /\ vals' = held
              /\ trees' = post.trees
              /\ asserts' = (asserts /\ post.ok)
              /\ UNCHANGED removed
           \/ /\ id \in DOMAIN removed
              /\ removed' = [removed EXCEPT ![id] = backups[id]]
              /\ UNCHANGED <<vals, trees, asserts>>
        /\ UNCHANGED <<next_id, session, stamped, stage, result, risked>>

AllRestored ==
    /\ stage = "restoring"
    /\ DOMAIN backups = {}
    /\ stage' = "inserting"
    /\ UNCHANGED <<trees, vals, next_id, session, backups, removed, stamped, result,
                   asserts, risked>>

\* One removed node is inserted into every tree; if one refuses it, it is in none.
Reinsert(id) ==
    LET held == With(vals, id, removed[id])
        try  == InsertImpl(0, trees, held, id)
    IN  /\ stage = "inserting"
        /\ id \in DOMAIN removed
        /\ removed' = Without(removed, id)
        /\ trees' = try.trees
        /\ vals' = IF try.ok THEN held ELSE vals
        /\ asserts' = (asserts /\ try.ok)
        /\ UNCHANGED <<next_id, session, backups, stamped, stage, result, risked>>

EndUndo ==
    /\ stage = "inserting"
    /\ DOMAIN removed = {}
    /\ next_id' = session.next_id
    /\ NoUndo
    /\ stage' = "idle"
    /\ UNCHANGED <<trees, vals, result, asserts>>

Next ==
    \/ \E id \in Ids, v \in Vals :
          \/ Emplace(id, v)
          \/ ModifyFits(id, v)
          \/ ModifyReverts(id, v)
          \/ ModifyErases(id, v)
    \/ \E id \in Ids :
          Remove(id) \/ EraseNew(id) \/ Restore(id) \/ Reinsert(id)
    \/ Copy
    \/ StartUndo
    \/ Commit
    \/ BeginUndo
    \/ AllErased
    \/ AllRestored
    \/ EndUndo

Spec == Init /\ [][Next]_vars

-----------------------------------------------------------------------------
(* Properties. *)

TypeOK ==
    /\ DOMAIN trees = Indices
    /\ DOMAIN vals \subseteq Ids /\ \A id \in DOMAIN vals : vals[id] \in Vals
    /\ next_id \in 0 .. MaxId + 1
    /\ session.open \in BOOLEAN /\ session.next_id \in 0 .. MaxId + 1
    /\ DOMAIN backups \subseteq Ids /\ DOMAIN removed \subseteq Ids /\ stamped \subseteq Ids
    /\ stage \in {"idle", "erasing", "restoring", "inserting"}
    /\ result \in {"done", "threw"}
    /\ asserts \in BOOLEAN /\ risked \in BOOLEAN

\* Every tree holds the rows that the others hold, in the strict order of its
\* keys, between any two calls: whatever was inserted, refused, re-filed, moved
\* back or erased, each index finds every row and nothing else.  This and what
\* follows is of callers that do not undo a session that has lost a row of its
\* start (RiskyUndo is FALSE); any modify, and the commit of such a session, is in.
TreesAgree ==
    stage = "idle" =>
        \A i \in Indices :
           /\ \A n \in 1 .. Len(trees[i]) - 1 :
                 Less(i, vals, trees[i][n], trees[i][n + 1])
           /\ Len(trees[i]) = Len(trees[0])
           /\ Seqs!ToSet(trees[i]) = DOMAIN vals

\* In the middle of an undo rows may share keys ("Non-unique items are
\* transient", undo_multi_index.hpp:325), but every tree is in order, as the
\* search in it needs, and holds exactly the rows.
TransientOrder ==
    \A i \in Indices :
       /\ \A n \in 1 .. Len(trees[i]) - 1 :
             ~ Less(i, vals, trees[i][n + 1], trees[i][n])
       /\ Len(trees[i]) = Len(trees[0])
       /\ Seqs!ToSet(trees[i]) = DOMAIN vals

\* post_modify_must_succeed, insert_must_succeed and
\* post_modify_transient_must_succeed (multi_index.hpp:245, 276, 282).  With
\* RiskyUndo the second of them fails.
AssertsHold == asserts

\* What the undo has done when it is through: the rows of the session's start, if
\* no row was written again after its modify was reverted, and none that is older
\* than the session was erased by a conflict.
UndoRestores ==
    [][stage = "inserting" /\ stage' = "idle"
          => vals' = session.vals /\ next_id' = session.next_id]_vars

\* An emplace that is refused has changed nothing ("Exception safety: strong",
\* multi_index.hpp:128), and a modify that is refused either nothing or the row of the
\* call, which is gone.  (After a modifier's own exception the row is as it left it.)
ThrowsLeaveOthers ==
    [][result' = "threw" =>
          /\ next_id' = next_id
          /\ \A id \in DOMAIN vals' : id \in DOMAIN vals /\ vals'[id] = vals[id]
          /\ DOMAIN vals' = DOMAIN vals => trees' = trees]_vars
=============================================================================
