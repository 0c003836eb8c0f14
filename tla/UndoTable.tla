------------------------------ MODULE UndoTable ------------------------------
(***************************************************************************)
(* An undo_multi_index by its contents: the table, the snapshots that its  *)
(* sessions would bring back, and its revision, with the operations as     *)
(* functions from contents to contents.  UndoIndex shows how the code      *)
(* keeps these contents (UndoIndexRefinement); the journal's modules       *)
(* compare them with what a replay of the journal gives.                   *)
(***************************************************************************)
EXTENDS Integers, Sequences

EmptyTable ==
    [rows |-> [id \in {} |-> 0], next_id |-> 0, saved |-> << >>, revision |-> 0]

Emplaced(t, id, v) ==
    [t EXCEPT !.rows = [k \in DOMAIN t.rows \cup {id} |->
                          IF k = id THEN v ELSE t.rows[k]],
              !.next_id = id + 1]

Modified(t, id, v) == [t EXCEPT !.rows[id] = v]

Removed(t, id) == [t EXCEPT !.rows = [k \in DOMAIN t.rows \ {id} |-> t.rows[k]]]

SessionStarted(t) ==
    [t EXCEPT !.saved = Append(t.saved, [rows |-> t.rows, next_id |-> t.next_id]),
              !.revision = t.revision + 1]

MaySetRevision(t, r) == t.saved = << >> /\ r >= t.revision

WithRevision(t, r) == [t EXCEPT !.revision = r]

\* The sessions above revision r stay if they are a part of the stack.
Committed(t, r) ==
    LET behind == t.revision - r
    IN  CASE behind <= 0 -> [t EXCEPT !.saved = << >>]
          [] behind > 0 /\ behind < Len(t.saved) ->
                [t EXCEPT !.saved = SubSeq(t.saved, Len(t.saved) - behind + 1,
                                           Len(t.saved))]
          [] OTHER -> t

\* The contents as they were before session k was started.
BeforeSession(t, k) ==
    [rows |-> t.saved[k].rows, next_id |-> t.saved[k].next_id,
     saved |-> SubSeq(t.saved, 1, k - 1),
     revision |-> t.revision - (Len(t.saved) - k + 1)]

UndoneKeepsSession(t) ==                                    \* a mutant
    IF t.saved = << >> THEN t
    ELSE [BeforeSession(t, Len(t.saved)) EXCEPT !.saved = t.saved]
Undone(t) == IF t.saved = << >> THEN t ELSE BeforeSession(t, Len(t.saved))

AllUndone(t) == IF t.saved = << >> THEN t ELSE BeforeSession(t, 1)

SquashedOlder(t) ==                                         \* a mutant
    IF t.saved = << >> THEN t
    ELSE [t EXCEPT !.saved = IF Len(@) = 1 THEN << >>
                             ELSE Append(SubSeq(@, 1, Len(@) - 2), @[Len(@)]),
                   !.revision = t.revision - 1]
Squashed(t) ==
    IF t.saved = << >> THEN t
    ELSE [t EXCEPT !.saved = SubSeq(t.saved, 1, Len(t.saved) - 1),
                   !.revision = t.revision - 1]
=============================================================================
