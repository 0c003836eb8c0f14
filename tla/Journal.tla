------------------------------- MODULE Journal -------------------------------
(***************************************************************************)
(* The file of a detail::journal (include/chainbase/detail/journal.hpp,    *)
(* src/journal.cpp): how entries are laid out, overwritten and read back.  *)
(*                                                                         *)
(* The file is a sequence of cells.  An entry without an object (a header  *)
(* and a number) takes one, an entry with an object two: itself and its    *)
(* Rest.  An entry whose header has not been updated with the size and the *)
(* checksum of its payload is not sealed.  Writing never truncates: what   *)
(* an entry does not cover stays behind it.                                *)
(***************************************************************************)
EXTENDS UndoTable

CONSTANTS
    Vals,       \* what the object of an entry holds beside its key
    NoVal       \* the object of an entry that has none

ASSUME NoValAssumption == NoVal \notin Vals

ObjectOps  == {"insert", "modify"}
SessionOps == {"start_undo", "commit", "undo", "undo_all", "revision"}
Ops        == ObjectOps \cup {"remove"} \cup SessionOps

\* An entry carries a key, an object or a revision, whichever its op needs.
Entry(op, id, val, rev) ==
    [op |-> op, id |-> id, val |-> val, rev |-> rev, sealed |-> FALSE]
RowEntry(op, id, val) == Entry(op, id, val, 0)
SessionEntry(op, rev) == Entry(op, 0, NoVal, rev)

Rest == [op |-> "rest", id |-> 0, val |-> NoVal, rev |-> 0, sealed |-> FALSE]

Cells(e) == IF e.op \in ObjectOps THEN <<e, Rest>> ELSE <<e>>
Size(e)  == Len(Cells(e))

Sealed(e) == [e EXCEPT !.sealed = TRUE]

\* What is at a position and behind it stays, but for the cells written.
Overwrite(file, at, cells) ==
    SubSeq(file, 1, at - 1) \o cells \o SubSeq(file, at + Len(cells), Len(file))

\* An undo entry may take the place of the last entry: a session that is
\* committed at once, and a revision that is set again or followed by a session.
CanCompressAnything(last, next) ==                          \* a mutant
    last \in SessionOps /\ next \in SessionOps
CanCompress(last, next) ==
    \/ last = "start_undo" /\ next = "commit"
    \/ last = "revision" /\ next \in {"start_undo", "revision"}

\* The type of the entry that is written for op.
RawOp(last, op) == op                                       \* a mutant
CompressedOp(last, op) ==
    IF CanCompress(last, op) /\ op # "start_undo" THEN "revision" ELSE op

-----------------------------------------------------------------------------
(* Recovery. *)

\* One entry applied to the container: what it becomes, and whether the entry
\* was accepted.  An entry that is refused may have had its effect already.
Applied(t, e) ==
    LET accept(u)    == [table |-> u, ok |-> TRUE]
        expect(u)    == [table |-> u, ok |-> u.revision = e.rev]
        refuse       == [table |-> t, ok |-> FALSE]
        caughtUp     == IF t.revision < e.rev - 1
                        THEN WithRevision(t, e.rev - 1) ELSE t
    IN  CASE e.op = "insert" ->
                IF e.id >= t.next_id THEN accept(Emplaced(t, e.id, e.val))
                ELSE refuse
          [] e.op = "modify" ->
                IF e.id \in DOMAIN t.rows THEN accept(Modified(t, e.id, e.val))
                ELSE refuse
          [] e.op = "remove" ->
                IF e.id \in DOMAIN t.rows THEN accept(Removed(t, e.id))
                ELSE refuse
          [] e.op = "start_undo" ->
                IF t.revision < e.rev - 1 /\ ~ MaySetRevision(t, e.rev - 1)
                THEN refuse
                ELSE expect(SessionStarted(caughtUp))
          [] e.op = "commit"   -> expect(Committed(t, e.rev))
          [] e.op = "undo"     -> expect(Undone(t))
          [] e.op = "undo_all" -> expect(AllUndone(t))
          [] e.op = "revision" ->
                IF MaySetRevision(t, e.rev) THEN accept(WithRevision(t, e.rev))
                ELSE refuse

\* One turn of the loop of journal::open.  An entry is applied before its size
\* and checksum are looked at, which happens when the next header is read: one
\* that is not sealed ends the recovery, which will write over it.  What stands
\* where a header should be, and is none, is junk.
SkipsUnsealed(scan, e) ==                                   \* a mutant
    IF e.sealed THEN [scan EXCEPT !.table = Applied(scan.table, e).table,
                                  !.pos = scan.pos + Size(e)]
    ELSE [scan EXCEPT !.status = "torn"]
Scanned(scan, e) ==
    LET result == Applied(scan.table, e)
    IN  CASE e.op = "rest" -> [scan EXCEPT !.status = "junk"]
          [] e.op # "rest" /\ ~ result.ok ->
                [scan EXCEPT !.table = result.table, !.status = "refused"]
          [] e.op # "rest" /\ result.ok /\ ~ e.sealed ->
                [scan EXCEPT !.table = result.table, !.status = "torn"]
          [] OTHER ->
                [scan EXCEPT !.table = result.table, !.pos = scan.pos + Size(e)]

\* The recovery of a container from the file: its contents in the end, where
\* the loop ended and why.
Replay(file, table) ==
    LET scan[n \in 0 .. Len(file)] ==
            IF n = 0 THEN [table |-> table, pos |-> 1, status |-> "reading"]
            ELSE LET before == scan[n - 1]
                 IN  IF before.status = "reading" /\ before.pos <= Len(file)
                     THEN Scanned(before, file[before.pos])
                     ELSE before
        last == scan[Len(file)]
    IN  IF last.status = "reading" THEN [last EXCEPT !.status = "end"] ELSE last
=============================================================================
