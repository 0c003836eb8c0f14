----------------------------- MODULE MCUndoIndex -----------------------------
(***************************************************************************)
(* Values of the constants of UndoIndex for TLC.                           *)
(***************************************************************************)
EXTENDS UndoIndexRefinement, FiniteSets, TLC

CONSTANTS a, b, c

\* Three values, and no two rows may hold the same one.  They are
\* interchangeable.
MCVals == {a, b, c}
MCClash == {<<v, v>> : v \in MCVals}
Symmetry == Permutations(MCVals)

\* Bounds of undo_index: set_revision does not run ahead of the sessions that
\* were started, only what undo has taken back can be set again; a modify is
\* reverted in one of the first two sessions; the lists have MaxListed cells.
MaxListed == 5
Bounded ==
    /\ undo_stack = << >> => revision <= monotonic_revision
    /\ reverted # {} => monotonic_revision <= 2
    /\ Cardinality(old_values) + Cardinality(removed_values) <= MaxListed
=============================================================================
