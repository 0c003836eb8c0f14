----------------------------- MODULE MCJournaled -----------------------------
(***************************************************************************)
(* Values of the constants of Journaled for TLC.                           *)
(***************************************************************************)
EXTENDS Journaled, TLC

CONSTANTS a, b

\* Two objects that differ, interchangeable.
MCVals == {a, b}
Symmetry == Permutations(MCVals)

\* Bounds of the run with all careless uses.  Before one, a second loss of the
\* container adds nothing: the recovery from the first has led to a state that
\* the calls alone lead to.  After one, files of two cells have room for an
\* entry that is cut short by the next.
Bounded == IF strayed THEN Len(file) <= 2 ELSE losses <= 1
=============================================================================
