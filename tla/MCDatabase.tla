------------------------------ MODULE MCDatabase ------------------------------
(***************************************************************************)
(* Values of the constants of Database for TLC.                            *)
(***************************************************************************)
EXTENDS Database, TLC

CONSTANTS p1, p2, p3

\* Processes are interchangeable.
MCTwo == {p1, p2}
MCThree == {p1, p2, p3}
Symmetry == Permutations(MCThree)
=============================================================================
