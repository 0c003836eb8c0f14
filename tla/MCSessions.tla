------------------------------ MODULE MCSessions ------------------------------
(***************************************************************************)
(* Values of the constants of Sessions for TLC.                            *)
(***************************************************************************)
EXTENDS Sessions, TLC

CONSTANTS x, y, h1, h2, h3

MCIndexes == {x, y}
MCHandles == {h1, h2, h3}

\* Indexes and handles are interchangeable.
Symmetry == Permutations(MCIndexes) \cup Permutations(MCHandles)

\* What a session closed behind its handle leads to is not looked at.
Bounded == ~ Lost
=============================================================================
