----------------------------- MODULE MCMultiIndex -----------------------------
(***************************************************************************)
(* Values of the constants of MultiIndex for TLC.                          *)
(***************************************************************************)
EXTENDS MultiIndex

\* Values that meet in the first index, in the second, in both or in none, and
\* lie on either side of each other in the two.
MCVals == {<<1, 1>>, <<1, 2>>, <<2, 1>>, <<2, 3>>, <<3, 2>>, <<3, 3>>}
=============================================================================
