------------------------------- MODULE MCArchive -------------------------------
(***************************************************************************)
(* Values of the constants of Archive for TLC.                             *)
(***************************************************************************)
EXTENDS Archive

\* A number of two bytes that differs from its swapped one, negative ones, a
\* truth, strings that are empty, and longer than a chunk.
MCItems ==
    [type : {"unsigned"}, width : {2}, value : {1}]
        \cup [type : {"signed"}, width : {2}, value : {-1, -2}]
        \cup [type : {"bool"}, width : {1}, value : {TRUE}]
        \cup [type : {"string"}, width : {1}, value : { << >>, <<1, 0, 1>> }]
=============================================================================
