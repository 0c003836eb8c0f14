-------------------------------- MODULE MCNamed --------------------------------
(***************************************************************************)
(* Values of the constants of Named for TLC.                               *)
(***************************************************************************)
EXTENDS Named, FiniteSets, TLC

CONSTANTS book, grown, plain, left, book_plain, book_left, a, p, q

\* A type, the same type of a later build in which it has grown, and a suffix.
MCTypes    == {book, grown}
MCSuffixes == {plain, left}
MCNames    == {book_plain, book_left}
MCObjects  == {p, q}
MCVals     == {a}
MCNameOf   == [ts \in MCTypes \X MCSuffixes |->
                  IF ts[2] = plain THEN book_plain ELSE book_left]
MCSizeOf   == (book :> 1) @@ (grown :> 2)

Symmetry == Permutations(MCObjects)

\* What the parts do not share they are not combined in: the singleton is looked
\* at in a database without containers, the grown type under one name, and a
\* journal that went wrong beside one that did not, until the file is lost.
Bounded ==
    /\ slot # RawSlot => Present = {} /\ (\A n \in Names : files[n] = << >>)
    /\ \A n \in Present : segment[n].type = grown => n = book_left
    /\ Len(files[book_plain]) + Len(files[book_left]) <= IF strayed = {} THEN 3 ELSE 1
    /\ strayed # {} => losses = 1 /\ Cardinality(strayed) = 1
    /\ \A n \in strayed \cap Present : segment[n].table.saved = << >>
=============================================================================
