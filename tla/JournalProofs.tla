---------------------------- MODULE JournalProofs ----------------------------
(***************************************************************************)
(* What the loop of recovery makes of a journal: a file that was written   *)
(* entry by entry is read entry by entry, and what a reader has got from   *)
(* the front of a file does not depend on what stands behind it.           *)
(***************************************************************************)
EXTENDS Journal, SequenceTheorems, WellFoundedInduction, TLAPS

-----------------------------------------------------------------------------
(* Numbers. *)

\* A set of numbers that has 0, and with each number the next, has all.
LEMMA AllNumbers ==
    ASSUME NEW S, 0 \in S, \A n \in S : n + 1 \in S
    PROVE  Nat \subseteq S
<1> DEFINE T == Nat \ S
<1> SUFFICES ASSUME T # {} PROVE FALSE
  OBVIOUS
<1>1. IsWellFoundedOn(OpToRel(<, Nat), Nat)
  BY NatLessThanWellFounded
<1>2. PICK x \in T : \A y \in T : ~ (<<y, x>> \in OpToRel(<, Nat))
  BY <1>1, WFMin
<1>3. x # 0 /\ x - 1 \in Nat /\ x - 1 < x /\ x - 1 + 1 = x
  <2>1. x \in Nat /\ x # 0
    BY <1>2
  <2> QED
    BY <2>1
<1>4. x - 1 \notin T
  <2>1. <<x - 1, x>> \in Nat \X Nat /\ <<x - 1, x>>[1] = x - 1 /\ <<x - 1, x>>[2] = x
    BY <1>2, <1>3
  <2>2. <<x - 1, x>> \in OpToRel(<, Nat)
    BY <1>3, <2>1 DEF OpToRel
  <2> QED
    BY <1>2, <2>2
<1>5. x - 1 \in S
  BY <1>3, <1>4
<1> QED
  BY <1>2, <1>3, <1>5

-----------------------------------------------------------------------------
(* The loop. *)

\* Where it starts, and one turn
Start(table) == [table |-> table, pos |-> 1, status |-> "reading"]

Turn(file, before) ==
    IF before.status = "reading" /\ before.pos <= Len(file)
    THEN Scanned(before, file[before.pos])
    ELSE before

\* The states of the loop by recursion, as that of Replay is
ScansUpTo(file, table, n, f) ==
    f = [m \in 0 .. n |-> IF m = 0 THEN Start(table) ELSE Turn(file, f[m - 1])]

\* There are such states.
LEMMA ScansExist ==
    ASSUME NEW file, NEW table, NEW n \in Nat
    PROVE  \E f : ScansUpTo(file, table, n, f)
<1> DEFINE S == {k \in Nat : \E f : ScansUpTo(file, table, k, f)}
<1>1. 0 \in S
  <2> DEFINE f == [m \in 0 .. 0 |-> Start(table)]
  <2>1. ScansUpTo(file, table, 0, f)
    BY DEF ScansUpTo
  <2> QED
    BY <2>1
<1>2. ASSUME NEW k \in S PROVE k + 1 \in S
  <2>1. k \in Nat /\ k + 1 \in Nat
    OBVIOUS
  <2>2. PICK f : ScansUpTo(file, table, k, f)
    OBVIOUS
  <2> DEFINE g == [m \in 0 .. k + 1 |->
                     IF m = k + 1 THEN Turn(file, f[k]) ELSE f[m]]
  <2>3. ASSUME NEW m \in 0 .. k + 1
        PROVE  g[m] = IF m = 0 THEN Start(table) ELSE Turn(file, g[m - 1])
    <3>1. CASE m = k + 1
      <4>1. m - 1 = k /\ k \in 0 .. k + 1 /\ k # k + 1 /\ m # 0
        BY <2>1, <3>1
      <4>2. g[m - 1] = f[k]
        BY <4>1
      <4> QED
        BY <3>1, <4>1, <4>2
    <3>2. CASE m # k + 1
      <4>1. m \in 0 .. k
        BY <2>1, <3>2
      <4>2. f[m] = IF m = 0 THEN Start(table) ELSE Turn(file, f[m - 1])
        BY <2>2, <4>1 DEF ScansUpTo
      <4>3. m # 0 => m - 1 \in 0 .. k + 1 /\ m - 1 # k + 1
        BY <2>1, <4>1
      <4>4. g[m] = f[m] /\ (m # 0 => g[m - 1] = f[m - 1])
        BY <3>2, <4>3
      <4> QED
        BY <4>2, <4>4
    <3> QED
      BY <3>1, <3>2
  <2>4. ScansUpTo(file, table, k + 1, g)
    <3>1. g = [m \in 0 .. k + 1 |-> g[m]]
      OBVIOUS
    <3> HIDE DEF g
    <3> QED
      BY <2>3, <3>1 DEF ScansUpTo
  <2> QED
    BY <2>1, <2>4
<1>3. Nat \subseteq S
  BY <1>1, <1>2, AllNumbers
<1> QED
  BY <1>3

\* What a replay gives is the last of them.
Ended(last) ==
    IF last.status = "reading" THEN [last EXCEPT !.status = "end"] ELSE last

\* Replay gives the last of the states of its loop.
LEMMA ReplayIs ==
    ASSUME NEW file, Len(file) \in Nat, NEW table
    PROVE  \E f : /\ ScansUpTo(file, table, Len(file), f)
                  /\ Replay(file, table) = Ended(f[Len(file)])
<1> DEFINE f == CHOOSE f : ScansUpTo(file, table, Len(file), f)
<1>1. ScansUpTo(file, table, Len(file), f)
  BY ScansExist
<1>2. Replay(file, table) = Ended(f[Len(file)])
  BY DEF Replay, ScansUpTo, Start, Turn, Ended
<1> QED
  BY <1>1, <1>2

\* The states one by one
LEMMA ScanSteps ==
    ASSUME NEW file, NEW table, NEW n \in Nat, NEW f, ScansUpTo(file, table, n, f)
    PROVE  /\ f[0] = Start(table)
           /\ \A k \in Nat : k + 1 <= n => f[k + 1] = Turn(file, f[k])
<1>1. f[0] = Start(table)
  BY DEF ScansUpTo
<1>2. ASSUME NEW k \in Nat, k + 1 <= n PROVE f[k + 1] = Turn(file, f[k])
  <2>1. f[k + 1] = IF k + 1 = 0 THEN Start(table) ELSE Turn(file, f[(k + 1) - 1])
    <3>1. k + 1 \in 0 .. n
      BY <1>2
    <3> QED
      BY <3>1 DEF ScansUpTo
  <2>2. k + 1 # 0 /\ (k + 1) - 1 = k
    OBVIOUS
  <2> QED
    BY <2>1, <2>2
<1> QED
  BY <1>1, <1>2

-----------------------------------------------------------------------------
(* Reading entry by entry. *)

\* The sealed entry at p takes a reader from the contents t to u and on to q.
Takes(file, p, t, q, u) ==
    LET e == file[p]
    IN  /\ p \in Nat \ {0}
        /\ e.op \in Ops
        /\ e.sealed
        /\ Applied(t, e) = [table |-> u, ok |-> TRUE]
        /\ q = p + IF e.op \in ObjectOps THEN 2 ELSE 1
        /\ e.op \in ObjectOps => file[p + 1] = Rest

\* n entries read: where the reader was and what it had
Reading(file, t, n, at, tables) ==
    /\ at[0] = 1 /\ tables[0] = t
    /\ \A k \in 0 .. n : at[k] \in Nat /\ k < at[k] /\ at[k] <= at[n]
    /\ \A k \in Nat : k < n => Takes(file, at[k], tables[k], at[k + 1], tables[k + 1])

\* A reader that starts with t gets to p and has u then.
Reads(file, t, p, u) ==
    \E n \in Nat : \E at, tables :
        Reading(file, t, n, at, tables) /\ at[n] = p /\ tables[n] = u

\* A reader starts with what it has.
LEMMA ReadsNone ==
    ASSUME NEW file, NEW t
    PROVE  Reads(file, t, 1, t)
<1> DEFINE at     == [k \in {0} |-> 1]
           tables == [k \in {0} |-> t]
<1>1. Reading(file, t, 0, at, tables)
  BY DEF Reading
<1>2. at[0] = 1 /\ tables[0] = t /\ 0 \in Nat
  OBVIOUS
<1> QED
  BY <1>1, <1>2 DEF Reads

\* Positions grow.
LEMMA TakesFurther ==
    ASSUME NEW file, NEW p, NEW t, NEW q, NEW u, Takes(file, p, t, q, u)
    PROVE  p \in Nat /\ p > 0 /\ q \in Nat /\ p < q
BY DEF Takes

\* It is always at a cell, or behind the last one.
LEMMA ReadsTo ==
    ASSUME NEW file, NEW t, NEW p, NEW u, Reads(file, t, p, u)
    PROVE  p \in Nat /\ p > 0
<1>0. PICK n \in Nat :
         \E at, tables : Reading(file, t, n, at, tables) /\ at[n] = p /\ tables[n] = u
  BY DEF Reads
<1>1. PICK at, tables : Reading(file, t, n, at, tables) /\ at[n] = p /\ tables[n] = u
  BY <1>0
<1>2. n \in 0 .. n
  OBVIOUS
<1> QED
  BY <1>1, <1>2 DEF Reading

\* One entry more
LEMMA ReadsMore ==
    ASSUME NEW file, NEW t, NEW p, NEW u, NEW q, NEW v,
           Reads(file, t, p, u), Takes(file, p, u, q, v)
    PROVE  Reads(file, t, q, v)
<1>0. PICK n \in Nat :
         \E at, tables : Reading(file, t, n, at, tables) /\ at[n] = p /\ tables[n] = u
  BY DEF Reads
<1>1. PICK at, tables : Reading(file, t, n, at, tables) /\ at[n] = p /\ tables[n] = u
  BY <1>0
<1> DEFINE at2     == [k \in 0 .. n + 1 |-> IF k = n + 1 THEN q ELSE at[k]]
           tables2 == [k \in 0 .. n + 1 |-> IF k = n + 1 THEN v ELSE tables[k]]
<1>2. p \in Nat /\ q \in Nat /\ p < q
  BY TakesFurther
<1>3. /\ at2[n + 1] = q /\ tables2[n + 1] = v
      /\ \A k \in 0 .. n : at2[k] = at[k] /\ tables2[k] = tables[k]
  <2>1. n + 1 \in 0 .. n + 1
    OBVIOUS
  <2>2. \A k \in 0 .. n : k \in 0 .. n + 1 /\ k # n + 1
    OBVIOUS
  <2> QED
    BY <2>1, <2>2
<1> HIDE DEF at2, tables2
<1>4. at2[0] = 1 /\ tables2[0] = t
  BY <1>1, <1>3 DEF Reading
<1>5. ASSUME NEW k \in 0 .. n + 1
      PROVE  at2[k] \in Nat /\ k < at2[k] /\ at2[k] <= at2[n + 1]
  <2>1. CASE k = n + 1
    <3>1. n \in 0 .. n
      OBVIOUS
    <3>2. n < p
      BY <1>1, <3>1 DEF Reading
    <3> QED
      BY <1>2, <1>3, <2>1, <3>2
  <2>2. CASE k \in 0 .. n
    <3>1. at[k] \in Nat /\ k < at[k] /\ at[k] <= p
      BY <1>1, <2>2 DEF Reading
    <3> QED
      BY <1>2, <1>3, <2>2, <3>1
  <2> QED
    BY <2>1, <2>2
<1>6. ASSUME NEW k \in Nat, k < n + 1
      PROVE  Takes(file, at2[k], tables2[k], at2[k + 1], tables2[k + 1])
  <2>1. CASE k = n
    <3>1. n \in 0 .. n
      OBVIOUS
    <3> QED
      BY <1>1, <1>3, <2>1, <3>1
  <2>2. CASE k < n
    <3>1. k \in 0 .. n /\ k + 1 \in 0 .. n
      BY <2>2
    <3>2. Takes(file, at[k], tables[k], at[k + 1], tables[k + 1])
      BY <1>1, <2>2 DEF Reading
    <3> QED
      BY <1>3, <3>1, <3>2
  <2> QED
    BY <1>6, <2>1, <2>2
<1>7. Reading(file, t, n + 1, at2, tables2)
  BY <1>4, <1>5, <1>6 DEF Reading
<1>8. n + 1 \in Nat
  OBVIOUS
<1> QED
  BY <1>3, <1>7, <1>8 DEF Reads

\* What a reader gets does not depend on what stands behind it.
LEMMA ReadsAgree ==
    ASSUME NEW file, NEW other, NEW t, NEW p, NEW u, Reads(file, t, p, u),
           \A i \in Nat : i > 0 /\ i < p => other[i] = file[i]
    PROVE  Reads(other, t, p, u)
<1>0. PICK n \in Nat :
         \E at, tables : Reading(file, t, n, at, tables) /\ at[n] = p /\ tables[n] = u
  BY DEF Reads
<1>1. PICK at, tables : Reading(file, t, n, at, tables) /\ at[n] = p /\ tables[n] = u
  BY <1>0
<1>2. ASSUME NEW k \in Nat, k < n
      PROVE  Takes(other, at[k], tables[k], at[k + 1], tables[k + 1])
  <2>1. Takes(file, at[k], tables[k], at[k + 1], tables[k + 1])
    BY <1>1, <1>2 DEF Reading
  <2>2. at[k + 1] \in Nat /\ at[k + 1] <= p
    <3>1. k + 1 \in 0 .. n
      BY <1>2
    <3> QED
      BY <1>1, <3>1 DEF Reading
  <2>3. at[k] \in Nat /\ at[k] > 0 /\ at[k] < at[k + 1]
    BY <2>1, TakesFurther
  <2>4. p \in Nat
    BY ReadsTo
  <2>5. other[at[k]] = file[at[k]]
    BY <2>2, <2>3, <2>4
  <2>6. file[at[k]].op \in ObjectOps => other[at[k] + 1] = file[at[k] + 1]
    <3>1. file[at[k]].op \in ObjectOps => at[k + 1] = at[k] + 2
      BY <2>1 DEF Takes
    <3> QED
      BY <2>2, <2>3, <2>4, <3>1
  <2> QED
    BY <2>1, <2>5, <2>6 DEF Takes
<1>3. Reading(other, t, n, at, tables)
  BY <1>1, <1>2 DEF Reading
<1> QED
  BY <1>1, <1>3 DEF Reads

\* The entry that was read last
LEMMA LastTaken ==
    ASSUME NEW file, NEW t, NEW p, NEW u, Reads(file, t, p, u), p # 1
    PROVE  \E q, v : Reads(file, t, q, v) /\ Takes(file, q, v, p, u)
<1>0. PICK n \in Nat :
         \E at, tables : Reading(file, t, n, at, tables) /\ at[n] = p /\ tables[n] = u
  BY DEF Reads
<1>1. PICK at, tables : Reading(file, t, n, at, tables) /\ at[n] = p /\ tables[n] = u
  BY <1>0
<1>2. n # 0 /\ n - 1 \in Nat /\ n - 1 < n /\ (n - 1) + 1 = n
  <2>1. n # 0
    BY <1>1 DEF Reading
  <2> QED
    BY <2>1
<1> DEFINE m == n - 1
<1> HIDE DEF m
<1>3. Takes(file, at[m], tables[m], p, u)
  <2>1. Takes(file, at[m], tables[m], at[m + 1], tables[m + 1])
    BY <1>1, <1>2 DEF Reading, m
  <2> QED
    BY <1>1, <1>2, <2>1 DEF m
<1>4. Reading(file, t, m, at, tables)
  <2>1. ASSUME NEW k \in 0 .. m
        PROVE  at[k] \in Nat /\ k < at[k] /\ at[k] <= at[m]
    <3>1. DEFINE S == {j \in Nat : j <= m => \A i \in 0 .. j : at[i] <= at[j]}
    <3>2. \A j \in 0 .. n : at[j] \in Nat /\ j < at[j]
      BY <1>1 DEF Reading
    <3>3. 0 \in S
      <4>1. \A i \in 0 .. 0 : i = 0
        OBVIOUS
      <4>2. at[0] <= at[0]
        BY <3>2
      <4> QED
        BY <4>1, <4>2
    <3>4. ASSUME NEW j \in S PROVE j + 1 \in S
      <4> SUFFICES ASSUME j + 1 <= m, NEW i \in 0 .. j + 1 PROVE at[i] <= at[j + 1]
        OBVIOUS
      <4>1. j \in Nat /\ j < n /\ j \in 0 .. n /\ j + 1 \in 0 .. n
        BY <1>2 DEF m
      <4>2. at[j] < at[j + 1]
        <5>1. Takes(file, at[j], tables[j], at[j + 1], tables[j + 1])
          BY <1>1, <4>1 DEF Reading
        <5> QED
          BY <5>1, TakesFurther
      <4>3. CASE i = j + 1
        BY <3>2, <4>1, <4>3
      <4>4. CASE i \in 0 .. j
        <5>1. at[i] <= at[j] /\ i \in 0 .. n
          BY <4>1, <4>4, <1>2 DEF m
        <5> QED
          BY <3>2, <4>1, <4>2, <5>1
      <4> QED
        BY <4>1, <4>3, <4>4
    <3>5. m \in S
      BY <1>2, <3>3, <3>4, AllNumbers DEF m
    <3>6. k \in 0 .. n
      BY <1>2 DEF m
    <3> QED
      BY <1>2, <3>2, <3>5, <3>6 DEF m
  <2> QED
    BY <1>1, <1>2, <2>1 DEF Reading, m
<1>5. Reads(file, t, at[m], tables[m])
  BY <1>2, <1>4 DEF Reads, m
<1> QED
  BY <1>3, <1>5

-----------------------------------------------------------------------------
(* What a replay gives. *)

\* The cells of an entry
LEMMA SizeIs ==
    ASSUME NEW e
    PROVE  Size(e) = IF e.op \in ObjectOps THEN 2 ELSE 1
<1>1. CASE e.op \in ObjectOps
  <2>1. Cells(e) = <<e, Rest>> /\ Len(<<e, Rest>>) = 2
    BY <1>1 DEF Cells
  <2> QED
    BY <1>1, <2>1 DEF Size
<1>2. CASE e.op \notin ObjectOps
  <2>1. Cells(e) = <<e>> /\ Len(<<e>>) = 1
    BY <1>2 DEF Cells
  <2> QED
    BY <1>2, <2>1 DEF Size
<1> QED
  BY <1>1, <1>2

At(table, pos, status) == [table |-> table, pos |-> pos, status |-> status]

\* A state of the loop with some of its parts replaced
LEMMA AtOnly ==
    ASSUME NEW t, NEW p, NEW s, NEW y, y \in [table : {t}, pos : {p}, status : {s}]
    PROVE  y = At(t, p, s)
BY DEF At

\* The loop takes an entry in one turn.
LEMMA TakesTurn ==
    ASSUME NEW file, NEW p, NEW t, NEW q, NEW u,
           Takes(file, p, t, q, u), p <= Len(file)
    PROVE  Turn(file, At(t, p, "reading")) = At(u, q, "reading")
<1> DEFINE e == file[p]
           s == At(t, p, "reading")
<1>1. /\ e.op \in Ops /\ e.sealed
      /\ Applied(t, e) = [table |-> u, ok |-> TRUE]
      /\ q = p + Size(e)
  BY SizeIs DEF Takes
<1>2. e.op # "rest"
  BY <1>1 DEF Ops, ObjectOps, SessionOps
<1>3. s.table = t /\ s.pos = p /\ s.status = "reading"
  BY DEF At
<1>4. Scanned(s, e) = [s EXCEPT !.table = u, !.pos = q]
  <2> HIDE DEF s, e
  <2>1. Applied(s.table, e).ok = TRUE /\ Applied(s.table, e).table = u
    BY <1>1, <1>3
  <2> QED
    BY <1>1, <1>2, <1>3, <2>1, Zenon DEF Scanned
<1>5. [s EXCEPT !.table = u, !.pos = q] = At(u, q, "reading")
  <2>1. s \in [table : {t}, pos : {p}, status : {"reading"}]
    BY DEF At
  <2> HIDE DEF s
  <2>2. [s EXCEPT !.table = u, !.pos = q] \in [table : {u}, pos : {q}, status : {"reading"}]
    BY <2>1
  <2> QED
    BY <2>2, AtOnly
<1> QED
  BY <1>3, <1>4, <1>5 DEF Turn

\* A state that the loop stays in
LEMMA ScansStay ==
    ASSUME NEW file, NEW t, NEW L \in Nat, NEW f, ScansUpTo(file, t, L, f),
           NEW n \in Nat, n <= L, Turn(file, f[n]) = f[n]
    PROVE  f[L] = f[n]
<1> DEFINE S == {k \in Nat : n + k <= L => f[n + k] = f[n]}
<1>1. 0 \in S
  OBVIOUS
<1>2. ASSUME NEW k \in S PROVE k + 1 \in S
  <2> SUFFICES ASSUME n + (k + 1) <= L PROVE f[n + (k + 1)] = f[n]
    OBVIOUS
  <2> DEFINE m == n + k
  <2>1. m \in Nat /\ m + 1 <= L /\ n + (k + 1) = m + 1
    OBVIOUS
  <2>2. f[m] = f[n]
    BY <2>1
  <2> HIDE DEF m
  <2>3. f[m + 1] = Turn(file, f[m])
    BY <2>1, ScanSteps
  <2> QED
    BY <2>1, <2>2, <2>3
<1>3. L - n \in S
  <2> HIDE DEF S
  <2>1. Nat \subseteq S
    BY <1>1, <1>2, AllNumbers
  <2> QED
    BY <2>1
<1>4. n + (L - n) = L
  OBVIOUS
<1> QED
  BY <1>3, <1>4

\* The loop is where a reader gets to after as many turns as entries.
LEMMA ScansAlong ==
    ASSUME NEW file, Len(file) \in Nat, NEW t, NEW p, NEW u, Reads(file, t, p, u),
           p <= Len(file) + 1, NEW f, ScansUpTo(file, t, Len(file), f)
    PROVE  \E n \in Nat : n < p /\ n <= Len(file) /\ f[n] = At(u, p, "reading")
<1>0. PICK n \in Nat :
         \E at, tables : Reading(file, t, n, at, tables) /\ at[n] = p /\ tables[n] = u
  BY DEF Reads
<1>1. PICK at, tables : Reading(file, t, n, at, tables) /\ at[n] = p /\ tables[n] = u
  BY <1>0
<1>2. \A k \in 0 .. n : at[k] \in Nat /\ k < at[k] /\ at[k] <= p
  BY <1>1 DEF Reading
<1>3. p \in Nat /\ n < p /\ n <= Len(file)
  BY <1>1, <1>2
<1> DEFINE S == {k \in Nat : k <= n => f[k] = At(tables[k], at[k], "reading")}
<1>4. 0 \in S
  <2>1. f[0] = Start(t)
    BY ScanSteps
  <2>2. at[0] = 1 /\ tables[0] = t
    BY <1>1 DEF Reading
  <2> QED
    BY <2>1, <2>2 DEF Start, At
<1>5. ASSUME NEW k \in S PROVE k + 1 \in S
  <2> SUFFICES ASSUME k + 1 <= n PROVE f[k + 1] = At(tables[k + 1], at[k + 1], "reading")
    OBVIOUS
  <2>1. k \in Nat /\ k < n /\ k + 1 <= Len(file) /\ k + 1 \in 0 .. n
    BY <1>3
  <2>2. f[k + 1] = Turn(file, f[k])
    BY <2>1, ScanSteps
  <2>3. Takes(file, at[k], tables[k], at[k + 1], tables[k + 1])
    BY <1>1, <2>1 DEF Reading
  <2>4. at[k] <= Len(file)
    <3>1. at[k] \in Nat /\ at[k + 1] \in Nat /\ at[k] < at[k + 1]
      BY <2>3, TakesFurther
    <3>2. at[k + 1] <= p
      BY <1>2, <2>1
    <3> QED
      BY <1>3, <3>1, <3>2
  <2>5. f[k] = At(tables[k], at[k], "reading")
    BY <2>1
  <2> QED
    BY <2>2, <2>3, <2>4, <2>5, TakesTurn
<1>6. n \in S
  BY <1>4, <1>5, AllNumbers
<1>7. f[n] = At(u, p, "reading")
  BY <1>1, <1>6
<1> QED
  BY <1>3, <1>7

\* A file that can be read to its end is replayed to its end.
LEMMA ReadsReplay ==
    ASSUME NEW file, Len(file) \in Nat, NEW t, NEW u, Reads(file, t, Len(file) + 1, u)
    PROVE  Replay(file, t) = At(u, Len(file) + 1, "end")
<1> DEFINE L == Len(file)
<1>1. PICK f : ScansUpTo(file, t, L, f) /\ Replay(file, t) = Ended(f[L])
  BY ReplayIs
<1>2. PICK n \in Nat : n <= L /\ f[n] = At(u, L + 1, "reading")
  BY <1>1, ScansAlong
<1>3. Turn(file, f[n]) = f[n]
  BY <1>2 DEF Turn, At
<1>4. f[L] = At(u, L + 1, "reading")
  BY <1>1, <1>2, <1>3, ScansStay
<1> QED
  BY <1>1, <1>4 DEF Ended, At

\* One that ends with an entry that is not sealed is replayed to that entry, and
\* it is applied.
LEMMA ReadsTorn ==
    ASSUME NEW file, Len(file) \in Nat, NEW t, NEW p, NEW u, Reads(file, t, p, u),
           p <= Len(file), file[p].op \in Ops, ~ file[p].sealed,
           NEW v, Applied(u, file[p]) = [table |-> v, ok |-> TRUE]
    PROVE  Replay(file, t) = At(v, p, "torn")
<1> DEFINE L == Len(file)
<1>1. PICK f : ScansUpTo(file, t, L, f) /\ Replay(file, t) = Ended(f[L])
  BY ReplayIs
<1>2. p \in Nat /\ p > 0
  BY ReadsTo
<1>3. PICK n \in Nat : n < p /\ f[n] = At(u, p, "reading")
  BY <1>1, <1>2, ScansAlong
<1>4. n + 1 \in Nat /\ n + 1 <= L
  BY <1>2, <1>3
<1>5. f[n + 1] = At(v, p, "torn")
  <2>1. f[n + 1] = Turn(file, f[n])
    BY <1>1, <1>4, ScanSteps
  <2>2. Turn(file, f[n]) = Scanned(At(u, p, "reading"), file[p])
    BY <1>3 DEF Turn, At
  <2>3. file[p].op # "rest"
    BY DEF Ops, ObjectOps, SessionOps
  <2>4. Scanned(At(u, p, "reading"), file[p]) = At(v, p, "torn")
    <3> DEFINE s == At(u, p, "reading")
    <3>1. s.table = u /\ Applied(u, file[p]).ok = TRUE /\ Applied(u, file[p]).table = v
      BY DEF At
    <3>2. [s EXCEPT !.table = v, !.status = "torn"] = At(v, p, "torn")
      <4>1. s \in [table : {u}, pos : {p}, status : {"reading"}]
        BY DEF At
      <4> HIDE DEF s
      <4>2. [s EXCEPT !.table = v, !.status = "torn"]
                \in [table : {v}, pos : {p}, status : {"torn"}]
        BY <4>1
      <4> QED
        BY <4>2, AtOnly
    <3> HIDE DEF s
    <3>3. Scanned(s, file[p]) = [s EXCEPT !.table = v, !.status = "torn"]
      BY <2>3, <3>1, Zenon DEF Scanned
    <3> QED
      BY <3>2, <3>3 DEF s
  <2> QED
    BY <2>1, <2>2, <2>4
<1>6. Turn(file, f[n + 1]) = f[n + 1]
  BY <1>5 DEF Turn, At
<1>7. f[L] = At(v, p, "torn")
  BY <1>1, <1>4, <1>5, <1>6, ScansStay
<1> QED
  BY <1>1, <1>7 DEF Ended, At

-----------------------------------------------------------------------------
(* Writing. *)

\* The file g is f with entry e at position at.
Written(f, at, e, g) ==
    LET size == IF e.op \in ObjectOps THEN 2 ELSE 1
    IN  /\ Len(g) = IF Len(f) < at + size - 1 THEN at + size - 1 ELSE Len(f)
        /\ g[at] = e
        /\ e.op \in ObjectOps => g[at + 1] = Rest
        /\ \A i \in 1 .. Len(f) : i < at \/ i >= at + size => g[i] = f[i]

\* An entry over a file, at its end or before
LEMMA OverwriteWrites ==
    ASSUME NEW S, NEW f \in Seq(S), NEW at \in Nat, 0 < at, at <= Len(f) + 1,
           NEW e \in S, Rest \in S
    PROVE  /\ Overwrite(f, at, Cells(e)) \in Seq(S)
           /\ Written(f, at, e, Overwrite(f, at, Cells(e)))
<1> DEFINE size  == IF e.op \in ObjectOps THEN 2 ELSE 1
           cells == Cells(e)
           front == SubSeq(f, 1, at - 1)
           rest  == SubSeq(f, at + size, Len(f))
           g     == Overwrite(f, at, cells)
<1>1. /\ cells \in Seq(S) /\ Len(cells) = size /\ cells[1] = e
      /\ size = 2 => cells[2] = Rest
  <2>1. CASE e.op \in ObjectOps
    <3>1. cells = <<e, Rest>>
      BY <2>1 DEF Cells
    <3> QED
      BY <2>1, <3>1
  <2>2. CASE e.op \notin ObjectOps
    <3>1. cells = <<e>>
      BY <2>2 DEF Cells
    <3> QED
      BY <2>2, <3>1
  <2> QED
    BY <2>1, <2>2
<1>2. size \in {1, 2} /\ Len(f) \in Nat /\ (size = 2 <=> e.op \in ObjectOps)
  OBVIOUS
<1>3. /\ front \in Seq(S) /\ Len(front) = at - 1
      /\ \A i \in 1 .. at - 1 : front[i] = f[i]
  BY <1>2
<1>4. /\ rest \in Seq(S)
      /\ Len(rest) = IF at + size <= Len(f) THEN Len(f) - (at + size) + 1 ELSE 0
      /\ \A i \in 1 .. Len(rest) : rest[i] = f[at + size + i - 1]
  BY <1>2
<1> DEFINE c == front \o cells
<1>5. g = c \o rest
  BY <1>1 DEF Overwrite
<1> HIDE DEF size, cells, front, rest, g
<1>6. /\ c \in Seq(S) /\ Len(c) = at - 1 + size
      /\ \A i \in 1 .. at - 1 : c[i] = f[i]
      /\ c[at] = e
      /\ size = 2 => c[at + 1] = Rest
  <2>1. c \in Seq(S) /\ Len(c) = Len(front) + Len(cells)
    BY <1>1, <1>3, ConcatProperties
  <2>2. Len(c) = at - 1 + size
    BY <1>1, <1>2, <1>3, <2>1
  <2>3. ASSUME NEW i \in 1 .. at - 1 PROVE c[i] = f[i]
    BY <1>1, <1>3
  <2>4. \A i \in 1 .. size : c[(at - 1) + i] = cells[i]
    BY <1>1, <1>2, <1>3
  <2>5. c[(at - 1) + 1] = cells[1] /\ (size = 2 => c[(at - 1) + 2] = cells[2])
    <3>1. 1 \in 1 .. size /\ (size = 2 => 2 \in 1 .. size)
      BY <1>2
    <3> QED
      BY <2>4, <3>1
  <2>6. (at - 1) + 1 = at /\ (at - 1) + 2 = at + 1
    OBVIOUS
  <2> QED
    BY <1>1, <2>1, <2>2, <2>3, <2>5, <2>6
<1> HIDE DEF c
<1>7. /\ g \in Seq(S) /\ Len(g) = Len(c) + Len(rest)
      /\ \A i \in 1 .. Len(c) : g[i] = c[i]
      /\ \A i \in 1 .. Len(rest) : g[Len(c) + i] = rest[i]
  <2>1. c \in Seq(S) /\ rest \in Seq(S)
    BY <1>4, <1>6
  <2>2. g \in Seq(S) /\ Len(g) = Len(c) + Len(rest)
    BY <1>5, <2>1, ConcatProperties
  <2>3. \A i \in 1 .. Len(c) : g[i] = c[i]
    BY <1>5, <2>1
  <2>4. \A i \in 1 .. Len(rest) : g[Len(c) + i] = rest[i]
    BY <1>5, <2>1
  <2> QED
    BY <2>2, <2>3, <2>4
<1>8. Len(g) = IF Len(f) < at + size - 1 THEN at + size - 1 ELSE Len(f)
  <2>1. Len(c) = at - 1 + size
    BY <1>6
  <2>2. Len(g) = Len(c) + Len(rest)
    BY <1>7
  <2>3. Len(rest) = IF at + size <= Len(f) THEN Len(f) - (at + size) + 1 ELSE 0
    BY <1>4
  <2>4. CASE at + size <= Len(f)
    BY <1>2, <2>1, <2>2, <2>3, <2>4
  <2>5. CASE ~ (at + size <= Len(f))
    <3>1. Len(g) = at - 1 + size
      BY <1>2, <2>1, <2>2, <2>3, <2>5
    <3> QED
      BY <1>2, <2>5, <3>1
  <2> QED
    BY <2>4, <2>5
<1>9. at \in 1 .. Len(c) /\ (size = 2 => at + 1 \in 1 .. Len(c))
  <2>1. Len(c) = at - 1 + size
    BY <1>6
  <2> QED
    BY <1>2, <2>1
<1>10. g[at] = e /\ (size = 2 => g[at + 1] = Rest)
  BY <1>6, <1>7, <1>9
<1>11. ASSUME NEW i \in 1 .. Len(f), i < at PROVE g[i] = f[i]
  <2>1. Len(c) = at - 1 + size /\ c[i] = f[i]
    BY <1>6, <1>11
  <2>2. i \in 1 .. Len(c)
    BY <1>2, <1>11, <2>1
  <2> QED
    BY <1>7, <2>1, <2>2
<1>12. ASSUME NEW i \in 1 .. Len(f), i >= at + size PROVE g[i] = f[i]
  <2> DEFINE j == i - (at - 1 + size)
  <2>1. Len(c) = at - 1 + size
    BY <1>6
  <2>2. Len(rest) = IF at + size <= Len(f) THEN Len(f) - (at + size) + 1 ELSE 0
    BY <1>4
  <2>3. j \in 1 .. Len(rest) /\ Len(c) + j = i /\ at + size + j - 1 = i
    BY <1>2, <1>12, <2>1, <2>2
  <2> HIDE DEF j
  <2>4. g[Len(c) + j] = rest[j]
    BY <1>7, <2>3
  <2>5. rest[j] = f[at + size + j - 1]
    BY <1>4, <2>3
  <2> QED
    BY <2>3, <2>4, <2>5
<1>13. Written(f, at, e, g)
  BY <1>2, <1>8, <1>10, <1>11, <1>12 DEF Written, size
<1> QED
  BY <1>7, <1>13 DEF g, cells

-----------------------------------------------------------------------------
(* Contents and entries, with keys up to N. *)

Rows(N) == UNION {[keys -> Vals] : keys \in SUBSET (0 .. N)}

Snapshots(N) == [rows : Rows(N), next_id : 0 .. N + 1]

Tables(N) ==
    [rows : Rows(N), next_id : 0 .. N + 1, saved : Seq(Snapshots(N)), revision : Nat]

\* No more sessions than the revision counts
Contents(N) == {t \in Tables(N) : Len(t.saved) <= t.revision}

Entries(N) ==
    {e \in [op : Ops \cup {"rest"}, id : 0 .. N, val : Vals \cup {NoVal},
            rev : Nat, sealed : BOOLEAN] :
        e.op \in ObjectOps => e.val \in Vals}

\* The operations keep the contents of a table in their set.
LEMMA EmptyContents ==
    ASSUME NEW N \in Nat
    PROVE  EmptyTable \in Contents(N)
<1> DEFINE r == [id \in {} |-> 0]
<1>1. r \in [{} -> Vals] /\ {} \in SUBSET (0 .. N)
  OBVIOUS
<1>2. r \in Rows(N)
  BY <1>1 DEF Rows
<1> HIDE DEF r
<1>3. << >> \in Seq(Snapshots(N)) /\ Len(<< >>) = 0
  OBVIOUS
<1>4. EmptyTable = [rows |-> r, next_id |-> 0, saved |-> << >>, revision |-> 0]
  BY DEF EmptyTable, r
<1> QED
  BY <1>2, <1>3, <1>4 DEF Contents, Tables

\* Contents with the same parts are the same.
LEMMA SameContents ==
    ASSUME NEW N, NEW t \in Tables(N), NEW u \in Tables(N),
           t.rows = u.rows, t.next_id = u.next_id, t.saved = u.saved,
           t.revision = u.revision
    PROVE  t = u
BY DEF Tables

\* A new row
LEMMA EmplacedContents ==
    ASSUME NEW N \in Nat, NEW t \in Contents(N), NEW id \in 0 .. N, NEW v \in Vals
    PROVE  Emplaced(t, id, v) \in Contents(N)
<1> DEFINE r == [k \in DOMAIN t.rows \cup {id} |-> IF k = id THEN v ELSE t.rows[k]]
<1>1. PICK keys \in SUBSET (0 .. N) : t.rows \in [keys -> Vals]
  BY DEF Contents, Tables, Rows
<1>2. r \in [keys \cup {id} -> Vals] /\ keys \cup {id} \in SUBSET (0 .. N)
  BY <1>1
<1>3. r \in Rows(N)
  BY <1>2 DEF Rows
<1> HIDE DEF r
<1>4. Emplaced(t, id, v) = [t EXCEPT !.rows = r, !.next_id = id + 1]
  BY DEF Emplaced, r
<1>5. id + 1 \in 0 .. N + 1 /\ t \in Tables(N) /\ Len(t.saved) <= t.revision
  BY DEF Contents
<1>6. /\ Emplaced(t, id, v) \in Tables(N)
      /\ Emplaced(t, id, v).saved = t.saved /\ Emplaced(t, id, v).revision = t.revision
  BY <1>3, <1>4, <1>5 DEF Tables
<1> QED
  BY <1>5, <1>6 DEF Contents

\* A row that is there
LEMMA ModifiedContents ==
    ASSUME NEW N \in Nat, NEW t \in Contents(N), NEW id \in DOMAIN t.rows, NEW v \in Vals
    PROVE  Modified(t, id, v) \in Contents(N)
<1> DEFINE r == [t.rows EXCEPT ![id] = v]
<1>1. PICK keys \in SUBSET (0 .. N) : t.rows \in [keys -> Vals]
  BY DEF Contents, Tables, Rows
<1>2. r \in [keys -> Vals]
  BY <1>1
<1>3. r \in Rows(N)
  BY <1>2 DEF Rows
<1>4. Modified(t, id, v) = [t EXCEPT !.rows = r]
  BY DEF Modified
<1> HIDE DEF r
<1> QED
  BY <1>3, <1>4 DEF Contents, Tables

\* A row less
LEMMA RemovedContents ==
    ASSUME NEW N \in Nat, NEW t \in Contents(N), NEW id
    PROVE  Removed(t, id) \in Contents(N)
<1> DEFINE r == [k \in DOMAIN t.rows \ {id} |-> t.rows[k]]
<1>1. PICK keys \in SUBSET (0 .. N) : t.rows \in [keys -> Vals]
  BY DEF Contents, Tables, Rows
<1>2. r \in [keys \ {id} -> Vals] /\ keys \ {id} \in SUBSET (0 .. N)
  BY <1>1
<1>3. r \in Rows(N)
  BY <1>2 DEF Rows
<1>4. Removed(t, id) = [t EXCEPT !.rows = r]
  BY DEF Removed
<1> HIDE DEF r
<1> QED
  BY <1>3, <1>4 DEF Contents, Tables

\* Without sessions any revision will do.
LEMMA RevisionContents ==
    ASSUME NEW N \in Nat, NEW t \in Contents(N), t.saved = << >>, NEW r \in Nat
    PROVE  WithRevision(t, r) \in Contents(N)
<1>1. Len(t.saved) = 0
  OBVIOUS
<1> QED
  BY <1>1 DEF WithRevision, Contents, Tables

\* A session more, and a revision more
LEMMA StartedContents ==
    ASSUME NEW N \in Nat, NEW t \in Contents(N)
    PROVE  SessionStarted(t) \in Contents(N)
<1> DEFINE snapshot == [rows |-> t.rows, next_id |-> t.next_id]
<1>1. snapshot \in Snapshots(N) /\ t.saved \in Seq(Snapshots(N))
  BY DEF Contents, Tables, Snapshots
<1> HIDE DEF snapshot
<1> DEFINE s == Append(t.saved, snapshot)
<1>2. s \in Seq(Snapshots(N)) /\ Len(s) = Len(t.saved) + 1
  BY <1>1
<1> HIDE DEF s
<1>3. SessionStarted(t) = [t EXCEPT !.saved = s, !.revision = t.revision + 1]
  BY DEF SessionStarted, snapshot, s
<1>4. /\ Len(t.saved) \in Nat /\ t \in Tables(N) /\ Len(t.saved) <= t.revision
      /\ t.revision + 1 \in Nat /\ t.revision \in Nat
  BY <1>1 DEF Contents, Tables
<1>5. /\ SessionStarted(t) \in Tables(N)
      /\ SessionStarted(t).saved = s /\ SessionStarted(t).revision = t.revision + 1
  BY <1>2, <1>3, <1>4 DEF Tables
<1>6. Len(s) <= t.revision + 1
  BY <1>2, <1>4
<1> QED
  BY <1>5, <1>6 DEF Contents

\* A part of a stack of sessions
LEMMA PartOfSessions ==
    ASSUME NEW S, NEW s \in Seq(S), NEW a \in Nat, NEW b \in Nat,
           0 < a, b <= Len(s)
    PROVE  /\ SubSeq(s, a, b) \in Seq(S)
           /\ Len(SubSeq(s, a, b)) = IF a <= b THEN b - a + 1 ELSE 0
OBVIOUS

\* A commit forgets sessions from the oldest on.
LEMMA CommittedContents ==
    ASSUME NEW N \in Nat, NEW t \in Contents(N), NEW r \in Nat
    PROVE  Committed(t, r) \in Contents(N)
<1> DEFINE S == Snapshots(N)
           behind == t.revision - r
           L == Len(t.saved)
           kept == SubSeq(t.saved, L - behind + 1, L)
<1>1. /\ t.saved \in Seq(S) /\ L \in Nat /\ behind \in Int
      /\ t.revision \in Nat /\ L <= t.revision
  BY DEF Contents, Tables
<1>2. CASE behind <= 0
  <2>1. << >> \in Seq(S) /\ Len(<< >>) = 0
    OBVIOUS
  <2>2. Committed(t, r) = [t EXCEPT !.saved = << >>]
    BY <1>2, <1>1 DEF Committed
  <2>3. t \in Tables(N)
    BY DEF Contents
  <2>4. /\ Committed(t, r) \in Tables(N)
        /\ Committed(t, r).saved = << >> /\ Committed(t, r).revision = t.revision
    BY <2>1, <2>2, <2>3 DEF Tables
  <2> QED
    BY <1>1, <2>1, <2>4 DEF Contents
<1>3. CASE behind > 0 /\ behind < L
  <2>1. kept \in Seq(S) /\ Len(kept) <= L
    <3>1. L - behind + 1 \in Nat /\ 0 < L - behind + 1
      BY <1>1, <1>3
    <3> QED
      BY <1>1, <1>3, <3>1, PartOfSessions
  <2>2. Len(kept) \in Nat
    BY <2>1
  <2>3. Committed(t, r) = [t EXCEPT !.saved = kept]
    BY <1>3, <1>1 DEF Committed
  <2> HIDE DEF kept
  <2> QED
    BY <1>1, <2>1, <2>2, <2>3 DEF Contents, Tables
<1>4. CASE ~ (behind <= 0) /\ ~ (behind > 0 /\ behind < L)
  <2>1. Committed(t, r) = t
    BY <1>4, <1>1 DEF Committed
  <2> QED
    BY <2>1
<1> QED
  BY <1>2, <1>3, <1>4

\* An undo of one session or of several
LEMMA BeforeContents ==
    ASSUME NEW N \in Nat, NEW t \in Contents(N), NEW k \in 1 .. Len(t.saved)
    PROVE  BeforeSession(t, k) \in Contents(N)
<1> DEFINE s == SubSeq(t.saved, 1, k - 1)
           r == t.revision - (Len(t.saved) - k + 1)
<1>1. /\ t.saved \in Seq(Snapshots(N)) /\ Len(t.saved) \in Nat
      /\ t.revision \in Nat /\ Len(t.saved) <= t.revision
  BY DEF Contents, Tables
<1>2. t.saved[k].rows \in Rows(N) /\ t.saved[k].next_id \in 0 .. N + 1
  <2>1. t.saved[k] \in Snapshots(N)
    BY <1>1
  <2> QED
    BY <2>1 DEF Snapshots
<1>3. s \in Seq(Snapshots(N)) /\ Len(s) = k - 1
  <2>1. k - 1 \in Nat /\ k - 1 <= Len(t.saved) /\ 1 \in Nat
    BY <1>1
  <2>2. CASE 1 <= k - 1
    BY <1>1, <2>1, <2>2, PartOfSessions
  <2>3. CASE ~ (1 <= k - 1)
    BY <1>1, <2>1, <2>3, PartOfSessions
  <2> QED
    BY <2>2, <2>3
<1>4. r \in Nat /\ k - 1 <= r
  BY <1>1
<1>5. BeforeSession(t, k) = [rows |-> t.saved[k].rows, next_id |-> t.saved[k].next_id,
                             saved |-> s, revision |-> r]
  BY DEF BeforeSession
<1> HIDE DEF s, r
<1> QED
  BY <1>2, <1>3, <1>4, <1>5 DEF Contents, Tables

\* One session undone, and all of them
LEMMA UndoneContents ==
    ASSUME NEW N \in Nat, NEW t \in Contents(N)
    PROVE  Undone(t) \in Contents(N) /\ AllUndone(t) \in Contents(N)
<1>1. CASE t.saved = << >>
  BY <1>1 DEF Undone, AllUndone
<1>2. CASE t.saved # << >>
  <2>1. t.saved \in Seq(Snapshots(N))
    BY DEF Contents, Tables
  <2>2. 1 \in 1 .. Len(t.saved) /\ Len(t.saved) \in 1 .. Len(t.saved)
    BY <1>2, <2>1
  <2> QED
    BY <1>2, <2>2, BeforeContents DEF Undone, AllUndone
<1> QED
  BY <1>1, <1>2

-----------------------------------------------------------------------------
(* Applying entries. *)

Accepts(u) == [table |-> u, ok |-> TRUE]
Refuses(t) == [table |-> t, ok |-> FALSE]

\* What an accepted entry and a refused one say
LEMMA ResultParts ==
    ASSUME NEW u
    PROVE  /\ Accepts(u).table = u /\ Accepts(u).ok = TRUE
           /\ Refuses(u).table = u /\ Refuses(u).ok = FALSE
BY DEF Accepts, Refuses

\* The entries of rows
LEMMA AppliedRows ==
    ASSUME NEW t, NEW e
    PROVE  /\ e.op = "insert" => Applied(t, e) =
                IF e.id >= t.next_id THEN Accepts(Emplaced(t, e.id, e.val)) ELSE Refuses(t)
           /\ e.op = "modify" => Applied(t, e) =
                IF e.id \in DOMAIN t.rows THEN Accepts(Modified(t, e.id, e.val))
                ELSE Refuses(t)
           /\ e.op = "remove" => Applied(t, e) =
                IF e.id \in DOMAIN t.rows THEN Accepts(Removed(t, e.id)) ELSE Refuses(t)
BY DEF Applied, Accepts, Refuses

\* The start of a session, after which the revision must be that of the entry
CaughtUp(t, rev) == IF t.revision < rev - 1 THEN WithRevision(t, rev - 1) ELSE t

\* The entry of a session, after one that sets the revision it missed
LEMMA AppliedStart ==
    ASSUME NEW t, NEW e, e.op = "start_undo"
    PROVE  Applied(t, e) =
              IF t.revision < e.rev - 1 /\ ~ MaySetRevision(t, e.rev - 1) THEN Refuses(t)
              ELSE [table |-> SessionStarted(CaughtUp(t, e.rev)),
                    ok    |-> SessionStarted(CaughtUp(t, e.rev)).revision = e.rev]
BY DEF Applied, CaughtUp, Refuses

\* The entries of sessions
LEMMA AppliedSessions ==
    ASSUME NEW t, NEW e
    PROVE  /\ e.op = "commit" => Applied(t, e) =
                [table |-> Committed(t, e.rev), ok |-> Committed(t, e.rev).revision = e.rev]
           /\ e.op = "undo" => Applied(t, e) =
                [table |-> Undone(t), ok |-> Undone(t).revision = e.rev]
           /\ e.op = "undo_all" => Applied(t, e) =
                [table |-> AllUndone(t), ok |-> AllUndone(t).revision = e.rev]
           /\ e.op = "revision" => Applied(t, e) =
                IF MaySetRevision(t, e.rev) THEN Accepts(WithRevision(t, e.rev))
                ELSE Refuses(t)
BY DEF Applied, Accepts, Refuses

\* What an entry makes of contents is contents, though it may be refused.
LEMMA AppliedContents ==
    ASSUME NEW N \in Nat, NEW t \in Contents(N), NEW e \in Entries(N), e.op # "rest"
    PROVE  /\ Applied(t, e).table \in Contents(N)
           /\ Applied(t, e).ok \in BOOLEAN
<1>1. /\ e.op \in Ops /\ e.id \in 0 .. N /\ e.rev \in Nat
      /\ e.op \in ObjectOps => e.val \in Vals
      /\ t.revision \in Nat
  BY DEF Entries, Contents, Tables
<1>2. CASE e.op = "insert"
  <2>1. Emplaced(t, e.id, e.val) \in Contents(N)
    BY <1>1, <1>2, EmplacedContents DEF ObjectOps
  <2>2. \/ Applied(t, e) = Accepts(Emplaced(t, e.id, e.val))
        \/ Applied(t, e) = Refuses(t)
    BY <1>2, AppliedRows
  <2> QED
    BY <2>1, <2>2, ResultParts
<1>3. CASE e.op = "modify"
  <2>1. e.id \in DOMAIN t.rows => Modified(t, e.id, e.val) \in Contents(N)
    BY <1>1, <1>3, ModifiedContents DEF ObjectOps
  <2>2. \/ /\ e.id \in DOMAIN t.rows
           /\ Applied(t, e) = Accepts(Modified(t, e.id, e.val))
        \/ Applied(t, e) = Refuses(t)
    BY <1>3, AppliedRows
  <2> QED
    BY <2>1, <2>2, ResultParts
<1>4. CASE e.op = "remove"
  <2>1. Removed(t, e.id) \in Contents(N)
    BY RemovedContents
  <2>2. Applied(t, e) = Accepts(Removed(t, e.id)) \/ Applied(t, e) = Refuses(t)
    BY <1>4, AppliedRows
  <2> QED
    BY <2>1, <2>2, ResultParts
<1>5. CASE e.op = "start_undo"
  <2> DEFINE u == CaughtUp(t, e.rev)
  <2>1. CASE t.revision < e.rev - 1 /\ ~ MaySetRevision(t, e.rev - 1)
    <3>1. Applied(t, e) = Refuses(t)
      BY <1>5, <2>1, AppliedStart
    <3> QED
      BY <3>1 DEF Refuses
  <2>2. CASE ~ (t.revision < e.rev - 1 /\ ~ MaySetRevision(t, e.rev - 1))
    <3>1. u \in Contents(N)
      <4>1. CASE t.revision < e.rev - 1
        <5>1. e.rev - 1 \in Nat /\ t.saved = << >>
          BY <1>1, <2>2, <4>1 DEF MaySetRevision
        <5> QED
          BY <4>1, <5>1, RevisionContents DEF CaughtUp
      <4>2. CASE ~ (t.revision < e.rev - 1)
        BY <4>2 DEF CaughtUp
      <4> QED
        BY <4>1, <4>2
    <3>2. SessionStarted(u) \in Contents(N)
      BY <3>1, StartedContents
    <3>3. Applied(t, e) = [table |-> SessionStarted(u),
                           ok    |-> SessionStarted(u).revision = e.rev]
      BY <1>5, <2>2, AppliedStart
    <3> HIDE DEF u
    <3> QED
      BY <3>2, <3>3
  <2> QED
    BY <2>1, <2>2
<1>6. CASE e.op = "commit"
  <2>1. Committed(t, e.rev) \in Contents(N)
    BY <1>1, CommittedContents
  <2>2. Applied(t, e) = [table |-> Committed(t, e.rev),
                         ok    |-> Committed(t, e.rev).revision = e.rev]
    BY <1>6, AppliedSessions
  <2> QED
    BY <2>1, <2>2
<1>7. CASE e.op = "undo" \/ e.op = "undo_all"
  <2>1. Undone(t) \in Contents(N) /\ AllUndone(t) \in Contents(N)
    BY UndoneContents
  <2>2. \/ Applied(t, e) = [table |-> Undone(t), ok |-> Undone(t).revision = e.rev]
        \/ Applied(t, e) = [table |-> AllUndone(t), ok |-> AllUndone(t).revision = e.rev]
    BY <1>7, AppliedSessions
  <2>3. CASE Applied(t, e) = [table |-> Undone(t), ok |-> Undone(t).revision = e.rev]
    BY <2>1, <2>3
  <2>4. CASE Applied(t, e) = [table |-> AllUndone(t), ok |-> AllUndone(t).revision = e.rev]
    BY <2>1, <2>4
  <2> QED
    BY <2>2, <2>3, <2>4
<1>8. CASE e.op = "revision"
  <2>1. MaySetRevision(t, e.rev) => WithRevision(t, e.rev) \in Contents(N)
    BY <1>1, RevisionContents DEF MaySetRevision
  <2>2. \/ /\ MaySetRevision(t, e.rev)
           /\ Applied(t, e) = Accepts(WithRevision(t, e.rev))
        \/ Applied(t, e) = Refuses(t)
    BY <1>8, AppliedSessions
  <2> QED
    BY <2>1, <2>2, ResultParts
<1> QED
  BY <1>1, <1>2, <1>3, <1>4, <1>5, <1>6, <1>7, <1>8 DEF Ops, ObjectOps, SessionOps

-----------------------------------------------------------------------------
(* Whatever a file holds. *)

\* An entry with an object has its rest behind it.
NoHeadAtEnd(file) == \A i \in 1 .. Len(file) : file[i].op \in ObjectOps => i < Len(file)

Statuses == {"reading", "end", "torn", "refused", "junk"}

\* The states of the loop over a file of L cells
Scans(N, L) ==
    {s \in [table : Contents(N), pos : 1 .. L + 1, status : Statuses] :
        s.status # "reading" => s.pos <= L}

\* A turn stays in the file.
LEMMA TurnScans ==
    ASSUME NEW N \in Nat, NEW file \in Seq(Entries(N)), NoHeadAtEnd(file),
           NEW s \in Scans(N, Len(file))
    PROVE  Turn(file, s) \in Scans(N, Len(file))
<1> DEFINE L == Len(file)
<1>1. L \in Nat
  OBVIOUS
<1>2. CASE ~ (s.status = "reading" /\ s.pos <= L)
  BY <1>2 DEF Turn
<1>3. CASE s.status = "reading" /\ s.pos <= L
  <2> DEFINE e == file[s.pos]
             r == Applied(s.table, e)
  <2>1. /\ s.table \in Contents(N) /\ s.pos \in 1 .. L + 1
        /\ s \in [table : Contents(N), pos : 1 .. L + 1, status : Statuses]
    BY DEF Scans
  <2>2. s.pos \in 1 .. L
    BY <1>1, <1>3, <2>1
  <2>3. e \in Entries(N) /\ (e.op \in ObjectOps => s.pos < L)
    BY <2>2 DEF NoHeadAtEnd
  <2>4. s.pos + Size(e) \in 1 .. L + 1
    BY <1>1, <2>2, <2>3, SizeIs
  <2>5. Turn(file, s) = Scanned(s, e)
    BY <1>3 DEF Turn
  <2>6. e.op # "rest" => r.table \in Contents(N) /\ r.ok \in BOOLEAN
    BY <2>1, <2>3, AppliedContents
  <2>7. e.sealed \in BOOLEAN
    BY <2>3 DEF Entries
  <2> HIDE DEF e
  <2>8. \/ /\ e.op = "rest"
           /\ Scanned(s, e) = [s EXCEPT !.status = "junk"]
        \/ /\ e.op # "rest" /\ ~ r.ok
           /\ Scanned(s, e) = [s EXCEPT !.table = r.table, !.status = "refused"]
        \/ /\ e.op # "rest" /\ r.ok /\ ~ e.sealed
           /\ Scanned(s, e) = [s EXCEPT !.table = r.table, !.status = "torn"]
        \/ /\ e.op # "rest" /\ r.ok /\ e.sealed
           /\ Scanned(s, e) = [s EXCEPT !.table = r.table, !.pos = s.pos + Size(e)]
    BY Zenon DEF Scanned
  <2> HIDE DEF r, L
  <2>9. CASE e.op = "rest" /\ Scanned(s, e) = [s EXCEPT !.status = "junk"]
    BY <1>3, <2>1, <2>2, <2>5, <2>9 DEF Scans, Statuses, L
  <2>10. CASE e.op # "rest" /\ Scanned(s, e) = [s EXCEPT !.table = r.table, !.status = "refused"]
    BY <1>3, <2>1, <2>2, <2>5, <2>6, <2>10 DEF Scans, Statuses, L
  <2>11. CASE e.op # "rest" /\ Scanned(s, e) = [s EXCEPT !.table = r.table, !.status = "torn"]
    BY <1>3, <2>1, <2>2, <2>5, <2>6, <2>11 DEF Scans, Statuses, L
  <2>12. CASE /\ e.op # "rest"
              /\ Scanned(s, e) = [s EXCEPT !.table = r.table, !.pos = s.pos + Size(e)]
    BY <1>3, <2>1, <2>4, <2>5, <2>6, <2>12 DEF Scans, Statuses, L
  <2> QED
    BY <2>8, <2>9, <2>10, <2>11, <2>12
<1> QED
  BY <1>2, <1>3

\* A replay gives contents, and ends where a stream can write on.
Replayed(N, L, r) ==
    /\ r.table \in Contents(N)
    /\ r.pos \in 1 .. L + 1
    /\ r.status \in {"end", "torn", "refused", "junk"}
    /\ r.status # "end" => r.pos <= L

\* Whatever the file, its replay makes a table, and ends in it or behind it.
LEMMA ReplayContents ==
    ASSUME NEW N \in Nat, NEW file \in Seq(Entries(N)), NoHeadAtEnd(file),
           NEW t \in Contents(N)
    PROVE  Replayed(N, Len(file), Replay(file, t))
<1> DEFINE L == Len(file)
<1>1. L \in Nat
  OBVIOUS
<1>2. PICK f : ScansUpTo(file, t, L, f) /\ Replay(file, t) = Ended(f[L])
  BY <1>1, ReplayIs
<1> DEFINE S == {n \in Nat : n <= L => f[n] \in Scans(N, L)}
<1>3. 0 \in S
  <2>1. f[0] = Start(t)
    BY <1>1, <1>2, ScanSteps
  <2>2. Start(t) \in Scans(N, L)
    BY <1>1 DEF Start, Scans, Statuses
  <2> QED
    BY <2>1, <2>2
<1>4. ASSUME NEW n \in S PROVE n + 1 \in S
  <2> SUFFICES ASSUME n + 1 <= L PROVE f[n + 1] \in Scans(N, L)
    OBVIOUS
  <2>1. n \in Nat /\ n <= L
    BY <1>1
  <2>2. f[n + 1] = Turn(file, f[n])
    BY <1>1, <1>2, <2>1, ScanSteps
  <2> QED
    BY <2>1, <2>2, TurnScans
<1>5. f[L] \in Scans(N, L)
  <2>1. Nat \subseteq S
    <3> HIDE DEF S
    <3> QED
      BY <1>3, <1>4, AllNumbers
  <2> QED
    BY <1>1, <2>1
<1> DEFINE s == f[L]
<1>6. s \in Scans(N, L) /\ Replay(file, t) = Ended(s)
  BY <1>2, <1>5
<1> HIDE DEF s, S
<1> QED
  BY <1>1, <1>6 DEF Replayed, Ended, Scans, Statuses

-----------------------------------------------------------------------------
(* Journals that can be read to their end. *)

\* The file is read to its end and gives t.
Whole(file, t) == Reads(file, EmptyTable, Len(file) + 1, t)

\* The file is read to its last entry, which is not sealed, and that gives t.
Torn(file, t) ==
    \E p, u : /\ Reads(file, EmptyTable, p, u)
              /\ p <= Len(file)
              /\ file[p].op \in Ops /\ ~ file[p].sealed
              /\ Applied(u, file[p]) = Accepts(t)

\* A file that is read to its end is replayed to its end.
LEMMA WholeReplay ==
    ASSUME NEW file, Len(file) \in Nat, NEW t, Whole(file, t)
    PROVE  /\ Replay(file, EmptyTable).table = t
           /\ Replay(file, EmptyTable).status = "end"
           /\ Replay(file, EmptyTable).pos = Len(file) + 1
BY ReadsReplay DEF Whole, At

\* A last entry that is not sealed is replayed as well.
LEMMA TornReplay ==
    ASSUME NEW file, Len(file) \in Nat, NEW t, Torn(file, t)
    PROVE  /\ Replay(file, EmptyTable).table = t
           /\ Replay(file, EmptyTable).status = "torn"
<1>1. PICK p, u : /\ Reads(file, EmptyTable, p, u)
                  /\ p <= Len(file)
                  /\ file[p].op \in Ops /\ ~ file[p].sealed
                  /\ Applied(u, file[p]) = Accepts(t)
  BY DEF Torn
<1>2. Replay(file, EmptyTable) = At(t, p, "torn")
  BY <1>1, ReadsTorn DEF Accepts
<1> QED
  BY <1>2 DEF At

\* An empty journal is that of an empty container, and of no other.
LEMMA EmptyFile ==
    ASSUME NEW t
    PROVE  /\ Whole(<< >>, EmptyTable)
           /\ Whole(<< >>, t) => t = EmptyTable
           /\ ~ Torn(<< >>, t)
<1>1. Len(<< >>) = 0
  OBVIOUS
<1>2. Whole(<< >>, EmptyTable)
  BY <1>1, ReadsNone DEF Whole
<1>3. ASSUME Whole(<< >>, t) PROVE t = EmptyTable
  BY <1>1, <1>2, <1>3, WholeReplay
<1>4. ASSUME Torn(<< >>, t) PROVE FALSE
  <2>1. PICK p, u : Reads(<< >>, EmptyTable, p, u) /\ p <= Len(<< >>)
    BY <1>4 DEF Torn
  <2>2. p \in Nat /\ p > 0
    BY <2>1, ReadsTo
  <2> QED
    BY <1>1, <2>1, <2>2
<1> QED
  BY <1>2, <1>3, <1>4

\* What a reader has got from a file of entries is contents.
LEMMA ReadsContents ==
    ASSUME NEW N \in Nat, NEW file \in Seq(Entries(N)), NEW t \in Contents(N),
           NEW p, NEW u, Reads(file, t, p, u), p <= Len(file) + 1
    PROVE  u \in Contents(N)
<1>0. PICK n \in Nat :
         \E at, tables : Reading(file, t, n, at, tables) /\ at[n] = p /\ tables[n] = u
  BY DEF Reads
<1>1. PICK at, tables : Reading(file, t, n, at, tables) /\ at[n] = p /\ tables[n] = u
  BY <1>0
<1> DEFINE S == {k \in Nat : k <= n => tables[k] \in Contents(N)}
<1>2. 0 \in S
  BY <1>1 DEF Reading
<1>3. ASSUME NEW k \in S PROVE k + 1 \in S
  <2> SUFFICES ASSUME k + 1 <= n PROVE tables[k + 1] \in Contents(N)
    OBVIOUS
  <2>1. k \in Nat /\ k < n /\ k \in 0 .. n /\ k + 1 \in 0 .. n /\ tables[k] \in Contents(N)
    OBVIOUS
  <2>2. Takes(file, at[k], tables[k], at[k + 1], tables[k + 1])
    BY <1>1, <2>1 DEF Reading
  <2>3. at[k] \in 1 .. Len(file)
    <3>1. at[k] \in Nat /\ at[k] > 0 /\ at[k + 1] \in Nat /\ at[k] < at[k + 1]
      BY <2>2, TakesFurther
    <3>2. at[k + 1] <= p /\ p \in Nat
      BY <1>1, <2>1, ReadsTo DEF Reading
    <3>3. Len(file) \in Nat
      OBVIOUS
    <3> QED
      BY <3>1, <3>2, <3>3
  <2>4. /\ file[at[k]] \in Entries(N) /\ file[at[k]].op \in Ops
        /\ Applied(tables[k], file[at[k]]).table = tables[k + 1]
    BY <2>2, <2>3 DEF Takes
  <2>5. file[at[k]].op # "rest"
    BY <2>4 DEF Ops, ObjectOps, SessionOps
  <2> QED
    BY <2>1, <2>4, <2>5, AppliedContents
<1>4. n \in S
  <2> HIDE DEF S
  <2> QED
    BY <1>2, <1>3, AllNumbers
<1> QED
  BY <1>1, <1>4

\* What a journal gives is a table.
LEMMA WholeContents ==
    ASSUME NEW N \in Nat, NEW file \in Seq(Entries(N)), NEW t, Whole(file, t)
    PROVE  t \in Contents(N)
<1>1. EmptyTable \in Contents(N) /\ Len(file) + 1 <= Len(file) + 1
  BY EmptyContents
<1> QED
  BY <1>1, ReadsContents DEF Whole

\* An entry that is accepted where a reader gets to, and ends the file, is read.
LEMMA WholeMore ==
    ASSUME NEW f, NEW at, NEW t, Reads(f, EmptyTable, at, t), Len(f) \in Nat,
           at <= Len(f) + 1, NEW e, e.op \in Ops, e.sealed, NEW u,
           Applied(t, e) = Accepts(u),
           NEW g, Written(f, at, e, g), Len(g) = at + Size(e) - 1
    PROVE  Whole(g, u)
<1>1. at \in Nat /\ at > 0
  BY ReadsTo
<1>2. \A i \in Nat : i > 0 /\ i < at => g[i] = f[i]
  <2>1. \A i \in Nat : i > 0 /\ i < at => i \in 1 .. Len(f)
    BY <1>1
  <2> QED
    BY <2>1 DEF Written
<1>3. Reads(g, EmptyTable, at, t)
  BY <1>2, ReadsAgree
<1>4. Takes(g, at, t, at + Size(e), u)
  <2>1. g[at] = e /\ (e.op \in ObjectOps => g[at + 1] = Rest)
    BY DEF Written
  <2> QED
    BY <1>1, <2>1, SizeIs DEF Takes, Accepts
<1>5. at + Size(e) = Len(g) + 1
  BY <1>1, SizeIs
<1> QED
  BY <1>3, <1>4, <1>5, ReadsMore DEF Whole

\* The same for one that is not sealed: the file is torn.
LEMMA TornMore ==
    ASSUME NEW f, NEW at, NEW t, Reads(f, EmptyTable, at, t), Len(f) \in Nat,
           at <= Len(f), f[at].op \in Ops, ~ f[at].sealed, NEW u,
           Applied(t, f[at]) = Accepts(u)
    PROVE  Torn(f, u)
BY DEF Torn

\* The last cell, if it is an entry, is what was read last.
LEMMA WholeLast ==
    ASSUME NEW f, Len(f) \in Nat, Len(f) > 0, NEW t, Whole(f, t),
           f[Len(f)].op \notin ObjectOps, f[Len(f)].op # "rest"
    PROVE  \E v : Reads(f, EmptyTable, Len(f), v) /\ Applied(v, f[Len(f)]) = Accepts(t)
<1> DEFINE L == Len(f)
<1>1. L + 1 # 1 /\ L \in Nat /\ Reads(f, EmptyTable, L + 1, t)
  BY DEF Whole
<1>2. PICK q, v : Reads(f, EmptyTable, q, v) /\ Takes(f, q, v, L + 1, t)
  BY <1>1, LastTaken
<1>3. q \in Nat /\ L + 1 = q + (IF f[q].op \in ObjectOps THEN 2 ELSE 1)
  BY <1>2 DEF Takes
<1>4. f[q].op \notin ObjectOps
  <2> SUFFICES ASSUME f[q].op \in ObjectOps PROVE FALSE
    OBVIOUS
  <2>1. q + 1 = L
    BY <1>1, <1>3
  <2>2. f[L] = Rest
    BY <1>2, <2>1 DEF Takes
  <2> QED
    BY <2>2 DEF Rest
<1>5. q = L
  BY <1>1, <1>3, <1>4
<1> QED
  BY <1>2, <1>5 DEF Takes, Accepts

-----------------------------------------------------------------------------
(* What the entries of calls do. *)

\* A reader that has what the program had takes the entry of a new session.
LEMMA TakesStart ==
    ASSUME NEW t, t.revision \in Nat, NEW e, e.op = "start_undo", e.rev = t.revision + 1
    PROVE  Applied(t, e) = Accepts(SessionStarted(t))
<1>1. ~ (t.revision < e.rev - 1) /\ CaughtUp(t, e.rev) = t
  BY DEF CaughtUp
<1>2. SessionStarted(t).revision = e.rev
  BY DEF SessionStarted
<1>3. Applied(t, e) = [table |-> SessionStarted(t),
                       ok    |-> SessionStarted(t).revision = e.rev]
  BY <1>1, AppliedStart
<1> QED
  BY <1>2, <1>3 DEF Accepts

\* The journal has the revision that commit returned.
LEMMA TakesCommit ==
    ASSUME NEW N \in Nat, NEW t \in Contents(N), NEW e,
           e.op = "commit", e.rev = t.revision, NEW r \in Nat,
           r >= t.revision \/ t.saved = << >>
    PROVE  Applied(t, e) = Accepts(Committed(t, r))
<1>1. t \in Tables(N) /\ t.revision \in Nat /\ Len(t.saved) \in Nat
  BY DEF Contents, Tables
<1>2. Committed(t, e.rev) = [t EXCEPT !.saved = << >>]
  BY <1>1 DEF Committed
<1>3. Committed(t, e.rev) = Committed(t, r)
  <2>1. CASE r >= t.revision
    BY <1>1, <1>2, <2>1 DEF Committed
  <2>2. CASE ~ (r >= t.revision)
    <3>1. t.saved = << >> /\ Len(t.saved) = 0
      BY <2>2
    <3>2. Committed(t, r) = t
      BY <1>1, <2>2, <3>1 DEF Committed
    <3>3. [t EXCEPT !.saved = << >>] \in Tables(N)
      BY <1>1, <3>1 DEF Tables
    <3>4. [t EXCEPT !.saved = << >>] = t
      BY <1>1, <3>1, <3>3 DEF Tables
    <3> QED
      BY <1>2, <3>2, <3>4
  <2> QED
    BY <2>1, <2>2
<1>4. Committed(t, e.rev).revision = e.rev
  BY <1>1, <1>2 DEF Tables
<1>5. Applied(t, e) = [table |-> Committed(t, e.rev),
                       ok    |-> Committed(t, e.rev).revision = e.rev]
  BY AppliedSessions
<1> QED
  BY <1>3, <1>4, <1>5 DEF Accepts

\* It takes the entry of an undo.
LEMMA TakesUndo ==
    ASSUME NEW t, NEW e
    PROVE  /\ e.op = "undo" /\ e.rev = Undone(t).revision =>
                Applied(t, e) = Accepts(Undone(t))
           /\ e.op = "undo_all" /\ e.rev = AllUndone(t).revision =>
                Applied(t, e) = Accepts(AllUndone(t))
<1>1. ASSUME e.op = "undo", e.rev = Undone(t).revision
      PROVE  Applied(t, e) = Accepts(Undone(t))
  <2>1. Applied(t, e) = [table |-> Undone(t), ok |-> Undone(t).revision = e.rev]
    BY <1>1, AppliedSessions
  <2> QED
    BY <1>1, <2>1 DEF Accepts
<1>2. ASSUME e.op = "undo_all", e.rev = AllUndone(t).revision
      PROVE  Applied(t, e) = Accepts(AllUndone(t))
  <2>1. Applied(t, e) = [table |-> AllUndone(t), ok |-> AllUndone(t).revision = e.rev]
    BY <1>2, AppliedSessions
  <2> QED
    BY <1>2, <2>1 DEF Accepts
<1> QED
  BY <1>1, <1>2

\* It takes the entry of a revision that the program was allowed to set.
LEMMA TakesRevision ==
    ASSUME NEW t, NEW e, e.op = "revision", MaySetRevision(t, e.rev)
    PROVE  Applied(t, e) = Accepts(WithRevision(t, e.rev))
BY AppliedSessions

\* What a revision that was accepted has done
LEMMA RevisionTaken ==
    ASSUME NEW v, NEW l, NEW t, l.op = "revision", Applied(v, l) = Accepts(t)
    PROVE  MaySetRevision(v, l.rev) /\ t = WithRevision(v, l.rev)
<1>1. Applied(v, l) = IF MaySetRevision(v, l.rev) THEN Accepts(WithRevision(v, l.rev))
                      ELSE Refuses(v)
  BY AppliedSessions
<1>2. Accepts(t).ok = TRUE /\ Refuses(v).ok = FALSE
  BY ResultParts
<1>3. MaySetRevision(v, l.rev)
  BY <1>1, <1>2
<1>4. Accepts(t).table = t /\ Accepts(WithRevision(v, l.rev)).table = WithRevision(v, l.rev)
  BY ResultParts
<1> QED
  BY <1>1, <1>3, <1>4

\* A revision over a revision: setting it once comes to the same.
LEMMA RevisionOverRevision ==
    ASSUME NEW N \in Nat, NEW v \in Contents(N), NEW l, l.op = "revision", l.rev \in Nat,
           NEW t, Applied(v, l) = Accepts(t),
           NEW e, e.op = "revision", e.rev \in Nat, MaySetRevision(t, e.rev)
    PROVE  Applied(v, e) = Accepts(WithRevision(t, e.rev))
<1>1. MaySetRevision(v, l.rev) /\ t = WithRevision(v, l.rev)
  BY RevisionTaken
<1>2. v \in Tables(N) /\ v.revision \in Nat
  BY DEF Contents, Tables
<1>3. t \in Tables(N) /\ t.revision = l.rev
  BY <1>1, <1>2 DEF WithRevision, Tables
<1>4. MaySetRevision(v, e.rev)
  BY <1>1, <1>2, <1>3 DEF MaySetRevision
<1>5. /\ WithRevision(v, e.rev) \in Tables(N) /\ WithRevision(t, e.rev) \in Tables(N)
      /\ WithRevision(v, e.rev) = WithRevision(t, e.rev)
  <2>1. /\ WithRevision(v, e.rev) \in Tables(N) /\ WithRevision(v, e.rev).revision = e.rev
        /\ WithRevision(v, e.rev).rows = v.rows /\ WithRevision(v, e.rev).saved = v.saved
        /\ WithRevision(v, e.rev).next_id = v.next_id
    BY <1>2 DEF WithRevision, Tables
  <2>2. /\ WithRevision(t, e.rev) \in Tables(N) /\ WithRevision(t, e.rev).revision = e.rev
        /\ WithRevision(t, e.rev).rows = t.rows /\ WithRevision(t, e.rev).saved = t.saved
        /\ WithRevision(t, e.rev).next_id = t.next_id
    BY <1>3 DEF WithRevision, Tables
  <2>3. t.rows = v.rows /\ t.saved = v.saved /\ t.next_id = v.next_id
    BY <1>1, <1>2 DEF WithRevision, Tables
  <2> QED
    BY <2>1, <2>2, <2>3, SameContents
<1> QED
  BY <1>4, <1>5, TakesRevision

\* A start over a revision: the session's start catches up with it.
LEMMA StartOverRevision ==
    ASSUME NEW N \in Nat, NEW v \in Contents(N), NEW l, l.op = "revision", l.rev \in Nat,
           NEW t, Applied(v, l) = Accepts(t),
           NEW e, e.op = "start_undo", e.rev = t.revision + 1
    PROVE  Applied(v, e) = Accepts(SessionStarted(t))
<1>1. MaySetRevision(v, l.rev) /\ t = WithRevision(v, l.rev)
  BY RevisionTaken
<1>2. v \in Tables(N) /\ v.revision \in Nat
  BY DEF Contents, Tables
<1>3. t \in Tables(N) /\ t.revision = l.rev /\ e.rev - 1 = l.rev
  BY <1>1, <1>2 DEF WithRevision, Tables
<1>4. CaughtUp(v, e.rev) = t
  <2>1. CASE v.revision < l.rev
    BY <1>1, <1>3, <2>1 DEF CaughtUp
  <2>2. CASE ~ (v.revision < l.rev)
    <3>1. v.revision = l.rev
      BY <1>1, <1>2, <2>2 DEF MaySetRevision
    <3>2. t.rows = v.rows /\ t.saved = v.saved /\ t.next_id = v.next_id
      BY <1>1, <1>2 DEF WithRevision, Tables
    <3>3. t = v
      BY <1>2, <1>3, <3>1, <3>2, SameContents
    <3> QED
      BY <1>3, <2>2, <3>3 DEF CaughtUp
  <2> QED
    BY <2>1, <2>2
<1>5. ~ (v.revision < e.rev - 1 /\ ~ MaySetRevision(v, e.rev - 1))
  BY <1>1, <1>3
<1>6. Applied(v, e) = [table |-> SessionStarted(t),
                       ok    |-> SessionStarted(t).revision = e.rev]
  BY <1>4, <1>5, AppliedStart
<1>7. SessionStarted(t).revision = e.rev
  BY <1>3 DEF SessionStarted, Tables
<1> QED
  BY <1>6, <1>7 DEF Accepts

\* A revision over the start of the only session: what its commit comes to.
LEMMA CommitOverStart ==
    ASSUME NEW N \in Nat, NEW v \in Contents(N), NEW l, l.op = "start_undo", l.rev \in Nat,
           NEW t, Applied(v, l) = Accepts(t), Len(t.saved) = 1,
           NEW e, e.op = "revision", e.rev = t.revision,
           NEW r \in Nat, r >= t.revision
    PROVE  Applied(v, e) = Accepts(Committed(t, r))
<1> DEFINE c == CaughtUp(v, l.rev)
           snapshot == [rows |-> c.rows, next_id |-> c.next_id]
<1>1. v \in Tables(N) /\ v.revision \in Nat /\ v.saved \in Seq(Snapshots(N))
  BY DEF Contents, Tables
<1>2. /\ ~ (v.revision < l.rev - 1 /\ ~ MaySetRevision(v, l.rev - 1))
      /\ t = SessionStarted(c) /\ SessionStarted(c).revision = l.rev
  <2>1. Accepts(t).ok = TRUE /\ Accepts(t).table = t /\ Refuses(v).ok = FALSE
    BY ResultParts
  <2>2. CASE v.revision < l.rev - 1 /\ ~ MaySetRevision(v, l.rev - 1)
    <3>1. Applied(v, l) = Refuses(v)
      BY <2>2, AppliedStart
    <3> QED
      BY <2>1, <3>1
  <2>3. CASE ~ (v.revision < l.rev - 1 /\ ~ MaySetRevision(v, l.rev - 1))
    <3>1. Applied(v, l) = [table |-> SessionStarted(c),
                           ok    |-> SessionStarted(c).revision = l.rev]
      BY <2>3, AppliedStart
    <3>2. Applied(v, l).table = SessionStarted(c)
      BY <3>1
    <3>3. Applied(v, l).ok = (SessionStarted(c).revision = l.rev)
      BY <3>1
    <3> QED
      BY <2>1, <2>3, <3>2, <3>3
  <2> QED
    BY <2>2, <2>3
<1>3. /\ c \in Tables(N) /\ c.saved = v.saved /\ c.rows = v.rows /\ c.next_id = v.next_id
      /\ v.revision <= c.revision
  <2>1. CASE v.revision < l.rev - 1
    <3>1. c = WithRevision(v, l.rev - 1) /\ l.rev - 1 \in Nat
      BY <1>1, <2>1 DEF CaughtUp
    <3> HIDE DEF c
    <3> QED
      BY <1>1, <2>1, <3>1 DEF WithRevision, Tables
  <2>2. CASE ~ (v.revision < l.rev - 1)
    BY <1>1, <2>2 DEF CaughtUp
  <2> QED
    BY <2>1, <2>2
<1> HIDE DEF c
<1>4. /\ t.saved = Append(v.saved, snapshot) /\ t.rows = v.rows /\ t.next_id = v.next_id
      /\ t.revision = c.revision + 1
  BY <1>2, <1>3 DEF SessionStarted, Tables
<1>5. v.saved = << >>
  <2>1. snapshot \in Snapshots(N)
    BY <1>3 DEF Snapshots, Tables
  <2> HIDE DEF snapshot
  <2>2. Len(Append(v.saved, snapshot)) = Len(v.saved) + 1 /\ Len(v.saved) \in Nat
    BY <1>1, <2>1
  <2>3. Len(v.saved) = 0
    BY <1>4, <2>2
  <2> QED
    BY <1>1, <2>3
<1>6. c.revision \in Nat /\ e.rev \in Nat /\ MaySetRevision(v, e.rev)
  BY <1>1, <1>3, <1>4, <1>5 DEF MaySetRevision, Tables
<1>7. t \in Tables(N)
  <2>1. c \in Contents(N)
    BY <1>1, <1>3, <1>5 DEF Contents, Tables
  <2> QED
    BY <1>2, <2>1, StartedContents DEF Contents
<1>8. Committed(t, r) = [t EXCEPT !.saved = << >>]
  BY <1>4, <1>6 DEF Committed
<1>9. Committed(t, r) = WithRevision(v, e.rev)
  <2>1. << >> \in Seq(Snapshots(N))
    OBVIOUS
  <2>2. /\ Committed(t, r) \in Tables(N) /\ Committed(t, r).saved = << >>
        /\ Committed(t, r).rows = t.rows /\ Committed(t, r).next_id = t.next_id
        /\ Committed(t, r).revision = t.revision
    BY <1>7, <1>8, <2>1 DEF Tables
  <2>3. /\ WithRevision(v, e.rev) \in Tables(N) /\ WithRevision(v, e.rev).saved = v.saved
        /\ WithRevision(v, e.rev).rows = v.rows
        /\ WithRevision(v, e.rev).next_id = v.next_id
        /\ WithRevision(v, e.rev).revision = e.rev
    BY <1>1, <1>6 DEF WithRevision, Tables
  <2> QED
    BY <1>4, <1>5, <2>2, <2>3, SameContents
<1> QED
  BY <1>6, <1>9, TakesRevision

-----------------------------------------------------------------------------
(* Writing an entry. *)

\* The form in which an entry is written
LEMMA FormIs ==
    ASSUME NEW N \in Nat, NEW e \in Entries(N), e.op # "rest", NEW last
    PROVE  LET w == [e EXCEPT !.op = CompressedOp(last, e.op)]
           IN  /\ w \in Entries(N) /\ w.op # "rest"
               /\ w.id = e.id /\ w.val = e.val /\ w.rev = e.rev /\ w.sealed = e.sealed
               /\ w.op = CompressedOp(last, e.op)
               /\ Size(w) = Size(e)
               /\ w.op = "remove" <=> e.op = "remove"
               /\ ~ CanCompress(last, e.op) => w = e
               /\ CanCompress(last, e.op) => w.op \in {"start_undo", "revision"}
<1> DEFINE op == CompressedOp(last, e.op)
           w  == [e EXCEPT !.op = op]
<1>1. /\ e \in [op : Ops \cup {"rest"}, id : 0 .. N, val : Vals \cup {NoVal},
                rev : Nat, sealed : BOOLEAN]
      /\ e.op \in ObjectOps => e.val \in Vals
  BY DEF Entries
<1>2. \/ op = e.op
      \/ e.op \in SessionOps /\ op = "revision" /\ CanCompress(last, e.op)
  BY DEF CompressedOp, CanCompress, SessionOps
<1>3. op \in Ops /\ op # "rest" /\ (op \in ObjectOps <=> e.op \in ObjectOps)
      /\ (op = "remove" <=> e.op = "remove")
  BY <1>1, <1>2 DEF Ops, ObjectOps, SessionOps
<1>4. CanCompress(last, e.op) => op \in {"start_undo", "revision"}
  BY DEF CanCompress, CompressedOp
<1>5. ~ CanCompress(last, e.op) => op = e.op
  BY <1>2
<1> HIDE DEF op
<1>6. /\ w \in [op : Ops \cup {"rest"}, id : 0 .. N, val : Vals \cup {NoVal},
                rev : Nat, sealed : BOOLEAN]
      /\ w.id = e.id /\ w.val = e.val /\ w.rev = e.rev /\ w.sealed = e.sealed
      /\ w.op = op
  BY <1>1, <1>3
<1>7. op = e.op => w = e
  BY <1>1
<1> HIDE DEF w
<1>8. w \in Entries(N)
  BY <1>1, <1>3, <1>6 DEF Entries
<1>9. Size(w) = Size(e)
  BY <1>3, <1>6, SizeIs
<1> QED
  BY <1>3, <1>4, <1>5, <1>6, <1>7, <1>8, <1>9 DEF op, w

\* What an entry does does not depend on its seal.
LEMMA SealedApplied ==
    ASSUME NEW N, NEW e \in Entries(N), NEW t
    PROVE  /\ Applied(t, Sealed(e)) = Applied(t, e)
           /\ Sealed(e) \in Entries(N) /\ Sealed(e).sealed
           /\ Sealed(e).op = e.op
<1> DEFINE s == Sealed(e)
<1>1. /\ s \in [op : Ops \cup {"rest"}, id : 0 .. N, val : Vals \cup {NoVal},
                rev : Nat, sealed : BOOLEAN]
      /\ s.op = e.op /\ s.id = e.id /\ s.val = e.val /\ s.rev = e.rev /\ s.sealed
  BY DEF Sealed, Entries
<1> HIDE DEF s
<1>2. s \in Entries(N)
  BY <1>1 DEF Entries
<1>3. Applied(t, s) = Applied(t, e)
  BY <1>1, Zenon DEF Applied
<1> QED
  BY <1>1, <1>2, <1>3 DEF s

\* A written file is one of entries with their rests.
LEMMA WrittenFile ==
    ASSUME NEW N \in Nat, NEW f \in Seq(Entries(N)), NoHeadAtEnd(f),
           NEW at \in Nat, 0 < at, at <= Len(f) + 1, NEW e \in Entries(N)
    PROVE  LET g == Overwrite(f, at, Cells(e))
           IN  /\ g \in Seq(Entries(N)) /\ NoHeadAtEnd(g)
               /\ Written(f, at, e, g)
               /\ Len(g) = IF Len(f) < at + Size(e) - 1 THEN at + Size(e) - 1 ELSE Len(f)
<1> DEFINE g == Overwrite(f, at, Cells(e))
<1>1. Rest \in Entries(N)
  BY DEF Rest, Entries, ObjectOps
<1>2. g \in Seq(Entries(N)) /\ Written(f, at, e, g)
  BY <1>1, OverwriteWrites
<1> HIDE DEF g
<1>3. /\ Len(g) = IF Len(f) < at + Size(e) - 1 THEN at + Size(e) - 1 ELSE Len(f)
      /\ Size(e) \in {1, 2} /\ (Size(e) = 2 <=> e.op \in ObjectOps)
  BY <1>2, SizeIs DEF Written
<1>4. Len(f) \in Nat /\ Len(g) \in Nat
  BY <1>2
<1>5. /\ g[at] = e
      /\ Size(e) = 2 => g[at + 1] = Rest
      /\ \A i \in 1 .. Len(f) : i < at \/ i >= at + Size(e) => g[i] = f[i]
  BY <1>2, <1>3, SizeIs DEF Written
<1>6. ASSUME NEW i \in 1 .. Len(g), g[i].op \in ObjectOps
      PROVE  i < Len(g)
  <2>1. CASE i = at
    <3>1. Size(e) = 2
      BY <1>3, <1>5, <1>6, <2>1
    <3> QED
      BY <1>3, <1>4, <2>1, <3>1
  <2>2. CASE i = at + 1 /\ Size(e) = 2
    BY <1>5, <1>6, <2>2 DEF Rest, ObjectOps
  <2>3. CASE i < at \/ i >= at + Size(e)
    <3>1. i \in 1 .. Len(f)
      BY <1>3, <1>4, <2>3
    <3>2. f[i].op \in ObjectOps
      BY <1>5, <1>6, <2>3, <3>1
    <3>3. i < Len(f)
      BY <3>1, <3>2 DEF NoHeadAtEnd
    <3> QED
      BY <1>3, <1>4, <3>3
  <2> QED
    BY <1>3, <2>1, <2>2, <2>3
<1>7. NoHeadAtEnd(g)
  BY <1>6 DEF NoHeadAtEnd
<1> QED
  BY <1>2, <1>3, <1>7 DEF g

\* Two sessions made one
LEMMA SquashedContents ==
    ASSUME NEW N \in Nat, NEW t \in Contents(N)
    PROVE  Squashed(t) \in Contents(N)
<1>1. CASE t.saved = << >>
  BY <1>1 DEF Squashed
<1>2. CASE t.saved # << >>
  <2> DEFINE s == SubSeq(t.saved, 1, Len(t.saved) - 1)
             r == t.revision - 1
  <2>1. /\ t.saved \in Seq(Snapshots(N)) /\ t.revision \in Nat /\ t \in Tables(N)
        /\ Len(t.saved) <= t.revision
    BY DEF Contents, Tables
  <2>2. Len(t.saved) \in Nat /\ Len(t.saved) > 0
    BY <1>2, <2>1
  <2>3. s \in Seq(Snapshots(N)) /\ Len(s) = Len(t.saved) - 1
    BY <2>1, <2>2
  <2>4. r \in Nat /\ Len(t.saved) - 1 <= r
    BY <2>1, <2>2
  <2>5. Squashed(t) = [t EXCEPT !.saved = s, !.revision = r]
    BY <1>2 DEF Squashed
  <2> HIDE DEF s, r
  <2>6. Squashed(t) \in Tables(N) /\ Squashed(t).saved = s /\ Squashed(t).revision = r
    BY <2>1, <2>3, <2>4, <2>5 DEF Tables
  <2> QED
    BY <2>3, <2>4, <2>6 DEF Contents
<1> QED
  BY <1>1, <1>2
=============================================================================
