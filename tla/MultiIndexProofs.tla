--------------------------- MODULE MultiIndexProofs ---------------------------
(***************************************************************************)
(* The trees of a multi index hold the same rows in order, for any number  *)
(* of rows and indices, through refused inserts, modifies that are moved   *)
(* back, and the transient states of an undo.                              *)
(***************************************************************************)
EXTENDS MultiIndex, SequenceTheorems, FunctionTheorems, FiniteSetTheorems,
        WellFoundedInduction, TLAPS

-----------------------------------------------------------------------------
(* Numbers and sequences. *)

\* A set of numbers has a least one.
LEMMA LeastExists ==
    ASSUME NEW T, T \subseteq Nat, T # {}
    PROVE  \E x \in T : \A y \in T : x <= y
<1>1. IsWellFoundedOn(OpToRel(<, Nat), Nat)
  BY NatLessThanWellFounded
<1>2. PICK x \in T : \A y \in T : ~ (<<y, x>> \in OpToRel(<, Nat))
  BY <1>1, WFMin
<1>3. ASSUME NEW y \in T PROVE x <= y
  <2>1. <<y, x>> \in Nat \X Nat /\ <<y, x>>[1] = y /\ <<y, x>>[2] = x
    OBVIOUS
  <2> QED
    BY <1>2, <2>1 DEF OpToRel
<1> QED
  BY <1>3

\* A set that has 0, and with each number the next, has all.
LEMMA AllNumbers ==
    ASSUME NEW S, 0 \in S, \A n \in S : n + 1 \in S
    PROVE  Nat \subseteq S
<1> DEFINE T == Nat \ S
<1> SUFFICES ASSUME T # {} PROVE FALSE
  OBVIOUS
<1>1. PICK x \in T : \A y \in T : x <= y
  BY LeastExists
<1>2. x # 0 /\ x - 1 \in Nat /\ x - 1 + 1 = x
  BY <1>1
<1>3. x - 1 \in S
  BY <1>1, <1>2
<1> QED
  BY <1>1, <1>2, <1>3

\* What Min chooses
LEMMA MinIs ==
    ASSUME NEW T, T \subseteq Nat, T # {}
    PROVE  Sets!Min(T) \in T /\ \A y \in T : Sets!Min(T) <= y
<1>1. \E x \in T : \A y \in T : x <= y
  BY LeastExists
<1>2. Sets!Min(T) = CHOOSE x \in T : \A y \in T : x <= y
  BY DEF Sets!Min
<1> QED
  BY <1>1, <1>2

\* The front and the rest of a sequence
LEMMA Parts ==
    ASSUME NEW S, NEW s \in Seq(S), NEW i \in Nat, i <= Len(s)
    PROVE  /\ SubSeq(s, 1, i) \in Seq(S) /\ Len(SubSeq(s, 1, i)) = i
           /\ \A n \in 1 .. i : SubSeq(s, 1, i)[n] = s[n]
           /\ SubSeq(s, i + 1, Len(s)) \in Seq(S)
           /\ Len(SubSeq(s, i + 1, Len(s))) = Len(s) - i
           /\ \A n \in 1 .. Len(s) - i : SubSeq(s, i + 1, Len(s))[n] = s[i + n]
<1>1. /\ Len(s) \in Nat /\ Len(s) \in Int /\ 1 \in Int /\ i \in Int /\ i + 1 \in Int
      /\ \A n \in 1 .. i : s[n] \in S
      /\ \A n \in i + 1 .. Len(s) : s[n] \in S
  OBVIOUS
<1> DEFINE front == SubSeq(s, 1, i)
           rest  == SubSeq(s, i + 1, Len(s))
<1>2. /\ front \in Seq(S) /\ Len(front) = IF 1 <= i THEN i - 1 + 1 ELSE 0
      /\ \A n \in 1 .. i - 1 + 1 : front[n] = s[1 + n - 1]
  BY ONLY <1>1, SubSeqProperties
<1>3. /\ rest \in Seq(S)
      /\ Len(rest) = IF i + 1 <= Len(s) THEN Len(s) - (i + 1) + 1 ELSE 0
      /\ \A n \in 1 .. Len(s) - (i + 1) + 1 : rest[n] = s[i + 1 + n - 1]
  BY ONLY <1>1, SubSeqProperties
<1> HIDE DEF front, rest
<1>4. /\ i - 1 + 1 = i /\ Len(s) - (i + 1) + 1 = Len(s) - i
      /\ \A n \in 1 .. i : 1 + n - 1 = n
      /\ \A n \in 1 .. Len(s) - i : i + 1 + n - 1 = i + n
  BY <1>1
<1>5. Len(front) = i
  BY <1>2, <1>4
<1>6. Len(rest) = Len(s) - i
  <2>1. ~ i + 1 <= Len(s) => Len(s) - i = 0
    BY <1>1
  <2> QED
    BY <1>3, <1>4, <2>1
<1> QED
  BY <1>2, <1>3, <1>4, <1>5, <1>6 DEF front, rest

\* A sequence with e put in at i
LEMMA InsertShape ==
    ASSUME NEW S, NEW s \in Seq(S), NEW i \in 1 .. Len(s) + 1, NEW e \in S
    PROVE  /\ Seqs!InsertAt(s, i, e) \in Seq(S)
           /\ Len(Seqs!InsertAt(s, i, e)) = Len(s) + 1
           /\ \A n \in 1 .. Len(s) + 1 :
                 Seqs!InsertAt(s, i, e)[n]
                   = IF n < i THEN s[n] ELSE IF n = i THEN e ELSE s[n - 1]
<1> DEFINE front == SubSeq(s, 1, i - 1)
           rest  == SubSeq(s, i, Len(s))
           first == front \o <<e>>
<1>1. /\ Len(s) \in Nat /\ i - 1 \in Nat /\ i - 1 <= Len(s) /\ i - 1 + 1 = i
  OBVIOUS
<1>2. /\ front \in Seq(S) /\ Len(front) = i - 1
      /\ \A n \in 1 .. i - 1 : front[n] = s[n]
      /\ rest \in Seq(S) /\ Len(rest) = Len(s) - (i - 1)
      /\ \A n \in 1 .. Len(s) - (i - 1) : rest[n] = s[i - 1 + n]
  BY <1>1, Parts
<1>3. <<e>> \in Seq(S) /\ Len(<<e>>) = 1 /\ <<e>>[1] = e
  OBVIOUS
<1> HIDE DEF front, rest
<1>4. /\ first \in Seq(S) /\ Len(first) = i - 1 + 1
      /\ \A n \in 1 .. i - 1 + 1 :
            first[n] = IF n <= i - 1 THEN front[n] ELSE <<e>>[n - (i - 1)]
  BY <1>2, <1>3, ConcatProperties
<1> HIDE DEF first
<1>5. /\ first \o rest \in Seq(S) /\ Len(first \o rest) = Len(first) + Len(rest)
      /\ \A n \in 1 .. Len(first) + Len(rest) :
            (first \o rest)[n] = IF n <= Len(first) THEN first[n]
                                 ELSE rest[n - Len(first)]
  BY <1>2, <1>4, ConcatProperties
<1>6. Seqs!InsertAt(s, i, e) = first \o rest
  BY DEF Seqs!InsertAt, first, front, rest
<1>7. Len(first) = i /\ Len(first) + Len(rest) = Len(s) + 1
  BY <1>1, <1>2, <1>4
<1>8. ASSUME NEW n \in 1 .. Len(s) + 1
      PROVE  (first \o rest)[n]
               = IF n < i THEN s[n] ELSE IF n = i THEN e ELSE s[n - 1]
  <2>1. (first \o rest)[n] = IF n <= i THEN first[n] ELSE rest[n - i]
    BY <1>5, <1>7
  <2>2. CASE n < i
    <3>1. n \in 1 .. i - 1 + 1 /\ n <= i - 1 /\ n \in 1 .. i - 1 /\ n <= i
      BY <1>1, <2>2
    <3> QED
      BY <1>2, <1>4, <2>1, <2>2, <3>1
  <2>3. CASE n = i
    <3>1. n \in 1 .. i - 1 + 1 /\ ~ n <= i - 1 /\ n - (i - 1) = 1 /\ n <= i
      BY <1>1, <2>3
    <3> QED
      BY <1>3, <1>4, <2>1, <2>3, <3>1
  <2>4. CASE n > i
    <3>1. n - i \in 1 .. Len(s) - (i - 1) /\ i - 1 + (n - i) = n - 1 /\ ~ n <= i
      BY <1>1, <2>4
    <3> QED
      BY <1>2, <2>1, <2>4, <3>1
  <2>5. n < i \/ n = i \/ n > i
    BY <1>1
  <2> QED
    BY <1>1, <2>2, <2>3, <2>4, <2>5
<1> QED
  BY <1>5, <1>6, <1>7, <1>8

\* A sequence without what is at i
LEMMA RemoveShape ==
    ASSUME NEW S, NEW s \in Seq(S), NEW i \in 1 .. Len(s)
    PROVE  /\ Seqs!RemoveAt(s, i) \in Seq(S)
           /\ Len(Seqs!RemoveAt(s, i)) = Len(s) - 1
           /\ \A n \in 1 .. Len(s) - 1 :
                 Seqs!RemoveAt(s, i)[n] = IF n < i THEN s[n] ELSE s[n + 1]
<1> DEFINE front == SubSeq(s, 1, i - 1)
           rest  == SubSeq(s, i + 1, Len(s))
<1>1. /\ Len(s) \in Nat /\ i - 1 \in Nat /\ i \in Nat /\ i - 1 <= Len(s)
      /\ i <= Len(s)
  OBVIOUS
<1>2. /\ front \in Seq(S) /\ Len(front) = i - 1
      /\ \A n \in 1 .. i - 1 : front[n] = s[n]
  BY <1>1, Parts
<1>3. /\ rest \in Seq(S) /\ Len(rest) = Len(s) - i
      /\ \A n \in 1 .. Len(s) - i : rest[n] = s[i + n]
  BY <1>1, Parts
<1> HIDE DEF front, rest
<1>4. /\ front \o rest \in Seq(S) /\ Len(front \o rest) = Len(front) + Len(rest)
      /\ \A n \in 1 .. Len(front) + Len(rest) :
            (front \o rest)[n] = IF n <= Len(front) THEN front[n]
                                 ELSE rest[n - Len(front)]
  BY <1>2, <1>3, ConcatProperties
<1>5. Seqs!RemoveAt(s, i) = front \o rest
  BY DEF Seqs!RemoveAt, front, rest
<1>6. Len(front) + Len(rest) = Len(s) - 1
  BY <1>1, <1>2, <1>3
<1>7. ASSUME NEW n \in 1 .. Len(s) - 1
      PROVE  (front \o rest)[n] = IF n < i THEN s[n] ELSE s[n + 1]
  <2>1. (front \o rest)[n] = IF n <= i - 1 THEN front[n] ELSE rest[n - (i - 1)]
    BY <1>2, <1>4, <1>6
  <2>2. CASE n < i
    <3>1. n <= i - 1 /\ n \in 1 .. i - 1
      BY <1>1, <2>2
    <3> QED
      BY <1>2, <2>1, <2>2, <3>1
  <2>3. CASE n >= i
    <3>1. ~ n <= i - 1 /\ n - (i - 1) \in 1 .. Len(s) - i
          /\ i + (n - (i - 1)) = n + 1 /\ ~ n < i
      BY <1>1, <2>3
    <3> QED
      BY <1>3, <2>1, <3>1
  <2>4. n < i \/ n >= i
    BY <1>1
  <2> QED
    BY <2>2, <2>3, <2>4
<1> QED
  BY <1>4, <1>5, <1>6, <1>7

-----------------------------------------------------------------------------
(* Trees. *)

\* The tree has the nodes S, each once.
IsTree(tree, S) ==
    /\ tree \in Seq(S)
    /\ \A id \in S : \E n \in 1 .. Len(tree) : tree[n] = id
    /\ \A m, n \in 1 .. Len(tree) : tree[m] = tree[n] => m = n

\* No node but id is behind one that is greater.
OrderedBut(i, held, tree, id) ==
    \A m, n \in 1 .. Len(tree) :
        m < n /\ tree[m] # id /\ tree[n] # id
            => Key(i, held, tree[m]) <= Key(i, held, tree[n])

Ordered(i, held, tree) ==
    \A m, n \in 1 .. Len(tree) :
        m < n => Key(i, held, tree[m]) <= Key(i, held, tree[n])

\* The nodes S have keys in index i, by the values in held.
HaveKeys(i, held, S) == \A id \in S : Key(i, held, id) \in Int

\* ... and no two of them the same.
NoneShared(i, held, S) ==
    \A id, other \in S : Key(i, held, id) = Key(i, held, other) => id = other

\* A place for a node: what is in front of it is not greater, what is behind it
\* is not less.
Fits(i, held, tree, id, at) ==
    /\ at \in 1 .. Len(tree) + 1
    /\ \A n \in 1 .. Len(tree) :
          IF n < at THEN Key(i, held, tree[n]) <= Key(i, held, id)
          ELSE Key(i, held, id) <= Key(i, held, tree[n])

\* The length of a tree and its nodes
LEMMA TreeNodes ==
    ASSUME NEW S, NEW tree, IsTree(tree, S)
    PROVE  /\ Len(tree) \in Nat /\ DOMAIN tree = 1 .. Len(tree)
           /\ \A n \in 1 .. Len(tree) : tree[n] \in S
  BY DEF IsTree

\* A node is put where the search says.
LEMMA LowerBoundFits ==
    ASSUME NEW S, NEW tree, IsTree(tree, S), NEW i, NEW held, NEW id,
           HaveKeys(i, held, S \cup {id}), Ordered(i, held, tree)
    PROVE  Fits(i, held, tree, id, LowerBound(i, held, tree, id))
<1> DEFINE T  == {Len(tree) + 1}
                 \cup {n \in 1 .. Len(tree) : ~ Less(i, held, tree[n], id)}
           at == LowerBound(i, held, tree, id)
<1>1. Len(tree) \in Nat /\ \A n \in 1 .. Len(tree) : tree[n] \in S
  BY TreeNodes
<1>2. at \in T /\ \A n \in T : at <= n
  <2>1. T \subseteq Nat /\ T # {}
    BY <1>1
  <2> QED
    BY <2>1, MinIs DEF LowerBound
<1>3. at \in 1 .. Len(tree) + 1
  BY <1>1, <1>2
<1>4. ASSUME NEW n \in 1 .. Len(tree), n < at
      PROVE  Key(i, held, tree[n]) <= Key(i, held, id)
  <2>1. n \notin T
    BY <1>1, <1>2, <1>3, <1>4
  <2>2. Less(i, held, tree[n], id)
    BY <2>1
  <2>3. Key(i, held, tree[n]) \in Int /\ Key(i, held, id) \in Int
    BY <1>1 DEF HaveKeys
  <2> QED
    BY <2>2, <2>3 DEF Less
<1>5. ASSUME NEW n \in 1 .. Len(tree), at <= n
      PROVE  Key(i, held, id) <= Key(i, held, tree[n])
  <2>1. at \in 1 .. Len(tree) /\ ~ Less(i, held, tree[at], id)
    BY <1>1, <1>2, <1>3, <1>5
  <2>2. /\ Key(i, held, tree[n]) \in Int /\ Key(i, held, id) \in Int
        /\ Key(i, held, tree[at]) \in Int
    BY <1>1, <2>1 DEF HaveKeys
  <2>3. Key(i, held, id) <= Key(i, held, tree[at])
    BY <2>1, <2>2 DEF Less
  <2>4. at < n \/ at = n
    BY <1>3, <1>5
  <2>5. Key(i, held, tree[at]) <= Key(i, held, tree[n])
    BY <2>1, <2>2, <2>4 DEF Ordered
  <2> QED
    BY <2>2, <2>3, <2>5
<1> HIDE DEF T, at
<1>6. \A n \in 1 .. Len(tree) : n < at \/ at <= n
  BY <1>1, <1>3
<1> QED
  BY <1>3, <1>4, <1>5, <1>6 DEF Fits, at

\* The same, behind the nodes with the same key
LEMMA UpperBoundFits ==
    ASSUME NEW S, NEW tree, IsTree(tree, S), NEW i, NEW held, NEW id,
           HaveKeys(i, held, S \cup {id}), Ordered(i, held, tree)
    PROVE  Fits(i, held, tree, id, UpperBound(i, held, tree, id))
<1> DEFINE T  == {Len(tree) + 1}
                 \cup {n \in 1 .. Len(tree) : Less(i, held, id, tree[n])}
           at == UpperBound(i, held, tree, id)
<1>1. Len(tree) \in Nat /\ \A n \in 1 .. Len(tree) : tree[n] \in S
  BY TreeNodes
<1>2. at \in T /\ \A n \in T : at <= n
  <2>1. T \subseteq Nat /\ T # {}
    BY <1>1
  <2> QED
    BY <2>1, MinIs DEF UpperBound
<1>3. at \in 1 .. Len(tree) + 1
  BY <1>1, <1>2
<1>4. ASSUME NEW n \in 1 .. Len(tree), n < at
      PROVE  Key(i, held, tree[n]) <= Key(i, held, id)
  <2>1. n \notin T
    BY <1>1, <1>2, <1>3, <1>4
  <2>2. ~ Less(i, held, id, tree[n])
    BY <2>1
  <2>3. Key(i, held, tree[n]) \in Int /\ Key(i, held, id) \in Int
    BY <1>1 DEF HaveKeys
  <2> QED
    BY <2>2, <2>3 DEF Less
<1>5. ASSUME NEW n \in 1 .. Len(tree), at <= n
      PROVE  Key(i, held, id) <= Key(i, held, tree[n])
  <2>1. at \in 1 .. Len(tree) /\ Less(i, held, id, tree[at])
    BY <1>1, <1>2, <1>3, <1>5
  <2>2. /\ Key(i, held, tree[n]) \in Int /\ Key(i, held, id) \in Int
        /\ Key(i, held, tree[at]) \in Int
    BY <1>1, <2>1 DEF HaveKeys
  <2>3. Key(i, held, id) <= Key(i, held, tree[at])
    BY <2>1, <2>2 DEF Less
  <2>4. at < n \/ at = n
    BY <1>3, <1>5
  <2>5. Key(i, held, tree[at]) <= Key(i, held, tree[n])
    BY <2>1, <2>2, <2>4 DEF Ordered
  <2> QED
    BY <2>2, <2>3, <2>5
<1> HIDE DEF T, at
<1>6. \A n \in 1 .. Len(tree) : n < at \/ at <= n
  BY <1>1, <1>3
<1> QED
  BY <1>3, <1>4, <1>5, <1>6 DEF Fits, at

\* A tree with one node more
LEMMA InsertTree ==
    ASSUME NEW S, NEW tree, IsTree(tree, S), NEW i, NEW held, NEW id, id \notin S,
           HaveKeys(i, held, S \cup {id}), Ordered(i, held, tree),
           NEW at, Fits(i, held, tree, id, at)
    PROVE  /\ IsTree(Seqs!InsertAt(tree, at, id), S \cup {id})
           /\ Ordered(i, held, Seqs!InsertAt(tree, at, id))
<1> DEFINE new == Seqs!InsertAt(tree, at, id)
           S2  == S \cup {id}
           from(n) == IF n < at THEN n ELSE n - 1
<1>1. /\ Len(tree) \in Nat /\ at \in 1 .. Len(tree) + 1
      /\ \A n \in 1 .. Len(tree) : tree[n] \in S
      /\ tree \in Seq(S2)
  <2>1. tree \in Seq(S) /\ S \subseteq S2
    BY DEF IsTree
  <2>2. tree \in Seq(S2)
    BY <2>1
  <2> QED
    BY <2>2, TreeNodes DEF Fits
<1>2. /\ new \in Seq(S2) /\ Len(new) = Len(tree) + 1
      /\ \A n \in 1 .. Len(tree) + 1 :
            new[n] = IF n < at THEN tree[n] ELSE IF n = at THEN id ELSE tree[n - 1]
  BY <1>1, InsertShape
<1> HIDE DEF new
<1>3. /\ new[at] = id
      /\ \A n \in 1 .. Len(new) :
            n # at => from(n) \in 1 .. Len(tree) /\ new[n] = tree[from(n)]
      /\ \A n \in 1 .. Len(tree) :
            \E k \in 1 .. Len(new) : k # at /\ from(k) = n
  <2>1. new[at] = id
    BY <1>1, <1>2
  <2>2. ASSUME NEW n \in 1 .. Len(new), n # at
        PROVE  from(n) \in 1 .. Len(tree) /\ new[n] = tree[from(n)]
    BY <1>1, <1>2, <2>2
  <2>3. ASSUME NEW n \in 1 .. Len(tree)
        PROVE  \E k \in 1 .. Len(new) : k # at /\ from(k) = n
    <3>1. CASE n < at
      BY <1>1, <1>2, <3>1
    <3>2. CASE n >= at
      <4>1. n + 1 \in 1 .. Len(new) /\ n + 1 # at /\ from(n + 1) = n
        BY <1>1, <1>2, <3>2
      <4> QED
        BY <4>1
    <3> QED
      BY <1>1, <3>1, <3>2
  <2> QED
    BY <2>1, <2>2, <2>3
<1>4. \A m, n \in 1 .. Len(new) :
         m # at /\ n # at =>
            (from(m) = from(n) => m = n) /\ (m < n => from(m) < from(n))
  BY <1>1, <1>2
<1>5. \A n \in 1 .. Len(new) :
         /\ n < at => from(n) < at
         /\ n > at => from(n) >= at
  BY <1>1, <1>2
<1>6. Len(new) \in Nat /\ at \in 1 .. Len(new)
  BY <1>1, <1>2
<1> HIDE DEF from
<1>7. ASSUME NEW x \in S2 PROVE \E n \in 1 .. Len(new) : new[n] = x
  <2>1. CASE x = id
    BY <1>3, <1>6, <2>1
  <2>2. CASE x \in S
    <3>1. PICK n \in 1 .. Len(tree) : tree[n] = x
      BY <2>2 DEF IsTree
    <3> QED
      BY <1>3, <3>1
  <2> QED
    BY <2>1, <2>2
<1>8. ASSUME NEW m \in 1 .. Len(new), NEW n \in 1 .. Len(new), new[m] = new[n]
      PROVE  m = n
  <2>1. CASE m # at /\ n # at
    <3>1. /\ from(m) \in 1 .. Len(tree) /\ from(n) \in 1 .. Len(tree)
          /\ tree[from(m)] = tree[from(n)]
      BY <1>3, <1>8, <2>1
    <3>2. from(m) = from(n)
      BY <3>1 DEF IsTree
    <3> QED
      BY <1>4, <2>1, <3>2
  <2>2. CASE m = at \/ n = at
    BY <1>1, <1>3, <1>8, <2>2
  <2> QED
    BY <2>1, <2>2
<1>9. ASSUME NEW m \in 1 .. Len(new), NEW n \in 1 .. Len(new), m < n
      PROVE  Key(i, held, new[m]) <= Key(i, held, new[n])
  <2>1. CASE m # at /\ n # at
    BY <1>3, <1>4, <1>9, <2>1 DEF Ordered
  <2>2. CASE m = at
    <3>1. n # at /\ n > at /\ from(n) \in 1 .. Len(tree)
      BY <1>3, <1>6, <1>9, <2>2
    <3>2. from(n) >= at /\ ~ from(n) < at
      BY <1>1, <1>5, <3>1
    <3> QED
      BY <1>3, <2>2, <3>1, <3>2 DEF Fits
  <2>3. CASE n = at
    <3>1. m # at /\ m < at /\ from(m) \in 1 .. Len(tree)
      BY <1>3, <1>6, <1>9, <2>3
    <3> QED
      BY <1>3, <1>5, <2>3, <3>1 DEF Fits
  <2> QED
    BY <2>1, <2>2, <2>3
<1> QED
  BY <1>2, <1>7, <1>8, <1>9 DEF IsTree, Ordered, new

\* Where a node of a tree is
LEMMA PlaceIs ==
    ASSUME NEW S, NEW tree, IsTree(tree, S), NEW id \in S
    PROVE  /\ Place(tree, id) \in 1 .. Len(tree)
           /\ \A n \in 1 .. Len(tree) : tree[n] = id <=> n = Place(tree, id)
<1>1. \E n \in 1 .. Len(tree) : tree[n] = id
  BY DEF IsTree
<1>2. Place(tree, id) \in 1 .. Len(tree) /\ tree[Place(tree, id)] = id
  BY <1>1 DEF Place
<1> QED
  BY <1>2 DEF IsTree

\* A tree with one node less is in order if the others were.
LEMMA RemoveTree ==
    ASSUME NEW S, NEW tree, IsTree(tree, S), NEW id \in S, NEW i, NEW held,
           OrderedBut(i, held, tree, id)
    PROVE  /\ IsTree(Seqs!RemoveAt(tree, Place(tree, id)), S \ {id})
           /\ Ordered(i, held, Seqs!RemoveAt(tree, Place(tree, id)))
<1> DEFINE at  == Place(tree, id)
           new == Seqs!RemoveAt(tree, at)
           from(n) == IF n < at THEN n ELSE n + 1
<1>1. /\ Len(tree) \in Nat /\ at \in 1 .. Len(tree)
      /\ \A n \in 1 .. Len(tree) : tree[n] \in S
      /\ \A n \in 1 .. Len(tree) : tree[n] = id <=> n = at
      /\ tree \in Seq(S)
  <2>1. at \in 1 .. Len(tree) /\ \A n \in 1 .. Len(tree) : tree[n] = id <=> n = at
    BY PlaceIs
  <2>2. Len(tree) \in Nat /\ \A n \in 1 .. Len(tree) : tree[n] \in S
    BY TreeNodes
  <2>3. tree \in Seq(S)
    BY DEF IsTree
  <2> QED
    BY <2>1, <2>2, <2>3
<1> HIDE DEF at
<1>2. /\ new \in Seq(S) /\ Len(new) = Len(tree) - 1
      /\ \A n \in 1 .. Len(tree) - 1 :
            new[n] = IF n < at THEN tree[n] ELSE tree[n + 1]
  BY <1>1, RemoveShape
<1> HIDE DEF new
<1>3. ASSUME NEW n \in 1 .. Len(new)
      PROVE  /\ from(n) \in 1 .. Len(tree) /\ from(n) # at
             /\ new[n] = tree[from(n)] /\ new[n] \in S \ {id}
  <2>1. from(n) \in 1 .. Len(tree) /\ from(n) # at /\ new[n] = tree[from(n)]
    BY <1>1, <1>2
  <2> QED
    BY <1>1, <2>1
<1>4. \A m, n \in 1 .. Len(new) :
         (from(m) = from(n) => m = n) /\ (m < n => from(m) < from(n))
  BY <1>1, <1>2
<1>5. ASSUME NEW n \in 1 .. Len(tree), n # at
      PROVE  \E k \in 1 .. Len(new) : from(k) = n
  <2>1. CASE n < at
    <3>1. n \in 1 .. Len(new) /\ from(n) = n
      BY <1>1, <1>2, <2>1
    <3> QED
      BY <3>1
  <2>2. CASE n > at
    <3>1. n - 1 \in 1 .. Len(new) /\ from(n - 1) = n
      BY <1>1, <1>2, <2>2
    <3> QED
      BY <3>1
  <2> QED
    BY <1>1, <1>5, <2>1, <2>2
<1> HIDE DEF from
<1>6. new \in Seq(S \ {id})
  BY <1>2, <1>3
<1>7. ASSUME NEW x \in S \ {id} PROVE \E n \in 1 .. Len(new) : new[n] = x
  <2>1. PICK n \in 1 .. Len(tree) : tree[n] = x
    BY DEF IsTree
  <2>2. PICK k \in 1 .. Len(new) : from(k) = n
    BY <1>1, <1>5, <2>1
  <2> QED
    BY <1>3, <2>1, <2>2
<1>8. ASSUME NEW m \in 1 .. Len(new), NEW n \in 1 .. Len(new), new[m] = new[n]
      PROVE  m = n
  <2>1. from(m) = from(n)
    <3>1. /\ from(m) \in 1 .. Len(tree) /\ from(n) \in 1 .. Len(tree)
          /\ tree[from(m)] = tree[from(n)]
      BY <1>3, <1>8
    <3> QED
      BY <3>1 DEF IsTree
  <2> QED
    BY <1>4, <2>1
<1>9. ASSUME NEW m \in 1 .. Len(new), NEW n \in 1 .. Len(new), m < n
      PROVE  Key(i, held, new[m]) <= Key(i, held, new[n])
  <2>1. /\ from(m) \in 1 .. Len(tree) /\ from(n) \in 1 .. Len(tree)
        /\ from(m) < from(n) /\ tree[from(m)] # id /\ tree[from(n)] # id
        /\ new[m] = tree[from(m)] /\ new[n] = tree[from(n)]
    BY <1>1, <1>3, <1>4, <1>9
  <2> QED
    BY <2>1 DEF OrderedBut
<1> QED
  BY <1>6, <1>7, <1>8, <1>9 DEF IsTree, Ordered, new, at

\* A key is taken if some node of the tree has it.
LEMMA TakenIs ==
    ASSUME NEW S, NEW tree, IsTree(tree, S), NEW i, NEW held, NEW id
    PROVE  /\ Taken(i, held, tree, id) \in BOOLEAN
           /\ Taken(i, held, tree, id)
                <=> \E other \in S : Key(i, held, other) = Key(i, held, id)
<1>1. \A n \in 1 .. Len(tree) : tree[n] \in S
  BY TreeNodes
<1> QED
  BY <1>1 DEF Taken, IsTree

\* insert_unique
LEMMA InsertedTree ==
    ASSUME NEW S, NEW tree, IsTree(tree, S), NEW i, NEW held, NEW id, id \notin S,
           HaveKeys(i, held, S \cup {id}), Ordered(i, held, tree)
    PROVE  /\ IsTree(Inserted(i, held, tree, id), S \cup {id})
           /\ Ordered(i, held, Inserted(i, held, tree, id))
  BY LowerBoundFits, InsertTree DEF Inserted

\* A node that is neither below its left neighbour nor above its right one is in
\* its place, and no other node has its key.
LEMMA InOrder ==
    ASSUME NEW S, NEW tree, IsTree(tree, S), NEW id \in S, NEW i, NEW held,
           HaveKeys(i, held, S), OrderedBut(i, held, tree, id),
           ~ OutOfOrder(i, held, tree, id)
    PROVE  /\ Ordered(i, held, tree)
           /\ \A other \in S \ {id} : Key(i, held, other) # Key(i, held, id)
<1> DEFINE at == Place(tree, id)
<1>1. at \in 1 .. Len(tree) /\ \A n \in 1 .. Len(tree) : tree[n] = id <=> n = at
  BY PlaceIs
<1>2. /\ Len(tree) \in Nat
      /\ \A n \in 1 .. Len(tree) : tree[n] \in S
      /\ \A n \in 1 .. Len(tree) : Key(i, held, tree[n]) \in Int
  BY TreeNodes DEF HaveKeys
<1>3. /\ at > 1 => Less(i, held, tree[at - 1], id)
      /\ at < Len(tree) => Less(i, held, id, tree[at + 1])
  BY DEF OutOfOrder
<1> HIDE DEF at
<1>4. ASSUME NEW m \in 1 .. Len(tree), NEW n \in 1 .. Len(tree), m < n,
             m # at, n # at
      PROVE  Key(i, held, tree[m]) <= Key(i, held, tree[n])
  BY <1>1, <1>4 DEF OrderedBut
<1>5. ASSUME NEW n \in 1 .. Len(tree), n < at
      PROVE  Key(i, held, tree[n]) < Key(i, held, id)
  <2>1. at - 1 \in 1 .. Len(tree) /\ at > 1 /\ at - 1 # at /\ n # at
    BY <1>1, <1>2, <1>5
  <2>2. Key(i, held, tree[at - 1]) < Key(i, held, id)
    BY <1>3, <2>1 DEF Less
  <2>3. n < at - 1 \/ n = at - 1
    BY <1>1, <1>2, <1>5
  <2>4. Key(i, held, tree[n]) <= Key(i, held, tree[at - 1])
    BY <1>2, <1>4, <2>1, <2>3
  <2>5. Key(i, held, id) \in Int
    BY <1>1, <1>2
  <2> QED
    BY <1>2, <2>1, <2>2, <2>4, <2>5
<1>6. ASSUME NEW n \in 1 .. Len(tree), n > at
      PROVE  Key(i, held, id) < Key(i, held, tree[n])
  <2>1. at + 1 \in 1 .. Len(tree) /\ at < Len(tree) /\ at + 1 # at /\ n # at
    BY <1>1, <1>2, <1>6
  <2>2. Key(i, held, id) < Key(i, held, tree[at + 1])
    BY <1>3, <2>1 DEF Less
  <2>3. at + 1 < n \/ n = at + 1
    BY <1>1, <1>2, <1>6
  <2>4. Key(i, held, tree[at + 1]) <= Key(i, held, tree[n])
    BY <1>2, <1>4, <2>1, <2>3
  <2>5. Key(i, held, id) \in Int
    BY <1>1, <1>2
  <2> QED
    BY <1>2, <2>1, <2>2, <2>4, <2>5
<1>7. Key(i, held, id) \in Int /\ tree[at] = id
  BY <1>1, <1>2
<1>8. ASSUME NEW m \in 1 .. Len(tree), NEW n \in 1 .. Len(tree), m < n
      PROVE  Key(i, held, tree[m]) <= Key(i, held, tree[n])
  <2>1. CASE m = at
    BY <1>2, <1>6, <1>7, <1>8, <2>1
  <2>2. CASE n = at
    BY <1>2, <1>5, <1>7, <1>8, <2>2
  <2> QED
    BY <1>4, <1>8, <2>1, <2>2
<1>9. ASSUME NEW other \in S \ {id} PROVE Key(i, held, other) # Key(i, held, id)
  <2>1. PICK n \in 1 .. Len(tree) : tree[n] = other
    BY DEF IsTree
  <2>2. n < at \/ n > at
    BY <1>1, <1>2, <2>1
  <2>3. Key(i, held, tree[n]) \in Int
    BY <1>2
  <2> QED
    BY <1>5, <1>6, <1>7, <2>1, <2>2, <2>3
<1> QED
  BY <1>8, <1>9 DEF Ordered

\* post_modify_impl in one tree: the node comes to its place in any case, and
\* what is told is whether its key was its own.
LEMMA RefiledTree ==
    ASSUME NEW S, NEW tree, IsTree(tree, S), NEW id \in S, NEW i, NEW held,
           HaveKeys(i, held, S), OrderedBut(i, held, tree, id),
           NEW unique \in BOOLEAN
    PROVE  LET filed == Refiled(unique, i, held, tree, id)
           IN  /\ filed.ok \in BOOLEAN
               /\ IsTree(filed.tree, S)
               /\ Ordered(i, held, filed.tree)
               /\ ~ unique => filed.ok
               /\ unique => (filed.ok <=> \A other \in S \ {id} :
                                   Key(i, held, other) # Key(i, held, id))
<1> DEFINE rest  == Seqs!RemoveAt(tree, Place(tree, id))
           filed == Refiled(unique, i, held, tree, id)
           taken == Taken(i, held, rest, id)
           Own   == \A other \in S \ {id} : Key(i, held, other) # Key(i, held, id)
           upper == Seqs!InsertAt(rest, UpperBound(i, held, rest, id), id)
<1>1. IsTree(rest, S \ {id}) /\ Ordered(i, held, rest)
  BY RemoveTree
<1>2. HaveKeys(i, held, (S \ {id}) \cup {id}) /\ (S \ {id}) \cup {id} = S
  BY DEF HaveKeys
<1>3. taken \in BOOLEAN /\ (taken <=> ~ Own)
  BY <1>1, TakenIs
<1>4. /\ IsTree(Inserted(i, held, rest, id), S)
      /\ Ordered(i, held, Inserted(i, held, rest, id))
  <2>1. id \notin S \ {id}
    OBVIOUS
  <2> HIDE DEF rest
  <2> QED
    BY <1>1, <1>2, <2>1, InsertedTree
<1>5. IsTree(upper, S) /\ Ordered(i, held, upper)
  <2>1. id \notin S \ {id}
    OBVIOUS
  <2> HIDE DEF rest
  <2>2. Fits(i, held, rest, id, UpperBound(i, held, rest, id))
    BY <1>1, <1>2, UpperBoundFits
  <2> QED
    BY <1>1, <1>2, <2>1, <2>2, InsertTree
<1>6. CASE ~ OutOfOrder(i, held, tree, id)
  <2>1. filed = [ok |-> TRUE, tree |-> tree]
    BY <1>6 DEF Refiled
  <2>2. Ordered(i, held, tree) /\ Own
    BY <1>6, InOrder
  <2> QED
    BY <2>1, <2>2
<1>7. CASE OutOfOrder(i, held, tree, id) /\ unique
  <2>1. filed = [ok |-> ~ taken, tree |-> Inserted(i, held, rest, id)]
    BY <1>7 DEF Refiled
  <2>2. filed.tree = Inserted(i, held, rest, id) /\ filed.ok = ~ taken
    BY <2>1
  <2> HIDE DEF rest, filed, taken, Own
  <2> QED
    BY <1>3, <1>4, <1>7, <2>2 DEF filed, Own
<1>8. CASE OutOfOrder(i, held, tree, id) /\ ~ unique
  <2>1. filed = [ok |-> TRUE, tree |-> upper]
    BY <1>8 DEF Refiled
  <2>2. filed.tree = upper /\ filed.ok = TRUE
    BY <2>1
  <2> HIDE DEF rest, filed, upper
  <2> QED
    BY <1>5, <1>8, <2>2 DEF filed
<1> QED
  BY <1>6, <1>7, <1>8

-----------------------------------------------------------------------------
(* All trees. *)

\* The trees have the nodes S.
Forest(old, S) ==
    /\ old = [i \in Indices |-> old[i]]
    /\ \A i \in Indices : IsTree(old[i], S)

AllOrdered(held, old) == \A i \in Indices : Ordered(i, held, old[i])

\* id may be out of its place, but not in the primary tree.
AllOrderedBut(held, old, id) ==
    /\ Ordered(0, held, old[0])
    /\ \A i \in Indices : OrderedBut(i, held, old[i], id)

AllHaveKeys(held, S) == \A i \in Indices : HaveKeys(i, held, S)

AllUnique(held, S) == \A i \in Indices : NoneShared(i, held, S)

\* id has its key for itself.
HasOwn(i, held, S, id) ==
    \A other \in S \ {id} : Key(i, held, other) # Key(i, held, id)

\* The values of the nodes S are the same.
SameOn(S, held, other) == \A id \in S : held[id] = other[id]

\* Numbers of indices
LEMMA IndexFacts == /\ Indices \subseteq Nat /\ 0 \in Indices
                    /\ 1 .. Secondary \subseteq Indices
                    /\ \A i \in Indices : i # 0 <=> i \in 1 .. Secondary
  BY MultiIndexAssumption DEF Indices

\* Rows with values have keys.
LEMMA ValuesHaveKeys ==
    ASSUME NEW S, S \subseteq Nat, NEW held, \A id \in S : held[id] \in Vals
    PROVE  AllHaveKeys(held, S)
<1> SUFFICES ASSUME NEW i \in Indices, NEW id \in S
             PROVE  Key(i, held, id) \in Int
  BY DEF AllHaveKeys, HaveKeys
<1>1. CASE i = 0
  BY <1>1 DEF Key
<1>2. CASE i # 0
  <2>1. i \in 1 .. Secondary /\ held[id] \in [1 .. Secondary -> Int]
    BY <1>2, IndexFacts, MultiIndexAssumption
  <2> QED
    BY <1>2, <2>1 DEF Key
<1> QED
  BY <1>1, <1>2

\* Keys are those of the values.
LEMMA SameKeys ==
    ASSUME NEW S, NEW held, NEW other, SameOn(S, held, other), NEW i, NEW id \in S
    PROVE  Key(i, held, id) = Key(i, other, id)
  BY DEF SameOn, Key

\* ... and so is the order of trees,
LEMMA SameOrder ==
    ASSUME NEW S, NEW held, NEW other, SameOn(S, held, other),
           NEW old, Forest(old, S)
    PROVE  AllOrdered(held, old) => AllOrdered(other, old)
<1> SUFFICES ASSUME AllOrdered(held, old), NEW i \in Indices,
                    NEW m \in 1 .. Len(old[i]), NEW n \in 1 .. Len(old[i]), m < n
             PROVE  Key(i, other, old[i][m]) <= Key(i, other, old[i][n])
  BY DEF AllOrdered, Ordered
<1>1. old[i][m] \in S /\ old[i][n] \in S
  BY TreeNodes DEF Forest
<1>2. /\ Key(i, held, old[i][m]) = Key(i, other, old[i][m])
      /\ Key(i, held, old[i][n]) = Key(i, other, old[i][n])
  BY <1>1, SameKeys
<1>3. Key(i, held, old[i][m]) <= Key(i, held, old[i][n])
  BY DEF AllOrdered, Ordered
<1> QED
  BY <1>2, <1>3

\* and who shares a key.
LEMMA SameUnique ==
    ASSUME NEW S, NEW held, NEW other, SameOn(S, held, other)
    PROVE  AllUnique(held, S) => AllUnique(other, S)
  BY SameKeys DEF AllUnique, NoneShared

\* A node whose value changes may come to be out of place, no other one.
LEMMA WriteDisorders ==
    ASSUME NEW S, NEW id \in S, NEW held, NEW other, SameOn(S \ {id}, held, other),
           NEW old, Forest(old, S), AllOrderedBut(held, old, id)
    PROVE  AllOrderedBut(other, old, id)
<1>1. Ordered(0, other, old[0])
  BY DEF AllOrderedBut, Ordered, Key
<1>2. ASSUME NEW i \in Indices,
             NEW m \in 1 .. Len(old[i]), NEW n \in 1 .. Len(old[i]), m < n,
             old[i][m] # id, old[i][n] # id
      PROVE  Key(i, other, old[i][m]) <= Key(i, other, old[i][n])
  <2>1. old[i][m] \in S \ {id} /\ old[i][n] \in S \ {id}
    BY <1>2, TreeNodes DEF Forest
  <2>2. /\ Key(i, held, old[i][m]) = Key(i, other, old[i][m])
        /\ Key(i, held, old[i][n]) = Key(i, other, old[i][n])
    BY <2>1, SameKeys
  <2>3. Key(i, held, old[i][m]) <= Key(i, held, old[i][n])
    BY <1>2 DEF AllOrderedBut, OrderedBut
  <2> QED
    BY <2>2, <2>3
<1> QED
  BY <1>1, <1>2 DEF AllOrderedBut, OrderedBut

\* Trees in order are so but for any node.
LEMMA OrderedAllBut ==
    ASSUME NEW held, NEW old, AllOrdered(held, old), NEW id
    PROVE  AllOrderedBut(held, old, id)
  BY IndexFacts DEF AllOrdered, AllOrderedBut, Ordered, OrderedBut

\* erase_impl
LEMMA ErasedTrees ==
    ASSUME NEW S, NEW old, Forest(old, S), NEW id \in S, NEW held,
           AllOrderedBut(held, old, id)
    PROVE  Forest(Erased(old, id), S \ {id}) /\ AllOrdered(held, Erased(old, id))
<1>1. ASSUME NEW i \in Indices
      PROVE  /\ IsTree(Erased(old, id)[i], S \ {id})
             /\ Ordered(i, held, Erased(old, id)[i])
  <2>1. Erased(old, id)[i] = Seqs!RemoveAt(old[i], Place(old[i], id))
    BY DEF Erased
  <2>2. IsTree(old[i], S) /\ OrderedBut(i, held, old[i], id)
    BY DEF Forest, AllOrderedBut
  <2> QED
    BY <2>1, <2>2, RemoveTree
<1>2. Erased(old, id) = [i \in Indices |-> Erased(old, id)[i]]
  BY DEF Erased
<1> QED
  BY <1>1, <1>2 DEF Forest, AllOrdered

\* What insert_impl gives for a node that the trees do not have
InsertOutcome(from, old, held, S, id, try) ==
    /\ try.ok \in BOOLEAN
    /\ try.ok <=> \A i \in from .. Secondary : HasOwn(i, held, S, id)
    /\ ~ try.ok => try.trees = old
    /\ try.trees = [i \in Indices |-> try.trees[i]]
    /\ try.ok => \A i \in Indices : i >= from =>
          IsTree(try.trees[i], S \cup {id}) /\ Ordered(i, held, try.trees[i])
    /\ \A i \in Indices : ~ i >= from => try.trees[i] = old[i]

\* insert_impl puts the node into all trees or into none.
LEMMA InsertImplTrees ==
    ASSUME NEW S, NEW old, Forest(old, S), NEW id, id \notin S, NEW held,
           AllOrdered(held, old), AllHaveKeys(held, S \cup {id}),
           NEW from \in {0, 1}
    PROVE  InsertOutcome(from, old, held, S, id, InsertImpl(from, old, held, id))
<1> DEFINE try == InsertImpl(from, old, held, id)
           Ok  == \A i \in from .. Secondary : ~ Taken(i, held, old[i], id)
           new == [i \in Indices |->
                     IF Ok /\ i >= from THEN Inserted(i, held, old[i], id)
                     ELSE old[i]]
<1>1. try = [ok |-> Ok, trees |-> new]
  BY DEF InsertImpl
<1>2. try.ok = Ok /\ try.trees = new
  <2> HIDE DEF try, Ok, new
  <2> QED
    BY <1>1
<1>3. Ok <=> \A i \in from .. Secondary : HasOwn(i, held, S, id)
  <2>1. ASSUME NEW i \in from .. Secondary
        PROVE  ~ Taken(i, held, old[i], id) <=> HasOwn(i, held, S, id)
    <3>1. IsTree(old[i], S)
      BY MultiIndexAssumption DEF Forest, Indices
    <3> QED
      BY <3>1, TakenIs DEF HasOwn
  <2> QED
    BY <2>1
<1>4. ~ Ok => new = old
  <2> SUFFICES ASSUME ~ Ok PROVE new = old
    OBVIOUS
  <2>1. new = [i \in Indices |-> old[i]]
    OBVIOUS
  <2> QED
    BY <2>1 DEF Forest
<1>5. ASSUME Ok, NEW i \in Indices, i >= from
      PROVE  IsTree(new[i], S \cup {id}) /\ Ordered(i, held, new[i])
  <2>1. new[i] = Inserted(i, held, old[i], id)
    BY <1>5
  <2>2. /\ IsTree(old[i], S) /\ HaveKeys(i, held, S \cup {id})
        /\ Ordered(i, held, old[i])
    BY DEF Forest, AllOrdered, AllHaveKeys
  <2> HIDE DEF new
  <2> QED
    BY <2>1, <2>2, InsertedTree
<1>6. \A i \in Indices : ~ i >= from => new[i] = old[i]
  OBVIOUS
<1>7. new = [i \in Indices |-> new[i]] /\ Ok \in BOOLEAN
  OBVIOUS
<1> HIDE DEF try, Ok, new
<1> QED
  BY <1>2, <1>3, <1>4, <1>5, <1>6, <1>7 DEF InsertOutcome, try

\* What post_modify_impl gives for a node with a new value
PostOutcome(unique, held, S, id, post) ==
    /\ post.ok \in BOOLEAN
    /\ Forest(post.trees, S)
    /\ AllOrderedBut(held, post.trees, id)
    /\ post.ok => AllOrdered(held, post.trees)
    /\ ~ unique => post.ok
    /\ unique => (post.ok <=> \A i \in 1 .. Secondary : HasOwn(i, held, S, id))

\* post_modify_impl: as far as it came every tree is in order again.
LEMMA PostModifyTrees ==
    ASSUME NEW S, NEW old, Forest(old, S), NEW id \in S, NEW held,
           AllOrderedBut(held, old, id), AllHaveKeys(held, S),
           NEW unique \in BOOLEAN
    PROVE  PostOutcome(unique, held, S, id, PostModify(unique, old, held, id))
<1> DEFINE post     == PostModify(unique, old, held, id)
           filed(i) == Refiled(unique, i, held, old[i], id)
           first(i) == \A j \in 1 .. i - 1 : filed(j).ok
           Ok       == \A i \in 1 .. Secondary : filed(i).ok
           new      == [i \in Indices |->
                          IF i > 0 /\ first(i) THEN filed(i).tree ELSE old[i]]
<1>1. post = [ok |-> Ok, trees |-> new]
  BY DEF PostModify
<1>2. post.ok = Ok /\ post.trees = new
  <2> HIDE DEF post, Ok, new
  <2> QED
    BY <1>1
<1>3. ASSUME NEW i \in Indices
      PROVE  /\ filed(i).ok \in BOOLEAN
             /\ IsTree(filed(i).tree, S) /\ Ordered(i, held, filed(i).tree)
             /\ ~ unique => filed(i).ok
             /\ unique => (filed(i).ok <=> HasOwn(i, held, S, id))
  <2>1. /\ IsTree(old[i], S) /\ HaveKeys(i, held, S)
        /\ OrderedBut(i, held, old[i], id)
    BY DEF Forest, AllHaveKeys, AllOrderedBut
  <2> QED
    BY <2>1, RefiledTree DEF HasOwn
<1>4. /\ 1 .. Secondary \subseteq Indices
      /\ \A i \in Indices : i = 0 \/ i \in 1 .. Secondary
  BY MultiIndexAssumption DEF Indices
<1> HIDE DEF filed
<1>5. ~ unique => Ok
  BY <1>3, <1>4
<1>6. unique => (Ok <=> \A i \in 1 .. Secondary : HasOwn(i, held, S, id))
  BY <1>3, <1>4
<1>7. ASSUME NEW i \in Indices
      PROVE  /\ IsTree(new[i], S)
             /\ OrderedBut(i, held, new[i], id)
             /\ i = 0 \/ Ok => Ordered(i, held, new[i])
  <2>1. CASE i > 0 /\ first(i)
    <3>1. new[i] = filed(i).tree
      BY <2>1
    <3>2. IsTree(new[i], S) /\ Ordered(i, held, new[i])
      BY <1>3, <3>1
    <3> QED
      BY <3>2 DEF Ordered, OrderedBut
  <2>2. CASE ~ (i > 0 /\ first(i))
    <3>1. new[i] = old[i]
      BY <2>2
    <3>2. IsTree(new[i], S) /\ OrderedBut(i, held, new[i], id)
      BY <3>1 DEF Forest, AllOrderedBut
    <3>3. i = 0 \/ Ok => Ordered(i, held, new[i])
      <4>1. Ok => i = 0
        <5> SUFFICES ASSUME Ok, i # 0 PROVE FALSE
          OBVIOUS
        <5>1. i \in 1 .. Secondary /\ i > 0
          BY <1>4
        <5>2. 1 .. i - 1 \subseteq 1 .. Secondary
          BY <5>1, MultiIndexAssumption
        <5> QED
          BY <2>2, <5>1, <5>2
      <4> HIDE DEF new, Ok
      <4> QED
        BY <3>1, <4>1 DEF AllOrderedBut
    <3> QED
      BY <3>2, <3>3
  <2> QED
    BY <2>1, <2>2
<1>8. new = [i \in Indices |-> new[i]] /\ Ok \in BOOLEAN
  OBVIOUS
<1> HIDE DEF post, Ok, new
<1>9. Forest(new, S)
  BY <1>7, <1>8 DEF Forest
<1>10. AllOrderedBut(held, new, id)
  BY <1>7, IndexFacts DEF AllOrderedBut
<1>11. Ok => AllOrdered(held, new)
  BY <1>7 DEF AllOrdered
<1> QED
  BY <1>2, <1>5, <1>6, <1>8, <1>9, <1>10, <1>11 DEF PostOutcome, post

-----------------------------------------------------------------------------
(* Copying. *)

\* The first n nodes of the primary tree
FirstNodes(n) == {trees[0][k] : k \in 1 .. n}

\* A function on 0 .. n by recursion, as that of Copied is
InsertsUpTo(i, n, f) ==
    f = [m \in 0 .. n |-> IF m = 0 THEN << >>
                          ELSE Inserted(i, vals, f[m - 1], trees[0][m])]

\* There is such a function.
LEMMA InsertsExist ==
    ASSUME NEW i, NEW n \in Nat
    PROVE  \E f : InsertsUpTo(i, n, f)
<1> DEFINE S == {k \in Nat : \E f : InsertsUpTo(i, k, f)}
<1>1. 0 \in S
  <2> DEFINE f == [m \in 0 .. 0 |-> << >>]
  <2>1. InsertsUpTo(i, 0, f)
    BY DEF InsertsUpTo
  <2> QED
    BY <2>1
<1>2. ASSUME NEW k \in S PROVE k + 1 \in S
  <2>1. k \in Nat /\ k + 1 \in Nat
    OBVIOUS
  <2>2. PICK f : InsertsUpTo(i, k, f)
    OBVIOUS
  <2> DEFINE g == [m \in 0 .. k + 1 |->
                     IF m = k + 1 THEN Inserted(i, vals, f[k], trees[0][m])
                     ELSE f[m]]
  <2>3. ASSUME NEW m \in 0 .. k + 1
        PROVE  g[m] = IF m = 0 THEN << >>
                      ELSE Inserted(i, vals, g[m - 1], trees[0][m])
    <3>1. CASE m = k + 1
      <4>1. m - 1 = k /\ k \in 0 .. k + 1 /\ k # k + 1 /\ m # 0
        BY <2>1, <3>1
      <4>2. g[m - 1] = f[k]
        BY <4>1
      <4> QED
        BY <3>1, <4>1, <4>2
    <3>2. CASE m # k + 1
      <4>1. m \in 0 .. k
        BY <2>1, <3>2
      <4>2. f[m] = IF m = 0 THEN << >> ELSE Inserted(i, vals, f[m - 1], trees[0][m])
        BY <2>2, <4>1 DEF InsertsUpTo
      <4>3. m # 0 => m - 1 \in 0 .. k + 1 /\ m - 1 # k + 1
        BY <2>1, <4>1
      <4>4. g[m] = f[m] /\ (m # 0 => g[m - 1] = f[m - 1])
        BY <3>2, <4>3
      <4> QED
        BY <4>2, <4>4
    <3> QED
      BY <3>1, <3>2
  <2>4. InsertsUpTo(i, k + 1, g)
    <3>1. g = [m \in 0 .. k + 1 |-> g[m]]
      OBVIOUS
    <3> HIDE DEF g
    <3> QED
      BY <2>3, <3>1 DEF InsertsUpTo
  <2> QED
    BY <2>1, <2>4
<1>3. Nat \subseteq S
  BY <1>1, <1>2, AllNumbers
<1> QED
  BY <1>3

\* Copied is the last of its values.
LEMMA CopiedIs ==
    ASSUME NEW i, Len(trees[0]) \in Nat
    PROVE  \E f : InsertsUpTo(i, Len(trees[0]), f) /\ Copied(i) = f[Len(trees[0])]
<1> DEFINE f == CHOOSE f : InsertsUpTo(i, Len(trees[0]), f)
<1>1. InsertsUpTo(i, Len(trees[0]), f)
  BY InsertsExist
<1>2. Copied(i) = f[Len(trees[0])]
  BY DEF Copied, InsertsUpTo
<1> QED
  BY <1>1, <1>2

\* The copy of a tree has the rows in the order of its keys.
LEMMA CopiedTree ==
    ASSUME NEW S, IsTree(trees[0], S), NEW i, HaveKeys(i, vals, S)
    PROVE  IsTree(Copied(i), S) /\ Ordered(i, vals, Copied(i))
<1> DEFINE L == Len(trees[0])
<1>1. L \in Nat /\ \A n \in 1 .. L : trees[0][n] \in S
  BY TreeNodes
<1>2. PICK f : InsertsUpTo(i, L, f) /\ Copied(i) = f[L]
  BY <1>1, CopiedIs
<1> DEFINE Good(n) == IsTree(f[n], FirstNodes(n)) /\ Ordered(i, vals, f[n])
           T       == {n \in Nat : n <= L => Good(n)}
<1>3. 0 \in T
  <2>1. f[0] = << >>
    BY <1>1, <1>2 DEF InsertsUpTo
  <2>2. FirstNodes(0) = {}
    BY DEF FirstNodes
  <2>3. IsTree(<< >>, {}) /\ Ordered(i, vals, << >>)
    BY DEF IsTree, Ordered
  <2> QED
    BY <2>1, <2>2, <2>3
<1>4. ASSUME NEW n \in T PROVE n + 1 \in T
  <2> SUFFICES ASSUME n + 1 <= L PROVE Good(n + 1)
    OBVIOUS
  <2>1. n \in Nat /\ n <= L /\ n + 1 \in 1 .. L /\ n + 1 \in 0 .. L
    BY <1>1
  <2>2. Good(n)
    BY <2>1
  <2>3. f[n + 1] = Inserted(i, vals, f[n], trees[0][n + 1])
    <3>1. f[n + 1] = IF n + 1 = 0 THEN << >>
                     ELSE Inserted(i, vals, f[(n + 1) - 1], trees[0][n + 1])
      BY <1>2, <2>1 DEF InsertsUpTo
    <3>2. n + 1 # 0 /\ (n + 1) - 1 = n
      BY <2>1
    <3> QED
      BY <3>1, <3>2
  <2>4. FirstNodes(n + 1) = FirstNodes(n) \cup {trees[0][n + 1]}
    BY <2>1 DEF FirstNodes
  <2>5. trees[0][n + 1] \notin FirstNodes(n)
    <3> SUFFICES ASSUME NEW k \in 1 .. n, trees[0][k] = trees[0][n + 1] PROVE FALSE
      BY DEF FirstNodes
    <3>1. k \in 1 .. L /\ k # n + 1
      BY <1>1, <2>1
    <3> QED
      BY <2>1, <3>1 DEF IsTree
  <2>6. HaveKeys(i, vals, FirstNodes(n) \cup {trees[0][n + 1]})
    <3>1. FirstNodes(n + 1) \subseteq S
      BY <1>1, <2>1 DEF FirstNodes
    <3> QED
      BY <2>4, <3>1 DEF HaveKeys
  <2>7. IsTree(f[n], FirstNodes(n)) /\ Ordered(i, vals, f[n])
    BY <2>2
  <2>8. /\ IsTree(f[n + 1], FirstNodes(n) \cup {trees[0][n + 1]})
        /\ Ordered(i, vals, f[n + 1])
    <3> DEFINE tree == f[n]
               row  == trees[0][n + 1]
               R    == FirstNodes(n)
    <3>1. /\ IsTree(tree, R) /\ Ordered(i, vals, tree) /\ row \notin R
          /\ HaveKeys(i, vals, R \cup {row})
      BY <2>5, <2>6, <2>7
    <3> HIDE DEF tree, row, R
    <3>2. /\ IsTree(Inserted(i, vals, tree, row), R \cup {row})
          /\ Ordered(i, vals, Inserted(i, vals, tree, row))
      BY <3>1, InsertedTree
    <3> QED
      BY <2>3, <3>2 DEF tree, row, R
  <2> QED
    BY <2>4, <2>8
<1>5. Good(L)
  <2> HIDE DEF Good
  <2>1. Nat \subseteq T
    BY <1>3, <1>4, AllNumbers
  <2> QED
    BY <1>1, <2>1
<1>6. FirstNodes(L) = S
  <2>1. \A x \in S : \E n \in 1 .. L : trees[0][n] = x
    BY DEF IsTree
  <2> QED
    BY <1>1, <2>1 DEF FirstNodes
<1> QED
  BY <1>2, <1>5, <1>6

-----------------------------------------------------------------------------
(* The inductive invariant. *)

\* Values of some rows
Held == UNION {[S -> Vals] : S \in SUBSET Ids}

Typed ==
    /\ vals \in Held
    /\ next_id \in 0 .. MaxId + 1
    /\ session \in [open : BOOLEAN, vals : Held, next_id : 0 .. MaxId + 1]
    /\ backups \in Held
    /\ removed \in Held
    /\ stamped \subseteq Ids
    /\ stage \in {"idle", "erasing", "restoring", "inserting"}
    /\ result \in {"done", "threw"}
    /\ asserts \in BOOLEAN
    /\ risked \in BOOLEAN

\* Keys are given out in order.
BelowNextId == \A id \in DOMAIN vals : id < next_id

\* Every tree has the rows, in the order of its keys; also in the middle of undo.
InTrees == Forest(trees, DOMAIN vals) /\ AllOrdered(vals, trees)

\* Keys are shared in the middle of undo only.
KeysUnique == stage # "restoring" => AllUnique(vals, DOMAIN vals)

\* A row that is new in the session was stamped, and one that has a backup.
Stamps ==
    session.open =>
        /\ session.next_id <= next_id
        /\ \A id \in DOMAIN vals :
              id \in DOMAIN backups \/ ~ id < session.next_id => id \in stamped

\* The rows of the session's start are those that are still there and those that
\* were removed, and a row has a backup unless it has its value yet, if none was lost.
Undoable == session.open /\ ~ risked

Recoverable ==
    Undoable =>
        /\ session.next_id <= next_id
        /\ DOMAIN session.vals
             = {id \in DOMAIN vals : id < session.next_id} \cup DOMAIN removed
        /\ DOMAIN vals \cap DOMAIN removed = {}
        /\ DOMAIN backups \subseteq DOMAIN session.vals
        /\ \A id \in DOMAIN session.vals :
              /\ id < session.next_id
              /\ session.vals[id] = IF id \in DOMAIN backups THEN backups[id]
                                    ELSE IF id \in DOMAIN vals THEN vals[id]
                                    ELSE removed[id]
        /\ AllUnique(session.vals, DOMAIN session.vals)

\* What the parts of undo have done
Stages ==
    /\ ~ session.open =>
          stage = "idle" /\ DOMAIN backups = {} /\ DOMAIN removed = {} /\ ~ risked
    /\ stage # "idle" => result = "done" /\ ~ risked
    /\ stage \in {"restoring", "inserting"} =>
          \A id \in DOMAIN vals : id < session.next_id
    /\ stage = "inserting" => DOMAIN backups = {}
    /\ asserts

Order ==
    /\ Typed
    /\ BelowNextId
    /\ InTrees
    /\ KeysUnique
    /\ Stamps
    /\ Recoverable
    /\ Stages

-----------------------------------------------------------------------------
(* Values of rows. *)

\* Values of rows are a function on them, and give them keys.
LEMMA HeldFacts ==
    ASSUME NEW held \in Held
    PROVE  /\ DOMAIN held \subseteq Ids
           /\ DOMAIN held \subseteq Nat
           /\ \A id \in DOMAIN held : held[id] \in Vals
           /\ held = [k \in DOMAIN held |-> held[k]]
           /\ AllHaveKeys(held, DOMAIN held)
<1>1. PICK S \in SUBSET Ids : held \in [S -> Vals]
  BY DEF Held
<1>2. DOMAIN held = S /\ S \subseteq Nat
  BY <1>1, MultiIndexAssumption DEF Ids
<1>3. /\ \A id \in DOMAIN held : held[id] \in Vals
      /\ held = [k \in DOMAIN held |-> held[k]]
  BY <1>1
<1> QED
  BY <1>2, <1>3, ValuesHaveKeys

\* Any such function is one.
LEMMA HeldIs ==
    ASSUME NEW S, S \subseteq Ids, NEW held \in [S -> Vals]
    PROVE  held \in Held
  BY DEF Held

\* new has v for id, and what held has for the others.
Writes(held, id, v, new) ==
    /\ new \in Held
    /\ DOMAIN new = DOMAIN held \cup {id}
    /\ new[id] = v
    /\ \A k \in DOMAIN held : k # id => new[k] = held[k]

\* new is held without id.
Drops(held, id, new) ==
    /\ new \in Held
    /\ DOMAIN new = DOMAIN held \ {id}
    /\ \A k \in DOMAIN held \ {id} : new[k] = held[k]

\* Rows with one that is put in
LEMMA WithWrites ==
    ASSUME NEW held \in Held, NEW id \in Ids, NEW v \in Vals
    PROVE  Writes(held, id, v, With(held, id, v))
<1>1. With(held, id, v) \in [DOMAIN held \cup {id} -> Vals]
  BY HeldFacts DEF With
<1>2. With(held, id, v) \in Held
  BY <1>1, HeldFacts, HeldIs
<1>3. /\ DOMAIN With(held, id, v) = DOMAIN held \cup {id}
      /\ With(held, id, v)[id] = v
      /\ \A k \in DOMAIN held : k # id => With(held, id, v)[k] = held[k]
  BY DEF With
<1> QED
  BY <1>2, <1>3 DEF Writes

\* ... without one
LEMMA WithoutDrops ==
    ASSUME NEW held \in Held, NEW id
    PROVE  Drops(held, id, Without(held, id))
<1>1. Without(held, id) \in [DOMAIN held \ {id} -> Vals]
  BY HeldFacts DEF Without
<1>2. Without(held, id) \in Held
  BY <1>1, HeldFacts, HeldIs
<1>3. /\ DOMAIN Without(held, id) = DOMAIN held \ {id}
      /\ \A k \in DOMAIN held \ {id} : Without(held, id)[k] = held[k]
  BY DEF Without
<1> QED
  BY <1>2, <1>3 DEF Drops

\* ... with one that is written
LEMMA ExceptWrites ==
    ASSUME NEW held \in Held, NEW id \in DOMAIN held, NEW v \in Vals
    PROVE  Writes(held, id, v, [held EXCEPT ![id] = v])
<1> DEFINE new == [held EXCEPT ![id] = v]
<1>1. new \in [DOMAIN held -> Vals]
  BY HeldFacts
<1>2. new \in Held
  BY <1>1, HeldFacts, HeldIs
<1>3. /\ DOMAIN new = DOMAIN held \cup {id} /\ new[id] = v
      /\ \A k \in DOMAIN held : k # id => new[k] = held[k]
  BY HeldFacts
<1> QED
  BY <1>2, <1>3 DEF Writes

\* No rows are rows, too.
LEMMA NoneIsHeld == None \in Held /\ DOMAIN None = {}
<1>1. None \in [{} -> Vals] /\ DOMAIN None = {}
  BY DEF None
<1> QED
  BY <1>1, HeldIs

\* Unique keys of fewer rows
LEMMA FewerUnique ==
    ASSUME NEW S, NEW T, T \subseteq S, NEW held, AllUnique(held, S)
    PROVE  AllUnique(held, T)
  BY DEF AllUnique, NoneShared

\* ... of one more, which has its keys for itself
LEMMA OneMoreUnique ==
    ASSUME NEW S, NEW id, NEW held, AllUnique(held, S \ {id}),
           \A i \in 1 .. Secondary : HasOwn(i, held, S, id)
    PROVE  AllUnique(held, S \cup {id})
<1> SUFFICES ASSUME NEW i \in Indices, NEW k \in S \cup {id}, NEW l \in S \cup {id},
                    Key(i, held, k) = Key(i, held, l)
             PROVE  k = l
  BY DEF AllUnique, NoneShared
<1>1. CASE i = 0
  BY <1>1 DEF Key
<1>2. CASE i # 0
  <2>1. HasOwn(i, held, S, id)
    BY <1>2, IndexFacts
  <2>2. NoneShared(i, held, S \ {id})
    BY DEF AllUnique
  <2> QED
    BY <2>1, <2>2 DEF HasOwn, NoneShared
<1> QED
  BY <1>1, <1>2

\* ... and of one of them
LEMMA UniqueIsOwn ==
    ASSUME NEW S, NEW id \in S, NEW held, AllUnique(held, S)
    PROVE  \A i \in Indices : HasOwn(i, held, S, id)
  BY DEF AllUnique, NoneShared, HasOwn

\* The primary tree with a new last row
LEMMA AppendTree ==
    ASSUME NEW S, S \subseteq Nat, NEW tree, IsTree(tree, S), NEW held,
           Ordered(0, held, tree), NEW id \in Nat, \A k \in S : k < id
    PROVE  /\ IsTree(Append(tree, id), S \cup {id})
           /\ Ordered(0, held, Append(tree, id))
<1> DEFINE new == Append(tree, id)
           S2  == S \cup {id}
<1>1. /\ Len(tree) \in Nat
      /\ \A n \in 1 .. Len(tree) : tree[n] \in S
  BY TreeNodes
<1>2. tree \in Seq(S2)
  <2>1. tree \in Seq(S) /\ S \subseteq S2
    BY DEF IsTree
  <2> QED
    BY <2>1
<1>3. /\ new \in Seq(S2) /\ Len(new) = Len(tree) + 1
      /\ new[Len(tree) + 1] = id
      /\ \A n \in 1 .. Len(tree) : new[n] = tree[n]
  BY <1>2
<1> HIDE DEF new
<1>4. \A n \in 1 .. Len(new) : n \in 1 .. Len(tree) \/ n = Len(tree) + 1
  BY <1>1, <1>3
<1>5. ASSUME NEW x \in S2 PROVE \E n \in 1 .. Len(new) : new[n] = x
  <2>1. CASE x = id
    BY <1>1, <1>3, <2>1
  <2>2. CASE x \in S
    <3>1. PICK n \in 1 .. Len(tree) : tree[n] = x
      BY <2>2 DEF IsTree
    <3>2. n \in 1 .. Len(new) /\ new[n] = x
      BY <1>1, <1>3, <3>1
    <3> QED
      BY <3>2
  <2> QED
    BY <2>1, <2>2
<1>6. id \notin S
  OBVIOUS
<1>7. ASSUME NEW m \in 1 .. Len(new), NEW n \in 1 .. Len(new), new[m] = new[n]
      PROVE  m = n
  <2>1. CASE m \in 1 .. Len(tree) /\ n \in 1 .. Len(tree)
    BY <1>3, <1>7, <2>1 DEF IsTree
  <2>2. CASE m = Len(tree) + 1 \/ n = Len(tree) + 1
    BY <1>1, <1>3, <1>4, <1>6, <1>7, <2>2
  <2> QED
    BY <1>4, <2>1, <2>2
<1>8. ASSUME NEW m \in 1 .. Len(new), NEW n \in 1 .. Len(new), m < n
      PROVE  new[m] <= new[n]
  <2>1. m \in 1 .. Len(tree)
    BY <1>1, <1>3, <1>8
  <2>2. CASE n \in 1 .. Len(tree)
    <3>1. Key(0, held, tree[m]) <= Key(0, held, tree[n])
      BY <1>8, <2>1, <2>2 DEF Ordered
    <3> QED
      BY <1>3, <2>1, <2>2, <3>1 DEF Key
  <2>3. CASE n = Len(tree) + 1
    <3>1. tree[m] \in S /\ tree[m] < id
      BY <1>1, <2>1
    <3>2. tree[m] \in Nat
      BY <3>1
    <3> QED
      BY <1>3, <2>1, <2>3, <3>1, <3>2
  <2> QED
    BY <1>4, <2>2, <2>3
<1>9. IsTree(new, S2)
  BY <1>3, <1>5, <1>7 DEF IsTree
<1>10. Ordered(0, held, new)
  BY <1>8 DEF Ordered, Key
<1> QED
  BY <1>9, <1>10 DEF new

-----------------------------------------------------------------------------
(* Every action keeps the invariant. *)

\* What the invariant says of the rows that are there
LEMMA RowFacts ==
    ASSUME Order
    PROVE  /\ vals \in Held
           /\ DOMAIN vals \subseteq Ids /\ DOMAIN vals \subseteq Nat
           /\ \A id \in DOMAIN vals : vals[id] \in Vals /\ id < next_id
           /\ next_id \in Nat
           /\ AllHaveKeys(vals, DOMAIN vals)
           /\ Forest(trees, DOMAIN vals) /\ AllOrdered(vals, trees)
           /\ stage # "restoring" => AllUnique(vals, DOMAIN vals)
           /\ session.open \in BOOLEAN /\ session.next_id \in 0 .. MaxId + 1
           /\ session.next_id \in Nat /\ session.vals \in Held
<1>1. /\ vals \in Held /\ next_id \in 0 .. MaxId + 1
      /\ session.open \in BOOLEAN /\ session.next_id \in 0 .. MaxId + 1
      /\ session.vals \in Held
  BY DEF Order, Typed
<1>2. next_id \in Nat /\ session.next_id \in Nat
  BY <1>1, MultiIndexAssumption
<1> QED
  BY <1>1, <1>2, HeldFacts DEF Order, BelowNextId, InTrees, KeysUnique

\* A new multi index
LEMMA InitOrder == Init => Order
<1> SUFFICES ASSUME Init PROVE Order
  OBVIOUS
<1>1. /\ vals = None /\ backups = None /\ removed = None /\ session = NoSession
      /\ next_id = 0 /\ stage = "idle" /\ result = "done" /\ asserts = TRUE
      /\ trees = [i \in Indices |-> << >>] /\ stamped = {} /\ risked = FALSE
  BY DEF Init
<1>2. /\ session.open = FALSE /\ session.vals = None /\ session.next_id = 0
      /\ session \in [open : BOOLEAN, vals : Held, next_id : 0 .. MaxId + 1]
  <2>1. NoSession.open = FALSE /\ NoSession.vals = None /\ NoSession.next_id = 0
    BY DEF NoSession
  <2>2. NoSession \in [open : BOOLEAN, vals : Held, next_id : 0 .. MaxId + 1]
    BY NoneIsHeld, MultiIndexAssumption DEF NoSession
  <2> QED
    BY <1>1, <2>1, <2>2
<1>3. Typed
  BY <1>1, <1>2, NoneIsHeld, MultiIndexAssumption DEF Typed
<1>4. InTrees
  <2>1. DOMAIN vals = {}
    BY <1>1, NoneIsHeld
  <2>2. ASSUME NEW i \in Indices
        PROVE  IsTree(trees[i], {}) /\ Ordered(i, vals, trees[i])
    BY <1>1 DEF IsTree, Ordered
  <2> QED
    BY <1>1, <2>1, <2>2 DEF InTrees, Forest, AllOrdered
<1>5. BelowNextId /\ KeysUnique
  BY <1>1, NoneIsHeld DEF BelowNextId, KeysUnique, AllUnique, NoneShared
<1>6. Recoverable /\ Stamps
  BY <1>2 DEF Recoverable, Undoable, Stamps
<1>7. Stages
  BY <1>1, <1>2, NoneIsHeld DEF Stages
<1> QED
  BY <1>3, <1>4, <1>5, <1>6, <1>7 DEF Order

\* What undo would restore is not changed by calls for younger rows.
LEMMA YoungerRows ==
    ASSUME Recoverable, session' = session, backups' = backups, removed' = removed,
           risked' = risked,
           Undoable => session.next_id <= next_id',
           \A id : Undoable /\ id < session.next_id =>
               /\ id \in DOMAIN vals <=> id \in DOMAIN vals'
               /\ id \in DOMAIN vals => vals'[id] = vals[id],
           Undoable => DOMAIN vals' \cap DOMAIN removed = {}
    PROVE  Recoverable'
<1> SUFFICES ASSUME Undoable PROVE Recoverable'
  BY DEF Recoverable, Undoable
<1>1. /\ DOMAIN session.vals
           = {id \in DOMAIN vals : id < session.next_id} \cup DOMAIN removed
      /\ DOMAIN backups \subseteq DOMAIN session.vals
      /\ AllUnique(session.vals, DOMAIN session.vals)
  BY DEF Recoverable
<1>2. \A id \in DOMAIN session.vals :
         /\ id < session.next_id
         /\ session.vals[id] = IF id \in DOMAIN backups THEN backups[id]
                               ELSE IF id \in DOMAIN vals THEN vals[id]
                               ELSE removed[id]
  BY DEF Recoverable
<1>3. DOMAIN session.vals
        = {id \in DOMAIN vals' : id < session.next_id} \cup DOMAIN removed
  BY <1>1
<1>4. \A id \in DOMAIN session.vals :
         session.vals[id] = IF id \in DOMAIN backups THEN backups[id]
                            ELSE IF id \in DOMAIN vals' THEN vals'[id]
                            ELSE removed[id]
  BY <1>2
<1> QED
  BY <1>1, <1>2, <1>3, <1>4 DEF Recoverable

\* emplace: the new row is in every tree or in none.
LEMMA EmplaceOrder ==
    ASSUME Order, NEW id \in Ids, NEW v \in Vals, Emplace(id, v)
    PROVE  Order'
<1> DEFINE S    == DOMAIN vals
           held == With(vals, id, v)
           try  == InsertImpl(1, trees, held, id)
<1>1. /\ vals \in Held /\ S \subseteq Nat /\ next_id \in Nat
      /\ Forest(trees, S) /\ AllOrdered(vals, trees)
      /\ \A k \in S : k < next_id
      /\ session.next_id \in Nat /\ session.open \in BOOLEAN
  BY RowFacts
<1>2. /\ stage = "idle" /\ id >= next_id /\ id \in Nat
      /\ UNCHANGED <<session, backups, removed, stage, asserts, risked>>
  BY MultiIndexAssumption DEF Emplace, Ids
<1>3. id \notin S /\ \A k \in S : k < id
  BY <1>1, <1>2
<1>4. /\ held \in Held /\ DOMAIN held = S \cup {id}
      /\ \A k \in S : held[k] = vals[k]
      /\ SameOn(S, vals, held)
  <2>1. Writes(vals, id, v, held)
    BY <1>1, WithWrites
  <2> HIDE DEF held
  <2> QED
    BY <1>3, <2>1 DEF Writes, SameOn
<1>5. AllOrdered(held, trees) /\ AllHaveKeys(held, S \cup {id})
  BY <1>1, <1>4, SameOrder, HeldFacts
<1>6. /\ try.ok \in BOOLEAN
      /\ try.ok <=> \A i \in 1 .. Secondary : HasOwn(i, held, S, id)
      /\ ~ try.ok => try.trees = trees
      /\ try.trees = [i \in Indices |-> try.trees[i]]
      /\ try.ok => \A i \in Indices : i >= 1 =>
            IsTree(try.trees[i], S \cup {id}) /\ Ordered(i, held, try.trees[i])
      /\ \A i \in Indices : ~ i >= 1 => try.trees[i] = trees[i]
  <2>1. 1 \in {0, 1}
    OBVIOUS
  <2> HIDE DEF held, S
  <2>2. InsertOutcome(1, trees, held, S, id, try)
    BY <1>1, <1>3, <1>5, <2>1, InsertImplTrees
  <2> HIDE DEF try
  <2> QED
    BY <2>2 DEF InsertOutcome
<1> DEFINE Done == /\ try.ok
                   /\ trees' = [try.trees EXCEPT ![0] = Append(try.trees[0], id)]
                   /\ vals' = held
                   /\ next_id' = IdAfter(id)
                   /\ stamped' = IF session.open THEN stamped \cup {id} ELSE stamped
                   /\ result' = "done"
           Threw == /\ ~ try.ok
                    /\ trees' = try.trees
                    /\ result' = "threw"
                    /\ UNCHANGED <<vals, next_id, stamped>>
<1>7. Done \/ Threw
  BY DEF Emplace
<1>8. CASE Threw
  <2>1. /\ trees' = trees /\ vals' = vals /\ next_id' = next_id /\ stamped' = stamped
        /\ result' = "threw"
    BY <1>6, <1>8
  <2> QED
    BY <1>2, <2>1
       DEF Order, Typed, BelowNextId, InTrees, KeysUnique, Stamps, Recoverable,
           Undoable, Stages
<1>9. CASE Done
  <2>1. /\ try.ok /\ vals' = held /\ next_id' = id + 1 /\ result' = "done"
        /\ DOMAIN vals' = S \cup {id}
        /\ trees' = [try.trees EXCEPT ![0] = Append(try.trees[0], id)]
        /\ stamped' = IF session.open THEN stamped \cup {id} ELSE stamped
    BY <1>4, <1>9 DEF IdAfter
  <2> HIDE DEF Done, Threw, held, try
  <2>2. Typed'
    <3>1. stamped' \subseteq Ids /\ result' \in {"done", "threw"} /\ vals' \in Held
      BY <1>4, <2>1 DEF Order, Typed
    <3>2. next_id' \in 0 .. MaxId + 1
      BY <1>2, <2>1, MultiIndexAssumption DEF Ids
    <3> QED
      BY <1>2, <3>1, <3>2 DEF Order, Typed
  <2>3. BelowNextId'
    BY <1>1, <1>2, <1>3, <2>1 DEF BelowNextId
  <2>4. InTrees'
    <3>1. /\ IsTree(trees[0], S) /\ Ordered(0, held, trees[0])
          /\ try.trees[0] = trees[0]
      BY <1>1, <1>5, <1>6, IndexFacts DEF Forest, AllOrdered
    <3>2. /\ IsTree(Append(trees[0], id), S \cup {id})
          /\ Ordered(0, held, Append(trees[0], id))
      BY <1>1, <1>2, <1>3, <3>1, AppendTree
    <3>3. trees' = [i \in Indices |->
                      IF i = 0 THEN Append(trees[0], id) ELSE try.trees[i]]
      BY <1>6, <2>1, <3>1, IndexFacts
    <3>4. \A i \in Indices : i = 0 \/ i >= 1
      BY IndexFacts
    <3>5. ASSUME NEW i \in Indices
          PROVE  IsTree(trees'[i], S \cup {id}) /\ Ordered(i, held, trees'[i])
      <4>1. CASE i = 0
        BY <3>2, <3>3, <4>1
      <4>2. CASE i # 0
        <5>1. trees'[i] = try.trees[i] /\ i >= 1
          BY <3>3, <3>4, <4>2
        <5> QED
          BY <1>6, <2>1, <5>1
      <4> QED
        BY <4>1, <4>2
    <3> QED
      BY <2>1, <3>3, <3>5 DEF InTrees, Forest, AllOrdered
  <2>5. KeysUnique'
    <3>1. AllUnique(held, S \ {id})
      <4>1. S \ {id} = S
        BY <1>3
      <4> QED
        BY <1>2, <1>4, <4>1, RowFacts, SameUnique
    <3>2. AllUnique(held, S \cup {id})
      BY <1>6, <2>1, <3>1, OneMoreUnique
    <3> QED
      BY <2>1, <3>2 DEF KeysUnique
  <2>6. Recoverable'
    <3>1. Recoverable /\ (Undoable => session.next_id <= next_id)
      BY DEF Order, Recoverable
    <3>2. Undoable => session.next_id <= next_id' /\ ~ id < session.next_id
      BY <1>1, <1>2, <2>1, <3>1
    <3>3. \A k : Undoable /\ k < session.next_id =>
             /\ k \in DOMAIN vals <=> k \in DOMAIN vals'
             /\ k \in DOMAIN vals => vals'[k] = vals[k]
      BY <1>4, <2>1, <3>2
    <3>4. Undoable => DOMAIN vals' \cap DOMAIN removed = {}
      <4>1. Undoable =>
               /\ S \cap DOMAIN removed = {}
               /\ \A k \in DOMAIN removed : k < session.next_id
        BY <3>1 DEF Recoverable
      <4> QED
        BY <2>1, <3>2, <4>1
    <3> QED
      BY <1>2, <3>1, <3>2, <3>3, <3>4, YoungerRows
  <2>7. Stages'
    BY <1>2, <2>1 DEF Order, Stages
  <2>8. Stamps'
    <3> SUFFICES ASSUME session.open PROVE Stamps'
      BY <1>2 DEF Stamps
    <3>1. /\ session.next_id <= next_id
          /\ \A k \in S : k \in DOMAIN backups \/ ~ k < session.next_id => k \in stamped
      BY DEF Order, Stamps
    <3>2. session.next_id <= next_id'
      BY <1>1, <1>2, <2>1, <3>1
    <3>3. stamped' = stamped \cup {id}
      BY <2>1
    <3> QED
      BY <1>2, <2>1, <3>1, <3>2, <3>3 DEF Stamps
  <2> QED
    BY <2>2, <2>3, <2>4, <2>5, <2>6, <2>7, <2>8 DEF Order
<1> QED
  BY <1>7, <1>8, <1>9

\* A row is written and filed.
LEMMA WritePosts ==
    ASSUME vals \in Held, Forest(trees, DOMAIN vals), AllOrdered(vals, trees),
           NEW id \in DOMAIN vals, NEW v \in Vals, NEW unique \in BOOLEAN,
           NEW held, held = [vals EXCEPT ![id] = v]
    PROVE  /\ Writes(vals, id, v, held)
           /\ DOMAIN held = DOMAIN vals
           /\ PostOutcome(unique, held, DOMAIN vals, id,
                          PostModify(unique, trees, held, id))
<1>1. Writes(vals, id, v, held)
  BY ExceptWrites
<1>2. DOMAIN held = DOMAIN vals /\ held \in Held
  BY <1>1 DEF Writes
<1>3. SameOn(DOMAIN vals \ {id}, vals, held)
  BY <1>1 DEF Writes, SameOn
<1>4. AllOrderedBut(held, trees, id)
  BY <1>3, OrderedAllBut, WriteDisorders
<1>5. AllHaveKeys(held, DOMAIN vals)
  BY <1>2, HeldFacts
<1> QED
  BY <1>1, <1>2, <1>4, <1>5, PostModifyTrees

\* A row is taken out of all trees.
LEMMA DropTrees ==
    ASSUME vals \in Held, NEW id \in DOMAIN vals, NEW old, Forest(old, DOMAIN vals),
           NEW held, AllOrderedBut(held, old, id),
           SameOn(DOMAIN vals \ {id}, held, vals)
    PROVE  /\ Drops(vals, id, Without(vals, id))
           /\ Forest(Erased(old, id), DOMAIN Without(vals, id))
           /\ AllOrdered(Without(vals, id), Erased(old, id))
<1>1. Drops(vals, id, Without(vals, id))
  BY WithoutDrops
<1>2. /\ Forest(Erased(old, id), DOMAIN vals \ {id})
      /\ AllOrdered(held, Erased(old, id))
  BY ErasedTrees
<1>3. SameOn(DOMAIN vals \ {id}, held, Without(vals, id))
  BY <1>1 DEF Drops, SameOn
<1>4. AllOrdered(Without(vals, id), Erased(old, id))
  BY <1>2, <1>3, SameOrder
<1> QED
  BY <1>1, <1>2, <1>4 DEF Drops

\* Of the rows that are left the invariant goes on to hold.
LEMMA DropKeeps ==
    ASSUME Order, NEW id \in DOMAIN vals, vals' = Without(vals, id),
           Forest(trees', DOMAIN vals'), AllOrdered(vals', trees'),
           stage' = stage, next_id' = next_id
    PROVE  BelowNextId' /\ InTrees' /\ KeysUnique' /\ vals' \in Held
<1>1. Drops(vals, id, vals')
  BY RowFacts, WithoutDrops
<1>2. SameOn(DOMAIN vals', vals, vals') /\ DOMAIN vals' \subseteq DOMAIN vals
  BY <1>1 DEF Drops, SameOn
<1>3. BelowNextId'
  BY <1>2, RowFacts DEF BelowNextId
<1>4. KeysUnique'
  <2> SUFFICES ASSUME stage # "restoring" PROVE AllUnique(vals', DOMAIN vals')
    BY DEF KeysUnique
  <2>1. AllUnique(vals, DOMAIN vals)
    BY RowFacts
  <2> QED
    BY <1>2, <2>1, FewerUnique, SameUnique
<1> QED
  BY <1>1, <1>3, <1>4 DEF InTrees, Drops

\* modify, when the value fits: every tree has the row in its new place, and undo
\* has its old value.
LEMMA ModifyFitsOrder ==
    ASSUME Order, NEW id \in Ids, NEW v \in Vals, ModifyFits(id, v)
    PROVE  Order'
<1> DEFINE S    == DOMAIN vals
           held == [vals EXCEPT ![id] = v]
           post == PostModify(TRUE, trees, held, id)
<1>1. /\ stage = "idle" /\ id \in S /\ post.ok
      /\ trees' = post.trees /\ vals' = held
      /\ \/ /\ NeedsBackup(id)
            /\ backups' = With(backups, id, vals[id]) /\ stamped' = stamped \cup {id}
         \/ ~ NeedsBackup(id) /\ UNCHANGED <<backups, stamped>>
      /\ risked' = (risked \/ WasReverted(id))
      /\ result' = "done"
      /\ UNCHANGED <<next_id, session, removed, stage, asserts>>
  BY DEF ModifyFits
<1>2. /\ vals \in Held /\ Forest(trees, S) /\ AllOrdered(vals, trees)
      /\ AllUnique(vals, S) /\ session.next_id \in Nat /\ session.open \in BOOLEAN
      /\ S \subseteq Nat
  BY <1>1, RowFacts
<1>3. /\ Writes(vals, id, v, held) /\ DOMAIN held = S
      /\ PostOutcome(TRUE, held, S, id, post)
  BY <1>1, <1>2, WritePosts
<1> HIDE DEF held, post
<1>4. /\ vals' \in Held /\ DOMAIN vals' = S
      /\ \A k \in S : k # id => vals'[k] = vals[k]
      /\ SameOn(S \ {id}, vals, vals')
  BY <1>1, <1>3 DEF Writes, SameOn
<1>5. /\ backups \in Held /\ vals[id] \in Vals
      /\ backups' \in Held
      /\ NeedsBackup(id) => DOMAIN backups' = DOMAIN backups \cup {id}
      /\ ~ NeedsBackup(id) => backups' = backups
      /\ \A k \in DOMAIN backups : k # id => backups'[k] = backups[k]
      /\ NeedsBackup(id) => backups'[id] = vals[id]
  <2>1. backups \in Held /\ vals[id] \in Vals
    BY <1>1, <1>2, HeldFacts DEF Order, Typed
  <2>2. CASE NeedsBackup(id)
    <3>1. Writes(backups, id, vals[id], backups')
      BY <1>1, <2>1, <2>2, WithWrites
    <3> QED
      BY <2>1, <2>2, <3>1 DEF Writes
  <2>3. CASE ~ NeedsBackup(id)
    BY <1>1, <2>1, <2>3
  <2> QED
    BY <2>2, <2>3
<1>6. Typed'
  <2>1. stamped' \subseteq Ids /\ risked' \in BOOLEAN
    BY <1>1 DEF Order, Typed
  <2> QED
    BY <1>1, <1>4, <1>5, <2>1 DEF Order, Typed
<1>7. BelowNextId' /\ Stages'
  <2>1. session.open \/ (backups' = backups /\ risked' = risked)
    BY <1>1, <1>5 DEF NeedsBackup, WasReverted, KeepsRemoved, Order, Typed
  <2> QED
    BY <1>1, <1>4, <2>1 DEF Order, BelowNextId, Stages
<1>8. InTrees'
  BY <1>1, <1>3, <1>4 DEF InTrees, PostOutcome
<1>9. KeysUnique'
  <2>1. \A i \in 1 .. Secondary : HasOwn(i, vals', S, id)
    BY <1>1, <1>3 DEF PostOutcome
  <2>2. AllUnique(vals', S \ {id})
    BY <1>2, <1>4, FewerUnique, SameUnique
  <2>3. AllUnique(vals', S \cup {id}) /\ S \cup {id} = S
    BY <1>1, <2>1, <2>2, OneMoreUnique
  <2> QED
    BY <1>4, <2>3 DEF KeysUnique
<1>10. Recoverable'
  <2> SUFFICES ASSUME Undoable' PROVE Recoverable'
    BY DEF Recoverable
  <2>1. Recoverable /\ Undoable /\ session.open /\ ~ WasReverted(id)
    BY <1>1 DEF Order, Undoable
  <2>2. /\ id \in DOMAIN backups => id \in stamped
        /\ ~ id < session.next_id => id \in stamped
    BY <1>1, <2>1 DEF Order, Stamps
  <2>3. /\ DOMAIN session.vals = {k \in S : k < session.next_id} \cup DOMAIN removed
        /\ S \cap DOMAIN removed = {}
        /\ DOMAIN backups \subseteq DOMAIN session.vals
        /\ session.next_id <= next_id
        /\ AllUnique(session.vals, DOMAIN session.vals)
    BY <2>1 DEF Recoverable
  <2>4. DOMAIN backups' \subseteq DOMAIN session.vals
    <3>1. NeedsBackup(id) => id < session.next_id
      BY <2>2 DEF NeedsBackup
    <3> QED
      BY <1>1, <1>5, <2>3, <3>1
  <2>5. ASSUME NEW k \in DOMAIN session.vals
        PROVE  /\ k < session.next_id
               /\ session.vals[k] = IF k \in DOMAIN backups' THEN backups'[k]
                                    ELSE IF k \in S THEN vals'[k] ELSE removed[k]
    <3>1. /\ k < session.next_id
          /\ session.vals[k] = IF k \in DOMAIN backups THEN backups[k]
                               ELSE IF k \in S THEN vals[k] ELSE removed[k]
      BY <2>1 DEF Recoverable
    <3>2. CASE k = id
      <4>1. CASE NeedsBackup(id)
        <5>1. k \notin DOMAIN backups
          BY <2>2, <3>2, <4>1 DEF NeedsBackup
        <5> QED
          BY <1>1, <1>5, <3>1, <3>2, <4>1, <5>1
      <4>2. CASE ~ NeedsBackup(id)
        <5>1. k \in DOMAIN backups
          BY <2>1, <3>1, <3>2, <4>2 DEF WasReverted, KeepsRemoved
        <5> QED
          BY <1>5, <3>1, <4>2, <5>1
      <4> QED
        BY <4>1, <4>2
    <3>3. CASE k # id
      <4>1. k \in DOMAIN backups' <=> k \in DOMAIN backups
        BY <1>5, <3>3
      <4> QED
        BY <1>4, <1>5, <3>1, <3>3, <4>1
    <3> QED
      BY <3>2, <3>3
  <2> QED
    BY <1>1, <1>4, <2>3, <2>4, <2>5 DEF Recoverable
<1>11. Stamps'
  <2> SUFFICES ASSUME session.open PROVE Stamps'
    BY <1>1 DEF Stamps
  <2>1. /\ session.next_id <= next_id
        /\ \A k \in S : k \in DOMAIN backups \/ ~ k < session.next_id => k \in stamped
    BY DEF Order, Stamps
  <2>2. CASE NeedsBackup(id)
    BY <1>1, <1>4, <1>5, <2>1, <2>2 DEF Stamps
  <2>3. CASE ~ NeedsBackup(id)
    BY <1>1, <1>4, <2>1, <2>3 DEF Stamps
  <2> QED
    BY <2>2, <2>3
<1> QED
  BY <1>6, <1>7, <1>8, <1>9, <1>10, <1>11 DEF Order

\* modify, when it does not fit and is moved back: every tree is in order again,
\* those that had filed the row under its new key and the one that refused it.
LEMMA ModifyRevertsFacts ==
    ASSUME Order, NEW id \in Ids, NEW v \in Vals, ModifyReverts(id, v)
    PROVE  /\ UNCHANGED <<vals, next_id, session, backups, removed, stage, risked>>
           /\ stamped' = stamped \cup {id}
           /\ result' = "threw" /\ stage = "idle"
           /\ Forest(trees', DOMAIN vals) /\ AllOrdered(vals, trees')
           /\ asserts' = asserts
<1> DEFINE S    == DOMAIN vals
           held == [vals EXCEPT ![id] = v]
           post == PostModify(TRUE, trees, held, id)
           back == PostModify(TRUE, post.trees, vals, id)
<1>1. /\ stage = "idle" /\ id \in S /\ trees' = back.trees
      /\ asserts' = (asserts /\ back.ok) /\ result' = "threw"
      /\ stamped' = stamped \cup {id}
      /\ UNCHANGED <<vals, next_id, session, backups, removed, stage, risked>>
  BY DEF ModifyReverts, RefiledBack
<1>2. /\ vals \in Held /\ Forest(trees, S) /\ AllOrdered(vals, trees)
      /\ AllUnique(vals, S) /\ AllHaveKeys(vals, S)
  BY <1>1, RowFacts
<1>3. Writes(vals, id, v, held) /\ PostOutcome(TRUE, held, S, id, post)
  BY <1>1, <1>2, WritePosts
<1> HIDE DEF held, post
<1>4. SameOn(S \ {id}, held, vals)
  BY <1>3 DEF Writes, SameOn
<1>5. Forest(post.trees, S) /\ AllOrderedBut(held, post.trees, id)
  BY <1>3 DEF PostOutcome
<1>6. AllOrderedBut(vals, post.trees, id)
  BY <1>1, <1>4, <1>5, WriteDisorders
<1>7. PostOutcome(TRUE, vals, S, id, back)
  BY <1>1, <1>2, <1>5, <1>6, PostModifyTrees
<1> HIDE DEF back
<1>8. \A i \in 1 .. Secondary : HasOwn(i, vals, S, id)
  <2>1. \A i \in Indices : HasOwn(i, vals, S, id)
    BY <1>1, <1>2, UniqueIsOwn
  <2> QED
    BY <2>1, IndexFacts
<1>9. back.ok = TRUE
  BY <1>7, <1>8 DEF PostOutcome
<1>10. Forest(back.trees, S) /\ AllOrdered(vals, back.trees)
  BY <1>7, <1>9 DEF PostOutcome
<1>11. asserts' = asserts
  BY <1>1, <1>9 DEF Order, Typed
<1> QED
  BY <1>1, <1>10, <1>11

\* ... so that nothing but the stamp has changed.
LEMMA ModifyRevertsOrder ==
    ASSUME Order, NEW id \in Ids, NEW v \in Vals, ModifyReverts(id, v)
    PROVE  Order'
<1>1. /\ UNCHANGED <<vals, next_id, session, backups, removed, stage, risked>>
      /\ stamped' = stamped \cup {id}
      /\ result' = "threw" /\ stage = "idle"
      /\ Forest(trees', DOMAIN vals) /\ AllOrdered(vals, trees')
      /\ asserts' = asserts
  BY ModifyRevertsFacts
<1>2. Typed'
  BY <1>1 DEF Order, Typed
<1>3. BelowNextId' /\ InTrees' /\ KeysUnique'
  BY <1>1 DEF Order, BelowNextId, InTrees, KeysUnique
<1>4. Stamps' /\ Recoverable' /\ Stages'
  BY <1>1 DEF Order, Stamps, Recoverable, Undoable, Stages
<1> QED
  BY <1>2, <1>3, <1>4 DEF Order

\* modify, when the row is erased: if it is one of the session's start, that is lost.
LEMMA ModifyErasesOrder ==
    ASSUME Order, NEW id \in Ids, NEW v \in Vals, ModifyErases(id, v)
    PROVE  Order'
<1> DEFINE S    == DOMAIN vals
           held == [vals EXCEPT ![id] = v]
           post == PostModify(TRUE, trees, held, id)
<1>1. /\ stage = "idle" /\ id \in S
      /\ trees' = Erased(post.trees, id) /\ vals' = Without(vals, id)
      /\ risked' = (risked \/ KeepsRemoved(id))
      /\ result' = "threw"
      /\ UNCHANGED <<next_id, session, backups, removed, stamped, stage, asserts>>
  BY DEF ModifyErases
<1>2. vals \in Held /\ Forest(trees, S) /\ AllOrdered(vals, trees)
  BY <1>1, RowFacts
<1>3. Writes(vals, id, v, held) /\ PostOutcome(TRUE, held, S, id, post)
  BY <1>1, <1>2, WritePosts
<1> HIDE DEF held, post
<1>4. SameOn(S \ {id}, held, vals)
  BY <1>3 DEF Writes, SameOn
<1>5. Forest(post.trees, S) /\ AllOrderedBut(held, post.trees, id)
  BY <1>3 DEF PostOutcome
<1>6. /\ Drops(vals, id, vals') /\ Forest(trees', DOMAIN vals')
      /\ AllOrdered(vals', trees')
  BY <1>1, <1>2, <1>4, <1>5, DropTrees
<1>7. BelowNextId' /\ InTrees' /\ KeysUnique' /\ vals' \in Held
  BY <1>1, <1>6, DropKeeps
<1>8. Typed'
  <2>1. risked' \in BOOLEAN
    BY <1>1
  <2> QED
    BY <1>1, <1>7, <2>1 DEF Order, Typed
<1>9. Stages' /\ Stamps'
  <2>1. session.open \/ risked' = risked
    BY <1>1 DEF KeepsRemoved, Order, Typed
  <2>2. Stages'
    BY <1>1, <2>1 DEF Order, Stages
  <2>3. Stamps'
    BY <1>1, <1>6 DEF Order, Stamps, Drops
  <2> QED
    BY <2>2, <2>3
<1>10. Recoverable'
  <2> SUFFICES ASSUME Undoable' PROVE Recoverable'
    BY DEF Recoverable
  <2>1. Recoverable /\ (Undoable => session.next_id <= next_id)
    BY DEF Order, Recoverable
  <2>2. session.open /\ ~ KeepsRemoved(id) /\ ~ risked /\ risked' = risked
    BY <1>1 DEF Undoable, Order, Typed
  <2>3. \A k : Undoable /\ k < session.next_id => k # id
    BY <2>2 DEF KeepsRemoved
  <2>4. \A k : Undoable /\ k < session.next_id =>
           /\ k \in DOMAIN vals <=> k \in DOMAIN vals'
           /\ k \in DOMAIN vals => vals'[k] = vals[k]
    BY <1>6, <2>3 DEF Drops
  <2>5. Undoable => DOMAIN vals' \cap DOMAIN removed = {}
    BY <1>6, <2>1 DEF Drops, Recoverable
  <2> QED
    BY <1>1, <2>1, <2>2, <2>4, <2>5, YoungerRows
<1> QED
  BY <1>7, <1>8, <1>9, <1>10 DEF Order

\* All trees lose the row id, by a call other than a modify.
LEMMA ErasePosts ==
    ASSUME Order, NEW id \in DOMAIN vals, trees' = Erased(trees, id),
           vals' = Without(vals, id), stage' = stage, next_id' = next_id
    PROVE  /\ Drops(vals, id, vals')
           /\ BelowNextId' /\ InTrees' /\ KeysUnique' /\ vals' \in Held
<1>1. vals \in Held /\ Forest(trees, DOMAIN vals) /\ AllOrdered(vals, trees)
  BY RowFacts
<1>2. AllOrderedBut(vals, trees, id) /\ SameOn(DOMAIN vals \ {id}, vals, vals)
  BY <1>1, OrderedAllBut DEF SameOn
<1>3. /\ Drops(vals, id, vals') /\ Forest(trees', DOMAIN vals')
      /\ AllOrdered(vals', trees')
  BY <1>1, <1>2, DropTrees
<1> QED
  BY <1>3, DropKeeps

\* remove: undo has the row if it is older than the session.
LEMMA RemoveOrder ==
    ASSUME Order, NEW id \in Ids, Remove(id)
    PROVE  Order'
<1>1. /\ stage = "idle" /\ id \in DOMAIN vals
      /\ trees' = Erased(trees, id) /\ vals' = Without(vals, id)
      /\ removed' = IF KeepsRemoved(id) THEN With(removed, id, vals[id]) ELSE removed
      /\ result' = "done"
      /\ UNCHANGED <<next_id, session, backups, stamped, stage, asserts, risked>>
  BY DEF Remove
<1>2. /\ Drops(vals, id, vals')
      /\ BelowNextId' /\ InTrees' /\ KeysUnique' /\ vals' \in Held
  BY <1>1, ErasePosts
<1>3. /\ DOMAIN vals' = DOMAIN vals \ {id}
      /\ \A k \in DOMAIN vals : k # id => vals'[k] = vals[k]
  BY <1>2 DEF Drops
<1>4. /\ removed \in Held /\ vals[id] \in Vals
      /\ KeepsRemoved(id) => Writes(removed, id, vals[id], removed')
      /\ ~ KeepsRemoved(id) => removed' = removed
      /\ removed' \in Held
  <2>1. removed \in Held /\ vals[id] \in Vals
    BY <1>1, RowFacts DEF Order, Typed
  <2>2. CASE KeepsRemoved(id)
    <3>1. Writes(removed, id, vals[id], removed')
      BY <1>1, <2>1, <2>2, WithWrites
    <3> QED
      BY <2>1, <2>2, <3>1 DEF Writes
  <2>3. CASE ~ KeepsRemoved(id)
    BY <1>1, <2>1, <2>3
  <2> QED
    BY <2>2, <2>3
<1>5. Typed'
  BY <1>1, <1>2, <1>4 DEF Order, Typed
<1>6. Stages'
  <2>1. ~ session.open => removed' = removed
    BY <1>4 DEF KeepsRemoved
  <2> QED
    BY <1>1, <2>1 DEF Order, Stages
<1>7. Recoverable'
  <2>1. Recoverable /\ (Undoable => session.next_id <= next_id)
    BY DEF Order, Recoverable
  <2>2. CASE ~ Undoable
    BY <1>1, <2>2 DEF Recoverable, Undoable
  <2>3. CASE Undoable /\ ~ KeepsRemoved(id)
    <3>1. \A k : Undoable /\ k < session.next_id => k # id
      BY <2>3 DEF KeepsRemoved, Undoable
    <3>2. \A k : Undoable /\ k < session.next_id =>
             /\ k \in DOMAIN vals <=> k \in DOMAIN vals'
             /\ k \in DOMAIN vals => vals'[k] = vals[k]
      BY <1>3, <3>1
    <3>3. Undoable => DOMAIN vals' \cap DOMAIN removed = {}
      BY <1>3, <2>1 DEF Recoverable
    <3>4. removed' = removed
      BY <1>4, <2>3
    <3> QED
      BY <1>1, <2>1, <3>2, <3>3, <3>4, YoungerRows
  <2>4. CASE Undoable /\ KeepsRemoved(id)
    <3>1. /\ DOMAIN removed' = DOMAIN removed \cup {id} /\ removed'[id] = vals[id]
          /\ \A k \in DOMAIN removed : k # id => removed'[k] = removed[k]
      BY <1>4, <2>4 DEF Writes
    <3>2. /\ DOMAIN session.vals
               = {k \in DOMAIN vals : k < session.next_id} \cup DOMAIN removed
          /\ DOMAIN vals \cap DOMAIN removed = {}
          /\ DOMAIN backups \subseteq DOMAIN session.vals
          /\ session.next_id <= next_id
          /\ AllUnique(session.vals, DOMAIN session.vals)
      BY <2>1, <2>4 DEF Recoverable
    <3>3. /\ DOMAIN session.vals
               = {k \in DOMAIN vals' : k < session.next_id} \cup DOMAIN removed'
          /\ DOMAIN vals' \cap DOMAIN removed' = {}
      BY <1>1, <1>3, <2>4, <3>1, <3>2 DEF KeepsRemoved
    <3>4. ASSUME NEW k \in DOMAIN session.vals
          PROVE  /\ k < session.next_id
                 /\ session.vals[k] = IF k \in DOMAIN backups THEN backups[k]
                                      ELSE IF k \in DOMAIN vals' THEN vals'[k]
                                      ELSE removed'[k]
      <4>1. /\ k < session.next_id
            /\ session.vals[k] = IF k \in DOMAIN backups THEN backups[k]
                                 ELSE IF k \in DOMAIN vals THEN vals[k]
                                 ELSE removed[k]
        BY <2>1, <2>4 DEF Recoverable
      <4>2. CASE k = id
        BY <1>1, <1>3, <3>1, <4>1, <4>2
      <4>3. CASE k # id
        BY <1>3, <3>1, <3>2, <4>1, <4>3
      <4> QED
        BY <4>2, <4>3
    <3> QED
      BY <1>1, <3>2, <3>3, <3>4 DEF Recoverable, Undoable
  <2> QED
    BY <2>2, <2>3, <2>4
<1>8. Stamps'
  BY <1>1, <1>3 DEF Order, Stamps
<1> QED
  BY <1>2, <1>5, <1>6, <1>7, <1>8 DEF Order

\* erase_new_ids, one row
LEMMA EraseNewOrder ==
    ASSUME Order, NEW id \in Ids, EraseNew(id)
    PROVE  Order'
<1>1. /\ stage = "erasing" /\ id \in DOMAIN vals /\ ~ id < session.next_id
      /\ trees' = Erased(trees, id) /\ vals' = Without(vals, id)
      /\ UNCHANGED <<next_id, session, backups, removed, stamped, stage, result, asserts>>
      /\ risked' = risked
  BY DEF EraseNew, KeepsId
<1>2. /\ Drops(vals, id, vals')
      /\ BelowNextId' /\ InTrees' /\ KeysUnique' /\ vals' \in Held
  BY <1>1, ErasePosts
<1>3. /\ DOMAIN vals' = DOMAIN vals \ {id}
      /\ \A k \in DOMAIN vals : k # id => vals'[k] = vals[k]
  BY <1>2 DEF Drops
<1>4. Typed'
  BY <1>1, <1>2 DEF Order, Typed
<1>5. Stages'
  BY <1>1, <1>3 DEF Order, Stages
<1>6. Recoverable'
  <2>1. Recoverable /\ (Undoable => session.next_id <= next_id)
    BY DEF Order, Recoverable
  <2>2. \A k : Undoable /\ k < session.next_id =>
           /\ k \in DOMAIN vals <=> k \in DOMAIN vals'
           /\ k \in DOMAIN vals => vals'[k] = vals[k]
    BY <1>1, <1>3
  <2>3. Undoable => DOMAIN vals' \cap DOMAIN removed = {}
    BY <1>3, <2>1 DEF Recoverable
  <2> QED
    BY <1>1, <2>1, <2>2, <2>3, YoungerRows
<1>7. Stamps'
  BY <1>1, <1>3 DEF Order, Stamps
<1> QED
  BY <1>2, <1>4, <1>5, <1>6, <1>7 DEF Order

\* There is no session.
LEMMA ClosedFacts ==
    /\ NoSession.open = FALSE
    /\ NoSession \in [open : BOOLEAN, vals : Held, next_id : 0 .. MaxId + 1]
<1>1. None \in Held /\ 0 \in 0 .. MaxId + 1
  BY NoneIsHeld, MultiIndexAssumption
<1> QED
  BY <1>1 DEF NoSession

\* The copy constructor
LEMMA CopyOrder ==
    ASSUME Order, Copy
    PROVE  Order'
<1>1. /\ stage = "idle"
      /\ trees' = [i \in Indices |-> IF i = 0 THEN trees[0] ELSE Copied(i)]
      /\ session' = NoSession /\ backups' = None /\ removed' = None
      /\ stamped' = {} /\ risked' = FALSE
      /\ result' = "done"
      /\ UNCHANGED <<vals, next_id, stage, asserts>>
  BY DEF Copy, NoUndo
<1>2. session'.open = FALSE
  BY <1>1, ClosedFacts
<1>3. Typed'
  BY <1>1, ClosedFacts, NoneIsHeld DEF Order, Typed
<1>4. BelowNextId' /\ KeysUnique'
  BY <1>1 DEF Order, BelowNextId, KeysUnique
<1>5. Recoverable' /\ Stages' /\ Stamps'
  BY <1>1, <1>2, NoneIsHeld DEF Order, Recoverable, Undoable, Stages, Stamps
<1>6. InTrees'
  <2>1. /\ Forest(trees, DOMAIN vals) /\ AllOrdered(vals, trees)
        /\ AllHaveKeys(vals, DOMAIN vals)
    BY RowFacts
  <2>2. IsTree(trees[0], DOMAIN vals) /\ Ordered(0, vals, trees[0])
    BY <2>1, IndexFacts DEF Forest, AllOrdered
  <2>3. ASSUME NEW i \in Indices
        PROVE  IsTree(trees'[i], DOMAIN vals) /\ Ordered(i, vals, trees'[i])
    <3>1. CASE i = 0
      BY <1>1, <2>2, <3>1
    <3>2. CASE i # 0
      <4>1. trees'[i] = Copied(i) /\ HaveKeys(i, vals, DOMAIN vals)
        BY <1>1, <2>1, <3>2 DEF AllHaveKeys
      <4> QED
        BY <2>2, <4>1, CopiedTree
    <3> QED
      BY <3>1, <3>2
  <2> QED
    BY <1>1, <2>3 DEF InTrees, Forest, AllOrdered
<1> QED
  BY <1>3, <1>4, <1>5, <1>6 DEF Order

\* start_undo: the rows are those to restore.
LEMMA StartUndoOrder ==
    ASSUME Order, StartUndo
    PROVE  Order'
<1>1. /\ stage = "idle" /\ ~ session.open
      /\ session' = [open |-> TRUE, vals |-> vals, next_id |-> next_id]
      /\ result' = "done"
      /\ UNCHANGED <<trees, vals, next_id, backups, removed, stamped, stage, asserts, risked>>
  BY DEF StartUndo
<1>2. session'.open = TRUE /\ session'.vals = vals /\ session'.next_id = next_id
  BY <1>1
<1>3. Typed'
  BY <1>1 DEF Order, Typed
<1>4. BelowNextId' /\ InTrees' /\ KeysUnique'
  BY <1>1 DEF Order, BelowNextId, InTrees, KeysUnique
<1>5. Stages' /\ DOMAIN backups = {} /\ DOMAIN removed = {}
  BY <1>1, <1>2 DEF Order, Stages
<1>6. /\ AllUnique(vals, DOMAIN vals) /\ next_id \in Nat
      /\ \A id \in DOMAIN vals : id < next_id
  BY <1>1, RowFacts
<1>7. Recoverable'
  <2>1. {id \in DOMAIN vals : id < next_id} \cup DOMAIN removed = DOMAIN vals
    BY <1>5, <1>6
  <2>2. DOMAIN vals \cap DOMAIN removed = {} /\ DOMAIN backups \subseteq DOMAIN vals
    BY <1>5
  <2>3. \A id \in DOMAIN vals :
           /\ id < next_id
           /\ vals[id] = IF id \in DOMAIN backups THEN backups[id]
                         ELSE IF id \in DOMAIN vals THEN vals[id] ELSE removed[id]
    BY <1>5, <1>6
  <2>4. next_id <= next_id
    BY <1>6
  <2> QED
    BY <1>1, <1>2, <1>6, <2>1, <2>2, <2>3, <2>4 DEF Recoverable, Undoable
<1>8. Stamps'
  <2>1. \A id \in DOMAIN vals : id \notin DOMAIN backups /\ id < next_id
    BY <1>5, <1>6
  <2> QED
    BY <1>1, <1>2, <1>6, <2>1 DEF Stamps
<1> QED
  BY <1>3, <1>4, <1>5, <1>7, <1>8 DEF Order

\* commit
LEMMA CommitOrder ==
    ASSUME Order, Commit
    PROVE  Order'
<1>1. /\ stage = "idle"
      /\ session' = NoSession /\ backups' = None /\ removed' = None
      /\ stamped' = {} /\ risked' = FALSE
      /\ result' = "done"
      /\ UNCHANGED <<trees, vals, next_id, stage, asserts>>
  BY DEF Commit, NoUndo
<1>2. session'.open = FALSE
  BY <1>1, ClosedFacts
<1>3. Typed'
  BY <1>1, ClosedFacts, NoneIsHeld DEF Order, Typed
<1>4. BelowNextId' /\ KeysUnique' /\ InTrees'
  BY <1>1 DEF Order, BelowNextId, KeysUnique, InTrees
<1>5. Recoverable' /\ Stages' /\ Stamps'
  BY <1>1, <1>2, NoneIsHeld DEF Order, Recoverable, Undoable, Stages, Stamps
<1> QED
  BY <1>3, <1>4, <1>5 DEF Order

\* undo, the first step
LEMMA BeginUndoOrder ==
    ASSUME Order, BeginUndo, ~ RiskyUndo
    PROVE  Order'
<1>1. /\ stage = "idle" /\ session.open /\ stage' = "erasing" /\ result' = "done"
      /\ UNCHANGED <<trees, vals, next_id, session, backups, removed, stamped, asserts, risked>>
      /\ ~ risked
  BY DEF BeginUndo, MayUndo
<1>2. Typed'
  BY <1>1 DEF Order, Typed
<1>3. BelowNextId' /\ InTrees' /\ KeysUnique' /\ Recoverable' /\ Stamps'
  BY <1>1
     DEF Order, BelowNextId, InTrees, KeysUnique, Recoverable, Undoable, Stamps
<1>4. Stages'
  BY <1>1 DEF Order, Stages
<1> QED
  BY <1>2, <1>3, <1>4 DEF Order

\* The rows that are left are older than the session.
LEMMA AllErasedOrder ==
    ASSUME Order, AllErased
    PROVE  Order'
<1>1. /\ stage = "erasing" /\ stage' = "restoring"
      /\ \A id \in DOMAIN vals : id < session.next_id
      /\ UNCHANGED <<trees, vals, next_id, session, backups, removed>>
      /\ UNCHANGED <<stamped, result, asserts, risked>>
  BY DEF AllErased, KeepsId
<1>2. Typed'
  BY <1>1 DEF Order, Typed
<1>3. BelowNextId' /\ InTrees' /\ KeysUnique' /\ Recoverable' /\ Stamps'
  BY <1>1
     DEF Order, BelowNextId, InTrees, KeysUnique, Recoverable, Undoable, Stamps
<1>4. Stages'
  BY <1>1 DEF Order, Stages
<1> QED
  BY <1>2, <1>3, <1>4 DEF Order

\* While undo is under way, the session it undoes is open.
LEMMA UndoFacts ==
    ASSUME Order, stage # "idle"
    PROVE  /\ session.open /\ ~ risked /\ result = "done"
           /\ session.next_id <= next_id
           /\ DOMAIN session.vals
                = {id \in DOMAIN vals : id < session.next_id} \cup DOMAIN removed
           /\ DOMAIN vals \cap DOMAIN removed = {}
           /\ DOMAIN backups \subseteq DOMAIN session.vals
           /\ \A id \in DOMAIN session.vals :
                 /\ id < session.next_id
                 /\ session.vals[id] = IF id \in DOMAIN backups THEN backups[id]
                                       ELSE IF id \in DOMAIN vals THEN vals[id]
                                       ELSE removed[id]
           /\ AllUnique(session.vals, DOMAIN session.vals)
           /\ stage \in {"restoring", "inserting"} =>
                 /\ \A id \in DOMAIN vals : id < session.next_id
                 /\ DOMAIN session.vals = DOMAIN vals \cup DOMAIN removed
<1>1. session.open /\ ~ risked /\ result = "done"
  BY DEF Order, Stages
<1>2. stage \in {"restoring", "inserting"} =>
         \A id \in DOMAIN vals : id < session.next_id
  BY DEF Order, Stages
<1>3. Recoverable
  BY DEF Order
<1> QED
  BY <1>1, <1>2, <1>3 DEF Recoverable, Undoable

\* undo writes a backup back: the row may share a key, and is in order among those
\* that have it.
LEMMA RestoreOrder ==
    ASSUME Order, NEW id \in Ids, Restore(id)
    PROVE  Order'
<1> DEFINE S    == DOMAIN vals
           v    == backups[id]
           held == [vals EXCEPT ![id] = v]
           post == PostModify(FALSE, trees, held, id)
           InTable == /\ id \in DOMAIN vals /\ vals' = held /\ trees' = post.trees
                      /\ asserts' = (asserts /\ post.ok) /\ removed' = removed
           Gone    == /\ id \in DOMAIN removed
                      /\ removed' = [removed EXCEPT ![id] = v]
                      /\ UNCHANGED <<vals, trees, asserts>>
<1>1. /\ stage = "restoring" /\ id \in DOMAIN backups
      /\ backups' = Without(backups, id)
      /\ UNCHANGED <<next_id, session, stamped, stage, result, risked>>
      /\ InTable \/ Gone
  BY DEF Restore, UniqueWhileRestoring
<1>2. /\ vals \in Held /\ Forest(trees, S) /\ AllOrdered(vals, trees)
      /\ backups \in Held /\ removed \in Held
      /\ v \in Vals
  <2>1. backups \in Held /\ removed \in Held
    BY DEF Order, Typed
  <2> QED
    BY <1>1, <2>1, RowFacts, HeldFacts
<1>3. Drops(backups, id, backups')
  BY <1>1, <1>2, WithoutDrops
<1>4. /\ backups' \in Held /\ DOMAIN backups' = DOMAIN backups \ {id}
      /\ \A k \in DOMAIN backups : k # id => backups'[k] = backups[k]
  BY <1>3 DEF Drops
<1>5. /\ session.open /\ ~ risked /\ DOMAIN session.vals = S \cup DOMAIN removed
      /\ session.next_id <= next_id
      /\ DOMAIN session.vals = {k \in S : k < session.next_id} \cup DOMAIN removed
      /\ S \cap DOMAIN removed = {}
      /\ DOMAIN backups \subseteq DOMAIN session.vals
      /\ AllUnique(session.vals, DOMAIN session.vals)
      /\ \A k \in S : k < session.next_id
  BY <1>1, UndoFacts
<1>6. /\ vals' \in Held /\ removed' \in Held
      /\ DOMAIN vals' = S /\ DOMAIN removed' = DOMAIN removed
      /\ \A k \in S : k # id => vals'[k] = vals[k]
      /\ \A k \in DOMAIN removed : k # id => removed'[k] = removed[k]
      /\ id \in S => vals'[id] = v
      /\ id \notin S => removed'[id] = v
      /\ asserts' = asserts
      /\ Forest(trees', S) /\ AllOrdered(vals', trees')
  <2>1. CASE InTable
    <3>1. Writes(vals, id, v, held) /\ PostOutcome(FALSE, held, S, id, post)
      BY <1>2, <2>1, WritePosts
    <3> HIDE DEF held, post
    <3>2. post.ok = TRUE
      BY <3>1 DEF PostOutcome
    <3>3. Forest(post.trees, S) /\ AllOrdered(held, post.trees)
      BY <3>1, <3>2 DEF PostOutcome
    <3>4. asserts' = asserts
      BY <2>1, <3>2 DEF Order, Typed
    <3> QED
      BY <1>2, <2>1, <3>1, <3>3, <3>4 DEF Writes
  <2>2. CASE Gone
    <3>1. Writes(removed, id, v, removed')
      BY <1>2, <2>2, ExceptWrites
    <3>2. id \notin S
      BY <1>5, <2>2
    <3> QED
      BY <1>2, <2>2, <3>1, <3>2 DEF Writes
  <2> QED
    BY <1>1, <2>1, <2>2
<1> HIDE DEF held, post, InTable, Gone
<1>7. Typed'
  BY <1>1, <1>4, <1>6 DEF Order, Typed
<1>8. BelowNextId' /\ InTrees' /\ KeysUnique'
  BY <1>1, <1>6 DEF Order, BelowNextId, InTrees, KeysUnique
<1>9. Stages'
  BY <1>1, <1>5, <1>6 DEF Order, Stages
<1>10. Recoverable'
  <2>1. ASSUME NEW k \in DOMAIN session.vals
        PROVE  /\ k < session.next_id
               /\ session.vals[k] = IF k \in DOMAIN backups' THEN backups'[k]
                                    ELSE IF k \in S THEN vals'[k] ELSE removed'[k]
    <3>1. /\ k < session.next_id
          /\ session.vals[k] = IF k \in DOMAIN backups THEN backups[k]
                               ELSE IF k \in S THEN vals[k] ELSE removed[k]
      BY <1>1, UndoFacts
    <3>2. CASE k = id
      BY <1>1, <1>4, <1>6, <3>1, <3>2
    <3>3. CASE k # id
      <4>1. k \in S \/ k \in DOMAIN removed
        BY <1>5
      <4> QED
        BY <1>4, <1>6, <3>1, <3>3, <4>1
    <3> QED
      BY <3>2, <3>3
  <2>2. DOMAIN backups' \subseteq DOMAIN session.vals
    BY <1>4, <1>5
  <2> QED
    BY <1>1, <1>5, <1>6, <2>1, <2>2 DEF Recoverable, Undoable
<1>11. Stamps'
  BY <1>1, <1>4, <1>6 DEF Order, Stamps
<1> QED
  BY <1>7, <1>8, <1>9, <1>10, <1>11 DEF Order

\* When all backups were written back, rows have the values of the session's start.
LEMMA RestoredFacts ==
    ASSUME Order, stage \in {"restoring", "inserting"}, DOMAIN backups = {}
    PROVE  /\ \A id \in DOMAIN vals : session.vals[id] = vals[id]
           /\ \A id \in DOMAIN removed : session.vals[id] = removed[id]
           /\ DOMAIN session.vals = DOMAIN vals \cup DOMAIN removed
<1>1. stage # "idle"
  OBVIOUS
<1>2. /\ DOMAIN session.vals = DOMAIN vals \cup DOMAIN removed
      /\ DOMAIN vals \cap DOMAIN removed = {}
      /\ \A id \in DOMAIN session.vals :
            session.vals[id] = IF id \in DOMAIN backups THEN backups[id]
                               ELSE IF id \in DOMAIN vals THEN vals[id]
                               ELSE removed[id]
  BY <1>1, UndoFacts
<1> QED
  BY <1>2

\* No keys are shared any more: they are those of the session's start.
LEMMA AllRestoredOrder ==
    ASSUME Order, AllRestored
    PROVE  Order'
<1>1. /\ stage = "restoring" /\ DOMAIN backups = {} /\ stage' = "inserting"
      /\ UNCHANGED <<trees, vals, next_id, session, backups, removed>>
      /\ UNCHANGED <<stamped, result, asserts, risked>>
  BY DEF AllRestored
<1>2. Typed'
  BY <1>1 DEF Order, Typed
<1>3. BelowNextId' /\ InTrees' /\ Recoverable' /\ Stamps'
  BY <1>1 DEF Order, BelowNextId, InTrees, Recoverable, Undoable, Stamps
<1>4. Stages'
  BY <1>1 DEF Order, Stages
<1>5. KeysUnique'
  <2>1. /\ SameOn(DOMAIN vals, session.vals, vals)
        /\ DOMAIN vals \subseteq DOMAIN session.vals
    BY <1>1, RestoredFacts DEF SameOn
  <2>2. AllUnique(session.vals, DOMAIN session.vals)
    BY <1>1, UndoFacts
  <2>3. AllUnique(vals, DOMAIN vals)
    BY <2>1, <2>2, FewerUnique, SameUnique
  <2> QED
    BY <1>1, <2>3 DEF KeysUnique
<1> QED
  BY <1>2, <1>3, <1>4, <1>5 DEF Order

\* undo inserts a removed row: no row has its keys.
LEMMA ReinsertOrder ==
    ASSUME Order, NEW id \in Ids, Reinsert(id)
    PROVE  Order'
<1> DEFINE S    == DOMAIN vals
           held == With(vals, id, removed[id])
           try  == InsertImpl(0, trees, held, id)
<1>1. /\ stage = "inserting" /\ id \in DOMAIN removed
      /\ removed' = Without(removed, id) /\ trees' = try.trees
      /\ vals' = IF try.ok THEN held ELSE vals
      /\ asserts' = (asserts /\ try.ok)
      /\ UNCHANGED <<next_id, session, backups, stamped, stage, result, risked>>
  BY DEF Reinsert
<1>2. /\ vals \in Held /\ Forest(trees, S) /\ AllOrdered(vals, trees)
      /\ removed \in Held /\ removed[id] \in Vals
      /\ session.next_id \in Nat /\ next_id \in Nat
  <2>1. removed \in Held
    BY DEF Order, Typed
  <2> QED
    BY <1>1, <2>1, RowFacts, HeldFacts
<1>3. /\ session.open /\ ~ risked
      /\ session.next_id <= next_id
      /\ DOMAIN session.vals = {k \in S : k < session.next_id} \cup DOMAIN removed
      /\ S \cap DOMAIN removed = {}
      /\ AllUnique(session.vals, DOMAIN session.vals)
      /\ \A k \in S : k < session.next_id
      /\ \A k \in DOMAIN session.vals : k < session.next_id
  BY <1>1, UndoFacts
<1>4. DOMAIN backups = {}
  BY <1>1 DEF Order, Stages
<1>5. /\ \A k \in S : session.vals[k] = vals[k]
      /\ \A k \in DOMAIN removed : session.vals[k] = removed[k]
      /\ DOMAIN session.vals = S \cup DOMAIN removed
  BY <1>1, <1>4, RestoredFacts
<1>6. Writes(vals, id, removed[id], held) /\ Drops(removed, id, removed')
  BY <1>1, <1>2, WithWrites, WithoutDrops
<1> HIDE DEF held
<1>7. id \notin S /\ id \in Nat
  BY <1>1, <1>3, MultiIndexAssumption DEF Ids
<1>8. /\ held \in Held /\ DOMAIN held = S \cup {id} /\ held[id] = removed[id]
      /\ \A k \in S : held[k] = vals[k]
      /\ SameOn(S, vals, held)
      /\ removed' \in Held /\ DOMAIN removed' = DOMAIN removed \ {id}
      /\ \A k \in DOMAIN removed : k # id => removed'[k] = removed[k]
  BY <1>6, <1>7 DEF Writes, Drops, SameOn
<1>9. AllOrdered(held, trees) /\ AllHaveKeys(held, S \cup {id})
  BY <1>2, <1>8, SameOrder, HeldFacts
<1>10. InsertOutcome(0, trees, held, S, id, try)
  <2>1. 0 \in {0, 1}
    OBVIOUS
  <2> HIDE DEF S
  <2> QED
    BY <1>2, <1>7, <1>9, <2>1, InsertImplTrees
<1> HIDE DEF try
<1>11. AllUnique(held, S \cup {id})
  <2>1. /\ SameOn(S \cup {id}, session.vals, held)
        /\ S \cup {id} \subseteq DOMAIN session.vals
    BY <1>1, <1>5, <1>8 DEF SameOn
  <2>2. AllUnique(session.vals, S \cup {id})
    BY <1>3, <2>1, FewerUnique
  <2> QED
    BY <2>1, <2>2, SameUnique
<1>12. \A i \in 0 .. Secondary : HasOwn(i, held, S, id)
  <2>1. \A i \in Indices : HasOwn(i, held, S \cup {id}, id)
    BY <1>11, UniqueIsOwn
  <2> QED
    BY <2>1 DEF HasOwn, Indices
<1>13. try.ok = TRUE /\ vals' = held
  BY <1>1, <1>10, <1>12 DEF InsertOutcome
<1>14. Forest(trees', DOMAIN vals') /\ AllOrdered(vals', trees')
  <2>1. /\ try.trees = [i \in Indices |-> try.trees[i]]
        /\ \A i \in Indices : i >= 0 =>
              IsTree(try.trees[i], S \cup {id}) /\ Ordered(i, held, try.trees[i])
    BY <1>10, <1>13 DEF InsertOutcome
  <2>2. \A i \in Indices : i >= 0
    BY IndexFacts
  <2> QED
    BY <1>1, <1>8, <1>13, <2>1, <2>2 DEF Forest, AllOrdered
<1>15. asserts' = asserts
  BY <1>1, <1>13 DEF Order, Typed
<1>16. Typed'
  BY <1>1, <1>8, <1>13, <1>15 DEF Order, Typed
<1>17. id < session.next_id /\ id < next_id
  <2>1. id < session.next_id
    BY <1>1, <1>3, <1>5
  <2> QED
    BY <1>2, <1>3, <1>7, <2>1
<1>18. BelowNextId'
  BY <1>1, <1>8, <1>13, <1>17 DEF Order, BelowNextId
<1>19. InTrees' /\ KeysUnique'
  BY <1>1, <1>8, <1>13, <1>11, <1>14 DEF InTrees, KeysUnique
<1>20. Stages'
  <2>1. \A k \in DOMAIN vals' : k < session.next_id
    BY <1>1, <1>3, <1>8, <1>13, <1>17
  <2>2. Stages'
    <3>1. asserts /\ DOMAIN backups = {} /\ result = "done"
      BY <1>1 DEF Order, Stages
    <3>2. asserts' /\ DOMAIN backups' = {} /\ result' = "done" /\ session'.open
          /\ ~ risked'
      BY <1>1, <1>3, <1>15, <3>1
    <3> QED
      BY <1>1, <2>1, <3>2 DEF Stages
  <2> QED
    BY <2>2
<1>21. Recoverable'
  <2>1. DOMAIN session.vals
          = {k \in DOMAIN vals' : k < session.next_id} \cup DOMAIN removed'
    BY <1>1, <1>3, <1>5, <1>8, <1>13, <1>17
  <2>2. /\ DOMAIN vals' \cap DOMAIN removed' = {}
        /\ DOMAIN backups \subseteq DOMAIN session.vals
    BY <1>1, <1>3, <1>4, <1>8, <1>13
  <2>3. ASSUME NEW k \in DOMAIN session.vals
        PROVE  /\ k < session.next_id
               /\ session.vals[k] = IF k \in DOMAIN backups THEN backups[k]
                                    ELSE IF k \in DOMAIN vals' THEN vals'[k]
                                    ELSE removed'[k]
    <3>1. k \in S \/ k = id \/ (k \in DOMAIN removed /\ k # id /\ k \notin S)
      BY <1>5
    <3> QED
      BY <1>1, <1>3, <1>4, <1>5, <1>8, <1>13, <3>1
  <2> QED
    BY <1>1, <1>3, <2>1, <2>2, <2>3 DEF Recoverable, Undoable
<1>22. Stamps'
  <2>1. \A k \in DOMAIN vals' : k \notin DOMAIN backups' /\ k < session.next_id
    BY <1>1, <1>3, <1>4, <1>8, <1>13, <1>17
  <2> QED
    BY <1>1, <1>3, <2>1 DEF Stamps
<1> QED
  BY <1>16, <1>18, <1>19, <1>20, <1>21, <1>22 DEF Order

\* The rows are those of the session's start.
LEMMA EndUndoFacts ==
    ASSUME Order, EndUndo
    PROVE  vals' = session.vals /\ next_id' = session.next_id /\ DOMAIN backups = {}
<1>1. stage = "inserting" /\ DOMAIN removed = {} /\ vals' = vals
      /\ next_id' = session.next_id
  BY DEF EndUndo
<1>2. DOMAIN backups = {}
  BY <1>1 DEF Order, Stages
<1>3. /\ DOMAIN session.vals = DOMAIN vals
      /\ \A k \in DOMAIN vals : session.vals[k] = vals[k]
  BY <1>1, <1>2, RestoredFacts
<1>4. /\ vals = [k \in DOMAIN vals |-> vals[k]]
      /\ session.vals = [k \in DOMAIN session.vals |-> session.vals[k]]
  BY RowFacts, HeldFacts
<1> QED
  BY <1>1, <1>2, <1>3, <1>4

\* undo, the last step
LEMMA EndUndoOrder ==
    ASSUME Order, EndUndo
    PROVE  Order'
<1>1. /\ stage = "inserting" /\ DOMAIN removed = {} /\ next_id' = session.next_id
      /\ session' = NoSession /\ stage' = "idle"
      /\ backups' = None /\ removed' = None /\ stamped' = {} /\ risked' = FALSE
      /\ UNCHANGED <<trees, vals, result, asserts>>
  BY DEF EndUndo, NoUndo
<1>2. session'.open = FALSE /\ DOMAIN backups' = {} /\ DOMAIN removed' = {}
  BY <1>1, ClosedFacts, NoneIsHeld
<1>3. Typed'
  BY <1>1, ClosedFacts, NoneIsHeld, RowFacts DEF Order, Typed
<1>4. BelowNextId'
  <2>1. \A id \in DOMAIN vals : id < session.next_id
    BY <1>1 DEF Order, Stages
  <2> QED
    BY <1>1, <2>1 DEF BelowNextId
<1>5. KeysUnique' /\ InTrees'
  BY <1>1 DEF Order, KeysUnique, InTrees
<1>6. Recoverable' /\ Stages' /\ Stamps'
  BY <1>1, <1>2 DEF Order, Recoverable, Undoable, Stages, Stamps
<1> QED
  BY <1>3, <1>4, <1>5, <1>6 DEF Order

-----------------------------------------------------------------------------
(* Theorems, of callers that do not undo a session that has lost a row of its start:
   the code's undo does not get such a row back, and TLC shows what comes of it. *)

\* Every step keeps the invariant.
LEMMA OrderNext ==
    ASSUME Order, [Next]_vars, ~ RiskyUndo
    PROVE  Order'
<1>1. CASE UNCHANGED vars
  BY <1>1
     DEF vars, Order, Typed, BelowNextId, InTrees, KeysUnique, Stamps, Recoverable,
         Undoable, Stages
<1>2. CASE \E id \in Ids, v \in Vals :
              \/ Emplace(id, v) \/ ModifyFits(id, v)
              \/ ModifyReverts(id, v) \/ ModifyErases(id, v)
  BY <1>2, EmplaceOrder, ModifyFitsOrder, ModifyRevertsOrder, ModifyErasesOrder
<1>3. CASE \E id \in Ids : Remove(id) \/ EraseNew(id) \/ Restore(id) \/ Reinsert(id)
  BY <1>3, RemoveOrder, EraseNewOrder, RestoreOrder, ReinsertOrder
<1>4. CASE Copy
  BY <1>4, CopyOrder
<1>5. CASE StartUndo
  BY <1>5, StartUndoOrder
<1>6. CASE Commit
  BY <1>6, CommitOrder
<1>7. CASE BeginUndo
  BY <1>7, BeginUndoOrder
<1>8. CASE AllErased
  BY <1>8, AllErasedOrder
<1>9. CASE AllRestored
  BY <1>9, AllRestoredOrder
<1>10. CASE EndUndo
  BY <1>10, EndUndoOrder
<1> QED
  BY <1>1, <1>2, <1>3, <1>4, <1>5, <1>6, <1>7, <1>8, <1>9, <1>10 DEF Next

\* The invariant holds in every reachable state, of any number of rows, indices and
\* values, in the middle of an undo too: as long as no row that is older was erased
\* by a conflict, or written again after its modify was reverted, the session's
\* start can be put together from the rows, the backups and the removed nodes.
THEOREM OrderHolds == ~ RiskyUndo => (Spec => []Order)
<1> SUFFICES ASSUME ~ RiskyUndo PROVE Spec => []Order
  OBVIOUS
<1>1. Order /\ [Next]_vars => Order'
  BY OrderNext
<1> QED
  BY <1>1, InitOrder, PTL DEF Spec

\* Every variable has its type.
THEOREM TypeOKHolds == ~ RiskyUndo => (Spec => []TypeOK)
<1> SUFFICES ASSUME ~ RiskyUndo PROVE Spec => []TypeOK
  OBVIOUS
<1>1. Order => TypeOK
  <2> SUFFICES ASSUME Order PROVE TypeOK
    OBVIOUS
  <2>1. /\ vals \in Held /\ backups \in Held /\ removed \in Held
        /\ next_id \in 0 .. MaxId + 1
        /\ session \in [open : BOOLEAN, vals : Held, next_id : 0 .. MaxId + 1]
        /\ stage \in {"idle", "erasing", "restoring", "inserting"}
        /\ result \in {"done", "threw"} /\ asserts \in BOOLEAN
        /\ stamped \subseteq Ids /\ risked \in BOOLEAN
    BY DEF Order, Typed
  <2>2. trees = [i \in Indices |-> trees[i]]
    BY DEF Order, InTrees, Forest
  <2>3. DOMAIN trees = Indices
    BY <2>2
  <2>4. /\ DOMAIN vals \subseteq Ids /\ \A id \in DOMAIN vals : vals[id] \in Vals
        /\ DOMAIN backups \subseteq Ids /\ DOMAIN removed \subseteq Ids
    BY <2>1, HeldFacts
  <2>5. session.open \in BOOLEAN /\ session.next_id \in 0 .. MaxId + 1
    BY <2>1
  <2> QED
    BY <2>1, <2>3, <2>4, <2>5 DEF TypeOK
<1> QED
  BY <1>1, OrderHolds, PTL

\* Two trees of the same rows are of one length.
LEMMA SameLength ==
    ASSUME NEW S, NEW tree, IsTree(tree, S), NEW other, IsTree(other, S)
    PROVE  Len(tree) = Len(other)
<1>1. ASSUME NEW t, IsTree(t, S) PROVE Len(t) \in Nat /\ Cardinality(S) = Len(t)
  <2>1. /\ Len(t) \in Nat /\ t \in [1 .. Len(t) -> S]
        /\ \A x \in S : \E n \in 1 .. Len(t) : t[n] = x
        /\ \A m, n \in 1 .. Len(t) : t[m] = t[n] => m = n
    BY <1>1 DEF IsTree
  <2>2. t \in Bijection(1 .. Len(t), S)
    BY <2>1, Fun_IsBij
  <2>3. ExistsBijection(1 .. Len(t), S)
    BY <2>2 DEF ExistsBijection
  <2> QED
    BY <2>1, <2>3, FS_CountingElements
<1> QED
  BY <1>1

\* What a reader of the trees sees
LEMMA TreesShow ==
    ASSUME Order, NEW i \in Indices
    PROVE  /\ \A n \in 1 .. Len(trees[i]) - 1 :
                 /\ trees[i][n] \in DOMAIN vals /\ trees[i][n + 1] \in DOMAIN vals
                 /\ trees[i][n] # trees[i][n + 1]
                 /\ Key(i, vals, trees[i][n]) \in Int
                 /\ Key(i, vals, trees[i][n + 1]) \in Int
                 /\ Key(i, vals, trees[i][n]) <= Key(i, vals, trees[i][n + 1])
           /\ Len(trees[i]) = Len(trees[0])
           /\ Seqs!ToSet(trees[i]) = DOMAIN vals
<1>1. /\ IsTree(trees[i], DOMAIN vals) /\ IsTree(trees[0], DOMAIN vals)
      /\ Ordered(i, vals, trees[i]) /\ HaveKeys(i, vals, DOMAIN vals)
  BY RowFacts, IndexFacts DEF Forest, AllOrdered, AllHaveKeys
<1>2. /\ Len(trees[i]) \in Nat /\ DOMAIN trees[i] = 1 .. Len(trees[i])
      /\ \A n \in 1 .. Len(trees[i]) : trees[i][n] \in DOMAIN vals
  BY <1>1, TreeNodes
<1>3. ASSUME NEW n \in 1 .. Len(trees[i]) - 1
      PROVE  /\ trees[i][n] \in DOMAIN vals /\ trees[i][n + 1] \in DOMAIN vals
             /\ trees[i][n] # trees[i][n + 1]
             /\ Key(i, vals, trees[i][n]) <= Key(i, vals, trees[i][n + 1])
  <2>1. n \in 1 .. Len(trees[i]) /\ n + 1 \in 1 .. Len(trees[i]) /\ n < n + 1
    BY <1>2
  <2>2. trees[i][n] # trees[i][n + 1]
    <3>1. n # n + 1
      BY <2>1
    <3> QED
      BY <1>1, <2>1, <3>1 DEF IsTree
  <2> QED
    BY <1>1, <1>2, <2>1, <2>2 DEF Ordered
<1>4. Len(trees[i]) = Len(trees[0])
  BY <1>1, SameLength
<1>5. Seqs!ToSet(trees[i]) = DOMAIN vals
  <2>1. Seqs!ToSet(trees[i]) = {trees[i][n] : n \in 1 .. Len(trees[i])}
    BY <1>2 DEF Seqs!ToSet
  <2>2. \A id \in DOMAIN vals : \E n \in 1 .. Len(trees[i]) : trees[i][n] = id
    BY <1>1 DEF IsTree
  <2> QED
    BY <1>2, <2>1, <2>2
<1> QED
  BY <1>1, <1>3, <1>4, <1>5 DEF HaveKeys

\* In the middle of an undo, and at any other time, every tree is in order and
\* has exactly the rows.
THEOREM TransientOrderHolds == ~ RiskyUndo => (Spec => []TransientOrder)
<1> SUFFICES ASSUME ~ RiskyUndo PROVE Spec => []TransientOrder
  OBVIOUS
<1>1. Order => TransientOrder
  <2> SUFFICES ASSUME Order, NEW i \in Indices
               PROVE  /\ \A n \in 1 .. Len(trees[i]) - 1 :
                            ~ Less(i, vals, trees[i][n + 1], trees[i][n])
                      /\ Len(trees[i]) = Len(trees[0])
                      /\ Seqs!ToSet(trees[i]) = DOMAIN vals
    BY DEF TransientOrder
  <2>1. \A n \in 1 .. Len(trees[i]) - 1 :
           ~ Less(i, vals, trees[i][n + 1], trees[i][n])
    BY TreesShow DEF Less
  <2> QED
    BY <2>1, TreesShow
<1> QED
  BY <1>1, OrderHolds, PTL

\* Between calls the order is strict: unique keys are unique, in every index, and
\* every index finds every row, after conflicts that erased a row and after the
\* commit of a session that has lost one, too.
THEOREM TreesAgreeHolds == ~ RiskyUndo => (Spec => []TreesAgree)
<1> SUFFICES ASSUME ~ RiskyUndo PROVE Spec => []TreesAgree
  OBVIOUS
<1>1. Order => TreesAgree
  <2> SUFFICES ASSUME Order, stage = "idle", NEW i \in Indices
               PROVE  /\ \A n \in 1 .. Len(trees[i]) - 1 :
                            Less(i, vals, trees[i][n], trees[i][n + 1])
                      /\ Len(trees[i]) = Len(trees[0])
                      /\ Seqs!ToSet(trees[i]) = DOMAIN vals
    BY DEF TreesAgree
  <2>1. NoneShared(i, vals, DOMAIN vals)
    BY RowFacts DEF AllUnique
  <2>2. ASSUME NEW n \in 1 .. Len(trees[i]) - 1
        PROVE  Less(i, vals, trees[i][n], trees[i][n + 1])
    <3>1. /\ trees[i][n] \in DOMAIN vals /\ trees[i][n + 1] \in DOMAIN vals
          /\ trees[i][n] # trees[i][n + 1]
          /\ Key(i, vals, trees[i][n]) \in Int
          /\ Key(i, vals, trees[i][n + 1]) \in Int
          /\ Key(i, vals, trees[i][n]) <= Key(i, vals, trees[i][n + 1])
      BY TreesShow
    <3>2. Key(i, vals, trees[i][n]) # Key(i, vals, trees[i][n + 1])
      BY <2>1, <3>1 DEF NoneShared
    <3> QED
      BY <3>1, <3>2 DEF Less
  <2> QED
    BY <2>2, TreesShow
<1> QED
  BY <1>1, OrderHolds, PTL

\* What the code says must succeed does: a node moved back by any modify, and, in the
\* undo of a session that has lost no row, one written back and one inserted again.
THEOREM AssertsHoldAlways == ~ RiskyUndo => (Spec => []AssertsHold)
<1> SUFFICES ASSUME ~ RiskyUndo PROVE Spec => []AssertsHold
  OBVIOUS
<1>1. Order => AssertsHold
  BY DEF Order, Stages, AssertsHold
<1> QED
  BY <1>1, OrderHolds, PTL

\* An undo that is through has brought back the rows of the session's start, if the
\* session had not lost any: modifies that were reverted, and conflicts that erased
\* rows of the session's own, included.
THEOREM UndoRestoresHolds == ~ RiskyUndo => (Spec => UndoRestores)
<1> SUFFICES ASSUME ~ RiskyUndo PROVE Spec => UndoRestores
  OBVIOUS
<1>1. Order /\ [Next]_vars
        => (stage = "inserting" /\ stage' = "idle"
              => vals' = session.vals /\ next_id' = session.next_id)
  <2> SUFFICES ASSUME Order, [Next]_vars, stage = "inserting", stage' = "idle"
               PROVE  vals' = session.vals /\ next_id' = session.next_id
    OBVIOUS
  <2>1. EndUndo
    BY DEF Next, vars, Emplace, ModifyFits, ModifyReverts, ModifyErases, Remove,
           EraseNew, Restore, Reinsert, Copy, StartUndo, Commit, BeginUndo,
           AllErased, AllRestored, NoUndo
  <2> QED
    BY <2>1, EndUndoFacts
<1> QED
  BY <1>1, OrderHolds, PTL DEF Spec, UndoRestores

\* Of the same rows there is one tree in the strict order of their keys.
LEMMA OneOrder ==
    ASSUME NEW S, NEW i, NEW held, HaveKeys(i, held, S), NoneShared(i, held, S),
           NEW tree, IsTree(tree, S), Ordered(i, held, tree),
           NEW other, IsTree(other, S), Ordered(i, held, other)
    PROVE  tree = other
<1>1. /\ tree \in Seq(S) /\ other \in Seq(S) /\ Len(tree) = Len(other)
      /\ Len(tree) \in Nat
  BY SameLength, TreeNodes DEF IsTree
<1> DEFINE T == {n \in 1 .. Len(tree) : tree[n] # other[n]}
<1>2. CASE T = {}
  BY <1>1, <1>2
<1>3. CASE T # {}
  <2>1. PICK m \in T : \A n \in T : m <= n
    <3>1. T \subseteq Nat
      OBVIOUS
    <3> QED
      BY <1>3, <3>1, LeastExists
  <2>2. /\ m \in 1 .. Len(tree) /\ m \in Nat /\ tree[m] # other[m]
        /\ tree[m] \in S /\ other[m] \in S
        /\ \A n \in 1 .. Len(tree) : n < m => tree[n] = other[n]
    BY <1>1, <2>1
  <2>3. ASSUME NEW t, NEW u, IsTree(t, S), IsTree(u, S), Ordered(i, held, u),
               Len(t) = Len(tree), Len(u) = Len(tree), t[m] # u[m],
               \A n \in 1 .. Len(tree) : n < m => t[n] = u[n]
        PROVE  Key(i, held, u[m]) <= Key(i, held, t[m])
    <3>1. t[m] \in S
      BY <2>2, <2>3, TreeNodes
    <3>2. PICK k \in 1 .. Len(u) : u[k] = t[m]
      BY <2>3, <3>1 DEF IsTree
    <3>3. k # m
      BY <2>3, <3>2
    <3>4. ~ k < m
      <4> SUFFICES ASSUME k < m PROVE FALSE
        OBVIOUS
      <4>1. t[k] = t[m] /\ k \in 1 .. Len(t) /\ m \in 1 .. Len(t)
        BY <2>2, <2>3, <3>2
      <4> QED
        BY <2>3, <3>3, <4>1 DEF IsTree
    <3>5. m < k
      BY <2>2, <3>3, <3>4
    <3> QED
      BY <2>2, <2>3, <3>2, <3>5 DEF Ordered
  <2>4. Key(i, held, other[m]) <= Key(i, held, tree[m])
    BY <1>1, <2>2, <2>3
  <2>5. Key(i, held, tree[m]) <= Key(i, held, other[m])
    BY <1>1, <2>2, <2>3
  <2>6. Key(i, held, tree[m]) = Key(i, held, other[m])
    BY <2>2, <2>4, <2>5 DEF HaveKeys
  <2> QED
    BY <2>2, <2>6 DEF NoneShared
<1> QED
  BY <1>2, <1>3

\* A call that throws has changed the row of the call at most; a modify that was
\* moved back has put every tree together as it was.
THEOREM ThrowsLeaveOthersHolds == ~ RiskyUndo => (Spec => ThrowsLeaveOthers)
<1> SUFFICES ASSUME ~ RiskyUndo PROVE Spec => ThrowsLeaveOthers
  OBVIOUS
<1> DEFINE Left == /\ next_id' = next_id
                   /\ \A id \in DOMAIN vals' :
                         id \in DOMAIN vals /\ vals'[id] = vals[id]
                   /\ DOMAIN vals' = DOMAIN vals => trees' = trees
<1>1. ASSUME Order, Next, result' = "threw" PROVE Left
  <2>1. CASE \E id \in Ids, v \in Vals : Emplace(id, v)
    <3>1. PICK id \in Ids, v \in Vals : Emplace(id, v)
      BY <2>1
    <3> DEFINE held == With(vals, id, v)
               try  == InsertImpl(1, trees, held, id)
    <3>2. ~ try.ok /\ trees' = try.trees /\ UNCHANGED <<vals, next_id>>
      BY <1>1, <3>1 DEF Emplace
    <3>3. try.trees = trees
      <4>1. /\ trees = [i \in Indices |-> trees[i]]
            /\ InsertImpl(1, trees, held, id)
                 = [ok    |-> \A i \in 1 .. Secondary :
                                 ~ Taken(i, held, trees[i], id),
                    trees |-> [i \in Indices |->
                                 IF (\A j \in 1 .. Secondary :
                                       ~ Taken(j, held, trees[j], id)) /\ i >= 1
                                 THEN Inserted(i, held, trees[i], id)
                                 ELSE trees[i]]]
        BY <1>1, RowFacts DEF InsertImpl, Forest
      <4>2. ~ \A i \in 1 .. Secondary : ~ Taken(i, held, trees[i], id)
        BY <3>2, <4>1
      <4> HIDE DEF held
      <4>3. try.trees = [i \in Indices |-> trees[i]]
        BY <4>1, <4>2
      <4> QED
        BY <4>1, <4>3
    <3> QED
      BY <3>2, <3>3
  <2>2. CASE \E id \in Ids, v \in Vals : ModifyReverts(id, v)
    <3>1. PICK id \in Ids, v \in Vals : ModifyReverts(id, v)
      BY <2>2
    <3>2. /\ UNCHANGED <<vals, next_id>> /\ stage = "idle"
          /\ Forest(trees', DOMAIN vals) /\ AllOrdered(vals, trees')
      BY <1>1, <3>1, ModifyRevertsFacts
    <3>3. /\ Forest(trees, DOMAIN vals) /\ AllOrdered(vals, trees)
          /\ AllUnique(vals, DOMAIN vals) /\ AllHaveKeys(vals, DOMAIN vals)
      BY <1>1, <3>2, RowFacts
    <3>4. ASSUME NEW i \in Indices PROVE trees'[i] = trees[i]
      <4>1. /\ IsTree(trees[i], DOMAIN vals) /\ IsTree(trees'[i], DOMAIN vals)
            /\ Ordered(i, vals, trees[i]) /\ Ordered(i, vals, trees'[i])
            /\ NoneShared(i, vals, DOMAIN vals) /\ HaveKeys(i, vals, DOMAIN vals)
        BY <3>2, <3>3 DEF Forest, AllOrdered, AllUnique, AllHaveKeys
      <4> QED
        BY <4>1, OneOrder
    <3>5. trees' = trees
      BY <3>2, <3>3, <3>4 DEF Forest
    <3> QED
      BY <3>2, <3>5
  <2>3. CASE \E id \in Ids, v \in Vals : ModifyErases(id, v)
    <3>1. PICK id \in Ids, v \in Vals : ModifyErases(id, v)
      BY <2>3
    <3>2. id \in DOMAIN vals /\ vals' = Without(vals, id) /\ next_id' = next_id
      BY <3>1 DEF ModifyErases
    <3>3. Drops(vals, id, vals')
      BY <1>1, <3>2, RowFacts, WithoutDrops
    <3> QED
      BY <3>2, <3>3 DEF Drops
  <2>4. CASE result' = "done"
    BY <1>1, <2>4
  <2>5. CASE stage # "idle" /\ UNCHANGED result
    <3>1. result = "done"
      BY <1>1, <2>5, UndoFacts
    <3> QED
      BY <1>1, <2>5, <3>1
  <2>6. CASE EndUndo \/ AllErased \/ AllRestored
            \/ \E id \in Ids : EraseNew(id) \/ Restore(id) \/ Reinsert(id)
    BY <2>5, <2>6 DEF EndUndo, AllErased, AllRestored, EraseNew, Restore, Reinsert
  <2>7. CASE Copy \/ StartUndo \/ Commit \/ BeginUndo
            \/ (\E id \in Ids : Remove(id))
            \/ \E id \in Ids, v \in Vals : ModifyFits(id, v)
    BY <2>4, <2>7 DEF Copy, StartUndo, Commit, BeginUndo, Remove, ModifyFits
  <2> HIDE DEF Left
  <2> QED
    BY <1>1, <2>1, <2>2, <2>3, <2>6, <2>7 DEF Next
<1>2. Order /\ [Next]_vars => ([result' = "threw" => Left]_vars)
  BY <1>1
<1> QED
  BY <1>2, OrderHolds, PTL DEF Spec, ThrowsLeaveOthers
=============================================================================
