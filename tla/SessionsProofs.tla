--------------------------- MODULE SessionsProofs ---------------------------
(***************************************************************************)
(* Session handles close every session once and give back what they have   *)
(* promised, for any number of handles and indexes.                        *)
(***************************************************************************)
EXTENDS Sessions, SequenceTheorems, TLAPS

\* The contents of an undo index
Rows     == UNION {[S -> {0}] : S \in SUBSET Nat}
Snapshot == [rows : Rows, next_id : Nat]
Table    == [rows : Rows, next_id : Nat, saved : Seq(Snapshot), revision : Int]

-----------------------------------------------------------------------------
(* The inductive invariant. *)

Owners == Handles \cup {Nobody}

Typed ==
    /\ index \in [Indexes -> Table]
    /\ handle \in [Handles -> {NoHandle} \cup [on : Indexes, apply : BOOLEAN]]
    /\ owner \in [Indexes -> Seq(Owners)]
    /\ \A i \in Indexes : Len(owner[i]) = Len(index[i].saved)
    /\ before \in [Handles -> Snapshot]
    /\ strayed \subseteq Careless

\* The index in which a handle will close a session, if it will
Closing == [h \in Handles |-> IF Applies(h) THEN handle[h].on ELSE Nowhere]

\* Handles that will close a session, at[h] being where, and owners of sessions,
\* own[i] being those of index i, belong to each other one to one.
Matched(own, at) ==
    /\ \A h \in Handles :
          at[h] # Nowhere => \E k \in DOMAIN own[at[h]] : own[at[h]][k] = h
    /\ \A i \in Indexes : \A k \in DOMAIN own[i] :
          own[i][k] # Nobody => at[own[i][k]] = i
    /\ \A i \in Indexes : \A k, l \in DOMAIN own[i] :
          own[i][k] # Nobody /\ own[i][k] = own[i][l] => k = l

\* The table that a handle would give back is the snapshot of its session.
Recalls(own, tables, contents) ==
    \A i \in Indexes : \A k \in DOMAIN own[i] :
        own[i][k] # Nobody => tables[own[i][k]] = contents[i].saved[k]

Order ==
    /\ Typed
    /\ ~ Lost => Matched(owner, Closing)
    /\ strayed = {} => Recalls(owner, before, index)

-----------------------------------------------------------------------------
(* Stacks of owners. *)

\* A part of a stack
LEMMA PartOf ==
    ASSUME NEW S, NEW s \in Seq(S), NEW a \in Nat, NEW b \in Nat,
           a <= b, b <= Len(s)
    PROVE  /\ SubSeq(s, a + 1, b) \in Seq(S)
           /\ Len(SubSeq(s, a + 1, b)) = b - a
           /\ DOMAIN SubSeq(s, a + 1, b) = 1 .. b - a
           /\ \A k \in 1 .. b - a : SubSeq(s, a + 1, b)[k] = s[a + k]
<1>1. \A k \in a + 1 .. b : s[k] \in S
  OBVIOUS
<1>2. a + 1 \in Int /\ b \in Int
  OBVIOUS
<1> DEFINE part == SubSeq(s, a + 1, b)
<1>3. /\ part \in Seq(S)
      /\ Len(part) = IF a + 1 <= b THEN b - (a + 1) + 1 ELSE 0
      /\ \A k \in 1 .. b - (a + 1) + 1 : part[k] = s[a + 1 + k - 1]
  BY ONLY <1>1, <1>2, SubSeqProperties
<1> HIDE DEF part
<1>4. b - (a + 1) + 1 = b - a /\ (~ a + 1 <= b => b - a = 0)
  OBVIOUS
<1>5. \A k \in 1 .. b - a : a + 1 + k - 1 = a + k
  OBVIOUS
<1>6. Len(part) = b - a
  BY <1>3, <1>4
<1>7. part \in Seq(S) /\ DOMAIN part = 1 .. b - a
  BY <1>3, <1>6
<1> QED
  BY <1>3, <1>4, <1>5, <1>6, <1>7 DEF part

\* The stack without its top
LEMMA TopGone ==
    ASSUME NEW S, NEW s \in Seq(S)
    PROVE  /\ WithoutTop(s) \in Seq(S)
           /\ Len(WithoutTop(s)) = IF s = << >> THEN 0 ELSE Len(s) - 1
           /\ DOMAIN WithoutTop(s) = 1 .. Len(s) - 1
           /\ \A k \in 1 .. Len(s) - 1 : WithoutTop(s)[k] = s[k]
<1>1. Len(s) \in Nat /\ \A k \in 1 .. Len(s) : s[k] \in S
  OBVIOUS
<1>2. s = << >> <=> Len(s) = 0
  OBVIOUS
<1>3. /\ WithoutTop(s) \in Seq(S)
      /\ Len(WithoutTop(s)) = IF 1 <= Len(s) - 1 THEN Len(s) - 1 ELSE 0
      /\ \A k \in 1 .. Len(s) - 1 : WithoutTop(s)[k] = s[k]
  BY <1>1, SubSeqProperties DEF WithoutTop
<1> QED
  BY <1>1, <1>2, <1>3

\* Sessions that change hands stay where they are.
LEMMA Hands ==
    ASSUME NEW s \in Seq(Owners), NEW h, NEW g \in Owners
    PROVE  /\ HandedOver(s, h, g) \in Seq(Owners)
           /\ Len(HandedOver(s, h, g)) = Len(s)
           /\ DOMAIN HandedOver(s, h, g) = DOMAIN s
           /\ \A k \in DOMAIN s :
                 HandedOver(s, h, g)[k] = IF s[k] = h THEN g ELSE s[k]
<1>1. DOMAIN s = 1 .. Len(s) /\ Len(s) \in Nat
  OBVIOUS
<1>2. \A k \in DOMAIN s : s[k] \in Owners
  OBVIOUS
<1>3. HandedOver(s, h, g) \in [1 .. Len(s) -> Owners]
  BY <1>1, <1>2 DEF HandedOver
<1>4. HandedOver(s, h, g) \in Seq(Owners)
  BY <1>1, <1>3
<1>5. DOMAIN HandedOver(s, h, g) = DOMAIN s
  BY DEF HandedOver
<1>6. Len(HandedOver(s, h, g)) = Len(s)
  BY <1>1, <1>4, <1>5
<1> QED
  BY <1>4, <1>5, <1>6 DEF HandedOver

\* The stack when h has closed the top
LEMMA Closed ==
    ASSUME NEW s \in Seq(Owners), NEW h
    PROVE  /\ ClosedBy(h, s) \in Seq(Owners)
           /\ Len(ClosedBy(h, s)) = IF s = << >> THEN 0 ELSE Len(s) - 1
           /\ DOMAIN ClosedBy(h, s) = 1 .. Len(s) - 1
           /\ \A k \in 1 .. Len(s) - 1 :
                 ClosedBy(h, s)[k] = IF s[k] = h THEN s[Len(s)] ELSE s[k]
<1>1. CASE s = << >>
  BY <1>1 DEF ClosedBy
<1>2. CASE s # << >>
  <2>1. Len(s) \in Nat \ {0} /\ s[Len(s)] \in Owners
    BY <1>2
  <2> QED
    BY <1>2, <2>1, TopGone, Hands DEF ClosedBy
<1> QED
  BY <1>1, <1>2

-----------------------------------------------------------------------------
(* What the calls of an index make of its contents. *)

\* A new stack and revision leave the table as it is.
LEMMA ChangedTable ==
    ASSUME NEW t \in Table, NEW s \in Seq(Snapshot), NEW r \in Int
    PROVE  LET u == [t EXCEPT !.saved = s, !.revision = r]
           IN  u \in Table /\ u.saved = s /\ Contents(u) = Contents(t)
  BY DEF Table, Contents

\* A new stack of snapshots
LEMMA WithSaved ==
    ASSUME NEW t \in Table, NEW s \in Seq(Snapshot)
    PROVE  LET u == [t EXCEPT !.saved = s] IN u \in Table /\ u.saved = s
  BY DEF Table

\* start_undo puts a snapshot of the table on the stack.
LEMMA StartedTable ==
    ASSUME NEW t \in Table
    PROVE  /\ SessionStarted(t) \in Table
           /\ SessionStarted(t).saved = Append(t.saved, Contents(t))
           /\ Contents(t) \in Snapshot
<1>1. Contents(t) \in Snapshot /\ t.saved \in Seq(Snapshot) /\ t.revision \in Int
  BY DEF Table, Snapshot, Contents
<1>2. Append(t.saved, Contents(t)) \in Seq(Snapshot) /\ t.revision + 1 \in Int
  BY <1>1
<1> QED
  BY <1>1, <1>2, ChangedTable DEF SessionStarted, Contents

\* undo and squash
LEMMA ClosedTable ==
    ASSUME NEW t \in Table, NEW u \in {Undone(t), Squashed(t)}
    PROVE  u \in Table /\ u.saved = WithoutTop(t.saved)
<1>1. t.saved \in Seq(Snapshot) /\ t.revision \in Int
  BY DEF Table
<1>2. CASE t.saved = << >>
  <2>1. u = t
    BY <1>2 DEF Undone, Squashed
  <2>2. WithoutTop(<< >>) = << >>
    BY SubSeqEmpty DEF WithoutTop
  <2> QED
    BY <1>2, <2>1, <2>2
<1>3. CASE t.saved # << >>
  <2>1. Len(t.saved) \in Nat \ {0} /\ t.saved[Len(t.saved)] \in Snapshot
    BY <1>1, <1>3
  <2>2. WithoutTop(t.saved) \in Seq(Snapshot)
    BY <1>1, TopGone
  <2>3. CASE u = Undone(t)
    <3>1. u = [rows |-> t.saved[Len(t.saved)].rows,
               next_id |-> t.saved[Len(t.saved)].next_id,
               saved |-> WithoutTop(t.saved),
               revision |-> t.revision - (Len(t.saved) - Len(t.saved) + 1)]
      BY <1>3, <2>3 DEF Undone, BeforeSession, WithoutTop
    <3> QED
      BY <1>1, <2>1, <2>2, <3>1 DEF Table, Snapshot
  <2>4. CASE u = Squashed(t)
    <3>1. u = [t EXCEPT !.saved = WithoutTop(t.saved), !.revision = t.revision - 1]
      BY <1>3, <2>4 DEF Squashed, WithoutTop
    <3>2. t.revision - 1 \in Int
      BY <1>1
    <3> QED
      BY <2>2, <3>1, <3>2, ChangedTable
  <2> QED
    BY <2>3, <2>4
<1> QED
  BY <1>2, <1>3

\* undo gives back the snapshot on the top.
LEMMA UndoneTable ==
    ASSUME NEW t \in Table, t.saved # << >>
    PROVE  Contents(Undone(t)) = t.saved[Len(t.saved)]
<1>1. t.saved[Len(t.saved)] \in Snapshot
  BY DEF Table
<1> QED
  BY <1>1 DEF Undone, BeforeSession, Contents, Snapshot

\* undo_all leaves no session.
LEMMA AllUndoneTable ==
    ASSUME NEW t \in Table
    PROVE  AllUndone(t) \in Table /\ AllUndone(t).saved = << >>
<1>1. CASE t.saved = << >>
  BY <1>1 DEF AllUndone
<1>2. CASE t.saved # << >>
  <2>1. Len(t.saved) \in Nat \ {0} /\ t.saved[1] \in Snapshot
    BY <1>2 DEF Table
  <2>2. SubSeq(t.saved, 1, 0) = << >>
    BY SubSeqEmpty
  <2> QED
    BY <1>2, <2>1, <2>2 DEF AllUndone, BeforeSession, Table, Snapshot
<1> QED
  BY <1>1, <1>2

\* commit drops the oldest sessions, none or all of them included.
LEMMA CommittedTable ==
    ASSUME NEW t \in Table, NEW r \in Int
    PROVE  /\ Committed(t, r) \in Table
           /\ \E dropped \in 0 .. Len(t.saved) :
                 /\ Len(Committed(t, r).saved) = Len(t.saved) - dropped
                 /\ \A k \in 1 .. Len(t.saved) - dropped :
                       Committed(t, r).saved[k] = t.saved[k + dropped]
<1>1. t.saved \in Seq(Snapshot) /\ t.revision \in Int
  BY DEF Table
<1>2. PICK n \in Nat : n = Len(t.saved)
  BY <1>1
<1>3. PICK behind \in Int : behind = t.revision - r
  BY <1>1
<1>4. CASE behind <= 0
  <2>1. Committed(t, r) = [t EXCEPT !.saved = << >>]
    BY <1>3, <1>4 DEF Committed
  <2>2. Committed(t, r) \in Table /\ Committed(t, r).saved = << >>
    <3>1. << >> \in Seq(Snapshot)
      OBVIOUS
    <3> QED
      BY <2>1, <3>1, WithSaved
  <2> QED
    BY <1>2, <2>2
<1>5. CASE behind > 0 /\ behind < n
  <2>1. PICK kept : kept = SubSeq(t.saved, n - behind + 1, n)
    OBVIOUS
  <2>2. Committed(t, r) = [t EXCEPT !.saved = kept]
    BY <1>2, <1>3, <1>5, <2>1 DEF Committed
  <2>4. /\ kept \in Seq(Snapshot) /\ Len(kept) = behind
        /\ \A k \in 1 .. behind : kept[k] = t.saved[k + (n - behind)]
    <3>1. n - behind \in Nat /\ n - behind <= n /\ n - (n - behind) = behind
      BY <1>5
    <3>2. \A k \in 1 .. behind : n - behind + k = k + (n - behind)
      OBVIOUS
    <3> QED
      BY <1>1, <1>2, <2>1, <3>1, <3>2, PartOf
  <2>5. Committed(t, r) \in Table /\ Committed(t, r).saved = kept
    BY <2>2, <2>4, WithSaved
  <2>6. n - behind \in 0 .. n /\ n - (n - behind) = behind
    BY <1>5
  <2> QED
    BY <1>2, <2>4, <2>5, <2>6
<1>6. CASE behind > 0 /\ behind >= n
  <2>1. Committed(t, r) = t
    BY <1>2, <1>3, <1>6 DEF Committed
  <2> QED
    BY <1>2, <2>1
<1> QED
  BY <1>4, <1>5, <1>6

-----------------------------------------------------------------------------
(* What calls make of owners and handles that match. *)

\* Stacks of owners and places of handles
Stacks == [Indexes -> Seq(Owners)]
Places == [Handles -> Indexes \cup {Nowhere}]

\* A stack of owners
LEMMA StackTypes ==
    ASSUME NEW own \in Stacks, NEW i \in Indexes
    PROVE  /\ own[i] \in Seq(Owners)
           /\ Len(own[i]) \in Nat
           /\ DOMAIN own[i] = 1 .. Len(own[i])
           /\ \A k \in DOMAIN own[i] : own[i][k] \in Owners
<1>1. own[i] \in Seq(Owners)
  BY DEF Stacks
<1> QED
  BY <1>1

\* A new session, with a handle that has none or with none
LEMMA MatchedStart ==
    ASSUME NEW own \in Stacks, NEW at \in Places, Matched(own, at),
           NEW i \in Indexes, NEW h \in Owners, NEW at2 \in Places,
           \/ h = Nobody /\ at2 = at
           \/ h \in Handles /\ at[h] = Nowhere /\ at2 = [at EXCEPT ![h] = i]
    PROVE  Matched([own EXCEPT ![i] = Append(@, h)], at2)
<1> DEFINE own2 == [own EXCEPT ![i] = Append(@, h)]
           n    == Len(own[i])
<1>1. own[i] \in Seq(Owners) /\ n \in Nat /\ DOMAIN own[i] = 1 .. n
  BY StackTypes
<1>2. /\ DOMAIN own2[i] = 1 .. n + 1
      /\ own2[i][n + 1] = h
      /\ \A k \in 1 .. n : own2[i][k] = own[i][k]
      /\ \A j \in Indexes \ {i} : own2[j] = own[j]
  <2>1. own2[i] = Append(own[i], h)
    BY DEF Stacks
  <2> QED
    BY <1>1, <2>1 DEF Stacks
<1>3. h # Nobody => \A j \in Indexes : \A k \in DOMAIN own[j] : own[j][k] # h
  BY SessionsAssumption DEF Matched, Owners
<1>4. \A g \in Handles :
         IF g = h THEN at2[g] = i ELSE at2[g] = at[g]
  BY SessionsAssumption DEF Places
<1>5. \A k \in DOMAIN own2[i] : k \in DOMAIN own[i] \/ k = n + 1
  BY <1>1, <1>2
<1>6. n + 1 \in DOMAIN own2[i] /\ \A k \in DOMAIN own[i] : k \in DOMAIN own2[i]
  BY <1>1, <1>2
<1>7. \A j \in Indexes : \A k \in DOMAIN own[j] : own[j][k] \in Owners
  BY StackTypes
<1> HIDE DEF own2, n
<1>8. ASSUME NEW g \in Handles, at2[g] # Nowhere
      PROVE  \E k \in DOMAIN own2[at2[g]] : own2[at2[g]][k] = g
  <2>1. CASE g = h
    BY <1>2, <1>4, <1>6, <2>1
  <2>2. CASE g # h
    <3>1. at[g] = at2[g] /\ at[g] \in Indexes
      BY <1>4, <1>8, <2>2 DEF Places
    <3>2. PICK k \in DOMAIN own[at[g]] : own[at[g]][k] = g
      BY <1>8, <3>1 DEF Matched
    <3> QED
      BY <1>1, <1>2, <1>6, <3>1, <3>2
  <2> QED
    BY <2>1, <2>2
<1>9. ASSUME NEW j \in Indexes, NEW k \in DOMAIN own2[j], own2[j][k] # Nobody
      PROVE  at2[own2[j][k]] = j
  <2>1. CASE j = i /\ k = n + 1
    BY <1>2, <1>4, <1>9, <2>1 DEF Owners
  <2>2. CASE k \in DOMAIN own[j]
    <3>1. own2[j][k] = own[j][k]
      BY <1>1, <1>2, <2>2
    <3> QED
      BY <1>3, <1>4, <1>7, <1>9, <2>2, <3>1 DEF Matched, Owners
  <2> QED
    BY <1>2, <1>5, <2>1, <2>2
<1>10. ASSUME NEW j \in Indexes, NEW k \in DOMAIN own2[j], NEW l \in DOMAIN own2[j],
              own2[j][k] # Nobody, own2[j][k] = own2[j][l]
       PROVE  k = l
  <2>1. CASE j # i
    BY <1>2, <1>10, <2>1 DEF Matched
  <2>2. CASE j = i /\ k \in DOMAIN own[i] /\ l \in DOMAIN own[i]
    BY <1>1, <1>2, <1>10, <2>2 DEF Matched
  <2>3. \A m \in DOMAIN own[i] : own2[i][m] = h => h = Nobody
    BY <1>1, <1>2, <1>3
  <2>4. CASE j = i /\ (k = n + 1 \/ l = n + 1)
    BY <1>2, <1>5, <1>10, <2>3, <2>4
  <2> QED
    BY <1>2, <1>5, <2>1, <2>2, <2>4
<1> QED
  BY <1>8, <1>9, <1>10 DEF Matched, own2

\* Who answers for the sessions of from is g: another handle, or nobody.
LEMMA MatchedHanded ==
    ASSUME NEW own \in Stacks, NEW at \in Places, Matched(own, at),
           NEW i \in Indexes, NEW from \in Handles, at[from] \in {i, Nowhere},
           NEW g \in Owners, NEW at2 \in Places,
           \/ g = Nobody /\ at2 = [at EXCEPT ![from] = Nowhere]
           \/ /\ g \in Handles /\ g # from /\ at[g] = Nowhere
              /\ at2 = [at EXCEPT ![g] = at[from], ![from] = Nowhere]
    PROVE  Matched([own EXCEPT ![i] = HandedOver(@, from, g)], at2)
<1> DEFINE own2 == [own EXCEPT ![i] = HandedOver(@, from, g)]
<1>1. \A j \in Indexes : own[j] \in Seq(Owners)
  BY StackTypes
<1>2. \A j \in Indexes : \A k \in DOMAIN own[j] : own[j][k] = from => j = i
  BY SessionsAssumption DEF Matched
<1>3. /\ own2[i] = HandedOver(own[i], from, g)
      /\ \A j \in Indexes \ {i} : own2[j] = own[j]
  BY DEF Stacks
<1>4. \A j \in Indexes : DOMAIN own2[j] = DOMAIN own[j]
  BY <1>1, <1>3, Hands
<1>5. /\ \A k \in DOMAIN own[i] :
            own2[i][k] = IF own[i][k] = from THEN g ELSE own[i][k]
      /\ \A j \in Indexes \ {i} : \A k \in DOMAIN own[j] : own2[j][k] = own[j][k]
  BY <1>1, <1>3, Hands
<1>6. \A x \in Handles :
         at2[x] = IF x = from THEN Nowhere ELSE IF x = g THEN at[from] ELSE at[x]
  BY SessionsAssumption DEF Places
<1>7. g # Nobody => \A j \in Indexes : \A k \in DOMAIN own[j] : own[j][k] # g
  BY SessionsAssumption DEF Matched
<1>8. \A j \in Indexes : \A k \in DOMAIN own[j] : own[j][k] \in Owners
  BY StackTypes
<1> HIDE DEF own2
<1>9. \A j \in Indexes : \A k \in DOMAIN own[j] :
         own2[j][k] = IF own[j][k] = from THEN g ELSE own[j][k]
  BY <1>2, <1>5
<1>10. ASSUME NEW x \in Handles, at2[x] # Nowhere
       PROVE  \E k \in DOMAIN own2[at2[x]] : own2[at2[x]][k] = x
  <2>1. at2[x] \in Indexes
    BY <1>10 DEF Places
  <2>2. PICK k \in DOMAIN own[at2[x]] :
            own[at2[x]][k] = IF x = g THEN from ELSE x
    BY <1>6, <1>10 DEF Matched
  <2> QED
    BY <1>4, <1>6, <1>9, <1>10, <2>1, <2>2
<1>11. ASSUME NEW j \in Indexes, NEW k \in DOMAIN own2[j], own2[j][k] # Nobody
       PROVE  at2[own2[j][k]] = j
  <2>1. k \in DOMAIN own[j]
    BY <1>4
  <2>2. CASE own[j][k] = from
    <3>1. at[from] = j
      BY <2>1, <2>2, SessionsAssumption DEF Matched
    <3>2. own2[j][k] = g /\ g \in Handles /\ g # from
      BY <1>9, <1>11, <2>1, <2>2 DEF Owners
    <3> QED
      BY <1>6, <3>1, <3>2
  <2>3. CASE own[j][k] # from
    <3>1. own2[j][k] = own[j][k] /\ own[j][k] \in Handles /\ own[j][k] # g
      BY <1>7, <1>8, <1>9, <1>11, <2>1, <2>3 DEF Owners
    <3> QED
      BY <1>6, <1>11, <2>1, <2>3, <3>1 DEF Matched
  <2> QED
    BY <2>2, <2>3
<1>12. ASSUME NEW j \in Indexes, NEW k \in DOMAIN own2[j], NEW l \in DOMAIN own2[j],
              own2[j][k] # Nobody, own2[j][k] = own2[j][l]
       PROVE  k = l
  <2>1. k \in DOMAIN own[j] /\ l \in DOMAIN own[j]
    BY <1>4
  <2>2. own[j][k] = own[j][l] /\ own[j][k] # Nobody
    BY <1>7, <1>9, <1>12, <2>1, SessionsAssumption
  <2> QED
    BY <2>1, <2>2 DEF Matched
<1> QED
  BY <1>10, <1>11, <1>12 DEF Matched, own2

\* The handle h closes the top: its own session, or that of another handle, which
\* has the session of h from now on.
LEMMA MatchedClosed ==
    ASSUME NEW own \in Stacks, NEW at \in Places, Matched(own, at),
           NEW h \in Handles, NEW i \in Indexes, at[h] = i
    PROVE  Matched([own EXCEPT ![i] = ClosedBy(h, @)], [at EXCEPT ![h] = Nowhere])
<1> DEFINE own2 == [own EXCEPT ![i] = ClosedBy(h, @)]
           at2  == [at EXCEPT ![h] = Nowhere]
           n    == Len(own[i])
<1>1. /\ own[i] \in Seq(Owners) /\ n \in Nat /\ DOMAIN own[i] = 1 .. n
      /\ \A j \in Indexes : \A k \in DOMAIN own[j] : own[j][k] \in Owners
  BY StackTypes
<1>2. PICK p \in 1 .. n : own[i][p] = h
  BY <1>1, SessionsAssumption DEF Matched
<1>3. /\ DOMAIN own2[i] = 1 .. n - 1
      /\ \A k \in 1 .. n - 1 :
            own2[i][k] = IF own[i][k] = h THEN own[i][n] ELSE own[i][k]
      /\ \A j \in Indexes \ {i} : own2[j] = own[j]
  <2>1. own2[i] = ClosedBy(h, own[i])
    BY DEF Stacks
  <2> QED
    BY <1>1, <2>1, Closed DEF Stacks
<1>4. \A x \in Handles : at2[x] = IF x = h THEN Nowhere ELSE at[x]
  BY DEF Places
<1>5. h # Nobody /\ i # Nowhere
  BY SessionsAssumption
<1>6. \A k \in 1 .. n : own[i][k] = h => k = p
  BY <1>1, <1>2, <1>5 DEF Matched
<1>7. \A k \in 1 .. n - 1 : k \in 1 .. n /\ k # n /\ n \in 1 .. n
  BY <1>1
<1>8. \A k \in 1 .. n : k = n \/ k \in 1 .. n - 1
  BY <1>1
<1> HIDE DEF own2, at2, n
\* What is left comes from another place.
<1>9. \A k \in 1 .. n - 1 :
         /\ k # p => own2[i][k] = own[i][k] /\ own[i][k] # h
         /\ k = p => own2[i][k] = own[i][n] /\ own[i][n] # h
  BY <1>2, <1>3, <1>6, <1>7
<1>10. ASSUME NEW x \in Handles, at2[x] # Nowhere
       PROVE  \E k \in DOMAIN own2[at2[x]] : own2[at2[x]][k] = x
  <2>1. x # h /\ at2[x] = at[x] /\ at[x] \in Indexes
    BY <1>4, <1>10 DEF Places
  <2>2. PICK k \in DOMAIN own[at[x]] : own[at[x]][k] = x
    BY <1>10, <2>1 DEF Matched
  <2>3. CASE at[x] # i
    BY <1>3, <2>1, <2>2, <2>3
  <2>4. CASE at[x] = i
    <3>1. k \in 1 .. n /\ k # p
      BY <1>1, <1>2, <2>1, <2>2, <2>4
    <3>2. CASE k = n
      <4>1. p \in 1 .. n - 1
        BY <1>2, <1>8, <3>1, <3>2
      <4> QED
        BY <1>3, <1>9, <2>1, <2>2, <2>4, <3>2, <4>1
    <3>3. CASE k # n
      BY <1>3, <1>8, <1>9, <2>1, <2>2, <2>4, <3>1, <3>3
    <3> QED
      BY <3>2, <3>3
  <2> QED
    BY <2>3, <2>4
<1>11. ASSUME NEW j \in Indexes, NEW k \in DOMAIN own2[j], own2[j][k] # Nobody
       PROVE  at2[own2[j][k]] = j
  <2>1. CASE j # i
    <3>1. k \in DOMAIN own[j] /\ own2[j][k] = own[j][k]
      BY <1>3, <2>1
    <3>2. own[j][k] \in Handles /\ at[own[j][k]] = j
      BY <1>1, <1>11, <3>1 DEF Matched, Owners
    <3> QED
      BY <1>4, <2>1, <3>1, <3>2
  <2>2. CASE j = i
    <3>1. k \in 1 .. n - 1
      BY <1>3, <2>2
    <3>2. PICK l \in 1 .. n : own2[i][k] = own[i][l] /\ own[i][l] # h
      BY <1>7, <1>9, <3>1
    <3>3. own[i][l] \in Handles /\ at[own[i][l]] = i
      BY <1>1, <1>11, <2>2, <3>2 DEF Matched, Owners
    <3> QED
      BY <1>4, <2>2, <3>2, <3>3
  <2> QED
    BY <2>1, <2>2
<1>12. ASSUME NEW j \in Indexes, NEW k \in DOMAIN own2[j], NEW l \in DOMAIN own2[j],
              own2[j][k] # Nobody, own2[j][k] = own2[j][l]
       PROVE  k = l
  <2>1. CASE j # i
    BY <1>3, <1>12, <2>1 DEF Matched
  <2>2. CASE j = i
    <3>1. k \in 1 .. n - 1 /\ l \in 1 .. n - 1
      BY <1>3, <2>2
    <3>2. \A x, y \in 1 .. n : own[i][x] # Nobody /\ own[i][x] = own[i][y] => x = y
      BY <1>1 DEF Matched
    <3> QED
      BY <1>7, <1>9, <1>12, <2>2, <3>1, <3>2
  <2> QED
    BY <2>1, <2>2
<1> QED
  BY <1>10, <1>11, <1>12 DEF Matched, own2, at2

\* Sessions without a handle are closed.
LEMMA MatchedDropped ==
    ASSUME NEW own \in Stacks, NEW at \in Places, Matched(own, at),
           NEW i \in Indexes, NEW a \in Nat, NEW b \in Nat,
           a <= b, b <= Len(own[i]),
           \A k \in DOMAIN own[i] : k <= a \/ k > b => own[i][k] = Nobody
    PROVE  Matched([own EXCEPT ![i] = SubSeq(@, a + 1, b)], at)
<1> DEFINE own2 == [own EXCEPT ![i] = SubSeq(@, a + 1, b)]
           n    == Len(own[i])
<1>1. own[i] \in Seq(Owners) /\ n \in Nat /\ DOMAIN own[i] = 1 .. n
  BY StackTypes
<1>2. /\ DOMAIN own2[i] = 1 .. b - a
      /\ \A k \in 1 .. b - a : own2[i][k] = own[i][a + k]
      /\ \A j \in Indexes \ {i} : own2[j] = own[j]
  <2>1. own2[i] = SubSeq(own[i], a + 1, b)
    BY DEF Stacks
  <2> QED
    BY <1>1, <2>1, PartOf DEF Stacks
<1>3. \A k \in 1 .. b - a : a + k \in DOMAIN own[i]
  BY <1>1
<1>4. \A k \in DOMAIN own[i] :
         own[i][k] # Nobody => k - a \in 1 .. b - a /\ a + (k - a) = k
  BY <1>1
<1> HIDE DEF own2, n
<1>5. ASSUME NEW x \in Handles, at[x] # Nowhere
      PROVE  \E k \in DOMAIN own2[at[x]] : own2[at[x]][k] = x
  <2>1. at[x] \in Indexes /\ x # Nobody
    BY <1>5, SessionsAssumption DEF Places
  <2>2. PICK k \in DOMAIN own[at[x]] : own[at[x]][k] = x
    BY <1>5 DEF Matched
  <2>3. CASE at[x] = i
    BY <1>2, <1>4, <2>1, <2>2, <2>3
  <2>4. CASE at[x] # i
    BY <1>2, <2>1, <2>2, <2>4
  <2> QED
    BY <2>3, <2>4
<1>6. ASSUME NEW j \in Indexes, NEW k \in DOMAIN own2[j], own2[j][k] # Nobody
      PROVE  at[own2[j][k]] = j
  <2>1. CASE j = i
    BY <1>2, <1>3, <1>6, <2>1 DEF Matched
  <2>2. CASE j # i
    BY <1>2, <1>6, <2>2 DEF Matched
  <2> QED
    BY <2>1, <2>2
<1>7. ASSUME NEW j \in Indexes, NEW k \in DOMAIN own2[j], NEW l \in DOMAIN own2[j],
             own2[j][k] # Nobody, own2[j][k] = own2[j][l]
      PROVE  k = l
  <2>1. CASE j = i
    <3>1. /\ k \in 1 .. b - a /\ l \in 1 .. b - a
          /\ own2[i][k] = own[i][a + k] /\ own2[i][l] = own[i][a + l]
      BY <1>2, <2>1
    <3>2. a + k = a + l
      BY <1>3, <1>7, <2>1, <3>1 DEF Matched
    <3> QED
      BY <3>1, <3>2
  <2>2. CASE j # i
    BY <1>2, <1>7, <2>2 DEF Matched
  <2> QED
    BY <2>1, <2>2
<1> QED
  BY <1>5, <1>6, <1>7 DEF Matched, own2

-----------------------------------------------------------------------------
(* What calls make of the tables that handles recall. *)

\* A handle that has no session may recall anything.
LEMMA RecallsIdle ==
    ASSUME NEW own \in Stacks, NEW at \in Places, Matched(own, at),
           NEW tables, NEW contents, Recalls(own, tables, contents),
           NEW h \in Handles, at[h] = Nowhere,
           NEW tables2, \A x \in Handles \ {h} : tables2[x] = tables[x]
    PROVE  Recalls(own, tables2, contents)
<1> SUFFICES ASSUME NEW i \in Indexes, NEW k \in DOMAIN own[i], own[i][k] # Nobody
             PROVE  tables2[own[i][k]] = contents[i].saved[k]
  BY DEF Recalls
<1>1. own[i][k] \in Handles \ {h}
  BY StackTypes, SessionsAssumption DEF Matched, Owners
<1> QED
  BY <1>1 DEF Recalls

\* Who answers for a session recalls what the one before him did.
LEMMA RecallsHanded ==
    ASSUME NEW own \in Stacks, NEW at \in Places, Matched(own, at),
           NEW tables, NEW contents, Recalls(own, tables, contents),
           NEW i \in Indexes, NEW from \in Handles, at[from] \in {i, Nowhere},
           NEW g \in Owners, NEW tables2,
           g = Nobody \/ (g \in Handles /\ at[g] = Nowhere),
           g \in Handles => tables2[g] = tables[from],
           \A x \in Handles \ {g, from} : tables2[x] = tables[x]
    PROVE  Recalls([own EXCEPT ![i] = HandedOver(@, from, g)], tables2, contents)
<1> DEFINE own2 == [own EXCEPT ![i] = HandedOver(@, from, g)]
<1> SUFFICES ASSUME NEW j \in Indexes, NEW k \in DOMAIN own2[j], own2[j][k] # Nobody
             PROVE  tables2[own2[j][k]] = contents[j].saved[k]
  BY DEF Recalls
<1>1. own[i] \in Seq(Owners) /\ own2[i] = HandedOver(own[i], from, g)
  BY StackTypes DEF Stacks
<1>2. j # i => own2[j] = own[j]
  BY DEF Stacks
<1>3. k \in DOMAIN own[j]
  BY <1>1, <1>2, Hands
<1>4. own[j][k] \in Owners
  BY <1>3, StackTypes
<1>5. j # i => own[j][k] # from
  BY <1>3, SessionsAssumption DEF Matched
<1>6. own2[j][k] = IF own[j][k] = from THEN g ELSE own[j][k]
  BY <1>1, <1>2, <1>3, <1>5, Hands
<1>7. CASE own[j][k] = from
  <2>1. g \in Handles /\ from # Nobody
    BY <1>6, <1>7, SessionsAssumption DEF Owners
  <2> QED
    BY <1>3, <1>6, <1>7, <2>1 DEF Recalls
<1>8. CASE own[j][k] # from
  <2>1. own[j][k] \in Handles /\ own[j][k] # g
    BY <1>3, <1>4, <1>6, <1>8, SessionsAssumption DEF Matched, Owners
  <2> QED
    BY <1>3, <1>6, <1>8, <2>1 DEF Recalls
<1> QED
  BY <1>7, <1>8

\* Two functions agree on S.
AgreeOn(S, f, g) == \A x \in S : g[x] = f[x]

\* A handle that closes its own session, on the top, leaves the others theirs.
LEMMA RecallsClosed ==
    ASSUME NEW own \in Stacks, NEW at \in Places, Matched(own, at),
           NEW tables, NEW contents, Recalls(own, tables, contents),
           NEW h \in Handles, NEW i \in Indexes,
           own[i] # << >>, own[i][Len(own[i])] = h,
           NEW tables2, AgreeOn(Handles \ {h}, tables, tables2),
           NEW contents2,
           AgreeOn(Indexes \ {i}, contents, contents2),
           contents[i].saved \in Seq(Snapshot),
           Len(contents[i].saved) = Len(own[i]),
           contents2[i].saved = WithoutTop(contents[i].saved)
    PROVE  Recalls([own EXCEPT ![i] = ClosedBy(h, @)], tables2, contents2)
<1> DEFINE own2 == [own EXCEPT ![i] = ClosedBy(h, @)]
           n    == Len(own[i])
<1> SUFFICES ASSUME NEW j \in Indexes, NEW k \in DOMAIN own2[j], own2[j][k] # Nobody
             PROVE  tables2[own2[j][k]] = contents2[j].saved[k]
  BY DEF Recalls
<1>1. own[i] \in Seq(Owners) /\ n \in Nat /\ DOMAIN own[i] = 1 .. n
  BY StackTypes
<1>2. own2[i] = ClosedBy(h, own[i]) /\ (j # i => own2[j] = own[j])
  BY DEF Stacks
<1>3. h # Nobody /\ i # Nowhere /\ n \in DOMAIN own[i]
  BY <1>1, SessionsAssumption
<1>4. CASE j # i
  <2>1. k \in DOMAIN own[j] /\ own2[j][k] = own[j][k] /\ own[j][k] # Nobody
    BY <1>2, <1>4
  <2>2. own[j][k] \in Handles /\ own[j][k] # h
    BY <1>3, <1>4, <2>1, StackTypes DEF Matched, Owners
  <2> QED
    BY <1>4, <2>1, <2>2 DEF Recalls, AgreeOn
<1>5. CASE j = i
  <2>1. k \in 1 .. n - 1 /\ k \in DOMAIN own[i] /\ k # n
    BY <1>1, <1>2, <1>5, Closed
  <2>2. own[i][k] # h
    BY <1>3, <2>1 DEF Matched
  <2>3. own2[i][k] = own[i][k]
    BY <1>1, <1>2, <2>1, <2>2, Closed
  <2>4. own[i][k] \in Handles /\ own[i][k] # Nobody
    BY <1>5, <2>1, <2>3, StackTypes DEF Owners
  <2>5. contents2[i].saved[k] = contents[i].saved[k]
    BY <2>1, TopGone
  <2> QED
    BY <1>5, <2>1, <2>2, <2>3, <2>4, <2>5 DEF Recalls, AgreeOn
<1> QED
  BY <1>4, <1>5

\* What is left of a stack is recalled as it was.
LEMMA RecallsDropped ==
    ASSUME NEW own \in Stacks,
           NEW tables, NEW contents, Recalls(own, tables, contents),
           NEW i \in Indexes, NEW a \in Nat, NEW b \in Nat,
           a <= b, b <= Len(own[i]),
           NEW contents2,
           \A j \in Indexes \ {i} : contents2[j] = contents[j],
           \A k \in 1 .. b - a : contents2[i].saved[k] = contents[i].saved[a + k]
    PROVE  Recalls([own EXCEPT ![i] = SubSeq(@, a + 1, b)], tables, contents2)
<1> DEFINE own2 == [own EXCEPT ![i] = SubSeq(@, a + 1, b)]
<1> SUFFICES ASSUME NEW j \in Indexes, NEW k \in DOMAIN own2[j], own2[j][k] # Nobody
             PROVE  tables[own2[j][k]] = contents2[j].saved[k]
  BY DEF Recalls
<1>1. own[i] \in Seq(Owners) /\ Len(own[i]) \in Nat /\ DOMAIN own[i] = 1 .. Len(own[i])
  BY StackTypes
<1>2. own2[i] = SubSeq(own[i], a + 1, b) /\ (j # i => own2[j] = own[j])
  BY DEF Stacks
<1>3. CASE j # i
  BY <1>2, <1>3 DEF Recalls
<1>4. CASE j = i
  <2>1. k \in 1 .. b - a /\ own2[i][k] = own[i][a + k]
    BY <1>1, <1>2, <1>4, PartOf
  <2>2. a + k \in DOMAIN own[i]
    BY <1>1, <2>1
  <2> QED
    BY <1>4, <2>1, <2>2 DEF Recalls
<1> QED
  BY <1>3, <1>4

-----------------------------------------------------------------------------
(* The parts of the invariant. *)

\* Snapshots exist, and the empty table is one.
LEMMA EmptySnapshot == EmptyTable \in Table /\ EmptyTable.saved = << >>
                       /\ NoTable \in Snapshot
<1>1. [id \in {} |-> 0] \in Rows
  BY DEF Rows
<1> QED
  BY <1>1 DEF EmptyTable, Table, NoTable, Snapshot

\* A handle that applies has an index.
LEMMA HandleTypes ==
    ASSUME Typed, NEW h \in Handles
    PROVE  /\ Exists(h) => handle[h].on \in Indexes
           /\ Applies(h) => Exists(h)
           /\ ~ Applies(h) => Closing[h] = Nowhere
           /\ Applies(h) => Closing[h] = handle[h].on
           /\ Closing[h] \in {handle[h].on, Nowhere}
           /\ handle[h] \in {NoHandle} \cup [on : Indexes, apply : BOOLEAN]
<1>1. handle[h] \in {NoHandle} \cup [on : Indexes, apply : BOOLEAN]
  BY DEF Typed
<1>2. ~ NoHandle.apply /\ NoHandle.on = Nowhere
  BY DEF NoHandle
<1>3. Applies(h) => Exists(h)
  BY <1>1, <1>2, SessionsAssumption DEF Exists, Applies
<1> QED
  BY <1>1, <1>2, <1>3 DEF Exists, Closing

\* Places and stacks
Placed == owner \in Stacks /\ Closing \in Places

\* Typed states have them.
LEMMA PlaceTypes == Typed => Placed
<1> SUFFICES ASSUME Typed PROVE owner \in Stacks /\ Closing \in Places
  BY DEF Placed
<1>1. \A h \in Handles : Closing[h] \in Indexes \cup {Nowhere}
  BY HandleTypes
<1> QED
  BY <1>1 DEF Typed, Stacks, Places, Closing

\* The same, of the next state
LEMMA PlaceTypesNext == Typed' => Placed'
  BY PlaceTypes, PTL

\* The sessions of an index
LEMMA IndexTypes ==
    ASSUME Typed, NEW i \in Indexes
    PROVE  /\ index[i] \in Table
           /\ index[i].saved \in Seq(Snapshot)
           /\ owner[i] \in Seq(Owners)
           /\ Len(owner[i]) \in Nat
           /\ Len(owner[i]) = Len(index[i].saved)
  BY DEF Typed, Table

\* One index changes.
LEMMA IndexChanges ==
    ASSUME Typed, NEW i \in Indexes, NEW t \in Table, NEW s \in Seq(Owners),
           Len(s) = Len(t.saved),
           index' = [index EXCEPT ![i] = t], owner' = [owner EXCEPT ![i] = s]
    PROVE  /\ index' \in [Indexes -> Table] /\ owner' \in [Indexes -> Seq(Owners)]
           /\ \A j \in Indexes : Len(owner'[j]) = Len(index'[j].saved)
           /\ index'[i] = t
           /\ \A j \in Indexes \ {i} : index'[j] = index[j]
  BY DEF Typed

\* One handle changes.
LEMMA HandleChanges ==
    ASSUME Typed, NEW h \in Handles,
           NEW x \in {NoHandle} \cup [on : Indexes, apply : BOOLEAN],
           handle' = [handle EXCEPT ![h] = x]
    PROVE  /\ handle' \in [Handles -> {NoHandle} \cup [on : Indexes, apply : BOOLEAN]]
           /\ x.apply => Closing' = [Closing EXCEPT ![h] = x.on]
           /\ ~ x.apply => Closing' = [Closing EXCEPT ![h] = Nowhere]
<1>1. /\ handle' \in [Handles -> {NoHandle} \cup [on : Indexes, apply : BOOLEAN]]
      /\ handle'[h] = x
      /\ \A g \in Handles \ {h} : handle'[g] = handle[g]
  BY DEF Typed
<1>2. \A g \in Handles \ {h} : Applies(g)' = Applies(g)
  BY <1>1 DEF Applies
<1>3. Applies(h)' = x.apply
  BY <1>1 DEF Applies
<1> QED
  BY <1>1, <1>2, <1>3 DEF Closing

\* At the start nobody answers for anything.
LEMMA InitOrder == Init => Order
<1> SUFFICES ASSUME Init PROVE Order
  OBVIOUS
<1>1. Typed
  BY EmptySnapshot DEF Init, Typed
<1>2. \A i \in Indexes : owner[i] = << >> /\ DOMAIN owner[i] = {}
  BY DEF Init
<1>3. \A h \in Handles : Closing[h] = Nowhere
  BY DEF Init, Closing, Applies, NoHandle
<1> QED
  BY <1>1, <1>2, <1>3 DEF Order, Matched, Recalls

-----------------------------------------------------------------------------
(* The calls of handles. *)

\* start_undo_session
LEMMA StartOrder ==
    ASSUME Order, NEW h \in Handles, NEW i \in Indexes, Start(h, i)
    PROVE  Order'
<1> DEFINE x == [on |-> i, apply |-> TRUE]
           t == SessionStarted(index[i])
           s == Append(owner[i], h)
<1>1. /\ Typed /\ ~ Exists(h) /\ strayed' = strayed
      /\ index' = [index EXCEPT ![i] = t]
      /\ handle' = [handle EXCEPT ![h] = x]
      /\ owner' = [owner EXCEPT ![i] = s]
      /\ before' = [before EXCEPT ![h] = Contents(index[i])]
  BY DEF Order, Start, Typed
<1>2. /\ t \in Table /\ t.saved = Append(index[i].saved, Contents(index[i]))
      /\ Contents(index[i]) \in Snapshot
      /\ index[i].saved \in Seq(Snapshot) /\ owner[i] \in Seq(Owners)
      /\ Len(owner[i]) = Len(index[i].saved) /\ Len(owner[i]) \in Nat
  BY <1>1, IndexTypes, StartedTable
<1>3. s \in Seq(Owners) /\ Len(s) = Len(t.saved) /\ h \in Owners
  <2>1. h \in Owners
    BY DEF Owners
  <2> QED
    BY <1>2, <2>1
<1>4. /\ x \in {NoHandle} \cup [on : Indexes, apply : BOOLEAN]
      /\ x.apply /\ x.on = i
  OBVIOUS
<1>5. /\ index' \in [Indexes -> Table] /\ owner' \in [Indexes -> Seq(Owners)]
      /\ \A j \in Indexes : Len(owner'[j]) = Len(index'[j].saved)
      /\ index'[i] = t /\ \A j \in Indexes \ {i} : index'[j] = index[j]
  <2> HIDE DEF t, s
  <2> QED
    BY <1>1, <1>2, <1>3, IndexChanges
<1>6. /\ handle' \in [Handles -> {NoHandle} \cup [on : Indexes, apply : BOOLEAN]]
      /\ Closing' = [Closing EXCEPT ![h] = i]
  <2> HIDE DEF x
  <2> QED
    BY <1>1, <1>4, HandleChanges
<1>7. Typed'
  BY <1>1, <1>2, <1>5, <1>6 DEF Typed
<1>8. owner \in Stacks /\ Closing \in Places /\ Closing' \in Places
  BY <1>1, <1>7, PlaceTypes, PlaceTypesNext DEF Placed
<1>9. Closing[h] = Nowhere
  BY <1>1, HandleTypes
<1>10. ~ Lost' => Matched(owner, Closing) /\ Matched(owner', Closing')
  <2> SUFFICES ASSUME ~ Lost' PROVE Matched(owner, Closing) /\ Matched(owner', Closing')
    OBVIOUS
  <2>1. Matched(owner, Closing)
    BY <1>1 DEF Order, Lost
  <2>2. owner' = [owner EXCEPT ![i] = Append(@, h)]
    BY <1>1, <1>8 DEF Stacks
  <2> QED
    BY <1>3, <1>6, <1>8, <1>9, <2>1, <2>2, MatchedStart
<1>11. ASSUME strayed' = {} PROVE Recalls(owner', before', index')
  <2>1. Matched(owner, Closing) /\ Recalls(owner, before, index)
    BY <1>1, <1>10, <1>11 DEF Order, Lost
  <2> SUFFICES ASSUME NEW j \in Indexes, NEW k \in DOMAIN owner'[j],
                      owner'[j][k] # Nobody
               PROVE  before'[owner'[j][k]] = index'[j].saved[k]
    BY DEF Recalls
  <2>2. \A g \in Handles \ {h} : before'[g] = before[g]
    BY <1>1 DEF Typed
  <2>3. Recalls(owner, before', index)
    BY <1>8, <1>9, <2>1, <2>2, RecallsIdle
  <2>4. CASE j # i
    <3>1. owner'[j] = owner[j] /\ index'[j] = index[j]
      BY <1>1, <1>5, <2>4 DEF Typed
    <3> QED
      BY <2>3, <3>1 DEF Recalls
  <2>5. CASE j = i
    <3>1. owner'[i] = Append(owner[i], h) /\ index'[i].saved = t.saved
      BY <1>1, <1>5 DEF Typed
    <3>2. CASE k \in 1 .. Len(owner[i])
      <4>1. k \in DOMAIN owner[i] /\ owner'[i][k] = owner[i][k]
        BY <1>2, <3>1, <3>2
      <4>2. index'[i].saved[k] = index[i].saved[k]
        BY <1>2, <3>1, <3>2
      <4> QED
        BY <2>3, <2>5, <4>1, <4>2 DEF Recalls
    <3>3. CASE k = Len(owner[i]) + 1
      <4>1. owner'[i][k] = h
        BY <1>2, <1>3, <3>1, <3>3
      <4>2. index'[i].saved[k] = Contents(index[i])
        BY <1>2, <3>1, <3>3
      <4>3. before'[h] = Contents(index[i])
        BY <1>1 DEF Typed
      <4> QED
        BY <2>5, <4>1, <4>2, <4>3
    <3>4. k \in 1 .. Len(owner[i]) \/ k = Len(owner[i]) + 1
      BY <1>2, <1>3, <2>5, <3>1
    <3> QED
      BY <3>2, <3>3, <3>4
  <2> QED
    BY <2>4, <2>5
<1> QED
  BY <1>7, <1>10, <1>11 DEF Order

\* What is left of a handle that has done its work
LEMMA SpentTypes ==
    ASSUME Typed, NEW h \in Handles, Exists(h)
    PROVE  /\ Spent(h) \in {NoHandle} \cup [on : Indexes, apply : BOOLEAN]
           /\ ~ Spent(h).apply
<1>1. handle[h] \in [on : Indexes, apply : BOOLEAN]
  BY DEF Typed, Exists, NoHandle
<1> QED
  BY <1>1 DEF Spent

\* push
LEMMA PushOrder ==
    ASSUME Order, NEW h \in Handles, Push(h)
    PROVE  Order'
<1> DEFINE i == handle[h].on
           s == HandedOver(owner[i], h, Nobody)
<1>1. /\ Typed /\ Exists(h) /\ index' = index /\ strayed' = strayed
      /\ handle' = [handle EXCEPT ![h] = Spent(h)]
      /\ owner' = [owner EXCEPT ![i] = HandedOver(@, h, Nobody)]
      /\ before' = [before EXCEPT ![h] = NoTable]
  BY DEF Order, Push, Spent
<1>2. i \in Indexes /\ Closing[h] \in {i, Nowhere}
  BY <1>1, HandleTypes
<1> HIDE DEF i
<1>3. Nobody \in Owners
  BY DEF Owners
<1>4. s \in Seq(Owners) /\ Len(s) = Len(owner[i]) /\ owner' = [owner EXCEPT ![i] = s]
  <2>1. owner[i] \in Seq(Owners)
    BY <1>1, <1>2, IndexTypes
  <2>2. owner' = [owner EXCEPT ![i] = s]
    BY <1>1
  <2> QED
    BY <1>3, <2>1, <2>2, Hands
<1> HIDE DEF s
<1>5. /\ handle' \in [Handles -> {NoHandle} \cup [on : Indexes, apply : BOOLEAN]]
      /\ Closing' = [Closing EXCEPT ![h] = Nowhere]
  BY <1>1, SpentTypes, HandleChanges
<1>6. Typed'
  BY <1>1, <1>2, <1>4, <1>5, EmptySnapshot DEF Typed
<1>7. owner \in Stacks /\ Closing \in Places /\ Closing' \in Places
  BY <1>1, <1>6, PlaceTypes, PlaceTypesNext DEF Placed
<1>8. ~ Lost' => Matched(owner, Closing)
  BY <1>1 DEF Order, Lost
<1>9. ~ Lost' => Matched(owner', Closing')
  BY <1>1, <1>2, <1>3, <1>5, <1>7, <1>8, MatchedHanded
<1>10. ASSUME strayed' = {} PROVE Recalls(owner', before', index')
  <2>1. Matched(owner, Closing) /\ Recalls(owner, before, index)
    BY <1>1, <1>8, <1>10 DEF Order, Lost
  <2>2. Nobody \notin Handles
    BY SessionsAssumption
  <2>3. \A x \in Handles \ {Nobody, h} : before'[x] = before[x]
    BY <1>1 DEF Typed
  <2>4. Recalls([owner EXCEPT ![i] = HandedOver(@, h, Nobody)], before', index)
    BY <1>2, <1>3, <1>7, <2>1, <2>2, <2>3, RecallsHanded
  <2> QED
    BY <1>1, <2>4
<1> QED
  BY <1>6, <1>9, <1>10 DEF Order

\* squash, undo and the destructor
LEMMA ClosesOrder ==
    ASSUME Order, NEW h \in Handles,
           NEW closed \in {Undone(index[handle[h].on]), Squashed(index[handle[h].on])},
           NEW left \in {NoHandle} \cup [on : Indexes, apply : BOOLEAN],
           ~ left.apply, Closes(h, closed, left)
    PROVE  Order'
<1> DEFINE i == handle[h].on
<1>1. /\ Typed /\ Exists(h)
      /\ OutOfOrder(h) \subseteq Careless /\ strayed' = strayed \cup OutOfOrder(h)
      /\ handle' = [handle EXCEPT ![h] = left]
      /\ before' = [before EXCEPT ![h] = NoTable]
  BY DEF Order, Closes, Strays
<1>2. i \in Indexes /\ closed \in {Undone(index[i]), Squashed(index[i])}
  BY <1>1, HandleTypes
<1>3. /\ handle' \in [Handles -> {NoHandle} \cup [on : Indexes, apply : BOOLEAN]]
      /\ Closing' = [Closing EXCEPT ![h] = Nowhere]
  BY <1>1, HandleChanges
<1>4. /\ before' \in [Handles -> Snapshot]
      /\ \A x \in Handles \ {h} : before'[x] = before[x]
      /\ strayed' \subseteq Careless
  BY <1>1, EmptySnapshot DEF Typed
<1>5. /\ ~ Lost' => Matched(owner, Closing)
      /\ strayed' = {} => OutOfOrder(h) = {} /\ Recalls(owner, before, index)
      /\ strayed' = {} => ~ Lost'
  BY <1>1 DEF Order, Lost
<1>6. CASE Applies(h)
  <2>1. /\ index' = [index EXCEPT ![i] = closed]
        /\ owner' = [owner EXCEPT ![i] = ClosedBy(h, @)]
    BY <1>6 DEF Closes
  <2>2. Closing[h] = i
    BY <1>1, <1>6, HandleTypes
  <2>3. strayed' = {} => owner[i] # << >> /\ owner[i][Len(owner[i])] = h
    BY <1>5, <1>6 DEF OutOfOrder, IsTop
  <2> HIDE DEF i
  <2>4. /\ owner[i] \in Seq(Owners) /\ Len(owner[i]) = Len(index[i].saved)
        /\ index[i].saved \in Seq(Snapshot) /\ index[i] \in Table
    BY <1>1, <1>2, IndexTypes
  <2>5. closed \in Table /\ closed.saved = WithoutTop(index[i].saved)
    BY <1>2, <2>4, ClosedTable
  <2>6. /\ ClosedBy(h, owner[i]) \in Seq(Owners)
        /\ Len(ClosedBy(h, owner[i])) = Len(closed.saved)
    <3>1. owner[i] = << >> <=> index[i].saved = << >>
      BY <2>4
    <3>2. /\ ClosedBy(h, owner[i]) \in Seq(Owners)
          /\ Len(ClosedBy(h, owner[i]))
               = IF owner[i] = << >> THEN 0 ELSE Len(owner[i]) - 1
      BY <2>4, Closed
    <3>3. Len(closed.saved) = IF index[i].saved = << >> THEN 0
                              ELSE Len(index[i].saved) - 1
      BY <2>4, <2>5, TopGone
    <3> QED
      BY <2>4, <3>1, <3>2, <3>3
  <2>7. /\ index' \in [Indexes -> Table] /\ owner' \in [Indexes -> Seq(Owners)]
        /\ \A j \in Indexes : Len(owner'[j]) = Len(index'[j].saved)
        /\ index'[i] = closed /\ \A j \in Indexes \ {i} : index'[j] = index[j]
    <3>1. owner' = [owner EXCEPT ![i] = ClosedBy(h, owner[i])]
      BY <2>1
    <3> QED
      BY <1>1, <1>2, <2>1, <2>5, <2>6, <3>1, IndexChanges
  <2>8. Typed'
    BY <1>3, <1>4, <2>7 DEF Typed
  <2>9. owner \in Stacks /\ Closing \in Places
    BY <1>1, PlaceTypes DEF Placed
  <2>10. ~ Lost' => Matched(owner', Closing')
    BY <1>2, <1>3, <1>5, <2>1, <2>2, <2>9, MatchedClosed
  <2>11. ASSUME strayed' = {} PROVE Recalls(owner', before', index')
    <3>1. /\ Matched(owner, Closing) /\ Recalls(owner, before, index)
          /\ owner[i] # << >> /\ owner[i][Len(owner[i])] = h
      BY <1>5, <2>3, <2>11
    <3>2. index'[i].saved = WithoutTop(index[i].saved)
      BY <2>5, <2>7
    <3>3. Len(index[i].saved) = Len(owner[i])
      BY <2>4
    <3>4. /\ AgreeOn(Handles \ {h}, before, before')
          /\ AgreeOn(Indexes \ {i}, index, index')
      BY <1>4, <2>7 DEF AgreeOn
    <3>5. Recalls([owner EXCEPT ![i] = ClosedBy(h, @)], before', index')
      BY ONLY <1>2, <2>4, <2>9, <3>1, <3>2, <3>3, <3>4, RecallsClosed
    <3> QED
      BY <2>1, <3>5
  <2> QED
    BY <2>8, <2>10, <2>11 DEF Order
<1>7. CASE ~ Applies(h)
  <2>1. index' = index /\ owner' = owner
    BY <1>7 DEF Closes
  <2>2. Typed'
    BY <1>1, <1>3, <1>4, <2>1 DEF Typed
  <2>3. owner \in Stacks /\ Closing \in Places /\ Closing[h] = Nowhere
    BY <1>1, <1>7, PlaceTypes, HandleTypes DEF Placed
  <2>4. Closing' = Closing
    BY <1>3, <2>3 DEF Places
  <2>5. strayed' = {} => Recalls(owner, before', index)
    BY <1>4, <1>5, <2>3, RecallsIdle
  <2> QED
    BY <1>5, <2>1, <2>2, <2>4, <2>5 DEF Order
<1> QED
  BY <1>6, <1>7

\* session(session&&)
LEMMA MoveConstructOrder ==
    ASSUME Order, NEW h \in Handles, NEW from \in Handles, MoveConstruct(h, from)
    PROVE  Order'
<1> DEFINE i == handle[from].on
           s == HandedOver(owner[i], from, h)
<1>1. /\ Typed /\ ~ Exists(h) /\ Exists(from) /\ h # from
      /\ index' = index /\ strayed' = strayed
      /\ handle' = [handle EXCEPT ![h] = handle[from], ![from] = Spent(from)]
      /\ owner' = [owner EXCEPT ![i] = HandedOver(@, from, h)]
      /\ before' = [before EXCEPT ![h] = before[from], ![from] = NoTable]
  BY DEF Order, MoveConstruct, Spent, MovedFrom
<1>2. /\ i \in Indexes /\ Closing[from] \in {i, Nowhere} /\ Closing[h] = Nowhere
      /\ Applies(from) => Closing[from] = i
      /\ ~ Applies(from) => Closing[from] = Nowhere
      /\ handle[from] \in {NoHandle} \cup [on : Indexes, apply : BOOLEAN]
      /\ Spent(from) \in {NoHandle} \cup [on : Indexes, apply : BOOLEAN]
      /\ ~ Spent(from).apply
  BY <1>1, HandleTypes, SpentTypes
<1>3. /\ handle' \in [Handles -> {NoHandle} \cup [on : Indexes, apply : BOOLEAN]]
      /\ Closing' = [Closing EXCEPT ![h] = Closing[from], ![from] = Nowhere]
  <2>1. /\ handle' \in [Handles -> {NoHandle} \cup [on : Indexes, apply : BOOLEAN]]
        /\ handle'[h] = handle[from] /\ handle'[from] = Spent(from)
        /\ \A g \in Handles \ {h, from} : handle'[g] = handle[g]
    BY <1>1, <1>2 DEF Typed
  <2>2. /\ Applies(h)' <=> Applies(from)
        /\ ~ Applies(from)'
        /\ \A g \in Handles \ {h, from} : Applies(g)' <=> Applies(g)
    BY <1>2, <2>1 DEF Applies
  <2> QED
    BY <1>1, <1>2, <2>1, <2>2 DEF Closing
<1> HIDE DEF i
<1>4. h \in Owners
  BY DEF Owners
<1>5. s \in Seq(Owners) /\ Len(s) = Len(owner[i]) /\ owner' = [owner EXCEPT ![i] = s]
  <2>1. owner[i] \in Seq(Owners)
    BY <1>1, <1>2, IndexTypes
  <2>2. owner' = [owner EXCEPT ![i] = s]
    BY <1>1
  <2> QED
    BY <1>4, <2>1, <2>2, Hands
<1> HIDE DEF s
<1>6. /\ before' \in [Handles -> Snapshot] /\ before'[h] = before[from]
      /\ \A x \in Handles \ {h, from} : before'[x] = before[x]
  BY <1>1, EmptySnapshot DEF Typed
<1>7. Typed'
  <2>1. owner' \in [Indexes -> Seq(Owners)]
    BY <1>1, <1>2, <1>5 DEF Typed
  <2>2. \A j \in Indexes : Len(owner'[j]) = Len(index'[j].saved)
    BY <1>1, <1>2, <1>5 DEF Typed
  <2> QED
    BY <1>1, <1>3, <1>6, <2>1, <2>2 DEF Typed
<1>8. owner \in Stacks /\ Closing \in Places /\ Closing' \in Places
  BY <1>1, <1>7, PlaceTypes, PlaceTypesNext DEF Placed
<1>9. ~ Lost' => Matched(owner, Closing)
  BY <1>1 DEF Order, Lost
<1>10. ~ Lost' => Matched(owner', Closing')
  BY <1>1, <1>2, <1>3, <1>4, <1>8, <1>9, MatchedHanded
<1>11. ASSUME strayed' = {} PROVE Recalls(owner', before', index')
  <2>1. Matched(owner, Closing) /\ Recalls(owner, before, index)
    BY <1>1, <1>9, <1>11 DEF Order, Lost
  <2>2. Recalls([owner EXCEPT ![i] = HandedOver(@, from, h)], before', index)
    BY <1>2, <1>4, <1>6, <1>8, <2>1, RecallsHanded
  <2> QED
    BY <1>1, <2>2
<1> QED
  BY <1>7, <1>10, <1>11 DEF Order

\* What a handle that is assigned to closes first
LEMMA AssignedOrder ==
    ASSUME Order, NEW h \in Handles, Exists(h),
           index' = AssignedIndex(h)
    PROVE  /\ index' \in [Indexes -> Table]
           /\ AssignedOwner(h) \in Stacks
           /\ \A j \in Indexes : Len(AssignedOwner(h)[j]) = Len(index'[j].saved)
           /\ Matched(owner, Closing) =>
                 Matched(AssignedOwner(h), [Closing EXCEPT ![h] = Nowhere])
           /\ \A tables :
                 /\ Matched(owner, Closing) /\ Recalls(owner, before, index)
                 /\ OutOfOrder(h) = {}
                 /\ AgreeOn(Handles \ {h}, before, tables)
                 => Recalls(AssignedOwner(h), tables, index')
<1> DEFINE i == handle[h].on
           closed == Undone(index[i])
<1>1. Typed /\ i \in Indexes
  BY HandleTypes DEF Order
<1>2. owner \in Stacks /\ Closing \in Places
  BY <1>1, PlaceTypes DEF Placed
<1>3. CASE Applies(h)
  <2>1. /\ index' = [index EXCEPT ![i] = closed]
        /\ AssignedOwner(h) = [owner EXCEPT ![i] = ClosedBy(h, @)]
    BY <1>3 DEF AssignedIndex, AssignedOwner
  <2>2. Closing[h] = i
    BY <1>1, <1>3, HandleTypes
  <2>3. OutOfOrder(h) = {} => owner[i] # << >> /\ owner[i][Len(owner[i])] = h
    BY <1>3 DEF OutOfOrder, IsTop
  <2> HIDE DEF i
  <2>4. /\ owner[i] \in Seq(Owners) /\ Len(owner[i]) = Len(index[i].saved)
        /\ index[i].saved \in Seq(Snapshot) /\ index[i] \in Table
    BY <1>1, IndexTypes
  <2>5. closed \in Table /\ closed.saved = WithoutTop(index[i].saved)
    BY <2>4, ClosedTable
  <2> HIDE DEF closed
  <2>6. /\ ClosedBy(h, owner[i]) \in Seq(Owners)
        /\ Len(ClosedBy(h, owner[i])) = Len(closed.saved)
    <3>1. owner[i] = << >> <=> index[i].saved = << >>
      BY <2>4
    <3>2. /\ ClosedBy(h, owner[i]) \in Seq(Owners)
          /\ Len(ClosedBy(h, owner[i]))
               = IF owner[i] = << >> THEN 0 ELSE Len(owner[i]) - 1
      BY <2>4, Closed
    <3>3. Len(closed.saved) = IF index[i].saved = << >> THEN 0
                              ELSE Len(index[i].saved) - 1
      BY <2>4, <2>5, TopGone
    <3> QED
      BY <2>4, <3>1, <3>2, <3>3
  <2>7. /\ index' \in [Indexes -> Table] /\ AssignedOwner(h) \in Stacks
        /\ \A j \in Indexes : Len(AssignedOwner(h)[j]) = Len(index'[j].saved)
        /\ index'[i] = closed /\ AgreeOn(Indexes \ {i}, index, index')
    BY <1>1, <1>2, <2>1, <2>5, <2>6 DEF Typed, Stacks, AgreeOn
  <2>8. Matched(owner, Closing) =>
           Matched(AssignedOwner(h), [Closing EXCEPT ![h] = Nowhere])
    <3>1. ASSUME Matched(owner, Closing)
          PROVE  Matched([owner EXCEPT ![i] = ClosedBy(h, @)],
                         [Closing EXCEPT ![h] = Nowhere])
      BY ONLY <1>1, <1>2, <2>2, <3>1, h \in Handles, MatchedClosed
    <3> QED
      BY <2>1, <3>1
  <2>9. ASSUME NEW tables, Matched(owner, Closing), Recalls(owner, before, index),
               OutOfOrder(h) = {}, AgreeOn(Handles \ {h}, before, tables)
        PROVE  Recalls(AssignedOwner(h), tables, index')
    <3>1. index'[i].saved = WithoutTop(index[i].saved)
      BY <2>5, <2>7
    <3>2. Len(index[i].saved) = Len(owner[i])
      BY <2>4
    <3>3. owner[i] # << >> /\ owner[i][Len(owner[i])] = h
      BY <2>3, <2>9
    <3>4. Recalls([owner EXCEPT ![i] = ClosedBy(h, @)], tables, index')
      BY ONLY <1>1, <1>2, <2>4, <2>7, <2>9, <3>1, <3>2, <3>3, RecallsClosed
    <3> QED
      BY <2>1, <3>4
  <2> QED
    BY <2>7, <2>8, <2>9
<1>4. CASE ~ Applies(h)
  <2>1. index' = index /\ AssignedOwner(h) = owner
    BY <1>4 DEF AssignedIndex, AssignedOwner
  <2>2. Closing[h] = Nowhere
    BY <1>1, <1>4, HandleTypes
  <2>3. [Closing EXCEPT ![h] = Nowhere] = Closing
    BY <1>2, <2>2 DEF Places
  <2>4. ASSUME NEW tables, Matched(owner, Closing), Recalls(owner, before, index),
               AgreeOn(Handles \ {h}, before, tables)
        PROVE  Recalls(owner, tables, index)
    BY <1>2, <2>2, <2>4, RecallsIdle DEF AgreeOn
  <2> QED
    BY <1>1, <1>2, <2>1, <2>3, <2>4 DEF Typed
<1> QED
  BY <1>3, <1>4

\* operator=
LEMMA MoveAssignOrder ==
    ASSUME Order, NEW h \in Handles, NEW from \in Handles, MoveAssign(h, from)
    PROVE  Order'
<1> DEFINE i       == handle[from].on
           rebinds == IF Applies(from) /\ handle[h].on # i THEN {"rebind"} ELSE {}
           mid     == AssignedOwner(h)
           at      == [Closing EXCEPT ![h] = Nowhere]
<1>1. /\ Typed /\ Exists(h) /\ Exists(from) /\ h # from
      /\ OutOfOrder(h) \cup rebinds \subseteq Careless
      /\ strayed' = strayed \cup OutOfOrder(h) \cup rebinds
      /\ index' = AssignedIndex(h)
      /\ handle' = [handle EXCEPT ![h].apply = Applies(from), ![from] = Spent(from)]
      /\ owner' = [mid EXCEPT ![i] = HandedOver(@, from, h)]
      /\ before' = [before EXCEPT ![h] = before[from], ![from] = NoTable]
  BY DEF Order, MoveAssign, Spent, MovedFrom, TakenOver, Strays
<1>2. /\ i \in Indexes /\ Closing[from] \in {i, Nowhere}
      /\ Applies(from) => Closing[from] = i
      /\ ~ Applies(from) => Closing[from] = Nowhere
      /\ handle[h].on \in Indexes
      /\ handle[from] \in {NoHandle} \cup [on : Indexes, apply : BOOLEAN]
      /\ Spent(from) \in {NoHandle} \cup [on : Indexes, apply : BOOLEAN]
      /\ ~ Spent(from).apply
  BY <1>1, HandleTypes, SpentTypes
<1>3. /\ handle' \in [Handles -> {NoHandle} \cup [on : Indexes, apply : BOOLEAN]]
      /\ handle'[h].on = handle[h].on
      /\ Applies(h)' <=> Applies(from)
      /\ ~ Applies(from)'
      /\ \A g \in Handles \ {h, from} :
            handle'[g] = handle[g] /\ (Applies(g)' <=> Applies(g))
  <2>1. handle[h] \in [on : Indexes, apply : BOOLEAN]
    BY <1>1 DEF Typed, Exists, NoHandle
  <2>2. handle[from] \in [on : Indexes, apply : BOOLEAN]
    BY <1>1 DEF Typed, Exists, NoHandle
  <2>3. /\ handle'[h] = [handle[h] EXCEPT !.apply = handle[from].apply]
        /\ handle'[from] = Spent(from)
        /\ \A g \in Handles \ {h, from} : handle'[g] = handle[g]
        /\ DOMAIN handle' = Handles
        /\ handle' = [g \in Handles |-> handle'[g]]
    BY <1>1, <1>2 DEF Typed, Applies
  <2>4. handle'[h] \in [on : Indexes, apply : BOOLEAN]
    BY <2>1, <2>2, <2>3
  <2>5. handle' \in [Handles -> {NoHandle} \cup [on : Indexes, apply : BOOLEAN]]
    BY <1>1, <1>2, <2>3, <2>4 DEF Typed
  <2>6. handle'[h].on = handle[h].on /\ (handle'[h].apply <=> handle[from].apply)
    BY <2>1, <2>2, <2>3
  <2> QED
    BY <1>2, <2>3, <2>5, <2>6 DEF Applies
<1>4. /\ Closing'[from] = Nowhere
      /\ Closing'[h] = IF Applies(from) THEN handle[h].on ELSE Nowhere
      /\ \A g \in Handles \ {h, from} : Closing'[g] = Closing[g]
  BY <1>1, <1>3 DEF Closing
<1>5. owner \in Stacks /\ Closing \in Places
  BY <1>1, PlaceTypes DEF Placed
<1>6. at \in Places /\ at[h] = Nowhere /\ at[from] = Closing[from]
  BY <1>1, <1>5 DEF Places
<1>7. ~ Lost' => Closing' = [at EXCEPT ![h] = at[from], ![from] = Nowhere]
  <2> SUFFICES ASSUME ~ Lost'
               PROVE  Closing' = [at EXCEPT ![h] = at[from], ![from] = Nowhere]
    OBVIOUS
  <2>1. "rebind" \notin strayed'
    BY DEF Lost
  <2>2. Applies(from) => handle[h].on = i
    BY <1>1, <2>1
  <2>3. Closing'[h] = at[from]
    BY <1>2, <1>4, <1>6, <2>2
  <2>4. Closing' = [g \in Handles |-> Closing'[g]]
    BY DEF Closing
  <2> QED
    BY <1>1, <1>4, <1>5, <2>3, <2>4 DEF Places
<1> HIDE DEF i, rebinds, at
<1>8. /\ index' \in [Indexes -> Table] /\ mid \in Stacks
      /\ \A j \in Indexes : Len(mid[j]) = Len(index'[j].saved)
      /\ Matched(owner, Closing) => Matched(mid, at)
      /\ /\ Matched(owner, Closing) /\ Recalls(owner, before, index)
         /\ OutOfOrder(h) = {}
         => Recalls(mid, [before EXCEPT ![h] = NoTable], index')
  <2>1. AgreeOn(Handles \ {h}, before, [before EXCEPT ![h] = NoTable])
    BY <1>1 DEF Typed, AgreeOn
  <2> QED
    BY <1>1, <2>1, AssignedOrder DEF at
<1> HIDE DEF mid
<1>9. h \in Owners
  BY DEF Owners
<1>10. /\ owner' \in [Indexes -> Seq(Owners)]
       /\ \A j \in Indexes : Len(owner'[j]) = Len(index'[j].saved)
  <2>1. mid[i] \in Seq(Owners)
    BY <1>2, <1>8 DEF Stacks
  <2>2. /\ HandedOver(mid[i], from, h) \in Seq(Owners)
        /\ Len(HandedOver(mid[i], from, h)) = Len(mid[i])
    BY <1>9, <2>1, Hands
  <2>3. owner' = [mid EXCEPT ![i] = HandedOver(mid[i], from, h)]
    BY <1>1
  <2> QED
    BY <1>2, <1>8, <2>2, <2>3 DEF Stacks
<1>11. /\ before' \in [Handles -> Snapshot] /\ before'[h] = before[from]
       /\ \A x \in Handles \ {h, from} : before'[x] = before[x]
       /\ strayed' \subseteq Careless
  BY <1>1, EmptySnapshot DEF Typed
<1>12. Typed'
  BY <1>3, <1>8, <1>10, <1>11 DEF Typed
<1>13. Closing' \in Places
  BY <1>12, PlaceTypesNext DEF Placed
<1>14. ~ Lost' => Matched(mid, at)
  BY <1>1, <1>8 DEF Order, Lost
<1>15. ~ Lost' => Matched(owner', Closing')
  BY <1>1, <1>2, <1>6, <1>7, <1>8, <1>9, <1>13, <1>14, MatchedHanded
<1>16. ASSUME strayed' = {} PROVE Recalls(owner', before', index')
  <2> DEFINE tables == [before EXCEPT ![h] = NoTable]
  <2>1. /\ Matched(owner, Closing) /\ Recalls(owner, before, index)
        /\ OutOfOrder(h) = {} /\ ~ Lost'
    BY <1>1, <1>16 DEF Order, Lost
  <2>2. Matched(mid, at) /\ Recalls(mid, tables, index')
    BY <1>8, <2>1
  <2>3. /\ before'[h] = tables[from]
        /\ \A x \in Handles \ {h, from} : before'[x] = tables[x]
    BY <1>1, <1>11 DEF Typed
  <2> HIDE DEF tables
  <2>4. at[from] \in {i, Nowhere} /\ at[h] = Nowhere
    BY <1>2, <1>6
  <2>5. Recalls([mid EXCEPT ![i] = HandedOver(@, from, h)], before', index')
    BY <1>2, <1>6, <1>8, <1>9, <2>2, <2>3, <2>4, RecallsHanded
  <2> QED
    BY <1>1, <2>5
<1> QED
  BY <1>12, <1>15, <1>16 DEF Order

-----------------------------------------------------------------------------
(* The calls of an index. *)

\* emplace and remove leave the sessions alone.
LEMMA WriteOrder ==
    ASSUME Order, NEW i \in Indexes, NEW t \in Table,
           t.saved = index[i].saved, Write(i, t)
    PROVE  Order'
<1>1. /\ Typed /\ index' = [index EXCEPT ![i] = t]
      /\ handle' = handle /\ owner' = owner /\ before' = before
      /\ strayed' = strayed
  BY DEF Order, Write
<1>2. /\ index' \in [Indexes -> Table]
      /\ \A j \in Indexes : index'[j].saved = index[j].saved
  BY <1>1 DEF Typed
<1>3. Typed'
  BY <1>1, <1>2 DEF Typed
<1>4. Closing' = Closing /\ (Lost' <=> Lost)
  BY <1>1 DEF Closing, Applies, Lost
<1>5. Recalls(owner, before, index) => Recalls(owner, before, index')
  BY <1>2 DEF Recalls
<1> QED
  BY <1>1, <1>3, <1>4, <1>5 DEF Order

\* What they make of the contents
LEMMA WrittenTable ==
    ASSUME NEW t \in Table
    PROVE  /\ Emplaced(t, t.next_id, 0) \in Table
           /\ Emplaced(t, t.next_id, 0).saved = t.saved
           /\ \A id : Removed(t, id) \in Table /\ Removed(t, id).saved = t.saved
<1>1. PICK S \in SUBSET Nat : t.rows \in [S -> {0}]
  BY DEF Table, Rows
<1>2. t.next_id \in Nat /\ t.next_id + 1 \in Nat
  BY DEF Table
<1>3. [k \in DOMAIN t.rows \cup {t.next_id} |->
         IF k = t.next_id THEN 0 ELSE t.rows[k]] \in Rows
  <2>1. S \cup {t.next_id} \in SUBSET Nat
    BY <1>2
  <2>2. [k \in S \cup {t.next_id} |-> IF k = t.next_id THEN 0 ELSE t.rows[k]]
          \in [S \cup {t.next_id} -> {0}]
    BY <1>1
  <2>3. DOMAIN t.rows = S
    BY <1>1
  <2> QED
    BY <2>1, <2>2, <2>3 DEF Rows
<1>4. ASSUME NEW id PROVE [k \in DOMAIN t.rows \ {id} |-> t.rows[k]] \in Rows
  <2>1. S \ {id} \in SUBSET Nat
    OBVIOUS
  <2>2. [k \in S \ {id} |-> t.rows[k]] \in [S \ {id} -> {0}]
    BY <1>1
  <2>3. DOMAIN t.rows = S
    BY <1>1
  <2> QED
    BY <2>1, <2>2, <2>3 DEF Rows
<1> QED
  BY <1>2, <1>3, <1>4 DEF Table, Emplaced, Removed

\* start_undo
LEMMA StartUndoOrder ==
    ASSUME Order, NEW i \in Indexes, StartUndo(i)
    PROVE  Order'
<1> DEFINE t == SessionStarted(index[i])
           s == Append(owner[i], Nobody)
<1>1. /\ Typed /\ strayed' = strayed /\ handle' = handle /\ before' = before
      /\ index' = [index EXCEPT ![i] = t]
      /\ owner' = [owner EXCEPT ![i] = s]
      /\ owner' = [owner EXCEPT ![i] = Append(@, Nobody)]
  BY DEF Order, StartUndo, Typed
<1>2. /\ t \in Table /\ t.saved = Append(index[i].saved, Contents(index[i]))
      /\ Contents(index[i]) \in Snapshot
      /\ index[i].saved \in Seq(Snapshot) /\ owner[i] \in Seq(Owners)
      /\ Len(owner[i]) = Len(index[i].saved) /\ Len(owner[i]) \in Nat
  BY <1>1, IndexTypes, StartedTable
<1>3. s \in Seq(Owners) /\ Len(s) = Len(t.saved) /\ Nobody \in Owners
  <2>1. Nobody \in Owners
    BY DEF Owners
  <2> QED
    BY <1>2, <2>1
<1>4. /\ index' \in [Indexes -> Table] /\ owner' \in [Indexes -> Seq(Owners)]
      /\ \A j \in Indexes : Len(owner'[j]) = Len(index'[j].saved)
      /\ index'[i] = t /\ \A j \in Indexes \ {i} : index'[j] = index[j]
  <2> HIDE DEF t, s
  <2> QED
    BY <1>1, <1>2, <1>3, IndexChanges
<1>5. Typed'
  BY <1>1, <1>4 DEF Typed
<1>6. Closing' = Closing /\ (Lost' <=> Lost)
  BY <1>1 DEF Closing, Applies, Lost
<1>7. owner \in Stacks /\ Closing \in Places
  BY <1>1, PlaceTypes DEF Placed
<1>8. ~ Lost' => Matched(owner', Closing')
  <2>1. ASSUME Matched(owner, Closing)
        PROVE  Matched([owner EXCEPT ![i] = Append(@, Nobody)], Closing)
    BY ONLY <1>3, <1>7, <2>1, i \in Indexes, MatchedStart
  <2> QED
    BY <1>1, <1>6, <2>1 DEF Order
<1>9. ASSUME strayed' = {} PROVE Recalls(owner', before', index')
  <2>1. Recalls(owner, before, index)
    BY <1>1, <1>9 DEF Order
  <2> SUFFICES ASSUME NEW j \in Indexes, NEW k \in DOMAIN owner'[j],
                      owner'[j][k] # Nobody
               PROVE  before[owner'[j][k]] = index'[j].saved[k]
    BY <1>1 DEF Recalls
  <2>2. CASE j # i
    <3>1. owner'[j] = owner[j] /\ index'[j] = index[j]
      BY <1>1, <1>4, <2>2 DEF Typed
    <3> QED
      BY <2>1, <3>1 DEF Recalls
  <2>3. CASE j = i
    <3>1. owner'[i] = Append(owner[i], Nobody) /\ index'[i].saved = t.saved
      BY <1>1, <1>4 DEF Typed
    <3>2. k \in 1 .. Len(owner[i]) \/ k = Len(owner[i]) + 1
      BY <1>2, <1>3, <2>3, <3>1
    <3>3. k # Len(owner[i]) + 1
      BY <1>2, <1>3, <2>3, <3>1
    <3>4. k \in DOMAIN owner[i] /\ owner'[i][k] = owner[i][k]
      BY <1>2, <3>1, <3>2, <3>3
    <3>5. index'[i].saved[k] = index[i].saved[k]
      BY <1>2, <3>1, <3>2, <3>3
    <3> QED
      BY <2>1, <2>3, <3>4, <3>5 DEF Recalls
  <2> QED
    BY <2>2, <2>3
<1> QED
  BY <1>5, <1>8, <1>9 DEF Order

\* Sessions of an index are closed behind the handles: those that nobody
\* answers for, if the callers are careful.
LEMMA DropsOrder ==
    ASSUME Order, NEW i \in Indexes, NEW t \in Table,
           NEW a \in Nat, NEW b \in Nat, a <= b, b <= Len(owner[i]),
           Len(t.saved) = b - a,
           \A k \in 1 .. b - a : t.saved[k] = index[i].saved[a + k],
           index' = [index EXCEPT ![i] = t],
           owner' = [owner EXCEPT ![i] = SubSeq(owner[i], a + 1, b)],
           handle' = handle, before' = before,
           NEW first \in Int, NEW last \in Int, ClosesBehind(i, first, last),
           \A k \in DOMAIN owner[i] : k <= a \/ k > b => k \in first .. last
    PROVE  Order'
<1>1. Typed /\ owner[i] \in Seq(Owners)
  BY IndexTypes DEF Order
<1>2. owner \in Stacks /\ Closing \in Places
  BY <1>1, PlaceTypes DEF Placed
<1>3. /\ SubSeq(owner[i], a + 1, b) \in Seq(Owners)
      /\ Len(SubSeq(owner[i], a + 1, b)) = Len(t.saved)
  BY <1>1, PartOf
<1>4. /\ index' \in [Indexes -> Table] /\ owner' \in [Indexes -> Seq(Owners)]
      /\ \A j \in Indexes : Len(owner'[j]) = Len(index'[j].saved)
      /\ index'[i] = t /\ \A j \in Indexes \ {i} : index'[j] = index[j]
  BY <1>1, <1>3, IndexChanges
<1>5. /\ strayed \subseteq strayed' /\ strayed' \subseteq Careless
      /\ \/ "behind_handle" \in strayed'
         \/ \A k \in DOMAIN owner[i] \cap first .. last : owner[i][k] = Nobody
  BY <1>1 DEF ClosesBehind, Strays, Typed
<1>6. Typed'
  BY <1>1, <1>4, <1>5 DEF Typed
<1>7. Closing' = Closing
  BY DEF Closing, Applies
<1>8. owner' = [owner EXCEPT ![i] = SubSeq(@, a + 1, b)]
  OBVIOUS
<1>9. ASSUME ~ Lost' PROVE Matched(owner', Closing')
  <2>1. \A k \in DOMAIN owner[i] : k <= a \/ k > b => owner[i][k] = Nobody
    BY <1>5, <1>9 DEF Lost
  <2>2. Matched(owner, Closing)
    BY <1>5, <1>9 DEF Order, Lost
  <2>3. Matched([owner EXCEPT ![i] = SubSeq(@, a + 1, b)], Closing)
    BY <1>2, <2>1, <2>2, MatchedDropped
  <2> QED
    BY <1>7, <1>8, <2>3
<1>10. ASSUME strayed' = {} PROVE Recalls(owner', before', index')
  <2>1. Recalls(owner, before, index)
    BY <1>5, <1>10 DEF Order
  <2>2. \A k \in 1 .. b - a : index'[i].saved[k] = index[i].saved[a + k]
    BY <1>4
  <2>3. Recalls([owner EXCEPT ![i] = SubSeq(@, a + 1, b)], before, index')
    BY <1>2, <1>4, <2>1, <2>2, RecallsDropped
  <2> QED
    BY <1>8, <2>3
<1> QED
  BY <1>6, <1>9, <1>10 DEF Order

\* undo and squash of the index
LEMMA CloseTopOrder ==
    ASSUME Order, NEW i \in Indexes, CloseTop(i)
    PROVE  Order'
<1> DEFINE n == Len(owner[i])
           b == IF n = 0 THEN 0 ELSE n - 1
<1>1. /\ Typed /\ n \in Nat /\ b \in Nat /\ 0 <= b /\ b <= n
      /\ owner[i] \in Seq(Owners) /\ index[i] \in Table
      /\ index[i].saved \in Seq(Snapshot) /\ Len(index[i].saved) = n
  BY IndexTypes DEF Order
<1>2. PICK t \in {Undone(index[i]), Squashed(index[i])} :
          index' = [index EXCEPT ![i] = t]
  BY DEF CloseTop
<1>3. t \in Table /\ t.saved = WithoutTop(index[i].saved)
  BY <1>1, <1>2, ClosedTable
<1>4. /\ Len(t.saved) = b - 0
      /\ \A k \in 1 .. b - 0 : t.saved[k] = index[i].saved[0 + k]
  <2>1. index[i].saved = << >> <=> n = 0
    BY <1>1
  <2>2. /\ Len(t.saved) = IF index[i].saved = << >> THEN 0
                          ELSE Len(index[i].saved) - 1
        /\ \A k \in 1 .. Len(index[i].saved) - 1 : t.saved[k] = index[i].saved[k]
    BY <1>1, <1>3, TopGone
  <2>3. \A k \in 1 .. b - 0 : k \in 1 .. Len(index[i].saved) - 1 /\ 0 + k = k
    BY <1>1
  <2> QED
    BY <1>1, <2>1, <2>2, <2>3
<1>5. owner' = [owner EXCEPT ![i] = SubSeq(owner[i], 0 + 1, b)]
  <2>1. WithoutTop(owner[i]) = SubSeq(owner[i], 0 + 1, b)
    <3>1. CASE n = 0
      BY <1>1, <3>1, SubSeqEmpty DEF WithoutTop
    <3>2. CASE n # 0
      BY <3>2 DEF WithoutTop
    <3> QED
      BY <3>1, <3>2
  <2> QED
    BY <2>1 DEF CloseTop
<1>6. /\ handle' = handle /\ before' = before /\ ClosesBehind(i, n, n)
      /\ \A k \in DOMAIN owner[i] : k <= 0 \/ k > b => k \in n .. n
  BY <1>1 DEF CloseTop
<1>7. 0 \in Nat /\ n \in Int
  BY <1>1
<1> HIDE DEF n, b
<1>8. b <= Len(owner[i])
  BY <1>1 DEF n
<1> QED
  BY <1>1, <1>2, <1>3, <1>4, <1>5, <1>6, <1>7, <1>8, DropsOrder

\* undo_all
LEMMA UndoAllOrder ==
    ASSUME Order, NEW i \in Indexes, UndoAll(i)
    PROVE  Order'
<1> DEFINE t == AllUndone(index[i])
<1>1. /\ owner[i] \in Seq(Owners) /\ Len(owner[i]) \in Nat /\ index[i] \in Table
  BY IndexTypes DEF Order
<1>2. t \in Table /\ t.saved = << >>
  BY <1>1, AllUndoneTable
<1>3. /\ index' = [index EXCEPT ![i] = t]
      /\ owner' = [owner EXCEPT ![i] = SubSeq(owner[i], 0 + 1, 0)]
      /\ handle' = handle /\ before' = before
      /\ ClosesBehind(i, 1, Len(owner[i]))
  <2>1. SubSeq(owner[i], 0 + 1, 0) = << >>
    BY SubSeqEmpty
  <2> QED
    BY <2>1 DEF UndoAll
<1>4. /\ \A k \in DOMAIN owner[i] : k <= 0 \/ k > 0 => k \in 1 .. Len(owner[i])
      /\ 0 \in Nat /\ 1 \in Int /\ Len(owner[i]) \in Int /\ 0 <= 0
      /\ 0 <= Len(owner[i]) /\ Len(t.saved) = 0 - 0
      /\ \A k \in 1 .. 0 - 0 : t.saved[k] = index[i].saved[0 + k]
  BY <1>1, <1>2
<1> HIDE DEF t
<1> QED
  BY <1>2, <1>3, <1>4, DropsOrder

\* commit
LEMMA CommitOrder ==
    ASSUME Order, NEW i \in Indexes, NEW r \in 0 .. MaxRevision, Commit(i, r)
    PROVE  Order'
<1> DEFINE t == Committed(index[i], r)
           n == Len(owner[i])
<1>1. /\ owner[i] \in Seq(Owners) /\ n \in Nat /\ index[i] \in Table
      /\ n = Len(index[i].saved) /\ r \in Int
  BY SessionsAssumption, IndexTypes DEF Order
<1>2. t \in Table
  BY <1>1, CommittedTable
<1>3. PICK a \in 0 .. n :
          /\ Len(t.saved) = n - a
          /\ \A k \in 1 .. n - a : t.saved[k] = index[i].saved[k + a]
  <2>1. \E a \in 0 .. Len(index[i].saved) :
           /\ Len(t.saved) = Len(index[i].saved) - a
           /\ \A k \in 1 .. Len(index[i].saved) - a :
                 t.saved[k] = index[i].saved[k + a]
    BY <1>1, CommittedTable
  <2> QED
    BY <1>1, <2>1
<1>4. n - Len(t.saved) = a /\ a \in Nat /\ a <= n
  BY <1>1, <1>3
<1>5. \A k \in 1 .. n - a : t.saved[k] = index[i].saved[a + k]
  <2>1. \A k \in 1 .. n - a : a + k = k + a
    BY <1>4
  <2> QED
    BY <1>3, <2>1
<1>6. /\ index' = [index EXCEPT ![i] = t]
      /\ owner' = [owner EXCEPT ![i] = SubSeq(owner[i], a + 1, n)]
      /\ handle' = handle /\ before' = before
      /\ ClosesBehind(i, 1, a)
  BY <1>4 DEF Commit
<1>7. /\ \A k \in DOMAIN owner[i] : k <= a \/ k > n => k \in 1 .. a
      /\ 1 \in Int /\ a \in Int /\ n <= Len(owner[i])
  BY <1>1, <1>4
<1> HIDE DEF t, n
<1> QED
  BY <1>1, <1>2, <1>3, <1>4, <1>5, <1>6, <1>7, DropsOrder

-----------------------------------------------------------------------------
(* Theorems. *)

\* Every step keeps the invariant.
LEMMA OrderNext == Order /\ [Next]_vars => Order'
<1> SUFFICES ASSUME Order, [Next]_vars PROVE Order'
  OBVIOUS
<1>1. Typed
  BY DEF Order
<1>2. ASSUME NEW h \in Handles, SquashHandle(h) PROVE Order'
  <2>1. Exists(h) /\ Closes(h, Squashed(index[handle[h].on]), Spent(h))
    BY <1>2 DEF SquashHandle, Closes
  <2> QED
    BY <1>1, <2>1, SpentTypes, ClosesOrder
<1>3. ASSUME NEW h \in Handles, UndoHandle(h) PROVE Order'
  <2>1. Exists(h) /\ Closes(h, Undone(index[handle[h].on]), Spent(h))
    BY <1>3 DEF UndoHandle, Closes
  <2> QED
    BY <1>1, <2>1, SpentTypes, ClosesOrder
<1>4. ASSUME NEW h \in Handles, Destroy(h) PROVE Order'
  <2>1. Closes(h, Undone(index[handle[h].on]), NoHandle) /\ ~ NoHandle.apply
    BY <1>4 DEF Destroy, NoHandle
  <2> QED
    BY <2>1, ClosesOrder
<1>5. ASSUME NEW i \in Indexes, Emplace(i) PROVE Order'
  <2>1. Write(i, Emplaced(index[i], index[i].next_id, 0)) /\ index[i] \in Table
    BY <1>1, <1>5, IndexTypes DEF Emplace
  <2> QED
    BY <2>1, WrittenTable, WriteOrder
<1>6. ASSUME NEW i \in Indexes, NEW id \in DOMAIN index[i].rows, Remove(i, id)
      PROVE  Order'
  <2>1. Write(i, Removed(index[i], id)) /\ index[i] \in Table
    BY <1>1, <1>6, IndexTypes DEF Remove
  <2> QED
    BY <2>1, WrittenTable, WriteOrder
<1>7. CASE UNCHANGED vars
  <2>1. /\ index' = index /\ handle' = handle /\ owner' = owner
        /\ before' = before /\ strayed' = strayed
    BY <1>7 DEF vars
  <2>2. Closing' = Closing /\ (Lost' <=> Lost)
    BY <2>1 DEF Closing, Applies, Lost
  <2> QED
    BY <2>1, <2>2 DEF Order, Typed
<1>8. ASSUME Next PROVE Order'
  BY <1>2, <1>3, <1>4, <1>5, <1>6, <1>8, StartOrder, PushOrder, MoveConstructOrder,
     MoveAssignOrder, StartUndoOrder, CloseTopOrder, UndoAllOrder, CommitOrder
  DEF Next
<1> QED
  BY <1>7, <1>8

\* The invariant holds in every reachable state, of any number of handles and
\* indexes, whatever careless uses there are.
THEOREM OrderHolds == Spec => []Order
  BY InitOrder, OrderNext, PTL DEF Spec

\* Every variable has its type, and there is an owner for every session.
THEOREM TypeOKHolds == Spec => []TypeOK
<1>1. Order => TypeOK
  BY DEF Order, Typed, TypeOK, Owners
<1> QED
  BY <1>1, OrderHolds, PTL

\* Unless callers stray in one of two ways, a handle that applies answers for
\* exactly one open session: moves and out-of-order ends double or lose none.
THEOREM AppliersOwnOneHolds == Spec => []AppliersOwnOne
<1>1. Order => AppliersOwnOne
  <2> SUFFICES ASSUME Order, ~ Lost, NEW h \in Handles, Applies(h)
               PROVE  \E k \in DOMAIN owner[handle[h].on] :
                         \A i \in Indexes : \A j \in DOMAIN owner[i] :
                            owner[i][j] = h <=> i = handle[h].on /\ j = k
    BY DEF AppliersOwnOne
  <2>1. Typed /\ Matched(owner, Closing)
    BY DEF Order
  <2>2. Closing[h] = handle[h].on /\ handle[h].on \in Indexes
    BY <2>1, HandleTypes
  <2>3. h # Nobody /\ handle[h].on # Nowhere
    BY <2>2, SessionsAssumption
  <2>4. PICK k \in DOMAIN owner[handle[h].on] : owner[handle[h].on][k] = h
    BY <2>1, <2>2, <2>3 DEF Matched
  <2>5. ASSUME NEW i \in Indexes, NEW j \in DOMAIN owner[i]
        PROVE  owner[i][j] = h <=> i = handle[h].on /\ j = k
    BY <2>1, <2>2, <2>3, <2>4 DEF Matched
  <2> QED
    BY <2>4, <2>5
<1> QED
  BY <1>1, OrderHolds, PTL

\* ... and a session that was not pushed has a handle that will close it.
THEOREM OwnersApplyHolds == Spec => []OwnersApply
<1>1. Order => OwnersApply
  <2> SUFFICES ASSUME Order, ~ Lost, NEW i \in Indexes, NEW k \in DOMAIN owner[i],
                      owner[i][k] # Nobody
               PROVE  Applies(owner[i][k]) /\ handle[owner[i][k]].on = i
    BY DEF OwnersApply
  <2>1. Typed /\ Matched(owner, Closing) /\ owner \in Stacks
    BY PlaceTypes DEF Order, Placed
  <2>2. owner[i][k] \in Handles /\ Closing[owner[i][k]] = i
    BY <2>1, StackTypes DEF Matched, Owners
  <2> QED
    BY <2>1, <2>2, HandleTypes, SessionsAssumption
<1> QED
  BY <1>1, OrderHolds, PTL

\* A handle that undoes gives back the table of the start of its session.
LEMMA RestoresNext == Order /\ [Next]_vars =>
    \A h \in Handles :
        LET i == handle[h].on
        IN  /\ strayed' = {}
            /\ Applies(h)
            /\ UndoHandle(h) \/ Destroy(h)
            => Contents(index'[i]) = before[h]
<1> SUFFICES ASSUME Order, NEW h \in Handles, strayed' = {}, Applies(h),
                    UndoHandle(h) \/ Destroy(h)
             PROVE  Contents(index'[handle[h].on]) = before[h]
  OBVIOUS
<1> DEFINE i == handle[h].on
<1>1. \E left : Closes(h, Undone(index[i]), left)
  BY DEF UndoHandle, Destroy
<1>2. /\ index' = [index EXCEPT ![i] = Undone(index[i])]
      /\ strayed' = strayed \cup OutOfOrder(h)
  BY <1>1 DEF Closes, Strays
<1>3. IsTop(h) /\ strayed = {}
  BY <1>2 DEF OutOfOrder
<1>4. Typed /\ Recalls(owner, before, index)
  BY <1>3 DEF Order
<1>5. i \in Indexes
  BY <1>4, HandleTypes
<1>6. /\ owner[i] \in Seq(Owners) /\ owner[i] # << >>
      /\ owner[i][Len(owner[i])] = h
      /\ index[i] \in Table /\ index[i].saved \in Seq(Snapshot)
      /\ Len(owner[i]) = Len(index[i].saved)
  BY <1>3, <1>4, <1>5, IndexTypes DEF IsTop
<1> HIDE DEF i
<1>7. Len(owner[i]) \in DOMAIN owner[i] /\ index[i].saved # << >>
  BY <1>6
<1>8. before[h] = index[i].saved[Len(owner[i])]
  BY <1>4, <1>5, <1>6, <1>7, SessionsAssumption DEF Recalls
<1>9. Contents(Undone(index[i])) = index[i].saved[Len(index[i].saved)]
  BY <1>6, <1>7, UndoneTable
<1>10. index'[i] = Undone(index[i])
  BY <1>2, <1>4, <1>5 DEF Typed
<1> QED
  BY <1>6, <1>8, <1>9, <1>10 DEF i

\* Undo through a handle restores, whatever nested handles did in order.
THEOREM HandleRestoresHolds == Spec => HandleRestores
<1>1. Spec => [][Order /\ [Next]_vars]_vars
  BY OrderHolds, PTL DEF Spec
<1> QED
  BY <1>1, RestoresNext, PTL DEF HandleRestores
=============================================================================
