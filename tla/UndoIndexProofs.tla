--------------------------- MODULE UndoIndexProofs ---------------------------
(***************************************************************************)
(* Proofs about UndoIndex, for every value of its constants: the lists and *)
(* the stack stay in order (Structure), and what follows from it.  And     *)
(* UndoIndex implements UndoSpec: where callers do not run conflicting     *)
(* modifiers on rows that are older than the open session, undo brings     *)
(* back what the session has promised.                                     *)
(*                                                                         *)
(* The first part is about lists alone, the second about what a step may   *)
(* do to lists and sessions (ListKept, SessionsKept), and then there is    *)
(* one lemma per operation.  The refinement comes after that: tables put   *)
(* together from nodes and backups, then what each operation does to them. *)
(***************************************************************************)
EXTENDS UndoIndexRefinement, TLAPS, WellFoundedInduction, SequenceTheorems

-----------------------------------------------------------------------------
(* Numbers and lists. *)

\* A set of numbers has a least one ...
LEMMA NatMin ==
    ASSUME NEW S, S \subseteq Nat, S # {}
    PROVE  \E m \in S : \A n \in S : m <= n
<1>1. IsWellFoundedOn(OpToRel(<, Nat), Nat)
  BY NatLessThanWellFounded
<1>2. PICK m \in S : \A n \in S : <<n, m>> \notin OpToRel(<, Nat)
  BY <1>1, WFMin
<1>3. \A n \in S : ~ (n < m)
  BY <1>2 DEF OpToRel
<1> QED
  BY <1>3

\* ... and, if it is bounded, a greatest one.
LEMMA NatMax ==
    ASSUME NEW S, S \subseteq Nat, S # {}, NEW b \in Nat, \A n \in S : n <= b
    PROVE  \E m \in S : \A n \in S : n <= m
<1> DEFINE T == {k \in Nat : \E n \in S : k = b - n}
<1>1. \A n \in S : b - n \in T
  OBVIOUS
<1>2. T # {}
  BY <1>1
<1>3. PICK t \in T : \A k \in T : t <= k
  BY <1>2, NatMin
<1>4. PICK m \in S : t = b - m
  BY <1>3
<1>5. ASSUME NEW n \in S PROVE n <= m
  <2>1. t <= b - n
    BY <1>1, <1>3
  <2> QED
    BY <2>1, <1>4
<1> QED
  BY <1>5


\* Begin is nullptr or the first of the cells.
LEMMA BeginIsHead ==
    ASSUME NEW list, list \subseteq Cell, HasHead(list)
    PROVE  /\ Begin(list) \in Nat
           /\ \A c \in list : c.pos <= Begin(list)
           /\ Begin(list) \in {0} \cup {c.pos : c \in list}
<1>1. CASE list = {}
  BY <1>1 DEF Begin
<1>2. CASE list # {}
  <2> DEFINE P == {c.pos : c \in list}
             Last(p) == p \in P /\ \A c \in list : c.pos <= p
  <2>1. PICK h \in list : \A c \in list : c.pos <= h.pos
    BY <1>2 DEF HasHead
  <2>2. Last(h.pos)
    BY <2>1
  <2>3. Begin(list) = CHOOSE p \in P : \A c \in list : c.pos <= p
    BY <1>2 DEF Begin
  <2>4. Last(Begin(list))
    <3> HIDE DEF P
    <3> QED BY <2>2, <2>3
  <2>5. P \subseteq Nat
    BY DEF Cell
  <2> QED
    BY <2>4, <2>5
<1> QED
  BY <1>1, <1>2

\* Whatever cells are erased, a first one is left, or none.
LEMMA SublistHasHead ==
    ASSUME NEW list, list \subseteq Cell, HasHead(list),
           NEW sub, sub \subseteq list
    PROVE  HasHead(sub)
<1>1. SUFFICES ASSUME sub # {}
               PROVE  \E h \in sub : \A c \in sub : c.pos <= h.pos
  BY DEF HasHead
<1> DEFINE P == {c.pos : c \in sub}
<1>2. P \subseteq Nat /\ P # {}
  BY <1>1 DEF Cell
<1>3. Begin(list) \in Nat /\ \A p \in P : p <= Begin(list)
  BY BeginIsHead
<1>4. PICK p \in P : \A q \in P : q <= p
  <2> HIDE DEF P
  <2> QED BY <1>2, <1>3, NatMax
<1>5. PICK h \in sub : h.pos = p
  BY <1>4
<1>6. \A c \in sub : c.pos \in P
  OBVIOUS
<1> QED
  BY <1>4, <1>5, <1>6

\* push_front makes a list of a list.
LEMMA PushedList ==
    ASSUME NEW list, list \subseteq Cell, HasHead(list), NEW id \in Ids, NEW row \in Row
    PROVE  /\ PushFront(list, id, row) \subseteq Cell
           /\ HasHead(PushFront(list, id, row))
<1> DEFINE new == [pos |-> Begin(list) + 1, id |-> id,
                   val |-> row.val, mtime |-> row.mtime]
<1>1. Begin(list) \in Nat /\ \A c \in list : c.pos <= Begin(list)
  BY BeginIsHead
<1>2. new \in Cell
  BY <1>1 DEF Cell, Row
<1>3. PushFront(list, id, row) = list \cup {new}
  BY DEF PushFront
<1>4. \A c \in list \cup {new} : c.pos <= new.pos
  BY <1>1 DEF Cell
<1> HIDE DEF new
<1> QED
  BY <1>2, <1>3, <1>4 DEF HasHead

\* Of some backups one is the oldest.
LEMMA OldestIsBackup ==
    ASSUME NEW backups, backups \subseteq Cell, backups # {}
    PROVE  Oldest(backups) \in backups
<1> DEFINE P == {c.pos : c \in backups}
<1>1. P \subseteq Nat /\ P # {}
  BY DEF Cell
<1>2. PICK p \in P : \A q \in P : p <= q
  <2> HIDE DEF P
  <2> QED BY <1>1, NatMin
<1>3. PICK b \in backups : b.pos = p
  BY <1>2
<1>4. \A c \in backups : b.pos <= c.pos
  BY <1>2, <1>3
<1> QED
  BY <1>4 DEF Oldest

\* A row that backups are written to is a row ...
LEMMA OverwrittenRow ==
    ASSUME NEW row \in Row, NEW id, NEW backups, backups \subseteq Cell
    PROVE  Overwritten(row, id, backups) \in Row
<1> DEFINE mine == {b \in backups : b.id = id}
<1>1. CASE mine = {}
  BY <1>1 DEF Overwritten
<1>2. CASE mine # {}
  <2>1. Oldest(mine) \in Cell
    BY <1>2, OldestIsBackup
  <2>2. Overwritten(row, id, backups)
          = [row EXCEPT !.val = Oldest(mine).val, !.mtime = Oldest(mine).mtime]
    BY <1>2 DEF Overwritten
  <2> HIDE DEF mine
  <2> QED
    BY <2>1, <2>2 DEF Row, Cell
<1> QED
  BY <1>1, <1>2

\* ... and a removed node keeps its place and its key.
LEMMA OverwrittenCell ==
    ASSUME NEW c \in Cell, NEW backups, backups \subseteq Cell
    PROVE  /\ Overwritten(c, c.id, backups) \in Cell
           /\ Overwritten(c, c.id, backups).pos = c.pos
           /\ Overwritten(c, c.id, backups).id = c.id
<1> DEFINE mine == {b \in backups : b.id = c.id}
<1>1. CASE mine = {}
  BY <1>1 DEF Overwritten
<1>2. CASE mine # {}
  <2>1. Oldest(mine) \in Cell
    BY <1>2, OldestIsBackup
  <2>2. Overwritten(c, c.id, backups)
          = [c EXCEPT !.val = Oldest(mine).val, !.mtime = Oldest(mine).mtime]
    BY <1>2 DEF Overwritten
  <2> HIDE DEF mine
  <2> QED
    BY <2>1, <2>2 DEF Cell
<1> QED
  BY <1>1, <1>2

-----------------------------------------------------------------------------
(* Sessions. *)

\* The cell a session points to is still there, and behind it no other keys.
ListKept(old, new, end) ==
    /\ \A c \in old : c.pos = end => \E d \in new : d.pos = end
    /\ \A d \in new : d.pos <= end => \E c \in old : c.pos <= end /\ c.id = d.id

\* push_front disturbs no end of a session.
LEMMA PushedListKept ==
    ASSUME NEW list, list \subseteq Cell, HasHead(list), NEW id, NEW row,
           NEW end \in {0} \cup {c.pos : c \in list}
    PROVE  ListKept(list, PushFront(list, id, row), end)
<1>1. /\ Begin(list) \in Nat
      /\ \A c \in list : c.pos <= Begin(list)
  BY BeginIsHead
<1>2. end \in Nat /\ end <= Begin(list)
  BY <1>1 DEF Cell
<1>3. \A d \in PushFront(list, id, row) : d \in list \/ d.pos = Begin(list) + 1
  BY DEF PushFront
<1>4. list \subseteq PushFront(list, id, row)
  BY DEF PushFront
<1> QED
  BY <1>1, <1>2, <1>3, <1>4 DEF ListKept

\* Keys are numbers.
LEMMA Keys == Ids \subseteq Nat
  BY ConstantsAssumption DEF Ids

\* The types of what a session remembers.
LEMMA Session ==
    ASSUME TypeOK
    PROVE  /\ Len(undo_stack) \in Nat
           /\ \A i \in 1 .. Len(undo_stack) :
                 /\ undo_stack[i] \in UndoState
                 /\ undo_stack[i].old_values_end \in Nat
                 /\ undo_stack[i].removed_values_end \in Nat
                 /\ undo_stack[i].old_next_id \in Nat
                 /\ undo_stack[i].ctime \in Nat
<1>1. undo_stack \in Seq(UndoState)
  BY DEF TypeOK
<1>2. Len(undo_stack) \in Nat
  BY <1>1
<1>3. \A i \in 1 .. Len(undo_stack) : undo_stack[i] \in UndoState
  BY <1>1
<1> QED
  BY <1>2, <1>3, ConstantsAssumption DEF UndoState

\* The stack loses sessions at its ends, and the lists keep what the others
\* need.
LEMMA SessionsKept ==
    ASSUME Structure, TypeOK', NEW off \in Nat,
           off + Len(undo_stack') <= Len(undo_stack),
           \A i \in 1 .. Len(undo_stack') : undo_stack'[i] = undo_stack[off + i],
           monotonic_revision' = monotonic_revision,
           \A i \in 1 .. Len(undo_stack') : undo_stack'[i].old_next_id <= next_id',
           \A id \in (DOMAIN rows \cup tracked)' : id < next_id',
           \A c \in (old_values \cup removed_values)' : c.id < next_id',
           \A i \in 1 .. Len(undo_stack') :
              /\ ListKept(old_values, old_values', undo_stack'[i].old_values_end)
              /\ ListKept(removed_values, removed_values',
                          undo_stack'[i].removed_values_end)
    PROVE  EndsAreLive' /\ SessionsNest' /\ KeysBelowNextId'
<1> USE DEF Structure
<1>1. Len(undo_stack) \in Nat /\ Len(undo_stack') \in Nat
  <2>1. Len(undo_stack) \in Nat BY Session
  <2>2. Len(undo_stack') \in Nat BY DEF TypeOK
  <2> QED BY <2>1, <2>2
<1>2. \A i \in 1 .. Len(undo_stack') : off + i \in 1 .. Len(undo_stack)
  BY <1>1
<1>3. EndsAreLive'
  <2> SUFFICES ASSUME NEW i \in 1 .. Len(undo_stack')
               PROVE /\ undo_stack'[i].old_values_end
                           \in {0} \cup {c.pos : c \in old_values'}
                     /\ undo_stack'[i].removed_values_end
                           \in {0} \cup {c.pos : c \in removed_values'}
    BY DEF EndsAreLive
  <2>1. /\ undo_stack'[i].old_values_end \in {0} \cup {c.pos : c \in old_values}
        /\ undo_stack'[i].removed_values_end
              \in {0} \cup {c.pos : c \in removed_values}
    BY <1>2 DEF EndsAreLive
  <2> QED
    BY <2>1 DEF ListKept
<1>4. SessionsNest'
  <2>1. \A i, j \in 1 .. Len(undo_stack') : i < j => off + i < off + j
    BY <1>1
  <2> QED
    BY <1>2, <2>1 DEF SessionsNest
<1>5. KeysBelowNextId'
  <2> SUFFICES ASSUME NEW i \in 1 .. Len(undo_stack')
               PROVE /\ \A c \in old_values' :
                           c.pos <= undo_stack'[i].old_values_end
                              => c.id < undo_stack'[i].old_next_id
                     /\ \A c \in removed_values' :
                           c.pos <= undo_stack'[i].removed_values_end
                              => c.id < undo_stack'[i].old_next_id
    BY DEF KeysBelowNextId, From
  <2>1. /\ \A c \in old_values :
               c.pos <= undo_stack'[i].old_values_end
                  => c.id < undo_stack'[i].old_next_id
        /\ \A c \in removed_values :
               c.pos <= undo_stack'[i].removed_values_end
                  => c.id < undo_stack'[i].old_next_id
    BY <1>2 DEF KeysBelowNextId, From
  <2> QED
    BY <2>1 DEF ListKept
<1> QED
  BY <1>3, <1>4, <1>5

\* The case of SessionsKept where no session ends.
LEMMA SameSessions ==
    ASSUME Structure, TypeOK', UNCHANGED <<undo_stack, monotonic_revision>>,
           next_id <= next_id',
           \A id \in (DOMAIN rows \cup tracked)' : id < next_id',
           \A c \in (old_values \cup removed_values)' : c.id < next_id',
           \A i \in 1 .. Len(undo_stack) :
              /\ ListKept(old_values, old_values', undo_stack[i].old_values_end)
              /\ ListKept(removed_values, removed_values',
                          undo_stack[i].removed_values_end)
    PROVE  EndsAreLive' /\ SessionsNest' /\ KeysBelowNextId'
<1>1. TypeOK /\ KeysBelowNextId
  BY DEF Structure
<1>2. next_id \in Nat /\ next_id' \in Nat
  BY <1>1, ConstantsAssumption DEF TypeOK
<1>3. \A i \in 1 .. Len(undo_stack') : undo_stack'[i].old_next_id <= next_id'
  BY <1>1, <1>2, Session DEF KeysBelowNextId
<1>4. /\ 0 \in Nat /\ 0 + Len(undo_stack') <= Len(undo_stack)
      /\ \A i \in 1 .. Len(undo_stack') : undo_stack'[i] = undo_stack[0 + i]
  BY <1>1, Session
<1> QED
  BY <1>3, <1>4, SessionsKept

-----------------------------------------------------------------------------
(* Operations on rows. *)

\* An empty container is in order.
LEMMA InitStructure == Init => Structure
  BY ConstantsAssumption
  DEF Init, Structure, TypeOK, HasHead, RevisionRange, EndsAreLive,
      SessionsNest, KeysBelowNextId, OneNodePerKey, RemovedIds, Ids, Row

\* emplace hands out a key that no node and no backup has.
LEMMA EmplaceStructure ==
    ASSUME Structure, NEW id \in Ids, NEW v \in Vals, Emplace(id, v)
    PROVE  Structure'
<1> USE DEF Structure
<1>0. /\ UNCHANGED <<old_values, removed_values, undo_stack, revision,
                     monotonic_revision, tracked>>
      /\ next_id' = id + 1 
      /\ id >= next_id
  BY DEF Emplace, IdAfter
<1>1. /\ DOMAIN rows' = DOMAIN rows \cup {id}
      /\ rows' \in [DOMAIN rows' -> Row]
  BY DEF Emplace, Stamp, TypeOK, Row
<1>2. next_id \in Nat /\ id \in Nat /\ DOMAIN rows \subseteq Nat /\ tracked \subseteq Nat
      /\ \A c \in old_values \cup removed_values : c.id \in Nat
  BY Keys, ConstantsAssumption DEF TypeOK, Cell
<1>3. TypeOK'
  BY <1>0, <1>1, ConstantsAssumption DEF TypeOK, Ids
<1>4. HasHead(old_values)' /\ HasHead(removed_values)' /\ RevisionRange'
  BY <1>0 DEF RevisionRange
<1>5. EndsAreLive' /\ SessionsNest' /\ KeysBelowNextId'
  <2>1. \A k \in (DOMAIN rows \cup tracked)' : k < next_id'
    BY <1>0, <1>1, <1>2 DEF KeysBelowNextId
  <2>2. \A c \in (old_values \cup removed_values)' : c.id < next_id'
    BY <1>0, <1>2 DEF KeysBelowNextId
  <2>3. \A i \in 1 .. Len(undo_stack) :
           /\ ListKept(old_values, old_values', undo_stack[i].old_values_end)
           /\ ListKept(removed_values, removed_values',
                       undo_stack[i].removed_values_end)
    BY <1>0 DEF ListKept
  <2> QED
    BY <1>0, <1>2, <1>3, <2>1, <2>2, <2>3, SameSessions
<1>6. OneNodePerKey'
  BY <1>0, <1>1, <1>2 DEF OneNodePerKey, KeysBelowNextId
<1> QED
  BY <1>3, <1>4, <1>5, <1>6

\* modify, whether or not it takes a backup and keeps the new value.
LEMMA WrittenRow ==
    ASSUME Structure, NEW id \in DOMAIN rows,
           DOMAIN rows' = DOMAIN rows, rows' \in [DOMAIN rows -> Row],
           old_values' \in {old_values, PushFront(old_values, id, rows[id])},
           UNCHANGED <<removed_values, undo_stack, next_id, revision,
                       monotonic_revision, tracked>>
    PROVE  Structure'
<1> USE DEF Structure
<1>1. id \in Ids /\ rows[id] \in Row
  BY DEF TypeOK
<1>2. old_values' \subseteq Cell /\ HasHead(old_values')
  BY <1>1, PushedList DEF TypeOK
<1>3. TypeOK'
  BY <1>2 DEF TypeOK
<1>4. HasHead(old_values)' /\ HasHead(removed_values)' /\ RevisionRange'
  BY <1>2 DEF RevisionRange
<1>5. \A c \in old_values' : c \in old_values \/ c.id = id
  BY DEF PushFront
<1>6. \A i \in 1 .. Len(undo_stack) :
         /\ ListKept(old_values, old_values', undo_stack[i].old_values_end)
         /\ ListKept(removed_values, removed_values',
                     undo_stack[i].removed_values_end)
  <2> SUFFICES ASSUME NEW i \in 1 .. Len(undo_stack)
               PROVE  ListKept(old_values, old_values',
                               undo_stack[i].old_values_end)
    BY DEF ListKept
  <2>1. undo_stack[i].old_values_end \in {0} \cup {c.pos : c \in old_values}
    BY DEF EndsAreLive
  <2>2. CASE old_values' = old_values
    BY <2>2 DEF ListKept
  <2>3. CASE old_values' = PushFront(old_values, id, rows[id])
    BY <2>1, <2>3, PushedListKept DEF TypeOK
  <2> QED
    BY <2>2, <2>3
<1>7. EndsAreLive' /\ SessionsNest' /\ KeysBelowNextId'
  <2>1. next_id \in Nat /\ next_id <= next_id'
    BY ConstantsAssumption DEF TypeOK
  <2>2. \A k \in (DOMAIN rows \cup tracked)' : k < next_id'
    BY DEF KeysBelowNextId
  <2>3. \A c \in (old_values \cup removed_values)' : c.id < next_id'
    BY <1>5 DEF KeysBelowNextId
  <2> QED
    BY <1>3, <1>6, <2>1, <2>2, <2>3, SameSessions
<1>8. OneNodePerKey'
  BY DEF OneNodePerKey
<1> QED
  BY <1>3, <1>4, <1>7, <1>8

\* modify, its value kept or reverted.
LEMMA ModifyStructure ==
    ASSUME Structure, NEW id \in Ids, NEW v \in Vals,
           ModifyOk(id, v) \/ ModifyReverted(id, v)
    PROVE  Structure'
<1>1. /\ id \in DOMAIN rows
      /\ rows \in [DOMAIN rows -> Row]
      /\ monotonic_revision \in Nat
  BY DEF Structure, TypeOK, ModifyOk, ModifyReverted
<1>2. CASE ModifyOk(id, v)
  <2>1. DOMAIN rows' = DOMAIN rows /\ rows' \in [DOMAIN rows -> Row]
    BY <1>1, <1>2 DEF ModifyOk, Stamp, Row
  <2> QED
    BY <1>1, <1>2, <2>1, WrittenRow DEF ModifyOk
<1>3. CASE ModifyReverted(id, v)
  <2>1. DOMAIN rows' = DOMAIN rows /\ rows' \in [DOMAIN rows -> Row]
    BY <1>1, <1>3 DEF ModifyReverted, Stamp, Row
  <2> QED
    BY <1>1, <1>3, <2>1, WrittenRow DEF ModifyReverted
<1> QED
  BY <1>2, <1>3

\* A row leaves the table: its node is freed, or the list of removed nodes or a
\* tracker has it.
LEMMA RemovedRow ==
    ASSUME Structure, NEW id \in DOMAIN rows, rows' = Without(id),
           \/ /\ removed_values' = PushFront(removed_values, id, rows[id])
              /\ tracked' = tracked
           \/ /\ removed_values' = removed_values
              /\ tracked' \in {tracked, tracked \cup {id}},
           UNCHANGED <<old_values, undo_stack, next_id, revision,
                       monotonic_revision>>
    PROVE  Structure'
<1> USE DEF Structure
<1>1. id \in Ids /\ rows[id] \in Row
  BY DEF TypeOK
<1>2. removed_values' \subseteq Cell /\ HasHead(removed_values')
  BY <1>1, PushedList DEF TypeOK
<1>3. DOMAIN rows' = DOMAIN rows \ {id} /\ rows' \in [DOMAIN rows' -> Row]
  BY DEF Without, TypeOK
<1>4. TypeOK'
  BY <1>1, <1>2, <1>3 DEF TypeOK
<1>5. HasHead(old_values)' /\ HasHead(removed_values)' /\ RevisionRange'
  BY <1>2 DEF RevisionRange
<1>6. /\ \A c \in removed_values' : c \in removed_values \/ c.id = id
      /\ \A c, d \in removed_values' :
            c \in removed_values \/ d \in removed_values \/ c = d
      /\ \A k \in tracked' : k \in tracked \/ k = id
  BY DEF PushFront
<1>7. \A i \in 1 .. Len(undo_stack) :
         /\ ListKept(old_values, old_values', undo_stack[i].old_values_end)
         /\ ListKept(removed_values, removed_values',
                     undo_stack[i].removed_values_end)
  <2> SUFFICES ASSUME NEW i \in 1 .. Len(undo_stack)
               PROVE  ListKept(removed_values, removed_values',
                               undo_stack[i].removed_values_end)
    BY DEF ListKept
  <2>1. undo_stack[i].removed_values_end
           \in {0} \cup {c.pos : c \in removed_values}
    BY DEF EndsAreLive
  <2>2. CASE removed_values' = removed_values
    BY <2>2 DEF ListKept
  <2>3. CASE removed_values' = PushFront(removed_values, id, rows[id])
    BY <2>1, <2>3, PushedListKept DEF TypeOK
  <2> QED
    BY <2>2, <2>3
<1>8. EndsAreLive' /\ SessionsNest' /\ KeysBelowNextId'
  <2>1. next_id \in Nat /\ next_id <= next_id'
    BY ConstantsAssumption DEF TypeOK
  <2>2. \A k \in (DOMAIN rows \cup tracked)' : k < next_id'
    BY <1>3, <1>6 DEF KeysBelowNextId
  <2>3. \A c \in (old_values \cup removed_values)' : c.id < next_id'
    BY <1>6 DEF KeysBelowNextId
  <2> QED
    BY <1>4, <1>7, <2>1, <2>2, <2>3, SameSessions
<1>9. OneNodePerKey'
  <2>1. \A m, n \in removed_values' : m.id = n.id => m = n
    BY <1>6 DEF OneNodePerKey
  <2>2. \A n \in removed_values' : n.id \notin DOMAIN rows'
    BY <1>3, <1>6 DEF OneNodePerKey
  <2>3. \A k \in tracked' :
           k \notin DOMAIN rows' /\ \A n \in removed_values' : n.id # k
    BY <1>3, <1>6 DEF OneNodePerKey
  <2> QED
    BY <2>1, <2>2, <2>3 DEF OneNodePerKey
<1> QED
  BY <1>4, <1>5, <1>8, <1>9

\* remove, in its three forms.
LEMMA RemoveStructure ==
    ASSUME Structure, NEW id \in Ids,
           \/ Remove(id)
           \/ TrackedRemove(id)
           \/ \E v \in Vals : ModifyErased(id, v)
    PROVE  Structure'
<1>1. id \in DOMAIN rows /\ rows' = Without(id)
  BY DEF Remove, TrackedRemove, ModifyErased
<1>2. CASE Remove(id)
  BY <1>1, <1>2, RemovedRow DEF Remove
<1>3. CASE TrackedRemove(id)
  BY <1>1, <1>3, RemovedRow DEF TrackedRemove
<1>4. CASE \E v \in Vals : ModifyErased(id, v)
  BY <1>1, <1>4, RemovedRow DEF ModifyErased
<1> QED
  BY <1>2, <1>3, <1>4

-----------------------------------------------------------------------------
(* Operations on sessions. *)

\* Moving backups into nodes changes neither their places nor their keys.
LEMMA OverwrittenList ==
    ASSUME NEW list, list \subseteq Cell, HasHead(list),
           NEW backups, backups \subseteq Cell
    PROVE  /\ WrittenInto(list, backups) \subseteq Cell
           /\ HasHead(WrittenInto(list, backups))
           /\ \A c \in WrittenInto(list, backups) : \E d \in list :
                 /\ c = Overwritten(d, d.id, backups)
                 /\ c.pos = d.pos /\ c.id = d.id
           /\ \A d \in list : \E c \in WrittenInto(list, backups) :
                 c.pos = d.pos /\ c.id = d.id
<1> DEFINE new == WrittenInto(list, backups)
<1> USE DEF WrittenInto
<1>1. \A n \in list : /\ Overwritten(n, n.id, backups) \in Cell
                      /\ Overwritten(n, n.id, backups).pos = n.pos
                      /\ Overwritten(n, n.id, backups).id = n.id
  BY OverwrittenCell
<1>2. HasHead(new)
  BY <1>1 DEF HasHead
<1> QED
  BY <1>1, <1>2

\* The ends of all sessions lie behind those of the top session.
LEMMA TopSession ==
    ASSUME Structure, undo_stack # << >>
    PROVE  /\ Len(undo_stack) \in Nat \ {0}
           /\ Top \in UndoState
           /\ Top.old_values_end \in Nat
           /\ Top.removed_values_end \in Nat
           /\ Top.old_next_id \in Nat
           /\ \A i \in 1 .. Len(undo_stack) :
                 /\ undo_stack[i].old_values_end <= Top.old_values_end
                 /\ undo_stack[i].removed_values_end <= Top.removed_values_end
                 /\ undo_stack[i].old_next_id <= Top.old_next_id
<1>1. Len(undo_stack) \in Nat \ {0}
  BY EmptySeq DEF Structure, TypeOK
<1>2. Len(undo_stack) \in 1 .. Len(undo_stack)
  BY <1>1
<1>3. \A i \in 1 .. Len(undo_stack) : i = Len(undo_stack) \/ i < Len(undo_stack)
  BY <1>1
<1>4. TypeOK
  BY DEF Structure
<1>5. \A i \in 1 .. Len(undo_stack) :
         /\ undo_stack[i] \in UndoState
         /\ undo_stack[i].old_values_end \in Nat
         /\ undo_stack[i].removed_values_end \in Nat
         /\ undo_stack[i].old_next_id \in Nat
  BY <1>4, Session
<1> QED
  BY <1>1, <1>2, <1>3, <1>5 DEF Top, Structure, SessionsNest

\* All of a sequence but its last element.
LEMMA Front ==
    ASSUME NEW S, NEW s \in Seq(S), s # << >>,
           NEW t, t = SubSeq(s, 1, Len(s) - 1)
    PROVE  /\ t \in Seq(S)
           /\ Len(t) = Len(s) - 1
           /\ \A i \in 1 .. Len(s) - 1 : t[i] = s[i]
<1> DEFINE n == Len(s) - 1
<1>1. n \in Nat
  BY EmptySeq
<1>2. \A i \in 1 .. n : s[i] \in S
  BY <1>1
<1>3. n \in Int /\ 1 \in Int
  BY <1>1
<1>4. t = SubSeq(s, 1, n)
  OBVIOUS
<1> HIDE DEF n
<1>5. /\ t \in Seq(S)
      /\ Len(t) = IF 1 <= n THEN n - 1 + 1 ELSE 0
      /\ \A i \in 1 .. n - 1 + 1 : t[i] = s[1 + i - 1]
  BY ONLY <1>2, <1>3, <1>4, SubSeqProperties
<1>6. Len(t) = n
  BY ONLY <1>1, <1>5
<1>7. \A i \in 1 .. n : t[i] = s[i]
  <2>1. n - 1 + 1 = n /\ \A i \in 1 .. n : 1 + i - 1 = i
    BY <1>1
  <2> QED
    BY <1>5, <2>1
<1> QED
  BY <1>5, <1>6, <1>7 DEF n

\* pop_back of the stack.
LEMMA PoppedStack ==
    ASSUME Structure, undo_stack # << >>,
           undo_stack' = SubSeq(undo_stack, 1, Len(undo_stack) - 1)
    PROVE  /\ undo_stack' \in Seq(UndoState)
           /\ Len(undo_stack') = Len(undo_stack) - 1
           /\ \A i \in 1 .. Len(undo_stack') :
                 i \in 1 .. Len(undo_stack) /\ undo_stack'[i] = undo_stack[i]
<1>1. undo_stack \in Seq(UndoState)
  BY DEF Structure, TypeOK
<1>2. /\ undo_stack' \in Seq(UndoState)
      /\ Len(undo_stack') = Len(undo_stack) - 1
      /\ \A i \in 1 .. Len(undo_stack) - 1 : undo_stack'[i] = undo_stack[i]
  BY <1>1, Front
<1>3. Len(undo_stack) \in Nat
  BY TopSession
<1> QED
  BY <1>2, <1>3

\* The case of SessionsKept where the top session ends.
LEMMA PoppedSessions ==
    ASSUME Structure, TypeOK', undo_stack # << >>,
           undo_stack' = SubSeq(undo_stack, 1, Len(undo_stack) - 1),
           UNCHANGED monotonic_revision,
           Top.old_next_id <= next_id',
           \A id \in (DOMAIN rows \cup tracked)' : id < next_id',
           \A c \in (old_values \cup removed_values)' : c.id < next_id',
           \A i \in 1 .. Len(undo_stack) - 1 :
              /\ ListKept(old_values, old_values', undo_stack[i].old_values_end)
              /\ ListKept(removed_values, removed_values',
                          undo_stack[i].removed_values_end)
    PROVE  EndsAreLive' /\ SessionsNest' /\ KeysBelowNextId'
<1>1. TypeOK /\ KeysBelowNextId
  BY DEF Structure
<1>2. next_id' \in Nat
  BY <1>1, ConstantsAssumption DEF TypeOK
<1>3. \A i \in 1 .. Len(undo_stack') : undo_stack'[i].old_next_id <= next_id'
  <2> SUFFICES ASSUME NEW i \in 1 .. Len(undo_stack')
               PROVE  undo_stack'[i].old_next_id <= next_id'
    OBVIOUS
  <2>1. i \in 1 .. Len(undo_stack) /\ undo_stack'[i] = undo_stack[i]
    BY PoppedStack
  <2>2. undo_stack[i].old_next_id \in Nat /\ Top.old_next_id \in Nat
    BY <1>1, <2>1, Session, TopSession
  <2> QED
    BY <1>2, <2>1, <2>2, TopSession
<1>4. /\ 0 \in Nat /\ 0 + Len(undo_stack') <= Len(undo_stack)
      /\ \A i \in 1 .. Len(undo_stack') : undo_stack'[i] = undo_stack[0 + i]
  BY TopSession, PoppedStack
<1>5. \A i \in 1 .. Len(undo_stack') :
         /\ ListKept(old_values, old_values', undo_stack'[i].old_values_end)
         /\ ListKept(removed_values, removed_values',
                     undo_stack'[i].removed_values_end)
  BY PoppedStack
<1> QED
  BY <1>3, <1>4, <1>5, SessionsKept

\* Compressing the top session disturbs no end of a session and no key.
LEMMA CompressedLists ==
    ASSUME Structure, undo_stack # << >>, NEW session, Compress(session)
    PROVE  /\ old_values' \subseteq old_values
           /\ removed_values' \subseteq Cell
           /\ HasHead(old_values') /\ HasHead(removed_values')
           /\ \A c \in removed_values' : \E d \in removed_values : c.id = d.id
           /\ \A c, d \in removed_values' : c.id = d.id => c = d
           /\ \A i \in 1 .. Len(undo_stack) :
                 /\ ListKept(old_values, old_values',
                             undo_stack[i].old_values_end)
                 /\ ListKept(removed_values, removed_values',
                             undo_stack[i].removed_values_end)
<1> DEFINE written   == Before(old_values, Top.old_values_end)
           redundant == {b \in written : b.mtime >= session.ctime}
           moved     == {b \in written \ redundant : IsRemoved(b.id)}
           disposed  == {n \in Before(removed_values, Top.removed_values_end) :
                            n.id >= session.old_next_id}
           left      == removed_values \ disposed
<1>1. /\ old_values' = old_values \ (redundant \cup moved)
      /\ removed_values' = WrittenInto(left, moved)
  BY DEF Compress
<1>2. /\ \A c \in redundant \cup moved : c.pos > Top.old_values_end
      /\ \A n \in disposed : n.pos > Top.removed_values_end
      /\ moved \subseteq old_values
  BY DEF Before
<1>3. old_values \subseteq Cell /\ removed_values \subseteq Cell
  BY DEF Structure, TypeOK
<1> HIDE DEF disposed, written, moved, redundant
<1>4. old_values' \subseteq old_values /\ HasHead(old_values')
  BY <1>1, <1>3, SublistHasHead DEF Structure
<1>5. left \subseteq removed_values /\ HasHead(left)
  BY <1>3, SublistHasHead DEF Structure
<1>6. /\ removed_values' \subseteq Cell
      /\ HasHead(removed_values')
      /\ \A c \in removed_values' : \E d \in left :
            c = Overwritten(d, d.id, moved) /\ c.pos = d.pos /\ c.id = d.id
      /\ \A d \in left : \E c \in removed_values' : c.pos = d.pos /\ c.id = d.id
  <2> HIDE DEF left
  <2> QED BY <1>1, <1>2, <1>3, <1>5, OverwrittenList
<1>7. \A c, d \in removed_values' : c.id = d.id => c = d
  BY <1>5, <1>6 DEF Structure, OneNodePerKey
<1>8. ASSUME NEW i \in 1 .. Len(undo_stack)
      PROVE  /\ ListKept(old_values, old_values', undo_stack[i].old_values_end)
             /\ ListKept(removed_values, removed_values',
                         undo_stack[i].removed_values_end)
  <2>1. /\ undo_stack[i].old_values_end <= Top.old_values_end
        /\ undo_stack[i].removed_values_end <= Top.removed_values_end
        /\ undo_stack[i].old_values_end \in Nat
        /\ undo_stack[i].removed_values_end \in Nat
        /\ Top.old_values_end \in Nat /\ Top.removed_values_end \in Nat
    BY TopSession, Session DEF Structure
  <2>2. \A c \in old_values : c.pos = undo_stack[i].old_values_end => c \in old_values'
    BY <1>1, <1>2, <2>1
  <2>3. \A c \in removed_values :
           c.pos = undo_stack[i].removed_values_end => c \in left
    BY <1>2, <2>1
  <2> QED
    BY <1>4, <1>5, <1>6, <2>2, <2>3 DEF ListKept
<1> QED
  BY <1>4, <1>5, <1>6, <1>7, <1>8

\* last_undo_session changes lists only.
LEMMA LastUndoSessionStructure ==
    ASSUME Structure, LastUndoSession
    PROVE  Structure'
<1> USE DEF Structure
<1>1. /\ undo_stack # << >>
      /\ Compress(Top)
      /\ UNCHANGED <<rows, undo_stack, next_id, revision, monotonic_revision,
                     tracked>>
  BY DEF LastUndoSession
<1>2. TypeOK'
  BY <1>1, CompressedLists DEF TypeOK
<1>3. HasHead(old_values)' /\ HasHead(removed_values)' /\ RevisionRange'
  BY <1>1, CompressedLists DEF RevisionRange
<1>4. EndsAreLive' /\ SessionsNest' /\ KeysBelowNextId'
  <2>1. next_id \in Nat /\ next_id <= next_id'
    BY <1>1, ConstantsAssumption DEF TypeOK
  <2>2. \A k \in (DOMAIN rows \cup tracked)' : k < next_id'
    BY <1>1 DEF KeysBelowNextId
  <2>3. \A c \in (old_values \cup removed_values)' : c.id < next_id'
    BY <1>1, CompressedLists DEF KeysBelowNextId
  <2> QED
    BY <1>1, <1>2, <2>1, <2>2, <2>3, CompressedLists, SameSessions
<1>5. OneNodePerKey'
  BY <1>1, CompressedLists DEF OneNodePerKey
<1> QED
  BY <1>2, <1>3, <1>4, <1>5

\* Both squash and squash_fast: lists that have at most lost what only the top
\* session needs, or lists that are empty.
LEMMA PopStructure ==
    ASSUME Structure, undo_stack # << >>, PopSession,
           old_values' \subseteq old_values, removed_values' \subseteq Cell,
           HasHead(old_values'), HasHead(removed_values'),
           \A c \in removed_values' : \E d \in removed_values : c.id = d.id,
           \A c, d \in removed_values' : c.id = d.id => c = d,
           \A i \in 1 .. Len(undo_stack) - 1 :
              /\ ListKept(old_values, old_values', undo_stack[i].old_values_end)
              /\ ListKept(removed_values, removed_values',
                          undo_stack[i].removed_values_end)
    PROVE  Structure'
<1> USE DEF Structure
<1>1. /\ undo_stack' = SubSeq(undo_stack, 1, Len(undo_stack) - 1)
      /\ revision' = revision - 1
      /\ UNCHANGED <<rows, next_id, monotonic_revision, tracked>>
  BY DEF PopSession
<1>2. /\ Len(undo_stack) \in Nat \ {0}
      /\ undo_stack' \in Seq(UndoState)
      /\ Len(undo_stack') = Len(undo_stack) - 1
  BY <1>1, TopSession, PoppedStack
<1>3. revision \in Nat /\ revision' \in Nat /\ RevisionRange'
  BY <1>1, <1>2 DEF RevisionRange, TypeOK
<1>4. TypeOK'
  BY <1>1, <1>2, <1>3 DEF TypeOK
<1>5. EndsAreLive' /\ SessionsNest' /\ KeysBelowNextId'
  <2>1. \A k \in (DOMAIN rows \cup tracked)' : k < next_id'
    BY <1>1 DEF KeysBelowNextId
  <2>2. \A c \in (old_values \cup removed_values)' : c.id < next_id'
    BY <1>1 DEF KeysBelowNextId
  <2>3. Top.old_next_id <= next_id'
    BY <1>1, <1>2 DEF KeysBelowNextId, Top
  <2> QED
    BY <1>1, <1>4, <2>1, <2>2, <2>3, PoppedSessions
<1>6. OneNodePerKey'
  BY <1>1 DEF OneNodePerKey
<1> QED
  BY <1>3, <1>4, <1>5, <1>6

\* squash and squash_fast.
LEMMA SquashStructure ==
    ASSUME Structure, Squash \/ SquashFast
    PROVE  Structure'
<1>1. undo_stack # << >> /\ PopSession
  BY DEF Squash, SquashFast
<1>2. Len(undo_stack) \in Nat \ {0}
  BY <1>1, TopSession
<1>3. CASE Len(undo_stack) = 1
  <2>1. old_values' = {} /\ removed_values' = {}
    BY <1>3 DEF Squash, SquashFast
  <2>2. \A i \in 1 .. Len(undo_stack) - 1 : FALSE
    BY <1>3
  <2> QED
    BY <1>1, <2>1, <2>2, PopStructure DEF HasHead
<1>4. CASE Len(undo_stack) # 1 /\ Squash
  <2>1. Compress(undo_stack[Len(undo_stack) - 1])
    BY <1>4 DEF Squash
  <2>2. \A i \in 1 .. Len(undo_stack) - 1 : i \in 1 .. Len(undo_stack)
    BY <1>2
  <2> QED
    BY <1>1, <2>1, <2>2, CompressedLists, PopStructure
<1>5. CASE Len(undo_stack) # 1 /\ SquashFast
  <2>1. UNCHANGED <<old_values, removed_values>>
    BY <1>5 DEF SquashFast
  <2> QED
    BY <1>1, <2>1, PopStructure DEF ListKept, Structure, TypeOK, OneNodePerKey
<1> QED
  BY <1>3, <1>4, <1>5

\* start_undo: the new session ends where the lists begin, before all others.
LEMMA StartUndoStructure ==
    ASSUME Structure, StartUndo
    PROVE  Structure'
<1> USE DEF Structure
<1> DEFINE session == [old_values_end |-> Begin(old_values),
                       removed_values_end |-> Begin(removed_values),
                       old_next_id |-> next_id,
                       ctime |-> monotonic_revision + 1]
           n == Len(undo_stack)
<1>1. /\ undo_stack' = Append(undo_stack, session)
      /\ monotonic_revision' = monotonic_revision + 1
      /\ revision' = revision + 1
      /\ UNCHANGED <<rows, old_values, removed_values, next_id, tracked>>
  BY DEF StartUndo, NextCtime
<1>2. old_values \subseteq Cell /\ removed_values \subseteq Cell
  BY DEF TypeOK
<1>3. /\ Begin(old_values) \in Nat /\ Begin(removed_values) \in Nat
      /\ \A c \in old_values : c.pos <= Begin(old_values)
      /\ \A c \in removed_values : c.pos <= Begin(removed_values)
      /\ Begin(old_values) \in {0} \cup {c.pos : c \in old_values}
      /\ Begin(removed_values) \in {0} \cup {c.pos : c \in removed_values}
  BY <1>2, BeginIsHead
<1>4. /\ monotonic_revision \in Nat /\ revision \in Nat
      /\ next_id \in Nat /\ next_id \in 0 .. MaxId + 1
  BY ConstantsAssumption DEF TypeOK
<1>5. session \in UndoState
  BY <1>3, <1>4 DEF UndoState
<1>6. /\ n \in Nat
      /\ undo_stack' \in Seq(UndoState)
      /\ Len(undo_stack') = n + 1
      /\ \A i \in 1 .. n : undo_stack'[i] = undo_stack[i]
      /\ undo_stack'[n + 1] = session
  <2>1. undo_stack \in Seq(UndoState)
    BY DEF TypeOK
  <2> HIDE DEF session
  <2>2. /\ undo_stack' \in Seq(UndoState)
        /\ Len(undo_stack') = n + 1
        /\ \A i \in 1 .. n : undo_stack'[i] = undo_stack[i]
        /\ undo_stack'[n + 1] = session
    BY <1>1, <1>5, <2>1, AppendProperties
  <2> QED
    BY <2>1, <2>2
<1>7. \A i \in 1 .. n + 1 : i \in 1 .. n \/ i = n + 1
  BY <1>6
<1>8. TypeOK' /\ RevisionRange'
  BY <1>1, <1>4, <1>6 DEF TypeOK, RevisionRange
<1>9. EndsAreLive'
  BY <1>1, <1>3, <1>6, <1>7 DEF EndsAreLive
<1>10. SessionsNest'
  <2>1. \A i \in 1 .. n :
           /\ undo_stack[i].old_values_end <= Begin(old_values)
           /\ undo_stack[i].removed_values_end <= Begin(removed_values)
           /\ undo_stack[i].old_next_id <= next_id
           /\ undo_stack[i].ctime < monotonic_revision + 1
    <3> SUFFICES ASSUME NEW i \in 1 .. n
                 PROVE  /\ undo_stack[i].old_values_end <= Begin(old_values)
                        /\ undo_stack[i].removed_values_end
                              <= Begin(removed_values)
                        /\ undo_stack[i].old_next_id <= next_id
                        /\ undo_stack[i].ctime < monotonic_revision + 1
      OBVIOUS
    <3>1. /\ undo_stack[i].old_values_end \in {0} \cup {c.pos : c \in old_values}
          /\ undo_stack[i].removed_values_end
                \in {0} \cup {c.pos : c \in removed_values}
      BY DEF EndsAreLive
    <3>2. undo_stack[i].ctime <= monotonic_revision /\ undo_stack[i].ctime \in Nat
      BY Session DEF SessionsNest
    <3>3. undo_stack[i].old_next_id <= next_id
      BY DEF KeysBelowNextId
    <3> QED
      BY <1>3, <1>4, <3>1, <3>2, <3>3
  <2>2. \A i, j \in 1 .. n + 1 : i < j => i \in 1 .. n
    BY <1>6
  <2>3. \A i, j \in 1 .. n + 1 :
           i < j =>
              /\ undo_stack'[i].old_values_end <= undo_stack'[j].old_values_end
              /\ undo_stack'[i].removed_values_end
                    <= undo_stack'[j].removed_values_end
              /\ undo_stack'[i].old_next_id <= undo_stack'[j].old_next_id
              /\ undo_stack'[i].ctime < undo_stack'[j].ctime
    <3> SUFFICES ASSUME NEW i \in 1 .. n, NEW j \in 1 .. n + 1, i < j
                 PROVE  /\ undo_stack'[i].old_values_end
                              <= undo_stack'[j].old_values_end
                        /\ undo_stack'[i].removed_values_end
                              <= undo_stack'[j].removed_values_end
                        /\ undo_stack'[i].old_next_id <= undo_stack'[j].old_next_id
                        /\ undo_stack'[i].ctime < undo_stack'[j].ctime
      BY <2>2
    <3>1. CASE j \in 1 .. n
      BY <1>6, <3>1 DEF SessionsNest
    <3>2. CASE j = n + 1
      BY <1>6, <2>1, <3>2
    <3> QED
      BY <1>7, <3>1, <3>2
  <2>4. \A i \in 1 .. n + 1 : undo_stack'[i].ctime <= monotonic_revision'
    BY <1>1, <1>4, <1>6, <1>7, <2>1, Session
  <2> QED
    BY <1>6, <2>3, <2>4 DEF SessionsNest
<1>11. KeysBelowNextId'
  BY <1>1, <1>4, <1>6, <1>7 DEF KeysBelowNextId, From
<1>12. OneNodePerKey'
  BY <1>1 DEF OneNodePerKey
<1> QED
  BY <1>1, <1>8, <1>9, <1>10, <1>11, <1>12

\* undo: the keys it gives back have no node and no backup left.
LEMMA UndoStructure ==
    ASSUME Structure, Undo
    PROVE  Structure'
<1> USE DEF Structure
<1> DEFINE due  == {b \in Before(old_values, Top.old_values_end) :
                       b.mtime < Top.ctime}
           kept == {id \in DOMAIN rows : id < Top.old_next_id}
           back == {n \in Before(removed_values, Top.removed_values_end) :
                       n.id < Top.old_next_id}
           node(id) == CHOOSE n \in back : n.id = id
           left == From(removed_values, Top.removed_values_end)
<1>1. /\ undo_stack # << >>
      /\ tracked = {}
      /\ rows' = [id \in kept \cup {n.id : n \in back} |->
                    IF id \in kept
                    THEN Overwritten(rows[id], id, due)
                    ELSE Overwritten([val |-> node(id).val,
                                      mtime |-> node(id).mtime], id, due)]
      /\ old_values' = From(old_values, Top.old_values_end)
      /\ removed_values' = WrittenInto(left, due)
      /\ next_id' = Top.old_next_id
      /\ undo_stack' = SubSeq(undo_stack, 1, Len(undo_stack) - 1)
      /\ revision' = revision - 1
      /\ UNCHANGED <<monotonic_revision, tracked>>
  BY DEF Undo
<1>2. /\ Len(undo_stack) \in Nat \ {0}
      /\ Top \in UndoState
      /\ Top.old_next_id \in Nat
      /\ Top.old_values_end \in Nat
      /\ Top.removed_values_end \in Nat
      /\ undo_stack' \in Seq(UndoState)
      /\ Len(undo_stack') = Len(undo_stack) - 1
  BY <1>1, TopSession, PoppedStack
<1>3. /\ old_values \subseteq Cell /\ removed_values \subseteq Cell
      /\ due \subseteq Cell /\ back \subseteq removed_values
      /\ left \subseteq removed_values
      /\ \A n \in back : n.pos > Top.removed_values_end
      /\ \A n \in left : n.pos <= Top.removed_values_end
  BY DEF TypeOK, Before, From
<1>4. DOMAIN rows' = kept \cup {n.id : n \in back}
  BY <1>1
<1>5. rows' \in [DOMAIN rows' -> Row]
  <2> SUFFICES ASSUME NEW id \in DOMAIN rows'
               PROVE  rows'[id] \in Row
    BY <1>1
  <2>1. CASE id \in kept
    <3>1. rows[id] \in Row
      BY <2>1 DEF TypeOK
    <3>2. rows'[id] = Overwritten(rows[id], id, due)
      BY <1>1, <1>4, <2>1
    <3> HIDE DEF due
    <3> QED
      BY <1>3, <3>1, <3>2, OverwrittenRow
  <2>2. CASE id \notin kept
    <3> DEFINE row == [val |-> node(id).val, mtime |-> node(id).mtime]
    <3>1. \E n \in back : n.id = id
      BY <1>4, <2>2
    <3>2. node(id) \in back
      <4> HIDE DEF back
      <4> QED BY <3>1
    <3>3. node(id) \in Cell
      BY <1>3, <3>2
    <3>4. row \in Row
      <4> HIDE DEF node
      <4> QED BY <3>3 DEF Row, Cell
    <3>5. rows'[id] = Overwritten(row, id, due)
      BY <1>1, <1>4, <2>2
    <3> HIDE DEF row, due
    <3> QED
      BY <1>3, <3>4, <3>5, OverwrittenRow
  <2> QED
    BY <2>1, <2>2
<1>6. /\ old_values' \subseteq old_values
      /\ HasHead(old_values')
  <2>1. old_values' \subseteq old_values
    BY <1>1 DEF From
  <2> QED
    BY <1>3, <2>1, SublistHasHead
<1>7. /\ removed_values' \subseteq Cell
      /\ HasHead(removed_values')
      /\ \A c \in removed_values' : \E d \in left :
            c = Overwritten(d, d.id, due) /\ c.pos = d.pos /\ c.id = d.id
      /\ \A d \in left : \E c \in removed_values' : c.pos = d.pos /\ c.id = d.id
  <2>1. left \subseteq Cell /\ HasHead(left)
    BY <1>3, SublistHasHead
  <2> HIDE DEF left, due
  <2> QED
    BY <1>1, <1>3, <2>1, OverwrittenList
<1>8. revision \in Nat /\ revision' \in Nat /\ RevisionRange'
  BY <1>1, <1>2 DEF RevisionRange, TypeOK
<1>9. TypeOK'
  <2>1. DOMAIN rows' \subseteq Ids
    BY <1>3, <1>4 DEF TypeOK, Cell
  <2>2. next_id' \in 0 .. MaxId + 1
    BY <1>1, <1>2 DEF UndoState
  <2> QED
    BY <1>1, <1>2, <1>5, <1>6, <1>7, <1>8, <2>1, <2>2 DEF TypeOK
<1>10. /\ \A c \in old_values' : c.id < Top.old_next_id
       /\ \A c \in left : c.id < Top.old_next_id
  BY <1>1, <1>2 DEF KeysBelowNextId, Top
<1>11. EndsAreLive' /\ SessionsNest' /\ KeysBelowNextId'
  <2>1. \A k \in (DOMAIN rows \cup tracked)' : k < next_id'
    BY <1>1, <1>4
  <2>2. \A c \in (old_values \cup removed_values)' : c.id < next_id'
    BY <1>1, <1>7, <1>10
  <2>3. ASSUME NEW i \in 1 .. Len(undo_stack) - 1
        PROVE  /\ ListKept(old_values, old_values', undo_stack[i].old_values_end)
               /\ ListKept(removed_values, removed_values',
                           undo_stack[i].removed_values_end)
    <3>1. i \in 1 .. Len(undo_stack)
      BY <1>2
    <3>2. /\ undo_stack[i].old_values_end <= Top.old_values_end
          /\ undo_stack[i].removed_values_end <= Top.removed_values_end
      BY <1>1, <3>1, TopSession
    <3>3. \A c \in old_values :
             c.pos = undo_stack[i].old_values_end => c \in old_values'
      BY <1>1, <3>2 DEF From
    <3>4. \A c \in removed_values :
             c.pos = undo_stack[i].removed_values_end => c \in left
      BY <3>2 DEF From
    <3> HIDE DEF left
    <3>5. ListKept(old_values, old_values', undo_stack[i].old_values_end)
      BY <1>6, <3>3 DEF ListKept
    <3>6. ListKept(removed_values, removed_values',
                   undo_stack[i].removed_values_end)
      BY <1>3, <1>7, <3>4 DEF ListKept
    <3> QED
      BY <3>5, <3>6
  <2>4. Top.old_next_id <= next_id'
    BY <1>1, <1>2
  <2> QED
    BY <1>1, <1>9, <2>1, <2>2, <2>3, <2>4, PoppedSessions
<1>12. OneNodePerKey'
  <2>1. ASSUME NEW c \in removed_values', NEW d \in removed_values', c.id = d.id
        PROVE  c = d
    <3> HIDE DEF left, due
    <3>1. PICK m \in left : c = Overwritten(m, m.id, due) /\ c.id = m.id
      BY <1>7
    <3>2. PICK n \in left : d = Overwritten(n, n.id, due) /\ d.id = n.id
      BY <1>7
    <3>3. m = n
      BY <1>3, <2>1, <3>1, <3>2 DEF OneNodePerKey
    <3> QED
      BY <3>1, <3>2, <3>3
  <2>2. ASSUME NEW c \in removed_values'
        PROVE  c.id \notin DOMAIN rows'
    <3>1. PICK d \in left : c.id = d.id
      BY <1>7
    <3>2. d \in removed_values /\ d.pos <= Top.removed_values_end
      BY <1>3
    <3>3. c.id \notin kept
      BY <3>1, <3>2 DEF OneNodePerKey
    <3>4. ASSUME NEW n \in back, n.id = c.id PROVE FALSE
      <4>1. n = d
        BY <1>3, <3>1, <3>2, <3>4 DEF OneNodePerKey
      <4>2. n.pos \in Nat
        BY <1>3 DEF Cell
      <4> QED
        BY <1>2, <1>3, <3>2, <4>1, <4>2
    <3> QED
      BY <1>4, <3>3, <3>4
  <2> QED
    BY <1>1, <2>1, <2>2 DEF OneNodePerKey
<1> QED
  BY <1>6, <1>7, <1>8, <1>9, <1>11, <1>12

\* No session is left, and so no list, or nothing has happened to them.
LEMMA CommitStructure ==
    ASSUME Structure, NEW r \in 0 .. MaxRevision, Commit(r)
    PROVE  Structure'
<1> USE DEF Structure
<1> DEFINE behind == revision - r
           first  == Len(undo_stack) - behind + 1
           oldest == undo_stack[first]
<1>1. /\ UNCHANGED <<rows, next_id, revision, monotonic_revision, tracked>>
      /\ Len(undo_stack) \in Nat
      /\ r \in Nat /\ revision \in Nat /\ behind \in Int
  BY Session, ConstantsAssumption DEF Commit, TypeOK
<1>2. CASE behind <= 0
  <2>1. old_values' = {} /\ removed_values' = {} /\ undo_stack' = << >>
    BY <1>1, <1>2 DEF Commit
  <2> QED
    BY <1>1, <2>1
    DEF TypeOK, HasHead, RevisionRange, EndsAreLive, SessionsNest,
        KeysBelowNextId, OneNodePerKey
<1>3. CASE behind > 0 /\ behind < Len(undo_stack)
  <2>1. /\ old_values' = {c \in old_values : c.pos >= oldest.old_values_end}
        /\ removed_values' = {c \in removed_values :
                                c.pos >= oldest.removed_values_end}
        /\ undo_stack' = SubSeq(undo_stack, first, Len(undo_stack))
    BY <1>1, <1>3 DEF Commit, Uncommitted
  <2>2. first \in 2 .. Len(undo_stack)
    BY <1>1, <1>3
  <2>3. /\ undo_stack' \in Seq(UndoState)
        /\ Len(undo_stack') = behind
        /\ \A i \in 1 .. behind : undo_stack'[i] = undo_stack[first + i - 1]
    <3> DEFINE n == Len(undo_stack)
    <3>1. \A i \in first .. n : undo_stack[i] \in UndoState
      BY <2>2, Session
    <3>2. first \in Int /\ n \in Int /\ first <= n /\ n - first + 1 = behind
      BY <1>1, <2>2
    <3>3. undo_stack' = SubSeq(undo_stack, first, n)
      BY <2>1
    <3> HIDE DEF n, first, behind
    <3>4. /\ undo_stack' \in Seq(UndoState)
          /\ Len(undo_stack') = IF first <= n THEN n - first + 1 ELSE 0
          /\ \A i \in 1 .. n - first + 1 :
                undo_stack'[i] = undo_stack[first + i - 1]
      BY ONLY <3>1, <3>2, <3>3, SubSeqProperties
    <3> QED
      BY ONLY <3>2, <3>4
  <2>4. \A i \in 1 .. behind :
           /\ first - 1 + i \in 1 .. Len(undo_stack)
           /\ first - 1 + i = first \/ first < first - 1 + i
           /\ undo_stack'[i] = undo_stack[first - 1 + i]
    <3> SUFFICES ASSUME NEW i \in 1 .. behind
                 PROVE  /\ first - 1 + i \in 1 .. Len(undo_stack)
                        /\ first - 1 + i = first \/ first < first - 1 + i
                        /\ undo_stack'[i] = undo_stack[first - 1 + i]
      OBVIOUS
    <3>1. first - 1 + i = first + i - 1
      BY <1>1, <2>2
    <3>2. undo_stack'[i] = undo_stack[first - 1 + i]
      <4> HIDE DEF first, behind
      <4> QED BY <2>3, <3>1
    <3>3. /\ first - 1 + i \in 1 .. Len(undo_stack)
          /\ first - 1 + i = first \/ first < first - 1 + i
      BY <1>1, <1>3
    <3> QED
      BY <3>2, <3>3
  <2>5. old_values' \subseteq old_values /\ removed_values' \subseteq removed_values
    BY <2>1
  <2>6. TypeOK' /\ RevisionRange'
    BY <1>1, <1>3, <2>3, <2>5 DEF TypeOK, RevisionRange
  <2>7. HasHead(old_values') /\ HasHead(removed_values')
    BY <2>5, SublistHasHead DEF TypeOK
  <2>8. ASSUME NEW i \in 1 .. Len(undo_stack')
        PROVE  /\ ListKept(old_values, old_values', undo_stack'[i].old_values_end)
               /\ ListKept(removed_values, removed_values',
                           undo_stack'[i].removed_values_end)
    <3>1. i \in 1 .. behind
      BY <2>3
    <3>2. /\ oldest.old_values_end <= undo_stack'[i].old_values_end
          /\ oldest.removed_values_end <= undo_stack'[i].removed_values_end
      <4> DEFINE j == first - 1 + i
      <4>1. /\ j \in 1 .. Len(undo_stack) /\ first \in 1 .. Len(undo_stack)
            /\ j = first \/ first < j
            /\ undo_stack'[i] = undo_stack[j]
        BY <2>2, <2>4, <3>1
      <4>2. oldest.old_values_end \in Nat /\ oldest.removed_values_end \in Nat
        BY <4>1, Session
      <4> HIDE DEF j, first
      <4>3. CASE j = first
        BY <4>1, <4>2, <4>3
      <4>4. CASE first < j
        BY <4>1, <4>4 DEF SessionsNest
      <4> QED
        BY <4>1, <4>3, <4>4
    <3> QED
      BY <2>1, <2>5, <3>2 DEF ListKept
  <2>9. EndsAreLive' /\ SessionsNest' /\ KeysBelowNextId'
    <3>1. \A k \in (DOMAIN rows \cup tracked)' : k < next_id'
      BY <1>1 DEF KeysBelowNextId
    <3>2. \A c \in (old_values \cup removed_values)' : c.id < next_id'
      BY <1>1, <2>5 DEF KeysBelowNextId
    <3>3. \A i \in 1 .. Len(undo_stack') : undo_stack'[i].old_next_id <= next_id'
      BY <1>1, <2>3, <2>4 DEF KeysBelowNextId
    <3>4. /\ first - 1 \in Nat
          /\ first - 1 + Len(undo_stack') <= Len(undo_stack)
          /\ \A i \in 1 .. Len(undo_stack') :
                undo_stack'[i] = undo_stack[first - 1 + i]
      BY <1>1, <2>2, <2>3, <2>4
    <3> HIDE DEF first, behind, oldest
    <3> QED
      BY <1>1, <2>6, <2>8, <3>1, <3>2, <3>3, <3>4, SessionsKept
  <2>10. OneNodePerKey'
    BY <1>1, <2>5 DEF OneNodePerKey
  <2> QED
    BY <2>6, <2>7, <2>9, <2>10
<1>4. CASE behind > 0 /\ behind >= Len(undo_stack)
  <2>1. UNCHANGED <<rows, old_values, removed_values, undo_stack, next_id,
                    revision, monotonic_revision, tracked>>
    BY <1>1, <1>4 DEF Commit
  <2> QED
    BY <2>1
    DEF TypeOK, HasHead, RevisionRange, EndsAreLive, SessionsNest,
        KeysBelowNextId, OneNodePerKey, From
<1> QED
  BY <1>1, <1>2, <1>3, <1>4

\* The remaining operations leave the lists alone or empty them.
LEMMA OtherStructure ==
    ASSUME Structure,
           DropTracker \/ Copy \/ \E r \in 0 .. MaxRevision : SetRevision(r)
    PROVE  Structure'
<1> USE DEF Structure
<1>1. CASE DropTracker
  BY <1>1
  DEF DropTracker, TypeOK, HasHead, RevisionRange, EndsAreLive, SessionsNest,
      KeysBelowNextId, OneNodePerKey, From
<1>2. CASE Copy
  <2>1. DOMAIN rows' = DOMAIN rows /\ rows' \in [DOMAIN rows -> Row]
    BY <1>2 DEF Copy, TypeOK, Row
  <2> QED
    BY <1>2, <2>1
    DEF Copy, TypeOK, HasHead, RevisionRange, EndsAreLive, SessionsNest,
        KeysBelowNextId, OneNodePerKey
<1>3. CASE \E r \in 0 .. MaxRevision : SetRevision(r)
  BY <1>3, ConstantsAssumption
  DEF SetRevision, TypeOK, HasHead, RevisionRange, EndsAreLive, SessionsNest,
      KeysBelowNextId, OneNodePerKey
<1> QED
  BY <1>1, <1>2, <1>3

-----------------------------------------------------------------------------
(* What commit leaves around. *)

AtMostOne(list)       == \A c, d \in list : c = d
OneCellPerPlace(list) == \A c, d \in list : c.pos = d.pos => c = d

\* What is behind the end of the oldest session, or all if there is none.
Unowned(list, stack, end) == IF stack = << >> THEN list ELSE From(list, end)

\* BoundedLeftover, and what makes it inductive: no two cells have one place.
Bounded ==
    /\ OneCellPerPlace(old_values) /\ OneCellPerPlace(removed_values)
    /\ AtMostOne(Unowned(old_values, undo_stack, undo_stack[1].old_values_end))
    /\ AtMostOne(Unowned(removed_values, undo_stack,
                         undo_stack[1].removed_values_end))

\* Cells are erased or overwritten, and stay where they were.
Shrinks(list, new) ==
    \A c, e \in new : \E d, f \in list :
        d.pos = c.pos /\ f.pos = e.pos /\ (d = f => c = e)

\* Such a list has no more cells in a place, and no more of them behind an end.
LEMMA ShrunkList ==
    ASSUME NEW list, NEW new, Shrinks(list, new), OneCellPerPlace(list), NEW end
    PROVE  /\ OneCellPerPlace(new)
           /\ AtMostOne(list) => AtMostOne(new)
           /\ AtMostOne(From(list, end)) => AtMostOne(From(new, end))
           /\ (\A c \in new : c.pos <= end) /\ AtMostOne(From(list, end))
                 => AtMostOne(new)
  BY DEF Shrinks, OneCellPerPlace, AtMostOne, From

\* Erasing cells and moving backups into nodes shrink a list.
LEMMA ErasedShrinks ==
    ASSUME NEW list, NEW new, new \subseteq list
    PROVE  Shrinks(list, new)
  BY DEF Shrinks

\* Writing backups into a part of the removed nodes does not make the list longer.
LEMMA WrittenShrinks ==
    ASSUME NEW list, list \subseteq Cell, NEW sub, sub \subseteq list,
           NEW backups, backups \subseteq Cell
    PROVE  Shrinks(list, WrittenInto(sub, backups))
<1>1. \A n \in sub : Overwritten(n, n.id, backups).pos = n.pos
  BY OverwrittenCell
<1> QED
  BY <1>1 DEF Shrinks, WrittenInto

\* push_front puts its cell where no other is, in front of all ends.
LEMMA PushedPlace ==
    ASSUME NEW list, list \subseteq Cell, HasHead(list), OneCellPerPlace(list),
           NEW id, NEW row, NEW end \in {0} \cup {c.pos : c \in list}
    PROVE  /\ OneCellPerPlace(PushFront(list, id, row))
           /\ From(PushFront(list, id, row), end) = From(list, end)
<1> DEFINE new == [pos |-> Begin(list) + 1, id |-> id,
                   val |-> row.val, mtime |-> row.mtime]
<1>1. /\ Begin(list) \in Nat /\ \A c \in list : c.pos <= Begin(list)
      /\ \A c \in list : c.pos \in Nat
  BY BeginIsHead DEF Cell
<1>2. end \in Nat /\ end <= Begin(list)
  BY <1>1
<1>3. new.pos = Begin(list) + 1 /\ PushFront(list, id, row) = list \cup {new}
  BY DEF PushFront
<1> HIDE DEF new
<1> QED
  BY <1>1, <1>2, <1>3 DEF OneCellPerPlace, From

\* No session starts or ends, and a list only grows for one that is open.
LEMMA SameStackBounded ==
    ASSUME Structure, Bounded, undo_stack' = undo_stack,
           \/ Shrinks(old_values, old_values')
           \/ undo_stack # << >> /\ \E id, row :
                 old_values' = PushFront(old_values, id, row),
           \/ Shrinks(removed_values, removed_values')
           \/ undo_stack # << >> /\ \E id, row :
                 removed_values' = PushFront(removed_values, id, row)
    PROVE  Bounded'
<1> USE DEF Structure, TypeOK
<1>1. undo_stack # << >> =>
         /\ undo_stack[1].old_values_end \in {0} \cup {c.pos : c \in old_values}
         /\ undo_stack[1].removed_values_end
               \in {0} \cup {c.pos : c \in removed_values}
  <2> SUFFICES ASSUME undo_stack # << >>
               PROVE  1 \in 1 .. Len(undo_stack)
    BY DEF EndsAreLive
  <2> QED
    BY TopSession
<1>2. /\ OneCellPerPlace(old_values')
      /\ AtMostOne(Unowned(old_values', undo_stack, undo_stack[1].old_values_end))
  <2>1. CASE Shrinks(old_values, old_values')
    BY <2>1, ShrunkList DEF Bounded, Unowned
  <2>2. ASSUME undo_stack # << >>, NEW id, NEW row,
               old_values' = PushFront(old_values, id, row)
        PROVE  /\ OneCellPerPlace(old_values')
               /\ From(old_values', undo_stack[1].old_values_end)
                     = From(old_values, undo_stack[1].old_values_end)
    BY <1>1, <2>2, PushedPlace DEF Bounded
  <2> QED
    BY <2>1, <2>2 DEF Bounded, Unowned
<1>3. /\ OneCellPerPlace(removed_values')
      /\ AtMostOne(Unowned(removed_values', undo_stack,
                           undo_stack[1].removed_values_end))
  <2>1. CASE Shrinks(removed_values, removed_values')
    BY <2>1, ShrunkList DEF Bounded, Unowned
  <2>2. ASSUME undo_stack # << >>, NEW id, NEW row,
               removed_values' = PushFront(removed_values, id, row)
        PROVE  /\ OneCellPerPlace(removed_values')
               /\ From(removed_values', undo_stack[1].removed_values_end)
                     = From(removed_values, undo_stack[1].removed_values_end)
    BY <1>1, <2>2, PushedPlace DEF Bounded
  <2> QED
    BY <2>1, <2>2 DEF Bounded, Unowned
<1> QED
  BY <1>2, <1>3 DEF Bounded

\* The top session ends: with the last one, no more is left than was behind it.
LEMMA PoppedBounded ==
    ASSUME Structure, Bounded, undo_stack # << >>,
           undo_stack' = SubSeq(undo_stack, 1, Len(undo_stack) - 1),
           Shrinks(old_values, old_values'),
           Shrinks(removed_values, removed_values'),
           Len(undo_stack) = 1 =>
              /\ \A c \in old_values' : c.pos <= undo_stack[1].old_values_end
              /\ \A c \in removed_values' :
                    c.pos <= undo_stack[1].removed_values_end
    PROVE  Bounded'
<1>1. /\ Len(undo_stack) \in Nat \ {0}
      /\ undo_stack' \in Seq(UndoState)
      /\ Len(undo_stack') = Len(undo_stack) - 1
      /\ \A i \in 1 .. Len(undo_stack') : undo_stack'[i] = undo_stack[i]
  BY TopSession, PoppedStack
<1>2. undo_stack' = << >> <=> Len(undo_stack) = 1
  <2>1. undo_stack' = << >> <=> Len(undo_stack') = 0
    BY <1>1, EmptySeq
  <2> QED
    BY <1>1, <2>1
<1>3. Len(undo_stack) # 1 => undo_stack'[1] = undo_stack[1]
  BY <1>1
<1>4. /\ OneCellPerPlace(old_values') /\ OneCellPerPlace(removed_values')
      /\ AtMostOne(From(old_values', undo_stack[1].old_values_end))
      /\ AtMostOne(From(removed_values', undo_stack[1].removed_values_end))
      /\ Len(undo_stack) = 1 => AtMostOne(old_values') /\ AtMostOne(removed_values')
  BY ShrunkList DEF Bounded, Unowned
<1> QED
  BY <1>2, <1>3, <1>4 DEF Bounded, Unowned

\* commit forgets all sessions and lists, or leaves of each list one cell that
\* the oldest remaining session points to.
LEMMA CommitBounded ==
    ASSUME Structure, Bounded, NEW r \in 0 .. MaxRevision, Commit(r)
    PROVE  Bounded'
<1> DEFINE behind == revision - r
           first  == Len(undo_stack) - behind + 1
           oldest == undo_stack[first]
<1>1. /\ Len(undo_stack) \in Nat
      /\ r \in Nat /\ revision \in Nat /\ behind \in Int
  BY Session, ConstantsAssumption DEF Structure, TypeOK
<1>2. CASE behind <= 0
  <2>1. old_values' = {} /\ removed_values' = {}
    BY <1>1, <1>2 DEF Commit
  <2> QED
    BY <2>1 DEF Bounded, AtMostOne, OneCellPerPlace, Unowned, From
<1>3. CASE behind > 0 /\ behind < Len(undo_stack)
  <2> DEFINE n == Len(undo_stack)
  <2>1. /\ old_values' = {c \in old_values : c.pos >= oldest.old_values_end}
        /\ removed_values' = {c \in removed_values :
                                c.pos >= oldest.removed_values_end}
        /\ undo_stack' = SubSeq(undo_stack, first, n)
    BY <1>1, <1>3 DEF Commit, Uncommitted
  <2>2. first \in 2 .. n /\ n - first + 1 >= 1
    BY <1>1, <1>3
  <2>3. first \in Int /\ n \in Int /\ \A i \in first .. n : undo_stack[i] \in UndoState
    BY <2>2, Session DEF Structure
  <2>4. undo_stack' # << >> /\ undo_stack'[1] = oldest
    <3> HIDE DEF n, first
    <3>1. /\ Len(undo_stack') = IF first <= n THEN n - first + 1 ELSE 0
          /\ \A i \in 1 .. n - first + 1 : undo_stack'[i] = undo_stack[first + i - 1]
      BY ONLY <2>1, <2>3, SubSeqProperties
    <3>2. Len(undo_stack') # 0
      BY <2>2, <2>3, <3>1
    <3>3. undo_stack'[1] = undo_stack[first]
      BY <2>2, <2>3, <3>1
    <3> QED
      BY <3>2, <3>3
  <2>5. /\ oldest.old_values_end \in Nat /\ oldest.removed_values_end \in Nat
        /\ \A c \in old_values \cup removed_values : c.pos \in Nat
    <3>1. \A c \in old_values \cup removed_values : c.pos \in Nat
      BY DEF Structure, TypeOK, Cell
    <3>2. first \in 1 .. n
      BY <2>2
    <3> HIDE DEF first
    <3> QED
      BY <3>1, <3>2, Session DEF Structure
  <2> HIDE DEF oldest
  <2>6. /\ AtMostOne(From(old_values', oldest.old_values_end))
        /\ OneCellPerPlace(old_values')
    BY <2>1, <2>5 DEF Bounded, AtMostOne, OneCellPerPlace, From
  <2>7. /\ AtMostOne(From(removed_values', oldest.removed_values_end))
        /\ OneCellPerPlace(removed_values')
    BY <2>1, <2>5 DEF Bounded, AtMostOne, OneCellPerPlace, From
  <2> QED
    BY <2>4, <2>6, <2>7 DEF Bounded, Unowned
<1>4. CASE behind > 0 /\ behind >= Len(undo_stack)
  <2>1. UNCHANGED <<old_values, removed_values, undo_stack>>
    BY <1>1, <1>4 DEF Commit
  <2> QED
    BY <2>1 DEF Bounded
<1> QED
  BY <1>1, <1>2, <1>3, <1>4

\* start_undo: what no session owned is behind the end of the first.
LEMMA StartUndoBounded ==
    ASSUME Structure, Bounded, StartUndo
    PROVE  Bounded'
<1> DEFINE session == [old_values_end |-> Begin(old_values),
                       removed_values_end |-> Begin(removed_values),
                       old_next_id |-> next_id,
                       ctime |-> monotonic_revision + 1]
           n == Len(undo_stack)
<1>1. /\ undo_stack' = Append(undo_stack, session)
      /\ UNCHANGED <<old_values, removed_values>>
  BY DEF StartUndo, NextCtime
<1>2. /\ next_id \in 0 .. MaxId + 1 /\ monotonic_revision \in Nat
      /\ Begin(old_values) \in Nat /\ Begin(removed_values) \in Nat
  BY BeginIsHead DEF Structure, TypeOK
<1>3. session \in UndoState /\ undo_stack \in Seq(UndoState)
  BY <1>2 DEF UndoState, Structure, TypeOK
<1>4. /\ session.old_values_end = Begin(old_values)
      /\ session.removed_values_end = Begin(removed_values)
  OBVIOUS
<1> HIDE DEF session
<1>5. /\ n \in Nat /\ (undo_stack = << >> <=> n = 0)
      /\ undo_stack' # << >>
      /\ \A i \in 1 .. n : undo_stack'[i] = undo_stack[i]
      /\ undo_stack'[n + 1] = session
  BY <1>1, <1>3, AppendProperties, EmptySeq, LenProperties
<1>6. CASE undo_stack = << >>
  <2>1. undo_stack'[1] = session
    BY <1>5, <1>6
  <2>2. /\ AtMostOne(From(old_values, Begin(old_values)))
        /\ AtMostOne(From(removed_values, Begin(removed_values)))
    BY <1>6 DEF Bounded, Unowned, AtMostOne, From
  <2> QED
    BY <1>1, <1>4, <1>5, <2>1, <2>2 DEF Bounded, Unowned
<1>7. CASE undo_stack # << >>
  <2>1. undo_stack'[1] = undo_stack[1]
    BY <1>5, <1>7
  <2> QED
    BY <1>1, <1>5, <1>7, <2>1 DEF Bounded, Unowned
<1> QED
  BY <1>6, <1>7

\* Compression shrinks both lists.
LEMMA CompressShrinks ==
    ASSUME Structure, NEW session, Compress(session)
    PROVE  Shrinks(old_values, old_values') /\ Shrinks(removed_values, removed_values')
<1> DEFINE written   == Before(old_values, Top.old_values_end)
           redundant == {b \in written : b.mtime >= session.ctime}
           moved     == {b \in written \ redundant : IsRemoved(b.id)}
           disposed  == {n \in Before(removed_values, Top.removed_values_end) :
                            n.id >= session.old_next_id}
           left      == removed_values \ disposed
<1>1. /\ old_values' \subseteq old_values
      /\ removed_values' = WrittenInto(left, moved)
      /\ moved \subseteq old_values /\ left \subseteq removed_values
  BY DEF Compress, Before
<1>2. removed_values \subseteq Cell /\ moved \subseteq Cell
  BY <1>1 DEF Structure, TypeOK
<1> HIDE DEF moved, left
<1> QED
  BY <1>1, <1>2, ErasedShrinks, WrittenShrinks

\* No step leaves more around.
LEMMA BoundedNext ==
    ASSUME Structure, Bounded, [Next]_vars
    PROVE  Bounded'
<1>1. CASE \E id \in Ids, v \in Vals : \/ Emplace(id, v)
                                       \/ ModifyOk(id, v)
                                       \/ ModifyReverted(id, v)
                                       \/ ModifyErased(id, v)
  <2>1. PICK id \in Ids, v \in Vals : \/ Emplace(id, v)
                                      \/ ModifyOk(id, v)
                                      \/ ModifyReverted(id, v)
                                      \/ ModifyErased(id, v)
    BY <1>1
  <2>2. undo_stack' = undo_stack /\ removed_values' = removed_values
    BY <2>1 DEF Emplace, ModifyOk, ModifyReverted, ModifyErased
  <2>3. \/ old_values' = old_values
        \/ undo_stack # << >> /\ old_values' = PushFront(old_values, id, rows[id])
    BY <2>1 DEF Emplace, ModifyOk, ModifyReverted, ModifyErased, NeedsBackup
  <2> QED
    BY <2>2, <2>3, ErasedShrinks, SameStackBounded
<1>2. CASE \E id \in Ids : Remove(id) \/ TrackedRemove(id)
  <2>1. PICK id \in Ids : Remove(id) \/ TrackedRemove(id)
    BY <1>2
  <2>2. undo_stack' = undo_stack /\ old_values' = old_values
    BY <2>1 DEF Remove, TrackedRemove
  <2>3. \/ removed_values' = removed_values
        \/ /\ undo_stack # << >>
           /\ removed_values' = PushFront(removed_values, id, rows[id])
    BY <2>1 DEF Remove, TrackedRemove, KeepsRemoved
  <2> QED
    BY <2>2, <2>3, ErasedShrinks, SameStackBounded
<1>3. CASE DropTracker \/ (\E r \in 0 .. MaxRevision : SetRevision(r)) \/ UNCHANGED vars
  BY <1>3 DEF DropTracker, SetRevision, vars, Bounded
<1>4. CASE Copy
  BY <1>4 DEF Copy, Bounded, AtMostOne, OneCellPerPlace, Unowned
<1>5. CASE \E r \in 0 .. MaxRevision : Commit(r)
  BY <1>5, CommitBounded
<1>6. CASE StartUndo
  BY <1>6, StartUndoBounded
<1>7. CASE LastUndoSession
  BY <1>7, CompressShrinks, SameStackBounded DEF LastUndoSession
<1>8. CASE Squash \/ SquashFast
  <2>1. /\ undo_stack # << >>
        /\ undo_stack' = SubSeq(undo_stack, 1, Len(undo_stack) - 1)
    BY <1>8 DEF Squash, SquashFast, PopSession
  <2>2. CASE Len(undo_stack) = 1
    <3>1. old_values' = {} /\ removed_values' = {}
      BY <1>8, <2>2 DEF Squash, SquashFast
    <3> QED
      BY <2>1, <3>1, ErasedShrinks, PoppedBounded
  <2>3. CASE Len(undo_stack) # 1
    <3>1. Shrinks(old_values, old_values') /\ Shrinks(removed_values, removed_values')
      BY <1>8, <2>3, ErasedShrinks, CompressShrinks DEF Squash, SquashFast
    <3> QED
      BY <2>1, <2>3, <3>1, PoppedBounded
  <2> QED
    BY <2>2, <2>3
<1>9. CASE Undo
  <2> DEFINE due  == {b \in Before(old_values, Top.old_values_end) :
                         b.mtime < Top.ctime}
             left == From(removed_values, Top.removed_values_end)
  <2>1. /\ undo_stack # << >>
        /\ undo_stack' = SubSeq(undo_stack, 1, Len(undo_stack) - 1)
        /\ old_values' = From(old_values, Top.old_values_end)
        /\ removed_values' = WrittenInto(left, due)
    BY <1>9 DEF Undo
  <2>2. /\ left \subseteq removed_values /\ removed_values \subseteq Cell
        /\ due \subseteq Cell
    BY DEF From, Before, Structure, TypeOK
  <2>3. \A n \in left : n.pos <= Top.removed_values_end
    BY DEF From
  <2> HIDE DEF left, due
  <2>4. Shrinks(removed_values, removed_values')
    BY <2>1, <2>2, WrittenShrinks
  <2>5. Shrinks(old_values, old_values')
    BY <2>1, ErasedShrinks DEF From
  <2>6. Len(undo_stack) = 1 => Top = undo_stack[1]
    BY DEF Top
  <2>7. \A c \in removed_values' : c.pos <= Top.removed_values_end
    <3>1. \A n \in left : Overwritten(n, n.id, due).pos = n.pos
      BY <2>2, OverwrittenCell
    <3> QED
      BY <2>1, <2>3, <3>1 DEF WrittenInto
  <2>8. \A c \in old_values' : c.pos <= Top.old_values_end
    BY <2>1 DEF From
  <2> QED
    BY <2>1, <2>4, <2>5, <2>6, <2>7, <2>8, PoppedBounded
<1> QED
  BY <1>1, <1>2, <1>3, <1>4, <1>5, <1>6, <1>7, <1>8, <1>9 DEF Next, Calls

-----------------------------------------------------------------------------
(* The results. *)

\* Every operation keeps the lists and the stack in order.
THEOREM StructureInductive == Structure /\ [Next]_vars => Structure'
<1> SUFFICES ASSUME Structure, [Next]_vars PROVE Structure'
  OBVIOUS
<1>1. CASE \E id \in Ids, v \in Vals : Emplace(id, v)
  BY <1>1, EmplaceStructure
<1>2. CASE \E id \in Ids, v \in Vals : ModifyOk(id, v) \/ ModifyReverted(id, v)
  BY <1>2, ModifyStructure
<1>3. CASE \E id \in Ids : \/ Remove(id)
                           \/ TrackedRemove(id)
                           \/ \E v \in Vals : ModifyErased(id, v)
  BY <1>3, RemoveStructure
<1>4. CASE DropTracker \/ Copy \/ \E r \in 0 .. MaxRevision : SetRevision(r)
  BY <1>4, OtherStructure
<1>5. CASE \E r \in 0 .. MaxRevision : Commit(r)
  BY <1>5, CommitStructure
<1>6. CASE StartUndo
  BY <1>6, StartUndoStructure
<1>7. CASE Undo
  BY <1>7, UndoStructure
<1>8. CASE Squash \/ SquashFast
  BY <1>8, SquashStructure
<1>9. CASE LastUndoSession
  BY <1>9, LastUndoSessionStructure
<1>10. CASE UNCHANGED vars
  BY <1>10
  DEF Structure, vars, TypeOK, HasHead, RevisionRange, EndsAreLive,
      SessionsNest, KeysBelowNextId, OneNodePerKey, From
<1> QED
  BY <1>1, <1>2, <1>3, <1>4, <1>5, <1>6, <1>7, <1>8, <1>9, <1>10
  DEF Next, Calls

\* The lists and the stack are in order in every reachable state.
THEOREM StructureHolds == Spec => []Structure
  BY InitStructure, StructureInductive, PTL DEF Spec

\* All values have their types: revision never becomes negative.
THEOREM TypeOKHolds == Spec => []TypeOK
<1>1. Structure => TypeOK
  BY DEF Structure
<1> QED
  BY <1>1, StructureHolds, PTL

\* No undo is given the address of a cell that is gone from its list, whatever
\* squash, commit and compression did since the session started
\* (undo_multi_index.hpp:564-592).
THEOREM EndsAreLiveHolds == Spec => []EndsAreLive
<1>1. Structure => EndsAreLive
  BY DEF Structure
<1> QED
  BY <1>1, StructureHolds, PTL

\* Sessions own disjoint ranges of the lists, the younger before the older.
THEOREM SessionsNestHolds == Spec => []SessionsNest
<1>1. Structure => SessionsNest
  BY DEF Structure
<1> QED
  BY <1>1, StructureHolds, PTL

\* emplace never hands out a key that a node or a backup still has
\* (undo_multi_index.hpp:387).
THEOREM KeysBelowNextIdHolds == Spec => []KeysBelowNextId
<1>1. Structure => KeysBelowNextId
  BY DEF Structure
<1> QED
  BY <1>1, StructureHolds, PTL

\* A key has one node, in the table, in the list of removed nodes or with a
\* tracker (undo_multi_index.hpp:399).
THEOREM OneNodePerKeyHolds == Spec => []OneNodePerKey
<1>1. Structure => OneNodePerKey
  BY DEF Structure
<1> QED
  BY <1>1, StructureHolds, PTL

\* Of each list one cell at most is left that no session needs, however often
\* sessions were committed in part (undo_multi_index.hpp:536).
THEOREM BoundedLeftoverHolds == Spec => []BoundedLeftover
<1>1. Init => Bounded
  BY DEF Init, Bounded, AtMostOne, OneCellPerPlace, Unowned
<1>2. Structure /\ Bounded /\ [Next]_vars => Bounded'
  BY BoundedNext
<1>3. Bounded => BoundedLeftover
  BY DEF Bounded, BoundedLeftover, AtMostOne, Unowned
<1> QED
  BY <1>1, <1>2, <1>3, StructureHolds, PTL DEF Spec

-----------------------------------------------------------------------------
(* Tables that are put together from nodes and backups. *)

\* The nodes and backups have this value for the row of id.
Shows(held, backups, id, v) ==
    \E x \in held :
        /\ x.id = id
        /\ \/ (\A b \in backups : b.id # id) /\ x.val = v
           \/ \E b \in backups : b.id = id /\ b.val = v

\* A row has one node, and one backup at most.
OneEach(held, backups) ==
    /\ \A x, y \in held : x.id = y.id => x = y
    /\ \A b, c \in backups : b.id = c.id => b = c

\* Nodes and backups of two states show the same.
ShowSame(held, backups, held2, backups2) ==
    /\ \A x \in held : \E y \in held2 : y.id = x.id
    /\ \A y \in held2 : \E x \in held : x.id = y.id
    /\ \A x \in held :
          \E v : /\ Shows(held, backups, x.id, v)
                 /\ Shows(held2, backups2, x.id, v)

\* What is restored is what the nodes and backups show, and nothing else.
LEMMA RestoredShows ==
    ASSUME NEW held, NEW backups, backups \subseteq Cell, OneEach(held, backups),
           NEW id, NEW v, Shows(held, backups, id, v)
    PROVE  Restored(held, backups)[id] = v
<1> DEFINE mine == {b \in backups : b.id = id}
<1>0. PICK x \in held : x.id = id
  BY DEF Shows
<1>1. id \in {y.id : y \in held}
  BY <1>0
<1>2. CASE \E b \in backups : b.id = id
  <2>1. Restored(held, backups)[id] = Oldest(mine).val
    BY <1>1, <1>2 DEF Restored
  <2>2. mine # {} /\ mine \subseteq Cell
    BY <1>2
  <2>3. Oldest(mine) \in mine
    <3> HIDE DEF mine
    <3> QED
      BY <2>2, OldestIsBackup
  <2>4. PICK b \in backups : b.id = id /\ b.val = v
    BY <1>2 DEF Shows
  <2> QED
    BY <2>1, <2>3, <2>4 DEF OneEach
<1>3. CASE \A b \in backups : b.id # id
  <2>1. Restored(held, backups)[id] = (CHOOSE y \in held : y.id = id).val
    BY <1>1, <1>3 DEF Restored
  <2>2. (CHOOSE y \in held : y.id = id) = x
    BY <1>0 DEF OneEach
  <2>3. x.val = v
    BY <1>0, <1>3 DEF Shows, OneEach
  <2> QED
    BY <2>1, <2>2, <2>3
<1> QED
  BY <1>2, <1>3

\* Nodes and backups that show the same restore the same.
LEMMA SameRestored ==
    ASSUME NEW held, NEW backups, backups \subseteq Cell, OneEach(held, backups),
           NEW held2, NEW backups2, backups2 \subseteq Cell,
           OneEach(held2, backups2), ShowSame(held, backups, held2, backups2)
    PROVE  Restored(held, backups) = Restored(held2, backups2)
<1>1. {x.id : x \in held} = {y.id : y \in held2}
  BY DEF ShowSame
<1>2. ASSUME NEW x \in held
      PROVE  Restored(held, backups)[x.id] = Restored(held2, backups2)[x.id]
  <2>1. PICK v : Shows(held, backups, x.id, v) /\ Shows(held2, backups2, x.id, v)
    BY DEF ShowSame
  <2>2. PICK y \in held2 : y.id = x.id
    BY DEF ShowSame
  <2>3. Restored(held, backups)[x.id] = v
    BY <2>1, RestoredShows
  <2>4. Restored(held2, backups2)[y.id] = v
    BY <2>1, <2>2, RestoredShows
  <2> QED
    BY <2>2, <2>3, <2>4
<1>3. \A id \in {x.id : x \in held} :
         Restored(held, backups)[id] = Restored(held2, backups2)[id]
  BY <1>2
<1> QED
  BY <1>1, <1>3 DEF Restored

-----------------------------------------------------------------------------
(* What a session sees. *)

\* The step leaves what session s has promised.
Keeps(s) == Faithful(s)' /\ SavedTable(s)' = SavedTable(s)

\* The nodes of a session are rows and removed nodes.
LEMMA NodesAre ==
    ASSUME NEW s
    PROVE  /\ \A x \in Nodes(s) :
                 \/ x.id \in DOMAIN rows /\ x = Node(x.id, rows[x.id])
                 \/ \E n \in removed_values :
                       n.pos > s.removed_values_end /\ x = Node(n.id, n)
           /\ \A id \in DOMAIN rows : Node(id, rows[id]) \in Nodes(s)
           /\ \A n \in removed_values :
                 n.pos > s.removed_values_end => Node(n.id, n) \in Nodes(s)
<1>1. \A id, row : Node(id, row).id = id
  BY DEF Node
<1>2. Nodes(s) = {Node(id, rows[id]) : id \in DOMAIN rows}
          \cup {Node(n.id, n) :
                 n \in {n \in removed_values : n.pos > s.removed_values_end}}
  BY DEF Nodes, Before
<1> QED
  BY <1>1, <1>2

\* The same, of the next state.
LEMMA NodesAreNext ==
    ASSUME NEW s
    PROVE  /\ \A x \in Nodes(s)' :
                 \/ x.id \in DOMAIN rows' /\ x = Node(x.id, rows'[x.id])
                 \/ \E n \in removed_values' :
                       n.pos > s.removed_values_end /\ x = Node(n.id, n)
           /\ \A id \in DOMAIN rows' : Node(id, rows'[id]) \in Nodes(s)'
           /\ \A n \in removed_values' :
                 n.pos > s.removed_values_end => Node(n.id, n) \in Nodes(s)'
<1>1. \A id, row : Node(id, row).id = id
  BY DEF Node
<1>2. Nodes(s)' = {Node(id, rows'[id]) : id \in DOMAIN rows'}
          \cup {Node(n.id, n) :
                 n \in {n \in removed_values' : n.pos > s.removed_values_end}}
  BY DEF Nodes, Before
<1> QED
  BY <1>1, <1>2

\* What a node is compared by.
LEMMA NodeFields ==
    ASSUME NEW id, NEW row
    PROVE  /\ Node(id, row).id = id
           /\ Node(id, row).val = row.val
           /\ Node(id, row).mtime = row.mtime
  BY DEF Node

\* A session's numbers, and where it stands.
LEMMA SessionStands ==
    ASSUME Structure, NEW i \in 1 .. Len(undo_stack), NEW s, s = undo_stack[i]
    PROVE  /\ s.old_values_end \in Nat /\ s.removed_values_end \in Nat
           /\ s.old_next_id \in Nat /\ s.ctime \in Nat
           /\ next_id \in Nat /\ s.old_next_id <= next_id
           /\ monotonic_revision \in Nat /\ s.ctime <= monotonic_revision
           /\ Begin(old_values) \in Nat /\ s.old_values_end <= Begin(old_values)
           /\ Begin(removed_values) \in Nat
           /\ s.removed_values_end <= Begin(removed_values)
<1> USE DEF Structure
<1>1. /\ s.old_values_end \in Nat /\ s.removed_values_end \in Nat
      /\ s.old_next_id \in Nat /\ s.ctime \in Nat
  BY Session
<1>2. next_id \in Nat /\ monotonic_revision \in Nat
  BY ConstantsAssumption DEF TypeOK
<1>3. s.old_next_id <= next_id /\ s.ctime <= monotonic_revision
  BY DEF KeysBelowNextId, SessionsNest
<1>4. /\ Begin(old_values) \in Nat
      /\ \A c \in old_values : c.pos <= Begin(old_values)
      /\ Begin(removed_values) \in Nat
      /\ \A c \in removed_values : c.pos <= Begin(removed_values)
  BY BeginIsHead DEF TypeOK
<1>5. /\ s.old_values_end \in {0} \cup {c.pos : c \in old_values}
      /\ s.removed_values_end \in {0} \cup {c.pos : c \in removed_values}
  BY DEF EndsAreLive
<1> QED
  BY <1>1, <1>2, <1>3, <1>4, <1>5

\* The types of what a session sees, now and after a step.
LEMMA ViewTypes ==
    ASSUME TypeOK, NEW s
    PROVE  /\ Effective(s) \subseteq Cell /\ Effective(s) \subseteq old_values
           /\ \A x \in Nodes(s) : x.id \in Nat /\ x.val \in Vals /\ x.mtime \in Nat
           /\ Held(s) \subseteq Nodes(s)
           /\ \A x \in Held(s) : x.id < s.old_next_id
<1>1. \A id \in DOMAIN rows : id \in Nat /\ rows[id] \in Row
  BY Keys DEF TypeOK
<1>2. \A n \in removed_values : n.id \in Nat /\ n.val \in Vals /\ n.mtime \in Nat
  BY Keys DEF TypeOK, Cell
<1>3. \A x \in Nodes(s) : x.id \in Nat /\ x.val \in Vals /\ x.mtime \in Nat
  BY <1>1, <1>2, NodesAre, NodeFields DEF Row
<1> QED
  BY <1>3 DEF Effective, Before, Held, TypeOK

\* The backups a session uses in the next state are cells.
LEMMA EffectiveNext ==
    ASSUME TypeOK', NEW s
    PROVE  Effective(s)' \subseteq Cell
  BY DEF Effective, Before, TypeOK

\* A row that a session sees has one node.
LEMMA OneNode ==
    ASSUME Structure, NEW s
    PROVE  \A x, y \in Nodes(s) : x.id = y.id => x = y
  BY NodesAre, NodeFields DEF Structure, OneNodePerKey

\* Nodes and backups that are the same show the same.
LEMMA SameView ==
    ASSUME NEW s, Faithful(s), Held(s)' = Held(s),
           Before(old_values', s.old_values_end)
              = Before(old_values, s.old_values_end),
           reverted \subseteq reverted',
           \A x \in Nodes(s)' : x.id >= s.old_next_id => x.mtime >= s.ctime
    PROVE  Keeps(s)
<1>1. Effective(s)' = Effective(s)
  BY DEF Effective
<1>2. SavedTable(s)' = SavedTable(s)
  BY <1>1 DEF SavedTable
<1>3. Faithful(s)'
  BY <1>1 DEF Faithful
<1> QED
  BY <1>2, <1>3 DEF Keeps

\* Where nodes and backups change, they have to show the same again.
LEMMA OtherView ==
    ASSUME TypeOK, TypeOK', NEW s, Faithful(s), Faithful(s)',
           ShowSame(Held(s), Effective(s), Held(s)', Effective(s)')
    PROVE  Keeps(s)
<1> DEFINE held     == Held(s)
           backups  == Effective(s)
           held2    == Held(s)'
           backups2 == Effective(s)'
<1>1. OneEach(held, backups) /\ OneEach(held2, backups2)
  BY DEF Faithful, OneEach
<1>2. backups \subseteq Cell /\ backups2 \subseteq Cell
  BY ViewTypes, EffectiveNext
<1>3. ShowSame(held, backups, held2, backups2)
  OBVIOUS
<1>4. Restored(held, backups) = Restored(held2, backups2)
  <2> HIDE DEF held, backups, held2, backups2
  <2> QED
    BY ONLY <1>1, <1>2, <1>3, SameRestored
<1> QED
  BY <1>4 DEF Keeps, SavedTable

-----------------------------------------------------------------------------
(* Operations on rows. *)

\* emplace: the new row is nobody's yet, and stamped as such.
LEMMA EmplaceKeeps ==
    ASSUME Structure, NEW id \in Ids, NEW v \in Vals, Emplace(id, v),
           reverted' = reverted,
           NEW i \in 1 .. Len(undo_stack), NEW s, s = undo_stack[i], Faithful(s)
    PROVE  Keeps(s)
<1>1. /\ s.old_next_id \in Nat /\ s.ctime <= monotonic_revision
      /\ next_id \in Nat /\ s.old_next_id <= next_id
  BY SessionStands
<1>2. undo_stack # << >>
  BY Session DEF Structure
<1>3. /\ UNCHANGED <<old_values, removed_values>>
      /\ id >= next_id
      /\ DOMAIN rows' = DOMAIN rows \cup {id}
      /\ \A k \in DOMAIN rows : k # id => rows'[k] = rows[k]
      /\ rows'[id].mtime = monotonic_revision
  BY <1>2 DEF Emplace, Stamp
<1>4. id \in Nat /\ id \notin DOMAIN rows /\ id >= s.old_next_id
  BY <1>1, <1>3, Keys DEF Structure, KeysBelowNextId, TypeOK
<1>5. Nodes(s)' = Nodes(s) \cup {Node(id, rows'[id])}
  <2>1. \A x \in Nodes(s)' : x \in Nodes(s) \/ x = Node(id, rows'[id])
    BY <1>3, NodesAre, NodesAreNext
  <2>2. \A x \in Nodes(s) : x \in Nodes(s)'
    BY <1>3, <1>4, NodesAre, NodesAreNext
  <2>3. Node(id, rows'[id]) \in Nodes(s)'
    BY <1>3, NodesAreNext
  <2> QED
    BY <2>1, <2>2, <2>3
<1>6. Held(s)' = Held(s)
  BY <1>1, <1>4, <1>5, NodeFields DEF Held
<1>7. \A x \in Nodes(s)' : x.id >= s.old_next_id => x.mtime >= s.ctime
  BY <1>1, <1>3, <1>5, NodeFields DEF Faithful
<1> QED
  BY <1>3, <1>6, <1>7, SameView DEF Before

\* A row leaves the table: its node stays in sight of the sessions that it is
\* older than.
LEMMA RemovedKeeps ==
    ASSUME Structure, NEW id \in DOMAIN rows, rows' = Without(id),
           \/ removed_values' = PushFront(removed_values, id, rows[id])
           \/ removed_values' = removed_values /\ id >= Top.old_next_id,
           old_values' = old_values, reverted' = reverted,
           NEW i \in 1 .. Len(undo_stack), NEW s, s = undo_stack[i], Faithful(s)
    PROVE  Keeps(s)
<1>1. /\ s.old_next_id \in Nat /\ s.removed_values_end \in Nat
      /\ Begin(removed_values) \in Nat
      /\ s.removed_values_end <= Begin(removed_values)
  BY SessionStands
<1>2. undo_stack # << >>
  BY Session DEF Structure
<1>3. s.old_next_id <= Top.old_next_id /\ Top.old_next_id \in Nat
  BY <1>2, TopSession
<1>4. /\ DOMAIN rows' = DOMAIN rows \ {id}
      /\ \A k \in DOMAIN rows : k # id => rows'[k] = rows[k]
  BY DEF Without
<1>5. id \in Nat
  BY Keys DEF Structure, TypeOK
<1>6. \A x \in Nodes(s)' : x \in Nodes(s)
  <2> SUFFICES ASSUME NEW x \in Nodes(s)' PROVE x \in Nodes(s)
    OBVIOUS
  <2>1. CASE x.id \in DOMAIN rows' /\ x = Node(x.id, rows'[x.id])
    BY <1>4, <2>1, NodesAre
  <2>2. CASE \E n \in removed_values' :
                n.pos > s.removed_values_end /\ x = Node(n.id, n)
    <3>1. PICK n \in removed_values' :
             n.pos > s.removed_values_end /\ x = Node(n.id, n)
      BY <2>2
    <3>2. CASE n \in removed_values
      BY <3>1, <3>2, NodesAre
    <3>3. CASE n \notin removed_values
      <4>1. n = [pos |-> Begin(removed_values) + 1, id |-> id,
                 val |-> rows[id].val, mtime |-> rows[id].mtime]
        BY <3>3 DEF PushFront
      <4>2. x = Node(id, rows[id])
        BY <3>1, <4>1 DEF Node
      <4> QED
        BY <4>2, NodesAre
    <3> QED
      BY <3>2, <3>3
  <2> QED
    BY <2>1, <2>2, NodesAreNext
<1>7. \A x \in Nodes(s) : x \in Nodes(s)' \/ x.id >= s.old_next_id
  <2>1. \A n \in removed_values : n \in removed_values'
    BY DEF PushFront
  <2>2. ASSUME NEW x \in Nodes(s), x.id = id, x = Node(id, rows[id])
        PROVE  x \in Nodes(s)' \/ x.id >= s.old_next_id
    <3>1. CASE removed_values' = removed_values /\ id >= Top.old_next_id
      BY <1>1, <1>3, <1>5, <2>2, <3>1
    <3>2. CASE removed_values' = PushFront(removed_values, id, rows[id])
      <4> DEFINE n == [pos |-> Begin(removed_values) + 1, id |-> id,
                       val |-> rows[id].val, mtime |-> rows[id].mtime]
      <4>1. n \in removed_values' /\ n.pos > s.removed_values_end
        BY <1>1, <3>2 DEF PushFront
      <4>2. x = Node(n.id, n)
        BY <2>2 DEF Node
      <4> HIDE DEF n
      <4> QED
        BY <4>1, <4>2, NodesAreNext
    <3> QED
      BY <3>1, <3>2
  <2>3. ASSUME NEW x \in Nodes(s), x.id \in DOMAIN rows \ {id},
               x = Node(x.id, rows[x.id])
        PROVE  x \in Nodes(s)'
    BY <1>4, <2>3, NodesAreNext
  <2> QED
    BY <2>1, <2>2, <2>3, NodesAre, NodesAreNext
<1>8. Held(s)' = Held(s)
  <2>1. Held(s)' = {x \in Nodes(s)' : x.id < s.old_next_id}
    BY DEF Held
  <2>2. \A x \in Nodes(s) : x.id \in Nat
    BY ViewTypes DEF Structure
  <2> QED
    BY <1>1, <1>6, <1>7, <2>1, <2>2 DEF Held
<1>9. \A x \in Nodes(s)' : x.id >= s.old_next_id => x.mtime >= s.ctime
  BY <1>6 DEF Faithful
<1> QED
  BY <1>8, <1>9, SameView DEF Before

\* A row is written: of what a session sees one node changes.
LEMMA WrittenNodes ==
    ASSUME Structure, NEW id \in DOMAIN rows,
           DOMAIN rows' = DOMAIN rows,
           \A k \in DOMAIN rows : k # id => rows'[k] = rows[k],
           removed_values' = removed_values, NEW s
    PROVE  /\ Node(id, rows[id]) \in Nodes(s)
           /\ Node(id, rows'[id]) \in Nodes(s)'
           /\ \A x \in Nodes(s) :
                 /\ x.id = id => x = Node(id, rows[id])
                 /\ x.id # id => x \in Nodes(s)'
           /\ \A x \in Nodes(s)' :
                 /\ x.id = id => x = Node(id, rows'[id])
                 /\ x.id # id => x \in Nodes(s)
<1>1. \A n \in removed_values : n.id # id
  BY DEF Structure, OneNodePerKey
<1>2. ASSUME NEW x \in Nodes(s)
      PROVE  /\ x.id = id => x = Node(id, rows[id])
             /\ x.id # id => x \in Nodes(s)'
  BY <1>1, NodesAre, NodesAreNext, NodeFields
<1>3. ASSUME NEW x \in Nodes(s)'
      PROVE  /\ x.id = id => x = Node(id, rows'[id])
             /\ x.id # id => x \in Nodes(s)
  BY <1>1, NodesAre, NodesAreNext, NodeFields
<1> QED
  BY <1>2, <1>3, NodesAre, NodesAreNext

\* The row was stamped since the session started, or its value is the same: the
\* session needs no backup.
LEMMA WrittenAgainKeeps ==
    ASSUME Structure, TypeOK', NEW id \in DOMAIN rows,
           DOMAIN rows' = DOMAIN rows,
           \A k \in DOMAIN rows : k # id => rows'[k] = rows[k],
           UNCHANGED removed_values, reverted \subseteq reverted',
           NEW i \in 1 .. Len(undo_stack), NEW s, s = undo_stack[i], Faithful(s),
           rows'[id].mtime >= s.ctime,
           \/ /\ old_values' \in {old_values, PushFront(old_values, id, rows[id])}
              /\ rows[id].mtime >= s.ctime /\ id \notin reverted
           \/ /\ old_values' = old_values
              /\ rows'[id].val = rows[id].val /\ id \in reverted'
    PROVE  Keeps(s)
<1> DEFINE held == Held(s)
           held2 == Held(s)'
           backups == Effective(s)
           old == Node(id, rows[id])
           new == Node(id, rows'[id])
           pushed == [pos |-> Begin(old_values) + 1, id |-> id,
                      val |-> rows[id].val, mtime |-> rows[id].mtime]
<1>1. /\ s.old_next_id \in Nat /\ s.ctime \in Nat
      /\ s.old_values_end \in Nat /\ Begin(old_values) \in Nat
      /\ \A b \in old_values : b.pos <= Begin(old_values)
      /\ id \in Nat /\ rows[id].mtime \in Nat
  <2>1. id \in Nat /\ rows[id].mtime \in Nat
    BY Keys DEF Structure, TypeOK, Row
  <2>2. \A b \in old_values : b.pos <= Begin(old_values)
    BY BeginIsHead DEF Structure, TypeOK
  <2> QED
    BY <2>1, <2>2, SessionStands
<1>2. /\ old \in Nodes(s) /\ new \in Nodes(s)'
      /\ old.id = id /\ new.id = id
      /\ new.mtime = rows'[id].mtime /\ old.mtime = rows[id].mtime
      /\ \A x \in Nodes(s) : (x.id = id => x = old) /\ (x.id # id => x \in Nodes(s)')
      /\ \A x \in Nodes(s)' : (x.id = id => x = new) /\ (x.id # id => x \in Nodes(s))
  BY WrittenNodes, NodeFields
<1> HIDE DEF old, new
<1>3. /\ \A x \in held : (x.id = id => x = old /\ new \in held2)
                         /\ (x.id # id => x \in held2)
      /\ \A x \in held2 : (x.id = id => x = new /\ old \in held)
                          /\ (x.id # id => x \in held)
  BY <1>2 DEF Held
<1>4. /\ \A b \in old_values : b \in old_values'
      /\ \A b \in old_values' :
            \/ b \in old_values
            \/ b = pushed /\ id \notin reverted /\ pushed.mtime >= s.ctime
  <2>1. PushFront(old_values, id, rows[id]) = old_values \cup {pushed}
    BY DEF PushFront
  <2>2. pushed.mtime = rows[id].mtime
    OBVIOUS
  <2> HIDE DEF pushed
  <2>3. CASE old_values' = old_values
    BY <2>3
  <2>4. CASE /\ old_values' = PushFront(old_values, id, rows[id])
             /\ rows[id].mtime >= s.ctime /\ id \notin reverted
    BY <2>1, <2>2, <2>4
  <2> QED
    BY <2>3, <2>4
<1>5. Effective(s)' = backups
  <2>1. \A b \in Effective(s)' : b \in backups
    BY <1>1, <1>4 DEF Effective, Before
  <2>2. \A b \in backups : b \in Effective(s)'
    BY <1>4 DEF Effective, Before
  <2> QED
    BY <2>1, <2>2
<1>6. id < s.old_next_id /\ id \notin reverted' =>
         \E c \in backups : c.id = id
  <2> SUFFICES ASSUME id < s.old_next_id, id \notin reverted'
               PROVE  \E c \in backups : c.id = id
    OBVIOUS
  <2>1. old \in held /\ old.mtime >= s.ctime
    BY <1>2 DEF Held
  <2> QED
    BY <1>2, <2>1 DEF Faithful
<1>7. Faithful(s)'
  <2>1. \A x, y \in held2 : x.id = y.id => x = y
    BY <1>3 DEF Faithful
  <2>2. \A b, c \in backups : b.id = c.id => b = c
    BY DEF Faithful
  <2>3. \A b \in backups : \E x \in held2 : x.id = b.id /\ x.mtime >= s.ctime
    <3> SUFFICES ASSUME NEW b \in backups
                 PROVE  \E x \in held2 : x.id = b.id /\ x.mtime >= s.ctime
      OBVIOUS
    <3>1. PICK x \in held : x.id = b.id /\ x.mtime >= s.ctime
      BY DEF Faithful
    <3>2. CASE x.id = id
      BY <1>2, <1>3, <3>1, <3>2
    <3>3. CASE x.id # id
      BY <1>3, <3>1, <3>3
    <3> QED
      BY <3>2, <3>3
  <2>4. \A x \in held2 : x.mtime >= s.ctime =>
           x.id \in reverted' \/ \E b \in backups : b.id = x.id
    <3> SUFFICES ASSUME NEW x \in held2, x.mtime >= s.ctime, x.id \notin reverted'
                 PROVE  \E b \in backups : b.id = x.id
      OBVIOUS
    <3>1. CASE x.id = id
      <4>1. id < s.old_next_id
        BY <3>1 DEF Held
      <4> QED
        BY <1>6, <3>1, <4>1
    <3>2. CASE x.id # id
      BY <1>3, <3>2 DEF Faithful
    <3> QED
      BY <3>1, <3>2
  <2>5. \A b \in Before(old_values', s.old_values_end) :
           b.mtime >= s.ctime /\ b.id < s.old_next_id =>
              \E c \in backups : c.id = b.id /\ c.pos < b.pos
    <3> SUFFICES ASSUME NEW b \in old_values', b.pos > s.old_values_end,
                        b.mtime >= s.ctime, b.id < s.old_next_id
                 PROVE  \E c \in backups : c.id = b.id /\ c.pos < b.pos
      BY DEF Before
    <3>1. CASE b \in old_values
      BY <3>1 DEF Faithful, Before
    <3>2. CASE b = pushed /\ id \notin reverted /\ pushed.mtime >= s.ctime
      <4>1. old \in held /\ old.mtime >= s.ctime
        BY <1>2, <3>2 DEF Held
      <4>2. PICK c \in backups : c.id = id
        BY <1>2, <3>2, <4>1 DEF Faithful
      <4>3. c \in old_values /\ c.pos \in Nat
        BY <4>2 DEF Effective, Before, Structure, TypeOK, Cell
      <4> QED
        BY <1>1, <3>2, <4>2, <4>3
    <3> QED
      BY <1>4, <3>1, <3>2
  <2>6. \A x \in Nodes(s)' : x.id >= s.old_next_id => x.mtime >= s.ctime
    BY <1>2 DEF Faithful
  <2> QED
    BY <1>5, <2>1, <2>2, <2>3, <2>4, <2>5, <2>6 DEF Faithful
<1>8. ShowSame(held, backups, held2, backups)
  <2>1. \A x \in held : \E y \in held2 : y.id = x.id
    BY <1>2, <1>3
  <2>2. \A y \in held2 : \E x \in held : x.id = y.id
    BY <1>2, <1>3
  <2>3. ASSUME NEW x \in held
        PROVE  \E v : Shows(held, backups, x.id, v) /\ Shows(held2, backups, x.id, v)
    <3>1. CASE \E b \in backups : b.id = x.id
      BY <2>1, <3>1 DEF Shows
    <3>2. CASE \A b \in backups : b.id # x.id
      <4>1. CASE x.id # id
        BY <1>3, <3>2, <4>1 DEF Shows
      <4>2. CASE x.id = id
        <5>1. id < s.old_next_id /\ x = old /\ new \in held2
          BY <1>3, <4>2 DEF Held
        <5>2. id \in reverted'
          BY <1>6, <3>2, <4>2, <5>1
        <5>3. rows'[id].val = rows[id].val
          <6>1. CASE rows[id].mtime >= s.ctime /\ id \notin reverted
            BY <1>2, <3>2, <4>2, <5>1, <6>1 DEF Faithful
          <6> QED
            BY <6>1
        <5>4. new.val = x.val
          BY <5>1, <5>3, NodeFields DEF old, new
        <5> QED
          BY <1>2, <3>2, <4>2, <5>1, <5>4 DEF Shows
      <4> QED
        BY <4>1, <4>2
    <3> QED
      BY <3>1, <3>2
  <2> QED
    BY <2>1, <2>2, <2>3 DEF ShowSame
<1> QED
  BY <1>5, <1>7, <1>8, OtherView DEF Structure

\* The row was last stamped before the session started: the first backup of it
\* that the session gets holds what the node has held.
LEMMA WrittenFirstKeeps ==
    ASSUME Structure, TypeOK', NEW id \in DOMAIN rows,
           DOMAIN rows' = DOMAIN rows,
           \A k \in DOMAIN rows : k # id => rows'[k] = rows[k],
           UNCHANGED <<removed_values, reverted>>,
           old_values' = PushFront(old_values, id, rows[id]),
           NEW i \in 1 .. Len(undo_stack), NEW s, s = undo_stack[i], Faithful(s),
           rows'[id].mtime >= s.ctime, rows[id].mtime < s.ctime
    PROVE  Keeps(s)
<1> DEFINE held == Held(s)
           held2 == Held(s)'
           backups == Effective(s)
           backups2 == Effective(s)'
           old == Node(id, rows[id])
           new == Node(id, rows'[id])
           pushed == [pos |-> Begin(old_values) + 1, id |-> id,
                      val |-> rows[id].val, mtime |-> rows[id].mtime]
<1>1. /\ s.old_next_id \in Nat /\ s.ctime \in Nat
      /\ s.old_values_end \in Nat /\ Begin(old_values) \in Nat
      /\ s.old_values_end <= Begin(old_values)
      /\ id \in Nat /\ rows[id].mtime \in Nat
  <2>1. id \in Nat /\ rows[id].mtime \in Nat
    BY Keys DEF Structure, TypeOK, Row
  <2> QED
    BY <2>1, SessionStands
<1>2. /\ old \in Nodes(s) /\ new \in Nodes(s)'
      /\ old.id = id /\ new.id = id
      /\ new.mtime = rows'[id].mtime /\ old.mtime = rows[id].mtime
      /\ old.val = rows[id].val
      /\ \A x \in Nodes(s) : (x.id = id => x = old) /\ (x.id # id => x \in Nodes(s)')
      /\ \A x \in Nodes(s)' : (x.id = id => x = new) /\ (x.id # id => x \in Nodes(s))
  BY WrittenNodes, NodeFields
<1>3. /\ old_values' = old_values \cup {pushed}
      /\ pushed.id = id /\ pushed.val = rows[id].val
      /\ pushed.mtime = rows[id].mtime /\ pushed.pos = Begin(old_values) + 1
  BY DEF PushFront
<1> HIDE DEF old, new, pushed
<1>4. id < s.old_next_id /\ old \in held /\ new \in held2
  <2>1. ~ (id >= s.old_next_id)
    BY <1>1, <1>2 DEF Faithful
  <2> QED
    BY <1>1, <1>2, <2>1 DEF Held
<1>5. /\ \A x \in held : (x.id = id => x = old) /\ (x.id # id => x \in held2)
      /\ \A x \in held2 : (x.id = id => x = new) /\ (x.id # id => x \in held)
  BY <1>2 DEF Held
<1>6. backups2 = backups \cup {pushed}
  <2>1. \A b \in backups2 : b \in backups \/ b = pushed
    BY <1>3 DEF Effective, Before
  <2>2. \A b \in backups : b \in backups2
    BY <1>3 DEF Effective, Before
  <2>3. pushed \in backups2
    BY <1>1, <1>3 DEF Effective, Before
  <2> QED
    BY <2>1, <2>2, <2>3
<1>7. \A b \in backups : b.id # id
  <2> SUFFICES ASSUME NEW b \in backups, b.id = id PROVE FALSE
    OBVIOUS
  <2>1. PICK x \in held : x.id = id /\ x.mtime >= s.ctime
    BY DEF Faithful
  <2> QED
    BY <1>1, <1>2, <1>5, <2>1
<1>8. Faithful(s)'
  <2>1. \A x, y \in held2 : x.id = y.id => x = y
    BY <1>5 DEF Faithful
  <2>2. \A b, c \in backups2 : b.id = c.id => b = c
    BY <1>3, <1>6, <1>7 DEF Faithful
  <2>3. \A b \in backups2 : \E x \in held2 : x.id = b.id /\ x.mtime >= s.ctime
    <3> SUFFICES ASSUME NEW b \in backups2
                 PROVE  \E x \in held2 : x.id = b.id /\ x.mtime >= s.ctime
      OBVIOUS
    <3>1. CASE b \in backups
      <4>1. PICK x \in held : x.id = b.id /\ x.mtime >= s.ctime
        BY <3>1 DEF Faithful
      <4> QED
        BY <1>5, <1>7, <3>1, <4>1
    <3>2. CASE b = pushed
      BY <1>2, <1>3, <1>4, <3>2
    <3> QED
      BY <1>6, <3>1, <3>2
  <2>4. \A x \in held2 : x.mtime >= s.ctime =>
           x.id \in reverted \/ \E b \in backups2 : b.id = x.id
    BY <1>3, <1>5, <1>6 DEF Faithful
  <2>5. \A b \in Before(old_values', s.old_values_end) :
           b.mtime >= s.ctime /\ b.id < s.old_next_id =>
              \E c \in backups2 : c.id = b.id /\ c.pos < b.pos
    <3> SUFFICES ASSUME NEW b \in old_values', b.pos > s.old_values_end,
                        b.mtime >= s.ctime, b.id < s.old_next_id
                 PROVE  \E c \in backups2 : c.id = b.id /\ c.pos < b.pos
      BY DEF Before
    <3>1. b \in old_values
      BY <1>1, <1>3
    <3> QED
      BY <1>6, <3>1 DEF Faithful, Before
  <2>6. \A x \in Nodes(s)' : x.id >= s.old_next_id => x.mtime >= s.ctime
    BY <1>2 DEF Faithful
  <2> QED
    BY <2>1, <2>2, <2>3, <2>4, <2>5, <2>6 DEF Faithful
<1>9. ShowSame(held, backups, held2, backups2)
  <2>1. \A x \in held : \E y \in held2 : y.id = x.id
    BY <1>2, <1>4, <1>5
  <2>2. \A y \in held2 : \E x \in held : x.id = y.id
    BY <1>2, <1>4, <1>5
  <2>3. ASSUME NEW x \in held
        PROVE  \E v : Shows(held, backups, x.id, v) /\ Shows(held2, backups2, x.id, v)
    <3>1. CASE x.id # id
      <4>1. \A b \in backups2 : b.id = x.id => b \in backups
        BY <1>3, <1>6, <3>1
      <4>2. x \in held2
        BY <1>5, <3>1
      <4> QED
        BY <1>6, <4>1, <4>2 DEF Shows
    <3>2. CASE x.id = id
      <4>1. Shows(held, backups, id, rows[id].val)
        BY <1>2, <1>4, <1>7 DEF Shows
      <4>2. Shows(held2, backups2, id, rows[id].val)
        BY <1>2, <1>3, <1>4, <1>6 DEF Shows
      <4> QED
        BY <3>2, <4>1, <4>2
    <3> QED
      BY <3>1, <3>2
  <2> QED
    BY <2>1, <2>2, <2>3 DEF ShowSame
<1> QED
  BY <1>8, <1>9, OtherView DEF Structure

\* modify, its value kept or reverted.
LEMMA ModifyKeeps ==
    ASSUME Structure, Structure', ~ RiskyConflicts, NEW id \in Ids, NEW v \in Vals,
           \/ ModifyOk(id, v) /\ reverted' = reverted
           \/ ModifyReverted(id, v),
           NEW i \in 1 .. Len(undo_stack), NEW s, s = undo_stack[i], Faithful(s)
    PROVE  Keeps(s)
<1>1. /\ s.ctime \in Nat /\ s.ctime <= monotonic_revision
      /\ monotonic_revision \in Nat
  BY SessionStands
<1>2. undo_stack # << >> /\ Len(undo_stack) \in 1 .. Len(undo_stack)
  BY Session DEF Structure
<1>3. s.ctime <= Top.ctime /\ Top.ctime \in Nat
  <2>1. i = Len(undo_stack) \/ i < Len(undo_stack)
    BY Session DEF Structure
  <2> QED
    BY <1>1, <1>2, <2>1, Session DEF Top, Structure, SessionsNest
<1>4. /\ id \in DOMAIN rows /\ rows[id].mtime \in Nat
      /\ DOMAIN rows' = DOMAIN rows
      /\ \A k \in DOMAIN rows : k # id => rows'[k] = rows[k]
      /\ UNCHANGED removed_values
      /\ reverted \subseteq reverted'
      /\ TypeOK'
  BY DEF ModifyOk, ModifyReverted, Structure, TypeOK, Row
<1>5. CASE ModifyOk(id, v) /\ reverted' = reverted
  <2>1. /\ id \notin reverted
        /\ rows'[id].mtime = IF NeedsBackup(id) THEN monotonic_revision
                             ELSE rows[id].mtime
        /\ old_values' = IF NeedsBackup(id)
                         THEN PushFront(old_values, id, rows[id]) ELSE old_values
    BY <1>5 DEF ModifyOk, MayModify, Stamp
  <2>2. ~ NeedsBackup(id) => rows[id].mtime >= s.ctime
    BY <1>1, <1>2, <1>3, <1>4 DEF NeedsBackup
  <2>3. rows'[id].mtime >= s.ctime
    BY <1>1, <2>1, <2>2
  <2>4. CASE rows[id].mtime >= s.ctime
    BY <1>4, <2>1, <2>3, <2>4, WrittenAgainKeeps
  <2>5. CASE rows[id].mtime < s.ctime
    <3>1. NeedsBackup(id)
      BY <1>1, <1>4, <2>2, <2>5
    <3> QED
      BY <1>4, <1>5, <2>1, <2>3, <2>5, <3>1, WrittenFirstKeeps
  <2> QED
    BY <1>1, <1>4, <2>4, <2>5
<1>6. CASE ModifyReverted(id, v)
  <2>1. /\ rows'[id].mtime = monotonic_revision
        /\ rows'[id].val = rows[id].val
        /\ old_values' = old_values
        /\ id \in reverted'
    BY <1>4, <1>6 DEF ModifyReverted, Stamp, Structure, TypeOK, Row
  <2> QED
    BY <1>1, <1>4, <2>1, WrittenAgainKeeps
<1> QED
  BY <1>5, <1>6

-----------------------------------------------------------------------------
(* Backups that move into the nodes: undo and compression. *)

\* Node x becomes y when the backups of moved are written into the nodes.
Becomes(x, y, moved) ==
    /\ y.id = x.id
    /\ \/ (\A b \in moved : b.id # x.id) /\ y = x
       \/ \E b \in moved : b.id = x.id /\ y.val = b.val /\ y.mtime = b.mtime

\* Of the backups that are dropped, session s has needed those that move into
\* their nodes at most, and no backup before one of them is left.
LEMMA MovedKeeps ==
    ASSUME Structure, Structure', reverted' = reverted, NEW s, Faithful(s),
           s.ctime \in Nat, s.old_next_id \in Nat,
           NEW moved, NEW dropped, moved \subseteq old_values, moved \subseteq dropped,
           old_values' = old_values \ dropped,
           \A b \in moved : b.pos > s.old_values_end,
           \A b, c \in moved : b.id = c.id => b = c,
           \A b \in dropped : b \in Effective(s) => b \in moved,
           \A c \in moved, b \in old_values' : b.id = c.id => ~ (c.pos < b.pos),
           \A x \in Held(s) : \E y \in Nodes(s)' : Becomes(x, y, moved),
           \A y \in Nodes(s)' : \E x \in Nodes(s) : Becomes(x, y, moved)
    PROVE  Keeps(s)
<1> DEFINE held == Held(s)
           held2 == Held(s)'
           backups == Effective(s)
           backups2 == Effective(s)'
<1>1. backups2 = backups \ moved
  BY DEF Effective, Before
<1>2. /\ \A x \in held : x \in Nodes(s) /\ x.id < s.old_next_id
      /\ \A x \in Nodes(s) : x.id < s.old_next_id => x \in held
      /\ \A y \in held2 : y \in Nodes(s)' /\ y.id < s.old_next_id
      /\ \A y \in Nodes(s)' : y.id < s.old_next_id => y \in held2
  BY DEF Held
<1>3. \A x \in held : \E y \in held2 : Becomes(x, y, moved)
  BY <1>2 DEF Becomes
<1>4. \A y \in held2 : \E x \in held : Becomes(x, y, moved)
  BY <1>2 DEF Becomes
<1>5. \A c \in moved : c.mtime \in Nat /\ c.pos \in Nat /\ c.id \in Nat
  BY Keys DEF Structure, TypeOK, Cell
<1>6. \A c \in moved : c.mtime < s.ctime => c \in backups
  BY DEF Effective, Before
<1>7. ASSUME NEW c \in moved, c.mtime >= s.ctime, c.id < s.old_next_id
      PROVE  \E e \in backups2 : e.id = c.id
  <2>1. PICK e \in backups : e.id = c.id /\ e.pos < c.pos
    BY <1>7 DEF Faithful, Before
  <2>2. e \notin moved
    BY <1>5, <2>1
  <2> QED
    BY <1>1, <2>1, <2>2
<1>8. \A x, y \in held2 : x.id = y.id => x = y
  <2>1. \A x, y \in Nodes(s)' : x.id = y.id => x = y
    BY NodesAreNext, NodeFields DEF Structure, OneNodePerKey
  <2> QED
    BY <1>2, <2>1
<1>9. Faithful(s)'
  <2>1. \A b, c \in backups2 : b.id = c.id => b = c
    BY <1>1 DEF Faithful
  <2>2. ASSUME NEW b \in backups2
        PROVE  \E y \in held2 : y.id = b.id /\ y.mtime >= s.ctime
    <3>1. PICK x \in held : x.id = b.id /\ x.mtime >= s.ctime
      BY <1>1 DEF Faithful
    <3>2. PICK y \in held2 : Becomes(x, y, moved)
      BY <1>3
    <3>3. ASSUME NEW c \in moved, c.id = b.id
          PROVE  c.mtime >= s.ctime
      <4>1. c \notin backups
        BY <1>1, <3>3 DEF Faithful
      <4> QED
        BY <1>5, <1>6, <4>1
    <3> QED
      BY <3>1, <3>2, <3>3 DEF Becomes
  <2>3. ASSUME NEW y \in held2, y.mtime >= s.ctime
        PROVE  y.id \in reverted \/ \E b \in backups2 : b.id = y.id
    <3>1. PICK x \in held : Becomes(x, y, moved)
      BY <1>4
    <3>2. CASE (\A b \in moved : b.id # x.id) /\ y = x
      BY <1>1, <2>3, <3>2 DEF Faithful
    <3>3. CASE \E b \in moved : b.id = x.id /\ y.mtime = b.mtime
      BY <1>2, <1>7, <2>3, <3>1, <3>3 DEF Becomes
    <3> QED
      BY <3>1, <3>2, <3>3 DEF Becomes
  <2>4. ASSUME NEW b \in Before(old_values', s.old_values_end),
               b.mtime >= s.ctime, b.id < s.old_next_id
        PROVE  \E c \in backups2 : c.id = b.id /\ c.pos < b.pos
    <3>1. b \in old_values' /\ b \in Before(old_values, s.old_values_end)
      BY DEF Before
    <3>2. PICK c \in backups : c.id = b.id /\ c.pos < b.pos
      BY <2>4, <3>1 DEF Faithful
    <3> QED
      BY <1>1, <3>1, <3>2
  <2>5. ASSUME NEW y \in Nodes(s)', y.id >= s.old_next_id
        PROVE  y.mtime >= s.ctime
    <3>1. PICK x \in Nodes(s) : Becomes(x, y, moved)
      OBVIOUS
    <3>2. CASE (\A b \in moved : b.id # x.id) /\ y = x
      BY <2>5, <3>2 DEF Faithful
    <3>3. CASE \E b \in moved : b.id = x.id /\ y.mtime = b.mtime
      <4>1. PICK c \in moved : c.id = x.id /\ y.mtime = c.mtime
        BY <3>3
      <4>2. c.id >= s.old_next_id
        BY <2>5, <3>1, <4>1 DEF Becomes
      <4>3. c \notin backups
        BY <1>2, <1>5, <4>2 DEF Faithful
      <4> QED
        BY <1>5, <1>6, <4>1, <4>3
    <3> QED
      BY <3>1, <3>2, <3>3 DEF Becomes
  <2> QED
    BY <1>8, <2>1, <2>2, <2>3, <2>4, <2>5 DEF Faithful
<1>10. ShowSame(held, backups, held2, backups2)
  <2>1. \A x \in held : \E y \in held2 : y.id = x.id
    BY <1>3 DEF Becomes
  <2>2. \A y \in held2 : \E x \in held : x.id = y.id
    BY <1>4 DEF Becomes
  <2>3. ASSUME NEW x \in held
        PROVE  \E v : Shows(held, backups, x.id, v) /\ Shows(held2, backups2, x.id, v)
    <3>1. PICK y \in held2 : Becomes(x, y, moved)
      BY <1>3
    <3>2. CASE \E b \in backups : b.id = x.id
      <4>1. PICK b \in backups : b.id = x.id
        BY <3>2
      <4>2. Shows(held, backups, x.id, b.val)
        BY <4>1 DEF Shows
      <4>3. CASE b \notin moved
        BY <1>1, <3>1, <4>1, <4>2, <4>3 DEF Shows, Becomes
      <4>4. CASE b \in moved
        <5>1. y.val = b.val /\ y.id = x.id
          BY <3>1, <4>1, <4>4 DEF Becomes
        <5>2. \A c \in backups2 : c.id # x.id
          BY <1>1, <4>1, <4>4 DEF Faithful
        <5> QED
          BY <4>2, <5>1, <5>2 DEF Shows
      <4> QED
        BY <4>3, <4>4
    <3>3. CASE \A b \in backups : b.id # x.id
      <4>1. \A c \in moved : c.id # x.id
        BY <1>1, <1>2, <1>5, <1>6, <1>7, <3>3
      <4>2. y = x
        BY <3>1, <4>1 DEF Becomes
      <4> QED
        BY <1>1, <3>3, <4>2 DEF Shows
    <3> QED
      BY <3>2, <3>3
  <2> QED
    BY <2>1, <2>2, <2>3 DEF ShowSame
<1> QED
  BY <1>9, <1>10, OtherView DEF Structure

\* What backups that are one for a row each make of it.
LEMMA OverwrittenBy ==
    ASSUME NEW row, NEW id, NEW moved, moved \subseteq Cell,
           \A b, c \in moved : b.id = c.id => b = c,
           row \in Row \/ row \in Cell
    PROVE  Becomes(Node(id, row), Node(id, Overwritten(row, id, moved)), moved)
<1> DEFINE mine == {b \in moved : b.id = id}
<1>1. CASE mine = {}
  BY <1>1, NodeFields DEF Overwritten, Becomes
<1>2. CASE mine # {}
  <2>1. Oldest(mine) \in mine
    <3> HIDE DEF mine
    <3> QED
      BY <1>2, OldestIsBackup DEF mine
  <2>2. Overwritten(row, id, moved)
          = [row EXCEPT !.val = Oldest(mine).val, !.mtime = Oldest(mine).mtime]
    BY <1>2 DEF Overwritten
  <2>3. /\ Overwritten(row, id, moved).val = Oldest(mine).val
        /\ Overwritten(row, id, moved).mtime = Oldest(mine).mtime
    BY <2>2 DEF Row, Cell
  <2> QED
    BY <2>1, <2>3, NodeFields DEF Becomes
<1> QED
  BY <1>1, <1>2

\* An older session's numbers are not behind those of a younger one.
LEMMA OlderSession ==
    ASSUME Structure, NEW p \in 1 .. Len(undo_stack), NEW i \in 1 .. p
    PROVE  /\ i \in 1 .. Len(undo_stack)
           /\ undo_stack[i].old_values_end <= undo_stack[p].old_values_end
           /\ undo_stack[i].removed_values_end <= undo_stack[p].removed_values_end
           /\ undo_stack[i].old_next_id <= undo_stack[p].old_next_id
           /\ undo_stack[i].ctime <= undo_stack[p].ctime
<1>1. Len(undo_stack) \in Nat
  BY Session DEF Structure
<1>2. i \in 1 .. Len(undo_stack) /\ (i = p \/ i < p)
  BY <1>1
<1>3. /\ undo_stack[i].old_values_end \in Nat
      /\ undo_stack[i].removed_values_end \in Nat
      /\ undo_stack[i].old_next_id \in Nat /\ undo_stack[i].ctime \in Nat
      /\ undo_stack[p].ctime \in Nat
  BY <1>2, Session DEF Structure
<1> QED
  BY <1>2, <1>3 DEF Structure, SessionsNest

\* Compression: what it drops no session needs that is not younger, and what it
\* moves stays in sight of them.
LEMMA CompressKeeps ==
    ASSUME Structure, Structure', rows' = rows, reverted' = reverted,
           undo_stack # << >>, Faithful(Top),
           NEW p \in 1 .. Len(undo_stack), NEW session, session = undo_stack[p],
           Compress(session),
           NEW i \in 1 .. p, NEW s, s = undo_stack[i], Faithful(s)
    PROVE  Keeps(s)
<1> DEFINE written   == Before(old_values, Top.old_values_end)
           redundant == {b \in written : b.mtime >= session.ctime}
           moved     == {b \in written \ redundant : IsRemoved(b.id)}
           disposed  == {n \in Before(removed_values, Top.removed_values_end) :
                            n.id >= session.old_next_id}
           dropped   == redundant \cup moved
<1>1. /\ old_values' = old_values \ dropped
      /\ removed_values' = {Overwritten(n, n.id, moved) :
                               n \in removed_values \ disposed}
  BY DEF Compress, WrittenInto
<1>2. /\ i \in 1 .. Len(undo_stack)
      /\ s.old_values_end \in Nat /\ s.removed_values_end \in Nat
      /\ s.old_next_id \in Nat /\ s.ctime \in Nat
      /\ session.old_next_id \in Nat /\ session.ctime \in Nat
      /\ Top.old_values_end \in Nat /\ Top.ctime \in Nat
      /\ s.old_values_end <= Top.old_values_end
      /\ s.old_next_id <= session.old_next_id
      /\ s.ctime <= session.ctime /\ session.ctime <= Top.ctime
  <2>1. Len(undo_stack) \in 1 .. Len(undo_stack) /\ p \in 1 .. Len(undo_stack)
    BY TopSession
  <2>2. i \in 1 .. Len(undo_stack)
    BY OlderSession
  <2> QED
    BY <2>1, <2>2, OlderSession, Session DEF Top, Structure
<1>3. /\ old_values \subseteq Cell /\ removed_values \subseteq Cell
      /\ moved \subseteq old_values /\ moved \subseteq Cell
      /\ \A b \in old_values : b.mtime \in Nat /\ b.pos \in Nat
      /\ \A n \in removed_values : n.id \in Nat
  BY Keys DEF Structure, TypeOK, Cell, Before
<1>4. \A b, c \in moved : b.id = c.id => b = c
  <2>1. \A b \in moved : b.mtime < Top.ctime
    BY <1>2, <1>3
  <2>2. moved \subseteq Effective(Top)
    BY <2>1 DEF Effective
  <2> HIDE DEF moved
  <2> QED
    BY <2>2 DEF Faithful
<1>5. \A b \in moved : b.pos > s.old_values_end
  BY <1>2, <1>3 DEF Before
<1>6. \A b \in dropped : b \in Effective(s) => b \in moved
  BY <1>2, <1>3 DEF Effective, Before
<1>7. \A c \in moved, b \in old_values' : b.id = c.id => ~ (c.pos < b.pos)
  BY <1>1, <1>2, <1>3 DEF Before
<1>8. \A b \in moved : b.id \notin DOMAIN rows
  BY DEF IsRemoved, RemovedIds, Structure, OneNodePerKey
<1>9. \A id \in DOMAIN rows :
         /\ Node(id, rows[id]) \in Nodes(s)'
         /\ Node(id, rows'[id]) = Node(id, rows[id])
         /\ Becomes(Node(id, rows[id]), Node(id, rows[id]), moved)
  BY <1>8, NodesAreNext, NodeFields DEF Becomes
<1>10. ASSUME NEW n \in removed_values \ disposed
       PROVE  /\ Becomes(Node(n.id, n),
                         Node(n.id, Overwritten(n, n.id, moved)), moved)
              /\ Overwritten(n, n.id, moved).id = n.id
              /\ Overwritten(n, n.id, moved).pos = n.pos
              /\ Overwritten(n, n.id, moved) \in removed_values'
  <2>1. Overwritten(n, n.id, moved) \in removed_values'
    BY <1>1
  <2>2. n \in Cell
    BY <1>3
  <2> HIDE DEF moved, disposed
  <2>3. /\ Overwritten(n, n.id, moved).id = n.id
        /\ Overwritten(n, n.id, moved).pos = n.pos
    BY <1>3, <2>2, OverwrittenCell
  <2>4. Becomes(Node(n.id, n), Node(n.id, Overwritten(n, n.id, moved)), moved)
    BY <1>3, <1>4, <2>2, OverwrittenBy
  <2> QED
    BY <2>1, <2>3, <2>4
<1>11. \A x \in Held(s) : \E y \in Nodes(s)' : Becomes(x, y, moved)
  <2> SUFFICES ASSUME NEW x \in Held(s)
               PROVE  \E y \in Nodes(s)' : Becomes(x, y, moved)
    OBVIOUS
  <2>1. x \in Nodes(s) /\ x.id < s.old_next_id
    BY DEF Held
  <2>2. CASE x.id \in DOMAIN rows /\ x = Node(x.id, rows[x.id])
    BY <1>9, <2>2
  <2>3. CASE \E n \in removed_values :
                n.pos > s.removed_values_end /\ x = Node(n.id, n)
    <3>1. PICK n \in removed_values :
             n.pos > s.removed_values_end /\ x = Node(n.id, n)
      BY <2>3
    <3>2. x.id = n.id
      BY <3>1, NodeFields
    <3>3. n \notin disposed
      BY <1>2, <1>3, <2>1, <3>2
    <3> DEFINE m == Overwritten(n, n.id, moved)
    <3>4. m \in removed_values' /\ m.pos > s.removed_values_end /\ m.id = n.id
      BY <1>10, <3>1, <3>3
    <3>5. Becomes(x, Node(m.id, m), moved)
      BY <1>10, <3>1, <3>3, <3>4
    <3> HIDE DEF m, moved
    <3> QED
      BY <3>4, <3>5, NodesAreNext
  <2> QED
    BY <2>1, <2>2, <2>3, NodesAre
<1>12. \A y \in Nodes(s)' : \E x \in Nodes(s) : Becomes(x, y, moved)
  <2> SUFFICES ASSUME NEW y \in Nodes(s)'
               PROVE  \E x \in Nodes(s) : Becomes(x, y, moved)
    OBVIOUS
  <2>1. CASE y.id \in DOMAIN rows' /\ y = Node(y.id, rows'[y.id])
    BY <1>9, <2>1, NodesAre
  <2>2. CASE \E m \in removed_values' :
                m.pos > s.removed_values_end /\ y = Node(m.id, m)
    <3>1. PICK m \in removed_values' :
             m.pos > s.removed_values_end /\ y = Node(m.id, m)
      BY <2>2
    <3>2. PICK n \in removed_values \ disposed : m = Overwritten(n, n.id, moved)
      BY <1>1, <3>1
    <3>3. /\ Becomes(Node(n.id, n), Node(n.id, m), moved)
          /\ m.id = n.id /\ m.pos = n.pos
      BY <1>10, <3>2
    <3> HIDE DEF moved, disposed
    <3> QED
      BY <3>1, <3>2, <3>3, NodesAre
  <2> QED
    BY <2>1, <2>2, NodesAreNext
<1> HIDE DEF moved, dropped
<1>13. moved \subseteq dropped
  BY DEF dropped
<1> QED
  BY <1>1, <1>2, <1>3, <1>4, <1>5, <1>6, <1>7, <1>11, <1>12, <1>13, MovedKeeps

\* undo turns the nodes that the top session sees into rows, and leaves those
\* behind its end in the list, overwritten by the backups it restores.
LEMMA UndoneNodes ==
    ASSUME Structure, Undo, Faithful(Top), NEW due, due = Effective(Top)
    PROVE  /\ \A x \in Held(Top) :
                 /\ x.id \in DOMAIN rows'
                 /\ Becomes(x, Node(x.id, rows'[x.id]), due)
           /\ \A id \in DOMAIN rows' : \E x \in Held(Top) : x.id = id
           /\ \A n \in removed_values :
                 n.pos <= Top.removed_values_end =>
                    \E m \in removed_values' :
                       /\ m.pos = n.pos /\ m.id = n.id
                       /\ Becomes(Node(n.id, n), Node(n.id, m), due)
           /\ \A m \in removed_values' : \E n \in removed_values :
                 /\ n.pos <= Top.removed_values_end
                 /\ m.pos = n.pos /\ m.id = n.id
                 /\ Becomes(Node(n.id, n), Node(n.id, m), due)
<1> DEFINE kept == {id \in DOMAIN rows : id < Top.old_next_id}
           back == {n \in Before(removed_values, Top.removed_values_end) :
                       n.id < Top.old_next_id}
           node(id) == CHOOSE n \in back : n.id = id
           left == From(removed_values, Top.removed_values_end)
<1>1. /\ undo_stack # << >>
      /\ rows' = [id \in kept \cup {n.id : n \in back} |->
                    IF id \in kept
                    THEN Overwritten(rows[id], id, due)
                    ELSE Overwritten([val |-> node(id).val,
                                      mtime |-> node(id).mtime], id, due)]
      /\ removed_values' = WrittenInto(left, due)
  BY DEF Undo, Effective
<1>2. /\ Top.old_next_id \in Nat /\ Top.removed_values_end \in Nat
      /\ DOMAIN rows \subseteq Nat /\ rows \in [DOMAIN rows -> Row]
      /\ removed_values \subseteq Cell
      /\ \A n \in removed_values : n.id \in Nat /\ n.pos \in Nat
  BY <1>1, TopSession, Keys DEF Structure, TypeOK, Cell
<1>3. /\ due \subseteq Cell
      /\ \A b, c \in due : b.id = c.id => b = c
  BY ViewTypes DEF Structure, Faithful
<1>4. \A n \in back : n \in removed_values /\ n.id \notin kept
  BY DEF Before, Structure, OneNodePerKey
<1>5. ASSUME NEW id \in kept
      PROVE  Becomes(Node(id, rows[id]), Node(id, rows'[id]), due)
  <2>1. rows'[id] = Overwritten(rows[id], id, due) /\ rows[id] \in Row
    BY <1>1, <1>2
  <2> QED
    BY <1>3, <2>1, OverwrittenBy
<1>6. ASSUME NEW n \in back
      PROVE  /\ n.id \in DOMAIN rows'
             /\ Becomes(Node(n.id, n), Node(n.id, rows'[n.id]), due)
  <2>0. n.id \in DOMAIN rows'
    BY <1>1
  <2> DEFINE row == [val |-> n.val, mtime |-> n.mtime]
  <2>1. node(n.id) = n
    BY <1>4 DEF Structure, OneNodePerKey
  <2>2. rows'[n.id] = Overwritten(row, n.id, due)
    BY <1>1, <1>4, <2>1
  <2>3. row \in Row /\ Node(n.id, row) = Node(n.id, n)
    BY <1>2, <1>4 DEF Row, Cell, Node
  <2> HIDE DEF row
  <2> QED
    BY <1>3, <2>0, <2>2, <2>3, OverwrittenBy
<1>7. \A x \in Held(Top) : /\ x.id \in DOMAIN rows'
                           /\ Becomes(x, Node(x.id, rows'[x.id]), due)
  <2> SUFFICES ASSUME NEW x \in Held(Top)
               PROVE  /\ x.id \in DOMAIN rows'
                      /\ Becomes(x, Node(x.id, rows'[x.id]), due)
    OBVIOUS
  <2>1. x \in Nodes(Top) /\ x.id < Top.old_next_id
    BY DEF Held
  <2>2. CASE x.id \in DOMAIN rows /\ x = Node(x.id, rows[x.id])
    BY <1>1, <1>5, <2>1, <2>2
  <2>3. CASE \E n \in removed_values :
                n.pos > Top.removed_values_end /\ x = Node(n.id, n)
    <3>1. PICK n \in removed_values :
             n.pos > Top.removed_values_end /\ x = Node(n.id, n)
      BY <2>3
    <3>2. x.id = n.id
      BY <3>1, NodeFields
    <3>3. n \in back
      BY <2>1, <3>1, <3>2 DEF Before
    <3> QED
      BY <1>6, <3>1, <3>2, <3>3
  <2> QED
    BY <2>1, <2>2, <2>3, NodesAre
<1>8. \A id \in DOMAIN rows' : \E x \in Held(Top) : x.id = id
  <2>1. \A id \in kept : \E x \in Held(Top) : x.id = id
    BY NodesAre, NodeFields DEF Held
  <2>2. \A n \in back : \E x \in Held(Top) : x.id = n.id
    <3> SUFFICES ASSUME NEW n \in back PROVE \E x \in Held(Top) : x.id = n.id
      OBVIOUS
    <3>1. Node(n.id, n) \in Nodes(Top)
      BY NodesAre DEF Before
    <3> QED
      BY <3>1, NodeFields DEF Held
  <2> QED
    BY <1>1, <2>1, <2>2
<1>9. ASSUME NEW n \in left
      PROVE  /\ Becomes(Node(n.id, n),
                        Node(n.id, Overwritten(n, n.id, due)), due)
             /\ Overwritten(n, n.id, due).id = n.id
             /\ Overwritten(n, n.id, due).pos = n.pos
             /\ Overwritten(n, n.id, due) \in removed_values'
  <2>1. n \in Cell
    BY <1>2 DEF From
  <2> QED
    BY <1>1, <1>3, <2>1, OverwrittenCell, OverwrittenBy DEF WrittenInto
<1>10. \A n \in removed_values :
          n.pos <= Top.removed_values_end =>
             \E m \in removed_values' :
                /\ m.pos = n.pos /\ m.id = n.id
                /\ Becomes(Node(n.id, n), Node(n.id, m), due)
  BY <1>9 DEF From
<1>11. \A m \in removed_values' : \E n \in removed_values :
          /\ n.pos <= Top.removed_values_end
          /\ m.pos = n.pos /\ m.id = n.id
          /\ Becomes(Node(n.id, n), Node(n.id, m), due)
  <2> SUFFICES ASSUME NEW m \in removed_values'
               PROVE  \E n \in removed_values :
                         /\ n.pos <= Top.removed_values_end
                         /\ m.pos = n.pos /\ m.id = n.id
                         /\ Becomes(Node(n.id, n), Node(n.id, m), due)
    OBVIOUS
  <2>1. PICK n \in left : m = Overwritten(n, n.id, due)
    BY <1>1 DEF WrittenInto
  <2>2. n \in removed_values /\ n.pos <= Top.removed_values_end
    BY DEF From
  <2> QED
    BY <1>9, <2>1, <2>2
<1> QED
  BY <1>7, <1>8, <1>10, <1>11

\* undo brings back the table that the top session has promised.
LEMMA UndoRestores ==
    ASSUME Structure, Undo, Faithful(Top)
    PROVE  [id \in DOMAIN rows' |-> rows'[id].val] = SavedTable(Top)
<1> DEFINE held == Held(Top)
           due  == Effective(Top)
<1>1. /\ \A x \in held : /\ x.id \in DOMAIN rows'
                         /\ Becomes(x, Node(x.id, rows'[x.id]), due)
      /\ \A id \in DOMAIN rows' : \E x \in held : x.id = id
  BY UndoneNodes
<1>2. OneEach(held, due) /\ due \subseteq Cell
  BY ViewTypes DEF Structure, Faithful, OneEach
<1> HIDE DEF held, due
<1>3. {x.id : x \in held} = DOMAIN rows'
  BY <1>1
<1>4. ASSUME NEW id \in DOMAIN rows'
      PROVE  Restored(held, due)[id] = rows'[id].val
  <2>1. PICK x \in held : x.id = id
    BY <1>1
  <2>2. Becomes(x, Node(id, rows'[id]), due)
    BY <1>1, <2>1
  <2>3. Shows(held, due, id, rows'[id].val)
    <3>1. Node(id, rows'[id]).val = rows'[id].val
      BY NodeFields
    <3> QED
      BY <2>1, <2>2, <3>1 DEF Shows, Becomes
  <2> QED
    BY ONLY <1>2, <2>3, RestoredShows
<1>5. Restored(held, due) = [id \in DOMAIN rows' |-> Restored(held, due)[id]]
  BY <1>3 DEF Restored
<1>6. Restored(held, due) = [id \in DOMAIN rows' |-> rows'[id].val]
  BY <1>4, <1>5
<1> QED
  BY <1>6 DEF SavedTable, held, due

\* undo leaves the older sessions what they see.
LEMMA UndoKeeps ==
    ASSUME Structure, Structure', Undo, reverted' = reverted, Faithful(Top),
           NEW i \in 1 .. Len(undo_stack), NEW s, s = undo_stack[i], Faithful(s)
    PROVE  Keeps(s)
<1> DEFINE due     == Effective(Top)
           dropped == Before(old_values, Top.old_values_end)
<1>1. undo_stack # << >> /\ old_values' = From(old_values, Top.old_values_end)
  BY DEF Undo
<1>2. /\ s.old_values_end \in Nat /\ s.removed_values_end \in Nat
      /\ s.old_next_id \in Nat /\ s.ctime \in Nat
      /\ Top.old_values_end \in Nat /\ Top.ctime \in Nat
      /\ Top.removed_values_end \in Nat /\ Top.old_next_id \in Nat
      /\ s.old_values_end <= Top.old_values_end
      /\ s.removed_values_end <= Top.removed_values_end
      /\ s.old_next_id <= Top.old_next_id /\ s.ctime <= Top.ctime
  <2>1. Len(undo_stack) \in 1 .. Len(undo_stack) /\ i \in 1 .. Len(undo_stack)
    BY <1>1, TopSession
  <2> QED
    BY <2>1, OlderSession, Session DEF Top, Structure
<1>3. \A b \in old_values : b.pos \in Nat /\ b.mtime \in Nat
  BY DEF Structure, TypeOK, Cell
<1>4. /\ old_values' = old_values \ dropped
      /\ due \subseteq old_values /\ due \subseteq dropped
      /\ \A b \in due : b.pos > s.old_values_end
      /\ \A b \in dropped : b \in Effective(s) => b \in due
      /\ \A c \in due, b \in old_values' : b.id = c.id => ~ (c.pos < b.pos)
      /\ \A b, c \in due : b.id = c.id => b = c
  <2>1. \A b \in old_values : b.pos <= Top.old_values_end <=> b \notin dropped
    BY <1>2, <1>3 DEF Before
  <2>2. old_values' = old_values \ dropped
    BY <1>1, <2>1 DEF From
  <2>3. /\ due \subseteq old_values /\ due \subseteq dropped
        /\ \A b \in dropped : b.pos > Top.old_values_end
    BY DEF Effective, Before
  <2>4. \A b \in due : b.pos > s.old_values_end
    BY <1>2, <1>3, <2>3
  <2>5. \A b \in dropped : b \in Effective(s) => b \in due
    BY <1>2, <1>3 DEF Effective, Before
  <2>6. \A c \in due, b \in old_values' : b.id = c.id => ~ (c.pos < b.pos)
    <3>1. \A b \in old_values' : b \in old_values /\ b.pos <= Top.old_values_end
      BY <1>1 DEF From
    <3>2. \A c \in due : c \in old_values /\ c.pos > Top.old_values_end
      BY <2>3
    <3> QED
      BY <1>2, <1>3, <3>1, <3>2
  <2>7. \A b, c \in due : b.id = c.id => b = c
    BY DEF Faithful
  <2> QED
    BY <2>2, <2>3, <2>4, <2>5, <2>6, <2>7
<1>5. /\ \A x \in Held(Top) : /\ x.id \in DOMAIN rows'
                              /\ Becomes(x, Node(x.id, rows'[x.id]), due)
      /\ \A id \in DOMAIN rows' : \E x \in Held(Top) : x.id = id
      /\ \A n \in removed_values :
            n.pos <= Top.removed_values_end =>
               \E m \in removed_values' :
                  /\ m.pos = n.pos /\ m.id = n.id
                  /\ Becomes(Node(n.id, n), Node(n.id, m), due)
      /\ \A m \in removed_values' : \E n \in removed_values :
            /\ n.pos <= Top.removed_values_end
            /\ m.pos = n.pos /\ m.id = n.id
            /\ Becomes(Node(n.id, n), Node(n.id, m), due)
  BY UndoneNodes
<1>6. \A n \in removed_values : n.pos \in Nat
  BY DEF Structure, TypeOK, Cell
<1>7. \A x \in Held(Top) : x \in Nodes(s)
  <2>1. \A x \in Nodes(Top) : x \in Nodes(s)
    BY <1>2, <1>6, NodesAre
  <2> QED
    BY <2>1 DEF Held
<1> HIDE DEF due, dropped
<1>8. \A x \in Held(s) : \E y \in Nodes(s)' : Becomes(x, y, due)
  <2> SUFFICES ASSUME NEW x \in Held(s)
               PROVE  \E y \in Nodes(s)' : Becomes(x, y, due)
    OBVIOUS
  <2>1. x \in Nodes(s) /\ x.id < Top.old_next_id
    <3>1. x \in Nodes(s) /\ x.id < s.old_next_id /\ x.id \in Nat
      BY ViewTypes DEF Held, Structure
    <3> QED
      BY <1>2, <3>1
  <2>2. CASE x \in Nodes(Top)
    <3>1. x \in Held(Top)
      BY <2>1, <2>2 DEF Held
    <3> QED
      BY <1>5, <3>1, NodesAreNext
  <2>3. CASE x \notin Nodes(Top)
    <3>1. PICK n \in removed_values :
             n.pos > s.removed_values_end /\ x = Node(n.id, n)
      BY <2>1, <2>3, NodesAre
    <3>2. n.pos <= Top.removed_values_end
      BY <1>2, <1>6, <2>3, <3>1, NodesAre
    <3> QED
      BY <1>5, <3>1, <3>2, NodesAreNext
  <2> QED
    BY <2>2, <2>3
<1>9. \A y \in Nodes(s)' : \E x \in Nodes(s) : Becomes(x, y, due)
  <2> SUFFICES ASSUME NEW y \in Nodes(s)'
               PROVE  \E x \in Nodes(s) : Becomes(x, y, due)
    OBVIOUS
  <2>1. CASE y.id \in DOMAIN rows' /\ y = Node(y.id, rows'[y.id])
    BY <1>5, <1>7, <2>1
  <2>2. CASE \E m \in removed_values' :
                m.pos > s.removed_values_end /\ y = Node(m.id, m)
    BY <1>5, <2>2, NodesAre
  <2> QED
    BY <2>1, <2>2, NodesAreNext
<1> QED
  BY <1>2, <1>4, <1>8, <1>9, MovedKeeps

-----------------------------------------------------------------------------
(* Operations that change the lists behind the ends, or nothing. *)

\* The rows stay, and of the lists what is in front of a session's ends.
LEMMA RowsStayKeeps ==
    ASSUME Structure, rows' = rows, reverted \subseteq reverted',
           NEW s, Faithful(s),
           Before(old_values', s.old_values_end)
              = Before(old_values, s.old_values_end),
           Before(removed_values', s.removed_values_end)
              = Before(removed_values, s.removed_values_end)
    PROVE  Keeps(s)
<1>1. Nodes(s)' = Nodes(s)
  BY DEF Nodes
<1>2. Held(s)' = Held(s)
  BY <1>1 DEF Held
<1>3. \A x \in Nodes(s)' : x.id >= s.old_next_id => x.mtime >= s.ctime
  BY <1>1 DEF Faithful
<1> QED
  BY <1>2, <1>3, SameView

\* commit: the sessions that are left are the youngest, and so many that the
\* cells before their ends stay.
LEMMA CommittedStack ==
    ASSUME Structure, NEW r \in 0 .. MaxRevision, Commit(r)
    PROVE  \E off \in Nat :
              /\ off + Len(undo_stack') = Len(undo_stack)
              /\ \A j \in 1 .. Len(undo_stack') :
                    /\ off + j \in 1 .. Len(undo_stack)
                    /\ undo_stack'[j] = undo_stack[off + j]
                    /\ Before(old_values', undo_stack[off + j].old_values_end)
                         = Before(old_values, undo_stack[off + j].old_values_end)
                    /\ Before(removed_values',
                              undo_stack[off + j].removed_values_end)
                         = Before(removed_values,
                                  undo_stack[off + j].removed_values_end)
<1> DEFINE behind == revision - r
           first  == Len(undo_stack) - behind + 1
           oldest == undo_stack[first]
<1>1. /\ Len(undo_stack) \in Nat
      /\ revision \in Nat /\ r \in Nat /\ behind \in Int
  BY Session, ConstantsAssumption DEF Structure, TypeOK
<1>2. CASE behind <= 0
  <2>1. undo_stack' = << >>
    BY <1>1, <1>2 DEF Commit
  <2>2. Len(undo_stack) + Len(undo_stack') = Len(undo_stack)
    BY <1>1, <2>1
  <2>3. \A j \in 1 .. Len(undo_stack') : FALSE
    BY <2>1
  <2> QED
    BY <1>1, <2>2, <2>3
<1>3. CASE behind > 0 /\ behind < Len(undo_stack)
  <2>1. /\ old_values' = {c \in old_values : c.pos >= oldest.old_values_end}
        /\ removed_values' = {c \in removed_values :
                                c.pos >= oldest.removed_values_end}
        /\ undo_stack' = SubSeq(undo_stack, first, Len(undo_stack))
    BY <1>1, <1>3 DEF Commit, Uncommitted
  <2> DEFINE n == Len(undo_stack)
  <2>2. first \in 2 .. n /\ first \in Int /\ n \in Int /\ n - first + 1 = behind
    BY <1>1, <1>3
  <2>3. \A i \in first .. n : undo_stack[i] \in UndoState
    BY <2>2, Session DEF Structure
  <2>4. /\ Len(undo_stack') = behind
        /\ \A j \in 1 .. behind : undo_stack'[j] = undo_stack[first + j - 1]
    <3>1. undo_stack' = SubSeq(undo_stack, first, n)
      BY <2>1
    <3> HIDE DEF n, first, behind
    <3>2. /\ Len(undo_stack') = IF first <= n THEN n - first + 1 ELSE 0
          /\ \A j \in 1 .. n - first + 1 :
                undo_stack'[j] = undo_stack[first + j - 1]
      BY ONLY <2>2, <2>3, <3>1, SubSeqProperties
    <3> QED
      BY ONLY <2>2, <3>2
  <2>5. ASSUME NEW j \in 1 .. behind
        PROVE  /\ first - 1 + j \in 1 .. n
               /\ undo_stack'[j] = undo_stack[first - 1 + j]
               /\ oldest.old_values_end
                     <= undo_stack[first - 1 + j].old_values_end
               /\ oldest.removed_values_end
                     <= undo_stack[first - 1 + j].removed_values_end
    <3> DEFINE i == first - 1 + j
    <3>1. i \in 1 .. n /\ first \in 1 .. i /\ i = first + j - 1
      BY <1>1, <2>2
    <3>2. undo_stack'[j] = undo_stack[i]
      <4> HIDE DEF i, first, behind
      <4> QED
        BY <2>4, <3>1
    <3>3. /\ undo_stack[first].old_values_end <= undo_stack[i].old_values_end
          /\ undo_stack[first].removed_values_end
                <= undo_stack[i].removed_values_end
      <4> HIDE DEF i, first
      <4> QED
        BY <3>1, OlderSession
    <3> QED
      BY <3>1, <3>2, <3>3
  <2>6. \A c \in old_values \cup removed_values : c.pos \in Nat
    BY DEF Structure, TypeOK, Cell
  <2>7. ASSUME NEW j \in 1 .. behind
        PROVE  /\ Before(old_values', undo_stack[first - 1 + j].old_values_end)
                    = Before(old_values, undo_stack[first - 1 + j].old_values_end)
               /\ Before(removed_values',
                         undo_stack[first - 1 + j].removed_values_end)
                    = Before(removed_values,
                             undo_stack[first - 1 + j].removed_values_end)
    <3>1. PICK s : s = undo_stack[first - 1 + j]
      OBVIOUS
    <3>2. /\ oldest.old_values_end \in Nat /\ oldest.removed_values_end \in Nat
          /\ s.old_values_end \in Nat /\ s.removed_values_end \in Nat
      <4>1. first \in 1 .. n
        BY <2>2
      <4> HIDE DEF first
      <4> QED
        BY <2>5, <3>1, <4>1, Session DEF Structure
    <3>3. /\ oldest.old_values_end <= s.old_values_end
          /\ oldest.removed_values_end <= s.removed_values_end
      BY <2>5, <3>1
    <3> HIDE DEF oldest
    <3>4. /\ Before(old_values', s.old_values_end)
               = Before(old_values, s.old_values_end)
          /\ Before(removed_values', s.removed_values_end)
               = Before(removed_values, s.removed_values_end)
      BY <2>1, <2>6, <3>2, <3>3 DEF Before
    <3> QED
      BY <3>1, <3>4
  <2>8. first - 1 \in Nat /\ first - 1 + Len(undo_stack') = Len(undo_stack)
    BY <1>1, <2>2, <2>4
  <2> HIDE DEF first, behind
  <2> QED
    BY <2>4, <2>5, <2>7, <2>8
<1>4. CASE behind > 0 /\ behind >= Len(undo_stack)
  <2>1. UNCHANGED <<old_values, removed_values, undo_stack>>
    BY <1>1, <1>4 DEF Commit
  <2> QED
    BY <1>1, <2>1
<1> QED
  BY <1>1, <1>2, <1>3, <1>4

\* start_undo: the new session sees the table as it is, and there is nothing
\* yet that it would restore.
LEMMA FreshSession ==
    ASSUME Structure, Stamped, StartUndo, NEW s,
           s = [old_values_end |-> Begin(old_values),
                removed_values_end |-> Begin(removed_values),
                old_next_id |-> next_id,
                ctime |-> monotonic_revision + 1]
    PROVE  /\ Faithful(s)'
           /\ SavedTable(s)' = [id \in DOMAIN rows |-> rows[id].val]
<1>1. UNCHANGED <<rows, old_values, removed_values>>
  BY DEF StartUndo
<1>2. /\ \A c \in old_values : c.pos <= Begin(old_values)
      /\ \A c \in removed_values : c.pos <= Begin(removed_values)
      /\ \A c \in old_values \cup removed_values : c.pos \in Nat
      /\ Begin(old_values) \in Nat /\ Begin(removed_values) \in Nat
  BY BeginIsHead DEF Structure, TypeOK, Cell
<1>3. /\ Before(old_values', s.old_values_end) = {}
      /\ Before(removed_values', s.removed_values_end) = {}
  BY <1>1, <1>2 DEF Before
<1>4. Effective(s)' = {}
  BY <1>3 DEF Effective
<1>5. /\ \A x \in Nodes(s)' : x.id \in DOMAIN rows /\ x = Node(x.id, rows[x.id])
      /\ \A id \in DOMAIN rows : Node(id, rows[id]) \in Nodes(s)'
  BY <1>1, <1>2, NodesAreNext
<1>6. \A id \in DOMAIN rows : id < next_id /\ id \in Nat
  BY Keys DEF Structure, KeysBelowNextId, TypeOK
<1>7. next_id \in Nat /\ monotonic_revision \in Nat
  BY ConstantsAssumption DEF Structure, TypeOK
<1>8. \A x \in Nodes(s)' : x.id < s.old_next_id /\ ~ (x.id >= s.old_next_id)
  BY <1>5, <1>6, <1>7
<1>9. \A x \in Nodes(s)' : x.mtime \in Nat /\ x.mtime <= monotonic_revision
  BY <1>5, NodeFields DEF Stamped, Structure, TypeOK, Row
<1>10. Held(s)' = Nodes(s)'
  BY <1>8 DEF Held
<1>11. Faithful(s)'
  <2>1. \A x, y \in Held(s)' : x.id = y.id => x = y
    BY <1>5, <1>10
  <2>2. \A x \in Held(s)' : ~ (x.mtime >= s.ctime)
    BY <1>7, <1>9, <1>10
  <2> QED
    BY <1>3, <1>4, <1>8, <2>1, <2>2 DEF Faithful
<1>12. SavedTable(s)' = [id \in DOMAIN rows |-> rows[id].val]
  <2> DEFINE held == Held(s)'
  <2>1. SavedTable(s)' = Restored(held, {})
    BY <1>4 DEF SavedTable
  <2>2. Restored(held, {})
          = [id \in {x.id : x \in held} |-> (CHOOSE x \in held : x.id = id).val]
    BY DEF Restored
  <2>3. /\ \A x \in held : x.id \in DOMAIN rows /\ x = Node(x.id, rows[x.id])
        /\ \A id \in DOMAIN rows :
              Node(id, rows[id]) \in held /\ Node(id, rows[id]).id = id
    BY <1>5, <1>10, NodeFields
  <2> HIDE DEF held
  <2>4. {x.id : x \in held} = DOMAIN rows
    BY <2>3
  <2>5. ASSUME NEW id \in DOMAIN rows
        PROVE  (CHOOSE x \in held : x.id = id).val = rows[id].val
    <3>1. (CHOOSE x \in held : x.id = id) = Node(id, rows[id])
      BY <2>3
    <3>2. Node(id, rows[id]).val = rows[id].val
      BY NodeFields
    <3> QED
      BY ONLY <3>1, <3>2
  <2> QED
    BY <2>1, <2>2, <2>4, <2>5
<1> QED
  BY <1>11, <1>12

-----------------------------------------------------------------------------
(* Every step. *)

\* What is written into a row or a node was stamped before.
LEMMA OverwrittenStamp ==
    ASSUME NEW row, row \in Row \/ row \in Cell, NEW id,
           NEW backups, backups \subseteq Cell, NEW m,
           row.mtime <= m, \A b \in backups : b.mtime <= m
    PROVE  Overwritten(row, id, backups).mtime <= m
<1> DEFINE mine == {b \in backups : b.id = id}
<1>1. CASE mine = {}
  BY <1>1 DEF Overwritten
<1>2. CASE mine # {}
  <2>1. Oldest(mine) \in mine
    <3> HIDE DEF mine
    <3> QED
      BY <1>2, OldestIsBackup DEF mine
  <2>2. Overwritten(row, id, backups)
          = [row EXCEPT !.val = Oldest(mine).val, !.mtime = Oldest(mine).mtime]
    BY <1>2 DEF Overwritten
  <2>3. Overwritten(row, id, backups).mtime = Oldest(mine).mtime
    BY <2>2 DEF Row, Cell
  <2> QED
    BY <2>1, <2>3
<1> QED
  BY <1>1, <1>2

\* What is stamped stays so where the lists only lose cells or move backups.
LEMMA MovedStamped ==
    ASSUME Structure, Stamped, monotonic_revision' = monotonic_revision,
           NEW moved, moved \subseteq old_values, NEW left,
           left \subseteq removed_values,
           rows' = rows, old_values' \subseteq old_values,
           removed_values' = WrittenInto(left, moved)
    PROVE  Stamped'
<1>1. moved \subseteq Cell /\ left \subseteq Cell
  BY DEF Structure, TypeOK
<1>2. ASSUME NEW n \in left
      PROVE  Overwritten(n, n.id, moved).mtime <= monotonic_revision
  <2>1. n \in Cell /\ n.mtime <= monotonic_revision
    BY <1>1 DEF Stamped
  <2>2. \A b \in moved : b.mtime <= monotonic_revision
    BY DEF Stamped
  <2> QED
    BY <1>1, <2>1, <2>2, OverwrittenStamp
<1>3. \A c \in removed_values' : c.mtime <= monotonic_revision
  BY <1>2 DEF WrittenInto
<1> QED
  BY <1>3 DEF Stamped

\* The rows that undo puts together were stamped before, too.
LEMMA UndoStamped ==
    ASSUME Structure, Structure', Stamped, Faithful(Top), Undo
    PROVE  Stamped'
<1> DEFINE due  == Effective(Top)
<1>1. /\ monotonic_revision' = monotonic_revision
      /\ old_values' \subseteq old_values
  BY DEF Undo, From
<1>2. \A x, y :
         Becomes(x, y, due) =>
            y.mtime = x.mtime \/ \E b \in due : y.mtime = b.mtime
  BY DEF Becomes
<1>3. \A b \in due : b.mtime <= monotonic_revision
  BY ViewTypes DEF Structure, Stamped
<1>4. \A x \in Nodes(Top) : x.mtime <= monotonic_revision
  BY NodesAre, NodeFields DEF Stamped
<1> HIDE DEF due
<1>5. \A id \in DOMAIN rows' : rows'[id].mtime <= monotonic_revision
  <2> SUFFICES ASSUME NEW id \in DOMAIN rows'
               PROVE  rows'[id].mtime <= monotonic_revision
    OBVIOUS
  <2>1. PICK x \in Held(Top) : x.id = id /\ Becomes(x, Node(id, rows'[id]), due)
    BY UndoneNodes DEF due
  <2>2. x.mtime <= monotonic_revision
    BY <1>4 DEF Held
  <2>3. Node(id, rows'[id]).mtime = rows'[id].mtime
    BY NodeFields
  <2> QED
    BY <1>2, <1>3, <2>1, <2>2, <2>3
<1>6. \A m \in removed_values' : m.mtime <= monotonic_revision
  <2> SUFFICES ASSUME NEW m \in removed_values'
               PROVE  m.mtime <= monotonic_revision
    OBVIOUS
  <2>1. PICK n \in removed_values : Becomes(Node(n.id, n), Node(n.id, m), due)
    BY UndoneNodes DEF due
  <2>2. Node(n.id, n).mtime = n.mtime /\ Node(n.id, m).mtime = m.mtime
    BY NodeFields
  <2> QED
    BY <1>2, <1>3, <2>1, <2>2 DEF Stamped
<1> QED
  BY <1>1, <1>5, <1>6 DEF Stamped

\* All that is written in a step is stamped with a revision that has been.
LEMMA StampedNext ==
    ASSUME Structure, Structure', Faithfuls, [Next]_vars
    PROVE  Stamped'
<1> USE DEF Structure
<1>1. monotonic_revision \in Nat /\ Stamped
  BY DEF TypeOK, Faithfuls
<1>2. \A id \in DOMAIN rows : rows[id] \in Row /\ rows[id].mtime \in Nat
  BY DEF TypeOK, Row
<1>3. CASE \E id \in Ids, v \in Vals : Emplace(id, v)
  BY <1>1, <1>2, <1>3 DEF Emplace, Stamp, Stamped
<1>4. CASE \E id \in Ids, v \in Vals : ModifyOk(id, v) \/ ModifyReverted(id, v)
  BY <1>1, <1>2, <1>4 DEF ModifyOk, ModifyReverted, Stamp, Stamped, PushFront, Row
<1>5. CASE \E id \in Ids : \/ Remove(id)
                           \/ TrackedRemove(id)
                           \/ \E v \in Vals : ModifyErased(id, v)
  BY <1>1, <1>5
  DEF Remove, TrackedRemove, ModifyErased, Without, Stamped, PushFront
<1>6. CASE DropTracker \/ (\E r \in 0 .. MaxRevision : SetRevision(r)) \/ UNCHANGED vars
  BY <1>1, <1>6 DEF DropTracker, SetRevision, vars, Stamped
<1>7. CASE Copy
  BY <1>1, <1>7 DEF Copy, Stamped
<1>8. CASE \E r \in 0 .. MaxRevision : Commit(r)
  <2>1. /\ rows' = rows /\ monotonic_revision' = monotonic_revision
        /\ old_values' \subseteq old_values /\ removed_values' \subseteq removed_values
    BY <1>8 DEF Commit, Uncommitted
  <2> QED
    BY <1>1, <2>1 DEF Stamped
<1>9. CASE StartUndo
  <2>1. \A m \in Nat : m <= monotonic_revision => m <= monotonic_revision + 1
    BY <1>1
  <2>2. \A c \in old_values \cup removed_values : c.mtime \in Nat
    BY DEF TypeOK, Cell
  <2> QED
    BY <1>1, <1>2, <1>9, <2>1, <2>2 DEF StartUndo, NextCtime, Stamped
<1>10. CASE Undo
  <2>1. Len(undo_stack) \in 1 .. Len(undo_stack)
    BY <1>10, TopSession DEF Undo
  <2>2. Faithful(Top)
    BY <2>1 DEF Faithfuls, Top
  <2> QED
    BY <1>1, <1>10, <2>2, UndoStamped
<1>11. ASSUME NEW session, Compress(session), rows' = rows,
              monotonic_revision' = monotonic_revision
       PROVE  Stamped'
  <2> DEFINE written   == Before(old_values, Top.old_values_end)
             redundant == {b \in written : b.mtime >= session.ctime}
             moved     == {b \in written \ redundant : IsRemoved(b.id)}
             disposed  == {n \in Before(removed_values, Top.removed_values_end) :
                              n.id >= session.old_next_id}
             left      == removed_values \ disposed
  <2>1. /\ old_values' \subseteq old_values
        /\ removed_values' = WrittenInto(left, moved)
        /\ moved \subseteq old_values
        /\ left \subseteq removed_values
    BY <1>11 DEF Compress, Before
  <2> HIDE DEF moved, left
  <2> QED
    BY <1>1, <1>11, <2>1, MovedStamped
<1>12. CASE Squash
  <2>1. rows' = rows /\ monotonic_revision' = monotonic_revision
    BY <1>12 DEF Squash, PopSession
  <2>2. CASE Len(undo_stack) = 1
    BY <1>1, <1>12, <2>1, <2>2 DEF Squash, Stamped
  <2>3. CASE Len(undo_stack) # 1
    BY <1>11, <1>12, <2>1, <2>3 DEF Squash
  <2> QED
    BY <2>2, <2>3
<1>13. CASE SquashFast
  BY <1>1, <1>13 DEF SquashFast, PopSession, Stamped
<1>14. CASE LastUndoSession
  BY <1>11, <1>14 DEF LastUndoSession
<1> QED
  BY <1>3, <1>4, <1>5, <1>6, <1>7, <1>8, <1>9, <1>10, <1>12, <1>13, <1>14
  DEF Next, Calls

\* No call but the start of a session, which none has seen, changes what the
\* sessions that are open after it have promised.
LEMMA CallKeeps ==
    ASSUME Structure, Structure', ~ RiskyConflicts, Faithfuls,
           Calls, reverted' = reverted, ~ StartUndo,
           NEW j \in 1 .. Len(undo_stack'), NEW s, s = undo_stack'[j]
    PROVE  Keeps(s)
<1>1. /\ undo_stack' # << >> /\ Len(undo_stack') \in Nat
      /\ Len(undo_stack) \in Nat
  BY Session DEF Structure, TypeOK
<1>3. \A i \in 1 .. Len(undo_stack) :
         \A t : t = undo_stack[i] => Faithful(t)
  BY DEF Faithfuls
<1>4. ASSUME undo_stack' = undo_stack
      PROVE  j \in 1 .. Len(undo_stack) /\ s = undo_stack[j] /\ Faithful(s)
             /\ undo_stack # << >>
  BY <1>1, <1>3, <1>4
<1>5. ASSUME undo_stack # << >>
      PROVE  Len(undo_stack) \in 1 .. Len(undo_stack) /\ Faithful(Top)
  <2>1. Len(undo_stack) \in 1 .. Len(undo_stack)
    BY <1>5, TopSession
  <2> QED
    BY <2>1 DEF Faithfuls, Top
<1>6. CASE \E id \in Ids, v \in Vals : Emplace(id, v)
  <2>1. PICK id \in Ids, v \in Vals : Emplace(id, v)
    BY <1>6
  <2>2. undo_stack' = undo_stack
    BY <2>1 DEF Emplace
  <2> QED
    BY <1>4, <2>1, <2>2, EmplaceKeeps
<1>7. CASE \E id \in Ids, v \in Vals : ModifyOk(id, v)
  <2>1. PICK id \in Ids, v \in Vals : ModifyOk(id, v)
    BY <1>7
  <2>2. undo_stack' = undo_stack
    BY <2>1 DEF ModifyOk
  <2> QED
    BY <1>4, <2>1, <2>2, ModifyKeeps
<1>8. CASE \E id \in Ids : \/ Remove(id)
                           \/ TrackedRemove(id)
                           \/ \E v \in Vals : ModifyErased(id, v)
  <2>1. PICK id \in Ids : \/ Remove(id)
                          \/ TrackedRemove(id)
                          \/ \E v \in Vals : ModifyErased(id, v)
    BY <1>8
  <2>2. /\ undo_stack' = undo_stack /\ old_values' = old_values
        /\ id \in DOMAIN rows /\ rows' = Without(id)
    BY <2>1 DEF Remove, TrackedRemove, ModifyErased
  <2>4. id \in Nat /\ Top.old_next_id \in Nat
    BY <1>4, <2>2, Keys, TopSession
  <2>5. \/ removed_values' = PushFront(removed_values, id, rows[id])
        \/ removed_values' = removed_values /\ id >= Top.old_next_id
    <3>1. CASE KeepsRemoved(id) /\ (Remove(id) \/ TrackedRemove(id))
      BY <3>1 DEF Remove, TrackedRemove
    <3>2. CASE ~ KeepsRemoved(id) /\ (Remove(id) \/ TrackedRemove(id))
      BY <1>4, <2>2, <2>4, <3>2 DEF Remove, TrackedRemove, KeepsRemoved
    <3>3. CASE \E v \in Vals : ModifyErased(id, v)
      BY <1>4, <2>2, <3>3 DEF ModifyErased, MayConflict
    <3> QED
      BY <2>1, <3>1, <3>2, <3>3
  <2> QED
    BY <1>4, <2>2, <2>5, RemovedKeeps
<1>9. CASE DropTracker
  <2>1. UNCHANGED <<rows, old_values, removed_values, undo_stack>>
    BY <1>9 DEF DropTracker
  <2> QED
    BY <1>4, <2>1, RowsStayKeeps
<1>10. CASE \E r \in 0 .. MaxRevision : SetRevision(r)
  BY <1>1, <1>10 DEF SetRevision
<1>11. CASE Copy
  BY <1>1, <1>11 DEF Copy
<1>12. CASE \E r \in 0 .. MaxRevision : Commit(r)
  <2>1. PICK r \in 0 .. MaxRevision : Commit(r)
    BY <1>12
  <2>2. rows' = rows
    BY <2>1 DEF Commit
  <2>3. PICK i \in 1 .. Len(undo_stack) :
           /\ undo_stack'[j] = undo_stack[i]
           /\ Before(old_values', undo_stack[i].old_values_end)
                = Before(old_values, undo_stack[i].old_values_end)
           /\ Before(removed_values', undo_stack[i].removed_values_end)
                = Before(removed_values, undo_stack[i].removed_values_end)
    BY <2>1, CommittedStack
  <2>4. Faithful(s)
    BY <1>3, <2>3
  <2> QED
    BY <2>2, <2>3, <2>4, RowsStayKeeps
<1>13. ASSUME undo_stack # << >>,
              undo_stack' = SubSeq(undo_stack, 1, Len(undo_stack) - 1)
       PROVE  /\ j \in 1 .. Len(undo_stack) - 1 /\ j \in 1 .. Len(undo_stack)
              /\ Len(undo_stack) # 1
              /\ Len(undo_stack) - 1 \in 1 .. Len(undo_stack)
              /\ s = undo_stack[j] /\ Faithful(s)
  <2>1. /\ Len(undo_stack') = Len(undo_stack) - 1
        /\ j \in 1 .. Len(undo_stack) /\ undo_stack'[j] = undo_stack[j]
    BY <1>13, PoppedStack
  <2> QED
    BY <1>1, <1>3, <2>1
<1>14. CASE Undo
  <2>1. /\ undo_stack # << >>
        /\ undo_stack' = SubSeq(undo_stack, 1, Len(undo_stack) - 1)
    BY <1>14 DEF Undo
  <2> QED
    BY <1>5, <1>13, <1>14, <2>1, UndoKeeps
<1>15. CASE Squash
  <2>1. /\ undo_stack # << >>
        /\ undo_stack' = SubSeq(undo_stack, 1, Len(undo_stack) - 1)
        /\ rows' = rows
    BY <1>15 DEF Squash, PopSession
  <2>2. PICK session : session = undo_stack[Len(undo_stack) - 1]
    OBVIOUS
  <2>3. Compress(session)
    BY <1>13, <1>15, <2>1, <2>2 DEF Squash
  <2> QED
    BY <1>5, <1>13, <2>1, <2>2, <2>3, CompressKeeps
<1>16. CASE SquashFast
  <2>1. /\ undo_stack # << >>
        /\ undo_stack' = SubSeq(undo_stack, 1, Len(undo_stack) - 1)
        /\ rows' = rows
    BY <1>16 DEF SquashFast, PopSession
  <2>2. UNCHANGED <<old_values, removed_values>>
    BY <1>13, <1>16, <2>1 DEF SquashFast
  <2> QED
    BY <1>13, <2>1, <2>2, RowsStayKeeps
<1>17. CASE LastUndoSession
  <2>1. /\ undo_stack # << >> /\ undo_stack' = undo_stack
        /\ rows' = rows
    BY <1>17 DEF LastUndoSession
  <2>2. PICK session : session = undo_stack[Len(undo_stack)]
    OBVIOUS
  <2>3. Compress(session)
    BY <1>17, <2>2 DEF LastUndoSession, Top
  <2> QED
    BY <1>4, <1>5, <2>1, <2>2, <2>3, CompressKeeps
<1> QED
  BY <1>6, <1>7, <1>8, <1>9, <1>10, <1>11, <1>12, <1>14, <1>15, <1>16, <1>17
  DEF Calls

\* Nor does any other step.
LEMMA StepKeeps ==
    ASSUME Structure, Structure', ~ RiskyConflicts, Faithfuls, [Next]_vars,
           ~ StartUndo,
           NEW j \in 1 .. Len(undo_stack'), NEW s, s = undo_stack'[j]
    PROVE  Keeps(s)
<1>1. undo_stack' # << >>
  BY Session DEF Structure, TypeOK
<1>2. CASE Calls /\ reverted' = reverted
  BY <1>2, CallKeeps
<1>3. ASSUME undo_stack' = undo_stack
      PROVE  j \in 1 .. Len(undo_stack) /\ s = undo_stack[j] /\ Faithful(s)
  BY <1>3 DEF Faithfuls
<1>4. CASE \E id \in Ids, v \in Vals : ModifyReverted(id, v)
  <2>1. undo_stack' = undo_stack
    BY <1>4 DEF ModifyReverted
  <2> QED
    BY <1>3, <1>4, <2>1, ModifyKeeps
<1>5. CASE UNCHANGED vars
  <2>1. UNCHANGED <<rows, old_values, removed_values, undo_stack, reverted>>
    BY <1>5 DEF vars
  <2> QED
    BY <1>3, <2>1, RowsStayKeeps
<1> QED
  BY <1>1, <1>2, <1>4, <1>5 DEF Next

\* A session is what it is, whichever way one names it.
LEMMA SessionNext ==
    ASSUME NEW j, NEW s, s = undo_stack'[j]
    PROVE  /\ Faithful(undo_stack[j])' = Faithful(s)'
           /\ SavedTable(undo_stack[j])' = SavedTable(s)'
<1>1. Held(undo_stack[j])' = Held(s)'
  BY DEF Held, Nodes, Before
<1>2. Effective(undo_stack[j])' = Effective(s)'
  BY DEF Effective, Before
<1>3. SavedTable(undo_stack[j])' = SavedTable(s)'
  BY <1>1, <1>2 DEF SavedTable
<1> QED
  BY <1>1, <1>2, <1>3 DEF Faithful, Before, Nodes

\* start_undo puts one session on top of those that are open.
LEMMA StartedStack ==
    ASSUME Structure, StartUndo
    PROVE  /\ Len(undo_stack') = Len(undo_stack) + 1
           /\ \A i \in 1 .. Len(undo_stack) : undo_stack'[i] = undo_stack[i]
           /\ undo_stack'[Len(undo_stack')]
                 = [old_values_end |-> Begin(old_values),
                    removed_values_end |-> Begin(removed_values),
                    old_next_id |-> next_id,
                    ctime |-> monotonic_revision + 1]
<1> DEFINE session == [old_values_end |-> Begin(old_values),
                       removed_values_end |-> Begin(removed_values),
                       old_next_id |-> next_id,
                       ctime |-> monotonic_revision + 1]
<1>1. undo_stack' = Append(undo_stack, session)
  BY DEF StartUndo, NextCtime
<1>2. undo_stack \in Seq(UndoState)
  BY DEF Structure, TypeOK
<1>3. /\ next_id \in 0 .. MaxId + 1 /\ monotonic_revision \in Nat
      /\ Begin(old_values) \in Nat /\ Begin(removed_values) \in Nat
  BY BeginIsHead DEF Structure, TypeOK
<1>4. session \in UndoState
  BY <1>3 DEF UndoState
<1> HIDE DEF session
<1>5. /\ Len(undo_stack') = Len(undo_stack) + 1
      /\ \A i \in 1 .. Len(undo_stack) : undo_stack'[i] = undo_stack[i]
      /\ undo_stack'[Len(undo_stack) + 1] = session
  BY <1>1, <1>2, <1>4, AppendProperties
<1> QED
  BY <1>5 DEF session

\* What start_undo does to those sessions, and what the new one sees.
LEMMA StartKeeps ==
    ASSUME Structure, Faithfuls, StartUndo, reverted \subseteq reverted',
           NEW j \in 1 .. Len(undo_stack'), NEW s, s = undo_stack'[j]
    PROVE  \/ j \in 1 .. Len(undo_stack) /\ Keeps(s)
           \/ /\ j = Len(undo_stack) + 1
              /\ Faithful(s)' /\ SavedTable(s)' = Table
              /\ s.old_next_id = next_id
<1>1. Len(undo_stack) \in Nat /\ Len(undo_stack') = Len(undo_stack) + 1
  BY StartedStack, Session DEF Structure
<1>2. CASE j \in 1 .. Len(undo_stack)
  <2>1. Faithful(s)
    BY <1>2, StartedStack DEF Faithfuls
  <2>2. UNCHANGED <<rows, old_values, removed_values>>
    BY DEF StartUndo
  <2> QED
    BY <1>2, <2>1, <2>2, RowsStayKeeps
<1>3. CASE j = Len(undo_stack) + 1
  <2>1. s = [old_values_end |-> Begin(old_values),
             removed_values_end |-> Begin(removed_values),
             old_next_id |-> next_id,
             ctime |-> monotonic_revision + 1]
    BY <1>1, <1>3, StartedStack
  <2>2. Faithful(s)' /\ SavedTable(s)' = Table
    BY <2>1, FreshSession DEF Faithfuls, Table
  <2> QED
    BY <1>3, <2>1, <2>2
<1> QED
  BY <1>1, <1>2, <1>3

\* The stamps and the backups stay faithful to what the sessions promised.
LEMMA FaithfulsNext ==
    ASSUME Structure, Structure', ~ RiskyConflicts, Faithfuls, [Next]_vars
    PROVE  Faithfuls'
<1>1. Stamped'
  BY StampedNext
<1>2. ASSUME NEW j \in 1 .. Len(undo_stack')
      PROVE  Faithful(undo_stack[j])'
  <2>1. PICK s : s = undo_stack'[j]
    OBVIOUS
  <2>2. CASE ~ StartUndo
    BY <2>1, <2>2, StepKeeps, SessionNext DEF Keeps
  <2>3. CASE StartUndo
    <3>1. undo_stack' # << >>
      BY Session DEF Structure, TypeOK
    <3>2. reverted \subseteq reverted'
      BY <3>1 DEF Next, vars, ModifyReverted
    <3> QED
      BY <2>1, <2>3, <3>2, StartKeeps, SessionNext DEF Keeps
  <2> QED
    BY <2>2, <2>3
<1> QED
  BY <1>1, <1>2 DEF Faithfuls

\* Where callers do not run conflicting modifiers on rows that are older than
\* the open session, a session's backups are always what it needs to restore
\* the table it has promised: the invariant behind undo (undo_multi_index.hpp:
\* 302-331), squash (564-592) and commit (529-562).
THEOREM FaithfulsHold == ~ RiskyConflicts => (Spec => []Faithfuls)
<1> SUFFICES ASSUME ~ RiskyConflicts PROVE Spec => []Faithfuls
  OBVIOUS
<1>1. Init => Faithfuls
  BY DEF Init, Faithfuls, Stamped
<1>2. Structure /\ Structure' /\ Faithfuls /\ [Next]_vars => Faithfuls'
  BY FaithfulsNext
<1> QED
  BY <1>1, <1>2, StructureHolds, PTL DEF Spec

\* Undo never writes to the node of a row that is gone: each backup it restores
\* is of a row that still has a node (undo_multi_index.hpp:319).
THEOREM NoFreedRowHolds == ~ RiskyConflicts => (Spec => []NoFreedRow)
<1>1. Structure /\ Faithfuls => NoFreedRow
  <2> SUFFICES ASSUME Structure, Faithfuls, NEW i \in 1 .. Len(undo_stack),
                      NEW b \in Before(old_values, undo_stack[i].old_values_end),
                      b.mtime < undo_stack[i].ctime
               PROVE  /\ IsRemoved(b.id) \/ b.id \in DOMAIN rows
                      /\ b.id < undo_stack[i].old_next_id
    BY DEF NoFreedRow
  <2>1. PICK s : s = undo_stack[i]
    OBVIOUS
  <2>2. Faithful(s) /\ b \in Effective(s)
    BY <2>1 DEF Faithfuls, Effective
  <2>3. PICK x \in Held(s) : x.id = b.id
    BY <2>2 DEF Faithful
  <2>4. x \in Nodes(s) /\ x.id < s.old_next_id
    BY DEF Held
  <2> QED
    BY <2>1, <2>3, <2>4, NodesAre, NodeFields DEF IsRemoved, RemovedIds
<1> QED
  BY <1>1, StructureHolds, FaithfulsHold, PTL

\* Of a row, a session restores one backup at most, however many sessions were
\* squashed into it (undo_multi_index.hpp:317-319).
THEOREM OneBackupPerSessionHolds ==
    ~ RiskyConflicts => (Spec => []OneBackupPerSession)
<1>1. Faithfuls => OneBackupPerSession
  <2> SUFFICES ASSUME Faithfuls, NEW i \in 1 .. Len(undo_stack), NEW s,
                      s = undo_stack[i]
               PROVE  \A b, c \in Before(old_values, s.old_values_end) :
                         (b.id = c.id /\ b.mtime < s.ctime /\ c.mtime < s.ctime)
                            => b = c
    BY DEF OneBackupPerSession
  <2> QED
    BY DEF Faithfuls, Faithful, Effective
<1> QED
  BY <1>1, FaithfulsHold, PTL

-----------------------------------------------------------------------------
(* Functions that are sequences. *)

IsList(f, n) == f = [i \in 1 .. n |-> f[i]]

\* A function on 1 .. n is a sequence of its values.
LEMMA ListIsSeq ==
    ASSUME NEW n \in Nat, NEW f, IsList(f, n), NEW S,
           \A i \in 1 .. n : f[i] \in S
    PROVE  Len(f) = n /\ f \in Seq(S)
<1>1. f \in [1 .. n -> S]
  BY DEF IsList
<1>2. f \in Seq(S)
  BY <1>1
<1>3. DOMAIN f = 1 .. n /\ DOMAIN f = 1 .. Len(f) /\ Len(f) \in Nat
  BY <1>1, <1>2, LenProperties
<1> QED
  BY <1>2, <1>3

\* ... and is what is between two places of it.
LEMMA SubSeqIs ==
    ASSUME NEW n \in Nat, NEW f, IsList(f, n),
           NEW m \in Nat, NEW g, IsList(g, m),
           NEW off \in Nat, off + m <= n, \A i \in 1 .. m : g[i] = f[off + i]
    PROVE  g = SubSeq(f, off + 1, off + m)
<1> DEFINE S == {f[i] : i \in 1 .. n}
           t == SubSeq(f, off + 1, off + m)
<1>1. \A i \in 1 .. m : off + i \in 1 .. n
  OBVIOUS
<1>2. \A i \in 1 .. n : f[i] \in S
  OBVIOUS
<1>3. \A i \in 1 .. m : g[i] \in S
  BY <1>1, <1>2
<1>4. \A i \in off + 1 .. off + m : f[i] \in S
  <2>1. \A i \in off + 1 .. off + m : i \in 1 .. n
    OBVIOUS
  <2> QED
    BY <1>2, <2>1
<1> HIDE DEF S
<1>5. Len(g) = m /\ g \in Seq(S)
  BY <1>3, ListIsSeq
<1>6. off + 1 \in Int /\ off + m \in Int
  OBVIOUS
<1>7. /\ t \in Seq(S)
      /\ Len(t) = IF off + 1 <= off + m THEN off + m - (off + 1) + 1 ELSE 0
      /\ \A i \in 1 .. off + m - (off + 1) + 1 : t[i] = f[off + 1 + i - 1]
  BY ONLY <1>4, <1>6, SubSeqProperties
<1> HIDE DEF t
<1>8. Len(t) = m
  BY <1>7
<1>9. ASSUME NEW i \in 1 .. m PROVE g[i] = t[i]
  <2>1. i \in 1 .. off + m - (off + 1) + 1 /\ off + 1 + i - 1 = off + i
    OBVIOUS
  <2> QED
    BY <1>7, <2>1
<1>10. g = t
  BY ONLY <1>5, <1>7, <1>8, <1>9, SeqEqual
<1> QED
  BY <1>10 DEF t

\* ... and with one more value it is one longer.
LEMMA AppendIs ==
    ASSUME NEW n \in Nat, NEW f, IsList(f, n),
           NEW g, IsList(g, n + 1),
           \A i \in 1 .. n : g[i] = f[i]
    PROVE  g = Append(f, g[n + 1])
<1> DEFINE S == {g[i] : i \in 1 .. n + 1}
           t == Append(f, g[n + 1])
<1>0. n + 1 \in Nat /\ n + 1 \in 1 .. n + 1 /\ 1 .. n \subseteq 1 .. n + 1
  OBVIOUS
<1>1. \A i \in 1 .. n + 1 : g[i] \in S
  OBVIOUS
<1> HIDE DEF S
<1>2. Len(g) = n + 1 /\ g \in Seq(S)
  BY <1>0, <1>1, ListIsSeq
<1>3. Len(f) = n /\ f \in Seq(S)
  <2>1. \A i \in 1 .. n : f[i] \in S
    BY <1>0, <1>1
  <2> QED
    BY <2>1, ListIsSeq
<1>4. /\ t \in Seq(S) /\ Len(t) = n + 1
      /\ \A i \in 1 .. n : t[i] = f[i]
      /\ t[n + 1] = g[n + 1]
  BY <1>0, <1>1, <1>3, AppendProperties
<1> HIDE DEF t
<1>5. \A i \in 1 .. n + 1 : g[i] = t[i]
  <2>1. \A i \in 1 .. n + 1 : i \in 1 .. n \/ i = n + 1
    OBVIOUS
  <2> QED
    BY <1>4, <2>1
<1>6. g = t
  BY ONLY <1>2, <1>4, <1>5, SeqEqual
<1> QED
  BY <1>6 DEF t

-----------------------------------------------------------------------------
(* The refinement. *)

\* The snapshots are a sequence as long as the stack.
SavedShape ==
    /\ Len(undo_stack) \in Nat
    /\ IsList(Saved, Len(undo_stack))
    /\ Len(Saved) = Len(undo_stack)
    /\ \A i \in 1 .. Len(undo_stack) :
          /\ Saved[i].table = SavedTable(undo_stack[i])
          /\ Saved[i].next_id = undo_stack[i].old_next_id
    /\ undo_stack = << >> <=> Saved = << >>

\* What Saved is, in a form that can be cited for each of its fields.
LEMMA SavedIs == Structure => SavedShape
<1> SUFFICES ASSUME Structure PROVE SavedShape
  OBVIOUS
<1> DEFINE n == Len(undo_stack)
           S == {Saved[i] : i \in 1 .. n}
<1>1. n \in Nat /\ undo_stack \in Seq(UndoState)
  BY Session DEF Structure, TypeOK
<1>2. IsList(Saved, n)
  BY DEF Saved, IsList
<1>3. \A i \in 1 .. n : /\ Saved[i].table = SavedTable(undo_stack[i])
                        /\ Saved[i].next_id = undo_stack[i].old_next_id
  BY DEF Saved
<1>4. \A i \in 1 .. n : Saved[i] \in S
  OBVIOUS
<1> HIDE DEF S
<1>5. Len(Saved) = n /\ Saved \in Seq(S)
  BY <1>1, <1>2, <1>4, ListIsSeq
<1>6. undo_stack = << >> <=> n = 0
  BY <1>1, EmptySeq
<1>7. Saved = << >> <=> n = 0
  BY <1>5, EmptySeq
<1> QED
  BY <1>1, <1>2, <1>3, <1>5, <1>6, <1>7 DEF SavedShape

\* The same, of the next state.
LEMMA SavedIsNext == Structure' => SavedShape'
  BY SavedIs, PTL

\* Every open session keeps its promise.
AllKeep == \A j \in 1 .. Len(undo_stack') : \A s : s = undo_stack'[j] => Keeps(s)

\* The snapshots of sessions that stay open do not change.
LEMMA SavedKept ==
    ASSUME Structure, Structure', AllKeep, NEW off \in Nat,
           off + Len(undo_stack') <= Len(undo_stack),
           \A j \in 1 .. Len(undo_stack') : undo_stack'[j] = undo_stack[off + j]
    PROVE  Saved' = SubSeq(Saved, off + 1, off + Len(undo_stack'))
<1>1. /\ Len(undo_stack) \in Nat /\ Len(undo_stack') \in Nat
      /\ IsList(Saved, Len(undo_stack))
      /\ IsList(Saved', Len(undo_stack'))
  BY SavedIs, SavedIsNext DEF SavedShape
<1>2. ASSUME NEW j \in 1 .. Len(undo_stack')
      PROVE  Saved'[j] = Saved[off + j]
  <2>1. PICK s : s = undo_stack'[j]
    OBVIOUS
  <2>2. off + j \in 1 .. Len(undo_stack) /\ undo_stack[off + j] = s
    BY <1>1, <2>1
  <2>3. SavedTable(s)' = SavedTable(s)
    BY <2>1 DEF AllKeep, Keeps
  <2>4. SavedTable(undo_stack[j])' = SavedTable(s)'
    BY <2>1, SessionNext
  <2>5. Saved'[j] = [table |-> SavedTable(undo_stack[j])',
                     next_id |-> undo_stack'[j].old_next_id]
    BY DEF Saved
  <2>6. Saved[off + j] = [table |-> SavedTable(undo_stack[off + j]),
                          next_id |-> undo_stack[off + j].old_next_id]
    BY <2>2 DEF Saved
  <2> QED
    BY <2>1, <2>2, <2>3, <2>4, <2>5, <2>6
<1> DEFINE n == Len(undo_stack)
           m == Len(undo_stack')
           f == Saved
           g == Saved'
<1>3. n \in Nat /\ m \in Nat /\ off \in Nat /\ off + m <= n
  BY <1>1
<1>4. IsList(f, n)
  BY <1>1
<1>5. IsList(g, m)
  BY <1>1
<1>6. \A i \in 1 .. m : g[i] = f[off + i]
  BY <1>2
<1> HIDE DEF n, m, f, g
<1>7. g = SubSeq(f, off + 1, off + m)
  BY ONLY <1>3, <1>4, <1>5, <1>6, SubSeqIs
<1> QED
  BY <1>7 DEF n, m, f, g

\* The same where no session ends, and where the top one does.
LEMMA SavedSame ==
    ASSUME Structure, Structure', AllKeep, undo_stack' = undo_stack
    PROVE  Saved' = Saved
<1>1. /\ Len(undo_stack) \in Nat
      /\ IsList(Saved, Len(undo_stack))
  BY SavedIs DEF SavedShape
<1>2. Saved' = SubSeq(Saved, 0 + 1, 0 + Len(undo_stack))
  <2>1. 0 + Len(undo_stack') <= Len(undo_stack)
    BY <1>1
  <2>2. \A j \in 1 .. Len(undo_stack') : undo_stack'[j] = undo_stack[0 + j]
    BY <1>1
  <2> QED
    BY <2>1, <2>2, SavedKept
<1>3. Saved = SubSeq(Saved, 0 + 1, 0 + Len(undo_stack))
  BY <1>1, SubSeqIs
<1> QED
  BY <1>2, <1>3

\* Where only the top session ends, the snapshots below it are left.
LEMMA SavedPopped ==
    ASSUME Structure, Structure', AllKeep, undo_stack # << >>,
           undo_stack' = SubSeq(undo_stack, 1, Len(undo_stack) - 1)
    PROVE  /\ Saved # << >>
           /\ Saved[Len(Saved)].table = SavedTable(Top)
           /\ Saved[Len(Saved)].next_id = Top.old_next_id
           /\ Saved' = SubSeq(Saved, 1, Len(Saved) - 1)
<1>1. /\ Len(undo_stack) \in 1 .. Len(undo_stack)
      /\ Len(undo_stack) \in Nat
      /\ Len(undo_stack') = Len(undo_stack) - 1
      /\ \A i \in 1 .. Len(undo_stack') : undo_stack'[i] = undo_stack[i]
  BY TopSession, PoppedStack
<1>2. Saved' = SubSeq(Saved, 0 + 1, 0 + Len(undo_stack'))
  BY <1>1, SavedKept
<1> QED
  BY <1>1, <1>2, SavedIs DEF Top, SavedShape

\* What the users see of a table that is written, and of its conflicts.
LEMMA TableConflict ==
    ASSUME NEW id, NEW v
    PROVE  Promise!Conflict(id, v) <=> Conflict(id, v)
  BY DEF Promise!Conflict, Conflict, Table

\* The steps that users see of rows are the ones that they were promised.
LEMMA RowSteps ==
    ASSUME Structure, Saved' = Saved, NEW id \in Ids, NEW v \in Vals,
           \/ Emplace(id, v)
           \/ ModifyOk(id, v)
           \/ ModifyReverted(id, v)
           \/ ModifyErased(id, v)
           \/ Remove(id)
           \/ TrackedRemove(id)
    PROVE  [Promise!Next]_(Promise!vars)
<1>1. CASE Emplace(id, v)
  <2>1. Table' = [k \in DOMAIN Table \cup {id} |-> IF k = id THEN v ELSE Table[k]]
    BY <1>1 DEF Emplace, Table
  <2>2. Promise!Emplace(id, v)
    BY <1>1, <2>1, TableConflict DEF Emplace, IdAfter, Promise!Emplace
  <2> QED
    BY <2>2 DEF Promise!Next
<1>2. CASE ModifyOk(id, v)
  <2>1. Table' = [Table EXCEPT ![id] = v] /\ id \in DOMAIN Table
    BY <1>2 DEF ModifyOk, Table, Structure, TypeOK
  <2>2. Promise!Modify(id, v)
    BY <1>2, <2>1, TableConflict DEF ModifyOk, Promise!Modify
  <2> QED
    BY <2>2 DEF Promise!Next
<1>3. CASE ModifyReverted(id, v)
  <2>1. \A k \in DOMAIN rows : rows'[k].val = rows[k].val
    BY <1>3 DEF ModifyReverted, Structure, TypeOK, Row
  <2>2. DOMAIN rows' = DOMAIN rows
    BY <1>3 DEF ModifyReverted
  <2>3. Table' = Table
    BY <2>1, <2>2 DEF Table
  <2>4. UNCHANGED <<next_id, revision>>
    BY <1>3 DEF ModifyReverted
  <2> QED
    BY <2>3, <2>4 DEF Promise!vars
<1>4. CASE ModifyErased(id, v) \/ Remove(id) \/ TrackedRemove(id)
  <2>1. /\ id \in DOMAIN rows /\ rows' = Without(id)
        /\ UNCHANGED <<next_id, revision>>
    BY <1>4 DEF ModifyErased, Remove, TrackedRemove
  <2>2. Table' = [k \in DOMAIN Table \ {id} |-> Table[k]] /\ id \in DOMAIN Table
    BY <2>1 DEF Without, Table
  <2>3. Promise!Erase(id)
    BY <2>1, <2>2 DEF Promise!Erase
  <2> QED
    BY <2>3 DEF Promise!Next
<1> QED
  BY <1>1, <1>2, <1>3, <1>4

\* The steps of sessions are: undo, squash, commit and the start of one.
LEMMA SessionSteps ==
    ASSUME Structure, Structure', Faithfuls, ~ StartUndo => AllKeep,
           StartUndo => reverted \subseteq reverted', Calls,
           \A id \in Ids, v \in Vals : ~ (\/ Emplace(id, v)
                                          \/ ModifyOk(id, v)
                                          \/ ModifyErased(id, v)),
           \A id \in Ids : ~ (Remove(id) \/ TrackedRemove(id))
    PROVE  [Promise!Next]_(Promise!vars)
<1>1. CASE StartUndo
  <2> DEFINE n == Len(undo_stack)
             new == [table |-> Table, next_id |-> next_id]
  <2>1. n \in Nat /\ Len(undo_stack') = n + 1
    BY <1>1, StartedStack, Session DEF Structure
  <2>2. UNCHANGED <<rows, next_id>> /\ revision' = revision + 1
    BY <1>1 DEF StartUndo
  <2>3. ASSUME NEW j \in 1 .. n + 1
        PROVE  \/ j \in 1 .. n /\ Saved'[j] = Saved[j]
               \/ j = n + 1 /\ Saved'[j] = new
    <3>1. PICK s : s = undo_stack'[j]
      OBVIOUS
    <3>2. Saved'[j] = [table |-> SavedTable(s)', next_id |-> s.old_next_id]
      BY <2>1, <3>1, SessionNext DEF Saved
    <3>3. CASE j \in 1 .. n
      <4>1. undo_stack[j] = s
        BY <1>1, <3>1, <3>3, StartedStack
      <4>2. Keeps(s)
        BY <1>1, <2>1, <3>1, <3>3, StartKeeps
      <4>3. Saved[j] = [table |-> SavedTable(undo_stack[j]),
                        next_id |-> undo_stack[j].old_next_id]
        BY <3>3 DEF Saved
      <4> QED
        BY <3>2, <3>3, <4>1, <4>2, <4>3 DEF Keeps
    <3>4. CASE j = n + 1
      <4>1. j \notin 1 .. n
        BY <2>1, <3>4
      <4> QED
        BY <1>1, <2>1, <3>1, <3>2, <3>4, <4>1, StartKeeps
    <3> QED
      BY <2>1, <3>3, <3>4
  <2>4. IsList(Saved, n) /\ IsList(Saved', n + 1)
    BY <2>1, SavedIs, SavedIsNext DEF SavedShape
  <2>5. Saved'[n + 1] = new
    BY <2>1, <2>3
  <2>6. Saved' = Append(Saved, Saved'[n + 1])
    <3>1. \A j \in 1 .. n : Saved'[j] = Saved[j]
      BY <2>1, <2>3
    <3> HIDE DEF n
    <3> QED
      BY ONLY <2>1, <2>4, <3>1, AppendIs
  <2>7. Table' = Table
    BY <2>2 DEF Table
  <2>8. Promise!StartUndo
    BY <2>2, <2>5, <2>6, <2>7 DEF Promise!StartUndo
  <2> QED
    BY <2>8 DEF Promise!Next
<1>2. CASE Undo /\ ~ StartUndo
  <2>1. /\ undo_stack # << >>
        /\ undo_stack' = SubSeq(undo_stack, 1, Len(undo_stack) - 1)
        /\ next_id' = Top.old_next_id /\ revision' = revision - 1
    BY <1>2 DEF Undo
  <2>2. Faithful(Top)
    <3>1. Len(undo_stack) \in 1 .. Len(undo_stack)
      BY <2>1, TopSession
    <3> QED
      BY <3>1 DEF Faithfuls, Top
  <2>3. Table' = SavedTable(Top)
    BY <1>2, <2>2, UndoRestores DEF Table
  <2>4. Promise!Undo
    BY <1>2, <2>1, <2>3, SavedPopped DEF Promise!Undo
  <2> QED
    BY <2>4 DEF Promise!Next
<1>3. CASE (Squash \/ SquashFast) /\ ~ StartUndo
  <2>1. /\ undo_stack # << >>
        /\ undo_stack' = SubSeq(undo_stack, 1, Len(undo_stack) - 1)
        /\ UNCHANGED <<rows, next_id>> /\ revision' = revision - 1
    BY <1>3 DEF Squash, SquashFast, PopSession
  <2>2. Table' = Table
    BY <2>1 DEF Table
  <2>3. Promise!Squash
    BY <1>3, <2>1, <2>2, SavedPopped DEF Promise!Squash
  <2> QED
    BY <2>3 DEF Promise!Next
<1>4. CASE (LastUndoSession \/ DropTracker) /\ ~ StartUndo
  <2>1. UNCHANGED <<rows, undo_stack, next_id, revision>>
    BY <1>4 DEF LastUndoSession, DropTracker
  <2> QED
    BY <1>4, <2>1, SavedSame DEF Promise!vars, Table
<1>5. CASE (\E r \in 0 .. MaxRevision : SetRevision(r)) /\ ~ StartUndo
  <2>1. /\ undo_stack = << >> /\ UNCHANGED <<rows, undo_stack, next_id>>
        /\ revision' >= revision
    BY <1>5 DEF SetRevision
  <2>2. Saved = << >> /\ Saved' = Saved /\ Table' = Table
    BY <1>5, <2>1, SavedSame, SavedIs DEF SavedShape, Table
  <2>3. Promise!SetRevision
    BY <2>1, <2>2 DEF Promise!SetRevision
  <2> QED
    BY <2>3 DEF Promise!Next
<1>6. ASSUME UNCHANGED <<Table, next_id, revision>>, ~ StartUndo, NEW off \in Nat,
             off + Len(undo_stack') = Len(undo_stack),
             \A j \in 1 .. Len(undo_stack') : undo_stack'[j] = undo_stack[off + j]
      PROVE  [Promise!Next]_(Promise!vars)
  <2>1. /\ Len(Saved) = Len(undo_stack) /\ Len(undo_stack) \in Nat
        /\ Len(undo_stack') \in Nat
    BY SavedIs, SavedIsNext DEF SavedShape
  <2>2. Saved' = SubSeq(Saved, off + 1, off + Len(undo_stack'))
    <3>1. AllKeep /\ off + Len(undo_stack') <= Len(undo_stack)
      BY <1>6, <2>1
    <3>2. \A j \in 1 .. Len(undo_stack') : undo_stack'[j] = undo_stack[off + j]
      BY <1>6
    <3> QED
      BY <3>1, <3>2, SavedKept
  <2>3. off + 1 \in 1 .. Len(Saved) + 1
    BY <1>6, <2>1
  <2>4. Promise!Commit
    BY <1>6, <2>1, <2>2, <2>3 DEF Promise!Commit
  <2> QED
    BY <2>4 DEF Promise!Next
<1>7. CASE (\E r \in 0 .. MaxRevision : Commit(r)) /\ ~ StartUndo
  <2>1. PICK r \in 0 .. MaxRevision : Commit(r)
    BY <1>7
  <2>2. UNCHANGED <<Table, next_id, revision>>
    BY <2>1 DEF Commit, Table
  <2>3. PICK off \in Nat :
           /\ off + Len(undo_stack') = Len(undo_stack)
           /\ \A j \in 1 .. Len(undo_stack') : undo_stack'[j] = undo_stack[off + j]
    BY <2>1, CommittedStack
  <2> QED
    BY <1>6, <1>7, <2>2, <2>3
<1>8. CASE Copy /\ ~ StartUndo
  <2>1. UNCHANGED <<Table, next_id, revision>> /\ undo_stack' = << >>
    BY <1>8 DEF Copy, Table
  <2>2. /\ Len(undo_stack) \in Nat
        /\ Len(undo_stack) + Len(undo_stack') = Len(undo_stack)
        /\ \A j \in 1 .. Len(undo_stack') : FALSE
    BY <2>1, Session DEF Structure
  <2> QED
    BY <1>6, <1>8, <2>1, <2>2
<1> QED
  BY <1>1, <1>2, <1>3, <1>4, <1>5, <1>7, <1>8 DEF Calls

\* Every step is a step of the promise, or users see nothing of it.
LEMMA PromiseStep ==
    ASSUME Structure, Structure', ~ RiskyConflicts, Faithfuls, [Next]_vars
    PROVE  [Promise!Next]_(Promise!vars)
<1>1. ~ StartUndo => AllKeep
  BY StepKeeps DEF AllKeep
<1>2. StartUndo => reverted \subseteq reverted'
  <2> SUFFICES ASSUME StartUndo PROVE reverted \subseteq reverted'
    OBVIOUS
  <2>1. undo_stack' # << >>
    BY StartedStack, Session DEF Structure, TypeOK
  <2> QED
    BY <2>1 DEF Next, vars, ModifyReverted
<1>3. ASSUME NEW id \in Ids, NEW v \in Vals,
             \/ Emplace(id, v)
             \/ ModifyOk(id, v)
             \/ ModifyReverted(id, v)
             \/ ModifyErased(id, v)
             \/ Remove(id)
             \/ TrackedRemove(id)
      PROVE  [Promise!Next]_(Promise!vars)
  <2>1. undo_stack' = undo_stack
    BY <1>3 DEF Emplace, ModifyOk, ModifyReverted, ModifyErased, Remove,
                TrackedRemove
  <2>2. Saved' = Saved
    <3>1. ~ StartUndo
      <4>1. Len(undo_stack) \in Nat
        BY Session DEF Structure
      <4> QED
        BY <2>1, <4>1, StartedStack
    <3> QED
      BY <1>1, <2>1, <3>1, SavedSame
  <2> QED
    BY <1>3, <2>2, RowSteps
<1>4. CASE UNCHANGED vars
  <2>1. UNCHANGED <<rows, undo_stack, next_id, revision>>
    BY <1>4 DEF vars
  <2>2. ~ StartUndo
    <3>1. Len(undo_stack) \in Nat
      BY Session DEF Structure
    <3> QED
      BY <2>1, <3>1, StartedStack
  <2> QED
    BY <1>1, <2>1, <2>2, SavedSame DEF Promise!vars, Table
<1>5. CASE Calls
  <2>1. CASE \E id \in Ids, v \in Vals : \/ Emplace(id, v)
                                        \/ ModifyOk(id, v)
                                        \/ ModifyErased(id, v)
    BY <1>3, <2>1
  <2>2. CASE \E id \in Ids : Remove(id) \/ TrackedRemove(id)
    <3>1. PICK id \in Ids : Remove(id) \/ TrackedRemove(id)
      BY <2>2
    <3>2. rows[id].val \in Vals
      BY <3>1 DEF Remove, TrackedRemove, Structure, TypeOK, Row
    <3> QED
      BY <1>3, <3>1, <3>2
  <2> QED
    BY <1>1, <1>2, <1>5, <2>1, <2>2, SessionSteps
<1> QED
  BY <1>3, <1>4, <1>5 DEF Next

\* Where callers do not run conflicting modifiers on rows that are older than
\* the open session, undo brings back exactly the rows of the session's start,
\* whatever was modified, removed, squashed, compressed and committed since.
THEOREM Refinement == ~ RiskyConflicts => (Spec => ImplementsPromise)
<1> SUFFICES ASSUME ~ RiskyConflicts PROVE Spec => ImplementsPromise
  OBVIOUS
<1>1. Init => Promise!Init
  <2> SUFFICES ASSUME Init PROVE Promise!Init
    OBVIOUS
  <2>1. Structure
    BY InitStructure
  <2>2. Saved = << >>
    BY <2>1, SavedIs DEF SavedShape, Init
  <2>3. Table = [id \in {} |-> 0]
    BY DEF Init, Table
  <2> QED
    BY <2>2, <2>3 DEF Init, Promise!Init
<1>2. Structure /\ Structure' /\ Faithfuls /\ [Next]_vars
         => [Promise!Next]_(Promise!vars)
  BY PromiseStep
<1> QED
  BY <1>1, <1>2, StructureHolds, FaithfulsHold, PTL
  DEF Spec, ImplementsPromise, Promise!Spec

-----------------------------------------------------------------------------
(* Unique keys, from what the users were promised. *)

UniqueTable(t) == \A a, b \in DOMAIN t : a # b => <<t[a], t[b]>> \notin Clash

\* The table has unique keys, and so has any that undo may bring back.
AllUnique ==
    /\ UniqueTable(Table)
    /\ \A i \in 1 .. Len(Saved) : UniqueTable(Saved[i].table)

\* A row that is written without conflict leaves the keys unique.
LEMMA WrittenUnique ==
    ASSUME UniqueTable(Table), NEW id, NEW v \in Vals, ~ Promise!Conflict(id, v),
           NEW t, DOMAIN t \subseteq DOMAIN Table \cup {id},
           \A k \in DOMAIN t : t[k] = IF k = id THEN v ELSE Table[k],
           \A k \in DOMAIN Table : Table[k] \in Vals
    PROVE  UniqueTable(t)
<1> SUFFICES ASSUME NEW a \in DOMAIN t, NEW b \in DOMAIN t, a # b
             PROVE  <<t[a], t[b]>> \notin Clash
  BY DEF UniqueTable
<1>1. \A k \in DOMAIN Table : k # id => <<v, Table[k]>> \notin Clash
  BY DEF Promise!Conflict
<1>2. \A k \in DOMAIN Table : k # id => <<Table[k], v>> \notin Clash
  BY <1>1, ConstantsAssumption
<1>3. CASE a = id
  BY <1>1, <1>3
<1>4. CASE b = id
  BY <1>2, <1>4
<1>5. CASE a # id /\ b # id
  BY <1>5 DEF UniqueTable
<1> QED
  BY <1>3, <1>4, <1>5

\* No step that was promised makes two rows share a key, now or after an undo.
LEMMA UniqueNext ==
    ASSUME Structure, Structure', AllUnique, [Promise!Next]_(Promise!vars)
    PROVE  AllUnique'
<1> DEFINE now == [table |-> Table, next_id |-> next_id]
           S == {Saved[i] : i \in 1 .. Len(Saved)} \cup {now}
<1>1. /\ now \in S /\ \A i \in 1 .. Len(Saved) : Saved[i] \in S
      /\ \A x \in S : UniqueTable(x.table)
  BY DEF AllUnique
<1>2. Len(Saved) \in Nat /\ IsList(Saved, Len(Saved))
  BY SavedIs DEF SavedShape
<1> HIDE DEF S, now
<1>3. Saved \in Seq(S)
  BY <1>1, <1>2, ListIsSeq
<1>4. ASSUME NEW k \in Int, NEW m \in Int, 1 <= k, m <= Len(Saved)
      PROVE  SubSeq(Saved, k, m) \in Seq(S)
  <2>1. \A i \in k .. m : Saved[i] \in S
    BY <1>1, <1>2, <1>4
  <2> QED
    BY ONLY <1>4, <2>1, SubSeqProperties
<1>5. Saved' \in Seq(S)
  <2>1. CASE Saved' = Saved
    BY <1>3, <2>1
  <2>2. CASE Saved' = Append(Saved, now)
    BY <1>1, <1>3, <2>2, AppendProperties
  <2>3. CASE Saved' = SubSeq(Saved, 1, Len(Saved) - 1)
    BY <1>2, <1>4, <2>3
  <2>4. CASE \E k \in 1 .. Len(Saved) + 1 : Saved' = SubSeq(Saved, k, Len(Saved))
    BY <1>2, <1>4, <2>4
  <2> QED
    BY <2>1, <2>2, <2>3, <2>4
    DEF Promise!Next, Promise!vars, Promise!Emplace, Promise!Modify, Promise!Erase,
        Promise!StartUndo, Promise!Undo, Promise!Squash, Promise!Commit,
        Promise!SetRevision, now
<1>6. \A k \in DOMAIN Table : Table[k] \in Vals
  BY DEF Table, Structure, TypeOK, Row
<1>7. UniqueTable(Table')
  <2>1. CASE Table' = Table
    BY <2>1 DEF AllUnique
  <2>2. CASE \E id \in Ids, v \in Vals : Promise!Emplace(id, v) \/ Promise!Modify(id, v)
    <3>1. PICK id \in Ids, v \in Vals : Promise!Emplace(id, v) \/ Promise!Modify(id, v)
      BY <2>2
    <3>2. /\ ~ Promise!Conflict(id, v)
          /\ DOMAIN Table' \subseteq DOMAIN Table \cup {id}
          /\ \A k \in DOMAIN Table' : Table'[k] = IF k = id THEN v ELSE Table[k]
      BY <3>1 DEF Promise!Emplace, Promise!Modify, Table
    <3> QED
      BY <1>6, <3>2, WrittenUnique DEF AllUnique
  <2>3. CASE \E id \in Ids : Promise!Erase(id)
    BY <2>3 DEF Promise!Erase, AllUnique, UniqueTable
  <2>4. CASE Promise!Undo
    <3>1. Saved # << >> /\ Table' = Saved[Len(Saved)].table
      BY <2>4 DEF Promise!Undo
    <3>2. Len(Saved) \in 1 .. Len(Saved)
      BY <1>2, <1>3, <3>1, EmptySeq
    <3> QED
      BY <3>1, <3>2 DEF AllUnique
  <2> QED
    BY <2>1, <2>2, <2>3, <2>4
    DEF Promise!Next, Promise!vars, Promise!StartUndo, Promise!Squash,
        Promise!Commit, Promise!SetRevision
<1>8. \A i \in 1 .. Len(Saved') : Saved'[i] \in S
  BY <1>5, ElementOfSeq
<1> QED
  BY <1>1, <1>7, <1>8 DEF AllUnique

\* No two rows ever share a key of a unique index, neither after undo has put
\* rows back that others have replaced since: insert_must_succeed and
\* post_modify_must_succeed (multi_index.hpp:246,276,282) do hold.
THEOREM UniqueKeysHold == ~ RiskyConflicts => (Spec => []UniqueKeys)
<1> SUFFICES ASSUME ~ RiskyConflicts PROVE Spec => []UniqueKeys
  OBVIOUS
<1>1. Init => AllUnique
  <2> SUFFICES ASSUME Init PROVE AllUnique
    OBVIOUS
  <2>1. Len(Saved) = 0
    BY InitStructure, SavedIs DEF SavedShape, Init
  <2> QED
    BY <2>1 DEF AllUnique, UniqueTable, Table, Init
<1>2. Structure /\ Structure' /\ Faithfuls /\ AllUnique /\ [Next]_vars => AllUnique'
  BY PromiseStep, UniqueNext
<1>3. AllUnique => UniqueKeys
  BY DEF AllUnique, UniqueTable, UniqueKeys, Table
<1> QED
  BY <1>1, <1>2, <1>3, StructureHolds, FaithfulsHold, PTL DEF Spec
=============================================================================
