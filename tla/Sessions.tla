------------------------------- MODULE Sessions -------------------------------
(***************************************************************************)
(* The session handles of basic_undo_multi_index                           *)
(* (include/chainbase/undo_multi_index.hpp, class session): objects that   *)
(* undo a session unless they were told to push or squash it, or were      *)
(* moved from.  A handle knows its index and whether it still applies; it  *)
(* does not know which session it has started, and what it closes is the   *)
(* top of the stack.                                                       *)
(*                                                                         *)
(* Uses that this does not stand are in the model only if Careless names   *)
(* them.  owner and before are history: who answers for an open session,   *)
(* and what the index was when a handle started its own.                   *)
(***************************************************************************)
EXTENDS UndoTable

CONSTANTS
    Indexes,        \* the undo indexes
    Nowhere,        \* the index of a handle that does not exist
    Handles,        \* the session objects
    Nobody,         \* who answers for a session without a handle
    MaxId,          \* the largest primary key (bounds the model)
    MaxRevision,    \* the largest revision (bounds the model)
    Careless        \* what callers do beyond what is safe

CarelessUses == {
    "out_of_order",     \* close a handle whose session is not the youngest
    "rebind",           \* assign a handle of one index to one of another
    "behind_handle" }   \* close a session that a handle answers for by a call
                        \* of the index

ASSUME SessionsAssumption ==
    /\ Nowhere \notin Indexes
    /\ Nobody \notin Handles
    /\ MaxId \in Nat
    /\ MaxRevision \in Nat
    /\ Careless \subseteq CarelessUses

VARIABLES
    index,      \* the contents of each index
    handle,     \* the session objects
    owner,      \* history: who answers for each open session of each index
    before,     \* history: the table when a handle's session was started
    strayed     \* history: the careless uses there were

vars == <<index, handle, owner, before, strayed>>

NoHandle == [on |-> Nowhere, apply |-> FALSE]
NoTable  == [rows |-> EmptyTable.rows, next_id |-> 0]

Contents(t) == [rows |-> t.rows, next_id |-> t.next_id]

Exists(h)  == handle[h].on # Nowhere
Applies(h) == handle[h].apply

Init ==
    /\ index = [i \in Indexes |-> EmptyTable]
    /\ handle = [h \in Handles |-> NoHandle]
    /\ owner = [i \in Indexes |-> << >>]
    /\ before = [h \in Handles |-> NoTable]
    /\ strayed = {}

-----------------------------------------------------------------------------
(* The sessions' owners. *)

WithoutTop(s) == SubSeq(s, 1, Len(s) - 1)

\* g answers for what h has answered for.
HandedOver(s, h, g) == [k \in DOMAIN s |-> IF s[k] = h THEN g ELSE s[k]]

IsTop(h) == LET s == owner[handle[h].on] IN s # << >> /\ s[Len(s)] = h

\* Handle h has closed the top.  If that was not its own session, who answered
\* for the top answers now for the session of h.
ClosedBy(h, s) ==
    IF s = << >> THEN s ELSE HandedOver(WithoutTop(s), h, s[Len(s)])

\* A use is careless for each of the reasons given.
Strays(uses) == uses \subseteq Careless /\ strayed' = strayed \cup uses

OutOfOrder(h) == IF Applies(h) /\ ~ IsTop(h) THEN {"out_of_order"} ELSE {}

-----------------------------------------------------------------------------
(* Handles. *)

\* start_undo_session
Start(h, i) ==
    /\ ~ Exists(h)
    /\ index[i].revision < MaxRevision
    /\ index' = [index EXCEPT ![i] = SessionStarted(index[i])]
    /\ handle' = [handle EXCEPT ![h] = [on |-> i, apply |-> TRUE]]
    /\ owner' = [owner EXCEPT ![i] = Append(@, h)]
    /\ before' = [before EXCEPT ![h] = Contents(index[i])]
    /\ UNCHANGED strayed

\* The session stays.
Push(h) ==
    /\ Exists(h)
    /\ handle' = [handle EXCEPT ![h].apply = FALSE]
    /\ owner' = [owner EXCEPT ![handle[h].on] = HandedOver(@, h, Nobody)]
    /\ before' = [before EXCEPT ![h] = NoTable]
    /\ UNCHANGED <<index, strayed>>

\* What is left of handle h when it has closed a session.
Spent(h) == [handle[h] EXCEPT !.apply = FALSE]

\* Handle h, if it applies, makes the index closed; afterwards it is left.
Closes(h, closed, left) ==
    /\ Exists(h)
    /\ Strays(OutOfOrder(h))
    /\ handle' = [handle EXCEPT ![h] = left]
    /\ IF Applies(h)
       THEN /\ index' = [index EXCEPT ![handle[h].on] = closed]
            /\ owner' = [owner EXCEPT ![handle[h].on] = ClosedBy(h, @)]
       ELSE UNCHANGED <<index, owner>>
    /\ before' = [before EXCEPT ![h] = NoTable]

SquashHandle(h) == Closes(h, Squashed(index[handle[h].on]), Spent(h))

UndoHandle(h) == Closes(h, Undone(index[handle[h].on]), Spent(h))

\* ~session
Destroy(h) == Closes(h, Undone(index[handle[h].on]), NoHandle)

\* session(session&&): the one moved from goes on to exist and does nothing.
MovedFromKept(h) == handle[h]                               \* a mutant
MovedFrom(h) == [handle[h] EXCEPT !.apply = FALSE]

MoveConstruct(h, from) ==
    /\ ~ Exists(h)
    /\ Exists(from)
    /\ handle' = [handle EXCEPT ![h] = handle[from], ![from] = MovedFrom(from)]
    /\ owner' = [owner EXCEPT ![handle[from].on] = HandedOver(@, from, h)]
    /\ before' = [before EXCEPT ![h] = before[from], ![from] = NoTable]
    /\ UNCHANGED <<index, strayed>>

\* operator=: undo what there is to undo, then take over whether to apply.
\* The index is a reference, which no assignment binds to another.
AssignedIndex(h) ==
    IF Applies(h) THEN [index EXCEPT ![handle[h].on] = Undone(@)] ELSE index
AssignedOwner(h) ==
    IF Applies(h) THEN [owner EXCEPT ![handle[h].on] = ClosedBy(h, @)] ELSE owner

TakenOverNever(from) == FALSE                               \* a mutant
TakenOver(from) == Applies(from)

MoveAssign(h, from) ==
    LET i == handle[from].on
        rebinds == IF Applies(from) /\ handle[h].on # i THEN {"rebind"} ELSE {}
    IN  /\ h # from
        /\ Exists(h)
        /\ Exists(from)
        /\ Strays(OutOfOrder(h) \cup rebinds)
        /\ index' = AssignedIndex(h)
        /\ handle' = [handle EXCEPT ![h].apply = TakenOver(from),
                                    ![from] = MovedFrom(from)]
        /\ owner' = [AssignedOwner(h) EXCEPT ![i] = HandedOver(@, from, h)]
        /\ before' = [before EXCEPT ![h] = before[from], ![from] = NoTable]

-----------------------------------------------------------------------------
(* Calls of the index itself. *)

\* Sessions from place first to place last of index i are closed.
ClosesBehind(i, first, last) ==
    Strays(IF \E k \in DOMAIN owner[i] \cap first .. last : owner[i][k] # Nobody
           THEN {"behind_handle"} ELSE {})

Write(i, becomes) ==
    /\ index' = [index EXCEPT ![i] = becomes]
    /\ UNCHANGED <<handle, owner, before, strayed>>

\* Tables are told apart by their keys alone: all rows hold 0.
Emplace(i) ==
    /\ index[i].next_id <= MaxId
    /\ Write(i, Emplaced(index[i], index[i].next_id, 0))

Remove(i, id) ==
    /\ id \in DOMAIN index[i].rows
    /\ Write(i, Removed(index[i], id))

StartUndo(i) ==
    /\ index[i].revision < MaxRevision
    /\ index' = [index EXCEPT ![i] = SessionStarted(index[i])]
    /\ owner' = [owner EXCEPT ![i] = Append(@, Nobody)]
    /\ UNCHANGED <<handle, before, strayed>>

\* undo and squash close the top if there is one, undo_all closes all.
CloseTop(i) ==
    /\ ClosesBehind(i, Len(owner[i]), Len(owner[i]))
    /\ \E closed \in {Undone(index[i]), Squashed(index[i])} :
          index' = [index EXCEPT ![i] = closed]
    /\ owner' = [owner EXCEPT ![i] = WithoutTop(@)]
    /\ UNCHANGED <<handle, before>>

UndoAll(i) ==
    /\ ClosesBehind(i, 1, Len(owner[i]))
    /\ index' = [index EXCEPT ![i] = AllUndone(index[i])]
    /\ owner' = [owner EXCEPT ![i] = << >>]
    /\ UNCHANGED <<handle, before>>

\* commit forgets the oldest sessions.
Commit(i, r) ==
    LET kept    == Len(Committed(index[i], r).saved)
        dropped == Len(owner[i]) - kept
    IN  /\ dropped > 0
        /\ ClosesBehind(i, 1, dropped)
        /\ index' = [index EXCEPT ![i] = Committed(index[i], r)]
        /\ owner' = [owner EXCEPT ![i] = SubSeq(@, dropped + 1, Len(@))]
        /\ UNCHANGED <<handle, before>>

Next ==
    \/ \E h \in Handles :
          \/ \E i \in Indexes : Start(h, i)
          \/ Push(h)
          \/ SquashHandle(h)
          \/ UndoHandle(h)
          \/ Destroy(h)
          \/ \E from \in Handles : MoveConstruct(h, from) \/ MoveAssign(h, from)
    \/ \E i \in Indexes :
          \/ Emplace(i)
          \/ \E id \in DOMAIN index[i].rows : Remove(i, id)
          \/ StartUndo(i)
          \/ CloseTop(i)
          \/ UndoAll(i)
          \/ \E r \in 0 .. MaxRevision : Commit(i, r)

Spec == Init /\ [][Next]_vars

-----------------------------------------------------------------------------
(* Properties. *)

\* Every variable has its type, and the owners are those of the stack.
TypeOK ==
    /\ DOMAIN index = Indexes
    /\ handle \in [Handles -> {NoHandle} \cup [on : Indexes, apply : BOOLEAN]]
    /\ owner \in [Indexes -> Seq(Handles \cup {Nobody})]
    /\ \A i \in Indexes : Len(owner[i]) = Len(index[i].saved)
    /\ DOMAIN before = Handles
    /\ strayed \subseteq Careless

\* Uses after which owner says nothing any more.
Lost == strayed \cap {"rebind", "behind_handle"} # {}

\* A handle that applies answers for exactly one open session of its index: it
\* is not undone twice after a move, and nested handles that are closed in any
\* order find a session each, none of them one that was there before.
AppliersOwnOne ==
    ~ Lost =>
        \A h \in Handles : Applies(h) =>
            \E k \in DOMAIN owner[handle[h].on] :
                \A i \in Indexes : \A j \in DOMAIN owner[i] :
                    owner[i][j] = h <=> i = handle[h].on /\ j = k

\* A session that a handle answers for has that handle: moves, assignments and
\* the end of objects leave no session open that nobody would close.
OwnersApply ==
    ~ Lost =>
        \A i \in Indexes : \A k \in DOMAIN owner[i] :
            owner[i][k] # Nobody =>
                Applies(owner[i][k]) /\ handle[owner[i][k]].on = i

\* A handle that undoes gives the index the table it had when the handle's
\* session was started, whatever nested handles squashed or undid and wherever it
\* was moved since (undo_multi_index.hpp:306), as long as every handle has closed
\* its own session: one closed over a nested one that is still open, one that was
\* pushed included, is a careless use.
HandleRestores ==
    [][\A h \in Handles :
          LET i == handle[h].on
          IN  /\ strayed' = {}
              /\ Applies(h)
              /\ UndoHandle(h) \/ Destroy(h)
              => Contents(index'[i]) = before[h]]_vars
=============================================================================
