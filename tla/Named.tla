--------------------------------- MODULE Named ---------------------------------
(***************************************************************************)
(* The containers of an open database by their names                       *)
(* (include/chainbase/database.hpp get, detail/container.hpp,              *)
(* singleton.hpp), and the journaled objects that get hands out with a     *)
(* journal each, moved and assigned (journaled.hpp, detail/journal.hpp).   *)
(*                                                                         *)
(* A call on a container and its entry are one step here; Journaled takes  *)
(* them apart.  What these objects do not stand is in the model only if    *)
(* Careless names it; strayed is then the set of names it happened to.     *)
(***************************************************************************)
EXTENDS Journal

CONSTANTS
    Types,          \* the types a program gets containers by
    Suffixes,       \* the suffixes it appends to their names
    NoSuffix,       \* the empty suffix
    Names,          \* the names in the segment
    NoName,         \* no container, or no file
    NameOf,         \* the name that a type and a suffix make
    SizeOf,         \* the sizes that detail::container keeps of a type
    Objects,        \* variables of type journaled in the program
    MaxId,          \* the largest primary key (bounds the model)
    MaxRevision,    \* the largest revision (bounds the model)
    MaxCells,       \* the longest file (bounds the model)
    MaxLosses,      \* how often the database file is new (bounds the model)
    Careless        \* what the program does beyond what is safe

CarelessUses == {
    "twice",        \* get a journaled object of a container that has one, or
                    \* that was recovered already
    "plain",        \* change a journaled container without its journal
    "unread",       \* close a new database before a journal was read
    "moved_into",   \* let an object that was assigned to write over the entry
                    \* it remembers
    "emplace_over" }    \* emplace a singleton that has a value

ASSUME NamedAssumption ==
    /\ NoSuffix \in Suffixes
    /\ NoName \notin Names
    /\ NameOf \in [Types \X Suffixes -> Names]
    /\ MaxId \in Nat
    /\ MaxRevision \in Nat
    /\ MaxCells \in Nat
    /\ MaxLosses \in Nat
    /\ Careless \subseteq CarelessUses

VARIABLES
    segment,    \* the containers in the mapped file, by name
    files,      \* the journal of each name
    object,     \* the journaled objects
    db,         \* mode and outcome of the open database
    slot,       \* a singleton container in the segment
    losses,     \* how often the database file was new
    strayed     \* history: names whose journals a careless use got wrong

vars == <<segment, files, object, db, slot, losses, strayed>>

Closed == [mode |-> "closed", outcome |-> "good"]
NoLast == [op |-> "none", pos |-> 0, of |-> NoName]

\* journaled() by default: no container, and a stream that is not open
Fresh == [on |-> NoName, stream |-> NoName, pos |-> 1, last |-> NoLast]

\* A singleton: what it tells, what its storage holds, and values it forgot to
\* destroy.
RawSlot == [constructed |-> FALSE, holds |-> "nothing", forgotten |-> 0]

Init ==
    /\ segment = [n \in {} |-> EmptyTable]
    /\ files = [n \in Names |-> << >>]
    /\ object = [o \in Objects |-> Fresh]
    /\ db = Closed
    /\ slot = RawSlot
    /\ losses = 0
    /\ strayed = {}

IsOpen   == db.mode # "closed"
RecoversCreated == db.outcome = "created"                   \* a mutant
Recovers == db.outcome \in {"created", "reset"}
Present  == DOMAIN segment

\* Careless uses, each with the names it gets wrong
Strays(use, names) ==
    /\ names = {} \/ use \in Careless
    /\ strayed' = strayed \cup names

-----------------------------------------------------------------------------
(* The database. *)

Opened(mode, outcome) ==
    /\ ~ IsOpen
    /\ db' = [mode |-> mode, outcome |-> outcome]

\* The file is new, or a dirty one is reset: the journals are still there.
OpenNew(mode, outcome) ==
    /\ Opened(mode, outcome)
    /\ losses < MaxLosses
    /\ losses' = losses + 1
    /\ segment' = [n \in {} |-> EmptyTable]
    /\ slot' = RawSlot
    /\ UNCHANGED <<files, object, strayed>>

OpenGood(mode) ==
    /\ losses > 0
    /\ Opened(mode, "good")
    /\ UNCHANGED <<segment, files, object, slot, losses, strayed>>

\* Names with a journal that nobody has read since the file is new
Unread == {n \in Names :
              /\ Recovers
              /\ files[n] # << >>
              /\ n \notin Present \/ segment[n].table = EmptyTable}

Close ==
    /\ IsOpen
    /\ Strays("unread", Unread)
    /\ db' = Closed
    /\ object' = [o \in Objects |-> Fresh]
    /\ UNCHANGED <<segment, files, slot, losses>>

-----------------------------------------------------------------------------
(* get: find by name or construct, and compare the sizes. *)

\* detail::container::validate
Fits(n, t) == n \in Present => SizeOf[segment[n].type] = SizeOf[t]

\* find, or construct an empty one
Found(n, t) ==
    [m \in Present \cup {n} |->
        IF m \in Present THEN segment[m] ELSE [type |-> t, table |-> EmptyTable]]

GetPlain(t, s) ==
    LET n == NameOf[<<t, s>>]
    IN  /\ IsOpen
        /\ n \notin Present
        /\ segment' = Found(n, t)
        /\ UNCHANGED <<files, object, db, slot, losses, strayed>>

\* The file is opened at its end, std::fstream::ate.
AtEndPast(file) == Len(file) + 2                            \* a mutant
AtEnd(file) == Len(file) + 1

\* The object that get makes, in the place of object o; the assignment of a
\* journal takes its stream and leaves what the target remembers of its last.
Assigned(o, n, stream, pos) ==
    [object[o] EXCEPT !.on = n, !.stream = stream, !.pos = pos]

\* get of a journaled type: the container as above, and its journal, which is
\* replayed first if the database has lost it.
GetJournaled(o, t, s) ==
    LET n      == NameOf[<<t, s>>]
        found  == Found(n, t)
        replay == IF Recovers THEN Replay(files[n], found[n].table)
                  ELSE [table |-> found[n].table, pos |-> AtEnd(files[n]),
                        status |-> "end"]
        again  == \/ \E p \in Objects \ {o} : object[p].stream = n
                  \/ Recovers /\ files[n] # << >> /\ found[n].table # EmptyTable
    IN  /\ IsOpen
        /\ Fits(n, t)
        /\ IF db.mode = "read_write"
           THEN /\ Strays("twice", IF again THEN {n} ELSE {})
                /\ segment' = [found EXCEPT ![n].table = replay.table]
                /\ \/ /\ replay.status \in {"end", "torn", "junk"}
                      /\ object' = [object EXCEPT ![o] = Assigned(o, n, n, replay.pos)]
                   \/ /\ replay.status \in {"refused", "junk"}
                      /\ UNCHANGED object
           ELSE /\ segment' = found
                /\ object' = [object EXCEPT ![o] = Assigned(o, n, NoName, 1)]
                /\ UNCHANGED strayed
        /\ UNCHANGED <<files, db, slot, losses>>

-----------------------------------------------------------------------------
(* The objects of the program. *)

\* Construction by move is the case of a target that is fresh.  The source
\* keeps what it remembers of its last entry too.
MovedFromStream(o) == [object[o] EXCEPT !.on = NoName]      \* a mutant
MovedFrom(o) == [object[o] EXCEPT !.on = NoName, !.stream = NoName, !.pos = 1]

Move(o, from) ==
    /\ o # from
    /\ object[from].on # NoName
    /\ object' = [object EXCEPT
                    ![o] = Assigned(o, object[from].on, object[from].stream,
                                    object[from].pos),
                    ![from] = MovedFrom(from)]
    /\ UNCHANGED <<segment, files, db, slot, losses, strayed>>

\* The end of an object, and another one by default in its place
Destroy(o) ==
    /\ object[o] # Fresh
    /\ object' = [object EXCEPT ![o] = Fresh]
    /\ UNCHANGED <<segment, files, db, slot, losses, strayed>>

-----------------------------------------------------------------------------
(* Calls on the containers. *)

\* What o remembers is not the entry in front of its stream.
Stale(o) ==
    LET last == object[o].last
    IN  ~ /\ last.of = object[o].stream
          /\ last.pos + 1 = object[o].pos
          /\ files[last.of][last.pos].op = last.op

\* A seek behind the end leaves a gap.
Reaching(file, at) ==
    IF at <= Len(file) + 1 THEN file
    ELSE file \o [i \in 1 .. at - 1 - Len(file) |-> Rest]

Write(o, e) ==
    LET n        == object[o].stream
        last     == object[o].last
        compress == CanCompress(last.op, e.op)
        at       == IF compress THEN last.pos ELSE object[o].pos
        written  == Sealed([e EXCEPT !.op = CompressedOp(last.op, e.op)])
    IN  /\ at + Size(e) <= MaxCells + 1
        /\ Strays("moved_into", IF compress /\ Stale(o) THEN {n} ELSE {})
        /\ files' = [files EXCEPT ![n] = Overwrite(Reaching(@, at), at, Cells(written))]
        /\ object' = [object EXCEPT
                        ![o].pos = at + Size(e),
                        ![o].last = [op |-> written.op, pos |-> at, of |-> n]]

\* A call through object o makes the container becomes and journals e.
Call(o, becomes, e) ==
    LET n == object[o].on
    IN  /\ segment' = [segment EXCEPT ![n].table = becomes]
        /\ IF object[o].stream = NoName
           THEN Strays("plain", {n}) /\ UNCHANGED <<files, object>>
           ELSE Write(o, e)
        /\ UNCHANGED <<db, slot, losses>>

Emplace(o, v) ==
    LET t == segment[object[o].on].table
    IN  /\ object[o].on # NoName
        /\ t.next_id <= MaxId
        /\ Call(o, Emplaced(t, t.next_id, v), RowEntry("insert", t.next_id, v))

StartUndo(o) ==
    LET t == segment[object[o].on].table
    IN  /\ object[o].on # NoName
        /\ t.revision < MaxRevision
        /\ Call(o, SessionStarted(t), SessionEntry("start_undo", t.revision + 1))

SetRevision(o, r) ==
    LET t == segment[object[o].on].table
    IN  /\ object[o].on # NoName
        /\ MaySetRevision(t, r)
        /\ Call(o, WithRevision(t, r), SessionEntry("revision", r))

Undo(o) ==
    LET t == segment[object[o].on].table
    IN  /\ object[o].on # NoName
        /\ Call(o, Undone(t), SessionEntry("undo", Undone(t).revision))

\* The same container got as what it is and not as journaled
EmplacePlain(n, v) ==
    LET t == segment[n].table
    IN  /\ IsOpen
        /\ t.next_id <= MaxId
        /\ segment' = [segment EXCEPT ![n].table = Emplaced(t, t.next_id, v)]
        /\ Strays("plain", {n})
        /\ UNCHANGED <<files, object, db, slot, losses>>

-----------------------------------------------------------------------------
(* The singleton. *)

\* emplace by a constructor that returns or throws.  One that throws leaves
\* the storage without a value, and says nothing to constructed.
EmplacedFlagFirst(s, throws) ==                             \* a mutant
    [s EXCEPT !.constructed = TRUE, !.holds = IF throws THEN "rubble" ELSE "value"]
EmplacedSlot(s, throws) ==
    [constructed |-> s.constructed \/ ~ throws,
     holds       |-> IF throws THEN "rubble" ELSE "value",
     forgotten   |-> s.forgotten + IF s.holds = "value" THEN 1 ELSE 0]

SlotChanges(s) ==
    /\ IsOpen
    /\ slot' = s
    /\ UNCHANGED <<segment, files, object, db, losses, strayed>>

EmplaceSlot(throws) ==
    /\ slot.constructed => "emplace_over" \in Careless /\ slot.forgotten = 0
    /\ SlotChanges(EmplacedSlot(slot, throws))

GetOrConstruct(throws) ==
    SlotChanges(IF slot.constructed THEN slot ELSE EmplacedSlot(slot, throws))

ClearSlot ==
    SlotChanges(IF slot.constructed
                THEN [slot EXCEPT !.constructed = FALSE, !.holds = "nothing"]
                ELSE slot)

Modes == {"read_write", "read_write_no_journal"}

Next ==
    \/ \E mode \in Modes :
          \/ \E outcome \in {"created", "reset"} : OpenNew(mode, outcome)
          \/ OpenGood(mode)
    \/ Close
    \/ \E t \in Types, s \in Suffixes :
          \/ GetPlain(t, s)
          \/ \E o \in Objects : GetJournaled(o, t, s)
    \/ \E o \in Objects :
          \/ \E from \in Objects : Move(o, from)
          \/ Destroy(o)
          \/ \E v \in Vals : Emplace(o, v)
          \/ StartUndo(o)
          \/ \E r \in 0 .. MaxRevision : SetRevision(o, r)
          \/ Undo(o)
    \/ \E n \in Present, v \in Vals : EmplacePlain(n, v)
    \/ \E throws \in BOOLEAN : EmplaceSlot(throws) \/ GetOrConstruct(throws)
    \/ ClearSlot

Spec == Init /\ [][Next]_vars

-----------------------------------------------------------------------------
(* Properties. *)

\* Every variable has its type.
TypeOK ==
    /\ Present \subseteq Names
    /\ \A n \in Present : segment[n].type \in Types
    /\ DOMAIN files = Names
    /\ \A n \in Names : Len(files[n]) <= MaxCells
    /\ \A o \in Objects : /\ object[o].on \in Names \cup {NoName}
                          /\ object[o].stream \in Names \cup {NoName}
                          /\ object[o].pos \in 1 .. MaxCells + 1
    /\ db.mode \in Modes \cup {"closed"}
    /\ losses \in 0 .. MaxLosses
    /\ strayed \subseteq Names

\* The container of every name is what its own journal replays to, and its
\* object writes where the replay ends, whatever happened to other names: get
\* (database.hpp:114-120) gives each its own file and replays it once.
JournalsFollow ==
    \A n \in Present \ (strayed \cup Unread) :
        LET replay == Replay(files[n], EmptyTable)
        IN  /\ replay.status = "end"
            /\ replay.table = segment[n].table
            /\ \A o \in Objects : object[o].stream = n => object[o].pos = replay.pos

\* An object writes the journal of the container that it points to, and no
\* other object writes that one, through all moves and assignments.
OneWriterPerName ==
    \A o \in Objects : object[o].stream # NoName =>
        /\ object[o].stream = object[o].on
        /\ object[o].on \notin strayed =>
              \A p \in Objects \ {o} : object[p].stream # object[o].stream

\* A singleton that says it has a value has one, and has destroyed the others.
SlotIsWhole ==
    /\ slot.constructed <=> slot.holds = "value"
    /\ slot.forgotten = 0
=============================================================================
