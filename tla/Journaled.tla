------------------------------ MODULE Journaled ------------------------------
(***************************************************************************)
(* chainbase::journaled (include/chainbase/journaled.hpp): a container in  *)
(* the memory-mapped database file and the journal beside it, from which a *)
(* new container is filled when the old one was lost.                      *)
(*                                                                         *)
(* A call changes the container and the journal in several steps.  A crash *)
(* of the process between two of them loses what the stream has buffered;  *)
(* the mapped file keeps the container as it was.  (A crash of the         *)
(* operating system is beyond what the library deals with.)                *)
(*                                                                         *)
(* Uses that the journal does not follow are in the model only if Careless *)
(* names them, and so is the crash in the middle of writing an entry.      *)
(***************************************************************************)
EXTENDS Journal

CONSTANTS
    MaxId,          \* the largest primary key (bounds the model)
    MaxRevision,    \* the largest revision (bounds the model)
    MaxCells,       \* the longest file (bounds the model)
    MaxLosses,      \* how often the container is lost (bounds the model)
    Careless        \* what callers and crashes do beyond what is safe

CarelessUses == {
    "partial_commit",      \* commit to a revision before the last
    "commit_after_start",  \* commit right after start_undo inside a session
    "session_handle",      \* undo or squash through the session that
                           \* start_undo_session returns
    "failing_modify",      \* a modifier that throws or leaves a conflict
    "allow",               \* open a dirty database with dirty_action::allow
    "unread",              \* close, or crash while constructing, a new database
                           \* before its journal is read
    "torn_write" }         \* crash between the two writes of an entry

ASSUME JournaledAssumption ==
    /\ MaxId \in Nat
    /\ MaxRevision \in Nat
    /\ MaxCells \in Nat
    /\ MaxLosses \in Nat
    /\ Careless \subseteq CarelessUses

VARIABLES
    container,  \* the contents of *_container
    file,       \* the journal file as the operating system has it
    pos,        \* where the stream writes; the header's place while sealing
    last_entry, \* _last_entry
    entry,      \* the entry that is being written
    stage,      \* what the process is doing
    db,         \* the database file: "none", "clean" or "dirty"
    outcome,    \* _outcome of the open database
    losses,     \* how often the container was lost
    expected,   \* history: the contents a recovery may give
    strayed     \* history: a careless use, or a replay of an unsealed entry

vars == <<container, file, pos, last_entry, entry, stage, db, outcome, losses,
          expected, strayed>>

NoEntry == SessionEntry("none", 0)
NoLast  == [op |-> "none", pos |-> 0]

Init ==
    /\ container = EmptyTable
    /\ file = << >>
    /\ pos = 1
    /\ last_entry = NoLast
    /\ entry = NoEntry
    /\ stage = "closed"
    /\ db = "none"
    /\ outcome = "good"
    /\ losses = 0
    /\ expected = {EmptyTable}
    /\ strayed = FALSE

-----------------------------------------------------------------------------
(* Opening, closing, crashing. *)

\* The database's constructor, by what it finds and what dirty_action says of a
\* dirty file; dirty_action::fail throws and nothing has happened.
Opens(found, as) ==
    /\ stage = "closed"
    /\ db = found
    /\ stage' = "opened"
    /\ outcome' = as
    /\ db' = "dirty"
    /\ UNCHANGED <<file, pos, last_entry, entry, losses>>

OpenNew ==
    /\ Opens("none", "created")
    /\ container' = EmptyTable
    /\ UNCHANGED <<expected, strayed>>

OpenGood == Opens("clean", "good") /\ UNCHANGED <<container, expected, strayed>>

OpenReset ==
    /\ Opens("dirty", "reset")
    /\ container' = EmptyTable
    /\ UNCHANGED <<expected, strayed>>

OpenAllow ==
    /\ "allow" \in Careless
    /\ Opens("dirty", "corrupted")
    /\ expected' = {container}
    /\ strayed' = TRUE
    /\ UNCHANGED container

Recovers == outcome \in {"created", "reset"}

\* get<journaled<...>> on a database that lost nothing: write on at the end.
OpenJournal ==
    /\ stage = "opened"
    /\ ~ Recovers
    /\ stage' = "idle"
    /\ pos' = Len(file) + 1
    /\ UNCHANGED <<container, file, last_entry, entry, db, outcome,
                   losses, expected, strayed>>

\* The same on a new or a reset database: replay, and write on where the
\* replay ended.  Junk may look like a header that ends it, or be too short.
Recover ==
    LET replay == Replay(file, container)
    IN  /\ stage = "opened"
        /\ Recovers
        /\ replay.status \in {"end", "torn", "junk"}
        /\ stage' = "idle"
        /\ container' = replay.table
        /\ \/ pos' = replay.pos
           \/ /\ replay.status = "junk"
              /\ replay.pos = Len(file)
              /\ pos' = replay.pos + 1
        /\ expected' = {replay.table}
        /\ strayed' = (strayed \/ replay.status # "end")
        /\ UNCHANGED <<file, last_entry, entry, db, outcome, losses>>

\* An entry is refused, or junk does not read as one: the exception leaves
\* get, and the database's destructor clears the dirty flag.
RecoveryThrows ==
    LET replay == Replay(file, container)
    IN  /\ stage = "opened"
        /\ Recovers
        /\ replay.status \in {"refused", "junk"}
        /\ stage' = "closed"
        /\ db' = "clean"
        /\ container' = replay.table
        /\ UNCHANGED <<file, pos, last_entry, entry, outcome, losses,
                   expected, strayed>>

CloseJournal ==
    /\ stage' = "closed"
    /\ pos' = 1
    /\ last_entry' = NoLast
    /\ entry' = NoEntry

Close ==
    /\ stage = "idle"
    /\ CloseJournal
    /\ db' = "clean"
    /\ UNCHANGED <<container, file, outcome, losses,
                   expected, strayed>>

\* The database is closed and nobody has asked for the container.  It is the
\* next to open the file that gets it, with an outcome of good.
CloseUnread ==
    LET unread == Recovers /\ file # << >>
    IN  /\ stage = "opened"
        /\ unread => "unread" \in Careless
        /\ CloseJournal
        /\ db' = "clean"
        /\ strayed' = (strayed \/ unread)
        /\ UNCHANGED <<container, file, outcome, losses, expected>>

Crash ==
    /\ stage # "closed"
    /\ stage = "sealing" => "torn_write" \in Careless
    /\ losses < MaxLosses
    /\ losses' = losses + 1
    /\ CloseJournal
    /\ UNCHANGED <<container, file, db, outcome, expected, strayed>>

\* Somebody removes the database file and keeps the journal.
LoseDatabase ==
    /\ stage = "closed"
    /\ db = "clean"
    /\ losses < MaxLosses
    /\ losses' = losses + 1
    /\ db' = "none"
    /\ UNCHANGED <<container, file, pos, last_entry, entry, stage, outcome,
                   expected, strayed>>

-----------------------------------------------------------------------------
(* Writing an entry. *)

\* From here on a recovery may give what the container was or what it will be.
Begins(e, becomes) ==
    /\ stage = "idle"
    /\ Len(file) + Size(e) <= MaxCells
    /\ stage' = "writing"
    /\ entry' = e
    /\ expected' = {container, becomes}
    /\ UNCHANGED <<file, pos, last_entry, db, outcome, losses>>

\* Header without size and checksum, and payload, where the stream is or over
\* the last entry; the seek back to the header hands them to the system.
Write ==
    LET compress == CanCompress(last_entry.op, entry.op)
        at       == IF compress THEN last_entry.pos ELSE pos
        written  == [entry EXCEPT !.op = CompressedOp(last_entry.op, entry.op)]
    IN  /\ stage = "writing"
        /\ stage' = "sealing"
        /\ file' = Overwrite(file, at, Cells(written))
        /\ entry' = written
        /\ pos' = at
        /\ UNCHANGED <<container, last_entry, db, outcome,
                   losses, expected, strayed>>

\* update_header
RememberedSessions ==                                      \* a mutant
    IF entry.op \in SessionOps THEN [op |-> entry.op, pos |-> pos]
    ELSE last_entry
Remembered == [op |-> entry.op, pos |-> pos]

Seal ==
    /\ stage = "sealing"
    /\ file' = Overwrite(file, pos, Cells(Sealed(entry)))
    /\ last_entry' = Remembered
    /\ pos' = pos + Size(entry)
    /\ IF entry.op = "remove"
       THEN stage' = "removing" /\ entry' = entry
       ELSE stage' = "idle" /\ entry' = NoEntry
    /\ expected' = {IF entry.op = "remove" THEN Removed(container, entry.id)
                    ELSE container}
    /\ UNCHANGED <<container, db, outcome, losses, strayed>>

-----------------------------------------------------------------------------
(* Operations. *)

\* The container first, the journal after it.
Becomes(becomes, e) == Begins(e, becomes) /\ container' = becomes
Does(becomes, e) == Becomes(becomes, e) /\ UNCHANGED strayed

Create(id, v) ==
    /\ id >= container.next_id
    /\ Does(Emplaced(container, id, v), RowEntry("insert", id, v))

Modify(id, v) ==
    /\ id \in DOMAIN container.rows
    /\ Does(Modified(container, id, v), RowEntry("modify", id, v))

\* remove: the journal first.
Remove(id) ==
    /\ id \in DOMAIN container.rows
    /\ Begins(RowEntry("remove", id, NoVal), Removed(container, id))
    /\ UNCHANGED <<container, strayed>>

FinishRemove ==
    /\ stage = "removing"
    /\ stage' = "idle"
    /\ container' = Removed(container, entry.id)
    /\ entry' = NoEntry
    /\ UNCHANGED <<file, pos, last_entry, db, outcome,
                   losses, expected, strayed>>

\* start_undo, or start_undo_session and push
StartUndo ==
    /\ container.revision < MaxRevision
    /\ Does(SessionStarted(container),
            SessionEntry("start_undo", container.revision + 1))

SetRevision(r) ==
    /\ MaySetRevision(container, r)
    /\ Does(WithRevision(container, r), SessionEntry("revision", r))

\* What the container returns is journaled: its revision.
Commit(r) ==
    LET all     == r >= container.revision
        at_once == last_entry.op = "start_undo"
        stray   == {use \in CarelessUses :
                      \/ /\ use = "partial_commit"
                         /\ ~ all /\ container.saved # << >>
                      \/ /\ use = "commit_after_start"
                         /\ at_once /\ (~ all \/ Len(container.saved) # 1)}
    IN  /\ stray \subseteq Careless
        /\ Becomes(Committed(container, r),
                   SessionEntry("commit", container.revision))
        /\ strayed' = (strayed \/ stray # {})

Undo ==
    Does(Undone(container), SessionEntry("undo", Undone(container).revision))

UndoAll ==
    /\ container.saved # << >>
    /\ Does(AllUndone(container),
            SessionEntry("undo_all", AllUndone(container).revision))

\* The container changes and the journal does not hear of it.
Unjournaled(becomes) ==
    /\ stage = "idle"
    /\ container' = becomes
    /\ expected' = {becomes}
    /\ strayed' = TRUE
    /\ UNCHANGED <<file, pos, last_entry, entry, stage, db, outcome, losses>>

\* session::undo, ~session and session::squash of the container's session
SessionHandle ==
    /\ "session_handle" \in Careless
    /\ container.saved # << >>
    /\ Unjournaled(Undone(container)) \/ Unjournaled(Squashed(container))

\* A modifier that throws leaves what it did, a conflict erases the row.
FailingModify(id, v) ==
    /\ "failing_modify" \in Careless
    /\ id \in DOMAIN container.rows
    /\ \/ Unjournaled(Modified(container, id, v))
       \/ Unjournaled(Removed(container, id))

Next ==
    \/ OpenNew
    \/ OpenGood
    \/ OpenReset
    \/ OpenAllow
    \/ OpenJournal
    \/ Recover
    \/ RecoveryThrows
    \/ Close
    \/ CloseUnread
    \/ Crash
    \/ LoseDatabase
    \/ Write
    \/ Seal
    \/ FinishRemove
    \/ \E id \in 0 .. MaxId :
          \/ Remove(id)
          \/ \E v \in Vals :
                Create(id, v) \/ Modify(id, v) \/ FailingModify(id, v)
    \/ \E r \in 0 .. MaxRevision : SetRevision(r) \/ Commit(r)
    \/ StartUndo
    \/ Undo
    \/ UndoAll
    \/ SessionHandle

Spec == Init /\ [][Next]_vars

-----------------------------------------------------------------------------
(* Properties. *)

Stages == {"closed", "opened", "idle", "writing", "sealing", "removing"}

\* Every variable has its type; a file is made of entries and their rests.
TypeOK ==
    /\ container.next_id \in 0 .. MaxId + 1
    /\ container.revision \in Nat /\ Len(container.saved) <= container.revision
    /\ Len(file) <= MaxCells
    /\ \A i \in 1 .. Len(file) :
          file[i].op \in Ops \cup {"rest"} /\ file[i].id \in 0 .. MaxId
    /\ pos \in 1 .. MaxCells + 1
    /\ last_entry.pos \in 0 .. MaxCells
    /\ stage \in Stages
    /\ db \in {"none", "clean", "dirty"}
    /\ outcome \in {"good", "created", "reset", "corrupted"}
    /\ losses \in 0 .. MaxLosses

\* Whenever no call is under way the journal, replayed into an empty container,
\* gives the container that is there, sessions and revision included, and is
\* written on where the replay ends: what journaled is for (journal.hpp:54-76).
ReplayGivesContainer ==
    ~ strayed /\ (stage = "idle" \/ (stage = "closed" /\ db = "clean")) =>
        LET replay == Replay(file, EmptyTable)
        IN  /\ replay.status = "end"
            /\ replay.table = container
            /\ stage = "idle" => replay.pos = pos

\* No entry is refused by a recovery: the rows it names exist and revisions
\* match, as journal.hpp:177, 190, 217, 227, 237, 248 insist, and set_revision
\* finds no session open.
Recoverable ==
    stage = "opened" /\ Recovers =>
        Replay(file, container).status \in {"end", "torn"}

\* The same until a careless use, or the replay of an entry that a crash has
\* left unsealed: that first recovery succeeds.
RecoverableUntilStrayed == ~ strayed => Recoverable

\* Wherever the process crashed, a recovery gives the container as it was
\* before or after the call that was interrupted, and nothing else is lost.
RecoversLastCall ==
    [][~ strayed /\ Recovers /\ stage = "opened" /\ stage' = "idle"
          => container' \in expected]_vars

\* What is in the file stays there: the stream overwrites what no reader would
\* get to, or the last entry if that is a session's start or a revision.
EntriesStay ==
    [][\A i \in 1 .. Len(file) :
          file'[i] # file[i] =>
             \/ i >= pos
             \/ i = pos - 1 /\ file[i].op \in {"start_undo", "revision"}]_vars
=============================================================================
