------------------------------- MODULE Database -------------------------------
(***************************************************************************)
(* chainbase::database (src/database.cpp): processes that open, write and  *)
(* close one memory-mapped file, with the dirty flag in the file's header, *)
(* the lock of the writer, and dirty_action.                               *)
(*                                                                         *)
(* The constructor is a sequence of steps of which only the last two hold  *)
(* the lock; processes interleave between them, and crash.  When power is  *)
(* lost, what was not flushed since may or may not be on the disk.         *)
(*                                                                         *)
(* Uses and crashes that the steps do not guard against are in the model   *)
(* only if Careless names them.                                            *)
(***************************************************************************)
EXTENDS Integers

CONSTANTS
    Procs,          \* processes that open the file
    Nobody,         \* no process
    Sizes,          \* the db_file_size they ask for
    MinSize,        \* db_min_size
    Careless,       \* what callers and crashes do beyond what is safe
    MaxCrashes      \* how often a process or the machine dies (a bound)

CarelessUses == {
    "overlap",              \* create, reset or grow the file while others open it
    "bare_path",            \* create the file by a path without a directory
    "allow",                \* close a torn file that was opened with allow
    "crash_constructing",   \* crash between touch and dirty() of a new file
    "crash_growing",        \* crash before the growth of the segment is flushed
    "crash_flushing",       \* crash between clearing the flag and the flush
    "stale_check" }         \* crash while another opener relies on the flag

ASSUME DatabaseAssumption ==
    /\ Nobody \notin Procs
    /\ Sizes \subseteq Nat
    /\ MinSize \in Nat \ {0}
    /\ MaxCrashes \in Nat
    /\ Careless \subseteq CarelessUses

VARIABLES
    file,       \* the file as processes see it
    disk,       \* what of it is on the disk
    lock,       \* the process that has the file lock, or Nobody
    stage,      \* where in the life of its database object a process is
    opener,     \* mode, size and action that a process opens the file with
    found,      \* file_exists of its constructor
    outcome,    \* its _outcome
    grow,       \* grow of its constructor
    crashes,    \* how often a process or the machine has died
    untold      \* history: the file is new and no process was told so

vars == <<file, disk, lock, stage, opener, found, outcome, grow, crashes, untold>>

Modes    == {"read_only", "read_write"}
Actions  == {"fail", "allow", "reset"}
Outcomes == {"good", "created", "corrupted", "reset"}

\* No file; a header is "none" when the file is shorter than it, "zero" before
\* it is written.
NoFile == [exists |-> FALSE, size |-> 0, segment |-> 0, header |-> "none",
           dirty |-> FALSE, whole |-> TRUE]

NoOpener == [mode |-> "read_only", size |-> 0, action |-> "fail"]

Init ==
    /\ file = NoFile
    /\ disk = [header |-> "none", dirty |-> FALSE, synced |-> TRUE]
    /\ lock = Nobody
    /\ stage = [p \in Procs |-> "out"]
    /\ opener = [p \in Procs |-> NoOpener]
    /\ found = [p \in Procs |-> FALSE]
    /\ outcome = [p \in Procs |-> "good"]
    /\ grow = [p \in Procs |-> 0]
    /\ crashes = 0
    /\ untold = FALSE

-----------------------------------------------------------------------------
(* Steps of the processes. *)

Constructing == {"found", "validated", "touched", "resized", "measured",
                 "enlarged", "growing", "mapped"}
Owning       == {"locked", "open", "writing", "cleared", "closing"}

Writable(p) == opener[p].mode = "read_write"

\* Process p leaves one place of the constructor for another.
Goes(p, from, to) == stage[p] = from /\ stage' = [stage EXCEPT ![p] = to]

\* An exception or the end of the object: nothing is remembered of it.
Leaves(p) ==
    /\ stage' = [stage EXCEPT ![p] = "out"]
    /\ opener' = [opener EXCEPT ![p] = NoOpener]
    /\ found' = [found EXCEPT ![p] = FALSE]
    /\ outcome' = [outcome EXCEPT ![p] = "good"]
    /\ grow' = [grow EXCEPT ![p] = 0]

\* An opener that leaves the file alone until it has the lock.
Harmless(o) ==
    \/ o.mode = "read_only"
    \/ file.exists /\ o.size <= file.size /\ o.action # "reset"

\* Openers that do not are expected to be alone, from start to dirty().
Harms(p) == /\ stage[p] \in Constructing \cup {"locked"}
            /\ ~ Harmless(opener[p]) \/ ~ found[p] \/ grow[p] > 0
Overlaps(p, o) == \E q \in Procs \ {p} : stage[q] # "out" /\ (~ Harmless(o) \/ Harms(q))

AtLeastMinSize(size) == IF size < MinSize THEN MinSize ELSE size

\* fs::exists; a reader needs the file.
Start(p, mode, size, action) ==
    LET o == [mode |-> mode, size |-> AtLeastMinSize(size), action |-> action]
    IN  /\ Goes(p, "out", "found")
        /\ mode = "read_only" => file.exists
        /\ Overlaps(p, o) => "overlap" \in Careless
        /\ opener' = [opener EXCEPT ![p] = o]
        /\ found' = [found EXCEPT ![p] = file.exists]
        /\ UNCHANGED <<file, disk, lock, outcome, grow, crashes, untold>>

\* What the constructor makes of the header it reads, "throws" included.
OutcomeUnflagged(dirty, action, writable) ==                \* a mutant
    IF dirty /\ action = "reset" /\ writable THEN "reset"
    ELSE IF dirty /\ action # "allow" THEN "throws" ELSE "good"
OutcomeOf(dirty, action, writable) ==
    CASE ~ dirty -> "good"
      [] dirty /\ action = "allow" -> "corrupted"
      [] dirty /\ action = "reset" /\ writable -> "reset"
      [] OTHER -> "throws"

\* validate_db_header of a file that was there
Validate(p) ==
    LET result == IF file.header # "ok" THEN "throws"
                  ELSE OutcomeOf(file.dirty, opener[p].action, Writable(p))
    IN  /\ stage[p] = "found"
        /\ found[p]
        /\ \/ /\ result = "throws"
              /\ Leaves(p)
           \/ /\ result # "throws"
              /\ Goes(p, "found", "validated")
              /\ outcome' = [outcome EXCEPT ![p] = result]
              /\ UNCHANGED <<opener, found, grow>>
        /\ UNCHANGED <<file, disk, lock, crashes, untold>>

\* No file was there.  _outcome is assigned where the directory of the path is
\* created; if the path has none it is never assigned.
NotFound(p) ==
    /\ ~ found[p]
    /\ Goes(p, "found", "validated")
    /\ \E o \in IF "bare_path" \in Careless THEN Outcomes ELSE {"created"} :
          outcome' = [outcome EXCEPT ![p] = o]
    /\ UNCHANGED <<file, disk, lock, opener, found, grow, crashes, untold>>

Renews(p) == ~ found[p] \/ outcome[p] = "reset"

\* touch truncates the file, resize_file fills it with zeroes.
Touch(p) ==
    /\ Renews(p)
    /\ Goes(p, "validated", "touched")
    /\ file' = [NoFile EXCEPT !.exists = TRUE]
    /\ disk' = [header |-> "none", dirty |-> FALSE, synced |-> TRUE]
    /\ UNCHANGED <<lock, opener, found, outcome, grow, crashes, untold>>

ResizeNew(p) ==
    /\ Goes(p, "touched", "resized")
    /\ file' = [file EXCEPT !.size = opener[p].size, !.header = "zero"]
    /\ disk' = [disk EXCEPT !.header = "zero"]
    /\ UNCHANGED <<lock, opener, found, outcome, grow, crashes, untold>>

\* The segment manager and the header, in the mapped file
ConstructedBare(f, size) ==                                \* a mutant
    [f EXCEPT !.segment = size, !.header = "zero", !.dirty = FALSE, !.whole = TRUE]
Constructed(f, size) ==
    [f EXCEPT !.segment = size, !.header = "ok", !.dirty = FALSE, !.whole = TRUE]

Construct(p) ==
    /\ Goes(p, "resized", "mapped")
    /\ file' = Constructed(file, opener[p].size)
    /\ disk' = [disk EXCEPT !.synced = FALSE]
    /\ untold' = TRUE
    /\ UNCHANGED <<lock, opener, found, outcome, grow, crashes>>

\* fs::file_size of a file that is kept
GrowthSigned(size, existing) == size - existing             \* a mutant
GrowthToSize(size, existing) ==                             \* a mutant
    IF size > existing THEN size ELSE 0
Growth(size, existing) == IF size > existing THEN size - existing ELSE 0

Measure(p) ==
    /\ ~ Renews(p)
    /\ Writable(p)
    /\ Goes(p, "validated", "measured")
    /\ grow' = [grow EXCEPT ![p] = Growth(opener[p].size, file.size)]
    /\ UNCHANGED <<file, disk, lock, opener, found, outcome, crashes, untold>>

MapFile(p) ==
    /\ grow[p] = 0
    /\ Goes(p, "measured", "mapped")
    /\ UNCHANGED <<file, disk, lock, opener, found, outcome, grow, crashes,
                   untold>>

Enlarge(p) ==
    /\ grow[p] > 0
    /\ Goes(p, "measured", "enlarged")
    /\ file' = [file EXCEPT !.size = opener[p].size]
    /\ UNCHANGED <<disk, lock, opener, found, outcome, grow, crashes, untold>>

\* segment_manager::grow takes more than one write.
GrowSegment(p) ==
    /\ Goes(p, "enlarged", "growing")
    /\ disk' = [disk EXCEPT !.synced = FALSE]
    /\ UNCHANGED <<file, lock, opener, found, outcome, grow, crashes, untold>>

SegmentGrown(p) ==
    /\ Goes(p, "growing", "mapped")
    /\ file' = [file EXCEPT !.segment = file.segment + grow[p]]
    /\ UNCHANGED <<disk, lock, opener, found, outcome, grow, crashes, untold>>

\* A reader maps the file and has no lock.
OpenReader(p) ==
    /\ ~ Renews(p)
    /\ ~ Writable(p)
    /\ Goes(p, "validated", "reading")
    /\ UNCHANGED <<file, disk, lock, opener, found, outcome, grow, crashes,
                   untold>>

MayLockAnyway(p) == TRUE                                    \* a mutant
MayLock(p) == lock = Nobody

\* try_lock does not wait; lock() would.
WaitsForLock(p) == lock # Nobody                            \* a mutant
Waits(p) == FALSE

TryLock(p) ==
    /\ stage[p] = "mapped"
    /\ ~ Waits(p)
    /\ \/ /\ MayLock(p)
          /\ lock' = p
          /\ Goes(p, "mapped", "locked")
          /\ UNCHANGED <<opener, found, outcome, grow>>
       \/ /\ ~ MayLock(p)
          /\ Leaves(p)
          /\ UNCHANGED lock
    /\ UNCHANGED <<file, disk, crashes, untold>>

\* What is flushed is the whole file, the flag with it.
Flushed == [header |-> file'.header, dirty |-> file'.dirty, synced |-> TRUE]

\* dirty(): nothing to do if the flag is set
Unmarked(f) == f                                            \* a mutant
Marked(f) == [f EXCEPT !.dirty = TRUE]

MarkDirty(p) ==
    /\ Goes(p, "locked", "open")
    /\ file' = Marked(file)
    /\ disk' = IF file.dirty THEN disk ELSE Flushed
    /\ untold' = (untold /\ outcome[p] \notin {"created", "reset"})
    /\ UNCHANGED <<lock, opener, found, outcome, grow, crashes>>

\* Any operation on containers is many writes to the mapped file.
BeginWrite(p) ==
    /\ Goes(p, "open", "writing")
    /\ disk' = [disk EXCEPT !.synced = FALSE]
    /\ UNCHANGED <<file, lock, opener, found, outcome, grow, crashes, untold>>

EndWrite(p) ==
    /\ Goes(p, "writing", "open")
    /\ UNCHANGED <<file, disk, lock, opener, found, outcome, grow, crashes,
                   untold>>

\* flush() in the destructor: the flag first, then everything to the disk.
ClearDirty(p) ==
    /\ file.whole \/ "allow" \in Careless
    /\ Goes(p, "open", IF file.dirty THEN "cleared" ELSE "closing")
    /\ file' = [file EXCEPT !.dirty = FALSE]
    /\ UNCHANGED <<disk, lock, opener, found, outcome, grow, crashes, untold>>

Flush(p) ==
    /\ Goes(p, "cleared", "closing")
    /\ UNCHANGED file
    /\ disk' = Flushed
    /\ UNCHANGED <<lock, opener, found, outcome, grow, crashes, untold>>

Unlock(p) == lock' = IF lock = p THEN Nobody ELSE lock

Closes(p, from) ==
    /\ stage[p] = from
    /\ Leaves(p)
    /\ Unlock(p)
    /\ UNCHANGED <<file, disk, crashes, untold>>

CloseWriter(p) == Closes(p, "closing")
CloseReader(p) == Closes(p, "reading")

-----------------------------------------------------------------------------
(* Crashes. *)

\* What the crash of a process may break that the flag does not tell.
IsNew(p) == \/ stage[p] \in {"touched", "resized"}
            \/ stage[p] \in {"mapped", "locked"} /\ Renews(p)
IsGrown(p) == stage[p] = "growing" \/ (stage[p] \in {"mapped", "locked"} /\ grow[p] > 0)
IsRelied(p) == stage[p] = "writing" /\ \E q \in Procs \ {p} :
                  stage[q] \in Constructing /\ Writable(q) /\ outcome[q] = "good"

Risks(p) == {c \in CarelessUses :
                \/ c = "crash_constructing" /\ IsNew(p)
                \/ c = "crash_growing" /\ IsGrown(p)
                \/ c = "crash_flushing" /\ stage[p] = "cleared"
                \/ c = "stale_check" /\ IsRelied(p)}

\* The process dies; the mapped file stays as it is.
Crash(p) ==
    /\ stage[p] # "out"
    /\ crashes < MaxCrashes
    /\ Risks(p) \subseteq Careless
    /\ crashes' = crashes + 1
    /\ file' = [file EXCEPT
                  !.whole = file.whole /\ stage[p] \notin {"writing", "growing"}]
    /\ Leaves(p)
    /\ Unlock(p)
    /\ UNCHANGED <<disk, untold>>

\* All processes die.  Each part of the file is as it was flushed or as it was
\* last written, whichever the system got to.
PowerLoss ==
    /\ crashes < MaxCrashes
    /\ \A p \in Procs : Risks(p) \subseteq Careless \cup {"stale_check"}
    /\ crashes' = crashes + 1
    /\ \E header \in {file.header, disk.header},
          dirty \in {file.dirty, disk.dirty},
          whole \in IF disk.synced THEN {file.whole} ELSE BOOLEAN :
             /\ file' = [file EXCEPT !.header = header, !.dirty = dirty,
                                     !.whole = whole]
             /\ disk' = [header |-> header, dirty |-> dirty, synced |-> TRUE]
    /\ stage' = [p \in Procs |-> "out"]
    /\ opener' = [p \in Procs |-> NoOpener]
    /\ found' = [p \in Procs |-> FALSE]
    /\ outcome' = [p \in Procs |-> "good"]
    /\ grow' = [p \in Procs |-> 0]
    /\ lock' = Nobody
    /\ UNCHANGED untold

\* What the constructor and the destructor of p's object do once they began;
\* when it opens the file, writes or closes it is for the program to say.
Steps(p) ==
    \/ Validate(p)
    \/ NotFound(p)
    \/ Touch(p)
    \/ ResizeNew(p)
    \/ Construct(p)
    \/ Measure(p)
    \/ MapFile(p)
    \/ Enlarge(p)
    \/ GrowSegment(p)
    \/ SegmentGrown(p)
    \/ OpenReader(p)
    \/ TryLock(p)
    \/ MarkDirty(p)
    \/ Flush(p)
    \/ CloseWriter(p)

Next ==
    \/ \E p \in Procs :
          \/ \E mode \in Modes, size \in Sizes, action \in Actions :
                Start(p, mode, size, action)
          \/ Steps(p)
          \/ BeginWrite(p)
          \/ EndWrite(p)
          \/ ClearDirty(p)
          \/ CloseReader(p)
          \/ Crash(p)
    \/ PowerLoss

Spec == Init /\ [][Next]_vars

\* The system schedules every process that is alive.
FairSpec == Spec /\ \A p \in Procs : WF_vars(Steps(p))

-----------------------------------------------------------------------------
(* Properties. *)

Stages == {"out", "reading"} \cup Constructing \cup Owning

TypeOK ==
    /\ file \in [exists : BOOLEAN, size : Nat, segment : Nat,
                 header : {"none", "zero", "ok"}, dirty : BOOLEAN, whole : BOOLEAN]
    /\ disk \in [header : {"none", "zero", "ok"}, dirty : BOOLEAN, synced : BOOLEAN]
    /\ lock \in Procs \cup {Nobody}
    /\ stage \in [Procs -> Stages]
    /\ opener \in [Procs -> [mode : Modes, size : Nat, action : Actions]]
    /\ found \in [Procs -> BOOLEAN]
    /\ outcome \in [Procs -> Outcomes]
    /\ grow \in [Procs -> Nat]
    /\ crashes \in 0 .. MaxCrashes
    /\ untold \in BOOLEAN

\* A file whose flag is clear was closed by its last writer: no crash, of the
\* process or of the machine, leaves a torn file that opens as a good one.  Crashes
\* in the windows that the flag does not cover (Careless) are excepted.
CleanIsWhole == file.header = "ok" /\ ~ file.dirty => file.whole

\* While a process may write, the flag is set, on the disk as well: whatever
\* happens from then on, the next opener learns of it.
DirtyWhileOpen ==
    \A p \in Procs : stage[p] \in {"open", "writing"} => file.dirty /\ disk.dirty

\* Who is told that all is good (open_outcome::good, enums.hpp:33) has the data
\* of the last writer: not a torn file, and not a new one which nobody has
\* filled from the journals yet because nobody was told (database.hpp:120).
GoodMeansGood ==
    \A p \in Procs : stage[p] \in {"open", "writing"} /\ outcome[p] = "good"
                         => file.whole /\ ~ untold

\* While a process has the file open for writing no other process changes it,
\* those that are refused in the end (errc::no_access) included, if those that create,
\* reset or grow it are alone (Careless).
OnlyOwnerWrites ==
    [][\A p \in Procs : stage[p] \in {"open", "writing"} /\ stage'[p] = stage[p]
                            => file' = file]_vars

\* The segment manager never gives out memory behind the end of the file, whatever
\* size is asked for; openers that grow it are alone (Careless).
SegmentFits == file.header = "ok" => file.segment <= file.size

\* A file that nobody is working on can be opened: at least with
\* dirty_action::reset, which is there to get a clean state over any other.
Openable == file.exists /\ (\A p \in Procs : stage[p] = "out") => file.header = "ok"

\* Nobody who opens or closes the file waits for another process, one that has
\* the lock for ever included: an opener gets the file or an exception (try_lock,
\* database.cpp:144).
NobodyWaits ==
    \A p \in Procs :
        stage[p] \in Constructing \cup {"locked", "cleared", "closing"}
            ~> stage[p] \in {"open", "reading", "out"}
=============================================================================
