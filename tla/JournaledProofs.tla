--------------------------- MODULE JournaledProofs ---------------------------
(***************************************************************************)
(* A replay of the journal gives the container, or what the interrupted    *)
(* call made or would have made of it, for any number of rows, sessions,   *)
(* entries and crashes, unless a careless use has come before.             *)
(***************************************************************************)
EXTENDS Journaled, JournalProofs

-----------------------------------------------------------------------------
(* The invariant. *)

\* Every variable has its type, and positions are in the file.
Typed ==
    /\ container \in Contents(MaxId)
    /\ file \in Seq(Entries(MaxId)) /\ NoHeadAtEnd(file) /\ Len(file) <= MaxCells
    /\ pos \in 1 .. Len(file) + 1
    /\ last_entry \in [op : Ops \cup {"none"}, pos : 0 .. Len(file)]
    /\ last_entry.op # "none" => last_entry.pos # 0
    /\ stage \in Stages
    /\ db \in {"none", "clean", "dirty"}
    /\ outcome \in {"good", "created", "reset", "corrupted"}
    /\ losses \in 0 .. MaxLosses
    /\ strayed \in BOOLEAN

\* The entry under way, which fits
Underway ==
    /\ stage \in {"writing", "sealing", "removing"} =>
          entry \in Entries(MaxId) /\ entry.op # "rest"
    /\ stage = "removing" => entry.op = "remove"
    /\ stage = "writing" => ~ entry.sealed /\ Len(file) + Size(entry) <= MaxCells
    /\ stage = "sealing" =>
          ~ entry.sealed /\ pos + Size(entry) <= Len(file) + 1 /\ file[pos] = entry
    /\ stage # "closed" => db = "dirty"

\* The entry that may be overwritten is the one before the stream.
Kept ==
    /\ stage \in {"closed", "opened"} => last_entry = NoLast
    /\ stage = "removing" => last_entry.op = "remove"
    /\ stage \in {"idle", "writing"} /\ last_entry.op \in {"start_undo", "revision"} =>
          last_entry.pos + 1 = pos /\ file[last_entry.pos].op = last_entry.op

\* What the call under way makes of the container
Becoming == IF entry.op = "remove" THEN Removed(container, entry.id) ELSE container

\* Where the entry of a call will be written, and what it will be
Place(e) == IF CanCompress(last_entry.op, e.op) THEN last_entry.pos ELSE pos
Form(e)  == [e EXCEPT !.op = CompressedOp(last_entry.op, e.op)]

\* Entry e, in the place and the form that Write gives it, leads to b.
Ready(e, b) ==
    \E v : Reads(file, EmptyTable, Place(e), v) /\ Applied(v, Form(e)) = Accepts(b)

\* A recovery will give something that is expected.
Recovered == \E t \in expected : Whole(file, t) \/ Torn(file, t)

\* The journal gives t, which a recovery may give.
Gives(t) == Whole(file, t) /\ t \in expected

Recalls ==
    /\ stage \in {"closed", "opened"} => Recovered
    /\ stage = "closed" /\ db = "clean" => Gives(container)
    /\ stage = "opened" /\ ~ Recovers => Gives(container)
    /\ stage = "opened" /\ Recovers => container = EmptyTable
    /\ stage = "idle" => Gives(container) /\ pos = Len(file) + 1
    /\ stage = "writing" =>
          /\ pos = Len(file) + 1
          /\ \E t : Gives(t)
          /\ Becoming \in expected
          /\ Ready(entry, Becoming)
    /\ stage = "sealing" =>
          /\ Becoming \in expected
          /\ \E v : Reads(file, EmptyTable, pos, v) /\ Applied(v, entry) = Accepts(Becoming)
          /\ Len(file) + 1 = pos + Size(entry)
          /\ entry.op \in ObjectOps => file[pos + 1] = Rest
    /\ stage = "removing" => Gives(Becoming) /\ pos = Len(file) + 1

Order == Typed /\ Underway /\ Kept /\ (~ strayed => Recalls)

-----------------------------------------------------------------------------
(* The first state. *)

\* No file, and nothing expected but the empty container
LEMMA InitOrder == Init => Order
<1> SUFFICES ASSUME Init PROVE Order
  OBVIOUS
<1> USE DEF Init
<1>1. /\ << >> \in Seq(Entries(MaxId)) /\ Len(<< >>) = 0 /\ NoHeadAtEnd(<< >>)
      /\ EmptyTable \in Contents(MaxId)
  BY EmptyContents, JournaledAssumption DEF NoHeadAtEnd
<1>2. Typed
  <2>1. last_entry \in [op : Ops \cup {"none"}, pos : 0 .. Len(file)]
    BY <1>1 DEF NoLast
  <2>2. Len(file) <= MaxCells /\ pos \in 1 .. Len(file) + 1 /\ losses \in 0 .. MaxLosses
    BY <1>1, JournaledAssumption
  <2>3. last_entry.op = "none"
    BY DEF NoLast
  <2>4. stage \in Stages
    BY DEF Stages
  <2> QED
    BY <1>1, <2>1, <2>2, <2>3, <2>4 DEF Typed
<1>3. Underway /\ Kept
  BY DEF Underway, Kept, NoLast
<1>4. Recalls
  <2>1. Whole(file, EmptyTable)
    BY EmptyFile
  <2> QED
    BY <2>1 DEF Recalls, Recovered
<1> QED
  BY <1>2, <1>3, <1>4 DEF Order

-----------------------------------------------------------------------------
(* Opening and closing. *)

\* The database is opened; nobody looks at the journal yet.
LEMMA OpensOrder ==
    ASSUME Order, OpenNew \/ OpenGood \/ OpenReset \/ OpenAllow
    PROVE  Order'
<1> USE DEF OpenNew, OpenGood, OpenReset, OpenAllow, Opens
<1>1. /\ stage = "closed" /\ stage' = "opened" /\ db' = "dirty"
      /\ UNCHANGED <<file, pos, last_entry, entry, losses>>
  OBVIOUS
<1>2. EmptyTable \in Contents(MaxId)
  BY EmptyContents, JournaledAssumption
<1>3. Typed'
  BY <1>1, <1>2 DEF Order, Typed, Stages
<1>4. Underway' /\ Kept'
  BY <1>1 DEF Order, Underway, Kept
<1>5. ASSUME ~ strayed' PROVE Recalls'
  <2>1. /\ expected' = expected /\ Recalls
        /\ \/ container' = EmptyTable /\ outcome' \in {"created", "reset"}
           \/ container' = container /\ outcome' = "good" /\ db = "clean"
    BY <1>5 DEF Order
  <2>2. Recovered'
    BY <1>1, <2>1 DEF Recalls, Recovered
  <2>3. CASE container' = EmptyTable /\ outcome' \in {"created", "reset"}
    BY <1>1, <2>2, <2>3 DEF Recalls, Recovers
  <2>4. CASE container' = container /\ outcome' = "good" /\ db = "clean"
    <3>1. Gives(container)'
      BY <1>1, <2>1, <2>4 DEF Recalls, Gives
    <3> QED
      BY <1>1, <2>2, <2>4, <3>1 DEF Recalls, Recovers
  <2> QED
    BY <2>1, <2>3, <2>4
<1> QED
  BY <1>3, <1>4, <1>5 DEF Order

\* The journal of a database that was good is opened at its end.
LEMMA OpenJournalOrder ==
    ASSUME Order, OpenJournal
    PROVE  Order'
<1> USE DEF OpenJournal
<1>1. Typed'
  BY DEF Order, Typed, Stages
<1>2. Underway' /\ Kept'
  BY DEF Order, Underway, Kept, NoLast
<1>3. ASSUME ~ strayed' PROVE Recalls'
  <2>1. Gives(container)
    BY <1>3 DEF Order, Recalls
  <2>2. Gives(container)'
    BY <2>1 DEF Gives
  <2> QED
    BY <2>2 DEF Recalls
<1> QED
  BY <1>1, <1>2, <1>3 DEF Order

\* What a replay of a file that recovers gives
LEMMA RecoveredReplay ==
    ASSUME Order, ~ strayed, Recovered
    PROVE  /\ Replay(file, EmptyTable).status \in {"end", "torn"}
           /\ Replay(file, EmptyTable).table \in expected
           /\ Replay(file, EmptyTable).status = "end" =>
                 /\ Whole(file, Replay(file, EmptyTable).table)
                 /\ Replay(file, EmptyTable).pos = Len(file) + 1
<1>1. Len(file) \in Nat
  BY DEF Order, Typed
<1>2. PICK t \in expected : Whole(file, t) \/ Torn(file, t)
  BY DEF Recovered
<1>3. CASE Whole(file, t)
  BY <1>1, <1>2, <1>3, WholeReplay
<1>4. CASE Torn(file, t)
  BY <1>1, <1>2, <1>4, TornReplay
<1> QED
  BY <1>2, <1>3, <1>4

\* What any replay gives
LEMMA AnyReplay ==
    ASSUME Order
    PROVE  Replayed(MaxId, Len(file), Replay(file, container))
BY ReplayContents, JournaledAssumption DEF Order, Typed

\* The journal is replayed: the container is what the replay gives.
LEMMA RecoverOrder ==
    ASSUME Order, Recover
    PROVE  Order'
<1> DEFINE r == Replay(file, container)
<1>1. /\ stage = "opened" /\ Recovers /\ r.status \in {"end", "torn", "junk"}
      /\ stage' = "idle" /\ container' = r.table /\ expected' = {r.table}
      /\ \/ pos' = r.pos
         \/ r.pos = Len(file) /\ pos' = r.pos + 1
      /\ strayed' = (strayed \/ r.status # "end")
      /\ UNCHANGED <<file, last_entry, entry, db, outcome, losses>>
  BY DEF Recover
<1>2. Replayed(MaxId, Len(file), r)
  BY AnyReplay
<1>3. ~ strayed' => ~ strayed /\ r.status = "end"
  BY <1>1 DEF Order, Typed
<1>4. ASSUME ~ strayed'
      PROVE  Whole(file, r.table) /\ r.pos = Len(file) + 1
  <2>1. Recovered /\ container = EmptyTable
    BY <1>1, <1>3, <1>4 DEF Order, Recalls
  <2> QED
    BY <1>3, <1>4, <2>1, RecoveredReplay
<1> HIDE DEF r
<1>5. Typed'
  <2>1. Len(file) \in Nat
    BY DEF Order, Typed
  <2>2. pos' \in 1 .. Len(file) + 1 /\ container' \in Contents(MaxId)
    BY <1>1, <1>2, <2>1 DEF Replayed
  <2>3. strayed' \in BOOLEAN
    BY <1>1 DEF Order, Typed
  <2> QED
    BY <1>1, <2>2, <2>3 DEF Order, Typed, Stages
<1>6. Underway' /\ Kept'
  BY <1>1 DEF Order, Underway, Kept, NoLast
<1>7. ASSUME ~ strayed' PROVE Recalls'
  <2>1. Len(file) \in Nat
    BY DEF Order, Typed
  <2>2. Gives(container)'
    BY <1>1, <1>4, <1>7 DEF Gives
  <2>3. pos' = Len(file) + 1
    BY <1>1, <1>4, <1>7, <2>1
  <2> QED
    BY <1>1, <2>2, <2>3 DEF Recalls
<1> QED
  BY <1>5, <1>6, <1>7 DEF Order

\* A replay throws only if the journal went wrong before.
LEMMA RecoveryThrowsOrder ==
    ASSUME Order, RecoveryThrows
    PROVE  Order'
<1> DEFINE r == Replay(file, container)
<1>1. /\ stage = "opened" /\ Recovers /\ r.status \in {"refused", "junk"}
      /\ stage' = "closed" /\ db' = "clean" /\ container' = r.table
      /\ UNCHANGED <<file, pos, last_entry, entry, outcome, losses, expected, strayed>>
  BY DEF RecoveryThrows
<1>2. Replayed(MaxId, Len(file), r)
  BY AnyReplay
<1>3. strayed
  <2> SUFFICES ASSUME ~ strayed PROVE FALSE
    OBVIOUS
  <2>1. Recovered /\ container = EmptyTable
    BY <1>1 DEF Order, Recalls
  <2> QED
    BY <1>1, <2>1, RecoveredReplay
<1> HIDE DEF r
<1>4. Typed'
  BY <1>1, <1>2 DEF Order, Typed, Stages, Replayed
<1>5. Underway' /\ Kept'
  BY <1>1 DEF Order, Underway, Kept
<1> QED
  BY <1>1, <1>3, <1>4, <1>5 DEF Order

\* Closing and crashing leave the stream at the front and no last entry.
LEMMA ClosedParts ==
    ASSUME Order, CloseJournal, db' \in {"clean", "dirty"}, strayed' \in BOOLEAN,
           losses' \in 0 .. MaxLosses, UNCHANGED <<container, file, outcome>>
    PROVE  Typed' /\ Underway' /\ Kept'
<1>1. Len(file) \in Nat
  BY DEF Order, Typed
<1>2. NoLast \in [op : Ops \cup {"none"}, pos : 0 .. Len(file)]
  BY <1>1 DEF NoLast
<1>3. Typed'
  BY <1>1, <1>2 DEF Order, Typed, CloseJournal, Stages, NoLast
<1> QED
  BY <1>3 DEF Underway, Kept, CloseJournal

\* A clean end of the program
LEMMA CloseOrder ==
    ASSUME Order, Close
    PROVE  Order'
<1>1. /\ stage = "idle" /\ stage' = "closed" /\ db' = "clean" /\ CloseJournal
      /\ UNCHANGED <<container, file, outcome, losses, expected, strayed>>
  BY DEF Close, CloseJournal
<1>2. Typed' /\ Underway' /\ Kept'
  <2>1. strayed' \in BOOLEAN /\ losses' \in 0 .. MaxLosses
    BY <1>1 DEF Order, Typed
  <2> QED
    BY <1>1, <2>1, ClosedParts
<1>3. ASSUME ~ strayed' PROVE Recalls'
  <2>1. Gives(container)
    BY <1>1, <1>3 DEF Order, Recalls
  <2>2. Gives(container)' /\ Recovered'
    BY <1>1, <2>1 DEF Gives, Recovered
  <2> QED
    BY <1>1, <2>2 DEF Recalls
<1> QED
  BY <1>2, <1>3 DEF Order

\* The program ends without having read its journal.
LEMMA CloseUnreadOrder ==
    ASSUME Order, CloseUnread
    PROVE  Order'
<1>1. /\ stage = "opened" /\ stage' = "closed" /\ db' = "clean" /\ CloseJournal
      /\ strayed' = (strayed \/ (Recovers /\ file # << >>))
      /\ UNCHANGED <<container, file, outcome, losses, expected>>
  BY DEF CloseUnread, CloseJournal
<1>2. Typed' /\ Underway' /\ Kept'
  <2>1. strayed' \in BOOLEAN /\ losses' \in 0 .. MaxLosses
    BY <1>1 DEF Order, Typed
  <2> QED
    BY <1>1, <2>1, ClosedParts
<1>3. ASSUME ~ strayed' PROVE Recalls'
  <2>1. ~ strayed /\ Recalls /\ Recovered
    BY <1>1, <1>3 DEF Order, Recalls, Typed
  <2>2. Gives(container)
    <3>1. CASE ~ Recovers
      BY <1>1, <2>1, <3>1 DEF Recalls
    <3>2. CASE Recovers
      <4>1. file = << >> /\ container = EmptyTable
        BY <1>1, <1>3, <2>1, <3>2 DEF Recalls
      <4>2. PICK t \in expected : Whole(<< >>, t) \/ Torn(<< >>, t)
        BY <2>1, <4>1 DEF Recovered
      <4>3. t = EmptyTable /\ Whole(<< >>, EmptyTable)
        BY <4>2, EmptyFile
      <4> QED
        BY <4>1, <4>2, <4>3 DEF Gives
    <3> QED
      BY <3>1, <3>2
  <2>3. Gives(container)' /\ Recovered'
    BY <1>1, <2>2 DEF Gives, Recovered
  <2> QED
    BY <1>1, <2>3 DEF Recalls
<1> QED
  BY <1>2, <1>3 DEF Order

\* A crash at any step leaves a journal that recovers.
LEMMA CrashOrder ==
    ASSUME Order, Crash
    PROVE  Order'
<1>1. /\ stage # "closed" /\ stage' = "closed" /\ CloseJournal
      /\ losses < MaxLosses /\ losses' = losses + 1
      /\ UNCHANGED <<container, file, db, outcome, expected, strayed>>
  BY DEF Crash, CloseJournal
<1>2. db = "dirty"
  BY <1>1 DEF Order, Underway
<1>3. Typed' /\ Underway' /\ Kept'
  <2>1. strayed' \in BOOLEAN /\ losses' \in 0 .. MaxLosses
    BY <1>1, JournaledAssumption DEF Order, Typed
  <2> QED
    BY <1>1, <1>2, <2>1, ClosedParts
<1>4. ASSUME ~ strayed PROVE Recovered
  <2>1. Recalls /\ stage \in Stages /\ Len(file) \in Nat /\ pos \in Nat
    BY <1>4 DEF Order, Typed
  <2>2. CASE stage = "opened"
    BY <2>1, <2>2 DEF Recalls
  <2>3. CASE stage = "idle"
    BY <2>1, <2>3 DEF Recalls, Gives, Recovered
  <2>4. CASE stage = "writing"
    BY <2>1, <2>4 DEF Recalls, Gives, Recovered
  <2>5. CASE stage = "sealing"
    <3>1. PICK v : Reads(file, EmptyTable, pos, v) /\ Applied(v, entry) = Accepts(Becoming)
      BY <2>1, <2>5 DEF Recalls
    <3>2. entry.op \in Ops /\ ~ entry.sealed /\ file[pos] = entry
      BY <2>5 DEF Order, Underway, Entries
    <3>3. pos <= Len(file)
      <4>1. pos + Size(entry) <= Len(file) + 1
        BY <2>5 DEF Order, Underway
      <4> QED
        BY <2>1, <4>1, SizeIs
    <3>4. Torn(file, Becoming)
      BY <2>1, <3>1, <3>2, <3>3, TornMore
    <3>5. Becoming \in expected
      BY <2>1, <2>5 DEF Recalls
    <3> QED
      BY <3>4, <3>5 DEF Recovered
  <2>6. CASE stage = "removing"
    BY <2>1, <2>6 DEF Recalls, Gives, Recovered
  <2> QED
    BY <1>1, <2>1, <2>2, <2>3, <2>4, <2>5, <2>6 DEF Stages
<1>5. ASSUME ~ strayed' PROVE Recalls'
  <2>1. Recovered'
    BY <1>1, <1>4, <1>5 DEF Recovered
  <2> QED
    BY <1>1, <1>2, <2>1 DEF Recalls
<1> QED
  BY <1>3, <1>5 DEF Order

\* The database file is lost; the journal stays, and what it replays to.
LEMMA LoseDatabaseOrder ==
    ASSUME Order, LoseDatabase
    PROVE  Order'
<1>1. /\ stage = "closed" /\ losses < MaxLosses /\ losses' = losses + 1 /\ db' = "none"
      /\ UNCHANGED <<container, file, pos, last_entry, entry, stage, outcome,
                     expected, strayed>>
  BY DEF LoseDatabase
<1>2. Typed'
  <2>1. losses' \in 0 .. MaxLosses
    BY <1>1, JournaledAssumption DEF Order, Typed
  <2> QED
    BY <1>1, <2>1 DEF Order, Typed
<1>3. Underway' /\ Kept'
  BY <1>1 DEF Order, Underway, Kept
<1>4. ASSUME ~ strayed' PROVE Recalls'
  <2>1. Recovered'
    BY <1>1, <1>4 DEF Order, Recalls, Recovered
  <2> QED
    BY <1>1, <2>1 DEF Recalls
<1> QED
  BY <1>2, <1>3, <1>4 DEF Order

-----------------------------------------------------------------------------
(* Writing an entry. *)

\* An entry is written where the stream is, or over the one before.
LEMMA PlaceFits ==
    ASSUME Order, stage \in {"idle", "writing"}, NEW e
    PROVE  /\ Place(e) \in Nat /\ 0 < Place(e) /\ Place(e) <= Len(file) + 1
           /\ Place(e) <= pos
           /\ CanCompress(last_entry.op, e.op) =>
                 /\ Place(e) + 1 = pos /\ Size(e) = 1
                 /\ last_entry.op \in {"start_undo", "revision"}
                 /\ file[Place(e)].op = last_entry.op
           /\ ~ CanCompress(last_entry.op, e.op) => Place(e) = pos
<1>1. Len(file) \in Nat /\ pos \in 1 .. Len(file) + 1
  BY DEF Order, Typed
<1>2. CASE CanCompress(last_entry.op, e.op)
  <2>1. /\ last_entry.op \in {"start_undo", "revision"}
        /\ e.op \in {"commit", "start_undo", "revision"}
    BY <1>2 DEF CanCompress
  <2>2. last_entry.pos + 1 = pos /\ file[last_entry.pos].op = last_entry.op
    BY <2>1 DEF Order, Kept
  <2>3. last_entry.pos \in Nat /\ last_entry.pos # 0
    BY <1>1, <2>1 DEF Order, Typed
  <2>4. Size(e) = 1
    BY <2>1, SizeIs DEF ObjectOps
  <2>5. Place(e) = last_entry.pos
    BY <1>2 DEF Place
  <2> QED
    BY <1>1, <1>2, <2>1, <2>2, <2>3, <2>4, <2>5
<1>3. CASE ~ CanCompress(last_entry.op, e.op)
  BY <1>1, <1>3 DEF Place
<1> QED
  BY <1>2, <1>3

\* A call begins: the journal is as it was, and its entry is ready.
LEMMA BeginsOrder ==
    ASSUME Order, NEW e \in Entries(MaxId), e.op # "rest", ~ e.sealed, NEW b,
           Begins(e, b), container' \in Contents(MaxId),
           (IF e.op = "remove" THEN Removed(container', e.id) ELSE container') = b,
           strayed' \in BOOLEAN, ~ strayed' => ~ strayed /\ Ready(e, b)
    PROVE  Order'
<1>1. /\ stage = "idle" /\ stage' = "writing" /\ entry' = e
      /\ Len(file) + Size(e) <= MaxCells /\ expected' = {container, b}
      /\ UNCHANGED <<file, pos, last_entry, db, outcome, losses>>
  BY DEF Begins
<1>2. Typed'
  BY <1>1 DEF Order, Typed, Stages
<1>3. Underway' /\ Kept'
  BY <1>1 DEF Order, Underway, Kept
<1>4. ASSUME ~ strayed' PROVE Recalls'
  <2>1. Gives(container) /\ pos = Len(file) + 1
    BY <1>1, <1>4 DEF Order, Recalls
  <2>2. \E t : Gives(t)'
    BY <1>1, <2>1 DEF Gives
  <2>3. Becoming' = b
    BY <1>1 DEF Becoming
  <2>4. Ready(e, b)'
    BY <1>1, <1>4 DEF Ready, Place, Form
  <2>5. Ready(entry, Becoming)'
    BY <1>1, <2>3, <2>4
  <2> QED
    BY <1>1, <2>1, <2>2, <2>3, <2>5 DEF Recalls
<1> QED
  BY <1>2, <1>3, <1>4 DEF Order

\* The entry is written, its header not sealed: the journal is torn for a moment.
LEMMA WriteOrder ==
    ASSUME Order, Write
    PROVE  Order'
<1> DEFINE at == Place(entry)
           w  == Form(entry)
<1>1. /\ stage = "writing" /\ stage' = "sealing"
      /\ file' = Overwrite(file, at, Cells(w)) /\ entry' = w /\ pos' = at
      /\ UNCHANGED <<container, last_entry, db, outcome, losses, expected, strayed>>
  BY DEF Write, Place, Form
<1>2. /\ entry \in Entries(MaxId) /\ entry.op # "rest" /\ ~ entry.sealed
      /\ Len(file) + Size(entry) <= MaxCells /\ db = "dirty"
  BY <1>1 DEF Order, Underway
<1>3. /\ w \in Entries(MaxId) /\ w.op # "rest" /\ ~ w.sealed /\ w.id = entry.id
      /\ Size(w) = Size(entry) /\ (w.op = "remove" <=> entry.op = "remove")
  BY <1>2, FormIs, JournaledAssumption DEF Form
<1>4. /\ at \in Nat /\ 0 < at /\ at <= Len(file) + 1
      /\ CanCompress(last_entry.op, entry.op) => at + 1 = pos /\ Size(entry) = 1
      /\ ~ CanCompress(last_entry.op, entry.op) => at = pos
  BY <1>1, PlaceFits
<1>5. Ready(entry, Becoming) <=>
         \E v : Reads(file, EmptyTable, at, v) /\ Applied(v, w) = Accepts(Becoming)
  BY DEF Ready
<1>6. /\ file \in Seq(Entries(MaxId)) /\ NoHeadAtEnd(file) /\ Len(file) <= MaxCells
      /\ Len(file) \in Nat
  BY DEF Order, Typed
<1> HIDE DEF at, w
<1>7. /\ file' \in Seq(Entries(MaxId)) /\ NoHeadAtEnd(file')
      /\ Written(file, at, w, file')
      /\ Len(file') = IF Len(file) < at + Size(w) - 1 THEN at + Size(w) - 1 ELSE Len(file)
  BY <1>1, <1>3, <1>4, <1>6, WrittenFile, JournaledAssumption
<1>8. /\ file'[at] = w
      /\ w.op \in ObjectOps => file'[at + 1] = Rest
      /\ Size(w) \in {1, 2} /\ Len(file') \in Nat
  BY <1>7, SizeIs DEF Written
<1>9. /\ Len(file') <= MaxCells /\ at + Size(w) <= Len(file') + 1 /\ Len(file) <= Len(file')
      /\ at \in 1 .. Len(file') + 1
  <2>1. MaxCells \in Nat /\ Len(file) + Size(w) <= MaxCells
    BY <1>2, <1>3, JournaledAssumption
  <2>2. CASE Len(file) < at + Size(w) - 1
    BY <1>4, <1>6, <1>7, <1>8, <2>1, <2>2
  <2>3. CASE ~ (Len(file) < at + Size(w) - 1)
    BY <1>4, <1>6, <1>7, <1>8, <2>1, <2>3
  <2> QED
    BY <2>2, <2>3
<1>10. Typed'
  <2>1. last_entry' \in [op : Ops \cup {"none"}, pos : 0 .. Len(file')]
    BY <1>1, <1>6, <1>8, <1>9 DEF Order, Typed
  <2> QED
    BY <1>1, <1>7, <1>9, <2>1 DEF Order, Typed, Stages
<1>11. Underway' /\ Kept'
  BY <1>1, <1>2, <1>3, <1>8, <1>9 DEF Underway, Kept
<1>12. ASSUME ~ strayed' PROVE Recalls'
  <2>1. pos = Len(file) + 1 /\ Becoming \in expected /\ Ready(entry, Becoming)
    BY <1>1, <1>12 DEF Order, Recalls
  <2>2. Becoming' = Becoming
    BY <1>1, <1>3 DEF Becoming
  <2>3. PICK v : Reads(file, EmptyTable, at, v) /\ Applied(v, w) = Accepts(Becoming)
    BY <1>5, <2>1
  <2>4. Reads(file', EmptyTable, at, v)
    <3>1. \A i \in Nat : i > 0 /\ i < at => i \in 1 .. Len(file)
      BY <1>4, <1>6
    <3>2. \A i \in Nat : i > 0 /\ i < at => file'[i] = file[i]
      BY <1>7, <3>1 DEF Written
    <3> QED
      BY <2>3, <3>2, ReadsAgree
  <2>5. Len(file') + 1 = at + Size(w)
    BY <1>3, <1>4, <1>6, <1>7, <1>8, <2>1
  <2> QED
    BY <1>1, <1>8, <2>1, <2>2, <2>3, <2>4, <2>5 DEF Recalls
<1> QED
  BY <1>10, <1>11, <1>12 DEF Order

\* The header is written again: the journal gives what the call makes.
LEMMA SealOrder ==
    ASSUME Order, Seal
    PROVE  Order'
<1> DEFINE w == Sealed(entry)
<1>1. /\ stage = "sealing"
      /\ file' = Overwrite(file, pos, Cells(w))
      /\ last_entry' = [op |-> entry.op, pos |-> pos]
      /\ pos' = pos + Size(entry)
      /\ entry.op = "remove" => stage' = "removing" /\ entry' = entry
      /\ entry.op # "remove" => stage' = "idle" /\ entry' = NoEntry
      /\ expected' = {Becoming}
      /\ UNCHANGED <<container, db, outcome, losses, strayed>>
  BY DEF Seal, Becoming, Remembered
<1>2. /\ entry \in Entries(MaxId) /\ entry.op # "rest" /\ db = "dirty"
      /\ pos + Size(entry) <= Len(file) + 1
  BY <1>1 DEF Order, Underway
<1>3. /\ w \in Entries(MaxId) /\ w.sealed /\ w.op = entry.op /\ Size(w) = Size(entry)
      /\ \A t : Applied(t, w) = Applied(t, entry)
  BY <1>2, SealedApplied, SizeIs
<1>4. /\ file \in Seq(Entries(MaxId)) /\ NoHeadAtEnd(file) /\ Len(file) <= MaxCells
      /\ Len(file) \in Nat /\ pos \in Nat /\ 0 < pos
  BY DEF Order, Typed
<1> HIDE DEF w
<1>5. Size(w) \in {1, 2} /\ (Size(w) = 2 <=> entry.op \in ObjectOps) /\ entry.op \in Ops
  BY <1>2, <1>3, SizeIs DEF Entries
<1>6. /\ file' \in Seq(Entries(MaxId)) /\ NoHeadAtEnd(file')
      /\ Written(file, pos, w, file')
      /\ Len(file') = Len(file)
  <2>1. pos <= Len(file) + 1
    BY <1>2, <1>3, <1>4, <1>5
  <2>2. /\ file' \in Seq(Entries(MaxId)) /\ NoHeadAtEnd(file')
        /\ Written(file, pos, w, file')
        /\ Len(file') = IF Len(file) < pos + Size(w) - 1 THEN pos + Size(w) - 1
                        ELSE Len(file)
    BY <1>1, <1>3, <1>4, <2>1, WrittenFile, JournaledAssumption
  <2>3. ~ (Len(file) < pos + Size(w) - 1)
    BY <1>2, <1>3, <1>4, <1>5
  <2> QED
    BY <2>2, <2>3
<1>7. pos' \in 1 .. Len(file) + 1 /\ pos <= Len(file)
  BY <1>1, <1>2, <1>3, <1>4, <1>5
<1>8. Typed'
  <2>1. last_entry' \in [op : Ops \cup {"none"}, pos : 0 .. Len(file')]
    BY <1>1, <1>4, <1>5, <1>6, <1>7
  <2>2. last_entry'.pos # 0
    BY <1>1, <1>4
  <2>3. stage' \in Stages
    BY <1>1 DEF Stages
  <2> QED
    BY <1>1, <1>6, <1>7, <2>1, <2>2, <2>3 DEF Order, Typed
<1>9. Underway'
  BY <1>1, <1>2 DEF Underway
<1>10. Kept'
  <2>1. ASSUME stage' = "idle", last_entry'.op \in {"start_undo", "revision"}
        PROVE  last_entry'.pos + 1 = pos' /\ file'[last_entry'.pos].op = last_entry'.op
    <3>1. entry.op \in {"start_undo", "revision"} /\ last_entry'.pos = pos
      BY <1>1, <2>1
    <3>2. Size(entry) = 1
      BY <1>3, <1>5, <3>1 DEF ObjectOps
    <3>3. file'[pos] = w
      BY <1>6 DEF Written
    <3> QED
      BY <1>1, <1>3, <3>1, <3>2, <3>3
  <2> QED
    BY <1>1, <2>1 DEF Kept
<1>11. ASSUME ~ strayed' PROVE Recalls'
  <2>1. PICK v : Reads(file, EmptyTable, pos, v) /\ Applied(v, entry) = Accepts(Becoming)
    BY <1>1, <1>11 DEF Order, Recalls
  <2>2. Len(file) + 1 = pos + Size(entry)
    BY <1>1, <1>11 DEF Order, Recalls
  <2>3. Len(file') = pos + Size(w) - 1
    BY <1>3, <1>4, <1>5, <1>6, <2>2
  <2>4. pos <= Len(file) + 1
    BY <1>4, <1>7
  <2>5. w.op \in Ops /\ w.sealed /\ Applied(v, w) = Accepts(Becoming)
    BY <1>3, <1>5, <2>1
  <2>6. Whole(file', Becoming)
    BY <1>4, <1>6, <2>1, <2>3, <2>4, <2>5, WholeMore
  <2>7. pos' = Len(file') + 1
    BY <1>1, <1>6, <2>2
  <2>8. CASE entry.op = "remove"
    <3>1. Becoming' = Becoming
      BY <1>1, <2>8 DEF Becoming
    <3>2. Gives(Becoming)'
      BY <1>1, <2>6, <3>1 DEF Gives
    <3> QED
      BY <1>1, <2>7, <2>8, <3>2 DEF Recalls
  <2>9. CASE entry.op # "remove"
    <3>1. container' = Becoming
      BY <1>1, <2>9 DEF Becoming
    <3>2. Gives(container)'
      BY <1>1, <2>6, <3>1 DEF Gives
    <3> QED
      BY <1>1, <2>7, <2>9, <3>2 DEF Recalls
  <2> QED
    BY <2>8, <2>9
<1> QED
  BY <1>8, <1>9, <1>10, <1>11 DEF Order

\* The row is erased after its entry.
LEMMA FinishRemoveOrder ==
    ASSUME Order, FinishRemove
    PROVE  Order'
<1>1. /\ stage = "removing" /\ stage' = "idle"
      /\ container' = Removed(container, entry.id) /\ entry' = NoEntry
      /\ UNCHANGED <<file, pos, last_entry, db, outcome, losses, expected, strayed>>
  BY DEF FinishRemove
<1>2. Typed'
  <2>1. container' \in Contents(MaxId)
    BY <1>1, RemovedContents, JournaledAssumption DEF Order, Typed
  <2> QED
    BY <1>1, <2>1 DEF Order, Typed, Stages
<1>3. Underway' /\ Kept'
  BY <1>1 DEF Order, Underway, Kept
<1>4. ASSUME ~ strayed' PROVE Recalls'
  <2>1. Gives(Becoming) /\ pos = Len(file) + 1
    BY <1>1, <1>4 DEF Order, Recalls
  <2>2. entry.op = "remove"
    BY <1>1 DEF Order, Underway
  <2>3. Gives(container)'
    BY <1>1, <2>1, <2>2 DEF Becoming, Gives
  <2> QED
    BY <1>1, <2>1, <2>3 DEF Recalls
<1> QED
  BY <1>2, <1>3, <1>4 DEF Order

-----------------------------------------------------------------------------
(* Calls. *)

\* What is ready when no call is under way: the journal gives the container, and
\* its last cell, if it will be overwritten, is the entry that gave it.
LEMMA IdleParts ==
    ASSUME Order, stage = "idle", ~ strayed
    PROVE  Reads(file, EmptyTable, pos, container)
BY DEF Order, Recalls, Gives, Whole

\* The entry that another may take the place of gave what the container is.
LEMMA OverLast ==
    ASSUME Order, stage = "idle", ~ strayed, NEW e, CanCompress(last_entry.op, e.op)
    PROVE  \E v \in Contents(MaxId) : \E l \in Entries(MaxId) :
              /\ Reads(file, EmptyTable, Place(e), v)
              /\ l.op = last_entry.op
              /\ Applied(v, l) = Accepts(container)
<1>1. /\ Place(e) \in Nat /\ 0 < Place(e) /\ Place(e) + 1 = pos
      /\ file[Place(e)].op = last_entry.op
      /\ last_entry.op \in {"start_undo", "revision"}
  BY PlaceFits
<1>2. Whole(file, container) /\ pos = Len(file) + 1 /\ Len(file) \in Nat
  BY DEF Order, Recalls, Gives, Typed
<1>3. Place(e) = Len(file) /\ Len(file) > 0
  BY <1>1, <1>2
<1>4. file[Len(file)].op \notin ObjectOps /\ file[Len(file)].op # "rest"
  BY <1>1, <1>3 DEF ObjectOps
<1>5. PICK v : /\ Reads(file, EmptyTable, Len(file), v)
               /\ Applied(v, file[Len(file)]) = Accepts(container)
  BY <1>2, <1>3, <1>4, WholeLast
<1>6. file \in Seq(Entries(MaxId)) /\ file[Len(file)] \in Entries(MaxId)
  BY <1>3 DEF Order, Typed
<1>7. v \in Contents(MaxId)
  <2>1. Len(file) <= Len(file) + 1 /\ EmptyTable \in Contents(MaxId)
    BY <1>2, EmptyContents, JournaledAssumption
  <2> QED
    BY <1>5, <1>6, <2>1, ReadsContents, JournaledAssumption
<1> QED
  BY <1>1, <1>3, <1>5, <1>6, <1>7

\* An entry that is written at the end is ready if the container accepts it.
LEMMA ReadyAtEnd ==
    ASSUME Order, stage = "idle", ~ strayed, NEW e \in Entries(MaxId), e.op # "rest",
           ~ CanCompress(last_entry.op, e.op), NEW b, Applied(container, e) = Accepts(b)
    PROVE  Ready(e, b)
<1>1. Form(e) = e
  <2>1. CompressedOp(last_entry.op, e.op) = e.op
    BY DEF CompressedOp
  <2> QED
    BY <2>1 DEF Form, Entries
<1>2. Place(e) = pos
  BY DEF Place
<1> QED
  BY <1>1, <1>2, IdleParts DEF Ready

\* The entries of a row
LEMMA RowEntryIs ==
    ASSUME NEW op \in {"insert", "modify"}, NEW id \in 0 .. MaxId, NEW v \in Vals
    PROVE  LET e == RowEntry(op, id, v)
           IN  /\ e \in Entries(MaxId) /\ e.op = op /\ e.id = id /\ e.val = v
               /\ ~ e.sealed /\ e.op # "rest" /\ \A last : ~ CanCompress(last, e.op)
BY DEF RowEntry, Entry, Entries, Ops, ObjectOps, CanCompress

\* The entry of a row that goes
LEMMA RemoveEntryIs ==
    ASSUME NEW id \in 0 .. MaxId
    PROVE  LET e == RowEntry("remove", id, NoVal)
           IN  /\ e \in Entries(MaxId) /\ e.op = "remove" /\ e.id = id
               /\ ~ e.sealed /\ e.op # "rest" /\ \A last : ~ CanCompress(last, e.op)
BY DEF RowEntry, Entry, Entries, Ops, ObjectOps, CanCompress

\* The entries of a session
LEMMA SessionEntryIs ==
    ASSUME NEW op \in SessionOps, NEW rev \in Nat
    PROVE  LET e == SessionEntry(op, rev)
           IN  /\ e \in Entries(MaxId) /\ e.op = op /\ e.rev = rev
               /\ ~ e.sealed /\ e.op # "rest" /\ e.op # "remove"
BY JournaledAssumption DEF SessionEntry, Entry, Entries, Ops, ObjectOps, SessionOps

\* A new row and a changed one
LEMMA RowCallsOrder ==
    ASSUME Order, NEW id \in 0 .. MaxId, NEW v \in Vals, Create(id, v) \/ Modify(id, v)
    PROVE  Order'
<1>1. container \in Contents(MaxId) /\ strayed \in BOOLEAN
  BY DEF Order, Typed
<1>2. CASE Create(id, v)
  <2> DEFINE e == RowEntry("insert", id, v)
             b == Emplaced(container, id, v)
  <2>1. /\ id >= container.next_id /\ Begins(e, b) /\ container' = b
        /\ strayed' = strayed /\ stage = "idle"
    BY <1>2 DEF Create, Does, Becomes, Begins
  <2>2. /\ e \in Entries(MaxId) /\ e.op = "insert" /\ e.id = id /\ e.val = v /\ ~ e.sealed
        /\ e.op # "rest" /\ ~ CanCompress(last_entry.op, e.op)
    BY RowEntryIs
  <2>3. b \in Contents(MaxId)
    BY <1>1, EmplacedContents, JournaledAssumption
  <2> HIDE DEF e
  <2>4. Applied(container, e) = Accepts(b)
    BY <2>1, <2>2, AppliedRows
  <2> HIDE DEF b
  <2>5. ~ strayed => Ready(e, b)
    BY <2>1, <2>2, <2>4, ReadyAtEnd
  <2> QED
    BY <1>1, <2>1, <2>2, <2>3, <2>5, BeginsOrder
<1>3. CASE Modify(id, v)
  <2> DEFINE e == RowEntry("modify", id, v)
             b == Modified(container, id, v)
  <2>1. /\ id \in DOMAIN container.rows /\ Begins(e, b) /\ container' = b
        /\ strayed' = strayed /\ stage = "idle"
    BY <1>3 DEF Modify, Does, Becomes, Begins
  <2>2. /\ e \in Entries(MaxId) /\ e.op = "modify" /\ e.id = id /\ e.val = v /\ ~ e.sealed
        /\ e.op # "rest" /\ ~ CanCompress(last_entry.op, e.op)
    BY RowEntryIs
  <2>3. b \in Contents(MaxId)
    BY <1>1, <2>1, ModifiedContents, JournaledAssumption
  <2> HIDE DEF e
  <2>4. Applied(container, e) = Accepts(b)
    BY <2>1, <2>2, AppliedRows
  <2> HIDE DEF b
  <2>5. ~ strayed => Ready(e, b)
    BY <2>1, <2>2, <2>4, ReadyAtEnd
  <2> QED
    BY <1>1, <2>1, <2>2, <2>3, <2>5, BeginsOrder
<1> QED
  BY <1>2, <1>3

\* The entry of a row that goes is written before the row goes.
LEMMA RemoveOrder ==
    ASSUME Order, NEW id \in 0 .. MaxId, Remove(id)
    PROVE  Order'
<1> DEFINE e == RowEntry("remove", id, NoVal)
           b == Removed(container, id)
<1>1. /\ id \in DOMAIN container.rows /\ Begins(e, b) /\ container' = container
      /\ strayed' = strayed /\ stage = "idle"
  BY DEF Remove, Begins
<1>2. /\ e \in Entries(MaxId) /\ e.op = "remove" /\ e.id = id /\ ~ e.sealed
      /\ e.op # "rest" /\ ~ CanCompress(last_entry.op, e.op)
  BY RemoveEntryIs
<1>3. container' \in Contents(MaxId) /\ strayed' \in BOOLEAN
  BY <1>1 DEF Order, Typed
<1> HIDE DEF e
<1>4. Applied(container, e) = Accepts(b)
  BY <1>1, <1>2, AppliedRows
<1>5. Removed(container', e.id) = b
  BY <1>1, <1>2
<1> HIDE DEF b
<1>6. ~ strayed => Ready(e, b)
  BY <1>1, <1>2, <1>4, ReadyAtEnd
<1> QED
  BY <1>1, <1>2, <1>3, <1>5, <1>6, BeginsOrder

\* A session's start goes at the end or over a revision.
LEMMA StartUndoOrder ==
    ASSUME Order, StartUndo
    PROVE  Order'
<1> DEFINE e == SessionEntry("start_undo", container.revision + 1)
           b == SessionStarted(container)
<1>1. /\ Begins(e, b) /\ container' = b /\ strayed' = strayed /\ stage = "idle"
  BY DEF StartUndo, Does, Becomes, Begins
<1>2. container \in Contents(MaxId) /\ strayed \in BOOLEAN /\ container.revision \in Nat
  BY DEF Order, Typed, Contents, Tables
<1>3. /\ e \in Entries(MaxId) /\ e.op = "start_undo" /\ e.rev = container.revision + 1
      /\ ~ e.sealed /\ e.op # "rest" /\ e.op # "remove"
  BY <1>2, SessionEntryIs DEF SessionOps
<1>4. b \in Contents(MaxId)
  BY <1>2, StartedContents, JournaledAssumption
<1> HIDE DEF e, b
<1>5. ASSUME ~ strayed PROVE Ready(e, b)
  <2>1. CASE CanCompress(last_entry.op, e.op)
    <3>1. PICK v \in Contents(MaxId), l \in Entries(MaxId) :
             /\ Reads(file, EmptyTable, Place(e), v)
             /\ l.op = last_entry.op
             /\ Applied(v, l) = Accepts(container)
      BY <1>1, <1>5, <2>1, OverLast
    <3>2. l.op = "revision" /\ l.rev \in Nat
      BY <1>3, <2>1, <3>1 DEF CanCompress, Entries
    <3>3. Form(e).op = "start_undo" /\ Form(e).rev = container.revision + 1
      BY <1>3, FormIs, JournaledAssumption DEF Form, CompressedOp
    <3>4. Applied(v, Form(e)) = Accepts(b)
      BY <3>1, <3>2, <3>3, StartOverRevision, JournaledAssumption DEF b
    <3> QED
      BY <3>1, <3>4 DEF Ready
  <2>2. CASE ~ CanCompress(last_entry.op, e.op)
    <3>1. Applied(container, e) = Accepts(b)
      BY <1>2, <1>3, TakesStart DEF b
    <3> QED
      BY <1>1, <1>3, <1>5, <2>2, <3>1, ReadyAtEnd
  <2> QED
    BY <2>1, <2>2
<1> QED
  BY <1>1, <1>2, <1>3, <1>4, <1>5, BeginsOrder

\* A revision goes at the end, or over the last one.
LEMMA SetRevisionOrder ==
    ASSUME Order, NEW r \in 0 .. MaxRevision, SetRevision(r)
    PROVE  Order'
<1> DEFINE e == SessionEntry("revision", r)
           b == WithRevision(container, r)
<1>1. /\ MaySetRevision(container, r)
      /\ Begins(e, b) /\ container' = b /\ strayed' = strayed /\ stage = "idle"
  BY DEF SetRevision, Does, Becomes, Begins
<1>2. container \in Contents(MaxId) /\ strayed \in BOOLEAN /\ r \in Nat
  BY JournaledAssumption DEF Order, Typed
<1>3. /\ e \in Entries(MaxId) /\ e.op = "revision" /\ e.rev = r
      /\ ~ e.sealed /\ e.op # "rest" /\ e.op # "remove"
  BY <1>2, SessionEntryIs DEF SessionOps
<1>4. b \in Contents(MaxId)
  BY <1>1, <1>2, RevisionContents, JournaledAssumption DEF MaySetRevision
<1> HIDE DEF e, b
<1>5. ASSUME ~ strayed PROVE Ready(e, b)
  <2>1. CASE CanCompress(last_entry.op, e.op)
    <3>1. PICK v \in Contents(MaxId), l \in Entries(MaxId) :
             /\ Reads(file, EmptyTable, Place(e), v)
             /\ l.op = last_entry.op
             /\ Applied(v, l) = Accepts(container)
      BY <1>1, <1>5, <2>1, OverLast
    <3>2. l.op = "revision" /\ l.rev \in Nat
      BY <1>3, <2>1, <3>1 DEF CanCompress, Entries
    <3>3. Form(e).op = "revision" /\ Form(e).rev = r
      BY <1>3, <2>1, FormIs, JournaledAssumption DEF Form, CompressedOp
    <3>4. Applied(v, Form(e)) = Accepts(b)
      BY <1>1, <1>2, <3>1, <3>2, <3>3, RevisionOverRevision, JournaledAssumption DEF b
    <3> QED
      BY <3>1, <3>4 DEF Ready
  <2>2. CASE ~ CanCompress(last_entry.op, e.op)
    <3>1. Applied(container, e) = Accepts(b)
      BY <1>1, <1>3, TakesRevision DEF b
    <3> QED
      BY <1>1, <1>3, <1>5, <2>2, <3>1, ReadyAtEnd
  <2> QED
    BY <2>1, <2>2
<1> QED
  BY <1>1, <1>2, <1>3, <1>4, <1>5, BeginsOrder

\* A commit of all sessions goes at the end, or over the start of the only one.
LEMMA CommitOrder ==
    ASSUME Order, NEW r \in 0 .. MaxRevision, Commit(r)
    PROVE  Order'
<1> DEFINE e == SessionEntry("commit", container.revision)
           b == Committed(container, r)
           all     == r >= container.revision
           at_once == last_entry.op = "start_undo"
           stray   == {use \in CarelessUses :
                        \/ /\ use = "partial_commit"
                           /\ ~ all /\ container.saved # << >>
                        \/ /\ use = "commit_after_start"
                           /\ at_once /\ (~ all \/ Len(container.saved) # 1)}
<1>1. /\ Begins(e, b) /\ container' = b /\ stage = "idle"
      /\ strayed' = (strayed \/ stray # {})
  BY DEF Commit, Becomes, Begins
<1>2. /\ container \in Contents(MaxId) /\ strayed \in BOOLEAN /\ r \in Nat
      /\ container.revision \in Nat
  BY JournaledAssumption DEF Order, Typed, Contents, Tables
<1>3. /\ e \in Entries(MaxId) /\ e.op = "commit" /\ e.rev = container.revision
      /\ ~ e.sealed /\ e.op # "rest" /\ e.op # "remove"
  BY <1>2, SessionEntryIs DEF SessionOps
<1>4. b \in Contents(MaxId)
  BY <1>2, CommittedContents, JournaledAssumption
<1>5. ASSUME ~ strayed'
      PROVE  /\ ~ strayed
             /\ all \/ container.saved = << >>
             /\ at_once => all /\ Len(container.saved) = 1
  <2>1. ~ strayed /\ stray = {}
    BY <1>1, <1>2, <1>5
  <2>2. "partial_commit" \notin stray /\ "commit_after_start" \notin stray
    BY <2>1
  <2> QED
    BY <2>1, <2>2 DEF CarelessUses
<1>6. strayed' \in BOOLEAN
  BY <1>1, <1>2
<1> HIDE DEF e, b, stray
<1>7. ASSUME ~ strayed' PROVE Ready(e, b)
  <2>1. CASE CanCompress(last_entry.op, e.op)
    <3>1. PICK v \in Contents(MaxId), l \in Entries(MaxId) :
             /\ Reads(file, EmptyTable, Place(e), v)
             /\ l.op = last_entry.op
             /\ Applied(v, l) = Accepts(container)
      BY <1>1, <1>5, <1>7, <2>1, OverLast
    <3>2. l.op = "start_undo" /\ l.rev \in Nat
      BY <1>3, <2>1, <3>1 DEF CanCompress, Entries
    <3>3. Form(e).op = "revision" /\ Form(e).rev = container.revision
      BY <1>3, <2>1, FormIs, JournaledAssumption DEF Form, CompressedOp
    <3>4. all /\ Len(container.saved) = 1
      BY <1>5, <1>7, <3>1, <3>2
    <3>5. Applied(v, Form(e)) = Accepts(b)
      BY <1>2, <3>1, <3>2, <3>3, <3>4, CommitOverStart, JournaledAssumption DEF b
    <3> QED
      BY <3>1, <3>5 DEF Ready
  <2>2. CASE ~ CanCompress(last_entry.op, e.op)
    <3>1. Applied(container, e) = Accepts(b)
      BY <1>2, <1>3, <1>5, <1>7, TakesCommit, JournaledAssumption DEF b
    <3> QED
      BY <1>1, <1>3, <1>5, <1>7, <2>2, <3>1, ReadyAtEnd
  <2> QED
    BY <2>1, <2>2
<1> QED
  BY <1>1, <1>3, <1>4, <1>5, <1>6, <1>7, BeginsOrder

\* One session undone, or all
LEMMA UndoOrder ==
    ASSUME Order, Undo \/ UndoAll
    PROVE  Order'
<1>1. container \in Contents(MaxId) /\ strayed \in BOOLEAN
  BY DEF Order, Typed
<1>2. /\ Undone(container) \in Contents(MaxId) /\ AllUndone(container) \in Contents(MaxId)
      /\ Undone(container).revision \in Nat /\ AllUndone(container).revision \in Nat
  <2>1. Undone(container) \in Contents(MaxId) /\ AllUndone(container) \in Contents(MaxId)
    BY <1>1, UndoneContents, JournaledAssumption
  <2> QED
    BY <2>1 DEF Contents, Tables
<1>3. CASE Undo
  <2> DEFINE b == Undone(container)
             e == SessionEntry("undo", b.revision)
  <2>1. Begins(e, b) /\ container' = b /\ strayed' = strayed /\ stage = "idle"
    BY <1>3 DEF Undo, Does, Becomes, Begins
  <2>2. /\ e \in Entries(MaxId) /\ e.op = "undo" /\ e.rev = b.revision
        /\ ~ e.sealed /\ e.op # "rest" /\ e.op # "remove"
    BY <1>2, SessionEntryIs DEF SessionOps
  <2>3. ~ CanCompress(last_entry.op, e.op)
    BY <2>2 DEF CanCompress
  <2> HIDE DEF e
  <2>4. Applied(container, e) = Accepts(b)
    BY <2>2, TakesUndo
  <2>5. b \in Contents(MaxId)
    BY <1>2
  <2> HIDE DEF b
  <2>6. ~ strayed => Ready(e, b)
    BY <2>1, <2>2, <2>3, <2>4, ReadyAtEnd
  <2> QED
    BY <1>1, <2>1, <2>2, <2>5, <2>6, BeginsOrder
<1>4. CASE UndoAll
  <2> DEFINE b == AllUndone(container)
             e == SessionEntry("undo_all", b.revision)
  <2>1. Begins(e, b) /\ container' = b /\ strayed' = strayed /\ stage = "idle"
    BY <1>4 DEF UndoAll, Does, Becomes, Begins
  <2>2. /\ e \in Entries(MaxId) /\ e.op = "undo_all" /\ e.rev = b.revision
        /\ ~ e.sealed /\ e.op # "rest" /\ e.op # "remove"
    BY <1>2, SessionEntryIs DEF SessionOps
  <2>3. ~ CanCompress(last_entry.op, e.op)
    BY <2>2 DEF CanCompress
  <2> HIDE DEF e
  <2>4. Applied(container, e) = Accepts(b)
    BY <2>2, TakesUndo
  <2>5. b \in Contents(MaxId)
    BY <1>2
  <2> HIDE DEF b
  <2>6. ~ strayed => Ready(e, b)
    BY <2>1, <2>2, <2>3, <2>4, ReadyAtEnd
  <2> QED
    BY <1>1, <2>1, <2>2, <2>5, <2>6, BeginsOrder
<1> QED
  BY <1>3, <1>4

\* A change that the journal does not hear of: nothing is claimed from here on.
LEMMA UnjournaledOrder ==
    ASSUME Order, NEW b \in Contents(MaxId), Unjournaled(b)
    PROVE  Order'
<1>1. /\ stage = "idle" /\ container' = b /\ strayed' = TRUE
      /\ UNCHANGED <<file, pos, last_entry, entry, stage, db, outcome, losses>>
  BY DEF Unjournaled
<1>2. Typed'
  BY <1>1 DEF Order, Typed
<1>3. Underway' /\ Kept'
  BY <1>1 DEF Order, Underway, Kept
<1> QED
  BY <1>1, <1>2, <1>3 DEF Order

\* What the program does beyond what is safe gives up the journal.
LEMMA CarelessOrder ==
    ASSUME Order,
           \/ SessionHandle
           \/ \E id \in 0 .. MaxId, v \in Vals : FailingModify(id, v)
    PROVE  Order'
<1>1. container \in Contents(MaxId)
  BY DEF Order, Typed
<1>2. CASE SessionHandle
  <2>1. Undone(container) \in Contents(MaxId) /\ Squashed(container) \in Contents(MaxId)
    BY <1>1, UndoneContents, SquashedContents, JournaledAssumption
  <2> QED
    BY <1>2, <2>1, UnjournaledOrder DEF SessionHandle
<1>3. ASSUME NEW id \in 0 .. MaxId, NEW v \in Vals, FailingModify(id, v)
      PROVE  Order'
  <2>1. id \in DOMAIN container.rows
    BY <1>3 DEF FailingModify
  <2>2. Modified(container, id, v) \in Contents(MaxId)
    BY <1>1, <2>1, ModifiedContents, JournaledAssumption
  <2>3. Removed(container, id) \in Contents(MaxId)
    BY <1>1, RemovedContents, JournaledAssumption
  <2> QED
    BY <1>3, <2>2, <2>3, UnjournaledOrder DEF FailingModify
<1> QED
  BY <1>2, <1>3

-----------------------------------------------------------------------------
(* The theorems. *)

\* The invariant holds of the first state and is kept by every step.
LEMMA StutterOrder ==
    ASSUME Order, UNCHANGED vars
    PROVE  Order'
<1> USE DEF vars
<1>1. Typed'
  BY DEF Order, Typed
<1>2. Underway' /\ Kept'
  BY DEF Order, Underway, Kept
<1>3. ASSUME ~ strayed' PROVE Recalls'
  <2>1. Recalls
    BY <1>3 DEF Order
  <2> QED
    BY <2>1 DEF Recalls, Recovered, Recovers, Gives, Becoming, Ready, Place, Form
<1> QED
  BY <1>1, <1>2, <1>3 DEF Order

\* Every step keeps the invariant.
LEMMA NextOrder ==
    ASSUME Order, [Next]_vars
    PROVE  Order'
<1>1. CASE OpenNew \/ OpenGood \/ OpenReset \/ OpenAllow
  BY <1>1, OpensOrder
<1>2. CASE OpenJournal
  BY <1>2, OpenJournalOrder
<1>3. CASE Recover
  BY <1>3, RecoverOrder
<1>4. CASE RecoveryThrows
  BY <1>4, RecoveryThrowsOrder
<1>5. CASE Close
  BY <1>5, CloseOrder
<1>6. CASE CloseUnread
  BY <1>6, CloseUnreadOrder
<1>7. CASE Crash
  BY <1>7, CrashOrder
<1>8. CASE LoseDatabase
  BY <1>8, LoseDatabaseOrder
<1>9. CASE Write
  BY <1>9, WriteOrder
<1>10. CASE Seal
  BY <1>10, SealOrder
<1>11. CASE FinishRemove
  BY <1>11, FinishRemoveOrder
<1>12. CASE \E id \in 0 .. MaxId : Remove(id)
  BY <1>12, RemoveOrder
<1>13. CASE \E id \in 0 .. MaxId, v \in Vals : Create(id, v) \/ Modify(id, v)
  BY <1>13, RowCallsOrder
<1>14. CASE \E r \in 0 .. MaxRevision : SetRevision(r)
  BY <1>14, SetRevisionOrder
<1>15. CASE \E r \in 0 .. MaxRevision : Commit(r)
  BY <1>15, CommitOrder
<1>16. CASE StartUndo
  BY <1>16, StartUndoOrder
<1>17. CASE Undo \/ UndoAll
  BY <1>17, UndoOrder
<1>18. CASE SessionHandle \/ \E id \in 0 .. MaxId, v \in Vals : FailingModify(id, v)
  BY <1>18, CarelessOrder
<1>19. CASE UNCHANGED vars
  BY <1>19, StutterOrder
<1> QED
  BY <1>1, <1>2, <1>3, <1>4, <1>5, <1>6, <1>7, <1>8, <1>9, <1>10, <1>11, <1>12, <1>13,
     <1>14, <1>15, <1>16, <1>17, <1>18, <1>19 DEF Next

\* Types, positions, the entry that may be overwritten, and, until a careless
\* use, what the journal gives at every step of a call, a recovery or a crash.
THEOREM OrderHolds == Spec => []Order
<1>1. Init => Order
  BY InitOrder
<1>2. Order /\ [Next]_vars => Order'
  BY NextOrder
<1> QED
  BY <1>1, <1>2, PTL DEF Spec

\* Every variable has its type (TypeOK), after any careless use too.
THEOREM TypeOKHolds == Spec => []TypeOK
<1>1. Order => TypeOK
  <2> SUFFICES ASSUME Order PROVE TypeOK
    OBVIOUS
  <2>1. /\ container.next_id \in 0 .. MaxId + 1
        /\ container.revision \in Nat /\ Len(container.saved) <= container.revision
    BY DEF Order, Typed, Contents, Tables
  <2>2. Len(file) <= MaxCells /\ Len(file) \in Nat /\ MaxCells \in Nat
    BY JournaledAssumption DEF Order, Typed
  <2>3. \A i \in 1 .. Len(file) :
           file[i].op \in Ops \cup {"rest"} /\ file[i].id \in 0 .. MaxId
    BY DEF Order, Typed, Entries
  <2>4. pos \in 1 .. MaxCells + 1 /\ last_entry.pos \in 0 .. MaxCells
    BY <2>2 DEF Order, Typed
  <2>5. /\ stage \in Stages /\ db \in {"none", "clean", "dirty"}
        /\ outcome \in {"good", "created", "reset", "corrupted"}
        /\ losses \in 0 .. MaxLosses
    BY DEF Order, Typed
  <2> QED
    BY <2>1, <2>2, <2>3, <2>4, <2>5 DEF TypeOK
<1> QED
  BY <1>1, OrderHolds, PTL

\* Whenever no call is under way the journal gives the container
\* (ReplayGivesContainer): what journaled is for.
THEOREM ReplayGivesContainerHolds == Spec => []ReplayGivesContainer
<1>1. Order => ReplayGivesContainer
  <2> SUFFICES ASSUME Order, ~ strayed, stage = "idle" \/ (stage = "closed" /\ db = "clean")
               PROVE  LET r == Replay(file, EmptyTable)
                      IN  /\ r.status = "end" /\ r.table = container
                          /\ stage = "idle" => r.pos = pos
    BY DEF ReplayGivesContainer
  <2>1. Whole(file, container) /\ (stage = "idle" => pos = Len(file) + 1)
    BY DEF Order, Recalls, Gives
  <2>2. Len(file) \in Nat
    BY DEF Order, Typed
  <2> QED
    BY <2>1, <2>2, WholeReplay
<1> QED
  BY <1>1, OrderHolds, PTL

\* Until a careless use, no entry is refused when the journal is read, also after a
\* crash in the middle of a call: the reader gets to the end of the file, or to an
\* entry that is not sealed.  What it has read then is RecoversLastCallHolds'.
THEOREM RecoverableHolds == Spec => []RecoverableUntilStrayed
<1>1. Order => RecoverableUntilStrayed
  <2> SUFFICES ASSUME Order, ~ strayed, stage = "opened", Recovers
               PROVE  Replay(file, container).status \in {"end", "torn"}
    BY DEF RecoverableUntilStrayed, Recoverable
  <2>1. Recovered /\ container = EmptyTable
    BY DEF Order, Recalls
  <2> QED
    BY <2>1, RecoveredReplay
<1> QED
  BY <1>1, OrderHolds, PTL

\* Wherever the process crashed, a recovery gives the container before or after
\* the call that was interrupted (RecoversLastCall).
THEOREM RecoversLastCallHolds == Spec => RecoversLastCall
<1>1. Order /\ [Next]_vars =>
         [~ strayed /\ Recovers /\ stage = "opened" /\ stage' = "idle"
             => container' \in expected]_vars
  <2> SUFFICES ASSUME Order, [Next]_vars, ~ strayed, Recovers, stage = "opened",
                      stage' = "idle"
               PROVE  container' \in expected
    OBVIOUS
  <2>1. Recovered /\ container = EmptyTable
    BY DEF Order, Recalls
  <2>2. container' = Replay(file, container).table
    BY DEF Next, OpenNew, OpenGood, OpenReset, OpenAllow, Opens, OpenJournal, Recover,
           RecoveryThrows, Close, CloseUnread, CloseJournal, Crash, LoseDatabase, Write,
           Seal, FinishRemove, Remove, Create, Modify, FailingModify, SetRevision, Commit,
           StartUndo, Undo, UndoAll, SessionHandle, Unjournaled, Does, Becomes, Begins, vars
  <2> QED
    BY <2>1, <2>2, RecoveredReplay
<1> QED
  BY <1>1, OrderHolds, PTL DEF Spec, RecoversLastCall

\* Only the last entry is overwritten, by an entry it can be compressed with, and
\* what no reader gets to (EntriesStay).
THEOREM EntriesStayHolds == Spec => EntriesStay
<1> DEFINE Stays == \A i \in 1 .. Len(file) :
                       file'[i] # file[i] =>
                          \/ i >= pos
                          \/ i = pos - 1 /\ file[i].op \in {"start_undo", "revision"}
<1>1. Order /\ [Next]_vars => [Stays]_vars
  <2> SUFFICES ASSUME Order, [Next]_vars, file' # file PROVE Stays
    OBVIOUS
  <2>1. Write \/ Seal
    BY DEF Next, OpenNew, OpenGood, OpenReset, OpenAllow, Opens, OpenJournal, Recover,
           RecoveryThrows, Close, CloseUnread, CloseJournal, Crash, LoseDatabase,
           FinishRemove, Remove, Create, Modify, FailingModify, SetRevision, Commit,
           StartUndo, Undo, UndoAll, SessionHandle, Unjournaled, Does, Becomes, Begins, vars
  <2>2. /\ file \in Seq(Entries(MaxId)) /\ NoHeadAtEnd(file) /\ Len(file) \in Nat
        /\ pos \in 1 .. Len(file) + 1
    BY DEF Order, Typed
  <2> SUFFICES ASSUME NEW i \in 1 .. Len(file), file'[i] # file[i], i < pos
               PROVE  i = pos - 1 /\ file[i].op \in {"start_undo", "revision"}
    BY <2>2
  <2>3. CASE Write
    <3> DEFINE at == Place(entry)
               w  == Form(entry)
    <3>1. stage = "writing" /\ file' = Overwrite(file, at, Cells(w))
      BY <2>3 DEF Write, Place, Form
    <3>2. w \in Entries(MaxId)
      BY <3>1, FormIs, JournaledAssumption DEF Order, Underway, Form
    <3>3. /\ at \in Nat /\ 0 < at /\ at <= Len(file) + 1
          /\ CanCompress(last_entry.op, entry.op) =>
                /\ at + 1 = pos /\ file[at].op = last_entry.op
                /\ last_entry.op \in {"start_undo", "revision"}
          /\ ~ CanCompress(last_entry.op, entry.op) => at = pos
      BY <3>1, PlaceFits
    <3> HIDE DEF at, w
    <3>4. Written(file, at, w, file')
      BY <2>2, <3>1, <3>2, <3>3, WrittenFile, JournaledAssumption
    <3>5. ~ (i < at)
      BY <3>4 DEF Written
    <3> QED
      BY <2>2, <3>3, <3>5
  <2>4. CASE Seal
    <3>1. stage = "sealing" /\ file' = Overwrite(file, pos, Cells(Sealed(entry)))
      BY <2>4 DEF Seal
    <3>2. Sealed(entry) \in Entries(MaxId)
      BY <3>1, SealedApplied DEF Order, Underway
    <3>3. Written(file, pos, Sealed(entry), file')
      BY <2>2, <3>1, <3>2, WrittenFile, JournaledAssumption
    <3> QED
      BY <3>3 DEF Written
  <2> QED
    BY <2>1, <2>3, <2>4
<1> QED
  BY <1>1, OrderHolds, PTL DEF Spec, EntriesStay
=============================================================================
