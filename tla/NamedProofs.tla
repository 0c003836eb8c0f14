----------------------------- MODULE NamedProofs -----------------------------
(***************************************************************************)
(* Every name follows its own journal, and one object writes it, through   *)
(* all moves, assignments and openings of the database, whatever happened  *)
(* to other names.                                                         *)
(***************************************************************************)
EXTENDS Named, JournalProofs

-----------------------------------------------------------------------------
(* The invariant. *)

ObjectTypes ==
    [on     : Names \cup {NoName},
     stream : Names \cup {NoName},
     pos    : 1 .. MaxCells + 1,
     last   : [op : Ops \cup {"none"}, pos : Nat, of : Names \cup {NoName}]]

Typed ==
    /\ Present \subseteq Names
    /\ segment \in [Present -> [type : Types, table : Contents(MaxId)]]
    /\ files \in [Names -> Seq(Entries(MaxId))]
    /\ \A n \in Names : NoHeadAtEnd(files[n]) /\ Len(files[n]) <= MaxCells
    /\ object \in [Objects -> ObjectTypes]
    /\ db \in [mode : Modes \cup {"closed"}, outcome : {"good", "created", "reset"}]
    /\ ~ IsOpen => db.outcome = "good"
    /\ losses \in 0 .. MaxLosses
    /\ strayed \subseteq Names

\* An object has a container of the open database, and its stream is on the
\* journal of that one and not behind its end.
Placed(o) ==
    /\ object[o].on # NoName => object[o].on \in Present /\ IsOpen
    /\ object[o].stream # NoName =>
          /\ object[o].stream = object[o].on
          /\ object[o].pos <= Len(files[object[o].stream]) + 1
    /\ object[o].last.op # "none" => object[o].last.pos # 0

\* Nobody else writes the journal of o.
Alone(o) ==
    object[o].stream \notin strayed \cup {NoName} =>
        \A p \in Objects : object[p].stream = object[o].stream => p = o

\* The journal of n gives the container n.
Replays(n) == Whole(files[n], segment[n].table)

\* The journal of n can be read to its end.  It gives the container, or nobody
\* has read it since the database is new; and the object that has it open is at
\* its end.
FollowsAt(n) ==
    /\ \E t : Whole(files[n], t)
    /\ n \in Present =>
          \/ Replays(n)
          \/ /\ Recovers
             /\ segment[n].table = EmptyTable
             /\ \A o \in Objects : object[o].stream # n
    /\ ~ Recovers /\ n \notin Present => files[n] = << >>
    /\ \A o \in Objects : object[o].stream = n =>
          Replays(n) /\ object[o].pos = Len(files[n]) + 1

Order ==
    /\ Typed
    /\ \A o \in Objects : Placed(o) /\ Alone(o)
    /\ \A n \in Names \ strayed : FollowsAt(n)

\* What a step leaves alone of n
LEMMA FollowsSame ==
    ASSUME NEW n, FollowsAt(n), files'[n] = files[n], n \in Present' <=> n \in Present,
           n \in Present => segment'[n] = segment[n],
           UNCHANGED db, Order,
           \A o \in Objects : object'[o].stream = n =>
              \E p \in Objects : object[p].stream = n /\ object[p].pos = object'[o].pos,
           n # NoName
    PROVE  FollowsAt(n)'
<1>1. Recovers' = Recovers
  BY DEF Recovers
<1>2. n \in Present => Replays(n)' = Replays(n)
  BY DEF Replays
<1>3. \A p \in Objects : object[p].stream = n => n \in Present
  BY DEF Order, Placed
<1>4. \E t : Whole(files[n], t)'
  BY DEF FollowsAt
<1>5. n \in Present' =>
         \/ Replays(n)'
         \/ /\ Recovers'
            /\ segment'[n].table = EmptyTable
            /\ \A o \in Objects : object'[o].stream # n
  BY <1>1, <1>2 DEF FollowsAt
<1>6. ~ Recovers' /\ n \notin Present' => files'[n] = << >>
  BY <1>1 DEF FollowsAt
<1>7. ASSUME NEW o \in Objects, object'[o].stream = n
      PROVE  Replays(n)' /\ object'[o].pos = Len(files'[n]) + 1
  <2>1. PICK p \in Objects : object[p].stream = n /\ object[p].pos = object'[o].pos
    BY <1>7
  <2>2. Replays(n) /\ object[p].pos = Len(files[n]) + 1 /\ n \in Present
    BY <1>3, <2>1 DEF FollowsAt
  <2> QED
    BY <1>2, <2>1, <2>2
<1> QED
  BY <1>4, <1>5, <1>6, <1>7 DEF FollowsAt

-----------------------------------------------------------------------------
(* The database. *)

\* No container, no object, and empty journals
LEMMA InitOrder == Init => Order
<1> SUFFICES ASSUME Init PROVE Order
  OBVIOUS
<1> USE DEF Init
<1>1. /\ << >> \in Seq(Entries(MaxId)) /\ Len(<< >>) = 0 /\ NoHeadAtEnd(<< >>)
      /\ 0 <= MaxCells /\ 0 \in 0 .. MaxLosses
  BY NamedAssumption DEF NoHeadAtEnd
<1>2. Fresh \in ObjectTypes
  BY NamedAssumption DEF Fresh, NoLast, ObjectTypes
<1>3. Present = {} /\ ~ Recovers /\ ~ IsOpen
  BY DEF Present, Recovers, Closed, IsOpen
<1>4. segment \in [Present -> [type : Types, table : Contents(MaxId)]]
  BY <1>3 DEF Present
<1>5. Typed
  BY <1>1, <1>2, <1>3, <1>4 DEF Typed, Closed, Modes
<1>6. ASSUME NEW o \in Objects PROVE Placed(o) /\ Alone(o) /\ object[o].stream = NoName
  BY DEF Placed, Alone, Fresh, NoLast
<1>7. ASSUME NEW n \in Names PROVE FollowsAt(n)
  <2>1. files[n] = << >> /\ n # NoName
    BY NamedAssumption
  <2>2. Whole(files[n], EmptyTable)
    BY <2>1, EmptyFile
  <2> QED
    BY <1>3, <1>6, <2>1, <2>2 DEF FollowsAt
<1> QED
  BY <1>5, <1>6, <1>7 DEF Order

\* A new file has no container; the journals wait to be read.
LEMMA OpenNewOrder ==
    ASSUME Order, NEW mode \in Modes, NEW outcome \in {"created", "reset"},
           OpenNew(mode, outcome)
    PROVE  Order'
<1>1. /\ ~ IsOpen /\ db' = [mode |-> mode, outcome |-> outcome]
      /\ losses < MaxLosses /\ losses' = losses + 1
      /\ segment' = [n \in {} |-> EmptyTable]
      /\ UNCHANGED <<files, object, strayed>>
  BY DEF OpenNew, Opened
<1>2. Present' = {} /\ Recovers' /\ IsOpen'
  BY <1>1 DEF Present, Recovers, IsOpen, Modes
<1>3. \A o \in Objects : object[o].on = NoName /\ object[o].stream = NoName
  BY <1>1 DEF Order, Placed
<1>4. segment' \in [Present' -> [type : Types, table : Contents(MaxId)]]
  BY <1>1, <1>2
<1>5. Typed'
  <2>1. losses' \in 0 .. MaxLosses
    BY <1>1, NamedAssumption DEF Order, Typed
  <2>2. /\ \A n \in Names : NoHeadAtEnd(files'[n]) /\ Len(files'[n]) <= MaxCells
        /\ files' \in [Names -> Seq(Entries(MaxId))] /\ object' \in [Objects -> ObjectTypes]
        /\ strayed' \subseteq Names
    BY <1>1 DEF Order, Typed
  <2>3. db' \in [mode : Modes \cup {"closed"}, outcome : {"good", "created", "reset"}]
    BY <1>1
  <2> QED
    BY <1>2, <1>4, <2>1, <2>2, <2>3 DEF Typed
<1>6. ASSUME NEW o \in Objects PROVE Placed(o)' /\ Alone(o)'
  BY <1>1, <1>3 DEF Order, Placed, Alone
<1>7. ASSUME NEW n \in Names \ strayed' PROVE FollowsAt(n)'
  <2>1. FollowsAt(n) /\ n # NoName
    BY <1>1, NamedAssumption DEF Order
  <2>2. \E t : Whole(files'[n], t)
    BY <1>1, <2>1 DEF FollowsAt
  <2> QED
    BY <1>1, <1>2, <1>3, <2>1, <2>2 DEF FollowsAt
<1> QED
  BY <1>5, <1>6, <1>7 DEF Order

\* A good file has the containers as they were.
LEMMA OpenGoodOrder ==
    ASSUME Order, NEW mode \in Modes, OpenGood(mode)
    PROVE  Order'
<1>1. /\ ~ IsOpen /\ db' = [mode |-> mode, outcome |-> "good"]
      /\ UNCHANGED <<segment, files, object, losses, strayed>>
  BY DEF OpenGood, Opened
<1>2. Present' = Present /\ ~ Recovers' /\ ~ Recovers /\ IsOpen'
  BY <1>1 DEF Order, Typed, Present, Recovers, IsOpen, Modes
<1>3. Typed'
  <2>1. db' \in [mode : Modes \cup {"closed"}, outcome : {"good", "created", "reset"}]
    BY <1>1
  <2> QED
    BY <1>1, <1>2, <2>1 DEF Order, Typed
<1>4. ASSUME NEW o \in Objects PROVE Placed(o)' /\ Alone(o)'
  BY <1>1, <1>2 DEF Order, Placed, Alone
<1>5. ASSUME NEW n \in Names \ strayed' PROVE FollowsAt(n)'
  <2>1. FollowsAt(n)
    BY <1>1 DEF Order
  <2> QED
    BY <1>1, <1>2, <2>1 DEF FollowsAt, Replays
<1> QED
  BY <1>3, <1>4, <1>5 DEF Order

\* Names whose journals were not read are given up, so the others replay.
LEMMA ReadReplays ==
    ASSUME Order, NEW n \in Names \ (strayed \cup Unread)
    PROVE  /\ n \in Present => Replays(n)
           /\ n \notin Present => files[n] = << >>
<1>1. FollowsAt(n)
  BY DEF Order
<1>2. Recovers /\ files[n] # << >> => n \in Present /\ segment[n].table # EmptyTable
  BY DEF Unread
<1>3. ASSUME n \in Present, Recovers, segment[n].table = EmptyTable PROVE Replays(n)
  BY <1>2, <1>3, EmptyFile DEF Replays
<1> QED
  BY <1>1, <1>2, <1>3 DEF FollowsAt

\* Names that still wait are given up; the objects end.
LEMMA CloseOrder ==
    ASSUME Order, Close
    PROVE  Order'
<1>1. /\ strayed' = strayed \cup Unread /\ db' = Closed
      /\ object' = [o \in Objects |-> Fresh]
      /\ UNCHANGED <<segment, files, losses>>
  BY DEF Close, Strays
<1>2. Present' = Present /\ ~ Recovers' /\ ~ IsOpen'
  BY <1>1 DEF Present, Recovers, IsOpen, Closed
<1>3. Fresh \in ObjectTypes
  BY NamedAssumption DEF Fresh, NoLast, ObjectTypes
<1>4. Typed'
  <2>1. strayed' \subseteq Names /\ object' \in [Objects -> ObjectTypes]
    BY <1>1, <1>3 DEF Order, Typed, Unread
  <2>2. db' \in [mode : Modes \cup {"closed"}, outcome : {"good", "created", "reset"}]
        /\ db'.outcome = "good"
    BY <1>1 DEF Closed
  <2> QED
    BY <1>1, <1>2, <2>1, <2>2 DEF Order, Typed
<1>5. ASSUME NEW o \in Objects PROVE Placed(o)' /\ Alone(o)' /\ object'[o].stream = NoName
  BY <1>1 DEF Placed, Alone, Fresh, NoLast
<1>6. ASSUME NEW n \in Names \ strayed' PROVE FollowsAt(n)'
  <2>1. FollowsAt(n) /\ n # NoName
    BY <1>1, NamedAssumption DEF Order
  <2>2. (n \in Present => Replays(n)) /\ (n \notin Present => files[n] = << >>)
    BY <1>1, ReadReplays
  <2> QED
    BY <1>1, <1>2, <1>5, <2>1, <2>2 DEF FollowsAt, Replays
<1> QED
  BY <1>4, <1>5, <1>6 DEF Order

-----------------------------------------------------------------------------
(* Containers. *)

\* What get finds is there, or empty.
LEMMA FoundIs ==
    ASSUME Typed, NEW n \in Names, NEW t \in Types
    PROVE  /\ DOMAIN Found(n, t) = Present \cup {n}
           /\ Found(n, t) \in [Present \cup {n} -> [type : Types, table : Contents(MaxId)]]
           /\ \A m \in Present : Found(n, t)[m] = segment[m]
           /\ n \notin Present => Found(n, t)[n].table = EmptyTable
<1>1. [type |-> t, table |-> EmptyTable] \in [type : Types, table : Contents(MaxId)]
  BY EmptyContents, NamedAssumption
<1>2. segment \in [Present -> [type : Types, table : Contents(MaxId)]]
  BY DEF Typed
<1> QED
  BY <1>1, <1>2 DEF Found

\* A container that is new is empty, and its journal is not looked at.
LEMMA GetPlainOrder ==
    ASSUME Order, NEW t \in Types, NEW s \in Suffixes, GetPlain(t, s)
    PROVE  Order'
<1> DEFINE n == NameOf[<<t, s>>]
<1>1. n \in Names
  BY NamedAssumption
<1>2. /\ IsOpen /\ n \notin Present /\ segment' = Found(n, t)
      /\ UNCHANGED <<files, object, db, losses, strayed>>
  BY DEF GetPlain
<1> HIDE DEF n
<1>3. /\ Present' = Present \cup {n} /\ (Recovers <=> Recovers') /\ (IsOpen <=> IsOpen')
      /\ segment' \in [Present' -> [type : Types, table : Contents(MaxId)]]
      /\ \A m \in Present : segment'[m] = segment[m]
      /\ segment'[n].table = EmptyTable
  BY <1>1, <1>2, FoundIs DEF Order, Present, Recovers, IsOpen
<1>4. Typed'
  BY <1>1, <1>2, <1>3 DEF Order, Typed
<1>5. ASSUME NEW o \in Objects PROVE Placed(o)' /\ Alone(o)' /\ object[o].stream # n
  BY <1>1, <1>2, <1>3, NamedAssumption DEF Order, Placed, Alone
<1>6. ASSUME NEW m \in Names \ strayed' PROVE FollowsAt(m)'
  <2>1. FollowsAt(m) /\ m # NoName
    BY <1>2, NamedAssumption DEF Order
  <2>2. CASE m = n
    <3>1. Recovers \/ files'[n] = << >>
      BY <1>2, <2>1, <2>2 DEF FollowsAt
    <3>2. Recovers' \/ Replays(n)'
      BY <1>3, <3>1, EmptyFile DEF Replays
    <3>3. \E w : Whole(files'[n], w)
      BY <1>2, <2>1, <2>2 DEF FollowsAt
    <3> QED
      BY <1>2, <1>3, <1>5, <2>2, <3>2, <3>3 DEF FollowsAt
  <2>3. CASE m # n
    BY <1>2, <1>3, <2>1, <2>3, FollowsSame
  <2> QED
    BY <2>2, <2>3
<1> QED
  BY <1>4, <1>5, <1>6 DEF Order

\* A container that is changed without its journal is given up.
LEMMA PlainOrder ==
    ASSUME Order, NEW n \in Present, NEW b \in Contents(MaxId),
           segment' = [segment EXCEPT ![n].table = b], strayed' = strayed \cup {n},
           UNCHANGED <<files, object, db, losses>>
    PROVE  Order'
<1>1. segment \in [Present -> [type : Types, table : Contents(MaxId)]] /\ n \in Names
  BY DEF Order, Typed
<1>2. /\ segment' \in [Present -> [type : Types, table : Contents(MaxId)]]
      /\ Present' = Present /\ \A m \in Present \ {n} : segment'[m] = segment[m]
      /\ (Recovers <=> Recovers') /\ (IsOpen <=> IsOpen')
  BY <1>1 DEF Present, Recovers, IsOpen
<1>3. Typed'
  BY <1>1, <1>2 DEF Order, Typed
<1>4. ASSUME NEW o \in Objects PROVE Placed(o)' /\ Alone(o)'
  BY <1>2 DEF Order, Placed, Alone
<1>5. ASSUME NEW m \in Names \ strayed' PROVE FollowsAt(m)'
  <2>1. FollowsAt(m) /\ m # NoName /\ m # n
    BY NamedAssumption DEF Order
  <2> QED
    BY <1>2, <2>1, FollowsSame
<1> QED
  BY <1>3, <1>4, <1>5 DEF Order

\* A row without an entry
LEMMA EmplacePlainOrder ==
    ASSUME Order, NEW n \in Present, NEW v \in Vals, EmplacePlain(n, v)
    PROVE  Order'
<1> DEFINE t == segment[n].table
           b == Emplaced(t, t.next_id, v)
<1>1. /\ t.next_id <= MaxId /\ strayed' = strayed \cup {n}
      /\ segment' = [segment EXCEPT ![n].table = b]
      /\ UNCHANGED <<files, object, db, losses>>
  BY DEF EmplacePlain, Strays
<1>2. t \in Contents(MaxId)
  BY DEF Order, Typed
<1>3. t.next_id \in 0 .. MaxId
  BY <1>1, <1>2, NamedAssumption DEF Contents, Tables
<1>4. b \in Contents(MaxId)
  BY <1>2, <1>3, EmplacedContents, NamedAssumption
<1> HIDE DEF b
<1> QED
  BY <1>1, <1>4, PlainOrder

-----------------------------------------------------------------------------
(* Objects. *)

\* The stream goes from one object to the other, and the one it had is closed.
LEMMA MoveOrder ==
    ASSUME Order, NEW o \in Objects, NEW from \in Objects, Move(o, from)
    PROVE  Order'
<1>1. /\ o # from /\ object[from].on # NoName
      /\ object' = [object EXCEPT ![o] = Assigned(o, object[from].on, object[from].stream,
                                                  object[from].pos),
                                  ![from] = MovedFrom(from)]
      /\ UNCHANGED <<segment, files, db, losses, strayed>>
  BY DEF Move
<1>2. object \in [Objects -> ObjectTypes] /\ MaxCells \in Nat
  BY NamedAssumption DEF Order, Typed
<1>3. /\ object[o] \in ObjectTypes /\ object[from] \in ObjectTypes
      /\ 1 \in 1 .. MaxCells + 1
  BY <1>2
<1>4. /\ object'[o].on = object[from].on /\ object'[o].stream = object[from].stream
      /\ object'[o].pos = object[from].pos /\ object'[o].last = object[o].last
      /\ object'[o] \in ObjectTypes
  BY <1>1, <1>2, <1>3 DEF Assigned, ObjectTypes
<1>5. /\ object'[from].on = NoName /\ object'[from].stream = NoName
      /\ object'[from].last = object[from].last /\ object'[from] \in ObjectTypes
  BY <1>1, <1>2, <1>3 DEF MovedFrom, ObjectTypes
<1>6. \A p \in Objects \ {o, from} : object'[p] = object[p]
  BY <1>1, <1>2
<1>7. object' \in [Objects -> ObjectTypes]
  BY <1>1, <1>2, <1>4, <1>5, <1>6
<1>8. Present' = Present /\ (Recovers <=> Recovers') /\ (IsOpen <=> IsOpen')
  BY <1>1 DEF Present, Recovers, IsOpen
<1>9. Typed'
  BY <1>1, <1>7, <1>8 DEF Order, Typed
<1>10. ASSUME NEW p \in Objects PROVE Placed(p)'
  <2>1. Placed(p) /\ Placed(from)
    BY DEF Order
  <2>2. CASE p = o
    BY <1>1, <1>4, <1>8, <2>1, <2>2 DEF Placed
  <2>3. CASE p = from
    BY <1>1, <1>5, <2>1, <2>3 DEF Placed
  <2>4. CASE p \notin {o, from}
    <3>1. object'[p] = object[p]
      BY <1>6, <2>4
    <3> QED
      BY <1>1, <1>8, <2>1, <3>1 DEF Placed
  <2> QED
    BY <2>2, <2>3, <2>4
<1>11. ASSUME NEW p \in Objects PROVE Alone(p)'
  <2> SUFFICES ASSUME object'[p].stream \notin strayed' \cup {NoName},
                      NEW q \in Objects, object'[q].stream = object'[p].stream
               PROVE  q = p
    BY DEF Alone
  <2>1. Alone(p) /\ Alone(from)
    BY DEF Order
  <2>2. p # from /\ q # from
    BY <1>5
  <2>3. CASE p = o
    BY <1>1, <1>4, <1>6, <2>1, <2>2, <2>3 DEF Alone
  <2>4. CASE p # o
    BY <1>1, <1>4, <1>6, <2>1, <2>2, <2>4 DEF Alone
  <2> QED
    BY <2>3, <2>4
<1>12. ASSUME NEW m \in Names \ strayed' PROVE FollowsAt(m)'
  <2>1. FollowsAt(m) /\ m # NoName
    BY <1>1, NamedAssumption DEF Order
  <2>2. ASSUME NEW p \in Objects, object'[p].stream = m
        PROVE  \E q \in Objects : object[q].stream = m /\ object[q].pos = object'[p].pos
    BY <1>4, <1>5, <1>6, <2>1, <2>2
  <2> QED
    BY <1>1, <1>8, <2>1, <2>2, FollowsSame
<1> QED
  BY <1>9, <1>10, <1>11, <1>12 DEF Order

\* An object that ends closes its stream.
LEMMA DestroyOrder ==
    ASSUME Order, NEW o \in Objects, Destroy(o)
    PROVE  Order'
<1>1. /\ object' = [object EXCEPT ![o] = Fresh]
      /\ UNCHANGED <<segment, files, db, losses, strayed>>
  BY DEF Destroy
<1>2. object \in [Objects -> ObjectTypes] /\ Fresh \in ObjectTypes
  BY NamedAssumption DEF Order, Typed, Fresh, NoLast, ObjectTypes
<1>3. object'[o] = Fresh /\ \A p \in Objects \ {o} : object'[p] = object[p]
  BY <1>1, <1>2
<1>4. Fresh.on = NoName /\ Fresh.stream = NoName /\ Fresh.last.op = "none"
  BY DEF Fresh, NoLast
<1>5. Present' = Present /\ (Recovers <=> Recovers') /\ (IsOpen <=> IsOpen')
  BY <1>1 DEF Present, Recovers, IsOpen
<1>6. Typed'
  BY <1>1, <1>2, <1>5 DEF Order, Typed
<1>7. ASSUME NEW p \in Objects PROVE Placed(p)' /\ Alone(p)'
  BY <1>1, <1>3, <1>4, <1>5 DEF Order, Placed, Alone
<1>8. ASSUME NEW m \in Names \ strayed' PROVE FollowsAt(m)'
  <2>1. FollowsAt(m) /\ m # NoName
    BY <1>1, NamedAssumption DEF Order
  <2>2. ASSUME NEW p \in Objects, object'[p].stream = m
        PROVE  \E q \in Objects : object[q].stream = m /\ object[q].pos = object'[p].pos
    BY <1>3, <1>4, <2>1, <2>2
  <2> QED
    BY <1>1, <1>5, <2>1, <2>2, FollowsSame
<1> QED
  BY <1>6, <1>7, <1>8 DEF Order

\* What get does to its container, its journal and the object in the place of o
Got(o, n, t, stream, p, b) ==
    /\ segment' = [Found(n, t) EXCEPT ![n].table = b]
    /\ object' \in {object, [object EXCEPT ![o] = Assigned(o, n, stream, p)]}
    /\ strayed' \in {strayed, strayed \cup {n}}
    /\ UNCHANGED <<files, db, losses>>

\* It leaves a name that it got nothing wrong with as it was, without a stream,
\* or as its journal has it, with the only one.
GotWell(o, n, t, stream, p, b) ==
    \/ stream = NoName /\ b = Found(n, t)[n].table
    \/ /\ stream = n /\ Whole(files[n], b) /\ p = Len(files[n]) + 1
       /\ object' = [object EXCEPT ![o] = Assigned(o, n, stream, p)]
       /\ \A q \in Objects \ {o} : object[q].stream # n

\* What get leaves
LEMMA GotOrder ==
    ASSUME Order, IsOpen, NEW o \in Objects, NEW n \in Names, NEW t \in Types,
           NEW stream \in {n, NoName}, NEW p \in 1 .. Len(files[n]) + 1,
           NEW b \in Contents(MaxId), Got(o, n, t, stream, p, b),
           n \notin strayed' => GotWell(o, n, t, stream, p, b)
    PROVE  Order'
<1> DEFINE a == [object EXCEPT ![o] = Assigned(o, n, stream, p)]
<1>1. /\ segment' = [Found(n, t) EXCEPT ![n].table = b]
      /\ object' \in {object, a} /\ strayed' \in {strayed, strayed \cup {n}}
      /\ UNCHANGED <<files, db, losses>>
  BY DEF Got
<1>2. /\ Present' = Present \cup {n} /\ (Recovers <=> Recovers') /\ (IsOpen <=> IsOpen')
      /\ segment' \in [Present' -> [type : Types, table : Contents(MaxId)]]
      /\ \A m \in Present \ {n} : segment'[m] = segment[m]
      /\ segment'[n].table = b
  <2> DEFINE found == Found(n, t)
  <2>1. /\ found \in [Present \cup {n} -> [type : Types, table : Contents(MaxId)]]
        /\ \A m \in Present : found[m] = segment[m]
    BY FoundIs DEF Order
  <2> HIDE DEF found
  <2>2. /\ segment' \in [Present \cup {n} -> [type : Types, table : Contents(MaxId)]]
        /\ \A m \in Present \ {n} : segment'[m] = segment[m]
        /\ segment'[n].table = b
    BY <1>1, <2>1 DEF found
  <2>3. Present' = Present \cup {n}
    BY <2>2 DEF Present
  <2> QED
    BY <1>1, <2>2, <2>3 DEF Recovers, IsOpen
<1>3. /\ Found(n, t)[n].table = IF n \in Present THEN segment[n].table ELSE EmptyTable
      /\ n # NoName
  BY FoundIs, NamedAssumption DEF Order
<1>4. /\ object \in [Objects -> ObjectTypes] /\ MaxCells \in Nat
      /\ Len(files[n]) \in Nat /\ Len(files[n]) <= MaxCells
  BY NamedAssumption DEF Order, Typed
<1>5. /\ a[o].on = n /\ a[o].stream = stream /\ a[o].pos = p /\ a[o].last = object[o].last
      /\ a \in [Objects -> ObjectTypes] /\ \A q \in Objects \ {o} : a[q] = object[q]
  <2>1. p \in 1 .. MaxCells + 1 /\ object[o] \in ObjectTypes
    BY <1>4
  <2>2. /\ Assigned(o, n, stream, p) \in ObjectTypes
        /\ Assigned(o, n, stream, p).on = n /\ Assigned(o, n, stream, p).stream = stream
        /\ Assigned(o, n, stream, p).pos = p
        /\ Assigned(o, n, stream, p).last = object[o].last
    BY <2>1 DEF Assigned, ObjectTypes
  <2> QED
    BY <1>4, <2>2
<1> HIDE DEF a
<1>6. Typed'
  BY <1>1, <1>2, <1>5 DEF Order, Typed
<1>7. ASSUME NEW q \in Objects PROVE Placed(q)'
  <2>1. Placed(q) /\ Placed(o)
    BY DEF Order
  <2>2. CASE object'[q] = object[q]
    BY <1>1, <1>2, <2>1, <2>2 DEF Placed
  <2>3. CASE object'[q] # object[q]
    <3>1. q = o /\ object' = a
      BY <1>1, <1>5, <2>3
    <3>2. p <= Len(files[n]) + 1
      BY <1>4
    <3> QED
      BY <1>1, <1>2, <1>5, <2>1, <3>1, <3>2 DEF Placed
  <2> QED
    BY <2>2, <2>3
<1>8. ASSUME NEW q \in Objects PROVE Alone(q)'
  <2> SUFFICES ASSUME object'[q].stream \notin strayed' \cup {NoName},
                      NEW r \in Objects, object'[r].stream = object'[q].stream
               PROVE  r = q
    BY DEF Alone
  <2>1. Alone(q) /\ Alone(r)
    BY DEF Order
  <2>2. CASE object' = object
    BY <1>1, <2>1, <2>2 DEF Alone
  <2>3. CASE object' = a /\ q # o /\ r # o
    BY <1>1, <1>5, <2>1, <2>3 DEF Alone
  <2>4. CASE object' = a /\ (q = o \/ r = o)
    <3>1. stream = n /\ n \notin strayed'
      BY <1>3, <1>5, <2>4
    <3> QED
      BY <1>3, <1>5, <2>4, <3>1 DEF GotWell
  <2> QED
    BY <1>1, <2>2, <2>3, <2>4
<1>9. ASSUME NEW m \in Names \ strayed' PROVE FollowsAt(m)'
  <2>1. FollowsAt(m) /\ m # NoName
    BY <1>1, NamedAssumption DEF Order
  <2>2. ASSUME NEW q \in Objects, object'[q].stream = m, q # o \/ stream # m
        PROVE  object'[q] = object[q]
    BY <1>1, <1>5, <2>1, <2>2
  <2>3. CASE m # n
    <3>1. ASSUME NEW q \in Objects, object'[q].stream = m
          PROVE  \E r \in Objects : object[r].stream = m /\ object[r].pos = object'[q].pos
      BY <2>2, <2>1, <2>3, <3>1
    <3> QED
      BY <1>1, <1>2, <2>1, <2>3, <3>1, FollowsSame
  <2>4. CASE m = n /\ stream = NoName
    <3>1. /\ b = IF n \in Present THEN segment[n].table ELSE EmptyTable
          /\ \A q \in Objects : object'[q].stream = n => object'[q] = object[q]
      BY <1>3, <2>2, <2>4 DEF GotWell
    <3>2. \A q \in Objects : object[q].stream = n => n \in Present
      BY <1>3 DEF Order, Placed
    <3>3. CASE n \in Present
      BY <1>1, <1>2, <2>1, <2>4, <3>1, <3>3 DEF FollowsAt, Replays
    <3>4. CASE n \notin Present
      <4>1. Recovers \/ files[n] = << >>
        BY <2>1, <2>4, <3>4 DEF FollowsAt
      <4>2. Recovers' \/ Replays(n)'
        BY <1>1, <1>2, <3>1, <3>4, <4>1, EmptyFile DEF Replays
      <4> QED
        BY <1>1, <1>2, <2>1, <2>4, <3>1, <3>2, <3>4, <4>2 DEF FollowsAt
    <3> QED
      BY <3>3, <3>4
  <2>5. CASE m = n /\ stream = n
    <3>1. /\ Whole(files[n], b) /\ p = Len(files[n]) + 1 /\ object' = a
          /\ \A q \in Objects \ {o} : object[q].stream # n
      BY <1>1, <1>3, <2>5 DEF GotWell, a
    <3>2. Replays(n)'
      BY <1>1, <1>2, <3>1 DEF Replays
    <3>3. \A q \in Objects : object'[q].stream = n => object'[q].pos = Len(files'[n]) + 1
      BY <1>1, <1>5, <3>1
    <3> QED
      BY <1>1, <1>2, <2>5, <3>1, <3>2, <3>3 DEF FollowsAt
  <2> QED
    BY <2>3, <2>4, <2>5
<1> QED
  BY <1>6, <1>7, <1>8, <1>9 DEF Order

\* get reads the journal if the database may have lost the container, and
\* otherwise stands at its end.
LEMMA GetJournaledOrder ==
    ASSUME Order, NEW o \in Objects, NEW t \in Types, NEW s \in Suffixes,
           GetJournaled(o, t, s)
    PROVE  Order'
<1> DEFINE n      == NameOf[<<t, s>>]
           found  == Found(n, t)
           file   == files[n]
           kept   == [table |-> found[n].table, pos |-> AtEnd(file), status |-> "end"]
           replay == IF Recovers THEN Replay(file, found[n].table) ELSE kept
           again  == \/ \E p \in Objects \ {o} : object[p].stream = n
                     \/ Recovers /\ file # << >> /\ found[n].table # EmptyTable
<1>1. n \in Names
  BY NamedAssumption
<1>2. /\ IsOpen /\ UNCHANGED <<files, db, losses>>
      /\ db.mode = "read_write" =>
            /\ strayed' = strayed \cup IF again THEN {n} ELSE {}
            /\ segment' = [found EXCEPT ![n].table = replay.table]
            /\ \/ object' = [object EXCEPT ![o] = Assigned(o, n, n, replay.pos)]
               \/ replay.status \in {"refused", "junk"} /\ UNCHANGED object
      /\ db.mode # "read_write" =>
            /\ segment' = found /\ UNCHANGED strayed
            /\ object' = [object EXCEPT ![o] = Assigned(o, n, NoName, 1)]
  BY DEF GetJournaled, Strays
<1> HIDE DEF n, replay, again
<1>3. /\ file \in Seq(Entries(MaxId)) /\ NoHeadAtEnd(file) /\ Len(file) \in Nat
      /\ found[n].table \in Contents(MaxId)
      /\ found[n] \in [type : Types, table : Contents(MaxId)]
      /\ found[n].table = IF n \in Present THEN segment[n].table ELSE EmptyTable
      /\ n # NoName
  <2>1. n \in Present => found[n] = segment[n]
    BY <1>1, FoundIs DEF Order
  <2>2. found[n] \in [type : Types, table : Contents(MaxId)]
    BY <1>1, FoundIs DEF Order
  <2>3. n \notin Present => found[n].table = EmptyTable
    BY <1>1, FoundIs DEF Order
  <2> HIDE DEF found
  <2>4. file \in Seq(Entries(MaxId)) /\ NoHeadAtEnd(file) /\ n # NoName
    BY <1>1, NamedAssumption DEF Order, Typed
  <2> QED
    BY <2>1, <2>2, <2>3, <2>4
<1>4. CASE db.mode = "read_write"
  <2>1. replay.table \in Contents(MaxId) /\ replay.pos \in 1 .. Len(file) + 1
    <3>1. CASE Recovers
      <4>1. Replayed(MaxId, Len(file), Replay(file, found[n].table))
        BY <1>3, ReplayContents, NamedAssumption
      <4> QED
        BY <3>1, <4>1 DEF Replayed, replay
    <3>2. CASE ~ Recovers
      BY <1>3, <3>2 DEF AtEnd, replay
    <3> QED
      BY <3>1, <3>2
  <2>2. /\ segment' = [found EXCEPT ![n].table = replay.table]
        /\ object' \in {object, [object EXCEPT ![o] = Assigned(o, n, n, replay.pos)]}
        /\ strayed' \in {strayed, strayed \cup {n}}
    BY <1>2, <1>4
  <2>3. Got(o, n, t, n, replay.pos, replay.table)
    BY <1>2, <2>2 DEF Got
  <2>4. ASSUME n \notin strayed' PROVE GotWell(o, n, t, n, replay.pos, replay.table)
    <3>1. ~ again /\ FollowsAt(n)
      BY <1>1, <1>2, <1>4, <2>4 DEF Order
    <3>2. PICK w : Whole(file, w)
      BY <3>1 DEF FollowsAt
    <3>3. /\ Whole(file, replay.table) /\ replay.pos = Len(file) + 1
          /\ replay.status = "end"
      <4>1. CASE Recovers
        <5>1. file = << >> \/ found[n].table = EmptyTable
          BY <3>1, <4>1 DEF again
        <5>2. found[n].table = EmptyTable
          BY <1>3, <3>1, <5>1, EmptyFile DEF FollowsAt, Replays
        <5>3. replay = Replay(file, EmptyTable)
          BY <4>1, <5>2 DEF replay
        <5> QED
          BY <1>3, <3>2, <5>3, WholeReplay
      <4>2. CASE ~ Recovers
        <5>1. Whole(file, found[n].table)
          BY <1>3, <3>1, <4>2, EmptyFile DEF FollowsAt, Replays
        <5> QED
          BY <4>2, <5>1 DEF AtEnd, replay
      <4> QED
        BY <4>1, <4>2
    <3>4. /\ object' = [object EXCEPT ![o] = Assigned(o, n, n, replay.pos)]
          /\ \A q \in Objects \ {o} : object[q].stream # n
      BY <1>2, <1>4, <3>1, <3>3 DEF again
    <3> QED
      BY <3>3, <3>4 DEF GotWell
  <2> QED
    BY <1>1, <1>2, <2>1, <2>3, <2>4, GotOrder
<1>5. CASE db.mode # "read_write"
  <2>1. found = [found EXCEPT ![n].table = found[n].table]
    BY <1>1, <1>3, FoundIs DEF Order
  <2>2. Got(o, n, t, NoName, 1, found[n].table)
    BY <1>2, <1>5, <2>1 DEF Got
  <2>3. GotWell(o, n, t, NoName, 1, found[n].table) /\ 1 \in 1 .. Len(file) + 1
    BY <1>3 DEF GotWell
  <2> QED
    BY <1>1, <1>2, <1>3, <2>2, <2>3, GotOrder
<1> QED
  BY <1>4, <1>5

-----------------------------------------------------------------------------
(* Calls. *)

\* A gap does not shorten a file, and no file has one that is written at its end.
LEMMA ReachingIs ==
    ASSUME NEW N \in Nat, NEW f \in Seq(Entries(N)), NoHeadAtEnd(f),
           NEW at \in Nat, at > 0
    PROVE  /\ Reaching(f, at) \in Seq(Entries(N)) /\ NoHeadAtEnd(Reaching(f, at))
           /\ at <= Len(Reaching(f, at)) + 1 /\ Len(f) <= Len(Reaching(f, at))
           /\ Len(Reaching(f, at)) \in {Len(f), at - 1}
           /\ at <= Len(f) + 1 => Reaching(f, at) = f
<1>1. CASE at <= Len(f) + 1
  BY <1>1 DEF Reaching
<1>2. CASE ~ (at <= Len(f) + 1)
  <2> DEFINE k   == at - 1 - Len(f)
             gap == [i \in 1 .. k |-> Rest]
             g   == f \o gap
  <2>1. Rest \in Entries(N) /\ Rest.op \notin ObjectOps
    BY DEF Rest, Entries, ObjectOps
  <2>2. k \in Nat /\ k > 0 /\ Len(f) \in Nat
    BY <1>2
  <2>3. gap \in Seq(Entries(N)) /\ Len(gap) = k /\ \A i \in 1 .. k : gap[i] = Rest
    BY <2>1, <2>2
  <2>4. Reaching(f, at) = g /\ k = at - 1 - Len(f)
    BY <1>2 DEF Reaching
  <2> HIDE DEF k, gap
  <2>5. /\ g \in Seq(Entries(N)) /\ Len(g) = Len(f) + k
        /\ \A i \in 1 .. Len(f) + k :
              g[i] = IF i <= Len(f) THEN f[i] ELSE gap[i - Len(f)]
    BY <2>3, ConcatProperties
  <2> HIDE DEF g
  <2>6. NoHeadAtEnd(g)
    <3> SUFFICES ASSUME NEW i \in 1 .. Len(g), g[i].op \in ObjectOps PROVE i < Len(g)
      BY DEF NoHeadAtEnd
    <3>1. CASE i <= Len(f)
      BY <2>2, <2>5, <3>1
    <3>2. CASE ~ (i <= Len(f))
      <4>1. i - Len(f) \in 1 .. k
        BY <2>2, <2>5, <3>2
      <4> QED
        BY <2>1, <2>3, <2>5, <3>2, <4>1
    <3> QED
      BY <3>1, <3>2
  <2> QED
    BY <1>2, <2>2, <2>4, <2>5, <2>6
<1> QED
  BY <1>1, <1>2

\* A reader accepts e after t with b as the outcome, and so it does if e takes the
\* place of an entry that had t as its outcome.
Tells(t, e, b) ==
    /\ Applied(t, e) = Accepts(b)
    /\ \A v \in Contents(MaxId), l \in Entries(MaxId) :
          CanCompress(l.op, e.op) /\ Applied(v, l) = Accepts(t) =>
             Applied(v, [e EXCEPT !.op = CompressedOp(l.op, e.op)]) = Accepts(b)

\* The entry that an object writes, where, and what the journal is then
WrittenEntry(o, e) == Sealed([e EXCEPT !.op = CompressedOp(object[o].last.op, e.op)])
WrittenAt(o, e) ==
    IF CanCompress(object[o].last.op, e.op) THEN object[o].last.pos ELSE object[o].pos
FileAfter(n, o, e) ==
    Overwrite(Reaching(files[n], WrittenAt(o, e)), WrittenAt(o, e),
              Cells(WrittenEntry(o, e)))

\* The object wrote the entry in front of its stream if that is what it takes the
\* place of, so the journal with the new one is read to b.
LEMMA WriteFollows ==
    ASSUME Order, NEW o \in Objects, NEW n \in Names, n = object[o].stream,
           NEW e \in Entries(MaxId), e.op # "rest", NEW b,
           FollowsAt(n), Tells(segment[n].table, e, b),
           CanCompress(object[o].last.op, e.op) => ~ Stale(o)
    PROVE  /\ Whole(FileAfter(n, o, e), b)
           /\ Len(FileAfter(n, o, e)) + 1 = WrittenAt(o, e) + Size(e)
<1> DEFINE f        == files[n]
           t        == segment[n].table
           lastop   == object[o].last.op
           form     == [e EXCEPT !.op = CompressedOp(lastop, e.op)]
           w        == WrittenEntry(o, e)
           at       == WrittenAt(o, e)
           g        == FileAfter(n, o, e)
<1>0. /\ w = Sealed(form)
      /\ at = IF CanCompress(lastop, e.op) THEN object[o].last.pos ELSE object[o].pos
      /\ g = Overwrite(Reaching(f, at), at, Cells(w))
  BY DEF WrittenEntry, WrittenAt, FileAfter
<1> SUFFICES Whole(g, b) /\ Len(g) + 1 = at + Size(e)
  OBVIOUS
<1> HIDE DEF w, at, g
<1>1. /\ f \in Seq(Entries(MaxId)) /\ NoHeadAtEnd(f) /\ Len(f) \in Nat
  BY DEF Order, Typed
<1>2. Whole(f, t) /\ object[o].pos = Len(f) + 1 /\ MaxId \in Nat
  BY NamedAssumption DEF FollowsAt, Replays
<1>3. /\ form \in Entries(MaxId) /\ form.op # "rest" /\ Size(form) = Size(e)
      /\ ~ CanCompress(lastop, e.op) => form = e
      /\ CanCompress(lastop, e.op) => form.op \in {"start_undo", "revision"}
  BY <1>2, FormIs
<1> HIDE DEF form
<1>4. /\ w \in Entries(MaxId) /\ w.sealed /\ w.op = form.op /\ Size(w) = Size(e)
      /\ \A u : Applied(u, w) = Applied(u, form)
  BY <1>0, <1>3, SealedApplied, SizeIs
<1>5. w.op \in Ops /\ Size(w) \in {1, 2}
  BY <1>3, <1>4, SizeIs DEF Entries
<1>6. ASSUME NEW u, Reads(f, EmptyTable, at, u), Applied(u, form) = Accepts(b),
             at \in {Len(f), Len(f) + 1}, at = Len(f) => Size(e) = 1
      PROVE  Whole(g, b) /\ Len(g) + 1 = at + Size(e)
  <2>1. at \in Nat /\ at > 0 /\ at <= Len(f) + 1
    BY <1>1, <1>6, ReadsTo
  <2>2. Reaching(f, at) = f
    BY <1>1, <1>2, <2>1, ReachingIs
  <2>3. /\ Written(f, at, w, g)
        /\ Len(g) = IF Len(f) < at + Size(w) - 1 THEN at + Size(w) - 1 ELSE Len(f)
    <3>1. g = Overwrite(f, at, Cells(w))
      BY <1>0, <2>2
    <3> QED
      BY <1>1, <1>2, <1>4, <2>1, <3>1, WrittenFile
  <2>4. Len(g) = at + Size(w) - 1
    <3>1. CASE at = Len(f)
      <4>1. Size(w) = 1
        BY <1>4, <1>6, <3>1
      <4> QED
        BY <1>1, <2>3, <3>1, <4>1
    <3>2. CASE at = Len(f) + 1
      BY <1>1, <1>5, <2>3, <3>2
    <3> QED
      BY <1>6, <3>1, <3>2
  <2>5. Applied(u, w) = Accepts(b)
    BY <1>4, <1>6
  <2>6. Whole(g, b)
    BY <1>1, <1>4, <1>5, <1>6, <2>1, <2>3, <2>4, <2>5, WholeMore
  <2> QED
    BY <1>4, <1>5, <2>1, <2>4, <2>6
<1>7. CASE ~ CanCompress(lastop, e.op)
  <2>1. Reads(f, EmptyTable, at, t) /\ at = Len(f) + 1
    BY <1>0, <1>2, <1>7 DEF Whole
  <2>2. Applied(t, form) = Accepts(b)
    BY <1>3, <1>7 DEF Tells
  <2> QED
    BY <1>1, <1>6, <2>1, <2>2
<1>8. CASE CanCompress(lastop, e.op)
  <2>1. /\ object[o].last.of = n /\ object[o].last.pos + 1 = Len(f) + 1
        /\ f[object[o].last.pos].op = lastop
    BY <1>2, <1>8 DEF Stale
  <2>2. at = Len(f) /\ f[Len(f)].op = lastop
    <3>1. object[o].last.pos \in Nat
      BY DEF Order, Typed, ObjectTypes
    <3> QED
      BY <1>0, <1>1, <1>8, <2>1, <3>1
  <2>3. Len(f) > 0
    BY <1>0, <1>1, <1>8, <2>1, <2>2 DEF Order, Placed, CanCompress
  <2>4. lastop \notin ObjectOps /\ lastop # "rest"
    BY <1>8 DEF CanCompress, ObjectOps
  <2>5. PICK v : Reads(f, EmptyTable, Len(f), v) /\ Applied(v, f[Len(f)]) = Accepts(t)
    BY <1>1, <1>2, <2>2, <2>3, <2>4, WholeLast
  <2>6. v \in Contents(MaxId) /\ f[Len(f)] \in Entries(MaxId)
    BY <1>1, <1>2, <2>3, <2>5, EmptyContents, ReadsContents
  <2>7. Applied(v, form) = Accepts(b)
    BY <1>8, <2>2, <2>5, <2>6 DEF Tells, form
  <2>8. Size(e) = 1
    BY <1>3, <1>8, SizeIs DEF ObjectOps
  <2> QED
    BY <1>6, <2>2, <2>5, <2>7, <2>8
<1> QED
  BY <1>7, <1>8

\* A call writes its entry, or the container is given up.
LEMMA CallOrder ==
    ASSUME Order, NEW o \in Objects, object[o].on # NoName,
           NEW b \in Contents(MaxId), NEW e \in Entries(MaxId), e.op # "rest",
           Tells(segment[object[o].on].table, e, b), Call(o, b, e)
    PROVE  Order'
<1> DEFINE n    == object[o].on
           last == object[o].last
           w    == Sealed([e EXCEPT !.op = CompressedOp(last.op, e.op)])
           at   == IF CanCompress(last.op, e.op) THEN last.pos ELSE object[o].pos
           g    == Overwrite(Reaching(files[n], at), at, Cells(w))
<1>1. n \in Present /\ n \in Names /\ segment' = [segment EXCEPT ![n].table = b]
      /\ UNCHANGED <<db, losses>>
  BY DEF Call, Order, Placed, Typed
<1>2. CASE object[o].stream = NoName
  <2>1. strayed' = strayed \cup {n} /\ UNCHANGED <<files, object>>
    BY <1>2 DEF Call, Strays
  <2> QED
    BY <1>1, <2>1, PlainOrder
<1>3. CASE object[o].stream # NoName
  <2>1. object[o].stream = n
    BY <1>3 DEF Order, Placed
  <2>2. /\ at + Size(e) <= MaxCells + 1
        /\ strayed' = strayed \cup
              (IF CanCompress(last.op, e.op) /\ Stale(o) THEN {n} ELSE {})
        /\ files' = [files EXCEPT ![n] = g]
        /\ object' = [object EXCEPT ![o].pos = at + Size(e),
                                    ![o].last = [op |-> w.op, pos |-> at, of |-> n]]
    BY <1>3, <2>1 DEF Call, Write, Strays
  <2>3. /\ files \in [Names -> Seq(Entries(MaxId))] /\ NoHeadAtEnd(files[n])
        /\ Len(files[n]) \in Nat /\ Len(files[n]) <= MaxCells
        /\ object \in [Objects -> ObjectTypes] /\ MaxCells \in Nat /\ MaxId \in Nat
    BY <1>1, NamedAssumption DEF Order, Typed
  <2>4. at \in Nat /\ at > 0
    <3>1. object[o] \in ObjectTypes /\ Placed(o)
      BY <2>3 DEF Order
    <3>2. CASE CanCompress(last.op, e.op)
      BY <3>1, <3>2 DEF ObjectTypes, Placed, CanCompress
    <3>3. CASE ~ CanCompress(last.op, e.op)
      BY <3>1, <3>3 DEF ObjectTypes
    <3> QED
      BY <3>2, <3>3
  <2>5. w \in Entries(MaxId) /\ w.op \in Ops /\ Size(w) = Size(e) /\ Size(e) \in {1, 2}
    <3> DEFINE form == [e EXCEPT !.op = CompressedOp(last.op, e.op)]
    <3>1. form \in Entries(MaxId) /\ form.op # "rest" /\ Size(form) = Size(e)
      BY <2>3, FormIs
    <3> HIDE DEF form
    <3>2. w \in Entries(MaxId) /\ w.op = form.op
      BY <3>1, SealedApplied DEF form
    <3> HIDE DEF w
    <3> QED
      BY <3>1, <3>2, SizeIs DEF Entries
  <2> DEFINE r == Reaching(files[n], at)
  <2>6. /\ r \in Seq(Entries(MaxId)) /\ NoHeadAtEnd(r)
        /\ at <= Len(r) + 1 /\ Len(files[n]) <= Len(r) /\ Len(r) \in {Len(files[n]), at - 1}
    <3> HIDE DEF at
    <3>1. files[n] \in Seq(Entries(MaxId))
      BY <1>1, <2>3
    <3> QED
      BY <2>3, <2>4, <3>1, ReachingIs
  <2>7. /\ g \in Seq(Entries(MaxId)) /\ NoHeadAtEnd(g)
        /\ Len(g) = IF Len(r) < at + Size(w) - 1 THEN at + Size(w) - 1 ELSE Len(r)
    <3> HIDE DEF at, w, r
    <3> QED
      BY <2>3, <2>4, <2>5, <2>6, WrittenFile DEF r
  <2>8. ASSUME n \notin strayed'
        PROVE  Whole(g, b) /\ Len(g) + 1 = at + Size(e)
    <3>1. FollowsAt(n) /\ (CanCompress(last.op, e.op) => ~ Stale(o))
      BY <1>1, <2>2, <2>8 DEF Order
    <3>2. /\ Whole(FileAfter(n, o, e), b)
          /\ Len(FileAfter(n, o, e)) + 1 = WrittenAt(o, e) + Size(e)
      BY <1>1, <2>1, <3>1, WriteFollows
    <3>3. w = WrittenEntry(o, e) /\ at = WrittenAt(o, e) /\ g = FileAfter(n, o, e)
      BY DEF WrittenEntry, WrittenAt, FileAfter
    <3> HIDE DEF w, at, g, r
    <3> QED
      BY <3>2, <3>3
  <2> HIDE DEF g, r, at, w
  <2>9. /\ Len(g) <= MaxCells /\ Len(files[n]) <= Len(g) /\ at + Size(e) <= Len(g) + 1
        /\ at + Size(e) \in 1 .. MaxCells + 1
    <3>1. Len(r) \in Nat /\ Len(r) <= MaxCells
      BY <2>2, <2>3, <2>4, <2>5, <2>6
    <3>2. CASE Len(r) < at + Size(w) - 1
      BY <2>2, <2>3, <2>4, <2>5, <2>6, <2>7, <3>1, <3>2
    <3>3. CASE ~ (Len(r) < at + Size(w) - 1)
      BY <2>2, <2>3, <2>4, <2>5, <2>6, <2>7, <3>1, <3>3
    <3> QED
      BY <3>2, <3>3
  <2>10. /\ object'[o].on = n /\ object'[o].stream = n
         /\ object'[o].pos = at + Size(e) /\ object'[o].last.pos = at
         /\ object' \in [Objects -> ObjectTypes]
         /\ \A p \in Objects \ {o} : object'[p] = object[p]
    BY <1>1, <2>1, <2>2, <2>3, <2>4, <2>5, <2>9 DEF ObjectTypes
  <2>11. /\ files'[n] = g /\ \A m \in Names \ {n} : files'[m] = files[m]
         /\ files' \in [Names -> Seq(Entries(MaxId))]
    BY <1>1, <2>2, <2>3, <2>7
  <2>12. /\ segment' \in [Present -> [type : Types, table : Contents(MaxId)]]
         /\ Present' = Present /\ \A m \in Present \ {n} : segment'[m] = segment[m]
         /\ segment'[n].table = b
         /\ (Recovers <=> Recovers') /\ (IsOpen <=> IsOpen')
    <3>1. segment \in [Present -> [type : Types, table : Contents(MaxId)]]
      BY DEF Order, Typed
    <3> QED
      BY <1>1, <3>1 DEF Present, Recovers, IsOpen
  <2>13. Typed'
    <3>1. \A m \in Names : NoHeadAtEnd(files'[m]) /\ Len(files'[m]) <= MaxCells
      BY <2>7, <2>9, <2>11 DEF Order, Typed
    <3>2. strayed' \subseteq Names
      BY <1>1, <2>2 DEF Order, Typed
    <3> QED
      BY <1>1, <2>10, <2>11, <2>12, <3>1, <3>2 DEF Order, Typed
  <2>14. ASSUME NEW p \in Objects PROVE Placed(p)'
    <3>1. Placed(p) /\ Placed(o)
      BY DEF Order
    <3>2. CASE p = o
      BY <2>1, <2>4, <2>9, <2>10, <2>11, <2>12, <1>1, <3>1, <3>2 DEF Placed
    <3>3. CASE p # o
      <4>1. object'[p] = object[p]
        BY <2>10, <3>3
      <4>2. object[p].stream = n => object[p].pos <= Len(files'[n]) + 1
        <5>1. object[p].pos \in Nat
          BY <2>3 DEF ObjectTypes
        <5>2. object[p].stream = n => object[p].pos <= Len(files[n]) + 1
          BY <3>1, <1>1, NamedAssumption DEF Placed
        <5>3. Len(g) \in Nat
          BY <2>7
        <5> QED
          BY <2>3, <2>9, <2>11, <5>1, <5>2, <5>3
      <4>3. object[p].stream # NoName => object[p].stream \in Names
        BY <2>3 DEF ObjectTypes
      <4> QED
        BY <1>1, <2>11, <2>12, <3>1, <4>1, <4>2, <4>3 DEF Placed
    <3> QED
      BY <3>2, <3>3
  <2>15. ASSUME NEW p \in Objects PROVE Alone(p)'
    <3>1. Alone(p) /\ strayed \subseteq strayed'
      BY <2>2 DEF Order
    <3>2. \A q \in Objects : object'[q].stream = object[q].stream
      BY <2>1, <2>10
    <3> QED
      BY <3>1, <3>2 DEF Alone
  <2>16. ASSUME NEW m \in Names \ strayed' PROVE FollowsAt(m)'
    <3>1. m # NoName /\ FollowsAt(m) /\ Alone(o)
      BY <2>2, NamedAssumption DEF Order
    <3>2. CASE m # n
      <4>1. ASSUME NEW q \in Objects, object'[q].stream = m
            PROVE  \E p \in Objects : object[p].stream = m /\ object[p].pos = object'[q].pos
        BY <2>1, <2>10, <3>2, <4>1
      <4> QED
        BY <1>1, <2>11, <2>12, <3>1, <3>2, <4>1, FollowsSame
    <3>3. CASE m = n
      <4>1. Replays(m)' /\ object'[o].pos = Len(files'[m]) + 1
        BY <2>8, <2>10, <2>11, <2>12, <3>3 DEF Replays
      <4>2. \A q \in Objects : object'[q].stream = m => q = o
        BY <2>1, <2>2, <2>10, <3>1, <3>3 DEF Alone
      <4>3. \E u : Whole(files'[m], u)
        BY <4>1 DEF Replays
      <4> QED
        BY <1>1, <2>12, <3>3, <4>1, <4>2, <4>3 DEF FollowsAt
    <3> QED
      BY <3>2, <3>3
  <2> QED
    BY <2>13, <2>14, <2>15, <2>16 DEF Order
<1> QED
  BY <1>2, <1>3

\* The entry of a new row takes the place of no other.
LEMMA InsertIs ==
    ASSUME NEW id \in 0 .. MaxId, NEW v \in Vals
    PROVE  LET e == RowEntry("insert", id, v)
           IN  /\ e \in Entries(MaxId) /\ e.op = "insert" /\ e.id = id /\ e.val = v
               /\ e.op # "rest" /\ \A last : ~ CanCompress(last, e.op)
BY DEF RowEntry, Entry, Entries, Ops, ObjectOps, CanCompress

\* The entry of a new row is accepted as its key is the next one.
LEMMA EmplaceOrder ==
    ASSUME Order, NEW o \in Objects, NEW v \in Vals, Emplace(o, v)
    PROVE  Order'
<1> DEFINE t == segment[object[o].on].table
           b == Emplaced(t, t.next_id, v)
           e == RowEntry("insert", t.next_id, v)
<1>1. object[o].on # NoName /\ t.next_id <= MaxId /\ Call(o, b, e)
  BY DEF Emplace
<1>2. t \in Contents(MaxId)
  BY <1>1 DEF Order, Placed, Typed
<1>3. t.next_id \in 0 .. MaxId
  BY <1>1, <1>2, NamedAssumption DEF Contents, Tables
<1>4. b \in Contents(MaxId)
  BY <1>2, <1>3, EmplacedContents, NamedAssumption
<1>5. /\ e \in Entries(MaxId) /\ e.op = "insert" /\ e.id = t.next_id /\ e.val = v
      /\ e.op # "rest" /\ \A last : ~ CanCompress(last, e.op)
  <2> DEFINE id == t.next_id
  <2>1. id \in 0 .. MaxId
    BY <1>3
  <2> HIDE DEF id
  <2>2. LET d == RowEntry("insert", id, v)
        IN  /\ d \in Entries(MaxId) /\ d.op = "insert" /\ d.id = id /\ d.val = v
            /\ d.op # "rest" /\ \A last : ~ CanCompress(last, d.op)
    BY <2>1, InsertIs
  <2> QED
    BY <2>2 DEF id
<1> HIDE DEF e
<1>6. Applied(t, e) = Accepts(b)
  BY <1>3, <1>5, AppliedRows
<1>7. Tells(t, e, b)
  BY <1>5, <1>6 DEF Tells
<1> HIDE DEF b
<1> QED
  BY <1>1, <1>4, <1>5, <1>7, CallOrder

\* What CallOrder asks of an entry of a session: it is accepted after its entry
\* before, and over one that it can take the place of.
LEMMA SessionTells ==
    ASSUME NEW t \in Contents(MaxId), NEW e \in Entries(MaxId), e.op \in SessionOps,
           NEW b, Applied(t, e) = Accepts(b), e.op # "commit",
           \A v \in Contents(MaxId), l, w \in Entries(MaxId) :
              /\ l.op = "revision" /\ Applied(v, l) = Accepts(t)
              /\ w.op = e.op /\ w.rev = e.rev
              /\ e.op \in {"start_undo", "revision"}
              => Applied(v, w) = Accepts(b)
    PROVE  Tells(t, e, b)
<1> SUFFICES ASSUME NEW v \in Contents(MaxId), NEW l \in Entries(MaxId),
                    CanCompress(l.op, e.op), Applied(v, l) = Accepts(t)
             PROVE  Applied(v, [e EXCEPT !.op = CompressedOp(l.op, e.op)]) = Accepts(b)
  BY DEF Tells
<1> DEFINE w == [e EXCEPT !.op = CompressedOp(l.op, e.op)]
<1>1. w \in Entries(MaxId) /\ w.rev = e.rev /\ w.op = CompressedOp(l.op, e.op)
  BY FormIs, NamedAssumption DEF SessionOps
<1>2. l.op = "revision" /\ e.op \in {"start_undo", "revision"}
  BY DEF CanCompress
<1>3. w.op = e.op
  BY <1>1, <1>2 DEF CompressedOp
<1> HIDE DEF w
<1> QED
  BY <1>1, <1>2, <1>3 DEF w

\* The entry of a session, which may take the place of that of its revision
LEMMA StartUndoOrder ==
    ASSUME Order, NEW o \in Objects, StartUndo(o)
    PROVE  Order'
<1> DEFINE t == segment[object[o].on].table
           b == SessionStarted(t)
           r == t.revision + 1
           e == SessionEntry("start_undo", r)
<1>1. object[o].on # NoName /\ Call(o, b, e)
  BY DEF StartUndo
<1>2. t \in Contents(MaxId)
  BY <1>1 DEF Order, Placed, Typed
<1>3. r \in Nat /\ t.revision \in Nat /\ r = t.revision + 1
  BY <1>2 DEF Contents, Tables
<1>4. b \in Contents(MaxId)
  BY <1>2, StartedContents, NamedAssumption
<1> HIDE DEF r, t
<1>5. e \in Entries(MaxId) /\ e.op = "start_undo" /\ e.rev = r /\ e.op # "rest"
  BY <1>3, NamedAssumption
     DEF SessionEntry, Entry, Entries, Ops, ObjectOps, SessionOps
<1> HIDE DEF e
<1>6. Applied(t, e) = Accepts(b)
  BY <1>3, <1>5, TakesStart
<1>7. ASSUME NEW v \in Contents(MaxId), NEW l \in Entries(MaxId), NEW w \in Entries(MaxId),
             l.op = "revision", Applied(v, l) = Accepts(t), w.op = e.op, w.rev = e.rev
      PROVE  Applied(v, w) = Accepts(b)
  <2>1. l.rev \in Nat /\ MaxId \in Nat
    BY NamedAssumption DEF Entries
  <2> QED
    BY <1>3, <1>5, <1>7, <2>1, StartOverRevision
<1> HIDE DEF b
<1>8. Tells(t, e, b)
  BY <1>2, <1>5, <1>6, <1>7, SessionTells DEF SessionOps
<1> QED
  BY <1>1, <1>4, <1>5, <1>8, CallOrder DEF t

\* The entry of a revision, which may take the place of the last one
LEMMA SetRevisionOrder ==
    ASSUME Order, NEW o \in Objects, NEW r \in 0 .. MaxRevision, SetRevision(o, r)
    PROVE  Order'
<1> DEFINE t == segment[object[o].on].table
           b == WithRevision(t, r)
           e == SessionEntry("revision", r)
<1>1. object[o].on # NoName /\ MaySetRevision(t, r) /\ Call(o, b, e)
  BY DEF SetRevision
<1>2. t \in Contents(MaxId)
  BY <1>1 DEF Order, Placed, Typed
<1>3. r \in Nat
  BY NamedAssumption
<1>4. b \in Contents(MaxId)
  BY <1>1, <1>2, <1>3, RevisionContents, NamedAssumption DEF MaySetRevision
<1> HIDE DEF t
<1>5. e \in Entries(MaxId) /\ e.op = "revision" /\ e.rev = r /\ e.op # "rest"
  BY <1>3, NamedAssumption
     DEF SessionEntry, Entry, Entries, Ops, ObjectOps, SessionOps
<1> HIDE DEF e
<1>6. Applied(t, e) = Accepts(b)
  BY <1>1, <1>5, TakesRevision
<1>7. ASSUME NEW v \in Contents(MaxId), NEW l \in Entries(MaxId), NEW w \in Entries(MaxId),
             l.op = "revision", Applied(v, l) = Accepts(t), w.op = e.op, w.rev = e.rev
      PROVE  Applied(v, w) = Accepts(b)
  <2>1. l.rev \in Nat /\ MaxId \in Nat /\ w.rev = r
    BY <1>5, <1>7, NamedAssumption DEF Entries
  <2>2. Applied(v, w) = Accepts(WithRevision(t, w.rev))
    BY <1>1, <1>3, <1>5, <1>7, <2>1, RevisionOverRevision
  <2> QED
    BY <2>1, <2>2
<1> HIDE DEF b
<1>8. Tells(t, e, b)
  BY <1>2, <1>5, <1>6, <1>7, SessionTells DEF SessionOps
<1> QED
  BY <1>1, <1>4, <1>5, <1>8, CallOrder DEF t

\* The entry of an undo
LEMMA UndoOrder ==
    ASSUME Order, NEW o \in Objects, Undo(o)
    PROVE  Order'
<1> DEFINE t == segment[object[o].on].table
           b == Undone(t)
           r == b.revision
           e == SessionEntry("undo", r)
<1>1. object[o].on # NoName /\ Call(o, b, e)
  BY DEF Undo
<1>2. t \in Contents(MaxId)
  BY <1>1 DEF Order, Placed, Typed
<1>3. b \in Contents(MaxId)
  BY <1>2, UndoneContents, NamedAssumption
<1> HIDE DEF t, b
<1>4. r \in Nat
  BY <1>3 DEF Contents, Tables
<1>5. e \in Entries(MaxId) /\ e.op = "undo" /\ e.rev = r /\ e.op # "rest"
  BY <1>4, NamedAssumption
     DEF SessionEntry, Entry, Entries, Ops, ObjectOps, SessionOps
<1> HIDE DEF e
<1>6. Applied(t, e) = Accepts(b)
  BY <1>5, TakesUndo DEF b
<1>7. Tells(t, e, b)
  BY <1>2, <1>5, <1>6, SessionTells DEF SessionOps
<1> QED
  BY <1>1, <1>3, <1>5, <1>7, CallOrder DEF t, b

-----------------------------------------------------------------------------
(* All steps. *)

\* Steps of others
LEMMA SameOrder ==
    ASSUME Order, UNCHANGED <<segment, files, object, db, losses, strayed>>
    PROVE  Order'
<1>1. Present' = Present /\ (Recovers <=> Recovers') /\ (IsOpen <=> IsOpen')
  BY DEF Present, Recovers, IsOpen
<1>2. Typed'
  BY <1>1 DEF Order, Typed
<1>3. ASSUME NEW o \in Objects PROVE Placed(o)' /\ Alone(o)'
  BY <1>1 DEF Order, Placed, Alone
<1>4. ASSUME NEW n \in Names \ strayed' PROVE FollowsAt(n)'
  <2>1. FollowsAt(n) /\ n # NoName
    BY NamedAssumption DEF Order
  <2> QED
    BY <1>1, <2>1, FollowsSame
<1> QED
  BY <1>2, <1>3, <1>4 DEF Order

\* The steps of the singleton
SlotNext ==
    \/ \E throws \in BOOLEAN : EmplaceSlot(throws) \/ GetOrConstruct(throws)
    \/ ClearSlot

\* Every step keeps the invariant.
LEMMA NextOrder == Order /\ [Next]_vars => Order'
<1> SUFFICES ASSUME Order, [Next]_vars PROVE Order'
  OBVIOUS
<1>1. CASE \E mode \in Modes :
              \/ \E outcome \in {"created", "reset"} : OpenNew(mode, outcome)
              \/ OpenGood(mode)
  BY <1>1, OpenNewOrder, OpenGoodOrder
<1>2. CASE Close
  BY <1>2, CloseOrder
<1>3. CASE \E t \in Types, s \in Suffixes :
              \/ GetPlain(t, s)
              \/ \E o \in Objects : GetJournaled(o, t, s)
  BY <1>3, GetPlainOrder, GetJournaledOrder
<1>4. CASE \E o \in Objects :
              \/ \E from \in Objects : Move(o, from)
              \/ Destroy(o)
              \/ \E v \in Vals : Emplace(o, v)
              \/ StartUndo(o)
              \/ \E r \in 0 .. MaxRevision : SetRevision(o, r)
              \/ Undo(o)
  BY <1>4, MoveOrder, DestroyOrder, EmplaceOrder, StartUndoOrder, SetRevisionOrder,
     UndoOrder
<1>5. CASE \E n \in Present, v \in Vals : EmplacePlain(n, v)
  BY <1>5, EmplacePlainOrder
<1>6. CASE SlotNext
  BY <1>6, SameOrder DEF SlotNext, EmplaceSlot, GetOrConstruct, ClearSlot, SlotChanges
<1>7. CASE UNCHANGED vars
  BY <1>7, SameOrder DEF vars
<1> QED
  BY <1>1, <1>2, <1>3, <1>4, <1>5, <1>6, <1>7 DEF Next, SlotNext

\* The invariant holds, whatever is in Careless.
THEOREM OrderHolds == Spec => []Order
<1>1. Init => Order
  BY InitOrder
<1>2. Order /\ [Next]_vars => Order'
  BY NextOrder
<1> QED
  BY <1>1, <1>2, PTL DEF Spec

-----------------------------------------------------------------------------
(* Its consequences. *)

\* Every variable has its type: no object stands behind the longest file.
THEOREM TypeOKHolds == Spec => []TypeOK
<1>1. Order => TypeOK
  <2> SUFFICES ASSUME Order PROVE TypeOK
    OBVIOUS
  <2>1. \A n \in Present : segment[n].type \in Types
    BY DEF Order, Typed
  <2>2. ASSUME NEW o \in Objects
        PROVE  /\ object[o].on \in Names \cup {NoName}
               /\ object[o].stream \in Names \cup {NoName}
               /\ object[o].pos \in 1 .. MaxCells + 1
    BY DEF Order, Typed, ObjectTypes
  <2> QED
    BY <2>1, <2>2 DEF Order, Typed, TypeOK
<1> QED
  BY <1>1, OrderHolds, PTL

\* The journal of every name that no careless use got wrong replays to the
\* container of that name, and its object writes where the replay ends: get reads
\* it once, or stands at its end (database.hpp:100-120).
THEOREM JournalsFollowHolds == Spec => []JournalsFollow
<1>1. Order => JournalsFollow
  <2> SUFFICES ASSUME Order, NEW n \in Present \ (strayed \cup Unread)
               PROVE  /\ Replay(files[n], EmptyTable).status = "end"
                      /\ Replay(files[n], EmptyTable).table = segment[n].table
                      /\ \A o \in Objects : object[o].stream = n =>
                            object[o].pos = Replay(files[n], EmptyTable).pos
    BY DEF JournalsFollow
  <2>1. n \in Names /\ files[n] \in Seq(Entries(MaxId))
    BY DEF Order, Typed
  <2>2. Whole(files[n], segment[n].table)
    BY <2>1, ReadReplays DEF Replays
  <2>3. \A o \in Objects : object[o].stream = n => object[o].pos = Len(files[n]) + 1
    BY <2>1 DEF Order, FollowsAt
  <2> QED
    BY <2>1, <2>2, <2>3, WholeReplay
<1> QED
  BY <1>1, OrderHolds, PTL

\* Through all moves and assignments an object writes the journal of the container
\* that it points to, and no other object writes that one (journaled.hpp:47-67).
THEOREM OneWriterPerNameHolds == Spec => []OneWriterPerName
<1>1. Order => OneWriterPerName
  BY DEF Order, Placed, Alone, OneWriterPerName
<1> QED
  BY <1>1, OrderHolds, PTL

-----------------------------------------------------------------------------
(* The singleton. *)

\* A singleton that says it has a value has one and has destroyed the others, if
\* the program does not emplace over one (singleton.hpp:46, which would leave the old
\* value undestroyed).
THEOREM SlotIsWholeHolds ==
    ASSUME "emplace_over" \notin Careless
    PROVE  Spec => []SlotIsWhole
<1> DEFINE Slots == [constructed : BOOLEAN, holds : {"nothing", "rubble", "value"},
                     forgotten : {0}]
           Inv == slot \in Slots /\ SlotIsWhole
<1>1. Init => Inv
  BY DEF Init, RawSlot, SlotIsWhole
<1>2. Inv /\ [Next]_vars => Inv'
  <2> SUFFICES ASSUME Inv, [Next]_vars PROVE Inv'
    OBVIOUS
  <2>1. ASSUME NEW throws \in BOOLEAN, slot' = EmplacedSlot(slot, throws),
               ~ slot.constructed
        PROVE  Inv'
    <3>1. slot.holds # "value" /\ slot.forgotten = 0
      BY <2>1 DEF SlotIsWhole
    <3>2. slot' = [constructed |-> ~ throws,
                   holds |-> IF throws THEN "rubble" ELSE "value", forgotten |-> 0]
      BY <2>1, <3>1 DEF EmplacedSlot
    <3> QED
      BY <3>2 DEF SlotIsWhole
  <2>2. CASE slot' = slot
    BY <2>2 DEF SlotIsWhole
  <2>3. CASE slot' = RawSlot
    BY <2>3 DEF SlotIsWhole, RawSlot
  <2>4. CASE slot' = [slot EXCEPT !.constructed = FALSE, !.holds = "nothing"]
    BY <2>4 DEF SlotIsWhole
  <2>5. ASSUME NEW throws \in BOOLEAN, EmplaceSlot(throws) PROVE Inv'
    BY <2>1, <2>5 DEF EmplaceSlot, SlotChanges
  <2>6. ASSUME NEW throws \in BOOLEAN, GetOrConstruct(throws) PROVE Inv'
    BY <2>1, <2>2, <2>6 DEF GetOrConstruct, SlotChanges
  <2>7. CASE ClearSlot
    BY <2>2, <2>4, <2>7 DEF ClearSlot, SlotChanges
  <2>8. CASE \E mode \in Modes, outcome \in {"created", "reset"} : OpenNew(mode, outcome)
    BY <2>3, <2>8 DEF OpenNew
  <2>9. CASE UNCHANGED slot
    BY <2>2, <2>9
  <2>10. \/ \E mode \in Modes, outcome \in {"created", "reset"} : OpenNew(mode, outcome)
         \/ \E throws \in BOOLEAN : EmplaceSlot(throws) \/ GetOrConstruct(throws)
         \/ ClearSlot
         \/ UNCHANGED slot
    <3>1. \A mode \in Modes : OpenGood(mode) => UNCHANGED slot
      BY DEF OpenGood
    <3>2. Close \/ UNCHANGED vars => UNCHANGED slot
      BY DEF Close, vars
    <3>3. \A t \in Types, s \in Suffixes : GetPlain(t, s) => UNCHANGED slot
      BY DEF GetPlain
    <3>4. \A o \in Objects, t \in Types, s \in Suffixes :
             GetJournaled(o, t, s) => UNCHANGED slot
      BY DEF GetJournaled
    <3>5. \A o, from \in Objects : Move(o, from) \/ Destroy(o) => UNCHANGED slot
      BY DEF Move, Destroy
    <3>6. \A o \in Objects, v \in Vals : Emplace(o, v) => UNCHANGED slot
      BY DEF Emplace, Call
    <3>7. \A o \in Objects, r \in 0 .. MaxRevision :
             SetRevision(o, r) => UNCHANGED slot
      BY DEF SetRevision, Call
    <3>8. \A n \in Present, v \in Vals : EmplacePlain(n, v) => UNCHANGED slot
      BY DEF EmplacePlain
    <3>9. \A o \in Objects : StartUndo(o) \/ Undo(o) => UNCHANGED slot
      BY DEF StartUndo, Undo, Call
    <3> QED
      BY <3>1, <3>2, <3>3, <3>4, <3>5, <3>6, <3>7, <3>8, <3>9, Zenon DEF Next
  <2> QED
    BY <2>5, <2>6, <2>7, <2>8, <2>9, <2>10
<1>3. Inv => SlotIsWhole
  OBVIOUS
<1> QED
  BY <1>1, <1>2, <1>3, PTL DEF Spec
=============================================================================
