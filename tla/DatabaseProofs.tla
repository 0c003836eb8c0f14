---------------------------- MODULE DatabaseProofs ----------------------------
(***************************************************************************)
(* Proofs about Database, for any processes, sizes and number of crashes.  *)
(*                                                                         *)
(* The properties hold together or not at all: the flag is right because   *)
(* the lock excludes other writers, which it only does because openers     *)
(* that touch the file before they lock it are alone, and what may be torn *)
(* on the disk is known from the flag.  Order joins these facts.           *)
(***************************************************************************)
EXTENDS Database, TLAPS

\* Careless uses without which what follows does not hold
Forbidden == {"overlap", "allow", "crash_constructing", "crash_growing", "crash_flushing"}
Disciplined == Careless \cap Forbidden = {}

-----------------------------------------------------------------------------
(* The inductive invariant. *)

LockIsOwned == \A p \in Procs : stage[p] \in Owning <=> lock = p

HarmsAlone ==
    \A p \in Procs : \A q \in Procs \ {p} : Harms(p) => stage[q] = "out"

\* What the constructor knows at each of its places
Resets(p) ==
    stage[p] # "out" /\ found[p] /\ outcome[p] = "reset"
        => opener[p].action = "reset" /\ Writable(p)
Knows(p) ==
    /\ stage[p] \in {"out", "found"} => outcome[p] = "good"
    /\ stage[p] \in {"out", "found", "validated"} => grow[p] = 0
    /\ stage[p] \in {"touched", "resized"} => Renews(p) /\ file.segment = 0
    /\ stage[p] \in {"measured", "enlarged", "growing"} => ~ Renews(p)
    /\ stage[p] \in {"mapped", "locked"} /\ Renews(p) => file.header = "ok"
    /\ stage[p] = "resized" => file.size = opener[p].size
    /\ IsNew(p) => ~ file.dirty
    /\ stage[p] = "measured" /\ grow[p] > 0 => opener[p].size = file.size + grow[p]
    /\ stage[p] \in {"enlarged", "growing"} =>
            grow[p] > 0 /\ file.segment + grow[p] <= file.size
    /\ stage[p] = "cleared" => file.whole /\ ~ file.dirty

\* What the file and the disk have in common, and when they may differ
FlagSet == file.dirty /\ disk.dirty
FlagOnDisk == file.dirty = disk.dirty \/ \E p \in Procs : stage[p] = "cleared"
HeaderOnDisk == \/ file.exists => file.header = "ok" /\ disk.header = "ok"
                \/ \E p \in Procs : IsNew(p)
TornIsDirty == ~ file.whole => FlagSet
UnsyncedIsDirty ==
    ~ disk.synced =>
        FlagSet \/ \E p \in Procs : stage[p] = "cleared" \/ IsNew(p) \/ IsGrown(p)

Order ==
    /\ TypeOK
    /\ LockIsOwned
    /\ HarmsAlone
    /\ \A p \in Procs : Resets(p) /\ Knows(p)
    /\ file.segment <= file.size
    /\ DirtyWhileOpen
    /\ FlagOnDisk
    /\ HeaderOnDisk
    /\ TornIsDirty
    /\ UnsyncedIsDirty

\* An outcome that is good was read from a clear flag.
Told ==
    /\ \A p \in Procs : ~ found[p] /\ stage[p] \notin {"out", "found"}
                            => outcome[p] = "created"
    /\ \A p \in Procs : stage[p] # "out" /\ ~ found[p] => Writable(p)
    /\ \A p \in Procs : stage[p] \in Owning \cup (Constructing \ {"found", "validated"})
                            => Writable(p)
    /\ \A p \in Procs : stage[p] \notin {"out", "found", "reading"} /\ Writable(p)
                            /\ outcome[p] = "good" => file.whole
    /\ untold => \E p \in Procs : stage[p] \in {"mapped", "locked"} /\ Renews(p)

-----------------------------------------------------------------------------
(* Steps keep the order. *)

\* An object that ends leaves well-typed values behind.
LEMMA LeavesTypes ==
    ASSUME TypeOK, NEW p \in Procs, Leaves(p)
    PROVE  /\ stage' \in [Procs -> Stages]
           /\ opener' \in [Procs -> [mode : Modes, size : Nat, action : Actions]]
           /\ found' \in [Procs -> BOOLEAN]
           /\ outcome' \in [Procs -> Outcomes]
           /\ grow' \in [Procs -> Nat]
<1>1. NoOpener \in [mode : Modes, size : Nat, action : Actions]
  BY DEF NoOpener, Modes, Actions
<1> QED
  BY <1>1 DEF TypeOK, Leaves, Stages, Outcomes

\* A constructor begins when that harms nobody.
LEMMA StartOrder ==
    ASSUME Order, Disciplined, NEW p \in Procs, NEW mode \in Modes, NEW size \in Sizes,
           NEW action \in Actions,
           Start(p, mode, size, action)
    PROVE  Order'
<1> USE DEF Order, Start, Overlaps, AtLeastMinSize, Goes
<1>1. TypeOK'
  BY DatabaseAssumption DEF TypeOK, Stages, Constructing
<1>2. LockIsOwned'
  BY DEF LockIsOwned, Owning
<1>3. HarmsAlone'
  <2>1. ASSUME NEW q \in Procs \ {p} PROVE ~ Harms(q) \/ stage[q] = "out"
    BY DEF Disciplined, Forbidden
  <2>2. ASSUME NEW q \in Procs \ {p}, Harms(p)' PROVE stage[q] = "out"
    BY <2>2 DEF Disciplined, Forbidden, TypeOK, Knows, Harms, Harmless
  <2>3. ASSUME NEW q \in Procs \ {p}, Harms(q)' PROVE FALSE
    BY <2>1, <2>3 DEF Harms, Harmless, Constructing
  <2> QED
    BY <2>2, <2>3 DEF HarmsAlone
<1>4. \A q \in Procs : Resets(q)' /\ Knows(q)'
  BY DEF Resets, Knows, IsNew, Renews, Writable
<1>5. (file.segment <= file.size)'
  OBVIOUS
<1>6. DirtyWhileOpen'
  BY DEF DirtyWhileOpen
<1>7. FlagOnDisk'
  BY DEF FlagOnDisk
<1>8. HeaderOnDisk'
  BY DEF HeaderOnDisk, IsNew, Renews
<1>9. TornIsDirty'
  BY DEF TornIsDirty, FlagSet
<1>10. UnsyncedIsDirty'
  BY DEF UnsyncedIsDirty, FlagSet, IsNew, IsGrown, Renews
<1> QED
  BY <1>1, <1>2, <1>3, <1>4, <1>5, <1>6, <1>7, <1>8, <1>9, <1>10

\* The flag is read, and an opener that it forbids gives up.
LEMMA ValidateOrder ==
    ASSUME Order, Disciplined, NEW p \in Procs,
           Validate(p)
    PROVE  Order'
<1> USE DEF Order, Validate, OutcomeOf, Leaves, NoOpener, Goes
<1>1. TypeOK'
  <2>1. OutcomeOf(file.dirty, opener[p].action, Writable(p)) \in Outcomes \cup {"throws"}
    BY DEF Outcomes
  <2> HIDE DEF OutcomeOf, Leaves
  <2>2. CASE Leaves(p)
    BY <2>2, LeavesTypes DEF TypeOK
  <2>3. CASE ~ Leaves(p)
    <3> DEFINE result == OutcomeOf(file.dirty, opener[p].action, Writable(p))
    <3>1. result \in Outcomes /\ outcome' = [outcome EXCEPT ![p] = result]
      BY <2>1, <2>3
    <3> HIDE DEF result
    <3> QED
      BY <2>3, <3>1 DEF TypeOK, Stages, Constructing
  <2> QED
    BY <2>2, <2>3
<1>2. LockIsOwned'
  BY DatabaseAssumption DEF TypeOK, LockIsOwned, Owning
<1>3. HarmsAlone'
  BY DEF TypeOK, HarmsAlone, Harms, Harmless, Constructing
<1>4. \A q \in Procs : Resets(q)' /\ Knows(q)'
  BY DEF TypeOK, Knows, IsNew, Resets, Writable, Renews
<1>5. (file.segment <= file.size)'
  OBVIOUS
<1>6. DirtyWhileOpen'
  BY DEF TypeOK, DirtyWhileOpen
<1>7. FlagOnDisk'
  BY DEF TypeOK, FlagOnDisk
<1>8. HeaderOnDisk'
  BY DEF TypeOK, HeaderOnDisk, IsNew, Renews
<1>9. TornIsDirty'
  BY DEF TornIsDirty, FlagSet
<1>10. UnsyncedIsDirty'
  BY DEF TypeOK, UnsyncedIsDirty, FlagSet, IsNew, IsGrown, Renews
<1> QED
  BY <1>1, <1>2, <1>3, <1>4, <1>5, <1>6, <1>7, <1>8, <1>9, <1>10

\* No file: the constructor goes on to make one, or gives up.
LEMMA NotFoundOrder ==
    ASSUME Order, Disciplined, NEW p \in Procs,
           NotFound(p)
    PROVE  Order'
<1> USE DEF Order, NotFound, Goes
<1>1. TypeOK'
  BY DEF TypeOK, Stages, Constructing, Outcomes
<1>2. LockIsOwned'
  BY DEF LockIsOwned, Owning
<1>3. HarmsAlone'
  BY DEF HarmsAlone, Harms, Constructing
<1>4. \A q \in Procs : Resets(q)' /\ Knows(q)'
  BY DEF TypeOK, Knows, IsNew, Resets, Writable, Renews
<1>5. (file.segment <= file.size)'
  OBVIOUS
<1>6. DirtyWhileOpen'
  BY DEF DirtyWhileOpen
<1>7. FlagOnDisk'
  BY DEF FlagOnDisk
<1>8. HeaderOnDisk'
  BY DEF HeaderOnDisk, IsNew, Renews
<1>9. TornIsDirty'
  BY DEF TornIsDirty, FlagSet
<1>10. UnsyncedIsDirty'
  BY DEF UnsyncedIsDirty, FlagSet, IsNew, IsGrown, Renews
<1> QED
  BY <1>1, <1>2, <1>3, <1>4, <1>5, <1>6, <1>7, <1>8, <1>9, <1>10

\* A new file is empty, a reset one is empty again.
LEMMA TouchOrder ==
    ASSUME Order, Disciplined, NEW p \in Procs,
           Touch(p)
    PROVE  Order'
<1> USE DEF Order, Touch, NoFile, Goes
<1>1. TypeOK'
  BY DEF TypeOK, Stages, Constructing, Owning, Modes, Actions, Outcomes
<1>2. LockIsOwned'
  BY DEF LockIsOwned, Owning
<1>3. HarmsAlone'
  BY DEF HarmsAlone, Harms, Harmless, Resets, Writable, Renews, Constructing
<1>4. \A q \in Procs : Resets(q)' /\ Knows(q)'
  BY DEF Knows, HarmsAlone, Harms, Harmless, Resets, Writable, Renews,
     Constructing
<1>5. (file.segment <= file.size)'
  OBVIOUS
<1>6. DirtyWhileOpen'
  BY DEF DirtyWhileOpen, HarmsAlone, Harms, Harmless, Resets, Writable, Renews,
     Constructing
<1>7. FlagOnDisk'
  BY DEF FlagOnDisk
<1>8. HeaderOnDisk'
  BY DEF TypeOK, HeaderOnDisk, IsNew
<1>9. TornIsDirty'
  BY DEF TornIsDirty
<1>10. UnsyncedIsDirty'
  BY DEF UnsyncedIsDirty
<1> QED
  BY <1>1, <1>2, <1>3, <1>4, <1>5, <1>6, <1>7, <1>8, <1>9, <1>10

\* A new file gets its size.
LEMMA ResizeNewOrder ==
    ASSUME Order, Disciplined, NEW p \in Procs,
           ResizeNew(p)
    PROVE  Order'
<1> USE DEF Order, ResizeNew, Goes
<1>1. TypeOK'
  BY DEF TypeOK, Stages, Constructing, Owning, Modes, Actions, Outcomes
<1>2. LockIsOwned'
  BY DEF LockIsOwned, Owning
<1>3. HarmsAlone'
  BY DEF Knows, HarmsAlone, Harms, Harmless, Resets, Writable, Renews,
     Constructing
<1>4. \A q \in Procs : Resets(q)' /\ Knows(q)'
  BY DEF Knows, IsNew, HarmsAlone, Harms, Harmless, Resets, Writable, Renews,
     Constructing
<1>5. (file.segment <= file.size)'
  BY DEF TypeOK, Knows
<1>6. DirtyWhileOpen'
  BY DEF DirtyWhileOpen
<1>7. FlagOnDisk'
  BY DEF FlagOnDisk
<1>8. HeaderOnDisk'
  BY DEF HeaderOnDisk, IsNew
<1>9. TornIsDirty'
  BY DEF TornIsDirty, FlagSet
<1>10. UnsyncedIsDirty'
  BY DEF UnsyncedIsDirty, IsNew
<1> QED
  BY <1>1, <1>2, <1>3, <1>4, <1>5, <1>6, <1>7, <1>8, <1>9, <1>10

\* A new file gets a header and a segment.
LEMMA ConstructOrder ==
    ASSUME Order, Disciplined, NEW p \in Procs,
           Construct(p)
    PROVE  Order'
<1> USE DEF Order, Construct, Constructed, Goes
<1>1. TypeOK'
  BY DEF TypeOK, Stages, Constructing, Owning, Modes, Actions, Outcomes
<1>2. LockIsOwned'
  BY DEF LockIsOwned, Owning
<1>3. HarmsAlone'
  BY DEF HarmsAlone, Harms, Harmless, Constructing
<1>4. \A q \in Procs : Resets(q)' /\ Knows(q)'
  BY DEF TypeOK, Knows, HarmsAlone, Harms, Harmless, Resets, Writable, Renews,
     Constructing
<1>5. (file.segment <= file.size)'
  BY DEF TypeOK, Knows
<1>6. DirtyWhileOpen'
  BY DEF DirtyWhileOpen, Knows, HarmsAlone, Harms, Harmless, Resets, Writable,
     Renews, Constructing
<1>7. FlagOnDisk'
  <2>1. IsNew(p) /\ ~ file.dirty
    BY DEF IsNew, Knows
  <2>2. stage[p] = "resized" /\ (~ Harmless(opener[p]) \/ ~ found[p])
    BY DEF Knows, Renews, Resets, Harmless, Writable
  <2>3. \A q \in Procs : stage[q] # "cleared"
    BY <2>2 DEF HarmsAlone, Harms, Constructing
  <2> QED
    BY <2>1, <2>3 DEF TypeOK, FlagOnDisk
<1>8. HeaderOnDisk'
  BY DEF HeaderOnDisk, IsNew, Knows, Renews
<1>9. TornIsDirty'
  BY DEF TornIsDirty
<1>10. UnsyncedIsDirty'
  BY DEF UnsyncedIsDirty, IsNew, Knows, Renews
<1> QED
  BY <1>1, <1>2, <1>3, <1>4, <1>5, <1>6, <1>7, <1>8, <1>9, <1>10

\* A file that is kept is compared with the size asked for.
LEMMA MeasureOrder ==
    ASSUME Order, Disciplined, NEW p \in Procs,
           Measure(p)
    PROVE  Order'
<1> USE DEF Order, Measure, Growth, Goes
<1>1. TypeOK'
  BY DEF TypeOK, Stages, Constructing
<1>2. LockIsOwned'
  BY DEF LockIsOwned, Owning
<1>3. HarmsAlone'
  BY DEF TypeOK, HarmsAlone, Harms, Harmless, Writable, Constructing
<1>4. \A q \in Procs : Resets(q)' /\ Knows(q)'
  BY DEF TypeOK, Knows, IsNew, Resets, Writable, Renews
<1>5. (file.segment <= file.size)'
  OBVIOUS
<1>6. DirtyWhileOpen'
  BY DEF DirtyWhileOpen
<1>7. FlagOnDisk'
  BY DEF FlagOnDisk
<1>8. HeaderOnDisk'
  BY DEF HeaderOnDisk, IsNew, Renews
<1>9. TornIsDirty'
  BY DEF TornIsDirty, FlagSet
<1>10. UnsyncedIsDirty'
  BY DEF UnsyncedIsDirty, FlagSet, IsNew, IsGrown, Renews
<1> QED
  BY <1>1, <1>2, <1>3, <1>4, <1>5, <1>6, <1>7, <1>8, <1>9, <1>10

\* A file that does not grow is mapped.
LEMMA MapFileOrder ==
    ASSUME Order, Disciplined, NEW p \in Procs,
           MapFile(p)
    PROVE  Order'
<1> USE DEF Order, MapFile, Goes
<1>1. TypeOK'
  BY DEF TypeOK, Stages, Constructing
<1>2. LockIsOwned'
  BY DEF LockIsOwned, Owning
<1>3. HarmsAlone'
  BY DEF HarmsAlone, Harms, Harmless, Constructing
<1>4. \A q \in Procs : Resets(q)' /\ Knows(q)'
  BY DEF Knows, IsNew, Resets, Writable, Renews
<1>5. (file.segment <= file.size)'
  OBVIOUS
<1>6. DirtyWhileOpen'
  BY DEF DirtyWhileOpen
<1>7. FlagOnDisk'
  BY DEF FlagOnDisk
<1>8. HeaderOnDisk'
  BY DEF HeaderOnDisk, IsNew, Renews
<1>9. TornIsDirty'
  BY DEF TornIsDirty, FlagSet
<1>10. UnsyncedIsDirty'
  BY DEF UnsyncedIsDirty, FlagSet, IsNew, IsGrown, Renews
<1> QED
  BY <1>1, <1>2, <1>3, <1>4, <1>5, <1>6, <1>7, <1>8, <1>9, <1>10

\* The file grows before its segment does.
LEMMA EnlargeOrder ==
    ASSUME Order, Disciplined, NEW p \in Procs,
           Enlarge(p)
    PROVE  Order'
<1> USE DEF Order, Enlarge, Goes
<1>1. TypeOK'
  BY DEF TypeOK, Stages, Constructing
<1>2. LockIsOwned'
  BY DEF LockIsOwned, Owning
<1>3. HarmsAlone'
  BY DEF HarmsAlone, Harms, Constructing
<1>4. \A q \in Procs : Resets(q)' /\ Knows(q)'
  BY DEF TypeOK, Knows, IsNew, HarmsAlone, Harms, Resets, Renews, Constructing
<1>5. (file.segment <= file.size)'
  BY DEF TypeOK, Knows
<1>6. DirtyWhileOpen'
  BY DEF DirtyWhileOpen
<1>7. FlagOnDisk'
  BY DEF FlagOnDisk
<1>8. HeaderOnDisk'
  BY DEF HeaderOnDisk, IsNew, Renews
<1>9. TornIsDirty'
  BY DEF TornIsDirty, FlagSet
<1>10. UnsyncedIsDirty'
  BY DEF UnsyncedIsDirty, FlagSet, IsNew, IsGrown, Renews
<1> QED
  BY <1>1, <1>2, <1>3, <1>4, <1>5, <1>6, <1>7, <1>8, <1>9, <1>10

\* The segment begins to grow, and is torn until it has.
LEMMA GrowSegmentOrder ==
    ASSUME Order, Disciplined, NEW p \in Procs,
           GrowSegment(p)
    PROVE  Order'
<1> USE DEF Order, GrowSegment, Goes
<1>1. TypeOK'
  BY DEF TypeOK, Stages, Constructing, Owning, Modes, Actions, Outcomes
<1>2. LockIsOwned'
  BY DEF LockIsOwned, Owning
<1>3. HarmsAlone'
  BY DEF Knows, HarmsAlone, Harms, Constructing
<1>4. \A q \in Procs : Resets(q)' /\ Knows(q)'
  BY DEF Knows, IsNew, Resets, Writable, Renews
<1>5. (file.segment <= file.size)'
  OBVIOUS
<1>6. DirtyWhileOpen'
  BY DEF DirtyWhileOpen
<1>7. FlagOnDisk'
  BY DEF FlagOnDisk
<1>8. HeaderOnDisk'
  BY DEF HeaderOnDisk, IsNew, Renews
<1>9. TornIsDirty'
  BY DEF TornIsDirty, FlagSet
<1>10. UnsyncedIsDirty'
  BY DEF TypeOK, UnsyncedIsDirty, IsGrown
<1> QED
  BY <1>1, <1>2, <1>3, <1>4, <1>5, <1>6, <1>7, <1>8, <1>9, <1>10

\* The segment has grown into a file that is large enough.
LEMMA SegmentGrownOrder ==
    ASSUME Order, Disciplined, NEW p \in Procs,
           SegmentGrown(p)
    PROVE  Order'
<1> USE DEF Order, SegmentGrown, Goes
<1>1. TypeOK'
  BY DEF TypeOK, Stages, Constructing, Owning
<1>2. LockIsOwned'
  BY DEF LockIsOwned, Owning
<1>3. HarmsAlone'
  BY DEF Knows, HarmsAlone, Harms, Constructing
<1>4. \A q \in Procs : Resets(q)' /\ Knows(q)'
  BY DEF TypeOK, Knows, IsNew, HarmsAlone, Harms, Resets, Renews, Constructing
<1>5. (file.segment <= file.size)'
  BY DEF Knows
<1>6. DirtyWhileOpen'
  BY DEF DirtyWhileOpen
<1>7. FlagOnDisk'
  BY DEF FlagOnDisk
<1>8. HeaderOnDisk'
  BY DEF HeaderOnDisk, IsNew, Renews
<1>9. TornIsDirty'
  BY DEF TornIsDirty, FlagSet
<1>10. UnsyncedIsDirty'
  BY DEF UnsyncedIsDirty, IsGrown, Knows
<1> QED
  BY <1>1, <1>2, <1>3, <1>4, <1>5, <1>6, <1>7, <1>8, <1>9, <1>10

\* A reader is done.
LEMMA OpenReaderOrder ==
    ASSUME Order, Disciplined, NEW p \in Procs,
           OpenReader(p)
    PROVE  Order'
<1> USE DEF Order, OpenReader, Goes
<1>1. TypeOK'
  BY DEF TypeOK, Stages
<1>2. LockIsOwned'
  BY DEF LockIsOwned, Owning
<1>3. HarmsAlone'
  BY DEF HarmsAlone, Harms, Harmless, Constructing
<1>4. \A q \in Procs : Resets(q)' /\ Knows(q)'
  BY DEF Knows, IsNew, Resets, Writable, Renews
<1>5. (file.segment <= file.size)'
  OBVIOUS
<1>6. DirtyWhileOpen'
  BY DEF DirtyWhileOpen
<1>7. FlagOnDisk'
  BY DEF FlagOnDisk
<1>8. HeaderOnDisk'
  BY DEF HeaderOnDisk, IsNew, Renews
<1>9. TornIsDirty'
  BY DEF TornIsDirty, FlagSet
<1>10. UnsyncedIsDirty'
  BY DEF UnsyncedIsDirty, FlagSet, IsNew, IsGrown, Renews
<1> QED
  BY <1>1, <1>2, <1>3, <1>4, <1>5, <1>6, <1>7, <1>8, <1>9, <1>10

\* The lock is taken when nobody has it.
LEMMA TryLockOrder ==
    ASSUME Order, Disciplined, NEW p \in Procs,
           TryLock(p)
    PROVE  Order'
<1> USE DEF Order, TryLock, Waits, MayLock, Leaves, NoOpener, Goes
<1>1. TypeOK'
  <2>1. CASE MayLock(p)
    BY <2>1 DEF TypeOK, Stages, Owning
  <2>2. CASE ~ MayLock(p)
    <3> HIDE DEF Leaves
    <3> QED
      BY <2>2, LeavesTypes DEF TypeOK
  <2> QED
    BY <2>1, <2>2
<1>2. LockIsOwned'
  BY DatabaseAssumption DEF TypeOK, LockIsOwned, Owning
<1>3. HarmsAlone'
  BY DEF TypeOK, HarmsAlone, Harms, Harmless, Constructing
<1>4. \A q \in Procs : Resets(q)' /\ Knows(q)'
  BY DEF TypeOK, Knows, IsNew, Resets, Writable, Renews
<1>5. (file.segment <= file.size)'
  OBVIOUS
<1>6. DirtyWhileOpen'
  BY DEF TypeOK, DirtyWhileOpen
<1>7. FlagOnDisk'
  BY DEF TypeOK, FlagOnDisk
<1>8. HeaderOnDisk'
  <2>1. lock = Nobody \/ ~ IsNew(p)
    <3>1. SUFFICES ASSUME IsNew(p) PROVE lock = Nobody
      OBVIOUS
    <3>2. stage[p] = "mapped" /\ (~ Harmless(opener[p]) \/ ~ found[p])
      BY <3>1 DEF IsNew, Renews, Resets, Harmless, Writable
    <3>3. \A q \in Procs \ {p} : stage[q] = "out"
      BY <3>2 DEF HarmsAlone, Harms, Constructing
    <3> QED
      BY <3>2, <3>3 DEF TypeOK, LockIsOwned, Owning
  <2>2. CASE lock = Nobody
    BY <2>2 DEF TypeOK, HeaderOnDisk, IsNew, Renews
  <2>3. CASE lock # Nobody
    BY <2>1, <2>3 DEF TypeOK, HeaderOnDisk, IsNew, Renews
  <2> QED
    BY <2>2, <2>3
<1>9. TornIsDirty'
  BY DEF TornIsDirty, FlagSet
<1>10. UnsyncedIsDirty'
  BY DEF TypeOK, UnsyncedIsDirty, FlagSet, IsNew, IsGrown, LockIsOwned, Owning,
     Knows, HarmsAlone, Harms, Harmless, Resets, Writable, Renews, Constructing
<1> QED
  BY <1>1, <1>2, <1>3, <1>4, <1>5, <1>6, <1>7, <1>8, <1>9, <1>10

\* The owner sets the flag on the disk too.
LEMMA MarkDirtyOrder ==
    ASSUME Order, Disciplined, NEW p \in Procs,
           MarkDirty(p)
    PROVE  Order'
<1> USE DEF Order, MarkDirty, Marked, Flushed, Goes
<1>1. TypeOK'
  BY DEF TypeOK, Stages, Constructing, Owning, Modes, Actions, Outcomes
<1>2. LockIsOwned'
  BY DEF LockIsOwned, Owning
<1>3. HarmsAlone'
  BY DEF HarmsAlone, Harms, Harmless
<1>4. \A q \in Procs : Resets(q)' /\ Knows(q)'
  BY DEF TypeOK, LockIsOwned, Owning, Knows, IsNew, HarmsAlone, Harms, Harmless,
     Resets, Writable, Renews, Constructing
<1>5. (file.segment <= file.size)'
  OBVIOUS
<1>6. DirtyWhileOpen'
  BY DEF DirtyWhileOpen, FlagOnDisk, Knows
<1>7. FlagOnDisk'
  BY DEF TypeOK, DirtyWhileOpen, FlagSet, FlagOnDisk, LockIsOwned, Owning, Knows,
     IsNew, HarmsAlone, Harms, Harmless, Resets, Writable, Renews, Constructing
<1>8. HeaderOnDisk'
  BY DEF HeaderOnDisk, IsNew, Knows
<1>9. TornIsDirty'
  BY DEF TornIsDirty, FlagSet
<1>10. UnsyncedIsDirty'
  BY DEF UnsyncedIsDirty, FlagSet, FlagOnDisk
<1> QED
  BY <1>1, <1>2, <1>3, <1>4, <1>5, <1>6, <1>7, <1>8, <1>9, <1>10

\* Containers are written under a flag that is set.
LEMMA BeginWriteOrder ==
    ASSUME Order, Disciplined, NEW p \in Procs,
           BeginWrite(p)
    PROVE  Order'
<1> USE DEF Order, BeginWrite, Goes
<1>1. TypeOK'
  BY DEF TypeOK, Stages, Constructing, Owning, Modes, Actions, Outcomes
<1>2. LockIsOwned'
  BY DEF LockIsOwned, Owning
<1>3. HarmsAlone'
  BY DEF HarmsAlone, Harms, Harmless, Constructing
<1>4. \A q \in Procs : Resets(q)' /\ Knows(q)'
  BY DEF Knows, IsNew, Resets, Writable, Renews
<1>5. (file.segment <= file.size)'
  OBVIOUS
<1>6. DirtyWhileOpen'
  BY DEF DirtyWhileOpen
<1>7. FlagOnDisk'
  BY DEF FlagOnDisk
<1>8. HeaderOnDisk'
  BY DEF HeaderOnDisk, IsNew, Renews
<1>9. TornIsDirty'
  BY DEF TornIsDirty, FlagSet
<1>10. UnsyncedIsDirty'
  BY DEF UnsyncedIsDirty, FlagSet, DirtyWhileOpen
<1> QED
  BY <1>1, <1>2, <1>3, <1>4, <1>5, <1>6, <1>7, <1>8, <1>9, <1>10

\* What was written is whole again.
LEMMA EndWriteOrder ==
    ASSUME Order, Disciplined, NEW p \in Procs,
           EndWrite(p)
    PROVE  Order'
<1> USE DEF Order, EndWrite, Goes
<1>1. TypeOK'
  BY DEF TypeOK, Stages, Owning
<1>2. LockIsOwned'
  BY DEF LockIsOwned, Owning
<1>3. HarmsAlone'
  BY DEF HarmsAlone, Harms, Harmless, Constructing
<1>4. \A q \in Procs : Resets(q)' /\ Knows(q)'
  BY DEF Knows, IsNew, Resets, Writable, Renews
<1>5. (file.segment <= file.size)'
  OBVIOUS
<1>6. DirtyWhileOpen'
  BY DEF DirtyWhileOpen
<1>7. FlagOnDisk'
  BY DEF FlagOnDisk
<1>8. HeaderOnDisk'
  BY DEF HeaderOnDisk, IsNew, Renews
<1>9. TornIsDirty'
  BY DEF TornIsDirty, FlagSet
<1>10. UnsyncedIsDirty'
  BY DEF UnsyncedIsDirty, FlagSet, DirtyWhileOpen
<1> QED
  BY <1>1, <1>2, <1>3, <1>4, <1>5, <1>6, <1>7, <1>8, <1>9, <1>10

\* The owner clears the flag of a file that is whole.
LEMMA ClearDirtyOrder ==
    ASSUME Order, Disciplined, NEW p \in Procs,
           ClearDirty(p)
    PROVE  Order'
<1> USE DEF Order, ClearDirty, Goes
<1>1. TypeOK'
  BY DEF TypeOK, Stages, Constructing, Owning, Modes, Actions, Outcomes,
     Disciplined, Forbidden
<1>2. LockIsOwned'
  BY DEF LockIsOwned, Owning
<1>3. HarmsAlone'
  BY DEF HarmsAlone, Harms, Harmless, Constructing
<1>4. \A q \in Procs : Resets(q)' /\ Knows(q)'
  BY DEF Knows, Resets, Writable, Renews, Disciplined, Forbidden
<1>5. (file.segment <= file.size)'
  OBVIOUS
<1>6. DirtyWhileOpen'
  BY DEF TypeOK, DirtyWhileOpen, LockIsOwned, Owning
<1>7. FlagOnDisk'
  <2>1. stage'[p] = "cleared"
    BY DEF TypeOK, DirtyWhileOpen
  <2> QED
    BY <2>1 DEF FlagOnDisk
<1>8. HeaderOnDisk'
  BY DEF HeaderOnDisk, IsNew, Renews
<1>9. TornIsDirty'
  BY DEF TornIsDirty, Disciplined, Forbidden
<1>10. UnsyncedIsDirty'
  BY DEF TypeOK, UnsyncedIsDirty, DirtyWhileOpen
<1> QED
  BY <1>1, <1>2, <1>3, <1>4, <1>5, <1>6, <1>7, <1>8, <1>9, <1>10

\* File and disk are the same again.
LEMMA FlushOrder ==
    ASSUME Order, Disciplined, NEW p \in Procs,
           Flush(p)
    PROVE  Order'
<1> USE DEF Order, Flush, Flushed, Goes
<1>1. TypeOK'
  BY DEF TypeOK, Stages, Owning
<1>2. LockIsOwned'
  BY DEF LockIsOwned, Owning
<1>3. HarmsAlone'
  BY DEF HarmsAlone, Harms, Harmless, Constructing
<1>4. \A q \in Procs : Resets(q)' /\ Knows(q)'
  BY DEF Knows, Resets, Writable, Renews
<1>5. (file.segment <= file.size)'
  OBVIOUS
<1>6. DirtyWhileOpen'
  BY DEF DirtyWhileOpen
<1>7. FlagOnDisk'
  BY DEF FlagOnDisk
<1>8. HeaderOnDisk'
  BY DEF HeaderOnDisk, IsNew, Knows
<1>9. TornIsDirty'
  BY DEF TornIsDirty, FlagSet
<1>10. UnsyncedIsDirty'
  BY DEF UnsyncedIsDirty
<1> QED
  BY <1>1, <1>2, <1>3, <1>4, <1>5, <1>6, <1>7, <1>8, <1>9, <1>10

\* The owner is gone, and so is its lock.
LEMMA CloseWriterOrder ==
    ASSUME Order, Disciplined, NEW p \in Procs,
           CloseWriter(p)
    PROVE  Order'
<1> USE DEF Order, CloseWriter, Closes, Unlock, Leaves, NoOpener
<1>1. TypeOK'
  BY DEF TypeOK, Stages, Modes, Actions, Outcomes
<1>2. LockIsOwned'
  BY DatabaseAssumption DEF TypeOK, LockIsOwned, Owning
<1>3. HarmsAlone'
  BY DEF HarmsAlone, Harms, Harmless, Constructing
<1>4. \A q \in Procs : Resets(q)' /\ Knows(q)'
  BY DEF TypeOK, Knows, IsNew, Resets, Writable, Renews
<1>5. (file.segment <= file.size)'
  OBVIOUS
<1>6. DirtyWhileOpen'
  BY DEF DirtyWhileOpen
<1>7. FlagOnDisk'
  BY DEF FlagOnDisk
<1>8. HeaderOnDisk'
  BY DEF HeaderOnDisk, IsNew, Renews
<1>9. TornIsDirty'
  BY DEF TornIsDirty, FlagSet
<1>10. UnsyncedIsDirty'
  BY DEF UnsyncedIsDirty, FlagSet, IsNew, IsGrown, Renews
<1> QED
  BY <1>1, <1>2, <1>3, <1>4, <1>5, <1>6, <1>7, <1>8, <1>9, <1>10

\* A reader is gone.
LEMMA CloseReaderOrder ==
    ASSUME Order, Disciplined, NEW p \in Procs,
           CloseReader(p)
    PROVE  Order'
<1> USE DEF Order, CloseReader, Closes, Unlock, Leaves, NoOpener
<1>1. TypeOK'
  BY DEF TypeOK, Stages, Modes, Actions, Outcomes
<1>2. LockIsOwned'
  BY DatabaseAssumption DEF LockIsOwned, Owning
<1>3. HarmsAlone'
  BY DEF HarmsAlone, Harms, Harmless, Constructing
<1>4. \A q \in Procs : Resets(q)' /\ Knows(q)'
  BY DEF TypeOK, Knows, IsNew, Resets, Writable, Renews
<1>5. (file.segment <= file.size)'
  OBVIOUS
<1>6. DirtyWhileOpen'
  BY DEF DirtyWhileOpen
<1>7. FlagOnDisk'
  BY DEF FlagOnDisk
<1>8. HeaderOnDisk'
  BY DEF HeaderOnDisk, IsNew, Renews
<1>9. TornIsDirty'
  BY DEF TornIsDirty, FlagSet
<1>10. UnsyncedIsDirty'
  BY DEF UnsyncedIsDirty, FlagSet, IsNew, IsGrown, Renews
<1> QED
  BY <1>1, <1>2, <1>3, <1>4, <1>5, <1>6, <1>7, <1>8, <1>9, <1>10

\* A process dies where the flag covers what it leaves behind.
LEMMA CrashOrder ==
    ASSUME Order, Disciplined, NEW p \in Procs,
           Crash(p)
    PROVE  Order'
<1> USE DEF Order, Crash, Unlock, Leaves, NoOpener
<1>a. ~ IsNew(p) /\ ~ IsGrown(p) /\ stage[p] # "cleared"
  BY DEF Risks, CarelessUses, Disciplined, Forbidden
<1>1. TypeOK'
  <2> HIDE DEF Leaves
  <2>1. crashes' \in 0 .. MaxCrashes
    BY DatabaseAssumption DEF TypeOK
  <2>2. lock' \in Procs \cup {Nobody}
    BY DEF TypeOK
  <2>3. PICK whole \in BOOLEAN : file' = [file EXCEPT !.whole = whole]
    OBVIOUS
  <2>4. file' \in [exists : BOOLEAN, size : Nat, segment : Nat,
                   header : {"none", "zero", "ok"}, dirty : BOOLEAN, whole : BOOLEAN]
    BY <2>3 DEF TypeOK
  <2> QED
    BY <2>1, <2>2, <2>4, LeavesTypes DEF TypeOK
<1>2. LockIsOwned'
  BY <1>a, DatabaseAssumption DEF TypeOK, LockIsOwned, Owning
<1>3. HarmsAlone'
  BY <1>a DEF TypeOK, HarmsAlone, Harms, Harmless, Constructing
<1>4. \A q \in Procs : Resets(q)' /\ Knows(q)'
  BY <1>a DEF TypeOK, LockIsOwned, Owning, Knows, IsNew, HarmsAlone, Harms,
     Resets, Writable, Renews, Constructing
<1>5. (file.segment <= file.size)'
  BY <1>a
<1>6. DirtyWhileOpen'
  BY <1>a DEF DirtyWhileOpen
<1>7. FlagOnDisk'
  BY <1>a DEF FlagOnDisk
<1>8. HeaderOnDisk'
  BY <1>a DEF HeaderOnDisk, IsNew, Renews
<1>9. TornIsDirty'
  BY <1>a DEF TypeOK, TornIsDirty, DirtyWhileOpen, FlagSet, IsGrown
<1>10. UnsyncedIsDirty'
  BY <1>a DEF UnsyncedIsDirty, FlagSet, IsNew, IsGrown, Renews
<1> QED
  BY <1>1, <1>2, <1>3, <1>4, <1>5, <1>6, <1>7, <1>8, <1>9, <1>10

\* Nobody is at a place where the loss of power would do harm.
LEMMA PowerLossIsQuiet ==
    ASSUME Disciplined, PowerLoss
    PROVE  /\ \A p \in Procs : ~ IsNew(p) /\ ~ IsGrown(p) /\ stage[p] # "cleared"
           /\ stage' = [p \in Procs |-> "out"]
           /\ lock' = Nobody
  BY DEF PowerLoss, Risks, CarelessUses, Disciplined, Forbidden

\* The machine dies: what is not known to be on the disk is behind the flag.
LEMMA PowerLossOrder ==
    ASSUME Order, Disciplined, PowerLoss
    PROVE  Order'
<1> USE DEF Order
<1>1. /\ \A p \in Procs : ~ IsNew(p) /\ ~ IsGrown(p) /\ stage[p] # "cleared"
      /\ stage' = [p \in Procs |-> "out"]
      /\ lock' = Nobody
  BY PowerLossIsQuiet
<1>2. PICK header \in {file.header, disk.header}, dirty \in {file.dirty, disk.dirty},
           whole \in IF disk.synced THEN {file.whole} ELSE BOOLEAN :
             /\ file' = [file EXCEPT !.header = header, !.dirty = dirty, !.whole = whole]
             /\ disk' = [header |-> header, dirty |-> dirty, synced |-> TRUE]
  BY DEF PowerLoss
<1>3. dirty = file.dirty /\ dirty = disk.dirty
  BY <1>1, <1>2 DEF FlagOnDisk
<1>4. ~ whole => dirty
  BY <1>1, <1>2, <1>3 DEF TornIsDirty, UnsyncedIsDirty, FlagSet
<1>5. TypeOK'
  <2>1. NoOpener \in [mode : Modes, size : Nat, action : Actions]
    BY DEF NoOpener, Modes, Actions
  <2>2. crashes' \in 0 .. MaxCrashes
    BY DatabaseAssumption DEF PowerLoss, TypeOK
  <2>3. header \in {"none", "zero", "ok"} /\ dirty \in BOOLEAN /\ whole \in BOOLEAN
    BY <1>2 DEF TypeOK
  <2>4. /\ file' \in [exists : BOOLEAN, size : Nat, segment : Nat,
                      header : {"none", "zero", "ok"}, dirty : BOOLEAN, whole : BOOLEAN]
        /\ disk' \in [header : {"none", "zero", "ok"}, dirty : BOOLEAN, synced : BOOLEAN]
    BY <1>2, <2>3 DEF TypeOK
  <2> HIDE DEF Order
  <2> QED
    BY <1>1, <2>1, <2>2, <2>4 DEF Order, TypeOK, PowerLoss, Stages, Outcomes
<1>6. LockIsOwned' /\ HarmsAlone' /\ DirtyWhileOpen'
  BY <1>1, DatabaseAssumption
  DEF LockIsOwned, HarmsAlone, DirtyWhileOpen, Owning
<1>7. \A p \in Procs : Resets(p)' /\ Knows(p)'
  BY <1>1 DEF PowerLoss, Resets, Knows, IsNew
<1>8. (file.segment <= file.size)' /\ FlagOnDisk' /\ TornIsDirty' /\ UnsyncedIsDirty'
  BY <1>2, <1>4 DEF FlagOnDisk, TornIsDirty, UnsyncedIsDirty, FlagSet
<1>9. HeaderOnDisk'
  BY <1>1, <1>2 DEF HeaderOnDisk
<1> QED
  BY <1>5, <1>6, <1>7, <1>8, <1>9

\* At first there is no file.
LEMMA InitOrder == Init => Order
<1> SUFFICES ASSUME Init PROVE Order
  OBVIOUS
<1>1. TypeOK
  <2>1. NoOpener \in [mode : Modes, size : Nat, action : Actions]
    BY DEF NoOpener, Modes, Actions
  <2>2. "out" \in Stages /\ "good" \in Outcomes /\ 0 \in 0 .. MaxCrashes
    BY DatabaseAssumption DEF Stages, Outcomes
  <2> QED
    BY <2>1, <2>2 DEF Init, TypeOK, NoFile
<1> QED
  BY <1>1, DatabaseAssumption
  DEF Init, Order, LockIsOwned, HarmsAlone, Resets, Knows, NoFile,
     DirtyWhileOpen, FlagOnDisk, HeaderOnDisk, TornIsDirty, UnsyncedIsDirty,
     Owning

\* The steps of constructor and destructor together
LEMMA StepsOrder ==
    ASSUME Order, Disciplined, NEW p \in Procs, Steps(p)
    PROVE  Order'
<1> USE DEF Steps
<1>1. CASE Validate(p) \/ NotFound(p) \/ Measure(p) \/ MapFile(p) \/ OpenReader(p)
  BY <1>1, ValidateOrder, NotFoundOrder, MeasureOrder, MapFileOrder,
     OpenReaderOrder
<1>2. CASE Touch(p) \/ ResizeNew(p) \/ Construct(p)
  BY <1>2, TouchOrder, ResizeNewOrder, ConstructOrder
<1>3. CASE Enlarge(p) \/ GrowSegment(p) \/ SegmentGrown(p)
  BY <1>3, EnlargeOrder, GrowSegmentOrder, SegmentGrownOrder
<1>4. CASE TryLock(p) \/ MarkDirty(p) \/ Flush(p) \/ CloseWriter(p)
  BY <1>4, TryLockOrder, MarkDirtyOrder, FlushOrder, CloseWriterOrder
<1> QED
  BY <1>1, <1>2, <1>3, <1>4

\* Every step of the program, and of fate, keeps the order.
THEOREM OrderInductive == Order /\ Disciplined /\ [Next]_vars => Order'
<1> SUFFICES ASSUME Order, Disciplined, [Next]_vars PROVE Order'
  OBVIOUS
<1>1. CASE \E p \in Procs : \E mode \in Modes, size \in Sizes, action \in Actions :
               Start(p, mode, size, action)
  BY <1>1, StartOrder
<1>2. CASE \E p \in Procs : Steps(p)
  BY <1>2, StepsOrder
<1>3. CASE \E p \in Procs : BeginWrite(p) \/ EndWrite(p) \/ ClearDirty(p)
  BY <1>3, BeginWriteOrder, EndWriteOrder, ClearDirtyOrder
<1>4. CASE \E p \in Procs : CloseReader(p) \/ Crash(p)
  BY <1>4, CloseReaderOrder, CrashOrder
<1>5. CASE PowerLoss
  BY <1>5, PowerLossOrder
<1>6. CASE UNCHANGED vars
  BY <1>6
  DEF vars, Order, TypeOK, LockIsOwned, HarmsAlone, Harms, Harmless, Resets,
     Knows, Renews, Writable, IsNew, IsGrown, DirtyWhileOpen, FlagOnDisk,
     FlagSet, HeaderOnDisk, TornIsDirty, UnsyncedIsDirty
<1> QED
  BY <1>1, <1>2, <1>3, <1>4, <1>5, <1>6 DEF Next

\* Lock, harm, flag and disk are in order in every reachable state.
THEOREM OrderHolds ==
    ASSUME Disciplined
    PROVE  Spec => []Order
<1>1. Order /\ [Next]_vars => Order'
  BY OrderInductive
<1> QED
  BY <1>1, InitOrder, PTL DEF Spec

-----------------------------------------------------------------------------
(* What follows from the order. *)

\* Every variable has its type: no process grows the file by a negative amount.
THEOREM TypeOKHolds ==
    ASSUME Disciplined
    PROVE  Spec => []TypeOK
<1>1. Order => TypeOK
  BY DEF Order
<1> QED
  BY <1>1, OrderHolds, PTL

\* While a process may write, the flag is set in the file and on the disk
\* (dirty(), database.cpp:200).
THEOREM DirtyWhileOpenHolds ==
    ASSUME Disciplined
    PROVE  Spec => []DirtyWhileOpen
<1>1. Order => DirtyWhileOpen
  BY DEF Order
<1> QED
  BY <1>1, OrderHolds, PTL

\* A file with a clear flag is whole, whoever crashed and whatever part of it
\* was on the disk when power was lost (flush, database.cpp:190).
THEOREM CleanIsWholeHolds ==
    ASSUME Disciplined
    PROVE  Spec => []CleanIsWhole
<1>1. Order => CleanIsWhole
  BY DEF Order, CleanIsWhole, TornIsDirty, FlagSet
<1> QED
  BY <1>1, OrderHolds, PTL

\* The segment manager never has more memory than the file
\* (segment_manager::grow, database.cpp:134).
THEOREM SegmentFitsHolds ==
    ASSUME Disciplined
    PROVE  Spec => []SegmentFits
<1>1. Order => SegmentFits
  BY DEF Order, SegmentFits
<1> QED
  BY <1>1, OrderHolds, PTL

\* A file that nobody works on has a header that can be read
\* (validate_db_header, database.cpp:36).
THEOREM OpenableHolds ==
    ASSUME Disciplined
    PROVE  Spec => []Openable
<1>1. Order => Openable
  BY DEF Order, Openable, HeaderOnDisk, IsNew
<1> QED
  BY <1>1, OrderHolds, PTL

\* No other process changes the file under one that may write
\* (try_lock, database.cpp:144).
THEOREM OnlyOwnerWritesHolds ==
    ASSUME Disciplined
    PROVE  Spec => OnlyOwnerWrites
<1>1. ASSUME Order, Next, NEW p \in Procs,
             stage[p] \in {"open", "writing"}, stage'[p] = stage[p]
      PROVE  file' = file
  <2>1. lock = p /\ \A q \in Procs \ {p} : ~ Harms(q) /\ stage[q] \notin Owning
    BY <1>1 DEF Order, LockIsOwned, HarmsAlone, Owning
  <2>2. \A q \in Procs \ {p} : stage[q] \notin {"touched", "resized", "enlarged", "growing"}
    BY <1>1, <2>1 DEF Order, Knows, Harms, Renews, Resets, Harmless, Writable,
       Constructing
  <2>3. \A q \in Procs \ {p} : ~ Touch(q)
    BY <1>1, <2>1 DEF Touch, Goes, Order, Harms, Renews, Resets, Harmless,
       Writable, Constructing
  <2>4. ASSUME NEW q \in Procs, Steps(q) PROVE file' = file
    <3>1. CASE Validate(q) \/ NotFound(q) \/ Measure(q) \/ MapFile(q) \/ GrowSegment(q)
                  \/ OpenReader(q) \/ TryLock(q) \/ Flush(q) \/ CloseWriter(q)
      BY <3>1 DEF Validate, NotFound, Measure, MapFile, GrowSegment, OpenReader,
         TryLock, Flush, CloseWriter, Closes
    <3>2. CASE Touch(q) \/ ResizeNew(q) \/ Construct(q)
      BY <1>1, <2>2, <2>3, <3>2 DEF Touch, ResizeNew, Construct, Goes
    <3>3. CASE Enlarge(q) \/ SegmentGrown(q)
      <4>1. stage[q] # "measured" \/ grow[q] = 0 \/ q = p
        BY <1>1, <2>1 DEF Order, TypeOK, Harms, Constructing
      <4> QED
        BY <1>1, <2>2, <3>3, <4>1 DEF Enlarge, SegmentGrown, Goes
    <3>4. CASE MarkDirty(q)
      BY <1>1, <2>1, <3>4 DEF MarkDirty, Goes, Owning
    <3> QED
      BY <2>4, <3>1, <3>2, <3>3, <3>4 DEF Steps
  <2>5. CASE PowerLoss
    BY <1>1, <2>5 DEF PowerLoss
  <2>6. ASSUME NEW q \in Procs, Crash(q) PROVE file' = file
    BY <1>1, <2>1, <2>2, <2>6 DEF Order, TypeOK, Crash, Leaves, Owning
  <2> QED
    BY <1>1, <2>1, <2>4, <2>5, <2>6
    DEF Order, TypeOK, Next, Start, BeginWrite, EndWrite, ClearDirty,
       CloseReader, Closes, Goes, Owning
<1>2. Order /\ [Next]_vars =>
        [\A p \in Procs : stage[p] \in {"open", "writing"} /\ stage'[p] = stage[p]
                              => file' = file]_vars
  BY <1>1
<1> QED
  BY <1>2, OrderHolds, PTL DEF Spec, OnlyOwnerWrites

-----------------------------------------------------------------------------
(* Who is told that all is good. *)

\* Steps keep what the openers were told, and what they know of it.
LEMMA ToldStep ==
    ASSUME Order, Told, Order', Careless = {}, [Next]_vars
    PROVE  Told'
<1> USE DEF Told, Order, TypeOK
<1>a. ASSUME NEW p \in Procs, stage[p] \in {"mapped", "locked"}, Renews(p)
      PROVE  \A q \in Procs \ {p} : stage[q] = "out"
  <2>1. stage[p] \in Constructing \cup {"locked"}
    BY <1>a DEF Constructing
  <2>2. ~ Harmless(opener[p]) \/ ~ found[p]
    <3>1. Resets(p) /\ stage[p] # "out"
      BY <1>a
    <3> QED
      BY <1>a, <3>1 DEF Renews, Resets, Harmless, Writable
  <2>3. Harms(p)
    BY <2>1, <2>2 DEF Harms
  <2> QED
    BY <2>3 DEF HarmsAlone
<1>1. ASSUME NEW p \in Procs,
             NEW mode \in Modes, NEW size \in Sizes, NEW action \in Actions,
             Start(p, mode, size, action)
      PROVE  Told'
  <2>1. /\ stage[p] = "out" /\ stage' = [stage EXCEPT ![p] = "found"]
        /\ \A q \in Procs \ {p} : opener'[q] = opener[q] /\ found'[q] = found[q]
        /\ opener'[p].mode = mode /\ found'[p] = file.exists
        /\ mode = "read_only" => file.exists
        /\ UNCHANGED <<file, outcome, untold>>
    BY <1>1 DEF Start, Goes
  <2>2. \A q \in Procs \ {p} : Writable(q)' = Writable(q) /\ Renews(q)' = Renews(q)
                               /\ stage'[q] = stage[q]
    BY <2>1 DEF Writable, Renews
  <2>3. stage'[p] = "found" /\ (found'[p] \/ Writable(p)')
    BY <2>1 DEF Modes, Writable
  <2> QED
    BY <2>1, <2>2, <2>3 DEF Constructing, Owning
<1>2. ASSUME NEW p \in Procs, Validate(p) PROVE Told'
  <2> DEFINE result == OutcomeOf(file.dirty, opener[p].action, Writable(p))
  <2>1. result = "good" => file.whole
    BY DEF OutcomeOf, TornIsDirty, FlagSet
  <2> HIDE DEF result
  <2>2. CASE stage'[p] = "out"
    <3>1. Leaves(p) /\ UNCHANGED <<file, untold>> /\ stage[p] = "found"
      BY <1>2, <2>2 DEF Validate, Goes
    <3> QED
      BY <3>1 DEF Leaves, Renews, Writable, Constructing, Owning
  <2>3. CASE stage'[p] # "out"
    <3>1. /\ outcome' = [outcome EXCEPT ![p] = result] /\ found[p]
          /\ stage' = [stage EXCEPT ![p] = "validated"] /\ stage[p] = "found"
          /\ UNCHANGED <<file, opener, found, untold>>
      BY <1>2, <2>3 DEF Validate, Leaves, Goes, result
    <3> QED
      BY <2>1, <3>1 DEF Renews, Writable, Owning
  <2> QED
    BY <2>2, <2>3
<1>3. ASSUME NEW p \in Procs, NotFound(p) PROVE Told'
  BY <1>3, DatabaseAssumption
  DEF NotFound, Goes, Renews, Writable
<1>4. ASSUME NEW p \in Procs, Touch(p) PROVE Told'
  BY <1>4, DatabaseAssumption
  DEF Touch, NoFile, Goes, Renews, Writable, Resets
<1>5. ASSUME NEW p \in Procs, ResizeNew(p) PROVE Told'
  BY <1>5, DatabaseAssumption
  DEF ResizeNew, Goes, Renews, Writable, Constructing
<1>6. ASSUME NEW p \in Procs, Construct(p) PROVE Told'
  BY <1>6, DatabaseAssumption
  DEF Construct, Constructed, Goes, Renews, Writable, Resets, Knows
<1>7. ASSUME NEW p \in Procs, Measure(p) PROVE Told'
  BY <1>7, DatabaseAssumption
  DEF Measure, Goes, Renews, Writable
<1>8. ASSUME NEW p \in Procs, MapFile(p) PROVE Told'
  BY <1>8, DatabaseAssumption
  DEF MapFile, Goes, Renews, Writable, Constructing
<1>9. ASSUME NEW p \in Procs, Enlarge(p) PROVE Told'
  BY <1>9, DatabaseAssumption
  DEF Enlarge, Goes, Renews, Writable, Constructing
<1>10. ASSUME NEW p \in Procs, GrowSegment(p) PROVE Told'
  BY <1>10, DatabaseAssumption
  DEF GrowSegment, Goes, Renews, Writable, Constructing
<1>11. ASSUME NEW p \in Procs, SegmentGrown(p) PROVE Told'
  BY <1>11, DatabaseAssumption
  DEF SegmentGrown, Goes, Renews, Writable, Constructing
<1>12. ASSUME NEW p \in Procs, OpenReader(p) PROVE Told'
  BY <1>12, DatabaseAssumption
  DEF OpenReader, Goes, Renews, Writable, Constructing, Owning
<1>13. ASSUME NEW p \in Procs, TryLock(p) PROVE Told'
  <2>1. CASE MayLock(p)
    <3>1. /\ stage[p] = "mapped" /\ stage' = [stage EXCEPT ![p] = "locked"]
          /\ UNCHANGED <<file, opener, found, outcome, untold>>
      BY <1>13, <2>1 DEF TryLock, Goes
    <3> QED
      BY <3>1 DEF Renews, Writable, Constructing
  <2>2. CASE ~ MayLock(p)
    <3>1. stage[p] = "mapped" /\ Leaves(p) /\ UNCHANGED <<file, untold>> /\ lock # Nobody
      BY <1>13, <2>2 DEF TryLock, MayLock
    <3>2. lock \in Procs /\ stage[lock] \in Owning /\ lock # p
      BY <3>1 DEF LockIsOwned, Owning
    <3>3. stage[lock] # "out"
      BY <3>2 DEF Owning
    <3>4. ~ Renews(p)
      BY <1>a, <3>1, <3>2, <3>3
    <3> QED
      BY <3>1, <3>4 DEF Leaves, Renews, Writable, Constructing, Owning
  <2> QED
    BY <2>1, <2>2
<1>14. ASSUME NEW p \in Procs, MarkDirty(p) PROVE Told'
  <2>1. ~ untold'
    BY <1>14, <1>a DEF MarkDirty, Goes, Renews
  <2>2. /\ stage[p] = "locked" /\ stage' = [stage EXCEPT ![p] = "open"]
        /\ file' = [file EXCEPT !.dirty = TRUE]
        /\ UNCHANGED <<opener, found, outcome>>
    <3> HIDE DEF Told, Order, TypeOK
    <3>1. stage[p] = "locked" /\ stage' = [stage EXCEPT ![p] = "open"]
      BY <1>14 DEF MarkDirty, Goes
    <3>2. file' = [file EXCEPT !.dirty = TRUE]
      BY <1>14 DEF MarkDirty, Marked
    <3>3. UNCHANGED <<opener, found, outcome>>
      BY <1>14 DEF MarkDirty
    <3> QED
      BY <3>1, <3>2, <3>3
  <2>3. \A q \in Procs : Writable(q)' = Writable(q)
    BY <2>2 DEF Writable
  <2>4. \A q \in Procs \ {p} : stage'[q] = stage[q]
    BY <2>2
  <2>5. stage'[p] = "open"
    BY <2>2
  <2>6. ~ found[p] => outcome[p] = "created"
    BY <2>2
  <2>7. file'.whole = file.whole
    BY <2>2
  <2>8. Writable(p) /\ (outcome[p] = "good" => file.whole)
    BY <2>2 DEF Owning
  <2> QED
    BY <2>1, <2>2, <2>3, <2>4, <2>5, <2>6, <2>7, <2>8 DEF Owning, Constructing
<1>15. ASSUME NEW p \in Procs, BeginWrite(p) PROVE Told'
  BY <1>15, DatabaseAssumption
  DEF BeginWrite, Goes, Renews, Writable, Owning
<1>16. ASSUME NEW p \in Procs, EndWrite(p) PROVE Told'
  BY <1>16, DatabaseAssumption
  DEF EndWrite, Goes, Renews, Writable, Owning
<1>17. ASSUME NEW p \in Procs, ClearDirty(p) PROVE Told'
  BY <1>17, DatabaseAssumption
  DEF ClearDirty, Goes, Renews, Writable, Owning
<1>18. ASSUME NEW p \in Procs, Flush(p) PROVE Told'
  BY <1>18, DatabaseAssumption
  DEF Flush, Goes, Renews, Writable, Owning
<1>19. ASSUME NEW p \in Procs, CloseWriter(p) PROVE Told'
  BY <1>19, DatabaseAssumption
  DEF CloseWriter, Closes, Unlock, Leaves, Renews, Writable, LockIsOwned,
     Constructing
<1>20. ASSUME NEW p \in Procs, CloseReader(p) PROVE Told'
  BY <1>20, DatabaseAssumption
  DEF CloseReader, Closes, Unlock, Leaves, Renews, Writable, LockIsOwned,
     Constructing
<1>21. ASSUME NEW p \in Procs, Crash(p) PROVE Told'
  <2>1. ~ IsNew(p) /\ ~ IsGrown(p) /\ ~ IsRelied(p)
    BY <1>21 DEF Crash, Risks, CarelessUses
  <2>2. ASSUME NEW q \in Procs \ {p}, Writable(q), outcome[q] = "good",
               stage[q] \notin {"out", "found", "reading"}, stage[p] = "writing"
        PROVE  FALSE
    BY <2>1, <2>2 DEF IsRelied, LockIsOwned, Owning, Stages
  <2>3. /\ stage' = [stage EXCEPT ![p] = "out"] /\ stage[p] # "growing"
        /\ \A q \in Procs \ {p} : /\ opener'[q] = opener[q] /\ found'[q] = found[q]
                                   /\ outcome'[q] = outcome[q]
        /\ untold' = untold
    BY <1>21, <2>1 DEF Crash, Leaves, IsGrown
  <2>4. file.whole /\ stage[p] # "writing" => file'.whole
    BY <1>21, <2>3 DEF Crash
  <2> QED
    BY <2>1, <2>2, <2>3, <2>4 DEF IsNew, Renews, Writable, Owning, Constructing
<1>22. CASE PowerLoss
  BY <1>22, PowerLossIsQuiet DEF PowerLoss, IsNew, Disciplined, Owning,
     Constructing
<1>23. CASE UNCHANGED vars
  BY <1>23 DEF vars, Renews, Writable
<1> QED
  BY <1>1, <1>2, <1>3, <1>4, <1>5, <1>6, <1>7, <1>8, <1>9, <1>10, <1>11, <1>12,
     <1>13, <1>14, <1>15, <1>16, <1>17, <1>18, <1>19, <1>20, <1>21, <1>22, <1>23
     DEF Next, Steps

\* Who opens the file as good has the last writer's data, and a new file is not
\* good before somebody was told that it is new (open_outcome::good,
\* enums.hpp:33; is_journal_recovery_required, database.hpp:120).
THEOREM GoodMeansGoodHolds ==
    ASSUME Careless = {}
    PROVE  Spec => []GoodMeansGood
<1>1. Disciplined
  BY DEF Disciplined
<1>2. Init => Told
  BY DEF Init, Told, Constructing, Owning
<1>3. Order /\ Told /\ Order' /\ [Next]_vars => Told'
  BY ToldStep
<1>4. Order /\ Told => GoodMeansGood
  <2> SUFFICES ASSUME Order, Told, NEW p \in Procs, stage[p] \in {"open", "writing"},
                      outcome[p] = "good"
               PROVE  file.whole /\ ~ untold
    BY DEF GoodMeansGood
  <2>1. file.whole
    BY DEF Told, Owning
  <2>2. ASSUME NEW q \in Procs, stage[q] \in {"mapped", "locked"}, Renews(q) PROVE FALSE
    <3>1. Harms(q)
      BY <2>2 DEF Order, Harms, Renews, Resets, Harmless, Writable, Constructing
    <3> QED
      BY <2>2, <3>1 DEF Order, HarmsAlone
  <2> QED
    BY <2>1, <2>2 DEF Told
<1> QED
  BY <1>1, <1>2, <1>3, <1>4, OrderHolds, PTL DEF Spec
=============================================================================
