-------------------------------- MODULE Archive --------------------------------
(***************************************************************************)
(* binary_oarchive and binary_iarchive                                     *)
(* (include/chainbase/detail/binary_oarchive.hpp, binary_iarchive.hpp,     *)
(* utility.hpp): values as bytes in a stream, with a running checksum that *)
(* each entry of the journal starts anew.  What one host has written       *)
(* another may read; a reader skips entries it does not know; the stream   *)
(* may end early.                                                          *)
(*                                                                         *)
(* A byte has Base values, and the checksum of bytes is the bytes: the     *)
(* CRC is taken to be perfect.                                             *)
(***************************************************************************)
EXTENDS Integers, Sequences

CONSTANTS
    Base,           \* the number of values of a byte
    CountWidth,     \* the bytes of a length or a count: sizeof(uint32_t)
    Chunk,          \* the size of skip's buffer
    Items,          \* the values that programs serialize
    MaxItems,       \* the most items of an entry (bounds the model)
    MaxEntries      \* the most entries (bounds the model)

ASSUME ArchiveAssumption ==
    /\ Base \in Nat \ {0, 1}
    /\ CountWidth \in Nat \ {0}
    /\ Chunk \in Nat \ {0}
    /\ MaxItems \in Nat
    /\ MaxEntries \in Nat

Byte == 0 .. Base - 1

\* How many numbers k bytes can hold
Power[k \in Nat] == IF k = 0 THEN 1 ELSE Base * Power[k - 1]

\* A value of a C++ type: a number is within the range of its width, and the
\* length of a string fits in a count (binary_oarchive.hpp:75).
IsValue(item) ==
    \/ /\ item \in [type : {"unsigned"}, width : Nat \ {0}, value : Nat]
       /\ item.value < Power[item.width]
    \/ /\ item \in [type : {"signed"}, width : Nat \ {0}, value : Int]
       /\ 2 * item.value < Power[item.width] /\ - Power[item.width] <= 2 * item.value
    \/ item \in [type : {"bool"}, width : {1}, value : BOOLEAN]
    \/ /\ item \in [type : {"string"}, width : {1}, value : Seq(Byte)]
       /\ Len(item.value) < Power[CountWidth]

ASSUME ItemsAssumption == \A item \in Items : IsValue(item)

VARIABLES
    writer,     \* the byte order of the host that writes
    reader,     \* the byte order of the host that reads
    stream,     \* the bytes
    out_crc,    \* _crc of the output archive
    written,    \* the items of each entry, the last one not sealed
    logs,       \* size and checksum of each sealed entry
    reading,    \* whether the stream is read by now
    pos,        \* how much of it the reader has taken
    in_crc,     \* _crc of the input archive
    loaded,     \* what it has loaded of each entry, the last one not checked
    checked,    \* the entries whose checksum and size it has compared
    failed      \* it has thrown

vars == <<writer, reader, stream, out_crc, written, logs, reading, pos, in_crc,
          loaded, checked, failed>>

Orders == {"little", "big"}

Init ==
    /\ writer \in Orders
    /\ reader \in Orders
    /\ stream = << >>
    /\ out_crc = << >>
    /\ written = << << >> >>
    /\ logs = << >>
    /\ reading = FALSE
    /\ pos = 0
    /\ in_crc = << >>
    /\ loaded = << << >> >>
    /\ checked = 0
    /\ failed = FALSE

-----------------------------------------------------------------------------
(* Integers as bytes. *)

\* The number of bytes in big-endian order
BigEndian(bytes) ==
    LET n[k \in 0 .. Len(bytes)] ==
            IF k = 0 THEN 0 ELSE n[k - 1] * Base + bytes[k]
    IN  n[Len(bytes)]

Backwards(bytes) == [k \in DOMAIN bytes |-> bytes[Len(bytes) + 1 - k]]

\* The bytes of a number, the most significant first
Digits(n, width) == [k \in 1 .. width |-> (n \div Power[width - k]) % Base]

\* The bytes of an unsigned integer in the memory of a host, and what a host
\* makes of bytes in its memory
InMemory(n, width, order) ==
    IF order = "big" THEN Digits(n, width) ELSE Backwards(Digits(n, width))
FromMemory(bytes, order) ==
    BigEndian(IF order = "big" THEN bytes ELSE Backwards(bytes))

byteswap(n, width) == FromMemory(InMemory(n, width, "little"), "big")

big_endian_order(n, width, order) ==
    IF order = "little" THEN byteswap(n, width) ELSE n

-----------------------------------------------------------------------------
(* Output. *)

unsigned(n, width) == n % Power[width]

\* serialize_unsigned_integral
WrittenAsIs(n, width) == InMemory(n, width, writer)         \* a mutant
Written(n, width) == InMemory(big_endian_order(n, width, writer), width, writer)

\* A number that is signed goes as the unsigned one of its width; a string, and
\* a collection, with its length in front.
Saved(item) ==
    CASE item.type \in {"unsigned", "signed"} ->
            Written(unsigned(item.value, item.width), item.width)
      [] item.type = "bool"   -> Written(IF item.value THEN 1 ELSE 0, 1)
      [] item.type = "string" -> Written(Len(item.value), CountWidth) \o item.value

Save(item) ==
    LET last == Len(written)
    IN  /\ ~ reading
        /\ last <= MaxEntries
        /\ Len(written[last]) < MaxItems
        /\ written' = [written EXCEPT ![last] = Append(@, item)]
        /\ stream' = stream \o Saved(item)
        /\ out_crc' = out_crc \o Saved(item)
        /\ UNCHANGED <<writer, reader, logs, reading, pos, in_crc, loaded,
                       checked, failed>>

\* checksum() gives the checksum and starts a new one.
Reset(crc) == << >>

Seal ==
    /\ ~ reading
    /\ Len(written) <= MaxEntries
    /\ logs' = Append(logs, [size |-> Len(stream) -
                                 (IF logs = << >> THEN 0 ELSE logs[Len(logs)].end),
                             end |-> Len(stream), crc |-> out_crc])
    /\ out_crc' = Reset(out_crc)
    /\ written' = Append(written, << >>)
    /\ UNCHANGED <<writer, reader, stream, reading, pos, in_crc, loaded,
                   checked, failed>>

\* The stream is read, from its beginning, by whoever; its end may be lost.
Turn ==
    /\ ~ reading
    /\ reading' = TRUE
    /\ \E length \in 0 .. Len(stream) : stream' = SubSeq(stream, 1, length)
    /\ UNCHANGED <<writer, reader, out_crc, written, logs, pos, in_crc, loaded,
                   checked, failed>>

-----------------------------------------------------------------------------
(* Input. *)

Has(at, size) == at + size <= Len(stream)
Bytes(at, size) == SubSeq(stream, at + 1, at + size)

\* serialize_unsigned_integral of the input archive
Read(at, width) == big_endian_order(FromMemory(Bytes(at, width), reader), width, reader)

\* static_cast to the signed type
signedAsIs(n, width) == n                                   \* a mutant
signed(n, width) == IF 2 * n < Power[width] THEN n ELSE n - Power[width]

\* An item of the type that is expected at a position: whether it is all there,
\* how many bytes it takes, and its value.
Loaded(item, at) ==
    LET length == Read(at, CountWidth)
        there(size, value) == [ok |-> TRUE, size |-> size, value |-> value]
        nothing == [ok |-> FALSE, size |-> 0, value |-> 0]
    IN  CASE item.type = "string" ->
                IF Has(at, CountWidth) /\ Has(at, CountWidth + length)
                THEN there(CountWidth + length, Bytes(at + CountWidth, length))
                ELSE nothing
          [] item.type = "bool" ->
                IF Has(at, 1) THEN there(1, Read(at, 1) # 0) ELSE nothing
          [] item.type = "unsigned" ->
                IF Has(at, item.width) THEN there(item.width, Read(at, item.width))
                ELSE nothing
          [] item.type = "signed" ->
                IF Has(at, item.width)
                THEN there(item.width, signed(Read(at, item.width), item.width))
                ELSE nothing

\* The entry under way, and the next item of it
Entry == checked + 1
Working == reading /\ ~ failed /\ Entry <= Len(logs)
More == Len(loaded[Entry]) < Len(written[Entry])
Expected == written[Entry][Len(loaded[Entry]) + 1]

Fails == failed' = TRUE /\ UNCHANGED <<pos, in_crc, loaded>>

Load ==
    /\ Working
    /\ More
    /\ LET item == Loaded(Expected, pos)
       IN  IF item.ok
           THEN /\ pos' = pos + item.size
                /\ in_crc' = in_crc \o Bytes(pos, item.size)
                /\ loaded' = [loaded EXCEPT
                                ![Entry] = Append(@, [Expected EXCEPT !.value = item.value])]
                /\ UNCHANGED failed
           ELSE Fails
    /\ UNCHANGED <<writer, reader, stream, out_crc, written, logs, reading, checked>>

\* An entry of a type that the reader does not know, before it was read: skip,
\* a buffer at a time.
Least(x, y) == IF x < y THEN x ELSE y
SkippedWholeChunks(size) == Chunk * ((size + Chunk - 1) \div Chunk)    \* a mutant
SkippedChunks(size) ==
    LET i[k \in 0 .. size] == IF k = 0 THEN 0
                              ELSE IF i[k - 1] < size
                                   THEN i[k - 1] + Least(size - i[k - 1], Chunk)
                                   ELSE i[k - 1]
    IN  i[size]

Skip ==
    LET size == SkippedChunks(logs[Entry].size)
    IN  /\ Working
        /\ More /\ loaded[Entry] = << >>
        /\ IF Has(pos, size)
           THEN /\ pos' = pos + size
                /\ in_crc' = in_crc \o Bytes(pos, size)
                /\ loaded' = [loaded EXCEPT ![Entry] = written[Entry]]
                /\ UNCHANGED failed
           ELSE Fails
        /\ UNCHANGED <<writer, reader, stream, out_crc, written, logs, reading, checked>>

\* read_header compares what was taken and its checksum with the entry's.
Check ==
    /\ Working
    /\ ~ More
    /\ checked' = checked + 1
    /\ in_crc' = Reset(in_crc)
    /\ loaded' = Append(loaded, << >>)
    /\ UNCHANGED <<writer, reader, stream, out_crc, written, logs, reading, pos, failed>>

Done == reading /\ ~ Working /\ UNCHANGED vars

Next ==
    \/ \E item \in Items : Save(item)
    \/ Seal
    \/ Turn
    \/ Load
    \/ Skip
    \/ Check
    \/ Done

Spec == Init /\ [][Next]_vars

-----------------------------------------------------------------------------
(* Properties. *)

\* Every variable has its type; what is loaded are values of the program.
TypeOK ==
    /\ writer \in Orders /\ reader \in Orders
    /\ stream \in Seq(Byte) /\ out_crc \in Seq(Byte) /\ in_crc \in Seq(Byte)
    /\ written \in Seq(Seq(Items)) /\ loaded \in Seq(Seq(Items))
    /\ logs \in Seq([size : Nat, end : Nat, crc : Seq(Byte)])
    /\ reading \in BOOLEAN /\ failed \in BOOLEAN
    /\ pos \in Nat /\ checked \in Nat

\* Bytes of an item, and of several, as a portable format has them, whatever
\* the host
Portable(item) ==
    CASE item.type \in {"unsigned", "signed"} -> Digits(item.value, item.width)
      [] item.type = "bool"   -> Digits(IF item.value THEN 1 ELSE 0, 1)
      [] item.type = "string" -> Digits(Len(item.value), CountWidth) \o item.value

PortableBytes(items) ==
    LET bytes[k \in 0 .. Len(items)] ==
            IF k = 0 THEN << >> ELSE bytes[k - 1] \o Portable(items[k])
    IN  bytes[Len(items)]

\* A host of either byte order writes the same bytes for the same values ("portable",
\* binary_oarchive.hpp:25).  Hosts on which a type has another width are not compared.
WritesPortably == ~ reading => out_crc = PortableBytes(written[Len(written)])

\* What is loaded is what was saved, on a host of either byte order, wherever
\* the stream ends: negative numbers, lengths and the items after them.
LoadsWhatWasSaved ==
    \A e \in 1 .. Len(loaded) : \A k \in 1 .. Len(loaded[e]) :
        loaded[e][k] = written[e][k]

\* An entry that was loaded or skipped to its end passes the comparison of size
\* and checksum (journal.cpp:69-77), and does not read beyond itself; only a
\* stream that lost bytes makes the reader throw.
EntriesCheck ==
    /\ Working /\ ~ More => in_crc = logs[Entry].crc /\ pos = logs[Entry].end
    /\ failed => Len(stream) < logs[Len(logs)].end
=============================================================================
