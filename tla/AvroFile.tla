------------------------------ MODULE AvroFile ------------------------------
(***************************************************************************)
(* An Avro object container file, byte by byte, as the inspector of the    *)
(* lake map takes it apart (formats/plugins/adapters/avro.rs): it finds    *)
(* the end of the header and the data blocks without decoding a row.  A    *)
(* mapped slice later hands the Avro reader a stream of its own making,    *)
(* the header followed by the bytes from a block on.                       *)
(*                                                                         *)
(* The files are written below as the Avro specification has it, whole,    *)
(* cut short or damaged; the inspector does not know how.  A digit of a    *)
(* variable-length integer is below More instead of 128, the longest       *)
(* integer has MaxDigits digits instead of 10, the last of which is 0 or   *)
(* 1; the magic and the markers are one byte.                              *)
(***************************************************************************)
EXTENDS Integers, SequencesExt

CONSTANTS
  More,      \* the continuation bit
  MaxDigits, \* bytes of the longest integer
  Metadata,  \* headers to be written: sequences of metadata blocks
  Data       \* contents to be written: sequences of data blocks

\* What the digit at a place is worth (payload << shift).
Weight[i \in 0 .. MaxDigits] == IF i = 0 THEN 1 ELSE More * Weight[i - 1]

MaxLong == Weight[MaxDigits - 1] - 1 \* i64::MAX
MinLong == -MaxLong - 1              \* i64::MIN

ASSUME DigitsAssumption == More \in Nat \ {0, 1} /\ MaxDigits \in Nat \ {0}

Magic  == 0
Marker == 6
Filler == 5 \* a byte of a key, a value or a row

VARIABLES
  avro,   \* what was written: metadata, data blocks and damage
  bytes,  \* the file
  offset, \* where the inspector is, perhaps past the end
  left,   \* entries left in the metadata block
  start,  \* data_start
  found,  \* the data blocks it has found
  part    \* "magic", "counts", "entries", "data", "done" or "failed"

avroVars == <<avro, bytes, offset, left, start, found, part>>

AvroTypeOK ==
  /\ offset \in Nat /\ left \in 0 .. MaxLong /\ start \in Nat
  /\ found \in Seq([first: Nat, rows: Nat \ {0}, byte: Nat, size: Nat])
  /\ part \in {"magic", "counts", "entries", "data", "done", "failed"}
-----------------------------------------------------------------------------
(* What programs write. *)

\* The digits a number takes, and the digits, the lowest first.
Places(n) == Min({k \in 1 .. MaxDigits : n < Weight[k]})

Digits(n) == [i \in 1 .. Places(n) |-> ((n \div Weight[i - 1]) % More)
                                       + (IF i < Places(n) THEN More ELSE 0)]

Long(v) == Digits(IF v >= 0 THEN 2 * v ELSE -2 * v - 1)

Fill(n)  == [i \in 1 .. n |-> Filler]
DataBlock(b) == Long(b.rows) \o Long(b.size) \o Fill(b.size) \o <<Marker>>
MetadataEntry(e) == Long(e[1]) \o Fill(e[1]) \o Long(e[2]) \o Fill(e[2])

Entries(m) == FlattenSeq([i \in DOMAIN m.entries |-> MetadataEntry(m.entries[i])])

\* A metadata block; a negative count is followed by the size of the block.
MetadataBlock(m) ==
  IF m.sized THEN Long(-Len(m.entries)) \o Long(Len(Entries(m))) \o Entries(m)
             ELSE Long(Len(m.entries)) \o Entries(m)

Header(metadata) ==
  <<Magic>> \o FlattenSeq([i \in DOMAIN metadata |-> MetadataBlock(metadata[i])])
  \o Long(0) \o <<Marker>>

Blocks(data) == FlattenSeq([i \in DOMAIN data |-> DataBlock(data[i])])

Whole(metadata, data) == Header(metadata) \o Blocks(data)

ASSUME MetadataAssumption ==
  \A metadata \in Metadata :
    /\ metadata \in Seq([sized: BOOLEAN, entries: Seq((0 .. MaxLong) \X (0 .. MaxLong))])
    /\ \A k \in DOMAIN metadata : /\ Len(metadata[k].entries) \in 1 .. MaxLong
                                  /\ Len(Entries(metadata[k])) <= MaxLong
ASSUME DataAssumption ==
  \A data \in Data : data \in Seq([rows: 1 .. MaxLong, size: 0 .. MaxLong])

\* The file ends after n bytes; block b has another marker, another number of
\* rows or another size; the first metadata block has a count without a
\* magnitude.
Damages(metadata, data) ==
  {[kind |-> "none", at |-> 0, value |-> 0]}
  \cup [kind: {"cut"}, at: 0 .. Len(Whole(metadata, data)) - 1, value: {0}]
  \cup [kind: {"marker"}, at: DOMAIN data, value: {Filler}]
  \cup [kind: {"rows"}, at: DOMAIN data, value: {0, -1}]
  \cup [kind: {"size"}, at: DOMAIN data, value: {-1}]
  \cup [kind: {"count"}, at: {1}, value: {MinLong}]

Damaged(metadata, data, d) ==
  LET before == Whole(metadata, SubSeq(data, 1, d.at - 1))
      after  == Blocks(SubSeq(data, d.at + 1, Len(data)))
      b      == data[d.at]
  IN  CASE d.kind = "none"   -> Whole(metadata, data)
        [] d.kind = "cut"    -> SubSeq(Whole(metadata, data), 1, d.at)
        [] d.kind = "marker" -> before \o Front(DataBlock(b)) \o <<d.value>> \o after
        [] d.kind = "rows"   -> before \o DataBlock([b EXCEPT !.rows = d.value]) \o after
        [] d.kind = "size"   -> before \o Long(b.rows) \o Long(d.value) \o Fill(b.size)
                                \o <<Marker>> \o after
        [] d.kind = "count"  -> <<Magic>> \o Long(d.value) \o Long(0) \o
                                Tail(Header(metadata)) \o Blocks(data)
-----------------------------------------------------------------------------
(* The inspector. *)

Digit(p, i) == bytes[p + i + 1]

\* The digits read from p on: up to the first without a continuation bit.
Run(p) == {i \in 0 .. MaxDigits - 1 :
             /\ p + i < Len(bytes)
             /\ \A j \in 0 .. i - 1 : Digit(p, j) >= More}

Raw(p, n) == SumFunctionOnSet([i \in 0 .. n |-> (Digit(p, i) % More) * Weight[i]], 0 .. n)

Unfold(raw) == IF raw % 2 = 0 THEN raw \div 2 ELSE -(raw \div 2) - 1

Integer(value, next) == [ok |-> TRUE, end |-> FALSE, value |-> value, next |-> next]
NoInteger(atEnd)     == [ok |-> FALSE, end |-> atEnd, value |-> 0, next |-> 0]

\* Mutated: the last digit may hold no bit at all.
ReadLongNarrow(p) ==
  LET last == {i \in Run(p) : Digit(p, i) < More}
  IN  IF p >= Len(bytes) THEN NoInteger(TRUE)
      ELSE IF last = {} \/ \E i \in last : i = MaxDigits - 1 /\ Digit(p, i) > 0
        THEN NoInteger(FALSE)
      ELSE LET n == CHOOSE i \in last : TRUE IN Integer(Unfold(Raw(p, n)), p + n + 1)

\* read_avro_long: nothing at the end of the file; an error if the file ends
\* within an integer or the integer does not fit in 64 bits.
ReadLong(p) ==
  LET last == {i \in Run(p) : Digit(p, i) < More}
  IN  IF p >= Len(bytes) THEN NoInteger(TRUE)
      ELSE IF last = {} \/ \E i \in last : i = MaxDigits - 1 /\ Digit(p, i) > 1
        THEN NoInteger(FALSE)
      ELSE LET n == CHOOSE i \in last : TRUE IN Integer(Unfold(Raw(p, n)), p + n + 1)

Fail == part' = "failed" /\ UNCHANGED <<offset, left, start, found>>

\* read_exact of one byte.
Has(p) == p < Len(bytes)

ReadMagic ==
  /\ part = "magic"
  /\ IF Has(0) /\ bytes[1] = Magic
       THEN part' = "counts" /\ offset' = 1 /\ UNCHANGED <<left, start, found>>
       ELSE Fail
  /\ UNCHANGED <<avro, bytes>>

\* The count that ends the header, then its marker; the header is read again
\* as a whole.
EndHeader ==
  /\ part = "counts"
  /\ LET count == ReadLong(offset)
     IN  /\ count.ok /\ count.value = 0
         /\ IF Has(count.next)
              THEN /\ start' = count.next + 1 /\ offset' = count.next + 1
                   /\ part' = "data"
                   /\ UNCHANGED <<left, found>>
              ELSE Fail
  /\ UNCHANGED <<avro, bytes>>

\* The count of a metadata block; a negative one is followed by a size and must
\* have a magnitude (checked_abs).
ReadCount ==
  /\ part = "counts"
  /\ LET count == ReadLong(offset)
         size  == ReadLong(count.next)
     IN  /\ count.ok => count.value # 0
         /\ IF ~count.ok THEN Fail
            ELSE IF count.value < 0 /\ (~size.ok \/ size.value < 0 \/ count.value = MinLong)
              THEN Fail
            ELSE /\ left' = IF count.value < 0 THEN -count.value ELSE count.value
                 /\ offset' = IF count.value < 0 THEN size.next ELSE count.next
                 /\ part' = "entries"
                 /\ UNCHANGED <<start, found>>
  /\ UNCHANGED <<avro, bytes>>

\* A key and a value are skipped by their lengths, past the end if need be.
SkipEntry ==
  /\ part = "entries" /\ left > 0
  /\ LET key   == ReadLong(offset)
         value == ReadLong(key.next + key.value)
     IN  IF ~key.ok \/ key.value < 0 THEN Fail
         ELSE IF ~value.ok \/ value.value < 0 THEN Fail
         ELSE /\ offset' = value.next + value.value
              /\ left' = left - 1
              /\ UNCHANGED <<start, found, part>>
  /\ UNCHANGED <<avro, bytes>>

EndEntries ==
  /\ part = "entries" /\ left = 0
  /\ part' = "counts"
  /\ UNCHANGED <<avro, bytes, offset, left, start, found>>

FirstRow == IF found = <<>> THEN 0 ELSE Last(found).first + Last(found).rows

\* Mutated: the marker is read and not compared.
FindBlockUnmarked ==
  /\ part = "data"
  /\ LET rows == ReadLong(offset)
         size == ReadLong(rows.next)
         end  == size.next + size.value
     IN  IF rows.end THEN part' = "done" /\ UNCHANGED <<offset, left, start, found>>
         ELSE IF ~rows.ok \/ rows.value <= 0 \/ ~size.ok \/ size.value < 0
                 \/ ~Has(end) THEN Fail
         ELSE /\ found' = Append(found, [first |-> FirstRow, rows |-> rows.value,
                                         byte |-> offset, size |-> end + 1 - offset])
              /\ offset' = end + 1
              /\ UNCHANGED <<left, start, part>>
  /\ UNCHANGED <<avro, bytes>>

\* Mutated: a block starts behind its count.
FindBlockBehindCount ==
  /\ part = "data"
  /\ LET rows == ReadLong(offset)
         size == ReadLong(rows.next)
         end  == size.next + size.value
     IN  IF rows.end THEN part' = "done" /\ UNCHANGED <<offset, left, start, found>>
         ELSE IF ~rows.ok \/ rows.value <= 0 \/ ~size.ok \/ size.value < 0
                 \/ ~Has(end) \/ Digit(end, 0) # Digit(start - 1, 0) THEN Fail
         ELSE /\ found' = Append(found, [first |-> FirstRow, rows |-> rows.value,
                                         byte |-> rows.next, size |-> end + 1 - rows.next])
              /\ offset' = end + 1
              /\ UNCHANGED <<left, start, part>>
  /\ UNCHANGED <<avro, bytes>>

\* Mutated: a block may have no row.
FindBlockEmpty ==
  /\ part = "data"
  /\ LET rows == ReadLong(offset)
         size == ReadLong(rows.next)
         end  == size.next + size.value
     IN  IF rows.end THEN part' = "done" /\ UNCHANGED <<offset, left, start, found>>
         ELSE IF ~rows.ok \/ rows.value < 0 \/ ~size.ok \/ size.value < 0
                 \/ ~Has(end) \/ Digit(end, 0) # Digit(start - 1, 0) THEN Fail
         ELSE /\ found' = Append(found, [first |-> FirstRow, rows |-> rows.value,
                                         byte |-> offset, size |-> end + 1 - offset])
              /\ offset' = end + 1
              /\ UNCHANGED <<left, start, part>>
  /\ UNCHANGED <<avro, bytes>>

\* One turn of inspect_avro_blocks: the number of rows, the size of their
\* bytes, which are skipped, and the marker of the header.
FindBlock ==
  /\ part = "data"
  /\ LET rows == ReadLong(offset)
         size == ReadLong(rows.next)
         end  == size.next + size.value
     IN  IF rows.end THEN part' = "done" /\ UNCHANGED <<offset, left, start, found>>
         ELSE IF ~rows.ok \/ rows.value <= 0 \/ ~size.ok \/ size.value < 0
                 \/ ~Has(end) \/ Digit(end, 0) # Digit(start - 1, 0) THEN Fail
         ELSE /\ found' = Append(found, [first |-> FirstRow, rows |-> rows.value,
                                         byte |-> offset, size |-> end + 1 - offset])
              /\ offset' = end + 1
              /\ UNCHANGED <<left, start, part>>
  /\ UNCHANGED <<avro, bytes>>

\* Mutated: the header without its marker.
StreamFromUnmarked(byte) ==
  SubSeq(bytes, 1, start - 1) \o SubSeq(bytes, byte + 1, Len(bytes))

\* read_avro_range: what the reader is given for a slice that starts at `byte'.
StreamFrom(byte) ==
  SubSeq(bytes, 1, start) \o SubSeq(bytes, byte + 1, Len(bytes))
-----------------------------------------------------------------------------
AvroStart == offset = 0 /\ left = 0 /\ start = 0 /\ found = <<>> /\ part = "magic"

AvroInit ==
  /\ \E m \in Metadata, d \in Data : \E x \in Damages(m, d) :
       /\ avro  = [metadata |-> m, data |-> d, damage |-> x]
       /\ bytes = Damaged(m, d, x)
  /\ AvroStart

AvroNext ==
  ReadMagic \/ EndHeader \/ ReadCount \/ SkipEntry \/ EndEntries \/ FindBlock

AvroSpec == AvroInit /\ [][AvroNext]_avroVars
-----------------------------------------------------------------------------
(* Properties. *)

\* Bytes of the header and of the first n blocks.
EndOf(n) == Len(Whole(avro.metadata, SubSeq(avro.data, 1, n)))

\* Blocks that are whole in the file.
Kept == IF avro.damage.kind = "cut"
          THEN Max({0} \cup {n \in DOMAIN avro.data : EndOf(n) <= Len(bytes)})
          ELSE Len(avro.data)

\* The blocks found are those that were written, each at its place with its
\* rows (avro.rs:115-157).
BlocksFound ==
  part = "done" =>
    /\ Len(found) = Kept
    /\ \A n \in DOMAIN found :
         /\ found[n].rows = avro.data[n].rows
         /\ found[n].byte = EndOf(n - 1)
         /\ found[n].size = EndOf(n) - EndOf(n - 1)

\* A file that is whole is inspected to its end, whatever the form of its
\* metadata and however large the integers are (avro.rs:31-53, 78-102).
WholeFilesPass == part = "failed" => avro.damage.kind # "none"

\* A file that was cut anywhere but between two blocks, and one with a marker, a
\* number of rows, a size or a count that cannot be, is refused, although the
\* inspector skips what it does not decode and may skip past the end
\* (avro.rs:84-106, 128-142).
DamageRefused ==
  part = "done" =>
    \/ avro.damage.kind = "none"
    \/ avro.damage.kind = "cut" /\ Len(bytes) = EndOf(Kept)

\* The stream a mapped slice reads, from any block or from the end, is itself an
\* Avro file: the header, then the blocks from that one on (avro.rs:213-218).
StreamsWhole ==
  part = "done" =>
    \A n \in 1 .. Kept + 1 :
      StreamFrom(IF n > Kept THEN Len(bytes) ELSE found[n].byte)
        = Whole(avro.metadata, SubSeq(avro.data, n, Kept))

\* The inspector takes a file apart as it was written, refuses it if it cannot
\* have been written so, and what it hands on is an Avro file again
\* (avro.rs:31-157, 213-218).
AvroBlocksRight == BlocksFound /\ WholeFilesPass /\ DamageRefused /\ StreamsWhole
=============================================================================
