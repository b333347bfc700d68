---------------------------- MODULE FilesProofs -----------------------------
(***************************************************************************)
(* Proofs about MCFiles: about TextRows, for files of any length, about    *)
(* FormatRegistry, for any handlers, any number of slices and any sequence *)
(* of registrations, about SqlCache, for any number of queries, sources    *)
(* and parts of a source, and about all of them with JsonArray, whose      *)
(* proofs are in ArrayProofs.                                              *)
(*                                                                         *)
(* Text.  The states of inspector and reader determine each other, and the *)
(* rows of the reader are those counted plus the one that is open.         *)
(*                                                                         *)
(* Registry.  What a job has asked is still true as long as the registry   *)
(* has not changed, and what a slice has asked is among what was           *)
(* registered since it began.                                              *)
(*                                                                         *)
(* SQL.  A cached file holds parts of its source, each at its place, and a *)
(* footer announces all of them, however many transcodings are under way.  *)
(* Between the queries over a source that is only written between them the *)
(* copy is the source as it was, and its mtime tells whether it still is.  *)
(***************************************************************************)
EXTENDS MCFiles, ArrayProofs, DataLemmas, FiniteSetTheorems, TLAPS

-----------------------------------------------------------------------------
(* TextRows. *)

\* A reader that starts at this byte begins with row number `first'.
Splits(byte, first) ==
  /\ byte \in gaps
  /\ \A k \in DOMAIN rows : k <= first <=> rows[k] < byte

Counted == scan.first + scan.count
Open    == scan.content /\ scan.header

GroupsEnd == IF groups = <<>> THEN 0 ELSE groups[Len(groups)].first + groups[Len(groups)].count

Marks == \A i \in DOMAIN groups : Splits(groups[i].byte, groups[i].first)

Tiles == \A i \in DOMAIN groups :
           groups[i].first = IF i = 1 THEN 0 ELSE groups[i - 1].first + groups[i - 1].count

FullGroups == \A i \in DOMAIN groups :
           groups[i].count = stride /\ groups[i].byte <= scan.start /\ groups[i].first <= Counted

LineInv ==
  /\ scan.start <= at
  /\ Len(rows) = Counted + (IF Open THEN 1 ELSE 0)
  /\ \A k \in DOMAIN rows : rows[k] < at
  /\ scan.header => Splits(scan.start, Counted)
  /\ ~scan.header => Counted = 0 /\ groups = <<>>

BlockInv ==
  /\ scan.count < stride
  /\ scan.first = GroupsEnd
  /\ scan.count = 0 => scan.block = NoBlock
  /\ scan.count > 0 => /\ scan.block \in Nat /\ scan.block <= scan.start
                       /\ Splits(scan.block, scan.first)

Core == LineInv /\ BlockInv /\ Marks /\ Tiles /\ FullGroups

\* The two automata on a delimited file.
DelimitedInv ==
  /\ scan.quoted <=> reader.state \in {"quoted", "closing"}
  /\ scan.pending <=> reader.state = "closing"
  /\ reader.state = "between" => ~scan.content /\ scan.start = at
  /\ ~Resting(reader.state) => scan.content
  /\ reader.header <=> scan.header \/ (reader.state = "crlf" /\ scan.content)

\* And on a file of JSON lines.
NdjsonInv ==
  /\ scan.header /\ reader.header
  /\ ~scan.content => reader.state = "between"

TextInv ==
  /\ TypeOK
  /\ tidy => Marks
  /\ tidy /\ phase = "bytes" => /\ Core
                                /\ kind = "delimited" => DelimitedInv
                                /\ kind = "ndjson" => NdjsonInv
  /\ GroupsCover
-----------------------------------------------------------------------------
(* Types. *)

Scans == [quoted: BOOLEAN, pending: BOOLEAN, content: BOOLEAN, header: BOOLEAN,
          start: Nat, block: Int, first: Nat, count: Nat]

LEMMA InLineType ==
  ASSUME TypeOK, NEW c \in BOOLEAN, NEW q \in BOOLEAN, NEW p \in BOOLEAN, InLine(c, q, p)
  PROVE  scan' \in Scans /\ groups' \in Seq(Group)
BY DEF TypeOK, InLine, Scans

LEMMA EndLineType ==
  ASSUME TypeOK, EndLine
  PROVE  scan' \in Scans /\ groups' \in Seq(Group)
<1>1. scan \in Scans /\ at \in Nat /\ stride \in Nat
  BY StridesAssumption DEF TypeOK, Scans
<1>2. (scan.header \/ scan.content) \in BOOLEAN
  BY <1>1 DEF Scans
<1>3. BlockStart \in Int /\ NoBlock \in Int
  BY <1>1 DEF BlockStart, NoBlock, Scans
<1>4. scan' \in Scans
  BY <1>1, <1>2, <1>3 DEF EndLine, Scans
<1>5. groups' \in Seq(Group)
  <2>1. [first |-> scan.first, count |-> stride, byte |-> BlockStart] \in Group
    BY <1>1, <1>3 DEF Group, Scans
  <2>2. groups \in Seq(Group)
    BY DEF TypeOK
  <2> QED  BY <2>1, <2>2 DEF EndLine
<1> QED  BY <1>4, <1>5

LEMMA InspectType ==
  ASSUME TypeOK, NEW b \in Alphabet[kind],
         \/ kind = "delimited" /\ InspectDelimited(b)
         \/ kind = "ndjson" /\ InspectNdjson(b)
  PROVE  scan' \in Scans /\ groups' \in Seq(Group)
<1>1. scan.quoted \in BOOLEAN /\ scan.pending \in BOOLEAN
  BY DEF TypeOK
<1>2. CASE kind = "delimited" /\ InspectDelimited(b)
  <2>1. b \in {"quote", "lf", "cr", "comma", "other"}
    BY <1>2 DEF Alphabet
  <2>2. CASE EndLine
    BY <2>2, EndLineType
  <2>3. CASE \E c, q, p \in BOOLEAN : InLine(c, q, p)
    BY <2>3, InLineType
  <2>4. EndLine \/ \E c, q, p \in BOOLEAN : InLine(c, q, p)
    <3>1. CASE b = "lf"
      BY <3>1, <1>2 DEF InspectDelimited
    <3>2. CASE b = "cr"
      BY <3>2, <1>1, <1>2 DEF InspectDelimited
    <3>3. CASE b = "quote"
      BY <3>3, <1>1, <1>2 DEF InspectDelimited
    <3>4. CASE b \in {"comma", "other"}
      BY <3>4, <1>1, <1>2 DEF InspectDelimited
    <3> QED  BY <2>1, <3>1, <3>2, <3>3, <3>4
  <2> QED  BY <2>2, <2>3, <2>4
<1>3. CASE kind = "ndjson" /\ InspectNdjson(b)
  BY <1>3, EndLineType, InLineType DEF InspectNdjson
<1> QED  BY <1>2, <1>3

LEMMA ReadType ==
  ASSUME TypeOK, NEW b \in Alphabet[kind],
         \/ kind = "delimited" /\ ReadDelimited(b)
         \/ kind = "ndjson" /\ ReadNdjson(b)
  PROVE  /\ reader' \in [state: States[kind], depth: Nat, header: BOOLEAN]
         /\ rows' \in Seq(Nat)
         /\ tidy' \in BOOLEAN
         /\ phase' \in {"bytes", "end", "error"}
<1>1. /\ reader \in [state: States[kind], depth: Nat, header: BOOLEAN]
      /\ rows \in Seq(Nat) /\ at \in Nat /\ tidy \in BOOLEAN
      /\ phase \in {"bytes", "end", "error"}
  BY DEF TypeOK
<1>2. CASE kind = "delimited" /\ ReadDelimited(b)
  <2>1. b \in {"quote", "lf", "cr", "comma", "other"}
    BY <1>2 DEF Alphabet
  <2>2. CsvState(b) \in States[kind]
    BY <1>1, <1>2, <2>1 DEF CsvState, States
  <2>3. EndsRecord(b) \in BOOLEAN
    BY DEF EndsRecord
  <2>4. reader' \in [state: States[kind], depth: Nat, header: BOOLEAN]
    BY <1>1, <1>2, <2>2, <2>3 DEF ReadDelimited
  <2>5. rows' \in Seq(Nat)
    BY <1>1, <1>2 DEF ReadDelimited
  <2>6. tidy' \in BOOLEAN
    BY <1>2 DEF ReadDelimited
  <2>7. phase' \in {"bytes", "end", "error"}
    BY <1>1, <1>2 DEF ReadDelimited
  <2> QED  BY <2>4, <2>5, <2>6, <2>7
<1>3. CASE kind = "ndjson" /\ ReadNdjson(b)
  <2>1. JsonState(b) \in States[kind]
    BY <1>1, <1>3 DEF JsonState, States
  <2>2. JsonDepth(b) \in Nat
    <3>1. reader.depth \in Nat
      BY <1>1
    <3> QED  BY <3>1 DEF JsonDepth
  <2>3. reader' \in [state: States[kind], depth: Nat, header: BOOLEAN]
    BY <1>1, <1>3, <2>1, <2>2 DEF ReadNdjson
  <2>4. rows' \in Seq(Nat)
    <3>1. Append(rows, at) \in Seq(Nat)
      BY <1>1
    <3>2. rows' \in {rows, Append(rows, at)}
      BY <1>3 DEF ReadNdjson
    <3> QED  BY <1>1, <3>1, <3>2
  <2>5. tidy' \in BOOLEAN
    BY <1>3 DEF ReadNdjson
  <2>6. phase' \in {"bytes", "end", "error"}
    BY <1>1, <1>3 DEF ReadNdjson
  <2> QED  BY <2>3, <2>4, <2>5, <2>6
<1> QED  BY <1>2, <1>3

LEMMA NextType ==
  ASSUME TypeOK, [Next]_textVars
  PROVE  TypeOK'
<1>1. ASSUME NEW b \in Alphabet[kind], NextByte(b)
      PROVE  TypeOK'
  <2>1. \/ kind = "delimited" /\ InspectDelimited(b) /\ ReadDelimited(b)
        \/ kind = "ndjson" /\ InspectNdjson(b) /\ ReadNdjson(b)
    <3>1. kind \in {"delimited", "ndjson"}
      BY KindsAssumption DEF TypeOK
    <3>2. CASE kind = "delimited"
      BY <3>2, <1>1 DEF NextByte
    <3>3. CASE kind = "ndjson"
      BY <3>3, <1>1 DEF NextByte
    <3> QED  BY <3>1, <3>2, <3>3
  <2>2. scan' \in Scans /\ groups' \in Seq(Group)
    BY <2>1, InspectType
  <2>3. /\ reader' \in [state: States[kind], depth: Nat, header: BOOLEAN]
        /\ rows' \in Seq(Nat)
        /\ tidy' \in BOOLEAN
        /\ phase' \in {"bytes", "end", "error"}
    BY <2>1, ReadType
  <2>4. at' \in Nat /\ gaps' \subseteq Nat /\ kind' = kind /\ stride' = stride
    BY <1>1 DEF NextByte, TypeOK
  <2> QED  BY <2>2, <2>3, <2>4 DEF TypeOK, Scans
<1>2. CASE EndOfText
  <2>1. LastBlock \in Seq(Group)
    <3>1. scan.count \in Nat /\ scan.first \in Nat /\ BlockStart \in Int
      BY DEF TypeOK, BlockStart, NoBlock
    <3>2. (scan.count + (IF scan.content /\ scan.header THEN 1 ELSE 0)) \in Nat
      BY <3>1
    <3> DEFINE count == scan.count + (IF scan.content /\ scan.header THEN 1 ELSE 0)
               block == [first |-> scan.first, count |-> count, byte |-> BlockStart]
    <3>3. block \in Group
      BY <3>1, <3>2 DEF Group
    <3>4. <<block>> \in Seq(Group) /\ <<>> \in Seq(Group)
      <4> HIDE DEF block
      <4> QED  BY <3>3
    <3> QED  BY <3>4 DEF LastBlock
  <2>2. groups' \in Seq(Group) /\ phase' \in {"bytes", "end", "error"}
    <3>1. groups \in Seq(Group)
      BY DEF TypeOK
    <3>2. groups \o LastBlock \in Seq(Group)
      BY <3>1, <2>1
    <3>3. groups' \in {groups, groups \o LastBlock} /\ phase' \in {"end", "error"}
      BY <1>2 DEF EndOfText
    <3> QED  BY <3>1, <3>2, <3>3
  <2> QED  BY <1>2, <2>2 DEF EndOfText, TypeOK
<1>3. CASE UNCHANGED textVars
  BY <1>3 DEF textVars, TypeOK
<1> QED  BY <1>1, <1>2, <1>3 DEF Next

LEMMA InitType == Init => TypeOK
<1> SUFFICES ASSUME Init PROVE TypeOK
  OBVIOUS
<1>1. kind \in {"delimited", "ndjson"}
  BY KindsAssumption DEF Init
<1>2. "between" \in States[kind]
  BY <1>1 DEF States
<1>3. (kind = "ndjson") \in BOOLEAN
  OBVIOUS
<1>4. reader \in [state: States[kind], depth: Nat, header: BOOLEAN]
  BY <1>2, <1>3 DEF Init
<1>5. scan \in Scans
  BY <1>3 DEF Init, Scans, NoBlock
<1> QED  BY <1>4, <1>5 DEF Init, TypeOK, Scans

\* In every file the variables keep their types: there are no offsets before
\* the file and no negative counts (inspect.rs:128-181, 368-462).
THEOREM TextTyped == Spec => []TypeOK
BY InitType, NextType, PTL DEF Spec
-----------------------------------------------------------------------------
(* What a step does to the marks that are set. *)

\* Splits, said of the next state, for a byte and a row that stay the same.
SplitsNext(byte, first) ==
  /\ byte \in gaps'
  /\ \A k \in DOMAIN rows' : k <= first <=> rows'[k] < byte

LEMMA SplitsKept ==
  ASSUME TypeOK, gaps \subseteq gaps', NEW byte \in Int, NEW first \in Int,
         Splits(byte, first),
         \/ rows' = rows
         \/ rows' = Append(rows, at) /\ byte <= at /\ first <= Len(rows)
  PROVE  SplitsNext(byte, first)
<1>1. rows \in Seq(Nat) /\ at \in Nat
  BY DEF TypeOK
<1>2. CASE rows' = rows
  BY <1>2 DEF Splits, SplitsNext
<1>3. CASE rows' = Append(rows, at) /\ byte <= at /\ first <= Len(rows)
  <2>1. ASSUME NEW k \in DOMAIN rows'
        PROVE  k <= first <=> rows'[k] < byte
    <3>1. CASE k \in DOMAIN rows
      BY <1>1, <1>3, <3>1 DEF Splits
    <3>2. CASE k = Len(rows) + 1
      BY <1>1, <1>3, <3>2
    <3> QED  BY <1>1, <1>3, <2>1, <3>1, <3>2
  <2> QED  BY <2>1 DEF Splits, SplitsNext
<1> QED  BY <1>2, <1>3

LEMMA GroupType ==
  ASSUME TypeOK, NEW i \in DOMAIN groups
  PROVE  groups[i].byte \in Int /\ groups[i].first \in Nat /\ groups[i].count \in Nat
<1>1. groups \in Seq(Group)
  BY DEF TypeOK
<1>2. groups[i] \in Group
  BY <1>1
<1> QED  BY <1>2 DEF Group

\* The groups that are recorded keep their marks.
LEMMA MarksKept ==
  ASSUME TypeOK, Marks, gaps \subseteq gaps', groups' = groups,
         \/ rows' = rows
         \/ rows' = Append(rows, at) /\ LineInv /\ FullGroups /\ ~Open
  PROVE  Marks'
<1>1. ASSUME NEW i \in DOMAIN groups
      PROVE  SplitsNext(groups[i].byte, groups[i].first)
  <2>1. groups[i].byte \in Int /\ groups[i].first \in Nat
    BY <1>1, GroupType
  <2>2. Splits(groups[i].byte, groups[i].first)
    BY <1>1 DEF Marks
  <2>3. CASE rows' = rows
    BY <2>1, <2>2, <2>3, SplitsKept
  <2>4. CASE rows' = Append(rows, at) /\ LineInv /\ FullGroups /\ ~Open
    <3>1. groups[i].byte <= at /\ groups[i].first <= Len(rows)
      <4>1. scan.start <= at /\ Len(rows) = Counted
        BY <2>4 DEF LineInv, Counted, TypeOK
      <4>2. groups[i].byte <= scan.start /\ groups[i].first <= Counted
        BY <2>4, <1>1 DEF FullGroups
      <4> QED  BY <2>1, <4>1, <4>2 DEF TypeOK
    <3> QED  BY <2>1, <2>2, <2>4, <3>1, SplitsKept
  <2> QED  BY <2>3, <2>4
<1> QED  BY <1>1 DEF Marks, Splits, SplitsNext

\* The parts of the state the lemmas below compute with.
LEMMA ScanType ==
  ASSUME TypeOK
  PROVE  /\ scan.start \in Nat /\ scan.block \in Int /\ scan.first \in Nat /\ scan.count \in Nat
         /\ scan.content \in BOOLEAN /\ scan.header \in BOOLEAN
         /\ at \in Nat /\ rows \in Seq(Nat) /\ Counted \in Nat
         /\ stride \in Nat \ {0} /\ groups \in Seq(Group)
BY StridesAssumption DEF TypeOK, Counted

\* A byte that ends no line, and with which a row begins if and only if the
\* line had no content and the header is passed.
LEMMA InLineKeeps ==
  ASSUME TypeOK, Core, gaps \subseteq gaps', at' = at + 1, stride' = stride,
         NEW c \in BOOLEAN, NEW q \in BOOLEAN, NEW p \in BOOLEAN, InLine(c, q, p),
         \/ rows' = rows /\ (scan.header /\ c => scan.content)
         \/ rows' = Append(rows, at) /\ c /\ ~scan.content /\ scan.header
  PROVE  Core'
<1> USE ScanType
<1>1. /\ scan'.start = scan.start /\ scan'.block = scan.block
      /\ scan'.first = scan.first /\ scan'.count = scan.count
      /\ scan'.header = scan.header /\ scan'.content = (scan.content \/ c)
      /\ groups' = groups
  BY DEF InLine, TypeOK
<1>2. Counted' = Counted /\ GroupsEnd' = GroupsEnd
  BY <1>1 DEF Counted, GroupsEnd
<1>3. /\ scan.start <= at /\ \A k \in DOMAIN rows : rows[k] < at
      /\ Len(rows) = Counted + (IF Open THEN 1 ELSE 0)
      /\ scan.header => Splits(scan.start, Counted)
  BY DEF Core, LineInv
<1>4. rows' = Append(rows, at) => ~Open /\ Len(rows) = Counted
  <2>1. rows' = Append(rows, at) => ~Open
    <3>1. rows # Append(rows, at)
      <4>1. Len(Append(rows, at)) = Len(rows) + 1
        OBVIOUS
      <4> QED  BY <4>1
    <3> QED  BY <3>1 DEF Open
  <2> QED  BY <1>3, <2>1
<1>5. Len(rows') = Counted + (IF Open' THEN 1 ELSE 0)
  <2>1. CASE rows' = rows /\ (scan.header /\ c => scan.content)
    <3>1. Open' <=> Open
      BY <1>1, <2>1 DEF Open
    <3> QED  BY <1>3, <2>1, <3>1
  <2>2. CASE rows' = Append(rows, at) /\ c /\ ~scan.content /\ scan.header
    <3>1. Open'
      BY <1>1, <2>2 DEF Open
    <3>2. Len(rows) = Counted
      BY <1>4, <2>2
    <3>3. Len(rows') = Len(rows) + 1
      BY <2>2
    <3> QED  BY <3>1, <3>2, <3>3
  <2> QED  BY <2>1, <2>2
<1>6. \A k \in DOMAIN rows' : rows'[k] < at'
  <2>1. CASE rows' = rows
    BY <1>3, <2>1
  <2>2. CASE rows' = Append(rows, at)
    BY <1>3, <2>2
  <2> QED  BY <2>1, <2>2
<1>7. scan.header => SplitsNext(scan.start, Counted)
  <2> SUFFICES ASSUME scan.header
               PROVE  SplitsNext(scan.start, Counted)
    OBVIOUS
  <2>1. Splits(scan.start, Counted) /\ scan.start <= at /\ scan.start \in Int /\ Counted \in Int
    BY <1>3
  <2>2. rows' = rows \/ (rows' = Append(rows, at) /\ Counted <= Len(rows))
    BY <1>4
  <2> QED  BY <2>1, <2>2, SplitsKept
<1>8. LineInv'
  <2>1. (~scan.header => Counted = 0 /\ groups = <<>>)
    BY DEF Core, LineInv
  <2>2. scan'.start <= at'
    BY <1>1, <1>3
  <2> QED  BY <1>1, <1>2, <1>5, <1>6, <1>7, <2>1, <2>2 DEF LineInv, Splits, SplitsNext
<1>9. BlockInv'
  <2>1. BlockInv
    BY DEF Core
  <2>2. scan.count > 0 => SplitsNext(scan.block, scan.first)
    <3>1. ASSUME scan.count > 0
          PROVE  Splits(scan.block, scan.first) /\ scan.block <= at /\ scan.first <= Counted
      BY <1>3, <2>1, <3>1 DEF BlockInv, Counted
    <3> QED  BY <1>4, <3>1, SplitsKept
  <2> QED  BY <1>1, <1>2, <2>1, <2>2 DEF BlockInv, Splits, SplitsNext
<1>10. Marks'
  BY <1>1, <1>4, MarksKept DEF Core
<1>11. Tiles' /\ FullGroups'
  BY <1>1, <1>2 DEF Core, Tiles, FullGroups
<1> QED  BY <1>8, <1>9, <1>10, <1>11 DEF Core

\* A line feed that ends a line, after which the reader is between two rows
\* unless the header is still to come.
LEMMA EndLineKeeps ==
  ASSUME TypeOK, Core, gaps \subseteq gaps', at' = at + 1, stride' = stride,
         EndLine, rows' = rows, scan.header \/ scan.content => at + 1 \in gaps'
  PROVE  Core'
<1> USE ScanType
<1> DEFINE isRow == scan.content /\ scan.header
           full  == isRow /\ scan.count + 1 = stride
           group == [first |-> scan.first, count |-> stride, byte |-> BlockStart]
<1>1. /\ scan'.header = (scan.header \/ scan.content)
      /\ scan'.start = at + 1
      /\ scan'.content = FALSE
      /\ scan'.block = IF full THEN NoBlock ELSE IF isRow THEN BlockStart ELSE scan.block
      /\ scan'.first = IF full THEN scan.first + stride ELSE scan.first
      /\ scan'.count = IF full THEN 0 ELSE IF isRow THEN scan.count + 1 ELSE scan.count
      /\ groups' = IF full THEN Append(groups, group) ELSE groups
  BY DEF EndLine
<1>2. /\ scan.start <= at /\ \A k \in DOMAIN rows : rows[k] < at
      /\ Len(rows) = Counted + (IF Open THEN 1 ELSE 0)
      /\ scan.header => Splits(scan.start, Counted)
      /\ ~scan.header => Counted = 0 /\ groups = <<>>
      /\ scan.count < stride /\ scan.first = GroupsEnd
      /\ scan.count = 0 => scan.block = NoBlock
      /\ scan.count > 0 => /\ scan.block \in Nat /\ scan.block <= scan.start
                           /\ Splits(scan.block, scan.first)
  BY DEF Core, LineInv, BlockInv
<1>3. Counted' = Counted + (IF isRow THEN 1 ELSE 0) /\ Counted' = Len(rows)
  <2>1. Counted' = scan'.first + scan'.count
    BY DEF Counted
  <2>2. CASE full
    BY <1>1, <1>2, <2>1, <2>2 DEF Counted, Open
  <2>3. CASE ~full
    BY <1>1, <1>2, <2>1, <2>3 DEF Counted, Open
  <2> QED  BY <2>2, <2>3
<1>4. isRow => /\ BlockStart \in Nat /\ BlockStart <= scan.start
               /\ SplitsNext(BlockStart, scan.first)
  <2> SUFFICES ASSUME isRow
               PROVE  /\ BlockStart \in Nat /\ BlockStart <= scan.start
                      /\ SplitsNext(BlockStart, scan.first)
    OBVIOUS
  <2>1. CASE scan.count = 0
    <3>1. BlockStart = scan.start /\ Counted = scan.first
      BY <1>2, <2>1 DEF BlockStart, Counted
    <3>2. SplitsNext(scan.start, Counted)
      BY <1>2, SplitsKept
    <3> QED  BY <3>1, <3>2
  <2>2. CASE scan.count > 0
    <3>1. BlockStart = scan.block
      BY <1>2, <2>2 DEF BlockStart, NoBlock
    <3>2. SplitsNext(scan.block, scan.first)
      BY <1>2, <2>2, SplitsKept
    <3> QED  BY <1>2, <2>2, <3>1, <3>2
  <2> QED  BY <2>1, <2>2
<1>5. LineInv'
  <2>1. ~Open'
    BY <1>1 DEF Open
  <2>2. \A k \in DOMAIN rows' : rows'[k] < at + 1
    BY <1>2
  <2>3. scan'.header => SplitsNext(at + 1, Len(rows))
    BY <1>1, <2>2 DEF SplitsNext
  <2>4. ~scan'.header => Counted' = 0 /\ groups' = <<>>
    BY <1>1, <1>2, <1>3
  <2>5. scan'.header => Splits(scan.start, Counted)'
    BY <1>1, <1>3, <2>3 DEF Splits, SplitsNext
  <2> QED  BY <1>1, <1>3, <2>1, <2>2, <2>4, <2>5 DEF LineInv
<1>6. Marks'
  <2>1. CASE ~full
    BY <1>1, <2>1, MarksKept DEF Core
  <2>2. CASE full
    <3>1. ASSUME NEW i \in DOMAIN groups
          PROVE  SplitsNext(groups[i].byte, groups[i].first)
      BY <3>1, GroupType, SplitsKept DEF Core, Marks
    <3>2. DOMAIN groups' = DOMAIN groups \cup {Len(groups) + 1}
      BY <1>1, <2>2
    <3>3. /\ \A i \in DOMAIN groups : groups'[i] = groups[i]
          /\ groups'[Len(groups) + 1] = group
      <4> HIDE DEF group
      <4> QED  BY <1>1, <2>2
    <3>4. SplitsNext(group.byte, group.first)
      BY <1>4, <2>2
    <3>5. \A i \in DOMAIN groups' : SplitsNext(groups'[i].byte, groups'[i].first)
      BY <3>1, <3>2, <3>3, <3>4
    <3> QED  BY <3>5 DEF Marks, Splits, SplitsNext
  <2> QED  BY <2>1, <2>2
<1>7. BlockInv' /\ Tiles' /\ FullGroups'
  <2>1. Tiles /\ FullGroups
    BY DEF Core
  <2>2. CASE ~full
    <3>1. GroupsEnd' = GroupsEnd
      BY <1>1, <2>2 DEF GroupsEnd
    <3>2. scan'.count > 0 => SplitsNext(scan'.block, scan'.first)
      <4>1. CASE isRow
        BY <1>1, <1>4, <2>2, <4>1
      <4>2. CASE ~isRow
        BY <1>1, <1>2, <2>2, <4>2, SplitsKept
      <4> QED  BY <4>1, <4>2
    <3>3. /\ scan'.count < stride
          /\ scan'.count = 0 => scan'.block = NoBlock
          /\ scan'.count > 0 => scan'.block \in Nat /\ scan'.block <= scan'.start
      <4>1. CASE isRow
        <5>1. scan'.count = scan.count + 1 /\ scan'.block = BlockStart /\ scan'.start = at + 1
          BY <1>1, <2>2, <4>1
        <5>2. scan.count + 1 < stride
          BY <1>2, <2>2, <4>1
        <5> QED  BY <1>2, <1>4, <4>1, <5>1, <5>2
      <4>2. CASE ~isRow
        <5>1. scan'.count = scan.count /\ scan'.block = scan.block /\ scan'.start = at + 1
          BY <1>1, <4>2
        <5> QED  BY <1>2, <5>1
      <4> QED  BY <4>1, <4>2
    <3>4. BlockInv'
      BY <1>1, <1>2, <2>2, <3>1, <3>2, <3>3 DEF BlockInv, Splits, SplitsNext
    <3>5. Tiles'
      BY <1>1, <2>1, <2>2 DEF Tiles
    <3>6. FullGroups'
      <4>1. Counted <= Counted' /\ scan.start <= scan'.start
        BY <1>1, <1>2, <1>3
      <4>2. ASSUME NEW i \in DOMAIN groups
            PROVE  /\ groups[i].count = stride /\ groups[i].byte <= scan'.start
                   /\ groups[i].first <= Counted'
        <5>1. /\ groups[i].count = stride /\ groups[i].byte <= scan.start
              /\ groups[i].first <= Counted
          BY <2>1, <4>2 DEF FullGroups
        <5>2. groups[i].byte \in Int /\ groups[i].first \in Nat
          BY <4>2, GroupType
        <5>3. scan'.start \in Int /\ Counted' \in Int
          BY <1>1, <1>3
        <5> QED  BY <4>1, <5>1, <5>2, <5>3
      <4> QED  BY <1>1, <2>2, <4>2 DEF FullGroups
    <3> QED  BY <3>4, <3>5, <3>6
  <2>3. CASE full
    <3>1. DOMAIN groups' = DOMAIN groups \cup {Len(groups) + 1} /\ Len(groups') = Len(groups) + 1
      BY <1>1, <2>3
    <3>2. /\ \A i \in DOMAIN groups : groups'[i] = groups[i]
          /\ groups'[Len(groups) + 1] = group
      <4> HIDE DEF group
      <4> QED  BY <1>1, <2>3
    <3>3. GroupsEnd' = scan.first + stride
      <4>1. groups' # <<>> /\ groups'[Len(groups')] = group
        BY <3>1, <3>2
      <4> QED  BY <4>1 DEF GroupsEnd
    <3>4. BlockInv'
      BY <1>1, <1>2, <2>3, <3>3 DEF BlockInv
    <3>5. group.first = IF groups = <<>> THEN 0 ELSE groups[Len(groups)].first + groups[Len(groups)].count
      BY <1>2 DEF GroupsEnd
    <3>6. Tiles'
      <4>1. ASSUME NEW i \in DOMAIN groups'
            PROVE  groups'[i].first = IF i = 1 THEN 0 ELSE groups'[i - 1].first + groups'[i - 1].count
        <5>1. CASE i \in DOMAIN groups
          <6>1. i = 1 \/ i - 1 \in DOMAIN groups
            BY <5>1
          <6> QED  BY <2>1, <3>2, <5>1, <6>1 DEF Tiles
        <5>2. CASE i = Len(groups) + 1
          <6>1. CASE groups = <<>>
            BY <3>2, <3>5, <5>2, <6>1
          <6>2. CASE groups # <<>>
            <7>1. Len(groups) \in DOMAIN groups /\ i # 1 /\ i - 1 = Len(groups)
              BY <5>2, <6>2
            <7>2. groups'[i - 1] = groups[Len(groups)] /\ groups'[i] = group
              BY <3>2, <5>2, <7>1
            <7> QED  BY <3>5, <6>2, <7>1, <7>2
          <6> QED  BY <6>1, <6>2
        <5> QED  BY <3>1, <5>1, <5>2
      <4> QED  BY <4>1 DEF Tiles
    <3>7. FullGroups'
      <4>1. /\ Counted <= Counted' /\ scan.start <= scan'.start
            /\ BlockStart <= scan'.start /\ scan.first <= Counted'
        <5>1. Counted' = Counted + 1 /\ scan'.start = at + 1 /\ Counted = scan.first + scan.count
          BY <1>1, <1>3, <2>3 DEF Counted
        <5>2. BlockStart \in Nat /\ BlockStart <= scan.start /\ scan.start <= at
          BY <1>2, <1>4, <2>3
        <5> QED  BY <5>1, <5>2
      <4>2. ASSUME NEW i \in DOMAIN groups
            PROVE  /\ groups[i].count = stride /\ groups[i].byte <= scan'.start
                   /\ groups[i].first <= Counted'
        BY <1>1, <1>3, <2>1, <4>1, <4>2, GroupType DEF FullGroups
      <4>3. \A i \in DOMAIN groups' : /\ groups'[i].count = stride
                                      /\ groups'[i].byte <= scan'.start
                                      /\ groups'[i].first <= Counted'
        BY <3>1, <3>2, <4>1, <4>2
      <4> QED  BY <4>3 DEF FullGroups
    <3> QED  BY <3>4, <3>6, <3>7
  <2> QED  BY <2>2, <2>3
<1> QED  BY <1>5, <1>6, <1>7 DEF Core
-----------------------------------------------------------------------------
(* The bytes, format by format. *)

LEMMA StepFacts ==
  ASSUME NEW b \in Alphabet[kind], NextByte(b)
  PROVE  /\ phase = "bytes" /\ at' = at + 1 /\ kind' = kind /\ stride' = stride
         /\ gaps \subseteq gaps'
         /\ Resting(reader'.state) /\ reader'.header => at + 1 \in gaps'
BY DEF NextByte

LEMMA DelimitedStep ==
  ASSUME TypeOK, Core, DelimitedInv, kind = "delimited",
         NEW b \in Alphabet[kind], NextByte(b), tidy'
  PROVE  Core' /\ DelimitedInv'
<1>1. b \in {"quote", "lf", "cr", "comma", "other"}
  BY DEF Alphabet
<1>2. InspectDelimited(b) /\ ReadDelimited(b)
  BY DEF NextByte
<1>3. /\ reader.state \in {"between", "crlf", "field", "plain", "quoted", "closing"}
      /\ reader.header \in BOOLEAN
      /\ scan.quoted \in BOOLEAN /\ scan.pending \in BOOLEAN
      /\ scan.content \in BOOLEAN /\ scan.header \in BOOLEAN
      /\ at \in Nat
  BY DEF TypeOK, States
<1>4. /\ scan.quoted <=> reader.state \in {"quoted", "closing"}
      /\ scan.pending <=> reader.state = "closing"
      /\ reader.state = "between" => ~scan.content /\ scan.start = at
      /\ ~Resting(reader.state) => scan.content
      /\ reader.header <=> scan.header \/ (reader.state = "crlf" /\ scan.content)
  BY DEF DelimitedInv
<1>5. /\ ~(reader.state = "plain" /\ b = "quote")
      /\ reader.state = "crlf" => b = "lf"
  BY <1>2 DEF ReadDelimited
<1>6. /\ reader'.state = CsvState(b)
      /\ reader'.header = (reader.header \/ EndsRecord(b))
  <2>1. reader \in [state: States[kind], depth: Nat, header: BOOLEAN]
    BY DEF TypeOK
  <2> QED  BY <1>2, <2>1 DEF ReadDelimited
<1>7. rows' = IF Resting(reader.state) /\ b \notin {"lf", "cr"} /\ reader.header
                THEN Append(rows, at) ELSE rows
  BY <1>2 DEF ReadDelimited
<1>8. (scan.quoted /\ ~scan.pending) <=> reader.state = "quoted"
  BY <1>3, <1>4
<1>9. CASE b = "lf" /\ reader.state # "quoted"
  <2>1. EndLine
    BY <1>2, <1>8, <1>9 DEF InspectDelimited
  <2>2. reader'.state = "between" /\ rows' = rows
    BY <1>3, <1>6, <1>7, <1>9 DEF CsvState
  <2>3. EndsRecord(b) <=> ~Resting(reader.state)
    BY <1>9 DEF EndsRecord
  <2>4. reader'.header <=> scan.header \/ scan.content
    BY <1>3, <1>4, <1>6, <2>3 DEF Resting
  <2>5. Core'
    BY <2>1, <2>2, <2>4, StepFacts, EndLineKeeps DEF Resting
  <2>6. /\ ~scan'.quoted /\ ~scan'.pending /\ ~scan'.content
        /\ scan'.start = at + 1 /\ scan'.header = (scan.header \/ scan.content)
    BY <2>1 DEF EndLine
  <2>7. DelimitedInv'
    BY <1>3, <2>2, <2>4, <2>6, StepFacts DEF DelimitedInv, Resting
  <2> QED  BY <2>5, <2>7
<1>10. CASE b = "lf" /\ reader.state = "quoted"
  <2>1. InLine(FALSE, TRUE, FALSE)
    BY <1>2, <1>8, <1>10 DEF InspectDelimited
  <2>2. reader'.state = "quoted" /\ rows' = rows /\ reader'.header = reader.header
    BY <1>3, <1>6, <1>7, <1>10 DEF CsvState, EndsRecord, Resting
  <2>3. Core'
    BY <2>1, <2>2, StepFacts, InLineKeeps
  <2>4. DelimitedInv'
    BY <1>3, <1>4, <1>10, <2>1, <2>2 DEF DelimitedInv, Resting, InLine, TypeOK
  <2> QED  BY <2>3, <2>4
<1>11. CASE b = "cr"
  <2>1. InLine(scan.quoted, reader.state = "quoted", FALSE)
    BY <1>2, <1>3, <1>8, <1>11 DEF InspectDelimited
  <2>2. rows' = rows /\ (scan.quoted => scan.content)
    BY <1>4, <1>7, <1>11 DEF Resting
  <2>3. Core'
    BY <1>3, <2>1, <2>2, StepFacts, InLineKeeps
  <2>4. DelimitedInv'
    BY <1>3, <1>4, <1>5, <1>6, <1>11, <2>1, <2>2
       DEF DelimitedInv, Resting, InLine, TypeOK, CsvState, EndsRecord
  <2> QED  BY <2>3, <2>4
<1>12. CASE b \in {"quote", "comma", "other"}
  <2>1. reader.state # "crlf" /\ ~EndsRecord(b)
    BY <1>5, <1>12 DEF EndsRecord
  <2>2. \E q, p \in BOOLEAN :
          /\ InLine(TRUE, q, p)
          /\ q <=> CsvState(b) \in {"quoted", "closing"}
          /\ p <=> CsvState(b) = "closing"
    <3>1. CASE b = "quote"
      <4>1. InLine(TRUE, TRUE, reader.state = "quoted")
        BY <1>2, <1>3, <1>8, <3>1 DEF InspectDelimited
      <4>2. /\ CsvState(b) \in {"quoted", "closing"}
            /\ CsvState(b) = "closing" <=> reader.state = "quoted"
        BY <1>3, <1>5, <3>1 DEF CsvState
      <4> QED  BY <4>1, <4>2
    <3>2. CASE b \in {"comma", "other"}
      <4>1. InLine(TRUE, reader.state = "quoted", FALSE)
        BY <1>2, <1>3, <1>8, <3>2 DEF InspectDelimited
      <4>2. /\ CsvState(b) # "closing"
            /\ CsvState(b) = "quoted" <=> reader.state = "quoted"
        BY <1>3, <3>2 DEF CsvState
      <4> QED  BY <4>1, <4>2
    <3> QED  BY <1>12, <3>1, <3>2
  <2>3. PICK q \in BOOLEAN, p \in BOOLEAN :
          /\ InLine(TRUE, q, p)
          /\ q <=> CsvState(b) \in {"quoted", "closing"}
          /\ p <=> CsvState(b) = "closing"
    BY <2>2
  <2>4. \/ rows' = rows /\ (scan.header => scan.content)
        \/ rows' = Append(rows, at) /\ ~scan.content /\ scan.header
    BY <1>3, <1>4, <1>7, <1>12, <2>1 DEF Resting
  <2>5. Core'
    BY <2>3, <2>4, StepFacts, InLineKeeps
  <2>6. CsvState(b) \in {"field", "plain", "quoted", "closing"}
    BY <1>3, <1>12 DEF CsvState
  <2>7. reader'.header <=> scan.header
    BY <1>3, <1>4, <1>6, <2>1
  <2>8. /\ scan'.content /\ scan'.quoted = q /\ scan'.pending = p
        /\ scan'.header = scan.header
    BY <2>3 DEF InLine, TypeOK
  <2>9. DelimitedInv'
    BY <1>6, <2>3, <2>6, <2>7, <2>8 DEF DelimitedInv, Resting
  <2> QED  BY <2>5, <2>9
<1> QED  BY <1>1, <1>9, <1>10, <1>11, <1>12

LEMMA NdjsonStep ==
  ASSUME TypeOK, Core, NdjsonInv, kind = "ndjson",
         NEW b \in Alphabet[kind], NextByte(b), tidy'
  PROVE  Marks' /\ (phase' = "bytes" => Core' /\ NdjsonInv')
<1>1. b \in {"quote", "slash", "lf", "open", "close", "space"}
  BY DEF Alphabet
<1>2. InspectNdjson(b) /\ ReadNdjson(b)
  BY DEF NextByte
<1>3. /\ reader.state \in {"between", "inside", "quoted", "escape"}
      /\ reader \in [state: States[kind], depth: Nat, header: BOOLEAN]
      /\ scan.content \in BOOLEAN /\ at \in Nat
  BY DEF TypeOK, States
<1>4. /\ reader'.state = JsonState(b) /\ reader'.header = reader.header
      /\ rows' = IF Resting(reader.state) /\ b = "open" THEN Append(rows, at) ELSE rows
      /\ b = "lf" => Resting(reader.state)
      /\ Resting(reader.state) /\ b = "open" => ~scan.content
      /\ phase' = IF Resting(reader.state) /\ b \notin {"open", "lf", "space"}
                    THEN "error" ELSE phase
  BY <1>2, <1>3 DEF ReadNdjson
<1>5. scan.header /\ reader.header /\ (~scan.content => reader.state = "between")
  BY DEF NdjsonInv
<1>6. Resting(reader.state) <=> reader.state = "between"
  BY <1>3 DEF Resting
<1>7. CASE b = "lf"
  <2>1. EndLine /\ rows' = rows /\ reader'.state = "between"
    BY <1>2, <1>4, <1>6, <1>7 DEF InspectNdjson, JsonState
  <2>2. Core'
    BY <1>4, <1>5, <2>1, StepFacts, EndLineKeeps DEF Resting
  <2>3. NdjsonInv'
    BY <1>4, <1>5, <2>1 DEF NdjsonInv, EndLine
  <2> QED  BY <2>2, <2>3 DEF Core
<1>8. CASE b # "lf"
  <2>1. InLine(b # "space", FALSE, FALSE)
    BY <1>2, <1>8 DEF InspectNdjson
  <2>2. scan'.content = (scan.content \/ b # "space") /\ scan'.header = scan.header /\ groups' = groups
    BY <2>1 DEF InLine, TypeOK
  <2>3. CASE phase' = "error" /\ phase = "bytes"
    BY <1>4, <2>2, <2>3, StepFacts, MarksKept DEF Core
  <2>4. CASE phase' = "bytes"
    <3>1. reader.state = "between" => b \in {"open", "space"}
      BY <1>1, <1>4, <1>6, <1>8, <2>4
    <3>2. \/ rows' = rows /\ (b # "space" => scan.content)
          \/ rows' = Append(rows, at) /\ b # "space" /\ ~scan.content
      BY <1>4, <1>5, <1>6, <3>1
    <3>3. Core'
      BY <1>5, <2>1, <3>2, StepFacts, InLineKeeps
    <3>4. NdjsonInv'
      BY <1>4, <1>5, <2>2, <3>1 DEF NdjsonInv, JsonState
    <3> QED  BY <3>3, <3>4 DEF Core
  <2>5. phase = "bytes" /\ phase' \in {"bytes", "error"}
    BY <1>4, StepFacts
  <2> QED  BY <2>3, <2>4, <2>5
<1> QED  BY <1>7, <1>8
-----------------------------------------------------------------------------
LEMMA EndStep ==
  ASSUME TypeOK, Core, EndOfText
  PROVE  Marks' /\ GroupsCover'
<1> USE ScanType
<1> DEFINE count == scan.count + (IF scan.content /\ scan.header THEN 1 ELSE 0)
           group == [first |-> scan.first, count |-> count, byte |-> BlockStart]
<1>1. /\ scan.start <= at
      /\ Len(rows) = Counted + (IF Open THEN 1 ELSE 0)
      /\ scan.header => Splits(scan.start, Counted)
      /\ ~scan.header => Counted = 0 /\ groups = <<>>
      /\ scan.count < stride /\ scan.first = GroupsEnd
      /\ scan.count = 0 => scan.block = NoBlock
      /\ scan.count > 0 => /\ scan.block \in Nat /\ scan.block <= scan.start
                           /\ Splits(scan.block, scan.first)
      /\ Marks /\ Tiles /\ FullGroups
  BY DEF Core, LineInv, BlockInv
<1>2. count \in Nat /\ Len(rows) = scan.first + count /\ count <= stride
  <2>1. CASE Open
    <3>1. count = scan.count + 1 /\ Len(rows) = scan.first + scan.count + 1
      BY <1>1, <2>1 DEF Counted, Open
    <3>2. scan.count + 1 <= stride /\ scan.count + 1 \in Nat
      BY <1>1
    <3>3. scan.first + scan.count + 1 = scan.first + (scan.count + 1)
      OBVIOUS
    <3> HIDE DEF count
    <3> QED  BY <3>1, <3>2, <3>3
  <2>2. CASE ~Open
    <3>1. count = scan.count /\ Len(rows) = scan.first + scan.count
      BY <1>1, <2>2 DEF Counted, Open
    <3> QED  BY <1>1, <3>1
  <2> QED  BY <2>1, <2>2
<1>3. gaps' = gaps /\ rows' = rows /\ stride' = stride
  BY DEF EndOfText
<1>4. CASE groups' = groups /\ (count = 0 \/ phase' # "end")
  <2>1. Marks'
    BY <1>3, <1>4, MarksKept, <1>1
  <2>2. GroupsCover'
    <3>1. CASE phase' # "end"
      BY <3>1 DEF GroupsCover
    <3>2. CASE count = 0
      <4>1. ASSUME NEW i \in DOMAIN groups
            PROVE  /\ groups[i].first =
                        IF i = 1 THEN 0 ELSE groups[i - 1].first + groups[i - 1].count
                   /\ groups[i].count \in 1 .. stride /\ groups[i].count = stride
        <5>1. groups[i].first = IF i = 1 THEN 0 ELSE groups[i - 1].first + groups[i - 1].count
          BY <1>1, <4>1 DEF Tiles
        <5>2. groups[i].count = stride /\ stride \in 1 .. stride
          BY <1>1, <4>1 DEF FullGroups
        <5> QED  BY <5>1, <5>2
      <4>2. Len(rows) = IF groups = <<>>
                           THEN 0 ELSE groups[Len(groups)].first + groups[Len(groups)].count
        BY <1>1, <1>2, <3>2 DEF GroupsEnd
      <4> QED  BY <1>3, <1>4, <4>1, <4>2 DEF GroupsCover
    <3> QED  BY <1>4, <3>1, <3>2
  <2> QED  BY <2>1, <2>2
<1>5. CASE groups' = Append(groups, group) /\ count > 0
  <2>1. DOMAIN groups' = DOMAIN groups \cup {Len(groups) + 1} /\ Len(groups') = Len(groups) + 1
    BY <1>5
  <2>2. /\ \A i \in DOMAIN groups : groups'[i] = groups[i]
        /\ groups'[Len(groups) + 1] = group
    <3> HIDE DEF group
    <3> QED  BY <1>5
  <2>3. Splits(BlockStart, scan.first)
    <3>1. CASE scan.count = 0
      <4>1. BlockStart = scan.start /\ Counted = scan.first /\ scan.header
        BY <1>1, <1>5, <3>1 DEF BlockStart, Counted
      <4> QED  BY <1>1, <4>1
    <3>2. CASE scan.count > 0
      <4>1. BlockStart = scan.block
        BY <1>1, <3>2 DEF BlockStart, NoBlock
      <4> QED  BY <1>1, <3>2, <4>1
    <3> QED  BY <3>1, <3>2
  <2>4. Marks'
    <3>1. \A i \in DOMAIN groups' : Splits(groups'[i].byte, groups'[i].first)
      BY <1>1, <2>1, <2>2, <2>3 DEF Marks
    <3> QED  BY <1>3, <3>1 DEF Marks, Splits
  <2>5. ASSUME NEW i \in DOMAIN groups'
        PROVE  /\ groups'[i].first =
                    IF i = 1 THEN 0 ELSE groups'[i - 1].first + groups'[i - 1].count
               /\ groups'[i].count \in 1 .. stride
               /\ i < Len(groups') => groups'[i].count = stride
    <3>1. CASE i \in DOMAIN groups
      <4>1. i = 1 \/ i - 1 \in DOMAIN groups
        BY <3>1
      <4>2. groups[i].first = (IF i = 1 THEN 0 ELSE groups[i - 1].first + groups[i - 1].count)
            /\ groups[i].count = stride
        BY <1>1, <3>1 DEF Tiles, FullGroups
      <4> QED  BY <2>2, <3>1, <4>1, <4>2
    <3>2. CASE i = Len(groups) + 1
      <4>1. groups'[i] = group /\ group.first = scan.first /\ group.count = count
        BY <2>2, <3>2
      <4>2. CASE groups = <<>>
        BY <1>1, <1>2, <1>5, <2>1, <3>2, <4>1, <4>2 DEF GroupsEnd
      <4>3. CASE groups # <<>>
        <5>1. Len(groups) \in DOMAIN groups /\ i # 1 /\ i - 1 = Len(groups)
          BY <3>2, <4>3
        <5>2. groups'[i - 1] = groups[Len(groups)]
          BY <2>2, <5>1
        <5>3. scan.first = groups[Len(groups)].first + groups[Len(groups)].count
          BY <1>1, <4>3 DEF GroupsEnd
        <5> QED  BY <1>2, <1>5, <2>1, <3>2, <4>1, <5>1, <5>2, <5>3
      <4> QED  BY <4>2, <4>3
    <3> QED  BY <2>1, <3>1, <3>2
  <2>6. /\ groups' # <<>> /\ groups'[Len(groups')] = group
        /\ Len(rows') = group.first + group.count
    BY <1>2, <1>3, <2>1, <2>2
  <2>7. Len(rows') = IF groups' = <<>>
                       THEN 0 ELSE groups'[Len(groups')].first + groups'[Len(groups')].count
    BY <2>6
  <2>8. GroupsCover'
    BY <1>3, <2>5, <2>7 DEF GroupsCover
  <2> QED  BY <2>4, <2>8
<1>6. \/ groups' = groups /\ (count = 0 \/ phase' # "end")
      \/ groups' = Append(groups, group) /\ count > 0
  <2>1. CASE phase' = "error" /\ groups' = groups
    BY <2>1
  <2>2. CASE phase' = "end" /\ groups' = groups \o LastBlock
    <3>1. CASE count = 0
      <4>1. LastBlock = <<>>
        BY <3>1 DEF LastBlock
      <4> QED  BY <2>2, <3>1, <4>1
    <3>2. CASE count > 0
      <4>1. LastBlock = <<group>>
        BY <1>2, <3>2 DEF LastBlock
      <4>2. groups \o <<group>> = Append(groups, group)
        <5> HIDE DEF group
        <5> QED  OBVIOUS
      <4> QED  BY <2>2, <3>2, <4>1, <4>2
    <3> QED  BY <1>2, <3>1, <3>2
  <2> QED  BY <2>1, <2>2 DEF EndOfText
<1> QED  BY <1>4, <1>5, <1>6
-----------------------------------------------------------------------------
LEMMA InitInv == Init => TextInv
<1> SUFFICES ASSUME Init PROVE TextInv
  OBVIOUS
<1>1. TypeOK
  BY InitType
<1>2. /\ scan.quoted = FALSE /\ scan.pending = FALSE /\ scan.content = FALSE
      /\ scan.header = (kind = "ndjson") /\ scan.start = 0 /\ scan.block = NoBlock
      /\ scan.first = 0 /\ scan.count = 0 /\ at = 0
      /\ reader.state = "between" /\ reader.header = (kind = "ndjson")
      /\ groups = <<>> /\ rows = <<>> /\ phase = "bytes"
      /\ kind = "ndjson" => gaps = {0}
  BY DEF Init
<1>3. Marks /\ Tiles /\ FullGroups
  BY <1>2 DEF Marks, Tiles, FullGroups
<1>4. LineInv /\ BlockInv
  BY <1>2, ScanType, <1>1 DEF LineInv, BlockInv, Counted, Open, GroupsEnd, Splits
<1>5. kind = "delimited" => DelimitedInv
  BY <1>2 DEF DelimitedInv, Resting
<1>6. kind = "ndjson" => NdjsonInv
  BY <1>2 DEF NdjsonInv
<1>7. GroupsCover
  BY <1>2 DEF GroupsCover
<1> QED  BY <1>1, <1>3, <1>4, <1>5, <1>6, <1>7 DEF TextInv, Core

LEMMA NextInv == TextInv /\ [Next]_textVars => TextInv'
<1> SUFFICES ASSUME TextInv, [Next]_textVars PROVE TextInv'
  OBVIOUS
<1>1. TypeOK /\ TypeOK'
  BY NextType DEF TextInv
<1>2. ASSUME NEW b \in Alphabet[kind], NextByte(b)
      PROVE  TextInv'
  <2>1. phase = "bytes" /\ kind' = kind
    BY <1>2, StepFacts
  <2>2. kind \in {"delimited", "ndjson"}
    BY <1>1, KindsAssumption DEF TypeOK
  <2>3. /\ tidy' => tidy
        /\ phase' # "end"
    <3>1. CASE kind = "delimited"
      BY <1>2, <2>1, <3>1 DEF NextByte, ReadDelimited
    <3>2. CASE kind = "ndjson"
      BY <1>2, <2>1, <3>2 DEF NextByte, ReadNdjson
    <3> QED  BY <2>2, <3>1, <3>2
  <2>4. GroupsCover'
    BY <2>3 DEF GroupsCover
  <2>5. ASSUME tidy'
        PROVE  /\ Marks'
               /\ phase' = "bytes" => /\ Core'
                                      /\ kind = "delimited" => DelimitedInv'
                                      /\ kind = "ndjson" => NdjsonInv'
    <3>1. /\ Core
          /\ kind = "delimited" => DelimitedInv
          /\ kind = "ndjson" => NdjsonInv
      BY <2>1, <2>3, <2>5 DEF TextInv
    <3>2. CASE kind = "delimited"
      <4>1. Core' /\ DelimitedInv'
        BY <1>1, <1>2, <2>5, <3>1, <3>2, DelimitedStep
      <4> QED  BY <3>2, <4>1 DEF Core
    <3>3. CASE kind = "ndjson"
      <4>1. Marks' /\ (phase' = "bytes" => Core' /\ NdjsonInv')
        BY <1>1, <1>2, <2>5, <3>1, <3>3, NdjsonStep
      <4> QED  BY <3>3, <4>1
    <3> QED  BY <2>2, <3>2, <3>3
  <2>6. tidy' /\ phase' = "bytes" =>
          /\ Core'
          /\ kind' = "delimited" => DelimitedInv'
          /\ kind' = "ndjson" => NdjsonInv'
    BY <2>1, <2>5
  <2>7. tidy' => Marks'
    BY <2>5
  <2> QED  BY <1>1, <2>4, <2>6, <2>7 DEF TextInv
<1>3. CASE EndOfText
  <2>1. phase = "bytes" /\ phase' # "bytes" /\ tidy' = tidy /\ kind' = kind
    BY <1>3 DEF EndOfText
  <2>2. ASSUME tidy
        PROVE  Marks' /\ GroupsCover'
    BY <1>1, <1>3, <2>1, <2>2, EndStep DEF TextInv
  <2>3. ~tidy => GroupsCover'
    BY <2>1 DEF GroupsCover
  <2> QED  BY <1>1, <2>1, <2>2, <2>3 DEF TextInv
<1>4. CASE UNCHANGED textVars
  <2> USE <1>4 DEF textVars
  <2>1. Marks' = Marks
    BY DEF Marks, Splits
  <2>2. LineInv' = LineInv /\ BlockInv' = BlockInv
    BY DEF LineInv, BlockInv, Splits, Counted, Open, GroupsEnd
  <2>3. Tiles' = Tiles /\ FullGroups' = FullGroups
    BY DEF Tiles, FullGroups, Counted
  <2>4. DelimitedInv' = DelimitedInv /\ NdjsonInv' = NdjsonInv
    BY DEF DelimitedInv, NdjsonInv
  <2>5. Core' = Core
    BY <2>1, <2>2, <2>3 DEF Core
  <2>6. GroupsCover' = GroupsCover
    BY DEF GroupsCover
  <2> QED  BY <1>1, <2>1, <2>4, <2>5, <2>6 DEF TextInv
<1> QED  BY <1>2, <1>3, <1>4 DEF Next

LEMMA TextInvAlways == Spec => []TextInv
BY InitInv, NextInv, PTL DEF Spec

\* In a file of any length that keeps to its format, for every stride, the
\* checkpoint of a row group is a byte at which the reader is between two rows
\* and has read exactly the rows before the group (inspect.rs:128-181,
\* 368-462).
THEOREM CheckpointsAreRight == Spec => []CheckpointsRight
<1>1. TextInv => CheckpointsRight
  BY DEF TextInv, CheckpointsRight, Marks, Splits
<1> QED  BY <1>1, TextInvAlways, PTL

\* In such a file the groups hold every row of the reader once, in order, and
\* all but the last are full (inspect.rs:164-181, 445-462).
THEOREM GroupsHoldRows == Spec => []GroupsCover
<1>1. TextInv => GroupsCover
  BY DEF TextInv
<1> QED  BY <1>1, TextInvAlways, PTL

\* Inspector and reader of a file of any length that keeps to its format agree on
\* its rows and on where they begin (inspect.rs:128-181, 368-462).
THEOREM TextBlocksAreRight == Spec => []TextBlocksRight
  BY CheckpointsAreRight, GroupsHoldRows, PTL DEF TextBlocksRight

-----------------------------------------------------------------------------
(* FormatRegistry. *)

\* What a job knows while the registry is as it was when it began.
JobInv ==
  /\ job.since <= changes
  /\ job.pc \in {"override", "scan"} => job.handler \in Handlers
  /\ job.since = changes =>
       /\ job.pc = "sniff" => ~file.native
       /\ job.pc \in {"override", "scan"} /\ file.native /\ dynamic["own"] = NoHandler =>
            job.handler = Native
       /\ job.pc = "scan" /\ dynamic["own"] # NoHandler => job.overridden

EntryInv == QuietInspectionRight /\ (entry.located => entry.mapped)

\* What a slice may take for granted about the handlers registered since it began.
CallInv(call) ==
  /\ call.pc \in {"asked", "map", "resolve", "sniff"} =>
       \A x \in Extensions : handler_for(x) \in call.seen[x]
  /\ call.pc = "map" => Native \in call.seen["own"]
  /\ call.pc = "sniff" => NoHandler \in call.seen["own"]

RegistryInv ==
  /\ RegistryTypeOK
  /\ JobInv
  /\ EntryInv
  /\ \A s \in Slices : CallInv(slice[s])
-----------------------------------------------------------------------------
(* Types. *)

LEMMA HandlerInType ==
  ASSUME RegistryTypeOK, NEW registry \in [Extensions -> Plugins \cup {NoHandler}],
         NEW x \in Extensions
  PROVE  HandlerIn(registry, x) \in Answerers
BY DEF RegistryTypeOK, SourceFile, HandlerIn, BuiltIn, Answerers, Handlers, Native, Sniffed, Extensions

LEMMA HandlerForType ==
  ASSUME RegistryTypeOK, NEW x \in Extensions
  PROVE  handler_for(x) \in Answerers
BY HandlerInType DEF RegistryTypeOK, handler_for

LEMMA RowsType ==
  ASSUME RegistryTypeOK, NEW h \in Handlers
  PROVE  file.rows[h] \in 0 .. MaxRows
BY DEF RegistryTypeOK, SourceFile

LEMMA SeenType ==
  ASSUME NEW call \in Call, NEW x \in Extensions, NEW h \in Answerers
  PROVE  Seen(call, x, h) \in Call
<1> DEFINE seen == [call.seen EXCEPT ![x] = call.seen[x] \cup {h}]
<1>1. seen \in [Extensions -> SUBSET Answerers]
  BY DEF Call
<1> HIDE DEF seen
<1>2. [call EXCEPT !.seen = seen] \in Call
  BY <1>1 DEF Call
<1> QED  BY <1>2 DEF Seen, seen

LEMMA ChangeType ==
  ASSUME RegistryTypeOK, NEW x \in Extensions, NEW h \in Plugins \cup {NoHandler}, Change(x, h)
  PROVE  RegistryTypeOK'
<1>1. dynamic' \in [Extensions -> Plugins \cup {NoHandler}]
  BY DEF RegistryTypeOK, Change
<1>2. changes' \in 0 .. MaxChanges
  BY RegistryAssumption DEF RegistryTypeOK, Change
<1>3. HandlerIn(dynamic', x) \in Answerers
  BY <1>1, HandlerInType
<1>4. \A s \in Slices : Seen(slice[s], x, HandlerIn(dynamic', x)) \in Call
  BY <1>3, SeenType DEF RegistryTypeOK
<1>5. slice' \in [Slices -> Call]
  BY <1>4 DEF RegistryTypeOK, Change
<1> QED  BY <1>1, <1>2, <1>5 DEF RegistryTypeOK, Change

LEMMA AnswerType ==
  ASSUME RegistryTypeOK, NEW s \in Slices, NEW h \in Handlers, NEW n \in 0 .. MaxRows,
         Answer(s, h, n)
  PROVE  slice' \in [Slices -> Call]
<1>1. slice[s] \in Call /\ slice[s].offset \in Nat /\ slice[s].limit \in 0 .. MaxRows
  BY RegistryAssumption DEF RegistryTypeOK, Call
<1> DEFINE left  == IF slice[s].offset < n THEN n - slice[s].offset ELSE 0
           count == IF slice[s].limit < left THEN slice[s].limit ELSE left
<1>2. count \in 0 .. MaxRows
  BY <1>1, RegistryAssumption
<1>3. h \in Answerers
  BY DEF Answerers
<1> HIDE DEF count
<1>4. [slice[s] EXCEPT !.pc = "done", !.by = h, !.count = count] \in Call
  BY <1>1, <1>2, <1>3 DEF Call
<1>5. slice' = [slice EXCEPT ![s] = [slice[s] EXCEPT !.pc = "done", !.by = h, !.count = count]]
  BY DEF Answer, count, RegistryTypeOK
<1> QED  BY <1>4, <1>5 DEF RegistryTypeOK

LEMMA GotoType ==
  ASSUME RegistryTypeOK, NEW s \in Slices,
         NEW p \in {"idle", "asked", "map", "resolve", "sniff", "done", "error"}
  PROVE  [slice EXCEPT ![s].pc = p] \in [Slices -> Call]
BY DEF RegistryTypeOK, Call

LEMMA RequestType ==
  ASSUME RegistryTypeOK, NEW s \in Slices, NEW o \in 0 .. MaxRows, NEW l \in 0 .. MaxRows,
         Request(s, o, l)
  PROVE  RegistryTypeOK'
<1> DEFINE asked == [x \in Extensions |-> {handler_for(x)}]
<1>1. asked \in [Extensions -> SUBSET Answerers]
  BY HandlerForType
<1> HIDE DEF asked
<1>2. slice' = [slice EXCEPT ![s] = [slice[s] EXCEPT !.pc = "asked", !.offset = o, !.limit = l,
                                                     !.seen = asked]]
  BY DEF Request, asked, RegistryTypeOK
<1>3. slice' \in [Slices -> Call]
  BY <1>1, <1>2 DEF RegistryTypeOK, Call
<1> QED  BY <1>3 DEF RegistryTypeOK, Request

LEMMA ReadAnswerType ==
  ASSUME RegistryTypeOK, NEW s \in Slices, NEW x \in Extensions,
         handler_for(x) # NoHandler, Read(s, handler_for(x))
  PROVE  slice' \in [Slices -> Call]
<1>1. handler_for(x) \in Handlers
  BY HandlerForType DEF Answerers
<1> QED  BY <1>1, RowsType, AnswerType DEF Read

LEMMA SlicingType ==
  ASSUME RegistryTypeOK, NEW s \in Slices, Slicing(s)
  PROVE  RegistryTypeOK'
<1>1. CASE \E o, l \in 0 .. MaxRows : Request(s, o, l)
  BY <1>1, RequestType
<1>2. CASE AskDynamic(s)
  BY <1>2, GotoType DEF AskDynamic, RegistryTypeOK
<1>3. CASE ReadMapped(s)
  <2>1. Native \in Handlers /\ file.rows[Native] \in 0 .. MaxRows /\ 0 \in 0 .. MaxRows
    BY RowsType, RegistryAssumption DEF Handlers
  <2>2. slice' \in [Slices -> Call]
    BY <1>3, <2>1, AnswerType, GotoType DEF ReadMapped
  <2>3. trusted' \in BOOLEAN
    BY <1>3 DEF ReadMapped
  <2> QED  BY <1>3, <2>2, <2>3 DEF ReadMapped, RegistryTypeOK
<1>4. CASE ReadUnmapped(s)
  BY <1>4, GotoType DEF ReadUnmapped, RegistryTypeOK
<1>5. CASE ResolveByExtension(s)
  <2>1. slice' \in [Slices -> Call]
    BY <1>5, ReadAnswerType, GotoType DEF ResolveByExtension, Extensions
  <2> QED  BY <1>5, <2>1 DEF ResolveByExtension, RegistryTypeOK
<1>6. CASE ResolveByBytes(s)
  <2>1. slice' \in [Slices -> Call]
    BY <1>6, ReadAnswerType, GotoType DEF ResolveByBytes, Extensions
  <2> QED  BY <1>6, <2>1 DEF ResolveByBytes, RegistryTypeOK
<1> QED  BY <1>1, <1>2, <1>3, <1>4, <1>5, <1>6 DEF Slicing

LEMMA InspectionType ==
  ASSUME RegistryTypeOK, JobInv, Inspection
  PROVE  RegistryTypeOK'
<1>1. handler_for("own") \in Answerers /\ handler_for("magic") \in Answerers
  BY HandlerForType DEF Extensions
<1>2. NoHandler \in Answerers /\ 0 \in 0 .. MaxRows
  BY RegistryAssumption DEF Answerers
<1>3. CASE Discover
  <2>1. [job EXCEPT !.pc = "resolve", !.since = changes] \in JobState /\ NoEntry \in MapEntry
    BY <1>2 DEF RegistryTypeOK, JobState, MapEntry, NoEntry
  <2> QED  BY <1>3, <2>1 DEF Discover, RegistryTypeOK
<1>4. CASE JobResolves
  BY <1>1, <1>4 DEF JobResolves, RegistryTypeOK, JobState
<1>5. CASE JobSniffs
  BY <1>1, <1>5 DEF JobSniffs, RegistryTypeOK, JobState
<1>6. CASE JobAsks
  BY <1>6 DEF JobAsks, RegistryTypeOK, JobState, is_dynamic_format
<1>7. CASE JobPublishes
  <2>1. file.rows[job.handler] \in 0 .. MaxRows /\ job.handler \in Answerers
    BY <1>7, RowsType DEF JobPublishes, JobInv, Answerers
  <2>2. (job.since = changes) \in BOOLEAN
    OBVIOUS
  <2>3. (file.native /\ ~job.overridden /\ file.rows[Native] > 0) \in BOOLEAN
    OBVIOUS
  <2>4. entry' \in MapEntry
    BY <1>7, <2>1, <2>2, <2>3 DEF JobPublishes, MapEntry
  <2>5. job' \in JobState
    BY <1>2, <1>7 DEF JobPublishes, RegistryTypeOK, JobState
  <2> QED  BY <1>7, <2>4, <2>5 DEF JobPublishes, RegistryTypeOK
<1> QED  BY <1>3, <1>4, <1>5, <1>6, <1>7 DEF Inspection

-----------------------------------------------------------------------------
(* The inspection. *)

LEMMA ChangeJob ==
  ASSUME RegistryInv, NEW x \in Extensions, NEW h \in Plugins \cup {NoHandler}, Change(x, h)
  PROVE  JobInv'
BY DEF RegistryInv, RegistryTypeOK, JobInv, Change, JobState

LEMMA SlicingJob ==
  ASSUME RegistryInv, NEW s \in Slices, Slicing(s)
  PROVE  JobInv' /\ EntryInv'
<1>1. UNCHANGED <<file, dynamic, changes, job, entry>>
  BY DEF Slicing, Request, AskDynamic, ReadMapped, ReadUnmapped, ResolveByExtension, ResolveByBytes
<1> QED  BY <1>1 DEF RegistryInv, JobInv, EntryInv, QuietInspectionRight

LEMMA BuiltInOwn ==
  ASSUME RegistryTypeOK
  PROVE  /\ file.native => handler_for("own") # NoHandler
         /\ file.native /\ dynamic["own"] = NoHandler => handler_for("own") = Native
BY RegistryAssumption DEF handler_for, HandlerIn, BuiltIn, Handlers

LEMMA InspectionJob ==
  ASSUME RegistryInv, Inspection
  PROVE  JobInv'
<1> USE DEF RegistryInv
<1>1. job \in JobState /\ changes \in Nat
  BY RegistryAssumption DEF RegistryTypeOK
<1>2. handler_for("own") \in Answerers /\ handler_for("magic") \in Answerers
  BY HandlerForType DEF Extensions
<1>3. CASE Discover
  <2>1. job' = [job EXCEPT !.pc = "resolve", !.since = changes] \/ UNCHANGED job
    BY <1>3 DEF Discover
  <2>2. UNCHANGED <<file, dynamic, changes>>
    BY <1>3 DEF Discover
  <2>3. CASE UNCHANGED job
    BY <2>2, <2>3 DEF JobInv
  <2>4. CASE job' = [job EXCEPT !.pc = "resolve", !.since = changes]
    <3>1. job'.pc = "resolve" /\ job'.since = changes'
      BY <1>1, <2>2, <2>4 DEF JobState
    <3> QED  BY <1>1, <2>2, <3>1 DEF JobInv
  <2> QED  BY <2>1, <2>3, <2>4
<1>4. CASE JobResolves
  <2>1. UNCHANGED <<file, dynamic, changes>>
    BY <1>4 DEF JobResolves
  <2>2. CASE handler_for("own") # NoHandler
    <3>1. job' = [job EXCEPT !.pc = "override", !.handler = handler_for("own")]
      BY <1>4, <2>2 DEF JobResolves
    <3>2. file.native /\ dynamic["own"] = NoHandler => handler_for("own") = Native
      BY BuiltInOwn
    <3> QED  BY <1>1, <1>2, <2>1, <2>2, <3>1, <3>2 DEF JobInv, JobState, Answerers
  <2>3. CASE handler_for("own") = NoHandler
    <3>1. job' = [job EXCEPT !.pc = "sniff"] /\ ~file.native
      BY <1>4, <2>3, BuiltInOwn DEF JobResolves
    <3> QED  BY <1>1, <2>1, <3>1 DEF JobInv, JobState
  <2> QED  BY <2>2, <2>3
<1>5. CASE JobSniffs
  <2>1. \/ /\ job' = [job EXCEPT !.pc = "override", !.handler = handler_for("magic")]
           /\ handler_for("magic") # NoHandler
        \/ job' = [job EXCEPT !.pc = "idle"]
    BY <1>5 DEF JobSniffs
  <2>2. job.pc = "sniff" /\ UNCHANGED <<file, dynamic, changes>>
    BY <1>5 DEF JobSniffs
  <2>3. job.since = changes => ~file.native
    BY <2>2 DEF JobInv
  <2> QED  BY <1>1, <1>2, <2>1, <2>2, <2>3 DEF JobInv, JobState, Answerers
<1>6. CASE JobAsks
  BY <1>1, <1>6 DEF JobAsks, JobInv, JobState, is_dynamic_format
<1>7. CASE JobPublishes
  BY <1>1, <1>7 DEF JobPublishes, JobInv, JobState
<1> QED  BY <1>3, <1>4, <1>5, <1>6, <1>7 DEF Inspection

LEMMA InspectionEntry ==
  ASSUME RegistryInv, Inspection
  PROVE  EntryInv'
<1> USE DEF RegistryInv
<1>1. CASE Discover
  BY <1>1 DEF Discover, EntryInv, QuietInspectionRight, NoEntry
<1>2. CASE JobResolves \/ JobSniffs \/ JobAsks
  BY <1>2 DEF JobResolves, JobSniffs, JobAsks, EntryInv, QuietInspectionRight
<1>3. CASE JobPublishes
  <2>1. entry'.mapped /\ file' = file /\ entry'.by = job.handler
        /\ entry'.total = file.rows[job.handler]
    BY <1>3 DEF JobPublishes
  <2>2. entry'.quiet /\ entry'.located => job.handler = Native
    BY <1>3 DEF JobPublishes, JobInv
  <2> QED  BY <2>1, <2>2 DEF EntryInv, QuietInspectionRight
<1> QED  BY <1>1, <1>2, <1>3 DEF Inspection
-----------------------------------------------------------------------------
(* The slices. *)

\* The rows of a range are as many as there are up to the total.
LEMMA RangeCount ==
  ASSUME NEW offset \in Nat, NEW limit \in Nat, NEW total \in Nat
  PROVE  Cardinality({k \in offset + 1 .. offset + limit : k <= total}) =
           LET left == IF offset < total THEN total - offset ELSE 0
           IN  IF limit < left THEN limit ELSE left
<1> DEFINE last == IF offset + limit <= total THEN offset + limit ELSE total
<1>1. {k \in offset + 1 .. offset + limit : k <= total} = (offset + 1) .. last
  OBVIOUS
<1>2. Cardinality((offset + 1) .. last) = IF offset + 1 > last THEN 0 ELSE last - (offset + 1) + 1
  BY FS_Interval
<1>3. (IF offset + 1 > last THEN 0 ELSE last - (offset + 1) + 1) =
         (LET left == IF offset < total THEN total - offset ELSE 0
          IN  IF limit < left THEN limit ELSE left)
  OBVIOUS
<1> HIDE DEF last
<1> QED  BY <1>1, <1>2, <1>3

\* What SliceServed says of one call.
Served(call) ==
  /\ call.pc = "done" =>
       /\ call.by \in Handlers
       /\ \/ call.by \in call.seen["own"]
          \/ NoHandler \in call.seen["own"] /\ call.by \in call.seen["magic"]
       /\ call.count = Cardinality({k \in call.offset + 1 .. call.offset + call.limit :
                                     k <= file.rows[call.by]})
  /\ call.pc = "error" => \A x \in Extensions : NoHandler \in call.seen[x]

ServedInv == trusted => \A s \in Slices : Served(slice[s])

Labels == {"idle", "asked", "map", "resolve", "sniff", "done", "error"}

LEMMA GotoFields ==
  ASSUME RegistryTypeOK, NEW s \in Slices, NEW p \in Labels, slice' = [slice EXCEPT ![s].pc = p]
  PROVE  /\ slice'[s].pc = p /\ slice'[s].seen = slice[s].seen
         /\ \A r \in Slices \ {s} : slice'[r] = slice[r]
BY DEF RegistryTypeOK, Call

LEMMA AnswerFields ==
  ASSUME RegistryTypeOK, NEW s \in Slices, NEW h \in Handlers, NEW n \in 0 .. MaxRows,
         Answer(s, h, n)
  PROVE  /\ slice'[s].pc = "done" /\ slice'[s].by = h /\ slice'[s].seen = slice[s].seen
         /\ slice'[s].offset = slice[s].offset /\ slice'[s].limit = slice[s].limit
         /\ slice'[s].count = Cardinality({k \in slice[s].offset + 1 ..
                                                 slice[s].offset + slice[s].limit : k <= n})
         /\ \A r \in Slices \ {s} : slice'[r] = slice[r]
<1>1. slice[s].offset \in Nat /\ slice[s].limit \in Nat /\ n \in Nat
  BY RegistryAssumption DEF RegistryTypeOK, Call
<1> DEFINE left  == IF slice[s].offset < n THEN n - slice[s].offset ELSE 0
           count == IF slice[s].limit < left THEN slice[s].limit ELSE left
<1>2. count = Cardinality({k \in slice[s].offset + 1 .. slice[s].offset + slice[s].limit : k <= n})
  BY <1>1, RangeCount
<1> HIDE DEF count
<1>3. slice' = [slice EXCEPT ![s] = [slice[s] EXCEPT !.pc = "done", !.by = h, !.count = count]]
  BY DEF Answer, count, RegistryTypeOK
<1>4. slice[s] \in Call /\ slice \in [Slices -> Call]
  BY DEF RegistryTypeOK
<1> QED  BY <1>2, <1>3, <1>4 DEF Call

LEMMA ChangeCalls ==
  ASSUME RegistryInv, ServedInv, NEW x \in Extensions, NEW h \in Plugins \cup {NoHandler},
         Change(x, h)
  PROVE  (\A s \in Slices : CallInv(slice[s]))' /\ ServedInv'
<1> USE DEF RegistryInv
<1>1. /\ UNCHANGED <<file, trusted>>
      /\ \A y \in Extensions \ {x} : dynamic'[y] = dynamic[y]
  BY DEF Change, RegistryTypeOK
<1>2. /\ \A y \in Extensions \ {x} : handler_for(y)' = handler_for(y)
      /\ handler_for(x)' = HandlerIn(dynamic', x)
  BY <1>1 DEF handler_for, HandlerIn, BuiltIn
<1>3. ASSUME NEW s \in Slices
      PROVE  CallInv(slice[s])' /\ (trusted => Served(slice[s])')
  <2>1. slice[s] \in Call
    BY DEF RegistryTypeOK
  <2>2. CASE slice[s].pc \in {"idle", "done", "error"}
    <3>1. slice'[s] = slice[s]
      BY <2>2 DEF Change
    <3> QED  BY <1>1, <2>2, <3>1 DEF CallInv, Served, ServedInv
  <2>3. CASE slice[s].pc \notin {"idle", "done", "error"}
    <3>1. slice'[s] = Seen(slice[s], x, handler_for(x)')
      BY <1>2, <2>3 DEF Change
    <3>2. /\ slice'[s].pc = slice[s].pc
          /\ handler_for(x)' \in slice'[s].seen[x]
          /\ \A y \in Extensions : slice[s].seen[y] \subseteq slice'[s].seen[y]
      BY <2>1, <3>1 DEF Seen, Call
    <3>3. CallInv(slice[s]) /\ "own" \in Extensions
      BY DEF Extensions
    <3> QED  BY <1>2, <2>3, <3>2, <3>3 DEF CallInv, Served
  <2> QED  BY <2>2, <2>3
<1> QED  BY <1>1, <1>3 DEF ServedInv

LEMMA InspectionCalls ==
  ASSUME RegistryInv, ServedInv, Inspection
  PROVE  (\A s \in Slices : CallInv(slice[s]))' /\ ServedInv'
<1>1. UNCHANGED <<file, dynamic, slice, trusted>>
  BY DEF Inspection, Discover, JobResolves, JobSniffs, JobAsks, JobPublishes
<1> QED  BY <1>1 DEF RegistryInv, CallInv, ServedInv, Served, handler_for, HandlerIn, BuiltIn

\* What a call learns when it moves on without an answer.
LEMMA GotoCall ==
  ASSUME RegistryInv, ServedInv, NEW s \in Slices, NEW p \in {"map", "resolve", "sniff"},
         slice' = [slice EXCEPT ![s].pc = p],
         slice[s].pc \in {"asked", "map", "resolve", "sniff"},
         UNCHANGED <<file, dynamic>>, trusted' => trusted,
         p = "map" => Native \in slice[s].seen["own"],
         p = "sniff" => NoHandler \in slice[s].seen["own"]
  PROVE  (\A r \in Slices : CallInv(slice[r]))' /\ ServedInv'
<1> USE DEF RegistryInv
<1>1. /\ slice'[s].pc = p /\ slice'[s].seen = slice[s].seen
      /\ \A r \in Slices \ {s} : slice'[r] = slice[r]
  BY GotoFields DEF Labels
<1>2. \A x \in Extensions : handler_for(x)' = handler_for(x)
  BY DEF handler_for, HandlerIn, BuiltIn
<1>3. CallInv(slice[s])' /\ Served(slice[s])'
  BY <1>1, <1>2 DEF CallInv, Served
<1>4. ASSUME NEW r \in Slices \ {s}
      PROVE  CallInv(slice[r])' /\ (trusted => Served(slice[r])')
  BY <1>1, <1>2, <1>4 DEF CallInv, Served, ServedInv
<1> QED  BY <1>3, <1>4 DEF ServedInv

\* A handler that was registered in the course of the call answers it.
LEMMA AnswerCall ==
  ASSUME RegistryInv, ServedInv, NEW s \in Slices, NEW h \in Handlers, NEW n \in 0 .. MaxRows,
         Answer(s, h, n), UNCHANGED <<file, dynamic>>, trusted' => trusted,
         \/ h \in slice[s].seen["own"]
         \/ NoHandler \in slice[s].seen["own"] /\ h \in slice[s].seen["magic"],
         trusted' => {k \in slice[s].offset + 1 .. slice[s].offset + slice[s].limit : k <= n} =
                     {k \in slice[s].offset + 1 .. slice[s].offset + slice[s].limit :
                        k <= file.rows[h]}
  PROVE  (\A r \in Slices : CallInv(slice[r]))' /\ ServedInv'
<1> USE DEF RegistryInv
<1>1. /\ slice'[s].pc = "done" /\ slice'[s].by = h /\ slice'[s].seen = slice[s].seen
      /\ slice'[s].offset = slice[s].offset /\ slice'[s].limit = slice[s].limit
      /\ slice'[s].count = Cardinality({k \in slice[s].offset + 1 ..
                                              slice[s].offset + slice[s].limit : k <= n})
      /\ \A r \in Slices \ {s} : slice'[r] = slice[r]
  BY AnswerFields
<1>2. \A x \in Extensions : handler_for(x)' = handler_for(x)
  BY DEF handler_for, HandlerIn, BuiltIn
<1>3. CallInv(slice[s])' /\ (trusted' => Served(slice[s])')
  BY <1>1 DEF CallInv, Served
<1>4. ASSUME NEW r \in Slices \ {s}
      PROVE  CallInv(slice[r])' /\ (trusted => Served(slice[r])')
  BY <1>1, <1>2, <1>4 DEF CallInv, Served, ServedInv
<1> QED  BY <1>3, <1>4 DEF ServedInv

LEMMA ReadCall ==
  ASSUME RegistryInv, ServedInv, NEW s \in Slices, NEW x \in Extensions,
         handler_for(x) # NoHandler, Read(s, handler_for(x)), UNCHANGED <<file, dynamic, trusted>>,
         slice[s].pc \in {"resolve", "sniff"},
         x = "magic" => NoHandler \in slice[s].seen["own"]
  PROVE  (\A r \in Slices : CallInv(slice[r]))' /\ ServedInv'
<1> USE DEF RegistryInv
<1>1. handler_for(x) \in Handlers
  BY HandlerForType DEF Answerers
<1>2. handler_for(x) \in slice[s].seen[x]
  BY DEF CallInv
<1>3. file.rows[handler_for(x)] \in 0 .. MaxRows
  BY <1>1, RowsType
<1> QED  BY <1>1, <1>2, <1>3, AnswerCall DEF Read, Extensions

LEMMA SlicingCalls ==
  ASSUME RegistryInv, ServedInv, NEW s \in Slices, Slicing(s)
  PROVE  (\A r \in Slices : CallInv(slice[r]))' /\ ServedInv'
<1> USE DEF RegistryInv
<1>0. /\ slice[s] \in Call /\ CallInv(slice[s])
      /\ "own" \in Extensions /\ "magic" \in Extensions
  BY DEF RegistryTypeOK, Extensions
<1>1. ASSUME NEW o \in 0 .. MaxRows, NEW l \in 0 .. MaxRows, Request(s, o, l)
      PROVE  (\A r \in Slices : CallInv(slice[r]))' /\ ServedInv'
  <2> DEFINE asked == [x \in Extensions |-> {handler_for(x)}]
  <2>1. UNCHANGED <<file, dynamic, trusted>>
    BY <1>1 DEF Request
  <2>2. slice'[s].pc = "asked" /\ slice'[s].seen = asked
    BY <1>0, <1>1 DEF Request, Call, RegistryTypeOK
  <2>3. \A r \in Slices \ {s} : slice'[r] = slice[r]
    BY <1>1 DEF Request, RegistryTypeOK
  <2>4. \A x \in Extensions : handler_for(x)' = handler_for(x)
    BY <2>1 DEF handler_for, HandlerIn, BuiltIn
  <2>5. CallInv(slice[s])' /\ Served(slice[s])'
    BY <2>2, <2>4 DEF CallInv, Served
  <2>6. ASSUME NEW r \in Slices \ {s}
        PROVE  CallInv(slice[r])' /\ (trusted => Served(slice[r])')
    BY <2>1, <2>3, <2>4, <2>6 DEF CallInv, Served, ServedInv
  <2> QED  BY <2>1, <2>5, <2>6 DEF ServedInv
<1>2. CASE AskDynamic(s)
  <2>1. PICK p \in {"map", "resolve"} :
          /\ slice' = [slice EXCEPT ![s].pc = p]
          /\ p = "map" => dynamic["own"] = NoHandler /\ file.native
    BY <1>2 DEF AskDynamic, is_dynamic_format
  <2>2. p = "map" => Native \in slice[s].seen["own"]
    BY <1>0, <1>2, <2>1, BuiltInOwn DEF AskDynamic, At, CallInv
  <2>3. slice[s].pc = "asked" /\ UNCHANGED <<file, dynamic, trusted>>
    BY <1>2 DEF AskDynamic, At
  <2> QED  BY <2>1, <2>2, <2>3, GotoCall
<1>3. CASE ReadMapped(s)
  <2>1. /\ slice[s].pc = "map" /\ Native \in slice[s].seen["own"]
        /\ UNCHANGED <<file, dynamic>> /\ (trusted' => trusted)
    BY <1>0, <1>3 DEF ReadMapped, At, CallInv
  <2>2. trusted' => entry.total = file.rows[Native]
    BY <1>3 DEF ReadMapped, EntryInv, QuietInspectionRight
  <2>3. /\ Native \in Handlers /\ file.rows[Native] \in 0 .. MaxRows /\ 0 \in 0 .. MaxRows
        /\ slice[s].offset \in Nat /\ slice[s].limit \in Nat
    BY <1>0, RowsType, RegistryAssumption DEF Handlers, Call
  <2>4. CASE slice[s].offset >= entry.total
    <3>1. Answer(s, Native, 0)
      BY <1>3, <2>4 DEF ReadMapped
    <3>2. trusted' => {k \in slice[s].offset + 1 .. slice[s].offset + slice[s].limit : k <= 0} =
                      {k \in slice[s].offset + 1 .. slice[s].offset + slice[s].limit :
                         k <= file.rows[Native]}
      BY <2>2, <2>3, <2>4
    <3> QED  BY <2>1, <2>3, <3>1, <3>2, AnswerCall
  <2>5. CASE ~(slice[s].offset >= entry.total) /\ slice[s].offset < file.rows[Native]
    <3>1. Answer(s, Native, file.rows[Native])
      BY <1>3, <2>5 DEF ReadMapped
    <3> QED  BY <2>1, <2>3, <3>1, AnswerCall
  <2>6. CASE ~(slice[s].offset >= entry.total) /\ ~(slice[s].offset < file.rows[Native])
    <3>1. slice' = [slice EXCEPT ![s].pc = "resolve"]
      BY <1>3, <2>6 DEF ReadMapped
    <3> QED  BY <2>1, <3>1, GotoCall
  <2> QED  BY <2>4, <2>5, <2>6
<1>4. CASE ReadUnmapped(s)
  BY <1>4, GotoCall DEF ReadUnmapped, At
<1>5. CASE ResolveByExtension(s)
  <2>1. slice[s].pc = "resolve" /\ UNCHANGED <<file, dynamic, trusted>>
    BY <1>5 DEF ResolveByExtension, At
  <2>2. CASE handler_for("own") # NoHandler
    BY <1>0, <1>5, <2>1, <2>2, ReadCall DEF ResolveByExtension
  <2>3. CASE handler_for("own") = NoHandler
    <3>1. slice' = [slice EXCEPT ![s].pc = "sniff"]
      BY <1>5, <2>3 DEF ResolveByExtension
    <3>2. NoHandler \in slice[s].seen["own"]
      BY <1>0, <2>1, <2>3 DEF CallInv
    <3> QED  BY <2>1, <3>1, <3>2, GotoCall
  <2> QED  BY <2>2, <2>3
<1>6. CASE ResolveByBytes(s)
  <2>1. /\ slice[s].pc = "sniff" /\ UNCHANGED <<file, dynamic, trusted>>
        /\ NoHandler \in slice[s].seen["own"]
    BY <1>0, <1>6 DEF ResolveByBytes, At, CallInv
  <2>2. CASE handler_for("magic") # NoHandler
    BY <1>0, <1>6, <2>1, <2>2, ReadCall DEF ResolveByBytes
  <2>3. CASE handler_for("magic") = NoHandler
    <3>1. slice' = [slice EXCEPT ![s].pc = "error"]
      BY <1>6, <2>3 DEF ResolveByBytes
    <3>2. \A x \in Extensions : NoHandler \in slice[s].seen[x]
      BY <1>0, <2>1, <2>3 DEF CallInv, Extensions
    <3>3. /\ slice'[s].pc = "error" /\ slice'[s].seen = slice[s].seen
          /\ \A r \in Slices \ {s} : slice'[r] = slice[r]
      BY <3>1, GotoFields DEF Labels
    <3>4. \A x \in Extensions : handler_for(x)' = handler_for(x)
      BY <2>1 DEF handler_for, HandlerIn, BuiltIn
    <3>5. CallInv(slice[s])' /\ Served(slice[s])'
      BY <3>2, <3>3 DEF CallInv, Served
    <3>6. ASSUME NEW r \in Slices \ {s}
          PROVE  CallInv(slice[r])' /\ (trusted => Served(slice[r])')
      BY <2>1, <3>3, <3>4, <3>6 DEF CallInv, Served, ServedInv
    <3> QED  BY <2>1, <3>5, <3>6 DEF ServedInv
  <2> QED  BY <2>2, <2>3
<1> QED  BY <1>1, <1>2, <1>3, <1>4, <1>5, <1>6 DEF Slicing
-----------------------------------------------------------------------------
(* The theorems. *)

LEMMA RegistryInvInit ==
  ASSUME RegistryInit
  PROVE  RegistryInv /\ ServedInv
<1>1. NoHandler \in Answerers /\ 0 \in 0 .. MaxRows /\ 0 \in 0 .. MaxChanges
  BY RegistryAssumption DEF Answerers
<1> DEFINE none == [x \in Extensions |-> {}]
<1>2. none \in [Extensions -> SUBSET Answerers]
  OBVIOUS
<1> HIDE DEF none
<1>3. [pc |-> "idle", offset |-> 0, limit |-> 0, by |-> NoHandler, count |-> 0, seen |-> none] \in Call
  BY <1>1, <1>2 DEF Call
<1>4. slice \in [Slices -> Call] /\ \A s \in Slices : slice[s].pc = "idle"
  BY <1>3 DEF RegistryInit, RegistryStart, none
<1>5. job \in JobState /\ job.pc = "idle" /\ job.since = 0 /\ changes = 0
  BY <1>1 DEF RegistryInit, RegistryStart, JobState
<1>6. entry \in MapEntry /\ ~entry.mapped /\ ~entry.located
  BY <1>1 DEF RegistryInit, RegistryStart, MapEntry, NoEntry
<1>7. RegistryTypeOK
  BY <1>1, <1>4, <1>5, <1>6 DEF RegistryInit, RegistryStart, RegistryTypeOK
<1>8. JobInv /\ EntryInv
  BY <1>5, <1>6 DEF JobInv, EntryInv, QuietInspectionRight
<1> QED  BY <1>4, <1>7, <1>8 DEF RegistryInv, CallInv, ServedInv, Served

LEMMA RegistryInvNext ==
  ASSUME RegistryInv, ServedInv, [RegistryNext]_registryVars
  PROVE  RegistryInv' /\ ServedInv'
<1>1. ASSUME NEW x \in Extensions, NEW h \in Plugins \cup {NoHandler}, Change(x, h)
      PROVE  RegistryInv' /\ ServedInv'
  <2>1. RegistryTypeOK' /\ JobInv'
    BY <1>1, ChangeType, ChangeJob DEF RegistryInv
  <2>2. (\A s \in Slices : CallInv(slice[s]))' /\ ServedInv'
    BY <1>1, ChangeCalls
  <2>3. EntryInv'
    BY <1>1 DEF RegistryInv, Change, EntryInv, QuietInspectionRight
  <2> QED  BY <2>1, <2>2, <2>3 DEF RegistryInv
<1>2. CASE Registration
  BY <1>1, <1>2 DEF Registration, register_format, unregister_format
<1>3. CASE Inspection
  <2>1. RegistryTypeOK'
    BY <1>3, InspectionType DEF RegistryInv
  <2> QED  BY <1>3, <2>1, InspectionJob, InspectionEntry, InspectionCalls DEF RegistryInv
<1>4. ASSUME NEW s \in Slices, Slicing(s)
      PROVE  RegistryInv' /\ ServedInv'
  <2>1. RegistryTypeOK'
    BY <1>4, SlicingType DEF RegistryInv
  <2> QED  BY <1>4, <2>1, SlicingJob, SlicingCalls DEF RegistryInv
<1>5. CASE UNCHANGED registryVars
  BY <1>5 DEF registryVars, RegistryInv, RegistryTypeOK, JobInv, EntryInv, QuietInspectionRight,
              CallInv, ServedInv, Served, handler_for, HandlerIn, BuiltIn
<1> QED  BY <1>2, <1>3, <1>4, <1>5 DEF RegistryNext

LEMMA RegistryInvariant == RegistrySpec => [](RegistryInv /\ ServedInv)
<1>1. RegistryInit => RegistryInv /\ ServedInv
  BY RegistryInvInit
<1>2. RegistryInv /\ ServedInv /\ [RegistryNext]_registryVars => (RegistryInv /\ ServedInv)'
  BY RegistryInvNext
<1> QED  BY <1>1, <1>2, PTL DEF RegistrySpec

\* Jobs, entries and slices keep their types: no count goes below zero
\* (formats/mod.rs:91-132, 208-257).
THEOREM RegistryTyped == RegistrySpec => []RegistryTypeOK
<1>1. RegistryInv => RegistryTypeOK
  BY DEF RegistryInv
<1> QED  BY <1>1, RegistryInvariant, PTL

\* An inspection during which the registry does not change leaves an entry of
\* one piece, whatever was registered before (inspect.rs:556-568, 671-709).
THEOREM QuietInspectionsAreRight == RegistrySpec => []QuietInspectionRight
<1>1. RegistryInv => QuietInspectionRight
  BY DEF RegistryInv, EntryInv
<1> QED  BY <1>1, RegistryInvariant, PTL

\* A slice answers with the range of one handler that was registered for the
\* file while it ran (slice.rs:21-46, 173-183; mod.rs:246-257, 341-349).
THEOREM SlicesAreServed == RegistrySpec => []SliceServed
<1>1. ServedInv => SliceServed
  BY DEF ServedInv, Served, SliceServed
<1> QED  BY <1>1, RegistryInvariant, PTL
-----------------------------------------------------------------------------
(* No query returns a part of a file. *)

\* The sources lead to cached files of their own.  A cached file lies in
\* .br_cache beside its source and has its name, the extension in lower case,
\* and .parquet (sql.rs:134-162): two sources share one only if their names
\* differ in the case of the extension, or if BASALTIC_RED_CACHE_DIR leads to
\* one directory for all of them.
CopiesApart == \A r, s \in Sources : CacheOf[r] = CacheOf[s] => r = s

\* A cached file holds parts of a source its name stands for, each at its place,
\* and a footer announces all of them.
CopyRight(t) ==
  /\ cache[t].footer \in {0, Parts}
  /\ \A i \in DOMAIN cache[t].parts : cache[t].parts[i].index = i /\ CacheOf[cache[t].parts[i].source] = t

\* A transcoding writes all parts, and a query that reads has what it passed.
QueryRight(q) ==
  /\ query[q].pc \in {"convert", "scan", "read"} => query[q].length = Parts
  /\ query[q].pc \in {"scan", "read"} =>
       /\ DOMAIN query[q].rows = 1 .. query[q].next - 1
       /\ \A i \in DOMAIN query[q].rows :
            query[q].rows[i].source = query[q].source /\ query[q].rows[i].index = i
  /\ query[q].pc \notin {"scan", "read"} => query[q].rows = <<>>

WholeInv ==
  /\ SqlTypeOK
  /\ \A t \in Caches : CopyRight(t)
  /\ \A q \in Queries : QueryRight(q)
  /\ SqlAnswersWhole

\* The first n parts of a source in one of its versions.
PartsTo(s, v, n) == [i \in 1 .. n |-> [source |-> s, version |-> v, index |-> i]]

\* The copy of a source that was only written between queries: there is none,
\* or it is the source as it was, and older than the last write if that changed it.
CopyOf(s, copy) ==
  IF copy.exists
    THEN /\ copy.footer = Parts
         /\ \E v \in 0 .. source[s].version :
              /\ copy.parts = RowsAt(s, v)
              /\ copy.mtime >= source[s].mtime <=> v = source[s].version
    ELSE copy.footer = 0

\* The copy while the one query over the source is at work.
CopyDuring(s, q, copy) ==
  /\ query[q].version = source[s].version
  /\ query[q].pc \notin {"fallback", "read"}
  /\ query[q].pc \in {"look", "statsource"} => CopyOf(s, copy)
  /\ query[q].pc = "statsource" => copy.exists
  /\ query[q].pc = "stattarget" =>
       CopyOf(s, copy) /\ copy.exists /\ query[q].mtime = source[s].mtime
  /\ query[q].pc = "create" => CopyOf(s, copy) /\ (copy.exists => copy.mtime < source[s].mtime)
  /\ query[q].pc \in {"open", "convert"} =>
       /\ copy.exists /\ copy.footer = 0 /\ copy.mtime >= source[s].mtime
       /\ copy.parts = PartsTo(s, source[s].version, IF query[q].pc = "open" THEN 0 ELSE query[q].next - 1)
  /\ query[q].pc \in {"register", "scan"} =>
       /\ copy.exists /\ copy.footer = Parts /\ copy.mtime >= source[s].mtime
       /\ copy.parts = RowsAt(s, source[s].version)
  /\ query[q].pc = "scan" => query[q].rows = PartsTo(s, source[s].version, query[q].next - 1)

\* A query over the source is at work.
Works(q, s) == query[q].pc # "idle" /\ query[q].source = s

\* One query at a time, which finds the copy as the last one or it has left it.
CopyCurrent(s) ==
  /\ \A p, q \in Queries : Works(p, s) /\ Works(q, s) => p = q
  /\ (\A q \in Queries : ~Works(q, s)) => CopyOf(s, cache[CacheOf[s]])
  /\ \A q \in Queries : Works(q, s) => CopyDuring(s, q, cache[CacheOf[s]])

CurrentInv ==
  /\ WholeInv
  /\ \A s \in Sources : source[s].mtime <= clock
  /\ \A t \in Caches : cache[t].mtime <= clock
  /\ faults = 0 => \A s \in apart : CopyCurrent(s)
  /\ SqlAnswersCurrent
-----------------------------------------------------------------------------
(* Files and answers, part by part. *)

LEMMA EmptyFragment == <<>> \in Fragments /\ DOMAIN <<>> = {}
  <1>1. <<>> \in [{} -> Part] /\ DOMAIN <<>> = {}
    OBVIOUS
  <1>2. QED
    BY <1>1 DEF Fragments

LEMMA FragmentParts ==
  ASSUME NEW f \in Fragments
  PROVE  /\ DOMAIN f \subseteq 1 .. Parts /\ f \in [DOMAIN f -> Part]
         /\ \A i \in DOMAIN f : f[i] \in Part
  <1>1. PICK D \in SUBSET (1 .. Parts) : f \in [D -> Part]
    BY DEF Fragments
  <1>2. QED
    BY <1>1

LEMMA OneMorePart ==
  ASSUME NEW f \in Fragments, NEW i \in 1 .. Parts, NEW part \in Part
  PROVE  /\ Put(f, i, part) \in Fragments
         /\ DOMAIN Put(f, i, part) = DOMAIN f \cup {i}
         /\ Put(f, i, part)[i] = part
         /\ \A k \in DOMAIN f \ {i} : Put(f, i, part)[k] = f[k]
  <1> DEFINE D == DOMAIN f \cup {i}
  <1>1. D \in SUBSET (1 .. Parts) /\ f \in [DOMAIN f -> Part]
    BY FragmentParts
  <1>2. Put(f, i, part) \in [D -> Part]
    BY <1>1 DEF Put
  <1>3. QED
    BY <1>1, <1>2 DEF Put, Fragments

LEMMA NothingYet == ASSUME NEW s, NEW v PROVE PartsTo(s, v, 0) = <<>>
  BY DEF PartsTo

LEMMA AllParts == ASSUME NEW s, NEW v PROVE PartsTo(s, v, Parts) = RowsAt(s, v)
  BY DEF PartsTo, RowsAt

LEMMA NextPart ==
  ASSUME NEW s, NEW v, NEW n \in Nat \ {0}
  PROVE  Put(PartsTo(s, v, n - 1), n, [source |-> s, version |-> v, index |-> n]) = PartsTo(s, v, n)
  <1>1. (1 .. n - 1) \cup {n} = 1 .. n
    OBVIOUS
  <1>2. DOMAIN PartsTo(s, v, n - 1) = 1 .. n - 1
    BY DEF PartsTo
  <1>3. \A k \in 1 .. n : (IF k = n THEN [source |-> s, version |-> v, index |-> n] ELSE PartsTo(s, v, n - 1)[k])
                            = [source |-> s, version |-> v, index |-> k]
    BY DEF PartsTo
  <1>4. QED
    BY <1>1, <1>2, <1>3 DEF Put, PartsTo

LEMMA VersionsDiffer ==
  ASSUME NEW s, NEW v, NEW w, RowsAt(s, v) = RowsAt(s, w)
  PROVE  v = w
  <1>1. 1 \in 1 .. Parts
    BY SqlAssumption
  <1>2. RowsAt(s, v)[1].version = v /\ RowsAt(s, w)[1].version = w
    BY <1>1 DEF RowsAt
  <1>3. QED
    BY <1>2

LEMMA WholeRows ==
  ASSUME NEW s, NEW v
  PROVE  Whole(s, RowsAt(s, v))
  BY DEF Whole, RowsAt
-----------------------------------------------------------------------------
(* Types. *)

LEMMA IdleTypes == Idle \in QueryState /\ NoAnswer \in AnswerState /\ Absent \in CacheState
  <1>1. \E s \in Sources : TRUE
    BY SqlAssumption
  <1>2. (CHOOSE s \in Sources : TRUE) \in Sources
    BY <1>1
  <1>3. 0 \in 0 .. MaxVersion /\ 0 \in 0 .. MaxClock /\ 0 \in 0 .. MaxAsked /\ 0 \in 0 .. Parts /\ 1 \in 1 .. Parts + 1
    BY SqlAssumption
  <1>4. QED
    BY <1>2, <1>3, EmptyFragment DEF Idle, QueryState, NoAnswer, AnswerState, Absent, CacheState

LEMMA SqlStarts == SqlInit => SqlTypeOK
  <1>1. 0 \in 0 .. MaxVersion /\ 0 \in 0 .. MaxClock /\ 0 \in 0 .. MaxFaults
    BY SqlAssumption
  <1>2. QED
    BY <1>1, IdleTypes DEF SqlInit, SqlTypeOK, SourceState

\* The answer of a query that ends.
LEMMA ReplyTypes ==
  ASSUME SqlTypeOK, NEW q \in Queries, NEW outcome \in {"rows", "error"}, NEW table \in Fragments, Reply(q, outcome, table)
  PROVE  query' \in [Queries -> QueryState] /\ answer' \in [Queries -> AnswerState]
  <1>1. [Idle EXCEPT !.asked = query[q].asked] \in QueryState
    BY IdleTypes DEF SqlTypeOK, QueryState
  <1>2. query[q].source \in Sources /\ query[q].version \in 0 .. MaxVersion
        /\ source[query[q].source].version \in 0 .. MaxVersion
    BY DEF SqlTypeOK, QueryState, SourceState
  <1>3. [kind |-> outcome, source |-> query[q].source, rows |-> table,
         from |-> query[q].version, to |-> source[query[q].source].version] \in AnswerState
    BY <1>2 DEF AnswerState
  <1>4. QED
    BY <1>1, <1>3 DEF Reply, SqlTypeOK

LEMMA GotoTypes ==
  ASSUME SqlTypeOK, NEW q \in Queries, NEW label \in {"statsource", "create", "register", "open", "fallback", "stattarget"},
         Goto(q, label)
  PROVE  query' \in [Queries -> QueryState]
  BY DEF Goto, SqlTypeOK, QueryState

LEMMA BeginTypes ==
  ASSUME SqlTypeOK, NEW q \in Queries, NEW label \in {"convert", "scan", "read"}, NEW length \in 0 .. Parts,
         Begin(q, label, length)
  PROVE  query' \in [Queries -> QueryState]
  <1>1. 1 \in 1 .. Parts + 1
    BY SqlAssumption
  <1>2. [query[q] EXCEPT !.pc = label, !.next = 1, !.length = length] \in QueryState
    BY <1>1 DEF SqlTypeOK, QueryState
  <1>3. QED
    BY <1>2 DEF Begin, SqlTypeOK

LEMMA CollectTypes ==
  ASSUME SqlTypeOK, NEW q \in Queries, NEW part \in Part, query[q].next <= query[q].length, Collect(q, part)
  PROVE  query' \in [Queries -> QueryState]
  <1>1. query[q] \in QueryState /\ query[q].rows \in Fragments
    BY DEF SqlTypeOK, QueryState
  <1>2. query[q].next \in 1 .. Parts /\ query[q].next + 1 \in 1 .. Parts + 1
    BY SqlAssumption, <1>1 DEF QueryState
  <1>3. Put(query[q].rows, query[q].next, part) \in Fragments
    BY <1>1, <1>2, OneMorePart
  <1>4. [query[q] EXCEPT !.rows = Put(@, query[q].next, part), !.next = @ + 1] \in QueryState
    BY <1>1, <1>2, <1>3 DEF QueryState
  <1>5. QED
    BY <1>4 DEF Collect, SqlTypeOK

LEMMA SourcePartType ==
  ASSUME SqlTypeOK, NEW q \in Queries, query[q].next <= query[q].length
  PROVE  SourcePart(q) \in Part /\ query[q].next \in 1 .. Parts /\ Target(q) \in Caches
  <1>1. query[q] \in QueryState /\ source[query[q].source].version \in 0 .. MaxVersion
    BY DEF SqlTypeOK, QueryState, SourceState
  <1>2. query[q].next \in 1 .. Parts
    BY SqlAssumption, <1>1 DEF QueryState
  <1>3. QED
    BY <1>1, <1>2, SqlAssumption DEF SourcePart, Part, QueryState, Target

LEMMA FaultType == ASSUME SqlTypeOK, Fault PROVE faults' \in 0 .. MaxFaults
  BY SqlAssumption DEF Fault, SqlTypeOK

LEMMA EnvironmentTypes ==
  ASSUME SqlTypeOK, Tick \/ (\E s \in Sources, fresh \in BOOLEAN : WriteSource(s, fresh))
  PROVE  SqlTypeOK'
  <1>1. CASE Tick
    BY SqlAssumption, <1>1 DEF Tick, SqlTypeOK
  <1>2. ASSUME NEW s \in Sources, NEW fresh \in BOOLEAN, WriteSource(s, fresh) PROVE SqlTypeOK'
    <2>1. clock' \in 0 .. MaxClock
      BY SqlAssumption, <1>2 DEF WriteSource, SqlTypeOK
    <2>2. [version |-> source[s].version + 1, mtime |-> clock'] \in SourceState
      BY SqlAssumption, <1>2, <2>1 DEF WriteSource, SqlTypeOK, SourceState
    <2>3. source' \in [Sources -> SourceState] /\ apart' \subseteq Sources
      BY <1>2, <2>2 DEF WriteSource, SqlTypeOK
    <2>4. QED
      BY <1>2, <2>1, <2>3 DEF WriteSource, SqlTypeOK
  <1>3. QED
    BY <1>1, <1>2

\* The steps that change the cached file.
LEMMA TranscodingTypes ==
  ASSUME SqlTypeOK, NEW q \in Queries, Create(q) \/ ConvertPart(q) \/ CloseCache(q)
  PROVE  SqlTypeOK'
  <1> DEFINE t == Target(q)
  <1>1. t \in Caches /\ cache[t] \in CacheState /\ query[q] \in QueryState /\ clock \in 0 .. MaxClock
    BY SqlAssumption DEF SqlTypeOK, Target, QueryState
  <1>2. CASE Create(q)
    <2>1. [exists |-> TRUE, parts |-> <<>>, footer |-> 0, mtime |-> clock] \in CacheState
      BY <1>1, EmptyFragment, SqlAssumption DEF CacheState
    <2>2. cache' \in [Caches -> CacheState]
      BY <1>2, <2>1 DEF Create, SqlTypeOK
    <2>3. query' \in [Queries -> QueryState]
      BY <1>2, GotoTypes DEF Create
    <2>4. faults' \in 0 .. MaxFaults
      BY <1>2, FaultType DEF Create, SqlTypeOK
    <2>5. QED
      BY <1>2, <2>2, <2>3, <2>4 DEF Create, SqlTypeOK
  <1>3. CASE ConvertPart(q)
    <2>1. SourcePart(q) \in Part /\ query[q].next \in 1 .. Parts
      BY <1>3, SourcePartType DEF ConvertPart
    <2>2. Put(cache[t].parts, query[q].next, SourcePart(q)) \in Fragments
      BY <1>1, <2>1, OneMorePart DEF CacheState
    <2>3. [cache[t] EXCEPT !.parts = Put(@, query[q].next, SourcePart(q)), !.mtime = clock] \in CacheState
      BY <1>1, <2>2 DEF CacheState
    <2>4. cache' \in [Caches -> CacheState]
      BY <1>3, <2>3 DEF ConvertPart, SqlTypeOK
    <2>5. query[q].next + 1 \in 1 .. Parts + 1
      BY SqlAssumption, <2>1
    <2>6. query' \in [Queries -> QueryState]
      BY <1>1, <1>3, <2>5 DEF ConvertPart, SqlTypeOK, QueryState
    <2>7. QED
      BY <1>3, <2>4, <2>6 DEF ConvertPart, SqlTypeOK
  <1>4. CASE CloseCache(q)
    <2>1. query[q].next - 1 \in 0 .. Parts
      BY SqlAssumption, <1>1 DEF QueryState
    <2>2. [cache[t] EXCEPT !.footer = query[q].next - 1, !.mtime = clock] \in CacheState
      BY <1>1, <2>1 DEF CacheState
    <2>3. cache' \in [Caches -> CacheState]
      BY <1>4, <2>2 DEF CloseCache, SqlTypeOK
    <2>4. query' \in [Queries -> QueryState]
      BY <1>4, GotoTypes DEF CloseCache
    <2>5. QED
      BY <1>4, <2>3, <2>4 DEF CloseCache, SqlTypeOK
  <1>5. QED
    BY <1>2, <1>3, <1>4

\* The other steps of a query.
LEMMA QueryTypes ==
  ASSUME SqlTypeOK, NEW q \in Queries,
         \/ \E s \in Sources : Ask(q, s)
         \/ Look(q) \/ StatSource(q) \/ StatTarget(q) \/ OpenSource(q) \/ ConvertError(q)
         \/ Register(q) \/ ScanPart(q) \/ OpenHandler(q) \/ ReadPart(q) \/ ReturnRows(q) \/ Crash(q)
  PROVE  SqlTypeOK'
  <1>1. query[q] \in QueryState /\ Target(q) \in Caches /\ cache[Target(q)] \in CacheState
    BY SqlAssumption DEF SqlTypeOK, Target, QueryState
  <1>2. ASSUME NEW s \in Sources, Ask(q, s) PROVE SqlTypeOK'
    <2>1. query[q].asked + 1 \in 0 .. MaxAsked /\ source[s].version \in 0 .. MaxVersion
      <3>1. query[q].asked + 1 \in 0 .. MaxAsked
        <4>1. query[q].asked \in 0 .. MaxAsked
          BY <1>1 DEF QueryState
        <4>2. query[q].asked < MaxAsked
          BY <1>2 DEF Ask
        <4>3. QED
          BY SqlAssumption, <4>1, <4>2
      <3>2. source[s].version \in 0 .. MaxVersion
        BY DEF SqlTypeOK, SourceState
      <3>3. QED
        BY <3>1, <3>2
    <2>2. [query[q] EXCEPT !.pc = "look", !.source = s, !.version = source[s].version, !.asked = @ + 1]
            \in QueryState
      BY <1>1, <2>1 DEF QueryState
    <2>3. query' \in [Queries -> QueryState] /\ apart' \subseteq Sources
      BY <1>2, <2>2 DEF Ask, SqlTypeOK
    <2>4. QED
      BY <1>2, <2>3 DEF Ask, SqlTypeOK
  <1>3. CASE Look(q)
    BY <1>3, GotoTypes DEF Look, SqlTypeOK
  <1>4. CASE StatSource(q)
    <2>1. source[query[q].source].mtime \in 0 .. MaxClock
      BY <1>1 DEF SqlTypeOK, QueryState, SourceState
    <2>2. [query[q] EXCEPT !.pc = "stattarget", !.mtime = source[query[q].source].mtime] \in QueryState
      BY <1>1, <2>1 DEF QueryState
    <2>3. query' \in [Queries -> QueryState]
      BY <1>4, <2>2, GotoTypes DEF StatSource, SqlTypeOK
    <2>4. QED
      BY <1>4, <2>3, FaultType DEF StatSource, SqlTypeOK
  <1>5. CASE StatTarget(q)
    <2>1. query' \in [Queries -> QueryState]
      BY <1>5, GotoTypes DEF StatTarget
    <2>2. QED
      BY <1>5, <2>1, FaultType DEF StatTarget, SqlTypeOK
  <1>6. CASE OpenSource(q)
    <2>1. Parts \in 0 .. Parts
      BY SqlAssumption
    <2>2. query' \in [Queries -> QueryState]
      BY <1>6, <2>1, GotoTypes, BeginTypes DEF OpenSource
    <2>3. QED
      BY <1>6, <2>2, FaultType DEF OpenSource, SqlTypeOK
  <1>7. CASE ConvertError(q)
    BY <1>7, GotoTypes, FaultType DEF ConvertError, SqlTypeOK
  <1>8. CASE Register(q)
    <2>1. cache[Target(q)].footer \in 0 .. Parts
      BY <1>1 DEF CacheState
    <2>2. query' \in [Queries -> QueryState] /\ answer' \in [Queries -> AnswerState]
      BY <1>8, <2>1, BeginTypes, ReplyTypes, EmptyFragment DEF Register, SqlTypeOK
    <2>3. QED
      BY <1>8, <2>2 DEF Register, SqlTypeOK
  <1>9. CASE ScanPart(q)
    <2>1. \A i \in DOMAIN cache[Target(q)].parts : cache[Target(q)].parts[i] \in Part
      BY <1>1, FragmentParts DEF CacheState
    <2>2. query' \in [Queries -> QueryState] /\ answer' \in [Queries -> AnswerState]
      BY <1>9, <2>1, CollectTypes, ReplyTypes, EmptyFragment DEF ScanPart, SqlTypeOK
    <2>3. QED
      BY <1>9, <2>2 DEF ScanPart, SqlTypeOK
  <1>10. CASE OpenHandler(q)
    <2>1. Parts \in 0 .. Parts
      BY SqlAssumption
    <2>2. query' \in [Queries -> QueryState] /\ answer' \in [Queries -> AnswerState]
      BY <1>10, <2>1, BeginTypes, ReplyTypes, EmptyFragment DEF OpenHandler, SqlTypeOK
    <2>3. QED
      BY <1>10, <2>2, FaultType DEF OpenHandler, SqlTypeOK
  <1>11. CASE ReadPart(q)
    <2>1. query' \in [Queries -> QueryState] /\ answer' \in [Queries -> AnswerState]
      BY <1>11, SourcePartType, CollectTypes, ReplyTypes, EmptyFragment DEF ReadPart, SqlTypeOK
    <2>2. QED
      BY <1>11, <2>1, FaultType DEF ReadPart, SqlTypeOK
  <1>12. CASE ReturnRows(q)
    <2>1. query[q].rows \in Fragments
      BY <1>1 DEF QueryState
    <2>2. query' \in [Queries -> QueryState] /\ answer' \in [Queries -> AnswerState]
      BY <1>12, <2>1, ReplyTypes DEF ReturnRows
    <2>3. QED
      BY <1>12, <2>2 DEF ReturnRows, SqlTypeOK
  <1>13. CASE Crash(q)
    <2>1. [Idle EXCEPT !.asked = query[q].asked] \in QueryState
      BY <1>1, IdleTypes DEF QueryState
    <2>2. query' \in [Queries -> QueryState]
      BY <1>13, <2>1 DEF Crash, SqlTypeOK
    <2>3. QED
      BY <1>13, <2>2, FaultType DEF Crash, SqlTypeOK
  <1>14. QED
    BY <1>2, <1>3, <1>4, <1>5, <1>6, <1>7, <1>8, <1>9, <1>10, <1>11, <1>12, <1>13

LEMMA SqlTypes == SqlTypeOK /\ [SqlNext]_sqlVars => SqlTypeOK'
  <1>1. CASE UNCHANGED sqlVars
    BY <1>1 DEF sqlVars, SqlTypeOK
  <1>2. QED
    BY <1>1, EnvironmentTypes, TranscodingTypes, QueryTypes DEF SqlNext, QueryStep
-----------------------------------------------------------------------------
(* No query returns a part of a file. *)

\* The steps a query takes at a cached file.
LEMMA CopiesStayRight == ASSUME WholeInv, [SqlNext]_sqlVars, NEW t \in Caches PROVE CopyRight(t)'
  <1> USE DEF WholeInv
  <1>1. CASE cache' = cache
    BY <1>1 DEF CopyRight
  <1>2. ASSUME NEW q \in Queries, Create(q) PROVE CopyRight(t)'
    <2>1. cache'[t] = cache[t] \/ cache'[t] = [exists |-> TRUE, parts |-> <<>>, footer |-> 0, mtime |-> clock]
      BY <1>2 DEF Create, SqlTypeOK
    <2>2. QED
      BY <2>1, EmptyFragment DEF CopyRight
  <1>3. ASSUME NEW q \in Queries, ConvertPart(q) PROVE CopyRight(t)'
    <2>1. SourcePart(q) \in Part /\ query[q].next \in 1 .. Parts /\ cache[t].parts \in Fragments
      BY <1>3, SourcePartType DEF ConvertPart, SqlTypeOK, CacheState
    <2>2. CASE cache'[t] = cache[t]
      BY <2>2 DEF CopyRight
    <2>3. CASE t = Target(q)
      <3>1. /\ cache'[t].parts = Put(cache[t].parts, query[q].next, SourcePart(q))
            /\ cache'[t].footer = cache[t].footer
        BY <1>3, <2>3 DEF ConvertPart, SqlTypeOK, CacheState
      <3>2. SourcePart(q).index = query[q].next /\ CacheOf[SourcePart(q).source] = t
        BY <2>3 DEF SourcePart, Target
      <3> DEFINE parts == cache[t].parts
                 new   == Put(parts, query[q].next, SourcePart(q))
      <3>3. /\ DOMAIN new = DOMAIN parts \cup {query[q].next} /\ new[query[q].next] = SourcePart(q)
            /\ \A k \in DOMAIN parts \ {query[q].next} : new[k] = parts[k]
        BY <2>1, OneMorePart
      <3>4. /\ cache[t].footer \in {0, Parts}
            /\ \A i \in DOMAIN parts : parts[i].index = i /\ CacheOf[parts[i].source] = t
        BY DEF CopyRight
      <3> HIDE DEF new
      <3>5. \A i \in DOMAIN new : new[i].index = i /\ CacheOf[new[i].source] = t
        BY <3>2, <3>3, <3>4
      <3>6. QED
        BY <3>1, <3>4, <3>5 DEF CopyRight, new
    <2>4. QED
      BY <1>3, <2>2, <2>3 DEF ConvertPart, SqlTypeOK
  <1>4. ASSUME NEW q \in Queries, CloseCache(q) PROVE CopyRight(t)'
    <2>1. query[q].length = Parts /\ query[q].next \in 1 .. Parts + 1 /\ query[q].next > query[q].length
      BY <1>4 DEF CloseCache, AtStep, QueryRight, SqlTypeOK, QueryState
    <2>2. query[q].next - 1 = Parts
      BY <2>1, SqlAssumption
    <2>3. /\ cache'[t].parts = cache[t].parts
          /\ cache'[t].footer \in {cache[t].footer, query[q].next - 1}
      BY <1>4 DEF CloseCache, SqlTypeOK, CacheState
    <2>4. QED
      BY <2>2, <2>3 DEF CopyRight
  <1>5. QED
    BY <1>1, <1>2, <1>3, <1>4
       DEF SqlNext, QueryStep, sqlVars, Tick, WriteSource, Ask, Look, StatSource, StatTarget, OpenSource,
           ConvertError, Register, ScanPart, OpenHandler, ReadPart, ReturnRows, Crash

\* A query with one more part.
LEMMA CollectedRight ==
  ASSUME WholeInv, NEW q \in Queries, query[q].pc \in {"scan", "read"}, NEW part \in Part, Collect(q, part),
         query[q].next <= query[q].length,
         part.source = query[q].source, part.index = query[q].next
  PROVE  QueryRight(q)'
  <1>1. query[q] \in QueryState /\ QueryRight(q)
    BY DEF WholeInv, SqlTypeOK
  <1>2. query[q].next \in 1 .. Parts /\ query[q].length = Parts /\ query[q].rows \in Fragments
    BY <1>1, SqlAssumption DEF QueryRight, QueryState
  <1>3. query'[q] = [query[q] EXCEPT !.rows = Put(query[q].rows, query[q].next, part), !.next = query[q].next + 1]
    BY DEF Collect, WholeInv, SqlTypeOK
  <1>4. /\ query'[q].rows = Put(query[q].rows, query[q].next, part) /\ query'[q].next = query[q].next + 1
        /\ query'[q].length = query[q].length /\ query'[q].source = query[q].source
        /\ query'[q].pc = query[q].pc
    BY <1>1, <1>3 DEF QueryState
  <1>5. DOMAIN query[q].rows = 1 .. query[q].next - 1
    BY <1>1 DEF QueryRight
  <1>6. (1 .. query[q].next - 1) \cup {query[q].next} = 1 .. query'[q].next - 1
    BY <1>2, <1>4
  <1> DEFINE table == query[q].rows
             new  == Put(table, query[q].next, part)
  <1>7. /\ DOMAIN new = DOMAIN table \cup {query[q].next} /\ new[query[q].next] = part
        /\ \A k \in DOMAIN table \ {query[q].next} : new[k] = table[k]
    <2>1. table \in Fragments /\ query[q].next \in 1 .. Parts /\ part \in Part
      BY <1>2
    <2>2. ASSUME NEW f \in Fragments, NEW n \in 1 .. Parts, NEW p \in Part
          PROVE  /\ DOMAIN Put(f, n, p) = DOMAIN f \cup {n} /\ Put(f, n, p)[n] = p
                 /\ \A k \in DOMAIN f \ {n} : Put(f, n, p)[k] = f[k]
      BY ONLY <2>2, OneMorePart
    <2>3. QED
      BY ONLY <2>1, <2>2
  <1>8. \A i \in DOMAIN table : table[i].source = query[q].source /\ table[i].index = i
    BY <1>1 DEF QueryRight
  <1> HIDE DEF new
  <1>9. DOMAIN new = 1 .. query'[q].next - 1
    BY <1>5, <1>6, <1>7
  <1>10. \A i \in DOMAIN new : new[i].source = query[q].source /\ new[i].index = i
    BY <1>7, <1>8
  <1>11. query'[q].rows = new
    BY <1>4 DEF new
  <1>12. QED
    BY <1>2, <1>4, <1>9, <1>10, <1>11 DEF QueryRight

\* The query ends, and the answer is one of the file or none.
LEMMA RepliedRight ==
  ASSUME WholeInv, NEW q \in Queries, NEW outcome, NEW table, Reply(q, outcome, table),
         outcome = "rows" => table = <<>> \/ Whole(query[q].source, table)
  PROVE  QueryRight(q)' /\ SqlAnswersWhole' /\ \A p \in Queries \ {q} : query'[p] = query[p]
  <1>1. query'[q] = [Idle EXCEPT !.asked = query[q].asked]
    BY DEF WholeInv, SqlTypeOK, Reply
  <1>2. query'[q].pc = "idle" /\ query'[q].rows = <<>>
    BY <1>1 DEF Idle
  <1>3. answer'[q] = [kind |-> outcome, source |-> query[q].source, rows |-> table,
                      from |-> query[q].version, to |-> source[query[q].source].version]
    BY DEF WholeInv, SqlTypeOK, Reply
  <1>4. SqlAnswersWhole'
    BY <1>3 DEF WholeInv, SqlTypeOK, SqlAnswersWhole, Reply
  <1>5. QED
    BY <1>2, <1>4 DEF QueryRight, Reply, WholeInv, SqlTypeOK

\* The query goes on with nothing read.
LEMMA BegunRight ==
  ASSUME WholeInv, NEW q \in Queries, NEW label, NEW length, Begin(q, label, length),
         label \in {"convert", "scan", "read"}, length = Parts, query[q].rows = <<>>
  PROVE  QueryRight(q)' /\ \A p \in Queries \ {q} : query'[p] = query[p]
  <1>1. query'[q] = [query[q] EXCEPT !.pc = label, !.next = 1, !.length = length]
    BY DEF WholeInv, SqlTypeOK, Begin
  <1>2. /\ query'[q].pc = label /\ query'[q].next = 1 /\ query'[q].length = Parts
        /\ query'[q].rows = <<>>
    BY <1>1 DEF WholeInv, SqlTypeOK, QueryState
  <1>3. DOMAIN query'[q].rows = 1 .. query'[q].next - 1
    BY <1>2, EmptyFragment
  <1>4. QED
    BY <1>2, <1>3, EmptyFragment DEF QueryRight, Begin, WholeInv, SqlTypeOK

\* The query goes to a step at which it holds nothing.
LEMMA WentRight ==
  ASSUME WholeInv, NEW q \in Queries, NEW label, Goto(q, label),
         label \notin {"convert", "scan", "read"}, query[q].pc \notin {"scan", "read"}
  PROVE  QueryRight(q)' /\ \A p \in Queries \ {q} : query'[p] = query[p]
  <1>1. query'[q] = [query[q] EXCEPT !.pc = label]
    BY DEF WholeInv, SqlTypeOK, Goto
  <1>2. query'[q].pc = label /\ query'[q].rows = query[q].rows
    BY <1>1 DEF WholeInv, SqlTypeOK, QueryState
  <1>3. QED
    BY <1>2 DEF QueryRight, Goto, WholeInv, SqlTypeOK

\* What a query knows, and what it answers, one step at a time.
LEMMA QueriesStayRight ==
  ASSUME WholeInv, [SqlNext]_sqlVars, CopiesApart
  PROVE  (\A q \in Queries : QueryRight(q)') /\ SqlAnswersWhole'
  <1> USE DEF WholeInv
  <1>1. CASE UNCHANGED <<query, answer>>
    BY <1>1 DEF QueryRight, SqlAnswersWhole
  <1>2. SUFFICES ASSUME NEW q \in Queries, QueryStep(q)
                 PROVE  /\ QueryRight(q)' /\ \A p \in Queries \ {q} : query'[p] = query[p]
                        /\ SqlAnswersWhole'
    <2>1. ASSUME NEW q \in Queries, QueryStep(q), NEW p \in Queries, p # q, query'[p] = query[p]
          PROVE  QueryRight(p)'
      BY <2>1 DEF QueryRight
    <2>2. QED
      BY <1>1, <1>2, <2>1 DEF SqlNext, sqlVars, Tick, WriteSource
  <1>3. SUFFICES QueryRight(q)' /\ (\A p \in Queries \ {q} : query'[p] = query[p])
                 /\ (answer' = answer \/ SqlAnswersWhole')
    BY DEF SqlAnswersWhole
  <1>4. query[q] \in QueryState /\ QueryRight(q)
    BY DEF SqlTypeOK
  <1>5. ASSUME NEW s \in Sources, Ask(q, s)
        PROVE  QueryRight(q)' /\ (\A p \in Queries \ {q} : query'[p] = query[p]) /\ answer' = answer
    <2>1. query'[q].pc = "look" /\ query'[q].rows = query[q].rows
      BY <1>5 DEF Ask, SqlTypeOK, QueryState
    <2>2. query[q].pc = "idle"
      BY <1>5 DEF Ask, AtStep
    <2>3. QED
      BY <1>4, <1>5, <2>1, <2>2 DEF QueryRight, Ask, SqlTypeOK
  <1>6. CASE Look(q)
    BY <1>6, WentRight DEF Look, AtStep
  <1>7. CASE StatSource(q)
    <2>1. CASE Goto(q, "register")
      BY <1>7, <2>1, WentRight DEF StatSource, AtStep
    <2>2. CASE query' = [query EXCEPT ![q].pc = "stattarget", ![q].mtime = source[query[q].source].mtime]
      <3>1. query'[q].pc = "stattarget" /\ query'[q].rows = query[q].rows
        BY <2>2 DEF SqlTypeOK, QueryState
      <3>2. QED
        BY <1>4, <1>7, <2>2, <3>1 DEF QueryRight, StatSource, AtStep, SqlTypeOK
    <2>3. QED
      BY <1>7, <2>1, <2>2 DEF StatSource
  <1>8. CASE StatTarget(q)
    BY <1>8, WentRight DEF StatTarget, AtStep
  <1>9. CASE Create(q)
    BY <1>9, WentRight DEF Create, AtStep
  <1>10. CASE OpenSource(q)
    <2>1. query[q].pc = "open" /\ query[q].rows = <<>> /\ answer' = answer
      BY <1>4, <1>10 DEF OpenSource, AtStep, QueryRight
    <2>2. QED
      BY <1>10, <2>1, WentRight, BegunRight DEF OpenSource
  <1>11. CASE ConvertPart(q)
    <2>1. query'[q].pc = query[q].pc /\ query'[q].rows = query[q].rows /\ query'[q].length = query[q].length
      BY <1>11 DEF ConvertPart, SqlTypeOK, QueryState
    <2>2. QED
      BY <1>4, <1>11, <2>1 DEF ConvertPart, AtStep, QueryRight, SqlTypeOK
  <1>12. CASE ConvertError(q)
    BY <1>12, WentRight DEF ConvertError, AtStep
  <1>13. CASE CloseCache(q)
    BY <1>13, WentRight DEF CloseCache, AtStep
  <1>14. CASE Register(q)
    <2>1. query[q].pc = "register" /\ query[q].rows = <<>>
      BY <1>4, <1>14 DEF Register, AtStep, QueryRight
    <2>2. CASE cache[Target(q)].footer > 0
      <3>1. Target(q) \in Caches
        BY <1>4, SqlAssumption DEF Target, QueryState
      <3>2. cache[Target(q)].footer = Parts
        BY <2>2, <3>1 DEF CopyRight
      <3>3. QED
        BY <1>14, <2>1, <2>2, <3>2, BegunRight DEF Register
    <2>3. CASE ~(cache[Target(q)].footer > 0)
      BY <1>14, <2>3, RepliedRight DEF Register
    <2>4. QED
      BY <2>2, <2>3
  <1>15. CASE ScanPart(q)
    <2> DEFINE parts == cache[Target(q)].parts
    <2>1. CASE query[q].next \in DOMAIN parts /\ Collect(q, parts[query[q].next]) /\ answer' = answer
      <3>1. Target(q) \in Caches /\ Target(q) = CacheOf[query[q].source] /\ query[q].source \in Sources
        BY <1>4, SqlAssumption DEF Target, QueryState
      <3>2. parts \in Fragments /\ CopyRight(Target(q))
        BY <3>1 DEF SqlTypeOK, CacheState
      <3>3. parts[query[q].next] \in Part
        BY <2>1, <3>2, FragmentParts
      <3>4. parts[query[q].next].index = query[q].next /\ CacheOf[parts[query[q].next].source] = Target(q)
        BY <2>1, <3>2 DEF CopyRight
      <3>5. parts[query[q].next].source = query[q].source
        BY <3>1, <3>3, <3>4 DEF CopiesApart, Part
      <3>6. query[q].next <= query[q].length /\ query[q].pc = "scan"
        BY <1>15 DEF ScanPart, AtStep
      <3>7. QueryRight(q)'
        BY <2>1, <3>3, <3>4, <3>5, <3>6, CollectedRight
      <3>8. QED
        BY <2>1, <3>7 DEF Collect, SqlTypeOK
    <2>2. CASE Reply(q, "error", <<>>)
      BY <2>2, RepliedRight
    <2>3. QED
      BY <1>15, <2>1, <2>2 DEF ScanPart
  <1>16. CASE OpenHandler(q)
    <2>1. query[q].pc = "fallback" /\ query[q].rows = <<>>
      BY <1>4, <1>16 DEF OpenHandler, AtStep, QueryRight
    <2>2. QED
      BY <1>16, <2>1, BegunRight, RepliedRight DEF OpenHandler
  <1>17. CASE ReadPart(q)
    <2>1. CASE Collect(q, SourcePart(q)) /\ answer' = answer
      <3>1. SourcePart(q) \in Part /\ query[q].next <= query[q].length /\ query[q].pc = "read"
        BY <1>17, SourcePartType DEF ReadPart, AtStep
      <3>2. SourcePart(q).source = query[q].source /\ SourcePart(q).index = query[q].next
        BY DEF SourcePart
      <3>3. QueryRight(q)'
        BY <2>1, <3>1, <3>2, CollectedRight
      <3>4. QED
        BY <2>1, <3>3 DEF Collect, SqlTypeOK
    <2>2. CASE Reply(q, "error", <<>>)
      BY <2>2, RepliedRight
    <2>3. QED
      BY <1>17, <2>1, <2>2 DEF ReadPart
  <1>18. CASE ReturnRows(q)
    <2>1. query[q].pc \in {"scan", "read"} /\ query[q].next > query[q].length /\ Reply(q, "rows", query[q].rows)
      BY <1>18 DEF ReturnRows
    <2>2. query[q].length = Parts /\ query[q].next = Parts + 1
      BY <1>4, <2>1, SqlAssumption DEF QueryRight, QueryState
    <2>3. 1 .. query[q].next - 1 = 1 .. Parts
      BY <2>2, SqlAssumption
    <2>4. Whole(query[q].source, query[q].rows)
      BY <1>4, <2>1, <2>3 DEF QueryRight, Whole
    <2>5. QED
      BY <2>1, <2>4, RepliedRight
  <1>19. CASE Crash(q)
    <2>1. query'[q] = [Idle EXCEPT !.asked = query[q].asked]
      BY <1>19 DEF Crash, SqlTypeOK
    <2>2. query'[q].pc = "idle" /\ query'[q].rows = <<>>
      BY <2>1 DEF Idle
    <2>3. QED
      BY <1>19, <2>2 DEF QueryRight, Crash, SqlTypeOK
  <1>20. QED
    BY <1>2, <1>5, <1>6, <1>7, <1>8, <1>9, <1>10, <1>11, <1>12, <1>13, <1>14, <1>15, <1>16, <1>17, <1>18, <1>19
       DEF QueryStep, Look, StatTarget, Create, ConvertPart, ConvertError, CloseCache, StatSource, Crash

LEMMA WholeStarts == SqlInit => WholeInv
  <1> SUFFICES ASSUME SqlInit PROVE WholeInv
    OBVIOUS
  <1>1. \A t \in Caches : CopyRight(t)
    BY EmptyFragment DEF SqlInit, CopyRight, Absent
  <1>2. \A q \in Queries : QueryRight(q)
    BY DEF SqlInit, QueryRight, Idle
  <1>3. SqlAnswersWhole
    BY DEF SqlInit, SqlAnswersWhole, NoAnswer
  <1>4. QED
    BY <1>1, <1>2, <1>3, SqlStarts DEF WholeInv

LEMMA WholeStep == CopiesApart /\ WholeInv /\ [SqlNext]_sqlVars => WholeInv'
  <1> SUFFICES ASSUME CopiesApart, WholeInv, [SqlNext]_sqlVars PROVE WholeInv'
    OBVIOUS
  <1>1. SqlTypeOK'
    BY SqlTypes DEF WholeInv
  <1>2. \A t \in Caches : CopyRight(t)'
    BY CopiesStayRight
  <1>3. QED
    BY <1>1, <1>2, QueriesStayRight DEF WholeInv
-----------------------------------------------------------------------------
(* A source that is written between queries is answered as it is. *)

\* No file is younger than the clock.
LEMMA TimesStayRight ==
  ASSUME CurrentInv, [SqlNext]_sqlVars
  PROVE  /\ \A s \in Sources : source'[s].mtime <= clock'
         /\ \A t \in Caches : cache'[t].mtime <= clock'
  <1> USE DEF CurrentInv, WholeInv
  <1>1. clock \in Nat /\ (\A s \in Sources : source[s].mtime \in Nat) /\ (\A t \in Caches : cache[t].mtime \in Nat)
    BY SqlAssumption DEF SqlTypeOK, SourceState, CacheState
  <1>2. CASE UNCHANGED <<source, cache, clock>>
    BY <1>2
  <1>3. CASE Tick
    BY <1>1, <1>3 DEF Tick
  <1>4. ASSUME NEW s \in Sources, NEW fresh \in BOOLEAN, WriteSource(s, fresh)
        PROVE  /\ \A r \in Sources : source'[r].mtime <= clock'
               /\ \A t \in Caches : cache'[t].mtime <= clock'
    <2>1. clock' \in Nat /\ clock <= clock' /\ cache' = cache
      BY <1>1, <1>4 DEF WriteSource
    <2>2. \A r \in Sources : source'[r] = source[r] \/ source'[r].mtime = clock'
      BY <1>4 DEF WriteSource, SqlTypeOK
    <2>3. QED
      BY <1>1, <2>1, <2>2
  <1>5. ASSUME NEW q \in Queries, Create(q) \/ ConvertPart(q) \/ CloseCache(q)
        PROVE  /\ \A r \in Sources : source'[r].mtime <= clock'
               /\ \A t \in Caches : cache'[t].mtime <= clock'
    <2>1. UNCHANGED <<source, clock>>
      BY <1>5 DEF Create, ConvertPart, CloseCache
    <2>2. ASSUME NEW t \in Caches
          PROVE  \/ cache'[t] = cache[t]
                 \/ cache'[t].mtime = clock
      <3>1. CASE Create(q)
        BY <3>1 DEF Create, SqlTypeOK
      <3>2. CASE ConvertPart(q)
        BY <3>2 DEF ConvertPart, SqlTypeOK, CacheState
      <3>3. CASE CloseCache(q)
        BY <3>3 DEF CloseCache, SqlTypeOK, CacheState
      <3>4. QED
        BY <1>5, <3>1, <3>2, <3>3
    <2>3. QED
      BY <1>1, <2>1, <2>2
  <1>6. QED
    BY <1>2, <1>3, <1>4, <1>5
       DEF SqlNext, QueryStep, sqlVars, Ask, Look, StatSource, StatTarget, OpenSource,
           ConvertError, Register, ScanPart, OpenHandler, ReadPart, ReturnRows, Crash

\* The steps of a query leave alone the sources, the other queries, and the
\* copies of other sources than its own.
LEMMA OthersCurrent ==
  ASSUME CurrentInv, CopiesApart, NEW s \in Sources, CopyCurrent(s), NEW q \in Queries,
         \A p \in Queries \ {q} : query'[p] = query[p],
         source'[s] = source[s], cache'[CacheOf[s]] = cache[CacheOf[s]],
         ~Works(q, s), ~Works(q, s)'
  PROVE  CopyCurrent(s)'
  <1>1. \A p \in Queries : Works(p, s)' <=> Works(p, s)
    BY DEF Works
  <1>2. \A p, r \in Queries : Works(p, s)' /\ Works(r, s)' => p = r
    BY <1>1 DEF CopyCurrent
  <1>3. CopyOf(s, cache[CacheOf[s]])' <=> CopyOf(s, cache[CacheOf[s]])
    BY DEF CopyOf
  <1>4. ASSUME NEW p \in Queries, Works(p, s)' PROVE CopyDuring(s, p, cache[CacheOf[s]])'
    <2>1. p # q /\ query'[p] = query[p] /\ CopyDuring(s, p, cache[CacheOf[s]])
      BY <1>1, <1>4 DEF CopyCurrent
    <2>2. QED
      BY <1>3, <2>1 DEF CopyDuring, PartsTo, RowsAt
  <1>5. QED
    BY <1>1, <1>2, <1>3, <1>4 DEF CopyCurrent

\* The query over the source goes on, or ends.
LEMMA OwnCurrent ==
  ASSUME CurrentInv, NEW s \in Sources, CopyCurrent(s), NEW q \in Queries, Works(q, s),
         \A p \in Queries \ {q} : query'[p] = query[p],
         \/ Works(q, s)' /\ CopyDuring(s, q, cache[CacheOf[s]])'
         \/ ~Works(q, s)' /\ CopyOf(s, cache[CacheOf[s]])'
  PROVE  CopyCurrent(s)'
  <1>1. \A p \in Queries \ {q} : ~Works(p, s) /\ ~Works(p, s)'
    BY DEF CopyCurrent, Works
  <1>2. QED
    BY <1>1 DEF CopyCurrent

\* What is known of a query at work and the copy of its source.
LEMMA AtWork ==
  ASSUME CurrentInv, NEW s \in Sources, CopyCurrent(s), NEW q \in Queries, Works(q, s)
  PROVE  /\ Target(q) = CacheOf[s] /\ CacheOf[s] \in Caches /\ query[q].source = s
         /\ query[q] \in QueryState /\ QueryRight(q) /\ CopyDuring(s, q, cache[CacheOf[s]])
         /\ cache[CacheOf[s]] \in CacheState
         /\ source[s].version \in Nat /\ source[s].mtime \in Nat /\ clock \in Nat
         /\ source[s].mtime <= clock /\ cache[CacheOf[s]].mtime \in Nat
  BY SqlAssumption DEF CurrentInv, WholeInv, SqlTypeOK, SourceState, CacheState, Works, Target, CopyCurrent

\* The query looks whether there is a copy, and whether it is stale.
LEMMA LookingCurrent ==
  ASSUME CurrentInv, NEW s \in Sources, CopyCurrent(s), NEW q \in Queries, Works(q, s), faults' = faults,
         Look(q) \/ StatSource(q) \/ StatTarget(q)
  PROVE  CopyCurrent(s)'
  <1> DEFINE copy == cache[CacheOf[s]]
  <1>1. /\ UNCHANGED <<source, cache>> /\ query[q].pc \in {"look", "statsource", "stattarget"}
        /\ \A p \in Queries \ {q} : query'[p] = query[p]
    BY DEF Look, StatSource, StatTarget, Goto, AtStep, CurrentInv, WholeInv, SqlTypeOK
  <1>2. CopyOf(s, copy) /\ query[q].version = source[s].version
    BY <1>1, AtWork DEF CopyDuring
  <1>3. CopyOf(s, copy)'
    BY <1>1, <1>2 DEF CopyOf
  <1>4. ASSUME NEW label \in {"statsource", "create", "register"}, Goto(q, label)
        PROVE  /\ query'[q].pc = label /\ query'[q].version = query[q].version /\ query'[q].source = s
               /\ query'[q].mtime = query[q].mtime
    BY <1>4, AtWork DEF Goto, CurrentInv, WholeInv, SqlTypeOK, QueryState
  <1>5. Works(q, s)' /\ CopyDuring(s, q, copy)'
    <2>1. CASE Look(q)
      <3>1. query[q].pc = "look" /\ Goto(q, IF copy.exists THEN "statsource" ELSE "create")
        BY <2>1, AtWork DEF Look, AtStep
      <3>2. QED
        BY <1>1, <1>2, <1>3, <1>4, <3>1 DEF CopyDuring, Works
    <2>2. CASE StatSource(q)
      <3>1. /\ query[q].pc = "statsource" /\ copy.exists
            /\ query' = [query EXCEPT ![q].pc = "stattarget", ![q].mtime = source[s].mtime]
        BY <2>2, AtWork DEF StatSource, AtStep, Fault, CopyDuring, CurrentInv, WholeInv, SqlTypeOK
      <3>2. /\ query'[q].pc = "stattarget" /\ query'[q].version = query[q].version /\ query'[q].source = s
            /\ query'[q].mtime = source[s].mtime
        BY <3>1, AtWork DEF CurrentInv, WholeInv, SqlTypeOK, QueryState
      <3>3. QED
        BY <1>1, <1>2, <1>3, <3>1, <3>2 DEF CopyDuring, Works
    <2>3. CASE StatTarget(q)
      <3>1. /\ query[q].pc = "stattarget" /\ copy.exists /\ query[q].mtime = source[s].mtime
            /\ Goto(q, IF query[q].mtime > copy.mtime THEN "create" ELSE "register")
        BY <2>3, AtWork DEF StatTarget, IsStale, AtStep, Fault, CopyDuring, CurrentInv, WholeInv, SqlTypeOK
      <3>2. CASE source[s].mtime > copy.mtime
        <4>1. Goto(q, "create")
          BY <3>1, <3>2
        <4>2. query'[q].pc = "create" /\ query'[q].version = query[q].version /\ query'[q].source = s
          BY <1>4, <4>1
        <4>3. copy.mtime < source[s].mtime
          BY <3>2, AtWork
        <4>4. QED
          BY <1>1, <1>2, <1>3, <4>2, <4>3 DEF CopyDuring, Works
      <3>3. CASE ~(source[s].mtime > copy.mtime)
        <4>1. Goto(q, "register")
          BY <3>1, <3>3
        <4>2. query'[q].pc = "register" /\ query'[q].version = query[q].version /\ query'[q].source = s
          BY <1>4, <4>1
        <4>3. copy.mtime >= source[s].mtime
          BY <3>3, AtWork
        <4>4. copy.footer = Parts /\ copy.parts = RowsAt(s, source[s].version)
          BY <1>2, <3>1, <4>3 DEF CopyOf
        <4>5. QED
          BY <1>1, <1>2, <3>1, <4>2, <4>3, <4>4 DEF CopyDuring, Works, RowsAt
      <3>4. QED
        BY <3>2, <3>3
    <2>4. QED
      BY <2>1, <2>2, <2>3
  <1>6. QED
    BY <1>1, <1>5, OwnCurrent

\* The query writes the copy.
LEMMA TranscodingCurrent ==
  ASSUME CurrentInv, NEW s \in Sources, CopyCurrent(s), NEW q \in Queries, Works(q, s), faults' = faults,
         Create(q) \/ OpenSource(q) \/ ConvertPart(q) \/ CloseCache(q)
  PROVE  CopyCurrent(s)'
  <1> DEFINE t     == CacheOf[s]
             copy == cache[t]
             v     == source[s].version
  <1>1. /\ source' = source /\ query[q].pc \in {"create", "open", "convert"}
        /\ \A p \in Queries \ {q} : query'[p] = query[p]
    BY DEF Create, OpenSource, ConvertPart, CloseCache, Goto, Begin, AtStep, CurrentInv, WholeInv, SqlTypeOK
  <1>2. query[q].version = v /\ t \in Caches /\ copy \in CacheState /\ query[q] \in QueryState /\ Target(q) = t
    BY AtWork DEF CopyDuring
  <1>3. ASSUME NEW label \in {"open", "register"}, Goto(q, label)
        PROVE  query'[q].pc = label /\ query'[q].version = v /\ query'[q].source = s
    BY <1>2, <1>3, AtWork DEF Goto, CurrentInv, WholeInv, SqlTypeOK, QueryState
  <1>4. CASE Create(q)
    <2>1. /\ Goto(q, "open")
          /\ cache' = [cache EXCEPT ![t] = [exists |-> TRUE, parts |-> <<>>, footer |-> 0, mtime |-> clock]]
      BY <1>2, <1>4 DEF Create, Fault, CurrentInv, WholeInv, SqlTypeOK
    <2>2. cache'[t] = [exists |-> TRUE, parts |-> <<>>, footer |-> 0, mtime |-> clock]
      BY <1>2, <2>1 DEF CurrentInv, WholeInv, SqlTypeOK
    <2>3. cache'[t].parts = PartsTo(s, v, 0)
      BY <2>2, NothingYet
    <2>4. query'[q].pc = "open" /\ query'[q].version = v /\ query'[q].source = s
      BY <1>3, <2>1
    <2>5. Works(q, s)' /\ CopyDuring(s, q, cache[t])'
      BY <1>1, <2>2, <2>3, <2>4, AtWork DEF CopyDuring, Works
    <2>6. QED
      BY <1>1, <2>5, OwnCurrent
  <1>5. CASE OpenSource(q)
    <2>1. query[q].pc = "open" /\ Begin(q, "convert", Parts) /\ cache' = cache
      BY <1>5 DEF OpenSource, AtStep, Fault, CurrentInv, WholeInv, SqlTypeOK
    <2>2. query'[q].pc = "convert" /\ query'[q].version = v /\ query'[q].source = s /\ query'[q].next = 1
      BY <1>2, <2>1, AtWork DEF Begin, CurrentInv, WholeInv, SqlTypeOK, QueryState
    <2>3. copy.exists /\ copy.footer = 0 /\ copy.mtime >= source[s].mtime /\ copy.parts = PartsTo(s, v, 0)
      BY <2>1, AtWork DEF CopyDuring
    <2>4. query'[q].next - 1 = 0
      BY <2>2
    <2>5. Works(q, s)' /\ CopyDuring(s, q, cache[t])'
      BY <1>1, <2>1, <2>2, <2>3, <2>4 DEF CopyDuring, Works, PartsTo
    <2>6. QED
      BY <1>1, <2>5, OwnCurrent
  <1>6. query[q].pc = "convert" =>
          /\ copy.exists /\ copy.footer = 0 /\ copy.mtime >= source[s].mtime
          /\ copy.parts = PartsTo(s, v, query[q].next - 1) /\ query[q].length = Parts
    BY AtWork DEF CopyDuring, QueryRight
  <1>7. CASE ConvertPart(q)
    <2>1. query[q].pc = "convert" /\ query[q].next <= query[q].length
      BY <1>7 DEF ConvertPart, AtStep
    <2>2. query[q].next \in Nat \ {0}
      BY <1>2, SqlAssumption DEF QueryState
    <2>3. /\ cache'[t].parts = Put(copy.parts, query[q].next, SourcePart(q)) /\ cache'[t].mtime = clock
          /\ cache'[t].exists = copy.exists /\ cache'[t].footer = copy.footer
      BY <1>2, <1>7 DEF ConvertPart, CurrentInv, WholeInv, SqlTypeOK, CacheState
    <2>4. /\ query'[q].pc = "convert" /\ query'[q].version = v /\ query'[q].source = s
          /\ query'[q].next = query[q].next + 1
      BY <1>2, <1>7, <2>1, AtWork DEF ConvertPart, CurrentInv, WholeInv, SqlTypeOK, QueryState
    <2>5. SourcePart(q) = [source |-> s, version |-> v, index |-> query[q].next]
      BY AtWork DEF SourcePart
    <2>6. cache'[t].parts = PartsTo(s, v, query[q].next)
      BY <1>6, <2>1, <2>2, <2>3, <2>5, NextPart
    <2>7. query'[q].next - 1 = query[q].next
      BY <2>2, <2>4
    <2>8. Works(q, s)' /\ CopyDuring(s, q, cache[t])'
      <3>1. (cache[t].parts = PartsTo(s, source[s].version, query[q].next - 1))'
        BY <1>1, <2>6, <2>7 DEF PartsTo
      <3>2. cache'[t].exists /\ cache'[t].footer = 0 /\ cache'[t].mtime >= source'[s].mtime
        BY <1>1, <1>6, <2>1, <2>3, AtWork
      <3>3. query'[q].version = source'[s].version
        BY <1>1, <2>4
      <3>4. QED
        BY <2>4, <3>1, <3>2, <3>3 DEF CopyDuring, Works
    <2>9. QED
      BY <1>1, <2>8, OwnCurrent
  <1>8. CASE CloseCache(q)
    <2>1. query[q].pc = "convert" /\ query[q].next > query[q].length /\ Goto(q, "register")
      BY <1>8 DEF CloseCache, AtStep
    <2>2. query[q].next - 1 = Parts
      BY <1>2, <1>6, <2>1, SqlAssumption DEF QueryState
    <2>3. /\ cache'[t].parts = copy.parts /\ cache'[t].mtime = clock
          /\ cache'[t].exists = copy.exists /\ cache'[t].footer = query[q].next - 1
      BY <1>2, <1>8 DEF CloseCache, CurrentInv, WholeInv, SqlTypeOK, CacheState
    <2>4. cache'[t].parts = RowsAt(s, v)
      BY <1>6, <2>1, <2>2, <2>3, AllParts
    <2>5. query'[q].pc = "register" /\ query'[q].version = v /\ query'[q].source = s
      BY <1>3, <2>1
    <2>6. Works(q, s)' /\ CopyDuring(s, q, cache[t])'
      <3>1. (cache[t].parts = RowsAt(s, source[s].version))'
        BY <1>1, <2>4 DEF RowsAt
      <3>2. cache'[t].exists /\ cache'[t].footer = Parts /\ cache'[t].mtime >= source'[s].mtime
        BY <1>1, <1>6, <2>1, <2>2, <2>3, AtWork
      <3>3. query'[q].version = source'[s].version
        BY <1>1, <2>5
      <3>4. QED
        BY <2>5, <3>1, <3>2, <3>3 DEF CopyDuring, Works
    <2>7. QED
      BY <1>1, <2>6, OwnCurrent
  <1>9. QED
    BY <1>4, <1>5, <1>7, <1>8

\* The query reads the copy and answers.
LEMMA ReadingCurrent ==
  ASSUME CurrentInv, NEW s \in Sources, CopyCurrent(s), NEW q \in Queries, Works(q, s), faults' = faults,
         \/ ConvertError(q) \/ Register(q) \/ ScanPart(q) \/ OpenHandler(q) \/ ReadPart(q)
         \/ ReturnRows(q) \/ Crash(q)
  PROVE  /\ CopyCurrent(s)'
         /\ \/ answer' = answer
            \/ Reply(q, "rows", RowsAt(s, query[q].version))
  <1> DEFINE t     == CacheOf[s]
             copy == cache[t]
             v     == source[s].version
  <1>1. ~ConvertError(q) /\ ~Crash(q)
    BY DEF ConvertError, Crash, Fault, CurrentInv, WholeInv, SqlTypeOK
  <1>2. ~OpenHandler(q) /\ ~ReadPart(q) /\ query[q].pc # "read"
    BY AtWork DEF OpenHandler, ReadPart, AtStep, CopyDuring
  <1>3. query[q].version = v /\ t \in Caches /\ copy \in CacheState /\ query[q] \in QueryState /\ Target(q) = t
    BY AtWork DEF CopyDuring
  <1>4. query[q].pc \in {"register", "scan"} =>
          /\ copy.exists /\ copy.footer = Parts /\ copy.mtime >= source[s].mtime /\ copy.parts = RowsAt(s, v)
    BY AtWork DEF CopyDuring
  <1>5. CASE Register(q)
    <2>1. query[q].pc = "register" /\ Begin(q, "scan", Parts) /\ UNCHANGED <<source, cache, answer>>
      BY <1>3, <1>4, <1>5, SqlAssumption DEF Register, AtStep
    <2>2. /\ query'[q].pc = "scan" /\ query'[q].version = v /\ query'[q].source = s /\ query'[q].next = 1
          /\ query'[q].rows = query[q].rows /\ \A p \in Queries \ {q} : query'[p] = query[p]
      BY <1>3, <2>1, AtWork DEF Begin, CurrentInv, WholeInv, SqlTypeOK, QueryState
    <2>3. query'[q].rows = PartsTo(s, v, 0) /\ query'[q].next - 1 = 0
      BY <2>1, <2>2, AtWork, NothingYet DEF QueryRight
    <2>4. Works(q, s)' /\ CopyDuring(s, q, cache[t])'
      BY <1>4, <2>1, <2>2, <2>3 DEF CopyDuring, Works, PartsTo, RowsAt
    <2>5. QED
      BY <2>1, <2>2, <2>4, OwnCurrent
  <1>6. CASE ScanPart(q)
    <2>1. query[q].pc = "scan" /\ query[q].next <= query[q].length /\ UNCHANGED <<source, cache>>
      BY <1>6 DEF ScanPart, AtStep
    <2>2. query[q].next \in Nat \ {0} /\ query[q].next \in 1 .. Parts
      BY <1>3, <2>1, AtWork, SqlAssumption DEF QueryRight, QueryState
    <2>3. /\ query[q].next \in DOMAIN copy.parts
          /\ copy.parts[query[q].next] = [source |-> s, version |-> v, index |-> query[q].next]
      <3>1. copy.parts = RowsAt(s, v)
        BY <1>4, <2>1
      <3>2. /\ query[q].next \in DOMAIN RowsAt(s, v)
            /\ RowsAt(s, v)[query[q].next] = [source |-> s, version |-> v, index |-> query[q].next]
        BY <2>2 DEF RowsAt
      <3>3. QED
        BY <3>1, <3>2
    <2>4. Collect(q, copy.parts[query[q].next]) /\ answer' = answer
      BY <1>3, <1>6, <2>3 DEF ScanPart
    <2>5. /\ query'[q].pc = "scan" /\ query'[q].version = v /\ query'[q].source = s
          /\ query'[q].next = query[q].next + 1
          /\ query'[q].rows = Put(query[q].rows, query[q].next, copy.parts[query[q].next])
          /\ \A p \in Queries \ {q} : query'[p] = query[p]
      BY <1>3, <2>1, <2>4, AtWork DEF Collect, CurrentInv, WholeInv, SqlTypeOK, QueryState
    <2>6. query[q].rows = PartsTo(s, v, query[q].next - 1)
      BY <2>1, AtWork DEF CopyDuring
    <2>7. query'[q].rows = PartsTo(s, v, query[q].next)
      BY <2>2, <2>3, <2>5, <2>6, NextPart
    <2>8. query'[q].next - 1 = query[q].next
      BY <2>2, <2>5
    <2>9. Works(q, s)' /\ CopyDuring(s, q, cache[t])'
      BY <1>4, <2>1, <2>5, <2>7, <2>8 DEF CopyDuring, Works, PartsTo, RowsAt
    <2>10. QED
      BY <2>1, <2>4, <2>5, <2>9, OwnCurrent
  <1>7. CASE ReturnRows(q)
    <2>1. query[q].pc = "scan" /\ query[q].next > query[q].length /\ Reply(q, "rows", query[q].rows)
          /\ UNCHANGED <<source, cache>>
      BY <1>2, <1>7 DEF ReturnRows
    <2>2. query[q].next - 1 = Parts
      BY <1>3, <2>1, AtWork, SqlAssumption DEF QueryRight, QueryState
    <2>3. query[q].rows = RowsAt(s, v)
      BY <2>1, <2>2, AtWork, AllParts DEF CopyDuring
    <2>4. query'[q] = [Idle EXCEPT !.asked = query[q].asked] /\ \A p \in Queries \ {q} : query'[p] = query[p]
      BY <2>1 DEF Reply, CurrentInv, WholeInv, SqlTypeOK
    <2>5. ~Works(q, s)'
      BY <2>4 DEF Works, Idle
    <2>6. CopyOf(s, cache[t])'
      <3>1. v \in 0 .. v
        BY AtWork
      <3>2. QED
        BY <1>4, <2>1, <3>1 DEF CopyOf, RowsAt
    <2>7. QED
      BY <1>3, <2>1, <2>3, <2>4, <2>5, <2>6, OwnCurrent
  <1>8. QED
    BY <1>1, <1>2, <1>5, <1>6, <1>7

\* What no step of a query but its first disturbs.
LEMMA QueryFrame ==
  ASSUME SqlTypeOK, NEW q \in Queries, QueryStep(q), \A s \in Sources : ~Ask(q, s)
  PROVE  /\ source' = source /\ apart' = apart /\ query[q].pc # "idle"
         /\ \A p \in Queries \ {q} : query'[p] = query[p]
         /\ \A t \in Caches \ {Target(q)} : cache'[t] = cache[t]
         /\ query'[q].pc = "idle" \/ query'[q].source = query[q].source
         /\ faults' = faults \/ faults' = faults + 1
         /\ answer' = answer \/ \E outcome, table : Reply(q, outcome, table)
  <1>1. query[q] \in QueryState
    BY DEF SqlTypeOK
  <1>2. ASSUME NEW label, Goto(q, label)
        PROVE  query'[q].source = query[q].source /\ \A p \in Queries \ {q} : query'[p] = query[p]
    BY <1>1, <1>2 DEF Goto, SqlTypeOK, QueryState
  <1>3. ASSUME NEW label, NEW length, Begin(q, label, length)
        PROVE  query'[q].source = query[q].source /\ \A p \in Queries \ {q} : query'[p] = query[p]
    BY <1>1, <1>3 DEF Begin, SqlTypeOK, QueryState
  <1>4. ASSUME NEW outcome, NEW table, Reply(q, outcome, table)
        PROVE  query'[q].pc = "idle" /\ \A p \in Queries \ {q} : query'[p] = query[p]
    BY <1>4 DEF Reply, Idle, SqlTypeOK
  <1>5. ASSUME NEW part, Collect(q, part)
        PROVE  query'[q].source = query[q].source /\ \A p \in Queries \ {q} : query'[p] = query[p]
    BY <1>1, <1>5 DEF Collect, SqlTypeOK, QueryState
  <1>6. CASE Look(q) \/ StatTarget(q)
    BY <1>2, <1>6 DEF Look, StatTarget, AtStep, Fault
  <1>7. CASE StatSource(q)
    <2>1. CASE query' = [query EXCEPT ![q].pc = "stattarget", ![q].mtime = source[query[q].source].mtime]
      BY <1>1, <1>7, <2>1 DEF StatSource, AtStep, Fault, SqlTypeOK, QueryState
    <2>2. CASE Goto(q, "register")
      BY <1>2, <1>7, <2>2 DEF StatSource, AtStep, Fault
    <2>3. QED
      BY <1>7, <2>1, <2>2 DEF StatSource
  <1>8. CASE Create(q) \/ CloseCache(q)
    BY <1>2, <1>8 DEF Create, CloseCache, AtStep, Fault, SqlTypeOK
  <1>9. CASE ConvertPart(q)
    BY <1>1, <1>9 DEF ConvertPart, AtStep, SqlTypeOK, QueryState
  <1>10. CASE OpenSource(q) \/ ConvertError(q)
    BY <1>2, <1>3, <1>10 DEF OpenSource, ConvertError, AtStep, Fault
  <1>11. CASE Register(q)
    BY <1>3, <1>4, <1>11 DEF Register, AtStep
  <1>12. CASE ScanPart(q) \/ ReadPart(q)
    BY <1>4, <1>5, <1>12 DEF ScanPart, ReadPart, AtStep, Fault
  <1>13. CASE OpenHandler(q) \/ ReturnRows(q)
    BY <1>3, <1>4, <1>13 DEF OpenHandler, ReturnRows, AtStep, Fault
  <1>14. CASE Crash(q)
    BY <1>14 DEF Crash, AtStep, Fault, Idle, SqlTypeOK
  <1>15. QED
    BY <1>6, <1>7, <1>8, <1>9, <1>10, <1>11, <1>12, <1>13, <1>14 DEF QueryStep

\* A query over the source begins, where no other is at work.
LEMMA AskingCurrent ==
  ASSUME CurrentInv, CopiesApart, NEW s \in Sources, CopyCurrent(s), s \in apart',
         NEW q \in Queries, NEW r \in Sources, Ask(q, r)
  PROVE  CopyCurrent(s)'
  <1>1. /\ query[q].pc = "idle" /\ UNCHANGED <<source, cache>>
        /\ query'[q].pc = "look" /\ query'[q].source = r /\ query'[q].version = source[r].version
        /\ \A p \in Queries \ {q} : query'[p] = query[p]
    BY DEF Ask, AtStep, CurrentInv, WholeInv, SqlTypeOK, QueryState
  <1>2. CASE r = s
    <2>1. \A p \in Queries : ~Works(p, s)
      BY <1>2 DEF Ask, Busy, AtStep, Works
    <2>2. CopyOf(s, cache[CacheOf[s]])
      BY <2>1 DEF CopyCurrent
    <2>3. CopyOf(s, cache[CacheOf[s]])'
      BY <1>1, <2>2 DEF CopyOf
    <2>4. CopyDuring(s, q, cache[CacheOf[s]])' /\ Works(q, s)'
      BY <1>1, <1>2, <2>3 DEF CopyDuring, Works
    <2>5. \A p \in Queries \ {q} : ~Works(p, s)'
      BY <1>1, <2>1 DEF Works
    <2>6. QED
      BY <2>4, <2>5 DEF CopyCurrent
  <1>3. CASE r # s
    <2>1. ~Works(q, s) /\ ~Works(q, s)'
      BY <1>1, <1>3 DEF Works
    <2>2. QED
      BY <1>1, <2>1, OthersCurrent
  <1>4. QED
    BY <1>2, <1>3

\* Nothing the queries over the source see has changed.
LEMMA UndisturbedCurrent ==
  ASSUME NEW s \in Sources, CopyCurrent(s), UNCHANGED <<cache, query>>, source'[s] = source[s]
  PROVE  CopyCurrent(s)'
  <1>1. \A q \in Queries : Works(q, s)' <=> Works(q, s)
    BY DEF Works
  <1>2. CopyOf(s, cache[CacheOf[s]])' <=> CopyOf(s, cache[CacheOf[s]])
    BY DEF CopyOf
  <1>3. ASSUME NEW q \in Queries, Works(q, s) PROVE CopyDuring(s, q, cache[CacheOf[s]])'
    <2>1. CopyDuring(s, q, cache[CacheOf[s]])
      BY <1>3 DEF CopyCurrent
    <2>2. QED
      BY <1>2, <2>1 DEF CopyDuring, PartsTo, RowsAt
  <1>4. QED
    BY <1>1, <1>2, <1>3 DEF CopyCurrent

\* The clock, and a write to a source, with an mtime of its own if the source
\* is one of those.
LEMMA EnvironmentCurrent ==
  ASSUME CurrentInv, NEW s \in Sources, CopyCurrent(s), s \in apart',
         Tick \/ \E r \in Sources, fresh \in BOOLEAN : WriteSource(r, fresh)
  PROVE  CopyCurrent(s)'
  <1>1. UNCHANGED <<cache, query>> /\ (\A q \in Queries : Works(q, s)' <=> Works(q, s))
    BY DEF Tick, WriteSource, Works
  <1>2. CASE source'[s] = source[s]
    BY <1>1, <1>2, UndisturbedCurrent
  <1>3. CASE source'[s] # source[s]
    <2>1. WriteSource(s, TRUE) /\ \A q \in Queries : ~Works(q, s)
      <3>1. ~Tick
        BY <1>3 DEF Tick
      <3>2. PICK r \in Sources, fresh \in BOOLEAN : WriteSource(r, fresh)
        BY <3>1
      <3>3. r = s
        BY <1>3, <3>2 DEF WriteSource, CurrentInv, WholeInv, SqlTypeOK
      <3>4. fresh /\ ~Busy(s)
        BY <3>2, <3>3 DEF WriteSource
      <3>5. QED
        BY <3>2, <3>3, <3>4 DEF Busy, AtStep, Works
    <2>2. CopyOf(s, cache[CacheOf[s]])
      BY <2>1 DEF CopyCurrent
    <2>3. /\ source'[s].version = source[s].version + 1 /\ source'[s].mtime = clock + 1
          /\ source[s].version \in Nat /\ clock \in Nat
          /\ cache[CacheOf[s]].mtime \in Nat /\ cache[CacheOf[s]].mtime <= clock
      <3>1. SqlTypeOK /\ CacheOf[s] \in Caches
        BY SqlAssumption DEF CurrentInv, WholeInv
      <3>2. source[s].version \in Nat /\ clock \in Nat /\ cache[CacheOf[s]].mtime \in Nat
        BY <3>1, SqlAssumption DEF SqlTypeOK, SourceState, CacheState
      <3>3. source'[s] = [version |-> source[s].version + 1, mtime |-> clock']
        BY <2>1, <3>1 DEF WriteSource, SqlTypeOK
      <3>4. clock' = clock + 1
        BY <2>1 DEF WriteSource
      <3>5. cache[CacheOf[s]].mtime <= clock
        BY <3>1 DEF CurrentInv
      <3>6. QED
        BY <3>2, <3>3, <3>4, <3>5
    <2>4. CopyOf(s, cache[CacheOf[s]])'
      <3>1. CASE cache[CacheOf[s]].exists
        <4>1. PICK v \in 0 .. source[s].version : cache[CacheOf[s]].parts = RowsAt(s, v)
          BY <2>2, <3>1 DEF CopyOf
        <4>2. v \in 0 .. source'[s].version /\ v # source'[s].version
              /\ ~(cache[CacheOf[s]].mtime >= source'[s].mtime)
          BY <2>3
        <4>3. (cache[CacheOf[s]].parts = RowsAt(s, v))'
          BY <1>1, <4>1 DEF RowsAt
        <4>4. cache'[CacheOf[s]].exists /\ cache'[CacheOf[s]].footer = Parts
              /\ ~(cache'[CacheOf[s]].mtime >= source'[s].mtime)
          BY <1>1, <2>2, <3>1, <4>2 DEF CopyOf
        <4>5. QED
          BY <4>2, <4>3, <4>4 DEF CopyOf
      <3>2. CASE ~cache[CacheOf[s]].exists
        BY <1>1, <2>2, <3>2 DEF CopyOf
      <3>3. QED
        BY <3>1, <3>2
    <2>5. QED
      BY <1>1, <2>1, <2>4 DEF CopyCurrent
  <1>4. QED
    BY <1>2, <1>3

\* A query finds the copy current, leaves it so, and answers from it.
LEMMA QueryCurrent ==
  ASSUME CurrentInv, CopiesApart, faults = 0, faults' = 0, NEW q \in Queries, QueryStep(q),
         \A r \in Sources : ~Ask(q, r), NEW s \in apart
  PROVE  /\ CopyCurrent(s)'
         /\ query[q].source = s => answer' = answer \/ Reply(q, "rows", RowsAt(s, query[q].version))
  <1>1. s \in Sources /\ CopyCurrent(s) /\ SqlTypeOK
    BY DEF CurrentInv, WholeInv, SqlTypeOK
  <1>2. query[q].pc # "idle" /\ faults' = faults
    BY <1>1, QueryFrame
  <1>3. CASE query[q].source = s
    <2>1. Works(q, s)
      BY <1>2, <1>3 DEF Works
    <2>2. CASE Look(q) \/ StatSource(q) \/ StatTarget(q)
      <3>1. answer' = answer
        BY <2>2 DEF Look, StatSource, StatTarget
      <3>2. CopyCurrent(s)'
        BY <1>1, <1>2, <2>1, <2>2, LookingCurrent
      <3>3. QED
        BY <3>1, <3>2
    <2>3. CASE Create(q) \/ OpenSource(q) \/ ConvertPart(q) \/ CloseCache(q)
      <3>1. answer' = answer
        BY <2>3 DEF Create, OpenSource, ConvertPart, CloseCache
      <3>2. CopyCurrent(s)'
        BY <1>1, <1>2, <2>1, <2>3, TranscodingCurrent
      <3>3. QED
        BY <3>1, <3>2
    <2>4. CASE \/ ConvertError(q) \/ Register(q) \/ ScanPart(q) \/ OpenHandler(q) \/ ReadPart(q)
               \/ ReturnRows(q) \/ Crash(q)
      BY <1>1, <1>2, <2>1, <2>4, ReadingCurrent
    <2>5. QED
      BY <2>2, <2>3, <2>4 DEF QueryStep
  <1>4. CASE query[q].source # s
    <2>1. query[q].source \in Sources /\ CacheOf[s] \in Caches
      BY <1>1, SqlAssumption DEF SqlTypeOK, QueryState
    <2>2. CacheOf[s] # Target(q)
      BY <1>1, <1>4, <2>1 DEF CopiesApart, Target
    <2>3. /\ source' = source /\ cache'[CacheOf[s]] = cache[CacheOf[s]]
          /\ \A p \in Queries \ {q} : query'[p] = query[p]
          /\ query'[q].pc = "idle" \/ query'[q].source = query[q].source
      BY <1>1, <2>1, <2>2, QueryFrame
    <2>4. ~Works(q, s) /\ ~Works(q, s)'
      BY <1>4, <2>3 DEF Works
    <2>5. CopyCurrent(s)'
      BY <1>1, <2>3, <2>4, OthersCurrent
    <2>6. QED
      BY <1>4, <2>5
  <1>5. QED
    BY <1>3, <1>4


LEMMA AnswersStayCurrent ==
  ASSUME CurrentInv, CopiesApart, [SqlNext]_sqlVars
  PROVE  SqlAnswersCurrent'
  <1>1. SqlTypeOK /\ SqlAnswersCurrent /\ faults \in Nat
    BY SqlAssumption DEF CurrentInv, WholeInv, SqlTypeOK
  <1>2. CASE answer' = answer /\ apart' \subseteq apart /\ (faults' = 0 => faults = 0)
    BY <1>1, <1>2 DEF SqlAnswersCurrent, RowsAt
  <1>3. ASSUME NEW q \in Queries, QueryStep(q), \A s \in Sources : ~Ask(q, s) PROVE SqlAnswersCurrent'
    <2>1. apart' = apart /\ (faults' = 0 => faults = 0) /\ query[q].source \in Sources
          /\ (answer' = answer \/ \E outcome, table : Reply(q, outcome, table))
      BY <1>1, <1>3, QueryFrame DEF SqlTypeOK, QueryState
    <2>2. CASE answer' = answer
      BY <1>2, <2>1, <2>2
    <2>3. CASE answer' # answer
      <3>1. PICK outcome, table : Reply(q, outcome, table)
        BY <2>1, <2>3
      <3>2. answer'[q].source = query[q].source /\ \A p \in Queries \ {q} : answer'[p] = answer[p]
        BY <1>1, <3>1 DEF Reply, SqlTypeOK
      <3>3. CASE query[q].source \in apart /\ faults' = 0
        <4>1. Reply(q, "rows", RowsAt(query[q].source, query[q].version))
          BY <1>3, <2>1, <2>3, <3>3, QueryCurrent
        <4>2. /\ answer'[q].kind = "rows" /\ answer'[q].from = query[q].version
              /\ answer'[q].rows = RowsAt(query[q].source, query[q].version)
          BY <1>1, <4>1 DEF Reply, SqlTypeOK
        <4>3. answer'[q].rows = RowsAt(answer'[q].source, answer'[q].from)
          BY <3>2, <4>2
        <4>4. ASSUME NEW p \in Queries, (answer[p].kind # "none" /\ answer[p].source \in apart /\ faults = 0)'
              PROVE  (answer[p].kind = "rows" /\ answer[p].rows = RowsAt(answer[p].source, answer[p].from))'
          <5>1. CASE p = q
            BY <4>2, <4>3, <5>1 DEF RowsAt
          <5>2. CASE p # q
            <6>1. answer'[p] = answer[p]
              BY <3>2, <5>2
            <6>2. answer[p].kind = "rows" /\ answer[p].rows = RowsAt(answer[p].source, answer[p].from)
              BY <1>1, <2>1, <4>4, <6>1 DEF SqlAnswersCurrent
            <6>3. QED
              BY <6>1, <6>2 DEF RowsAt
          <5>3. QED
            BY <5>1, <5>2
        <4>5. QED
          BY <4>4 DEF SqlAnswersCurrent
      <3>4. CASE ~(query[q].source \in apart /\ faults' = 0)
        <4>1. ASSUME NEW p \in Queries, (answer[p].kind # "none" /\ answer[p].source \in apart /\ faults = 0)'
              PROVE  (answer[p].kind = "rows" /\ answer[p].rows = RowsAt(answer[p].source, answer[p].from))'
          <5>1. p # q
            BY <2>1, <3>2, <3>4, <4>1
          <5>2. answer'[p] = answer[p]
            BY <3>2, <5>1
          <5>3. answer[p].kind = "rows" /\ answer[p].rows = RowsAt(answer[p].source, answer[p].from)
            BY <1>1, <2>1, <4>1, <5>2 DEF SqlAnswersCurrent
          <5>4. QED
            BY <5>2, <5>3 DEF RowsAt
        <4>2. QED
          BY <4>1 DEF SqlAnswersCurrent
      <3>5. QED
        BY <3>3, <3>4
    <2>4. QED
      BY <2>2, <2>3
  <1>4. ASSUME NEW q \in Queries, NEW s \in Sources, Ask(q, s) PROVE SqlAnswersCurrent'
    <2>1. answer' = answer /\ apart' \subseteq apart /\ faults' = faults
      BY <1>4 DEF Ask
    <2>2. QED
      BY <1>2, <2>1
  <1>5. CASE Tick \/ \E s \in Sources, fresh \in BOOLEAN : WriteSource(s, fresh)
    <2>1. answer' = answer /\ apart' \subseteq apart /\ faults' = faults
      BY <1>5 DEF Tick, WriteSource
    <2>2. QED
      BY <1>2, <2>1
  <1>6. CASE UNCHANGED sqlVars
    <2>1. answer' = answer /\ apart' \subseteq apart /\ faults' = faults
      BY <1>6 DEF sqlVars
    <2>2. QED
      BY <1>2, <2>1
  <1>7. QED
    BY <1>3, <1>4, <1>5, <1>6 DEF SqlNext

LEMMA CurrentStarts == SqlInit => CurrentInv
  <1> SUFFICES ASSUME SqlInit PROVE CurrentInv
    OBVIOUS
  <1>1. \A s \in Sources : source[s].mtime <= clock
    BY DEF SqlInit
  <1>2. \A t \in Caches : cache[t].mtime <= clock
    BY DEF SqlInit, Absent
  <1>3. ASSUME NEW s \in Sources PROVE CopyCurrent(s)
    <2>1. \A q \in Queries : ~Works(q, s)
      BY DEF SqlInit, Works, Idle
    <2>2. ~cache[CacheOf[s]].exists /\ cache[CacheOf[s]].footer = 0
      BY SqlAssumption DEF SqlInit, Absent
    <2>3. CopyOf(s, cache[CacheOf[s]])
      BY <2>2 DEF CopyOf
    <2>4. QED
      BY <2>1, <2>3 DEF CopyCurrent
  <1>4. SqlAnswersCurrent
    BY DEF SqlInit, SqlAnswersCurrent, NoAnswer
  <1>5. \A s \in apart : CopyCurrent(s)
    BY <1>3 DEF SqlInit
  <1>6. QED
    BY <1>1, <1>2, <1>4, <1>5, WholeStarts DEF CurrentInv

LEMMA CurrentStep == CopiesApart /\ CurrentInv /\ [SqlNext]_sqlVars => CurrentInv'
  <1> SUFFICES ASSUME CopiesApart, CurrentInv, [SqlNext]_sqlVars PROVE CurrentInv'
    OBVIOUS
  <1>1. WholeInv'
    BY WholeStep DEF CurrentInv
  <1>2. ASSUME faults' = 0, NEW s \in apart' PROVE CopyCurrent(s)'
    <2>1. s \in Sources /\ SqlTypeOK /\ faults \in Nat
      BY <1>1, <1>2, SqlAssumption DEF CurrentInv, WholeInv, SqlTypeOK
    <2>2. ASSUME NEW q \in Queries, QueryStep(q), \A r \in Sources : ~Ask(q, r) PROVE CopyCurrent(s)'
      <3>1. apart' = apart /\ faults = 0
        BY <1>2, <2>1, <2>2, QueryFrame
      <3>2. QED
        BY <1>2, <2>2, <3>1, QueryCurrent
    <2>3. ASSUME NEW q \in Queries, NEW r \in Sources, Ask(q, r) PROVE CopyCurrent(s)'
      <3>1. s \in apart /\ faults = 0
        BY <1>2, <2>3 DEF Ask
      <3>2. CopyCurrent(s)
        BY <3>1 DEF CurrentInv
      <3>3. QED
        BY <1>2, <2>1, <2>3, <3>2, AskingCurrent
    <2>4. CASE Tick \/ \E r \in Sources, fresh \in BOOLEAN : WriteSource(r, fresh)
      <3>1. s \in apart /\ faults = 0
        BY <1>2, <2>4 DEF Tick, WriteSource
      <3>2. CopyCurrent(s)
        BY <3>1 DEF CurrentInv
      <3>3. QED
        BY <1>2, <2>1, <2>4, <3>2, EnvironmentCurrent
    <2>5. CASE UNCHANGED sqlVars
      <3>1. s \in apart /\ faults = 0
        BY <1>2, <2>5 DEF sqlVars
      <3>2. CopyCurrent(s)
        BY <3>1 DEF CurrentInv
      <3>3. QED
        BY <2>1, <2>5, <3>2, UndisturbedCurrent DEF sqlVars
    <2>6. QED
      BY <2>2, <2>3, <2>4, <2>5 DEF SqlNext
  <1>3. SqlAnswersCurrent'
    BY AnswersStayCurrent
  <1>4. QED
    BY <1>1, <1>2, <1>3, TimesStayRight DEF CurrentInv

\* A copy that has the rows of its source is not written again.
LEMMA CopyKept ==
  ASSUME CopiesApart, CurrentInv, [SqlNext]_sqlVars, NEW s \in apart, faults = 0, cache[CacheOf[s]].footer > 0,
         cache[CacheOf[s]].parts = RowsAt(s, source[s].version)
  PROVE  cache'[CacheOf[s]] = cache[CacheOf[s]]
  <1>1. s \in Sources /\ CopyCurrent(s) /\ SqlTypeOK /\ CacheOf[s] \in Caches
    BY SqlAssumption DEF CurrentInv, WholeInv, SqlTypeOK
  <1>2. CASE \E q \in Queries : QueryStep(q) /\ \A r \in Sources : ~Ask(q, r)
    <2>1. PICK q \in Queries : QueryStep(q) /\ \A r \in Sources : ~Ask(q, r)
      BY <1>2
    <2>2. CASE Target(q) # CacheOf[s]
      BY <1>1, <2>1, <2>2, QueryFrame
    <2>3. CASE Target(q) = CacheOf[s]
      <3>1. query[q].source \in Sources
        BY <1>1 DEF SqlTypeOK, QueryState
      <3>2. query[q].source = s /\ query[q].pc # "idle"
        BY <1>1, <2>1, <2>3, <3>1, QueryFrame DEF CopiesApart, Target
      <3>3. CopyDuring(s, q, cache[CacheOf[s]])
        BY <1>1, <3>2 DEF CopyCurrent, Works
      <3>4. query[q].pc \notin {"open", "convert"}
        BY <3>3 DEF CopyDuring
      <3>5. query[q].pc # "create"
        <4>1. SUFFICES ASSUME query[q].pc = "create" PROVE FALSE
          OBVIOUS
        <4>2. CopyOf(s, cache[CacheOf[s]]) /\ (cache[CacheOf[s]].exists => cache[CacheOf[s]].mtime < source[s].mtime)
          BY <3>3, <4>1 DEF CopyDuring
        <4>3. cache[CacheOf[s]].exists
          BY <4>2 DEF CopyOf
        <4>4. PICK v \in 0 .. source[s].version :
                /\ cache[CacheOf[s]].parts = RowsAt(s, v)
                /\ cache[CacheOf[s]].mtime >= source[s].mtime <=> v = source[s].version
          BY <4>2, <4>3 DEF CopyOf
        <4>5. v = source[s].version
          BY <4>4, VersionsDiffer
        <4>6. cache[CacheOf[s]].mtime \in Nat /\ source[s].mtime \in Nat
          BY <1>1, SqlAssumption DEF SqlTypeOK, SourceState, CacheState
        <4>7. QED
          BY <4>2, <4>3, <4>4, <4>5, <4>6
      <3>6. cache' = cache
        BY <2>1, <3>4, <3>5 DEF QueryStep, Look, StatSource, StatTarget, Create, OpenSource, ConvertPart,
             ConvertError, CloseCache, Register, ScanPart, OpenHandler, ReadPart, ReturnRows, Crash, AtStep
      <3>7. QED
        BY <3>6
    <2>4. QED
      BY <2>2, <2>3
  <1>3. CASE cache' = cache
    BY <1>3
  <1>4. QED
    BY <1>2, <1>3 DEF SqlNext, sqlVars, Tick, WriteSource, QueryStep, Ask
-----------------------------------------------------------------------------
(* The theorems about SQL. *)

\* Sources, cached files, queries and answers keep their types: no query counts
\* past the parts of a file (sql.rs:146-263).
THEOREM SqlTyped == SqlSpec => []SqlTypeOK
  <1>1. SqlTypeOK /\ [SqlNext]_sqlVars => SqlTypeOK'
    BY SqlTypes
  <1>2. QED
    BY SqlStarts, <1>1, PTL DEF SqlSpec

LEMMA WholeInvariant == ASSUME CopiesApart PROVE SqlSpec => []WholeInv
  <1>1. WholeInv /\ [SqlNext]_sqlVars => WholeInv'
    BY WholeStep
  <1>2. QED
    BY WholeStarts, <1>1, PTL DEF SqlSpec

LEMMA CurrentInvariant == ASSUME CopiesApart PROVE SqlSpec => []CurrentInv
  <1>1. CurrentInv /\ [SqlNext]_sqlVars => CurrentInv'
    BY CurrentStep
  <1>2. QED
    BY CurrentStarts, <1>1, PTL DEF SqlSpec

\* Whatever queries, writes, errors and crashes come between, a query returns
\* every part of the file, no row, or an error, if no two files share a cached
\* copy (sql.rs:150-180, 246-263; ingest.rs:145-170).
THEOREM QueriesAnswerWhole == ASSUME CopiesApart PROVE SqlSpec => []SqlAnswersWhole
  <1>1. WholeInv => SqlAnswersWhole
    BY DEF WholeInv
  <1>2. QED
    BY <1>1, WholeInvariant, PTL

\* A query over a file that is only written between queries, each time with an
\* mtime of its own, returns the rows the file has, if no two files share a
\* cached copy (sql.rs:164-178).
THEOREM QueriesAnswerCurrent == ASSUME CopiesApart PROVE SqlSpec => []SqlAnswersCurrent
  <1>1. CurrentInv => SqlAnswersCurrent
    BY DEF CurrentInv
  <1>2. QED
    BY <1>1, CurrentInvariant, PTL

\* No step writes a copy again that has the rows such a file has now, if no two
\* files share a cached copy (sql.rs:246-247).
THEOREM TranscodedOnce == ASSUME CopiesApart PROVE SqlSpec => SqlTranscodedOnce
  <1>1. CurrentInv /\ [SqlNext]_sqlVars =>
          [\A s \in apart :
             LET t == CacheOf[s] IN
             faults = 0 /\ cache[t].footer > 0 /\ cache[t].parts = RowsAt(s, source[s].version) =>
               cache'[t] = cache[t]]_sqlVars
    BY CopyKept
  <1>2. QED
    BY CurrentInvariant, <1>1, PTL DEF SqlSpec, SqlTranscodedOnce
-----------------------------------------------------------------------------
(* The ways together. *)

\* What each of the ways relies on.
FilesInv == TextInv /\ RightInv /\ RegistryInv /\ ServedInv /\ CurrentInv

\* An array that a behaviour is not about is at its start.
LEMMA NoArrayBegins == ASSUME NoArray PROVE RightInv
<1>1. <<>> \in Seq(Characters) /\ Len(<<>>) = 0
  OBVIOUS
<1>2. PICK e : e \in Seq(Characters) /\ Len(e) = 0 /\ doc = e
  BY <1>1 DEF NoArray
<1>3. FileInv
  BY <1>2, LongestNat DEF FileInv
<1>4. QED
  BY <1>3, RightBegins DEF NoArray

LEMMA FilesStart == FilesInit => FilesInv
  <1>1. FilesInit => Init /\ RegistryInit /\ SqlInit
    <2>1. NoRegistry => RegistryInit
      <3>1. [h \in Handlers |-> 0] \in [Handlers -> 0 .. MaxRows]
        BY RegistryAssumption
      <3>2. QED
        BY <3>1 DEF NoRegistry, RegistryInit, SourceFile
    <2>2. QED
      BY <2>1 DEF FilesInit, NoText, NoSql
  <1>2. FilesInit => RightInv
    <2>1. ArrayInit => RightInv
      BY FilesBegin, RightBegins DEF ArrayInit
    <2>2. FilesInit => ArrayInit \/ NoArray
      BY DEF FilesInit
    <2>3. QED
      BY <2>1, <2>2, NoArrayBegins
  <1>3. QED
    BY <1>1, <1>2, InitInv, RegistryInvInit, CurrentStarts DEF FilesInv

LEMMA FilesStep == CopiesApart /\ FilesInv /\ [FilesNext]_fileVars => FilesInv'
  <1> SUFFICES ASSUME CopiesApart, FilesInv, [FilesNext]_fileVars PROVE FilesInv'
    OBVIOUS
  <1>1. /\ [Next]_textVars /\ [ArrayNext]_arrayVars
        /\ [RegistryNext]_registryVars /\ [SqlNext]_sqlVars
    BY DEF FilesNext, fileVars
  <1>2. TextInv'
    BY <1>1, NextInv DEF FilesInv
  <1>3. RightInv'
    BY <1>1, RightSteps DEF FilesInv
  <1>4. RegistryInv' /\ ServedInv'
    BY <1>1, RegistryInvNext DEF FilesInv
  <1>5. CurrentInv'
    BY <1>1, CurrentStep DEF FilesInv
  <1>6. QED
    BY <1>2, <1>3, <1>4, <1>5 DEF FilesInv

\* In a behaviour of any of the ways to the rows of a file, the byte offsets of
\* the lake map lead to its lines and to the rows of its array, a slice is served by
\* one handler, and a query answers with the whole file, as it is if it was only
\* written between queries (inspect.rs, json.rs, formats/mod.rs, sql.rs).
THEOREM FilesAreRight ==
  ASSUME CopiesApart
  PROVE  FilesSpec => [](/\ TextBlocksRight /\ ArrayRowsRight
                         /\ QuietInspectionRight /\ SliceServed
                         /\ SqlAnswersWhole /\ SqlAnswersCurrent)
  <1>1. FilesInv /\ [FilesNext]_fileVars => FilesInv'
    BY FilesStep
  <1>2. FilesInv => TextBlocksRight
    BY DEF FilesInv, TextInv, TextBlocksRight, CheckpointsRight, Marks, Splits
  <1>3. FilesInv => ArrayRowsRight
    BY RowsAreRight DEF FilesInv
  <1>4. FilesInv => QuietInspectionRight
    BY DEF FilesInv, RegistryInv, EntryInv
  <1>5. FilesInv => SliceServed
    BY DEF FilesInv, ServedInv, Served, SliceServed
  <1>6. FilesInv => SqlAnswersWhole /\ SqlAnswersCurrent
    BY DEF FilesInv, CurrentInv, WholeInv
  <1>7. QED
    BY FilesStart, <1>1, <1>2, <1>3, <1>4, <1>5, <1>6, PTL DEF FilesSpec

\* Whichever of the ways a behaviour is about, it keeps its types (inspect.rs, json.rs,
\* formats/mod.rs, sql.rs).
THEOREM FilesTypesAreRight == FilesSpec => []FilesTypeOK
<1> DEFINE J == TextInv /\ RegistryInv /\ ServedInv /\ SqlTypeOK
                /\ (way = "array" => ArrayTypeOK)
<1>1. FilesInit => J
  <2> SUFFICES ASSUME FilesInit PROVE J
    OBVIOUS
  <2>1. TextInv /\ RegistryInv /\ ServedInv
    BY FilesStart DEF FilesInv
  <2>2. SqlInit /\ (way = "array" => ArrayInit)
    BY DEF FilesInit, NoSql
  <2>3. QED
    BY <2>1, <2>2, SqlStarts, ArrayTypesBegin
<1>2. J /\ [FilesNext]_fileVars => J'
  <2> SUFFICES ASSUME J, [FilesNext]_fileVars PROVE J'
    OBVIOUS
  <2>1. [Next]_textVars /\ [RegistryNext]_registryVars /\ [SqlNext]_sqlVars
    BY DEF FilesNext, fileVars
  <2>2. way' = way /\ (way = "array" => [ArrayNext]_arrayVars)
    BY DEF FilesNext, fileVars
  <2>3. TextInv'
    BY <2>1, NextInv
  <2>4. RegistryInv' /\ ServedInv'
    BY <2>1, RegistryInvNext
  <2>5. SqlTypeOK'
    BY <2>1, SqlTypes
  <2>6. way' = "array" => ArrayTypeOK'
    BY <2>2, ArrayTypesStep
  <2>7. QED
    BY <2>3, <2>4, <2>5, <2>6
<1>3. J => FilesTypeOK
  BY DEF FilesTypeOK, TextInv, RegistryInv
<1>4. QED
  BY <1>1, <1>2, <1>3, PTL DEF FilesSpec
=============================================================================
