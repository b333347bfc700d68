----------------------------- MODULE ArrayProofs -----------------------------
(***************************************************************************)
(* Proofs about JsonArray, for files of any length, arrays of any depth    *)
(* and any chunks.                                                         *)
(*                                                                         *)
(* What the filter does with a byte does not depend on what it has kept so *)
(* far, so that where a stream is the filter is as if all before had been  *)
(* one chunk; and the scan notes the brace of every row.                   *)
(*                                                                         *)
(* What JsonArray generates as the end of an array is, by induction over   *)
(* lengths, delivered and scanned as its rows.  The text of a stream has   *)
(* one reading.  What the filter delivers as a stream is the end of an     *)
(* array with the rows of that stream, again by induction over lengths.    *)
(***************************************************************************)
EXTENDS JsonArray, DataLemmas, FiniteSetTheorems, TLAPS

-----------------------------------------------------------------------------
(* Types. *)

\* A byte that is kept.
LEMMA KeepTypes ==
  ASSUME NEW s \in Filter, NEW b \in Punctuation
  PROVE  Keep(s, b) \in Filter
BY DEF Keep, Filter

\* A byte of a string.
LEMMA StringByteTypes ==
  ASSUME NEW s \in Filter, NEW b \in Punctuation
  PROVE  StringByte(s, b) \in Filter
<1>1. PICK k \in Filter : k = Keep(s, b)
  BY KeepTypes
<1>2. PICK e \in BOOLEAN, i \in BOOLEAN : /\ e = (~s.escaped /\ b = "b")
                                          /\ i = (s.escaped \/ b # "q")
  OBVIOUS
<1>3. StringByte(s, b) = [k EXCEPT !.escaped = e, !.in_string = i]
  BY <1>1, <1>2 DEF StringByte
<1>4. QED
  BY <1>3 DEF Filter

\* A byte between rows.
LEMMA RowByteTypes ==
  ASSUME NEW s \in Filter, NEW b \in Punctuation
  PROVE  RowByte(s, b) \in Filter
<1>1. PICK k \in Filter : k = Keep(s, b)
  BY KeepTypes
<1>2. /\ [k EXCEPT !.expect_value = FALSE, !.depth = 1] \in Filter
      /\ [s EXCEPT !.expect_value = TRUE] \in Filter
      /\ [s EXCEPT !.finished = TRUE] \in Filter
      /\ [s EXCEPT !.bad = TRUE] \in Filter
  BY DEF Filter
<1>3. QED
  BY <1>1, <1>2 DEF RowByte

\* A byte of a row.
LEMMA InnerByteTypes ==
  ASSUME NEW s \in Filter, NEW b \in Punctuation
  PROVE  InnerByte(s, b) \in Filter
<1>1. PICK k \in Filter : k = Keep(s, b)
  BY KeepTypes
<1>2. k.depth = s.depth /\ k.has_value = s.has_value
  BY <1>1 DEF Keep, Filter
<1>3. s.depth \in Nat /\ s.has_value \in BOOLEAN
  BY DEF Filter
<1>4. [k EXCEPT !.in_string = TRUE] \in Filter
  BY DEF Filter
<1>5. [k EXCEPT !.depth = @ + 1] \in Filter
  BY DEF Filter
<1>6. s.depth > 0 => [k EXCEPT !.depth = @ - 1,
                               !.has_value = @ \/ (s.depth = 1 /\ s.array_started)] \in Filter
  <2>1. SUFFICES ASSUME s.depth > 0
                 PROVE  [k EXCEPT !.depth = @ - 1,
                               !.has_value = @ \/ (s.depth = 1 /\ s.array_started)] \in Filter
    OBVIOUS
  <2> DEFINE h == k.has_value \/ (s.depth = 1 /\ s.array_started)
  <2>2. PICK d \in Nat : d = k.depth - 1
    <3>1. k.depth - 1 \in Nat
      BY <1>2, <1>3, <2>1
    <3>2. QED
      BY <3>1
  <2>3. h \in BOOLEAN
    OBVIOUS
  <2> HIDE DEF h
  <2>4. [k EXCEPT !.depth = d, !.has_value = h] \in Filter
    BY <2>3 DEF Filter
  <2>5. QED
    BY <2>2, <2>4 DEF h
<1>7. QED
  BY <1>1, <1>4, <1>5, <1>6 DEF InnerByte

\* A byte of the array.
LEMMA AfterStartTypes ==
  ASSUME NEW s \in Filter, NEW b \in Punctuation
  PROVE  AfterStart(s, b) \in Filter
<1>1. [s EXCEPT !.bad = s.array_started /\ b # " "] \in Filter
  <2>1. PICK x \in BOOLEAN : x = (s.array_started /\ b # " ")
    OBVIOUS
  <2>2. [s EXCEPT !.bad = x] \in Filter
    BY DEF Filter
  <2>3. QED
    BY <2>1, <2>2
<1>2. QED
  BY <1>1, RowByteTypes, StringByteTypes, InnerByteTypes DEF AfterStart

\* Any byte leaves a state of the filter: no depth is below zero.
LEMMA FilterByteTypes ==
  ASSUME NEW s \in Filter, NEW b \in Punctuation
  PROVE  FilterByte(s, b) \in Filter
<1>1. [s EXCEPT !.started = TRUE] \in Filter
  BY DEF Filter
<1>2. [s EXCEPT !.started = TRUE, !.array_started = TRUE, !.expect_value = TRUE] \in Filter
  BY DEF Filter
<1>3. AfterStart([s EXCEPT !.started = TRUE], b) \in Filter /\ AfterStart(s, b) \in Filter
  BY <1>1, AfterStartTypes
<1>4. s.bad \in BOOLEAN /\ s.started \in BOOLEAN
  BY DEF Filter
<1>5. QED
  BY <1>2, <1>3, <1>4 DEF FilterByte

\* Nothing is a text.
LEMMA NothingIsText == <<>> \in Seq(Punctuation) /\ <<>> \in Seq(Nat)
OBVIOUS

\* The states of the filter over the bytes of a chunk.
Filtering(g, a, bytes) ==
  g = [n \in 0 .. Len(bytes) |-> IF n = 0 THEN a ELSE FilterByte(g[n - 1], bytes[n])]

Filtered(a, bytes) == CHOOSE g : Filtering(g, a, bytes)

\* A chunk is filtered byte by byte.
LEMMA FilteredStep ==
  ASSUME NEW a \in Filter, NEW bytes \in Seq(Punctuation)
  PROVE  /\ Filtered(a, bytes)[0] = a
         /\ \A n \in 1 .. Len(bytes) :
              Filtered(a, bytes)[n] = FilterByte(Filtered(a, bytes)[n - 1], bytes[n])
<1>1. PICK N \in Nat : N = Len(bytes)
  OBVIOUS
<1>2. \A i \in 1 .. N : bytes[i] \in Punctuation
  BY <1>1
<1> DEFINE F == [i \in 1 .. N |-> [x \in Filter |-> FilterByte(x, bytes[i])]]
<1>3. F \in [1 .. N -> [Filter -> Filter]]
  BY <1>2, FilterByteTypes
<1>4. PICK g : Iterates(g, F, a, N, Filter)
  <2> HIDE DEF F
  <2>1. QED
    BY <1>3, IteratesExist
<1>5. \A n \in 0 .. N : g[n] = IF n = 0 THEN a ELSE FilterByte(g[n - 1], bytes[n])
  <2>1. TAKE n \in 0 .. N
  <2>2. CASE n = 0
    BY <1>4, <2>2 DEF Iterates
  <2>3. CASE n # 0
    <3>1. n \in 1 .. N /\ n - 1 \in 0 .. N
      BY <2>3
    <3>2. g[n] = F[n][g[n - 1]] /\ g[n - 1] \in Filter
      <4> HIDE DEF F
      <4>1. QED
        BY <1>4, <3>1 DEF Iterates
    <3>3. QED
      BY <2>3, <3>1, <3>2
  <2>4. QED
    BY <2>2, <2>3
<1>6. Filtering(g, a, bytes)
  <2>1. g = [n \in 0 .. N |-> g[n]]
    BY <1>4 DEF Iterates
  <2>2. QED
    BY <1>1, <1>5, <2>1 DEF Filtering
<1>7. Filtering(Filtered(a, bytes), a, bytes)
  BY <1>6 DEF Filtered
<1>8. PICK h : h = Filtered(a, bytes)
  OBVIOUS
<1>9. \A n \in 0 .. N : h[n] = IF n = 0 THEN a ELSE FilterByte(h[n - 1], bytes[n])
  BY <1>1, <1>7, <1>8 DEF Filtering
<1>10. 0 \in 0 .. N /\ \A n \in 1 .. N : n \in 0 .. N /\ n # 0
  OBVIOUS
<1>11. QED
  BY <1>1, <1>8, <1>9, <1>10

\* Each state is one.
LEMMA FilteredTypes ==
  ASSUME NEW a \in Filter, NEW bytes \in Seq(Punctuation)
  PROVE  \A n \in 0 .. Len(bytes) : Filtered(a, bytes)[n] \in Filter
<1>1. PICK N \in Nat : N = Len(bytes)
  OBVIOUS
<1>2. PICK h : h = Filtered(a, bytes)
  OBVIOUS
<1>3. h[0] = a /\ \A n \in 1 .. N : h[n] = FilterByte(h[n - 1], bytes[n])
  BY <1>1, <1>2, FilteredStep
<1> DEFINE K == {n \in Nat : n <= N /\ h[n] \notin Filter}
<1>4. SUFFICES ASSUME K # {} PROVE FALSE
  BY <1>1, <1>2
<1>5. PICK m \in K : \A n \in K : m <= n
  <2>1. K \subseteq Nat
    OBVIOUS
  <2> HIDE DEF K
  <2>2. QED
    BY <1>4, <2>1, LeastExists
<1>6. m \in Nat /\ m <= N /\ h[m] \notin Filter
  OBVIOUS
<1>7. m # 0
  BY <1>3, <1>6
<1>8. m \in 1 .. N /\ m - 1 \in Nat /\ m - 1 <= N /\ ~(m <= m - 1)
  BY <1>6, <1>7
<1>9. h[m - 1] \in Filter
  <2>1. m - 1 \notin K
    <3> HIDE DEF K
    <3>1. QED
      BY <1>5, <1>8
  <2>2. QED
    BY <1>8, <2>1
<1>10. bytes[m] \in Punctuation
  BY <1>1, <1>8
<1>11. FilterByte(h[m - 1], bytes[m]) \in Filter
  BY <1>9, <1>10, FilterByteTypes
<1>12. QED
  BY <1>3, <1>6, <1>8, <1>11

\* A chunk begins with nothing kept.
LEMMA FilterChunkIs ==
  ASSUME NEW s, NEW bytes
  PROVE  FilterChunk(s, bytes) = Filtered([s EXCEPT !.out = <<>>], bytes)[Len(bytes)]
BY DEF FilterChunk, Filtered, Filtering

\* A chunk leaves a state of the filter.
LEMMA FilterChunkTypes ==
  ASSUME NEW s \in Filter, NEW bytes \in Seq(Punctuation)
  PROVE  FilterChunk(s, bytes) \in Filter
<1>1. PICK a \in Filter : a = [s EXCEPT !.out = <<>>]
  <2>1. PICK e \in Seq(Punctuation) : e = <<>>
    BY NothingIsText
  <2>2. [s EXCEPT !.out = e] \in Filter
    BY DEF Filter
  <2>3. QED
    BY <2>1, <2>2
<1>2. FilterChunk(s, bytes) = Filtered(a, bytes)[Len(bytes)]
  BY <1>1, FilterChunkIs
<1>3. Len(bytes) \in 0 .. Len(bytes)
  OBVIOUS
<1>4. QED
  BY <1>2, <1>3, FilteredTypes
-----------------------------------------------------------------------------
(* The inspector's scan. *)

Scan == [offset: Nat, depth: Nat, in_string: BOOLEAN, escaped: BOOLEAN, start: Nat,
         starts: Seq(Nat)]

\* Any byte leaves a state of the scan.
LEMMA ScanByteTypes ==
  ASSUME NEW s \in Scan, NEW b \in Punctuation
  PROVE  ScanByte(s, b) \in Scan
<1>1. /\ s.offset \in Nat /\ s.depth \in Nat /\ s.start \in Nat /\ s.starts \in Seq(Nat)
      /\ s.in_string \in BOOLEAN /\ s.escaped \in BOOLEAN
  BY DEF Scan
<1>2. PICK o \in Nat : o = s.offset + 1
  BY <1>1
<1>3. PICK e \in BOOLEAN, i \in BOOLEAN : /\ e = (~s.escaped /\ b = "b")
                                          /\ i = (s.escaped \/ b # "q")
  OBVIOUS
<1>4. PICK st \in Nat : st = IF s.depth = 0 THEN s.offset ELSE s.start
  BY <1>1
<1>5. PICK q \in Seq(Nat) : q = IF s.depth = 1 THEN Append(s.starts, s.start) ELSE s.starts
  <2>1. Append(s.starts, s.start) \in Seq(Nat)
    BY <1>1
  <2>2. QED
    BY <1>1, <2>1
<1>6. /\ [s EXCEPT !.offset = o, !.escaped = e, !.in_string = i] \in Scan
      /\ [s EXCEPT !.offset = o, !.in_string = TRUE] \in Scan
      /\ [s EXCEPT !.offset = o] \in Scan
  BY DEF Scan
<1>7. [s EXCEPT !.offset = o, !.depth = @ + 1, !.start = st] \in Scan
  <2>1. PICK d \in Nat : d = s.depth + 1
    BY <1>1
  <2>2. [s EXCEPT !.offset = o, !.depth = d, !.start = st] \in Scan
    BY DEF Scan
  <2>3. QED
    BY <2>1, <2>2
<1>8. s.depth > 0 => [s EXCEPT !.offset = o, !.depth = @ - 1, !.starts = q] \in Scan
  <2>1. SUFFICES ASSUME s.depth > 0
                 PROVE  [s EXCEPT !.offset = o, !.depth = @ - 1, !.starts = q] \in Scan
    OBVIOUS
  <2>2. PICK d \in Nat : d = s.depth - 1
    <3>1. s.depth - 1 \in Nat
      BY <1>1, <2>1
    <3>2. QED
      BY <3>1
  <2>3. [s EXCEPT !.offset = o, !.depth = d, !.starts = q] \in Scan
    BY DEF Scan
  <2>4. QED
    BY <2>2, <2>3
<1>9. [s EXCEPT !.offset = @ + 1, !.escaped = ~s.escaped /\ b = "b",
                !.in_string = s.escaped \/ b # "q"]
        = [s EXCEPT !.offset = o, !.escaped = e, !.in_string = i]
  BY <1>2, <1>3
<1>10. /\ [s EXCEPT !.offset = @ + 1, !.in_string = TRUE]
            = [s EXCEPT !.offset = o, !.in_string = TRUE]
       /\ [s EXCEPT !.offset = @ + 1] = [s EXCEPT !.offset = o]
  BY <1>2 DEF Scan
<1>11. [s EXCEPT !.offset = @ + 1, !.depth = @ + 1,
                 !.start = IF s.depth = 0 THEN s.offset ELSE @]
         = [s EXCEPT !.offset = o, !.depth = @ + 1, !.start = st]
  BY <1>2, <1>4 DEF Scan
<1>12. [s EXCEPT !.offset = @ + 1, !.depth = @ - 1,
                 !.starts = IF s.depth = 1 THEN Append(@, s.start) ELSE @]
         = [s EXCEPT !.offset = o, !.depth = @ - 1, !.starts = q]
  BY <1>2, <1>5 DEF Scan
<1>13. QED
  BY <1>6, <1>7, <1>8, <1>9, <1>10, <1>11, <1>12 DEF ScanByte

\* The states of the scan over a file.
Scanning(g, a, bytes) ==
  g = [n \in 0 .. Len(bytes) |-> IF n = 0 THEN a ELSE ScanByte(g[n - 1], bytes[n])]

Scanned(a, bytes) == CHOOSE g : Scanning(g, a, bytes)

\* A file is scanned byte by byte.
LEMMA ScannedStep ==
  ASSUME NEW a \in Scan, NEW bytes \in Seq(Punctuation)
  PROVE  /\ Scanned(a, bytes)[0] = a
         /\ \A n \in 1 .. Len(bytes) :
              Scanned(a, bytes)[n] = ScanByte(Scanned(a, bytes)[n - 1], bytes[n])
<1>1. PICK N \in Nat : N = Len(bytes)
  OBVIOUS
<1>2. \A i \in 1 .. N : bytes[i] \in Punctuation
  BY <1>1
<1> DEFINE F == [i \in 1 .. N |-> [x \in Scan |-> ScanByte(x, bytes[i])]]
<1>3. F \in [1 .. N -> [Scan -> Scan]]
  BY <1>2, ScanByteTypes
<1>4. PICK g : Iterates(g, F, a, N, Scan)
  <2> HIDE DEF F
  <2>1. QED
    BY <1>3, IteratesExist
<1>5. \A n \in 0 .. N : g[n] = IF n = 0 THEN a ELSE ScanByte(g[n - 1], bytes[n])
  <2>1. TAKE n \in 0 .. N
  <2>2. CASE n = 0
    BY <1>4, <2>2 DEF Iterates
  <2>3. CASE n # 0
    <3>1. n \in 1 .. N /\ n - 1 \in 0 .. N
      BY <2>3
    <3>2. g[n] = F[n][g[n - 1]] /\ g[n - 1] \in Scan
      <4> HIDE DEF F
      <4>1. QED
        BY <1>4, <3>1 DEF Iterates
    <3>3. QED
      BY <2>3, <3>1, <3>2
  <2>4. QED
    BY <2>2, <2>3
<1>6. Scanning(g, a, bytes)
  <2>1. g = [n \in 0 .. N |-> g[n]]
    BY <1>4 DEF Iterates
  <2>2. QED
    BY <1>1, <1>5, <2>1 DEF Scanning
<1>7. Scanning(Scanned(a, bytes), a, bytes)
  BY <1>6 DEF Scanned
<1>8. PICK h : h = Scanned(a, bytes)
  OBVIOUS
<1>9. \A n \in 0 .. N : h[n] = IF n = 0 THEN a ELSE ScanByte(h[n - 1], bytes[n])
  BY <1>1, <1>7, <1>8 DEF Scanning
<1>10. 0 \in 0 .. N /\ \A n \in 1 .. N : n \in 0 .. N /\ n # 0
  OBVIOUS
<1>11. QED
  BY <1>1, <1>8, <1>9, <1>10

\* Each state is one.
LEMMA ScannedTypes ==
  ASSUME NEW a \in Scan, NEW bytes \in Seq(Punctuation)
  PROVE  \A n \in 0 .. Len(bytes) : Scanned(a, bytes)[n] \in Scan
<1>1. PICK N \in Nat : N = Len(bytes)
  OBVIOUS
<1>2. PICK h : h = Scanned(a, bytes)
  OBVIOUS
<1>3. h[0] = a /\ \A n \in 1 .. N : h[n] = ScanByte(h[n - 1], bytes[n])
  BY <1>1, <1>2, ScannedStep
<1> DEFINE K == {n \in Nat : n <= N /\ h[n] \notin Scan}
<1>4. SUFFICES ASSUME K # {} PROVE FALSE
  BY <1>1, <1>2
<1>5. PICK m \in K : \A n \in K : m <= n
  <2>1. K \subseteq Nat
    OBVIOUS
  <2> HIDE DEF K
  <2>2. QED
    BY <1>4, <2>1, LeastExists
<1>6. m \in Nat /\ m <= N /\ h[m] \notin Scan
  OBVIOUS
<1>7. m # 0
  BY <1>3, <1>6
<1>8. m \in 1 .. N /\ m - 1 \in Nat /\ m - 1 <= N /\ ~(m <= m - 1)
  BY <1>6, <1>7
<1>9. h[m - 1] \in Scan
  <2>1. m - 1 \notin K
    <3> HIDE DEF K
    <3>1. QED
      BY <1>5, <1>8
  <2>2. QED
    BY <1>8, <2>1
<1>10. bytes[m] \in Punctuation
  BY <1>1, <1>8
<1>11. ScanByte(h[m - 1], bytes[m]) \in Scan
  BY <1>9, <1>10, ScanByteTypes
<1>12. QED
  BY <1>3, <1>6, <1>8, <1>11

\* The inspector scans the whole file.
LEMMA ScannedFileIs == ScannedFile = Scanned(Unscanned, doc)[Len(doc)]
BY DEF ScannedFile, Scanned, Scanning

\* What it ends with.
LEMMA ScannedFileTypes == ASSUME doc \in Seq(Punctuation) PROVE ScannedFile \in Scan
<1>1. PICK e \in Seq(Nat) : e = <<>>
  BY NothingIsText
<1>2. Unscanned \in Scan
  BY <1>1 DEF Unscanned, Scan
<1>3. Len(doc) \in 0 .. Len(doc)
  OBVIOUS
<1>4. QED
  BY <1>2, <1>3, ScannedFileIs, ScannedTypes
-----------------------------------------------------------------------------
\* A fresh filter is one.
LEMMA FreshTypes == Fresh \in Filter /\ FreshFromOffset \in Filter
<1>1. PICK e \in Seq(Punctuation) : e = <<>>
  BY NothingIsText
<1>2. Fresh \in Filter
  BY <1>1 DEF Fresh, Filter
<1>3. PICK f \in Filter : f = Fresh
  BY <1>2
<1>4. [f EXCEPT !.started = TRUE, !.array_started = TRUE, !.expect_value = TRUE] \in Filter
  BY DEF Filter
<1>5. QED
  BY <1>2, <1>3, <1>4 DEF FreshFromOffset

\* The files there are.
LEMMA FilesAreTexts ==
  ASSUME NEW n, NEW d \in Files(n)
  PROVE  d \in Seq(Punctuation)
<1>1. PICK k \in 0 .. n : d \in [1 .. k -> Characters]
  BY DEF Files
<1>2. k \in Nat
  OBVIOUS
<1>3. d \in [1 .. k -> Punctuation]
  BY <1>1, CharactersAssumption
<1>4. QED
  BY <1>2, <1>3

\* Before the first byte.
LEMMA ArrayTypesBegin == ArrayInit => ArrayTypeOK
<1> SUFFICES ASSUME ArrayInit PROVE ArrayTypeOK
  OBVIOUS
<1>1. /\ <<"[">> \in Seq(Punctuation) /\ <<"[", "{">> \in Seq(Punctuation)
      /\ <<"}", "]">> \in Seq(Punctuation)
  BY DEF Punctuation
<1>2. doc \in Seq(Punctuation)
  <2>1. CASE doc \in {<<"[">> \o d : d \in Files(MaxArray - 1)}
    <3>1. PICK d \in Files(MaxArray - 1) : doc = <<"[">> \o d
      BY <2>1
    <3>2. PICK a \in Seq(Punctuation), c \in Seq(Punctuation) : a = <<"[">> /\ c = d
      BY <1>1, FilesAreTexts
    <3>3. doc = a \o c
      BY <3>1, <3>2
    <3>4. QED
      BY <3>3
  <2>2. CASE doc \in {<<"[", "{">> \o d \o <<"}", "]">> : d \in Files(MaxText)}
    <3>1. PICK d \in Files(MaxText) : doc = <<"[", "{">> \o d \o <<"}", "]">>
      BY <2>2
    <3>2. PICK a \in Seq(Punctuation), b \in Seq(Punctuation), c \in Seq(Punctuation) :
             a = <<"[", "{">> /\ b = <<"}", "]">> /\ c = d
      BY <1>1, FilesAreTexts
    <3>3. doc = (a \o c) \o b
      BY <3>1, <3>2
    <3>4. QED
      BY <3>3
  <2>3. CASE doc \in Files(MaxOther)
    BY <2>3, FilesAreTexts
  <2>4. QED
    BY <2>1, <2>2, <2>3 DEF ArrayInit
<1>3. PICK e, f : e = <<>> /\ e \in Seq(Punctuation) /\ e \in Seq(Nat) /\ f = Fresh /\ f \in Filter
  BY NothingIsText, FreshTypes
<1>4. /\ starts = e /\ from = 0 /\ pos = 0 /\ filter = f /\ delivered = e
      /\ pc = "scan"
  BY <1>3 DEF ArrayInit, ArrayStart
<1>5. QED
  BY <1>2, <1>3, <1>4 DEF ArrayTypeOK

\* Every step keeps the types.
LEMMA ArrayTypesStep ==
  ASSUME ArrayTypeOK, [ArrayNext]_arrayVars
  PROVE  ArrayTypeOK'
<1>1. /\ doc \in Seq(Punctuation) /\ starts \in Seq(Nat) /\ from \in Nat /\ pos \in Nat
      /\ filter \in Filter /\ delivered \in Seq(Punctuation)
      /\ pc \in {"scan", "trailer", "scanned", "mapped", "eof", "error"}
  BY DEF ArrayTypeOK
<1>2. CASE UNCHANGED arrayVars
  BY <1>1, <1>2 DEF arrayVars, ArrayTypeOK
<1>3. ASSUME NEW n \in Chunks, ReadChunk(n) PROVE ArrayTypeOK'
  <2>1. n \in Nat
    BY ArrayBoundsAssumption
  <2>2. PICK u \in Seq(Punctuation) : u = Upcoming(n)
    <3>1. \A i \in pos + 1 .. pos + n : i \in 1 .. Len(doc)
      BY <1>1, <1>3, <2>1 DEF ReadChunk
    <3>2. SubSeq(doc, pos + 1, pos + n) \in Seq(Punctuation)
      BY <1>1, <2>1, <3>1
    <3>3. QED
      BY <3>2 DEF Upcoming
  <2>3. PICK s \in Filter : s = FilterChunk(filter, Upcoming(n))
    BY <1>1, <2>2, FilterChunkTypes
  <2>4. s.out \in Seq(Punctuation)
    BY DEF Filter
  <2>5. PICK e \in Seq(Punctuation) : e = <<>>
    BY NothingIsText
  <2>6. [s EXCEPT !.out = e] \in Filter
    BY DEF Filter
  <2>7. filter' \in Filter
    BY <1>3, <2>3, <2>5, <2>6 DEF ReadChunk
  <2>8. delivered' \in Seq(Punctuation)
    <3>1. PICK o \in Seq(Punctuation) : o = s.out
      BY <2>4
    <3>2. delivered \o o \in Seq(Punctuation)
      BY <1>1
    <3>3. delivered' = IF s.bad THEN delivered ELSE delivered \o o
      BY <1>3, <2>3, <3>1 DEF ReadChunk
    <3>4. QED
      BY <1>1, <3>2, <3>3
  <2>9. pos' = pos + n /\ pos + n \in Nat /\ pc' \in {"error", "trailer", "scan"}
    BY <1>1, <1>3, <2>1 DEF ReadChunk
  <2>10. doc' = doc /\ starts' = starts /\ from' = from
    BY <1>3 DEF ReadChunk
  <2>11. QED
    BY <1>1, <2>7, <2>8, <2>9, <2>10 DEF ArrayTypeOK
<1>4. ASSUME NEW n \in Chunks, ReadTrailer(n) PROVE ArrayTypeOK'
  <2>1. n \in Nat
    BY ArrayBoundsAssumption
  <2>2. pos' \in Nat /\ pc' \in {"eof", "scanned", "error", "trailer"}
    <3>1. pos + n \in Nat
      BY <1>1, <2>1
    <3>2. CASE pos = Len(doc)
      BY <1>1, <1>4, <3>2 DEF ReadTrailer
    <3>3. CASE pos # Len(doc)
      BY <1>4, <3>1, <3>3 DEF ReadTrailer
    <3>4. QED
      BY <3>2, <3>3
  <2>3. QED
    BY <1>1, <1>4, <2>2 DEF ReadTrailer, ArrayTypeOK
<1>5. CASE ReadEnd
  <2>1. [filter EXCEPT !.finished = TRUE] \in Filter
    BY <1>1 DEF Filter
  <2>2. pc' \in {"eof", "scanned", "error"}
    BY <1>5 DEF ReadEnd
  <2>3. QED
    BY <1>1, <1>5, <2>1, <2>2 DEF ReadEnd, ArrayTypeOK
<1>6. CASE Inspect
  <2>1. PICK s \in Scan : s = ScannedFile
    BY <1>1, ScannedFileTypes
  <2>2. s.starts \in Seq(Nat)
    BY DEF Scan
  <2>3. PICK e \in Seq(Nat) : e = <<>>
    BY NothingIsText
  <2>4. starts' = (IF pc' = "mapped" THEN s.starts ELSE e) /\ pc' \in {"error", "mapped"}
    BY <1>6, <2>1, <2>3 DEF Inspect
  <2>5. starts' \in Seq(Nat)
    BY <2>2, <2>4
  <2>6. doc' = doc /\ from' = from /\ pos' = pos /\ filter' = filter /\ delivered' = delivered
    BY <1>6 DEF Inspect
  <2>7. QED
    BY <1>1, <2>4, <2>5, <2>6 DEF ArrayTypeOK
<1>7. ASSUME NEW k \in 1 .. LongestFile, OpenAt(k) PROVE ArrayTypeOK'
  <2>1. k \in DOMAIN starts
    BY <1>7 DEF OpenAt
  <2>2. starts[k] \in Nat
    BY <1>1, <2>1
  <2>3. PICK e \in Seq(Punctuation) : e = <<>>
    BY NothingIsText
  <2>4. /\ from' \in Nat /\ pos' \in Nat /\ filter' \in Filter /\ delivered' = e
        /\ pc' = "scan" /\ doc' = doc /\ starts' = starts
    BY <1>7, <2>2, <2>3, FreshTypes DEF OpenAt
  <2>5. QED
    BY <1>1, <2>3, <2>4 DEF ArrayTypeOK
<1>8. QED
  BY <1>2, <1>3, <1>4, <1>5, <1>6, <1>7 DEF ArrayNext

\* A file that is read as an array, the inspector's rows and the filter keep their
\* types: no depth is ever below zero (json.rs:151-387, inspect.rs:184-279).
THEOREM ArrayTyped == ArraySpec => []ArrayTypeOK
<1>1. ArrayTypeOK /\ [ArrayNext]_arrayVars => ArrayTypeOK'
  BY ArrayTypesStep
<1>2. QED
  BY <1>1, ArrayTypesBegin, PTL DEF ArraySpec
-----------------------------------------------------------------------------
(* A stream that is cut into chunks. *)

\* Two states of the filter that go on alike.
Alike(a, b) ==
  /\ a.started = b.started /\ a.finished = b.finished
  /\ a.array_started = b.array_started
  /\ a.has_value = b.has_value /\ a.expect_value = b.expect_value
  /\ a.in_string = b.in_string /\ a.escaped = b.escaped
  /\ a.depth = b.depth /\ a.bad = b.bad

\* The first has kept d and what the second has.
Ahead(a, b, d) == Alike(a, b) /\ a.out = d \o b.out

\* A byte that is appended.
LEMMA AppendLater ==
  ASSUME NEW d \in Seq(Punctuation), NEW o \in Seq(Punctuation), NEW x \in Punctuation
  PROVE  Append(d \o o, x) = d \o Append(o, x)
OBVIOUS

\* A byte that is kept is kept in both.
LEMMA KeepAhead ==
  ASSUME NEW a \in Filter, NEW b \in Filter, NEW d \in Seq(Punctuation), NEW x \in Punctuation,
         Ahead(a, b, d)
  PROVE  Ahead(Keep(a, x), Keep(b, x), d)
<1>1. b.out \in Seq(Punctuation)
  BY DEF Filter
<1>2. Append(a.out, x) = d \o Append(b.out, x)
  BY <1>1, AppendLater DEF Ahead
<1>3. Keep(a, x).out = Append(a.out, x) /\ Keep(b, x).out = Append(b.out, x)
  BY DEF Keep, Filter
<1>4. Alike(Keep(a, x), Keep(b, x))
  BY DEF Ahead, Alike, Keep, Filter
<1>5. QED
  BY <1>2, <1>3, <1>4 DEF Ahead

\* A byte of a string goes to both.
LEMMA StringByteAhead ==
  ASSUME NEW a \in Filter, NEW b \in Filter, NEW d \in Seq(Punctuation), NEW x \in Punctuation,
         Ahead(a, b, d)
  PROVE  Ahead(StringByte(a, x), StringByte(b, x), d)
<1>1. PICK k \in Filter, l \in Filter : k = Keep(a, x) /\ l = Keep(b, x)
  BY KeepTypes
<1>2. Ahead(k, l, d)
  BY <1>1, KeepAhead
<1>3. a.escaped = b.escaped
  BY DEF Ahead, Alike
<1>4. StringByte(b, x) = [l EXCEPT !.escaped = ~a.escaped /\ x = "b",
                                   !.in_string = a.escaped \/ x # "q"]
  BY <1>1, <1>3 DEF StringByte
<1>5. StringByte(a, x) = [k EXCEPT !.escaped = ~a.escaped /\ x = "b",
                                   !.in_string = a.escaped \/ x # "q"]
  BY <1>1 DEF StringByte
<1>6. QED
  BY <1>2, <1>4, <1>5 DEF Ahead, Alike, Filter

\* A byte between rows goes to both.
LEMMA RowByteAhead ==
  ASSUME NEW a \in Filter, NEW b \in Filter, NEW d \in Seq(Punctuation), NEW x \in Punctuation,
         Ahead(a, b, d)
  PROVE  Ahead(RowByte(a, x), RowByte(b, x), d)
<1>1. PICK k \in Filter, l \in Filter : k = Keep(a, x) /\ l = Keep(b, x)
  BY KeepTypes
<1>2. Ahead(k, l, d)
  BY <1>1, KeepAhead
<1>3. a.expect_value = b.expect_value /\ a.has_value = b.has_value
  BY DEF Ahead, Alike
<1>4. Ahead([k EXCEPT !.expect_value = FALSE, !.depth = 1],
            [l EXCEPT !.expect_value = FALSE, !.depth = 1], d)
  BY <1>2 DEF Ahead, Alike, Filter
<1>5. /\ Ahead([a EXCEPT !.expect_value = TRUE], [b EXCEPT !.expect_value = TRUE], d)
      /\ Ahead([a EXCEPT !.finished = TRUE], [b EXCEPT !.finished = TRUE], d)
      /\ Ahead([a EXCEPT !.bad = TRUE], [b EXCEPT !.bad = TRUE], d)
  BY DEF Ahead, Alike, Filter
<1>6. QED
  BY <1>1, <1>2, <1>3, <1>4, <1>5 DEF RowByte

\* A byte inside a row goes to both.
LEMMA InnerByteAhead ==
  ASSUME NEW a \in Filter, NEW b \in Filter, NEW d \in Seq(Punctuation), NEW x \in Punctuation,
         Ahead(a, b, d)
  PROVE  Ahead(InnerByte(a, x), InnerByte(b, x), d)
<1>1. PICK k \in Filter, l \in Filter : k = Keep(a, x) /\ l = Keep(b, x)
  BY KeepTypes
<1>2. Ahead(k, l, d)
  BY <1>1, KeepAhead
<1>3. a.depth = b.depth /\ a.array_started = b.array_started
  BY DEF Ahead, Alike
<1>4. k.depth = l.depth /\ k.has_value = l.has_value
  BY <1>2 DEF Ahead, Alike
<1>5. /\ Ahead([k EXCEPT !.in_string = TRUE], [l EXCEPT !.in_string = TRUE], d)
      /\ Ahead([k EXCEPT !.depth = @ + 1], [l EXCEPT !.depth = @ + 1], d)
  BY <1>2, <1>4 DEF Ahead, Alike, Filter
<1>6. Ahead([k EXCEPT !.depth = @ - 1,
                      !.has_value = @ \/ (a.depth = 1 /\ a.array_started)],
            [l EXCEPT !.depth = @ - 1,
                      !.has_value = @ \/ (b.depth = 1 /\ b.array_started)], d)
  BY <1>2, <1>3, <1>4 DEF Ahead, Alike, Filter
<1>7. QED
  BY <1>1, <1>2, <1>3, <1>5, <1>6 DEF InnerByte

\* A byte of the array goes to both.
LEMMA AfterStartAhead ==
  ASSUME NEW a \in Filter, NEW b \in Filter, NEW d \in Seq(Punctuation), NEW x \in Punctuation,
         Ahead(a, b, d)
  PROVE  Ahead(AfterStart(a, x), AfterStart(b, x), d)
<1>1. /\ a.finished = b.finished /\ a.array_started = b.array_started /\ a.depth = b.depth
      /\ a.in_string = b.in_string
  BY DEF Ahead, Alike
<1>2. Ahead([a EXCEPT !.bad = a.array_started /\ x # " "],
            [b EXCEPT !.bad = b.array_started /\ x # " "], d)
  BY <1>1 DEF Ahead, Alike, Filter
<1>3. QED
  BY <1>1, <1>2, RowByteAhead, StringByteAhead, InnerByteAhead DEF AfterStart

\* What the filter does with a byte does not depend on what it has kept.
LEMMA FilterByteAhead ==
  ASSUME NEW a \in Filter, NEW b \in Filter, NEW d \in Seq(Punctuation), NEW x \in Punctuation,
         Ahead(a, b, d)
  PROVE  Ahead(FilterByte(a, x), FilterByte(b, x), d)
<1>1. a.bad = b.bad /\ a.started = b.started
  BY DEF Ahead, Alike
<1>2. a.bad \in BOOLEAN /\ a.started \in BOOLEAN
  BY DEF Filter
<1>3. PICK k \in Filter, l \in Filter : /\ k = [a EXCEPT !.started = TRUE]
                                        /\ l = [b EXCEPT !.started = TRUE]
  <2>1. [a EXCEPT !.started = TRUE] \in Filter /\ [b EXCEPT !.started = TRUE] \in Filter
    BY DEF Filter
  <2>2. QED
    BY <2>1
<1>4. Ahead(k, l, d)
  BY <1>3 DEF Ahead, Alike, Filter
<1>5. Ahead(AfterStart(k, x), AfterStart(l, x), d) /\ Ahead(AfterStart(a, x), AfterStart(b, x), d)
  BY <1>4, AfterStartAhead
<1>6. Ahead([a EXCEPT !.started = TRUE, !.array_started = TRUE, !.expect_value = TRUE],
            [b EXCEPT !.started = TRUE, !.array_started = TRUE, !.expect_value = TRUE], d)
  BY DEF Ahead, Alike, Filter
<1>7. QED
  BY <1>1, <1>2, <1>3, <1>5, <1>6 DEF FilterByte

\* A chunk changes the filter as its bytes do where they stand in the file.
LEMMA ChunkAhead ==
  ASSUME NEW a \in Filter, NEW t \in Seq(Punctuation), NEW p \in Nat, p <= Len(t),
         NEW b \in Filter, NEW u \in Seq(Punctuation), p + Len(u) <= Len(t),
         \A j \in 1 .. Len(u) : u[j] = t[p + j],
         NEW d \in Seq(Punctuation), Ahead(Filtered(a, t)[p], b, d)
  PROVE  Ahead(Filtered(a, t)[p + Len(u)], Filtered(b, u)[Len(u)], d)
<1>1. PICK N \in Nat, n \in Nat : N = Len(t) /\ n = Len(u)
  OBVIOUS
<1>2. PICK g, h : g = Filtered(a, t) /\ h = Filtered(b, u)
  OBVIOUS
<1>3. /\ \A i \in 1 .. N : g[i] = FilterByte(g[i - 1], t[i])
      /\ \A i \in 0 .. N : g[i] \in Filter
  BY <1>1, <1>2, FilteredStep, FilteredTypes
<1>4. /\ h[0] = b
      /\ \A i \in 1 .. n : h[i] = FilterByte(h[i - 1], u[i])
      /\ \A i \in 0 .. n : h[i] \in Filter
  BY <1>1, <1>2, FilteredStep, FilteredTypes
<1> DEFINE K == {j \in Nat : j <= n /\ ~Ahead(g[p + j], h[j], d)}
<1>5. SUFFICES ASSUME K # {} PROVE FALSE
  BY <1>1, <1>2, SMTT(20)
<1>6. PICK m \in K : \A j \in K : m <= j
  <2>1. K \subseteq Nat
    OBVIOUS
  <2> HIDE DEF K
  <2>2. QED
    BY <1>5, <2>1, LeastExists
<1>7. m \in Nat /\ m <= n /\ ~Ahead(g[p + m], h[m], d)
  OBVIOUS
<1>8. m # 0
  <2>1. p + 0 = p
    OBVIOUS
  <2>2. QED
    BY <1>2, <1>4, <1>7, <2>1
<1>9. /\ m \in 1 .. n /\ m - 1 \in Nat /\ m - 1 <= n /\ ~(m <= m - 1) /\ m - 1 \in 0 .. n
      /\ p + m \in 1 .. N /\ p + m - 1 = p + (m - 1) /\ p + (m - 1) \in 0 .. N
  BY <1>1, <1>7, <1>8
<1>10. Ahead(g[p + (m - 1)], h[m - 1], d)
  <2>1. m - 1 \notin K
    <3> HIDE DEF K
    <3>1. QED
      BY <1>6, <1>9
  <2>2. QED
    BY <1>9, <2>1
<1>11. u[m] = t[p + m] /\ u[m] \in Punctuation
  BY <1>1, <1>9
<1>12. g[p + (m - 1)] \in Filter /\ h[m - 1] \in Filter
  BY <1>3, <1>4, <1>9
<1>13. Ahead(FilterByte(g[p + (m - 1)], u[m]), FilterByte(h[m - 1], u[m]), d)
  BY <1>10, <1>11, <1>12, FilterByteAhead
<1>14. g[p + m] = FilterByte(g[p + (m - 1)], t[p + m]) /\ h[m] = FilterByte(h[m - 1], u[m])
  BY <1>3, <1>4, <1>9
<1>15. QED
  BY <1>7, <1>11, <1>13, <1>14

\* A filter that has refused a byte goes on refusing.
LEMMA StaysBad ==
  ASSUME NEW a \in Filter, NEW t \in Seq(Punctuation), NEW p \in Nat, p <= Len(t),
         Filtered(a, t)[p].bad
  PROVE  \A i \in Nat : p <= i /\ i <= Len(t) => Filtered(a, t)[i].bad
<1>1. PICK N \in Nat : N = Len(t)
  OBVIOUS
<1>2. PICK g : g = Filtered(a, t)
  OBVIOUS
<1>3. \A i \in 1 .. N : g[i] = FilterByte(g[i - 1], t[i])
  BY <1>1, <1>2, FilteredStep
<1> DEFINE K == {i \in Nat : p <= i /\ i <= N /\ ~g[i].bad}
<1>4. SUFFICES ASSUME K # {} PROVE FALSE
  BY <1>1, <1>2
<1>5. PICK m \in K : \A j \in K : m <= j
  <2>1. K \subseteq Nat
    OBVIOUS
  <2> HIDE DEF K
  <2>2. QED
    BY <1>4, <2>1, LeastExists
<1>6. m \in Nat /\ p <= m /\ m <= N /\ ~g[m].bad
  OBVIOUS
<1>7. m # p
  BY <1>2, <1>6
<1>8. m \in 1 .. N /\ m - 1 \in Nat /\ p <= m - 1 /\ m - 1 <= N /\ ~(m <= m - 1)
  BY <1>6, <1>7
<1>9. g[m - 1].bad
  <2>1. m - 1 \notin K
    <3> HIDE DEF K
    <3>1. QED
      BY <1>5, <1>8
  <2>2. QED
    BY <1>8, <2>1
<1>10. FilterByte(g[m - 1], t[m]) = g[m - 1]
  BY <1>9 DEF FilterByte
<1>11. QED
  BY <1>3, <1>6, <1>8, <1>9, <1>10

\* A filter finishes nothing but an array.
Proper(s) == s.finished => s.started /\ s.array_started

\* No byte changes that.
LEMMA FilterByteProper ==
  ASSUME NEW s \in Filter, NEW x \in Punctuation, Proper(s)
  PROVE  Proper(FilterByte(s, x))
<1>1. ASSUME NEW r \in Filter, r.started, Proper(r) PROVE Proper(AfterStart(r, x))
  <2>1. PICK k \in Filter : k = Keep(r, x)
    BY KeepTypes
  <2>2. /\ k.started = r.started /\ k.finished = r.finished
        /\ k.array_started = r.array_started
    BY <2>1 DEF Keep, Filter
  <2>3. ~r.finished => Proper(StringByte(r, x)) /\ Proper(InnerByte(r, x))
    <3>1. ~r.finished => ~StringByte(r, x).finished
      BY <2>1, <2>2 DEF StringByte, Filter
    <3>2. ~r.finished => ~InnerByte(r, x).finished
      BY <2>1, <2>2 DEF InnerByte, Filter
    <3>3. QED
      BY <3>1, <3>2 DEF Proper
  <2>4. r.array_started => Proper(RowByte(r, x))
    <3>1. RowByte(r, x).started = r.started /\ RowByte(r, x).array_started = r.array_started
      BY <2>1, <2>2 DEF RowByte, Filter
    <3>2. QED
      BY <1>1, <3>1 DEF Proper
  <2>5. Proper([r EXCEPT !.bad = r.array_started /\ x # " "])
    BY <1>1 DEF Proper, Filter
  <2>6. QED
    BY <2>3, <2>4, <2>5 DEF AfterStart
<1>2. s.bad \in BOOLEAN /\ s.started \in BOOLEAN
  BY DEF Filter
<1>3. PICK k \in Filter : k = [s EXCEPT !.started = TRUE]
  <2>1. [s EXCEPT !.started = TRUE] \in Filter
    BY DEF Filter
  <2>2. QED
    BY <2>1
<1>4. k.started /\ Proper(k)
  BY <1>3 DEF Proper, Filter
<1>5. Proper([s EXCEPT !.started = TRUE, !.array_started = TRUE, !.expect_value = TRUE])
  BY DEF Proper, Filter
<1>6. QED
  BY <1>1, <1>2, <1>3, <1>4, <1>5 DEF FilterByte

\* No chunk changes that.
LEMMA FilteredProper ==
  ASSUME NEW a \in Filter, NEW t \in Seq(Punctuation), Proper(a)
  PROVE  \A i \in 0 .. Len(t) : Proper(Filtered(a, t)[i])
<1>1. PICK N \in Nat : N = Len(t)
  OBVIOUS
<1>2. PICK g : g = Filtered(a, t)
  OBVIOUS
<1>3. /\ g[0] = a
      /\ \A i \in 1 .. N : g[i] = FilterByte(g[i - 1], t[i])
      /\ \A i \in 0 .. N : g[i] \in Filter
  BY <1>1, <1>2, FilteredStep, FilteredTypes
<1> DEFINE K == {i \in Nat : i <= N /\ ~Proper(g[i])}
<1>4. SUFFICES ASSUME K # {} PROVE FALSE
  BY <1>1, <1>2
<1>5. PICK m \in K : \A j \in K : m <= j
  <2>1. K \subseteq Nat
    OBVIOUS
  <2> HIDE DEF K
  <2>2. QED
    BY <1>4, <2>1, LeastExists
<1>6. m \in Nat /\ m <= N /\ ~Proper(g[m])
  OBVIOUS
<1>7. m # 0
  BY <1>3, <1>6
<1>8. m \in 1 .. N /\ m - 1 \in Nat /\ m - 1 <= N /\ ~(m <= m - 1) /\ m - 1 \in 0 .. N
  BY <1>6, <1>7
<1>9. Proper(g[m - 1])
  <2>1. m - 1 \notin K
    <3> HIDE DEF K
    <3>1. QED
      BY <1>5, <1>8
  <2>2. QED
    BY <1>8, <2>1
<1>10. t[m] \in Punctuation /\ g[m - 1] \in Filter /\ g[m] = FilterByte(g[m - 1], t[m])
  BY <1>1, <1>3, <1>8
<1>11. QED
  BY <1>6, <1>9, <1>10, FilterByteProper

\* White space after the array changes nothing.
LEMMA SpaceAfter ==
  ASSUME NEW s \in Filter, s.finished, ~s.bad, Proper(s), NEW x \in Punctuation
  PROVE  /\ x = " " => FilterByte(s, x) = s
         /\ x # " " => FilterByte(s, x).bad
<1>1. s.started /\ s.array_started
  BY DEF Proper
<1>2. FilterByte(s, x) = [s EXCEPT !.bad = s.array_started /\ x # " "]
  BY <1>1 DEF FilterByte, AfterStart
<1>3. s.bad = FALSE
  BY DEF Filter
<1>4. x = " " => [s EXCEPT !.bad = FALSE] = s
  BY <1>3 DEF Filter
<1>5. x = " " => (s.array_started /\ x # " ") = FALSE
  OBVIOUS
<1>6. x # " " => [s EXCEPT !.bad = s.array_started /\ x # " "].bad
  BY <1>1 DEF Filter
<1>7. QED
  BY <1>2, <1>4, <1>5, <1>6

\* Nothing but white space.
IsSpace(x) == x = " "
Blank(t, p, n) == \A k \in 1 .. n : IsSpace(t[p + k])

\* After the array the filter stays as it is up to the first byte that is no white
\* space.
LEMMA Trailing ==
  ASSUME NEW a \in Filter, NEW t \in Seq(Punctuation), Proper(a), NEW p \in Nat,
         NEW n \in Nat, p + n <= Len(t),
         Filtered(a, t)[p].finished, ~Filtered(a, t)[p].bad,
         Blank(t, p, n)
  PROVE  Filtered(a, t)[p + n] = Filtered(a, t)[p]
<1>1. PICK N \in Nat : N = Len(t)
  OBVIOUS
<1>2. PICK g : g = Filtered(a, t)
  OBVIOUS
<1>3. /\ \A i \in 1 .. N : g[i] = FilterByte(g[i - 1], t[i])
      /\ \A i \in 0 .. N : g[i] \in Filter /\ Proper(g[i])
  BY <1>1, <1>2, FilteredStep, FilteredTypes, FilteredProper
<1> DEFINE K == {j \in Nat : j <= n /\ g[p + j] # g[p]}
<1>4. SUFFICES ASSUME K # {} PROVE FALSE
  <2>1. ASSUME K = {} PROVE g[p + n] = g[p]
    <3>1. n \notin K /\ n \in Nat /\ n <= n
      <4> HIDE DEF K
      <4>1. QED
        BY <2>1
    <3>2. QED
      BY <3>1
  <2> HIDE DEF K
  <2>2. QED
    BY <1>2, <2>1
<1>5. PICK m \in K : \A j \in K : m <= j
  <2>1. K \subseteq Nat
    OBVIOUS
  <2> HIDE DEF K
  <2>2. QED
    BY <1>4, <2>1, LeastExists
<1>6. m \in Nat /\ m <= n /\ g[p + m] # g[p]
  OBVIOUS
<1>7. m # 0
  <2>1. p + 0 = p
    OBVIOUS
  <2>2. QED
    BY <1>6, <2>1
<1>8. /\ m \in 1 .. n /\ m - 1 \in Nat /\ m - 1 <= n /\ ~(m <= m - 1)
      /\ p + m \in 1 .. N /\ p + m - 1 = p + (m - 1) /\ p \in 0 .. N
  BY <1>1, <1>6, <1>7
<1>9. g[p + (m - 1)] = g[p]
  <2>1. m - 1 \notin K
    <3> HIDE DEF K
    <3>1. QED
      BY <1>5, <1>8
  <2>2. QED
    BY <1>8, <2>1
<1>10. PICK x : x = t[p + m]
  OBVIOUS
<1>11. FilterByte(g[p], x) = g[p]
  <2>1. x = " "
    BY <1>8, <1>10 DEF Blank, IsSpace
  <2>2. x \in Punctuation
    BY <1>1, <1>8, <1>10
  <2>3. QED
    BY <1>2, <1>3, <1>8, <2>1, <2>2, SpaceAfter
<1>12. g[p + m] = FilterByte(g[p + (m - 1)], x)
  BY <1>3, <1>8, <1>10
<1>13. QED
  BY <1>6, <1>9, <1>11, <1>12

\* After the array a byte that is no white space is refused.
LEMMA TrailerRefused ==
  ASSUME NEW a \in Filter, NEW t \in Seq(Punctuation), Proper(a), NEW p \in Nat,
         NEW n \in Nat, p + n <= Len(t),
         Filtered(a, t)[p].finished, ~Filtered(a, t)[p].bad,
         ~Blank(t, p, n)
  PROVE  Filtered(a, t)[Len(t)].bad
<1> DEFINE K == {k \in Nat : k \in 1 .. n /\ ~IsSpace(t[p + k])}
<1>1. PICK m \in K : \A j \in K : m <= j
  <2>1. K \subseteq Nat /\ K # {}
    <3>1. PICK k \in 1 .. n : ~IsSpace(t[p + k])
      BY DEF Blank
    <3>2. k \in Nat
      OBVIOUS
    <3>3. k \in K
      BY <3>1, <3>2
    <3>4. QED
      BY <3>3
  <2> HIDE DEF K
  <2>2. QED
    BY <2>1, LeastExists
<1>2. m \in 1 .. n /\ ~IsSpace(t[p + m])
  OBVIOUS
<1> HIDE DEF K
<1>3. PICK N \in Nat : N = Len(t)
  OBVIOUS
<1>4. PICK l \in Nat : l = m - 1
  <2>1. m - 1 \in Nat
    BY <1>2
  <2>2. QED
    BY <2>1
<1>5. /\ p + l <= N /\ p + m \in 1 .. N /\ p + m - 1 = p + l /\ p + m \in Nat
      /\ p + l \in 0 .. N /\ p \in 0 .. N /\ p + m <= N
  BY <1>2, <1>3, <1>4
<1>6. Blank(t, p, l)
  <2>1. SUFFICES ASSUME NEW k \in 1 .. l PROVE IsSpace(t[p + k])
    BY DEF Blank
  <2>2. k \in 1 .. n /\ ~(m <= k)
    BY <1>2, <1>4
  <2>3. k \notin K
    BY <1>1, <2>2
  <2>4. QED
    BY <2>2, <2>3 DEF K
<1>7. Filtered(a, t)[p + l] = Filtered(a, t)[p]
  BY <1>3, <1>5, <1>6, Trailing
<1>8. Filtered(a, t)[p + m] = FilterByte(Filtered(a, t)[p + l], t[p + m])
  <2>1. PICK q \in 1 .. N : q = p + m
    BY <1>5
  <2>2. q - 1 = p + l
    BY <1>2, <1>4, <2>1
  <2>3. Filtered(a, t)[q] = FilterByte(Filtered(a, t)[q - 1], t[q])
    BY <1>3, FilteredStep
  <2>4. QED
    BY <2>1, <2>2, <2>3
<1>9. Filtered(a, t)[p] \in Filter /\ Proper(Filtered(a, t)[p])
  BY <1>3, <1>5, FilteredTypes, FilteredProper
<1>10. PICK x : x = t[p + m] /\ x # " "
  BY <1>2 DEF IsSpace
<1>11. FilterByte(Filtered(a, t)[p], x).bad
  <2>1. x \in Punctuation
    <3>1. PICK q \in 1 .. N : q = p + m
      BY <1>5
    <3>2. t[q] \in Punctuation
      BY <1>3
    <3>3. QED
      BY <1>10, <3>1, <3>2
  <2>2. QED
    BY <1>9, <1>10, <2>1, SpaceAfter
<1>12. Filtered(a, t)[p + m].bad
  BY <1>7, <1>8, <1>10, <1>11
<1>13. Filtered(a, t)[N].bad
  BY <1>3, <1>5, <1>12, StaysBad
<1>14. QED
  BY <1>3, <1>13
-----------------------------------------------------------------------------
(* The rows the inspector finds. *)

\* A brace opens at this offset.
IsBrace(x) == x = "{"
OpensAt(t, i) == i < Len(t) /\ IsBrace(t[i + 1])

\* Offsets of braces below n, one after the other.
Rising(q, t, n) ==
  \A k \in DOMAIN q :
    q[k] < n /\ OpensAt(t, q[k]) /\ \A j \in 1 .. (k - 1) : q[j] < q[k]

\* What the scan knows after n bytes.
Marked(s, t, n) ==
  /\ s.offset = n
  /\ Rising(s.starts, t, n)
  /\ s.depth > 0 => /\ s.start < n /\ OpensAt(t, s.start)
                    /\ \A k \in DOMAIN s.starts : s.starts[k] < s.start

\* They stay below.
LEMMA RisingHigher ==
  ASSUME NEW q \in Seq(Nat), NEW t, NEW n \in Nat, Rising(q, t, n)
  PROVE  Rising(q, t, n + 1)
<1>1. SUFFICES ASSUME NEW k \in DOMAIN q PROVE q[k] < n + 1
  BY DEF Rising
<1>2. q[k] \in Nat /\ q[k] < n
  BY DEF Rising
<1>3. QED
  BY <1>2

\* The next one.
LEMMA RisingAppend ==
  ASSUME NEW q \in Seq(Nat), NEW t, NEW n \in Nat, Rising(q, t, n), NEW i \in Nat, i < n,
         OpensAt(t, i), \A k \in DOMAIN q : q[k] < i
  PROVE  Rising(Append(q, i), t, n)
<1>1. PICK N \in Nat : N = Len(q)
  OBVIOUS
<1>2. PICK r \in Seq(Nat) : r = Append(q, i)
  <2>1. Append(q, i) \in Seq(Nat)
    OBVIOUS
  <2>2. QED
    BY <2>1
<1>3. /\ DOMAIN r = 1 .. N + 1 /\ r[N + 1] = i /\ DOMAIN q = 1 .. N
      /\ \A k \in 1 .. N : r[k] = q[k]
  BY <1>1, <1>2
<1>4. SUFFICES ASSUME NEW k \in 1 .. N + 1
               PROVE  r[k] < n /\ OpensAt(t, r[k]) /\ \A j \in 1 .. (k - 1) : r[j] < r[k]
  BY <1>2, <1>3 DEF Rising
<1>5. CASE k = N + 1
  <2>1. \A j \in 1 .. (k - 1) : j \in 1 .. N
    BY <1>5
  <2>2. QED
    BY <1>3, <1>5, <2>1
<1>6. CASE k # N + 1
  <2>1. k \in 1 .. N /\ \A j \in 1 .. (k - 1) : j \in 1 .. N
    BY <1>6
  <2>2. QED
    BY <1>3, <2>1 DEF Rising
<1>7. QED
  BY <1>5, <1>6

\* A byte that is scanned.
LEMMA ScanByteMarks ==
  ASSUME NEW s \in Scan, NEW t \in Seq(Punctuation), NEW n \in Nat, NEW x,
         Marked(s, t, n), IsBrace(x) => OpensAt(t, n)
  PROVE  Marked(ScanByte(s, x), t, n + 1)
<1>1. /\ s.offset \in Nat /\ s.depth \in Nat /\ s.start \in Nat /\ s.starts \in Seq(Nat)
  BY DEF Scan
<1>2. s.offset = n /\ Rising(s.starts, t, n + 1)
  BY <1>1, RisingHigher DEF Marked
<1>3. s.depth > 0 => /\ s.start < n /\ OpensAt(t, s.start)
                     /\ \A k \in DOMAIN s.starts : s.starts[k] < s.start
  BY DEF Marked
<1>5. ASSUME NEW r, r.offset = n + 1, r.starts = s.starts, r.depth = s.depth, r.start = s.start
      PROVE  Marked(r, t, n + 1)
  <2>1. r.depth > 0 => r.start < n + 1
    BY <1>1, <1>3, <1>5
  <2>2. QED
    BY <1>2, <1>3, <1>5, <2>1 DEF Marked
<1>6. PICK opens \in BOOLEAN, closes \in BOOLEAN :
        /\ opens = (~s.in_string /\ IsBrace(x))
        /\ closes = (~s.in_string /\ x = "}")
  OBVIOUS
<1>7. PICK r : r = ScanByte(s, x)
  OBVIOUS
<1>8. CASE ~opens /\ ~(closes /\ s.depth > 0)
  <2>1. /\ r.offset = s.offset + 1 /\ r.starts = s.starts
        /\ r.depth = s.depth /\ r.start = s.start
    BY <1>6, <1>7, <1>8 DEF ScanByte, Scan, IsBrace
  <2>2. QED
    BY <1>2, <1>5, <1>7, <2>1
<1>9. CASE opens
  <2>1. /\ r.offset = s.offset + 1 /\ r.starts = s.starts /\ r.depth = s.depth + 1
        /\ r.start = IF s.depth = 0 THEN s.offset ELSE s.start
    BY <1>6, <1>7, <1>9 DEF ScanByte, Scan, IsBrace
  <2>2. OpensAt(t, n)
    BY <1>6, <1>9
  <2>3. CASE s.depth = 0
    <3>1. \A k \in DOMAIN s.starts : s.starts[k] < n
      BY DEF Marked, Rising
    <3>2. n < n + 1
      OBVIOUS
    <3>3. QED
      BY <1>2, <1>7, <2>1, <2>2, <2>3, <3>1, <3>2 DEF Marked
  <2>4. CASE s.depth # 0
    <3>1. s.depth > 0
      BY <1>1, <2>4
    <3>2. s.start < n + 1
      BY <1>1, <1>3, <3>1
    <3>3. QED
      BY <1>2, <1>3, <1>7, <2>1, <2>4, <3>1, <3>2 DEF Marked
  <2>5. QED
    BY <2>3, <2>4
<1>10. CASE ~opens /\ closes /\ s.depth > 0
  <2>1. /\ r.offset = s.offset + 1 /\ r.depth = s.depth - 1 /\ r.start = s.start
        /\ r.starts = IF s.depth = 1 THEN Append(s.starts, s.start) ELSE s.starts
    BY <1>6, <1>7, <1>10 DEF ScanByte, Scan, IsBrace
  <2>2. s.start < n /\ s.start < n + 1
    BY <1>1, <1>3, <1>10
  <2>3. CASE s.depth = 1
    <3>1. Rising(Append(s.starts, s.start), t, n + 1)
      <4>1. n + 1 \in Nat
        OBVIOUS
      <4>2. QED
        BY <1>1, <1>2, <1>3, <1>10, <2>2, <4>1, RisingAppend
    <3>2. ~(r.depth > 0)
      BY <2>1, <2>3
    <3>3. QED
      BY <1>2, <1>7, <2>1, <2>3, <3>1, <3>2 DEF Marked
  <2>4. CASE s.depth # 1
    BY <1>2, <1>3, <1>7, <1>10, <2>1, <2>2, <2>4 DEF Marked
  <2>5. QED
    BY <2>3, <2>4
<1>11. QED
  BY <1>8, <1>9, <1>10

\* A file that is scanned.
LEMMA ScannedMarks ==
  ASSUME NEW t \in Seq(Punctuation)
  PROVE  Marked(Scanned(Unscanned, t)[Len(t)], t, Len(t))
<1>1. PICK N \in Nat : N = Len(t)
  OBVIOUS
<1>2. PICK e \in Seq(Nat) : e = <<>> /\ Len(e) = 0
  BY NothingIsText
<1>3. PICK a \in Scan : a = Unscanned
  BY <1>2 DEF Unscanned, Scan
<1>4. PICK h : h = Scanned(a, t)
  OBVIOUS
<1>5. /\ h[0] = a
      /\ \A i \in 1 .. N : h[i] = ScanByte(h[i - 1], t[i])
      /\ \A i \in 0 .. N : h[i] \in Scan
  BY <1>1, <1>4, ScannedStep, ScannedTypes
<1>6. Marked(a, t, 0)
  <2>1. a.offset = 0 /\ a.depth = 0 /\ a.starts = e
    BY <1>2, <1>3 DEF Unscanned
  <2>2. DOMAIN e = {}
    BY <1>2
  <2>3. QED
    BY <2>1, <2>2 DEF Marked, Rising
<1> DEFINE K == {i \in Nat : i <= N /\ ~Marked(h[i], t, i)}
<1>7. SUFFICES ASSUME K # {} PROVE FALSE
  <2>1. K = {} => Marked(h[N], t, N)
    OBVIOUS
  <2> HIDE DEF K
  <2>2. QED
    BY <1>1, <1>3, <1>4, <2>1
<1>8. PICK m \in K : \A j \in K : m <= j
  <2>1. K \subseteq Nat
    OBVIOUS
  <2> HIDE DEF K
  <2>2. QED
    BY <1>7, <2>1, LeastExists
<1>9. m \in Nat /\ m <= N /\ ~Marked(h[m], t, m)
  OBVIOUS
<1>10. m # 0
  BY <1>5, <1>6, <1>9
<1>11. PICK l \in Nat : l = m - 1
  BY <1>9, <1>10
<1>12. /\ m \in 1 .. N /\ l + 1 = m /\ l <= N /\ ~(m <= l) /\ l \in 0 .. N /\ l < N
  BY <1>9, <1>10, <1>11
<1>13. Marked(h[l], t, l)
  <2>1. l \notin K
    <3> HIDE DEF K
    <3>1. QED
      BY <1>8, <1>12
  <2>2. QED
    BY <1>12, <2>1
<1>14. PICK x : x = t[m]
  OBVIOUS
<1>15. IsBrace(x) => OpensAt(t, l)
  BY <1>1, <1>12, <1>14 DEF OpensAt
<1>16. h[l] \in Scan /\ h[m] = ScanByte(h[l], x)
  BY <1>5, <1>11, <1>12, <1>14
<1>17. Marked(h[m], t, l + 1)
  BY <1>13, <1>15, <1>16, ScanByteMarks
<1>18. QED
  BY <1>9, <1>12, <1>17
-----------------------------------------------------------------------------
(* Reading in chunks and in one piece. *)

\* What a stream reads, and what is kept of it when it is read in one piece.
Source == SubSeq(doc, from + 1, Len(doc))
OnePiece == FilterChunk(IF from = 0 THEN Fresh ELSE FreshFromOffset, Source)

\* The file is an array to its end, or none at all.
IsWhole(s) == ~s.bad /\ (s.finished \/ ~s.array_started)

\* The inspector does not take the file, though it could be read.
NotMapped ==
  ~IsArrayFile \/ ~Accepts(delivered) \/ ScannedFile.depth # 0 \/ ScannedFile.in_string

\* However a file or the rest of a file is cut into chunks, it is refused or
\* delivered as if it were read in one piece (json.rs:205-387).
ChunksDoNotMatter ==
  /\ pc \in {"scanned", "mapped", "eof"} =>
       IsWhole(OnePiece) /\ delivered = OnePiece.out
  /\ pc = "error" =>
       \/ ~IsWhole(OnePiece)
       \/ from = 0 /\ delivered = OnePiece.out /\ NotMapped

\* The rows the inspector maps begin with a brace each, one after the other, and a
\* stream is opened at one of them (inspect.rs:184-279, json.rs:102-125).
RowsInOrder ==
  /\ \A k \in DOMAIN starts :
       /\ starts[k] < Len(doc) /\ doc[starts[k] + 1] = "{"
       /\ \A j \in 1 .. (k - 1) : starts[j] < starts[k]
  /\ from > 0 => \E k \in DOMAIN starts : starts[k] = from

\* The filter a stream is opened with, and its states over all the stream reads.
Opened == IF from = 0 THEN Fresh ELSE FreshFromOffset
OnePass == Filtered(Opened, Source)

\* Where the stream is, the filter is as if it had not been cut.
ReadInv ==
  /\ from <= pos /\ pos <= Len(doc)
  /\ pc = "scan" => Ahead(OnePass[pos - from], filter, delivered)
                    /\ filter.out = <<>> /\ ~filter.finished /\ ~filter.bad
  /\ pc = "trailer" => /\ OnePass[pos - from].finished /\ ~OnePass[pos - from].bad
                       /\ OnePass[pos - from].out = delivered
  /\ pc \in {"scanned", "mapped"} => from = 0

\* Every row that is mapped begins with a brace.
RowsInv ==
  /\ Rising(starts, doc, Len(doc))
  /\ from > 0 => \E k \in DOMAIN starts : starts[k] = from

ArrayInv == ArrayTypeOK /\ ReadInv /\ RowsInv /\ ChunksDoNotMatter

\* It is a filter that has kept nothing.
LEMMA OpenedTypes == Opened \in Filter /\ Proper(Opened) /\ Opened.out = <<>>
<1>1. Fresh.out = <<>> /\ FreshFromOffset.out = <<>>
  BY DEF Fresh, FreshFromOffset
<1>2. ~Fresh.finished /\ ~FreshFromOffset.finished
  BY DEF Fresh, FreshFromOffset
<1>3. QED
  BY <1>1, <1>2, FreshTypes DEF Opened, Proper

\* What a stream reads.
LEMMA SourceTypes ==
  ASSUME ArrayTypeOK, from <= Len(doc)
  PROVE  /\ Source \in Seq(Punctuation)
         /\ Len(Source) = Len(doc) - from
         /\ \A i \in 1 .. Len(doc) - from : Source[i] = doc[from + i]
<1>1. doc \in Seq(Punctuation) /\ from \in Nat
  BY DEF ArrayTypeOK
<1>2. PICK N \in Nat : N = Len(doc)
  BY <1>1
<1>3. PICK f \in Nat : f = from
  BY <1>1
<1>4. PICK t : t = doc /\ t \in Seq(Punctuation) /\ Len(t) = N /\ f <= N
  BY <1>1, <1>2, <1>3
<1>5. /\ SubSeq(t, f + 1, N) \in Seq(Punctuation)
      /\ Len(SubSeq(t, f + 1, N)) = N - f
      /\ \A i \in 1 .. N - f : SubSeq(t, f + 1, N)[i] = t[f + i]
  BY <1>4
<1>6. QED
  BY <1>2, <1>3, <1>4, <1>5 DEF Source

\* A chunk.
LEMMA UpcomingTypes ==
  ASSUME ArrayTypeOK, NEW n \in Nat, pos + n <= Len(doc)
  PROVE  /\ Upcoming(n) \in Seq(Punctuation)
         /\ Len(Upcoming(n)) = n
         /\ \A i \in 1 .. n : Upcoming(n)[i] = doc[pos + i]
<1>1. doc \in Seq(Punctuation) /\ pos \in Nat
  BY DEF ArrayTypeOK
<1>2. PICK N \in Nat : N = Len(doc)
  BY <1>1
<1>3. PICK p \in Nat : p = pos
  BY <1>1
<1>4. PICK t : t = doc /\ t \in Seq(Punctuation) /\ Len(t) = N /\ p + n <= N
  BY <1>1, <1>2, <1>3
<1>5. /\ SubSeq(t, p + 1, p + n) \in Seq(Punctuation)
      /\ Len(SubSeq(t, p + 1, p + n)) = n
      /\ \A i \in 1 .. n : SubSeq(t, p + 1, p + n)[i] = t[p + i]
  BY <1>4
<1>6. QED
  BY <1>3, <1>4, <1>5 DEF Upcoming

\* One piece is the last state of the one pass.
LEMMA OnePieceIs == OnePiece = OnePass[Len(Source)]
<1>1. PICK s \in Filter : s = Opened /\ s.out = <<>>
  BY OpenedTypes
<1>2. [s EXCEPT !.out = <<>>] = s
  BY <1>1 DEF Filter
<1>3. OnePiece = FilterChunk(s, Source)
  BY <1>1 DEF OnePiece, Opened
<1>4. QED
  BY <1>1, <1>2, <1>3, FilterChunkIs DEF OnePass

\* Before anything is read.
LEMMA OpenedAhead ==
  ASSUME ArrayTypeOK, from <= Len(doc)
  PROVE  /\ Ahead(OnePass[0], Opened, <<>>)
         /\ Opened.out = <<>> /\ ~Opened.finished /\ ~Opened.bad
<1>1. PICK s \in Filter : s = Opened /\ s.out = <<>>
  BY OpenedTypes
<1>2. OnePass[0] = s
  BY <1>1, SourceTypes, FilteredStep DEF OnePass
<1>3. ~Opened.finished /\ ~Opened.bad
  BY DEF Opened, Fresh, FreshFromOffset
<1>4. Ahead(s, s, <<>>)
  <2>1. PICK e \in Seq(Punctuation) : e = <<>>
    BY NothingIsText
  <2>2. e \o e = e
    BY <2>1
  <2>3. QED
    BY <1>1, <2>1, <2>2 DEF Ahead, Alike
<1>5. QED
  BY <1>1, <1>2, <1>3, <1>4

\* A stream of which nothing is read.
JustOpened ==
  /\ ArrayTypeOK /\ from <= Len(doc)
  /\ pos = from /\ filter = Opened /\ delivered = <<>> /\ pc = "scan"

\* It is as it should be.
LEMMA OpenedReads == JustOpened => ReadInv /\ ChunksDoNotMatter
<1> SUFFICES ASSUME JustOpened PROVE ReadInv /\ ChunksDoNotMatter
  OBVIOUS
<1> USE DEF JustOpened
<1>1. from \in Nat /\ from <= from /\ pos - from = 0
  BY DEF ArrayTypeOK
<1>2. Ahead(OnePass[pos - from], filter, delivered)
  BY <1>1, OpenedAhead
<1>3. ReadInv
  BY <1>1, <1>2, OpenedAhead DEF ReadInv
<1>4. ChunksDoNotMatter
  BY DEF ChunksDoNotMatter
<1>5. QED
  BY <1>3, <1>4

\* Before the first byte.
LEMMA ArrayBegins == ArrayInit => ArrayInv
<1> SUFFICES ASSUME ArrayInit PROVE ArrayInv
  OBVIOUS
<1>1. ArrayTypeOK
  BY ArrayTypesBegin
<1>2. /\ from = 0 /\ pos = 0 /\ filter = Fresh /\ delivered = <<>> /\ pc = "scan"
      /\ starts = <<>>
  BY DEF ArrayInit, ArrayStart
<1>3. filter = Opened
  BY <1>2 DEF Opened
<1>4. from <= Len(doc)
  <2>1. doc \in Seq(Punctuation)
    BY <1>1 DEF ArrayTypeOK
  <2>2. Len(doc) \in Nat
    BY <2>1
  <2>3. QED
    BY <1>2, <2>2
<1>5. RowsInv
  <2>1. DOMAIN starts = {}
    BY <1>2
  <2>2. ~(from > 0)
    BY <1>2
  <2>3. QED
    BY <2>1, <2>2 DEF RowsInv, Rising
<1>6. ReadInv /\ ChunksDoNotMatter
  BY <1>1, <1>2, <1>3, <1>4, OpenedReads DEF JustOpened
<1>7. QED
  BY <1>1, <1>5, <1>6 DEF ArrayInv

\* Where the stream is in what it reads.
LEMMA WhereItIs ==
  ASSUME ArrayTypeOK, ReadInv
  PROVE  /\ from \in Nat /\ pos \in Nat /\ Len(doc) \in Nat
         /\ pos - from \in Nat
         /\ Source \in Seq(Punctuation) /\ Len(Source) = Len(doc) - from
         /\ Len(Source) \in Nat /\ pos - from <= Len(Source)
         /\ pos = Len(doc) => pos - from = Len(Source)
<1>1. from \in Nat /\ pos \in Nat /\ doc \in Seq(Punctuation)
  BY DEF ArrayTypeOK
<1>2. Len(doc) \in Nat
  BY <1>1
<1>3. from <= pos /\ pos <= Len(doc)
  BY DEF ReadInv
<1>4. from <= Len(doc)
  BY <1>1, <1>2, <1>3
<1>5. Source \in Seq(Punctuation) /\ Len(Source) = Len(doc) - from
  BY <1>4, SourceTypes
<1>6. Len(Source) \in Nat
  BY <1>5
<1>7. QED
  BY <1>1, <1>2, <1>3, <1>5, <1>6

\* The bytes of a chunk are where they are in the file.
LEMMA ChunkPlace ==
  ASSUME ArrayTypeOK, ReadInv, NEW n \in Nat, pos + n <= Len(doc)
  PROVE  /\ Upcoming(n) \in Seq(Punctuation) /\ Len(Upcoming(n)) = n
         /\ pos - from + n <= Len(Source)
         /\ \A j \in 1 .. n : Upcoming(n)[j] = Source[pos - from + j]
<1>1. PICK f \in Nat, p \in Nat, N \in Nat : f = from /\ p = pos /\ N = Len(doc)
  BY WhereItIs
<1>2. f <= p /\ p + n <= N /\ f <= N
  BY <1>1 DEF ReadInv
<1>3. PICK q \in Nat : q = p - f
  BY <1>1, <1>2
<1>4. q + n <= N - f
  BY <1>1, <1>2, <1>3
<1>5. \A i \in 1 .. N - f : Source[i] = doc[f + i]
  BY <1>1, <1>2, SourceTypes
<1>6. \A i \in 1 .. n : Upcoming(n)[i] = doc[p + i]
  BY <1>1, UpcomingTypes
<1>7. ASSUME NEW j \in 1 .. n PROVE Upcoming(n)[j] = Source[q + j]
  <2>1. q + j \in 1 .. N - f /\ f + (q + j) = p + j
    BY <1>1, <1>3, <1>4, <1>7
  <2>2. Source[q + j] = doc[f + (q + j)]
    BY <1>5, <2>1
  <2>3. QED
    BY <1>6, <1>7, <2>1, <2>2
<1>8. Len(Source) = N - f
  BY <1>1, WhereItIs
<1>9. QED
  BY <1>1, <1>3, <1>4, <1>7, <1>8, UpcomingTypes

\* A chunk goes on where the one pass is.
LEMMA ChunkReads ==
  ASSUME ArrayTypeOK, ReadInv, pc = "scan", NEW n \in Nat, pos + n <= Len(doc)
  PROVE  /\ FilterChunk(filter, Upcoming(n)) \in Filter
         /\ Ahead(OnePass[pos - from + n], FilterChunk(filter, Upcoming(n)), delivered)
<1>1. PICK q \in Nat : q = pos - from
  BY WhereItIs
<1>2. PICK a \in Filter : a = Opened
  BY OpenedTypes
<1>3. PICK b \in Filter : b = filter /\ b.out = <<>>
  BY DEF ArrayTypeOK, ReadInv
<1>4. PICK u \in Seq(Punctuation) : u = Upcoming(n)
  BY ChunkPlace
<1>5. PICK t \in Seq(Punctuation) : t = Source
  BY WhereItIs
<1>6. PICK d \in Seq(Punctuation) : d = delivered
  BY DEF ArrayTypeOK
<1>7. /\ Len(u) = n /\ q + n <= Len(t) /\ q <= Len(t)
      /\ \A j \in 1 .. n : u[j] = t[q + j]
  BY <1>1, <1>4, <1>5, ChunkPlace, WhereItIs
<1>8. Ahead(Filtered(a, t)[q], b, d)
  BY <1>1, <1>2, <1>3, <1>5, <1>6 DEF ReadInv, OnePass
<1>9. Ahead(Filtered(a, t)[q + n], Filtered(b, u)[n], d)
  BY <1>7, <1>8, ChunkAhead
<1>10. FilterChunk(b, u) = Filtered(b, u)[n]
  <2>1. [b EXCEPT !.out = <<>>] = b
    BY <1>3 DEF Filter
  <2>2. QED
    BY <1>7, <2>1, FilterChunkIs
<1>11. FilterChunk(b, u) \in Filter
  BY FilterChunkTypes
<1>12. QED
  BY <1>1, <1>2, <1>3, <1>4, <1>5, <1>6, <1>9, <1>10, <1>11 DEF OnePass

\* What the one pass has refused is refused at its end.
LEMMA RefusedAtEnd ==
  ASSUME ArrayTypeOK, ReadInv, NEW i \in Nat, i <= Len(Source), OnePass[i].bad
  PROVE  ~IsWhole(OnePiece)
<1>1. PICK a \in Filter, t \in Seq(Punctuation) : a = Opened /\ t = Source
  BY OpenedTypes, WhereItIs
<1>2. Filtered(a, t)[i].bad /\ i <= Len(t)
  BY <1>1 DEF OnePass
<1>3. PICK N \in Nat : N = Len(t)
  OBVIOUS
<1>4. Filtered(a, t)[N].bad
  BY <1>2, <1>3, StaysBad
<1>5. OnePiece.bad
  BY <1>1, <1>3, <1>4, OnePieceIs DEF OnePass
<1>6. QED
  BY <1>5 DEF IsWhole

\* While the file and where it was opened stay, so does the one pass.
LEMMA SamePass ==
  ASSUME doc' = doc, from' = from
  PROVE  OnePass' = OnePass /\ OnePiece' = OnePiece
BY DEF OnePass, OnePiece, Source, Opened

\* A chunk that is read.
LEMMA ReadChunkStep ==
  ASSUME ArrayInv, NEW n \in Chunks, ReadChunk(n)
  PROVE  ReadInv' /\ ChunksDoNotMatter'
<1>1. ArrayTypeOK /\ ReadInv
  BY DEF ArrayInv
<1>2. n \in Nat
  BY ArrayBoundsAssumption
<1>3. pc = "scan" /\ pos + n <= Len(doc) /\ pos' = pos + n
  BY DEF ReadChunk
<1>4. doc' = doc /\ from' = from /\ OnePass' = OnePass /\ OnePiece' = OnePiece
  BY SamePass DEF ReadChunk
<1>5. PICK s \in Filter : s = FilterChunk(filter, Upcoming(n))
  BY <1>1, <1>2, <1>3, ChunkReads
<1>6. PICK q \in Nat : q = pos' - from
  <2>1. pos \in Nat /\ from \in Nat /\ from <= pos
    BY <1>1, WhereItIs DEF ReadInv
  <2>2. QED
    BY <1>2, <1>3, <2>1
<1>7. q = pos - from + n /\ q <= Len(Source)
  <2>1. pos \in Nat /\ from \in Nat
    BY <1>1, WhereItIs
  <2>2. q = pos - from + n
    BY <1>2, <1>3, <1>6, <2>1
  <2>3. QED
    BY <1>1, <1>2, <1>3, <2>2, ChunkPlace
<1>8. Ahead(OnePass[q], s, delivered)
  BY <1>1, <1>2, <1>3, <1>5, <1>7, ChunkReads
<1>9. from' <= pos' /\ pos' <= Len(doc')
  <2>1. pos \in Nat /\ from \in Nat /\ from <= pos
    BY <1>1, WhereItIs DEF ReadInv
  <2>2. from <= pos + n
    BY <1>2, <2>1
  <2>3. QED
    BY <1>3, <1>4, <2>2
<1>10. CASE s.bad
  <2>1. OnePass[q].bad
    BY <1>8, <1>10 DEF Ahead, Alike
  <2>2. ~IsWhole(OnePiece)
    BY <1>1, <1>7, <2>1, RefusedAtEnd
  <2>3. pc' = "error"
    BY <1>5, <1>10 DEF ReadChunk
  <2>4. QED
    BY <1>4, <1>9, <2>2, <2>3 DEF ReadInv, ChunksDoNotMatter
<1>11. CASE ~s.bad
  <2>1. /\ delivered' = delivered \o s.out
        /\ pc' = IF s.finished THEN "trailer" ELSE "scan"
        /\ filter' = [s EXCEPT !.out = <<>>]
    BY <1>5, <1>11 DEF ReadChunk
  <2>2. OnePass[q].out = delivered' /\ OnePass[q].finished = s.finished /\ ~OnePass[q].bad
    BY <1>8, <1>11, <2>1 DEF Ahead, Alike
  <2>3. Ahead(OnePass[q], filter', delivered') /\ filter'.out = <<>>
    <3>1. PICK e \in Seq(Punctuation) : e = <<>>
      BY NothingIsText
    <3>2. PICK d \in Seq(Punctuation) : d = delivered'
      <4>1. delivered \in Seq(Punctuation) /\ s.out \in Seq(Punctuation)
        BY <1>1 DEF ArrayTypeOK, Filter
      <4>2. delivered \o s.out \in Seq(Punctuation)
        BY <4>1
      <4>3. QED
        BY <2>1, <4>2
    <3>3. d \o e = d
      BY <3>1, <3>2
    <3>4. PICK r : r = [s EXCEPT !.out = e]
      OBVIOUS
    <3>5. Alike(OnePass[q], r) /\ r.out = e
      BY <1>8, <3>4 DEF Ahead, Alike, Filter
    <3>6. Ahead(OnePass[q], r, d)
      BY <2>2, <3>2, <3>3, <3>5 DEF Ahead
    <3>7. QED
      BY <2>1, <3>1, <3>2, <3>4, <3>5, <3>6
  <2>4. ~filter'.bad /\ filter'.finished = s.finished
    BY <1>11, <2>1 DEF Filter
  <2>5. QED
    BY <1>4, <1>6, <1>9, <2>1, <2>2, <2>3, <2>4 DEF ReadInv, ChunksDoNotMatter
<1>12. QED
  BY <1>10, <1>11

\* The end of the file.
LEMMA ReadEndStep ==
  ASSUME ArrayInv, ReadEnd
  PROVE  ReadInv' /\ ChunksDoNotMatter'
<1>1. ArrayTypeOK /\ ReadInv
  BY DEF ArrayInv
<1>2. pc = "scan" /\ pos = Len(doc) /\ pos' = pos /\ delivered' = delivered
  BY DEF ReadEnd
<1>3. doc' = doc /\ from' = from /\ OnePiece' = OnePiece
  BY SamePass DEF ReadEnd
<1>4. OnePiece = OnePass[pos - from]
  BY <1>1, <1>2, WhereItIs, OnePieceIs
<1>5. Ahead(OnePiece, filter, delivered) /\ filter.out = <<>> /\ ~filter.finished /\ ~filter.bad
  BY <1>1, <1>2, <1>4 DEF ReadInv
<1>6. OnePiece.out = delivered
  <2>1. PICK d \in Seq(Punctuation), e \in Seq(Punctuation) : d = delivered /\ e = <<>>
    BY <1>1, NothingIsText DEF ArrayTypeOK
  <2>2. d \o e = d
    BY <2>1
  <2>3. OnePiece.out = d \o e
    BY <1>5, <2>1 DEF Ahead
  <2>4. QED
    BY <2>1, <2>2, <2>3
<1>7. IsWhole(OnePiece) <=> ~filter.array_started
  BY <1>5 DEF IsWhole, Ahead, Alike
<1>8. pc' = IF filter.array_started THEN "error" ELSE IF from > 0 THEN "eof" ELSE "scanned"
  BY DEF ReadEnd
<1>9. from \in Nat /\ from <= pos
  BY <1>1 DEF ArrayTypeOK, ReadInv
<1>10. pc' \in {"error", "eof", "scanned"} /\ (pc' = "scanned" => from = 0)
  <2>1. ~(from > 0) => from = 0
    BY <1>9
  <2>2. QED
    BY <1>8, <2>1
<1>11. ReadInv'
  BY <1>1, <1>2, <1>3, <1>10 DEF ReadInv
<1>12. ChunksDoNotMatter'
  BY <1>2, <1>3, <1>6, <1>7, <1>8 DEF ChunksDoNotMatter
<1>13. QED
  BY <1>11, <1>12

\* What stands after the array.
LEMMA ReadTrailerStep ==
  ASSUME ArrayInv, NEW n \in Chunks, ReadTrailer(n)
  PROVE  ReadInv' /\ ChunksDoNotMatter'
<1>1. ArrayTypeOK /\ ReadInv
  BY DEF ArrayInv
<1>2. n \in Nat
  BY ArrayBoundsAssumption
<1>3. pc = "trailer" /\ delivered' = delivered
  BY DEF ReadTrailer
<1>4. doc' = doc /\ from' = from /\ OnePass' = OnePass /\ OnePiece' = OnePiece
  BY SamePass DEF ReadTrailer
<1>5. PICK q \in Nat : q = pos - from
  BY <1>1, WhereItIs
<1>6. OnePass[q].finished /\ ~OnePass[q].bad /\ OnePass[q].out = delivered
  BY <1>1, <1>3, <1>5 DEF ReadInv
<1>7. pos \in Nat /\ from \in Nat /\ from <= pos /\ pos <= Len(doc)
  BY <1>1, WhereItIs DEF ReadInv
<1>8. CASE pos = Len(doc)
  <2>1. pos' = pos /\ pc' = IF from > 0 THEN "eof" ELSE "scanned"
    BY <1>8 DEF ReadTrailer
  <2>2. OnePiece = OnePass[q]
    BY <1>1, <1>5, <1>8, WhereItIs, OnePieceIs
  <2>3. IsWhole(OnePiece) /\ delivered = OnePiece.out
    BY <1>6, <2>2 DEF IsWhole
  <2>4. pc' \in {"eof", "scanned"} /\ (pc' = "scanned" => from = 0)
    <3>1. ~(from > 0) => from = 0
      BY <1>7
    <3>2. QED
      BY <2>1, <3>1
  <2>5. ReadInv'
    BY <1>4, <1>7, <2>1, <2>4 DEF ReadInv
  <2>6. ChunksDoNotMatter'
    BY <1>3, <1>4, <2>3, <2>4 DEF ChunksDoNotMatter
  <2>7. QED
    BY <2>5, <2>6
<1>9. CASE pos # Len(doc)
  <2>1. /\ pos + n <= Len(doc) /\ pos' = pos + n
        /\ pc' = IF \E k \in 1 .. n : Upcoming(n)[k] # " " THEN "error" ELSE "trailer"
    BY <1>9 DEF ReadTrailer
  <2>2. PICK a \in Filter, t \in Seq(Punctuation) : a = Opened /\ t = Source
    BY <1>1, OpenedTypes, WhereItIs
  <2>3. /\ Proper(a) /\ q + n <= Len(t)
        /\ Filtered(a, t)[q].finished /\ ~Filtered(a, t)[q].bad
    BY <1>1, <1>2, <1>5, <1>6, <2>1, <2>2, OpenedTypes, ChunkPlace DEF OnePass
  <2>4. Blank(t, q, n) <=> ~\E k \in 1 .. n : Upcoming(n)[k] # " "
    <3>1. \A k \in 1 .. n : Upcoming(n)[k] = t[q + k]
      BY <1>1, <1>2, <1>5, <2>1, <2>2, ChunkPlace
    <3>2. QED
      BY <3>1 DEF Blank, IsSpace
  <2>5. from' <= pos' /\ pos' <= Len(doc') /\ pos' - from' = q + n
    <3>1. from <= pos + n /\ (pos + n) - from = q + n
      BY <1>2, <1>5, <1>7
    <3>2. QED
      BY <1>4, <2>1, <3>1
  <2>6. CASE Blank(t, q, n)
    <3>1. pc' = "trailer"
      BY <2>1, <2>4, <2>6
    <3>2. Filtered(a, t)[q + n] = Filtered(a, t)[q]
      BY <1>2, <2>3, <2>6, Trailing
    <3>3. OnePass[q + n] = OnePass[q]
      BY <2>2, <3>2 DEF OnePass
    <3>4. QED
      BY <1>3, <1>4, <1>6, <2>5, <3>1, <3>3 DEF ReadInv, ChunksDoNotMatter
  <2>7. CASE ~Blank(t, q, n)
    <3>1. pc' = "error"
      BY <2>1, <2>4, <2>7
    <3>2. PICK N \in Nat : N = Len(t)
      OBVIOUS
    <3>3. Filtered(a, t)[N].bad
      BY <1>2, <2>3, <2>7, <3>2, TrailerRefused
    <3>4. ~IsWhole(OnePiece)
      BY <2>2, <3>2, <3>3, OnePieceIs DEF OnePass, IsWhole
    <3>5. QED
      BY <1>4, <2>5, <3>1, <3>4 DEF ReadInv, ChunksDoNotMatter
  <2>8. QED
    BY <2>6, <2>7
<1>10. QED
  BY <1>8, <1>9

\* The rows that are mapped.
LEMMA InspectStep ==
  ASSUME ArrayInv, Inspect
  PROVE  ReadInv' /\ RowsInv' /\ ChunksDoNotMatter'
<1>1. ArrayTypeOK /\ ReadInv /\ RowsInv /\ ChunksDoNotMatter
  BY DEF ArrayInv
<1>2. /\ pc = "scanned" /\ pos' = pos /\ delivered' = delivered /\ filter' = filter
      /\ doc' = doc /\ from' = from
  BY DEF Inspect
<1>3. OnePiece' = OnePiece
  BY <1>2, SamePass
<1>4. IsWhole(OnePiece) /\ delivered = OnePiece.out /\ from = 0
  BY <1>1, <1>2 DEF ReadInv, ChunksDoNotMatter
<1>5. NotMapped' <=> NotMapped
  BY <1>2 DEF NotMapped, IsArrayFile, ScannedFile
<1>6. pc' = IF NotMapped THEN "error" ELSE "mapped"
  BY DEF Inspect, NotMapped
<1>7. ReadInv'
  BY <1>1, <1>2, <1>4, <1>6 DEF ReadInv
<1>8. ChunksDoNotMatter'
  BY <1>2, <1>3, <1>4, <1>5, <1>6 DEF ChunksDoNotMatter
<1>9. RowsInv'
  <2>1. doc \in Seq(Punctuation)
    BY <1>1 DEF ArrayTypeOK
  <2>2. Rising(ScannedFile.starts, doc, Len(doc))
    BY <2>1, ScannedMarks, ScannedFileIs DEF Marked
  <2>3. Rising(<<>>, doc, Len(doc))
    <3>1. DOMAIN (<<>>) = {}
      OBVIOUS
    <3>2. QED
      BY <3>1 DEF Rising
  <2>4. starts' = IF pc' = "mapped" THEN ScannedFile.starts ELSE <<>>
    BY DEF Inspect
  <2>5. Rising(starts', doc, Len(doc))
    BY <2>2, <2>3, <2>4
  <2>6. ~(from > 0)
    BY <1>4
  <2>7. QED
    BY <1>2, <2>5, <2>6 DEF RowsInv
<1>10. QED
  BY <1>7, <1>8, <1>9

\* A stream that is opened at a row.
LEMMA OpenAtStep ==
  ASSUME ArrayInv, NEW k \in 1 .. LongestFile, OpenAt(k), ArrayTypeOK'
  PROVE  ReadInv' /\ RowsInv' /\ ChunksDoNotMatter'
<1>1. ArrayTypeOK /\ RowsInv
  BY DEF ArrayInv
<1>2. /\ k \in DOMAIN starts /\ starts[k] > 0
      /\ from' = starts[k] /\ pos' = starts[k] /\ filter' = FreshFromOffset
      /\ delivered' = <<>> /\ pc' = "scan" /\ doc' = doc /\ starts' = starts
  BY DEF OpenAt
<1>3. starts[k] < Len(doc) /\ starts[k] \in Nat /\ Len(doc) \in Nat
  <2>1. starts \in Seq(Nat) /\ doc \in Seq(Punctuation)
    BY <1>1 DEF ArrayTypeOK
  <2>2. starts[k] < Len(doc)
    BY <1>1, <1>2 DEF RowsInv, Rising
  <2>3. starts[k] \in Nat /\ Len(doc) \in Nat
    BY <1>2, <2>1
  <2>4. QED
    BY <2>2, <2>3
<1>4. RowsInv'
  BY <1>1, <1>2 DEF RowsInv
<1>5. from' <= Len(doc')
  <2>1. starts[k] <= Len(doc)
    BY <1>3
  <2>2. QED
    BY <1>2, <2>1
<1>6. filter' = Opened'
  <2>1. from' # 0
    BY <1>2, <1>3
  <2>2. QED
    BY <1>2, <2>1 DEF Opened
<1>7. JustOpened'
  BY <1>2, <1>5, <1>6 DEF JustOpened
<1>8. JustOpened' => ReadInv' /\ ChunksDoNotMatter'
  BY OpenedReads, PTL
<1>9. QED
  BY <1>4, <1>7, <1>8

\* Every step.
LEMMA ArraySteps == ArrayInv /\ [ArrayNext]_arrayVars => ArrayInv'
<1> SUFFICES ASSUME ArrayInv, [ArrayNext]_arrayVars PROVE ArrayInv'
  OBVIOUS
<1>1. ArrayTypeOK'
  BY ArrayTypesStep DEF ArrayInv
<1>2. CASE UNCHANGED arrayVars
  <2>1. UNCHANGED <<doc, starts, from, pos, filter, delivered, pc>>
    BY <1>2 DEF arrayVars
  <2>2. OnePass' = OnePass /\ OnePiece' = OnePiece
    BY <2>1, SamePass
  <2>3. NotMapped' <=> NotMapped
    BY <2>1 DEF NotMapped, IsArrayFile, ScannedFile
  <2>4. ReadInv' /\ RowsInv'
    BY <2>1, <2>2 DEF ArrayInv, ReadInv, RowsInv
  <2>5. ChunksDoNotMatter'
    BY <2>1, <2>2, <2>3 DEF ArrayInv, ChunksDoNotMatter
  <2>6. QED
    BY <1>1, <2>4, <2>5 DEF ArrayInv
<1>3. ASSUME NEW n \in Chunks, ReadChunk(n) \/ ReadTrailer(n) PROVE ArrayInv'
  <2>1. doc' = doc /\ starts' = starts /\ from' = from
    BY <1>3 DEF ReadChunk, ReadTrailer
  <2>2. RowsInv'
    BY <2>1 DEF ArrayInv, RowsInv
  <2>3. ReadInv' /\ ChunksDoNotMatter'
    BY <1>3, ReadChunkStep, ReadTrailerStep
  <2>4. QED
    BY <1>1, <2>2, <2>3 DEF ArrayInv
<1>4. CASE ReadEnd
  <2>1. doc' = doc /\ starts' = starts /\ from' = from
    BY <1>4 DEF ReadEnd
  <2>2. RowsInv'
    BY <2>1 DEF ArrayInv, RowsInv
  <2>3. QED
    BY <1>1, <1>4, <2>2, ReadEndStep DEF ArrayInv
<1>5. CASE Inspect
  BY <1>1, <1>5, InspectStep DEF ArrayInv
<1>6. ASSUME NEW k \in 1 .. LongestFile, OpenAt(k) PROVE ArrayInv'
  BY <1>1, <1>6, OpenAtStep DEF ArrayInv
<1>7. QED
  BY <1>2, <1>3, <1>4, <1>5, <1>6 DEF ArrayNext

\* A stream over a file or over the rest of one from a mapped row on delivers the same
\* whatever chunks it is read in, and it is opened at the brace of a row
\* (json.rs:151-387, inspect.rs:184-279).
THEOREM ArrayReadInOnePiece == ArraySpec => [](ChunksDoNotMatter /\ RowsInOrder)
<1>1. ArrayInv => ChunksDoNotMatter /\ RowsInOrder
  <2>1. ArrayInv => ChunksDoNotMatter /\ RowsInv
    BY DEF ArrayInv
  <2>2. RowsInv => RowsInOrder
    BY DEF RowsInv, RowsInOrder, Rising, OpensAt, IsBrace
  <2>3. QED
    BY <2>1, <2>2
<1>2. QED
  BY <1>1, ArrayBegins, ArraySteps, PTL DEF ArraySpec
-----------------------------------------------------------------------------
(* The families of texts that JsonArray generates. *)

\* The longest file is so many bytes.
LEMMA LongestNat ==
  /\ LongestFile \in Nat
  /\ MaxArray <= LongestFile /\ MaxText + 4 <= LongestFile /\ MaxOther <= LongestFile
<1>1. PICK a \in Nat, b \in Nat, c \in Nat : a = MaxArray /\ b = MaxText + 4 /\ c = MaxOther
  BY ArrayBoundsAssumption
<1>2. \E x \in {a, b, c} : \A y \in {a, b, c} : x >= y
  <2>1. CASE a >= b /\ a >= c
    BY <2>1
  <2>2. CASE b >= a /\ b >= c
    BY <2>2
  <2>3. CASE c >= a /\ c >= b
    BY <2>3
  <2>4. QED
    BY <2>1, <2>2, <2>3
<1>3. LongestFile \in {a, b, c} /\ \A y \in {a, b, c} : LongestFile >= y
  BY <1>1, <1>2 DEF LongestFile, Max
<1>4. QED
  BY <1>1, <1>3

\* Two families that agree below n.
Agree(g, h, n) == \A i \in 0 .. n - 1 : g[i] = h[i]

\* A row and what follows depend on what is shorter.
LEMMA RowSame ==
  ASSUME NEW n \in Nat, NEW g, NEW h, Agree(g, h, n)
  PROVE  Row(n, g) = Row(n, h)
<1> DEFINE Piece(f, k) == {WithRow(o, x) : o \in Objects(k), x \in f[n - k]}
<1>1. ASSUME NEW k \in 2 .. n PROVE Piece(g, k) = Piece(h, k)
  <2>1. n - k \in 0 .. n - 1
    BY <1>1
  <2>2. g[n - k] = h[n - k]
    BY <2>1 DEF Agree
  <2>3. QED
    BY <2>2
<1>2. /\ Row(n, g) = UNION {Piece(g, k) : k \in 2 .. n}
      /\ Row(n, h) = UNION {Piece(h, k) : k \in 2 .. n}
  BY DEF Row
<1> HIDE DEF Piece
<1>3. QED
  BY <1>1, <1>2

\* One step of the definition of Quoted: strings.
QuotedOf(g, n) ==
  IF n = 0 THEN {<<>>}
  ELSE Glue(Chars(Punctuation \ {"q", "b"}), g[n - 1])
         \cup IF n = 1 THEN {}
              ELSE Glue(Glue(Chars({"b"}), Chars(Punctuation)), g[n - 2])

\* It depends on what is shorter.
LEMMA QuotedSame ==
  ASSUME NEW n \in Nat, NEW g, NEW h, Agree(g, h, n)
  PROVE  QuotedOf(g, n) = QuotedOf(h, n)
<1>1. CASE n = 0
  BY <1>1 DEF QuotedOf
<1>2. CASE n # 0
  <2>1. g[n - 1] = h[n - 1] /\ (n # 1 => g[n - 2] = h[n - 2])
    <3>1. n - 1 \in 0 .. n - 1 /\ (n # 1 => n - 2 \in 0 .. n - 1)
      BY <1>2
    <3>2. QED
      BY <3>1 DEF Agree
  <2>2. QED
    BY <1>2, <2>1 DEF QuotedOf
<1>3. QED
  BY <1>1, <1>2

\* There is such a family, and Quoted is one.
LEMMA QuotedUnfold == \A n \in 0 .. LongestFile : Quoted[n] = QuotedOf(Quoted, n)
<1>1. PICK N \in Nat : N = LongestFile
  BY LongestNat
<1> DEFINE Solves(g, m) == \A i \in 0 .. m : g[i] = QuotedOf(g, i)
           K == {m \in Nat : ~\E g : Solves(g, m)}
<1>2. K = {}
  <2>1. SUFFICES ASSUME K # {} PROVE FALSE
    OBVIOUS
  <2>2. PICK m \in K : \A j \in K : m <= j
    <3>1. K \subseteq Nat
      OBVIOUS
    <3> HIDE DEF K
    <3>2. QED
      BY <2>1, <3>1, LeastExists
  <2>3. m \in Nat /\ ~\E g : Solves(g, m)
    OBVIOUS
  <2>4. PICK h : \A i \in 0 .. m - 1 : h[i] = QuotedOf(h, i)
    <3>1. CASE m = 0
      BY <3>1
    <3>2. CASE m # 0
      <4>1. m - 1 \in Nat /\ ~(m <= m - 1)
        BY <2>3, <3>2
      <4>2. m - 1 \notin K
        <5> HIDE DEF K
        <5>1. QED
          BY <2>2, <4>1
      <4>3. QED
        BY <4>1, <4>2
    <3>3. QED
      BY <3>1, <3>2
  <2>5. PICK v : v = QuotedOf(h, m)
    OBVIOUS
  <2>6. PICK g : g = [i \in 0 .. m |-> IF i = m THEN v ELSE h[i]]
    OBVIOUS
  <2>7. ASSUME NEW i \in 0 .. m PROVE g[i] = QuotedOf(g, i)
    <3>1. Agree(g, h, i)
      <4>1. SUFFICES ASSUME NEW j \in 0 .. i - 1 PROVE g[j] = h[j]
        BY DEF Agree
      <4>2. j \in 0 .. m /\ j # m
        BY <2>3, <2>7, <4>1
      <4>3. QED
        BY <2>6, <4>2
    <3>2. QuotedOf(g, i) = QuotedOf(h, i)
      BY <3>1, <2>3, QuotedSame
    <3>3. g[i] = QuotedOf(h, i)
      <4>1. CASE i = m
        BY <2>5, <2>6, <4>1
      <4>2. CASE i # m
        <5>1. i \in 0 .. m - 1
          BY <2>3, <4>2
        <5>2. QED
          BY <2>4, <2>6, <4>2, <5>1
      <4>3. QED
        BY <4>1, <4>2
    <3>4. QED
      BY <3>2, <3>3
  <2>8. QED
    BY <2>3, <2>7
<1>3. PICK h : \A i \in 0 .. N : h[i] = QuotedOf(h, i)
  <2>1. N \notin K
    <3> HIDE DEF K
    <3>1. QED
      BY <1>2
  <2>2. QED
    BY <2>1
<1>4. PICK g : g = [i \in 0 .. N |-> h[i]]
  OBVIOUS
<1>5. ASSUME NEW i \in 0 .. N PROVE h[i] = QuotedOf(g, i)
  <2>1. Agree(g, h, i)
    <3>1. SUFFICES ASSUME NEW j \in 0 .. i - 1 PROVE g[j] = h[j]
      BY DEF Agree
    <3>2. j \in 0 .. N
      BY <1>5, <3>1
    <3>3. QED
      BY <1>4, <3>2
  <2>2. QuotedOf(g, i) = QuotedOf(h, i)
    BY <2>1, QuotedSame
  <2>3. QED
    BY <1>3, <2>2
<1>6. g = [i \in 0 .. N |-> QuotedOf(g, i)]
  BY <1>4, <1>5
<1> HIDE DEF Solves, K
<1> DEFINE Is(f) == f = [n \in 0 .. LongestFile |-> QuotedOf(f, n)]
<1>7. Quoted = CHOOSE f : Is(f)
  BY DEF Quoted, QuotedOf
<1>8. Is(g)
  BY <1>1, <1>6
<1>9. Is(Quoted)
  <2> HIDE DEF Is
  <2>1. QED
    BY <1>7, <1>8
<1>10. QED
  BY <1>9

\* One step of the definition of Balanced: texts in which brackets match.
BalancedOf(g, n) ==
  IF n = 0 THEN {<<>>}
  ELSE Glue(Letters, g[n - 1])
         \cup UNION {Glue(Around("q", Quoted[k - 2], "q")
                            \cup Around("{", g[k - 2], "}")
                            \cup Around("[", g[k - 2], "]"),
                          g[n - k]) : k \in 2 .. n}

\* It depends on what is shorter.
LEMMA BalancedSame ==
  ASSUME NEW n \in Nat, NEW g, NEW h, Agree(g, h, n)
  PROVE  BalancedOf(g, n) = BalancedOf(h, n)
<1>1. CASE n = 0
  BY <1>1 DEF BalancedOf
<1>2. CASE n # 0
  <2>1. g[n - 1] = h[n - 1]
    <3>1. n - 1 \in 0 .. n - 1
      BY <1>2
    <3>2. QED
      BY <3>1 DEF Agree
  <2> DEFINE Piece(f, k) == Glue(Around("q", Quoted[k - 2], "q")
                                  \cup Around("{", f[k - 2], "}")
                                  \cup Around("[", f[k - 2], "]"), f[n - k])
  <2>2. ASSUME NEW k \in 2 .. n PROVE Piece(g, k) = Piece(h, k)
    <3>1. k - 2 \in 0 .. n - 1 /\ n - k \in 0 .. n - 1
      BY <2>2
    <3>2. g[k - 2] = h[k - 2] /\ g[n - k] = h[n - k]
      BY <3>1 DEF Agree
    <3>3. QED
      BY <3>2
  <2>3. /\ BalancedOf(g, n) = Glue(Letters, g[n - 1]) \cup UNION {Piece(g, k) : k \in 2 .. n}
        /\ BalancedOf(h, n) = Glue(Letters, h[n - 1]) \cup UNION {Piece(h, k) : k \in 2 .. n}
    BY <1>2 DEF BalancedOf
  <2> HIDE DEF Piece
  <2>4. UNION {Piece(g, k) : k \in 2 .. n} = UNION {Piece(h, k) : k \in 2 .. n}
    BY <2>2
  <2>5. QED
    BY <2>1, <2>3, <2>4
<1>3. QED
  BY <1>1, <1>2

\* There is such a family, and Balanced is one.
LEMMA BalancedUnfold == \A n \in 0 .. LongestFile : Balanced[n] = BalancedOf(Balanced, n)
<1>1. PICK N \in Nat : N = LongestFile
  BY LongestNat
<1> DEFINE Solves(g, m) == \A i \in 0 .. m : g[i] = BalancedOf(g, i)
           K == {m \in Nat : ~\E g : Solves(g, m)}
<1>2. K = {}
  <2>1. SUFFICES ASSUME K # {} PROVE FALSE
    OBVIOUS
  <2>2. PICK m \in K : \A j \in K : m <= j
    <3>1. K \subseteq Nat
      OBVIOUS
    <3> HIDE DEF K
    <3>2. QED
      BY <2>1, <3>1, LeastExists
  <2>3. m \in Nat /\ ~\E g : Solves(g, m)
    OBVIOUS
  <2>4. PICK h : \A i \in 0 .. m - 1 : h[i] = BalancedOf(h, i)
    <3>1. CASE m = 0
      BY <3>1
    <3>2. CASE m # 0
      <4>1. m - 1 \in Nat /\ ~(m <= m - 1)
        BY <2>3, <3>2
      <4>2. m - 1 \notin K
        <5> HIDE DEF K
        <5>1. QED
          BY <2>2, <4>1
      <4>3. QED
        BY <4>1, <4>2
    <3>3. QED
      BY <3>1, <3>2
  <2>5. PICK v : v = BalancedOf(h, m)
    OBVIOUS
  <2>6. PICK g : g = [i \in 0 .. m |-> IF i = m THEN v ELSE h[i]]
    OBVIOUS
  <2>7. ASSUME NEW i \in 0 .. m PROVE g[i] = BalancedOf(g, i)
    <3>1. Agree(g, h, i)
      <4>1. SUFFICES ASSUME NEW j \in 0 .. i - 1 PROVE g[j] = h[j]
        BY DEF Agree
      <4>2. j \in 0 .. m /\ j # m
        BY <2>3, <2>7, <4>1
      <4>3. QED
        BY <2>6, <4>2
    <3>2. BalancedOf(g, i) = BalancedOf(h, i)
      BY <3>1, <2>3, BalancedSame
    <3>3. g[i] = BalancedOf(h, i)
      <4>1. CASE i = m
        BY <2>5, <2>6, <4>1
      <4>2. CASE i # m
        <5>1. i \in 0 .. m - 1
          BY <2>3, <4>2
        <5>2. QED
          BY <2>4, <2>6, <4>2, <5>1
      <4>3. QED
        BY <4>1, <4>2
    <3>4. QED
      BY <3>2, <3>3
  <2>8. QED
    BY <2>3, <2>7
<1>3. PICK h : \A i \in 0 .. N : h[i] = BalancedOf(h, i)
  <2>1. N \notin K
    <3> HIDE DEF K
    <3>1. QED
      BY <1>2
  <2>2. QED
    BY <2>1
<1>4. PICK g : g = [i \in 0 .. N |-> h[i]]
  OBVIOUS
<1>5. ASSUME NEW i \in 0 .. N PROVE h[i] = BalancedOf(g, i)
  <2>1. Agree(g, h, i)
    <3>1. SUFFICES ASSUME NEW j \in 0 .. i - 1 PROVE g[j] = h[j]
      BY DEF Agree
    <3>2. j \in 0 .. N
      BY <1>5, <3>1
    <3>3. QED
      BY <1>4, <3>2
  <2>2. BalancedOf(g, i) = BalancedOf(h, i)
    BY <2>1, BalancedSame
  <2>3. QED
    BY <1>3, <2>2
<1>6. g = [i \in 0 .. N |-> BalancedOf(g, i)]
  BY <1>4, <1>5
<1> HIDE DEF Solves, K
<1> DEFINE Is(f) == f = [n \in 0 .. LongestFile |-> BalancedOf(f, n)]
<1>7. Balanced = CHOOSE f : Is(f)
  BY DEF Balanced, BalancedOf
<1>8. Is(g)
  BY <1>1, <1>6
<1>9. Is(Balanced)
  <2> HIDE DEF Is
  <2>1. QED
    BY <1>7, <1>8
<1>10. QED
  BY <1>9

\* One step of the definition of Tails: what follows a row.
TailsOf(g, n) ==
  IF n = 0 THEN [row |-> {}, comma |-> {}, open |-> {}]
  ELSE LET rest == Row(n, [m \in 0 .. n - 1 |-> g[m].row]) IN
       [row   |-> Closed(n) \cup Skip(" ", g[n - 1].row)
                    \cup Skip(",", g[n - 1].comma),
        comma |-> rest \cup Skip(" ", g[n - 1].comma),
        open  |-> Closed(n) \cup rest \cup Skip(" ", g[n - 1].open)]

\* It depends on what is shorter.
LEMMA TailsSame ==
  ASSUME NEW n \in Nat, NEW g, NEW h, Agree(g, h, n)
  PROVE  TailsOf(g, n) = TailsOf(h, n)
<1>1. CASE n = 0
  BY <1>1 DEF TailsOf
<1>2. CASE n # 0
  <2>1. g[n - 1] = h[n - 1]
    <3>1. n - 1 \in 0 .. n - 1
      BY <1>2
    <3>2. QED
      BY <3>1 DEF Agree
  <2>2. [m \in 0 .. n - 1 |-> g[m].row] = [m \in 0 .. n - 1 |-> h[m].row]
    BY DEF Agree
  <2>3. QED
    BY <1>2, <2>1, <2>2 DEF TailsOf
<1>3. QED
  BY <1>1, <1>2

\* There is such a family, and Tails is one.
LEMMA TailsUnfold == \A n \in 0 .. LongestFile : Tails[n] = TailsOf(Tails, n)
<1>1. PICK N \in Nat : N = LongestFile
  BY LongestNat
<1> DEFINE Solves(g, m) == \A i \in 0 .. m : g[i] = TailsOf(g, i)
           K == {m \in Nat : ~\E g : Solves(g, m)}
<1>2. K = {}
  <2>1. SUFFICES ASSUME K # {} PROVE FALSE
    OBVIOUS
  <2>2. PICK m \in K : \A j \in K : m <= j
    <3>1. K \subseteq Nat
      OBVIOUS
    <3> HIDE DEF K
    <3>2. QED
      BY <2>1, <3>1, LeastExists
  <2>3. m \in Nat /\ ~\E g : Solves(g, m)
    OBVIOUS
  <2>4. PICK h : \A i \in 0 .. m - 1 : h[i] = TailsOf(h, i)
    <3>1. CASE m = 0
      BY <3>1
    <3>2. CASE m # 0
      <4>1. m - 1 \in Nat /\ ~(m <= m - 1)
        BY <2>3, <3>2
      <4>2. m - 1 \notin K
        <5> HIDE DEF K
        <5>1. QED
          BY <2>2, <4>1
      <4>3. QED
        BY <4>1, <4>2
    <3>3. QED
      BY <3>1, <3>2
  <2>5. PICK v : v = TailsOf(h, m)
    OBVIOUS
  <2>6. PICK g : g = [i \in 0 .. m |-> IF i = m THEN v ELSE h[i]]
    OBVIOUS
  <2>7. ASSUME NEW i \in 0 .. m PROVE g[i] = TailsOf(g, i)
    <3>1. Agree(g, h, i)
      <4>1. SUFFICES ASSUME NEW j \in 0 .. i - 1 PROVE g[j] = h[j]
        BY DEF Agree
      <4>2. j \in 0 .. m /\ j # m
        BY <2>3, <2>7, <4>1
      <4>3. QED
        BY <2>6, <4>2
    <3>2. TailsOf(g, i) = TailsOf(h, i)
      BY <3>1, <2>3, TailsSame
    <3>3. g[i] = TailsOf(h, i)
      <4>1. CASE i = m
        BY <2>5, <2>6, <4>1
      <4>2. CASE i # m
        <5>1. i \in 0 .. m - 1
          BY <2>3, <4>2
        <5>2. QED
          BY <2>4, <2>6, <4>2, <5>1
      <4>3. QED
        BY <4>1, <4>2
    <3>4. QED
      BY <3>2, <3>3
  <2>8. QED
    BY <2>3, <2>7
<1>3. PICK h : \A i \in 0 .. N : h[i] = TailsOf(h, i)
  <2>1. N \notin K
    <3> HIDE DEF K
    <3>1. QED
      BY <1>2
  <2>2. QED
    BY <2>1
<1>4. PICK g : g = [i \in 0 .. N |-> h[i]]
  OBVIOUS
<1>5. ASSUME NEW i \in 0 .. N PROVE h[i] = TailsOf(g, i)
  <2>1. Agree(g, h, i)
    <3>1. SUFFICES ASSUME NEW j \in 0 .. i - 1 PROVE g[j] = h[j]
      BY DEF Agree
    <3>2. j \in 0 .. N
      BY <1>5, <3>1
    <3>3. QED
      BY <1>4, <3>2
  <2>2. TailsOf(g, i) = TailsOf(h, i)
    BY <2>1, TailsSame
  <2>3. QED
    BY <1>3, <2>2
<1>6. g = [i \in 0 .. N |-> TailsOf(g, i)]
  BY <1>4, <1>5
<1> HIDE DEF Solves, K
<1> DEFINE Is(f) == f = [n \in 0 .. LongestFile |-> TailsOf(f, n)]
<1>7. Tails = CHOOSE f : Is(f)
  BY DEF Tails, TailsOf
<1>8. Is(g)
  BY <1>1, <1>6
<1>9. Is(Tails)
  <2> HIDE DEF Is
  <2>1. QED
    BY <1>7, <1>8
<1>10. QED
  BY <1>9

\* One step of the definition of Lead: arrays.
LeadOf(g, n) ==
  IF n = 0 THEN {} ELSE Skip("[", Tails[n - 1].open) \cup Skip(" ", g[n - 1])

\* It depends on what is shorter.
LEMMA LeadSame ==
  ASSUME NEW n \in Nat, NEW g, NEW h, Agree(g, h, n)
  PROVE  LeadOf(g, n) = LeadOf(h, n)
<1>1. CASE n = 0
  BY <1>1 DEF LeadOf
<1>2. CASE n # 0
  <2>1. g[n - 1] = h[n - 1]
    <3>1. n - 1 \in 0 .. n - 1
      BY <1>2
    <3>2. QED
      BY <3>1 DEF Agree
  <2>2. QED
    BY <1>2, <2>1 DEF LeadOf
<1>3. QED
  BY <1>1, <1>2

\* There is such a family, and Lead is one.
LEMMA LeadUnfold == \A n \in 0 .. LongestFile : Lead[n] = LeadOf(Lead, n)
<1>1. PICK N \in Nat : N = LongestFile
  BY LongestNat
<1> DEFINE Solves(g, m) == \A i \in 0 .. m : g[i] = LeadOf(g, i)
           K == {m \in Nat : ~\E g : Solves(g, m)}
<1>2. K = {}
  <2>1. SUFFICES ASSUME K # {} PROVE FALSE
    OBVIOUS
  <2>2. PICK m \in K : \A j \in K : m <= j
    <3>1. K \subseteq Nat
      OBVIOUS
    <3> HIDE DEF K
    <3>2. QED
      BY <2>1, <3>1, LeastExists
  <2>3. m \in Nat /\ ~\E g : Solves(g, m)
    OBVIOUS
  <2>4. PICK h : \A i \in 0 .. m - 1 : h[i] = LeadOf(h, i)
    <3>1. CASE m = 0
      BY <3>1
    <3>2. CASE m # 0
      <4>1. m - 1 \in Nat /\ ~(m <= m - 1)
        BY <2>3, <3>2
      <4>2. m - 1 \notin K
        <5> HIDE DEF K
        <5>1. QED
          BY <2>2, <4>1
      <4>3. QED
        BY <4>1, <4>2
    <3>3. QED
      BY <3>1, <3>2
  <2>5. PICK v : v = LeadOf(h, m)
    OBVIOUS
  <2>6. PICK g : g = [i \in 0 .. m |-> IF i = m THEN v ELSE h[i]]
    OBVIOUS
  <2>7. ASSUME NEW i \in 0 .. m PROVE g[i] = LeadOf(g, i)
    <3>1. Agree(g, h, i)
      <4>1. SUFFICES ASSUME NEW j \in 0 .. i - 1 PROVE g[j] = h[j]
        BY DEF Agree
      <4>2. j \in 0 .. m /\ j # m
        BY <2>3, <2>7, <4>1
      <4>3. QED
        BY <2>6, <4>2
    <3>2. LeadOf(g, i) = LeadOf(h, i)
      BY <3>1, <2>3, LeadSame
    <3>3. g[i] = LeadOf(h, i)
      <4>1. CASE i = m
        BY <2>5, <2>6, <4>1
      <4>2. CASE i # m
        <5>1. i \in 0 .. m - 1
          BY <2>3, <4>2
        <5>2. QED
          BY <2>4, <2>6, <4>2, <5>1
      <4>3. QED
        BY <4>1, <4>2
    <3>4. QED
      BY <3>2, <3>3
  <2>8. QED
    BY <2>3, <2>7
<1>3. PICK h : \A i \in 0 .. N : h[i] = LeadOf(h, i)
  <2>1. N \notin K
    <3> HIDE DEF K
    <3>1. QED
      BY <1>2
  <2>2. QED
    BY <2>1
<1>4. PICK g : g = [i \in 0 .. N |-> h[i]]
  OBVIOUS
<1>5. ASSUME NEW i \in 0 .. N PROVE h[i] = LeadOf(g, i)
  <2>1. Agree(g, h, i)
    <3>1. SUFFICES ASSUME NEW j \in 0 .. i - 1 PROVE g[j] = h[j]
      BY DEF Agree
    <3>2. j \in 0 .. N
      BY <1>5, <3>1
    <3>3. QED
      BY <1>4, <3>2
  <2>2. LeadOf(g, i) = LeadOf(h, i)
    BY <2>1, LeadSame
  <2>3. QED
    BY <1>3, <2>2
<1>6. g = [i \in 0 .. N |-> LeadOf(g, i)]
  BY <1>4, <1>5
<1> HIDE DEF Solves, K
<1> DEFINE Is(f) == f = [n \in 0 .. LongestFile |-> LeadOf(f, n)]
<1>7. Lead = CHOOSE f : Is(f)
  BY DEF Lead, LeadOf
<1>8. Is(g)
  BY <1>1, <1>6
<1>9. Is(Lead)
  <2> HIDE DEF Is
  <2>1. QED
    BY <1>7, <1>8
<1>10. QED
  BY <1>9

\* One step of the definition of Streams: streams of rows.
StreamsOf(g, n) ==
  IF n = 0 THEN {Text(<<>>)} ELSE Skip(" ", g[n - 1]) \cup Row(n, g)

\* It depends on what is shorter.
LEMMA StreamsSame ==
  ASSUME NEW n \in Nat, NEW g, NEW h, Agree(g, h, n)
  PROVE  StreamsOf(g, n) = StreamsOf(h, n)
<1>1. CASE n = 0
  BY <1>1 DEF StreamsOf
<1>2. CASE n # 0
  <2>1. g[n - 1] = h[n - 1]
    <3>1. n - 1 \in 0 .. n - 1
      BY <1>2
    <3>2. QED
      BY <3>1 DEF Agree
  <2>2. Row(n, g) = Row(n, h)
    BY RowSame
  <2>3. QED
    BY <1>2, <2>1, <2>2 DEF StreamsOf
<1>3. QED
  BY <1>1, <1>2

\* There is such a family, and Streams is one.
LEMMA StreamsUnfold == \A n \in 0 .. LongestFile : Streams[n] = StreamsOf(Streams, n)
<1>1. PICK N \in Nat : N = LongestFile
  BY LongestNat
<1> DEFINE Solves(g, m) == \A i \in 0 .. m : g[i] = StreamsOf(g, i)
           K == {m \in Nat : ~\E g : Solves(g, m)}
<1>2. K = {}
  <2>1. SUFFICES ASSUME K # {} PROVE FALSE
    OBVIOUS
  <2>2. PICK m \in K : \A j \in K : m <= j
    <3>1. K \subseteq Nat
      OBVIOUS
    <3> HIDE DEF K
    <3>2. QED
      BY <2>1, <3>1, LeastExists
  <2>3. m \in Nat /\ ~\E g : Solves(g, m)
    OBVIOUS
  <2>4. PICK h : \A i \in 0 .. m - 1 : h[i] = StreamsOf(h, i)
    <3>1. CASE m = 0
      BY <3>1
    <3>2. CASE m # 0
      <4>1. m - 1 \in Nat /\ ~(m <= m - 1)
        BY <2>3, <3>2
      <4>2. m - 1 \notin K
        <5> HIDE DEF K
        <5>1. QED
          BY <2>2, <4>1
      <4>3. QED
        BY <4>1, <4>2
    <3>3. QED
      BY <3>1, <3>2
  <2>5. PICK v : v = StreamsOf(h, m)
    OBVIOUS
  <2>6. PICK g : g = [i \in 0 .. m |-> IF i = m THEN v ELSE h[i]]
    OBVIOUS
  <2>7. ASSUME NEW i \in 0 .. m PROVE g[i] = StreamsOf(g, i)
    <3>1. Agree(g, h, i)
      <4>1. SUFFICES ASSUME NEW j \in 0 .. i - 1 PROVE g[j] = h[j]
        BY DEF Agree
      <4>2. j \in 0 .. m /\ j # m
        BY <2>3, <2>7, <4>1
      <4>3. QED
        BY <2>6, <4>2
    <3>2. StreamsOf(g, i) = StreamsOf(h, i)
      BY <3>1, <2>3, StreamsSame
    <3>3. g[i] = StreamsOf(h, i)
      <4>1. CASE i = m
        BY <2>5, <2>6, <4>1
      <4>2. CASE i # m
        <5>1. i \in 0 .. m - 1
          BY <2>3, <4>2
        <5>2. QED
          BY <2>4, <2>6, <4>2, <5>1
      <4>3. QED
        BY <4>1, <4>2
    <3>4. QED
      BY <3>2, <3>3
  <2>8. QED
    BY <2>3, <2>7
<1>3. PICK h : \A i \in 0 .. N : h[i] = StreamsOf(h, i)
  <2>1. N \notin K
    <3> HIDE DEF K
    <3>1. QED
      BY <1>2
  <2>2. QED
    BY <2>1
<1>4. PICK g : g = [i \in 0 .. N |-> h[i]]
  OBVIOUS
<1>5. ASSUME NEW i \in 0 .. N PROVE h[i] = StreamsOf(g, i)
  <2>1. Agree(g, h, i)
    <3>1. SUFFICES ASSUME NEW j \in 0 .. i - 1 PROVE g[j] = h[j]
      BY DEF Agree
    <3>2. j \in 0 .. N
      BY <1>5, <3>1
    <3>3. QED
      BY <1>4, <3>2
  <2>2. StreamsOf(g, i) = StreamsOf(h, i)
    BY <2>1, StreamsSame
  <2>3. QED
    BY <1>3, <2>2
<1>6. g = [i \in 0 .. N |-> StreamsOf(g, i)]
  BY <1>4, <1>5
<1> HIDE DEF Solves, K
<1> DEFINE Is(f) == f = [n \in 0 .. LongestFile |-> StreamsOf(f, n)]
<1>7. Streams = CHOOSE f : Is(f)
  BY DEF Streams, StreamsOf
<1>8. Is(g)
  BY <1>1, <1>6
<1>9. Is(Streams)
  <2> HIDE DEF Is
  <2>1. QED
    BY <1>7, <1>8
<1>10. QED
  BY <1>9
-----------------------------------------------------------------------------
(* Texts the filter keeps. *)

\* What is filtered does not depend on what comes later.
LEMMA FilteredPrefix ==
  ASSUME NEW s \in Filter, NEW u \in Seq(Punctuation), NEW w \in Seq(Punctuation),
         NEW p \in Nat, p <= Len(u), p <= Len(w), \A i \in 1 .. p : u[i] = w[i]
  PROVE  \A i \in 0 .. p : Filtered(s, u)[i] = Filtered(s, w)[i]
<1>1. PICK N \in Nat, M \in Nat : N = Len(u) /\ M = Len(w)
  OBVIOUS
<1>2. PICK g, h : g = Filtered(s, u) /\ h = Filtered(s, w)
  OBVIOUS
<1>3. /\ g[0] = s /\ h[0] = s
      /\ \A i \in 1 .. N : g[i] = FilterByte(g[i - 1], u[i])
      /\ \A i \in 1 .. M : h[i] = FilterByte(h[i - 1], w[i])
  BY <1>1, <1>2, FilteredStep
<1> DEFINE K == {i \in Nat : i <= p /\ g[i] # h[i]}
<1>4. SUFFICES ASSUME K # {} PROVE FALSE
  BY <1>2
<1>5. PICK m \in K : \A j \in K : m <= j
  <2>1. K \subseteq Nat
    OBVIOUS
  <2> HIDE DEF K
  <2>2. QED
    BY <1>4, <2>1, LeastExists
<1>6. m \in Nat /\ m <= p /\ g[m] # h[m]
  OBVIOUS
<1>7. m # 0
  BY <1>3, <1>6
<1>8. m \in 1 .. N /\ m \in 1 .. M /\ m \in 1 .. p /\ m - 1 \in Nat /\ m - 1 <= p /\ ~(m <= m - 1)
  BY <1>1, <1>6, <1>7
<1>9. g[m - 1] = h[m - 1]
  <2>1. m - 1 \notin K
    <3> HIDE DEF K
    <3>1. QED
      BY <1>5, <1>8
  <2>2. QED
    BY <1>8, <2>1
<1>10. QED
  BY <1>3, <1>6, <1>8, <1>9

\* What comes later is filtered from where the filter is.
LEMMA FilteredRest ==
  ASSUME NEW s \in Filter, NEW w \in Seq(Punctuation), NEW v \in Seq(Punctuation),
         NEW p \in Nat, p + Len(v) <= Len(w), \A j \in 1 .. Len(v) : v[j] = w[p + j]
  PROVE  \A j \in 0 .. Len(v) : Filtered(s, w)[p + j] = Filtered(Filtered(s, w)[p], v)[j]
<1>1. PICK N \in Nat, n \in Nat : N = Len(w) /\ n = Len(v)
  OBVIOUS
<1>2. PICK g : g = Filtered(s, w)
  OBVIOUS
<1>3. p \in 0 .. N /\ p + n <= N
  BY <1>1
<1>4. PICK r \in Filter : r = g[p]
  BY <1>1, <1>2, <1>3, FilteredTypes
<1>5. PICK h : h = Filtered(r, v)
  OBVIOUS
<1>6. /\ h[0] = r
      /\ \A i \in 1 .. N : g[i] = FilterByte(g[i - 1], w[i])
      /\ \A i \in 1 .. n : h[i] = FilterByte(h[i - 1], v[i])
  BY <1>1, <1>2, <1>5, FilteredStep
<1> DEFINE K == {j \in Nat : j <= n /\ g[p + j] # h[j]}
<1>7. SUFFICES ASSUME K # {} PROVE FALSE
  BY <1>1, <1>2, <1>4, <1>5
<1>8. PICK m \in K : \A j \in K : m <= j
  <2>1. K \subseteq Nat
    OBVIOUS
  <2> HIDE DEF K
  <2>2. QED
    BY <1>7, <2>1, LeastExists
<1>9. m \in Nat /\ m <= n /\ g[p + m] # h[m]
  OBVIOUS
<1>10. m # 0
  <2>1. p + 0 = p
    OBVIOUS
  <2>2. QED
    BY <1>4, <1>6, <1>9, <2>1
<1>11. /\ m \in 1 .. n /\ m - 1 \in Nat /\ m - 1 <= n /\ ~(m <= m - 1)
       /\ p + m \in 1 .. N /\ (p + m) - 1 = p + (m - 1)
  BY <1>3, <1>9, <1>10
<1>12. g[p + (m - 1)] = h[m - 1]
  <2>1. m - 1 \notin K
    <3> HIDE DEF K
    <3>1. QED
      BY <1>8, <1>11
  <2>2. QED
    BY <1>11, <2>1
<1>13. v[m] = w[p + m]
  BY <1>1, <1>11
<1>14. g[p + m] = FilterByte(g[p + (m - 1)], w[p + m])
  BY <1>6, <1>11
<1>15. h[m] = FilterByte(h[m - 1], v[m])
  BY <1>6, <1>11
<1>16. QED
  BY <1>9, <1>12, <1>13, <1>14, <1>15

\* Inside of something, d deep or deeper.
Deep(s, d) == s.depth >= d /\ s.started /\ ~s.finished /\ ~s.bad

\* The filter goes from s to r over w and stays d deep.
Leads(s, w, r, d) ==
  /\ w \in Seq(Punctuation) /\ r \in Filter
  /\ Filtered(s, w)[Len(w)] = r
  /\ \A i \in 0 .. Len(w) : Deep(Filtered(s, w)[i], d)

\* What two texts are when one follows the other.
LEMMA JoinedText ==
  ASSUME NEW u \in Seq(Punctuation), NEW v \in Seq(Punctuation)
  PROVE  /\ u \o v \in Seq(Punctuation) /\ Len(u \o v) = Len(u) + Len(v)
         /\ \A i \in 1 .. Len(u) : (u \o v)[i] = u[i]
         /\ \A j \in 1 .. Len(v) : (u \o v)[Len(u) + j] = v[j]
OBVIOUS

\* Two texts in one are filtered as one after the other.
LEMMA FilteredJoin ==
  ASSUME NEW s \in Filter, NEW u \in Seq(Punctuation), NEW v \in Seq(Punctuation)
  PROVE  /\ \A i \in 0 .. Len(u) : Filtered(s, u \o v)[i] = Filtered(s, u)[i]
         /\ \A j \in 0 .. Len(v) :
              Filtered(s, u \o v)[Len(u) + j] = Filtered(Filtered(s, u)[Len(u)], v)[j]
<1>1. PICK w \in Seq(Punctuation) : w = u \o v
  BY JoinedText
<1>2. PICK n \in Nat, m \in Nat : n = Len(u) /\ m = Len(v)
  OBVIOUS
<1>3. /\ Len(w) = n + m
      /\ \A i \in 1 .. n : u[i] = w[i]
      /\ \A j \in 1 .. m : v[j] = w[n + j]
  BY <1>1, <1>2, JoinedText
<1>4. n <= n + m /\ n <= n /\ n + m <= n + m /\ n \in 0 .. n
  OBVIOUS
<1>5. \A i \in 0 .. n : Filtered(s, u)[i] = Filtered(s, w)[i]
  BY <1>2, <1>3, <1>4, FilteredPrefix
<1>6. \A j \in 0 .. m : Filtered(s, w)[n + j] = Filtered(Filtered(s, w)[n], v)[j]
  BY <1>2, <1>3, <1>4, FilteredRest
<1>7. Filtered(s, u)[n] = Filtered(s, w)[n]
  BY <1>4, <1>5
<1>8. QED
  BY <1>1, <1>2, <1>5, <1>6, <1>7

\* The filter that leads over two texts leads over both.
LEMMA LeadsJoin ==
  ASSUME NEW s \in Filter, NEW u, NEW r, NEW v, NEW t, NEW d,
         Leads(s, u, r, d), Leads(r, v, t, d)
  PROVE  Leads(s, u \o v, t, d)
<1>1. u \in Seq(Punctuation) /\ v \in Seq(Punctuation) /\ r \in Filter /\ t \in Filter
  BY DEF Leads
<1>2. PICK n \in Nat, m \in Nat : n = Len(u) /\ m = Len(v)
  BY <1>1
<1>3. PICK w \in Seq(Punctuation) : w = u \o v /\ Len(w) = n + m
  BY <1>1, <1>2, JoinedText
<1>4. /\ \A i \in 0 .. n : Filtered(s, w)[i] = Filtered(s, u)[i]
      /\ \A j \in 0 .. m : Filtered(s, w)[n + j] = Filtered(r, v)[j]
  BY <1>1, <1>2, <1>3, FilteredJoin DEF Leads
<1>5. /\ \A i \in 0 .. n : Deep(Filtered(s, u)[i], d)
      /\ \A i \in 0 .. m : Deep(Filtered(r, v)[i], d)
      /\ Filtered(r, v)[m] = t
  BY <1>2 DEF Leads
<1>6. Filtered(s, w)[n + m] = t
  <2>1. m \in 0 .. m
    OBVIOUS
  <2>2. QED
    BY <1>4, <1>5, <2>1
<1>7. ASSUME NEW i \in 0 .. n + m PROVE Deep(Filtered(s, w)[i], d)
  <2>1. CASE i \in 0 .. n
    BY <1>4, <1>5, <2>1
  <2>2. CASE i \notin 0 .. n
    <3>1. i - n \in 0 .. m /\ n + (i - n) = i
      BY <1>7, <2>2
    <3>2. QED
      BY <1>4, <1>5, <3>1
  <2>3. QED
    BY <2>1, <2>2
<1>8. QED
  BY <1>1, <1>3, <1>6, <1>7 DEF Leads

\* One byte.
LEMMA OneByte ==
  ASSUME NEW x \in Punctuation
  PROVE  <<x>> \in Seq(Punctuation) /\ Len(<<x>>) = 1 /\ <<x>>[1] = x
OBVIOUS

\* The filter goes over one byte.
LEMMA LeadsByte ==
  ASSUME NEW s \in Filter, NEW x \in Punctuation, NEW r, NEW d,
         FilterByte(s, x) = r, Deep(s, d), Deep(r, d)
  PROVE  Leads(s, <<x>>, r, d)
<1>1. PICK w \in Seq(Punctuation) : w = <<x>> /\ Len(w) = 1 /\ w[1] = x
  BY OneByte
<1>2. /\ Filtered(s, w)[0] = s
      /\ Filtered(s, w)[1] = FilterByte(Filtered(s, w)[0], w[1])
  <2>1. 1 \in 1 .. Len(w)
    BY <1>1
  <2>2. Filtered(s, w)[1] = FilterByte(Filtered(s, w)[1 - 1], w[1])
    BY <2>1, FilteredStep
  <2>3. QED
    BY <2>2, FilteredStep
<1>3. r \in Filter
  BY FilterByteTypes
<1>4. \A i \in 0 .. 1 : i = 0 \/ i = 1
  OBVIOUS
<1>5. QED
  BY <1>1, <1>2, <1>3, <1>4 DEF Leads

\* It goes nowhere over nothing.
LEMMA LeadsNowhere ==
  ASSUME NEW s \in Filter, NEW d, Deep(s, d)
  PROVE  Leads(s, <<>>, s, d)
<1>1. PICK w \in Seq(Punctuation) : w = <<>> /\ Len(w) = 0
  BY NothingIsText
<1>2. Filtered(s, w)[0] = s
  BY FilteredStep
<1>3. \A i \in 0 .. 0 : i = 0
  OBVIOUS
<1>4. QED
  BY <1>1, <1>2, <1>3 DEF Leads

\* The filter after it has kept a text.
Kept(s, w) == [s EXCEPT !.out = @ \o w]

\* In a string, after a backslash, and one deeper.
Str(s) == [s EXCEPT !.in_string = TRUE]
Esc(s) == [s EXCEPT !.escaped = TRUE]
Up(s) == [s EXCEPT !.depth = @ + 1]

\* Inside of an object or a list, outside of strings.
Inside(s) == s \in Filter /\ Deep(s, 1) /\ ~s.in_string /\ ~s.escaped

\* What is kept changes nothing else.
LEMMA KeptTypes ==
  ASSUME NEW s \in Filter, NEW w \in Seq(Punctuation)
  PROVE  Kept(s, w) \in Filter /\ Alike(Kept(s, w), s)
<1>1. s.out \in Seq(Punctuation)
  BY DEF Filter
<1>2. PICK o \in Seq(Punctuation) : o = s.out \o w
  <2>1. s.out \o w \in Seq(Punctuation)
    BY <1>1
  <2>2. QED
    BY <2>1
<1>3. [s EXCEPT !.out = o] \in Filter
  BY DEF Filter
<1>4. Kept(s, w) = [s EXCEPT !.out = o]
  BY <1>2 DEF Kept
<1>5. Alike([s EXCEPT !.out = o], s)
  BY DEF Alike, Filter
<1>6. QED
  BY <1>3, <1>4, <1>5

\* Two texts are kept one after the other.
LEMMA KeptJoin ==
  ASSUME NEW s \in Filter, NEW u \in Seq(Punctuation), NEW v \in Seq(Punctuation)
  PROVE  Kept(Kept(s, u), v) = Kept(s, u \o v)
<1>1. PICK o \in Seq(Punctuation) : o = s.out
  BY DEF Filter
<1>2. (o \o u) \o v = o \o (u \o v)
  OBVIOUS
<1>3. Kept(Kept(s, u), v) = [s EXCEPT !.out = (o \o u) \o v]
  BY <1>1 DEF Kept, Filter
<1>4. Kept(s, u \o v) = [s EXCEPT !.out = o \o (u \o v)]
  BY <1>1 DEF Kept
<1>5. QED
  BY <1>2, <1>3, <1>4

\* Nothing is kept.
LEMMA KeptNothing ==
  ASSUME NEW s \in Filter
  PROVE  Kept(s, <<>>) = s
<1>1. PICK o \in Seq(Punctuation) : o = s.out
  BY DEF Filter
<1>2. o \o <<>> = o
  OBVIOUS
<1>3. [s EXCEPT !.out = o] = s
  BY <1>1 DEF Filter
<1>4. QED
  BY <1>1, <1>2, <1>3 DEF Kept

\* A byte is kept.
LEMMA KeptByte ==
  ASSUME NEW s \in Filter, NEW x \in Punctuation
  PROVE  Keep(s, x) = Kept(s, <<x>>)
<1>1. PICK o \in Seq(Punctuation) : o = s.out
  BY DEF Filter
<1>2. Append(o, x) = o \o <<x>>
  OBVIOUS
<1>3. QED
  BY <1>1, <1>2 DEF Keep, Kept

\* In a string, after a backslash or deeper, the filter is one.
LEMMA FlagTypes ==
  ASSUME NEW s \in Filter
  PROVE  Str(s) \in Filter /\ Esc(s) \in Filter /\ Up(s) \in Filter
<1>1. PICK d \in Nat : d = s.depth + 1
  BY DEF Filter
<1>2. [s EXCEPT !.depth = d] \in Filter
  BY DEF Filter
<1>3. Up(s) = [s EXCEPT !.depth = d]
  BY <1>1 DEF Up
<1>4. QED
  BY <1>2, <1>3 DEF Str, Esc, Filter

\* What is kept does not depend on these.
LEMMA KeptFlags ==
  ASSUME NEW s \in Filter, NEW w \in Seq(Punctuation)
  PROVE  /\ Kept(Str(s), w) = Str(Kept(s, w))
         /\ Kept(Up(s), w) = Up(Kept(s, w))
<1>1. /\ Kept(Str(s), w) = [[s EXCEPT !.in_string = TRUE] EXCEPT !.out = s.out \o w]
      /\ Str(Kept(s, w)) = [[s EXCEPT !.out = s.out \o w] EXCEPT !.in_string = TRUE]
  BY DEF Kept, Str, Filter
<1>2. /\ Kept(Up(s), w) = [[s EXCEPT !.depth = s.depth + 1] EXCEPT !.out = s.out \o w]
      /\ Up(Kept(s, w)) = [[s EXCEPT !.out = s.out \o w] EXCEPT !.depth = s.depth + 1]
  BY DEF Kept, Up, Filter
<1>3. QED
  BY <1>1, <1>2 DEF Filter

\* What it is to be inside.
LEMMA InsideTypes ==
  ASSUME NEW s, Inside(s)
  PROVE  /\ s \in Filter /\ s.depth \in Nat /\ s.depth >= 1 /\ s.started = TRUE /\ s.finished = FALSE
         /\ s.bad = FALSE /\ s.in_string = FALSE /\ s.escaped = FALSE
BY DEF Inside, Deep, Filter

\* Inside, a text can be kept.
LEMMA InsideKept ==
  ASSUME NEW s, Inside(s), NEW w \in Seq(Punctuation)
  PROVE  Inside(Kept(s, w)) /\ Kept(s, w).depth = s.depth
<1>1. Kept(s, w) \in Filter /\ Alike(Kept(s, w), s)
  BY InsideTypes, KeptTypes
<1>2. QED
  BY <1>1 DEF Inside, Deep, Alike

\* Bytes inside.
LEMMA InsideByte ==
  ASSUME NEW s, Inside(s), NEW x \in Punctuation
  PROVE  /\ x \in {",", " "} => FilterByte(s, x) = Kept(s, <<x>>)
         /\ x = "q" => FilterByte(s, x) = Str(Kept(s, <<x>>))
         /\ x \in {"{", "["} => FilterByte(s, x) = Up(Kept(s, <<x>>))
<1>1. /\ s \in Filter /\ s.depth \in Nat /\ s.depth >= 1 /\ s.started /\ ~s.finished
      /\ ~s.bad /\ ~s.in_string /\ ~s.escaped
  BY InsideTypes
<1>2. s.depth # 0
  BY <1>1
<1>3. FilterByte(s, x) = InnerByte(s, x)
  BY <1>1, <1>2 DEF FilterByte, AfterStart
<1>4. Keep(s, x) = Kept(s, <<x>>)
  BY <1>1, KeptByte
<1>5. /\ x \in {",", " "} => InnerByte(s, x) = Keep(s, x)
      /\ x = "q" => InnerByte(s, x) = Str(Keep(s, x))
      /\ x \in {"{", "["} => InnerByte(s, x) = Up(Keep(s, x))
  BY DEF InnerByte, Str, Up
<1>6. QED
  BY <1>3, <1>4, <1>5

\* One deeper is deeper than nothing.
LEMMA OneDeeper ==
  ASSUME NEW s, Inside(s)
  PROVE  \E d \in Nat : d = s.depth + 1 /\ d > 0 /\ d # 0 /\ d # 1 /\ d - 1 = s.depth
<1>1. s.depth \in Nat /\ s.depth >= 1
  BY InsideTypes
<1>2. QED
  BY <1>1

\* The bracket that ends something inside of something.
LEMMA InsideClose ==
  ASSUME NEW s, Inside(s), NEW x \in {"]", "}"}
  PROVE  FilterByte(Up(s), x) = Kept(s, <<x>>)
<1>1. /\ s \in Filter /\ s.depth \in Nat /\ s.depth >= 1 /\ s.started /\ ~s.finished
      /\ ~s.bad /\ ~s.in_string /\ ~s.escaped
  BY InsideTypes
<1>2. PICK u \in Filter : u = Up(s)
  BY <1>1, FlagTypes
<1>3. PICK d \in Nat : d = s.depth + 1 /\ d > 0 /\ d # 0 /\ d # 1 /\ d - 1 = s.depth
  BY OneDeeper
<1>4. d > 0 /\ d # 0 /\ d # 1 /\ d - 1 = s.depth
  BY <1>3
<1>5. /\ u.depth = d /\ u.started = s.started /\ u.finished = s.finished /\ u.bad = s.bad
      /\ u.in_string = s.in_string /\ u.has_value = s.has_value
  BY <1>2, <1>3 DEF Up, Filter
<1>6. FilterByte(u, x) = InnerByte(u, x)
  BY <1>1, <1>4, <1>5 DEF FilterByte, AfterStart
<1>7. x \in Punctuation
  BY DEF Punctuation
<1>8. PICK k \in Filter : k = Keep(u, x)
  BY <1>7, KeepTypes
<1>9. k.depth = d /\ k.has_value = s.has_value /\ k.has_value \in BOOLEAN
  BY <1>5, <1>8 DEF Keep, Filter
<1>10. InnerByte(u, x) = [k EXCEPT !.depth = k.depth - 1,
                                   !.has_value = k.has_value \/ (u.depth = 1 /\ u.array_started)]
  BY <1>4, <1>5, <1>8 DEF InnerByte
<1>11. (k.has_value \/ (u.depth = 1 /\ u.array_started)) = k.has_value
  BY <1>4, <1>5, <1>9
<1>12. InnerByte(u, x) = [k EXCEPT !.depth = s.depth, !.has_value = k.has_value]
  BY <1>4, <1>9, <1>10, <1>11
<1>13. [k EXCEPT !.depth = s.depth, !.has_value = k.has_value] = Kept(s, <<x>>)
  <2>1. k = Kept(u, <<x>>)
    BY <1>7, <1>8, KeptByte
  <2>2. k = Up(Kept(s, <<x>>))
    BY <1>1, <1>2, <1>7, <2>1, KeptFlags, OneByte
  <2>3. PICK t \in Filter : t = Kept(s, <<x>>)
    BY <1>1, <1>7, KeptTypes, OneByte
  <2>4. t.depth = s.depth
    BY <1>1, <1>7, <2>3, KeptTypes, OneByte DEF Alike
  <2>5. [Up(t) EXCEPT !.depth = t.depth, !.has_value = Up(t).has_value] = t
    BY DEF Up, Filter
  <2>6. QED
    BY <2>2, <2>3, <2>4, <2>5
<1>14. QED
  BY <1>2, <1>6, <1>12, <1>13

\* Bytes of a string.
LEMMA StringBytes ==
  ASSUME NEW s, Inside(s), NEW x \in Punctuation
  PROVE  /\ x \notin {"q", "b"} => FilterByte(Str(s), x) = Str(Kept(s, <<x>>))
         /\ x = "b" => FilterByte(Str(s), x) = Esc(Str(Kept(s, <<x>>)))
         /\ x = "q" => FilterByte(Str(s), x) = Kept(s, <<x>>)
         /\ FilterByte(Esc(Str(s)), x) = Str(Kept(s, <<x>>))
<1>1. /\ s \in Filter /\ s.depth \in Nat /\ s.depth >= 1 /\ s.started = TRUE /\ s.finished = FALSE
      /\ s.bad = FALSE /\ s.in_string = FALSE /\ s.escaped = FALSE
  BY InsideTypes
<1>2. PICK t \in Filter : t = Kept(s, <<x>>)
  BY <1>1, KeptTypes, OneByte
<1>3. t.in_string = FALSE /\ t.escaped = FALSE
  BY <1>1, <1>2, KeptTypes, OneByte DEF Alike
<1>4. PICK u \in Filter : u = Str(s)
  BY <1>1, FlagTypes
<1>5. /\ u.started = TRUE /\ u.finished = FALSE /\ u.bad = FALSE /\ u.in_string = TRUE
      /\ u.escaped = FALSE
  BY <1>1, <1>4 DEF Str, Filter
<1>6. FilterByte(u, x) = StringByte(u, x)
  BY <1>5 DEF FilterByte, AfterStart
<1>7. Keep(u, x) = Str(t)
  BY <1>1, <1>2, <1>4, KeptByte, KeptFlags, OneByte
<1>8. PICK e \in BOOLEAN, i \in BOOLEAN : e = (x = "b") /\ i = (x # "q")
  OBVIOUS
<1>9. FilterByte(u, x) = [Str(t) EXCEPT !.escaped = e, !.in_string = i]
  BY <1>5, <1>6, <1>7, <1>8 DEF StringByte
<1>10. /\ [Str(t) EXCEPT !.escaped = FALSE, !.in_string = TRUE] = Str(t)
       /\ [Str(t) EXCEPT !.escaped = TRUE, !.in_string = TRUE] = Esc(Str(t))
       /\ [Str(t) EXCEPT !.escaped = FALSE, !.in_string = FALSE] = t
  BY <1>3 DEF Str, Esc, Filter
<1>11. /\ x \notin {"q", "b"} => e = FALSE /\ i = TRUE
       /\ x = "b" => e = TRUE /\ i = TRUE
       /\ x = "q" => e = FALSE /\ i = FALSE
  BY <1>8
<1>12. PICK v \in Filter : v = Esc(u)
  BY FlagTypes
<1>13. /\ v.started = TRUE /\ v.finished = FALSE /\ v.bad = FALSE /\ v.in_string = TRUE
       /\ v.escaped = TRUE
  BY <1>5, <1>12 DEF Esc, Filter
<1>14. FilterByte(v, x) = StringByte(v, x)
  BY <1>13 DEF FilterByte, AfterStart
<1>15. Keep(v, x) = Esc(Keep(u, x))
  BY <1>12 DEF Keep, Esc, Filter
<1>16. StringByte(v, x) = [Keep(v, x) EXCEPT !.escaped = FALSE, !.in_string = TRUE]
  <2>1. (~v.escaped /\ x = "b") = FALSE /\ (v.escaped \/ x # "q") = TRUE
    BY <1>13
  <2>2. QED
    BY <2>1 DEF StringByte
<1>17. [Esc(Str(t)) EXCEPT !.escaped = FALSE, !.in_string = TRUE] = Str(t)
  BY <1>3 DEF Str, Esc, Filter
<1>18. FilterByte(v, x) = Str(t)
  BY <1>7, <1>14, <1>15, <1>16, <1>17
<1>19. QED
  BY <1>2, <1>4, <1>9, <1>10, <1>11, <1>12, <1>18

\* A text the filter keeps, and goes on as before.
Through(w) == /\ w \in Seq(Punctuation)
              /\ \A s : Inside(s) => Leads(s, w, Kept(s, w), s.depth)

\* The same inside of a string.
StrThrough(w) == /\ w \in Seq(Punctuation)
                 /\ \A s : Inside(s) => Leads(Str(s), w, Str(Kept(s, w)), s.depth)

\* In a string and after a backslash the filter is as deep as before.
LEMMA StrDeep ==
  ASSUME NEW s, Inside(s)
  PROVE  /\ Deep(s, s.depth) /\ Deep(Str(s), s.depth) /\ Deep(Esc(Str(s)), s.depth)
         /\ Deep(Up(s), s.depth) /\ Deep(Up(s), s.depth + 1) /\ Inside(Up(s))
         /\ Up(s).depth = s.depth + 1
<1>1. /\ s \in Filter /\ s.depth \in Nat /\ s.depth >= 1 /\ s.started /\ ~s.finished
      /\ ~s.bad /\ ~s.in_string /\ ~s.escaped
  BY InsideTypes
<1>2. s.depth >= s.depth /\ s.depth + 1 >= s.depth /\ s.depth + 1 >= s.depth + 1 /\ s.depth + 1 >= 1
  BY <1>1
<1>3. /\ Deep(s, s.depth) /\ Deep(Str(s), s.depth) /\ Deep(Esc(Str(s)), s.depth)
  BY <1>1, <1>2 DEF Deep, Str, Esc, Filter
<1>4. Up(s) \in Filter
  BY <1>1, FlagTypes
<1>5. /\ Up(s).depth = s.depth + 1 /\ Up(s).started /\ ~Up(s).finished
      /\ ~Up(s).bad /\ ~Up(s).in_string /\ ~Up(s).escaped
  BY <1>1 DEF Up, Filter
<1>6. QED
  BY <1>2, <1>3, <1>4, <1>5 DEF Deep, Inside

\* Texts of a string join.
LEMMA StrJoin ==
  ASSUME NEW u, NEW v, StrThrough(u), StrThrough(v)
  PROVE  StrThrough(u \o v)
<1>1. u \in Seq(Punctuation) /\ v \in Seq(Punctuation)
  BY DEF StrThrough
<1>2. u \o v \in Seq(Punctuation)
  BY <1>1, JoinedText
<1>3. SUFFICES ASSUME NEW s, Inside(s)
               PROVE  Leads(Str(s), u \o v, Str(Kept(s, u \o v)), s.depth)
  BY <1>2 DEF StrThrough
<1>4. PICK t : t = Kept(s, u)
  OBVIOUS
<1>5. Inside(t) /\ t.depth = s.depth
  BY <1>1, <1>3, <1>4, InsideKept
<1>6. Leads(Str(s), u, Str(t), s.depth)
  BY <1>3, <1>4 DEF StrThrough
<1>7. Leads(Str(t), v, Str(Kept(t, v)), s.depth)
  BY <1>5 DEF StrThrough
<1>8. Kept(t, v) = Kept(s, u \o v)
  BY <1>1, <1>3, <1>4, KeptJoin, InsideTypes
<1>9. Str(s) \in Filter
  BY <1>3, InsideTypes, FlagTypes
<1>10. QED
  BY <1>6, <1>7, <1>8, <1>9, LeadsJoin

\* Texts the filter keeps join.
LEMMA ThroughJoin ==
  ASSUME NEW u, NEW v, Through(u), Through(v)
  PROVE  Through(u \o v)
<1>1. u \in Seq(Punctuation) /\ v \in Seq(Punctuation)
  BY DEF Through
<1>2. u \o v \in Seq(Punctuation)
  BY <1>1, JoinedText
<1>3. SUFFICES ASSUME NEW s, Inside(s)
               PROVE  Leads(s, u \o v, Kept(s, u \o v), s.depth)
  BY <1>2 DEF Through
<1>4. PICK t : t = Kept(s, u)
  OBVIOUS
<1>5. Inside(t) /\ t.depth = s.depth
  BY <1>1, <1>3, <1>4, InsideKept
<1>6. Leads(s, u, t, s.depth)
  BY <1>3, <1>4 DEF Through
<1>7. Leads(t, v, Kept(t, v), s.depth)
  BY <1>5 DEF Through
<1>8. Kept(t, v) = Kept(s, u \o v)
  BY <1>1, <1>3, <1>4, KeptJoin, InsideTypes
<1>9. s \in Filter
  BY <1>3, InsideTypes
<1>10. QED
  BY <1>6, <1>7, <1>8, <1>9, LeadsJoin

\* Nothing is such a text.
LEMMA NothingThrough == Through(<<>>) /\ StrThrough(<<>>)
<1>1. <<>> \in Seq(Punctuation)
  BY NothingIsText
<1>2. ASSUME NEW s, Inside(s)
      PROVE  Leads(s, <<>>, Kept(s, <<>>), s.depth) /\ Leads(Str(s), <<>>, Str(Kept(s, <<>>)), s.depth)
  <2>1. Kept(s, <<>>) = s /\ s \in Filter /\ Str(s) \in Filter
    BY <1>2, InsideTypes, KeptNothing, FlagTypes
  <2>2. Deep(s, s.depth) /\ Deep(Str(s), s.depth)
    BY <1>2, StrDeep
  <2>3. Leads(s, <<>>, s, s.depth) /\ Leads(Str(s), <<>>, Str(s), s.depth)
    BY <2>1, <2>2, LeadsNowhere
  <2>4. QED
    BY <2>1, <2>3
<1>3. QED
  BY <1>1, <1>2 DEF Through, StrThrough

\* A comma or white space is one.
LEMMA LetterThrough ==
  ASSUME NEW x \in {",", " "}
  PROVE  Through(<<x>>)
<1>1. x \in Punctuation /\ <<x>> \in Seq(Punctuation)
  BY OneByte DEF Punctuation
<1>2. SUFFICES ASSUME NEW s, Inside(s)
               PROVE  Leads(s, <<x>>, Kept(s, <<x>>), s.depth)
  BY <1>1 DEF Through
<1>3. PICK t : t = Kept(s, <<x>>)
  OBVIOUS
<1>4. Inside(t) /\ t.depth = s.depth
  BY <1>1, <1>2, <1>3, InsideKept
<1>5. Deep(s, s.depth) /\ Deep(t, s.depth) /\ s \in Filter
  BY <1>2, <1>4, StrDeep, InsideTypes
<1>6. FilterByte(s, x) = t
  BY <1>1, <1>2, <1>3, InsideByte
<1>7. QED
  BY <1>1, <1>3, <1>5, <1>6, LeadsByte

\* A character of a string is one.
LEMMA CharThrough ==
  ASSUME NEW x \in Punctuation, x \notin {"q", "b"}
  PROVE  StrThrough(<<x>>)
<1>1. <<x>> \in Seq(Punctuation)
  BY OneByte
<1>2. SUFFICES ASSUME NEW s, Inside(s)
               PROVE  Leads(Str(s), <<x>>, Str(Kept(s, <<x>>)), s.depth)
  BY <1>1 DEF StrThrough
<1>3. PICK t : t = Kept(s, <<x>>)
  OBVIOUS
<1>4. Inside(t) /\ t.depth = s.depth
  BY <1>1, <1>2, <1>3, InsideKept
<1>5. Deep(Str(s), s.depth) /\ Deep(Str(t), s.depth) /\ Str(s) \in Filter
  BY <1>2, <1>4, StrDeep, InsideTypes, FlagTypes
<1>6. FilterByte(Str(s), x) = Str(t)
  BY <1>2, <1>3, StringBytes
<1>7. QED
  BY <1>3, <1>5, <1>6, LeadsByte

\* So is a character after a backslash.
LEMMA EscapeThrough ==
  ASSUME NEW x \in Punctuation
  PROVE  StrThrough(<<"b">> \o <<x>>)
<1>1. <<x>> \in Seq(Punctuation) /\ "b" \in Punctuation /\ <<"b">> \in Seq(Punctuation)
  BY OneByte DEF Punctuation
<1>2. <<"b">> \o <<x>> \in Seq(Punctuation)
  BY <1>1, JoinedText
<1>3. SUFFICES ASSUME NEW s, Inside(s)
               PROVE  Leads(Str(s), <<"b">> \o <<x>>, Str(Kept(s, <<"b">> \o <<x>>)), s.depth)
  BY <1>2 DEF StrThrough
<1>4. PICK t : t = Kept(s, <<"b">>)
  OBVIOUS
<1>5. Inside(t) /\ t.depth = s.depth
  BY <1>1, <1>3, <1>4, InsideKept
<1>6. PICK r : r = Kept(t, <<x>>)
  OBVIOUS
<1>7. Inside(r) /\ r.depth = s.depth
  BY <1>1, <1>5, <1>6, InsideKept
<1>8. /\ Deep(Str(s), s.depth) /\ Deep(Esc(Str(t)), s.depth) /\ Deep(Str(r), s.depth)
      /\ Str(s) \in Filter /\ Esc(Str(t)) \in Filter
  BY <1>3, <1>5, <1>7, StrDeep, InsideTypes, FlagTypes
<1>9. FilterByte(Str(s), "b") = Esc(Str(t))
  BY <1>1, <1>3, <1>4, StringBytes
<1>10. FilterByte(Esc(Str(t)), x) = Str(r)
  BY <1>5, <1>6, StringBytes
<1>11. Leads(Str(s), <<"b">>, Esc(Str(t)), s.depth)
  BY <1>1, <1>8, <1>9, LeadsByte
<1>12. Leads(Esc(Str(t)), <<x>>, Str(r), s.depth)
  BY <1>8, <1>10, LeadsByte
<1>13. r = Kept(s, <<"b">> \o <<x>>)
  BY <1>1, <1>3, <1>4, <1>6, KeptJoin, InsideTypes
<1>14. QED
  BY <1>8, <1>11, <1>12, <1>13, LeadsJoin

\* So is a string with its quotes.
LEMMA StringThrough ==
  ASSUME NEW w, StrThrough(w)
  PROVE  Through((<<"q">> \o w) \o <<"q">>)
<1>1. w \in Seq(Punctuation) /\ "q" \in Punctuation /\ <<"q">> \in Seq(Punctuation)
  BY OneByte DEF Punctuation, StrThrough
<1>2. <<"q">> \o w \in Seq(Punctuation) /\ (<<"q">> \o w) \o <<"q">> \in Seq(Punctuation)
  BY <1>1, JoinedText
<1>3. SUFFICES ASSUME NEW s, Inside(s)
               PROVE  Leads(s, (<<"q">> \o w) \o <<"q">>, Kept(s, (<<"q">> \o w) \o <<"q">>), s.depth)
  BY <1>2 DEF Through
<1>4. PICK t : t = Kept(s, <<"q">>)
  OBVIOUS
<1>5. Inside(t) /\ t.depth = s.depth
  BY <1>1, <1>3, <1>4, InsideKept
<1>6. PICK r : r = Kept(t, w)
  OBVIOUS
<1>7. Inside(r) /\ r.depth = s.depth
  BY <1>1, <1>5, <1>6, InsideKept
<1>8. PICK e : e = Kept(r, <<"q">>)
  OBVIOUS
<1>9. Inside(e) /\ e.depth = s.depth
  BY <1>1, <1>7, <1>8, InsideKept
<1>10. /\ Deep(s, s.depth) /\ Deep(Str(t), s.depth) /\ Deep(Str(r), s.depth) /\ Deep(e, s.depth)
       /\ s \in Filter /\ Str(t) \in Filter /\ Str(r) \in Filter /\ t \in Filter /\ r \in Filter
  BY <1>3, <1>5, <1>7, <1>9, StrDeep, InsideTypes, FlagTypes
<1>11. FilterByte(s, "q") = Str(t)
  BY <1>1, <1>3, <1>4, InsideByte
<1>12. FilterByte(Str(r), "q") = e
  BY <1>1, <1>7, <1>8, StringBytes
<1>13. Leads(s, <<"q">>, Str(t), s.depth)
  BY <1>1, <1>10, <1>11, LeadsByte
<1>14. Leads(Str(t), w, Str(r), s.depth)
  BY <1>5, <1>6 DEF StrThrough
<1>15. Leads(Str(r), <<"q">>, e, s.depth)
  BY <1>1, <1>10, <1>12, LeadsByte
<1>16. r = Kept(s, <<"q">> \o w)
  BY <1>1, <1>4, <1>6, <1>10, KeptJoin
<1>17. e = Kept(s, (<<"q">> \o w) \o <<"q">>)
  BY <1>1, <1>2, <1>8, <1>10, <1>16, KeptJoin
<1>18. Leads(s, <<"q">> \o w, Str(r), s.depth)
  BY <1>10, <1>13, <1>14, LeadsJoin
<1>19. QED
  BY <1>10, <1>15, <1>17, <1>18, LeadsJoin

\* What is deeper than d + 1 is deeper than d.
LEMMA DeepLess ==
  ASSUME NEW x \in Filter, NEW d \in Nat, Deep(x, d + 1)
  PROVE  Deep(x, d)
<1>1. x.depth \in Nat /\ x.depth >= d + 1
  BY DEF Deep, Filter
<1>2. x.depth >= d
  BY <1>1
<1>3. QED
  BY <1>2 DEF Deep

\* So is a text between brackets.
LEMMA BracketsThrough ==
  ASSUME NEW w, Through(w), NEW o \in {"{", "["}, NEW c \in {"}", "]"}
  PROVE  Through((<<o>> \o w) \o <<c>>)
<1>1. w \in Seq(Punctuation) /\ o \in Punctuation /\ <<o>> \in Seq(Punctuation)
      /\ c \in Punctuation /\ <<c>> \in Seq(Punctuation)
  BY OneByte DEF Punctuation, Through
<1>2. <<o>> \o w \in Seq(Punctuation) /\ (<<o>> \o w) \o <<c>> \in Seq(Punctuation)
  BY <1>1, JoinedText
<1>3. SUFFICES ASSUME NEW s, Inside(s)
               PROVE  Leads(s, (<<o>> \o w) \o <<c>>, Kept(s, (<<o>> \o w) \o <<c>>), s.depth)
  BY <1>2 DEF Through
<1>4. PICK t : t = Kept(s, <<o>>)
  OBVIOUS
<1>5. Inside(t) /\ t.depth = s.depth
  BY <1>1, <1>3, <1>4, InsideKept
<1>6. PICK r : r = Kept(t, w)
  OBVIOUS
<1>7. Inside(r) /\ r.depth = s.depth
  BY <1>1, <1>5, <1>6, InsideKept
<1>8. PICK e : e = Kept(r, <<c>>)
  OBVIOUS
<1>9. Inside(e) /\ e.depth = s.depth
  BY <1>1, <1>7, <1>8, InsideKept
<1>10. /\ Deep(s, s.depth) /\ Deep(Up(t), s.depth) /\ Deep(Up(r), s.depth) /\ Deep(e, s.depth)
       /\ s \in Filter /\ Up(t) \in Filter /\ Up(r) \in Filter /\ t \in Filter /\ r \in Filter
  BY <1>3, <1>5, <1>7, <1>9, StrDeep, InsideTypes, FlagTypes
<1>11. FilterByte(s, o) = Up(t)
  BY <1>1, <1>3, <1>4, InsideByte
<1>12. FilterByte(Up(r), c) = e
  BY <1>1, <1>7, <1>8, InsideClose
<1>13. Leads(s, <<o>>, Up(t), s.depth)
  BY <1>1, <1>10, <1>11, LeadsByte
<1>14. Leads(Up(t), w, Up(r), s.depth)
  <2>1. Leads(Up(t), w, Kept(Up(t), w), Up(t).depth)
    BY <1>5, StrDeep DEF Through
  <2>2. Kept(Up(t), w) = Up(r)
    BY <1>1, <1>6, <1>10, KeptFlags
  <2>3. Up(t).depth = s.depth + 1 /\ s.depth \in Nat
    BY <1>3, <1>5, StrDeep, InsideTypes
  <2>4. \A x \in Filter : Deep(x, s.depth + 1) => Deep(x, s.depth)
    BY <2>3, DeepLess
  <2>5. \A i \in 0 .. Len(w) : Filtered(Up(t), w)[i] \in Filter
    BY <1>1, <1>10, FilteredTypes
  <2>6. QED
    BY <2>1, <2>2, <2>3, <2>4, <2>5 DEF Leads
<1>15. Leads(Up(r), <<c>>, e, s.depth)
  BY <1>1, <1>10, <1>12, LeadsByte
<1>16. r = Kept(s, <<o>> \o w)
  BY <1>1, <1>4, <1>6, <1>10, KeptJoin
<1>17. e = Kept(s, (<<o>> \o w) \o <<c>>)
  BY <1>1, <1>2, <1>8, <1>10, <1>16, KeptJoin
<1>18. Leads(s, <<o>> \o w, Up(r), s.depth)
  BY <1>10, <1>13, <1>14, LeadsJoin
<1>19. QED
  BY <1>10, <1>15, <1>17, <1>18, LeadsJoin
-----------------------------------------------------------------------------
(* Texts the scan passes. *)

\* What is scanned does not depend on what comes later.
LEMMA ScannedPrefix ==
  ASSUME NEW s \in Scan, NEW u \in Seq(Punctuation), NEW w \in Seq(Punctuation),
         NEW p \in Nat, p <= Len(u), p <= Len(w), \A i \in 1 .. p : u[i] = w[i]
  PROVE  \A i \in 0 .. p : Scanned(s, u)[i] = Scanned(s, w)[i]
<1>1. PICK N \in Nat, M \in Nat : N = Len(u) /\ M = Len(w)
  OBVIOUS
<1>2. PICK g, h : g = Scanned(s, u) /\ h = Scanned(s, w)
  OBVIOUS
<1>3. /\ g[0] = s /\ h[0] = s
      /\ \A i \in 1 .. N : g[i] = ScanByte(g[i - 1], u[i])
      /\ \A i \in 1 .. M : h[i] = ScanByte(h[i - 1], w[i])
  BY <1>1, <1>2, ScannedStep
<1> DEFINE K == {i \in Nat : i <= p /\ g[i] # h[i]}
<1>4. SUFFICES ASSUME K # {} PROVE FALSE
  BY <1>2
<1>5. PICK m \in K : \A j \in K : m <= j
  <2>1. K \subseteq Nat
    OBVIOUS
  <2> HIDE DEF K
  <2>2. QED
    BY <1>4, <2>1, LeastExists
<1>6. m \in Nat /\ m <= p /\ g[m] # h[m]
  OBVIOUS
<1>7. m # 0
  BY <1>3, <1>6
<1>8. m \in 1 .. N /\ m \in 1 .. M /\ m \in 1 .. p /\ m - 1 \in Nat /\ m - 1 <= p /\ ~(m <= m - 1)
  BY <1>1, <1>6, <1>7
<1>9. g[m - 1] = h[m - 1]
  <2>1. m - 1 \notin K
    <3> HIDE DEF K
    <3>1. QED
      BY <1>5, <1>8
  <2>2. QED
    BY <1>8, <2>1
<1>10. QED
  BY <1>3, <1>6, <1>8, <1>9

\* What comes later is scanned from where the scan is.
LEMMA ScannedRest ==
  ASSUME NEW s \in Scan, NEW w \in Seq(Punctuation), NEW v \in Seq(Punctuation),
         NEW p \in Nat, p + Len(v) <= Len(w), \A j \in 1 .. Len(v) : v[j] = w[p + j]
  PROVE  \A j \in 0 .. Len(v) : Scanned(s, w)[p + j] = Scanned(Scanned(s, w)[p], v)[j]
<1>1. PICK N \in Nat, n \in Nat : N = Len(w) /\ n = Len(v)
  OBVIOUS
<1>2. PICK g : g = Scanned(s, w)
  OBVIOUS
<1>3. p \in 0 .. N /\ p + n <= N
  BY <1>1
<1>4. PICK r \in Scan : r = g[p]
  BY <1>1, <1>2, <1>3, ScannedTypes
<1>5. PICK h : h = Scanned(r, v)
  OBVIOUS
<1>6. /\ h[0] = r
      /\ \A i \in 1 .. N : g[i] = ScanByte(g[i - 1], w[i])
      /\ \A i \in 1 .. n : h[i] = ScanByte(h[i - 1], v[i])
  BY <1>1, <1>2, <1>5, ScannedStep
<1> DEFINE K == {j \in Nat : j <= n /\ g[p + j] # h[j]}
<1>7. SUFFICES ASSUME K # {} PROVE FALSE
  BY <1>1, <1>2, <1>4, <1>5
<1>8. PICK m \in K : \A j \in K : m <= j
  <2>1. K \subseteq Nat
    OBVIOUS
  <2> HIDE DEF K
  <2>2. QED
    BY <1>7, <2>1, LeastExists
<1>9. m \in Nat /\ m <= n /\ g[p + m] # h[m]
  OBVIOUS
<1>10. m # 0
  <2>1. p + 0 = p
    OBVIOUS
  <2>2. QED
    BY <1>4, <1>6, <1>9, <2>1
<1>11. /\ m \in 1 .. n /\ m - 1 \in Nat /\ m - 1 <= n /\ ~(m <= m - 1)
       /\ p + m \in 1 .. N /\ (p + m) - 1 = p + (m - 1)
  BY <1>3, <1>9, <1>10
<1>12. g[p + (m - 1)] = h[m - 1]
  <2>1. m - 1 \notin K
    <3> HIDE DEF K
    <3>1. QED
      BY <1>8, <1>11
  <2>2. QED
    BY <1>11, <2>1
<1>13. v[m] = w[p + m]
  BY <1>1, <1>11
<1>14. g[p + m] = ScanByte(g[p + (m - 1)], w[p + m])
  BY <1>6, <1>11
<1>15. h[m] = ScanByte(h[m - 1], v[m])
  BY <1>6, <1>11
<1>16. QED
  BY <1>9, <1>12, <1>13, <1>14, <1>15

\* Two texts in one are scanned one after the other.
LEMMA ScannedJoin ==
  ASSUME NEW s \in Scan, NEW u \in Seq(Punctuation), NEW v \in Seq(Punctuation)
  PROVE  /\ \A i \in 0 .. Len(u) : Scanned(s, u \o v)[i] = Scanned(s, u)[i]
         /\ \A j \in 0 .. Len(v) :
              Scanned(s, u \o v)[Len(u) + j] = Scanned(Scanned(s, u)[Len(u)], v)[j]
<1>1. PICK w \in Seq(Punctuation) : w = u \o v
  BY JoinedText
<1>2. PICK n \in Nat, m \in Nat : n = Len(u) /\ m = Len(v)
  OBVIOUS
<1>3. /\ Len(w) = n + m
      /\ \A i \in 1 .. n : u[i] = w[i]
      /\ \A j \in 1 .. m : v[j] = w[n + j]
  BY <1>1, <1>2, JoinedText
<1>4. n <= n + m /\ n <= n /\ n + m <= n + m /\ n \in 0 .. n
  OBVIOUS
<1>5. \A i \in 0 .. n : Scanned(s, u)[i] = Scanned(s, w)[i]
  BY <1>2, <1>3, <1>4, ScannedPrefix
<1>6. \A j \in 0 .. m : Scanned(s, w)[n + j] = Scanned(Scanned(s, w)[n], v)[j]
  BY <1>2, <1>3, <1>4, ScannedRest
<1>7. Scanned(s, u)[n] = Scanned(s, w)[n]
  BY <1>4, <1>5
<1>8. QED
  BY <1>1, <1>2, <1>5, <1>6, <1>7

\* The scan goes from s to r over w.
Goes(s, w, r) == w \in Seq(Punctuation) /\ r \in Scan /\ Scanned(s, w)[Len(w)] = r

\* The scan that goes over two texts goes over both.
LEMMA GoesJoin ==
  ASSUME NEW s \in Scan, NEW u, NEW r, NEW v, NEW t, Goes(s, u, r), Goes(r, v, t)
  PROVE  Goes(s, u \o v, t)
<1>1. u \in Seq(Punctuation) /\ v \in Seq(Punctuation) /\ r \in Scan /\ t \in Scan
  BY DEF Goes
<1>2. PICK n \in Nat, m \in Nat : n = Len(u) /\ m = Len(v)
  BY <1>1
<1>3. PICK w \in Seq(Punctuation) : w = u \o v /\ Len(w) = n + m
  BY <1>1, <1>2, JoinedText
<1>4. \A j \in 0 .. m : Scanned(s, w)[n + j] = Scanned(r, v)[j]
  BY <1>1, <1>2, <1>3, ScannedJoin DEF Goes
<1>5. m \in 0 .. m
  OBVIOUS
<1>6. Scanned(s, w)[n + m] = t
  BY <1>2, <1>4, <1>5 DEF Goes
<1>7. QED
  BY <1>1, <1>3, <1>6 DEF Goes

\* The scan goes over one byte.
LEMMA GoesByte ==
  ASSUME NEW s \in Scan, NEW x \in Punctuation
  PROVE  Goes(s, <<x>>, ScanByte(s, x))
<1>1. PICK w \in Seq(Punctuation) : w = <<x>> /\ Len(w) = 1 /\ w[1] = x
  BY OneByte
<1>2. Scanned(s, w)[1] = ScanByte(Scanned(s, w)[0], w[1])
  <2>1. 1 \in 1 .. Len(w)
    BY <1>1
  <2>2. Scanned(s, w)[1] = ScanByte(Scanned(s, w)[1 - 1], w[1])
    BY <2>1, ScannedStep
  <2>3. QED
    BY <2>2
<1>3. Scanned(s, w)[0] = s
  BY ScannedStep
<1>4. QED
  BY <1>1, <1>2, <1>3, ScanByteTypes DEF Goes

\* It goes nowhere over nothing.
LEMMA GoesNowhere ==
  ASSUME NEW s \in Scan
  PROVE  Goes(s, <<>>, s)
<1>1. PICK w \in Seq(Punctuation) : w = <<>> /\ Len(w) = 0
  BY NothingIsText
<1>2. Scanned(s, w)[0] = s
  BY ScannedStep
<1>3. QED
  BY <1>1, <1>2 DEF Goes

\* The scan after it has passed n bytes.
Moved(s, n) == [s EXCEPT !.offset = @ + n]

\* Inside of an object, outside of strings.
InScan(s) == s \in Scan /\ s.depth >= 1 /\ ~s.in_string /\ ~s.escaped

\* What it is to be inside.
LEMMA InScanTypes ==
  ASSUME NEW s, InScan(s)
  PROVE  s \in Scan /\ s.depth \in Nat /\ s.depth # 0 /\ s.in_string = FALSE /\ s.escaped = FALSE
BY DEF InScan, Scan

\* Only the offset has moved.
LEMMA MovedTypes ==
  ASSUME NEW s \in Scan, NEW n \in Nat
  PROVE  /\ Moved(s, n) \in Scan
         /\ Moved(s, n).depth = s.depth /\ Moved(s, n).in_string = s.in_string
         /\ Moved(s, n).escaped = s.escaped /\ Moved(s, n).starts = s.starts
         /\ Moved(s, n).start = s.start /\ Moved(s, n).offset = s.offset + n
<1>1. PICK o \in Nat : o = s.offset + n
  BY DEF Scan
<1>2. Moved(s, n) = [s EXCEPT !.offset = o]
  BY <1>1 DEF Moved
<1>3. QED
  BY <1>1, <1>2 DEF Scan

\* It is inside as before.
LEMMA InScanMoved ==
  ASSUME NEW s, InScan(s), NEW n \in Nat
  PROVE  InScan(Moved(s, n))
BY InScanTypes, MovedTypes DEF InScan

\* It moves by two lengths.
LEMMA MovedJoin ==
  ASSUME NEW s \in Scan, NEW n \in Nat, NEW m \in Nat
  PROVE  Moved(Moved(s, n), m) = Moved(s, n + m)
<1>1. (s.offset + n) + m = s.offset + (n + m)
  BY DEF Scan
<1>2. Moved(Moved(s, n), m) = [s EXCEPT !.offset = (s.offset + n) + m]
  BY DEF Moved, Scan
<1>3. QED
  BY <1>1, <1>2 DEF Moved

\* It moves by nothing.
LEMMA MovedNowhere == ASSUME NEW s \in Scan PROVE Moved(s, 0) = s
<1>1. s.offset + 0 = s.offset
  BY DEF Scan
<1>2. QED
  BY <1>1 DEF Moved, Scan

\* In a string, after a backslash or deeper, the scan is one, and moves.
LEMMA ScanFlags ==
  ASSUME NEW s \in Scan, NEW n \in Nat
  PROVE  /\ Str(s) \in Scan /\ Esc(s) \in Scan /\ Up(s) \in Scan
         /\ Moved(Str(s), n) = Str(Moved(s, n))
         /\ Moved(Esc(s), n) = Esc(Moved(s, n))
         /\ Moved(Up(s), n) = Up(Moved(s, n))
<1>1. PICK d \in Nat : d = s.depth + 1
  BY DEF Scan
<1>2. [s EXCEPT !.depth = d] \in Scan
  BY DEF Scan
<1>3. Up(s) = [s EXCEPT !.depth = d]
  BY <1>1 DEF Up
<1>4. Str(s) \in Scan /\ Esc(s) \in Scan
  BY DEF Str, Esc, Scan
<1>5. Moved(Str(s), n) = Str(Moved(s, n)) /\ Moved(Esc(s), n) = Esc(Moved(s, n))
  BY DEF Str, Esc, Moved, Scan
<1>6. Moved(Up(s), n) = Up(Moved(s, n))
  BY DEF Up, Moved, Scan
<1>7. QED
  BY <1>2, <1>3, <1>4, <1>5, <1>6

\* Bytes inside.
LEMMA InScanByte ==
  ASSUME NEW s, InScan(s), NEW x \in Punctuation
  PROVE  /\ x \in {",", " ", "[", "]", "b"} => ScanByte(s, x) = Moved(s, 1)
         /\ x = "q" => ScanByte(s, x) = Str(Moved(s, 1))
         /\ x = "{" => ScanByte(s, x) = Up(Moved(s, 1))
<1>1. s \in Scan /\ s.depth # 0 /\ s.in_string = FALSE
  BY InScanTypes
<1>2. /\ x \in {",", " ", "[", "]", "b"} => ScanByte(s, x) = [s EXCEPT !.offset = @ + 1]
      /\ x = "q" => ScanByte(s, x) = [s EXCEPT !.offset = @ + 1, !.in_string = TRUE]
      /\ x = "{" => ScanByte(s, x) = [s EXCEPT !.offset = @ + 1, !.depth = @ + 1, !.start = s.start]
  BY <1>1 DEF ScanByte
<1>3. [s EXCEPT !.offset = @ + 1, !.depth = @ + 1, !.start = s.start] = Up(Moved(s, 1))
  BY <1>1 DEF Up, Moved, Scan
<1>4. [s EXCEPT !.offset = @ + 1, !.in_string = TRUE] = Str(Moved(s, 1))
  BY <1>1 DEF Str, Moved, Scan
<1>5. QED
  BY <1>2, <1>3, <1>4 DEF Moved

\* The brace that ends something inside of something.
LEMMA InScanClose ==
  ASSUME NEW s, InScan(s)
  PROVE  ScanByte(Up(s), "}") = Moved(s, 1)
<1>1. s \in Scan /\ s.depth \in Nat /\ s.depth # 0 /\ s.in_string = FALSE
  BY InScanTypes
<1>2. PICK u \in Scan : u = Up(s)
  BY <1>1, ScanFlags
<1>3. PICK d \in Nat : d = s.depth
  BY <1>1
<1>4. d + 1 > 0 /\ d + 1 # 1 /\ (d + 1) - 1 = d
  BY <1>1, <1>3
<1>5. u.depth = d + 1 /\ u.in_string = FALSE /\ u.starts = s.starts /\ u.offset = s.offset
  BY <1>1, <1>2, <1>3 DEF Up, Scan
<1>6. ScanByte(u, "}") = [u EXCEPT !.offset = u.offset + 1, !.depth = u.depth - 1,
                                    !.starts = u.starts]
  BY <1>4, <1>5 DEF ScanByte
<1>7. ScanByte(u, "}") = [u EXCEPT !.offset = s.offset + 1, !.depth = d, !.starts = s.starts]
  BY <1>4, <1>5, <1>6
<1>8. [Up(s) EXCEPT !.offset = s.offset + 1, !.depth = s.depth, !.starts = s.starts] = Moved(s, 1)
  BY <1>1 DEF Up, Moved, Scan
<1>9. QED
  BY <1>2, <1>3, <1>7, <1>8

\* Bytes of a string.
LEMMA ScanStringBytes ==
  ASSUME NEW s, InScan(s), NEW x \in Punctuation
  PROVE  /\ x \notin {"q", "b"} => ScanByte(Str(s), x) = Str(Moved(s, 1))
         /\ x = "b" => ScanByte(Str(s), x) = Esc(Str(Moved(s, 1)))
         /\ x = "q" => ScanByte(Str(s), x) = Moved(s, 1)
         /\ ScanByte(Esc(Str(s)), x) = Str(Moved(s, 1))
<1>1. s \in Scan /\ s.in_string = FALSE /\ s.escaped = FALSE
  BY InScanTypes
<1>2. PICK u \in Scan : u = Str(s)
  BY <1>1, ScanFlags
<1>3. u.in_string = TRUE /\ u.escaped = FALSE
  BY <1>1, <1>2 DEF Str, Scan
<1>4. PICK e \in BOOLEAN, i \in BOOLEAN : e = (x = "b") /\ i = (x # "q")
  OBVIOUS
<1>5. ScanByte(u, x) = [u EXCEPT !.offset = @ + 1, !.escaped = e, !.in_string = i]
  BY <1>3, <1>4 DEF ScanByte
<1>6. /\ [Str(s) EXCEPT !.offset = @ + 1, !.escaped = FALSE, !.in_string = TRUE] = Str(Moved(s, 1))
      /\ [Str(s) EXCEPT !.offset = @ + 1, !.escaped = TRUE, !.in_string = TRUE] = Esc(Str(Moved(s, 1)))
      /\ [Str(s) EXCEPT !.offset = @ + 1, !.escaped = FALSE, !.in_string = FALSE] = Moved(s, 1)
  BY <1>1 DEF Str, Esc, Moved, Scan
<1>7. /\ x \notin {"q", "b"} => e = FALSE /\ i = TRUE
      /\ x = "b" => e = TRUE /\ i = TRUE
      /\ x = "q" => e = FALSE /\ i = FALSE
  BY <1>4
<1>8. PICK v \in Scan : v = Esc(u)
  BY ScanFlags
<1>9. v.in_string = TRUE /\ v.escaped = TRUE
  BY <1>3, <1>8 DEF Esc, Scan
<1>10. (~v.escaped /\ x = "b") = FALSE /\ (v.escaped \/ x # "q") = TRUE
  BY <1>9
<1>11. ScanByte(v, x) = [v EXCEPT !.offset = @ + 1, !.escaped = FALSE, !.in_string = TRUE]
  BY <1>9, <1>10 DEF ScanByte
<1>12. [Esc(Str(s)) EXCEPT !.offset = @ + 1, !.escaped = FALSE, !.in_string = TRUE] = Str(Moved(s, 1))
  BY <1>1 DEF Str, Esc, Moved, Scan
<1>13. QED
  BY <1>2, <1>5, <1>6, <1>7, <1>8, <1>11, <1>12

\* A text the scan passes, and goes on as before; the same inside of a string.
ScanPasses(w) == /\ w \in Seq(Punctuation)
            /\ \A s : InScan(s) => Goes(s, w, Moved(s, Len(w)))
StrScans(w) == /\ w \in Seq(Punctuation)
               /\ \A s : InScan(s) => Goes(Str(s), w, Str(Moved(s, Len(w))))

\* Texts the scan passes join.
LEMMA ScansJoin ==
  ASSUME NEW u, NEW v, ScanPasses(u), ScanPasses(v)
  PROVE  ScanPasses(u \o v)
<1>1. u \in Seq(Punctuation) /\ v \in Seq(Punctuation)
  BY DEF ScanPasses
<1>2. PICK n \in Nat, m \in Nat : n = Len(u) /\ m = Len(v)
  BY <1>1
<1>3. u \o v \in Seq(Punctuation) /\ Len(u \o v) = n + m
  BY <1>1, <1>2, JoinedText
<1>4. SUFFICES ASSUME NEW s, InScan(s) PROVE Goes(s, u \o v, Moved(s, n + m))
  BY <1>3 DEF ScanPasses
<1>5. s \in Scan
  BY <1>4, InScanTypes
<1>6. Goes(s, u, Moved(s, n))
  BY <1>2, <1>4 DEF ScanPasses
<1>7. InScan(Moved(s, n))
  BY <1>4, InScanMoved
<1>8. Goes(Moved(s, n), v, Moved(Moved(s, n), m))
  BY <1>2, <1>7 DEF ScanPasses
<1>9. Goes(s, u \o v, Moved(Moved(s, n), m))
  BY <1>5, <1>6, <1>8, GoesJoin
<1>10. QED
  BY <1>5, <1>9, MovedJoin

\* So do texts of a string.
LEMMA StrScansJoin ==
  ASSUME NEW u, NEW v, StrScans(u), StrScans(v)
  PROVE  StrScans(u \o v)
<1>1. u \in Seq(Punctuation) /\ v \in Seq(Punctuation)
  BY DEF StrScans
<1>2. PICK n \in Nat, m \in Nat : n = Len(u) /\ m = Len(v)
  BY <1>1
<1>3. u \o v \in Seq(Punctuation) /\ Len(u \o v) = n + m
  BY <1>1, <1>2, JoinedText
<1>4. SUFFICES ASSUME NEW s, InScan(s) PROVE Goes(Str(s), u \o v, Str(Moved(s, n + m)))
  BY <1>3 DEF StrScans
<1>5. s \in Scan /\ Str(s) \in Scan
  BY <1>4, InScanTypes, ScanFlags
<1>6. Goes(Str(s), u, Str(Moved(s, n)))
  BY <1>2, <1>4 DEF StrScans
<1>7. InScan(Moved(s, n))
  BY <1>4, InScanMoved
<1>8. Goes(Str(Moved(s, n)), v, Str(Moved(Moved(s, n), m)))
  BY <1>2, <1>7 DEF StrScans
<1>9. Goes(Str(s), u \o v, Str(Moved(Moved(s, n), m)))
  BY <1>5, <1>6, <1>8, GoesJoin
<1>10. QED
  BY <1>5, <1>9, MovedJoin

\* Nothing is such a text.
LEMMA NothingScans == ScanPasses(<<>>) /\ StrScans(<<>>)
<1>1. PICK w \in Seq(Punctuation) : w = <<>> /\ Len(w) = 0
  BY NothingIsText
<1>2. ASSUME NEW s, InScan(s)
      PROVE  Goes(s, w, Moved(s, 0)) /\ Goes(Str(s), w, Str(Moved(s, 0)))
  BY <1>1, <1>2, InScanTypes, ScanFlags, MovedNowhere, GoesNowhere
<1>3. QED
  BY <1>1, <1>2 DEF ScanPasses, StrScans

\* What texts are put together from.
Plain(e) == \E x \in Punctuation : x \notin {"q", "b"} /\ e = <<x>>
Escape(e) == \E x \in Punctuation : e = <<"b">> \o <<x>>
Letter(e) == \E x \in {",", " "} : e = <<x>>
InQuotes(a, u) == a = (<<"q">> \o u) \o <<"q">>
InBraces(a, u) == a = (<<"{">> \o u) \o <<"}">>
InBrackets(a, u) == a = (<<"[">> \o u) \o <<"]">>

\* Texts the filter and the scan pass, n bytes long.
TextOf(w, n) == w \in Seq(Punctuation) /\ Len(w) = n /\ Through(w) /\ ScanPasses(w)
StrOf(w, n) == w \in Seq(Punctuation) /\ Len(w) = n /\ StrThrough(w) /\ StrScans(w)

\* The length of two texts.
LEMMA LengthsJoin ==
  ASSUME NEW u \in Seq(Punctuation), NEW v \in Seq(Punctuation), NEW n, NEW k,
         Len(u) = k, Len(v) = n
  PROVE  u \o v \in Seq(Punctuation) /\ Len(u \o v) = k + n
BY JoinedText

\* Two texts that are passed.
LEMMA TextsJoin ==
  ASSUME NEW u, NEW v, NEW n, NEW m, TextOf(u, n), TextOf(v, m)
  PROVE  TextOf(u \o v, n + m)
BY ThroughJoin, ScansJoin, LengthsJoin DEF TextOf

\* Two texts of a string.
LEMMA StringsJoin ==
  ASSUME NEW u, NEW v, NEW n, NEW m, StrOf(u, n), StrOf(v, m)
  PROVE  StrOf(u \o v, n + m)
BY StrJoin, StrScansJoin, LengthsJoin DEF StrOf

\* Nothing is passed.
LEMMA NothingPasses == TextOf(<<>>, 0) /\ StrOf(<<>>, 0)
<1>1. <<>> \in Seq(Punctuation) /\ Len(<<>>) = 0
  BY NothingIsText
<1>2. QED
  BY <1>1, NothingThrough, NothingScans DEF TextOf, StrOf

\* A character of a string is passed.
LEMMA PlainPasses ==
  ASSUME NEW e, Plain(e)
  PROVE  StrOf(e, 1)
<1>1. PICK x \in Punctuation : x \notin {"q", "b"} /\ e = <<x>>
  BY DEF Plain
<1>2. e \in Seq(Punctuation) /\ Len(e) = 1
  BY <1>1, OneByte
<1>3. StrThrough(e)
  BY <1>1, CharThrough
<1>4. ASSUME NEW s, InScan(s) PROVE Goes(Str(s), e, Str(Moved(s, 1)))
  <2>1. ScanByte(Str(s), x) = Str(Moved(s, 1))
    BY <1>1, <1>4, ScanStringBytes
  <2>2. Str(s) \in Scan
    BY <1>4, InScanTypes, ScanFlags
  <2>3. QED
    BY <1>1, <2>1, <2>2, GoesByte
<1>5. StrScans(e)
  BY <1>2, <1>4 DEF StrScans
<1>6. QED
  BY <1>2, <1>3, <1>5 DEF StrOf

\* So is a character after a backslash.
LEMMA EscapePasses ==
  ASSUME NEW e, Escape(e)
  PROVE  StrOf(e, 2)
<1>1. PICK x \in Punctuation : e = <<"b">> \o <<x>>
  BY DEF Escape
<1>2. "b" \in Punctuation
  BY DEF Punctuation
<1>3. e \in Seq(Punctuation) /\ Len(e) = 2
  <2>1. e \in Seq(Punctuation) /\ Len(e) = 1 + 1
    BY <1>1, <1>2, OneByte, LengthsJoin
  <2>2. QED
    BY <2>1
<1>4. StrThrough(e)
  BY <1>1, EscapeThrough
<1>5. ASSUME NEW s, InScan(s) PROVE Goes(Str(s), e, Str(Moved(s, 2)))
  <2>1. PICK t : t = Moved(s, 1)
    OBVIOUS
  <2>2. InScan(t) /\ s \in Scan /\ t \in Scan
    BY <1>5, <2>1, InScanMoved, InScanTypes
  <2>3. ScanByte(Str(s), "b") = Esc(Str(t)) /\ ScanByte(Esc(Str(t)), x) = Str(Moved(t, 1))
    BY <1>2, <1>5, <2>1, <2>2, ScanStringBytes
  <2>4. Str(s) \in Scan /\ Esc(Str(t)) \in Scan
    BY <2>2, ScanFlags
  <2>5. Goes(Str(s), <<"b">>, Esc(Str(t))) /\ Goes(Esc(Str(t)), <<x>>, Str(Moved(t, 1)))
    BY <1>2, <2>3, <2>4, GoesByte
  <2>6. Goes(Str(s), e, Str(Moved(t, 1)))
    BY <1>1, <2>4, <2>5, GoesJoin
  <2>7. Moved(t, 1) = Moved(s, 2)
    <3>1. Moved(t, 1) = Moved(s, 1 + 1)
      BY <2>1, <2>2, MovedJoin
    <3>2. 1 + 1 = 2
      OBVIOUS
    <3>3. QED
      BY <3>1, <3>2
  <2>8. QED
    BY <2>6, <2>7
<1>6. StrScans(e)
  BY <1>3, <1>5 DEF StrScans
<1>7. QED
  BY <1>3, <1>4, <1>6 DEF StrOf

\* So is a comma or white space.
LEMMA LetterPasses ==
  ASSUME NEW e, Letter(e)
  PROVE  TextOf(e, 1)
<1>1. PICK x \in {",", " "} : e = <<x>>
  BY DEF Letter
<1>2. x \in Punctuation
  BY DEF Punctuation
<1>3. e \in Seq(Punctuation) /\ Len(e) = 1
  BY <1>1, <1>2, OneByte
<1>4. Through(e)
  BY <1>1, LetterThrough
<1>5. ASSUME NEW s, InScan(s) PROVE Goes(s, e, Moved(s, 1))
  <2>1. ScanByte(s, x) = Moved(s, 1)
    BY <1>2, <1>5, InScanByte
  <2>2. s \in Scan
    BY <1>5, InScanTypes
  <2>3. QED
    BY <1>1, <1>2, <2>1, <2>2, GoesByte
<1>6. ScanPasses(e)
  BY <1>3, <1>5 DEF ScanPasses
<1>7. QED
  BY <1>3, <1>4, <1>6 DEF TextOf

\* A text between two bytes.
LEMMA Wrapped ==
  ASSUME NEW w \in Seq(Punctuation), NEW n \in Nat, Len(w) = n,
         NEW o \in Punctuation, NEW c \in Punctuation
  PROVE  (<<o>> \o w) \o <<c>> \in Seq(Punctuation) /\ Len((<<o>> \o w) \o <<c>>) = n + 2
<1>1. <<o>> \o w \in Seq(Punctuation) /\ Len(<<o>> \o w) = 1 + n
  BY OneByte, JoinedText
<1>2. (<<o>> \o w) \o <<c>> \in Seq(Punctuation) /\ Len((<<o>> \o w) \o <<c>>) = (1 + n) + 1
  BY <1>1, OneByte, JoinedText
<1>3. QED
  BY <1>2

\* Three texts in one.
LEMMA GoesWrapped ==
  ASSUME NEW s \in Scan, NEW o \in Punctuation, NEW w, NEW c \in Punctuation, NEW r, NEW t,
         ScanByte(s, o) = r, Goes(r, w, t)
  PROVE  Goes(s, (<<o>> \o w) \o <<c>>, ScanByte(t, c))
<1>1. Goes(s, <<o>>, r) /\ t \in Scan
  BY GoesByte DEF Goes
<1>2. Goes(s, <<o>> \o w, t)
  BY <1>1, GoesJoin
<1>3. Goes(t, <<c>>, ScanByte(t, c))
  BY <1>1, GoesByte
<1>4. QED
  BY <1>2, <1>3, GoesJoin

\* The scan moves over a text and the two bytes around it.
LEMMA MovedTwice ==
  ASSUME NEW s \in Scan, NEW n \in Nat
  PROVE  Moved(Moved(Moved(s, 1), n), 1) = Moved(s, n + 2)
<1>1. Moved(Moved(s, 1), n) = Moved(s, 1 + n) /\ 1 + n \in Nat
  BY MovedJoin
<1>2. Moved(Moved(s, 1 + n), 1) = Moved(s, (1 + n) + 1)
  BY <1>1, MovedJoin
<1>3. (1 + n) + 1 = n + 2
  OBVIOUS
<1>4. QED
  BY <1>1, <1>2, <1>3

\* A string with its quotes is passed.
LEMMA QuotesPass ==
  ASSUME NEW a, NEW u, NEW n \in Nat, StrOf(u, n), InQuotes(a, u)
  PROVE  TextOf(a, n + 2)
<1>1. "q" \in Punctuation
  BY DEF Punctuation
<1>2. u \in Seq(Punctuation) /\ Len(u) = n /\ StrThrough(u) /\ StrScans(u)
  BY DEF StrOf
<1>3. a \in Seq(Punctuation) /\ Len(a) = n + 2
  BY <1>1, <1>2, Wrapped DEF InQuotes
<1>4. Through(a)
  BY <1>2, StringThrough DEF InQuotes
<1>5. ASSUME NEW s, InScan(s) PROVE Goes(s, a, Moved(s, n + 2))
  <2>1. PICK t, r : t = Moved(s, 1) /\ r = Moved(t, n)
    OBVIOUS
  <2>2. InScan(t) /\ InScan(r) /\ s \in Scan
    BY <1>5, <2>1, InScanMoved, InScanTypes
  <2>3. ScanByte(s, "q") = Str(t) /\ ScanByte(Str(r), "q") = Moved(r, 1)
    BY <1>1, <1>5, <2>1, <2>2, InScanByte, ScanStringBytes
  <2>4. Goes(Str(t), u, Str(r))
    BY <1>2, <2>1, <2>2 DEF StrScans
  <2>5. Goes(s, a, Moved(r, 1))
    BY <1>1, <2>2, <2>3, <2>4, GoesWrapped DEF InQuotes
  <2>6. QED
    BY <2>1, <2>2, <2>5, MovedTwice
<1>6. ScanPasses(a)
  BY <1>3, <1>5 DEF ScanPasses
<1>7. QED
  BY <1>3, <1>4, <1>6 DEF TextOf

\* One deeper is inside as well.
LEMMA InScanUp ==
  ASSUME NEW s, InScan(s)
  PROVE  InScan(Up(s))
<1>1. s \in Scan /\ s.depth \in Nat
  BY InScanTypes
<1>2. s.depth + 1 >= 1
  BY <1>1
<1>3. Up(s).depth = s.depth + 1 /\ Up(s).in_string = s.in_string /\ Up(s).escaped = s.escaped
  BY <1>1 DEF Up, Scan
<1>4. QED
  BY <1>1, <1>2, <1>3, ScanFlags DEF InScan

\* A text between braces is passed.
LEMMA BracesPass ==
  ASSUME NEW a, NEW u, NEW n \in Nat, TextOf(u, n), InBraces(a, u)
  PROVE  TextOf(a, n + 2)
<1>1. "{" \in Punctuation /\ "}" \in Punctuation
  BY DEF Punctuation
<1>2. u \in Seq(Punctuation) /\ Len(u) = n /\ Through(u) /\ ScanPasses(u)
  BY DEF TextOf
<1>3. a \in Seq(Punctuation) /\ Len(a) = n + 2
  BY <1>1, <1>2, Wrapped DEF InBraces
<1>4. Through(a)
  BY <1>2, BracketsThrough DEF InBraces
<1>5. ASSUME NEW s, InScan(s) PROVE Goes(s, a, Moved(s, n + 2))
  <2>1. PICK t, r : t = Moved(s, 1) /\ r = Moved(t, n)
    OBVIOUS
  <2>2. InScan(t) /\ InScan(r) /\ s \in Scan /\ t \in Scan /\ InScan(Up(t))
    BY <1>5, <2>1, InScanMoved, InScanTypes, InScanUp
  <2>3. ScanByte(s, "{") = Up(t) /\ ScanByte(Up(r), "}") = Moved(r, 1)
    BY <1>1, <1>5, <2>1, <2>2, InScanByte, InScanClose
  <2>4. Goes(Up(t), u, Up(r))
    <3>1. Goes(Up(t), u, Moved(Up(t), n))
      BY <1>2, <2>2 DEF ScanPasses
    <3>2. QED
      BY <2>1, <2>2, <3>1, ScanFlags
  <2>5. Goes(s, a, Moved(r, 1))
    BY <1>1, <2>2, <2>3, <2>4, GoesWrapped DEF InBraces
  <2>6. QED
    BY <2>1, <2>2, <2>5, MovedTwice
<1>6. ScanPasses(a)
  BY <1>3, <1>5 DEF ScanPasses
<1>7. QED
  BY <1>3, <1>4, <1>6 DEF TextOf

\* So is one between brackets.
LEMMA BracketsPass ==
  ASSUME NEW a, NEW u, NEW n \in Nat, TextOf(u, n), InBrackets(a, u)
  PROVE  TextOf(a, n + 2)
<1>1. "[" \in Punctuation /\ "]" \in Punctuation
  BY DEF Punctuation
<1>2. u \in Seq(Punctuation) /\ Len(u) = n /\ Through(u) /\ ScanPasses(u)
  BY DEF TextOf
<1>3. a \in Seq(Punctuation) /\ Len(a) = n + 2
  BY <1>1, <1>2, Wrapped DEF InBrackets
<1>4. Through(a)
  BY <1>2, BracketsThrough DEF InBrackets
<1>5. ASSUME NEW s, InScan(s) PROVE Goes(s, a, Moved(s, n + 2))
  <2>1. PICK t, r : t = Moved(s, 1) /\ r = Moved(t, n)
    OBVIOUS
  <2>2. InScan(t) /\ InScan(r) /\ s \in Scan
    BY <1>5, <2>1, InScanMoved, InScanTypes
  <2>3. ScanByte(s, "[") = t /\ ScanByte(r, "]") = Moved(r, 1)
    BY <1>1, <1>5, <2>1, <2>2, InScanByte
  <2>4. Goes(t, u, r)
    BY <1>2, <2>1, <2>2 DEF ScanPasses
  <2>5. Goes(s, a, Moved(r, 1))
    BY <1>1, <2>2, <2>3, <2>4, GoesWrapped DEF InBrackets
  <2>6. QED
    BY <2>1, <2>2, <2>5, MovedTwice
<1>6. ScanPasses(a)
  BY <1>3, <1>5 DEF ScanPasses
<1>7. QED
  BY <1>3, <1>4, <1>6 DEF TextOf
-----------------------------------------------------------------------------
(* The parts of what JSON says. *)

\* The parts of what is glued together.
LEMMA GlueParts ==
  ASSUME NEW S, NEW T, NEW w \in Glue(S, T)
  PROVE  \E s \in S, t \in T : w = s \o t
BY DEF Glue

\* The parts of characters.
LEMMA CharsParts ==
  ASSUME NEW S, NEW w \in Chars(S)
  PROVE  \E x \in S : x \in Characters /\ w = <<x>>
BY DEF Chars

\* A character makes a text.
LEMMA CharsMake ==
  ASSUME NEW S, NEW x \in S, x \in Characters
  PROVE  <<x>> \in Chars(S)
BY DEF Chars

\* A text between two bytes.
WrappedIn(a, o, u, c) == a = (<<o>> \o u) \o <<c>>

\* The parts of a text between two bytes.
LEMMA AroundParts ==
  ASSUME NEW o, NEW S, NEW c, NEW a \in Around(o, S, c)
  PROVE  \E u \in S : WrappedIn(a, o, u, c)
<1>1. PICK l \in Glue(Chars({o}), S), r \in Chars({c}) : a = l \o r
  BY GlueParts DEF Around
<1>2. PICK h \in Chars({o}), u \in S : l = h \o u
  BY GlueParts
<1>3. h = <<o>> /\ r = <<c>>
  <2>1. \E x \in {o} : h = <<x>>
    BY CharsParts
  <2>2. \E x \in {c} : r = <<x>>
    BY CharsParts
  <2>3. QED
    BY <2>1, <2>2
<1>4. QED
  BY <1>1, <1>2, <1>3 DEF WrappedIn

\* The parts of a string with its quotes.
LEMMA QuotesParts ==
  ASSUME NEW S, NEW a \in Around("q", S, "q")
  PROVE  \E u \in S : InQuotes(a, u)
<1>1. PICK o, c : o = "q" /\ c = "q"
  OBVIOUS
<1>2. a \in Around(o, S, c)
  BY <1>1
<1>3. PICK u \in S : WrappedIn(a, o, u, c)
  BY <1>2, AroundParts
<1>4. InQuotes(a, u)
  BY <1>1, <1>3 DEF InQuotes, WrappedIn
<1>5. QED
  BY <1>4

\* The parts of a text between braces.
LEMMA BracesParts ==
  ASSUME NEW S, NEW a \in Around("{", S, "}")
  PROVE  \E u \in S : InBraces(a, u)
<1>1. PICK o, c : o = "{" /\ c = "}"
  OBVIOUS
<1>2. a \in Around(o, S, c)
  BY <1>1
<1>3. PICK u \in S : WrappedIn(a, o, u, c)
  BY <1>2, AroundParts
<1>4. InBraces(a, u)
  BY <1>1, <1>3 DEF InBraces, WrappedIn
<1>5. QED
  BY <1>4

\* The parts of a text between brackets.
LEMMA BracketsParts ==
  ASSUME NEW S, NEW a \in Around("[", S, "]")
  PROVE  \E u \in S : InBrackets(a, u)
<1>1. PICK o, c : o = "[" /\ c = "]"
  OBVIOUS
<1>2. a \in Around(o, S, c)
  BY <1>1
<1>3. PICK u \in S : WrappedIn(a, o, u, c)
  BY <1>2, AroundParts
<1>4. InBrackets(a, u)
  BY <1>1, <1>3 DEF InBrackets, WrappedIn
<1>5. QED
  BY <1>4

\* A comma or white space.
LEMMA LetterParts ==
  ASSUME NEW e \in Letters
  PROVE  Letter(e)
<1>1. PICK S : S = {",", " "}
  OBVIOUS
<1>2. e \in Chars(S)
  BY <1>1 DEF Letters
<1>3. PICK x \in S : e = <<x>>
  BY <1>2, CharsParts
<1>4. QED
  BY <1>1, <1>3 DEF Letter

\* The parts of a text of a string.
LEMMA QuotedParts ==
  ASSUME NEW n \in 0 .. LongestFile, NEW w \in Quoted[n]
  PROVE  \/ n = 0 /\ w = <<>>
         \/ n # 0 /\ \E e, v : Plain(e) /\ v \in Quoted[n - 1] /\ w = e \o v
         \/ n # 0 /\ n # 1 /\ \E e, v : Escape(e) /\ v \in Quoted[n - 2] /\ w = e \o v
<1>1. w \in QuotedOf(Quoted, n)
  BY QuotedUnfold
<1>2. CASE n = 0
  BY <1>1, <1>2 DEF QuotedOf
<1>3. ASSUME w \in Glue(Chars(Punctuation \ {"q", "b"}), Quoted[n - 1])
      PROVE  \E e, v : Plain(e) /\ v \in Quoted[n - 1] /\ w = e \o v
  <2>1. PICK e \in Chars(Punctuation \ {"q", "b"}), v \in Quoted[n - 1] : w = e \o v
    BY <1>3, GlueParts
  <2>2. \E x \in Punctuation \ {"q", "b"} : e = <<x>>
    BY CharsParts
  <2>3. Plain(e)
    BY <2>2 DEF Plain
  <2>4. QED
    BY <2>1, <2>3
<1>4. ASSUME w \in Glue(Glue(Chars({"b"}), Chars(Punctuation)), Quoted[n - 2])
      PROVE  \E e, v : Escape(e) /\ v \in Quoted[n - 2] /\ w = e \o v
  <2>1. PICK e \in Glue(Chars({"b"}), Chars(Punctuation)), v \in Quoted[n - 2] : w = e \o v
    BY <1>4, GlueParts
  <2>2. PICK b \in Chars({"b"}), c \in Chars(Punctuation) : e = b \o c
    BY GlueParts
  <2>3. \E x \in {"b"} : b = <<x>>
    BY CharsParts
  <2>4. \E x \in Punctuation : c = <<x>>
    BY CharsParts
  <2>5. Escape(e)
    BY <2>2, <2>3, <2>4 DEF Escape
  <2>6. QED
    BY <2>1, <2>5
<1>5. CASE n # 0
  <2>1. \/ w \in Glue(Chars(Punctuation \ {"q", "b"}), Quoted[n - 1])
        \/ n # 1 /\ w \in Glue(Glue(Chars({"b"}), Chars(Punctuation)), Quoted[n - 2])
    BY <1>1, <1>5 DEF QuotedOf
  <2>2. QED
    BY <1>3, <1>4, <1>5, <2>1
<1>6. QED
  BY <1>2, <1>5

\* The parts of a text in which brackets match.
LEMMA BalancedParts ==
  ASSUME NEW n \in 0 .. LongestFile, NEW w \in Balanced[n]
  PROVE  \/ n = 0 /\ w = <<>>
         \/ n # 0 /\ \E e, v : Letter(e) /\ v \in Balanced[n - 1] /\ w = e \o v
         \/ n # 0 /\ \E k \in 2 .. n : \E a, u, v :
              /\ v \in Balanced[n - k] /\ w = a \o v
              /\ \/ InQuotes(a, u) /\ u \in Quoted[k - 2]
                 \/ (InBraces(a, u) \/ InBrackets(a, u)) /\ u \in Balanced[k - 2]
<1>1. w \in BalancedOf(Balanced, n)
  BY BalancedUnfold
<1>2. CASE n = 0
  BY <1>1, <1>2 DEF BalancedOf
<1> DEFINE Groups(k) == Around("q", Quoted[k - 2], "q")
                          \cup Around("{", Balanced[k - 2], "}")
                          \cup Around("[", Balanced[k - 2], "]")
<1>3. CASE n # 0
  <2>1. \/ w \in Glue(Letters, Balanced[n - 1])
        \/ \E k \in 2 .. n : w \in Glue(Groups(k), Balanced[n - k])
    BY <1>1, <1>3 DEF BalancedOf
  <2>2. ASSUME w \in Glue(Letters, Balanced[n - 1])
        PROVE  \E e, v : Letter(e) /\ v \in Balanced[n - 1] /\ w = e \o v
    <3>1. PICK e \in Letters, v \in Balanced[n - 1] : w = e \o v
      BY <2>2, GlueParts
    <3>2. QED
      BY <3>1, LetterParts
  <2>3. ASSUME NEW k \in 2 .. n, w \in Glue(Groups(k), Balanced[n - k])
        PROVE  \E a, u, v :
                 /\ v \in Balanced[n - k] /\ w = a \o v
                 /\ \/ InQuotes(a, u) /\ u \in Quoted[k - 2]
                    \/ (InBraces(a, u) \/ InBrackets(a, u)) /\ u \in Balanced[k - 2]
    <3>1. PICK a \in Groups(k), v \in Balanced[n - k] : w = a \o v
      <4> HIDE DEF Groups
      <4>1. QED
        BY <2>3, GlueParts
    <3>2. \/ a \in Around("q", Quoted[k - 2], "q")
          \/ a \in Around("{", Balanced[k - 2], "}")
          \/ a \in Around("[", Balanced[k - 2], "]")
      OBVIOUS
    <3>3. \/ \E u : InQuotes(a, u) /\ u \in Quoted[k - 2]
          \/ \E u : InBraces(a, u) /\ u \in Balanced[k - 2]
          \/ \E u : InBrackets(a, u) /\ u \in Balanced[k - 2]
      <4>1. a \in Around("q", Quoted[k - 2], "q") => \E u \in Quoted[k - 2] : InQuotes(a, u)
        BY QuotesParts
      <4>2. a \in Around("{", Balanced[k - 2], "}") => \E u \in Balanced[k - 2] : InBraces(a, u)
        BY BracesParts
      <4>3. a \in Around("[", Balanced[k - 2], "]") => \E u \in Balanced[k - 2] : InBrackets(a, u)
        BY BracketsParts
      <4>4. QED
        BY <3>2, <4>1, <4>2, <4>3
    <3>4. QED
      BY <3>1, <3>3
  <2> HIDE DEF Groups
  <2>4. QED
    BY <1>3, <2>1, <2>2, <2>3
<1>4. QED
  BY <1>2, <1>3

\* What is between quotes is passed, and is as long as it says.
LEMMA QuotedPass == \A n \in 0 .. LongestFile : \A w \in Quoted[n] : StrOf(w, n)
<1>1. PICK N \in Nat : N = LongestFile
  BY LongestNat
<1> DEFINE K == {n \in Nat : n <= N /\ ~\A w \in Quoted[n] : StrOf(w, n)}
<1>2. SUFFICES ASSUME K # {} PROVE FALSE
  BY <1>1
<1>3. PICK m \in K : \A j \in K : m <= j
  <2>1. K \subseteq Nat
    OBVIOUS
  <2> HIDE DEF K
  <2>2. QED
    BY <1>2, <2>1, LeastExists
<1>4. m \in Nat /\ m <= N /\ ~\A w \in Quoted[m] : StrOf(w, m)
  OBVIOUS
<1>5. ASSUME NEW l \in Nat, l < m PROVE \A w \in Quoted[l] : StrOf(w, l)
  <2>1. l \notin K /\ l <= N
    <3>1. ~(m <= l) /\ l <= N
      BY <1>4, <1>5
    <3> HIDE DEF K
    <3>2. QED
      BY <1>3, <3>1
  <2>2. QED
    BY <2>1
<1> HIDE DEF K
<1>6. PICK w \in Quoted[m] : ~StrOf(w, m)
  BY <1>4
<1>7. m \in 0 .. LongestFile
  BY <1>1, <1>4
<1>8. CASE m = 0 /\ w = <<>>
  BY <1>6, <1>8, NothingPasses
<1>9. ASSUME NEW k \in {1, 2}, m # 0, m # k - 1, NEW e, NEW v, StrOf(e, k), v \in Quoted[m - k],
             w = e \o v
      PROVE  FALSE
  <2>1. m - k \in Nat /\ m - k < m /\ k + (m - k) = m
    BY <1>4, <1>9
  <2>2. StrOf(v, m - k)
    BY <1>5, <1>9, <2>1
  <2>3. StrOf(w, k + (m - k))
    BY <1>9, <2>2, StringsJoin
  <2>4. QED
    BY <1>6, <2>1, <2>3
<1>10. m # 0 => m # 1 - 1
  OBVIOUS
<1>11. m # 1 => m # 2 - 1
  OBVIOUS
<1>12. ASSUME m # 0, NEW e, NEW v, Plain(e), v \in Quoted[m - 1], w = e \o v PROVE FALSE
  BY <1>9, <1>10, <1>12, PlainPasses
<1>13. ASSUME m # 0, m # 1, NEW e, NEW v, Escape(e), v \in Quoted[m - 2], w = e \o v PROVE FALSE
  BY <1>9, <1>11, <1>13, EscapePasses
<1>14. QED
  BY <1>6, <1>7, <1>8, <1>12, <1>13, QuotedParts

\* So is what is between brackets.
LEMMA BalancedPass == \A n \in 0 .. LongestFile : \A w \in Balanced[n] : TextOf(w, n)
<1>1. PICK N \in Nat : N = LongestFile
  BY LongestNat
<1> DEFINE K == {n \in Nat : n <= N /\ ~\A w \in Balanced[n] : TextOf(w, n)}
<1>2. SUFFICES ASSUME K # {} PROVE FALSE
  BY <1>1
<1>3. PICK m \in K : \A j \in K : m <= j
  <2>1. K \subseteq Nat
    OBVIOUS
  <2> HIDE DEF K
  <2>2. QED
    BY <1>2, <2>1, LeastExists
<1>4. m \in Nat /\ m <= N /\ ~\A w \in Balanced[m] : TextOf(w, m)
  OBVIOUS
<1>5. ASSUME NEW l \in Nat, l < m PROVE \A w \in Balanced[l] : TextOf(w, l)
  <2>1. l \notin K /\ l <= N
    <3>1. ~(m <= l) /\ l <= N
      BY <1>4, <1>5
    <3> HIDE DEF K
    <3>2. QED
      BY <1>3, <3>1
  <2>2. QED
    BY <2>1
<1> HIDE DEF K
<1>6. PICK w \in Balanced[m] : ~TextOf(w, m)
  BY <1>4
<1>7. m \in 0 .. LongestFile
  BY <1>1, <1>4
<1>8. CASE m = 0 /\ w = <<>>
  BY <1>6, <1>8, NothingPasses
<1>9. ASSUME NEW k \in 1 .. m, NEW e, NEW v, TextOf(e, k), v \in Balanced[m - k], w = e \o v
      PROVE  FALSE
  <2>1. m - k \in Nat /\ m - k < m /\ k + (m - k) = m
    BY <1>4, <1>9
  <2>2. TextOf(v, m - k)
    BY <1>5, <1>9, <2>1
  <2>3. TextOf(w, k + (m - k))
    BY <1>9, <2>2, TextsJoin
  <2>4. QED
    BY <1>6, <2>1, <2>3
<1>10. m # 0 => 1 \in 1 .. m
  BY <1>4
<1>11. ASSUME m # 0, NEW e, NEW v, Letter(e), v \in Balanced[m - 1], w = e \o v PROVE FALSE
  BY <1>9, <1>10, <1>11, LetterPasses
<1>12. ASSUME NEW k \in 2 .. m
       PROVE  k \in 1 .. m /\ k - 2 \in Nat /\ k - 2 < m /\ (k - 2) + 2 = k /\ k - 2 \in 0 .. LongestFile
  BY <1>1, <1>4, <1>12
<1>13. ASSUME NEW k \in 2 .. m, NEW a, NEW u, NEW v, v \in Balanced[m - k], w = a \o v,
              TextOf(a, (k - 2) + 2)
       PROVE  FALSE
  <2>1. TextOf(a, k)
    BY <1>12, <1>13
  <2>2. QED
    BY <1>9, <1>12, <1>13, <2>1
<1>14. ASSUME NEW k \in 2 .. m, NEW a, NEW u, NEW v, v \in Balanced[m - k], w = a \o v,
              \/ InQuotes(a, u) /\ u \in Quoted[k - 2]
              \/ (InBraces(a, u) \/ InBrackets(a, u)) /\ u \in Balanced[k - 2]
       PROVE  FALSE
  <2>1. u \in Quoted[k - 2] => StrOf(u, k - 2)
    BY <1>12, <1>14, QuotedPass
  <2>2. u \in Balanced[k - 2] => TextOf(u, k - 2)
    BY <1>5, <1>12, <1>14
  <2>3. TextOf(a, (k - 2) + 2)
    BY <1>12, <1>14, <2>1, <2>2, QuotesPass, BracesPass, BracketsPass
  <2>4. QED
    BY <1>13, <1>14, <2>3
<1>15. \/ m = 0 /\ w = <<>>
       \/ m # 0 /\ \E e, v : Letter(e) /\ v \in Balanced[m - 1] /\ w = e \o v
       \/ m # 0 /\ \E k \in 2 .. m : \E a, u, v :
            /\ v \in Balanced[m - k] /\ w = a \o v
            /\ \/ InQuotes(a, u) /\ u \in Quoted[k - 2]
               \/ (InBraces(a, u) \/ InBrackets(a, u)) /\ u \in Balanced[k - 2]
  BY <1>7, BalancedParts
<1>16. QED
  BY <1>6, <1>8, <1>11, <1>14, <1>15
-----------------------------------------------------------------------------
(* Between the rows. *)

\* Between the rows: before the bracket of the array, or after it with a value expected
\* or not and seen or not.
Stands(s, st, e, h) ==
  /\ s \in Filter /\ ~s.finished /\ ~s.bad /\ s.depth = 0 /\ ~s.in_string /\ ~s.escaped
  /\ s.started = st /\ s.array_started = st /\ s.expect_value = e /\ s.has_value = h

\* What it is to be between the rows.
LEMMA StandsTypes ==
  ASSUME NEW s, NEW st, NEW e, NEW h, Stands(s, st, e, h)
  PROVE  /\ s \in Filter /\ s.finished = FALSE /\ s.bad = FALSE /\ s.depth = 0
         /\ s.in_string = FALSE /\ s.escaped = FALSE
         /\ s.started = st /\ s.array_started = st /\ s.expect_value = e /\ s.has_value = h
         /\ st \in BOOLEAN /\ e \in BOOLEAN /\ h \in BOOLEAN
BY DEF Stands, Filter

\* Between the rows, a text can be kept.
LEMMA StandsKept ==
  ASSUME NEW s, NEW st, NEW e, NEW h, Stands(s, st, e, h), NEW w \in Seq(Punctuation)
  PROVE  Stands(Kept(s, w), st, e, h)
<1>1. Kept(s, w) \in Filter /\ Alike(Kept(s, w), s)
  BY StandsTypes, KeptTypes
<1>2. QED
  BY <1>1 DEF Stands, Alike

\* A file begins before the bracket, a stream from an offset after it.
LEMMA StandsFresh == Stands(Fresh, FALSE, FALSE, FALSE) /\ Stands(FreshFromOffset, TRUE, TRUE, FALSE)
BY FreshTypes DEF Stands, Fresh, FreshFromOffset

\* A byte before the bracket.
LEMMA LeadByte ==
  ASSUME NEW s, Stands(s, FALSE, FALSE, FALSE), NEW x \in Punctuation
  PROVE  /\ x = " " => FilterByte(s, x) = s
         /\ x = "[" => /\ Stands(FilterByte(s, x), TRUE, TRUE, FALSE)
                       /\ FilterByte(s, x).out = s.out
<1>1. s \in Filter /\ s.bad = FALSE /\ s.started = FALSE
  BY StandsTypes
<1>2. PICK r : r = [s EXCEPT !.started = TRUE, !.array_started = TRUE, !.expect_value = TRUE]
  OBVIOUS
<1>3. x = "[" => FilterByte(s, x) = r
  BY <1>1, <1>2 DEF FilterByte
<1>4. Stands(r, TRUE, TRUE, FALSE) /\ r.out = s.out
  BY <1>1, <1>2 DEF Stands, Filter
<1>5. QED
  BY <1>1, <1>3, <1>4 DEF FilterByte

\* A row that began, a row that ended.
Began(s) == [Kept(s, <<"{">>) EXCEPT !.expect_value = FALSE, !.depth = 1]
RowDone(s, o) == [Kept(s, o) EXCEPT !.expect_value = FALSE, !.has_value = TRUE]

\* A byte between the rows.
LEMMA RowBytes ==
  ASSUME NEW s, NEW e, NEW h, Stands(s, TRUE, e, h), NEW x \in Punctuation
  PROVE  /\ x = " " => FilterByte(s, x) = Kept(s, <<x>>)
         /\ x = "{" /\ e => FilterByte(s, x) = Began(s)
         /\ x = "," /\ ~e /\ h => FilterByte(s, x) = [s EXCEPT !.expect_value = TRUE]
         /\ x = "]" /\ (~e \/ ~h) => FilterByte(s, x) = [s EXCEPT !.finished = TRUE]
         /\ \/ x = " " \/ (x = "{" /\ e) \/ (x = "," /\ ~e /\ h) \/ (x = "]" /\ (~e \/ ~h))
            \/ FilterByte(s, x) = [s EXCEPT !.bad = TRUE]
<1>1. /\ s \in Filter /\ s.finished = FALSE /\ s.bad = FALSE /\ s.depth = 0
      /\ s.in_string = FALSE /\ s.started = TRUE /\ s.array_started = TRUE
      /\ s.expect_value = e /\ s.has_value = h /\ e \in BOOLEAN /\ h \in BOOLEAN
  BY StandsTypes
<1>2. FilterByte(s, x) = RowByte(s, x)
  BY <1>1 DEF FilterByte, AfterStart
<1>3. Keep(s, x) = Kept(s, <<x>>)
  BY <1>1, KeptByte
<1>4. x = " " => RowByte(s, x) = Keep(s, x)
  BY DEF RowByte
<1>5. x = "{" /\ e => RowByte(s, x) = [Keep(s, x) EXCEPT !.expect_value = FALSE, !.depth = 1]
  BY <1>1 DEF RowByte
<1>6. x = "," /\ ~e /\ h => RowByte(s, x) = [s EXCEPT !.expect_value = TRUE]
  BY <1>1 DEF RowByte
<1>7. x = "]" /\ (~e \/ ~h) => RowByte(s, x) = [s EXCEPT !.finished = TRUE]
  BY <1>1 DEF RowByte
<1>8. \/ x = " " \/ (x = "{" /\ e) \/ (x = "," /\ ~e /\ h) \/ (x = "]" /\ (~e \/ ~h))
      \/ RowByte(s, x) = [s EXCEPT !.bad = TRUE]
  BY <1>1 DEF RowByte
<1>9. QED
  BY <1>2, <1>3, <1>4, <1>5, <1>6, <1>7, <1>8 DEF Began

\* After a comma a value is expected.
LEMMA StandsComma ==
  ASSUME NEW s, NEW e, NEW h, Stands(s, TRUE, e, h)
  PROVE  Stands([s EXCEPT !.expect_value = TRUE], TRUE, TRUE, h)
BY DEF Stands, Filter

\* In a row that began, the filter is inside.
LEMMA BeganTypes ==
  ASSUME NEW s, NEW e, NEW h, Stands(s, TRUE, e, h)
  PROVE  Inside(Began(s)) /\ Began(s).depth = 1 /\ Began(s).array_started
<1>1. "{" \in Punctuation
  BY DEF Punctuation
<1>2. PICK t : t = Kept(s, <<"{">>) /\ Stands(t, TRUE, e, h)
  BY <1>1, StandsKept, OneByte
<1>3. PICK r : r = [t EXCEPT !.expect_value = FALSE, !.depth = 1]
  OBVIOUS
<1>4. r \in Filter /\ r.depth = 1 /\ r.started /\ ~r.finished /\ ~r.bad /\ ~r.in_string /\ ~r.escaped
      /\ r.array_started
  BY <1>2, <1>3 DEF Stands, Filter
<1>5. Inside(r)
  <2>1. r.depth >= 1
    BY <1>4
  <2>2. QED
    BY <1>4, <2>1 DEF Inside, Deep
<1>6. QED
  BY <1>2, <1>3, <1>4, <1>5 DEF Began

\* After a row it is between the rows.
LEMMA RowDoneStands ==
  ASSUME NEW s, NEW e, NEW h, Stands(s, TRUE, e, h), NEW o \in Seq(Punctuation)
  PROVE  Stands(RowDone(s, o), TRUE, FALSE, TRUE) /\ RowDone(s, o).out = s.out \o o
<1>1. PICK t : t = Kept(s, o) /\ Stands(t, TRUE, e, h)
  BY StandsKept
<1>2. t.out = s.out \o o
  BY <1>1, StandsTypes DEF Kept, Filter
<1>3. Stands([t EXCEPT !.expect_value = FALSE, !.has_value = TRUE], TRUE, FALSE, TRUE)
      /\ [t EXCEPT !.expect_value = FALSE, !.has_value = TRUE].out = t.out
  BY <1>1 DEF Stands, Filter
<1>4. QED
  BY <1>1, <1>2, <1>3 DEF RowDone

\* The brace that ends a row.
LEMMA RowCloses ==
  ASSUME NEW s, NEW e, NEW h, Stands(s, TRUE, e, h), NEW u \in Seq(Punctuation)
  PROVE  FilterByte(Kept(Began(s), u), "}") = RowDone(s, (<<"{">> \o u) \o <<"}">>)
<1>1. "{" \in Punctuation /\ "}" \in Punctuation
  BY DEF Punctuation
<1>2. PICK t : t = Kept(Began(s), u)
  OBVIOUS
<1>3. Inside(t) /\ t.depth = 1 /\ t.array_started
  <2>1. Inside(t) /\ t.depth = Began(s).depth
    BY <1>2, BeganTypes, InsideKept
  <2>2. Alike(t, Began(s))
    BY <1>2, BeganTypes, InsideTypes, KeptTypes
  <2>3. QED
    BY <2>1, <2>2, BeganTypes DEF Alike
<1>4. /\ t \in Filter /\ t.started = TRUE /\ t.finished = FALSE /\ t.bad = FALSE
      /\ t.in_string = FALSE
  BY <1>3, InsideTypes
<1>5. FilterByte(t, "}") = InnerByte(t, "}")
  <2>1. t.depth # 0
    BY <1>3
  <2>2. QED
    BY <1>4, <2>1 DEF FilterByte, AfterStart
<1>6. InnerByte(t, "}") = [Keep(t, "}") EXCEPT !.depth = @ - 1, !.has_value = TRUE]
  <2>1. t.depth > 0 /\ t.depth = 1 /\ t.array_started
    BY <1>3
  <2>2. Keep(t, "}").has_value \in BOOLEAN
    BY <1>1, <1>4, KeepTypes DEF Filter
  <2>3. InnerByte(t, "}") = [Keep(t, "}") EXCEPT !.depth = @ - 1,
                               !.has_value = @ \/ (t.depth = 1 /\ t.array_started)]
    BY <2>1 DEF InnerByte
  <2>4. (Keep(t, "}").has_value \/ (t.depth = 1 /\ t.array_started)) = TRUE
    BY <2>1, <2>2
  <2>5. QED
    BY <2>3, <2>4
<1>7. Keep(t, "}") = Kept(t, <<"}">>)
  BY <1>1, <1>4, KeptByte
<1>8. s \in Filter /\ s.depth = 0
  BY StandsTypes
<1>9. PICK a \in Seq(Punctuation), b \in Seq(Punctuation), c \in Seq(Punctuation) :
        a = <<"{">> /\ b = <<"{">> \o u /\ c = (<<"{">> \o u) \o <<"}">>
  BY <1>1, OneByte, JoinedText
<1>10. PICK g \in Seq(Punctuation) : g = <<"}">>
  BY <1>1, OneByte
<1>11. Kept(Began(s), u) = [Kept(s, b) EXCEPT !.expect_value = FALSE, !.depth = 1]
  <2>1. Kept(Began(s), u) = [Kept(Kept(s, a), u) EXCEPT !.expect_value = FALSE, !.depth = 1]
    <3>1. PICK k \in Filter : k = Kept(s, a)
      BY <1>8, KeptTypes
    <3>2. [[k EXCEPT !.expect_value = FALSE, !.depth = 1] EXCEPT !.out = @ \o u]
            = [[k EXCEPT !.out = @ \o u] EXCEPT !.expect_value = FALSE, !.depth = 1]
      BY DEF Filter
    <3>3. QED
      BY <1>9, <3>1, <3>2 DEF Kept, Began
  <2>2. Kept(Kept(s, a), u) = Kept(s, b)
    BY <1>8, <1>9, KeptJoin
  <2>3. QED
    BY <2>1, <2>2
<1>12. Kept(t, g) = [Kept(s, c) EXCEPT !.expect_value = FALSE, !.depth = 1]
  <2>1. PICK k \in Filter : k = Kept(s, b)
    BY <1>8, KeptTypes
  <2>2. [[k EXCEPT !.expect_value = FALSE, !.depth = 1] EXCEPT !.out = @ \o g]
            = [[k EXCEPT !.out = @ \o g] EXCEPT !.expect_value = FALSE, !.depth = 1]
    BY DEF Filter
  <2>3. Kept(k, g) = Kept(s, c)
    BY <1>8, <1>9, <1>10, <2>1, KeptJoin
  <2>4. QED
    BY <1>2, <1>11, <2>1, <2>2, <2>3 DEF Kept
<1>13. [[Kept(s, c) EXCEPT !.expect_value = FALSE, !.depth = 1] EXCEPT !.depth = @ - 1, !.has_value = TRUE]
         = RowDone(s, c)
  <2>1. PICK k \in Filter : k = Kept(s, c) /\ k.depth = 0
    BY <1>8, KeptTypes DEF Alike
  <2>2. [[k EXCEPT !.expect_value = FALSE, !.depth = 1] EXCEPT !.depth = @ - 1, !.has_value = TRUE]
          = [k EXCEPT !.expect_value = FALSE, !.has_value = TRUE]
    <3>1. PICK l \in Filter : l = [k EXCEPT !.expect_value = FALSE, !.depth = 1]
      BY DEF Filter
    <3>2. l.depth - 1 = 0
      BY <3>1 DEF Filter
    <3>3. [l EXCEPT !.depth = 0, !.has_value = TRUE] = [k EXCEPT !.expect_value = FALSE, !.has_value = TRUE]
      BY <2>1, <3>1 DEF Filter
    <3>4. QED
      BY <3>1, <3>2, <3>3
  <2>3. QED
    BY <2>1, <2>2 DEF RowDone
<1>14. QED
  BY <1>2, <1>5, <1>6, <1>7, <1>9, <1>10, <1>12, <1>13

\* An object.
LEMMA ObjectParts ==
  ASSUME NEW k \in 2 .. LongestFile, NEW o \in Objects(k)
  PROVE  \E u : InBraces(o, u) /\ TextOf(u, k - 2)
<1>1. o \in Around("{", Balanced[k - 2], "}")
  BY DEF Objects
<1>2. PICK u \in Balanced[k - 2] : InBraces(o, u)
  BY <1>1, BracesParts
<1>3. k - 2 \in 0 .. LongestFile
  BY LongestNat
<1>4. QED
  BY <1>2, <1>3, BalancedPass

\* The type of an object.
LEMMA ObjectTypes ==
  ASSUME NEW k \in 2 .. LongestFile, NEW o \in Objects(k)
  PROVE  o \in Seq(Punctuation) /\ Len(o) = k
<1>1. PICK u : InBraces(o, u) /\ TextOf(u, k - 2)
  BY ObjectParts
<1>2. k - 2 \in Nat /\ (k - 2) + 2 = k
  BY LongestNat
<1>3. TextOf(o, (k - 2) + 2)
  BY <1>1, <1>2, BracesPass
<1>4. QED
  BY <1>2, <1>3 DEF TextOf

\* The first of three texts in one.
LEMMA FirstOf ==
  ASSUME NEW o \in Punctuation, NEW w \in Seq(Punctuation), NEW c \in Punctuation
  PROVE  ((<<o>> \o w) \o <<c>>)[1] = o
<1>1. PICK a \in Seq(Punctuation) : a = <<o>> /\ Len(a) = 1 /\ a[1] = o
  BY OneByte
<1>2. PICK e \in Seq(Punctuation) : e = <<c>>
  BY OneByte
<1>3. PICK n \in Nat : n = Len(w)
  OBVIOUS
<1>4. PICK l \in Seq(Punctuation) : l = a \o w /\ Len(l) = 1 + n
  BY <1>1, <1>3, JoinedText
<1>5. 1 \in 1 .. 1 /\ 1 \in 1 .. 1 + n
  OBVIOUS
<1>6. l[1] = a[1]
  BY <1>1, <1>4, <1>5, JoinedText
<1>7. (l \o e)[1] = l[1]
  BY <1>2, <1>4, <1>5, JoinedText
<1>8. QED
  BY <1>1, <1>2, <1>4, <1>6, <1>7

\* An object begins with a brace.
LEMMA BraceBegins ==
  ASSUME NEW k \in 2 .. LongestFile, NEW o \in Objects(k)
  PROVE  IsBrace(o[1])
<1>1. PICK u : InBraces(o, u) /\ TextOf(u, k - 2)
  BY ObjectParts
<1>2. u \in Seq(Punctuation)
  BY <1>1 DEF TextOf
<1>3. PICK x \in Punctuation, y \in Punctuation : x = "{" /\ y = "}"
  BY DEF Punctuation
<1>4. o = (<<x>> \o u) \o <<y>>
  BY <1>1, <1>3 DEF InBraces
<1>5. o[1] = x
  BY <1>2, <1>4, FirstOf
<1>6. QED
  BY <1>3, <1>5 DEF IsBrace

\* One byte is filtered.
LEMMA FilteredByte ==
  ASSUME NEW s \in Filter, NEW x \in Punctuation
  PROVE  Filtered(s, <<x>>)[0] = s /\ Filtered(s, <<x>>)[1] = FilterByte(s, x)
<1>1. PICK w \in Seq(Punctuation) : w = <<x>> /\ Len(w) = 1 /\ w[1] = x
  BY OneByte
<1>2. 1 \in 1 .. Len(w) /\ 1 - 1 = 0
  BY <1>1
<1>3. Filtered(s, w)[1] = FilterByte(Filtered(s, w)[0], w[1])
  BY <1>2, FilteredStep
<1>4. Filtered(s, w)[0] = s
  BY FilteredStep
<1>5. QED
  BY <1>1, <1>3, <1>4

\* Two texts in one are filtered one after the other.
Concats(w, u, v) == w = u \o v

\* They are filtered as the first and, from there, the second.
LEMMA FilteredTwo ==
  ASSUME NEW s \in Filter, NEW u \in Seq(Punctuation), NEW v \in Seq(Punctuation),
         NEW w \in Seq(Punctuation), Concats(w, u, v), NEW n \in Nat, Len(u) = n, NEW m \in Nat, Len(v) = m,
         NEW r, Filtered(s, u)[n] = r
  PROVE  /\ \A i \in 0 .. n : Filtered(s, w)[i] = Filtered(s, u)[i]
         /\ \A j \in 0 .. m : Filtered(s, w)[n + j] = Filtered(r, v)[j]
<1>1. /\ \A i \in 0 .. Len(u) : Filtered(s, u \o v)[i] = Filtered(s, u)[i]
      /\ \A j \in 0 .. Len(v) :
           Filtered(s, u \o v)[Len(u) + j] = Filtered(Filtered(s, u)[Len(u)], v)[j]
  BY FilteredJoin
<1>2. QED
  BY <1>1 DEF Concats

\* Three texts in one are filtered.
LEMMA FilteredWrapped ==
  ASSUME NEW s \in Filter, NEW o \in Punctuation, NEW u \in Seq(Punctuation), NEW c \in Punctuation,
         NEW n \in Nat, Len(u) = n, NEW b \in Filter, NEW t \in Filter,
         FilterByte(s, o) = b, Filtered(b, u)[n] = t, NEW a, WrappedIn(a, o, u, c)
  PROVE  /\ Filtered(s, a)[(1 + n) + 1] = FilterByte(t, c)
         /\ \A j \in 0 .. n : Filtered(s, a)[1 + j] = Filtered(b, u)[j]
<1>1. PICK v \in Seq(Punctuation), w \in Seq(Punctuation) :
        v = <<o>> /\ w = <<c>> /\ Len(v) = 1 /\ Len(w) = 1
  BY OneByte
<1>2. Filtered(s, v)[1] = b /\ Filtered(t, w)[1] = FilterByte(t, c)
  BY <1>1, FilteredByte
<1>3. PICK l \in Seq(Punctuation) : l = v \o u /\ Len(l) = 1 + n
  BY <1>1, JoinedText, ZenonT(40)
<1>4. \A j \in 0 .. n : Filtered(s, l)[1 + j] = Filtered(b, u)[j]
  <2>1. Concats(l, v, u)
    BY <1>3 DEF Concats
  <2>2. PICK i \in Nat : i = 1
    OBVIOUS
  <2>3. Len(v) = i /\ Filtered(s, v)[i] = b
    BY <1>1, <1>2, <2>2
  <2>4. \A j \in 0 .. n : Filtered(s, l)[i + j] = Filtered(b, u)[j]
    BY <2>1, <2>3, FilteredTwo
  <2>5. QED
    BY <2>2, <2>4
<1>5. n \in 0 .. n /\ 1 \in 0 .. 1 /\ \A j \in 0 .. n : 1 + j \in 0 .. 1 + n
  OBVIOUS
<1>6. Filtered(s, l)[1 + n] = t
  BY <1>4, <1>5
<1>7. PICK d \in Seq(Punctuation) : d = l \o w /\ d = a
  <2>1. l \o w \in Seq(Punctuation)
    BY JoinedText
  <2>2. a = l \o w
    BY <1>1, <1>3 DEF WrappedIn
  <2>3. QED
    BY <2>1, <2>2
<1>8. 1 + n \in Nat
  OBVIOUS
<1>9. /\ \A i \in 0 .. 1 + n : Filtered(s, d)[i] = Filtered(s, l)[i]
      /\ \A j \in 0 .. 1 : Filtered(s, d)[(1 + n) + j] = Filtered(t, w)[j]
  <2>1. Concats(d, l, w)
    BY <1>7 DEF Concats
  <2>2. PICK i \in Nat, p \in Nat : i = 1 /\ p = 1 + n
    BY <1>8
  <2>3. Len(w) = i /\ Len(l) = p /\ Filtered(s, l)[p] = t
    BY <1>1, <1>3, <1>6, <2>2
  <2>4. /\ \A j \in 0 .. p : Filtered(s, d)[j] = Filtered(s, l)[j]
        /\ \A j \in 0 .. i : Filtered(s, d)[p + j] = Filtered(t, w)[j]
    BY <2>1, <2>3, FilteredTwo
  <2>5. QED
    BY <2>2, <2>4
<1>10. Filtered(s, a)[(1 + n) + 1] = FilterByte(t, c)
  BY <1>2, <1>5, <1>7, <1>9
<1>11. ASSUME NEW j \in 0 .. n PROVE Filtered(s, a)[1 + j] = Filtered(b, u)[j]
  BY <1>4, <1>5, <1>7, <1>9
<1>12. QED
  BY <1>10, <1>11

\* The filter is inside of an object up to its last brace.
LEMMA ObjectFiltered ==
  ASSUME NEW k \in 2 .. LongestFile, NEW o \in Objects(k), NEW s, NEW h, Stands(s, TRUE, TRUE, h)
  PROVE  /\ Filtered(s, o)[k] = RowDone(s, o)
         /\ \A i \in 1 .. k - 1 : Deep(Filtered(s, o)[i], 1)
<1>1. PICK u : InBraces(o, u) /\ TextOf(u, k - 2)
  BY ObjectParts
<1>2. PICK n \in Nat : n = k - 2 /\ 1 + n = k - 1 /\ (1 + n) + 1 = k
  BY LongestNat
<1>3. u \in Seq(Punctuation) /\ Len(u) = n /\ Through(u)
  BY <1>1, <1>2 DEF TextOf
<1>4. PICK x \in Punctuation, y \in Punctuation : x = "{" /\ y = "}"
  BY DEF Punctuation
<1>5. WrappedIn(o, x, u, y)
  BY <1>1, <1>4 DEF InBraces, WrappedIn
<1>6. s \in Filter
  BY StandsTypes
<1>7. PICK b \in Filter : b = Began(s) /\ Inside(b) /\ b.depth = 1
  BY BeganTypes, InsideTypes
<1>8. FilterByte(s, x) = b
  BY <1>4, <1>7, RowBytes
<1>9. Leads(b, u, Kept(b, u), 1)
  BY <1>3, <1>7 DEF Through
<1>10. /\ \A j \in 0 .. n : Deep(Filtered(b, u)[j], 1)
       /\ Filtered(b, u)[n] = Kept(b, u) /\ Kept(b, u) \in Filter
  BY <1>3, <1>9 DEF Leads
<1>11. FilterByte(Kept(b, u), y) = RowDone(s, o)
  BY <1>3, <1>4, <1>5, <1>7, RowCloses DEF WrappedIn
<1>12. /\ Filtered(s, o)[(1 + n) + 1] = RowDone(s, o)
       /\ \A j \in 0 .. n : Filtered(s, o)[1 + j] = Filtered(b, u)[j]
  <2>1. PICK t \in Filter : t = Kept(b, u)
    BY <1>10
  <2>2. Filtered(b, u)[n] = t /\ FilterByte(t, y) = RowDone(s, o)
    BY <1>10, <1>11, <2>1
  <2>3. QED
    BY <1>3, <1>5, <1>6, <1>8, <2>2, FilteredWrapped
<1>13. ASSUME NEW i \in 1 .. k - 1 PROVE Deep(Filtered(s, o)[i], 1)
  <2>1. i - 1 \in 0 .. n /\ 1 + (i - 1) = i
    BY <1>2, <1>13
  <2>2. Filtered(s, o)[i] = Filtered(b, u)[i - 1]
    BY <1>12, <2>1
  <2>3. QED
    BY <1>10, <2>1, <2>2
<1>14. QED
  BY <1>2, <1>12, <1>13

\* The scan between the rows.
AtScan(s) == s \in Scan /\ s.depth = 0 /\ ~s.in_string /\ ~s.escaped

\* It stays there when it moves.
LEMMA AtScanMoved ==
  ASSUME NEW s, AtScan(s), NEW n \in Nat
  PROVE  AtScan(Moved(s, n))
BY MovedTypes DEF AtScan

\* It moves over what stands between the rows.
LEMMA AtScanByte ==
  ASSUME NEW s, AtScan(s), NEW x \in {" ", ",", "[", "]"}
  PROVE  ScanByte(s, x) = Moved(s, 1)
<1>1. s \in Scan /\ s.in_string = FALSE
  BY DEF AtScan, Scan
<1>2. QED
  BY <1>1 DEF ScanByte, Moved

\* The scan finds an object.
LEMMA ObjectScanned ==
  ASSUME NEW k \in 2 .. LongestFile, NEW o \in Objects(k), NEW s, AtScan(s)
  PROVE  \E r : /\ Goes(s, o, r) /\ AtScan(r) /\ r.offset = s.offset + k
                /\ r.starts = Append(s.starts, s.offset)
<1>1. PICK u : InBraces(o, u) /\ TextOf(u, k - 2)
  BY ObjectParts
<1>2. PICK n \in Nat : n = k - 2
  BY LongestNat
<1>3. ScanPasses(u) /\ Len(u) = n
  BY <1>1, <1>2 DEF TextOf
<1>4. "{" \in Punctuation /\ "}" \in Punctuation
  BY DEF Punctuation
<1>5. /\ s \in Scan /\ s.depth = 0 /\ s.in_string = FALSE /\ s.escaped = FALSE
      /\ s.offset \in Nat /\ s.starts \in Seq(Nat) /\ s.start \in Nat
  BY DEF AtScan, Scan
<1>6. PICK p \in Nat, q \in Seq(Nat) : p = s.offset /\ q = Append(s.starts, s.offset)
  <2>1. PICK v \in Seq(Nat), p \in Nat : v = s.starts /\ p = s.offset
    BY <1>5
  <2>2. Append(v, p) \in Seq(Nat)
    OBVIOUS
  <2>3. QED
    BY <2>1, <2>2
<1>7. PICK b : b = [s EXCEPT !.offset = p + 1, !.depth = 1, !.start = p]
  OBVIOUS
<1>8. ScanByte(s, "{") = b
  <2>1. ScanByte(s, "{") = [s EXCEPT !.offset = s.offset + 1, !.depth = s.depth + 1, !.start = s.offset]
    BY <1>5 DEF ScanByte
  <2>2. s.depth + 1 = 1
    BY <1>5
  <2>3. QED
    BY <1>6, <1>7, <2>1, <2>2
<1>9. /\ b \in Scan /\ b.depth = 1 /\ ~b.in_string /\ ~b.escaped
      /\ b.offset = p + 1 /\ b.start = p /\ b.starts = s.starts
  <2>1. p + 1 \in Nat
    OBVIOUS
  <2>2. QED
    BY <1>5, <1>7, <2>1 DEF Scan
<1>10. InScan(b)
  <2>1. b.depth >= 1
    BY <1>9
  <2>2. QED
    BY <1>9, <2>1 DEF InScan
<1>11. PICK t : t = Moved(b, n)
  OBVIOUS
<1>12. Goes(b, u, t)
  BY <1>3, <1>10, <1>11 DEF ScanPasses
<1>13. /\ t \in Scan /\ t.depth = 1 /\ t.in_string = FALSE /\ t.escaped = FALSE
       /\ t.offset = (p + 1) + n /\ t.start = p /\ t.starts = s.starts
  <2>1. /\ t \in Scan
        /\ t.depth = b.depth /\ t.in_string = b.in_string
        /\ t.escaped = b.escaped /\ t.starts = b.starts
        /\ t.start = b.start /\ t.offset = b.offset + n
    BY <1>9, <1>11, MovedTypes
  <2>2. t.in_string \in BOOLEAN /\ t.escaped \in BOOLEAN
    BY <2>1 DEF Scan
  <2>3. QED
    BY <1>9, <2>1, <2>2
<1>14. PICK r : r = [t EXCEPT !.offset = ((p + 1) + n) + 1, !.depth = 0, !.starts = q]
  OBVIOUS
<1>15. ScanByte(t, "}") = r
  <2>1. t.depth > 0
    BY <1>13
  <2>2. ScanByte(t, "}") = [t EXCEPT !.offset = t.offset + 1, !.depth = t.depth - 1,
                                     !.starts = Append(t.starts, t.start)]
    BY <1>13, <2>1 DEF ScanByte
  <2>3. t.depth - 1 = 0
    BY <1>13
  <2>4. QED
    BY <1>6, <1>13, <1>14, <2>2, <2>3
<1>16. ((p + 1) + n) + 1 \in Nat /\ ((p + 1) + n) + 1 = p + k
  BY <1>2, LongestNat
<1>17. AtScan(r) /\ r.offset = p + k /\ r.starts = q
  BY <1>13, <1>14, <1>16 DEF AtScan, Scan
<1>18. Goes(s, o, r)
  BY <1>1, <1>4, <1>5, <1>8, <1>12, <1>15, GoesWrapped DEF InBraces
<1>19. QED
  BY <1>6, <1>17, <1>18
-----------------------------------------------------------------------------
(* An array is delivered and mapped as it is. *)

\* A text and the rows in it.
Typed(y, n) ==
  /\ y.text \in Seq(Punctuation) /\ Len(y.text) = n
  /\ y.rows \in Seq(Seq(Punctuation)) /\ y.starts \in Seq(Nat) /\ Len(y.starts) = Len(y.rows)

\* The first sequence is the second from the p-th place on.
IsTail(v, t, p) == p + Len(v) = Len(t) /\ \A i \in 1 .. Len(v) : v[i] = t[p + i]

\* Starts that have moved by k bytes.
Shifts(q, r, k) == Len(q) = Len(r) /\ \A i \in 1 .. Len(r) : q[i] = r[i] + k

\* The starts that have moved.
LEMMA ShiftedSeq ==
  ASSUME NEW q \in Seq(Nat), NEW k \in Nat
  PROVE  /\ [i \in DOMAIN q |-> q[i] + k] \in Seq(Nat)
         /\ Shifts([i \in DOMAIN q |-> q[i] + k], q, k)
<1>1. PICK N \in Nat : N = Len(q)
  OBVIOUS
<1>2. DOMAIN q = 1 .. N /\ \A i \in 1 .. N : q[i] \in Nat
  BY <1>1
<1>3. PICK r : r = [i \in 1 .. N |-> q[i] + k]
  OBVIOUS
<1>4. r \in Seq(Nat) /\ Len(r) = N
  BY <1>2, <1>3
<1>5. \A i \in 1 .. N : r[i] = q[i] + k
  BY <1>3
<1>6. QED
  BY <1>1, <1>2, <1>3, <1>4, <1>5 DEF Shifts

\* A text that is put before.
LEMMA AfterTypes ==
  ASSUME NEW t \in Seq(Punctuation), NEW k \in Nat, Len(t) = k, NEW x, NEW n \in Nat, Typed(x, n)
  PROVE  /\ Typed(After(t, x), k + n)
         /\ Concats(After(t, x).text, t, x.text) /\ After(t, x).rows = x.rows
         /\ Shifts(After(t, x).starts, x.starts, k)
<1>1. PICK y : y = After(t, x)
  OBVIOUS
<1>2. PICK v \in Seq(Punctuation), q \in Seq(Nat) : v = x.text /\ q = x.starts
  BY DEF Typed
<1>3. PICK r : r = [i \in DOMAIN q |-> q[i] + k]
  OBVIOUS
<1>4. y.text = t \o v /\ y.rows = x.rows /\ y.starts = r
  BY <1>1, <1>2, <1>3 DEF After
<1>5. r \in Seq(Nat) /\ Shifts(r, q, k)
  BY <1>3, ShiftedSeq
<1>6. t \o v \in Seq(Punctuation) /\ Len(t \o v) = k + n
  BY <1>2, JoinedText DEF Typed
<1>7. Typed(y, k + n)
  BY <1>2, <1>4, <1>5, <1>6 DEF Typed, Shifts
<1>8. QED
  BY <1>1, <1>2, <1>4, <1>5, <1>7 DEF Concats

\* A value that is put before a sequence.
LEMMA Prepended ==
  ASSUME NEW T, NEW a \in T, NEW q \in Seq(T), NEW N \in Nat, Len(q) = N
  PROVE  /\ <<a>> \o q \in Seq(T) /\ Len(<<a>> \o q) = 1 + N
         /\ (<<a>> \o q)[1] = a /\ IsTail(q, <<a>> \o q, 1)
<1>1. <<a>> \in Seq(T) /\ Len(<<a>>) = 1 /\ <<a>>[1] = a
  OBVIOUS
<1>2. PICK p \in Seq(T) : p = <<a>> /\ Len(p) = 1 /\ p[1] = a
  BY <1>1
<1>3. PICK r : r = p \o q
  OBVIOUS
<1>4. r \in Seq(T) /\ Len(r) = 1 + N /\ r[1] = a
  BY <1>2, <1>3
<1>5. \A i \in 1 .. N : r[1 + i] = q[i]
  BY <1>2, <1>3
<1>6. IsTail(q, r, 1)
  BY <1>4, <1>5 DEF IsTail
<1>7. QED
  BY <1>2, <1>3, <1>4, <1>6

\* The same for offsets.
LEMMA PrependedNumber ==
  ASSUME NEW a \in Nat, NEW q \in Seq(Nat), NEW N \in Nat, Len(q) = N
  PROVE  \E z \in Seq(Nat) : z = <<a>> \o q /\ Len(z) = 1 + N /\ z[1] = a /\ IsTail(q, z, 1)
<1>1. PICK T : T = Nat
  OBVIOUS
<1>2. PICK b \in T : b = a
  BY <1>1
<1>3. q \in Seq(T)
  BY <1>1
<1>4. PICK z : z = <<b>> \o q
  OBVIOUS
<1>5. z \in Seq(T) /\ Len(z) = 1 + N /\ z[1] = b /\ IsTail(q, z, 1)
  BY <1>2, <1>3, <1>4, Prepended
<1>6. QED
  BY <1>1, <1>2, <1>4, <1>5

\* A row that is put before.
LEMMA WithRowTypes ==
  ASSUME NEW o \in Seq(Punctuation), NEW k \in Nat, Len(o) = k, NEW x, NEW n \in Nat, Typed(x, n)
  PROVE  /\ Typed(WithRow(o, x), k + n)
         /\ Concats(WithRow(o, x).text, o, x.text)
         /\ WithRow(o, x).rows[1] = o /\ IsTail(x.rows, WithRow(o, x).rows, 1)
         /\ WithRow(o, x).starts[1] = 0
         /\ \E q \in Seq(Nat) : Shifts(q, x.starts, k) /\ IsTail(q, WithRow(o, x).starts, 1)
<1>1. PICK y, z : y = After(o, x) /\ z = WithRow(o, x)
  OBVIOUS
<1>2. /\ z.text = y.text /\ z.rows = <<o>> \o y.rows /\ z.starts = <<0>> \o y.starts
  BY <1>1 DEF WithRow
<1>3. /\ Typed(y, k + n) /\ Concats(y.text, o, x.text) /\ y.rows = x.rows
      /\ Shifts(y.starts, x.starts, k)
  BY <1>1, AfterTypes
<1>4. PICK N \in Nat, q \in Seq(Nat), r \in Seq(Seq(Punctuation)) :
        /\ q = y.starts /\ Len(q) = N /\ r = y.rows /\ Len(r) = N
  BY <1>3 DEF Typed
<1>5. PICK zero \in Nat : zero = 0
  OBVIOUS
<1>6. z.starts = <<zero>> \o q
  BY <1>2, <1>4, <1>5
<1>7. /\ z.starts \in Seq(Nat) /\ Len(z.starts) = 1 + N
      /\ z.starts[1] = zero /\ IsTail(q, z.starts, 1)
  <2>1. PICK g \in Seq(Nat) : g = <<zero>> \o q /\ Len(g) = 1 + N /\ g[1] = zero /\ IsTail(q, g, 1)
    BY <1>4, PrependedNumber
  <2>2. QED
    BY <1>6, <2>1
<1>8. /\ z.rows \in Seq(Seq(Punctuation)) /\ Len(z.rows) = 1 + N
      /\ z.rows[1] = o /\ IsTail(r, z.rows, 1)
  BY <1>2, <1>4, Prepended
<1>9. Typed(z, k + n)
  BY <1>2, <1>3, <1>7, <1>8 DEF Typed
<1>10. Shifts(q, x.starts, k)
  BY <1>3, <1>4
<1>11. QED
  BY <1>1, <1>2, <1>3, <1>4, <1>7, <1>8, <1>9, <1>10, <1>5

\* Where rows come from, and how they are made.
LEMMA RowParts ==
  ASSUME NEW n, NEW g, NEW y \in Row(n, g)
  PROVE  \E k \in 2 .. n : \E o \in Objects(k), z \in g[n - k] : y = WithRow(o, z)
BY DEF Row

\* A row and what follows.
LEMMA RowMakes ==
  ASSUME NEW n, NEW g, NEW k \in 2 .. n, NEW o \in Objects(k), NEW z \in g[n - k]
  PROVE  WithRow(o, z) \in Row(n, g)
BY DEF Row

\* The parts of what is put after a byte.
LEMMA SkipParts ==
  ASSUME NEW c, NEW S, NEW y \in Skip(c, S)
  PROVE  c \in Characters /\ \E z \in S : y = After(<<c>>, z)
<1>1. PICK t \in Chars({c}), z \in S : y = After(t, z)
  BY DEF Skip
<1>2. PICK x \in {c} : x \in Characters /\ t = <<x>>
  BY CharsParts
<1>3. QED
  BY <1>1, <1>2

\* What is put after a byte.
LEMMA SkipMakes ==
  ASSUME NEW c \in Characters, NEW S, NEW z \in S
  PROVE  After(<<c>>, z) \in Skip(c, S)
<1>1. PICK T : T = {c}
  OBVIOUS
<1>2. <<c>> \in Chars(T)
  BY <1>1, CharsMake
<1>3. QED
  BY <1>1, <1>2 DEF Skip

\* A stream of rows.
LEMMA StreamParts ==
  ASSUME NEW n \in 0 .. LongestFile, NEW x \in Streams[n]
  PROVE  \/ n = 0 /\ x = Text(<<>>)
         \/ n # 0 /\ x \in Skip(" ", Streams[n - 1])
         \/ n # 0 /\ x \in Row(n, Streams)
<1>1. x \in StreamsOf(Streams, n)
  BY StreamsUnfold
<1>2. QED
  BY <1>1 DEF StreamsOf

\* The streams there are.
LEMMA StreamMakes ==
  ASSUME NEW n \in 0 .. LongestFile
  PROVE  /\ n = 0 => Text(<<>>) \in Streams[n]
         /\ n # 0 => Skip(" ", Streams[n - 1]) \subseteq Streams[n] /\ Row(n, Streams) \subseteq Streams[n]
<1>1. Streams[n] = StreamsOf(Streams, n)
  BY StreamsUnfold
<1>2. QED
  BY <1>1 DEF StreamsOf

\* A text with no rows.
LEMMA TextTypes ==
  ASSUME NEW t \in Seq(Punctuation), NEW n, Len(t) = n
  PROVE  /\ Typed(Text(t), n) /\ Text(t).text = t /\ Text(t).rows = <<>> /\ Text(t).starts = <<>>
<1>1. <<>> \in Seq(Seq(Punctuation)) /\ <<>> \in Seq(Nat)
  OBVIOUS
<1>2. QED
  BY <1>1 DEF Typed, Text

\* The bytes between rows.
LEMMA SpaceTypes == " " \in Punctuation /\ "," \in Punctuation /\ "[" \in Punctuation
                    /\ "]" \in Punctuation /\ "{" \in Punctuation
BY DEF Punctuation

\* The type of a stream.
LEMMA StreamTypes == \A n \in 0 .. LongestFile : \A x \in Streams[n] : Typed(x, n)
<1>1. PICK N \in Nat : N = LongestFile
  BY LongestNat
<1> DEFINE K == {n \in Nat : n <= N /\ ~\A x \in Streams[n] : Typed(x, n)}
<1>2. SUFFICES ASSUME K # {} PROVE FALSE
  BY <1>1
<1>3. PICK m \in K : \A j \in K : m <= j
  <2>1. K \subseteq Nat
    OBVIOUS
  <2> HIDE DEF K
  <2>2. QED
    BY <1>2, <2>1, LeastExists
<1>4. m \in Nat /\ m <= N /\ ~\A x \in Streams[m] : Typed(x, m)
  OBVIOUS
<1>5. ASSUME NEW l \in Nat, l < m PROVE \A x \in Streams[l] : Typed(x, l)
  <2>1. l \notin K /\ l <= N
    <3>1. ~(m <= l) /\ l <= N
      BY <1>4, <1>5
    <3> HIDE DEF K
    <3>2. QED
      BY <1>3, <3>1
  <2>2. QED
    BY <2>1
<1> HIDE DEF K
<1>6. PICK x \in Streams[m] : ~Typed(x, m)
  BY <1>4
<1>7. m \in 0 .. LongestFile
  BY <1>1, <1>4
<1>8. CASE m = 0 /\ x = Text(<<>>)
  <2>1. PICK e \in Seq(Punctuation) : e = <<>> /\ Len(e) = 0
    BY NothingIsText
  <2>2. Typed(Text(e), 0)
    BY <2>1, TextTypes
  <2>3. QED
    BY <1>6, <1>8, <2>1, <2>2
<1>9. ASSUME m # 0, NEW c \in Punctuation, x \in Skip(c, Streams[m - 1]) PROVE FALSE
  <2>1. PICK z \in Streams[m - 1] : x = After(<<c>>, z)
    BY <1>9, SkipParts
  <2>2. m - 1 \in Nat /\ m - 1 < m /\ 1 + (m - 1) = m
    BY <1>4, <1>9
  <2>3. Typed(z, m - 1)
    BY <1>5, <2>2
  <2>4. PICK t \in Seq(Punctuation), k \in Nat : t = <<c>> /\ k = 1 /\ Len(t) = k
    BY <1>9, OneByte
  <2>5. Typed(After(t, z), k + (m - 1))
    BY <2>2, <2>3, <2>4, AfterTypes
  <2>6. QED
    BY <1>6, <2>1, <2>2, <2>4, <2>5
<1>10. ASSUME m # 0, x \in Row(m, Streams) PROVE FALSE
  <2>1. PICK k \in 2 .. m : \E o \in Objects(k), z \in Streams[m - k] : x = WithRow(o, z)
    BY <1>10, RowParts
  <2>2. PICK o \in Objects(k), z \in Streams[m - k] : x = WithRow(o, z)
    BY <2>1
  <2>3. k \in 2 .. LongestFile /\ k \in Nat /\ m - k \in Nat /\ m - k < m /\ k + (m - k) = m
    BY <1>1, <1>4
  <2>4. o \in Seq(Punctuation) /\ Len(o) = k
    BY <2>3, ObjectTypes
  <2>5. Typed(z, m - k)
    BY <1>5, <2>3
  <2>6. Typed(WithRow(o, z), k + (m - k))
    BY <2>3, <2>4, <2>5, WithRowTypes
  <2>7. QED
    BY <1>6, <2>2, <2>3, <2>6
<1>11. QED
  BY <1>6, <1>7, <1>8, <1>9, <1>10, StreamParts, SpaceTypes

\* The filter comes to the end of the array over w, and has kept v.
Ends(s, w, v) ==
  \E r \in Filter : /\ Filtered(s, w)[Len(w)] = r
                    /\ r.finished /\ ~r.bad /\ r.array_started
                    /\ v \in Seq(Punctuation) /\ Concats(r.out, s.out, v)

\* Three texts join from either end.
LEMMA JoinedTwice ==
  ASSUME NEW x \in Seq(Punctuation), NEW a \in Seq(Punctuation), NEW b \in Seq(Punctuation),
         NEW y, NEW z, NEW c, Concats(y, x, a), Concats(z, y, b), Concats(c, a, b)
  PROVE  Concats(z, x, c)
BY DEF Concats

\* The type of two texts in one.
LEMMA JoinedTypes ==
  ASSUME NEW u \in Seq(Punctuation), NEW v \in Seq(Punctuation), NEW w, Concats(w, u, v),
         NEW n \in Nat, Len(u) = n, NEW m \in Nat, Len(v) = m
  PROVE  w \in Seq(Punctuation) /\ Len(w) = n + m
BY SMTT(30) DEF Concats

\* The filter comes to the end over a text and what follows.
LEMMA EndsJoin ==
  ASSUME NEW s \in Filter, NEW u \in Seq(Punctuation), NEW v \in Seq(Punctuation),
         NEW w \in Seq(Punctuation), Concats(w, u, v), NEW n \in Nat, Len(u) = n,
         NEW r \in Filter, Filtered(s, u)[n] = r,
         NEW a \in Seq(Punctuation), Concats(r.out, s.out, a),
         NEW b, Ends(r, v, b), NEW c, Concats(c, a, b)
  PROVE  Ends(s, w, c)
<1>1. PICK m \in Nat : m = Len(v)
  OBVIOUS
<1>2. PICK t \in Filter : /\ Filtered(r, v)[m] = t
                          /\ t.finished /\ ~t.bad /\ t.array_started
                          /\ b \in Seq(Punctuation) /\ Concats(t.out, r.out, b)
  BY <1>1 DEF Ends
<1>3. Filtered(s, w)[n + m] = t
  <2>1. m \in 0 .. m
    OBVIOUS
  <2>2. \A j \in 0 .. m : Filtered(s, w)[n + j] = Filtered(r, v)[j]
    BY <1>1, FilteredTwo
  <2>3. QED
    BY <1>2, <2>1, <2>2
<1>4. Len(w) = n + m
  BY <1>1, JoinedTypes
<1>5. s.out \in Seq(Punctuation)
  BY DEF Filter
<1>6. Concats(t.out, s.out, c)
  BY <1>2, <1>5, JoinedTwice
<1>7. c \in Seq(Punctuation)
  BY <1>2, JoinedText DEF Concats
<1>8. QED
  BY <1>2, <1>3, <1>4, <1>6, <1>7 DEF Ends

\* The filter delivers the rows of y as a stream.
Delivers(y, n, st, e, h) ==
  \A s : Stands(s, st, e, h) =>
    \E m \in 0 .. n : \E x \in Streams[m] : x.rows = y.rows /\ Ends(s, y.text, x.text)

\* The same when nothing has been kept yet.
LEMMA EndsLater ==
  ASSUME NEW s \in Filter, NEW u \in Seq(Punctuation), NEW v \in Seq(Punctuation),
         NEW w \in Seq(Punctuation), Concats(w, u, v), NEW n \in Nat, Len(u) = n,
         NEW r \in Filter, Filtered(s, u)[n] = r, r.out = s.out,
         NEW b, Ends(r, v, b)
  PROVE  Ends(s, w, b)
<1>1. PICK m \in Nat : m = Len(v)
  OBVIOUS
<1>2. PICK t \in Filter : /\ Filtered(r, v)[m] = t
                          /\ t.finished /\ ~t.bad /\ t.array_started
                          /\ b \in Seq(Punctuation) /\ Concats(t.out, r.out, b)
  BY <1>1 DEF Ends
<1>3. Filtered(s, w)[n + m] = t
  <2>1. m \in 0 .. m
    OBVIOUS
  <2>2. \A j \in 0 .. m : Filtered(s, w)[n + j] = Filtered(r, v)[j]
    BY <1>1, FilteredTwo
  <2>3. QED
    BY <1>2, <2>1, <2>2
<1>4. Len(w) = n + m
  BY <1>1, JoinedTypes
<1>5. QED
  BY <1>2, <1>3, <1>4 DEF Ends

\* A space before it.
LEMMA SpaceDelivers ==
  ASSUME NEW n \in Nat, n + 1 <= LongestFile, NEW y, Typed(y, n), NEW st, NEW e, NEW h,
         st = TRUE \/ (st = FALSE /\ e = FALSE /\ h = FALSE),
         NEW c \in Punctuation, IsSpace(c), c \in Characters, Delivers(y, n, st, e, h)
  PROVE  Delivers(After(<<c>>, y), n + 1, st, e, h)
<1>1. PICK z : z = After(<<c>>, y)
  OBVIOUS
<1>2. PICK t \in Seq(Punctuation), i \in Nat : t = <<c>> /\ Len(t) = i /\ i = 1 /\ t[i] = c
  BY OneByte
<1>3. Concats(z.text, t, y.text) /\ z.rows = y.rows /\ Typed(z, i + n)
  BY <1>1, <1>2, AfterTypes
<1>4. z.text \in Seq(Punctuation) /\ y.text \in Seq(Punctuation)
  BY <1>3 DEF Typed
<1>5. SUFFICES ASSUME NEW s, Stands(s, st, e, h)
               PROVE  \E m \in 0 .. n + 1 : \E x \in Streams[m] : x.rows = z.rows /\ Ends(s, z.text, x.text)
  BY <1>1 DEF Delivers
<1>6. s \in Filter /\ s.out \in Seq(Punctuation)
  BY <1>5 DEF Stands, Filter
<1>7. PICK f \in Filter : f = FilterByte(s, c)
  BY <1>6, FilterByteTypes
<1>8. Filtered(s, t)[i] = f
  BY <1>2, <1>6, <1>7, FilteredByte
<1>9. CASE st = TRUE
  <2>1. f = Kept(s, t)
    BY <1>2, <1>5, <1>7, <1>9, RowBytes DEF IsSpace
  <2>2. Stands(f, st, e, h)
    BY <1>5, <2>1, <1>2, StandsKept
  <2>3. PICK m \in 0 .. n : \E x \in Streams[m] : x.rows = y.rows /\ Ends(f, y.text, x.text)
    BY <2>2 DEF Delivers
  <2>4. PICK x \in Streams[m] : x.rows = y.rows /\ Ends(f, y.text, x.text)
    BY <2>3
  <2>5. PICK g : g = After(t, x)
    OBVIOUS
  <2>6. Concats(g.text, t, x.text) /\ g.rows = x.rows
    BY <2>5 DEF After, Concats
  <2>7. Concats(f.out, s.out, t)
    BY <1>6, <2>1 DEF Kept, Concats, Filter
  <2>8. Ends(s, z.text, g.text)
    BY <1>2, <1>3, <1>4, <1>6, <1>8, <2>4, <2>6, <2>7, EndsJoin
  <2>9. m + 1 \in 0 .. LongestFile /\ m + 1 # 0 /\ (m + 1) - 1 = m /\ m + 1 \in 0 .. n + 1
    BY LongestNat
  <2>10. g \in Streams[m + 1]
    <3>1. g \in Skip(c, Streams[m])
      BY <1>2, <2>4, <2>5, SkipMakes
    <3>2. QED
      BY <2>9, <3>1, StreamMakes DEF IsSpace
  <2>11. QED
    BY <1>3, <2>4, <2>6, <2>8, <2>9, <2>10
<1>10. CASE st = FALSE
  <2>1. f = s
    BY <1>5, <1>7, <1>10, LeadByte DEF IsSpace
  <2>2. PICK m \in 0 .. n : \E x \in Streams[m] : x.rows = y.rows /\ Ends(s, y.text, x.text)
    BY <1>5 DEF Delivers
  <2>3. PICK x \in Streams[m] : x.rows = y.rows /\ Ends(s, y.text, x.text)
    BY <2>2
  <2>4. f.out = s.out /\ Ends(f, y.text, x.text)
    BY <2>1, <2>3
  <2>5. t \in Seq(Punctuation) /\ Len(t) = i
    BY <1>2
  <2>6. Concats(z.text, t, y.text)
    BY <1>3
  <2>7. Ends(s, z.text, x.text)
    BY <1>4, <1>6, <1>7, <1>8, <2>4, <2>5, <2>6, EndsLater
  <2>8. m \in 0 .. n + 1
    OBVIOUS
  <2>9. QED
    BY <1>3, <2>3, <2>7, <2>8
<1>11. QED
  BY <1>9, <1>10

\* A comma or the bracket of the array before it.
Turns(c, ot, oe, oh, st, e, h) ==
  \A s : Stands(s, ot, oe, oh) => \E r : /\ r = FilterByte(s, c) /\ Stands(r, st, e, h)
                                         /\ r.out = s.out

\* What it delivers is the same.
LEMMA PassDelivers ==
  ASSUME NEW n \in Nat, NEW y, Typed(y, n), NEW st, NEW e, NEW h, NEW c \in Punctuation,
         NEW ot, NEW oe, NEW oh, Turns(c, ot, oe, oh, st, e, h), Delivers(y, n, st, e, h)
  PROVE  Delivers(After(<<c>>, y), n + 1, ot, oe, oh)
<1>1. PICK z : z = After(<<c>>, y)
  OBVIOUS
<1>2. PICK t \in Seq(Punctuation), i \in Nat : t = <<c>> /\ Len(t) = i /\ i = 1
  BY OneByte
<1>3. Concats(z.text, t, y.text) /\ z.rows = y.rows /\ Typed(z, i + n)
  BY <1>1, <1>2, AfterTypes
<1>4. z.text \in Seq(Punctuation) /\ y.text \in Seq(Punctuation)
  BY <1>3 DEF Typed
<1>5. SUFFICES ASSUME NEW a, Stands(a, ot, oe, oh)
               PROVE  \E m \in 0 .. n + 1 : \E x \in Streams[m] : x.rows = z.rows /\ Ends(a, z.text, x.text)
  BY <1>1 DEF Delivers
<1>6. a \in Filter /\ a.out \in Seq(Punctuation)
  BY <1>5 DEF Stands, Filter
<1>7. PICK f : f = FilterByte(a, c) /\ Stands(f, st, e, h) /\ f.out = a.out
  BY <1>5 DEF Turns
<1>8. Filtered(a, t)[i] = f
  BY <1>2, <1>6, <1>7, FilteredByte
<1>9. f \in Filter
  BY <1>7 DEF Stands
<1>10. PICK m \in 0 .. n : \E x \in Streams[m] : x.rows = y.rows /\ Ends(f, y.text, x.text)
  BY <1>7 DEF Delivers
<1>11. PICK x \in Streams[m] : x.rows = y.rows /\ Ends(f, y.text, x.text)
  BY <1>10
<1>12. f.out = a.out
  BY <1>7
<1>13. Ends(f, y.text, x.text)
  BY <1>11
<1>14. t \in Seq(Punctuation) /\ Len(t) = i
  BY <1>2
<1>15. Concats(z.text, t, y.text)
  BY <1>3
<1>16. Ends(a, z.text, x.text)
  BY <1>4, <1>6, <1>8, <1>9, <1>12, <1>13, <1>14, <1>15, EndsLater
<1>17. m \in 0 .. n + 1
  OBVIOUS
<1>18. QED
  BY <1>3, <1>11, <1>16, <1>17

\* A row before it.
LEMMA RowDelivers ==
  ASSUME NEW k \in 2 .. LongestFile, NEW o \in Objects(k), NEW n \in Nat, k + n <= LongestFile,
         NEW y, Typed(y, n), Delivers(y, n, TRUE, FALSE, TRUE), NEW h
  PROVE  Delivers(WithRow(o, y), k + n, TRUE, TRUE, h)
<1>1. PICK z : z = WithRow(o, y)
  OBVIOUS
<1>2. k \in Nat /\ o \in Seq(Punctuation) /\ Len(o) = k
  BY ObjectTypes
<1>3. Concats(z.text, o, y.text) /\ z.text \in Seq(Punctuation) /\ y.text \in Seq(Punctuation)
  BY <1>1, <1>2, WithRowTypes DEF Typed
<1>4. SUFFICES ASSUME NEW s, Stands(s, TRUE, TRUE, h)
               PROVE  \E m \in 0 .. k + n : \E x \in Streams[m] : x.rows = z.rows /\ Ends(s, z.text, x.text)
  BY <1>1 DEF Delivers
<1>5. s \in Filter /\ s.out \in Seq(Punctuation)
  BY <1>4 DEF Stands, Filter
<1>6. PICK f : f = RowDone(s, o) /\ Filtered(s, o)[k] = f
  BY <1>4, ObjectFiltered
<1>7. Stands(f, TRUE, FALSE, TRUE) /\ Concats(f.out, s.out, o) /\ f \in Filter
  <2>1. Stands(f, TRUE, FALSE, TRUE) /\ f.out = s.out \o o
    BY <1>2, <1>4, <1>6, RowDoneStands
  <2>2. QED
    BY <2>1 DEF Concats, Stands
<1>8. PICK m \in 0 .. n : \E x \in Streams[m] : x.rows = y.rows /\ Ends(f, y.text, x.text)
  BY <1>7 DEF Delivers
<1>9. PICK x \in Streams[m] : x.rows = y.rows /\ Ends(f, y.text, x.text)
  BY <1>8
<1>10. PICK g : g = WithRow(o, x)
  OBVIOUS
<1>11. Concats(g.text, o, x.text)
  BY <1>10 DEF WithRow, After, Concats
<1>12. g.rows = z.rows
  BY <1>1, <1>9, <1>10 DEF WithRow, After
<1>13. Ends(s, z.text, g.text)
  BY <1>2, <1>3, <1>5, <1>6, <1>7, <1>9, <1>11, EndsJoin
<1>14. PICK j \in Nat : j = k + m
  BY <1>2
<1>15. j \in 0 .. LongestFile /\ j # 0 /\ j - k = m /\ j \in 0 .. k + n /\ k \in 2 .. j
  BY <1>2, <1>14, LongestNat
<1>16. g \in Row(j, Streams)
  BY <1>9, <1>10, <1>15, RowMakes
<1>17. g \in Streams[j]
  BY <1>15, <1>16, StreamMakes
<1>18. QED
  BY <1>12, <1>13, <1>15, <1>17

\* The bracket that ends the array, and white space.
ClosedOff(w, n) == /\ w \in Seq(Punctuation) /\ Len(w) = n
                   /\ w[1] = "]" /\ Blank(w, 1, n - 1)

\* White space.
LEMMA SpacesParts ==
  ASSUME NEW m \in Nat, NEW v \in Spaces(m)
  PROVE  v \in Seq(Punctuation) /\ Len(v) = m /\ \A i \in 1 .. m : IsSpace(v[i])
<1>1. PICK c \in Punctuation : c = " "
  BY SpaceTypes
<1>2. v = [i \in 1 .. m |-> c]
  BY <1>1 DEF Spaces
<1>3. v \in Seq(Punctuation) /\ Len(v) = m /\ \A i \in 1 .. m : v[i] = c
  BY <1>2
<1>4. QED
  BY <1>1, <1>3 DEF IsSpace

\* What white space is.
LEMMA SpacesMake ==
  ASSUME NEW m \in Nat, NEW v, v \in Seq(Characters), Len(v) = m, \A i \in 1 .. m : IsSpace(v[i])
  PROVE  v \in Spaces(m)
<1>1. v = [i \in 1 .. m |-> v[i]]
  OBVIOUS
<1>2. [i \in 1 .. m |-> v[i]] = [i \in 1 .. m |-> " "]
  BY DEF IsSpace
<1>3. m = 0 \/ " " \in Characters
  <2>1. ASSUME m # 0 PROVE " " \in Characters
    <3>1. 1 \in 1 .. m
      BY <2>1
    <3>2. v[1] \in Characters /\ IsSpace(v[1])
      BY <3>1
    <3>3. QED
      BY <3>2 DEF IsSpace
  <2>2. QED
    BY <2>1
<1>4. QED
  BY <1>1, <1>2, <1>3 DEF Spaces

\* The parts of the end of an array.
LEMMA ClosedParts ==
  ASSUME NEW n \in Nat, n # 0, NEW y \in Closed(n)
  PROVE  \E w : y = Text(w) /\ ClosedOff(w, n)
<1>1. PICK c \in Punctuation : c = "]"
  BY SpaceTypes
<1>2. PICK v \in Spaces(n - 1) : y = Text(<<c>> \o v)
  BY <1>1 DEF Closed
<1>3. PICK m \in Nat : m = n - 1 /\ n = m + 1
  OBVIOUS
<1>4. v \in Seq(Punctuation) /\ Len(v) = m /\ \A i \in 1 .. m : IsSpace(v[i])
  BY <1>2, <1>3, SpacesParts
<1>5. PICK w : w = <<c>> \o v
  OBVIOUS
<1>6. w \in Seq(Punctuation) /\ Len(w) = 1 + m /\ w[1] = c /\ IsTail(v, w, 1)
  BY <1>4, <1>5, Prepended
<1>7. Blank(w, 1, m)
  BY <1>4, <1>6 DEF Blank, IsTail
<1>8. ClosedOff(w, n)
  BY <1>1, <1>3, <1>6, <1>7 DEF ClosedOff
<1>9. QED
  BY <1>2, <1>5, <1>8

\* The filter after the bracket.
AtEnd(s) == [s EXCEPT !.finished = TRUE]

\* The array may end: no value is expected, or none was seen.
MayEnd(e, h) == ~e \/ ~h

\* The bracket ends the array.
LEMMA CloseByte ==
  ASSUME NEW s, NEW e, NEW h, Stands(s, TRUE, e, h), NEW x \in Punctuation, x = "]", MayEnd(e, h)
  PROVE  FilterByte(s, x) = AtEnd(s)
<1>1. /\ s \in Filter /\ s.finished = FALSE /\ s.bad = FALSE /\ s.depth = 0
      /\ s.in_string = FALSE /\ s.started = TRUE /\ s.array_started = TRUE
      /\ s.expect_value = e /\ s.has_value = h /\ e \in BOOLEAN /\ h \in BOOLEAN
  BY StandsTypes
<1>2. FilterByte(s, x) = RowByte(s, x)
  BY <1>1 DEF FilterByte, AfterStart
<1>3. RowByte(s, x) = [s EXCEPT !.finished = TRUE]
  BY <1>1 DEF RowByte, MayEnd
<1>4. QED
  BY <1>2, <1>3 DEF AtEnd

\* It ends the array where it may end.
LEMMA ClosedDelivers ==
  ASSUME NEW n \in Nat, n # 0, NEW w, ClosedOff(w, n), NEW e, NEW h, MayEnd(e, h)
  PROVE  Delivers(Text(w), n, TRUE, e, h)
<1>1. PICK y : y = Text(w)
  OBVIOUS
<1>2. /\ w \in Seq(Punctuation) /\ y.text = w /\ Len(w) = n /\ w[1] = "]"
  BY <1>1 DEF ClosedOff, Text
<1>3. PICK m \in Nat, i \in Nat : n = i + m /\ i = 1 /\ m = n - 1 /\ i \in 1 .. n /\ i <= n
  OBVIOUS
<1>4. Blank(w, i, m)
  BY <1>3 DEF ClosedOff
<1>5. SUFFICES ASSUME NEW s, Stands(s, TRUE, e, h)
               PROVE  \E k \in 0 .. n : \E x \in Streams[k] : x.rows = y.rows /\ Ends(s, y.text, x.text)
  BY <1>1 DEF Delivers
<1>6. s \in Filter /\ Proper(s) /\ s.out \in Seq(Punctuation) /\ s.bad = FALSE /\ s.array_started = TRUE
  BY <1>5 DEF Stands, Filter, Proper
<1>7. PICK c \in Punctuation : c = w[i]
  BY <1>2, <1>3
<1>8. FilterByte(s, c) = AtEnd(s)
  <2>1. c = "]"
    BY <1>2, <1>3, <1>7
  <2>2. QED
    BY <1>5, <2>1, CloseByte
<1>9. PICK f : f = FilterByte(s, c)
  OBVIOUS
<1>10. f \in Filter /\ f.finished /\ ~f.bad /\ f.array_started /\ f.out = s.out
  BY <1>6, <1>8, <1>9 DEF Filter, AtEnd
<1>11. Filtered(s, w)[i] = f
  <2>1. Filtered(s, w)[0] = s /\ Filtered(s, w)[1] = FilterByte(Filtered(s, w)[0], w[1])
    BY <1>2, <1>3, <1>6, FilteredStep
  <2>2. QED
    BY <1>3, <1>7, <1>9, <2>1
<1>12. Filtered(s, w)[i + m] = f
  BY <1>2, <1>3, <1>4, <1>6, <1>10, <1>11, Trailing
<1>13. PICK o \in Seq(Punctuation) : o = <<>>
  BY NothingIsText
<1>14. Concats(f.out, s.out, o)
  BY <1>6, <1>10, <1>13 DEF Concats
<1>15. Ends(s, w, o)
  BY <1>2, <1>3, <1>10, <1>12, <1>14 DEF Ends
<1>16. PICK k \in 0 .. LongestFile : k = 0
  BY LongestNat
<1>17. k \in 0 .. n
  BY <1>16
<1>18. PICK x : x = Text(o) /\ x \in Streams[k]
  BY <1>13, <1>16, StreamMakes
<1>19. x.rows = y.rows /\ x.text = o
  BY <1>1, <1>18 DEF Text
<1>20. QED
  BY <1>2, <1>15, <1>18, <1>19, <1>17

\* Starts that follow others, d bytes later.
Followed(a, q, d, b) ==
  /\ Len(b) = Len(a) + Len(q)
  /\ \A i \in 1 .. Len(a) : b[i] = a[i]
  /\ \A i \in 1 .. Len(q) : b[Len(a) + i] = q[i] + d

\* The scan finds the starts of y.
Found(y, n) ==
  \A s : AtScan(s) =>
    \E r : /\ Goes(s, y.text, r) /\ AtScan(r) /\ r.offset = s.offset + n
           /\ Followed(s.starts, y.starts, s.offset, r.starts)

\* The type of the scan between the rows.
LEMMA ScanParts ==
  ASSUME NEW s, AtScan(s)
  PROVE  s \in Scan /\ s.offset \in Nat /\ s.starts \in Seq(Nat)
BY DEF AtScan, Scan

\* Starts that have moved follow at an earlier place.
LEMMA FollowedLater ==
  ASSUME NEW a \in Seq(Nat), NEW q \in Seq(Nat), NEW p \in Seq(Nat), NEW b, NEW d \in Nat, NEW k \in Nat,
         Shifts(p, q, k), Followed(a, q, d + k, b)
  PROVE  Followed(a, p, d, b)
<1>1. PICK A \in Nat, N \in Nat : A = Len(a) /\ N = Len(q) /\ N = Len(p)
  BY DEF Shifts
<1>2. Len(b) = A + N /\ \A i \in 1 .. A : b[i] = a[i]
  BY <1>1 DEF Followed
<1>3. ASSUME NEW i \in 1 .. N PROVE b[A + i] = p[i] + d
  <2>1. b[A + i] = q[i] + (d + k)
    BY <1>1, <1>3 DEF Followed
  <2>2. p[i] = q[i] + k /\ q[i] \in Nat
    BY <1>1, <1>3 DEF Shifts
  <2>3. QED
    BY <2>1, <2>2
<1>4. QED
  BY <1>1, <1>2, <1>3 DEF Followed

\* A byte between the rows before it.
Passed(c) == c \in {" ", ",", "["}

\* The scan finds the same starts.
LEMMA ByteFound ==
  ASSUME NEW n \in Nat, NEW y, Typed(y, n), Found(y, n), NEW c, Passed(c)
  PROVE  Found(After(<<c>>, y), n + 1)
<1>1. PICK z : z = After(<<c>>, y)
  OBVIOUS
<1>2. c \in Punctuation
  BY SpaceTypes DEF Passed
<1>3. PICK t \in Seq(Punctuation), i \in Nat : t = <<c>> /\ Len(t) = i /\ i = 1
  BY <1>2, OneByte
<1>4. Concats(z.text, t, y.text) /\ Shifts(z.starts, y.starts, i) /\ Typed(z, i + n)
  BY <1>1, <1>3, AfterTypes
<1>5. y.starts \in Seq(Nat) /\ z.starts \in Seq(Nat)
  BY <1>4 DEF Typed
<1>6. SUFFICES ASSUME NEW s, AtScan(s)
               PROVE  \E r : /\ Goes(s, z.text, r) /\ AtScan(r) /\ r.offset = s.offset + (n + 1)
                             /\ Followed(s.starts, z.starts, s.offset, r.starts)
  BY <1>1 DEF Found
<1>7. s \in Scan /\ s.offset \in Nat /\ s.starts \in Seq(Nat)
  BY <1>6, ScanParts
<1>8. PICK f : f = Moved(s, i)
  OBVIOUS
<1>9. AtScan(f) /\ f.offset = s.offset + i /\ f.starts = s.starts
  BY <1>6, <1>7, <1>8, AtScanMoved, MovedTypes
<1>10. Goes(s, t, f)
  <2>1. ScanByte(s, c) = f
    BY <1>3, <1>6, <1>8, AtScanByte DEF Passed
  <2>2. QED
    BY <1>2, <1>3, <1>7, <2>1, GoesByte
<1>11. PICK r : /\ Goes(f, y.text, r) /\ AtScan(r) /\ r.offset = f.offset + n
                /\ Followed(f.starts, y.starts, f.offset, r.starts)
  BY <1>9 DEF Found
<1>12. Goes(s, z.text, r)
  <2>1. Goes(s, t \o y.text, r)
    BY <1>7, <1>10, <1>11, GoesJoin
  <2>2. QED
    BY <1>4, <2>1 DEF Concats
<1>13. r.offset = s.offset + (n + 1)
  <2>1. PICK g \in Nat : g = s.offset
    BY <1>7
  <2>2. f.offset = g + i
    BY <1>9, <2>1
  <2>3. r.offset = (g + i) + n
    BY <1>11, <2>2
  <2>4. (g + i) + n = g + (n + 1)
    BY <1>3
  <2>5. QED
    BY <2>1, <2>3, <2>4
<1>14. Followed(s.starts, y.starts, s.offset + i, r.starts)
  BY <1>9, <1>11
<1>15. Followed(s.starts, z.starts, s.offset, r.starts)
  BY <1>4, <1>5, <1>7, <1>14, FollowedLater
<1>16. QED
  BY <1>11, <1>12, <1>13, <1>15

\* Offsets are numbers.
LEMMA NumbersIn ==
  ASSUME NEW q \in Seq(Nat), NEW N, N = Len(q)
  PROVE  \A i \in 1 .. N : q[i] \in Nat
OBVIOUS

\* The start of a row and those that follow.
LEMMA FollowedRow ==
  ASSUME NEW a \in Seq(Nat), NEW q \in Seq(Nat), NEW p \in Seq(Nat), NEW g \in Seq(Nat), NEW b,
         NEW d \in Nat, NEW k \in Nat, NEW c, c = Append(a, d),
         Len(p) = 1 + Len(q), p[1] = 0, Shifts(g, q, k), IsTail(g, p, 1), Followed(c, q, d + k, b)
  PROVE  Followed(a, p, d, b)
<1>1. PICK A \in Nat, N \in Nat : A = Len(a) /\ N = Len(q) /\ N = Len(g) /\ Len(p) = N + 1
  BY DEF Shifts
<1>2. Len(c) = A + 1 /\ c[A + 1] = d /\ \A i \in 1 .. A : c[i] = a[i]
  BY <1>1
<1>3. /\ Len(b) = (A + 1) + N
      /\ \A i \in 1 .. A + 1 : b[i] = c[i]
      /\ \A i \in 1 .. N : b[(A + 1) + i] = q[i] + (d + k)
  BY <1>1, <1>2 DEF Followed
<1>4. \A i \in 1 .. N : q[i] \in Nat /\ g[i] = q[i] + k /\ p[1 + i] = g[i]
  <2>1. \A i \in 1 .. N : q[i] \in Nat
    BY <1>1, NumbersIn
  <2>2. \A i \in 1 .. N : g[i] = q[i] + k
    BY <1>1 DEF Shifts
  <2>3. \A i \in 1 .. N : p[1 + i] = g[i]
    BY <1>1 DEF IsTail
  <2>4. QED
    BY <2>1, <2>2, <2>3
<1>5. ASSUME NEW i \in 1 .. A PROVE b[i] = a[i]
  <2>1. i \in 1 .. A + 1
    BY <1>1
  <2>2. b[i] = c[i] /\ c[i] = a[i]
    BY <1>2, <1>3, <2>1
  <2>3. QED
    BY <2>2
<1>6. ASSUME NEW i \in 1 .. N + 1 PROVE b[A + i] = p[i] + d
  <2>1. CASE i = 1
    <3>1. A + i \in 1 .. A + 1 /\ A + i = A + 1
      BY <1>1, <2>1
    <3>2. b[A + i] = d
      BY <1>2, <1>3, <3>1
    <3>3. QED
      BY <2>1, <3>2
  <2>2. CASE i # 1
    <3>1. PICK j \in 1 .. N : i = 1 + j
      <4>1. i - 1 \in 1 .. N /\ i = 1 + (i - 1)
        BY <1>1, <1>6, <2>2
      <4>2. QED
        BY <4>1
    <3>2. (A + 1) + j = A + i
      BY <1>1, <3>1
    <3>3. b[A + i] = q[j] + (d + k)
      BY <1>3, <3>1, <3>2
    <3>4. p[i] = q[j] + k /\ q[j] \in Nat
      BY <1>4, <3>1
    <3>5. QED
      BY <3>3, <3>4
  <2>3. QED
    BY <2>1, <2>2
<1>7. Len(b) = A + (N + 1)
  BY <1>1, <1>3
<1>8. QED
  BY <1>1, <1>5, <1>6, <1>7 DEF Followed

\* A row before it.
LEMMA RowFound ==
  ASSUME NEW k \in 2 .. LongestFile, NEW o \in Objects(k), NEW n \in Nat,
         NEW y, Typed(y, n), Found(y, n)
  PROVE  Found(WithRow(o, y), k + n)
<1>1. PICK z : z = WithRow(o, y)
  OBVIOUS
<1>2. k \in Nat /\ o \in Seq(Punctuation) /\ Len(o) = k
  BY ObjectTypes
<1>3. /\ Concats(z.text, o, y.text) /\ Typed(z, k + n) /\ z.starts[1] = 0
      /\ \E g \in Seq(Nat) : Shifts(g, y.starts, k) /\ IsTail(g, z.starts, 1)
  BY <1>1, <1>2, WithRowTypes
<1>4. PICK g \in Seq(Nat) : Shifts(g, y.starts, k) /\ IsTail(g, z.starts, 1)
  BY <1>3
<1>5. y.starts \in Seq(Nat) /\ z.starts \in Seq(Nat)
  BY <1>3 DEF Typed
<1>6. Len(z.starts) = 1 + Len(y.starts)
  BY <1>4 DEF Shifts, IsTail
<1>7. SUFFICES ASSUME NEW s, AtScan(s)
               PROVE  \E r : /\ Goes(s, z.text, r) /\ AtScan(r) /\ r.offset = s.offset + (k + n)
                             /\ Followed(s.starts, z.starts, s.offset, r.starts)
  BY <1>1 DEF Found
<1>8. s \in Scan /\ s.offset \in Nat /\ s.starts \in Seq(Nat)
  BY <1>7, ScanParts
<1>9. PICK f : /\ Goes(s, o, f) /\ AtScan(f) /\ f.offset = s.offset + k
               /\ f.starts = Append(s.starts, s.offset)
  BY <1>7, ObjectScanned
<1>10. PICK r : /\ Goes(f, y.text, r) /\ AtScan(r) /\ r.offset = f.offset + n
                /\ Followed(f.starts, y.starts, f.offset, r.starts)
  BY <1>9 DEF Found
<1>11. Goes(s, z.text, r)
  <2>1. Goes(s, o \o y.text, r)
    BY <1>8, <1>9, <1>10, GoesJoin
  <2>2. QED
    BY <1>3, <2>1 DEF Concats
<1>12. PICK d \in Nat : d = s.offset
  BY <1>8
<1>13. r.offset = d + (k + n)
  BY <1>2, <1>9, <1>10, <1>12
<1>14. PICK c : c = f.starts
  OBVIOUS
<1>15. c = Append(s.starts, d) /\ Followed(c, y.starts, d + k, r.starts)
  BY <1>9, <1>10, <1>12, <1>14
<1>16. Followed(s.starts, z.starts, d, r.starts)
  BY <1>2, <1>3, <1>4, <1>5, <1>6, <1>8, <1>12, <1>15, FollowedRow
<1>17. QED
  BY <1>10, <1>11, <1>12, <1>13, <1>16

\* The bracket that ends the array: no row starts there.
LEMMA ClosedFound ==
  ASSUME NEW n \in Nat, n # 0, NEW w, ClosedOff(w, n)
  PROVE  Found(Text(w), n)
<1>1. w \in Seq(Punctuation) /\ Len(w) = n
  BY DEF ClosedOff
<1>2. ASSUME NEW i \in 1 .. n PROVE w[i] = " " \/ w[i] = "]"
  <2>1. CASE i = 1
    BY <2>1 DEF ClosedOff
  <2>2. CASE i # 1
    <3>1. PICK j \in 1 .. n - 1 : i = 1 + j
      <4>1. i - 1 \in 1 .. n - 1 /\ i = 1 + (i - 1)
        BY <1>2, <2>2
      <4>2. QED
        BY <4>1
    <3>2. IsSpace(w[1 + j])
      BY <3>1 DEF ClosedOff, Blank
    <3>3. QED
      BY <3>1, <3>2 DEF IsSpace
  <2>3. QED
    BY <2>1, <2>2
<1>3. SUFFICES ASSUME NEW s, AtScan(s)
               PROVE  \E r : /\ Goes(s, w, r) /\ AtScan(r) /\ r.offset = s.offset + n
                             /\ Followed(s.starts, <<>>, s.offset, r.starts)
  BY DEF Found, Text
<1>4. s \in Scan /\ s.offset \in Nat /\ s.starts \in Seq(Nat)
  BY <1>3, ScanParts
<1>5. PICK g : g = Scanned(s, w)
  OBVIOUS
<1>6. g[0] = s /\ \A i \in 1 .. n : g[i] = ScanByte(g[i - 1], w[i])
  BY <1>1, <1>4, <1>5, ScannedStep
<1> DEFINE K == {i \in Nat : i <= n /\ g[i] # Moved(s, i)}
<1>7. K = {}
  <2>1. SUFFICES ASSUME K # {} PROVE FALSE
    OBVIOUS
  <2>2. PICK m \in K : \A j \in K : m <= j
    <3>1. K \subseteq Nat
      OBVIOUS
    <3> HIDE DEF K
    <3>2. QED
      BY <2>1, <3>1, LeastExists
  <2>3. m \in Nat /\ m <= n /\ g[m] # Moved(s, m)
    OBVIOUS
  <2>4. m # 0
    BY <1>4, <1>6, <2>3, MovedNowhere
  <2>5. PICK l \in Nat : m = l + 1 /\ l = m - 1 /\ l <= n /\ ~(m <= l) /\ m \in 1 .. n
    BY <2>3, <2>4
  <2>6. g[l] = Moved(s, l)
    <3>1. l \notin K
      <4> HIDE DEF K
      <4>1. QED
        BY <2>2, <2>5
    <3>2. QED
      BY <2>5, <3>1
  <2>7. PICK i \in Nat : i = 1
    OBVIOUS
  <2>8. ScanByte(Moved(s, l), w[m]) = Moved(Moved(s, l), 1)
    <3>1. AtScan(Moved(s, l))
      BY <1>3, <2>5, AtScanMoved
    <3>2. PICK x : x = w[m] /\ (x = " " \/ x = "]")
      BY <1>2, <2>5
    <3>3. x \in {" ", ",", "[", "]"}
      BY <3>2
    <3>4. QED
      BY <3>1, <3>2, <3>3, AtScanByte
  <2>9. Moved(Moved(s, l), i) = Moved(s, l + i)
    BY <1>4, <2>5, <2>7, MovedJoin
  <2>10. g[m] = ScanByte(g[m - 1], w[m])
    BY <1>6, <2>5
  <2>11. QED
    BY <2>3, <2>5, <2>6, <2>7, <2>8, <2>9, <2>10
<1>8. PICK r : r = Moved(s, n)
  OBVIOUS
<1>9. g[n] = r
  <2>1. n \notin K /\ n <= n
    <3> HIDE DEF K
    <3>1. QED
      BY <1>7
  <2>2. QED
    BY <1>8, <2>1
<1>10. AtScan(r) /\ r.offset = s.offset + n /\ r.starts = s.starts /\ r \in Scan
  BY <1>3, <1>4, <1>8, AtScanMoved, MovedTypes
<1>11. Goes(s, w, r)
  BY <1>1, <1>5, <1>9, <1>10 DEF Goes
<1>12. Followed(s.starts, <<>>, s.offset, r.starts)
  <2>1. PICK a \in Seq(Nat) : a = s.starts
    BY <1>4
  <2>2. PICK e \in Seq(Nat) : e = <<>> /\ Len(e) = 0
    BY NothingIsText
  <2>3. PICK N \in Nat : N = Len(a)
    OBVIOUS
  <2>4. Len(a) = Len(a) + Len(e)
    BY <2>2, <2>3
  <2>5. Followed(a, e, s.offset, a)
    BY <2>2, <2>4 DEF Followed
  <2>6. QED
    BY <1>10, <2>1, <2>2, <2>5
<1>13. QED
  BY <1>10, <1>11, <1>12

\* The end of an end.
LEMMA TailOfTail ==
  ASSUME NEW S, NEW v \in Seq(S), NEW t \in Seq(S), NEW w \in Seq(S), NEW p \in Nat, NEW q \in Nat,
         IsTail(v, t, p), IsTail(t, w, q)
  PROVE  IsTail(v, w, p + q)
<1>1. PICK N \in Nat, T \in Nat, W \in Nat : N = Len(v) /\ T = Len(t) /\ W = Len(w)
  OBVIOUS
<1>2. p + N = T /\ q + T = W /\ (p + q) + N = W
  BY <1>1 DEF IsTail
<1>3. \A i \in 1 .. N : v[i] = t[p + i]
  BY <1>1 DEF IsTail
<1>4. \A i \in 1 .. T : t[i] = w[q + i]
  BY <1>1 DEF IsTail
<1>5. ASSUME NEW i \in 1 .. N PROVE v[i] = w[(p + q) + i]
  <2>1. p + i \in 1 .. T /\ q + (p + i) = (p + q) + i
    BY <1>2
  <2>2. QED
    BY <1>3, <1>4, <2>1
<1>6. QED
  BY <1>1, <1>2, <1>5 DEF IsTail

\* The second of two texts in one is its end.
LEMMA JoinedTail ==
  ASSUME NEW u \in Seq(Punctuation), NEW v \in Seq(Punctuation), NEW w, Concats(w, u, v),
         NEW k \in Nat, Len(u) = k
  PROVE  IsTail(v, w, k)
<1>1. PICK N \in Nat : N = Len(v)
  OBVIOUS
<1>2. w \in Seq(Punctuation) /\ Len(w) = k + N
  BY <1>1, JoinedTypes
<1>3. \A i \in 1 .. N : w[k + i] = v[i]
  <2>1. \A i \in 1 .. N : (u \o v)[k + i] = v[i]
    BY <1>1, JoinedText
  <2>2. QED
    BY <2>1 DEF Concats
<1>4. QED
  BY <1>1, <1>2, <1>3 DEF IsTail

\* All is an end.
LEMMA TailOfSelf ==
  ASSUME NEW S, NEW w \in Seq(S)
  PROVE  IsTail(w, w, 0)
<1>1. PICK N \in Nat : N = Len(w)
  OBVIOUS
<1>2. 0 + N = N /\ \A i \in 1 .. N : 0 + i = i
  OBVIOUS
<1>3. QED
  BY <1>1, <1>2 DEF IsTail

\* From each row on, y is what may follow the opening bracket.
RestsAt(y, n, k, p) ==
  \E m \in 0 .. n : \E z \in Tails[m].open :
    p + m = n /\ IsTail(z.text, y.text, p) /\ IsTail(z.rows, y.rows, k - 1)
        /\ z.text \in Seq(Punctuation) /\ z.rows \in Seq(Seq(Punctuation))

\* The same for each row.
Rests(y, n) == \A k \in 1 .. Len(y.starts) : RestsAt(y, n, k, y.starts[k])

\* A byte before it.
LEMMA ByteRests ==
  ASSUME NEW n \in Nat, NEW y, Typed(y, n), Rests(y, n), NEW c \in Punctuation
  PROVE  Rests(After(<<c>>, y), n + 1)
<1>1. PICK x : x = After(<<c>>, y)
  OBVIOUS
<1>2. PICK t \in Seq(Punctuation), i \in Nat : t = <<c>> /\ Len(t) = i /\ i = 1
  BY OneByte
<1>3. Concats(x.text, t, y.text) /\ Shifts(x.starts, y.starts, i) /\ Typed(x, i + n) /\ x.rows = y.rows
  BY <1>1, <1>2, AfterTypes
<1>4. PICK N \in Nat : N = Len(y.starts) /\ N = Len(x.starts)
  BY <1>3 DEF Typed, Shifts
<1>5. SUFFICES ASSUME NEW k \in 1 .. N PROVE RestsAt(x, n + 1, k, x.starts[k])
  BY <1>1, <1>4 DEF Rests
<1>6. PICK p \in Nat : p = y.starts[k]
  <2>1. y.starts \in Seq(Nat)
    BY DEF Typed
  <2>2. QED
    BY <1>4, <1>5, <2>1, NumbersIn
<1>7. PICK q \in Nat : q = p + i
  OBVIOUS
<1>8. q = x.starts[k]
  BY <1>3, <1>4, <1>5, <1>6, <1>7 DEF Shifts
<1>9. RestsAt(y, n, k, p)
  BY <1>4, <1>5, <1>6 DEF Rests
<1>10. PICK m \in 0 .. n : \E z \in Tails[m].open :
        p + m = n /\ IsTail(z.text, y.text, p) /\ IsTail(z.rows, y.rows, k - 1)
          /\ z.text \in Seq(Punctuation) /\ z.rows \in Seq(Seq(Punctuation))
  BY <1>9 DEF RestsAt
<1>11. PICK z \in Tails[m].open :
        p + m = n /\ IsTail(z.text, y.text, p) /\ IsTail(z.rows, y.rows, k - 1)
          /\ z.text \in Seq(Punctuation) /\ z.rows \in Seq(Seq(Punctuation))
  BY <1>10
<1>12. IsTail(y.text, x.text, i)
  <2>1. y.text \in Seq(Punctuation)
    BY DEF Typed
  <2>2. QED
    BY <1>2, <1>3, <2>1, JoinedTail
<1>13. IsTail(z.text, x.text, q)
  <2>1. y.text \in Seq(Punctuation) /\ x.text \in Seq(Punctuation)
    BY <1>3 DEF Typed
  <2>2. IsTail(z.text, x.text, p + i)
    BY <1>11, <1>12, <2>1, TailOfTail
  <2>3. QED
    BY <1>7, <2>2
<1>14. m \in 0 .. n + 1 /\ q + m = n + 1
  <2>1. p + m = n /\ i = 1
    BY <1>2, <1>11
  <2>2. QED
    BY <1>7, <2>1
<1>15. RestsAt(x, n + 1, k, q)
  BY <1>3, <1>11, <1>13, <1>14 DEF RestsAt
<1>16. QED
  BY <1>8, <1>15

\* A row before it.
LEMMA RowRests ==
  ASSUME NEW k \in 2 .. LongestFile, NEW o \in Objects(k), NEW n \in Nat,
         NEW y, Typed(y, n), Rests(y, n), WithRow(o, y) \in Tails[k + n].open
  PROVE  Rests(WithRow(o, y), k + n)
<1>1. PICK x : x = WithRow(o, y)
  OBVIOUS
<1>2. k \in Nat /\ o \in Seq(Punctuation) /\ Len(o) = k
  BY ObjectTypes
<1>3. /\ Concats(x.text, o, y.text) /\ Typed(x, k + n) /\ x.starts[1] = 0 /\ IsTail(y.rows, x.rows, 1)
      /\ \E g \in Seq(Nat) : Shifts(g, y.starts, k) /\ IsTail(g, x.starts, 1)
  BY <1>1, <1>2, WithRowTypes
<1>4. PICK g \in Seq(Nat) : Shifts(g, y.starts, k) /\ IsTail(g, x.starts, 1)
  BY <1>3
<1>5. /\ y.text \in Seq(Punctuation) /\ x.text \in Seq(Punctuation)
      /\ y.rows \in Seq(Seq(Punctuation)) /\ x.rows \in Seq(Seq(Punctuation))
      /\ y.starts \in Seq(Nat)
  BY <1>3 DEF Typed
<1>6. PICK N \in Nat : N = Len(g)
  OBVIOUS
<1>7. N = Len(y.starts) /\ N = Len(g) /\ 1 + N = Len(x.starts)
  BY <1>4, <1>6 DEF Shifts, IsTail
<1>8. SUFFICES ASSUME NEW j \in 1 .. 1 + N PROVE RestsAt(x, k + n, j, x.starts[j])
  BY <1>1, <1>7 DEF Rests
<1>9. PICK M \in Nat : M = k + n
  BY <1>2
<1>10. CASE j = 1
  <2>1. PICK i \in Nat : i = 0
    OBVIOUS
  <2>2. IsTail(x.text, x.text, i) /\ IsTail(x.rows, x.rows, i)
    BY <1>5, <2>1, TailOfSelf
  <2>3. M \in 0 .. M /\ i + M = M /\ j - 1 = i
    BY <1>10, <2>1
  <2>4. x \in Tails[M].open
    BY <1>1, <1>9
  <2>5. RestsAt(x, M, j, i)
    BY <1>5, <2>2, <2>3, <2>4 DEF RestsAt
  <2>6. x.starts[j] = i
    BY <1>3, <1>10, <2>1
  <2>7. QED
    BY <1>9, <2>5, <2>6
<1>11. CASE j # 1
  <2>1. PICK l \in 1 .. N : j = 1 + l /\ j - 1 = l
    <3>1. j - 1 \in 1 .. N /\ j = 1 + (j - 1)
      BY <1>7, <1>8, <1>11
    <3>2. QED
      BY <3>1
  <2>2. PICK p \in Nat : p = y.starts[l]
    BY <1>7, <1>5, <2>1, NumbersIn
  <2>3. x.starts[j] = g[l]
    BY <1>4, <1>7, <2>1 DEF IsTail
  <2>4. g[l] = p + k
    BY <1>4, <1>7, <2>1, <2>2 DEF Shifts
  <2>5. RestsAt(y, n, l, p)
    BY <1>7, <2>1, <2>2 DEF Rests
  <2>6. PICK m \in 0 .. n : \E z \in Tails[m].open :
          p + m = n /\ IsTail(z.text, y.text, p) /\ IsTail(z.rows, y.rows, l - 1)
            /\ z.text \in Seq(Punctuation) /\ z.rows \in Seq(Seq(Punctuation))
    BY <2>5 DEF RestsAt
  <2>7. PICK z \in Tails[m].open :
          p + m = n /\ IsTail(z.text, y.text, p) /\ IsTail(z.rows, y.rows, l - 1)
            /\ z.text \in Seq(Punctuation) /\ z.rows \in Seq(Seq(Punctuation))
    BY <2>6
  <2>8. IsTail(y.text, x.text, k)
    BY <1>2, <1>3, <1>5, JoinedTail
  <2>9. PICK q \in Nat : q = p + k
    BY <1>2
  <2>10. IsTail(z.text, x.text, q)
    <3>1. IsTail(z.text, x.text, p + k)
      BY <1>2, <1>5, <2>7, <2>8, TailOfTail
    <3>2. QED
      BY <2>9, <3>1
  <2>11. PICK r \in Nat, i \in Nat : r = l - 1 /\ i = 1 /\ r + i = l
    BY <2>1
  <2>12. IsTail(z.rows, x.rows, l)
    <3>1. IsTail(z.rows, y.rows, r) /\ IsTail(y.rows, x.rows, i)
      BY <1>3, <2>7, <2>11
    <3>2. IsTail(z.rows, x.rows, r + i)
      BY <1>5, <2>7, <3>1, TailOfTail
    <3>3. QED
      BY <2>11, <3>2
  <2>13. m \in 0 .. M /\ q + m = M
    BY <1>2, <1>9, <2>7, <2>9
  <2>14. IsTail(z.rows, x.rows, j - 1)
    BY <2>1, <2>12
  <2>15. RestsAt(x, M, j, q)
    BY <2>7, <2>10, <2>13, <2>14 DEF RestsAt
  <2>16. QED
    BY <1>9, <2>3, <2>4, <2>9, <2>15
<1>12. QED
  BY <1>10, <1>11

\* A text of which the filter delivers the rows, in which the scan finds the starts, and
\* which can be read from each of them.
Good(y, n, st, e, h) == Typed(y, n) /\ Delivers(y, n, st, e, h) /\ Found(y, n) /\ Rests(y, n)

\* White space before it.
LEMMA SpaceGood ==
  ASSUME NEW n \in Nat, n + 1 <= LongestFile, NEW y, NEW st, NEW e, NEW h, Good(y, n, st, e, h),
         st = TRUE \/ (st = FALSE /\ e = FALSE /\ h = FALSE),
         NEW c \in Punctuation, IsSpace(c), c \in Characters
  PROVE  Good(After(<<c>>, y), n + 1, st, e, h)
<1>1. Typed(y, n) /\ Delivers(y, n, st, e, h) /\ Found(y, n) /\ Rests(y, n)
  BY DEF Good
<1>2. PICK t \in Seq(Punctuation), i \in Nat : t = <<c>> /\ Len(t) = i /\ i = 1
  BY OneByte
<1>3. Typed(After(<<c>>, y), n + 1)
  <2>1. Typed(After(t, y), i + n)
    BY <1>1, <1>2, AfterTypes
  <2>2. i + n = n + 1
    BY <1>2
  <2>3. QED
    BY <1>2, <2>1, <2>2
<1>4. Delivers(After(<<c>>, y), n + 1, st, e, h)
  BY <1>1, SpaceDelivers
<1>5. Found(After(<<c>>, y), n + 1)
  <2>1. Passed(c)
    BY DEF Passed, IsSpace
  <2>2. QED
    BY <1>1, <2>1, ByteFound
<1>6. Rests(After(<<c>>, y), n + 1)
  BY <1>1, ByteRests
<1>7. QED
  BY <1>3, <1>4, <1>5, <1>6 DEF Good

\* Another byte before it.
LEMMA PassGood ==
  ASSUME NEW n \in Nat, NEW y, NEW st, NEW e, NEW h, Good(y, n, st, e, h),
         NEW c \in Punctuation, Passed(c), NEW ot, NEW oe, NEW oh, Turns(c, ot, oe, oh, st, e, h)
  PROVE  Good(After(<<c>>, y), n + 1, ot, oe, oh)
<1>1. Typed(y, n) /\ Delivers(y, n, st, e, h) /\ Found(y, n) /\ Rests(y, n)
  BY DEF Good
<1>2. PICK t \in Seq(Punctuation), i \in Nat : t = <<c>> /\ Len(t) = i /\ i = 1
  BY OneByte
<1>3. Typed(After(<<c>>, y), n + 1)
  <2>1. Typed(After(t, y), i + n)
    BY <1>1, <1>2, AfterTypes
  <2>2. i + n = n + 1
    BY <1>2
  <2>3. QED
    BY <1>2, <2>1, <2>2
<1>4. Delivers(After(<<c>>, y), n + 1, ot, oe, oh)
  BY <1>1, PassDelivers
<1>5. Found(After(<<c>>, y), n + 1)
  BY <1>1, ByteFound
<1>6. Rests(After(<<c>>, y), n + 1)
  BY <1>1, ByteRests
<1>7. QED
  BY <1>3, <1>4, <1>5, <1>6 DEF Good

\* What a comma and the bracket of the array do.
LEMMA CommaTurns ==
  /\ Turns(",", TRUE, FALSE, TRUE, TRUE, TRUE, TRUE)
  /\ Turns("[", FALSE, FALSE, FALSE, TRUE, TRUE, FALSE)
<1>1. PICK c \in Punctuation, b \in Punctuation : c = "," /\ b = "["
  BY SpaceTypes
<1>2. Turns(c, TRUE, FALSE, TRUE, TRUE, TRUE, TRUE)
  <2>1. SUFFICES ASSUME NEW s, Stands(s, TRUE, FALSE, TRUE)
                 PROVE  \E r : /\ r = FilterByte(s, c) /\ Stands(r, TRUE, TRUE, TRUE)
                               /\ r.out = s.out
    BY DEF Turns
  <2>2. PICK r : r = [s EXCEPT !.expect_value = TRUE]
    OBVIOUS
  <2>3. FilterByte(s, c) = r
    BY <1>1, <2>1, <2>2, RowBytes
  <2>4. Stands(r, TRUE, TRUE, TRUE)
    BY <2>1, <2>2, StandsComma
  <2>5. r.out = s.out
    BY <2>1, <2>2 DEF Stands, Filter
  <2>6. QED
    BY <2>3, <2>4, <2>5
<1>3. Turns(b, FALSE, FALSE, FALSE, TRUE, TRUE, FALSE)
  BY <1>1, LeadByte DEF Turns
<1>4. QED
  BY <1>1, <1>2, <1>3

\* A row before it.
LEMMA RowGood ==
  ASSUME NEW k \in 2 .. LongestFile, NEW o \in Objects(k), NEW n \in Nat, k + n <= LongestFile,
         NEW y, Good(y, n, TRUE, FALSE, TRUE), WithRow(o, y) \in Tails[k + n].open, NEW h
  PROVE  Good(WithRow(o, y), k + n, TRUE, TRUE, h)
<1>1. Typed(y, n) /\ Delivers(y, n, TRUE, FALSE, TRUE) /\ Found(y, n) /\ Rests(y, n)
  BY DEF Good
<1>2. k \in Nat /\ o \in Seq(Punctuation) /\ Len(o) = k
  BY ObjectTypes
<1>3. Typed(WithRow(o, y), k + n)
  BY <1>1, <1>2, WithRowTypes
<1>4. Delivers(WithRow(o, y), k + n, TRUE, TRUE, h)
  BY <1>1, RowDelivers
<1>5. Found(WithRow(o, y), k + n)
  BY <1>1, RowFound
<1>6. Rests(WithRow(o, y), k + n)
  BY <1>1, RowRests
<1>7. QED
  BY <1>3, <1>4, <1>5, <1>6 DEF Good

\* The end of the array.
LEMMA ClosedGood ==
  ASSUME NEW n \in Nat, n # 0, NEW y \in Closed(n), NEW e, NEW h, MayEnd(e, h)
  PROVE  Good(y, n, TRUE, e, h)
<1>1. PICK w : y = Text(w) /\ ClosedOff(w, n)
  BY ClosedParts
<1>2. w \in Seq(Punctuation) /\ Len(w) = n
  BY <1>1 DEF ClosedOff
<1>3. Typed(y, n) /\ y.starts = <<>>
  BY <1>1, <1>2, TextTypes
<1>4. Delivers(y, n, TRUE, e, h)
  BY <1>1, ClosedDelivers
<1>5. Found(y, n)
  BY <1>1, ClosedFound
<1>6. Rests(y, n)
  <2>1. PICK N \in Nat : N = Len(y.starts) /\ 1 .. N = {}
    BY <1>3
  <2>2. QED
    BY <2>1 DEF Rests
<1>7. QED
  BY <1>3, <1>4, <1>5, <1>6 DEF Good

\* The parts of what follows.
RowTexts(n) == Row(n, [m \in 0 .. n - 1 |-> Tails[m].row])
RowTails(n) == Closed(n) \cup Skip(" ", Tails[n - 1].row) \cup Skip(",", Tails[n - 1].comma)
CommaTails(n) == RowTexts(n) \cup Skip(" ", Tails[n - 1].comma)
OpenTails(n) == Closed(n) \cup RowTexts(n) \cup Skip(" ", Tails[n - 1].open)

\* They are what is said of them.
LEMMA TailParts ==
  ASSUME NEW n \in 0 .. LongestFile
  PROVE  IF n = 0 THEN Tails[n].row = {} /\ Tails[n].comma = {} /\ Tails[n].open = {}
         ELSE /\ Tails[n].row = RowTails(n) /\ Tails[n].comma = CommaTails(n)
              /\ Tails[n].open = OpenTails(n)
<1>1. Tails[n] = TailsOf(Tails, n)
  BY TailsUnfold
<1>2. CASE n = 0
  BY <1>1, <1>2 DEF TailsOf
<1>3. CASE n # 0
  <2>1. Tails[n] = [row |-> RowTails(n), comma |-> CommaTails(n), open |-> OpenTails(n)]
    BY <1>1, <1>3 DEF TailsOf, RowTails, CommaTails, OpenTails, RowTexts
  <2>2. QED
    BY <1>3, <2>1
<1>4. QED
  BY <1>2, <1>3

\* All of a family are good.
AllGood(S, n, st, e, h) == \A y \in S : Good(y, n, st, e, h)

\* White space before them.
LEMMA SkipsGood ==
  ASSUME NEW n \in Nat, n + 1 <= LongestFile, NEW S, NEW st, NEW e, NEW h, AllGood(S, n, st, e, h),
         st = TRUE \/ (st = FALSE /\ e = FALSE /\ h = FALSE)
  PROVE  AllGood(Skip(" ", S), n + 1, st, e, h)
<1>1. PICK c \in Punctuation : IsSpace(c)
  BY SpaceTypes DEF IsSpace
<1>2. ASSUME NEW y \in Skip(c, S) PROVE Good(y, n + 1, st, e, h)
  <2>1. c \in Characters /\ \E z \in S : y = After(<<c>>, z)
    BY <1>2, SkipParts
  <2>2. PICK z \in S : y = After(<<c>>, z)
    BY <2>1
  <2>3. Good(z, n, st, e, h)
    BY <2>2 DEF AllGood
  <2>4. Good(After(<<c>>, z), n + 1, st, e, h)
    BY <1>1, <2>1, <2>3, SpaceGood
  <2>5. QED
    BY <2>2, <2>4
<1>3. QED
  BY <1>1, <1>2 DEF AllGood, IsSpace

\* Another byte before them.
LEMMA PassesGood ==
  ASSUME NEW n \in Nat, NEW S, NEW st, NEW e, NEW h, AllGood(S, n, st, e, h),
         NEW c \in Punctuation, Passed(c), NEW ot, NEW oe, NEW oh, Turns(c, ot, oe, oh, st, e, h)
  PROVE  AllGood(Skip(c, S), n + 1, ot, oe, oh)
<1>1. ASSUME NEW y \in Skip(c, S) PROVE Good(y, n + 1, ot, oe, oh)
  <2>1. PICK z \in S : y = After(<<c>>, z)
    BY <1>1, SkipParts
  <2>2. Good(z, n, st, e, h)
    BY <2>1 DEF AllGood
  <2>3. Good(After(<<c>>, z), n + 1, ot, oe, oh)
    BY <2>2, PassGood
  <2>4. QED
    BY <2>1, <2>3
<1>2. QED
  BY <1>1 DEF AllGood

\* The ends of the array.
LEMMA ClosedAllGood ==
  ASSUME NEW n \in Nat, n # 0, NEW e, NEW h, MayEnd(e, h)
  PROVE  AllGood(Closed(n), n, TRUE, e, h)
BY ClosedGood DEF AllGood

\* A row and what may follow it.
LEMMA RowsAtParts ==
  ASSUME NEW n \in Nat, NEW y \in RowTexts(n)
  PROVE  \E k \in 2 .. n : \E o \in Objects(k), z \in Tails[n - k].row : y = WithRow(o, z)
<1>1. PICK g : g = [m \in 0 .. n - 1 |-> Tails[m].row]
  OBVIOUS
<1>2. PICK k \in 2 .. n : \E o \in Objects(k), z \in g[n - k] : y = WithRow(o, z)
  BY <1>1, RowParts DEF RowTexts
<1>3. n - k \in 0 .. n - 1
  OBVIOUS
<1>4. g[n - k] = Tails[n - k].row
  BY <1>1, <1>3
<1>5. QED
  BY <1>2, <1>4

\* A row makes one.
LEMMA RowsAtMake ==
  ASSUME NEW n \in Nat, NEW k \in 2 .. n, NEW o \in Objects(k), NEW z \in Tails[n - k].row
  PROVE  WithRow(o, z) \in RowTexts(n)
<1>1. PICK g : g = [m \in 0 .. n - 1 |-> Tails[m].row]
  OBVIOUS
<1>2. n - k \in 0 .. n - 1
  OBVIOUS
<1>3. g[n - k] = Tails[n - k].row
  BY <1>1, <1>2
<1>4. QED
  BY <1>1, <1>3, RowMakes DEF RowTexts

\* Rows before them.
LEMMA RowsAllGood ==
  ASSUME NEW n \in Nat, n <= LongestFile,
         \A m \in Nat : m < n => AllGood(Tails[m].row, m, TRUE, FALSE, TRUE), NEW h
  PROVE  AllGood(RowTexts(n), n, TRUE, TRUE, h)
<1>1. ASSUME NEW y \in RowTexts(n) PROVE Good(y, n, TRUE, TRUE, h)
  <2>1. PICK k \in 2 .. n : \E o \in Objects(k), z \in Tails[n - k].row : y = WithRow(o, z)
    BY <1>1, RowsAtParts
  <2>2. PICK o \in Objects(k), z \in Tails[n - k].row : y = WithRow(o, z)
    BY <2>1
  <2>3. PICK m \in Nat : m = n - k /\ m < n /\ k + m = n /\ k + m <= LongestFile
    OBVIOUS
  <2>4. k \in 2 .. LongestFile /\ n \in 0 .. LongestFile /\ n # 0
    BY LongestNat
  <2>5. Good(z, m, TRUE, FALSE, TRUE)
    BY <2>2, <2>3 DEF AllGood
  <2>6. WithRow(o, z) \in Tails[k + m].open
    <3>1. WithRow(o, z) \in RowTexts(n)
      BY <2>2, RowsAtMake
    <3>2. WithRow(o, z) \in Tails[n].open
      BY <2>4, <3>1, TailParts DEF OpenTails
    <3>3. QED
      BY <2>3, <3>2
  <2>7. Good(WithRow(o, z), k + m, TRUE, TRUE, h)
    BY <2>2, <2>3, <2>4, <2>5, <2>6, RowGood
  <2>8. QED
    BY <2>2, <2>3, <2>7
<1>2. QED
  BY <1>1 DEF AllGood

\* All that follows is good.
TailsGood(n) == /\ AllGood(Tails[n].row, n, TRUE, FALSE, TRUE)
                /\ AllGood(Tails[n].comma, n, TRUE, TRUE, TRUE)
                /\ AllGood(Tails[n].open, n, TRUE, TRUE, FALSE)

\* Whatever follows is good.
LEMMA TailsAreGood == \A n \in 0 .. LongestFile : TailsGood(n)
<1>1. PICK N \in Nat : N = LongestFile
  BY LongestNat
<1> DEFINE K == {n \in Nat : n <= N /\ ~TailsGood(n)}
<1>2. SUFFICES ASSUME K # {} PROVE FALSE
  BY <1>1
<1>3. PICK m \in K : \A j \in K : m <= j
  <2>1. K \subseteq Nat
    OBVIOUS
  <2> HIDE DEF K
  <2>2. QED
    BY <1>2, <2>1, LeastExists
<1>4. m \in Nat /\ m <= N /\ ~TailsGood(m)
  OBVIOUS
<1>5. ASSUME NEW l \in Nat, l < m PROVE TailsGood(l)
  <2>1. l \notin K /\ l <= N
    <3>1. ~(m <= l) /\ l <= N
      BY <1>4, <1>5
    <3> HIDE DEF K
    <3>2. QED
      BY <1>3, <3>1
  <2>2. QED
    BY <2>1
<1> HIDE DEF K
<1>6. m \in 0 .. LongestFile /\ m <= LongestFile
  BY <1>1, <1>4
<1>7. CASE m = 0
  <2>1. Tails[m].row = {} /\ Tails[m].comma = {} /\ Tails[m].open = {}
    BY <1>6, <1>7, TailParts
  <2>2. QED
    BY <1>4, <2>1 DEF TailsGood, AllGood
<1>8. CASE m # 0
  <2>1. PICK l \in Nat : l = m - 1 /\ l < m /\ l + 1 = m /\ l + 1 <= LongestFile
    BY <1>1, <1>4, <1>8
  <2>2. TailsGood(l)
    BY <1>5, <2>1
  <2>3. /\ Tails[m].row = RowTails(m) /\ Tails[m].comma = CommaTails(m)
        /\ Tails[m].open = OpenTails(m)
    BY <1>6, <1>8, TailParts
  <2>4. MayEnd(FALSE, TRUE) /\ MayEnd(TRUE, FALSE)
    BY DEF MayEnd
  <2>5. /\ AllGood(Closed(m), m, TRUE, FALSE, TRUE) /\ AllGood(Closed(m), m, TRUE, TRUE, FALSE)
    BY <1>4, <1>8, <2>4, ClosedAllGood
  <2>6. \A h : AllGood(RowTexts(m), m, TRUE, TRUE, h)
    <3>1. \A i \in Nat : i < m => AllGood(Tails[i].row, i, TRUE, FALSE, TRUE)
      BY <1>5 DEF TailsGood
    <3>2. QED
      BY <1>4, <1>6, <3>1, RowsAllGood
  <2>7. AllGood(Skip(" ", Tails[l].row), m, TRUE, FALSE, TRUE)
    BY <2>1, <2>2, SkipsGood DEF TailsGood
  <2>8. AllGood(Skip(" ", Tails[l].comma), m, TRUE, TRUE, TRUE)
    BY <2>1, <2>2, SkipsGood DEF TailsGood
  <2>9. AllGood(Skip(" ", Tails[l].open), m, TRUE, TRUE, FALSE)
    BY <2>1, <2>2, SkipsGood DEF TailsGood
  <2>10. AllGood(Skip(",", Tails[l].comma), m, TRUE, FALSE, TRUE)
    <3>1. "," \in Punctuation /\ Passed(",")
      BY SpaceTypes DEF Passed
    <3>2. AllGood(Skip(",", Tails[l].comma), l + 1, TRUE, FALSE, TRUE)
      BY <2>2, <3>1, CommaTurns, PassesGood DEF TailsGood
    <3>3. QED
      BY <2>1, <3>2
  <2>11. AllGood(Tails[m].row, m, TRUE, FALSE, TRUE)
    BY <2>1, <2>3, <2>5, <2>7, <2>10 DEF RowTails, AllGood
  <2>12. AllGood(Tails[m].comma, m, TRUE, TRUE, TRUE)
    BY <2>1, <2>3, <2>6, <2>8 DEF CommaTails, AllGood
  <2>13. AllGood(Tails[m].open, m, TRUE, TRUE, FALSE)
    BY <2>1, <2>3, <2>5, <2>6, <2>9 DEF OpenTails, AllGood
  <2>14. QED
    BY <1>4, <2>11, <2>12, <2>13 DEF TailsGood
<1>9. QED
  BY <1>7, <1>8

\* So are the arrays.
LeadGood(n) == AllGood(Lead[n], n, FALSE, FALSE, FALSE)

\* Every array is good.
LEMMA ArraysAreGood == \A n \in 0 .. LongestFile : LeadGood(n)
<1>1. PICK N \in Nat : N = LongestFile
  BY LongestNat
<1> DEFINE K == {n \in Nat : n <= N /\ ~LeadGood(n)}
<1>2. SUFFICES ASSUME K # {} PROVE FALSE
  BY <1>1
<1>3. PICK m \in K : \A j \in K : m <= j
  <2>1. K \subseteq Nat
    OBVIOUS
  <2> HIDE DEF K
  <2>2. QED
    BY <1>2, <2>1, LeastExists
<1>4. m \in Nat /\ m <= N /\ ~LeadGood(m)
  OBVIOUS
<1>5. ASSUME NEW l \in Nat, l < m PROVE LeadGood(l)
  <2>1. l \notin K /\ l <= N
    <3>1. ~(m <= l) /\ l <= N
      BY <1>4, <1>5
    <3> HIDE DEF K
    <3>2. QED
      BY <1>3, <3>1
  <2>2. QED
    BY <2>1
<1> HIDE DEF K
<1>6. m \in 0 .. LongestFile /\ m <= LongestFile
  BY <1>1, <1>4
<1>7. Lead[m] = LeadOf(Lead, m)
  BY <1>6, LeadUnfold
<1>8. CASE m = 0
  <2>1. Lead[m] = {}
    BY <1>7, <1>8 DEF LeadOf
  <2>2. QED
    BY <1>4, <2>1 DEF AllGood, LeadGood
<1>9. CASE m # 0
  <2>1. PICK l \in Nat : l = m - 1 /\ l < m /\ l + 1 = m /\ l + 1 <= LongestFile
    BY <1>1, <1>4, <1>9
  <2>2. AllGood(Lead[l], l, FALSE, FALSE, FALSE)
    BY <1>5, <2>1 DEF LeadGood
  <2>3. AllGood(Tails[l].open, l, TRUE, TRUE, FALSE)
    <3>1. l \in 0 .. LongestFile
      BY <2>1, LongestNat
    <3>2. QED
      BY <3>1, TailsAreGood DEF TailsGood
  <2>4. Lead[m] = Skip("[", Tails[l].open) \cup Skip(" ", Lead[l])
    BY <1>7, <1>9, <2>1 DEF LeadOf
  <2>5. AllGood(Skip(" ", Lead[l]), m, FALSE, FALSE, FALSE)
    BY <2>1, <2>2, SkipsGood
  <2>6. AllGood(Skip("[", Tails[l].open), m, FALSE, FALSE, FALSE)
    <3>1. "[" \in Punctuation /\ Passed("[")
      BY SpaceTypes DEF Passed
    <3>2. AllGood(Skip("[", Tails[l].open), l + 1, FALSE, FALSE, FALSE)
      BY <2>3, <3>1, CommaTurns, PassesGood
    <3>3. QED
      BY <2>1, <3>2
  <2>7. QED
    BY <1>4, <2>4, <2>5, <2>6 DEF AllGood, LeadGood
<1>10. QED
  BY <1>8, <1>9
-----------------------------------------------------------------------------
(* What the parser is given has one reading. *)

\* The first is how the second begins.
Prefixed(a, b) == Len(a) <= Len(b) /\ \A i \in 1 .. Len(a) : a[i] = b[i]

\* A byte is kept or not.
LEMMA FilterByteOut ==
  ASSUME NEW s \in Filter, NEW x \in Punctuation
  PROVE  FilterByte(s, x).out \in {s.out, Append(s.out, x)}
<1>1. ASSUME NEW r \in Filter PROVE AfterStart(r, x).out \in {r.out, Append(r.out, x)}
  <2>1. PICK k \in Filter : k = Keep(r, x)
    BY KeepTypes
  <2>2. k.out = Append(r.out, x)
    BY <2>1 DEF Keep, Filter
  <2>3. StringByte(r, x).out = k.out
    BY <2>1 DEF StringByte, Filter
  <2>4. InnerByte(r, x).out = k.out
    BY <2>1 DEF InnerByte, Filter
  <2>5. RowByte(r, x).out \in {r.out, k.out}
    BY <2>1 DEF RowByte, Filter
  <2>6. [r EXCEPT !.bad = r.array_started /\ x # " "].out = r.out
    BY DEF Filter
  <2>7. QED
    BY <2>2, <2>3, <2>4, <2>5, <2>6 DEF AfterStart
<1>2. s.bad \in BOOLEAN /\ s.started \in BOOLEAN
  BY DEF Filter
<1>3. PICK k \in Filter : k = [s EXCEPT !.started = TRUE]
  <2>1. [s EXCEPT !.started = TRUE] \in Filter
    BY DEF Filter
  <2>2. QED
    BY <2>1
<1>4. k.out = s.out
  BY <1>3 DEF Filter
<1>5. [s EXCEPT !.started = TRUE, !.array_started = TRUE, !.expect_value = TRUE].out = s.out
  BY DEF Filter
<1>6. QED
  BY <1>1, <1>2, <1>3, <1>4, <1>5 DEF FilterByte

\* A prefix stays one.
LEMMA PrefixedAppend ==
  ASSUME NEW a \in Seq(Punctuation), NEW b \in Seq(Punctuation), NEW x \in Punctuation, Prefixed(a, b)
  PROVE  Prefixed(a, Append(b, x))
<1>1. PICK A \in Nat, B \in Nat : A = Len(a) /\ B = Len(b)
  OBVIOUS
<1>2. PICK c : c = Append(b, x)
  OBVIOUS
<1>3. Len(c) = B + 1 /\ \A i \in 1 .. B : c[i] = b[i]
  BY <1>1, <1>2
<1>4. A <= B /\ \A i \in 1 .. A : a[i] = b[i]
  BY <1>1 DEF Prefixed
<1>5. A <= B + 1
  BY <1>4
<1>6. \A i \in 1 .. A : i \in 1 .. B
  BY <1>4
<1>7. QED
  BY <1>1, <1>2, <1>3, <1>4, <1>5, <1>6 DEF Prefixed

\* What is kept stays.
LEMMA FilteredGrows ==
  ASSUME NEW a \in Filter, NEW t \in Seq(Punctuation), NEW N \in Nat, Len(t) = N, NEW p \in 0 .. N
  PROVE  \A i \in p .. N : Prefixed(Filtered(a, t)[p].out, Filtered(a, t)[i].out)
<1>1. PICK g : g = Filtered(a, t)
  OBVIOUS
<1>2. /\ \A i \in 1 .. N : g[i] = FilterByte(g[i - 1], t[i])
      /\ \A i \in 0 .. N : g[i] \in Filter
  BY <1>1, FilteredStep, FilteredTypes
<1>3. \A i \in 0 .. N : g[i].out \in Seq(Punctuation)
  BY <1>2 DEF Filter
<1> DEFINE K == {i \in Nat : p <= i /\ i <= N /\ ~Prefixed(g[p].out, g[i].out)}
<1>4. SUFFICES ASSUME K # {} PROVE FALSE
  BY <1>1
<1>5. PICK m \in K : \A j \in K : m <= j
  <2>1. K \subseteq Nat
    OBVIOUS
  <2> HIDE DEF K
  <2>2. QED
    BY <1>4, <2>1, LeastExists
<1>6. m \in Nat /\ p <= m /\ m <= N /\ ~Prefixed(g[p].out, g[m].out)
  OBVIOUS
<1>7. m # p
  <2>1. Prefixed(g[p].out, g[p].out)
    <3>1. PICK b \in Seq(Punctuation) : b = g[p].out
      BY <1>3
    <3>2. Prefixed(b, b)
      BY DEF Prefixed
    <3>3. QED
      BY <3>1, <3>2
  <2>2. QED
    BY <1>6, <2>1
<1>8. PICK l \in Nat : l = m - 1 /\ p <= l /\ l <= N /\ ~(m <= l) /\ m \in 1 .. N /\ l \in 0 .. N
  BY <1>6, <1>7
<1>9. Prefixed(g[p].out, g[l].out)
  <2>1. l \notin K
    <3> HIDE DEF K
    <3>1. QED
      BY <1>5, <1>8
  <2>2. QED
    BY <1>8, <2>1
<1> HIDE DEF K
<1>10. PICK x \in Punctuation : x = t[m]
  BY <1>8
<1>11. g[m].out \in {g[l].out, Append(g[l].out, x)}
  <2>1. g[m] = FilterByte(g[l], x)
    BY <1>2, <1>8, <1>10
  <2>2. g[l] \in Filter
    BY <1>2, <1>8
  <2>3. QED
    BY <2>1, <2>2, FilterByteOut
<1>12. Prefixed(g[p].out, Append(g[l].out, x))
  BY <1>3, <1>8, <1>9, PrefixedAppend
<1>13. QED
  BY <1>6, <1>9, <1>11, <1>12

\* What follows a prefix.
LEMMA PrefixedParts ==
  ASSUME NEW a \in Seq(Punctuation), NEW b \in Seq(Punctuation), Prefixed(a, b)
  PROVE  \E d \in Seq(Punctuation) : Concats(b, a, d)
<1>1. PICK A \in Nat, B \in Nat : A = Len(a) /\ B = Len(b) /\ A <= B
  BY DEF Prefixed
<1>2. PICK d : d = SubSeq(b, A + 1, B)
  OBVIOUS
<1>3. d \in Seq(Punctuation) /\ Len(d) = B - A /\ \A i \in 1 .. B - A : d[i] = b[A + i]
  BY <1>1, <1>2
<1>4. \A i \in 1 .. A : a[i] = b[i]
  BY <1>1 DEF Prefixed
<1>5. PICK c : c = a \o d
  OBVIOUS
<1>6. c \in Seq(Punctuation) /\ Len(c) = B
  <2>1. PICK D \in Nat : D = Len(d) /\ A + D = B
    BY <1>1, <1>3
  <2>2. c \in Seq(Punctuation) /\ Len(c) = A + D
    BY <1>1, <1>3, <1>5, <2>1, LengthsJoin
  <2>3. QED
    BY <2>1, <2>2
<1>7. ASSUME NEW i \in 1 .. B PROVE c[i] = b[i]
  <2>1. CASE i <= A
    BY <1>1, <1>3, <1>4, <1>5, <2>1
  <2>2. CASE ~(i <= A)
    <3>1. PICK j \in 1 .. B - A : i = A + j
      <4>1. i - A \in 1 .. B - A /\ i = A + (i - A)
        BY <1>1, <2>2
      <4>2. QED
        BY <4>1
    <3>2. c[A + j] = d[j]
      BY <1>1, <1>3, <1>5, <3>1
    <3>3. QED
      BY <1>3, <3>1, <3>2
  <2>3. QED
    BY <2>1, <2>2
<1>8. c = b
  BY <1>1, <1>6, <1>7
<1>9. QED
  BY <1>3, <1>5, <1>8 DEF Concats

\* Texts with the same bytes are the same.
LEMMA SameTexts ==
  ASSUME NEW a \in Seq(Punctuation), NEW b \in Seq(Punctuation), NEW N, Len(a) = N, Len(b) = N,
         \A i \in 1 .. N : a[i] = b[i]
  PROVE  a = b
OBVIOUS

\* What comes before is taken away.
LEMMA Cancelled ==
  ASSUME NEW o \in Seq(Punctuation), NEW a \in Seq(Punctuation), NEW b \in Seq(Punctuation),
         NEW d \in Seq(Punctuation), NEW y, NEW z,
         Concats(z, o, b), Concats(y, o, a), Concats(z, y, d)
  PROVE  Concats(b, a, d)
<1>1. PICK c : c = a \o d
  OBVIOUS
<1>2. c \in Seq(Punctuation)
  BY <1>1
<1>3. o \o c = o \o b
  <2>1. (o \o a) \o d = o \o (a \o d)
    OBVIOUS
  <2>2. QED
    BY <1>1, <2>1 DEF Concats
<1>4. PICK O \in Nat, B \in Nat, C \in Nat : O = Len(o) /\ B = Len(b) /\ C = Len(c)
  BY <1>2
<1>5. B = C
  <2>1. O + B = O + C
    <3>1. Len(o \o c) = O + C /\ Len(o \o b) = O + B
      BY <1>2, <1>4
    <3>2. QED
      BY <1>3, <3>1
  <2>2. QED
    BY <2>1
<1>6. ASSUME NEW i \in 1 .. B PROVE c[i] = b[i]
  <2>1. \A j \in 1 .. C : (o \o c)[O + j] = c[j]
    BY <1>2, <1>4, JoinedText
  <2>2. \A j \in 1 .. B : (o \o b)[O + j] = b[j]
    BY <1>4, JoinedText
  <2>3. QED
    BY <1>3, <1>5, <2>1, <2>2
<1>7. c = b
  BY <1>2, <1>4, <1>5, <1>6, SameTexts
<1>8. QED
  BY <1>1, <1>7 DEF Concats

\* What is kept by the end begins with what has been kept.
LEMMA EndsSplit ==
  ASSUME NEW s \in Filter, NEW u \in Seq(Punctuation), NEW v \in Seq(Punctuation),
         NEW w \in Seq(Punctuation), Concats(w, u, v), NEW n \in Nat, Len(u) = n,
         NEW r \in Filter, Filtered(s, u)[n] = r,
         NEW a \in Seq(Punctuation), Concats(r.out, s.out, a), NEW b, Ends(s, w, b)
  PROVE  \E d \in Seq(Punctuation) : Concats(b, a, d) /\ Ends(r, v, d)
<1>1. PICK m \in Nat : m = Len(v)
  OBVIOUS
<1>2. Len(w) = n + m
  BY <1>1, JoinedTypes
<1>3. PICK t \in Filter : /\ Filtered(s, w)[Len(w)] = t
                          /\ t.finished /\ ~t.bad /\ t.array_started
                          /\ b \in Seq(Punctuation) /\ Concats(t.out, s.out, b)
  BY DEF Ends
<1>4. Filtered(r, v)[m] = t
  <2>1. m \in 0 .. m
    OBVIOUS
  <2>2. \A j \in 0 .. m : Filtered(s, w)[n + j] = Filtered(r, v)[j]
    BY <1>1, FilteredTwo
  <2>3. QED
    BY <1>2, <1>3, <2>1, <2>2
<1>5. s.out \in Seq(Punctuation) /\ r.out \in Seq(Punctuation) /\ t.out \in Seq(Punctuation)
  BY DEF Filter
<1>6. Prefixed(r.out, t.out)
  <2>1. 0 \in 0 .. m /\ m \in 0 .. m
    OBVIOUS
  <2>2. PICK z \in 0 .. m : z = 0
    BY <2>1
  <2>3. \A i \in z .. m : Prefixed(Filtered(r, v)[z].out, Filtered(r, v)[i].out)
    BY <1>1, FilteredGrows
  <2>4. Filtered(r, v)[z] = r
    BY <2>2, FilteredStep
  <2>5. m \in z .. m
    BY <2>2
  <2>6. QED
    BY <1>4, <2>3, <2>4, <2>5
<1>7. PICK d \in Seq(Punctuation) : Concats(t.out, r.out, d)
  BY <1>5, <1>6, PrefixedParts
<1>8. Concats(b, a, d)
  BY <1>3, <1>5, <1>7, Cancelled
<1>9. Ends(r, v, d)
  BY <1>1, <1>3, <1>4, <1>7 DEF Ends
<1>10. QED
  BY <1>8, <1>9

\* The end has not come while something is open.
LEMMA EndsDone ==
  ASSUME NEW s \in Filter, NEW w \in Seq(Punctuation), NEW b, Ends(s, w, b), NEW n \in Nat, Len(w) = n
  PROVE  ~Deep(Filtered(s, w)[n], 1) /\ ~Filtered(s, w)[n].bad /\ Filtered(s, w)[n].finished
         /\ \A i \in 0 .. n : ~Filtered(s, w)[i].bad
<1>1. PICK t \in Filter : /\ Filtered(s, w)[n] = t
                          /\ t.finished /\ ~t.bad /\ t.array_started
  BY DEF Ends
<1>2. ASSUME NEW i \in 0 .. n PROVE ~Filtered(s, w)[i].bad
  <2>1. i \in Nat /\ i <= n /\ n <= n
    OBVIOUS
  <2>2. QED
    BY <1>1, <2>1, StaysBad
<1>3. QED
  BY <1>1, <1>2 DEF Deep

\* Inside of a row everything is kept.
LEMMA DeepKeeps ==
  ASSUME NEW s \in Filter, NEW x \in Punctuation, Deep(s, 1), s.array_started
  PROVE  FilterByte(s, x).out = Append(s.out, x) /\ FilterByte(s, x).array_started
<1>1. s.bad = FALSE /\ s.started = TRUE /\ s.finished = FALSE /\ s.depth \in Nat /\ s.depth # 0
      /\ s.in_string \in BOOLEAN
  BY DEF Deep, Filter
<1>2. FilterByte(s, x) = IF s.in_string THEN StringByte(s, x) ELSE InnerByte(s, x)
  BY <1>1 DEF FilterByte, AfterStart
<1>3. PICK k \in Filter : k = Keep(s, x)
  BY KeepTypes
<1>4. k.out = Append(s.out, x) /\ k.array_started = s.array_started
  BY <1>3 DEF Keep, Filter
<1>5. StringByte(s, x).out = k.out /\ StringByte(s, x).array_started = k.array_started
  BY <1>3 DEF StringByte, Filter
<1>6. InnerByte(s, x).out = k.out /\ InnerByte(s, x).array_started = k.array_started
  BY <1>3 DEF InnerByte, Filter
<1>7. QED
  BY <1>2, <1>4, <1>5, <1>6

\* Of a row it has kept what it has read.
KeptSo(r, n) == r.array_started /\ Len(r.out) = n

\* Inside of an object the filter has kept it as far as it has read it.
LEMMA ObjectKept ==
  ASSUME NEW k \in 2 .. LongestFile, NEW o \in Objects(k), NEW s, NEW h, Stands(s, TRUE, TRUE, h),
         NEW q \in Nat, Len(s.out) = q
  PROVE  \A i \in 1 .. k - 1 : KeptSo(Filtered(s, o)[i], q + i)
<1>1. k \in Nat /\ o \in Seq(Punctuation) /\ Len(o) = k
  BY ObjectTypes
<1>2. s \in Filter /\ s.out \in Seq(Punctuation)
  BY DEF Stands, Filter
<1>3. PICK g : g = Filtered(s, o)
  OBVIOUS
<1>4. /\ g[0] = s /\ \A i \in 1 .. k : g[i] = FilterByte(g[i - 1], o[i])
      /\ \A i \in 0 .. k : g[i] \in Filter
  BY <1>1, <1>2, <1>3, FilteredStep, FilteredTypes
<1>5. \A i \in 1 .. k - 1 : Deep(g[i], 1)
  BY <1>3, ObjectFiltered
<1>6. g[1].array_started /\ Len(g[1].out) = q + 1
  <2>1. 1 \in 1 .. k /\ 1 - 1 = 0
    BY <1>1
  <2>2. g[1] = FilterByte(s, o[1])
    BY <1>4, <2>1
  <2>3. PICK x \in Punctuation : x = o[1] /\ x = "{"
    <3>1. IsBrace(o[1])
      BY BraceBegins
    <3>2. QED
      BY <3>1, SpaceTypes DEF IsBrace
  <2>4. FilterByte(s, x) = Began(s)
    BY <2>3, RowBytes
  <2>5. Began(s).array_started
    BY BeganTypes
  <2>6. Began(s).out = s.out \o <<"{">>
    BY <1>2 DEF Began, Kept, Filter
  <2>7. PICK t \in Seq(Punctuation), i \in Nat : t = <<x>> /\ Len(t) = i /\ i = 1
    BY OneByte
  <2>8. Len(s.out \o t) = q + i
    BY <1>2, <2>7, LengthsJoin
  <2>9. QED
    BY <2>2, <2>3, <2>4, <2>5, <2>6, <2>7, <2>8
<1>7. SUFFICES \A i \in 1 .. k - 1 : g[i].array_started /\ Len(g[i].out) = q + i
  BY <1>3 DEF KeptSo
<1> DEFINE K == {i \in Nat : i \in 1 .. k - 1 /\ ~(g[i].array_started /\ Len(g[i].out) = q + i)}
<1>8. SUFFICES ASSUME K # {} PROVE FALSE
  OBVIOUS
<1>9. PICK m \in K : \A j \in K : m <= j
  <2>1. K \subseteq Nat
    OBVIOUS
  <2> HIDE DEF K
  <2>2. QED
    BY <1>8, <2>1, LeastExists
<1>10. m \in 1 .. k - 1 /\ ~(g[m].array_started /\ Len(g[m].out) = q + m)
  OBVIOUS
<1>11. m # 1
  BY <1>6, <1>10
<1>12. PICK l \in Nat : l = m - 1 /\ l \in 1 .. k - 1 /\ ~(m <= l) /\ m \in 1 .. k /\ l \in 0 .. k /\ m = l + 1
  BY <1>1, <1>10, <1>11
<1>13. g[l].array_started /\ Len(g[l].out) = q + l
  <2>1. l \notin K
    <3> HIDE DEF K
    <3>1. QED
      BY <1>9, <1>12
  <2>2. QED
    BY <1>12, <2>1
<1> HIDE DEF K
<1>14. PICK x \in Punctuation : x = o[m]
  BY <1>1, <1>12
<1>15. g[m] = FilterByte(g[l], x) /\ g[l] \in Filter /\ Deep(g[l], 1)
  BY <1>4, <1>5, <1>12, <1>14
<1>16. g[m].out = Append(g[l].out, x) /\ g[m].array_started
  BY <1>13, <1>15, DeepKeeps
<1>17. Len(g[m].out) = (q + l) + 1
  <2>1. PICK b \in Seq(Punctuation) : b = g[l].out
    BY <1>15 DEF Filter
  <2>2. Len(Append(b, x)) = Len(b) + 1
    OBVIOUS
  <2>3. QED
    BY <1>13, <1>16, <2>1, <2>2
<1>18. QED
  BY <1>10, <1>12, <1>16, <1>17

\* Texts that begin alike.
Same(u, w, n) == \A i \in 1 .. n : u[i] = w[i]

\* The rest of a text after n bytes; the text is a prefix of another.
LEMMA ObjectFirst ==
  ASSUME NEW s, NEW h, Stands(s, TRUE, TRUE, h), NEW w \in Seq(Punctuation),
         NEW n \in Nat, Len(w) = n, n # 0, IsBrace(w[1]), NEW b, Ends(s, w, b),
         NEW k \in 2 .. LongestFile, NEW o \in Objects(k), NEW v \in Seq(Punctuation), Concats(b, o, v)
  PROVE  k <= n /\ Same(o, w, k)
<1>1. k \in Nat /\ o \in Seq(Punctuation) /\ Len(o) = k
  BY ObjectTypes
<1>2. s \in Filter /\ s.out \in Seq(Punctuation)
  BY DEF Stands, Filter
<1>3. PICK q \in Nat : q = Len(s.out)
  BY <1>2
<1>4. PICK g, e : g = Filtered(s, w) /\ e = Filtered(s, o)
  OBVIOUS
<1>5. /\ \A i \in 1 .. n : g[i] = FilterByte(g[i - 1], w[i])
      /\ \A i \in 0 .. n : g[i] \in Filter
  BY <1>2, <1>4, FilteredStep, FilteredTypes
<1>6. \A i \in 1 .. k - 1 : Deep(e[i], 1)
  BY <1>4, ObjectFiltered
<1>7. \A i \in 1 .. k - 1 : e[i].array_started /\ Len(e[i].out) = q + i
  <2>1. Len(s.out) = q
    BY <1>3
  <2>2. \A i \in 1 .. k - 1 : KeptSo(Filtered(s, o)[i], q + i)
    BY <2>1, ObjectKept
  <2>3. QED
    BY <1>4, <2>2 DEF KeptSo
<1>8. IsBrace(o[1])
  BY BraceBegins
<1> DEFINE K == {i \in Nat : i \in 1 .. k /\ (i > n \/ w[i] # o[i])}
<1>9. ASSUME K = {} PROVE k <= n /\ Same(o, w, k)
  <2>1. ASSUME NEW i \in 1 .. k PROVE i <= n /\ o[i] = w[i]
    <3>1. i \in Nat /\ i \notin K
      <4>1. i \in Nat
        BY <1>1
      <4> HIDE DEF K
      <4>2. QED
        BY <1>9, <4>1
    <3>2. QED
      BY <3>1
  <2>2. k \in 1 .. k
    BY <1>1
  <2> HIDE DEF K
  <2>3. QED
    BY <2>1, <2>2 DEF Same
<1>10. ASSUME K # {} PROVE FALSE
  <2>1. PICK m \in K : \A j \in K : m <= j
    <3>1. K \subseteq Nat
      OBVIOUS
    <3> HIDE DEF K
    <3>2. QED
      BY <1>10, <3>1, LeastExists
  <2>2. m \in Nat /\ m \in 1 .. k /\ (m > n \/ w[m] # o[m])
    OBVIOUS
  <2>3. m # 1
    <3>1. w[1] = o[1]
      BY <1>8 DEF IsBrace
    <3>2. ~(1 > n)
      OBVIOUS
    <3>3. QED
      BY <2>2, <3>1, <3>2
  <2>4. PICK l \in Nat : l = m - 1 /\ l \in 1 .. k - 1 /\ m = l + 1
    BY <1>1, <2>2, <2>3
  <2>5. ASSUME NEW i \in 1 .. l PROVE i <= n /\ w[i] = o[i]
    <3>1. i \in Nat /\ i \in 1 .. k /\ ~(m <= i)
      BY <1>1, <2>4
    <3>2. i \notin K
      <4> HIDE DEF K
      <4>1. QED
        BY <2>1, <3>1
    <3>3. QED
      BY <3>1, <3>2
  <2> HIDE DEF K
  <2>6. l <= n /\ l <= k
    <3>1. l \in 1 .. l
      BY <2>4
    <3>2. QED
      BY <1>1, <2>4, <2>5, <3>1
  <2>7. g[l] = e[l]
    <3>1. \A i \in 1 .. l : w[i] = o[i]
      BY <2>5
    <3>2. \A i \in 0 .. l : Filtered(s, w)[i] = Filtered(s, o)[i]
      BY <1>1, <1>2, <2>4, <2>6, <3>1, FilteredPrefix, SMTT(20)
    <3>3. l \in 0 .. l
      BY <2>4
    <3>4. QED
      BY <1>4, <3>2, <3>3
  <2>8. Deep(g[l], 1) /\ g[l].array_started /\ Len(g[l].out) = q + l
    BY <1>6, <1>7, <2>4, <2>7
  <2>9. l # n
    <3>1. ~Deep(g[n], 1)
      BY <1>2, <1>4, EndsDone
    <3>2. QED
      BY <2>8, <3>1
  <2>10. m \in 1 .. n /\ l \in 0 .. n /\ m <= n /\ m - 1 = l /\ m \in 0 .. n
    BY <2>2, <2>4, <2>6, <2>9
  <2>11. PICK x \in Punctuation : x = w[m]
    BY <2>10
  <2>12. PICK a \in Seq(Punctuation), c \in Seq(Punctuation), t \in Seq(Punctuation) :
           a = g[l].out /\ c = g[m].out /\ t = g[n].out
    <3>1. n \in 0 .. n
      OBVIOUS
    <3>2. g[l] \in Filter /\ g[m] \in Filter /\ g[n] \in Filter
      BY <1>5, <2>10, <3>1
    <3>3. g[l].out \in Seq(Punctuation) /\ g[m].out \in Seq(Punctuation) /\ g[n].out \in Seq(Punctuation)
      BY <3>2 DEF Filter
    <3>4. QED
      BY <3>3
  <2>13. c = Append(a, x)
    <3>1. g[m] = FilterByte(g[l], x) /\ g[l] \in Filter
      BY <1>5, <2>10, <2>11
    <3>2. QED
      BY <2>8, <2>12, <3>1, DeepKeeps
  <2>14. Len(a) = q + l
    BY <2>8, <2>12
  <2>15. Len(c) = q + m /\ c[q + m] = x
    BY <2>4, <2>13, <2>14
  <2>16. Prefixed(c, t)
    <3>1. n \in m .. n
      BY <2>10
    <3>2. \A i \in m .. n : Prefixed(Filtered(s, w)[m].out, Filtered(s, w)[i].out)
      BY <1>2, <2>10, FilteredGrows
    <3>3. QED
      BY <1>4, <2>12, <3>1, <3>2
  <2>17. t[q + m] = x
    <3>1. q + m \in 1 .. q + m
      BY <2>2
    <3>2. c[q + m] = t[q + m]
      BY <2>15, <2>16, <3>1 DEF Prefixed
    <3>3. QED
      BY <2>15, <3>2
  <2>18. Concats(t, s.out, b) /\ b \in Seq(Punctuation)
    BY <1>4, <2>12 DEF Ends
  <2>19. t[q + m] = b[m]
    <3>1. m \in 1 .. Len(b)
      <4>1. PICK V \in Nat : V = Len(v)
        OBVIOUS
      <4>2. Len(b) = k + V
        BY <1>1, <4>1, JoinedTypes
      <4>3. QED
        BY <1>1, <2>2, <4>1, <4>2
    <3>2. \A i \in 1 .. Len(b) : (s.out \o b)[Len(s.out) + i] = b[i]
      BY <1>2, <2>18, JoinedText
    <3>3. QED
      BY <1>3, <2>18, <3>1, <3>2 DEF Concats
  <2>20. b[m] = o[m]
    <3>1. \A i \in 1 .. k : (o \o v)[i] = o[i]
      BY <1>1, JoinedText
    <3>2. QED
      BY <2>2, <3>1 DEF Concats
  <2>21. QED
    BY <2>2, <2>10, <2>11, <2>17, <2>19, <2>20
<1>11. QED
  BY <1>9, <1>10

\* No object is the beginning of another one.
LEMMA ObjectsApart ==
  ASSUME NEW k \in 2 .. LongestFile, NEW o \in Objects(k), NEW l \in 2 .. LongestFile, NEW p \in Objects(l),
         k < l, Same(o, p, k)
  PROVE  FALSE
<1>1. k \in Nat /\ o \in Seq(Punctuation) /\ Len(o) = k
  BY ObjectTypes
<1>2. l \in Nat /\ p \in Seq(Punctuation) /\ Len(p) = l
  BY ObjectTypes
<1>3. PICK s : s = FreshFromOffset /\ Stands(s, TRUE, TRUE, FALSE) /\ s \in Filter
  BY StandsFresh, FreshTypes
<1>4. \A i \in 0 .. k : Filtered(s, o)[i] = Filtered(s, p)[i]
  BY <1>1, <1>2, <1>3, FilteredPrefix DEF Same
<1>5. Filtered(s, o)[k] = RowDone(s, o)
  BY <1>3, ObjectFiltered
<1>6. Deep(Filtered(s, p)[k], 1)
  <2>1. k \in 1 .. l - 1
    BY <1>1, <1>2
  <2>2. QED
    BY <1>3, <2>1, ObjectFiltered
<1>7. Stands(RowDone(s, o), TRUE, FALSE, TRUE)
  BY <1>1, <1>3, RowDoneStands
<1>8. k \in 0 .. k
  BY <1>1
<1>9. Deep(RowDone(s, o), 1)
  BY <1>4, <1>5, <1>6, <1>8
<1>10. RowDone(s, o).depth = 0
  BY <1>7 DEF Stands
<1>11. QED
  BY <1>9, <1>10 DEF Deep

\* The first of two texts in one is how it begins.
LEMMA JoinedFirst ==
  ASSUME NEW u \in Seq(Punctuation), NEW v \in Seq(Punctuation), NEW w, Concats(w, u, v),
         NEW k \in Nat, Len(u) = k
  PROVE  Same(u, w, k)
<1>1. \A i \in 1 .. k : (u \o v)[i] = u[i]
  BY JoinedText
<1>2. QED
  BY <1>1 DEF Same, Concats

\* A text is cut in one way after so many bytes.
LEMMA SameRest ==
  ASSUME NEW u \in Seq(Punctuation), NEW v \in Seq(Punctuation), NEW a \in Seq(Punctuation),
         NEW b \in Seq(Punctuation), NEW w, Concats(w, u, v), Concats(w, a, b),
         NEW k \in Nat, Len(u) = k, Len(a) = k
  PROVE  u = a /\ v = b
<1>1. Same(u, w, k) /\ Same(a, w, k) /\ IsTail(v, w, k) /\ IsTail(b, w, k)
  BY JoinedFirst, JoinedTail
<1>2. u = a
  <2>1. \A i \in 1 .. k : u[i] = a[i]
    BY <1>1 DEF Same
  <2>2. QED
    BY <2>1, SameTexts
<1>3. PICK N \in Nat, M \in Nat : N = Len(v) /\ M = Len(b)
  OBVIOUS
<1>4. k + N = Len(w) /\ k + M = Len(w)
  BY <1>1, <1>3 DEF IsTail
<1>5. N = M
  BY <1>4
<1>6. \A i \in 1 .. N : v[i] = b[i]
  BY <1>1, <1>3, <1>5 DEF IsTail
<1>7. v = b
  BY <1>3, <1>5, <1>6, SameTexts
<1>8. QED
  BY <1>2, <1>7

\* How a stream begins.
IsEmpty(x) == x.text = <<>> /\ x.rows = <<>>
SpaceAndRest(x, c, z) == IsSpace(c) /\ Concats(x.text, <<c>>, z.text) /\ x.rows = z.rows
SpaceFirst(x, n) ==
  \E c \in Punctuation : IsSpace(x.text[1]) /\ \E z \in Streams[n - 1] : SpaceAndRest(x, c, z)
RowAndRest(x, o, z) == x = WithRow(o, z)
RowFirst(x, n) ==
  \E k \in 2 .. n : IsBrace(x.text[1]) /\ \E o \in Objects(k), z \in Streams[n - k] : RowAndRest(x, o, z)

\* A stream is empty or begins in one of these ways.
LEMMA StreamFirst ==
  ASSUME NEW n \in 0 .. LongestFile, NEW x \in Streams[n]
  PROVE  \/ n = 0 /\ IsEmpty(x)
         \/ n # 0 /\ SpaceFirst(x, n)
         \/ n # 0 /\ RowFirst(x, n)
<1>1. CASE n = 0 /\ x = Text(<<>>)
  BY <1>1 DEF Text, IsEmpty
<1>2. ASSUME n # 0, NEW c \in Punctuation, IsSpace(c), x \in Skip(c, Streams[n - 1]) PROVE SpaceFirst(x, n)
  <2>1. PICK z \in Streams[n - 1] : x = After(<<c>>, z)
    BY <1>2, SkipParts
  <2>2. PICK m \in Nat : m = n - 1 /\ m \in 0 .. LongestFile
    BY <1>2, LongestNat
  <2>3. Typed(z, m)
    BY <2>1, <2>2, StreamTypes
  <2>4. PICK t \in Seq(Punctuation), i \in Nat : t = <<c>> /\ Len(t) = i /\ i = 1 /\ t[i] = c
    BY <1>2, OneByte
  <2>5. Concats(x.text, t, z.text) /\ x.rows = z.rows
    BY <2>1, <2>3, <2>4, AfterTypes
  <2>6. z.text \in Seq(Punctuation)
    BY <2>3 DEF Typed
  <2>7. Same(t, x.text, i)
    BY <2>4, <2>5, <2>6, JoinedFirst
  <2>8. x.text[i] = c
    <3>1. i \in 1 .. i
      BY <2>4
    <3>2. QED
      BY <2>4, <2>7, <3>1 DEF Same
  <2>9. IsSpace(x.text[1])
    BY <1>2, <2>4, <2>8
  <2>10. SpaceAndRest(x, c, z)
    BY <1>2, <2>4, <2>5 DEF SpaceAndRest
  <2>11. QED
    BY <2>1, <2>9, <2>10 DEF SpaceFirst
<1>3. ASSUME n # 0, x \in Row(n, Streams) PROVE RowFirst(x, n)
  <2>1. PICK k \in 2 .. n : \E o \in Objects(k), z \in Streams[n - k] : x = WithRow(o, z)
    BY <1>3, RowParts
  <2>2. PICK o \in Objects(k), z \in Streams[n - k] : x = WithRow(o, z)
    BY <2>1
  <2>3. PICK m \in Nat : m = n - k /\ m \in 0 .. LongestFile
    BY LongestNat
  <2>4. k \in 2 .. LongestFile /\ k \in Nat
    BY LongestNat
  <2>5. Typed(z, m)
    BY <2>2, <2>3, StreamTypes
  <2>6. o \in Seq(Punctuation) /\ Len(o) = k /\ z.text \in Seq(Punctuation)
    BY <2>2, <2>4, <2>5, ObjectTypes DEF Typed
  <2>7. Concats(x.text, o, z.text)
    BY <2>2, <2>4, <2>5, <2>6, WithRowTypes
  <2>8. Same(o, x.text, k)
    BY <2>4, <2>6, <2>7, JoinedFirst
  <2>9. x.text[1] = o[1]
    <3>1. 1 \in 1 .. k
      OBVIOUS
    <3>2. QED
      BY <2>8, <3>1 DEF Same
  <2>10. IsBrace(x.text[1])
    BY <2>2, <2>4, <2>9, BraceBegins
  <2>11. QED
    BY <2>2, <2>10 DEF RowFirst, RowAndRest
<1>4. QED
  <2>1. PICK c \in Punctuation : c = " " /\ IsSpace(c)
    BY SpaceTypes DEF IsSpace
  <2>2. QED
    BY <1>1, <1>2, <1>3, <2>1, StreamParts

\* White space is no brace.
LEMMA SpaceNoBrace ==
  ASSUME NEW x
  PROVE  ~(IsSpace(x) /\ IsBrace(x))
BY DEF IsSpace, IsBrace

\* The parts of a stream that begins with a row.
LEMMA RowOfStream ==
  ASSUME NEW n \in 0 .. LongestFile, NEW k \in 2 .. n, NEW o \in Objects(k), NEW z \in Streams[n - k],
         NEW x, RowAndRest(x, o, z)
  PROVE  /\ k \in 2 .. LongestFile /\ k \in Nat /\ o \in Seq(Punctuation) /\ Len(o) = k
         /\ z.text \in Seq(Punctuation) /\ Concats(x.text, o, z.text)
         /\ x.rows = <<o>> \o z.rows
<1>1. k \in 2 .. LongestFile /\ k \in Nat
  BY LongestNat
<1>2. PICK m \in Nat : m = n - k /\ m \in 0 .. LongestFile
  BY LongestNat
<1>3. Typed(z, m)
  BY <1>2, StreamTypes
<1>4. o \in Seq(Punctuation) /\ Len(o) = k /\ z.text \in Seq(Punctuation)
  BY <1>1, <1>3, ObjectTypes DEF Typed
<1>5. Concats(x.text, o, z.text)
  BY <1>1, <1>3, <1>4, WithRowTypes DEF RowAndRest
<1>6. x.rows = <<o>> \o z.rows
  BY DEF RowAndRest, WithRow, After
<1>7. QED
  BY <1>1, <1>4, <1>5, <1>6

\* The rest of a stream after white space.
LEMMA SpaceOfStream ==
  ASSUME NEW n \in 0 .. LongestFile, n # 0, NEW z \in Streams[n - 1]
  PROVE  z.text \in Seq(Punctuation) /\ n - 1 \in 0 .. LongestFile
<1>1. PICK m \in Nat : m = n - 1 /\ m \in 0 .. LongestFile
  BY LongestNat
<1>2. Typed(z, m)
  BY <1>1, StreamTypes
<1>3. QED
  BY <1>1, <1>2 DEF Typed

\* Streams with the same text have the same rows.
OneReading(n) == \A x \in Streams[n], y \in Streams[n] : x.text = y.text => x.rows = y.rows

\* Streams that begin with white space.
LEMMA SpacesRead ==
  ASSUME NEW n \in 0 .. LongestFile, n # 0, OneReading(n - 1),
         NEW x, NEW y, x.text = y.text, SpaceFirst(x, n), SpaceFirst(y, n)
  PROVE  x.rows = y.rows
<1>1. PICK c \in Punctuation : \E z \in Streams[n - 1] : SpaceAndRest(x, c, z)
  BY DEF SpaceFirst
<1>2. PICK z \in Streams[n - 1] : SpaceAndRest(x, c, z)
  BY <1>1
<1>3. PICK d \in Punctuation : \E a \in Streams[n - 1] : SpaceAndRest(y, d, a)
  BY DEF SpaceFirst
<1>4. PICK a \in Streams[n - 1] : SpaceAndRest(y, d, a)
  BY <1>3
<1>5. c = d
  BY <1>2, <1>4 DEF SpaceAndRest, IsSpace
<1>6. PICK t \in Seq(Punctuation), i \in Nat : t = <<c>> /\ Len(t) = i /\ i = 1
  BY OneByte
<1>7. /\ Concats(x.text, t, z.text) /\ Concats(x.text, t, a.text)
      /\ x.rows = z.rows /\ y.rows = a.rows
  BY <1>2, <1>4, <1>5, <1>6 DEF SpaceAndRest
<1>8. z.text \in Seq(Punctuation) /\ a.text \in Seq(Punctuation)
  BY <1>2, <1>4, SpaceOfStream
<1>9. z.text = a.text
  BY <1>6, <1>7, <1>8, SameRest, ZenonT(40)
<1>10. z.rows = a.rows
  BY <1>2, <1>4, <1>9 DEF OneReading
<1>11. QED
  BY <1>7, <1>10

\* Of two objects a text begins with, none is longer.
LEMMA NotLonger ==
  ASSUME NEW k \in 2 .. LongestFile, NEW o \in Objects(k), NEW l \in 2 .. LongestFile, NEW p \in Objects(l),
         NEW w, Same(o, w, k), Same(p, w, l)
  PROVE  ~(k < l)
<1>1. SUFFICES ASSUME k < l PROVE FALSE
  OBVIOUS
<1>2. \A i \in 1 .. k : i \in 1 .. l
  BY <1>1, LongestNat
<1>3. Same(o, p, k)
  BY <1>2 DEF Same
<1>4. QED
  BY <1>1, <1>3, ObjectsApart

\* Streams that begin with a row.
LEMMA RowsRead ==
  ASSUME NEW n \in 0 .. LongestFile, \A m \in Nat : m < n => OneReading(m),
         NEW x, NEW y, x.text = y.text, RowFirst(x, n), RowFirst(y, n)
  PROVE  x.rows = y.rows
<1>1. PICK k \in 2 .. n : \E o \in Objects(k), z \in Streams[n - k] : RowAndRest(x, o, z)
  BY DEF RowFirst
<1>2. PICK o \in Objects(k), z \in Streams[n - k] : RowAndRest(x, o, z)
  BY <1>1
<1>3. PICK l \in 2 .. n : \E o2 \in Objects(l), z2 \in Streams[n - l] : RowAndRest(y, o2, z2)
  BY DEF RowFirst
<1>4. PICK p \in Objects(l), a \in Streams[n - l] : RowAndRest(y, p, a)
  BY <1>3
<1>5. /\ k \in 2 .. LongestFile /\ k \in Nat /\ o \in Seq(Punctuation) /\ Len(o) = k
      /\ z.text \in Seq(Punctuation) /\ Concats(x.text, o, z.text)
      /\ x.rows = <<o>> \o z.rows
  BY <1>2, RowOfStream
<1>6. /\ l \in 2 .. LongestFile /\ l \in Nat /\ p \in Seq(Punctuation) /\ Len(p) = l
      /\ a.text \in Seq(Punctuation) /\ Concats(x.text, p, a.text)
      /\ y.rows = <<p>> \o a.rows
  BY <1>4, RowOfStream
<1>7. Same(o, x.text, k) /\ Same(p, x.text, l)
  BY <1>5, <1>6, JoinedFirst
<1>8. ~(k < l) /\ ~(l < k)
  BY <1>2, <1>4, <1>5, <1>6, <1>7, NotLonger
<1>9. k = l
  BY <1>5, <1>6, <1>8
<1>10. o = p /\ z.text = a.text
  BY <1>5, <1>6, <1>9, SameRest
<1>11. PICK m \in Nat : m = n - k /\ m < n
  BY LongestNat
<1>12. z.rows = a.rows
  <2>1. OneReading(m)
    BY <1>11
  <2>2. z \in Streams[m] /\ a \in Streams[m]
    BY <1>2, <1>4, <1>9, <1>11
  <2>3. QED
    BY <1>10, <2>1, <2>2 DEF OneReading
<1>13. QED
  BY <1>5, <1>6, <1>10, <1>12

\* All streams.
LEMMA StreamsReadOnce == \A n \in 0 .. LongestFile : OneReading(n)
<1>1. PICK N \in Nat : N = LongestFile
  BY LongestNat
<1> DEFINE K == {n \in Nat : n <= N /\ ~OneReading(n)}
<1>2. SUFFICES ASSUME K # {} PROVE FALSE
  BY <1>1
<1>3. PICK m \in K : \A j \in K : m <= j
  <2>1. K \subseteq Nat
    OBVIOUS
  <2> HIDE DEF K
  <2>2. QED
    BY <1>2, <2>1, LeastExists
<1>4. m \in Nat /\ m <= N /\ ~OneReading(m)
  OBVIOUS
<1>5. ASSUME NEW l \in Nat, l < m PROVE OneReading(l)
  <2>1. l \notin K /\ l <= N
    <3>1. ~(m <= l) /\ l <= N
      BY <1>4, <1>5
    <3> HIDE DEF K
    <3>2. QED
      BY <1>3, <3>1
  <2>2. QED
    BY <2>1
<1> HIDE DEF K
<1>6. m \in 0 .. LongestFile
  BY <1>1, <1>4
<1>7. PICK x \in Streams[m], y \in Streams[m] : x.text = y.text /\ x.rows # y.rows
  BY <1>4 DEF OneReading
<1>8. m # 0
  BY <1>6, <1>7, StreamFirst DEF IsEmpty
<1>9. SpaceFirst(x, m) \/ RowFirst(x, m)
  BY <1>6, <1>8, StreamFirst
<1>10. SpaceFirst(y, m) \/ RowFirst(y, m)
  BY <1>6, <1>8, StreamFirst
<1>11. SpaceFirst(x, m) <=> SpaceFirst(y, m)
  <2>1. \A z : SpaceFirst(z, m) => IsSpace(z.text[1])
    BY DEF SpaceFirst
  <2>2. \A z : RowFirst(z, m) => IsBrace(z.text[1])
    BY DEF RowFirst
  <2>3. QED
    BY <1>7, <1>9, <1>10, <2>1, <2>2, SpaceNoBrace
<1>12. CASE SpaceFirst(x, m)
  <2>1. m - 1 \in Nat /\ m - 1 < m
    BY <1>4, <1>8
  <2>2. OneReading(m - 1)
    BY <1>5, <2>1
  <2>3. QED
    BY <1>6, <1>7, <1>8, <1>11, <1>12, <2>2, SpacesRead
<1>13. CASE ~SpaceFirst(x, m)
  <2>1. RowFirst(x, m) /\ RowFirst(y, m)
    BY <1>9, <1>10, <1>11, <1>13
  <2>2. \A l \in Nat : l < m => OneReading(l)
    BY <1>5
  <2>3. QED
    BY <1>6, <1>7, <2>1, <2>2, RowsRead
<1>14. QED
  BY <1>12, <1>13

\* What the parser is given has one reading.
LEMMA ParsedReadOnce ==
  ASSUME NEW x \in Parsed, NEW y \in Parsed, x.text = y.text
  PROVE  x.rows = y.rows
<1>1. PICK n \in 0 .. LongestFile : x \in Streams[n]
  BY DEF Parsed
<1>2. PICK m \in 0 .. LongestFile : y \in Streams[m]
  BY DEF Parsed
<1>3. Typed(x, n) /\ Typed(y, m)
  BY <1>1, <1>2, StreamTypes
<1>4. n = m
  BY <1>3 DEF Typed
<1>5. QED
  BY <1>1, <1>2, <1>4, StreamsReadOnce DEF OneReading
-----------------------------------------------------------------------------
(* What is delivered is an array. *)

\* What the files are made of are bytes.
LEMMA CharactersAreBytes == \A w \in Seq(Characters) : w \in Seq(Punctuation)
<1>1. Characters \subseteq Punctuation
  BY CharactersAssumption
<1>2. QED
  BY <1>1

\* A text of the file is cut.
LEMMA Cut ==
  ASSUME NEW w \in Seq(Characters), NEW k \in Nat, NEW n \in Nat, Len(w) = k + n
  PROVE  \E u \in Seq(Characters), v \in Seq(Characters) :
           Len(u) = k /\ Len(v) = n /\ Concats(w, u, v) /\ Same(u, w, k)
<1>1. PICK N \in Nat : N = k + n /\ N = Len(w)
  OBVIOUS
<1>2. PICK u, v : u = SubSeq(w, 1, k) /\ v = SubSeq(w, k + 1, N)
  OBVIOUS
<1>3. u \in Seq(Characters) /\ Len(u) = k /\ \A i \in 1 .. k : u[i] = w[i]
  BY <1>1, <1>2
<1>4. v \in Seq(Characters) /\ Len(v) = n /\ \A i \in 1 .. n : v[i] = w[k + i]
  BY <1>1, <1>2
<1>5. PICK c : c = u \o v
  OBVIOUS
<1>6. c \in Seq(Punctuation) /\ w \in Seq(Punctuation) /\ Len(c) = N /\ u \in Seq(Punctuation) /\ v \in Seq(Punctuation)
  <2>1. u \in Seq(Punctuation) /\ v \in Seq(Punctuation) /\ w \in Seq(Punctuation)
    BY <1>3, <1>4, CharactersAreBytes
  <2>2. QED
    BY <1>1, <1>3, <1>4, <1>5, <2>1, LengthsJoin
<1>7. ASSUME NEW i \in 1 .. N PROVE c[i] = w[i]
  <2>1. CASE i <= k
    <3>1. i \in 1 .. k
      BY <2>1
    <3>2. \A j \in 1 .. k : (u \o v)[j] = u[j]
      BY <1>3, <1>6, JoinedText
    <3>3. QED
      BY <1>3, <1>5, <3>1, <3>2
  <2>2. CASE ~(i <= k)
    <3>1. PICK j \in 1 .. n : i = k + j
      <4>1. i - k \in 1 .. n /\ i = k + (i - k)
        BY <1>1, <2>2
      <4>2. QED
        BY <4>1
    <3>2. \A l \in 1 .. n : (u \o v)[k + l] = v[l]
      BY <1>3, <1>4, <1>6, JoinedText
    <3>3. QED
      BY <1>4, <1>5, <3>1, <3>2
  <2>3. QED
    BY <2>1, <2>2
<1>8. c = w
  BY <1>1, <1>6, <1>7, SameTexts
<1>9. QED
  BY <1>3, <1>4, <1>5, <1>8 DEF Concats, Same

\* The first byte is cut off.
LEMMA CutFirst ==
  ASSUME NEW w \in Seq(Characters), NEW n \in Nat, Len(w) = n + 1
  PROVE  \E c \in Characters, v \in Seq(Characters) :
           c = w[1] /\ Len(v) = n /\ Concats(w, <<c>>, v)
<1>1. PICK k \in Nat : k = 1 /\ Len(w) = k + n
  OBVIOUS
<1>2. PICK u \in Seq(Characters), v \in Seq(Characters) :
        Len(u) = k /\ Len(v) = n /\ Concats(w, u, v) /\ Same(u, w, k)
  BY <1>1, Cut
<1>3. PICK c : c = u[k]
  OBVIOUS
<1>4. u = <<c>> /\ c \in Characters
  <2>1. c \in Characters
    <3>1. \A i \in 1 .. Len(u) : u[i] \in Characters
      BY <1>2
    <3>2. k \in 1 .. Len(u)
      BY <1>1, <1>2
    <3>3. QED
      BY <1>3, <3>1, <3>2
  <2>2. c \in Punctuation /\ u \in Seq(Punctuation)
    BY <1>2, <2>1, CharactersAreBytes, CharactersAssumption
  <2>3. PICK t \in Seq(Punctuation) : t = <<c>> /\ Len(t) = 1 /\ t[1] = c
    BY <2>2, OneByte
  <2>4. \A i \in 1 .. k : u[i] = t[i]
    BY <1>1, <1>3, <2>3
  <2>5. u = t
    BY <1>1, <1>2, <2>2, <2>3, <2>4, SameTexts
  <2>6. QED
    BY <2>1, <2>3, <2>5
<1>5. c = w[1]
  <2>1. k \in 1 .. k
    BY <1>1
  <2>2. QED
    BY <1>1, <1>2, <1>3, <2>1 DEF Same
<1>6. QED
  BY <1>2, <1>4, <1>5

\* Something was read.
Something(w) == w # <<>>

\* A text with a byte before it is not empty.
LEMMA ByteBefore ==
  ASSUME NEW c \in Punctuation, NEW v \in Seq(Punctuation), NEW w, Concats(w, <<c>>, v)
  PROVE  Something(w)
<1>1. PICK u \in Seq(Punctuation) : u = <<c>> /\ Len(u) = 1
  BY OneByte
<1>2. Len(u \o v) = Len(u) + Len(v)
  BY <1>1, JoinedText
<1>3. w = u \o v
  BY <1>1 DEF Concats
<1>4. Len(w) # 0
  BY <1>1, <1>2, <1>3
<1>5. QED
  BY <1>4 DEF Something

\* The family has the text and the rows.
HasIn(S, w, x) == \E y \in S : y.text = w /\ y.rows = x.rows

\* Whatever stream the filter delivers, the family has the text with these rows.
SoundFor(S, n, st, e, h) ==
  \A s, w, m, x : /\ Stands(s, st, e, h) /\ w \in Seq(Characters) /\ Len(w) = n
                  /\ m \in 0 .. LongestFile /\ x \in Streams[m] /\ Ends(s, w, x.text)
                  => HasIn(S, w, x)

\* A byte is put before it.
LEMMA AfterHas ==
  ASSUME NEW S, NEW c \in Characters, NEW v, NEW w, Concats(w, <<c>>, v), NEW z, HasIn(S, v, z),
         NEW x, x.rows = z.rows
  PROVE  HasIn(Skip(c, S), w, x)
<1>1. PICK y \in S : y.text = v /\ y.rows = z.rows
  BY DEF HasIn
<1>2. PICK g : g = After(<<c>>, y)
  OBVIOUS
<1>3. g \in Skip(c, S)
  BY <1>2, SkipMakes
<1>4. g.text = w /\ g.rows = x.rows
  BY <1>1, <1>2 DEF After, Concats
<1>5. QED
  BY <1>3, <1>4 DEF HasIn

\* White space is read.
LEMMA SpaceSound ==
  ASSUME NEW n \in Nat, NEW S, NEW e, NEW h, SoundFor(S, n, TRUE, e, h),
         NEW s, Stands(s, TRUE, e, h), NEW w \in Seq(Characters), Len(w) = n + 1,
         NEW m \in 0 .. LongestFile, NEW x \in Streams[m], Ends(s, w, x.text), IsSpace(w[1])
  PROVE  HasIn(Skip(" ", S), w, x)
<1>1. PICK c \in Characters, v \in Seq(Characters) : c = w[1] /\ Len(v) = n /\ Concats(w, <<c>>, v)
  BY CutFirst
<1>2. c \in Punctuation /\ v \in Seq(Punctuation) /\ w \in Seq(Punctuation)
  BY CharactersAreBytes, CharactersAssumption
<1>3. PICK t \in Seq(Punctuation), i \in Nat : t = <<c>> /\ Len(t) = i /\ i = 1 /\ t[i] = c
  BY <1>2, OneByte
<1>4. s \in Filter /\ s.out \in Seq(Punctuation)
  BY DEF Stands, Filter
<1>5. PICK r : r = Kept(s, t)
  OBVIOUS
<1>6. Stands(r, TRUE, e, h) /\ r \in Filter /\ Concats(r.out, s.out, t)
  <2>1. Stands(r, TRUE, e, h)
    BY <1>5, StandsKept
  <2>2. Concats(r.out, s.out, t)
    BY <1>4, <1>5 DEF Kept, Concats, Filter
  <2>3. QED
    BY <2>1, <2>2 DEF Stands
<1>7. Filtered(s, t)[i] = r
  <2>1. FilterByte(s, c) = r
    BY <1>1, <1>2, <1>3, <1>5, RowBytes DEF IsSpace
  <2>2. QED
    BY <1>2, <1>3, <1>4, <2>1, FilteredByte
<1>8. Concats(w, t, v)
  BY <1>1, <1>3
<1>9. PICK d \in Seq(Punctuation) : Concats(x.text, t, d) /\ Ends(r, v, d)
  BY <1>2, <1>3, <1>4, <1>6, <1>7, <1>8, EndsSplit
<1>10. Same(t, x.text, i)
  BY <1>3, <1>9, JoinedFirst
<1>11. IsSpace(x.text[1])
  <2>1. i \in 1 .. i
    BY <1>3
  <2>2. x.text[i] = c
    BY <1>3, <1>10, <2>1 DEF Same
  <2>3. QED
    BY <1>1, <1>3, <2>2
<1>12. m # 0 /\ SpaceFirst(x, m)
  <2>1. ~IsEmpty(x)
    <3>1. PICK a : a = x.text
      OBVIOUS
    <3>2. Concats(a, <<c>>, d)
      BY <1>3, <1>9, <3>1
    <3>3. Something(a)
      BY <1>2, <1>9, <3>2, ByteBefore
    <3>4. QED
      BY <3>1, <3>3 DEF IsEmpty, Something
  <2>2. ~RowFirst(x, m)
    BY <1>11, SpaceNoBrace DEF RowFirst
  <2>3. QED
    BY <2>1, <2>2, StreamFirst
<1>13. PICK b \in Punctuation : \E z \in Streams[m - 1] : SpaceAndRest(x, b, z)
  BY <1>12 DEF SpaceFirst
<1>14. PICK z \in Streams[m - 1] : SpaceAndRest(x, b, z)
  BY <1>13
<1>15. b = c /\ x.rows = z.rows
  BY <1>1, <1>14 DEF SpaceAndRest, IsSpace
<1>16. z.text \in Seq(Punctuation) /\ m - 1 \in 0 .. LongestFile
  BY <1>12, <1>14, SpaceOfStream
<1>17. Concats(x.text, t, z.text)
  BY <1>3, <1>14, <1>15 DEF SpaceAndRest
<1>18. d = z.text
  <2>1. PICK b2 \in Seq(Punctuation) : b2 = z.text
    BY <1>16
  <2>2. PICK a : a = x.text
    OBVIOUS
  <2>3. Concats(a, t, d) /\ Concats(a, t, b2)
    BY <1>9, <1>17, <2>1, <2>2
  <2>4. d = b2
    BY <1>3, <2>3, SameRest
  <2>5. QED
    BY <2>1, <2>4
<1>19. HasIn(S, v, z)
  BY <1>1, <1>6, <1>9, <1>14, <1>16, <1>18 DEF SoundFor
<1>20. HasIn(Skip(c, S), w, x)
  BY <1>1, <1>15, <1>19, AfterHas
<1>21. c = " "
  BY <1>1 DEF IsSpace
<1>22. QED
  BY <1>20, <1>21

\* A byte is read that is not kept.
LEMMA PassSound ==
  ASSUME NEW n \in Nat, NEW S, NEW st, NEW e, NEW h, SoundFor(S, n, st, e, h), NEW b,
         NEW ot, NEW oe, NEW oh, Turns(b, ot, oe, oh, st, e, h),
         NEW s, Stands(s, ot, oe, oh), NEW w \in Seq(Characters), Len(w) = n + 1,
         NEW m \in 0 .. LongestFile, NEW x \in Streams[m], Ends(s, w, x.text), w[1] = b
  PROVE  HasIn(Skip(b, S), w, x)
<1>1. PICK c \in Characters, v \in Seq(Characters) : c = w[1] /\ Len(v) = n /\ Concats(w, <<c>>, v)
  BY CutFirst
<1>2. c \in Punctuation /\ v \in Seq(Punctuation) /\ w \in Seq(Punctuation)
  BY CharactersAreBytes, CharactersAssumption
<1>3. PICK t \in Seq(Punctuation), i \in Nat : t = <<c>> /\ Len(t) = i /\ i = 1 /\ t[i] = c
  BY <1>2, OneByte
<1>4. s \in Filter /\ s.out \in Seq(Punctuation)
  BY DEF Stands, Filter
<1>5. PICK r : r = FilterByte(s, c) /\ Stands(r, st, e, h) /\ r.out = s.out
  BY <1>1 DEF Turns
<1>6. r \in Filter
  BY <1>5 DEF Stands
<1>7. Filtered(s, t)[i] = r
  BY <1>2, <1>3, <1>4, <1>5, FilteredByte
<1>8. Concats(w, t, v)
  BY <1>1, <1>3
<1>9. PICK o \in Seq(Punctuation) : o = <<>>
  BY NothingIsText
<1>10. Concats(r.out, s.out, o)
  BY <1>4, <1>5, <1>9 DEF Concats
<1>11. PICK d \in Seq(Punctuation) : Concats(x.text, o, d) /\ Ends(r, v, d)
  BY <1>2, <1>3, <1>4, <1>6, <1>7, <1>8, <1>10, EndsSplit
<1>12. x.text = d
  BY <1>9, <1>11 DEF Concats
<1>13. HasIn(S, v, x)
  BY <1>1, <1>5, <1>11, <1>12 DEF SoundFor
<1>14. HasIn(Skip(c, S), w, x)
  BY <1>1, <1>13, AfterHas
<1>15. QED
  BY <1>1, <1>14

\* A stream of nothing has no rows.
LEMMA EmptyStream ==
  ASSUME NEW m \in 0 .. LongestFile, NEW x \in Streams[m], ~Something(x.text)
  PROVE  x.rows = <<>>
<1>1. CASE IsEmpty(x)
  BY <1>1 DEF IsEmpty
<1>2. CASE m # 0 /\ SpaceFirst(x, m)
  <2>1. PICK c \in Punctuation : \E z \in Streams[m - 1] : SpaceAndRest(x, c, z)
    BY <1>2 DEF SpaceFirst
  <2>2. PICK z \in Streams[m - 1] : SpaceAndRest(x, c, z)
    BY <2>1
  <2>3. z.text \in Seq(Punctuation)
    BY <1>2, <2>2, SpaceOfStream
  <2>4. PICK b : b = z.text
    OBVIOUS
  <2>5. Concats(x.text, <<c>>, b)
    BY <2>2, <2>4 DEF SpaceAndRest
  <2>6. Something(x.text)
    BY <2>3, <2>4, <2>5, ByteBefore
  <2>7. QED
    BY <2>6
<1>3. CASE m # 0 /\ RowFirst(x, m)
  <2>1. PICK k \in 2 .. m : \E o \in Objects(k), z \in Streams[m - k] : RowAndRest(x, o, z)
    BY <1>3 DEF RowFirst
  <2>2. PICK o \in Objects(k), z \in Streams[m - k] : RowAndRest(x, o, z)
    BY <2>1
  <2>3. /\ o \in Seq(Punctuation) /\ Len(o) = k /\ z.text \in Seq(Punctuation)
        /\ Concats(x.text, o, z.text)
    BY <2>1, <2>2, RowOfStream
  <2>4. PICK a, b : b \in Seq(Punctuation) /\ b = z.text /\ a = x.text
    BY <2>3
  <2>5. Concats(a, o, b)
    BY <2>3, <2>4
  <2>6. Len(o \o b) = Len(o) + Len(b)
    BY <2>3, <2>4, JoinedText
  <2>7. a # <<>>
    BY <2>3, <2>4, <2>5, <2>6 DEF Concats
  <2>8. Something(x.text)
    BY <2>4, <2>7 DEF Something
  <2>9. QED
    BY <2>8
<1>4. QED
  BY <1>1, <1>2, <1>3, StreamFirst

\* The byte the filter is at, and what follows.
IsClose(x) == x = "]"
IsComma(x) == x = ","
Takes(s, w, c, v, r) ==
  /\ v \in Seq(Characters) /\ v \in Seq(Punctuation) /\ Concats(w, <<c>>, v)
  /\ r = FilterByte(s, c) /\ r \in Filter /\ Filtered(s, w)[1] = r

\* The filter takes the first byte.
LEMMA FirstTaken ==
  ASSUME NEW s \in Filter, NEW n \in Nat, NEW w \in Seq(Characters), Len(w) = n + 1
  PROVE  \E c, v, r : c \in Characters /\ c = w[1] /\ Len(v) = n /\ Takes(s, w, c, v, r)
<1>1. PICK c \in Characters, v \in Seq(Characters) : c = w[1] /\ Len(v) = n /\ Concats(w, <<c>>, v)
  BY CutFirst
<1>2. c \in Punctuation /\ v \in Seq(Punctuation) /\ w \in Seq(Punctuation)
  BY CharactersAreBytes, CharactersAssumption
<1>3. PICK r : r = FilterByte(s, c)
  OBVIOUS
<1>4. r \in Filter
  BY <1>2, <1>3, FilterByteTypes
<1>5. Filtered(s, w)[1] = r
  <2>1. 1 \in 1 .. Len(w)
    OBVIOUS
  <2>2. Filtered(s, w)[1] = FilterByte(Filtered(s, w)[1 - 1], w[1])
    BY <1>2, <2>1, FilteredStep
  <2>3. Filtered(s, w)[0] = s
    BY <1>2, FilteredStep
  <2>4. QED
    BY <1>1, <1>3, <2>2, <2>3
<1>6. QED
  BY <1>1, <1>2, <1>3, <1>4, <1>5 DEF Takes

\* A text that adds nothing is empty.
LEMMA NothingMore ==
  ASSUME NEW a \in Seq(Punctuation), NEW b \in Seq(Punctuation), Concats(a, a, b)
  PROVE  ~Something(b)
<1>1. Len(a \o b) = Len(a) + Len(b)
  BY JoinedText
<1>2. Len(b) = 0
  BY <1>1 DEF Concats
<1>3. QED
  BY <1>2 DEF Something

\* What the filter has kept where it ends.
LEMMA EndsOut ==
  ASSUME NEW s \in Filter, NEW w \in Seq(Punctuation), NEW b, Ends(s, w, b), NEW n \in Nat, Len(w) = n,
         NEW r, Filtered(s, w)[n] = r
  PROVE  b \in Seq(Punctuation) /\ Concats(r.out, s.out, b)
BY DEF Ends

\* White space after the bracket makes the end of an array.
LEMMA ClosedMakes ==
  ASSUME NEW n \in Nat, NEW v \in Spaces(n)
  PROVE  Text(<<"]">> \o v) \in Closed(n + 1)
<1>1. (n + 1) - 1 = n
  OBVIOUS
<1>2. QED
  BY <1>1 DEF Closed

\* The bracket is read.
LEMMA EndSound ==
  ASSUME NEW n \in Nat, NEW e, NEW h, MayEnd(e, h),
         NEW s, Stands(s, TRUE, e, h), NEW w \in Seq(Characters), Len(w) = n + 1,
         NEW m \in 0 .. LongestFile, NEW x \in Streams[m], Ends(s, w, x.text), IsClose(w[1])
  PROVE  HasIn(Closed(n + 1), w, x)
<1>1. s \in Filter /\ s.out \in Seq(Punctuation) /\ Proper(s) /\ w \in Seq(Punctuation)
  BY CharactersAreBytes DEF Stands, Filter, Proper
<1>2. PICK c, v, r : c \in Characters /\ c = w[1] /\ Len(v) = n /\ Takes(s, w, c, v, r)
  BY <1>1, FirstTaken
<1>3. c \in Punctuation
  BY <1>2, CharactersAssumption
<1>4. r = AtEnd(s)
  <2>1. c = "]"
    BY <1>2 DEF IsClose
  <2>2. FilterByte(s, c) = AtEnd(s)
    BY <1>3, <2>1, CloseByte
  <2>3. QED
    BY <1>2, <2>2 DEF Takes
<1>5. r.finished /\ ~r.bad /\ r.out = s.out
  BY <1>1, <1>4 DEF AtEnd, Filter, Stands
<1>6. PICK p \in Nat : p = 1 /\ Len(w) = p + n
  OBVIOUS
<1>7. Filtered(s, w)[p] = r
  BY <1>2, <1>6 DEF Takes
<1>8. Blank(w, p, n)
  <2>1. SUFFICES ASSUME ~Blank(w, p, n) PROVE FALSE
    OBVIOUS
  <2>2. Filtered(s, w)[Len(w)].bad
    BY <1>1, <1>5, <1>6, <1>7, <2>1, TrailerRefused
  <2>3. ~Filtered(s, w)[Len(w)].bad
    BY <1>1, EndsDone
  <2>4. QED
    BY <2>2, <2>3
<1>9. Filtered(s, w)[p + n] = r
  BY <1>1, <1>5, <1>6, <1>7, <1>8, Trailing
<1>10. x.text \in Seq(Punctuation) /\ Concats(s.out, s.out, x.text)
  BY <1>1, <1>5, <1>6, <1>9, EndsOut
<1>11. x.rows = <<>>
  BY <1>1, <1>10, NothingMore, EmptyStream
<1>12. v \in Spaces(n)
  <2>1. ASSUME NEW i \in 1 .. n PROVE IsSpace(v[i])
    <3>1. PICK t \in Seq(Punctuation) : t = <<c>> /\ Len(t) = p
      BY <1>3, <1>6, OneByte
    <3>2. IsTail(v, w, p)
      BY <1>2, <3>1, JoinedTail DEF Takes
    <3>3. v[i] = w[p + i]
      BY <1>2, <3>2 DEF IsTail
    <3>4. QED
      BY <1>8, <3>3 DEF Blank
  <2>2. QED
    BY <1>2, <2>1, SpacesMake DEF Takes
<1>13. PICK y : y = Text(<<"]">> \o v)
  OBVIOUS
<1>14. y \in Closed(n + 1)
  BY <1>12, <1>13, ClosedMakes
<1>15. y.text = w /\ y.rows = x.rows
  BY <1>2, <1>11, <1>13 DEF Text, Takes, Concats, IsClose
<1>16. QED
  BY <1>14, <1>15 DEF HasIn

\* Any other byte is refused.
Expected(x, e, h) == IsSpace(x) \/ (IsBrace(x) /\ e) \/ (IsComma(x) /\ ~e /\ h) \/ (IsClose(x) /\ MayEnd(e, h))

\* The filter refuses it.
LEMMA OtherByte ==
  ASSUME NEW s, NEW e, NEW h, Stands(s, TRUE, e, h), NEW x \in Punctuation, ~Expected(x, e, h)
  PROVE  FilterByte(s, x).bad
<1>1. /\ s \in Filter /\ s.finished = FALSE /\ s.bad = FALSE /\ s.depth = 0
      /\ s.in_string = FALSE /\ s.started = TRUE /\ s.array_started = TRUE
      /\ s.expect_value = e /\ s.has_value = h /\ e \in BOOLEAN /\ h \in BOOLEAN
  BY StandsTypes
<1>2. FilterByte(s, x) = RowByte(s, x)
  BY <1>1 DEF FilterByte, AfterStart
<1>3. x # " " /\ ~(x = "{" /\ e) /\ ~(x = "," /\ ~e /\ h) /\ ~(x = "]" /\ (~e \/ ~h))
  BY DEF Expected, IsSpace, IsBrace, IsComma, IsClose, MayEnd
<1>4. RowByte(s, x) = [s EXCEPT !.bad = TRUE]
  BY <1>1, <1>3 DEF RowByte
<1>5. QED
  BY <1>1, <1>2, <1>4 DEF Filter

\* A text of which the end is reached has none.
LEMMA OtherRefused ==
  ASSUME NEW n \in Nat, NEW e, NEW h,
         NEW s, Stands(s, TRUE, e, h), NEW w \in Seq(Characters), Len(w) = n + 1,
         NEW b, Ends(s, w, b)
  PROVE  Expected(w[1], e, h)
<1>1. s \in Filter /\ w \in Seq(Punctuation)
  BY CharactersAreBytes DEF Stands
<1>2. PICK c, v, r : c \in Characters /\ c = w[1] /\ Len(v) = n /\ Takes(s, w, c, v, r)
  BY <1>1, FirstTaken
<1>3. c \in Punctuation
  BY <1>2, CharactersAssumption
<1>4. Expected(c, e, h) \/ r.bad
  <2>1. SUFFICES ASSUME ~Expected(c, e, h) PROVE r.bad
    OBVIOUS
  <2>2. FilterByte(s, c).bad
    BY <1>3, <2>1, OtherByte
  <2>3. QED
    BY <1>2, <2>2 DEF Takes
<1>5. ~r.bad
  <2>1. \A i \in 0 .. n + 1 : ~Filtered(s, w)[i].bad
    BY <1>1, EndsDone
  <2>2. 1 \in 0 .. n + 1
    OBVIOUS
  <2>3. Filtered(s, w)[1] = r
    BY <1>2 DEF Takes
  <2>4. QED
    BY <2>1, <2>2, <2>3
<1>6. QED
  BY <1>2, <1>4, <1>5

\* Nothing does not end the array.
LEMMA NothingEnds ==
  ASSUME NEW s \in Filter, ~s.finished, NEW w \in Seq(Punctuation), Len(w) = 0, NEW b
  PROVE  ~Ends(s, w, b)
<1>1. Filtered(s, w)[0] = s
  BY FilteredStep
<1>2. QED
  BY <1>1 DEF Ends

\* The brace of a row is kept.
LEMMA BeganOut ==
  ASSUME NEW s, NEW e, NEW h, Stands(s, TRUE, e, h), NEW c \in Punctuation, IsBrace(c), e = TRUE
  PROVE  FilterByte(s, c) \in Filter /\ Concats(FilterByte(s, c).out, s.out, <<c>>)
<1>1. FilterByte(s, c) = Began(s)
  BY RowBytes DEF IsBrace
<1>2. s \in Filter /\ s.out \in Seq(Punctuation)
  BY DEF Stands, Filter
<1>3. Kept(s, <<"{">>).out = s.out \o <<"{">> /\ Kept(s, <<"{">>) \in Filter
  <2>1. <<"{">> \in Seq(Punctuation)
    BY OneByte, SpaceTypes
  <2>2. Kept(s, <<"{">>) \in Filter
    BY <1>2, <2>1, KeptTypes
  <2>3. Kept(s, <<"{">>).out = s.out \o <<"{">>
    BY <1>2 DEF Kept, Filter
  <2>4. QED
    BY <2>2, <2>3
<1>4. Began(s).out = Kept(s, <<"{">>).out
  BY <1>3 DEF Began, Filter
<1>5. FilterByte(s, c) \in Filter
  BY <1>2, FilterByteTypes
<1>6. QED
  BY <1>1, <1>3, <1>4, <1>5 DEF Concats, IsBrace

\* A stream of which a brace is read first begins with a row.
LEMMA RowStarts ==
  ASSUME NEW n \in Nat, NEW h, NEW s, Stands(s, TRUE, TRUE, h),
         NEW w \in Seq(Characters), Len(w) = n + 1,
         NEW m \in 0 .. LongestFile, NEW x \in Streams[m], Ends(s, w, x.text), IsBrace(w[1])
  PROVE  m # 0 /\ RowFirst(x, m)
<1>1. s \in Filter /\ s.out \in Seq(Punctuation) /\ w \in Seq(Punctuation)
  BY CharactersAreBytes DEF Stands, Filter
<1>2. PICK c, v, r : c \in Characters /\ c = w[1] /\ Len(v) = n /\ Takes(s, w, c, v, r)
  BY <1>1, FirstTaken
<1>3. c \in Punctuation
  BY <1>2, CharactersAssumption
<1>4. r \in Filter /\ Concats(r.out, s.out, <<c>>)
  BY <1>2, <1>3, BeganOut DEF Takes
<1>5. PICK t \in Seq(Punctuation), i \in Nat : t = <<c>> /\ Len(t) = i /\ i = 1 /\ t[i] = c
  BY <1>3, OneByte
<1>6. Filtered(s, t)[i] = r
  BY <1>1, <1>2, <1>3, <1>5, FilteredByte DEF Takes
<1>7. PICK b : b = x.text
  OBVIOUS
<1>8. PICK d \in Seq(Punctuation) : Concats(b, t, d) /\ Ends(r, v, d)
  <2>1. Concats(r.out, s.out, t) /\ Concats(w, t, v) /\ v \in Seq(Punctuation)
    BY <1>2, <1>4, <1>5 DEF Takes
  <2>2. Ends(s, w, b)
    BY <1>7
  <2>3. QED
    BY <1>1, <1>4, <1>5, <1>6, <2>1, <2>2, EndsSplit
<1>9. Something(b)
  BY <1>3, <1>5, <1>8, ByteBefore
<1>10. IsBrace(b[1])
  <2>1. Same(t, b, i)
    BY <1>5, <1>8, JoinedFirst
  <2>2. i \in 1 .. i
    BY <1>5
  <2>3. b[i] = c
    BY <1>5, <2>1, <2>2 DEF Same
  <2>4. QED
    BY <1>2, <1>5, <2>3
<1>11. ~IsEmpty(x)
  BY <1>7, <1>9 DEF IsEmpty, Something
<1>12. ~SpaceFirst(x, m)
  BY <1>7, <1>10, SpaceNoBrace DEF SpaceFirst
<1>13. QED
  BY <1>11, <1>12, StreamFirst

\* What is left of a length.
LEMMA Apart ==
  ASSUME NEW N \in Nat, NEW k, k \in 2 .. N
  PROVE  \E n \in Nat : N = k + n /\ n < N /\ n = N - k
<1>1. N - k \in Nat /\ N = k + (N - k) /\ N - k < N
  OBVIOUS
<1>2. QED
  BY <1>1

\* A row and the rest of it in the family of what may stand there.
LEMMA RowHas ==
  ASSUME NEW N \in Nat, NEW k \in 2 .. N, NEW o \in Objects(k), NEW n, n = N - k,
         NEW v, NEW z, HasIn(Tails[n].row, v, z),
         NEW w, Concats(w, o, v), NEW x, x.rows = <<o>> \o z.rows
  PROVE  HasIn(RowTexts(N), w, x)
<1>1. PICK y \in Tails[n].row : y.text = v /\ y.rows = z.rows
  BY DEF HasIn
<1>2. PICK g : g = WithRow(o, y)
  OBVIOUS
<1>3. g \in RowTexts(N)
  BY <1>2, RowsAtMake
<1>4. g.text = w /\ g.rows = x.rows
  BY <1>1, <1>2 DEF WithRow, After, Concats
<1>5. QED
  BY <1>3, <1>4 DEF HasIn

\* The families of what may follow a row, below N.
SoundBelow(N) == \A n \in 0 .. N - 1 : SoundFor(Tails[n].row, n, TRUE, FALSE, TRUE)

\* A row is read.
LEMMA RowSound ==
  ASSUME NEW n \in Nat, NEW N \in Nat, N = n + 1, SoundBelow(N), NEW h, NEW s, Stands(s, TRUE, TRUE, h),
         NEW w \in Seq(Characters), Len(w) = N,
         NEW m \in 0 .. LongestFile, NEW x \in Streams[m], Ends(s, w, x.text), IsBrace(w[1])
  PROVE  HasIn(RowTexts(N), w, x)
<1>1. s \in Filter /\ s.out \in Seq(Punctuation) /\ w \in Seq(Punctuation)
  BY CharactersAreBytes DEF Stands, Filter
<1>2. m # 0 /\ RowFirst(x, m)
  BY RowStarts
<1>3. PICK k \in 2 .. m : \E o \in Objects(k), z \in Streams[m - k] : RowAndRest(x, o, z)
  BY <1>2 DEF RowFirst
<1>4. PICK o \in Objects(k), z \in Streams[m - k] : RowAndRest(x, o, z)
  BY <1>3
<1>5. /\ k \in 2 .. LongestFile /\ k \in Nat /\ o \in Seq(Punctuation) /\ Len(o) = k
      /\ z.text \in Seq(Punctuation) /\ Concats(x.text, o, z.text)
      /\ x.rows = <<o>> \o z.rows
  BY <1>3, <1>4, RowOfStream
<1>6. PICK b, zt : zt \in Seq(Punctuation) /\ b = x.text /\ zt = z.text
  BY <1>5
<1>7. Concats(b, o, zt) /\ Ends(s, w, b)
  BY <1>5, <1>6
<1>8. k <= N /\ Same(o, w, k)
  <2>1. N # 0
    OBVIOUS
  <2>2. QED
    BY <1>1, <1>5, <1>7, <2>1, ObjectFirst
<1>9. k \in 2 .. N
  BY <1>5, <1>8
<1>10. PICK l \in Nat : N = k + l /\ l < N /\ l = N - k
  BY <1>9, Apart
<1>11. PICK u \in Seq(Characters), v \in Seq(Characters) :
        Len(u) = k /\ Len(v) = l /\ Concats(w, u, v) /\ Same(u, w, k)
  <2>1. Len(w) = k + l
    BY <1>10
  <2>2. QED
    BY <1>5, <2>1, Cut, ZenonT(40)
<1>12. u \in Seq(Punctuation) /\ v \in Seq(Punctuation)
  BY CharactersAreBytes
<1>13. u = o
  <2>1. \A i \in 1 .. k : u[i] = o[i]
    BY <1>8, <1>11 DEF Same
  <2>2. QED
    BY <1>5, <1>11, <1>12, <2>1, SameTexts
<1>14. PICK r : r = RowDone(s, o)
  OBVIOUS
<1>15. Stands(r, TRUE, FALSE, TRUE) /\ r \in Filter /\ Concats(r.out, s.out, o)
  BY <1>5, <1>14, RowDoneStands DEF Concats, Stands
<1>16. Filtered(s, o)[k] = r
  BY <1>5, <1>14, ObjectFiltered
<1>17. Concats(w, o, v)
  BY <1>11, <1>13
<1>18. PICK d \in Seq(Punctuation) : Concats(b, o, d) /\ Ends(r, v, d)
  BY <1>1, <1>5, <1>7, <1>12, <1>15, <1>16, <1>17, EndsSplit
<1>19. d = zt
  BY <1>5, <1>6, <1>7, <1>18, SameRest
<1>20. m - k \in 0 .. LongestFile
  BY <1>3, LongestNat
<1>21. HasIn(Tails[l].row, v, z)
  <2>1. l \in 0 .. N - 1
    BY <1>10
  <2>2. SoundFor(Tails[l].row, l, TRUE, FALSE, TRUE)
    BY <2>1 DEF SoundBelow
  <2>3. Ends(r, v, z.text)
    BY <1>6, <1>18, <1>19
  <2>4. QED
    BY <1>11, <1>15, <1>20, <2>2, <2>3 DEF SoundFor
<1>22. QED
  BY <1>4, <1>5, <1>9, <1>10, <1>17, <1>21, RowHas

\* A wider family has it too.
LEMMA HasWider ==
  ASSUME NEW A, NEW B, NEW w, NEW x, HasIn(A, w, x)
  PROVE  HasIn(A \cup B, w, x) /\ HasIn(B \cup A, w, x)
BY DEF HasIn

\* The bytes between rows differ.
LEMMA BytesApart ==
  ASSUME NEW b
  PROVE  /\ IsSpace(b) => b = " " /\ ~IsBrace(b) /\ ~IsComma(b) /\ ~IsClose(b)
         /\ IsComma(b) => b = ","
BY DEF IsSpace, IsBrace, IsComma, IsClose

\* No text is too short for the empty family.
LEMMA NothingSound ==
  ASSUME NEW S, NEW st, NEW e, NEW h
  PROVE  SoundFor(S, 0, st, e, h)
<1>1. ASSUME NEW s, NEW w, NEW m, NEW x, Stands(s, st, e, h), w \in Seq(Characters), Len(w) = 0,
             Ends(s, w, x.text)
      PROVE  FALSE
  <2>1. s \in Filter /\ ~s.finished /\ w \in Seq(Punctuation)
    BY <1>1, CharactersAreBytes DEF Stands
  <2>2. QED
    BY <1>1, <2>1, NothingEnds
<1>2. QED
  BY <1>1 DEF SoundFor

\* Where it is said what may follow.
LEMMA RowTailsSound ==
  ASSUME NEW n \in Nat, SoundFor(Tails[n].row, n, TRUE, FALSE, TRUE),
         SoundFor(Tails[n].comma, n, TRUE, TRUE, TRUE)
  PROVE  SoundFor(RowTails(n + 1), n + 1, TRUE, FALSE, TRUE)
<1>1. SUFFICES ASSUME NEW s, NEW w \in Seq(Characters), NEW m \in 0 .. LongestFile, NEW x \in Streams[m],
                      Stands(s, TRUE, FALSE, TRUE), Len(w) = n + 1, Ends(s, w, x.text)
               PROVE  HasIn(RowTails(n + 1), w, x)
  BY DEF SoundFor
<1>2. (n + 1) - 1 = n
  OBVIOUS
<1>3. Expected(w[1], FALSE, TRUE)
  BY <1>1, OtherRefused
<1>4. CASE IsSpace(w[1])
  <2>1. HasIn(Skip(" ", Tails[n].row), w, x)
    BY <1>1, <1>4, SpaceSound
  <2>2. QED
    BY <1>2, <2>1, HasWider DEF RowTails
<1>5. CASE IsComma(w[1])
  <2>1. PICK b : b = "," /\ w[1] = b
    BY <1>5, BytesApart
  <2>2. Turns(b, TRUE, FALSE, TRUE, TRUE, TRUE, TRUE)
    BY <2>1, CommaTurns
  <2>3. HasIn(Skip(b, Tails[n].comma), w, x)
    BY <1>1, <2>1, <2>2, PassSound
  <2>4. QED
    BY <1>2, <2>1, <2>3, HasWider DEF RowTails
<1>6. CASE IsClose(w[1])
  <2>1. MayEnd(FALSE, TRUE)
    BY DEF MayEnd
  <2>2. HasIn(Closed(n + 1), w, x)
    BY <1>1, <1>6, <2>1, EndSound
  <2>3. QED
    BY <2>2, HasWider DEF RowTails
<1>7. QED
  BY <1>3, <1>4, <1>5, <1>6, Zenon DEF Expected

\* The same after a comma.
LEMMA CommaTailsSound ==
  ASSUME NEW n \in Nat, NEW N \in Nat, N = n + 1, SoundBelow(N),
         SoundFor(Tails[n].comma, n, TRUE, TRUE, TRUE)
  PROVE  SoundFor(CommaTails(N), N, TRUE, TRUE, TRUE)
<1>1. SUFFICES ASSUME NEW s, NEW w \in Seq(Characters), NEW m \in 0 .. LongestFile, NEW x \in Streams[m],
                      Stands(s, TRUE, TRUE, TRUE), Len(w) = N, Ends(s, w, x.text)
               PROVE  HasIn(CommaTails(N), w, x)
  BY DEF SoundFor
<1>2. N - 1 = n /\ Len(w) = n + 1
  BY <1>1
<1>3. Expected(w[1], TRUE, TRUE)
  BY <1>1, <1>2, OtherRefused
<1>4. CASE IsSpace(w[1])
  <2>1. HasIn(Skip(" ", Tails[n].comma), w, x)
    BY <1>1, <1>2, <1>4, SpaceSound
  <2>2. QED
    BY <1>2, <2>1, HasWider DEF CommaTails
<1>5. CASE IsBrace(w[1])
  <2>1. HasIn(RowTexts(N), w, x)
    BY <1>1, <1>5, RowSound
  <2>2. QED
    BY <2>1, HasWider DEF CommaTails
<1>6. ~MayEnd(TRUE, TRUE)
  BY DEF MayEnd
<1>7. QED
  BY <1>3, <1>4, <1>5, <1>6, Zenon DEF Expected

\* The same after the opening bracket.
LEMMA OpenTailsSound ==
  ASSUME NEW n \in Nat, NEW N \in Nat, N = n + 1, SoundBelow(N),
         SoundFor(Tails[n].open, n, TRUE, TRUE, FALSE)
  PROVE  SoundFor(OpenTails(N), N, TRUE, TRUE, FALSE)
<1>1. SUFFICES ASSUME NEW s, NEW w \in Seq(Characters), NEW m \in 0 .. LongestFile, NEW x \in Streams[m],
                      Stands(s, TRUE, TRUE, FALSE), Len(w) = N, Ends(s, w, x.text)
               PROVE  HasIn(OpenTails(N), w, x)
  BY DEF SoundFor
<1>2. N - 1 = n /\ Len(w) = n + 1
  BY <1>1
<1>3. Expected(w[1], TRUE, FALSE)
  BY <1>1, <1>2, OtherRefused
<1>4. CASE IsSpace(w[1])
  <2>1. HasIn(Skip(" ", Tails[n].open), w, x)
    BY <1>1, <1>2, <1>4, SpaceSound
  <2>2. QED
    BY <1>2, <2>1, HasWider DEF OpenTails
<1>5. CASE IsBrace(w[1])
  <2>1. HasIn(RowTexts(N), w, x)
    BY <1>1, <1>5, RowSound
  <2>2. QED
    BY <2>1, HasWider DEF OpenTails
<1>6. CASE IsClose(w[1])
  <2>1. MayEnd(TRUE, FALSE)
    BY DEF MayEnd
  <2>2. HasIn(Closed(n + 1), w, x)
    BY <1>1, <1>2, <1>6, <2>1, EndSound
  <2>3. HasIn(Closed(N), w, x)
    BY <2>2
  <2>4. QED
    BY <2>3, HasWider DEF OpenTails
<1>7. QED
  BY <1>3, <1>4, <1>5, <1>6, Zenon DEF Expected

\* What the filter delivers is what may stand there.
TailsSound(n) == /\ SoundFor(Tails[n].row, n, TRUE, FALSE, TRUE)
                 /\ SoundFor(Tails[n].comma, n, TRUE, TRUE, TRUE)
                 /\ SoundFor(Tails[n].open, n, TRUE, TRUE, FALSE)

\* It holds for a length if it does for those below.
LEMMA TailsSoundStep ==
  ASSUME NEW N \in 0 .. LongestFile, \A n \in 0 .. N - 1 : TailsSound(n)
  PROVE  TailsSound(N)
<1>1. CASE N = 0
  BY <1>1, NothingSound DEF TailsSound
<1>2. CASE N # 0
  <2>1. N \in Nat
    BY LongestNat
  <2>2. PICK n \in Nat : N = n + 1 /\ n = N - 1
    <3>1. N - 1 \in Nat /\ N = (N - 1) + 1
      BY <1>2, <2>1
    <3>2. QED
      BY <3>1
  <2>3. TailsSound(n)
    BY <2>1, <2>2
  <2>4. SoundBelow(N)
    BY DEF SoundBelow, TailsSound
  <2>5. /\ Tails[N].row = RowTails(N) /\ Tails[N].comma = CommaTails(N)
        /\ Tails[N].open = OpenTails(N)
    BY <1>2, TailParts
  <2>6. SoundFor(RowTails(n + 1), n + 1, TRUE, FALSE, TRUE)
    BY <2>3, RowTailsSound DEF TailsSound
  <2>7. SoundFor(CommaTails(N), N, TRUE, TRUE, TRUE)
    BY <2>1, <2>2, <2>3, <2>4, CommaTailsSound DEF TailsSound
  <2>8. SoundFor(OpenTails(N), N, TRUE, TRUE, FALSE)
    BY <2>1, <2>2, <2>3, <2>4, OpenTailsSound DEF TailsSound
  <2>9. QED
    BY <2>2, <2>5, <2>6, <2>7, <2>8 DEF TailsSound
<1>3. QED
  BY <1>1, <1>2

\* It holds for every length.
LEMMA TailsAreSound == \A n \in 0 .. LongestFile : TailsSound(n)
<1>1. PICK N \in Nat : N = LongestFile
  BY LongestNat
<1> DEFINE K == {n \in Nat : n <= N /\ ~TailsSound(n)}
<1>2. SUFFICES ASSUME K # {} PROVE FALSE
  BY <1>1
<1>3. PICK m \in K : \A j \in K : m <= j
  <2>1. K \subseteq Nat
    OBVIOUS
  <2> HIDE DEF K
  <2>2. QED
    BY <1>2, <2>1, LeastExists
<1>4. m \in Nat /\ m <= N /\ ~TailsSound(m)
  OBVIOUS
<1>5. ASSUME NEW l \in Nat, l < m PROVE TailsSound(l)
  <2>1. l \notin K /\ l <= N
    <3>1. ~(m <= l) /\ l <= N
      BY <1>4, <1>5
    <3> HIDE DEF K
    <3>2. QED
      BY <1>3, <3>1
  <2>2. QED
    BY <2>1
<1> HIDE DEF K
<1>6. m \in 0 .. LongestFile
  BY <1>1, <1>4
<1>7. \A n \in 0 .. m - 1 : TailsSound(n)
  BY <1>4, <1>5
<1>8. QED
  BY <1>4, <1>6, <1>7, TailsSoundStep
-----------------------------------------------------------------------------
(* Before the opening bracket, and without one. *)

\* A file that is no array.
IsList(x) == x = "["
Plainly(s) == s.started /\ ~s.finished /\ ~s.array_started /\ ~s.bad

\* There every byte is kept.
LEMMA PlainAfter ==
  ASSUME NEW s \in Filter, Plainly(s), NEW x \in Punctuation
  PROVE  Plainly(AfterStart(s, x)) /\ AfterStart(s, x).out = Append(s.out, x)
<1>1. /\ s.started = TRUE /\ s.finished = FALSE /\ s.array_started = FALSE /\ s.bad = FALSE
  BY DEF Plainly, Filter
<1>2. PICK k : k = Keep(s, x)
  OBVIOUS
<1>3. k \in Filter /\ Plainly(k) /\ k.out = Append(s.out, x)
  <2>1. k \in Filter
    BY <1>2, KeepTypes
  <2>2. QED
    BY <1>1, <1>2, <2>1 DEF Keep, Plainly, Filter
<1>4. CASE s.in_string
  <2>1. AfterStart(s, x) = StringByte(s, x)
    BY <1>1, <1>4 DEF AfterStart
  <2>2. QED
    BY <1>2, <1>3, <2>1 DEF StringByte, Plainly, Filter
<1>5. CASE ~s.in_string
  <2>1. AfterStart(s, x) = InnerByte(s, x)
    BY <1>1, <1>5 DEF AfterStart
  <2>2. QED
    BY <1>2, <1>3, <2>1 DEF InnerByte, Plainly, Filter
<1>6. QED
  BY <1>4, <1>5

\* So it is when it has started.
LEMMA PlainByte ==
  ASSUME NEW s \in Filter, Plainly(s), NEW x \in Punctuation
  PROVE  Plainly(FilterByte(s, x)) /\ FilterByte(s, x).out = Append(s.out, x)
<1>1. FilterByte(s, x) = AfterStart(s, x)
  BY DEF FilterByte, Plainly, Filter
<1>2. QED
  BY <1>1, PlainAfter

\* The first byte that is neither white space nor a bracket starts it.
LEMMA FirstPlain ==
  ASSUME NEW s, Stands(s, FALSE, FALSE, FALSE), NEW x \in Punctuation, ~IsSpace(x), ~IsList(x)
  PROVE  Plainly(FilterByte(s, x)) /\ FilterByte(s, x).out = Append(s.out, x)
<1>1. /\ s \in Filter /\ s.finished = FALSE /\ s.bad = FALSE /\ s.started = FALSE
      /\ s.array_started = FALSE
  BY StandsTypes
<1>2. PICK t : t = [s EXCEPT !.started = TRUE]
  OBVIOUS
<1>3. t \in Filter /\ Plainly(t) /\ t.out = s.out
  BY <1>1, <1>2 DEF Filter, Plainly
<1>4. FilterByte(s, x) = AfterStart(t, x)
  BY <1>1, <1>2 DEF FilterByte, IsSpace, IsList
<1>5. QED
  BY <1>3, <1>4, PlainAfter

\* All of the text has been kept.
PlainSo(r, w, i, q) == /\ r \in Filter /\ Plainly(r) /\ Len(r.out) = q + i
                       /\ \A j \in 1 .. i : r.out[q + j] = w[j]

\* One more byte is kept.
LEMMA PlainStep ==
  ASSUME NEW r \in Filter, NEW t \in Filter, NEW w, NEW i \in Nat, NEW q \in Nat, NEW x,
         Len(r.out) = q + i, \A j \in 1 .. i : r.out[q + j] = w[j],
         Plainly(t), t.out = Append(r.out, x), x = w[i + 1]
  PROVE  PlainSo(t, w, i + 1, q)
<1>1. PICK a, b : a \in Seq(Punctuation) /\ a = r.out /\ b = t.out
  BY DEF Filter
<1>2. Len(a) = q + i /\ b = Append(a, x)
  BY <1>1
<1>3. Len(b) = q + (i + 1)
  BY <1>2
<1>4. ASSUME NEW j \in 1 .. i + 1 PROVE b[q + j] = w[j]
  <2>1. CASE j = i + 1
    BY <1>2, <2>1
  <2>2. CASE j # i + 1
    <3>1. j \in 1 .. i
      BY <2>2
    <3>2. q + j \in 1 .. Len(a)
      BY <1>2, <3>1
    <3>3. b[q + j] = a[q + j]
      BY <1>2, <3>2
    <3>4. QED
      BY <1>1, <3>1, <3>3
  <2>3. QED
    BY <2>1, <2>2
<1>5. QED
  BY <1>1, <1>3, <1>4 DEF PlainSo

\* From the first byte on all is kept.
LEMMA PlainAll ==
  ASSUME NEW s, Stands(s, FALSE, FALSE, FALSE), NEW w \in Seq(Punctuation), NEW N \in Nat, Len(w) = N,
         N # 0, ~IsSpace(w[1]), ~IsList(w[1]), NEW q, q = Len(s.out)
  PROVE  \A i \in 1 .. N : PlainSo(Filtered(s, w)[i], w, i, q)
<1>1. s \in Filter /\ s.out \in Seq(Punctuation) /\ q \in Nat
  BY DEF Stands, Filter
<1>2. PICK g : g = Filtered(s, w)
  OBVIOUS
<1>3. g[0] = s /\ (\A n \in 1 .. N : g[n] = FilterByte(g[n - 1], w[n]))
  BY <1>1, <1>2, FilteredStep
<1>4. \A n \in 0 .. N : g[n] \in Filter
  BY <1>1, <1>2, FilteredTypes
<1>5. \A n \in 1 .. N : w[n] \in Punctuation
  OBVIOUS
<1> DEFINE K == {n \in Nat : n >= 1 /\ n <= N /\ ~PlainSo(g[n], w, n, q)}
<1>6. SUFFICES ASSUME K # {} PROVE FALSE
  BY <1>2
<1>7. PICK m \in K : \A j \in K : m <= j
  <2>1. K \subseteq Nat
    OBVIOUS
  <2> HIDE DEF K
  <2>2. QED
    BY <1>6, <2>1, LeastExists
<1>8. m \in Nat /\ m >= 1 /\ m <= N /\ ~PlainSo(g[m], w, m, q)
  OBVIOUS
<1>9. PICK l \in Nat : l = m - 1 /\ m = l + 1 /\ l < m
  BY <1>8
<1>10. l = 0 \/ PlainSo(g[l], w, l, q)
  <2>1. SUFFICES ASSUME l # 0 PROVE PlainSo(g[l], w, l, q)
    OBVIOUS
  <2>2. l \notin K
    <3>1. ~(m <= l)
      BY <1>8, <1>9
    <3> HIDE DEF K
    <3>2. QED
      BY <1>7, <3>1
  <2>3. l >= 1 /\ l <= N
    BY <1>8, <1>9, <2>1
  <2>4. QED
    BY <2>2, <2>3
<1> HIDE DEF K
<1>11. PICK x \in Punctuation : x = w[m] /\ g[m] = FilterByte(g[l], x)
  BY <1>3, <1>5, <1>8, <1>9
<1>12. PICK r \in Filter, t \in Filter : r = g[l] /\ t = g[m] /\ t = FilterByte(r, x)
  BY <1>4, <1>8, <1>9, <1>11
<1>13. Plainly(t) /\ t.out = Append(r.out, x)
  <2>1. CASE l = 0
    <3>1. r = s /\ ~IsSpace(x) /\ ~IsList(x)
      BY <1>3, <1>9, <1>11, <1>12, <2>1
    <3>2. QED
      BY <1>12, <3>1, FirstPlain
  <2>2. CASE PlainSo(g[l], w, l, q)
    BY <1>12, <2>2, PlainByte DEF PlainSo
  <2>3. QED
    BY <1>10, <2>1, <2>2
<1>14. Len(r.out) = q + l /\ \A j \in 1 .. l : r.out[q + j] = w[j]
  <2>1. CASE l = 0
    BY <1>1, <1>3, <1>12, <2>1
  <2>2. CASE PlainSo(g[l], w, l, q)
    BY <1>12, <2>2 DEF PlainSo
  <2>3. QED
    BY <1>10, <2>1, <2>2
<1>15. PlainSo(t, w, l + 1, q)
  BY <1>1, <1>9, <1>11, <1>13, <1>14, PlainStep
<1>16. QED
  BY <1>8, <1>9, <1>12, <1>15

\* A file the filter reads as an array begins with white space and a bracket.
LEMMA LeadOther ==
  ASSUME NEW n \in Nat, NEW s, Stands(s, FALSE, FALSE, FALSE),
         NEW w \in Seq(Characters), Len(w) = n + 1, NEW b, Ends(s, w, b), ~IsSpace(w[1])
  PROVE  IsList(w[1])
<1>1. SUFFICES ASSUME ~IsList(w[1]) PROVE FALSE
  OBVIOUS
<1>2. PICK N \in Nat : N = n + 1 /\ N # 0 /\ N \in 1 .. N /\ Len(w) = N
  OBVIOUS
<1>3. w \in Seq(Punctuation)
  BY CharactersAreBytes
<1>4. PICK q : q = Len(s.out)
  OBVIOUS
<1>5. PlainSo(Filtered(s, w)[N], w, N, q)
  BY <1>1, <1>2, <1>3, <1>4, PlainAll
<1>6. Filtered(s, w)[N].array_started
  BY <1>2 DEF Ends
<1>7. QED
  BY <1>5, <1>6 DEF PlainSo, Plainly

\* White space before the bracket changes nothing.
LEMMA LeadTurns == Turns(" ", FALSE, FALSE, FALSE, FALSE, FALSE, FALSE)
<1>1. PICK c \in Punctuation : c = " "
  BY SpaceTypes
<1>2. Turns(c, FALSE, FALSE, FALSE, FALSE, FALSE, FALSE)
  BY <1>1, LeadByte DEF Turns
<1>3. QED
  BY <1>1, <1>2

\* The same before the opening bracket.
LeadSound(n) == SoundFor(Lead[n], n, FALSE, FALSE, FALSE)

\* It holds for one byte more.
LEMMA LeadSoundStep ==
  ASSUME NEW n \in Nat, n + 1 \in 0 .. LongestFile, LeadSound(n)
  PROVE  LeadSound(n + 1)
<1>1. SUFFICES ASSUME NEW s, NEW w \in Seq(Characters), NEW m \in 0 .. LongestFile, NEW x \in Streams[m],
                      Stands(s, FALSE, FALSE, FALSE), Len(w) = n + 1, Ends(s, w, x.text)
               PROVE  HasIn(Lead[n + 1], w, x)
  BY DEF SoundFor, LeadSound
<1>2. PICK N : N = n + 1 /\ N - 1 = n /\ N # 0 /\ N \in 0 .. LongestFile
  OBVIOUS
<1>3. Lead[N] = Skip("[", Tails[n].open) \cup Skip(" ", Lead[n])
  <2>1. Lead[N] = LeadOf(Lead, N)
    BY <1>2, LeadUnfold
  <2>2. QED
    BY <1>2, <2>1 DEF LeadOf
<1> DEFINE A == Skip("[", Tails[n].open)
           B == Skip(" ", Lead[n])
<1>4. n \in 0 .. LongestFile
  BY LongestNat
<1>5. Lead[N] = A \cup B
  BY <1>3
<1>6. (HasIn(A, w, x) => HasIn(A \cup B, w, x)) /\ (HasIn(B, w, x) => HasIn(A \cup B, w, x))
  <2> HIDE DEF A, B
  <2>1. QED
    BY HasWider
<1>7. CASE IsSpace(w[1])
  <2>1. PICK b : b = " " /\ w[1] = b
    BY <1>7 DEF IsSpace
  <2>2. Turns(b, FALSE, FALSE, FALSE, FALSE, FALSE, FALSE)
    BY <2>1, LeadTurns
  <2>3. HasIn(Skip(b, Lead[n]), w, x)
    BY <1>1, <2>1, <2>2, PassSound DEF LeadSound
  <2>4. HasIn(Lead[N], w, x)
    <3>1. HasIn(B, w, x)
      BY <2>1, <2>3
    <3> HIDE DEF A, B
    <3>2. QED
      BY <1>5, <1>6, <3>1
  <2>5. QED
    BY <1>2, <2>4
<1>8. CASE IsList(w[1])
  <2>1. PICK b : b = "[" /\ w[1] = b
    BY <1>8 DEF IsList
  <2>2. Turns(b, FALSE, FALSE, FALSE, TRUE, TRUE, FALSE)
    BY <2>1, CommaTurns
  <2>3. SoundFor(Tails[n].open, n, TRUE, TRUE, FALSE)
    BY <1>4, TailsAreSound DEF TailsSound
  <2>4. HasIn(Skip(b, Tails[n].open), w, x)
    BY <1>1, <2>1, <2>2, <2>3, PassSound
  <2>5. HasIn(Lead[N], w, x)
    <3>1. HasIn(A, w, x)
      BY <2>1, <2>4
    <3> HIDE DEF A, B
    <3>2. QED
      BY <1>5, <1>6, <3>1
  <2>6. QED
    BY <1>2, <2>5
<1>9. QED
  BY <1>1, <1>7, <1>8, LeadOther

\* It holds for every length.
LEMMA LeadIsSound == \A n \in 0 .. LongestFile : LeadSound(n)
<1>1. PICK N \in Nat : N = LongestFile
  BY LongestNat
<1> DEFINE K == {n \in Nat : n <= N /\ ~LeadSound(n)}
<1>2. SUFFICES ASSUME K # {} PROVE FALSE
  BY <1>1
<1>3. PICK m \in K : \A j \in K : m <= j
  <2>1. K \subseteq Nat
    OBVIOUS
  <2> HIDE DEF K
  <2>2. QED
    BY <1>2, <2>1, LeastExists
<1>4. m \in Nat /\ m <= N /\ ~LeadSound(m)
  OBVIOUS
<1>5. CASE m = 0
  BY <1>4, <1>5, NothingSound DEF LeadSound
<1>6. CASE m # 0
  <2>1. PICK l \in Nat : l < m /\ l + 1 = m /\ l <= N
    <3>1. m - 1 \in Nat /\ m - 1 < m /\ (m - 1) + 1 = m /\ m - 1 <= N
      BY <1>4, <1>6
    <3>2. QED
      BY <3>1
  <2>2. l \notin K
    <3>1. ~(m <= l)
      BY <1>4, <2>1
    <3> HIDE DEF K
    <3>2. QED
      BY <1>3, <3>1
  <2>3. LeadSound(l)
    BY <2>1, <2>2
  <2>4. l + 1 \in 0 .. LongestFile
    BY <1>1, <1>4, <2>1
  <2>5. LeadSound(l + 1)
    BY <2>3, <2>4, LeadSoundStep
  <2>6. QED
    BY <1>4, <2>1, <2>5
<1>7. QED
  BY <1>5, <1>6

\* The array files and what is in them.
LEMMA ArrayParts ==
  ASSUME NEW a \in Arrays
  PROVE  \E n \in 0 .. LongestFile : a \in Lead[n]
BY DEF Arrays

\* An array of some length is an array.
LEMMA ArrayMakes ==
  ASSUME NEW n \in 0 .. LongestFile, NEW a \in Lead[n]
  PROVE  a \in Arrays
BY DEF Arrays

\* A stream of some length is parsed.
LEMMA StreamParsed ==
  ASSUME NEW n \in 0 .. LongestFile, NEW x \in Streams[n]
  PROVE  x \in Parsed
BY DEF Parsed

\* What is parsed has a length.
LEMMA ParsedParts ==
  ASSUME NEW x \in Parsed
  PROVE  \E n \in 0 .. LongestFile : x \in Streams[n]
BY DEF Parsed

\* A stream the filter delivers of a whole file: the file is an array of its rows.
LEMMA DeliveredIsArray ==
  ASSUME NEW w \in Seq(Characters), NEW n \in 0 .. LongestFile, Len(w) = n,
         NEW x \in Parsed, Ends(Fresh, w, x.text)
  PROVE  \E a \in Arrays : a.text = w /\ a.rows = x.rows
<1>1. PICK m \in 0 .. LongestFile : x \in Streams[m]
  BY ParsedParts
<1>2. Stands(Fresh, FALSE, FALSE, FALSE)
  BY StandsFresh
<1>3. SoundFor(Lead[n], n, FALSE, FALSE, FALSE)
  BY LeadIsSound DEF LeadSound
<1>4. HasIn(Lead[n], w, x)
  BY <1>1, <1>2, <1>3 DEF SoundFor
<1>5. QED
  BY <1>4, ArrayMakes DEF HasIn

\* What the filter delivers of an array.
LEMMA ArrayIsDelivered ==
  ASSUME NEW a \in Arrays
  PROVE  \E x \in Parsed : x.rows = a.rows /\ Ends(Fresh, a.text, x.text)
<1>1. PICK n \in 0 .. LongestFile : a \in Lead[n]
  BY ArrayParts
<1>2. Delivers(a, n, FALSE, FALSE, FALSE)
  BY <1>1, ArraysAreGood DEF LeadGood, AllGood, Good
<1>3. PICK m \in 0 .. n : \E x \in Streams[m] : x.rows = a.rows /\ Ends(Fresh, a.text, x.text)
  BY <1>2, StandsFresh DEF Delivers
<1>4. m \in 0 .. LongestFile
  BY <1>3, LongestNat
<1>5. QED
  BY <1>3, <1>4, StreamParsed

\* After the opening bracket a file stays an array.
LEMMA ArrayByte ==
  ASSUME NEW s \in Filter, s.array_started, NEW x \in Punctuation
  PROVE  FilterByte(s, x).array_started
<1>1. ASSUME NEW t \in Filter, t.array_started PROVE AfterStart(t, x).array_started
  <2>1. PICK k : k = Keep(t, x)
    OBVIOUS
  <2>2. k \in Filter /\ k.array_started
    <3>1. k \in Filter
      BY <1>1, <2>1, KeepTypes
    <3>2. QED
      BY <1>1, <2>1, <3>1 DEF Keep, Filter
  <2>3. StringByte(t, x).array_started
    BY <2>1, <2>2 DEF StringByte, Filter
  <2>4. InnerByte(t, x).array_started
    BY <2>1, <2>2 DEF InnerByte, Filter
  <2>5. RowByte(t, x).array_started
    BY <1>1, <2>1, <2>2 DEF RowByte, Filter
  <2>6. QED
    BY <1>1, <2>3, <2>4, <2>5 DEF AfterStart, Filter
<1>2. PICK t : t = [s EXCEPT !.started = TRUE]
  OBVIOUS
<1>3. t \in Filter /\ t.array_started
  BY <1>2 DEF Filter
<1>4. AfterStart(t, x).array_started /\ AfterStart(s, x).array_started
  BY <1>1, <1>3
<1>5. [s EXCEPT !.started = TRUE, !.array_started = TRUE, !.expect_value = TRUE].array_started
  BY DEF Filter
<1>6. QED
  BY <1>2, <1>4, <1>5 DEF FilterByte, Filter

\* So it does over a text.
LEMMA ArrayStays ==
  ASSUME NEW s \in Filter, NEW w \in Seq(Punctuation), NEW N \in Nat, Len(w) = N,
         NEW p \in 0 .. N, Filtered(s, w)[p].array_started
  PROVE  Filtered(s, w)[N].array_started
<1>1. PICK g : g = Filtered(s, w)
  OBVIOUS
<1>2. \A n \in 1 .. N : g[n] = FilterByte(g[n - 1], w[n])
  BY <1>1, FilteredStep
<1>3. \A n \in 0 .. N : g[n] \in Filter
  BY <1>1, FilteredTypes
<1>4. \A n \in 1 .. N : w[n] \in Punctuation
  OBVIOUS
<1> DEFINE K == {n \in Nat : p <= n /\ n <= N /\ ~g[n].array_started}
<1>5. SUFFICES ASSUME K # {} PROVE FALSE
  BY <1>1
<1>6. PICK m \in K : \A j \in K : m <= j
  <2>1. K \subseteq Nat
    OBVIOUS
  <2> HIDE DEF K
  <2>2. QED
    BY <1>5, <2>1, LeastExists
<1>7. m \in Nat /\ p <= m /\ m <= N /\ ~g[m].array_started
  OBVIOUS
<1>8. m # p
  BY <1>1, <1>7
<1>9. PICK l \in Nat : l = m - 1 /\ l < m /\ p <= l /\ l <= N /\ m \in 1 .. N
  BY <1>7, <1>8
<1>10. g[l].array_started
  <2>1. l \notin K
    <3>1. ~(m <= l)
      BY <1>7, <1>9
    <3> HIDE DEF K
    <3>2. QED
      BY <1>6, <3>1
  <2>2. QED
    BY <1>9, <2>1
<1> HIDE DEF K
<1>11. g[l] \in Filter /\ w[m] \in Punctuation /\ g[m] = FilterByte(g[l], w[m])
  BY <1>2, <1>3, <1>4, <1>9
<1>12. QED
  BY <1>7, <1>10, <1>11, ArrayByte

\* White space before anything else leaves the filter as it was.
LEMMA LeadBlank ==
  ASSUME NEW s, Stands(s, FALSE, FALSE, FALSE), NEW w \in Seq(Punctuation), NEW N \in Nat, Len(w) = N,
         NEW p \in 0 .. N, \A i \in 1 .. p : IsSpace(w[i])
  PROVE  Filtered(s, w)[p] = s
<1>1. PICK g : g = Filtered(s, w)
  OBVIOUS
<1>2. s \in Filter
  BY DEF Stands
<1>3. g[0] = s /\ (\A n \in 1 .. N : g[n] = FilterByte(g[n - 1], w[n]))
  BY <1>1, <1>2, FilteredStep
<1>4. \A n \in 1 .. N : w[n] \in Punctuation
  OBVIOUS
<1> DEFINE K == {n \in Nat : n <= p /\ g[n] # s}
<1>5. SUFFICES ASSUME K # {} PROVE FALSE
  BY <1>1
<1>6. PICK m \in K : \A j \in K : m <= j
  <2>1. K \subseteq Nat
    OBVIOUS
  <2> HIDE DEF K
  <2>2. QED
    BY <1>5, <2>1, LeastExists
<1>7. m \in Nat /\ m <= p /\ g[m] # s
  OBVIOUS
<1>8. m # 0
  BY <1>3, <1>7
<1>9. PICK l \in Nat : l = m - 1 /\ l < m /\ l <= p /\ m \in 1 .. N /\ m \in 1 .. p
  BY <1>7, <1>8
<1>10. g[l] = s
  <2>1. l \notin K
    <3>1. ~(m <= l)
      BY <1>7, <1>9
    <3> HIDE DEF K
    <3>2. QED
      BY <1>6, <3>1
  <2>2. QED
    BY <1>9, <2>1
<1> HIDE DEF K
<1>11. w[m] \in Punctuation /\ IsSpace(w[m]) /\ g[m] = FilterByte(s, w[m])
  BY <1>3, <1>4, <1>9, <1>10
<1>12. FilterByte(s, w[m]) = s
  BY <1>11, LeadByte DEF IsSpace
<1>13. QED
  BY <1>7, <1>11, <1>12

\* The file is taken for an array.
ArrayText(w, n) == \E k \in 1 .. n : IsList(w[k]) /\ \A i \in 1 .. k - 1 : IsSpace(w[i])

\* Its bracket is read as one.
LEMMA ArrayTextStarts ==
  ASSUME NEW w \in Seq(Punctuation), NEW N \in Nat, Len(w) = N, ArrayText(w, N)
  PROVE  Filtered(Fresh, w)[N].array_started
<1>1. PICK k \in 1 .. N : IsList(w[k]) /\ \A i \in 1 .. k - 1 : IsSpace(w[i])
  BY DEF ArrayText
<1>2. PICK p \in 0 .. N : p = k - 1
  BY <1>1
<1>3. Stands(Fresh, FALSE, FALSE, FALSE) /\ Fresh \in Filter
  BY StandsFresh DEF Stands
<1>4. Filtered(Fresh, w)[p] = Fresh
  BY <1>1, <1>2, <1>3, LeadBlank
<1>5. Filtered(Fresh, w)[k] = FilterByte(Fresh, w[k])
  BY <1>1, <1>2, <1>3, <1>4, FilteredStep
<1>6. FilterByte(Fresh, w[k]).array_started
  <2>1. w[k] \in Punctuation
    BY <1>1
  <2>2. Stands(FilterByte(Fresh, w[k]), TRUE, TRUE, FALSE)
    BY <1>1, <1>3, <2>1, LeadByte DEF IsList
  <2>3. QED
    BY <2>2 DEF Stands
<1>7. k \in 0 .. N /\ Filtered(Fresh, w)[k].array_started
  BY <1>1, <1>5, <1>6
<1>8. QED
  BY <1>3, <1>7, ArrayStays

\* The first byte that is no white space.
LEMMA FirstByte ==
  ASSUME NEW w, NEW N \in Nat
  PROVE  \/ \A i \in 1 .. N : IsSpace(w[i])
         \/ \E k \in 1 .. N : ~IsSpace(w[k]) /\ \A i \in 1 .. k - 1 : IsSpace(w[i])
<1> DEFINE K == {n \in Nat : n \in 1 .. N /\ ~IsSpace(w[n])}
<1>1. CASE K = {}
  BY <1>1
<1>2. CASE K # {}
  <2>1. PICK m \in K : \A j \in K : m <= j
    <3>1. K \subseteq Nat
      OBVIOUS
    <3> HIDE DEF K
    <3>2. QED
      BY <1>2, <3>1, LeastExists
  <2>2. m \in 1 .. N /\ ~IsSpace(w[m])
    OBVIOUS
  <2>3. ASSUME NEW i \in 1 .. m - 1 PROVE IsSpace(w[i])
    <3>1. i \in Nat /\ i \in 1 .. N /\ ~(m <= i)
      BY <2>2
    <3>2. i \notin K
      <4> HIDE DEF K
      <4>1. QED
        BY <2>1, <3>1
    <3>3. QED
      BY <3>1, <3>2
  <2>4. QED
    BY <2>2, <2>3
<1>3. QED
  BY <1>1, <1>2

\* What is left after white space.
LEMMA TrimmedAt ==
  ASSUME NEW w \in Seq(Punctuation), NEW N \in Nat, Len(w) = N, NEW k \in 0 .. N,
         \A i \in 1 .. k : IsSpace(w[i]),
         NEW d \in Seq(Punctuation), Len(d) = N - k, \A j \in 1 .. N - k : d[j] = w[k + j]
  PROVE  IsTrimmed(d, w)
<1>1. PICK v : v = SubSeq(w, k + 1, N)
  OBVIOUS
<1>2. v \in Seq(Punctuation) /\ Len(v) = N - k /\ \A j \in 1 .. N - k : v[j] = w[k + j]
  BY <1>1
<1>3. d = v
  BY <1>2, SameTexts
<1>4. k \in 0 .. Len(w) /\ d = SubSeq(w, k + 1, Len(w)) /\ \A i \in 1 .. k : w[i] = " "
  BY <1>1, <1>3 DEF IsSpace
<1>5. QED
  BY <1>4 DEF IsTrimmed

\* The rest of a text.
LEMMA RestOf ==
  ASSUME NEW w \in Seq(Punctuation), NEW N \in Nat, Len(w) = N, NEW p \in Nat, NEW m \in Nat, p + m = N
  PROVE  \E v \in Seq(Punctuation) : Len(v) = m /\ IsTail(v, w, p)
<1>1. PICK k \in 0 .. N : k = p /\ N - k = m
  OBVIOUS
<1>2. PICK v : v = SubSeq(w, k + 1, N)
  OBVIOUS
<1>3. v \in Seq(Punctuation) /\ Len(v) = N - k /\ \A j \in 1 .. N - k : v[j] = w[k + j]
  BY <1>2
<1>4. p + Len(v) = N
  BY <1>1, <1>3
<1>5. QED
  BY <1>1, <1>3, <1>4 DEF IsTail

\* A file that is no array is delivered from its first character on.
LEMMA PlainTextRead ==
  ASSUME NEW w \in Seq(Punctuation), NEW N \in Nat, Len(w) = N, ~ArrayText(w, N)
  PROVE  IsTrimmed(Filtered(Fresh, w)[N].out, w)
<1>1. Stands(Fresh, FALSE, FALSE, FALSE) /\ Fresh \in Filter
  BY StandsFresh DEF Stands
<1>2. PICK o \in Seq(Punctuation) : o = Fresh.out /\ Len(o) = 0
  BY NothingIsText DEF Fresh
<1>3. CASE \A i \in 1 .. N : IsSpace(w[i])
  <2>1. N \in 0 .. N
    OBVIOUS
  <2>2. Filtered(Fresh, w)[N] = Fresh
    BY <1>1, <1>3, <2>1, LeadBlank
  <2>3. Len(o) = N - N /\ \A j \in 1 .. N - N : o[j] = w[N + j]
    BY <1>2
  <2>4. IsTrimmed(o, w)
    BY <1>3, <2>1, <2>3, TrimmedAt
  <2>5. QED
    BY <1>2, <2>2, <2>4
<1>4. CASE \E k \in 1 .. N : ~IsSpace(w[k]) /\ \A i \in 1 .. k - 1 : IsSpace(w[i])
  <2>1. PICK k \in 1 .. N : ~IsSpace(w[k]) /\ \A i \in 1 .. k - 1 : IsSpace(w[i])
    BY <1>4
  <2>2. ~IsList(w[k])
    BY <2>1 DEF ArrayText
  <2>3. PICK p \in 0 .. N, m \in Nat : p = k - 1 /\ m = N - p /\ m # 0 /\ p + m = N /\ p + 1 = k /\ m \in 1 .. m
    <3>1. k - 1 \in 0 .. N /\ N - (k - 1) \in Nat /\ N - (k - 1) # 0 /\ (k - 1) + (N - (k - 1)) = N
          /\ (k - 1) + 1 = k
      BY <2>1
    <3>2. QED
      BY <3>1
  <2>4. \A i \in 1 .. p : IsSpace(w[i])
    BY <2>1, <2>3
  <2>5. Filtered(Fresh, w)[p] = Fresh
    BY <1>1, <2>4, LeadBlank
  <2>6. p \in Nat
    BY <2>3
  <2>7. PICK v \in Seq(Punctuation) : Len(v) = m /\ IsTail(v, w, p)
    <3>1. p + m = N
      BY <2>3
    <3>2. QED
      BY <2>6, <3>1, RestOf
  <2>8. Len(v) = m /\ \A j \in 1 .. m : v[j] = w[p + j]
    BY <2>7 DEF IsTail
  <2>9. ~IsSpace(v[1]) /\ ~IsList(v[1])
    <3>1. 1 \in 1 .. m
      BY <2>3
    <3>2. v[1] = w[p + 1]
      BY <2>8, <3>1
    <3>3. p + 1 = k
      BY <2>3
    <3>4. QED
      BY <2>1, <2>2, <3>2, <3>3
  <2>10. Filtered(Fresh, w)[p + m] = Filtered(Fresh, v)[m]
    <3>1. p \in Nat /\ p + Len(v) <= Len(w) /\ m \in 0 .. Len(v)
      BY <2>3, <2>8
    <3>2. \A j \in 0 .. Len(v) : Filtered(Fresh, w)[p + j] = Filtered(Filtered(Fresh, w)[p], v)[j]
      BY <1>1, <2>8, <3>1, FilteredRest
    <3>3. QED
      BY <2>5, <3>1, <3>2
  <2>11. PICK q : q = Len(Fresh.out) /\ q = 0
    BY <1>2
  <2>12. PlainSo(Filtered(Fresh, v)[m], v, m, q)
    <3>1. \A i \in 1 .. m : PlainSo(Filtered(Fresh, v)[i], v, i, q)
      BY <1>1, <2>3, <2>8, <2>9, <2>11, PlainAll
    <3>2. QED
      BY <2>3, <3>1
  <2>13. PICK d \in Seq(Punctuation) : d = Filtered(Fresh, w)[N].out
    BY <2>3, <2>10, <2>12 DEF PlainSo, Filter
  <2>14. Len(d) = m /\ \A j \in 1 .. m : d[j] = v[j]
    <3>1. Len(d) = q + m /\ \A j \in 1 .. m : d[q + j] = v[j]
      BY <2>3, <2>10, <2>12, <2>13 DEF PlainSo
    <3>2. q + m = m /\ \A j \in 1 .. m : q + j = j
      BY <2>11
    <3>3. QED
      BY <3>1, <3>2
  <2>15. Len(d) = N - p /\ \A j \in 1 .. N - p : d[j] = w[p + j]
    BY <2>3, <2>8, <2>14
  <2>16. QED
    BY <2>13, <2>15, <2>4, TrimmedAt
<1>5. QED
  BY <1>3, <1>4, FirstByte
-----------------------------------------------------------------------------
(* Whole files and the rest of them. *)

\* What the files are made of, and how long they are.
FileInv == doc \in Seq(Characters) /\ Len(doc) <= LongestFile

\* The type of the file.
LEMMA FileTypes ==
  ASSUME FileInv
  PROVE  /\ doc \in Seq(Characters) /\ doc \in Seq(Punctuation) /\ Len(doc) \in Nat
         /\ Len(doc) \in 0 .. LongestFile
<1>1. doc \in Seq(Characters) /\ Len(doc) \in Nat /\ Len(doc) <= LongestFile
  BY DEF FileInv
<1>2. QED
  BY <1>1, CharactersAreBytes, LongestNat

\* A stream over the whole file reads the file.
LEMMA WholeFile ==
  ASSUME FileInv, from = 0
  PROVE  OnePiece = Filtered(Fresh, doc)[Len(doc)]
<1>1. PICK N \in Nat : N = Len(doc)
  BY FileTypes
<1>2. doc \in Seq(Punctuation)
  BY FileTypes
<1>3. PICK v : v = SubSeq(doc, 1, N)
  OBVIOUS
<1>4. v \in Seq(Punctuation) /\ Len(v) = N /\ \A i \in 1 .. N : v[i] = doc[i]
  BY <1>1, <1>2, <1>3
<1>5. v = doc
  BY <1>1, <1>2, <1>4, SameTexts
<1>6. Source = doc
  <2>1. from + 1 = 1
    OBVIOUS
  <2>2. QED
    BY <1>1, <1>3, <1>5, <2>1 DEF Source
<1>7. Opened = Fresh
  BY DEF Opened
<1>8. QED
  BY <1>6, <1>7, OnePieceIs DEF OnePass

\* The inspector and the filter take the same files for arrays.
LEMMA FileTaken ==
  ASSUME FileInv
  PROVE  IsArrayFile <=> ArrayText(doc, Len(doc))
<1>1. DOMAIN doc = 1 .. Len(doc)
  BY FileTypes
<1>2. QED
  BY <1>1 DEF IsArrayFile, ArrayText, IsList, IsSpace

\* Nothing is kept at first.
LEMMA FreshOut == Fresh \in Filter /\ Fresh.out = <<>>
<1>1. Fresh \in Filter
  BY FreshTypes
<1>2. QED
  BY <1>1 DEF Fresh

\* A text after nothing.
LEMMA AfterNothing ==
  ASSUME NEW o \in Seq(Punctuation), o = <<>>, NEW v \in Seq(Punctuation)
  PROVE  Concats(v, o, v)
<1>1. PICK u : u = o \o v
  OBVIOUS
<1>2. PICK n \in Nat : n = Len(v)
  OBVIOUS
<1>3. u \in Seq(Punctuation) /\ Len(u) = n /\ \A i \in 1 .. n : u[i] = v[i]
  BY <1>1, <1>2
<1>4. u = v
  BY <1>2, <1>3, SameTexts
<1>5. QED
  BY <1>1, <1>4 DEF Concats

\* An array that was read to its end.
LEMMA WholeEnds ==
  ASSUME FileInv, from = 0, IsArrayFile, IsWhole(OnePiece)
  PROVE  Ends(Fresh, doc, OnePiece.out)
<1>1. PICK r : r = OnePiece
  OBVIOUS
<1>2. PICK N \in Nat : N = Len(doc)
  BY FileTypes
<1>3. doc \in Seq(Punctuation)
  BY FileTypes
<1>4. r = Filtered(Fresh, doc)[N]
  BY <1>1, <1>2, WholeFile
<1>5. r.array_started
  BY <1>2, <1>3, <1>4, FileTaken, ArrayTextStarts
<1>6. r \in Filter
  BY <1>2, <1>3, <1>4, FreshOut, FilteredTypes
<1>7. r.finished /\ ~r.bad
  BY <1>1, <1>5 DEF IsWhole
<1>8. PICK v \in Seq(Punctuation) : v = r.out
  BY <1>6 DEF Filter
<1>9. Concats(r.out, Fresh.out, v)
  <2>1. PICK o \in Seq(Punctuation) : o = <<>>
    BY NothingIsText
  <2>2. Concats(v, o, v)
    BY <2>1, AfterNothing
  <2>3. QED
    BY <1>8, <2>1, <2>2, FreshOut
<1>10. QED
  BY <1>1, <1>2, <1>4, <1>5, <1>6, <1>7, <1>8, <1>9 DEF Ends

\* The rows of a text that is parsed.
LEMMA ReadOnce ==
  ASSUME NEW x \in Parsed
  PROVE  Accepts(x.text) /\ RowsOf(x.text) = x.rows
<1>1. PICK t : t = x.text
  OBVIOUS
<1>2. PICK y : y = CHOOSE z \in Parsed : z.text = t
  OBVIOUS
<1>3. y \in Parsed /\ y.text = t
  BY <1>1, <1>2
<1>4. y.rows = x.rows
  BY <1>1, <1>3, ParsedReadOnce
<1>5. QED
  BY <1>1, <1>2, <1>4 DEF Accepts, RowsOf

\* A file that is read and parsed is an array of the rows the parser sees.
LEMMA ReadIsArray ==
  ASSUME FileInv, from = 0, IsArrayFile, IsWhole(OnePiece), delivered = OnePiece.out,
         Accepts(delivered)
  PROVE  \E a \in Arrays : a.text = doc /\ a.rows = RowsOf(delivered)
<1>1. PICK x \in Parsed : x.text = delivered
  BY DEF Accepts
<1>2. Ends(Fresh, doc, x.text)
  BY <1>1, WholeEnds
<1>3. PICK n \in 0 .. LongestFile : n = Len(doc)
  BY FileTypes
<1>4. doc \in Seq(Characters)
  BY FileTypes
<1>5. PICK a \in Arrays : a.text = doc /\ a.rows = x.rows
  BY <1>2, <1>3, <1>4, DeliveredIsArray
<1>6. x.rows = RowsOf(delivered)
  BY <1>1, ReadOnce
<1>7. QED
  BY <1>5, <1>6

\* The scan begins between the rows.
LEMMA UnscannedAt == AtScan(Unscanned) /\ Unscanned.offset = 0 /\ Unscanned.starts = <<>>
<1>1. <<>> \in Seq(Nat)
  BY NothingIsText
<1>2. PICK e \in Seq(Nat) : e = <<>>
  BY <1>1
<1>3. PICK u : u = [offset |-> 0, depth |-> 0, in_string |-> FALSE, escaped |-> FALSE,
                    start |-> 0, starts |-> e]
  OBVIOUS
<1>4. u \in Scan /\ u.depth = 0 /\ ~u.in_string /\ ~u.escaped /\ u.offset = 0 /\ u.starts = e
  BY <1>3 DEF Scan
<1>5. Unscanned = u
  BY <1>2, <1>3 DEF Unscanned
<1>6. QED
  BY <1>2, <1>4, <1>5 DEF AtScan

\* Starts that follow none.
LEMMA FollowedNothing ==
  ASSUME NEW a, a = <<>>, NEW q \in Seq(Nat), NEW b \in Seq(Nat), NEW d, d = 0, Followed(a, q, d, b)
  PROVE  b = q
<1>1. PICK n \in Nat : n = Len(q)
  OBVIOUS
<1>2. Len(a) = 0
  OBVIOUS
<1>3. Len(b) = n /\ \A i \in 1 .. n : b[i] = q[i]
  BY <1>1, <1>2 DEF Followed
<1>4. QED
  BY <1>1, <1>3

\* The inspector finds the starts of an array.
LEMMA ArrayScanned ==
  ASSUME NEW a \in Arrays, a.text = doc
  PROVE  ScannedFile.depth = 0 /\ ~ScannedFile.in_string /\ ScannedFile.starts = a.starts
<1>1. PICK n \in 0 .. LongestFile : a \in Lead[n]
  BY ArrayParts
<1>2. Good(a, n, FALSE, FALSE, FALSE)
  BY <1>1, ArraysAreGood DEF LeadGood, AllGood
<1>3. PICK r : /\ Goes(Unscanned, a.text, r) /\ AtScan(r)
               /\ Followed(Unscanned.starts, a.starts, Unscanned.offset, r.starts)
  BY <1>2, UnscannedAt DEF Good, Found
<1>4. ScannedFile = r
  BY <1>3, ScannedFileIs DEF Goes
<1>5. a.starts \in Seq(Nat)
  BY <1>2 DEF Good, Typed
<1>6. r.depth = 0 /\ ~r.in_string /\ r.starts \in Seq(Nat)
  BY <1>3, ScanParts DEF AtScan
<1>7. r.starts = a.starts
  <2>1. PICK q \in Seq(Nat), b \in Seq(Nat) : q = a.starts /\ b = r.starts
    BY <1>5, <1>6
  <2>2. PICK e, d : e = Unscanned.starts /\ d = Unscanned.offset
    OBVIOUS
  <2>3. Followed(e, q, d, b) /\ e = <<>> /\ d = 0
    BY <1>3, <2>1, <2>2, UnscannedAt
  <2>4. b = q
    BY <2>3, FollowedNothing
  <2>5. QED
    BY <2>1, <2>4
<1>8. QED
  BY <1>4, <1>6, <1>7

\* What it is to come to the end.
LEMMA EndsParts ==
  ASSUME NEW s, NEW w, NEW v, Ends(s, w, v), NEW r, r = Filtered(s, w)[Len(w)], NEW o, o = s.out
  PROVE  r \in Filter /\ r.finished /\ ~r.bad /\ v \in Seq(Punctuation) /\ Concats(r.out, o, v)
BY DEF Ends

\* Then the file is whole.
LEMMA WholeKept ==
  ASSUME NEW r \in Filter, r.finished, ~r.bad, NEW o, o = <<>>, NEW v \in Seq(Punctuation), Concats(r.out, o, v)
  PROVE  IsWhole(r) /\ r.out = v
<1>1. PICK e \in Seq(Punctuation) : e = <<>>
  BY NothingIsText
<1>2. Concats(v, e, v)
  BY <1>1, AfterNothing
<1>3. r.out = v
  BY <1>1, <1>2 DEF Concats
<1>4. QED
  BY <1>3 DEF IsWhole

\* An array is read to its end, and the inspector takes it.
LEMMA ArrayIsRead ==
  ASSUME FileInv, from = 0, NEW a \in Arrays, a.text = doc
  PROVE  \E x \in Parsed : IsWhole(OnePiece) /\ OnePiece.out = x.text
<1>1. PICK x \in Parsed : x.rows = a.rows /\ Ends(Fresh, doc, x.text)
  BY ArrayIsDelivered
<1>2. PICK r : r = Filtered(Fresh, doc)[Len(doc)]
  OBVIOUS
<1>3. PICK v, o : v = x.text /\ o = Fresh.out
  OBVIOUS
<1>4. r \in Filter /\ r.finished /\ ~r.bad /\ v \in Seq(Punctuation) /\ Concats(r.out, o, v)
  BY <1>1, <1>2, <1>3, EndsParts
<1>5. IsWhole(r) /\ r.out = v
  BY <1>3, <1>4, FreshOut, WholeKept
<1>6. OnePiece = r
  BY <1>2, WholeFile
<1>7. QED
  BY <1>3, <1>5, <1>6

\* A file that is refused is no array.
LEMMA ArrayNotRefused ==
  ASSUME FileInv, from = 0, ChunksDoNotMatter, pc = "error", IsArrayFile
  PROVE  ~\E a \in Arrays : a.text = doc
<1>1. SUFFICES ASSUME NEW a \in Arrays, a.text = doc PROVE FALSE
  OBVIOUS
<1>2. PICK x \in Parsed : IsWhole(OnePiece) /\ OnePiece.out = x.text
  BY <1>1, ArrayIsRead
<1>3. delivered = OnePiece.out /\ NotMapped
  BY <1>2 DEF ChunksDoNotMatter
<1>4. Accepts(delivered)
  BY <1>2, <1>3 DEF Accepts
<1>5. ScannedFile.depth = 0 /\ ~ScannedFile.in_string
  BY <1>1, ArrayScanned
<1>6. QED
  BY <1>3, <1>4, <1>5 DEF NotMapped

\* An end of a sequence is a subsequence.
LEMMA TailIs ==
  ASSUME NEW S, NEW t \in Seq(S), NEW v \in Seq(S), NEW N \in Nat, Len(t) = N, NEW p \in Nat, p <= N,
         IsTail(v, t, p)
  PROVE  v = SubSeq(t, p + 1, N)
<1>1. PICK u : u = SubSeq(t, p + 1, N)
  OBVIOUS
<1>2. PICK n \in Nat : n = N - p
  <2>1. N - p \in Nat
    OBVIOUS
  <2>2. QED
    BY <2>1
<1>3. u \in Seq(S) /\ Len(u) = n /\ \A i \in 1 .. n : u[i] = t[p + i]
  BY <1>1, <1>2
<1>4. Len(v) = n /\ \A i \in 1 .. n : v[i] = t[p + i]
  BY <1>2 DEF IsTail
<1>5. u = v
  BY <1>2, <1>3, <1>4
<1>6. QED
  BY <1>1, <1>5

\* A stream that is opened at a row reads that row and those after it.
LEMMA RestIsRead ==
  ASSUME FileInv, from \in Nat, from > 0, NEW a \in Arrays, a.text = doc, a.starts = starts,
         NEW k \in DOMAIN starts, starts[k] = from
  PROVE  \E x \in Parsed : /\ IsWhole(OnePiece) /\ OnePiece.out = x.text
                           /\ x.rows = SubSeq(a.rows, k, Len(a.rows))
<1>1. PICK n \in 0 .. LongestFile : a \in Lead[n]
  BY ArrayParts
<1>2. Good(a, n, FALSE, FALSE, FALSE)
  BY <1>1, ArraysAreGood DEF LeadGood, AllGood
<1>3. PICK q \in Seq(Nat), ar \in Seq(Seq(Punctuation)) :
        q = starts /\ ar = a.rows /\ Len(q) = Len(ar)
  BY <1>2 DEF Good, Typed
<1>4. doc \in Seq(Punctuation) /\ Len(doc) = n
  BY <1>2 DEF Good, Typed
<1>5. k \in 1 .. Len(q)
  BY <1>3
<1>6. RestsAt(a, n, k, from)
  BY <1>2, <1>3, <1>5 DEF Good, Rests
<1>7. PICK m \in 0 .. n : \E z \in Tails[m].open :
        from + m = n /\ IsTail(z.text, doc, from) /\ IsTail(z.rows, a.rows, k - 1)
          /\ z.text \in Seq(Punctuation) /\ z.rows \in Seq(Seq(Punctuation))
  BY <1>6 DEF RestsAt
<1>8. PICK z \in Tails[m].open :
        from + m = n /\ IsTail(z.text, doc, from) /\ IsTail(z.rows, a.rows, k - 1)
          /\ z.text \in Seq(Punctuation) /\ z.rows \in Seq(Seq(Punctuation))
  BY <1>7
<1>9. m \in 0 .. LongestFile
  BY <1>7, LongestNat
<1>10. Delivers(z, m, TRUE, TRUE, FALSE)
  BY <1>8, <1>9, TailsAreGood DEF TailsGood, AllGood, Good
<1>11. PICK l \in 0 .. m : \E x \in Streams[l] : x.rows = z.rows /\ Ends(FreshFromOffset, z.text, x.text)
  BY <1>10, StandsFresh DEF Delivers
<1>12. PICK x \in Streams[l] : x.rows = z.rows /\ Ends(FreshFromOffset, z.text, x.text)
  BY <1>11
<1>13. x \in Parsed
  <2>1. l \in 0 .. LongestFile
    BY <1>9, <1>11, LongestNat
  <2>2. QED
    BY <2>1, StreamParsed
<1>14. z.text = Source
  <2>1. PICK zt \in Seq(Punctuation) : zt = z.text /\ IsTail(zt, doc, from)
    BY <1>8
  <2>2. from <= n /\ n \in Nat
    BY <1>7, <1>8
  <2>3. zt = SubSeq(doc, from + 1, n)
    BY <1>4, <2>1, <2>2, TailIs
  <2>4. QED
    BY <1>4, <2>1, <2>3 DEF Source
<1>15. PICK r : r = OnePiece
  OBVIOUS
<1>16. r = Filtered(FreshFromOffset, Source)[Len(Source)]
  BY <1>15, OnePieceIs DEF OnePass, Opened
<1>17. PICK v, o : v = x.text /\ o = FreshFromOffset.out
  OBVIOUS
<1>18. r \in Filter /\ r.finished /\ ~r.bad /\ v \in Seq(Punctuation) /\ Concats(r.out, o, v)
  BY <1>12, <1>14, <1>16, <1>17, EndsParts
<1>19. o = <<>>
  BY <1>17, OpenedTypes DEF Opened
<1>20. IsWhole(r) /\ r.out = v
  BY <1>18, <1>19, WholeKept
<1>21. x.rows = SubSeq(a.rows, k, Len(a.rows))
  <2>1. PICK zr \in Seq(Seq(Punctuation)), p \in Nat, N \in Nat :
          zr = z.rows /\ p = k - 1 /\ p + 1 = k /\ N = Len(ar) /\ p <= N
    <3>1. k - 1 \in Nat /\ (k - 1) + 1 = k /\ k - 1 <= Len(ar) /\ Len(ar) \in Nat
      BY <1>3, <1>5
    <3>2. QED
      BY <1>8, <3>1
  <2>2. IsTail(zr, ar, p)
    BY <1>3, <1>8, <2>1
  <2>3. zr = SubSeq(ar, p + 1, N)
    BY <2>1, <2>2, TailIs
  <2>4. QED
    BY <1>3, <1>12, <2>1, <2>3
<1>22. QED
  BY <1>13, <1>15, <1>17, <1>20, <1>21
-----------------------------------------------------------------------------
(* The rows are right. *)

\* A file that is mapped is an array, and its rows start where they were found.
MapInv == pc = "mapped" \/ from > 0 => \E a \in Arrays : a.text = doc /\ a.starts = starts

\* All of this.
RightInv == ArrayInv /\ FileInv /\ MapInv

\* From this the rows are right.
LEMMA RowsAreRight == ASSUME RightInv PROVE ArrayRowsRight
<1>1. /\ from \in Nat /\ FileInv /\ MapInv /\ ChunksDoNotMatter
      /\ pc \in {"scanned", "mapped"} => from = 0
      /\ from > 0 => \E k \in DOMAIN starts : starts[k] = from
  BY DEF RightInv, ArrayInv, ArrayTypeOK, ReadInv, RowsInv
<1>2. ScanRight
  <2> SUFFICES ASSUME from = 0 PROVE
         /\ pc = "error" /\ starts = <<>> /\ IsArrayFile => ~\E a \in Arrays : a.text = doc
         /\ pc \in {"scanned", "mapped"} /\ IsArrayFile /\ Accepts(delivered) =>
              \E a \in Arrays : a.text = doc /\ a.rows = RowsOf(delivered)
         /\ pc = "scanned" /\ ~IsArrayFile => IsTrimmed(delivered, doc)
    BY DEF ScanRight
  <2>1. pc = "error" /\ IsArrayFile => ~\E a \in Arrays : a.text = doc
    BY <1>1, ArrayNotRefused
  <2>2. ASSUME pc \in {"scanned", "mapped"}, IsArrayFile, Accepts(delivered)
        PROVE  \E a \in Arrays : a.text = doc /\ a.rows = RowsOf(delivered)
    <3>1. IsWhole(OnePiece) /\ delivered = OnePiece.out
      BY <1>1, <2>2 DEF ChunksDoNotMatter
    <3>2. QED
      BY <1>1, <2>2, <3>1, ReadIsArray
  <2>3. ASSUME pc = "scanned", ~IsArrayFile PROVE IsTrimmed(delivered, doc)
    <3>1. PICK N \in Nat : N = Len(doc)
      BY <1>1, FileTypes
    <3>2. doc \in Seq(Punctuation) /\ ~ArrayText(doc, N)
      BY <1>1, <2>3, <3>1, FileTypes, FileTaken
    <3>3. IsTrimmed(Filtered(Fresh, doc)[N].out, doc)
      BY <3>1, <3>2, PlainTextRead
    <3>4. delivered = OnePiece.out
      BY <1>1, <2>3 DEF ChunksDoNotMatter
    <3>5. OnePiece = Filtered(Fresh, doc)[N]
      BY <1>1, <3>1, WholeFile
    <3>6. QED
      BY <3>3, <3>4, <3>5
  <2>4. QED
    BY <2>1, <2>2, <2>3
<1>3. MappedRowsRight
  <2>1. pc = "mapped" => \E a \in Arrays : a.text = doc /\ a.starts = starts
    BY <1>1 DEF MapInv
  <2>2. ASSUME from > 0
        PROVE  /\ pc # "error"
               /\ pc = "eof" =>
                    \E a \in Arrays, k \in DOMAIN starts :
                      /\ a.text = doc /\ starts[k] = from
                      /\ Accepts(delivered)
                      /\ RowsOf(delivered) = SubSeq(a.rows, k, Len(a.rows))
    <3>1. PICK a \in Arrays : a.text = doc /\ a.starts = starts
      BY <1>1, <2>2 DEF MapInv
    <3>2. PICK k \in DOMAIN starts : starts[k] = from
      BY <1>1, <2>2
    <3>3. PICK x \in Parsed : /\ IsWhole(OnePiece) /\ OnePiece.out = x.text
                              /\ x.rows = SubSeq(a.rows, k, Len(a.rows))
      BY <1>1, <2>2, <3>1, <3>2, RestIsRead
    <3>4. from # 0
      BY <1>1, <2>2
    <3>5. pc # "error"
      BY <1>1, <3>3, <3>4 DEF ChunksDoNotMatter
    <3>6. ASSUME pc = "eof"
          PROVE  Accepts(delivered) /\ RowsOf(delivered) = SubSeq(a.rows, k, Len(a.rows))
      <4>1. delivered = x.text
        BY <1>1, <3>3, <3>6 DEF ChunksDoNotMatter
      <4>2. QED
        BY <3>3, <4>1, ReadOnce
    <3>7. QED
      BY <3>1, <3>2, <3>5, <3>6
  <2>3. QED
    BY <2>1, <2>2 DEF MappedRowsRight
<1>4. QED
  BY <1>2, <1>3 DEF ArrayRowsRight

\* The inspector maps an array.
LEMMA InspectMaps ==
  ASSUME RightInv, Inspect
  PROVE  MapInv'
<1>1. from = 0 /\ doc' = doc /\ from' = from
  BY DEF RightInv, ArrayInv, ReadInv, Inspect
<1>2. SUFFICES ASSUME pc' = "mapped" PROVE \E a \in Arrays : a.text = doc /\ a.starts = starts'
  BY <1>1 DEF MapInv
<1>3. IsArrayFile /\ Accepts(delivered) /\ starts' = ScannedFile.starts
  BY <1>2 DEF Inspect
<1>4. IsWhole(OnePiece) /\ delivered = OnePiece.out /\ FileInv
  BY DEF RightInv, ArrayInv, ChunksDoNotMatter, Inspect
<1>5. PICK a \in Arrays : a.text = doc
  BY <1>1, <1>3, <1>4, ReadIsArray
<1>6. ScannedFile.starts = a.starts
  BY <1>5, ArrayScanned
<1>7. QED
  BY <1>3, <1>5, <1>6

\* Every step keeps it.
LEMMA RightSteps == RightInv /\ [ArrayNext]_arrayVars => RightInv'
<1> SUFFICES ASSUME RightInv, [ArrayNext]_arrayVars PROVE RightInv'
  OBVIOUS
<1>1. ArrayInv'
  BY ArraySteps DEF RightInv
<1>2. FileInv'
  <2>1. doc' = doc
    BY DEF ArrayNext, ReadChunk, ReadTrailer, ReadEnd, Inspect, OpenAt, arrayVars
  <2>2. QED
    BY <2>1 DEF RightInv, FileInv
<1>3. MapInv'
  <2>1. MapInv
    BY DEF RightInv
  <2>2. CASE UNCHANGED arrayVars
    BY <2>1, <2>2 DEF MapInv, arrayVars
  <2>3. ASSUME NEW n \in Chunks, ReadChunk(n) PROVE MapInv'
    BY <2>1, <2>3 DEF MapInv, ReadChunk
  <2>4. ASSUME NEW n \in Chunks, ReadTrailer(n) PROVE MapInv'
    BY <2>1, <2>4 DEF MapInv, ReadTrailer
  <2>5. CASE ReadEnd
    BY <2>1, <2>5 DEF MapInv, ReadEnd
  <2>6. CASE Inspect
    BY <2>6, InspectMaps
  <2>7. ASSUME NEW k \in 1 .. LongestFile, OpenAt(k) PROVE MapInv'
    BY <2>1, <2>7 DEF MapInv, OpenAt
  <2>8. QED
    BY <2>2, <2>3, <2>4, <2>5, <2>6, <2>7 DEF ArrayNext
<1>4. QED
  BY <1>1, <1>2, <1>3 DEF RightInv

\* The files there are.
LEMMA FilesAreShort ==
  ASSUME NEW n \in Nat, NEW d \in Files(n)
  PROVE  d \in Seq(Characters) /\ Len(d) \in 0 .. n
<1>1. PICK k \in 0 .. n : d \in [1 .. k -> Characters]
  BY DEF Files
<1>2. k \in Nat
  OBVIOUS
<1>3. QED
  BY <1>1, <1>2

\* The brackets that are put around them.
LEMMA BracketsAreBytes ==
  /\ <<"[">> \in Seq(Characters) /\ <<"[", "{">> \in Seq(Characters)
  /\ <<"}", "]">> \in Seq(Characters)
<1>1. "[" \in Characters /\ "{" \in Characters /\ "}" \in Characters /\ "]" \in Characters
  BY CharactersAssumption
<1>2. PICK a \in Characters, b \in Characters, c \in Characters, d \in Characters :
        a = "[" /\ b = "{" /\ c = "}" /\ d = "]"
  BY <1>1
<1>3. <<a>> \in Seq(Characters) /\ <<a, b>> \in Seq(Characters) /\ <<c, d>> \in Seq(Characters)
  OBVIOUS
<1>4. QED
  BY <1>2, <1>3

\* Two texts of a file.
LEMMA CharactersJoin ==
  ASSUME NEW u \in Seq(Characters), NEW v \in Seq(Characters), NEW w, Concats(w, u, v)
  PROVE  w \in Seq(Characters) /\ Len(w) = Len(u) + Len(v)
<1>1. PICK c : c = u \o v
  OBVIOUS
<1>2. c \in Seq(Characters) /\ Len(c) = Len(u) + Len(v)
  BY <1>1
<1>3. w = c
  BY <1>1 DEF Concats
<1>4. QED
  BY <1>2, <1>3

\* A text between two pairs of brackets.
LEMMA BetweenPairs ==
  ASSUME NEW a \in Seq(Characters), NEW d \in Seq(Characters), NEW b \in Seq(Characters),
         Len(a) = 2, Len(b) = 2, NEW n \in Nat, Len(d) \in 0 .. n,
         NEW e, Concats(e, a, d), NEW w, Concats(w, e, b)
  PROVE  w \in Seq(Characters) /\ Len(w) <= n + 4
<1>1. e \in Seq(Characters) /\ Len(e) = Len(a) + Len(d)
  BY CharactersJoin
<1>2. w \in Seq(Characters) /\ Len(w) = Len(e) + Len(b)
  BY <1>1, CharactersJoin
<1>3. QED
  BY <1>1, <1>2

\* The files there are at first.
LEMMA FilesBegin == ArrayInit => FileInv
<1> SUFFICES ASSUME ArrayInit PROVE FileInv
  OBVIOUS
<1>1. CASE doc \in {<<"[">> \o d : d \in Files(MaxArray - 1)}
  <2>1. PICK d \in Files(MaxArray - 1) : doc = <<"[">> \o d
    BY <1>1
  <2>2. PICK n \in Nat : n = MaxArray - 1 /\ n + 1 = MaxArray
    <3>1. MaxArray # 0
      BY <2>1, ArrayBoundsAssumption DEF Files
    <3>2. MaxArray - 1 \in Nat /\ (MaxArray - 1) + 1 = MaxArray
      BY <3>1, ArrayBoundsAssumption
    <3>3. QED
      BY <3>2
  <2>3. d \in Seq(Characters) /\ Len(d) \in 0 .. n
    BY <2>1, <2>2, FilesAreShort
  <2>4. PICK a \in Seq(Characters) : a = <<"[">> /\ Len(a) = 1
    BY BracketsAreBytes
  <2>5. doc \in Seq(Characters) /\ Len(doc) = Len(a) + Len(d)
    <3>1. doc = a \o d
      BY <2>1, <2>4
    <3>2. QED
      BY <2>3, <2>4, <3>1
  <2>6. Len(doc) <= LongestFile
    BY <2>2, <2>3, <2>4, <2>5, LongestNat, ArrayBoundsAssumption
  <2>7. QED
    BY <2>5, <2>6 DEF FileInv
<1>2. CASE doc \in {<<"[", "{">> \o d \o <<"}", "]">> : d \in Files(MaxText)}
  <2>1. PICK d \in Files(MaxText) : doc = <<"[", "{">> \o d \o <<"}", "]">>
    BY <1>2
  <2>2. d \in Seq(Characters) /\ Len(d) \in 0 .. MaxText
    BY <2>1, FilesAreShort, ArrayBoundsAssumption
  <2>3. PICK a \in Seq(Characters), b \in Seq(Characters) :
          a = <<"[", "{">> /\ b = <<"}", "]">> /\ Len(a) = 2 /\ Len(b) = 2
    BY BracketsAreBytes
  <2>4. PICK e : Concats(e, a, d)
    BY DEF Concats
  <2>5. Concats(doc, e, b)
    BY <2>1, <2>3, <2>4 DEF Concats
  <2>6. doc \in Seq(Characters) /\ Len(doc) <= MaxText + 4
    BY <2>2, <2>3, <2>4, <2>5, BetweenPairs, ArrayBoundsAssumption
  <2>7. Len(doc) <= LongestFile
    BY <2>6, LongestNat, ArrayBoundsAssumption
  <2>8. QED
    BY <2>6, <2>7 DEF FileInv
<1>3. CASE doc \in Files(MaxOther)
  <2>1. doc \in Seq(Characters) /\ Len(doc) \in 0 .. MaxOther
    BY <1>3, FilesAreShort, ArrayBoundsAssumption
  <2>2. QED
    BY <2>1, LongestNat, ArrayBoundsAssumption DEF FileInv
<1>4. QED
  BY <1>1, <1>2, <1>3 DEF ArrayInit

\* Before anything is read.
LEMMA RightBegins == ASSUME ArrayStart, FileInv PROVE RightInv
<1>1. PICK e, f : e = <<>> /\ e \in Seq(Punctuation) /\ e \in Seq(Nat) /\ f = Fresh /\ f \in Filter
  BY NothingIsText, FreshTypes
<1>2. /\ starts = e /\ from = 0 /\ pos = 0 /\ filter = f /\ delivered = e /\ pc = "scan"
  BY <1>1 DEF ArrayStart
<1>3. doc \in Seq(Punctuation) /\ Len(doc) \in Nat
  BY FileTypes
<1>4. ArrayTypeOK
  BY <1>1, <1>2, <1>3 DEF ArrayTypeOK
<1>5. from <= Len(doc) /\ pos = from /\ ~(from > 0)
  BY <1>2, <1>3
<1>6. filter = Opened /\ delivered = <<>>
  BY <1>1, <1>2 DEF Opened
<1>7. RowsInv
  <2>1. DOMAIN starts = {}
    BY <1>1, <1>2
  <2>2. QED
    BY <1>5, <2>1 DEF RowsInv, Rising
<1>8. ReadInv /\ ChunksDoNotMatter
  BY <1>2, <1>4, <1>5, <1>6, OpenedReads DEF JustOpened
<1>9. MapInv
  BY <1>2, <1>5 DEF MapInv
<1>10. QED
  BY <1>4, <1>7, <1>8, <1>9 DEF RightInv, ArrayInv

\* Whatever array there is and however it is cut into chunks, its rows are delivered and
\* mapped as JSON says, and a file that is no such array is refused; a stream that is
\* opened at the offset of a row delivers that row and those after it
\* (json.rs:151-387, inspect.rs:184-279).
THEOREM ArrayRowsAreRight == ArraySpec => []ArrayRowsRight
<1>1. ArrayInit => RightInv
  BY FilesBegin, RightBegins DEF ArrayInit
<1>2. RightInv => ArrayRowsRight
  BY RowsAreRight
<1>3. QED
  BY <1>1, <1>2, RightSteps, PTL DEF ArraySpec
=============================================================================
