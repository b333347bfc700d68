----------------------------- MODULE JsonArray ------------------------------
(***************************************************************************)
(* A file with a top-level JSON array is scanned by two readers that must  *)
(* agree on where its rows are: JsonArrayStream (formats/common/json.rs),  *)
(* which filters the bytes chunk by chunk before arrow-json parses them,   *)
(* and inspect_json_array_row_groups (map/inspect.rs), which finds the     *)
(* byte each row starts at.  A mapped slice starts a second stream at such *)
(* a byte.                                                                 *)
(*                                                                         *)
(* A byte is one of the characters that matter, "q" for the quote, "b" for *)
(* the backslash, " " for any white space.                                 *)
(***************************************************************************)
EXTENDS Integers, SequencesExt

CONSTANTS
  Characters,  \* bytes the file is made of
  MaxArray,  \* bound: length of an array file
  MaxText,   \* bound: length of what is tried between [{ and }]
  MaxOther,  \* bound: length of a file that does not start with a bracket
  Chunks     \* bytes one read of the file may return

Punctuation == {"[", "]", "{", "}", ",", "q", "b", " "}

\* An array file has its brackets and those of a row.
ASSUME CharactersAssumption ==
  {"[", "{", "}", "]"} \subseteq Characters /\ Characters \subseteq Punctuation
ASSUME ArrayBoundsAssumption ==
  /\ MaxArray \in Nat /\ MaxText \in Nat /\ MaxOther \in Nat
  /\ Chunks \subseteq Nat \ {0}

\* The longest file.
LongestFile == Max({MaxArray, MaxText + 4, MaxOther})

VARIABLES
  doc,        \* the bytes of the file
  starts,     \* offsets of the rows the inspector found
  from,       \* offset the stream was opened at
  pos,        \* bytes of the file read so far
  filter,     \* the state filter_chunk keeps between two chunks
  delivered,  \* what the parser has been given
  pc

arrayVars == <<doc, starts, from, pos, filter, delivered, pc>>

Files(n) == UNION {[1 .. k -> Characters] : k \in 0 .. n}

Filter == [started: BOOLEAN, finished: BOOLEAN, array_started: BOOLEAN,
           has_value: BOOLEAN, expect_value: BOOLEAN, in_string: BOOLEAN,
           escaped: BOOLEAN, depth: Nat, out: Seq(Punctuation), bad: BOOLEAN]

ArrayTypeOK ==
  /\ doc \in Seq(Punctuation)
  /\ starts \in Seq(Nat)
  /\ from \in Nat /\ pos \in Nat
  /\ filter \in Filter
  /\ delivered \in Seq(Punctuation)
  /\ pc \in {"scan", "trailer", "scanned", "mapped", "eof", "error"}
-----------------------------------------------------------------------------
(* filter_chunk, one byte: "out" is what it has kept of the chunk. *)

Fresh == [started |-> FALSE, finished |-> FALSE, array_started |-> FALSE,
          has_value |-> FALSE, expect_value |-> FALSE, in_string |-> FALSE,
          escaped |-> FALSE, depth |-> 0, out |-> <<>>, bad |-> FALSE]

\* JsonArrayStream::from_offset
FreshFromOffset == [Fresh EXCEPT !.started = TRUE, !.array_started = TRUE,
                                 !.expect_value = TRUE]

Keep(s, b) == [s EXCEPT !.out = Append(@, b)]

\* Inside a string.
StringByte(s, b) ==
  [Keep(s, b) EXCEPT !.escaped = ~s.escaped /\ b = "b",
                     !.in_string = s.escaped \/ b # "q"]

\* Between the rows of the array.
RowByte(s, b) ==
  CASE b = " "                                   -> Keep(s, b)
    [] b = "{" /\ s.expect_value                 ->
         [Keep(s, b) EXCEPT !.expect_value = FALSE, !.depth = 1]
    [] b = "," /\ ~s.expect_value /\ s.has_value -> [s EXCEPT !.expect_value = TRUE]
    [] b = "]" /\ (~s.expect_value \/ ~s.has_value) -> [s EXCEPT !.finished = TRUE]
    [] OTHER                                     -> [s EXCEPT !.bad = TRUE]

\* Mutated: a closing bracket is counted down whatever the depth.
InnerByteUnguarded(s, b) ==
  CASE b = "q"             -> [Keep(s, b) EXCEPT !.in_string = TRUE]
    [] b \in {"[", "{"}    -> [Keep(s, b) EXCEPT !.depth = @ + 1]
    [] b \in {"]", "}"}    -> [Keep(s, b) EXCEPT !.depth = @ - 1]
    [] OTHER               -> Keep(s, b)

\* Inside a row, or in a file that is not an array.
InnerByte(s, b) ==
  CASE b = "q"                          -> [Keep(s, b) EXCEPT !.in_string = TRUE]
    [] b \in {"[", "{"}                 -> [Keep(s, b) EXCEPT !.depth = @ + 1]
    [] b \in {"]", "}"} /\ s.depth > 0  ->
         [Keep(s, b) EXCEPT !.depth = @ - 1,
                            !.has_value = @ \/ (s.depth = 1 /\ s.array_started)]
    [] OTHER                            -> Keep(s, b)

AfterStart(s, b) ==
  IF s.finished
    THEN [s EXCEPT !.bad = s.array_started /\ b # " "]
  ELSE IF s.array_started /\ s.depth = 0 /\ ~s.in_string
    THEN RowByte(s, b)
  ELSE IF s.in_string THEN StringByte(s, b) ELSE InnerByte(s, b)

FilterByte(s, b) ==
  CASE s.bad                   -> s
    [] ~s.bad /\ ~s.started    ->
         IF b = " " THEN s
         ELSE IF b = "[" THEN [s EXCEPT !.started = TRUE, !.array_started = TRUE,
                                        !.expect_value = TRUE]
         ELSE AfterStart([s EXCEPT !.started = TRUE], b)
    [] ~s.bad /\ s.started     -> AfterStart(s, b)

\* Mutated: the state of a string is not kept from one chunk to the next.
FilterChunkForgetful(s, bytes) ==
  LET after[n \in 0 .. Len(bytes)] ==
        IF n = 0 THEN [s EXCEPT !.out = <<>>, !.in_string = FALSE]
                 ELSE FilterByte(after[n - 1], bytes[n])
  IN  after[Len(bytes)]

FilterChunk(s, bytes) ==
  LET after[n \in 0 .. Len(bytes)] ==
        IF n = 0 THEN [s EXCEPT !.out = <<>>] ELSE FilterByte(after[n - 1], bytes[n])
  IN  after[Len(bytes)]
-----------------------------------------------------------------------------
(* JsonArrayStream::read; n is what one read of the file returned. *)

Upcoming(n) == SubSeq(doc, pos + 1, pos + n)

ReadChunk(n) ==
  /\ pc = "scan"
  /\ pos + n <= Len(doc)
  /\ pos' = pos + n
  /\ LET s == FilterChunk(filter, Upcoming(n)) IN
       /\ filter' = [s EXCEPT !.out = <<>>]
       /\ delivered' = IF s.bad THEN delivered ELSE delivered \o s.out
       /\ pc' = IF s.bad THEN "error" ELSE IF s.finished THEN "trailer" ELSE "scan"
  /\ UNCHANGED <<doc, starts, from>>

\* The end of the file before the closing bracket.
ReadEnd ==
  /\ pc = "scan"
  /\ pos = Len(doc)
  /\ pc' = IF filter.array_started THEN "error"
           ELSE IF from > 0 THEN "eof" ELSE "scanned"
  /\ filter' = [filter EXCEPT !.finished = TRUE]
  /\ UNCHANGED <<doc, starts, from, pos, delivered>>

\* After the closing bracket: nothing but white space.
ReadTrailer(n) ==
  /\ pc = "trailer"
  /\ IF pos = Len(doc)
       THEN /\ n = 1
            /\ pc' = IF from > 0 THEN "eof" ELSE "scanned"
            /\ UNCHANGED pos
       ELSE /\ pos + n <= Len(doc)
            /\ pos' = pos + n
            /\ pc' = IF \E k \in 1 .. n : Upcoming(n)[k] # " " THEN "error" ELSE "trailer"
  /\ UNCHANGED <<doc, starts, from, filter, delivered>>
-----------------------------------------------------------------------------
(* inspect_json_array_row_groups, with a checkpoint at every row. *)

\* Mutated: every opening bracket starts a row.
ScanByteInnermost(s, b) ==
  IF s.in_string THEN
    [s EXCEPT !.offset = @ + 1, !.escaped = ~s.escaped /\ b = "b",
              !.in_string = s.escaped \/ b # "q"]
  ELSE IF b = "q" THEN [s EXCEPT !.offset = @ + 1, !.in_string = TRUE]
  ELSE IF b = "{" THEN
    [s EXCEPT !.offset = @ + 1, !.depth = @ + 1, !.start = s.offset]
  ELSE IF b = "}" /\ s.depth > 0 THEN
    [s EXCEPT !.offset = @ + 1, !.depth = @ - 1,
              !.starts = IF s.depth = 1 THEN Append(@, s.start) ELSE @]
  ELSE [s EXCEPT !.offset = @ + 1]

ScanByte(s, b) ==
  IF s.in_string THEN
    [s EXCEPT !.offset = @ + 1, !.escaped = ~s.escaped /\ b = "b",
              !.in_string = s.escaped \/ b # "q"]
  ELSE IF b = "q" THEN [s EXCEPT !.offset = @ + 1, !.in_string = TRUE]
  ELSE IF b = "{" THEN
    [s EXCEPT !.offset = @ + 1, !.depth = @ + 1,
              !.start = IF s.depth = 0 THEN s.offset ELSE @]
  ELSE IF b = "}" /\ s.depth > 0 THEN
    [s EXCEPT !.offset = @ + 1, !.depth = @ - 1,
              !.starts = IF s.depth = 1 THEN Append(@, s.start) ELSE @]
  ELSE [s EXCEPT !.offset = @ + 1]

Unscanned == [offset |-> 0, depth |-> 0, in_string |-> FALSE, escaped |-> FALSE,
              start |-> 0, starts |-> <<>>]

ScannedFile ==
  LET after[n \in 0 .. Len(doc)] ==
        IF n = 0 THEN Unscanned ELSE ScanByte(after[n - 1], doc[n])
  IN  after[Len(doc)]

\* first_json_token: the file is taken for an array.
IsArrayFile ==
  \E k \in DOMAIN doc : doc[k] = "[" /\ \A i \in 1 .. (k - 1) : doc[i] = " "

-----------------------------------------------------------------------------
(* What JSON says, as far as brackets, commas and strings go. *)

Glue(S, T) == {s \o t : s \in S, t \in T}
Chars(S) == {<<c>> : c \in S \cap Characters}
Letters == Chars({",", " "})

\* What may stand between two quotes.
Quoted[n \in 0 .. LongestFile] ==
  IF n = 0 THEN {<<>>}
  ELSE Glue(Chars(Punctuation \ {"q", "b"}), Quoted[n - 1])
         \cup IF n = 1 THEN {}
              ELSE Glue(Glue(Chars({"b"}), Chars(Punctuation)), Quoted[n - 2])

Around(open, S, close) == Glue(Glue(Chars({open}), S), Chars({close}))

\* Text in which brackets match, outside of strings.
Balanced[n \in 0 .. LongestFile] ==
  IF n = 0 THEN {<<>>}
  ELSE Glue(Letters, Balanced[n - 1])
         \cup UNION {Glue(Around("q", Quoted[k - 2], "q")
                            \cup Around("{", Balanced[k - 2], "}")
                            \cup Around("[", Balanced[k - 2], "]"),
                          Balanced[n - k]) : k \in 2 .. n}

Objects(n) == Around("{", Balanced[n - 2], "}")

\* A text, the rows in it and where they start.
Text(t) == [text |-> t, rows |-> <<>>, starts |-> <<>>]

After(t, x) ==
  [text |-> t \o x.text, rows |-> x.rows,
   starts |-> [k \in DOMAIN x.starts |-> x.starts[k] + Len(t)]]

WithRow(o, x) ==
  LET y == After(o, x) IN
  [text |-> y.text, rows |-> <<o>> \o y.rows, starts |-> <<0>> \o y.starts]

Skip(c, S) == {After(t, x) : t \in Chars({c}), x \in S}
Row(n, rest) == UNION {{WithRow(o, x) : o \in Objects(k), x \in rest[n - k]} :
                       k \in 2 .. n}

Spaces(n) == {s \in {[k \in 1 .. n |-> " "]} : n = 0 \/ " " \in Characters}
Closed(n) == {Text(<<"]">> \o s) : s \in Spaces(n - 1)}

\* What may follow a row, what must follow a comma, what may follow the opening
\* bracket.
Tails[n \in 0 .. LongestFile] ==
  IF n = 0 THEN [row |-> {}, comma |-> {}, open |-> {}]
  ELSE LET rest == Row(n, [m \in 0 .. n - 1 |-> Tails[m].row]) IN
       [row   |-> Closed(n) \cup Skip(" ", Tails[n - 1].row)
                    \cup Skip(",", Tails[n - 1].comma),
        comma |-> rest \cup Skip(" ", Tails[n - 1].comma),
        open  |-> Closed(n) \cup rest \cup Skip(" ", Tails[n - 1].open)]

Lead[n \in 0 .. LongestFile] ==
  IF n = 0 THEN {} ELSE Skip("[", Tails[n - 1].open) \cup Skip(" ", Lead[n - 1])

\* The array files there are, and what is in them.
Arrays == UNION {Lead[n] : n \in 0 .. LongestFile}

\* Rows with nothing but white space between them: what arrow-json parses.
Streams[n \in 0 .. LongestFile] ==
  IF n = 0 THEN {Text(<<>>)}
  ELSE Skip(" ", Streams[n - 1]) \cup Row(n, Streams)

Parsed == UNION {Streams[n] : n \in 0 .. LongestFile}

\* arrow-json, external: the rows of a stream it accepts.
Accepts(text) == \E x \in Parsed : x.text = text
RowsOf(text) == (CHOOSE x \in Parsed : x.text = text).rows
-----------------------------------------------------------------------------
\* inspect_file_entry: the file was scanned and parsed, now its rows are found.
Inspect ==
  /\ pc = "scanned"
  /\ pc' = IF ~IsArrayFile \/ ~Accepts(delivered)
                \/ ScannedFile.depth # 0 \/ ScannedFile.in_string
             THEN "error" ELSE "mapped"
  /\ starts' = IF pc' = "mapped" THEN ScannedFile.starts ELSE <<>>
  /\ UNCHANGED <<doc, from, pos, filter, delivered>>

\* A mapped slice opens the file at the first byte of a row.
OpenAt(k) ==
  /\ pc = "mapped"
  /\ k \in DOMAIN starts /\ starts[k] > 0
  /\ from' = starts[k]
  /\ pos' = starts[k]
  /\ filter' = FreshFromOffset
  /\ delivered' = <<>>
  /\ pc' = "scan"
  /\ UNCHANGED <<doc, starts>>

\* Nothing is read yet.
ArrayStart ==
  /\ starts = <<>>
  /\ from = 0
  /\ pos = 0
  /\ filter = Fresh
  /\ delivered = <<>>
  /\ pc = "scan"

ArrayInit ==
  /\ doc \in {<<"[">> \o d : d \in Files(MaxArray - 1)}
              \cup {<<"[", "{">> \o d \o <<"}", "]">> : d \in Files(MaxText)}
              \cup Files(MaxOther)
  /\ ArrayStart

ArrayNext ==
  \/ \E n \in Chunks : ReadChunk(n) \/ ReadTrailer(n)
  \/ ReadEnd
  \/ Inspect
  \/ \E k \in 1 .. LongestFile : OpenAt(k)

ArraySpec == ArrayInit /\ [][ArrayNext]_arrayVars
-----------------------------------------------------------------------------
(* Properties. *)

\* The text after the white space it begins with.
IsTrimmed(d, text) ==
  \E k \in 0 .. Len(text) :
    d = SubSeq(text, k + 1, Len(text)) /\ \A i \in 1 .. k : text[i] = " "

\* However the file is cut into chunks, exactly the well-formed arrays of
\* objects reach the parser, as their rows in order; a file that does not start
\* with a bracket reaches it from its first character on (json.rs:151-387).
ScanRight ==
  from = 0 =>
    /\ pc = "error" /\ starts = <<>> /\ IsArrayFile =>
         ~\E a \in Arrays : a.text = doc
    /\ pc \in {"scanned", "mapped"} /\ IsArrayFile /\ Accepts(delivered) =>
         \E a \in Arrays : a.text = doc /\ a.rows = RowsOf(delivered)
    /\ pc = "scanned" /\ ~IsArrayFile =>
         IsTrimmed(delivered, doc)

\* The inspector finds the rows the parser saw, each at its first byte, and a
\* stream opened there delivers that row and those after it: brackets, commas
\* and quotes inside strings included (inspect.rs:184-279, json.rs:186-202).
MappedRowsRight ==
  /\ pc = "mapped" => \E a \in Arrays : a.text = doc /\ a.starts = starts
  /\ from > 0 =>
       /\ pc # "error"
       /\ pc = "eof" =>
            \E a \in Arrays, k \in DOMAIN starts :
              /\ a.text = doc /\ starts[k] = from
              /\ Accepts(delivered)
              /\ RowsOf(delivered) = SubSeq(a.rows, k, Len(a.rows))

\* Readers from the first byte and from a mapped one see the rows of the array
\* (json.rs:151-387, inspect.rs:184-279).
ArrayRowsRight == ScanRight /\ MappedRowsRight
=============================================================================
