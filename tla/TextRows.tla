------------------------------ MODULE TextRows ------------------------------
(***************************************************************************)
(* Formats whose rows are lines of text.  When a delimited or an NDJSON    *)
(* file is mapped, an inspector (src/src/engine/map/inspect.rs) looks for  *)
(* the bytes its rows start at, with an automaton of its own; a slice      *)
(* later starts the reader (formats/common/csv.rs, json.rs) at one of      *)
(* them.  The two must agree on where rows begin and how many there are.   *)
(*                                                                         *)
(* Both read the same bytes.  Here they do so side by side, one byte in a  *)
(* step, whatever it is, so that the file itself need not be kept.  A byte *)
(* is one of the characters that matter; "slash" is the backslash, "open"  *)
(* and "close" are braces, "space" is any other white space, "lf" and "cr" *)
(* end lines.                                                              *)
(***************************************************************************)
EXTENDS Integers, Sequences

CONSTANTS
  Kinds,   \* formats of the file: "delimited", "ndjson"
  Strides, \* rows between two checkpoints
  MaxBytes \* bound: length of the file

ASSUME KindsAssumption   == Kinds \subseteq {"delimited", "ndjson"}
ASSUME StridesAssumption == Strides \subseteq Nat \ {0}
ASSUME BytesAssumption   == MaxBytes \in Nat

VARIABLES
  kind,
  stride,
  at,      \* bytes read so far
  scan,    \* the inspector: its flags, the line it is in, the open block
  groups,  \* the row groups it has recorded
  reader,  \* the reader: its state, depth of braces, has it passed the header
  rows,    \* the bytes the rows of the reader start at
  gaps,    \* the offsets at which it was between two rows
  tidy,    \* so far the bytes keep to the format
  phase

textVars == <<kind, stride, at, scan, groups, reader, rows, gaps, tidy, phase>>

Alphabet == [delimited |-> {"quote", "lf", "cr", "comma", "other"},
             ndjson    |-> {"quote", "slash", "lf", "open", "close", "space"}]

States == [delimited |-> {"between", "crlf", "field", "plain", "quoted", "closing"},
           ndjson    |-> {"between", "inside", "quoted", "escape"}]

NoBlock == -1

Group == [first: Nat, count: Nat, byte: Int]

TypeOK ==
  /\ kind \in Kinds /\ stride \in Strides
  /\ at \in Nat
  /\ scan \in [quoted: BOOLEAN, pending: BOOLEAN, content: BOOLEAN, header: BOOLEAN,
               start: Nat, block: Int, first: Nat, count: Nat]
  /\ groups \in Seq(Group)
  /\ reader \in [state: States[kind], depth: Nat, header: BOOLEAN]
  /\ rows \in Seq(Nat)
  /\ gaps \subseteq Nat
  /\ tidy \in BOOLEAN
  /\ phase \in {"bytes", "end", "error"}
-----------------------------------------------------------------------------
(* The inspectors. *)

\* The block a row belongs to starts at its first row.
BlockStart == IF scan.block = NoBlock THEN scan.start ELSE scan.block

\* A line feed that ends a line: a line with content is a row, unless it is
\* the header; `stride' rows make a block.
EndLine ==
  LET isRow == scan.content /\ scan.header
      full  == isRow /\ scan.count + 1 = stride
  IN  /\ scan' = [quoted  |-> FALSE, pending |-> FALSE, content |-> FALSE,
                  header  |-> scan.header \/ scan.content,
                  start   |-> at + 1,
                  block   |-> IF full THEN NoBlock ELSE IF isRow THEN BlockStart ELSE scan.block,
                  first   |-> IF full THEN scan.first + stride ELSE scan.first,
                  count   |-> IF full THEN 0 ELSE IF isRow THEN scan.count + 1 ELSE scan.count]
      /\ groups' = IF full
                     THEN Append(groups, [first |-> scan.first, count |-> stride,
                                          byte |-> BlockStart])
                     ELSE groups

\* Any other byte.
InLine(hasContent, quoted, pending) ==
  /\ scan' = [scan EXCEPT !.content = @ \/ hasContent, !.quoted = quoted,
                          !.pending = pending]
  /\ UNCHANGED groups

\* Mutated: a quote inside a quoted field does not wait for a second one.
InspectDelimitedHasty(b) ==
  CASE b = "lf" /\ ~(scan.quoted /\ ~scan.pending) -> EndLine
    [] b = "quote" -> InLine(TRUE, ~scan.quoted, FALSE)
    [] b = "cr" \/ (b = "lf" /\ scan.quoted) -> InLine(scan.quoted, FALSE, FALSE)
    [] b \in {"comma", "other"} -> InLine(TRUE, scan.quoted, FALSE)

\* inspect_delimited_row_groups: a quote in a quoted field is pending; a
\* second one makes it an escape, any other byte the end of the quotes.
InspectDelimited(b) ==
  LET quoted == scan.quoted /\ ~scan.pending
  IN  CASE b = "lf" /\ ~quoted  -> EndLine
        [] b = "lf" /\ quoted   -> InLine(FALSE, TRUE, FALSE)
        [] b = "cr"             -> InLine(scan.quoted, quoted, FALSE)
        [] b = "quote"             -> InLine(TRUE, TRUE, quoted)
        [] b \in {"comma", "other"}    -> InLine(TRUE, quoted, FALSE)

\* inspect_ndjson_row_groups: each line that is not blank is a row.
InspectNdjson(b) == IF b = "lf" THEN EndLine ELSE InLine(b # "space", FALSE, FALSE)

\* Mutated: a last line needs its line feed.
LastBlockOfWholeLines ==
  IF scan.count = 0 THEN <<>>
  ELSE <<[first |-> scan.first, count |-> scan.count, byte |-> BlockStart]>>

\* The last block, with a last line that has no line feed.
LastBlock ==
  LET count == scan.count + (IF scan.content /\ scan.header THEN 1 ELSE 0)
  IN  IF count = 0 THEN <<>>
      ELSE <<[first |-> scan.first, count |-> count, byte |-> BlockStart]>>
-----------------------------------------------------------------------------
(* The readers. *)

Resting(state) == state \in {"between", "crlf"}

\* csv-core: a quote counts at the start of a field only; CR, LF and CRLF end
\* a record.
CsvState(b) ==
  CASE reader.state = "quoted"              -> IF b = "quote" THEN "closing" ELSE "quoted"
    [] reader.state # "quoted" /\ b = "quote"   -> IF reader.state = "plain" THEN "plain"
                                                                         ELSE "quoted"
    [] reader.state # "quoted" /\ b = "comma"   -> "field"
    [] reader.state # "quoted" /\ b = "other"   -> "plain"
    [] reader.state # "quoted" /\ b = "cr"   -> "crlf"
    [] reader.state # "quoted" /\ b = "lf"   -> "between"

EndsRecord(b) == b \in {"lf", "cr"} /\ reader.state # "quoted" /\ ~Resting(reader.state)

\* Blank lines are skipped and the first record is the header.  The format is
\* left by a quote inside an unquoted field and by a CR without its LF.
ReadDelimited(b) ==
  /\ reader' = [reader EXCEPT !.state = CsvState(b), !.header = @ \/ EndsRecord(b)]
  /\ rows' = IF Resting(reader.state) /\ b \notin {"lf", "cr"} /\ reader.header
               THEN Append(rows, at) ELSE rows
  /\ tidy' = (/\ tidy
              /\ ~(reader.state = "plain" /\ b = "quote")
              /\ reader.state = "crlf" => b = "lf")
  /\ UNCHANGED phase

JsonState(b) ==
  CASE reader.state = "between" -> IF b = "open" THEN "inside" ELSE "between"
    [] reader.state = "inside"  -> IF b = "quote" THEN "quoted"
                                   ELSE IF b = "close" /\ reader.depth = 1 THEN "between"
                                   ELSE "inside"
    [] reader.state = "quoted"  -> IF b = "quote" THEN "inside"
                                   ELSE IF b = "slash" THEN "escape" ELSE "quoted"
    [] reader.state = "escape"  -> "quoted"

\* Mutated: braces are counted down whatever the depth.
JsonDepthUnguarded(b) ==
  IF reader.state \in {"quoted", "escape"} THEN reader.depth
  ELSE IF b = "open" THEN reader.depth + 1
  ELSE IF b = "close" THEN reader.depth - 1 ELSE reader.depth

JsonDepth(b) ==
  IF reader.state \in {"quoted", "escape"} THEN reader.depth
  ELSE IF b = "open" THEN reader.depth + 1
  ELSE IF b = "close" /\ reader.depth > 0 THEN reader.depth - 1 ELSE reader.depth

\* arrow-json: objects with white space between them, anything else is an
\* error.  The format has one object in a line, and each object in one line.
ReadNdjson(b) ==
  /\ reader' = [reader EXCEPT !.state = JsonState(b), !.depth = JsonDepth(b)]
  /\ rows' = IF Resting(reader.state) /\ b = "open" THEN Append(rows, at) ELSE rows
  /\ tidy' = (/\ tidy
              /\ b = "lf" => Resting(reader.state)
              /\ Resting(reader.state) /\ b = "open" => ~scan.content)
  /\ phase' = IF Resting(reader.state) /\ b \notin {"open", "lf", "space"}
                THEN "error" ELSE phase
-----------------------------------------------------------------------------
NextByte(b) ==
  /\ phase = "bytes"
  /\ at < MaxBytes
  /\ at' = at + 1
  /\ CASE kind = "delimited" -> InspectDelimited(b) /\ ReadDelimited(b)
       [] kind = "ndjson"    -> InspectNdjson(b) /\ ReadNdjson(b)
  /\ gaps' = IF Resting(reader'.state) /\ reader'.header THEN gaps \cup {at + 1} ELSE gaps
  /\ UNCHANGED <<kind, stride>>

\* An object that is cut off fails the scan, and nothing is mapped.
EndOfText ==
  /\ phase = "bytes"
  /\ IF kind = "ndjson" /\ ~Resting(reader.state)
       THEN phase' = "error" /\ UNCHANGED groups
       ELSE phase' = "end" /\ groups' = groups \o LastBlock
  /\ UNCHANGED <<kind, stride, at, scan, reader, rows, gaps, tidy>>

Init ==
  /\ kind \in Kinds
  /\ stride \in Strides
  /\ at = 0
  /\ scan = [quoted |-> FALSE, pending |-> FALSE, content |-> FALSE,
             header |-> kind = "ndjson", start |-> 0,
             block |-> NoBlock, first |-> 0, count |-> 0]
  /\ groups = <<>>
  /\ reader = [state |-> "between", depth |-> 0, header |-> kind = "ndjson"]
  /\ rows = <<>>
  /\ gaps = IF kind = "ndjson" THEN {0} ELSE {}
  /\ tidy = TRUE
  /\ phase = "bytes"

Next == (\E b \in Alphabet[kind] : NextByte(b)) \/ EndOfText

Spec == Init /\ [][Next]_textVars
-----------------------------------------------------------------------------
(* Properties. *)

\* In a file that keeps to its format, the checkpoint of every row group is a
\* byte at which the reader is between two rows and has read exactly the rows
\* before the group: a reader that starts there finds them numbered as the
\* map says (inspect.rs:128-181, 368-462; csv.rs:120-180).
CheckpointsRight ==
  tidy => \A i \in DOMAIN groups :
            /\ groups[i].byte \in gaps
            /\ \A k \in DOMAIN rows : k <= groups[i].first <=> rows[k] < groups[i].byte

\* The groups of such a file hold every row of the reader once, in order, and
\* all but the last are full (inspect.rs:164-181, 445-462).
GroupsCover ==
  tidy /\ phase = "end" =>
    /\ \A i \in DOMAIN groups :
         /\ groups[i].first =
              IF i = 1 THEN 0 ELSE groups[i - 1].first + groups[i - 1].count
         /\ groups[i].count \in 1 .. stride
         /\ i < Len(groups) => groups[i].count = stride
    /\ Len(rows) = IF groups = <<>> THEN 0
                   ELSE groups[Len(groups)].first + groups[Len(groups)].count

\* The row groups of a file that keeps to its format divide the rows its reader
\* finds, and the reader can start at each of them (inspect.rs:128-181, 368-462;
\* csv.rs:120-180; json.rs).
TextBlocksRight == CheckpointsRight /\ GroupsCover
=============================================================================
