------------------------------ MODULE RowSlice ------------------------------
(***************************************************************************)
(* What slice_rows promises its caller: the rows offset .. offset+limit-1  *)
(* of the file, in file order, or as many of them as the file has, whether *)
(* or not a lake map entry was used to find them.  Past the end of the file *)
(* it answers with no rows or with an error (a mapped JSON array).         *)
(***************************************************************************)
EXTENDS Integers

CONSTANTS
  Totals,   \* row counts a file may have
  Offsets,  \* offsets a caller may ask for
  Limits    \* limits a caller may ask for

VARIABLES
  total,   \* rows of the file
  phase,   \* "idle", "asked", "answered", "failed"
  ask,     \* the range asked for
  answer   \* the rows returned: answer[k] is the number of the k-th row

sliceVars == <<total, phase, ask, answer>>

Smaller(a, b) == IF a < b THEN a ELSE b

\* Rows of the range that exist.
Length(rows, range) ==
  IF range.offset < rows THEN Smaller(range.limit, rows - range.offset) ELSE 0

Wanted(rows, range) ==
  [k \in 0 .. (Length(rows, range) - 1) |-> range.offset + k]

Init ==
  /\ total \in Totals
  /\ phase = "idle"
  /\ ask = [offset |-> 0, limit |-> 0]
  /\ answer = <<>>

Ask(o, l) ==
  /\ phase = "idle"
  /\ phase' = "asked"
  /\ ask' = [offset |-> o, limit |-> l]
  /\ UNCHANGED <<total, answer>>

Answer ==
  /\ phase = "asked"
  /\ phase' = "answered"
  /\ answer' = Wanted(total, ask)
  /\ UNCHANGED <<total, ask>>

\* Only a range that starts past the last row may end with an error.
Refuse ==
  /\ phase = "asked"
  /\ ask.offset >= total
  /\ phase' = "failed"
  /\ UNCHANGED <<total, ask, answer>>

Collect ==
  /\ phase \in {"answered", "failed"}
  /\ phase' = "idle"
  /\ ask' = [offset |-> 0, limit |-> 0]
  /\ answer' = <<>>
  /\ UNCHANGED total

Next ==
  \/ \E o \in Offsets, l \in Limits : Ask(o, l)
  \/ Answer
  \/ Refuse
  \/ Collect

Spec == Init /\ [][Next]_sliceVars
=============================================================================
