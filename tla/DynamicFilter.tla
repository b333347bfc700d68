--------------------------- MODULE DynamicFilter ----------------------------
(***************************************************************************)
(* filter_batch_dynamic (src/src/engine/dynamic_filter.rs): the rules of a *)
(* caller are evaluated one after the other on a batch; each rule owns one *)
(* bit of one chunk of the error mask, and a row that breaks a rule goes   *)
(* to the trash batch with its audit columns.                              *)
(*                                                                         *)
(* A cell is a number, NaN or Null; strings are compared by their rank *)
(* and have the values of numbers.  A column name has a stem and a case.   *)
(* Width stands for the 64 bits of a chunk.                                *)
(***************************************************************************)
EXTENDS Integers, SequencesExt, FiniteSets

CONSTANTS
  Columns,   \* columns a batch may start with
  Second,    \* the other column a batch may have
  Asked,     \* the rules callers use
  AliasOf,   \* stem -> the stem resolve_column also accepts for it
  Null, NaN, \* cells that are no number; the value of a rule may be NaN, too
  Text,      \* a string that is no number
  Width,     \* bits of a chunk (64 in the code)
  MaxRules   \* bound: rules of a call

Ops == {">", ">=", "<", "<=", "==", "!="}
Types == {"int", "uint", "float", "utf8", "date"}
Cells == Int \cup {Null, NaN}

\* What a module that instantiates this one assumes of the constants.
RulesTyped ==
  /\ \A c \in Columns \cup Second :
       c.type \in Types /\ c.cells \in Seq(Cells)
  /\ \A c \in Columns, s \in Second : DOMAIN c.cells = DOMAIN s.cells
  /\ \A rule \in Asked : rule.op \in Ops /\ rule.value \in Int \cup {Text, NaN}
  /\ {Null, NaN, Text} \cap Int = {} /\ Null # NaN
  /\ Width \in Nat \ {0} /\ MaxRules \in Nat

VARIABLES
  batch,     \* the columns, in order
  total,     \* how many rules the caller passed
  rules,     \* those evaluated so far
  clean,     \* clean_bits: row -> BOOLEAN
  chunks,    \* error_chunks_raw: chunk -> row -> the bits set
  outcome,   \* the two batches returned
  pc

vars == <<batch, total, rules, clean, chunks, outcome, pc>>

Rows == DOMAIN batch[1].cells
NumChunks(n) == IF n = 0 THEN 1 ELSE (n + Width - 1) \div Width

TypeOK ==
  /\ batch \in Seq(Columns \cup Second)
  /\ total \in 0 .. MaxRules
  /\ rules \in Seq(Asked) /\ Len(rules) <= total
  /\ clean \in [Rows -> BOOLEAN]
  /\ chunks \in [1 .. NumChunks(total) -> [Rows -> SUBSET (0 .. Width - 1)]]
  /\ pc \in {"rules", "done", "failed"}
-----------------------------------------------------------------------------
(* One rule on one column. *)

\* The positions of the columns with a name.
Exactly(name)  == {c \in DOMAIN batch : batch[c].name = name}
AnyCase(stem)  == {c \in DOMAIN batch : batch[c].name.stem = stem}
First(S) == CHOOSE c \in S : \A d \in S : c <= d

\* resolve_column: the exact name, the name in another case, then the alias.
Resolved(name) ==
  LET hasAlias == name.stem \in DOMAIN AliasOf
      tries == <<Exactly(name), AnyCase(name.stem),
                 IF hasAlias THEN Exactly(AliasOf[name.stem]) ELSE {},
                 IF hasAlias THEN AnyCase(AliasOf[name.stem].stem) ELSE {}>>
  IN IF \E t \in 1 .. 4 : tries[t] # {}
       THEN {First(tries[First({t \in 1 .. 4 : tries[t] # {}})])}
       ELSE {}

\* val_str.parse::<T>() of the column's type; strings are taken as they are.
Parses(type, value) ==
  CASE type = "int"   -> value \notin {Text, NaN}
    [] type = "uint"  -> value \notin {Text, NaN} /\ value >= 0
    [] type = "float" -> value # Text
    [] type = "utf8"  -> TRUE

\* A string that is no number sorts after every string that is one.
Rank(value) == IF value \in {Text, NaN} THEN 100 ELSE value

Compare(a, op, b) ==
  CASE op = ">"  -> a > b
    [] op = ">=" -> a >= b
    [] op = "<"  -> a < b
    [] op = "<=" -> a <= b
    [] op = "==" -> a = b
    [] op = "!=" -> a # b

\* Among strings NaN is one that is no number.
NotANumber(type, cell, value) == cell = NaN \/ (type = "float" /\ value = NaN)

\* A NaN is different from everything and in no order with anything.
Passed(type, cell, rule) ==
  IF NotANumber(type, cell, rule.value) THEN rule.op = "!="
  ELSE Compare(cell, rule.op, Rank(rule.value))

Breaks(type, cell, rule) == cell = Null \/ ~Passed(type, cell, rule)

Supported(type) == type \in {"int", "uint", "float", "utf8"}

\* The column a rule is evaluated on, if there is one.
Target(rule) == {c \in Resolved(rule.name) : Supported(batch[c].type)}
-----------------------------------------------------------------------------
\* Mutated: one chunk for all the rules.
BitOfOverflow(i) == [chunk |-> 1, bit |-> i % Width]

\* Rule i, counted from 0.
BitOf(i) == [chunk |-> i \div Width + 1, bit |-> i % Width]

EvalRule(rule) ==
  /\ pc = "rules"
  /\ Len(rules) < total
  /\ rules' = Append(rules, rule)
  /\ IF \E c \in Target(rule) : ~Parses(batch[c].type, rule.value)
       THEN pc' = "failed" /\ UNCHANGED <<clean, chunks>>
       ELSE LET at  == BitOf(Len(rules))
                bad == {r \in Rows : \E c \in Target(rule) :
                          Breaks(batch[c].type, batch[c].cells[r], rule)}
            IN /\ clean' = [r \in Rows |-> clean[r] /\ r \notin bad]
               /\ chunks' = [chunks EXCEPT ![at.chunk] =
                               [r \in Rows |-> @[r] \cup IF r \in bad THEN {at.bit} ELSE {}]]
               /\ UNCHANGED pc
  /\ UNCHANGED <<batch, total, outcome>>

Ascending(q) == \A i, j \in DOMAIN q : i < j => q[i] < q[j]

\* The elements of S, the smallest first.
SortedRows(S) == CHOOSE q \in [1 .. Cardinality(S) -> S] : Ascending(q)

\* The bits of all chunks as rule numbers, chunk by chunk, lowest bit first.
Listed(r) ==
  FlattenSeq([c \in DOMAIN chunks |->
    [k \in 1 .. Len(SortedRows(chunks[c][r])) |->
       (c - 1) * Width + SortedRows(chunks[c][r])[k]]])

\* audit_violated_rules.
Violated(r) == IF total > Width THEN Listed(r) ELSE <<>>

\* Mutated: the trash rows are those with a code.
SplitBatchByCode ==
  /\ pc = "rules"
  /\ Len(rules) = total
  /\ pc' = "done"
  /\ outcome' =
       [clean |-> SortedRows({r \in Rows : clean[r]}),
        trash |-> LET t == SortedRows({r \in Rows : chunks[1][r] # {}}) IN
                  [k \in DOMAIN t |-> [row |-> t[k], code |-> chunks[1][t[k]],
                                       violated |-> Violated(t[k])]]]
  /\ UNCHANGED <<batch, total, rules, clean, chunks>>

\* The clean batch, and the trash batch with its audit columns.
SplitBatch ==
  /\ pc = "rules"
  /\ Len(rules) = total
  /\ pc' = "done"
  /\ outcome' =
       [clean |-> SortedRows({r \in Rows : clean[r]}),
        trash |-> LET t == SortedRows({r \in Rows : ~clean[r]}) IN
                  [k \in DOMAIN t |-> [row |-> t[k], code |-> chunks[1][t[k]],
                                       violated |-> Violated(t[k])]]]
  /\ UNCHANGED <<batch, total, rules, clean, chunks>>

Init ==
  /\ batch \in {<<c>> : c \in Columns} \cup {<<c, s>> : c \in Columns, s \in Second}
  /\ total \in 0 .. MaxRules
  /\ rules = <<>>
  /\ clean = [r \in Rows |-> TRUE]
  /\ chunks = [c \in 1 .. NumChunks(total) |-> [r \in Rows |-> {}]]
  /\ outcome = [clean |-> <<>>, trash |-> <<>>]
  /\ pc = "rules"

Next == (\E rule \in Asked : EvalRule(rule)) \/ SplitBatch

Spec == Init /\ [][Next]_vars
-----------------------------------------------------------------------------
(* Properties. *)

\* The rules a row breaks, by their numbers from 0.
Broken(r) ==
  {i \in 0 .. total - 1 : \E c \in Target(rules[i + 1]) :
     LET cell == batch[c].cells[r]
         rule == rules[i + 1]
         nan  == NotANumber(batch[c].type, cell, rule.value)
     IN \/ cell = Null
        \/ nan /\ rule.op # "!="
        \/ cell # Null /\ ~nan /\ ~Compare(cell, rule.op, Rank(rule.value))}

\* However many chunks the rules need, a row is clean exactly when it breaks no
\* rule; bit i of audit_error_code says whether rule i is broken, for the rules
\* of the first chunk, and audit_violated_rules, when there is one, lists every
\* broken rule in order (docs/en/architecture/simd-kernel.md:50-63).
AuditRight ==
  pc = "done" =>
    /\ {outcome.clean[k] : k \in DOMAIN outcome.clean} = {r \in Rows : Broken(r) = {}}
    /\ \A k \in DOMAIN outcome.trash :
         LET t == outcome.trash[k] IN
         /\ t.code = {i \in Broken(t.row) : i < Width}
         /\ total > Width =>
              /\ {t.violated[n] : n \in DOMAIN t.violated} = Broken(t.row)
              /\ \A n \in DOMAIN t.violated : n > 1 => t.violated[n - 1] < t.violated[n]

\* Each row is in one of the two batches, in its order; a row in the trash has a
\* reason: a bit of its code, or an entry of its list.
NoRowLost ==
  pc = "done" =>
    /\ Len(outcome.clean) + Len(outcome.trash) = Cardinality(Rows)
    /\ \A k \in DOMAIN outcome.trash :
         /\ outcome.trash[k].code # {} \/ outcome.trash[k].violated # <<>>
         /\ \A n \in DOMAIN outcome.clean : outcome.clean[n] # outcome.trash[k].row
         /\ k > 1 => outcome.trash[k - 1].row < outcome.trash[k].row
=============================================================================
