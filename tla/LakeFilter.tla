----------------------------- MODULE LakeFilter -----------------------------
(***************************************************************************)
(* filter_files_parallel (src/src/engine/parallel_filter.rs) and the       *)
(* directory walk below it (src/src/engine/partition.rs): the files of a   *)
(* lake are collected, directories whose Hive partitions (year=2026) break *)
(* a rule are pruned unseen, and the rows of the files that are left are   *)
(* counted by a pool of threads.  One file that fails fails the call.      *)
(*                                                                         *)
(* A path is the sequence of its segments.  A segment is what              *)
(* parse_path_partitions makes of it: a key in lower case and its value,   *)
(* or NoKey and a name.  A value is the number it parses as (Text: none)   *)
(* and its place in the order of strings.                                  *)
(***************************************************************************)
EXTENDS Integers, SequencesExt, FiniteSets

CONSTANTS
  Root,       \* the path the call is given
  Trees,      \* what may lie below it: path -> "dir", "file", "other" or "link"
  Rules,      \* the sets of rules a call may have
  Filters,    \* explicit_partition_filter: the segments it asks for, or <<>>
  Contents,   \* the batches a file may have, as their clean and trash rows
  NoKey, Text, NaN

\* What a module that instantiates this one assumes of the constants: whatever lies
\* below the root lies in a directory that does.
LakesTyped ==
  /\ Contents \subseteq Seq([clean: Nat, trash: Nat])
  /\ Root \in Seq(Range(Root))
  /\ \A t \in Trees :
       /\ IsFiniteSet(DOMAIN t)
       /\ \A p \in DOMAIN t :
            /\ p \in Seq(Range(p)) /\ IsStrictPrefix(Root, p)
            /\ Front(p) = Root \/ (Front(p) \in DOMAIN t /\ t[Front(p)] = "dir")

VARIABLES
  lake,    \* the files and directories below the root
  request, \* target ("dir", "file" or "glob"), rules and filter
  status,  \* "called", "counting", "returned", or the error "empty" or "failed"
  chosen,  \* the files to count
  pruned,  \* the directories pruned
  counter, \* the closure that counts each file
  content, \* the batches of the files opened so far
  summary  \* what the call returned

filterVars == <<lake, request, status, chosen, pruned, counter, content, summary>>

Resting  == [pc |-> "wait", k |-> 1, clean |-> 0, trash |-> 0]
NoReport == [files |-> 0, pruned |-> 0, rows |-> 0, clean |-> 0, trash |-> 0]

TypeOK ==
  /\ lake \in Trees
  /\ request \in [target: {"dir", "file", "glob"}, rules: Rules, filter: Filters]
  /\ status \in {"called", "counting", "returned", "empty", "failed"}
  /\ chosen \subseteq DOMAIN lake
  /\ pruned \in Nat
  /\ counter \in [chosen -> [pc: {"wait", "read", "done", "failed"}, k: Nat,
                             clean: Nat, trash: Nat]]
  /\ content \in [chosen -> Contents \cup {<<>>}]
  /\ summary \in [files: Nat, pruned: Nat, rows: Nat, clean: Nat, trash: Nat]

-----------------------------------------------------------------------------
(* partition.rs *)

\* parse_path_partitions: the last segment with a key decides.
PathPartitions(path) ==
  LET places(k) == {i \in DOMAIN path : path[i].key = k}
  IN  [k \in {path[i].key : i \in DOMAIN path} \ {NoKey} |-> path[Max(places(k))].value]

Ordered(a, b, op) ==
  CASE op = ">"  -> a > b
    [] op = ">=" -> a >= b
    [] op = "<"  -> a < b
    [] op = "<=" -> a <= b
    [] op = "==" -> a = b
    [] op = "!=" -> a # b

\* eval_cmp: as numbers if both are numbers, else as strings.
Compared(value, op, target) ==
  CASE Text \in {value.num, target.num} -> Ordered(value.text, target.text, op)
    [] Text \notin {value.num, target.num} /\ NaN \in {value.num, target.num} -> op = "!="
    [] OTHER -> Ordered(value.num, target.num, op)

\* matches_partition_rules
Matches(path, rules) ==
  \A rule \in rules : rule.column \in DOMAIN PathPartitions(path) =>
    Compared(PathPartitions(path)[rule.column], rule.op, rule.value)

\* str::contains: the filter may span several segments of the path.
PathContains(path, filter) ==
  \E i \in 1 .. Len(path) + 1 :
    /\ i + Len(filter) - 1 <= Len(path)
    /\ \A k \in DOMAIN filter : path[i + k - 1] \in filter[k]

Children(dir, kind) == {p \in DOMAIN lake : Front(p) = dir /\ lake[p] = kind}

Pruned == [files |-> {}, any |-> FALSE, pruned |-> 1]

\* Mutated: what lies below a dead directory is counted as well.
FoundAdding(dir, found, below) ==
  LET files == found \cup UNION {w.files : w \in {v \in Range(below) : v.any}}
      any   == found # {} \/ \E c \in DOMAIN below : below[c].any
      count == SumFunction([c \in DOMAIN below |-> below[c].pruned])
  IN  IF ~PathContains(dir, request.filter) /\ ~any
        THEN [Pruned EXCEPT !.pruned = 1 + count]
        ELSE [files |-> files, any |-> TRUE, pruned |-> count]

\* Mutated: only a directory that matches the filter itself is kept.
FoundNarrowly(dir, found, below) ==
  IF PathContains(dir, request.filter)
    THEN [files |-> found \cup UNION {w.files : w \in {v \in Range(below) : v.any}},
          any |-> TRUE, pruned |-> SumFunction([c \in DOMAIN below |-> below[c].pruned])]
    ELSE Pruned

\* What walk_and_prune makes of the files of a directory and its
\* subdirectories' results.
Found(dir, found, below) ==
  LET files == found \cup UNION {w.files : w \in {v \in Range(below) : v.any}}
      any   == found # {} \/ \E c \in DOMAIN below : below[c].any
  IN  IF ~PathContains(dir, request.filter) /\ ~any
        THEN Pruned
        ELSE [files |-> files, any |-> TRUE,
              pruned |-> SumFunction([c \in DOMAIN below |-> below[c].pruned])]

\* walk_and_prune; symbolic links and files of unknown formats are passed over.
WalkAndPrune ==
  LET walk[dir \in {Root} \cup {p \in DOMAIN lake : lake[p] = "dir"}] ==
        IF ~Matches(dir, request.rules)
          THEN Pruned
          ELSE Found(dir,
                     {f \in Children(dir, "file") : /\ Matches(f, request.rules)
                                                    /\ PathContains(f, request.filter)},
                     [c \in Children(dir, "dir") |-> walk[c]])
  IN  walk[Root]
-----------------------------------------------------------------------------
(* parallel_filter.rs *)

\* collect_target_files: a glob or a single file is taken as it is.
CollectTargetFiles ==
  /\ status = "called"
  /\ \E found \in CASE request.target = "dir"  -> {WalkAndPrune}
                    [] request.target = "file" ->
                         {[files |-> {f}, pruned |-> 0] :
                            f \in {p \in DOMAIN lake : lake[p] \in {"file", "other"}}}
                    [] request.target = "glob" ->
                         {[files |-> {p \in DOMAIN lake : lake[p] \in {"file", "other"}},
                           pruned |-> 0]} :
       /\ chosen' = found.files
       /\ pruned' = found.pruned
       /\ status' = IF found.files = {} THEN "empty" ELSE "counting"
       /\ counter' = [f \in found.files |-> Resting]
       /\ content' = [f \in found.files |-> <<>>]
  /\ UNCHANGED <<lake, request, summary>>

\* The target does not exist, or a directory cannot be read.
CollectFails ==
  /\ status = "called"
  /\ status' = "failed"
  /\ UNCHANGED <<lake, request, chosen, pruned, counter, content, summary>>

At(f, label) == status = "counting" /\ counter[f].pc = label

\* handler_for knows the format, and the file opens.
OpenSource(f) ==
  /\ At(f, "wait")
  /\ lake[f] = "file"
  /\ \E batches \in Contents : content' = [content EXCEPT ![f] = batches]
  /\ counter' = [counter EXCEPT ![f].pc = "read"]
  /\ UNCHANGED <<lake, request, status, chosen, pruned, summary>>

\* Mutated: a batch that fails ends its file.
CountBatchLeniently(f) ==
  /\ At(f, "read")
  /\ counter[f].k <= Len(content[f])
  /\ LET batch == content[f][counter[f].k]
     IN  \/ counter' = [counter EXCEPT ![f].k = @ + 1, ![f].clean = @ + batch.clean,
                                     ![f].trash = @ + batch.trash]
         \/ counter' = [counter EXCEPT ![f].pc = "done"]
  /\ UNCHANGED <<lake, request, status, chosen, pruned, content, summary>>

\* filter_batch_dynamic: the next batch is divided and its rows are counted.
CountBatch(f) ==
  /\ At(f, "read")
  /\ counter[f].k <= Len(content[f])
  /\ LET batch == content[f][counter[f].k]
     IN  counter' = [counter EXCEPT ![f].k = @ + 1, ![f].clean = @ + batch.clean,
                                  ![f].trash = @ + batch.trash]
  /\ UNCHANGED <<lake, request, status, chosen, pruned, content, summary>>

EndOfFile(f) ==
  /\ At(f, "read")
  /\ counter[f].k > Len(content[f])
  /\ counter' = [counter EXCEPT ![f].pc = "done"]
  /\ UNCHANGED <<lake, request, status, chosen, pruned, content, summary>>

\* No handler, or an error of the file, of a batch or of a rule.
FileFails(f) ==
  /\ At(f, "wait") \/ At(f, "read")
  /\ counter' = [counter EXCEPT ![f].pc = "failed"]
  /\ UNCHANGED <<lake, request, status, chosen, pruned, content, summary>>

Summary ==
  LET clean == SumFunction([f \in chosen |-> counter[f].clean])
      trash == SumFunction([f \in chosen |-> counter[f].trash])
  IN  [files |-> Cardinality(chosen), pruned |-> pruned, rows |-> clean + trash,
       clean |-> clean, trash |-> trash]

ReturnSummary ==
  /\ status = "counting"
  /\ \A f \in chosen : counter[f].pc = "done"
  /\ status' = "returned"
  /\ summary' = Summary
  /\ UNCHANGED <<lake, request, chosen, pruned, counter, content>>

\* collect::<Result<..>>: files that have not begun are dropped, those that
\* have are waited for.
ReturnError ==
  /\ status = "counting"
  /\ \E f \in chosen : counter[f].pc = "failed"
  /\ \A f \in chosen : counter[f].pc # "read"
  /\ status' = "failed"
  /\ UNCHANGED <<lake, request, chosen, pruned, counter, content, summary>>

Init ==
  /\ lake \in Trees
  /\ request \in [target: {"dir", "file", "glob"}, rules: Rules, filter: Filters]
  /\ status = "called"
  /\ chosen = {} /\ pruned = 0
  /\ counter = <<>> /\ content = <<>>
  /\ summary = NoReport

Next ==
  \/ CollectTargetFiles \/ CollectFails \/ ReturnSummary \/ ReturnError
  \/ \E f \in chosen : OpenSource(f) \/ CountBatch(f) \/ EndOfFile(f) \/ FileFails(f)

Spec == Init /\ [][Next]_filterVars
-----------------------------------------------------------------------------
(* Properties. *)

Repeats(path) ==
  \E i, j \in DOMAIN path : i # j /\ path[i].key = path[j].key /\ path[i].key # NoKey

\* The files the caller asks for, each judged by its own path.
AskedFor ==
  {f \in DOMAIN lake : /\ lake[f] = "file"
                       /\ Matches(f, request.rules)
                       /\ PathContains(f, request.filter)}

Walked == status # "called" /\ request.target = "dir" /\ (status = "failed" => chosen # {})

\* Pruning a directory by its name loses no file that the rules and the filter
\* ask for, unless a key occurs twice on its path: then a directory may break
\* a rule that the file below it meets (partition.rs:110-113, 144-148).
PruningSound ==
  Walked => /\ chosen \subseteq AskedFor
            /\ \A f \in AskedFor \ chosen : Repeats(f)

\* A directory is dead if its own path breaks a rule, or nothing that can be
\* reached below it, itself included, matches the filter.
Dead ==
  LET dirs == {Root} \cup {p \in DOMAIN lake : lake[p] = "dir"}
      reached(p, d) == \A i \in Len(d) .. Len(p) - 1 : Matches(SubSeq(p, 1, i), request.rules)
  IN  {d \in dirs :
         \/ ~Matches(d, request.rules)
         \/ \A p \in {d} \cup {q \in DOMAIN lake : IsStrictPrefix(d, q)} :
              ~(/\ p \in dirs \/ lake[p] = "file"
                /\ reached(p, d) /\ Matches(p, request.rules)
                /\ PathContains(p, request.filter))}

\* A dead branch is counted once, at its root, whatever lies below it
\* (partition.rs:77-82, 160-165).
PrunedOnce ==
  Walked => pruned = Cardinality({d \in Dead : \A e \in Dead : ~IsStrictPrefix(e, d)})

\* A call that returns has counted every row of every file it chose: a file
\* that failed in any thread fails the call (parallel_filter.rs:94-131).
SummaryRight ==
  LET rows(side) == SumFunction([f \in chosen |->
                      SumFunction([n \in DOMAIN content[f] |-> content[f][n][side]])])
  IN  status = "returned" =>
        /\ summary.files = Cardinality(chosen) /\ summary.files > 0
        /\ summary.clean = rows("clean")
        /\ summary.trash = rows("trash")
        /\ summary.rows = summary.clean + summary.trash
        /\ \A f \in chosen : counter[f].k = Len(content[f]) + 1
=============================================================================
