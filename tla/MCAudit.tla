------------------------------ MODULE MCAudit ------------------------------
(***************************************************************************)
(* The four entry points that divide rows into clean and trash: the static *)
(* filter and the rule filter on one batch, the parallel writer and the    *)
(* parallel rule filter on the files of a directory.  A behaviour is one   *)
(* call of one of them; what the call does not use is None.                *)
(***************************************************************************)
EXTENDS LakeWriter

CONSTANTS
  Null, NaN, Missing, Text, None,
  Passengers, Fares, Distances, Times,                   \* of StaticFilter
  MinPassenger, MaxPassenger, MinFare, MaxSpeed, NumRows,
  Columns, Second, Asked, AliasOf, Width, MaxRules,      \* of DynamicFilter
  Root, Trees, Rules, Filters, Contents, NoKey           \* of LakeFilter

VARIABLES
  call,                         \* "static", "dynamic", "lake" or "files"
  batch, outcome, pc,           \* of the two filters
  masks,                        \* of the static filter
  total, rules, clean, chunks,  \* of the rule filter
  lake, request, status, chosen, pruned, counter, content, summary \* of the files

lakeVars    == vars
staticVars  == <<masks>>
dynamicVars == <<total, rules, clean, chunks>>
filterVars  == <<batch, outcome, pc>>
filesVars   == <<lake, request, status, chosen, pruned, counter, content, summary>>
allVars     == <<call, lakeVars, filterVars, staticVars, dynamicVars, filesVars>>

MCBatches == {[clean |-> 2, trash |-> 0], [clean |-> 1, trash |-> 1], [clean |-> 0, trash |-> 1]}

\* Below, at and above every threshold, and what is no number.
MCPassengers == {0, 2, Null, NaN}
MCFares      == {1, 5, Null}
MCDistances  == {0, 9, Null, NaN}
MCTimes      == {0, 1, 2, Null}

Static == INSTANCE StaticFilter

Name(stem, case) == [stem |-> stem, case |-> case]

\* A column named fare_amount, in one of two cases, of two rows.
MCColumns ==
  {[name |-> Name("fare_amount", c), type |-> t, cells |-> v] :
     c \in {"lower", "mixed"}, t \in {"uint", "date"}, v \in [1 .. 2 -> {0, 1, Null}]}
  \cup {[name |-> Name("fare_amount", "mixed"), type |-> "utf8", cells |-> v] :
          v \in [1 .. 2 -> {0, 1, Null}]}
  \cup {[name |-> Name("fare_amount", "lower"), type |-> "float", cells |-> v] :
          v \in [1 .. 2 -> {0, 1, NaN}]}

MCSecond ==
  {[name |-> Name("fare_amount", "lower"), type |-> "int", cells |-> <<1, 1>>]}

MCAsked ==
  {[name |-> Name("fare_amount", "lower"), op |-> o, value |-> v] :
     o \in {">", "!="}, v \in {0, 1}}
  \cup {[name |-> Name("fare_amt", "lower"), op |-> "<=", value |-> -1],
        [name |-> Name("fare_amt", "mixed"), op |-> "<", value |-> Text],
        [name |-> Name("fare_amount", "lower"), op |-> "<", value |-> NaN],
        [name |-> Name("tip", "lower"), op |-> "==", value |-> 0],
        [name |-> Name("fare_amount", "mixed"), op |-> ">=", value |-> 1]}

MCAliasOf == [fare_amt |-> Name("fare_amount", "lower"),
              fare_amount |-> Name("fare_amt", "mixed")]

Dynamic == INSTANCE DynamicFilter

\* year=9, year=10 (which strings order the other way), month=jan and a name.
Segment(k, n, t) == [key |-> k, value |-> [num |-> n, text |-> t]]
Year9  == Segment("year", 9, 2)
Year10 == Segment("year", 10, 1)
January == Segment("month", Text, 3)
Plain   == Segment("", Text, 4)
Leaf   == Segment("", Text, 5)
MCRoot  == <<Plain>>

\* Up to three directories, in two levels, with up to two entries that are
\* not directories.  TLC computes a definition once, a constant's value each time.
MCDirectories ==
  LET one == {Append(MCRoot, s) : s \in {Year9, Year10, January}}
      two == {Append(d, s) : d \in one, s \in {Year9, Year10, Plain}}
  IN  {D \in SUBSET (one \cup two) : Cardinality(D) <= 3 /\ \A d \in D \cap two : Front(d) \in D}
AllTrees ==
  UNION {LET places == {Append(d, Leaf) : d \in D \cup {MCRoot}}
         IN  UNION {{[p \in D |-> "dir"] @@ kinds : kinds \in [L -> {"file", "other"}]} :
                      L \in {S \in SUBSET places : Cardinality(S) <= 2}} :
           D \in MCDirectories}

MCTrees == AllTrees

MCRule(c, o, n, t) == [column |-> c, op |-> o, value |-> [num |-> n, text |-> t]]

MCRules == {{}, {MCRule("year", ">", 9, 2)},
            {MCRule("year", "!=", NaN, 9), MCRule("month", "==", 1, 0)}}
MCFilters == {<<>>, <<{Year9, Year10}>>, <<{January}, {Year10}>>, <<{Leaf}>>}
MCContents == {<<>>, <<[clean |-> 2, trash |-> 0], [clean |-> 0, trash |-> 1]>>}

FilesCall == INSTANCE LakeFilter

ASSUME StaticAssumption  == Static!CellsTyped
ASSUME DynamicAssumption == Dynamic!RulesTyped
ASSUME FilesAssumption   == FilesCall!LakesTyped
-----------------------------------------------------------------------------
NoLake   == input = None /\ tree = None /\ job = None /\ worker = None
              /\ report = None /\ faults = 0
NoFilter == batch = None /\ outcome = None /\ pc = None
NoStatic  == masks = None
NoDynamic == total = None /\ rules = None /\ clean = None /\ chunks = None
NoFiles   == /\ lake = None /\ request = None /\ status = None /\ chosen = None
             /\ pruned = None /\ counter = None /\ content = None /\ summary = None

AuditInit ==
  \/ call = "lake"    /\ Init           /\ NoFilter /\ NoStatic /\ NoDynamic /\ NoFiles
  \/ call = "static"  /\ Static!Init    /\ NoLake /\ NoDynamic /\ NoFiles
  \/ call = "dynamic" /\ Dynamic!Init   /\ NoLake /\ NoStatic /\ NoFiles
  \/ call = "files"   /\ FilesCall!Init /\ NoLake /\ NoFilter /\ NoStatic /\ NoDynamic

AuditNext ==
  /\ UNCHANGED call
  /\ \/ /\ call = "lake" /\ Next
        /\ UNCHANGED <<filterVars, staticVars, dynamicVars, filesVars>>
     \/ call = "static"  /\ Static!Next  /\ UNCHANGED <<lakeVars, dynamicVars, filesVars>>
     \/ call = "dynamic" /\ Dynamic!Next /\ UNCHANGED <<lakeVars, staticVars, filesVars>>
     \/ /\ call = "files" /\ FilesCall!Next
        /\ UNCHANGED <<lakeVars, filterVars, staticVars, dynamicVars>>

AuditSpec == AuditInit /\ [][AuditNext]_allVars
-----------------------------------------------------------------------------
(* Properties: those of the four modules, each of its own calls. *)

AuditTypeOK ==
  /\ call = "lake"    => TypeOK
  /\ call = "static"  => Static!TypeOK
  /\ call = "dynamic" => Dynamic!TypeOK
  /\ call = "files"   => FilesCall!TypeOK

\* filter.rs: each row is in exactly one of the two batches, and a clean one
\* passed every check its columns allow.
StaticSplitRight == call = "static" => Static!NoRowLost /\ Static!CleanIsClean

\* dynamic_filter.rs: each row is in one of the two batches and audited by
\* exactly the rules it breaks.
RulesAuditRight == call = "dynamic" => Dynamic!NoRowLost /\ Dynamic!AuditRight

\* parquet.rs: without I/O errors the trees hold what the input held; whatever
\* fails, the counts add up and cover what is on disk.
LakeReportRight == call = "lake" => TreesTrue /\ CountsCoverDisk

\* partition.rs: pruning loses no file that is asked for, and a dead branch is
\* counted once.
PruningRight == call = "files" => FilesCall!PruningSound /\ FilesCall!PrunedOnce

\* parallel_filter.rs: a summary counts every row of every chosen file.
FilesSummaryRight == call = "files" => FilesCall!SummaryRight
=============================================================================
