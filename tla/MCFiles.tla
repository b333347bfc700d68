------------------------------ MODULE MCFiles -------------------------------
(***************************************************************************)
(* A file and the ways to its rows: the byte offsets the lake map records  *)
(* for lines of text (TextRows) and for a JSON array (JsonArray), the      *)
(* handler the registry finds for it (FormatRegistry), and the Parquet     *)
(* copy SQL reads instead (SqlCache).  A behaviour is about one of these;  *)
(* the variables of the others rest in an initial state.                   *)
(***************************************************************************)
EXTENDS TextRows, JsonArray, FormatRegistry, SqlCache, TLC

VARIABLE way  \* "text", "array", "registry" or "sql"

fileVars == <<way, textVars, arrayVars, registryVars, sqlVars>>

\* The cached file of a source: there is one.
MCCacheOf == [s \in Sources |-> CHOOSE t \in Caches : TRUE]

\* The threads that run queries are alike.
MCSymmetry == Permutations(Queries)

NoText     == Init /\ kind = "delimited" /\ stride = 1
NoArray    == ArrayStart /\ doc = <<>>
NoRegistry == /\ RegistryStart
              /\ file = [native |-> TRUE, magic |-> TRUE, rows |-> [h \in Handlers |-> 0]]
NoSql      == SqlInit

FilesInit ==
  \/ way = "text"     /\ Init /\ NoArray /\ NoRegistry /\ NoSql
  \/ way = "array"    /\ ArrayInit /\ NoText /\ NoRegistry /\ NoSql
  \/ way = "registry" /\ RegistryInit /\ NoText /\ NoArray /\ NoSql
  \/ way = "sql"      /\ SqlInit /\ NoText /\ NoArray /\ NoRegistry

FilesNext ==
  /\ UNCHANGED way
  /\ \/ /\ way = "text" /\ Next
        /\ UNCHANGED <<arrayVars, registryVars, sqlVars>>
     \/ /\ way = "array" /\ ArrayNext
        /\ UNCHANGED <<textVars, registryVars, sqlVars>>
     \/ /\ way = "registry" /\ RegistryNext
        /\ UNCHANGED <<textVars, arrayVars, sqlVars>>
     \/ /\ way = "sql" /\ SqlNext
        /\ UNCHANGED <<textVars, arrayVars, registryVars>>

FilesSpec == FilesInit /\ [][FilesNext]_fileVars
-----------------------------------------------------------------------------
\* The types of all four (map/inspect.rs, formats/mod.rs, json.rs, sql.rs), each
\* where it is what the behaviour is about.
FilesTypeOK ==
  /\ way = "text"     => TypeOK
  /\ way = "array"    => ArrayTypeOK
  /\ way = "registry" => RegistryTypeOK
  /\ SqlTypeOK
=============================================================================
