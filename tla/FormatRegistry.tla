--------------------------- MODULE FormatRegistry ---------------------------
(***************************************************************************)
(* The registry of format handlers (src/src/engine/formats/mod.rs): a      *)
(* program may register a handler of its own for an extension at any time, *)
(* also one that has a built-in handler, and may take it back.  A job that *)
(* inspects a file for the lake map and the slices of that file each ask   *)
(* the registry more than once, and the answers may differ.                *)
(*                                                                         *)
(* There is one file, which does not change: what changes is who reads it, *)
(* and each handler finds rows of its own in it.  A row is <<handler, k>>. *)
(***************************************************************************)
EXTENDS Integers, FiniteSets

CONSTANTS
  Plugins,    \* handlers a program may register
  Slices,     \* calls of slice_rows or slice_cols
  MaxRows,    \* bound: rows a handler finds
  MaxChanges, \* bound: changes of the registry
  NoHandler

Native  == "native"   \* the built-in handler of the file's own extension
Sniffed == "sniffed"  \* the built-in handler its first bytes ask for
Handlers == Plugins \cup {Native, Sniffed}

ASSUME RegistryAssumption ==
  /\ MaxRows \in Nat /\ MaxChanges \in Nat
  /\ Plugins \cap {Native, Sniffed} = {} /\ NoHandler \notin Handlers

VARIABLES
  file,    \* has its extension a built-in handler, do its first bytes tell a
           \* format, the rows each handler finds in it
  dynamic, \* extension -> the handler that is registered for it
  changes, \* how often the registry has changed
  job,     \* the inspection of the file
  entry,   \* the entry of the file in the lake map
  slice,   \* call -> slice: what it asks, who answered, what was registered for
           \* the file's extensions since it began
  trusted  \* no slice has read an entry of an inspection the registry changed in

registryVars == <<file, dynamic, changes, job, entry, slice, trusted>>

\* The file's own extension and the one its bytes are recognised as.
Extensions == {"own", "magic"}

\* Has its extension a built-in handler, do its bytes tell a format, how many rows
\* does each handler find in it.
SourceFile == [native: BOOLEAN, magic: BOOLEAN, rows: [Handlers -> 0 .. MaxRows]]

NoEntry == [total |-> 0, located |-> FALSE, by |-> NoHandler, quiet |-> TRUE, mapped |-> FALSE]

Answerers == Handlers \cup {NoHandler}

JobState == [pc: {"idle", "resolve", "sniff", "override", "scan"}, handler: Answerers,
             overridden: BOOLEAN, since: 0 .. MaxChanges]
MapEntry == [total: 0 .. MaxRows, located: BOOLEAN, by: Answerers, quiet: BOOLEAN, mapped: BOOLEAN]
Call == [pc: {"idle", "asked", "map", "resolve", "sniff", "done", "error"},
         offset: 0 .. MaxRows, limit: 0 .. MaxRows, by: Answerers, count: 0 .. MaxRows,
         seen: [Extensions -> SUBSET Answerers]]

RegistryTypeOK ==
  /\ file \in SourceFile
  /\ dynamic \in [Extensions -> Plugins \cup {NoHandler}]
  /\ changes \in 0 .. MaxChanges
  /\ job \in JobState
  /\ entry \in MapEntry
  /\ slice \in [Slices -> Call]
  /\ trusted \in BOOLEAN
-----------------------------------------------------------------------------
(* The registry; each of these is one critical section. *)

BuiltIn(extension) ==
  IF extension = "own" /\ file.native THEN Native
  ELSE IF extension = "magic" /\ file.magic THEN Sniffed ELSE NoHandler

is_dynamic_format == dynamic["own"] # NoHandler

\* The registered handler, or the built-in one.
HandlerIn(registry, extension) ==
  IF extension = "magic" /\ ~file.magic THEN NoHandler
  ELSE IF registry[extension] # NoHandler THEN registry[extension] ELSE BuiltIn(extension)

handler_for(extension) == HandlerIn(dynamic, extension)

\* History: what is registered for an extension while a call runs.
Seen(call, extension, handler) ==
  [call EXCEPT !.seen = [call.seen EXCEPT ![extension] = call.seen[extension] \cup {handler}]]

Change(extension, handler) ==
  /\ changes < MaxChanges
  /\ dynamic[extension] # handler
  /\ dynamic' = [dynamic EXCEPT ![extension] = handler]
  /\ changes' = changes + 1
  /\ slice' = [s \in Slices |->
                 IF slice[s].pc \in {"idle", "done", "error"} THEN slice[s]
                 ELSE Seen(slice[s], extension, HandlerIn(dynamic', extension))]
  /\ UNCHANGED <<file, job, entry, trusted>>

register_format(extension, handler) == Change(extension, handler)
unregister_format(extension) == Change(extension, NoHandler)
-----------------------------------------------------------------------------
(* create_map and Doctor. *)

\* Files are discovered by extension: one that nobody handles is not mapped,
\* whatever its first bytes are.
Discover ==
  /\ job.pc = "idle"
  /\ IF handler_for("own") # NoHandler
       THEN /\ job' = [job EXCEPT !.pc = "resolve", !.since = changes]
            /\ UNCHANGED entry
       ELSE /\ entry' = NoEntry
            /\ UNCHANGED job
  /\ UNCHANGED <<file, dynamic, changes, slice, trusted>>

\* resolve_handler_for_file asks for the extension, then for the bytes.
JobResolves ==
  /\ job.pc = "resolve"
  /\ job' = IF handler_for("own") # NoHandler
              THEN [job EXCEPT !.pc = "override", !.handler = handler_for("own")]
              ELSE [job EXCEPT !.pc = "sniff"]
  /\ UNCHANGED <<file, dynamic, changes, entry, slice, trusted>>

\* Without a handler the job fails and the map stays as it was.
JobSniffs ==
  /\ job.pc = "sniff"
  /\ job' = IF handler_for("magic") # NoHandler
              THEN [job EXCEPT !.pc = "override", !.handler = handler_for("magic")]
              ELSE [job EXCEPT !.pc = "idle"]
  /\ UNCHANGED <<file, dynamic, changes, entry, slice, trusted>>

\* Mutated: the locators of the built-in reader are always recorded.
JobAsksNever ==
  /\ job.pc = "override"
  /\ job' = [job EXCEPT !.pc = "scan", !.overridden = FALSE]
  /\ UNCHANGED <<file, dynamic, changes, entry, slice, trusted>>

\* dynamic_override
JobAsks ==
  /\ job.pc = "override"
  /\ job' = [job EXCEPT !.pc = "scan", !.overridden = is_dynamic_format]
  /\ UNCHANGED <<file, dynamic, changes, entry, slice, trusted>>

\* The handler counts the rows; the locators are those of the built-in reader,
\* if there is one and it was not overridden.
JobPublishes ==
  /\ job.pc = "scan"
  /\ entry' = [total   |-> file.rows[job.handler],
               located |-> file.native /\ ~job.overridden /\ file.rows[Native] > 0,
               by      |-> job.handler,
               quiet   |-> job.since = changes,
               mapped  |-> TRUE]
  /\ job' = [job EXCEPT !.pc = "idle", !.handler = NoHandler, !.overridden = FALSE]
  /\ UNCHANGED <<file, dynamic, changes, slice, trusted>>
-----------------------------------------------------------------------------
(* slice_rows, slice_cols. *)

At(s, label) == slice[s].pc = label

Request(s, offset, limit) ==
  /\ At(s, "idle")
  /\ slice' = [slice EXCEPT ![s] = [@ EXCEPT !.pc = "asked", !.offset = offset,
                                             !.limit = limit, !.seen = [x \in Extensions |-> {handler_for(x)}]]]
  /\ UNCHANGED <<file, dynamic, changes, job, entry, trusted>>

\* Mutated: the map is asked before the registry.
AskMapFirst(s) ==
  /\ At(s, "asked")
  /\ slice' = [slice EXCEPT ![s].pc = IF file.native THEN "map" ELSE "resolve"]
  /\ UNCHANGED <<file, dynamic, changes, job, entry, trusted>>

\* A registered handler goes before the map.
AskDynamic(s) ==
  /\ At(s, "asked")
  /\ slice' = [slice EXCEPT ![s].pc =
                 IF ~is_dynamic_format /\ file.native THEN "map" ELSE "resolve"]
  /\ UNCHANGED <<file, dynamic, changes, job, entry, trusted>>

\* Mutated: the rest of the rows is not kept from underflow.
AnswerUnderflow(s, handler, total) ==
  LET left == total - slice[s].offset
  IN  slice' = [slice EXCEPT ![s] = [@ EXCEPT !.pc = "done", !.by = handler,
                  !.count = IF slice[s].limit < left THEN slice[s].limit ELSE left]]

\* The rows of a handler in the range.
Answer(s, handler, total) ==
  LET start == slice[s].offset
      left  == IF start < total THEN total - start ELSE 0
  IN  slice' = [slice EXCEPT ![s] = [@ EXCEPT !.pc = "done", !.by = handler,
                  !.count = IF slice[s].limit < left THEN slice[s].limit ELSE left]]

\* The locators lead the built-in reader to the rows; an offset past the total
\* of the entry is the end of the file, one past the last locator is no answer.
ReadMapped(s) ==
  /\ At(s, "map")
  /\ entry.located
  /\ LET start == slice[s].offset IN
       IF start >= entry.total THEN Answer(s, Native, 0)
       ELSE IF start < file.rows[Native] THEN Answer(s, Native, file.rows[Native])
       ELSE slice' = [slice EXCEPT ![s].pc = "resolve"]
  /\ trusted' = (trusted /\ entry.quiet)
  /\ UNCHANGED <<file, dynamic, changes, job, entry>>

\* No entry or one without locators: the normal reader answers.
ReadUnmapped(s) ==
  /\ At(s, "map")
  /\ ~entry.located
  /\ slice' = [slice EXCEPT ![s].pc = "resolve"]
  /\ UNCHANGED <<file, dynamic, changes, job, entry, trusted>>

Read(s, handler) == Answer(s, handler, file.rows[handler])

ResolveByExtension(s) ==
  /\ At(s, "resolve")
  /\ IF handler_for("own") # NoHandler
       THEN Read(s, handler_for("own"))
       ELSE slice' = [slice EXCEPT ![s].pc = "sniff"]
  /\ UNCHANGED <<file, dynamic, changes, job, entry, trusted>>

ResolveByBytes(s) ==
  /\ At(s, "sniff")
  /\ IF handler_for("magic") # NoHandler
       THEN Read(s, handler_for("magic"))
       ELSE slice' = [slice EXCEPT ![s].pc = "error"]
  /\ UNCHANGED <<file, dynamic, changes, job, entry, trusted>>

\* Nothing is registered, mapped or asked yet.
RegistryStart ==
  /\ dynamic = [x \in Extensions |-> NoHandler]
  /\ changes = 0
  /\ job = [pc |-> "idle", handler |-> NoHandler, overridden |-> FALSE, since |-> 0]
  /\ entry = NoEntry
  /\ slice = [s \in Slices |-> [pc |-> "idle", offset |-> 0, limit |-> 0, by |-> NoHandler,
                                count |-> 0, seen |-> [x \in Extensions |-> {}]]]
  /\ trusted = TRUE

RegistryInit == file \in SourceFile /\ RegistryStart

Registration ==
  \E x \in Extensions :
    (\E h \in Plugins : register_format(x, h)) \/ unregister_format(x)
Inspection == Discover \/ JobResolves \/ JobSniffs \/ JobAsks \/ JobPublishes
Slicing(s) ==
  \/ \E offset, limit \in 0 .. MaxRows : Request(s, offset, limit)
  \/ AskDynamic(s) \/ ReadMapped(s) \/ ReadUnmapped(s)
  \/ ResolveByExtension(s) \/ ResolveByBytes(s)

RegistryNext == Registration \/ Inspection \/ \E s \in Slices : Slicing(s)

RegistrySpec == RegistryInit /\ [][RegistryNext]_registryVars
-----------------------------------------------------------------------------
(* Properties. *)

\* An inspection during which the registry does not change leaves an entry
\* that is of one piece: if it has locators, its total was counted by the
\* reader they are for, and no registered handler was overriding it
\* (inspect.rs:556-568, 676-714).
QuietInspectionRight ==
  entry.mapped /\ entry.quiet /\ entry.located =>
    entry.by = Native /\ entry.total = file.rows[Native]

\* Whatever is registered or taken back in the meantime, a slice answers with
\* the range of the rows that one handler finds, and that handler was asked for
\* by the file's extension during the call, or by its first bytes while the
\* extension had none.  It fails only if neither had a handler.  (Entries of
\* inspections during which the registry changed are left out, see
\* OverrideHasNoLocators.)  slice.rs:21-46, 173-183; mod.rs:243-247, 338-347.
SliceServed ==
  trusted =>
    \A s \in Slices :
      LET call == slice[s]
          rows == file.rows[call.by]
      IN  /\ call.pc = "done" =>
               /\ \/ call.by \in call.seen["own"]
                  \/ NoHandler \in call.seen["own"] /\ call.by \in call.seen["magic"]
               /\ call.count = Cardinality({k \in call.offset + 1 .. call.offset + call.limit : k <= rows})
          /\ call.pc = "error" => \A x \in Extensions : NoHandler \in call.seen[x]

\* docs/en/reference/lake-map-spec.md:28: "When a dynamic handler overrides a
\* registered extension, `row_groups_json` is `[]`": rows that a registered
\* handler counted do not go with locators of the built-in reader
\* (inspect.rs:556-568).
OverrideHasNoLocators == entry.by \in Plugins => ~entry.located
=============================================================================
