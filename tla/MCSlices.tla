------------------------------ MODULE MCSlices ------------------------------
(***************************************************************************)
(* How a slice finds its rows and columns: GlobalRows from the number of a *)
(* row in the lake to a file; SliceRows from the locators of a file to the *)
(* rows, for every kind of file; ObjectRows and AvroFile from the bytes of *)
(* a MessagePack, Excel or Avro file to the locators and the rows that     *)
(* SliceRows takes for given; Projection for the columns.  A behaviour is  *)
(* about one of the five; the variables of the others rest in an initial   *)
(* state.                                                                  *)
(***************************************************************************)
EXTENDS SliceRows, ObjectRows, AvroFile, GlobalRows, MCProjection

VARIABLE topic

slicesVars == <<topic, vars, objectVars, avroVars, globalVars, projectionVars>>

NoSlice   == Init /\ file = [total |-> 0, kind |-> "lines", stride |-> 1]
NoObjects == /\ ObjectStart
             /\ objects = [kind |-> "sheet", values |-> <<>>, stride |-> 1, batch |-> 1]
NoAvro    == /\ AvroStart /\ bytes = <<>>
             /\ avro = [metadata |-> <<>>, data |-> <<>>,
                        damage |-> [kind |-> "none", at |-> 0, value |-> 0]]
NoColumns == /\ ProjectionStart
             /\ slice = [reader |-> "decoded", table |-> <<>>, names |-> <<"a">>,
                         mapped |-> FALSE, rows |-> FALSE]

SlicesInit ==
  /\ topic \in {"slice", "objects", "avro", "lake", "columns"}
  /\ IF topic = "slice"   THEN Init           ELSE NoSlice
  /\ IF topic = "objects" THEN ObjectInit     ELSE NoObjects
  /\ IF topic = "avro"    THEN AvroInit       ELSE NoAvro
  /\ IF topic = "columns" THEN ProjectionInit ELSE NoColumns
  /\ GlobalInit

\* Where the reading of a file, the inspection of an Avro file and a call for
\* columns end; slices can always be asked for again.
Ended ==
  \/ topic = "objects" /\ stage \in {"refused", "end", "stopped"}
  \/ topic = "avro" /\ part \in {"done", "failed"}
  \/ topic = "columns" /\ step \in {"done", "error"}

SlicesNext ==
  /\ UNCHANGED topic
  /\ \/ /\ topic = "slice" /\ Next
        /\ UNCHANGED <<objectVars, avroVars, globalVars, projectionVars>>
     \/ /\ topic = "objects" /\ ObjectNext
        /\ UNCHANGED <<vars, avroVars, globalVars, projectionVars>>
     \/ /\ topic = "avro" /\ AvroNext
        /\ UNCHANGED <<vars, objectVars, globalVars, projectionVars>>
     \/ /\ topic = "lake" /\ GlobalNext
        /\ UNCHANGED <<vars, objectVars, avroVars, projectionVars>>
     \/ /\ topic = "columns" /\ ProjectionNext
        /\ UNCHANGED <<vars, objectVars, avroVars, globalVars>>
     \/ Ended /\ UNCHANGED slicesVars

SlicesSpec == SlicesInit /\ [][SlicesNext]_slicesVars

\* The types of all five (slice.rs, map/ranges.rs, map/model.rs, formats/plugins),
\* each where it is what the behaviour is about.
SlicesTypeOK ==
  /\ topic = "slice"   => TypeOK
  /\ topic = "objects" => ObjectTypeOK
  /\ topic = "avro"    => AvroTypeOK
  /\ topic = "columns" => ProjectionTypeOK
  /\ GlobalTypeOK
-----------------------------------------------------------------------------
(* The Avro files that are written. *)

MCEntries == {<<<<0, 1>>>>, <<<<2, 0>>, <<0, 1>>>>}

\* Up to two metadata blocks in either form.
MCMetadata == SeqsUpTo([sized: BOOLEAN, entries: MCEntries], 2)

\* Up to two data blocks; 8 rows are the fewest whose number has three digits.
MCData == SeqsUpTo([rows: {1, 8}, size: {0, 2}], 2)
-----------------------------------------------------------------------------
(* The files of a lake. *)

G(first, count) == [first_row |-> first, row_count |-> count]

\* A file without rows, one whose second row group is empty, and one whose
\* format has no row groups.
MCLayouts ==
  { [rows |-> 0, groups |-> <<>>],
    [rows |-> 2, groups |-> <<G(0, 1), G(1, 0), G(1, 1)>>],
    [rows |-> 3, groups |-> <<>>] }
=============================================================================
