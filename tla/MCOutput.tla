------------------------------ MODULE MCOutput ------------------------------
(***************************************************************************)
(* The two calls that make files from other files: an ingest of a          *)
(* directory (Ingest) and splits of a file (Splitter).  A behaviour is     *)
(* about one of them; the variables of the other rest in an initial state. *)
(***************************************************************************)
EXTENDS MCIngest, Splitter

VARIABLE output  \* "ingest" or "split"

outputVars == <<output, vars, splitVars>>

NoIngest == Init /\ source = <<>> /\ in_place = CHOOSE p \in Places : TRUE
NoSplit  == SplitInit /\ format = CHOOSE f \in Formats : TRUE

OutputInit ==
  \/ output = "ingest" /\ Init /\ NoSplit
  \/ output = "split" /\ SplitInit /\ NoIngest

OfIngest == output = "ingest" /\ UNCHANGED <<output, splitVars>>
OfSplit  == output = "split" /\ UNCHANGED <<output, vars>>

\* The caller of an ingest has the result, or an error.
IngestEnded == pc \in {"refused", "returned"} /\ UNCHANGED vars

OutputNext ==
  \/ OfIngest /\ (Next \/ IngestEnded)
  \/ OfSplit /\ SplitNext

\* The fairness of SplitFairSpec.
OutputSpec ==
  /\ OutputInit /\ [][OutputNext]_outputVars
  /\ WF_outputVars(OfSplit /\ Work)
=============================================================================
