---------------------------- MODULE StaticFilter ----------------------------
(***************************************************************************)
(* filter_batch_native (src/src/engine/filter.rs): the three fixed checks  *)
(* of the static audit, computed on whole columns with Arrow kernels.  A   *)
(* kernel's mask holds TRUE, FALSE or Null for a row: lt and gt give Null  *)
(* for a null cell, and "or" (external, arrow::compute::or) gives Null     *)
(* when either side is Null.  A column the batch does not have is Missing, *)
(* and so is a passenger count, fare or distance of another type; a time   *)
(* of another type is a column of Nulls, as no cell of it gives a second.  *)
(***************************************************************************)
EXTENDS Integers, Sequences, FiniteSets

CONSTANTS
  Null, NaN, Missing,
  Passengers, Fares, Distances, Times,  \* values of the cells
  MinPassenger, MaxPassenger, MinFare,  \* thresholds of the engine
  MaxSpeed,
  NumRows                               \* bound: rows of a batch

\* What a module that instantiates this one assumes of the constants.
CellsTyped ==
  /\ {MinPassenger, MaxPassenger, MinFare, MaxSpeed} \subseteq Int /\ NumRows \in Nat
  /\ Passengers \cup Fares \cup Distances \subseteq Int \cup {Null, NaN}
  /\ Times \subseteq Int \cup {Null}
  /\ {Null, NaN, Missing} \cap (Int \cup BOOLEAN) = {}
  /\ Null # NaN /\ Missing \notin {Null, NaN}

Rows == 1 .. NumRows

VARIABLES
  batch,    \* column -> row -> cell, or Missing
  masks,    \* the three masks, per row
  outcome,  \* the two batches returned
  pc

vars == <<batch, masks, outcome, pc>>

Names == {"passenger", "fare", "distance", "pickup", "dropoff"}
Mask  == [Rows -> {TRUE, FALSE, Null}]
NoMask == [r \in Rows |-> FALSE]
NoMasks == [passenger |-> NoMask, fare |-> NoMask, speed |-> NoMask]

TypeOK ==
  /\ DOMAIN batch = Names
  /\ masks \in [{"passenger", "fare", "speed"} -> Mask]
  /\ outcome.clean \in Seq(Rows)
  /\ outcome.trash \in Seq([row: Rows, code: 1 .. 7])
  /\ pc \in {"masks", "split", "done"}
-----------------------------------------------------------------------------
(* Arrow kernels, external.  NaN is greater than every number. *)

Less(a, b) ==
  IF a = Null THEN Null ELSE IF a = NaN THEN FALSE ELSE a < b
Greater(a, b) ==
  IF a = Null THEN Null ELSE IF a = NaN THEN TRUE ELSE a > b
Or(p, q) == IF p = Null \/ q = Null THEN Null ELSE p \/ q
-----------------------------------------------------------------------------
\* Mutated: a mask that is Null stays Null.
NullsStay(mask) == mask

NullsAreInvalid(mask) == IF mask = Null THEN TRUE ELSE mask

PassengerInvalid(r) ==
  IF batch.passenger = Missing THEN FALSE
  ELSE LET p == batch.passenger[r] IN
     NullsAreInvalid(Or(p = Null, Or(Less(p, MinPassenger), Greater(p, MaxPassenger))))

FareInvalid(r) ==
  IF batch.fare = Missing THEN FALSE
  ELSE NullsAreInvalid(Or(batch.fare[r] = Null, Less(batch.fare[r], MinFare)))

\* Mutated: a trip that took no time is not looked at.
SpeedInvalidForwardOnly(r) ==
  /\ batch.distance # Missing
  /\ batch.distance[r] \notin {Null, NaN} /\ batch.distance[r] > 0
  /\ IF batch.pickup # Missing /\ batch.dropoff # Missing
       THEN /\ batch.pickup[r] # Null /\ batch.dropoff[r] # Null
            /\ batch.dropoff[r] - batch.pickup[r] > 0
            /\ batch.distance[r] > MaxSpeed * (batch.dropoff[r] - batch.pickup[r])
       ELSE FareInvalid(r) = TRUE

\* Distance over time when both timestamps are there, else the fare's mask.
SpeedInvalid(r) ==
  /\ batch.distance # Missing
  /\ batch.distance[r] \notin {Null, NaN} /\ batch.distance[r] > 0
  /\ IF batch.pickup # Missing /\ batch.dropoff # Missing
       THEN /\ batch.pickup[r] # Null /\ batch.dropoff[r] # Null
            /\ LET hours == batch.dropoff[r] - batch.pickup[r] IN
               hours <= 0 \/ batch.distance[r] > MaxSpeed * hours
       ELSE FareInvalid(r) = TRUE

ComputeMasks ==
  /\ pc = "masks"
  /\ masks' = [passenger |-> [r \in Rows |-> PassengerInvalid(r)],
               fare      |-> [r \in Rows |-> FareInvalid(r)],
               speed     |-> [r \in Rows |-> SpeedInvalid(r)]]
  /\ pc' = "split"
  /\ UNCHANGED <<batch, outcome>>

\* cast to UInt64, shifted and added: Null if a mask is Null.
Weight(mask, r, w) == IF masks[mask][r] THEN w ELSE 0

\* Mutated: the speed mask is shifted one bit too far.
CodeShifted(r) ==
  IF \E m \in DOMAIN masks : masks[m][r] = Null THEN Null
  ELSE Weight("passenger", r, 1) + Weight("fare", r, 2) + Weight("speed", r, 8)

Code(r) ==
  IF \E m \in DOMAIN masks : masks[m][r] = Null THEN Null
  ELSE Weight("passenger", r, 1) + Weight("fare", r, 2) + Weight("speed", r, 4)

Ascending(q) == \A i, j \in DOMAIN q : i < j => q[i] < q[j]

\* filter_record_batch keeps the rows whose mask is TRUE, in order.
SortedRows(S) == CHOOSE q \in [1 .. Cardinality(S) -> S] : Ascending(q)

SplitBatch ==
  /\ pc = "split"
  /\ LET trash == SortedRows({r \in Rows : Code(r) # Null /\ Code(r) # 0}) IN
     outcome' = [clean |-> SortedRows({r \in Rows : Code(r) # Null /\ Code(r) = 0}),
                 trash |-> [k \in DOMAIN trash |->
                              [row |-> trash[k], code |-> Code(trash[k])]]]
  /\ pc' = "done"
  /\ UNCHANGED <<batch, masks>>

Column(values) == {Missing} \cup [Rows -> values]

Init ==
  /\ batch \in [passenger: Column(Passengers), fare: Column(Fares),
                distance: Column(Distances), pickup: Column(Times),
                dropoff: Column(Times)]
  /\ masks = NoMasks
  /\ outcome = [clean |-> <<>>, trash |-> <<>>]
  /\ pc = "masks"

Next == ComputeMasks \/ SplitBatch

Spec == Init /\ [][Next]_vars
-----------------------------------------------------------------------------
(* Properties. *)

\* Nulls and missing columns included, each row is in exactly one of the two
\* batches and none disappears behind a mask that is neither true nor false.
NoRowLost ==
  pc = "done" =>
    \A r \in Rows :
      LET inClean == \E k \in DOMAIN outcome.clean : outcome.clean[k] = r
          inTrash == \E k \in DOMAIN outcome.trash : outcome.trash[k].row = r
      IN inClean # inTrash

Cell(name, r) == IF batch[name] = Missing THEN Missing ELSE batch[name][r]
HasNumber(name, r) == Cell(name, r) \notin {Missing, Null, NaN}

\* A clean row passed every check that its columns allow: its passenger count
\* is a number in range, its fare is not below the minimum, and between two
\* timestamps it went forward in time, no faster than max_speed_mph.
CleanIsClean ==
  pc = "done" =>
    \A k \in DOMAIN outcome.clean :
      LET r == outcome.clean[k] IN
      /\ Cell("passenger", r) \in (MinPassenger .. MaxPassenger) \cup {Missing}
      /\ Cell("fare", r) # Null
      /\ HasNumber("fare", r) => Cell("fare", r) >= MinFare
      /\ (\A n \in {"distance", "pickup", "dropoff"} : HasNumber(n, r))
           /\ Cell("distance", r) > 0 =>
           /\ Cell("pickup", r) < Cell("dropoff", r)
           /\ Cell("distance", r) <=
                MaxSpeed * (Cell("dropoff", r) - Cell("pickup", r))
=============================================================================
