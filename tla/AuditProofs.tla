---------------------------- MODULE AuditProofs ----------------------------
(***************************************************************************)
(* Proofs about the entry points that divide rows into clean and trash,    *)
(* for every value of the constants that MCAudit's assumptions admit:      *)
(* StaticSplit, FilesSummary, Pruning, RulesAudit and LakeReport.          *)
(***************************************************************************)
EXTENDS MCAudit, DataLemmas, FiniteSetTheorems, TLAPS

-----------------------------------------------------------------------------
(* The static filter (filter.rs). *)

\* The batch has the columns it was called with.
StaticBatch ==
  batch \in [passenger: Static!Column(Passengers), fare: Static!Column(Fares),
             distance: Static!Column(Distances), pickup: Static!Column(Times),
             dropoff: Static!Column(Times)]

\* What the constants are.
LEMMA CellKinds ==
  /\ MinPassenger \in Int /\ MaxPassenger \in Int /\ MinFare \in Int /\ MaxSpeed \in Int
  /\ NumRows \in Nat
  /\ \A c \in Passengers \cup Fares \cup Distances : c \in Int \/ c = Null \/ c = NaN
  /\ \A c \in Times : c \in Int \/ c = Null
  /\ Null \notin Int /\ Null # TRUE /\ Null # FALSE /\ NaN \notin Int
  /\ Missing \notin Int /\ Null # NaN /\ Missing # Null /\ Missing # NaN
BY StaticAssumption DEF Static!CellsTyped

\* A column is missing or has a cell for each row.
LEMMA CellsOf ==
  ASSUME StaticBatch, NEW r \in Static!Rows
  PROVE  /\ batch.passenger = Missing \/ batch.passenger[r] \in Passengers
         /\ batch.fare = Missing \/ batch.fare[r] \in Fares
         /\ batch.distance = Missing \/ batch.distance[r] \in Distances
         /\ batch.pickup = Missing \/ batch.pickup[r] \in Times
         /\ batch.dropoff = Missing \/ batch.dropoff[r] \in Times
BY DEF StaticBatch, Static!Column

\* The masks of a row are true or false.
LEMMA MasksDecide ==
  ASSUME StaticBatch, NEW r \in Static!Rows
  PROVE  /\ Static!PassengerInvalid(r) \in BOOLEAN
         /\ Static!FareInvalid(r) \in BOOLEAN
         /\ Static!SpeedInvalid(r) \in BOOLEAN
<1>1. Static!PassengerInvalid(r) \in BOOLEAN
  BY CellKinds, CellsOf
     DEF Static!PassengerInvalid, Static!NullsAreInvalid, Static!Or, Static!Less, Static!Greater
<1>2. Static!FareInvalid(r) \in BOOLEAN
  BY CellKinds, CellsOf
     DEF Static!FareInvalid, Static!NullsAreInvalid, Static!Or, Static!Less
<1>3. Static!SpeedInvalid(r) \in BOOLEAN
  BY DEF Static!SpeedInvalid
<1>4. QED
  BY <1>1, <1>2, <1>3

\* A passenger count that is not invalid is a number in range.
LEMMA PassengerValid ==
  ASSUME StaticBatch, NEW r \in Static!Rows, Static!PassengerInvalid(r) = FALSE
  PROVE  Static!Cell("passenger", r) \in (MinPassenger .. MaxPassenger) \cup {Missing}
<1>1. CASE batch.passenger = Missing
  BY <1>1 DEF Static!Cell
<1>2. CASE batch.passenger # Missing
  <2>1. PICK p \in Passengers : p = batch.passenger[r]
    BY <1>2, CellsOf
  <2>2. /\ p \in Int \/ p = Null \/ p = NaN
        /\ Static!Or(p = Null, Static!Or(Static!Less(p, MinPassenger),
                                         Static!Greater(p, MaxPassenger))) = FALSE
    BY <1>2, <2>1, CellKinds DEF Static!PassengerInvalid, Static!NullsAreInvalid
  <2>3. p \in Int /\ ~(p < MinPassenger) /\ ~(p > MaxPassenger)
    BY <2>2, CellKinds DEF Static!Or, Static!Less, Static!Greater
  <2>4. p \in MinPassenger .. MaxPassenger
    BY <2>3, CellKinds
  <2>5. QED
    BY <1>2, <2>1, <2>4 DEF Static!Cell
<1>3. QED
  BY <1>1, <1>2

\* A fare that is not invalid is there, and not below the minimum.
LEMMA FareValid ==
  ASSUME StaticBatch, NEW r \in Static!Rows, Static!FareInvalid(r) = FALSE
  PROVE  /\ Static!Cell("fare", r) # Null
         /\ Static!HasNumber("fare", r) => Static!Cell("fare", r) >= MinFare
<1>1. CASE batch.fare = Missing
  BY <1>1, CellKinds DEF Static!Cell, Static!HasNumber
<1>2. CASE batch.fare # Missing
  <2>1. PICK p \in Fares : p = batch.fare[r]
    BY <1>2, CellsOf
  <2>2. /\ p \in Int \/ p = Null \/ p = NaN
        /\ Static!Or(p = Null, Static!Less(p, MinFare)) = FALSE
    BY <1>2, <2>1, CellKinds DEF Static!FareInvalid, Static!NullsAreInvalid
  <2>3. p # Null /\ (p # NaN => p \in Int /\ ~(p < MinFare))
    BY <2>2, CellKinds DEF Static!Or, Static!Less
  <2>4. p # NaN => p >= MinFare
    BY <2>3, CellKinds
  <2>5. QED
    BY <1>2, <2>1, <2>3, <2>4 DEF Static!Cell, Static!HasNumber
<1>3. QED
  BY <1>1, <1>2

\* Between two timestamps, a speed that is not invalid is forward and in range.
LEMMA SpeedValid ==
  ASSUME StaticBatch, NEW r \in Static!Rows, Static!SpeedInvalid(r) = FALSE,
         \A n \in {"distance", "pickup", "dropoff"} : Static!HasNumber(n, r),
         Static!Cell("distance", r) > 0
  PROVE  /\ Static!Cell("pickup", r) < Static!Cell("dropoff", r)
         /\ Static!Cell("distance", r) <=
              MaxSpeed * (Static!Cell("dropoff", r) - Static!Cell("pickup", r))
<1>1. /\ batch.distance # Missing /\ batch.pickup # Missing /\ batch.dropoff # Missing
      /\ Static!Cell("distance", r) = batch.distance[r]
      /\ Static!Cell("pickup", r) = batch.pickup[r]
      /\ Static!Cell("dropoff", r) = batch.dropoff[r]
      /\ batch.distance[r] \notin {Null, NaN} /\ batch.pickup[r] # Null
      /\ batch.dropoff[r] # Null
  BY DEF Static!Cell, Static!HasNumber
<1>2. PICK d \in Int, p \in Int, q \in Int :
        d = batch.distance[r] /\ p = batch.pickup[r] /\ q = batch.dropoff[r]
  <2>1. batch.distance[r] \in Int /\ batch.pickup[r] \in Int /\ batch.dropoff[r] \in Int
    BY <1>1, CellKinds, CellsOf
  <2>2. QED
    BY <2>1
<1>3. ~(q - p <= 0 \/ d > MaxSpeed * (q - p))
  BY <1>1, <1>2 DEF Static!SpeedInvalid
<1>4. PICK m \in Int : m = MaxSpeed * (q - p)
  BY CellKinds
<1>5. p < q /\ d <= m
  BY <1>3, <1>4
<1>6. QED
  BY <1>1, <1>2, <1>4, <1>5

\* The masks are those of the batch.
StaticMasks ==
  masks = [passenger |-> [r \in Static!Rows |-> Static!PassengerInvalid(r)],
           fare      |-> [r \in Static!Rows |-> Static!FareInvalid(r)],
           speed     |-> [r \in Static!Rows |-> Static!SpeedInvalid(r)]]

\* The code is 0 when no mask is true, and never null.
LEMMA CodeZero ==
  ASSUME StaticBatch, StaticMasks, NEW r \in Static!Rows
  PROVE  /\ Static!Code(r) # Null
         /\ Static!Code(r) = 0 <=> /\ Static!PassengerInvalid(r) = FALSE
                                   /\ Static!FareInvalid(r) = FALSE
                                   /\ Static!SpeedInvalid(r) = FALSE
<1>1. PICK a \in BOOLEAN, b \in BOOLEAN, c \in BOOLEAN :
        /\ a = Static!PassengerInvalid(r) /\ b = Static!FareInvalid(r)
        /\ c = Static!SpeedInvalid(r)
  BY MasksDecide
<1>2. /\ DOMAIN masks = {"passenger", "fare", "speed"}
      /\ masks["passenger"][r] = a /\ masks["fare"][r] = b /\ masks["speed"][r] = c
  BY <1>1 DEF StaticMasks
<1>3. ~\E m \in DOMAIN masks : masks[m][r] = Null
  BY <1>2, CellKinds
<1>4. Static!Code(r) = (IF a THEN 1 ELSE 0) + (IF b THEN 2 ELSE 0) + (IF c THEN 4 ELSE 0)
  BY <1>2, <1>3 DEF Static!Code, Static!Weight
<1>5. Static!Code(r) \in Nat /\ (Static!Code(r) = 0 <=> ~a /\ ~b /\ ~c)
  BY <1>4
<1>6. QED
  BY <1>1, <1>5, CellKinds

\* SortedRows puts the rows of a set in order.
LEMMA StaticSorted ==
  ASSUME NEW S, IsFiniteSet(S), \A n \in S : n \in Nat
  PROVE  InOrder(Static!SortedRows(S), S)
<1>1. Static!Cardinality(S) = Cardinality(S)
  BY DEF Static!Cardinality, Cardinality
<1>2. \E p \in [1 .. Static!Cardinality(S) -> S] : Static!Ascending(p)
  BY <1>1, InOrderExists DEF InOrder, Static!Ascending
<1>3. /\ Static!SortedRows(S) \in [1 .. Static!Cardinality(S) -> S]
      /\ Static!Ascending(Static!SortedRows(S))
  BY <1>2 DEF Static!SortedRows
<1>4. QED
  BY <1>1, <1>3 DEF InOrder, Static!Ascending

\* The rows a predicate selects, in order.
LEMMA RowsSelected ==
  ASSUME NEW kept, kept \subseteq Static!Rows,
         NEW q, q = Static!SortedRows(kept)
  PROVE  /\ \A i \in DOMAIN q : q[i] \in kept
         /\ \A x \in kept : \E i \in DOMAIN q : q[i] = x
<1>1. IsFiniteSet(kept) /\ \A n \in kept : n \in Nat
  <2>1. NumRows \in Nat /\ Static!Rows = 1 .. NumRows
    BY CellKinds DEF Static!Rows
  <2>2. IsFiniteSet(Static!Rows)
    BY <2>1, FS_Interval
  <2>3. IsFiniteSet(kept)
    BY <2>2, FS_Subset
  <2>4. QED
    BY <2>1, <2>3
<1>2. InOrder(q, kept)
  BY <1>1, StaticSorted
<1>3. QED
  BY <1>1, <1>2, InOrderOnto

\* The rows a predicate selects are a sequence.
LEMMA RowsSequence ==
  ASSUME NEW kept, kept \subseteq Static!Rows,
         NEW q, q = Static!SortedRows(kept)
  PROVE  q \in Seq(kept)
<1>1. IsFiniteSet(kept) /\ \A n \in kept : n \in Nat
  <2>1. NumRows \in Nat /\ Static!Rows = 1 .. NumRows
    BY CellKinds DEF Static!Rows
  <2>2. IsFiniteSet(Static!Rows)
    BY <2>1, FS_Interval
  <2>3. IsFiniteSet(kept)
    BY <2>2, FS_Subset
  <2>4. QED
    BY <2>1, <2>3
<1>2. InOrder(q, kept)
  BY <1>1, StaticSorted
<1>3. PICK n \in Nat : n = Cardinality(kept)
  BY <1>1, FS_CardinalityType
<1>4. q \in [1 .. n -> kept]
  BY <1>2, <1>3 DEF InOrder
<1>5. QED
  BY <1>4

\* The masks that ComputeMasks leaves have the type of masks.
LEMMA MasksTyped ==
  ASSUME StaticBatch, Static!TypeOK, Static!ComputeMasks
  PROVE  Static!TypeOK'
<1>1. \A r \in Static!Rows : /\ Static!PassengerInvalid(r) \in {TRUE, FALSE, Null}
                             /\ Static!FareInvalid(r) \in {TRUE, FALSE, Null}
                             /\ Static!SpeedInvalid(r) \in {TRUE, FALSE, Null}
  BY MasksDecide
<1>2. /\ [r \in Static!Rows |-> Static!PassengerInvalid(r)] \in Static!Mask
      /\ [r \in Static!Rows |-> Static!FareInvalid(r)] \in Static!Mask
      /\ [r \in Static!Rows |-> Static!SpeedInvalid(r)] \in Static!Mask
  BY <1>1 DEF Static!Mask
<1>3. masks' \in [{"passenger", "fare", "speed"} -> Static!Mask]
  BY <1>2 DEF Static!ComputeMasks
<1>4. QED
  BY <1>3 DEF Static!ComputeMasks, Static!TypeOK, Static!Mask, Static!Rows

\* A row that SplitBatch gives a code has one to seven as its code.
LEMMA CodeTyped ==
  ASSUME StaticBatch, StaticMasks, NEW r \in Static!Rows, Static!Code(r) # 0
  PROVE  Static!Code(r) \in 1 .. 7
<1>1. PICK a \in BOOLEAN, b \in BOOLEAN, c \in BOOLEAN :
        /\ a = Static!PassengerInvalid(r) /\ b = Static!FareInvalid(r)
        /\ c = Static!SpeedInvalid(r)
  BY MasksDecide
<1>2. /\ DOMAIN masks = {"passenger", "fare", "speed"}
      /\ masks["passenger"][r] = a /\ masks["fare"][r] = b /\ masks["speed"][r] = c
  BY <1>1 DEF StaticMasks
<1>3. ~\E m \in DOMAIN masks : masks[m][r] = Null
  BY <1>2, CellKinds
<1>4. Static!Code(r) = (IF a THEN 1 ELSE 0) + (IF b THEN 2 ELSE 0) + (IF c THEN 4 ELSE 0)
  BY <1>2, <1>3 DEF Static!Code, Static!Weight
<1>5. QED
  BY <1>4

\* The two batches that SplitBatch returns are sequences of rows.
LEMMA SplitTyped ==
  ASSUME StaticBatch, StaticMasks, Static!TypeOK, Static!SplitBatch
  PROVE  Static!TypeOK'
<1> DEFINE low  == {r \in Static!Rows : Static!Code(r) # Null /\ Static!Code(r) = 0}
           high == {r \in Static!Rows : Static!Code(r) # Null /\ Static!Code(r) # 0}
<1>1. PICK p : p = Static!SortedRows(low)
  OBVIOUS
<1>2. PICK t : t = Static!SortedRows(high)
  OBVIOUS
<1>3. PICK trash : trash = [k \in DOMAIN t |-> [row |-> t[k], code |-> Static!Code(t[k])]]
  OBVIOUS
<1>4. outcome' = [clean |-> p, trash |-> trash]
  BY <1>1, <1>2, <1>3 DEF Static!SplitBatch
<1>5. low \subseteq Static!Rows /\ high \subseteq Static!Rows
  OBVIOUS
<1>6. /\ p \in Seq(Static!Rows)
      /\ t \in Seq(Static!Rows) /\ \A i \in DOMAIN t : t[i] \in high
  <2> HIDE DEF low, high
  <2>1. p \in Seq(low) /\ t \in Seq(high)
    BY <1>1, <1>2, <1>5, RowsSequence
  <2>2. QED
    BY <1>5, <2>1
<1>7. \A i \in DOMAIN t : t[i] \in Static!Rows /\ Static!Code(t[i]) \in 1 .. 7
  BY <1>6, CodeTyped
<1>8. trash \in Seq([row: Static!Rows, code: 1 .. 7])
  <2>1. PICK n \in Nat : DOMAIN t = 1 .. n
    BY <1>6
  <2>2. PICK S : S = [row: Static!Rows, code: 1 .. 7]
    OBVIOUS
  <2>3. trash \in [1 .. n -> S]
    BY <1>3, <1>7, <2>1, <2>2
  <2>4. trash \in Seq(S)
    BY <2>3
  <2>5. QED
    BY <2>2, <2>4
<1>9. outcome'.clean = p /\ outcome'.trash = trash
  BY <1>4
<1>10. batch' = batch /\ masks' = masks /\ pc' = "done"
  BY DEF Static!SplitBatch
<1>11. QED
  BY <1>6, <1>8, <1>9, <1>10 DEF Static!TypeOK, Static!Mask, Static!Rows

\* What is true of a call of the static filter.
StaticInv ==
  call = "static" =>
    /\ StaticBatch /\ Static!TypeOK
    /\ pc = "split" => StaticMasks
    /\ Static!NoRowLost
    /\ Static!CleanIsClean

\* SplitBatch puts each row in one of the two batches, by its code.
LEMMA StaticBatchSplit ==
  ASSUME StaticBatch, StaticMasks, Static!SplitBatch
  PROVE  Static!NoRowLost' /\ Static!CleanIsClean'
<1> DEFINE low  == {r \in Static!Rows : Static!Code(r) # Null /\ Static!Code(r) = 0}
           high == {r \in Static!Rows : Static!Code(r) # Null /\ Static!Code(r) # 0}
<1>1. PICK p : p = Static!SortedRows(low)
  OBVIOUS
<1>2. PICK t : t = Static!SortedRows(high)
  OBVIOUS
<1>3. outcome' = [clean |-> p,
                  trash |-> [k \in DOMAIN t |-> [row |-> t[k], code |-> Static!Code(t[k])]]]
  BY <1>1, <1>2 DEF Static!SplitBatch
<1>4. /\ \A i \in DOMAIN p : p[i] \in low
      /\ \A x \in low : \E i \in DOMAIN p : p[i] = x
      /\ \A i \in DOMAIN t : t[i] \in high
      /\ \A x \in high : \E i \in DOMAIN t : t[i] = x
  <2>1. low \subseteq Static!Rows /\ high \subseteq Static!Rows
    OBVIOUS
  <2> HIDE DEF low, high
  <2>2. QED
    BY <1>1, <1>2, <2>1, RowsSelected
<1>5. \A r \in Static!Rows : (r \in low) # (r \in high)
  BY CodeZero
<1>6. /\ outcome'.clean = p /\ DOMAIN outcome'.trash = DOMAIN t
      /\ \A k \in DOMAIN t : outcome'.trash[k].row = t[k]
  BY <1>3
<1>7. Static!NoRowLost'
  <2>1. ASSUME NEW r \in Static!Rows
        PROVE  (\E k \in DOMAIN outcome'.clean : outcome'.clean[k] = r)
                 # (\E k \in DOMAIN outcome'.trash : outcome'.trash[k].row = r)
    <3>1. (\E k \in DOMAIN outcome'.clean : outcome'.clean[k] = r) <=> r \in low
      BY <1>4, <1>6
    <3>2. (\E k \in DOMAIN outcome'.trash : outcome'.trash[k].row = r) <=> r \in high
      BY <1>4, <1>6
    <3>3. QED
      BY <1>5, <3>1, <3>2
  <2>2. QED
    BY <2>1 DEF Static!NoRowLost, Static!Rows
<1>8. Static!CleanIsClean'
  <2>1. batch' = batch
    BY DEF Static!SplitBatch
  <2>2. ASSUME NEW k \in DOMAIN p
        PROVE  /\ Static!Cell("passenger", p[k])
                    \in (MinPassenger .. MaxPassenger) \cup {Missing}
               /\ Static!Cell("fare", p[k]) # Null
               /\ Static!HasNumber("fare", p[k]) => Static!Cell("fare", p[k]) >= MinFare
               /\ (\A n \in {"distance", "pickup", "dropoff"} : Static!HasNumber(n, p[k]))
                    /\ Static!Cell("distance", p[k]) > 0 =>
                    /\ Static!Cell("pickup", p[k]) < Static!Cell("dropoff", p[k])
                    /\ Static!Cell("distance", p[k]) <=
                         MaxSpeed * (Static!Cell("dropoff", p[k]) - Static!Cell("pickup", p[k]))
    <3>1. PICK r \in Static!Rows : r = p[k] /\ Static!Code(r) = 0
      BY <1>4
    <3>2. /\ Static!PassengerInvalid(r) = FALSE /\ Static!FareInvalid(r) = FALSE
          /\ Static!SpeedInvalid(r) = FALSE
      BY <3>1, CodeZero
    <3>3. QED
      BY <3>1, <3>2, PassengerValid, FareValid, SpeedValid
  <2>3. QED
    BY <1>6, <2>1, <2>2 DEF Static!CleanIsClean, Static!Cell, Static!HasNumber
<1>9. QED
  BY <1>7, <1>8

\* A call of the static filter keeps what it has established.
LEMMA StaticInvariant == AuditSpec => []StaticInv
<1>1. AuditInit => StaticInv
  <2> SUFFICES ASSUME AuditInit, call = "static" PROVE StaticInv
    BY DEF StaticInv
  <2>1. Static!Init
    BY DEF AuditInit
  <2>2. StaticBatch /\ DOMAIN batch = Static!Names
    BY <2>1 DEF Static!Init, StaticBatch, Static!Names
  <2>3. masks \in [{"passenger", "fare", "speed"} -> Static!Mask]
    <3>1. Static!NoMask \in Static!Mask
      BY DEF Static!NoMask, Static!Mask
    <3>2. QED
      BY <2>1, <3>1 DEF Static!Init, Static!NoMasks
  <2>4. QED
    BY <2>1, <2>2, <2>3
       DEF StaticInv, Static!Init, Static!TypeOK, Static!NoRowLost, Static!CleanIsClean
<1>2. StaticInv /\ [AuditNext]_allVars => StaticInv'
  <2> SUFFICES ASSUME StaticInv, [AuditNext]_allVars, call' = "static" PROVE StaticInv'
    BY DEF StaticInv
  <2>1. CASE call = "static" /\ call' = call /\ Static!ComputeMasks
    <3>1. StaticBatch /\ batch' = batch
      BY <2>1 DEF StaticInv, Static!ComputeMasks
    <3>2. StaticBatch'
      BY <3>1 DEF StaticBatch
    <3>3. StaticMasks'
      <4>1. masks' = [passenger |-> [r \in Static!Rows |-> Static!PassengerInvalid(r)],
                      fare      |-> [r \in Static!Rows |-> Static!FareInvalid(r)],
                      speed     |-> [r \in Static!Rows |-> Static!SpeedInvalid(r)]]
        BY <2>1 DEF Static!ComputeMasks
      <4>2. \A r : /\ Static!PassengerInvalid(r)' = Static!PassengerInvalid(r)
                   /\ Static!FareInvalid(r)' = Static!FareInvalid(r)
                   /\ Static!SpeedInvalid(r)' = Static!SpeedInvalid(r)
        BY <3>1 DEF Static!PassengerInvalid, Static!FareInvalid, Static!SpeedInvalid
      <4>3. QED
        BY <4>1, <4>2 DEF StaticMasks, Static!Rows
    <3>4. Static!TypeOK'
      BY <2>1, <3>1, MasksTyped DEF StaticInv
    <3>5. QED
      BY <2>1, <3>2, <3>3, <3>4
         DEF StaticInv, Static!ComputeMasks, Static!NoRowLost, Static!CleanIsClean
  <2>2. CASE call = "static" /\ call' = call /\ Static!SplitBatch
    <3>1. StaticBatch /\ StaticMasks /\ batch' = batch
      BY <2>2 DEF StaticInv, Static!SplitBatch
    <3>2. StaticBatch'
      BY <3>1 DEF StaticBatch
    <3>3. Static!NoRowLost' /\ Static!CleanIsClean'
      BY <2>2, <3>1, StaticBatchSplit
    <3>4. Static!TypeOK'
      BY <2>2, <3>1, SplitTyped DEF StaticInv
    <3>5. QED
      BY <2>2, <3>2, <3>3, <3>4 DEF StaticInv, Static!SplitBatch
  <2>3. CASE UNCHANGED allVars
    <3>1. /\ batch' = batch /\ masks' = masks /\ outcome' = outcome /\ pc' = pc
          /\ call = "static"
      BY <2>3 DEF allVars, filterVars, staticVars
    <3>2. /\ StaticBatch /\ Static!TypeOK /\ Static!NoRowLost /\ Static!CleanIsClean
          /\ pc = "split" => StaticMasks
      BY <3>1 DEF StaticInv
    <3>3. StaticBatch'
      BY <3>1, <3>2 DEF StaticBatch
    <3>4. Static!TypeOK'
      BY <3>1, <3>2 DEF Static!TypeOK
    <3>5. Static!NoRowLost'
      BY <3>1, <3>2 DEF Static!NoRowLost
    <3>6. Static!CleanIsClean'
      BY <3>1, <3>2 DEF Static!CleanIsClean, Static!Cell, Static!HasNumber
    <3>7. ASSUME pc = "split" PROVE StaticMasks'
      <4>1. \A r : /\ Static!PassengerInvalid(r)' = Static!PassengerInvalid(r)
                   /\ Static!FareInvalid(r)' = Static!FareInvalid(r)
                   /\ Static!SpeedInvalid(r)' = Static!SpeedInvalid(r)
        BY <3>1 DEF Static!PassengerInvalid, Static!FareInvalid, Static!SpeedInvalid
      <4>2. masks = [passenger |-> [r \in Static!Rows |-> Static!PassengerInvalid(r)],
                     fare      |-> [r \in Static!Rows |-> Static!FareInvalid(r)],
                     speed     |-> [r \in Static!Rows |-> Static!SpeedInvalid(r)]]
        BY <3>2, <3>7 DEF StaticMasks
      <4>3. QED
        BY <3>1, <4>1, <4>2 DEF StaticMasks, Static!Rows
    <3>8. QED
      BY <3>1, <3>3, <3>4, <3>5, <3>6, <3>7 DEF StaticInv
  <2>4. QED
    BY <2>1, <2>2, <2>3 DEF AuditNext, Static!Next
<1>3. QED
  BY <1>1, <1>2, PTL DEF AuditSpec

\* Nulls, NaN and missing columns lose no row and let no bad one pass (filter.rs).
THEOREM StaticSplit == AuditSpec => []StaticSplitRight
<1>1. StaticInv => StaticSplitRight
  BY DEF StaticInv, StaticSplitRight
<1>2. QED
  BY <1>1, StaticInvariant, PTL

-----------------------------------------------------------------------------
(* The parallel rule filter and the walk that chooses its files
   (partition.rs, parallel_filter.rs). *)

\* A sequence without elements.
LEMMA EmptySeq == \A S : \A s \in Seq(S) : Len(s) = 0 => s = <<>>
OBVIOUS

\* What the constants of the file filter are.
LEMMA LakeKinds ==
  /\ Contents \subseteq Seq([clean: Nat, trash: Nat])
  /\ Len(Root) \in Nat
  /\ \A t \in Trees : IsFiniteSet(DOMAIN t)
  /\ \A t \in Trees : \A p \in DOMAIN t :
       Len(p) \in Nat /\ Len(Front(p)) = Len(p) - 1
<1>1. /\ Contents \subseteq Seq([clean: Nat, trash: Nat])
      /\ Root \in Seq(FilesCall!Range(Root))
      /\ \A t \in Trees :
           /\ FilesCall!IsFiniteSet(DOMAIN t)
           /\ \A p \in DOMAIN t :
                /\ p \in Seq(FilesCall!Range(p)) /\ FilesCall!IsStrictPrefix(Root, p)
  BY FilesAssumption DEF FilesCall!LakesTyped
<1>2. \A t \in Trees : IsFiniteSet(DOMAIN t)
  BY <1>1 DEF FilesCall!IsFiniteSet, IsFiniteSet
<1>3. ASSUME NEW t \in Trees, NEW p \in DOMAIN t
      PROVE  Len(p) \in Nat /\ Len(Front(p)) = Len(p) - 1
  <2>1. PICK S : p \in Seq(S)
    BY <1>1
  <2>2. PICK n \in Nat : n = Len(p)
    BY <2>1
  <2>3. PICK m \in Nat : m = Len(Root)
    BY <1>1
  <2>4. m <= n /\ Root # p /\ SubSeq(Root, 1, m) = SubSeq(p, 1, m)
    BY <1>1, <2>2, <2>3 DEF FilesCall!IsStrictPrefix, FilesCall!IsPrefix
  <2>5. n # 0
    <3>1. SUFFICES ASSUME n = 0 PROVE FALSE
      OBVIOUS
    <3>2. p = <<>>
      BY <2>1, <2>2, <3>1, EmptySeq
    <3>3. Root = <<>>
      BY <1>1, <2>3, <2>4, <3>1, EmptySeq
    <3>4. QED
      BY <2>4, <3>2, <3>3
  <2>6. Len(SubSeq(p, 1, n - 1)) = n - 1
    BY <2>1, <2>2, <2>5
  <2>7. QED
    BY <2>2, <2>6 DEF Front
<1>4. QED
  BY <1>1, <1>2, <1>3

\* The directories of the lake, and the ones inside a directory.
LakeDirs == {Root} \cup {p \in DOMAIN lake : lake[p] = "dir"}
\* The directories process_dir recurses into from d (partition.rs).
Below(d) == FilesCall!Children(d, "dir")

\* A directory is shorter than those in it.
LEMMA BelowIsLonger ==
  ASSUME lake \in Trees, NEW d \in LakeDirs
  PROVE  /\ Len(d) \in Nat
         /\ \A c \in Below(d) : c \in LakeDirs /\ Len(c) = Len(d) + 1
<1>1. Len(d) \in Nat
  BY LakeKinds DEF LakeDirs
<1>2. ASSUME NEW c \in Below(d) PROVE c \in LakeDirs /\ Len(c) = Len(d) + 1
  <2>1. c \in DOMAIN lake /\ FilesCall!Front(c) = d /\ lake[c] = "dir"
    BY DEF Below, FilesCall!Children
  <2>2. Front(c) = d
    BY <2>1 DEF FilesCall!Front, Front
  <2>3. Len(c) \in Nat /\ Len(Front(c)) = Len(c) - 1
    BY <2>1, LakeKinds
  <2>4. QED
    BY <1>1, <2>1, <2>2, <2>3 DEF LakeDirs
<1>3. QED
  BY <1>1, <1>2

\* The directories are finitely many.
LEMMA LakeDirsFinite ==
  ASSUME lake \in Trees
  PROVE  IsFiniteSet(LakeDirs) /\ IsFiniteSet(DOMAIN lake)
<1>1. IsFiniteSet(DOMAIN lake)
  BY LakeKinds
<1>2. {p \in DOMAIN lake : lake[p] = "dir"} \in SUBSET DOMAIN lake
  OBVIOUS
<1>3. IsFiniteSet({p \in DOMAIN lake : lake[p] = "dir"})
  BY <1>1, <1>2, FS_Subset
<1>4. IsFiniteSet({p \in DOMAIN lake : lake[p] = "dir"} \cup {Root})
  BY <1>3, FS_AddElement
<1>5. {p \in DOMAIN lake : lake[p] = "dir"} \cup {Root} = LakeDirs
  BY DEF LakeDirs
<1>6. QED
  BY <1>1, <1>4, <1>5

\* What walk_and_prune returns for a directory, from what it returns below it.
WalkStep(d, walk) ==
  IF ~FilesCall!Matches(d, request.rules)
    THEN FilesCall!Pruned
    ELSE FilesCall!Found(d,
           {f \in FilesCall!Children(d, "file") :
              /\ FilesCall!Matches(f, request.rules)
              /\ FilesCall!PathContains(f, request.filter)},
           [c \in Below(d) |-> walk[c]])

\* walk is what process_dir gives for each directory of E.
Walks(walk, E) == walk = [d \in E |-> WalkStep(d, walk)]

\* The children of a closed set's directories are in it.
Closed(E) == \A d \in E : Below(d) \subseteq E

\* The walk of a closed set of directories ends.
LEMMA WalkExists ==
  ASSUME lake \in Trees
  PROVE  \E walk : Walks(walk, LakeDirs)
<1> DEFINE B == {E \in SUBSET LakeDirs : Closed(E) /\ ~\E walk : Walks(walk, E)}
<1>1. SUFFICES ASSUME B # {} PROVE FALSE
  <2>1. Closed(LakeDirs)
    BY BelowIsLonger DEF Closed
  <2>2. QED
    BY <2>1
<1>2. PICK E \in B : \A t \in B : ~(t \subseteq E /\ t # E)
  <2>1. B \subseteq SUBSET LakeDirs
    OBVIOUS
  <2>2. IsFiniteSet(LakeDirs)
    BY LakeDirsFinite
  <2> HIDE DEF B
  <2>3. QED
    BY <1>1, <2>1, <2>2, LeastSubset
<1>3. E \in SUBSET LakeDirs /\ Closed(E) /\ ~\E walk : Walks(walk, E)
  OBVIOUS
<1>4. E # {}
  <2>1. SUFFICES ASSUME E = {} PROVE FALSE
    OBVIOUS
  <2>2. Walks([d \in {} |-> 0], E)
    BY <2>1 DEF Walks
  <2>3. QED
    BY <1>3, <2>2
<1>5. PICK d \in E : \A e \in E : Len(d) <= Len(e)
  <2> DEFINE T == {Len(e) : e \in E}
  <2>1. \A e \in E : Len(e) \in Nat
    BY <1>3, BelowIsLonger
  <2>2. PICK n \in T : \A m \in T : n <= m
    <3>1. T \subseteq Nat /\ T # {}
      BY <1>4, <2>1
    <3> HIDE DEF T
    <3>2. QED
      BY <3>1, LeastExists
  <2>3. PICK d \in E : n = Len(d)
    BY <2>2
  <2>4. QED
    BY <2>2, <2>3
<1>6. \A e \in E : d \notin Below(e) /\ Below(e) \subseteq E \ {d}
  <2>1. ASSUME NEW e \in E, d \in Below(e) PROVE FALSE
    <3>1. Len(d) = Len(e) + 1 /\ Len(e) \in Nat /\ Len(d) <= Len(e)
      BY <1>3, <1>5, <2>1, BelowIsLonger
    <3>2. QED
      BY <3>1
  <2>2. QED
    BY <1>3, <2>1 DEF Closed
<1>7. PICK above : Walks(above, E \ {d})
  <2>1. E \ {d} \in SUBSET LakeDirs /\ E \ {d} # E /\ Closed(E \ {d})
    BY <1>3, <1>6 DEF Closed
  <2>2. QED
    BY <1>2, <2>1
<1> DEFINE walk == [e \in E |-> IF e = d THEN WalkStep(d, above) ELSE above[e]]
<1>8. ASSUME NEW e \in E PROVE WalkStep(e, above) = WalkStep(e, walk)
  <2>1. [c \in Below(e) |-> above[c]] = [c \in Below(e) |-> walk[c]]
    BY <1>6
  <2> HIDE DEF walk
  <2>2. QED
    BY <2>1 DEF WalkStep
<1>9. ASSUME NEW e \in E PROVE walk[e] = WalkStep(e, walk)
  <2>1. CASE e = d
    BY <1>8, <2>1
  <2>2. CASE e # d
    <3>1. above[e] = WalkStep(e, above)
      BY <1>7, <2>2 DEF Walks
    <3>2. walk[e] = above[e]
      BY <2>2
    <3>3. QED
      BY <1>8, <3>1, <3>2
  <2>3. QED
    BY <2>1, <2>2
<1>10. Walks(walk, E)
  <2>1. DOMAIN walk = E /\ walk = [e \in E |-> walk[e]]
    OBVIOUS
  <2> HIDE DEF walk
  <2>2. QED
    BY <1>9, <2>1 DEF Walks
<1>11. QED
  BY <1>3, <1>10

\* WalkAndPrune is such a walk's value at the root.
LEMMA WalkIsOne ==
  ASSUME lake \in Trees
  PROVE  \E walk : Walks(walk, LakeDirs) /\ FilesCall!WalkAndPrune = walk[Root]
<1>1. PICK walk : walk = CHOOSE g : Walks(g, LakeDirs)
  OBVIOUS
<1>2. Walks(walk, LakeDirs)
  BY <1>1, WalkExists
<1>3. FilesCall!WalkAndPrune = (CHOOSE g : Walks(g, LakeDirs))[Root]
  BY DEF FilesCall!WalkAndPrune, Walks, WalkStep, LakeDirs, Below
<1>4. QED
  BY <1>1, <1>2, <1>3

\* In every set of directories one has no subdirectory in the set.
LEMMA Deepest ==
  ASSUME lake \in Trees, NEW D, D \subseteq LakeDirs, D # {}
  PROVE  \E d \in D : \A c \in Below(d) : c \notin D
<1> DEFINE Deep(d) == {e \in LakeDirs : Len(e) >= Len(d)}
           B == {Deep(d) : d \in D}
<1>1. PICK s \in B : \A t \in B : ~(t \subseteq s /\ t # s)
  <2>1. B \subseteq SUBSET LakeDirs /\ B # {}
    OBVIOUS
  <2>2. IsFiniteSet(LakeDirs)
    BY LakeDirsFinite
  <2> HIDE DEF B
  <2>3. QED
    BY <2>1, <2>2, LeastSubset
<1>2. PICK d \in D : s = Deep(d)
  OBVIOUS
<1>3. ASSUME NEW c \in Below(d), c \in D PROVE FALSE
  <2>1. /\ Len(d) \in Nat /\ Len(c) = Len(d) + 1 /\ d \in LakeDirs
        /\ \A e \in LakeDirs : Len(e) \in Nat
    BY <1>2, <1>3, BelowIsLonger
  <2>2. \A n \in Nat : n >= Len(d) + 1 => n >= Len(d)
    BY <2>1
  <2>3. Deep(c) \subseteq Deep(d)
    BY <2>1, <2>2
  <2>4. d \in Deep(d) /\ d \notin Deep(c)
    BY <2>1
  <2>5. Deep(c) \in B
    BY <1>3
  <2> HIDE DEF Deep, B
  <2>6. QED
    BY <1>1, <1>2, <2>3, <2>4, <2>5
<1>4. QED
  BY <1>3

\* walk_and_prune's result for a directory.
WalkResult == [files: SUBSET DOMAIN lake, any: BOOLEAN, pruned: Nat]

\* The sums of the file filter are those of the library.
LEMMA FilesSums ==
  /\ \A f : FilesCall!SumFunction(f) = SumFunction(f)
  /\ \A f : SumFunction(f) = SumFunctionOnSet(f, DOMAIN f)
  /\ \A S : FilesCall!Cardinality(S) = Cardinality(S)
<1>1. \A f, S : FilesCall!SumFunctionOnSet(f, S) = SumFunctionOnSet(f, S)
  BY DEF FilesCall!SumFunctionOnSet, FilesCall!FoldFunctionOnSet, FilesCall!MapThenFoldSet,
         SumFunctionOnSet, FoldFunctionOnSet, MapThenFoldSet
<1>2. \A f : FilesCall!SumFunction(f) = SumFunction(f)
  BY <1>1 DEF FilesCall!SumFunction, SumFunction
<1>3. \A f : SumFunction(f) = SumFunctionOnSet(f, DOMAIN f)
  BY DEF SumFunction
<1>4. \A S : FilesCall!Cardinality(S) = Cardinality(S)
  BY DEF FilesCall!Cardinality, Cardinality
<1>5. QED
  BY <1>2, <1>3, <1>4

\* A step that is given results returns one.
LEMMA WalkStepTyped ==
  ASSUME lake \in Trees, NEW d \in LakeDirs, NEW walk,
         \A c \in Below(d) : walk[c] \in WalkResult
  PROVE  WalkStep(d, walk) \in WalkResult
<1>1. PICK below : below = [c \in Below(d) |-> walk[c]]
  OBVIOUS
<1>2. DOMAIN below = Below(d) /\ \A c \in Below(d) : below[c] \in WalkResult
  BY <1>1
<1>3. PICK found : found = {f \in FilesCall!Children(d, "file") :
                              /\ FilesCall!Matches(f, request.rules)
                              /\ FilesCall!PathContains(f, request.filter)}
  OBVIOUS
<1>4. found \in SUBSET DOMAIN lake
  BY <1>3 DEF FilesCall!Children
<1>5. IsFiniteSet(Below(d))
  <2>1. Below(d) \in SUBSET LakeDirs /\ IsFiniteSet(LakeDirs)
    BY BelowIsLonger, LakeDirsFinite
  <2>2. QED
    BY <2>1, FS_Subset
<1>6. FilesCall!SumFunction([c \in DOMAIN below |-> below[c].pruned]) \in Nat
  <2>1. PICK f : f = [c \in DOMAIN below |-> below[c].pruned]
    OBVIOUS
  <2>2. DOMAIN f = Below(d) /\ \A c \in Below(d) : f[c] \in Nat
    BY <1>2, <2>1 DEF WalkResult
  <2>3. SumFunctionOnSet(f, Below(d)) \in Nat
    BY <1>5, <2>2, SumNat
  <2>4. QED
    BY <2>1, <2>2, <2>3, FilesSums
<1>7. UNION {w.files : w \in {v \in FilesCall!Range(below) : v.any}} \in SUBSET DOMAIN lake
  BY <1>2 DEF FilesCall!Range, WalkResult
<1>8. FilesCall!Pruned \in WalkResult
  BY DEF FilesCall!Pruned, WalkResult
<1>9. FilesCall!Found(d, found, below) \in WalkResult
  <2>1. [files  |-> found \cup UNION {w.files : w \in {v \in FilesCall!Range(below) : v.any}},
         any    |-> TRUE,
         pruned |-> FilesCall!SumFunction([c \in DOMAIN below |-> below[c].pruned])]
           \in WalkResult
    BY <1>4, <1>6, <1>7 DEF WalkResult
  <2>2. QED
    BY <1>8, <2>1 DEF FilesCall!Found
<1>10. QED
  BY <1>1, <1>3, <1>8, <1>9 DEF WalkStep

\* All of a walk's results are such results.
LEMMA WalkTyped ==
  ASSUME lake \in Trees, NEW walk, Walks(walk, LakeDirs)
  PROVE  \A d \in LakeDirs : walk[d] \in WalkResult
<1> DEFINE D == {d \in LakeDirs : walk[d] \notin WalkResult}
<1>1. SUFFICES ASSUME D # {} PROVE FALSE
  OBVIOUS
<1>2. PICK d \in D : \A c \in Below(d) : c \notin D
  <2>1. D \subseteq LakeDirs
    OBVIOUS
  <2> HIDE DEF D
  <2>2. QED
    BY <1>1, <2>1, Deepest
<1>3. d \in LakeDirs /\ \A c \in Below(d) : walk[c] \in WalkResult
  BY <1>2, BelowIsLonger
<1>4. WalkStep(d, walk) \in WalkResult
  BY <1>3, WalkStepTyped
<1>5. walk[d] = WalkStep(d, walk)
  BY <1>3 DEF Walks
<1>6. QED
  BY <1>4, <1>5

\* The sum of the first numbers of a list.
SumTo(f, n) == SumFunctionOnSet(f, 1 .. n)

\* A sum up to n is the sum up to n - 1 and the last term.
LEMMA SumToStep ==
  ASSUME NEW f, NEW n \in Nat, \A m \in 1 .. n : f[m] \in Nat
  PROVE  /\ SumTo(f, 0) = 0 /\ SumTo(f, n) \in Nat
         /\ n > 0 => SumTo(f, n) = SumTo(f, n - 1) + f[n] /\ SumTo(f, n - 1) \in Nat
<1>1. IsFiniteSet(1 .. n) /\ IsFiniteSet(1 .. 0) /\ 1 .. 0 = {}
  BY FS_Interval
<1>2. SumTo(f, 0) = 0
  BY <1>1, SumStep DEF SumTo
<1>3. SumTo(f, n) \in Nat
  BY <1>1, SumNat DEF SumTo
<1>4. ASSUME n > 0 PROVE SumTo(f, n) = SumTo(f, n - 1) + f[n] /\ SumTo(f, n - 1) \in Nat
  <2>1. n \in 1 .. n /\ (1 .. n) \ {n} = 1 .. n - 1
    BY <1>4
  <2>2. IsFiniteSet(1 .. n - 1) /\ \A m \in 1 .. n - 1 : f[m] \in Nat
    BY <1>1, <2>1, FS_Subset
  <2>3. PICK k \in Nat : k = SumFunctionOnSet(f, 1 .. n - 1)
    BY <2>2, SumNat
  <2>4. SumFunctionOnSet(f, 1 .. n) = f[n] + k
    <3>1. PICK S : S = 1 .. n
      OBVIOUS
    <3>2. IsFiniteSet(S) /\ n \in S /\ \A m \in S : f[m] \in Nat
      BY <1>1, <2>1, <3>1
    <3>3. SumFunctionOnSet(f, S) = f[n] + SumFunctionOnSet(f, S \ {n})
      BY <3>2, SumAny
    <3>4. QED
      BY <2>1, <2>3, <3>1, <3>3
  <2>5. f[n] \in Nat
    BY <2>1
  <2>6. QED
    BY <2>3, <2>4, <2>5 DEF SumTo
<1>5. QED
  BY <1>2, <1>3, <1>4

\* The rows of a file's batches that go to one side.
RowsOf(batches, side) == [n \in DOMAIN batches |-> batches[n][side]]

\* The clean and trash rows of the first batches of a file.
LEMMA RowsOfTyped ==
  ASSUME NEW batches \in Contents \cup {<<>>}
  PROVE  /\ Len(batches) \in Nat /\ DOMAIN batches = 1 .. Len(batches)
         /\ \A n \in 1 .. Len(batches) :
              /\ batches[n].clean \in Nat /\ batches[n].trash \in Nat
              /\ RowsOf(batches, "clean")[n] = batches[n].clean
              /\ RowsOf(batches, "trash")[n] = batches[n].trash
<1>1. PICK R : R = [clean: Nat, trash: Nat]
  OBVIOUS
<1>2. batches \in Seq(R)
  <2>1. batches \in Contents => batches \in Seq([clean: Nat, trash: Nat])
    BY LakeKinds
  <2>2. batches = <<>> => batches \in Seq(R)
    OBVIOUS
  <2>3. QED
    BY <1>1, <2>1, <2>2
<1>3. Len(batches) \in Nat /\ DOMAIN batches = 1 .. Len(batches)
  BY <1>2
<1>4. \A n \in 1 .. Len(batches) : batches[n] \in R
  BY <1>2
<1>5. QED
  BY <1>1, <1>3, <1>4 DEF RowsOf

\* What a file's closure has counted so far.
CountedSoFar(c, batches) ==
  /\ c.k \in Nat /\ 1 <= c.k /\ c.k <= Len(batches) + 1
  /\ c.pc = "wait" => c.k = 1
  /\ c.pc = "done" => c.k = Len(batches) + 1
  /\ c.clean = SumTo(RowsOf(batches, "clean"), c.k - 1)
  /\ c.trash = SumTo(RowsOf(batches, "trash"), c.k - 1)

\* The invariant of a filter_files call: every counter holds the sums of the
\* batches it has read, and the summary holds the sums of the counters.
FilesInv ==
  call = "files" =>
    /\ FilesCall!TypeOK
    /\ status = "counting" => chosen # {}
    /\ \A f \in chosen : CountedSoFar(counter[f], content[f])
    /\ FilesCall!SummaryRight

\* CountBatch counts one batch.
LEMMA CountOne ==
  ASSUME NEW batches \in Contents \cup {<<>>}, NEW c, CountedSoFar(c, batches),
         c.pc = "read", c.k <= Len(batches),
         NEW d, d.k = c.k + 1, d.pc = c.pc,
         d.clean = c.clean + batches[c.k].clean, d.trash = c.trash + batches[c.k].trash
  PROVE  CountedSoFar(d, batches) /\ d.clean \in Nat /\ d.trash \in Nat /\ d.k \in Nat
<1>1. PICK k \in Nat : k = c.k
  BY DEF CountedSoFar
<1>2. PICK len \in Nat : len = Len(batches)
  BY RowsOfTyped
<1>3. 1 <= k /\ k <= len /\ k \in 1 .. len /\ k > 0
  BY <1>1, <1>2 DEF CountedSoFar
<1>4. \A m \in 1 .. k : m \in 1 .. len
  BY <1>3
<1>5. /\ SumTo(RowsOf(batches, "clean"), k)
           = SumTo(RowsOf(batches, "clean"), k - 1) + RowsOf(batches, "clean")[k]
      /\ SumTo(RowsOf(batches, "trash"), k)
           = SumTo(RowsOf(batches, "trash"), k - 1) + RowsOf(batches, "trash")[k]
      /\ SumTo(RowsOf(batches, "clean"), k) \in Nat
      /\ SumTo(RowsOf(batches, "trash"), k) \in Nat
  <2>1. \A m \in 1 .. k : /\ RowsOf(batches, "clean")[m] \in Nat
                          /\ RowsOf(batches, "trash")[m] \in Nat
    BY <1>2, <1>4, RowsOfTyped
  <2>2. QED
    BY <1>3, <2>1, SumToStep
<1>6. /\ RowsOf(batches, "clean")[k] = batches[k].clean
      /\ RowsOf(batches, "trash")[k] = batches[k].trash
  BY <1>2, <1>3, RowsOfTyped
<1>7. d.k = k + 1 /\ (k + 1) - 1 = k /\ 1 <= k + 1 /\ k + 1 <= len + 1
  BY <1>1, <1>3
<1>8. /\ d.clean = SumTo(RowsOf(batches, "clean"), k)
      /\ d.trash = SumTo(RowsOf(batches, "trash"), k)
  BY <1>1, <1>5, <1>6 DEF CountedSoFar
<1>9. QED
  BY <1>1, <1>2, <1>5, <1>7, <1>8 DEF CountedSoFar

\* The files are finitely many, and so are the sums of what they counted.
LEMMA SummaryTyped ==
  ASSUME lake \in Trees, FilesCall!TypeOK
  PROVE  /\ IsFiniteSet(chosen) /\ FilesCall!Cardinality(chosen) \in Nat
         /\ chosen # {} => FilesCall!Cardinality(chosen) > 0
         /\ FilesCall!SumFunction([f \in chosen |-> counter[f].clean]) \in Nat
         /\ FilesCall!SumFunction([f \in chosen |-> counter[f].trash]) \in Nat
<1>1. IsFiniteSet(chosen)
  <2>1. IsFiniteSet(DOMAIN lake) /\ chosen \in SUBSET DOMAIN lake
    BY LakeDirsFinite DEF FilesCall!TypeOK
  <2>2. QED
    BY <2>1, FS_Subset
<1>2. /\ Cardinality(chosen) \in Nat
      /\ chosen # {} => Cardinality(chosen) > 0
  BY <1>1, FS_CardinalityType, FS_EmptySet
<1>3. ASSUME NEW g, DOMAIN g = chosen, \A f \in chosen : g[f] \in Nat
      PROVE  FilesCall!SumFunction(g) \in Nat
  BY <1>1, <1>3, SumNat, FilesSums
<1>4. \A f \in chosen : counter[f].clean \in Nat /\ counter[f].trash \in Nat
  BY DEF FilesCall!TypeOK
<1>5. FilesCall!SumFunction([f \in chosen |-> counter[f].clean]) \in Nat
  <2>1. PICK g : g = [f \in chosen |-> counter[f].clean]
    OBVIOUS
  <2>2. DOMAIN g = chosen /\ \A f \in chosen : g[f] \in Nat
    BY <1>4, <2>1
  <2>3. QED
    BY <1>3, <2>1, <2>2
<1>6. FilesCall!SumFunction([f \in chosen |-> counter[f].trash]) \in Nat
  <2>1. PICK g : g = [f \in chosen |-> counter[f].trash]
    OBVIOUS
  <2>2. DOMAIN g = chosen /\ \A f \in chosen : g[f] \in Nat
    BY <1>4, <2>1
  <2>3. QED
    BY <1>3, <2>1, <2>2
<1>7. QED
  BY <1>1, <1>2, <1>5, <1>6, FilesSums

\* The rows counted in a file that is done are the rows of its batches.
LEMMA DoneIsCounted ==
  ASSUME NEW batches \in Contents \cup {<<>>}, NEW c, CountedSoFar(c, batches), c.pc = "done"
  PROVE  /\ c.clean = FilesCall!SumFunction([n \in DOMAIN batches |-> batches[n]["clean"]])
         /\ c.trash = FilesCall!SumFunction([n \in DOMAIN batches |-> batches[n]["trash"]])
         /\ c.k = Len(batches) + 1
<1>1. /\ Len(batches) \in Nat /\ DOMAIN batches = 1 .. Len(batches)
      /\ c.k = Len(batches) + 1
  BY RowsOfTyped DEF CountedSoFar
<1>2. /\ c.clean = SumTo(RowsOf(batches, "clean"), Len(batches))
      /\ c.trash = SumTo(RowsOf(batches, "trash"), Len(batches))
  BY <1>1 DEF CountedSoFar
<1>3. \A side : FilesCall!SumFunction(RowsOf(batches, side))
                  = SumTo(RowsOf(batches, side), Len(batches))
  <2>1. \A side : DOMAIN RowsOf(batches, side) = 1 .. Len(batches)
    BY <1>1 DEF RowsOf
  <2>2. QED
    BY <2>1, FilesSums DEF SumTo
<1>4. QED
  BY <1>1, <1>2, <1>3 DEF RowsOf

\* ReturnSummary returns what the batches hold.
LEMMA ReturnSummaryRight ==
  ASSUME FilesInv, call = "files", FilesCall!ReturnSummary
  PROVE  FilesCall!SummaryRight' /\ FilesCall!TypeOK'
<1>1. /\ FilesCall!TypeOK /\ lake \in Trees /\ chosen # {}
      /\ \A f \in chosen : /\ CountedSoFar(counter[f], content[f]) /\ counter[f].pc = "done"
                           /\ content[f] \in Contents \cup {<<>>}
  BY DEF FilesInv, FilesCall!ReturnSummary, FilesCall!TypeOK
<1>2. PICK a \in Nat, b \in Nat :
        /\ a = FilesCall!SumFunction([f \in chosen |-> counter[f].clean])
        /\ b = FilesCall!SumFunction([f \in chosen |-> counter[f].trash])
  BY <1>1, SummaryTyped
<1>3. PICK n \in Nat : n = FilesCall!Cardinality(chosen) /\ n > 0
  BY <1>1, SummaryTyped
<1>4. summary' = [files |-> n, pruned |-> pruned, rows |-> a + b, clean |-> a, trash |-> b]
  BY <1>2, <1>3 DEF FilesCall!ReturnSummary, FilesCall!Summary
<1>5. UNCHANGED <<lake, request, chosen, pruned, counter, content>>
  BY DEF FilesCall!ReturnSummary
<1>6. \A f \in chosen :
        /\ counter[f].clean
             = FilesCall!SumFunction([m \in DOMAIN content[f] |-> content[f][m]["clean"]])
        /\ counter[f].trash
             = FilesCall!SumFunction([m \in DOMAIN content[f] |-> content[f][m]["trash"]])
        /\ counter[f].k = Len(content[f]) + 1
  BY <1>1, DoneIsCounted
<1>7. /\ [f \in chosen |-> counter[f].clean]
           = [f \in chosen |-> FilesCall!SumFunction(
                [m \in DOMAIN content[f] |-> content[f][m]["clean"]])]
      /\ [f \in chosen |-> counter[f].trash]
           = [f \in chosen |-> FilesCall!SumFunction(
                [m \in DOMAIN content[f] |-> content[f][m]["trash"]])]
  BY <1>6
<1>8. /\ a = FilesCall!SumFunction([f \in chosen |-> FilesCall!SumFunction(
                [m \in DOMAIN content[f] |-> content[f][m]["clean"]])])
      /\ b = FilesCall!SumFunction([f \in chosen |-> FilesCall!SumFunction(
                [m \in DOMAIN content[f] |-> content[f][m]["trash"]])])
  BY <1>2, <1>7
<1>9. FilesCall!SummaryRight'
  <2>1. /\ summary'.files = FilesCall!Cardinality(chosen) /\ summary'.files > 0
        /\ summary'.clean = a /\ summary'.trash = b
        /\ summary'.rows = summary'.clean + summary'.trash
    BY <1>3, <1>4
  <2>2. QED
    BY <1>5, <1>6, <1>8, <2>1 DEF FilesCall!SummaryRight
<1>10. FilesCall!TypeOK'
  <2>1. pruned \in Nat /\ a + b \in Nat
    BY <1>1 DEF FilesCall!TypeOK
  <2>2. summary' \in [files: Nat, pruned: Nat, rows: Nat, clean: Nat, trash: Nat]
    BY <1>4, <2>1
  <2>3. status' = "returned"
    BY DEF FilesCall!ReturnSummary
  <2>4. QED
    BY <1>1, <1>5, <2>2, <2>3 DEF FilesCall!TypeOK
<1>11. QED
  BY <1>9, <1>10

\* What collect_target_files finds.
LEMMA TargetsTyped ==
  ASSUME lake \in Trees, FilesCall!CollectTargetFiles,
         request.target \in {"dir", "file", "glob"}
  PROVE  /\ chosen' \in SUBSET DOMAIN lake /\ pruned' \in Nat
         /\ counter' = [f \in chosen' |-> FilesCall!Resting]
         /\ content' = [f \in chosen' |-> <<>>]
         /\ status' = IF chosen' = {} THEN "empty" ELSE "counting"
         /\ UNCHANGED <<lake, request, summary>>
<1>1. PICK found \in
        CASE request.target = "dir"  -> {FilesCall!WalkAndPrune}
          [] request.target = "file" ->
               {[files |-> {f}, pruned |-> 0] :
                  f \in {p \in DOMAIN lake : lake[p] \in {"file", "other"}}}
          [] request.target = "glob" ->
               {[files |-> {p \in DOMAIN lake : lake[p] \in {"file", "other"}},
                 pruned |-> 0]} :
          /\ chosen' = found.files
          /\ pruned' = found.pruned
          /\ status' = IF found.files = {} THEN "empty" ELSE "counting"
          /\ counter' = [f \in found.files |-> FilesCall!Resting]
          /\ content' = [f \in found.files |-> <<>>]
  BY DEF FilesCall!CollectTargetFiles
<1>2. found.files \in SUBSET DOMAIN lake /\ found.pruned \in Nat
  <2>1. CASE request.target = "dir"
    <3>1. PICK walk : Walks(walk, LakeDirs) /\ FilesCall!WalkAndPrune = walk[Root]
      BY WalkIsOne
    <3>2. walk[Root] \in WalkResult
      BY <3>1, WalkTyped DEF LakeDirs
    <3>3. found = walk[Root]
      BY <1>1, <2>1, <3>1
    <3>4. QED
      BY <3>2, <3>3 DEF WalkResult
  <2>2. CASE request.target = "file"
    BY <1>1, <2>2
  <2>3. CASE request.target = "glob"
    BY <1>1, <2>3
  <2>4. QED
    BY <2>1, <2>2, <2>3
<1>3. UNCHANGED <<lake, request, summary>>
  BY DEF FilesCall!CollectTargetFiles
<1>4. QED
  BY <1>1, <1>2, <1>3

\* A step of one file's closure.
LEMMA CounterStep ==
  ASSUME FilesInv, call' = call, NEW f \in chosen, NEW c, NEW batches \in Contents \cup {<<>>},
         status = "counting",
         UNCHANGED <<lake, request, status, chosen, pruned, summary>>,
         counter' = [counter EXCEPT ![f] = c], content' = [content EXCEPT ![f] = batches],
         c \in [pc: {"wait", "read", "done", "failed"}, k: Nat, clean: Nat, trash: Nat],
         CountedSoFar(c, batches)
  PROVE  FilesInv'
<1> SUFFICES ASSUME call = "files" PROVE FilesInv'
  BY DEF FilesInv
<1>1. FilesCall!TypeOK /\ \A g \in chosen : CountedSoFar(counter[g], content[g])
  BY DEF FilesInv
<1>2. DOMAIN counter = chosen /\ DOMAIN content = chosen
  BY <1>1 DEF FilesCall!TypeOK
<1>3. \A g \in chosen : /\ counter'[g] = IF g = f THEN c ELSE counter[g]
                        /\ content'[g] = IF g = f THEN batches ELSE content[g]
  BY <1>2
<1>4. \A g \in chosen' : CountedSoFar(counter'[g], content'[g])
  BY <1>1, <1>3
<1>5. FilesCall!TypeOK'
  <2>1. counter' \in [chosen -> [pc: {"wait", "read", "done", "failed"}, k: Nat,
                                 clean: Nat, trash: Nat]]
    BY <1>1 DEF FilesCall!TypeOK
  <2>2. content' \in [chosen -> Contents \cup {<<>>}]
    BY <1>1 DEF FilesCall!TypeOK
  <2>3. QED
    BY <1>1, <2>1, <2>2 DEF FilesCall!TypeOK
<1>6. chosen # {} /\ status' # "returned"
  OBVIOUS
<1>7. QED
  BY <1>4, <1>5, <1>6 DEF FilesInv, FilesCall!SummaryRight, CountedSoFar

\* Where the closures are.
CounterType == [pc: {"wait", "read", "done", "failed"}, k: Nat, clean: Nat, trash: Nat]

\* One file's counter, as FilesInv gives it.
LEMMA CounterTyped ==
  ASSUME FilesInv, call = "files", NEW f \in chosen
  PROVE  /\ counter[f] \in CounterType /\ content[f] \in Contents \cup {<<>>}
         /\ CountedSoFar(counter[f], content[f])
         /\ content = [content EXCEPT ![f] = content[f]]
         /\ \A c : [counter EXCEPT ![f] = c] = [counter EXCEPT ![f] = c]
BY DEF FilesInv, FilesCall!TypeOK, CounterType

\* A closure that has counted nothing.
LEMMA NothingCounted ==
  ASSUME NEW batches \in Contents \cup {<<>>}, NEW c,
         c.k = 1, c.clean = 0, c.trash = 0, c.pc # "done"
  PROVE  CountedSoFar(c, batches)
<1>1. \A f : SumTo(f, 0) = 0
  BY SumToStep
<1>2. Len(batches) \in Nat /\ 1 - 1 = 0
  BY RowsOfTyped
<1>3. 1 <= Len(batches) + 1
  BY <1>2
<1>4. QED
  BY <1>1, <1>2, <1>3 DEF CountedSoFar

\* A call of the parallel filter keeps what it has counted.
LEMMA FilesStep ==
  ASSUME FilesInv, call = "files", call' = call, FilesCall!Next
  PROVE  FilesInv'
<1>1. FilesCall!TypeOK
  BY DEF FilesInv
<1>2. CASE FilesCall!CollectTargetFiles
  <2>1. /\ chosen' \in SUBSET DOMAIN lake /\ pruned' \in Nat
        /\ counter' = [f \in chosen' |-> FilesCall!Resting]
        /\ content' = [f \in chosen' |-> <<>>]
        /\ status' = IF chosen' = {} THEN "empty" ELSE "counting"
        /\ UNCHANGED <<lake, request, summary>>
    BY <1>1, <1>2, TargetsTyped DEF FilesCall!TypeOK
  <2>2. FilesCall!Resting \in CounterType
    BY DEF FilesCall!Resting, CounterType
  <2>3. CountedSoFar(FilesCall!Resting, <<>>)
    BY NothingCounted DEF FilesCall!Resting
  <2>4. FilesCall!TypeOK'
    <3>1. counter' \in [chosen' -> CounterType] /\ content' \in [chosen' -> Contents \cup {<<>>}]
      BY <2>1, <2>2
    <3>2. QED
      BY <1>1, <2>1, <3>1 DEF FilesCall!TypeOK, CounterType
  <2>5. \A f \in chosen' : CountedSoFar(counter'[f], content'[f])
    BY <2>1, <2>3
  <2>6. QED
    BY <2>1, <2>4, <2>5 DEF FilesInv, FilesCall!SummaryRight, CountedSoFar
<1>3. CASE FilesCall!CollectFails
  BY <1>1, <1>3 DEF FilesCall!CollectFails, FilesInv, FilesCall!TypeOK, FilesCall!SummaryRight,
                    CountedSoFar
<1>4. CASE FilesCall!ReturnSummary
  <2>1. FilesCall!SummaryRight' /\ FilesCall!TypeOK'
    BY <1>4, ReturnSummaryRight
  <2>2. UNCHANGED <<chosen, counter, content>> /\ status' = "returned"
    BY <1>4 DEF FilesCall!ReturnSummary
  <2>3. QED
    BY <2>1, <2>2 DEF FilesInv, CountedSoFar
<1>5. CASE FilesCall!ReturnError
  BY <1>1, <1>5 DEF FilesCall!ReturnError, FilesInv, FilesCall!TypeOK, FilesCall!SummaryRight,
                    CountedSoFar
<1>6. ASSUME NEW f \in chosen, FilesCall!OpenSource(f) PROVE FilesInv'
  <2>1. PICK c \in CounterType : c = counter[f]
    BY CounterTyped
  <2>2. c.pc = "wait" /\ status = "counting"
    BY <1>6, <2>1 DEF FilesCall!OpenSource, FilesCall!At
  <2>3. c.k = 1 /\ c.clean = 0 /\ c.trash = 0
    <3>1. \A g : SumTo(g, 0) = 0
      BY SumToStep
    <3>2. c.k = 1 /\ 1 - 1 = 0
      BY <2>1, <2>2, CounterTyped DEF CountedSoFar
    <3>3. /\ c.clean = SumTo(RowsOf(content[f], "clean"), c.k - 1)
          /\ c.trash = SumTo(RowsOf(content[f], "trash"), c.k - 1)
      BY <2>1, CounterTyped DEF CountedSoFar
    <3>4. QED
      BY <3>1, <3>2, <3>3
  <2>4. PICK batches \in Contents : content' = [content EXCEPT ![f] = batches]
    BY <1>6 DEF FilesCall!OpenSource
  <2>5. PICK d : d = [c EXCEPT !.pc = "read"]
    OBVIOUS
  <2>6. d \in CounterType /\ d.k = 1 /\ d.clean = 0 /\ d.trash = 0 /\ d.pc # "done"
    BY <2>1, <2>3, <2>5 DEF CounterType
  <2>7. counter' = [counter EXCEPT ![f] = d]
    BY <1>6, <2>1, <2>5 DEF FilesCall!OpenSource
  <2>8. CountedSoFar(d, batches)
    BY <2>6, NothingCounted
  <2>9. UNCHANGED <<lake, request, status, chosen, pruned, summary>>
    BY <1>6 DEF FilesCall!OpenSource
  <2>10. QED
    BY <2>2, <2>4, <2>6, <2>7, <2>8, <2>9, CounterStep DEF CounterType
<1>7. ASSUME NEW f \in chosen, FilesCall!CountBatch(f) PROVE FilesInv'
  <2>1. PICK c \in CounterType, batches \in Contents \cup {<<>>} :
          c = counter[f] /\ batches = content[f] /\ CountedSoFar(c, batches)
    BY CounterTyped
  <2>2. c.pc = "read" /\ status = "counting" /\ c.k <= Len(batches)
    BY <1>7, <2>1 DEF FilesCall!CountBatch, FilesCall!At
  <2>3. PICK d : d = [c EXCEPT !.k = c.k + 1, !.clean = c.clean + batches[c.k].clean,
                               !.trash = c.trash + batches[c.k].trash]
    OBVIOUS
  <2>4. /\ d.k = c.k + 1 /\ d.pc = c.pc /\ d.clean = c.clean + batches[c.k].clean
        /\ d.trash = c.trash + batches[c.k].trash
        /\ d = [pc |-> d.pc, k |-> d.k, clean |-> d.clean, trash |-> d.trash]
    BY <2>3 DEF CounterType
  <2>5. CountedSoFar(d, batches) /\ d.clean \in Nat /\ d.trash \in Nat /\ d.k \in Nat
    BY <2>1, <2>2, <2>4, CountOne
  <2>6. d.pc = "read"
    BY <2>2, <2>4
  <2>7. d \in CounterType
    BY <2>4, <2>5, <2>6 DEF CounterType
  <2>8. counter' = [counter EXCEPT ![f] = d]
    BY <1>7, <2>1, <2>3 DEF FilesCall!CountBatch
  <2>9. /\ UNCHANGED <<lake, request, status, chosen, pruned, summary>>
        /\ content' = [content EXCEPT ![f] = batches]
    BY <1>7, <2>1, CounterTyped DEF FilesCall!CountBatch
  <2>10. QED
    BY <2>2, <2>5, <2>7, <2>8, <2>9, CounterStep DEF CounterType
<1>8. ASSUME NEW f \in chosen, FilesCall!EndOfFile(f) PROVE FilesInv'
  <2>1. PICK c \in CounterType, batches \in Contents \cup {<<>>} :
          c = counter[f] /\ batches = content[f] /\ CountedSoFar(c, batches)
    BY CounterTyped
  <2>2. c.pc = "read" /\ status = "counting" /\ c.k > Len(batches)
    BY <1>8, <2>1 DEF FilesCall!EndOfFile, FilesCall!At
  <2>3. PICK d : d = [c EXCEPT !.pc = "done"]
    OBVIOUS
  <2>4. d \in CounterType /\ d.k = c.k /\ d.clean = c.clean /\ d.trash = c.trash /\ d.pc = "done"
    BY <2>1, <2>3 DEF CounterType
  <2>5. c.k = Len(batches) + 1
    BY <2>1, <2>2, RowsOfTyped DEF CountedSoFar
  <2>6. CountedSoFar(d, batches)
    BY <2>1, <2>4, <2>5 DEF CountedSoFar
  <2>7. counter' = [counter EXCEPT ![f] = d]
    BY <1>8, <2>1, <2>3 DEF FilesCall!EndOfFile
  <2>8. /\ UNCHANGED <<lake, request, status, chosen, pruned, summary>>
        /\ content' = [content EXCEPT ![f] = batches]
    BY <1>8, <2>1, CounterTyped DEF FilesCall!EndOfFile
  <2>9. QED
    BY <2>2, <2>4, <2>6, <2>7, <2>8, CounterStep DEF CounterType
<1>9. ASSUME NEW f \in chosen, FilesCall!FileFails(f) PROVE FilesInv'
  <2>1. PICK c \in CounterType, batches \in Contents \cup {<<>>} :
          c = counter[f] /\ batches = content[f] /\ CountedSoFar(c, batches)
    BY CounterTyped
  <2>2. status = "counting"
    BY <1>9 DEF FilesCall!FileFails, FilesCall!At
  <2>3. PICK d : d = [c EXCEPT !.pc = "failed"]
    OBVIOUS
  <2>4. d \in CounterType /\ d.k = c.k /\ d.clean = c.clean /\ d.trash = c.trash /\ d.pc = "failed"
    BY <2>1, <2>3 DEF CounterType
  <2>5. CountedSoFar(d, batches)
    BY <2>1, <2>4 DEF CountedSoFar
  <2>6. counter' = [counter EXCEPT ![f] = d]
    BY <1>9, <2>1, <2>3 DEF FilesCall!FileFails
  <2>7. /\ UNCHANGED <<lake, request, status, chosen, pruned, summary>>
        /\ content' = [content EXCEPT ![f] = batches]
    BY <1>9, <2>1, CounterTyped DEF FilesCall!FileFails
  <2>8. QED
    BY <2>2, <2>4, <2>5, <2>6, <2>7, CounterStep DEF CounterType
<1>10. QED
  BY <1>2, <1>3, <1>4, <1>5, <1>6, <1>7, <1>8, <1>9 DEF FilesCall!Next

\* The invariant of a call of the parallel filter.
LEMMA FilesInvariant == AuditSpec => []FilesInv
<1>1. AuditInit => FilesInv
  BY DEF AuditInit, FilesCall!Init, FilesInv, FilesCall!TypeOK, FilesCall!SummaryRight,
         FilesCall!NoReport, CountedSoFar
<1>2. FilesInv /\ [AuditNext]_allVars => FilesInv'
  <2> SUFFICES ASSUME FilesInv, [AuditNext]_allVars, call' = "files" PROVE FilesInv'
    BY DEF FilesInv
  <2>1. CASE call = "files" /\ call' = call /\ FilesCall!Next
    BY <2>1, FilesStep
  <2>2. CASE UNCHANGED allVars
    BY <2>2 DEF allVars, filesVars, FilesInv, FilesCall!TypeOK, FilesCall!SummaryRight,
                CountedSoFar
  <2>3. QED
    BY <2>1, <2>2 DEF AuditNext
<1>3. QED
  BY <1>1, <1>2, PTL DEF AuditSpec

\* A call that returns has counted every row of every file (parallel_filter.rs).
THEOREM FilesSummary == AuditSpec => []FilesSummaryRight
<1>1. FilesInv => FilesSummaryRight
  BY DEF FilesInv, FilesSummaryRight
<1>2. QED
  BY <1>1, FilesInvariant, PTL

-----------------------------------------------------------------------------
(* The directory walk (partition.rs): what it finds and what it counts. *)

\* The paths of the lake, and what lies in or below a directory.
LakePaths == LakeDirs \cup DOMAIN lake
Within(p, d) == Len(d) <= Len(p) /\ SubSeq(p, 1, Len(d)) = d
Under(p, d)  == Len(d) < Len(p) /\ SubSeq(p, 1, Len(d)) = d

\* What is assumed of the paths of a lake.
LEMMA PathFacts ==
  ASSUME lake \in Trees, NEW p \in LakePaths
  PROVE  /\ \E S : p \in Seq(S)
         /\ Len(p) \in Nat /\ Len(Root) \in Nat /\ Within(p, Root)
         /\ p # Root => /\ Under(p, Root) /\ p \in DOMAIN lake
                        /\ SubSeq(p, 1, Len(p) - 1) \in LakeDirs
<1>1. /\ Root \in Seq(FilesCall!Range(Root))
      /\ \A q \in DOMAIN lake :
           /\ q \in Seq(FilesCall!Range(q)) /\ FilesCall!IsStrictPrefix(Root, q)
           /\ \/ FilesCall!Front(q) = Root
              \/ FilesCall!Front(q) \in DOMAIN lake /\ lake[FilesCall!Front(q)] = "dir"
  BY FilesAssumption DEF FilesCall!LakesTyped
<1>2. PICK S : Root \in Seq(S)
  BY <1>1
<1>3. Len(Root) \in Nat /\ SubSeq(Root, 1, Len(Root)) = Root
  BY <1>2
<1>4. CASE p = Root
  BY <1>2, <1>3, <1>4 DEF Within
<1>5. CASE p # Root
  <2>1. p \in DOMAIN lake
    BY <1>5 DEF LakePaths, LakeDirs
  <2>2. PICK T : p \in Seq(T)
    BY <1>1, <2>1
  <2>3. Len(p) \in Nat /\ SubSeq(p, 1, Len(p)) = p
    BY <2>2
  <2>4. Len(Root) <= Len(p) /\ SubSeq(p, 1, Len(Root)) = Root
    BY <1>1, <1>3, <2>1 DEF FilesCall!IsStrictPrefix, FilesCall!IsPrefix
  <2>5. Len(Root) # Len(p)
    BY <1>5, <2>3, <2>4
  <2>6. SubSeq(p, 1, Len(p) - 1) \in LakeDirs
    BY <1>1, <2>1 DEF FilesCall!Front, LakeDirs
  <2>7. Within(p, Root)
    BY <2>4 DEF Within
  <2>8. Under(p, Root)
    <3>1. PICK m \in Nat, n \in Nat : m = Len(Root) /\ n = Len(p)
      BY <1>3, <2>3
    <3>2. m <= n
      BY <2>4, <3>1
    <3>3. m # n
      BY <2>5, <3>1
    <3>4. m < n
      BY <3>2, <3>3
    <3>5. QED
      BY <2>4, <3>1, <3>4 DEF Under
  <2>9. \E U : p \in Seq(U)
    BY <2>2
  <2>10. QED
    BY <1>3, <2>1, <2>3, <2>6, <2>7, <2>8, <2>9
<1>6. QED
  BY <1>4, <1>5

\* What one path is to another in the code's terms.
LEMMA UnderIs ==
  ASSUME lake \in Trees, NEW p \in LakePaths, NEW d \in LakePaths
  PROVE  FilesCall!IsStrictPrefix(d, p) <=> Under(p, d)
<1>1. PICK S : p \in Seq(S)
  BY PathFacts
<1>2. PICK T : d \in Seq(T)
  BY PathFacts
<1>3. /\ Len(p) \in Nat /\ Len(d) \in Nat
      /\ SubSeq(p, 1, Len(p)) = p /\ SubSeq(d, 1, Len(d)) = d
  BY <1>1, <1>2
<1>4. FilesCall!IsStrictPrefix(d, p) <=> (Len(d) <= Len(p) /\ d = SubSeq(p, 1, Len(d)) /\ d # p)
  BY <1>3 DEF FilesCall!IsStrictPrefix, FilesCall!IsPrefix
<1>5. Under(p, d) <=> (Len(d) < Len(p) /\ SubSeq(p, 1, Len(d)) = d)
  BY DEF Under
<1>6. PICK m \in Nat, n \in Nat : m = Len(d) /\ n = Len(p)
  BY <1>3
<1>7. PICK q : q = SubSeq(p, 1, m)
  OBVIOUS
<1>8. m = n => q = p
  BY <1>3, <1>6, <1>7
<1>9. d = p => m = n
  BY <1>6
<1>10. FilesCall!IsStrictPrefix(d, p) <=> (m <= n /\ d = q /\ d # p)
  BY <1>4, <1>6, <1>7
<1>11. Under(p, d) <=> (m < n /\ q = d)
  BY <1>5, <1>6, <1>7
<1>12. QED
  BY <1>8, <1>9, <1>10, <1>11

\* Lying below is transitive.
LEMMA WithinUnder ==
  ASSUME lake \in Trees, NEW p \in LakePaths, NEW c \in LakePaths, NEW d \in LakePaths,
         Within(p, c)
  PROVE  /\ Under(c, d) => Under(p, d)
         /\ Within(c, d) => Within(p, d)
         /\ p # c => Under(p, c)
<1>1. PICK S : p \in Seq(S)
  BY PathFacts
<1>2. /\ Len(p) \in Nat /\ Len(c) \in Nat /\ Len(d) \in Nat
      /\ SubSeq(p, 1, Len(p)) = p
  BY <1>1, PathFacts
<1>3. Len(c) \in 0 .. Len(p) /\ SubSeq(p, 1, Len(c)) = c
  BY <1>2 DEF Within
<1>4. ASSUME Len(d) <= Len(c) PROVE SubSeq(c, 1, Len(d)) = SubSeq(p, 1, Len(d))
  <2>1. Len(d) \in 0 .. Len(c)
    BY <1>2, <1>4
  <2>2. QED
    BY <1>1, <1>3, <2>1, CutFacts
<1>5. p # c => Under(p, c)
  BY <1>2, <1>3 DEF Under
<1>6. Under(c, d) => Under(p, d)
  BY <1>2, <1>3, <1>4 DEF Under
<1>7. Within(c, d) => Within(p, d)
  BY <1>2, <1>3, <1>4 DEF Within
<1>8. QED
  BY <1>5, <1>6, <1>7

\* The ancestors of what lies in the lake are its directories.
LEMMA Ancestor ==
  ASSUME lake \in Trees, NEW p \in LakePaths, NEW n \in Len(Root) .. Len(p) - 1
  PROVE  /\ SubSeq(p, 1, n) \in LakeDirs
         /\ Len(SubSeq(p, 1, n)) = n /\ Within(p, SubSeq(p, 1, n))
<1>1. PICK S : p \in Seq(S)
  BY PathFacts
<1>2. Len(p) \in Nat /\ Len(Root) \in Nat /\ SubSeq(p, 1, Len(Root)) = Root
  BY PathFacts DEF Within
<1>3. n \in 0 .. Len(p)
  BY <1>2
<1>4. Len(SubSeq(p, 1, n)) = n
  BY <1>1, <1>3, CutFacts
<1>5. Within(p, SubSeq(p, 1, n))
  BY <1>2, <1>3, <1>4 DEF Within
<1> DEFINE Bad(k) == SubSeq(p, 1, k) \notin LakeDirs
           T == {Len(p) - k : k \in {m \in Len(Root) .. Len(p) - 1 : Bad(m)}}
<1>6. T = {}
  <2>1. SUFFICES ASSUME T # {} PROVE FALSE
    OBVIOUS
  <2>2. T \subseteq Nat
    BY <1>2
  <2>3. PICK t \in T : \A u \in T : t <= u
    <3> HIDE DEF T
    <3>1. QED
      BY <2>1, <2>2, LeastExists
  <2>4. PICK k \in Len(Root) .. Len(p) - 1 : Bad(k) /\ t = Len(p) - k
    OBVIOUS
  <2>5. k \in Nat /\ k + 1 \in 0 .. Len(p) /\ k \in 0 .. k + 1 /\ k >= Len(Root)
    BY <1>2, <2>4
  <2>6. CASE k + 1 = Len(p)
    <3>1. p # Root
      BY <1>2, <2>5, <2>6
    <3>2. SubSeq(p, 1, Len(p) - 1) \in LakeDirs
      BY <3>1, PathFacts
    <3>3. Len(p) - 1 = k
      BY <2>5, <2>6
    <3>4. QED
      BY <2>4, <3>2, <3>3
  <2>7. CASE k + 1 # Len(p)
    <3>1. k + 1 \in Len(Root) .. Len(p) - 1
      BY <1>2, <2>5, <2>7
    <3>2. ~Bad(k + 1)
      <4>1. SUFFICES ASSUME Bad(k + 1) PROVE FALSE
        OBVIOUS
      <4>2. Len(p) - (k + 1) \in T
        BY <3>1, <4>1
      <4>3. t <= Len(p) - (k + 1)
        BY <2>3, <4>2
      <4>4. QED
        BY <1>2, <2>4, <2>5, <4>3
    <3>3. PICK q : q = SubSeq(p, 1, k + 1)
      OBVIOUS
    <3>4. q \in LakeDirs /\ q \in LakePaths
      BY <3>2, <3>3 DEF LakePaths
    <3>5. Len(q) = k + 1 /\ SubSeq(q, 1, k) = SubSeq(p, 1, k)
      BY <1>1, <2>5, <3>3, CutFacts
    <3>6. q # Root
      BY <1>2, <2>5, <3>5
    <3>7. SubSeq(q, 1, Len(q) - 1) \in LakeDirs
      BY <3>4, <3>6, PathFacts
    <3>8. Len(q) - 1 = k
      BY <2>5, <3>5
    <3>9. QED
      BY <2>4, <3>5, <3>7, <3>8
  <2>8. QED
    BY <2>6, <2>7
<1>7. SubSeq(p, 1, n) \in LakeDirs
  <2>1. SUFFICES ASSUME Bad(n) PROVE FALSE
    OBVIOUS
  <2>2. Len(p) - n \in T
    BY <2>1
  <2>3. QED
    BY <1>6, <2>2
<1>8. QED
  BY <1>4, <1>5, <1>7

\* What lies below a directory is in it or in one of its directories, in only one.
LEMMA StepDown ==
  ASSUME lake \in Trees, NEW d \in LakeDirs, NEW p \in LakePaths
  PROVE  /\ \A c \in Below(d) : /\ c \in LakeDirs /\ Under(c, d) /\ SubSeq(c, 1, Len(d)) = d
                                /\ Len(c) = Len(d) + 1
         /\ Under(p, d) => \/ p \in DOMAIN lake /\ FilesCall!Front(p) = d
                           \/ \E c \in Below(d) : Under(p, c)
         /\ \A b, c \in Below(d) : Within(p, b) /\ Within(p, c) => b = c
<1>1. PICK S : p \in Seq(S)
  BY PathFacts
<1>2. PICK n \in Nat, l \in Nat, r \in Nat : n = Len(d) /\ l = Len(p) /\ r = Len(Root) /\ r <= n
  <2>1. d \in LakePaths
    BY DEF LakePaths
  <2>2. QED
    BY <2>1, PathFacts DEF Within
<1>3. ASSUME NEW c \in Below(d)
      PROVE  /\ c \in LakeDirs /\ Under(c, d) /\ SubSeq(c, 1, Len(d)) = d /\ Len(c) = n + 1
  <2>1. FilesCall!Front(c) = d
    BY DEF Below, FilesCall!Children
  <2>2. SubSeq(c, 1, Len(c) - 1) = d
    BY <2>1 DEF FilesCall!Front
  <2>3. c \in LakeDirs /\ Len(c) = n + 1
    BY <1>2, BelowIsLonger
  <2>4. Len(c) - 1 = n /\ n < n + 1
    BY <1>2, <2>3
  <2>5. QED
    BY <1>2, <2>2, <2>3, <2>4 DEF Under
<1>4. ASSUME Under(p, d)
      PROVE  \/ p \in DOMAIN lake /\ FilesCall!Front(p) = d
             \/ \E c \in Below(d) : Under(p, c)
  <2>1. n < l /\ SubSeq(p, 1, n) = d
    BY <1>2, <1>4 DEF Under
  <2>2. p \in DOMAIN lake
    <3>1. p # Root
      BY <1>2, <2>1
    <3>2. QED
      BY <3>1 DEF LakePaths, LakeDirs
  <2>3. CASE n + 1 = l
    <3>1. l - 1 = n
      BY <2>3
    <3>2. FilesCall!Front(p) = d
      BY <1>2, <2>1, <3>1 DEF FilesCall!Front
    <3>3. QED
      BY <2>2, <3>2
  <2>4. CASE n + 1 # l
    <3>1. n + 1 \in Len(Root) .. Len(p) - 1 /\ n + 1 \in 0 .. Len(p) /\ n \in 0 .. n + 1
      BY <1>2, <2>1, <2>4
    <3>2. PICK c : c = SubSeq(p, 1, n + 1)
      OBVIOUS
    <3>3. c \in LakeDirs /\ Len(c) = n + 1 /\ Within(p, c)
      BY <3>1, <3>2, Ancestor
    <3>4. SubSeq(c, 1, n) = d
      BY <1>1, <2>1, <3>1, <3>2, CutFacts
    <3>5. c # Root
      BY <1>2, <3>3
    <3>6. c \in DOMAIN lake /\ lake[c] = "dir"
      BY <3>3, <3>5 DEF LakeDirs
    <3>7. (n + 1) - 1 = n
      BY <1>2
    <3>8. FilesCall!Front(c) = d
      BY <3>3, <3>4, <3>7 DEF FilesCall!Front
    <3>9. c \in Below(d)
      BY <3>6, <3>8 DEF Below, FilesCall!Children
    <3>10. n + 1 < l
      BY <1>2, <2>1, <2>4
    <3>11. Under(p, c)
      BY <1>2, <3>3, <3>10 DEF Within, Under
    <3>12. QED
      BY <3>9, <3>11
  <2>5. QED
    BY <2>3, <2>4
<1>5. ASSUME NEW b \in Below(d), NEW c \in Below(d), Within(p, b), Within(p, c) PROVE b = c
  <2>1. Len(b) = n + 1 /\ Len(c) = n + 1
    BY <1>3
  <2>2. QED
    BY <1>5, <2>1 DEF Within
<1>6. QED
  BY <1>2, <1>3, <1>4, <1>5

\* A path meets the rules, or has the partitions asked for.
Good(p)   == FilesCall!Matches(p, request.rules)
Wanted(p) == FilesCall!PathContains(p, request.filter)
\* All directories from d down to p meet the rules.
Reached(p, d) == \A i \in Len(d) .. Len(p) - 1 : Good(SubSeq(p, 1, i))
\* Something that can be reached from d is asked for.
Wish(p)  == /\ p \in LakeDirs \/ (p \in DOMAIN lake /\ lake[p] = "file")
            /\ Good(p) /\ Wanted(p)
Alive(d) == Good(d) /\ \E p \in LakePaths : Within(p, d) /\ Reached(p, d) /\ Wish(p)

\* A directory is dead if it is not alive.
LEMMA DeadIs ==
  ASSUME lake \in Trees
  PROVE  \A d : d \in FilesCall!Dead <=> (d \in LakeDirs /\ ~Alive(d))
<1> DEFINE reached(p, d) == \A i \in Len(d) .. Len(p) - 1 :
                              FilesCall!Matches(SubSeq(p, 1, i), request.rules)
           asked(p, d) == /\ p \in LakeDirs \/ lake[p] = "file"
                          /\ reached(p, d) /\ FilesCall!Matches(p, request.rules)
                          /\ FilesCall!PathContains(p, request.filter)
           reach(d) == {d} \cup {q \in DOMAIN lake : FilesCall!IsStrictPrefix(d, q)}
<1>1. FilesCall!Dead = {d \in LakeDirs : \/ ~FilesCall!Matches(d, request.rules)
                                         \/ \A p \in reach(d) : ~asked(p, d)}
  BY DEF FilesCall!Dead, LakeDirs
<1>2. ASSUME NEW d \in LakeDirs, NEW p
      PROVE  (p \in reach(d) /\ asked(p, d))
               <=> (p \in LakePaths /\ Within(p, d) /\ Reached(p, d) /\ Wish(p))
  <2>1. Reached(p, d) <=> reached(p, d)
    BY DEF Reached, Good
  <2>2. d \in LakePaths /\ Within(d, d)
    <3>1. d \in LakePaths
      BY DEF LakePaths
    <3>2. PICK S : d \in Seq(S)
      BY <3>1, PathFacts
    <3>3. SubSeq(d, 1, Len(d)) = d /\ Len(d) \in Nat
      BY <3>2
    <3>4. QED
      BY <3>1, <3>3 DEF Within
  <2>3. ASSUME p \in LakePaths, p # d PROVE p \in reach(d) <=> Within(p, d)
    <3>1. FilesCall!IsStrictPrefix(d, p) <=> Under(p, d)
      BY <2>2, <2>3, UnderIs
    <3>2. Within(p, d) => Under(p, d)
      BY <2>2, <2>3, WithinUnder
    <3>3. Len(p) \in Nat /\ Len(d) \in Nat
      BY <2>2, <2>3, PathFacts
    <3>4. Under(p, d) => Within(p, d) /\ p # Root
      <4>1. PICK m \in Nat, n \in Nat : m = Len(p) /\ n = Len(d) /\ Len(Root) <= n
        BY <2>2, <3>3, PathFacts DEF Within
      <4>2. QED
        BY <4>1 DEF Under, Within
    <3>5. p # Root => p \in DOMAIN lake
      BY <2>3 DEF LakePaths, LakeDirs
    <3>6. QED
      BY <2>3, <3>1, <3>2, <3>4, <3>5
  <2>4. p \in reach(d) => p \in LakePaths
    BY <2>2 DEF LakePaths
  <2>5. (p \in LakeDirs \/ lake[p] = "file") /\ p \in LakePaths
          <=> (p \in LakeDirs \/ (p \in DOMAIN lake /\ lake[p] = "file")) /\ p \in LakePaths
    BY DEF LakePaths
  <2>6. CASE p = d
    BY <2>1, <2>2, <2>6 DEF Wish, Good, Wanted
  <2>7. CASE p # d /\ p \in LakePaths
    <3> HIDE DEF reached, reach
    <3>1. QED
      BY <2>1, <2>3, <2>5, <2>7 DEF Wish, Good, Wanted
  <2>8. QED
    BY <2>4, <2>6, <2>7
<1>3. ASSUME NEW d \in LakeDirs PROVE (\E p \in reach(d) : asked(p, d))
        <=> (\E p \in LakePaths : Within(p, d) /\ Reached(p, d) /\ Wish(p))
  <2> HIDE DEF reach, asked
  <2>1. QED
    BY <1>2
<1>4. QED
  <2> HIDE DEF reach, asked
  <2>1. QED
    BY <1>1, <1>3 DEF Alive, Good

\* What can be reached from a directory, and from one in it.
LEMMA ReachedStep ==
  ASSUME lake \in Trees, NEW d \in LakeDirs, Good(d), NEW p \in LakePaths
  PROVE  /\ Reached(d, d)
         /\ p \in DOMAIN lake /\ FilesCall!Front(p) = d => Under(p, d) /\ Reached(p, d)
         /\ \A c \in Below(d) : Within(p, c) /\ Good(c) =>
              (Under(p, d) /\ (Reached(p, d) <=> Reached(p, c)))
<1>1. PICK n \in Nat, l \in Nat, r \in Nat :
        n = Len(d) /\ l = Len(p) /\ r = Len(Root) /\ SubSeq(d, 1, n) = d
  <2>1. d \in LakePaths
    BY DEF LakePaths
  <2>2. PICK S : d \in Seq(S)
    BY <2>1, PathFacts
  <2>3. SubSeq(d, 1, Len(d)) = d
    BY <2>2
  <2>4. QED
    BY <2>1, <2>3, PathFacts
<1>2. Reached(d, d)
  <2>1. Len(d) .. Len(d) - 1 = {}
    BY <1>1
  <2>2. QED
    BY <2>1 DEF Reached
<1>3. ASSUME p \in DOMAIN lake, FilesCall!Front(p) = d PROVE Under(p, d) /\ Reached(p, d)
  <2>1. SubSeq(p, 1, l - 1) = d
    BY <1>1, <1>3 DEF FilesCall!Front
  <2>2. Len(Front(p)) = l - 1 /\ Front(p) = SubSeq(p, 1, l - 1)
    BY <1>1, <1>3, LakeKinds DEF Front
  <2>3. n = l - 1
    BY <1>1, <2>1, <2>2
  <2>4. n < l /\ \A i \in n .. l - 1 : i = n
    BY <1>1, <2>3
  <2>5. SubSeq(p, 1, n) = d
    BY <2>1, <2>3
  <2>6. QED
    BY <1>1, <2>4, <2>5 DEF Under, Reached
<1>4. ASSUME NEW c \in Below(d), Within(p, c), Good(c)
      PROVE  Under(p, d) /\ (Reached(p, d) <=> Reached(p, c))
  <2>1. c \in LakeDirs /\ c \in LakePaths /\ d \in LakePaths /\ Under(c, d) /\ Len(c) = n + 1
    BY <1>1, StepDown DEF LakePaths
  <2>2. Under(p, d)
    BY <1>4, <2>1, WithinUnder
  <2>3. SubSeq(p, 1, n) = d
    BY <1>1, <2>2 DEF Under
  <2>4. \A i \in n .. l - 1 : i = n \/ i \in n + 1 .. l - 1
    BY <1>1
  <2>5. \A i \in n + 1 .. l - 1 : i \in n .. l - 1
    BY <1>1
  <2>6. Reached(p, c) <=> \A i \in n + 1 .. l - 1 : Good(SubSeq(p, 1, i))
    BY <1>1, <2>1 DEF Reached
  <2>7. Reached(p, d) <=> \A i \in n .. l - 1 : Good(SubSeq(p, 1, i))
    BY <1>1 DEF Reached
  <2>8. QED
    BY <2>2, <2>3, <2>4, <2>5, <2>6, <2>7
<1>5. QED
  BY <1>2, <1>3, <1>4

\* The files of a directory that are asked for.
FoundIn(d) == {f \in FilesCall!Children(d, "file") :
                 FilesCall!Matches(f, request.rules) /\ FilesCall!PathContains(f, request.filter)}

\* A directory is alive if it meets the rules and has what is asked for: its own
\* name, a file, or a directory that is alive.
LEMMA AliveStep ==
  ASSUME lake \in Trees, NEW d \in LakeDirs
  PROVE  Alive(d) <=> /\ Good(d)
                      /\ Wanted(d) \/ FoundIn(d) # {} \/ \E c \in Below(d) : Alive(c)
<1>1. d \in LakePaths /\ Within(d, d)
  <2>1. d \in LakePaths
    BY DEF LakePaths
  <2>2. PICK S : d \in Seq(S)
    BY <2>1, PathFacts
  <2>3. Len(d) \in Nat /\ SubSeq(d, 1, Len(d)) = d
    BY <2>2
  <2>4. QED
    BY <2>1, <2>3 DEF Within
<1>2. ASSUME Good(d), Wanted(d) PROVE Alive(d)
  <2>1. Reached(d, d)
    BY <1>1, <1>2, ReachedStep
  <2>2. QED
    BY <1>1, <1>2, <2>1 DEF Alive, Wish
<1>3. ASSUME Good(d), FoundIn(d) # {} PROVE Alive(d)
  <2>1. PICK f \in FoundIn(d) : TRUE
    BY <1>3
  <2>2. /\ f \in DOMAIN lake /\ FilesCall!Front(f) = d /\ lake[f] = "file"
        /\ Good(f) /\ Wanted(f) /\ f \in LakePaths
    BY <2>1 DEF FoundIn, FilesCall!Children, Good, Wanted, LakePaths
  <2>3. Under(f, d) /\ Reached(f, d)
    BY <1>3, <2>2, ReachedStep
  <2>4. Within(f, d)
    <3>1. Len(f) \in Nat /\ Len(d) \in Nat
      BY <1>1, <2>2, PathFacts
    <3>2. QED
      BY <2>3, <3>1 DEF Under, Within
  <2>5. QED
    BY <1>3, <2>2, <2>3, <2>4 DEF Alive, Wish
<1>4. ASSUME Good(d), NEW c \in Below(d), Alive(c) PROVE Alive(d)
  <2>1. PICK p \in LakePaths : Within(p, c) /\ Reached(p, c) /\ Wish(p)
    BY <1>4 DEF Alive
  <2>2. Under(p, d) /\ Reached(p, d)
    BY <1>4, <2>1, ReachedStep DEF Alive
  <2>3. Within(p, d)
    <3>1. Len(p) \in Nat /\ Len(d) \in Nat
      BY <1>1, <2>1, PathFacts
    <3>2. QED
      BY <2>2, <3>1 DEF Under, Within
  <2>4. QED
    BY <1>4, <2>1, <2>2, <2>3 DEF Alive
<1>5. ASSUME Alive(d)
      PROVE  Good(d) /\ (Wanted(d) \/ FoundIn(d) # {} \/ \E c \in Below(d) : Alive(c))
  <2>1. PICK p \in LakePaths : Within(p, d) /\ Reached(p, d) /\ Wish(p)
    BY <1>5 DEF Alive
  <2>2. Good(d)
    BY <1>5 DEF Alive
  <2>3. CASE p = d
    BY <2>1, <2>2, <2>3 DEF Wish
  <2>4. CASE p # d
    <3>1. Under(p, d)
      BY <1>1, <2>1, <2>4, WithinUnder
    <3>2. CASE \E c \in Below(d) : Under(p, c)
      <4>1. PICK c \in Below(d) : Under(p, c)
        BY <3>2
      <4>2. c \in LakePaths /\ Len(c) = Len(d) + 1
        BY StepDown DEF LakePaths
      <4>3. PICK m \in Nat, n \in Nat, l \in Nat : m = Len(c) /\ n = Len(d) /\ l = Len(p)
        BY <1>1, <4>2, PathFacts
      <4>4. Within(p, c) /\ m \in n .. l - 1 /\ SubSeq(p, 1, m) = c
        BY <4>1, <4>2, <4>3 DEF Under, Within
      <4>5. Good(c)
        BY <2>1, <4>3, <4>4 DEF Reached
      <4>6. Reached(p, c)
        BY <2>1, <2>2, <4>4, <4>5, ReachedStep
      <4>7. Alive(c)
        BY <2>1, <4>4, <4>5, <4>6 DEF Alive
      <4>8. QED
        BY <2>2, <4>7
    <3>3. CASE p \in DOMAIN lake /\ FilesCall!Front(p) = d
      <4>1. CASE lake[p] = "file"
        <5>1. p \in FoundIn(d)
          BY <2>1, <3>3, <4>1 DEF FoundIn, FilesCall!Children, Wish, Good, Wanted
        <5>2. QED
          BY <2>2, <5>1
      <4>2. CASE lake[p] # "file"
        <5>1. p \in LakeDirs
          BY <2>1, <4>2 DEF Wish
        <5>2. p # Root
          <6>1. PICK m \in Nat, n \in Nat : m = Len(p) /\ n = Len(d) /\ Len(Root) <= n
            BY <1>1, <2>1, PathFacts DEF Within
          <6>2. QED
            BY <3>1, <6>1 DEF Under
        <5>3. p \in Below(d)
          BY <3>3, <5>1, <5>2 DEF LakeDirs, Below, FilesCall!Children
        <5>4. Within(p, p) /\ Reached(p, p)
          <6>1. PICK S : p \in Seq(S)
            BY PathFacts
          <6>2. Len(p) \in Nat /\ SubSeq(p, 1, Len(p)) = p
            BY <6>1
          <6>3. QED
            BY <2>1, <5>1, <6>2, ReachedStep DEF Wish, Within
        <5>5. Alive(p)
          BY <2>1, <5>4 DEF Alive, Wish
        <5>6. QED
          BY <2>2, <5>3, <5>5
      <4>3. QED
        BY <4>1, <4>2
    <3>4. QED
      BY <3>1, <3>2, <3>3, StepDown
  <2>5. QED
    BY <2>3, <2>4
<1>6. QED
  BY <1>2, <1>3, <1>4, <1>5

\* What walk_and_prune returns for a directory, field by field.
KeptDir(d, walk) == Good(d) /\ (Wanted(d) \/ FoundIn(d) # {} \/ \E c \in Below(d) : walk[c].any)
FilesBelow(d, walk) ==
  FoundIn(d) \cup UNION {walk[c].files : c \in {b \in Below(d) : walk[b].any}}

\* They are what Found makes of the results below it.
LEMMA WalkIs ==
  ASSUME lake \in Trees, NEW walk, Walks(walk, LakeDirs), NEW d \in LakeDirs
  PROVE  /\ ~KeptDir(d, walk) => walk[d] = FilesCall!Pruned
         /\ KeptDir(d, walk) =>
              /\ walk[d].any = TRUE /\ walk[d].files = FilesBelow(d, walk)
              /\ walk[d].pruned = SumFunctionOnSet([c \in Below(d) |-> walk[c].pruned], Below(d))
<1>1. PICK below : below = [c \in Below(d) |-> walk[c]]
  OBVIOUS
<1>2. DOMAIN below = Below(d) /\ \A c \in Below(d) : below[c] = walk[c]
  BY <1>1
<1>3. walk[d] = IF ~Good(d) THEN FilesCall!Pruned
                ELSE FilesCall!Found(d, FoundIn(d), below)
  BY <1>1 DEF Walks, WalkStep, Good, FoundIn
<1>4. PICK files : files = FoundIn(d) \cup UNION {w.files : w \in {v \in FilesCall!Range(below) : v.any}}
  OBVIOUS
<1>5. PICK n : n = FilesCall!SumFunction([c \in DOMAIN below |-> below[c].pruned])
  OBVIOUS
<1>6. PICK any : any = (FoundIn(d) # {} \/ \E c \in DOMAIN below : below[c].any)
  OBVIOUS
<1>7. FilesCall!Found(d, FoundIn(d), below)
        = IF ~Wanted(d) /\ ~any
            THEN FilesCall!Pruned ELSE [files |-> files, any |-> TRUE, pruned |-> n]
  BY <1>4, <1>5, <1>6 DEF FilesCall!Found, Wanted
<1>8. any <=> (FoundIn(d) # {} \/ \E c \in Below(d) : walk[c].any)
  BY <1>2, <1>6
<1>9. files = FilesBelow(d, walk)
  <2>1. {w.files : w \in {v \in FilesCall!Range(below) : v.any}}
          = {walk[c].files : c \in {b \in Below(d) : walk[b].any}}
    BY <1>2 DEF FilesCall!Range
  <2>2. QED
    BY <1>4, <2>1 DEF FilesBelow
<1>10. n = SumFunctionOnSet([c \in Below(d) |-> walk[c].pruned], Below(d))
  <2>1. [c \in DOMAIN below |-> below[c].pruned] = [c \in Below(d) |-> walk[c].pruned]
    BY <1>2
  <2>2. PICK f : f = [c \in Below(d) |-> walk[c].pruned]
    OBVIOUS
  <2>3. DOMAIN f = Below(d)
    BY <2>2
  <2>4. n = SumFunctionOnSet(f, DOMAIN f)
    BY <1>5, <2>1, <2>2, FilesSums
  <2>5. QED
    BY <2>2, <2>3, <2>4
<1>11. ~KeptDir(d, walk) => walk[d] = FilesCall!Pruned
  BY <1>3, <1>7, <1>8 DEF KeptDir
<1>12. KeptDir(d, walk) => walk[d] = [files |-> files, any |-> TRUE, pruned |-> n]
  BY <1>3, <1>7, <1>8 DEF KeptDir
<1>13. QED
  BY <1>9, <1>10, <1>11, <1>12

\* A directory is kept if it is alive.
LEMMA WalkAlive ==
  ASSUME lake \in Trees, NEW walk, Walks(walk, LakeDirs)
  PROVE  \A d \in LakeDirs : (walk[d].any <=> Alive(d)) /\ (KeptDir(d, walk) <=> Alive(d))
<1> DEFINE D == {d \in LakeDirs : ~(walk[d].any <=> Alive(d))}
<1>1. ASSUME NEW d \in LakeDirs PROVE walk[d].any <=> KeptDir(d, walk)
  <2>1. ~FilesCall!Pruned.any
    BY DEF FilesCall!Pruned
  <2>2. CASE KeptDir(d, walk)
    BY <2>2, WalkIs
  <2>3. CASE ~KeptDir(d, walk)
    <3>1. walk[d] = FilesCall!Pruned
      BY <2>3, WalkIs
    <3>2. QED
      BY <2>1, <2>3, <3>1
  <2>4. QED
    BY <2>2, <2>3
<1>2. D = {}
  <2>1. SUFFICES ASSUME D # {} PROVE FALSE
    OBVIOUS
  <2>2. PICK d \in D : \A c \in Below(d) : c \notin D
    <3>1. D \subseteq LakeDirs
      OBVIOUS
    <3> HIDE DEF D
    <3>2. QED
      BY <2>1, <3>1, Deepest
  <2>3. d \in LakeDirs /\ \A c \in Below(d) : walk[c].any <=> Alive(c)
    BY <2>2, BelowIsLonger
  <2>4. KeptDir(d, walk) <=> Alive(d)
    BY <2>3, AliveStep DEF KeptDir
  <2>5. QED
    BY <1>1, <2>2, <2>3, <2>4
<1>3. QED
  BY <1>1, <1>2

\* A file that is asked for and that the walk can reach.
AskedBelow(f, d) == /\ f \in DOMAIN lake /\ lake[f] = "file" /\ Good(f) /\ Wanted(f)
               /\ Under(f, d) /\ Reached(f, d)

\* The files below a directory that can be reached: its own, and those of its directories.
LEMMA AskedStep ==
  ASSUME lake \in Trees, NEW d \in LakeDirs, Good(d), NEW f
  PROVE  AskedBelow(f, d) <=> f \in FoundIn(d) \/ \E c \in Below(d) : AskedBelow(f, c)
<1>1. ASSUME f \in FoundIn(d) PROVE AskedBelow(f, d)
  <2>1. /\ f \in DOMAIN lake /\ FilesCall!Front(f) = d /\ lake[f] = "file"
        /\ Good(f) /\ Wanted(f) /\ f \in LakePaths
    BY <1>1 DEF FoundIn, FilesCall!Children, Good, Wanted, LakePaths
  <2>2. QED
    BY <2>1, ReachedStep DEF AskedBelow
<1>2. ASSUME NEW c \in Below(d), AskedBelow(f, c) PROVE AskedBelow(f, d)
  <2>1. f \in LakePaths /\ c \in LakeDirs /\ c \in LakePaths /\ f \in DOMAIN lake
    BY <1>2, BelowIsLonger DEF AskedBelow, LakePaths
  <2>2. Within(f, c) /\ SubSeq(f, 1, Len(c)) = c /\ Len(c) \in Len(c) .. Len(f) - 1
    <3>1. Len(f) \in Nat /\ Len(c) \in Nat
      BY <2>1, PathFacts
    <3>2. QED
      BY <1>2, <3>1 DEF AskedBelow, Under, Within
  <2>3. Good(c)
    BY <1>2, <2>2 DEF AskedBelow, Reached
  <2>4. Under(f, d) /\ Reached(f, d)
    BY <1>2, <2>1, <2>2, <2>3, ReachedStep DEF AskedBelow
  <2>5. QED
    BY <1>2, <2>4 DEF AskedBelow
<1>3. ASSUME AskedBelow(f, d), f \notin FoundIn(d) PROVE \E c \in Below(d) : AskedBelow(f, c)
  <2>1. f \in LakePaths /\ Under(f, d)
    BY <1>3 DEF AskedBelow, LakePaths
  <2>2. ~(f \in DOMAIN lake /\ FilesCall!Front(f) = d)
    BY <1>3 DEF AskedBelow, FoundIn, FilesCall!Children, Good, Wanted
  <2>3. PICK c \in Below(d) : Under(f, c)
    BY <2>1, <2>2, StepDown
  <2>4. c \in LakePaths /\ Len(c) = Len(d) + 1 /\ d \in LakePaths
    BY StepDown DEF LakePaths
  <2>5. PICK m \in Nat, n \in Nat, l \in Nat : m = Len(c) /\ n = Len(d) /\ l = Len(f)
    BY <2>1, <2>4, PathFacts
  <2>6. Within(f, c) /\ m \in n .. l - 1 /\ SubSeq(f, 1, m) = c
    BY <2>3, <2>4, <2>5 DEF Under, Within
  <2>7. Good(c)
    BY <1>3, <2>5, <2>6 DEF AskedBelow, Reached
  <2>8. Reached(f, c)
    BY <1>3, <2>1, <2>6, <2>7, ReachedStep DEF AskedBelow
  <2>9. QED
    BY <1>3, <2>3, <2>8 DEF AskedBelow
<1>4. QED
  BY <1>1, <1>2, <1>3

\* A directory below which a file is asked for is alive.
LEMMA AskedAlive ==
  ASSUME lake \in Trees, NEW d \in LakeDirs, NEW f, AskedBelow(f, d)
  PROVE  Alive(d)
<1>1. f \in LakePaths /\ d \in LakePaths
  BY DEF AskedBelow, LakePaths
<1>2. Len(f) \in Nat /\ Len(d) \in Nat
  BY <1>1, PathFacts
<1>3. Within(f, d) /\ SubSeq(f, 1, Len(d)) = d /\ Len(d) \in Len(d) .. Len(f) - 1
  BY <1>2 DEF AskedBelow, Under, Within
<1>4. Good(d)
  BY <1>3 DEF AskedBelow, Reached
<1>5. QED
  BY <1>1, <1>3, <1>4 DEF Alive, AskedBelow, Wish

\* The walk finds the files that are asked for and can be reached.
LEMMA WalkFiles ==
  ASSUME lake \in Trees, NEW walk, Walks(walk, LakeDirs)
  PROVE  \A d \in LakeDirs : \A f : f \in walk[d].files <=> AskedBelow(f, d)
<1> DEFINE D == {d \in LakeDirs : ~\A f : f \in walk[d].files <=> AskedBelow(f, d)}
<1>1. SUFFICES ASSUME D # {} PROVE FALSE
  OBVIOUS
<1>2. PICK d \in D : \A c \in Below(d) : c \notin D
  <2>1. D \subseteq LakeDirs
    OBVIOUS
  <2> HIDE DEF D
  <2>2. QED
    BY <1>1, <2>1, Deepest
<1>3. d \in LakeDirs /\ \A c \in Below(d) : \A f : f \in walk[c].files <=> AskedBelow(f, c)
  BY <1>2, BelowIsLonger
<1>4. ASSUME NEW f PROVE f \in walk[d].files <=> AskedBelow(f, d)
  <2>1. CASE ~Alive(d)
    <3>1. walk[d] = FilesCall!Pruned
      BY <1>3, <2>1, WalkIs, WalkAlive
    <3>2. f \notin walk[d].files
      BY <3>1 DEF FilesCall!Pruned
    <3>3. QED
      BY <1>3, <2>1, <3>2, AskedAlive
  <2>2. CASE Alive(d)
    <3>1. walk[d].files = FilesBelow(d, walk)
      BY <1>3, <2>2, WalkIs, WalkAlive
    <3>2. f \in FilesBelow(d, walk)
            <=> (f \in FoundIn(d) \/ \E c \in Below(d) : walk[c].any /\ f \in walk[c].files)
      BY DEF FilesBelow
    <3>3. \A c \in Below(d) : (walk[c].any /\ f \in walk[c].files) <=> AskedBelow(f, c)
      BY <1>3, BelowIsLonger, WalkAlive, AskedAlive
    <3>4. AskedBelow(f, d) <=> (f \in FoundIn(d) \/ \E c \in Below(d) : AskedBelow(f, c))
      BY <1>3, <2>2, AskedStep DEF Alive
    <3>5. QED
      BY <3>1, <3>2, <3>3, <3>4
  <2>3. QED
    BY <2>1, <2>2
<1>5. QED
  BY <1>2, <1>4

\* The topmost dead directories in or below d.
Dead(d)     == d \in LakeDirs /\ ~Alive(d)
DeadRoots(d) == {e \in LakeDirs : /\ Dead(e) /\ Within(e, d)
                                  /\ \A g \in LakeDirs : Dead(g) /\ Within(g, d) => ~Under(e, g)}

\* One path of the lake is in or below another.
LEMMA WithinIs ==
  ASSUME lake \in Trees, NEW p \in LakePaths, NEW d \in LakePaths
  PROVE  /\ Len(p) \in Nat /\ Len(d) \in Nat
         /\ Within(p, p) /\ ~Under(p, p)
         /\ Under(p, d) => Within(p, d)
         /\ Within(p, d) => ~Under(d, p)
<1>1. PICK S : p \in Seq(S)
  BY PathFacts
<1>2. Len(p) \in Nat /\ SubSeq(p, 1, Len(p)) = p
  BY <1>1
<1>3. Len(d) \in Nat
  BY PathFacts
<1>4. Within(p, p) /\ ~Under(p, p)
  BY <1>2 DEF Within, Under
<1>5. Under(p, d) => Within(p, d)
  BY <1>2, <1>3 DEF Within, Under
<1>6. Within(p, d) => ~Under(d, p)
  BY <1>2, <1>3 DEF Within, Under
<1>7. QED
  BY <1>2, <1>3, <1>4, <1>5, <1>6

\* Below a dead directory it is the topmost.
LEMMA DeadIsRoot ==
  ASSUME lake \in Trees, NEW d \in LakeDirs, ~Alive(d)
  PROVE  DeadRoots(d) = {d}
<1>1. \A e \in LakeDirs : e \in LakePaths
  BY DEF LakePaths
<1>2. d \in DeadRoots(d)
  <2>1. \A g \in LakeDirs : Within(g, d) => ~Under(d, g)
    BY <1>1, WithinIs
  <2>2. QED
    BY <1>1, <2>1, WithinIs DEF DeadRoots, Dead
<1>3. ASSUME NEW e \in DeadRoots(d) PROVE e = d
  <2>1. e \in LakeDirs /\ Within(e, d) /\ (Dead(d) /\ Within(d, d) => ~Under(e, d))
    BY <1>3 DEF DeadRoots
  <2>2. Dead(d) /\ Within(d, d)
    BY <1>1, WithinIs DEF Dead
  <2>3. QED
    BY <1>1, <2>1, <2>2, WithinUnder
<1>4. QED
  BY <1>2, <1>3

\* Below a directory that is alive they are those of its directories.
LEMMA DeadRootsStep ==
  ASSUME lake \in Trees, NEW d \in LakeDirs, Alive(d), NEW e
  PROVE  e \in DeadRoots(d) <=> \E c \in Below(d) : e \in DeadRoots(c)
<1>1. \A p \in LakeDirs : p \in LakePaths
  BY DEF LakePaths
<1>2. \A c \in Below(d) : c \in LakeDirs /\ c \in LakePaths /\ Under(c, d) /\ Within(c, d)
  BY <1>1, StepDown, WithinIs
<1>3. ASSUME NEW g \in LakeDirs, Dead(g), Within(g, d)
      PROVE  \E c \in Below(d) : Within(g, c)
  <2>1. g # d
    BY <1>3 DEF Dead
  <2>2. Under(g, d)
    BY <1>1, <1>3, <2>1, WithinUnder
  <2>3. CASE \E c \in Below(d) : Under(g, c)
    BY <1>1, <1>2, <2>3, WithinIs
  <2>4. CASE g \in DOMAIN lake /\ FilesCall!Front(g) = d
    <3>1. g # Root
      <4>1. Within(d, Root)
        BY <1>1, PathFacts
      <4>2. Root \in LakePaths /\ ~Under(Root, d)
        BY <1>1, <4>1, WithinIs DEF LakeDirs
      <4>3. QED
        BY <2>2, <4>2
    <3>2. g \in Below(d)
      BY <1>3, <2>4, <3>1 DEF Below, FilesCall!Children, LakeDirs
    <3>3. QED
      BY <1>1, <3>2, WithinIs
  <2>5. QED
    BY <1>1, <2>2, <2>3, <2>4, StepDown
<1>4. ASSUME e \in DeadRoots(d) PROVE \E c \in Below(d) : e \in DeadRoots(c)
  <2>1. /\ e \in LakeDirs /\ Dead(e) /\ Within(e, d)
        /\ \A g \in LakeDirs : Dead(g) /\ Within(g, d) => ~Under(e, g)
    BY <1>4 DEF DeadRoots
  <2>2. PICK c \in Below(d) : Within(e, c)
    BY <1>3, <2>1
  <2>3. \A g \in LakeDirs : Within(g, c) => Within(g, d)
    BY <1>1, <1>2, WithinUnder
  <2>4. e \in DeadRoots(c)
    BY <2>1, <2>2, <2>3 DEF DeadRoots
  <2>5. QED
    BY <2>4
<1>5. ASSUME NEW c \in Below(d), e \in DeadRoots(c) PROVE e \in DeadRoots(d)
  <2>1. /\ e \in LakeDirs /\ Dead(e) /\ Within(e, c)
        /\ \A g \in LakeDirs : Dead(g) /\ Within(g, c) => ~Under(e, g)
    BY <1>5 DEF DeadRoots
  <2>2. Within(e, d)
    BY <1>1, <1>2, <2>1, WithinUnder
  <2>3. ASSUME NEW g \in LakeDirs, Dead(g), Within(g, d), Under(e, g) PROVE FALSE
    <3>1. PICK b \in Below(d) : Within(g, b)
      BY <1>3, <2>3
    <3>2. Within(e, g)
      BY <1>1, <2>1, <2>3, WithinIs
    <3>3. Within(e, b)
      BY <1>1, <1>2, <2>1, <3>1, <3>2, WithinUnder
    <3>4. b = c
      BY <1>1, <2>1, <3>3, StepDown
    <3>5. QED
      BY <2>1, <2>3, <3>1, <3>4
  <2>4. QED
    BY <2>1, <2>2, <2>3 DEF DeadRoots
<1>6. QED
  BY <1>4, <1>5

\* walk_and_prune counts them.
LEMMA WalkCounts ==
  ASSUME lake \in Trees, NEW walk, Walks(walk, LakeDirs)
  PROVE  \A d \in LakeDirs : walk[d].pruned = Cardinality(DeadRoots(d))
<1> DEFINE D == {d \in LakeDirs : walk[d].pruned # Cardinality(DeadRoots(d))}
<1>1. SUFFICES ASSUME D # {} PROVE FALSE
  OBVIOUS
<1>2. PICK d \in D : \A c \in Below(d) : c \notin D
  <2>1. D \subseteq LakeDirs
    OBVIOUS
  <2> HIDE DEF D
  <2>2. QED
    BY <1>1, <2>1, Deepest
<1>3. d \in LakeDirs /\ \A c \in Below(d) : walk[c].pruned = Cardinality(DeadRoots(c))
  BY <1>2, BelowIsLonger
<1>4. CASE ~Alive(d)
  <2>1. walk[d] = FilesCall!Pruned
    BY <1>3, <1>4, WalkIs, WalkAlive
  <2>2. walk[d].pruned = 1
    BY <2>1 DEF FilesCall!Pruned
  <2>3. Cardinality(DeadRoots(d)) = 1
    BY <1>3, <1>4, DeadIsRoot, FS_Singleton
  <2>4. QED
    BY <1>2, <2>2, <2>3
<1>5. CASE Alive(d)
  <2>1. PICK size : size = [c \in Below(d) |-> walk[c].pruned]
    OBVIOUS
  <2>2. PICK fam : fam = [c \in Below(d) |-> DeadRoots(c)]
    OBVIOUS
  <2>3. walk[d].pruned = SumFunctionOnSet(size, Below(d))
    BY <1>3, <1>5, <2>1, WalkIs, WalkAlive
  <2>4. IsFiniteSet(Below(d))
    <3>1. Below(d) \in SUBSET LakeDirs /\ IsFiniteSet(LakeDirs)
      BY <1>3, BelowIsLonger, LakeDirsFinite
    <3>2. QED
      BY <3>1, FS_Subset
  <2>5. ASSUME NEW c \in Below(d)
        PROVE  IsFiniteSet(fam[c]) /\ size[c] = Cardinality(fam[c])
    <3>1. DeadRoots(c) \in SUBSET LakeDirs /\ IsFiniteSet(LakeDirs)
      BY LakeDirsFinite DEF DeadRoots
    <3>2. IsFiniteSet(DeadRoots(c))
      BY <3>1, FS_Subset
    <3>3. QED
      BY <1>3, <2>1, <2>2, <3>2
  <2>6. ASSUME NEW b \in Below(d), NEW c \in Below(d), NEW x, x \in fam[b], x \in fam[c]
        PROVE  b = c
    <3>1. x \in LakeDirs /\ Within(x, b) /\ Within(x, c)
      BY <2>2, <2>6 DEF DeadRoots
    <3>2. QED
      BY <1>3, <3>1, StepDown DEF LakePaths
  <2>7. Cardinality(Together(fam, Below(d))) = SumFunctionOnSet(size, Below(d))
    BY <2>4, <2>5, <2>6, UnionCount
  <2>8. Together(fam, Below(d)) = DeadRoots(d)
    <3>1. \A x : x \in Together(fam, Below(d)) <=> \E c \in Below(d) : x \in fam[c]
      BY TogetherIs
    <3>2. \A x : x \in DeadRoots(d) <=> \E c \in Below(d) : x \in DeadRoots(c)
      BY <1>3, <1>5, DeadRootsStep
    <3>3. QED
      BY <2>2, <3>1, <3>2
  <2>9. QED
    BY <1>2, <2>3, <2>7, <2>8
<1>6. QED
  BY <1>4, <1>5

\* A set of numbers up to n that is not empty has a greatest one.
LEMMA MaxIn ==
  ASSUME NEW n \in Nat, NEW S, \A x \in S : x \in 1 .. n, S # {}
  PROVE  FilesCall!Max(S) \in S
<1> DEFINE T == {n - x : x \in S}
<1>1. PICK t \in T : \A u \in T : t <= u
  <2>1. T \subseteq Nat /\ T # {}
    OBVIOUS
  <2> HIDE DEF T
  <2>2. QED
    BY <2>1, LeastExists
<1>2. PICK x \in S : t = n - x
  OBVIOUS
<1>3. \A y \in S : x >= y
  <2>1. SUFFICES ASSUME NEW y \in S PROVE x >= y
    OBVIOUS
  <2>2. n - y \in T
    OBVIOUS
  <2>3. t <= n - y
    BY <1>1, <2>2
  <2>4. QED
    BY <1>2, <2>3
<1>4. QED
  BY <1>2, <1>3 DEF FilesCall!Max

\* A file that meets the rules below a directory that does not has a key twice.
LEMMA RepeatedKey ==
  ASSUME lake \in Trees, NEW f \in LakePaths, NEW n \in Len(Root) .. Len(f) - 1,
         Good(f), ~Good(SubSeq(f, 1, n))
  PROVE  FilesCall!Repeats(f)
<1>1. PICK S : f \in Seq(S)
  BY PathFacts
<1>2. PICK l \in Nat : l = Len(f) /\ DOMAIN f = 1 .. l /\ n \in 0 .. l
  <2>1. Len(Root) \in Nat
    BY PathFacts
  <2>2. PICK l \in Nat : l = Len(f)
    BY <1>1
  <2>3. DOMAIN f = 1 .. l
    BY <1>1, <2>2
  <2>4. n \in 0 .. l
    BY <2>1, <2>2
  <2>5. QED
    BY <2>2, <2>3, <2>4
<1>3. PICK d : d = SubSeq(f, 1, n)
  OBVIOUS
<1>4. d \in Seq(S) /\ Len(d) = n /\ \A i \in 1 .. n : d[i] = f[i]
  BY <1>1, <1>2, <1>3, CutFacts
<1>5. DOMAIN d = 1 .. n
  BY <1>4
<1>6. PICK r \in request.rules :
        /\ r.column \in DOMAIN FilesCall!PathPartitions(d)
        /\ ~FilesCall!Compared(FilesCall!PathPartitions(d)[r.column], r.op, r.value)
  BY <1>3 DEF Good, FilesCall!Matches
<1>7. PICK k : k = r.column
  OBVIOUS
<1> DEFINE places(p) == {i \in DOMAIN p : p[i].key = k}
           keys(p) == {p[i].key : i \in DOMAIN p} \ {NoKey}
<1>8. /\ DOMAIN FilesCall!PathPartitions(d) = keys(d)
      /\ DOMAIN FilesCall!PathPartitions(f) = keys(f)
      /\ k \in keys(d) => FilesCall!PathPartitions(d)[k] = d[FilesCall!Max(places(d))].value
      /\ k \in keys(f) => FilesCall!PathPartitions(f)[k] = f[FilesCall!Max(places(f))].value
  BY DEF FilesCall!PathPartitions
<1>9. k \in keys(d)
  BY <1>6, <1>7, <1>8
<1>10. k # NoKey /\ places(d) # {}
  BY <1>9
<1>11. PICK i \in 1 .. n : i = FilesCall!Max(places(d)) /\ d[i].key = k
  <2>1. \A x \in places(d) : x \in 1 .. n
    BY <1>5
  <2>2. PICK P : P = places(d)
    OBVIOUS
  <2>3. n \in Nat /\ P # {} /\ \A x \in P : x \in 1 .. n
    BY <1>2, <1>10, <2>1, <2>2
  <2>4. FilesCall!Max(P) \in P
    BY <2>3, MaxIn
  <2>5. QED
    BY <1>5, <2>2, <2>4
<1>12. i \in DOMAIN f /\ f[i] = d[i] /\ k \in keys(f) /\ places(f) # {}
  <2>1. i \in DOMAIN f /\ f[i] = d[i]
    BY <1>2, <1>4, <1>11
  <2>2. QED
    BY <1>10, <1>11, <2>1
<1>13. PICK j \in DOMAIN f : j = FilesCall!Max(places(f)) /\ f[j].key = k
  <2>1. \A x \in places(f) : x \in 1 .. l
    BY <1>2
  <2>2. PICK P : P = places(f)
    OBVIOUS
  <2>3. l \in Nat /\ P # {} /\ \A x \in P : x \in 1 .. l
    BY <1>2, <1>12, <2>1, <2>2
  <2>4. FilesCall!Max(P) \in P
    BY <2>3, MaxIn
  <2>5. QED
    BY <2>2, <2>4
<1>14. FilesCall!Compared(f[j].value, r.op, r.value)
  <2>1. r.column \in DOMAIN FilesCall!PathPartitions(f)
    BY <1>7, <1>8, <1>12
  <2>2. FilesCall!Compared(FilesCall!PathPartitions(f)[r.column], r.op, r.value)
    BY <2>1 DEF Good, FilesCall!Matches
  <2>3. FilesCall!PathPartitions(f)[r.column] = f[j].value
    BY <1>7, <1>8, <1>12, <1>13
  <2>4. QED
    BY <2>2, <2>3
<1>15. ~FilesCall!Compared(f[i].value, r.op, r.value)
  <2>1. FilesCall!PathPartitions(d)[r.column] = f[i].value
    BY <1>7, <1>8, <1>9, <1>11, <1>12
  <2>2. QED
    BY <1>6, <2>1
<1>16. i # j
  BY <1>14, <1>15
<1>17. QED
  BY <1>10, <1>11, <1>12, <1>13, <1>16 DEF FilesCall!Repeats

\* What the call has found, if it walked: the files that are asked for and can be
\* reached, and the topmost dead directories.
WalkFound ==
  /\ \A f : f \in chosen <=> AskedBelow(f, Root)
  /\ pruned = Cardinality(DeadRoots(Root))
PruneInv == call = "files" =>
  /\ status = "called" => chosen = {}
  /\ FilesCall!Walked => WalkFound

\* What there is to find is a matter of the lake and the request.
LEMMA SameLake ==
  ASSUME lake' = lake, request' = request
  PROVE  /\ \A f : AskedBelow(f, Root)' <=> AskedBelow(f, Root)
         /\ DeadRoots(Root)' = DeadRoots(Root)
<1>1. LakeDirs' = LakeDirs
  BY DEF LakeDirs
<1>2. LakePaths' = LakePaths
  BY <1>1 DEF LakePaths
<1>3. \A p : (Good(p)' <=> Good(p)) /\ (Wanted(p)' <=> Wanted(p))
  BY DEF Good, Wanted, FilesCall!Matches, FilesCall!PathContains
<1>4. \A p, d : Reached(p, d)' <=> Reached(p, d)
  BY <1>3 DEF Reached
<1>5. \A p : Wish(p)' <=> Wish(p)
  BY <1>1, <1>3 DEF Wish
<1>6. \A d : Alive(d)' <=> Alive(d)
  BY <1>2, <1>3, <1>4, <1>5 DEF Alive
<1>7. \A d : Dead(d)' <=> Dead(d)
  BY <1>1, <1>6 DEF Dead
<1>8. DeadRoots(Root)' = DeadRoots(Root)
  BY <1>1, <1>7 DEF DeadRoots
<1>9. \A f : AskedBelow(f, Root)' <=> AskedBelow(f, Root)
  BY <1>3, <1>4 DEF AskedBelow
<1>10. QED
  BY <1>8, <1>9

\* A walk finds just that.
LEMMA WalkFinds ==
  ASSUME lake \in Trees, FilesCall!CollectTargetFiles, request.target = "dir"
  PROVE  WalkFound'
<1>1. PICK found \in
        CASE request.target = "dir"  -> {FilesCall!WalkAndPrune}
          [] request.target = "file" ->
               {[files |-> {f}, pruned |-> 0] :
                  f \in {p \in DOMAIN lake : lake[p] \in {"file", "other"}}}
          [] request.target = "glob" ->
               {[files |-> {p \in DOMAIN lake : lake[p] \in {"file", "other"}},
                 pruned |-> 0]} :
          chosen' = found.files /\ pruned' = found.pruned
  BY DEF FilesCall!CollectTargetFiles
<1>2. PICK walk : Walks(walk, LakeDirs) /\ FilesCall!WalkAndPrune = walk[Root]
  BY WalkIsOne
<1>3. chosen' = walk[Root].files /\ pruned' = walk[Root].pruned
  BY <1>1, <1>2
<1>4. lake' = lake /\ request' = request
  BY DEF FilesCall!CollectTargetFiles
<1>5. Root \in LakeDirs
  BY DEF LakeDirs
<1>6. \A f : f \in chosen' <=> AskedBelow(f, Root)
  BY <1>2, <1>3, <1>5, WalkFiles
<1>7. pruned' = Cardinality(DeadRoots(Root))
  BY <1>2, <1>3, <1>5, WalkCounts
<1>8. /\ \A f : AskedBelow(f, Root)' <=> AskedBelow(f, Root)
      /\ DeadRoots(Root)' = DeadRoots(Root)
  BY <1>4, SameLake
<1>9. pruned' = Cardinality(DeadRoots(Root)')
  BY <1>7, <1>8
<1>10. QED
  BY <1>6, <1>8, <1>9 DEF WalkFound

\* What leaves the call's findings alone keeps them.
LEMMA FoundKept ==
  ASSUME PruneInv, call = "files", call' = call,
         lake' = lake, request' = request, chosen' = chosen, pruned' = pruned,
         status' # "called", FilesCall!Walked' => FilesCall!Walked
  PROVE  PruneInv'
<1>1. ASSUME FilesCall!Walked' PROVE WalkFound'
  <2>1. WalkFound
    BY <1>1 DEF PruneInv
  <2>2. /\ \A f : AskedBelow(f, Root)' <=> AskedBelow(f, Root)
        /\ DeadRoots(Root)' = DeadRoots(Root)
    BY SameLake
  <2>3. pruned' = Cardinality(DeadRoots(Root)')
    BY <2>1, <2>2 DEF WalkFound
  <2>4. \A f : f \in chosen' <=> AskedBelow(f, Root)'
    BY <2>1, <2>2 DEF WalkFound
  <2>5. QED
    BY <2>3, <2>4 DEF WalkFound
<1>2. QED
  BY <1>1 DEF PruneInv

\* Only collect_target_files finds anything.
LEMMA PruneStep ==
  ASSUME FilesInv, PruneInv, call = "files", call' = call, FilesCall!Next
  PROVE  PruneInv'
<1>1. lake \in Trees /\ request.target \in {"dir", "file", "glob"}
  BY DEF FilesInv, FilesCall!TypeOK
<1>2. CASE FilesCall!CollectTargetFiles
  <2>1. request' = request /\ status' # "called"
    BY <1>2 DEF FilesCall!CollectTargetFiles
  <2>2. FilesCall!Walked' => request.target = "dir"
    BY <2>1 DEF FilesCall!Walked
  <2>3. QED
    BY <1>1, <1>2, <2>1, <2>2, WalkFinds DEF PruneInv
<1>3. CASE FilesCall!CollectFails
  <2>1. chosen' = {} /\ status' = "failed"
    BY <1>3 DEF FilesCall!CollectFails, PruneInv
  <2>2. QED
    BY <2>1 DEF PruneInv, FilesCall!Walked
<1>4. CASE \/ FilesCall!ReturnSummary \/ FilesCall!ReturnError
           \/ \E f \in chosen : \/ FilesCall!OpenSource(f) \/ FilesCall!CountBatch(f)
                                \/ FilesCall!EndOfFile(f) \/ FilesCall!FileFails(f)
  <2>1. /\ status = "counting" /\ status' # "called"
        /\ lake' = lake /\ request' = request /\ chosen' = chosen /\ pruned' = pruned
    BY <1>4 DEF FilesCall!ReturnSummary, FilesCall!ReturnError, FilesCall!OpenSource,
                FilesCall!CountBatch, FilesCall!EndOfFile, FilesCall!FileFails, FilesCall!At
  <2>2. FilesCall!Walked' => FilesCall!Walked
    BY <2>1 DEF FilesCall!Walked
  <2>3. QED
    BY <2>1, <2>2, FoundKept
<1>5. QED
  BY <1>2, <1>3, <1>4 DEF FilesCall!Next

\* The findings are always those.
LEMMA PruneInvariant == AuditSpec => []PruneInv
<1>1. AuditInit => PruneInv
  BY DEF AuditInit, FilesCall!Init, PruneInv, FilesCall!Walked
<1>2. FilesInv /\ PruneInv /\ [AuditNext]_allVars => PruneInv'
  <2> SUFFICES ASSUME FilesInv, PruneInv, [AuditNext]_allVars, call' = "files" PROVE PruneInv'
    BY DEF PruneInv
  <2>1. CASE call = "files" /\ call' = call /\ FilesCall!Next
    BY <2>1, PruneStep
  <2>2. CASE UNCHANGED allVars
    <3>1. /\ call' = call /\ lake' = lake /\ request' = request /\ chosen' = chosen
          /\ pruned' = pruned /\ status' = status
      BY <2>2 DEF allVars, filesVars
    <3>2. FilesCall!Walked' <=> FilesCall!Walked
      BY <3>1 DEF FilesCall!Walked
    <3>3. CASE status = "called"
      BY <3>1, <3>3 DEF PruneInv, FilesCall!Walked
    <3>4. CASE status # "called"
      BY <3>1, <3>2, <3>4, FoundKept
    <3>5. QED
      BY <3>3, <3>4
  <2>3. QED
    BY <2>1, <2>2 DEF AuditNext
<1>3. QED
  BY <1>1, <1>2, FilesInvariant, PTL DEF AuditSpec

\* Pruning loses no file that is asked for, unless a key is repeated on its path, and
\* counts each dead branch once (partition.rs).
THEOREM Pruning == AuditSpec => []PruningRight
<1>1. ASSUME call = "files", FilesInv, PruneInv PROVE PruningRight
  <2>1. lake \in Trees
    BY <1>1 DEF FilesInv, FilesCall!TypeOK
  <2>2. FilesCall!Walked => WalkFound
    BY <1>1 DEF PruneInv
  <2>3. ASSUME FilesCall!Walked
        PROVE  /\ chosen \subseteq FilesCall!AskedFor
               /\ \A f \in FilesCall!AskedFor \ chosen : FilesCall!Repeats(f)
    <3>1. \A f : f \in chosen <=> AskedBelow(f, Root)
      BY <2>2, <2>3 DEF WalkFound
    <3>2. \A f : f \in FilesCall!AskedFor
                   <=> (f \in DOMAIN lake /\ lake[f] = "file" /\ Good(f) /\ Wanted(f))
      BY DEF FilesCall!AskedFor, Good, Wanted
    <3>3. ASSUME NEW f \in FilesCall!AskedFor, f \notin chosen PROVE FilesCall!Repeats(f)
      <4>1. f \in LakePaths /\ f # Root
        <5>1. f \in DOMAIN lake /\ f \in LakePaths
          BY <3>2, <3>3 DEF LakePaths
        <5>2. FilesCall!IsStrictPrefix(Root, f)
          BY <2>1, <5>1, FilesAssumption DEF FilesCall!LakesTyped
        <5>3. QED
          BY <5>1, <5>2 DEF FilesCall!IsStrictPrefix
      <4>2. Under(f, Root)
        BY <2>1, <4>1, PathFacts
      <4>3. ~Reached(f, Root)
        BY <3>1, <3>2, <3>3, <4>2 DEF AskedBelow
      <4>4. PICK n \in Len(Root) .. Len(f) - 1 : ~Good(SubSeq(f, 1, n))
        BY <4>3 DEF Reached
      <4>5. QED
        BY <2>1, <3>2, <3>3, <4>1, <4>4, RepeatedKey
    <3>4. QED
      BY <3>1, <3>2, <3>3 DEF AskedBelow
  <2>4. ASSUME FilesCall!Walked
        PROVE  pruned = FilesCall!Cardinality({d \in FilesCall!Dead :
                 \A e \in FilesCall!Dead : ~FilesCall!IsStrictPrefix(e, d)})
    <3>1. \A d : d \in FilesCall!Dead <=> Dead(d)
      BY <2>1, DeadIs DEF Dead
    <3>2. \A d, e \in LakeDirs : FilesCall!IsStrictPrefix(e, d) <=> Under(d, e)
      BY <2>1, UnderIs DEF LakePaths
    <3>3. \A d \in LakeDirs : Within(d, Root)
      BY <2>1, PathFacts DEF LakePaths
    <3>4. {d \in FilesCall!Dead : \A e \in FilesCall!Dead : ~FilesCall!IsStrictPrefix(e, d)}
            = DeadRoots(Root)
      BY <3>1, <3>2, <3>3 DEF Dead, DeadRoots
    <3>5. pruned = Cardinality(DeadRoots(Root))
      BY <2>2, <2>4 DEF WalkFound
    <3>6. QED
      BY <3>4, <3>5, FilesSums
  <2>5. QED
    BY <2>3, <2>4 DEF PruningRight, FilesCall!PruningSound, FilesCall!PrunedOnce
<1>2. FilesInv /\ PruneInv => PruningRight
  BY <1>1 DEF PruningRight
<1>3. QED
  BY <1>2, FilesInvariant, PruneInvariant, PTL

-----------------------------------------------------------------------------
(* The rule filter (dynamic_filter.rs). *)

\* A chunk ends before a later one begins.
LEMMA TimesMore ==
  ASSUME NEW w \in Nat \ {0}, NEW p \in Nat, NEW q \in Nat, p < q
  PROVE  p * w + w <= q * w
OBVIOUS

\* What the constants of the rule filter are.
LEMMA RuleKinds ==
  /\ Width \in Nat \ {0} /\ MaxRules \in Nat
  /\ \A c \in Columns \cup Second : c.cells \in Seq(Dynamic!Cells)
  /\ \A c \in Columns, s \in Second : DOMAIN c.cells = DOMAIN s.cells
  /\ \A rule \in Asked : rule.op \in Dynamic!Ops /\ rule.value \in Int \cup {Text, NaN}
BY DynamicAssumption DEF Dynamic!RulesTyped

\* Rule i has a bit of its own in one of the chunks.
LEMMA BitOfRule ==
  ASSUME NEW n \in Nat, NEW i \in Nat, i < n
  PROVE  /\ Dynamic!NumChunks(n) \in Nat
         /\ Dynamic!BitOf(i).chunk \in 1 .. Dynamic!NumChunks(n)
         /\ Dynamic!BitOf(i).bit \in 0 .. Width - 1
         /\ \A c \in Nat \ {0}, b \in 0 .. Width - 1 :
              (c - 1) * Width + b = i <=> /\ c = Dynamic!BitOf(i).chunk
                                          /\ b = Dynamic!BitOf(i).bit
<1>1. PICK w \in Nat \ {0} : w = Width
  BY RuleKinds
<1>2. PICK q \in Nat, m \in Nat : q = i \div w /\ m = i % w /\ m < w /\ i = q * w + m
  BY DivMod
<1>3. Dynamic!BitOf(i) = [chunk |-> q + 1, bit |-> m]
  BY <1>1, <1>2 DEF Dynamic!BitOf
<1>4. PICK k \in Nat, l \in Nat : /\ k = (n + w - 1) \div w /\ l < w
                                  /\ n + w - 1 = k * w + l
  <2>1. n + w - 1 \in Nat
    OBVIOUS
  <2>2. PICK p \in Nat : p = n + w - 1
    BY <2>1
  <2>3. p \div w \in Nat /\ (p % w) \in Nat /\ (p % w) < w /\ p = (p \div w) * w + (p % w)
    BY DivMod
  <2>4. QED
    BY <2>2, <2>3
<1>5. Dynamic!NumChunks(n) = k
  BY <1>1, <1>4 DEF Dynamic!NumChunks
<1>6. q < k
  <2>1. SUFFICES ASSUME ~(q < k) PROVE FALSE
    OBVIOUS
  <2>2. PICK a \in Int, b \in Int : a = q * w /\ b = k * w
    OBVIOUS
  <2>3. b <= a
    <3>1. k = q \/ k < q
      BY <2>1
    <3>2. k < q => k * w + w <= q * w
      BY TimesMore
    <3>3. QED
      BY <2>2, <3>1, <3>2
  <2>4. i = a + m /\ n + w - 1 = b + l
    BY <1>2, <1>4, <2>2
  <2>5. QED
    BY <1>4, <2>3, <2>4
<1>7. ASSUME NEW c \in Nat \ {0}, NEW b \in 0 .. w - 1
      PROVE  (c - 1) * w + b = i <=> c = q + 1 /\ b = m
  <2>1. PICK p \in Nat : p = c - 1
    OBVIOUS
  <2>2. p * w + b = q * w + m => p = q /\ b = m
    <3>1. b \in Nat /\ b < w
      OBVIOUS
    <3>2. QED
      BY <1>2, <3>1, DivModUnique
  <2>3. c = q + 1 <=> p = q
    BY <2>1
  <2>4. p = q /\ b = m => p * w + b = q * w + m
    OBVIOUS
  <2>5. QED
    BY <1>2, <2>1, <2>2, <2>3, <2>4
<1>8. Dynamic!BitOf(i).chunk = q + 1 /\ Dynamic!BitOf(i).bit = m
  BY <1>3
<1>9. q + 1 \in 1 .. k /\ m \in 0 .. w - 1
  BY <1>2, <1>6
<1>10. \A c \in Nat \ {0}, b \in 0 .. Width - 1 :
         (c - 1) * Width + b = i <=> /\ c = Dynamic!BitOf(i).chunk
                                     /\ b = Dynamic!BitOf(i).bit
  BY <1>1, <1>7, <1>8
<1>11. QED
  BY <1>1, <1>5, <1>8, <1>9, <1>10

\* The rules evaluated so far that a row breaks.
BrokenSoFar(r) ==
  {i \in 0 .. Len(rules) - 1 :
     \E c \in Dynamic!Target(rules[i + 1]) : Dynamic!Breaks(batch[c].type, batch[c].cells[r], rules[i + 1])}

\* The types of the rule filter's state, as the proofs use them.
RulesTypes ==
  /\ batch \in {<<c>> : c \in Columns} \cup {<<c, s>> : c \in Columns, s \in Second}
  /\ total \in Nat /\ total <= MaxRules
  /\ rules \in Seq(Asked) /\ Len(rules) <= total
  /\ clean \in [Dynamic!Rows -> BOOLEAN]
  /\ chunks \in [1 .. Dynamic!NumChunks(total) -> [Dynamic!Rows -> SUBSET (0 .. Width - 1)]]
  /\ pc \in {"rules", "done", "failed"}

\* The masks say which rules each row breaks.
MasksRight ==
  pc # "failed" =>
    \A r \in Dynamic!Rows :
      /\ clean[r] <=> BrokenSoFar(r) = {}
      /\ \A c \in 1 .. Dynamic!NumChunks(total) :
           chunks[c][r] = {b \in 0 .. Width - 1 : (c - 1) * Width + b \in BrokenSoFar(r)}

\* One rule more.
LEMMA EvalRuleBreaks ==
  ASSUME RulesTypes, NEW rule \in Asked, Dynamic!EvalRule(rule), NEW r
  PROVE  BrokenSoFar(r)' =
           BrokenSoFar(r) \cup
             IF \E c \in Dynamic!Target(rule) : Dynamic!Breaks(batch[c].type, batch[c].cells[r], rule)
               THEN {Len(rules)} ELSE {}
<1>1. PICK n \in Nat : n = Len(rules)
  BY DEF RulesTypes
<1>2. /\ rules' = Append(rules, rule) /\ batch' = batch
      /\ rules \in Seq(Asked)
  BY DEF Dynamic!EvalRule, RulesTypes
<1>3. /\ Len(rules') = n + 1 /\ rules'[n + 1] = rule
      /\ \A m \in 1 .. n : rules'[m] = rules[m]
  BY <1>1, <1>2
<1>4. \A t : Dynamic!Target(t)' = Dynamic!Target(t)
  BY <1>2 DEF Dynamic!Target, Dynamic!Resolved, Dynamic!Exactly, Dynamic!AnyCase
<1>5. BrokenSoFar(r)' =
        {i \in 0 .. n : \E c \in Dynamic!Target(rules'[i + 1]) :
                          Dynamic!Breaks(batch[c].type, batch[c].cells[r], rules'[i + 1])}
  <2>1. (n + 1) - 1 = n
    OBVIOUS
  <2>2. QED
    BY <1>2, <1>3, <1>4, <2>1 DEF BrokenSoFar
<1>6. BrokenSoFar(r) =
        {i \in 0 .. n - 1 : \E c \in Dynamic!Target(rules'[i + 1]) :
                              Dynamic!Breaks(batch[c].type, batch[c].cells[r], rules'[i + 1])}
  <2>1. \A i \in 0 .. n - 1 : i + 1 \in 1 .. n
    OBVIOUS
  <2>2. QED
    BY <1>1, <1>3, <2>1 DEF BrokenSoFar
<1>7. \A i : i \in 0 .. n <=> i \in 0 .. n - 1 \/ i = n
  OBVIOUS
<1>8. QED
  BY <1>1, <1>3, <1>5, <1>6, <1>7

\* EvalRule marks the rows that break the rule, each in the rule's own bit.
LEMMA EvalRuleRight ==
  ASSUME RulesTypes, MasksRight, NEW rule \in Asked, Dynamic!EvalRule(rule)
  PROVE  RulesTypes' /\ MasksRight'
<1>1. PICK n \in Nat : n = Len(rules)
  BY DEF RulesTypes
<1>2. /\ pc = "rules" /\ n < total /\ rules' = Append(rules, rule)
      /\ UNCHANGED <<batch, total>>
  BY <1>1 DEF Dynamic!EvalRule
<1>3. Dynamic!Rows' = Dynamic!Rows
  BY <1>2 DEF Dynamic!Rows
<1>4. rules' \in Seq(Asked) /\ Len(rules') <= total
  <2>1. Len(rules') = n + 1 /\ rules' \in Seq(Asked)
    BY <1>1, <1>2 DEF RulesTypes
  <2>2. total \in Nat
    BY DEF RulesTypes
  <2>3. QED
    BY <1>2, <2>1, <2>2
<1>5. PICK at : at = Dynamic!BitOf(n)
  OBVIOUS
<1>6. /\ at.chunk \in 1 .. Dynamic!NumChunks(total) /\ at.bit \in 0 .. Width - 1
      /\ \A c \in Nat \ {0}, b \in 0 .. Width - 1 :
           (c - 1) * Width + b = n <=> c = at.chunk /\ b = at.bit
  <2>1. total \in Nat
    BY DEF RulesTypes
  <2>2. QED
    BY <1>2, <1>5, <2>1, BitOfRule
<1>7. PICK bad : bad = {r \in Dynamic!Rows :
                          \E c \in Dynamic!Target(rule) : Dynamic!Breaks(batch[c].type, batch[c].cells[r], rule)}
  OBVIOUS
<1>8. \A r \in Dynamic!Rows :
         BrokenSoFar(r)' = BrokenSoFar(r) \cup IF r \in bad THEN {n} ELSE {}
  <2>1. ASSUME NEW r \in Dynamic!Rows
        PROVE  BrokenSoFar(r)' = BrokenSoFar(r) \cup IF r \in bad THEN {n} ELSE {}
    <3>1. BrokenSoFar(r)' = BrokenSoFar(r) \cup
             IF \E c \in Dynamic!Target(rule) : Dynamic!Breaks(batch[c].type, batch[c].cells[r], rule)
               THEN {Len(rules)} ELSE {}
      BY EvalRuleBreaks
    <3>2. r \in bad <=>
            \E c \in Dynamic!Target(rule) : Dynamic!Breaks(batch[c].type, batch[c].cells[r], rule)
      BY <1>7
    <3>3. QED
      BY <1>1, <3>1, <3>2
  <2>2. QED
    BY <2>1
<1>9. CASE \E c \in Dynamic!Target(rule) : ~Dynamic!Parses(batch[c].type, rule.value)
  <2>1. pc' = "failed" /\ UNCHANGED <<clean, chunks>>
    BY <1>9 DEF Dynamic!EvalRule
  <2>2. QED
    BY <1>2, <1>3, <1>4, <2>1 DEF RulesTypes, MasksRight
<1>10. CASE ~\E c \in Dynamic!Target(rule) : ~Dynamic!Parses(batch[c].type, rule.value)
  <2>1. /\ clean' = [r \in Dynamic!Rows |-> clean[r] /\ r \notin bad]
        /\ chunks' = [chunks EXCEPT ![at.chunk] =
             [r \in Dynamic!Rows |-> @[r] \cup IF r \in bad THEN {at.bit} ELSE {}]]
        /\ pc' = pc
    BY <1>1, <1>5, <1>7, <1>10 DEF Dynamic!EvalRule
  <2>2. chunks \in [1 .. Dynamic!NumChunks(total) -> [Dynamic!Rows -> SUBSET (0 .. Width - 1)]]
    BY DEF RulesTypes
  <2>3. ASSUME NEW c \in 1 .. Dynamic!NumChunks(total), NEW r \in Dynamic!Rows
        PROVE  chunks'[c][r] = chunks[c][r] \cup IF c = at.chunk /\ r \in bad THEN {at.bit} ELSE {}
    BY <1>6, <2>1, <2>2
  <2>4. chunks' \in [1 .. Dynamic!NumChunks(total) -> [Dynamic!Rows -> SUBSET (0 .. Width - 1)]]
    <3>1. [r \in Dynamic!Rows |-> chunks[at.chunk][r] \cup IF r \in bad THEN {at.bit} ELSE {}]
             \in [Dynamic!Rows -> SUBSET (0 .. Width - 1)]
      BY <1>6, <2>2
    <3>2. QED
      BY <1>6, <2>1, <2>2, <3>1
  <2>5. clean' \in [Dynamic!Rows -> BOOLEAN]
    BY <2>1 DEF RulesTypes
  <2>6. RulesTypes'
    BY <1>2, <1>3, <1>4, <2>1, <2>4, <2>5 DEF RulesTypes
  <2>7. ASSUME NEW r \in Dynamic!Rows PROVE clean'[r] <=> BrokenSoFar(r)' = {}
    <3>1. clean[r] <=> BrokenSoFar(r) = {}
      BY <1>2 DEF MasksRight
    <3>2. clean'[r] <=> clean[r] /\ r \notin bad
      BY <2>1
    <3>3. QED
      BY <1>8, <3>1, <3>2
  <2>8. ASSUME NEW r \in Dynamic!Rows, NEW c \in 1 .. Dynamic!NumChunks(total)
        PROVE  chunks'[c][r] = {b \in 0 .. Width - 1 : (c - 1) * Width + b \in BrokenSoFar(r)'}
    <3>1. chunks[c][r] = {b \in 0 .. Width - 1 : (c - 1) * Width + b \in BrokenSoFar(r)}
      BY <1>2 DEF MasksRight
    <3>2. c \in Nat \ {0}
      OBVIOUS
    <3>3. \A b \in 0 .. Width - 1 : (c - 1) * Width + b = n <=> c = at.chunk /\ b = at.bit
      BY <1>6, <3>2
    <3>4. BrokenSoFar(r)' = BrokenSoFar(r) \cup IF r \in bad THEN {n} ELSE {}
      BY <1>8
    <3>5. chunks'[c][r] = chunks[c][r] \cup IF c = at.chunk /\ r \in bad THEN {at.bit} ELSE {}
      BY <2>3
    <3>6. \A b \in 0 .. Width - 1 :
            b \in chunks'[c][r] <=> (c - 1) * Width + b \in BrokenSoFar(r)'
      BY <3>1, <3>3, <3>4, <3>5
    <3>7. \A b \in chunks'[c][r] : b \in 0 .. Width - 1
      BY <1>6, <3>1, <3>5
    <3>8. QED
      BY <3>6, <3>7
  <2>9. MasksRight'
    <3>1. Dynamic!NumChunks(total)' = Dynamic!NumChunks(total)
      BY <1>2 DEF Dynamic!NumChunks
    <3>2. QED
      BY <1>2, <1>3, <2>7, <2>8, <3>1 DEF MasksRight
  <2>10. QED
    BY <2>6, <2>9
<1>11. QED
  BY <1>9, <1>10

\* A list of the numbers in T, the smallest first.
Lists(list, T) ==
  /\ list \in Seq(Nat)
  /\ \A i \in 1 .. Len(list) : list[i] \in T
  /\ \A x \in T : \E i \in 1 .. Len(list) : list[i] = x
  /\ \A i, j \in 1 .. Len(list) : i < j => list[i] < list[j]

\* A list of larger numbers can follow.
LEMMA ListsJoin ==
  ASSUME NEW a, NEW b, NEW T, NEW U, Lists(a, T), Lists(b, U), \A t \in T, u \in U : t < u
  PROVE  Lists(a \o b, T \cup U)
<1>1. PICK m \in Nat, n \in Nat : m = Len(a) /\ n = Len(b)
  BY DEF Lists
<1>2. PICK l \in Seq(Nat) : l = a \o b
  <2>1. a \in Seq(Nat) /\ b \in Seq(Nat)
    BY DEF Lists
  <2>2. a \o b \in Seq(Nat)
    BY <2>1
  <2>3. QED
    BY <2>2
<1>3. /\ Len(l) = m + n
      /\ \A i \in 1 .. m : l[i] = a[i]
      /\ \A i \in 1 .. n : l[m + i] = b[i]
  BY <1>1, <1>2 DEF Lists
<1>4. /\ \A i \in 1 .. m : a[i] \in T
      /\ \A i \in 1 .. n : b[i] \in U
      /\ \A x \in T : \E i \in 1 .. m : a[i] = x
      /\ \A x \in U : \E i \in 1 .. n : b[i] = x
      /\ \A i, j \in 1 .. m : i < j => a[i] < a[j]
      /\ \A i, j \in 1 .. n : i < j => b[i] < b[j]
  BY <1>1 DEF Lists
<1>5. \A i \in 1 .. m + n : i \in 1 .. m \/ (i - m \in 1 .. n /\ m + (i - m) = i)
  OBVIOUS
<1>6. \A i \in 1 .. m + n : \/ i \in 1 .. m /\ l[i] = a[i]
                            \/ i > m /\ i - m \in 1 .. n /\ l[i] = b[i - m]
  <2>1. ASSUME NEW i \in 1 .. m + n, i \notin 1 .. m
        PROVE  i > m /\ i - m \in 1 .. n /\ l[i] = b[i - m]
    <3>1. PICK k \in 1 .. n : k = i - m /\ i = m + k
      BY <1>5, <2>1
    <3>2. QED
      BY <1>3, <3>1
  <2>2. QED
    BY <1>3, <2>1
<1>7. \A i \in 1 .. m + n : l[i] \in T \cup U
  BY <1>4, <1>6
<1>8. \A x \in T \cup U : \E i \in 1 .. m + n : l[i] = x
  <2>1. ASSUME NEW x \in T PROVE \E i \in 1 .. m + n : l[i] = x
    <3>1. PICK i \in 1 .. m : a[i] = x
      BY <1>4
    <3>2. i \in 1 .. m + n /\ l[i] = x
      BY <1>3, <3>1
    <3>3. QED
      BY <3>2
  <2>2. ASSUME NEW x \in U PROVE \E i \in 1 .. m + n : l[i] = x
    <3>1. PICK i \in 1 .. n : b[i] = x
      BY <1>4
    <3>2. m + i \in 1 .. m + n /\ l[m + i] = x
      BY <1>3, <3>1
    <3>3. QED
      BY <3>2
  <2>3. QED
    BY <2>1, <2>2
<1>9. ASSUME NEW i \in 1 .. m + n, NEW j \in 1 .. m + n, i < j PROVE l[i] < l[j]
  <2>1. CASE i \in 1 .. m /\ j \in 1 .. m
    BY <1>3, <1>4, <1>9, <2>1
  <2>2. CASE i \in 1 .. m /\ j \notin 1 .. m
    <3>1. l[i] = a[i] /\ a[i] \in T
      BY <1>3, <1>4, <2>2
    <3>2. j - m \in 1 .. n /\ l[j] = b[j - m]
      BY <1>6, <2>2
    <3>3. b[j - m] \in U
      BY <1>4, <3>2
    <3>4. QED
      BY <3>1, <3>2, <3>3
  <2>3. CASE i \notin 1 .. m
    <3>1. i > m /\ i - m \in 1 .. n /\ l[i] = b[i - m]
      BY <1>6, <2>3
    <3>2. j \notin 1 .. m
      BY <1>9, <3>1
    <3>3. j - m \in 1 .. n /\ l[j] = b[j - m]
      BY <1>6, <3>2
    <3>4. i - m < j - m
      BY <1>9
    <3>5. QED
      BY <1>4, <3>1, <3>3, <3>4
  <2>4. QED
    BY <2>1, <2>2, <2>3
<1>10. QED
  BY <1>2, <1>3, <1>7, <1>8, <1>9 DEF Lists

\* SortedRows puts the numbers of a set in order.
LEMMA DynamicSorted ==
  ASSUME NEW S, IsFiniteSet(S), \A n \in S : n \in Nat
  PROVE  InOrder(Dynamic!SortedRows(S), S)
<1>1. Dynamic!Cardinality(S) = Cardinality(S)
  BY DEF Dynamic!Cardinality, Cardinality
<1>2. \E p \in [1 .. Dynamic!Cardinality(S) -> S] : Dynamic!Ascending(p)
  BY <1>1, InOrderExists DEF InOrder, Dynamic!Ascending
<1>3. /\ Dynamic!SortedRows(S) \in [1 .. Dynamic!Cardinality(S) -> S]
      /\ Dynamic!Ascending(Dynamic!SortedRows(S))
  BY <1>2 DEF Dynamic!SortedRows
<1>4. QED
  BY <1>1, <1>3 DEF InOrder, Dynamic!Ascending

\* A sorted set, moved up by a number.
LEMMA ListsMoved ==
  ASSUME NEW S, IsFiniteSet(S), \A n \in S : n \in Nat, NEW base \in Nat,
         NEW q, InOrder(q, S)
  PROVE  Lists([k \in 1 .. Len(q) |-> base + q[k]], {base + s : s \in S})
<1>1. PICK n \in Nat : n = Len(q) /\ n = Cardinality(S)
  BY InOrderOnto
<1>2. /\ \A i \in 1 .. n : q[i] \in S
      /\ \A x \in S : \E i \in 1 .. n : q[i] = x
      /\ \A i, j \in 1 .. n : i < j => q[i] < q[j]
  BY <1>1, InOrderOnto DEF InOrder
<1>3. PICK l : l = [k \in 1 .. n |-> base + q[k]]
  OBVIOUS
<1>4. \A i \in 1 .. n : q[i] \in Nat
  BY <1>2
<1>5. l \in Seq(Nat) /\ Len(l) = n /\ \A i \in 1 .. n : l[i] = base + q[i]
  <2>1. l \in [1 .. n -> Nat]
    BY <1>3, <1>4
  <2>2. QED
    BY <1>3, <2>1
<1>6. \A i, j \in 1 .. n : i < j => l[i] < l[j]
  <2>1. SUFFICES ASSUME NEW i \in 1 .. n, NEW j \in 1 .. n, i < j PROVE l[i] < l[j]
    OBVIOUS
  <2>2. PICK x \in Nat, y \in Nat : x = q[i] /\ y = q[j]
    BY <1>4
  <2>3. x < y
    BY <1>2, <2>1, <2>2
  <2>4. base + x < base + y
    BY <2>3
  <2>5. l[i] = base + x /\ l[j] = base + y
    BY <1>5, <2>2
  <2>6. QED
    BY <2>4, <2>5
<1>7. \A i \in 1 .. n : l[i] \in {base + s : s \in S}
  BY <1>2, <1>5
<1>8. \A x \in {base + s : s \in S} : \E i \in 1 .. n : l[i] = x
  <2>1. ASSUME NEW s \in S PROVE \E i \in 1 .. n : l[i] = base + s
    <3>1. PICK i \in 1 .. n : q[i] = s
      BY <1>2
    <3>2. l[i] = base + s
      BY <1>5, <3>1
    <3>3. QED
      BY <3>2
  <2>2. QED
    BY <2>1
<1>9. QED
  BY <1>1, <1>3, <1>5, <1>6, <1>7, <1>8 DEF Lists

\* The rules of one chunk that a row breaks.
ChunkList(c, r) ==
  [k \in 1 .. Len(Dynamic!SortedRows(chunks[c][r])) |->
     (c - 1) * Width + Dynamic!SortedRows(chunks[c][r])[k]]

\* The bits set in one chunk of a row's mask are the rules of that chunk it breaks.
LEMMA ChunkListRight ==
  ASSUME RulesTypes, MasksRight, pc = "rules", NEW r \in Dynamic!Rows,
         NEW c \in 1 .. Dynamic!NumChunks(total), Dynamic!NumChunks(total) \in Nat
  PROVE  Lists(ChunkList(c, r),
               {(c - 1) * Width + b :
                  b \in {d \in 0 .. Width - 1 : (c - 1) * Width + d \in BrokenSoFar(r)}})
<1>1. PICK S : S = {d \in 0 .. Width - 1 : (c - 1) * Width + d \in BrokenSoFar(r)}
  OBVIOUS
<1>2. chunks[c][r] = S
  BY <1>1 DEF MasksRight
<1>3. IsFiniteSet(S) /\ \A n \in S : n \in Nat
  <2>1. Width \in Nat
    BY RuleKinds
  <2>2. IsFiniteSet(0 .. Width - 1)
    BY <2>1, FS_Interval
  <2>3. S \in SUBSET (0 .. Width - 1)
    BY <1>1
  <2>4. IsFiniteSet(S)
    BY <2>2, <2>3, FS_Subset
  <2>5. QED
    BY <2>1, <2>3, <2>4
<1>4. PICK q : q = Dynamic!SortedRows(S)
  OBVIOUS
<1>5. InOrder(q, S)
  BY <1>3, <1>4, DynamicSorted
<1>6. PICK base \in Nat : base = (c - 1) * Width
  <2>1. c - 1 \in Nat /\ Width \in Nat
    BY RuleKinds
  <2>2. QED
    BY <2>1
<1>7. Lists([k \in 1 .. Len(q) |-> base + q[k]], {base + s : s \in S})
  BY <1>3, <1>5, ListsMoved
<1>8. ChunkList(c, r) = [k \in 1 .. Len(q) |-> base + q[k]]
  BY <1>2, <1>4, <1>6 DEF ChunkList
<1>9. QED
  BY <1>1, <1>6, <1>7, <1>8

\* The chunks have room for every rule, and there is at least one.
LEMMA ChunksCover ==
  ASSUME NEW n \in Nat
  PROVE  /\ Dynamic!NumChunks(n) \in Nat \ {0} /\ n <= Dynamic!NumChunks(n) * Width
         /\ n <= Width => Dynamic!NumChunks(n) = 1
<1>1. PICK w \in Nat \ {0} : w = Width
  BY RuleKinds
<1>2. CASE n = 0
  <2>1. Dynamic!NumChunks(n) = 1
    BY <1>2 DEF Dynamic!NumChunks
  <2>2. QED
    BY <1>1, <1>2, <2>1
<1>3. CASE n # 0
  <2>1. PICK p \in Nat : p = n + w - 1
    OBVIOUS
  <2>2. PICK k \in Nat, l \in Nat : k = p \div w /\ l < w /\ p = k * w + l
    BY DivMod
  <2>3. Dynamic!NumChunks(n) = k
    BY <1>1, <1>3, <2>1, <2>2 DEF Dynamic!NumChunks
  <2>4. PICK a \in Int : a = k * w
    OBVIOUS
  <2>5. n <= a
    BY <2>1, <2>2, <2>4
  <2>6. k # 0
    <3>1. k = 0 => k * w = 0
      OBVIOUS
    <3>2. QED
      BY <1>3, <2>4, <2>5, <3>1
  <2>7. n <= w => k = 1
    <3>1. SUFFICES ASSUME n <= w, k # 1 PROVE FALSE
      OBVIOUS
    <3>2. 1 < k
      BY <2>6, <3>1
    <3>3. 1 * w + w <= k * w
      BY <3>2, TimesMore
    <3>4. 1 * w = w
      OBVIOUS
    <3>5. QED
      BY <2>1, <2>2, <2>4, <3>1, <3>3, <3>4
  <2>8. QED
    BY <1>1, <2>3, <2>4, <2>5, <2>6, <2>7
<1>4. QED
  BY <1>2, <1>3

\* The chunk lists joined so far, and the rules they are about.
ChunkLists(n, r) == [c \in 1 .. n |-> ChunkList(c, r)]
\* The broken rules whose bits lie in the first n chunks.
BrokenBelow(n, r) == {i \in BrokenSoFar(r) : i < n * Width}

\* The rules of one chunk are those from its first bit to the next chunk.
LEMMA ChunkIs ==
  ASSUME RulesTypes, NEW r, NEW k \in Nat, NEW m \in Nat, m = k + 1
  PROVE  /\ {(m - 1) * Width + b : b \in {d \in 0 .. Width - 1 : (m - 1) * Width + d \in BrokenSoFar(r)}}
              = BrokenBelow(m, r) \ BrokenBelow(k, r)
         /\ BrokenBelow(k, r) \cup (BrokenBelow(m, r) \ BrokenBelow(k, r)) = BrokenBelow(m, r)
         /\ \A t \in BrokenBelow(k, r), u \in BrokenBelow(m, r) \ BrokenBelow(k, r) : t < u
         /\ \A t \in BrokenBelow(m, r) : t \in Nat
<1>1. PICK w \in Nat \ {0} : w = Width
  BY RuleKinds
<1>2. PICK a \in Nat, b \in Nat : a = k * w /\ b = m * w /\ b = a + w
  <2>1. k * w \in Nat /\ m * w \in Nat /\ m * w = k * w + w
    BY <1>1
  <2>2. QED
    BY <2>1
<1>3. m - 1 = k
  OBVIOUS
<1>4. PICK S : S = BrokenSoFar(r)
  OBVIOUS
<1>5. \A i \in S : i \in Nat
  <2>1. Len(rules) \in Nat
    BY DEF RulesTypes
  <2>2. QED
    BY <1>4, <2>1 DEF BrokenSoFar
<1>6. BrokenBelow(k, r) = {i \in S : i < a} /\ BrokenBelow(m, r) = {i \in S : i < b}
  BY <1>1, <1>2, <1>4 DEF BrokenBelow
<1>7. {a + d : d \in {e \in 0 .. w - 1 : a + e \in S}} = {i \in S : i < b} \ {i \in S : i < a}
  <2>1. ASSUME NEW d \in 0 .. w - 1, a + d \in S
        PROVE  a + d < b /\ ~(a + d < a)
    BY <1>2
  <2>2. ASSUME NEW i \in S, i < b, ~(i < a) PROVE \E d \in 0 .. w - 1 : a + d = i
    <3>1. i \in Nat
      BY <1>5
    <3>2. i - a \in 0 .. w - 1 /\ a + (i - a) = i
      BY <1>2, <2>2, <3>1
    <3>3. QED
      BY <3>2
  <2>3. QED
    BY <2>1, <2>2
<1>8. \A i \in S : i < a => i < b
  BY <1>2, <1>5
<1>9. \A t \in {i \in S : i < a}, u \in {i \in S : i < b} \ {i \in S : i < a} : t < u
  BY <1>5
<1>10. {(m - 1) * Width + d : d \in {e \in 0 .. Width - 1 : (m - 1) * Width + e \in BrokenSoFar(r)}}
         = {a + d : d \in {e \in 0 .. w - 1 : a + e \in S}}
  BY <1>1, <1>2, <1>3, <1>4
<1>11. QED
  BY <1>5, <1>6, <1>7, <1>8, <1>9, <1>10

\* One chunk more.
LEMMA ListedStep ==
  ASSUME RulesTypes, MasksRight, pc = "rules", NEW r \in Dynamic!Rows,
         NEW k \in Nat, NEW m \in Nat, m = k + 1, m <= Dynamic!NumChunks(total),
         Lists(FlattenSeq(ChunkLists(k, r)), BrokenBelow(k, r))
  PROVE  Lists(FlattenSeq(ChunkLists(m, r)), BrokenBelow(m, r))
<1>1. Dynamic!NumChunks(total) \in Nat
  BY ChunksCover DEF RulesTypes
<1>2. \A c \in 1 .. m : ChunkList(c, r) \in Seq(Nat)
  <2>1. ASSUME NEW c \in 1 .. m PROVE ChunkList(c, r) \in Seq(Nat)
    <3>1. c \in 1 .. Dynamic!NumChunks(total)
      BY <1>1
    <3>2. QED
      BY <1>1, <3>1, ChunkListRight DEF Lists
  <2>2. QED
    BY <2>1
<1>3. PICK p, q : p = ChunkLists(k, r) /\ q = ChunkLists(m, r)
  OBVIOUS
<1>4. /\ Len(p) = k /\ Len(q) = m
      /\ \A i \in 1 .. k : p[i] = ChunkList(i, r)
      /\ \A i \in 1 .. m : q[i] = ChunkList(i, r)
      /\ k = 0 => p = <<>>
  BY <1>3 DEF ChunkLists
<1>5. \A i \in 1 .. k : i \in 1 .. m
  OBVIOUS
<1>6. SameTo(p, q, k)
  BY <1>4, <1>5 DEF SameTo
<1>7. m \in 1 .. m /\ q[m] = ChunkList(m, r) /\ q[m] \in Seq(Nat)
  BY <1>2, <1>4
<1>8. \A i \in 1 .. k : p[i] \in Seq(Nat)
  BY <1>2, <1>4, <1>5
<1>9. FlattenSeq(q) = FlattenSeq(p) \o q[m]
  <2>1. EachIn(p, k, Nat)
    BY <1>8 DEF EachIn
  <2>2. QED
    BY <1>4, <1>6, <1>7, <2>1, FlattenMore
<1>10. m \in 1 .. Dynamic!NumChunks(total)
  BY <1>1
<1>11. PICK T, U : T = BrokenBelow(k, r) /\ U = BrokenBelow(m, r) \ BrokenBelow(k, r)
  OBVIOUS
<1>12. Lists(q[m], U)
  <2>1. Lists(ChunkList(m, r),
              {(m - 1) * Width + b :
                 b \in {d \in 0 .. Width - 1 : (m - 1) * Width + d \in BrokenSoFar(r)}})
    BY <1>1, <1>10, ChunkListRight
  <2>2. {(m - 1) * Width + b :
           b \in {d \in 0 .. Width - 1 : (m - 1) * Width + d \in BrokenSoFar(r)}} = U
    BY <1>11, ChunkIs
  <2>3. QED
    BY <1>7, <2>1, <2>2
<1>13. Lists(FlattenSeq(p), T)
  BY <1>3, <1>11
<1>14. (\A t \in T, u \in U : t < u) /\ T \cup U = BrokenBelow(m, r)
  BY <1>11, ChunkIs
<1>15. Lists(FlattenSeq(p) \o q[m], T \cup U)
  BY <1>12, <1>13, <1>14, ListsJoin
<1>16. QED
  BY <1>3, <1>9, <1>14, <1>15

\* Listed lists the rules that a row breaks.
LEMMA ListedRight ==
  ASSUME RulesTypes, MasksRight, pc = "rules", NEW r \in Dynamic!Rows
  PROVE  Lists(Dynamic!Listed(r), BrokenSoFar(r))
<1>1. PICK N \in Nat : N = Dynamic!NumChunks(total) /\ total <= N * Width
  BY ChunksCover DEF RulesTypes
<1> DEFINE K == {k \in Nat : k <= N /\ ~Lists(FlattenSeq(ChunkLists(k, r)), BrokenBelow(k, r))}
<1>2. K = {}
  <2>1. SUFFICES ASSUME K # {} PROVE FALSE
    OBVIOUS
  <2>2. PICK m \in K : \A k \in K : m <= k
    <3>1. K \subseteq Nat
      OBVIOUS
    <3> HIDE DEF K
    <3>2. QED
      BY <2>1, <3>1, LeastExists
  <2>3. m \in Nat /\ m <= N /\ ~Lists(FlattenSeq(ChunkLists(m, r)), BrokenBelow(m, r))
    OBVIOUS
  <2>4. m # 0
    <3>1. SUFFICES ASSUME m = 0 PROVE FALSE
      OBVIOUS
    <3>2. ChunkLists(0, r) = <<>>
      BY DEF ChunkLists
    <3>3. FlattenSeq(<<>>) = <<>>
      <4>1. Len(<<>>) = 0
        OBVIOUS
      <4>2. QED
        BY <4>1, FlattenIs
    <3>4. BrokenBelow(0, r) = {}
      <4>1. Width \in Nat /\ 0 * Width = 0 /\ Len(rules) \in Nat
        BY RuleKinds DEF RulesTypes
      <4>2. QED
        BY <4>1 DEF BrokenBelow, BrokenSoFar
    <3>5. Lists(<<>>, {})
      BY DEF Lists
    <3>6. QED
      BY <2>3, <3>1, <3>2, <3>3, <3>4, <3>5
  <2>5. PICK k \in Nat : m = k + 1
    <3>1. m - 1 \in Nat /\ m = (m - 1) + 1
      BY <2>3, <2>4
    <3>2. QED
      BY <3>1
  <2>6. k <= N /\ ~(m <= k)
    BY <2>3, <2>5
  <2>7. Lists(FlattenSeq(ChunkLists(k, r)), BrokenBelow(k, r))
    BY <2>2, <2>6
  <2> HIDE DEF K
  <2>8. QED
    BY <1>1, <2>3, <2>5, <2>7, ListedStep
<1>3. Lists(FlattenSeq(ChunkLists(N, r)), BrokenBelow(N, r))
  <2>1. N <= N
    OBVIOUS
  <2>2. QED
    BY <1>2, <2>1
<1>4. BrokenBelow(N, r) = BrokenSoFar(r)
  <2>1. PICK x \in Nat : x = N * Width
    BY RuleKinds
  <2>2. \A i \in BrokenSoFar(r) : i \in Nat /\ i < x
    <3>1. PICK n \in Nat : n = Len(rules) /\ n <= x
      <4>1. Len(rules) \in Nat /\ total \in Nat /\ Len(rules) <= total
        BY DEF RulesTypes
      <4>2. QED
        BY <1>1, <2>1, <4>1
    <3>2. \A i \in 0 .. n - 1 : i \in Nat /\ i < x
      BY <3>1
    <3>3. QED
      BY <3>1, <3>2 DEF BrokenSoFar
  <2>3. QED
    BY <2>1, <2>2 DEF BrokenBelow
<1>5. DOMAIN chunks = 1 .. N
  BY <1>1 DEF RulesTypes
<1>6. Dynamic!Listed(r) = Dynamic!FlattenSeq(ChunkLists(N, r))
  BY <1>5 DEF Dynamic!Listed, ChunkLists, ChunkList
<1>7. \A p : Dynamic!FlattenSeq(p) = FlattenSeq(p)
  BY DEF Dynamic!FlattenSeq, FlattenSeq
<1>8. QED
  BY <1>3, <1>4, <1>6, <1>7

\* When every rule was evaluated, the rules broken so far are the broken ones.
LEMMA BrokenAll ==
  ASSUME Len(rules) = total, NEW r
  PROVE  Dynamic!Broken(r) = BrokenSoFar(r)
<1>1. ASSUME NEW type, NEW cell, NEW rule
      PROVE  Dynamic!Breaks(type, cell, rule)
               <=> \/ cell = Null
                   \/ Dynamic!NotANumber(type, cell, rule.value) /\ rule.op # "!="
                   \/ cell # Null /\ ~Dynamic!NotANumber(type, cell, rule.value)
                      /\ ~Dynamic!Compare(cell, rule.op, Dynamic!Rank(rule.value))
  <2>1. PICK right : right = Dynamic!Compare(cell, rule.op, Dynamic!Rank(rule.value))
    OBVIOUS
  <2>2. PICK nan \in BOOLEAN : nan <=> Dynamic!NotANumber(type, cell, rule.value)
    OBVIOUS
  <2>3. Dynamic!Breaks(type, cell, rule)
          <=> cell = Null \/ ~(IF nan THEN rule.op = "!=" ELSE right)
    BY <2>1, <2>2 DEF Dynamic!Breaks, Dynamic!Passed
  <2>4. QED
    BY <2>1, <2>2, <2>3
<1>2. QED
  BY <1>1 DEF Dynamic!Broken, BrokenSoFar

\* The rows are numbers.
LEMMA RowsFinite ==
  ASSUME RulesTypes
  PROVE  IsFiniteSet(Dynamic!Rows) /\ \A r \in Dynamic!Rows : r \in Nat
<1>1. batch[1] \in Columns
  BY DEF RulesTypes
<1>2. batch[1].cells \in Seq(Dynamic!Cells)
  BY <1>1, RuleKinds
<1>3. PICK n \in Nat : Dynamic!Rows = 1 .. n
  BY <1>2 DEF Dynamic!Rows
<1>4. IsFiniteSet(1 .. n)
  BY FS_Interval
<1>5. QED
  BY <1>3, <1>4

\* What a code and a list say of a row, when all rules are evaluated.
LEMMA AuditOfRow ==
  ASSUME RulesTypes, MasksRight, pc = "rules", Len(rules) = total, NEW r \in Dynamic!Rows
  PROVE  /\ clean[r] <=> Dynamic!Broken(r) = {}
         /\ chunks[1][r] = {i \in Dynamic!Broken(r) : i < Width}
         /\ total > Width => Lists(Dynamic!Violated(r), Dynamic!Broken(r))
         /\ ~clean[r] => chunks[1][r] # {} \/ Dynamic!Violated(r) # <<>>
<1>1. Dynamic!Broken(r) = BrokenSoFar(r)
  BY BrokenAll
<1>2. clean[r] <=> Dynamic!Broken(r) = {}
  BY <1>1 DEF MasksRight
<1>3. PICK w \in Nat, n \in Nat : w = Width /\ n = total
  BY RuleKinds DEF RulesTypes
<1>4. \A i \in Dynamic!Broken(r) : i \in Nat /\ i < n
  BY <1>3 DEF Dynamic!Broken
<1>5. chunks[1][r] = {i \in Dynamic!Broken(r) : i < Width}
  <2>1. Dynamic!NumChunks(total) \in Nat \ {0}
    BY ChunksCover DEF RulesTypes
  <2>2. 1 \in 1 .. Dynamic!NumChunks(total)
    BY <2>1
  <2>3. chunks[1][r] = {b \in 0 .. Width - 1 : (1 - 1) * Width + b \in BrokenSoFar(r)}
    BY <2>2 DEF MasksRight
  <2>4. \A b \in 0 .. w - 1 : (1 - 1) * w + b = b
    OBVIOUS
  <2>5. chunks[1][r] = {b \in 0 .. w - 1 : b \in BrokenSoFar(r)}
    BY <1>3, <2>3, <2>4
  <2>6. \A b : b \in 0 .. w - 1 /\ b \in BrokenSoFar(r) <=> b \in BrokenSoFar(r) /\ b < w
    BY <1>1, <1>4
  <2>7. QED
    BY <1>1, <1>3, <2>5, <2>6
<1>6. total > Width => Lists(Dynamic!Violated(r), Dynamic!Broken(r))
  BY <1>1, ListedRight DEF Dynamic!Violated
<1>7. ASSUME ~clean[r] PROVE chunks[1][r] # {} \/ Dynamic!Violated(r) # <<>>
  <2>1. PICK i \in Dynamic!Broken(r) : i \in Nat /\ i < n
    BY <1>2, <1>4, <1>7
  <2>2. CASE i < w
    BY <1>3, <1>5, <2>1, <2>2
  <2>3. CASE ~(i < w)
    <3>1. n > w
      BY <2>1, <2>3
    <3>2. Lists(Dynamic!Violated(r), Dynamic!Broken(r))
      BY <1>3, <1>6, <3>1
    <3>3. \E j \in 1 .. Len(Dynamic!Violated(r)) : Dynamic!Violated(r)[j] = i
      BY <2>1, <3>2 DEF Lists
    <3>4. Len(<<>>) = 0 /\ ~\E j \in 1 .. 0 : TRUE
      OBVIOUS
    <3>5. QED
      BY <3>3, <3>4
  <2>4. QED
    BY <2>2, <2>3
<1>8. QED
  BY <1>2, <1>5, <1>6, <1>7

\* A row of the trash batch is audited by the rules it breaks.
Audited(t) ==
  /\ t.code = {i \in Dynamic!Broken(t.row) : i < Width}
  /\ total > Width =>
       /\ {t.violated[n] : n \in DOMAIN t.violated} = Dynamic!Broken(t.row)
       /\ \A n \in DOMAIN t.violated : n > 1 => t.violated[n - 1] < t.violated[n]

\* AuditRight, with what it says of one trash row named.
LEMMA AuditedMeans ==
  Dynamic!AuditRight <=>
    (pc = "done" =>
       /\ {outcome.clean[k] : k \in DOMAIN outcome.clean}
            = {r \in Dynamic!Rows : Dynamic!Broken(r) = {}}
       /\ \A k \in DOMAIN outcome.trash : Audited(outcome.trash[k]))
BY DEF Dynamic!AuditRight, Audited

\* SplitBatch divides the rows by the mask and audits those it throws out.
LEMMA RulesBatchSplit ==
  ASSUME RulesTypes, MasksRight, Dynamic!SplitBatch
  PROVE  (Dynamic!AuditRight /\ Dynamic!NoRowLost)'
<1>1. /\ pc = "rules" /\ Len(rules) = total /\ UNCHANGED <<batch, total, rules, clean, chunks>>
      /\ pc' = "done"
  BY DEF Dynamic!SplitBatch
<1>2. PICK C, T : /\ C = {r \in Dynamic!Rows : clean[r]}
                  /\ T = {r \in Dynamic!Rows : ~clean[r]}
  OBVIOUS
<1>3. PICK good, bad : good = Dynamic!SortedRows(C) /\ bad = Dynamic!SortedRows(T)
  OBVIOUS
<1>4. outcome' =
        [clean |-> good,
         trash |-> [k \in DOMAIN bad |-> [row |-> bad[k], code |-> chunks[1][bad[k]],
                                          violated |-> Dynamic!Violated(bad[k])]]]
  BY <1>2, <1>3 DEF Dynamic!SplitBatch
<1>5. PICK trash : trash = [k \in DOMAIN bad |-> [row |-> bad[k], code |-> chunks[1][bad[k]],
                                                  violated |-> Dynamic!Violated(bad[k])]]
  OBVIOUS
<1>6. outcome'.clean = good /\ outcome'.trash = trash
  BY <1>4, <1>5
<1>7. /\ IsFiniteSet(C) /\ IsFiniteSet(T) /\ IsFiniteSet(Dynamic!Rows)
      /\ \A r \in C : r \in Nat
      /\ \A r \in T : r \in Nat
  <2>1. C \in SUBSET Dynamic!Rows /\ T \in SUBSET Dynamic!Rows
    BY <1>2
  <2>2. QED
    BY <2>1, RowsFinite, FS_Subset
<1>8. InOrder(good, C)
  BY <1>3, <1>7, DynamicSorted
<1>9. InOrder(bad, T)
  BY <1>3, <1>7, DynamicSorted
<1>10. PICK m \in Nat, n \in Nat : m = Cardinality(C) /\ n = Cardinality(T)
  BY <1>7, FS_CardinalityType
<1>11. /\ DOMAIN good = 1 .. m /\ Len(good) = m
       /\ \A k \in 1 .. m : good[k] \in C
       /\ \A x \in C : \E k \in 1 .. m : good[k] = x
  BY <1>7, <1>8, <1>10, InOrderOnto
<1>12. /\ DOMAIN bad = 1 .. n
       /\ \A k \in 1 .. n : bad[k] \in T
  BY <1>7, <1>9, <1>10, InOrderOnto
<1>13. \A i, j \in 1 .. n : i < j => bad[i] < bad[j]
  BY <1>9, <1>12 DEF InOrder
<1>14. /\ DOMAIN trash = 1 .. n /\ Len(trash) = n
       /\ \A k \in 1 .. n : /\ trash[k].row = bad[k]
                            /\ trash[k].code = chunks[1][bad[k]]
                            /\ trash[k].violated = Dynamic!Violated(bad[k])
  BY <1>5, <1>12
<1>15. (\A r : Dynamic!Broken(r)' = Dynamic!Broken(r)) /\ Dynamic!Rows' = Dynamic!Rows
  BY <1>1 DEF Dynamic!Broken, Dynamic!Rows, Dynamic!Target, Dynamic!Resolved, Dynamic!Exactly,
              Dynamic!AnyCase
<1>16. {good[k] : k \in 1 .. m} = {r \in Dynamic!Rows : Dynamic!Broken(r) = {}}
  <2>1. \A r \in Dynamic!Rows : clean[r] <=> Dynamic!Broken(r) = {}
    BY <1>1, AuditOfRow
  <2>2. C = {r \in Dynamic!Rows : Dynamic!Broken(r) = {}}
    BY <1>2, <2>1
  <2>3. QED
    BY <1>11, <2>2
<1>17. ASSUME NEW k \in 1 .. n
       PROVE  /\ trash[k].code = {i \in Dynamic!Broken(trash[k].row) : i < Width}
              /\ total > Width => Lists(trash[k].violated, Dynamic!Broken(trash[k].row))
              /\ trash[k].code # {} \/ trash[k].violated # <<>>
              /\ trash[k].row \in T
              /\ k > 1 => trash[k - 1].row < trash[k].row
  <2>1. bad[k] \in Dynamic!Rows /\ ~clean[bad[k]] /\ bad[k] \in T
    BY <1>2, <1>12
  <2>2. k > 1 => k - 1 \in 1 .. n /\ k - 1 < k
    OBVIOUS
  <2>3. k > 1 => trash[k - 1].row < trash[k].row
    BY <1>13, <1>14, <2>2
  <2>4. QED
    BY <1>1, <1>14, <2>1, <2>3, AuditOfRow
<1>18. ASSUME NEW k \in 1 .. n, total > Width
       PROVE  LET t == trash[k] IN
              /\ {t.violated[i] : i \in DOMAIN t.violated} = Dynamic!Broken(t.row)
              /\ \A i \in DOMAIN t.violated : i > 1 => t.violated[i - 1] < t.violated[i]
  <2>1. PICK l, S : l = trash[k].violated /\ S = Dynamic!Broken(trash[k].row)
    OBVIOUS
  <2>2. Lists(l, S)
    BY <1>17, <1>18, <2>1
  <2>3. PICK len \in Nat : len = Len(l) /\ DOMAIN l = 1 .. len
    BY <2>2 DEF Lists
  <2>4. {l[i] : i \in 1 .. len} = S
    BY <2>2, <2>3 DEF Lists
  <2>5. \A i \in 1 .. len : i > 1 => l[i - 1] < l[i]
    <3>1. \A i \in 1 .. len : i > 1 => i - 1 \in 1 .. len /\ i - 1 < i
      OBVIOUS
    <3>2. QED
      BY <2>2, <2>3, <3>1 DEF Lists
  <2>6. QED
    BY <2>1, <2>3, <2>4, <2>5
<1>19. m + n = Dynamic!Cardinality(Dynamic!Rows)
  <2>1. C \cap T = {} /\ C \cup T = Dynamic!Rows
    BY <1>2
  <2>2. Cardinality(C \cap T) = 0
    BY <2>1, FS_EmptySet
  <2>3. Cardinality(C \cup T) = Cardinality(C) + Cardinality(T) - Cardinality(C \cap T)
    BY <1>7, FS_Union
  <2>4. Dynamic!Cardinality(Dynamic!Rows) = Cardinality(Dynamic!Rows)
    BY DEF Dynamic!Cardinality, Cardinality
  <2>5. Cardinality(Dynamic!Rows) = m + n - 0
    BY <1>10, <2>1, <2>2, <2>3
  <2>6. m + n - 0 = m + n
    OBVIOUS
  <2>7. QED
    BY <2>4, <2>5, <2>6
<1>20. Dynamic!AuditRight'
  <2>1. ({outcome.clean[k] : k \in DOMAIN outcome.clean}
           = {r \in Dynamic!Rows : Dynamic!Broken(r) = {}})'
    BY <1>6, <1>11, <1>15, <1>16
  <2>2. \A k \in 1 .. n : Audited(trash[k])
    BY <1>17, <1>18 DEF Audited
  <2>3. \A t : Audited(t)' = Audited(t)
    BY <1>1, <1>15 DEF Audited
  <2>4. (\A k \in DOMAIN outcome.trash : Audited(outcome.trash[k]))'
    BY <1>6, <1>14, <2>2, <2>3
  <2>5. (Dynamic!AuditRight <=>
           (pc = "done" =>
              /\ {outcome.clean[k] : k \in DOMAIN outcome.clean}
                   = {r \in Dynamic!Rows : Dynamic!Broken(r) = {}}
              /\ \A k \in DOMAIN outcome.trash : Audited(outcome.trash[k])))'
    BY AuditedMeans, PTL
  <2>6. QED
    BY <2>1, <2>4, <2>5
<1>21. \A k \in 1 .. n, i \in 1 .. m : good[i] # trash[k].row
  BY <1>2, <1>11, <1>17
<1>22. (Dynamic!Cardinality(Dynamic!Rows) = m + n)'
  <2>1. m' = m /\ n' = n
    OBVIOUS
  <2>2. QED
    BY <1>15, <1>19
<1>23. Dynamic!NoRowLost'
  BY <1>1, <1>6, <1>11, <1>14, <1>17, <1>21, <1>22 DEF Dynamic!NoRowLost
<1>24. QED
  BY <1>20, <1>23

\* The invariant of an apply_rules call: the chunks built so far hold exactly the
\* rules of the prefix that each row breaks.
RulesInv == call = "dynamic" => RulesTypes /\ MasksRight /\ Dynamic!AuditRight /\ Dynamic!NoRowLost

\* The filter starts with no rule evaluated and every row clean.
LEMMA RulesInit ==
  ASSUME Dynamic!Init
  PROVE  RulesTypes /\ MasksRight /\ Dynamic!AuditRight /\ Dynamic!NoRowLost
<1>1. /\ pc = "rules" /\ rules = <<>> /\ total \in 0 .. MaxRules
      /\ clean = [r \in Dynamic!Rows |-> TRUE]
      /\ chunks = [c \in 1 .. Dynamic!NumChunks(total) |-> [r \in Dynamic!Rows |-> {}]]
      /\ batch \in {<<c>> : c \in Columns} \cup {<<c, s>> : c \in Columns, s \in Second}
  BY DEF Dynamic!Init
<1>2. MaxRules \in Nat
  BY RuleKinds
<1>3. total \in Nat /\ total <= MaxRules /\ <<>> \in Seq(Asked) /\ Len(<<>>) = 0
  BY <1>1, <1>2
<1>4. RulesTypes
  BY <1>1, <1>3 DEF RulesTypes
<1>5. \A r : BrokenSoFar(r) = {}
  BY <1>1 DEF BrokenSoFar
<1>6. MasksRight
  BY <1>1, <1>5 DEF MasksRight
<1>7. QED
  BY <1>1, <1>4, <1>6 DEF Dynamic!AuditRight, Dynamic!NoRowLost

\* Every step of the rule filter preserves its invariant.
LEMMA RulesStep ==
  ASSUME RulesTypes, MasksRight, Dynamic!Next
  PROVE  (RulesTypes /\ MasksRight /\ Dynamic!AuditRight /\ Dynamic!NoRowLost)'
<1>1. ASSUME NEW rule \in Asked, Dynamic!EvalRule(rule)
      PROVE  (RulesTypes /\ MasksRight /\ Dynamic!AuditRight /\ Dynamic!NoRowLost)'
  <2>1. pc' # "done"
    BY <1>1 DEF Dynamic!EvalRule
  <2>2. RulesTypes' /\ MasksRight'
    BY <1>1, EvalRuleRight
  <2>3. QED
    BY <2>1, <2>2 DEF Dynamic!AuditRight, Dynamic!NoRowLost
<1>2. CASE Dynamic!SplitBatch
  <2>1. /\ pc = "rules" /\ pc' = "done" /\ UNCHANGED <<batch, total, rules, clean, chunks>>
    BY <1>2 DEF Dynamic!SplitBatch
  <2>2. RulesTypes'
    BY <2>1 DEF RulesTypes, Dynamic!Rows, Dynamic!NumChunks
  <2>3. MasksRight'
    <3>1. /\ (\A r : BrokenSoFar(r)' = BrokenSoFar(r)) /\ Dynamic!Rows' = Dynamic!Rows
          /\ Dynamic!NumChunks(total)' = Dynamic!NumChunks(total)
      BY <2>1 DEF BrokenSoFar, Dynamic!Rows, Dynamic!NumChunks, Dynamic!Target,
                  Dynamic!Resolved, Dynamic!Exactly, Dynamic!AnyCase
    <3>2. QED
      BY <2>1, <3>1 DEF MasksRight
  <2>4. QED
    BY <1>2, <2>2, <2>3, RulesBatchSplit
<1>3. QED
  BY <1>1, <1>2 DEF Dynamic!Next

\* So does a step that leaves its variables alone.
LEMMA RulesStutter ==
  ASSUME RulesTypes, MasksRight, Dynamic!AuditRight, Dynamic!NoRowLost,
         UNCHANGED <<batch, outcome, pc, total, rules, clean, chunks>>
  PROVE  (RulesTypes /\ MasksRight /\ Dynamic!AuditRight /\ Dynamic!NoRowLost)'
<1>1. /\ (\A r : Dynamic!Broken(r)' = Dynamic!Broken(r)) /\ (\A r : BrokenSoFar(r)' = BrokenSoFar(r))
      /\ Dynamic!Rows' = Dynamic!Rows
      /\ Dynamic!NumChunks(total)' = Dynamic!NumChunks(total)
  BY DEF Dynamic!Broken, BrokenSoFar, Dynamic!Rows, Dynamic!NumChunks, Dynamic!Target,
         Dynamic!Resolved, Dynamic!Exactly, Dynamic!AnyCase
<1>2. RulesTypes' /\ MasksRight'
  BY <1>1 DEF RulesTypes, MasksRight
<1>3. pc' = pc /\ outcome' = outcome /\ total' = total
  OBVIOUS
<1>4. Dynamic!AuditRight'
  BY <1>1, <1>3 DEF Dynamic!AuditRight
<1>5. Dynamic!NoRowLost'
  BY <1>1, <1>3 DEF Dynamic!NoRowLost
<1>6. QED
  BY <1>2, <1>4, <1>5

\* The invariant of the rule filter holds in every reachable state.
LEMMA RulesInvariant == AuditSpec => []RulesInv
<1>1. AuditInit => RulesInv
  <2>1. SUFFICES ASSUME AuditInit, call = "dynamic" PROVE RulesInv
    BY DEF RulesInv
  <2>2. Dynamic!Init
    BY <2>1 DEF AuditInit
  <2>3. QED
    BY <2>2, RulesInit DEF RulesInv
<1>2. RulesInv /\ [AuditNext]_allVars => RulesInv'
  <2>1. SUFFICES ASSUME RulesInv, [AuditNext]_allVars, call' = "dynamic" PROVE RulesInv'
    BY DEF RulesInv
  <2>2. call = "dynamic" /\ RulesTypes /\ MasksRight /\ Dynamic!AuditRight /\ Dynamic!NoRowLost
    BY <2>1 DEF RulesInv, AuditNext, allVars
  <2>3. CASE Dynamic!Next
    BY <2>2, <2>3, RulesStep DEF RulesInv
  <2>4. CASE UNCHANGED <<batch, outcome, pc, total, rules, clean, chunks>>
    BY <2>2, <2>4, RulesStutter DEF RulesInv
  <2>5. QED
    BY <2>1, <2>2, <2>3, <2>4 DEF AuditNext, allVars, filterVars, dynamicVars
<1>3. QED
  BY <1>1, <1>2, PTL DEF AuditSpec

\* However many chunks the rules need, each row is in one batch and audited by
\* the rules it breaks.
THEOREM RulesAudit == AuditSpec => []RulesAuditRight
<1>1. RulesInv => RulesAuditRight
  BY DEF RulesInv, RulesAuditRight
<1>2. QED
  BY <1>1, RulesInvariant, PTL

-----------------------------------------------------------------------------
(* The parallel lake writer and the gold table (parquet.rs): one file of a
   job, then the files together. *)

\* The closure that handles a file.
Workers == [pc: {"wait", "read", "clean", "trash", "gold", "close", "done", "skipped"},
            k: Nat, open: SUBSET Sides, total: Nat, count: [Sides -> Nat]]

\* What a constructor of the closure's next state leaves alone.
LEMMA WorkerGoes ==
  ASSUME NEW w \in Workers,
         NEW p \in {"wait", "read", "clean", "trash", "gold", "close", "done", "skipped"},
         NEW v, v = [w EXCEPT !.pc = p]
  PROVE  /\ v \in Workers /\ v.pc = p /\ v.k = w.k /\ v.open = w.open /\ v.total = w.total
         /\ v.count = w.count
BY DEF Workers

\* A worker that passes a batch over changes its position alone.
LEMMA WorkerSkips ==
  ASSUME NEW w \in Workers, NEW n \in Nat, NEW v, v = [w EXCEPT !.k = n]
  PROVE  /\ v \in Workers /\ v.pc = w.pc /\ v.k = n /\ v.open = w.open /\ v.total = w.total
         /\ v.count = w.count
BY DEF Workers

\* After a batch is written, or has nothing to write.
LEMMA WorkerWrote ==
  ASSUME NEW w \in Workers, NEW side \in Sides, NEW f, NEW v, v = Written(side, f, w)
  PROVE  /\ v \in Workers /\ v.open = w.open /\ v.total = w.total /\ v.count = w.count
         /\ side = "clean" => v.pc = "trash" /\ v.k = w.k
         /\ side # "clean" => v.pc = "read" /\ v.k = w.k + 1
<1>1. CASE side = "clean"
  <2>1. v = [w EXCEPT !.pc = "trash"]
    BY <1>1 DEF Written
  <2>2. QED
    BY <1>1, <2>1, WorkerGoes
<1>2. CASE side # "clean"
  <2>1. v = [w EXCEPT !.pc = "read", !.k = w.k + 1]
    BY <1>2 DEF Written
  <2>2. w.k + 1 \in Nat
    BY DEF Workers
  <2>3. QED
    BY <1>2, <2>1, <2>2 DEF Workers
<1>3. QED
  BY <1>1, <1>2

\* A function on the first numbers is a sequence.
LEMMA FunctionIsSeq ==
  ASSUME NEW S, NEW n \in Nat, NEW s \in [1 .. n -> S]
  PROVE  s \in Seq(S) /\ Len(s) = n
OBVIOUS

\* A sequence of some elements is one of more.
LEMMA SeqOfMore ==
  ASSUME NEW S, NEW T, S \subseteq T, NEW s \in Seq(S)
  PROVE  s \in Seq(T)
<1>1. PICK n \in Nat : n = Len(s) /\ s \in [1 .. n -> S]
  OBVIOUS
<1>2. s \in [1 .. n -> T]
  BY <1>1
<1>3. QED
  BY <1>2, FunctionIsSeq

\* The types of an output file and of an input file.
OutFiles == [state: {"none", "open", "closed"}, rows: Seq(Nat \ {0})]
Inputs   == [readable: BOOLEAN, batches: Seq([clean: Nat, trash: Nat])]

\* The rows of the first n batches that go to one side.
KeptOf(side, batches, n) ==
  FlattenSeq([m \in 1 .. n |-> IF batches[m][side] = 0 THEN <<>> ELSE <<batches[m][side]>>])

\* The first n of a sequence.
FirstOf(e, n) == [i \in 1 .. n |-> e[i]]

\* One more element for FlattenSeq.
LEMMA FlattenOne ==
  ASSUME NEW S, NEW e, NEW n \in Nat, NEW m \in Nat, m = n + 1, EachIn(e, m, S)
  PROVE  /\ FlattenSeq(FirstOf(e, n)) \in Seq(S)
         /\ Continues(FlattenSeq(FirstOf(e, m)), FlattenSeq(FirstOf(e, n)), e[m])
<1>1. PICK p, q : p = FirstOf(e, n) /\ q = FirstOf(e, m)
  OBVIOUS
<1>2. /\ Len(p) = n /\ Len(q) = m
      /\ \A i \in 1 .. n : p[i] = e[i]
      /\ \A i \in 1 .. m : q[i] = e[i]
      /\ n = 0 => p = <<>>
  BY <1>1 DEF FirstOf
<1>3. \A i \in 1 .. n : i \in 1 .. m
  OBVIOUS
<1>4. SameTo(p, q, n)
  BY <1>2, <1>3 DEF SameTo
<1>5. EachIn(p, n, S) /\ m \in 1 .. m /\ q[m] = e[m] /\ q[m] \in Seq(S)
  BY <1>2, <1>3 DEF EachIn
<1>6. Len(p) = n /\ Len(q) = m /\ (n = 0 => p = <<>>)
  BY <1>2
<1>7. FlattenSeq(p) \in Seq(S) /\ Continues(FlattenSeq(q), FlattenSeq(p), q[m])
  <2>1. Grown(p, q, n, m, S)
    BY <1>4, <1>5, <1>6 DEF Grown
  <2>2. QED
    BY <2>1, FlattenGrown
<1>8. QED
  BY <1>1, <1>5, <1>7

\* An index of a sequence gives one of its elements.
LEMMA ElementOf ==
  ASSUME NEW S, NEW s \in Seq(S), NEW i \in 1 .. Len(s)
  PROVE  s[i] \in S
OBVIOUS

\* Of no batches nothing is kept.
LEMMA KeptNone ==
  ASSUME NEW side, NEW batches
  PROVE  KeptOf(side, batches, 0) = <<>>
<1>1. PICK p : p = [m \in 1 .. 0 |-> IF batches[m][side] = 0 THEN <<>> ELSE <<batches[m][side]>>]
  OBVIOUS
<1>2. p = <<>> /\ Len(p) = 0
  BY <1>1
<1>3. FlattenSeq(p) = <<>>
  BY <1>2, FlattenIs
<1>4. QED
  BY <1>1, <1>3 DEF KeptOf

\* A list gets the rows of a batch, if it has some.
Extends(r, a, n) == r = IF n = 0 THEN a ELSE Append(a, n)

\* The batches of an input, or of the clean file gold is copied from.
BatchLists == Seq([clean: Nat, trash: Nat])

\* One batch more.
LEMMA KeptMore ==
  ASSUME NEW side \in {"clean", "trash"}, NEW batches, batches \in BatchLists,
         NEW n \in Nat, NEW m \in Nat, m = n + 1, m <= Len(batches)
  PROVE  /\ batches[m][side] \in Nat
         /\ KeptOf(side, batches, n) \in Seq(Nat \ {0})
         /\ Extends(KeptOf(side, batches, m), KeptOf(side, batches, n), batches[m][side])
<1>1. \A i \in 1 .. m : batches[i][side] \in Nat
  <2>1. ASSUME NEW i \in 1 .. m PROVE batches[i][side] \in Nat
    <3>1. i \in 1 .. Len(batches)
      BY DEF BatchLists
    <3>2. batches[i] \in [clean: Nat, trash: Nat]
      BY <3>1, ElementOf DEF BatchLists
    <3>3. QED
      BY <3>2
  <2>2. QED
    BY <2>1
<1> DEFINE item(i) == IF batches[i][side] = 0 THEN <<>> ELSE <<batches[i][side]>>
<1>2. PICK S : S = Nat \ {0}
  OBVIOUS
<1>3. \A i \in 1 .. m : item(i) \in Seq(S)
  <2>1. ASSUME NEW i \in 1 .. m PROVE item(i) \in Seq(S)
    <3>1. PICK x \in Nat : x = batches[i][side]
      BY <1>1
    <3>2. x # 0 => <<x>> \in Seq(S)
      BY <1>2
    <3>3. <<>> \in Seq(S)
      OBVIOUS
    <3>4. QED
      BY <3>1, <3>2, <3>3
  <2>2. QED
    BY <2>1
<1>4. PICK e : e = [i \in 1 .. m |-> item(i)]
  OBVIOUS
<1>5. /\ \A i \in 1 .. m : e[i] = item(i)
      /\ \A i \in 1 .. n : i \in 1 .. m
  BY <1>4
<1>6. /\ FirstOf(e, m) = [i \in 1 .. m |-> item(i)]
      /\ FirstOf(e, n) = [i \in 1 .. n |-> item(i)]
  BY <1>5 DEF FirstOf
<1>7. /\ KeptOf(side, batches, n) = FlattenSeq(FirstOf(e, n))
      /\ KeptOf(side, batches, m) = FlattenSeq(FirstOf(e, m))
  BY <1>6 DEF KeptOf
<1>8. EachIn(e, m, S) /\ m \in 1 .. m
  <2>1. \A i \in 1 .. m : e[i] \in Seq(S)
    BY <1>3, <1>5
  <2>2. EachIn(e, m, S)
    BY <2>1 DEF EachIn
  <2>3. QED
    BY <2>2
<1>9. FlattenSeq(FirstOf(e, n)) \in Seq(S)
  BY <1>8, FlattenOne
<1>10. Continues(FlattenSeq(FirstOf(e, m)), FlattenSeq(FirstOf(e, n)), item(m))
  BY <1>5, <1>8, FlattenOne
<1>11. batches[m][side] = 0 => FlattenSeq(FirstOf(e, m)) = FlattenSeq(FirstOf(e, n))
  BY <1>9, <1>10, ContinuesNothing DEF item
<1>12. batches[m][side] # 0 =>
         FlattenSeq(FirstOf(e, m)) = Append(FlattenSeq(FirstOf(e, n)), batches[m][side])
  BY <1>9, <1>10, ContinuesOne DEF item
<1>13. QED
  BY <1>1, <1>2, <1>7, <1>8, <1>9, <1>11, <1>12 DEF Extends

\* The rows a closure has counted and not yet written.
Due(w, batches) ==
  IF w.pc = "clean" THEN batches[w.k]["clean"] + batches[w.k]["trash"]
  ELSE IF w.pc = "trash" THEN batches[w.k]["trash"] ELSE 0

\* A closure w of the lake job that handles the input src and has written t.
Handled(w, t, src) ==
  /\ w.open \in SUBSET {"clean", "trash"} /\ w.pc # "gold"
  /\ w.k >= 1 /\ w.k <= Len(src.batches) + 1
  /\ w.pc \in {"clean", "trash"} => w.k <= Len(src.batches)
  /\ w.total = w.count["clean"] + w.count["trash"] + Due(w, src.batches)
  /\ t["gold"] = NoFile
  /\ \A s \in {"clean", "trash"} : /\ SumFunction(t[s].rows) <= w.count[s]
                                   /\ t[s].state = "closed" => w.pc = "done"

\* How many batches of the input are written to a side.
Through(w, side) == IF w.pc = "trash" /\ side = "clean" THEN w.k ELSE w.k - 1

\* The side holds the rows, and the closure knows of it.
Holds(w, file, side, rows) ==
  /\ file.rows = rows /\ w.count[side] = SumFunction(rows)
  /\ file.state = IF rows = <<>> THEN "none" ELSE IF w.pc = "done" THEN "closed" ELSE "open"
  /\ side \in w.open <=> rows # <<>>

\* The same where no I/O error happened.
Faultless(w, t, src) ==
  /\ w.pc = "skipped" => ~src.readable
  /\ w.pc \notin {"wait", "skipped"} => src.readable
  /\ w.pc \in {"wait", "skipped"} => w.k = 1
  /\ w.pc \in {"close", "done"} => w.k = Len(src.batches) + 1
  /\ \A s \in {"clean", "trash"} : Holds(w, t[s], s, KeptOf(s, src.batches, Through(w, s)))

\* What a file holds for its worker does not depend on the fields Holds does not read.
LEMMA HoldsSame ==
  ASSUME NEW w, NEW v, NEW file, NEW side, NEW rows, Holds(w, file, side, rows),
         v.count[side] = w.count[side], v.open = w.open, w.pc = "done" <=> v.pc = "done"
  PROVE  Holds(v, file, side, rows)
BY DEF Holds

\* File::open, or its failure, in clean_parquet's closure (parquet.rs).
LEMMA LakeOpens ==
  ASSUME NEW w \in Workers, NEW t, NEW src \in Inputs, Handled(w, t, src), w.pc = "wait",
         NEW p \in {"read", "skipped"}, NEW v, v = [w EXCEPT !.pc = p]
  PROVE  /\ v \in Workers /\ Handled(v, t, src)
         /\ Faultless(w, t, src) /\ (src.readable <=> p = "read") => Faultless(v, t, src)
<1>1. v \in Workers /\ v.pc = p /\ v.k = w.k /\ v.open = w.open /\ v.total = w.total
      /\ v.count = w.count
  BY WorkerGoes
<1>2. Handled(v, t, src)
  BY <1>1 DEF Handled, Due
<1>3. ASSUME Faultless(w, t, src), src.readable <=> p = "read" PROVE Faultless(v, t, src)
  <2>1. \A s \in {"clean", "trash"} : Through(v, s) = Through(w, s)
    BY <1>1 DEF Through
  <2>2. \A s \in {"clean", "trash"} : Holds(v, t[s], s, KeptOf(s, src.batches, Through(v, s)))
    BY <1>1, <1>3, <2>1, HoldsSame DEF Faultless
  <2>3. QED
    BY <1>1, <1>3, <2>2 DEF Faultless
<1>4. QED
  BY <1>1, <1>2, <1>3

\* The reader yields a batch and the filter divides it.
LEMMA LakeReads ==
  ASSUME NEW w \in Workers, NEW t, NEW src \in Inputs, Handled(w, t, src), w.pc = "read",
         w.k <= Len(src.batches),
         NEW v, v = [w EXCEPT !.total = w.total + src.batches[w.k].clean + src.batches[w.k].trash,
                              !.pc = "clean"]
  PROVE  /\ v \in Workers /\ Handled(v, t, src)
         /\ Faultless(w, t, src) => Faultless(v, t, src)
<1>1. /\ src.batches[w.k].clean \in Nat /\ src.batches[w.k].trash \in Nat
  <2>1. PICK b \in Seq([clean: Nat, trash: Nat]), k \in Nat : b = src.batches /\ k = w.k
    BY DEF Workers, Inputs
  <2>2. k \in 1 .. Len(b)
    BY <2>1 DEF Handled
  <2>3. b[k] \in [clean: Nat, trash: Nat]
    BY <2>2, ElementOf
  <2>4. QED
    BY <2>1, <2>3
<1>2. PICK a \in Nat, b \in Nat, n \in Nat :
        a = src.batches[w.k].clean /\ b = src.batches[w.k].trash /\ n = w.total + a + b
  <2>1. w.total \in Nat
    BY DEF Workers
  <2>2. w.total + src.batches[w.k].clean + src.batches[w.k].trash \in Nat
    BY <1>1, <2>1
  <2>3. QED
    BY <1>1, <2>2
<1>3. v \in Workers /\ v.pc = "clean" /\ v.k = w.k /\ v.open = w.open /\ v.total = n
      /\ v.count = w.count
  <2>1. v = [w EXCEPT !.total = n, !.pc = "clean"]
    BY <1>2
  <2>2. QED
    BY <2>1 DEF Workers
<1>4. Due(w, src.batches) = 0 /\ Due(v, src.batches) = a + b
  BY <1>2, <1>3 DEF Due
<1>5. v.total = v.count["clean"] + v.count["trash"] + Due(v, src.batches)
  <2>1. PICK x \in Nat, y \in Nat : x = w.count["clean"] /\ y = w.count["trash"]
    BY DEF Workers, Sides
  <2>2. w.total = x + y + 0
    BY <1>4, <2>1 DEF Handled
  <2>3. n = x + y + (a + b)
    BY <1>2, <2>2
  <2>4. QED
    BY <1>3, <1>4, <2>1, <2>3
<1>6. Handled(v, t, src)
  BY <1>3, <1>5 DEF Handled
<1>7. ASSUME Faultless(w, t, src) PROVE Faultless(v, t, src)
  <2>1. \A s \in {"clean", "trash"} : Through(v, s) = Through(w, s)
    BY <1>3 DEF Through
  <2>2. \A s \in {"clean", "trash"} : Holds(v, t[s], s, KeptOf(s, src.batches, Through(v, s)))
    BY <1>3, <1>7, <2>1, HoldsSame DEF Faultless
  <2>3. QED
    BY <1>3, <1>7, <2>2 DEF Faultless
<1>8. QED
  BY <1>3, <1>6, <1>7

\* A batch that could not be read.
LEMMA LakeDrops ==
  ASSUME NEW w \in Workers, NEW t, NEW src \in Inputs, Handled(w, t, src), w.pc = "read",
         w.k <= Len(src.batches), NEW v, v = [w EXCEPT !.k = w.k + 1]
  PROVE  v \in Workers /\ Handled(v, t, src)
<1>1. w.k + 1 \in Nat /\ w.k + 1 >= 1 /\ w.k + 1 <= Len(src.batches) + 1
  BY DEF Workers, Inputs
<1>2. v \in Workers /\ v.pc = w.pc /\ v.k = w.k + 1 /\ v.open = w.open /\ v.total = w.total
      /\ v.count = w.count
  BY <1>1, WorkerSkips
<1>3. Due(w, src.batches) = 0 /\ Due(v, src.batches) = 0
  BY <1>2 DEF Due
<1>4. QED
  BY <1>1, <1>2, <1>3 DEF Handled

\* The reader has no more batches.
LEMMA LakeEnds ==
  ASSUME NEW w \in Workers, NEW t, NEW src \in Inputs, Handled(w, t, src), w.pc = "read",
         w.k > Len(src.batches), NEW v, v = [w EXCEPT !.pc = "close"]
  PROVE  /\ v \in Workers /\ Handled(v, t, src)
         /\ Faultless(w, t, src) => Faultless(v, t, src)
<1>1. v \in Workers /\ v.pc = "close" /\ v.k = w.k /\ v.open = w.open /\ v.total = w.total
      /\ v.count = w.count
  BY WorkerGoes
<1>2. Handled(v, t, src)
  BY <1>1 DEF Handled, Due
<1>3. w.k = Len(src.batches) + 1
  <2>1. PICK n \in Nat : n = Len(src.batches)
    BY DEF Inputs
  <2>2. w.k \in Nat /\ w.k <= n + 1 /\ w.k > n
    BY <2>1 DEF Handled, Workers
  <2>3. QED
    BY <2>1, <2>2
<1>4. ASSUME Faultless(w, t, src) PROVE Faultless(v, t, src)
  <2>1. \A s \in {"clean", "trash"} : Through(v, s) = Through(w, s)
    BY <1>1 DEF Through
  <2>2. \A s \in {"clean", "trash"} : Holds(v, t[s], s, KeptOf(s, src.batches, Through(v, s)))
    BY <1>1, <1>4, <2>1, HoldsSame DEF Faultless
  <2>3. QED
    BY <1>1, <1>3, <1>4, <2>2 DEF Faultless
<1>5. QED
  BY <1>1, <1>2, <1>4

\* Rows that are added to a file's.
LEMMA SumOfRows ==
  ASSUME NEW rows \in Seq(Nat \ {0}), NEW n \in Nat \ {0}
  PROVE  /\ Append(rows, n) \in Seq(Nat \ {0}) /\ Append(rows, n) # <<>>
         /\ SumFunction(Append(rows, n)) = SumFunction(rows) + n
         /\ SumFunction(rows) \in Nat
<1>1. rows \in Seq(Nat)
  BY SeqOfMore
<1>2. Append(rows, n) \in Seq(Nat \ {0})
  OBVIOUS
<1>3. Append(rows, n) # <<>>
  <2>1. Len(Append(rows, n)) = Len(rows) + 1 /\ Len(rows) \in Nat
    OBVIOUS
  <2>2. Len(<<>>) = 0
    OBVIOUS
  <2>3. QED
    BY <2>1, <2>2
<1>4. QED
  BY <1>1, <1>2, <1>3, SumAppend

\* No batches, no rows.
LEMMA SumOfNone == SumFunction(<<>>) = 0
<1>1. DOMAIN <<>> = {} /\ IsFiniteSet({})
  BY FS_EmptySet
<1>2. SumFunctionOnSet(<<>>, {}) = 0
  BY <1>1, SumStep
<1>3. QED
  BY <1>1, <1>2 DEF SumFunction

\* The closure has a batch to write.
LEMMA BatchTyped ==
  ASSUME NEW w \in Workers, NEW t, NEW src \in Inputs, Handled(w, t, src),
         w.pc \in {"clean", "trash"}
  PROVE  /\ w.k \in Nat \ {0} /\ w.k <= Len(src.batches)
         /\ src.batches[w.k]["clean"] \in Nat /\ src.batches[w.k]["trash"] \in Nat
         /\ w.count["clean"] \in Nat /\ w.count["trash"] \in Nat /\ w.total \in Nat
         /\ w.total = w.count["clean"] + w.count["trash"]
                        + (IF w.pc = "clean" THEN src.batches[w.k]["clean"] ELSE 0)
                        + src.batches[w.k]["trash"]
<1>1. PICK b \in Seq([clean: Nat, trash: Nat]), k \in Nat : b = src.batches /\ k = w.k
  BY DEF Workers, Inputs
<1>2. k \in 1 .. Len(b)
  BY <1>1 DEF Handled
<1>3. b[k] \in [clean: Nat, trash: Nat]
  BY <1>2, ElementOf
<1>4. PICK x \in Nat, y \in Nat, p \in Nat, q \in Nat :
        x = w.count["clean"] /\ y = w.count["trash"] /\ p = b[k]["clean"] /\ q = b[k]["trash"]
  BY <1>3 DEF Workers, Sides
<1>5. w.total = x + y + Due(w, b) /\ w.total \in Nat
  BY <1>1, <1>4 DEF Handled, Workers
<1>6. Due(w, b) = IF w.pc = "clean" THEN p + q ELSE q
  BY <1>1, <1>4 DEF Due
<1>7. w.total = x + y + (IF w.pc = "clean" THEN p ELSE 0) + q
  BY <1>5, <1>6
<1>8. k # 0 /\ k <= Len(b)
  BY <1>2
<1>9. QED
  BY <1>1, <1>4, <1>5, <1>7, <1>8

\* The closure counts n rows of a side and turns to the next thing to do.
Counts(v, w, side, n) ==
  /\ v.pc = (IF side = "clean" THEN "trash" ELSE "read")
  /\ v.k = (IF side = "clean" THEN w.k ELSE w.k + 1) /\ v.total = w.total
  /\ v.count[side] = w.count[side] + n
  /\ \A s \in Sides \ {side} : v.count[s] = w.count[s]

\* Counting the rows of a side moves them from what is due.
LEMMA CountMoves ==
  ASSUME NEW w \in Workers, NEW t, NEW src \in Inputs, Handled(w, t, src),
         NEW side \in {"clean", "trash"}, w.pc = side,
         NEW n \in Nat, n = src.batches[w.k][side], NEW v \in Workers, Counts(v, w, side, n)
  PROVE  /\ v.k >= 1 /\ v.k <= Len(src.batches) + 1
         /\ v.pc \in {"clean", "trash"} => v.k <= Len(src.batches)
         /\ v.total = v.count["clean"] + v.count["trash"] + Due(v, src.batches)
<1>1. /\ w.k \in Nat \ {0} /\ w.k <= Len(src.batches)
      /\ src.batches[w.k]["clean"] \in Nat /\ src.batches[w.k]["trash"] \in Nat
      /\ w.count["clean"] \in Nat /\ w.count["trash"] \in Nat
      /\ w.total = w.count["clean"] + w.count["trash"]
                      + (IF w.pc = "clean" THEN src.batches[w.k]["clean"] ELSE 0)
                      + src.batches[w.k]["trash"]
  BY BatchTyped
<1>2. PICK k \in Nat, len \in Nat : k = w.k /\ len = Len(src.batches) /\ k >= 1 /\ k <= len
  <2>1. Len(src.batches) \in Nat
    BY DEF Inputs
  <2>2. QED
    BY <1>1, <2>1
<1>3. PICK x \in Nat, y \in Nat : x = w.count["clean"] /\ y = w.count["trash"]
  BY <1>1
<1>4. PICK p \in Nat, q \in Nat : p = src.batches[w.k]["clean"] /\ q = src.batches[w.k]["trash"]
  BY <1>1
<1>5. CASE side = "clean"
  <2>1. v.k = k /\ v.pc = "trash" /\ v.count["clean"] = x + p /\ v.count["trash"] = y
    BY <1>1, <1>5, <1>2, <1>3, <1>4 DEF Sides, Counts
  <2>2. Due(v, src.batches) = q
    BY <1>1, <1>2, <1>3, <1>4, <2>1 DEF Due
  <2>3. v.total = x + y + p + q
    BY <1>1, <1>5, <1>2, <1>3, <1>4 DEF Counts
  <2>4. x + y + p + q = (x + p) + y + q
    OBVIOUS
  <2>5. k >= 1 /\ k <= len /\ k <= len + 1
    BY <1>2
  <2>6. QED
    BY <1>1, <1>2, <2>1, <2>2, <2>3, <2>4, <2>5
<1>6. CASE side = "trash"
  <2>1. v.k = k + 1 /\ v.pc = "read" /\ v.count["trash"] = y + q /\ v.count["clean"] = x
    BY <1>1, <1>6, <1>2, <1>3, <1>4 DEF Sides, Counts
  <2>2. Due(v, src.batches) = 0
    BY <2>1 DEF Due
  <2>3. v.total = x + y + 0 + q
    BY <1>1, <1>6, <1>2, <1>3, <1>4 DEF Counts
  <2>4. x + y + 0 + q = x + (y + q) + 0
    OBVIOUS
  <2>5. k + 1 >= 1 /\ k + 1 <= len + 1
    BY <1>2
  <2>6. QED
    BY <1>1, <1>2, <2>1, <2>2, <2>3, <2>4, <2>5
<1>7. QED
  BY <1>5, <1>6

\* The rows that go through with a batch.
LEMMA ThroughOne ==
  ASSUME NEW w \in Workers, NEW t, NEW src \in Inputs, Handled(w, t, src),
         NEW side \in {"clean", "trash"}, w.pc = side, NEW n \in Nat, n = src.batches[w.k][side],
         NEW v, Counts(v, w, side, n)
  PROVE  /\ KeptOf(side, src.batches, Through(w, side)) \in Seq(Nat \ {0})
         /\ Extends(KeptOf(side, src.batches, Through(v, side)),
                    KeptOf(side, src.batches, Through(w, side)), n)
         /\ \A s \in {"clean", "trash"} \ {side} : Through(v, s) = Through(w, s)
<1>1. w.k \in Nat \ {0} /\ w.k <= Len(src.batches)
  BY BatchTyped
<1>2. PICK k \in Nat, m \in Nat : m = w.k /\ m = k + 1
  <2>1. w.k - 1 \in Nat /\ w.k = (w.k - 1) + 1
    BY <1>1
  <2>2. QED
    BY <1>1, <2>1
<1>3. m - 1 = k /\ (m + 1) - 1 = m
  BY <1>2
<1>4. /\ Through(w, side) = k
      /\ Through(v, side) = m
      /\ \A s \in {"clean", "trash"} \ {side} : Through(v, s) = Through(w, s)
  BY <1>2, <1>3 DEF Through, Counts
<1>5. src.batches \in BatchLists
  BY DEF Inputs, BatchLists
<1>6. PICK b : b = src.batches
  OBVIOUS
<1>7. /\ KeptOf(side, b, k) \in Seq(Nat \ {0})
      /\ Extends(KeptOf(side, b, m), KeptOf(side, b, k), b[m][side])
  BY <1>1, <1>2, <1>5, <1>6, KeptMore
<1>8. QED
  BY <1>2, <1>4, <1>6, <1>7

\* A side gets n more rows, in a new file unless the closure has one open.
WrittenTo(u, t, side, n, open) ==
  u = [t EXCEPT ![side] = [state |-> "open",
                           rows |-> Append(IF side \in open THEN t[side].rows ELSE <<>>, n)]]

\* The worker's writer of this side exists now.
Opens(v, w, side) == v.open = w.open \cup {side}

\* The batch is written.
LEMMA LakeWrites ==
  ASSUME NEW w \in Workers, NEW t \in [Sides -> OutFiles], NEW src \in Inputs,
         Handled(w, t, src), NEW side \in {"clean", "trash"}, w.pc = side,
         NEW n \in Nat \ {0}, n = src.batches[w.k][side],
         NEW u, WrittenTo(u, t, side, n, w.open),
         NEW v, v \in Workers, Opens(v, w, side), Counts(v, w, side, n)
  PROVE  /\ Handled(v, u, src)
         /\ Faultless(w, t, src) => Faultless(v, u, src)
<1> PICK old : old = IF side \in w.open THEN t[side].rows ELSE <<>>
  OBVIOUS
<1>. u = [t EXCEPT ![side] = [state |-> "open", rows |-> Append(old, n)]]
  BY DEF WrittenTo
<1>. v.open = w.open \cup {side}
  BY DEF Opens
<1>1. /\ v.count[side] = w.count[side] + n /\ \A s \in Sides \ {side} : v.count[s] = w.count[s]
      /\ v.pc \in {"trash", "read"}
  BY DEF Counts
<1>2. side \in Sides /\ t[side] \in OutFiles
  BY DEF Sides
<1>3. old \in Seq(Nat \ {0})
  BY <1>2 DEF OutFiles
<1>4. /\ Append(old, n) \in Seq(Nat \ {0}) /\ Append(old, n) # <<>>
      /\ SumFunction(Append(old, n)) = SumFunction(old) + n
      /\ SumFunction(old) \in Nat
  BY <1>3, SumOfRows
<1>5. /\ u \in [Sides -> OutFiles]
      /\ u[side] = [state |-> "open", rows |-> Append(old, n)]
      /\ \A s \in Sides \ {side} : u[s] = t[s]
  BY <1>2, <1>4 DEF OutFiles
<1>6. SumFunction(old) <= w.count[side]
  <2>1. CASE side \in w.open
    BY <2>1 DEF Handled
  <2>2. CASE side \notin w.open
    <3>1. SumFunction(old) = 0
      BY <2>2, SumOfNone
    <3>2. w.count[side] \in Nat
      BY <1>2 DEF Workers
    <3>3. QED
      BY <3>1, <3>2
  <2>3. QED
    BY <2>1, <2>2
<1>7. SumFunction(u[side].rows) <= v.count[side]
  <2>1. PICK a \in Nat, c \in Nat : a = SumFunction(old) /\ c = w.count[side]
    BY <1>2, <1>4 DEF Workers
  <2>2. a + n <= c + n
    BY <1>6, <2>1
  <2>3. QED
    BY <1>1, <1>4, <1>5, <2>1, <2>2
<1>8. \A s \in {"clean", "trash"} : /\ SumFunction(u[s].rows) <= v.count[s]
                                    /\ u[s].state = "closed" => v.pc = "done"
  <2>1. ASSUME NEW s \in {"clean", "trash"}, s # side
        PROVE  SumFunction(u[s].rows) <= v.count[s] /\ u[s].state # "closed"
    <3>1. u[s] = t[s] /\ v.count[s] = w.count[s]
      BY <1>1, <1>5, <2>1 DEF Sides
    <3>2. w.pc # "done"
      OBVIOUS
    <3>3. QED
      BY <3>1, <3>2 DEF Handled
  <2>2. u[side].state # "closed"
    BY <1>5
  <2>3. QED
    BY <1>7, <2>1, <2>2
<1>9. Handled(v, u, src)
  <2>1. u["gold"] = NoFile
    BY <1>5 DEF Handled, Sides
  <2>2. v.open \in SUBSET {"clean", "trash"} /\ v.pc # "gold"
    BY <1>1 DEF Handled
  <2>3. n \in Nat
    OBVIOUS
  <2>4. /\ v.k >= 1 /\ v.k <= Len(src.batches) + 1
        /\ v.pc \in {"clean", "trash"} => v.k <= Len(src.batches)
        /\ v.total = v.count["clean"] + v.count["trash"] + Due(v, src.batches)
    BY <2>3, CountMoves
  <2>5. QED
    BY <1>8, <2>1, <2>2, <2>4 DEF Handled
<1>10. ASSUME Faultless(w, t, src) PROVE Faultless(v, u, src)
  <2>1. PICK rows : rows = KeptOf(side, src.batches, Through(w, side))
    OBVIOUS
  <2>2. Holds(w, t[side], side, rows)
    BY <1>10, <2>1 DEF Faultless
  <2>3. old = rows /\ w.count[side] = SumFunction(rows)
    BY <2>2 DEF Holds
  <2>4. n \in Nat
    OBVIOUS
  <2>5. /\ KeptOf(side, src.batches, Through(v, side)) = Append(rows, n)
        /\ \A s \in {"clean", "trash"} \ {side} : Through(v, s) = Through(w, s)
    <3>1. /\ Extends(KeptOf(side, src.batches, Through(v, side)), rows, n)
          /\ \A s \in {"clean", "trash"} \ {side} : Through(v, s) = Through(w, s)
      BY <2>1, <2>4, ThroughOne
    <3>2. n # 0
      OBVIOUS
    <3>3. QED
      BY <3>1, <3>2 DEF Extends
  <2>6. Holds(v, u[side], side, Append(rows, n))
    BY <1>1, <1>4, <1>5, <2>3 DEF Holds
  <2>7. ASSUME NEW s \in {"clean", "trash"}, s # side
        PROVE  Holds(v, u[s], s, KeptOf(s, src.batches, Through(v, s)))
    <3>1. u[s] = t[s] /\ v.count[s] = w.count[s] /\ Through(v, s) = Through(w, s)
          /\ (s \in v.open <=> s \in w.open)
      BY <1>1, <1>5, <2>5, <2>7 DEF Sides
    <3>2. Holds(w, t[s], s, KeptOf(s, src.batches, Through(w, s)))
      BY <1>10 DEF Faultless
    <3>3. w.pc # "done" /\ v.pc # "done"
      BY <1>1
    <3>4. QED
      BY <3>1, <3>2, <3>3 DEF Holds
  <2>8. \A s \in {"clean", "trash"} : Holds(v, u[s], s, KeptOf(s, src.batches, Through(v, s)))
    BY <2>5, <2>6, <2>7
  <2>9. v.pc \notin {"wait", "skipped", "close", "done"} /\ src.readable
    BY <1>1, <1>10 DEF Faultless
  <2>10. QED
    BY <2>8, <2>9 DEF Faultless
<1>11. QED
  BY <1>5, <1>9, <1>10

\* Nothing is added to the file, or it is created and stays empty.
Unwritten(u, t, side) == u = t \/ u = [t EXCEPT ![side] = [state |-> "open", rows |-> <<>>]]

\* The worker's writer of this side may exist now.
MayOpen(v, w, side) == v.open \in SUBSET (w.open \cup {side})

\* The batch is counted and not written.
LEMMA LakeFails ==
  ASSUME NEW w \in Workers, NEW t \in [Sides -> OutFiles], NEW src \in Inputs,
         Handled(w, t, src), NEW side \in {"clean", "trash"}, w.pc = side,
         NEW n \in Nat, n = src.batches[w.k][side],
         NEW u, Unwritten(u, t, side),
         NEW v, v \in Workers, MayOpen(v, w, side), Counts(v, w, side, n)
  PROVE  Handled(v, u, src)
<1>1. /\ v.count[side] = w.count[side] + n /\ \A s \in Sides \ {side} : v.count[s] = w.count[s]
      /\ v.pc \in {"trash", "read"}
  BY DEF Counts
<1>2. side \in Sides /\ t[side] \in OutFiles
  BY DEF Sides
<1>3. [state |-> "open", rows |-> <<>>] \in OutFiles
  BY DEF OutFiles
<1>4. /\ u \in [Sides -> OutFiles]
      /\ u[side] = t[side] \/ u[side] = [state |-> "open", rows |-> <<>>]
      /\ \A s \in Sides \ {side} : u[s] = t[s]
  BY <1>2, <1>3 DEF Unwritten
<1>5. SumFunction(t[side].rows) <= w.count[side] /\ t[side].state # "closed"
  BY DEF Handled
<1>6. PICK c \in Nat : c = w.count[side]
  BY <1>2 DEF Workers
<1>7. SumFunction(t[side].rows) \in Nat
  <2>1. t[side].rows \in Seq(Nat \ {0})
    BY <1>2 DEF OutFiles
  <2>2. 1 \in Nat \ {0}
    OBVIOUS
  <2>3. QED
    BY <2>1, <2>2, SumOfRows
<1>8. PICK a \in Nat : a = SumFunction(t[side].rows) /\ a <= c + n
  <2>1. \A a \in Nat : a <= c => a <= c + n
    OBVIOUS
  <2>2. QED
    BY <1>5, <1>6, <1>7, <2>1
<1>9. 0 <= c + n
  OBVIOUS
<1>10. SumFunction(u[side].rows) <= v.count[side] /\ u[side].state # "closed"
  BY <1>1, <1>4, <1>5, <1>6, <1>8, <1>9, SumOfNone
<1>11. ASSUME NEW s \in {"clean", "trash"}, s # side
       PROVE  SumFunction(u[s].rows) <= v.count[s] /\ u[s].state # "closed"
  <2>1. u[s] = t[s] /\ v.count[s] = w.count[s]
    BY <1>1, <1>4, <1>11 DEF Sides
  <2>2. w.pc # "done"
    OBVIOUS
  <2>3. QED
    BY <2>1, <2>2 DEF Handled
<1>12. \A s \in {"clean", "trash"} : SumFunction(u[s].rows) <= v.count[s] /\ u[s].state # "closed"
  BY <1>10, <1>11
<1>13. u["gold"] = NoFile
  BY <1>4 DEF Handled, Sides
<1>14. v.open \in SUBSET {"clean", "trash"} /\ v.pc # "gold"
  BY <1>1 DEF Handled, MayOpen
<1>15. /\ v.k >= 1 /\ v.k <= Len(src.batches) + 1
       /\ v.pc \in {"clean", "trash"} => v.k <= Len(src.batches)
       /\ v.total = v.count["clean"] + v.count["trash"] + Due(v, src.batches)
  BY CountMoves
<1>16. QED
  BY <1>4, <1>12, <1>13, <1>14, <1>15 DEF Handled

\* A batch without rows for the side.
LEMMA LakeWritesNothing ==
  ASSUME NEW w \in Workers, NEW t \in [Sides -> OutFiles], NEW src \in Inputs,
         Handled(w, t, src), NEW side \in {"clean", "trash"}, w.pc = side,
         NEW n \in Nat, n = src.batches[w.k][side], n <= 0,
         NEW v, v \in Workers, v.open = w.open, Counts(v, w, side, n)
  PROVE  Handled(v, t, src) /\ (Faultless(w, t, src) => Faultless(v, t, src))
<1>1. n = 0
  OBVIOUS
<1>2. v.pc \in {"trash", "read"} /\ v.count["clean"] = w.count["clean"] /\ v.count["trash"] = w.count["trash"]
  <2>1. w.count["clean"] \in Nat /\ w.count["trash"] \in Nat
    BY DEF Workers, Sides
  <2>2. QED
    BY <1>1, <2>1 DEF Counts, Sides
<1>3. MayOpen(v, w, side)
  BY DEF MayOpen
<1>4. PICK u : u = t
  OBVIOUS
<1>5. Handled(v, u, src)
  <2>1. Unwritten(u, t, side)
    BY <1>4 DEF Unwritten
  <2>2. QED
    BY <1>3, <2>1, LakeFails
<1>6. ASSUME Faultless(w, t, src) PROVE Faultless(v, t, src)
  <2>1. /\ Extends(KeptOf(side, src.batches, Through(v, side)),
                   KeptOf(side, src.batches, Through(w, side)), n)
        /\ \A s \in {"clean", "trash"} \ {side} : Through(v, s) = Through(w, s)
    BY ThroughOne
  <2>2. \A s \in {"clean", "trash"} :
          KeptOf(s, src.batches, Through(v, s)) = KeptOf(s, src.batches, Through(w, s))
    BY <1>1, <2>1 DEF Extends
  <2>3. ASSUME NEW s \in {"clean", "trash"}
        PROVE  Holds(v, t[s], s, KeptOf(s, src.batches, Through(v, s)))
    <3>1. Holds(w, t[s], s, KeptOf(s, src.batches, Through(v, s)))
      BY <1>6, <2>2 DEF Faultless
    <3>2. w.pc # "done" /\ v.pc # "done"
      BY <1>2
    <3>3. QED
      BY <1>2, <3>1, <3>2, HoldsSame
  <2>4. v.pc \notin {"wait", "skipped", "close", "done"} /\ src.readable
    BY <1>2, <1>6 DEF Faultless
  <2>5. QED
    BY <2>3, <2>4 DEF Faultless
<1>7. QED
  BY <1>4, <1>5, <1>6

\* The files that are open get a footer, and those of lost none.
ClosedFiles(u, t, open, lost) ==
  /\ lost \in SUBSET open
  /\ u = [s \in Sides |-> [t[s] EXCEPT !.state = IF s \in open \ lost THEN "closed" ELSE @]]

\* No writer failed to finish its file.
Lossless(lost) == lost = {}

\* The footers are written.
LEMMA LakeCloses ==
  ASSUME NEW w \in Workers, NEW t \in [Sides -> OutFiles], NEW src \in Inputs,
         Handled(w, t, src), w.pc = "close", NEW lost,
         NEW u, ClosedFiles(u, t, w.open, lost),
         NEW v, v = [w EXCEPT !.pc = "done"]
  PROVE  /\ v \in Workers /\ Handled(v, u, src)
         /\ Faultless(w, t, src) /\ Lossless(lost) => Faultless(v, u, src)
<1>1. v \in Workers /\ v.pc = "done" /\ v.k = w.k /\ v.open = w.open /\ v.total = w.total
      /\ v.count = w.count
  BY WorkerGoes
<1>2. ASSUME NEW s \in Sides
      PROVE  /\ u[s] \in OutFiles /\ u[s].rows = t[s].rows
             /\ u[s].state = IF s \in w.open \ lost THEN "closed" ELSE t[s].state
             /\ s \notin w.open => u[s] = t[s]
  <2>1. t[s] \in OutFiles
    OBVIOUS
  <2>2. u[s] = [t[s] EXCEPT !.state = IF s \in w.open \ lost THEN "closed" ELSE t[s].state]
    BY DEF ClosedFiles
  <2>3. QED
    BY <2>1, <2>2 DEF OutFiles
<1>3. u \in [Sides -> OutFiles]
  BY <1>2 DEF ClosedFiles
<1>4. Handled(v, u, src)
  <2>1. "gold" \in Sides /\ "gold" \notin w.open
    BY DEF Handled, Sides
  <2>2. u["gold"] = NoFile
    BY <1>2, <2>1 DEF Handled
  <2>3. \A s \in {"clean", "trash"} : u[s].rows = t[s].rows
    BY <1>2 DEF Sides
  <2>4. QED
    BY <1>1, <2>2, <2>3 DEF Handled, Due
<1>5. ASSUME Faultless(w, t, src), Lossless(lost) PROVE Faultless(v, u, src)
  <2>1. ASSUME NEW s \in {"clean", "trash"}
        PROVE  Holds(v, u[s], s, KeptOf(s, src.batches, Through(v, s)))
    <3>1. Through(v, s) = Through(w, s)
      BY <1>1 DEF Through
    <3>2. PICK rows : rows = KeptOf(s, src.batches, Through(w, s))
      OBVIOUS
    <3>3. Holds(w, t[s], s, rows)
      BY <1>5, <3>2 DEF Faultless
    <3>4. s \in Sides
      BY DEF Sides
    <3>5. u[s].rows = t[s].rows /\ u[s].state = IF s \in w.open THEN "closed" ELSE t[s].state
      BY <1>2, <1>5, <3>4 DEF Lossless
    <3>6. Holds(v, u[s], s, rows)
      BY <1>1, <3>3, <3>5 DEF Holds
    <3>7. QED
      BY <3>1, <3>2, <3>6
  <2>2. QED
    BY <1>1, <1>5, <2>1 DEF Faultless
<1>6. QED
  BY <1>1, <1>3, <1>4, <1>5

\* A closure w of the gold job that reads the clean file c and has written g.
Gilded(w, g, c) ==
  /\ w.open \in SUBSET {"gold"} /\ w.pc \notin {"clean", "trash"}
  /\ w.pc \notin {"wait", "skipped"} => c.state = "closed"
  /\ w.k >= 1 /\ w.k <= Len(c.rows) + 1
  /\ w.pc = "gold" => w.k <= Len(c.rows)
  /\ SumFunction(g.rows) <= w.count["gold"]
  /\ w.count["gold"] <= SumTo(c.rows, w.k - 1)
  /\ g.state = "closed" => w.pc = "done"

\* The same where no I/O error happened: what was read is written.
Copied(w, g, c) ==
  /\ Len(g.rows) = w.k - 1 /\ \A i \in 1 .. w.k - 1 : g.rows[i] = c.rows[i]
  /\ w.count["gold"] = SumFunction(g.rows)
  /\ g.state = IF w.k = 1 THEN "none" ELSE IF w.pc = "done" THEN "closed" ELSE "open"
  /\ "gold" \in w.open <=> w.k # 1

\* The same for a copy without an I/O error: it is complete once it is closed.
TrulyGilded(w, g, c) ==
  /\ w.pc = "skipped" => c.state = "open"
  /\ w.pc \in {"wait", "skipped"} => w.k = 1
  /\ w.pc \in {"close", "done"} => w.k = Len(c.rows) + 1
  /\ Copied(w, g, c)

\* The rows of a file, and their sums.
LEMMA RowsTyped ==
  ASSUME NEW c \in OutFiles
  PROVE  /\ c.rows \in Seq(Nat \ {0}) /\ Len(c.rows) \in Nat /\ DOMAIN c.rows = 1 .. Len(c.rows)
         /\ \A i \in 1 .. Len(c.rows) : c.rows[i] \in Nat \ {0}
         /\ SumFunction(c.rows) \in Nat /\ SumTo(c.rows, 0) = 0
         /\ SumTo(c.rows, Len(c.rows)) = SumFunction(c.rows)
<1>1. PICK r \in Seq(Nat \ {0}), len \in Nat : r = c.rows /\ len = Len(r)
  BY DEF OutFiles
<1>2. DOMAIN r = 1 .. len /\ \A i \in 1 .. len : r[i] \in Nat \ {0}
  BY <1>1
<1>3. SumFunction(r) \in Nat
  <2>1. 1 \in Nat \ {0}
    OBVIOUS
  <2>2. QED
    BY <2>1, SumOfRows
<1>4. SumTo(r, 0) = 0
  <2>1. \A i \in 1 .. 0 : r[i] \in Nat
    OBVIOUS
  <2>2. 0 \in Nat
    OBVIOUS
  <2>3. QED
    BY <2>1, <2>2, SumToStep
<1>5. SumTo(r, len) = SumFunction(r)
  BY <1>2 DEF SumTo, SumFunction
<1>6. QED
  BY <1>1, <1>2, <1>3, <1>4, <1>5

\* A sum over more numbers is not smaller.
LEMMA SumToGrows ==
  ASSUME NEW f, NEW n \in Nat, NEW m \in Nat, m <= n, \A i \in 1 .. n : f[i] \in Nat
  PROVE  SumTo(f, m) <= SumTo(f, n)
<1> DEFINE K == {k \in Nat : k <= n /\ m <= k /\ ~(SumTo(f, m) <= SumTo(f, k))}
<1>1. SUFFICES ASSUME K # {} PROVE FALSE
  <2>1. n \in K \/ SumTo(f, m) <= SumTo(f, n)
    OBVIOUS
  <2>2. QED
    BY <2>1
<1>2. PICK k \in K : \A i \in K : k <= i
  <2>1. K \subseteq Nat
    OBVIOUS
  <2> HIDE DEF K
  <2>2. QED
    BY <1>1, <2>1, LeastExists
<1>3. k \in Nat /\ k <= n /\ m <= k /\ ~(SumTo(f, m) <= SumTo(f, k))
  OBVIOUS
<1>4. \A i \in 1 .. k : f[i] \in Nat
  BY <1>3
<1>5. SumTo(f, k) \in Nat
  BY <1>3, <1>4, SumToStep
<1>6. k # m
  <2>1. k = m => SumTo(f, m) <= SumTo(f, k)
    BY <1>5
  <2>2. QED
    BY <1>3, <2>1
<1>7. k > 0 /\ k - 1 \in Nat /\ k - 1 <= n /\ m <= k - 1 /\ ~(k <= k - 1)
  BY <1>3, <1>6
<1>8. SumTo(f, m) <= SumTo(f, k - 1)
  BY <1>2, <1>7
<1>9. SumTo(f, k) = SumTo(f, k - 1) + f[k] /\ SumTo(f, k - 1) \in Nat
  BY <1>3, <1>4, <1>7, SumToStep
<1>10. SumTo(f, m) \in Nat
  <2>1. \A i \in 1 .. m : f[i] \in Nat
    OBVIOUS
  <2>2. QED
    BY <2>1, SumToStep
<1>11. f[k] \in Nat
  BY <1>3, <1>4, <1>7
<1> HIDE DEF K
<1>12. QED
  BY <1>3, <1>8, <1>9, <1>10, <1>11

\* The rows copied up to a batch, and up to the next one.
LEMMA RowsSum ==
  ASSUME NEW c \in OutFiles, NEW n \in Nat, NEW m \in Nat, m = n + 1, m <= Len(c.rows)
  PROVE  /\ c.rows[m] \in Nat \ {0} /\ SumTo(c.rows, n) \in Nat
         /\ SumTo(c.rows, m) = SumTo(c.rows, n) + c.rows[m]
         /\ SumTo(c.rows, m) <= SumFunction(c.rows)
<1>1. PICK r \in Seq(Nat \ {0}), len \in Nat : r = c.rows /\ len = Len(r)
  BY RowsTyped
<1>2. \A i \in 1 .. len : r[i] \in Nat \ {0}
  BY <1>1, RowsTyped
<1>3. m \in 1 .. len /\ m > 0 /\ m - 1 = n /\ \A i \in 1 .. m : i \in 1 .. len
  BY <1>1
<1>4. \A i \in 1 .. m : r[i] \in Nat
  BY <1>2, <1>3
<1>5. SumTo(r, m) = SumTo(r, m - 1) + r[m] /\ SumTo(r, m - 1) \in Nat
  BY <1>3, <1>4, SumToStep
<1>6. SumTo(r, m) <= SumTo(r, len)
  BY <1>1, <1>2, <1>3, SumToGrows
<1>7. SumTo(r, len) = SumFunction(r)
  BY <1>1, RowsTyped
<1>8. QED
  BY <1>1, <1>2, <1>3, <1>5, <1>6, <1>7

\* After a step that writes nothing.
LEMMA GildedSame ==
  ASSUME NEW w \in Workers, NEW g, NEW c \in OutFiles, Gilded(w, g, c),
         NEW v \in Workers, v.open = w.open, v.count = w.count, v.k = w.k,
         v.pc \notin {"clean", "trash"}, w.pc # "done",
         v.pc \notin {"wait", "skipped"} => c.state = "closed",
         v.pc = "gold" => v.k <= Len(c.rows)
  PROVE  /\ Gilded(v, g, c)
         /\ Copied(w, g, c) /\ v.pc # "done" => Copied(v, g, c)
BY DEF Gilded, Copied

\* create_gold opens a clean file, or fails to (parquet.rs).
LEMMA GoldOpens ==
  ASSUME NEW w \in Workers, NEW g, NEW c \in OutFiles, Gilded(w, g, c), w.pc = "wait",
         NEW p \in {"read", "skipped"}, NEW v, v = [w EXCEPT !.pc = p],
         p = "read" => c.state = "closed"
  PROVE  /\ v \in Workers /\ Gilded(v, g, c)
         /\ TrulyGilded(w, g, c) /\ (p = "skipped" => c.state = "open") => TrulyGilded(v, g, c)
<1>1. v \in Workers /\ v.pc = p /\ v.k = w.k /\ v.open = w.open /\ v.count = w.count
  BY WorkerGoes
<1>2. Gilded(v, g, c) /\ (Copied(w, g, c) => Copied(v, g, c))
  BY <1>1, GildedSame
<1>3. QED
  BY <1>1, <1>2 DEF TrulyGilded

\* create_gold reads a batch of it.
LEMMA GoldReads ==
  ASSUME NEW w \in Workers, NEW g, NEW c \in OutFiles, Gilded(w, g, c), w.pc = "read",
         w.k <= Len(c.rows), NEW n \in Nat,
         NEW v, v = [w EXCEPT !.total = n, !.pc = "gold"]
  PROVE  /\ v \in Workers /\ Gilded(v, g, c)
         /\ TrulyGilded(w, g, c) => TrulyGilded(v, g, c)
<1>1. v \in Workers /\ v.pc = "gold" /\ v.k = w.k /\ v.open = w.open /\ v.count = w.count
  BY DEF Workers
<1>2. w.pc \notin {"wait", "skipped"} => c.state = "closed"
  BY DEF Gilded
<1>3. Gilded(v, g, c) /\ (Copied(w, g, c) => Copied(v, g, c))
  BY <1>1, <1>2, GildedSame
<1>4. QED
  BY <1>1, <1>3 DEF TrulyGilded

\* A batch that could not be read or written is passed over.
LEMMA GoldDrops ==
  ASSUME NEW w \in Workers, NEW g, NEW c \in OutFiles, Gilded(w, g, c), w.pc = "read",
         w.k <= Len(c.rows), NEW v, v = [w EXCEPT !.k = w.k + 1]
  PROVE  v \in Workers /\ Gilded(v, g, c)
<1>1. PICK k \in Nat, m \in Nat, len \in Nat : m = w.k /\ m = k + 1 /\ m <= len /\ len = Len(c.rows)
  <2>1. w.k - 1 \in Nat /\ w.k = (w.k - 1) + 1 /\ w.k \in Nat
    BY DEF Gilded, Workers
  <2>2. Len(c.rows) \in Nat
    BY RowsTyped
  <2>3. QED
    BY <2>1, <2>2
<1>2. w.k + 1 \in Nat
  BY <1>1
<1>3. v \in Workers /\ v.pc = "read" /\ v.k = m + 1 /\ v.open = w.open /\ v.count = w.count
  BY <1>1, <1>2, WorkerSkips
<1>4. PICK x \in Nat, y \in Nat, z \in Nat, b \in Nat :
        /\ x = SumTo(c.rows, m) /\ y = SumTo(c.rows, k) /\ z = w.count["gold"]
        /\ b = c.rows[m] /\ x = y + b
  <2>1. w.count["gold"] \in Nat
    BY DEF Workers, Sides
  <2>2. c.rows[m] \in Nat /\ SumTo(c.rows, k) \in Nat
        /\ SumTo(c.rows, m) = SumTo(c.rows, k) + c.rows[m]
    BY <1>1, RowsSum
  <2>3. SumTo(c.rows, m) \in Nat
    BY <2>2
  <2>4. QED
    BY <2>1, <2>2, <2>3
<1>5. m - 1 = k /\ (m + 1) - 1 = m /\ m + 1 >= 1 /\ m + 1 <= len + 1
  BY <1>1
<1>6. z <= y
  BY <1>1, <1>4, <1>5 DEF Gilded
<1>7. z <= x
  BY <1>4, <1>6
<1>8. QED
  BY <1>1, <1>3, <1>4, <1>5, <1>7 DEF Gilded

\* The clean file has no more batches.
LEMMA GoldEnds ==
  ASSUME NEW w \in Workers, NEW g, NEW c \in OutFiles, Gilded(w, g, c), w.pc = "read",
         w.k > Len(c.rows), NEW v, v = [w EXCEPT !.pc = "close"]
  PROVE  /\ v \in Workers /\ Gilded(v, g, c)
         /\ TrulyGilded(w, g, c) => TrulyGilded(v, g, c)
<1>1. v \in Workers /\ v.pc = "close" /\ v.k = w.k /\ v.open = w.open /\ v.count = w.count
  BY WorkerGoes
<1>2. w.pc \notin {"wait", "skipped"} => c.state = "closed"
  BY DEF Gilded
<1>3. Gilded(v, g, c) /\ (Copied(w, g, c) => Copied(v, g, c))
  BY <1>1, <1>2, GildedSame
<1>4. w.k = Len(c.rows) + 1
  <2>1. PICK len \in Nat : len = Len(c.rows)
    BY RowsTyped
  <2>2. w.k \in Nat /\ w.k <= len + 1 /\ w.k > len
    BY <2>1 DEF Gilded, Workers
  <2>3. QED
    BY <2>1, <2>2
<1>5. QED
  BY <1>1, <1>3, <1>4 DEF TrulyGilded

\* A batch of the clean file is counted, and the reader moves on.
LEMMA GoldCounts ==
  ASSUME NEW w \in Workers, NEW g, NEW c \in OutFiles, Gilded(w, g, c), w.pc = "gold",
         NEW n, n = c.rows[w.k], NEW v \in Workers, Counts(v, w, "gold", n)
  PROVE  /\ n \in Nat \ {0} /\ w.count["gold"] \in Nat /\ v.count["gold"] = w.count["gold"] + n
         /\ w.k \in Nat \ {0} /\ v.k = w.k + 1 /\ v.k <= Len(c.rows) + 1 /\ v.pc = "read"
         /\ v.count["gold"] <= SumTo(c.rows, v.k - 1)
         /\ c.state = "closed"
<1>1. PICK k \in Nat, m \in Nat, len \in Nat : m = w.k /\ m = k + 1 /\ m <= len /\ len = Len(c.rows)
  <2>1. w.k - 1 \in Nat /\ w.k = (w.k - 1) + 1 /\ w.k \in Nat
    BY DEF Gilded, Workers
  <2>2. Len(c.rows) \in Nat
    BY RowsTyped
  <2>3. w.k <= Len(c.rows)
    BY DEF Gilded
  <2>4. QED
    BY <2>1, <2>2, <2>3
<1>2. c.rows[m] \in Nat \ {0} /\ SumTo(c.rows, k) \in Nat
      /\ SumTo(c.rows, m) = SumTo(c.rows, k) + c.rows[m]
  BY <1>1, RowsSum
<1>3. PICK b \in Nat \ {0}, y \in Nat, z \in Nat :
        b = c.rows[m] /\ y = SumTo(c.rows, k) /\ z = w.count["gold"]
  BY <1>2 DEF Workers, Sides
<1>4. v.k = m + 1 /\ v.pc = "read" /\ v.count["gold"] = z + b
  BY <1>1, <1>3 DEF Counts
<1>5. m - 1 = k /\ (m + 1) - 1 = m /\ m + 1 <= len + 1 /\ m # 0
  BY <1>1
<1>6. z <= y
  BY <1>1, <1>3, <1>5 DEF Gilded
<1>7. z + b <= y + b
  BY <1>6
<1>8. v.count["gold"] <= SumTo(c.rows, v.k - 1)
  BY <1>2, <1>3, <1>4, <1>5, <1>7
<1>9. c.state = "closed"
  BY DEF Gilded
<1>10. QED
  BY <1>1, <1>3, <1>4, <1>5, <1>8, <1>9

\* A write to the gold file that fails leaves it a prefix, and no more is counted.
LEMMA GoldFails ==
  ASSUME NEW w \in Workers, NEW t \in [Sides -> OutFiles], NEW c \in OutFiles,
         Gilded(w, t["gold"], c), w.pc = "gold", NEW n, n = c.rows[w.k],
         NEW u, Unwritten(u, t, "gold"),
         NEW v \in Workers, MayOpen(v, w, "gold"), Counts(v, w, "gold", n)
  PROVE  Gilded(v, u["gold"], c)
<1>1. t["gold"] \in OutFiles /\ "gold" \in Sides
  BY DEF Sides
<1>2. [state |-> "open", rows |-> <<>>] \in OutFiles
  BY DEF OutFiles
<1>3. /\ u \in [Sides -> OutFiles]
      /\ u["gold"] = t["gold"] \/ u["gold"] = [state |-> "open", rows |-> <<>>]
  BY <1>1, <1>2 DEF Unwritten
<1>4. /\ n \in Nat \ {0} /\ w.count["gold"] \in Nat /\ v.count["gold"] = w.count["gold"] + n
      /\ w.k \in Nat \ {0} /\ v.k = w.k + 1 /\ v.k <= Len(c.rows) + 1 /\ v.pc = "read"
      /\ v.count["gold"] <= SumTo(c.rows, v.k - 1)
      /\ c.state = "closed"
  BY GoldCounts
<1>5. PICK a \in Nat, z \in Nat, b \in Nat :
        a = SumFunction(t["gold"].rows) /\ z = w.count["gold"] /\ b = n /\ a <= z
  <2>1. SumFunction(t["gold"].rows) \in Nat
    BY <1>1, RowsTyped
  <2>2. SumFunction(t["gold"].rows) <= w.count["gold"]
    BY DEF Gilded
  <2>3. QED
    BY <1>4, <2>1, <2>2
<1>6. a <= z + b /\ 0 <= z + b
  BY <1>5
<1>7. SumFunction(u["gold"].rows) <= v.count["gold"]
  BY <1>3, <1>4, <1>5, <1>6, SumOfNone
<1>8. u["gold"].state # "closed"
  BY <1>3 DEF Gilded
<1>9. v.open \in SUBSET {"gold"}
  BY DEF Gilded, MayOpen
<1>10. v.k >= 1
  BY <1>4
<1>11. QED
  BY <1>3, <1>4, <1>7, <1>8, <1>9, <1>10 DEF Gilded

\* A write to the gold file appends the batch and counts its rows.
LEMMA GoldWrites ==
  ASSUME NEW w \in Workers, NEW t \in [Sides -> OutFiles], NEW c \in OutFiles,
         NEW g, g = t["gold"], Gilded(w, g, c), w.pc = "gold", NEW n, n = c.rows[w.k],
         NEW u, WrittenTo(u, t, "gold", n, w.open), NEW h, h = u["gold"],
         NEW v \in Workers, Opens(v, w, "gold"), Counts(v, w, "gold", n)
  PROVE  /\ Gilded(v, h, c)
         /\ TrulyGilded(w, g, c) => TrulyGilded(v, h, c)
<1> PICK old : old = IF "gold" \in w.open THEN t["gold"].rows ELSE <<>>
  OBVIOUS
<1>. u = [t EXCEPT !["gold"] = [state |-> "open", rows |-> Append(old, n)]]
  BY DEF WrittenTo
<1>. v.open = w.open \cup {"gold"}
  BY DEF Opens
<1>1. t["gold"] \in OutFiles /\ "gold" \in Sides
  BY DEF Sides
<1>2. /\ n \in Nat \ {0} /\ w.count["gold"] \in Nat /\ v.count["gold"] = w.count["gold"] + n
      /\ w.k \in Nat \ {0} /\ v.k = w.k + 1 /\ v.k <= Len(c.rows) + 1 /\ v.pc = "read"
      /\ v.count["gold"] <= SumTo(c.rows, v.k - 1)
      /\ c.state = "closed"
  BY GoldCounts
<1>3. old \in Seq(Nat \ {0})
  BY <1>1 DEF OutFiles
<1>4. /\ Append(old, n) \in Seq(Nat \ {0})
      /\ SumFunction(Append(old, n)) = SumFunction(old) + n
      /\ SumFunction(old) \in Nat
  BY <1>2, <1>3, SumOfRows
<1>5. /\ u \in [Sides -> OutFiles]
      /\ u["gold"].state = "open" /\ u["gold"].rows = Append(old, n)
  BY <1>1, <1>4 DEF OutFiles
<1>6. SumFunction(old) <= w.count["gold"]
  <2>1. CASE "gold" \in w.open
    BY <2>1 DEF Gilded
  <2>2. CASE "gold" \notin w.open
    BY <1>2, <2>2, SumOfNone
  <2>3. QED
    BY <2>1, <2>2
<1>7. SumFunction(u["gold"].rows) <= v.count["gold"]
  <2>1. PICK a \in Nat, z \in Nat, b \in Nat :
          a = SumFunction(old) /\ z = w.count["gold"] /\ b = n /\ a <= z
    BY <1>2, <1>4, <1>6
  <2>2. a + b <= z + b
    BY <2>1
  <2>3. QED
    BY <1>2, <1>4, <1>5, <2>1, <2>2
<1>8. v.open \in SUBSET {"gold"} /\ "gold" \in v.open
  BY DEF Gilded
<1>9. v.k >= 1 /\ v.k # 1
  BY <1>2
<1>10. Gilded(v, u["gold"], c)
  BY <1>2, <1>5, <1>7, <1>8, <1>9 DEF Gilded
<1>11. ASSUME TrulyGilded(w, t["gold"], c) PROVE TrulyGilded(v, u["gold"], c)
  <2>1. Copied(w, g, c)
    BY <1>11 DEF TrulyGilded
  <2>2. PICK k \in Nat, m \in Nat : m = w.k /\ m = k + 1
    <3>1. w.k - 1 \in Nat /\ w.k = (w.k - 1) + 1
      BY <1>2
    <3>2. QED
      BY <1>2, <3>1
  <2>3. m - 1 = k /\ (m + 1) - 1 = m
    BY <2>2
  <2>4. /\ Len(g.rows) = k /\ \A i \in 1 .. k : g.rows[i] = c.rows[i]
        /\ w.count["gold"] = SumFunction(g.rows)
        /\ "gold" \in w.open <=> m # 1
    BY <2>1, <2>2, <2>3 DEF Copied
  <2>5. old = g.rows
    <3>1. CASE "gold" \in w.open
      BY <3>1
    <3>2. CASE "gold" \notin w.open
      <4>1. k = 0 /\ old = <<>>
        BY <2>2, <2>4, <3>2
      <4>2. g.rows \in Seq(Nat \ {0})
        BY <1>1 DEF OutFiles
      <4>3. g.rows = <<>>
        BY <2>4, <4>1, <4>2, EmptySeq
      <4>4. QED
        BY <4>1, <4>3
    <3>3. QED
      BY <3>1, <3>2
  <2>6. Len(Append(old, n)) = m /\ \A i \in 1 .. m : Append(old, n)[i] = c.rows[i]
    <3>1. PICK l : l = Append(old, n)
      OBVIOUS
    <3>2. Len(old) = k /\ \A i \in 1 .. k : old[i] = c.rows[i]
      BY <2>4, <2>5
    <3>3. Len(l) = k + 1 /\ l[k + 1] = n /\ \A i \in 1 .. k : l[i] = old[i]
      BY <1>3, <3>1, <3>2
    <3>4. \A i \in 1 .. k + 1 : i \in 1 .. k \/ i = k + 1
      OBVIOUS
    <3>5. \A i \in 1 .. k + 1 : l[i] = c.rows[i]
      BY <2>2, <3>2, <3>3, <3>4
    <3>6. QED
      BY <2>2, <3>1, <3>3, <3>5
  <2>7. v.count["gold"] = SumFunction(Append(old, n))
    BY <1>2, <1>4, <2>4, <2>5
  <2>8. Copied(v, u["gold"], c)
    BY <1>2, <1>5, <1>8, <1>9, <2>2, <2>3, <2>6, <2>7 DEF Copied
  <2>9. QED
    BY <1>2, <2>8 DEF TrulyGilded
<1>12. QED
  BY <1>5, <1>10, <1>11

\* The clean and the trash file stay.
SidesKept(u, t) == u["clean"] = t["clean"] /\ u["trash"] = t["trash"]

\* The gold file is closed, or lost.
LEMMA GoldCloses ==
  ASSUME NEW w \in Workers, NEW t \in [Sides -> OutFiles], NEW c \in OutFiles,
         NEW g, g = t["gold"], Gilded(w, g, c), w.pc = "close", NEW lost,
         NEW u, ClosedFiles(u, t, w.open, lost), NEW h, h = u["gold"],
         NEW v, v = [w EXCEPT !.pc = "done"]
  PROVE  /\ v \in Workers /\ Gilded(v, h, c)
         /\ SidesKept(u, t)
         /\ TrulyGilded(w, g, c) /\ Lossless(lost) => TrulyGilded(v, h, c)
<1>1. v \in Workers /\ v.pc = "done" /\ v.k = w.k /\ v.open = w.open /\ v.count = w.count
  BY WorkerGoes
<1>2. ASSUME NEW s \in Sides
      PROVE  /\ u[s] \in OutFiles /\ u[s].rows = t[s].rows
             /\ u[s].state = IF s \in w.open \ lost THEN "closed" ELSE t[s].state
             /\ s \notin w.open => u[s] = t[s]
  <2>1. t[s] \in OutFiles
    OBVIOUS
  <2>2. u[s] = [t[s] EXCEPT !.state = IF s \in w.open \ lost THEN "closed" ELSE t[s].state]
    BY DEF ClosedFiles
  <2>3. QED
    BY <2>1, <2>2 DEF OutFiles
<1>3. u \in [Sides -> OutFiles]
  BY <1>2 DEF ClosedFiles
<1>4. {"gold", "clean", "trash"} = Sides
  BY DEF Sides
<1>5. SidesKept(u, t)
  <2>1. "clean" \notin w.open /\ "trash" \notin w.open
    BY DEF Gilded
  <2>2. QED
    BY <1>2, <1>4, <2>1 DEF SidesKept
<1>6. u["gold"].rows = t["gold"].rows
      /\ u["gold"].state = IF "gold" \in w.open \ lost THEN "closed" ELSE t["gold"].state
  BY <1>2, <1>4
<1>7. Gilded(v, u["gold"], c)
  BY <1>1, <1>6 DEF Gilded
<1>8. ASSUME TrulyGilded(w, t["gold"], c), Lossless(lost) PROVE TrulyGilded(v, u["gold"], c)
  BY <1>1, <1>6, <1>8 DEF TrulyGilded, Copied, Lossless
<1>9. QED
  BY <1>1, <1>3, <1>5, <1>7, <1>8

\* The closure after it counted n rows of a side.
CountedWith(v, w, side, f, n, open) ==
  v = [Written(side, f, w) EXCEPT !.count[side] = @ + n, !.open = open]

\* What WriteBatch makes of a worker, field by field.
LEMMA WorkerCounted ==
  ASSUME NEW w \in Workers, NEW side \in Sides, NEW f, NEW n \in Nat, NEW open \in SUBSET Sides,
         NEW v, CountedWith(v, w, side, f, n, open)
  PROVE  v \in Workers /\ v.open = open /\ Counts(v, w, side, n)
<1>1. PICK x : x = Written(side, f, w)
  OBVIOUS
<1>2. /\ x \in Workers /\ x.open = w.open /\ x.total = w.total /\ x.count = w.count
      /\ side = "clean" => x.pc = "trash" /\ x.k = w.k
      /\ side # "clean" => x.pc = "read" /\ x.k = w.k + 1
  BY <1>1, WorkerWrote
<1>3. x.count \in [Sides -> Nat] /\ x.count[side] + n \in Nat
  BY <1>2 DEF Workers
<1>4. PICK c : c = [x.count EXCEPT ![side] = @ + n]
  OBVIOUS
<1>5. c \in [Sides -> Nat] /\ c[side] = x.count[side] + n /\ \A s \in Sides \ {side} : c[s] = x.count[s]
  BY <1>3, <1>4
<1>6. v = [x EXCEPT !.count = c, !.open = open]
  BY <1>1, <1>4 DEF CountedWith
<1>7. v \in Workers /\ v.open = open /\ v.count = c /\ v.pc = x.pc /\ v.k = x.k /\ v.total = x.total
  BY <1>2, <1>5, <1>6 DEF Workers
<1>8. QED
  BY <1>2, <1>5, <1>7 DEF Counts

\* A batch without rows: the closure turns to the next thing to do.
LEMMA WorkerWroteNothing ==
  ASSUME NEW w \in Workers, NEW side \in Sides, NEW f, NEW n \in Nat, n <= 0,
         NEW v, v = Written(side, f, w)
  PROVE  v \in Workers /\ v.open = w.open /\ Counts(v, w, side, n)
<1>1. /\ v \in Workers /\ v.open = w.open /\ v.total = w.total /\ v.count = w.count
      /\ side = "clean" => v.pc = "trash" /\ v.k = w.k
      /\ side # "clean" => v.pc = "read" /\ v.k = w.k + 1
  BY WorkerWrote
<1>2. w.count[side] + n = w.count[side]
  <2>1. w.count[side] \in Nat
    BY DEF Workers
  <2>2. n = 0
    OBVIOUS
  <2>3. QED
    BY <2>1, <2>2
<1>3. QED
  BY <1>1, <1>2 DEF Counts

\* What is written for a file.
FileAt(f) == [s \in Sides |-> tree[s][f]]

\* The types of the state of the two jobs.
Typed ==
  /\ input \in [Files -> Inputs]
  /\ tree \in [Sides -> [Files -> OutFiles]]
  /\ worker \in [Files -> Workers]
  /\ faults \in Nat

\* The types of what one file's steps use.
LEMMA TypedFile ==
  ASSUME Typed, NEW f \in Files
  PROVE  /\ worker[f] \in Workers /\ FileAt(f) \in [Sides -> OutFiles] /\ input[f] \in Inputs
         /\ \A s \in Sides : FileAt(f)[s] = tree[s][f]
         /\ tree["clean"][f] \in OutFiles /\ tree["gold"][f] \in OutFiles /\ FileAt(f)["gold"] = tree["gold"][f]
         /\ FileAt(f)["clean"] = tree["clean"][f] /\ FileAt(f)["trash"] = tree["trash"][f]
BY DEF Typed, FileAt, Sides

\* A step of the closure of f leaves everything else alone.
Moved(f) ==
  /\ UNCHANGED <<input, job, report>>
  /\ worker' \in [Files -> Workers] /\ tree' \in [Sides -> [Files -> OutFiles]]
  /\ faults' \in Nat /\ (faults' = 0 => faults = 0)
  /\ \A g \in Files \ {f} : worker'[g] = worker[g] /\ FileAt(g)' = FileAt(g)

\* A step that fails counts a fault, any other does not.
LEMMA FaultCounts ==
  ASSUME Typed
  PROVE  /\ Fault => faults' \in Nat /\ faults' # 0
         /\ Well => faults' \in Nat /\ faults' = faults
BY DEF Typed, Fault, Well

\* A step of one file's worker leaves the others as they were.
LEMMA WorkerMoved ==
  ASSUME Typed, NEW f \in Files, NEW v \in Workers, worker' = [worker EXCEPT ![f] = v]
  PROVE  /\ worker' \in [Files -> Workers] /\ worker'[f] = v
         /\ \A g \in Files \ {f} : worker'[g] = worker[g]
BY DEF Typed

\* A side of a file becomes another.
PutAt(u, t, side, file) == u = [t EXCEPT ![side] = file]

\* A step that writes one file leaves the others as they were.
LEMMA TreePut ==
  ASSUME Typed, NEW side \in Sides, NEW f \in Files, NEW file \in OutFiles,
         tree' = [tree EXCEPT ![side][f] = file]
  PROVE  /\ tree' \in [Sides -> [Files -> OutFiles]]
         /\ PutAt(FileAt(f)', FileAt(f), side, file)
         /\ \A g \in Files \ {f} : FileAt(g)' = FileAt(g)
<1>1. tree \in [Sides -> [Files -> OutFiles]]
  BY DEF Typed
<1>2. ASSUME NEW s \in Sides, NEW g \in Files
      PROVE  tree'[s][g] = IF s = side /\ g = f THEN file ELSE tree[s][g]
  BY <1>1
<1>3. tree' \in [Sides -> [Files -> OutFiles]]
  BY <1>1
<1>4. FileAt(f)' = [FileAt(f) EXCEPT ![side] = file]
  <2>1. FileAt(f)' = [s \in Sides |-> tree'[s][f]]
    BY DEF FileAt
  <2>2. \A s \in Sides : tree'[s][f] = IF s = side THEN file ELSE tree[s][f]
    BY <1>2
  <2>3. [FileAt(f) EXCEPT ![side] = file] = [s \in Sides |-> IF s = side THEN file ELSE tree[s][f]]
    BY DEF FileAt
  <2>4. QED
    BY <2>1, <2>2, <2>3
<1>5. \A g \in Files \ {f} : FileAt(g)' = FileAt(g)
  BY <1>2 DEF FileAt
<1>6. QED
  BY <1>3, <1>4, <1>5 DEF PutAt

\* A step that writes no file leaves them all.
LEMMA TreeKept ==
  ASSUME Typed, tree' = tree
  PROVE  tree' \in [Sides -> [Files -> OutFiles]] /\ \A g : FileAt(g)' = FileAt(g)
BY DEF Typed, FileAt

\* The step closes the open writers of f; those in lost failed to finish.
AllClosed(f, open, lost) ==
  /\ lost \in SUBSET open
  /\ tree' = [s \in Sides |-> [tree[s] EXCEPT ![f].state =
               IF s \in open \ lost THEN "closed" ELSE @]]

\* The footers: only the states of one file's outputs change.
LEMMA TreeClosed ==
  ASSUME Typed, NEW f \in Files, NEW lost, NEW open,
         AllClosed(f, open, lost)
  PROVE  /\ tree' \in [Sides -> [Files -> OutFiles]]
         /\ ClosedFiles(FileAt(f)', FileAt(f), open, lost)
         /\ \A g \in Files \ {f} : FileAt(g)' = FileAt(g)
<1>1. ASSUME NEW s \in Sides
      PROVE  /\ tree'[s] \in [Files -> OutFiles]
             /\ tree'[s][f] = [tree[s][f] EXCEPT !.state =
                                 IF s \in open \ lost THEN "closed" ELSE @]
             /\ \A g \in Files \ {f} : tree'[s][g] = tree[s][g]
  <2>1. tree[s] \in [Files -> OutFiles] /\ tree[s][f] \in OutFiles
    BY DEF Typed
  <2>2. PICK p : p = [tree[s][f] EXCEPT !.state = IF s \in open \ lost THEN "closed" ELSE @]
    OBVIOUS
  <2>3. p \in OutFiles
    BY <2>1, <2>2 DEF OutFiles
  <2>4. tree'[s] = [tree[s] EXCEPT ![f] = p]
    BY <2>2 DEF AllClosed
  <2>5. QED
    BY <2>1, <2>2, <2>3, <2>4
<1>2. tree' \in [Sides -> [Files -> OutFiles]]
  BY <1>1 DEF AllClosed
<1>3. FileAt(f)' = [s \in Sides |-> [FileAt(f)[s] EXCEPT !.state =
                                          IF s \in open \ lost THEN "closed" ELSE @]]
  <2>1. FileAt(f)' = [s \in Sides |-> tree'[s][f]]
    BY DEF FileAt
  <2>2. \A s \in Sides : FileAt(f)[s] = tree[s][f]
    BY DEF FileAt
  <2>3. QED
    BY <1>1, <2>1, <2>2
<1>4. \A g \in Files \ {f} : FileAt(g)' = FileAt(g)
  BY <1>1 DEF FileAt
<1>5. QED
  BY <1>2, <1>3, <1>4 DEF ClosedFiles, AllClosed

\* What one file's worker may do.
FileStep(f) ==
  \/ OpenFile(f) \/ ReadBatch(f) \/ EndOfFile(f) \/ CloseFile(f)
  \/ \E s \in Sides : WriteBatch(s, f) \/ WriteNothing(s, f)

\* What is known of a file while the lake job runs.
InLake(f) ==
  /\ Handled(worker[f], FileAt(f), input[f])
  /\ faults = 0 => Faultless(worker[f], FileAt(f), input[f])

\* Opening a file keeps what clean_parquet promises of it.
LEMMA LakeOpenFile ==
  ASSUME Typed, job = "lake", NEW f \in Files, InLake(f), OpenFile(f)
  PROVE  Moved(f) /\ InLake(f)'
<1>1. PICK w \in Workers, t \in [Sides -> OutFiles], src \in Inputs :
        w = worker[f] /\ t = FileAt(f) /\ src = input[f]
  BY TypedFile
<1>2. Handled(w, t, src) /\ (faults = 0 => Faultless(w, t, src)) /\ w.pc = "wait"
  BY <1>1 DEF InLake, OpenFile
<1>3. UNCHANGED <<input, tree, job, report>> /\ Source(f) = src
  BY <1>1 DEF OpenFile, Source
<1>4. PICK p \in {"read", "skipped"} :
        /\ worker' = [worker EXCEPT ![f].pc = p]
        /\ faults' \in Nat /\ (faults' = 0 => faults = 0 /\ (src.readable <=> p = "read"))
  <2>1. CASE ~Source(f).readable /\ Goto(f, "skipped") /\ Well
    BY <1>3, <2>1, FaultCounts DEF Goto
  <2>2. CASE Source(f).readable /\ Goto(f, "read") /\ Well
    BY <1>3, <2>2, FaultCounts DEF Goto
  <2>3. CASE Source(f).readable /\ Goto(f, "skipped") /\ Fault
    BY <1>3, <2>3, FaultCounts DEF Goto
  <2>4. QED
    BY <2>1, <2>2, <2>3 DEF OpenFile
<1>5. PICK v : v = [w EXCEPT !.pc = p]
  OBVIOUS
<1>6. /\ v \in Workers /\ Handled(v, t, src)
      /\ Faultless(w, t, src) /\ (src.readable <=> p = "read") => Faultless(v, t, src)
  BY <1>2, <1>5, LakeOpens
<1>7. worker' = [worker EXCEPT ![f] = v]
  BY <1>1, <1>4, <1>5
<1>8. /\ worker' \in [Files -> Workers] /\ worker'[f] = v
      /\ \A g \in Files \ {f} : worker'[g] = worker[g]
  BY <1>6, <1>7, WorkerMoved
<1>9. tree' \in [Sides -> [Files -> OutFiles]] /\ \A g : FileAt(g)' = FileAt(g)
  BY <1>3, TreeKept
<1>10. QED
  BY <1>1, <1>2, <1>3, <1>4, <1>6, <1>8, <1>9 DEF Moved, InLake

\* So does reading a batch.
LEMMA LakeReadBatch ==
  ASSUME Typed, job = "lake", NEW f \in Files, InLake(f), ReadBatch(f)
  PROVE  Moved(f) /\ InLake(f)'
<1>1. PICK w \in Workers, t \in [Sides -> OutFiles], src \in Inputs :
        w = worker[f] /\ t = FileAt(f) /\ src = input[f]
  BY TypedFile
<1>2. Handled(w, t, src) /\ (faults = 0 => Faultless(w, t, src)) /\ w.pc = "read"
  BY <1>1 DEF InLake, ReadBatch
<1>3. UNCHANGED <<input, tree, job, report>> /\ Source(f) = src /\ w.k <= Len(src.batches)
  BY <1>1 DEF ReadBatch, Source
<1>4. tree' \in [Sides -> [Files -> OutFiles]] /\ \A g : FileAt(g)' = FileAt(g)
  BY <1>3, TreeKept
<1>5. CASE /\ worker' = [worker EXCEPT ![f] =
                [worker[f] EXCEPT !.total = @ + Batch(f).clean + Batch(f).trash,
                                  !.pc = IF job = "gold" THEN "gold" ELSE "clean"]]
           /\ Well
  <2>1. PICK a, b : a = Batch(f).clean /\ b = Batch(f).trash
    OBVIOUS
  <2>2. a = src.batches[w.k].clean /\ b = src.batches[w.k].trash
    BY <1>1, <1>3, <2>1 DEF Batch
  <2>3. PICK v : v = [worker[f] EXCEPT !.total = @ + a + b, !.pc = "clean"]
    OBVIOUS
  <2>4. worker' = [worker EXCEPT ![f] = v]
    BY <1>5, <2>1, <2>3
  <2>5. v = [w EXCEPT !.total = w.total + src.batches[w.k].clean + src.batches[w.k].trash,
                      !.pc = "clean"]
    BY <1>1, <2>2, <2>3
  <2>6. /\ v \in Workers /\ Handled(v, t, src)
        /\ Faultless(w, t, src) => Faultless(v, t, src)
    BY <1>2, <1>3, <2>5, LakeReads
  <2>7. /\ worker' \in [Files -> Workers] /\ worker'[f] = v
        /\ \A g \in Files \ {f} : worker'[g] = worker[g]
    BY <2>4, <2>6, WorkerMoved
  <2>8. faults' \in Nat /\ faults' = faults
    BY <1>5, FaultCounts
  <2>9. QED
    BY <1>1, <1>2, <1>3, <1>4, <2>6, <2>7, <2>8 DEF Moved, InLake
<1>6. CASE worker' = [worker EXCEPT ![f].k = @ + 1] /\ Fault
  <2>1. PICK v : v = [w EXCEPT !.k = w.k + 1]
    OBVIOUS
  <2>2. worker' = [worker EXCEPT ![f] = v]
    BY <1>1, <1>6, <2>1
  <2>3. v \in Workers /\ Handled(v, t, src)
    BY <1>2, <1>3, <2>1, LakeDrops
  <2>4. /\ worker' \in [Files -> Workers] /\ worker'[f] = v
        /\ \A g \in Files \ {f} : worker'[g] = worker[g]
    BY <2>2, <2>3, WorkerMoved
  <2>5. faults' \in Nat /\ faults' # 0
    BY <1>6, FaultCounts
  <2>6. QED
    BY <1>1, <1>2, <1>3, <1>4, <2>3, <2>4, <2>5 DEF Moved, InLake
<1>7. QED
  BY <1>5, <1>6 DEF ReadBatch

\* So does reaching the end of the input.
LEMMA LakeEndOfFile ==
  ASSUME Typed, job = "lake", NEW f \in Files, InLake(f), EndOfFile(f)
  PROVE  Moved(f) /\ InLake(f)'
<1>1. PICK w \in Workers, t \in [Sides -> OutFiles], src \in Inputs :
        w = worker[f] /\ t = FileAt(f) /\ src = input[f]
  BY TypedFile
<1>2. Handled(w, t, src) /\ (faults = 0 => Faultless(w, t, src)) /\ w.pc = "read"
  BY <1>1 DEF InLake, EndOfFile
<1>3. UNCHANGED <<input, tree, job, report, faults>> /\ Source(f) = src /\ w.k > Len(src.batches)
  BY <1>1 DEF EndOfFile, Source
<1>4. tree' \in [Sides -> [Files -> OutFiles]] /\ \A g : FileAt(g)' = FileAt(g)
  BY <1>3, TreeKept
<1>5. PICK v : v = [w EXCEPT !.pc = "close"]
  OBVIOUS
<1>6. worker' = [worker EXCEPT ![f] = v]
  BY <1>1, <1>5 DEF EndOfFile, Goto
<1>7. /\ v \in Workers /\ Handled(v, t, src)
      /\ Faultless(w, t, src) => Faultless(v, t, src)
  BY <1>2, <1>3, <1>5, LakeEnds
<1>8. /\ worker' \in [Files -> Workers] /\ worker'[f] = v
      /\ \A g \in Files \ {f} : worker'[g] = worker[g]
  BY <1>6, <1>7, WorkerMoved
<1>9. faults' \in Nat /\ faults' = faults
  BY <1>3 DEF Typed
<1>10. QED
  BY <1>1, <1>2, <1>3, <1>4, <1>7, <1>8, <1>9 DEF Moved, InLake

\* So does finishing its two files.
LEMMA LakeCloseFile ==
  ASSUME Typed, job = "lake", NEW f \in Files, InLake(f), CloseFile(f)
  PROVE  Moved(f) /\ InLake(f)'
<1>1. PICK w \in Workers, t \in [Sides -> OutFiles], src \in Inputs :
        w = worker[f] /\ t = FileAt(f) /\ src = input[f]
  BY TypedFile
<1>2. Handled(w, t, src) /\ (faults = 0 => Faultless(w, t, src)) /\ w.pc = "close"
  BY <1>1 DEF InLake, CloseFile
<1>3. UNCHANGED <<input, job, report>> /\ worker' = [worker EXCEPT ![f].pc = "done"]
  BY DEF CloseFile, Goto
<1>4. PICK lost \in SUBSET w.open :
        /\ IF lost = {} THEN Well ELSE Fault
        /\ AllClosed(f, w.open, lost)
  <2>1. \E lost \in SUBSET worker[f].open :
          /\ IF lost = {} THEN Well ELSE Fault
          /\ AllClosed(f, worker[f].open, lost)
    BY DEF CloseFile, AllClosed
  <2>2. w.open = worker[f].open
    BY <1>1
  <2>3. QED
    BY <2>1, <2>2
<1>5. /\ tree' \in [Sides -> [Files -> OutFiles]] /\ ClosedFiles(FileAt(f)', t, w.open, lost)
      /\ \A g \in Files \ {f} : FileAt(g)' = FileAt(g)
  BY <1>1, <1>4, TreeClosed
<1>6. PICK u, v : u = FileAt(f)' /\ ClosedFiles(u, t, w.open, lost) /\ v = [w EXCEPT !.pc = "done"]
  BY <1>5
<1>7. /\ v \in Workers /\ Handled(v, u, src)
      /\ Faultless(w, t, src) /\ Lossless(lost) => Faultless(v, u, src)
  BY <1>2, <1>6, LakeCloses
<1>8. worker' = [worker EXCEPT ![f] = v]
  BY <1>1, <1>3, <1>6
<1>9. /\ worker' \in [Files -> Workers] /\ worker'[f] = v
      /\ \A g \in Files \ {f} : worker'[g] = worker[g]
  BY <1>7, <1>8, WorkerMoved
<1>10. faults' \in Nat /\ (faults' = 0 => faults = 0 /\ Lossless(lost))
  BY <1>4, FaultCounts DEF Lossless
<1>11. QED
  BY <1>1, <1>2, <1>3, <1>6, <1>7, <1>9, <1>5, <1>10 DEF Moved, InLake

\* So does writing the clean or the trash rows of a batch.
LEMMA LakeWriteBatch ==
  ASSUME Typed, job = "lake", NEW f \in Files, InLake(f), NEW side \in Sides, WriteBatch(side, f)
  PROVE  Moved(f) /\ InLake(f)'
<1>1. PICK w \in Workers, t \in [Sides -> OutFiles], src \in Inputs :
        w = worker[f] /\ t = FileAt(f) /\ src = input[f]
  BY TypedFile
<1>2. Handled(w, t, src) /\ (faults = 0 => Faultless(w, t, src)) /\ w.pc = side
  BY <1>1 DEF InLake, WriteBatch
<1>3. side \in {"clean", "trash"}
  BY <1>2 DEF Handled, Sides
<1>4. RowsFor(side, f) = src.batches[w.k][side]
  BY <1>1, <1>3 DEF RowsFor, Batch, Source
<1>5. PICK n \in Nat \ {0} : n = src.batches[w.k][side] /\ n = RowsFor(side, f)
  <2>1. src.batches[w.k][side] \in Nat
    BY <1>2, <1>3, BatchTyped
  <2>2. RowsFor(side, f) > 0
    BY DEF WriteBatch
  <2>3. QED
    BY <1>4, <2>1, <2>2
<1>6. PICK x : x = Written(side, f, w)
  OBVIOUS
<1>7. x.open = w.open /\ w.open \in SUBSET Sides
  BY <1>6, WorkerWrote DEF Workers
<1>8. UNCHANGED <<input, job, report>>
  BY DEF WriteBatch
<1>9. n \in Nat
  OBVIOUS
<1>10. CASE /\ worker' = [worker EXCEPT ![f] =
                 [x EXCEPT !.count[side] = @ + n, !.open = @ \cup {side}]]
            /\ tree' = [tree EXCEPT ![side][f] =
                 [state |-> "open",
                  rows |-> Append(IF side \in x.open THEN tree[side][f].rows ELSE <<>>, n)]]
            /\ Well
  <2>1. PICK open : open = x.open \cup {side} /\ open \in SUBSET Sides
    BY <1>7
  <2>2. PICK v : v = [x EXCEPT !.count[side] = @ + n, !.open = open]
    OBVIOUS
  <2>3. CountedWith(v, w, side, f, n, open)
    BY <1>6, <2>2 DEF CountedWith
  <2>4. v \in Workers /\ v.open = open /\ Counts(v, w, side, n)
    BY <1>9, <2>1, <2>3, WorkerCounted
  <2>5. Opens(v, w, side)
    BY <1>7, <2>1, <2>4 DEF Opens
  <2>6. worker' = [worker EXCEPT ![f] = v]
    BY <1>10, <2>1, <2>2
  <2>7. PICK old : old = IF side \in w.open THEN t[side].rows ELSE <<>>
    OBVIOUS
  <2>8. PICK file : file = [state |-> "open", rows |-> Append(old, n)]
    OBVIOUS
  <2>9. t[side] = tree[side][f]
    BY <1>1 DEF FileAt
  <2>10. tree' = [tree EXCEPT ![side][f] = file]
    BY <1>7, <1>10, <2>7, <2>8, <2>9
  <2>11. file \in OutFiles
    <3>1. old \in Seq(Nat \ {0})
      BY <2>7 DEF OutFiles
    <3>2. Append(old, n) \in Seq(Nat \ {0})
      BY <3>1, SumOfRows
    <3>3. QED
      BY <2>8, <3>2 DEF OutFiles
  <2>12. /\ tree' \in [Sides -> [Files -> OutFiles]] /\ PutAt(FileAt(f)', t, side, file)
         /\ \A g \in Files \ {f} : FileAt(g)' = FileAt(g)
    BY <1>1, <2>10, <2>11, TreePut
  <2>13. PICK u : u = FileAt(f)' /\ PutAt(u, t, side, file)
    BY <2>12
  <2>14. WrittenTo(u, t, side, n, w.open)
    BY <2>7, <2>8, <2>13 DEF WrittenTo, PutAt
  <2>15. /\ Handled(v, u, src)
         /\ Faultless(w, t, src) => Faultless(v, u, src)
    BY <1>2, <1>3, <1>5, <2>4, <2>5, <2>14, LakeWrites
  <2>16. /\ worker' \in [Files -> Workers] /\ worker'[f] = v
         /\ \A g \in Files \ {f} : worker'[g] = worker[g]
    BY <2>4, <2>6, WorkerMoved
  <2>17. faults' \in Nat /\ faults' = faults
    BY <1>10, FaultCounts
  <2>18. QED
    BY <1>1, <1>2, <1>8, <2>13, <2>15, <2>16, <2>12, <2>17 DEF Moved, InLake
<1>11. CASE /\ \E made, kept \in BOOLEAN :
                 /\ kept => made
                 /\ worker' = [worker EXCEPT ![f] =
                      [x EXCEPT !.count[side] = @ + n,
                                !.open = IF kept THEN @ \cup {side} ELSE @]]
                 /\ tree' = IF made /\ side \notin x.open
                              THEN [tree EXCEPT ![side][f] = [state |-> "open", rows |-> <<>>]]
                              ELSE tree
            /\ Fault
  <2>1. PICK made \in BOOLEAN, kept \in BOOLEAN :
                 /\ worker' = [worker EXCEPT ![f] =
                      [x EXCEPT !.count[side] = @ + n,
                                !.open = IF kept THEN @ \cup {side} ELSE @]]
                 /\ tree' = IF made /\ side \notin x.open
                              THEN [tree EXCEPT ![side][f] = [state |-> "open", rows |-> <<>>]]
                              ELSE tree
    BY <1>11
  <2>2. PICK open : /\ open = IF kept THEN x.open \cup {side} ELSE x.open
                    /\ open \in SUBSET Sides /\ open \in SUBSET (w.open \cup {side})
    BY <1>7
  <2>3. PICK v : v = [x EXCEPT !.count[side] = @ + n, !.open = open]
    OBVIOUS
  <2>4. CountedWith(v, w, side, f, n, open)
    BY <1>6, <2>3 DEF CountedWith
  <2>5. v \in Workers /\ v.open = open /\ Counts(v, w, side, n)
    BY <1>9, <2>2, <2>4, WorkerCounted
  <2>6. worker' = [worker EXCEPT ![f] = v]
    BY <2>1, <2>2, <2>3
  <2>7. PICK file \in OutFiles : file = [state |-> "open", rows |-> <<>>]
    <3>1. [state |-> "open", rows |-> <<>>] \in OutFiles
      BY DEF OutFiles
    <3>2. QED
      BY <3>1
  <2>8. /\ tree' \in [Sides -> [Files -> OutFiles]] /\ Unwritten(FileAt(f)', t, side)
        /\ \A g \in Files \ {f} : FileAt(g)' = FileAt(g)
    <3>1. CASE made /\ side \notin x.open
      <4>1. tree' = [tree EXCEPT ![side][f] = file]
        BY <2>1, <2>7, <3>1
      <4>2. /\ tree' \in [Sides -> [Files -> OutFiles]]
            /\ PutAt(FileAt(f)', FileAt(f), side, file)
            /\ \A g \in Files \ {f} : FileAt(g)' = FileAt(g)
        BY <4>1, TreePut
      <4>3. QED
        BY <1>1, <2>7, <4>2 DEF Unwritten, PutAt
    <3>2. CASE ~(made /\ side \notin x.open)
      <4>1. tree' = tree
        BY <2>1, <3>2
      <4>2. tree' \in [Sides -> [Files -> OutFiles]] /\ \A g : FileAt(g)' = FileAt(g)
        BY <4>1, TreeKept
      <4>3. QED
        BY <1>1, <4>2 DEF Unwritten
    <3>3. QED
      BY <3>1, <3>2
  <2>9. PICK u : u = FileAt(f)'
    OBVIOUS
  <2>10. MayOpen(v, w, side) /\ Unwritten(u, t, side)
    BY <2>2, <2>5, <2>8, <2>9 DEF MayOpen
  <2>11. Handled(v, u, src)
    BY <1>2, <1>3, <1>5, <1>9, <2>5, <2>10, LakeFails
  <2>12. /\ worker' \in [Files -> Workers] /\ worker'[f] = v
         /\ \A g \in Files \ {f} : worker'[g] = worker[g]
    BY <2>5, <2>6, WorkerMoved
  <2>13. faults' \in Nat /\ faults' # 0
    BY <1>11, FaultCounts
  <2>14. QED
    BY <1>1, <1>8, <2>8, <2>9, <2>11, <2>12, <2>13 DEF Moved, InLake
<1>12. QED
  BY <1>1, <1>5, <1>6, <1>10, <1>11 DEF WriteBatch

\* So does a batch with no row for that side: no file is made.
LEMMA LakeWriteNothing ==
  ASSUME Typed, job = "lake", NEW f \in Files, InLake(f), NEW side \in Sides, WriteNothing(side, f)
  PROVE  Moved(f) /\ InLake(f)'
<1>1. PICK w \in Workers, t \in [Sides -> OutFiles], src \in Inputs :
        w = worker[f] /\ t = FileAt(f) /\ src = input[f]
  BY TypedFile
<1>2. Handled(w, t, src) /\ (faults = 0 => Faultless(w, t, src)) /\ w.pc = side
  BY <1>1 DEF InLake, WriteNothing
<1>3. side \in {"clean", "trash"}
  BY <1>2 DEF Handled, Sides
<1>4. RowsFor(side, f) = src.batches[w.k][side]
  BY <1>1, <1>3 DEF RowsFor, Batch, Source
<1>5. PICK n \in Nat : n = src.batches[w.k][side] /\ n <= 0
  BY <1>4 DEF WriteNothing
<1>6. PICK v : v = Written(side, f, w)
  OBVIOUS
<1>7. v \in Workers /\ v.open = w.open /\ Counts(v, w, side, n)
  BY <1>5, <1>6, WorkerWroteNothing
<1>8. UNCHANGED <<input, tree, job, report, faults>> /\ worker' = [worker EXCEPT ![f] = v]
  BY <1>1, <1>6 DEF WriteNothing
<1>9. Handled(v, t, src) /\ (Faultless(w, t, src) => Faultless(v, t, src))
  BY <1>2, <1>3, <1>5, <1>7, LakeWritesNothing
<1>10. /\ worker' \in [Files -> Workers] /\ worker'[f] = v
       /\ \A g \in Files \ {f} : worker'[g] = worker[g]
  BY <1>7, <1>8, WorkerMoved
<1>11. tree' \in [Sides -> [Files -> OutFiles]] /\ \A g : FileAt(g)' = FileAt(g)
  BY <1>8, TreeKept
<1>12. faults' \in Nat /\ faults' = faults
  BY <1>8 DEF Typed
<1>13. QED
  BY <1>1, <1>2, <1>8, <1>9, <1>10, <1>11, <1>12 DEF Moved, InLake

\* Whatever the closure of a file does, the lake job handles it right.
LEMMA LakeFileStep ==
  ASSUME Typed, job = "lake", NEW f \in Files, InLake(f), FileStep(f)
  PROVE  Moved(f) /\ InLake(f)'
<1>1. CASE OpenFile(f)
  BY <1>1, LakeOpenFile
<1>2. CASE ReadBatch(f)
  BY <1>2, LakeReadBatch
<1>3. CASE EndOfFile(f)
  BY <1>3, LakeEndOfFile
<1>4. CASE CloseFile(f)
  BY <1>4, LakeCloseFile
<1>5. CASE \E s \in Sides : WriteBatch(s, f) \/ WriteNothing(s, f)
  BY <1>5, LakeWriteBatch, LakeWriteNothing
<1>6. QED
  BY <1>1, <1>2, <1>3, <1>4, <1>5 DEF FileStep

\* What is known of a file while the gold job runs.
InGold(f) ==
  /\ Gilded(worker[f], FileAt(f)["gold"], FileAt(f)["clean"])
  /\ faults = 0 => TrulyGilded(worker[f], FileAt(f)["gold"], FileAt(f)["clean"])

\* The gold job writes no clean and no trash file.
Untouched ==
  \A g \in Files : /\ (FileAt(g)["clean"])' = FileAt(g)["clean"]
                   /\ (FileAt(g)["trash"])' = FileAt(g)["trash"]

\* What the gold job reads.
LEMMA GoldSource ==
  ASSUME Typed, job = "gold", NEW f \in Files, NEW c \in OutFiles, c = FileAt(f)["clean"]
  PROVE  /\ Source(f).readable <=> c.state = "closed"
         /\ Len(Source(f).batches) = Len(c.rows)
         /\ \A n \in 1 .. Len(c.rows) : Source(f).batches[n] = [clean |-> c.rows[n], trash |-> 0]
         /\ Found(f) <=> c.state # "none"
<1>1. c = tree["clean"][f]
  BY TypedFile
<1>2. PICK r \in Seq(Nat \ {0}), len \in Nat : r = c.rows /\ len = Len(r) /\ DOMAIN r = 1 .. len
  BY RowsTyped
<1>3. PICK b : b = [n \in 1 .. len |-> [clean |-> r[n], trash |-> 0]]
  OBVIOUS
<1>4. Source(f) = [readable |-> c.state = "closed", batches |-> b]
  BY <1>1, <1>2, <1>3 DEF Source
<1>5. Len(b) = len /\ \A n \in 1 .. len : b[n] = [clean |-> r[n], trash |-> 0]
  BY <1>3
<1>6. Found(f) <=> c.state # "none"
  BY <1>1 DEF Found
<1>7. PICK s : s = Source(f)
  OBVIOUS
<1>8. s.readable <=> c.state = "closed"
  <2>1. s.readable = (c.state = "closed")
    BY <1>4, <1>7
  <2>2. QED
    BY <2>1
<1>9. s.batches = b
  BY <1>4, <1>7
<1>10. QED
  BY <1>2, <1>5, <1>6, <1>7, <1>8, <1>9

\* Opening a clean file keeps what create_gold promises of its copy.
LEMMA GoldOpenFile ==
  ASSUME Typed, job = "gold", NEW f \in Files, InGold(f), OpenFile(f)
  PROVE  Moved(f) /\ InGold(f)' /\ Untouched
<1>1. PICK w \in Workers, g \in OutFiles, c \in OutFiles :
        w = worker[f] /\ g = FileAt(f)["gold"] /\ c = FileAt(f)["clean"]
  BY TypedFile
<1>2. Gilded(w, g, c) /\ (faults = 0 => TrulyGilded(w, g, c)) /\ w.pc = "wait"
  BY <1>1 DEF InGold, OpenFile
<1>3. UNCHANGED <<input, tree, job, report>> /\ (Source(f).readable <=> c.state = "closed")
      /\ c.state \in {"open", "closed"}
  <2>1. Found(f) /\ c.state \in {"none", "open", "closed"}
    BY DEF OpenFile, OutFiles
  <2>2. QED
    BY <1>1, <2>1, GoldSource DEF OpenFile
<1>4. PICK p \in {"read", "skipped"} :
        /\ worker' = [worker EXCEPT ![f].pc = p] /\ (p = "read" => c.state = "closed")
        /\ faults' \in Nat /\ (faults' = 0 => faults = 0 /\ (p = "skipped" => c.state = "open"))
  <2>1. CASE ~Source(f).readable /\ Goto(f, "skipped") /\ Well
    BY <1>3, <2>1, FaultCounts DEF Goto
  <2>2. CASE Source(f).readable /\ Goto(f, "read") /\ Well
    BY <1>3, <2>2, FaultCounts DEF Goto
  <2>3. CASE Source(f).readable /\ Goto(f, "skipped") /\ Fault
    BY <1>3, <2>3, FaultCounts DEF Goto
  <2>4. QED
    BY <2>1, <2>2, <2>3 DEF OpenFile
<1>5. PICK v : v = [w EXCEPT !.pc = p]
  OBVIOUS
<1>6. /\ v \in Workers /\ Gilded(v, g, c)
      /\ TrulyGilded(w, g, c) /\ (p = "skipped" => c.state = "open") => TrulyGilded(v, g, c)
  BY <1>2, <1>4, <1>5, GoldOpens
<1>7. worker' = [worker EXCEPT ![f] = v]
  BY <1>1, <1>4, <1>5
<1>8. /\ worker' \in [Files -> Workers] /\ worker'[f] = v
      /\ \A e \in Files \ {f} : worker'[e] = worker[e]
  BY <1>6, <1>7, WorkerMoved
<1>9. tree' \in [Sides -> [Files -> OutFiles]] /\ \A e : FileAt(e)' = FileAt(e)
  BY <1>3, TreeKept
<1>10. QED
  BY <1>1, <1>2, <1>3, <1>4, <1>6, <1>8, <1>9 DEF Moved, InGold, Untouched

\* So does reading a batch of it.
LEMMA GoldReadBatch ==
  ASSUME Typed, job = "gold", NEW f \in Files, InGold(f), ReadBatch(f)
  PROVE  Moved(f) /\ InGold(f)' /\ Untouched
<1>1. PICK w \in Workers, g \in OutFiles, c \in OutFiles :
        w = worker[f] /\ g = FileAt(f)["gold"] /\ c = FileAt(f)["clean"]
  BY TypedFile
<1>2. Gilded(w, g, c) /\ (faults = 0 => TrulyGilded(w, g, c)) /\ w.pc = "read"
  BY <1>1 DEF InGold, ReadBatch
<1>3. UNCHANGED <<input, tree, job, report>> /\ w.k <= Len(c.rows)
  <2>1. w.k <= Len(Source(f).batches)
    BY <1>1 DEF ReadBatch
  <2>2. QED
    BY <1>1, <2>1, GoldSource DEF ReadBatch
<1>4. tree' \in [Sides -> [Files -> OutFiles]] /\ \A e : FileAt(e)' = FileAt(e)
  BY <1>3, TreeKept
<1>5. CASE /\ worker' = [worker EXCEPT ![f] =
                [worker[f] EXCEPT !.total = @ + Batch(f).clean + Batch(f).trash,
                                  !.pc = IF job = "gold" THEN "gold" ELSE "clean"]]
           /\ Well
  <2>1. PICK n : n = worker[f].total + Batch(f).clean + Batch(f).trash
    OBVIOUS
  <2>2. n \in Nat
    <3>1. w.k \in 1 .. Len(c.rows)
      BY <1>2, <1>3 DEF Gilded, Workers
    <3>2. Batch(f) = [clean |-> c.rows[w.k], trash |-> 0]
      BY <1>1, <3>1, GoldSource DEF Batch
    <3>3. c.rows[w.k] \in Nat /\ w.total \in Nat
      BY <3>1, RowsTyped DEF Workers
    <3>4. QED
      BY <1>1, <2>1, <3>2, <3>3
  <2>3. PICK v : v = [worker[f] EXCEPT !.total = n, !.pc = "gold"]
    OBVIOUS
  <2>4. worker' = [worker EXCEPT ![f] = v]
    BY <1>5, <2>1, <2>3
  <2>5. v = [w EXCEPT !.total = n, !.pc = "gold"]
    BY <1>1, <2>3
  <2>6. /\ v \in Workers /\ Gilded(v, g, c)
        /\ TrulyGilded(w, g, c) => TrulyGilded(v, g, c)
    <3>1. Gilded(w, g, c) /\ w.pc = "read" /\ w.k <= Len(c.rows)
      BY <1>2, <1>3
    <3>2. QED
      BY ZenonT(40), <2>2, <2>5, <3>1, GoldReads
  <2>7. /\ worker' \in [Files -> Workers] /\ worker'[f] = v
        /\ \A e \in Files \ {f} : worker'[e] = worker[e]
    BY <2>4, <2>6, WorkerMoved
  <2>8. faults' \in Nat /\ faults' = faults
    BY <1>5, FaultCounts
  <2>9. QED
    BY <1>1, <1>2, <1>3, <1>4, <2>6, <2>7, <2>8 DEF Moved, InGold, Untouched
<1>6. CASE worker' = [worker EXCEPT ![f].k = @ + 1] /\ Fault
  <2>1. PICK v : v = [w EXCEPT !.k = w.k + 1]
    OBVIOUS
  <2>2. worker' = [worker EXCEPT ![f] = v]
    BY <1>1, <1>6, <2>1
  <2>3. v \in Workers /\ Gilded(v, g, c)
    BY <1>2, <1>3, <2>1, GoldDrops
  <2>4. /\ worker' \in [Files -> Workers] /\ worker'[f] = v
        /\ \A e \in Files \ {f} : worker'[e] = worker[e]
    BY <2>2, <2>3, WorkerMoved
  <2>5. faults' \in Nat /\ faults' # 0
    BY <1>6, FaultCounts
  <2>6. QED
    BY <1>1, <1>2, <1>3, <1>4, <2>3, <2>4, <2>5 DEF Moved, InGold, Untouched
<1>7. QED
  BY <1>5, <1>6 DEF ReadBatch

\* So does reaching its end.
LEMMA GoldEndOfFile ==
  ASSUME Typed, job = "gold", NEW f \in Files, InGold(f), EndOfFile(f)
  PROVE  Moved(f) /\ InGold(f)' /\ Untouched
<1>1. PICK w \in Workers, g \in OutFiles, c \in OutFiles :
        w = worker[f] /\ g = FileAt(f)["gold"] /\ c = FileAt(f)["clean"]
  BY TypedFile
<1>2. Gilded(w, g, c) /\ (faults = 0 => TrulyGilded(w, g, c)) /\ w.pc = "read"
  BY <1>1 DEF InGold, EndOfFile
<1>3. UNCHANGED <<input, tree, job, report, faults>> /\ w.k > Len(c.rows)
  <2>1. w.k > Len(Source(f).batches)
    BY <1>1 DEF EndOfFile
  <2>2. QED
    BY <1>1, <2>1, GoldSource DEF EndOfFile
<1>4. tree' \in [Sides -> [Files -> OutFiles]] /\ \A e : FileAt(e)' = FileAt(e)
  BY <1>3, TreeKept
<1>5. PICK v : v = [w EXCEPT !.pc = "close"]
  OBVIOUS
<1>6. worker' = [worker EXCEPT ![f] = v]
  BY <1>1, <1>5 DEF EndOfFile, Goto
<1>7. /\ v \in Workers /\ Gilded(v, g, c)
      /\ TrulyGilded(w, g, c) => TrulyGilded(v, g, c)
  BY <1>2, <1>3, <1>5, GoldEnds
<1>8. /\ worker' \in [Files -> Workers] /\ worker'[f] = v
      /\ \A e \in Files \ {f} : worker'[e] = worker[e]
  BY <1>6, <1>7, WorkerMoved
<1>9. faults' \in Nat /\ faults' = faults
  BY <1>3 DEF Typed
<1>10. QED
  BY <1>1, <1>2, <1>3, <1>4, <1>7, <1>8, <1>9 DEF Moved, InGold, Untouched

\* So does finishing the copy.
LEMMA GoldCloseFile ==
  ASSUME Typed, job = "gold", NEW f \in Files, InGold(f), CloseFile(f)
  PROVE  Moved(f) /\ InGold(f)' /\ Untouched
<1>1. PICK w \in Workers, t \in [Sides -> OutFiles], c \in OutFiles, g \in OutFiles :
        w = worker[f] /\ t = FileAt(f) /\ c = FileAt(f)["clean"] /\ g = t["gold"]
  BY TypedFile
<1>2. /\ Gilded(w, g, c) /\ (faults = 0 => TrulyGilded(w, g, c))
      /\ w.pc = "close" /\ t["clean"] = c
  BY <1>1 DEF InGold, CloseFile
<1>3. UNCHANGED <<input, job, report>> /\ worker' = [worker EXCEPT ![f].pc = "done"]
  BY DEF CloseFile, Goto
<1>4. PICK lost \in SUBSET w.open :
        /\ IF lost = {} THEN Well ELSE Fault
        /\ AllClosed(f, w.open, lost)
  <2>1. \E lost \in SUBSET worker[f].open :
          /\ IF lost = {} THEN Well ELSE Fault
          /\ AllClosed(f, worker[f].open, lost)
    BY DEF CloseFile, AllClosed
  <2>2. w.open = worker[f].open
    BY <1>1
  <2>3. QED
    BY <2>1, <2>2
<1>5. /\ tree' \in [Sides -> [Files -> OutFiles]] /\ ClosedFiles(FileAt(f)', t, w.open, lost)
      /\ \A e \in Files \ {f} : FileAt(e)' = FileAt(e)
  BY <1>1, <1>4, TreeClosed
<1>6. PICK u, v : u = FileAt(f)' /\ ClosedFiles(u, t, w.open, lost) /\ v = [w EXCEPT !.pc = "done"]
  BY <1>5
<1>7. g = t["gold"]
  BY <1>1
<1>8. PICK h : h = u["gold"]
  OBVIOUS
<1>9. v \in Workers /\ Gilded(v, h, c) /\ SidesKept(u, t)
  <2>1. Gilded(w, g, c) /\ w.pc = "close"
    BY <1>2
  <2>2. v \in Workers
    BY <1>6, <1>8, <1>7, <2>1, GoldCloses
  <2>3. Gilded(v, h, c)
    BY <1>6, <1>8, <1>7, <2>1, GoldCloses
  <2>4. SidesKept(u, t)
    BY <1>6, <1>8, <1>7, <2>1, GoldCloses
  <2>5. QED
    BY <2>2, <2>3, <2>4
<1>10. TrulyGilded(w, g, c) /\ Lossless(lost) => TrulyGilded(v, h, c)
  <2>1. Gilded(w, g, c) /\ w.pc = "close"
    BY <1>2
  <2>2. ASSUME TrulyGilded(w, g, c), Lossless(lost) PROVE TrulyGilded(v, h, c)
    BY <1>6, <1>8, <1>7, <2>1, <2>2, GoldCloses
  <2>3. QED
    BY <2>2
<1>11. worker' = [worker EXCEPT ![f] = v]
  BY <1>1, <1>3, <1>6
<1>12. /\ worker' \in [Files -> Workers] /\ worker'[f] = v
      /\ \A e \in Files \ {f} : worker'[e] = worker[e]
  BY <1>9, <1>11, WorkerMoved
<1>13. faults' \in Nat /\ (faults' = 0 => faults = 0 /\ Lossless(lost))
  BY <1>4, FaultCounts DEF Lossless
<1>14. Untouched
  BY <1>1, <1>5, <1>6, <1>9 DEF Untouched, SidesKept
<1>15. InGold(f)'
  <2>1. worker[f]' = v /\ (FileAt(f)["gold"])' = h /\ (FileAt(f)["clean"])' = c
    BY <1>2, <1>6, <1>9, <1>12, <1>8 DEF SidesKept
  <2>2. QED
    BY <1>2, <1>9, <1>13, <1>10, <2>1 DEF InGold
<1>16. QED
  BY <1>3, <1>5, <1>12, <1>13, <1>14, <1>15 DEF Moved

\* So does writing a batch of it.
LEMMA GoldWriteBatch ==
  ASSUME Typed, job = "gold", NEW f \in Files, InGold(f), NEW side \in Sides, WriteBatch(side, f)
  PROVE  Moved(f) /\ InGold(f)' /\ Untouched
<1>1. PICK w \in Workers, t \in [Sides -> OutFiles], c \in OutFiles, g \in OutFiles :
        w = worker[f] /\ t = FileAt(f) /\ c = FileAt(f)["clean"] /\ g = t["gold"]
  BY TypedFile
<1>2. /\ Gilded(w, g, c) /\ (faults = 0 => TrulyGilded(w, g, c))
      /\ w.pc = side /\ t["clean"] = c
  BY <1>1 DEF InGold, WriteBatch
<1>3. side = "gold"
  BY <1>2 DEF Gilded, Sides
<1>4. PICK n \in Nat \ {0} : n = c.rows[w.k] /\ n = RowsFor(side, f)
  <2>1. w.k \in 1 .. Len(c.rows)
    <3>1. Len(c.rows) \in Nat /\ w.k \in Nat
      BY RowsTyped DEF Workers
    <3>2. QED
      BY <1>2, <1>3, <3>1 DEF Gilded
  <2>2. Batch(f) = [clean |-> c.rows[w.k], trash |-> 0]
    BY <1>1, <2>1, GoldSource DEF Batch
  <2>3. RowsFor(side, f) = c.rows[w.k]
    BY <1>3, <2>2 DEF RowsFor
  <2>4. QED
    BY <2>1, <2>3, RowsTyped
<1>5. PICK x : x = Written(side, f, w)
  OBVIOUS
<1>6. x.open = w.open /\ w.open \in SUBSET Sides
  BY <1>5, WorkerWrote DEF Workers
<1>7. UNCHANGED <<input, job, report>>
  BY DEF WriteBatch
<1>8. n \in Nat
  OBVIOUS
<1>9. CASE /\ worker' = [worker EXCEPT ![f] =
                 [x EXCEPT !.count[side] = @ + n, !.open = @ \cup {side}]]
           /\ tree' = [tree EXCEPT ![side][f] =
                 [state |-> "open",
                  rows |-> Append(IF side \in x.open THEN tree[side][f].rows ELSE <<>>, n)]]
           /\ Well
  <2>1. PICK open : open = x.open \cup {side} /\ open \in SUBSET Sides
    BY <1>6
  <2>2. PICK v : v = [x EXCEPT !.count[side] = @ + n, !.open = open]
    OBVIOUS
  <2>3. CountedWith(v, w, side, f, n, open)
    BY <1>5, <2>2 DEF CountedWith
  <2>4. v \in Workers /\ v.open = open /\ Counts(v, w, side, n)
    BY <1>8, <2>1, <2>3, WorkerCounted
  <2>5. Opens(v, w, side)
    BY <1>6, <2>1, <2>4 DEF Opens
  <2>6. worker' = [worker EXCEPT ![f] = v]
    BY <1>9, <2>1, <2>2
  <2>7. PICK old : old = IF side \in w.open THEN t[side].rows ELSE <<>>
    OBVIOUS
  <2>8. PICK file : file = [state |-> "open", rows |-> Append(old, n)]
    OBVIOUS
  <2>9. t[side] = tree[side][f]
    BY <1>1 DEF FileAt
  <2>10. tree' = [tree EXCEPT ![side][f] = file]
    BY <1>6, <1>9, <2>7, <2>8, <2>9
  <2>11. file \in OutFiles
    <3>1. old \in Seq(Nat \ {0})
      BY <2>7 DEF OutFiles
    <3>2. Append(old, n) \in Seq(Nat \ {0})
      BY <3>1, SumOfRows
    <3>3. QED
      BY <2>8, <3>2 DEF OutFiles
  <2>12. /\ tree' \in [Sides -> [Files -> OutFiles]] /\ PutAt(FileAt(f)', t, side, file)
         /\ \A e \in Files \ {f} : FileAt(e)' = FileAt(e)
    BY <1>1, <2>10, <2>11, TreePut
  <2>13. PICK u : u = FileAt(f)' /\ PutAt(u, t, side, file)
    BY <2>12
  <2>14. WrittenTo(u, t, side, n, w.open) /\ u["clean"] = t["clean"] /\ u["trash"] = t["trash"]
    BY <1>3, <2>7, <2>8, <2>13 DEF WrittenTo, PutAt, Sides
  <2>15. g = t["gold"]
    BY <1>1
  <2>16. PICK h : h = u["gold"]
    OBVIOUS
  <2>17. /\ Gilded(w, g, c) /\ w.pc = "gold" /\ n = c.rows[w.k]
         /\ WrittenTo(u, t, "gold", n, w.open) /\ Opens(v, w, "gold") /\ Counts(v, w, "gold", n)
    BY <1>2, <1>3, <1>4, <2>4, <2>5, <2>14
  <2>18. Gilded(v, h, c)
    BY <2>4, <2>16, <2>15, <2>17, GoldWrites
  <2>19. ASSUME TrulyGilded(w, g, c) PROVE TrulyGilded(v, h, c)
    BY <2>4, <2>19, <2>16, <2>15, <2>17, GoldWrites
  <2>20. /\ worker' \in [Files -> Workers] /\ worker'[f] = v
         /\ \A e \in Files \ {f} : worker'[e] = worker[e]
    BY <2>4, <2>6, WorkerMoved
  <2>21. faults' \in Nat /\ faults' = faults
    BY <1>9, FaultCounts
  <2>22. Untouched
    BY <1>1, <2>12, <2>13, <2>14 DEF Untouched
  <2>23. InGold(f)'
    BY <1>1, <1>2, <2>13, <2>14, <2>19, <2>20, <2>21, <2>16, <2>18 DEF InGold
  <2>24. QED
    BY <1>7, <2>12, <2>20, <2>21, <2>22, <2>23 DEF Moved
<1>10. CASE /\ \E made, kept \in BOOLEAN :
                 /\ kept => made
                 /\ worker' = [worker EXCEPT ![f] =
                      [x EXCEPT !.count[side] = @ + n,
                                !.open = IF kept THEN @ \cup {side} ELSE @]]
                 /\ tree' = IF made /\ side \notin x.open
                              THEN [tree EXCEPT ![side][f] = [state |-> "open", rows |-> <<>>]]
                              ELSE tree
            /\ Fault
  <2>1. PICK made \in BOOLEAN, kept \in BOOLEAN :
                 /\ worker' = [worker EXCEPT ![f] =
                      [x EXCEPT !.count[side] = @ + n,
                                !.open = IF kept THEN @ \cup {side} ELSE @]]
                 /\ tree' = IF made /\ side \notin x.open
                              THEN [tree EXCEPT ![side][f] = [state |-> "open", rows |-> <<>>]]
                              ELSE tree
    BY <1>10
  <2>2. PICK open : /\ open = IF kept THEN x.open \cup {side} ELSE x.open
                    /\ open \in SUBSET Sides /\ open \in SUBSET (w.open \cup {side})
    BY <1>6
  <2>3. PICK v : v = [x EXCEPT !.count[side] = @ + n, !.open = open]
    OBVIOUS
  <2>4. CountedWith(v, w, side, f, n, open)
    BY <1>5, <2>3 DEF CountedWith
  <2>5. v \in Workers /\ v.open = open /\ Counts(v, w, side, n)
    BY <1>8, <2>2, <2>4, WorkerCounted
  <2>6. worker' = [worker EXCEPT ![f] = v]
    BY <2>1, <2>2, <2>3
  <2>7. PICK file \in OutFiles : file = [state |-> "open", rows |-> <<>>]
    <3>1. [state |-> "open", rows |-> <<>>] \in OutFiles
      BY DEF OutFiles
    <3>2. QED
      BY <3>1
  <2>8. /\ tree' \in [Sides -> [Files -> OutFiles]] /\ Unwritten(FileAt(f)', t, side)
        /\ \A e \in Files \ {f} : FileAt(e)' = FileAt(e)
    <3>1. CASE made /\ side \notin x.open
      <4>1. tree' = [tree EXCEPT ![side][f] = file]
        BY <2>1, <2>7, <3>1
      <4>2. /\ tree' \in [Sides -> [Files -> OutFiles]]
            /\ PutAt(FileAt(f)', FileAt(f), side, file)
            /\ \A e \in Files \ {f} : FileAt(e)' = FileAt(e)
        BY <4>1, TreePut
      <4>3. QED
        BY <1>1, <2>7, <4>2 DEF Unwritten, PutAt
    <3>2. CASE ~(made /\ side \notin x.open)
      <4>1. tree' = tree
        BY <2>1, <3>2
      <4>2. tree' \in [Sides -> [Files -> OutFiles]] /\ \A e : FileAt(e)' = FileAt(e)
        BY <4>1, TreeKept
      <4>3. QED
        BY <1>1, <4>2 DEF Unwritten
    <3>3. QED
      BY <3>1, <3>2
  <2>9. PICK u : u = FileAt(f)'
    OBVIOUS
  <2>10. MayOpen(v, w, side) /\ Unwritten(u, t, side)
    BY <2>2, <2>5, <2>8, <2>9 DEF MayOpen
  <2>11. Gilded(v, u["gold"], c)
    BY <1>1, <1>2, <1>3, <1>4, <2>5, <2>10, GoldFails
  <2>12. u["clean"] = t["clean"] /\ u["trash"] = t["trash"]
    BY <1>3, <2>10 DEF Unwritten, Sides
  <2>13. /\ worker' \in [Files -> Workers] /\ worker'[f] = v
         /\ \A e \in Files \ {f} : worker'[e] = worker[e]
    BY <2>5, <2>6, WorkerMoved
  <2>14. faults' \in Nat /\ faults' # 0
    BY <1>10, FaultCounts
  <2>15. Untouched
    BY <1>1, <2>8, <2>9, <2>12 DEF Untouched
  <2>16. InGold(f)'
    BY <1>2, <1>1, <2>9, <2>11, <2>12, <2>13, <2>14 DEF InGold
  <2>17. QED
    BY <1>7, <2>8, <2>13, <2>14, <2>15, <2>16 DEF Moved
<1>11. QED
  BY <1>1, <1>4, <1>5, <1>9, <1>10 DEF WriteBatch

\* No batch of a clean file is empty.
LEMMA GoldWriteNothing ==
  ASSUME Typed, job = "gold", NEW f \in Files, InGold(f), NEW side \in Sides, WriteNothing(side, f)
  PROVE  FALSE
<1>1. PICK w \in Workers, t \in [Sides -> OutFiles], c \in OutFiles :
        w = worker[f] /\ t = FileAt(f) /\ c = FileAt(f)["clean"]
  BY TypedFile
<1>2. Gilded(w, t["gold"], c) /\ w.pc = side
  BY <1>1 DEF InGold, WriteNothing
<1>3. side = "gold"
  BY <1>2 DEF Gilded, Sides
<1>4. w.k \in 1 .. Len(c.rows)
  <2>1. Len(c.rows) \in Nat /\ w.k \in Nat
    BY RowsTyped DEF Workers
  <2>2. QED
    BY <1>2, <1>3, <2>1 DEF Gilded
<1>5. Batch(f) = [clean |-> c.rows[w.k], trash |-> 0]
  BY <1>1, <1>4, GoldSource DEF Batch
<1>6. RowsFor(side, f) # 0
  BY <1>3, <1>4, <1>5, RowsTyped DEF RowsFor
<1>7. QED
  BY <1>6 DEF WriteNothing

\* Whatever the closure of a file does, the gold job handles it right.
LEMMA GoldFileStep ==
  ASSUME Typed, job = "gold", NEW f \in Files, InGold(f), FileStep(f)
  PROVE  Moved(f) /\ InGold(f)' /\ Untouched
<1>1. CASE OpenFile(f)
  BY <1>1, GoldOpenFile
<1>2. CASE ReadBatch(f)
  BY <1>2, GoldReadBatch
<1>3. CASE EndOfFile(f)
  BY <1>3, GoldEndOfFile
<1>4. CASE CloseFile(f)
  BY <1>4, GoldCloseFile
<1>5. CASE \E s \in Sides : WriteBatch(s, f) \/ WriteNothing(s, f)
  BY <1>5, GoldWriteBatch, GoldWriteNothing
<1>6. QED
  BY <1>1, <1>2, <1>3, <1>4, <1>5 DEF FileStep

\* Elements that add nothing can be left out of a sum.
LEMMA SumPart ==
  ASSUME NEW S, IsFiniteSet(S), NEW R, R \in SUBSET S, NEW f, NEW h,
         \A x \in R : f[x] \in Nat /\ h[x] = f[x],
         \A x \in S \ R : h[x] = 0
  PROVE  SumFunctionOnSet(h, S) = SumFunctionOnSet(f, R)
<1> DEFINE B == {s \in SUBSET S : R \in SUBSET s /\ SumFunctionOnSet(h, s) # SumFunctionOnSet(f, R)}
<1>1. SUFFICES ASSUME B # {} PROVE FALSE
  OBVIOUS
<1>2. PICK s \in B : \A t \in B : ~(t \subseteq s /\ t # s)
  <2>1. B \subseteq SUBSET S
    OBVIOUS
  <2> HIDE DEF B
  <2>2. QED
    BY <1>1, <2>1, LeastSubset
<1>3. s \in SUBSET S /\ R \in SUBSET s /\ SumFunctionOnSet(h, s) # SumFunctionOnSet(f, R)
  OBVIOUS
<1>4. IsFiniteSet(s) /\ IsFiniteSet(R)
  BY <1>3, FS_Subset
<1>5. \A x \in S : h[x] \in Nat
  OBVIOUS
<1>6. s # R
  <2>1. \A x \in R : h[x] = f[x]
    OBVIOUS
  <2>2. SumFunctionOnSet(h, R) = SumFunctionOnSet(f, R)
    BY <1>4, <2>1, SumSame
  <2>3. QED
    BY <1>3, <2>2
<1>7. PICK y \in s : y \notin R
  BY <1>3, <1>6
<1>8. PICK t : t = s \ {y}
  OBVIOUS
<1>9. t \in SUBSET S /\ R \in SUBSET t /\ t \subseteq s /\ t # s
  BY <1>3, <1>7, <1>8
<1>10. SumFunctionOnSet(h, t) = SumFunctionOnSet(f, R)
  BY <1>2, <1>9
<1>11. h[y] = 0
  BY <1>3, <1>7
<1>12. SumFunctionOnSet(h, s) = h[y] + SumFunctionOnSet(h, t)
  <2>1. \A x \in s : h[x] \in Nat
    BY <1>3, <1>5
  <2>2. QED
    BY <1>4, <1>8, <2>1, SumAny
<1>13. SumFunctionOnSet(h, t) \in Nat
  <2>1. IsFiniteSet(t)
    BY <1>4, <1>9, FS_Subset
  <2>2. \A x \in t : h[x] \in Nat
    BY <1>5, <1>9
  <2>3. QED
    BY <2>1, <2>2, SumNat
<1>14. SumFunctionOnSet(h, s) = SumFunctionOnSet(h, t)
  BY <1>11, <1>12, <1>13
<1>15. QED
  BY <1>3, <1>10, <1>14

\* A sum over the files that are done, between two sums over all files.
LEMMA SumBetween ==
  ASSUME NEW R \in SUBSET Files, NEW cnt, NEW low, NEW high,
         \A f \in Files : cnt[f] \in Nat /\ low[f] \in Nat /\ high[f] \in Nat,
         \A f \in Files \ R : low[f] = 0
  PROVE  /\ SumFunctionOnSet(cnt, R) \in Nat
         /\ SumFunctionOnSet(low, Files) \in Nat /\ SumFunctionOnSet(high, Files) \in Nat
         /\ (\A f \in R : low[f] <= cnt[f]) => SumFunctionOnSet(low, Files) <= SumFunctionOnSet(cnt, R)
         /\ (\A f \in R : low[f] = cnt[f]) => SumFunctionOnSet(low, Files) = SumFunctionOnSet(cnt, R)
         /\ (\A f \in R : cnt[f] <= high[f]) => SumFunctionOnSet(cnt, R) <= SumFunctionOnSet(high, Files)
<1>1. IsFiniteSet(Files) /\ IsFiniteSet(R)
  BY WriterBounds, FS_Subset
<1>2. PICK all : all = [f \in Files |-> IF f \in R THEN cnt[f] ELSE 0]
  OBVIOUS
<1>3. SumFunctionOnSet(all, Files) = SumFunctionOnSet(cnt, R)
  <2>1. \A f \in R : cnt[f] \in Nat /\ all[f] = cnt[f]
    BY <1>2
  <2>2. \A f \in Files \ R : all[f] = 0
    BY <1>2
  <2>3. QED
    BY <1>1, <2>1, <2>2, SumPart
<1>4. \A f \in Files : all[f] \in Nat
  BY <1>2
<1>5. /\ SumFunctionOnSet(all, Files) \in Nat /\ SumFunctionOnSet(low, Files) \in Nat
      /\ SumFunctionOnSet(high, Files) \in Nat
  BY <1>1, <1>4, SumNat
<1>6. ASSUME \A f \in R : low[f] <= cnt[f]
      PROVE  SumFunctionOnSet(low, Files) <= SumFunctionOnSet(all, Files)
  <2>1. \A f \in Files : low[f] \in Nat /\ all[f] \in Nat /\ low[f] <= all[f]
    BY <1>2, <1>6
  <2>2. QED
    BY <1>1, <2>1, SumLeq
<1>7. ASSUME \A f \in R : low[f] = cnt[f]
      PROVE  SumFunctionOnSet(low, Files) = SumFunctionOnSet(all, Files)
  <2>1. \A f \in Files : low[f] = all[f]
    BY <1>2, <1>7
  <2>2. QED
    BY <1>1, <2>1, SumSame
<1>8. ASSUME \A f \in R : cnt[f] <= high[f]
      PROVE  SumFunctionOnSet(all, Files) <= SumFunctionOnSet(high, Files)
  <2>1. \A f \in Files : all[f] \in Nat /\ high[f] \in Nat /\ all[f] <= high[f]
    BY <1>2, <1>8
  <2>2. QED
    BY <1>1, <2>1, SumLeq
<1>9. QED
  BY <1>3, <1>5, <1>6, <1>7, <1>8

\* The rows of the closed files of a side.
OnDisk(side) == [f \in Files |-> IF tree[side][f].state = "closed"
                                   THEN SumFunction(tree[side][f].rows) ELSE 0]

\* RowsOnDisk is the sum of OnDisk over the files.
LEMMA OnDiskTyped ==
  ASSUME Typed, NEW side \in Sides
  PROVE  /\ RowsOnDisk(side) = SumFunctionOnSet(OnDisk(side), Files)
         /\ \A f \in Files :
              /\ OnDisk(side)[f] = IF FileAt(f)[side].state = "closed"
                                     THEN SumFunction(FileAt(f)[side].rows) ELSE 0
              /\ OnDisk(side)[f] \in Nat /\ SumFunction(FileAt(f)[side].rows) \in Nat
<1>1. ASSUME NEW f \in Files PROVE SumFunction(tree[side][f].rows) \in Nat
  <2>1. tree[side][f] \in OutFiles
    BY DEF Typed
  <2>2. QED
    BY <2>1, RowsTyped
<1>2. DOMAIN OnDisk(side) = Files
  BY DEF OnDisk
<1>3. RowsOnDisk(side) = SumFunction(OnDisk(side))
  BY DEF RowsOnDisk, OnDisk
<1>4. RowsOnDisk(side) = SumFunctionOnSet(OnDisk(side), Files)
  BY <1>2, <1>3, FilesSums
<1>5. \A f \in Files : FileAt(f)[side] = tree[side][f]
  BY DEF FileAt
<1>6. QED
  BY <1>1, <1>4, <1>5 DEF OnDisk

\* What the closures counted of a side.
CountOf(side) == [f \in Files |-> worker[f].count[side]]

\* Counted is the sum of the counts of the workers whose results are kept.
LEMMA CountOfTyped ==
  ASSUME Typed, NEW side \in Sides
  PROVE  /\ Counted(side) = SumFunctionOnSet(CountOf(side), Results)
         /\ Results \in SUBSET Files
         /\ \A f \in Files : /\ CountOf(side)[f] = worker[f].count[side]
                             /\ CountOf(side)[f] \in Nat
BY DEF Counted, CountOf, Results, Typed, Workers

\* The counts of a side cover the files of the side that are closed.
LEMMA Covered ==
  ASSUME Typed, NEW side \in Sides,
         \A f \in Files :
           /\ SumFunction(FileAt(f)[side].rows) <= worker[f].count[side]
           /\ FileAt(f)[side].state = "closed" => worker[f].pc = "done"
  PROVE  /\ Counted(side) \in Nat /\ RowsOnDisk(side) \in Nat /\ RowsOnDisk(side) <= Counted(side)
         /\ (\A f \in Files : worker[f].pc = "done" =>
               worker[f].count[side] = IF FileAt(f)[side].state = "closed"
                                         THEN SumFunction(FileAt(f)[side].rows) ELSE 0)
              => RowsOnDisk(side) = Counted(side)
<1>1. PICK cnt, low, R : cnt = CountOf(side) /\ low = OnDisk(side) /\ R = Results
  OBVIOUS
<1>2. /\ Counted(side) = SumFunctionOnSet(cnt, R) /\ RowsOnDisk(side) = SumFunctionOnSet(low, Files)
      /\ R \in SUBSET Files /\ \A f \in Files : cnt[f] \in Nat /\ low[f] \in Nat
  BY <1>1, CountOfTyped, OnDiskTyped
<1>3. \A f \in R : f \in Files /\ worker[f].pc = "done"
  BY <1>1 DEF Results
<1>4. \A f \in Files \ R : worker[f].pc # "done"
  BY <1>1 DEF Results
<1>5. \A f \in Files \ R : low[f] = 0
  BY <1>1, <1>4, OnDiskTyped
<1>6. \A f \in R : low[f] <= cnt[f]
  <2>1. ASSUME NEW f \in R PROVE low[f] <= cnt[f]
    <3>1. f \in Files
      BY <1>3
    <3>2. cnt[f] = worker[f].count[side] /\ cnt[f] \in Nat
      BY <1>1, <3>1, CountOfTyped
    <3>3. low[f] = IF FileAt(f)[side].state = "closed"
                     THEN SumFunction(FileAt(f)[side].rows) ELSE 0
      BY <1>1, <3>1, OnDiskTyped
    <3>4. SumFunction(FileAt(f)[side].rows) <= worker[f].count[side]
      BY <3>1
    <3>5. QED
      BY <3>2, <3>3, <3>4
  <2>2. QED
    BY <2>1
<1>7. /\ SumFunctionOnSet(cnt, R) \in Nat /\ SumFunctionOnSet(low, Files) \in Nat
      /\ SumFunctionOnSet(low, Files) <= SumFunctionOnSet(cnt, R)
      /\ (\A f \in R : low[f] = cnt[f]) => SumFunctionOnSet(low, Files) = SumFunctionOnSet(cnt, R)
  BY <1>2, <1>5, <1>6, SumBetween
<1>8. ASSUME \A f \in Files : worker[f].pc = "done" =>
               worker[f].count[side] = IF FileAt(f)[side].state = "closed"
                                         THEN SumFunction(FileAt(f)[side].rows) ELSE 0
      PROVE  \A f \in R : low[f] = cnt[f]
  <2>1. ASSUME NEW f \in R PROVE low[f] = cnt[f]
    <3>1. f \in Files /\ worker[f].pc = "done"
      BY <1>3
    <3>2. cnt[f] = worker[f].count[side]
      BY <1>1, <3>1, CountOfTyped
    <3>3. low[f] = IF FileAt(f)[side].state = "closed"
                     THEN SumFunction(FileAt(f)[side].rows) ELSE 0
      BY <1>1, <3>1, OnDiskTyped
    <3>4. QED
      BY <1>8, <3>1, <3>2, <3>3
  <2>2. QED
    BY <2>1
<1>9. QED
  BY <1>2, <1>7, <1>8

\* What a side has of an input file without I/O errors.
Whole(src, s) == IF src.readable THEN KeptOf(s, src.batches, Len(src.batches)) ELSE <<>>
FileOf(rows)  == IF rows = <<>> THEN NoFile ELSE [state |-> "closed", rows |-> rows]
TrueFile(f)   == \A s \in {"clean", "trash"} : FileAt(f)[s] = FileOf(Whole(input[f], s))

\* What the lake job returned.
Reported ==
  /\ report.total = report.clean + report.trash
  /\ RowsOnDisk("clean") <= report.clean /\ RowsOnDisk("trash") <= report.trash
  /\ faults = 0 => /\ \A f \in Files : TrueFile(f)
                   /\ report.clean = RowsOnDisk("clean") /\ report.trash = RowsOnDisk("trash")

\* What the gold job returned.
GoldReported ==
  /\ report.gold <= report.clean /\ RowsOnDisk("gold") <= report.gold
  /\ faults = 0 => /\ \A f \in Files : FileAt(f)["gold"] = FileAt(f)["clean"]
                   /\ report.gold = RowsOnDisk("gold")

\* The type of the report.
Reports == [files: Nat, total: Nat, clean: Nat, trash: Nat, gold: Nat]

\* The inductive invariant of the writer.
LakeParts ==
  /\ Typed /\ report \in Reports
  /\ job \in {"idle", "lake", "lake done", "gold", "gold done"}
  /\ job \in {"idle", "lake"} => \A f \in Files : InLake(f)
  /\ job \notin {"lake", "gold"} => \A f \in Files : worker[f].pc \in {"wait", "done", "skipped"}
  /\ job \in {"lake done", "gold", "gold done"} => Reported
  /\ job = "lake done" => \A f \in Files : FileAt(f)["gold"] = NoFile
  /\ job = "gold" => \A f \in Files : InGold(f)
  /\ job = "gold done" => GoldReported

\* What a job starts with has the types above.
LEMMA RestingTyped ==
  /\ Resting \in Workers /\ NoFile \in OutFiles /\ NoReport \in Reports
  /\ SumFunction(<<>>) = 0
<1>1. NoFile \in OutFiles
  BY DEF NoFile, OutFiles
<1>2. SumFunction(<<>>) = 0
  BY SumOfNone
<1>3. QED
  BY <1>1, <1>2 DEF Resting, Workers, NoReport, Reports

\* A closure that has not begun.
LEMMA RestingHandled ==
  ASSUME NEW t, NEW src \in Inputs, \A s \in Sides : t[s] = NoFile
  PROVE  Handled(Resting, t, src) /\ Faultless(Resting, t, src)
<1>1. /\ Resting.pc = "wait" /\ Resting.k = 1 /\ Resting.open = {} /\ Resting.total = 0
      /\ \A s \in Sides : Resting.count[s] = 0
  BY DEF Resting
<1>2. \A s \in Sides : t[s].rows = <<>> /\ t[s].state = "none"
  BY DEF NoFile
<1>3. \A s \in {"clean", "trash"} : s \in Sides
  BY DEF Sides
<1>4. SumFunction(<<>>) = 0
  BY RestingTyped
<1>5. PICK n \in Nat : n = Len(src.batches)
  BY DEF Inputs
<1>6. Handled(Resting, t, src)
  <2>1. t["gold"] = NoFile
    BY DEF Sides
  <2>2. 1 <= n + 1
    OBVIOUS
  <2>3. Due(Resting, src.batches) = 0
    BY <1>1 DEF Due
  <2>4. Resting.total = Resting.count["clean"] + Resting.count["trash"] + 0
    BY <1>1, <1>3
  <2>5. \A s \in {"clean", "trash"} : /\ SumFunction(t[s].rows) <= Resting.count[s]
                                      /\ t[s].state = "closed" => Resting.pc = "done"
    BY <1>1, <1>2, <1>3, <1>4
  <2>6. QED
    BY <1>1, <1>5, <2>1, <2>2, <2>3, <2>4, <2>5 DEF Handled
<1>7. Faultless(Resting, t, src)
  <2>1. ASSUME NEW s \in {"clean", "trash"}
        PROVE  Holds(Resting, t[s], s, KeptOf(s, src.batches, Through(Resting, s)))
    <3>1. Through(Resting, s) = 0
      BY <1>1 DEF Through
    <3>2. KeptOf(s, src.batches, Through(Resting, s)) = <<>>
      BY <3>1, KeptNone
    <3>3. QED
      BY <1>1, <1>2, <1>3, <1>4, <3>2 DEF Holds
  <2>2. QED
    BY <1>1, <2>1 DEF Faultless
<1>8. QED
  BY <1>6, <1>7

\* A copy not begun has copied nothing.
LEMMA RestingGilded ==
  ASSUME NEW c \in OutFiles
  PROVE  Gilded(Resting, NoFile, c) /\ TrulyGilded(Resting, NoFile, c)
<1>1. /\ Resting.pc = "wait" /\ Resting.k = 1 /\ Resting.open = {}
      /\ Resting.count["gold"] = 0
  BY DEF Resting, Sides
<1>2. NoFile.rows = <<>> /\ NoFile.state = "none" /\ Len(<<>>) = 0
  BY DEF NoFile
<1>3. SumFunction(<<>>) = 0 /\ SumTo(c.rows, 0) = 0 /\ Len(c.rows) \in Nat
  BY RestingTyped, RowsTyped
<1>4. 1 <= Len(c.rows) + 1 /\ 1 - 1 = 0
  BY <1>3
<1>5. QED
  BY <1>1, <1>2, <1>3, <1>4 DEF Gilded, TrulyGilded, Copied

\* The bounded input files of the model are input files.
LEMMA InputsTyped ==
  [Files -> [readable: BOOLEAN, batches: UNION {[1 .. n -> Batches] : n \in 0 .. MaxBatches}]]
    \subseteq [Files -> Inputs]
<1>1. ASSUME NEW s \in UNION {[1 .. n -> Batches] : n \in 0 .. MaxBatches}
      PROVE  s \in Seq([clean: Nat, trash: Nat])
  <2>1. PICK n \in 0 .. MaxBatches : s \in [1 .. n -> Batches]
    OBVIOUS
  <2>2. n \in Nat /\ s \in [1 .. n -> [clean: Nat, trash: Nat]]
    BY <2>1, BatchesTyped
  <2>3. QED
    BY <2>2, FunctionIsSeq
<1>2. QED
  BY <1>1 DEF Inputs

\* The invariant holds before the first call.
LEMMA LakeInit ==
  ASSUME Init
  PROVE  LakeParts
<1>1. /\ input \in [Files -> Inputs] /\ tree = [s \in Sides |-> [f \in Files |-> NoFile]]
      /\ job = "idle" /\ worker = [f \in Files |-> Resting] /\ report = NoReport /\ faults = 0
  BY InputsTyped DEF Init
<1>2. Typed /\ report \in Reports
  BY <1>1, RestingTyped DEF Typed
<1>3. ASSUME NEW f \in Files PROVE InLake(f) /\ worker[f].pc = "wait"
  <2>1. input[f] \in Inputs /\ worker[f] = Resting /\ \A s \in Sides : FileAt(f)[s] = NoFile
    BY <1>1 DEF FileAt
  <2>2. QED
    BY <2>1, RestingHandled DEF InLake, Resting
<1>4. QED
  BY <1>1, <1>2, <1>3 DEF LakeParts

\* What is on disk is what the trees hold.
LEMMA OnDiskSame ==
  ASSUME NEW side \in Sides,
         \A f \in Files : (FileAt(f)[side])' = FileAt(f)[side]
  PROVE  RowsOnDisk(side)' = RowsOnDisk(side)
<1>1. \A f \in Files : tree'[side][f] = tree[side][f]
  BY DEF FileAt
<1>2. QED
  BY <1>1 DEF RowsOnDisk

\* What was returned holds as long as the clean and the trash tree stay.
LEMMA ReportedSame ==
  ASSUME Reported, UNCHANGED <<input, report>>, Untouched, faults' = 0 => faults = 0
  PROVE  Reported'
<1>1. RowsOnDisk("clean")' = RowsOnDisk("clean") /\ RowsOnDisk("trash")' = RowsOnDisk("trash")
  BY OnDiskSame DEF Untouched, Sides
<1>2. ASSUME NEW f \in Files, TrueFile(f) PROVE TrueFile(f)'
  BY <1>2 DEF TrueFile, Untouched
<1>3. QED
  BY <1>1, <1>2 DEF Reported

\* It holds when clean_parquet starts.
LEMMA StartLakeRight ==
  ASSUME LakeParts, StartLake
  PROVE  LakeParts'
<1>1. job = "idle" /\ job' = "lake" /\ UNCHANGED <<input, tree, worker, report, faults>>
  BY DEF StartLake
<1>2. Typed' /\ \A f \in Files : InLake(f)'
  BY <1>1 DEF LakeParts, Typed, InLake, FileAt
<1>3. QED
  BY <1>1, <1>2 DEF LakeParts

\* It holds when create_gold starts on what the lake left.
LEMMA StartGoldRight ==
  ASSUME LakeParts, StartGold
  PROVE  LakeParts'
<1>1. /\ job = "lake done" /\ job' = "gold" /\ worker' = [f \in Files |-> Resting]
      /\ UNCHANGED <<input, tree, report, faults>>
  BY DEF StartGold
<1>2. Typed /\ Reported /\ \A f \in Files : FileAt(f)["gold"] = NoFile
  BY <1>1 DEF LakeParts
<1>3. Typed'
  BY <1>1, <1>2, RestingTyped DEF Typed
<1>4. \A f : FileAt(f)' = FileAt(f)
  BY <1>1 DEF FileAt
<1>5. Reported'
  BY <1>1, <1>2, <1>4, ReportedSame DEF Untouched
<1>6. ASSUME NEW f \in Files PROVE InGold(f)'
  <2>1. PICK c \in OutFiles : c = FileAt(f)["clean"]
    BY <1>2, TypedFile
  <2>2. Gilded(Resting, NoFile, c) /\ TrulyGilded(Resting, NoFile, c)
    BY RestingGilded
  <2>3. worker'[f] = Resting /\ FileAt(f)["gold"] = NoFile
    BY <1>1, <1>2
  <2>4. QED
    BY <1>4, <2>1, <2>2, <2>3 DEF InGold
<1>7. QED
  BY <1>1, <1>3, <1>5, <1>6 DEF LakeParts

\* A closure of the lake job that is done, without I/O errors.
LEMMA LakeFileDone ==
  ASSUME NEW w \in Workers, NEW t \in [Sides -> OutFiles], NEW src \in Inputs,
         Handled(w, t, src), Faultless(w, t, src), w.pc \in {"done", "skipped"},
         NEW s \in {"clean", "trash"}
  PROVE  /\ t[s] = FileOf(Whole(src, s))
         /\ w.pc = "done" => w.count[s] = IF t[s].state = "closed" THEN SumFunction(t[s].rows) ELSE 0
<1>1. PICK n \in Nat : n = Len(src.batches) /\ (n + 1) - 1 = n /\ 1 - 1 = 0
  BY DEF Inputs
<1>2. PICK rows : rows = KeptOf(s, src.batches, Through(w, s))
  OBVIOUS
<1>3. Holds(w, t[s], s, rows)
  BY <1>2 DEF Faultless
<1>4. rows = Whole(src, s)
  <2>1. CASE w.pc = "done"
    <3>1. src.readable /\ w.k = n + 1
      BY <1>1, <2>1 DEF Faultless
    <3>2. Through(w, s) = n
      BY <1>1, <2>1, <3>1 DEF Through
    <3>3. QED
      BY <1>1, <1>2, <3>1, <3>2 DEF Whole
  <2>2. CASE w.pc = "skipped"
    <3>1. ~src.readable /\ w.k = 1
      BY <2>2 DEF Faultless
    <3>2. Through(w, s) = 0
      BY <1>1, <2>2, <3>1 DEF Through
    <3>3. QED
      BY <1>2, <3>1, <3>2, KeptNone DEF Whole
  <2>3. QED
    BY <2>1, <2>2
<1>5. PICK file \in OutFiles : file = t[s]
  BY DEF Sides
<1>6. file = [state |-> file.state, rows |-> file.rows]
  BY DEF OutFiles
<1>7. file.rows = rows /\ w.count[s] = SumFunction(rows)
      /\ file.state = IF rows = <<>> THEN "none" ELSE IF w.pc = "done" THEN "closed" ELSE "open"
  BY <1>3, <1>5 DEF Holds
<1>8. w.pc = "skipped" => rows = <<>>
  BY <1>4 DEF Whole, Faultless
<1>9. file = FileOf(rows)
  <2>1. CASE rows = <<>>
    BY <1>6, <1>7, <2>1 DEF FileOf, NoFile
  <2>2. CASE rows # <<>>
    BY <1>6, <1>7, <1>8, <2>2 DEF FileOf
  <2>3. QED
    BY <2>1, <2>2
<1>10. SumFunction(<<>>) = 0
  BY RestingTyped
<1>11. ASSUME w.pc = "done"
       PROVE  w.count[s] = IF file.state = "closed" THEN SumFunction(file.rows) ELSE 0
  BY <1>7, <1>10, <1>11
<1>12. QED
  BY <1>4, <1>5, <1>9, <1>11

\* It holds when clean_parquet adds the counts of its workers up.
LEMMA ReturnLakeRight ==
  ASSUME LakeParts, ReturnLake
  PROVE  LakeParts'
<1>1. /\ job = "lake" /\ job' = "lake done" /\ UNCHANGED <<input, tree, worker, faults>>
      /\ \A f \in Files : worker[f].pc \in {"done", "skipped"}
  BY DEF ReturnLake, Ended, Found
<1>2. Typed /\ report \in Reports /\ \A f \in Files : InLake(f)
  BY <1>1 DEF LakeParts
<1>3. PICK n, a, c, t : /\ n = Cardinality(Files) /\ c = Counted("clean") /\ t = Counted("trash")
                        /\ a = SumFunctionOnSet([f \in Files |-> worker[f].total], Results)
  OBVIOUS
<1>4. report' = [report EXCEPT !.files = n, !.total = a, !.clean = c, !.trash = t]
  BY <1>3 DEF ReturnLake
<1>5. n \in Nat
  BY <1>3, WriterBounds, FS_CardinalityType
<1>6. ASSUME NEW s \in {"clean", "trash"}
      PROVE  /\ Counted(s) \in Nat /\ RowsOnDisk(s) \in Nat /\ RowsOnDisk(s) <= Counted(s)
             /\ faults = 0 => RowsOnDisk(s) = Counted(s)
  <2>1. s \in Sides
    BY DEF Sides
  <2>2. \A f \in Files : /\ SumFunction(FileAt(f)[s].rows) <= worker[f].count[s]
                         /\ FileAt(f)[s].state = "closed" => worker[f].pc = "done"
    BY <1>2 DEF InLake, Handled
  <2>3. ASSUME faults = 0, NEW f \in Files, worker[f].pc = "done"
        PROVE  worker[f].count[s] = IF FileAt(f)[s].state = "closed"
                                      THEN SumFunction(FileAt(f)[s].rows) ELSE 0
    <3>1. PICK w \in Workers, u \in [Sides -> OutFiles], src \in Inputs :
            w = worker[f] /\ u = FileAt(f) /\ src = input[f]
      BY <1>2, TypedFile
    <3>2. Handled(w, u, src) /\ Faultless(w, u, src) /\ w.pc = "done"
      BY <1>2, <2>3, <3>1 DEF InLake
    <3>3. w.pc \in {"done", "skipped"}
      BY <3>2
    <3>4. w.count[s] = IF u[s].state = "closed" THEN SumFunction(u[s].rows) ELSE 0
      BY <3>2, <3>3, LakeFileDone
    <3>5. QED
      BY <3>1, <3>4
  <2>4. /\ Counted(s) \in Nat /\ RowsOnDisk(s) \in Nat /\ RowsOnDisk(s) <= Counted(s)
        /\ (\A f \in Files : worker[f].pc = "done" =>
              worker[f].count[s] = IF FileAt(f)[s].state = "closed"
                                     THEN SumFunction(FileAt(f)[s].rows) ELSE 0)
             => RowsOnDisk(s) = Counted(s)
    BY <1>2, <2>1, <2>2, Covered
  <2>5. QED
    BY <2>3, <2>4
<1>7. a = c + t
  <2>1. PICK R, x, y, z : /\ R = Results /\ x = CountOf("clean") /\ y = CountOf("trash")
                          /\ z = [f \in Files |-> worker[f].total]
    OBVIOUS
  <2>2. "clean" \in Sides /\ "trash" \in Sides
    BY DEF Sides
  <2>3. /\ R \in SUBSET Files /\ c = SumFunctionOnSet(x, R) /\ t = SumFunctionOnSet(y, R)
        /\ a = SumFunctionOnSet(z, R)
    BY <1>2, <1>3, <2>1, <2>2, CountOfTyped
  <2>4. ASSUME NEW f \in R PROVE x[f] \in Nat /\ y[f] \in Nat /\ z[f] = x[f] + y[f]
    <3>1. f \in Files /\ worker[f].pc = "done"
      BY <2>1 DEF Results
    <3>2. /\ x[f] = worker[f].count["clean"] /\ x[f] \in Nat
          /\ y[f] = worker[f].count["trash"] /\ y[f] \in Nat
      BY <1>2, <2>1, <2>2, <3>1, CountOfTyped
    <3>3. Due(worker[f], input[f].batches) = 0
      BY <3>1 DEF Due
    <3>4. worker[f].total = x[f] + y[f] + 0
      BY <1>2, <3>1, <3>2, <3>3 DEF InLake, Handled
    <3>5. QED
      BY <2>1, <3>1, <3>2, <3>4
  <2>5. IsFiniteSet(R)
    BY <2>3, WriterBounds, FS_Subset
  <2>6. QED
    BY <2>3, <2>4, <2>5, SumPlus
<1>8. c \in Nat /\ t \in Nat /\ a \in Nat
  BY <1>3, <1>6, <1>7
<1>9. /\ report' \in Reports /\ report'.total = a /\ report'.clean = c /\ report'.trash = t
  BY <1>2, <1>4, <1>5, <1>8 DEF Reports
<1>10. \A f : FileAt(f)' = FileAt(f)
  BY <1>1 DEF FileAt
<1>11. RowsOnDisk("clean")' = RowsOnDisk("clean") /\ RowsOnDisk("trash")' = RowsOnDisk("trash")
  BY <1>1 DEF RowsOnDisk
<1>12. ASSUME faults = 0, NEW f \in Files PROVE TrueFile(f)'
  <2>1. PICK w \in Workers, u \in [Sides -> OutFiles], src \in Inputs :
          w = worker[f] /\ u = FileAt(f) /\ src = input[f]
    BY <1>2, TypedFile
  <2>2. Handled(w, u, src) /\ Faultless(w, u, src) /\ w.pc \in {"done", "skipped"}
    BY <1>1, <1>2, <1>12, <2>1 DEF InLake
  <2>3. \A s \in {"clean", "trash"} : u[s] = FileOf(Whole(src, s))
    BY <2>2, LakeFileDone
  <2>4. input'[f] = src /\ FileAt(f)' = u
    BY <1>1, <1>10, <2>1
  <2>5. QED
    BY <2>3, <2>4 DEF TrueFile
<1>13. Reported'
  BY <1>1, <1>3, <1>6, <1>7, <1>9, <1>11, <1>12 DEF Reported
<1>14. \A f \in Files : (FileAt(f)["gold"])' = NoFile
  BY <1>2, <1>10 DEF InLake, Handled
<1>15. Typed'
  BY <1>1, <1>2 DEF Typed
<1>16. \A f \in Files : worker'[f].pc \in {"wait", "done", "skipped"}
  BY <1>1
<1>17. QED
  BY <1>1, <1>9, <1>13, <1>14, <1>15, <1>16 DEF LakeParts

\* Two sequences of the same elements.
LEMMA SameElements ==
  ASSUME NEW S, NEW r \in Seq(S), NEW q \in Seq(S), NEW n \in Nat, Len(r) = n, Len(q) = n,
         \A i \in 1 .. n : r[i] = q[i]
  PROVE  r = q
<1>1. r = [i \in 1 .. n |-> r[i]] /\ q = [i \in 1 .. n |-> q[i]]
  OBVIOUS
<1>2. [i \in 1 .. n |-> r[i]] = [i \in 1 .. n |-> q[i]]
  OBVIOUS
<1>3. QED
  BY <1>1, <1>2

\* A closure of the gold job that is done.
LEMMA GoldFileDone ==
  ASSUME NEW w \in Workers, NEW g \in OutFiles, NEW c \in OutFiles, Gilded(w, g, c), w.pc = "done"
  PROVE  /\ w.count["gold"] \in Nat /\ w.count["gold"] <= SumFunction(c.rows) /\ c.state = "closed"
         /\ TrulyGilded(w, g, c) =>
              /\ g.rows = c.rows /\ (g.state = IF c.rows = <<>> THEN "none" ELSE "closed")
              /\ w.count["gold"] = SumFunction(g.rows)
<1>1. PICK len \in Nat, k \in Nat : len = Len(c.rows) /\ k = w.k /\ k >= 1 /\ k <= len + 1
  BY RowsTyped DEF Gilded, Workers
<1>2. PICK m \in Nat : m = k - 1 /\ m <= len /\ (k = len + 1 => m = len)
  BY <1>1
<1>3. \A i \in 1 .. len : c.rows[i] \in Nat
  BY <1>1, RowsTyped
<1>4. SumTo(c.rows, m) <= SumTo(c.rows, len)
  BY <1>2, <1>3, SumToGrows
<1>5. SumTo(c.rows, len) = SumFunction(c.rows) /\ SumFunction(c.rows) \in Nat
  BY <1>1, RowsTyped
<1>6. SumTo(c.rows, m) \in Nat
  <2>1. \A i \in 1 .. m : c.rows[i] \in Nat
    BY <1>2, <1>3
  <2>2. QED
    BY <2>1, SumToStep
<1>7. w.count["gold"] \in Nat /\ w.count["gold"] <= SumTo(c.rows, m)
  BY <1>1, <1>2 DEF Gilded, Workers, Sides
<1>8. w.count["gold"] <= SumFunction(c.rows)
  BY <1>4, <1>5, <1>6, <1>7
<1>9. c.state = "closed"
  BY DEF Gilded
<1>10. ASSUME TrulyGilded(w, g, c)
       PROVE  /\ g.rows = c.rows /\ (g.state = IF c.rows = <<>> THEN "none" ELSE "closed")
              /\ w.count["gold"] = SumFunction(g.rows)
  <2>1. k = len + 1 /\ Copied(w, g, c)
    BY <1>1, <1>10 DEF TrulyGilded
  <2>2. /\ Len(g.rows) = len /\ \A i \in 1 .. len : g.rows[i] = c.rows[i]
        /\ w.count["gold"] = SumFunction(g.rows)
        /\ g.state = IF k = 1 THEN "none" ELSE "closed"
    BY <1>1, <1>2, <2>1 DEF Copied
  <2>3. PICK r \in Seq(Nat \ {0}), q \in Seq(Nat \ {0}) : r = g.rows /\ q = c.rows
    BY RowsTyped
  <2>4. r = q
    <3>1. Len(r) = len /\ Len(q) = len /\ \A i \in 1 .. len : r[i] = q[i]
      BY <1>1, <2>2, <2>3
    <3>2. QED
      BY <3>1, SameElements
  <2>5. k = 1 <=> q = <<>>
    <3>1. len = 0 <=> q = <<>>
      BY <1>1, <2>3, EmptySeq
    <3>2. QED
      BY <2>1, <3>1
  <2>6. QED
    BY <2>2, <2>3, <2>4, <2>5
<1>11. QED
  BY <1>7, <1>8, <1>9, <1>10

\* It holds when create_gold does.
LEMMA ReturnGoldRight ==
  ASSUME LakeParts, ReturnGold
  PROVE  LakeParts'
<1>1. /\ job = "gold" /\ job' = "gold done" /\ UNCHANGED <<input, tree, worker, faults>>
      /\ \A f \in Files : worker[f].pc \in {"done", "skipped"} \/ ~Found(f)
  BY DEF ReturnGold, Ended
<1>2. Typed /\ report \in Reports /\ Reported /\ \A f \in Files : InGold(f)
  BY <1>1 DEF LakeParts
<1>3. PICK n, g : n = Cardinality({f \in Files : Found(f)}) /\ g = Counted("gold")
  OBVIOUS
<1>4. report' = [report EXCEPT !.files = n, !.gold = g]
  BY <1>3 DEF ReturnGold
<1>5. n \in Nat
  <2>1. IsFiniteSet({f \in Files : Found(f)})
    BY WriterBounds, FS_Subset
  <2>2. QED
    BY <1>3, <2>1, FS_CardinalityType
<1>6. "gold" \in Sides /\ "clean" \in Sides
  BY DEF Sides
<1>7. ASSUME NEW f \in Files
      PROVE  /\ worker[f].pc \in {"wait", "done", "skipped"}
             /\ worker[f].pc = "wait" => FileAt(f)["clean"].state = "none"
  <2>1. CASE worker[f].pc \in {"done", "skipped"}
    BY <2>1
  <2>2. CASE ~Found(f)
    <3>1. FileAt(f)["clean"].state = "none"
      BY <1>1, <1>2, <2>2, TypedFile DEF Found
    <3>2. worker[f].pc \in {"wait", "skipped"}
      BY <1>2, <3>1 DEF InGold, Gilded
    <3>3. QED
      BY <3>1, <3>2
  <2>3. QED
    BY <1>1, <2>1, <2>2
<1>8. ASSUME NEW f \in Files, worker[f].pc = "done"
      PROVE  /\ worker[f].count["gold"] \in Nat
             /\ worker[f].count["gold"] <= SumFunction(FileAt(f)["clean"].rows)
             /\ FileAt(f)["clean"].state = "closed"
             /\ faults = 0 =>
                  /\ FileAt(f)["gold"].rows = FileAt(f)["clean"].rows
                  /\ FileAt(f)["gold"].state =
                       IF FileAt(f)["clean"].rows = <<>> THEN "none" ELSE "closed"
                  /\ worker[f].count["gold"] = SumFunction(FileAt(f)["gold"].rows)
  <2>1. PICK w \in Workers, t \in OutFiles, c \in OutFiles :
          w = worker[f] /\ t = FileAt(f)["gold"] /\ c = FileAt(f)["clean"]
    BY <1>2, TypedFile
  <2>2. Gilded(w, t, c) /\ (faults = 0 => TrulyGilded(w, t, c)) /\ w.pc = "done"
    BY <1>2, <1>8, <2>1 DEF InGold
  <2>3. /\ w.count["gold"] \in Nat /\ w.count["gold"] <= SumFunction(c.rows) /\ c.state = "closed"
        /\ TrulyGilded(w, t, c) =>
             /\ t.rows = c.rows /\ (t.state = IF c.rows = <<>> THEN "none" ELSE "closed")
             /\ w.count["gold"] = SumFunction(t.rows)
    BY <2>2, GoldFileDone
  <2>4. QED
    BY <2>1, <2>2, <2>3
<1>9. SumFunction(<<>>) = 0
  BY RestingTyped
<1>10. /\ Counted("gold") \in Nat /\ RowsOnDisk("gold") \in Nat
       /\ RowsOnDisk("gold") <= Counted("gold")
       /\ faults = 0 => RowsOnDisk("gold") = Counted("gold")
  <2>1. \A f \in Files : /\ SumFunction(FileAt(f)["gold"].rows) <= worker[f].count["gold"]
                         /\ FileAt(f)["gold"].state = "closed" => worker[f].pc = "done"
    BY <1>2 DEF InGold, Gilded
  <2>2. ASSUME faults = 0, NEW f \in Files, worker[f].pc = "done"
        PROVE  worker[f].count["gold"] = IF FileAt(f)["gold"].state = "closed"
                                           THEN SumFunction(FileAt(f)["gold"].rows) ELSE 0
    <3>1. /\ FileAt(f)["gold"].rows = FileAt(f)["clean"].rows
          /\ FileAt(f)["gold"].state = IF FileAt(f)["clean"].rows = <<>> THEN "none" ELSE "closed"
          /\ worker[f].count["gold"] = SumFunction(FileAt(f)["gold"].rows)
      BY <1>8, <2>2
    <3>2. QED
      BY <1>9, <3>1
  <2>3. /\ Counted("gold") \in Nat /\ RowsOnDisk("gold") \in Nat
        /\ RowsOnDisk("gold") <= Counted("gold")
        /\ (\A f \in Files : worker[f].pc = "done" =>
              worker[f].count["gold"] = IF FileAt(f)["gold"].state = "closed"
                                          THEN SumFunction(FileAt(f)["gold"].rows) ELSE 0)
             => RowsOnDisk("gold") = Counted("gold")
    BY <1>2, <1>6, <2>1, Covered
  <2>4. QED
    BY <2>2, <2>3
<1>11. g <= RowsOnDisk("clean") /\ RowsOnDisk("clean") \in Nat
  <2>1. PICK cnt, low, high, R : /\ cnt = CountOf("gold") /\ high = OnDisk("clean") /\ R = Results
                                 /\ low = [f \in Files |-> 0]
    OBVIOUS
  <2>2. /\ g = SumFunctionOnSet(cnt, R) /\ RowsOnDisk("clean") = SumFunctionOnSet(high, Files)
        /\ R \in SUBSET Files
        /\ \A f \in Files : cnt[f] \in Nat /\ low[f] \in Nat /\ high[f] \in Nat
    BY <1>2, <1>3, <1>6, <2>1, CountOfTyped, OnDiskTyped
  <2>3. \A f \in Files \ R : low[f] = 0
    BY <2>1
  <2>4. \A f \in R : cnt[f] <= high[f]
    <3>1. ASSUME NEW f \in R PROVE cnt[f] <= high[f]
      <4>1. f \in Files /\ worker[f].pc = "done"
        BY <2>1 DEF Results
      <4>2. cnt[f] = worker[f].count["gold"]
        BY <1>2, <1>6, <2>1, <4>1, CountOfTyped
      <4>3. high[f] = IF FileAt(f)["clean"].state = "closed"
                        THEN SumFunction(FileAt(f)["clean"].rows) ELSE 0
        BY <1>2, <1>6, <2>1, <4>1, OnDiskTyped
      <4>4. QED
        BY <1>8, <4>1, <4>2, <4>3
    <3>2. QED
      BY <3>1
  <2>5. QED
    BY <2>2, <2>3, <2>4, SumBetween
<1>12. ASSUME faults = 0, NEW f \in Files PROVE FileAt(f)["gold"] = FileAt(f)["clean"]
  <2>1. PICK w \in Workers, t \in OutFiles, c \in OutFiles :
          w = worker[f] /\ t = FileAt(f)["gold"] /\ c = FileAt(f)["clean"]
    BY <1>2, TypedFile
  <2>2. Gilded(w, t, c) /\ TrulyGilded(w, t, c)
    BY <1>2, <1>12, <2>1 DEF InGold
  <2>3. /\ t = [state |-> t.state, rows |-> t.rows] /\ c = [state |-> c.state, rows |-> c.rows]
    BY DEF OutFiles
  <2>4. PICK rows : c = FileOf(rows)
    BY <1>2, <1>12, <2>1 DEF Reported, TrueFile
  <2>5. c.rows = <<>> <=> c.state = "none"
    <3>1. CASE rows = <<>>
      BY <2>4, <3>1 DEF FileOf, NoFile
    <3>2. CASE rows # <<>>
      BY <2>4, <3>2 DEF FileOf
    <3>3. QED
      BY <3>1, <3>2
  <2>6. c.state # "open"
    <3>1. CASE rows = <<>>
      BY <2>4, <3>1 DEF FileOf, NoFile
    <3>2. CASE rows # <<>>
      BY <2>4, <3>2 DEF FileOf
    <3>3. QED
      BY <3>1, <3>2
  <2>7. CASE w.pc = "done"
    <3>1. t.rows = c.rows /\ (t.state = IF c.rows = <<>> THEN "none" ELSE "closed")
          /\ c.state = "closed"
      BY <1>8, <1>12, <2>1, <2>7
    <3>2. t.state = c.state
      BY <2>5, <3>1
    <3>3. QED
      BY <2>1, <2>3, <3>1, <3>2
  <2>8. CASE w.pc \in {"wait", "skipped"}
    <3>1. w.pc = "wait" /\ c.state = "none"
      BY <1>7, <2>1, <2>2, <2>6, <2>8 DEF TrulyGilded
    <3>2. w.k = 1 /\ t.state = "none" /\ Len(t.rows) = 0
      BY <2>2, <3>1 DEF TrulyGilded, Copied
    <3>3. t.rows = <<>> /\ c.rows = <<>>
      BY <2>5, <3>1, <3>2, RowsTyped, EmptySeq
    <3>4. QED
      BY <2>1, <2>3, <3>1, <3>2, <3>3
  <2>9. QED
    BY <1>7, <2>1, <2>7, <2>8
<1>13. \A f : FileAt(f)' = FileAt(f)
  BY <1>1 DEF FileAt
<1>14. /\ RowsOnDisk("clean")' = RowsOnDisk("clean") /\ RowsOnDisk("trash")' = RowsOnDisk("trash")
       /\ RowsOnDisk("gold")' = RowsOnDisk("gold")
  BY <1>1 DEF RowsOnDisk
<1>15. /\ report' \in Reports /\ report'.gold = g /\ report'.clean = report.clean
       /\ report'.trash = report.trash /\ report'.total = report.total
  <2>1. g \in Nat
    BY <1>3, <1>10
  <2>2. QED
    BY <1>2, <1>4, <1>5, <2>1 DEF Reports
<1>16. GoldReported'
  <2>1. PICK a \in Nat, b \in Nat, e \in Nat :
          a = g /\ b = RowsOnDisk("clean") /\ e = report.clean /\ a <= b /\ b <= e
    BY <1>2, <1>3, <1>10, <1>11 DEF Reported, Reports
  <2>2. a <= e
    BY <2>1
  <2>3. QED
    BY <1>1, <1>3, <1>10, <1>12, <1>13, <1>14, <1>15, <2>1, <2>2 DEF GoldReported
<1>17. Reported'
  <2>1. \A f : TrueFile(f) => TrueFile(f)'
    BY <1>1, <1>13 DEF TrueFile
  <2>2. QED
    BY <1>1, <1>2, <1>14, <1>15, <2>1 DEF Reported
<1>18. Typed'
  BY <1>1, <1>2 DEF Typed
<1>19. \A f \in Files : worker'[f].pc \in {"wait", "done", "skipped"}
  BY <1>1, <1>7
<1>20. QED
  BY <1>1, <1>15, <1>16, <1>17, <1>18, <1>19 DEF LakeParts

\* A step of a closure.
LEMMA FileStepRight ==
  ASSUME LakeParts, NEW f \in Files, FileStep(f)
  PROVE  LakeParts'
<1>1. Typed /\ report \in Reports
  BY DEF LakeParts
<1>2. ASSUME Moved(f) PROVE Typed' /\ report' \in Reports
  BY <1>1, <1>2 DEF Moved, Typed
<1>3. CASE job = "lake"
  <2>1. \A g \in Files : InLake(g)
    BY <1>3 DEF LakeParts
  <2>2. Moved(f) /\ InLake(f)'
    BY <1>1, <1>3, <2>1, LakeFileStep
  <2>3. ASSUME NEW g \in Files \ {f} PROVE InLake(g)'
    <3>1. worker'[g] = worker[g] /\ FileAt(g)' = FileAt(g) /\ input' = input
          /\ (faults' = 0 => faults = 0)
      BY <2>2 DEF Moved
    <3>2. QED
      BY <2>1, <3>1 DEF InLake
  <2>4. job' = "lake"
    BY <1>3, <2>2 DEF Moved
  <2>5. \A g \in Files : InLake(g)'
    BY <2>2, <2>3
  <2>6. QED
    BY <1>2, <2>2, <2>4, <2>5 DEF LakeParts
<1>4. CASE job = "gold"
  <2>1. Reported /\ \A g \in Files : InGold(g)
    BY <1>4 DEF LakeParts
  <2>2. Moved(f) /\ InGold(f)' /\ Untouched
    BY <1>1, <1>4, <2>1, GoldFileStep
  <2>3. ASSUME NEW g \in Files \ {f} PROVE InGold(g)'
    <3>1. worker'[g] = worker[g] /\ FileAt(g)' = FileAt(g) /\ (faults' = 0 => faults = 0)
      BY <2>2 DEF Moved
    <3>2. QED
      BY <2>1, <3>1 DEF InGold
  <2>4. job' = "gold" /\ UNCHANGED <<input, report>> /\ (faults' = 0 => faults = 0)
    BY <1>4, <2>2 DEF Moved
  <2>5. \A g \in Files : InGold(g)'
    BY <2>2, <2>3
  <2>6. Reported'
    BY <2>1, <2>2, <2>4, ReportedSame
  <2>7. QED
    BY <1>2, <2>2, <2>4, <2>5, <2>6 DEF LakeParts
<1>5. CASE job \notin {"lake", "gold"}
  <2>1. worker[f].pc \in {"wait", "done", "skipped"}
    BY <1>5 DEF LakeParts
  <2>2. QED
    BY <1>5, <2>1 DEF FileStep, OpenFile, ReadBatch, EndOfFile, CloseFile, WriteBatch,
                      WriteNothing, Sides
<1>6. QED
  BY <1>3, <1>4, <1>5

\* It holds when nothing changes.
LEMMA LakeStutter ==
  ASSUME LakeParts, UNCHANGED vars
  PROVE  LakeParts'
<1>1. UNCHANGED <<input, tree, job, worker, report, faults>>
  BY DEF vars
<1>2. (\A f : FileAt(f)' = FileAt(f)) /\ (\A s : RowsOnDisk(s)' = RowsOnDisk(s))
  BY <1>1 DEF FileAt, RowsOnDisk
<1>3. \A f : (InLake(f) => InLake(f)') /\ (InGold(f) => InGold(f)') /\ (TrueFile(f) => TrueFile(f)')
  BY <1>1, <1>2 DEF InLake, InGold, TrueFile
<1>4. Typed => Typed'
  BY <1>1 DEF Typed
<1>5. (Reported => Reported') /\ (GoldReported => GoldReported')
  BY <1>1, <1>2, <1>3 DEF Reported, GoldReported
<1>6. job \in {"idle", "lake"} => \A f \in Files : InLake(f)'
  BY <1>3 DEF LakeParts
<1>7. job = "gold" => \A f \in Files : InGold(f)'
  BY <1>3 DEF LakeParts
<1>8. job = "lake done" => \A f \in Files : (FileAt(f)["gold"])' = NoFile
  BY <1>2 DEF LakeParts
<1>9. job \in {"lake done", "gold", "gold done"} => Reported'
  BY <1>5 DEF LakeParts
<1>10. job = "gold done" => GoldReported'
  BY <1>5 DEF LakeParts
<1>11. /\ job \notin {"lake", "gold"} =>
            \A f \in Files : worker'[f].pc \in {"wait", "done", "skipped"}
       /\ Typed' /\ report' \in Reports
       /\ job' \in {"idle", "lake", "lake done", "gold", "gold done"}
  BY <1>1, <1>4 DEF LakeParts
<1>12. job' = job
  BY <1>1
<1>13. QED
  BY <1>6, <1>7, <1>8, <1>9, <1>10, <1>11, <1>12 DEF LakeParts

\* Every step of the two jobs preserves it.
LEMMA LakeStep ==
  ASSUME LakeParts, Next
  PROVE  LakeParts'
<1>1. ASSUME NEW f \in Files,
             \/ OpenFile(f) \/ ReadBatch(f) \/ EndOfFile(f) \/ CloseFile(f)
             \/ \E s \in Sides : WriteBatch(s, f) \/ WriteNothing(s, f)
      PROVE  LakeParts'
  BY <1>1, FileStepRight DEF FileStep
<1>2. QED
  BY <1>1, StartLakeRight, StartGoldRight, ReturnLakeRight, ReturnGoldRight DEF Next

\* It implies that the trees are true and the counts cover them.
LEMMA LakeSafe ==
  ASSUME LakeParts
  PROVE  TreesTrue /\ CountsCoverDisk
<1>1. \A s \in {"clean", "trash"}, f \in Files :
        (IF input[f].readable THEN Kept(s, f, Len(input[f].batches)) ELSE <<>>)
          = Whole(input[f], s)
  BY DEF Kept, KeptOf, Whole
<1>2. \A s \in Sides, f \in Files : FileAt(f)[s] = tree[s][f]
  BY DEF FileAt
<1>3. "clean" \in Sides /\ "trash" \in Sides /\ "gold" \in Sides
  BY DEF Sides
<1>4. ASSUME job = "lake done" /\ faults = 0, NEW f \in Files, NEW s \in {"clean", "trash"}
      PROVE  tree[s][f] = FileOf(Whole(input[f], s))
  <2>1. TrueFile(f)
    BY <1>4 DEF LakeParts, Reported
  <2>2. QED
    BY <1>2, <1>3, <2>1 DEF TrueFile
<1>5. ASSUME job = "gold done", faults = 0 PROVE tree["gold"] = tree["clean"]
  <2>1. tree["gold"] \in [Files -> OutFiles] /\ tree["clean"] \in [Files -> OutFiles]
    BY <1>3 DEF LakeParts, Typed
  <2>2. \A f \in Files : tree["gold"][f] = tree["clean"][f]
    BY <1>2, <1>3, <1>5 DEF LakeParts, GoldReported
  <2>3. QED
    BY <2>1, <2>2
<1>6. TreesTrue
  <2> DEFINE left(s, f) == IF input[f].readable THEN Kept(s, f, Len(input[f].batches)) ELSE <<>>
  <2>1. ASSUME job = "lake done" /\ faults = 0, NEW f \in Files, NEW s \in {"clean", "trash"}
        PROVE  tree[s][f] = IF left(s, f) = <<>> THEN NoFile
                                                 ELSE [state |-> "closed", rows |-> left(s, f)]
    <3>1. left(s, f) = Whole(input[f], s)
      BY <1>1, <2>1
    <3>2. tree[s][f] = FileOf(left(s, f))
      BY <1>4, <2>1, <3>1
    <3>3. QED
      BY <3>2 DEF FileOf
  <2>2. ASSUME job = "lake done", faults = 0
        PROVE  report.clean = RowsOnDisk("clean") /\ report.trash = RowsOnDisk("trash")
    BY <2>2 DEF LakeParts, Reported
  <2>3. ASSUME job = "gold done", faults = 0 PROVE report.gold = RowsOnDisk("gold")
    BY <2>3 DEF LakeParts, GoldReported
  <2>4. ASSUME job = "lake done" /\ faults = 0
        PROVE  \A f \in Files, s \in {"clean", "trash"} :
                 LET rows == IF input[f].readable THEN Kept(s, f, Len(input[f].batches))
                                                  ELSE <<>> IN
                 tree[s][f] = IF rows = <<>> THEN NoFile ELSE [state |-> "closed", rows |-> rows]
    BY <2>1, <2>4
  <2>5. QED
    BY <1>5, <2>2, <2>3, <2>4 DEF TreesTrue
<1>7. CountsCoverDisk
  <2>1. ASSUME NEW s \in {"clean", "trash", "gold"} PROVE RowsOnDisk(s) \in Nat
    <3>1. s \in Sides /\ Typed
      BY <2>1 DEF Sides, LakeParts
    <3>2. (\A f \in Files : OnDisk(s)[f] \in Nat)
          /\ RowsOnDisk(s) = SumFunctionOnSet(OnDisk(s), Files)
      BY <3>1, OnDiskTyped
    <3>3. QED
      BY <3>2, SumNat, WriterBounds
  <2>2. /\ report.clean \in Nat /\ report.trash \in Nat /\ report.gold \in Nat
    BY DEF LakeParts, Reports
  <2>3. QED
    BY <2>1, <2>2 DEF CountsCoverDisk, LakeParts, Reported, GoldReported
<1>8. QED
  BY <1>6, <1>7

\* The invariant of a lake call, for the composed specification.
LakeInv == call = "lake" => LakeParts

\* The lake writer's invariant holds in every reachable state.
LEMMA LakeInvariant == AuditSpec => []LakeInv
<1>1. AuditInit => LakeInv
  BY LakeInit DEF AuditInit, LakeInv
<1>2. LakeInv /\ [AuditNext]_allVars => LakeInv'
  <2>1. SUFFICES ASSUME LakeInv, [AuditNext]_allVars, call' = "lake" PROVE LakeInv'
    BY DEF LakeInv
  <2>2. call = "lake" /\ LakeParts
    BY <2>1 DEF LakeInv, AuditNext, allVars
  <2>3. CASE Next
    BY <2>2, <2>3, LakeStep DEF LakeInv
  <2>4. CASE UNCHANGED vars
    BY <2>2, <2>4, LakeStutter DEF LakeInv
  <2>5. QED
    BY <2>1, <2>2, <2>3, <2>4 DEF AuditNext, allVars, lakeVars
<1>3. QED
  BY <1>1, <1>2, PTL DEF AuditSpec

\* Whatever the order of the closures and whatever fails, the reports of the
\* lake and of the gold job are right (parquet.rs).
THEOREM LakeReport == AuditSpec => []LakeReportRight
<1>1. LakeInv => LakeReportRight
  BY LakeSafe DEF LakeInv, LakeReportRight
<1>2. QED
  BY <1>1, LakeInvariant, PTL

-----------------------------------------------------------------------------
(* The types of all four. *)

\* What a call of the lake writer never changes: its input files.
LakeGiven == call = "lake" => input \in [Files -> [readable: BOOLEAN, batches: Seq(Batches)]]

\* The batches of an input file are a sequence of those the constant admits.
LEMMA GivenTyped ==
  ASSUME Init
  PROVE  input \in [Files -> [readable: BOOLEAN, batches: Seq(Batches)]]
<1>1. ASSUME NEW s \in UNION {[1 .. n -> Batches] : n \in 0 .. MaxBatches}
      PROVE  s \in Seq(Batches)
  <2>1. PICK n \in 0 .. MaxBatches : s \in [1 .. n -> Batches]
    OBVIOUS
  <2>2. n \in Nat
    BY <2>1
  <2>3. QED
    BY <2>1, <2>2, FunctionIsSeq
<1>2. QED
  BY <1>1 DEF Init

\* No step of the two jobs writes an input file.
LEMMA InputStays ==
  ASSUME Next
  PROVE  input' = input
BY DEF Next, StartLake, StartGold, ReturnLake, ReturnGold, OpenFile, ReadBatch, EndOfFile,
       CloseFile, WriteBatch, WriteNothing

\* The rule filter's invariant implies the types that DynamicFilter states.
LEMMA RulesTypeOK ==
  ASSUME RulesTypes
  PROVE  Dynamic!TypeOK
<1>1. batch \in Seq(Columns \cup Second)
  <2>1. CASE \E c \in Columns : batch = <<c>>
    BY <2>1
  <2>2. CASE \E c \in Columns, e \in Second : batch = <<c, e>>
    BY <2>2
  <2>3. QED
    BY <2>1, <2>2 DEF RulesTypes
<1>2. total \in 0 .. MaxRules
  BY RuleKinds DEF RulesTypes
<1>3. QED
  BY <1>1, <1>2 DEF RulesTypes, Dynamic!TypeOK

\* Masks, codes, chunks, trees, counters and reports keep their types, for
\* batches and directories of any size: no count is ever below zero.
THEOREM AuditTyped == AuditSpec => []AuditTypeOK
<1>1. AuditInit => LakeGiven
  BY GivenTyped DEF AuditInit, LakeGiven
<1>2. LakeGiven /\ [AuditNext]_allVars => LakeGiven'
  BY InputStays DEF LakeGiven, AuditNext, allVars, lakeVars, vars
<1>3. LakeGiven /\ LakeInv /\ StaticInv /\ RulesInv /\ FilesInv => AuditTypeOK
  <2>1. ASSUME LakeGiven, LakeInv, call = "lake" PROVE TypeOK
    BY <2>1 DEF LakeGiven, LakeInv, LakeParts, Typed, OutFiles, Workers, Reports, TypeOK
  <2>2. ASSUME RulesInv, call = "dynamic" PROVE Dynamic!TypeOK
    BY <2>2, RulesTypeOK DEF RulesInv
  <2>3. QED
    BY <2>1, <2>2 DEF AuditTypeOK, StaticInv, FilesInv
<1>4. QED
  BY <1>1, <1>2, <1>3, StaticInvariant, RulesInvariant, FilesInvariant, LakeInvariant, PTL
     DEF AuditSpec
=============================================================================
